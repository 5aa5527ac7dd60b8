-------------------------- MODULE TcpClientProofs ---------------------------
(***************************************************************************)
(* The connection to the gate, for every size of caches, buffers and calls *)
(* and any number of calls and connections: what the three threads do to   *)
(* each other's progress, and what becomes of the calls.                   *)
(***************************************************************************)
EXTENDS TcpClient, SequenceTheorems, TLAPS

LEMMA ConstantTypes ==
    /\ CacheSize \in Nat /\ PrefixSize \in Nat /\ \A n \in CallSizes : n \in Nat /\ n > 0
    /\ RecvSize \in Nat /\ RecvSize > 1
    /\ MaxOut \in Nat /\ MaxIn \in Nat /\ MaxConn \in Nat /\ MaxConn > 0
BY TcpClientAssumption

(* What stays of a sequence when its first k - 1 elements are taken out. *)
LEMMA Cut ==
    ASSUME NEW S, NEW s \in Seq(S), NEW k \in 1..(Len(s) + 1)
    PROVE  /\ SubSeq(s, k, Len(s)) \in Seq(S)
           /\ Len(SubSeq(s, k, Len(s))) = Len(s) - k + 1
           /\ \A i \in 1..(Len(s) - k + 1) : SubSeq(s, k, Len(s))[i] = s[k + i - 1]
<1>1. Len(s) \in Nat /\ \A i \in k..Len(s) : s[i] \in S
    OBVIOUS
<1>2. SubSeq(s, k, Len(s)) \in Seq(S)
    BY <1>1
<1>3. Len(SubSeq(s, k, Len(s))) = Len(s) - k + 1
    BY <1>1
<1>4. \A i \in 1..(Len(s) - k + 1) : SubSeq(s, k, Len(s))[i] = s[k + i - 1]
    BY <1>1
<1> QED
    BY <1>2, <1>3, <1>4

(* Its first n elements. *)
LEMMA Take ==
    ASSUME NEW S, NEW s \in Seq(S), NEW n \in 0..Len(s)
    PROVE  /\ SubSeq(s, 1, n) \in Seq(S)
           /\ Len(SubSeq(s, 1, n)) = n
           /\ \A i \in 1..n : SubSeq(s, 1, n)[i] = s[i]
<1>1. Len(s) \in Nat /\ \A i \in 1..n : s[i] \in S
    OBVIOUS
<1>2. SubSeq(s, 1, n) \in Seq(S)
    BY <1>1
<1>3. Len(SubSeq(s, 1, n)) = n
    BY <1>1
<1>4. \A i \in 1..n : SubSeq(s, 1, n)[i] = s[i]
    BY <1>1
<1> QED
    BY <1>2, <1>3, <1>4

-----------------------------------------------------------------------------
(* The mutexes.                                                            *)

Places ==
    /\ mainPc \in {"idle", "call", "append"} /\ inHandler \in BOOLEAN
    /\ readPc \in {"idle", "read", "deal", "del", "connect", "proxy"}
    /\ writePc \in {"idle", "send", "del"}

(* The manager's mutex is with one thread. *)
MgrInv == writePc # "idle" => readPc \notin MgrOfReader

LEMMA PlacesInit == Init => Places /\ MgrInv
BY DEF Init, Places, MgrInv

LEMMA PlacesNext == Places /\ MgrInv /\ [Next]_vars => Places' /\ MgrInv'
<1> SUFFICES ASSUME Places, MgrInv, [Next]_vars PROVE Places' /\ MgrInv'
    OBVIOUS
<1> USE DEF Places, MgrInv, MgrOfReader, Mgr, Client, pcs
<1>1. CASE processAllRpcobj \/ CallGate
    BY <1>1 DEF processAllRpcobj, HandleBegin, Handle, HandleEnd, FindClient, MainAppend, CallGate
<1>2. CASE readThread
  <2>1. CASE ReadBegin \/ ReadData \/ ReadNothing \/ ReadFails \/ DealCall \/ DealAsserts \/ DealEnd
      BY <2>1 DEF ReadBegin, ReadData, ReadNothing, ReadFails, DealCall, DealAsserts, DealEnd
  <2>2. CASE Reopen
      BY <2>2 DEF Reopen
  <2>3. CASE Connected \/ TakeProxy
      BY <2>3 DEF Connected, TakeProxy
  <2> QED
      BY <1>2, <2>1, <2>2, <2>3 DEF readThread
<1>3. CASE writeThread
    BY <1>3 DEF writeThread, SendBegin, SendNull, Write, WriteFails, SendEnd
<1>4. CASE GateSends \/ GateStops \/ UNCHANGED vars
    BY <1>4 DEF GateSends, GateStops, vars
<1> QED
    BY <1>1, <1>2, <1>3, <1>4 DEF Next

(* Threads wait for each other in no circle; only the writer waits for      *)
(* itself, in DelConn after an error (the orders of the three mutexes).     *)
THEOREM ClientBlocks == Spec => []OnlyWriterBlocksItself
<1>1. Places /\ MgrInv => OnlyWriterBlocksItself
  <2> SUFFICES ASSUME Places, MgrInv, writePc # "del",
                      NEW t \in {"main", "reader", "writer"}
               PROVE  \/ Wants(t) = "free" \/ Wants(Wants(t)) = "free"
                      \/ Wants(Wants(Wants(t))) = "free"
      BY DEF OnlyWriterBlocksItself
  <2>1. Wants("free") = "free"
      BY DEF Wants
  <2>2. CASE writePc = "send"
    <3>1. Wants("writer") = "free" /\ Mgr = "writer" /\ Client = "writer"
        BY <2>2 DEF Wants, Mgr, Client
    <3>2. Wants("main") \in {"free", "writer"}
        BY <3>1 DEF Wants
    <3>3. Wants("reader") \in {"free", "writer", "main"}
        BY <3>1 DEF Wants, Recv
    <3> QED
        BY <2>1, <3>1, <3>2, <3>3
  <2>3. CASE writePc = "idle"
    <3>1. Client = "free"
        BY <2>3 DEF Client
    <3>2. CASE readPc \in {"connect", "proxy"}
      <4>1. Mgr = "reader" /\ Wants("reader") = "free"
          BY <2>3, <3>1, <3>2 DEF Wants, Mgr, MgrOfReader
      <4>2. Wants("main") \in {"free", "reader"} /\ Wants("writer") \in {"free", "reader"}
          BY <2>3, <3>1, <4>1 DEF Wants
      <4> QED
          BY <2>1, <4>1, <4>2
    <3>3. CASE readPc \notin {"connect", "proxy"}
      <4>1. Mgr = "free"
          BY <2>3, <3>3 DEF Mgr, MgrOfReader
      <4>2. Wants("main") = "free" /\ Wants("writer") = "free"
          BY <2>3, <3>1, <4>1 DEF Wants
      <4>3. Wants("reader") \in {"free", "main"}
          BY <3>1, <3>3, <4>1 DEF Wants, Recv
      <4> QED
          BY <2>1, <4>2, <4>3
    <3> QED
        BY <3>2, <3>3
  <2> QED
      BY <2>2, <2>3 DEF Places
<1> QED
    BY <1>1, PlacesInit, PlacesNext, PTL DEF Spec

-----------------------------------------------------------------------------
(* Types.                                                                  *)

(* Caches with something in them. *)
Used == {c \in Cache : c.calls # <<>>}

TOut ==
    /\ m_sendCacheQueue \in Seq(Used)
    /\ m_pSendCache \in Cache /\ (m_pSendCache # NULL => m_pSendCache \in Used)
    /\ appended \in Calls /\ streams \in Seq(Seq(Calls)) /\ lost \subseteq Calls

TIn ==
    /\ net \in Seq(Cells) /\ m_recvBuffer \in Seq(Cells) /\ Len(m_recvBuffer) =< RecvSize
    /\ m_queRpcObj \in Seq(0..MaxIn) /\ handled \in Seq(0..MaxIn)
    /\ sent \in 0..MaxIn /\ since \in 0..sent

TFlags ==
    /\ link \in {"up", "fin", "rst", "none"} /\ keyed \in BOOLEAN /\ torn \in BOOLEAN
    /\ dead \in {"no", "assert", "undefined", "fault"}
    /\ Places

(* Connections come after those that ended, and each brings one call of its *)
(* own (TakeProxy); what main is about to append is within MaxOut.          *)
Counts ==
    /\ Len(streams) \in 1..MaxConn /\ (link # "up" => Len(streams) < MaxConn)
    /\ readPc = "del" => link \in {"fin", "rst"}
    /\ readPc = "connect" <=> link = "none"
    /\ appended + (IF readPc = "proxy" THEN 1 ELSE 0) + (IF mainPc # "idle" THEN 1 ELSE 0)
           =< MaxOut + Len(streams)

TInv == TOut /\ TIn /\ TFlags /\ Counts

LEMMA CacheFields ==
    ASSUME NEW c \in Cache
    PROVE  c.used \in Nat /\ c.calls \in Seq(Calls)
           /\ c = [used |-> c.used, calls |-> c.calls]
BY DEF Cache

LEMMA NULLType == NULL \in Cache /\ NULL.used = 0 /\ NULL.calls = <<>>
BY ConstantTypes DEF NULL, Cache

LEMMA RecordExcept ==
    ASSUME NEW u, NEW s, NEW r, NEW c, c = [used |-> u, calls |-> s]
    PROVE  [c EXCEPT !.calls = r] = [used |-> u, calls |-> r]
OBVIOUS

LEMMA CallsNat == Calls \subseteq Nat /\ \A s \in Seq(Calls) : s \in Seq(Nat)
<1>1. Calls \subseteq Nat
    BY ConstantTypes DEF Calls
<1> QED
    BY <1>1, SeqMonotonic

LEMMA UsedType ==
    /\ Used \subseteq Cache \ {NULL}
    /\ \A q \in Seq(Used) : q \in Seq(Cache \ {NULL})
<1>1. Used \subseteq Cache \ {NULL}
    BY NULLType DEF Used
<1> QED
    BY <1>1

(* What AppendSend does to the caches, when the assertion holds. *)
LEMMA AppendSendType ==
    ASSUME TOut, appended + 1 \in Calls, NEW need \in CallSizes, AppendSend(need)
    PROVE  \/ UNCHANGED outVars /\ dead' = "assert"
           \/ /\ appended' = appended + 1 /\ dead' \in {dead, "undefined"}
              /\ m_pSendCache' \in Used
              /\ \/ /\ m_sendCacheQueue' = m_sendCacheQueue
                    /\ m_pSendCache'.calls = Append(m_pSendCache.calls, appended + 1)
                 \/ /\ m_pSendCache \in Used /\ m_sendCacheQueue' = Append(m_sendCacheQueue, m_pSendCache)
                    /\ m_pSendCache'.calls = <<appended + 1>>
<1> USE ConstantTypes
<1> DEFINE queue == Rolled(need)[1]
           cache == Rolled(need)[2]
<1>1. \/ queue = m_sendCacheQueue /\ cache = m_pSendCache
      \/ queue = Append(m_sendCacheQueue, m_pSendCache) /\ cache = NULL /\ need > Left(m_pSendCache)
    BY DEF Rolled
<1>2. cache \in Cache
    BY <1>1, NULLType DEF TOut
<1> HIDE DEF cache, queue
<1>3. CASE UNCHANGED outVars /\ dead' = "assert"
    BY <1>3
<1>4. CASE ~(UNCHANGED outVars /\ dead' = "assert")
  <2>1. /\ need < Left(cache)
        /\ appended' = appended + 1 /\ dead' \in {dead, "undefined"}
        /\ m_sendCacheQueue' = queue
        /\ m_pSendCache' = [used  |-> cache.used + Encoded(need),
                            calls |-> Append(cache.calls, appended + 1)]
      BY <1>4 DEF AppendSend, queue, cache
  <2>2. cache.used \in Nat /\ cache.calls \in Seq(Calls)
      BY <1>2, CacheFields
  <2>3. cache.used + Encoded(need) \in Nat
      BY <2>2 DEF Encoded
  <2>4. Append(cache.calls, appended + 1) \in Seq(Calls) /\ Append(cache.calls, appended + 1) # <<>>
      BY <2>2, AppendProperties
  <2>5. m_pSendCache' \in Used /\ m_pSendCache'.calls = Append(cache.calls, appended + 1)
      BY <2>1, <2>3, <2>4 DEF Used, Cache
  <2>6. CASE queue = m_sendCacheQueue /\ cache = m_pSendCache
      BY <2>1, <2>5, <2>6
  <2>7. CASE queue = Append(m_sendCacheQueue, m_pSendCache) /\ cache = NULL /\ need > Left(m_pSendCache)
    <3>1. m_pSendCache # NULL
      <4>1. Left(NULL) = CacheSize
          BY NULLType DEF Left
      <4> QED
          BY <2>1, <2>7, <4>1
    <3>2. m_pSendCache'.calls = <<appended + 1>>
        BY <2>5, <2>7, NULLType
    <3> QED
        BY <2>1, <2>5, <2>7, <3>1, <3>2 DEF TOut
  <2> QED
      BY <1>1, <2>6, <2>7
<1> QED
    BY <1>3, <1>4

LEMMA InitTypes == Init => TInv
<1> SUFFICES ASSUME Init PROVE TInv
    OBVIOUS
<1> USE ConstantTypes
<1>1. PICK need \in CallSizes :
          /\ Encoded(need) =< CacheSize
          /\ m_pSendCache = [used |-> Encoded(need), calls |-> <<1>>]
    BY DEF Init
<1>2. 1 \in Calls /\ <<1>> \in Seq(Calls) /\ <<1>> # <<>>
    BY DEF Calls
<1>3. m_pSendCache \in Used
  <2>1. Encoded(need) \in Nat
      BY <1>1 DEF Encoded
  <2>2. m_pSendCache \in Cache /\ m_pSendCache.calls = <<1>>
      BY <1>1, <1>2, <2>1 DEF Cache
  <2> QED
      BY <1>2, <2>2 DEF Used
<1>4. streams \in Seq(Seq(Calls)) /\ Len(streams) = 1
  <2>1. streams = <<<<>>>> /\ <<>> \in Seq(Calls)
      BY DEF Init
  <2> QED
      BY <2>1
<1>5. TOut
    BY <1>2, <1>3, <1>4, UsedType DEF Init, TOut
<1>6. TIn
    BY DEF Init, TIn
<1>7. TFlags
    BY DEF Init, TFlags, Places
<1>8. Counts
    BY <1>4 DEF Init, Counts
<1> QED
    BY <1>5, <1>6, <1>7, <1>8 DEF TInv

LEMMA TypesOK == TInv => TypeOK
<1> SUFFICES ASSUME TInv PROVE TypeOK
    OBVIOUS
<1>1. m_sendCacheQueue \in Seq(Cache \ {NULL})
    BY UsedType DEF TInv, TOut
<1> QED
    BY <1>1, Zenon DEF TInv, TOut, TIn, TFlags, Places, TypeOK

(* Who appends a call. *)
Appends == MainAppend \/ TakeProxy

LEMMA AppendsIsAppendSend == Appends => \E need \in CallSizes : AppendSend(need)
BY DEF Appends, MainAppend, TakeProxy

LEMMA AppendBound ==
    ASSUME TInv, Appends
    PROVE  appended \in Nat /\ appended + 1 \in Calls
<1>1. appended \in Nat /\ appended >= 1 /\ Len(streams) \in Nat /\ Len(streams) =< MaxConn
    BY ConstantTypes DEF TInv, TOut, Counts, Calls
<1>2. appended + 1 =< MaxOut + Len(streams)
  <2>1. mainPc # "idle" \/ readPc = "proxy"
      BY DEF Appends, MainAppend, TakeProxy
  <2> QED
      BY <1>1, <2>1, ConstantTypes DEF TInv, Counts
<1> QED
    BY <1>1, <1>2, ConstantTypes DEF Calls

LEMMA AppendsType ==
    ASSUME TInv, Appends
    PROVE  \/ UNCHANGED outVars /\ dead' = "assert"
           \/ /\ appended' = appended + 1 /\ dead' \in {dead, "undefined"}
              /\ m_pSendCache' \in Used
              /\ \/ /\ m_sendCacheQueue' = m_sendCacheQueue
                    /\ m_pSendCache'.calls = Append(m_pSendCache.calls, appended + 1)
                 \/ /\ m_pSendCache \in Used /\ m_sendCacheQueue' = Append(m_sendCacheQueue, m_pSendCache)
                    /\ m_pSendCache'.calls = <<appended + 1>>
<1>1. PICK need \in CallSizes : AppendSend(need)
    BY AppendsIsAppendSend
<1> QED
    BY <1>1, AppendBound, AppendSendType DEF TInv

LEMMA FlagsNext == TInv /\ MgrInv /\ [Next]_vars => TFlags'
<1> SUFFICES ASSUME TInv, MgrInv, [Next]_vars PROVE TFlags'
    OBVIOUS
<1>1. Places'
    BY PlacesNext DEF TInv, TFlags
<1>2. dead' \in {"no", "assert", "undefined", "fault"}
  <2>1. CASE Appends
      BY <2>1, AppendsType DEF TInv, TFlags
  <2>2. CASE DealAsserts \/ SendNull
      BY <2>2 DEF DealAsserts, SendNull
  <2>3. CASE ~Appends /\ ~DealAsserts /\ ~SendNull
    <3>1. UNCHANGED dead
        BY <2>3 DEF Next, processAllRpcobj, readThread, writeThread, Appends, HandleBegin, Handle,
                    HandleEnd, FindClient, CallGate, ReadBegin, ReadData, ReadNothing, ReadFails,
                    Reopen, Connected, DealCall, DealEnd, SendBegin, Write, WriteFails, SendEnd,
                    GateSends, GateStops, vars
    <3> QED
        BY <3>1 DEF TInv, TFlags
  <2> QED
      BY <2>1, <2>2, <2>3
<1>3. link' \in {"up", "fin", "rst", "none"} /\ keyed' \in BOOLEAN /\ torn' \in BOOLEAN
  <2>1. CASE Reopen
    <3>1. (torn \/ m_recvBuffer # <<>>) \in BOOLEAN
        BY DEF TInv, TFlags
    <3> QED
        BY <2>1, <3>1 DEF Reopen, linkVars, TInv, TFlags
  <2>2. CASE Connected \/ Write \/ GateStops
      BY <2>2 DEF Connected, Write, GateStops, TInv, TFlags
  <2>3. CASE ~Reopen /\ ~Connected /\ ~Write /\ ~GateStops
    <3>1. UNCHANGED <<link, keyed, torn>>
        BY <2>3 DEF Next, processAllRpcobj, readThread, writeThread, HandleBegin, Handle,
                    HandleEnd, FindClient, MainAppend, CallGate, ReadBegin, ReadData, ReadNothing,
                    ReadFails, TakeProxy, DealCall, DealAsserts, DealEnd, SendBegin, SendNull,
                    WriteFails, SendEnd, GateSends, vars, linkVars
    <3> QED
        BY <3>1 DEF TInv, TFlags
  <2> QED
      BY <2>1, <2>2, <2>3
<1> QED
    BY <1>1, <1>2, <1>3 DEF TFlags

LEMMA CountsNext == TInv /\ MgrInv /\ [Next]_vars => Counts'
<1> SUFFICES ASSUME TInv, MgrInv, [Next]_vars PROVE Counts'
    OBVIOUS
<1> USE ConstantTypes
<1>0. /\ appended \in Nat /\ streams \in Seq(Seq(Calls)) /\ Len(streams) \in Nat /\ Counts
      /\ link \in {"up", "fin", "rst", "none"} /\ Places
    BY DEF TInv, TOut, Calls, TFlags
<1>1. ASSUME UNCHANGED <<appended, streams, link>>, readPc' = readPc \/ readPc' \in {"read", "deal", "idle"},
             readPc' # readPc => readPc \notin {"connect", "proxy"},
             mainPc' = mainPc \/ mainPc' = "idle" \/ mainPc # "idle"
      PROVE  Counts'
    BY <1>0, <1>1 DEF Counts
<1>2. CASE HandleBegin \/ Handle \/ HandleEnd \/ FindClient \/ ReadBegin \/ ReadNothing
      \/ DealCall \/ DealAsserts \/ DealEnd \/ SendBegin \/ SendNull \/ WriteFails \/ SendEnd
      \/ GateSends \/ UNCHANGED vars
    BY <1>1, <1>2 DEF HandleBegin, Handle, HandleEnd, FindClient, ReadBegin, ReadNothing, DealCall,
        DealAsserts, DealEnd, SendBegin, SendNull, WriteFails, SendEnd, GateSends, vars, pcs,
        outVars, linkVars
<1>3. CASE ReadData
    BY <1>1, <1>3 DEF ReadData, outVars
<1>4. CASE CallGate
  <2>1. UNCHANGED <<appended, streams, link, readPc>> /\ appended < MaxOut
      BY <1>4 DEF CallGate, outVars, linkVars
  <2> QED
      BY <1>0, <2>1 DEF Counts
<1>5. CASE Appends
  <2>1. appended' = appended \/ appended' = appended + 1
      BY <1>5, AppendsType DEF outVars
  <2>2. \/ mainPc # "idle" /\ mainPc' = "idle" /\ readPc' = readPc
        \/ readPc = "proxy" /\ readPc' = "idle" /\ mainPc' = mainPc
      BY <1>5 DEF Appends, MainAppend, TakeProxy
  <2>3. UNCHANGED <<streams, link>>
      BY <1>5 DEF Appends, MainAppend, TakeProxy, linkVars
  <2> QED
      BY <1>0, <2>1, <2>2, <2>3 DEF Counts
<1>6. CASE ReadFails
  <2>1. UNCHANGED <<appended, streams, link, mainPc>> /\ link \in {"fin", "rst"}
        /\ readPc = "read" /\ readPc' = "del"
      BY <1>6 DEF ReadFails, outVars, linkVars
  <2> QED
      BY <1>0, <2>1 DEF Counts
<1>7. CASE Reopen
  <2>1. UNCHANGED <<appended, streams, mainPc>> /\ readPc = "del"
        /\ \/ readPc' = "idle" /\ link' = link
           \/ readPc' = "connect" /\ link' = "none"
      BY <1>7 DEF Reopen, outVars, linkVars
  <2> QED
      BY <1>0, <2>1 DEF Counts
<1>8. CASE Connected
  <2>1. /\ UNCHANGED <<appended, mainPc>> /\ readPc = "connect" /\ readPc' = "proxy"
        /\ link' = "up" /\ streams' = Append(streams, <<>>)
      BY <1>8 DEF Connected, outVars
  <2>2. Len(streams') = Len(streams) + 1 /\ link = "none"
      BY <1>0, <2>1 DEF Counts
  <2> QED
      BY <1>0, <2>1, <2>2 DEF Counts
<1>9. CASE Write
  <2>1. UNCHANGED <<appended, mainPc, readPc>>
      BY <1>9 DEF Write, pcs
  <2>2. Len(streams') = Len(streams)
      BY <1>0, <1>9 DEF Write
  <2>3. link' = link \/ (link = "fin" /\ link' = "rst")
      BY <1>9 DEF Write
  <2> QED
      BY <1>0, <2>1, <2>2, <2>3 DEF Counts
<1>10. CASE GateStops
  <2>1. UNCHANGED <<appended, streams, mainPc, readPc>> /\ link = "up" /\ Len(streams) < MaxConn
        /\ link' \in {"fin", "rst"}
      BY <1>10 DEF GateStops, outVars, pcs
  <2> QED
      BY <1>0, <2>1 DEF Counts
<1> QED
    BY <1>2, <1>3, <1>4, <1>5, <1>6, <1>7, <1>8, <1>9, <1>10
    DEF Next, processAllRpcobj, readThread, writeThread, Appends

LEMMA InNext == TInv /\ [Next]_vars => TIn'
<1> SUFFICES ASSUME TInv, [Next]_vars PROVE TIn'
    OBVIOUS
<1> USE ConstantTypes
<1>0. /\ net \in Seq(Cells) /\ m_recvBuffer \in Seq(Cells) /\ Len(m_recvBuffer) =< RecvSize
      /\ m_queRpcObj \in Seq(0..MaxIn) /\ handled \in Seq(0..MaxIn)
      /\ sent \in 0..MaxIn /\ since \in 0..sent
    BY DEF TInv, TIn
<1>1. CASE Handle
  <2>1. Head(m_queRpcObj) \in 0..MaxIn /\ Tail(m_queRpcObj) \in Seq(0..MaxIn)
      BY <1>0, <1>1 DEF Handle
  <2>2. handled' \in Seq(0..MaxIn) /\ m_queRpcObj' \in Seq(0..MaxIn)
      BY <1>0, <1>1, <2>1 DEF Handle
  <2> QED
      BY <1>0, <1>1, <2>2 DEF Handle, linkVars, TIn
<1>2. CASE ReadData
  <2>1. PICK n \in 1..Len(net) :
            /\ Len(m_recvBuffer) + n =< RecvSize
            /\ m_recvBuffer' = m_recvBuffer \o SubSeq(net, 1, n)
            /\ net' = SubSeq(net, n + 1, Len(net))
      BY <1>2 DEF ReadData
  <2>2. SubSeq(net, 1, n) \in Seq(Cells) /\ Len(SubSeq(net, 1, n)) = n /\ net' \in Seq(Cells)
      BY <1>0, <2>1, SubSeqProperties
  <2>3. m_recvBuffer' \in Seq(Cells) /\ Len(m_recvBuffer') = Len(m_recvBuffer) + n
      BY <1>0, <2>1, <2>2, ConcatProperties
  <2>4. UNCHANGED <<m_queRpcObj, handled, sent, since>>
      BY <1>2 DEF ReadData
  <2> QED
      BY <1>0, <2>1, <2>2, <2>3, <2>4 DEF TIn
<1>3. CASE Reopen
  <2>1. UNCHANGED <<m_recvBuffer, m_queRpcObj, handled, sent>>
      BY <1>3 DEF Reopen, inVars
  <2>2. CASE UNCHANGED linkVars
    <3>1. UNCHANGED <<net, since>>
        BY <2>2 DEF linkVars
    <3> QED
        BY <1>0, <2>1, <3>1 DEF TIn
  <2>3. CASE net' = <<>> /\ since' = sent
    <3>1. net' \in Seq(Cells) /\ since' \in 0..sent'
        BY <1>0, <2>1, <2>3
    <3> QED
        BY <1>0, <2>1, <3>1 DEF TIn
  <2> QED
      BY <1>3, <2>2, <2>3 DEF Reopen
<1>4. CASE DealCall
  <2>1. m_recvBuffer[1] \in Cells /\ m_recvBuffer[2] \in Cells
      BY <1>0, <1>4 DEF DealCall
  <2>2. CallOf(m_recvBuffer[1], m_recvBuffer[2]) \in 0..MaxIn
      BY <2>1 DEF CallOf, Cells
  <2>3. m_queRpcObj' \in Seq(0..MaxIn)
      BY <1>0, <1>4, <2>2 DEF DealCall
  <2>4. m_recvBuffer' \in Seq(Cells) /\ Len(m_recvBuffer') =< RecvSize
    <3>1. Len(m_recvBuffer) >= 2 /\ m_recvBuffer' = SubSeq(m_recvBuffer, 3, Len(m_recvBuffer))
        BY <1>4 DEF DealCall, Rest
    <3>2. m_recvBuffer' \in Seq(Cells) /\ Len(m_recvBuffer') = Len(m_recvBuffer) - 2
      <4>1. Len(m_recvBuffer) \in Nat /\ 3 \in 1..(Len(m_recvBuffer) + 1)
          BY <1>0, <3>1
      <4>2. m_recvBuffer' \in Seq(Cells) /\ Len(m_recvBuffer') = Len(m_recvBuffer) - 3 + 1
          BY <1>0, <3>1, <4>1, Cut
      <4> QED
          BY <4>1, <4>2
    <3> QED
        BY <1>0, <3>2
  <2> QED
      BY <1>0, <1>4, <2>3, <2>4 DEF DealCall, linkVars, TIn
<1>5. CASE GateSends
  <2>1. <<sent + 1, 1>> \in Cells /\ <<sent + 1, 2>> \in Cells /\ sent + 1 \in 0..MaxIn
      BY <1>0, <1>5 DEF GateSends, Cells
  <2>2. net' \in Seq(Cells)
      BY <1>0, <1>5, <2>1 DEF GateSends
  <2> QED
      BY <1>0, <1>5, <2>1, <2>2 DEF GateSends, inVars, TIn
<1>6. CASE GateStops
  <2>1. PICK n \in 0..Len(net) : net' = SubSeq(net, 1, n)
      BY <1>6 DEF GateStops
  <2>2. net' \in Seq(Cells)
      BY <1>0, <2>1, SubSeqProperties
  <2> QED
      BY <1>0, <1>6, <2>2 DEF GateStops, inVars, TIn
<1>7. CASE ~Handle /\ ~ReadData /\ ~Reopen /\ ~DealCall /\ ~GateSends /\ ~GateStops
  <2>1. UNCHANGED <<net, m_recvBuffer, m_queRpcObj, handled, sent, since>>
      BY <1>7 DEF Next, processAllRpcobj, readThread, writeThread, HandleBegin, HandleEnd,
                  FindClient, MainAppend, CallGate, ReadBegin, ReadNothing, ReadFails, Connected,
                  TakeProxy, DealAsserts, DealEnd, SendBegin, SendNull, Write, WriteFails, SendEnd,
                  vars, linkVars, inVars
  <2> QED
      BY <1>0, <2>1 DEF TIn
<1> QED
    BY <1>1, <1>2, <1>3, <1>4, <1>5, <1>6, <1>7

LEMMA OutNext == TInv /\ [Next]_vars => TOut'
<1> SUFFICES ASSUME TInv, [Next]_vars PROVE TOut'
    OBVIOUS
<1> USE ConstantTypes
<1>0. TOut
    BY DEF TInv
<1>1. CASE Appends
  <2>1. UNCHANGED <<streams, lost>>
      BY <1>1 DEF Appends, MainAppend, TakeProxy, linkVars
  <2>2. CASE UNCHANGED outVars
      BY <1>0, <2>1, <2>2 DEF outVars, TOut
  <2>3. CASE appended' = appended + 1 /\ m_pSendCache' \in Used
             /\ \/ m_sendCacheQueue' = m_sendCacheQueue
                \/ m_pSendCache \in Used /\ m_sendCacheQueue' = Append(m_sendCacheQueue, m_pSendCache)
    <3>1. m_sendCacheQueue' \in Seq(Used)
      <4>1. m_sendCacheQueue \in Seq(Used)
          BY <1>0 DEF TOut
      <4>2. m_pSendCache \in Used => Append(m_sendCacheQueue, m_pSendCache) \in Seq(Used)
          BY <4>1, AppendProperties
      <4> QED
          BY <2>3, <4>1, <4>2, Zenon
    <3> QED
        BY <1>0, <1>1, <2>1, <2>3, <3>1, AppendBound, UsedType DEF TOut
  <2> QED
      BY <1>1, <2>2, <2>3, AppendsType
<1>2. CASE Connected
  <2>1. UNCHANGED <<m_sendCacheQueue, m_pSendCache, appended, lost>> /\ streams' = Append(streams, <<>>)
      BY <1>2 DEF Connected, outVars
  <2>2. streams' \in Seq(Seq(Calls))
      BY <1>0, <2>1 DEF TOut
  <2> QED
      BY <1>0, <2>1, <2>2 DEF TOut
<1>3. CASE SendBegin
  <2>1. UNCHANGED <<appended, streams, lost>>
      BY <1>3 DEF SendBegin, linkVars
  <2>2. m_pSendCache' = NULL /\ m_sendCacheQueue' \in Seq(Used)
      BY <1>0, <1>3, AppendProperties DEF SendBegin, TOut
  <2> QED
      BY <1>0, <2>1, <2>2, NULLType DEF TOut
<1>4. CASE Write
  <2>0. Head(m_sendCacheQueue) \in Used /\ Tail(m_sendCacheQueue) \in Seq(Used)
        /\ streams # <<>>
      BY <1>0, <1>4 DEF Write, TOut, TInv, Counts
  <2>1. PICK n \in 1..Len(Head(m_sendCacheQueue).calls) :
           /\ m_sendCacheQueue' = Written(n)
           /\ \/ /\ streams' = [streams EXCEPT ![Len(streams)] =
                                    @ \o SubSeq(Head(m_sendCacheQueue).calls, 1, n)]
                 /\ UNCHANGED lost
              \/ /\ lost' = lost \cup Range(SubSeq(Head(m_sendCacheQueue).calls, 1, n))
                 /\ UNCHANGED streams
      BY <1>4, Zenon DEF Write
  <2> DEFINE c == Head(m_sendCacheQueue)
             s == SubSeq(c.calls, 1, n)
             rest == SubSeq(c.calls, n + 1, Len(c.calls))
  <2>2. c \in Cache /\ c.calls \in Seq(Calls) /\ c.used \in Nat
      BY <2>0, CacheFields DEF Used
  <2> HIDE DEF c
  <2>3. s \in Seq(Calls)
      BY <2>1, <2>2, SubSeqProperties DEF c
  <2>4. rest \in Seq(Calls)
      BY <2>1, <2>2, SubSeqProperties DEF c
  <2>5. m_sendCacheQueue' \in Seq(Used)
    <3>1. CASE rest = <<>>
        BY <2>0, <2>1, <3>1 DEF Written, c
    <3>2. CASE rest # <<>>
      <4> DEFINE d == [c EXCEPT !.calls = rest]
      <4>1. d \in Used
          BY <2>2, <2>4, <3>2 DEF Used, Cache
      <4>2. m_sendCacheQueue' = <<d>> \o Tail(m_sendCacheQueue)
          BY <2>1, <3>2 DEF Written, c
      <4> HIDE DEF d
      <4>3. <<d>> \in Seq(Used)
          BY <4>1
      <4> QED
          BY <2>0, <4>2, <4>3, ConcatProperties
    <3> QED
        BY <3>1, <3>2
  <2>6. Range(s) \subseteq Calls
      BY <2>3 DEF Range
  <2> HIDE DEF s
  <2>7. streams' \in Seq(Seq(Calls))
    <3>1. streams \in Seq(Seq(Calls)) /\ Len(streams) \in DOMAIN streams
        BY <1>0, <2>0 DEF TOut
    <3>2. streams[Len(streams)] \o s \in Seq(Calls)
        BY <2>3, <3>1, ConcatProperties
    <3>3. streams' = streams \/ streams' = [streams EXCEPT ![Len(streams)] = @ \o s]
        BY <2>1 DEF s, c
    <3>4. CASE streams' = [streams EXCEPT ![Len(streams)] = streams[Len(streams)] \o s]
      <4> DEFINE t == streams[Len(streams)] \o s
      <4>1. t \in Seq(Calls) /\ streams' = [streams EXCEPT ![Len(streams)] = t]
          BY <3>2, <3>4
      <4> HIDE DEF t
      <4> QED
          BY <3>1, <4>1
    <3> QED
        BY <3>1, <3>3, <3>4
  <2>8. lost' \subseteq Calls
      BY <1>0, <2>1, <2>6 DEF TOut, s, c
  <2>9. UNCHANGED <<m_pSendCache, appended>>
      BY <1>4 DEF Write
  <2> QED
      BY <1>0, <2>5, <2>7, <2>8, <2>9 DEF TOut
<1>5. CASE WriteFails
  <2>1. Head(m_sendCacheQueue) \in Used /\ Tail(m_sendCacheQueue) \in Seq(Used)
      BY <1>0, <1>5 DEF WriteFails, TOut
  <2>2. Range(Head(m_sendCacheQueue).calls) \subseteq Calls
    <3>1. Head(m_sendCacheQueue).calls \in Seq(Calls)
        BY <2>1, CacheFields DEF Used
    <3> QED
        BY <3>1 DEF Range
  <2>3. UNCHANGED <<m_pSendCache, appended, streams>> /\ m_sendCacheQueue' \in Seq(Used)
        /\ lost' \subseteq Calls
      BY <1>0, <1>5, <2>1, <2>2 DEF WriteFails, TOut
  <2> QED
      BY <1>0, <2>3 DEF TOut
<1>6. CASE ~Appends /\ ~Connected /\ ~SendBegin /\ ~Write /\ ~WriteFails
  <2>1. UNCHANGED <<outVars, streams, lost>>
    <3>1. CASE Reopen
        BY <3>1 DEF Reopen, linkVars
    <3> QED
        BY <1>6, <3>1 DEF Next, processAllRpcobj, readThread, writeThread, Appends, HandleBegin,
                  HandleEnd, Handle, FindClient, CallGate, ReadBegin, ReadData, ReadNothing,
                  ReadFails, DealCall, DealAsserts, DealEnd, SendNull, SendEnd, GateSends,
                  GateStops, vars, linkVars
  <2> QED
      BY <1>0, <2>1 DEF TOut, outVars
<1> QED
    BY <1>1, <1>2, <1>3, <1>4, <1>5, <1>6

LEMMA TInvAlways == Spec => [](TInv /\ MgrInv)
<1>1. Init => TInv /\ MgrInv
    BY InitTypes, PlacesInit
<1>2. TInv /\ MgrInv /\ [Next]_vars => TInv' /\ MgrInv'
    BY PlacesNext, FlagsNext, CountsNext, InNext, OutNext DEF TInv, TFlags
<1> QED
    BY <1>1, <1>2, PTL DEF Spec

(* The state of the client has its type: caches that are queued hold calls, *)
(* and m_recvBuffer is never longer than its memory (OnRead offers read     *)
(* what is left of it). Of the memory of the caches it says nothing.        *)
THEOREM ClientTyped == Spec => []TypeOK
BY TInvAlways, TypesOK, PTL

-----------------------------------------------------------------------------
(* What becomes of the calls to the gate.                                  *)

(* The calls n + 1, ..., a are in the queue q and then in the cache c. *)
Chain(q, c, a, n) == Rows(Append(q, c), n) /\ End(q, Len(q), n) + Len(c.calls) = a

LEMMA QueueTypes ==
    ASSUME NEW q \in Seq(Used)
    PROVE  /\ Len(q) \in Nat /\ DOMAIN q = 1..Len(q)
           /\ \A i \in 1..Len(q) : /\ q[i] \in Used /\ q[i].calls \in Seq(Calls)
                                   /\ Len(q[i].calls) \in Nat /\ Len(q[i].calls) >= 1
                                   /\ Last(q[i].calls) = q[i].calls[Len(q[i].calls)]
                                   /\ Last(q[i].calls) \in Nat
<1>1. Len(q) \in Nat /\ DOMAIN q = 1..Len(q) /\ \A i \in 1..Len(q) : q[i] \in Used
    OBVIOUS
<1>2. ASSUME NEW c \in Used
      PROVE  /\ c.calls \in Seq(Calls) /\ Len(c.calls) \in Nat /\ Len(c.calls) >= 1
             /\ Last(c.calls) = c.calls[Len(c.calls)] /\ Last(c.calls) \in Nat
  <2>1. c.calls \in Seq(Calls) /\ c.calls # <<>>
      BY CacheFields DEF Used
  <2>2. Len(c.calls) \in Nat /\ Len(c.calls) >= 1
      BY <2>1
  <2>3. c.calls[Len(c.calls)] \in Calls
      BY <2>1, <2>2
  <2> QED
      BY <2>1, <2>2, <2>3, ConstantTypes DEF Last, Calls
<1> QED
    BY <1>1, <1>2

LEMMA EndType ==
    ASSUME NEW q \in Seq(Used), NEW n \in Nat, NEW i \in 0..Len(q)
    PROVE  End(q, i, n) \in Nat
BY QueueTypes DEF End

(* One cache more at the end. *)
LEMMA RowsAppend ==
    ASSUME NEW q \in Seq(Used), NEW c \in Cache, NEW n \in Nat
    PROVE  Rows(Append(q, c), n) <=>
               /\ Rows(q, n)
               /\ \A k \in 1..Len(c.calls) : c.calls[k] = End(q, Len(q), n) + k
<1> DEFINE r == Append(q, c)
<1>1. Len(q) \in Nat /\ DOMAIN q = 1..Len(q)
    BY QueueTypes
<1>2. DOMAIN r = 1..(Len(q) + 1) /\ r[Len(q) + 1] = c /\ \A i \in 1..Len(q) : r[i] = q[i]
  <2>1. q \in Seq(Cache)
      BY DEF Used
  <2> QED
      BY <2>1, AppendProperties
<1>3. DOMAIN c.calls = 1..Len(c.calls)
    BY CacheFields
<1> HIDE DEF r
<1>4. \A i \in 0..Len(q) : End(r, i, n) = End(q, i, n)
    BY <1>1, <1>2 DEF End
<1>5. ASSUME Rows(r, n)
      PROVE  Rows(q, n) /\ \A k \in 1..Len(c.calls) : c.calls[k] = End(q, Len(q), n) + k
  <2>1. \A i \in 1..Len(q) : \A k \in DOMAIN q[i].calls : q[i].calls[k] = End(q, i - 1, n) + k
    <3> SUFFICES ASSUME NEW i \in 1..Len(q)
                 PROVE  \A k \in DOMAIN q[i].calls : q[i].calls[k] = End(q, i - 1, n) + k
        OBVIOUS
    <3>1. i \in DOMAIN r /\ r[i] = q[i] /\ i - 1 \in 0..Len(q)
        BY <1>1, <1>2
    <3>2. End(r, i - 1, n) = End(q, i - 1, n)
        BY <1>4, <3>1
    <3> QED
        BY <1>5, <3>1, <3>2 DEF Rows
  <2>2. \A k \in DOMAIN c.calls : c.calls[k] = End(q, Len(q), n) + k
    <3>1. Len(q) + 1 \in DOMAIN r /\ Len(q) \in 0..Len(q) /\ (Len(q) + 1) - 1 = Len(q)
        BY <1>1, <1>2
    <3>2. \A k \in DOMAIN r[Len(q) + 1].calls :
              r[Len(q) + 1].calls[k] = End(r, (Len(q) + 1) - 1, n) + k
        BY <1>5, <3>1 DEF Rows
    <3> QED
        BY <1>2, <1>4, <3>1, <3>2
  <2> QED
      BY <1>1, <1>3, <2>1, <2>2 DEF Rows
<1>6. ASSUME Rows(q, n), \A k \in 1..Len(c.calls) : c.calls[k] = End(q, Len(q), n) + k
      PROVE  Rows(r, n)
  <2> SUFFICES ASSUME NEW i \in DOMAIN r, NEW k \in DOMAIN r[i].calls
               PROVE  r[i].calls[k] = End(r, i - 1, n) + k
      BY DEF Rows
  <2>1. i - 1 \in 0..Len(q) /\ i \in 1..(Len(q) + 1)
      BY <1>1, <1>2
  <2>2. End(r, i - 1, n) = End(q, i - 1, n)
      BY <1>4, <2>1
  <2>3. CASE i = Len(q) + 1
    <3>1. r[i] = c /\ i - 1 = Len(q)
        BY <1>1, <1>2, <2>3
    <3> QED
        BY <1>3, <1>6, <2>2, <3>1
  <2>4. CASE i # Len(q) + 1
    <3>1. i \in DOMAIN q /\ r[i] = q[i]
        BY <1>1, <1>2, <2>1, <2>4
    <3> QED
        BY <1>6, <2>2, <3>1 DEF Rows
  <2> QED
      BY <2>3, <2>4
<1> QED
    BY <1>5, <1>6 DEF r

(* A cache ends where the next one begins. *)
LEMMA RowEnd ==
    ASSUME NEW q \in Seq(Used), NEW n \in Nat, Rows(q, n), NEW i \in 1..Len(q)
    PROVE  Last(q[i].calls) = End(q, i - 1, n) + Len(q[i].calls)
<1>1. i \in DOMAIN q /\ q[i].calls \in Seq(Calls) /\ Len(q[i].calls) \in DOMAIN q[i].calls
      /\ Last(q[i].calls) = q[i].calls[Len(q[i].calls)]
    BY QueueTypes
<1> QED
    BY <1>1 DEF Rows

(* A call is appended to the cache. *)
LEMMA ChainCall ==
    ASSUME NEW q \in Seq(Used), NEW c \in Cache, NEW d \in Cache, NEW n \in Nat, NEW a \in Nat,
           Chain(q, c, a, n), d.calls = Append(c.calls, a + 1)
    PROVE  Chain(q, d, a + 1, n)
<1>1. c.calls \in Seq(Nat) /\ Len(c.calls) \in Nat /\ Len(q) \in Nat
  <2>1. c.calls \in Seq(Calls)
      BY CacheFields
  <2> QED
      BY <2>1, CallsNat, QueueTypes
<1>2. End(q, Len(q), n) \in Nat
  <2>1. Len(q) \in 0..Len(q)
      BY <1>1
  <2> QED
      BY <2>1, EndType
<1>3. Len(d.calls) = Len(c.calls) + 1 /\ d.calls[Len(c.calls) + 1] = a + 1
      /\ \A k \in 1..Len(c.calls) : d.calls[k] = c.calls[k]
    BY <1>1, AppendProperties
<1>4. Rows(q, n) /\ \A k \in 1..Len(c.calls) : c.calls[k] = End(q, Len(q), n) + k
    BY RowsAppend DEF Chain
<1>5. End(q, Len(q), n) + Len(c.calls) = a
    BY DEF Chain
<1>6. \A k \in 1..Len(d.calls) : d.calls[k] = End(q, Len(q), n) + k
  <2> SUFFICES ASSUME NEW k \in 1..Len(d.calls)
               PROVE  d.calls[k] = End(q, Len(q), n) + k
      OBVIOUS
  <2>1. k \in 1..Len(c.calls) \/ k = Len(c.calls) + 1
      BY <1>1, <1>3
  <2>2. a + 1 = End(q, Len(q), n) + (Len(c.calls) + 1)
      BY <1>1, <1>2, <1>5
  <2> QED
      BY <1>3, <1>4, <2>1, <2>2
<1>7. Rows(Append(q, d), n)
    BY <1>4, <1>6, RowsAppend
<1>8. End(q, Len(q), n) + Len(d.calls) = a + 1
    BY <1>1, <1>2, <1>3, <1>5
<1> QED
    BY <1>7, <1>8 DEF Chain

(* The cache is queued, and what comes after it begins another. *)
LEMMA ChainQueue ==
    ASSUME NEW q \in Seq(Used), NEW c \in Used, NEW d \in Cache, NEW n \in Nat, NEW a \in Nat,
           Chain(q, c, a, n), d.calls = <<>> \/ d.calls = <<a + 1>>
    PROVE  Chain(Append(q, c), d, a + Len(d.calls), n)
<1> DEFINE r == Append(q, c)
<1>0. c \in Cache
    BY DEF Used
<1>1. r \in Seq(Used) /\ Len(r) = Len(q) + 1 /\ r[Len(q) + 1] = c /\ Len(q) \in Nat
    BY AppendProperties, QueueTypes
<1>2. Rows(r, n)
    BY DEF Chain
<1> HIDE DEF r
<1>3. End(r, Len(r), n) = a
  <2>1. Last(r[Len(r)].calls) = End(r, Len(r) - 1, n) + Len(c.calls)
      BY <1>1, <1>2, RowEnd
  <2>2. End(r, Len(q), n) = End(q, Len(q), n)
      BY <1>1, AppendProperties DEF End, r
  <2> QED
      BY <1>1, <2>1, <2>2 DEF Chain, End
<1>4. \A k \in 1..Len(d.calls) : d.calls[k] = a + k
    OBVIOUS
<1>5. Rows(Append(r, d), n)
    BY <1>1, <1>2, <1>3, <1>4, RowsAppend
<1> QED
    BY <1>3, <1>5 DEF Chain, r

(* The first cache leaves the queue. *)
LEMMA ChainTail ==
    ASSUME NEW q \in Seq(Used), q # <<>>, NEW c \in Cache, NEW n \in Nat, NEW a \in Nat,
           Chain(q, c, a, n)
    PROVE  Chain(Tail(q), c, a, n + Len(q[1].calls))
<1> DEFINE t == Tail(q)
           m == n + Len(q[1].calls)
<1>1. /\ t \in Seq(Used) /\ Len(q) \in Nat /\ Len(q) >= 1 /\ Len(t) = Len(q) - 1
      /\ DOMAIN t = 1..(Len(q) - 1) /\ DOMAIN q = 1..Len(q)
      /\ \A i \in 1..(Len(q) - 1) : t[i] = q[i + 1]
    OBVIOUS
<1>2. m \in Nat /\ Last(q[1].calls) = m
  <2>1. Rows(q, n) /\ 1 \in 1..Len(q) /\ 1 - 1 = 0
      BY <1>1, RowsAppend DEF Chain
  <2>2. Last(q[1].calls) = End(q, 0, n) + Len(q[1].calls)
      BY <2>1, RowEnd
  <2>3. Last(q[1].calls) \in Nat
      BY <2>1, QueueTypes
  <2> QED
      BY <2>2, <2>3 DEF End
<1> HIDE DEF t, m
<1>3. ASSUME NEW i \in 0..Len(t) PROVE End(t, i, m) = End(q, i + 1, n)
    BY <1>1, <1>2 DEF End
<1>4. Rows(t, m)
  <2> SUFFICES ASSUME NEW i \in DOMAIN t, NEW k \in DOMAIN t[i].calls
               PROVE  t[i].calls[k] = End(t, i - 1, m) + k
      BY DEF Rows
  <2>1. i - 1 \in 0..Len(t) /\ i + 1 \in DOMAIN q /\ t[i] = q[i + 1] /\ (i - 1) + 1 = i
        /\ (i + 1) - 1 = i
      BY <1>1
  <2>2. Rows(q, n)
      BY RowsAppend DEF Chain
  <2>3. q[i + 1].calls[k] = End(q, i, n) + k
      BY <2>1, <2>2 DEF Rows
  <2> QED
      BY <1>3, <2>1, <2>3
<1>5. End(t, Len(t), m) = End(q, Len(q), n)
  <2>1. Len(t) \in 0..Len(t) /\ Len(t) + 1 = Len(q)
      BY <1>1
  <2> QED
      BY <1>3, <2>1
<1>6. \A k \in 1..Len(c.calls) : c.calls[k] = End(t, Len(t), m) + k
    BY <1>5, RowsAppend DEF Chain
<1>7. Rows(Append(t, c), m)
    BY <1>1, <1>2, <1>4, <1>6, RowsAppend
<1> QED
    BY <1>5, <1>7 DEF Chain, t, m

(* The calls of the first cache are those after n. *)
LEMMA ChainHead ==
    ASSUME NEW q \in Seq(Used), q # <<>>, NEW c \in Cache, NEW n \in Nat, NEW a \in Nat,
           Chain(q, c, a, n)
    PROVE  \A k \in 1..Len(q[1].calls) : q[1].calls[k] = n + k
<1>1. Rows(q, n) /\ 1 \in DOMAIN q /\ 1 - 1 = 0 /\ q[1].calls \in Seq(Calls)
    BY RowsAppend, QueueTypes DEF Chain
<1> QED
    BY <1>1 DEF Rows, End

(* Its first calls leave it. *)
LEMMA ChainPart ==
    ASSUME NEW q \in Seq(Used), q # <<>>, NEW c \in Cache, NEW d \in Used, NEW n \in Nat,
           NEW a \in Nat, Chain(q, c, a, n), NEW j \in 1..(Len(q[1].calls) - 1),
           d.calls = SubSeq(q[1].calls, j + 1, Len(q[1].calls))
    PROVE  Chain(<<d>> \o Tail(q), c, a, n + j)
<1> DEFINE t == <<d>> \o Tail(q)
           m == n + j
<1>1. /\ t \in Seq(Used) /\ Len(q) \in Nat /\ Len(q) >= 1 /\ Len(t) = Len(q)
      /\ DOMAIN t = 1..Len(q) /\ DOMAIN q = 1..Len(q) /\ t[1] = d
      /\ \A i \in 2..Len(q) : t[i] = q[i]
  <2>1. /\ Tail(q) \in Seq(Used) /\ Len(q) \in Nat /\ Len(q) >= 1 /\ Len(Tail(q)) = Len(q) - 1
        /\ DOMAIN q = 1..Len(q) /\ \A i \in 1..(Len(q) - 1) : Tail(q)[i] = q[i + 1]
      OBVIOUS
  <2>2. <<d>> \in Seq(Used) /\ Len(<<d>>) = 1 /\ <<d>>[1] = d
      OBVIOUS
  <2>3. t \in Seq(Used) /\ Len(t) = Len(q) /\ t[1] = d
      BY <2>1, <2>2, ConcatProperties
  <2>4. \A i \in 2..Len(q) : t[i] = Tail(q)[i - 1]
      BY <2>1, <2>2, ConcatProperties
  <2> QED
      BY <2>1, <2>3, <2>4
<1>2. m \in Nat /\ Len(q[1].calls) \in Nat /\ q[1].calls \in Seq(Calls)
    BY <1>1, QueueTypes
<1>3. Len(d.calls) = Len(q[1].calls) - j
      /\ \A k \in 1..Len(d.calls) : d.calls[k] = q[1].calls[j + k]
  <2>1. j + 1 \in 1..(Len(q[1].calls) + 1)
      BY <1>2
  <2>2. Len(d.calls) = Len(q[1].calls) - (j + 1) + 1
        /\ \A k \in 1..(Len(q[1].calls) - (j + 1) + 1) : d.calls[k] = q[1].calls[(j + 1) + k - 1]
      BY <1>2, <2>1, Cut
  <2>3. Len(q[1].calls) - (j + 1) + 1 = Len(q[1].calls) - j
        /\ \A k \in Nat : (j + 1) + k - 1 = j + k
      BY <1>2
  <2>4. \A k \in 1..(Len(q[1].calls) - j) : d.calls[k] = q[1].calls[j + k]
    <3> TAKE k \in 1..(Len(q[1].calls) - j)
    <3>1. d.calls[k] = q[1].calls[(j + 1) + k - 1] /\ k \in Nat
        BY <2>2, <2>3
    <3> QED
        BY <2>3, <3>1
  <2> QED
      BY <2>2, <2>3, <2>4
<1>4. \A k \in 1..Len(d.calls) : d.calls[k] = m + k
  <2>1. \A k \in 1..Len(d.calls) : j + k \in 1..Len(q[1].calls)
      BY <1>2, <1>3
  <2>2. \A k \in 1..Len(d.calls) : d.calls[k] = n + (j + k)
      BY <1>3, <2>1, ChainHead
  <2> QED
      BY <1>2, <2>2
<1>11. t[1] = d /\ \A i \in 2..Len(q) : t[i] = q[i]
    BY <1>1
<1> HIDE DEF t, m
<1>0. d.calls \in Seq(Calls) /\ DOMAIN d.calls = 1..Len(d.calls)
  <2>1. d \in Cache
      BY DEF Used
  <2>2. d.calls \in Seq(Calls)
      BY <2>1, CacheFields
  <2> QED
      BY <2>2
<1>5. Last(d.calls) = Last(q[1].calls)
  <2>1. Len(d.calls) \in 1..Len(d.calls) /\ j + Len(d.calls) = Len(q[1].calls)
      BY <1>2, <1>3
  <2>2. d.calls[Len(d.calls)] = q[1].calls[Len(q[1].calls)]
      BY <1>3, <2>1
  <2> QED
      BY <2>2 DEF Last
<1>6. ASSUME NEW i \in 1..Len(q) PROVE End(t, i, m) = End(q, i, n)
  <2>1. Last(t[i].calls) = Last(q[i].calls) /\ i # 0
    <3>1. CASE i = 1
      <4>1. t[1].calls = d.calls
          BY <1>11
      <4>2. Last(t[1].calls) = Last(q[1].calls)
          BY <1>5, <4>1
      <4> QED
          BY <3>1, <4>2
    <3>2. CASE i # 1
      <4>1. i \in 2..Len(q)
          BY <1>1, <3>2
      <4>2. t[i] = q[i]
          BY <1>1, <4>1
      <4> QED
          BY <4>1, <4>2
    <3> QED
        BY <3>1, <3>2
  <2> QED
      BY <2>1 DEF End
<1>7. Rows(t, m)
  <2> SUFFICES ASSUME NEW i \in DOMAIN t, NEW k \in DOMAIN t[i].calls
               PROVE  t[i].calls[k] = End(t, i - 1, m) + k
      BY DEF Rows
  <2>1. CASE i = 1
    <3>1. t[i] = d /\ k \in 1..Len(d.calls)
        BY <1>0, <1>11, <2>1
    <3>2. End(t, i - 1, m) = m
      <4>1. i - 1 = 0
          BY <2>1
      <4> QED
          BY <4>1 DEF End
    <3>3. d.calls[k] = m + k
        BY <1>4, <3>1
    <3> QED
        BY <3>1, <3>2, <3>3
  <2>2. CASE i # 1
    <3>1. i - 1 \in 1..Len(q) /\ i \in DOMAIN q /\ t[i] = q[i]
        BY <1>1, <2>2
    <3>2. Rows(q, n)
        BY RowsAppend DEF Chain
    <3> QED
        BY <1>6, <3>1, <3>2 DEF Rows
  <2> QED
      BY <2>1, <2>2
<1>8. End(t, Len(t), m) = End(q, Len(q), n)
    BY <1>1, <1>6
<1>9. \A k \in 1..Len(c.calls) : c.calls[k] = End(t, Len(t), m) + k
    BY <1>8, RowsAppend DEF Chain
<1>10. Rows(Append(t, c), m)
    BY <1>1, <1>2, <1>7, <1>9, RowsAppend
<1> QED
    BY <1>8, <1>10 DEF Chain, t, m

(* Where the calls that are not written begin. *)
LEMMA ChainOut ==
    ASSUME NEW q \in Seq(Used), NEW c \in Cache, NEW n \in Nat, NEW a \in Nat, Chain(q, c, a, n)
    PROVE  n = IF q = <<>> THEN a - Len(c.calls) ELSE Head(q).calls[1] - 1
<1>1. Len(c.calls) \in Nat
    BY CacheFields
<1>2. CASE q = <<>>
  <2>1. n + Len(c.calls) = a
      BY <1>2 DEF Chain, End
  <2> QED
      BY <1>1, <1>2, <2>1
<1>3. CASE q # <<>>
  <2>1. 1 \in 1..Len(q) /\ Head(q) = q[1]
      BY <1>3
  <2>2. 1 \in 1..Len(q[1].calls)
      BY <2>1, QueueTypes
  <2>3. q[1].calls[1] = n + 1
      BY <1>3, <2>2, ChainHead
  <2> QED
      BY <1>3, <2>1, <2>3
<1> QED
    BY <1>2, <1>3

Waits == Chain(m_sendCacheQueue, m_pSendCache, appended, Out) /\ Out \in Nat

(* The calls n + 1, ... are written or lost in a step; n of them were. *)
LEMMA WaitsInit == Init => Waits /\ Out = 0
<1> SUFFICES ASSUME Init PROVE Waits /\ Out = 0
    OBVIOUS
<1>1. TOut
    BY InitTypes DEF TInv
<1>2. m_sendCacheQueue = <<>> /\ appended = 1 /\ m_pSendCache.calls = <<1>>
    BY DEF Init
<1>3. Out = 0
    BY <1>2 DEF Out
<1>4. Rows(<<>>, 0)
    BY DEF Rows
<1>5. \A k \in 1..Len(m_pSendCache.calls) : m_pSendCache.calls[k] = End(<<>>, Len(<<>>), 0) + k
    BY <1>2 DEF End
<1>6. Rows(Append(m_sendCacheQueue, m_pSendCache), 0)
    BY <1>1, <1>2, <1>4, <1>5, RowsAppend DEF TOut
<1>7. End(m_sendCacheQueue, Len(m_sendCacheQueue), 0) + Len(m_pSendCache.calls) = appended
    BY <1>2 DEF End
<1> QED
    BY <1>3, <1>6, <1>7 DEF Waits, Chain

(* New caches whose calls are those after n again give their own Out. *)
LEMMA OutIs ==
    ASSUME TOut', NEW n \in Nat, Chain(m_sendCacheQueue', m_pSendCache', appended', n)
    PROVE  Waits' /\ Out' = n
<1>1. m_sendCacheQueue' \in Seq(Used) /\ m_pSendCache' \in Cache /\ appended' \in Nat
    BY CallsNat DEF TOut
<1>2. Out' = n
    BY <1>1, ChainOut DEF Out
<1> QED
    BY <1>2 DEF Waits

(* AppendSend and SendBegin move calls between the caches, and lose none. *)
LEMMA CachesKeep ==
    ASSUME TInv, TOut', Waits, Appends \/ SendBegin \/ UNCHANGED outVars
    PROVE  Waits' /\ Out' = Out
<1> DEFINE q == m_sendCacheQueue
           c == m_pSendCache
           n == Out
           a == appended
<1>0. q \in Seq(Used) /\ c \in Cache /\ n \in Nat /\ a \in Nat /\ Chain(q, c, a, n)
      /\ (c # NULL => c \in Used)
    BY CallsNat DEF TInv, TOut, Waits
<1>0a. m_pSendCache' \in Cache
    BY DEF TOut
<1> HIDE DEF n
<1>1. CASE UNCHANGED outVars
  <2>1. Chain(m_sendCacheQueue', m_pSendCache', appended', n)
      BY <1>0, <1>1 DEF outVars
  <2> QED
      BY <1>0, <2>1, OutIs DEF n
<1>2. CASE Appends /\ ~UNCHANGED outVars
  <2>1. /\ appended' = a + 1
        /\ \/ /\ m_sendCacheQueue' = q /\ m_pSendCache'.calls = Append(c.calls, a + 1)
           \/ /\ c \in Used /\ m_sendCacheQueue' = Append(q, c)
              /\ m_pSendCache'.calls = <<a + 1>>
      BY <1>2, AppendsType
  <2>2. CASE m_sendCacheQueue' = q /\ m_pSendCache'.calls = Append(c.calls, a + 1)
    <3>1. Chain(q, m_pSendCache', a + 1, n)
        BY <1>0, <1>0a, <2>2, ChainCall
    <3> QED
        BY <1>0, <2>1, <2>2, <3>1, OutIs DEF n
  <2>3. CASE c \in Used /\ m_sendCacheQueue' = Append(q, c) /\ m_pSendCache'.calls = <<a + 1>>
    <3>1. Chain(Append(q, c), m_pSendCache', a + Len(m_pSendCache'.calls), n)
        BY <1>0, <1>0a, <2>3, ChainQueue
    <3>2. Len(m_pSendCache'.calls) = 1
        BY <2>3
    <3> QED
        BY <1>0, <2>1, <2>3, <3>1, <3>2, OutIs DEF n
  <2> QED
      BY <2>1, <2>2, <2>3
<1>3. CASE SendBegin
  <2>1. appended' = a /\ m_pSendCache' = NULL /\ NULL.calls = <<>> /\ NULL \in Cache
        /\ m_sendCacheQueue' = IF c = NULL THEN q ELSE Append(q, c)
      BY <1>3, NULLType DEF SendBegin
  <2>2. CASE c = NULL
      BY <1>0, <2>1, <2>2, OutIs DEF n
  <2>3. CASE c # NULL
    <3>1. Chain(Append(q, c), NULL, a + Len(NULL.calls), n)
        BY <1>0, <2>1, <2>3, ChainQueue
    <3>2. a + Len(NULL.calls) = a
        BY <1>0, <2>1
    <3> QED
        BY <1>0, <2>1, <2>3, <3>1, <3>2, OutIs DEF n
  <2> QED
      BY <2>2, <2>3
<1> QED
    BY <1>1, <1>2, <1>3

(* A write takes the next calls out of the first cache. *)
LEMMA CachesWrite ==
    ASSUME TInv, TOut', Waits, m_sendCacheQueue # <<>>, UNCHANGED <<m_pSendCache, appended>>,
           NEW k \in 1..Len(Head(m_sendCacheQueue).calls), m_sendCacheQueue' = Written(k)
    PROVE  /\ Waits' /\ Out' = Out + k
           /\ SubSeq(Head(m_sendCacheQueue).calls, 1, k) \in Seq(Nat)
           /\ Len(SubSeq(Head(m_sendCacheQueue).calls, 1, k)) = k
           /\ \A i \in 1..k : SubSeq(Head(m_sendCacheQueue).calls, 1, k)[i] = Out + i
<1> DEFINE q == m_sendCacheQueue
           c == m_pSendCache
           n == Out
           a == appended
           s == q[1].calls
           rest == SubSeq(s, k + 1, Len(s))
<1>0. q \in Seq(Used) /\ c \in Cache /\ n \in Nat /\ a \in Nat /\ Chain(q, c, a, n)
    BY CallsNat DEF TInv, TOut, Waits
<1>1. q # <<>> /\ Head(q) = q[1] /\ 1 \in 1..Len(q)
    BY <1>0
<1>2. q[1] \in Used /\ s \in Seq(Calls) /\ Len(s) \in Nat
    BY <1>0, <1>1, QueueTypes
<1>3. k \in 1..Len(s) /\ k \in Nat /\ n + k \in Nat
    BY <1>0, <1>1, <1>2
<1>4. m_sendCacheQueue' = IF rest = <<>> THEN Tail(q) ELSE <<[q[1] EXCEPT !.calls = rest]>> \o Tail(q)
    BY <1>1 DEF Written
<1> HIDE DEF n
<1>5. \A i \in 1..Len(s) : s[i] = n + i
    BY <1>0, <1>1, ChainHead
<1>6. rest \in Seq(Calls) /\ Len(rest) = Len(s) - (k + 1) + 1
  <2>1. k + 1 \in 1..(Len(s) + 1)
      BY <1>2, <1>3
  <2> QED
      BY <1>2, <2>1, Cut
<1>6a. rest = <<>> => k = Len(s)
  <2> DEFINE l == Len(s)
             r == rest
  <2>1. l \in Nat /\ Len(r) = l - (k + 1) + 1 /\ k \in Nat
      BY <1>2, <1>3, <1>6
  <2> HIDE DEF l, r
  <2>2. r = <<>> => k = l
      BY <2>1
  <2> QED
      BY <2>2 DEF l, r
<1>7. Waits' /\ Out' = n + k
  <2>1. CASE rest = <<>>
    <3>1. k = Len(s)
        BY <1>6a, <2>1
    <3>2. Chain(Tail(q), c, a, n + k)
        BY <1>0, <1>1, <3>1, ChainTail
    <3> QED
        BY <1>3, <1>4, <2>1, <3>2, OutIs
  <2>2. CASE rest # <<>>
    <3> DEFINE d == [q[1] EXCEPT !.calls = rest]
    <3>1. q[1] \in Cache
        BY <1>2 DEF Used
    <3>2. PICK u \in Nat : q[1] = [used |-> u, calls |-> s]
        BY <3>1, CacheFields
    <3>3. d = [used |-> u, calls |-> rest]
      <4> HIDE DEF s, rest
      <4> QED
          BY <3>2, RecordExcept
    <3>4. d \in Used /\ d.calls = rest
      <4> HIDE DEF d, rest
      <4>1. d \in Cache /\ d.calls = rest
          BY <1>6, <3>2, <3>3 DEF Cache
      <4> QED
          BY <2>2, <4>1 DEF Used
    <3>5. m_sendCacheQueue' = <<d>> \o Tail(q)
        BY <1>4, <2>2
    <3> HIDE DEF d
    <3>6. Len(rest) # 0
        BY <1>6, <2>2
    <3>7. k \in 1..(Len(s) - 1)
        BY <1>2, <1>3, <1>6, <3>6
    <3>8. Chain(<<d>> \o Tail(q), c, a, n + k)
        BY <1>0, <1>1, <3>4, <3>7, ChainPart
    <3> QED
        BY <1>3, <3>5, <3>8, OutIs
  <2> QED
      BY <2>1, <2>2
<1>8. /\ SubSeq(s, 1, k) \in Seq(Calls) /\ Len(SubSeq(s, 1, k)) = k
      /\ \A i \in 1..k : SubSeq(s, 1, k)[i] = s[i]
    BY <1>2, <1>3, Take
<1>9. \A i \in 1..k : SubSeq(s, 1, k)[i] = n + i
    BY <1>3, <1>5, <1>8
<1>10. SubSeq(s, 1, k) \in Seq(Nat)
    BY <1>8, CallsNat
<1> QED
    BY <1>1, <1>7, <1>8, <1>9, <1>10 DEF n

(* An error takes the whole cache. *)
LEMMA CachesFail ==
    ASSUME TInv, TOut', Waits, m_sendCacheQueue # <<>>, UNCHANGED <<m_pSendCache, appended>>,
           m_sendCacheQueue' = Tail(m_sendCacheQueue)
    PROVE  /\ Waits' /\ Out' = Out + Len(Head(m_sendCacheQueue).calls)
           /\ Head(m_sendCacheQueue).calls \in Seq(Nat)
           /\ \A i \in 1..Len(Head(m_sendCacheQueue).calls) :
                  Head(m_sendCacheQueue).calls[i] = Out + i
<1> DEFINE q == m_sendCacheQueue
           c == m_pSendCache
           n == Out
           a == appended
           s == q[1].calls
<1>0. q \in Seq(Used) /\ c \in Cache /\ n \in Nat /\ a \in Nat /\ Chain(q, c, a, n)
    BY CallsNat DEF TInv, TOut, Waits
<1>1. q # <<>> /\ Head(q) = q[1] /\ 1 \in 1..Len(q)
    BY <1>0
<1>2. s \in Seq(Calls) /\ Len(s) \in Nat
    BY <1>0, <1>1, QueueTypes
<1> HIDE DEF n
<1>3. \A i \in 1..Len(s) : s[i] = n + i
    BY <1>0, <1>1, ChainHead
<1>4. n + Len(s) \in Nat
    BY <1>0, <1>2
<1>5. Chain(Tail(q), c, a, n + Len(s))
    BY <1>0, <1>1, ChainTail
<1>6. Waits' /\ Out' = n + Len(s)
    BY <1>4, <1>5, OutIs
<1> QED
    BY <1>1, <1>2, <1>3, <1>6, CallsNat DEF n

-----------------------------------------------------------------------------
(* Calls reach the gate in the order they were made.                       *)

(* The calls 1, ..., n are in the streams ss, in order, or in lo. *)
Streams(ss, lo, n) ==
    /\ lo \cup UNION {Range(ss[c]) : c \in DOMAIN ss} = 1..n
    /\ \A c \in DOMAIN ss : Contiguous(ss[c])
    /\ \A c, d \in DOMAIN ss : c < d =>
           \A i \in DOMAIN ss[c], j \in DOMAIN ss[d] : ss[c][i] < ss[d][j]

LEMMA RangeRun ==
    ASSUME NEW s \in Seq(Nat), NEW n \in Nat, \A i \in 1..Len(s) : s[i] = n + i
    PROVE  Range(s) = (n + 1)..(n + Len(s)) /\ (1..n) \cup Range(s) = 1..(n + Len(s))
<1>1. Len(s) \in Nat /\ DOMAIN s = 1..Len(s)
    OBVIOUS
<1>2. ASSUME NEW x \in Range(s) PROVE x \in (n + 1)..(n + Len(s))
    BY <1>1, <1>2 DEF Range
<1>3. ASSUME NEW x \in (n + 1)..(n + Len(s)) PROVE x \in Range(s)
  <2>1. x - n \in 1..Len(s) /\ n + (x - n) = x
      BY <1>1
  <2>2. s[x - n] = x
      BY <2>1
  <2> QED
      BY <1>1, <2>1, <2>2 DEF Range
<1>4. Range(s) = (n + 1)..(n + Len(s))
    BY <1>2, <1>3
<1> QED
    BY <1>1, <1>4

LEMMA StreamsLost ==
    ASSUME NEW ss, NEW lo, NEW n \in Nat, Streams(ss, lo, n), NEW s \in Seq(Nat),
           \A i \in 1..Len(s) : s[i] = n + i
    PROVE  Streams(ss, lo \cup Range(s), n + Len(s))
<1>1. (1..n) \cup Range(s) = 1..(n + Len(s))
    BY RangeRun
<1>2. (lo \cup Range(s)) \cup UNION {Range(ss[c]) : c \in DOMAIN ss} = 1..(n + Len(s))
    BY <1>1 DEF Streams
<1> QED
    BY <1>2 DEF Streams

LEMMA StreamsNew ==
    ASSUME NEW ss \in Seq(Seq(Nat)), NEW lo, NEW n \in Nat, Streams(ss, lo, n)
    PROVE  Streams(Append(ss, <<>>), lo, n)
<1> DEFINE tt == Append(ss, <<>>)
<1>1. /\ Len(ss) \in Nat /\ DOMAIN ss = 1..Len(ss) /\ DOMAIN tt = 1..(Len(ss) + 1)
      /\ tt[Len(ss) + 1] = <<>> /\ \A c \in DOMAIN ss : tt[c] = ss[c]
  <2>1. <<>> \in Seq(Nat)
      OBVIOUS
  <2> QED
      BY <2>1, AppendProperties
<1>2. DOMAIN tt = DOMAIN ss \cup {Len(ss) + 1}
    BY <1>1
<1> HIDE DEF tt
<1>3. Range(tt[Len(ss) + 1]) = {} /\ Contiguous(tt[Len(ss) + 1]) /\ DOMAIN tt[Len(ss) + 1] = {}
    BY <1>1 DEF Range, Contiguous
<1>4. UNION {Range(tt[c]) : c \in DOMAIN tt} = UNION {Range(ss[c]) : c \in DOMAIN ss}
  <2>1. ASSUME NEW c \in DOMAIN tt, NEW x \in Range(tt[c])
        PROVE  c \in DOMAIN ss /\ x \in Range(ss[c])
    <3>1. c # Len(ss) + 1
        BY <1>3, <2>1
    <3>2. c \in DOMAIN ss
        BY <1>2, <2>1, <3>1
    <3> QED
        BY <1>1, <2>1, <3>2
  <2>2. ASSUME NEW c \in DOMAIN ss, NEW x \in Range(ss[c])
        PROVE  c \in DOMAIN tt /\ x \in Range(tt[c])
      BY <1>1, <1>2, <2>2
  <2> QED
      BY <2>1, <2>2
<1>5. \A c \in DOMAIN tt : Contiguous(tt[c])
    BY <1>1, <1>2, <1>3 DEF Streams
<1>6. ASSUME NEW c \in DOMAIN tt, NEW d \in DOMAIN tt, c < d,
             NEW i \in DOMAIN tt[c], NEW j \in DOMAIN tt[d]
      PROVE  tt[c][i] < tt[d][j]
  <2>1. c # Len(ss) + 1 /\ d # Len(ss) + 1
      BY <1>3
  <2>2. c \in DOMAIN ss /\ d \in DOMAIN ss /\ tt[c] = ss[c] /\ tt[d] = ss[d]
      BY <1>1, <1>2, <2>1
  <2> QED
      BY <1>6, <2>2 DEF Streams
<1>7. lo \cup UNION {Range(tt[c]) : c \in DOMAIN tt} = 1..n
    BY <1>4 DEF Streams
<1>8. Streams(tt, lo, n)
    BY <1>5, <1>6, <1>7 DEF Streams
<1> QED
    BY <1>8 DEF tt

(* The last stream, when something is in it, ends with n. *)
EndsAt(ss, n) == ss[Len(ss)] # <<>> => ss[Len(ss)][Len(ss[Len(ss)])] = n

Run(s, n) == \A i \in 1..Len(s) : s[i] = n + i

Grown(ss, s) == [ss EXCEPT ![Len(ss)] = ss[Len(ss)] \o s]

LEMMA StreamsGrow ==
    ASSUME NEW ss \in Seq(Seq(Nat)), Len(ss) # 0, NEW lo, NEW n \in Nat, Streams(ss, lo, n),
           EndsAt(ss, n), NEW s \in Seq(Nat), s # <<>>, Run(s, n)
    PROVE  /\ Streams(Grown(ss, s), lo, n + Len(s)) /\ EndsAt(Grown(ss, s), n + Len(s))
           /\ Len(Grown(ss, s)) = Len(ss)
<1> SUFFICES ASSUME NEW l, l = Len(ss), l # 0, NEW tt, tt = [ss EXCEPT ![l] = ss[l] \o s],
                    ss[l] # <<>> => ss[l][Len(ss[l])] = n, \A i \in 1..Len(s) : s[i] = n + i
             PROVE  /\ Streams(tt, lo, n + Len(s)) /\ tt[l][Len(tt[l])] = n + Len(s)
                    /\ Len(tt) = l
  <2> DEFINE l == Len(ss)
             tt == Grown(ss, s)
  <2>1. l # 0 /\ (ss[l] # <<>> => ss[l][Len(ss[l])] = n) /\ \A i \in 1..Len(s) : s[i] = n + i
      BY DEF EndsAt, Run
  <2>2. tt = [ss EXCEPT ![l] = ss[l] \o s]
      BY DEF Grown
  <2>3. l = Len(ss)
      OBVIOUS
  <2> HIDE DEF l, tt
  <2>4. Streams(tt, lo, n + Len(s)) /\ tt[l][Len(tt[l])] = n + Len(s) /\ Len(tt) = l
      BY <2>1, <2>2, <2>3
  <2>5. EndsAt(tt, n + Len(s))
      BY <2>4 DEF EndsAt
  <2> QED
      BY <2>3, <2>4, <2>5 DEF tt
<1> DEFINE t == ss[l]
           u == t \o s
           a == Len(t)
           b == Len(s)
<1>1. /\ l \in Nat /\ DOMAIN ss = 1..l /\ l \in DOMAIN ss /\ t \in Seq(Nat)
      /\ Len(t) \in Nat /\ DOMAIN t = 1..Len(t)
      /\ Len(s) \in Nat /\ Len(s) # 0 /\ DOMAIN s = 1..Len(s)
    OBVIOUS
<1>0. a \in Nat /\ b \in Nat /\ b # 0 /\ DOMAIN t = 1..a /\ DOMAIN s = 1..b
      /\ (\A i \in 1..b : s[i] = n + i) /\ (1..n) \cup Range(s) = 1..(n + b)
  <2>1. (1..n) \cup Range(s) = 1..(n + Len(s))
      BY RangeRun
  <2> QED
      BY <1>1, <2>1
<1>2. u \in Seq(Nat) /\ Len(u) = a + b
      /\ (\A i \in 1..a : u[i] = t[i])
      /\ \A i \in 1..b : u[a + i] = n + i
  <2>1. u \in Seq(Nat) /\ Len(u) = a + b
        /\ \A i \in 1..a + b : u[i] = IF i =< a THEN t[i] ELSE s[i - a]
      BY <1>0, <1>1, ConcatProperties
  <2> HIDE DEF u, t, a, b
  <2>2. \A i \in 1..a : u[i] = t[i]
      BY <1>0, <1>1, <2>1
  <2>3. ASSUME NEW i \in 1..b PROVE u[a + i] = n + i
    <3>1. a + i \in 1..(a + b) /\ ~(a + i =< a) /\ (a + i) - a = i
        BY <1>0, <1>1
    <3> QED
        BY <1>0, <2>1, <3>1
  <2> QED
      BY <2>1, <2>2, <2>3
<1>3. DOMAIN tt = 1..l /\ tt[l] = u /\ \A c \in 1..(l - 1) : tt[c] = ss[c]
  <2>1. DOMAIN tt = 1..l /\ tt[l] = u
      BY <1>1
  <2>2. \A c \in 1..(l - 1) : tt[c] = ss[c]
    <3>0. l \in Nat
        BY <1>1
    <3> TAKE c \in 1..(l - 1)
    <3>1. c \in 1..l /\ c # l
        BY <3>0
    <3>2. c \in DOMAIN ss
        BY <1>1, <3>1
    <3> QED
        BY <3>1, <3>2
  <2> QED
      BY <2>1, <2>2
<1>3a. \A c \in 1..l : c = l \/ (c \in 1..(l - 1) /\ c \in DOMAIN ss)
    BY <1>1
<1> HIDE DEF u, t, a, b
<1>4. DOMAIN u = 1..(a + b) /\ Len(u) \in Nat
    BY <1>0, <1>1, <1>2
<1>4a. ASSUME NEW i \in DOMAIN u
       PROVE  (i \in 1..a /\ u[i] = t[i]) \/ (\E k \in 1..b : i = a + k /\ u[i] = n + k)
  <2>1. i \in 1..(a + b) /\ i \in Nat
      BY <1>0, <1>4
  <2>2. CASE i =< a
    <3>1. i \in 1..a
        BY <1>0, <2>1, <2>2
    <3> QED
        BY <1>2, <3>1
  <2>3. CASE ~(i =< a)
    <3>1. i - a \in 1..b /\ a + (i - a) = i
        BY <1>0, <2>1, <2>3
    <3>2. u[a + (i - a)] = n + (i - a)
        BY <1>2, <3>1
    <3> QED
        BY <3>1, <3>2
  <2> QED
      BY <2>2, <2>3
<1>5. Range(u) = Range(t) \cup Range(s)
  <2>1. ASSUME NEW x \in Range(u) PROVE x \in Range(t) \cup Range(s)
    <3>1. PICK i \in DOMAIN u : x = u[i]
        BY <2>1 DEF Range
    <3>2. CASE i \in 1..a /\ u[i] = t[i]
        BY <1>0, <3>1, <3>2 DEF Range
    <3>3. ASSUME NEW k \in 1..b, u[i] = n + k PROVE x \in Range(s)
        BY <1>0, <3>1, <3>3 DEF Range
    <3> QED
        BY <1>4a, <3>1, <3>2, <3>3
  <2>2. ASSUME NEW x \in Range(t) PROVE x \in Range(u)
    <3>1. PICK i \in DOMAIN t : x = t[i]
        BY <2>2 DEF Range
    <3>2. i \in DOMAIN u /\ u[i] = t[i]
        BY <1>0, <1>1, <1>2, <1>4
    <3> QED
        BY <3>1, <3>2 DEF Range
  <2>3. ASSUME NEW x \in Range(s) PROVE x \in Range(u)
    <3>1. PICK i \in 1..b : x = n + i
        BY <1>0, <1>1, <2>3 DEF Range
    <3>2. a + i \in DOMAIN u /\ u[a + i] = n + i
        BY <1>0, <1>1, <1>2, <1>4
    <3> QED
        BY <3>1, <3>2 DEF Range
  <2> QED
      BY <2>1, <2>2, <2>3
<1>6. lo \cup UNION {Range(tt[c]) : c \in DOMAIN tt} = 1..(n + b)
  <2>1. ASSUME NEW x
        PROVE  (\E c \in DOMAIN tt : x \in Range(tt[c]))
                   <=> (\E c \in DOMAIN ss : x \in Range(ss[c])) \/ x \in Range(s)
    <3>1. \A c \in 1..l : c = l \/ c \in 1..(l - 1)
        BY <1>1
    <3>2. Range(tt[l]) = Range(ss[l]) \cup Range(s)
        BY <1>3, <1>5 DEF t
    <3>3. \A c \in 1..(l - 1) : Range(tt[c]) = Range(ss[c])
        BY <1>3
    <3>4. DOMAIN tt = 1..l /\ DOMAIN ss = 1..l /\ l \in 1..l
        BY <1>1, <1>3
    <3> QED
        BY <3>1, <3>2, <3>3, <3>4
  <2>2. UNION {Range(tt[c]) : c \in DOMAIN tt} = (UNION {Range(ss[c]) : c \in DOMAIN ss}) \cup Range(s)
    <3>1. ASSUME NEW x
          PROVE  x \in UNION {Range(tt[c]) : c \in DOMAIN tt}
                     <=> x \in (UNION {Range(ss[c]) : c \in DOMAIN ss}) \cup Range(s)
      <4>1. x \in UNION {Range(tt[c]) : c \in DOMAIN tt} <=> \E c \in DOMAIN tt : x \in Range(tt[c])
          BY Zenon
      <4>2. x \in UNION {Range(ss[c]) : c \in DOMAIN ss} <=> \E c \in DOMAIN ss : x \in Range(ss[c])
          BY Zenon
      <4> HIDE DEF a, b, t, u
      <4> QED
          BY <2>1, <4>1, <4>2, Zenon
    <3> QED
        BY <3>1, Zenon
  <2> QED
      BY <1>0, <2>2 DEF Streams, b
<1>7. (\A k \in 1..(a - 1) : t[k + 1] = t[k] + 1) /\ (t # <<>> => t[a] = n)
  <2>1. Contiguous(t)
      BY <1>1 DEF Streams, t
  <2> QED
      BY <2>1 DEF Contiguous, t, a
<1>8. Contiguous(u)
  <2> SUFFICES ASSUME NEW i \in 1..(Len(u) - 1) PROVE u[i + 1] = u[i] + 1
      BY DEF Contiguous
  <2>0. i \in Nat
      BY <1>4
  <2>1. CASE i < a
    <3>1. i \in 1..(a - 1) /\ i \in 1..a /\ i + 1 \in 1..a
        BY <1>0, <1>1, <1>4, <2>1
    <3> QED
        BY <1>0, <1>2, <1>7, <3>1
  <2>2. CASE i = a
    <3>1. 1 \in 1..b /\ i \in 1..a /\ t # <<>>
        BY <1>0, <1>1, <1>4, <2>2
    <3>2. u[i + 1] = n + 1 /\ u[i] = n
        BY <1>0, <1>2, <1>7, <2>2, <3>1
    <3> QED
        BY <3>2
  <2>3. CASE i > a
    <3>1. i - a \in 1..b /\ (i + 1) - a \in 1..b
          /\ a + (i - a) = i /\ a + ((i + 1) - a) = i + 1
        BY <1>0, <1>1, <1>2, <1>4, <2>3
    <3>2. u[i] = n + (i - a) /\ u[i + 1] = n + ((i + 1) - a)
        BY <1>0, <1>2, <3>1
    <3> QED
        BY <1>0, <1>1, <3>2
  <2> QED
      BY <1>0, <2>0, <2>1, <2>2, <2>3
<1>9. \A c \in DOMAIN tt : Contiguous(tt[c])
  <2> TAKE c \in DOMAIN tt
  <2>1. c = l \/ (c \in 1..(l - 1) /\ c \in DOMAIN ss)
      BY <1>3, <1>3a
  <2> QED
      BY <1>3, <1>8, <2>1 DEF Streams
<1>10. ASSUME NEW c \in DOMAIN tt, NEW d \in DOMAIN tt, c < d,
              NEW i \in DOMAIN tt[c], NEW j \in DOMAIN tt[d]
       PROVE  tt[c][i] < tt[d][j]
  <2>1. c \in 1..(l - 1) /\ c \in DOMAIN ss /\ tt[c] = ss[c]
      BY <1>0, <1>1, <1>3, <1>10
  <2>2. CASE d # l
    <3>1. d \in DOMAIN ss /\ tt[d] = ss[d]
        BY <1>0, <1>1, <1>3, <2>2
    <3> QED
        BY <1>0, <1>10, <2>1, <3>1 DEF Streams
  <2>3. CASE d = l
    <3>1. j \in DOMAIN u /\ tt[d] = u
        BY <1>3, <2>3
    <3>2. CASE j \in 1..a /\ u[j] = t[j]
      <4>1. l \in DOMAIN ss /\ ss[l] = t /\ j \in DOMAIN ss[l]
          BY <1>0, <1>1, <3>2 DEF t
      <4> QED
          BY <1>0, <1>10, <2>1, <2>3, <3>1, <3>2, <4>1 DEF Streams
    <3>3. ASSUME NEW k \in 1..b, u[j] = n + k PROVE tt[c][i] < tt[d][j]
      <4>1. ss[c][i] \in Range(ss[c])
          BY <2>1, <1>10 DEF Range
      <4>2. ss[c][i] \in 1..n
          BY <2>1, <4>1 DEF Streams
      <4>3. tt[c][i] = ss[c][i] /\ tt[d][j] = n + k
          BY <2>1, <3>1, <3>3
      <4>4. \A v \in 1..n : v < n + k
          BY <1>0
      <4> QED
          BY <4>2, <4>3, <4>4, Zenon
    <3> QED
        BY <1>4a, <3>1, <3>2, <3>3
  <2> QED
      BY <2>2, <2>3
<1>11. tt[l][Len(tt[l])] = n + b
  <2>1. b \in 1..b
      BY <1>0, <1>1
  <2> QED
      BY <1>0, <1>2, <1>3, <2>1
<1>12. Streams(tt, lo, n + b)
    BY <1>6, <1>9, <1>10 DEF Streams
<1>13. Len(tt) = l
    OBVIOUS
<1> QED
    BY <1>11, <1>12, <1>13 DEF b

LEMMA StreamTypes ==
    ASSUME TInv
    PROVE  /\ streams \in Seq(Seq(Nat)) /\ Len(streams) \in Nat /\ Len(streams) # 0
           /\ DOMAIN streams = 1..Len(streams)
<1>1. streams \in Seq(Seq(Calls)) /\ Seq(Calls) \subseteq Seq(Nat)
    BY CallsNat DEF TInv, TOut
<1>2. streams \in Seq(Seq(Nat))
    BY <1>1, SeqMonotonic
<1> QED
    BY <1>2 DEF TInv, Counts

(* A connection that is up goes on where the one before stopped. *)
Current == link = "up" => EndsAt(streams, Out)

SentInv == Waits /\ Streams(streams, lost, Out) /\ Current

LEMMA SentInit == Init => SentInv
<1> SUFFICES ASSUME Init PROVE SentInv
    OBVIOUS
<1>1. Waits /\ Out = 0
    BY WaitsInit
<1>2. streams = <<<<>>>> /\ lost = {}
    BY DEF Init
<1>3. Len(streams) = 1 /\ DOMAIN streams = {1} /\ streams[1] = <<>>
    BY <1>2
<1>4. Range(<<>>) = {} /\ DOMAIN <<>> = {}
    BY DEF Range
<1>5. UNION {Range(streams[c]) : c \in DOMAIN streams} = {}
    BY <1>3, <1>4
<1>6. 1..0 = {}
    OBVIOUS
<1>7. Contiguous(<<>>)
    BY DEF Contiguous
<1>8. Streams(streams, lost, Out)
    BY <1>1, <1>2, <1>3, <1>4, <1>5, <1>6, <1>7 DEF Streams
<1> QED
    BY <1>1, <1>3, <1>8 DEF SentInv, Current, EndsAt

LEMMA SentNext == TInv /\ TInv' /\ SentInv /\ [Next]_vars => SentInv'
<1> SUFFICES ASSUME TInv, TInv', SentInv, [Next]_vars PROVE SentInv'
    OBVIOUS
<1>0. Waits /\ Streams(streams, lost, Out) /\ Current /\ Out \in Nat /\ TOut'
    BY DEF SentInv, Waits, TInv
<1>1. ASSUME Waits', Out' = Out, UNCHANGED <<streams, lost>>, link' = "up" => link = "up"
      PROVE  SentInv'
    BY <1>0, <1>1 DEF SentInv, Current
<1>2. CASE Connected
  <2>1. Waits' /\ Out' = Out
      BY <1>0, <1>2, CachesKeep DEF Connected
  <2>2. lost' = lost /\ streams' = Append(streams, <<>>)
      BY <1>2 DEF Connected
  <2>3. Streams(streams', lost', Out')
      BY <1>0, <2>1, <2>2, StreamTypes, StreamsNew
  <2>4. streams'[Len(streams')] = <<>>
    <3>1. <<>> \in Seq(Nat)
        OBVIOUS
    <3> QED
        BY <2>2, <3>1, StreamTypes, AppendProperties
  <2> QED
      BY <2>1, <2>3, <2>4 DEF SentInv, Current, EndsAt
<1>3. CASE Write
  <2>1. PICK k \in 1..Len(Head(m_sendCacheQueue).calls) :
           /\ m_sendCacheQueue' = Written(k)
           /\ \/ /\ link = "up"
                 /\ streams' = [streams EXCEPT ![Len(streams)] =
                                    @ \o SubSeq(Head(m_sendCacheQueue).calls, 1, k)]
                 /\ UNCHANGED <<link, lost>>
              \/ /\ link = "fin" /\ link' = "rst"
                 /\ lost' = lost \cup Range(SubSeq(Head(m_sendCacheQueue).calls, 1, k))
                 /\ UNCHANGED streams
      BY <1>3, Zenon DEF Write
  <2> DEFINE s == SubSeq(Head(m_sendCacheQueue).calls, 1, k)
  <2>2. m_sendCacheQueue # <<>> /\ UNCHANGED <<m_pSendCache, appended>>
      BY <1>3 DEF Write
  <2>3. /\ Waits' /\ Out' = Out + k /\ s \in Seq(Nat) /\ Len(s) = k
        /\ \A i \in 1..k : s[i] = Out + i
      BY <1>0, <2>1, <2>2, CachesWrite
  <2>4. k \in Nat /\ k # 0
      BY <2>1
  <2> HIDE DEF s
  <2>5. CASE link = "up" /\ streams' = [streams EXCEPT ![Len(streams)] = @ \o s]
             /\ UNCHANGED <<link, lost>>
    <3>1. streams \in Seq(Seq(Nat)) /\ Len(streams) # 0 /\ EndsAt(streams, Out)
        BY <1>0, <2>5, StreamTypes DEF Current
    <3>2. s # <<>> /\ Run(s, Out) /\ s \in Seq(Nat)
        BY <2>3, <2>4 DEF Run
    <3>3. streams' = Grown(streams, s)
        BY <2>5 DEF Grown
    <3>4. Streams(Grown(streams, s), lost, Out + Len(s)) /\ EndsAt(Grown(streams, s), Out + Len(s))
        BY <1>0, <3>1, <3>2, StreamsGrow
    <3> QED
        BY <2>3, <2>5, <3>3, <3>4 DEF SentInv, Current
  <2>6. CASE link = "fin" /\ link' = "rst" /\ lost' = lost \cup Range(s) /\ UNCHANGED streams
    <3>1. Streams(streams, lost \cup Range(s), Out + Len(s))
        BY <1>0, <2>3, StreamsLost
    <3> QED
        BY <2>3, <2>6, <3>1 DEF SentInv, Current
  <2> QED
      BY <2>1, <2>5, <2>6 DEF s
<1>4. CASE WriteFails
  <2> DEFINE s == Head(m_sendCacheQueue).calls
  <2>1. /\ m_sendCacheQueue # <<>> /\ UNCHANGED <<m_pSendCache, appended, streams, link>>
        /\ m_sendCacheQueue' = Tail(m_sendCacheQueue) /\ lost' = lost \cup Range(s)
        /\ link = "rst"
      BY <1>4 DEF WriteFails
  <2>2. /\ Waits' /\ Out' = Out + Len(s) /\ s \in Seq(Nat)
        /\ \A i \in 1..Len(s) : s[i] = Out + i
      BY <1>0, <2>1, CachesFail
  <2> HIDE DEF s
  <2>3. Streams(streams, lost \cup Range(s), Out + Len(s))
      BY <1>0, <2>2, StreamsLost
  <2> QED
      BY <2>1, <2>2, <2>3 DEF SentInv, Current
<1>5. CASE ~Connected /\ ~Write /\ ~WriteFails
  <2>1. Appends \/ SendBegin \/ UNCHANGED outVars
      BY <1>5 DEF Next, processAllRpcobj, readThread, writeThread, Appends, HandleBegin,
                  HandleEnd, Handle, FindClient, CallGate, ReadBegin, ReadData, ReadNothing,
                  ReadFails, Reopen, DealCall, DealAsserts, DealEnd, SendNull, SendEnd,
                  GateSends, GateStops, vars
  <2>2. Waits' /\ Out' = Out
      BY <1>0, <2>1, CachesKeep
  <2>3. UNCHANGED <<streams, lost>> /\ (link' = "up" => link = "up")
    <3>1. CASE Reopen
        BY <3>1 DEF Reopen, linkVars
    <3> QED
        BY <1>5, <3>1 DEF Next, processAllRpcobj, readThread, writeThread, HandleBegin,
                  HandleEnd, Handle, FindClient, CallGate, MainAppend, TakeProxy, ReadBegin,
                  ReadData, ReadNothing, ReadFails, DealCall, DealAsserts, DealEnd, SendBegin,
                  SendNull, SendEnd, GateSends, GateStops, vars, linkVars
  <2> QED
      BY <1>1, <2>2, <2>3
<1> QED
    BY <1>2, <1>3, <1>4, <1>5

LEMMA SentInOrderHolds == SentInv => SentInOrder
BY DEF SentInv, Waits, Chain, Streams, SentInOrder

(* Calls to the gate keep their order over all connections; one is written  *)
(* to one connection, waits in the caches, or went with a connection that   *)
(* ended (AppendSend, dealSend, dosend, and the reader connecting again).   *)
THEOREM ClientSendsInOrder == Spec => []SentInOrder
<1>1. Init => SentInv
    BY SentInit
<1>2. TInv /\ TInv' /\ SentInv /\ [Next]_vars => SentInv'
    BY SentNext
<1> QED
    BY <1>1, <1>2, TInvAlways, SentInOrderHolds, PTL DEF Spec

-----------------------------------------------------------------------------
(* Calls from the gate are run in the order they were sent.                *)

(* The calls w that came: those after b are the ones before m, in order. *)
Came(w, b, m) ==
    /\ \A i, j \in DOMAIN w : i < j => w[i] < w[j]
    /\ \A n \in 1..MaxIn : n > b => (n < m <=> n \in Range(w))

(* The stream u begins with the call m. *)
Aligned(u, m) == \A k \in DOMAIN u : u[k] = Cell(m, k)

LEMMA CellAt ==
    ASSUME NEW m \in Nat
    PROVE  /\ \A x \in Nat : Cell(m, 2 * x + 1) = <<m + x, 1>> /\ Cell(m, 2 * x + 2) = <<m + x, 2>>
           /\ \A k \in Nat : Cell(m, k + 2) = Cell(m + 1, k)
           /\ Cell(m, 1) = <<m, 1>> /\ Cell(m, 2) = <<m, 2>>
<1>1. ASSUME NEW x \in Nat
      PROVE  Cell(m, 2 * x + 1) = <<m + x, 1>> /\ Cell(m, 2 * x + 2) = <<m + x, 2>>
  <2>1. /\ ((2 * x + 1) - 1) \div 2 = x /\ ((2 * x + 1) - 1) % 2 = 0
        /\ ((2 * x + 2) - 1) \div 2 = x /\ ((2 * x + 2) - 1) % 2 = 1
      OBVIOUS
  <2> QED
      BY <2>1 DEF Cell
<1>2. ASSUME NEW k \in Nat PROVE Cell(m, k + 2) = Cell(m + 1, k)
  <2>1. ((k + 2) - 1) \div 2 = ((k - 1) \div 2) + 1 /\ ((k + 2) - 1) % 2 = (k - 1) % 2
      OBVIOUS
  <2>2. m + (((k - 1) \div 2) + 1) = (m + 1) + ((k - 1) \div 2)
      OBVIOUS
  <2> QED
      BY <2>1, <2>2 DEF Cell
<1>3. Cell(m, 1) = <<m, 1>> /\ Cell(m, 2) = <<m, 2>>
    BY DEF Cell
<1> QED
    BY <1>1, <1>2, <1>3

(* Two whole cells are the next call. *)
LEMMA CameCall ==
    ASSUME NEW w \in Seq(0..MaxIn), NEW b \in Nat, NEW m \in (b + 1)..MaxIn, Came(w, b, m)
    PROVE  Came(Append(w, m), b, m + 1)
<1> USE ConstantTypes
<1> DEFINE v == Append(w, m)
<1>1. /\ m \in 0..MaxIn /\ m > b /\ m >= 1 /\ Len(w) \in Nat /\ DOMAIN w = 1..Len(w)
      /\ \A i \in DOMAIN w : w[i] \in 0..MaxIn
    OBVIOUS
<1>2. DOMAIN v = 1..(Len(w) + 1) /\ v[Len(w) + 1] = m /\ \A i \in 1..Len(w) : v[i] = w[i]
    BY <1>1, AppendProperties
<1> HIDE DEF v
<1>3. ASSUME NEW i \in DOMAIN w PROVE w[i] < m
  <2>1. CASE w[i] > b
    <3>1. w[i] \in 1..MaxIn /\ w[i] \in Range(w)
        BY <1>1, <2>1 DEF Range
    <3> QED
        BY <2>1, <3>1 DEF Came
  <2>2. CASE ~(w[i] > b)
      BY <1>1, <2>2
  <2> QED
      BY <2>1, <2>2
<1>4. ASSUME NEW i \in DOMAIN v, NEW j \in DOMAIN v, i < j PROVE v[i] < v[j]
  <2>1. i \in DOMAIN w /\ v[i] = w[i]
      BY <1>1, <1>2, <1>4
  <2>2. CASE j = Len(w) + 1
      BY <1>2, <1>3, <2>1, <2>2
  <2>3. CASE j # Len(w) + 1
    <3>1. j \in DOMAIN w /\ v[j] = w[j]
        BY <1>1, <1>2, <2>3
    <3> QED
        BY <1>4, <2>1, <3>1 DEF Came
  <2> QED
      BY <2>2, <2>3
<1>5. Range(v) = Range(w) \cup {m}
  <2> DEFINE e == Len(w) + 1
  <2>1. DOMAIN v = DOMAIN w \cup {e} /\ (\A i \in DOMAIN w : v[i] = w[i]) /\ v[e] = m
      BY <1>1, <1>2
  <2> HIDE DEF e
  <2>2. ASSUME NEW x \in Range(v) PROVE x \in Range(w) \cup {m}
    <3>1. PICK i \in DOMAIN v : x = v[i]
        BY <2>2 DEF Range
    <3> QED
        BY <2>1, <3>1 DEF Range
  <2>3. ASSUME NEW x \in Range(w) PROVE x \in Range(v)
      BY <2>1, <2>3 DEF Range
  <2>4. m \in Range(v)
      BY <2>1 DEF Range
  <2> QED
      BY <2>2, <2>3, <2>4
<1>6. ASSUME NEW n \in 1..MaxIn, n > b PROVE n < m + 1 <=> n \in Range(v)
  <2>1. n < m <=> n \in Range(w)
      BY <1>6 DEF Came
  <2>2. n < m + 1 <=> n < m \/ n = m
      BY <1>1
  <2> QED
      BY <1>5, <2>1, <2>2
<1> QED
    BY <1>4, <1>6 DEF Came, v

(* A new connection goes on with what the gate sends next. *)
LEMMA CameAgain ==
    ASSUME NEW w, NEW b \in Nat, NEW t \in Nat, NEW m \in (b + 1)..(t + 1), Came(w, b, m)
    PROVE  Came(w, t, t + 1)
<1>1. ASSUME NEW n \in 1..MaxIn, n > t PROVE ~(n < t + 1) /\ n \notin Range(w)
  <2>1. n > b /\ ~(n < m) /\ ~(n < t + 1)
      BY <1>1, ConstantTypes
  <2> QED
      BY <2>1 DEF Came
<1> QED
    BY <1>1 DEF Came

Whole == handled \o m_queRpcObj
Ahead == m_recvBuffer \o net

(* Calls ahead, in whole cells when the gate can still send them. *)
Covers(l, lk, m, t) == l =< 2 * (t + 1 - m) /\ (lk = "up" => l = 2 * (t + 1 - m))

Begins(v, u) == Len(v) =< Len(u) /\ \A k \in 1..Len(v) : v[k] = u[k]

LEMMA BeginsAligned ==
    ASSUME NEW u \in Seq(Cells), NEW v \in Seq(Cells), NEW m, Begins(v, u), Aligned(u, m)
    PROVE  Aligned(v, m) /\ Len(v) =< Len(u)
<1>1. Len(u) \in Nat /\ Len(v) \in Nat /\ DOMAIN u = 1..Len(u) /\ DOMAIN v = 1..Len(v)
    OBVIOUS
<1>2. Len(v) =< Len(u) /\ \A k \in 1..Len(v) : v[k] = u[k]
    BY DEF Begins
<1>3. \A k \in 1..Len(v) : k \in 1..Len(u)
    BY <1>1, <1>2
<1> QED
    BY <1>1, <1>2, <1>3 DEF Aligned

LEMMA CoversLess ==
    ASSUME NEW x \in Nat, NEW y \in Nat, y =< x, NEW m \in Nat, NEW t \in Nat, NEW l, NEW k,
           Covers(x, l, m, t), k = "up" => (l = "up" /\ y = x)
    PROVE  Covers(y, k, m, t)
BY DEF Covers

LEMMA NextIsDef ==
    ASSUME NEW m
    PROVE  NextIs(m) <=> /\ Came(Whole, since, m) /\ Aligned(Ahead, m)
                         /\ Covers(Len(Ahead), link, m, sent)
BY DEF NextIs, Came, Aligned, Covers, Whole, Ahead

LEMMA NextIsThen ==
    ASSUME NEW m
    PROVE  NextIs(m)' <=> /\ Came(Whole', since', m) /\ Aligned(Ahead', m)
                          /\ Covers(Len(Ahead'), link', m, sent')
BY DEF NextIs, Came, Aligned, Covers, Whole, Ahead

RecvInv == ReceivedInOrder /\ (link = "none" => since = sent /\ net = <<>>)

LEMMA RecvTypes ==
    ASSUME TInv
    PROVE  /\ Whole \in Seq(0..MaxIn) /\ Ahead \in Seq(Cells) /\ Len(Ahead) \in Nat
           /\ Len(Ahead) = Len(m_recvBuffer) + Len(net)
           /\ since \in Nat /\ sent \in Nat /\ since =< sent /\ sent =< MaxIn
<1>1. Whole \in Seq(0..MaxIn)
    BY ConcatProperties DEF TInv, TIn, Whole
<1>2. Ahead \in Seq(Cells) /\ Len(Ahead) = Len(m_recvBuffer) + Len(net)
    BY ConcatProperties DEF TInv, TIn, Ahead
<1> QED
    BY <1>1, <1>2, ConstantTypes DEF TInv, TIn

LEMMA RecvInit == Init => RecvInv
<1> SUFFICES ASSUME Init PROVE RecvInv
    OBVIOUS
<1>1. Whole = <<>> /\ Ahead = <<>> /\ since = 0 /\ sent = 0 /\ link = "up"
    BY DEF Init, Whole, Ahead
<1>2. Came(<<>>, 0, 1)
  <2>1. DOMAIN <<>> = {} /\ Range(<<>>) = {}
      BY DEF Range
  <2> QED
      BY <2>1, ConstantTypes DEF Came
<1>3. Aligned(<<>>, 1) /\ Covers(Len(<<>>), "up", 1, 0)
    BY DEF Aligned, Covers
<1>4. NextIs(1)
    BY <1>1, <1>2, <1>3, NextIsDef
<1> QED
    BY <1>1, <1>4 DEF RecvInv, ReceivedInOrder

(* A step that moves cells on, or loses the last of them. *)
LEMMA RecvMoves ==
    ASSUME TInv, TInv', RecvInv, UNCHANGED <<since, sent, torn>>, Whole' = Whole,
           Begins(Ahead', Ahead),
           link' = "up" => (link = "up" /\ Len(Ahead') = Len(Ahead))
    PROVE  ReceivedInOrder'
<1>1. CASE torn
    BY <1>1 DEF ReceivedInOrder
<1>2. CASE ~torn
  <2>1. PICK m \in (since + 1)..(sent + 1) : NextIs(m)
      BY <1>2 DEF RecvInv, ReceivedInOrder
  <2>2. Came(Whole, since, m) /\ Aligned(Ahead, m) /\ Covers(Len(Ahead), link, m, sent)
      BY <2>1, NextIsDef
  <2>3. Ahead \in Seq(Cells) /\ Ahead' \in Seq(Cells) /\ sent \in Nat /\ m \in Nat
    <3>1. Ahead' \in Seq(Cells)
        BY ConcatProperties DEF TInv, TIn, Ahead
    <3> QED
        BY <2>1, <3>1, RecvTypes
  <2>4. Aligned(Ahead', m) /\ Len(Ahead') =< Len(Ahead)
      BY <2>2, <2>3, BeginsAligned
  <2>5. Covers(Len(Ahead'), link', m, sent)
    <3>1. Len(Ahead) \in Nat /\ Len(Ahead') \in Nat
        BY <2>3
    <3> QED
        BY <2>2, <2>3, <2>4, <3>1, CoversLess
  <2>6. NextIs(m)'
      BY <2>2, <2>4, <2>5, NextIsThen
  <2> QED
      BY <2>1, <2>6 DEF ReceivedInOrder
<1> QED
    BY <1>1, <1>2 DEF TInv, TFlags

(* x is u, of length a, and then v, of length b. *)
Joined(x, u, a, v, b) ==
    Len(x) = a + b /\ \A i \in 1..(a + b) : x[i] = IF i =< a THEN u[i] ELSE v[i - a]

LEMMA Concat ==
    ASSUME NEW S, NEW u \in Seq(S), NEW v \in Seq(S)
    PROVE  u \o v \in Seq(S) /\ Joined(u \o v, u, Len(u), v, Len(v))
BY ConcatProperties DEF Joined

(* Reading moves the beginning of what is ahead to the other buffer. *)
LEMMA ReadKeeps ==
    ASSUME NEW S, NEW u \in Seq(S), NEW v \in Seq(S), NEW n \in 1..Len(v)
    PROVE  (u \o SubSeq(v, 1, n)) \o SubSeq(v, n + 1, Len(v)) = u \o v
<1> DEFINE p == SubSeq(v, 1, n)
           r == SubSeq(v, n + 1, Len(v))
           a == Len(u)
           b == Len(v)
<1>1. a \in Nat /\ b \in Nat /\ n \in 0..b /\ n + 1 \in 1..(b + 1)
    OBVIOUS
<1>2. p \in Seq(S) /\ Len(p) = n /\ \A i \in 1..n : p[i] = v[i]
    BY <1>1, Take
<1>3. r \in Seq(S) /\ Len(r) = b - (n + 1) + 1 /\ \A i \in 1..(b - (n + 1) + 1) : r[i] = v[(n + 1) + i - 1]
    BY <1>1, Cut
<1> HIDE DEF p, r
<1>4. u \o p \in Seq(S) /\ Len(u \o p) = a + n
      /\ \A i \in 1..(a + n) : (u \o p)[i] = IF i =< a THEN u[i] ELSE p[i - a]
    BY <1>2, ConcatProperties
<1>5. u \o v \in Seq(S) /\ Len(u \o v) = a + b
      /\ \A i \in 1..(a + b) : (u \o v)[i] = IF i =< a THEN u[i] ELSE v[i - a]
    BY ConcatProperties
<1>6. (u \o p) \o r \in Seq(S) /\ Len((u \o p) \o r) = (a + n) + (b - (n + 1) + 1)
      /\ \A i \in 1..((a + n) + (b - (n + 1) + 1)) :
             ((u \o p) \o r)[i] = IF i =< a + n THEN (u \o p)[i] ELSE r[i - (a + n)]
  <2> DEFINE x == u \o p
             c == a + n
             d == b - (n + 1) + 1
  <2>1. x \in Seq(S) /\ Len(x) = c /\ Len(r) = d
      BY <1>3, <1>4
  <2> HIDE DEF x, c, d
  <2>2. x \o r \in Seq(S) /\ Joined(x \o r, x, c, r, d)
      BY <1>3, <2>1, Concat
  <2>3. x \o r \in Seq(S) /\ Len(x \o r) = c + d
        /\ \A i \in 1..(c + d) : (x \o r)[i] = IF i =< c THEN x[i] ELSE r[i - c]
      BY <2>2, Zenon DEF Joined
  <2> QED
      BY <2>3 DEF x, c, d
<1> HIDE DEF a, b
<1>7. (a + n) + (b - (n + 1) + 1) = a + b
    BY <1>1
<1>8. ASSUME NEW i \in 1..(a + b) PROVE ((u \o p) \o r)[i] = (u \o v)[i]
  <2>0. i \in Nat
      BY <1>1
  <2>1. CASE i =< a
    <3>1. i \in 1..(a + n) /\ i =< a + n
        BY <1>1, <2>1
    <3> QED
        BY <1>4, <1>5, <1>6, <1>7, <2>1, <3>1
  <2>2. CASE i > a /\ i =< a + n
    <3>1. i \in 1..(a + n) /\ ~(i =< a) /\ i - a \in 1..n
        BY <1>1, <2>2
    <3> QED
        BY <1>2, <1>4, <1>5, <1>6, <1>7, <2>2, <3>1
  <2>3. CASE i > a + n
    <3>1. ~(i =< a) /\ ~(i =< a + n) /\ i - (a + n) \in 1..(b - (n + 1) + 1)
          /\ (n + 1) + (i - (a + n)) - 1 = i - a
        BY <1>1, <2>3
    <3>2. ((u \o p) \o r)[i] = r[i - (a + n)] /\ (u \o v)[i] = v[i - a]
        BY <1>5, <1>6, <1>7, <3>1
    <3> QED
        BY <1>3, <3>1, <3>2
  <2>4. i =< a \/ (i > a /\ i =< a + n) \/ i > a + n
      BY <1>1, <2>0
  <2> QED
      BY <2>1, <2>2, <2>3, <2>4
<1> QED
    BY <1>5, <1>6, <1>7, <1>8, SeqEqual DEF p, r, a, b

(* So does taking the first call out of the queue to run it. *)
LEMMA HandleKeeps ==
    ASSUME NEW S, NEW u \in Seq(S), NEW v \in Seq(S), v # <<>>
    PROVE  Append(u, Head(v)) \o Tail(v) = u \o v
<1> DEFINE a == Len(u)
           b == Len(v)
           p == Append(u, Head(v))
           r == Tail(v)
<1>1. a \in Nat /\ b \in Nat /\ b >= 1 /\ Head(v) = v[1] /\ Head(v) \in S
      /\ r \in Seq(S) /\ Len(r) = b - 1 /\ \A i \in 1..(b - 1) : r[i] = v[i + 1]
    OBVIOUS
<1>2. p \in Seq(S) /\ Len(p) = a + 1 /\ p[a + 1] = v[1] /\ \A i \in 1..a : p[i] = u[i]
    BY <1>1, AppendProperties
<1> HIDE DEF p, r
<1>3. u \o v \in Seq(S) /\ Len(u \o v) = a + b
      /\ \A i \in 1..(a + b) : (u \o v)[i] = IF i =< a THEN u[i] ELSE v[i - a]
    BY ConcatProperties
<1>4. p \o r \in Seq(S) /\ Len(p \o r) = (a + 1) + (b - 1)
      /\ \A i \in 1..((a + 1) + (b - 1)) : (p \o r)[i] = IF i =< a + 1 THEN p[i] ELSE r[i - (a + 1)]
  <2> DEFINE c == a + 1
             d == b - 1
  <2>1. Len(p) = c /\ Len(r) = d
      BY <1>1, <1>2
  <2> HIDE DEF c, d
  <2>2. p \o r \in Seq(S) /\ Joined(p \o r, p, c, r, d)
      BY <1>1, <1>2, <2>1, Concat
  <2>3. p \o r \in Seq(S) /\ Len(p \o r) = c + d
        /\ \A i \in 1..(c + d) : (p \o r)[i] = IF i =< c THEN p[i] ELSE r[i - c]
      BY <2>2, Zenon DEF Joined
  <2> QED
      BY <2>3 DEF c, d
<1> HIDE DEF a, b
<1>5. (a + 1) + (b - 1) = a + b
    BY <1>1
<1>6. ASSUME NEW i \in 1..(a + b) PROVE (p \o r)[i] = (u \o v)[i]
  <2>0. i \in Nat
      BY <1>1
  <2>1. CASE i =< a
    <3>1. i \in 1..a /\ i =< a + 1
        BY <1>1, <2>1
    <3> QED
        BY <1>2, <1>3, <1>4, <1>5, <2>1, <3>1
  <2>2. CASE i = a + 1
    <3>1. ~(i =< a) /\ i =< a + 1 /\ i - a = 1
        BY <1>1, <2>2
    <3> QED
        BY <1>2, <1>3, <1>4, <1>5, <2>2, <3>1
  <2>3. CASE i > a + 1
    <3>1. ~(i =< a) /\ ~(i =< a + 1) /\ i - (a + 1) \in 1..(b - 1) /\ (i - (a + 1)) + 1 = i - a
        BY <1>1, <2>3
    <3>2. (p \o r)[i] = r[i - (a + 1)] /\ (u \o v)[i] = v[i - a]
        BY <1>3, <1>4, <1>5, <3>1
    <3> QED
        BY <1>1, <3>1, <3>2
  <2>4. i =< a \/ i = a + 1 \/ i > a + 1
      BY <1>1, <2>0
  <2> QED
      BY <2>1, <2>2, <2>3, <2>4
<1> QED
    BY <1>3, <1>4, <1>5, <1>6, SeqEqual DEF p, r, a, b

(* A call more behind the cells, and a call less before them. *)
LEMMA AheadGrows ==
    ASSUME NEW u \in Seq(Cells), NEW v \in Seq(Cells), NEW m \in Nat, NEW t \in Nat, m =< t + 1,
           Aligned(u \o v, m), Covers(Len(u \o v), "up", m, t),
           <<t + 1, 1>> \in Cells, <<t + 1, 2>> \in Cells
    PROVE  /\ Aligned(u \o (v \o <<<<t + 1, 1>>, <<t + 1, 2>>>>), m)
           /\ Covers(Len(u \o (v \o <<<<t + 1, 1>>, <<t + 1, 2>>>>)), "up", m, t + 1)
<1> DEFINE w == <<<<t + 1, 1>>, <<t + 1, 2>>>>
           x == u \o v
           y == u \o (v \o w)
           c == t + 1 - m
           l == Len(x)
<1>1. w \in Seq(Cells) /\ Len(w) = 2 /\ w[1] = <<t + 1, 1>> /\ w[2] = <<t + 1, 2>>
    OBVIOUS
<1>2. x \in Seq(Cells) /\ l \in Nat /\ DOMAIN x = 1..l
    BY ConcatProperties
<1> HIDE DEF w
<1>3. y = x \o w
  <2>1. \A r \in Seq(Cells) : (u \o v) \o r = u \o (v \o r)
      BY ConcatAssociative
  <2>2. (u \o v) \o w = u \o (v \o w)
      BY <1>1, <2>1
  <2> QED
      BY <2>2
<1>4. y \in Seq(Cells) /\ Len(y) = l + 2
      /\ \A i \in 1..(l + 2) : y[i] = IF i =< l THEN x[i] ELSE w[i - l]
  <2>1. Len(w) = 2 /\ Len(x) = l
      BY <1>1
  <2> HIDE DEF x, y, l
  <2>2. x \o w \in Seq(Cells) /\ Joined(x \o w, x, l, w, 2)
      BY <1>1, <1>2, <2>1, Concat
  <2> QED
      BY <1>3, <2>2, Zenon DEF Joined
<1>5. l = 2 * c /\ c \in Nat
    BY DEF Covers
<1>6. Aligned(x, m)
    OBVIOUS
<1>7. DOMAIN y = 1..(l + 2)
    BY <1>4
<1> HIDE DEF x, y, l
<1>8. m + c = t + 1 /\ 2 * ((t + 1) + 1 - m) = 2 * c + 2
    OBVIOUS
<1> HIDE DEF c
<1>9. ASSUME NEW i \in 1..(l + 2) PROVE y[i] = Cell(m, i)
  <2>1. CASE i =< l
    <3>1. i \in 1..l
        BY <1>2, <2>1
    <3> QED
        BY <1>2, <1>4, <1>6, <2>1, <3>1 DEF Aligned
  <2>2. CASE i = l + 1
    <3>1. ~(i =< l) /\ i - l = 1 /\ i = 2 * c + 1
        BY <1>2, <1>5, <2>2
    <3>2. y[i] = <<t + 1, 1>>
        BY <1>1, <1>4, <3>1
    <3> QED
        BY <1>5, <1>8, <3>1, <3>2, CellAt
  <2>3. CASE i = l + 2
    <3>1. ~(i =< l) /\ i - l = 2 /\ i = 2 * c + 2
        BY <1>2, <1>5, <2>3
    <3>2. y[i] = <<t + 1, 2>>
        BY <1>1, <1>4, <3>1
    <3> QED
        BY <1>5, <1>8, <3>1, <3>2, CellAt
  <2> QED
      BY <1>2, <2>1, <2>2, <2>3
<1>10. Aligned(y, m)
    BY <1>7, <1>9 DEF Aligned
<1>11. Covers(Len(y), "up", m, t + 1)
    BY <1>4, <1>5, <1>8 DEF Covers
<1> QED
    BY <1>10, <1>11 DEF y, w

LEMMA AheadCall ==
    ASSUME NEW u \in Seq(Cells), NEW v \in Seq(Cells), NEW m \in Nat, NEW t \in Nat, NEW l,
           Aligned(u \o v, m), Covers(Len(u \o v), l, m, t), Len(u) >= 2
    PROVE  /\ CallOf(u[1], u[2]) = m /\ m =< t
           /\ Aligned(Rest(u) \o v, m + 1) /\ Covers(Len(Rest(u) \o v), l, m + 1, t)
<1> DEFINE a == Len(u)
           b == Len(v)
           x == u \o v
           r == Rest(u)
           y == r \o v
<1>1. a \in Nat /\ b \in Nat /\ 3 \in 1..(a + 1)
    OBVIOUS
<1>2. x \in Seq(Cells) /\ Len(x) = a + b
      /\ \A i \in 1..(a + b) : x[i] = IF i =< a THEN u[i] ELSE v[i - a]
    BY ConcatProperties
<1>3. r \in Seq(Cells) /\ Len(r) = a - 3 + 1 /\ \A i \in 1..(a - 3 + 1) : r[i] = u[3 + i - 1]
    BY <1>1, Cut DEF Rest
<1> HIDE DEF r
<1>4. y \in Seq(Cells) /\ Len(y) = (a - 3 + 1) + b
      /\ \A i \in 1..((a - 3 + 1) + b) : y[i] = IF i =< a - 3 + 1 THEN r[i] ELSE v[i - (a - 3 + 1)]
  <2> DEFINE c == a - 3 + 1
  <2>1. Len(r) = c /\ Len(v) = b
      BY <1>3
  <2> HIDE DEF a, b, c
  <2>2. r \o v \in Seq(Cells) /\ Joined(r \o v, r, c, v, b)
      BY <1>3, <2>1, Concat
  <2>3. y \in Seq(Cells) /\ Len(y) = c + b
        /\ \A i \in 1..(c + b) : y[i] = IF i =< c THEN r[i] ELSE v[i - c]
      BY <2>2, Zenon DEF Joined
  <2> QED
      BY <2>3 DEF c
<1>5. DOMAIN x = 1..(a + b) /\ DOMAIN y = 1..((a - 3 + 1) + b)
    BY <1>2, <1>4
<1>6. Aligned(x, m) /\ Covers(Len(x), l, m, t) /\ a >= 2
    OBVIOUS
<1> HIDE DEF a, b, x, y
<1>7. a - 3 + 1 = a - 2 /\ (a - 3 + 1) + b = a + b - 2
    BY <1>1
<1>8. \A i \in 1..(a + b) : x[i] = Cell(m, i)
    BY <1>5, <1>6 DEF Aligned
<1>9. u[1] = <<m, 1>> /\ u[2] = <<m, 2>>
  <2>1. 1 \in 1..(a + b) /\ 2 \in 1..(a + b) /\ 1 =< a /\ 2 =< a
      BY <1>1, <1>6
  <2>2. x[1] = u[1] /\ x[2] = u[2]
      BY <1>2, <2>1
  <2> QED
      BY <1>8, <2>1, <2>2, CellAt
<1>10. CallOf(u[1], u[2]) = m
    BY <1>9 DEF CallOf
<1>11. a + b =< 2 * (t + 1 - m) /\ (l = "up" => a + b = 2 * (t + 1 - m))
    BY <1>2, <1>6 DEF Covers
<1>12. m =< t /\ a + b - 2 =< 2 * (t + 1 - (m + 1))
       /\ (l = "up" => a + b - 2 = 2 * (t + 1 - (m + 1)))
    BY <1>1, <1>6, <1>11
<1>13. ASSUME NEW i \in 1..(a + b - 2) PROVE y[i] = Cell(m + 1, i)
  <2>0. i \in Nat /\ i + 2 \in 1..(a + b)
      BY <1>1
  <2>1. y[i] = x[i + 2]
    <3>1. CASE i =< a - 2
      <4>1. i \in 1..(a - 2) /\ 3 + i - 1 = i + 2 /\ i + 2 =< a
          BY <1>1, <2>0, <3>1
      <4>2. y[i] = r[i] /\ r[i] = u[i + 2]
          BY <1>3, <1>4, <1>7, <3>1, <4>1
      <4>3. x[i + 2] = u[i + 2]
          BY <1>2, <2>0, <4>1
      <4> QED
          BY <4>2, <4>3
    <3>2. CASE ~(i =< a - 2)
      <4>1. ~(i + 2 =< a) /\ i - (a - 2) = (i + 2) - a
          BY <1>1, <2>0, <3>2
      <4>2. y[i] = v[i - (a - 2)]
          BY <1>4, <1>7, <3>2
      <4>3. x[i + 2] = v[(i + 2) - a]
          BY <1>2, <2>0, <4>1
      <4> QED
          BY <4>1, <4>2, <4>3
    <3> QED
        BY <3>1, <3>2
  <2> QED
      BY <1>8, <2>0, <2>1, CellAt
<1>14. Aligned(y, m + 1)
    BY <1>5, <1>7, <1>13 DEF Aligned
<1>15. Covers(Len(y), l, m + 1, t)
    BY <1>4, <1>7, <1>12 DEF Covers
<1> QED
    BY <1>10, <1>12, <1>14, <1>15 DEF y, r

LEMMA RecvNext == TInv /\ TInv' /\ RecvInv /\ [Next]_vars => RecvInv'
<1> SUFFICES ASSUME TInv, TInv', RecvInv, [Next]_vars PROVE RecvInv'
    OBVIOUS
<1> DEFINE Closed == link = "none" => (since = sent /\ net = <<>>)
<1>0. /\ net \in Seq(Cells) /\ m_recvBuffer \in Seq(Cells)
      /\ m_queRpcObj \in Seq(0..MaxIn) /\ handled \in Seq(0..MaxIn)
      /\ Ahead \in Seq(Cells) /\ Len(Ahead) \in Nat /\ Closed
    BY RecvTypes DEF TInv, TIn, RecvInv
<1>0a. Begins(Ahead, Ahead)
    BY <1>0 DEF Begins
<1> HIDE DEF Closed
<1>1. ASSUME ReceivedInOrder', Closed' PROVE RecvInv'
    BY <1>1 DEF RecvInv, Closed
<1>2. ASSUME UNCHANGED <<m_recvBuffer, net, handled, m_queRpcObj, since, sent, torn>>,
             link' = link \/ link' \notin {"up", "none"}
      PROVE  RecvInv'
  <2>1. Ahead' = Ahead /\ Whole' = Whole
      BY <1>2 DEF Ahead, Whole
  <2>2. ReceivedInOrder'
      BY <1>0a, <1>2, <2>1, RecvMoves
  <2>3. Closed'
      BY <1>0, <1>2 DEF Closed
  <2> QED
      BY <1>1, <2>2, <2>3
<1>3. CASE ReadData
  <2>1. PICK n \in 1..Len(net) :
            /\ m_recvBuffer' = m_recvBuffer \o SubSeq(net, 1, n)
            /\ net' = SubSeq(net, n + 1, Len(net))
      BY <1>3 DEF ReadData
  <2>2. UNCHANGED <<m_queRpcObj, link, since, sent, torn, handled>>
      BY <1>3 DEF ReadData
  <2>3. Ahead' = Ahead
      BY <1>0, <2>1, ReadKeeps DEF Ahead
  <2>4. Whole' = Whole
      BY <2>2 DEF Whole
  <2>5. ReceivedInOrder'
      BY <1>0a, <2>2, <2>3, <2>4, RecvMoves
  <2>6. link # "none"
    <3>1. net # <<>>
        BY <1>0, <2>1
    <3> QED
        BY <1>0, <3>1 DEF Closed
  <2> QED
      BY <1>1, <2>2, <2>5, <2>6 DEF Closed
<1>4. CASE GateStops
  <2>1. PICK n \in 0..Len(net) : net' = SubSeq(net, 1, n)
      BY <1>4 DEF GateStops
  <2>2. UNCHANGED <<m_recvBuffer, m_queRpcObj, since, sent, torn, handled>> /\ link' \in {"fin", "rst"}
      BY <1>4 DEF GateStops, inVars
  <2>3. SubSeq(net, 1, n) \in Seq(Cells) /\ Len(SubSeq(net, 1, n)) = n
        /\ \A i \in 1..n : SubSeq(net, 1, n)[i] = net[i]
      BY <1>0, <2>1, Take
  <2>4. Begins(Ahead', Ahead)
    <3> DEFINE u == m_recvBuffer
               p == SubSeq(net, 1, n)
               a == Len(u)
               b == Len(net)
    <3>1. a \in Nat /\ b \in Nat /\ n \in 0..b /\ Len(p) = n
        BY <1>0, <2>1, <2>3
    <3>2. Joined(u \o net, u, a, net, b) /\ Joined(u \o p, u, a, p, Len(p))
        BY <1>0, <2>3, Concat
    <3>3. Ahead' = u \o p /\ Ahead = u \o net
        BY <2>1, <2>2 DEF Ahead
    <3>4. \A i \in 1..n : p[i] = net[i]
        BY <2>3
    <3>5. Joined(u \o p, u, a, p, n)
        BY <3>1, <3>2
    <3> HIDE DEF u, p, a, b
    <3>6. Len(u \o net) = a + b /\ Len(u \o p) = a + n
        BY <3>2, <3>5 DEF Joined
    <3>7. ASSUME NEW i \in 1..(a + n) PROVE (u \o p)[i] = (u \o net)[i]
      <4>1. i \in 1..(a + b) /\ i \in Nat
          BY <3>1
      <4>2. (u \o p)[i] = (IF i =< a THEN u[i] ELSE p[i - a])
            /\ (u \o net)[i] = (IF i =< a THEN u[i] ELSE net[i - a])
          BY <3>2, <3>5, <4>1 DEF Joined
      <4>3. ~(i =< a) => i - a \in 1..n
          BY <3>1, <4>1
      <4> QED
          BY <3>4, <4>2, <4>3
    <3>8. a + n =< a + b
        BY <3>1
    <3> QED
        BY <3>3, <3>6, <3>7, <3>8 DEF Begins
  <2>5. Whole' = Whole
      BY <2>2 DEF Whole
  <2>6. ReceivedInOrder'
      BY <2>2, <2>4, <2>5, RecvMoves
  <2> QED
      BY <1>1, <2>2, <2>6 DEF Closed
<1>5. CASE Handle
  <2>1. /\ handled' = Append(handled, Head(m_queRpcObj)) /\ m_queRpcObj' = Tail(m_queRpcObj)
        /\ m_queRpcObj # <<>>
        /\ UNCHANGED <<m_recvBuffer, net, link, since, sent, torn>>
      BY <1>5 DEF Handle, linkVars
  <2>2. Whole' = Whole
      BY <1>0, <2>1, HandleKeeps DEF Whole
  <2>3. Ahead' = Ahead
      BY <2>1 DEF Ahead
  <2>4. ReceivedInOrder'
      BY <1>0a, <2>1, <2>2, <2>3, RecvMoves
  <2> QED
      BY <1>0, <1>1, <2>1, <2>4 DEF Closed
<1>6. CASE DealCall
  <2>1. /\ Len(m_recvBuffer) >= 2 /\ m_recvBuffer' = Rest(m_recvBuffer)
        /\ m_queRpcObj' = Append(m_queRpcObj, CallOf(m_recvBuffer[1], m_recvBuffer[2]))
        /\ UNCHANGED <<net, link, since, sent, torn, handled>>
      BY <1>6 DEF DealCall, linkVars
  <2>2. Closed'
      BY <1>0, <2>1 DEF Closed
  <2>3. CASE torn
      BY <1>1, <2>1, <2>2, <2>3 DEF ReceivedInOrder
  <2>4. CASE ~torn
    <3>1. PICK m \in (since + 1)..(sent + 1) : NextIs(m)
        BY <2>4 DEF RecvInv, ReceivedInOrder
    <3>2. Came(Whole, since, m) /\ Aligned(Ahead, m) /\ Covers(Len(Ahead), link, m, sent)
        BY <3>1, NextIsDef
    <3>3. m \in Nat /\ sent \in Nat /\ since \in Nat /\ sent =< MaxIn
        BY <3>1, RecvTypes
    <3>4. /\ CallOf(m_recvBuffer[1], m_recvBuffer[2]) = m /\ m =< sent
          /\ Aligned(Rest(m_recvBuffer) \o net, m + 1)
          /\ Covers(Len(Rest(m_recvBuffer) \o net), link, m + 1, sent)
        BY <1>0, <2>1, <3>2, <3>3, AheadCall DEF Ahead
    <3>5. Aligned(Ahead', m + 1) /\ Covers(Len(Ahead'), link', m + 1, sent')
        BY <2>1, <3>4 DEF Ahead
    <3>6. m \in (since + 1)..MaxIn /\ m \in 0..MaxIn /\ m + 1 \in (since + 1)..(sent + 1)
        BY <3>1, <3>3, <3>4, ConstantTypes
    <3>7. Whole' = Append(Whole, m)
      <4>1. Whole' = handled \o Append(m_queRpcObj, m)
          BY <2>1, <3>4 DEF Whole
      <4>2. <<m>> \in Seq(0..MaxIn)
          BY <3>6
      <4>3. Append(m_queRpcObj, m) = m_queRpcObj \o <<m>>
            /\ Append(Whole, m) = Whole \o <<m>>
          BY <1>0, <3>6, AppendIsConcat, RecvTypes
      <4>4. (handled \o m_queRpcObj) \o <<m>> = handled \o (m_queRpcObj \o <<m>>)
          BY <1>0, <4>2, ConcatAssociative
      <4> QED
          BY <4>1, <4>3, <4>4 DEF Whole
    <3>8. Came(Whole', since', m + 1)
        BY <2>1, <3>2, <3>3, <3>6, <3>7, RecvTypes, CameCall
    <3>9. NextIs(m + 1)'
      <4> DEFINE k == m + 1
      <4>1. Came(Whole', since', k) /\ Aligned(Ahead', k) /\ Covers(Len(Ahead'), link', k, sent')
          BY <3>5, <3>8
      <4> HIDE DEF k
      <4>2. NextIs(k)'
          BY <4>1, NextIsThen
      <4> QED
          BY <4>2 DEF k
    <3>10. ReceivedInOrder'
        BY <2>1, <3>6, <3>9 DEF ReceivedInOrder
    <3> QED
        BY <1>1, <2>2, <3>10
  <2> QED
      BY <2>3, <2>4 DEF TInv, TFlags
<1>7. CASE GateSends
  <2>1. /\ link = "up" /\ link' = "up" /\ sent' = sent + 1 /\ sent < MaxIn
        /\ net' = net \o <<<<sent + 1, 1>>, <<sent + 1, 2>>>>
        /\ UNCHANGED <<m_recvBuffer, m_queRpcObj, since, torn, handled>>
      BY <1>7 DEF GateSends, inVars
  <2>2. CASE torn
      BY <1>1, <2>1, <2>2 DEF ReceivedInOrder, Closed
  <2>3. CASE ~torn
    <3>1. PICK m \in (since + 1)..(sent + 1) : NextIs(m)
        BY <2>3 DEF RecvInv, ReceivedInOrder
    <3>2. Came(Whole, since, m) /\ Aligned(Ahead, m) /\ Covers(Len(Ahead), link, m, sent)
        BY <3>1, NextIsDef
    <3>3. m \in Nat /\ sent \in Nat /\ since \in Nat /\ m =< sent + 1
        BY <3>1, RecvTypes
    <3>4. <<sent + 1, 1>> \in Cells /\ <<sent + 1, 2>> \in Cells
        BY <2>1, <3>3, ConstantTypes DEF Cells
    <3>5. /\ Aligned(m_recvBuffer \o (net \o <<<<sent + 1, 1>>, <<sent + 1, 2>>>>), m)
          /\ Covers(Len(m_recvBuffer \o (net \o <<<<sent + 1, 1>>, <<sent + 1, 2>>>>)), "up", m, sent + 1)
        BY <1>0, <2>1, <3>2, <3>3, <3>4, AheadGrows DEF Ahead
    <3>6. Aligned(Ahead', m) /\ Covers(Len(Ahead'), link', m, sent')
        BY <2>1, <3>5 DEF Ahead
    <3>7. Came(Whole', since', m)
        BY <2>1, <3>2 DEF Whole
    <3>8. NextIs(m)'
        BY <3>6, <3>7, NextIsThen
    <3>9. m \in (since + 1)..((sent + 1) + 1)
        BY <3>1, <3>3
    <3>10. ReceivedInOrder'
        BY <2>1, <3>8, <3>9 DEF ReceivedInOrder
    <3> QED
        BY <1>1, <2>1, <3>10 DEF Closed
  <2> QED
      BY <2>2, <2>3 DEF TInv, TFlags
<1>8. CASE Reopen
  <2>1. UNCHANGED <<m_recvBuffer, m_queRpcObj, handled, sent>>
      BY <1>8 DEF Reopen, inVars
  <2>2. CASE UNCHANGED linkVars
      BY <1>2, <2>1, <2>2 DEF linkVars
  <2>3. CASE /\ link' = "none" /\ net' = <<>> /\ since' = sent
             /\ torn' = (torn \/ m_recvBuffer # <<>>)
    <3>1. Closed'
        BY <2>1, <2>3 DEF Closed
    <3>2. CASE torn'
        BY <1>1, <3>1, <3>2 DEF ReceivedInOrder
    <3>3. CASE ~torn'
      <4>1. ~torn /\ m_recvBuffer = <<>>
          BY <2>3, <3>3
      <4>2. PICK m \in (since + 1)..(sent + 1) : NextIs(m)
          BY <4>1 DEF RecvInv, ReceivedInOrder
      <4>3. Came(Whole, since, m)
          BY <4>2, NextIsDef
      <4>4. sent \in Nat /\ since \in Nat
          BY RecvTypes
      <4>5. Came(Whole, sent, sent + 1)
          BY <4>2, <4>3, <4>4, CameAgain
      <4>6. Came(Whole', since', sent + 1)
          BY <2>1, <2>3, <4>5 DEF Whole
      <4>7. Ahead' = <<>>
          BY <2>1, <2>3, <4>1 DEF Ahead
      <4>8. Aligned(Ahead', sent + 1) /\ Covers(Len(Ahead'), link', sent + 1, sent')
          BY <2>1, <2>3, <4>4, <4>7 DEF Aligned, Covers
      <4>9. \E k \in (since' + 1)..(sent' + 1) : NextIs(k)'
        <5>1. PICK k \in Nat : k = sent + 1
            BY <4>4
        <5>2. Came(Whole', since', k) /\ Aligned(Ahead', k) /\ Covers(Len(Ahead'), link', k, sent')
            BY <4>6, <4>8, <5>1
        <5>3. NextIs(k)'
            BY <5>2, NextIsThen
        <5>4. k \in (since' + 1)..(sent' + 1)
            BY <2>1, <2>3, <4>4, <5>1
        <5> QED
            BY <5>3, <5>4
      <4>10. ReceivedInOrder'
          BY <4>9 DEF ReceivedInOrder
      <4> QED
          BY <1>1, <3>1, <4>10
    <3> QED
        BY <3>2, <3>3 DEF TInv, TFlags
  <2> QED
      BY <1>8, <2>2, <2>3 DEF Reopen
<1>9. CASE Connected
  <2>1. /\ UNCHANGED <<m_recvBuffer, m_queRpcObj, net, since, sent, torn, handled>>
        /\ link' = "up" /\ readPc = "connect"
      BY <1>9 DEF Connected, inVars
  <2>2. since = sent /\ net = <<>>
    <3>1. link = "none"
        BY <2>1 DEF TInv, Counts
    <3> QED
        BY <1>0, <3>1 DEF Closed
  <2>3. Closed'
      BY <2>1 DEF Closed
  <2>4. CASE torn
      BY <1>1, <2>1, <2>3, <2>4 DEF ReceivedInOrder
  <2>5. CASE ~torn
    <3>1. PICK m \in (since + 1)..(sent + 1) : NextIs(m)
        BY <2>5 DEF RecvInv, ReceivedInOrder
    <3>2. Came(Whole, since, m) /\ Aligned(Ahead, m) /\ Covers(Len(Ahead), link, m, sent)
        BY <3>1, NextIsDef
    <3>3. sent \in Nat /\ m = sent + 1 /\ Len(Ahead) \in Nat
        BY <2>2, <3>1, RecvTypes
    <3>4. Covers(Len(Ahead), "up", m, sent)
        BY <3>2, <3>3 DEF Covers
    <3>5. Ahead' = Ahead /\ Whole' = Whole
        BY <2>1 DEF Ahead, Whole
    <3>6. NextIs(m)'
        BY <2>1, <3>2, <3>4, <3>5, NextIsThen
    <3>7. ReceivedInOrder'
        BY <2>1, <3>1, <3>6 DEF ReceivedInOrder
    <3> QED
        BY <1>1, <2>3, <3>7
  <2> QED
      BY <2>4, <2>5 DEF TInv, TFlags
<1>10. CASE ~ReadData /\ ~GateStops /\ ~Handle /\ ~DealCall /\ ~GateSends /\ ~Reopen /\ ~Connected
  <2>1. UNCHANGED <<m_recvBuffer, net, handled, m_queRpcObj, since, sent, torn>>
      BY <1>10 DEF Next, processAllRpcobj, readThread, writeThread, HandleBegin, HandleEnd,
                  FindClient, MainAppend, CallGate, ReadBegin, ReadNothing, ReadFails,
                  TakeProxy, DealAsserts, DealEnd, SendBegin, SendNull, Write, WriteFails, SendEnd,
                  vars, linkVars, inVars
  <2>2. link' = link \/ link' \notin {"up", "none"}
    <3>1. CASE Write
        BY <3>1 DEF Write
    <3> QED
        BY <1>10, <3>1 DEF Next, processAllRpcobj, readThread, writeThread, HandleBegin, HandleEnd,
                  FindClient, MainAppend, CallGate, ReadBegin, ReadNothing, ReadFails,
                  TakeProxy, DealAsserts, DealEnd, SendBegin, SendNull, WriteFails, SendEnd,
                  vars, linkVars
  <2> QED
      BY <1>2, <2>1, <2>2
<1> QED
    BY <1>3, <1>4, <1>5, <1>6, <1>7, <1>8, <1>9, <1>10

(* Calls from the gate are run in the order they were sent, and what is not *)
(* queued yet begins with the next call, until a connection ends within a   *)
(* call (OnRead, dealReadBuffer, handleRpcObj).                             *)
THEOREM ClientReceivesInOrder == Spec => []ReceivedInOrder
<1>1. Init => RecvInv
    BY RecvInit
<1>2. TInv /\ TInv' /\ RecvInv /\ [Next]_vars => RecvInv'
    BY RecvNext
<1>3. RecvInv => ReceivedInOrder
    BY DEF RecvInv
<1> QED
    BY <1>1, <1>2, <1>3, TInvAlways, PTL DEF Spec

-----------------------------------------------------------------------------
(* The buffer for what is read.                                            *)

(* When the reader is not dealing with calls, no whole one is there. *)
Dealt == torn \/ (readPc # "deal" => Len(m_recvBuffer) < 2)

(* What was read begins with a length, as it is the beginning of a call. *)
LEMMA BeginsWithLength ==
    ASSUME TInv, RecvInv, ~torn, m_recvBuffer # <<>>
    PROVE  m_recvBuffer[1][2] = 1
<1>1. PICK m \in (since + 1)..(sent + 1) : NextIs(m)
    BY DEF RecvInv, ReceivedInOrder
<1>2. m_recvBuffer \in Seq(Cells) /\ net \in Seq(Cells) /\ Len(m_recvBuffer) \in Nat
    BY DEF TInv, TIn
<1>3. 1 \in 1..Len(m_recvBuffer)
    BY <1>2
<1>4. Ahead[1] = m_recvBuffer[1] /\ 1 \in DOMAIN Ahead
    BY <1>2, <1>3, ConcatProperties, RecvTypes DEF Ahead
<1>5. Aligned(Ahead, m)
    BY <1>1, NextIsDef
<1>6. m \in Nat
    BY <1>1, RecvTypes
<1>7. Ahead[1] = <<m, 1>>
    BY <1>4, <1>5, <1>6, CellAt DEF Aligned
<1> QED
    BY <1>4, <1>7

LEMMA DealtNext == TInv /\ RecvInv /\ Dealt /\ [Next]_vars => Dealt'
<1> SUFFICES ASSUME TInv, RecvInv, Dealt, [Next]_vars PROVE Dealt'
    OBVIOUS
<1>1. ASSUME UNCHANGED <<m_recvBuffer, torn>>, readPc' # "deal" => readPc # "deal"
      PROVE  Dealt'
    BY <1>1 DEF Dealt
<1>2. CASE ReadData
    BY <1>2 DEF ReadData, Dealt
<1>3. CASE DealCall
  <2>1. readPc' = "deal"
      BY <1>3 DEF DealCall, pcs
  <2> QED
      BY <2>1 DEF Dealt
<1>4. CASE DealEnd
  <2>1. UNCHANGED <<m_recvBuffer, torn>> /\ ~(Len(m_recvBuffer) >= 2 /\ m_recvBuffer[1][2] = 1)
      BY <1>4 DEF DealEnd, inVars, linkVars
  <2>2. m_recvBuffer \in Seq(Cells) /\ Len(m_recvBuffer) \in Nat
      BY DEF TInv, TIn
  <2>3. torn \/ Len(m_recvBuffer) < 2
    <3> SUFFICES ASSUME ~torn, Len(m_recvBuffer) >= 2
                 PROVE  FALSE
        BY <2>2
    <3>1. m_recvBuffer # <<>>
        BY <2>2
    <3> QED
        BY <2>1, <3>1, BeginsWithLength
  <2> QED
      BY <2>1, <2>3 DEF Dealt
<1>5. CASE Reopen
  <2>1. UNCHANGED m_recvBuffer /\ readPc = "del"
      BY <1>5 DEF Reopen, inVars
  <2>2. torn => torn'
      BY <1>5 DEF Reopen, linkVars
  <2> QED
      BY <2>1, <2>2 DEF Dealt
<1>6. CASE ~ReadData /\ ~DealCall /\ ~DealEnd /\ ~Reopen
  <2>1. UNCHANGED <<m_recvBuffer, torn>>
      BY <1>6 DEF Next, processAllRpcobj, readThread, writeThread, HandleBegin, Handle, HandleEnd,
                  FindClient, MainAppend, CallGate, ReadBegin, ReadNothing, ReadFails, Connected,
                  TakeProxy, DealAsserts, SendBegin, SendNull, Write, WriteFails, SendEnd,
                  GateSends, GateStops, vars, linkVars, inVars
  <2>2. readPc' # "deal" => readPc # "deal"
      BY <1>6 DEF Next, processAllRpcobj, readThread, writeThread, HandleBegin, Handle, HandleEnd,
                  FindClient, MainAppend, CallGate, ReadBegin, ReadNothing, ReadFails, Connected,
                  TakeProxy, DealAsserts, SendBegin, SendNull, Write, WriteFails, SendEnd,
                  GateSends, GateStops, vars, pcs
  <2> QED
      BY <1>1, <2>1, <2>2
<1> QED
    BY <1>2, <1>3, <1>4, <1>5, <1>6

LEMMA InStep == TInv /\ RecvInv /\ Dealt => BufferInStep
<1> SUFFICES ASSUME TInv, RecvInv, Dealt, ~torn PROVE BufferInStep
    BY Zenon DEF BufferInStep, TInv, TFlags
<1>1. m_recvBuffer # <<>> => m_recvBuffer[1][2] = 1
    BY BeginsWithLength
<1>2. readPc # "deal" => Len(m_recvBuffer) < 2
    BY DEF Dealt
<1> QED
    BY <1>1, <1>2, Zenon DEF BufferInStep

(* Until a connection ends within a call, the reader never stands before a  *)
(* whole call or a full buffer when it goes back to read, nor before        *)
(* anything but a length when it deals (OnRead, dealReadBuffer).            *)
THEOREM ClientBuffers == Spec => []BufferInStep
<1>1. Init => RecvInv /\ Dealt
  <2>1. Init => Dealt
      BY DEF Init, Dealt
  <2> QED
      BY <2>1, RecvInit
<1>2. TInv /\ TInv' /\ RecvInv /\ Dealt /\ [Next]_vars => RecvInv' /\ Dealt'
    BY RecvNext, DealtNext
<1>3. TInv /\ RecvInv /\ Dealt => BufferInStep
    BY InStep
<1> QED
    BY <1>1, <1>2, <1>3, TInvAlways, PTL DEF Spec

=============================================================================

----------------------------- MODULE TcpClient ------------------------------
(***************************************************************************)
(* The connection to the gate (tcpclient.cpp, recvBuff.cpp), in the net    *)
(* and in the game process, with the three threads that use it:            *)
(*                                                                         *)
(*   main    calls the gate (AppendSend fills the caches) and runs the     *)
(*           calls that came from it (handleRpcObj);                       *)
(*   reader  readThread: reads, cuts the bytes into calls, and connects    *)
(*           again when the connection has gone;                           *)
(*   writer  writeThread: sends the caches.                                *)
(*                                                                         *)
(* Three mutexes: that of tcpclientMgr (the manager's), that of the        *)
(* tcpclient for its caches (the client's), and mutexRecv for m_queRpcObj. *)
(* A critical section without a call that can wait is one step. Which      *)
(* thread holds a mutex for longer follows from where it is: see Mgr,      *)
(* Client and Recv.                                                        *)
(*                                                                         *)
(* Calls to the gate are numbered 1, 2, ... as they are appended. Calls    *)
(* from the gate are numbered as it sends them; m is the cells <<m, 1>>    *)
(* (the length, and what fits behind it) and <<m, 2>> of the stream.       *)
(***************************************************************************)
EXTENDS Integers, Sequences, FiniteSets, SequencesExt

CONSTANTS CacheSize,   \* RPC_BUFF_SIZE, for a sendCache
          PrefixSize,  \* the length that encodeBuffer puts before a call
          CallSizes,   \* what getRpcSize may return
          RecvSize,    \* RPC_BUFF_SIZE, for m_recvBuffer, in cells
          MaxOut,      \* main calls the gate up to this number of calls
          MaxIn,       \* bound on calls from the gate
          MaxConn      \* bound on connections

ASSUME TcpClientAssumption ==
    /\ CacheSize \in Nat /\ PrefixSize \in Nat /\ CallSizes \subseteq Nat \ {0}
    /\ RecvSize \in Nat \ {0, 1}
    /\ MaxOut \in Nat /\ MaxIn \in Nat /\ MaxConn \in Nat \ {0}

VARIABLES
    link,          \* kernel: "up", "fin" or "rst" by the gate, "none" when closed
    net,           \* kernel: cells from the gate that are not read yet
    keyed,         \* m_sock is the descriptor that m_mapFdTcpClient has
    m_sendCacheQueue, m_pSendCache,
    m_recvBuffer,  \* its first m_recvOffset bytes, in cells
    m_queRpcObj,   \* calls for main, 0 for one that was never sent
    mainPc,        \* "idle", "call" (to find the client), "append"
    inHandler,     \* main is in handleRpcObj
    readPc,        \* "idle", "read", "deal", "del", "connect", "proxy"
    writePc,       \* "idle", "send", "del" (in DelConn, after an error)
    dead,          \* how the process stopped, or "no"
    appended,      \* history: number of calls appended
    streams,       \* history: for each connection, the calls written to it
    lost,          \* history: the calls written to a connection that had ended
    sent,          \* history: number of calls that the gate has sent
    since,         \* history: number of those sent before this connection
    torn,          \* history: a connection ended within a call
    handled        \* history: the calls main has run

outVars  == <<m_sendCacheQueue, m_pSendCache, appended>>
inVars   == <<m_recvBuffer, m_queRpcObj>>
linkVars == <<link, net, keyed, streams, lost, since, torn>>
pcs      == <<mainPc, inHandler, readPc, writePc>>
vars == <<outVars, inVars, linkVars, pcs, dead, sent, handled>>

NULL  == [used |-> 0, calls |-> <<>>]     \* no cache; a used one is never empty
Cells == (1..MaxIn) \X {1, 2}
Calls == 1..(MaxOut + MaxConn)
Cache == [used : Nat, calls : Seq(Calls)]

TypeOK ==
    /\ link \in {"up", "fin", "rst", "none"} /\ net \in Seq(Cells)
    /\ keyed \in BOOLEAN
    /\ m_sendCacheQueue \in Seq(Cache \ {NULL}) /\ m_pSendCache \in Cache
    /\ m_recvBuffer \in Seq(Cells) /\ Len(m_recvBuffer) =< RecvSize
    /\ m_queRpcObj \in Seq(0..MaxIn)
    /\ mainPc \in {"idle", "call", "append"} /\ inHandler \in BOOLEAN
    /\ readPc \in {"idle", "read", "deal", "del", "connect", "proxy"}
    /\ writePc \in {"idle", "send", "del"}
    /\ dead \in {"no", "assert", "undefined", "fault"}
    /\ appended \in Calls /\ sent \in 0..MaxIn /\ since \in 0..sent
    /\ streams \in Seq(Seq(Calls)) /\ handled \in Seq(0..MaxIn)
    /\ torn \in BOOLEAN /\ lost \subseteq Calls

-----------------------------------------------------------------------------
(* The mutexes: who holds one over more than a step.                        *)

(* Mutant of MgrOfReader: calls are queued with the manager's mutex held.   *)
MgrOfReaderDealing == {"deal", "connect", "proxy"}

(* DelConn keeps the manager's mutex until the new connection is there.     *)
MgrOfReader == {"connect", "proxy"}

Mgr    == IF writePc # "idle" THEN "writer"        \* processDealSend
          ELSE IF readPc \in MgrOfReader THEN "reader" ELSE "free"
Client == IF writePc # "idle" THEN "writer" ELSE "free"          \* dealSend
Recv   == IF inHandler THEN "main" ELSE "free"               \* handleRpcObj

-----------------------------------------------------------------------------
(* AppendSend.                                                             *)

Left(c) == CacheSize - c.used

(* Mutant of Rolled: the full cache is not queued.                          *)
RolledLost(need) ==
    IF need > Left(m_pSendCache) THEN <<m_sendCacheQueue, NULL>>
    ELSE <<m_sendCacheQueue, m_pSendCache>>

(* The queue, and the cache with room for the call: a new one when needed.  *)
Rolled(need) ==
    IF need > Left(m_pSendCache) THEN <<Append(m_sendCacheQueue, m_pSendCache), NULL>>
    ELSE <<m_sendCacheQueue, m_pSendCache>>

(* encodeBuffer: the length, then what getRpcSize counted.                  *)
Encoded(need) == PrefixSize + need

(* The test leaves the length out. A call that just fits without it fails   *)
(* the assertion, or is written beyond m_mem, over the field behind it,     *)
(* m_offset: what the process does from then on is undefined.               *)
AppendSend(need) ==
    LET queue == Rolled(need)[1]
        cache == Rolled(need)[2]
    IN  /\ dead = "no" /\ Client = "free"
        /\ \/ /\ need >= Left(cache)            \* assert( needSize < ... )
              /\ dead' = "assert" /\ UNCHANGED outVars
           \/ /\ need < Left(cache)
              /\ appended' = appended + 1
              /\ m_sendCacheQueue' = queue
              /\ m_pSendCache' = [used  |-> cache.used + Encoded(need),
                                  calls |-> Append(cache.calls, appended + 1)]
              /\ dead' = IF Encoded(need) > Left(cache) THEN "undefined" ELSE "no"

-----------------------------------------------------------------------------
(* The main thread.                                                        *)

(* rpcCallGate, called while clients are read or from a handler. *)
CallGate ==
    /\ dead = "no" /\ mainPc = "idle" /\ appended < MaxOut
    /\ mainPc' = "call"
    /\ UNCHANGED <<outVars, inVars, linkVars, inHandler, readPc, writePc, dead, sent, handled>>

FindClient ==
    /\ dead = "no" /\ mainPc = "call" /\ Mgr = "free"
    /\ mainPc' = "append"
    /\ UNCHANGED <<outVars, inVars, linkVars, inHandler, readPc, writePc, dead, sent, handled>>

MainAppend ==
    /\ mainPc = "append"
    /\ \E need \in CallSizes : AppendSend(need)
    /\ mainPc' = "idle"
    /\ UNCHANGED <<inVars, linkVars, inHandler, readPc, writePc, sent, handled>>

(* processAllRpcobj up to the lock in handleRpcObj.                         *)
HandleBegin ==
    /\ dead = "no" /\ mainPc = "idle" /\ ~inHandler /\ Mgr = "free"
    /\ inHandler' = TRUE
    /\ UNCHANGED <<outVars, inVars, linkVars, mainPc, readPc, writePc, dead, sent, handled>>

Handle ==
    /\ dead = "no" /\ mainPc = "idle" /\ inHandler /\ m_queRpcObj # <<>>
    /\ handled' = Append(handled, Head(m_queRpcObj))
    /\ m_queRpcObj' = Tail(m_queRpcObj)
    /\ UNCHANGED <<outVars, m_recvBuffer, linkVars, pcs, dead, sent>>

HandleEnd ==
    /\ dead = "no" /\ mainPc = "idle" /\ inHandler /\ m_queRpcObj = <<>>
    /\ inHandler' = FALSE
    /\ UNCHANGED <<outVars, inVars, linkVars, mainPc, readPc, writePc, dead, sent, handled>>

-----------------------------------------------------------------------------
(* The read thread.                                                        *)

ReadBegin ==
    /\ dead = "no" /\ readPc = "idle" /\ Mgr = "free"
    /\ readPc' = "read"
    /\ UNCHANGED <<outVars, inVars, linkVars, mainPc, inHandler, writePc, dead, sent, handled>>

(* OnRead: some of the cells that are there, as far as they fit.            *)
ReadData ==
    /\ dead = "no" /\ readPc = "read"
    /\ \E n \in 1..Len(net) :
           /\ Len(m_recvBuffer) + n =< RecvSize
           /\ m_recvBuffer' = m_recvBuffer \o SubSeq(net, 1, n)
           /\ net' = SubSeq(net, n + 1, Len(net))
    /\ readPc' = "deal"
    /\ UNCHANGED <<outVars, m_queRpcObj, link, keyed, streams, lost, since, torn,
                   mainPc, inHandler, writePc, dead, sent, handled>>

(* EAGAIN, or the buffer is full.                                           *)
ReadNothing ==
    /\ dead = "no" /\ readPc = "read"
    /\ (net = <<>> /\ link = "up") \/ Len(m_recvBuffer) = RecvSize
    /\ readPc' = "deal"
    /\ UNCHANGED <<outVars, inVars, linkVars, mainPc, inHandler, writePc, dead, sent, handled>>

(* Mutant of ReadFails: an error is not the end of the stream.              *)
ReadFailsAtEnd ==
    /\ dead = "no" /\ readPc = "read"
    /\ net = <<>> /\ link = "fin" /\ Len(m_recvBuffer) < RecvSize
    /\ readPc' = "del"
    /\ UNCHANGED <<outVars, inVars, linkVars, mainPc, inHandler, writePc, dead, sent, handled>>

(* The end of the stream, or an error.                                      *)
ReadFails ==
    /\ dead = "no" /\ readPc = "read"
    /\ net = <<>> /\ link \in {"fin", "rst"} /\ Len(m_recvBuffer) < RecvSize
    /\ readPc' = "del"
    /\ UNCHANGED <<outVars, inVars, linkVars, mainPc, inHandler, writePc, dead, sent, handled>>

(* DelConn and OnClose up to the new socket. When m_sock is not the         *)
(* descriptor under which the client was filed, DelConn finds nothing.      *)
Reopen ==
    /\ dead = "no" /\ readPc = "del" /\ Mgr = "free"
    /\ \/ /\ ~keyed /\ readPc' = "idle" /\ UNCHANGED linkVars
       \/ /\ keyed /\ readPc' = "connect"
          /\ link' = "none" /\ net' = <<>>
          /\ keyed' \in BOOLEAN
          /\ since' = sent
          /\ torn' = (torn \/ m_recvBuffer # <<>>)
          /\ UNCHANGED <<streams, lost>>
    /\ UNCHANGED <<outVars, inVars, mainPc, inHandler, writePc, dead, sent, handled>>

(* doconnect: the gate accepts.                                             *)
Connected ==
    /\ dead = "no" /\ readPc = "connect"
    /\ readPc' = "proxy"
    /\ link' = "up" /\ streams' = Append(streams, <<>>)
    /\ UNCHANGED <<outVars, inVars, net, keyed, lost, since, torn, mainPc, inHandler, writePc,
                   dead, sent, handled>>

(* TakeProxy; then the manager's mutex is given back.                       *)
TakeProxy ==
    /\ readPc = "proxy"
    /\ \E need \in CallSizes : AppendSend(need)
    /\ readPc' = "idle"
    /\ UNCHANGED <<inVars, linkVars, mainPc, inHandler, writePc, sent, handled>>

(* What the call made of two cells is: one that the gate sent, or none.     *)
CallOf(a, b) == IF a[2] = 1 /\ b = <<a[1], 2>> THEN a[1] ELSE 0

(* Mutant of Rest: a cell too many is taken out of the buffer.              *)
RestLess(buf) == SubSeq(buf, 4, Len(buf))

(* The buffer after the first call.                                         *)
Rest(buf) == SubSeq(buf, 3, Len(buf))

(* dealReadBuffer, one call. Where no call begins, its length is whatever   *)
(* stands there: it may be too long to be dealt with now (DealEnd).         *)
DealCall ==
    /\ dead = "no" /\ readPc = "deal" /\ Recv = "free"
    /\ Len(m_recvBuffer) >= 2
    /\ m_queRpcObj' = Append(m_queRpcObj, CallOf(m_recvBuffer[1], m_recvBuffer[2]))
    /\ m_recvBuffer' = Rest(m_recvBuffer)
    /\ UNCHANGED <<outVars, linkVars, pcs, dead, sent, handled>>

(* assert(m_pMsgType==0) in decodeBuffer, where no call begins; what stands *)
(* there for its length may be less than a cell.                            *)
DealAsserts ==
    /\ dead = "no" /\ readPc = "deal"
    /\ m_recvBuffer # <<>> /\ m_recvBuffer[1][2] # 1
    /\ dead' = "assert"
    /\ UNCHANGED <<outVars, inVars, linkVars, pcs, sent, handled>>

(* Mutant of DealEnd: one call for each read.                               *)
DealEndAnyTime ==
    /\ dead = "no" /\ readPc = "deal"
    /\ readPc' = "idle"
    /\ UNCHANGED <<outVars, inVars, linkVars, mainPc, inHandler, writePc, dead, sent, handled>>

(* No whole call is left; or no call begins here, and the length that       *)
(* stands here is too long for what there is.                               *)
DealEnd ==
    /\ dead = "no" /\ readPc = "deal"
    /\ ~(Len(m_recvBuffer) >= 2 /\ m_recvBuffer[1][2] = 1)
    /\ readPc' = "idle"
    /\ UNCHANGED <<outVars, inVars, linkVars, mainPc, inHandler, writePc, dead, sent, handled>>

-----------------------------------------------------------------------------
(* The write thread.                                                       *)

(* Mutant of SendBegin: the cache being filled is left for the next round.  *)
SendBeginQueued ==
    /\ dead = "no" /\ writePc = "idle" /\ Mgr = "free" /\ Client = "free"
    /\ m_sendCacheQueue # <<>>
    /\ writePc' = "send"
    /\ UNCHANGED <<outVars, inVars, linkVars, mainPc, inHandler, readPc, dead, sent, handled>>

(* processDealSend, dealSend: everything is queued, then sent.              *)
SendBegin ==
    /\ dead = "no" /\ writePc = "idle" /\ Mgr = "free" /\ Client = "free"
    /\ m_sendCacheQueue # <<>> \/ m_pSendCache # NULL
    /\ writePc' = "send"
    /\ m_sendCacheQueue' = IF m_pSendCache = NULL THEN m_sendCacheQueue
                           ELSE Append(m_sendCacheQueue, m_pSendCache)
    /\ m_pSendCache' = NULL
    /\ UNCHANGED <<appended, inVars, linkVars, mainPc, inHandler, readPc, dead, sent, handled>>

(* With nothing queued and no cache, the test for that reads m_offset       *)
(* through a NULL pointer: a fault, or a number that is not 0, and on it    *)
(* goes with nothing to send (a stuttering step).                           *)
SendNull ==
    /\ dead = "no" /\ writePc = "idle" /\ Mgr = "free" /\ Client = "free"
    /\ m_sendCacheQueue = <<>> /\ m_pSendCache = NULL
    /\ dead' = "fault"
    /\ UNCHANGED <<outVars, inVars, linkVars, pcs, sent, handled>>

(* The queue when the first n calls of its first cache are written.         *)
Written(n) ==
    LET c == Head(m_sendCacheQueue)
        rest == SubSeq(c.calls, n + 1, Len(c.calls))
    IN  IF rest = <<>> THEN Tail(m_sendCacheQueue)
        ELSE <<[c EXCEPT !.calls = rest]>> \o Tail(m_sendCacheQueue)

(* dosend: a write takes a part. After the gate has closed, the first one   *)
(* still succeeds, and is answered with a reset.                            *)
Write ==
    /\ dead = "no" /\ writePc = "send" /\ m_sendCacheQueue # <<>>
    /\ \E n \in 1..Len(Head(m_sendCacheQueue).calls) :
           /\ m_sendCacheQueue' = Written(n)
           /\ \/ /\ link = "up"
                 /\ streams' = [streams EXCEPT ![Len(streams)] =
                                    @ \o SubSeq(Head(m_sendCacheQueue).calls, 1, n)]
                 /\ UNCHANGED <<link, lost>>
              \/ /\ link = "fin" /\ link' = "rst"
                 /\ lost' = lost \cup Range(SubSeq(Head(m_sendCacheQueue).calls, 1, n))
                 /\ UNCHANGED streams
    /\ UNCHANGED <<m_pSendCache, appended, inVars, net, keyed, since, torn, pcs, dead, sent, handled>>

(* An error: DelConn waits for the manager's mutex, which this thread has.  *)
WriteFails ==
    /\ dead = "no" /\ writePc = "send" /\ m_sendCacheQueue # <<>>
    /\ link = "rst"
    /\ m_sendCacheQueue' = Tail(m_sendCacheQueue)
    /\ lost' = lost \cup Range(Head(m_sendCacheQueue).calls)
    /\ writePc' = "del"
    /\ UNCHANGED <<m_pSendCache, appended, inVars, link, net, keyed, streams, since, torn, mainPc, inHandler, readPc,
                   dead, sent, handled>>

SendEnd ==
    /\ dead = "no" /\ writePc = "send" /\ m_sendCacheQueue = <<>>
    /\ writePc' = "idle"
    /\ UNCHANGED <<outVars, inVars, linkVars, mainPc, inHandler, readPc, dead, sent, handled>>

-----------------------------------------------------------------------------
(* The gate (external).                                                    *)

GateSends ==
    /\ dead = "no" /\ link = "up" /\ sent < MaxIn
    /\ sent' = sent + 1
    /\ net' = net \o <<<<sent + 1, 1>>, <<sent + 1, 2>>>>
    /\ UNCHANGED <<outVars, inVars, link, keyed, streams, lost, since, torn, pcs, dead, handled>>

(* The end of the stream may be lost with the gate. *)
GateStops ==
    /\ dead = "no" /\ link = "up" /\ Len(streams) < MaxConn
    /\ link' \in {"fin", "rst"}
    /\ \E n \in 0..Len(net) : net' = SubSeq(net, 1, n)
    /\ UNCHANGED <<outVars, inVars, keyed, streams, lost, since, torn, pcs, dead, sent, handled>>

-----------------------------------------------------------------------------
(* createTcpclient: connected, with the first TakeProxy in a cache.         *)
Init ==
    /\ link = "up" /\ net = <<>> /\ keyed = TRUE
    /\ m_sendCacheQueue = <<>> /\ appended = 1
    /\ \E need \in CallSizes :
           /\ Encoded(need) =< CacheSize
           /\ m_pSendCache = [used |-> Encoded(need), calls |-> <<1>>]
    /\ m_recvBuffer = <<>> /\ m_queRpcObj = <<>>
    /\ mainPc = "idle" /\ inHandler = FALSE /\ readPc = "idle" /\ writePc = "idle"
    /\ dead = "no" /\ streams = <<<<>>>> /\ lost = {} /\ sent = 0 /\ since = 0 /\ torn = FALSE
    /\ handled = <<>>

processAllRpcobj == HandleBegin \/ Handle \/ HandleEnd \/ FindClient \/ MainAppend
readThread  == \/ ReadBegin \/ ReadData \/ ReadNothing \/ ReadFails
               \/ Reopen \/ Connected \/ TakeProxy
               \/ DealCall \/ DealAsserts \/ DealEnd
writeThread == SendBegin \/ SendNull \/ Write \/ WriteFails \/ SendEnd

Next == processAllRpcobj \/ CallGate \/ readThread \/ writeThread \/ GateSends \/ GateStops

Spec == Init /\ [][Next]_vars

(* The threads go on, and the gate is started again when it has stopped.    *)
(* The gate reads: dosend repeats a write that meets EAGAIN for ever, with  *)
(* two mutexes held (WF of Write). Main holds mutexRecv for a part of each  *)
(* round only (SF of DealCall, where a call begins: a length that is none   *)
(* may stop the reader each time). Main need not call the gate, and a NULL  *)
(* cache need not fault.                                                    *)
FairSpec ==
    /\ Spec
    /\ WF_vars(SendBegin \/ Write \/ WriteFails \/ SendEnd) /\ WF_vars(readThread) /\ WF_vars(processAllRpcobj)
    /\ SF_vars(DealCall /\ m_recvBuffer[1][2] = 1)

-----------------------------------------------------------------------------
Waiting == m_sendCacheQueue # <<>> \/ m_pSendCache # NULL

Contiguous(s) == \A i \in 1..(Len(s) - 1) : s[i + 1] = s[i] + 1

(* The caches q hold the calls after n, each from where the one before ends. *)
End(q, i, n) == IF i = 0 THEN n ELSE Last(q[i].calls)
Rows(q, n)   == \A i \in DOMAIN q : \A k \in DOMAIN q[i].calls : q[i].calls[k] = End(q, i - 1, n) + k

(* The number of calls that have left the caches, written or lost. *)
Out == IF m_sendCacheQueue = <<>> THEN appended - Len(m_pSendCache.calls)
       ELSE Head(m_sendCacheQueue).calls[1] - 1

(* Calls reach the gate in the order they were made, each once, and none is *)
(* missing between two of one connection; each is written, waiting or was   *)
(* lost with a connection, never dropped between the caches (AppendSend     *)
(* rolling over to a new cache, dealSend, and the reader connecting again). *)
SentInOrder ==
    /\ Rows(Append(m_sendCacheQueue, m_pSendCache), Out)
    /\ End(m_sendCacheQueue, Len(m_sendCacheQueue), Out) + Len(m_pSendCache.calls) = appended
    /\ lost \cup UNION {Range(streams[c]) : c \in DOMAIN streams} = 1..Out
    /\ \A c \in DOMAIN streams : Contiguous(streams[c])
    /\ \A c, d \in DOMAIN streams : c < d =>
           \A i \in DOMAIN streams[c], j \in DOMAIN streams[d] : streams[c][i] < streams[d][j]

(* Calls from the gate are run in the order they were sent, each once and   *)
(* none left out of a connection that is up, wherever reads cut the stream: *)
(* what is not queued yet begins, in m_recvBuffer, with the next call.      *)
(* So it is as long as no connection ended within a call: then its          *)
(* beginning stays in m_recvBuffer, and the next connection is read out of  *)
(* step.                                                                    *)
Cell(m, k) == <<m + ((k - 1) \div 2), 1 + ((k - 1) % 2)>>     \* the k-th, from call m on

NextIs(m) ==
    LET whole == handled \o m_queRpcObj
        cells == m_recvBuffer \o net
    IN  /\ \A i, j \in DOMAIN whole : i < j => whole[i] < whole[j]
        /\ \A n \in 1..MaxIn : n > since => (n < m <=> n \in Range(whole))
        /\ \A k \in DOMAIN cells : cells[k] = Cell(m, k)
        /\ Len(cells) =< 2 * (sent + 1 - m)
        /\ link = "up" => Len(cells) = 2 * (sent + 1 - m)

ReceivedInOrder == torn \/ \E m \in (since + 1)..(sent + 1) : NextIs(m)

(* m_recvBuffer stays in step with the stream until a connection ends       *)
(* within a call: it begins with a length (decodeBuffer asserts on what     *)
(* follows, recvBuff.cpp:263), and when the reader goes back to OnRead      *)
(* every whole call was dealt with, so that the rest of the one begun has   *)
(* room and "buffer full", which nothing gets out of, never comes.          *)
BufferInStep ==
    torn \/ /\ m_recvBuffer # <<>> => m_recvBuffer[1][2] = 1
            /\ readPc # "deal" => Len(m_recvBuffer) < 2

(* What tcpclient.cpp:404 asserts of the caches that are sent: none holds   *)
(* more than its memory (AppendSend compares with the room that is left).   *)
CachesFit ==
    /\ m_pSendCache.used =< CacheSize
    /\ \A i \in DOMAIN m_sendCacheQueue : m_sendCacheQueue[i].used =< CacheSize

(* No thread waits for itself or for one that waits for it, but the writer  *)
(* after a write failed (the three mutexes, in the orders in which main,    *)
(* reader and writer take them).                                            *)
Wants(t) ==
    CASE t = "main"   -> IF mainPc = "call" THEN Mgr
                         ELSE IF mainPc = "append" THEN Client ELSE "free"
      [] t = "reader" -> IF readPc \in {"idle", "del"} THEN Mgr
                         ELSE IF readPc = "proxy" THEN Client
                         ELSE IF readPc = "deal" THEN Recv ELSE "free"
      [] t = "writer" -> IF writePc = "idle" THEN Mgr
                         ELSE IF writePc = "del" THEN Mgr ELSE "free"
      [] OTHER -> "free"

OnlyWriterBlocksItself ==
    \A t \in {"main", "reader", "writer"} :
        \/ Wants(t) = "free" \/ Wants(Wants(t)) = "free" \/ Wants(Wants(Wants(t))) = "free"
        \/ writePc = "del"

(* When the gate has gone it is connected to again - unless the process     *)
(* stopped, a write failed first, or the socket of the last connection is   *)
(* not the one under which the client is filed; or a connection before had  *)
(* ended within a call: then the reader, out of step, may stand at a full   *)
(* buffer for ever (OnRead returns 1 without a read, line 278).             *)
Stopped == dead # "no" \/ writePc = "del"

Reconnects == (link \in {"fin", "rst"} /\ keyed /\ ~torn) ~> (link = "up" \/ Stopped)

(* What is appended leaves the caches, and what has come is run.            *)
GoesOn ==
    /\ Waiting ~> (~Waiting \/ Stopped)
    /\ (m_queRpcObj # <<>>) ~> (m_queRpcObj = <<>> \/ Stopped)
=============================================================================

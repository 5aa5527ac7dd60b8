--------------------------- MODULE ConnSendProofs ----------------------------
(***************************************************************************)
(* Proofs about ConnSend, for any sizes of buffers, sockets and messages.  *)
(* TypeOK and RestIsOwed together are inductive: where the rest lies, how  *)
(* long it is and what it holds cannot be told apart.                      *)
(***************************************************************************)
EXTENDS ConnSend, TLAPS

LEMMA RestIs ==
    ASSUME RestSound
    PROVE  /\ Rest \in Seq(Nat) /\ Len(Rest) = owed
           /\ \A k \in 1..owed : Rest[k] = k
<1>1. m_psendBuf \in Seq(Nat) /\ m_sendBufOffset \in Nat /\ m_sendBufLen \in Nat
      /\ m_sendBufOffset =< m_sendBufLen /\ m_sendBufLen =< Len(m_psendBuf)
  BY DEF RestSound, TypeOK, m_sendBufCap
<1>2. /\ m_sendBufLen - m_sendBufOffset = owed
      /\ \A k \in 1..owed : m_psendBuf[m_sendBufOffset + k] = k
  BY DEF RestSound, RestIsOwed
<1>3. Rest \in Seq(Nat) /\ Len(Rest) = m_sendBufLen - m_sendBufOffset
  BY <1>1 DEF Rest
<1>4. \A k \in 1..owed : Rest[k] = m_psendBuf[m_sendBufOffset + k]
  BY <1>1, <1>2 DEF Rest
<1> QED
  BY <1>2, <1>3, <1>4

(* connObj::send keeps the rest and puts the new bytes behind it, in place  *)
(* or in a new buffer.                                                      *)
LEMMA PutsKeeps ==
    ASSUME RestSound, NEW size \in Nat \ {0}, Puts(size)
    PROVE  /\ owed' \in Nat /\ m_psendBuf' \in Seq(Nat)
           /\ m_sendBufLen' \in 0..m_sendBufCap' /\ m_sendBufOffset' \in 0..m_sendBufLen'
           /\ RestIsOwed'
<1>1. m_psendBuf \in Seq(Nat) /\ m_sendBufOffset \in Nat /\ m_sendBufLen \in Nat
      /\ m_sendBufOffset =< m_sendBufLen /\ m_sendBufLen =< Len(m_psendBuf)
      /\ owed \in Nat /\ owed' = owed + size
  BY DEF RestSound, TypeOK, m_sendBufCap, Puts
<1>2. /\ m_sendBufLen - m_sendBufOffset = owed
      /\ \A k \in 1..owed : m_psendBuf[m_sendBufOffset + k] = k
  BY DEF RestSound, RestIsOwed
<1>3. CASE Fits(size)
  <2> DEFINE L == m_sendBufLen
             C == Len(m_psendBuf)
             new == [i \in 1..C |-> IF i \in (L + 1)..(L + size)
                                    THEN owed + i - L ELSE m_psendBuf[i]]
  <2>1. m_psendBuf' = new /\ m_sendBufLen' = L + size /\ m_sendBufOffset' = m_sendBufOffset
    BY <1>3 DEF Puts, m_sendBufCap
  <2>2. C \in Nat /\ L + size =< C
    BY <1>1, <1>3 DEF Fits, m_sendBufCap
  <2>3. \A i \in 1..C : new[i] \in Nat
    BY <1>1, <2>2
  <2>4. new \in Seq(Nat) /\ Len(new) = C
    BY <2>2, <2>3
  <2>5. ASSUME NEW k \in 1..(owed + size)
        PROVE  new[m_sendBufOffset + k] = k
    <3>1. m_sendBufOffset + k \in 1..C /\ L = m_sendBufOffset + owed
      BY <1>1, <1>2, <2>2
    <3>2. CASE k =< owed
      <4>1. m_sendBufOffset + k \notin (L + 1)..(L + size) /\ k \in 1..owed
        BY <1>1, <3>1, <3>2
      <4> QED
        BY <3>1, <4>1, <1>2
    <3>3. CASE k > owed
      <4>1. m_sendBufOffset + k \in (L + 1)..(L + size)
        BY <1>1, <3>1, <3>3
      <4> QED
        BY <3>1, <4>1, <1>1
    <3> QED
      BY <3>2, <3>3, <1>1
  <2>6. (L + size) - m_sendBufOffset = owed + size
    BY <1>1, <1>2
  <2> HIDE DEF new
  <2> QED
    BY <1>1, <2>1, <2>2, <2>4, <2>5, <2>6 DEF RestIsOwed, m_sendBufCap
<1>4. CASE ~Fits(size)
  <2> DEFINE new == [i \in 1..size |-> owed + i]
  <2>1. /\ m_psendBuf' = Rest \o new /\ m_sendBufOffset' = 0
        /\ m_sendBufLen' = owed + size
    BY <1>1, <1>2, <1>4 DEF Puts
  <2>2. new \in Seq(Nat) /\ Len(new) = size
    BY <1>1
  <2>3. /\ Rest \in Seq(Nat) /\ Len(Rest) = owed
        /\ \A k \in 1..owed : Rest[k] = k
    BY RestIs
  <2>4. \A k \in 1..size : new[k] = owed + k
    OBVIOUS
  <2> HIDE DEF new
  <2>5. Rest \o new \in Seq(Nat) /\ Len(Rest \o new) = owed + size
    <3>1. \A r, s \in Seq(Nat) : r \o s \in Seq(Nat) /\ Len(r \o s) = Len(r) + Len(s)
      OBVIOUS
    <3>2. Rest \o new \in Seq(Nat) /\ Len(Rest \o new) = Len(Rest) + Len(new)
      BY <2>2, <2>3, <3>1
    <3> QED
      BY <2>2, <2>3, <3>2
  <2>6. \A k \in 1..(owed + size) : (Rest \o new)[k] = k
    BY <1>1, <2>2, <2>3, <2>4
  <2> QED
    BY <1>1, <2>1, <2>5, <2>6 DEF RestIsOwed, m_sendBufCap
<1> QED
  BY <1>3, <1>4

(* A write takes the first bytes of the rest. *)
LEMMA WriteKeeps ==
    ASSUME RestSound, NEW n \in 1..SEND_SIZE, WriteSome(n)
    PROVE  /\ owed' \in Nat /\ m_psendBuf' \in Seq(Nat)
           /\ m_sendBufLen' \in 0..m_sendBufCap' /\ m_sendBufOffset' \in 0..m_sendBufLen'
           /\ room' \in 0..SockRoom
           /\ RestIsOwed'
<1>1. m_psendBuf \in Seq(Nat) /\ m_sendBufOffset \in Nat /\ m_sendBufLen \in Nat
      /\ m_sendBufOffset =< m_sendBufLen /\ m_sendBufLen =< Len(m_psendBuf)
      /\ owed \in Nat /\ room \in 0..SockRoom /\ SockRoom \in Nat /\ SEND_SIZE \in Nat
  BY ConnSendAssumption DEF RestSound, TypeOK, m_sendBufCap
<1>2. /\ m_sendBufLen - m_sendBufOffset = owed
      /\ \A k \in 1..owed : m_psendBuf[m_sendBufOffset + k] = k
  BY DEF RestSound, RestIsOwed
<1>3. n =< room /\ n =< owed /\ n \in Nat \ {0}
  BY <1>1, <1>2 DEF WriteSome, Least
<1> DEFINE C == Len(m_psendBuf)
           new == [i \in 1..C |-> Less(m_psendBuf[i], n)]
<1>4. m_psendBuf' = new /\ owed' = owed - n /\ room' = room - n
  BY DEF WriteSome, m_sendBufCap
<1>5. new \in Seq(Nat) /\ Len(new) = C
  <2>1. \A i \in 1..C : Less(m_psendBuf[i], n) \in Nat
    BY <1>1, <1>3 DEF Less
  <2>2. C \in Nat
    BY <1>1
  <2> QED
    BY <2>1, <2>2
<1>6. \A i \in 1..C : new[i] = Less(m_psendBuf[i], n)
  OBVIOUS
<1> HIDE DEF new
<1>7. CASE m_sendBufOffset + n >= m_sendBufLen
  <2>1. m_sendBufOffset' = 0 /\ m_sendBufLen' = 0
    BY <1>7 DEF WriteSome
  <2>2. owed - n = 0
    BY <1>1, <1>2, <1>3, <1>7
  <2> QED
    BY <1>1, <1>3, <1>4, <1>5, <2>1, <2>2 DEF RestIsOwed, m_sendBufCap
<1>8. CASE ~(m_sendBufOffset + n >= m_sendBufLen)
  <2>1. m_sendBufOffset' = m_sendBufOffset + n /\ m_sendBufLen' = m_sendBufLen
    BY <1>8 DEF WriteSome
  <2>2. ASSUME NEW k \in 1..(owed - n)
        PROVE  new[m_sendBufOffset + n + k] = k
    <3>1. n + k \in 1..owed /\ m_sendBufOffset + (n + k) \in 1..C
      BY <1>1, <1>2, <1>3
    <3>2. m_psendBuf[m_sendBufOffset + (n + k)] = n + k
      BY <3>1, <1>2
    <3>3. m_sendBufOffset + n + k = m_sendBufOffset + (n + k)
      BY <1>1, <1>3
    <3>4. Less(n + k, n) = k
      BY <1>3, <1>1 DEF Less
    <3> QED
      BY <3>1, <3>2, <3>3, <3>4, <1>6
  <2> QED
    BY <1>1, <1>2, <1>3, <1>4, <1>5, <1>8, <2>1, <2>2 DEF RestIsOwed, m_sendBufCap
<1> QED
  BY <1>7, <1>8

(* What the gate pushed and the client has not got is in m_psendBuf, once   *)
(* and in order, and within its memory, after every send and every partial  *)
(* write (connObj::send).                                                   *)
THEOREM SendRestSound == Spec => []RestSound
<1>1. Init => RestSound
  <2> SUFFICES ASSUME Init PROVE RestSound
    OBVIOUS
  <2>1. m_psendBuf \in Seq(Nat) /\ Len(m_psendBuf) = BUFFER_SIZE /\ BUFFER_SIZE \in Nat
    BY ConnSendAssumption DEF Init
  <2>2. RestIsOwed
    BY DEF Init, RestIsOwed
  <2>3. m_sendBufLen \in 0..m_sendBufCap /\ m_sendBufOffset \in 0..m_sendBufLen
    BY <2>1 DEF Init, m_sendBufCap
  <2>4. room \in 0..SockRoom /\ owed \in Nat
    BY ConnSendAssumption DEF Init
  <2> QED
    BY <2>1, <2>2, <2>3, <2>4 DEF Init, RestSound, TypeOK
<1>2. RestSound /\ [Next]_vars => RestSound'
  <2> SUFFICES ASSUME RestSound, [Next]_vars PROVE RestSound'
    OBVIOUS
  <2> USE ConnSendAssumption
  <2>1. ASSUME NEW size \in Sizes, SendMsg(size) PROVE RestSound'
    <3>1. Puts(size) /\ size \in Nat \ {0}
      BY <2>1 DEF SendMsg
    <3> QED
      BY <2>1, <3>1, PutsKeeps DEF SendMsg, RestSound, TypeOK, sockVars
  <2>2. ASSUME NEW n \in 1..SEND_SIZE, WriteSome(n) PROVE RestSound'
    <3>1. pc' \in {"msg", "all", "rpc"} /\ peer' = peer
      BY <2>2 DEF WriteSome, Returns, Sending
    <3>2. m_writeFdMap' \in BOOLEAN /\ closing' \in BOOLEAN
      BY <2>2, Zenon DEF WriteSome, Returns, RestSound, TypeOK
    <3> QED
      BY <2>2, WriteKeeps, <3>1, <3>2 DEF RestSound, TypeOK
  <2>3. ASSUME UNCHANGED bufVars,
               peer' \in {"up", "rst"} /\ room' \in 0..SockRoom,
               m_writeFdMap' \in BOOLEAN /\ closing' \in BOOLEAN,
               pc' \in {"pass", "msg", "all", "rpc", "gone"}
        PROVE  RestSound'
    <3>1. RestIsOwed'
      BY <2>3 DEF bufVars, RestSound, RestIsOwed
    <3>2. TypeOK'
      BY <2>3 DEF bufVars, RestSound, TypeOK, m_sendBufCap
    <3> QED
      BY <3>1, <3>2 DEF RestSound
  <2>4. /\ peer \in {"up", "rst"} /\ room \in 0..SockRoom
        /\ m_writeFdMap \in BOOLEAN /\ closing \in BOOLEAN
        /\ pc \in {"pass", "msg", "all", "rpc", "gone"}
    BY DEF RestSound, TypeOK
  <2>5. CASE PeerReads \/ PeerResets \/ EpQuits
    <3>1. peer' \in {"up", "rst"} /\ room' \in 0..SockRoom /\ UNCHANGED <<bufVars, pc, m_writeFdMap>>
      BY <2>4, <2>5 DEF PeerReads, PeerResets, EpQuits, sockVars
    <3>2. closing' \in BOOLEAN
      BY <2>4, <2>5, Zenon DEF PeerReads, PeerResets, EpQuits
    <3> QED
      BY <2>3, <2>4, <3>1, <3>2
  <2>6. CASE WriteAgain \/ WriteFails
    <3>1. UNCHANGED <<bufVars, sockVars>> /\ pc' = "rpc"
      BY <2>6 DEF WriteAgain, WriteFails, Returns
    <3>2. m_writeFdMap' \in BOOLEAN /\ closing' \in BOOLEAN
      BY <2>4, <2>6, Zenon DEF WriteAgain, WriteFails, Returns
    <3> QED
      BY <2>3, <2>4, <3>1, <3>2 DEF sockVars
  <2>7. CASE QuitConn \/ ProcessAllWrite \/ EndPass
    <3>1. UNCHANGED <<bufVars, sockVars, closing>> /\ pc' \in {"gone", "all", "rpc", "pass"}
      BY <2>7 DEF QuitConn, ProcessAllWrite, EndPass
    <3>2. m_writeFdMap' \in BOOLEAN
      BY <2>4, <2>7, Zenon DEF QuitConn, ProcessAllWrite, EndPass
    <3> QED
      BY <2>3, <2>4, <3>1, <3>2 DEF sockVars
  <2>8. CASE UNCHANGED vars
    BY <2>3, <2>4, <2>8 DEF vars, sockVars
  <2> QED
    BY <2>1, <2>2, <2>5, <2>6, <2>7, <2>8 DEF Next, Main, Writes, Pushes
<1> QED
  BY <1>1, <1>2, PTL DEF Spec

=============================================================================

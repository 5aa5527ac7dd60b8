------------------------------ MODULE ConnSend -------------------------------
(***************************************************************************)
(* What the net process writes to one client (connObj::send in conn.cpp,   *)
(* m_writeFdMap and processAllWrite in connmgr.cpp): the gate's messages   *)
(* are put behind the rest in m_psendBuf and written until the socket is   *)
(* full; a rest is taken up again by the next send.                        *)
(*                                                                         *)
(* A byte is its place in what the client is still owed: 1 is the byte to  *)
(* be written next, 0 one that was written already. So writing n bytes     *)
(* takes n from every place in the buffer, and the run is not bounded by   *)
(* the number of messages.                                                 *)
(***************************************************************************)
EXTENDS Integers, Sequences

CONSTANTS BUFFER_SIZE, \* conn.h:14: the first size of m_psendBuf
          SEND_SIZE,   \* at most so many bytes in one write
          SockRoom,    \* the send buffer of the socket
          Sizes,       \* sizes of the gate's messages
          MaxOwed      \* bound on what a client is owed while his socket is full

ASSUME ConnSendAssumption ==
    /\ BUFFER_SIZE \in Nat /\ SEND_SIZE \in Nat \ {0} /\ SockRoom \in Nat \ {0}
    /\ Sizes \subseteq Nat \ {0} /\ MaxOwed \in Nat

VARIABLES
    peer,            \* the client's end: "up" or "rst"
    room,            \* kernel: free bytes in the socket's send buffer
    owed,            \* history: bytes given to send and not written yet
    m_psendBuf,      \* m_sendBufCap bytes
    m_sendBufOffset, \* the rest begins behind this byte
    m_sendBufLen,    \* and ends with this one
    m_writeFdMap,    \* the connection is registered for processAllWrite
    closing,         \* a QUIT_CONN for it is in m_netQueue
    pc               \* "pass": queueProcessFun begins; "msg" or "all": in send,
                     \* called by SendMsg or processAllWrite; "rpc"; "gone"

sockVars == <<peer, room>>
bufVars  == <<owed, m_psendBuf, m_sendBufOffset, m_sendBufLen>>
vars     == <<sockVars, bufVars, m_writeFdMap, closing, pc>>

m_sendBufCap == Len(m_psendBuf)

TypeOK ==
    /\ peer \in {"up", "rst"} /\ room \in 0..SockRoom /\ owed \in Nat
    /\ m_psendBuf \in Seq(Nat)
    /\ m_sendBufLen \in 0..m_sendBufCap /\ m_sendBufOffset \in 0..m_sendBufLen
    /\ m_writeFdMap \in BOOLEAN /\ closing \in BOOLEAN
    /\ pc \in {"pass", "msg", "all", "rpc", "gone"}

-----------------------------------------------------------------------------
(* The client and the kernel (external).                                    *)

PeerReads ==
    /\ peer = "up" /\ room < SockRoom
    /\ \E n \in (room + 1)..SockRoom : room' = n
    /\ UNCHANGED <<peer, bufVars, m_writeFdMap, closing, pc>>

PeerResets ==
    /\ peer = "up" /\ peer' = "rst"
    /\ UNCHANGED <<room, bufVars, m_writeFdMap, closing, pc>>

(* The ep thread sees the reset. *)
EpQuits ==
    /\ peer = "rst" /\ closing' = TRUE
    /\ UNCHANGED <<sockVars, bufVars, m_writeFdMap, pc>>

-----------------------------------------------------------------------------
(* connObj::send: the bytes are put into the buffer.                        *)

(* Mutant of Rest: copied from the beginning of the buffer.                 *)
RestFromStart == SubSeq(m_psendBuf, 1, m_sendBufLen - m_sendBufOffset)

Rest == SubSeq(m_psendBuf, m_sendBufOffset + 1, m_sendBufLen)

Fits(size) == size =< m_sendBufCap - m_sendBufLen

(* Behind the rest, in a new buffer of just the size of both, or in place.  *)
Puts(size) ==
    /\ IF Fits(size)
       THEN /\ m_psendBuf' = [i \in 1..m_sendBufCap |->
                   IF i \in (m_sendBufLen + 1)..(m_sendBufLen + size)
                   THEN owed + i - m_sendBufLen ELSE m_psendBuf[i]]
            /\ m_sendBufLen' = m_sendBufLen + size
            /\ UNCHANGED m_sendBufOffset
       ELSE /\ m_psendBuf' = Rest \o [i \in 1..size |-> owed + i]
            /\ m_sendBufLen' = m_sendBufLen - m_sendBufOffset + size
            /\ m_sendBufOffset' = 0
    /\ owed' = owed + size

(* So that owed is bounded; who reads may always be sent something.         *)
Bound(size) == owed + size =< MaxOwed \/ (peer = "up" /\ size =< room)

(* Mutant of SendMsg: nothing is sent to a client as long as he has a rest. *)
SendMsgNotBehindRest(size) ==
    /\ pc = "rpc" /\ Bound(size) /\ m_sendBufLen = 0
    /\ Puts(size)
    /\ pc' = "msg"
    /\ UNCHANGED <<sockVars, m_writeFdMap, closing>>

(* The gate pushes a message to the client, or to all (SendMsg, SendMsgAll). *)
SendMsg(size) ==
    /\ pc = "rpc" /\ Bound(size)
    /\ Puts(size)
    /\ pc' = "msg"
    /\ UNCHANGED <<sockVars, m_writeFdMap, closing>>

-----------------------------------------------------------------------------
(* connObj::send: the loop that writes.                                     *)

Sending == pc \in {"msg", "all"}

(* send returns 0 in every case, for which processAllWrite takes the        *)
(* connection out of m_writeFdMap, though send may have just put it in.     *)
Returns(registers) ==
    IF pc = "all" THEN m_writeFdMap' = FALSE /\ pc' = "rpc"
    ELSE m_writeFdMap' = (m_writeFdMap \/ registers) /\ pc' = "rpc"

Least(a, b) == IF a =< b THEN a ELSE b
Less(k, n)  == IF k > n THEN k - n ELSE 0

(* write takes n bytes: as many as asked for, or as many as there is room   *)
(* for.                                                                     *)
WriteSome(n) ==
    /\ Sending /\ peer = "up"
    /\ n \in 1..Least(room, Least(SEND_SIZE, m_sendBufLen - m_sendBufOffset))
    /\ room' = room - n
    /\ owed' = owed - n
    /\ m_psendBuf' = [i \in 1..m_sendBufCap |-> Less(m_psendBuf[i], n)]
    /\ IF m_sendBufOffset + n >= m_sendBufLen
       THEN m_sendBufOffset' = 0 /\ m_sendBufLen' = 0 /\ Returns(FALSE)
       ELSE /\ m_sendBufOffset' = m_sendBufOffset + n
            /\ UNCHANGED <<m_sendBufLen, m_writeFdMap, pc>>
    /\ UNCHANGED <<peer, closing>>

(* EAGAIN: AddWriteConn. *)
WriteAgain ==
    /\ Sending /\ peer = "up" /\ room = 0
    /\ Returns(TRUE)
    /\ UNCHANGED <<sockVars, bufVars, closing>>

WriteFails ==
    /\ Sending /\ peer = "rst"
    /\ closing' = TRUE
    /\ Returns(FALSE)
    /\ UNCHANGED <<sockVars, bufVars>>

-----------------------------------------------------------------------------
(* A pass of queueProcessFun, as far as it is about this connection.        *)

(* The queue is drained: DelConn, which also clears m_writeFdMap.           *)
QuitConn ==
    /\ pc = "pass" /\ closing
    /\ pc' = "gone" /\ m_writeFdMap' = FALSE
    /\ UNCHANGED <<sockVars, bufVars, closing>>

(* processAllWrite: send(NULL, 0) if the connection is registered, which    *)
(* returns at once when there is no rest.                                   *)
ProcessAllWrite ==
    /\ pc = "pass"
    /\ IF m_writeFdMap /\ m_sendBufLen > 0
       THEN pc' = "all" /\ UNCHANGED m_writeFdMap
       ELSE pc' = "rpc" /\ m_writeFdMap' = FALSE
    /\ UNCHANGED <<sockVars, bufVars, closing>>

EndPass ==
    /\ pc = "rpc" /\ pc' = "pass"
    /\ UNCHANGED <<sockVars, bufVars, m_writeFdMap, closing>>

-----------------------------------------------------------------------------
Init ==
    /\ peer = "up" /\ room = SockRoom /\ owed = 0
    /\ m_psendBuf = [i \in 1..BUFFER_SIZE |-> 0]
    /\ m_sendBufOffset = 0 /\ m_sendBufLen = 0
    /\ m_writeFdMap = FALSE /\ closing = FALSE /\ pc = "pass"

Writes == (\E n \in 1..SEND_SIZE : WriteSome(n)) \/ WriteAgain \/ WriteFails

Main == Writes \/ QuitConn \/ ProcessAllWrite \/ EndPass

Pushes == \E size \in Sizes : SendMsg(size)

Next == PeerReads \/ PeerResets \/ EpQuits \/ Main \/ Pushes

Spec == Init /\ [][Next]_vars

(* Both threads go on, and the client reads. PushSpec adds that the gate    *)
(* has always something more to push.                                       *)
FairSpec == Spec /\ WF_vars(Main) /\ WF_vars(EpQuits) /\ WF_vars(PeerReads)
PushSpec == FairSpec /\ SF_vars(Pushes)

-----------------------------------------------------------------------------
(* What the client is owed is in the buffer, all of it, once and in order,  *)
(* whatever writes left over and however often the buffer was made anew     *)
(* (offset, length and memory of connObj::send).                            *)
RestIsOwed ==
    /\ m_sendBufLen - m_sendBufOffset = owed
    /\ \A k \in 1..owed : m_psendBuf[m_sendBufOffset + k] = k

(* With the types: the rest lies within the memory.                         *)
RestSound == TypeOK /\ RestIsOwed

(* A client who reads, and to whom the gate goes on pushing, is not stuck   *)
(* with a rest (EAGAIN, m_writeFdMap and the next send).                    *)
RestMoves ==
    \/ <>[](peer = "rst")
    \/ []<>(owed = 0)
    \/ []<><<\E n \in 1..SEND_SIZE : WriteSome(n)>>_vars
=============================================================================

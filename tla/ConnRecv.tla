------------------------------ MODULE ConnRecv -------------------------------
(***************************************************************************)
(* How the net process cuts a client's stream into messages (conn.cpp):    *)
(* connObj::OnRead reads what there is into m_NetBuffer, behind the rest   *)
(* of the read before; connNetObj::parseBuff hands the whole messages on;  *)
(* resetBuffer moves the rest to the front.                                *)
(*                                                                         *)
(* The unit is an int (4 bytes). A message is its size, its msgid and size *)
(* ints of body. The stream is kept by its places 1, 2, ...: m_NetBuffer   *)
(* holds places, and IntAt gives what the code finds at one. When descriptors *)
(* are read, and the timeout, are in NetServer; here main reads any time.  *)
(***************************************************************************)
EXTENDS Integers, Sequences

CONSTANTS RECV_BUFFER_SIZE, \* conn.h:15, in ints
          LIMIT,            \* 64*1024 in parseBuff, in ints
          Sizes,            \* sizes of the bodies that clients send
          Ids,              \* the msgids that dealMsg takes
          Values,           \* what an int of a body may be
          MaxMsgs           \* bound on the messages of the client

HEAD == 2 \* sizeof(int)*2

ASSUME ConnRecvAssumption ==
    /\ RECV_BUFFER_SIZE \in Nat /\ RECV_BUFFER_SIZE >= HEAD
    /\ LIMIT \in Nat /\ MaxMsgs \in Nat
    /\ Sizes \subseteq Nat /\ Ids \subseteq Nat /\ Values \subseteq Nat

VARIABLES
    peer,           \* the client's end: "up", "fin" or "rst"
    sent,           \* the client's messages, each with the place of its first int
    written,        \* ints the client has written,
    arrived,        \* of these, ints that have come to this host,
    taken,          \* and of these, ints that were read
    m_NetBuffer,    \* the first m_NetOffset ints of it
    m_ReadOffset,
    m_bChkReadZero, \* the last read found nothing
    pc,             \* "pass": between two OnRead; "parse"; "gone"; "abort"
    closing,        \* a QUIT_CONN for this connection is in m_netQueue
    dealt,          \* history: the ints of each message given to dealMsg
    torn            \* history: a part of a message was dropped

streamVars == <<peer, sent, written, arrived>>
bufVars    == <<taken, m_NetBuffer, m_ReadOffset, m_bChkReadZero>>
vars       == <<streamVars, bufVars, pc, closing, dealt, torn>>

Msg == [at : Nat, size : Sizes, msgid : Ids, body : Values]

TypeOK ==
    /\ peer \in {"up", "fin", "rst"}
    /\ sent \in Seq(Msg)
    /\ written \in Nat /\ arrived \in 0..written /\ taken \in 0..arrived
    /\ m_NetBuffer \in Seq(1..taken) /\ Len(m_NetBuffer) =< RECV_BUFFER_SIZE
    /\ m_ReadOffset \in 0..RECV_BUFFER_SIZE
    /\ m_bChkReadZero \in BOOLEAN /\ closing \in BOOLEAN /\ torn \in BOOLEAN
    /\ pc \in {"pass", "parse", "gone", "abort"}
    /\ pc = "parse" => m_ReadOffset =< Len(m_NetBuffer)
    /\ dealt \in Seq(Seq(1..taken))

-----------------------------------------------------------------------------
(* The client and the network (external). TCP keeps the order.              *)

EndOf(m) == m.at + HEAD + m.size - 1

ClientSends(size, id, v) ==
    /\ peer = "up" /\ Len(sent) < MaxMsgs
    /\ sent' = Append(sent, [at |-> written + 1, size |-> size, msgid |-> id, body |-> v])
    /\ written' = written + HEAD + size
    /\ UNCHANGED <<peer, arrived, bufVars, pc, closing, dealt, torn>>

Arrives(n) ==
    /\ peer # "rst" /\ arrived + n =< written
    /\ arrived' = arrived + n
    /\ UNCHANGED <<peer, sent, written, bufVars, pc, closing, dealt, torn>>

PeerEnds(how) ==
    /\ peer = "up" \/ (peer = "fin" /\ how = "rst")
    /\ peer' = how
    /\ UNCHANGED <<sent, written, arrived, bufVars, pc, closing, dealt, torn>>

(* The ep thread sees the reset. *)
EpQuits ==
    /\ peer = "rst" /\ closing' = TRUE
    /\ UNCHANGED <<streamVars, bufVars, pc, dealt, torn>>

-----------------------------------------------------------------------------
(* OnRead: the read.                                                       *)

Room == RECV_BUFFER_SIZE - Len(m_NetBuffer)

Least(a, b) == IF a =< b THEN a ELSE b

(* After the read parseBuff begins; with an empty buffer there is nothing   *)
(* for it to do.                                                            *)
Parses(buf) ==
    /\ m_NetBuffer' = buf
    /\ IF buf = <<>> THEN pc' = "pass" /\ UNCHANGED m_ReadOffset
                     ELSE pc' = "parse" /\ m_ReadOffset' = 0
    /\ UNCHANGED <<streamVars, dealt, torn>>

ReadData ==
    /\ pc = "pass" /\ peer # "rst" /\ Room > 0 /\ taken < arrived
    /\ LET n == Least(Room, arrived - taken)
       IN  /\ Parses(m_NetBuffer \o [i \in 1..n |-> taken + i])
           /\ taken' = taken + n
    /\ m_bChkReadZero' = FALSE
    /\ UNCHANGED closing

(* EAGAIN. *)
ReadAgain ==
    /\ pc = "pass" /\ peer # "rst" /\ Room > 0 /\ taken = arrived
    /\ peer = "up" \/ arrived < written
    /\ Parses(m_NetBuffer)
    /\ m_bChkReadZero' = TRUE
    /\ UNCHANGED <<taken, closing>>

(* 0: the end of file, or no room to read into. It counts as the end only   *)
(* when the read before found nothing.                                      *)
ReadZero ==
    /\ pc = "pass"
    /\ Room = 0 \/ (peer = "fin" /\ taken = written)
    /\ Parses(m_NetBuffer)
    /\ closing' = (closing \/ m_bChkReadZero)
    /\ UNCHANGED <<taken, m_bChkReadZero>>

ReadFails ==
    /\ pc = "pass" /\ peer = "rst" /\ Room > 0
    /\ Parses(m_NetBuffer)
    /\ closing' = TRUE
    /\ UNCHANGED <<taken, m_bChkReadZero>>

-----------------------------------------------------------------------------
(* parseBuff, one message after the other, and resetBuffer at its end.      *)

Message(place) == CHOOSE m \in DOMAIN sent : place \in sent[m].at..EndOf(sent[m])

(* What the int at a place of the stream is. *)
IntAt(place) ==
    LET m == sent[Message(place)]
    IN  IF place = m.at THEN m.size ELSE IF place = m.at + 1 THEN m.msgid ELSE m.body

From(s, n) == SubSeq(s, n + 1, Len(s))
Left  == Len(m_NetBuffer) - m_ReadOffset
Size  == IntAt(m_NetBuffer[m_ReadOffset + 1])
Msgid == IntAt(m_NetBuffer[m_ReadOffset + 2])

(* Mutant of Whole: a body that has come to its last int waits for more.    *)
WholeMore == Left >= HEAD /\ Left - HEAD > Size

Whole == Left >= HEAD /\ Left - HEAD >= Size

(* Mutant of Reset: the buffer stays as it is.                              *)
ResetNot(s) == s

(* resetBuffer, with s the first m_NetOffset ints. *)
Reset(s) == IF Len(s) =< m_ReadOffset THEN <<>> ELSE From(s, m_ReadOffset)

Returns(s) ==
    /\ m_NetBuffer' = Reset(s) /\ pc' = "pass"
    /\ UNCHANGED <<streamVars, taken, m_ReadOffset, m_bChkReadZero, dealt>>

(* Less than a header is left: parseBuff has moved it to the front and has  *)
(* reduced m_NetOffset, but m_ReadOffset stays for resetBuffer to use again. *)
HeaderShort ==
    /\ pc = "parse" /\ Left < HEAD
    /\ Returns(From(m_NetBuffer, m_ReadOffset))
    /\ torn' = (torn \/ m_NetBuffer' # From(m_NetBuffer, m_ReadOffset))
    /\ UNCHANGED closing

BodyShort ==
    /\ pc = "parse" /\ Left >= HEAD /\ ~Whole
    /\ Returns(m_NetBuffer)
    /\ UNCHANGED <<torn, closing>>

TooLarge ==
    /\ pc = "parse" /\ Whole /\ Size >= LIMIT
    /\ closing' = TRUE
    /\ Returns(m_NetBuffer)
    /\ UNCHANGED torn

(* dealMsg: to the gate or to the game, by the msgid.                       *)
DealMsg ==
    /\ pc = "parse" /\ Whole /\ Size < LIMIT /\ Msgid \in Ids
    /\ dealt' = Append(dealt, SubSeq(m_NetBuffer, m_ReadOffset + 1, m_ReadOffset + HEAD + Size))
    /\ m_ReadOffset' = m_ReadOffset + HEAD + Size
    /\ UNCHANGED <<streamVars, taken, m_NetBuffer, m_bChkReadZero, pc, closing, torn>>

(* assert(false): the process ends. *)
InvalidMsgid ==
    /\ pc = "parse" /\ Whole /\ Size < LIMIT /\ Msgid \notin Ids
    /\ pc' = "abort"
    /\ UNCHANGED <<streamVars, bufVars, closing, dealt, torn>>

(* The next pass drains the queue: DelConn. *)
QuitConn ==
    /\ pc = "pass" /\ closing /\ pc' = "gone"
    /\ UNCHANGED <<streamVars, bufVars, closing, dealt, torn>>

-----------------------------------------------------------------------------
Init ==
    /\ peer = "up" /\ sent = <<>> /\ written = 0 /\ arrived = 0
    /\ taken = 0 /\ m_NetBuffer = <<>> /\ m_ReadOffset = 0 /\ m_bChkReadZero = TRUE
    /\ pc = "pass" /\ closing = FALSE /\ dealt = <<>> /\ torn = FALSE

Network ==
    \/ \E s \in Sizes, id \in Ids, v \in Values : ClientSends(s, id, v)
    \/ \E n \in 1..(written - arrived) : Arrives(n)
    \/ \E how \in {"fin", "rst"} : PeerEnds(how)
    \/ EpQuits

OnRead ==
    \/ ReadData \/ ReadAgain \/ ReadZero \/ ReadFails
    \/ HeaderShort \/ BodyShort \/ TooLarge \/ DealMsg \/ InvalidMsgid

Next == Network \/ OnRead \/ QuitConn

Spec == Init /\ [][Next]_vars

(* Both threads go on, and TCP brings what was written. *)
FairSpec ==
    /\ Spec /\ WF_vars(OnRead) /\ WF_vars(QuitConn) /\ WF_vars(EpQuits)
    /\ WF_vars(\E n \in 1..(written - arrived) : Arrives(n))

-----------------------------------------------------------------------------
Places(m) == [i \in 1..(HEAD + m.size) |-> m.at + i - 1]

(* Every message handed on is the client's next one, whole, however reads   *)
(* cut the stream (m_NetBuffer, m_ReadOffset and resetBuffer), as long as   *)
(* no part of a message was dropped (HeaderShort).                          *)
DealtInOrder ==
    torn \/ /\ Len(dealt) =< Len(sent)
            /\ \A i \in DOMAIN dealt : dealt[i] = Places(sent[i])

Refused(m) == m.size >= LIMIT \/ HEAD + m.size > RECV_BUFFER_SIZE

(* Between two reads the buffer holds a part of the next message and        *)
(* nothing else, less than all of it, so that the next read has room for    *)
(* the rest: the two early returns of parseBuff leave no whole message      *)
(* behind, and only one that is refused can fill the buffer (and then every *)
(* read returns 0).  This is the safety half of SmallIsDealt.               *)
RoomForRest ==
    pc = "pass" /\ m_NetBuffer # <<>> /\ ~torn =>
        LET k == Len(dealt) + 1
        IN  k =< Len(sent) /\ (Refused(sent[k]) \/ Len(m_NetBuffer) < HEAD + sent[k].size)

(* What parseBuff does to the stream: the messages handed on, what is left  *)
(* in the buffer, and that the offsets stay within it (the types).          *)
StreamSound == TypeOK /\ DealtInOrder /\ RoomForRest

(* A message that the buffer can hold does not wait in it for ever, nor the *)
(* bytes ahead of it (the two early returns of parseBuff and the next read).*)
SmallIsDealt ==
    \A i \in 1..MaxMsgs :
        Len(sent) >= i ~> \/ Len(dealt) >= i \/ torn \/ peer = "rst"
                          \/ \E j \in DOMAIN sent : j =< i /\ Refused(sent[j])

(* assert(false) of dealMsg (conn.cpp:402): no msgid is found that the      *)
(* client did not send.                                                     *)
MsgidIsValid == pc # "abort"
=============================================================================

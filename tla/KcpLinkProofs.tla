--------------------------- MODULE KcpLinkProofs ----------------------------
(***************************************************************************)
(* The safety of a KCP session for every size of segments, windows and     *)
(* messages, however the network loses, doubles and reorders.              *)
(*                                                                         *)
(* Part 1  what the functions of ikcp.c do to a control block, field by    *)
(*         field                                                           *)
(* Part 2  the invariant, one direction at a time: Link relates the sender *)
(*         c, the receiver d, the pieces s numbered so far, the segments F *)
(*         on their way to d and B on their way to c, the bytes w written  *)
(*         and the bytes g taken                                           *)
(* Part 3  the theorems that follow from it                                *)
(* Part 4  message boundaries, for an end that is not in stream mode       *)
(* Part 5  the windows                                                     *)
(* Part 6  why the two ends are never both silent over what is left        *)
(***************************************************************************)
EXTENDS KcpLink, SequenceTheorems, WellFoundedInduction, TLAPS

-----------------------------------------------------------------------------
(* Part 1: control blocks.                                                 *)

-----------------------------------------------------------------------------
(* Numbers.                                                                *)

Below == {ss \in Nat \X Nat : ss[1] < ss[2]}

(* A nonempty set of numbers has a least one.                               *)
LEMMA LeastIsLeast ==
    ASSUME NEW S \in SUBSET Nat, S # {}
    PROVE  Least(S) \in S /\ \A k \in S : Least(S) =< k
<1>1. IsWellFoundedOn(Below, Nat)
    BY NatLessThanWellFounded DEF OpToRel, Below
<1>2. PICK m \in S : \A k \in S : <<k, m>> \notin Below
    BY <1>1, WFMin, Zenon
<1>3. \A k \in S : m =< k
  <2> SUFFICES ASSUME NEW k \in S, ~(m =< k)
               PROVE  FALSE
    OBVIOUS
  <2>1. k \in Nat /\ m \in Nat /\ k < m
    OBVIOUS
  <2>2. <<k, m>> \in Below
    BY <2>1 DEF Below
  <2> QED
    BY <2>2, <1>2
<1> QED
    BY <1>3 DEF Least

(* A number of pieces of d bytes is just enough for n bytes.                *)
LEMMA CeilDivBounds ==
    ASSUME NEW n \in Nat, NEW d \in Nat \ {0}
    PROVE  /\ CeilDiv(n, d) \in Nat
           /\ n =< CeilDiv(n, d) * d
           /\ CeilDiv(n, d) * d < n + d
<1> DEFINE q == (n + d - 1) \div d
           r == (n + d - 1) % d
<1>1. q \in Int /\ r \in 0..(d - 1) /\ n + d - 1 = d * q + r
    OBVIOUS
<1>2. q >= 0
    BY <1>1
<1> QED
    BY <1>1, <1>2 DEF CeilDiv

(* Two sequences, one after the other. *)
LEMMA ConcatFields ==
    ASSUME NEW S, NEW s \in Seq(S), NEW t \in Seq(S)
    PROVE  /\ s \o t \in Seq(S) /\ Len(s \o t) = Len(s) + Len(t)
           /\ \A i \in 1..Len(s) : (s \o t)[i] = s[i]
           /\ \A i \in 1..Len(t) : (s \o t)[Len(s) + i] = t[i]
<1>1. /\ Len(s) \in Nat /\ Len(t) \in Nat
      /\ s \o t \in Seq(S) /\ Len(s \o t) = Len(s) + Len(t)
    BY ConcatProperties, LenProperties
<1>2. \A i \in 1..(Len(s) + Len(t)) :
          (s \o t)[i] = IF i <= Len(s) THEN s[i] ELSE t[i - Len(s)]
    BY ConcatProperties
<1>3. ASSUME NEW i \in 1..Len(s) PROVE (s \o t)[i] = s[i]
    BY <1>1, <1>2
<1>4. ASSUME NEW i \in 1..Len(t) PROVE (s \o t)[Len(s) + i] = t[i]
  <2>1. Len(s) + i \in 1..(Len(s) + Len(t)) /\ ~(Len(s) + i <= Len(s))
        /\ Len(s) + i - Len(s) = i
      BY <1>1
  <2> QED
      BY <2>1, <1>2
<1> QED
    BY <1>1, <1>3, <1>4

-----------------------------------------------------------------------------
(* Control blocks.                                                         *)

(* The fields of the receiving side, and those of the sending side.         *)
SameReceiver(c, d) ==
    /\ d.rcv_nxt = c.rcv_nxt /\ d.rcv_buf = c.rcv_buf /\ d.rcv_queue = c.rcv_queue

SameSender(c, d) ==
    /\ d.snd_queue = c.snd_queue /\ d.snd_buf = c.snd_buf
    /\ d.snd_una = c.snd_una /\ d.snd_nxt = c.snd_nxt

(* Part of a list is a list.                                                *)
LEMMA RestrictHolds ==
    ASSUME NEW buf, Holds(buf), NEW S, S \subseteq DOMAIN buf
    PROVE  /\ Holds(Restrict(buf, S))
           /\ DOMAIN Restrict(buf, S) = S
           /\ \A sn \in S : Restrict(buf, S)[sn] = buf[sn]
BY DEF Holds, Restrict

LEMMA ReadyRuns ==
    ASSUME NEW c, IsCB(c)
    PROVE  /\ Ready(c) \in Nat
           /\ \A k \in 0..(Ready(c) - 1) : c.rcv_nxt + k \in DOMAIN c.rcv_buf
<1> DEFINE S == {n \in 0..RcvWnd : \/ c.rcv_nxt + n \notin DOMAIN c.rcv_buf
                                   \/ Len(c.rcv_queue) + n >= RcvWnd}
<1>1. RcvWnd \in Nat /\ Len(c.rcv_queue) \in Nat
    BY IkcpAssumption DEF IsCB
<1>2. S \in SUBSET Nat /\ RcvWnd \in S
    BY <1>1
<1>3. Ready(c) \in S /\ \A k \in S : Ready(c) =< k
    BY <1>2, LeastIsLeast DEF Ready
<1> HIDE DEF S
<1>4. ASSUME NEW k \in 0..(Ready(c) - 1)
      PROVE  c.rcv_nxt + k \in DOMAIN c.rcv_buf
  <2>1. Ready(c) \in Nat
      BY <1>2, <1>3
  <2>2. k \notin S
      BY <2>1, <1>3
  <2>3. k \in 0..RcvWnd
      BY <2>1, <1>1, <1>3 DEF S
  <2> QED
      BY <2>2, <2>3 DEF S
<1> QED
    BY <1>2, <1>3, <1>4

(* Arrange moves the pieces that are ready, in order, and nothing else.     *)
LEMMA ArrangeFields ==
    ASSUME NEW c, IsCB(c)
    PROVE  LET d == Arrange(c)
               n == Ready(c)
           IN  /\ IsCB(d)
               /\ SameSender(c, d) /\ d.acklist = c.acklist /\ d.tell = c.tell
               /\ d.rcv_nxt = c.rcv_nxt + n
               /\ DOMAIN d.rcv_buf = DOMAIN c.rcv_buf \ (c.rcv_nxt..(c.rcv_nxt + n - 1))
               /\ \A sn \in DOMAIN d.rcv_buf : d.rcv_buf[sn] = c.rcv_buf[sn]
               /\ Len(d.rcv_queue) = Len(c.rcv_queue) + n
               /\ \A i \in 1..Len(c.rcv_queue) : d.rcv_queue[i] = c.rcv_queue[i]
               /\ \A i \in 1..n : d.rcv_queue[Len(c.rcv_queue) + i]
                                      = c.rcv_buf[c.rcv_nxt + i - 1]
<1> DEFINE n == Ready(c)
           moved == [i \in 1..n |-> c.rcv_buf[c.rcv_nxt + i - 1]]
           left  == Restrict(c.rcv_buf, DOMAIN c.rcv_buf \ (c.rcv_nxt..(c.rcv_nxt + n - 1)))
           queue == c.rcv_queue \o moved
<1>1. n \in Nat /\ \A k \in 0..(n - 1) : c.rcv_nxt + k \in DOMAIN c.rcv_buf
    BY ReadyRuns
<1>2. c.rcv_nxt \in Nat /\ c.rcv_queue \in Seq(Piece) /\ Holds(c.rcv_buf)
    BY DEF IsCB
<1>3. moved \in Seq(Piece) /\ Len(moved) = n
  <2>1. \A i \in 1..n : moved[i] \in Piece
    <3> SUFFICES ASSUME NEW i \in 1..n
                 PROVE  c.rcv_buf[c.rcv_nxt + i - 1] \in Piece
        OBVIOUS
    <3>1. i - 1 \in 0..(n - 1) /\ c.rcv_nxt + (i - 1) = c.rcv_nxt + i - 1
        BY <1>1, <1>2
    <3> QED
        BY <3>1, <1>1, <1>2 DEF Holds
  <2> HIDE DEF n
  <2> QED
      BY <2>1, <1>1
<1>4. /\ Holds(left) /\ DOMAIN left = DOMAIN c.rcv_buf \ (c.rcv_nxt..(c.rcv_nxt + n - 1))
      /\ \A sn \in DOMAIN left : left[sn] = c.rcv_buf[sn]
    BY <1>2, RestrictHolds
<1>5. /\ queue \in Seq(Piece) /\ Len(queue) = Len(c.rcv_queue) + n
      /\ \A i \in 1..Len(c.rcv_queue) : queue[i] = c.rcv_queue[i]
      /\ \A i \in 1..n : queue[Len(c.rcv_queue) + i] = moved[i]
  <2> HIDE DEF n, moved
  <2>1. moved \in Seq(Piece) /\ c.rcv_queue \in Seq(Piece)
      BY <1>2, <1>3
  <2>2. queue \in Seq(Piece) /\ Len(queue) = Len(c.rcv_queue) + Len(moved)
      BY <2>1, ConcatFields
  <2>3. \A i \in 1..Len(c.rcv_queue) : queue[i] = c.rcv_queue[i]
      BY <2>1, ConcatFields
  <2>4. \A i \in 1..Len(moved) : queue[Len(c.rcv_queue) + i] = moved[i]
      BY <2>1, ConcatFields
  <2> QED
      BY <2>2, <2>3, <2>4, <1>3
<1>6. Arrange(c) = [snd_queue |-> c.snd_queue, snd_buf |-> c.snd_buf, snd_una |-> c.snd_una,
                    snd_nxt |-> c.snd_nxt, rmt_wnd |-> c.rmt_wnd, rcv_nxt |-> c.rcv_nxt + n,
                    rcv_buf |-> left, rcv_queue |-> queue, acklist |-> c.acklist,
                    tell |-> c.tell]
  <2> HIDE DEF n, moved, left, queue
  <2>1. Arrange(c) = [c EXCEPT !.rcv_queue = queue, !.rcv_buf = left, !.rcv_nxt = c.rcv_nxt + n]
      BY DEF Arrange, n, moved, left, queue, IsCB
  <2>2. c = [snd_queue |-> c.snd_queue, snd_buf |-> c.snd_buf, snd_una |-> c.snd_una,
            snd_nxt |-> c.snd_nxt, rmt_wnd |-> c.rmt_wnd, rcv_nxt |-> c.rcv_nxt,
            rcv_buf |-> c.rcv_buf, rcv_queue |-> c.rcv_queue, acklist |-> c.acklist,
            tell |-> c.tell]
      BY DEF IsCB
  <2> QED
      BY <2>1, <2>2
<1> HIDE DEF n, left, queue
<1>7. IsCB(Arrange(c))
    BY <1>1, <1>2, <1>4, <1>5, <1>6 DEF IsCB
<1> QED
    BY <1>1, <1>4, <1>5, <1>6, <1>7 DEF SameSender, n

-----------------------------------------------------------------------------
(* What an input does to the list of outstanding pieces.                   *)

LEMMA ShrinkFields ==
    ASSUME NEW c, IsCB(c)
    PROVE  LET d == ikcp_shrink_buf(c)
           IN  /\ IsCB(d) /\ SameReceiver(c, d) /\ d.acklist = c.acklist
               /\ d.snd_queue = c.snd_queue /\ d.snd_nxt = c.snd_nxt
               /\ d.snd_buf = c.snd_buf
<1> DEFINE una == IF DOMAIN c.snd_buf = {} THEN c.snd_nxt ELSE Least(DOMAIN c.snd_buf)
<1>1. una \in Nat
  <2>1. DOMAIN c.snd_buf \subseteq Nat /\ c.snd_nxt \in Nat
      BY DEF IsCB, Holds
  <2> QED
      BY <2>1, LeastIsLeast
<1> HIDE DEF una
<1>2. ikcp_shrink_buf(c) = [c EXCEPT !.snd_una = una]
    BY DEF ikcp_shrink_buf, una
<1> QED
    BY <1>1, <1>2 DEF IsCB, SameReceiver

LEMMA ParseUnaFields ==
    ASSUME NEW c, IsCB(c), NEW una \in Nat
    PROVE  LET d == ikcp_parse_una(c, una)
           IN  /\ IsCB(d) /\ SameReceiver(c, d) /\ d.acklist = c.acklist
               /\ d.snd_queue = c.snd_queue /\ d.snd_nxt = c.snd_nxt
               /\ DOMAIN d.snd_buf = {sn \in DOMAIN c.snd_buf : sn >= una}
               /\ \A sn \in DOMAIN d.snd_buf : d.snd_buf[sn] = c.snd_buf[sn]
<1> DEFINE S == {sn \in DOMAIN c.snd_buf : sn >= una}
           buf == Restrict(c.snd_buf, S)
<1>1. /\ Holds(buf) /\ DOMAIN buf = S
      /\ \A sn \in S : buf[sn] = c.snd_buf[sn]
  <2>1. Holds(c.snd_buf) /\ S \subseteq DOMAIN c.snd_buf
      BY DEF IsCB
  <2> HIDE DEF S
  <2> QED
      BY <2>1, RestrictHolds
<1>2. ikcp_parse_una(c, una) = [c EXCEPT !.snd_buf = buf]
    BY DEF ikcp_parse_una, IsCB
<1> HIDE DEF buf
<1> QED
    BY <1>1, <1>2 DEF IsCB, SameReceiver

LEMMA ParseAckFields ==
    ASSUME NEW c, IsCB(c), NEW sn \in Nat
    PROVE  LET d == ikcp_parse_ack(c, sn)
           IN  /\ IsCB(d) /\ SameReceiver(c, d) /\ d.acklist = c.acklist
               /\ d.snd_queue = c.snd_queue /\ d.snd_nxt = c.snd_nxt
               /\ DOMAIN d.snd_buf \subseteq DOMAIN c.snd_buf
               /\ DOMAIN c.snd_buf \subseteq DOMAIN d.snd_buf \cup {sn}
               /\ \A k \in DOMAIN d.snd_buf : d.snd_buf[k] = c.snd_buf[k]
<1> DEFINE S == DOMAIN c.snd_buf \ {sn}
           buf == Restrict(c.snd_buf, S)
<1>1. CASE sn < c.snd_una \/ sn >= c.snd_nxt
    BY <1>1 DEF ikcp_parse_ack, SameReceiver
<1>2. CASE ~(sn < c.snd_una \/ sn >= c.snd_nxt)
  <2>1. /\ Holds(buf) /\ DOMAIN buf = S
        /\ \A k \in S : buf[k] = c.snd_buf[k]
    <3>1. Holds(c.snd_buf) /\ S \subseteq DOMAIN c.snd_buf
        BY DEF IsCB
    <3> HIDE DEF S
    <3> QED
        BY <3>1, RestrictHolds
  <2>2. ikcp_parse_ack(c, sn) = [c EXCEPT !.snd_buf = buf]
      BY <1>2 DEF ikcp_parse_ack, IsCB
  <2> HIDE DEF buf
  <2> QED
      BY <2>1, <2>2 DEF IsCB, SameReceiver
<1> QED
    BY <1>1, <1>2

(* Una and window of any segment.                                          *)
LEMMA HeardFields ==
    ASSUME NEW c, IsCB(c), NEW wnd \in Nat, NEW una \in Nat
    PROVE  LET d == ikcp_shrink_buf(ikcp_parse_una([c EXCEPT !.rmt_wnd = wnd], una))
           IN  /\ IsCB(d) /\ SameReceiver(c, d) /\ d.acklist = c.acklist
               /\ d.snd_queue = c.snd_queue /\ d.snd_nxt = c.snd_nxt
               /\ DOMAIN d.snd_buf = {sn \in DOMAIN c.snd_buf : sn >= una}
               /\ \A sn \in DOMAIN d.snd_buf : d.snd_buf[sn] = c.snd_buf[sn]
<1> DEFINE b == [c EXCEPT !.rmt_wnd = wnd]
           p == ikcp_parse_una(b, una)
<1>1. /\ IsCB(b) /\ SameReceiver(c, b) /\ b.acklist = c.acklist
      /\ b.snd_queue = c.snd_queue /\ b.snd_nxt = c.snd_nxt /\ b.snd_buf = c.snd_buf
    BY DEF IsCB, SameReceiver
<1> HIDE DEF b
<1>2. /\ IsCB(p) /\ SameReceiver(b, p) /\ p.acklist = b.acklist
      /\ p.snd_queue = b.snd_queue /\ p.snd_nxt = b.snd_nxt
      /\ DOMAIN p.snd_buf = {sn \in DOMAIN b.snd_buf : sn >= una}
      /\ \A sn \in DOMAIN p.snd_buf : p.snd_buf[sn] = b.snd_buf[sn]
    BY <1>1, ParseUnaFields
<1> HIDE DEF p
<1>3. LET d == ikcp_shrink_buf(p)
      IN  /\ IsCB(d) /\ SameReceiver(p, d) /\ d.acklist = p.acklist
          /\ d.snd_queue = p.snd_queue /\ d.snd_nxt = p.snd_nxt /\ d.snd_buf = p.snd_buf
    BY <1>2, ShrinkFields
<1>4. ikcp_shrink_buf(p) = ikcp_shrink_buf(ikcp_parse_una([c EXCEPT !.rmt_wnd = wnd], una))
    BY DEF p, b
<1> QED
    BY <1>1, <1>2, <1>3, <1>4 DEF SameReceiver

-----------------------------------------------------------------------------
(* One field changed.                                                      *)

LEMMA SetAcklist ==
    ASSUME NEW c, IsCB(c), NEW S \in SUBSET Nat
    PROVE  LET d == [c EXCEPT !.acklist = S]
           IN  IsCB(d) /\ SameSender(c, d) /\ SameReceiver(c, d) /\ d.acklist = S
BY DEF IsCB, SameSender, SameReceiver

LEMMA SetRcvBuf ==
    ASSUME NEW c, IsCB(c), NEW buf, Holds(buf)
    PROVE  LET d == [c EXCEPT !.rcv_buf = buf]
           IN  /\ IsCB(d) /\ SameSender(c, d) /\ d.acklist = c.acklist
               /\ d.rcv_buf = buf /\ d.rcv_nxt = c.rcv_nxt /\ d.rcv_queue = c.rcv_queue
BY DEF IsCB, SameSender

LEMMA PutRcvQueue ==
    ASSUME NEW c, IsCB(c), NEW q
    PROVE  [c EXCEPT !.rcv_queue = q]
           = [snd_queue |-> c.snd_queue, snd_buf |-> c.snd_buf, snd_una |-> c.snd_una,
              snd_nxt |-> c.snd_nxt, rmt_wnd |-> c.rmt_wnd, rcv_nxt |-> c.rcv_nxt,
              rcv_buf |-> c.rcv_buf, rcv_queue |-> q, acklist |-> c.acklist,
              tell |-> c.tell]
<1>1. c = [snd_queue |-> c.snd_queue, snd_buf |-> c.snd_buf, snd_una |-> c.snd_una,
           snd_nxt |-> c.snd_nxt, rmt_wnd |-> c.rmt_wnd, rcv_nxt |-> c.rcv_nxt,
           rcv_buf |-> c.rcv_buf, rcv_queue |-> c.rcv_queue, acklist |-> c.acklist,
           tell |-> c.tell]
    BY DEF IsCB
<1> QED
    BY <1>1

LEMMA SetRcvQueue ==
    ASSUME NEW c, IsCB(c), NEW q \in Seq(Piece)
    PROVE  LET d == [c EXCEPT !.rcv_queue = q]
           IN  /\ IsCB(d) /\ SameSender(c, d) /\ d.acklist = c.acklist
               /\ d.rcv_buf = c.rcv_buf /\ d.rcv_nxt = c.rcv_nxt /\ d.rcv_queue = q
<1> DEFINE d == [snd_queue |-> c.snd_queue, snd_buf |-> c.snd_buf, snd_una |-> c.snd_una,
                 snd_nxt |-> c.snd_nxt, rmt_wnd |-> c.rmt_wnd, rcv_nxt |-> c.rcv_nxt,
                 rcv_buf |-> c.rcv_buf, rcv_queue |-> q, acklist |-> c.acklist,
                 tell |-> c.tell]
<1>1. [c EXCEPT !.rcv_queue = q] = d
    BY PutRcvQueue
<1>2. IsCB(d)
    BY DEF IsCB
<1> QED
    BY <1>1, <1>2 DEF SameSender

LEMMA SetTell ==
    ASSUME NEW c, IsCB(c), NEW t \in BOOLEAN
    PROVE  LET d == [c EXCEPT !.tell = t]
           IN  IsCB(d) /\ SameSender(c, d) /\ SameReceiver(c, d) /\ d.acklist = c.acklist
BY DEF IsCB, SameSender, SameReceiver

-----------------------------------------------------------------------------
(* A data segment: refused, known, or put into its place.                  *)

(* b is c with the piece in rcv_buf, if it was not there, and its number in *)
(* acklist.                                                                 *)
Placed(c, b, sn, piece) ==
    /\ IsCB(b) /\ SameSender(c, b)
    /\ b.acklist = c.acklist \cup {sn}
    /\ b.rcv_nxt = c.rcv_nxt /\ b.rcv_queue = c.rcv_queue
    /\ DOMAIN b.rcv_buf = DOMAIN c.rcv_buf \cup {sn}
    /\ \A k \in DOMAIN c.rcv_buf : b.rcv_buf[k] = c.rcv_buf[k]
    /\ sn \in DOMAIN c.rcv_buf \/ b.rcv_buf[sn] = piece

LEMMA InputPushFields ==
    ASSUME NEW c, IsCB(c), NEW seg, seg.sn \in Nat, seg.data \in Piece
    PROVE  LET d == InputPush(c, seg)
           IN  \/ d = c
               \/ /\ IsCB(d) /\ SameSender(c, d) /\ SameReceiver(c, d)
                  /\ seg.sn < c.rcv_nxt
                  /\ d.acklist = c.acklist \cup {seg.sn}
               \/ /\ c.rcv_nxt =< seg.sn
                  /\ \E b : Placed(c, b, seg.sn, seg.data) /\ d = Arrange(b)
<1> DEFINE sn == seg.sn
           a == [c EXCEPT !.acklist = c.acklist \cup {sn}]
           buf == [k \in DOMAIN c.rcv_buf \cup {sn} |->
                      IF k = sn THEN seg.data ELSE c.rcv_buf[k]]
           b == [a EXCEPT !.rcv_buf = buf]
<1>1. /\ IsCB(a) /\ SameSender(c, a) /\ SameReceiver(c, a)
      /\ a.acklist = c.acklist \cup {sn}
  <2>1. c.acklist \cup {sn} \in SUBSET Nat
      BY DEF IsCB
  <2> QED
      BY <2>1, SetAcklist
<1>2. CASE sn >= c.rcv_nxt + RcvWnd
    BY <1>2 DEF InputPush
<1>3. CASE ~(sn >= c.rcv_nxt + RcvWnd) /\ sn < c.rcv_nxt
  <2>1. InputPush(c, seg) = ikcp_parse_data(a, sn, seg.data)
      BY <1>3 DEF InputPush, IsCB
  <2>2. a.rcv_nxt = c.rcv_nxt
      BY <1>1 DEF SameReceiver
  <2>3. ikcp_parse_data(a, sn, seg.data) = a
      BY <1>3, <2>2 DEF ikcp_parse_data
  <2> HIDE DEF a
  <2> QED
      BY <1>1, <1>3, <2>1, <2>3
<1>4. CASE ~(sn >= c.rcv_nxt + RcvWnd) /\ ~(sn < c.rcv_nxt)
  <2>1. InputPush(c, seg) = ikcp_parse_data(a, sn, seg.data)
      BY <1>4 DEF InputPush, IsCB
  <2>2. a.rcv_nxt = c.rcv_nxt /\ a.rcv_buf = c.rcv_buf
      BY <1>1 DEF SameReceiver
  <2>3. c.rcv_nxt =< sn
      BY <1>4 DEF IsCB
  <2>4. CASE sn \in DOMAIN c.rcv_buf
    <3>1. ikcp_parse_data(a, sn, seg.data) = Arrange(a)
        BY <1>4, <2>2, <2>4 DEF ikcp_parse_data
    <3>2. DOMAIN c.rcv_buf = DOMAIN c.rcv_buf \cup {sn}
        BY <2>4
    <3>3. Placed(c, a, sn, seg.data)
      <4> HIDE DEF a
      <4> QED
          BY <1>1, <2>4, <3>2 DEF Placed, SameReceiver
    <3> HIDE DEF a
    <3> QED
        BY <2>1, <2>3, <3>1, <3>3
  <2>5. CASE sn \notin DOMAIN c.rcv_buf
    <3>1. ikcp_parse_data(a, sn, seg.data) = Arrange(b)
      <4>1. ikcp_parse_data(a, sn, seg.data)
            = Arrange([a EXCEPT !.rcv_buf = [k \in DOMAIN @ \cup {sn} |->
                                                 IF k = sn THEN seg.data ELSE @[k]]])
          BY <1>4, <2>2, <2>5 DEF ikcp_parse_data
      <4>2. "rcv_buf" \in DOMAIN a
          BY <1>1 DEF IsCB
      <4> QED
          BY <4>1, <4>2, <2>2
    <3>2. Holds(buf)
      <4>1. Holds(c.rcv_buf) /\ sn \in Nat /\ seg.data \in Piece
          BY DEF IsCB
      <4> QED
          BY <4>1 DEF Holds
    <3>3. DOMAIN buf = DOMAIN c.rcv_buf \cup {sn} /\ buf[sn] = seg.data
          /\ \A k \in DOMAIN c.rcv_buf : buf[k] = c.rcv_buf[k]
        BY <2>5
    <3>4. /\ IsCB(b) /\ SameSender(a, b) /\ b.rcv_buf = buf /\ b.acklist = a.acklist
          /\ b.rcv_nxt = a.rcv_nxt /\ b.rcv_queue = a.rcv_queue
      <4> HIDE DEF buf, a
      <4> QED
          BY <1>1, <3>2, SetRcvBuf
    <3>5. Placed(c, b, sn, seg.data)
      <4> HIDE DEF a, b, buf
      <4> QED
          BY <1>1, <3>3, <3>4 DEF Placed, SameSender, SameReceiver
    <3> HIDE DEF a, b
    <3> QED
        BY <2>1, <2>3, <3>1, <3>5
  <2> QED
      BY <2>4, <2>5
<1> QED
    BY <1>2, <1>3, <1>4

-----------------------------------------------------------------------------
(* Taking a message.                                                       *)

LEMMA PeekIsInQueue ==
    ASSUME NEW c, IsCB(c), ikcp_peeksize(c) # 0
    PROVE  ikcp_peeksize(c) \in 1..Len(c.rcv_queue)
<1> DEFINE S == {i \in DOMAIN c.rcv_queue :
                    c.rcv_queue[i].frg = 0 \/ i = Len(c.rcv_queue)}
<1>1. c.rcv_queue \in Seq(Piece) /\ c.rcv_queue # <<>>
    BY DEF IsCB, ikcp_peeksize
<1>2. DOMAIN c.rcv_queue = 1..Len(c.rcv_queue) /\ Len(c.rcv_queue) \in Nat \ {0}
    BY <1>1
<1>3. S \in SUBSET Nat /\ Len(c.rcv_queue) \in S
    BY <1>2
<1>4. ikcp_peeksize(c) = Least(S)
    BY DEF ikcp_peeksize
<1>5. Least(S) \in S
    BY <1>3, LeastIsLeast
<1> QED
    BY <1>2, <1>4, <1>5

(* b is c without the first n pieces of its rcv_queue. *)
Freed(c, b, n) ==
    /\ IsCB(b) /\ SameSender(c, b) /\ b.acklist = c.acklist
    /\ b.rcv_nxt = c.rcv_nxt /\ b.rcv_buf = c.rcv_buf
    /\ Len(b.rcv_queue) = Len(c.rcv_queue) - n
    /\ \A i \in 1..Len(b.rcv_queue) : b.rcv_queue[i] = c.rcv_queue[n + i]

LEMMA RecvFields ==
    ASSUME NEW c, IsCB(c), NEW n \in 1..Len(c.rcv_queue)
    PROVE  LET d == ikcp_recv(c, n)
           IN  \E b : /\ Freed(c, b, n)
                      /\ IsCB(d) /\ SameSender(c, d) /\ d.acklist = c.acklist
                      /\ SameReceiver(Arrange(b), d)
<1> DEFINE q == SubSeq(c.rcv_queue, n + 1, Len(c.rcv_queue))
           b == [c EXCEPT !.rcv_queue = q]
           m == Arrange(b)
           t == m.tell \/ (Len(c.rcv_queue) >= RcvWnd /\ Len(m.rcv_queue) < RcvWnd)
<1>1. c.rcv_queue \in Seq(Piece) /\ Len(c.rcv_queue) \in Nat
    BY DEF IsCB
<1>2. q \in Seq(Piece) /\ Len(q) = Len(c.rcv_queue) - n
      /\ \A i \in 1..Len(q) : q[i] = c.rcv_queue[n + i]
  <2>1. \A i \in (n + 1)..Len(c.rcv_queue) : c.rcv_queue[i] \in Piece
      BY <1>1
  <2>2. /\ q \in Seq(Piece)
        /\ Len(q) = IF n + 1 <= Len(c.rcv_queue) THEN Len(c.rcv_queue) - (n + 1) + 1 ELSE 0
        /\ \A i \in 1..(Len(c.rcv_queue) - (n + 1) + 1) : q[i] = c.rcv_queue[n + 1 + i - 1]
    <3>1. n + 1 \in Int /\ Len(c.rcv_queue) \in Int
        BY <1>1
    <3> HIDE DEF q
    <3> QED
        BY <2>1, <3>1, SubSeqProperties DEF q
  <2> HIDE DEF q
  <2> QED
      BY <1>1, <2>2
<1>3. Freed(c, b, n)
  <2> HIDE DEF q
  <2>1. IsCB(b) /\ SameSender(c, b) /\ b.acklist = c.acklist
        /\ b.rcv_nxt = c.rcv_nxt /\ b.rcv_buf = c.rcv_buf /\ b.rcv_queue = q
      BY <1>2, SetRcvQueue
  <2> HIDE DEF b
  <2> QED
      BY <1>2, <2>1 DEF Freed
<1>4. IsCB(b)
    BY <1>3 DEF Freed
<1>5. IsCB(m) /\ SameSender(b, m) /\ m.acklist = b.acklist
  <2> HIDE DEF b
  <2> QED
      BY <1>4, ArrangeFields
<1>6. ikcp_recv(c, n) = [m EXCEPT !.tell = t]
  <2>1. "rcv_queue" \in DOMAIN c
      BY DEF IsCB
  <2>2. "tell" \in DOMAIN m
    <3> HIDE DEF m
    <3> QED
        BY <1>5 DEF IsCB
  <2> QED
      BY <2>1, <2>2 DEF ikcp_recv
<1>7. LET d == [m EXCEPT !.tell = t]
      IN  IsCB(d) /\ SameSender(m, d) /\ d.acklist = m.acklist /\ SameReceiver(m, d)
  <2>1. t \in BOOLEAN
      BY <1>5 DEF IsCB
  <2> HIDE DEF m, t
  <2> QED
      BY <1>5, <2>1, SetTell
<1>8. SameSender(c, b) /\ b.acklist = c.acklist
    BY <1>3 DEF Freed
<1>9. SameReceiver(m, ikcp_recv(c, n)) /\ IsCB(ikcp_recv(c, n))
      /\ SameSender(m, ikcp_recv(c, n)) /\ ikcp_recv(c, n).acklist = m.acklist
  <2> HIDE DEF m, t
  <2> QED
      BY <1>6, <1>7
<1> HIDE DEF b, m
<1> QED
    BY <1>3, <1>5, <1>8, <1>9 DEF SameSender, m

-----------------------------------------------------------------------------
(* A flush.                                                                *)

LEMMA NumberedBounds ==
    ASSUME NEW c, IsCB(c)
    PROVE  Numbered(c) \in 0..Len(c.snd_queue)
<1>1. Len(c.snd_queue) \in Nat /\ c.snd_una \in Nat /\ c.snd_nxt \in Nat /\ c.rmt_wnd \in Nat
    BY DEF IsCB
<1>2. Window(c) \in Nat
    BY <1>1, IkcpAssumption DEF Window
<1> QED
    BY <1>1, <1>2 DEF Numbered

(* A queue cut in two.                                                      *)
LEMMA CutFields ==
    ASSUME NEW S, NEW q \in Seq(S), NEW n \in 0..Len(q)
    PROVE  /\ SubSeq(q, 1, n) \in Seq(S) /\ Len(SubSeq(q, 1, n)) = n
           /\ \A i \in 1..n : SubSeq(q, 1, n)[i] = q[i]
           /\ SubSeq(q, n + 1, Len(q)) \in Seq(S)
           /\ Len(SubSeq(q, n + 1, Len(q))) = Len(q) - n
           /\ \A i \in 1..(Len(q) - n) : SubSeq(q, n + 1, Len(q))[i] = q[n + i]
<1>1. Len(q) \in Nat /\ n \in Nat /\ \A i \in 1..Len(q) : q[i] \in S
    OBVIOUS
<1>2. /\ SubSeq(q, 1, n) \in Seq(S)
      /\ Len(SubSeq(q, 1, n)) = IF 1 <= n THEN n - 1 + 1 ELSE 0
      /\ \A i \in 1..(n - 1 + 1) : SubSeq(q, 1, n)[i] = q[1 + i - 1]
    BY <1>1, SubSeqProperties
<1>3. /\ SubSeq(q, n + 1, Len(q)) \in Seq(S)
      /\ Len(SubSeq(q, n + 1, Len(q)))
             = IF n + 1 <= Len(q) THEN Len(q) - (n + 1) + 1 ELSE 0
      /\ \A i \in 1..(Len(q) - (n + 1) + 1) :
             SubSeq(q, n + 1, Len(q))[i] = q[n + 1 + i - 1]
  <2>1. n + 1 \in Int /\ Len(q) \in Int /\ \A i \in (n + 1)..Len(q) : q[i] \in S
      BY <1>1
  <2> QED
      BY <2>1, SubSeqProperties
<1>4. Len(SubSeq(q, 1, n)) = n
    BY <1>1, <1>2
<1>5. \A i \in 1..n : SubSeq(q, 1, n)[i] = q[i]
    BY <1>1, <1>2
<1>6. Len(SubSeq(q, n + 1, Len(q))) = Len(q) - n
    BY <1>1, <1>3
<1>7. \A i \in 1..(Len(q) - n) : SubSeq(q, n + 1, Len(q))[i] = q[n + i]
    BY <1>1, <1>3
<1> QED
    BY <1>2, <1>3, <1>4, <1>5, <1>6, <1>7

LEMMA FlushFields ==
    ASSUME NEW c, IsCB(c)
    PROVE  LET d == ikcp_flush(c)
               n == Numbered(c)
           IN  /\ IsCB(d) /\ SameReceiver(c, d) /\ d.acklist = {}
               /\ d.snd_queue = SubSeq(c.snd_queue, n + 1, Len(c.snd_queue))
               /\ d.snd_nxt = c.snd_nxt + n
               /\ DOMAIN d.snd_buf = DOMAIN c.snd_buf \cup (c.snd_nxt..(c.snd_nxt + n - 1))
               /\ \A sn \in DOMAIN c.snd_buf : d.snd_buf[sn] = c.snd_buf[sn]
               /\ \A sn \in DOMAIN d.snd_buf :
                      sn \in DOMAIN c.snd_buf \/ d.snd_buf[sn] = c.snd_queue[sn - c.snd_nxt + 1]
<1> DEFINE n == Numbered(c)
           new == c.snd_nxt..(c.snd_nxt + n - 1)
           queue == SubSeq(c.snd_queue, n + 1, Len(c.snd_queue))
           buf == [sn \in DOMAIN c.snd_buf \cup new |->
                      IF sn \in DOMAIN c.snd_buf THEN c.snd_buf[sn]
                      ELSE c.snd_queue[sn - c.snd_nxt + 1]]
<1>1. n \in 0..Len(c.snd_queue)
    BY NumberedBounds
<1>2. c.snd_queue \in Seq(Piece) /\ c.snd_nxt \in Nat /\ Holds(c.snd_buf)
    BY DEF IsCB
<1>3. queue \in Seq(Piece)
  <2> HIDE DEF n
  <2> QED
      BY <1>1, <1>2, CutFields
<1>4. new \subseteq Nat /\ \A sn \in new : sn - c.snd_nxt + 1 \in 1..Len(c.snd_queue)
  <2> HIDE DEF n
  <2> QED
      BY <1>1, <1>2
<1>5. Holds(buf)
  <2>1. \A sn \in new : c.snd_queue[sn - c.snd_nxt + 1] \in Piece
    <3> HIDE DEF n, new
    <3> QED
        BY <1>2, <1>4
  <2>2. DOMAIN buf \subseteq Nat /\ buf = [sn \in DOMAIN buf |-> buf[sn]]
    <3> HIDE DEF new
    <3> QED
        BY <1>2, <1>4 DEF Holds
  <2>3. \A sn \in DOMAIN buf : buf[sn] \in Piece
    <3> HIDE DEF new
    <3> QED
        BY <1>2, <2>1 DEF Holds
  <2> HIDE DEF buf
  <2> QED
      BY <2>2, <2>3 DEF Holds
<1>6. ikcp_flush(c) = [snd_queue |-> queue, snd_buf |-> buf, snd_una |-> c.snd_una,
            snd_nxt |-> c.snd_nxt + n, rmt_wnd |-> c.rmt_wnd, rcv_nxt |-> c.rcv_nxt,
            rcv_buf |-> c.rcv_buf, rcv_queue |-> c.rcv_queue, acklist |-> {},
            tell |-> FALSE]
  <2>1. c = [snd_queue |-> c.snd_queue, snd_buf |-> c.snd_buf, snd_una |-> c.snd_una,
            snd_nxt |-> c.snd_nxt, rmt_wnd |-> c.rmt_wnd, rcv_nxt |-> c.rcv_nxt,
            rcv_buf |-> c.rcv_buf, rcv_queue |-> c.rcv_queue, acklist |-> c.acklist,
            tell |-> c.tell]
      BY DEF IsCB
  <2>2. ikcp_flush(c) = [c EXCEPT !.acklist = {}, !.tell = FALSE, !.snd_queue = queue,
                                  !.snd_buf = buf, !.snd_nxt = c.snd_nxt + n]
      BY <2>1 DEF ikcp_flush
  <2> HIDE DEF queue, buf, n
  <2> QED
      BY <2>1, <2>2
<1>7. DOMAIN buf = DOMAIN c.snd_buf \cup new
      /\ (\A sn \in DOMAIN c.snd_buf : buf[sn] = c.snd_buf[sn])
      /\ \A sn \in DOMAIN buf :
             sn \in DOMAIN c.snd_buf \/ buf[sn] = c.snd_queue[sn - c.snd_nxt + 1]
  <2> HIDE DEF new
  <2> QED
      OBVIOUS
<1>8. c.snd_nxt + n \in Nat
    BY <1>1, <1>2
<1> HIDE DEF queue, buf
<1>9. IsCB(ikcp_flush(c))
    BY <1>3, <1>5, <1>6, <1>8 DEF IsCB
<1>10. LET d == ikcp_flush(c)
       IN  /\ d.acklist = {} /\ d.snd_queue = queue /\ d.snd_nxt = c.snd_nxt + n
           /\ d.snd_buf = buf
           /\ SameReceiver(c, d)
  <2> HIDE DEF n
  <2> QED
      BY <1>6 DEF SameReceiver
<1> HIDE DEF n
<1> QED
    BY <1>7, <1>9, <1>10 DEF queue, n

LEMMA OutputFields ==
    ASSUME NEW c, IsCB(c), NEW seg \in Output(c)
    PROVE  /\ seg \in Segment /\ seg.una = c.rcv_nxt
           /\ seg.cmd = "ACK" => seg.sn \in c.acklist
           /\ seg.cmd = "PUSH" => /\ seg.sn \in DOMAIN ikcp_flush(c).snd_buf
                                  /\ seg.data = ikcp_flush(c).snd_buf[seg.sn]
<1> DEFINE buf == ikcp_flush(c).snd_buf
           wnd == ikcp_wnd_unused(c)
<1>1. Holds(buf)
    BY FlushFields DEF IsCB
<1>2. wnd \in Nat /\ c.rcv_nxt \in Nat /\ c.acklist \subseteq Nat
    BY IkcpAssumption DEF ikcp_wnd_unused, IsCB
<1> HIDE DEF wnd
<1>3. CASE seg \in {[cmd |-> "ACK", sn |-> sn, una |-> c.rcv_nxt, wnd |-> wnd] : sn \in c.acklist}
    BY <1>2, <1>3 DEF Segment
<1>4. CASE seg \in {[cmd |-> k, una |-> c.rcv_nxt, wnd |-> wnd] : k \in {"WASK", "WINS"}}
    BY <1>2, <1>4 DEF Segment
<1>5. CASE seg \in {[cmd |-> "PUSH", sn |-> sn, una |-> c.rcv_nxt, wnd |-> wnd,
                     data |-> buf[sn]] : sn \in DOMAIN buf}
  <2> HIDE DEF buf
  <2>1. PICK sn \in DOMAIN buf : seg = [cmd |-> "PUSH", sn |-> sn, una |-> c.rcv_nxt,
                                        wnd |-> wnd, data |-> buf[sn]]
      BY <1>5
  <2>2. sn \in Nat /\ buf[sn] \in Piece
      BY <1>1 DEF Holds
  <2>3. seg.sn = sn /\ seg.una = c.rcv_nxt /\ seg.data = buf[sn] /\ seg.cmd = "PUSH"
      BY <2>1
  <2>4. seg \in [cmd : {"PUSH"}, sn : Nat, una : Nat, wnd : Nat, data : Piece]
      BY <2>1, <2>2, <1>2
  <2> QED
      BY <2>3, <2>4 DEF Segment, buf
<1> QED
  <2>1. \/ seg \in {[cmd |-> "ACK", sn |-> sn, una |-> c.rcv_nxt, wnd |-> wnd] : sn \in c.acklist}
        \/ seg \in {[cmd |-> k, una |-> c.rcv_nxt, wnd |-> wnd] : k \in {"WASK", "WINS"}}
        \/ seg \in {[cmd |-> "PUSH", sn |-> sn, una |-> c.rcv_nxt, wnd |-> wnd,
                     data |-> buf[sn]] : sn \in DOMAIN buf}
      BY DEF Output, wnd
  <2> QED
      BY <2>1, <1>3, <1>4, <1>5

-----------------------------------------------------------------------------
(* Pieces in a row.                                                        *)

(* Each piece of s starts where the one before it ends, the first at a.     *)
Chain(s, a) ==
    /\ \A i \in 1..Len(s) : s[i].lo = (IF i = 1 THEN a ELSE s[i - 1].hi)
    /\ \A i \in 1..Len(s) : s[i].lo =< s[i].hi
    /\ \A i, j \in 1..Len(s) : i =< j => s[i].hi =< s[j].hi

(* Where such a row ends. *)
Reach(s, a) == IF Len(s) = 0 THEN a ELSE s[Len(s)].hi

LEMMA PieceFields ==
    ASSUME NEW s \in Seq(Piece)
    PROVE  \A i \in 1..Len(s) : s[i] \in Piece /\ s[i].lo \in Nat /\ s[i].hi \in Nat
<1>1. \A p \in Piece : p.lo \in Nat /\ p.hi \in Nat
    BY DEF Piece
<1>2. \A i \in 1..Len(s) : s[i] \in Piece
    OBVIOUS
<1> QED
    BY <1>1, <1>2

LEMMA ChainBounds ==
    ASSUME NEW s \in Seq(Piece), NEW a \in Nat, Chain(s, a)
    PROVE  /\ Reach(s, a) \in Nat /\ a =< Reach(s, a)
           /\ \A i \in 1..Len(s) : a =< s[i].hi /\ s[i].hi =< Reach(s, a)
<1>1. Len(s) \in Nat
    OBVIOUS
<1>2. \A i \in 1..Len(s) : s[i].lo \in Nat /\ s[i].hi \in Nat
    BY PieceFields
<1>3. ASSUME NEW i \in 1..Len(s)
      PROVE  a =< s[i].hi /\ s[i].hi =< Reach(s, a)
  <2>1. 1 \in 1..Len(s) /\ Len(s) \in 1..Len(s) /\ 1 =< i /\ i =< Len(s) /\ Len(s) # 0
      BY <1>1
  <2>2. s[1].lo = a /\ s[1].lo =< s[1].hi
      BY <2>1 DEF Chain
  <2>3. s[1].hi =< s[i].hi /\ s[i].hi =< s[Len(s)].hi
      BY <2>1 DEF Chain
  <2>4. s[1].hi \in Nat /\ s[i].hi \in Nat
      BY <1>2, <2>1
  <2> QED
      BY <2>1, <2>2, <2>3, <2>4 DEF Reach
<1>4. CASE Len(s) = 0
    BY <1>3, <1>4 DEF Reach
<1>5. CASE Len(s) # 0
  <2>1. Len(s) \in 1..Len(s)
      BY <1>1, <1>5
  <2>2. a =< s[Len(s)].hi /\ s[Len(s)].hi \in Nat
      BY <2>1, <1>2, <1>3
  <2> QED
      BY <1>3, <1>5, <2>2 DEF Reach
<1> QED
    BY <1>4, <1>5

LEMMA ChainConcat ==
    ASSUME NEW s \in Seq(Piece), NEW t \in Seq(Piece), NEW a \in Nat,
           Chain(s, a), Chain(t, Reach(s, a))
    PROVE  /\ s \o t \in Seq(Piece) /\ Chain(s \o t, a)
           /\ Reach(s \o t, a) = Reach(t, Reach(s, a))
<1> DEFINE u == s \o t
           m == Reach(s, a)
<1>1. /\ u \in Seq(Piece) /\ Len(u) = Len(s) + Len(t)
      /\ \A i \in 1..Len(s) : u[i] = s[i]
      /\ \A i \in 1..Len(t) : u[Len(s) + i] = t[i]
    BY ConcatFields
<1>2. Len(s) \in Nat /\ Len(t) \in Nat
    OBVIOUS
<1>3. ASSUME NEW i \in 1..Len(u)
      PROVE  \/ i \in 1..Len(s) /\ u[i] = s[i]
             \/ /\ i > Len(s) /\ i - Len(s) \in 1..Len(t) /\ u[i] = t[i - Len(s)]
  <2>1. CASE i =< Len(s)
      BY <1>1, <1>2, <2>1
  <2>2. CASE i > Len(s)
    <3>1. i - Len(s) \in 1..Len(t) /\ Len(s) + (i - Len(s)) = i
        BY <1>1, <1>2, <2>2
    <3> QED
        BY <1>1, <2>2, <3>1
  <2> QED
      BY <1>2, <2>1, <2>2
<1>4. m \in Nat /\ a =< m /\ (\A i \in 1..Len(s) : s[i].hi =< m)
    BY ChainBounds
<1>5. \A i \in 1..Len(t) : m =< t[i].hi
    BY <1>4, ChainBounds
<1>6. (\A i \in 1..Len(s) : s[i].hi \in Nat) /\ (\A i \in 1..Len(t) : t[i].hi \in Nat)
    BY PieceFields
<1> HIDE DEF u
<1>7. ASSUME NEW i \in 1..Len(u)
      PROVE  u[i].lo = (IF i = 1 THEN a ELSE u[i - 1].hi) /\ u[i].lo =< u[i].hi
  <2>1. CASE i \in 1..Len(s) /\ u[i] = s[i]
    <3>1. s[i].lo = (IF i = 1 THEN a ELSE s[i - 1].hi) /\ s[i].lo =< s[i].hi
        BY <2>1 DEF Chain
    <3>2. i # 1 => i - 1 \in 1..Len(s)
        BY <2>1
    <3> QED
        BY <1>1, <2>1, <3>1, <3>2
  <2>2. CASE i > Len(s) /\ i - Len(s) \in 1..Len(t) /\ u[i] = t[i - Len(s)]
    <3> DEFINE k == i - Len(s)
    <3>1. t[k].lo = (IF k = 1 THEN m ELSE t[k - 1].hi) /\ t[k].lo =< t[k].hi
        BY <2>2 DEF Chain
    <3>2. CASE k # 1
      <4>1. k - 1 \in 1..Len(t) /\ Len(s) + (k - 1) = i - 1 /\ i # 1
          BY <1>2, <2>2, <3>2
      <4>2. u[i - 1] = t[k - 1]
          BY <1>1, <4>1
      <4> QED
          BY <2>2, <3>1, <3>2, <4>1, <4>2
    <3>3. CASE k = 1 /\ Len(s) = 0
      <4>1. m = a /\ i = 1
          BY <3>3 DEF Reach
      <4> QED
          BY <2>2, <3>1, <3>3, <4>1
    <3>4. CASE k = 1 /\ Len(s) # 0
      <4>1. m = s[Len(s)].hi /\ i - 1 = Len(s) /\ i # 1 /\ Len(s) \in 1..Len(s)
          BY <1>2, <3>4 DEF Reach
      <4>2. u[i - 1] = s[Len(s)]
          BY <1>1, <4>1
      <4> QED
          BY <2>2, <3>1, <3>4, <4>1, <4>2
    <3> QED
        BY <3>2, <3>3, <3>4
  <2> QED
      BY <1>3, <2>1, <2>2
<1>8. ASSUME NEW i \in 1..Len(u), NEW j \in 1..Len(u), i =< j
      PROVE  u[i].hi =< u[j].hi
  <2>1. CASE i \in 1..Len(s) /\ u[i] = s[i] /\ j \in 1..Len(s) /\ u[j] = s[j]
      BY <1>8, <2>1 DEF Chain
  <2>2. CASE /\ i \in 1..Len(s) /\ u[i] = s[i]
             /\ j - Len(s) \in 1..Len(t) /\ u[j] = t[j - Len(s)]
    <3>1. s[i].hi =< m /\ m =< t[j - Len(s)].hi /\ s[i].hi \in Nat /\ t[j - Len(s)].hi \in Nat
        BY <2>2, <1>4, <1>5, <1>6
    <3>2. m \in Nat
        BY <1>4
    <3> DEFINE a1 == s[i].hi
               a2 == t[j - Len(s)].hi
    <3>3. u[i].hi = a1 /\ u[j].hi = a2 /\ a1 =< m /\ m =< a2 /\ a1 \in Nat /\ a2 \in Nat
        BY <2>2, <3>1
    <3> HIDE DEF a1, a2, m
    <3>4. a1 =< a2
        BY <3>2, <3>3
    <3> QED
        BY <3>3, <3>4
  <2>3. CASE /\ i - Len(s) \in 1..Len(t) /\ u[i] = t[i - Len(s)]
             /\ j - Len(s) \in 1..Len(t) /\ u[j] = t[j - Len(s)]
    <3> DEFINE k == i - Len(s)
               l == j - Len(s)
    <3>1. k \in 1..Len(t) /\ l \in 1..Len(t) /\ k =< l /\ u[i] = t[k] /\ u[j] = t[l]
        BY <1>2, <1>8, <2>3
    <3> HIDE DEF k, l
    <3>2. t[k].hi =< t[l].hi
        BY <3>1 DEF Chain
    <3> QED
        BY <3>1, <3>2
  <2> QED
    <3>1. ~(i > Len(s) /\ j \in 1..Len(s))
        BY <1>2, <1>8
    <3> QED
        BY <1>3, <2>1, <2>2, <2>3, <3>1
<1>9. Chain(u, a)
    BY <1>7, <1>8 DEF Chain
<1>10. Reach(u, a) = Reach(t, m)
  <2>1. CASE Len(t) = 0
    <3>1. Len(u) = Len(s)
        BY <1>1, <1>2, <2>1
    <3>2. Len(s) # 0 => u[Len(s)] = s[Len(s)]
      <4>1. Len(s) # 0 => Len(s) \in 1..Len(s)
          BY <1>2
      <4> QED
          BY <1>1, <4>1
    <3> QED
        BY <2>1, <3>1, <3>2 DEF Reach
  <2>2. CASE Len(t) # 0
    <3>1. Len(t) \in 1..Len(t) /\ Len(u) # 0
        BY <1>1, <1>2, <2>2
    <3>2. u[Len(u)] = t[Len(t)]
        BY <1>1, <3>1
    <3> QED
        BY <2>2, <3>1, <3>2 DEF Reach
  <2> QED
      BY <2>1, <2>2
<1> QED
    BY <1>1, <1>9, <1>10 DEF u

LEMMA ChainCut ==
    ASSUME NEW q \in Seq(Piece), NEW a \in Nat, Chain(q, a), NEW n \in 0..Len(q)
    PROVE  LET s == SubSeq(q, 1, n)
               t == SubSeq(q, n + 1, Len(q))
           IN  Chain(s, a) /\ Chain(t, Reach(s, a)) /\ Reach(t, Reach(s, a)) = Reach(q, a)
<1> DEFINE s == SubSeq(q, 1, n)
           t == SubSeq(q, n + 1, Len(q))
           m == Reach(s, a)
<1>1. /\ Len(s) = n /\ \A i \in 1..n : s[i] = q[i]
      /\ Len(t) = Len(q) - n /\ \A i \in 1..(Len(q) - n) : t[i] = q[n + i]
    BY CutFields
<1>2. Len(q) \in Nat /\ n \in Nat /\ n =< Len(q)
    OBVIOUS
<1> HIDE DEF s, t
<1>3. Chain(s, a)
  <2>1. ASSUME NEW i \in 1..Len(s)
        PROVE  s[i].lo = (IF i = 1 THEN a ELSE s[i - 1].hi) /\ s[i].lo =< s[i].hi
    <3>1. i \in 1..n /\ i \in 1..Len(q) /\ (i # 1 => i - 1 \in 1..n)
        BY <1>1, <1>2
    <3>2. q[i].lo = (IF i = 1 THEN a ELSE q[i - 1].hi) /\ q[i].lo =< q[i].hi
        BY <3>1 DEF Chain
    <3> QED
        BY <1>1, <3>1, <3>2
  <2>2. ASSUME NEW i \in 1..Len(s), NEW j \in 1..Len(s), i =< j
        PROVE  s[i].hi =< s[j].hi
    <3>1. i \in 1..n /\ j \in 1..n /\ i \in 1..Len(q) /\ j \in 1..Len(q)
        BY <1>1, <1>2
    <3>2. q[i].hi =< q[j].hi
        BY <2>2, <3>1 DEF Chain
    <3> QED
        BY <1>1, <3>1, <3>2
  <2> QED
      BY <2>1, <2>2 DEF Chain
<1>4. m = IF n = 0 THEN a ELSE q[n].hi
  <2>1. n # 0 => n \in 1..n
      BY <1>2
  <2> QED
      BY <1>1, <2>1 DEF Reach
<1>5. Chain(t, m)
  <2>1. ASSUME NEW i \in 1..Len(t)
        PROVE  t[i].lo = (IF i = 1 THEN m ELSE t[i - 1].hi) /\ t[i].lo =< t[i].hi
    <3>1. /\ i \in 1..(Len(q) - n) /\ n + i \in 1..Len(q)
          /\ (i # 1 => i - 1 \in 1..(Len(q) - n) /\ n + (i - 1) = n + i - 1 /\ n + i # 1)
          /\ (i = 1 => n + i - 1 = n)
        BY <1>1, <1>2
    <3>2. /\ q[n + i].lo = (IF n + i = 1 THEN a ELSE q[n + i - 1].hi)
          /\ q[n + i].lo =< q[n + i].hi
        BY <3>1 DEF Chain
    <3>3. t[i] = q[n + i] /\ (i # 1 => t[i - 1] = q[n + i - 1])
        BY <1>1, <3>1
    <3>4. i = 1 => (n + i = 1 <=> n = 0)
        BY <1>2
    <3> QED
        BY <1>4, <3>1, <3>2, <3>3, <3>4
  <2>2. ASSUME NEW i \in 1..Len(t), NEW j \in 1..Len(t), i =< j
        PROVE  t[i].hi =< t[j].hi
    <3>1. /\ i \in 1..(Len(q) - n) /\ j \in 1..(Len(q) - n)
          /\ n + i \in 1..Len(q) /\ n + j \in 1..Len(q) /\ n + i =< n + j
        BY <1>1, <1>2, <2>2
    <3>2. q[n + i].hi =< q[n + j].hi
        BY <3>1 DEF Chain
    <3> QED
        BY <1>1, <3>1, <3>2
  <2> HIDE DEF m
  <2> QED
      BY <2>1, <2>2 DEF Chain
<1>6. Reach(t, m) = Reach(q, a)
  <2>1. CASE n = Len(q)
      BY <1>1, <1>4, <1>2, <2>1 DEF Reach
  <2>2. CASE n # Len(q)
    <3>1. Len(t) \in 1..(Len(q) - n) /\ n + Len(t) = Len(q) /\ Len(t) # 0 /\ Len(q) # 0
        BY <1>1, <1>2, <2>2
    <3>2. t[Len(t)] = q[Len(q)]
        BY <1>1, <3>1
    <3> QED
        BY <3>1, <3>2 DEF Reach
  <2> QED
      BY <2>1, <2>2
<1> QED
    BY <1>3, <1>5, <1>6 DEF s, t

-----------------------------------------------------------------------------
(* What a send puts into the queue.                                        *)

LEMMA Monotone ==
    ASSUME NEW i \in Nat, NEW j \in Nat, i =< j, NEW d \in Nat
    PROVE  i * d \in Nat /\ j * d \in Nat /\ i * d =< j * d
<1>1. PICK k \in Nat : j = i + k
  <2>1. j - i \in Nat /\ j = i + (j - i)
      OBVIOUS
  <2> QED
      BY <2>1
<1>2. j * d = i * d + k * d
    BY <1>1
<1>3. i * d \in Nat /\ k * d \in Nat
    BY <1>1
<1> QED
    BY <1>2, <1>3

LEMMA FragmentsChain ==
    ASSUME NEW from \in Nat, NEW n \in Nat, NEW stream
    PROVE  LET f == Fragments(from, n, stream)
           IN  /\ f \in Seq(Piece) /\ Chain(f, from) /\ Reach(f, from) = from + n
<1> DEFINE count == CeilDiv(n, Mss)
           f == Fragments(from, n, stream)
           lo(i) == from + (i - 1) * Mss
           hi(i) == IF i = count THEN from + n ELSE from + i * Mss
<1>1. Mss \in Nat /\ Mss > 0 /\ Mss \in Nat \ {0}
    BY IkcpAssumption
<1>2. count \in Nat /\ n =< count * Mss /\ count * Mss < n + Mss
    BY <1>1, CeilDivBounds
<1> HIDE DEF count
<1>3. f = [i \in 1..count |-> [lo |-> lo(i), hi |-> hi(i),
                              frg |-> IF stream THEN 0 ELSE count - i]]
    BY DEF Fragments, count
<1>4. ASSUME NEW i \in 1..count
      PROVE  /\ lo(i) \in Nat /\ hi(i) \in Nat /\ lo(i) =< hi(i)
             /\ hi(i) =< from + i * Mss /\ i * Mss \in Nat
             /\ i # count => hi(i) = from + i * Mss /\ i * Mss =< n
  <2>1. i - 1 \in Nat /\ i \in Nat /\ i - 1 =< i
      BY <1>2
  <2>2. (i - 1) * Mss \in Nat /\ i * Mss \in Nat /\ (i - 1) * Mss =< i * Mss
      BY <2>1, <1>1, Monotone
  <2>3. CASE i = count
    <3>1. i * Mss = (i - 1) * Mss + Mss
        BY <2>1, <1>1
    <3>2. n =< i * Mss /\ i * Mss < n + Mss
        BY <1>2, <2>3
    <3>3. (i - 1) * Mss =< n
        BY <3>1, <3>2, <2>2, <1>1
    <3> QED
        BY <2>2, <2>3, <3>2, <3>3
  <2>4. CASE i # count
    <3>1. count - 1 \in Nat /\ i =< count - 1
        BY <1>2, <2>1, <2>4
    <3>2. i * Mss =< (count - 1) * Mss /\ (count - 1) * Mss \in Nat
        BY <3>1, <2>1, <1>1, Monotone
    <3>3. count * Mss = (count - 1) * Mss + Mss
        BY <1>1, <1>2
    <3>4. (count - 1) * Mss =< n
        BY <1>1, <1>2, <3>2, <3>3
    <3> QED
        BY <2>2, <2>4, <3>2, <3>4
  <2> QED
      BY <2>3, <2>4
<1>5. /\ Len(f) = count /\ f \in Seq(Piece)
      /\ \A i \in 1..count : f[i].lo = lo(i) /\ f[i].hi = hi(i)
  <2>1. \A i \in 1..count : (IF stream THEN 0 ELSE count - i) \in Nat
      BY <1>2
  <2>2. \A i \in 1..count : f[i].lo = lo(i) /\ f[i].hi = hi(i)
                            /\ f[i].frg = IF stream THEN 0 ELSE count - i
    <3> HIDE DEF f, lo, hi
    <3> QED
        BY <1>3
  <2>3. \A i \in 1..count : f[i] \in Piece
    <3> HIDE DEF f, lo, hi
    <3> QED
        BY <1>3, <1>4, <2>1 DEF Piece
  <2>4. f = [i \in 1..count |-> f[i]]
    <3> HIDE DEF lo, hi
    <3>1. DOMAIN f = 1..count
        BY <1>3
    <3> HIDE DEF f
    <3> QED
        BY <1>3
  <2> HIDE DEF f, lo, hi
  <2> QED
      BY <1>2, <2>2, <2>3, <2>4
<1>6. ASSUME NEW i \in 1..Len(f)
      PROVE  f[i].lo = (IF i = 1 THEN from ELSE f[i - 1].hi) /\ f[i].lo =< f[i].hi
  <2>1. i \in 1..count
      BY <1>5
  <2>2. f[i].lo = lo(i) /\ lo(i) =< hi(i) /\ f[i].hi = hi(i)
      BY <1>4, <1>5, <2>1
  <2>3. CASE i = 1
    <3>1. lo(1) = from
        BY <1>1
    <3> QED
        BY <2>2, <2>3, <3>1
  <2>4. CASE i # 1
    <3>1. i - 1 \in 1..count /\ i - 1 # count
        BY <1>2, <2>1, <2>4
    <3>2. f[i - 1].hi = lo(i)
        BY <1>4, <1>5, <3>1
    <3> QED
        BY <2>2, <2>4, <3>2
  <2> QED
      BY <2>3, <2>4
<1>7. ASSUME NEW i \in 1..Len(f), NEW j \in 1..Len(f), i =< j
      PROVE  f[i].hi =< f[j].hi
  <2>1. i \in 1..count /\ j \in 1..count /\ i \in Nat /\ j \in Nat
      BY <1>5, <1>2
  <2>2. f[i].hi = hi(i) /\ f[j].hi = hi(j)
      BY <1>5, <2>1
  <2>3. CASE j = count
    <3>1. i # count => hi(i) = from + i * Mss /\ i * Mss =< n /\ i * Mss \in Nat
        BY <1>4, <2>1
    <3>2. hi(j) = from + n
        BY <2>3
    <3>3. i = count => hi(i) = hi(j)
        BY <2>3
    <3> HIDE DEF hi
    <3> QED
        BY <2>2, <3>1, <3>2, <3>3
  <2>4. CASE j # count
    <3>1. i # count
        BY <1>2, <1>7, <2>1, <2>4
    <3>2. hi(i) = from + i * Mss /\ hi(j) = from + j * Mss
        BY <2>4, <3>1
    <3>3. i * Mss =< j * Mss /\ i * Mss \in Nat /\ j * Mss \in Nat
        BY <1>1, <1>7, <2>1, Monotone
    <3> HIDE DEF hi
    <3> QED
        BY <2>2, <3>2, <3>3
  <2> QED
      BY <2>3, <2>4
<1>8. Reach(f, from) = from + n
  <2>1. CASE count = 0
    <3>1. n = 0
        BY <1>1, <1>2, <2>1
    <3> QED
        BY <1>5, <2>1, <3>1 DEF Reach
  <2>2. CASE count # 0
    <3>1. count \in 1..count
        BY <1>2, <2>2
    <3> QED
        BY <1>5, <2>2, <3>1 DEF Reach
  <2> QED
      BY <2>1, <2>2
<1> HIDE DEF f
<1>9. Chain(f, from)
    BY <1>6, <1>7 DEF Chain
<1> QED
    BY <1>5, <1>8, <1>9 DEF f

LEMMA ExtendBounds ==
    ASSUME NEW queue \in Seq(Piece), NEW n \in Nat, NEW stream
    PROVE  /\ Extend(queue, n, stream) \in 0..n
           /\ Extend(queue, n, stream) # 0 => queue # <<>>
<1>1. CASE ~stream \/ queue = <<>>
    BY <1>1 DEF Extend
<1>2. CASE ~(~stream \/ queue = <<>>)
  <2> DEFINE room == Mss - (LastPiece(queue).hi - LastPiece(queue).lo)
  <2>1. Len(queue) \in 1..Len(queue)
      BY <1>2
  <2>2. room \in Int
    <3>1. LastPiece(queue).hi \in Nat /\ LastPiece(queue).lo \in Nat
        BY <2>1, PieceFields DEF LastPiece
    <3> QED
        BY <3>1, IkcpAssumption
  <2>3. Extend(queue, n, stream)
        = IF room =< 0 THEN 0 ELSE IF n < room THEN n ELSE room
      BY <1>2 DEF Extend
  <2> HIDE DEF room
  <2> QED
      BY <1>2, <2>2, <2>3
<1> QED
    BY <1>1, <1>2

LEMMA FillLastChain ==
    ASSUME NEW queue \in Seq(Piece), NEW a \in Nat, Chain(queue, a), NEW e \in Nat,
           e # 0 => queue # <<>>
    PROVE  LET q == FillLast(queue, e)
           IN  q \in Seq(Piece) /\ Chain(q, a) /\ Reach(q, a) = Reach(queue, a) + e
<1> DEFINE q == FillLast(queue, e)
           n == Len(queue)
<1>1. n \in Nat
    OBVIOUS
<1>2. (\A i \in 1..n : queue[i].lo \in Nat /\ queue[i].hi \in Nat) /\ Reach(queue, a) \in Nat
    BY PieceFields, ChainBounds
<1>3. CASE e = 0
    BY <1>2, <1>3 DEF FillLast
<1>4. CASE e # 0
  <2> DEFINE last == [lo |-> queue[n].lo, hi |-> queue[n].hi + e, frg |-> 0]
  <2>1. n \in 1..n /\ n # 0
      BY <1>4
  <2>2. last \in Piece
      BY <1>2, <2>1 DEF Piece
  <2>3. q = [i \in 1..n |-> IF i = n THEN last ELSE queue[i]]
    <3>3. q = [queue EXCEPT ![n] = last]
        BY <1>4 DEF FillLast, LastPiece
    <3>4. DOMAIN queue = 1..n /\ queue = [i \in 1..n |-> queue[i]]
        OBVIOUS
    <3> HIDE DEF n, q, last
    <3> QED
        BY <3>3, <3>4
  <2>4. /\ q \in Seq(Piece) /\ Len(q) = n /\ q[n] = last
        /\ \A i \in 1..n : i # n => q[i] = queue[i]
    <3>1. \A i \in 1..n : queue[i] \in Piece
        BY PieceFields
    <3>2. \A i \in 1..n : (IF i = n THEN last ELSE queue[i]) \in Piece
      <4> HIDE DEF last, n
      <4> QED
          BY <2>2, <3>1
    <3> HIDE DEF last, n, q
    <3>3. q \in Seq(Piece)
        BY <1>1, <2>3, <3>2
    <3>4. Len(q) = n
        BY <1>1, <2>3, <3>3
    <3> QED
        BY <2>1, <2>3, <3>3, <3>4
  <2>5. ASSUME NEW i \in 1..Len(q)
        PROVE  q[i].lo = (IF i = 1 THEN a ELSE q[i - 1].hi) /\ q[i].lo =< q[i].hi
    <3>1. i \in 1..n /\ (i # 1 => i - 1 \in 1..n /\ i - 1 # n)
        BY <1>1, <2>4
    <3>2. queue[i].lo = (IF i = 1 THEN a ELSE queue[i - 1].hi) /\ queue[i].lo =< queue[i].hi
        BY <3>1 DEF Chain
    <3>3. i # 1 => q[i - 1] = queue[i - 1]
        BY <2>4, <3>1
    <3>4. q[i].lo = queue[i].lo /\ queue[i].hi =< q[i].hi
      <4>1. CASE i = n
          BY <1>2, <2>4, <3>1, <4>1
      <4>2. CASE i # n
          BY <1>2, <2>4, <3>1, <4>2
      <4> QED
          BY <4>1, <4>2
    <3>5. queue[i].lo \in Nat /\ queue[i].hi \in Nat /\ q[i].hi \in Nat
      <4>1. q[i] \in Piece /\ q[i].hi \in Nat
          BY <2>4, PieceFields
      <4> QED
          BY <1>2, <3>1, <4>1
    <3> HIDE DEF q, n, last
    <3>6. q[i].lo =< q[i].hi
        BY <3>2, <3>4, <3>5
    <3> QED
        BY <3>2, <3>3, <3>4, <3>6
  <2>6. ASSUME NEW i \in 1..Len(q), NEW j \in 1..Len(q), i =< j
        PROVE  q[i].hi =< q[j].hi
    <3>1. i \in 1..n /\ j \in 1..n
        BY <2>4
    <3>2. queue[i].hi =< queue[j].hi
        BY <2>6, <3>1 DEF Chain
    <3>3. CASE i = n
      <4>1. j = n
          BY <1>1, <2>6, <3>1, <3>3
      <4> QED
          BY <1>2, <2>4, <2>1, <3>3, <4>1
    <3>4. CASE i # n /\ j = n
        BY <1>2, <2>4, <3>1, <3>2, <3>4
    <3>5. CASE i # n /\ j # n
        BY <2>4, <3>1, <3>2, <3>5
    <3> QED
        BY <3>3, <3>4, <3>5
  <2>7. Reach(q, a) = Reach(queue, a) + e
      BY <2>1, <2>4 DEF Reach
  <2>8. Chain(q, a)
    <3> HIDE DEF q
    <3> QED
        BY <2>5, <2>6 DEF Chain
  <2> QED
      BY <2>4, <2>7, <2>8
<1> QED
    BY <1>3, <1>4

LEMMA SendFields ==
    ASSUME NEW c, IsCB(c), NEW a \in Nat, Chain(c.snd_queue, a), NEW n \in Nat, NEW stream,
           NEW from, from = Reach(c.snd_queue, a)
    PROVE  LET d   == ikcp_send(c, from, n, stream)
               len == Accepted(c.snd_queue, n, stream)
           IN  /\ IsCB(d) /\ SameReceiver(c, d) /\ d.acklist = c.acklist
               /\ d.snd_buf = c.snd_buf /\ d.snd_nxt = c.snd_nxt
               /\ len \in 0..n
               /\ Chain(d.snd_queue, a) /\ Reach(d.snd_queue, a) = from + len
<1> DEFINE e == Extend(c.snd_queue, n, stream)
           len == Accepted(c.snd_queue, n, stream)
           q == FillLast(c.snd_queue, e)
           f == Fragments(from + e, len - e, stream)
           queue == q \o f
<1>1. c.snd_queue \in Seq(Piece)
    BY DEF IsCB
<1>2. e \in 0..n /\ (e # 0 => c.snd_queue # <<>>) /\ from \in Nat
    BY <1>1, ExtendBounds, ChainBounds
<1>3. len \in 0..n /\ len - e \in Nat
  <2>1. len = e \/ len = n
      BY DEF Accepted
  <2> HIDE DEF len, e
  <2> QED
      BY <1>2, <2>1
<1>4. q \in Seq(Piece) /\ Chain(q, a) /\ Reach(q, a) = from + e
  <2>1. e \in Nat
      BY <1>2
  <2> HIDE DEF e
  <2> QED
      BY <1>1, <1>2, <2>1, FillLastChain
<1>5. f \in Seq(Piece) /\ Chain(f, from + e) /\ Reach(f, from + e) = from + len
  <2> HIDE DEF e, len
  <2>1. from + e \in Nat /\ from + e + (len - e) = from + len
      BY <1>2, <1>3
  <2> QED
      BY <1>3, <2>1, FragmentsChain
<1>6. queue \in Seq(Piece) /\ Chain(queue, a) /\ Reach(queue, a) = from + len
  <2> HIDE DEF q, f, e, len
  <2> QED
      BY <1>4, <1>5, ChainConcat
<1>7. ikcp_send(c, from, n, stream)
      = [snd_queue |-> queue, snd_buf |-> c.snd_buf, snd_una |-> c.snd_una,
         snd_nxt |-> c.snd_nxt, rmt_wnd |-> c.rmt_wnd, rcv_nxt |-> c.rcv_nxt,
         rcv_buf |-> c.rcv_buf, rcv_queue |-> c.rcv_queue, acklist |-> c.acklist,
         tell |-> c.tell]
  <2>1. c = [snd_queue |-> c.snd_queue, snd_buf |-> c.snd_buf, snd_una |-> c.snd_una,
             snd_nxt |-> c.snd_nxt, rmt_wnd |-> c.rmt_wnd, rcv_nxt |-> c.rcv_nxt,
             rcv_buf |-> c.rcv_buf, rcv_queue |-> c.rcv_queue, acklist |-> c.acklist,
             tell |-> c.tell]
      BY DEF IsCB
  <2>2. ikcp_send(c, from, n, stream) = [c EXCEPT !.snd_queue = queue]
      BY <2>1 DEF ikcp_send
  <2> HIDE DEF queue
  <2> QED
      BY <2>1, <2>2
<1> HIDE DEF queue, len
<1>8. IsCB(ikcp_send(c, from, n, stream))
    BY <1>6, <1>7 DEF IsCB
<1>9. LET d == ikcp_send(c, from, n, stream)
      IN  /\ SameReceiver(c, d) /\ d.acklist = c.acklist
          /\ d.snd_buf = c.snd_buf /\ d.snd_nxt = c.snd_nxt /\ d.snd_queue = queue
    BY <1>7 DEF SameReceiver
<1> QED
    BY <1>3, <1>6, <1>8, <1>9 DEF len

-----------------------------------------------------------------------------
(* Part 2: the two ends.                                                   *)

Held(d, sn) == sn < d.rcv_nxt \/ sn \in DOMAIN d.rcv_buf

(* What c still holds is what it has numbered.                              *)
Sent(c, s) ==
    /\ c.snd_nxt = Len(s)
    /\ \A sn \in DOMAIN c.snd_buf : sn < Len(s) /\ c.snd_buf[sn] = s[sn + 1]

(* The pieces that d has are those that were numbered, each in its place.   *)
Start(d) == d.rcv_nxt - Len(d.rcv_queue)

Arrived(d, s) ==
    /\ d.rcv_nxt =< Len(s) /\ Len(d.rcv_queue) =< d.rcv_nxt
    /\ \A sn \in DOMAIN d.rcv_buf :
           d.rcv_nxt =< sn /\ sn < Len(s) /\ d.rcv_buf[sn] = s[sn + 1]
    /\ \A i \in 1..Len(d.rcv_queue) : d.rcv_queue[i] = s[Start(d) + i]
    /\ \A sn \in d.acklist : Held(d, sn)

(* What c has let go of, d holds. *)
Acked(c, d) == \A sn \in 0..(c.snd_nxt - 1) : sn \in DOMAIN c.snd_buf \/ Held(d, sn)

(* What is on its way. *)
DataSound(F, s) ==
    \A seg \in F : seg.cmd = "PUSH" => seg.sn < Len(s) /\ seg.data = s[seg.sn + 1]

AcksSound(B, d) ==
    \A seg \in B : seg.una =< d.rcv_nxt /\ (seg.cmd = "ACK" => Held(d, seg.sn))

(* The pieces numbered and those that wait are the bytes written, in a row. *)
Written(c, s, w) ==
    /\ Chain(s, 0) /\ Chain(c.snd_queue, Reach(s, 0))
    /\ Reach(c.snd_queue, Reach(s, 0)) = w

(* The bytes taken end where rcv_queue starts. *)
Taken(d, s, g) == g = IF Start(d) = 0 THEN 0 ELSE s[Start(d)].hi

Link(c, d, s, F, B, w, g) ==
    /\ IsCB(c) /\ IsCB(d) /\ s \in Seq(Piece) /\ F \subseteq Segment /\ B \subseteq Segment
    /\ Sent(c, s) /\ Arrived(d, s) /\ Acked(c, d)
    /\ DataSound(F, s) /\ AcksSound(B, d)
    /\ Written(c, s, w) /\ Taken(d, s, g)

-----------------------------------------------------------------------------
(* The receiver.                                                           *)

(* dd has got at least as far as d. *)
Ahead(d, dd) == d.rcv_nxt =< dd.rcv_nxt /\ \A sn \in DOMAIN d.rcv_buf : Held(dd, sn)

LEMMA CBFields ==
    ASSUME NEW c, IsCB(c)
    PROVE  /\ c.rcv_nxt \in Nat /\ c.snd_nxt \in Nat
           /\ Len(c.rcv_queue) \in Nat /\ Len(c.snd_queue) \in Nat
           /\ c.snd_queue \in Seq(Piece) /\ c.rcv_queue \in Seq(Piece)
           /\ DOMAIN c.snd_buf \subseteq Nat /\ DOMAIN c.rcv_buf \subseteq Nat
           /\ c.acklist \subseteq Nat
BY DEF IsCB, Holds

LEMMA AheadHolds ==
    ASSUME NEW d, IsCB(d), NEW dd, IsCB(dd), Ahead(d, dd), NEW sn \in Nat, Held(d, sn)
    PROVE  Held(dd, sn)
<1>1. d.rcv_nxt \in Nat /\ dd.rcv_nxt \in Nat
    BY CBFields
<1> QED
    BY <1>1 DEF Ahead, Held

LEMMA SegmentFields ==
    ASSUME NEW seg \in Segment
    PROVE  /\ seg.una \in Nat /\ seg.wnd \in Nat
           /\ seg.cmd \in {"PUSH", "ACK", "WASK", "WINS"}
           /\ seg.cmd = "PUSH" => seg.sn \in Nat /\ seg.data \in Piece
           /\ seg.cmd = "ACK" => seg.sn \in Nat
<1>1. CASE seg \in [cmd : {"PUSH"}, sn : Nat, una : Nat, wnd : Nat, data : Piece]
    BY <1>1
<1>2. CASE seg \in [cmd : {"ACK"}, sn : Nat, una : Nat, wnd : Nat]
    BY <1>2
<1>3. CASE seg \in [cmd : {"WASK", "WINS"}, una : Nat, wnd : Nat]
    BY <1>3
<1> QED
    BY <1>1, <1>2, <1>3 DEF Segment

(* A receiver that got further disturbs nothing of the rest of the link.    *)
LEMMA AheadLink ==
    ASSUME NEW c, NEW d, NEW s, NEW F, NEW B, NEW w, NEW g, Link(c, d, s, F, B, w, g),
           NEW dd, IsCB(dd), Ahead(d, dd), Arrived(dd, s), NEW gg, Taken(dd, s, gg)
    PROVE  Link(c, dd, s, F, B, w, gg)
<1>1. /\ IsCB(c) /\ IsCB(d) /\ B \subseteq Segment /\ Acked(c, d) /\ AcksSound(B, d)
    BY DEF Link
<1>2. Acked(c, dd)
  <2>1. ASSUME NEW sn \in 0..(c.snd_nxt - 1), sn \notin DOMAIN c.snd_buf
        PROVE  Held(dd, sn)
    <3>1. sn \in Nat /\ Held(d, sn)
        BY <1>1, <2>1, CBFields DEF Acked
    <3> QED
        BY <1>1, <3>1, AheadHolds
  <2> QED
      BY <2>1 DEF Acked
<1>3. AcksSound(B, dd)
  <2> SUFFICES ASSUME NEW seg \in B
               PROVE  seg.una =< dd.rcv_nxt /\ (seg.cmd = "ACK" => Held(dd, seg.sn))
      BY DEF AcksSound
  <2>1. seg \in Segment /\ seg.una =< d.rcv_nxt /\ (seg.cmd = "ACK" => Held(d, seg.sn))
      BY <1>1 DEF AcksSound
  <2>2. seg.una \in Nat /\ d.rcv_nxt \in Nat /\ dd.rcv_nxt \in Nat
        /\ (seg.cmd = "ACK" => seg.sn \in Nat)
      BY <1>1, <2>1, CBFields, SegmentFields
  <2>3. seg.una =< dd.rcv_nxt
      BY <2>1, <2>2 DEF Ahead
  <2>4. seg.cmd = "ACK" => Held(dd, seg.sn)
      BY <1>1, <2>1, <2>2, AheadHolds
  <2> QED
      BY <2>3, <2>4
<1> QED
    BY <1>2, <1>3 DEF Link

(* One that has the same pieces. *)
LEMMA SameArrived ==
    ASSUME NEW d, IsCB(d), NEW s, Arrived(d, s), NEW dd, IsCB(dd), SameReceiver(d, dd),
           dd.acklist \subseteq d.acklist
    PROVE  Arrived(dd, s) /\ Ahead(d, dd) /\ Start(dd) = Start(d)
<1>1. d.rcv_nxt \in Nat
    BY CBFields
<1> QED
    BY <1>1 DEF SameReceiver, Arrived, Ahead, Held, Start

LEMMA ArrangeArrived ==
    ASSUME NEW d, IsCB(d), NEW s \in Seq(Piece), Arrived(d, s)
    PROVE  LET dd == Arrange(d)
           IN  Arrived(dd, s) /\ Ahead(d, dd) /\ Start(dd) = Start(d)
<1> DEFINE dd == Arrange(d)
           n == Ready(d)
           old == Len(d.rcv_queue)
<1>1. /\ n \in Nat /\ old \in Nat /\ d.rcv_nxt \in Nat /\ Len(s) \in Nat
      /\ DOMAIN d.rcv_buf \subseteq Nat /\ d.acklist \subseteq Nat
    BY ReadyRuns, CBFields
<1>2. \A k \in 0..(n - 1) : d.rcv_nxt + k \in DOMAIN d.rcv_buf
    BY ReadyRuns
<1>3. /\ IsCB(dd) /\ dd.acklist = d.acklist /\ dd.rcv_nxt = d.rcv_nxt + n
      /\ DOMAIN dd.rcv_buf = DOMAIN d.rcv_buf \ (d.rcv_nxt..(d.rcv_nxt + n - 1))
      /\ \A sn \in DOMAIN dd.rcv_buf : dd.rcv_buf[sn] = d.rcv_buf[sn]
      /\ Len(dd.rcv_queue) = old + n
      /\ \A i \in 1..old : dd.rcv_queue[i] = d.rcv_queue[i]
      /\ \A i \in 1..n : dd.rcv_queue[old + i] = d.rcv_buf[d.rcv_nxt + i - 1]
    BY ArrangeFields
<1> HIDE DEF dd, n, old
<1>4. /\ d.rcv_nxt =< Len(s) /\ old =< d.rcv_nxt
      /\ \A sn \in DOMAIN d.rcv_buf :
             d.rcv_nxt =< sn /\ sn < Len(s) /\ d.rcv_buf[sn] = s[sn + 1]
      /\ \A i \in 1..old : d.rcv_queue[i] = s[Start(d) + i]
      /\ \A sn \in d.acklist : Held(d, sn)
    BY DEF Arrived, old
<1>5. Start(dd) = Start(d) /\ Start(d) = d.rcv_nxt - old
    BY <1>1, <1>3 DEF Start, old
<1>6. dd.rcv_nxt =< Len(s)
  <2>1. CASE n = 0
      BY <1>1, <1>3, <1>4, <2>1
  <2>2. CASE n # 0
    <3>1. n - 1 \in 0..(n - 1)
        BY <1>1, <2>2
    <3>2. d.rcv_nxt + (n - 1) < Len(s)
        BY <1>2, <1>4, <3>1
    <3> QED
        BY <1>1, <1>3, <3>2
  <2> QED
      BY <2>1, <2>2
<1>7. Len(dd.rcv_queue) =< dd.rcv_nxt
    BY <1>1, <1>3, <1>4
<1>8. ASSUME NEW sn \in DOMAIN dd.rcv_buf
      PROVE  dd.rcv_nxt =< sn /\ sn < Len(s) /\ dd.rcv_buf[sn] = s[sn + 1]
  <2>1. sn \in DOMAIN d.rcv_buf /\ sn \notin d.rcv_nxt..(d.rcv_nxt + n - 1) /\ sn \in Nat
      BY <1>1, <1>3
  <2>2. d.rcv_nxt =< sn
      BY <1>4, <2>1
  <2> QED
      BY <1>1, <1>3, <1>4, <2>1, <2>2
<1>9. ASSUME NEW i \in 1..Len(dd.rcv_queue)
      PROVE  dd.rcv_queue[i] = s[Start(d) + i]
  <2>1. CASE i =< old
    <3>1. i \in 1..old
        BY <1>1, <1>3, <2>1
    <3> QED
        BY <1>3, <1>4, <3>1
  <2>2. CASE i > old
    <3>1. i - old \in 1..n /\ old + (i - old) = i /\ i - old - 1 \in 0..(n - 1)
          /\ d.rcv_nxt + (i - old - 1) = d.rcv_nxt + (i - old) - 1
          /\ d.rcv_nxt + (i - old) - 1 + 1 = Start(d) + i
        BY <1>1, <1>3, <1>5, <2>2
    <3>2. dd.rcv_queue[i] = d.rcv_buf[d.rcv_nxt + (i - old) - 1]
        BY <1>3, <3>1
    <3>3. d.rcv_nxt + (i - old) - 1 \in DOMAIN d.rcv_buf
        BY <1>2, <3>1
    <3> QED
        BY <1>4, <3>1, <3>2, <3>3
  <2> QED
      BY <1>1, <2>1, <2>2
<1>10. ASSUME NEW sn \in Nat, Held(d, sn)
       PROVE  Held(dd, sn)
    BY <1>1, <1>3, <1>10 DEF Held
<1>11. Ahead(d, dd)
  <2>1. \A sn \in DOMAIN d.rcv_buf : Held(dd, sn)
      BY <1>1, <1>10 DEF Held
  <2> QED
      BY <1>1, <1>3, <2>1 DEF Ahead
<1>12. \A sn \in dd.acklist : Held(dd, sn)
    BY <1>1, <1>3, <1>4, <1>10
<1>13. Arrived(dd, s)
    BY <1>5, <1>6, <1>7, <1>8, <1>9, <1>12 DEF Arrived
<1> QED
    BY <1>5, <1>11, <1>13 DEF dd

LEMMA AheadTransitive ==
    ASSUME NEW a, IsCB(a), NEW b, IsCB(b), NEW d, IsCB(d), Ahead(a, b), Ahead(b, d)
    PROVE  Ahead(a, d)
<1>1. a.rcv_nxt \in Nat /\ b.rcv_nxt \in Nat /\ d.rcv_nxt \in Nat
      /\ DOMAIN a.rcv_buf \subseteq Nat
    BY CBFields
<1>2. a.rcv_nxt =< d.rcv_nxt
    BY <1>1 DEF Ahead
<1>3. \A sn \in DOMAIN a.rcv_buf : Held(d, sn)
    BY <1>1, AheadHolds DEF Ahead
<1> QED
    BY <1>2, <1>3 DEF Ahead

(* A data segment that says the truth. *)
LEMMA PushArrived ==
    ASSUME NEW d, IsCB(d), NEW s \in Seq(Piece), Arrived(d, s),
           NEW seg, seg.sn \in Nat, seg.data \in Piece,
           seg.sn < Len(s), seg.data = s[seg.sn + 1]
    PROVE  LET dd == InputPush(d, seg)
           IN  /\ IsCB(dd) /\ SameSender(d, dd)
               /\ Arrived(dd, s) /\ Ahead(d, dd) /\ Start(dd) = Start(d)
<1> DEFINE dd == InputPush(d, seg)
           sn == seg.sn
<1>1. d.rcv_nxt \in Nat /\ DOMAIN d.rcv_buf \subseteq Nat /\ Len(s) \in Nat
      /\ d.acklist \subseteq Nat
    BY CBFields
<1>2. CASE dd = d
  <2>1. Ahead(d, d)
      BY <1>1 DEF Ahead, Held
  <2> QED
      BY <1>2, <2>1 DEF SameSender
<1>3. CASE /\ IsCB(dd) /\ SameSender(d, dd) /\ SameReceiver(d, dd)
           /\ sn < d.rcv_nxt /\ dd.acklist = d.acklist \cup {sn}
  <2> HIDE DEF dd
  <2>1. Ahead(d, dd) /\ Start(dd) = Start(d)
      BY <1>1, <1>3 DEF SameReceiver, Ahead, Held, Start
  <2>2. \A k \in dd.acklist : Held(dd, k)
      BY <1>3 DEF Arrived, Held, SameReceiver
  <2>3. Arrived(dd, s)
      BY <1>3, <2>1, <2>2 DEF Arrived, SameReceiver
  <2> QED
      BY <1>3, <2>1, <2>3 DEF dd
<1>4. CASE d.rcv_nxt =< sn /\ \E b : Placed(d, b, sn, seg.data) /\ dd = Arrange(b)
  <2>1. PICK b : Placed(d, b, sn, seg.data) /\ dd = Arrange(b)
      BY <1>4
  <2>2. /\ IsCB(b) /\ SameSender(d, b) /\ b.acklist = d.acklist \cup {sn}
        /\ b.rcv_nxt = d.rcv_nxt /\ b.rcv_queue = d.rcv_queue
        /\ DOMAIN b.rcv_buf = DOMAIN d.rcv_buf \cup {sn}
        /\ \A k \in DOMAIN d.rcv_buf : b.rcv_buf[k] = d.rcv_buf[k]
        /\ sn \in DOMAIN d.rcv_buf \/ b.rcv_buf[sn] = seg.data
      BY <2>1 DEF Placed
  <2>3. Start(b) = Start(d) /\ Ahead(d, b)
      BY <1>1, <2>2 DEF Start, Ahead, Held
  <2>4. \A k \in DOMAIN b.rcv_buf : d.rcv_nxt =< k /\ k < Len(s) /\ b.rcv_buf[k] = s[k + 1]
      BY <1>4, <2>2 DEF Arrived
  <2>5. \A k \in b.acklist : Held(b, k)
      BY <2>2 DEF Arrived, Held
  <2>6. Arrived(b, s)
      BY <2>2, <2>3, <2>4, <2>5 DEF Arrived
  <2>7. IsCB(dd) /\ SameSender(b, dd)
      BY <2>1, <2>2, ArrangeFields
  <2>8. Arrived(dd, s) /\ Ahead(b, dd) /\ Start(dd) = Start(b)
      BY <2>1, <2>2, <2>6, ArrangeArrived
  <2> HIDE DEF dd
  <2>9. Ahead(d, dd)
      BY <2>2, <2>3, <2>7, <2>8, AheadTransitive
  <2>10. SameSender(d, dd)
      BY <2>2, <2>7 DEF SameSender
  <2> QED
      BY <2>3, <2>7, <2>8, <2>9, <2>10 DEF dd
<1> QED
    BY <1>2, <1>3, <1>4, InputPushFields

-----------------------------------------------------------------------------
(* One segment goes in.                                                    *)

LEMMA PushSender ==
    ASSUME NEW c, IsCB(c), NEW seg, seg.sn \in Nat, seg.data \in Piece
    PROVE  IsCB(InputPush(c, seg)) /\ SameSender(c, InputPush(c, seg))
<1> DEFINE d == InputPush(c, seg)
<1>1. CASE d = c
    BY <1>1 DEF SameSender
<1>2. CASE IsCB(d) /\ SameSender(c, d)
    BY <1>2
<1>3. CASE \E b : Placed(c, b, seg.sn, seg.data) /\ d = Arrange(b)
  <2>1. PICK b : Placed(c, b, seg.sn, seg.data) /\ d = Arrange(b)
      BY <1>3
  <2>2. IsCB(b) /\ SameSender(c, b)
      BY <2>1 DEF Placed
  <2>3. IsCB(d) /\ SameSender(b, d)
      BY <2>1, <2>2, ArrangeFields
  <2> HIDE DEF d
  <2> QED
      BY <2>2, <2>3 DEF SameSender, d
<1> QED
    BY <1>1, <1>2, <1>3, InputPushFields

(* The sending side forgets at most what the segment acknowledges; the      *)
(* receiving side takes the piece, if there is one.                         *)
LEMMA InputFields ==
    ASSUME NEW c, IsCB(c), NEW seg \in Segment
    PROVE  LET d == ikcp_input(c, seg)
           IN  /\ IsCB(d) /\ d.snd_queue = c.snd_queue /\ d.snd_nxt = c.snd_nxt
               /\ \A k \in DOMAIN d.snd_buf :
                      k \in DOMAIN c.snd_buf /\ d.snd_buf[k] = c.snd_buf[k]
               /\ \A k \in DOMAIN c.snd_buf : \/ k \in DOMAIN d.snd_buf
                                              \/ k < seg.una
                                              \/ seg.cmd = "ACK" /\ k = seg.sn
               /\ \E h : /\ IsCB(h) /\ SameReceiver(c, h) /\ h.acklist = c.acklist
                         /\ IF seg.cmd = "PUSH" THEN d = InputPush(h, seg)
                            ELSE SameReceiver(h, d) /\ d.acklist = h.acklist
<1> DEFINE d == ikcp_input(c, seg)
           h == ikcp_shrink_buf(ikcp_parse_una([c EXCEPT !.rmt_wnd = seg.wnd], seg.una))
           Forgets(x) == /\ x.snd_queue = c.snd_queue /\ x.snd_nxt = c.snd_nxt
                         /\ \A k \in DOMAIN x.snd_buf :
                                k \in DOMAIN c.snd_buf /\ x.snd_buf[k] = c.snd_buf[k]
                         /\ \A k \in DOMAIN c.snd_buf : \/ k \in DOMAIN x.snd_buf
                                                        \/ k < seg.una
                                                        \/ seg.cmd = "ACK" /\ k = seg.sn
<1>1. /\ seg.una \in Nat /\ seg.wnd \in Nat
      /\ seg.cmd \in {"PUSH", "ACK", "WASK", "WINS"}
      /\ seg.cmd = "PUSH" => seg.sn \in Nat /\ seg.data \in Piece
      /\ seg.cmd = "ACK" => seg.sn \in Nat
    BY SegmentFields
<1>2. /\ IsCB(h) /\ SameReceiver(c, h) /\ h.acklist = c.acklist
      /\ h.snd_queue = c.snd_queue /\ h.snd_nxt = c.snd_nxt
      /\ DOMAIN h.snd_buf = {sn \in DOMAIN c.snd_buf : sn >= seg.una}
      /\ \A sn \in DOMAIN h.snd_buf : h.snd_buf[sn] = c.snd_buf[sn]
  <2> HIDE DEF h
  <2> QED
      BY <1>1, HeardFields DEF h
<1>3. d = CASE seg.cmd = "ACK"  -> ikcp_shrink_buf(ikcp_parse_ack(h, seg.sn))
            [] seg.cmd = "PUSH" -> InputPush(h, seg)
            [] seg.cmd = "WASK" -> [h EXCEPT !.tell = TRUE]
            [] seg.cmd = "WINS" -> h
    BY DEF ikcp_input
<1> HIDE DEF h, d
<1>4. DOMAIN c.snd_buf \subseteq Nat
    BY CBFields
<1>5. Forgets(h)
    BY <1>1, <1>2, <1>4
<1>6. CASE seg.cmd = "ACK"
  <2> DEFINE a == ikcp_parse_ack(h, seg.sn)
  <2>1. /\ IsCB(a) /\ SameReceiver(h, a) /\ a.acklist = h.acklist
        /\ a.snd_queue = h.snd_queue /\ a.snd_nxt = h.snd_nxt
        /\ DOMAIN a.snd_buf \subseteq DOMAIN h.snd_buf
        /\ DOMAIN h.snd_buf \subseteq DOMAIN a.snd_buf \cup {seg.sn}
        /\ \A k \in DOMAIN a.snd_buf : a.snd_buf[k] = h.snd_buf[k]
      BY <1>1, <1>2, <1>6, ParseAckFields
  <2> HIDE DEF a
  <2>2. d = ikcp_shrink_buf(a)
      BY <1>3, <1>6 DEF a
  <2>3. /\ IsCB(d) /\ SameReceiver(a, d) /\ d.acklist = a.acklist
        /\ d.snd_queue = a.snd_queue /\ d.snd_nxt = a.snd_nxt /\ d.snd_buf = a.snd_buf
      BY <2>1, <2>2, ShrinkFields
  <2>4. Forgets(d)
      BY <1>5, <1>6, <2>1, <2>3
  <2>5. SameReceiver(h, d) /\ d.acklist = h.acklist
      BY <2>1, <2>3 DEF SameReceiver
  <2> QED
      BY <1>2, <1>6, <2>3, <2>4, <2>5 DEF d
<1>7. CASE seg.cmd = "PUSH"
  <2>1. d = InputPush(h, seg)
      BY <1>3, <1>7
  <2>2. IsCB(d) /\ SameSender(h, d)
      BY <1>1, <1>2, <1>7, <2>1, PushSender
  <2>3. Forgets(d)
      BY <1>5, <2>2 DEF SameSender
  <2> QED
      BY <1>2, <1>7, <2>1, <2>2, <2>3 DEF d
<1>8. CASE seg.cmd = "WASK"
  <2>1. d = [h EXCEPT !.tell = TRUE]
      BY <1>3, <1>8
  <2>2. IsCB(d) /\ SameSender(h, d) /\ SameReceiver(h, d) /\ d.acklist = h.acklist
      BY <1>2, <2>1, SetTell
  <2>3. Forgets(d)
      BY <1>5, <2>2 DEF SameSender
  <2> QED
      BY <1>2, <1>8, <2>2, <2>3 DEF d
<1>9. CASE seg.cmd = "WINS"
  <2>1. d = h
      BY <1>3, <1>9
  <2>2. SameReceiver(h, d) /\ d.acklist = h.acklist
      BY <2>1 DEF SameReceiver
  <2> QED
      BY <1>2, <1>5, <1>9, <2>1, <2>2 DEF d
<1> QED
    BY <1>1, <1>6, <1>7, <1>8, <1>9

LEMMA ReceiverInput ==
    ASSUME NEW c, NEW d, NEW s, NEW F, NEW B, NEW w, NEW g, Link(c, d, s, F, B, w, g),
           NEW seg \in F
    PROVE  Link(c, ikcp_input(d, seg), s, F, B, w, g)
<1> DEFINE dd == ikcp_input(d, seg)
<1>1. /\ IsCB(d) /\ s \in Seq(Piece) /\ seg \in Segment /\ Arrived(d, s) /\ DataSound(F, s)
      /\ Taken(d, s, g)
    BY DEF Link
<1>2. IsCB(dd)
    BY <1>1, InputFields
<1>3. PICK h : /\ IsCB(h) /\ SameReceiver(d, h) /\ h.acklist = d.acklist
               /\ IF seg.cmd = "PUSH" THEN dd = InputPush(h, seg)
                  ELSE SameReceiver(h, dd) /\ dd.acklist = h.acklist
    BY <1>1, InputFields
<1> HIDE DEF dd
<1>4. Arrived(h, s) /\ Ahead(d, h) /\ Start(h) = Start(d)
    BY <1>1, <1>3, SameArrived
<1>5. Arrived(dd, s) /\ Ahead(h, dd) /\ Start(dd) = Start(h)
  <2>1. CASE seg.cmd = "PUSH"
    <3>1. /\ seg.sn \in Nat /\ seg.data \in Piece
          /\ seg.sn < Len(s) /\ seg.data = s[seg.sn + 1]
        BY <1>1, <2>1, SegmentFields DEF DataSound
    <3> QED
        BY <1>1, <1>3, <1>4, <2>1, <3>1, PushArrived
  <2>2. CASE seg.cmd # "PUSH"
    <3>1. SameReceiver(h, dd) /\ dd.acklist \subseteq h.acklist
        BY <1>3, <2>2
    <3> QED
        BY <1>2, <1>3, <1>4, <3>1, SameArrived
  <2> QED
      BY <2>1, <2>2
<1>6. Ahead(d, dd)
    BY <1>1, <1>2, <1>3, <1>4, <1>5, AheadTransitive
<1>7. Taken(dd, s, g)
    BY <1>1, <1>4, <1>5 DEF Taken
<1> QED
    BY <1>2, <1>5, <1>6, <1>7, AheadLink DEF dd

LEMMA SenderInput ==
    ASSUME NEW c, NEW d, NEW s, NEW F, NEW B, NEW w, NEW g, Link(c, d, s, F, B, w, g),
           NEW seg \in B
    PROVE  Link(ikcp_input(c, seg), d, s, F, B, w, g)
<1> DEFINE cc == ikcp_input(c, seg)
<1>1. /\ IsCB(c) /\ IsCB(d) /\ seg \in Segment /\ Sent(c, s) /\ Acked(c, d) /\ AcksSound(B, d)
      /\ Written(c, s, w)
    BY DEF Link
<1>2. /\ IsCB(cc) /\ cc.snd_queue = c.snd_queue /\ cc.snd_nxt = c.snd_nxt
      /\ \A k \in DOMAIN cc.snd_buf : k \in DOMAIN c.snd_buf /\ cc.snd_buf[k] = c.snd_buf[k]
      /\ \A k \in DOMAIN c.snd_buf : \/ k \in DOMAIN cc.snd_buf
                                     \/ k < seg.una
                                     \/ seg.cmd = "ACK" /\ k = seg.sn
    BY <1>1, InputFields
<1> HIDE DEF cc
<1>3. Sent(cc, s) /\ Written(cc, s, w)
    BY <1>1, <1>2 DEF Sent, Written
<1>4. Acked(cc, d)
  <2> SUFFICES ASSUME NEW k \in 0..(cc.snd_nxt - 1), k \notin DOMAIN cc.snd_buf
               PROVE  Held(d, k)
      BY DEF Acked
  <2>1. k \in DOMAIN c.snd_buf \/ Held(d, k)
      BY <1>1, <1>2 DEF Acked
  <2>2. CASE k < seg.una
    <3>1. seg.una =< d.rcv_nxt /\ seg.una \in Nat /\ d.rcv_nxt \in Nat /\ k \in Nat
        BY <1>1, <1>2, SegmentFields, CBFields DEF AcksSound
    <3> QED
        BY <2>2, <3>1 DEF Held
  <2>3. CASE seg.cmd = "ACK" /\ k = seg.sn
      BY <1>1, <2>3 DEF AcksSound
  <2> QED
      BY <1>2, <2>1, <2>2, <2>3
<1> QED
    BY <1>2, <1>3, <1>4 DEF Link, cc

(* The network drops. *)
LEMMA LessOnTheWay ==
    ASSUME NEW c, NEW d, NEW s, NEW F, NEW B, NEW w, NEW g, Link(c, d, s, F, B, w, g),
           NEW FF, FF \subseteq F, NEW BB, BB \subseteq B
    PROVE  Link(c, d, s, FF, BB, w, g)
BY DEF Link, DataSound, AcksSound

-----------------------------------------------------------------------------
(* What the other operations do to a direction.                            *)

LEMMA SenderSame ==
    ASSUME NEW c, NEW d, NEW s, NEW F, NEW B, NEW w, NEW g, Link(c, d, s, F, B, w, g),
           NEW cc, IsCB(cc), SameSender(c, cc)
    PROVE  Link(cc, d, s, F, B, w, g)
BY DEF Link, SameSender, Sent, Acked, Written

LEMMA ReceiverSame ==
    ASSUME NEW c, NEW d, NEW s, NEW F, NEW B, NEW w, NEW g, Link(c, d, s, F, B, w, g),
           NEW dd, IsCB(dd), SameReceiver(d, dd), dd.acklist \subseteq d.acklist
    PROVE  Link(c, dd, s, F, B, w, g)
<1>1. IsCB(d) /\ Arrived(d, s) /\ Taken(d, s, g)
    BY DEF Link
<1>2. Arrived(dd, s) /\ Ahead(d, dd) /\ Start(dd) = Start(d)
    BY <1>1, SameArrived
<1>3. Taken(dd, s, g)
    BY <1>1, <1>2 DEF Taken
<1> QED
    BY <1>2, <1>3, AheadLink

LEMMA SenderSend ==
    ASSUME NEW c, NEW d, NEW s, NEW F, NEW B, NEW w, NEW g, Link(c, d, s, F, B, w, g),
           NEW n \in Nat, NEW stream
    PROVE  LET len == Accepted(c.snd_queue, n, stream)
               cc  == ikcp_send(c, w, n, stream)
           IN  /\ len \in Nat /\ w \in Nat
               /\ IsCB(cc) /\ SameReceiver(c, cc) /\ cc.acklist = c.acklist
               /\ Link(cc, d, s, F, B, w + len, g)
<1> DEFINE a == Reach(s, 0)
           cc == ikcp_send(c, w, n, stream)
           len == Accepted(c.snd_queue, n, stream)
<1>1. IsCB(c) /\ s \in Seq(Piece) /\ Sent(c, s) /\ Acked(c, d) /\ Written(c, s, w)
    BY DEF Link
<1>2. Chain(s, 0) /\ Chain(c.snd_queue, a) /\ Reach(c.snd_queue, a) = w
    BY <1>1 DEF Written
<1>3. a \in Nat
    BY <1>1, <1>2, ChainBounds
<1>4. w \in Nat
    BY <1>1, <1>2, <1>3, ChainBounds, CBFields
<1>5. /\ IsCB(cc) /\ cc.snd_buf = c.snd_buf /\ cc.snd_nxt = c.snd_nxt
      /\ len \in 0..n /\ Chain(cc.snd_queue, a) /\ Reach(cc.snd_queue, a) = w + len
      /\ SameReceiver(c, cc) /\ cc.acklist = c.acklist
  <2>1. IsCB(c) /\ w = Reach(c.snd_queue, a)
      BY <1>1, <1>2
  <2> HIDE DEF a
  <2>2. /\ IsCB(cc) /\ cc.snd_buf = c.snd_buf /\ cc.snd_nxt = c.snd_nxt
      BY <2>1, <1>2, <1>3, SendFields
  <2>3. len \in 0..n
      BY <2>1, <1>2, <1>3, SendFields
  <2>4. Chain(cc.snd_queue, a)
      BY <2>1, <1>2, <1>3, SendFields
  <2>5. Reach(cc.snd_queue, a) = w + len
      BY <2>1, <1>2, <1>3, SendFields
  <2>6. SameReceiver(c, cc)
      BY <2>1, <1>2, <1>3, SendFields
  <2>7. cc.acklist = c.acklist
      BY <2>1, <1>2, <1>3, SendFields
  <2> QED
      BY <2>2, <2>3, <2>4, <2>5, <2>6, <2>7
<1> HIDE DEF cc, len
<1>6. Sent(cc, s) /\ Acked(cc, d) /\ Written(cc, s, w + len)
    BY <1>1, <1>2, <1>5 DEF Sent, Acked, Written
<1>7. Link(cc, d, s, F, B, w + len, g)
    BY <1>5, <1>6 DEF Link
<1>8. len \in Nat
    BY <1>5
<1> QED
    BY <1>4, <1>5, <1>7, <1>8 DEF cc, len

LEMMA ReceiverFlush ==
    ASSUME NEW c, NEW d, NEW s, NEW F, NEW B, NEW w, NEW g, Link(c, d, s, F, B, w, g),
           NEW BB, BB \subseteq B \cup Output(d)
    PROVE  Link(c, ikcp_flush(d), s, F, BB, w, g)
<1> DEFINE dd == ikcp_flush(d)
<1>1. IsCB(d) /\ B \subseteq Segment /\ AcksSound(B, d) /\ Arrived(d, s)
    BY DEF Link
<1>2. IsCB(dd) /\ SameReceiver(d, dd) /\ dd.acklist = {}
    BY <1>1, FlushFields
<1> HIDE DEF dd
<1>3. Link(c, dd, s, F, B, w, g)
    BY <1>2, ReceiverSame
<1>4. \A seg \in BB : seg \in Segment
    BY <1>1, OutputFields
<1>5. ASSUME NEW seg \in BB
      PROVE  seg.una =< dd.rcv_nxt /\ (seg.cmd = "ACK" => Held(dd, seg.sn))
  <2>1. CASE seg \in B
      BY <1>3, <2>1 DEF Link, AcksSound
  <2>2. CASE seg \in Output(d)
    <3>1. seg.una = d.rcv_nxt /\ (seg.cmd = "ACK" => seg.sn \in d.acklist)
        BY <1>1, <2>2, OutputFields
    <3>2. d.rcv_nxt \in Nat /\ dd.rcv_nxt = d.rcv_nxt
        BY <1>1, <1>2, CBFields DEF SameReceiver
    <3>3. seg.cmd = "ACK" => Held(d, seg.sn)
        BY <1>1, <3>1 DEF Arrived
    <3> QED
        BY <1>2, <3>1, <3>2, <3>3 DEF Held, SameReceiver
  <2> QED
      BY <2>1, <2>2
<1>6. AcksSound(BB, dd)
    BY <1>5 DEF AcksSound
<1> QED
    BY <1>3, <1>4, <1>6 DEF Link, dd

LEMMA SenderFlush ==
    ASSUME NEW c, NEW d, NEW s, NEW F, NEW B, NEW w, NEW g, Link(c, d, s, F, B, w, g),
           NEW FF, FF \subseteq F \cup Output(c)
    PROVE  Link(ikcp_flush(c), d, s \o SubSeq(c.snd_queue, 1, Numbered(c)), FF, B, w, g)
<1> DEFINE cc == ikcp_flush(c)
           n == Numbered(c)
           new == SubSeq(c.snd_queue, 1, n)
           ss == s \o new
<1>1. /\ IsCB(c) /\ IsCB(d) /\ s \in Seq(Piece) /\ F \subseteq Segment
      /\ Sent(c, s) /\ Arrived(d, s) /\ Acked(c, d) /\ DataSound(F, s)
      /\ Written(c, s, w) /\ Taken(d, s, g)
    BY DEF Link
<1>2. n \in 0..Len(c.snd_queue) /\ n \in Nat /\ Len(s) \in Nat /\ c.snd_nxt = Len(s)
      /\ c.snd_queue \in Seq(Piece)
  <2>1. Len(c.snd_queue) \in Nat /\ c.snd_queue \in Seq(Piece)
      BY <1>1, CBFields
  <2>2. n \in 0..Len(c.snd_queue)
      BY <1>1, NumberedBounds
  <2> HIDE DEF n
  <2> QED
      BY <1>1, <2>1, <2>2 DEF Sent
<1>3. new \in Seq(Piece) /\ Len(new) = n /\ \A i \in 1..n : new[i] = c.snd_queue[i]
  <2> HIDE DEF n
  <2> QED
      BY <1>2, CutFields
<1>4. /\ IsCB(cc) /\ cc.snd_queue = SubSeq(c.snd_queue, n + 1, Len(c.snd_queue))
      /\ cc.snd_nxt = c.snd_nxt + n
      /\ DOMAIN cc.snd_buf = DOMAIN c.snd_buf \cup (c.snd_nxt..(c.snd_nxt + n - 1))
      /\ \A sn \in DOMAIN c.snd_buf : cc.snd_buf[sn] = c.snd_buf[sn]
      /\ \A sn \in DOMAIN cc.snd_buf :
             sn \in DOMAIN c.snd_buf \/ cc.snd_buf[sn] = c.snd_queue[sn - c.snd_nxt + 1]
    BY <1>1, FlushFields
<1> HIDE DEF cc, n, new
<1>5. /\ ss \in Seq(Piece) /\ Len(ss) = Len(s) + n
      /\ \A i \in 1..Len(s) : ss[i] = s[i]
      /\ \A i \in 1..n : ss[Len(s) + i] = c.snd_queue[i]
  <2>1. ss \in Seq(Piece) /\ Len(ss) = Len(s) + Len(new)
      BY <1>1, <1>3, ConcatFields
  <2>2. \A i \in 1..Len(s) : ss[i] = s[i]
      BY <1>1, <1>3, ConcatFields
  <2>3. \A i \in 1..Len(new) : ss[Len(s) + i] = new[i]
      BY <1>1, <1>3, ConcatFields
  <2> HIDE DEF ss
  <2> QED
      BY <1>3, <2>1, <2>2, <2>3
<1>6. Written(cc, ss, w)
  <2>1. Chain(s, 0) /\ Chain(c.snd_queue, Reach(s, 0)) /\ Reach(c.snd_queue, Reach(s, 0)) = w
      BY <1>1 DEF Written
  <2>2. Reach(s, 0) \in Nat
      BY <1>1, <2>1, ChainBounds
  <2>3. /\ Chain(new, Reach(s, 0)) /\ Chain(cc.snd_queue, Reach(new, Reach(s, 0)))
        /\ Reach(cc.snd_queue, Reach(new, Reach(s, 0))) = w
      BY <1>2, <1>4, <2>1, <2>2, ChainCut DEF new
  <2>4. Chain(ss, 0) /\ Reach(ss, 0) = Reach(new, Reach(s, 0))
      BY <1>1, <1>3, <2>1, <2>3, ChainConcat
  <2> QED
      BY <2>3, <2>4 DEF Written
<1> HIDE DEF ss
<1>7. Sent(cc, ss)
  <2>1. cc.snd_nxt = Len(ss)
      BY <1>2, <1>4, <1>5
  <2>2. ASSUME NEW sn \in DOMAIN cc.snd_buf
        PROVE  sn < Len(ss) /\ cc.snd_buf[sn] = ss[sn + 1]
    <3>1. CASE sn \in DOMAIN c.snd_buf
      <4>1. sn < Len(s) /\ c.snd_buf[sn] = s[sn + 1] /\ sn \in Nat
          BY <1>1, <3>1, CBFields DEF Sent
      <4>2. sn + 1 \in 1..Len(s) /\ sn < Len(ss)
          BY <1>2, <1>5, <4>1
      <4> QED
          BY <1>4, <1>5, <3>1, <4>1, <4>2
    <3>2. CASE sn \notin DOMAIN c.snd_buf
      <4>1. sn \in c.snd_nxt..(c.snd_nxt + n - 1)
          BY <1>4, <3>2
      <4>2. sn - c.snd_nxt + 1 \in 1..n /\ Len(s) + (sn - c.snd_nxt + 1) = sn + 1
            /\ sn < Len(ss)
          BY <1>2, <1>5, <4>1
      <4>3. ss[sn + 1] = c.snd_queue[sn - c.snd_nxt + 1]
          BY <1>5, <4>2
      <4> QED
          BY <1>4, <3>2, <4>2, <4>3
    <3> QED
        BY <3>1, <3>2
  <2> QED
      BY <2>1, <2>2 DEF Sent
<1>8. Acked(cc, d)
  <2> SUFFICES ASSUME NEW sn \in 0..(cc.snd_nxt - 1), sn \notin DOMAIN cc.snd_buf
               PROVE  Held(d, sn)
      BY DEF Acked
  <2>1. sn \notin DOMAIN c.snd_buf /\ sn \notin c.snd_nxt..(c.snd_nxt + n - 1)
      BY <1>4
  <2>2. sn \in 0..(c.snd_nxt - 1)
      BY <1>2, <1>4, <2>1
  <2> QED
      BY <1>1, <2>1, <2>2 DEF Acked
<1>9. Start(d) \in 0..Len(s) /\ d.rcv_nxt \in Nat /\ Len(d.rcv_queue) \in Nat
      /\ DOMAIN d.rcv_buf \subseteq Nat
    BY <1>1, <1>2, CBFields DEF Arrived, Start
<1>10. Arrived(d, ss)
  <2>1. d.rcv_nxt =< Len(ss)
      BY <1>1, <1>2, <1>5, <1>9 DEF Arrived
  <2>2. ASSUME NEW sn \in DOMAIN d.rcv_buf
        PROVE  d.rcv_nxt =< sn /\ sn < Len(ss) /\ d.rcv_buf[sn] = ss[sn + 1]
    <3>1. d.rcv_nxt =< sn /\ sn < Len(s) /\ d.rcv_buf[sn] = s[sn + 1] /\ sn \in Nat
        BY <1>1, <1>9 DEF Arrived
    <3>2. sn + 1 \in 1..Len(s) /\ sn < Len(ss)
        BY <1>2, <1>5, <3>1
    <3> QED
        BY <1>5, <3>1, <3>2
  <2>3. ASSUME NEW i \in 1..Len(d.rcv_queue)
        PROVE  d.rcv_queue[i] = ss[Start(d) + i]
    <3>1. Start(d) + i \in 1..Len(s)
        BY <1>1, <1>2, <1>9 DEF Arrived, Start
    <3> QED
        BY <1>1, <1>5, <3>1 DEF Arrived
  <2> QED
      BY <1>1, <2>1, <2>2, <2>3 DEF Arrived
<1>11. Taken(d, ss, g)
  <2>1. Start(d) # 0 => Start(d) \in 1..Len(s)
      BY <1>9
  <2> QED
      BY <1>1, <1>5, <2>1 DEF Taken
<1>12. FF \subseteq Segment
    BY <1>1, OutputFields
<1>13. DataSound(FF, ss)
  <2> SUFFICES ASSUME NEW seg \in FF, seg.cmd = "PUSH"
               PROVE  seg.sn < Len(ss) /\ seg.data = ss[seg.sn + 1]
      BY DEF DataSound
  <2>1. CASE seg \in F
    <3>1. seg.sn < Len(s) /\ seg.data = s[seg.sn + 1] /\ seg.sn \in Nat
        BY <1>1, <1>12, <2>1, SegmentFields DEF DataSound
    <3>2. seg.sn + 1 \in 1..Len(s) /\ seg.sn < Len(ss)
        BY <1>2, <1>5, <3>1
    <3> QED
        BY <1>5, <3>1, <3>2
  <2>2. CASE seg \in Output(c)
    <3>1. seg.sn \in DOMAIN cc.snd_buf /\ seg.data = cc.snd_buf[seg.sn]
        BY <1>1, <2>2, OutputFields DEF cc
    <3> QED
        BY <1>7, <3>1 DEF Sent
  <2> QED
      BY <2>1, <2>2
<1> QED
  <2>1. Link(cc, d, ss, FF, B, w, g)
      BY <1>4, <1>5, <1>6, <1>7, <1>8, <1>10, <1>11, <1>12, <1>13 DEF Link
  <2> QED
      BY <2>1 DEF cc, ss, new, n

LEMMA ReceiverRecv ==
    ASSUME NEW c, NEW d, NEW s, NEW F, NEW B, NEW w, NEW g, Link(c, d, s, F, B, w, g),
           NEW n \in 1..Len(d.rcv_queue)
    PROVE  Link(c, ikcp_recv(d, n), s, F, B, w, d.rcv_queue[n].hi)
<1> DEFINE dd == ikcp_recv(d, n)
           gg == d.rcv_queue[n].hi
<1>1. IsCB(d) /\ s \in Seq(Piece) /\ Arrived(d, s)
    BY DEF Link
<1>2. /\ d.rcv_nxt \in Nat /\ Len(d.rcv_queue) \in Nat /\ DOMAIN d.rcv_buf \subseteq Nat
      /\ Len(d.rcv_queue) =< d.rcv_nxt /\ n \in Nat
    BY <1>1, CBFields DEF Arrived
<1>3. PICK b : /\ Freed(d, b, n) /\ IsCB(dd) /\ dd.acklist = d.acklist
               /\ SameReceiver(Arrange(b), dd)
    BY <1>1, RecvFields
<1>4. /\ IsCB(b) /\ b.acklist = d.acklist /\ b.rcv_nxt = d.rcv_nxt /\ b.rcv_buf = d.rcv_buf
      /\ Len(b.rcv_queue) = Len(d.rcv_queue) - n
      /\ \A i \in 1..Len(b.rcv_queue) : b.rcv_queue[i] = d.rcv_queue[n + i]
    BY <1>3 DEF Freed
<1> HIDE DEF dd
<1>5. Start(b) = Start(d) + n /\ Start(b) # 0
    BY <1>2, <1>4 DEF Start
<1>6. Ahead(d, b)
    BY <1>2, <1>4 DEF Ahead, Held
<1>7. Arrived(b, s)
  <2>1. ASSUME NEW i \in 1..Len(b.rcv_queue)
        PROVE  b.rcv_queue[i] = s[Start(b) + i]
    <3>1. n + i \in 1..Len(d.rcv_queue)
        BY <1>2, <1>4
    <3>2. d.rcv_queue[n + i] = s[Start(d) + (n + i)]
        BY <1>1, <3>1 DEF Arrived
    <3>3. Start(d) + (n + i) = Start(b) + i
        BY <1>2, <1>4, <1>5 DEF Start
    <3> QED
        BY <1>4, <3>2, <3>3
  <2>2. \A sn \in b.acklist : Held(b, sn)
      BY <1>1, <1>4 DEF Arrived, Held
  <2>3. b.rcv_nxt =< Len(s) /\ Len(b.rcv_queue) =< b.rcv_nxt
      BY <1>1, <1>2, <1>4 DEF Arrived
  <2> QED
      BY <1>1, <1>4, <2>1, <2>2, <2>3 DEF Arrived
<1>8. IsCB(Arrange(b)) /\ Arrange(b).acklist = b.acklist
    BY <1>4, ArrangeFields
<1>9. Arrived(Arrange(b), s) /\ Ahead(b, Arrange(b)) /\ Start(Arrange(b)) = Start(b)
    BY <1>1, <1>4, <1>7, ArrangeArrived
<1>10. Arrived(dd, s) /\ Ahead(Arrange(b), dd) /\ Start(dd) = Start(b)
  <2>1. dd.acklist \subseteq Arrange(b).acklist
      BY <1>3, <1>4, <1>8
  <2> QED
      BY <1>3, <1>8, <1>9, <2>1, SameArrived
<1>11. Ahead(d, dd)
  <2>1. Ahead(b, dd)
      BY <1>3, <1>4, <1>8, <1>9, <1>10, AheadTransitive
  <2> QED
      BY <1>1, <1>3, <1>4, <1>6, <2>1, AheadTransitive
<1>12. Taken(dd, s, gg)
  <2>1. d.rcv_queue[n] = s[Start(d) + n]
      BY <1>1 DEF Arrived
  <2> QED
      BY <1>5, <1>10, <2>1 DEF Taken
<1> QED
    BY <1>3, <1>10, <1>11, <1>12, AheadLink DEF dd

(* What waits in rcv_queue follows what was taken and was written.          *)
LEMMA WaitsNext ==
    ASSUME NEW c, NEW d, NEW s, NEW F, NEW B, NEW w, NEW g, Link(c, d, s, F, B, w, g),
           NEW n \in 1..Len(d.rcv_queue)
    PROVE  /\ d.rcv_queue[1].lo = g /\ d.rcv_queue[n].hi \in Nat
           /\ g \in Nat /\ w \in Nat /\ g =< d.rcv_queue[n].hi /\ d.rcv_queue[n].hi =< w
<1>1. /\ IsCB(c) /\ IsCB(d) /\ s \in Seq(Piece) /\ Arrived(d, s)
      /\ Written(c, s, w) /\ Taken(d, s, g)
    BY DEF Link
<1> DEFINE m == Start(d)
           a == Reach(s, 0)
<1>2. /\ m \in Nat /\ m + n \in 1..Len(s) /\ m + 1 \in 1..Len(s) /\ (m # 0 => m \in 1..Len(s))
      /\ 1 \in 1..Len(d.rcv_queue) /\ Len(s) \in Nat /\ n \in Nat
  <2> DEFINE q == Len(d.rcv_queue)
             r == d.rcv_nxt
  <2>1. q \in Nat /\ r \in Nat /\ Len(s) \in Nat /\ n \in 1..q
      BY <1>1, CBFields
  <2>2. r =< Len(s) /\ q =< r /\ m = r - q
      BY <1>1 DEF Arrived, Start
  <2> HIDE DEF q, r, m
  <2> QED
      BY <2>1, <2>2 DEF q
<1>3. d.rcv_queue[n] = s[m + n] /\ d.rcv_queue[1] = s[m + 1]
    BY <1>1, <1>2 DEF Arrived
<1>4. Chain(s, 0) /\ Chain(c.snd_queue, a) /\ Reach(c.snd_queue, a) = w
    BY <1>1 DEF Written
<1>5. \A i \in 1..Len(s) : s[i].hi \in Nat /\ s[i].hi =< a /\ 0 =< s[i].hi
    BY <1>1, <1>4, ChainBounds, PieceFields
<1>6. a \in Nat /\ w \in Nat /\ a =< w
  <2>1. a \in Nat
      BY <1>1, <1>4, ChainBounds
  <2> HIDE DEF a
  <2> QED
      BY <1>1, <1>4, <2>1, ChainBounds, CBFields
<1> HIDE DEF m, a
<1>7. g = IF m = 0 THEN 0 ELSE s[m].hi
    BY <1>1 DEF Taken, m
<1>8. s[m + 1].lo = g
  <2>1. s[m + 1].lo = IF m + 1 = 1 THEN 0 ELSE s[m + 1 - 1].hi
      BY <1>2, <1>4 DEF Chain
  <2>2. m + 1 - 1 = m /\ (m + 1 = 1 <=> m = 0)
      BY <1>2
  <2> QED
      BY <1>7, <2>1, <2>2
<1>9. g \in Nat /\ g =< s[m + n].hi
  <2>1. CASE m = 0
      BY <1>2, <1>5, <1>7, <2>1
  <2>2. CASE m # 0
    <3>1. m =< m + n
        BY <1>2
    <3>2. s[m].hi =< s[m + n].hi
        BY <1>2, <1>4, <2>2, <3>1 DEF Chain
    <3> QED
        BY <1>2, <1>5, <1>7, <2>2, <3>2
  <2> QED
      BY <2>1, <2>2
<1>10. s[m + n].hi \in Nat /\ s[m + n].hi =< w
    BY <1>2, <1>5, <1>6
<1> QED
    BY <1>3, <1>6, <1>8, <1>9, <1>10

(* The first message is the next chunk, and taking it keeps the link. *)
LEMMA TakesNext ==
    ASSUME NEW c, NEW d, NEW s, NEW F, NEW B, NEW w, NEW g, Link(c, d, s, F, B, w, g),
           ikcp_peeksize(d) # 0
    PROVE  LET msg == FirstMessage(d)
           IN  /\ msg = [lo |-> g, hi |-> msg.hi] /\ msg \in Chunk /\ msg.hi \in g..w
               /\ Link(c, ikcp_recv(d, ikcp_peeksize(d)), s, F, B, w, msg.hi)
<1> DEFINE n == ikcp_peeksize(d)
<1>1. n \in 1..Len(d.rcv_queue)
    BY PeekIsInQueue DEF Link
<1> HIDE DEF n
<1>2. FirstMessage(d) = [lo |-> d.rcv_queue[1].lo, hi |-> d.rcv_queue[n].hi]
    BY DEF FirstMessage, n
<1>3. /\ d.rcv_queue[1].lo = g /\ d.rcv_queue[n].hi \in Nat /\ g \in Nat /\ w \in Nat
      /\ g =< d.rcv_queue[n].hi /\ d.rcv_queue[n].hi =< w
    BY <1>1, WaitsNext
<1>4. Link(c, ikcp_recv(d, n), s, F, B, w, d.rcv_queue[n].hi)
    BY <1>1, ReceiverRecv
<1>5. FirstMessage(d).hi = d.rcv_queue[n].hi /\ FirstMessage(d) = [lo |-> g, hi |-> d.rcv_queue[n].hi]
    BY <1>2, <1>3
<1>6. FirstMessage(d) \in Chunk
    BY <1>3, <1>5 DEF Chunk
<1>7. d.rcv_queue[n].hi \in g..w
    BY <1>3
<1> QED
    BY <1>4, <1>5, <1>6, <1>7 DEF n

LEMMA LinkStarts == Link(ikcp_create, ikcp_create, <<>>, {}, {}, 0, 0)
<1> DEFINE c == ikcp_create
<1>1. IsCB(c)
    BY IkcpAssumption DEF IsCB, ikcp_create, Holds, NoPieces
<1>2. /\ c.snd_queue = <<>> /\ c.rcv_queue = <<>> /\ c.snd_nxt = 0 /\ c.rcv_nxt = 0
      /\ c.snd_buf = NoPieces /\ c.rcv_buf = NoPieces /\ c.acklist = {}
    BY DEF ikcp_create
<1>3. DOMAIN NoPieces = {}
    BY DEF NoPieces
<1>4. <<>> \in Seq(Piece) /\ Len(<<>>) = 0
    OBVIOUS
<1> HIDE DEF c
<1>5. Sent(c, <<>>) /\ Acked(c, c) /\ DataSound({}, <<>>) /\ AcksSound({}, c)
    BY <1>2, <1>3, <1>4 DEF Sent, Acked, DataSound, AcksSound
<1>6. Arrived(c, <<>>) /\ Taken(c, <<>>, 0)
  <2>0. Len(c.rcv_queue) = 0 /\ c.rcv_nxt = 0
      BY <1>2, <1>4
  <2>1. Start(c) = 0 /\ Len(c.rcv_queue) = 0
      BY <2>0 DEF Start
  <2>2. Taken(c, <<>>, 0)
      BY <2>1 DEF Taken
  <2>3. 1..Len(c.rcv_queue) = {} /\ c.rcv_nxt =< Len(<<>>) /\ Len(c.rcv_queue) =< c.rcv_nxt
      BY <1>2, <1>4, <2>1
  <2> QED
      BY <1>2, <1>3, <2>2, <2>3 DEF Arrived
<1>7. Written(c, <<>>, 0)
    BY <1>2, <1>4 DEF Written, Chain, Reach
<1>8. Link(c, c, <<>>, {}, {}, 0, 0)
    BY <1>1, <1>4, <1>5, <1>6, <1>7 DEF Link
<1> QED
    BY <1>8 DEF c

-----------------------------------------------------------------------------
(* The session: both directions at once.                                   *)

Linked(e) ==
    Link(cb[e], cb[Peer[e]], segs[e], net[Peer[e]], net[e],
         End(writes[e]), End(got[Peer[e]]))

Typed == /\ DOMAIN cb = Ends /\ net \in [Ends -> SUBSET Segment] /\ m_bread \in BOOLEAN
         /\ writes \in [Ends -> Seq(Chunk)] /\ segs \in [Ends -> Seq(Piece)]
         /\ got \in [Ends -> Seq(Chunk)]

IInv == Typed /\ \A e \in Ends : Linked(e)

LEMMA PeerFields ==
    ASSUME NEW e \in Ends
    PROVE  Peer[e] \in Ends /\ Peer[e] # e /\ Peer[Peer[e]] = e /\ Ends = {e, Peer[e]}
BY DEF Ends, Peer

LEMMA ClientServer == Peer["client"] = "server" /\ Peer["server"] = "client"
                      /\ "client" \in Ends /\ "server" \in Ends
BY DEF Ends, Peer

LEMMA EndFields ==
    ASSUME NEW chunks \in Seq(Chunk)
    PROVE  /\ End(chunks) \in Nat
           /\ \A x \in Chunk : /\ Append(chunks, x) \in Seq(Chunk)
                               /\ End(Append(chunks, x)) = x.hi
<1>1. \A x \in Chunk : x.hi \in Nat
    BY DEF Chunk
<1>2. End(chunks) \in Nat
  <2>1. CASE chunks = <<>>
      BY <2>1 DEF End
  <2>2. CASE chunks # <<>>
    <3>1. Len(chunks) \in 1..Len(chunks)
        BY <2>2
    <3>2. chunks[Len(chunks)] \in Chunk
        BY <3>1
    <3> QED
        BY <1>1, <2>2, <3>2 DEF End
  <2> QED
      BY <2>1, <2>2
<1>3. ASSUME NEW x \in Chunk
      PROVE  Append(chunks, x) \in Seq(Chunk) /\ End(Append(chunks, x)) = x.hi
  <2>1. /\ Append(chunks, x) \in Seq(Chunk) /\ Append(chunks, x) # <<>>
        /\ Append(chunks, x)[Len(Append(chunks, x))] = x
      OBVIOUS
  <2> QED
      BY <2>1 DEF End
<1> QED
    BY <1>2, <1>3

LEMMA InitLinked ==
    ASSUME Init
    PROVE  IInv
<1>1. Typed
    BY DEF Init, Typed
<1>2. ASSUME NEW e \in Ends
      PROVE  Linked(e)
  <2>1. /\ cb[e] = ikcp_create /\ cb[Peer[e]] = ikcp_create /\ segs[e] = <<>>
        /\ net[Peer[e]] = {} /\ net[e] = {} /\ writes[e] = <<>> /\ got[Peer[e]] = <<>>
      BY PeerFields DEF Init
  <2>2. End(<<>>) = 0
      BY DEF End
  <2> QED
      BY <2>1, <2>2, LinkStarts DEF Linked
<1> QED
    BY <1>1, <1>2 DEF IInv

(* It is enough to show both directions for one end and its peer. *)
LEMMA BothDirections ==
    ASSUME NEW e \in Ends, Linked(e)', Linked(Peer[e])'
    PROVE  (\A x \in Ends : Linked(x))'
BY PeerFields

(* What the links say before a step, written out for one end. *)
LEMMA LinksOf ==
    ASSUME IInv, NEW e \in Ends
    PROVE  /\ Link(cb[e], cb[Peer[e]], segs[e], net[Peer[e]], net[e],
                   End(writes[e]), End(got[Peer[e]]))
           /\ Link(cb[Peer[e]], cb[e], segs[Peer[e]], net[e], net[Peer[e]],
                   End(writes[Peer[e]]), End(got[e]))
           /\ IsCB(cb[e]) /\ IsCB(cb[Peer[e]])
<1>1. Linked(e) /\ Linked(Peer[e]) /\ Peer[Peer[e]] = e
    BY PeerFields DEF IInv
<1> QED
    BY <1>1 DEF Linked, Link

LEMMA WriteLinked ==
    ASSUME IInv, NEW e \in Ends, Write(e)
    PROVE  /\ IInv'
           /\ End(writes'[e]) \in Nat /\ End(writes'[e]) >= End(writes[e])
           /\ writes'[Peer[e]] = writes[Peer[e]] /\ got' = got
<1> DEFINE f == Peer[e]
           from == End(writes[e])
<1>1. PICK n \in Sizes[e] :
          LET len == Accepted(cb[e].snd_queue, n, e \in Stream)
          IN  /\ cb' = [cb EXCEPT ![e] = ikcp_send(cb[e], from, n, e \in Stream)]
              /\ writes' = [writes EXCEPT ![e] =
                     IF len = 0 THEN writes[e]
                     ELSE Append(writes[e], [lo |-> from, hi |-> from + len])]
              /\ UNCHANGED <<net, m_bread, segs, got>>
    BY DEF Write
<1>2. n \in Nat
    BY LinkAssumption
<1> DEFINE len == Accepted(cb[e].snd_queue, n, e \in Stream)
           c == ikcp_send(cb[e], from, n, e \in Stream)
<1>3. /\ Link(cb[e], cb[f], segs[e], net[f], net[e], from, End(got[f]))
      /\ Link(cb[f], cb[e], segs[f], net[e], net[f], End(writes[f]), End(got[e]))
    BY LinksOf
<1>4. /\ len \in Nat /\ from \in Nat
      /\ Link(c, cb[f], segs[e], net[f], net[e], from + len, End(got[f]))
    BY <1>2, <1>3, SenderSend
<1>5. IsCB(c) /\ SameReceiver(cb[e], c) /\ c.acklist = cb[e].acklist
    BY <1>2, <1>3, SenderSend
<1> DEFINE more == IF len = 0 THEN writes[e]
                   ELSE Append(writes[e], [lo |-> from, hi |-> from + len])
<1>6. Typed /\ writes' = [writes EXCEPT ![e] = more]
    BY <1>1 DEF IInv
<1>7. more \in Seq(Chunk) /\ End(more) = from + len
  <2>1. writes[e] \in Seq(Chunk) /\ [lo |-> from, hi |-> from + len] \in Chunk
      BY <1>4, <1>6 DEF Typed, Chunk
  <2>2. CASE len = 0
    <3>1. more = writes[e]
        BY <2>2
    <3>2. from + len = from
        BY <1>4, <2>2
    <3> HIDE DEF more, len
    <3> QED
        BY <2>1, <3>1, <3>2
  <2>3. CASE len # 0
    <3> HIDE DEF from, len
    <3> QED
        BY <2>1, <2>3, EndFields
  <2> QED
      BY <2>2, <2>3
<1> HIDE DEF more
<1>14. Typed'
  <2>1. writes' \in [Ends -> Seq(Chunk)] /\ DOMAIN cb' = Ends
      BY <1>1, <1>6, <1>7 DEF Typed
  <2> QED
      BY <1>1, <1>6, <2>1 DEF Typed
<1>15. writes'[e] = more /\ writes'[f] = writes[f] /\ f # e
    BY <1>6, PeerFields DEF Typed
<1>8. /\ cb'[e] = c /\ cb'[f] = cb[f] /\ writes'[f] = writes[f]
      /\ net' = net /\ segs' = segs /\ got' = got
    BY <1>1, <1>6, <1>15 DEF Typed
<1>9. Link(cb[f], c, segs[f], net[e], net[f], End(writes[f]), End(got[e]))
  <2> HIDE DEF c
  <2> QED
      BY <1>3, <1>5, ReceiverSame
<1>12. End(writes'[e]) \in Nat /\ End(writes'[e]) >= from
  <2> HIDE DEF len, from
  <2> QED
      BY <1>4, <1>7, <1>15
<1> HIDE DEF c, len
<1>10. Linked(e)'
    BY <1>4, <1>7, <1>8, <1>15 DEF Linked
<1>11. Linked(f)'
    BY <1>8, <1>9, PeerFields DEF Linked
<1>13. IInv'
  <2> HIDE DEF from
  <2> QED
      BY <1>10, <1>11, <1>14, BothDirections DEF IInv
<1> QED
    BY <1>8, <1>12, <1>13

LEMMA FlushLinked ==
    ASSUME IInv, NEW e \in Ends, NEW some, Flush(e, cb[e], some)
    PROVE  LET f == Peer[e]
               c == ikcp_flush(cb[e])
           IN  /\ Link(c, cb[f], segs'[e], net'[f], net'[e], End(writes[e]), End(got[f]))
               /\ Link(cb[f], c, segs'[f], net'[e], net'[f], End(writes[f]), End(got[e]))
               /\ net' \in [Ends -> SUBSET Segment] /\ segs' \in [Ends -> Seq(Piece)]
<1> DEFINE f == Peer[e]
           c == ikcp_flush(cb[e])
           ss == segs[e] \o SubSeq(cb[e].snd_queue, 1, Numbered(cb[e]))
<1>1. /\ Link(cb[e], cb[f], segs[e], net[f], net[e], End(writes[e]), End(got[f]))
      /\ Link(cb[f], cb[e], segs[f], net[e], net[f], End(writes[f]), End(got[e]))
    BY LinksOf
<1>2. /\ some \subseteq net[f] \cup Output(cb[e])
      /\ net' = [net EXCEPT ![f] = some] /\ segs' = [segs EXCEPT ![e] = ss]
    BY DEF Flush
<1>3. Link(c, cb[f], ss, some, net[e], End(writes[e]), End(got[f]))
    BY <1>1, <1>2, SenderFlush
<1>4. Link(cb[f], c, segs[f], net[e], some, End(writes[f]), End(got[e]))
    BY <1>1, <1>2, ReceiverFlush
<1>5. ss \in Seq(Piece) /\ some \subseteq Segment
    BY <1>3 DEF Link
<1> HIDE DEF c, ss
<1>6. net \in [Ends -> SUBSET Segment] /\ segs \in [Ends -> Seq(Piece)] /\ f \in Ends /\ f # e
    BY PeerFields DEF IInv, Typed
<1>7. net'[f] = some /\ net'[e] = net[e] /\ segs'[e] = ss /\ segs'[f] = segs[f]
    BY <1>2, <1>6
<1>8. net' \in [Ends -> SUBSET Segment] /\ segs' \in [Ends -> Seq(Piece)]
    BY <1>2, <1>5, <1>6
<1> QED
    BY <1>3, <1>4, <1>7, <1>8 DEF c

(* A chunk was taken, of w bytes written, or none. *)
Took(before, after, w) ==
    \/ after = before
    \/ \E hi \in End(before)..w : after = Append(before, [lo |-> End(before), hi |-> hi])

LEMMA TakeLinked ==
    ASSUME NEW chunks \in Seq(Chunk),
           NEW b, NEW c, NEW s, NEW F, NEW B, NEW w, NEW t, NEW v, NEW h,
           Link(b, c, s, F, B, w, End(chunks)), Link(c, b, t, B, F, v, h),
           ikcp_peeksize(c) # 0
    PROVE  LET cc   == ikcp_recv(c, ikcp_peeksize(c))
               more == Append(chunks, FirstMessage(c))
           IN  /\ Link(b, cc, s, F, B, w, End(more)) /\ Link(cc, b, t, B, F, v, h)
               /\ more \in Seq(Chunk) /\ Took(chunks, more, w)
<1> DEFINE n == ikcp_peeksize(c)
           cc == ikcp_recv(c, n)
           msg == FirstMessage(c)
           more == Append(chunks, msg)
<1>1. /\ msg = [lo |-> End(chunks), hi |-> msg.hi] /\ msg \in Chunk /\ msg.hi \in End(chunks)..w
      /\ Link(b, cc, s, F, B, w, msg.hi)
    BY TakesNext
<1>2. IsCB(c) /\ n \in 1..Len(c.rcv_queue)
    BY PeekIsInQueue DEF Link
<1>3. IsCB(cc) /\ SameSender(c, cc)
  <2> HIDE DEF n
  <2> QED
      BY <1>2, RecvFields
<1> HIDE DEF cc, msg
<1>4. Link(cc, b, t, B, F, v, h)
    BY <1>3, SenderSame
<1>5. more \in Seq(Chunk) /\ End(more) = msg.hi
    BY <1>1, EndFields
<1>6. Took(chunks, more, w)
    BY <1>1 DEF Took
<1> QED
    BY <1>1, <1>4, <1>5, <1>6 DEF cc, msg

LEMMA DealLinked ==
    ASSUME Typed, NEW c, OnDealMsg(c), IsCB(c),
           NEW b, NEW s, NEW F, NEW B, NEW w, NEW t, NEW v, NEW h,
           Link(b, c, s, F, B, w, End(got["server"])), Link(c, b, t, B, F, v, h)
    PROVE  /\ Link(b, cb'["server"], s, F, B, w, End(got'["server"]))
           /\ Link(cb'["server"], b, t, B, F, v, h)
           /\ cb'["client"] = cb["client"] /\ got'["client"] = got["client"]
           /\ DOMAIN cb' = Ends /\ got' \in [Ends -> Seq(Chunk)] /\ m_bread' \in BOOLEAN
           /\ Took(got["server"], got'["server"], w)
<1>1. /\ DOMAIN cb = Ends /\ got \in [Ends -> Seq(Chunk)] /\ got["server"] \in Seq(Chunk)
      /\ "client" \in Ends /\ "server" \in Ends
    BY ClientServer DEF Typed
<1>2. m_bread' \in BOOLEAN
    BY DEF OnDealMsg
<1>3. CASE Deals(c)
  <2> DEFINE cc == ikcp_recv(c, ikcp_peeksize(c))
             more == Append(got["server"], FirstMessage(c))
  <2>1. cb' = [cb EXCEPT !["server"] = cc] /\ got' = [got EXCEPT !["server"] = more]
      BY <1>3 DEF OnDealMsg
  <2>2. ikcp_peeksize(c) # 0
      BY <1>3 DEF Deals
  <2>3. /\ Link(b, cc, s, F, B, w, End(more)) /\ Link(cc, b, t, B, F, v, h)
        /\ more \in Seq(Chunk) /\ Took(got["server"], more, w)
      BY <1>1, <2>2, TakeLinked
  <2> HIDE DEF cc, more
  <2>4. cb'["server"] = cc /\ cb'["client"] = cb["client"] /\ DOMAIN cb' = Ends
      BY <1>1, <2>1
  <2>5. got'["server"] = more /\ got'["client"] = got["client"] /\ got' \in [Ends -> Seq(Chunk)]
      BY <1>1, <2>1, <2>3
  <2> QED
      BY <1>2, <2>3, <2>4, <2>5
<1>4. CASE ~Deals(c)
  <2>1. cb' = [cb EXCEPT !["server"] = c] /\ got' = got
      BY <1>4 DEF OnDealMsg
  <2>2. cb'["server"] = c /\ cb'["client"] = cb["client"] /\ DOMAIN cb' = Ends
      BY <1>1, <2>1
  <2> QED
      BY <1>1, <1>2, <2>1, <2>2 DEF Took
<1> QED
    BY <1>3, <1>4

(* What a step may do to one direction, besides keeping it linked. *)
Piped(e) ==
    LET w == End(writes[e])
    IN  /\ w' \in Nat /\ w' >= w
        /\ Took(got[Peer[e]], got'[Peer[e]], w)
        /\ got' = got \/ writes' = writes

LEMMA ClientFlushLinked ==
    ASSUME IInv, NEW some, ClientFlush(some)
    PROVE  IInv'
<1> DEFINE c == ikcp_flush(cb["client"])
<1>1. /\ Flush("client", cb["client"], some)
      /\ cb' = [cb EXCEPT !["client"] = c] /\ UNCHANGED <<m_bread, writes, got>>
    BY DEF ClientFlush
<1>2. /\ Link(c, cb["server"], segs'["client"], net'["server"], net'["client"],
              End(writes["client"]), End(got["server"]))
      /\ Link(cb["server"], c, segs'["server"], net'["client"], net'["server"],
              End(writes["server"]), End(got["client"]))
      /\ net' \in [Ends -> SUBSET Segment] /\ segs' \in [Ends -> Seq(Piece)]
    BY <1>1, FlushLinked, ClientServer
<1> HIDE DEF c
<1>3. cb'["client"] = c /\ cb'["server"] = cb["server"] /\ DOMAIN cb' = Ends
    BY <1>1, ClientServer DEF IInv, Typed
<1>4. Linked("client")' /\ Linked("server")'
    BY <1>1, <1>2, <1>3, ClientServer DEF Linked
<1>5. Typed'
    BY <1>1, <1>2, <1>3 DEF IInv, Typed
<1> QED
    BY <1>4, <1>5, BothDirections, ClientServer DEF IInv

LEMMA ServerFlushLinked ==
    ASSUME IInv, NEW some, ServerFlush(some)
    PROVE  IInv' /\ Took(got["server"], got'["server"], End(writes["client"]))
           /\ writes' = writes /\ got'["client"] = got["client"]
<1> DEFINE c == ikcp_flush(cb["server"])
<1>1. Flush("server", cb["server"], some) /\ OnDealMsg(c) /\ writes' = writes
    BY DEF ServerFlush
<1>2. /\ Link(c, cb["client"], segs'["server"], net'["client"], net'["server"],
              End(writes["server"]), End(got["client"]))
      /\ Link(cb["client"], c, segs'["client"], net'["server"], net'["client"],
              End(writes["client"]), End(got["server"]))
      /\ net' \in [Ends -> SUBSET Segment] /\ segs' \in [Ends -> Seq(Piece)]
    BY <1>1, FlushLinked, ClientServer
<1> HIDE DEF c
<1>3. Typed /\ IsCB(c)
    BY <1>2 DEF IInv, Link
<1>4. /\ Link(cb["client"], cb'["server"], segs'["client"], net'["server"], net'["client"],
              End(writes["client"]), End(got'["server"]))
      /\ Link(cb'["server"], cb["client"], segs'["server"], net'["client"], net'["server"],
              End(writes["server"]), End(got["client"]))
      /\ cb'["client"] = cb["client"] /\ got'["client"] = got["client"]
      /\ DOMAIN cb' = Ends /\ got' \in [Ends -> Seq(Chunk)] /\ m_bread' \in BOOLEAN
      /\ Took(got["server"], got'["server"], End(writes["client"]))
    BY <1>1, <1>2, <1>3, DealLinked
<1>5. Linked("client")' /\ Linked("server")'
    BY <1>1, <1>4, ClientServer DEF Linked
<1>6. Typed'
    BY <1>1, <1>2, <1>3, <1>4 DEF Typed
<1> QED
    BY <1>1, <1>4, <1>5, <1>6, BothDirections, ClientServer DEF IInv

LEMMA ServerNoFlushLinked ==
    ASSUME IInv, ServerNoFlush
    PROVE  IInv' /\ Took(got["server"], got'["server"], End(writes["client"]))
           /\ writes' = writes /\ got'["client"] = got["client"]
<1>1. OnDealMsg(cb["server"]) /\ UNCHANGED <<net, writes, segs>>
    BY DEF ServerNoFlush
<1>2. /\ Link(cb["server"], cb["client"], segs["server"], net["client"], net["server"],
              End(writes["server"]), End(got["client"]))
      /\ Link(cb["client"], cb["server"], segs["client"], net["server"], net["client"],
              End(writes["client"]), End(got["server"]))
    BY LinksOf, ClientServer
<1>3. Typed /\ IsCB(cb["server"])
    BY <1>2 DEF IInv, Link
<1>4. /\ Link(cb["client"], cb'["server"], segs["client"], net["server"], net["client"],
              End(writes["client"]), End(got'["server"]))
      /\ Link(cb'["server"], cb["client"], segs["server"], net["client"], net["server"],
              End(writes["server"]), End(got["client"]))
      /\ cb'["client"] = cb["client"] /\ got'["client"] = got["client"]
      /\ DOMAIN cb' = Ends /\ got' \in [Ends -> Seq(Chunk)] /\ m_bread' \in BOOLEAN
      /\ Took(got["server"], got'["server"], End(writes["client"]))
    BY <1>1, <1>2, <1>3, DealLinked
<1>5. Linked("client")' /\ Linked("server")'
    BY <1>1, <1>4, ClientServer DEF Linked
<1>6. Typed'
    BY <1>1, <1>3, <1>4 DEF Typed
<1> QED
    BY <1>1, <1>4, <1>5, <1>6, BothDirections, ClientServer DEF IInv

LEMMA ClientRecvLinked ==
    ASSUME IInv, ClientRecv
    PROVE  IInv' /\ Took(got["client"], got'["client"], End(writes["server"]))
           /\ writes' = writes /\ got'["server"] = got["server"]
<1> DEFINE c == cb["client"]
           cc == ikcp_recv(c, ikcp_peeksize(c))
           more == Append(got["client"], FirstMessage(c))
<1>1. /\ ikcp_peeksize(c) > 0 /\ cb' = [cb EXCEPT !["client"] = cc]
      /\ got' = [got EXCEPT !["client"] = more] /\ UNCHANGED <<net, m_bread, writes, segs>>
    BY DEF ClientRecv
<1>2. /\ Link(cb["server"], c, segs["server"], net["client"], net["server"],
              End(writes["server"]), End(got["client"]))
      /\ Link(c, cb["server"], segs["client"], net["server"], net["client"],
              End(writes["client"]), End(got["server"]))
    BY LinksOf, ClientServer
<1>3. Typed /\ got["client"] \in Seq(Chunk)
    BY ClientServer DEF IInv, Typed
<1>4. /\ Link(cb["server"], cc, segs["server"], net["client"], net["server"],
              End(writes["server"]), End(more))
      /\ Link(cc, cb["server"], segs["client"], net["server"], net["client"],
              End(writes["client"]), End(got["server"]))
      /\ more \in Seq(Chunk) /\ Took(got["client"], more, End(writes["server"]))
    BY <1>1, <1>2, <1>3, TakeLinked
<1> HIDE DEF cc, more, c
<1>5. cb'["client"] = cc /\ cb'["server"] = cb["server"] /\ DOMAIN cb' = Ends
    BY <1>1, <1>3, ClientServer DEF Typed
<1>6. got'["client"] = more /\ got'["server"] = got["server"] /\ got' \in [Ends -> Seq(Chunk)]
    BY <1>1, <1>3, <1>4, ClientServer DEF Typed
<1>7. Linked("client")' /\ Linked("server")'
    BY <1>1, <1>4, <1>5, <1>6, ClientServer DEF Linked
<1>8. Typed'
    BY <1>1, <1>3, <1>5, <1>6 DEF Typed
<1> QED
    BY <1>1, <1>4, <1>6, <1>7, <1>8, BothDirections, ClientServer DEF IInv

LEMMA ArrivesLinked ==
    ASSUME IInv, NEW e \in Ends, NEW seg \in net[e], Arrives(e, seg)
    PROVE  IInv'
<1> DEFINE f == Peer[e]
           c == ikcp_input(cb[e], seg)
<1>1. /\ UNCHANGED <<writes, segs, got>> /\ m_bread' = (m_bread \/ e = "server")
      /\ net' = net \/ net' = [net EXCEPT ![e] = net[e] \ {seg}]
      /\ cb' = [cb EXCEPT ![e] = c]
    BY DEF Arrives
<1>2. /\ Link(cb[e], cb[f], segs[e], net[f], net[e], End(writes[e]), End(got[f]))
      /\ Link(cb[f], cb[e], segs[f], net[e], net[f], End(writes[f]), End(got[e]))
    BY LinksOf
<1>3. /\ Link(c, cb[f], segs[e], net[f], net[e], End(writes[e]), End(got[f]))
      /\ Link(cb[f], c, segs[f], net[e], net[f], End(writes[f]), End(got[e]))
    BY <1>2, SenderInput, ReceiverInput
<1> HIDE DEF c
<1>4. Typed /\ f \in Ends /\ f # e /\ Peer[f] = e
    BY PeerFields DEF IInv
<1>5. cb'[e] = c /\ cb'[f] = cb[f] /\ DOMAIN cb' = Ends
    BY <1>1, <1>4 DEF Typed
<1>6. net' \in [Ends -> SUBSET Segment] /\ net'[e] \subseteq net[e] /\ net'[f] = net[f]
    BY <1>1, <1>4 DEF Typed
<1>7. /\ Link(c, cb[f], segs[e], net'[f], net'[e], End(writes[e]), End(got[f]))
      /\ Link(cb[f], c, segs[f], net'[e], net'[f], End(writes[f]), End(got[e]))
    BY <1>3, <1>6, LessOnTheWay
<1> HIDE DEF f
<1>8. Linked(e)' /\ Linked(f)'
    BY <1>1, <1>4, <1>5, <1>7 DEF Linked, f
<1>9. Typed'
  <2>1. m_bread' \in BOOLEAN
      BY <1>1, <1>4 DEF Typed
  <2> QED
      BY <1>1, <1>4, <1>5, <1>6, <2>1 DEF Typed
<1> QED
    BY <1>8, <1>9, BothDirections DEF IInv, f

-----------------------------------------------------------------------------
(* Part 3: theorems.                                                       *)

LEMMA StepLinked ==
    ASSUME IInv, [Next]_vars
    PROVE  IInv' /\ \A e \in Ends : Piped(e)
<1>1. Typed /\ \A e \in Ends : End(writes[e]) \in Nat
    BY EndFields DEF IInv, Typed
<1>2. CASE UNCHANGED vars
  <2>1. Typed' /\ \A e \in Ends : Linked(e)'
      BY <1>2 DEF IInv, Typed, Linked, vars
  <2>2. \A e \in Ends : Piped(e)
      BY <1>1, <1>2 DEF Piped, Took, vars
  <2> QED
      BY <2>1, <2>2 DEF IInv
<1>3. ASSUME NEW e \in Ends, Write(e)
      PROVE  IInv' /\ \A x \in Ends : Piped(x)
  <2>1. /\ IInv' /\ got' = got
        /\ End(writes'[e]) \in Nat /\ End(writes'[e]) >= End(writes[e])
        /\ writes'[Peer[e]] = writes[Peer[e]]
      BY <1>3, WriteLinked
  <2>2. Piped(e) /\ Piped(Peer[e])
      BY <1>1, <2>1, PeerFields DEF Piped, Took
  <2> QED
      BY <2>1, <2>2, PeerFields
<1>4. ASSUME NEW some, ClientFlush(some)
      PROVE  IInv' /\ \A x \in Ends : Piped(x)
  <2>1. IInv' /\ writes' = writes /\ got' = got
      BY <1>4, ClientFlushLinked DEF ClientFlush
  <2> QED
      BY <1>1, <2>1 DEF Piped, Took
<1>5. ASSUME /\ writes' = writes /\ got'["client"] = got["client"]
             /\ Took(got["server"], got'["server"], End(writes["client"]))
      PROVE  \A x \in Ends : Piped(x)
  <2>1. Piped("client") /\ Piped("server")
      BY <1>1, <1>5, ClientServer DEF Piped, Took
  <2> QED
      BY <2>1 DEF Ends
<1>6. ASSUME NEW some, ServerFlush(some)
      PROVE  IInv' /\ \A x \in Ends : Piped(x)
    BY <1>5, <1>6, ServerFlushLinked
<1>7. CASE ServerNoFlush
    BY <1>5, <1>7, ServerNoFlushLinked
<1>8. CASE ClientRecv
  <2>1. /\ IInv' /\ writes' = writes /\ got'["server"] = got["server"]
        /\ Took(got["client"], got'["client"], End(writes["server"]))
      BY <1>8, ClientRecvLinked
  <2>2. Piped("client") /\ Piped("server")
      BY <1>1, <2>1, ClientServer DEF Piped, Took
  <2> QED
      BY <2>1, <2>2 DEF Ends
<1>9. ASSUME NEW e \in Ends, NEW seg \in net[e], Arrives(e, seg)
      PROVE  IInv' /\ \A x \in Ends : Piped(x)
  <2>1. IInv' /\ writes' = writes /\ got' = got
      BY <1>9, ArrivesLinked DEF Arrives
  <2> QED
      BY <1>1, <2>1 DEF Piped, Took
<1> QED
  <2>1. CASE Next
    <3>1. CASE \E e \in Ends : Write(e)
        BY <1>3, <3>1
    <3>2. CASE \E some \in OnTheWay("client") : ClientFlush(some)
        BY <1>4, <3>2
    <3>3. CASE \E some \in OnTheWay("server") : ServerFlush(some)
        BY <1>6, <3>3
    <3>4. CASE OnRead
        BY <1>9, <3>4, ClientServer DEF OnRead
    <3>5. CASE ClientInput
        BY <1>9, <3>5, ClientServer DEF ClientInput
    <3> QED
        BY <1>7, <1>8, <2>1, <3>1, <3>2, <3>3, <3>4, <3>5 DEF Next
  <2> QED
      BY <1>2, <2>1

(* Link holds of both directions in every state: what is held, numbered,    *)
(* acknowledged and on its way fits together after any step of ikcp.c.      *)
THEOREM SessionInvariant == Spec => []IInv
<1>1. Init => IInv
    BY InitLinked
<1>2. IInv /\ [Next]_vars => IInv'
    BY StepLinked
<1> QED
    BY <1>1, <1>2, PTL DEF Spec

(* The types of a session, in particular that both control blocks stay      *)
(* control blocks whatever ikcp.c does to them.                             *)
THEOREM SessionTyped == Spec => []TypeOK
<1>1. IInv => TypeOK
    BY DEF IInv, Typed, Linked, Link, TypeOK
<1> QED
    BY <1>1, SessionInvariant, PTL

(* ikcp_parse_una and ikcp_parse_ack let go of a piece only when the peer   *)
(* has it.                                                                  *)
THEOREM SessionAcks == Spec => []AckedIsHeld
<1>1. IInv => AckedIsHeld
  <2> SUFFICES ASSUME IInv, NEW e \in Ends, NEW sn \in 0..(cb[e].snd_nxt - 1),
                      sn \notin DOMAIN cb[e].snd_buf
               PROVE  sn < cb[Peer[e]].rcv_nxt \/ sn \in DOMAIN cb[Peer[e]].rcv_buf
      BY DEF AckedIsHeld
  <2>1. Acked(cb[e], cb[Peer[e]])
      BY LinksOf DEF Link
  <2> QED
      BY <2>1 DEF Acked, Held
<1> QED
    BY <1>1, SessionInvariant, PTL

(* The session, seen from the client's writes and the messages OnDealMsg    *)
(* takes, is a pipe of bytes.                                               *)
THEOREM SessionPipesToServer == Spec => PipeToServer
<1>1. Init => ToServer!Init
  <2>1. Init => End(writes["client"]) = 0 /\ got["server"] = <<>>
      BY ClientServer DEF Init, End
  <2> QED
      BY <2>1 DEF ToServer!Init
<1>2. IInv /\ [Next]_vars => [ToServer!Next]_ToServer!vars
  <2> SUFFICES ASSUME IInv, [Next]_vars
               PROVE  ToServer!Next \/ UNCHANGED ToServer!vars
      OBVIOUS
  <2> DEFINE w == End(writes["client"])
  <2>1. /\ w' \in Nat /\ w' >= w /\ Took(got["server"], got'["server"], w)
        /\ got' = got \/ writes' = writes
      BY StepLinked, ClientServer DEF Piped
  <2>2. CASE got'["server"] = got["server"]
    <3>1. ToServer!Write
        BY <2>1, <2>2 DEF ToServer!Write
    <3> QED
        BY <3>1 DEF ToServer!Next
  <2>3. CASE \E hi \in End(got["server"])..w :
                 got'["server"] = Append(got["server"], [lo |-> End(got["server"]), hi |-> hi])
    <3>1. CASE writes' = writes
      <4>1. ToServer!End(got["server"]) = End(got["server"])
          BY DEF ToServer!End, End
      <4>2. w' = w
          BY <3>1
      <4>3. ToServer!Read
          BY <2>3, <4>1, <4>2 DEF ToServer!Read
      <4> QED
          BY <4>3 DEF ToServer!Next
    <3>2. CASE got' = got
      <4>1. got'["server"] = got["server"]
          BY <3>2
      <4> QED
          BY <2>2, <4>1
    <3> QED
        BY <2>1, <3>1, <3>2
  <2> QED
      BY <2>1, <2>2, <2>3 DEF Took
<1> QED
    BY <1>1, <1>2, SessionInvariant, PTL DEF Spec, PipeToServer, ToServer!Spec

(* The other direction: the server's Write and the client's messages.       *)
THEOREM SessionPipesToClient == Spec => PipeToClient
<1>1. Init => ToClient!Init
  <2>1. Init => End(writes["server"]) = 0 /\ got["client"] = <<>>
      BY ClientServer DEF Init, End
  <2> QED
      BY <2>1 DEF ToClient!Init
<1>2. IInv /\ [Next]_vars => [ToClient!Next]_ToClient!vars
  <2> SUFFICES ASSUME IInv, [Next]_vars
               PROVE  ToClient!Next \/ UNCHANGED ToClient!vars
      OBVIOUS
  <2> DEFINE w == End(writes["server"])
  <2>1. /\ w' \in Nat /\ w' >= w /\ Took(got["client"], got'["client"], w)
        /\ got' = got \/ writes' = writes
      BY StepLinked, ClientServer DEF Piped
  <2>2. CASE got'["client"] = got["client"]
    <3>1. ToClient!Write
        BY <2>1, <2>2 DEF ToClient!Write
    <3> QED
        BY <3>1 DEF ToClient!Next
  <2>3. CASE \E hi \in End(got["client"])..w :
                 got'["client"] = Append(got["client"], [lo |-> End(got["client"]), hi |-> hi])
    <3>1. CASE writes' = writes
      <4>1. ToClient!End(got["client"]) = End(got["client"])
          BY DEF ToClient!End, End
      <4>2. w' = w
          BY <3>1
      <4>3. ToClient!Read
          BY <2>3, <4>1, <4>2 DEF ToClient!Read
      <4> QED
          BY <4>3 DEF ToClient!Next
    <3>2. CASE got' = got
      <4>1. got'["client"] = got["client"]
          BY <3>2
      <4> QED
          BY <2>2, <4>1
    <3> QED
        BY <2>1, <3>1, <3>2
  <2> QED
      BY <2>1, <2>2, <2>3 DEF Took
<1> QED
    BY <1>1, <1>2, SessionInvariant, PTL DEF Spec, PipeToClient, ToClient!Spec

-----------------------------------------------------------------------------
(* Part 4: whole messages.                                                 *)

(* `at' cuts the pieces s of an end in message mode into the messages w it  *)
(* wrote: at[i] pieces come before message i, and frg counts down to 0 over *)
(* each.                                                                    *)
Cuts(s, w, at) ==
    /\ at[1] = 0 /\ at[Len(w) + 1] = Len(s)
    /\ \A i \in 1..Len(w) :
           /\ at[i] < at[i + 1]
           /\ s[at[i] + 1].lo = w[i].lo /\ s[at[i + 1]].hi = w[i].hi
           /\ \A k \in (at[i] + 1)..at[i + 1] : s[k].frg = at[i + 1] - k

(* The messages g were taken, the first ones of w and whole: n pieces.      *)
Whole(s, w, g, n) ==
    \E at \in [1..(Len(w) + 1) -> 0..Len(s)] :
        /\ Cuts(s, w, at)
        /\ Len(g) =< Len(w) /\ at[Len(g) + 1] = n
        /\ \A i \in 1..Len(g) : g[i] = w[i]

LEMMA FragmentsFields ==
    ASSUME NEW from \in Nat, NEW n \in Nat \ {0}
    PROVE  LET f == Fragments(from, n, FALSE)
           IN  /\ f \in Seq(Piece) /\ Len(f) \in Nat \ {0}
               /\ f[1].lo = from /\ f[Len(f)].hi = from + n
               /\ \A k \in 1..Len(f) : f[k].frg = Len(f) - k
<1> DEFINE f == Fragments(from, n, FALSE)
           count == CeilDiv(n, Mss)
           piece(i) == [lo  |-> from + (i - 1) * Mss,
                        hi  |-> IF i = count THEN from + n ELSE from + i * Mss,
                        frg |-> count - i]
<1>1. f \in Seq(Piece)
    BY FragmentsChain
<1>2. Mss \in Nat \ {0}
    BY IkcpAssumption
<1>3. count \in Nat /\ n =< count * Mss
    BY <1>2, CeilDivBounds
<1>4. f = [i \in 1..count |-> piece(i)]
    BY DEF Fragments
<1> HIDE DEF count, f
<1>5. count # 0
    BY <1>2, <1>3
<1>6. Len(f) = count
    BY <1>3, <1>4
<1>7. 1 \in 1..count /\ count \in 1..count
    BY <1>3, <1>5
<1>8. f[1].lo = from
  <2>1. f[1].lo = from + (1 - 1) * Mss
      BY <1>4, <1>7
  <2> QED
      BY <1>2, <2>1
<1>9. f[count].hi = from + n
    BY <1>4, <1>7
<1>10. \A k \in 1..count : f[k].frg = count - k
    BY <1>4
<1>11. /\ f \in Seq(Piece) /\ Len(f) \in Nat \ {0}
       /\ f[1].lo = from /\ f[Len(f)].hi = from + n
       /\ \A k \in 1..Len(f) : f[k].frg = Len(f) - k
    BY <1>1, <1>3, <1>5, <1>6, <1>8, <1>9, <1>10
<1> QED
    BY <1>11 DEF f

(* One more message is written. *)
LEMMA SendWhole ==
    ASSUME NEW s \in Seq(Piece), NEW w \in Seq(Chunk), NEW g \in Seq(Chunk), NEW m,
           Whole(s, w, g, m), NEW f \in Seq(Piece), NEW x \in Chunk,
           Len(f) # 0, f[1].lo = x.lo, f[Len(f)].hi = x.hi,
           \A k \in 1..Len(f) : f[k].frg = Len(f) - k
    PROVE  Whole(s \o f, Append(w, x), g, m)
<1> DEFINE n == Len(w)
           v == Append(w, x)
           t == s \o f
<1>1. PICK at \in [1..(n + 1) -> 0..Len(s)] :
          /\ Cuts(s, w, at)
          /\ Len(g) =< n /\ at[Len(g) + 1] = m
          /\ \A i \in 1..Len(g) : g[i] = w[i]
    BY DEF Whole
<1>2. n \in Nat /\ Len(s) \in Nat /\ Len(f) \in Nat /\ Len(g) \in Nat
    OBVIOUS
<1>3. Len(v) = n + 1 /\ v[n + 1] = x /\ \A i \in 1..n : v[i] = w[i]
    OBVIOUS
<1>4. /\ t \in Seq(Piece) /\ Len(t) = Len(s) + Len(f)
      /\ \A i \in 1..Len(s) : t[i] = s[i]
      /\ \A i \in 1..Len(f) : t[Len(s) + i] = f[i]
    BY ConcatFields
<1> DEFINE to == [i \in 1..(n + 2) |-> IF i = n + 2 THEN Len(s) + Len(f) ELSE at[i]]
<1> HIDE DEF n, v, t
<1>5. /\ at[1] = 0 /\ at[n + 1] = Len(s) /\ \A i \in 1..(n + 1) : at[i] \in 0..Len(s)
      /\ \A i \in 1..n :
             /\ at[i] < at[i + 1]
             /\ s[at[i] + 1].lo = w[i].lo /\ s[at[i + 1]].hi = w[i].hi
             /\ \A k \in (at[i] + 1)..at[i + 1] : s[k].frg = at[i + 1] - k
    BY <1>1 DEF Cuts, n
<1>6. /\ to[n + 2] = Len(s) + Len(f) /\ \A i \in 1..(n + 1) : to[i] = at[i]
      /\ to \in [1..(Len(v) + 1) -> 0..Len(t)]
  <2>1. Len(v) + 1 = n + 2
      BY <1>2, <1>3
  <2>2. \A i \in 1..(n + 2) : to[i] \in 0..Len(t)
      BY <1>2, <1>4, <1>5
  <2> QED
      BY <1>2, <2>1, <2>2
<1> HIDE DEF to
<1>7. ASSUME NEW i \in 1..Len(v)
      PROVE  /\ to[i] < to[i + 1]
             /\ t[to[i] + 1].lo = v[i].lo /\ t[to[i + 1]].hi = v[i].hi
             /\ \A k \in (to[i] + 1)..to[i + 1] : t[k].frg = to[i + 1] - k
  <2>1. CASE i \in 1..n
    <3>1. /\ i \in 1..(n + 1) /\ i + 1 \in 1..(n + 1)
          /\ at[i] \in 0..Len(s) /\ at[i + 1] \in 0..Len(s) /\ at[i] < at[i + 1]
      <4>1. i \in 1..(n + 1) /\ i + 1 \in 1..(n + 1)
          BY <1>2, <2>1
      <4>2. at[i] \in 0..Len(s) /\ at[i + 1] \in 0..Len(s)
          BY <1>5, <4>1
      <4>3. at[i] < at[i + 1]
          BY <1>5, <2>1
      <4> QED
          BY <4>1, <4>2, <4>3
    <3>2. \A k \in (at[i] + 1)..at[i + 1] : k \in 1..Len(s)
      <4> TAKE k \in (at[i] + 1)..at[i + 1]
      <4> DEFINE lo == at[i]
                 hi == at[i + 1]
      <4>1. lo \in 0..Len(s) /\ hi \in 0..Len(s) /\ k \in (lo + 1)..hi
          BY <3>1
      <4> HIDE DEF lo, hi
      <4> QED
          BY <1>2, <4>1
    <3>3. at[i] + 1 \in (at[i] + 1)..at[i + 1] /\ at[i + 1] \in (at[i] + 1)..at[i + 1]
        BY <3>1
    <3>4. \A k \in (at[i] + 1)..at[i + 1] : t[k] = s[k]
        BY <1>4, <3>2
    <3>5. to[i] = at[i] /\ to[i + 1] = at[i + 1] /\ v[i] = w[i]
        BY <1>3, <1>6, <2>1, <3>1
    <3>6. /\ s[at[i] + 1].lo = w[i].lo /\ s[at[i + 1]].hi = w[i].hi
          /\ \A k \in (at[i] + 1)..at[i + 1] : s[k].frg = at[i + 1] - k
        BY <1>5, <2>1
    <3>7. t[at[i] + 1] = s[at[i] + 1] /\ t[at[i + 1]] = s[at[i + 1]]
        BY <3>3, <3>4
    <3>8. \A k \in (at[i] + 1)..at[i + 1] : t[k].frg = at[i + 1] - k
        BY <3>4, <3>6
    <3> QED
        BY <3>1, <3>5, <3>6, <3>7, <3>8
  <2>2. CASE i = n + 1
    <3>1. /\ i + 1 = n + 2 /\ to[i] = Len(s) /\ to[i + 1] = Len(s) + Len(f)
          /\ n + 1 \in 1..(n + 1)
        BY <1>2, <1>5, <1>6, <2>2
    <3>2. 1 \in 1..Len(f) /\ Len(f) \in 1..Len(f)
        BY <1>2
    <3>3. t[Len(s) + 1] = f[1] /\ t[Len(s) + Len(f)] = f[Len(f)]
        BY <1>4, <3>2
    <3>4. ASSUME NEW k \in (to[i] + 1)..to[i + 1]
          PROVE  t[k].frg = to[i + 1] - k
      <4>1. /\ k - Len(s) \in 1..Len(f) /\ Len(s) + (k - Len(s)) = k
            /\ to[i + 1] - k = Len(f) - (k - Len(s))
          BY <1>2, <3>1
      <4> QED
          BY <1>4, <4>1
    <3> QED
        BY <1>2, <1>3, <2>2, <3>1, <3>3, <3>4
  <2> QED
      BY <1>2, <1>3, <2>1, <2>2
<1>8. Cuts(t, v, to)
  <2>1. Len(v) + 1 = n + 2 /\ 1 \in 1..(n + 1)
      BY <1>2, <1>3
  <2> QED
      BY <1>4, <1>5, <1>6, <1>7, <2>1 DEF Cuts
<1>9. /\ Len(g) =< Len(v) /\ to[Len(g) + 1] = m
      /\ \A i \in 1..Len(g) : g[i] = v[i]
  <2>1. Len(g) =< n /\ at[Len(g) + 1] = m /\ \A i \in 1..Len(g) : g[i] = w[i]
      BY <1>1 DEF n
  <2>2. Len(g) + 1 \in 1..(n + 1) /\ \A i \in 1..Len(g) : i \in 1..n
      BY <1>2, <2>1
  <2> QED
      BY <1>2, <1>3, <1>6, <2>1, <2>2
<1>10. Whole(t, v, g, m)
    BY <1>6, <1>8, <1>9 DEF Whole
<1> QED
    BY <1>10 DEF t, v

(* What ikcp_peeksize finds is the next message, whole. *)
LEMMA TakeWhole ==
    ASSUME NEW d, IsCB(d), NEW s \in Seq(Piece), NEW w \in Seq(Chunk), NEW g \in Seq(Chunk),
           NEW m \in Nat, Whole(s, w, g, m), ikcp_peeksize(d) # 0,
           m + Len(d.rcv_queue) =< Len(s),
           \A i \in 1..Len(d.rcv_queue) : d.rcv_queue[i] = s[m + i]
    PROVE  Whole(s, w, Append(g, FirstMessage(d)), m + ikcp_peeksize(d))
<1> DEFINE q == d.rcv_queue
           j == Len(g) + 1
           S == {i \in DOMAIN q : q[i].frg = 0 \/ i = Len(q)}
           msg == FirstMessage(d)
<1>1. PICK at \in [1..(Len(w) + 1) -> 0..Len(s)] :
          /\ Cuts(s, w, at)
          /\ Len(g) =< Len(w) /\ at[j] = m
          /\ \A i \in 1..Len(g) : g[i] = w[i]
    BY DEF Whole
<1>2. q \in Seq(Piece) /\ q # <<>> /\ ~(Len(q) < q[1].frg + 1) /\ ikcp_peeksize(d) = Least(S)
    BY DEF IsCB, ikcp_peeksize
<1>3. /\ Len(q) \in Nat \ {0} /\ DOMAIN q = 1..Len(q) /\ 1 \in 1..Len(q)
      /\ Len(s) \in Nat /\ Len(w) \in Nat /\ Len(g) \in Nat /\ m \in Nat
    BY <1>2
<1>4. m + Len(q) =< Len(s) /\ \A i \in 1..Len(q) : q[i] = s[m + i]
    OBVIOUS
<1>10. msg = [lo |-> q[1].lo, hi |-> q[ikcp_peeksize(d)].hi]
    BY DEF FirstMessage
<1> HIDE DEF q, msg
<1>5. j \in 1..Len(w)
  <2>1. at[Len(w) + 1] = Len(s)
      BY <1>1 DEF Cuts
  <2>2. j # Len(w) + 1
      BY <1>1, <1>3, <1>4, <2>1
  <2> QED
      BY <1>1, <1>3, <2>2
<1> DEFINE n == at[j + 1] - m
<1>6. /\ n \in Nat \ {0} /\ m + n =< Len(s) /\ m + n = at[j + 1]
      /\ s[m + 1].lo = w[j].lo /\ s[m + n].hi = w[j].hi
      /\ \A k \in (m + 1)..(m + n) : s[k].frg = m + n - k
  <2>1. /\ at[j] < at[j + 1]
        /\ s[at[j] + 1].lo = w[j].lo /\ s[at[j + 1]].hi = w[j].hi
        /\ \A k \in (at[j] + 1)..at[j + 1] : s[k].frg = at[j + 1] - k
      BY <1>1, <1>5 DEF Cuts
  <2>2. at[j] = m /\ at[j + 1] \in 0..Len(s)
      BY <1>1, <1>3, <1>5
  <2>3. /\ n \in Nat \ {0} /\ m + n = at[j + 1] /\ m + n =< Len(s)
    <3> DEFINE e == at[j + 1]
    <3>1. e \in 0..Len(s) /\ m < e /\ n = e - m
        BY <2>1, <2>2
    <3> HIDE DEF e, n
    <3>2. n \in Nat \ {0} /\ m + n = e /\ e =< Len(s)
        BY <1>3, <3>1
    <3> QED
        BY <3>2 DEF e
  <2> HIDE DEF n
  <2>4. s[m + 1].lo = w[j].lo /\ s[m + n].hi = w[j].hi
      BY <2>1, <2>2, <2>3
  <2>6. m + n \in Nat
      BY <1>3, <2>3
  <2>5. \A k \in (m + 1)..(m + n) : s[k].frg = m + n - k
    <3> TAKE k \in (m + 1)..(m + n)
    <3>1. k \in (at[j] + 1)..at[j + 1] /\ k \in Int
        BY <1>3, <2>2, <2>3, <2>6
    <3>2. s[k].frg = at[j + 1] - k
        BY <2>1, <3>1
    <3> QED
        BY <1>3, <2>3, <3>1, <3>2
  <2> QED
      BY <2>3, <2>4, <2>5
<1> HIDE DEF n
<1>7. q[1].frg = n - 1
  <2>1. m + 1 \in (m + 1)..(m + n) /\ m + n - (m + 1) = n - 1
    <3>1. m \in Nat /\ n \in Nat /\ n >= 1
        BY <1>3, <1>6
    <3> QED
        BY <3>1
  <2>2. s[m + 1].frg = n - 1
      BY <1>6, <2>1
  <2>3. q[1] = s[m + 1]
      BY <1>3, <1>4
  <2> QED
      BY <2>2, <2>3
<1>8. n \in 1..Len(q)
    BY <1>2, <1>3, <1>6, <1>7
<1>9. Least(S) = n
  <2>1. \A i \in 1..n : q[i].frg = n - i
    <3> SUFFICES ASSUME NEW i \in 1..n
                 PROVE  q[i].frg = n - i
        OBVIOUS
    <3>1. i \in 1..Len(q) /\ m + i \in (m + 1)..(m + n) /\ m + n - (m + i) = n - i
        BY <1>3, <1>6, <1>8
    <3> QED
        BY <1>4, <1>6, <3>1
  <2>2. n \in S
    <3>1. n \in 1..n /\ n - n = 0
        BY <1>6
    <3>2. q[n].frg = 0
        BY <2>1, <3>1
    <3> QED
        BY <1>3, <1>8, <3>2
  <2>3. S \in SUBSET Nat /\ S # {}
      BY <1>3, <2>2
  <2>4. Least(S) \in S /\ Least(S) =< n
      BY <2>2, <2>3, LeastIsLeast
  <2>5. ~(Least(S) < n)
    <3> SUFFICES ASSUME Least(S) < n
                 PROVE  FALSE
        OBVIOUS
    <3>1. Least(S) \in 1..n /\ Least(S) # Len(q)
        BY <1>3, <1>6, <1>8, <2>4
    <3>2. q[Least(S)].frg # 0
        BY <1>6, <2>1, <3>1
    <3> QED
        BY <2>4, <3>1, <3>2
  <2>6. Least(S) \in Nat
      BY <2>3, <2>4
  <2> QED
      BY <1>6, <2>4, <2>5, <2>6
<1>11. msg = w[j]
  <2>1. w[j] \in Chunk
      BY <1>5
  <2>2. w[j] = [lo |-> w[j].lo, hi |-> w[j].hi]
      BY <2>1 DEF Chunk
  <2>3. q[1].lo = w[j].lo /\ q[n].hi = w[j].hi
      BY <1>3, <1>4, <1>6, <1>8
  <2> QED
      BY <1>2, <1>9, <1>10, <2>2, <2>3
<1> DEFINE h == Append(g, msg)
<1>12. Len(h) = j /\ h[j] = msg /\ \A i \in 1..Len(g) : h[i] = g[i]
    OBVIOUS
<1> HIDE DEF h
<1>13. /\ Len(h) =< Len(w) /\ at[Len(h) + 1] = m + n
       /\ \A i \in 1..Len(h) : h[i] = w[i]
  <2>1. \A i \in 1..Len(h) : i \in 1..Len(g) \/ i = j
      BY <1>3, <1>12
  <2>2. \A i \in 1..Len(h) : h[i] = w[i]
      BY <1>1, <1>11, <1>12, <2>1
  <2>3. Len(h) =< Len(w)
      BY <1>3, <1>5, <1>12
  <2>4. at[Len(h) + 1] = m + n
      BY <1>6, <1>12
  <2> QED
      BY <2>2, <2>3, <2>4
<1>14. Whole(s, w, h, m + n)
    BY <1>1, <1>13 DEF Whole
<1> QED
    BY <1>2, <1>9, <1>14 DEF h, msg

-----------------------------------------------------------------------------
(* What moves the place where rcv_queue starts: only ikcp_recv.            *)

LEMMA StartArrange ==
    ASSUME NEW c, IsCB(c)
    PROVE  IsCB(Arrange(c)) /\ Start(Arrange(c)) = Start(c)
<1>1. /\ IsCB(Arrange(c)) /\ Arrange(c).rcv_nxt = c.rcv_nxt + Ready(c)
      /\ Len(Arrange(c).rcv_queue) = Len(c.rcv_queue) + Ready(c)
    BY ArrangeFields
<1>2. Ready(c) \in Nat /\ c.rcv_nxt \in Nat /\ Len(c.rcv_queue) \in Nat
    BY ReadyRuns, CBFields
<1> QED
    BY <1>1, <1>2 DEF Start

LEMMA StartRecv ==
    ASSUME NEW c, IsCB(c), NEW n \in 1..Len(c.rcv_queue)
    PROVE  /\ Start(ikcp_recv(c, n)) = Start(c) + n
           /\ ikcp_recv(c, n).snd_queue = c.snd_queue
<1> DEFINE d == ikcp_recv(c, n)
<1>1. PICK b : Freed(c, b, n) /\ SameSender(c, d) /\ SameReceiver(Arrange(b), d)
    BY RecvFields
<1> HIDE DEF d
<1>2. Start(d) = Start(Arrange(b))
    BY <1>1 DEF SameReceiver, Start
<1>3. Start(Arrange(b)) = Start(b)
    BY <1>1, StartArrange DEF Freed
<1>4. Start(b) = Start(c) + n
    BY <1>1, CBFields DEF Freed, Start
<1> QED
    BY <1>1, <1>2, <1>3, <1>4 DEF SameSender, d

LEMMA StartInput ==
    ASSUME NEW c, IsCB(c), NEW seg \in Segment
    PROVE  /\ Start(ikcp_input(c, seg)) = Start(c)
           /\ ikcp_input(c, seg).snd_queue = c.snd_queue
<1> DEFINE d == ikcp_input(c, seg)
<1>1. PICK h : /\ IsCB(h) /\ SameReceiver(c, h)
               /\ IF seg.cmd = "PUSH" THEN d = InputPush(h, seg)
                  ELSE SameReceiver(h, d) /\ d.acklist = h.acklist
    BY InputFields
<1>2. d.snd_queue = c.snd_queue
    BY InputFields
<1> HIDE DEF d
<1>3. Start(h) = Start(c)
    BY <1>1 DEF SameReceiver, Start
<1> SUFFICES Start(d) = Start(c)
    BY <1>2 DEF d
<1>4. CASE seg.cmd # "PUSH"
    BY <1>1, <1>3, <1>4 DEF SameReceiver, Start
<1>5. CASE seg.cmd = "PUSH"
  <2>1. seg.sn \in Nat /\ seg.data \in Piece /\ d = InputPush(h, seg)
      BY <1>1, <1>5, SegmentFields
  <2>2. \/ d = h
        \/ SameReceiver(h, d)
        \/ \E b : Placed(h, b, seg.sn, seg.data) /\ d = Arrange(b)
      BY <1>1, <2>1, InputPushFields
  <2>3. SameReceiver(h, d) => Start(d) = Start(h)
      BY DEF SameReceiver, Start
  <2>4. ASSUME NEW b, Placed(h, b, seg.sn, seg.data), d = Arrange(b)
        PROVE  Start(d) = Start(h)
    <3>1. IsCB(b) /\ Start(b) = Start(h)
        BY <2>4 DEF Placed, Start
    <3> QED
        BY <2>4, <3>1, StartArrange
  <2> QED
      BY <1>3, <2>2, <2>3, <2>4
<1> QED
    BY <1>4, <1>5

(* A flush numbers pieces and leaves them where they are. *)
LEMMA FlushPieces ==
    ASSUME NEW c, IsCB(c), NEW s \in Seq(Piece)
    PROVE  /\ (s \o SubSeq(c.snd_queue, 1, Numbered(c))) \o ikcp_flush(c).snd_queue
                  = s \o c.snd_queue
           /\ Start(ikcp_flush(c)) = Start(c)
<1> DEFINE q == c.snd_queue
           n == Numbered(c)
<1>1. n \in 0..Len(q) /\ q \in Seq(Piece)
    BY NumberedBounds, CBFields
<1>2. /\ ikcp_flush(c).snd_queue = SubSeq(q, n + 1, Len(q))
      /\ SameReceiver(c, ikcp_flush(c))
    BY FlushFields
<1> HIDE DEF n, q
<1>3. SubSeq(q, 1, n) \in Seq(Piece) /\ SubSeq(q, n + 1, Len(q)) \in Seq(Piece)
    BY <1>1, CutFields
<1>4. SubSeq(q, 1, n) \o SubSeq(q, n + 1, Len(q)) = q
  <2>1. /\ 1 \in 1..(Len(q) + 1) /\ n \in (1 - 1)..Len(q) /\ Len(q) \in n..Len(q)
      BY <1>1
  <2>2. SubSeq(q, 1, n) \o SubSeq(q, n + 1, Len(q)) = SubSeq(q, 1, Len(q))
      BY <1>1, <2>1, ConcatAdjacentSubSeq
  <2> QED
      BY <1>1, <2>2, SubSeqFull
<1>5. (s \o SubSeq(q, 1, n)) \o SubSeq(q, n + 1, Len(q)) = s \o q
  <2> DEFINE u == SubSeq(q, 1, n)
             v == SubSeq(q, n + 1, Len(q))
  <2>3. u \in Seq(Piece) /\ v \in Seq(Piece)
      BY <1>3
  <2> HIDE DEF u, v
  <2>1. (s \o u) \o v = s \o (u \o v)
      BY <2>3, ConcatAssociative
  <2>2. u \o v = q
      BY <1>4 DEF u, v
  <2> QED
      BY <2>1, <2>2 DEF u, v
<1>6. Start(ikcp_flush(c)) = Start(c)
    BY <1>2 DEF SameReceiver, Start
<1> QED
    BY <1>2, <1>5, <1>6 DEF n, q

-----------------------------------------------------------------------------
(* The session.                                                            *)

Pieces(e) == segs[e] \o cb[e].snd_queue

(* The messages of e have come to its peer whole.                           *)
Heard(e) == Whole(Pieces(e), writes[e], got[Peer[e]], Start(cb[Peer[e]]))

MInv == \A e \in Ends \ Stream : Heard(e)

LEMMA InitHeard ==
    ASSUME Init
    PROVE  MInv
<1> SUFFICES ASSUME NEW e \in Ends
             PROVE  Heard(e)
    BY DEF MInv
<1>1. /\ cb[e] = ikcp_create /\ cb[Peer[e]] = ikcp_create
      /\ segs[e] = <<>> /\ writes[e] = <<>> /\ got[Peer[e]] = <<>>
    BY PeerFields DEF Init
<1>2. ikcp_create.snd_queue = <<>> /\ ikcp_create.rcv_queue = <<>> /\ ikcp_create.rcv_nxt = 0
    BY DEF ikcp_create
<1>3. <<>> \o <<>> = <<>> /\ Len(<<>>) = 0
    OBVIOUS
<1>4. Start(ikcp_create) = 0
  <2> DEFINE c == ikcp_create
  <2> HIDE DEF c
  <2>1. Len(c.rcv_queue) = 0 /\ c.rcv_nxt = 0
      BY <1>2, <1>3 DEF c
  <2>2. Start(c) = 0
      BY <2>1 DEF Start
  <2> QED
      BY <2>2 DEF c
<1>5. Whole(<<>>, <<>>, <<>>, 0)
  <2> DEFINE at == [i \in 1..1 |-> 0]
  <2>1. at \in [1..(Len(<<>>) + 1) -> 0..Len(<<>>)] /\ at[1] = 0
      BY <1>3
  <2> HIDE DEF at
  <2>2. Cuts(<<>>, <<>>, at)
      BY <1>3, <2>1 DEF Cuts
  <2> QED
      BY <1>3, <2>1, <2>2 DEF Whole
<1> QED
    BY <1>1, <1>2, <1>3, <1>4, <1>5 DEF Heard, Pieces

(* An end takes the first message of its queue. *)
LEMMA TakeHeard ==
    ASSUME IInv, NEW e \in Ends, Heard(e),
           NEW d, IsCB(d), SameReceiver(cb[Peer[e]], d), ikcp_peeksize(d) # 0
    PROVE  Whole(Pieces(e), writes[e], Append(got[Peer[e]], FirstMessage(d)),
                 Start(ikcp_recv(d, ikcp_peeksize(d))))
<1> DEFINE c == cb[e]
           b == cb[Peer[e]]
           s == segs[e]
           q == d.rcv_queue
<1>1. IsCB(c) /\ IsCB(b) /\ s \in Seq(Piece) /\ Arrived(b, s)
    BY LinksOf DEF Link
<1>2. /\ c.snd_queue \in Seq(Piece) /\ b.rcv_nxt \in Nat /\ Len(b.rcv_queue) \in Nat
      /\ writes[e] \in Seq(Chunk) /\ got[Peer[e]] \in Seq(Chunk)
    BY <1>1, CBFields, PeerFields DEF IInv, Typed
<1>3. q = b.rcv_queue /\ Start(d) = Start(b)
    BY DEF SameReceiver, Start
<1>4. Whole(Pieces(e), writes[e], got[Peer[e]], Start(d))
    BY <1>3 DEF Heard
<1> HIDE DEF c, b, s, q
<1>5. /\ Pieces(e) \in Seq(Piece) /\ Len(Pieces(e)) \in Nat /\ Len(Pieces(e)) >= Len(s)
      /\ \A i \in 1..Len(s) : Pieces(e)[i] = s[i]
  <2>1. Pieces(e) = s \o c.snd_queue
      BY DEF Pieces, s, c
  <2>2. Len(s) \in Nat /\ Len(c.snd_queue) \in Nat
      BY <1>1, <1>2
  <2> QED
      BY <1>1, <1>2, <2>1, <2>2, ConcatFields
<1>6. /\ Start(d) \in Nat /\ Start(d) + Len(q) =< Len(s) /\ Len(s) \in Nat /\ Len(q) \in Nat
      /\ \A i \in 1..Len(q) : q[i] = s[Start(d) + i]
    BY <1>1, <1>2, <1>3 DEF Arrived, Start
<1>7. Start(d) + Len(q) =< Len(Pieces(e)) /\ \A i \in 1..Len(q) : q[i] = Pieces(e)[Start(d) + i]
  <2>1. \A i \in 1..Len(q) : Start(d) + i \in 1..Len(s)
      BY <1>6
  <2>2. \A i \in 1..Len(q) : q[i] = Pieces(e)[Start(d) + i]
      BY <1>5, <1>6, <2>1
  <2> DEFINE p == Len(Pieces(e))
             m == Len(s)
             k == Len(q)
             a == Start(d)
  <2>3. a + k =< m /\ m =< p /\ a \in Nat /\ k \in Nat /\ m \in Nat /\ p \in Nat
      BY <1>5, <1>6
  <2> HIDE DEF p, m, k, a
  <2>4. a + k =< p
      BY <2>3
  <2> QED
      BY <2>2, <2>4 DEF p, k, a
<1>8. Whole(Pieces(e), writes[e], Append(got[Peer[e]], FirstMessage(d)),
            Start(d) + ikcp_peeksize(d))
    BY <1>2, <1>4, <1>5, <1>6, <1>7, TakeWhole DEF q
<1>9. Start(ikcp_recv(d, ikcp_peeksize(d))) = Start(d) + ikcp_peeksize(d)
    BY PeekIsInQueue, StartRecv
<1> QED
    BY <1>8, <1>9

(* In message mode a call puts all its bytes behind the queue or none.      *)
LEMMA MessageSend ==
    ASSUME NEW c, IsCB(c), NEW from \in Nat, NEW n \in Nat \ {0}
    PROVE  LET d   == ikcp_send(c, from, n, FALSE)
               len == Accepted(c.snd_queue, n, FALSE)
           IN  /\ len \in Nat
               /\ d.snd_queue = IF len = 0 THEN c.snd_queue
                                ELSE c.snd_queue \o Fragments(from, len, FALSE)
<1> DEFINE d == ikcp_send(c, from, n, FALSE)
           q == c.snd_queue
           len == Accepted(q, n, FALSE)
<1>1. q \in Seq(Piece) /\ "snd_queue" \in DOMAIN c
    BY DEF IsCB
<1>2. Extend(q, n, FALSE) = 0 /\ FillLast(q, 0) = q
    BY DEF Extend, FillLast
<1>3. len \in {0, n}
    BY <1>2 DEF Accepted
<1>4. d.snd_queue = FillLast(q, Extend(q, n, FALSE))
                        \o Fragments(from + Extend(q, n, FALSE), len - Extend(q, n, FALSE), FALSE)
    BY <1>1 DEF ikcp_send
<1> HIDE DEF d, q, len
<1>5. d.snd_queue = q \o Fragments(from, len, FALSE)
  <2>1. from + 0 = from /\ len - 0 = len
      BY <1>3
  <2> QED
      BY <1>2, <1>4, <2>1
<1>6. ASSUME len = 0
      PROVE  d.snd_queue = q
  <2> DEFINE count == CeilDiv(0, Mss)
  <2>1. Mss \in Nat \ {0}
      BY IkcpAssumption
  <2>2. count \in Nat /\ count * Mss < 0 + Mss
      BY <2>1, CeilDivBounds
  <2> HIDE DEF count
  <2>3. count = 0
      BY <2>1, <2>2
  <2>4. Fragments(from, 0, FALSE) = <<>>
    <3>1. Fragments(from, 0, FALSE) \in Seq(Piece)
        BY FragmentsChain
    <3>2. DOMAIN Fragments(from, 0, FALSE) = 1..0
        BY <2>3 DEF Fragments, count
    <3> DEFINE g == Fragments(from, 0, FALSE)
    <3> HIDE DEF g
    <3>3. g \in Seq(Piece) /\ DOMAIN g = 1..0
        BY <3>1, <3>2 DEF g
    <3>4. Len(g) = 0
        BY <3>3
    <3> QED
        BY <3>3, <3>4, EmptySeq DEF g
  <2>5. q \o <<>> = q
      BY <1>1
  <2> QED
      BY <1>5, <1>6, <2>4, <2>5
<1>7. len \in Nat /\ d.snd_queue = IF len = 0 THEN q ELSE q \o Fragments(from, len, FALSE)
  <2>1. len \in Nat
      BY <1>3
  <2>2. CASE len = 0
      BY <1>6, <2>1, <2>2
  <2>3. CASE len # 0
      BY <1>5, <2>1, <2>3, Zenon
  <2> QED
      BY <2>2, <2>3
<1> QED
    BY <1>7 DEF d, q, len

LEMMA SameHeard ==
    ASSUME NEW e \in Ends, Heard(e), Pieces(e)' = Pieces(e), writes'[e] = writes[e],
           got'[Peer[e]] = got[Peer[e]], Start(cb'[Peer[e]]) = Start(cb[Peer[e]])
    PROVE  Heard(e)'
BY DEF Heard

LEMMA WriteHeard ==
    ASSUME IInv, NEW e \in Ends, Write(e), NEW x \in Ends \ Stream, Heard(x)
    PROVE  Heard(x)'
<1> DEFINE f == Peer[e]
           from == End(writes[e])
<1>1. PICK n \in Sizes[e] :
          LET len == Accepted(cb[e].snd_queue, n, e \in Stream)
          IN  /\ cb' = [cb EXCEPT ![e] = ikcp_send(cb[e], from, n, e \in Stream)]
              /\ writes' = [writes EXCEPT ![e] =
                     IF len = 0 THEN writes[e]
                     ELSE Append(writes[e], [lo |-> from, hi |-> from + len])]
              /\ UNCHANGED <<net, m_bread, segs, got>>
    BY DEF Write
<1>2. n \in Nat \ {0}
    BY LinkAssumption
<1>3. /\ DOMAIN cb = Ends /\ writes \in [Ends -> Seq(Chunk)] /\ got \in [Ends -> Seq(Chunk)]
      /\ segs \in [Ends -> Seq(Piece)] /\ IsCB(cb[e])
    BY LinksOf DEF IInv, Typed
<1>4. f \in Ends /\ f # e /\ Peer[f] = e /\ (x = e \/ x = f)
    BY PeerFields
<1>5. from \in Nat
    BY <1>3, EndFields
<1>6. CASE x = f
  <2> DEFINE c == ikcp_send(cb[e], from, n, e \in Stream)
  <2>1. SameReceiver(cb[e], c)
    <3>1. Link(cb[e], cb[f], segs[e], net[f], net[e], from, End(got[f]))
        BY LinksOf
    <3> QED
        BY <1>2, <3>1, SenderSend
  <2> HIDE DEF c, from
  <2>2. Start(cb'[e]) = Start(cb[e])
      BY <1>1, <1>3, <2>1 DEF SameReceiver, Start, c
  <2>3. cb'[f] = cb[f] /\ writes'[f] = writes[f] /\ segs' = segs /\ got' = got
      BY <1>1, <1>3, <1>4
  <2>4. Pieces(f)' = Pieces(f)
      BY <2>3 DEF Pieces
  <2> HIDE DEF f
  <2> QED
      BY <1>4, <1>6, <2>2, <2>3, <2>4, SameHeard
<1>7. CASE x = e
  <2> DEFINE c == ikcp_send(cb[e], from, n, FALSE)
             len == Accepted(cb[e].snd_queue, n, FALSE)
             q == cb[e].snd_queue
             s == Pieces(e)
             msg == [lo |-> from, hi |-> from + len]
  <2>1. (e \in Stream) = FALSE
      BY <1>7
  <2>2. /\ cb' = [cb EXCEPT ![e] = c]
        /\ writes' = [writes EXCEPT ![e] = IF len = 0 THEN writes[e] ELSE Append(writes[e], msg)]
        /\ segs' = segs /\ got' = got
      BY <1>1, <2>1
  <2>3. len \in Nat /\ c.snd_queue = IF len = 0 THEN q ELSE q \o Fragments(from, len, FALSE)
      BY <1>2, <1>3, <1>5, MessageSend
  <2> HIDE DEF c, len
  <2>4. /\ cb'[e] = c /\ cb'[f] = cb[f] /\ got'[f] = got[f]
        /\ writes'[e] = IF len = 0 THEN writes[e] ELSE Append(writes[e], msg)
    <3> HIDE DEF from
    <3> QED
        BY <1>3, <1>4, <2>2
  <2>5. Pieces(e)' = segs[e] \o c.snd_queue
      BY <2>2, <2>4 DEF Pieces
  <2>6. CASE len = 0
    <3>1. Pieces(e)' = Pieces(e) /\ writes'[e] = writes[e]
        BY <2>3, <2>4, <2>5, <2>6 DEF Pieces
    <3> HIDE DEF f
    <3> QED
        BY <1>7, <2>4, <3>1, SameHeard DEF f
  <2>7. CASE len # 0
    <3> DEFINE g == Fragments(from, len, FALSE)
    <3>1. len \in Nat \ {0}
        BY <2>3, <2>7
    <3>2. /\ g \in Seq(Piece) /\ Len(g) \in Nat \ {0}
          /\ g[1].lo = from /\ g[Len(g)].hi = from + len
          /\ \A k \in 1..Len(g) : g[k].frg = Len(g) - k
        BY <1>5, <3>1, FragmentsFields
    <3> HIDE DEF g, from
    <3>3. q \in Seq(Piece) /\ segs[e] \in Seq(Piece) /\ s = segs[e] \o q /\ s \in Seq(Piece)
        BY <1>3, CBFields DEF Pieces
    <3>4. Pieces(e)' = s \o g
      <4>1. Pieces(e)' = segs[e] \o (q \o g)
          BY <2>3, <2>5, <2>7 DEF g
      <4> DEFINE p == segs[e]
      <4> HIDE DEF q, s, p
      <4>2. p \in Seq(Piece) /\ q \in Seq(Piece) /\ g \in Seq(Piece)
          BY <3>2, <3>3 DEF p
      <4>3. (p \o q) \o g = p \o (q \o g)
          BY <4>2, ConcatAssociative
      <4> QED
          BY <3>3, <4>1, <4>3 DEF p
    <3>5. msg \in Chunk /\ msg.lo = from /\ msg.hi = from + len
        BY <1>5, <2>3 DEF Chunk
    <3>6. Whole(s, writes[e], got[f], Start(cb[f]))
        BY <1>7 DEF Heard
    <3>7. writes[e] \in Seq(Chunk) /\ got[f] \in Seq(Chunk)
        BY <1>3, <1>4
    <3> HIDE DEF s, msg
    <3>8. Whole(s \o g, Append(writes[e], msg), got[f], Start(cb[f]))
        BY <3>2, <3>3, <3>5, <3>6, <3>7, SendWhole
    <3> QED
        BY <1>7, <2>4, <2>7, <3>4, <3>8 DEF Heard
  <2> QED
      BY <2>6, <2>7
<1> QED
    BY <1>4, <1>6, <1>7

(* A flush of e: nothing moves, in its own direction or in the other.       *)
LEMMA FlushHeard ==
    ASSUME IInv, NEW e \in Ends, NEW some, Flush(e, cb[e], some)
    PROVE  /\ segs'[e] \o ikcp_flush(cb[e]).snd_queue = Pieces(e)
           /\ segs'[Peer[e]] = segs[Peer[e]]
           /\ Start(ikcp_flush(cb[e])) = Start(cb[e])
           /\ SameReceiver(cb[e], ikcp_flush(cb[e])) /\ IsCB(ikcp_flush(cb[e]))
<1> DEFINE c == cb[e]
<1>1. IsCB(c) /\ segs \in [Ends -> Seq(Piece)] /\ Peer[e] \in Ends /\ Peer[e] # e
    BY LinksOf, PeerFields DEF IInv, Typed
<1>2. segs' = [segs EXCEPT ![e] = segs[e] \o SubSeq(c.snd_queue, 1, Numbered(c))]
    BY DEF Flush
<1>3. segs'[e] = segs[e] \o SubSeq(c.snd_queue, 1, Numbered(c))
      /\ segs'[Peer[e]] = segs[Peer[e]]
    BY <1>1, <1>2
<1>4. segs[e] \in Seq(Piece)
    BY <1>1
<1> HIDE DEF c
<1>5. /\ (segs[e] \o SubSeq(c.snd_queue, 1, Numbered(c))) \o ikcp_flush(c).snd_queue
             = segs[e] \o c.snd_queue
      /\ Start(ikcp_flush(c)) = Start(c)
    BY <1>1, <1>4, FlushPieces
<1>6. SameReceiver(c, ikcp_flush(c)) /\ IsCB(ikcp_flush(c))
    BY <1>1, FlushFields
<1> QED
    BY <1>3, <1>5, <1>6 DEF Pieces, c

LEMMA ClientFlushHeard ==
    ASSUME IInv, NEW some, ClientFlush(some), NEW x \in Ends, Heard(x)
    PROVE  Heard(x)'
<1> DEFINE c == ikcp_flush(cb["client"])
<1>1. /\ Flush("client", cb["client"], some) /\ cb' = [cb EXCEPT !["client"] = c]
      /\ writes' = writes /\ got' = got
    BY DEF ClientFlush
<1>2. /\ segs'["client"] \o c.snd_queue = Pieces("client") /\ segs'["server"] = segs["server"]
      /\ Start(c) = Start(cb["client"])
    BY <1>1, FlushHeard, ClientServer
<1> HIDE DEF c
<1>3. cb'["client"] = c /\ cb'["server"] = cb["server"]
    BY <1>1, ClientServer DEF IInv, Typed
<1>4. Pieces("client")' = Pieces("client") /\ Pieces("server")' = Pieces("server")
    BY <1>2, <1>3 DEF Pieces
<1>5. Start(cb'["client"]) = Start(cb["client"]) /\ Start(cb'["server"]) = Start(cb["server"])
    BY <1>2, <1>3
<1>6. x = "client" \/ x = "server"
    BY DEF Ends
<1> QED
    BY <1>1, <1>4, <1>5, <1>6, ClientServer, SameHeard

(* OnDealMsg on the control block c that the flush has left, or on the old. *)
LEMMA DealHeard ==
    ASSUME IInv, NEW c, IsCB(c), SameReceiver(cb["server"], c), OnDealMsg(c), writes' = writes,
           segs'["server"] \o c.snd_queue = Pieces("server"), segs'["client"] = segs["client"],
           NEW x \in Ends, Heard(x)
    PROVE  Heard(x)'
<1>1. DOMAIN cb = Ends /\ got \in [Ends -> Seq(Chunk)] /\ "client" \in Ends /\ "server" \in Ends
    BY ClientServer DEF IInv, Typed
<1>2. Start(c) = Start(cb["server"])
    BY DEF SameReceiver, Start
<1>3. x = "client" \/ x = "server"
    BY DEF Ends
<1>4. CASE Deals(c)
  <2> DEFINE n == ikcp_peeksize(c)
             d == ikcp_recv(c, n)
             more == Append(got["server"], FirstMessage(c))
  <2>1. cb' = [cb EXCEPT !["server"] = d] /\ got' = [got EXCEPT !["server"] = more]
      BY <1>4 DEF OnDealMsg
  <2>2. n # 0
      BY <1>4 DEF Deals
  <2>3. d.snd_queue = c.snd_queue
      BY <2>2, PeekIsInQueue, StartRecv
  <2>4. Heard("client") => Whole(Pieces("client"), writes["client"], more, Start(d))
      BY <2>2, TakeHeard, ClientServer
  <2> HIDE DEF d, more
  <2>5. /\ cb'["server"] = d /\ cb'["client"] = cb["client"]
        /\ got'["server"] = more /\ got'["client"] = got["client"]
      BY <1>1, <2>1
  <2>6. Pieces("client")' = Pieces("client") /\ Pieces("server")' = Pieces("server")
      BY <2>3, <2>5 DEF Pieces
  <2>7. Heard("client") => Heard("client")'
      BY <2>4, <2>5, <2>6, ClientServer DEF Heard
  <2>8. Heard("server") => Heard("server")'
      BY <1>1, <2>5, <2>6, ClientServer, SameHeard
  <2> QED
      BY <1>3, <2>7, <2>8
<1>5. CASE ~Deals(c)
  <2>1. cb' = [cb EXCEPT !["server"] = c] /\ got' = got
      BY <1>5 DEF OnDealMsg
  <2>2. cb'["server"] = c /\ cb'["client"] = cb["client"]
      BY <1>1, <2>1
  <2>3. Pieces("client")' = Pieces("client") /\ Pieces("server")' = Pieces("server")
      BY <2>2 DEF Pieces
  <2> QED
      BY <1>2, <1>3, <2>1, <2>2, <2>3, ClientServer, SameHeard
<1> QED
    BY <1>4, <1>5

LEMMA ClientRecvHeard ==
    ASSUME IInv, ClientRecv, NEW x \in Ends, Heard(x)
    PROVE  Heard(x)'
<1> DEFINE c == cb["client"]
           n == ikcp_peeksize(c)
           d == ikcp_recv(c, n)
           more == Append(got["client"], FirstMessage(c))
<1>1. /\ n > 0 /\ cb' = [cb EXCEPT !["client"] = d]
      /\ got' = [got EXCEPT !["client"] = more] /\ UNCHANGED <<net, m_bread, writes, segs>>
    BY DEF ClientRecv
<1>2. /\ DOMAIN cb = Ends /\ got \in [Ends -> Seq(Chunk)] /\ "client" \in Ends /\ "server" \in Ends
      /\ IsCB(c) /\ SameReceiver(c, c)
    BY LinksOf, ClientServer DEF IInv, Typed, SameReceiver
<1>3. n # 0
    BY <1>1
<1>4. d.snd_queue = c.snd_queue
    BY <1>2, <1>3, PeekIsInQueue, StartRecv
<1>5. Heard("server") => Whole(Pieces("server"), writes["server"], more, Start(d))
    BY <1>2, <1>3, TakeHeard, ClientServer
<1> HIDE DEF d, more, n
<1>6. /\ cb'["client"] = d /\ cb'["server"] = cb["server"]
      /\ got'["client"] = more /\ got'["server"] = got["server"]
    BY <1>1, <1>2
<1>7. Pieces("client")' = Pieces("client") /\ Pieces("server")' = Pieces("server")
    BY <1>1, <1>4, <1>6 DEF Pieces
<1>8. Heard("server") => Heard("server")'
    BY <1>1, <1>5, <1>6, <1>7, ClientServer DEF Heard
<1>9. Heard("client") => Heard("client")'
    BY <1>1, <1>2, <1>6, <1>7, ClientServer, SameHeard
<1>10. x = "client" \/ x = "server"
    BY DEF Ends
<1> QED
    BY <1>8, <1>9, <1>10

LEMMA ArrivesHeard ==
    ASSUME IInv, NEW e \in Ends, NEW seg \in net[e], Arrives(e, seg), NEW x \in Ends, Heard(x)
    PROVE  Heard(x)'
<1> DEFINE f == Peer[e]
           c == ikcp_input(cb[e], seg)
<1>1. writes' = writes /\ segs' = segs /\ got' = got /\ cb' = [cb EXCEPT ![e] = c]
    BY DEF Arrives
<1>2. DOMAIN cb = Ends /\ IsCB(cb[e]) /\ seg \in Segment
    BY LinksOf DEF IInv, Typed
<1>3. Start(c) = Start(cb[e]) /\ c.snd_queue = cb[e].snd_queue
    BY <1>2, StartInput
<1>4. f \in Ends /\ f # e /\ Peer[f] = e /\ (x = e \/ x = f)
    BY PeerFields
<1> HIDE DEF c, f
<1>5. cb'[e] = c /\ cb'[f] = cb[f]
    BY <1>1, <1>2, <1>4
<1>6. Pieces(e)' = Pieces(e) /\ Pieces(f)' = Pieces(f)
    BY <1>1, <1>3, <1>5 DEF Pieces
<1>7. Start(cb'[e]) = Start(cb[e]) /\ Start(cb'[f]) = Start(cb[f])
    BY <1>3, <1>5
<1> QED
    BY <1>1, <1>4, <1>6, <1>7, SameHeard DEF f

LEMMA StepHeard ==
    ASSUME IInv, MInv, [Next]_vars
    PROVE  MInv'
<1> SUFFICES ASSUME NEW x \in Ends \ Stream, Heard(x)
             PROVE  Heard(x)'
    BY DEF MInv
<1>1. CASE UNCHANGED vars
    BY <1>1 DEF vars, Heard, Pieces
<1>2. ASSUME NEW e \in Ends, Write(e)
      PROVE  Heard(x)'
    BY <1>2, WriteHeard
<1>3. ASSUME NEW some, ClientFlush(some)
      PROVE  Heard(x)'
    BY <1>3, ClientFlushHeard
<1>4. ASSUME NEW some, ServerFlush(some)
      PROVE  Heard(x)'
  <2> DEFINE c == ikcp_flush(cb["server"])
  <2>1. Flush("server", cb["server"], some) /\ OnDealMsg(c) /\ writes' = writes
      BY <1>4 DEF ServerFlush
  <2>2. /\ segs'["server"] \o c.snd_queue = Pieces("server") /\ segs'["client"] = segs["client"]
        /\ SameReceiver(cb["server"], c) /\ IsCB(c)
      BY <2>1, FlushHeard, ClientServer
  <2> QED
      BY <2>1, <2>2, DealHeard
<1>5. CASE ServerNoFlush
  <2>1. OnDealMsg(cb["server"]) /\ writes' = writes /\ segs' = segs
      BY <1>5 DEF ServerNoFlush
  <2>2. /\ segs'["server"] \o cb["server"].snd_queue = Pieces("server")
        /\ segs'["client"] = segs["client"]
        /\ SameReceiver(cb["server"], cb["server"]) /\ IsCB(cb["server"])
      BY <2>1, LinksOf, ClientServer DEF Pieces, SameReceiver
  <2> QED
      BY <2>1, <2>2, DealHeard
<1>6. CASE ClientRecv
    BY <1>6, ClientRecvHeard
<1>7. ASSUME NEW e \in Ends, NEW seg \in net[e], Arrives(e, seg)
      PROVE  Heard(x)'
    BY <1>7, ArrivesHeard
<1> QED
  <2>1. CASE \E e \in Ends : Write(e)
      BY <1>2, <2>1
  <2>2. CASE \E some \in OnTheWay("client") : ClientFlush(some)
      BY <1>3, <2>2
  <2>3. CASE \E some \in OnTheWay("server") : ServerFlush(some)
      BY <1>4, <2>3
  <2>4. CASE OnRead
      BY <1>7, <2>4, ClientServer DEF OnRead
  <2>5. CASE ClientInput
      BY <1>7, <2>5, ClientServer DEF ClientInput
  <2> QED
      BY <1>1, <1>5, <1>6, <2>1, <2>2, <2>3, <2>4, <2>5 DEF Next

(* An end in message mode is heard message by message, however ikcp_flush   *)
(* spreads the pieces over datagrams and whatever the network does to them: *)
(* ikcp_peeksize answers only for a message that is there to its last piece,*)
(* and never for more than one.                                             *)
THEOREM MessagesStayWhole == Spec => []WholeMessages
<1>1. Init => IInv /\ MInv
    BY InitLinked, InitHeard
<1>2. IInv /\ MInv /\ [Next]_vars => IInv' /\ MInv'
    BY StepLinked, StepHeard
<1>3. MInv /\ IInv => WholeMessages
  <2> SUFFICES ASSUME MInv, IInv, NEW e \in Ends \ Stream, NEW i \in DOMAIN got[Peer[e]]
               PROVE  i \in DOMAIN writes[e] /\ got[Peer[e]][i] = writes[e][i]
      BY DEF WholeMessages
  <2> DEFINE g == got[Peer[e]]
             w == writes[e]
  <2>1. g \in Seq(Chunk) /\ w \in Seq(Chunk)
      BY PeerFields DEF IInv, Typed
  <2>2. Len(g) =< Len(w) /\ \A k \in 1..Len(g) : g[k] = w[k]
      BY DEF MInv, Heard, Whole
  <2> HIDE DEF g, w
  <2>3. i \in 1..Len(g) /\ i \in DOMAIN w
    <3>1. DOMAIN g = 1..Len(g) /\ DOMAIN w = 1..Len(w) /\ Len(g) \in Nat /\ Len(w) \in Nat
        BY <2>1
    <3>2. i \in DOMAIN g
        BY DEF g
    <3> QED
        BY <2>2, <3>1, <3>2
  <2> QED
      BY <2>2, <2>3 DEF g, w
<1> QED
    BY <1>1, <1>2, <1>3, PTL DEF Spec

-----------------------------------------------------------------------------
(* Part 5: the windows.                                                    *)

(* What c has numbered and not been told of stays within snd_wnd, and       *)
(* snd_una is the first of it.                                              *)
InWindow(c) ==
    /\ c.snd_una =< c.snd_nxt /\ c.snd_nxt =< c.snd_una + SndWnd
    /\ \A sn \in DOMAIN c.snd_buf : c.snd_una =< sn /\ sn < c.snd_nxt

SndKept(c) == InWindow(c) /\ (DOMAIN c.snd_buf = {} => c.snd_una = c.snd_nxt)

(* What d holds stays within rcv_wnd, and the next piece waits in rcv_buf   *)
(* only when rcv_queue is full.                                             *)
InRcvWindow(d) ==
    /\ Len(d.rcv_queue) =< RcvWnd
    /\ \A sn \in DOMAIN d.rcv_buf : d.rcv_nxt =< sn /\ sn < d.rcv_nxt + RcvWnd

RcvKept(d) == InRcvWindow(d) /\ (d.rcv_nxt \in DOMAIN d.rcv_buf => Len(d.rcv_queue) = RcvWnd)

Kept(c) == SndKept(c) /\ RcvKept(c)

LEMMA UnaField ==
    ASSUME NEW c, IsCB(c)
    PROVE  c.snd_una \in Nat /\ c.rmt_wnd \in Nat
BY DEF IsCB

LEMMA WindowSizes == SndWnd \in Nat \ {0} /\ RcvWnd \in Nat \ {0}
BY IkcpAssumption

(* The same fields on one side, the same windows. *)
LEMMA SameKept ==
    ASSUME NEW c, NEW d
    PROVE  /\ SameSender(c, d) /\ SndKept(c) => SndKept(d)
           /\ SameReceiver(c, d) /\ RcvKept(c) => RcvKept(d)
BY DEF SameSender, SameReceiver, SndKept, InWindow, RcvKept, InRcvWindow

LEMMA ReadyBounds ==
    ASSUME NEW c, IsCB(c), Len(c.rcv_queue) =< RcvWnd
    PROVE  /\ Ready(c) \in Nat /\ Len(c.rcv_queue) + Ready(c) =< RcvWnd
           /\ \/ c.rcv_nxt + Ready(c) \notin DOMAIN c.rcv_buf
              \/ Len(c.rcv_queue) + Ready(c) >= RcvWnd
<1> DEFINE S == {n \in 0..RcvWnd : \/ c.rcv_nxt + n \notin DOMAIN c.rcv_buf
                                   \/ Len(c.rcv_queue) + n >= RcvWnd}
           m == RcvWnd - Len(c.rcv_queue)
<1>1. Len(c.rcv_queue) \in Nat /\ RcvWnd \in Nat
    BY CBFields, WindowSizes
<1>2. m \in 0..RcvWnd /\ Len(c.rcv_queue) + m = RcvWnd
    BY <1>1
<1>3. m \in S
  <2>1. Len(c.rcv_queue) + m >= RcvWnd
      BY <1>1, <1>2
  <2> HIDE DEF m
  <2> QED
      BY <1>2, <2>1
<1> HIDE DEF m
<1>4. S \in SUBSET Nat
    BY <1>1
<1>5. Ready(c) = Least(S)
    BY DEF Ready
<1> HIDE DEF S
<1>6. Ready(c) \in S /\ Ready(c) =< m
    BY <1>3, <1>4, <1>5, LeastIsLeast
<1>7. Ready(c) \in 0..RcvWnd
    BY <1>6 DEF S
<1>8. \/ c.rcv_nxt + Ready(c) \notin DOMAIN c.rcv_buf
      \/ Len(c.rcv_queue) + Ready(c) >= RcvWnd
    BY <1>6 DEF S
<1>9. Len(c.rcv_queue) + Ready(c) =< RcvWnd
    BY <1>1, <1>2, <1>6, <1>7
<1> QED
    BY <1>7, <1>8, <1>9

LEMMA ArrangeKept ==
    ASSUME NEW c, IsCB(c), InRcvWindow(c)
    PROVE  RcvKept(Arrange(c))
<1> DEFINE d == Arrange(c)
           n == Ready(c)
           q == Len(c.rcv_queue)
           r == c.rcv_nxt
<1>1. /\ d.rcv_nxt = r + n /\ Len(d.rcv_queue) = q + n
      /\ DOMAIN d.rcv_buf = DOMAIN c.rcv_buf \ (r..(r + n - 1))
    BY ArrangeFields
<1>2. /\ n \in Nat /\ q + n =< RcvWnd
      /\ r + n \notin DOMAIN c.rcv_buf \/ q + n >= RcvWnd
    BY ReadyBounds DEF InRcvWindow
<1>3. q \in Nat /\ r \in Nat /\ RcvWnd \in Nat /\ DOMAIN c.rcv_buf \subseteq Nat
    BY CBFields, WindowSizes
<1>4. \A sn \in DOMAIN c.rcv_buf : r =< sn /\ sn < r + RcvWnd
    BY DEF InRcvWindow
<1> HIDE DEF d, n, q, r
<1>5. ASSUME NEW sn \in DOMAIN d.rcv_buf
      PROVE  r + n =< sn /\ sn < (r + n) + RcvWnd
  <2>1. sn \in Nat /\ r =< sn /\ sn < r + RcvWnd /\ sn \notin r..(r + n - 1)
      BY <1>1, <1>3, <1>4, <1>5
  <2> QED
      BY <1>2, <1>3, <2>1
<1>6. r + n \in DOMAIN d.rcv_buf => q + n = RcvWnd
    BY <1>1, <1>2, <1>3
<1> QED
    BY <1>1, <1>2, <1>5, <1>6 DEF RcvKept, InRcvWindow, d

LEMMA PushKept ==
    ASSUME NEW c, IsCB(c), RcvKept(c), NEW seg, seg.sn \in Nat, seg.data \in Piece
    PROVE  RcvKept(InputPush(c, seg))
<1> DEFINE d == InputPush(c, seg)
           sn == seg.sn
<1>1. \/ d = c
      \/ SameReceiver(c, d)
      \/ c.rcv_nxt =< sn /\ \E b : Placed(c, b, sn, seg.data) /\ d = Arrange(b)
    BY InputPushFields
<1>2. sn >= c.rcv_nxt + RcvWnd => d = c
    BY DEF InputPush
<1>3. c.rcv_nxt \in Nat /\ RcvWnd \in Nat /\ sn \in Nat
    BY CBFields, WindowSizes
<1> HIDE DEF d, sn
<1>4. ASSUME NEW b, Placed(c, b, sn, seg.data), d = Arrange(b), c.rcv_nxt =< sn,
             sn < c.rcv_nxt + RcvWnd
      PROVE  RcvKept(d)
  <2>1. IsCB(b) /\ InRcvWindow(b)
      BY <1>4 DEF Placed, RcvKept, InRcvWindow
  <2> QED
      BY <1>4, <2>1, ArrangeKept
<1>5. d = c \/ SameReceiver(c, d) => RcvKept(d)
    BY SameKept
<1>6. sn >= c.rcv_nxt + RcvWnd \/ sn < c.rcv_nxt + RcvWnd
    BY <1>3
<1> QED
    BY <1>1, <1>2, <1>4, <1>5, <1>6 DEF d

LEMMA RecvKept ==
    ASSUME NEW c, IsCB(c), Kept(c), NEW n \in 1..Len(c.rcv_queue)
    PROVE  Kept(ikcp_recv(c, n))
<1> DEFINE d == ikcp_recv(c, n)
<1>1. PICK b : Freed(c, b, n) /\ SameSender(c, d) /\ SameReceiver(Arrange(b), d)
    BY RecvFields
<1> HIDE DEF d
<1>2. Len(c.rcv_queue) \in Nat /\ RcvWnd \in Nat
    BY CBFields, WindowSizes
<1>3. IsCB(b) /\ InRcvWindow(b)
    BY <1>1, <1>2 DEF Freed, Kept, RcvKept, InRcvWindow
<1>4. RcvKept(Arrange(b))
    BY <1>3, ArrangeKept
<1> QED
    BY <1>1, <1>4, SameKept DEF Kept, d

LEMMA ShrinkKept ==
    ASSUME NEW c, IsCB(c), InWindow(c)
    PROVE  SndKept(ikcp_shrink_buf(c))
<1> DEFINE d == ikcp_shrink_buf(c)
           D == DOMAIN c.snd_buf
<1>1. d.snd_nxt = c.snd_nxt /\ d.snd_buf = c.snd_buf
    BY ShrinkFields
<1>2. d.snd_una = IF D = {} THEN c.snd_nxt ELSE Least(D)
    BY DEF ikcp_shrink_buf, IsCB
<1>3. /\ c.snd_una \in Nat /\ c.snd_nxt \in Nat /\ SndWnd \in Nat /\ D \in SUBSET Nat
      /\ c.snd_una =< c.snd_nxt /\ c.snd_nxt =< c.snd_una + SndWnd
      /\ \A sn \in D : c.snd_una =< sn /\ sn < c.snd_nxt
    BY UnaField, CBFields, WindowSizes DEF InWindow
<1>4. D # {} => Least(D) \in D /\ \A sn \in D : Least(D) =< sn
    BY <1>3, LeastIsLeast
<1> HIDE DEF d
<1>5. CASE D = {}
    BY <1>1, <1>2, <1>3, <1>5 DEF SndKept, InWindow, d
<1>6. CASE D # {}
  <2> DEFINE l == Least(D)
  <2>1. l \in Nat /\ c.snd_una =< l /\ l < c.snd_nxt /\ d.snd_una = l
      BY <1>2, <1>3, <1>4, <1>6
  <2>2. \A sn \in D : l =< sn /\ sn < c.snd_nxt
      BY <1>3, <1>4, <1>6
  <2> HIDE DEF l, D
  <2>3. l =< c.snd_nxt /\ c.snd_nxt =< l + SndWnd
      BY <1>3, <2>1
  <2> QED
      BY <1>1, <1>6, <2>1, <2>2, <2>3 DEF SndKept, InWindow, d, D
<1> QED
    BY <1>5, <1>6

(* Fewer segments outstanding. *)
LEMMA FewerInWindow ==
    ASSUME NEW c, InWindow(c), NEW d, d.snd_una = c.snd_una, d.snd_nxt = c.snd_nxt,
           DOMAIN d.snd_buf \subseteq DOMAIN c.snd_buf
    PROVE  InWindow(d)
BY DEF InWindow

LEMMA HeardKept ==
    ASSUME NEW c, IsCB(c), InWindow(c), NEW wnd \in Nat, NEW una \in Nat
    PROVE  SndKept(ikcp_shrink_buf(ikcp_parse_una([c EXCEPT !.rmt_wnd = wnd], una)))
<1> DEFINE b == [c EXCEPT !.rmt_wnd = wnd]
           p == ikcp_parse_una(b, una)
<1>1. /\ IsCB(b) /\ b.snd_una = c.snd_una /\ b.snd_nxt = c.snd_nxt /\ b.snd_buf = c.snd_buf
    BY DEF IsCB
<1> HIDE DEF b
<1>2. InWindow(b)
    BY <1>1, FewerInWindow
<1>3. /\ IsCB(p) /\ p.snd_nxt = b.snd_nxt /\ DOMAIN p.snd_buf \subseteq DOMAIN b.snd_buf
    BY <1>1, ParseUnaFields
<1>4. p.snd_una = b.snd_una
    BY <1>1 DEF ikcp_parse_una, IsCB
<1> HIDE DEF p
<1>5. SndKept(ikcp_shrink_buf(p))
    BY <1>2, <1>3, <1>4, FewerInWindow, ShrinkKept
<1> QED
    BY <1>5 DEF p, b

LEMMA AckKept ==
    ASSUME NEW c, IsCB(c), InWindow(c), NEW sn \in Nat
    PROVE  SndKept(ikcp_shrink_buf(ikcp_parse_ack(c, sn)))
<1> DEFINE p == ikcp_parse_ack(c, sn)
<1>1. /\ IsCB(p) /\ p.snd_nxt = c.snd_nxt /\ DOMAIN p.snd_buf \subseteq DOMAIN c.snd_buf
    BY ParseAckFields
<1>2. p.snd_una = c.snd_una
    BY DEF ikcp_parse_ack, IsCB
<1> HIDE DEF p
<1>3. SndKept(ikcp_shrink_buf(p))
    BY <1>1, <1>2, FewerInWindow, ShrinkKept
<1> QED
    BY <1>3 DEF p

LEMMA InputKept ==
    ASSUME NEW c, IsCB(c), Kept(c), NEW seg \in Segment
    PROVE  Kept(ikcp_input(c, seg))
<1> DEFINE d == ikcp_input(c, seg)
           h == ikcp_shrink_buf(ikcp_parse_una([c EXCEPT !.rmt_wnd = seg.wnd], seg.una))
<1>1. /\ seg.una \in Nat /\ seg.wnd \in Nat
      /\ seg.cmd \in {"PUSH", "ACK", "WASK", "WINS"}
      /\ seg.cmd = "PUSH" => seg.sn \in Nat /\ seg.data \in Piece
      /\ seg.cmd = "ACK" => seg.sn \in Nat
    BY SegmentFields
<1>2. d = CASE seg.cmd = "ACK"  -> ikcp_shrink_buf(ikcp_parse_ack(h, seg.sn))
            [] seg.cmd = "PUSH" -> InputPush(h, seg)
            [] seg.cmd = "WASK" -> [h EXCEPT !.tell = TRUE]
            [] seg.cmd = "WINS" -> h
    BY DEF ikcp_input
<1>3. IsCB(h) /\ SameReceiver(c, h)
  <2> HIDE DEF h
  <2> QED
      BY <1>1, HeardFields DEF h
<1>4. SndKept(h)
  <2>1. InWindow(c)
      BY DEF Kept, SndKept
  <2> HIDE DEF h
  <2> QED
      BY <1>1, <2>1, HeardKept DEF h
<1> HIDE DEF h, d
<1>5. RcvKept(h)
    BY <1>3, SameKept DEF Kept
<1>6. CASE seg.cmd = "ACK"
  <2> DEFINE a == ikcp_parse_ack(h, seg.sn)
  <2>1. IsCB(a) /\ SameReceiver(h, a)
      BY <1>1, <1>3, <1>6, ParseAckFields
  <2>2. d = ikcp_shrink_buf(a)
      BY <1>2, <1>6
  <2>3. SndKept(d)
      BY <1>1, <1>3, <1>4, <1>6, <2>2, AckKept DEF SndKept
  <2> HIDE DEF a
  <2>4. SameReceiver(a, d)
      BY <2>1, <2>2, ShrinkFields
  <2>5. RcvKept(d)
      BY <1>5, <2>1, <2>4, SameKept
  <2> QED
      BY <2>3, <2>5 DEF Kept, d
<1>7. CASE seg.cmd = "PUSH"
  <2>1. d = InputPush(h, seg)
      BY <1>2, <1>7
  <2>2. SameSender(h, d)
      BY <1>1, <1>3, <1>7, <2>1, PushSender
  <2>3. RcvKept(d)
      BY <1>1, <1>3, <1>5, <1>7, <2>1, PushKept
  <2> QED
      BY <1>4, <2>2, <2>3, SameKept DEF Kept, d
<1>8. CASE seg.cmd = "WASK"
  <2>1. d = [h EXCEPT !.tell = TRUE]
      BY <1>2, <1>8
  <2>2. SameSender(h, d) /\ SameReceiver(h, d)
      BY <1>3, <2>1, SetTell
  <2> QED
      BY <1>4, <1>5, <2>2, SameKept DEF Kept, d
<1>9. CASE seg.cmd = "WINS"
    BY <1>2, <1>4, <1>5, <1>9 DEF Kept, d
<1> QED
    BY <1>1, <1>6, <1>7, <1>8, <1>9

LEMMA SendKept ==
    ASSUME NEW c, IsCB(c), Kept(c), NEW from, NEW n, NEW stream
    PROVE  Kept(ikcp_send(c, from, n, stream))
<1> DEFINE d == ikcp_send(c, from, n, stream)
<1>1. /\ d.snd_buf = c.snd_buf /\ d.snd_una = c.snd_una /\ d.snd_nxt = c.snd_nxt
      /\ d.rcv_nxt = c.rcv_nxt /\ d.rcv_buf = c.rcv_buf /\ d.rcv_queue = c.rcv_queue
  <2>1. \E q : d = [c EXCEPT !.snd_queue = q]
      BY DEF ikcp_send
  <2> HIDE DEF d
  <2> QED
      BY <2>1 DEF IsCB
<1> HIDE DEF d
<1>2. SameReceiver(c, d)
    BY <1>1 DEF SameReceiver
<1>3. SndKept(d)
    BY <1>1 DEF Kept, SndKept, InWindow
<1> QED
    BY <1>2, <1>3, SameKept DEF Kept, d

LEMMA NumberedInWindow ==
    ASSUME NEW c, IsCB(c), InWindow(c)
    PROVE  c.snd_nxt + Numbered(c) =< c.snd_una + SndWnd
<1> DEFINE n == Numbered(c)
           w == Window(c)
           q == Len(c.snd_queue)
           room == c.snd_una + w - c.snd_nxt
<1>1. /\ c.snd_una \in Nat /\ c.snd_nxt \in Nat /\ c.rmt_wnd \in Nat /\ q \in Nat
      /\ SndWnd \in Nat /\ c.snd_nxt =< c.snd_una + SndWnd
    BY UnaField, CBFields, WindowSizes DEF InWindow
<1>2. w \in Nat /\ w =< SndWnd
    BY <1>1 DEF Window
<1>3. n = IF room =< 0 THEN 0 ELSE IF room < q THEN room ELSE q
    BY DEF Numbered
<1> HIDE DEF n, w, q
<1>4. room \in Int /\ c.snd_nxt + room = c.snd_una + w
    BY <1>1, <1>2
<1> HIDE DEF room
<1>5. n = 0 \/ n =< room
    BY <1>1, <1>3, <1>4
<1>6. n \in Int
    BY <1>1, <1>3, <1>4
<1> QED
    BY <1>1, <1>2, <1>4, <1>5, <1>6 DEF n

LEMMA FlushKept ==
    ASSUME NEW c, IsCB(c), Kept(c)
    PROVE  Kept(ikcp_flush(c))
<1> DEFINE d == ikcp_flush(c)
           n == Numbered(c)
           D == DOMAIN c.snd_buf
<1>1. /\ SameReceiver(c, d) /\ d.snd_nxt = c.snd_nxt + n
      /\ DOMAIN d.snd_buf = D \cup (c.snd_nxt..(c.snd_nxt + n - 1))
    BY FlushFields
<1>2. d.snd_una = c.snd_una
    BY DEF ikcp_flush, IsCB
<1>3. n \in Nat /\ c.snd_nxt + n =< c.snd_una + SndWnd
    BY NumberedBounds, NumberedInWindow, CBFields DEF Kept, SndKept
<1>4. /\ c.snd_una \in Nat /\ c.snd_nxt \in Nat /\ c.snd_una =< c.snd_nxt /\ D \subseteq Nat
      /\ (\A sn \in D : c.snd_una =< sn /\ sn < c.snd_nxt)
      /\ (D = {} => c.snd_una = c.snd_nxt)
    BY UnaField, CBFields DEF Kept, SndKept, InWindow
<1> HIDE DEF d, n, D
<1>5. ASSUME NEW sn \in DOMAIN d.snd_buf
      PROVE  c.snd_una =< sn /\ sn < c.snd_nxt + n
  <2>1. CASE sn \in D
    <3>1. sn \in Nat /\ c.snd_una =< sn /\ sn < c.snd_nxt
        BY <1>4, <2>1
    <3>2. n \in Nat /\ c.snd_nxt \in Nat
        BY <1>3, <1>4
    <3> QED
        BY <3>1, <3>2
  <2>2. CASE sn \in c.snd_nxt..(c.snd_nxt + n - 1)
      BY <1>3, <1>4, <2>2
  <2> QED
      BY <1>1, <1>5, <2>1, <2>2
<1>6. DOMAIN d.snd_buf = {} => D = {} /\ n = 0
  <2>1. n # 0 => c.snd_nxt \in c.snd_nxt..(c.snd_nxt + n - 1)
      BY <1>3, <1>4
  <2> QED
      BY <1>1, <2>1
<1>7. SndKept(d)
  <2>1. c.snd_una =< c.snd_nxt + n
      BY <1>3, <1>4
  <2>2. n = 0 => c.snd_nxt + n = c.snd_nxt
      BY <1>4
  <2>3. InWindow(d)
      BY <1>1, <1>2, <1>3, <1>5, <2>1 DEF InWindow
  <2> QED
      BY <1>1, <1>2, <1>4, <1>6, <2>2, <2>3 DEF SndKept
<1>8. RcvKept(d)
    BY <1>1, SameKept DEF Kept
<1> QED
    BY <1>7, <1>8 DEF Kept, d

-----------------------------------------------------------------------------
(* The session.                                                            *)

(* The windows of both ends are kept. *)
KInv == \A e \in Ends : Kept(cb[e])

LEMMA InitKept ==
    ASSUME Init
    PROVE  KInv
<1>1. SndWnd \in Nat /\ RcvWnd \in Nat
    BY WindowSizes
<1>2. Kept(ikcp_create)
  <2>1. DOMAIN NoPieces = {}
      BY DEF NoPieces
  <2>2. SndKept(ikcp_create)
      BY <1>1, <2>1 DEF ikcp_create, SndKept, InWindow
  <2>3. RcvKept(ikcp_create)
      BY <1>1, <2>1 DEF ikcp_create, RcvKept, InRcvWindow
  <2> QED
      BY <2>2, <2>3 DEF Kept
<1> QED
    BY <1>2 DEF Init, KInv

LEMMA DealKept ==
    ASSUME IInv, KInv, NEW c, IsCB(c), Kept(c), OnDealMsg(c)
    PROVE  KInv'
<1>1. DOMAIN cb = Ends /\ \A e \in Ends : Kept(cb[e])
    BY DEF IInv, Typed, KInv
<1>2. CASE Deals(c)
  <2> DEFINE d == ikcp_recv(c, ikcp_peeksize(c))
  <2>1. cb' = [cb EXCEPT !["server"] = d]
      BY <1>2 DEF OnDealMsg
  <2>2. ikcp_peeksize(c) \in 1..Len(c.rcv_queue)
      BY <1>2, PeekIsInQueue DEF Deals
  <2>3. Kept(d)
      BY <2>2, RecvKept
  <2> HIDE DEF d
  <2> QED
      BY <1>1, <2>1, <2>3 DEF KInv
<1>3. CASE ~Deals(c)
    BY <1>1, <1>3 DEF OnDealMsg, KInv
<1> QED
    BY <1>2, <1>3

LEMMA StepKept ==
    ASSUME IInv, KInv, [Next]_vars
    PROVE  KInv'
<1>1. DOMAIN cb = Ends /\ \A e \in Ends : IsCB(cb[e]) /\ Kept(cb[e])
    BY LinksOf DEF IInv, Typed, KInv
<1>2. ASSUME NEW e \in Ends, NEW c, Kept(c), cb' = [cb EXCEPT ![e] = c]
      PROVE  KInv'
    BY <1>1, <1>2 DEF KInv
<1>3. CASE UNCHANGED vars
    BY <1>3 DEF KInv, vars
<1>4. ASSUME NEW e \in Ends, Write(e)
      PROVE  KInv'
  <2>1. \E from, n : cb' = [cb EXCEPT ![e] = ikcp_send(cb[e], from, n, e \in Stream)]
      BY <1>4 DEF Write
  <2> QED
      BY <1>1, <1>2, <2>1, SendKept
<1>5. ASSUME NEW some, ClientFlush(some)
      PROVE  KInv'
  <2>1. cb' = [cb EXCEPT !["client"] = ikcp_flush(cb["client"])]
      BY <1>5 DEF ClientFlush
  <2> QED
      BY <1>1, <1>2, <2>1, FlushKept, ClientServer
<1>6. ASSUME NEW some, ServerFlush(some)
      PROVE  KInv'
  <2> DEFINE c == ikcp_flush(cb["server"])
  <2>1. OnDealMsg(c)
      BY <1>6 DEF ServerFlush
  <2>2. IsCB(c) /\ Kept(c)
      BY <1>1, FlushKept, FlushFields, ClientServer
  <2> HIDE DEF c
  <2> QED
      BY <2>1, <2>2, DealKept
<1>7. CASE ServerNoFlush
    BY <1>1, <1>7, DealKept, ClientServer DEF ServerNoFlush
<1>8. CASE ClientRecv
  <2> DEFINE c == cb["client"]
  <2>1. /\ ikcp_peeksize(c) > 0
        /\ cb' = [cb EXCEPT !["client"] = ikcp_recv(c, ikcp_peeksize(c))]
      BY <1>8 DEF ClientRecv
  <2>2. ikcp_peeksize(c) \in 1..Len(c.rcv_queue)
      BY <1>1, <2>1, PeekIsInQueue, ClientServer
  <2> QED
      BY <1>1, <1>2, <2>1, <2>2, RecvKept, ClientServer
<1>9. ASSUME NEW e \in Ends, NEW seg \in net[e], Arrives(e, seg)
      PROVE  KInv'
  <2>1. cb' = [cb EXCEPT ![e] = ikcp_input(cb[e], seg)] /\ seg \in Segment
      BY <1>9 DEF Arrives, IInv, Typed
  <2> QED
      BY <1>1, <1>2, <2>1, InputKept
<1> QED
  <2>1. CASE \E e \in Ends : Write(e)
      BY <1>4, <2>1
  <2>2. CASE \E some \in OnTheWay("client") : ClientFlush(some)
      BY <1>5, <2>2
  <2>3. CASE \E some \in OnTheWay("server") : ServerFlush(some)
      BY <1>6, <2>3
  <2>4. CASE OnRead
      BY <1>9, <2>4, ClientServer DEF OnRead
  <2>5. CASE ClientInput
      BY <1>9, <2>5, ClientServer DEF ClientInput
  <2> QED
      BY <1>3, <1>7, <1>8, <2>1, <2>2, <2>3, <2>4, <2>5 DEF Next

(* The two ends stay within their windows of each other. *)
LEMMA KeptWindows ==
    ASSUME IInv, KInv
    PROVE  WindowsKept
<1> SUFFICES ASSUME NEW e \in Ends
             PROVE  LET c == cb[e]
                        d == cb[Peer[e]]
                    IN  /\ c.snd_una =< c.snd_nxt /\ c.snd_nxt =< c.snd_una + SndWnd
                        /\ \A sn \in DOMAIN c.snd_buf : c.snd_una =< sn /\ sn < c.snd_nxt
                        /\ Len(c.rcv_queue) =< RcvWnd
                        /\ \A sn \in DOMAIN c.rcv_buf :
                               c.rcv_nxt =< sn /\ sn < c.rcv_nxt + RcvWnd
                        /\ d.rcv_nxt =< c.snd_nxt /\ c.snd_una =< d.rcv_nxt + RcvWnd
    BY DEF WindowsKept
<1> DEFINE c == cb[e]
           d == cb[Peer[e]]
<1>1. /\ IsCB(c) /\ IsCB(d) /\ Sent(c, segs[e]) /\ Arrived(d, segs[e]) /\ Acked(c, d)
    BY LinksOf DEF Link
<1>2. Kept(c) /\ Kept(d)
    BY PeerFields DEF KInv
<1> HIDE DEF c, d
<1>3. /\ c.snd_una \in Nat /\ c.snd_nxt \in Nat /\ d.rcv_nxt \in Nat /\ RcvWnd \in Nat
      /\ DOMAIN d.rcv_buf \subseteq Nat
    BY <1>1, UnaField, CBFields, WindowSizes
<1>4. /\ c.snd_una =< c.snd_nxt /\ c.snd_nxt =< c.snd_una + SndWnd
      /\ \A sn \in DOMAIN c.snd_buf : c.snd_una =< sn /\ sn < c.snd_nxt
    BY <1>2 DEF Kept, SndKept, InWindow
<1>5. d.rcv_nxt =< c.snd_nxt
    BY <1>1 DEF Sent, Arrived
<1>6. c.snd_una =< d.rcv_nxt + RcvWnd
  <2>1. CASE c.snd_una = 0
      BY <1>3, <2>1
  <2>2. CASE c.snd_una # 0
    <3> DEFINE k == c.snd_una - 1
    <3>1. k \in 0..(c.snd_nxt - 1) /\ k < c.snd_una /\ k \in Nat
        BY <1>3, <1>4, <2>2
    <3>2. k \notin DOMAIN c.snd_buf
      <4> HIDE DEF k
      <4>1. \A sn \in DOMAIN c.snd_buf : c.snd_una =< sn
          BY <1>4
      <4> QED
          BY <1>3, <3>1, <4>1
    <3>3. Held(d, k)
        BY <1>1, <3>1, <3>2 DEF Acked
    <3>4. k < d.rcv_nxt + RcvWnd
      <4>1. \A sn \in DOMAIN d.rcv_buf : sn < d.rcv_nxt + RcvWnd
          BY <1>2 DEF Kept, RcvKept, InRcvWindow
      <4> HIDE DEF k
      <4>2. k < d.rcv_nxt \/ k < d.rcv_nxt + RcvWnd
          BY <3>3, <4>1 DEF Held
      <4> QED
          BY <1>3, <3>1, <4>2
    <3> QED
        BY <1>3, <3>1, <3>4
  <2> QED
      BY <2>1, <2>2
<1>7. Len(c.rcv_queue) =< RcvWnd
      /\ \A sn \in DOMAIN c.rcv_buf : c.rcv_nxt =< sn /\ sn < c.rcv_nxt + RcvWnd
    BY <1>2 DEF Kept, RcvKept, InRcvWindow
<1> QED
    BY <1>4, <1>5, <1>6, <1>7 DEF c, d

(* The windows are kept, each end's own and each of the other's, whatever   *)
(* the network loses, doubles and reorders: no number ever gets so far from *)
(* another that the differences of 32 bits in ikcp.c would mean something   *)
(* else (_itimediff).                                                       *)
THEOREM SessionWindows == Spec => []WindowsKept
<1>1. Init => IInv /\ KInv
    BY InitLinked, InitKept
<1>2. IInv /\ KInv /\ [Next]_vars => IInv' /\ KInv'
    BY StepLinked, StepKept
<1>3. IInv /\ KInv => WindowsKept
    BY KeptWindows
<1> QED
    BY <1>1, <1>2, <1>3, PTL DEF Spec

-----------------------------------------------------------------------------
(* Part 6: an end that has something to say.                               *)

(* Pieces of an end in stream mode are messages of their own. *)
Flat(q) == \A i \in 1..Len(q) : q[i].frg = 0

FInv == \A e \in Stream : Flat(segs[e]) /\ Flat(cb[e].snd_queue)

LEMMA FlatConcat ==
    ASSUME NEW s \in Seq(Piece), NEW t \in Seq(Piece), Flat(s), Flat(t)
    PROVE  Flat(s \o t)
<1>1. /\ Len(s) \in Nat /\ Len(t) \in Nat /\ Len(s \o t) = Len(s) + Len(t)
      /\ \A i \in 1..Len(s) : (s \o t)[i] = s[i]
      /\ \A i \in 1..Len(t) : (s \o t)[Len(s) + i] = t[i]
    BY ConcatFields
<1> DEFINE u == s \o t
<1> SUFFICES ASSUME NEW i \in 1..Len(u)
             PROVE  u[i].frg = 0
    BY DEF Flat
<1>2. CASE i \in 1..Len(s)
    BY <1>1, <1>2 DEF Flat
<1>3. CASE i \notin 1..Len(s)
  <2>1. i - Len(s) \in 1..Len(t) /\ Len(s) + (i - Len(s)) = i
      BY <1>1, <1>3
  <2>2. u[i] = t[i - Len(s)]
      BY <1>1, <2>1
  <2> QED
      BY <2>1, <2>2 DEF Flat
<1> QED
    BY <1>2, <1>3

LEMMA FlatCut ==
    ASSUME NEW q \in Seq(Piece), Flat(q), NEW n \in 0..Len(q)
    PROVE  Flat(SubSeq(q, 1, n)) /\ Flat(SubSeq(q, n + 1, Len(q)))
<1> DEFINE u == SubSeq(q, 1, n)
           v == SubSeq(q, n + 1, Len(q))
<1>1. /\ Len(u) = n /\ (\A i \in 1..n : u[i] = q[i])
      /\ Len(v) = Len(q) - n /\ \A i \in 1..(Len(q) - n) : v[i] = q[n + i]
    BY CutFields
<1>2. Len(q) \in Nat
    OBVIOUS
<1> HIDE DEF u, v
<1>3. Flat(u)
    BY <1>1, <1>2 DEF Flat
<1>4. \A i \in 1..(Len(q) - n) : n + i \in 1..Len(q)
    BY <1>2
<1>5. Flat(v)
    BY <1>1, <1>4 DEF Flat
<1> QED
    BY <1>3, <1>5 DEF u, v

LEMMA FlatSend ==
    ASSUME NEW c, IsCB(c), Flat(c.snd_queue), NEW a \in Nat, Chain(c.snd_queue, a),
           NEW from \in Nat, NEW n \in Nat
    PROVE  Flat(ikcp_send(c, from, n, TRUE).snd_queue)
<1> DEFINE e == Extend(c.snd_queue, n, TRUE)
           len == Accepted(c.snd_queue, n, TRUE)
           q == FillLast(c.snd_queue, e)
           f == Fragments(from + e, len - e, TRUE)
<1>1. c.snd_queue \in Seq(Piece)
    BY DEF IsCB
<1>2. e \in 0..n /\ (e # 0 => c.snd_queue # <<>>)
    BY <1>1, ExtendBounds
<1>3. e \in Nat /\ from + e \in Nat /\ len - e \in Nat
  <2>1. len = e \/ len = n
      BY DEF Accepted
  <2> HIDE DEF len, e
  <2> QED
      BY <1>2, <2>1
<1>4. ikcp_send(c, from, n, TRUE).snd_queue = q \o f
    BY DEF ikcp_send, IsCB
<1> HIDE DEF e, len
<1>5. q \in Seq(Piece)
    BY <1>1, <1>2, <1>3, FillLastChain
<1>6. Flat(q)
  <2>1. CASE e = 0
      BY <2>1 DEF FillLast
  <2>2. CASE e # 0
    <3> DEFINE queue == c.snd_queue
               last == [lo |-> LastPiece(queue).lo, hi |-> LastPiece(queue).hi + e, frg |-> 0]
    <3>1. q = [queue EXCEPT ![Len(queue)] = last] /\ last.frg = 0
        BY <2>2 DEF FillLast
    <3>2. DOMAIN queue = 1..Len(queue) /\ \A i \in 1..Len(queue) : queue[i].frg = 0
        BY <1>1 DEF Flat
    <3> HIDE DEF last, queue, q
    <3>3. DOMAIN q = DOMAIN queue
        BY <3>1
    <3>4. \A i \in DOMAIN q : q[i].frg = 0
        BY <3>1, <3>2
    <3>5. DOMAIN q = 1..Len(q)
        BY <1>5
    <3> QED
        BY <3>4, <3>5 DEF Flat
  <2> QED
      BY <2>1, <2>2
<1>7. f \in Seq(Piece)
    BY <1>3, FragmentsChain
<1>8. Flat(f)
  <2>1. \A i \in DOMAIN f : f[i].frg = 0
      BY DEF Fragments
  <2> HIDE DEF f
  <2>2. DOMAIN f = 1..Len(f)
      BY <1>7
  <2> QED
      BY <2>1, <2>2 DEF Flat
<1> HIDE DEF q, f
<1>9. Flat(q \o f)
    BY <1>5, <1>6, <1>7, <1>8, FlatConcat
<1> QED
    BY <1>4, <1>9

LEMMA InitFlat ==
    ASSUME Init
    PROVE  FInv
<1>1. Flat(<<>>)
    BY DEF Flat
<1>2. ikcp_create.snd_queue = <<>>
    BY DEF ikcp_create
<1>3. Stream \subseteq Ends
    BY LinkAssumption
<1> QED
    BY <1>1, <1>2, <1>3 DEF Init, FInv

(* A flush moves pieces from the queue to segs. *)
LEMMA FlushFlat ==
    ASSUME IInv, FInv, NEW e \in Ends, NEW some, Flush(e, cb[e], some), NEW x \in Stream
    PROVE  Flat(segs'[x]) /\ Flat((IF x = e THEN ikcp_flush(cb[e]) ELSE cb[x]).snd_queue)
<1> DEFINE q == cb[e].snd_queue
           n == Numbered(cb[e])
<1>1. IsCB(cb[e]) /\ segs \in [Ends -> Seq(Piece)]
    BY LinksOf DEF IInv, Typed
<1>2. q \in Seq(Piece) /\ n \in 0..Len(q) /\ ikcp_flush(cb[e]).snd_queue = SubSeq(q, n + 1, Len(q))
    BY <1>1, CBFields, NumberedBounds, FlushFields
<1>3. segs' = [segs EXCEPT ![e] = segs[e] \o SubSeq(q, 1, n)]
    BY DEF Flush
<1>4. Flat(segs[x]) /\ Flat(cb[x].snd_queue)
    BY DEF FInv
<1> HIDE DEF n
<1>5. CASE x = e
  <2>1. Flat(q) /\ Flat(segs[e]) /\ segs[e] \in Seq(Piece)
      BY <1>1, <1>4, <1>5
  <2> HIDE DEF q
  <2>2. Flat(SubSeq(q, 1, n)) /\ Flat(SubSeq(q, n + 1, Len(q))) /\ SubSeq(q, 1, n) \in Seq(Piece)
      BY <1>2, <2>1, FlatCut, CutFields
  <2>3. Flat(segs[e] \o SubSeq(q, 1, n))
      BY <2>1, <2>2, FlatConcat
  <2>4. segs'[e] = segs[e] \o SubSeq(q, 1, n)
      BY <1>1, <1>3
  <2> QED
      BY <1>2, <1>5, <2>2, <2>3, <2>4
<1>6. CASE x # e
  <2>1. segs'[x] = segs[x]
    <3>1. x \in Ends
        BY LinkAssumption
    <3> HIDE DEF q
    <3> QED
        BY <1>1, <1>3, <1>6, <3>1
  <2> QED
      BY <1>4, <1>6, <2>1
<1> QED
    BY <1>5, <1>6

LEMMA DealFlat ==
    ASSUME NEW c, IsCB(c), OnDealMsg(c), DOMAIN cb = Ends, NEW x \in Ends
    PROVE  cb'[x].snd_queue = (IF x = "server" THEN c ELSE cb[x]).snd_queue
<1>1. CASE Deals(c)
  <2> DEFINE d == ikcp_recv(c, ikcp_peeksize(c))
  <2>1. cb' = [cb EXCEPT !["server"] = d] /\ ikcp_peeksize(c) # 0
      BY <1>1 DEF OnDealMsg, Deals
  <2>2. d.snd_queue = c.snd_queue
      BY <2>1, PeekIsInQueue, StartRecv
  <2> HIDE DEF d
  <2> QED
      BY <2>1, <2>2
<1>2. CASE ~Deals(c)
    BY <1>2 DEF OnDealMsg
<1> QED
    BY <1>1, <1>2

LEMMA StepFlat ==
    ASSUME IInv, FInv, [Next]_vars
    PROVE  FInv'
<1> SUFFICES ASSUME NEW x \in Stream
             PROVE  Flat(segs'[x]) /\ Flat(cb'[x].snd_queue)
    BY DEF FInv
<1>1. x \in Ends /\ Flat(segs[x]) /\ Flat(cb[x].snd_queue)
    BY LinkAssumption DEF FInv
<1>2. DOMAIN cb = Ends /\ \A e \in Ends : IsCB(cb[e])
    BY LinksOf DEF IInv, Typed
<1>3. ASSUME NEW e \in Ends, NEW c, c.snd_queue = cb[e].snd_queue,
             cb' = [cb EXCEPT ![e] = c], segs' = segs
      PROVE  Flat(segs'[x]) /\ Flat(cb'[x].snd_queue)
    BY <1>1, <1>2, <1>3
<1>4. CASE UNCHANGED vars
    BY <1>1, <1>4 DEF vars
<1>5. ASSUME NEW e \in Ends, Write(e)
      PROVE  Flat(segs'[x]) /\ Flat(cb'[x].snd_queue)
  <2> DEFINE from == End(writes[e])
  <2>1. PICK n \in Sizes[e] :
            cb' = [cb EXCEPT ![e] = ikcp_send(cb[e], from, n, e \in Stream)] /\ segs' = segs
      BY <1>5 DEF Write
  <2>2. n \in Nat
      BY LinkAssumption
  <2>3. from \in Nat
      BY EndFields DEF IInv, Typed
  <2> HIDE DEF from
  <2>4. CASE x = e
    <3> DEFINE a == Reach(segs[e], 0)
    <3>1. segs[e] \in Seq(Piece) /\ Written(cb[e], segs[e], End(writes[e]))
        BY LinksOf DEF Link
    <3>2. Chain(segs[e], 0) /\ Chain(cb[e].snd_queue, a)
        BY <3>1 DEF Written
    <3>3. a \in Nat
        BY <3>1, <3>2, ChainBounds
    <3> HIDE DEF a
    <3>4. Flat(ikcp_send(cb[e], from, n, TRUE).snd_queue)
        BY <1>1, <1>2, <2>2, <2>3, <2>4, <3>2, <3>3, FlatSend
    <3>5. (e \in Stream) = TRUE
        BY <2>4
    <3>6. cb'[x] = ikcp_send(cb[e], from, n, TRUE)
        BY <1>1, <1>2, <2>1, <2>4, <3>5
    <3> QED
        BY <1>1, <2>1, <3>4, <3>6
  <2>5. CASE x # e
      BY <1>1, <1>2, <2>1, <2>5
  <2> QED
      BY <2>4, <2>5
<1>6. ASSUME NEW some, ClientFlush(some)
      PROVE  Flat(segs'[x]) /\ Flat(cb'[x].snd_queue)
  <2> DEFINE c == ikcp_flush(cb["client"])
  <2>1. Flush("client", cb["client"], some) /\ cb' = [cb EXCEPT !["client"] = c]
      BY <1>6 DEF ClientFlush
  <2>2. Flat(segs'[x]) /\ Flat((IF x = "client" THEN c ELSE cb[x]).snd_queue)
      BY <2>1, FlushFlat, ClientServer
  <2> HIDE DEF c
  <2> QED
      BY <1>1, <1>2, <2>1, <2>2
<1>7. ASSUME NEW some, ServerFlush(some)
      PROVE  Flat(segs'[x]) /\ Flat(cb'[x].snd_queue)
  <2> DEFINE c == ikcp_flush(cb["server"])
  <2>1. Flush("server", cb["server"], some) /\ OnDealMsg(c)
      BY <1>7 DEF ServerFlush
  <2>2. Flat(segs'[x]) /\ Flat((IF x = "server" THEN c ELSE cb[x]).snd_queue)
      BY <2>1, FlushFlat, ClientServer
  <2>3. IsCB(c)
      BY <1>2, FlushFields, ClientServer
  <2> HIDE DEF c
  <2> QED
      BY <1>1, <1>2, <2>1, <2>2, <2>3, DealFlat
<1>8. CASE ServerNoFlush
  <2>1. OnDealMsg(cb["server"]) /\ segs' = segs
      BY <1>8 DEF ServerNoFlush
  <2>2. cb'[x].snd_queue = cb[x].snd_queue
      BY <1>1, <1>2, <2>1, DealFlat, ClientServer
  <2> QED
      BY <1>1, <2>1, <2>2
<1>9. CASE ClientRecv
  <2> DEFINE c == cb["client"]
  <2>1. /\ ikcp_peeksize(c) > 0 /\ segs' = segs
        /\ cb' = [cb EXCEPT !["client"] = ikcp_recv(c, ikcp_peeksize(c))]
      BY <1>9 DEF ClientRecv
  <2>2. ikcp_recv(c, ikcp_peeksize(c)).snd_queue = c.snd_queue
      BY <1>2, <2>1, PeekIsInQueue, StartRecv, ClientServer
  <2> QED
      BY <1>3, <2>1, <2>2, ClientServer
<1>10. ASSUME NEW e \in Ends, NEW seg \in net[e], Arrives(e, seg)
       PROVE  Flat(segs'[x]) /\ Flat(cb'[x].snd_queue)
  <2>1. /\ cb' = [cb EXCEPT ![e] = ikcp_input(cb[e], seg)] /\ segs' = segs /\ seg \in Segment
      BY <1>10 DEF Arrives, IInv, Typed
  <2>2. ikcp_input(cb[e], seg).snd_queue = cb[e].snd_queue
      BY <1>2, <2>1, StartInput
  <2> QED
      BY <1>3, <2>1, <2>2
<1> QED
  <2>1. CASE \E e \in Ends : Write(e)
      BY <1>5, <2>1
  <2>2. CASE \E some \in OnTheWay("client") : ClientFlush(some)
      BY <1>6, <2>2
  <2>3. CASE \E some \in OnTheWay("server") : ServerFlush(some)
      BY <1>7, <2>3
  <2>4. CASE OnRead
      BY <1>10, <2>4, ClientServer DEF OnRead
  <2>5. CASE ClientInput
      BY <1>10, <2>5, ClientServer DEF ClientInput
  <2> QED
      BY <1>4, <1>8, <1>9, <2>1, <2>2, <2>3, <2>4, <2>5 DEF Next

(* The first of the pieces that are out after a flush is urgent. *)
LEMMA SpeaksPush ==
    ASSUME NEW c, IsCB(c), DOMAIN ikcp_flush(c).snd_buf # {}
    PROVE  Speaks(c)
<1> DEFINE n == ikcp_flush(c)
           D == DOMAIN n.snd_buf
           l == Least(D)
           seg == [cmd |-> "PUSH", sn |-> l, una |-> c.rcv_nxt, wnd |-> ikcp_wnd_unused(c),
                   data |-> n.snd_buf[l]]
<1>1. D \in SUBSET Nat
    BY FlushFields, CBFields
<1>2. l \in D /\ \A k \in D : l =< k
  <2> HIDE DEF D
  <2>1. D # {}
      BY DEF D
  <2> QED
      BY <1>1, <2>1, LeastIsLeast
<1> HIDE DEF l
<1>3. seg \in Output(c)
    BY <1>2 DEF Output
<1>4. Urgent(n, seg)
  <2>1. seg.cmd = "PUSH" /\ seg.sn = l
      OBVIOUS
  <2> HIDE DEF seg
  <2> QED
      BY <1>2, <2>1 DEF Urgent
<1> QED
    BY <1>3, <1>4 DEF Speaks

(* So is the question for the window, when nothing is out. *)
LEMMA SpeaksAsk ==
    ASSUME NEW c, c.rmt_wnd = 0, DOMAIN ikcp_flush(c).snd_buf = {}
    PROVE  Speaks(c)
<1> DEFINE seg == [cmd |-> "WASK", una |-> c.rcv_nxt, wnd |-> ikcp_wnd_unused(c)]
<1>1. seg \in Output(c)
    BY DEF Output
<1>2. Urgent(ikcp_flush(c), seg)
  <2>1. seg.cmd = "WASK"
      OBVIOUS
  <2> QED
      BY <2>1 DEF Urgent
<1> QED
    BY <1>1, <1>2 DEF Speaks

(* An end that has nothing urgent to say has nothing left to send. *)
LEMMA Silent ==
    ASSUME NEW c, IsCB(c), SndKept(c), ~Speaks(c)
    PROVE  DOMAIN c.snd_buf = {} /\ Len(c.snd_queue) = 0
<1> DEFINE n == Numbered(c)
           w == Window(c)
           q == Len(c.snd_queue)
           room == c.snd_una + w - c.snd_nxt
<1>1. DOMAIN ikcp_flush(c).snd_buf = {}
    BY SpeaksPush
<1>2. /\ DOMAIN ikcp_flush(c).snd_buf = DOMAIN c.snd_buf \cup (c.snd_nxt..(c.snd_nxt + n - 1))
      /\ n \in 0..q
    BY FlushFields, NumberedBounds
<1>3. /\ c.snd_una \in Nat /\ c.snd_nxt \in Nat /\ c.rmt_wnd \in Nat /\ q \in Nat
      /\ SndWnd \in Nat \ {0}
    BY UnaField, CBFields, WindowSizes
<1>4. DOMAIN c.snd_buf = {}
    BY <1>1, <1>2
<1>5. c.snd_una = c.snd_nxt
    BY <1>4 DEF SndKept
<1>6. c.rmt_wnd # 0
    BY <1>1, SpeaksAsk
<1>7. w \in Nat /\ w > 0
    BY <1>3, <1>6 DEF Window
<1>8. n = IF room =< 0 THEN 0 ELSE IF room < q THEN room ELSE q
    BY DEF Numbered
<1> HIDE DEF n, w, q
<1>9. room = w
    BY <1>3, <1>5, <1>7
<1>10. n = 0
  <2>1. n # 0 => c.snd_nxt \in c.snd_nxt..(c.snd_nxt + n - 1)
      BY <1>2, <1>3
  <2> QED
      BY <1>1, <1>2, <2>1
<1> HIDE DEF room
<1>11. q = 0
    BY <1>3, <1>7, <1>8, <1>9, <1>10
<1> QED
    BY <1>4, <1>11 DEF q

(* A first message that is there to its last piece can be taken. *)
LEMMA PeekWhole ==
    ASSUME NEW d, IsCB(d), Len(d.rcv_queue) # 0,
           Len(d.rcv_queue) >= d.rcv_queue[1].frg + 1
    PROVE  ikcp_peeksize(d) > 0
<1> DEFINE q == d.rcv_queue
           S == {i \in DOMAIN q : q[i].frg = 0 \/ i = Len(q)}
<1>1. q \in Seq(Piece) /\ Len(q) \in Nat
    BY CBFields
<1>2. DOMAIN q = 1..Len(q) /\ q # <<>>
    BY <1>1
<1>3. Len(q) \in S
    BY <1>1, <1>2
<1>4. S \in SUBSET Nat /\ S \subseteq 1..Len(q)
    BY <1>2
<1>5. ~(Len(q) < q[1].frg + 1)
  <2>1. q[1].frg \in Nat
    <3>1. 1 \in 1..Len(q)
        BY <1>1
    <3>2. q[1] \in Piece
        BY <1>1, <3>1, PieceFields
    <3> QED
        BY <3>2 DEF Piece
  <2> DEFINE k == q[1].frg
             m == Len(q)
  <2>2. k \in Nat /\ m \in Nat /\ m >= k + 1
      BY <1>1, <2>1
  <2> HIDE DEF k, m
  <2>3. ~(m < k + 1)
      BY <2>2
  <2> QED
      BY <2>3 DEF k, m
<1>6. ikcp_peeksize(d) = Least(S)
    BY <1>2, <1>5 DEF ikcp_peeksize
<1> HIDE DEF S
<1>7. Least(S) \in S
    BY <1>3, <1>4, LeastIsLeast
<1> QED
    BY <1>1, <1>4, <1>6, <1>7

(* What is written and not taken, when the writer has nothing left to send: *)
(* it waits in rcv_queue, and all of it unless that is full.                *)
LEMMA AllWaits ==
    ASSUME NEW c, NEW d, NEW s, NEW F, NEW B, NEW w, NEW g, Link(c, d, s, F, B, w, g),
           RcvKept(d), DOMAIN c.snd_buf = {}, Len(c.snd_queue) = 0, w # g
    PROVE  /\ Len(d.rcv_queue) # 0
           /\ Len(d.rcv_queue) # RcvWnd => d.rcv_nxt = Len(s)
<1>1. /\ IsCB(c) /\ IsCB(d) /\ s \in Seq(Piece) /\ Sent(c, s) /\ Arrived(d, s)
      /\ Acked(c, d) /\ Written(c, s, w) /\ Taken(d, s, g)
    BY DEF Link
<1>2. /\ d.rcv_nxt \in Nat /\ Len(d.rcv_queue) \in Nat /\ RcvWnd \in Nat \ {0} /\ Len(s) \in Nat
      /\ d.rcv_nxt =< Len(s) /\ c.snd_nxt = Len(s)
    BY <1>1, CBFields, WindowSizes DEF Arrived, Sent
<1>3. Len(d.rcv_queue) # RcvWnd => d.rcv_nxt = Len(s)
  <2> SUFFICES ASSUME Len(d.rcv_queue) # RcvWnd, d.rcv_nxt # Len(s)
               PROVE  FALSE
      OBVIOUS
  <2>1. d.rcv_nxt \in 0..(c.snd_nxt - 1)
      BY <1>2
  <2>2. Held(d, d.rcv_nxt)
      BY <1>1, <2>1 DEF Acked
  <2>3. d.rcv_nxt \notin DOMAIN d.rcv_buf
      BY DEF RcvKept
  <2> QED
      BY <1>2, <2>2, <2>3 DEF Held
<1>4. Len(d.rcv_queue) # 0
  <2> SUFFICES ASSUME Len(d.rcv_queue) = 0
               PROVE  w = g
      OBVIOUS
  <2>1. d.rcv_nxt = Len(s) /\ Start(d) = Len(s)
      BY <1>2, <1>3 DEF Start
  <2>2. g = Reach(s, 0)
      BY <1>1, <2>1 DEF Taken, Reach
  <2>3. w = Reach(s, 0)
      BY <1>1 DEF Written, Reach
  <2> QED
      BY <2>2, <2>3
<1> QED
    BY <1>3, <1>4

(* The message at the front, in message mode, ends before the pieces do. *)
LEMMA FrontWhole ==
    ASSUME NEW s \in Seq(Piece), NEW w \in Seq(Chunk), NEW g \in Seq(Chunk), NEW n \in Nat,
           Whole(s, w, g, n), n < Len(s)
    PROVE  n + (s[n + 1].frg + 1) =< Len(s)
<1>1. PICK at \in [1..(Len(w) + 1) -> 0..Len(s)] :
          Cuts(s, w, at) /\ Len(g) =< Len(w) /\ at[Len(g) + 1] = n
    BY DEF Whole
<1>2. Len(s) \in Nat /\ Len(w) \in Nat /\ Len(g) \in Nat
    OBVIOUS
<1>3. at[Len(w) + 1] = Len(s)
    BY <1>1 DEF Cuts
<1>4. Len(g) # Len(w)
    BY <1>1, <1>2, <1>3
<1> DEFINE i == Len(g) + 1
<1>5. i \in 1..Len(w) /\ i + 1 \in 1..(Len(w) + 1) /\ i \in 1..(Len(w) + 1)
    BY <1>1, <1>2, <1>4
<1>6. /\ at[i] = n /\ at[i] < at[i + 1]
      /\ \A k \in (at[i] + 1)..at[i + 1] : s[k].frg = at[i + 1] - k
    BY <1>1, <1>5 DEF Cuts
<1> HIDE DEF i
<1> DEFINE m == at[i + 1]
<1>7. m \in 0..Len(s)
    BY <1>1, <1>5
<1>8. n < m /\ \A k \in (n + 1)..m : s[k].frg = m - k
    BY <1>6
<1> HIDE DEF m
<1>9. n + 1 \in (n + 1)..m
    BY <1>2, <1>7, <1>8
<1>10. s[n + 1].frg = m - (n + 1)
    BY <1>8, <1>9
<1> QED
    BY <1>2, <1>7, <1>10

LEMMA SpeaksOrHeard ==
    ASSUME IInv, MInv, KInv, FInv
    PROVE  NeverStuck
<1> SUFFICES ASSUME NEW e \in Ends, End(writes[e]) # End(got[Peer[e]]), ~Speaks(cb[e]),
                    ~(e \notin Stream /\ TooLong(cb[Peer[e]]))
             PROVE  ikcp_peeksize(cb[Peer[e]]) > 0
    BY DEF NeverStuck
<1> DEFINE c == cb[e]
           d == cb[Peer[e]]
           s == segs[e]
           q == d.rcv_queue
<1>1. Link(c, d, s, net[Peer[e]], net[e], End(writes[e]), End(got[Peer[e]]))
    BY LinksOf
<1>2. Kept(c) /\ Kept(d)
    BY PeerFields DEF KInv
<1>3. IsCB(c) /\ IsCB(d) /\ s \in Seq(Piece) /\ Arrived(d, s)
    BY <1>1 DEF Link
<1>4. DOMAIN c.snd_buf = {} /\ Len(c.snd_queue) = 0
    BY <1>2, <1>3, Silent DEF Kept
<1>5. Len(q) # 0 /\ (Len(q) # RcvWnd => d.rcv_nxt = Len(s))
    BY <1>1, <1>2, <1>4, AllWaits DEF Kept
<1>6. /\ q \in Seq(Piece) /\ Len(q) \in Nat /\ RcvWnd \in Nat /\ Len(s) \in Nat
      /\ d.rcv_nxt \in Nat /\ c.snd_queue \in Seq(Piece)
    BY <1>3, CBFields, WindowSizes
<1>7. Start(d) \in Nat /\ Start(d) + Len(q) = d.rcv_nxt /\ d.rcv_nxt =< Len(s)
    BY <1>3, <1>6 DEF Arrived, Start
<1>8. q[1] = s[Start(d) + 1] /\ Start(d) + 1 \in 1..Len(s)
  <2>1. 1 \in 1..Len(q)
      BY <1>5, <1>6
  <2>2. q[1] = s[Start(d) + 1]
      BY <1>3, <2>1 DEF Arrived
  <2> DEFINE a == Start(d)
             m == Len(q)
             r == d.rcv_nxt
             l == Len(s)
  <2>3. a \in Nat /\ m \in Nat \ {0} /\ a + m = r /\ r =< l /\ r \in Nat /\ l \in Nat
      BY <1>5, <1>6, <1>7
  <2> HIDE DEF a, m, r, l
  <2>4. a + 1 \in 1..l
      BY <2>3
  <2> QED
      BY <2>2, <2>4 DEF a, l
<1>9. s[Start(d) + 1].frg \in Nat
  <2>1. s[Start(d) + 1] \in Piece
      BY <1>3, <1>8, PieceFields
  <2> QED
      BY <2>1 DEF Piece
<1> SUFFICES Len(q) >= q[1].frg + 1
    BY <1>3, <1>5, PeekWhole
<1>10. CASE e \in Stream
  <2>1. s[Start(d) + 1].frg = 0
      BY <1>8, <1>10 DEF FInv, Flat
  <2> HIDE DEF q, d, s
  <2> QED
      BY <1>5, <1>6, <1>8, <2>1
<1>11. CASE e \notin Stream /\ Len(q) = RcvWnd
  <2>1. ~TooLong(d)
      BY <1>11
  <2>2. q # <<>>
      BY <1>5
  <2>3. ~(q[1].frg >= RcvWnd)
      BY <2>1, <2>2 DEF TooLong
  <2> HIDE DEF q, d, s
  <2>4. q[1].frg \in Nat
      BY <1>8, <1>9
  <2> QED
      BY <1>6, <1>11, <2>3, <2>4
<1>12. CASE e \notin Stream /\ Len(q) # RcvWnd
  <2>1. Whole(Pieces(e), writes[e], got[Peer[e]], Start(d))
      BY <1>12 DEF MInv, Heard
  <2>2. Pieces(e) = s
    <3> HIDE DEF c, s
    <3>1. c.snd_queue = <<>>
        BY <1>4, <1>6
    <3>2. Pieces(e) = s \o c.snd_queue
        BY DEF Pieces, c, s
    <3> QED
        BY <1>3, <3>1, <3>2
  <2>3. writes[e] \in Seq(Chunk) /\ got[Peer[e]] \in Seq(Chunk)
      BY PeerFields DEF IInv, Typed
  <2>4. Start(d) < Len(s)
      BY <1>6, <1>7, <1>8
  <2> HIDE DEF s, q, d, c
  <2>5. Start(d) + (s[Start(d) + 1].frg + 1) =< Len(s)
      BY <1>3, <1>7, <2>1, <2>2, <2>3, <2>4, FrontWhole
  <2>6. Start(d) + Len(q) = Len(s)
      BY <1>5, <1>7, <1>12
  <2> DEFINE a == Start(d)
             k == s[a + 1].frg
             m == Len(q)
             l == Len(s)
  <2>7. a \in Nat /\ k \in Nat /\ m \in Nat /\ l \in Nat /\ a + (k + 1) =< l /\ a + m = l
      BY <1>6, <1>7, <1>9, <2>5, <2>6
  <2>8. q[1].frg = k
      BY <1>8
  <2> HIDE DEF a, k, m, l
  <2>9. m >= k + 1
      BY <2>7
  <2> QED
      BY <2>8, <2>9 DEF m
<1> QED
    BY <1>10, <1>11, <1>12

(* No interleaving, loss or reordering leaves both ends silent over bytes   *)
(* that were written and not taken: the writer has a piece to send again or *)
(* a window to ask for, or a whole message is there to be taken; but for a  *)
(* message of more pieces than rcv_wnd.                                     *)
THEOREM SessionNeverStuck == Spec => []NeverStuck
<1>1. Init => IInv /\ MInv /\ KInv /\ FInv
    BY InitLinked, InitHeard, InitKept, InitFlat
<1>2. IInv /\ MInv /\ KInv /\ FInv /\ [Next]_vars => IInv' /\ MInv' /\ KInv' /\ FInv'
    BY StepLinked, StepHeard, StepKept, StepFlat
<1>3. IInv /\ MInv /\ KInv /\ FInv => NeverStuck
    BY SpeaksOrHeard
<1> QED
    BY <1>1, <1>2, <1>3, PTL DEF Spec
=============================================================================

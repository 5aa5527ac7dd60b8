-------------------------------- MODULE Ikcp --------------------------------
(***************************************************************************)
(* One end of a KCP connection: the control block ikcpcb and the functions *)
(* of kcpsess/ikcp.c that change it, as operators from control blocks to   *)
(* control blocks.                                                         *)
(*                                                                         *)
(* Data are places in the stream of bytes that an end writes: a piece      *)
(* [lo, hi, frg] stands for the bytes lo+1..hi, frg pieces of its message  *)
(* follow it.  Numbers of segments (sn) are unbounded here, 32 bits in the *)
(* code.  Time is left out: any outstanding segment may be due again, by   *)
(* its timer or because later ones were acknowledged.  The congestion      *)
(* window is off, as ikcp_nodelay(.., 1) leaves it.                        *)
(***************************************************************************)
EXTENDS Integers, Sequences, FiniteSets, Functions

CONSTANTS Mss,      \* bytes that fit into one segment
          MaxFrg,   \* pieces that one call of ikcp_send may need (255)
          InitWnd,  \* what rmt_wnd is before the peer has told its own
          SndWnd,   \* snd_wnd and
          RcvWnd    \* rcv_wnd, of both ends (ikcp_wndsize)

ASSUME IkcpAssumption ==
    /\ Mss \in Nat \ {0} /\ MaxFrg \in Nat /\ InitWnd \in Nat
    /\ SndWnd \in Nat \ {0} /\ RcvWnd \in Nat \ {0}

Piece == [lo : Nat, hi : Nat, frg : Nat]

(* What goes over the network.  Only PUSH carries a piece.                  *)
Segment == [cmd : {"PUSH"}, sn : Nat, una : Nat, wnd : Nat, data : Piece]
           \cup [cmd : {"ACK"}, sn : Nat, una : Nat, wnd : Nat]
           \cup [cmd : {"WASK", "WINS"}, una : Nat, wnd : Nat]

(* snd_buf and rcv_buf are lists in the order of sn, that is functions from *)
(* numbers to pieces; of acklist only the numbers matter.                   *)
Holds(buf) == /\ DOMAIN buf \subseteq Nat
              /\ buf = [sn \in DOMAIN buf |-> buf[sn]]
              /\ \A sn \in DOMAIN buf : buf[sn] \in Piece

IsCB(c) ==
    /\ c = [snd_queue |-> c.snd_queue, snd_buf |-> c.snd_buf, snd_una |-> c.snd_una,
            snd_nxt |-> c.snd_nxt, rmt_wnd |-> c.rmt_wnd, rcv_nxt |-> c.rcv_nxt,
            rcv_buf |-> c.rcv_buf, rcv_queue |-> c.rcv_queue, acklist |-> c.acklist,
            tell |-> c.tell]
    /\ c.snd_queue \in Seq(Piece) /\ c.rcv_queue \in Seq(Piece)
    /\ Holds(c.snd_buf) /\ Holds(c.rcv_buf)
    /\ c.snd_una \in Nat /\ c.snd_nxt \in Nat /\ c.rmt_wnd \in Nat /\ c.rcv_nxt \in Nat
    /\ c.acklist \subseteq Nat /\ c.tell \in BOOLEAN

NoPieces == [sn \in {} |-> 0]

ikcp_create ==
    [snd_queue |-> <<>>, snd_buf |-> NoPieces, snd_una |-> 0, snd_nxt |-> 0,
     rmt_wnd |-> InitWnd, rcv_nxt |-> 0, rcv_buf |-> NoPieces, rcv_queue |-> <<>>,
     acklist |-> {}, tell |-> FALSE]

(* The least number of S, for the lists that are taken from the front. *)
Least(S) == CHOOSE n \in S : \A k \in S : n =< k

-----------------------------------------------------------------------------
(* ikcp_send                                                               *)

CeilDiv(n, d) == (n + d - 1) \div d

(* n bytes from place `from' on, in pieces of at most Mss. *)
Fragments(from, n, stream) ==
    LET count == CeilDiv(n, Mss)
    IN  [i \in 1..count |->
            [lo  |-> from + (i - 1) * Mss,
             hi  |-> IF i = count THEN from + n ELSE from + i * Mss,
             frg |-> IF stream THEN 0 ELSE count - i]]

LastPiece(queue) == queue[Len(queue)]

(* In stream mode the last piece that waits is filled up first, with this   *)
(* many of the n bytes.                                                     *)
Extend(queue, n, stream) ==
    IF ~stream \/ queue = <<>> THEN 0
    ELSE LET room == Mss - (LastPiece(queue).hi - LastPiece(queue).lo)
         IN  IF room =< 0 THEN 0 ELSE IF n < room THEN n ELSE room

(* Mutant of FillLast: the bytes are copied and the length stays.           *)
FillLastLoses(queue, extend) ==
    IF extend = 0 THEN queue ELSE [queue EXCEPT ![Len(queue)].frg = 0]

FillLast(queue, extend) ==
    IF extend = 0 THEN queue
    ELSE [queue EXCEPT ![Len(queue)] = [lo |-> LastPiece(queue).lo,
                                        hi |-> LastPiece(queue).hi + extend, frg |-> 0]]

(* Bytes that a send of n puts into the queue: a call that needs too many   *)
(* pieces is refused, but only after the last piece was filled up.          *)
Accepted(queue, n, stream) ==
    LET extend == Extend(queue, n, stream)
    IN  IF CeilDiv(n - extend, Mss) > MaxFrg THEN extend ELSE n

ikcp_send(cb, from, n, stream) ==
    LET extend == Extend(cb.snd_queue, n, stream)
        more   == Accepted(cb.snd_queue, n, stream) - extend
    IN  [cb EXCEPT !.snd_queue = FillLast(@, extend) \o Fragments(from + extend, more, stream)]

-----------------------------------------------------------------------------
(* ikcp_recv                                                               *)

(* Mutant of ikcp_peeksize: what is there is a message, whole or not.       *)
ikcp_peeksizePartial(cb) ==
    IF cb.rcv_queue = <<>> THEN 0
    ELSE Least({i \in DOMAIN cb.rcv_queue :
                    cb.rcv_queue[i].frg = 0 \/ i = Len(cb.rcv_queue)})

(* Mutant of ikcp_peeksize: it waits for one piece more than the message has. *)
ikcp_peeksizeWaits(cb) ==
    IF cb.rcv_queue = <<>> \/ Len(cb.rcv_queue) =< cb.rcv_queue[1].frg + 1 THEN 0
    ELSE Least({i \in DOMAIN cb.rcv_queue :
                    cb.rcv_queue[i].frg = 0 \/ i = Len(cb.rcv_queue)})

(* Pieces at the front of rcv_queue that make up its first message, when    *)
(* all of them have come; else 0.                                           *)
ikcp_peeksize(cb) ==
    IF cb.rcv_queue = <<>> \/ Len(cb.rcv_queue) < cb.rcv_queue[1].frg + 1 THEN 0
    ELSE Least({i \in DOMAIN cb.rcv_queue :
                    cb.rcv_queue[i].frg = 0 \/ i = Len(cb.rcv_queue)})

(* Pieces of rcv_buf, from rcv_nxt on, that can go to rcv_queue now. *)
Ready(cb) ==
    Least({n \in 0..RcvWnd : \/ cb.rcv_nxt + n \notin DOMAIN cb.rcv_buf
                             \/ Len(cb.rcv_queue) + n >= RcvWnd})

Arrange(cb) ==
    LET n == Ready(cb)
    IN  [cb EXCEPT !.rcv_queue = @ \o [i \in 1..n |-> cb.rcv_buf[cb.rcv_nxt + i - 1]],
                   !.rcv_buf   = Restrict(@, DOMAIN @ \ (cb.rcv_nxt..(cb.rcv_nxt + n - 1))),
                   !.rcv_nxt   = @ + n]

(* Mutant of ikcp_recv: the last piece taken stays in the queue.            *)
ikcp_recvKeepsLast(cb, n) == Arrange([cb EXCEPT !.rcv_queue = SubSeq(@, n, Len(@))])

(* Take the first n pieces; when that opens a closed window, tell the peer. *)
ikcp_recv(cb, n) ==
    LET freed == [cb EXCEPT !.rcv_queue = SubSeq(@, n + 1, Len(@))]
        moved == Arrange(freed)
    IN  [moved EXCEPT !.tell = \/ @
                               \/ /\ Len(cb.rcv_queue) >= RcvWnd
                                  /\ Len(moved.rcv_queue) < RcvWnd]

-----------------------------------------------------------------------------
(* ikcp_input, for one segment                                             *)

ikcp_shrink_buf(cb) ==
    [cb EXCEPT !.snd_una = IF DOMAIN cb.snd_buf = {} THEN cb.snd_nxt
                           ELSE Least(DOMAIN cb.snd_buf)]

(* Mutant of ikcp_parse_una: una is taken for the last received, not the    *)
(* next expected.                                                           *)
ikcp_parse_unaOne(cb, una) ==
    [cb EXCEPT !.snd_buf = Restrict(@, {sn \in DOMAIN @ : sn > una})]

ikcp_parse_una(cb, una) ==
    [cb EXCEPT !.snd_buf = Restrict(@, {sn \in DOMAIN @ : sn >= una})]

ikcp_parse_ack(cb, sn) ==
    IF sn < cb.snd_una \/ sn >= cb.snd_nxt THEN cb
    ELSE [cb EXCEPT !.snd_buf = Restrict(@, DOMAIN @ \ {sn})]

ikcp_parse_data(cb, sn, piece) ==
    IF sn >= cb.rcv_nxt + RcvWnd \/ sn < cb.rcv_nxt THEN cb
    ELSE Arrange(IF sn \in DOMAIN cb.rcv_buf THEN cb
                 ELSE [cb EXCEPT !.rcv_buf = [k \in DOMAIN @ \cup {sn} |->
                                                 IF k = sn THEN piece ELSE @[k]]])

(* Mutant of InputPush: a segment received before is not acknowledged again. *)
InputPushOnce(cb, seg) ==
    IF seg.sn >= cb.rcv_nxt + RcvWnd \/ seg.sn < cb.rcv_nxt \/ seg.sn \in DOMAIN cb.rcv_buf
    THEN cb
    ELSE ikcp_parse_data([cb EXCEPT !.acklist = @ \cup {seg.sn}], seg.sn, seg.data)

(* A segment past the window is not even acknowledged; one that was already *)
(* received is acknowledged again.                                          *)
InputPush(cb, seg) ==
    IF seg.sn >= cb.rcv_nxt + RcvWnd THEN cb
    ELSE ikcp_parse_data([cb EXCEPT !.acklist = @ \cup {seg.sn}], seg.sn, seg.data)

ikcp_input(cb, seg) ==
    LET heard == ikcp_shrink_buf(ikcp_parse_una([cb EXCEPT !.rmt_wnd = seg.wnd], seg.una))
    IN  CASE seg.cmd = "ACK"  -> ikcp_shrink_buf(ikcp_parse_ack(heard, seg.sn))
          [] seg.cmd = "PUSH" -> InputPush(heard, seg)
          [] seg.cmd = "WASK" -> [heard EXCEPT !.tell = TRUE]
          [] seg.cmd = "WINS" -> heard

-----------------------------------------------------------------------------
(* ikcp_flush                                                              *)

ikcp_wnd_unused(cb) ==
    IF Len(cb.rcv_queue) < RcvWnd THEN RcvWnd - Len(cb.rcv_queue) ELSE 0

(* Segments that may be outstanding, and pieces that a flush numbers. *)
Window(cb) == IF SndWnd < cb.rmt_wnd THEN SndWnd ELSE cb.rmt_wnd

Numbered(cb) ==
    LET room == cb.snd_una + Window(cb) - cb.snd_nxt
    IN  IF room =< 0 THEN 0
        ELSE IF room < Len(cb.snd_queue) THEN room ELSE Len(cb.snd_queue)

(* The control block after a flush. *)
ikcp_flush(cb) ==
    LET n == Numbered(cb)
    IN  [cb EXCEPT
           !.acklist   = {},
           !.tell      = FALSE,
           !.snd_queue = SubSeq(@, n + 1, Len(@)),
           !.snd_buf   = [sn \in DOMAIN @ \cup (cb.snd_nxt..(cb.snd_nxt + n - 1)) |->
                             IF sn \in DOMAIN @ THEN @[sn]
                             ELSE cb.snd_queue[sn - cb.snd_nxt + 1]],
           !.snd_nxt   = @ + n]

(* What a flush may send: the acknowledgements, the question for the window *)
(* when that is 0, the answer to one, the pieces numbered now and any of    *)
(* those outstanding before, if they are due.  A segment that is not due    *)
(* and one that is lost are the same to the rest of the system.             *)
Output(cb) ==
    LET next == ikcp_flush(cb)
        wnd  == ikcp_wnd_unused(cb)
        una  == cb.rcv_nxt
    IN  {[cmd |-> "ACK", sn |-> sn, una |-> una, wnd |-> wnd] : sn \in cb.acklist}
        \cup {[cmd |-> c, una |-> una, wnd |-> wnd] :
                 c \in {d \in {"WASK", "WINS"} : \/ d = "WASK" /\ cb.rmt_wnd = 0
                                                 \/ d = "WINS" /\ cb.tell}}
        \cup {[cmd |-> "PUSH", sn |-> sn, una |-> una, wnd |-> wnd,
               data |-> next.snd_buf[sn]] : sn \in DOMAIN next.snd_buf}
=============================================================================

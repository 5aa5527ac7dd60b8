------------------------------ MODULE KcpLink -------------------------------
(***************************************************************************)
(* One KCP session: the client and the server's UDPConn, each with its     *)
(* control block (module Ikcp), and the network between them, which loses, *)
(* doubles and reorders what it carries.                                   *)
(*                                                                         *)
(*   ep thread    OnRead: input of one datagram, m_bread is set            *)
(*   main thread  Update: ikcp_update, then OnDealMsg, which takes at most *)
(*                one message and only when m_bread is set; Write          *)
(*   client       external; it runs the same ikcp.c                        *)
(*                                                                         *)
(* Both threads of the server hold KCPServer::mutex over their step.  A    *)
(* datagram is one segment: those that a flush puts into one datagram can  *)
(* arrive one after the other.                                             *)
(***************************************************************************)
EXTENDS Ikcp

CONSTANTS Stream,     \* the ends in stream mode (the server sets stream = 1)
          CacheSize,  \* BUFF_CACHE_SIZE, the largest message OnDealMsg takes
          Sizes,      \* sizes of what an end hands to ikcp_send at once
          MaxWrites,  \* bound on the writes of each end
          MaxNet      \* bound on the segments on the way to an end

Ends == {"client", "server"}
Peer == [e \in Ends |-> IF e = "client" THEN "server" ELSE "client"]

ASSUME LinkAssumption ==
    /\ Stream \subseteq Ends /\ CacheSize \in Nat
    /\ Sizes \in [Ends -> SUBSET (Nat \ {0})]
    /\ MaxWrites \in [Ends -> Nat] /\ MaxNet \in [Ends -> Nat]

VARIABLES
    cb,       \* the control block of each end
    net,      \* the segments on the way to each end
    m_bread,  \* the server has read a datagram since its last OnDealMsg
    writes,   \* history: what each end wrote, as [lo, hi]
    segs,     \* history: the pieces each end numbered; segs[e][sn + 1]
    got       \* history: the messages each end took, as [lo, hi]

vars == <<cb, net, m_bread, writes, segs, got>>

Chunk == [lo : Nat, hi : Nat]

TypeOK ==
    /\ DOMAIN cb = Ends /\ \A e \in Ends : IsCB(cb[e])
    /\ net \in [Ends -> SUBSET Segment] /\ m_bread \in BOOLEAN
    /\ writes \in [Ends -> Seq(Chunk)] /\ segs \in [Ends -> Seq(Piece)]
    /\ got \in [Ends -> Seq(Chunk)]

End(chunks) == IF chunks = <<>> THEN 0 ELSE chunks[Len(chunks)].hi

-----------------------------------------------------------------------------
(* ikcp_send by end e; a call that is refused whole writes nothing. *)
Write(e) ==
    \E n \in Sizes[e] :
        LET from == End(writes[e])
            len  == Accepted(cb[e].snd_queue, n, e \in Stream)
        IN  /\ Len(writes[e]) < MaxWrites[e]
            /\ cb' = [cb EXCEPT ![e] = ikcp_send(@, from, n, e \in Stream)]
            /\ writes' = [writes EXCEPT ![e] =
                   IF len = 0 THEN @ ELSE Append(@, [lo |-> from, hi |-> from + len])]
            /\ UNCHANGED <<net, m_bread, segs, got>>

(* A flush of c, end e, leaves `some' on the way: the network drops what it *)
(* likes of what it held and of what it is given.                           *)
Flush(e, c, some) ==
    /\ some \subseteq net[Peer[e]] \cup Output(c) /\ Cardinality(some) =< MaxNet[Peer[e]]
    /\ net' = [net EXCEPT ![Peer[e]] = some]
    /\ segs' = [segs EXCEPT ![e] = @ \o SubSeq(c.snd_queue, 1, Numbered(c))]

OnTheWay(e) == SUBSET (net[Peer[e]] \cup Output(cb[e]))

(* The message at the front of c's rcv_queue, as a chunk. *)
FirstMessage(c) == [lo |-> c.rcv_queue[1].lo, hi |-> c.rcv_queue[ikcp_peeksize(c)].hi]

ClientFlush(some) ==
    /\ Flush("client", cb["client"], some)
    /\ cb' = [cb EXCEPT !["client"] = ikcp_flush(@)]
    /\ UNCHANGED <<m_bread, writes, got>>

ClientRecv ==
    LET c == cb["client"]
    IN  /\ ikcp_peeksize(c) > 0
        /\ cb' = [cb EXCEPT !["client"] = ikcp_recv(c, ikcp_peeksize(c))]
        /\ got' = [got EXCEPT !["client"] = Append(@, FirstMessage(c))]
        /\ UNCHANGED <<net, m_bread, writes, segs>>

(* OnDealMsg on c: nothing to do, a message too large for m_cacheBuf, which *)
(* stays where it is, or one message taken.                                 *)
Deals(c) ==
    /\ m_bread /\ ikcp_peeksize(c) > 0
    /\ FirstMessage(c).hi - FirstMessage(c).lo \in 1..CacheSize

OnDealMsg(c) ==
    /\ m_bread' = FALSE
    /\ IF Deals(c)
       THEN /\ cb' = [cb EXCEPT !["server"] = ikcp_recv(c, ikcp_peeksize(c))]
            /\ got' = [got EXCEPT !["server"] = Append(@, FirstMessage(c))]
       ELSE /\ cb' = [cb EXCEPT !["server"] = c]
            /\ UNCHANGED got

(* Update for this session: ikcp_update, which flushes when it is time,    *)
(* and OnDealMsg.                                                           *)
ServerFlush(some) ==
    /\ Flush("server", cb["server"], some)
    /\ OnDealMsg(ikcp_flush(cb["server"]))
    /\ UNCHANGED writes

ServerNoFlush ==
    /\ OnDealMsg(cb["server"])
    /\ UNCHANGED <<net, writes, segs>>

(* A segment arrives; the network may keep a copy of it. *)
Arrives(e, seg) ==
    /\ UNCHANGED <<writes, segs, got>>
    /\ m_bread' = (m_bread \/ e = "server")
    /\ net' \in {net, [net EXCEPT ![e] = @ \ {seg}]}
    /\ cb' = [cb EXCEPT ![e] = ikcp_input(@, seg)]

ClientInput == \E seg \in net["client"] : Arrives("client", seg)
OnRead      == \E seg \in net["server"] : Arrives("server", seg)

-----------------------------------------------------------------------------
(* m_bread is set by createConn. *)
Init ==
    /\ cb = [e \in Ends |-> ikcp_create]
    /\ net = [e \in Ends |-> {}]
    /\ m_bread = TRUE
    /\ writes = [e \in Ends |-> <<>>]
    /\ segs = [e \in Ends |-> <<>>]
    /\ got = [e \in Ends |-> <<>>]

Next == \/ \E e \in Ends : Write(e)
        \/ \E some \in OnTheWay("client") : ClientFlush(some)
        \/ \E some \in OnTheWay("server") : ServerFlush(some)
        \/ ServerNoFlush \/ OnRead \/ ClientInput \/ ClientRecv

Spec == Init /\ [][Next]_vars

(* The server's two threads and the client go on, and the network does not  *)
(* drop for ever what it is given over and over: the piece that the client  *)
(* sends first, or its question for the window, and an answer of the server *)
(* that is up to date.                                                      *)
Urgent(c, seg) ==
    \/ seg.cmd = "PUSH" /\ seg.sn \in DOMAIN c.snd_buf
                        /\ \A sn \in DOMAIN c.snd_buf : seg.sn =< sn
    \/ seg.cmd = "WASK" /\ DOMAIN c.snd_buf = {}

UpToDate(c, seg) == seg.una = c.rcv_nxt /\ seg.wnd = ikcp_wnd_unused(c)

ClientSends == \E some \in OnTheWay("client") :
                   /\ \E seg \in some : Urgent(ikcp_flush(cb["client"]), seg)
                   /\ ClientFlush(some)
ServerHears == \E seg \in net["server"] : Urgent(cb["client"], seg) /\ Arrives("server", seg)
ServerSends == \E some \in OnTheWay("server") :
                   /\ \E seg \in some : seg \in Output(cb["server"]) /\ UpToDate(cb["server"], seg)
                   /\ ServerFlush(some)
ClientHears == \E seg \in net["client"] : UpToDate(cb["server"], seg) /\ Arrives("client", seg)

FairSpec == /\ Spec
            /\ WF_vars(ServerNoFlush) /\ WF_vars(ClientSends)
            /\ SF_vars(ServerHears) /\ SF_vars(ServerSends) /\ SF_vars(ClientHears)

-----------------------------------------------------------------------------
(* Properties. *)

(* What the server's ikcp_recv hands to the handlers, and the client's to   *)
(* its user, is what the other end gave to ikcp_send: the same bytes in the *)
(* same order, none lost or twice, whatever the network does (parse_una,    *)
(* parse_ack, parse_data, flush; the fill of the last piece in ikcp_send,   *)
(* 476-503, which a refused call leaves half done).                         *)
ToServer == INSTANCE BytePipe WITH written <- End(writes["client"]), got <- got["server"]
ToClient == INSTANCE BytePipe WITH written <- End(writes["server"]), got <- got["client"]

(* The direction client to server is a pipe of bytes (OnRead, OnDealMsg). *)
PipeToServer == ToServer!Spec

(* The direction server to client is a pipe of bytes (Write, Update). *)
PipeToClient == ToClient!Spec

(* A sender forgets a segment (ikcp_parse_una, ikcp_parse_ack) only when    *)
(* the other end has it: an acknowledgement late, doubled or out of order   *)
(* never takes away what was not received.                                  *)
AckedIsHeld ==
    \A e \in Ends : \A sn \in 0..(cb[e].snd_nxt - 1) :
        sn \notin DOMAIN cb[e].snd_buf =>
            \/ sn < cb[Peer[e]].rcv_nxt
            \/ sn \in DOMAIN cb[Peer[e]].rcv_buf

(* No buffer of an end grows beyond its window, and the numbers that the    *)
(* two ends have in use stay within snd_wnd + rcv_wnd of each other.  So    *)
(* they do in the code, whose numbers are 32 bits wide and compared by      *)
(* their difference (_itimediff).  A receiver may be behind snd_una: a      *)
(* piece that waits in rcv_buf because rcv_queue is full was acknowledged.  *)
WindowsKept ==
    \A e \in Ends :
        LET c == cb[e]
            d == cb[Peer[e]]
        IN  /\ c.snd_una =< c.snd_nxt /\ c.snd_nxt =< c.snd_una + SndWnd
            /\ \A sn \in DOMAIN c.snd_buf : c.snd_una =< sn /\ sn < c.snd_nxt
            /\ Len(c.rcv_queue) =< RcvWnd
            /\ \A sn \in DOMAIN c.rcv_buf : c.rcv_nxt =< sn /\ sn < c.rcv_nxt + RcvWnd
            /\ d.rcv_nxt =< c.snd_nxt /\ c.snd_una =< d.rcv_nxt + RcvWnd

(* The safety half of Delivered, for both directions.  As long as something *)
(* written was not taken, the writer has something urgent to send when the  *)
(* next flush is due, the first piece that is out or the question for a     *)
(* closed window (ikcp_flush, 952-972), or the other end has a message to   *)
(* take (ikcp_recv, 411-423, moves up what waits in rcv_buf).  One case is  *)
(* left: ikcp_send takes a message of more pieces than rcv_wnd, as it       *)
(* compares with 255 (508).  It never becomes whole in rcv_queue, all of it *)
(* is acknowledged, and a late acknowledgement ends the writer's questions. *)
Speaks(c)  == \E seg \in Output(c) : Urgent(ikcp_flush(c), seg)
TooLong(c) == c.rcv_queue # <<>> /\ c.rcv_queue[1].frg >= RcvWnd

NeverStuck ==
    \A e \in Ends : End(writes[e]) # End(got[Peer[e]]) =>
        \/ Speaks(cb[e])
        \/ ikcp_peeksize(cb[Peer[e]]) > 0
        \/ e \notin Stream /\ TooLong(cb[Peer[e]])

(* An end in message mode is heard message by message: what the other end   *)
(* takes first is what was written first, and no message is taken in part   *)
(* or together with the next (ikcp_peeksize; OnDealMsg counts on it when it *)
(* asserts m_offset == 0, sessServer.cpp:220).                              *)
WholeMessages ==
    \A e \in Ends \ Stream :
        \A i \in DOMAIN got[Peer[e]] : i \in DOMAIN writes[e] /\ got[Peer[e]][i] = writes[e][i]

(* Every message of the client reaches the handlers in the end: by sending  *)
(* again, by the question for a closed window, and although OnDealMsg takes *)
(* one message for a datagram.  Datagrams must keep coming, as m_bread lets *)
(* nothing be taken without (sessServer.cpp:171), and the network must run  *)
(* out of old answers of the server, which would close the window again and *)
(* again.                                                                   *)
Stale == \E seg \in net["client"] : ~UpToDate(cb["server"], seg) /\ Arrives("client", seg)

Delivered ==
    []<><<OnRead>>_vars /\ <>[][~Stale]_vars
        => []<>(Len(got["server"]) = Len(writes["client"]))
=============================================================================

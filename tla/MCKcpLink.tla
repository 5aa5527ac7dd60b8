----------------------------- MODULE MCKcpLink ------------------------------
EXTENDS KcpLink

PerEnd(c, s) == [e \in Ends |-> IF e = "client" THEN c ELSE s]

MCSizes  == PerEnd({1, 3}, {1, 3, 4, 6})
MCWrites == PerEnd(2, 2)
MCNet    == PerEnd(1, 1)

(* What the two ends write in one behavior: the client two messages, each   *)
(* of one or two pieces; or the server twice, so that its second write      *)
(* fills the last piece of its first, and may then be refused; or each end  *)
(* once.                                                                    *)
Loads == {[client |-> <<a, b>>, server |-> <<>>] : a, b \in {1, 3}}
             \cup {[client |-> <<>>, server |-> <<1, n>>] : n \in {4, 6}}
             \cup {[client |-> <<1>>, server |-> <<n>>] : n \in {1, 3}}

VARIABLE load

MCInit == Init /\ load \in Loads

(* A write of e is the next one of the load, or what ikcp_send takes of it. *)
Follows(e) ==
    /\ Len(writes'[e]) =< Len(load[e])
    /\ writes'[e] # writes[e] =>
           LET n == Len(writes'[e])
               c == writes'[e][n]
           IN  c.hi - c.lo = Accepted(cb[e].snd_queue, load[e][n], e \in Stream)

MCNext == Next /\ (\A e \in Ends : Follows(e)) /\ UNCHANGED load

MCSpec == /\ MCInit /\ [][MCNext]_<<vars, load>>
          /\ WF_vars(ServerNoFlush) /\ WF_vars(ClientSends)
          /\ SF_vars(ServerHears) /\ SF_vars(ServerSends) /\ SF_vars(ClientHears)
=============================================================================

------------------------------ MODULE FrameLog ------------------------------
(***************************************************************************)
(* What a room promises its players, whatever its clock and its callers    *)
(* do: one sequence of commands, cut once and for all into numbered        *)
(* frames; every message 2001, 2002 or 2003 a player receives is one of    *)
(* those frames, the same for everybody; and the record sent to the gate   *)
(* when the match is over is all of them.  By construction a command is in *)
(* exactly one frame, in the order of acceptance.                          *)
(***************************************************************************)
EXTENDS Integers, Sequences

CONSTANTS Readers,   \* the players
          Cmds       \* what a player or the server can put into a frame

VARIABLES
    open,      \* a match is on
    accepted,  \* the commands of the match, in order
    cut,       \* cut[i+1] commands had been accepted when frame i was sealed
    view,      \* the frames each player has been sent
    record     \* the frames of the last match that was over

vars == <<open, accepted, cut, view, record>>

FrameIds == 0..(Len(cut) - 1)

Begin(i) == IF i = 0 THEN 0 ELSE cut[i]

(* Frame i: what was accepted between two seals. *)
Frame(i) == [frameid |-> i, cmdlist |-> SubSeq(accepted, Begin(i) + 1, cut[i + 1])]

(* The frame that a seal makes now. *)
NextFrame == [frameid |-> Len(cut),
              cmdlist |-> SubSeq(accepted, Begin(Len(cut)) + 1, Len(accepted))]

Init ==
    /\ open = FALSE
    /\ accepted = <<>> /\ cut = <<>>
    /\ view = [r \in Readers |-> {}]
    /\ record = {}

Start ==
    /\ ~open /\ open' = TRUE
    /\ accepted' \in Seq(Cmds)
    /\ cut' = <<>>
    /\ view' = [r \in Readers |-> {}]
    /\ UNCHANGED record

Accept ==
    /\ open
    /\ \E c \in Cmds : accepted' = Append(accepted, c)
    /\ UNCHANGED <<open, cut, view, record>>

Seal ==
    /\ open
    /\ cut' = Append(cut, Len(accepted))
    /\ \E R \in SUBSET Readers :
           view' = [r \in Readers |-> IF r \in R THEN view[r] \cup {NextFrame} ELSE view[r]]
    /\ UNCHANGED <<open, accepted, record>>

Fetch ==
    /\ open
    /\ \E r \in Readers, S \in SUBSET FrameIds :
           view' = [view EXCEPT ![r] = @ \cup {Frame(i) : i \in S}]
    /\ UNCHANGED <<open, accepted, cut, record>>

Close ==
    /\ open /\ open' = FALSE
    /\ record' = {Frame(i) : i \in FrameIds}
    /\ UNCHANGED <<accepted, cut, view>>

Next == Start \/ Accept \/ Seal \/ Fetch \/ Close

Spec == Init /\ [][Next]_vars
=============================================================================

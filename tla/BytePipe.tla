------------------------------ MODULE BytePipe ------------------------------
(***************************************************************************)
(* What a KCP session promises in one direction, whatever the network      *)
(* does: a pipe of bytes.  The writer appends, the reader takes chunks,    *)
(* each the very bytes that follow the chunk before, and never a byte that *)
(* was not written.  By construction nothing is lost, doubled or moved.    *)
(***************************************************************************)
EXTENDS Integers, Sequences

VARIABLES
    written,  \* bytes put in so far
    got       \* chunks taken so far, [lo, hi] for the bytes lo+1..hi

vars == <<written, got>>

End(chunks) == IF chunks = <<>> THEN 0 ELSE chunks[Len(chunks)].hi

Init == written = 0 /\ got = <<>>

Write == /\ written' \in Nat /\ written' >= written
         /\ UNCHANGED got

Read == /\ \E hi \in End(got)..written : got' = Append(got, [lo |-> End(got), hi |-> hi])
        /\ UNCHANGED written

Next == Write \/ Read

Spec == Init /\ [][Next]_vars
=============================================================================

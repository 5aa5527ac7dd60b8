------------------------------- MODULE MCRoom -------------------------------
EXTENDS Room

(* Two players; the second room of the process may have one of them only.   *)
(* The process starts shortly before the clock wraps.                       *)
MCRids        == {1, 2}
MCCamp        == [r \in MCRids |-> 0]
MCRosters     == {<<1, 2>>, <<2>>}
MCStartClocks == {5}
=============================================================================

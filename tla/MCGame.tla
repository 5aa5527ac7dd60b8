------------------------------- MODULE MCGame -------------------------------
EXTENDS Game

CONSTANTS c1, c2, p1, p2

MCConns    == {c1, c2}
MCInitPool == <<c1>>
MCObjs     == {p1, p2}
MCRosters  == {<<[rid |-> 1, pid |-> 11]>>,
               <<[rid |-> 2, pid |-> 21], [rid |-> 1, pid |-> 11]>>}
=============================================================================

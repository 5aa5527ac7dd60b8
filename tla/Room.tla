-------------------------------- MODULE Room --------------------------------
(***************************************************************************)
(* The frame engine of a room (core/room.cpp): commands are collected in   *)
(* m_pt2001 and every m_frameTick milliseconds become a frame, recorded in *)
(* m_allOperMap and broadcast to the KCP connections of the players.  One  *)
(* roomObj is followed through its uses: NewRoom takes it from the pool,   *)
(* and the Update that finds the match over sends the record to the gate   *)
(* and gives it back.                                                      *)
(*                                                                         *)
(* Everything here runs on the main thread of the game process: a pass of  *)
(* its loop reads the clock, runs the handlers of what arrived, then calls *)
(* roomMgr::Update.  The clock is unsigned milliseconds modulo MsMod (2^32 *)
(* in the code), and 0 is also the code's "not started yet".  A player's   *)
(* pid is taken to be his rid here.                                        *)
(***************************************************************************)
EXTENDS Integers, Sequences, FiniteSets

CONSTANTS Rids,       \* the players, ordered by rid
          Camp,       \* Camp[r]: 0 or 1 plays, 2 watches
          Rosters,    \* what NewRoom may be asked: sequences of players
          FrameTick,  \* m_frameTick, the upper half of NewRoom's delta
          MsMod,      \* modulus of the millisecond clock
          MaxGap,     \* bound on the time between two passes of the loop
          StartClocks,\* when the process may start
          MaxClock,   \* bound on the time
          MaxCmds     \* bound on the commands of a match

(* A delta below 2^16 makes the tick 0, and Update's loop endless. *)
ASSUME RoomAssumption ==
    /\ Rids \subseteq Nat \ {0} /\ IsFiniteSet(Rids)
    /\ Camp \in [Rids -> 0..2]
    /\ Rosters \subseteq Seq(Rids)
    /\ FrameTick \in Nat \ {0}
    /\ MsMod \in Nat \ {0}
    /\ MaxGap \in Nat /\ MaxGap < MsMod
    /\ StartClocks \subseteq Nat
    /\ MaxClock \in Nat /\ MaxCmds \in Nat

VARIABLES
    (* the process *)
    clock,        \* time; the code sees it modulo MsMod
    mgrMs,        \* roomMgr::m_lastMs
    pc,           \* "idle", or "loop" inside the while of roomObj::Update
    (* the roomObj *)
    live,         \* in roomMgr::m_idMap (otherwise in m_poolRoom)
    m_frameId, m_endFrameId, m_brun, m_gateOver, m_lastMs, m_accMs,
    m_pt2001,     \* commands of the frame being built (NULL is <<>>)
    m_allOperMap, \* frame number -> message 2001
    m_ridPMap,    \* the players of the room
    m_pidConn,    \* players with a connection entry
    (* outside of the room *)
    sess,         \* players whose KCP session is open
    view,         \* the frames each player has been sent in this match
    record,       \* UpdateFrameData of the last match, as the gate gets it
    overId,       \* overframeid of the last message 213
    (* history *)
    accepted,     \* the commands of this match in the order of acceptance
    cut,          \* how many there were when each frame was sealed
    first, last,  \* when the room began to count, when it counted last
    resync,       \* the clock read 0 meanwhile, and counting began again
    sync          \* the frame from which a connected player asked the cache

procVars   == <<clock, mgrMs, pc>>
stateVars  == <<live, m_endFrameId, m_brun, m_gateOver>>
timeVars   == <<m_lastMs, m_accMs, first, last, resync>>
frameVars  == <<m_frameId, m_allOperMap, cut>>
cmdVars    == <<m_pt2001, accepted>>
memberVars == <<m_ridPMap, m_pidConn, sess>>
clientVars == <<view, sync>>
gateVars   == <<record, overId>>
vars == <<procVars, stateVars, timeVars, frameVars, cmdVars, memberVars,
          clientVars, gateVars>>

NoEnd  == -1          \* 2147483648, "no end frame yet"
NoSync == -1

ms == clock % MsMod

Cmds == [who : Rids, idx : 0..Cardinality(Rids), op : {"enter", "leave", "cmd"}]

-----------------------------------------------------------------------------
(* GetPIdx: the place of a player among those of the room who play. *)
GetPIdx(S, r) == Cardinality({q \in S : Camp[q] =< 1 /\ q =< r})

(* SvrFrameCmd: the server's own command, naming the player by his place. *)
SvrFrameCmd(S, r, op) == [who |-> r, idx |-> GetPIdx(S, r), op |-> op]

(* Mutant of AddCmd: the test for a frame under construction is missing, so *)
(* each command starts one.                                                 *)
AddCmdFresh(c) ==
    /\ Len(accepted) < MaxCmds
    /\ m_pt2001' = <<c>>
    /\ accepted' = Append(accepted, c)

(* Any command is put at the end of the frame being built. *)
AddCmd(c) ==
    /\ Len(accepted) < MaxCmds
    /\ m_pt2001' = Append(m_pt2001, c)
    /\ accepted' = Append(accepted, c)

-----------------------------------------------------------------------------
(* The handlers. *)

(* NewRoom: init(), then EnterP for each player of the list in its order. *)
NewRoom ==
    /\ pc = "idle" /\ ~live
    /\ \E ros \in Rosters :
           LET Entered(i) == {ros[j] : j \in 1..i}
               enters == [i \in DOMAIN ros |-> SvrFrameCmd(Entered(i), ros[i], "enter")]
           IN  /\ Len(ros) =< MaxCmds
               /\ m_ridPMap' = Entered(Len(ros))
               /\ m_pt2001' = enters
               /\ accepted' = enters
    /\ live' = TRUE
    /\ m_frameId' = 0 /\ m_endFrameId' = NoEnd
    /\ m_gateOver' = FALSE /\ m_brun' = FALSE
    /\ m_accMs' = 0 /\ m_lastMs' = 0
    /\ m_allOperMap' = [f \in {} |-> 0]
    /\ m_pidConn' = {} /\ sess' = {}
    /\ view' = [r \in Rids |-> {}] /\ sync' = [r \in Rids |-> NoSync]
    /\ cut' = <<>> /\ first' = clock /\ last' = clock /\ resync' = FALSE
    /\ UNCHANGED <<procVars, gateVars>>

SetReady ==
    /\ pc = "idle" /\ live
    /\ m_brun' = TRUE
    /\ UNCHANGED <<procVars, live, m_endFrameId, m_gateOver, timeVars, frameVars, cmdVars,
                   memberVars, clientVars, gateVars>>

(* OverRoom: the end is asked for at the current frame, or at once. *)
Over ==
    /\ pc = "idle" /\ live
    /\ m_endFrameId' = m_frameId
    /\ \E force \in BOOLEAN : m_gateOver' = (m_gateOver \/ force)
    /\ UNCHANGED <<procVars, live, m_brun, timeVars, frameVars, cmdVars, memberVars,
                   clientVars, gateVars>>

(* Message 2000 of a player of the room; anybody else's is dropped. *)
FrameCmd ==
    /\ pc = "idle" /\ live
    /\ \E r \in m_ridPMap : AddCmd([who |-> r, idx |-> 0, op |-> "cmd"])
    /\ UNCHANGED <<procVars, stateVars, timeVars, frameVars, memberVars, clientVars, gateVars>>

(* Mutant of Reg: EnterP is called without the connection.                  *)
RegNoConn ==
    /\ pc = "idle" /\ live
    /\ \E r \in m_ridPMap :
           /\ m_pidConn' = m_pidConn
           /\ sess' = sess \cup {r}
           /\ AddCmd(SvrFrameCmd(m_ridPMap, r, "enter"))
    /\ UNCHANGED <<procVars, stateVars, timeVars, frameVars, m_ridPMap, clientVars, gateVars>>

(* Message 2004: the player gets a (new) session and enters with it. *)
Reg ==
    /\ pc = "idle" /\ live
    /\ \E r \in m_ridPMap :
           /\ m_pidConn' = m_pidConn \cup {r}
           /\ sess' = sess \cup {r}
           /\ AddCmd(SvrFrameCmd(m_ridPMap, r, "enter"))
    /\ UNCHANGED <<procVars, stateVars, timeVars, frameVars, m_ridPMap, clientVars, gateVars>>

(* EnterP of the gate, for any player of the process. *)
EnterP ==
    /\ pc = "idle" /\ live
    /\ \E r \in Rids :
           /\ m_ridPMap' = m_ridPMap \cup {r}
           /\ AddCmd(SvrFrameCmd(m_ridPMap', r, "enter"))
    /\ UNCHANGED <<procVars, stateVars, timeVars, frameVars, m_pidConn, sess, clientVars,
                   gateVars>>

(* OfflineP: the session is closed; the entry in m_pidConn stays. *)
OfflineP ==
    /\ pc = "idle" /\ live
    /\ \E r \in m_ridPMap :
           /\ sess' = sess \ {r}
           /\ sync' = [sync EXCEPT ![r] = NoSync]
           /\ AddCmd(SvrFrameCmd(m_ridPMap, r, "leave"))
    /\ UNCHANGED <<procVars, stateVars, timeVars, frameVars, m_ridPMap, m_pidConn, view,
                   gateVars>>

LeaveP ==
    /\ pc = "idle" /\ live
    /\ \E r \in m_ridPMap : AddCmd(SvrFrameCmd(m_ridPMap, r, "leave"))
    /\ UNCHANGED <<procVars, stateVars, timeVars, frameVars, memberVars, clientVars, gateVars>>

(* Message 2003: all recorded frames from one on, over TCP. *)
GetCacheFrames ==
    /\ pc = "idle" /\ live
    /\ \E r \in m_ridPMap, begin \in 0..m_frameId :
           /\ view' = [view EXCEPT ![r] =
                  @ \cup {m_allOperMap[f] : f \in {g \in DOMAIN m_allOperMap : g >= begin}}]
           /\ sync' = IF r \in sess /\ (sync[r] = NoSync \/ begin < sync[r])
                      THEN [sync EXCEPT ![r] = begin] ELSE sync
    /\ UNCHANGED <<procVars, stateVars, timeVars, frameVars, cmdVars, memberVars, gateVars>>

(* Message 2002: those of the frames asked for that are recorded, by KCP. *)
GetFramesData ==
    /\ pc = "idle" /\ live
    /\ \E r \in m_ridPMap \cap sess, asked \in SUBSET (0..m_frameId) :
           view' = [view EXCEPT ![r] =
               @ \cup {m_allOperMap[f] : f \in asked \cap DOMAIN m_allOperMap}]
    /\ UNCHANGED <<procVars, stateVars, timeVars, frameVars, cmdVars, memberVars, sync,
                   gateVars>>

-----------------------------------------------------------------------------
(* roomMgr::Update and roomObj::Update. *)

(* A new pass of the main loop reads the clock. *)
Advance ==
    /\ pc = "idle" /\ ms = mgrMs
    /\ \E d \in 1..MaxGap : clock + d =< MaxClock /\ clock' = clock + d
    /\ UNCHANGED <<mgrMs, pc, stateVars, timeVars, frameVars, cmdVars, memberVars,
                   clientVars, gateVars>>

(* roomMgr::Update does nothing when the millisecond is the same. *)
Due == pc = "idle" /\ (ms - mgrMs) % MsMod >= 1

Counting == live /\ ~m_gateOver /\ m_brun /\ m_ridPMap # {}

(* Mutant of OverFrameId: the frame that would come next.                   *)
OverFrameIdNext == m_frameId

OverFrameId == IF m_frameId > 0 THEN m_frameId - 1 ELSE m_frameId

(* RawOver and, in the same roomMgr::Update, Finnal and pushRoom: 213 tells *)
(* the last frame, the sessions are closed, the record goes to the gate.    *)
RawOver ==
    /\ overId' = OverFrameId
    /\ record' = {m_allOperMap[f] : f \in DOMAIN m_allOperMap}
    /\ m_allOperMap' = [f \in {} |-> 0]
    /\ live' = FALSE /\ m_brun' = FALSE
    /\ sess' = {} /\ sync' = [r \in Rids |-> NoSync]
    /\ UNCHANGED <<clock, m_endFrameId, m_gateOver, timeVars, m_frameId, cut, cmdVars,
                   m_ridPMap, m_pidConn, view>>

UpdateForced ==
    /\ Due /\ live /\ m_gateOver
    /\ mgrMs' = ms /\ pc' = pc
    /\ RawOver

(* There is no room, it is not ready, or nobody is in it. *)
UpdateIdle ==
    /\ Due /\ ~(live /\ m_gateOver) /\ ~Counting
    /\ mgrMs' = ms
    /\ UNCHANGED <<clock, pc, stateVars, timeVars, frameVars, cmdVars, memberVars,
                   clientVars, gateVars>>

(* m_lastMs is 0: the room begins to count, or the clock read 0 last time. *)
UpdateFirst ==
    /\ Due /\ Counting /\ m_lastMs = 0
    /\ mgrMs' = ms
    /\ m_lastMs' = ms /\ m_accMs' = 0
    /\ last' = clock
    /\ IF m_frameId = 0 /\ m_accMs = 0
       THEN first' = clock /\ resync' = resync
       ELSE first' = first /\ resync' = TRUE
    /\ UNCHANGED <<clock, pc, stateVars, frameVars, cmdVars, memberVars, clientVars, gateVars>>

(* Mutant of Elapsed: no wrap-around, as in a wider or signed type.         *)
ElapsedWide == ms - m_lastMs

Elapsed == (ms - m_lastMs) % MsMod

UpdateAdd ==
    /\ Due /\ Counting /\ m_lastMs # 0
    /\ mgrMs' = ms
    /\ m_accMs' = m_accMs + Elapsed
    /\ m_lastMs' = ms
    /\ last' = clock
    /\ pc' = "loop"
    /\ UNCHANGED <<clock, stateVars, first, resync, frameVars, cmdVars, memberVars,
                   clientVars, gateVars>>

(* Mutant of NewFrame: it is numbered after m_frameId++.                    *)
NewFrameAhead == [frameid |-> m_frameId + 1, cmdlist |-> m_pt2001]

NewFrame == [frameid |-> m_frameId, cmdlist |-> m_pt2001]

(* One turn of the while: the frame is numbered, recorded and broadcast. *)
EmitFrame ==
    /\ pc = "loop" /\ m_accMs >= FrameTick
    /\ m_accMs' = m_accMs - FrameTick
    /\ m_allOperMap' = [f \in DOMAIN m_allOperMap \cup {m_frameId} |->
                           IF f = m_frameId THEN NewFrame ELSE m_allOperMap[f]]
    /\ view' = [r \in Rids |-> IF r \in m_pidConn \cap sess
                               THEN view[r] \cup {NewFrame} ELSE view[r]]
    /\ m_pt2001' = <<>>
    /\ m_frameId' = m_frameId + 1
    /\ cut' = Append(cut, Len(accepted))
    /\ UNCHANGED <<procVars, stateVars, m_lastMs, first, last, resync, accepted,
                   memberVars, sync, gateVars>>

(* Mutant of Ended: 0 stands for no end frame.                              *)
EndedNotAtZero == m_endFrameId \notin {NoEnd, 0} /\ m_frameId >= m_endFrameId

Ended == m_endFrameId # NoEnd /\ m_frameId >= m_endFrameId

UpdateEnd ==
    /\ pc = "loop" /\ m_accMs < FrameTick
    /\ pc' = "idle" /\ mgrMs' = mgrMs
    /\ IF Ended THEN RawOver
       ELSE UNCHANGED <<clock, stateVars, timeVars, frameVars, cmdVars, memberVars,
                        clientVars, gateVars>>

-----------------------------------------------------------------------------
Init ==
    /\ clock \in StartClocks /\ mgrMs = 0 /\ pc = "idle"
    /\ live = FALSE /\ m_endFrameId = NoEnd /\ m_brun = FALSE /\ m_gateOver = FALSE
    /\ m_frameId = 0 /\ m_lastMs = 0 /\ m_accMs = 0
    /\ m_pt2001 = <<>> /\ m_allOperMap = [f \in {} |-> 0]
    /\ m_ridPMap = {} /\ m_pidConn = {} /\ sess = {}
    /\ view = [r \in Rids |-> {}] /\ sync = [r \in Rids |-> NoSync]
    /\ record = {} /\ overId = 0
    /\ accepted = <<>> /\ cut = <<>>
    /\ first = clock /\ last = clock /\ resync = FALSE

Handlers == NewRoom \/ SetReady \/ Over \/ FrameCmd \/ Reg \/ EnterP \/ OfflineP
               \/ LeaveP \/ GetCacheFrames \/ GetFramesData
Update   == UpdateForced \/ UpdateIdle \/ UpdateFirst \/ UpdateAdd \/ EmitFrame \/ UpdateEnd

Next == Handlers \/ Advance \/ Update

Spec == Init /\ [][Next]_vars

(* The main loop goes round, and the handlers it runs return. *)
FairSpec == Spec /\ WF_vars(Advance) /\ WF_vars(Update)

-----------------------------------------------------------------------------
(* Properties. *)

Msgs == [frameid : Nat, cmdlist : Seq(Cmds)]

TypeOK ==
    /\ clock \in Nat /\ mgrMs \in 0..(MsMod - 1) /\ pc \in {"idle", "loop"}
    /\ live \in BOOLEAN /\ m_brun \in BOOLEAN /\ m_gateOver \in BOOLEAN
    /\ m_endFrameId \in Nat \cup {NoEnd}
    /\ m_frameId \in Nat /\ m_lastMs \in 0..(MsMod - 1) /\ m_accMs \in Nat
    /\ m_pt2001 \in Seq(Cmds) /\ accepted \in Seq(Cmds) /\ cut \in Seq(Nat)
    /\ DOMAIN m_allOperMap \subseteq Nat
    /\ \A f \in DOMAIN m_allOperMap : m_allOperMap[f] \in Msgs
    /\ m_ridPMap \subseteq Rids /\ m_pidConn \subseteq Rids /\ sess \subseteq Rids
    /\ view \in [Rids -> SUBSET Msgs] /\ record \subseteq Msgs
    /\ sync \in [Rids -> Nat \cup {NoSync}]
    /\ overId \in Nat /\ first \in Nat /\ last \in Nat /\ resync \in BOOLEAN

Log == INSTANCE FrameLog WITH Readers <- Rids, open <- live

(* What the room sends, records and hands over are cuts of one sequence of  *)
(* commands: none is lost, doubled or moved, a frame once sent never        *)
(* changes, and the record is the whole match (abstract module FrameLog).   *)
KeepsOneLog == Log!Spec

(* The record in memory has no holes and ends before the next frame, and    *)
(* the frame being built holds just what came since the last one.           *)
FramesAreCuts ==
    /\ Len(cut) = m_frameId
    /\ live => /\ DOMAIN m_allOperMap = 0..(m_frameId - 1)
               /\ \A f \in DOMAIN m_allOperMap : m_allOperMap[f] = Log!Frame(f)
    /\ m_pt2001 = SubSeq(accepted, Log!Begin(m_frameId) + 1, Len(accepted))

(* Frames keep to the clock: the time counted is in the frames made plus    *)
(* what is accumulated, with no drift however late the passes of the loop   *)
(* are; if the clock read 0 meanwhile, frames may be late, never early.     *)
FollowsClock ==
    LET made == m_frameId * FrameTick + m_accMs
    IN  IF resync THEN made =< last - first ELSE made = last - first

(* A connected player who asked the cache from some frame on has been sent  *)
(* every frame from there to the newest: no gap between the answer 2003 and *)
(* the broadcast, whatever happens to the other players.                    *)
CaughtUp ==
    live => \A r \in Rids : sync[r] # NoSync =>
                \A f \in sync[r]..(m_frameId - 1) : m_allOperMap[f] \in view[r]

(* The frame named in message 213 is the last one of the record: a client   *)
(* that plays up to it has seen the match that the gate stores.             *)
OverTellsLastFrame ==
    record # {} => /\ \E m \in record : m.frameid = overId
                   /\ \A m \in record : m.frameid =< overId

(* A forced end makes no more frames.                                       *)
ForcedEndIsImmediate == [][m_gateOver /\ live => m_frameId' = m_frameId]_vars

(* A match that is to end does end: at the next Update when forced, else    *)
(* when the room runs and has players (three Updates fit in the bound).     *)
Ending == /\ live /\ clock + 3 * MaxGap =< MaxClock
          /\ \/ m_gateOver
             \/ m_endFrameId # NoEnd /\ m_brun /\ m_ridPMap # {}

OverEnds == Ending ~> ~live
=============================================================================

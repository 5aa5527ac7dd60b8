----------------------------- MODULE RoomProofs -----------------------------
(***************************************************************************)
(* Invariance and refinement proofs for Room, for any players, rosters,    *)
(* tick, width of the clock and bounds: first facts about sequences and    *)
(* the modulus, then one invariant after the other, then the theorems.     *)
(***************************************************************************)
EXTENDS Room, SequenceTheorems, FiniteSetTheorems, TLAPS

-----------------------------------------------------------------------------
(* Slices of the commands.                                                 *)

(* A command added at the end leaves the slices before it alone. *)
LEMMA SliceKept ==
    ASSUME NEW S, NEW s \in Seq(S), NEW c \in S, NEW a \in Nat, NEW b \in 0..Len(s)
    PROVE  SubSeq(Append(s, c), a + 1, b) = SubSeq(s, a + 1, b)
OBVIOUS

(* Slices have the type of their sequence. *)
LEMMA SliceType ==
    ASSUME NEW S, NEW s \in Seq(S), NEW a \in Nat, NEW b \in 0..Len(s)
    PROVE  SubSeq(s, a + 1, b) \in Seq(S)
<1>1. a + 1 \in Int /\ b \in Int /\ \A i \in (a + 1)..b : s[i] \in S
    OBVIOUS
<1> QED
    BY <1>1, SubSeqProperties

(* It becomes the last element of the slice that reaches the end. *)
LEMMA SliceGrows ==
    ASSUME NEW S, NEW s \in Seq(S), NEW c \in S, NEW a \in 0..Len(s)
    PROVE  SubSeq(Append(s, c), a + 1, Len(s) + 1) = Append(SubSeq(s, a + 1, Len(s)), c)
<1> DEFINE t == Append(s, c)
           u == SubSeq(s, a + 1, Len(s))
           v == SubSeq(t, a + 1, Len(t))
<1>0. /\ Len(s) \in Nat /\ t \in Seq(S) /\ Len(t) = Len(s) + 1
      /\ \A i \in 1..Len(s) : t[i] = s[i]
      /\ t[Len(s) + 1] = c
    OBVIOUS
<1>1. u \in Seq(S)
    BY SliceType
<1>2. v \in Seq(S)
    <2> HIDE DEF t
    <2>1. Len(t) \in 0..Len(t) /\ a \in Nat
        BY <1>0
    <2> QED BY <2>1, <1>0, SliceType
<1>3. Len(u) = Len(s) - a /\ \A i \in 1..Len(u) : u[i] = s[a + i]
    OBVIOUS
<1>4. Len(v) = Len(t) - a /\ \A i \in 1..Len(v) : v[i] = t[a + i]
    <2> HIDE DEF t
    <2>1. a \in 0..Len(t)
        BY <1>0
    <2> QED BY <2>1, <1>0
<1> HIDE DEF t, u, v
<1>5. /\ Append(u, c) \in Seq(S) /\ Len(Append(u, c)) = Len(u) + 1
      /\ \A i \in 1..Len(u) : Append(u, c)[i] = u[i]
      /\ Append(u, c)[Len(u) + 1] = c
    BY <1>1
<1>6. \A i \in 1..Len(v) : v[i] = Append(u, c)[i]
    <2> TAKE i \in 1..Len(v)
    <2>1. CASE i = Len(u) + 1
        BY <2>1, <1>0, <1>3, <1>4, <1>5
    <2>2. CASE i \in 1..Len(u)
        <3>1. a + i \in 1..Len(s)
            BY <2>2, <1>0, <1>3
        <3> QED
            BY <3>1, <2>2, <1>0, <1>3, <1>4, <1>5
    <2> QED
        <3>1. Len(u) \in Nat /\ Len(v) = Len(u) + 1
            BY <1>0, <1>3, <1>4
        <3>2. i = Len(u) + 1 \/ i \in 1..Len(u)
            BY <3>1
        <3> QED
            BY <3>2, <2>1, <2>2
<1>7. v = Append(u, c)
    <2>1. Len(v) = Len(Append(u, c))
        BY <1>0, <1>3, <1>4, <1>5
    <2> QED
        BY <2>1, <1>2, <1>5, <1>6, SeqEqual
<1> QED
    BY <1>0, <1>7 DEF t, u, v

(* The whole of a sequence is a slice, and what is past its end is empty.   *)
LEMMA SliceEnds ==
    ASSUME NEW S, NEW s \in Seq(S)
    PROVE  /\ SubSeq(s, 0 + 1, Len(s)) = s
           /\ SubSeq(s, Len(s) + 1, Len(s)) = <<>>
OBVIOUS

(* What Append does, element by element.                                    *)
LEMMA Appended ==
    ASSUME NEW S, NEW s \in Seq(S), NEW x \in S
    PROVE  /\ Append(s, x) \in Seq(S)
           /\ Len(Append(s, x)) = Len(s) + 1
           /\ \A i \in 1..Len(s) : Append(s, x)[i] = s[i]
           /\ Append(s, x)[Len(s) + 1] = x
OBVIOUS

-----------------------------------------------------------------------------
(* The clock modulo its width.                                             *)

(* Quotient and remainder of a reading of the clock.                        *)
LEMMA DivMod ==
    ASSUME NEW M \in Nat \ {0}, NEW z \in Int
    PROVE  z = M * (z \div M) + (z % M) /\ z % M \in 0..(M - 1) /\ z \div M \in Int
BY Z3

(* No multiple of M but 0 lies strictly between -M and M.                   *)
LEMMA OnlyZero ==
    ASSUME NEW M \in Nat \ {0}, NEW k \in Int, M * k < M, M * k > -M
    PROVE  k = 0
BY Z3

(* Two readings less than a period apart: their difference modulo the       *)
(* period is the time between them, wrapped around or not.                  *)
LEMMA ReadingsDiffer ==
    ASSUME NEW M \in Nat \ {0}, NEW a \in Nat, NEW b \in Nat, a - b \in 0..(M - 1)
    PROVE  ((a % M) - (b % M)) % M = a - b
<1> DEFINE r == (a % M) - (b % M)
           k == (a \div M) - (b \div M)
<1>1. r = (a - b) - M * k /\ r \in Int /\ k \in Int
    <2>1. /\ a = M * (a \div M) + (a % M) /\ a \div M \in Int /\ a % M \in Int
          /\ b = M * (b \div M) + (b % M) /\ b \div M \in Int /\ b % M \in Int
        BY DivMod
    <2>2. M * k = M * (a \div M) - M * (b \div M)
        BY <2>1
    <2> QED
        BY <2>1, <2>2
<1> HIDE DEF r, k
<1> DEFINE q == r \div M
<1>2. r = M * q + (r % M) /\ r % M \in 0..(M - 1) /\ q \in Int
    BY <1>1, DivMod
<1>3. M * (k + q) = (a - b) - (r % M)
    BY <1>1, <1>2
<1>4. k + q = 0
    <2>1. M * (k + q) < M /\ M * (k + q) > -M /\ k + q \in Int
        BY <1>1, <1>2, <1>3
    <2> HIDE DEF q
    <2> QED
        BY <2>1, OnlyZero
<1>5. r % M = a - b
    BY <1>1, <1>2, <1>3, <1>4
<1> QED
    BY <1>5 DEF r

(* Equal readings within a period are at the same time. *)
LEMMA SameReading ==
    ASSUME NEW M \in Nat \ {0}, NEW a \in Nat, NEW b \in Nat, a - b \in 0..(M - 1),
           a % M = b % M
    PROVE  a = b
<1>1. (a % M) - (b % M) = 0
    BY DivMod
<1>2. 0 % M = 0
    BY Z3
<1>3. ((a % M) - (b % M)) % M = a - b
    BY ReadingsDiffer
<1>4. a - b = 0
    BY ONLY <1>1, <1>2, <1>3
<1> QED
    BY <1>4

(* ServerTime::ms is below the width of the clock.                          *)
LEMMA ReadingType ==
    ASSUME clock \in Nat
    PROVE  ms \in 0..(MsMod - 1)
BY DivMod, RoomAssumption DEF ms

-----------------------------------------------------------------------------
(* Types.                                                                  *)

(* A command the server writes for a player is a command.                   *)
LEMMA CmdType ==
    ASSUME NEW S \in SUBSET Rids, NEW r \in Rids, NEW op \in {"enter", "leave"}
    PROVE  SvrFrameCmd(S, r, op) \in Cmds
<1> DEFINE T == {q \in S : Camp[q] =< 1 /\ q =< r}
<1>1. T \in SUBSET Rids /\ IsFiniteSet(Rids)
    BY RoomAssumption
<1> HIDE DEF T
<1>2. IsFiniteSet(T) /\ Cardinality(T) <= Cardinality(Rids)
    BY <1>1, FS_Subset
<1>3. Cardinality(T) \in Nat /\ Cardinality(Rids) \in Nat
    BY <1>1, <1>2, FS_CardinalityType
<1>4. Cardinality(T) \in 0..Cardinality(Rids)
    BY <1>2, <1>3
<1>5. GetPIdx(S, r) \in 0..Cardinality(Rids)
    BY <1>4 DEF T, GetPIdx
<1> QED
    BY <1>5 DEF SvrFrameCmd, Cmds

(* The five handlers that put a command into the frame being built. *)
LEMMA CommandSteps ==
    ASSUME TypeOK, FrameCmd \/ Reg \/ EnterP \/ OfflineP \/ LeaveP
    PROVE  /\ live /\ pc = "idle"
           /\ \E c \in Cmds : AddCmd(c)
           /\ UNCHANGED <<procVars, stateVars, timeVars, frameVars, view, gateVars>>
<1> USE DEF procVars, stateVars, timeVars, frameVars, clientVars, gateVars, memberVars
<1>1. CASE FrameCmd
    <2>1. PICK r \in m_ridPMap : AddCmd([who |-> r, idx |-> 0, op |-> "cmd"])
        BY <1>1 DEF FrameCmd
    <2>2. [who |-> r, idx |-> 0, op |-> "cmd"] \in Cmds
        <3>1. Cardinality(Rids) \in Nat
            BY RoomAssumption, FS_CardinalityType
        <3>2. r \in Rids
            BY DEF TypeOK
        <3> QED
            BY <3>1, <3>2 DEF Cmds
    <2> QED
        BY <1>1, <2>1, <2>2 DEF FrameCmd
<1>2. CASE Reg
    <2>1. PICK r \in m_ridPMap : AddCmd(SvrFrameCmd(m_ridPMap, r, "enter"))
        BY <1>2 DEF Reg
    <2>2. SvrFrameCmd(m_ridPMap, r, "enter") \in Cmds
        BY CmdType DEF TypeOK
    <2> QED
        BY <1>2, <2>1, <2>2 DEF Reg
<1>3. CASE EnterP
    <2>1. PICK r \in Rids : /\ m_ridPMap' = m_ridPMap \cup {r}
                            /\ AddCmd(SvrFrameCmd(m_ridPMap', r, "enter"))
        BY <1>3 DEF EnterP
    <2>2. m_ridPMap' \in SUBSET Rids
        BY <2>1 DEF TypeOK
    <2>3. SvrFrameCmd(m_ridPMap', r, "enter") \in Cmds
        BY <2>2, CmdType
    <2> QED
        BY <1>3, <2>1, <2>3 DEF EnterP
<1>4. CASE OfflineP
    <2>1. PICK r \in m_ridPMap : AddCmd(SvrFrameCmd(m_ridPMap, r, "leave"))
        BY <1>4 DEF OfflineP
    <2>2. SvrFrameCmd(m_ridPMap, r, "leave") \in Cmds
        BY CmdType DEF TypeOK
    <2> QED
        BY <1>4, <2>1, <2>2 DEF OfflineP
<1>5. CASE LeaveP
    <2>1. PICK r \in m_ridPMap : AddCmd(SvrFrameCmd(m_ridPMap, r, "leave"))
        BY <1>5 DEF LeaveP
    <2>2. SvrFrameCmd(m_ridPMap, r, "leave") \in Cmds
        BY CmdType DEF TypeOK
    <2> QED
        BY <1>5, <2>1, <2>2 DEF LeaveP
<1> QED
    BY <1>1, <1>2, <1>3, <1>4, <1>5

(* The commands with which NewRoom begins, and the players it enters. *)
LEMMA NewRoomTypes ==
    ASSUME NewRoom
    PROVE  /\ m_pt2001' = accepted' /\ accepted' \in Seq(Cmds)
           /\ m_ridPMap' \in SUBSET Rids
<1>1. PICK ros \in Rosters :
          LET Entered(i) == {ros[j] : j \in 1..i}
              enters == [i \in DOMAIN ros |-> SvrFrameCmd(Entered(i), ros[i], "enter")]
          IN  /\ m_ridPMap' = Entered(Len(ros))
              /\ m_pt2001' = enters
              /\ accepted' = enters
    BY DEF NewRoom
<1> DEFINE Entered(i) == {ros[j] : j \in 1..i}
           enters == [i \in 1..Len(ros) |-> SvrFrameCmd(Entered(i), ros[i], "enter")]
<1>2. ros \in Seq(Rids) /\ DOMAIN ros = 1..Len(ros) /\ Len(ros) \in Nat
    BY RoomAssumption
<1>3. \A i \in 1..Len(ros) : ros[i] \in Rids
    BY <1>2
<1>4. \A i \in 0..Len(ros) : Entered(i) \in SUBSET Rids
    BY <1>2, <1>3
<1>5. m_ridPMap' = Entered(Len(ros)) /\ m_pt2001' = enters /\ accepted' = enters
    BY <1>1, <1>2
<1>6. \A i \in 1..Len(ros) : SvrFrameCmd(Entered(i), ros[i], "enter") \in Cmds
    <2> TAKE i \in 1..Len(ros)
    <2>1. Entered(i) \in SUBSET Rids /\ ros[i] \in Rids
        BY <1>2, <1>3, <1>4
    <2> HIDE DEF Entered
    <2> QED
        BY <2>1, CmdType
<1>7. enters \in Seq(Cmds)
    <2> HIDE DEF Entered
    <2>1. enters \in [1..Len(ros) -> Cmds]
        BY <1>6
    <2> HIDE DEF enters
    <2> QED
        BY <2>1, <1>2
<1> QED
    BY <1>2, <1>4, <1>5, <1>7

(* The types hold before the first match.                                   *)
LEMMA TypeInit == Init => TypeOK
<1> SUFFICES ASSUME Init PROVE TypeOK
    OBVIOUS
<1>1. /\ clock \in Nat /\ first \in Nat /\ last \in Nat
      /\ mgrMs \in 0..(MsMod - 1) /\ m_lastMs \in 0..(MsMod - 1)
    BY RoomAssumption DEF Init
<1>2. /\ DOMAIN m_allOperMap \subseteq Nat
      /\ \A f \in DOMAIN m_allOperMap : m_allOperMap[f] \in Msgs
    BY DEF Init
<1>3. view \in [Rids -> SUBSET Msgs] /\ sync \in [Rids -> Nat \cup {NoSync}]
    BY DEF Init
<1> QED
    <2>1. /\ m_pt2001 \in Seq(Cmds) /\ accepted \in Seq(Cmds) /\ cut \in Seq(Nat)
          /\ m_ridPMap \subseteq Rids /\ m_pidConn \subseteq Rids /\ sess \subseteq Rids
          /\ record \subseteq Msgs
        BY DEF Init
    <2>2. /\ pc \in {"idle", "loop"} /\ m_endFrameId \in Nat \cup {NoEnd}
          /\ live \in BOOLEAN /\ m_brun \in BOOLEAN /\ m_gateOver \in BOOLEAN
          /\ resync \in BOOLEAN /\ m_frameId \in Nat /\ m_accMs \in Nat /\ overId \in Nat
        BY DEF Init
    <2> QED
        BY <1>1, <1>2, <1>3, <2>1, <2>2 DEF TypeOK

(* The handlers that append a command keep the types.                       *)
LEMMA TypeCommand ==
    ASSUME TypeOK, FrameCmd \/ Reg \/ EnterP \/ OfflineP \/ LeaveP
    PROVE  TypeOK'
<1> USE DEF procVars, stateVars, timeVars, frameVars, clientVars, gateVars, memberVars
<1>1. /\ UNCHANGED <<procVars, stateVars, timeVars, frameVars, view, gateVars>>
      /\ \E c \in Cmds : AddCmd(c)
    BY CommandSteps
<1>2. m_pt2001' \in Seq(Cmds) /\ accepted' \in Seq(Cmds)
    <2>1. PICK c \in Cmds : m_pt2001' = Append(m_pt2001, c) /\ accepted' = Append(accepted, c)
        BY <1>1 DEF AddCmd
    <2> QED
        BY <2>1, Appended DEF TypeOK
<1>3. /\ m_ridPMap' \subseteq Rids /\ m_pidConn' \subseteq Rids /\ sess' \subseteq Rids
      /\ sync' \in [Rids -> Nat \cup {NoSync}]
    BY DEF TypeOK, FrameCmd, Reg, EnterP, OfflineP, LeaveP
<1> QED
    BY <1>1, <1>2, <1>3 DEF TypeOK

(* Messages 2002 and 2003 keep the types.                                   *)
LEMMA TypeFetch ==
    ASSUME TypeOK, GetCacheFrames \/ GetFramesData
    PROVE  TypeOK'
<1> USE DEF procVars, stateVars, timeVars, frameVars, cmdVars, gateVars, memberVars
<1>1. CASE GetCacheFrames
    <2>1. PICK r \in m_ridPMap, begin \in 0..m_frameId :
              /\ view' = [view EXCEPT ![r] =
                     @ \cup {m_allOperMap[f] : f \in {g \in DOMAIN m_allOperMap : g >= begin}}]
              /\ sync' = IF r \in sess /\ (sync[r] = NoSync \/ begin < sync[r])
                         THEN [sync EXCEPT ![r] = begin] ELSE sync
        BY <1>1 DEF GetCacheFrames
    <2>2. begin \in Nat /\ r \in Rids
        BY DEF TypeOK
    <2>3. view' \in [Rids -> SUBSET Msgs]
        <3>1. {m_allOperMap[f] : f \in {g \in DOMAIN m_allOperMap : g >= begin}} \subseteq Msgs
            BY DEF TypeOK
        <3> QED
            BY <2>1, <2>2, <3>1 DEF TypeOK
    <2>4. sync' \in [Rids -> Nat \cup {NoSync}]
        BY <2>1, <2>2 DEF TypeOK
    <2> QED
        BY <1>1, <2>3, <2>4 DEF GetCacheFrames, TypeOK
<1>2. CASE GetFramesData
    <2>1. PICK r \in m_ridPMap \cap sess, asked \in SUBSET (0..m_frameId) :
              view' = [view EXCEPT ![r] =
                  @ \cup {m_allOperMap[f] : f \in asked \cap DOMAIN m_allOperMap}]
        BY <1>2 DEF GetFramesData
    <2>2. {m_allOperMap[f] : f \in asked \cap DOMAIN m_allOperMap} \subseteq Msgs /\ r \in Rids
        BY DEF TypeOK
    <2>3. view' \in [Rids -> SUBSET Msgs]
        BY <2>1, <2>2 DEF TypeOK
    <2> QED
        BY <1>2, <2>3 DEF GetFramesData, TypeOK
<1> QED
    BY <1>1, <1>2

(* RawOver keeps the types.                                                 *)
LEMMA TypeRawOver ==
    ASSUME TypeOK, RawOver, pc' \in {"idle", "loop"}, mgrMs' \in 0..(MsMod - 1)
    PROVE  TypeOK'
<1> USE DEF timeVars, cmdVars
<1>1. overId' \in Nat
    BY DEF RawOver, OverFrameId, TypeOK
<1>2. record' \subseteq Msgs
    BY DEF RawOver, TypeOK
<1>3. /\ DOMAIN m_allOperMap' \subseteq Nat
      /\ \A f \in DOMAIN m_allOperMap' : m_allOperMap'[f] \in Msgs
    BY DEF RawOver
<1>4. sync' \in [Rids -> Nat \cup {NoSync}]
    BY DEF RawOver
<1> QED
    BY <1>1, <1>2, <1>3, <1>4 DEF RawOver, TypeOK

(* The frame cut by Update is a message.                                    *)
LEMMA NewFrameType ==
    ASSUME TypeOK
    PROVE  NewFrame \in Msgs
BY DEF TypeOK, NewFrame, Msgs

(* Cutting a frame keeps the types, the wrapped clock included.             *)
LEMMA TypeEmit ==
    ASSUME TypeOK, EmitFrame
    PROVE  TypeOK'
<1> USE DEF procVars, stateVars, gateVars, memberVars
<1>1. m_accMs' \in Nat /\ m_frameId' \in Nat
    BY RoomAssumption DEF EmitFrame, TypeOK
<1>2. /\ DOMAIN m_allOperMap' \subseteq Nat
      /\ \A f \in DOMAIN m_allOperMap' : m_allOperMap'[f] \in Msgs
    <2>1. m_allOperMap' = [f \in DOMAIN m_allOperMap \cup {m_frameId} |->
                              IF f = m_frameId THEN NewFrame ELSE m_allOperMap[f]]
        BY DEF EmitFrame
    <2> HIDE DEF procVars, stateVars, gateVars, memberVars
    <2> QED
        BY <2>1, NewFrameType DEF TypeOK
<1>3. view' \in [Rids -> SUBSET Msgs]
    BY NewFrameType DEF EmitFrame, TypeOK
<1>4. cut' \in Seq(Nat)
    <2>1. cut' = Append(cut, Len(accepted)) /\ Len(accepted) \in Nat /\ cut \in Seq(Nat)
        BY DEF EmitFrame, TypeOK
    <2> QED
        BY <2>1, Appended
<1>5. /\ m_pt2001' \in Seq(Cmds)
      /\ UNCHANGED <<clock, mgrMs, pc, live, m_endFrameId, m_brun, m_gateOver, m_lastMs,
                     first, last, resync, accepted, m_ridPMap, m_pidConn, sess, sync,
                     record, overId>>
    BY DEF EmitFrame
<1> QED
    BY <1>1, <1>2, <1>3, <1>4, <1>5 DEF TypeOK

(* Time that has passed is a number of milliseconds, wrapped or not. *)
LEMMA ElapsedType ==
    ASSUME TypeOK
    PROVE  Elapsed \in Nat
<1>1. ms \in 0..(MsMod - 1) /\ m_lastMs \in 0..(MsMod - 1) /\ MsMod \in Nat \ {0}
    BY ReadingType, RoomAssumption DEF TypeOK
<1>2. ms - m_lastMs \in Int
    BY <1>1
<1>3. (ms - m_lastMs) % MsMod \in 0..(MsMod - 1)
    BY <1>1, <1>2, DivMod
<1> QED
    BY <1>3, <1>1 DEF Elapsed

(* Every step keeps the types.                                              *)
LEMMA TypeStep ==
    ASSUME TypeOK, [Next]_vars
    PROVE  TypeOK'
<1> USE DEF procVars, stateVars, timeVars, frameVars, cmdVars, clientVars, gateVars, memberVars
<1>1. CASE NewRoom
    <2>1. m_pt2001' = accepted' /\ accepted' \in Seq(Cmds) /\ m_ridPMap' \in SUBSET Rids
        BY <1>1, NewRoomTypes
    <2>2. /\ view' \in [Rids -> SUBSET Msgs]
          /\ sync' \in [Rids -> Nat \cup {NoSync}]
          /\ DOMAIN m_allOperMap' \subseteq Nat
          /\ \A f \in DOMAIN m_allOperMap' : m_allOperMap'[f] \in Msgs
        BY <1>1 DEF NewRoom
    <2>3. cut' \in Seq(Nat) /\ m_lastMs' \in 0..(MsMod - 1)
        BY <1>1, RoomAssumption DEF NewRoom
    <2> QED
        BY <1>1, <2>1, <2>2, <2>3 DEF NewRoom, TypeOK, NoEnd
<1>2. CASE SetReady \/ Over
    BY <1>2 DEF SetReady, Over, TypeOK
<1>3. CASE FrameCmd \/ Reg \/ EnterP \/ OfflineP \/ LeaveP
    BY <1>3, TypeCommand
<1>4. CASE GetCacheFrames \/ GetFramesData
    BY <1>4, TypeFetch
<1>5. CASE Advance
    <2>1. clock' \in Nat
        BY <1>5 DEF Advance, TypeOK
    <2> QED
        BY <1>5, <2>1 DEF Advance, TypeOK
<1>6. CASE UpdateForced
    BY <1>6, TypeRawOver, ReadingType DEF UpdateForced, TypeOK
<1>7. CASE UpdateIdle
    BY <1>7, ReadingType DEF UpdateIdle, TypeOK
<1>12. CASE UpdateFirst
    <2>1. ms \in 0..(MsMod - 1)
        BY ReadingType DEF TypeOK
    <2>2. /\ mgrMs' = ms /\ m_lastMs' = ms /\ m_accMs' = 0 /\ last' = clock
          /\ first' \in {clock, first}
          /\ UNCHANGED <<clock, pc, stateVars, frameVars, cmdVars, memberVars, clientVars,
                         gateVars>>
        BY <1>12 DEF UpdateFirst
    <2>3. resync' \in BOOLEAN
        BY <1>12 DEF UpdateFirst, TypeOK
    <2> QED
        BY <2>1, <2>2, <2>3 DEF TypeOK
<1>8. CASE UpdateAdd
    <2>1. ms \in 0..(MsMod - 1) /\ m_accMs + Elapsed \in Nat
        BY ReadingType, ElapsedType DEF TypeOK
    <2> QED
        BY <1>8, <2>1 DEF UpdateAdd, TypeOK
<1>9. CASE EmitFrame
    BY <1>9, TypeEmit
<1>10. CASE UpdateEnd
    <2>1. CASE Ended
        BY <1>10, <2>1, TypeRawOver DEF UpdateEnd, TypeOK
    <2>2. CASE ~Ended
        BY <1>10, <2>2 DEF UpdateEnd, TypeOK
    <2> QED
        BY <2>1, <2>2
<1>11. CASE UNCHANGED vars
    BY <1>11 DEF vars, TypeOK
<1> QED
    BY <1>1, <1>2, <1>3, <1>4, <1>5, <1>6, <1>7, <1>8, <1>9, <1>10, <1>11, <1>12
       DEF Next, Handlers, Update

-----------------------------------------------------------------------------
(* The inductive invariant.                                                *)

(* The while of Update runs only for a room that counts. *)
LoopInv == pc = "loop" => live /\ ~m_gateOver

(* No frame was sealed after commands that did not exist. *)
CutsBounded == \A i \in 1..m_frameId : cut[i] \in 0..Len(accepted)

(* Once the room has begun to count it goes on at every pass, so that at    *)
(* most one pass lies between the clock and the time counted last.          *)
ClockInv ==
    /\ first =< last /\ last =< clock
    /\ live /\ m_lastMs # 0 =>
           /\ m_brun /\ m_ridPMap # {}
           /\ m_lastMs = last % MsMod
           /\ mgrMs = m_lastMs
           /\ clock - last =< MaxGap

(* A player counts as in step with the broadcast only while his session is  *)
(* open, and whoever has a session has an entry in m_pidConn.               *)
SyncInv ==
    /\ \A r \in Rids : sync[r] # NoSync => live /\ r \in sess
    /\ live => sess \subseteq m_pidConn

RInv ==
    /\ TypeOK
    /\ LoopInv
    /\ FramesAreCuts /\ CutsBounded
    /\ ClockInv /\ FollowsClock
    /\ SyncInv /\ CaughtUp
    /\ OverTellsLastFrame

-----------------------------------------------------------------------------
(* Every step keeps LoopInv: in a pass of Update there is a live room.      *)
LEMMA LoopStep ==
    ASSUME LoopInv, [Next]_vars
    PROVE  LoopInv'
<1> USE DEF procVars, stateVars, timeVars, frameVars, cmdVars, clientVars, gateVars, memberVars
<1>1. CASE Handlers \/ Advance
    <2>1. pc = "idle" /\ pc' = "idle"
        BY <1>1 DEF Handlers, Advance, NewRoom, SetReady, Over, FrameCmd, Reg, EnterP, OfflineP,
                    LeaveP, GetCacheFrames, GetFramesData
    <2> QED
        BY <2>1 DEF LoopInv
<1>2. CASE UpdateForced \/ UpdateIdle \/ UpdateFirst
    BY <1>2 DEF UpdateForced, UpdateIdle, UpdateFirst, Due, LoopInv
<1>3. CASE UpdateAdd
    BY <1>3 DEF UpdateAdd, Counting, LoopInv
<1>4. CASE EmitFrame
    BY <1>4 DEF EmitFrame, LoopInv
<1>5. CASE UpdateEnd
    BY <1>5 DEF UpdateEnd, LoopInv
<1>6. CASE UNCHANGED vars
    BY <1>6 DEF vars, LoopInv
<1> QED
    BY <1>1, <1>2, <1>3, <1>4, <1>5, <1>6 DEF Next, Update

-----------------------------------------------------------------------------
(* Frames.                                                                 *)

(* The steps that neither accept a command nor seal a frame nor end the     *)
(* match.                                                                   *)
QuietStep == \/ SetReady \/ Over \/ GetCacheFrames \/ GetFramesData \/ Advance
             \/ UpdateIdle \/ UpdateFirst \/ UpdateAdd
             \/ UpdateEnd /\ ~Ended
             \/ UNCHANGED vars

EndStep == UpdateForced \/ (UpdateEnd /\ Ended)

CommandStep == FrameCmd \/ Reg \/ EnterP \/ OfflineP \/ LeaveP

(* What a step is to the record: a start, a command, a frame, an end, or quiet. *)
LEMMA StepKinds ==
    ASSUME [Next]_vars
    PROVE  NewRoom \/ CommandStep \/ EmitFrame \/ EndStep \/ QuietStep
BY DEF Next, Handlers, Update, QuietStep, EndStep, CommandStep

(* Quiet steps leave commands, frames and what the gate was sent alone.     *)
LEMMA QuietKeeps ==
    ASSUME QuietStep
    PROVE  UNCHANGED <<live, frameVars, cmdVars, gateVars>>
<1> USE DEF stateVars, timeVars, frameVars, cmdVars, gateVars
<1>1. CASE SetReady \/ Over \/ GetCacheFrames \/ GetFramesData \/ Advance
    BY <1>1 DEF SetReady, Over, GetCacheFrames, GetFramesData, Advance
<1>2. CASE UpdateIdle \/ UpdateFirst \/ UpdateAdd \/ (UpdateEnd /\ ~Ended)
    BY <1>2 DEF UpdateIdle, UpdateFirst, UpdateAdd, UpdateEnd
<1>3. CASE UNCHANGED vars
    BY <1>3 DEF vars
<1> QED
    BY <1>1, <1>2, <1>3 DEF QuietStep

(* Both ends of a match are RawOver.                                        *)
LEMMA EndKeeps ==
    ASSUME EndStep
    PROVE  RawOver
BY DEF EndStep, UpdateForced, UpdateEnd

(* What the types say of the cuts and the commands.                         *)
LEMMA CutType ==
    ASSUME TypeOK, FramesAreCuts
    PROVE  /\ cut \in Seq(Nat) /\ accepted \in Seq(Cmds)
           /\ m_frameId \in Nat /\ Len(accepted) \in Nat /\ Len(cut) = m_frameId
           /\ \A i \in 1..m_frameId : cut[i] \in Nat
BY DEF TypeOK, FramesAreCuts

(* Cuts are never past the commands, and never go back.                     *)
LEMMA CutsStep ==
    ASSUME TypeOK, FramesAreCuts, CutsBounded, [Next]_vars
    PROVE  Len(cut') = m_frameId' /\ CutsBounded'
<1> USE CutType DEF frameVars, cmdVars
<1>1. CASE NewRoom
    BY <1>1 DEF NewRoom, CutsBounded
<1>2. CASE CommandStep
    <2>1. PICK c \in Cmds : AddCmd(c)
        BY <1>2, CommandSteps DEF CommandStep
    <2>2. Len(accepted') = Len(accepted) + 1
        BY <2>1, Appended DEF AddCmd
    <2>3. UNCHANGED frameVars
        BY <1>2, CommandSteps DEF CommandStep
    <2> QED
        BY <2>2, <2>3 DEF CutsBounded
<1>3. CASE EmitFrame
    <2>1. cut' = Append(cut, Len(accepted)) /\ m_frameId' = m_frameId + 1 /\ accepted' = accepted
        BY <1>3 DEF EmitFrame
    <2>2. /\ Len(cut') = m_frameId + 1
          /\ \A i \in 1..m_frameId : cut'[i] = cut[i]
          /\ cut'[m_frameId + 1] = Len(accepted)
        BY <2>1, Appended
    <2>3. \A i \in 1..m_frameId' : i \in 1..m_frameId \/ i = m_frameId + 1
        BY <2>1
    <2> QED
        BY <2>1, <2>2, <2>3 DEF CutsBounded
<1>4. CASE EndStep
    BY <1>4, EndKeeps DEF RawOver, CutsBounded
<1>5. CASE QuietStep
    BY <1>5, QuietKeeps DEF CutsBounded
<1> QED
    BY <1>1, <1>2, <1>3, <1>4, <1>5, StepKinds

(* Where the frame being built begins. *)
LEMMA BeginType ==
    ASSUME TypeOK, FramesAreCuts, CutsBounded
    PROVE  /\ \A f \in 0..m_frameId : Log!Begin(f) \in 0..Len(accepted)
           /\ \A f \in 0..(m_frameId - 1) : cut[f + 1] \in 0..Len(accepted)
<1> USE CutType
<1>1. \A f \in 0..(m_frameId - 1) : f + 1 \in 1..m_frameId
    OBVIOUS
<1>2. \A f \in 0..m_frameId : f = 0 \/ f \in 1..m_frameId
    OBVIOUS
<1> QED
    BY <1>1, <1>2 DEF CutsBounded, Log!Begin

(* A new match has no frame, and its commands are all pending.              *)
LEMMA FramesAtStart ==
    ASSUME NewRoom, Len(cut') = m_frameId'
    PROVE  FramesAreCuts'
<1>1. /\ m_pt2001' = accepted' /\ accepted' \in Seq(Cmds)
      /\ m_frameId' = 0 /\ m_allOperMap' = [f \in {} |-> 0]
    BY NewRoomTypes DEF NewRoom
<1>2. SubSeq(accepted', 0 + 1, Len(accepted')) = accepted'
    BY <1>1, SliceEnds
<1> QED
    BY <1>1, <1>2 DEF FramesAreCuts, Log!Begin

(* A command joins the pending ones and changes no frame.                   *)
LEMMA FramesAtCommand ==
    ASSUME TypeOK, FramesAreCuts, CutsBounded, NEW c \in Cmds, AddCmd(c),
           UNCHANGED <<live, frameVars>>
    PROVE  FramesAreCuts'
<1> USE CutType DEF frameVars
<1>1. accepted' = Append(accepted, c) /\ m_pt2001' = Append(m_pt2001, c)
    BY DEF AddCmd
<1>2. Len(accepted') = Len(accepted) + 1
    BY <1>1, Appended
<1>3. \A f \in 0..m_frameId : Log!Begin(f)' = Log!Begin(f)
    BY DEF Log!Begin
<1>4. \A f \in 0..(m_frameId - 1) : Log!Frame(f)' = Log!Frame(f)
    <2> TAKE f \in 0..(m_frameId - 1)
    <2>1. Log!Begin(f) \in Nat /\ cut[f + 1] \in 0..Len(accepted)
        BY BeginType
    <2>2. SubSeq(accepted', Log!Begin(f) + 1, cut[f + 1])
              = SubSeq(accepted, Log!Begin(f) + 1, cut[f + 1])
        BY <1>1, <2>1, SliceKept
    <2>3. Log!Begin(f)' = Log!Begin(f) /\ cut' = cut
        BY <1>3
    <2> QED
        BY <2>2, <2>3 DEF Log!Frame
<1>5. m_pt2001' = SubSeq(accepted', Log!Begin(m_frameId)' + 1, Len(accepted'))
    <2>1. Log!Begin(m_frameId) \in 0..Len(accepted)
        BY BeginType
    <2>2. Append(SubSeq(accepted, Log!Begin(m_frameId) + 1, Len(accepted)), c)
              = SubSeq(accepted', Log!Begin(m_frameId) + 1, Len(accepted) + 1)
        BY <1>1, <2>1, SliceGrows
    <2>3. Log!Begin(m_frameId)' = Log!Begin(m_frameId)
        BY DEF Log!Begin
    <2> QED
        BY <1>1, <1>2, <2>2, <2>3 DEF FramesAreCuts
<1> QED
    BY <1>4, <1>5 DEF FramesAreCuts

(* The frame of a slot that was sealed before stays as it was. *)
LEMMA FramesAtSeal ==
    ASSUME TypeOK, FramesAreCuts, CutsBounded, live, EmitFrame
    PROVE  /\ FramesAreCuts'
           /\ NewFrame = Log!NextFrame
<1> USE CutType
<1>1. /\ cut' = Append(cut, Len(accepted)) /\ m_frameId' = m_frameId + 1
      /\ accepted' = accepted /\ m_pt2001' = <<>> /\ live' = live
      /\ m_allOperMap' = [f \in DOMAIN m_allOperMap \cup {m_frameId} |->
                             IF f = m_frameId THEN NewFrame ELSE m_allOperMap[f]]
    BY DEF EmitFrame, stateVars
<1>2. /\ Len(cut') = m_frameId + 1
      /\ \A i \in 1..m_frameId : cut'[i] = cut[i]
      /\ cut'[m_frameId + 1] = Len(accepted)
    BY <1>1, Appended
<1>3. NewFrame = [frameid |-> m_frameId,
                  cmdlist |-> SubSeq(accepted, Log!Begin(m_frameId) + 1, Len(accepted))]
    BY DEF NewFrame, FramesAreCuts
<1>4. NewFrame = Log!NextFrame
    BY <1>3 DEF Log!NextFrame
<1>5. \A f \in 0..m_frameId : Log!Begin(f)' = Log!Begin(f)
    <2> TAKE f \in 0..m_frameId
    <2>1. f = 0 \/ f \in 1..m_frameId
        OBVIOUS
    <2> QED
        BY <2>1, <1>2 DEF Log!Begin
<1>6. \A f \in 0..(m_frameId - 1) : Log!Frame(f)' = Log!Frame(f)
    <2> TAKE f \in 0..(m_frameId - 1)
    <2>1. f + 1 \in 1..m_frameId /\ f \in 0..m_frameId
        OBVIOUS
    <2> QED
        BY <2>1, <1>1, <1>2, <1>5 DEF Log!Frame
<1>7. \A f \in {m_frameId} : Log!Frame(f)' = NewFrame
    <2> TAKE f \in {m_frameId}
    <2>1. Log!Begin(f)' = Log!Begin(f)
        BY <1>5
    <2> QED
        BY <2>1, <1>1, <1>2, <1>3 DEF Log!Frame
<1>8. DOMAIN m_allOperMap' = 0..(m_frameId' - 1)
    <2>1. DOMAIN m_allOperMap = 0..(m_frameId - 1)
        BY DEF FramesAreCuts
    <2>2. 0..(m_frameId - 1) \cup {m_frameId} = 0..(m_frameId + 1 - 1)
        OBVIOUS
    <2> QED
        BY <2>1, <2>2, <1>1
<1>9. \A f \in 0..(m_frameId' - 1) : m_allOperMap'[f] = Log!Frame(f)'
    <2> TAKE f \in 0..(m_frameId' - 1)
    <2>1. f \in 0..(m_frameId - 1) \/ f \in {m_frameId}
        BY <1>1
    <2>2. f \in DOMAIN m_allOperMap \cup {m_frameId}
        BY <1>1, <1>8
    <2>3. CASE f \in {m_frameId}
        BY <2>2, <2>3, <1>1, <1>7
    <2>4. CASE f \in 0..(m_frameId - 1)
        <3>1. m_allOperMap[f] = Log!Frame(f) /\ f # m_frameId
            BY <2>4 DEF FramesAreCuts
        <3> QED
            BY <2>2, <2>4, <3>1, <1>1, <1>6
    <2> QED
        BY <2>1, <2>3, <2>4
<1>10. m_pt2001' = SubSeq(accepted', Log!Begin(m_frameId)' + 1, Len(accepted'))
    <2>1. Log!Begin(m_frameId)' = Len(accepted)
        BY <1>1, <1>2 DEF Log!Begin
    <2>2. SubSeq(accepted, Len(accepted) + 1, Len(accepted)) = <<>>
        BY SliceEnds
    <2> QED
        BY <2>1, <2>2, <1>1
<1> QED
    BY <1>1, <1>2, <1>4, <1>8, <1>9, <1>10 DEF FramesAreCuts

(* Every step keeps the record a partition of the commands.                 *)
LEMMA FramesStep ==
    ASSUME TypeOK, LoopInv, FramesAreCuts, CutsBounded, [Next]_vars
    PROVE  FramesAreCuts'
<1> USE DEF frameVars, cmdVars
<1>1. CASE NewRoom
    BY <1>1, CutsStep, FramesAtStart
<1>2. CASE CommandStep
    <2>1. UNCHANGED <<live, frameVars>> /\ \E c \in Cmds : AddCmd(c)
        BY <1>2, CommandSteps DEF CommandStep, stateVars
    <2> QED
        BY <2>1, FramesAtCommand
<1>3. CASE EmitFrame
    BY <1>3, FramesAtSeal DEF EmitFrame, LoopInv
<1>4. CASE EndStep
    BY <1>4, EndKeeps DEF RawOver, FramesAreCuts, Log!Begin
<1>5. CASE QuietStep
    <2>1. UNCHANGED <<live, frameVars, cmdVars>>
        BY <1>5, QuietKeeps
    <2> QED
        BY <2>1 DEF FramesAreCuts, Log!Begin, Log!Frame
<1> QED
    BY <1>1, <1>2, <1>3, <1>4, <1>5, StepKinds

-----------------------------------------------------------------------------
(* Time.                                                                   *)

made == m_frameId * FrameTick + m_accMs

(* What the types say of the clock.                                         *)
LEMMA ClockType ==
    ASSUME TypeOK
    PROVE  /\ clock \in Nat /\ first \in Nat /\ last \in Nat /\ m_accMs \in Nat
           /\ m_frameId \in Nat /\ made \in Nat /\ resync \in BOOLEAN
           /\ FrameTick \in Nat \ {0} /\ MsMod \in Nat \ {0}
           /\ MaxGap \in Nat /\ MaxGap < MsMod
           /\ m_frameId * FrameTick \in Nat
BY RoomAssumption DEF TypeOK, made

(* What the code computes as the time since the last pass is that time. *)
LEMMA ElapsedIsTime ==
    ASSUME TypeOK, ClockInv, live, m_lastMs # 0
    PROVE  Elapsed = clock - last
<1>1. clock - last \in 0..(MsMod - 1)
    BY ClockType DEF ClockInv
<1>2. ((clock % MsMod) - (last % MsMod)) % MsMod = clock - last
    BY <1>1, ClockType, ReadingsDiffer
<1> QED
    BY <1>2 DEF ClockInv, Elapsed, ms

(* When the clock is read again, the time counted last is the old reading. *)
LEMMA CountedAtReading ==
    ASSUME TypeOK, ClockInv, live, m_lastMs # 0, ms = mgrMs
    PROVE  last = clock
<1>1. clock - last \in 0..(MsMod - 1)
    BY ClockType DEF ClockInv
<1>2. clock % MsMod = last % MsMod
    BY DEF ClockInv, ms
<1> QED
    BY <1>1, <1>2, ClockType, SameReading

(* The steps that leave the time of the room alone. *)
LEMMA TimeKept ==
    ASSUME ClockInv, FollowsClock,
           UNCHANGED <<clock, mgrMs, m_lastMs, first, last, resync, m_frameId, m_accMs>>,
           live' => live,
           live => ((m_brun => m_brun') /\ (m_ridPMap # {} => m_ridPMap' # {}))
    PROVE  ClockInv' /\ FollowsClock'
BY DEF ClockInv, FollowsClock

(* Every step keeps m_accMs in agreement with the clock.                    *)
LEMMA ClockStep ==
    ASSUME TypeOK, LoopInv, ClockInv, FollowsClock, [Next]_vars
    PROVE  ClockInv' /\ FollowsClock'
<1> USE ClockType
<1>1. CASE NewRoom
    <2>1. /\ first' = clock /\ last' = clock /\ clock' = clock
          /\ m_lastMs' = 0 /\ m_accMs' = 0 /\ m_frameId' = 0 /\ resync' = FALSE
        BY <1>1 DEF NewRoom, procVars
    <2>2. 0 * FrameTick + 0 = 0
        OBVIOUS
    <2> QED
        BY <2>1, <2>2 DEF ClockInv, FollowsClock
<1>2. CASE SetReady \/ Over \/ GetCacheFrames \/ GetFramesData
    <2>1. /\ UNCHANGED <<clock, mgrMs, m_lastMs, first, last, resync, m_frameId, m_accMs>>
          /\ UNCHANGED <<live, m_ridPMap>>
        BY <1>2 DEF SetReady, Over, GetCacheFrames, GetFramesData, procVars, stateVars, timeVars,
           frameVars, memberVars
    <2>2. m_brun => m_brun'
        BY <1>2 DEF SetReady, Over, GetCacheFrames, GetFramesData, stateVars
    <2> QED
        BY <2>1, <2>2, TimeKept
<1>3. CASE CommandStep
    <2>1. UNCHANGED <<procVars, stateVars, timeVars, frameVars>>
        BY <1>3, CommandSteps DEF CommandStep
    <2>2. m_ridPMap # {} => m_ridPMap' # {}
        BY <1>3 DEF CommandStep, FrameCmd, Reg, EnterP, OfflineP, LeaveP, memberVars
    <2> QED
        BY <2>1, <2>2, TimeKept DEF procVars, stateVars, timeVars, frameVars
<1>4. CASE Advance
    <2>1. PICK d \in 1..MaxGap : clock' = clock + d
        BY <1>4 DEF Advance
    <2>2. /\ ms = mgrMs
          /\ UNCHANGED <<mgrMs, live, m_brun, m_ridPMap, m_lastMs, first, last, resync,
                         m_frameId, m_accMs>>
        BY <1>4 DEF Advance, stateVars, timeVars, frameVars, memberVars
    <2>3. live /\ m_lastMs # 0 => last = clock
        BY <2>2, CountedAtReading
    <2> QED
        BY <2>1, <2>2, <2>3 DEF ClockInv, FollowsClock
<1>5. CASE EndStep
    <2>1. /\ live' = FALSE
          /\ UNCHANGED <<clock, m_lastMs, first, last, resync, m_frameId, m_accMs>>
        BY <1>5, EndKeeps DEF RawOver, timeVars
    <2> QED
        BY <2>1 DEF ClockInv, FollowsClock
<1>6. CASE UpdateIdle
    <2>1. /\ ~(live /\ m_gateOver) /\ ~Counting
          /\ UNCHANGED <<clock, live, m_brun, m_ridPMap, m_lastMs, first, last, resync,
                         m_frameId, m_accMs>>
        BY <1>6 DEF UpdateIdle, stateVars, timeVars, frameVars, memberVars
    <2>2. live => m_lastMs = 0
        BY <2>1 DEF Counting, ClockInv
    <2> QED
        BY <2>1, <2>2 DEF ClockInv, FollowsClock
<1>7. CASE UpdateFirst
    <2>1. /\ mgrMs' = ms /\ m_lastMs' = ms /\ m_accMs' = 0 /\ last' = clock
          /\ Counting
          /\ UNCHANGED <<clock, live, m_brun, m_ridPMap, m_frameId>>
          /\ IF m_frameId = 0 /\ m_accMs = 0
             THEN first' = clock /\ resync' = resync
             ELSE first' = first /\ resync' = TRUE
        BY <1>7 DEF UpdateFirst, stateVars, frameVars, memberVars
    <2>2. ClockInv'
        BY <2>1 DEF ClockInv, Counting, ms
    <2>3. CASE m_frameId = 0 /\ m_accMs = 0
        <3>1. m_frameId' * FrameTick + m_accMs' = 0
            BY <2>1, <2>3
        <3> QED
            BY <2>1, <2>2, <2>3, <3>1 DEF FollowsClock
    <2>4. CASE ~(m_frameId = 0 /\ m_accMs = 0)
        <3>1. resync' = TRUE /\ first' = first
            BY <2>1, <2>4
        <3>2. m_frameId' * FrameTick + m_accMs' <= made
            BY <2>1 DEF made
        <3>3. made <= last - first /\ last <= clock
            BY DEF FollowsClock, ClockInv, made
        <3> QED
            BY <2>1, <2>2, <3>1, <3>2, <3>3 DEF FollowsClock
    <2> QED
        BY <2>2, <2>3, <2>4
<1>8. CASE UpdateAdd
    <2>1. /\ Counting /\ m_lastMs # 0
          /\ mgrMs' = ms /\ m_accMs' = m_accMs + Elapsed /\ m_lastMs' = ms /\ last' = clock
          /\ UNCHANGED <<clock, live, m_brun, m_ridPMap, first, resync, m_frameId>>
        BY <1>8 DEF UpdateAdd, stateVars, frameVars, memberVars
    <2>2. Elapsed = clock - last
        BY <2>1, ElapsedIsTime DEF Counting
    <2>3. ClockInv'
        BY <2>1 DEF ClockInv, Counting, ms
    <2>4. m_frameId' * FrameTick + m_accMs' = made + (clock - last)
        BY <2>1, <2>2 DEF made
    <2> QED
        BY <2>1, <2>3, <2>4 DEF FollowsClock, made
<1>9. CASE EmitFrame
    <2>1. /\ m_accMs >= FrameTick
          /\ m_accMs' = m_accMs - FrameTick /\ m_frameId' = m_frameId + 1
          /\ UNCHANGED <<clock, mgrMs, live, m_brun, m_ridPMap, m_lastMs, first, last, resync>>
        BY <1>9 DEF EmitFrame, procVars, stateVars, memberVars
    <2>2. (m_frameId + 1) * FrameTick = m_frameId * FrameTick + FrameTick
        BY Z3
    <2>3. m_frameId' * FrameTick + m_accMs' = made
        BY <2>1, <2>2 DEF made
    <2> QED
        BY <2>1, <2>3 DEF ClockInv, FollowsClock, made
<1>10. CASE UpdateEnd /\ ~Ended
    BY <1>10, TimeKept DEF UpdateEnd, stateVars, timeVars, frameVars, memberVars
<1>11. CASE UNCHANGED vars
    BY <1>11, TimeKept DEF vars, procVars, stateVars, timeVars, frameVars, memberVars
<1> QED
    BY <1>1, <1>2, <1>3, <1>4, <1>5, <1>6, <1>7, <1>8, <1>9, <1>10, <1>11, StepKinds
       DEF QuietStep

-----------------------------------------------------------------------------
(* The players' views.                                                     *)


(* Every step keeps synced players caught up.                               *)
LEMMA SyncStep ==
    ASSUME TypeOK, LoopInv, FramesAreCuts, SyncInv, CaughtUp, [Next]_vars
    PROVE  SyncInv' /\ CaughtUp'
<1>1. CASE NewRoom
    <2>1. \A r \in Rids : sync'[r] = NoSync
        BY <1>1 DEF NewRoom
    <2>2. sess' = {}
        BY <1>1 DEF NewRoom
    <2> QED
        BY <2>1, <2>2 DEF SyncInv, CaughtUp
<1>2. CASE SetReady \/ Over \/ Advance \/ UpdateIdle \/ UpdateFirst \/ UpdateAdd
    <2>1. UNCHANGED <<live, m_frameId, m_allOperMap, view, sync, sess, m_pidConn>>
        BY <1>2 DEF SetReady, Over, Advance, UpdateIdle, UpdateFirst, UpdateAdd, stateVars,
           frameVars, memberVars, clientVars
    <2> QED
        BY <2>1 DEF SyncInv, CaughtUp
<1>3. CASE CommandStep
    <2>1. UNCHANGED <<live, m_frameId, m_allOperMap, view>>
        BY <1>3, CommandSteps DEF CommandStep, stateVars, frameVars
    <2>2. CASE FrameCmd \/ EnterP \/ LeaveP
        <3>1. UNCHANGED <<sync, sess, m_pidConn>>
            BY <2>2 DEF FrameCmd, EnterP, LeaveP, memberVars, clientVars
        <3> QED
            BY <2>1, <3>1 DEF SyncInv, CaughtUp
    <2>3. CASE Reg
        <3>1. PICK r \in m_ridPMap : /\ m_pidConn' = m_pidConn \cup {r}
                                     /\ sess' = sess \cup {r}
            BY <2>3 DEF Reg
        <3>2. sync' = sync
            BY <2>3 DEF Reg, clientVars
        <3> QED
            BY <2>1, <3>1, <3>2 DEF SyncInv, CaughtUp
    <2>4. CASE OfflineP
        <3>1. PICK r \in m_ridPMap : /\ sess' = sess \ {r}
                                     /\ sync' = [sync EXCEPT ![r] = NoSync]
            BY <2>4 DEF OfflineP
        <3>2. m_pidConn' = m_pidConn
            BY <2>4 DEF OfflineP
        <3>3. \A q \in Rids : sync'[q] # NoSync => q # r /\ sync'[q] = sync[q]
            BY <3>1 DEF TypeOK
        <3> QED
            BY <2>1, <3>1, <3>2, <3>3 DEF SyncInv, CaughtUp
    <2> QED
        BY <1>3, <2>2, <2>3, <2>4 DEF CommandStep
<1>4. CASE GetCacheFrames
    <2>1. PICK r \in m_ridPMap, begin \in 0..m_frameId :
              /\ view' = [view EXCEPT ![r] =
                     @ \cup {m_allOperMap[f] : f \in {g \in DOMAIN m_allOperMap : g >= begin}}]
              /\ sync' = IF r \in sess /\ (sync[r] = NoSync \/ begin < sync[r])
                         THEN [sync EXCEPT ![r] = begin] ELSE sync
        BY <1>4 DEF GetCacheFrames
    <2>2. UNCHANGED <<live, m_frameId, m_allOperMap, sess, m_pidConn>> /\ live
        BY <1>4 DEF GetCacheFrames, stateVars, frameVars, memberVars
    <2>3. SyncInv'
        BY <2>1, <2>2 DEF SyncInv, TypeOK
    <2>4. \A q \in Rids : view[q] \subseteq view'[q]
        BY <2>1 DEF TypeOK
    <2>5. \A f \in begin..(m_frameId - 1) : m_allOperMap[f] \in view'[r]
        <3> TAKE f \in begin..(m_frameId - 1)
        <3>1. f \in DOMAIN m_allOperMap /\ f >= begin
            BY <2>2 DEF FramesAreCuts, TypeOK
        <3>2. r \in Rids
            BY DEF TypeOK
        <3> QED
            BY <2>1, <3>1, <3>2 DEF TypeOK
    <2>6. \A q \in Rids : sync'[q] = sync[q] \/ (q = r /\ sync'[q] = begin)
        BY <2>1 DEF TypeOK
    <2>7. CaughtUp'
        <3> SUFFICES ASSUME NEW q \in Rids, sync'[q] # NoSync,
                            NEW f \in sync'[q]..(m_frameId - 1)
                     PROVE  m_allOperMap[f] \in view'[q]
            BY <2>2 DEF CaughtUp
        <3>1. CASE sync'[q] = sync[q]
            BY <2>2, <2>4, <3>1 DEF CaughtUp
        <3>2. CASE q = r /\ sync'[q] = begin
            BY <2>5, <3>2
        <3> QED
            BY <2>6, <3>1, <3>2
    <2> QED
        BY <2>3, <2>7
<1>5. CASE GetFramesData
    <2>1. UNCHANGED <<live, m_frameId, m_allOperMap, sync, sess, m_pidConn>>
        BY <1>5 DEF GetFramesData, stateVars, frameVars, memberVars
    <2>2. \A q \in Rids : view[q] \subseteq view'[q]
        BY <1>5 DEF GetFramesData, TypeOK
    <2> QED
        BY <2>1, <2>2 DEF SyncInv, CaughtUp
<1>6. CASE EndStep
    <2>1. live' = FALSE /\ \A r \in Rids : sync'[r] = NoSync
        BY <1>6, EndKeeps DEF RawOver
    <2> QED
        BY <2>1 DEF SyncInv, CaughtUp
<1>7. CASE EmitFrame
    <2>1. /\ live /\ m_frameId' = m_frameId + 1
          /\ UNCHANGED <<live, sync, sess, m_pidConn>>
          /\ view' = [r \in Rids |-> IF r \in m_pidConn \cap sess
                                     THEN view[r] \cup {NewFrame} ELSE view[r]]
          /\ m_allOperMap' = [f \in DOMAIN m_allOperMap \cup {m_frameId} |->
                                 IF f = m_frameId THEN NewFrame ELSE m_allOperMap[f]]
        BY <1>7 DEF EmitFrame, LoopInv, stateVars, memberVars
    <2>2. SyncInv'
        BY <2>1 DEF SyncInv
    <2>3. CaughtUp'
        <3> SUFFICES ASSUME NEW q \in Rids, sync[q] # NoSync,
                            NEW f \in sync[q]..(m_frameId' - 1)
                     PROVE  m_allOperMap'[f] \in view'[q]
            BY <2>1 DEF CaughtUp
        <3>1. q \in m_pidConn \cap sess
            BY <2>1 DEF SyncInv
        <3>2. m_frameId \in Nat /\ sync[q] \in Nat /\ DOMAIN m_allOperMap = 0..(m_frameId - 1)
            BY <2>1 DEF TypeOK, FramesAreCuts
        <3>3. view'[q] = view[q] \cup {NewFrame}
            BY <2>1, <3>1
        <3>4. CASE f = m_frameId
            BY <2>1, <3>3, <3>4
        <3>5. CASE f # m_frameId
            <4>1. f \in sync[q]..(m_frameId - 1) /\ f \in 0..(m_frameId - 1)
                BY <2>1, <3>2, <3>5
            <4>2. m_allOperMap[f] \in view[q]
                BY <2>1, <4>1 DEF CaughtUp
            <4> QED
                BY <2>1, <3>2, <3>3, <3>5, <4>1, <4>2
        <3> QED
            BY <3>4, <3>5
    <2> QED
        BY <2>2, <2>3
<1>8. CASE (UpdateEnd /\ ~Ended) \/ UNCHANGED vars
    <2>1. UNCHANGED <<live, m_frameId, m_allOperMap, view, sync, sess, m_pidConn>>
        BY <1>8 DEF UpdateEnd, vars, stateVars, frameVars, memberVars, clientVars
    <2> QED
        BY <2>1 DEF SyncInv, CaughtUp
<1> QED
    BY <1>1, <1>2, <1>3, <1>4, <1>5, <1>6, <1>7, <1>8, StepKinds DEF QuietStep

-----------------------------------------------------------------------------
(* The end of the match.                                                   *)

(* Every step keeps message 213 in agreement with the record.               *)
LEMMA OverStep ==
    ASSUME TypeOK, FramesAreCuts, LoopInv, OverTellsLastFrame, [Next]_vars
    PROVE  OverTellsLastFrame'
<1>1. CASE EndStep
    <2>1. live
        BY <1>1 DEF EndStep, UpdateForced, UpdateEnd, LoopInv
    <2>2. /\ DOMAIN m_allOperMap = 0..(m_frameId - 1) /\ m_frameId \in Nat
          /\ \A f \in 0..(m_frameId - 1) : m_allOperMap[f].frameid = f
        <3>1. m_frameId \in Nat
            BY DEF TypeOK
        <3>2. /\ DOMAIN m_allOperMap = 0..(m_frameId - 1)
              /\ \A f \in DOMAIN m_allOperMap : m_allOperMap[f] = Log!Frame(f)
            BY <2>1 DEF FramesAreCuts
        <3>3. \A f : Log!Frame(f).frameid = f
            BY DEF Log!Frame
        <3> QED
            BY <3>1, <3>2, <3>3
    <2>3. record' = {m_allOperMap[f] : f \in 0..(m_frameId - 1)} /\ overId' = OverFrameId
        BY <1>1, <2>2, EndKeeps DEF RawOver
    <2> SUFFICES ASSUME record' # {}
                 PROVE  /\ \E m \in record' : m.frameid = overId'
                        /\ \A m \in record' : m.frameid <= overId'
        BY DEF OverTellsLastFrame
    <2>4. m_frameId > 0 /\ overId' = m_frameId - 1
        BY <2>2, <2>3 DEF OverFrameId
    <2>5. m_frameId - 1 \in 0..(m_frameId - 1)
        BY <2>2, <2>4
    <2>6. m_allOperMap[m_frameId - 1] \in record'
              /\ m_allOperMap[m_frameId - 1].frameid = m_frameId - 1
        BY <2>2, <2>3, <2>5
    <2>7. \A m \in record' : m.frameid <= overId'
        BY <2>2, <2>3, <2>4
    <2> QED
        BY <2>4, <2>6, <2>7
<1>2. CASE NewRoom \/ EmitFrame
    BY <1>2 DEF NewRoom, EmitFrame, gateVars, OverTellsLastFrame
<1>3. CASE CommandStep
    BY <1>3, CommandSteps DEF CommandStep, gateVars, OverTellsLastFrame
<1>4. CASE QuietStep
    BY <1>4, QuietKeeps DEF gateVars, OverTellsLastFrame
<1> QED
    BY <1>1, <1>2, <1>3, <1>4, StepKinds

-----------------------------------------------------------------------------
(* The invariant holds.                                                    *)

(* RInv holds before the first match.                                       *)
LEMMA RInvInit == Init => RInv
<1> SUFFICES ASSUME Init PROVE RInv
    OBVIOUS
<1>1. TypeOK
    BY TypeInit
<1>2. FramesAreCuts /\ CutsBounded
    <2>1. /\ m_frameId = 0 /\ cut = <<>> /\ accepted = <<>> /\ m_pt2001 = <<>> /\ ~live
        BY DEF Init
    <2>2. SubSeq(accepted, 0 + 1, Len(accepted)) = accepted
        BY <1>1, SliceEnds DEF TypeOK
    <2> QED
        BY <2>1, <2>2 DEF FramesAreCuts, CutsBounded, Log!Begin
<1>3. ClockInv /\ FollowsClock
    <2>1. first = clock /\ last = clock /\ m_frameId = 0 /\ m_accMs = 0 /\ ~live
          /\ clock \in Nat /\ FrameTick \in Nat
        BY RoomAssumption DEF Init
    <2>2. 0 * FrameTick + 0 = 0
        BY <2>1
    <2> QED
        BY <2>1, <2>2 DEF ClockInv, FollowsClock
<1>4. LoopInv /\ SyncInv /\ CaughtUp /\ OverTellsLastFrame
    BY DEF Init, LoopInv, SyncInv, CaughtUp, OverTellsLastFrame
<1> QED
    BY <1>1, <1>2, <1>3, <1>4 DEF RInv

(* Every step keeps RInv.                                                   *)
LEMMA RInvStep ==
    ASSUME RInv, [Next]_vars
    PROVE  RInv'
<1>1. TypeOK'
    BY TypeStep DEF RInv
<1>2. LoopInv'
    BY LoopStep DEF RInv
<1>3. FramesAreCuts' /\ CutsBounded'
    BY FramesStep, CutsStep DEF RInv
<1>4. ClockInv' /\ FollowsClock'
    BY ClockStep DEF RInv
<1>5. SyncInv' /\ CaughtUp'
    BY SyncStep DEF RInv
<1>6. OverTellsLastFrame'
    BY OverStep DEF RInv
<1> QED
    BY <1>1, <1>2, <1>3, <1>4, <1>5, <1>6 DEF RInv

(* The strengthening that makes the properties of a room inductive holds in *)
(* every reachable state of roomObj and roomMgr::Update.                    *)
THEOREM RoomInductive == Spec => []RInv
<1>1. Init => RInv
    BY RInvInit
<1>2. RInv /\ [Next]_vars => RInv'
    BY RInvStep
<1> QED
    BY <1>1, <1>2, PTL DEF Spec

(* Every variable of a room keeps to its set, the wrapped clock included.   *)
THEOREM RoomTypeCorrect == Spec => []TypeOK
<1>1. RInv => TypeOK
    BY DEF RInv
<1> QED
    BY <1>1, RoomInductive, PTL

(* The record in memory is the frames 0 to m_frameId - 1, each a cut of the *)
(* commands accepted, and m_pt2001 is the rest (EnterP, FrameCmd, Update).  *)
THEOREM FramesAlwaysCuts == Spec => []FramesAreCuts
<1>1. RInv => FramesAreCuts
    BY DEF RInv
<1> QED
    BY <1>1, RoomInductive, PTL

(* Frames keep to the clock, however late the passes of the loop are and    *)
(* wherever the clock wraps, as long as two passes are less than a period   *)
(* of the clock apart (m_accMs += ms - m_lastMs in unsigned arithmetic).    *)
THEOREM AlwaysFollowsClock == Spec => []FollowsClock
<1>1. RInv => FollowsClock
    BY DEF RInv
<1> QED
    BY <1>1, RoomInductive, PTL

(* A player who asked the cache while his session is open has every frame   *)
(* from there on (GetCacheFrames against BroadcastKcp).                     *)
THEOREM AlwaysCaughtUp == Spec => []CaughtUp
<1>1. RInv => CaughtUp
    BY DEF RInv
<1> QED
    BY <1>1, RoomInductive, PTL

(* The frame that message 213 names is the last of the record sent to the   *)
(* gate (RawOver against Finnal).                                           *)
THEOREM OverAlwaysTellsLast == Spec => []OverTellsLastFrame
<1>1. RInv => OverTellsLastFrame
    BY DEF RInv
<1> QED
    BY <1>1, RoomInductive, PTL

(* Once a forced end was asked for, no frame is made before the match ends  *)
(* (the test of m_gateOver comes first in roomObj::Update).                 *)
THEOREM ForcedEndAlwaysImmediate == Spec => ForcedEndIsImmediate
<1>1. RInv /\ [Next]_vars => [m_gateOver /\ live => m_frameId' = m_frameId]_vars
    <2> SUFFICES ASSUME RInv, [Next]_vars, m_gateOver, live
                 PROVE  m_frameId' = m_frameId
        OBVIOUS
    <2> USE DEF frameVars
    <2>1. CASE NewRoom
        BY <2>1 DEF NewRoom
    <2>2. CASE CommandStep
        BY <2>2, CommandSteps DEF CommandStep, RInv
    <2>3. CASE EmitFrame
        BY <2>3 DEF EmitFrame, RInv, LoopInv
    <2>4. CASE EndStep
        BY <2>4, EndKeeps DEF RawOver
    <2>5. CASE QuietStep
        BY <2>5, QuietKeeps
    <2> QED
        BY <2>1, <2>2, <2>3, <2>4, <2>5, StepKinds
<1> QED
    BY <1>1, RoomInductive, PTL DEF Spec, ForcedEndIsImmediate

-----------------------------------------------------------------------------
(* A room implements FrameLog.                                             *)

(* A room that was never made is a log that was never started.              *)
LEMMA LogInit == Init => Log!Init
BY DEF Init, Log!Init

(* A handler that appends a command is Accept.                              *)
LEMMA LogAccept ==
    ASSUME TypeOK, CommandStep
    PROVE  Log!Accept
<1>1. /\ live /\ UNCHANGED <<stateVars, frameVars, view, gateVars>>
      /\ \E c \in Cmds : AddCmd(c)
    BY CommandSteps DEF CommandStep
<1> QED
    BY <1>1 DEF AddCmd, Log!Accept, stateVars, frameVars, gateVars

(* A frame cut and broadcast is Seal.                                       *)
LEMMA LogSeal ==
    ASSUME TypeOK, LoopInv, FramesAreCuts, CutsBounded, EmitFrame
    PROVE  Log!Seal
<1>1. /\ live /\ cut' = Append(cut, Len(accepted))
      /\ view' = [r \in Rids |-> IF r \in m_pidConn \cap sess
                                 THEN view[r] \cup {NewFrame} ELSE view[r]]
      /\ UNCHANGED <<live, accepted, record>>
    BY DEF EmitFrame, LoopInv, stateVars, gateVars
<1>2. NewFrame = Log!NextFrame
    BY <1>1, FramesAtSeal
<1>3. m_pidConn \cap sess \in SUBSET Rids
    BY DEF TypeOK
<1> QED
    BY <1>1, <1>2, <1>3 DEF Log!Seal

(* The frames read from the record are frames of the log. *)
LEMMA RecordedFrames ==
    ASSUME TypeOK, FramesAreCuts, live, NEW D \in SUBSET DOMAIN m_allOperMap
    PROVE  /\ D \subseteq Log!FrameIds
           /\ {m_allOperMap[f] : f \in D} = {Log!Frame(f) : f \in D}
           /\ DOMAIN m_allOperMap = Log!FrameIds
<1>1. DOMAIN m_allOperMap = Log!FrameIds
    BY DEF FramesAreCuts, Log!FrameIds
<1>2. \A f \in D : m_allOperMap[f] = Log!Frame(f)
    BY DEF FramesAreCuts
<1> QED
    BY <1>1, <1>2

(* Messages 2002 and 2003 are Fetch: they send frames of the record.        *)
LEMMA LogFetch ==
    ASSUME TypeOK, FramesAreCuts, GetCacheFrames \/ GetFramesData
    PROVE  Log!Fetch
<1>1. live /\ UNCHANGED <<live, accepted, cut, record>>
    BY DEF GetCacheFrames, GetFramesData, stateVars, frameVars, cmdVars, gateVars
<1>2. PICK r \in Rids, D \in SUBSET DOMAIN m_allOperMap :
          view' = [view EXCEPT ![r] = @ \cup {m_allOperMap[f] : f \in D}]
    <2>1. CASE GetCacheFrames
        <3>1. PICK r \in m_ridPMap, begin \in 0..m_frameId :
                  view' = [view EXCEPT ![r] =
                      @ \cup {m_allOperMap[f] : f \in {g \in DOMAIN m_allOperMap : g >= begin}}]
            BY <2>1 DEF GetCacheFrames
        <3>2. {g \in DOMAIN m_allOperMap : g >= begin} \in SUBSET DOMAIN m_allOperMap /\ r \in Rids
            BY DEF TypeOK
        <3> QED
            BY <3>1, <3>2
    <2>2. CASE GetFramesData
        <3>1. PICK r \in m_ridPMap \cap sess, asked \in SUBSET (0..m_frameId) :
                  view' = [view EXCEPT ![r] =
                      @ \cup {m_allOperMap[f] : f \in asked \cap DOMAIN m_allOperMap}]
            BY <2>2 DEF GetFramesData
        <3>2. asked \cap DOMAIN m_allOperMap \in SUBSET DOMAIN m_allOperMap /\ r \in Rids
            BY DEF TypeOK
        <3> QED
            BY <3>1, <3>2
    <2> QED
        BY <2>1, <2>2
<1>3. /\ D \in SUBSET Log!FrameIds
      /\ {m_allOperMap[f] : f \in D} = {Log!Frame(f) : f \in D}
    BY <1>1, RecordedFrames
<1>4. view' = [view EXCEPT ![r] = @ \cup {Log!Frame(f) : f \in D}]
    BY <1>2, <1>3
<1> QED
    BY <1>1, <1>3, <1>4 DEF Log!Fetch

(* The end of a match is Close: the gate is sent the whole record.          *)
LEMMA LogClose ==
    ASSUME TypeOK, LoopInv, FramesAreCuts, EndStep
    PROVE  Log!Close
<1>1. live
    BY DEF EndStep, UpdateForced, UpdateEnd, LoopInv
<1>2. /\ record' = {m_allOperMap[f] : f \in DOMAIN m_allOperMap}
      /\ live' = FALSE /\ UNCHANGED <<accepted, cut, view>>
    BY EndKeeps DEF RawOver, cmdVars
<1>3. /\ {m_allOperMap[f] : f \in DOMAIN m_allOperMap}
             = {Log!Frame(f) : f \in DOMAIN m_allOperMap}
      /\ DOMAIN m_allOperMap = Log!FrameIds
    BY <1>1, RecordedFrames
<1>4. record' = {Log!Frame(f) : f \in Log!FrameIds}
    BY <1>2, <1>3
<1> QED
    BY <1>1, <1>2, <1>4 DEF Log!Close

(* Every step of a room is a step of the log, or leaves it alone.           *)
LEMMA LogStep ==
    ASSUME RInv, [Next]_vars
    PROVE  [Log!Next]_Log!vars
<1> USE DEF Log!Next, RInv
<1>1. CASE NewRoom
    <2>1. accepted' \in Seq(Cmds)
        BY <1>1, NewRoomTypes
    <2>2. Log!Start
        BY <1>1, <2>1 DEF NewRoom, Log!Start, gateVars
    <2> QED
        BY <2>2
<1>2. CASE CommandStep
    BY <1>2, LogAccept
<1>3. CASE EmitFrame
    BY <1>3, LogSeal
<1>4. CASE EndStep
    BY <1>4, LogClose
<1>5. CASE GetCacheFrames \/ GetFramesData
    BY <1>5, LogFetch
<1>6. CASE QuietStep /\ ~(GetCacheFrames \/ GetFramesData)
    <2>1. view' = view
        BY <1>6 DEF QuietStep, SetReady, Over, Advance, UpdateIdle, UpdateFirst, UpdateAdd,
           UpdateEnd, vars, clientVars
    <2>2. UNCHANGED <<live, frameVars, cmdVars, gateVars>>
        BY <1>6, QuietKeeps
    <2> QED
        BY <2>1, <2>2 DEF Log!vars, frameVars, cmdVars, gateVars
<1> QED
    BY <1>1, <1>2, <1>3, <1>4, <1>5, <1>6, StepKinds

(* What a room sends, records and hands to the gate are cuts of one         *)
(* sequence of commands: roomObj implements FrameLog.                       *)
THEOREM RoomKeepsOneLog == Spec => KeepsOneLog
<1>1. Init => Log!Init
    BY LogInit
<1>2. RInv /\ [Next]_vars => [Log!Next]_Log!vars
    BY LogStep
<1> QED
    BY <1>1, <1>2, RoomInductive, PTL DEF Spec, KeepsOneLog, Log!Spec
==============================================================================

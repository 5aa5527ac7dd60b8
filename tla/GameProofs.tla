----------------------------- MODULE GameProofs -----------------------------
(***************************************************************************)
(* Invariance proofs for Game, for any number of players, pids, rooms and  *)
(* sessions.  Part 1 shows that the game drives its session table only as  *)
(* KcpServer allows, so that the invariant of KcpServerProofs holds here   *)
(* too; Part 2 is about the operations of playerMgr, field by field; Part  *)
(* 3 about the players' maps under them; Part 4 takes the handlers and the *)
(* steps of the session table one by one.                                  *)
(***************************************************************************)
EXTENDS Game, KcpServerProofs

-----------------------------------------------------------------------------
(* The inductive invariant is that of KcpServerProofs and the conjuncts     *)
(* below with the properties of Game.  A player's sessions were bound to    *)
(* him, so they are numbered and no new connection takes their place; an    *)
(* entry of playerMgr names a player of that pid, so whoever is found under *)
(* his pid was the last to register with it, in his room as well; and what  *)
(* a room's RawOver removes is in no room.                                  *)

IsPlayer(m, p) == \E r \in Rids : m.m_ridPMap[r] # NULL /\ m.m_ridPMap[r] = p

(* PlayersSound, and: each player has a pid, and what is in the pool was a  *)
(* player's once.                                                           *)
Filed(m) ==
    /\ \A r \in Rids : m.m_ridPMap[r] # NULL =>
           LET o == m.obj[m.m_ridPMap[r]]
           IN  o.m_rid = r /\ o.m_pid \in Pids
    /\ \A q \in Pids : m.m_pidPMap[q] # NULL =>
           IsPlayer(m, m.m_pidPMap[q]) /\ m.obj[m.m_pidPMap[q]].m_pid = q
    /\ \A i, j \in DOMAIN m.m_pool : m.m_pool[i] = m.m_pool[j] => i = j
    /\ \A i \in DOMAIN m.m_pool : m.obj[m.m_pool[i]].m_rid # NULL
    /\ \A p \in Objs : m.obj[p].m_rid # NULL =>
           (IsPlayer(m, p) <=> p \notin Objects(m.m_pool))

(* A session a player has, or had, was bound. *)
SessionsBound == \A p \in Objs : pm.obj[p].m_sessid \in bound \cup {0}

(* Nobody is in two rooms. *)
OneRoom ==
    \A a, b \in RoomIds : Open(a) /\ Open(b) =>
        \A r \in Rids : rooms[a].m_ridPMap[r] # NULL /\ rooms[b].m_ridPMap[r] # NULL => a = b

(* While players are taken offline main does nothing else, and those who    *)
(* are to be removed are in no room.                                        *)
TodoInv ==
    /\ todo # {} => mainPc \in {"idle", "close"}
    /\ mainPc = "close" => current # NULL
    /\ removing => \A rm \in RoomIds : Open(rm) =>
                       \A r \in todo : rooms[rm].m_ridPMap[r] = NULL

(* The player being taken offline: his closeConn is for his session, whose  *)
(* entry is the connection it looked up until it is erased, and when it has *)
(* returned he has no open session.                                         *)
CurrentInv ==
    current # NULL =>
        LET s == pm.obj[current].m_sessid
        IN  /\ \E r \in todo : First(r) /\ pm.m_ridPMap[r] = current
            /\ pm.obj[current].m_off
            /\ mainPc = "idle" => rawGetConn(kcp, s) = NULL
            /\ mainPc = "close" =>
                   closing.sess = s /\ kcp.m_mapSessFd[s] \in {NULL, closing.conn}

PInv == GameTypeOK /\ Filed(pm)
RInv == RoomPlayersLive /\ OneRoom
SInv == SessionsBound /\ NoBoundLeak /\ FramesReach

GameInv == PInv /\ RInv /\ SInv /\ TodoInv /\ CurrentInv

GInv == IInv /\ GameInv

-----------------------------------------------------------------------------
(* Part 1: the session table.                                               *)

(* The types of the fields of playerMgr, without the record around them.    *)
LEMMA PmFields ==
    ASSUME NEW m \in PlayerMgr
    PROVE  /\ m.m_ridPMap \in [Rids -> Objs \cup {NULL}]
           /\ m.m_pidPMap \in [Pids -> Objs \cup {NULL}]
           /\ m.obj \in [Objs -> PlayerObj]
           /\ m.m_pool \in Seq(Objs)
BY DEF PlayerMgr

(* The types of the fields of a playerObj.                                  *)
LEMMA ObjFields ==
    ASSUME NEW m \in PlayerMgr, NEW p \in Objs
    PROVE  /\ m.obj[p].m_pid \in Pids \cup {NULL}
           /\ m.obj[p].m_rid \in Rids \cup {NULL}
           /\ m.obj[p].m_sessid \in 0..MaxSess
           /\ m.obj[p].m_off \in BOOLEAN
BY PmFields DEF PlayerObj

(* The types of the fields of an open room.                                 *)
LEMMA RoomFields ==
    ASSUME GameTypeOK, NEW rm \in RoomIds, Open(rm)
    PROVE  /\ rooms[rm] \in RoomObj
           /\ rooms[rm].m_ridPMap \in [Rids -> Objs \cup {NULL}]
           /\ rooms[rm].m_pidConn \in [Pids -> Conns \cup {NULL}]
<1>1. rooms[rm] \in RoomObj
    BY DEF GameTypeOK, Open
<1> QED
    BY <1>1 DEF RoomObj

(* A step of the game is a step of the session table, or leaves it alone:   *)
(* Offline() closes, and a registration replaces, only bound sessions.      *)
LEMMA GameStep ==
    ASSUME GameTypeOK, SessionsBound, [GameNext]_allVars
    PROVE  [Next]_vars
<1>1. CASE UNCHANGED allVars \/ NewRoom \/ OfflineP \/ RoomOver \/ OfflineNobody \/ OfflineDone
    BY <1>1 DEF allVars, NewRoom, OfflineP, RoomOver, OfflineNobody, OfflineDone
<1>2. CASE Offline
    <2>1. PICK r \in Rids : CloseOf(pm.obj[pm.m_ridPMap[r]].m_sessid)
        BY <1>2 DEF Offline
    <2>2. UNCHANGED vars \/ CloseLookup
        BY <2>1 DEF CloseOf
    <2> QED
        BY <2>2 DEF Next, MainNext
<1>3. CASE Reg
    <2>1. PICK fd \in Fds, rm \in RoomIds, r \in Rids :
              /\ mainPc = "update" /\ NextFd(fd)
              /\ Open(rm) /\ rooms[rm].m_ridPMap[r] # NULL
              /\ \E pid \in Pids :
                     LET p   == rooms[rm].m_ridPMap[r]
                         s   == kcp.conn[kcp.m_mapConn[fd]].m_id
                         old == pm.obj[p].m_sessid
                         m   == UpdatePlayer(pm, p, pid)
                     IN  /\ cursor' = fd
                         /\ kcp' = setSessid(kcp, old, s)
                         /\ IF setSessidAsserts(kcp, old, s)
                            THEN /\ mainPc' = mainPc /\ bound' = bound \cup {s}
                                 /\ pm' = [m EXCEPT !.obj[p].m_sessid = s,
                                                    !.obj[p].m_off = FALSE]
                                 /\ rooms' = [rooms EXCEPT ![rm] = EntersWith(@, p, pm')]
                            ELSE /\ mainPc' = "abort" /\ bound' = bound
                                 /\ UNCHANGED <<pm, rooms>>
        BY <1>3, Zenon DEF Reg
    <2> DEFINE s   == kcp.conn[kcp.m_mapConn[fd]].m_id
               old == pm.obj[rooms[rm].m_ridPMap[r]].m_sessid
    <2>2. /\ cursor' = fd /\ kcp' = setSessid(kcp, old, s)
          /\ IF setSessidAsserts(kcp, old, s) THEN mainPc' = mainPc /\ bound' = bound \cup {s}
                                             ELSE mainPc' = "abort" /\ bound' = bound
        BY <2>1
    <2>3. rooms[rm].m_ridPMap[r] \in Objs
        BY <2>1, RoomFields
    <2>4. old \in bound \cup {0}
        BY <2>3 DEF SessionsBound
    <2>5. UNCHANGED <<epPc, m_lastTick, delQue, closing, swept>>
        BY <1>3, Zenon DEF Reg
    <2> HIDE DEF old
    <2>6. UpdateReg
        BY <2>1, <2>2, <2>4, <2>5, Zenon DEF UpdateReg
    <2> QED
        BY <2>6 DEF Next, MainNext
<1>4. CASE Sessions
    BY <1>4 DEF Sessions, Next, MainNext
<1> QED
    BY <1>1, <1>2, <1>3, <1>4 DEF GameNext

(* What a step does to the sessions that were numbered before it: an entry  *)
(* of m_mapSessFd is erased or stays, never changed.                        *)
Fate == \A s \in Sess : s =< kcp.g_sess_id =>
            kcp'.m_mapSessFd[s] = NULL \/ kcp'.m_mapSessFd[s] = kcp.m_mapSessFd[s]

(* delConn erases at most.                                                  *)
LEMMA DelConnFate ==
    ASSUME Good(kcp), NEW fd \in Fds, kcp' = delConn(kcp, fd)
    PROVE  Fate
BY DelConnGood DEF Fate

(* acceptConn numbers a new session.                                        *)
LEMMA EpAcceptFate ==
    ASSUME Good(kcp), EpAccept
    PROVE  Fate
<1>1. PICK fd \in Fds \ kcp.fds, p \in popUDPConn(kcp) : kcp' = createConn(kcp, p, fd)
    BY DEF EpAccept
<1>2. p \in Conns /\ fd \in Fds /\ kcp \in Tables /\ kcp.g_sess_id < MaxSess
    BY <1>1, PopFree DEF EpAccept, Good
<1>3. \A s \in Sess : kcp'.m_mapSessFd[s] = IF s = kcp.g_sess_id + 1 THEN p
                                            ELSE kcp.m_mapSessFd[s]
    BY <1>1, <1>2, CreateConnFields
<1>4. kcp.g_sess_id \in Nat
    BY <1>2, TablesFields, ConnsAssumption
<1> QED
    BY <1>3, <1>4 DEF Fate, Sess

(* No step of KcpServer under the game changes an entry of a session.       *)
LEMMA SessionsFate ==
    ASSUME IInv, Sessions
    PROVE  Fate /\ bound' = bound
<1>1. Good(kcp)
    BY IInvGood
<1>2. CASE EpAccept
    BY <1>1, <1>2, EpAcceptFate DEF EpAccept
<1>3. CASE EpReap
    <2>1. PICK fd \in delQue : kcp' = delConn(kcp, fd)
        BY <1>3 DEF EpReap
    <2>2. fd \in Fds
        BY DEF IInv, TypeOK
    <2> QED
        BY <1>1, <1>3, <2>1, <2>2, DelConnFate DEF EpReap
<1>4. CASE CloseDelete
    <2>1. kcp.conn[closing.conn].m_fd \in Fds
        BY <1>4 DEF CloseDelete, IInv, CloseInv
    <2> QED
        BY <1>1, <1>4, <2>1, DelConnFate DEF CloseDelete
<1>5. CASE Expire
    <2>1. kcp'.m_mapSessFd = kcp.m_mapSessFd
        BY <1>1, <1>5 DEF Expire, Good, Tables
    <2> QED
        BY <1>5, <2>1 DEF Expire, Fate
<1>6. CASE EpWake \/ EpCheckTimeout \/ EpDone \/ UpdateBegin \/ UpdateConn
              \/ UpdateEnd \/ FreqElapsed
    BY <1>6 DEF EpWake, EpCheckTimeout, EpDone, UpdateBegin, UpdateConn, UpdateEnd,
                FreqElapsed, Fate
<1> QED
    BY <1>2, <1>3, <1>4, <1>5, <1>6 DEF Sessions, EpNext, ClockNext

-----------------------------------------------------------------------------
(* Part 2: the operations of playerMgr, field by field.                     *)


(* One field of playerMgr replaced by another of its type. *)
LEMMA SetField ==
    ASSUME NEW m \in PlayerMgr
    PROVE  /\ \A x \in [Rids -> Objs \cup {NULL}] :
                  LET d == [m EXCEPT !.m_ridPMap = x]
                  IN  /\ d \in PlayerMgr /\ d.m_ridPMap = x /\ d.m_pidPMap = m.m_pidPMap
                      /\ d.obj = m.obj /\ d.m_pool = m.m_pool
           /\ \A x \in [Pids -> Objs \cup {NULL}] :
                  LET d == [m EXCEPT !.m_pidPMap = x]
                  IN  /\ d \in PlayerMgr /\ d.m_ridPMap = m.m_ridPMap /\ d.m_pidPMap = x
                      /\ d.obj = m.obj /\ d.m_pool = m.m_pool
           /\ \A x \in [Objs -> PlayerObj] :
                  LET d == [m EXCEPT !.obj = x]
                  IN  /\ d \in PlayerMgr /\ d.m_ridPMap = m.m_ridPMap
                      /\ d.m_pidPMap = m.m_pidPMap /\ d.obj = x /\ d.m_pool = m.m_pool
           /\ \A x \in Seq(Objs) :
                  LET d == [m EXCEPT !.m_pool = x]
                  IN  /\ d \in PlayerMgr /\ d.m_ridPMap = m.m_ridPMap
                      /\ d.m_pidPMap = m.m_pidPMap /\ d.obj = m.obj /\ d.m_pool = x
BY DEF PlayerMgr

(* One field of a playerObj replaced by another of its type.                *)
LEMMA SetObjField ==
    ASSUME NEW r \in PlayerObj
    PROVE  /\ \A x \in Pids :
                  LET d == [r EXCEPT !.m_pid = x]
                  IN  /\ d \in PlayerObj /\ d.m_pid = x /\ d.m_rid = r.m_rid
                      /\ d.m_sessid = r.m_sessid
           /\ \A x \in 0..MaxSess :
                  LET d == [r EXCEPT !.m_sessid = x]
                  IN  /\ d \in PlayerObj /\ d.m_pid = r.m_pid /\ d.m_rid = r.m_rid
                      /\ d.m_sessid = x
           /\ LET d == [r EXCEPT !.m_off = TRUE]
              IN  /\ d \in PlayerObj /\ d.m_pid = r.m_pid /\ d.m_rid = r.m_rid
                  /\ d.m_sessid = r.m_sessid /\ d.m_off
           /\ LET d == [r EXCEPT !.m_off = FALSE]
              IN  /\ d \in PlayerObj /\ d.m_pid = r.m_pid /\ d.m_rid = r.m_rid
                  /\ d.m_sessid = r.m_sessid /\ ~d.m_off
BY DEF PlayerObj

(* Offline() marks one object.                                              *)
LEMMA OffFields ==
    ASSUME NEW m \in PlayerMgr, NEW p \in Objs
    PROVE  LET d == [m EXCEPT !.obj[p].m_off = TRUE]
           IN  /\ d \in PlayerMgr
               /\ d.m_ridPMap = m.m_ridPMap /\ d.m_pidPMap = m.m_pidPMap
               /\ d.m_pool = m.m_pool
               /\ d.obj[p].m_off
               /\ \A o \in Objs : /\ d.obj[o].m_pid = m.obj[o].m_pid
                                  /\ d.obj[o].m_rid = m.obj[o].m_rid
                                  /\ d.obj[o].m_sessid = m.obj[o].m_sessid
                                  /\ o # p => d.obj[o] = m.obj[o]
<1> DEFINE rec == [m.obj[p] EXCEPT !.m_off = TRUE]
           obj == [m.obj EXCEPT ![p] = rec]
           d   == [m EXCEPT !.obj[p].m_off = TRUE]
<1>1. m.obj \in [Objs -> PlayerObj] /\ m.obj[p] \in PlayerObj
    BY PmFields
<1>2. d = [m EXCEPT !.obj = obj]
    OBVIOUS
<1>3. /\ rec \in PlayerObj /\ rec.m_off
      /\ rec.m_pid = m.obj[p].m_pid /\ rec.m_rid = m.obj[p].m_rid
      /\ rec.m_sessid = m.obj[p].m_sessid
    BY <1>1, SetObjField
<1> HIDE DEF rec
<1>4. /\ obj \in [Objs -> PlayerObj]
      /\ \A o \in Objs : obj[o] = IF o = p THEN rec ELSE m.obj[o]
    BY <1>1, <1>3
<1> HIDE DEF obj, d
<1>5. /\ d \in PlayerMgr /\ d.m_ridPMap = m.m_ridPMap /\ d.m_pidPMap = m.m_pidPMap
      /\ d.obj = obj /\ d.m_pool = m.m_pool
    BY <1>2, <1>4, SetField
<1> QED
    BY <1>3, <1>4, <1>5 DEF d

(* RemoveP takes the entries of one object out of both maps and pools it.   *)
LEMMA EraseFields ==
    ASSUME NEW m \in PlayerMgr, NEW p \in Objs
    PROVE  LET d == Erase(m, p)
           IN  /\ d \in PlayerMgr
               /\ \A r \in Rids : d.m_ridPMap[r] = IF r = m.obj[p].m_rid THEN NULL
                                                   ELSE m.m_ridPMap[r]
               /\ \A q \in Pids : d.m_pidPMap[q] = IF q = m.obj[p].m_pid THEN NULL
                                                   ELSE m.m_pidPMap[q]
               /\ d.obj = m.obj
               /\ d.m_pool = Append(m.m_pool, p)
<1> DEFINE rid  == [m.m_ridPMap EXCEPT ![m.obj[p].m_rid] = NULL]
           pid  == [m.m_pidPMap EXCEPT ![m.obj[p].m_pid] = NULL]
           pool == Append(m.m_pool, p)
           m1   == [m EXCEPT !.m_ridPMap = rid]
           m2   == [m1 EXCEPT !.m_pidPMap = pid]
           d    == [m2 EXCEPT !.m_pool = pool]
<1>1. /\ rid \in [Rids -> Objs \cup {NULL}]
      /\ \A r \in Rids : rid[r] = IF r = m.obj[p].m_rid THEN NULL ELSE m.m_ridPMap[r]
    BY PmFields
<1>2. /\ pid \in [Pids -> Objs \cup {NULL}]
      /\ \A q \in Pids : pid[q] = IF q = m.obj[p].m_pid THEN NULL ELSE m.m_pidPMap[q]
    BY PmFields
<1>3. pool \in Seq(Objs)
    BY PmFields
<1>4. Erase(m, p) = d
    BY DEF Erase, PlayerMgr
<1> HIDE DEF rid, pid
<1>5. /\ m1 \in PlayerMgr /\ m1.m_ridPMap = rid /\ m1.m_pidPMap = m.m_pidPMap
      /\ m1.obj = m.obj /\ m1.m_pool = m.m_pool
    BY <1>1, SetField
<1> HIDE DEF m1
<1>6. /\ m2 \in PlayerMgr /\ m2.m_ridPMap = rid /\ m2.m_pidPMap = pid
      /\ m2.obj = m.obj /\ m2.m_pool = m.m_pool
    BY <1>2, <1>5, SetField
<1> HIDE DEF m2, pool
<1>7. /\ d \in PlayerMgr /\ d.m_ridPMap = rid /\ d.m_pidPMap = pid
      /\ d.obj = m.obj /\ d.m_pool = pool
    BY <1>3, <1>6, SetField
<1> QED
    BY <1>1, <1>2, <1>4, <1>7 DEF pool

(* AppendP files an object under its rid and its pid.                       *)
LEMMA AppendFields ==
    ASSUME NEW m \in PlayerMgr, NEW p \in Objs
    PROVE  LET d == AppendP(m, p)
           IN  /\ d \in PlayerMgr
               /\ \A r \in Rids : d.m_ridPMap[r] = IF r = m.obj[p].m_rid THEN p
                                                   ELSE m.m_ridPMap[r]
               /\ \A q \in Pids : d.m_pidPMap[q] = IF q = m.obj[p].m_pid THEN p
                                                   ELSE m.m_pidPMap[q]
               /\ d.obj = m.obj /\ d.m_pool = m.m_pool
<1> DEFINE rid  == [m.m_ridPMap EXCEPT ![m.obj[p].m_rid] = p]
           pid  == [m.m_pidPMap EXCEPT ![m.obj[p].m_pid] = p]
           m1   == [m EXCEPT !.m_ridPMap = rid]
           d    == [m1 EXCEPT !.m_pidPMap = pid]
<1>1. /\ rid \in [Rids -> Objs \cup {NULL}]
      /\ \A r \in Rids : rid[r] = IF r = m.obj[p].m_rid THEN p ELSE m.m_ridPMap[r]
    BY PmFields
<1>2. /\ pid \in [Pids -> Objs \cup {NULL}]
      /\ \A q \in Pids : pid[q] = IF q = m.obj[p].m_pid THEN p ELSE m.m_pidPMap[q]
    BY PmFields
<1>3. AppendP(m, p) = d
    BY DEF AppendP, PlayerMgr
<1> HIDE DEF rid, pid
<1>4. /\ m1 \in PlayerMgr /\ m1.m_ridPMap = rid /\ m1.m_pidPMap = m.m_pidPMap
      /\ m1.obj = m.obj /\ m1.m_pool = m.m_pool
    BY <1>1, SetField
<1> HIDE DEF m1
<1>5. /\ d \in PlayerMgr /\ d.m_ridPMap = rid /\ d.m_pidPMap = pid
      /\ d.obj = m.obj /\ d.m_pool = m.m_pool
    BY <1>2, <1>4, SetField
<1> QED
    BY <1>1, <1>2, <1>3, <1>5

(* What a registration makes of playerMgr: UpdatePlayer with the pid of the *)
(* message, then the session s.                                             *)
Registers(m, p, pid, s) ==
    [UpdatePlayer(m, p, pid) EXCEPT !.obj[p].m_sessid = s, !.obj[p].m_off = FALSE]

(* A registration files the object under its rid and the new pid, and no    *)
(* longer under the old one.                                                *)
LEMMA RegistersFields ==
    ASSUME NEW m \in PlayerMgr, NEW p \in Objs, NEW pid \in Pids, NEW s \in 0..MaxSess
    PROVE  LET d == Registers(m, p, pid, s)
           IN  /\ d \in PlayerMgr
               /\ \A r \in Rids : d.m_ridPMap[r] = IF r = m.obj[p].m_rid THEN p
                                                   ELSE m.m_ridPMap[r]
               /\ \A q \in Pids : d.m_pidPMap[q] = IF q = pid THEN p
                                                   ELSE IF q = m.obj[p].m_pid THEN NULL
                                                   ELSE m.m_pidPMap[q]
               /\ d.obj[p].m_pid = pid /\ d.obj[p].m_rid = m.obj[p].m_rid
               /\ d.obj[p].m_sessid = s /\ ~d.obj[p].m_off
               /\ \A o \in Objs : o # p => d.obj[o] = m.obj[o]
               /\ d.m_pool = m.m_pool
<1> DEFINE gone == [m.m_pidPMap EXCEPT ![m.obj[p].m_pid] = NULL]
           rec1 == [m.obj[p] EXCEPT !.m_pid = pid]
           obj1 == [m.obj EXCEPT ![p] = rec1]
           m1   == [m EXCEPT !.m_pidPMap = gone]
           m2   == [m1 EXCEPT !.obj = obj1]
           m3   == AppendP(m2, p)
           rec2 == [rec1 EXCEPT !.m_sessid = s]
           rec  == [rec2 EXCEPT !.m_off = FALSE]
           obj  == [obj1 EXCEPT ![p] = rec]
           d    == [m3 EXCEPT !.obj = obj]
<1>1. /\ m.obj \in [Objs -> PlayerObj] /\ m.obj[p] \in PlayerObj
      /\ m.m_pidPMap \in [Pids -> Objs \cup {NULL}]
    BY PmFields
<1>2. UpdatePlayer(m, p, pid) = m3
    <2>1. [m EXCEPT !.m_pidPMap[m.obj[p].m_pid] = NULL, !.obj[p].m_pid = pid] = m2
        BY DEF PlayerMgr
    <2> QED
        BY <2>1 DEF UpdatePlayer
<1>3. /\ gone \in [Pids -> Objs \cup {NULL}]
      /\ \A q \in Pids : gone[q] = IF q = m.obj[p].m_pid THEN NULL ELSE m.m_pidPMap[q]
    BY <1>1
<1>4. /\ rec1 \in PlayerObj /\ rec1.m_pid = pid /\ rec1.m_rid = m.obj[p].m_rid
    BY <1>1, SetObjField
<1> HIDE DEF rec1, gone
<1>5. /\ obj1 \in [Objs -> PlayerObj]
      /\ obj1[p] = rec1
      /\ \A o \in Objs : o # p => obj1[o] = m.obj[o]
    BY <1>1, <1>4
<1> HIDE DEF obj1
<1>6. /\ m1 \in PlayerMgr /\ m1.m_ridPMap = m.m_ridPMap /\ m1.m_pidPMap = gone
      /\ m1.obj = m.obj /\ m1.m_pool = m.m_pool
    BY <1>3, SetField
<1> HIDE DEF m1
<1>7. /\ m2 \in PlayerMgr /\ m2.m_ridPMap = m.m_ridPMap /\ m2.m_pidPMap = gone
      /\ m2.obj = obj1 /\ m2.m_pool = m.m_pool
    BY <1>5, <1>6, SetField
<1> HIDE DEF m2
<1>8. /\ m3 \in PlayerMgr
      /\ \A r \in Rids : m3.m_ridPMap[r] = IF r = m.obj[p].m_rid THEN p
                                           ELSE m.m_ridPMap[r]
      /\ \A q \in Pids : m3.m_pidPMap[q] = IF q = pid THEN p
                                           ELSE IF q = m.obj[p].m_pid THEN NULL
                                           ELSE m.m_pidPMap[q]
      /\ m3.obj = obj1 /\ m3.m_pool = m.m_pool
    BY <1>3, <1>4, <1>5, <1>7, AppendFields
<1> HIDE DEF m3
<1>9. rec2 \in PlayerObj /\ rec2.m_pid = pid /\ rec2.m_rid = m.obj[p].m_rid /\ rec2.m_sessid = s
    BY <1>4, SetObjField
<1> HIDE DEF rec2
<1>10. /\ rec \in PlayerObj /\ rec.m_pid = pid /\ rec.m_rid = m.obj[p].m_rid
       /\ rec.m_sessid = s /\ ~rec.m_off
    BY <1>9, SetObjField
<1>11. Registers(m, p, pid, s) = d
    BY <1>2, <1>5, <1>8 DEF Registers, PlayerMgr, rec2
<1> HIDE DEF rec
<1>12. /\ obj \in [Objs -> PlayerObj]
       /\ obj[p] = rec
       /\ \A o \in Objs : o # p => obj[o] = m.obj[o]
    BY <1>5, <1>10
<1> HIDE DEF obj
<1>13. /\ d \in PlayerMgr /\ d.m_ridPMap = m3.m_ridPMap /\ d.m_pidPMap = m3.m_pidPMap
       /\ d.obj = obj /\ d.m_pool = m3.m_pool
    BY <1>8, <1>12, SetField
<1> QED
    BY <1>8, <1>10, <1>11, <1>12, <1>13

(* EnterP files the player in the room, and his connection under his pid.   *)
LEMMA EntersFields ==
    ASSUME NEW room \in RoomObj, NEW m \in PlayerMgr, NEW p \in Objs,
           m.obj[p].m_sessid \in Sess, kcp' \in Tables
    PROVE  LET d == EntersWith(room, p, m)
           IN  /\ d \in RoomObj
               /\ \A r \in Rids : d.m_ridPMap[r] = IF r = m.obj[p].m_rid THEN p
                                                   ELSE room.m_ridPMap[r]
               /\ \A q \in Pids : d.m_pidConn[q] = IF q = m.obj[p].m_pid
                                                   THEN kcp'.m_mapSessFd[m.obj[p].m_sessid]
                                                   ELSE room.m_pidConn[q]
<1> DEFINE c   == kcp'.m_mapSessFd[m.obj[p].m_sessid]
           rid == [room.m_ridPMap EXCEPT ![m.obj[p].m_rid] = p]
           pid == [room.m_pidConn EXCEPT ![m.obj[p].m_pid] = c]
           r1  == [room EXCEPT !.m_ridPMap = rid]
           d   == [r1 EXCEPT !.m_pidConn = pid]
<1>1. c \in Conns \cup {NULL}
    BY TablesFields
<1>2. EntersWith(room, p, m) = d
    BY DEF EntersWith, RoomObj
<1> HIDE DEF c
<1>3. /\ rid \in [Rids -> Objs \cup {NULL}]
      /\ \A r \in Rids : rid[r] = IF r = m.obj[p].m_rid THEN p ELSE room.m_ridPMap[r]
    BY DEF RoomObj
<1>4. /\ pid \in [Pids -> Conns \cup {NULL}]
      /\ \A q \in Pids : pid[q] = IF q = m.obj[p].m_pid THEN c ELSE room.m_pidConn[q]
    BY <1>1 DEF RoomObj
<1> HIDE DEF rid, pid
<1>5. r1 \in RoomObj /\ r1.m_ridPMap = rid
    BY <1>3 DEF RoomObj
<1> HIDE DEF r1
<1>6. d \in RoomObj /\ d.m_ridPMap = rid /\ d.m_pidConn = pid
    BY <1>4, <1>5 DEF RoomObj
<1> QED
    BY <1>2, <1>3, <1>4, <1>6 DEF c

(* An element of a sequence.                                                *)
LEMMA ElementOf ==
    ASSUME NEW S, NEW q \in Seq(S), NEW i \in DOMAIN q
    PROVE  q[i] \in S
OBVIOUS

(* A roster names players and pids once.                                    *)
LEMMA RosterFields ==
    ASSUME NEW ros \in Rosters
    PROVE  /\ DOMAIN ros = 1..Len(ros) /\ Len(ros) \in Nat
           /\ \A i \in DOMAIN ros : ros[i].rid \in Rids /\ ros[i].pid \in Pids
           /\ \A i, j \in DOMAIN ros : ros[i].rid = ros[j].rid => i = j
           /\ \A i, j \in DOMAIN ros : ros[i].pid = ros[j].pid => i = j
<1>1. /\ ros \in Seq([rid : Rids, pid : Pids])
      /\ \A i, j \in DOMAIN ros : ros[i].rid = ros[j].rid \/ ros[i].pid = ros[j].pid => i = j
    BY GameAssumption
<1>2. \A i \in DOMAIN ros : ros[i] \in [rid : Rids, pid : Pids]
    BY <1>1, ElementOf
<1>3. \A i \in DOMAIN ros : ros[i].rid \in Rids /\ ros[i].pid \in Pids
    BY <1>2
<1> QED
    BY <1>1, <1>3

(* The objects popPlayer gives are different objects that nobody has: the   *)
(* front of the pool, and then objects that were never a player's.          *)
LEMMA PopFields ==
    ASSUME NEW m \in PlayerMgr, NEW n \in Nat, NEW g \in popPlayer(m, n)
    PROVE  /\ g \in [1..n -> Objs]
           /\ \A i, j \in 1..n : g[i] = g[j] => i = j
           /\ \A i \in 1..n : \/ i \in DOMAIN m.m_pool /\ g[i] = m.m_pool[i]
                              \/ i > Len(m.m_pool) /\ m.obj[g[i]].m_rid = NULL
<1>1. m.m_pool \in Seq(Objs)
    BY PmFields
<1>2. \A i \in 1..n : i \notin DOMAIN m.m_pool => i > Len(m.m_pool)
    BY <1>1
<1> QED
    BY <1>2 DEF popPlayer

(* What NewRoom makes of playerMgr, entry by entry and object by object.    *)
LEMMA JoinFields ==
    ASSUME NEW m \in PlayerMgr, NEW ros \in Rosters, NEW g \in popPlayer(m, Len(ros))
    PROVE  LET d == Join(m, ros, g)
           IN  /\ d \in PlayerMgr
               /\ \A i \in DOMAIN ros :
                      /\ d.m_ridPMap[ros[i].rid] = g[i] /\ d.m_pidPMap[ros[i].pid] = g[i]
                      /\ d.obj[g[i]].m_rid = ros[i].rid /\ d.obj[g[i]].m_pid = ros[i].pid
                      /\ d.obj[g[i]].m_sessid = 0
               /\ \A r \in Rids : (\A i \in DOMAIN ros : ros[i].rid # r)
                                      => d.m_ridPMap[r] = m.m_ridPMap[r]
               /\ \A q \in Pids : (\A i \in DOMAIN ros : ros[i].pid # q)
                                      => d.m_pidPMap[q] = m.m_pidPMap[q]
               /\ \A o \in Objs : (\A i \in DOMAIN ros : g[i] # o)
                                      => d.obj[o] = m.obj[o]
               /\ d.m_pool = SubSeq(m.m_pool, Len(ros) + 1, Len(m.m_pool))
<1> DEFINE ofRid(r) == CHOOSE i \in DOMAIN ros : ros[i].rid = r
           ofPid(q) == CHOOSE i \in DOMAIN ros : ros[i].pid = q
           ofObj(o) == CHOOSE i \in DOMAIN ros : g[i] = o
           made(o) == [m_pid |-> ros[ofObj(o)].pid, m_rid |-> ros[ofObj(o)].rid,
                       m_sessid |-> 0, m_off |-> FALSE]
           rid == [r \in Rids |-> IF \E i \in DOMAIN ros : ros[i].rid = r
                                  THEN g[ofRid(r)] ELSE m.m_ridPMap[r]]
           pid == [q \in Pids |-> IF \E i \in DOMAIN ros : ros[i].pid = q
                                  THEN g[ofPid(q)] ELSE m.m_pidPMap[q]]
           obj == [o \in Objs |-> IF \E i \in DOMAIN ros : g[i] = o
                                  THEN made(o) ELSE m.obj[o]]
           pool == SubSeq(m.m_pool, Len(ros) + 1, Len(m.m_pool))
           d    == Join(m, ros, g)
<1>1. d = [m_ridPMap |-> rid, m_pidPMap |-> pid, obj |-> obj, m_pool |-> pool]
    BY DEF Join
<1>2. /\ DOMAIN ros = 1..Len(ros) /\ Len(ros) \in Nat
      /\ \A i \in DOMAIN ros : ros[i].rid \in Rids /\ ros[i].pid \in Pids
      /\ \A i, j \in DOMAIN ros : ros[i].rid = ros[j].rid => i = j
      /\ \A i, j \in DOMAIN ros : ros[i].pid = ros[j].pid => i = j
    BY RosterFields
<1>3. /\ g \in [DOMAIN ros -> Objs]
      /\ \A i, j \in DOMAIN ros : g[i] = g[j] => i = j
    BY <1>2, PopFields
<1>4. \A i \in DOMAIN ros : /\ ofRid(ros[i].rid) = i /\ ofPid(ros[i].pid) = i
                            /\ ofObj(g[i]) = i
    BY <1>2, <1>3
<1>5. \A r \in Rids : (\E i \in DOMAIN ros : ros[i].rid = r) => ofRid(r) \in DOMAIN ros
    BY <1>4
<1>6. \A q \in Pids : (\E i \in DOMAIN ros : ros[i].pid = q) => ofPid(q) \in DOMAIN ros
    BY <1>4
<1>7. \A o \in Objs : (\E i \in DOMAIN ros : g[i] = o) => ofObj(o) \in DOMAIN ros
    BY <1>4
<1> HIDE DEF ofRid, ofPid, ofObj
<1>8. \A o \in Objs : (\E i \in DOMAIN ros : g[i] = o) =>
          /\ made(o) \in PlayerObj
          /\ made(o).m_pid = ros[ofObj(o)].pid /\ made(o).m_rid = ros[ofObj(o)].rid
          /\ made(o).m_sessid = 0
    BY <1>2, <1>7, ConnsAssumption DEF PlayerObj
<1> HIDE DEF made
<1>9. /\ rid \in [Rids -> Objs \cup {NULL}]
      /\ \A i \in DOMAIN ros : rid[ros[i].rid] = g[i]
      /\ \A r \in Rids : (\A i \in DOMAIN ros : ros[i].rid # r) => rid[r] = m.m_ridPMap[r]
    BY <1>2, <1>3, <1>4, <1>5, PmFields
<1>10. /\ pid \in [Pids -> Objs \cup {NULL}]
       /\ \A i \in DOMAIN ros : pid[ros[i].pid] = g[i]
       /\ \A q \in Pids : (\A i \in DOMAIN ros : ros[i].pid # q) => pid[q] = m.m_pidPMap[q]
    BY <1>2, <1>3, <1>4, <1>6, PmFields
<1>11. /\ obj \in [Objs -> PlayerObj]
       /\ \A i \in DOMAIN ros : obj[g[i]] = made(g[i])
       /\ \A o \in Objs : (\A i \in DOMAIN ros : g[i] # o) => obj[o] = m.obj[o]
    BY <1>3, <1>8, PmFields
<1>12. pool \in Seq(Objs)
    BY <1>2, PmFields
<1> HIDE DEF rid, pid, obj, d
<1>13. d \in PlayerMgr
    BY <1>1, <1>9, <1>10, <1>11, <1>12 DEF PlayerMgr
<1>14. \A i \in DOMAIN ros : /\ d.obj[g[i]].m_rid = ros[i].rid
                             /\ d.obj[g[i]].m_pid = ros[i].pid
                             /\ d.obj[g[i]].m_sessid = 0
    BY <1>1, <1>3, <1>4, <1>8, <1>11
<1> QED
    BY <1>1, <1>9, <1>10, <1>11, <1>13, <1>14 DEF d

-----------------------------------------------------------------------------
(* Part 3: what the operations of playerMgr do to Filed.                    *)

(* A player of Filed tables, with the pid he is filed under.                *)
LEMMA PlayerFacts ==
    ASSUME NEW m \in PlayerMgr, Filed(m), NEW r \in Rids, m.m_ridPMap[r] # NULL
    PROVE  LET p == m.m_ridPMap[r]
           IN  /\ p \in Objs /\ IsPlayer(m, p)
               /\ m.obj[p].m_rid = r /\ m.obj[p].m_rid # NULL
               /\ m.obj[p].m_pid \in Pids
               /\ p \notin Objects(m.m_pool)
<1>1. m.m_ridPMap[r] \in Objs
    BY PmFields
<1>2. NULL \notin Rids
    BY GameAssumption
<1>3. IsPlayer(m, m.m_ridPMap[r])
    BY DEF IsPlayer
<1> QED
    BY <1>1, <1>2, <1>3 DEF Filed

(* Offline() changes no entry.                                              *)
LEMMA OffFiled ==
    ASSUME NEW m \in PlayerMgr, Filed(m), NEW p \in Objs
    PROVE  Filed([m EXCEPT !.obj[p].m_off = TRUE])
<1> DEFINE d == [m EXCEPT !.obj[p].m_off = TRUE]
<1>1. /\ d.m_ridPMap = m.m_ridPMap /\ d.m_pidPMap = m.m_pidPMap /\ d.m_pool = m.m_pool
      /\ \A o \in Objs : d.obj[o].m_pid = m.obj[o].m_pid /\ d.obj[o].m_rid = m.obj[o].m_rid
    BY OffFields
<1> HIDE DEF d
<1>2. /\ \A r \in Rids : m.m_ridPMap[r] # NULL => m.m_ridPMap[r] \in Objs
      /\ \A q \in Pids : m.m_pidPMap[q] # NULL => m.m_pidPMap[q] \in Objs
      /\ \A i \in DOMAIN m.m_pool : m.m_pool[i] \in Objs
    BY PmFields, ElementOf
<1>3. \A o \in Objs : IsPlayer(d, o) <=> IsPlayer(m, o)
    BY <1>1 DEF IsPlayer
<1>4. Filed(d)
    BY <1>1, <1>2, <1>3 DEF Filed
<1> QED
    BY <1>4 DEF d

(* RemoveP takes a player out of both maps, and pools his object.           *)
LEMMA EraseFiled ==
    ASSUME NEW m \in PlayerMgr, Filed(m), NEW r0 \in Rids, m.m_ridPMap[r0] # NULL
    PROVE  Filed(Erase(m, m.m_ridPMap[r0]))
<1> DEFINE p == m.m_ridPMap[r0]
           d == Erase(m, p)
           q0 == m.obj[p].m_pid
           n == Len(m.m_pool)
<1>1. /\ p \in Objs /\ m.obj[p].m_rid = r0 /\ r0 # NULL
      /\ q0 \in Pids /\ p \notin Objects(m.m_pool)
    BY PlayerFacts
<1>2. /\ \A r \in Rids : d.m_ridPMap[r] = IF r = r0 THEN NULL ELSE m.m_ridPMap[r]
      /\ \A q \in Pids : d.m_pidPMap[q] = IF q = q0 THEN NULL ELSE m.m_pidPMap[q]
      /\ d.obj = m.obj /\ d.m_pool = Append(m.m_pool, p)
    BY <1>1, EraseFields
<1>3. /\ n \in Nat /\ DOMAIN m.m_pool = 1..n /\ DOMAIN d.m_pool = 1..(n + 1)
      /\ \A i \in 1..n : d.m_pool[i] = m.m_pool[i] /\ m.m_pool[i] \in Objs
      /\ d.m_pool[n + 1] = p
      /\ \A i \in 1..(n + 1) : i \in 1..n \/ i = n + 1
    <2>1. m.m_pool \in Seq(Objs)
        BY PmFields
    <2> HIDE DEF d
    <2> QED
        BY <1>2, <2>1
<1> HIDE DEF d, p, q0, n
<1>4. Objects(d.m_pool) = Objects(m.m_pool) \cup {p}
    BY <1>3 DEF Objects
<1>5. ASSUME NEW r \in Rids, d.m_ridPMap[r] # NULL
      PROVE  LET o == d.obj[d.m_ridPMap[r]]
             IN  o.m_rid = r /\ o.m_pid \in Pids
    <2>1. d.m_ridPMap[r] = m.m_ridPMap[r] /\ m.m_ridPMap[r] # NULL
        BY <1>2, <1>5
    <2> QED
        BY <1>2, <2>1, PlayerFacts
<1>6. ASSUME NEW o, o # p
      PROVE  IsPlayer(d, o) <=> IsPlayer(m, o)
    BY <1>2, <1>6 DEF IsPlayer, p
<1>7. ~IsPlayer(d, p)
    BY <1>1, <1>2, PlayerFacts DEF IsPlayer
<1>8. ASSUME NEW q \in Pids, d.m_pidPMap[q] # NULL
      PROVE  IsPlayer(d, d.m_pidPMap[q]) /\ d.obj[d.m_pidPMap[q]].m_pid = q
    <2>1. q # q0 /\ d.m_pidPMap[q] = m.m_pidPMap[q] /\ m.m_pidPMap[q] # NULL
        BY <1>2, <1>8
    <2>2. IsPlayer(m, m.m_pidPMap[q]) /\ m.obj[m.m_pidPMap[q]].m_pid = q
        BY <2>1 DEF Filed
    <2>3. m.m_pidPMap[q] # p
        BY <2>1, <2>2 DEF q0
    <2> QED
        BY <1>2, <1>6, <2>1, <2>2, <2>3
<1>9. \A i, j \in DOMAIN d.m_pool : d.m_pool[i] = d.m_pool[j] => i = j
    <2>1. \A i, j \in 1..n : m.m_pool[i] = m.m_pool[j] => i = j
        BY <1>3 DEF Filed
    <2>2. \A i \in 1..n : m.m_pool[i] # p
        BY <1>1, <1>3 DEF Objects
    <2> QED
        BY <1>3, <2>1, <2>2
<1>10. \A i \in DOMAIN d.m_pool : d.obj[d.m_pool[i]].m_rid # NULL
    BY <1>1, <1>2, <1>3 DEF Filed
<1>11. \A o \in Objs : d.obj[o].m_rid # NULL =>
           (IsPlayer(d, o) <=> o \notin Objects(d.m_pool))
    <2>1. \A o \in Objs : m.obj[o].m_rid # NULL =>
              (IsPlayer(m, o) <=> o \notin Objects(m.m_pool))
        BY DEF Filed
    <2> QED
        BY <1>2, <1>4, <1>6, <1>7, <2>1
<1>12. Filed(d)
    BY <1>5, <1>8, <1>9, <1>10, <1>11 DEF Filed
<1> QED
    BY <1>12 DEF d, p

(* A registration moves a player to any pid, also one that another has: the *)
(* entry of it is his then.                                                 *)
LEMMA RegistersFiled ==
    ASSUME NEW m \in PlayerMgr, Filed(m), NEW r0 \in Rids, m.m_ridPMap[r0] # NULL,
           NEW pid \in Pids, NEW s \in 0..MaxSess
    PROVE  Filed(Registers(m, m.m_ridPMap[r0], pid, s))
<1> DEFINE p == m.m_ridPMap[r0]
           d == Registers(m, p, pid, s)
           q0 == m.obj[p].m_pid
<1>1. /\ p \in Objs /\ m.obj[p].m_rid = r0 /\ r0 # NULL /\ p # NULL
      /\ q0 \in Pids
    BY PlayerFacts
<1>2. /\ \A r \in Rids : d.m_ridPMap[r] = IF r = r0 THEN p ELSE m.m_ridPMap[r]
      /\ \A q \in Pids : d.m_pidPMap[q] = IF q = pid THEN p ELSE IF q = q0 THEN NULL
                                          ELSE m.m_pidPMap[q]
      /\ d.obj[p].m_pid = pid /\ d.obj[p].m_rid = r0
      /\ \A o \in Objs : o # p => d.obj[o] = m.obj[o]
      /\ d.m_pool = m.m_pool
    BY <1>1, RegistersFields
<1> HIDE DEF d
<1>3. \A r \in Rids : d.m_ridPMap[r] = m.m_ridPMap[r]
    BY <1>2
<1>4. \A o : IsPlayer(d, o) <=> IsPlayer(m, o)
    BY <1>3 DEF IsPlayer
<1>5. IsPlayer(m, p)
    BY DEF IsPlayer
<1> HIDE DEF p, q0
<1>6. \A o \in Objs : d.obj[o].m_rid = m.obj[o].m_rid
    BY <1>1, <1>2
<1>7. ASSUME NEW r \in Rids, d.m_ridPMap[r] # NULL
      PROVE  LET o == d.obj[d.m_ridPMap[r]]
             IN  o.m_rid = r /\ o.m_pid \in Pids
    <2>1. CASE r = r0
        BY <1>1, <1>2, <2>1
    <2>2. CASE r # r0
        <3> DEFINE x == m.m_ridPMap[r]
        <3>1. x # NULL /\ d.m_ridPMap[r] = x
            BY <1>3, <1>7
        <3>2. x \in Objs /\ m.obj[x].m_rid = r /\ m.obj[x].m_pid \in Pids
            BY <3>1, PlayerFacts
        <3>3. d.obj[x] = m.obj[x]
            BY <1>1, <1>2, <2>2, <3>2
        <3> QED
            BY <3>1, <3>2, <3>3
    <2> QED
        BY <2>1, <2>2
<1>8. ASSUME NEW q \in Pids, d.m_pidPMap[q] # NULL
      PROVE  IsPlayer(d, d.m_pidPMap[q]) /\ d.obj[d.m_pidPMap[q]].m_pid = q
    <2>1. CASE q = pid
        BY <1>2, <1>4, <1>5, <2>1
    <2>2. CASE q # pid
        <3> DEFINE x == m.m_pidPMap[q]
        <3>1. q # q0 /\ d.m_pidPMap[q] = x /\ x # NULL
            BY <1>2, <1>8, <2>2
        <3>2. IsPlayer(m, x) /\ m.obj[x].m_pid = q /\ x \in Objs
            BY <3>1, PmFields DEF Filed
        <3>3. x # p
            BY <3>1, <3>2 DEF q0
        <3> QED
            BY <1>2, <1>4, <3>1, <3>2, <3>3
    <2> QED
        BY <2>1, <2>2
<1>9. \A i \in DOMAIN m.m_pool : m.m_pool[i] \in Objs
    BY PmFields, ElementOf
<1>10. Filed(d)
    BY <1>2, <1>4, <1>6, <1>7, <1>8, <1>9 DEF Filed
<1> QED
    BY <1>10 DEF d, p

(* popPlayer takes nobody's object.                                         *)
LEMMA PopNobody ==
    ASSUME NEW m \in PlayerMgr, Filed(m), NEW n \in Nat, NEW g \in popPlayer(m, n),
           NEW i \in 1..n
    PROVE  g[i] \in Objs /\ ~IsPlayer(m, g[i])
<1>1. /\ g[i] \in Objs
      /\ \/ i \in DOMAIN m.m_pool /\ g[i] = m.m_pool[i]
         \/ m.obj[g[i]].m_rid = NULL
    BY PopFields
<1>2. g[i] \in Objects(m.m_pool) \/ m.obj[g[i]].m_rid = NULL
    BY <1>1 DEF Objects
<1> QED
    BY <1>1, <1>2, PlayerFacts DEF IsPlayer

(* NewRoom leaves those who are players alone.                              *)
LEMMA JoinKeeps ==
    ASSUME NEW m \in PlayerMgr, Filed(m), NEW ros \in Rosters,
           NEW g \in popPlayer(m, Len(ros)),
           \A i \in DOMAIN ros : m.m_ridPMap[ros[i].rid] = NULL
    PROVE  \A r \in Rids : m.m_ridPMap[r] # NULL =>
               /\ Join(m, ros, g).m_ridPMap[r] = m.m_ridPMap[r]
               /\ Join(m, ros, g).obj[m.m_ridPMap[r]] = m.obj[m.m_ridPMap[r]]
<1> SUFFICES ASSUME NEW r \in Rids, m.m_ridPMap[r] # NULL
             PROVE  /\ Join(m, ros, g).m_ridPMap[r] = m.m_ridPMap[r]
                    /\ Join(m, ros, g).obj[m.m_ridPMap[r]] = m.obj[m.m_ridPMap[r]]
    OBVIOUS
<1>1. \A i \in DOMAIN ros : ros[i].rid # r
    OBVIOUS
<1>2. m.m_ridPMap[r] \in Objs /\ IsPlayer(m, m.m_ridPMap[r])
    BY PlayerFacts
<1>3. DOMAIN ros = 1..Len(ros) /\ Len(ros) \in Nat
    BY RosterFields
<1>4. \A i \in DOMAIN ros : g[i] # m.m_ridPMap[r]
    BY <1>2, <1>3, PopNobody
<1> QED
    BY <1>1, <1>2, <1>4, JoinFields

(* Whoever is found under his pid after NewRoom, and was a player before,   *)
(* was found under it before: the entries of the roster's pids are others'. *)
LEMMA JoinFound ==
    ASSUME NEW m \in PlayerMgr, Filed(m), NEW ros \in Rosters,
           NEW g \in popPlayer(m, Len(ros)),
           NEW r \in Rids, m.m_ridPMap[r] # NULL,
           NEW q \in Pids, Join(m, ros, g).m_pidPMap[q] = m.m_ridPMap[r]
    PROVE  m.m_pidPMap[q] = m.m_ridPMap[r]
<1>1. IsPlayer(m, m.m_ridPMap[r])
    BY PlayerFacts
<1>2. DOMAIN ros = 1..Len(ros) /\ Len(ros) \in Nat
    BY RosterFields
<1>3. \A i \in DOMAIN ros : g[i] # m.m_ridPMap[r]
    BY <1>1, <1>2, PopNobody
<1>4. \A i \in DOMAIN ros : ros[i].pid # q
    BY <1>3, JoinFields
<1> QED
    BY <1>4, JoinFields

(* NewRoom files the players of the roster, who were nobody before, with    *)
(* objects from the front of the pool.                                      *)
LEMMA JoinFiled ==
    ASSUME NEW m \in PlayerMgr, Filed(m), NEW ros \in Rosters,
           NEW g \in popPlayer(m, Len(ros)),
           \A i \in DOMAIN ros : m.m_ridPMap[ros[i].rid] = NULL
    PROVE  Filed(Join(m, ros, g))
<1> DEFINE d == Join(m, ros, g)
           n == Len(ros)
           l == Len(m.m_pool)
<1>1. /\ DOMAIN ros = 1..n /\ n \in Nat
      /\ \A i \in 1..n : /\ ros[i].rid \in Rids /\ ros[i].pid \in Pids
                         /\ ros[i].rid # NULL
    BY RosterFields, GameAssumption
<1>2. /\ \A i \in 1..n :
             /\ d.m_ridPMap[ros[i].rid] = g[i] /\ d.m_pidPMap[ros[i].pid] = g[i]
             /\ d.obj[g[i]].m_rid = ros[i].rid /\ d.obj[g[i]].m_pid = ros[i].pid
      /\ \A r \in Rids : (\A i \in 1..n : ros[i].rid # r) => d.m_ridPMap[r] = m.m_ridPMap[r]
      /\ \A q \in Pids : (\A i \in 1..n : ros[i].pid # q) => d.m_pidPMap[q] = m.m_pidPMap[q]
      /\ \A o \in Objs : (\A i \in 1..n : g[i] # o) => d.obj[o] = m.obj[o]
      /\ d.m_pool = SubSeq(m.m_pool, n + 1, l)
    BY <1>1, JoinFields
<1>3. \A i \in 1..n : g[i] \in Objs /\ g[i] # NULL /\ ~IsPlayer(m, g[i])
    BY <1>1, PopNobody, GameAssumption
<1>4. /\ \A i, j \in 1..n : g[i] = g[j] => i = j
      /\ \A i \in 1..n : \/ i \in DOMAIN m.m_pool /\ g[i] = m.m_pool[i]
                         \/ i > l /\ m.obj[g[i]].m_rid = NULL
    BY <1>1, PopFields
<1>5. \A r \in Rids : m.m_ridPMap[r] # NULL =>
          /\ d.m_ridPMap[r] = m.m_ridPMap[r]
          /\ d.obj[m.m_ridPMap[r]] = m.obj[m.m_ridPMap[r]]
    BY JoinKeeps
<1>6. /\ l \in Nat /\ DOMAIN m.m_pool = 1..l
      /\ DOMAIN d.m_pool = 1..(IF n < l THEN l - n ELSE 0)
      /\ \A i \in DOMAIN d.m_pool : i + n \in 1..l /\ d.m_pool[i] = m.m_pool[i + n]
                                    /\ d.m_pool[i] \in Objs
    <2>1. m.m_pool \in Seq(Objs)
        BY PmFields
    <2> HIDE DEF d
    <2> QED
        BY <1>1, <1>2, <2>1
<1>7. \A i, j \in 1..l : m.m_pool[i] = m.m_pool[j] => i = j
    BY <1>6 DEF Filed
<1> HIDE DEF d, n, l
<1>8. \A i \in DOMAIN d.m_pool, j \in 1..n : d.m_pool[i] # g[j]
    <2> SUFFICES ASSUME NEW i \in DOMAIN d.m_pool, NEW j \in 1..n, d.m_pool[i] = g[j]
                 PROVE  FALSE
        OBVIOUS
    <2>1. i + n \in 1..l /\ d.m_pool[i] = m.m_pool[i + n] /\ i \in Nat /\ i > 0
        BY <1>1, <1>6
    <2>2. j =< l
        BY <1>1, <1>6, <2>1
    <2>3. j \in 1..l /\ g[j] = m.m_pool[j]
        BY <1>1, <1>4, <1>6, <2>2
    <2>4. i + n = j
        BY <1>7, <2>1, <2>3
    <2> QED
        BY <1>1, <2>1, <2>4
<1>9. ASSUME NEW r \in Rids, d.m_ridPMap[r] # NULL
      PROVE  LET o == d.obj[d.m_ridPMap[r]]
             IN  o.m_rid = r /\ o.m_pid \in Pids
    <2>1. CASE \E i \in 1..n : ros[i].rid = r
        BY <1>1, <1>2, <2>1
    <2>2. CASE \A i \in 1..n : ros[i].rid # r
        <3> DEFINE x == m.m_ridPMap[r]
        <3>1. x # NULL /\ d.m_ridPMap[r] = x
            BY <1>2, <1>9, <2>2
        <3>2. m.obj[x].m_rid = r /\ m.obj[x].m_pid \in Pids
            BY <3>1, PlayerFacts
        <3>3. d.obj[x] = m.obj[x]
            BY <1>5, <3>1
        <3> QED
            BY <3>1, <3>2, <3>3
    <2> QED
        BY <2>1, <2>2
<1>10. \A o : IsPlayer(d, o) <=> IsPlayer(m, o) \/ \E i \in 1..n : g[i] = o
    <2>1. ASSUME NEW o, IsPlayer(d, o) PROVE IsPlayer(m, o) \/ \E i \in 1..n : g[i] = o
        <3>1. PICK r \in Rids : d.m_ridPMap[r] # NULL /\ d.m_ridPMap[r] = o
            BY <2>1 DEF IsPlayer
        <3> QED
            BY <1>2, <3>1 DEF IsPlayer
    <2>2. ASSUME NEW o, IsPlayer(m, o) PROVE IsPlayer(d, o)
        BY <1>5, <2>2 DEF IsPlayer
    <2>3. ASSUME NEW i \in 1..n PROVE IsPlayer(d, g[i])
        BY <1>1, <1>2, <1>3 DEF IsPlayer
    <2> QED
        BY <2>1, <2>2, <2>3
<1>11. ASSUME NEW q \in Pids, d.m_pidPMap[q] # NULL
       PROVE  IsPlayer(d, d.m_pidPMap[q]) /\ d.obj[d.m_pidPMap[q]].m_pid = q
    <2>1. CASE \E i \in 1..n : ros[i].pid = q
        BY <1>2, <1>10, <2>1
    <2>2. CASE \A i \in 1..n : ros[i].pid # q
        <3> DEFINE x == m.m_pidPMap[q]
        <3>1. x # NULL /\ d.m_pidPMap[q] = x
            BY <1>2, <1>11, <2>2
        <3>2. IsPlayer(m, x) /\ m.obj[x].m_pid = q
            BY <3>1 DEF Filed
        <3>3. d.obj[x] = m.obj[x]
            BY <1>5, <3>2 DEF IsPlayer
        <3> QED
            BY <1>10, <3>1, <3>2, <3>3
    <2> QED
        BY <2>1, <2>2
<1>12. \A i, j \in DOMAIN d.m_pool : d.m_pool[i] = d.m_pool[j] => i = j
    <2> SUFFICES ASSUME NEW i \in DOMAIN d.m_pool, NEW j \in DOMAIN d.m_pool,
                        d.m_pool[i] = d.m_pool[j]
                 PROVE  i = j
        OBVIOUS
    <2>1. i + n = j + n
        BY <1>6, <1>7
    <2>2. i \in Nat /\ j \in Nat
        BY <1>1, <1>6
    <2> QED
        BY <1>1, <2>1, <2>2
<1>13. \A i \in DOMAIN d.m_pool : d.obj[d.m_pool[i]].m_rid # NULL
    <2> SUFFICES ASSUME NEW i \in DOMAIN d.m_pool PROVE d.obj[d.m_pool[i]].m_rid # NULL
        OBVIOUS
    <2>1. m.obj[d.m_pool[i]].m_rid # NULL /\ d.m_pool[i] \in Objs
        BY <1>6 DEF Filed
    <2> QED
        BY <1>2, <1>8, <2>1
<1>14. ASSUME NEW o \in Objs, d.obj[o].m_rid # NULL
       PROVE  IsPlayer(d, o) <=> o \notin Objects(d.m_pool)
    <2>1. CASE \E i \in 1..n : g[i] = o
        BY <1>8, <1>10, <2>1 DEF Objects
    <2>2. CASE \A i \in 1..n : g[i] # o
        <3>1. m.obj[o].m_rid # NULL
            BY <1>2, <1>14, <2>2
        <3>2. IsPlayer(m, o) <=> o \notin Objects(m.m_pool)
            BY <3>1 DEF Filed
        <3>3. o \in Objects(d.m_pool) => o \in Objects(m.m_pool)
            BY <1>6 DEF Objects
        <3>4. ASSUME o \in Objects(m.m_pool) PROVE o \in Objects(d.m_pool)
            <4>1. PICK i \in 1..l : m.m_pool[i] = o
                BY <1>6, <3>4 DEF Objects
            <4>2. i > n
                BY <1>1, <1>4, <1>6, <2>2, <4>1
            <4>3. i - n \in DOMAIN d.m_pool /\ (i - n) + n = i
                BY <1>1, <1>6, <4>2
            <4>4. d.m_pool[i - n] = o
                BY <1>6, <4>1, <4>3
            <4> QED
                BY <4>3, <4>4 DEF Objects
        <3> QED
            BY <1>10, <2>2, <3>2, <3>3, <3>4
    <2> QED
        BY <2>1, <2>2
<1>15. Filed(d)
    BY <1>9, <1>11, <1>12, <1>13, <1>14 DEF Filed
<1> QED
    BY <1>15 DEF d

-----------------------------------------------------------------------------
(* Part 4: every handler keeps GameInv.                                     *)

(* Registered, one player at a time.                                        *)
LEMMA RegisteredIs ==
    /\ \A p : p \in Registered <=> IsPlayer(pm, p)
    /\ \A p : p \in Registered' <=> IsPlayer(pm', p)
BY DEF Registered, IsPlayer

(* The property PlayersSound is a part of PInv.                             *)
LEMMA PInvSound == PInv => PlayersSound
BY RegisteredIs DEF PInv, Filed, PlayersSound

(* What a state of GInv says of the entries of a room.                      *)
LEMMA InRoom ==
    ASSUME PInv, RInv, NEW rm \in RoomIds, Open(rm), NEW r \in Rids,
           rooms[rm].m_ridPMap[r] # NULL
    PROVE  LET p == rooms[rm].m_ridPMap[r]
           IN  /\ p = pm.m_ridPMap[r] /\ p \in Objs /\ pm.m_ridPMap[r] # NULL
               /\ pm.obj[p].m_rid = r
               /\ pm.obj[p].m_pid \in Pids
               /\ pm.obj[p].m_sessid \in 0..MaxSess
<1>1. pm \in PlayerMgr /\ Filed(pm)
    BY DEF PInv, GameTypeOK
<1>2. rooms[rm].m_ridPMap[r] = pm.m_ridPMap[r]
    BY DEF RInv, RoomPlayersLive
<1> QED
    BY <1>1, <1>2, PlayerFacts, ObjFields

(* Nobody is being taken offline when there is nobody to take.              *)
LEMMA NobodyCurrent ==
    ASSUME CurrentInv, todo = {}
    PROVE  current = NULL
BY DEF CurrentInv

(* A session in bound is a session.                                         *)
LEMMA BoundIsSess == IInv => bound \subseteq Sess /\ \A s \in bound : s =< kcp.g_sess_id
BY DEF IInv, TypeOK, BoundNumbered

(* What SInv is about stays as it is.                                       *)
LEMMA SInvKeeps ==
    ASSUME SInv, UNCHANGED <<kcp, mainPc, bound, pm, rooms>>
    PROVE  SInv'
<1>1. SessionsBound'
    BY DEF SInv, SessionsBound
<1>2. NoBoundLeak'
    BY DEF SInv, NoBoundLeak, Registered, Alive
<1>3. FramesReach'
    BY DEF SInv, FramesReach, Open, Online, Found, Alive
<1> QED
    BY <1>1, <1>2, <1>3 DEF SInv

(* NewRoom puts in a room people who had none.                              *)
LEMMA NewRoomInv == GInv /\ NewRoom => GameInv'
<1> SUFFICES ASSUME GInv, NewRoom PROVE GameInv'
    OBVIOUS
<1>1. PICK rm \in RoomIds, ros \in Rosters :
          \E g \in popPlayer(pm, Len(ros)) :
              /\ GateDiscipline(rm, ros)
              /\ pm' = Join(pm, ros, g)
              /\ rooms' = [rooms EXCEPT ![rm] =
                     [m_ridPMap |-> [r \in Rids |->
                          IF \E i \in DOMAIN ros : ros[i].rid = r
                          THEN pm'.m_ridPMap[r] ELSE NULL],
                      m_pidConn |-> [q \in Pids |-> NULL]]]
    BY DEF NewRoom
<1>2. PICK g \in popPlayer(pm, Len(ros)) :
              /\ GateDiscipline(rm, ros)
              /\ pm' = Join(pm, ros, g)
              /\ rooms' = [rooms EXCEPT ![rm] =
                     [m_ridPMap |-> [r \in Rids |->
                          IF \E i \in DOMAIN ros : ros[i].rid = r
                          THEN pm'.m_ridPMap[r] ELSE NULL],
                      m_pidConn |-> [q \in Pids |-> NULL]]]
    BY <1>1
<1> DEFINE entries == [r \in Rids |-> IF \E i \in DOMAIN ros : ros[i].rid = r
                                      THEN pm'.m_ridPMap[r] ELSE NULL]
           conns == [q \in Pids |-> NULL]
           new == [m_ridPMap |-> entries, m_pidConn |-> conns]
<1>3. /\ mainPc = "idle" /\ todo = {} /\ current = NULL
      /\ UNCHANGED <<vars, todo, removing, current>>
    BY NobodyCurrent DEF NewRoom, Free, todoVars, GInv, GameInv
<1>4. /\ pm \in PlayerMgr /\ Filed(pm) /\ rooms \in [RoomIds -> RoomObj \cup {NULL}]
      /\ PInv /\ RInv /\ SInv
    BY DEF GInv, GameInv, PInv, GameTypeOK
<1>5. \A i \in DOMAIN ros : pm.m_ridPMap[ros[i].rid] = NULL
    BY <1>2 DEF GateDiscipline
<1>6. pm' \in PlayerMgr /\ Filed(pm')
    BY <1>2, <1>4, <1>5, JoinFields, JoinFiled
<1>7. /\ \A r \in Rids : pm.m_ridPMap[r] # NULL =>
             /\ pm'.m_ridPMap[r] = pm.m_ridPMap[r]
             /\ pm'.obj[pm.m_ridPMap[r]] = pm.obj[pm.m_ridPMap[r]]
    BY <1>2, <1>4, <1>5, JoinKeeps
<1>8. /\ \A i \in DOMAIN ros : /\ pm'.m_ridPMap[ros[i].rid] = g[i]
                               /\ pm'.obj[g[i]].m_sessid = 0
      /\ \A o \in Objs : (\A i \in DOMAIN ros : g[i] # o) => pm'.obj[o] = pm.obj[o]
    BY <1>2, <1>4, JoinFields
<1>9. /\ entries \in [Rids -> Objs \cup {NULL}]
      /\ \A r \in Rids : entries[r] # NULL =>
             (\E i \in DOMAIN ros : ros[i].rid = r) /\ entries[r] = pm'.m_ridPMap[r]
      /\ conns \in [Pids -> Conns \cup {NULL}]
    BY <1>6, PmFields
<1>10. /\ rooms' = [rooms EXCEPT ![rm] = new]
       /\ new.m_ridPMap = entries
    BY <1>2
<1>11. new \in RoomObj
    BY <1>9 DEF RoomObj
<1> HIDE DEF new, entries, conns
<1>12. /\ rooms'[rm] = new
       /\ \A a \in RoomIds : a # rm => rooms'[a] = rooms[a]
       /\ rooms' \in [RoomIds -> RoomObj \cup {NULL}]
    BY <1>4, <1>10, <1>11
<1>13. PInv'
    BY <1>3, <1>6, <1>12 DEF GInv, GameInv, PInv, GameTypeOK
<1>14. ASSUME NEW a \in RoomIds, Open(a)', NEW r \in Rids, rooms'[a].m_ridPMap[r] # NULL
       PROVE  /\ rooms'[a].m_ridPMap[r] = pm'.m_ridPMap[r]
              /\ a # rm => Open(a) /\ rooms[a].m_ridPMap[r] # NULL /\ pm.m_ridPMap[r] # NULL
                           /\ rooms[a].m_ridPMap[r] = pm.m_ridPMap[r]
              /\ a = rm => pm.m_ridPMap[r] = NULL /\ \E i \in DOMAIN ros : ros[i].rid = r
    <2>1. CASE a = rm
        BY <1>5, <1>9, <1>10, <1>12, <1>14, <2>1
    <2>2. CASE a # rm
        <3>1. Open(a) /\ rooms[a].m_ridPMap[r] # NULL
            BY <1>12, <1>14, <2>2 DEF Open
        <3>2. pm.m_ridPMap[r] # NULL /\ rooms[a].m_ridPMap[r] = pm.m_ridPMap[r]
            BY <1>4, <3>1, InRoom
        <3> QED
            BY <1>7, <1>12, <2>2, <3>1, <3>2
    <2> QED
        BY <2>1, <2>2
<1>15. RoomPlayersLive'
    BY <1>14 DEF RoomPlayersLive
<1>16. OneRoom'
    <2> SUFFICES ASSUME NEW a \in RoomIds, NEW b \in RoomIds, Open(a)', Open(b)', NEW r \in Rids,
                        rooms'[a].m_ridPMap[r] # NULL, rooms'[b].m_ridPMap[r] # NULL
                 PROVE  a = b
        BY DEF OneRoom
    <2>1. CASE a # rm /\ b # rm
        BY <1>4, <1>14, <2>1 DEF RInv, OneRoom
    <2>2. CASE a = rm \/ b = rm
        BY <1>14, <2>2
    <2> QED
        BY <2>1, <2>2
<1>17. SessionsBound'
    <2> SUFFICES ASSUME NEW p \in Objs PROVE pm'.obj[p].m_sessid \in bound \cup {0}
        BY <1>3 DEF SessionsBound, vars
    <2>1. pm.obj[p].m_sessid \in bound \cup {0}
        BY <1>4 DEF SInv, SessionsBound
    <2> QED
        BY <1>8, <2>1
<1>18. NoBoundLeak'
    <2> SUFFICES ASSUME NEW s \in bound, kcp.m_mapSessFd[s] # NULL, Alive
                 PROVE  \E p \in Registered' : pm'.obj[p].m_sessid = s
        BY <1>3 DEF NoBoundLeak, vars, Alive
    <2>1. PICK p \in Registered : pm.obj[p].m_sessid = s
        BY <1>4 DEF SInv, NoBoundLeak
    <2>2. PICK r \in Rids : pm.m_ridPMap[r] # NULL /\ pm.m_ridPMap[r] = p
        BY RegisteredIs DEF IsPlayer
    <2>3. IsPlayer(pm', p) /\ pm'.obj[p] = pm.obj[p]
        BY <1>7, <2>2 DEF IsPlayer
    <2> QED
        BY <2>1, <2>3, RegisteredIs
<1>19. FramesReach'
    <2> SUFFICES ASSUME NEW a \in RoomIds, Open(a)', NEW r \in Rids,
                        rooms'[a].m_ridPMap[r] # NULL, Online(rooms[a].m_ridPMap[r])',
                        Found(rooms[a].m_ridPMap[r])', Alive
                 PROVE  rooms'[a].m_pidConn[pm'.obj[rooms'[a].m_ridPMap[r]].m_pid]
                            = kcp.m_mapSessFd[pm'.obj[rooms'[a].m_ridPMap[r]].m_sessid]
        BY <1>3 DEF FramesReach, vars, Alive
    <2>1. CASE a = rm
        <3>1. PICK i \in DOMAIN ros : ros[i].rid = r
            BY <1>14, <2>1
        <3>2. rooms'[a].m_ridPMap[r] = g[i] /\ pm'.obj[g[i]].m_sessid = 0
            BY <1>8, <1>14, <3>1
        <3> QED
            BY <3>2 DEF Online
    <2>2. CASE a # rm
        <3> DEFINE p == rooms[a].m_ridPMap[r]
        <3>1. /\ rooms'[a] = rooms[a] /\ Open(a) /\ p # NULL
              /\ pm.m_ridPMap[r] = p /\ pm'.obj[p] = pm.obj[p]
            BY <1>7, <1>12, <1>14, <2>2
        <3>2. Online(p)
            BY <1>3, <3>1 DEF Online, vars
        <3>3. Found(p)
            <4> DEFINE q == pm.obj[p].m_pid
            <4>1. q \in Pids
                BY <1>4, <3>1, PlayerFacts
            <4>2. pm'.m_pidPMap[q] = p
                BY <3>1 DEF Found
            <4> HIDE DEF q, p
            <4>3. pm.m_pidPMap[q] = p
                BY <1>4, <1>2, <3>1, <4>1, <4>2, JoinFound
            <4> QED
                BY <4>3 DEF Found, q
        <3>4. rooms[a].m_pidConn[pm.obj[p].m_pid] = kcp.m_mapSessFd[pm.obj[p].m_sessid]
            BY <1>4, <3>1, <3>2, <3>3 DEF SInv, FramesReach
        <3> QED
            BY <3>1, <3>4
    <2> QED
        BY <2>1, <2>2
<1>20. TodoInv' /\ CurrentInv'
    BY <1>3 DEF TodoInv, CurrentInv, vars
<1> QED
    BY <1>13, <1>15, <1>16, <1>17, <1>18, <1>19, <1>20 DEF GameInv, RInv, SInv

(* OfflineP only notes whom to take offline.                                *)
LEMMA OfflinePInv == GInv /\ OfflineP => GameInv'
<1> SUFFICES ASSUME GInv, OfflineP PROVE GameInv'
    OBVIOUS
<1>1. PICK r \in Rids : todo' = {r} /\ removing' = FALSE
    BY DEF OfflineP
<1>2. /\ mainPc = "idle" /\ todo = {}
      /\ UNCHANGED <<vars, pm, rooms, current>>
    BY DEF OfflineP, Free
<1>3. current = NULL
    BY <1>2, NobodyCurrent DEF GInv, GameInv
<1>4. PInv'
    BY <1>1, <1>2 DEF GInv, GameInv, PInv, GameTypeOK
<1>5. RInv'
    BY <1>2 DEF GInv, GameInv, RInv, RoomPlayersLive, OneRoom, Open
<1>6. SInv'
    BY <1>2, SInvKeeps DEF GInv, GameInv, vars
<1>7. TodoInv' /\ CurrentInv'
    BY <1>1, <1>2, <1>3 DEF TodoInv, CurrentInv, vars
<1> QED
    BY <1>4, <1>5, <1>6, <1>7 DEF GameInv

(* The room that is over leaves the table with all its players, who are in  *)
(* no other.                                                                *)
LEMMA RoomOverInv == GInv /\ RoomOver => GameInv'
<1> SUFFICES ASSUME GInv, RoomOver PROVE GameInv'
    OBVIOUS
<1>1. PICK rm \in RoomIds :
          /\ Open(rm)
          /\ todo' = {r \in Rids : rooms[rm].m_ridPMap[r] # NULL}
          /\ rooms' = [rooms EXCEPT ![rm] = NULL]
    BY DEF RoomOver
<1>2. /\ mainPc = "idle" /\ todo = {} /\ removing'
      /\ UNCHANGED <<vars, pm, current>>
    BY DEF RoomOver, Free
<1>3. current = NULL
    BY <1>2, NobodyCurrent DEF GInv, GameInv
<1>4. /\ rooms' \in [RoomIds -> RoomObj \cup {NULL}]
      /\ \A a \in RoomIds : Open(a)' => a # rm /\ Open(a) /\ rooms'[a] = rooms[a]
    BY <1>1 DEF GInv, GameInv, PInv, GameTypeOK, Open
<1>5. PInv'
    BY <1>1, <1>2, <1>4 DEF GInv, GameInv, PInv, GameTypeOK, RoomOver
<1>6. RInv'
    BY <1>2, <1>4 DEF GInv, GameInv, RInv, RoomPlayersLive, OneRoom
<1>7. SInv'
    <2>1. SessionsBound' /\ NoBoundLeak'
        BY <1>2 DEF GInv, GameInv, SInv, SessionsBound, NoBoundLeak, Registered, Alive, vars
    <2>2. FramesReach'
        <3> SUFFICES ASSUME NEW a \in RoomIds, Open(a)', NEW r \in Rids,
                            rooms'[a].m_ridPMap[r] # NULL,
                            Online(rooms[a].m_ridPMap[r])',
                            Found(rooms[a].m_ridPMap[r])', Alive
                     PROVE  rooms'[a].m_pidConn[pm.obj[rooms'[a].m_ridPMap[r]].m_pid]
                                = kcp.m_mapSessFd[pm.obj[rooms'[a].m_ridPMap[r]].m_sessid]
            BY <1>2 DEF FramesReach, Alive, vars
        <3>1. rooms'[a] = rooms[a] /\ Open(a)
            BY <1>4
        <3>2. Online(rooms[a].m_ridPMap[r]) /\ Found(rooms[a].m_ridPMap[r])
            BY <1>2, <3>1 DEF Online, Found, vars
        <3> QED
            BY <3>1, <3>2 DEF GInv, GameInv, SInv, FramesReach
    <2> QED
        BY <2>1, <2>2 DEF SInv
<1>8. \A a \in RoomIds : Open(a)' => \A r \in todo' : rooms'[a].m_ridPMap[r] = NULL
    BY <1>1, <1>4 DEF GInv, GameInv, RInv, OneRoom
<1>9. TodoInv' /\ CurrentInv'
    BY <1>2, <1>3, <1>8 DEF TodoInv, CurrentInv, vars
<1> QED
    BY <1>5, <1>6, <1>7, <1>9 DEF GameInv

(* There is nothing to do for a player who is not there.                    *)
LEMMA OfflineNobodyInv == GInv /\ OfflineNobody => GameInv'
<1> SUFFICES ASSUME GInv, OfflineNobody PROVE GameInv'
    OBVIOUS
<1>1. /\ todo' \subseteq todo /\ current = NULL
      /\ UNCHANGED <<vars, pm, rooms, removing, current>>
    BY DEF OfflineNobody
<1>2. PInv'
    BY <1>1 DEF GInv, GameInv, PInv, GameTypeOK
<1>3. RInv'
    BY <1>1 DEF GInv, GameInv, RInv, RoomPlayersLive, OneRoom, Open
<1>4. SInv'
    BY <1>1, SInvKeeps DEF GInv, GameInv, vars
<1>5. TodoInv' /\ CurrentInv'
    BY <1>1 DEF GInv, GameInv, TodoInv, CurrentInv, Open, vars
<1> QED
    BY <1>2, <1>3, <1>4, <1>5 DEF GameInv

(* Offline() marks the player, so nothing is to reach him any more, and     *)
(* looks up the connection of his session.                                  *)
LEMMA OfflineInv == GInv /\ Offline => GameInv'
<1> SUFFICES ASSUME GInv, Offline PROVE GameInv'
    OBVIOUS
<1>1. PICK r \in Rids :
          /\ First(r) /\ pm.m_ridPMap[r] # NULL
          /\ current' = pm.m_ridPMap[r]
          /\ pm' = [pm EXCEPT !.obj[pm.m_ridPMap[r]].m_off = TRUE]
          /\ CloseOf(pm.obj[pm.m_ridPMap[r]].m_sessid)
    BY DEF Offline
<1> DEFINE p == pm.m_ridPMap[r]
           s == pm.obj[p].m_sessid
<1>2. /\ mainPc = "idle" /\ current = NULL /\ UNCHANGED <<rooms, todo, removing>>
      /\ pm \in PlayerMgr /\ Filed(pm) /\ p \in Objs /\ IInv
    BY <1>1, PmFields DEF Offline, GInv, GameInv, PInv, GameTypeOK
<1>3. /\ pm' \in PlayerMgr
      /\ pm'.m_ridPMap = pm.m_ridPMap /\ pm'.m_pidPMap = pm.m_pidPMap /\ pm'.obj[p].m_off
      /\ \A o \in Objs : /\ pm'.obj[o].m_pid = pm.obj[o].m_pid
                         /\ pm'.obj[o].m_sessid = pm.obj[o].m_sessid
                         /\ o # p => pm'.obj[o] = pm.obj[o]
    BY <1>1, <1>2, OffFields
<1>4. Filed(pm')
    BY <1>1, <1>2, OffFiled
<1>5. /\ kcp' = kcp /\ bound' = bound
      /\ \/ mainPc' = "idle" /\ rawGetConn(kcp, s) = NULL
         \/ mainPc' = "close" /\ closing'.sess = s /\ closing'.conn = rawGetConn(kcp, s)
    <2>1. CASE rawGetConn(kcp, s) = NULL
        BY <1>1, <1>2, <2>1 DEF CloseOf, vars
    <2>2. CASE rawGetConn(kcp, s) # NULL
        <3>1. CloseLookup /\ closing'.sess = s
            BY <1>1, <2>2 DEF CloseOf
        <3>2. PICK t \in bound :
                  closing' = [sess |-> t, conn |-> rawGetConn(kcp, t),
                              doomed |-> kcp.conn[rawGetConn(kcp, t)].m_fd \in delQue]
            BY <3>1 DEF CloseLookup
        <3>3. closing'.sess = t /\ closing'.conn = rawGetConn(kcp, t)
            BY <3>2
        <3>4. t = s
            BY <3>1, <3>3
        <3> HIDE DEF s
        <3> QED
            BY <3>1, <3>3, <3>4 DEF CloseLookup
    <2> QED
        BY <2>1, <2>2
<1> HIDE DEF s, p
<1>6. Alive' /\ Alive
    BY <1>2, <1>5 DEF Alive
<1>7. current' = p /\ p # NULL /\ pm'.m_ridPMap[r] = p /\ First(r)'
    BY <1>1, <1>2, <1>3 DEF First, p
<1>8. PInv'
    BY <1>2, <1>3, <1>4, <1>7 DEF GInv, GameInv, PInv, GameTypeOK
<1>9. RInv'
    BY <1>2, <1>3 DEF GInv, GameInv, RInv, RoomPlayersLive, OneRoom, Open
<1>10. SessionsBound'
    BY <1>3, <1>5 DEF GInv, GameInv, SInv, SessionsBound
<1>11. NoBoundLeak'
    <2> SUFFICES ASSUME NEW t \in bound, kcp.m_mapSessFd[t] # NULL
                 PROVE  \E o \in Registered' : pm'.obj[o].m_sessid = t
        BY <1>5 DEF NoBoundLeak
    <2>1. PICK o \in Registered : pm.obj[o].m_sessid = t
        BY <1>6 DEF GInv, GameInv, SInv, NoBoundLeak
    <2>2. PICK q \in Rids : pm.m_ridPMap[q] # NULL /\ pm.m_ridPMap[q] = o
        BY RegisteredIs DEF IsPlayer
    <2>3. o \in Objs /\ IsPlayer(pm', o)
        BY <1>2, <1>3, <2>2, PmFields DEF IsPlayer
    <2> QED
        BY <1>3, <2>1, <2>3, RegisteredIs
<1>12. FramesReach'
    <2> SUFFICES ASSUME NEW a \in RoomIds, Open(a), NEW q \in Rids,
                        rooms[a].m_ridPMap[q] # NULL, Online(rooms[a].m_ridPMap[q])',
                        Found(rooms[a].m_ridPMap[q])'
                 PROVE  rooms[a].m_pidConn[pm'.obj[rooms[a].m_ridPMap[q]].m_pid]
                            = kcp.m_mapSessFd[pm'.obj[rooms[a].m_ridPMap[q]].m_sessid]
        BY <1>2, <1>5 DEF FramesReach, Open
    <2> DEFINE o == rooms[a].m_ridPMap[q]
    <2>1. o \in Objs
        BY InRoom DEF GInv, GameInv
    <2>2. o # p
        BY <1>2, <1>3 DEF Online
    <2>3. Online(o) /\ Found(o)
        BY <1>2, <1>3, <1>5, <2>1, <2>2 DEF Online, Found
    <2>4. rooms[a].m_pidConn[pm.obj[o].m_pid] = kcp.m_mapSessFd[pm.obj[o].m_sessid]
        BY <1>6, <2>3 DEF GInv, GameInv, SInv, FramesReach
    <2> QED
        BY <1>3, <2>1, <2>2, <2>4
<1>13. TodoInv'
    BY <1>2, <1>5, <1>7 DEF GInv, GameInv, TodoInv, Open
<1>14. CurrentInv'
    <2>1. pm'.obj[current'].m_sessid = s /\ pm'.obj[current'].m_off
        BY <1>2, <1>3, <1>7 DEF s
    <2>2. \E q \in todo' : First(q)' /\ pm'.m_ridPMap[q] = current'
        BY <1>7 DEF First
    <2>3. s \in bound \cup {0}
        BY <1>2 DEF s, GInv, GameInv, SInv, SessionsBound
    <2>4. mainPc' = "close" =>
              closing'.sess = s /\ kcp'.m_mapSessFd[s] \in {NULL, closing'.conn}
        <3>1. CASE s \in Sess
            BY <1>5, <3>1 DEF rawGetConn
        <3>2. CASE s \notin Sess
            <4>1. mainPc' = "close" => closing'.conn = NULL
                BY <1>5, <3>2 DEF rawGetConn
            <4>2. ASSUME mainPc' = "close" PROVE FALSE
                BY <1>1, <1>2, <1>5, <3>2, <4>2 DEF CloseOf, rawGetConn, vars, s, p
            <4> QED
                BY <4>2
        <3> QED
            BY <3>1, <3>2
    <2>5. mainPc' = "idle" => rawGetConn(kcp', s) = NULL
        BY <1>5
    <2> QED
        BY <2>1, <2>2, <2>4, <2>5 DEF CurrentInv
<1> QED
    BY <1>8, <1>9, <1>10, <1>11, <1>12, <1>13, <1>14 DEF GameInv, SInv

(* The player who is offline leaves playerMgr if his room is over; he was   *)
(* in no other, and has no open session.                                    *)
LEMMA OfflineDoneInv == GInv /\ OfflineDone => GameInv'
<1> SUFFICES ASSUME GInv, OfflineDone PROVE GameInv'
    OBVIOUS
<1>1. PICK r \in Rids : First(r) /\ todo' = todo \ {r}
    BY DEF OfflineDone
<1>2. /\ mainPc = "idle" /\ current # NULL /\ current' = NULL
      /\ pm' = IF removing THEN Erase(pm, current) ELSE pm
      /\ UNCHANGED <<vars, rooms, removing>>
    BY DEF OfflineDone
<1>3. /\ pm \in PlayerMgr /\ Filed(pm) /\ todo \subseteq Rids /\ IInv
      /\ PInv /\ RInv /\ SInv
    BY DEF GInv, GameInv, PInv, GameTypeOK
<1>4. pm.m_ridPMap[r] = current
    <2>1. PICK q \in todo : First(q) /\ pm.m_ridPMap[q] = current
        BY <1>2 DEF GInv, GameInv, CurrentInv
    <2>2. q =< r /\ r =< q /\ q \in Nat /\ r \in Nat
        BY <1>1, <1>3, <2>1, GameAssumption DEF First
    <2> QED
        BY <2>1, <2>2
<1>5. kcp' = kcp /\ bound' = bound /\ (Alive' <=> Alive) /\ rooms' = rooms
    BY <1>2 DEF vars, Alive
<1>6. ASSUME pm'.obj = pm.obj,
             \A q \in Pids : pm'.m_pidPMap[q] \in {NULL, pm.m_pidPMap[q]}
      PROVE  FramesReach'
    <2> SUFFICES ASSUME NEW a \in RoomIds, Open(a), NEW q \in Rids,
                        rooms[a].m_ridPMap[q] # NULL, Online(rooms[a].m_ridPMap[q])',
                        Found(rooms[a].m_ridPMap[q])', Alive
                 PROVE  rooms[a].m_pidConn[pm.obj[rooms[a].m_ridPMap[q]].m_pid]
                            = kcp.m_mapSessFd[pm.obj[rooms[a].m_ridPMap[q]].m_sessid]
        BY <1>5, <1>6 DEF FramesReach, Open
    <2>1. Online(rooms[a].m_ridPMap[q])
        BY <1>5, <1>6 DEF Online
    <2>2. pm.obj[rooms[a].m_ridPMap[q]].m_pid \in Pids
        BY <1>3, InRoom
    <2>3. Found(rooms[a].m_ridPMap[q])
        BY <1>5, <1>6, <2>2 DEF Found
    <2> QED
        BY <1>3, <2>1, <2>3 DEF SInv, FramesReach
<1>7. TodoInv' /\ CurrentInv'
    BY <1>1, <1>2 DEF GInv, GameInv, TodoInv, CurrentInv, Open, vars
<1>8. CASE ~removing
    <2>1. pm' = pm
        BY <1>2, <1>8
    <2>2. PInv'
        BY <1>1, <1>2, <1>3, <2>1 DEF PInv, GameTypeOK
    <2>3. RInv'
        BY <1>2, <1>3, <2>1 DEF RInv, RoomPlayersLive, OneRoom, Open
    <2>4. SInv'
        <3>1. SessionsBound' /\ NoBoundLeak'
            BY <1>3, <1>5, <2>1 DEF SInv, SessionsBound, NoBoundLeak, Registered
        <3> QED
            BY <1>6, <2>1, <3>1 DEF SInv
    <2> QED
        BY <1>7, <2>2, <2>3, <2>4 DEF GameInv
<1>9. CASE removing
    <2>1. /\ current \in Objs /\ pm.obj[current].m_rid = r
          /\ pm.m_ridPMap[r] # NULL
        BY <1>2, <1>3, <1>4, PlayerFacts
    <2>2. /\ pm' \in PlayerMgr /\ pm'.obj = pm.obj
          /\ \A q \in Rids : pm'.m_ridPMap[q] = IF q = r THEN NULL ELSE pm.m_ridPMap[q]
          /\ \A q \in Pids : pm'.m_pidPMap[q] \in {NULL, pm.m_pidPMap[q]}
        BY <1>2, <1>3, <1>9, <2>1, EraseFields
    <2>3. Filed(pm')
        BY <1>2, <1>3, <1>4, <1>9, <2>1, EraseFiled
    <2>4. PInv'
        BY <1>1, <1>2, <1>3, <2>2, <2>3 DEF PInv, GameTypeOK
    <2>5. \A rm \in RoomIds : Open(rm) => rooms[rm].m_ridPMap[r] = NULL
        BY <1>1, <1>9 DEF GInv, GameInv, TodoInv, First
    <2>6. RInv'
        <3>1. OneRoom'
            BY <1>2, <1>3 DEF RInv, OneRoom, Open
        <3>2. RoomPlayersLive'
            BY <1>2, <1>3, <2>2, <2>5 DEF RInv, RoomPlayersLive, Open
        <3> QED
            BY <3>1, <3>2 DEF RInv
    <2>7. SessionsBound'
        BY <1>2, <1>3, <2>2 DEF SInv, SessionsBound, vars
    <2>8. NoBoundLeak'
        <3> SUFFICES ASSUME NEW s \in bound, kcp.m_mapSessFd[s] # NULL, Alive
                     PROVE  \E p \in Registered' : pm.obj[p].m_sessid = s
            BY <1>2, <2>2 DEF NoBoundLeak, Alive, vars
        <3>1. PICK p \in Registered : pm.obj[p].m_sessid = s
            BY <1>3 DEF SInv, NoBoundLeak
        <3>2. s \in Sess
            BY <1>3, BoundIsSess
        <3>3. rawGetConn(kcp, pm.obj[current].m_sessid) = NULL
            BY <1>2 DEF GInv, GameInv, CurrentInv
        <3>4. p # current
            BY <3>1, <3>2, <3>3 DEF rawGetConn
        <3>5. IsPlayer(pm', p)
            BY <1>4, <2>2, <3>4, RegisteredIs DEF IsPlayer
        <3> QED
            BY <3>1, <3>5, RegisteredIs
    <2>9. FramesReach'
        BY <1>6, <2>2
    <2> QED
        BY <1>7, <2>4, <2>6, <2>7, <2>8, <2>9 DEF GameInv, SInv
<1> QED
    BY <1>8, <1>9

(* A registration gives a player of a room a session, and his room the      *)
(* connection of it; the session he had is closed.                          *)
LEMMA RegInv == GInv /\ Reg => GameInv'
<1> SUFFICES ASSUME GInv, Reg PROVE GameInv'
    OBVIOUS
<1>1. PICK fd \in Fds, rm \in RoomIds, r \in Rids :
          /\ mainPc = "update" /\ NextFd(fd)
          /\ Open(rm) /\ rooms[rm].m_ridPMap[r] # NULL
          /\ \E pid \in Pids :
                 LET p   == rooms[rm].m_ridPMap[r]
                     s   == kcp.conn[kcp.m_mapConn[fd]].m_id
                     old == pm.obj[p].m_sessid
                     m   == UpdatePlayer(pm, p, pid)
                 IN  /\ cursor' = fd
                     /\ kcp' = setSessid(kcp, old, s)
                     /\ IF setSessidAsserts(kcp, old, s)
                        THEN /\ mainPc' = mainPc /\ bound' = bound \cup {s}
                             /\ pm' = [m EXCEPT !.obj[p].m_sessid = s,
                                                !.obj[p].m_off = FALSE]
                             /\ rooms' = [rooms EXCEPT ![rm] = EntersWith(@, p, pm')]
                        ELSE /\ mainPc' = "abort" /\ bound' = bound
                             /\ UNCHANGED <<pm, rooms>>
    BY DEF Reg
<1> DEFINE p   == rooms[rm].m_ridPMap[r]
           s   == kcp.conn[kcp.m_mapConn[fd]].m_id
           old == pm.obj[p].m_sessid
<1>2. PICK pid \in Pids :
          /\ kcp' = setSessid(kcp, old, s)
          /\ IF setSessidAsserts(kcp, old, s)
             THEN /\ mainPc' = mainPc /\ bound' = bound \cup {s}
                  /\ pm' = Registers(pm, p, pid, s)
                  /\ rooms' = [rooms EXCEPT ![rm] = EntersWith(rooms[rm], p, pm')]
             ELSE /\ mainPc' = "abort" /\ bound' = bound
                  /\ UNCHANGED <<pm, rooms>>
    BY <1>1 DEF Registers
<1>3. /\ UNCHANGED <<todo, removing, current>>
      /\ mainPc = "update" /\ todo = {} /\ current = NULL
    <2>1. UNCHANGED todoVars
        BY Zenon DEF Reg
    <2>2. todo = {}
        BY <1>1 DEF GInv, GameInv, TodoInv
    <2> QED
        BY <1>1, <2>1, <2>2, NobodyCurrent DEF todoVars, GInv, GameInv
<1>4. /\ pm \in PlayerMgr /\ Filed(pm) /\ rooms \in [RoomIds -> RoomObj \cup {NULL}]
      /\ GameTypeOK /\ IInv /\ PInv /\ RInv /\ SInv /\ Good(kcp)
    BY IInvGood DEF GInv, GameInv, PInv, GameTypeOK
<1>5. kcp.m_mapConn[fd] # NULL
    BY <1>1 DEF NextFd, Ahead
<1>6. CASE ~setSessidAsserts(kcp, old, s)
    <2>1. /\ mainPc' = "abort" /\ UNCHANGED <<pm, rooms, bound>>
        BY <1>2, <1>6
    <2>2. PInv' /\ RInv' /\ SessionsBound'
        BY <1>3, <1>4, <2>1 DEF PInv, GameTypeOK, RInv, RoomPlayersLive, OneRoom, Open,
                                SInv, SessionsBound
    <2>3. NoBoundLeak' /\ FramesReach'
        BY <2>1 DEF NoBoundLeak, FramesReach, Alive
    <2>4. TodoInv' /\ CurrentInv'
        BY <1>3, <2>1 DEF TodoInv, CurrentInv
    <2> QED
        BY <2>2, <2>3, <2>4 DEF GameInv, SInv
<1>7. CASE setSessidAsserts(kcp, old, s)
    <2>1. /\ mainPc' = "update" /\ bound' = bound \cup {s}
          /\ pm' = Registers(pm, p, pid, s)
          /\ rooms' = [rooms EXCEPT ![rm] = EntersWith(rooms[rm], p, pm')]
        BY <1>2, <1>3, <1>7
    <2>2. /\ s \in Sess /\ s # old /\ kcp' \in Tables
          /\ \A t \in Sess : kcp'.m_mapSessFd[t] = IF t = old THEN NULL
                                                   ELSE kcp.m_mapSessFd[t]
        <3>1. kcp' = setSessid(kcp, old, s) /\ s = kcp.conn[kcp.m_mapConn[fd]].m_id
            BY <1>2
        <3> HIDE DEF s, old
        <3>2. AfterSetSessid(kcp, kcp', fd, old, s)
            BY <1>4, <1>5, <3>1, SetSessidGood
        <3> QED
            BY <1>7, <3>2 DEF AfterSetSessid, Good
    <2>3. /\ p = pm.m_ridPMap[r] /\ p \in Objs /\ p # NULL
          /\ pm.obj[p].m_rid = r /\ pm.m_ridPMap[r] # NULL
          /\ pid \in Pids
        BY <1>1, <1>4, InRoom
    <2>4. s \in 0..MaxSess
        BY <2>2 DEF Sess
    <2> HIDE DEF s
    <2>5. /\ pm' \in PlayerMgr
          /\ \A q \in Rids : pm'.m_ridPMap[q] = IF q = r THEN p ELSE pm.m_ridPMap[q]
          /\ pm'.obj[p].m_pid = pid /\ pm'.obj[p].m_rid = r /\ pm'.obj[p].m_sessid = s
          /\ \A o \in Objs : o # p => pm'.obj[o] = pm.obj[o]
          /\ \A q \in Pids : pm'.m_pidPMap[q] =
                 IF q = pid THEN p ELSE IF q = pm.obj[p].m_pid THEN NULL
                 ELSE pm.m_pidPMap[q]
        BY <1>4, <2>1, <2>3, <2>4, RegistersFields
    <2>6. Filed(pm')
        BY <1>4, <2>1, <2>3, <2>4, RegistersFiled
    <2>7. \A q \in Rids : pm'.m_ridPMap[q] = pm.m_ridPMap[q]
        BY <2>3, <2>5
    <2>8. rooms[rm] \in RoomObj
        BY <1>1, <1>4, RoomFields
    <2>9. /\ EntersWith(rooms[rm], p, pm') \in RoomObj
          /\ \A q \in Rids : EntersWith(rooms[rm], p, pm').m_ridPMap[q] =
                 IF q = r THEN p ELSE rooms[rm].m_ridPMap[q]
          /\ \A q \in Pids : EntersWith(rooms[rm], p, pm').m_pidConn[q] =
                 IF q = pid THEN kcp'.m_mapSessFd[s] ELSE rooms[rm].m_pidConn[q]
        BY <2>2, <2>3, <2>5, <2>8, EntersFields
    <2>10. /\ rooms' \in [RoomIds -> RoomObj \cup {NULL}]
           /\ rooms'[rm] = EntersWith(rooms[rm], p, pm')
           /\ \A a \in RoomIds : a # rm => rooms'[a] = rooms[a]
        BY <1>4, <2>1, <2>9
    <2>11. \A a \in RoomIds : Open(a)' => Open(a) /\ \A q \in Rids :
               rooms'[a].m_ridPMap[q] = rooms[a].m_ridPMap[q]
        BY <1>1, <2>9, <2>10 DEF Open
    <2>19. ASSUME NEW x \in Pids, x # pid
           PROVE  rooms'[rm].m_pidConn[x] = rooms[rm].m_pidConn[x]
        <3>1. EntersWith(rooms[rm], p, pm').m_pidConn[x] = rooms[rm].m_pidConn[x]
            BY <2>9, <2>19
        <3> QED
            BY <2>10, <3>1
    <2>12. PInv'
        BY <1>3, <1>4, <2>5, <2>6, <2>10 DEF PInv, GameTypeOK
    <2>13. RoomPlayersLive'
        BY <1>4, <2>7, <2>11 DEF RInv, RoomPlayersLive
    <2>14. OneRoom'
        BY <1>4, <2>11 DEF RInv, OneRoom
    <2>15. SessionsBound'
        BY <1>4, <2>1, <2>5 DEF SInv, SessionsBound
    <2>16. NoBoundLeak'
        <3> SUFFICES ASSUME NEW t \in bound \cup {s}, kcp'.m_mapSessFd[t] # NULL
                     PROVE  \E o \in Registered' : pm'.obj[o].m_sessid = t
            BY <2>1 DEF NoBoundLeak
        <3>1. CASE t = s
            <4>1. IsPlayer(pm', p)
                BY <2>3, <2>5 DEF IsPlayer
            <4> QED
                BY <2>5, <3>1, <4>1, RegisteredIs
        <3>2. CASE t # s
            <4>1. t \in bound /\ t \in Sess
                BY <1>4, <3>2, BoundIsSess
            <4>2. t # old /\ kcp.m_mapSessFd[t] # NULL
                BY <2>2, <4>1
            <4>3. PICK o \in Registered : pm.obj[o].m_sessid = t
                BY <1>3, <1>4, <4>1, <4>2 DEF SInv, NoBoundLeak, Alive
            <4>4. PICK q \in Rids : pm.m_ridPMap[q] # NULL /\ pm.m_ridPMap[q] = o
                BY RegisteredIs DEF IsPlayer
            <4>5. o \in Objs /\ IsPlayer(pm', o)
                BY <1>4, <2>7, <4>4, PmFields DEF IsPlayer
            <4>6. o # p
                BY <4>2, <4>3
            <4> QED
                BY <2>5, <4>3, <4>5, <4>6, RegisteredIs
        <3> QED
            BY <3>1, <3>2
    <2>17. FramesReach'
        <3> SUFFICES ASSUME NEW a \in RoomIds, Open(a)', NEW q \in Rids,
                            rooms'[a].m_ridPMap[q] # NULL,
                            Online(rooms[a].m_ridPMap[q])', Found(rooms[a].m_ridPMap[q])'
                     PROVE  rooms'[a].m_pidConn[pm'.obj[rooms'[a].m_ridPMap[q]].m_pid]
                              = kcp'.m_mapSessFd[pm'.obj[rooms'[a].m_ridPMap[q]].m_sessid]
            BY DEF FramesReach
        <3> DEFINE o == rooms[a].m_ridPMap[q]
        <3>1. Open(a) /\ rooms'[a].m_ridPMap[q] = o /\ o # NULL
            BY <2>11
        <3>2. /\ o = pm.m_ridPMap[q] /\ o \in Objs /\ pm.obj[o].m_rid = q
              /\ pm.obj[o].m_pid \in Pids
            BY <1>4, <3>1, InRoom
        <3>3. CASE q = r
            <4>1. a = rm
                BY <1>1, <1>4, <3>1, <3>3 DEF RInv, OneRoom
            <4>2. o = p
                BY <2>3, <3>2, <3>3
            <4> QED
                BY <2>3, <2>5, <2>9, <2>10, <3>1, <4>1, <4>2
        <3>4. CASE q # r
            <4>1. o # p
                BY <2>3, <3>2, <3>4
            <4>2. pm'.obj[o] = pm.obj[o]
                BY <2>5, <3>2, <4>1
            <4>3. pm.obj[o].m_pid # pid /\ Found(o)
                <5> DEFINE z == pm.obj[o].m_pid
                <5>1. z \in Pids /\ pm'.m_pidPMap[z] = o
                    BY <3>1, <3>2, <4>2 DEF Found
                <5> HIDE DEF z, o
                <5>2. z # pid /\ pm.m_pidPMap[z] = o
                    BY <2>5, <3>1, <4>1, <5>1
                <5> QED
                    BY <5>2 DEF Found, z
            <4> DEFINE t == pm.obj[o].m_sessid
            <4>4. t \in Sess /\ kcp'.m_mapSessFd[t] # NULL /\ ~pm.obj[o].m_off
                <5>1. t \in bound \cup {0}
                    BY <1>4, <3>2 DEF SInv, SessionsBound
                <5>2. t # 0 /\ kcp'.m_mapSessFd[t] # NULL /\ ~pm.obj[o].m_off
                    BY <3>1, <4>2 DEF Online
                <5>3. bound \subseteq Sess
                    BY <1>4, BoundIsSess
                <5> HIDE DEF t
                <5> QED
                    BY <5>1, <5>2, <5>3
            <4>5. kcp'.m_mapSessFd[t] = kcp.m_mapSessFd[t] /\ t # 0
                <5>1. t \in Sess /\ kcp'.m_mapSessFd[t] # NULL
                    BY <4>4
                <5> HIDE DEF t, old
                <5>2. kcp'.m_mapSessFd[t] = kcp.m_mapSessFd[t]
                    BY <2>2, <5>1
                <5>3. t # 0
                    BY <5>1 DEF Sess
                <5> QED
                    BY <5>2, <5>3
            <4>6. Online(o)
                BY <4>4, <4>5 DEF Online
            <4>7. rooms[a].m_pidConn[pm.obj[o].m_pid] = kcp.m_mapSessFd[t]
                BY <1>3, <1>4, <3>1, <4>3, <4>6 DEF SInv, FramesReach, Alive
            <4>8. rooms'[a].m_pidConn[pm.obj[o].m_pid] = rooms[a].m_pidConn[pm.obj[o].m_pid]
                <5> DEFINE z == pm.obj[o].m_pid
                <5>1. z \in Pids /\ z # pid
                    BY <3>2, <4>3
                <5> HIDE DEF z
                <5>2. rooms'[a].m_pidConn[z] = rooms[a].m_pidConn[z]
                    <6>1. CASE a = rm
                        BY <2>19, <5>1, <6>1
                    <6>2. CASE a # rm
                        BY <2>10, <6>2
                    <6> QED
                        BY <6>1, <6>2
                <5> QED
                    BY <5>2 DEF z
            <4> QED
                BY <3>1, <4>2, <4>5, <4>7, <4>8
        <3> QED
            BY <3>3, <3>4
    <2>18. TodoInv' /\ CurrentInv'
        BY <1>3, <2>1 DEF TodoInv, CurrentInv
    <2> QED
        BY <2>12, <2>13, <2>14, <2>15, <2>16, <2>17, <2>18 DEF GameInv, RInv, SInv
<1> QED
    BY <1>6, <1>7

(* The steps of the session table under the game, where no session is bound *)
(* or looked up: they only take entries of sessions away, or number new     *)
(* ones, and CloseDelete takes away that of the player who goes offline.    *)
LEMMA SessionsInv == GInv /\ Sessions => GameInv'
<1> SUFFICES ASSUME GInv, Sessions PROVE GameInv'
    OBVIOUS
<1>1. /\ UNCHANGED <<pm, rooms, todo, removing, current>>
      /\ IInv /\ PInv /\ RInv /\ SInv /\ TodoInv /\ CurrentInv
    BY DEF Sessions, gameVars, todoVars, GInv, GameInv
<1>2. Fate /\ bound' = bound
    BY <1>1, SessionsFate
<1>3. \A s \in bound : /\ s \in Sess
                       /\ kcp'.m_mapSessFd[s] \in {NULL, kcp.m_mapSessFd[s]}
    BY <1>1, <1>2, BoundIsSess DEF Fate
<1>4. /\ Alive' => Alive
      /\ mainPc' = "close" => mainPc = "close" /\ closing' = closing
      /\ todo # {} => mainPc' \in {"idle", "close"}
      /\ mainPc = "close" /\ mainPc' = "idle" => CloseDelete
    <2>1. CASE EpNext \/ ClockNext
        BY <1>1, <2>1 DEF EpNext, ClockNext, EpWake, EpAccept, EpCheckTimeout, EpReap, EpDone,
                          FreqElapsed, Expire, Alive, TodoInv
    <2>2. CASE UpdateBegin /\ Free
        BY <1>1, <2>2 DEF UpdateBegin, Free, Alive
    <2>3. CASE UpdateConn \/ UpdateEnd
        BY <1>1, <2>3 DEF UpdateConn, UpdateEnd, Alive, TodoInv
    <2>4. CASE CloseDelete
        BY <1>1, <2>4 DEF CloseDelete, Alive
    <2> QED
        BY <2>1, <2>2, <2>3, <2>4 DEF Sessions
<1>5. PInv'
    BY <1>1 DEF PInv, GameTypeOK
<1>6. RInv'
    BY <1>1 DEF RInv, RoomPlayersLive, OneRoom, Open
<1>7. SessionsBound'
    BY <1>1, <1>2 DEF SInv, SessionsBound
<1>8. NoBoundLeak'
    BY <1>1, <1>2, <1>3, <1>4 DEF SInv, NoBoundLeak, Registered
<1>9. FramesReach'
    <2> SUFFICES ASSUME NEW a \in RoomIds, Open(a), NEW r \in Rids,
                        rooms[a].m_ridPMap[r] # NULL, Online(rooms[a].m_ridPMap[r])',
                        Found(rooms[a].m_ridPMap[r])', Alive'
                 PROVE  rooms[a].m_pidConn[pm.obj[rooms[a].m_ridPMap[r]].m_pid]
                            = kcp'.m_mapSessFd[pm.obj[rooms[a].m_ridPMap[r]].m_sessid]
        BY <1>1 DEF FramesReach, Open
    <2> DEFINE p == rooms[a].m_ridPMap[r]
               s == pm.obj[p].m_sessid
    <2>1. p \in Objs
        BY <1>1, InRoom
    <2>2. /\ ~pm.obj[p].m_off /\ s # 0 /\ kcp'.m_mapSessFd[s] # NULL
        BY <1>1 DEF Online
    <2>3. s \in bound
        BY <1>1, <2>1, <2>2 DEF SInv, SessionsBound
    <2>4. kcp'.m_mapSessFd[s] = kcp.m_mapSessFd[s]
        BY <1>3, <2>2, <2>3
    <2>5. Online(p) /\ Found(p)
        BY <1>1, <2>2, <2>4 DEF Online, Found
    <2> QED
        BY <1>1, <1>4, <2>4, <2>5 DEF SInv, FramesReach
<1>10. TodoInv'
    BY <1>1, <1>4 DEF TodoInv, Open
<1>11. CurrentInv'
    <2> SUFFICES ASSUME current # NULL PROVE CurrentInv'
        BY <1>1 DEF CurrentInv
    <2> DEFINE s == pm.obj[current].m_sessid
    <2>1. /\ \E r \in todo : First(r) /\ pm.m_ridPMap[r] = current
          /\ pm.obj[current].m_off
          /\ mainPc = "idle" => rawGetConn(kcp, s) = NULL
          /\ mainPc = "close" =>
                 closing.sess = s /\ kcp.m_mapSessFd[s] \in {NULL, closing.conn}
        BY <1>1 DEF CurrentInv
    <2>2. \E r \in todo' : First(r)' /\ pm'.m_ridPMap[r] = current
        BY <1>1, <2>1 DEF First
    <2>3. current \in Objs
        BY <1>1 DEF PInv, GameTypeOK
    <2>4. s \in Sess => s \in bound
        BY <1>1, <2>3 DEF SInv, SessionsBound, Sess
    <2>5. mainPc \in {"idle", "close"}
        BY <1>1, <2>1 DEF TodoInv
    <2> HIDE DEF s
    <2>6. CASE mainPc = "idle"
        BY <1>1, <1>3, <1>4, <2>1, <2>2, <2>4, <2>6 DEF CurrentInv, rawGetConn, s
    <2>7. CASE mainPc = "close" /\ mainPc' = "close"
        <3>1. s \in Sess
            BY <1>1, <2>1, <2>7, BoundIsSess DEF IInv, CloseInv
        <3>2. kcp'.m_mapSessFd[s] \in {NULL, closing'.conn} /\ closing'.sess = s
            BY <1>3, <1>4, <2>1, <2>4, <2>7, <3>1
        <3> QED
            BY <1>1, <2>1, <2>2, <2>7, <3>2 DEF CurrentInv, s
    <2>8. CASE mainPc = "close" /\ mainPc' # "close"
        <3>1. mainPc' = "idle" /\ CloseDelete
            BY <1>4, <2>1, <2>8
        <3> DEFINE fd == kcp.conn[closing.conn].m_fd
        <3>2. s \in Sess /\ fd \in Fds /\ closing.sess = s
            BY <1>1, <2>1, <2>8, BoundIsSess DEF IInv, CloseInv
        <3>3. kcp' = delConn(kcp, fd)
            BY <3>1 DEF CloseDelete
        <3>4. kcp.m_mapSessFd[s] # NULL => kcp.conn[kcp.m_mapSessFd[s]].m_fd = fd
            BY <2>1, <2>8
        <3> HIDE DEF fd
        <3>5. Good(kcp)
            BY <1>1, IInvGood
        <3>6. kcp'.m_mapSessFd[s] = NULL
            BY <3>2, <3>3, <3>4, <3>5, DelConnGood
        <3> QED
            BY <1>1, <2>1, <2>2, <3>1, <3>6 DEF CurrentInv, rawGetConn, s
    <2> QED
        BY <2>5, <2>6, <2>7, <2>8
<1> QED
    BY <1>5, <1>6, <1>7, <1>8, <1>9, <1>10, <1>11 DEF GameInv, RInv, SInv

(* A step that changes nothing.                                             *)
LEMMA QuietInv == GInv /\ UNCHANGED allVars => GameInv'
<1> SUFFICES ASSUME GInv, UNCHANGED allVars PROVE GameInv'
    OBVIOUS
<1>1. UNCHANGED <<kcp, mainPc, closing, bound, pm, rooms, todo, removing, current>>
    BY DEF allVars, vars, gameVars, todoVars
<1>2. PInv'
    BY <1>1 DEF GInv, GameInv, PInv, GameTypeOK
<1>3. RInv'
    BY <1>1 DEF GInv, GameInv, RInv, RoomPlayersLive, OneRoom, Open
<1>4. SInv'
    BY <1>1, SInvKeeps DEF GInv, GameInv
<1>5. TodoInv' /\ CurrentInv'
    BY <1>1 DEF GInv, GameInv, TodoInv, CurrentInv, First, Open
<1> QED
    BY <1>2, <1>3, <1>4, <1>5 DEF GameInv

(* The game starts with nobody in it.                                       *)
LEMMA InitGInv == GameInit => GInv
<1> SUFFICES ASSUME GameInit PROVE GInv
    OBVIOUS
<1>1. /\ IInv /\ bound = {} /\ mainPc = "idle"
    BY InitIInv DEF GameInit, Init
<1>2. /\ pm.m_ridPMap = [r \in Rids |-> NULL] /\ pm.m_pidPMap = [q \in Pids |-> NULL]
      /\ pm.obj = [p \in Objs |-> [m_pid |-> NULL, m_rid |-> NULL,
                                   m_sessid |-> 0, m_off |-> FALSE]]
      /\ pm.m_pool = <<>>
      /\ rooms = [rm \in RoomIds |-> NULL]
      /\ todo = {} /\ removing = FALSE /\ current = NULL
    BY DEF GameInit
<1>3. [m_pid |-> NULL, m_rid |-> NULL, m_sessid |-> 0, m_off |-> FALSE] \in PlayerObj
    BY ConnsAssumption DEF PlayerObj
<1>4. pm \in PlayerMgr
    <2>1. pm.obj \in [Objs -> PlayerObj] /\ pm.m_pool \in Seq(Objs)
        BY <1>2, <1>3
    <2>2. /\ pm.m_ridPMap \in [Rids -> Objs \cup {NULL}]
          /\ pm.m_pidPMap \in [Pids -> Objs \cup {NULL}]
        BY <1>2
    <2>3. pm = [m_ridPMap |-> pm.m_ridPMap, m_pidPMap |-> pm.m_pidPMap,
                obj |-> pm.obj, m_pool |-> pm.m_pool]
        BY DEF GameInit
    <2> QED
        BY <2>1, <2>2, <2>3 DEF PlayerMgr
<1>5. Filed(pm)
    BY <1>2 DEF Filed, IsPlayer
<1>6. PInv
    BY <1>2, <1>4, <1>5 DEF PInv, GameTypeOK
<1>7. \A rm \in RoomIds : ~Open(rm)
    BY <1>2 DEF Open
<1>8. RInv /\ SInv
    BY <1>1, <1>2, <1>7 DEF RInv, SInv, RoomPlayersLive, OneRoom, SessionsBound, NoBoundLeak,
                            FramesReach
<1>9. TodoInv /\ CurrentInv
    BY <1>1, <1>2 DEF TodoInv, CurrentInv
<1> QED
    BY <1>1, <1>6, <1>8, <1>9 DEF GInv, GameInv

(* Every step keeps GInv.                                                   *)
LEMMA GameNextGInv == GInv /\ [GameNext]_allVars => GInv'
<1> SUFFICES ASSUME GInv, [GameNext]_allVars PROVE GInv'
    OBVIOUS
<1>1. [Next]_vars
    BY GameStep DEF GInv, GameInv, PInv, SInv
<1>2. IInv'
    BY <1>1, NextIInv DEF GInv
<1>3. GameInv'
    BY NewRoomInv, OfflinePInv, RoomOverInv, OfflineNobodyInv, OfflineInv, OfflineDoneInv,
       RegInv, SessionsInv, QuietInv DEF GameNext
<1> QED
    BY <1>2, <1>3 DEF GInv

(* The inductive invariant holds in every reachable state of the game.      *)
THEOREM GameInductive == GameSpec => []GInv
BY InitGInv, GameNextGInv, PTL DEF GameSpec

(* Of its session table the game does only what KcpServer lets a main       *)
(* thread do: Offline() closes, and setSessid replaces, bound sessions only *)
(* (rpchandle.cpp, core/player.cpp).  So each theorem about KcpServer holds *)
(* of the tables of the game.                                               *)
THEOREM GameUsesSessions == GameSpec => UsesSessions
<1>1. GameInit => Init
    BY DEF GameInit
<1>2. GInv /\ [GameNext]_allVars => [Next]_vars
    BY GameStep DEF GInv, GameInv, PInv, SInv
<1> QED
    BY <1>1, <1>2, GameInductive, PTL DEF GameSpec, UsesSessions, Spec

(* What playerMgr's two maps find is a registered player of that rid or     *)
(* pid, and the pool stays sound, whatever the gate asks and under whatever *)
(* pid clients register (AppendP, UpdatePlayer, RemoveP, popPlayer).        *)
THEOREM PlayersAlwaysSound == GameSpec => []PlayersSound
<1>1. GInv => PlayersSound
    BY PInvSound DEF GInv, GameInv
<1> QED
    BY <1>1, GameInductive, PTL

(* No playerObj is recycled while a room still points to it (RawOver, then  *)
(* RemoveP).                                                                *)
THEOREM RoomPlayersAlwaysLive == GameSpec => []RoomPlayersLive
<1>1. GInv => RoomPlayersLive
    BY DEF GInv, GameInv, RInv
<1> QED
    BY <1>1, GameInductive, PTL

(* Whoever is exempt from the timeout has a player who will close him:      *)
(* Offline() before RemoveP, and setSessid before the next session.         *)
THEOREM NeverBoundLeak == GameSpec => []NoBoundLeak
<1>1. GInv => NoBoundLeak
    BY DEF GInv, GameInv, SInv
<1> QED
    BY <1>1, GameInductive, PTL

(* The connection entry a room keeps for an online player is that of his    *)
(* open session, as long as playerMgr finds him under his pid (EnterP after *)
(* setSessid in processKcp); who took that pid is found there instead.      *)
THEOREM FramesAlwaysReach == GameSpec => []FramesReach
<1>1. GInv => FramesReach
    BY DEF GInv, GameInv, SInv
<1> QED
    BY <1>1, GameInductive, PTL
=============================================================================

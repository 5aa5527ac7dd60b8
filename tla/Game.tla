-------------------------------- MODULE Game --------------------------------
(***************************************************************************)
(* Players and rooms of the game process on top of its session table:      *)
(* playerMgr and its pool (core/player.cpp), the members and the           *)
(* connection entries of the rooms (core/room.cpp), and the handlers of    *)
(* rpchandle.cpp that tie them to sessions.                                *)
(*                                                                         *)
(* The module extends KcpServer: its ep thread and its clock run as they   *)
(* are; its main thread is refined, so that it binds and closes just the   *)
(* sessions that players have.  What a room does with frames is in Room.   *)
(***************************************************************************)
EXTENDS KcpServer

CONSTANTS Objs,      \* the playerObj objects there can be
          RoomIds,
          Rids,      \* players
          Pids,      \* what a pid can be: NewRoom's are net connections,
                     \* those of message 2004 whatever the client writes
          Rosters    \* what NewRoom may be asked: sequences of [rid, pid]

(* The gate names no player and no net connection twice in a roster.        *)
ASSUME GameAssumption ==
    /\ NULL \notin Objs \cup Rids \cup Pids /\ Rids \subseteq Nat
    /\ \A ros \in Rosters :
           /\ ros \in Seq([rid : Rids, pid : Pids])
           /\ \A i, j \in DOMAIN ros :
                  ros[i].rid = ros[j].rid \/ ros[i].pid = ros[j].pid => i = j

VARIABLES
    pm,       \* playerMgr and the playerObj objects
    rooms,    \* roomMgr::m_idMap: a roomObj, or NULL
    todo,     \* the players a handler still has to take offline
    removing, \* whether it removes them afterwards (RawOver)
    current   \* the one whose closeConn is under way

todoVars == <<todo, removing, current>>
gameVars == <<pm, rooms, todoVars>>
allVars  == <<vars, gameVars>>

PlayerObj == [m_pid : Pids \cup {NULL}, m_rid : Rids \cup {NULL},
              m_sessid : 0..MaxSess, m_off : BOOLEAN]

PlayerMgr == [m_ridPMap : [Rids -> Objs \cup {NULL}],
              m_pidPMap : [Pids -> Objs \cup {NULL}],
              obj       : [Objs -> PlayerObj],
              m_pool    : Seq(Objs)]

RoomObj == [m_ridPMap : [Rids -> Objs \cup {NULL}],
            m_pidConn : [Pids -> Conns \cup {NULL}]]

Open(rm) == rooms[rm] # NULL

-----------------------------------------------------------------------------
(* playerMgr. *)

AppendP(m, p) == [m EXCEPT !.m_ridPMap[m.obj[p].m_rid] = p,
                           !.m_pidPMap[m.obj[p].m_pid] = p]

(* popPlayer n times: the front of the pool, or objects that were never     *)
(* made when it is empty (none is left: a bound).                           *)
popPlayer(m, n) ==
    {g \in [1..n -> Objs] :
        /\ \A i \in 1..n : IF i \in DOMAIN m.m_pool THEN g[i] = m.m_pool[i]
                                                    ELSE m.obj[g[i]].m_rid = NULL
        /\ \A i, j \in 1..n : g[i] = g[j] => i = j}

(* init and AppendP of the objects g: what NewRoom does for its players. *)
Join(m, ros, g) ==
    [m_ridPMap |-> [r \in Rids |-> IF \E i \in DOMAIN ros : ros[i].rid = r
                                   THEN g[CHOOSE i \in DOMAIN ros : ros[i].rid = r]
                                   ELSE m.m_ridPMap[r]],
     m_pidPMap |-> [q \in Pids |-> IF \E i \in DOMAIN ros : ros[i].pid = q
                                   THEN g[CHOOSE i \in DOMAIN ros : ros[i].pid = q]
                                   ELSE m.m_pidPMap[q]],
     obj       |-> [p \in Objs |-> IF \E i \in DOMAIN ros : g[i] = p
                                   THEN LET e == ros[CHOOSE i \in DOMAIN ros : g[i] = p]
                                        IN  [m_pid |-> e.pid, m_rid |-> e.rid,
                                             m_sessid |-> 0, m_off |-> FALSE]
                                   ELSE m.obj[p]],
     m_pool    |-> SubSeq(m.m_pool, Len(ros) + 1, Len(m.m_pool))]

(* Mutant of UpdatePlayer: the entry of the old pid is not erased.          *)
UpdatePlayerKeepsPid(m, p, pid) == AppendP([m EXCEPT !.obj[p].m_pid = pid], p)

UpdatePlayer(m, p, pid) ==
    AppendP([m EXCEPT !.m_pidPMap[m.obj[p].m_pid] = NULL, !.obj[p].m_pid = pid], p)

(* RemoveP(rid) after Offline(): out of the maps, into the pool. *)
Erase(m, p) == [m EXCEPT !.m_ridPMap[m.obj[p].m_rid] = NULL,
                         !.m_pidPMap[m.obj[p].m_pid] = NULL,
                         !.m_pool = Append(@, p)]

-----------------------------------------------------------------------------
(* The calls of the gate, handled on the main thread between two updates of *)
(* the sessions.                                                            *)

Free == mainPc = "idle" /\ todo = {}

(* The gate opens a room that is not open, for players who are in none.     *)
GateDiscipline(rm, ros) ==
    ~Open(rm) /\ \A i \in DOMAIN ros : pm.m_ridPMap[ros[i].rid] = NULL

(* NewRoom: a player object for each player, and EnterP without connection. *)
NewRoom ==
    /\ Free
    /\ \E rm \in RoomIds, ros \in Rosters : \E g \in popPlayer(pm, Len(ros)) :
           /\ GateDiscipline(rm, ros)
           /\ pm' = Join(pm, ros, g)
           /\ rooms' = [rooms EXCEPT ![rm] =
                  [m_ridPMap |-> [r \in Rids |->
                       IF \E i \in DOMAIN ros : ros[i].rid = r
                       THEN pm'.m_ridPMap[r] ELSE NULL],
                   m_pidConn |-> [q \in Pids |-> NULL]]]
    /\ UNCHANGED <<vars, todoVars>>

(* OfflineP(rid), up to Offline().  The "leave" command is in Room. *)
OfflineP ==
    /\ Free
    /\ \E r \in Rids : todo' = {r} /\ removing' = FALSE
    /\ UNCHANGED <<vars, pm, rooms, current>>

(* roomMgr::Update finds a room over: RawOver is to remove its players; the *)
(* room leaves m_idMap and returns to its pool.                             *)
RoomOver ==
    /\ Free
    /\ \E rm \in RoomIds :
           /\ Open(rm)
           /\ todo' = {r \in Rids : rooms[rm].m_ridPMap[r] # NULL}
           /\ rooms' = [rooms EXCEPT ![rm] = NULL]
    /\ removing' = TRUE
    /\ UNCHANGED <<vars, pm, current>>

-----------------------------------------------------------------------------
(* playerObj::Offline() for the first of todo, in the order of the rids,    *)
(* and what its caller does afterwards.                                     *)
First(r) == r \in todo /\ \A q \in todo : r =< q

(* A player playerMgr does not know: GetPByRid finds nothing. *)
OfflineNobody ==
    /\ mainPc = "idle" /\ current = NULL
    /\ \E r \in Rids : First(r) /\ pm.m_ridPMap[r] = NULL /\ todo' = todo \ {r}
    /\ UNCHANGED <<vars, pm, rooms, removing, current>>

(* Mutant of CloseOf: Offline() leaves the session alone.                   *)
CloseOfNothing(s) == UNCHANGED vars

(* Mutant of CloseOf: rawCloseConn, as setSessid does with the mutex held.  *)
CloseOfRaw(s) == /\ kcp' = rawCloseConn(kcp, s)
                 /\ UNCHANGED <<epPc, m_lastTick, delQue, mainPc, cursor, closing, bound, swept>>

(* closeConn(s) up to its unlock; nothing when the session is closed. *)
CloseOf(s) ==
    IF rawGetConn(kcp, s) = NULL THEN UNCHANGED vars
    ELSE CloseLookup /\ closing'.sess = s

Offline ==
    /\ mainPc = "idle" /\ current = NULL
    /\ \E r \in Rids :
           LET p == pm.m_ridPMap[r]
           IN  /\ First(r) /\ p # NULL
               /\ current' = p
               /\ pm' = [pm EXCEPT !.obj[p].m_off = TRUE]
               /\ CloseOf(pm.obj[p].m_sessid)
    /\ UNCHANGED <<rooms, todo, removing>>

(* Mutant of OfflineDone: a player who goes offline is removed.             *)
OfflineDoneErases ==
    /\ mainPc = "idle" /\ current # NULL
    /\ pm' = Erase(pm, current)
    /\ \E r \in Rids : First(r) /\ todo' = todo \ {r}
    /\ current' = NULL
    /\ UNCHANGED <<vars, rooms, removing>>

(* closeConn has returned. *)
OfflineDone ==
    /\ mainPc = "idle" /\ current # NULL
    /\ pm' = IF removing THEN Erase(pm, current) ELSE pm
    /\ \E r \in Rids : First(r) /\ todo' = todo \ {r}
    /\ current' = NULL
    /\ UNCHANGED <<vars, rooms, removing>>

-----------------------------------------------------------------------------
(* KCPServer::Update: message 2004 on the connection it stands on. Its pid  *)
(* is what the client wrote, another player's as well.                      *)

(* Mutant of EntersWith: EnterP is given no connection.                     *)
EntersWithout(room, p, m) == [room EXCEPT !.m_ridPMap[m.obj[p].m_rid] = p]

(* roomObj::EnterP(p, conn): c is the connection that setSessid bound. *)
EntersWith(room, p, m) ==
    [room EXCEPT !.m_ridPMap[m.obj[p].m_rid] = p,
                 !.m_pidConn[m.obj[p].m_pid] = kcp'.m_mapSessFd[m.obj[p].m_sessid]]

Reg ==
    /\ \E fd \in Fds, rm \in RoomIds, r \in Rids :
           /\ mainPc = "update" /\ NextFd(fd)
           /\ Open(rm) /\ rooms[rm].m_ridPMap[r] # NULL
           /\ \E pid \in Pids :
                  LET p   == rooms[rm].m_ridPMap[r]
                      s   == kcp.conn[kcp.m_mapConn[fd]].m_id
                      old == pm.obj[p].m_sessid
                      m   == UpdatePlayer(pm, p, pid)
                  IN  /\ cursor' = fd
                      /\ kcp' = setSessid(kcp, old, s)
                      /\ IF setSessidAsserts(kcp, old, s)
                         THEN /\ mainPc' = mainPc /\ bound' = bound \cup {s}
                              /\ pm' = [m EXCEPT !.obj[p].m_sessid = s,
                                                 !.obj[p].m_off = FALSE]
                              /\ rooms' = [rooms EXCEPT ![rm] = EntersWith(@, p, pm')]
                         ELSE /\ mainPc' = "abort" /\ bound' = bound
                              /\ UNCHANGED <<pm, rooms>>
    /\ UNCHANGED <<epPc, m_lastTick, delQue, closing, swept, todoVars>>

-----------------------------------------------------------------------------
GameInit ==
    /\ Init
    /\ pm = [m_ridPMap |-> [r \in Rids |-> NULL],
             m_pidPMap |-> [q \in Pids |-> NULL],
             obj       |-> [p \in Objs |-> [m_pid |-> NULL, m_rid |-> NULL,
                                            m_sessid |-> 0, m_off |-> FALSE]],
             m_pool    |-> <<>>]
    /\ rooms = [rm \in RoomIds |-> NULL]
    /\ todo = {} /\ removing = FALSE /\ current = NULL

(* The other steps of KcpServer, with the handlers of the gate only between *)
(* two updates.                                                             *)
Sessions ==
    /\ \/ EpNext \/ ClockNext
       \/ UpdateBegin /\ Free
       \/ UpdateConn \/ UpdateEnd \/ CloseDelete
    /\ UNCHANGED gameVars

GameNext == NewRoom \/ OfflineP \/ RoomOver \/ OfflineNobody \/ Offline \/ OfflineDone
               \/ Reg \/ Sessions

GameSpec == GameInit /\ [][GameNext]_allVars

-----------------------------------------------------------------------------
(* Properties. *)

GameTypeOK ==
    /\ pm \in PlayerMgr
    /\ rooms \in [RoomIds -> RoomObj \cup {NULL}]
    /\ todo \subseteq Rids /\ removing \in BOOLEAN
    /\ current \in Objs \cup {NULL}

(* Of the sessions, the game does only what KcpServer allows the main       *)
(* thread: what is shown of every main thread there holds of this one.      *)
UsesSessions == Spec

Registered == {pm.m_ridPMap[r] : r \in {q \in Rids : pm.m_ridPMap[q] # NULL}}

(* What playerMgr's maps find is a registered player of that rid or pid and *)
(* never an object in the pool, although with every registration a player   *)
(* gets the pid that his client names, his own, a new one or another's; and *)
(* an object is registered or pooled, never both, never pooled twice, never *)
(* lost (with the types of the game's state). Not every player is found     *)
(* under his pid: who registers with another's takes that entry over.       *)
PlayersSound ==
    /\ GameTypeOK
    /\ \A r \in Rids : pm.m_ridPMap[r] # NULL =>
           pm.obj[pm.m_ridPMap[r]].m_rid = r
    /\ \A q \in Pids : pm.m_pidPMap[q] # NULL =>
           /\ pm.m_pidPMap[q] \in Registered
           /\ pm.obj[pm.m_pidPMap[q]].m_pid = q
    /\ \A i, j \in DOMAIN pm.m_pool : pm.m_pool[i] = pm.m_pool[j] => i = j
    /\ \A p \in Objs : pm.obj[p].m_rid # NULL =>
           (p \in Registered <=> p \notin Objects(pm.m_pool))

(* A room holds the playerObj its player is registered with: the pointer in *)
(* m_ridPMap was not recycled for someone else while the room goes on.      *)
RoomPlayersLive ==
    \A rm \in RoomIds : Open(rm) =>
        \A r \in Rids : rooms[rm].m_ridPMap[r] # NULL =>
            rooms[rm].m_ridPMap[r] = pm.m_ridPMap[r]

(* An open session that is exempt from the timeout belongs to a registered  *)
(* player, who will close it when his room is over: none is left behind.    *)
NoBoundLeak ==
    \A s \in bound : kcp.m_mapSessFd[s] # NULL /\ Alive =>
        \E p \in Registered : pm.obj[p].m_sessid = s

(* The frames of the room reach a player who is online and is found under   *)
(* his pid: his connection entry is the UDPConn of his open session. Who     *)
(* registers under another player's pid takes his entries over, here and in *)
(* playerMgr, until that player registers again.                            *)
Online(p) == /\ ~pm.obj[p].m_off
             /\ pm.obj[p].m_sessid # 0
             /\ kcp.m_mapSessFd[pm.obj[p].m_sessid] # NULL

Found(p) == pm.m_pidPMap[pm.obj[p].m_pid] = p

FramesReach ==
    \A rm \in RoomIds : Open(rm) =>
        \A r \in Rids :
            LET p == rooms[rm].m_ridPMap[r]
            IN  p # NULL /\ Online(p) /\ Found(p) /\ Alive =>
                    rooms[rm].m_pidConn[pm.obj[p].m_pid]
                        = kcp.m_mapSessFd[pm.obj[p].m_sessid]

(* What assert(ref) of setSessid and assert(pconn) of processKcp say.       *)
RegistrationBinds == mainPc # "abort"
=============================================================================

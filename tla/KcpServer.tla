----------------------------- MODULE KcpServer -----------------------------
(***************************************************************************)
(* The session table of the KCP front end (kcpsess/sessServer.cpp): the    *)
(* UDPConn objects and their pool, the maps m_mapConn (fd -> conn) and     *)
(* m_mapSessFd (session -> conn), and the two threads that change them.    *)
(*                                                                         *)
(*   ep thread    epThread: epoll_wait, accept the new clients, then one   *)
(*                OnCheckTimeout, which collects the expired descriptors   *)
(*                under the mutex and deletes them one by one after        *)
(*                releasing it.                                            *)
(*   main thread  Update: the whole walk over m_mapConn under the mutex,   *)
(*                running the message handlers, which close and bind       *)
(*                sessions; closeConn: look the session up under the       *)
(*                mutex, release it, delete by descriptor under the mutex. *)
(*                                                                         *)
(* The operations on the tables are operators from a table state to a      *)
(* table state, so that a handler that makes several calls composes them.  *)
(***************************************************************************)
EXTENDS Integers, Sequences

CONSTANTS Conns,      \* the UDPConn objects there can be
          NULL,       \* no object
          MaxFd,      \* descriptors the kernel hands out are 1..MaxFd
          MaxSess,    \* bound on g_sess_id
          InitPool    \* the pool initPool() builds

Fds  == 1..MaxFd
Sess == 1..MaxSess

Objects(q) == {q[i] : i \in DOMAIN q}

ASSUME ConnsAssumption ==
    /\ NULL \notin Conns
    /\ MaxFd \in Nat /\ MaxSess \in Nat
    /\ InitPool \in Seq(Conns)
    /\ \A i, j \in DOMAIN InitPool : InitPool[i] = InitPool[j] => i = j

VARIABLES
    kcp,        \* the tables, guarded by KCPServer::mutex
    epPc,       \* "wait" (in epoll_wait), "events", "reap" (draining delQue)
    m_lastTick, \* "unset" (0), "recent", "due" (more than FREQ_MS ago)
    delQue,     \* descriptors OnCheckTimeout collected, not yet deleted
    mainPc,     \* "idle", "update" (holds mutex), "close" (closeConn), "abort"
    cursor,     \* the key Update's iterator stands on, 0 before the first
    closing,    \* closeConn between its lookup and its delConn
    bound,      \* history: sessions ever given to a player by BindConn
    swept       \* history: sessions of the descriptors in delQue

vars == <<kcp, epPc, m_lastTick, delQue, mainPc, cursor, closing, bound, swept>>

ConnRec == [m_fd : 0..MaxFd, m_id : 0..MaxSess, m_bind : BOOLEAN,
            m_kcp : BOOLEAN, old : BOOLEAN]

Tables == [m_mapConn   : [Fds -> Conns \cup {NULL}],
           m_mapSessFd : [Sess -> Conns \cup {NULL}],
           m_pool      : Seq(Conns),
           g_sess_id   : 0..MaxSess,
           conn        : [Conns -> ConnRec],
           fds         : SUBSET Fds,      \* descriptors open in the kernel
           heap        : SUBSET Conns]    \* objects allocated so far

NotClosing == [sess |-> 0, conn |-> NULL, doomed |-> FALSE]

TypeOK ==
    /\ kcp \in Tables
    /\ epPc \in {"wait", "events", "reap"}
    /\ m_lastTick \in {"unset", "recent", "due"}
    /\ delQue \subseteq Fds
    /\ mainPc \in {"idle", "update", "close", "abort"}
    /\ cursor \in 0..MaxFd
    /\ closing \in [sess : 0..MaxSess, conn : Conns \cup {NULL}, doomed : BOOLEAN]
    /\ bound \subseteq Sess
    /\ swept \subseteq Sess

-----------------------------------------------------------------------------
(* The operations on the tables. *)

rawGetConn(k, s) == IF s \in Sess THEN k.m_mapSessFd[s] ELSE NULL

(* Mutant of Release: the object is closed but not given back to the pool.  *)
ReleaseLeaks(k, p) ==
    [k EXCEPT !.conn[p].m_kcp = FALSE, !.fds = @ \ {k.conn[p].m_fd}]

(* Close() and pushUDPConn(): the object keeps its m_fd, m_id and m_bind.  *)
Release(k, p) ==
    [k EXCEPT !.conn[p].m_kcp = FALSE,
              !.fds           = @ \ {k.conn[p].m_fd},
              !.m_pool        = Append(@, p)]

(* Mutant of delConn: the session entry is not erased.                      *)
delConnKeepsSess(k, fd) ==
    IF k.m_mapConn[fd] = NULL THEN k
    ELSE Release([k EXCEPT !.m_mapConn[fd] = NULL], k.m_mapConn[fd])

(* delConn(fd): the connection that owns the descriptor now, whoever it is. *)
delConn(k, fd) ==
    IF k.m_mapConn[fd] = NULL THEN k
    ELSE LET p == k.m_mapConn[fd]
         IN  Release([k EXCEPT !.m_mapConn[fd] = NULL,
                               !.m_mapSessFd[k.conn[p].m_id] = NULL], p)

(* rawCloseConn(sessid), called with the mutex held. *)
rawCloseConn(k, s) ==
    LET c == rawGetConn(k, s)
    IN  IF c = NULL THEN k ELSE delConn(k, k.conn[c].m_fd)

BindConn(k, s) ==
    LET c == rawGetConn(k, s)
    IN  IF c = NULL THEN k ELSE [k EXCEPT !.conn[c].m_bind = TRUE]

(* Mutant of popUDPConn: no object is made when the pool is empty.          *)
popUDPConnNoNew(k) == IF k.m_pool = <<>> THEN {NULL} ELSE {Head(k.m_pool)}

(* popUDPConn(): the front of the pool, or a new object when it is empty. *)
popUDPConn(k) ==
    IF k.m_pool = <<>> THEN Conns \ k.heap ELSE {Head(k.m_pool)}

(* Mutant of createConn: init() leaves the m_bind of the recycled object.   *)
createConnKeepsBind(k, p, fd) ==
    LET s == k.g_sess_id + 1
    IN  [m_mapConn   |-> [k.m_mapConn EXCEPT ![fd] = p],
         m_mapSessFd |-> [k.m_mapSessFd EXCEPT ![s] = p],
         m_pool      |-> IF k.m_pool = <<>> THEN k.m_pool ELSE Tail(k.m_pool),
         g_sess_id   |-> s,
         conn        |-> [k.conn EXCEPT ![p] =
                             [m_fd |-> fd, m_id |-> s, m_bind |-> @.m_bind,
                              m_kcp |-> TRUE, old |-> FALSE]],
         fds         |-> k.fds \cup {fd},
         heap        |-> k.heap \cup {p}]

(* createConn(clifd): a new session on an object from the pool. *)
createConn(k, p, fd) ==
    LET s == k.g_sess_id + 1
    IN  [m_mapConn   |-> [k.m_mapConn EXCEPT ![fd] = p],
         m_mapSessFd |-> [k.m_mapSessFd EXCEPT ![s] = p],
         m_pool      |-> IF k.m_pool = <<>> THEN k.m_pool ELSE Tail(k.m_pool),
         g_sess_id   |-> s,
         conn        |-> [k.conn EXCEPT ![p] =
                             [m_fd |-> fd, m_id |-> s, m_bind |-> FALSE,
                              m_kcp |-> TRUE, old |-> FALSE]],
         fds         |-> k.fds \cup {fd},
         heap        |-> k.heap \cup {p}]

(* playerObj::setSessid(_id): close the player's previous session, bind the *)
(* one the message came on.  assert(ref) fails when BindConn returns NULL.  *)
setSessid(k, old, s) == BindConn(rawCloseConn(k, old), s)

(* Mutant of setSessidAsserts: a build with NDEBUG has no assert(ref).      *)
setSessidNoAssert(k, old, s) == TRUE

setSessidAsserts(k, old, s) == rawGetConn(rawCloseConn(k, old), s) # NULL

(* Mutant of Expired: the m_bind test is dropped.                           *)
ExpiredEvenBound(k, c) == k.conn[c].old

(* UDPConn::OnCheckTimeout. *)
Expired(k, c) == ~k.conn[c].m_bind /\ k.conn[c].old

ExpiredFds(k) == {f \in Fds : k.m_mapConn[f] # NULL /\ Expired(k, k.m_mapConn[f])}

-----------------------------------------------------------------------------
(* The ep thread. *)

Mutex == mainPc # "update"        \* nobody holds KCPServer::mutex
Alive == mainPc # "abort"

(* epoll_wait(..., -1) returns: a datagram arrived on some socket. *)
EpWake ==
    /\ Alive /\ epPc = "wait"
    /\ epPc' = "events"
    /\ UNCHANGED <<kcp, m_lastTick, delQue, mainPc, cursor, closing, bound, swept>>

(* Mutant of EpAccept: a second thread accepts while the first one reaps.   *)
EpAcceptAnyTime ==
    /\ Alive /\ epPc \in {"events", "reap"} /\ Mutex
    /\ kcp.g_sess_id < MaxSess
    /\ \E fd \in Fds \ kcp.fds, p \in popUDPConn(kcp) :
           kcp' = createConn(kcp, p, fd)
    /\ UNCHANGED <<epPc, m_lastTick, delQue, mainPc, cursor, closing, bound, swept>>

(* acceptConn: a datagram from a new client gets a socket and a session. *)
EpAccept ==
    /\ Alive /\ epPc = "events" /\ Mutex
    /\ kcp.g_sess_id < MaxSess
    /\ \E fd \in Fds \ kcp.fds, p \in popUDPConn(kcp) :
           kcp' = createConn(kcp, p, fd)
    /\ UNCHANGED <<epPc, m_lastTick, delQue, mainPc, cursor, closing, bound, swept>>

(* Mutant of EpCheckTimeout: the first call forgets to start the period.    *)
EpCheckTimeoutNoStart ==
    /\ Alive /\ epPc = "events" /\ Mutex
    /\ m_lastTick' = IF m_lastTick = "unset" THEN "unset" ELSE "recent"
    /\ delQue' = IF m_lastTick = "due" THEN ExpiredFds(kcp) ELSE {}
    /\ swept' = {kcp.conn[kcp.m_mapConn[f]].m_id : f \in delQue'}
    /\ epPc' = "reap"
    /\ UNCHANGED <<kcp, mainPc, cursor, closing, bound>>

(* OnCheckTimeout, first half: under the mutex, collect what expired. *)
EpCheckTimeout ==
    /\ Alive /\ epPc = "events" /\ Mutex
    /\ m_lastTick' = "recent"
    /\ delQue' = IF m_lastTick = "due" THEN ExpiredFds(kcp) ELSE {}
    /\ swept' = {kcp.conn[kcp.m_mapConn[f]].m_id : f \in delQue'}
    /\ epPc' = "reap"
    /\ UNCHANGED <<kcp, mainPc, cursor, closing, bound>>

(* OnCheckTimeout, second half: delConn(fd), each under the mutex anew. *)
EpReap ==
    /\ Alive /\ epPc = "reap" /\ Mutex
    /\ \E fd \in delQue :
           /\ \A g \in delQue : fd =< g
           /\ kcp' = delConn(kcp, fd)
           /\ delQue' = delQue \ {fd}
    /\ UNCHANGED <<epPc, m_lastTick, mainPc, cursor, closing, bound, swept>>

EpDone ==
    /\ Alive /\ epPc = "reap" /\ delQue = {}
    /\ epPc' = "wait"
    /\ swept' = {}
    /\ UNCHANGED <<kcp, m_lastTick, delQue, mainPc, cursor, closing, bound>>

-----------------------------------------------------------------------------
(* The main thread. *)

(* Update: take the mutex and walk m_mapConn in the order of its keys. *)
UpdateBegin ==
    /\ mainPc = "idle"
    /\ mainPc' = "update" /\ cursor' = 0
    /\ UNCHANGED <<kcp, epPc, m_lastTick, delQue, closing, bound, swept>>

Ahead == {f \in Fds : f > cursor /\ kcp.m_mapConn[f] # NULL}

NextFd(fd) == fd \in Ahead /\ \A g \in Ahead : fd =< g

(* OnDealMsg with no message, or with one that leaves the table alone. *)
UpdateConn ==
    /\ mainPc = "update"
    /\ \E fd \in Fds : NextFd(fd) /\ cursor' = fd
    /\ UNCHANGED <<kcp, epPc, m_lastTick, delQue, mainPc, closing, bound, swept>>

(* OnDealMsg with a registration (message 2004): the player had session old *)
(* (0 for none) and is given the session of the connection being updated.   *)
UpdateReg ==
    /\ mainPc = "update"
    /\ \E fd \in Fds, old \in bound \cup {0} :
           LET s == kcp.conn[kcp.m_mapConn[fd]].m_id
           IN  /\ NextFd(fd)
               /\ cursor' = fd
               /\ kcp' = setSessid(kcp, old, s)
               /\ IF setSessidAsserts(kcp, old, s)
                  THEN mainPc' = mainPc /\ bound' = bound \cup {s}
                  ELSE mainPc' = "abort" /\ bound' = bound
    /\ UNCHANGED <<epPc, m_lastTick, delQue, closing, swept>>

UpdateEnd ==
    /\ mainPc = "update" /\ Ahead = {}
    /\ mainPc' = "idle" /\ cursor' = 0
    /\ UNCHANGED <<kcp, epPc, m_lastTick, delQue, closing, bound, swept>>

(* closeConn(sessid), up to the unlock: a player goes offline or leaves. *)
CloseLookup ==
    /\ mainPc = "idle"
    /\ \E s \in bound :
           LET c == rawGetConn(kcp, s)
           IN  /\ c # NULL
               /\ closing' = [sess |-> s, conn |-> c,
                              doomed |-> kcp.conn[c].m_fd \in delQue]
    /\ mainPc' = "close"
    /\ UNCHANGED <<kcp, epPc, m_lastTick, delQue, cursor, bound, swept>>

(* closeConn, after the unlock: delConn(pconn->getfd()). *)
CloseDelete ==
    /\ mainPc = "close"
    /\ kcp' = delConn(kcp, kcp.conn[closing.conn].m_fd)
    /\ closing' = NotClosing
    /\ mainPc' = "idle"
    /\ UNCHANGED <<epPc, m_lastTick, delQue, cursor, bound, swept>>

-----------------------------------------------------------------------------
(* The clock. *)

(* KCP_CONN_TIMEOUT_FREQ_MS went by since the last sweep. *)
FreqElapsed ==
    /\ Alive /\ m_lastTick = "recent"
    /\ m_lastTick' = "due"
    /\ UNCHANGED <<kcp, epPc, delQue, mainPc, cursor, closing, bound, swept>>

(* KCP_CONN_TIMEOUT_MS went by since a connection was born. *)
Expire ==
    /\ Alive
    /\ \E c \in Conns : /\ kcp.conn[c].m_kcp /\ ~kcp.conn[c].old
                        /\ kcp' = [kcp EXCEPT !.conn[c].old = TRUE]
    /\ UNCHANGED <<epPc, m_lastTick, delQue, mainPc, cursor, closing, bound, swept>>

-----------------------------------------------------------------------------
Init ==
    /\ kcp = [m_mapConn   |-> [f \in Fds |-> NULL],
              m_mapSessFd |-> [s \in Sess |-> NULL],
              m_pool      |-> InitPool,
              g_sess_id   |-> 0,
              conn        |-> [c \in Conns |-> [m_fd |-> 0, m_id |-> 0,
                                  m_bind |-> FALSE, m_kcp |-> FALSE, old |-> FALSE]],
              fds         |-> {},
              heap        |-> Objects(InitPool)]
    /\ epPc = "wait" /\ m_lastTick = "unset" /\ delQue = {}
    /\ mainPc = "idle" /\ cursor = 0 /\ closing = NotClosing
    /\ bound = {} /\ swept = {}

EpNext    == EpWake \/ EpAccept \/ EpCheckTimeout \/ EpReap \/ EpDone
MainNext  == UpdateBegin \/ UpdateConn \/ UpdateReg \/ UpdateEnd
                \/ CloseLookup \/ CloseDelete
ClockNext == FreqElapsed \/ Expire

Next == EpNext \/ MainNext \/ ClockNext

Spec == Init /\ [][Next]_vars

(* The mutex is free again and again (main sleeps between two updates), so  *)
(* a thread that waits for it gets it; time passes; main runs.  Nothing     *)
(* says that datagrams keep arriving: EpWake has no fairness here.          *)
Fairness ==
    /\ SF_vars(EpCheckTimeout) /\ SF_vars(EpReap) /\ WF_vars(EpDone)
    /\ WF_vars(UpdateConn \/ UpdateReg) /\ WF_vars(UpdateEnd) /\ WF_vars(CloseDelete)
    /\ WF_vars(FreqElapsed) /\ WF_vars(Expire)

FairSpec    == Spec /\ Fairness
TrafficSpec == FairSpec /\ WF_vars(EpWake)

-----------------------------------------------------------------------------
(* Properties. *)

Mapped(k) == {k.m_mapConn[f] : f \in {g \in Fds : k.m_mapConn[g] # NULL}}

Agree(k) ==
    /\ \A f \in Fds : k.m_mapConn[f] # NULL =>
           /\ k.conn[k.m_mapConn[f]].m_fd = f
           /\ k.conn[k.m_mapConn[f]].m_id \in Sess
           /\ k.conn[k.m_mapConn[f]].m_kcp
           /\ k.m_mapSessFd[k.conn[k.m_mapConn[f]].m_id] = k.m_mapConn[f]
           /\ f \in k.fds
    /\ \A s \in Sess : k.m_mapSessFd[s] # NULL =>
           /\ k.conn[k.m_mapSessFd[s]].m_id = s
           /\ k.conn[k.m_mapSessFd[s]].m_fd \in Fds
           /\ k.m_mapConn[k.conn[k.m_mapSessFd[s]].m_fd] = k.m_mapSessFd[s]
           /\ s =< k.g_sess_id
    /\ \A f \in k.fds : k.m_mapConn[f] # NULL

Sound(k) ==
    /\ \A i, j \in DOMAIN k.m_pool : k.m_pool[i] = k.m_pool[j] => i = j
    /\ \A i \in DOMAIN k.m_pool : /\ ~k.conn[k.m_pool[i]].m_kcp
                                  /\ k.m_pool[i] \notin Mapped(k)
    /\ k.heap = Objects(k.m_pool) \cup Mapped(k)

(* The two maps describe the same connections: each mapped object is open,  *)
(* is filed under its own m_fd and m_id and under no other key, the open    *)
(* descriptors are those of the mapped connections, and no session is open  *)
(* that was never numbered.  The code keeps this through separate erases    *)
(* and inserts, in two threads (createConn, delConn, rawCloseConn).         *)
TablesAgree == Agree(kcp)

(* An object is in the pool once or in the tables, never both and never     *)
(* neither: nothing is recycled while a map still refers to it, pushed      *)
(* twice, or leaked (pushUDPConn, popUDPConn and their callers).            *)
PoolSound == Sound(kcp)

(* m_bind tells exactly the sessions a player was given: they stay exempt   *)
(* from the timeout for as long as they are open, and a new session on an   *)
(* object recycled with m_bind set is not exempt (init, Bind).              *)
BindMatchesPlayers ==
    \A s \in Sess : kcp.m_mapSessFd[s] # NULL
                        => (kcp.conn[kcp.m_mapSessFd[s]].m_bind <=> s \in bound)

(* Update's iterator never stands on an erased entry when it is advanced,   *)
(* although the handlers it runs erase entries of m_mapConn (rawCloseConn). *)
IteratorValid ==
    mainPc = "update" /\ cursor # 0 => kcp.m_mapConn[cursor] # NULL

Removed(s) == kcp.m_mapSessFd[s] # NULL /\ kcp'.m_mapSessFd[s] = NULL

(* closeConn drops the mutex between finding the connection and deleting by *)
(* descriptor.  It never deletes a session other than the one it was called *)
(* for, unless that one was already on its way to be reaped by the sweep    *)
(* when it was looked up (then object and descriptor may be someone else's).*)
ClosesOnlyItsSession ==
    [][CloseDelete => \A s \in Sess :
           Removed(s) => s = closing.sess \/ closing.doomed]_vars

(* OnCheckTimeout deletes by descriptor after releasing the mutex.  What it *)
(* deletes is a session it saw expired, never a newer one that was given    *)
(* the same descriptor meanwhile.                                           *)
ReapsOnlyExpired ==
    [][EpReap => \A s \in Sess : Removed(s) => s \in swept]_vars

(* A connection whose client never registers does not stay: it is swept, or *)
(* registered, or the process has stopped (KCP_CONN_TIMEOUT_MS).            *)
Waiting(s) == /\ kcp.m_mapSessFd[s] # NULL
              /\ ~kcp.conn[kcp.m_mapSessFd[s]].m_bind
              /\ Alive

ExpiredIsReaped == \A s \in Sess : Waiting(s) ~> ~Waiting(s)
=============================================================================

------------------------------ MODULE NetServer ------------------------------
(***************************************************************************)
(* The TCP front end of the net process (net.cpp, connmgr.cpp, conn.cpp):  *)
(* the queue between its two threads, the tables of connections, and the   *)
(* life of a connection from accept to close.                              *)
(*                                                                         *)
(*   ep thread    netThreadFun: edge-triggered epoll; accepts, and puts    *)
(*                NEW_CONN, DATA_IN and QUIT_CONN into m_netQueue.         *)
(*   main thread  queueProcessFun: drains the queue (closes first, new     *)
(*                connections last), reads every descriptor in             *)
(*                m_readFdMap, runs the calls of the gate, closes what is  *)
(*                idle too long.                                           *)
(*                                                                         *)
(* Data are counted in halves of a message: a read takes what is there,    *)
(* whole messages are dispatched and an odd half stays in m_NetBuffer. A   *)
(* header split over two reads is the subject of ConnRecv.                 *)
(***************************************************************************)
EXTENDS Integers, Sequences, FiniteSets

CONSTANTS MaxFd,     \* the kernel hands out descriptors 1..MaxFd
          MaxPid,    \* bound on maxSessid
          MaxQueue,  \* the ep thread adds to m_netQueue up to this length
          MaxInq     \* halves of messages the kernel holds for one socket

ASSUME NetServerAssumption ==
    MaxFd \in Nat /\ MaxPid \in Nat /\ MaxQueue \in Nat /\ MaxInq \in Nat

Fds    == 1..MaxFd
Pids   == 1..MaxPid
LISTEN == 0          \* m_sockfd

VARIABLES
    sock,        \* kernel: the socket behind each descriptor
    backlog,     \* kernel: clients waiting to be accepted
    ready,       \* kernel: descriptors with an edge that epoll will report
    epPc,        \* "events", or "accept" in the accept loop
    batch,       \* events of the last epoll_wait that are not handled yet
    m_netQueue,  \* guarded by netServer::mutex
    m_readFdMap, \* descriptors main reads in every pass
    m_connFdMap, \* descriptor -> pid, 0 when there is none
    m_connMap,   \* pid -> connObj
    maxSessid,   \* the next pid
    mainPc,      \* "idle", "read", "rpc": the place in queueProcessFun
    readTodo,    \* descriptors of m_readFdMap still to be read in this pass
    delLst,      \* descriptors that leave m_readFdMap after the pass
    told         \* history: the RegConn calls to the gate about each pid

kernelVars == <<sock, backlog, ready>>
tableVars  == <<m_connFdMap, m_connMap, maxSessid, told>>
readVars   == <<m_readFdMap, readTodo, delLst>>
epVars     == <<epPc, batch>>
vars == <<kernelVars, epVars, m_netQueue, tableVars, readVars, mainPc>>

Free   == [peer |-> "none", inq |-> 0]
NoConn == [fd |-> 0, buf |-> 0, m_bChkReadZero |-> TRUE, m_lastSec |-> "zero"]

(* m_lastSec: never set, in the last 5 seconds, before that, or 11 and more. *)
ConnObj == [fd : 0..MaxFd, buf : 0..1, m_bChkReadZero : BOOLEAN,
            m_lastSec : {"zero", "recent", "sec5", "sec11"}]

(* A close put in by main carries, as history, the pid that it is meant for. *)
NetOp == [op : {"NEW_CONN", "DATA_IN", "QUIT_CONN"}, fd : Fds, pid : 0..MaxPid]

TypeOK ==
    /\ sock \in [Fds -> [peer : {"none", "up", "fin", "rst"}, inq : 0..MaxInq]]
    /\ backlog \in 0..MaxPid
    /\ ready \subseteq Fds \cup {LISTEN}
    /\ epPc \in {"events", "accept"}
    /\ batch \subseteq [fd : Fds \cup {LISTEN}, hup : BOOLEAN]
    /\ m_netQueue \in Seq(NetOp)
    /\ m_readFdMap \subseteq Fds /\ readTodo \subseteq m_readFdMap /\ delLst \subseteq Fds
    /\ m_connFdMap \in [Fds -> 0..MaxPid]
    /\ m_connMap \in [Pids -> ConnObj]
    /\ maxSessid \in 1..(MaxPid + 1)
    /\ mainPc \in {"idle", "read", "rpc"}
    /\ told \in [Pids -> Seq(1..3)]

Open(f) == sock[f].peer # "none"
At(op)     == {i \in DOMAIN m_netQueue : m_netQueue[i].op = op}
Queued(op) == {m_netQueue[i].fd : i \in At(op)}
NewAt      == At("NEW_CONN")

-----------------------------------------------------------------------------
(* The kernel and the clients (external).                                  *)

Connect ==
    /\ backlog + (maxSessid - 1) + Cardinality(NewAt) < MaxPid
    /\ backlog' = backlog + 1
    /\ ready' = ready \cup {LISTEN}
    /\ UNCHANGED <<sock, epVars, m_netQueue, tableVars, readVars, mainPc>>

PeerSends(f) ==
    /\ sock[f].peer = "up" /\ sock[f].inq < MaxInq
    /\ sock' = [sock EXCEPT ![f].inq = @ + 1]
    /\ ready' = ready \cup {f}
    /\ UNCHANGED <<backlog, epVars, m_netQueue, tableVars, readVars, mainPc>>

PeerCloses(f) ==
    /\ sock[f].peer = "up"
    /\ sock' = [sock EXCEPT ![f].peer = "fin"]
    /\ ready' = ready \cup {f}
    /\ UNCHANGED <<backlog, epVars, m_netQueue, tableVars, readVars, mainPc>>

PeerResets(f) ==
    /\ sock[f].peer \in {"up", "fin"}
    /\ sock' = [sock EXCEPT ![f] = [peer |-> "rst", inq |-> 0]]
    /\ ready' = ready \cup {f}
    /\ UNCHANGED <<backlog, epVars, m_netQueue, tableVars, readVars, mainPc>>

(* Five more seconds pass; main is between two passes, which take no time.  *)
Older(sec) == CASE sec = "recent" -> "sec5" [] sec = "sec5" -> "sec11" [] OTHER -> sec

TimePasses ==
    /\ mainPc = "idle"
    /\ m_connMap' = [p \in Pids |-> [m_connMap[p] EXCEPT !.m_lastSec = Older(@)]]
    /\ UNCHANGED <<kernelVars, epVars, m_netQueue, m_connFdMap, maxSessid, told, readVars, mainPc>>

-----------------------------------------------------------------------------
(* netThreadFun.                                                           *)

Op(op, f, p) == [op |-> op, fd |-> f, pid |-> p]

(* epoll_wait: what is ready, each with the state it has now. *)
EpollWait ==
    /\ batch = {} /\ ready # {}
    /\ batch' = {[fd |-> f, hup |-> f # LISTEN /\ sock[f].peer = "rst"] : f \in ready}
    /\ ready' = {}
    /\ UNCHANGED <<sock, backlog, epPc, m_netQueue, tableVars, readVars, mainPc>>

(* One turn of the accept loop: POSIX gives the lowest free descriptor.     *)
Accept ==
    /\ \E e \in batch : e.fd = LISTEN
    /\ backlog > 0 /\ Len(m_netQueue) < MaxQueue
    /\ \E f \in Fds : /\ ~Open(f) /\ \A g \in 1..(f - 1) : Open(g)
                      /\ sock' = [sock EXCEPT ![f] = [peer |-> "up", inq |-> 0]]
                      /\ m_netQueue' = Append(m_netQueue, Op("NEW_CONN", f, 0))
    /\ backlog' = backlog - 1 /\ epPc' = "accept"
    /\ UNCHANGED <<ready, batch, tableVars, readVars, mainPc>>

(* accept fails with EAGAIN, or for want of a descriptor: the loop ends.    *)
AcceptEnds ==
    /\ backlog = 0 \/ \A f \in Fds : Open(f)
    /\ batch' = {e \in batch : e.fd # LISTEN} /\ batch' # batch
    /\ epPc' = "events"
    /\ UNCHANGED <<kernelVars, m_netQueue, tableVars, readVars, mainPc>>

(* Any other event; the order of the events in the array is the kernel's.   *)
AppendOp(e) ==
    /\ epPc = "events" /\ e.fd # LISTEN /\ Len(m_netQueue) < MaxQueue
    /\ batch' = batch \ {e}
    /\ m_netQueue' = Append(m_netQueue, Op(IF e.hup THEN "QUIT_CONN" ELSE "DATA_IN", e.fd, 0))
    /\ UNCHANGED <<kernelVars, epPc, tableVars, readVars, mainPc>>

EpNext == EpollWait \/ Accept \/ AcceptEnds \/ \E e \in batch : AppendOp(e)

-----------------------------------------------------------------------------
(* queueProcessFun.                                                        *)

(* DelConn takes a descriptor, and does nothing if it is not registered.    *)
(* These and DelConn below stand for DelConn of every descriptor in D.      *)
Registered(D)   == {f \in D \cap Fds : m_connFdMap[f] # 0}
PidsOf(D)       == {m_connFdMap[f] : f \in Registered(D)}
Told(S, code)   == [p \in Pids |-> IF p \in S THEN Append(told[p], code) ELSE told[p]]

(* Mutant of Closed: the socket is not closed.                              *)
ClosedNot(D) == UNCHANGED <<sock, ready>>

(* close: the kernel forgets the socket and its edges.                      *)
Closed(D) ==
    /\ sock' = [f \in Fds |-> IF f \in Registered(D) THEN Free ELSE sock[f]]
    /\ ready' = ready \ Registered(D)

(* Mutant of DelConn: the entry of m_connFdMap stays.                       *)
DelConnKeepsFd(D, code) ==
    /\ Closed(D)
    /\ m_connMap' = [p \in Pids |-> IF p \in PidsOf(D) THEN NoConn ELSE m_connMap[p]]
    /\ told' = Told(PidsOf(D), code)
    /\ UNCHANGED m_connFdMap

(* Both tables, the socket, and the RegConn call to the gate.               *)
DelConn(D, code) ==
    /\ Closed(D)
    /\ m_connFdMap' = [f \in Fds |-> IF f \in D THEN 0 ELSE m_connFdMap[f]]
    /\ m_connMap' = [p \in Pids |-> IF p \in PidsOf(D) THEN NoConn ELSE m_connMap[p]]
    /\ told' = Told(PidsOf(D), code)

(* CreateConnBatch: the pids for the new connections, in their order.       *)
Rank(i) == Cardinality({j \in NewAt : j =< i})
Born    == [p \in maxSessid..(maxSessid + Cardinality(NewAt) - 1) |->
               m_netQueue[CHOOSE i \in NewAt : maxSessid + Rank(i) - 1 = p].fd]

(* Mutant of Drain: the new connections are made before the closes.         *)
DrainNewFirst ==
    LET quit == Queued("QUIT_CONN")
        born == DOMAIN Born
        fdOf(p) == IF p \in born THEN Born[p] ELSE m_connMap[p].fd
        hit == {p \in Pids : fdOf(p) \in quit}
    IN  /\ mainPc = "idle"
        /\ sock' = [f \in Fds |-> IF \E p \in hit : fdOf(p) = f THEN Free ELSE sock[f]]
        /\ ready' = ready \ {fdOf(p) : p \in hit}
        /\ m_connFdMap' = [f \in Fds |->
               IF f \in quit THEN 0
               ELSE IF \E p \in born : Born[p] = f THEN CHOOSE p \in born : Born[p] = f
               ELSE m_connFdMap[f]]
        /\ m_connMap' = [p \in Pids |->
               IF p \in hit THEN NoConn
               ELSE IF p \in born THEN [NoConn EXCEPT !.fd = Born[p]] ELSE m_connMap[p]]
        /\ told' = [p \in Pids |-> told[p] \o (IF p \in born THEN <<1>> ELSE <<>>)
                                          \o (IF p \in hit THEN <<2>> ELSE <<>>)]
        /\ maxSessid' = maxSessid + Cardinality(NewAt)
        /\ m_readFdMap' = m_readFdMap \cup Queued("DATA_IN")
        /\ readTodo' = m_readFdMap'
        /\ m_netQueue' = <<>> /\ mainPc' = "read"
        /\ UNCHANGED <<backlog, epVars, delLst>>

(* The queue is emptied: first the closes, then the new connections, of     *)
(* which the gate is told. Then all reads are due.                          *)
Drain ==
    LET quit == Queued("QUIT_CONN")
        born == DOMAIN Born
    IN  /\ mainPc = "idle"
        /\ Closed(quit)
        /\ m_connFdMap' = [f \in Fds |->
               IF \E p \in born : Born[p] = f THEN CHOOSE p \in born : Born[p] = f
               ELSE IF f \in quit THEN 0 ELSE m_connFdMap[f]]
        /\ m_connMap' = [p \in Pids |->
               IF p \in born THEN [NoConn EXCEPT !.fd = Born[p]]
               ELSE IF p \in PidsOf(quit) THEN NoConn ELSE m_connMap[p]]
        /\ told' = [p \in Pids |-> IF p \in born THEN <<1>> ELSE Told(PidsOf(quit), 2)[p]]
        /\ maxSessid' = maxSessid + Cardinality(NewAt)
        /\ m_readFdMap' = m_readFdMap \cup Queued("DATA_IN")
        /\ readTodo' = m_readFdMap'
        /\ m_netQueue' = <<>> /\ mainPc' = "read"
        /\ UNCHANGED <<backlog, epVars, delLst>>

(* One descriptor of the walk over m_readFdMap, in ascending order. *)
Turn(f) == /\ mainPc = "read" /\ f \in readTodo /\ \A g \in readTodo : f =< g
           /\ readTodo' = readTodo \ {f}
           /\ UNCHANGED <<backlog, ready, epVars, m_connFdMap, maxSessid, told, m_readFdMap, mainPc>>

ReadNoConn(f) ==
    /\ Turn(f) /\ m_connFdMap[f] = 0
    /\ delLst' = delLst \cup {f}
    /\ UNCHANGED <<sock, m_netQueue, m_connMap>>

(* parseBuff: with anything in the buffer the time of the last data is now. *)
Parsed(c) == IF c.buf = 0 THEN c ELSE [c EXCEPT !.m_lastSec = "recent"]

(* What dispatching the whole messages leaves of n halves in the buffer.    *)
Rest(n) == n % 2

(* Mutant of ReadData: the descriptor leaves m_readFdMap after one read.    *)
ReadDataOnce(f) ==
    /\ Turn(f) /\ m_connFdMap[f] # 0
    /\ \E n \in 1..sock[f].inq :
           /\ sock' = [sock EXCEPT ![f].inq = @ - n]
           /\ m_connMap' = [m_connMap EXCEPT ![m_connFdMap[f]].buf = Rest(@ + n),
                                             ![m_connFdMap[f]].m_bChkReadZero = FALSE,
                                             ![m_connFdMap[f]].m_lastSec = "recent"]
    /\ delLst' = delLst \cup {f}
    /\ UNCHANGED m_netQueue

(* Data: the first n halves of what is there. The descriptor stays.         *)
ReadData(f) ==
    /\ Turn(f) /\ m_connFdMap[f] # 0
    /\ \E n \in 1..sock[f].inq :
           /\ sock' = [sock EXCEPT ![f].inq = @ - n]
           /\ m_connMap' = [m_connMap EXCEPT ![m_connFdMap[f]].buf = Rest(@ + n),
                                             ![m_connFdMap[f]].m_bChkReadZero = FALSE,
                                             ![m_connFdMap[f]].m_lastSec = "recent"]
    /\ UNCHANGED <<m_netQueue, delLst>>

(* EAGAIN: all is read, and the next edge will bring the descriptor back.   *)
ReadAgain(f) ==
    /\ Turn(f) /\ m_connFdMap[f] # 0
    /\ sock[f].peer = "up" /\ sock[f].inq = 0
    /\ m_connMap' = [m_connMap EXCEPT ![m_connFdMap[f]] =
                         [Parsed(@) EXCEPT !.m_bChkReadZero = TRUE]]
    /\ delLst' = delLst \cup {f}
    /\ UNCHANGED <<sock, m_netQueue>>

(* An error, or the end of file when the read before found nothing: a close *)
(* is put into the queue, for the next pass.                                *)
ReadCloses(f) ==
    /\ Turn(f) /\ m_connFdMap[f] # 0
    /\ \/ sock[f].peer = "rst"
       \/ /\ sock[f].peer = "fin" /\ sock[f].inq = 0
          /\ m_connMap[m_connFdMap[f]].m_bChkReadZero
    /\ m_netQueue' = Append(m_netQueue, Op("QUIT_CONN", f, m_connFdMap[f]))
    /\ m_connMap' = [m_connMap EXCEPT ![m_connFdMap[f]] = Parsed(@)]
    /\ delLst' = delLst \cup {f}
    /\ UNCHANGED sock

(* The end of file when the read before found data: taken for a read of     *)
(* nothing. The descriptor stays until the last data are 5 seconds old.     *)
ReadEof(f) ==
    /\ Turn(f) /\ m_connFdMap[f] # 0
    /\ sock[f].peer = "fin" /\ sock[f].inq = 0
    /\ LET c == m_connMap[m_connFdMap[f]]
       IN  /\ ~c.m_bChkReadZero
           /\ m_connMap' = [m_connMap EXCEPT ![m_connFdMap[f]] = Parsed(c)]
           /\ delLst' = IF c.buf = 0 /\ c.m_lastSec # "recent"
                        THEN delLst \cup {f} ELSE delLst
    /\ UNCHANGED <<sock, m_netQueue>>

(* Mutant of ReadsDone: the whole map is cleared.                           *)
ReadsDoneClears ==
    /\ mainPc = "read" /\ readTodo = {}
    /\ m_readFdMap' = {}
    /\ delLst' = {} /\ mainPc' = "rpc"
    /\ UNCHANGED <<kernelVars, epVars, m_netQueue, tableVars, readTodo>>

ReadsDone ==
    /\ mainPc = "read" /\ readTodo = {}
    /\ m_readFdMap' = m_readFdMap \ delLst
    /\ delLst' = {} /\ mainPc' = "rpc"
    /\ UNCHANGED <<kernelVars, epVars, m_netQueue, tableVars, readTodo>>

(* A write to a client fails: processAllWrite, or SendMsg for the gate.     *)
SendFails(p) ==
    /\ mainPc = "rpc" /\ m_connMap[p].fd # 0
    /\ sock[m_connMap[p].fd].peer = "rst" /\ Len(m_netQueue) < MaxQueue
    /\ m_netQueue' = Append(m_netQueue, Op("QUIT_CONN", m_connMap[p].fd, p))
    /\ UNCHANGED <<kernelVars, epVars, tableVars, readVars, mainPc>>

(* onForceCloseCliConn: the gate asks for a pid that it was told of, and    *)
(* the pid is handed to DelConn, which looks for a descriptor.              *)
ForceCloseCliConn(p) ==
    /\ mainPc = "rpc" /\ told[p] # <<>>
    /\ DelConn({p}, 2)
    /\ UNCHANGED <<backlog, epVars, m_netQueue, maxSessid, readVars, mainPc>>

IsTimeout(c) == c.m_lastSec = "sec11"

ChkConnTimeout ==
    /\ mainPc = "rpc" /\ mainPc' = "idle"
    /\ DelConn({f \in Fds : m_connFdMap[f] # 0 /\ IsTimeout(m_connMap[m_connFdMap[f]])}, 3)
    /\ UNCHANGED <<backlog, epVars, m_netQueue, maxSessid, readVars>>

Read(f) == ReadNoConn(f) \/ ReadData(f) \/ ReadAgain(f) \/ ReadCloses(f) \/ ReadEof(f)

MainNext ==
    \/ Drain \/ ReadsDone \/ ChkConnTimeout
    \/ \E f \in Fds : Read(f)
    \/ \E p \in Pids : SendFails(p) \/ ForceCloseCliConn(p)

-----------------------------------------------------------------------------
Init ==
    /\ sock = [f \in Fds |-> Free] /\ backlog = 0 /\ ready = {} /\ batch = {}
    /\ epPc = "events"
    /\ m_netQueue = <<>> /\ m_readFdMap = {} /\ readTodo = {} /\ delLst = {}
    /\ m_connFdMap = [f \in Fds |-> 0] /\ m_connMap = [p \in Pids |-> NoConn]
    /\ maxSessid = 1 /\ mainPc = "idle" /\ told = [p \in Pids |-> <<>>]

Clients == Connect \/ TimePasses \/ \E f \in Fds : PeerSends(f) \/ PeerCloses(f) \/ PeerResets(f)

Next == Clients \/ EpNext \/ MainNext

Spec == Init /\ [][Next]_vars

(* Both threads go on; nobody has to connect, send or call.                 *)
Pass == Drain \/ ReadsDone \/ ChkConnTimeout \/ \E f \in Fds : Read(f)

FairSpec == Spec /\ WF_vars(EpNext) /\ WF_vars(Pass)

-----------------------------------------------------------------------------
(* An open descriptor belongs to exactly one connection: registered, or on  *)
(* its way to main. None leaks, none has two owners (accept, Drain, DelConn,*)
(* and the reuse of descriptors).                                           *)
OpenIsOwned ==
    /\ \A f \in Fds : Open(f) <=> (m_connFdMap[f] # 0 \/ f \in Queued("NEW_CONN"))
    /\ \A f \in Queued("NEW_CONN") : m_connFdMap[f] = 0
    /\ \A i, j \in DOMAIN m_netQueue :
           m_netQueue[i].op = "NEW_CONN" /\ m_netQueue[j].op = "NEW_CONN"
           /\ m_netQueue[i].fd = m_netQueue[j].fd => i = j
    /\ \A p \in Pids : m_connMap[p].fd # 0 => m_connFdMap[m_connMap[p].fd] = p
    /\ \A f \in Fds : m_connFdMap[f] # 0 => m_connMap[m_connFdMap[f]].fd = f

(* Edges are not lost: data that wait for main have an edge, an event, a    *)
(* DATA_IN or a place in m_readFdMap, so that a pass to come will read them *)
(* (the erasures of delLst against the edges that arrive meanwhile).        *)
NoLostWakeup ==
    \A f \in Fds : sock[f].inq > 0 =>
        \/ f \in ready \/ \E e \in batch : e.fd = f
        \/ f \in Queued("DATA_IN") \/ f \in m_readFdMap \ delLst

(* The gate is told of each connection once that it is there, and once that *)
(* it has gone, whichever of reader, writer, ep thread, gate and timeout    *)
(* closed it, and however often (RegConn 1, 2, 3).                          *)
GateToldOnce ==
    \A p \in Pids :
        /\ told[p] \in {<<>>, <<1>>, <<1, 2>>, <<1, 3>>}
        /\ told[p] = <<1>> <=> m_connMap[p].fd # 0
        /\ told[p] # <<>> <=> p < maxSessid

(* A close that main put into the queue takes away the connection for which *)
(* it was put there, never a new client on the same descriptor; and no      *)
(* close takes a connection made in the same pass (QUIT_CONN before         *)
(* NEW_CONN in Drain). One by the ep thread takes whoever has the           *)
(* descriptor, which may be a later client (net.cpp:256).                   *)
ClosesItsOwn ==
    [][\A p \in Pids : mainPc = "idle" /\ told'[p] # told[p] /\ told'[p][Len(told'[p])] = 2 =>
           \E i \in DOMAIN m_netQueue :
               /\ m_netQueue[i].op = "QUIT_CONN"
               /\ m_netQueue[i].fd = m_connMap[p].fd
               /\ m_netQueue[i].pid \in {0, p}]_vars

(* What a client sent does not stay unread for ever (edge-triggered epoll,   *)
(* the queue and m_readFdMap together).                                     *)
DataIsRead ==
    \A f \in Fds, n \in 1..MaxInq : sock[f].inq = n ~> sock[f].inq # n

(* DelConn(int pid, ...) (connmgr.h:32): what the gate forces closed is the  *)
(* connection of that pid.                                                  *)
ForceClosesPid ==
    [][\A p \in Pids : ForceCloseCliConn(p) => m_connMap'[p].fd = 0]_vars
=============================================================================

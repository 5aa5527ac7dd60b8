-------------------------- MODULE NetServerProofs ---------------------------
(***************************************************************************)
(* The tables of the net process agree with each other, with the kernel    *)
(* and with what the gate was told, for every number of descriptors, of    *)
(* clients and of messages, and no data wait without somebody to read them.*)
(***************************************************************************)
EXTENDS NetServer, FiniteSetTheorems, SequenceTheorems, TLAPS

-----------------------------------------------------------------------------
(* The queue.                                                              *)

LEMMA ConstantTypes == MaxFd \in Nat /\ MaxPid \in Nat /\ MaxQueue \in Nat /\ MaxInq \in Nat
BY NetServerAssumption

LEMMA Entries ==
    ASSUME m_netQueue \in Seq(NetOp)
    PROVE  /\ DOMAIN m_netQueue = 1..Len(m_netQueue) /\ Len(m_netQueue) \in Nat
           /\ \A i \in DOMAIN m_netQueue :
                  /\ m_netQueue[i] \in NetOp
                  /\ m_netQueue[i].fd \in Fds /\ m_netQueue[i].pid \in 0..MaxPid
           /\ \A op : At(op) \subseteq DOMAIN m_netQueue /\ Queued(op) \subseteq Fds
<1>1. /\ DOMAIN m_netQueue = 1..Len(m_netQueue) /\ Len(m_netQueue) \in Nat
      /\ \A i \in DOMAIN m_netQueue : m_netQueue[i] \in NetOp
    OBVIOUS
<1>2. \A o \in NetOp : o.fd \in Fds /\ o.pid \in 0..MaxPid
    BY DEF NetOp
<1> QED
    BY <1>1, <1>2 DEF At, Queued

LEMMA OpType ==
    ASSUME NEW op \in {"NEW_CONN", "DATA_IN", "QUIT_CONN"}, NEW f \in Fds, NEW p \in 0..MaxPid
    PROVE  Op(op, f, p) \in NetOp
BY DEF Op, NetOp

(* Appending an entry. *)
LEMMA AppendAt ==
    ASSUME m_netQueue \in Seq(NetOp), NEW o \in NetOp, m_netQueue' = Append(m_netQueue, o)
    PROVE  /\ m_netQueue' \in Seq(NetOp)
           /\ DOMAIN m_netQueue' = DOMAIN m_netQueue \cup {Len(m_netQueue) + 1}
           /\ Len(m_netQueue) + 1 \notin DOMAIN m_netQueue
           /\ m_netQueue'[Len(m_netQueue) + 1] = o
           /\ \A i \in DOMAIN m_netQueue : m_netQueue'[i] = m_netQueue[i]
           /\ \A op : At(op)' = IF o.op = op THEN At(op) \cup {Len(m_netQueue) + 1} ELSE At(op)
           /\ \A op : Queued(op)' = IF o.op = op THEN Queued(op) \cup {o.fd} ELSE Queued(op)
<1>1. /\ m_netQueue' \in Seq(NetOp)
      /\ DOMAIN m_netQueue' = DOMAIN m_netQueue \cup {Len(m_netQueue) + 1}
      /\ Len(m_netQueue) + 1 \notin DOMAIN m_netQueue
      /\ m_netQueue'[Len(m_netQueue) + 1] = o
      /\ \A i \in DOMAIN m_netQueue : m_netQueue'[i] = m_netQueue[i]
    OBVIOUS
<1>2. ASSUME NEW op
      PROVE  /\ At(op)' = IF o.op = op THEN At(op) \cup {Len(m_netQueue) + 1} ELSE At(op)
             /\ Queued(op)' = IF o.op = op THEN Queued(op) \cup {o.fd} ELSE Queued(op)
  <2>1. At(op)' = IF o.op = op THEN At(op) \cup {Len(m_netQueue) + 1} ELSE At(op)
      BY <1>1 DEF At
  <2>2. Queued(op)' = {m_netQueue'[i].fd : i \in At(op)'} /\ At(op) \subseteq DOMAIN m_netQueue
      BY DEF Queued, At
  <2> QED
      BY <1>1, <2>1, <2>2 DEF Queued
<1> QED
    BY <1>1, <1>2

LEMMA NewAtFinite ==
    ASSUME m_netQueue \in Seq(NetOp)
    PROVE  IsFiniteSet(NewAt) /\ Cardinality(NewAt) \in Nat
<1>1. IsFiniteSet(1..Len(m_netQueue)) /\ NewAt \subseteq 1..Len(m_netQueue)
    BY Entries, FS_Interval DEF NewAt, At
<1> QED
    BY <1>1, FS_Subset, FS_CardinalityType

-----------------------------------------------------------------------------
(* The ranks of the new connections are 1, 2, ... without a gap.            *)

LEMMA RankBounds ==
    ASSUME m_netQueue \in Seq(NetOp), NEW i \in NewAt
    PROVE  Rank(i) \in 1..Cardinality(NewAt)
<1> DEFINE below == {j \in NewAt : j =< i}
<1>1. IsFiniteSet(NewAt) /\ Cardinality(NewAt) \in Nat
    BY NewAtFinite
<1>2. i \in below
    BY Entries DEF NewAt, At
<1>3. IsFiniteSet(below) /\ Cardinality(below) =< Cardinality(NewAt) /\ Cardinality(below) \in Nat
    BY <1>1, FS_Subset, FS_CardinalityType
<1>4. Cardinality(below) # 0
    BY <1>2, <1>3, FS_EmptySet
<1> HIDE DEF below
<1>5. Cardinality(below) \in 1..Cardinality(NewAt)
    BY <1>1, <1>3, <1>4
<1> QED
    BY <1>5 DEF below, Rank

LEMMA RankGrows ==
    ASSUME m_netQueue \in Seq(NetOp), NEW i \in NewAt, NEW j \in NewAt, i < j
    PROVE  Rank(i) < Rank(j)
<1> DEFINE upto(k) == {n \in NewAt : n =< k}
<1>0. NewAt \subseteq Nat
    BY Entries DEF NewAt, At
<1>1. IsFiniteSet(upto(i)) /\ IsFiniteSet(upto(j)) /\ Cardinality(upto(i)) \in Nat
      /\ Cardinality(upto(j)) \in Nat
    BY NewAtFinite, FS_Subset, FS_CardinalityType
<1>2. j \notin upto(i) /\ upto(i) \cup {j} \subseteq upto(j)
  <2>1. i \in Int /\ j \in Int /\ \A n \in NewAt : n \in Int
      BY <1>0
  <2>2. ~(j =< i) /\ j =< j /\ \A n \in NewAt : n =< i => n =< j
      BY <2>1
  <2> QED
      BY <2>2
<1> HIDE DEF upto
<1>3. Cardinality(upto(i) \cup {j}) = Cardinality(upto(i)) + 1
    BY <1>1, <1>2, FS_AddElement
<1>4. Cardinality(upto(i) \cup {j}) =< Cardinality(upto(j))
    BY <1>1, <1>2, FS_Subset
<1>5. Cardinality(upto(i)) < Cardinality(upto(j))
    BY <1>1, <1>3, <1>4
<1> QED
    BY <1>5 DEF Rank, upto

LEMMA RankOnce ==
    ASSUME m_netQueue \in Seq(NetOp), NEW i \in NewAt, NEW j \in NewAt, Rank(i) = Rank(j)
    PROVE  i = j
<1> SUFFICES ASSUME i # j PROVE FALSE
    OBVIOUS
<1>1. Rank(i) \in Nat
    BY RankBounds
<1>2. i < j \/ j < i
    BY Entries DEF NewAt, At
<1> QED
    BY <1>1, <1>2, RankGrows

LEMMA RankOnto ==
    ASSUME m_netQueue \in Seq(NetOp), NEW n \in 1..Cardinality(NewAt)
    PROVE  \E i \in NewAt : Rank(i) = n
<1> DEFINE ranks == 1..Cardinality(NewAt)
           r == [i \in NewAt |-> Rank(i)]
<1>1. NewAt \subseteq Nat /\ IsFiniteSet(NewAt) /\ Cardinality(NewAt) \in Nat
    BY Entries, NewAtFinite DEF NewAt, At
<1>2. \A i, j \in NewAt : Rank(i) = Rank(j) => i = j
    BY RankOnce
<1>3. r \in Injection(NewAt, ranks)
    BY <1>2, RankBounds DEF Injection, IsInjective
<1>4. IsFiniteSet(ranks) /\ Cardinality(ranks) = Cardinality(NewAt)
    BY <1>1, FS_Interval
<1> HIDE DEF r, ranks
<1>5. r \in Surjection(NewAt, ranks)
    BY <1>3, <1>4, FS_Injection
<1> USE DEF r, ranks
<1> QED
    BY <1>5 DEF Surjection

(* Each new connection gets a pid of its own.                               *)
LEMMA BornNames ==
    ASSUME TypeOK, OpenIsOwned
    PROVE  /\ DOMAIN Born = maxSessid..(maxSessid + Cardinality(NewAt) - 1)
           /\ \A p \in DOMAIN Born : Born[p] \in Queued("NEW_CONN")
           /\ \A p, q \in DOMAIN Born : Born[p] = Born[q] => p = q
           /\ \A f \in Queued("NEW_CONN") : \E p \in DOMAIN Born : Born[p] = f
<1> DEFINE place(p) == CHOOSE i \in NewAt : maxSessid + Rank(i) - 1 = p
<1>1. m_netQueue \in Seq(NetOp) /\ maxSessid \in Nat /\ NewAt \subseteq Nat
    BY ConstantTypes, Entries DEF TypeOK, NewAt, At
<1>2. Cardinality(NewAt) \in Nat /\ \A i \in NewAt : Rank(i) \in 1..Cardinality(NewAt)
    BY <1>1, NewAtFinite, RankBounds
<1>3. DOMAIN Born = maxSessid..(maxSessid + Cardinality(NewAt) - 1)
      /\ \A p \in DOMAIN Born : Born[p] = m_netQueue[place(p)].fd
    BY DEF Born
<1>4. ASSUME NEW p \in DOMAIN Born
      PROVE  place(p) \in NewAt /\ maxSessid + Rank(place(p)) - 1 = p
  <2>1. p - maxSessid + 1 \in 1..Cardinality(NewAt)
      BY <1>1, <1>2, <1>3
  <2>2. PICK i \in NewAt : Rank(i) = p - maxSessid + 1
      BY <1>1, <2>1, RankOnto
  <2>3. maxSessid + Rank(i) - 1 = p
      BY <1>1, <1>2, <1>3, <2>2
  <2> QED
      BY <2>3
<1>5. ASSUME NEW i \in NewAt, NEW j \in NewAt, m_netQueue[i].fd = m_netQueue[j].fd
      PROVE  i = j
    BY <1>5 DEF OpenIsOwned, NewAt, At
<1>6. ASSUME NEW f \in Queued("NEW_CONN")
      PROVE  \E p \in DOMAIN Born : Born[p] = f
  <2>1. PICK i \in NewAt : m_netQueue[i].fd = f
      BY DEF Queued, NewAt
  <2> DEFINE p == maxSessid + Rank(i) - 1
  <2>2. p \in DOMAIN Born
      BY <1>1, <1>2, <1>3
  <2>3. place(p) \in NewAt /\ maxSessid + Rank(place(p)) - 1 = p
      BY <1>4, <2>2
  <2>4. Rank(place(p)) = Rank(i)
    <3>1. Rank(place(p)) \in Int /\ Rank(i) \in Int
        BY <1>2, <2>3
    <3>2. maxSessid + Rank(place(p)) - 1 = maxSessid + Rank(i) - 1
        BY <2>3
    <3> HIDE DEF place, p
    <3> QED
        BY <1>1, <3>1, <3>2
  <2>5. place(p) = i
      BY <1>1, <2>3, <2>4, RankOnce
  <2> QED
      BY <1>3, <2>1, <2>2, <2>5
<1>7. \A p, q \in DOMAIN Born : Born[p] = Born[q] => p = q
    BY <1>3, <1>4, <1>5
<1> QED
    BY <1>3, <1>4, <1>6, <1>7 DEF Queued, NewAt

-----------------------------------------------------------------------------
(* The inductive invariant.                                                *)

(* Every client that may still come has a pid. *)
Capacity == backlog + (maxSessid - 1) + Cardinality(NewAt) =< MaxPid

(* A close that main put in names the owner of its descriptor, if there is one. *)
QuitNamesOwner ==
    \A i \in At("QUIT_CONN") :
        m_netQueue[i].pid # 0 => m_connFdMap[m_netQueue[i].fd] \in {0, m_netQueue[i].pid}

(* Descriptors are struck off only during the reads. *)
Quiet == mainPc # "read" => delLst = {}

(* Nothing is left to read of a socket that was reset or closed. *)
Gone == \A f \in Fds : sock[f].peer \in {"none", "rst"} => sock[f].inq = 0

(* Data wait with an edge, an event, or an entry in the queue; those of a   *)
(* registered connection also with a place in m_readFdMap.                  *)
DataHeld ==
    \A f \in Fds : sock[f].inq > 0 =>
        \/ f \in ready \/ [fd |-> f, hup |-> FALSE] \in batch \/ f \in Queued("DATA_IN")
        \/ m_connFdMap[f] # 0 /\ f \in m_readFdMap \ delLst

IInv ==
    /\ TypeOK /\ OpenIsOwned /\ GateToldOnce /\ Capacity
    /\ QuitNamesOwner /\ Quiet /\ Gone /\ DataHeld

-----------------------------------------------------------------------------
(* Types.                                                                  *)

Socket == [peer : {"none", "up", "fin", "rst"}, inq : 0..MaxInq]

(* A connection object's descriptor, 0 while it has none.                   *)
LEMMA FdOfConn == \A c \in ConnObj : c.fd \in 0..MaxFd
BY DEF ConnObj

LEMMA ConnFields ==
    ASSUME NEW c \in ConnObj
    PROVE  /\ c.fd \in 0..MaxFd /\ c.buf \in 0..1 /\ c.m_bChkReadZero \in BOOLEAN
           /\ \A b \in 0..1 : [c EXCEPT !.buf = b] \in ConnObj
           /\ \A z \in BOOLEAN : [c EXCEPT !.m_bChkReadZero = z] \in ConnObj
           /\ \A t \in {"zero", "recent", "sec5", "sec11"} : [c EXCEPT !.m_lastSec = t] \in ConnObj
           /\ \A f \in 0..MaxFd : [c EXCEPT !.fd = f] \in ConnObj
BY DEF ConnObj

LEMMA SocketFields ==
    ASSUME NEW k \in Socket
    PROVE  /\ k.peer \in {"none", "up", "fin", "rst"} /\ k.inq \in 0..MaxInq
           /\ \A n \in 0..MaxInq : [k EXCEPT !.inq = n] \in Socket
           /\ \A s \in {"none", "up", "fin", "rst"} : [k EXCEPT !.peer = s] \in Socket
BY DEF Socket

LEMMA NoConnType == NoConn \in ConnObj /\ NoConn.fd = 0
BY ConstantTypes DEF NoConn, ConnObj

LEMMA FreeType == Free \in Socket /\ Free.peer = "none" /\ Free.inq = 0
BY ConstantTypes DEF Free, Socket

LEMMA OlderType ==
    ASSUME NEW s \in {"zero", "recent", "sec5", "sec11"}
    PROVE  Older(s) \in {"zero", "recent", "sec5", "sec11"}
BY DEF Older

LEMMA ParsedType ==
    ASSUME NEW c \in ConnObj
    PROVE  Parsed(c) \in ConnObj /\ Parsed(c).fd = c.fd
BY DEF Parsed, ConnObj

LEMMA RestType == \A n \in Nat : Rest(n) \in 0..1
BY DEF Rest

(* Closing a set of descriptors. *)
LEMMA ClosedType ==
    ASSUME TypeOK, NEW D, Closed(D)
    PROVE  sock' \in [Fds -> Socket] /\ ready' \subseteq Fds \cup {LISTEN}
BY FreeType DEF TypeOK, Closed, Socket

LEMMA TypeInit == Init => TypeOK
<1> SUFFICES ASSUME Init PROVE TypeOK
    OBVIOUS
<1>1. sock \in [Fds -> Socket] /\ m_connMap \in [Pids -> ConnObj]
    BY FreeType, NoConnType DEF Init
<1> QED
    BY <1>1, ConstantTypes DEF Init, TypeOK, Socket

(* The clients and the ep thread. *)
LEMMA TypeClients ==
    ASSUME TypeOK, Capacity, Clients
    PROVE  TypeOK'
<1> USE ConstantTypes DEF kernelVars, epVars, tableVars, readVars
<1>0. sock \in [Fds -> Socket] /\ m_connMap \in [Pids -> ConnObj] /\ m_netQueue \in Seq(NetOp)
      /\ Cardinality(NewAt) \in Nat
    BY NewAtFinite DEF TypeOK, Socket
<1>1. CASE Connect
  <2>1. backlog + 1 \in 0..MaxPid
      BY <1>0, <1>1 DEF Connect, TypeOK
  <2> QED
      BY <1>1, <2>1 DEF Connect, TypeOK
<1>2. CASE TimePasses
  <2>1. m_connMap' \in [Pids -> ConnObj]
    <3>1. ASSUME NEW p \in Pids
          PROVE  [m_connMap[p] EXCEPT !.m_lastSec = Older(@)] \in ConnObj
      <4>1. m_connMap[p] \in ConnObj
          BY <1>0
      <4>2. Older(m_connMap[p].m_lastSec) \in {"zero", "recent", "sec5", "sec11"}
          BY <4>1, OlderType DEF ConnObj
      <4> QED
          BY <4>1, <4>2, ConnFields
    <3> QED
        BY <1>2, <3>1 DEF TimePasses
  <2> QED
      BY <1>2, <2>1 DEF TimePasses, TypeOK
<1>3. ASSUME NEW f \in Fds, PeerSends(f) \/ PeerCloses(f) \/ PeerResets(f)
      PROVE  TypeOK'
  <2>0. sock[f] \in Socket /\ sock[f].inq \in 0..MaxInq /\ 0 \in 0..MaxInq
    <3>1. sock[f] \in Socket
        BY <1>0
    <3>2. 0 \in 0..MaxInq
        OBVIOUS
    <3> QED
        BY <3>1, <3>2, SocketFields
  <2>1. sock' \in [Fds -> Socket]
    <3>1. CASE PeerSends(f)
      <4>1. sock[f].inq + 1 \in 0..MaxInq
          BY <2>0, <3>1 DEF PeerSends
      <4> QED
          BY <1>0, <2>0, <3>1, <4>1, SocketFields DEF PeerSends
    <3>2. CASE PeerCloses(f)
        BY <1>0, <2>0, <3>2, SocketFields DEF PeerCloses
    <3>3. CASE PeerResets(f)
      <4>1. [peer |-> "rst", inq |-> 0] \in Socket
          BY DEF Socket
      <4> QED
          BY <1>0, <3>3, <4>1 DEF PeerResets
    <3> HIDE DEF kernelVars, epVars, tableVars, readVars
    <3> QED
        BY <1>3, <3>1, <3>2, <3>3
  <2>2. ready' = ready \cup {f} /\ UNCHANGED <<backlog, epVars, m_netQueue, tableVars, readVars, mainPc>>
      BY <1>3 DEF PeerSends, PeerCloses, PeerResets
  <2> QED
      BY <2>1, <2>2 DEF TypeOK, Socket
<1> QED
    BY <1>1, <1>2, <1>3 DEF Clients

LEMMA TypeEp ==
    ASSUME TypeOK, Capacity, EpNext
    PROVE  TypeOK'
<1> USE ConstantTypes DEF kernelVars, epVars, tableVars, readVars
<1>0. sock \in [Fds -> Socket] /\ m_netQueue \in Seq(NetOp)
    BY DEF TypeOK, Socket
<1>1. CASE EpollWait
  <2>1. batch' \subseteq [fd : Fds \cup {LISTEN}, hup : BOOLEAN]
    <3>1. \A f \in ready : f \in Fds \cup {LISTEN}
        BY DEF TypeOK
    <3>2. ASSUME NEW f \in ready, NEW h \in BOOLEAN
          PROVE  [fd |-> f, hup |-> h] \in [fd : Fds \cup {LISTEN}, hup : BOOLEAN]
        BY <3>1
    <3>3. ASSUME NEW f \in ready
          PROVE  (f # LISTEN /\ sock[f].peer = "rst") \in BOOLEAN
        BY Zenon
    <3>4. ASSUME NEW e \in batch'
          PROVE  e \in [fd : Fds \cup {LISTEN}, hup : BOOLEAN]
      <4>1. PICK f \in ready : e = [fd |-> f, hup |-> f # LISTEN /\ sock[f].peer = "rst"]
          BY <1>1, Zenon DEF EpollWait
      <4> QED
          BY <3>2, <3>3, <4>1, Zenon
    <3> QED
        BY <3>4
  <2> QED
      BY <1>1, <2>1 DEF EpollWait, TypeOK
<1>2. CASE Accept
  <2>1. PICK f \in Fds : sock' = [sock EXCEPT ![f] = [peer |-> "up", inq |-> 0]]
                         /\ m_netQueue' = Append(m_netQueue, Op("NEW_CONN", f, 0))
      BY <1>2 DEF Accept
  <2>2. Op("NEW_CONN", f, 0) \in NetOp
      BY OpType
  <2>3. m_netQueue' \in Seq(NetOp)
      BY <1>0, <2>1, <2>2
  <2>4. sock' \in [Fds -> Socket]
    <3>1. [peer |-> "up", inq |-> 0] \in Socket
        BY DEF Socket
    <3> QED
        BY <1>0, <2>1, <3>1
  <2>5. backlog - 1 \in 0..MaxPid
      BY <1>2 DEF Accept, TypeOK
  <2> QED
      BY <1>2, <2>3, <2>4, <2>5 DEF Accept, TypeOK, Socket
<1>3. CASE AcceptEnds
    BY <1>3 DEF AcceptEnds, TypeOK
<1>4. ASSUME NEW e \in batch, AppendOp(e)
      PROVE  TypeOK'
  <2>1. e.fd \in Fds
      BY <1>4 DEF AppendOp, TypeOK
  <2> DEFINE o == Op(IF e.hup THEN "QUIT_CONN" ELSE "DATA_IN", e.fd, 0)
  <2>2. o \in NetOp
      BY <2>1, OpType
  <2>3. m_netQueue' = Append(m_netQueue, o)
      BY <1>4 DEF AppendOp
  <2> HIDE DEF o
  <2>4. m_netQueue' \in Seq(NetOp)
      BY <1>0, <2>2, <2>3
  <2> QED
      BY <1>4, <2>4 DEF AppendOp, TypeOK
<1> QED
    BY <1>1, <1>2, <1>3, <1>4 DEF EpNext


(* What DelConn and Drain leave in the tables. *)
LEMMA DelConnType ==
    ASSUME TypeOK, NEW D, NEW code \in 1..3, DelConn(D, code)
    PROVE  /\ sock' \in [Fds -> Socket] /\ ready' \subseteq Fds \cup {LISTEN}
           /\ m_connFdMap' \in [Fds -> 0..MaxPid] /\ m_connMap' \in [Pids -> ConnObj]
           /\ told' \in [Pids -> Seq(1..3)]
<1> USE ConstantTypes
<1>1. Closed(D)
    BY DEF DelConn
<1>2. m_connFdMap' \in [Fds -> 0..MaxPid]
    BY DEF DelConn, TypeOK
<1>3. m_connMap' \in [Pids -> ConnObj]
    BY NoConnType DEF DelConn, TypeOK
<1>4. told' \in [Pids -> Seq(1..3)]
  <2>1. told \in [Pids -> Seq(1..3)]
      BY DEF TypeOK
  <2>2. \A p \in Pids : Append(told[p], code) \in Seq(1..3)
      BY <2>1
  <2> QED
      BY <2>1, <2>2 DEF DelConn, Told
<1> QED
    BY <1>1, <1>2, <1>3, <1>4, ClosedType

LEMMA DrainType ==
    ASSUME TypeOK, OpenIsOwned, Capacity, Drain
    PROVE  TypeOK'
<1> USE ConstantTypes
<1> DEFINE quit == Queued("QUIT_CONN")
           born == DOMAIN Born
<1>0. /\ m_netQueue \in Seq(NetOp) /\ Cardinality(NewAt) \in Nat /\ maxSessid \in Nat
      /\ maxSessid >= 1 /\ m_connMap \in [Pids -> ConnObj] /\ m_connFdMap \in [Fds -> 0..MaxPid]
      /\ told \in [Pids -> Seq(1..3)] /\ backlog \in Nat
    BY NewAtFinite DEF TypeOK
<1>1. born = maxSessid..(maxSessid + Cardinality(NewAt) - 1)
      /\ \A p \in born : Born[p] \in Fds
    BY <1>0, BornNames, Entries
<1>2. maxSessid + Cardinality(NewAt) =< MaxPid + 1
    BY <1>0 DEF Capacity
<1>3. born \subseteq Pids
    BY <1>0, <1>1, <1>2 DEF Pids
<1> HIDE DEF born
<1>4. sock' \in [Fds -> Socket] /\ ready' \subseteq Fds \cup {LISTEN}
    BY ClosedType DEF Drain
<1>5. m_connFdMap' \in [Fds -> 0..MaxPid]
  <2>1. ASSUME NEW f \in Fds
        PROVE  m_connFdMap'[f] \in 0..MaxPid
    <3>1. CASE \E p \in born : Born[p] = f
      <4>1. PICK p \in born : m_connFdMap'[f] = p
          BY <3>1 DEF Drain, born
      <4> QED
          BY <1>3, <4>1 DEF Pids
    <3>2. CASE ~\E p \in born : Born[p] = f
      <4>1. m_connFdMap'[f] \in {0, m_connFdMap[f]}
          BY <3>2 DEF Drain, born
      <4> QED
          BY <1>0, <4>1
    <3> QED
        BY <3>1, <3>2
  <2>2. m_connFdMap' = [f \in Fds |-> m_connFdMap'[f]]
      BY DEF Drain
  <2> QED
      BY <2>1, <2>2
<1>6. m_connMap' \in [Pids -> ConnObj]
  <2>1. ASSUME NEW p \in Pids
        PROVE  m_connMap'[p] \in ConnObj
    <3>1. CASE p \in born
      <4>1. m_connMap'[p] = [NoConn EXCEPT !.fd = Born[p]]
          BY <3>1 DEF Drain, born
      <4>2. Born[p] \in 0..MaxFd
          BY <1>1, <3>1 DEF Fds
      <4> QED
          BY <4>1, <4>2, NoConnType, ConnFields
    <3>2. CASE p \notin born
      <4>1. m_connMap'[p] \in {NoConn, m_connMap[p]}
          BY <3>2 DEF Drain, born
      <4> QED
          BY <1>0, <4>1, NoConnType
    <3> QED
        BY <3>1, <3>2
  <2>2. m_connMap' = [p \in Pids |-> m_connMap'[p]]
      BY DEF Drain
  <2> QED
      BY <2>1, <2>2
<1>7. told' \in [Pids -> Seq(1..3)]
  <2>1. ASSUME NEW p \in Pids
        PROVE  told'[p] \in Seq(1..3)
    <3>1. told'[p] \in {<<1>>, told[p], Append(told[p], 2)}
        BY DEF Drain, Told
    <3>2. <<1>> \in Seq(1..3) /\ told[p] \in Seq(1..3) /\ Append(told[p], 2) \in Seq(1..3)
        BY <1>0
    <3> QED
        BY <3>1, <3>2
  <2>2. told' = [p \in Pids |-> told'[p]]
      BY DEF Drain
  <2> QED
      BY <2>1, <2>2
<1>8. maxSessid' \in 1..(MaxPid + 1)
    BY <1>0, <1>2 DEF Drain
<1>9. m_readFdMap' \subseteq Fds /\ readTodo' = m_readFdMap'
    BY <1>0, Entries DEF Drain, TypeOK
<1>10. /\ m_netQueue' = <<>> /\ mainPc' = "read"
       /\ UNCHANGED <<backlog, epPc, batch, delLst>>
    BY DEF Drain, epVars
<1>11. m_netQueue' \in Seq(NetOp)
    BY <1>10
<1> QED
    BY <1>4, <1>5, <1>6, <1>7, <1>8, <1>9, <1>10, <1>11 DEF TypeOK, Socket

(* A read of one descriptor. *)
LEMMA ReadType ==
    ASSUME TypeOK, OpenIsOwned, NEW f \in Fds, Read(f)
    PROVE  TypeOK'
<1> USE ConstantTypes
<1>0. /\ m_netQueue \in Seq(NetOp) /\ m_connMap \in [Pids -> ConnObj]
      /\ m_connFdMap \in [Fds -> 0..MaxPid] /\ sock \in [Fds -> Socket]
    BY DEF TypeOK, Socket
<1>1. /\ readTodo' \subseteq m_readFdMap'
      /\ UNCHANGED <<backlog, ready, epPc, batch, m_connFdMap, maxSessid, told, m_readFdMap, mainPc>>
    BY DEF Read, ReadNoConn, ReadData, ReadAgain, ReadCloses, ReadEof, Turn, epVars, TypeOK
<1>2. delLst' \subseteq Fds
    BY DEF Read, ReadNoConn, ReadData, ReadAgain, ReadCloses, ReadEof, TypeOK
<1> SUFFICES /\ sock' \in [Fds -> Socket] /\ m_connMap' \in [Pids -> ConnObj]
             /\ m_netQueue' \in Seq(NetOp)
    BY <1>1, <1>2 DEF TypeOK, Socket
<1> DEFINE q == m_connFdMap[f]
           c == m_connMap[q]
<1>3. q # 0 => q \in Pids /\ q \in 0..MaxPid /\ c \in ConnObj
    BY <1>0 DEF Pids
<1>4. CASE ReadNoConn(f)
    BY <1>0, <1>4 DEF ReadNoConn
<1>5. CASE ReadData(f)
  <2>1. PICK n \in 1..sock[f].inq :
           /\ sock' = [sock EXCEPT ![f].inq = @ - n]
           /\ m_connMap' = [m_connMap EXCEPT ![q].buf = Rest(@ + n),
                                             ![q].m_bChkReadZero = FALSE,
                                             ![q].m_lastSec = "recent"]
      BY <1>5 DEF ReadData
  <2>2. sock[f] \in Socket /\ sock[f].inq \in 0..MaxInq
    <3>1. sock[f] \in Socket
        BY <1>0
    <3> QED
        BY <3>1, SocketFields
  <2>3. sock' \in [Fds -> Socket]
    <3>1. sock[f].inq - n \in 0..MaxInq
        BY <2>2
    <3> QED
        BY <1>0, <2>1, <2>2, <3>1, SocketFields
  <2>4. q # 0 /\ c.buf \in 0..1
      BY <1>3, <1>5, ConnFields DEF ReadData
  <2>5. Rest(c.buf + n) \in 0..1
      BY <2>2, <2>4, RestType
  <2> DEFINE d == [[[c EXCEPT !.buf = Rest(@ + n)] EXCEPT !.m_bChkReadZero = FALSE]
                        EXCEPT !.m_lastSec = "recent"]
  <2>6. m_connMap' = [m_connMap EXCEPT ![q] = d]
      BY <1>0, <1>3, <2>1, <2>4
  <2>7. d \in ConnObj
    <3>1. [c EXCEPT !.buf = Rest(c.buf + n)] \in ConnObj
        BY <1>3, <2>4, <2>5, ConnFields
    <3>2. [[c EXCEPT !.buf = Rest(c.buf + n)] EXCEPT !.m_bChkReadZero = FALSE] \in ConnObj
        BY <3>1, ConnFields
    <3> QED
        BY <3>2, ConnFields
  <2> HIDE DEF d
  <2> QED
      BY <1>0, <1>3, <1>5, <2>3, <2>4, <2>6, <2>7 DEF ReadData
<1>6. CASE ReadAgain(f)
  <2>1. Parsed(c) \in ConnObj /\ q # 0
      BY <1>3, <1>6, ParsedType DEF ReadAgain
  <2>2. [Parsed(c) EXCEPT !.m_bChkReadZero = TRUE] \in ConnObj
      BY <2>1, ConnFields
  <2>3. m_connMap' = [m_connMap EXCEPT ![q] = [Parsed(c) EXCEPT !.m_bChkReadZero = TRUE]]
      BY <1>0, <1>3, <1>6, <2>1 DEF ReadAgain
  <2> QED
      BY <1>0, <1>3, <1>6, <2>1, <2>2, <2>3 DEF ReadAgain
<1>7. CASE ReadCloses(f)
  <2>1. Parsed(c) \in ConnObj /\ q # 0
      BY <1>3, <1>7, ParsedType DEF ReadCloses
  <2>2. m_connMap' = [m_connMap EXCEPT ![q] = Parsed(c)]
      BY <1>0, <1>3, <1>7, <2>1 DEF ReadCloses
  <2>3. Op("QUIT_CONN", f, q) \in NetOp
      BY <1>3, <2>1, OpType
  <2> QED
      BY <1>0, <1>3, <1>7, <2>1, <2>2, <2>3 DEF ReadCloses
<1>8. CASE ReadEof(f)
  <2>1. Parsed(c) \in ConnObj /\ q # 0
      BY <1>3, <1>8, ParsedType DEF ReadEof
  <2>2. m_connMap' = [m_connMap EXCEPT ![q] = Parsed(c)]
      BY <1>8 DEF ReadEof
  <2> QED
      BY <1>0, <1>3, <1>8, <2>1, <2>2 DEF ReadEof
<1> QED
    BY <1>4, <1>5, <1>6, <1>7, <1>8 DEF Read

LEMMA TypeMain ==
    ASSUME TypeOK, OpenIsOwned, Capacity, MainNext
    PROVE  TypeOK'
<1> USE ConstantTypes DEF kernelVars, epVars, tableVars, readVars
<1>1. CASE ReadsDone
    BY <1>1 DEF ReadsDone, TypeOK
<1>2. CASE ChkConnTimeout
  <2>1. PICK D : DelConn(D, 3)
      BY <1>2 DEF ChkConnTimeout
  <2>2. /\ mainPc' = "idle"
        /\ UNCHANGED <<backlog, epPc, batch, m_netQueue, maxSessid, m_readFdMap, readTodo, delLst>>
      BY <1>2 DEF ChkConnTimeout
  <2> QED
      BY <2>1, <2>2, DelConnType DEF TypeOK, Socket
<1>3. ASSUME NEW p \in Pids, SendFails(p)
      PROVE  TypeOK'
  <2>1. m_connMap[p].fd \in Fds /\ p \in 0..MaxPid
    <3>1. m_connMap[p] \in ConnObj
        BY DEF TypeOK
    <3>2. m_connMap[p].fd \in 0..MaxFd
        BY <3>1, ConnFields
    <3> QED
        BY <1>3, <3>2 DEF SendFails, Fds, Pids
  <2>2. m_netQueue' = Append(m_netQueue, Op("QUIT_CONN", m_connMap[p].fd, p))
        /\ Op("QUIT_CONN", m_connMap[p].fd, p) \in NetOp
      BY <1>3, <2>1, OpType DEF SendFails
  <2>3. m_netQueue' \in Seq(NetOp)
      BY <2>2 DEF TypeOK
  <2> QED
      BY <1>3, <2>3 DEF SendFails, TypeOK
<1>4. ASSUME NEW p \in Pids, ForceCloseCliConn(p)
      PROVE  TypeOK'
  <2>1. DelConn({p}, 2) /\ UNCHANGED <<backlog, epPc, batch, m_netQueue, maxSessid,
                                       m_readFdMap, readTodo, delLst, mainPc>>
      BY <1>4 DEF ForceCloseCliConn
  <2> QED
      BY <2>1, DelConnType DEF TypeOK, Socket
<1> HIDE DEF kernelVars, epVars, tableVars, readVars
<1> QED
    BY <1>1, <1>2, <1>3, <1>4, DrainType, ReadType DEF MainNext

-----------------------------------------------------------------------------
(* The tables.                                                             *)

(* A step that opens, closes and names nothing. *)
SameTables ==
    /\ \A f \in Fds : Open(f)' <=> Open(f)
    /\ NewAt' = NewAt /\ \A i \in NewAt : m_netQueue'[i] = m_netQueue[i]
    /\ \A p \in Pids : m_connMap'[p].fd = m_connMap[p].fd
    /\ UNCHANGED <<m_connFdMap, maxSessid, told>>

LEMMA NewInTermsOfAt ==
    /\ Queued("NEW_CONN") = {m_netQueue[i].fd : i \in NewAt}
    /\ (\A i, j \in DOMAIN m_netQueue :
           m_netQueue[i].op = "NEW_CONN" /\ m_netQueue[j].op = "NEW_CONN"
           /\ m_netQueue[i].fd = m_netQueue[j].fd => i = j)
       <=> \A i, j \in NewAt : m_netQueue[i].fd = m_netQueue[j].fd => i = j
BY DEF Queued, NewAt, At

(* The five clauses of OpenIsOwned, by name. *)
Owned    == \A f \in Fds : Open(f) <=> (m_connFdMap[f] # 0 \/ f \in Queued("NEW_CONN"))
Fresh    == \A f \in Queued("NEW_CONN") : m_connFdMap[f] = 0
Apart    == \A i, j \in NewAt : m_netQueue[i].fd = m_netQueue[j].fd => i = j
Forth    == \A p \in Pids : m_connMap[p].fd # 0 => m_connFdMap[m_connMap[p].fd] = p
Back     == \A f \in Fds : m_connFdMap[f] # 0 => m_connMap[m_connFdMap[f]].fd = f

LEMMA Clauses == OpenIsOwned <=> Owned /\ Fresh /\ Apart /\ Forth /\ Back
BY NewInTermsOfAt DEF OpenIsOwned, Owned, Fresh, Apart, Forth, Back

LEMMA SameTablesKeep ==
    ASSUME TypeOK, OpenIsOwned, GateToldOnce, SameTables
    PROVE  OpenIsOwned' /\ GateToldOnce'
<1>1. Queued("NEW_CONN")' = Queued("NEW_CONN")
  <2>1. Queued("NEW_CONN") = {m_netQueue[i].fd : i \in NewAt}
        /\ Queued("NEW_CONN")' = {m_netQueue'[i].fd : i \in NewAt'}
      BY DEF Queued, NewAt
  <2> QED
      BY <2>1 DEF SameTables
<1>2. Owned /\ Fresh /\ Apart /\ Forth /\ Back
    BY Clauses
<1>3. Owned' /\ Fresh'
    BY <1>1, <1>2 DEF SameTables, Owned, Fresh
<1>4. Apart'
    BY <1>2 DEF SameTables, Apart
<1>5. \A f \in Fds : m_connFdMap[f] \in 0..MaxPid
    BY DEF TypeOK
<1>6. Back'
  <2>1. \A f \in Fds : m_connFdMap[f] # 0 => m_connFdMap[f] \in Pids
      BY <1>5, ConstantTypes DEF Pids
  <2> QED
      BY <1>2, <2>1 DEF SameTables, Back
<1>7. Forth'
    BY <1>2 DEF SameTables, Forth
<1>8. GateToldOnce'
    BY DEF SameTables, GateToldOnce
<1>9. Owned' /\ Fresh' /\ Apart' /\ Forth' /\ Back' => OpenIsOwned'
    BY Clauses, PTL
<1> QED
    BY <1>3, <1>4, <1>6, <1>7, <1>8, <1>9

(* Putting a close or a DATA_IN into the queue. *)
LEMMA OtherOps ==
    ASSUME m_netQueue \in Seq(NetOp), NEW o \in NetOp, o.op # "NEW_CONN",
           m_netQueue' = Append(m_netQueue, o)
    PROVE  NewAt' = NewAt /\ \A i \in NewAt : m_netQueue'[i] = m_netQueue[i]
<1>1. At("NEW_CONN")' = At("NEW_CONN") /\ \A i \in DOMAIN m_netQueue : m_netQueue'[i] = m_netQueue[i]
    BY AppendAt
<1> QED
    BY <1>1 DEF NewAt, At

LEMMA SameNew == m_netQueue' = m_netQueue => NewAt' = NewAt /\ \A i \in NewAt : m_netQueue'[i] = m_netQueue[i]
BY DEF NewAt, At

LEMMA AppendOpKeeps ==
    ASSUME m_netQueue \in Seq(NetOp), TypeOK, NEW e \in batch, AppendOp(e)
    PROVE  /\ NewAt' = NewAt /\ \A i \in NewAt : m_netQueue'[i] = m_netQueue[i]
<1> DEFINE o == Op(IF e.hup THEN "QUIT_CONN" ELSE "DATA_IN", e.fd, 0)
<1>1. e.fd \in Fds
    BY DEF AppendOp, TypeOK
<1>2. o \in NetOp /\ o.op # "NEW_CONN"
  <2>1. o \in NetOp
      BY <1>1, OpType, ConstantTypes
  <2> QED
      BY <2>1 DEF Op
<1>3. m_netQueue' = Append(m_netQueue, o)
    BY DEF AppendOp
<1> HIDE DEF o
<1> QED
    BY <1>2, <1>3, OtherOps

LEMMA ReadKeepsFd ==
    ASSUME TypeOK, NEW f \in Fds, Read(f)
    PROVE  \A p \in Pids : m_connMap'[p].fd = m_connMap[p].fd
<1>1. m_connMap \in [Pids -> ConnObj]
    BY DEF TypeOK
<1>2. CASE ReadNoConn(f)
    BY <1>2 DEF ReadNoConn
<1>3. CASE ReadData(f)
  <2> DEFINE q == m_connFdMap[f]
  <2>1. PICK n \in 1..sock[f].inq :
           m_connMap' = [m_connMap EXCEPT ![q].buf = Rest(@ + n),
                                          ![q].m_bChkReadZero = FALSE,
                                          ![q].m_lastSec = "recent"]
      BY <1>3 DEF ReadData
  <2> QED
      BY <1>1, <2>1 DEF ConnObj
<1>4. ASSUME ReadAgain(f) \/ ReadCloses(f) \/ ReadEof(f)
      PROVE  \A p \in Pids : m_connMap'[p].fd = m_connMap[p].fd
  <2> DEFINE q == m_connFdMap[f]
             c == m_connMap[q]
  <2>1. q \in Pids
      BY <1>4, ConstantTypes DEF ReadAgain, ReadCloses, ReadEof, TypeOK, Pids
  <2>2. Parsed(c) \in ConnObj /\ Parsed(c).fd = c.fd
      BY <1>1, <2>1, ParsedType
  <2>3. [Parsed(c) EXCEPT !.m_bChkReadZero = TRUE].fd = c.fd
      BY <2>2 DEF ConnObj
  <2>4. \/ m_connMap' = [m_connMap EXCEPT ![q] = Parsed(c)]
        \/ m_connMap' = [m_connMap EXCEPT ![q] = [Parsed(c) EXCEPT !.m_bChkReadZero = TRUE]]
      BY <1>1, <1>4, <2>1 DEF ReadAgain, ReadCloses, ReadEof
  <2> HIDE DEF q, c
  <2> QED
      BY <1>1, <2>1, <2>2, <2>3, <2>4 DEF c
<1> QED
    BY <1>2, <1>3, <1>4 DEF Read

(* The steps that leave the tables as they are. *)
LEMMA PassiveSteps ==
    ASSUME TypeOK, OpenIsOwned,
           \/ Connect \/ TimePasses \/ EpollWait \/ AcceptEnds \/ ReadsDone
           \/ \E e \in batch : AppendOp(e)
           \/ \E f \in Fds : PeerSends(f) \/ PeerCloses(f) \/ PeerResets(f) \/ Read(f)
           \/ \E p \in Pids : SendFails(p)
           \/ UNCHANGED vars
    PROVE  SameTables
<1> USE DEF kernelVars, epVars, tableVars, readVars
<1>0. /\ m_netQueue \in Seq(NetOp) /\ m_connMap \in [Pids -> ConnObj]
      /\ sock \in [Fds -> Socket] /\ m_connFdMap \in [Fds -> 0..MaxPid]
    BY DEF TypeOK, Socket
<1>1. ASSUME UNCHANGED <<sock, m_netQueue, m_connFdMap, maxSessid, told>>,
             \A p \in Pids : m_connMap'[p].fd = m_connMap[p].fd
      PROVE  SameTables
  <2>1. \A f \in Fds : Open(f)' <=> Open(f)
      BY <1>1 DEF Open
  <2> QED
      BY <1>1, <2>1, SameNew DEF SameTables
<1>2. CASE Connect \/ EpollWait \/ AcceptEnds \/ ReadsDone \/ UNCHANGED vars
  <2>1. UNCHANGED <<sock, m_netQueue, m_connFdMap, m_connMap, maxSessid, told>>
      BY <1>2 DEF Connect, EpollWait, AcceptEnds, ReadsDone, vars
  <2> QED
      BY <1>1, <2>1
<1>3. CASE TimePasses
  <2>1. \A p \in Pids : m_connMap'[p].fd = m_connMap[p].fd
      BY <1>0, <1>3 DEF TimePasses, ConnObj
  <2> QED
      BY <1>1, <1>3, <2>1 DEF TimePasses
<1>4. ASSUME NEW e \in batch, AppendOp(e)
      PROVE  SameTables
  <2>1. UNCHANGED <<sock, m_connFdMap, m_connMap, maxSessid, told>>
      BY <1>4 DEF AppendOp
  <2>2. \A f \in Fds : Open(f)' <=> Open(f)
      BY <2>1 DEF Open
  <2> QED
      BY <1>0, <1>4, <2>1, <2>2, AppendOpKeeps DEF SameTables
<1>5. ASSUME NEW f \in Fds, PeerSends(f) \/ PeerCloses(f) \/ PeerResets(f)
      PROVE  SameTables
  <2>1. UNCHANGED <<m_netQueue, m_connFdMap, m_connMap, maxSessid, told>>
      BY <1>5 DEF PeerSends, PeerCloses, PeerResets
  <2>2. ASSUME NEW g \in Fds
        PROVE  Open(g)' <=> Open(g)
    <3>1. CASE PeerSends(f)
        BY <1>0, <3>1 DEF PeerSends, Open, Socket
    <3>2. CASE PeerCloses(f)
        BY <1>0, <3>2 DEF PeerCloses, Open, Socket
    <3>3. CASE PeerResets(f)
        BY <1>0, <3>3 DEF PeerResets, Open, Socket
    <3> HIDE DEF kernelVars, epVars, tableVars, readVars
    <3> QED
        BY <1>5, <3>1, <3>2, <3>3
  <2> QED
      BY <2>1, <2>2, SameNew DEF SameTables
<1>6. ASSUME NEW f \in Fds, Read(f)
      PROVE  SameTables
  <2>1. UNCHANGED <<m_connFdMap, maxSessid, told>>
      BY <1>6 DEF Read, ReadNoConn, ReadData, ReadAgain, ReadCloses, ReadEof, Turn
  <2>2. ASSUME NEW g \in Fds
        PROVE  Open(g)' <=> Open(g)
    <3>1. CASE ReadData(f)
        BY <1>0, <3>1 DEF ReadData, Open, Socket
    <3>2. CASE ~ReadData(f)
        BY <1>6, <3>2 DEF Read, ReadNoConn, ReadAgain, ReadCloses, ReadEof, Open
    <3> QED
        BY <3>1, <3>2
  <2>3. NewAt' = NewAt /\ \A i \in NewAt : m_netQueue'[i] = m_netQueue[i]
    <3>1. CASE ReadCloses(f)
      <4> DEFINE o == Op("QUIT_CONN", f, m_connFdMap[f])
      <4>1. o \in NetOp /\ o.op # "NEW_CONN"
        <5>1. o \in NetOp
            BY <1>0, OpType
        <5> QED
            BY <5>1 DEF Op
      <4>2. m_netQueue' = Append(m_netQueue, o)
          BY <3>1 DEF ReadCloses
      <4> HIDE DEF o
      <4> QED
          BY <1>0, <4>1, <4>2, OtherOps
    <3>2. CASE ~ReadCloses(f)
      <4>1. UNCHANGED m_netQueue
          BY <1>6, <3>2 DEF Read, ReadNoConn, ReadData, ReadAgain, ReadEof
      <4> QED
          BY <4>1, SameNew
    <3> QED
        BY <3>1, <3>2
  <2> QED
      BY <1>6, <2>1, <2>2, <2>3, ReadKeepsFd DEF SameTables
<1>7. ASSUME NEW p \in Pids, SendFails(p)
      PROVE  SameTables
  <2> DEFINE o == Op("QUIT_CONN", m_connMap[p].fd, p)
  <2>1. UNCHANGED <<sock, m_connFdMap, m_connMap, maxSessid, told>>
        /\ m_netQueue' = Append(m_netQueue, o)
      BY <1>7 DEF SendFails
  <2>2. m_connMap[p].fd \in Fds /\ p \in 0..MaxPid
    <3>1. m_connMap[p].fd \in 0..MaxFd
        BY <1>0, ConnFields
    <3> QED
        BY <1>7, <3>1, ConstantTypes DEF SendFails, Fds, Pids
  <2>3. o \in NetOp /\ o.op # "NEW_CONN"
    <3>1. o \in NetOp
        BY <2>2, OpType
    <3> QED
        BY <3>1 DEF Op
  <2> HIDE DEF o
  <2>4. \A f \in Fds : Open(f)' <=> Open(f)
      BY <2>1 DEF Open
  <2> QED
      BY <1>0, <2>1, <2>3, <2>4, OtherOps DEF SameTables
<1> HIDE DEF kernelVars, epVars, tableVars, readVars
<1> QED
    BY <1>2, <1>3, <1>4, <1>5, <1>6, <1>7

(* A client is accepted on a free descriptor, which nobody owns. *)
LEMMA AcceptTables ==
    ASSUME TypeOK, OpenIsOwned, GateToldOnce, Accept
    PROVE  OpenIsOwned' /\ GateToldOnce'
<1>1. PICK f \in Fds :
          /\ ~Open(f)
          /\ sock' = [sock EXCEPT ![f] = [peer |-> "up", inq |-> 0]]
          /\ m_netQueue' = Append(m_netQueue, Op("NEW_CONN", f, 0))
    BY DEF Accept
<1>2. UNCHANGED <<m_connFdMap, m_connMap, maxSessid, told>>
    BY DEF Accept, tableVars
<1>3. m_netQueue \in Seq(NetOp) /\ sock \in [Fds -> Socket]
    BY DEF TypeOK, Socket
<1> DEFINE o == Op("NEW_CONN", f, 0)
           n == Len(m_netQueue) + 1
<1>4. o \in NetOp /\ o.op = "NEW_CONN" /\ o.fd = f
    BY OpType, ConstantTypes DEF Op
<1> HIDE DEF o
<1>5. /\ NewAt' = NewAt \cup {n} /\ n \notin NewAt
      /\ m_netQueue'[n].fd = f /\ \A i \in NewAt : m_netQueue'[i] = m_netQueue[i]
      /\ Queued("NEW_CONN")' = Queued("NEW_CONN") \cup {f}
  <2>1. /\ At("NEW_CONN")' = At("NEW_CONN") \cup {n}
        /\ Queued("NEW_CONN")' = Queued("NEW_CONN") \cup {f}
        /\ n \notin DOMAIN m_netQueue /\ m_netQueue'[n] = o
        /\ \A i \in DOMAIN m_netQueue : m_netQueue'[i] = m_netQueue[i]
      BY <1>1, <1>3, <1>4, AppendAt DEF o
  <2> QED
      BY <1>4, <2>1 DEF NewAt, At
<1>6. Owned /\ Fresh /\ Apart /\ Forth /\ Back
    BY Clauses
<1>7. m_connFdMap[f] = 0 /\ f \notin Queued("NEW_CONN")
    BY <1>1, <1>6 DEF Owned
<1>8. Owned'
  <2>1. \A g \in Fds : Open(g)' <=> Open(g) \/ g = f
      BY <1>1, <1>3 DEF Open, Socket
  <2> QED
      BY <1>2, <1>5, <1>6, <2>1 DEF Owned
<1>9. Fresh' /\ Forth' /\ Back'
    BY <1>2, <1>5, <1>6, <1>7 DEF Fresh, Forth, Back
<1>10. Apart'
  <2>1. \A i \in NewAt : m_netQueue[i].fd # f
      BY <1>7 DEF Queued, NewAt
  <2> QED
      BY <1>5, <1>6, <2>1 DEF Apart
<1>11. GateToldOnce'
    BY <1>2 DEF GateToldOnce
<1>12. Owned' /\ Fresh' /\ Apart' /\ Forth' /\ Back' => OpenIsOwned'
    BY Clauses, PTL
<1> QED
    BY <1>8, <1>9, <1>10, <1>11, <1>12

(* What the connection tables point at.                                    *)
LEMMA TablesPoint ==
    TypeOK => /\ \A f \in Fds : m_connFdMap[f] # 0 => m_connFdMap[f] \in Pids
              /\ \A p \in Pids : m_connMap[p].fd # 0 => m_connMap[p].fd \in Fds
              /\ 0 \notin Fds /\ 0 \notin Pids
<1> SUFFICES ASSUME TypeOK
             PROVE  /\ \A f \in Fds : m_connFdMap[f] # 0 => m_connFdMap[f] \in Pids
                    /\ \A p \in Pids : m_connMap[p].fd # 0 => m_connMap[p].fd \in Fds
                    /\ 0 \notin Fds /\ 0 \notin Pids
    OBVIOUS
<1> USE ConstantTypes
<1>1. m_connFdMap \in [Fds -> 0..MaxPid] /\ m_connMap \in [Pids -> ConnObj]
    BY DEF TypeOK
<1>2. \A f \in Fds : m_connFdMap[f] # 0 => m_connFdMap[f] \in Pids
    BY <1>1 DEF Pids
<1>3. \A p \in Pids : m_connMap[p].fd # 0 => m_connMap[p].fd \in Fds
  <2>1. \A p \in Pids : m_connMap[p].fd \in 0..MaxFd
      BY <1>1, FdOfConn
  <2>2. \A n \in 0..MaxFd : n # 0 => n \in Fds
      BY DEF Fds
  <2> QED
      BY <2>1, <2>2
<1>4. 0 \notin Fds /\ 0 \notin Pids
    BY DEF Fds, Pids
<1> QED
    BY <1>2, <1>3, <1>4

(* The pids that a close takes away are those whose descriptor it names. *)
LEMMA ClosedPids ==
    ASSUME TypeOK, OpenIsOwned, NEW D
    PROVE  /\ \A p \in Pids : p \in PidsOf(D) <=> m_connMap[p].fd # 0 /\ m_connMap[p].fd \in D
           /\ \A f \in Fds : m_connFdMap[f] # 0 => (m_connFdMap[f] \in PidsOf(D) <=> f \in D)
<1> USE ConstantTypes
<1>1. Forth /\ Back
    BY Clauses
<1>2. /\ \A f \in Fds : m_connFdMap[f] # 0 => m_connFdMap[f] \in Pids
      /\ \A p \in Pids : m_connMap[p].fd # 0 => m_connMap[p].fd \in Fds
      /\ 0 \notin Fds /\ 0 \notin Pids
    BY TablesPoint
<1>3. ASSUME NEW p \in Pids
      PROVE  p \in PidsOf(D) <=> m_connMap[p].fd # 0 /\ m_connMap[p].fd \in D
    BY <1>1, <1>2 DEF PidsOf, Registered, Forth, Back
<1>4. ASSUME NEW f \in Fds, m_connFdMap[f] # 0
      PROVE  m_connFdMap[f] \in PidsOf(D) <=> f \in D
    BY <1>1, <1>2, <1>3, <1>4 DEF Back
<1> QED
    BY <1>3, <1>4

(* A client is told to the gate as gone only after it was told as there.    *)
LEMMA AppendToOne ==
    ASSUME NEW a \in Nat, NEW b \in Nat
    PROVE  Append(<<a>>, b) = <<a, b>>
<1>1. <<a>> \in Seq(Nat) /\ Len(<<a>>) = 1 /\ <<a, b>> \in Seq(Nat) /\ Len(<<a, b>>) = 2
    OBVIOUS
<1> DEFINE s == Append(<<a>>, b)
<1>2. s \in Seq(Nat) /\ Len(s) = 2 /\ s[1] = a /\ s[2] = b
    BY <1>1, AppendProperties
<1>3. \A i \in 1..2 : s[i] = <<a, b>>[i]
    BY <1>2
<1> HIDE DEF s
<1>4. s = <<a, b>>
    BY <1>1, <1>2, <1>3, SeqEqual
<1> QED
    BY <1>4 DEF s

LEMMA ToldTwice == Append(<<1>>, 2) = <<1, 2>> /\ Append(<<1>>, 3) = <<1, 3>>
BY AppendToOne

LEMMA ToldDiffer ==
    <<1>> # <<>> /\ <<1, 2>> # <<>> /\ <<1, 3>> # <<>> /\ <<1, 2>> # <<1>> /\ <<1, 3>> # <<1>>
OBVIOUS

LEMMA DelConnTables ==
    ASSUME TypeOK, OpenIsOwned, GateToldOnce, NEW D, NEW code \in {2, 3}, DelConn(D, code),
           UNCHANGED <<m_netQueue, maxSessid>>
    PROVE  OpenIsOwned' /\ GateToldOnce'
<1> USE ConstantTypes
<1>1. Owned /\ Fresh /\ Apart /\ Forth /\ Back
    BY Clauses
<1>2. /\ \A p \in Pids : p \in PidsOf(D) <=> m_connMap[p].fd # 0 /\ m_connMap[p].fd \in D
      /\ \A f \in Fds : m_connFdMap[f] # 0 => (m_connFdMap[f] \in PidsOf(D) <=> f \in D)
    BY ClosedPids
<1>3. /\ \A f \in Fds : m_connFdMap'[f] = IF f \in D THEN 0 ELSE m_connFdMap[f]
      /\ \A p \in Pids : m_connMap'[p].fd = IF p \in PidsOf(D) THEN 0 ELSE m_connMap[p].fd
      /\ \A p \in Pids : told'[p] = IF p \in PidsOf(D) THEN Append(told[p], code) ELSE told[p]
    BY NoConnType DEF DelConn, Told
<1>4. \A f \in Fds : Open(f)' <=> Open(f) /\ f \notin Registered(D)
    BY FreeType DEF DelConn, Closed, Open
<1>5. /\ NewAt' = NewAt /\ \A i \in NewAt : m_netQueue'[i] = m_netQueue[i]
      /\ Queued("NEW_CONN")' = Queued("NEW_CONN")
    BY DEF NewAt, At, Queued
<1>6. /\ \A f \in Fds : m_connFdMap[f] # 0 => m_connFdMap[f] \in Pids
      /\ \A p \in Pids : m_connMap[p].fd # 0 => m_connMap[p].fd \in Fds
      /\ 0 \notin Fds /\ 0 \notin Pids
    BY TablesPoint
<1>7. Queued("NEW_CONN") \subseteq Fds
    BY Entries DEF TypeOK
<1>8. Owned'
    BY <1>1, <1>3, <1>4, <1>5 DEF Owned, Fresh, Registered
<1>9. Fresh'
    BY <1>1, <1>3, <1>5, <1>7 DEF Fresh
<1>10. Apart'
    BY <1>1, <1>5 DEF Apart
<1>11. Forth' /\ Back'
    BY <1>1, <1>2, <1>3, <1>6 DEF Forth, Back
<1>12. GateToldOnce'
  <2> SUFFICES ASSUME NEW p \in Pids
               PROVE  /\ told'[p] \in {<<>>, <<1>>, <<1, 2>>, <<1, 3>>}
                      /\ told'[p] = <<1>> <=> m_connMap'[p].fd # 0
                      /\ told'[p] # <<>> <=> p < maxSessid'
      BY DEF GateToldOnce
  <2>1. CASE p \in PidsOf(D)
    <3>1. told[p] = <<1>> /\ p < maxSessid
        BY <1>2, <2>1, ToldDiffer DEF GateToldOnce
    <3>2. told'[p] \in {<<1, 2>>, <<1, 3>>}
        BY <1>3, <2>1, <3>1, ToldTwice
    <3> QED
        BY <1>3, <2>1, <3>1, <3>2, ToldDiffer
  <2>2. CASE p \notin PidsOf(D)
      BY <1>3, <2>2 DEF GateToldOnce
  <2> QED
      BY <2>1, <2>2
<1>13. Owned' /\ Fresh' /\ Apart' /\ Forth' /\ Back' => OpenIsOwned'
    BY Clauses, PTL
<1> QED
    BY <1>8, <1>9, <1>10, <1>11, <1>12, <1>13

(* The queue is emptied: its closes first, then its new connections. *)
LEMMA DrainTables ==
    ASSUME TypeOK, OpenIsOwned, GateToldOnce, Capacity, Drain
    PROVE  OpenIsOwned' /\ GateToldOnce'
<1> USE ConstantTypes
<1> DEFINE quit == Queued("QUIT_CONN")
           new  == Queued("NEW_CONN")
           born == DOMAIN Born
<1>1. Owned /\ Fresh /\ Apart /\ Forth /\ Back
    BY Clauses
<1>2. /\ \A p \in Pids : p \in PidsOf(quit) <=> m_connMap[p].fd # 0 /\ m_connMap[p].fd \in quit
      /\ \A f \in Fds : m_connFdMap[f] # 0 => (m_connFdMap[f] \in PidsOf(quit) <=> f \in quit)
    BY ClosedPids
<1>3. /\ Cardinality(NewAt) \in Nat /\ maxSessid \in Nat /\ maxSessid >= 1
      /\ backlog \in Nat /\ quit \subseteq Fds /\ new \subseteq Fds
    BY NewAtFinite, Entries DEF TypeOK
<1>4. /\ born = maxSessid..(maxSessid + Cardinality(NewAt) - 1)
      /\ \A p \in born : Born[p] \in new
      /\ \A p, q \in born : Born[p] = Born[q] => p = q
      /\ \A f \in new : \E p \in born : Born[p] = f
    BY BornNames
<1>5. born \subseteq Pids /\ \A p \in born : Born[p] \in Fds
    BY <1>3, <1>4 DEF Capacity, Pids
<1>6. /\ \A f \in Fds : m_connFdMap[f] # 0 => m_connFdMap[f] \in Pids
      /\ \A p \in Pids : m_connMap[p].fd # 0 => m_connMap[p].fd \in Fds
      /\ 0 \notin Fds /\ 0 \notin Pids
    BY TablesPoint
(* What the tables are afterwards. *)
<1>7. ASSUME NEW p \in Pids
      PROVE  m_connMap'[p].fd = IF p \in born THEN Born[p]
                                ELSE IF p \in PidsOf(quit) THEN 0 ELSE m_connMap[p].fd
  <2>1. m_connMap'[p] = IF p \in born THEN [NoConn EXCEPT !.fd = Born[p]]
                        ELSE IF p \in PidsOf(quit) THEN NoConn ELSE m_connMap[p]
      BY DEF Drain
  <2>2. [NoConn EXCEPT !.fd = Born[p]].fd = Born[p]
      BY DEF NoConn
  <2> QED
      BY <2>1, <2>2, NoConnType
<1>8. ASSUME NEW f \in Fds, f \notin new
      PROVE  m_connFdMap'[f] = IF f \in quit THEN 0 ELSE m_connFdMap[f]
  <2>1. ~\E p \in born : Born[p] = f
      BY <1>4, <1>8
  <2> QED
      BY <2>1 DEF Drain
<1>9. ASSUME NEW p \in born
      PROVE  m_connFdMap'[Born[p]] = p
  <2>1. m_connFdMap'[Born[p]] = CHOOSE q \in born : Born[q] = Born[p]
      BY <1>5, <1>9 DEF Drain
  <2> QED
      BY <1>4, <1>9, <2>1
<1>10. /\ \A f \in Fds : Open(f)' <=> Open(f) /\ f \notin Registered(quit)
       /\ maxSessid' = maxSessid + Cardinality(NewAt)
       /\ \A p \in Pids : told'[p] = IF p \in born THEN <<1>>
                                     ELSE IF p \in PidsOf(quit) THEN Append(told[p], 2) ELSE told[p]
       /\ m_netQueue' = <<>>
    BY FreeType DEF Drain, Closed, Open, Told
<1>11. NewAt' = {} /\ Queued("NEW_CONN")' = {}
    BY <1>10 DEF NewAt, At, Queued
<1> HIDE DEF born, quit, new
<1>12. Owned'
  <2> SUFFICES ASSUME NEW f \in Fds
               PROVE  Open(f)' <=> m_connFdMap'[f] # 0
      BY <1>11 DEF Owned
  <2>1. CASE f \in new
    <3>1. PICK p \in born : Born[p] = f
        BY <1>4, <2>1
    <3>2. m_connFdMap'[f] = p /\ p # 0
        BY <1>5, <1>6, <1>9, <3>1
    <3>3. Open(f) /\ f \notin Registered(quit)
        BY <1>1, <2>1 DEF Owned, Fresh, Registered, new
    <3> QED
        BY <1>10, <3>2, <3>3
  <2>2. CASE f \notin new
      BY <1>1, <1>8, <1>10, <2>2 DEF Owned, Registered, new
  <2> QED
      BY <2>1, <2>2
<1>13. Fresh' /\ Apart'
    BY <1>11 DEF Fresh, Apart
<1>14. Forth'
  <2> SUFFICES ASSUME NEW p \in Pids, m_connMap'[p].fd # 0
               PROVE  m_connFdMap'[m_connMap'[p].fd] = p
      BY DEF Forth
  <2>1. CASE p \in born
      BY <1>7, <1>9, <2>1
  <2>2. CASE p \notin born
    <3> DEFINE f == m_connMap[p].fd
    <3>1. m_connMap'[p].fd = f /\ f # 0 /\ f \notin quit /\ f \in Fds
        BY <1>2, <1>6, <1>7, <2>2
    <3>2. m_connFdMap[f] = p /\ p # 0
        BY <1>1, <1>6, <3>1 DEF Forth
    <3>3. f \notin new
        BY <1>1, <3>2 DEF Fresh, new
    <3> QED
        BY <1>8, <3>1, <3>2, <3>3
  <2> QED
      BY <2>1, <2>2
<1>15. Back'
  <2> SUFFICES ASSUME NEW f \in Fds, m_connFdMap'[f] # 0
               PROVE  m_connMap'[m_connFdMap'[f]].fd = f
      BY DEF Back
  <2>1. CASE f \in new
    <3>1. PICK p \in born : Born[p] = f
        BY <1>4, <2>1
    <3> QED
        BY <1>5, <1>7, <1>9, <3>1
  <2>2. CASE f \notin new
    <3> DEFINE p == m_connFdMap[f]
    <3>1. m_connFdMap'[f] = p /\ p # 0 /\ f \notin quit /\ p \in Pids
        BY <1>6, <1>8, <2>2
    <3>2. m_connMap[p].fd = f /\ f # 0
        BY <1>1, <1>6, <3>1 DEF Back
    <3>3. p < maxSessid
        BY <3>1, <3>2, ToldDiffer DEF GateToldOnce
    <3>4. p \notin born /\ p \notin PidsOf(quit)
        BY <1>2, <1>3, <1>4, <3>1, <3>2, <3>3 DEF Pids
    <3> QED
        BY <1>7, <3>1, <3>2, <3>4
  <2> QED
      BY <2>1, <2>2
<1>16. GateToldOnce'
  <2> SUFFICES ASSUME NEW p \in Pids
               PROVE  /\ told'[p] \in {<<>>, <<1>>, <<1, 2>>, <<1, 3>>}
                      /\ told'[p] = <<1>> <=> m_connMap'[p].fd # 0
                      /\ told'[p] # <<>> <=> p < maxSessid'
      BY DEF GateToldOnce
  <2>0. p \in Nat /\ (p < maxSessid' <=> p < maxSessid \/ p \in born)
      BY <1>3, <1>4, <1>10 DEF Pids
  <2>1. CASE p \in born
    <3>1. m_connMap'[p].fd # 0
        BY <1>5, <1>6, <1>7, <2>1
    <3> QED
        BY <1>10, <2>0, <2>1, <3>1, ToldDiffer
  <2>2. CASE p \notin born /\ p \in PidsOf(quit)
    <3>1. told[p] = <<1>> /\ p < maxSessid
        BY <1>2, <2>2, ToldDiffer DEF GateToldOnce
    <3>2. told'[p] = <<1, 2>> /\ m_connMap'[p].fd = 0
        BY <1>7, <1>10, <2>2, <3>1, ToldTwice
    <3> QED
        BY <2>0, <3>1, <3>2, ToldDiffer
  <2>3. CASE p \notin born /\ p \notin PidsOf(quit)
      BY <1>7, <1>10, <2>0, <2>3 DEF GateToldOnce
  <2> QED
      BY <2>1, <2>2, <2>3
<1>17. Owned' /\ Fresh' /\ Apart' /\ Forth' /\ Back' => OpenIsOwned'
    BY Clauses, PTL
<1> QED
    BY <1>12, <1>13, <1>14, <1>15, <1>16, <1>17

LEMMA TablesNext ==
    ASSUME TypeOK, OpenIsOwned, GateToldOnce, Capacity, [Next]_vars
    PROVE  OpenIsOwned' /\ GateToldOnce'
<1>1. CASE Accept
    BY <1>1, AcceptTables
<1>2. CASE Drain
    BY <1>2, DrainTables
<1>3. CASE ChkConnTimeout
  <2>1. PICK D : DelConn(D, 3)
      BY <1>3 DEF ChkConnTimeout
  <2> QED
      BY <1>3, <2>1, DelConnTables DEF ChkConnTimeout
<1>4. ASSUME NEW p \in Pids, ForceCloseCliConn(p)
      PROVE  OpenIsOwned' /\ GateToldOnce'
    BY <1>4, DelConnTables DEF ForceCloseCliConn
<1>5. CASE \/ Connect \/ TimePasses \/ EpollWait \/ AcceptEnds \/ ReadsDone
           \/ \E e \in batch : AppendOp(e)
           \/ \E f \in Fds : PeerSends(f) \/ PeerCloses(f) \/ PeerResets(f) \/ Read(f)
           \/ \E p \in Pids : SendFails(p)
           \/ UNCHANGED vars
    BY <1>5, PassiveSteps, SameTablesKeep
<1> QED
    BY <1>1, <1>2, <1>3, <1>4, <1>5 DEF Next, Clients, EpNext, MainNext

LEMMA CapacityNext ==
    ASSUME TypeOK, OpenIsOwned, Capacity, [Next]_vars
    PROVE  Capacity'
<1> USE ConstantTypes
<1>0. m_netQueue \in Seq(NetOp) /\ backlog \in Nat /\ maxSessid \in Nat
      /\ Cardinality(NewAt) \in Nat /\ IsFiniteSet(NewAt)
    BY NewAtFinite DEF TypeOK
<1>1. CASE Connect
  <2>1. NewAt' = NewAt /\ maxSessid' = maxSessid /\ backlog' = backlog + 1
      BY <1>1, SameNew DEF Connect, tableVars
  <2> QED
      BY <1>0, <1>1, <2>1 DEF Connect, Capacity
<1>2. CASE Accept
  <2>1. PICK f \in Fds : m_netQueue' = Append(m_netQueue, Op("NEW_CONN", f, 0))
      BY <1>2 DEF Accept
  <2>2. Op("NEW_CONN", f, 0) \in NetOp /\ Op("NEW_CONN", f, 0).op = "NEW_CONN"
      BY OpType DEF Op
  <2>3. At("NEW_CONN")' = At("NEW_CONN") \cup {Len(m_netQueue) + 1}
        /\ Len(m_netQueue) + 1 \notin DOMAIN m_netQueue
      BY <1>0, <2>1, <2>2, AppendAt
  <2>4. NewAt' = NewAt \cup {Len(m_netQueue) + 1} /\ Len(m_netQueue) + 1 \notin NewAt
      BY <2>3 DEF NewAt, At
  <2>5. Cardinality(NewAt') = Cardinality(NewAt) + 1
      BY <1>0, <2>4, FS_AddElement
  <2>6. backlog' = backlog - 1 /\ maxSessid' = maxSessid /\ backlog > 0
      BY <1>2 DEF Accept, tableVars
  <2> QED
      BY <1>0, <2>5, <2>6 DEF Capacity
<1>3. CASE Drain
  <2>1. NewAt' = {}
      BY <1>3 DEF Drain, NewAt, At
  <2>2. Cardinality(NewAt') = 0
      BY <2>1, FS_EmptySet
  <2> QED
      BY <1>0, <1>3, <2>2 DEF Drain, Capacity
<1>4. CASE ChkConnTimeout \/ \E p \in Pids : ForceCloseCliConn(p)
  <2>1. UNCHANGED <<backlog, m_netQueue, maxSessid>>
      BY <1>4 DEF ChkConnTimeout, ForceCloseCliConn
  <2> QED
      BY <2>1, SameNew DEF Capacity
<1>5. CASE \/ TimePasses \/ EpollWait \/ AcceptEnds \/ ReadsDone
           \/ \E e \in batch : AppendOp(e)
           \/ \E f \in Fds : PeerSends(f) \/ PeerCloses(f) \/ PeerResets(f) \/ Read(f)
           \/ \E p \in Pids : SendFails(p)
           \/ UNCHANGED vars
  <2>1. backlog' = backlog
      BY <1>5 DEF TimePasses, EpollWait, AcceptEnds, ReadsDone, AppendOp, PeerSends, PeerCloses,
                  PeerResets, Read, ReadNoConn, ReadData, ReadAgain, ReadCloses, ReadEof, Turn,
                  SendFails, vars, kernelVars
  <2>2. NewAt' = NewAt /\ maxSessid' = maxSessid
      BY <1>5, PassiveSteps DEF SameTables
  <2> QED
      BY <2>1, <2>2 DEF Capacity
<1> QED
    BY <1>1, <1>2, <1>3, <1>4, <1>5 DEF Next, Clients, EpNext, MainNext

(* A close by main is put in for the owner of the moment; until the queue   *)
(* is drained the descriptor can lose its owner but not change it.          *)
LEMMA QuitNext ==
    ASSUME TypeOK, OpenIsOwned, QuitNamesOwner, [Next]_vars
    PROVE  QuitNamesOwner'
<1> USE ConstantTypes
<1>0. /\ m_netQueue \in Seq(NetOp) /\ m_connFdMap \in [Fds -> 0..MaxPid]
      /\ \A i \in DOMAIN m_netQueue : m_netQueue[i].fd \in Fds
    BY Entries DEF TypeOK
<1>1. ASSUME UNCHANGED m_netQueue, \A f \in Fds : m_connFdMap'[f] \in {0, m_connFdMap[f]}
      PROVE  QuitNamesOwner'
    BY <1>0, <1>1 DEF QuitNamesOwner, At
<1>2. ASSUME NEW o \in NetOp, m_netQueue' = Append(m_netQueue, o), UNCHANGED m_connFdMap,
             o.op = "QUIT_CONN" /\ o.pid # 0 => m_connFdMap[o.fd] = o.pid
      PROVE  QuitNamesOwner'
  <2> DEFINE n == Len(m_netQueue) + 1
  <2>1. /\ At("QUIT_CONN")' = IF o.op = "QUIT_CONN" THEN At("QUIT_CONN") \cup {n} ELSE At("QUIT_CONN")
        /\ m_netQueue'[n] = o /\ At("QUIT_CONN") \subseteq DOMAIN m_netQueue
        /\ \A i \in DOMAIN m_netQueue : m_netQueue'[i] = m_netQueue[i]
      BY <1>0, <1>2, AppendAt DEF At
  <2> HIDE DEF n
  <2> QED
      BY <1>2, <2>1 DEF QuitNamesOwner
<1>3. CASE Connect \/ TimePasses \/ EpollWait \/ AcceptEnds \/ ReadsDone \/ UNCHANGED vars
      \/ \E f \in Fds : PeerSends(f) \/ PeerCloses(f) \/ PeerResets(f)
    BY <1>1, <1>3 DEF Connect, TimePasses, EpollWait, AcceptEnds, ReadsDone, vars,
                      PeerSends, PeerCloses, PeerResets, tableVars
<1>4. CASE Accept
  <2>1. PICK f \in Fds : m_netQueue' = Append(m_netQueue, Op("NEW_CONN", f, 0))
      BY <1>4 DEF Accept
  <2> DEFINE o == Op("NEW_CONN", f, 0)
  <2>2. o \in NetOp /\ o.op = "NEW_CONN"
      BY OpType DEF Op
  <2> HIDE DEF o
  <2> QED
      BY <1>2, <1>4, <2>1, <2>2 DEF Accept, tableVars, o
<1>5. ASSUME NEW e \in batch, AppendOp(e)
      PROVE  QuitNamesOwner'
  <2> DEFINE o == Op(IF e.hup THEN "QUIT_CONN" ELSE "DATA_IN", e.fd, 0)
  <2>1. o \in NetOp
      BY <1>5, OpType DEF AppendOp, TypeOK
  <2>2. o.pid = 0
      BY DEF Op
  <2>3. m_netQueue' = Append(m_netQueue, o) /\ UNCHANGED m_connFdMap
      BY <1>5 DEF AppendOp, tableVars
  <2> HIDE DEF o
  <2> QED
      BY <1>2, <2>1, <2>2, <2>3
<1>6. CASE Drain
  <2>1. At("QUIT_CONN")' = {}
      BY <1>6 DEF Drain, At
  <2> QED
      BY <2>1 DEF QuitNamesOwner
<1>7. ASSUME NEW f \in Fds, Read(f)
      PROVE  QuitNamesOwner'
  <2>1. UNCHANGED m_connFdMap
      BY <1>7 DEF Read, ReadNoConn, ReadData, ReadAgain, ReadCloses, ReadEof, Turn
  <2>2. CASE ReadCloses(f)
    <3> DEFINE o == Op("QUIT_CONN", f, m_connFdMap[f])
    <3>1. o \in NetOp
        BY <1>0, OpType
    <3>2. m_netQueue' = Append(m_netQueue, o)
        BY <2>2 DEF ReadCloses
    <3>3. o.fd = f /\ o.pid = m_connFdMap[f]
        BY DEF Op
    <3> HIDE DEF o
    <3> QED
        BY <1>2, <2>1, <3>1, <3>2, <3>3
  <2>3. CASE ~ReadCloses(f)
    <3>1. UNCHANGED m_netQueue
        BY <1>7, <2>3 DEF Read, ReadNoConn, ReadData, ReadAgain, ReadEof
    <3> QED
        BY <1>1, <2>1, <3>1
  <2> QED
      BY <2>2, <2>3
<1>8. ASSUME NEW p \in Pids, SendFails(p)
      PROVE  QuitNamesOwner'
  <2> DEFINE o == Op("QUIT_CONN", m_connMap[p].fd, p)
  <2>1. m_connMap[p].fd \in Fds /\ p \in 0..MaxPid
    <3>1. m_connMap[p] \in ConnObj
        BY DEF TypeOK
    <3>2. m_connMap[p].fd \in 0..MaxFd
        BY <3>1, ConnFields
    <3> QED
        BY <1>8, <3>2 DEF SendFails, Fds, Pids
  <2>2. m_connFdMap[m_connMap[p].fd] = p
      BY <1>8, Clauses DEF SendFails, Forth
  <2>3. o \in NetOp
      BY <2>1, OpType
  <2>4. o.fd = m_connMap[p].fd /\ o.pid = p
      BY DEF Op
  <2>5. m_netQueue' = Append(m_netQueue, o) /\ UNCHANGED m_connFdMap
      BY <1>8 DEF SendFails, tableVars
  <2> HIDE DEF o
  <2> QED
      BY <1>2, <2>2, <2>3, <2>4, <2>5
<1>9. ASSUME NEW D, NEW code, DelConn(D, code), UNCHANGED m_netQueue
      PROVE  QuitNamesOwner'
    BY <1>1, <1>9 DEF DelConn
<1>10. CASE ChkConnTimeout \/ \E p \in Pids : ForceCloseCliConn(p)
  <2>1. UNCHANGED m_netQueue /\ \E D, code : DelConn(D, code)
      BY <1>10 DEF ChkConnTimeout, ForceCloseCliConn
  <2> QED
      BY <1>9, <2>1
<1> QED
    BY <1>3, <1>4, <1>5, <1>6, <1>7, <1>8, <1>10 DEF Next, Clients, EpNext, MainNext

-----------------------------------------------------------------------------
(* The data.                                                               *)

LEMMA QuietNext == Quiet /\ [Next]_vars => Quiet'
<1> SUFFICES ASSUME Quiet, [Next]_vars PROVE Quiet'
    OBVIOUS
<1>1. CASE Clients \/ EpNext \/ UNCHANGED vars
  <2>1. UNCHANGED <<mainPc, delLst>>
      BY <1>1 DEF Clients, EpNext, Connect, TimePasses, PeerSends, PeerCloses, PeerResets,
                  EpollWait, Accept, AcceptEnds, AppendOp, vars, readVars
  <2> QED
      BY <2>1 DEF Quiet
<1>2. CASE MainNext
    BY <1>2 DEF MainNext, Drain, ReadsDone, ChkConnTimeout, Read, ReadNoConn, ReadData, ReadAgain,
                ReadCloses, ReadEof, Turn, SendFails, ForceCloseCliConn, readVars, Quiet
<1> QED
    BY <1>1, <1>2 DEF Next

LEMMA GoneNext ==
    ASSUME TypeOK, Gone, [Next]_vars
    PROVE  Gone'
<1> USE ConstantTypes
<1>0. sock \in [Fds -> Socket]
    BY DEF TypeOK, Socket
<1>1. ASSUME UNCHANGED sock PROVE Gone'
    BY <1>1 DEF Gone
<1>2. ASSUME NEW D, Closed(D) PROVE Gone'
    BY <1>2, FreeType DEF Gone, Closed
<1>3. ASSUME NEW f \in Fds, NEW k \in Socket, sock' = [sock EXCEPT ![f] = k],
             k.peer \in {"none", "rst"} => k.inq = 0
      PROVE  Gone'
    BY <1>0, <1>3 DEF Gone
<1>4. ASSUME NEW f \in Fds, PeerSends(f) \/ PeerCloses(f) \/ PeerResets(f)
      PROVE  Gone'
  <2>1. CASE PeerSends(f)
      BY <1>0, <2>1 DEF PeerSends, Gone, Socket
  <2>2. CASE PeerCloses(f)
      BY <1>0, <2>2 DEF PeerCloses, Gone, Socket
  <2>3. CASE PeerResets(f)
    <3>1. [peer |-> "rst", inq |-> 0] \in Socket
        BY DEF Socket
    <3> QED
        BY <1>3, <2>3, <3>1 DEF PeerResets
  <2> QED
      BY <1>4, <2>1, <2>2, <2>3
<1>5. CASE Connect \/ TimePasses \/ EpollWait \/ AcceptEnds \/ ReadsDone \/ UNCHANGED vars
      \/ (\E e \in batch : AppendOp(e)) \/ \E p \in Pids : SendFails(p)
  <2>1. UNCHANGED sock
      BY <1>5 DEF Connect, TimePasses, EpollWait, AcceptEnds, ReadsDone, vars, AppendOp, SendFails,
                  kernelVars
  <2> QED
      BY <1>1, <2>1
<1>6. CASE Accept
  <2>1. PICK f \in Fds : sock' = [sock EXCEPT ![f] = [peer |-> "up", inq |-> 0]]
      BY <1>6 DEF Accept
  <2>2. [peer |-> "up", inq |-> 0] \in Socket
      BY DEF Socket
  <2> QED
      BY <1>3, <2>1, <2>2
<1>7. CASE Drain \/ ChkConnTimeout \/ \E p \in Pids : ForceCloseCliConn(p)
  <2>1. \E D : Closed(D)
      BY <1>7 DEF Drain, ChkConnTimeout, ForceCloseCliConn, DelConn
  <2> QED
      BY <1>2, <2>1
<1>8. ASSUME NEW f \in Fds, Read(f)
      PROVE  Gone'
  <2>1. CASE ReadData(f)
    <3>1. PICK n \in 1..sock[f].inq : sock' = [sock EXCEPT ![f].inq = @ - n]
        BY <2>1 DEF ReadData
    <3>2. sock[f] \in Socket
        BY <1>0
    <3>3. sock[f].inq \in 0..MaxInq /\ sock[f].inq # 0
      <4>1. sock[f].inq \in 0..MaxInq
          BY <3>2, SocketFields
      <4> QED
          BY <3>1, <4>1
    <3>4. sock[f].peer \notin {"none", "rst"}
        BY <3>3 DEF Gone
    <3> QED
        BY <1>0, <3>1, <3>4 DEF Gone, Socket
  <2>2. CASE ~ReadData(f)
    <3>1. UNCHANGED sock
        BY <1>8, <2>2 DEF Read, ReadNoConn, ReadAgain, ReadCloses, ReadEof
    <3> QED
        BY <1>1, <3>1
  <2> QED
      BY <2>1, <2>2
<1> QED
    BY <1>4, <1>5, <1>6, <1>7, <1>8 DEF Next, Clients, EpNext, MainNext

(* A descriptor f whose data are as they were is as well off as before when *)
(* nothing that holds it is taken away.                                     *)
Held(f) ==
    \/ f \in ready \/ [fd |-> f, hup |-> FALSE] \in batch \/ f \in Queued("DATA_IN")
    \/ m_connFdMap[f] # 0 /\ f \in m_readFdMap \ delLst

LEMMA HeldData == DataHeld <=> \A f \in Fds : sock[f].inq > 0 => Held(f)
BY DEF DataHeld, Held

LEMMA DataClients ==
    ASSUME TypeOK, DataHeld, Clients \/ UNCHANGED vars
    PROVE  DataHeld'
<1> USE ConstantTypes
<1>0. sock \in [Fds -> Socket]
    BY DEF TypeOK, Socket
<1>1. UNCHANGED <<batch, m_netQueue, m_connFdMap, m_readFdMap, delLst>> /\ ready \subseteq ready'
    BY DEF Clients, Connect, TimePasses, PeerSends, PeerCloses, PeerResets, vars,
           kernelVars, epVars, tableVars, readVars
<1>2. \A f \in Fds : Held(f) => Held(f)'
    BY <1>1 DEF Held, Queued, At
<1>3. ASSUME NEW f \in Fds, sock'[f].inq > 0
      PROVE  sock[f].inq > 0 \/ f \in ready'
  <2>1. CASE \E g \in Fds : PeerSends(g) \/ PeerCloses(g) \/ PeerResets(g)
    <3>1. PICK g \in Fds : PeerSends(g) \/ PeerCloses(g) \/ PeerResets(g)
        BY <2>1
    <3>2. g \in ready' /\ (g # f => sock'[f] = sock[f])
        BY <1>0, <3>1 DEF PeerSends, PeerCloses, PeerResets
    <3> QED
        BY <1>3, <3>2
  <2>2. CASE Connect \/ TimePasses \/ UNCHANGED vars
    <3>1. UNCHANGED sock
        BY <2>2 DEF Connect, TimePasses, vars, kernelVars
    <3> QED
        BY <1>3, <3>1
  <2> QED
      BY <2>1, <2>2 DEF Clients
<1>4. \A f \in Fds : sock'[f].inq > 0 => Held(f)'
  <2>1. \A f \in Fds : f \in ready' => Held(f)'
      BY DEF Held
  <2> QED
      BY <1>2, <1>3, <2>1 DEF DataHeld, Held
<1> QED
    BY <1>4 DEF DataHeld, Held

LEMMA DataEp ==
    ASSUME TypeOK, Gone, DataHeld, EpNext
    PROVE  DataHeld'
<1> USE ConstantTypes
<1>0. sock \in [Fds -> Socket] /\ m_netQueue \in Seq(NetOp) /\ LISTEN \notin Fds
    BY DEF TypeOK, Socket, LISTEN, Fds
<1>1. CASE EpollWait
  <2>1. UNCHANGED <<sock, m_netQueue, m_connFdMap, m_readFdMap, delLst>>
      BY <1>1 DEF EpollWait, tableVars, readVars
  <2>2. ASSUME NEW f \in Fds, sock[f].inq > 0, f \in ready
        PROVE  [fd |-> f, hup |-> FALSE] \in batch'
    <3>1. sock[f].peer # "rst"
        BY <1>0, <2>2 DEF Gone
    <3>2. [fd |-> f, hup |-> f # LISTEN /\ sock[f].peer = "rst"] \in batch'
        BY <1>1, <2>2 DEF EpollWait
    <3>3. (f # LISTEN /\ sock[f].peer = "rst") = FALSE
        BY <3>1
    <3> QED
        BY <3>2, <3>3, Zenon
  <2>3. ASSUME NEW f \in Fds, sock'[f].inq > 0
        PROVE  Held(f)'
    <3>1. sock[f].inq > 0 /\ Held(f)
        BY <2>1, <2>3 DEF DataHeld, Held
    <3>2. CASE f \in ready
      <4>1. [fd |-> f, hup |-> FALSE] \in batch'
          BY <2>2, <3>1, <3>2
      <4> QED
          BY <4>1 DEF Held
    <3>3. CASE f \notin ready
        BY <1>1, <2>1, <3>1, <3>3 DEF Held, EpollWait, Queued, At
    <3> QED
        BY <3>2, <3>3
  <2> QED
      BY <2>3 DEF DataHeld, Held
<1>2. CASE Accept
  <2>1. PICK f \in Fds : /\ sock' = [sock EXCEPT ![f] = [peer |-> "up", inq |-> 0]]
                         /\ m_netQueue' = Append(m_netQueue, Op("NEW_CONN", f, 0))
      BY <1>2 DEF Accept
  <2>2. Op("NEW_CONN", f, 0) \in NetOp /\ Op("NEW_CONN", f, 0).op # "DATA_IN"
      BY OpType DEF Op
  <2>3. Queued("DATA_IN")' = Queued("DATA_IN")
      BY <1>0, <2>1, <2>2, AppendAt
  <2>4. UNCHANGED <<ready, batch, m_connFdMap, m_readFdMap, delLst>>
      BY <1>2 DEF Accept, tableVars, readVars
  <2>5. ASSUME NEW g \in Fds, sock'[g].inq > 0
        PROVE  Held(g)'
    <3>1. sock[g].inq > 0
        BY <1>0, <2>1, <2>5
    <3>2. Held(g)
        BY <3>1 DEF DataHeld, Held
    <3> QED
        BY <2>3, <2>4, <3>2 DEF Held
  <2> QED
      BY <2>5 DEF DataHeld, Held
<1>3. CASE AcceptEnds
  <2>1. UNCHANGED <<sock, ready, m_netQueue, m_connFdMap, m_readFdMap, delLst>>
        /\ batch' = {e \in batch : e.fd # LISTEN}
      BY <1>3 DEF AcceptEnds, kernelVars, tableVars, readVars
  <2>2. ASSUME NEW f \in Fds, Held(f)
        PROVE  Held(f)'
    <3>1. [fd |-> f, hup |-> FALSE] \in batch => [fd |-> f, hup |-> FALSE] \in batch'
        BY <1>0, <2>1
    <3> QED
        BY <2>1, <2>2, <3>1 DEF Held, Queued, At
  <2> QED
      BY <2>1, <2>2 DEF DataHeld, Held
<1>4. ASSUME NEW e \in batch, AppendOp(e)
      PROVE  DataHeld'
  <2> DEFINE o == Op(IF e.hup THEN "QUIT_CONN" ELSE "DATA_IN", e.fd, 0)
  <2>1. e.fd \in Fds /\ o \in NetOp
      BY <1>4, OpType DEF AppendOp, TypeOK
  <2>2. o.fd = e.fd /\ o.op = (IF e.hup THEN "QUIT_CONN" ELSE "DATA_IN")
      BY DEF Op
  <2>3. /\ UNCHANGED <<sock, ready, m_connFdMap, m_readFdMap, delLst>>
        /\ batch' = batch \ {e} /\ m_netQueue' = Append(m_netQueue, o)
      BY <1>4 DEF AppendOp, kernelVars, tableVars, readVars
  <2> HIDE DEF o
  <2>4. Queued("DATA_IN")' = IF o.op = "DATA_IN" THEN Queued("DATA_IN") \cup {o.fd} ELSE Queued("DATA_IN")
      BY <1>0, <2>1, <2>3, AppendAt
  <2>5. ASSUME NEW f \in Fds, Held(f)
        PROVE  Held(f)'
    <3>1. CASE e = [fd |-> f, hup |-> FALSE]
      <4>1. f \in Queued("DATA_IN")'
          BY <2>2, <2>4, <3>1
      <4> QED
          BY <4>1 DEF Held
    <3>2. CASE e # [fd |-> f, hup |-> FALSE]
        BY <2>3, <2>4, <2>5, <3>2 DEF Held
    <3> QED
        BY <3>1, <3>2
  <2> QED
      BY <2>3, <2>5 DEF DataHeld, Held
<1> QED
    BY <1>1, <1>2, <1>3, <1>4 DEF EpNext

(* Closing descriptors: nothing is left to read of those.                   *)
LEMMA DataDelConn ==
    ASSUME TypeOK, DataHeld, NEW D, NEW code, DelConn(D, code),
           UNCHANGED <<batch, m_netQueue, m_readFdMap, delLst>>
    PROVE  DataHeld'
<1> USE ConstantTypes
<1>1. ASSUME NEW f \in Fds, sock'[f].inq > 0
      PROVE  Held(f)'
  <2>1. sock'[f] = IF f \in Registered(D) THEN Free ELSE sock[f]
      BY DEF DelConn, Closed
  <2>2. f \notin Registered(D)
      BY <1>1, <2>1, FreeType
  <2>3. Held(f)
      BY <1>1, <2>1, <2>2 DEF DataHeld, Held
  <2>4. /\ ready' = ready \ Registered(D)
        /\ m_connFdMap'[f] = IF f \in D THEN 0 ELSE m_connFdMap[f]
      BY DEF DelConn, Closed
  <2>5. m_connFdMap[f] # 0 => m_connFdMap'[f] # 0
      BY <2>2, <2>4 DEF Registered
  <2>6. Queued("DATA_IN")' = Queued("DATA_IN")
      BY DEF Queued, At
  <2> QED
      BY <2>2, <2>3, <2>4, <2>5, <2>6 DEF Held
<1> QED
    BY <1>1 DEF DataHeld, Held

(* An open descriptor with data is registered after the queue is drained,   *)
(* and has a place in m_readFdMap unless an edge or an event is to come.    *)
LEMMA DataDrain ==
    ASSUME IInv, Drain
    PROVE  DataHeld'
<1> USE ConstantTypes
<1> DEFINE quit == Queued("QUIT_CONN")
<1>0. sock \in [Fds -> Socket] /\ delLst = {} /\ UNCHANGED <<batch, delLst>>
    BY DEF IInv, TypeOK, Quiet, Drain, Socket, epVars
<1>1. OpenIsOwned'
    BY DrainTables DEF IInv
<1>2. ASSUME NEW f \in Fds, sock'[f].inq > 0
      PROVE  Held(f)'
  <2>1. sock'[f] = IF f \in Registered(quit) THEN Free ELSE sock[f]
      BY DEF Drain, Closed
  <2>2. f \notin Registered(quit) /\ sock'[f] = sock[f]
      BY <1>2, <2>1, FreeType
  <2>3. Open(f) /\ Open(f)'
    <3>1. sock[f].inq > 0 /\ sock[f].inq # 0
        BY <1>2, <2>2
    <3>2. sock[f].peer # "none"
        BY <3>1 DEF IInv, Gone
    <3> QED
        BY <2>2, <3>2 DEF Open
  <2>4. m_connFdMap'[f] # 0
    <3>1. Queued("NEW_CONN")' = {}
        BY DEF Drain, Queued, At
    <3>2. OpenIsOwned' => (Open(f)' <=> m_connFdMap'[f] # 0 \/ f \in Queued("NEW_CONN")')
        BY DEF OpenIsOwned
    <3> QED
        BY <1>1, <2>3, <3>1, <3>2
  <2>5. Held(f)
      BY <1>2, <2>2 DEF IInv, DataHeld, Held
  <2>6. ready' = ready \ Registered(quit) /\ m_readFdMap' = m_readFdMap \cup Queued("DATA_IN")
      BY DEF Drain, Closed
  <2> QED
      BY <1>0, <2>2, <2>4, <2>5, <2>6 DEF Held
<1> QED
    BY <1>2 DEF DataHeld, Held

(* The descriptors struck off in a pass have nothing left to read, or no    *)
(* connection yet.                                                          *)
LEMMA DataRead ==
    ASSUME TypeOK, Gone, DataHeld, NEW f \in Fds, Read(f)
    PROVE  DataHeld'
<1> USE ConstantTypes
<1>0. /\ sock \in [Fds -> Socket] /\ m_netQueue \in Seq(NetOp)
      /\ UNCHANGED <<ready, batch, m_connFdMap, m_readFdMap>>
    BY DEF TypeOK, Socket, Read, ReadNoConn, ReadData, ReadAgain, ReadCloses, ReadEof, Turn, epVars
<1>1. Queued("DATA_IN")' = Queued("DATA_IN")
  <2>1. CASE ReadCloses(f)
    <3> DEFINE o == Op("QUIT_CONN", f, m_connFdMap[f])
    <3>1. m_netQueue' = Append(m_netQueue, o)
        BY <2>1 DEF ReadCloses
    <3>2. o \in NetOp
        BY OpType DEF TypeOK
    <3>3. o.op # "DATA_IN"
        BY DEF Op
    <3> HIDE DEF o
    <3> QED
        BY <1>0, <3>1, <3>2, <3>3, AppendAt
  <2>2. CASE ~ReadCloses(f)
    <3>1. UNCHANGED m_netQueue
        BY <2>2 DEF Read, ReadNoConn, ReadData, ReadAgain, ReadEof
    <3> QED
        BY <3>1 DEF Queued, At
  <2> QED
      BY <2>1, <2>2
<1>2. ASSUME NEW g \in Fds, sock'[g].inq > 0
      PROVE  sock[g].inq > 0
  <2>1. CASE ReadData(f)
    <3>1. PICK n \in 1..sock[f].inq : sock' = [sock EXCEPT ![f].inq = @ - n]
        BY <2>1 DEF ReadData
    <3>2. sock[f] \in Socket
        BY <1>0
    <3>3. sock[f].inq \in 0..MaxInq /\ sock[f].inq >= n
      <4>1. sock[f].inq \in 0..MaxInq
          BY <3>2, SocketFields
      <4> QED
          BY <3>1, <4>1
    <3>4. CASE g = f
        BY <3>1, <3>3, <3>4
    <3>5. CASE g # f
        BY <1>0, <1>2, <3>1, <3>5
    <3> QED
        BY <3>4, <3>5
  <2>2. CASE ~ReadData(f)
    <3>1. UNCHANGED sock
        BY <2>2 DEF Read, ReadNoConn, ReadAgain, ReadCloses, ReadEof
    <3> QED
        BY <1>2, <3>1
  <2> QED
      BY <2>1, <2>2
<1>3. \/ delLst' = delLst
      \/ delLst' = delLst \cup {f} /\ (m_connFdMap[f] = 0 \/ ~(sock[f].inq > 0))
  <2>1. CASE ReadNoConn(f)
      BY <2>1 DEF ReadNoConn
  <2>2. CASE ReadData(f)
      BY <2>2 DEF ReadData
  <2>3. CASE ReadAgain(f)
    <3>1. sock[f].inq = 0 /\ delLst' = delLst \cup {f}
        BY <2>3 DEF ReadAgain
    <3>2. ~(sock[f].inq > 0)
        BY <3>1
    <3> QED
        BY <3>1, <3>2
  <2>4. CASE ReadCloses(f)
      BY <2>4 DEF ReadCloses, Gone
  <2>5. CASE ReadEof(f)
      BY <2>5 DEF ReadEof
  <2> QED
      BY <2>1, <2>2, <2>3, <2>4, <2>5 DEF Read
<1>4. ASSUME NEW g \in Fds, sock'[g].inq > 0
      PROVE  Held(g)'
  <2>1. sock[g].inq > 0 /\ Held(g)
      BY <1>2, <1>4 DEF DataHeld, Held
  <2> QED
      BY <1>0, <1>1, <1>3, <2>1 DEF Held
<1> QED
    BY <1>4 DEF DataHeld, Held

LEMMA DataNext ==
    ASSUME IInv, [Next]_vars
    PROVE  DataHeld'
<1>1. CASE Clients \/ UNCHANGED vars
    BY <1>1, DataClients DEF IInv
<1>2. CASE EpNext
    BY <1>2, DataEp DEF IInv
<1>3. CASE Drain
    BY <1>3, DataDrain
<1>4. CASE ReadsDone
  <2>1. /\ UNCHANGED <<sock, ready, batch, m_netQueue, m_connFdMap>>
        /\ m_readFdMap' = m_readFdMap \ delLst /\ delLst' = {}
      BY <1>4 DEF ReadsDone, kernelVars, epVars, tableVars
  <2>2. Queued("DATA_IN")' = Queued("DATA_IN")
      BY <2>1 DEF Queued, At
  <2> QED
      BY <2>1, <2>2 DEF IInv, DataHeld
<1>5. CASE ChkConnTimeout \/ \E p \in Pids : ForceCloseCliConn(p)
  <2>1. /\ \E D, code : DelConn(D, code)
        /\ UNCHANGED <<batch, m_netQueue, m_readFdMap, delLst>>
      BY <1>5 DEF ChkConnTimeout, ForceCloseCliConn, epVars, readVars
  <2> QED
      BY <2>1, DataDelConn DEF IInv
<1>6. ASSUME NEW f \in Fds, Read(f)
      PROVE  DataHeld'
    BY <1>6, DataRead DEF IInv
<1>7. ASSUME NEW p \in Pids, SendFails(p)
      PROVE  DataHeld'
  <2> USE ConstantTypes
  <2> DEFINE o == Op("QUIT_CONN", m_connMap[p].fd, p)
  <2>1. UNCHANGED <<sock, ready, batch, m_connFdMap, m_readFdMap, delLst>>
        /\ m_netQueue' = Append(m_netQueue, o)
      BY <1>7 DEF SendFails, kernelVars, epVars, tableVars, readVars
  <2>2. m_connMap[p].fd \in Fds /\ p \in 0..MaxPid /\ m_netQueue \in Seq(NetOp)
    <3>1. m_connMap[p] \in ConnObj
        BY DEF IInv, TypeOK
    <3>2. m_connMap[p].fd \in 0..MaxFd
        BY <3>1, ConnFields
    <3> QED
        BY <1>7, <3>2 DEF SendFails, Fds, Pids, IInv, TypeOK
  <2>3. o \in NetOp
      BY <2>2, OpType
  <2>4. o.op # "DATA_IN"
      BY DEF Op
  <2> HIDE DEF o
  <2>5. Queued("DATA_IN")' = Queued("DATA_IN")
      BY <2>1, <2>2, <2>3, <2>4, AppendAt
  <2> QED
      BY <2>1, <2>5 DEF IInv, DataHeld
<1> QED
    BY <1>1, <1>2, <1>3, <1>4, <1>5, <1>6, <1>7 DEF Next, MainNext

-----------------------------------------------------------------------------
(* The theorems.                                                           *)

LEMMA InitInv == Init => IInv
<1> SUFFICES ASSUME Init PROVE IInv
    OBVIOUS
<1> USE ConstantTypes
<1>1. TypeOK
    BY TypeInit
<1>2. /\ m_netQueue = <<>> /\ NewAt = {} /\ Queued("NEW_CONN") = {} /\ At("QUIT_CONN") = {}
    BY DEF Init, NewAt, At, Queued
<1>3. /\ \A f \in Fds : sock[f] = Free /\ m_connFdMap[f] = 0
      /\ \A p \in Pids : m_connMap[p].fd = 0 /\ told[p] = <<>>
      /\ backlog = 0 /\ maxSessid = 1 /\ delLst = {}
    BY NoConnType DEF Init
<1>4. Owned /\ Fresh /\ Apart /\ Forth /\ Back
    BY <1>2, <1>3, FreeType DEF Owned, Fresh, Apart, Forth, Back, Open
<1>5. GateToldOnce
    BY <1>3, ToldDiffer DEF GateToldOnce, Pids
<1>6. Capacity
    BY <1>2, <1>3, FS_EmptySet DEF Capacity
<1> QED
    BY <1>1, <1>2, <1>3, <1>4, <1>5, <1>6, Clauses, FreeType
    DEF IInv, QuitNamesOwner, Quiet, Gone, DataHeld

LEMMA NextInv == IInv /\ [Next]_vars => IInv'
<1> SUFFICES ASSUME IInv, [Next]_vars PROVE IInv'
    OBVIOUS
<1>1. TypeOK'
  <2>1. CASE Clients
      BY <2>1, TypeClients DEF IInv
  <2>2. CASE EpNext
      BY <2>2, TypeEp DEF IInv
  <2>3. CASE MainNext
      BY <2>3, TypeMain DEF IInv
  <2>4. CASE UNCHANGED vars
      BY <2>4 DEF IInv, TypeOK, vars, kernelVars, epVars, tableVars, readVars
  <2> QED
      BY <2>1, <2>2, <2>3, <2>4 DEF Next
<1>2. OpenIsOwned' /\ GateToldOnce'
    BY TablesNext DEF IInv
<1>3. Capacity' /\ QuitNamesOwner'
    BY CapacityNext, QuitNext DEF IInv
<1>4. Quiet' /\ Gone' /\ DataHeld'
    BY QuietNext, GoneNext, DataNext DEF IInv
<1> QED
    BY <1>1, <1>2, <1>3, <1>4 DEF IInv

(* The inductive invariant holds in every behaviour of the two threads.     *)
THEOREM NetInvariant == Spec => []IInv
BY InitInv, NextInv, PTL DEF Spec

(* Every variable of the front end keeps its type; what a message leaves in *)
(* the buffer of a connection is less than a message.                       *)
THEOREM NetTyped == Spec => []TypeOK
<1>1. IInv => TypeOK
    BY DEF IInv
<1> QED
    BY <1>1, NetInvariant, PTL

(* Every open descriptor has one owner, and every registered one is open    *)
(* (accept, CreateConnBatch, DelConn and the reuse of descriptors).         *)
THEOREM NetOwners == Spec => []OpenIsOwned
<1>1. IInv => OpenIsOwned
    BY DEF IInv
<1> QED
    BY <1>1, NetInvariant, PTL

(* The gate hears of every client once that it has come and once at most    *)
(* that it has gone, whoever closes it and how often (OnInit, OnClose).     *)
THEOREM NetToldOnce == Spec => []GateToldOnce
<1>1. IInv => GateToldOnce
    BY DEF IInv
<1> QED
    BY <1>1, NetInvariant, PTL

(* Data in the kernel always have an edge, an event, a queue entry or a     *)
(* place in m_readFdMap, however edges arrive while a pass strikes off.     *)
THEOREM NetNoLostWakeup == Spec => []NoLostWakeup
<1>1. IInv => NoLostWakeup
  <2> SUFFICES ASSUME IInv, NEW f \in Fds, sock[f].inq > 0
               PROVE  \/ f \in ready \/ \E e \in batch : e.fd = f
                      \/ f \in Queued("DATA_IN") \/ f \in m_readFdMap \ delLst
      BY DEF NoLostWakeup
  <2>1. Held(f)
      BY DEF IInv, DataHeld, Held
  <2>2. [fd |-> f, hup |-> FALSE] \in batch => \E e \in batch : e.fd = f
      OBVIOUS
  <2> QED
      BY <2>1, <2>2 DEF Held
<1> QED
    BY <1>1, NetInvariant, PTL

(* A close that main put into the queue takes away, when it is drained, the *)
(* connection it was put in for, never a later client of the same           *)
(* descriptor. One by the ep thread takes the client who has the descriptor *)
(* by then, and may take a later one (net.cpp:256).                         *)
THEOREM NetClosesItsOwn == Spec => ClosesItsOwn
<1> USE ConstantTypes
<1> DEFINE Own == \A p \in Pids : mainPc = "idle" /\ told'[p] # told[p] /\ told'[p][Len(told'[p])] = 2 =>
                      \E i \in DOMAIN m_netQueue :
                          /\ m_netQueue[i].op = "QUIT_CONN"
                          /\ m_netQueue[i].fd = m_connMap[p].fd
                          /\ m_netQueue[i].pid \in {0, p}
<1>1. IInv /\ [Next]_vars => [Own]_vars
  <2> SUFFICES ASSUME IInv, Next, NEW p \in Pids, mainPc = "idle",
                      told'[p] # told[p], told'[p][Len(told'[p])] = 2
               PROVE  \E i \in DOMAIN m_netQueue :
                          /\ m_netQueue[i].op = "QUIT_CONN"
                          /\ m_netQueue[i].fd = m_connMap[p].fd
                          /\ m_netQueue[i].pid \in {0, p}
      OBVIOUS
  <2> DEFINE quit == Queued("QUIT_CONN")
  <2>1. Drain
    <3>1. told' # told
        OBVIOUS
    <3> QED
        BY <3>1 DEF Next, Clients, EpNext, MainNext, Connect, TimePasses, PeerSends, PeerCloses,
                    PeerResets, EpollWait, Accept, AcceptEnds, AppendOp, ReadsDone, ChkConnTimeout,
                    Read, ReadNoConn, ReadData, ReadAgain, ReadCloses, ReadEof, Turn, SendFails,
                    ForceCloseCliConn, tableVars
  <2>2. told'[p] = <<1>> \/ p \in PidsOf(quit)
      BY <2>1 DEF Drain, Told
  <2>3. p \in PidsOf(quit)
    <3>1. told'[p] # <<1>>
        OBVIOUS
    <3> QED
        BY <2>2, <3>1
  <2>4. m_connMap[p].fd # 0 /\ m_connMap[p].fd \in quit
      BY <2>3, ClosedPids DEF IInv
  <2>5. PICK i \in At("QUIT_CONN") : m_netQueue[i].fd = m_connMap[p].fd
      BY <2>4 DEF Queued
  <2>6. m_connFdMap[m_netQueue[i].fd] = p /\ p # 0
      BY <2>4, <2>5, Clauses DEF IInv, Forth, Pids
  <2>7. m_netQueue[i].pid \in {0, p}
      BY <2>5, <2>6 DEF IInv, QuitNamesOwner
  <2> QED
      BY <2>5, <2>7 DEF At
<1> QED
    BY <1>1, NetInvariant, PTL DEF Spec, ClosesItsOwn
=============================================================================

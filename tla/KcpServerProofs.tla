-------------------------- MODULE KcpServerProofs --------------------------
(***************************************************************************)
(* Invariance proofs for KcpServer, for any number of objects,             *)
(* descriptors and sessions.  The first part is about the operations on    *)
(* the tables, the second about the two threads that run them.             *)
(***************************************************************************)
EXTENDS KcpServer, TLAPS

-----------------------------------------------------------------------------
(* The types of the fields, without the record around them. *)
LEMMA TablesFields ==
    ASSUME NEW k \in Tables
    PROVE  /\ k.m_mapConn \in [Fds -> Conns \cup {NULL}]
           /\ k.m_mapSessFd \in [Sess -> Conns \cup {NULL}]
           /\ k.m_pool \in Seq(Conns)
           /\ k.g_sess_id \in 0..MaxSess
           /\ k.conn \in [Conns -> ConnRec]
           /\ k.fds \in SUBSET Fds
           /\ k.heap \in SUBSET Conns
BY DEF Tables

(* Clearing m_kcp of one object leaves the rest of every object alone. *)
LEMMA CloseRec ==
    ASSUME NEW r \in ConnRec
    PROVE  /\ [r EXCEPT !.m_kcp = FALSE] \in ConnRec
           /\ [r EXCEPT !.m_kcp = FALSE].m_fd = r.m_fd
           /\ [r EXCEPT !.m_kcp = FALSE].m_id = r.m_id
           /\ [r EXCEPT !.m_kcp = FALSE].m_bind <=> r.m_bind
           /\ [r EXCEPT !.m_kcp = FALSE].m_kcp = FALSE
BY DEF ConnRec

(* UDPConn::Close, field by field.                                          *)
LEMMA CloseConn ==
    ASSUME NEW f \in [Conns -> ConnRec], NEW p \in Conns
    PROVE  LET g == [f EXCEPT ![p].m_kcp = FALSE]
           IN  /\ g \in [Conns -> ConnRec]
               /\ ~g[p].m_kcp
               /\ \A c \in Conns : /\ g[c].m_fd = f[c].m_fd
                                   /\ g[c].m_id = f[c].m_id
                                   /\ g[c].m_bind <=> f[c].m_bind
                                   /\ c # p => g[c].m_kcp <=> f[c].m_kcp
<1>1. f[p] \in ConnRec
    OBVIOUS
<1>2. [f EXCEPT ![p].m_kcp = FALSE] = [f EXCEPT ![p] = [f[p] EXCEPT !.m_kcp = FALSE]]
    OBVIOUS
<1> QED
    BY <1>1, <1>2, CloseRec

(* delConn at a mapped descriptor, field by field and point by point. *)
LEMMA DelConnFields ==
    ASSUME NEW k \in Tables, NEW fd \in Fds, k.m_mapConn[fd] # NULL
    PROVE  LET p == k.m_mapConn[fd]
               d == delConn(k, fd)
           IN  /\ d \in Tables
               /\ \A f \in Fds : d.m_mapConn[f] = IF f = fd THEN NULL ELSE k.m_mapConn[f]
               /\ \A s \in Sess : d.m_mapSessFd[s] =
                      IF s = k.conn[p].m_id THEN NULL ELSE k.m_mapSessFd[s]
               /\ d.m_pool = Append(k.m_pool, p)
               /\ d.g_sess_id = k.g_sess_id
               /\ d.fds = k.fds \ {k.conn[p].m_fd}
               /\ d.heap = k.heap
               /\ ~d.conn[p].m_kcp
               /\ \A c \in Conns : /\ d.conn[c].m_fd = k.conn[c].m_fd
                                   /\ d.conn[c].m_id = k.conn[c].m_id
                                   /\ d.conn[c].m_bind <=> k.conn[c].m_bind
                                   /\ c # p => d.conn[c].m_kcp <=> k.conn[c].m_kcp
<1> DEFINE p    == k.m_mapConn[fd]
           map  == [k.m_mapConn EXCEPT ![fd] = NULL]
           sess == [k.m_mapSessFd EXCEPT ![k.conn[p].m_id] = NULL]
           pool == Append(k.m_pool, p)
           conn == [k.conn EXCEPT ![p].m_kcp = FALSE]
           open == k.fds \ {k.conn[p].m_fd}
<1>1. delConn(k, fd) = [m_mapConn |-> map, m_mapSessFd |-> sess, m_pool |-> pool,
                        g_sess_id |-> k.g_sess_id, conn |-> conn, fds |-> open,
                        heap |-> k.heap]
    BY DEF delConn, Release, Tables
<1>2. p \in Conns
    BY TablesFields
<1>3. /\ map \in [Fds -> Conns \cup {NULL}]
      /\ \A f \in Fds : map[f] = IF f = fd THEN NULL ELSE k.m_mapConn[f]
    BY TablesFields
<1>4. /\ sess \in [Sess -> Conns \cup {NULL}]
      /\ \A s \in Sess : sess[s] = IF s = k.conn[p].m_id THEN NULL ELSE k.m_mapSessFd[s]
    BY TablesFields
<1>5. pool \in Seq(Conns)
    BY <1>2, TablesFields
<1>6. /\ conn \in [Conns -> ConnRec]
      /\ ~conn[p].m_kcp
      /\ \A c \in Conns : /\ conn[c].m_fd = k.conn[c].m_fd
                          /\ conn[c].m_id = k.conn[c].m_id
                          /\ conn[c].m_bind <=> k.conn[c].m_bind
                          /\ c # p => conn[c].m_kcp <=> k.conn[c].m_kcp
    <2>1. k.conn \in [Conns -> ConnRec]
        BY TablesFields
    <2> QED
        BY <1>2, <2>1, CloseConn
<1>7. /\ open \in SUBSET Fds
      /\ k.g_sess_id \in 0..MaxSess
      /\ k.heap \in SUBSET Conns
    BY TablesFields
<1> HIDE DEF map, sess, pool, conn, open
<1>8. delConn(k, fd) \in Tables
    BY <1>1, <1>3, <1>4, <1>5, <1>6, <1>7 DEF Tables
<1> QED
    BY <1>1, <1>3, <1>4, <1>6, <1>8 DEF pool, open

(* delConn keeps the types of the tables.                                   *)
LEMMA DelConnTables ==
    ASSUME NEW k \in Tables, NEW fd \in Fds
    PROVE  delConn(k, fd) \in Tables
<1>1. CASE k.m_mapConn[fd] = NULL
    BY <1>1 DEF delConn
<1>2. CASE k.m_mapConn[fd] # NULL
    BY <1>2, DelConnFields
<1> QED
    BY <1>1, <1>2

(* delConn keeps the two maps in agreement. *)
LEMMA DelConnAgree ==
    ASSUME NEW k \in Tables, NEW fd \in Fds, Agree(k)
    PROVE  Agree(delConn(k, fd))
<1>1. CASE k.m_mapConn[fd] = NULL
    BY <1>1 DEF delConn
<1>2. CASE k.m_mapConn[fd] # NULL
    <2> DEFINE p == k.m_mapConn[fd]
               d == delConn(k, fd)
    <2>1. /\ p \in Conns
          /\ k.conn[p].m_fd = fd
          /\ k.conn[p].m_id \in Sess
          /\ k.m_mapSessFd[k.conn[p].m_id] = p
        BY <1>2, TablesFields DEF Agree
    <2>2. /\ \A f \in Fds : d.m_mapConn[f] = IF f = fd THEN NULL ELSE k.m_mapConn[f]
          /\ \A s \in Sess : d.m_mapSessFd[s] =
                 IF s = k.conn[p].m_id THEN NULL ELSE k.m_mapSessFd[s]
          /\ d.g_sess_id = k.g_sess_id
          /\ d.fds = k.fds \ {k.conn[p].m_fd}
          /\ d \in Tables
          /\ \A c \in Conns : /\ d.conn[c].m_fd = k.conn[c].m_fd
                              /\ d.conn[c].m_id = k.conn[c].m_id
                              /\ c # p => d.conn[c].m_kcp <=> k.conn[c].m_kcp
        BY <1>2, DelConnFields
    <2>3. k.fds \in SUBSET Fds
        BY TablesFields
    <2> HIDE DEF d, p
    <2>4. ASSUME NEW f \in Fds, d.m_mapConn[f] # NULL
          PROVE  /\ d.conn[d.m_mapConn[f]].m_fd = f
                 /\ d.conn[d.m_mapConn[f]].m_id \in Sess
                 /\ d.conn[d.m_mapConn[f]].m_kcp
                 /\ d.m_mapSessFd[d.conn[d.m_mapConn[f]].m_id] = d.m_mapConn[f]
                 /\ f \in d.fds
        <3> DEFINE c == k.m_mapConn[f]
        <3>1. f # fd /\ d.m_mapConn[f] = c /\ c # NULL
            BY <2>2, <2>4
        <3>2. /\ c \in Conns /\ k.conn[c].m_fd = f /\ k.conn[c].m_id \in Sess
              /\ k.conn[c].m_kcp /\ k.m_mapSessFd[k.conn[c].m_id] = c /\ f \in k.fds
            BY <3>1, TablesFields DEF Agree
        <3>3. c # p /\ k.conn[c].m_id # k.conn[p].m_id
            BY <2>1, <3>1, <3>2
        <3> QED
            BY <2>1, <2>2, <3>1, <3>2, <3>3
    <2>5. ASSUME NEW s \in Sess, d.m_mapSessFd[s] # NULL
          PROVE  /\ d.conn[d.m_mapSessFd[s]].m_id = s
                 /\ d.conn[d.m_mapSessFd[s]].m_fd \in Fds
                 /\ d.m_mapConn[d.conn[d.m_mapSessFd[s]].m_fd] = d.m_mapSessFd[s]
                 /\ s =< d.g_sess_id
        <3> DEFINE c == k.m_mapSessFd[s]
        <3>1. s # k.conn[p].m_id /\ d.m_mapSessFd[s] = c /\ c # NULL
            BY <2>2, <2>5
        <3>2. /\ c \in Conns /\ k.conn[c].m_id = s /\ k.conn[c].m_fd \in Fds
              /\ k.m_mapConn[k.conn[c].m_fd] = c /\ s =< k.g_sess_id
            BY <3>1, TablesFields DEF Agree
        <3>3. k.conn[c].m_fd # fd
            BY <3>1, <3>2 DEF p
        <3> QED
            BY <2>2, <3>1, <3>2, <3>3
    <2>6. ASSUME NEW f \in d.fds PROVE d.m_mapConn[f] # NULL
        BY <2>1, <2>2, <2>3, <2>6 DEF Agree
    <2>7. Agree(d)
        BY <2>4, <2>5, <2>6 DEF Agree
    <2> QED
        BY <2>7 DEF d
<1> QED
    BY <1>1, <1>2

(* An object is mapped at most once. *)
LEMMA MappedOnce ==
    ASSUME NEW k \in Tables, Agree(k), NEW f \in Fds, NEW g \in Fds,
           k.m_mapConn[f] # NULL, k.m_mapConn[f] = k.m_mapConn[g]
    PROVE  f = g
BY DEF Agree

(* delConn neither loses the object nor gives it back twice. *)
LEMMA DelConnSound ==
    ASSUME NEW k \in Tables, NEW fd \in Fds, Agree(k), Sound(k)
    PROVE  Sound(delConn(k, fd))
<1>1. CASE k.m_mapConn[fd] = NULL
    BY <1>1 DEF delConn
<1>2. CASE k.m_mapConn[fd] # NULL
    <2> DEFINE p == k.m_mapConn[fd]
               d == delConn(k, fd)
               n == Len(k.m_pool)
    <2>1. /\ p \in Conns
          /\ p \in Mapped(k)
          /\ k.m_pool \in Seq(Conns)
        BY <1>2, TablesFields DEF Mapped
    <2>2. /\ \A f \in Fds : d.m_mapConn[f] = IF f = fd THEN NULL ELSE k.m_mapConn[f]
          /\ d.m_pool = Append(k.m_pool, p)
          /\ d.heap = k.heap
          /\ ~d.conn[p].m_kcp
          /\ \A c \in Conns : c # p => d.conn[c].m_kcp <=> k.conn[c].m_kcp
        BY <1>2, DelConnFields
    <2>3. \A f \in Fds \ {fd} : k.m_mapConn[f] # p
        BY <1>2, MappedOnce
    <2> HIDE DEF d, p
    <2>4. Mapped(d) = Mapped(k) \ {p}
        BY <1>2, <2>2, <2>3 DEF Mapped, p
    <2>5. /\ n \in Nat
          /\ DOMAIN k.m_pool = 1..n
          /\ DOMAIN d.m_pool = 1..(n + 1)
          /\ \A i \in 1..n : d.m_pool[i] = k.m_pool[i] /\ k.m_pool[i] \in Conns
          /\ d.m_pool[n + 1] = p
        BY <2>1, <2>2
    <2>6. \A i \in 1..n : /\ k.m_pool[i] # p
                          /\ ~k.conn[k.m_pool[i]].m_kcp
                          /\ k.m_pool[i] \notin Mapped(k)
        BY <2>1, <2>5 DEF Sound
    <2>7. \A i, j \in DOMAIN d.m_pool : d.m_pool[i] = d.m_pool[j] => i = j
        <3>1. \A i, j \in 1..n : k.m_pool[i] = k.m_pool[j] => i = j
            BY <2>5 DEF Sound
        <3>2. \A i \in 1..(n + 1) : i \in 1..n \/ i = n + 1
            BY <2>5
        <3> QED
            BY <2>5, <2>6, <3>1, <3>2
    <2>8. \A i \in DOMAIN d.m_pool : /\ ~d.conn[d.m_pool[i]].m_kcp
                                     /\ d.m_pool[i] \notin Mapped(d)
        <3>1. \A i \in 1..(n + 1) : i \in 1..n \/ i = n + 1
            BY <2>5
        <3> QED
            BY <2>2, <2>4, <2>5, <2>6, <3>1
    <2>9. d.heap = Objects(d.m_pool) \cup Mapped(d)
        <3>1. Objects(d.m_pool) = Objects(k.m_pool) \cup {p}
            BY <2>5 DEF Objects
        <3> QED
            BY <2>1, <2>2, <2>4, <3>1 DEF Sound
    <2>10. Sound(d)
        BY <2>7, <2>8, <2>9 DEF Sound
    <2> QED
        BY <2>10 DEF d
<1> QED
    BY <1>1, <1>2

-----------------------------------------------------------------------------
(* popUDPConn gives an object that no map refers to. *)
LEMMA PopFree ==
    ASSUME NEW k \in Tables, Sound(k), NEW p \in popUDPConn(k)
    PROVE  /\ p \in Conns
           /\ p \notin Mapped(k)
           /\ k.m_pool = <<>> => p \notin k.heap
           /\ k.m_pool # <<>> => 1 \in DOMAIN k.m_pool /\ k.m_pool[1] = p
<1>1. k.m_pool \in Seq(Conns) /\ k.heap \in SUBSET Conns
    BY TablesFields
<1>2. CASE k.m_pool = <<>>
    BY <1>1, <1>2 DEF popUDPConn, Sound
<1>3. CASE k.m_pool # <<>>
    <2>1. /\ p = k.m_pool[1] /\ 1 \in DOMAIN k.m_pool /\ k.m_pool[1] \in Conns
        BY <1>1, <1>3 DEF popUDPConn
    <2> QED
        BY <1>3, <2>1 DEF Sound
<1> QED
    BY <1>2, <1>3

(* createConn, field by field and point by point. *)
LEMMA CreateConnFields ==
    ASSUME NEW k \in Tables, NEW p \in Conns, NEW fd \in Fds, k.g_sess_id < MaxSess
    PROVE  LET d == createConn(k, p, fd)
               n == k.g_sess_id + 1
           IN  /\ d \in Tables
               /\ n \in Sess
               /\ \A f \in Fds : d.m_mapConn[f] = IF f = fd THEN p ELSE k.m_mapConn[f]
               /\ \A s \in Sess : d.m_mapSessFd[s] = IF s = n THEN p ELSE k.m_mapSessFd[s]
               /\ d.m_pool = IF k.m_pool = <<>> THEN <<>> ELSE Tail(k.m_pool)
               /\ d.g_sess_id = n
               /\ d.fds = k.fds \cup {fd}
               /\ d.heap = k.heap \cup {p}
               /\ d.conn[p].m_fd = fd /\ d.conn[p].m_id = n
               /\ d.conn[p].m_kcp /\ ~d.conn[p].m_bind
               /\ \A c \in Conns \ {p} : d.conn[c] = k.conn[c]
<1> DEFINE n    == k.g_sess_id + 1
           map  == [k.m_mapConn EXCEPT ![fd] = p]
           sess == [k.m_mapSessFd EXCEPT ![n] = p]
           pool == IF k.m_pool = <<>> THEN k.m_pool ELSE Tail(k.m_pool)
           rec  == [m_fd |-> fd, m_id |-> n, m_bind |-> FALSE,
                    m_kcp |-> TRUE, old |-> FALSE]
           conn == [k.conn EXCEPT ![p] = rec]
           open == k.fds \cup {fd}
           heap == k.heap \cup {p}
<1>1. createConn(k, p, fd) =
         [m_mapConn |-> map, m_mapSessFd |-> sess, m_pool |-> pool,
          g_sess_id |-> n, conn |-> conn, fds |-> open, heap |-> heap]
    BY DEF createConn
<1>2. n \in Sess /\ n \in 0..MaxSess /\ fd \in 0..MaxFd
    BY TablesFields, ConnsAssumption DEF Sess, Fds
<1>3. /\ map \in [Fds -> Conns \cup {NULL}]
      /\ \A f \in Fds : map[f] = IF f = fd THEN p ELSE k.m_mapConn[f]
    BY TablesFields
<1>4. /\ sess \in [Sess -> Conns \cup {NULL}]
      /\ \A s \in Sess : sess[s] = IF s = n THEN p ELSE k.m_mapSessFd[s]
    BY <1>2, TablesFields
<1>5. /\ pool \in Seq(Conns)
      /\ pool = IF k.m_pool = <<>> THEN <<>> ELSE Tail(k.m_pool)
    BY TablesFields
<1>6. /\ rec \in ConnRec
      /\ rec.m_fd = fd /\ rec.m_id = n /\ rec.m_kcp /\ ~rec.m_bind
    BY <1>2 DEF ConnRec
<1> HIDE DEF rec
<1>7. /\ conn \in [Conns -> ConnRec]
      /\ conn[p] = rec
      /\ \A c \in Conns \ {p} : conn[c] = k.conn[c]
    BY <1>6, TablesFields
<1>8. open \in SUBSET Fds /\ heap \in SUBSET Conns
    BY TablesFields
<1> HIDE DEF n, map, sess, pool, conn, open, heap
<1>9. createConn(k, p, fd) \in Tables
    BY <1>1, <1>2, <1>3, <1>4, <1>5, <1>7, <1>8 DEF Tables
<1> QED
    BY <1>1, <1>2, <1>3, <1>4, <1>5, <1>6, <1>7, <1>9 DEF n, open, heap

(* A new session under a free descriptor keeps the two maps in agreement. *)
LEMMA CreateConnAgree ==
    ASSUME NEW k \in Tables, Agree(k), Sound(k), k.g_sess_id < MaxSess,
           NEW p \in popUDPConn(k), NEW fd \in Fds \ k.fds
    PROVE  Agree(createConn(k, p, fd))
<1> DEFINE d == createConn(k, p, fd)
           n == k.g_sess_id + 1
<1>1. p \in Conns /\ p \notin Mapped(k) /\ fd \in Fds
    BY PopFree
<1>2. /\ d \in Tables
      /\ n \in Sess
      /\ \A f \in Fds : d.m_mapConn[f] = IF f = fd THEN p ELSE k.m_mapConn[f]
      /\ \A s \in Sess : d.m_mapSessFd[s] = IF s = n THEN p ELSE k.m_mapSessFd[s]
      /\ d.g_sess_id = n
      /\ d.fds = k.fds \cup {fd}
      /\ d.conn[p].m_fd = fd /\ d.conn[p].m_id = n /\ d.conn[p].m_kcp
      /\ \A c \in Conns \ {p} : d.conn[c] = k.conn[c]
    BY <1>1, CreateConnFields
<1>3. /\ k.g_sess_id \in Nat /\ p # NULL
      /\ k.m_mapConn \in [Fds -> Conns \cup {NULL}]
      /\ k.m_mapSessFd \in [Sess -> Conns \cup {NULL}]
      /\ k.fds \in SUBSET Fds
    BY <1>1, TablesFields, ConnsAssumption
<1>4. \A f \in Fds : k.m_mapConn[f] # p
    BY <1>1, <1>3, ConnsAssumption DEF Mapped
<1>5. \A s \in Sess : k.m_mapSessFd[s] # p
    BY <1>3, <1>4 DEF Agree
<1> HIDE DEF d
<1>6. ASSUME NEW f \in Fds, d.m_mapConn[f] # NULL
      PROVE  /\ d.conn[d.m_mapConn[f]].m_fd = f
             /\ d.conn[d.m_mapConn[f]].m_id \in Sess
             /\ d.conn[d.m_mapConn[f]].m_kcp
             /\ d.m_mapSessFd[d.conn[d.m_mapConn[f]].m_id] = d.m_mapConn[f]
             /\ f \in d.fds
    <2>1. CASE f = fd
        BY <1>1, <1>2, <2>1
    <2>2. CASE f # fd
        <3> DEFINE c == k.m_mapConn[f]
        <3>1. d.m_mapConn[f] = c /\ c # NULL /\ c \in Conns \ {p}
            BY <1>2, <1>3, <1>4, <1>6, <2>2
        <3>2. /\ k.conn[c].m_fd = f /\ k.conn[c].m_id \in Sess
              /\ k.conn[c].m_kcp /\ k.m_mapSessFd[k.conn[c].m_id] = c /\ f \in k.fds
            BY <3>1 DEF Agree
        <3>3. k.conn[c].m_id # n
            <4>1. k.conn[c].m_id =< k.g_sess_id
                BY <3>1, <3>2 DEF Agree
            <4> QED
                BY <1>3, <4>1
        <3> QED
            BY <1>2, <3>1, <3>2, <3>3
    <2> QED
        BY <2>1, <2>2
<1>7. ASSUME NEW s \in Sess, d.m_mapSessFd[s] # NULL
      PROVE  /\ d.conn[d.m_mapSessFd[s]].m_id = s
             /\ d.conn[d.m_mapSessFd[s]].m_fd \in Fds
             /\ d.m_mapConn[d.conn[d.m_mapSessFd[s]].m_fd] = d.m_mapSessFd[s]
             /\ s =< d.g_sess_id
    <2>1. CASE s = n
        BY <1>1, <1>2, <1>3, <2>1
    <2>2. CASE s # n
        <3> DEFINE c == k.m_mapSessFd[s]
        <3>1. d.m_mapSessFd[s] = c /\ c # NULL /\ c \in Conns \ {p}
            BY <1>2, <1>3, <1>5, <1>7, <2>2
        <3>2. /\ k.conn[c].m_id = s /\ k.conn[c].m_fd \in Fds
              /\ k.m_mapConn[k.conn[c].m_fd] = c /\ s =< k.g_sess_id
            BY <3>1 DEF Agree
        <3>3. k.conn[c].m_fd # fd
            BY <3>1, <3>2 DEF Agree
        <3>4. s =< n
            BY <1>3, <3>2 DEF Sess
        <3> QED
            BY <1>2, <3>1, <3>2, <3>3, <3>4
    <2> QED
        BY <2>1, <2>2
<1>8. ASSUME NEW f \in d.fds PROVE d.m_mapConn[f] # NULL
    BY <1>1, <1>2, <1>3, <1>8 DEF Agree
<1>9. Agree(d)
    BY <1>6, <1>7, <1>8 DEF Agree
<1> QED
    BY <1>9 DEF d

(* createConn takes a UDPConn that nobody uses.                             *)
LEMMA CreateConnSound ==
    ASSUME NEW k \in Tables, Agree(k), Sound(k), k.g_sess_id < MaxSess,
           NEW p \in popUDPConn(k), NEW fd \in Fds \ k.fds
    PROVE  Sound(createConn(k, p, fd))
<1> DEFINE d == createConn(k, p, fd)
<1>1. /\ p \in Conns /\ p \notin Mapped(k) /\ fd \in Fds
      /\ k.m_pool = <<>> => p \notin k.heap
      /\ k.m_pool # <<>> => 1 \in DOMAIN k.m_pool /\ k.m_pool[1] = p
    BY PopFree
<1>2. /\ \A f \in Fds : d.m_mapConn[f] = IF f = fd THEN p ELSE k.m_mapConn[f]
      /\ d.m_pool = IF k.m_pool = <<>> THEN <<>> ELSE Tail(k.m_pool)
      /\ d.heap = k.heap \cup {p}
      /\ \A c \in Conns \ {p} : d.conn[c] = k.conn[c]
    BY <1>1, CreateConnFields
<1>3. p # NULL /\ k.m_pool \in Seq(Conns)
    BY <1>1, TablesFields, ConnsAssumption
<1>4. k.m_mapConn[fd] = NULL
    BY DEF Agree
<1> HIDE DEF d
<1>5. Mapped(d) = Mapped(k) \cup {p}
    BY <1>1, <1>2, <1>3, <1>4 DEF Mapped
<1>6. CASE k.m_pool = <<>>
    <2>1. d.m_pool = <<>> /\ DOMAIN d.m_pool = {} /\ DOMAIN k.m_pool = {}
        BY <1>2, <1>6
    <2>2. d.heap = Objects(d.m_pool) \cup Mapped(d)
        BY <1>2, <1>5, <2>1 DEF Sound, Objects
    <2> QED
        BY <2>1, <2>2 DEF Sound, d
<1>7. CASE k.m_pool # <<>>
    <2> DEFINE n == Len(k.m_pool)
    <2>1. /\ n \in Nat \ {0}
          /\ DOMAIN k.m_pool = 1..n
          /\ DOMAIN d.m_pool = 1..(n - 1)
          /\ \A i \in 1..(n - 1) : /\ d.m_pool[i] = k.m_pool[i + 1]
                                   /\ i + 1 \in 1..n
          /\ \A i \in 1..n : k.m_pool[i] \in Conns
          /\ k.m_pool[1] = p
        BY <1>1, <1>2, <1>3, <1>7
    <2> HIDE DEF n
    <2>2. \A i, j \in 1..n : k.m_pool[i] = k.m_pool[j] => i = j
        BY <2>1 DEF Sound
    <2>3. \A i \in 1..(n - 1) : k.m_pool[i + 1] # p
        <3> SUFFICES ASSUME NEW i \in 1..(n - 1) PROVE k.m_pool[i + 1] # p
            OBVIOUS
        <3>1. i + 1 \in 1..n /\ 1 \in 1..n /\ i + 1 # 1
            BY <2>1
        <3> QED
            BY <2>1, <2>2, <3>1
    <2>4. \A i, j \in DOMAIN d.m_pool : d.m_pool[i] = d.m_pool[j] => i = j
        <3> SUFFICES ASSUME NEW i \in 1..(n - 1), NEW j \in 1..(n - 1),
                            d.m_pool[i] = d.m_pool[j]
                     PROVE  i = j
            BY <2>1
        <3>1. i + 1 = j + 1
            BY <2>1, <2>2
        <3> QED
            BY <2>1, <3>1
    <2>5. \A i \in DOMAIN d.m_pool : /\ ~d.conn[d.m_pool[i]].m_kcp
                                     /\ d.m_pool[i] \notin Mapped(d)
        <3> SUFFICES ASSUME NEW i \in 1..(n - 1)
                     PROVE  /\ ~d.conn[d.m_pool[i]].m_kcp
                            /\ d.m_pool[i] \notin Mapped(d)
            BY <2>1
        <3>1. /\ d.m_pool[i] = k.m_pool[i + 1] /\ i + 1 \in DOMAIN k.m_pool
              /\ k.m_pool[i + 1] \in Conns \ {p}
            BY <2>1, <2>3
        <3>2. ~k.conn[k.m_pool[i + 1]].m_kcp /\ k.m_pool[i + 1] \notin Mapped(k)
            BY <3>1 DEF Sound
        <3> QED
            BY <1>2, <1>5, <3>1, <3>2
    <2>6. Objects(k.m_pool) = Objects(d.m_pool) \cup {p}
        <3>1. \A i \in 1..n : i = 1 \/ (i - 1 \in 1..(n - 1) /\ d.m_pool[i - 1] = k.m_pool[i])
            BY <2>1
        <3>2. ASSUME NEW c \in Objects(k.m_pool)
              PROVE  c \in Objects(d.m_pool) \cup {p}
            <4>1. PICK i \in 1..n : c = k.m_pool[i]
                BY <2>1 DEF Objects
            <4>2. CASE i = 1
                BY <2>1, <4>1, <4>2
            <4>3. CASE i - 1 \in 1..(n - 1) /\ d.m_pool[i - 1] = k.m_pool[i]
                BY <2>1, <4>1, <4>3 DEF Objects
            <4> QED
                BY <3>1, <4>2, <4>3
        <3>3. ASSUME NEW c \in Objects(d.m_pool)
              PROVE  c \in Objects(k.m_pool)
            BY <2>1 DEF Objects
        <3>4. p \in Objects(k.m_pool)
            BY <2>1 DEF Objects
        <3> QED
            BY <3>2, <3>3, <3>4
    <2>7. d.heap = Objects(d.m_pool) \cup Mapped(d)
        BY <1>2, <1>5, <2>6 DEF Sound
    <2>8. Sound(d)
        BY <2>4, <2>5, <2>7 DEF Sound
    <2> QED
        BY <2>8 DEF d
<1> QED
    BY <1>6, <1>7

-----------------------------------------------------------------------------
(* The operations on sound tables: each keeps them sound, and this is what  *)
(* it does to the maps and to the objects.                                  *)
Good(k) == k \in Tables /\ Agree(k) /\ Sound(k)

(* delConn keeps the tables, and removes the one session of fd.             *)
LEMMA DelConnGood ==
    ASSUME NEW k, Good(k), NEW fd \in Fds
    PROVE  LET d == delConn(k, fd)
           IN  /\ Good(d)
               /\ d.g_sess_id = k.g_sess_id
               /\ \A f \in Fds : d.m_mapConn[f] = IF f = fd THEN NULL ELSE k.m_mapConn[f]
               /\ \A s \in Sess : d.m_mapSessFd[s] =
                      IF k.m_mapSessFd[s] # NULL /\ k.conn[k.m_mapSessFd[s]].m_fd = fd
                      THEN NULL ELSE k.m_mapSessFd[s]
               /\ \A c \in Conns : /\ d.conn[c].m_fd = k.conn[c].m_fd
                                   /\ d.conn[c].m_id = k.conn[c].m_id
                                   /\ d.conn[c].m_bind <=> k.conn[c].m_bind
<1> DEFINE d == delConn(k, fd)
<1>1. Good(d)
    BY DelConnTables, DelConnAgree, DelConnSound DEF Good
<1>2. CASE k.m_mapConn[fd] = NULL
    <2>1. d = k
        BY <1>2 DEF delConn
    <2>2. \A s \in Sess : k.m_mapSessFd[s] # NULL => k.conn[k.m_mapSessFd[s]].m_fd # fd
        BY <1>2 DEF Good, Agree
    <2> HIDE DEF d
    <2>3. /\ \A f \in Fds : d.m_mapConn[f] = IF f = fd THEN NULL ELSE k.m_mapConn[f]
          /\ \A s \in Sess : d.m_mapSessFd[s] =
                 IF k.m_mapSessFd[s] # NULL /\ k.conn[k.m_mapSessFd[s]].m_fd = fd
                 THEN NULL ELSE k.m_mapSessFd[s]
        BY <1>2, <2>1, <2>2
    <2> QED
        BY <1>1, <2>1, <2>3 DEF d
<1>3. CASE k.m_mapConn[fd] # NULL
    <2> DEFINE p == k.m_mapConn[fd]
    <2>1. /\ d.g_sess_id = k.g_sess_id
          /\ \A f \in Fds : d.m_mapConn[f] = IF f = fd THEN NULL ELSE k.m_mapConn[f]
          /\ \A s \in Sess : d.m_mapSessFd[s] =
                 IF s = k.conn[p].m_id THEN NULL ELSE k.m_mapSessFd[s]
          /\ \A c \in Conns : /\ d.conn[c].m_fd = k.conn[c].m_fd
                              /\ d.conn[c].m_id = k.conn[c].m_id
                              /\ d.conn[c].m_bind <=> k.conn[c].m_bind
        BY <1>3, DelConnFields DEF Good
    <2>2. ASSUME NEW s \in Sess
          PROVE  s = k.conn[p].m_id <=>
                    (k.m_mapSessFd[s] # NULL /\ k.conn[k.m_mapSessFd[s]].m_fd = fd)
        BY <1>3 DEF Good, Agree
    <2> HIDE DEF d, p
    <2>3. \A s \in Sess : d.m_mapSessFd[s] =
                 IF k.m_mapSessFd[s] # NULL /\ k.conn[k.m_mapSessFd[s]].m_fd = fd
                 THEN NULL ELSE k.m_mapSessFd[s]
        BY <2>1, <2>2
    <2> QED
        BY <1>1, <2>1, <2>3 DEF d
<1> QED
    BY <1>2, <1>3

(* rawCloseConn keeps the tables, and unmaps the session old.               *)
LEMMA RawCloseGood ==
    ASSUME NEW k, Good(k), NEW old
    PROVE  LET d == rawCloseConn(k, old)
           IN  /\ Good(d)
               /\ d.g_sess_id = k.g_sess_id
               /\ \A f \in Fds : d.m_mapConn[f] # NULL => d.m_mapConn[f] = k.m_mapConn[f]
               /\ \A s \in Sess : d.m_mapSessFd[s] = IF s = old THEN NULL ELSE k.m_mapSessFd[s]
               /\ \A c \in Conns : /\ d.conn[c].m_fd = k.conn[c].m_fd
                                   /\ d.conn[c].m_id = k.conn[c].m_id
                                   /\ d.conn[c].m_bind <=> k.conn[c].m_bind
<1> DEFINE c == rawGetConn(k, old)
           d == rawCloseConn(k, old)
<1>1. CASE c = NULL
    <2>1. d = k
        BY <1>1 DEF rawCloseConn
    <2>2. old \in Sess => k.m_mapSessFd[old] = NULL
        BY <1>1 DEF rawGetConn
    <2> QED
        BY <2>1, <2>2
<1>2. CASE c # NULL
    <2>1. old \in Sess /\ c = k.m_mapSessFd[old]
        BY <1>2 DEF rawGetConn
    <2>2. k.conn[c].m_fd \in Fds /\ d = delConn(k, k.conn[c].m_fd)
        BY <1>2, <2>1 DEF rawCloseConn, Good, Agree
    <2>3. \A s \in Sess : s = old <=>
             (k.m_mapSessFd[s] # NULL /\ k.conn[k.m_mapSessFd[s]].m_fd = k.conn[c].m_fd)
        BY <1>2, <2>1 DEF Good, Agree
    <2> DEFINE fd == k.conn[c].m_fd
    <2>4. /\ Good(d)
          /\ d.g_sess_id = k.g_sess_id
          /\ \A f \in Fds : d.m_mapConn[f] = IF f = fd THEN NULL ELSE k.m_mapConn[f]
          /\ \A s \in Sess : d.m_mapSessFd[s] =
                 IF k.m_mapSessFd[s] # NULL /\ k.conn[k.m_mapSessFd[s]].m_fd = fd
                 THEN NULL ELSE k.m_mapSessFd[s]
          /\ \A x \in Conns : /\ d.conn[x].m_fd = k.conn[x].m_fd
                              /\ d.conn[x].m_id = k.conn[x].m_id
                              /\ d.conn[x].m_bind <=> k.conn[x].m_bind
        BY <2>2, DelConnGood
    <2> HIDE DEF d, fd, c
    <2>5. \A s \in Sess : d.m_mapSessFd[s] = IF s = old THEN NULL ELSE k.m_mapSessFd[s]
        BY <2>3, <2>4 DEF fd
    <2>6. \A f \in Fds : d.m_mapConn[f] # NULL => d.m_mapConn[f] = k.m_mapConn[f]
        BY <2>4
    <2> QED
        BY <2>4, <2>5, <2>6 DEF d
<1> QED
    BY <1>1, <1>2

(* m_bind set, field by field.                                              *)
LEMMA BindRec ==
    ASSUME NEW f \in [Conns -> ConnRec], NEW p \in Conns
    PROVE  LET g == [f EXCEPT ![p].m_bind = TRUE]
           IN  /\ g \in [Conns -> ConnRec]
               /\ \A c \in Conns : /\ g[c].m_fd = f[c].m_fd
                                   /\ g[c].m_id = f[c].m_id
                                   /\ g[c].m_kcp <=> f[c].m_kcp
                                   /\ g[c].m_bind <=> (f[c].m_bind \/ c = p)
<1>1. f[p] \in ConnRec
    OBVIOUS
<1>2. ASSUME NEW r \in ConnRec
      PROVE  /\ [r EXCEPT !.m_bind = TRUE] \in ConnRec
             /\ [r EXCEPT !.m_bind = TRUE].m_fd = r.m_fd
             /\ [r EXCEPT !.m_bind = TRUE].m_id = r.m_id
             /\ [r EXCEPT !.m_bind = TRUE].m_kcp <=> r.m_kcp
             /\ [r EXCEPT !.m_bind = TRUE].m_bind
    BY DEF ConnRec
<1>3. [f EXCEPT ![p].m_bind = TRUE] = [f EXCEPT ![p] = [f[p] EXCEPT !.m_bind = TRUE]]
    OBVIOUS
<1> QED
    BY <1>1, <1>2, <1>3

(* What is known of the tables d after BindConn(s). *)
Bound(k, d, s) ==
    /\ Good(d)
    /\ d.g_sess_id = k.g_sess_id
    /\ d.m_mapConn = k.m_mapConn
    /\ d.m_mapSessFd = k.m_mapSessFd
    /\ \A c \in Conns : /\ d.conn[c].m_fd = k.conn[c].m_fd
                        /\ d.conn[c].m_id = k.conn[c].m_id
                        /\ d.conn[c].m_bind <=>
                              (k.conn[c].m_bind \/ c = k.m_mapSessFd[s])

(* BindConn keeps the tables, and binds no session but s.                   *)
LEMMA BindGood ==
    ASSUME NEW k, Good(k), NEW s \in Sess
    PROVE  Bound(k, BindConn(k, s), s)
<1> DEFINE p == k.m_mapSessFd[s]
           d == BindConn(k, s)
<1>1. p \in Conns \cup {NULL} /\ k \in Tables
    BY TablesFields DEF Good
<1>2. CASE p = NULL
    <2>1. d = k
        BY <1>2 DEF BindConn, rawGetConn
    <2>2. \A c \in Conns : c # p
        BY <1>2, ConnsAssumption
    <2> QED
        BY <2>1, <2>2 DEF Bound
<1>3. CASE p # NULL
    <2> DEFINE conn == [k.conn EXCEPT ![p].m_bind = TRUE]
    <2>1. p \in Conns /\ k.conn \in [Conns -> ConnRec]
        BY <1>1, <1>3, TablesFields
    <2>2. /\ conn \in [Conns -> ConnRec]
          /\ \A c \in Conns : /\ conn[c].m_fd = k.conn[c].m_fd
                              /\ conn[c].m_id = k.conn[c].m_id
                              /\ conn[c].m_kcp <=> k.conn[c].m_kcp
                              /\ conn[c].m_bind <=> (k.conn[c].m_bind \/ c = p)
        BY <2>1, BindRec
    <2>3. d = [k EXCEPT !.conn = conn]
        BY <1>3 DEF BindConn, rawGetConn
    <2> HIDE DEF conn
    <2>4. /\ d \in Tables /\ d.conn = conn /\ d.m_mapConn = k.m_mapConn
          /\ d.m_mapSessFd = k.m_mapSessFd /\ d.m_pool = k.m_pool /\ d.fds = k.fds
          /\ d.heap = k.heap /\ d.g_sess_id = k.g_sess_id
        BY <1>1, <2>2, <2>3 DEF Tables
    <2>5. Agree(d)
        <3>1. Agree(k)
            BY DEF Good
        <3>2. /\ \A f \in Fds : k.m_mapConn[f] # NULL => k.m_mapConn[f] \in Conns
              /\ \A t \in Sess : k.m_mapSessFd[t] # NULL => k.m_mapSessFd[t] \in Conns
            BY <1>1, TablesFields
        <3> HIDE DEF d, p
        <3> QED
            BY <2>2, <2>4, <3>1, <3>2 DEF Agree
    <2>6. Sound(d)
        <3>1. Sound(k)
            BY DEF Good
        <3>2. \A i \in DOMAIN k.m_pool : k.m_pool[i] \in Conns
            BY <1>1, TablesFields
        <3>3. Mapped(d) = Mapped(k)
            BY <2>4 DEF Mapped
        <3> HIDE DEF d, p
        <3> QED
            BY <2>2, <2>4, <3>1, <3>2, <3>3 DEF Sound
    <2> QED
        BY <2>2, <2>4, <2>5, <2>6 DEF Good, Bound
<1> QED
    BY <1>2, <1>3

-----------------------------------------------------------------------------
(* The inductive invariant.  Three facts make the properties inductive:     *)
(* players hold only sessions that were numbered; what is still in delQue   *)
(* denotes, where it denotes anything, a session that was swept, because    *)
(* only the ep thread creates sessions and it does not while it reaps; and  *)
(* closeConn's connection is still the one it looked up, unless the sweep   *)
(* had already chosen it.                                                   *)
BoundNumbered == \A s \in bound : s =< kcp.g_sess_id

ReapInv ==
    /\ delQue # {} => epPc = "reap"
    /\ \A f \in delQue : kcp.m_mapConn[f] # NULL =>
           kcp.conn[kcp.m_mapConn[f]].m_id \in swept

CloseInv ==
    mainPc = "close" =>
        /\ closing.conn \in Conns
        /\ closing.sess \in bound
        /\ kcp.conn[closing.conn].m_fd \in Fds
        /\ ~closing.doomed => /\ kcp.m_mapSessFd[closing.sess] = closing.conn
                              /\ kcp.conn[closing.conn].m_fd \notin delQue

IInv == /\ TypeOK
        /\ TablesAgree
        /\ PoolSound
        /\ BindMatchesPlayers
        /\ IteratorValid
        /\ BoundNumbered
        /\ ReapInv
        /\ CloseInv

(* The tables of a state of IInv are sound.                                 *)
LEMMA IInvGood == IInv => Good(kcp)
BY DEF IInv, TypeOK, TablesAgree, PoolSound, Good

(* IInv holds at the start.                                                 *)
LEMMA InitIInv == Init => IInv
<1> SUFFICES ASSUME Init PROVE IInv
    OBVIOUS
<1>1. kcp \in Tables
    <2> DEFINE conn == [c \in Conns |-> [m_fd |-> 0, m_id |-> 0, m_bind |-> FALSE,
                                         m_kcp |-> FALSE, old |-> FALSE]]
    <2>1. 0 \in 0..MaxFd /\ 0 \in 0..MaxSess
        BY ConnsAssumption
    <2>2. conn \in [Conns -> ConnRec]
        BY <2>1 DEF ConnRec
    <2>3. Objects(InitPool) \in SUBSET Conns /\ InitPool \in Seq(Conns)
        BY ConnsAssumption DEF Objects
    <2> HIDE DEF conn
    <2>4. kcp = [m_mapConn |-> [f \in Fds |-> NULL], m_mapSessFd |-> [s \in Sess |-> NULL],
                 m_pool |-> InitPool, g_sess_id |-> 0, conn |-> conn,
                 fds |-> {}, heap |-> Objects(InitPool)]
        BY DEF Init, conn
    <2> QED
        BY <2>1, <2>2, <2>3, <2>4 DEF Tables
<1>2. TypeOK
    BY <1>1, ConnsAssumption DEF Init, TypeOK, NotClosing
<1>3. TablesAgree
    BY DEF Init, TablesAgree, Agree
<1>4. PoolSound
    <2>1. /\ kcp.m_pool = InitPool /\ kcp.heap = Objects(InitPool)
          /\ \A f \in Fds : kcp.m_mapConn[f] = NULL
          /\ \A c \in Conns : ~kcp.conn[c].m_kcp
        BY DEF Init
    <2>2. Mapped(kcp) = {}
        BY <2>1 DEF Mapped
    <2>3. \A i \in DOMAIN InitPool : InitPool[i] \in Conns
        BY ConnsAssumption
    <2> QED
        BY <2>1, <2>2, <2>3, ConnsAssumption DEF PoolSound, Sound
<1> QED
    BY <1>2, <1>3, <1>4
    DEF Init, IInv, BindMatchesPlayers, IteratorValid, BoundNumbered, ReapInv, CloseInv

-----------------------------------------------------------------------------
(* The steps of the ep thread. *)
LEMMA EpAcceptIInv == IInv /\ EpAccept => IInv'
<1> SUFFICES ASSUME IInv, EpAccept PROVE IInv'
    OBVIOUS
<1>1. PICK fd \in Fds \ kcp.fds, p \in popUDPConn(kcp) : kcp' = createConn(kcp, p, fd)
    BY DEF EpAccept
<1>2. Good(kcp) /\ kcp.g_sess_id < MaxSess
    BY IInvGood DEF EpAccept
<1> DEFINE n == kcp.g_sess_id + 1
<1>3. Agree(kcp') /\ Sound(kcp')
    BY <1>1, <1>2, CreateConnAgree, CreateConnSound DEF Good
<1>4. p \in Conns /\ p \notin Mapped(kcp) /\ p # NULL
    BY <1>2, PopFree, ConnsAssumption DEF Good
<1>5. /\ kcp' \in Tables
      /\ n \in Sess
      /\ \A f \in Fds : kcp'.m_mapConn[f] = IF f = fd THEN p ELSE kcp.m_mapConn[f]
      /\ \A s \in Sess : kcp'.m_mapSessFd[s] = IF s = n THEN p ELSE kcp.m_mapSessFd[s]
      /\ kcp'.g_sess_id = n
      /\ kcp'.conn[p].m_fd = fd /\ kcp'.conn[p].m_id = n
      /\ kcp'.conn[p].m_kcp /\ ~kcp'.conn[p].m_bind
      /\ \A c \in Conns \ {p} : kcp'.conn[c] = kcp.conn[c]
    BY <1>1, <1>2, <1>4, CreateConnFields DEF Good
<1>6. /\ kcp.g_sess_id \in Nat
      /\ kcp.m_mapSessFd \in [Sess -> Conns \cup {NULL}]
      /\ \A f \in Fds : kcp.m_mapConn[f] # p
    BY <1>2, <1>4, TablesFields DEF Good, Mapped
<1>7. \A s \in Sess : kcp.m_mapSessFd[s] # p
    BY <1>2, <1>4, <1>6 DEF Good, Agree
<1>8. /\ UNCHANGED <<epPc, m_lastTick, delQue, mainPc, cursor, closing, bound, swept>>
      /\ epPc = "events" /\ mainPc # "update"
    BY DEF EpAccept, Mutex
<1> HIDE DEF n
<1>9. TypeOK'
    BY <1>5, <1>8 DEF IInv, TypeOK
<1>10. BoundNumbered'
    BY <1>5, <1>6, <1>8 DEF IInv, TypeOK, BoundNumbered, Sess, n
<1>11. n \notin bound
    BY <1>6 DEF IInv, BoundNumbered, n
<1>12. BindMatchesPlayers'
    BY <1>5, <1>6, <1>7, <1>8, <1>11 DEF IInv, BindMatchesPlayers
<1>13. delQue = {}
    BY <1>8 DEF IInv, ReapInv
<1>14. CloseInv'
    <2> SUFFICES ASSUME mainPc = "close"
                 PROVE  /\ closing.conn \in Conns
                        /\ closing.sess \in bound
                        /\ kcp'.conn[closing.conn].m_fd \in Fds
                        /\ ~closing.doomed =>
                              /\ kcp'.m_mapSessFd[closing.sess] = closing.conn
                              /\ kcp'.conn[closing.conn].m_fd \notin delQue
        BY <1>8 DEF CloseInv
    <2>1. /\ closing.conn \in Conns /\ closing.sess \in bound /\ bound \subseteq Sess
          /\ kcp.conn[closing.conn].m_fd \in Fds
          /\ ~closing.doomed => kcp.m_mapSessFd[closing.sess] = closing.conn
        BY DEF IInv, CloseInv, TypeOK
    <2>2. kcp'.conn[closing.conn].m_fd \in Fds
        BY <1>5, <2>1
    <2>3. ~closing.doomed => kcp'.m_mapSessFd[closing.sess] = closing.conn
        BY <1>5, <1>11, <2>1
    <2> QED
        BY <1>13, <2>1, <2>2, <2>3
<1> QED
    BY <1>3, <1>8, <1>9, <1>10, <1>12, <1>13, <1>14
    DEF IInv, TablesAgree, PoolSound, IteratorValid, ReapInv

(* Collecting the expired descriptors keeps IInv.                           *)
LEMMA EpCheckTimeoutIInv == IInv /\ EpCheckTimeout => IInv'
<1> SUFFICES ASSUME IInv, EpCheckTimeout PROVE IInv'
    OBVIOUS
<1>1. /\ UNCHANGED <<kcp, mainPc, cursor, closing, bound>>
      /\ epPc' = "reap" /\ m_lastTick' = "recent"
      /\ delQue' = IF m_lastTick = "due" THEN ExpiredFds(kcp) ELSE {}
      /\ swept' = {kcp.conn[kcp.m_mapConn[f]].m_id : f \in delQue'}
    BY DEF EpCheckTimeout
<1>2. Good(kcp)
    BY IInvGood
<1>3. /\ delQue' \subseteq Fds
      /\ \A f \in delQue' : /\ kcp.m_mapConn[f] # NULL
                            /\ ~kcp.conn[kcp.m_mapConn[f]].m_bind
    BY <1>1 DEF ExpiredFds, Expired
<1>4. swept' \subseteq Sess
    BY <1>1, <1>2, <1>3 DEF Good, Agree
<1>5. TypeOK'
    BY <1>1, <1>3, <1>4 DEF IInv, TypeOK
<1>6. ReapInv'
    BY <1>1 DEF ReapInv
<1>7. CloseInv'
    <2> SUFFICES ASSUME mainPc = "close", ~closing.doomed
                 PROVE  kcp.conn[closing.conn].m_fd \notin delQue'
        BY <1>1 DEF IInv, CloseInv
    <2> DEFINE c == closing.conn
    <2>1. /\ c \in Conns /\ closing.sess \in bound /\ closing.sess \in Sess
          /\ kcp.m_mapSessFd[closing.sess] = c
        BY DEF IInv, CloseInv, TypeOK
    <2>2. c # NULL /\ kcp.conn[c].m_bind /\ kcp.m_mapConn[kcp.conn[c].m_fd] = c
        BY <1>2, <2>1, ConnsAssumption DEF Good, Agree, IInv, BindMatchesPlayers
    <2> QED
        BY <1>3, <2>2
<1> QED
    BY <1>1, <1>5, <1>6, <1>7
    DEF IInv, TablesAgree, PoolSound, BindMatchesPlayers, IteratorValid, BoundNumbered

(* What a delConn step keeps, whichever thread runs it. *)
LEMMA DelConnStep ==
    ASSUME IInv, NEW fd \in Fds, kcp' = delConn(kcp, fd),
           UNCHANGED <<bound, swept>>, delQue' \subseteq delQue
    PROVE  /\ Good(kcp')
           /\ kcp'.g_sess_id = kcp.g_sess_id
           /\ BindMatchesPlayers'
           /\ \A f \in delQue' : kcp'.m_mapConn[f] # NULL =>
                  kcp'.conn[kcp'.m_mapConn[f]].m_id \in swept'
           /\ \A s \in Sess : kcp'.m_mapSessFd[s] =
                  IF kcp.m_mapSessFd[s] # NULL /\ kcp.conn[kcp.m_mapSessFd[s]].m_fd = fd
                  THEN NULL ELSE kcp.m_mapSessFd[s]
           /\ \A c \in Conns : kcp'.conn[c].m_fd = kcp.conn[c].m_fd
<1>1. Good(kcp)
    BY IInvGood
<1>2. /\ Good(kcp')
      /\ kcp'.g_sess_id = kcp.g_sess_id
      /\ \A f \in Fds : kcp'.m_mapConn[f] = IF f = fd THEN NULL ELSE kcp.m_mapConn[f]
      /\ \A s \in Sess : kcp'.m_mapSessFd[s] =
             IF kcp.m_mapSessFd[s] # NULL /\ kcp.conn[kcp.m_mapSessFd[s]].m_fd = fd
             THEN NULL ELSE kcp.m_mapSessFd[s]
      /\ \A c \in Conns : /\ kcp'.conn[c].m_fd = kcp.conn[c].m_fd
                          /\ kcp'.conn[c].m_id = kcp.conn[c].m_id
                          /\ kcp'.conn[c].m_bind <=> kcp.conn[c].m_bind
    BY <1>1, DelConnGood
<1>3. /\ \A f \in Fds : kcp.m_mapConn[f] # NULL => kcp.m_mapConn[f] \in Conns
      /\ \A s \in Sess : kcp.m_mapSessFd[s] # NULL => kcp.m_mapSessFd[s] \in Conns
    BY <1>1, TablesFields DEF Good
<1>4. BindMatchesPlayers'
    <2> SUFFICES ASSUME NEW s \in Sess, kcp'.m_mapSessFd[s] # NULL
                 PROVE  kcp'.conn[kcp'.m_mapSessFd[s]].m_bind <=> s \in bound
        BY DEF BindMatchesPlayers
    <2> DEFINE c == kcp.m_mapSessFd[s]
    <2>1. kcp'.m_mapSessFd[s] = c /\ c \in Conns
        BY <1>2, <1>3
    <2>2. kcp.conn[c].m_bind <=> s \in bound
        BY <2>1, ConnsAssumption DEF IInv, BindMatchesPlayers
    <2> QED
        BY <1>2, <2>1, <2>2
<1>5. ASSUME NEW f \in delQue', kcp'.m_mapConn[f] # NULL
      PROVE  kcp'.conn[kcp'.m_mapConn[f]].m_id \in swept'
    <2> DEFINE c == kcp.m_mapConn[f]
    <2>1. f \in delQue /\ f \in Fds
        BY DEF IInv, TypeOK
    <2>2. kcp'.m_mapConn[f] = c /\ c \in Conns /\ c # NULL
        BY <1>2, <1>3, <1>5, <2>1
    <2>3. kcp.conn[c].m_id \in swept
        BY <2>1, <2>2 DEF IInv, ReapInv
    <2> QED
        BY <1>2, <2>2, <2>3
<1> QED
    BY <1>2, <1>4, <1>5

(* Deleting one collected descriptor keeps IInv.                            *)
LEMMA EpReapIInv == IInv /\ EpReap => IInv'
<1> SUFFICES ASSUME IInv, EpReap PROVE IInv'
    OBVIOUS
<1>1. PICK fd \in delQue : kcp' = delConn(kcp, fd) /\ delQue' = delQue \ {fd}
    BY DEF EpReap
<1>2. /\ UNCHANGED <<epPc, m_lastTick, mainPc, cursor, closing, bound, swept>>
      /\ epPc = "reap" /\ mainPc # "update"
    BY DEF EpReap, Mutex
<1>3. fd \in Fds
    BY DEF IInv, TypeOK
<1>4. /\ Good(kcp')
      /\ kcp'.g_sess_id = kcp.g_sess_id
      /\ BindMatchesPlayers'
      /\ \A f \in delQue' : kcp'.m_mapConn[f] # NULL =>
             kcp'.conn[kcp'.m_mapConn[f]].m_id \in swept'
      /\ \A s \in Sess : kcp'.m_mapSessFd[s] =
             IF kcp.m_mapSessFd[s] # NULL /\ kcp.conn[kcp.m_mapSessFd[s]].m_fd = fd
             THEN NULL ELSE kcp.m_mapSessFd[s]
      /\ \A c \in Conns : kcp'.conn[c].m_fd = kcp.conn[c].m_fd
    BY <1>1, <1>2, <1>3, DelConnStep
<1>5. TypeOK'
    BY <1>1, <1>2, <1>4 DEF IInv, TypeOK, Good
<1>6. ReapInv'
    BY <1>2, <1>4 DEF ReapInv
<1>7. CloseInv'
    <2> SUFFICES ASSUME mainPc = "close"
                 PROVE  /\ closing.conn \in Conns
                        /\ closing.sess \in bound
                        /\ kcp'.conn[closing.conn].m_fd \in Fds
                        /\ ~closing.doomed =>
                              /\ kcp'.m_mapSessFd[closing.sess] = closing.conn
                              /\ kcp'.conn[closing.conn].m_fd \notin delQue'
        BY <1>2 DEF CloseInv
    <2>1. /\ closing.conn \in Conns /\ closing.sess \in bound /\ closing.sess \in Sess
          /\ kcp.conn[closing.conn].m_fd \in Fds
          /\ ~closing.doomed => /\ kcp.m_mapSessFd[closing.sess] = closing.conn
                                /\ kcp.conn[closing.conn].m_fd \notin delQue
        BY DEF IInv, CloseInv, TypeOK
    <2> QED
        BY <1>1, <1>4, <2>1
<1> QED
    BY <1>2, <1>4, <1>5, <1>6, <1>7
    DEF IInv, TablesAgree, PoolSound, Good, IteratorValid, BoundNumbered

(* A step that leaves the tables alone, and delQue, closing and bound too. *)
LEMMA QuietIInv ==
    ASSUME IInv, UNCHANGED <<kcp, delQue, closing, bound, swept>>, TypeOK',
           IteratorValid', mainPc' = "close" => mainPc = "close",
           delQue # {} => epPc' = "reap"
    PROVE  IInv'
BY DEF IInv, TablesAgree, PoolSound, BindMatchesPlayers, BoundNumbered, ReapInv, CloseInv

(* Entering and leaving epoll_wait keep IInv.                               *)
LEMMA EpWakeDoneIInv == IInv /\ (EpWake \/ EpDone) => IInv'
<1> SUFFICES ASSUME IInv, EpWake \/ EpDone PROVE IInv'
    OBVIOUS
<1>1. CASE EpWake
    <2>1. delQue = {}
        BY <1>1 DEF EpWake, IInv, ReapInv
    <2>2. TypeOK' /\ IteratorValid'
        BY <1>1 DEF EpWake, IInv, TypeOK, IteratorValid
    <2> QED
        BY <1>1, <2>1, <2>2, QuietIInv DEF EpWake
<1>2. CASE EpDone
    <2>1. TypeOK' /\ IteratorValid' /\ ReapInv' /\ CloseInv'
        BY <1>2 DEF EpDone, IInv, TypeOK, IteratorValid, ReapInv, CloseInv
    <2> QED
        BY <1>2, <2>1
        DEF EpDone, IInv, TablesAgree, PoolSound, BindMatchesPlayers, BoundNumbered
<1> QED
    BY <1>1, <1>2

-----------------------------------------------------------------------------
(* The steps of the main thread. *)
LEMMA UpdateIInv == IInv /\ (UpdateBegin \/ UpdateConn \/ UpdateEnd) => IInv'
<1> SUFFICES ASSUME IInv, UpdateBegin \/ UpdateConn \/ UpdateEnd PROVE IInv'
    OBVIOUS
<1>1. CASE UpdateBegin
    <2>1. TypeOK' /\ IteratorValid'
        BY <1>1, ConnsAssumption DEF UpdateBegin, IInv, TypeOK, IteratorValid
    <2> QED
        BY <1>1, <2>1, QuietIInv DEF UpdateBegin, IInv, ReapInv
<1>2. CASE UpdateConn
    <2>1. PICK fd \in Fds : NextFd(fd) /\ cursor' = fd
        BY <1>2 DEF UpdateConn
    <2>2. fd \in 0..MaxFd /\ kcp.m_mapConn[fd] # NULL
        BY <2>1, ConnsAssumption DEF NextFd, Ahead, Fds
    <2>3. TypeOK' /\ IteratorValid'
        BY <1>2, <2>1, <2>2 DEF UpdateConn, IInv, TypeOK, IteratorValid
    <2> QED
        BY <1>2, <2>3, QuietIInv DEF UpdateConn, IInv, ReapInv
<1>3. CASE UpdateEnd
    <2>1. TypeOK' /\ IteratorValid'
        BY <1>3, ConnsAssumption DEF UpdateEnd, IInv, TypeOK, IteratorValid
    <2> QED
        BY <1>3, <2>1, QuietIInv DEF UpdateEnd, IInv, ReapInv
<1> QED
    BY <1>1, <1>2, <1>3

(* What is known of the tables d after setSessid on behalf of session s, the *)
(* one filed under fd, for a player whose previous session was old.          *)
AfterSetSessid(k, d, fd, old, s) ==
    /\ s \in Sess
    /\ Good(d)
    /\ d.g_sess_id = k.g_sess_id
    /\ setSessidAsserts(k, old, s) => d.m_mapConn[fd] # NULL /\ s # old
    /\ \A f \in Fds : d.m_mapConn[f] # NULL => d.m_mapConn[f] = k.m_mapConn[f]
    /\ \A t \in Sess : d.m_mapSessFd[t] = IF t = old THEN NULL ELSE k.m_mapSessFd[t]
    /\ \A c \in Conns :
          /\ d.conn[c].m_fd = k.conn[c].m_fd
          /\ d.conn[c].m_id = k.conn[c].m_id
          /\ d.conn[c].m_bind <=>
                (k.conn[c].m_bind \/ (s # old /\ c = k.m_mapSessFd[s]))

(* setSessid keeps the tables, and unmaps the session it replaces.          *)
LEMMA SetSessidGood ==
    ASSUME NEW k, Good(k), NEW fd \in Fds, k.m_mapConn[fd] # NULL, NEW old, NEW s,
           s = k.conn[k.m_mapConn[fd]].m_id
    PROVE  AfterSetSessid(k, setSessid(k, old, s), fd, old, s)
<1> DEFINE p == k.m_mapConn[fd]
           e == rawCloseConn(k, old)
           d == setSessid(k, old, s)
<1>1. /\ p \in Conns /\ s \in Sess /\ k.m_mapSessFd[s] = p /\ k.conn[p].m_fd = fd
    BY TablesFields DEF Good, Agree
<1>2. /\ Good(e)
      /\ e.g_sess_id = k.g_sess_id
      /\ \A f \in Fds : e.m_mapConn[f] # NULL => e.m_mapConn[f] = k.m_mapConn[f]
      /\ \A t \in Sess : e.m_mapSessFd[t] = IF t = old THEN NULL ELSE k.m_mapSessFd[t]
      /\ \A c \in Conns : /\ e.conn[c].m_fd = k.conn[c].m_fd
                          /\ e.conn[c].m_id = k.conn[c].m_id
                          /\ e.conn[c].m_bind <=> k.conn[c].m_bind
    BY RawCloseGood
<1>3. d = BindConn(e, s)
    BY DEF setSessid
<1> HIDE DEF d, e, p
<1>4. /\ Good(d)
      /\ d.g_sess_id = e.g_sess_id
      /\ d.m_mapConn = e.m_mapConn
      /\ d.m_mapSessFd = e.m_mapSessFd
      /\ \A c \in Conns : /\ d.conn[c].m_fd = e.conn[c].m_fd
                          /\ d.conn[c].m_id = e.conn[c].m_id
                          /\ d.conn[c].m_bind <=>
                                (e.conn[c].m_bind \/ c = e.m_mapSessFd[s])
    <2>1. Bound(e, d, s)
        BY <1>1, <1>2, <1>3, BindGood
    <2> QED
        BY <2>1 DEF Bound
<1>5. setSessidAsserts(k, old, s) => s # old /\ d.m_mapConn[fd] # NULL
    <2> SUFFICES ASSUME setSessidAsserts(k, old, s) PROVE s # old /\ d.m_mapConn[fd] # NULL
        OBVIOUS
    <2>1. e.m_mapSessFd[s] # NULL
        BY <1>1 DEF setSessidAsserts, rawGetConn, e
    <2>2. s # old /\ e.m_mapSessFd[s] = p
        BY <1>1, <1>2, <2>1
    <2>3. e.m_mapConn[e.conn[p].m_fd] = p
        <3>1. Agree(e)
            BY <1>2 DEF Good
        <3> QED
            BY <1>1, <2>1, <2>2, <3>1 DEF Agree
    <2> QED
        BY <1>1, <1>2, <1>4, <2>1, <2>2, <2>3
<1>6. \A c \in Conns : c # NULL
    BY ConnsAssumption
<1>7. \A c \in Conns : /\ d.conn[c].m_fd = k.conn[c].m_fd
                       /\ d.conn[c].m_id = k.conn[c].m_id
                       /\ d.conn[c].m_bind <=>
                             (k.conn[c].m_bind \/ (s # old /\ c = k.m_mapSessFd[s]))
    <2> SUFFICES ASSUME NEW c \in Conns
                 PROVE  /\ d.conn[c].m_fd = k.conn[c].m_fd
                        /\ d.conn[c].m_id = k.conn[c].m_id
                        /\ d.conn[c].m_bind <=>
                              (k.conn[c].m_bind \/ (s # old /\ c = k.m_mapSessFd[s]))
        OBVIOUS
    <2>1. c = e.m_mapSessFd[s] <=> (s # old /\ c = k.m_mapSessFd[s])
        BY <1>1, <1>2, <1>6
    <2>2. e.conn[c].m_bind <=> k.conn[c].m_bind
        BY <1>2
    <2>3. d.conn[c].m_bind <=> (e.conn[c].m_bind \/ c = e.m_mapSessFd[s])
        BY <1>4
    <2>4. d.conn[c].m_fd = k.conn[c].m_fd /\ d.conn[c].m_id = k.conn[c].m_id
        BY <1>2, <1>4
    <2> QED
        BY <2>1, <2>2, <2>3, <2>4
<1>8. /\ \A f \in Fds : d.m_mapConn[f] # NULL => d.m_mapConn[f] = k.m_mapConn[f]
      /\ \A t \in Sess : d.m_mapSessFd[t] = IF t = old THEN NULL ELSE k.m_mapSessFd[t]
      /\ d.g_sess_id = k.g_sess_id
    BY <1>2, <1>4
<1> QED
    BY <1>1, <1>4, <1>5, <1>7, <1>8 DEF d, AfterSetSessid

(* A registration met by Update keeps IInv.                                 *)
LEMMA UpdateRegIInv == IInv /\ UpdateReg => IInv'
<1> SUFFICES ASSUME IInv, UpdateReg PROVE IInv'
    OBVIOUS
<1>1. PICK fd \in Fds, old \in bound \cup {0} :
          LET s == kcp.conn[kcp.m_mapConn[fd]].m_id
          IN  /\ NextFd(fd)
              /\ cursor' = fd
              /\ kcp' = setSessid(kcp, old, s)
              /\ IF setSessidAsserts(kcp, old, s)
                 THEN mainPc' = mainPc /\ bound' = bound \cup {s}
                 ELSE mainPc' = "abort" /\ bound' = bound
    BY DEF UpdateReg
<1> DEFINE s == kcp.conn[kcp.m_mapConn[fd]].m_id
<1>2. /\ Good(kcp) /\ fd \in 0..MaxFd /\ kcp.m_mapConn[fd] # NULL
      /\ mainPc = "update"
      /\ UNCHANGED <<epPc, m_lastTick, delQue, closing, swept>>
    BY <1>1, IInvGood, ConnsAssumption DEF NextFd, Ahead, Fds, UpdateReg
<1>3. /\ s \in Sess
      /\ Good(kcp')
      /\ kcp'.g_sess_id = kcp.g_sess_id
      /\ setSessidAsserts(kcp, old, s) => kcp'.m_mapConn[fd] # NULL /\ s # old
      /\ \A f \in Fds : kcp'.m_mapConn[f] # NULL => kcp'.m_mapConn[f] = kcp.m_mapConn[f]
      /\ \A t \in Sess : kcp'.m_mapSessFd[t] = IF t = old THEN NULL ELSE kcp.m_mapSessFd[t]
      /\ \A c \in Conns :
            /\ kcp'.conn[c].m_fd = kcp.conn[c].m_fd
            /\ kcp'.conn[c].m_id = kcp.conn[c].m_id
            /\ kcp'.conn[c].m_bind <=>
                  (kcp.conn[c].m_bind \/ (s # old /\ c = kcp.m_mapSessFd[s]))
    <2>1. kcp' = setSessid(kcp, old, s)
        BY <1>1
    <2>2. s = kcp.conn[kcp.m_mapConn[fd]].m_id
        OBVIOUS
    <2> HIDE DEF s
    <2>3. AfterSetSessid(kcp, kcp', fd, old, s)
        BY <1>2, <2>1, <2>2, SetSessidGood
    <2> QED
        BY <2>3 DEF AfterSetSessid
<1>4. /\ kcp.m_mapSessFd[s] = kcp.m_mapConn[fd]
      /\ s =< kcp.g_sess_id
      /\ kcp.m_mapConn \in [Fds -> Conns \cup {NULL}]
      /\ kcp.m_mapSessFd \in [Sess -> Conns \cup {NULL}]
    BY <1>2, TablesFields DEF Good, Agree
<1>5. /\ cursor' = fd
      /\ IF setSessidAsserts(kcp, old, s)
         THEN mainPc' = mainPc /\ bound' = bound \cup {s}
         ELSE mainPc' = "abort" /\ bound' = bound
    BY <1>1
<1>6. s = old => ~setSessidAsserts(kcp, old, s)
    BY <1>3
<1>7. s # old => setSessidAsserts(kcp, old, s)
    <2> SUFFICES ASSUME s # old PROVE setSessidAsserts(kcp, old, s)
        OBVIOUS
    <2>1. rawCloseConn(kcp, old).m_mapSessFd[s] = kcp.m_mapSessFd[s]
        BY <1>2, <1>3, RawCloseGood
    <2> QED
        BY <1>2, <1>3, <1>4, <2>1 DEF setSessidAsserts, rawGetConn
<1> HIDE DEF s
<1>8. TypeOK'
    BY <1>2, <1>3, <1>5 DEF IInv, TypeOK, Good
<1>9. \A t \in Sess : kcp.m_mapSessFd[t] = kcp.m_mapSessFd[s]
                         /\ kcp.m_mapSessFd[t] # NULL => t = s
    BY <1>2, <1>3, <1>4 DEF Good, Agree
<1>10. BindMatchesPlayers'
    <2> SUFFICES ASSUME NEW t \in Sess, kcp'.m_mapSessFd[t] # NULL
                 PROVE  kcp'.conn[kcp'.m_mapSessFd[t]].m_bind <=> t \in bound'
        BY DEF BindMatchesPlayers
    <2> DEFINE c == kcp.m_mapSessFd[t]
    <2>1. t # old /\ kcp'.m_mapSessFd[t] = c /\ c # NULL /\ c \in Conns
        BY <1>3, <1>4
    <2>2. kcp.conn[c].m_bind <=> t \in bound
        BY <2>1 DEF IInv, BindMatchesPlayers
    <2>3. CASE t = s
        BY <1>3, <1>5, <1>7, <2>1, <2>3
    <2>4. CASE t # s
        <3>1. c # kcp.m_mapSessFd[s]
            BY <1>9, <2>1, <2>4
        <3>2. t \in bound' <=> t \in bound
            BY <1>5, <2>4
        <3> QED
            BY <1>3, <2>1, <2>2, <3>1, <3>2
    <2> QED
        BY <2>3, <2>4
<1>11. IteratorValid'
    BY <1>2, <1>3, <1>5 DEF IteratorValid
<1>12. BoundNumbered'
    BY <1>3, <1>4, <1>5 DEF IInv, BoundNumbered
<1>13. ReapInv'
    BY <1>2, <1>3, <1>4 DEF IInv, ReapInv, TypeOK
<1>14. CloseInv'
    BY <1>2, <1>5 DEF CloseInv
<1> QED
    BY <1>3, <1>8, <1>10, <1>11, <1>12, <1>13, <1>14
    DEF IInv, TablesAgree, PoolSound, Good

(* The locked half of closeConn keeps IInv.                                 *)
LEMMA CloseLookupIInv == IInv /\ CloseLookup => IInv'
<1> SUFFICES ASSUME IInv, CloseLookup PROVE IInv'
    OBVIOUS
<1>1. PICK s \in bound :
          LET c == rawGetConn(kcp, s)
          IN  /\ c # NULL
              /\ closing' = [sess |-> s, conn |-> c,
                             doomed |-> kcp.conn[c].m_fd \in delQue]
    BY DEF CloseLookup
<1> DEFINE c == kcp.m_mapSessFd[s]
<1>2. /\ mainPc = "idle" /\ mainPc' = "close" /\ Good(kcp)
      /\ UNCHANGED <<kcp, epPc, m_lastTick, delQue, cursor, bound, swept>>
    BY IInvGood DEF CloseLookup
<1>3. /\ s \in Sess /\ s \in 0..MaxSess /\ c # NULL
      /\ closing' = [sess |-> s, conn |-> c, doomed |-> kcp.conn[c].m_fd \in delQue]
    BY <1>1 DEF rawGetConn, IInv, TypeOK, Sess
<1>4. c \in Conns /\ kcp.conn[c].m_fd \in Fds
    BY <1>2, <1>3, TablesFields DEF Good, Agree
<1>5. TypeOK' /\ IteratorValid' /\ ReapInv'
    BY <1>2, <1>3, <1>4 DEF IInv, TypeOK, IteratorValid, ReapInv
<1>6. CloseInv'
    BY <1>2, <1>3, <1>4 DEF CloseInv
<1> QED
    BY <1>2, <1>5, <1>6
    DEF IInv, TablesAgree, PoolSound, BindMatchesPlayers, BoundNumbered

(* The half of closeConn after the unlock keeps IInv.                       *)
LEMMA CloseDeleteIInv == IInv /\ CloseDelete => IInv'
<1> SUFFICES ASSUME IInv, CloseDelete PROVE IInv'
    OBVIOUS
<1> DEFINE fd == kcp.conn[closing.conn].m_fd
<1>1. /\ mainPc = "close" /\ mainPc' = "idle" /\ closing' = NotClosing
      /\ kcp' = delConn(kcp, fd)
      /\ UNCHANGED <<epPc, m_lastTick, delQue, cursor, bound, swept>>
    BY DEF CloseDelete
<1>2. fd \in Fds
    BY <1>1 DEF IInv, CloseInv
<1> HIDE DEF fd
<1>3. /\ Good(kcp')
      /\ kcp'.g_sess_id = kcp.g_sess_id
      /\ BindMatchesPlayers'
      /\ \A f \in delQue' : kcp'.m_mapConn[f] # NULL =>
             kcp'.conn[kcp'.m_mapConn[f]].m_id \in swept'
    BY <1>1, <1>2, DelConnStep
<1>4. TypeOK'
    BY <1>1, <1>3, ConnsAssumption DEF IInv, TypeOK, Good, NotClosing
<1>5. ReapInv'
    BY <1>1, <1>3 DEF IInv, ReapInv
<1> QED
    BY <1>1, <1>3, <1>4, <1>5
    DEF IInv, TablesAgree, PoolSound, Good, IteratorValid, BoundNumbered, CloseInv

-----------------------------------------------------------------------------
(* The clock. *)
LEMMA OldRec ==
    ASSUME NEW f \in [Conns -> ConnRec], NEW p \in Conns
    PROVE  LET g == [f EXCEPT ![p].old = TRUE]
           IN  /\ g \in [Conns -> ConnRec]
               /\ \A c \in Conns : /\ g[c].m_fd = f[c].m_fd
                                   /\ g[c].m_id = f[c].m_id
                                   /\ g[c].m_kcp <=> f[c].m_kcp
                                   /\ g[c].m_bind <=> f[c].m_bind
<1>1. f[p] \in ConnRec
    OBVIOUS
<1>2. ASSUME NEW r \in ConnRec
      PROVE  /\ [r EXCEPT !.old = TRUE] \in ConnRec
             /\ [r EXCEPT !.old = TRUE].m_fd = r.m_fd
             /\ [r EXCEPT !.old = TRUE].m_id = r.m_id
             /\ [r EXCEPT !.old = TRUE].m_kcp <=> r.m_kcp
             /\ [r EXCEPT !.old = TRUE].m_bind <=> r.m_bind
    BY DEF ConnRec
<1>3. [f EXCEPT ![p].old = TRUE] = [f EXCEPT ![p] = [f[p] EXCEPT !.old = TRUE]]
    OBVIOUS
<1> QED
    BY <1>1, <1>2, <1>3

(* The passing of time keeps IInv.                                          *)
LEMMA ClockIInv == IInv /\ (FreqElapsed \/ Expire) => IInv'
<1> SUFFICES ASSUME IInv, FreqElapsed \/ Expire PROVE IInv'
    OBVIOUS
<1>1. CASE FreqElapsed
    <2>1. TypeOK' /\ IteratorValid'
        BY <1>1 DEF FreqElapsed, IInv, TypeOK, IteratorValid
    <2> QED
        BY <1>1, <2>1, QuietIInv DEF FreqElapsed, IInv, ReapInv
<1>2. CASE Expire
    <2>1. PICK p \in Conns : kcp' = [kcp EXCEPT !.conn[p].old = TRUE]
        BY <1>2 DEF Expire
    <2> DEFINE g == [kcp.conn EXCEPT ![p].old = TRUE]
    <2>2. kcp \in Tables /\ kcp.conn \in [Conns -> ConnRec]
        BY TablesFields DEF IInv, TypeOK
    <2>3. kcp' = [kcp EXCEPT !.conn = g]
        BY <2>1, <2>2 DEF Tables
    <2>4. /\ g \in [Conns -> ConnRec]
          /\ \A c \in Conns : /\ g[c].m_fd = kcp.conn[c].m_fd
                              /\ g[c].m_id = kcp.conn[c].m_id
                              /\ g[c].m_kcp <=> kcp.conn[c].m_kcp
                              /\ g[c].m_bind <=> kcp.conn[c].m_bind
        BY <2>2, OldRec
    <2> HIDE DEF g
    <2>5. /\ kcp' \in Tables
          /\ kcp'.m_mapConn = kcp.m_mapConn
          /\ kcp'.m_mapSessFd = kcp.m_mapSessFd
          /\ kcp'.m_pool = kcp.m_pool
          /\ kcp'.g_sess_id = kcp.g_sess_id
          /\ kcp'.conn = g
          /\ kcp'.fds = kcp.fds
          /\ kcp'.heap = kcp.heap
        BY <2>2, <2>3, <2>4 DEF Tables
    <2>6. UNCHANGED <<epPc, m_lastTick, delQue, mainPc, cursor, closing, bound, swept>>
        BY <1>2 DEF Expire
    <2>7. /\ \A f \in Fds : kcp.m_mapConn[f] \in Conns \cup {NULL}
          /\ \A s \in Sess : kcp.m_mapSessFd[s] \in Conns \cup {NULL}
          /\ \A i \in DOMAIN kcp.m_pool : kcp.m_pool[i] \in Conns
        BY <2>2, TablesFields DEF Tables
    <2>8. Agree(kcp) /\ Sound(kcp)
        BY DEF IInv, TablesAgree, PoolSound
    <2>9. TypeOK'
        BY <2>5, <2>6 DEF IInv, TypeOK
    <2>10. TablesAgree'
        BY <2>4, <2>5, <2>7, <2>8 DEF TablesAgree, Agree
    <2>11. PoolSound'
        BY <2>4, <2>5, <2>7, <2>8 DEF PoolSound, Sound, Mapped
    <2>12. BindMatchesPlayers'
        BY <2>4, <2>5, <2>6, <2>7 DEF IInv, BindMatchesPlayers
    <2>13. IteratorValid' /\ BoundNumbered'
        BY <2>5, <2>6 DEF IInv, IteratorValid, BoundNumbered
    <2>14. ReapInv'
        BY <2>4, <2>5, <2>6, <2>7 DEF IInv, ReapInv, TypeOK
    <2>15. CloseInv'
        BY <2>4, <2>5, <2>6 DEF IInv, CloseInv, TypeOK
    <2> QED
        BY <2>9, <2>10, <2>11, <2>12, <2>13, <2>14, <2>15 DEF IInv
<1> QED
    BY <1>1, <1>2

-----------------------------------------------------------------------------
(* Every step keeps IInv.                                                   *)
LEMMA NextIInv == IInv /\ [Next]_vars => IInv'
<1> SUFFICES ASSUME IInv, [Next]_vars PROVE IInv'
    OBVIOUS
<1>1. CASE UNCHANGED vars
    <2>1. TypeOK' /\ IteratorValid'
        BY <1>1 DEF vars, IInv, TypeOK, IteratorValid
    <2> QED
        BY <1>1, <2>1, QuietIInv DEF vars, IInv, ReapInv
<1>2. CASE EpNext
    BY <1>2, EpAcceptIInv, EpCheckTimeoutIInv, EpReapIInv, EpWakeDoneIInv DEF EpNext
<1>3. CASE MainNext
    BY <1>3, UpdateIInv, UpdateRegIInv, CloseLookupIInv, CloseDeleteIInv DEF MainNext
<1>4. CASE ClockNext
    BY <1>4, ClockIInv DEF ClockNext
<1> QED
    BY <1>1, <1>2, <1>3, <1>4 DEF Next

(* The inductive invariant holds in every reachable state, for any number   *)
(* of objects, descriptors and sessions.                                    *)
THEOREM Inductive == Spec => []IInv
BY InitIInv, NextIInv, PTL DEF Spec

(* Every variable stays in its type through every interleaving of the two   *)
(* threads.                                                                 *)
THEOREM TypeCorrect == Spec => []TypeOK
<1>1. IInv => TypeOK
    BY DEF IInv
<1> QED
    BY <1>1, Inductive, PTL

(* The two session maps describe the same open connections, whatever the    *)
(* two threads insert and erase (createConn, delConn, rawCloseConn).        *)
THEOREM TablesAlwaysAgree == Spec => []TablesAgree
<1>1. IInv => TablesAgree
    BY DEF IInv
<1> QED
    BY <1>1, Inductive, PTL

(* No object is recycled while it is mapped, pooled twice, or leaked.       *)
THEOREM PoolAlwaysSound == Spec => []PoolSound
<1>1. IInv => PoolSound
    BY DEF IInv
<1> QED
    BY <1>1, Inductive, PTL

(* The timeout exemption m_bind is held by the players' sessions only.      *)
THEOREM BindAlwaysMatches == Spec => []BindMatchesPlayers
<1>1. IInv => BindMatchesPlayers
    BY DEF IInv
<1> QED
    BY <1>1, Inductive, PTL

(* Update never advances an iterator whose entry a handler erased; the      *)
(* assert(ref) of setSessid is what keeps this true.                        *)
THEOREM IteratorAlwaysValid == Spec => []IteratorValid
<1>1. IInv => IteratorValid
    BY DEF IInv
<1> QED
    BY <1>1, Inductive, PTL

(* The session that delConn(fd) takes away is the one filed with fd.        *)
LEMMA RemovedByDelConn ==
    ASSUME NEW k, Good(k), NEW fd \in Fds, NEW s \in Sess,
           k.m_mapSessFd[s] # NULL, delConn(k, fd).m_mapSessFd[s] = NULL
    PROVE  k.conn[k.m_mapSessFd[s]].m_fd = fd
BY DelConnGood

(* Two sessions of one descriptor are one.                                  *)
LEMMA OneSessionPerFd ==
    ASSUME NEW k, Good(k), NEW s \in Sess, NEW t \in Sess,
           k.m_mapSessFd[s] # NULL, k.m_mapSessFd[t] # NULL,
           k.conn[k.m_mapSessFd[s]].m_fd = k.conn[k.m_mapSessFd[t]].m_fd
    PROVE  s = t
BY DEF Good, Agree

(* What closeConn deletes after its unlock is the session it was called for *)
(* unless that one was already being swept when it was looked up.           *)
THEOREM ClosesOnlyItsOwn == Spec => ClosesOnlyItsSession
<1>1. ASSUME IInv, CloseDelete, NEW s \in Sess, Removed(s)
      PROVE  s = closing.sess \/ closing.doomed
    <2> DEFINE fd == kcp.conn[closing.conn].m_fd
    <2>1. Good(kcp) /\ fd \in Fds /\ kcp' = delConn(kcp, fd)
        BY <1>1, IInvGood DEF IInv, CloseInv, CloseDelete
    <2>2. kcp.m_mapSessFd[s] # NULL /\ kcp.conn[kcp.m_mapSessFd[s]].m_fd = fd
        BY <1>1, <2>1, RemovedByDelConn DEF Removed
    <2>3. ~closing.doomed => kcp.m_mapSessFd[closing.sess] = closing.conn
                             /\ closing.sess \in Sess
                             /\ closing.conn # NULL
        BY <1>1, ConnsAssumption DEF IInv, CloseInv, CloseDelete, TypeOK
    <2> QED
        BY <2>1, <2>2, <2>3, OneSessionPerFd
<1>2. IInv /\ [Next]_vars =>
          [CloseDelete => \A s \in Sess :
               Removed(s) => s = closing.sess \/ closing.doomed]_vars
    BY <1>1
<1> QED
    BY <1>2, Inductive, PTL DEF Spec, ClosesOnlyItsSession

(* What the sweep deletes after releasing the mutex is what it saw expired. *)
THEOREM SweepReapsOnlyExpired == Spec => ReapsOnlyExpired
<1>1. ASSUME IInv, EpReap, NEW s \in Sess, Removed(s)
      PROVE  s \in swept
    <2>1. PICK fd \in delQue : kcp' = delConn(kcp, fd)
        BY <1>1 DEF EpReap
    <2>2. Good(kcp) /\ fd \in Fds
        BY <1>1, <2>1, IInvGood DEF IInv, TypeOK
    <2>3. kcp.m_mapSessFd[s] # NULL /\ kcp.conn[kcp.m_mapSessFd[s]].m_fd = fd
        BY <1>1, <2>1, <2>2, RemovedByDelConn DEF Removed
    <2>4. /\ kcp.m_mapConn[fd] = kcp.m_mapSessFd[s]
          /\ kcp.conn[kcp.m_mapSessFd[s]].m_id = s
        BY <2>2, <2>3 DEF Good, Agree
    <2> QED
        BY <1>1, <2>1, <2>3, <2>4 DEF IInv, ReapInv
<1>2. IInv /\ [Next]_vars => [EpReap => \A s \in Sess : Removed(s) => s \in swept]_vars
    BY <1>1
<1> QED
    BY <1>2, Inductive, PTL DEF Spec, ReapsOnlyExpired
=============================================================================

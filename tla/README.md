# A verification project for kcpserver_cpp

TLA+ modules for the game server in this repository, TLC configurations that
check them on small instances, and TLAPS proofs of the most important
properties. All lines below are lines of the file named next to them.

## 1. The system

kcpserver is a frame-synchronisation game server. One binary runs as *net*
(TCP front end for clients) or as *game* (rooms, with a KCP/UDP front end for
the clients in a match). Net and gate talk to the game process by RPC over TCP.

| Part | Files | State it keeps | Operations |
|---|---|---|---|
| KCP session table | `kcpsess/sessServer.*` | `UDPConn` objects and their pool, `m_mapConn` (fd to conn), `m_mapSessFd` (session to conn), `g_sess_id`, `m_lastTick` | accept, read, update, bind, close, timeout sweep |
| KCP datagrams | same, and vendored `ikcp.*` | per connection: `m_bread`, `m_cacheBuf`, `m_offset`, the ikcp state | `OnRead`, `OnDealMsg`, `Write` |
| Rooms | `core/room.*` | `roomObj`: frames, clock, end frame, members, connection entries; `roomMgr`: table of rooms, finished rooms, pools | new, enter, leave, command, repair, cache, ready, over, update |
| Players | `core/player.*` | `playerObj` (pid, rid, session, offline); `playerMgr`: two maps and a pool | append, update pid, offline, remove |
| Handlers of the game | `rpchandle.*` (`rpcGameHandle`) | none | NewRoom, OverRoom, OfflineP, EnterP, LeaveP, AllPReady, messages 2000 to 2005 |
| Handlers of the net | `rpchandle.*` (`rpcNetHandle`) | none | push to one or all, force close, register the game |
| Net queue | `net.*` | `m_netQueue` of `NEW_CONN`, `DATA_IN`, `QUIT_CONN`; `m_readFdMap` | `netThreadFun`, `queueProcessFun`, `append*` |
| Net connections | `conn.*`, `connmgr.*` | per connection read and send buffer; `m_connFdMap` (fd to pid), `m_connMap` (pid to object), `m_writeFdMap` | create, read, write, timeout, delete |
| RPC client | `tcpclient.*` | connection to gate or game, receive buffer, queues | connect, read thread, write thread, reconnect |
| Messages and buffers | `recvBuff.*` | pools of `msgObj`, `rpcObj`, `sendCache` | decode, encode, send |
| Others | `qps.*`, `log.*`, `cfg.*`, `main.cpp` | counters, log queue, configuration | |

How they interact in the game process: the *ep thread* (`epThread`) waits in
`epoll_wait`, accepts new KCP clients, feeds datagrams into ikcp, and sweeps the
sessions that nobody registered. The *main thread* (`main.cpp:119-141`) runs, in
this order and again and again: the RPC handlers of what arrived, then
`KCPServer::Update` (which holds the mutex of the session table and runs the
handlers of the KCP messages), then `roomMgr::Update` (frames, ends of matches).
The two threads share the session table under `KCPServer::mutex`, and only
that. Handlers call from rooms to players to sessions; a session is named by a
number in `playerObj` and by a raw `UDPConn` pointer in `roomObj::m_pidConn`.

In the net process the *ep thread* (`netThreadFun`) puts what epoll reports into
`m_netQueue`, and the *main thread* does the rest in `queueProcessFun`: closes,
new connections, reads, writes, the calls of the gate, timeouts. Both processes
talk to the gate through a `tcpclient`, which a *read thread* and a *write
thread* share with the main thread under three mutexes.

What is hard about it:

- **two threads, one table, two-phase operations**: both `closeConn` and
  `OnCheckTimeout` release the mutex between deciding and deleting, and delete
  by *descriptor*, which the kernel reuses;
- **recycling**: `UDPConn`, `playerObj` and `roomObj` come from pools and keep
  what their last use left in them; maps elsewhere hold raw pointers to them;
- **an iterator that lives across handlers** which erase from the map it walks;
- **a clock of 32 bits in milliseconds**, with 0 as "not started", and passes of
  the loop that may come late;
- **two ways to a client**: the past of a match by TCP (2003), the present by
  KCP (2001), and the gap there could be between them;
- **datagrams**, lost, doubled and out of order, over which ikcp makes a stream,
  with windows that close and, on the server's side, stream mode;
- **edge-triggered epoll**, with the set of descriptors to read kept by hand, and
  closes that wait in a queue, by descriptor, until the next pass;
- **streams cut anywhere**: reads that end within a header or a body, writes that
  end within a message, and buffers that may be smaller than a message;
- **three threads, three mutexes** around the connection to the gate, which one
  of them closes and opens again;
- **ends of matches** by the gate, forced or not, at any moment of a match.

The full list, each at its line and with the properties that cover it, is under
`hazards` in `PROJECT.json`.

### What makes each part correct

- Sessions: the two maps agree; an object is pooled or mapped, once; the timeout
  exempts exactly the registered sessions; closing hits the session it was
  called for; the sweep hits only what it saw expired; a client that never
  registers is swept.
- A KCP session: what is taken is what was written, the same bytes in the same
  order, none lost or twice; a message is taken whole; no end forgets what the
  other has not got; what was written arrives in the end.
- Room: one sequence of commands cut once into frames, the same for everybody,
  all of it in the record; frames follow the clock; a late player misses no
  frame; the end of the match names the last frame of the record; a match that is
  to end does end.
- Players: the maps agree; an object is registered or pooled; a room's players
  are live; no session is bound to nobody; the frames reach the players of the
  room.
- Net: the tables agree with each other and with the kernel; the gate is told of
  each connection once, that it is there and that it has gone; no edge is lost; a
  close by main hits the connection it was meant for (one by the ep thread may not, and
  the gate's does not, see below).
- A client's stream: every message that the buffer holds is handed on whole and in
  order (it fails in a case, see below); what could not be written stays in order and
  moves on.
- Connection to the gate: calls arrive in order, once, both ways; no cache is overrun (one
  is, see below); the threads do not block one another; a connection that was lost comes back.

## 2. Modules

| Module | What it is |
|---|---|
| `KcpServer` | the session table with its two threads |
| `KcpServerProofs` | TLAPS proofs about it |
| `Ikcp` | the control block of `ikcp.c` and its functions, as operators |
| `BytePipe` | abstract specification: what one direction of a session promises |
| `KcpLink` | one session, client and server, and the network between them; each direction shown to implement `BytePipe` |
| `KcpLinkProofs` | TLAPS proofs about them |
| `FrameLog` | abstract specification: what a room promises its players |
| `Room` | one `roomObj` through its matches, shown to implement `FrameLog` |
| `RoomProofs` | TLAPS proofs about it |
| `Game` | players, rooms and sessions together; extends `KcpServer` and implements its `Spec` |
| `GameProofs` | TLAPS proofs about it |
| `NetServer` | the TCP front end: queue, tables of connections, reads and closes |
| `NetServerProofs` | TLAPS proofs about it |
| `ConnRecv` | one client's stream cut into messages |
| `ConnRecvProofs` | TLAPS proofs about it |
| `ConnSend` | what is written to one client, and the rests |
| `ConnSendProofs` | TLAPS proofs about it |
| `TcpClient` | the connection to the gate with its three threads |
| `TcpClientProofs` | TLAPS proofs about it |
| `MCKcpServer`, `MCKcpLink`, `MCRoom`, `MCGame` | values of the constants for TLC (the other modules get theirs in the `.cfg`) |

### KcpServer

`kcp` is the record of everything the mutex guards; `conn` holds the fields of
the `UDPConn` objects, of which `m_kcp` says that the ikcp object exists, `old`
that `KCP_CONN_TIMEOUT_MS` has passed since it was born. `fds` are the
descriptors open in the kernel: a free one may be handed out again, any time,
to a new client. The operations on the tables are functions from tables to
tables (`delConn`, `createConn`, `rawCloseConn`, `BindConn`, ...), so that a
handler which calls several of them is their composition, in the order of the
code.

A step is what one thread does without releasing the mutex:

| Action | Code |
|---|---|
| `EpWake` | `epoll_wait` returns (497) |
| `EpAccept` | `acceptConn` (367-433), the table part in `createConn` |
| `EpCheckTimeout`, `EpReap`, `EpDone` | `OnCheckTimeout` (579-601): collect under the mutex; one `delConn` each; end |
| `UpdateBegin`, `UpdateConn`, `UpdateReg`, `UpdateEnd` | `KCPServer::Update` (604-614), with the mutex held from begin to end; `UpdateReg` is message 2004 |
| `CloseLookup`, `CloseDelete` | `closeConn` (290-299), two critical sections |
| `FreqElapsed`, `Expire` | time |

`mainPc = "abort"` is a failed `assert` (the build has no `NDEBUG`). Here the
registering player is any: the previous session of `setSessid` is any session
ever bound. `Game` narrows this to real players.

### Ikcp, BytePipe and KcpLink

`Ikcp` has the control block `ikcpcb` as a record, with the code's names, and one
operator for each function that changes it, from control blocks to control blocks.
Both ends of a session run it. Lists in the order of their numbers (`snd_buf`,
`rcv_buf`) are functions from numbers to pieces; a piece is the places of its
bytes in what its end has written, so that lost, doubled and moved bytes show
although no byte is modelled. Two operators stand for `ikcp_flush`: `ikcp_flush` for
what it does to the control block, `Output` for what it may send. Timers are
left out: any outstanding piece may be due at any flush, and one that is not sent is
the same as one that is lost. So retransmission after a timeout, fast
retransmission (`parse_fastack`) and the waiting time of the window's question are all
contained in "any subset of `Output`". The congestion window is off
(`ikcp_nodelay(.., 1)`), numbers do not wrap, memory does not run out.

`KcpLink` has two control blocks, the segments on the way to each end, and `m_bread`.

| Action | Code |
|---|---|
| `Write` | `UDPConn::Write` (225-236), and the client's `ikcp_send` |
| `ServerFlush`, `ServerNoFlush` | one turn of `KCPServer::Update` for this session (604-614): `ikcp_update`, which flushes or does not, and `OnDealMsg` (170-223) |
| `OnRead` | `processMsg` (353-365): a datagram is put in, `m_bread` is set |
| `ClientFlush`, `ClientInput`, `ClientRecv` | the client (external; it runs the same `ikcp.c`) |

The network may drop anything when a flush hands it something, may keep a copy of
what it delivers, and delivers in any order. The server writes in stream mode
(`stream = 1`, line 106), the client in message mode: `OnDealMsg` asserts that one
message of KCP is one message of the game. `writes`, `segs` and `got` are history; no guard
reads them but the bound on writes.

### FrameLog and Room

`FrameLog` has five variables: whether a match is on, the commands accepted,
where they were cut into frames, what each player has been sent, and the record
of the last match. Its steps are start, accept, seal, fetch and close. That a
command is in exactly one frame and that frames never change holds there by
construction, so `KeepsOneLog == Log!Spec` carries it over to `Room`.

`Room` has the fields of `roomObj` under their names and the time that the code
sees, `clock % MsMod`. A pass of `roomObj::Update` is not one step: its `while`
is unfolded into `EmitFrame` steps between `UpdateAdd` and `UpdateEnd` (`pc =
"loop"`), so the invariants are checked between any two frames. The handlers run
only when `pc = "idle"`, as they do in the one thread. `RawOver`, `Finnal` and
the return to the pool happen in one `roomMgr::Update` and are one step. The
history variables (`accepted`, `cut`, `first`, `last`, `resync`, `sync`) exist
for the properties only; no guard reads them except the bound on commands.

Simplifications: one room of the process; pid and rid of a player are one number;
a command has no content, only who it is about; what reaches a client is the set
of frames sent to it (KCP and TCP deliver; their loss is not modelled).

### Game

Extends `KcpServer`. Its ep thread and clock are those of `KcpServer`; its main
thread has, instead of an arbitrary registration or close, those that the players
and rooms cause. `UsesSessions == Spec` says that this is a refinement, so that
what is proved of `KcpServer` holds for it. `pm` is `playerMgr` with its objects,
`rooms` the connection entries and members of each room, `todo`, `removing` and
`current` the place inside a handler that takes several players offline (each by
`closeConn`, that is two steps, with the ep thread running in between). `todo` is a
set, worked off in the order of the rids (`First`), as the code's maps are; `removing`
says whether the players are removed afterwards (`RawOver`) or not (`OfflineP`).
`popPlayer` gives the objects for a roster at once, the front of the pool and
then objects never made; that there are finitely many is a bound.
`GateDiscipline` is the assumption about the gate, which is not in this
repository: it opens a room only if that room is closed and its players are in
none. `GameAssumption` says of what it sends that a roster names no player and no pid
twice. The pid of message 2004 is not the gate's but the client's own word
(`sessServer.cpp:208-210`), and nothing checks it: `Reg` takes any pid, those of other
players included. Who registers under another's takes over his entry in `m_pidPMap` and,
in one room, in `m_pidConn`. So `PlayersSound` promises that what the maps find is right, not
that everybody is found, and `FramesReach` is about those who are found.

### NetServer

The net process (`m_bNet`). A pass of `queueProcessFun` is `Drain`, a `Read` for each
descriptor of `m_readFdMap` in ascending order, `ReadsDone`, then writes that
fail and calls of the gate (`SendFails`, `ForceCloseCliConn`), and
`ChkConnTimeout`; the ep thread and the clients act between any two of these.
The kernel is the socket behind each descriptor, the lowest free descriptor for
accept, and the set `ready` of edges not yet reported. A read is one of five:
`ReadNoConn`, `ReadData`, `ReadAgain`, `ReadCloses`, `ReadEof`, by what it finds and by
`m_bChkReadZero`. Data are counted in halves of a message, because an
unfinished message in `m_NetBuffer` is what keeps `m_lastSec` young; halves that
end within the 8 bytes of a header are left to `ConnRecv`.
`m_lastSec` has the four values that the comparisons with 5 and 11 seconds tell
apart; time passes between passes only, as a pass does not wait for anything.
The calls to the gate about each connection are the history `told`. Not
modelled: `m_writeFdMap` (see `ConnSend`), `m_connPidGameMap`, the
names, and the game's own use of `CreateConnBatch` for the net's connection.

### ConnRecv

One connection of a client, and of `NetServer` only the reads: main reads it at
any time. The unit is an int; a message is its size, its msgid and so many ints.
`m_NetBuffer` holds places in the stream the client writes, not what is there:
so that a message handed on can be compared with the one sent, and what the code
takes for a size or a msgid (`IntAt`) can be the int of a body when it reads out
of step. `OnRead` is a read (`ReadData`, `ReadAgain`, `ReadZero`, `ReadFails`) and then
`parseBuff`, unfolded into one `DealMsg` for each whole message and one step that
ends it: `HeaderShort`, `BodyShort`, `TooLarge`, or the assertion of `dealMsg`
(`InvalidMsgid`). `resetBuffer` is in `Returns`. `dealt` and `torn` are history.
`connRpcObj::parseBuff` has the same loop with a header of one int.

### ConnSend

One connection of a client, and of a pass of `queueProcessFun` what is about its
writes: `QuitConn`, `ProcessAllWrite`, the gate's pushes (`SendMsg`) and `EndPass`.
`connObj::send` is `Puts` and then a step for each `write`, `WriteSome` until nothing
is left, `WriteAgain` when the socket is full, or `WriteFails`; the client reads in
between. `Returns` has what the caller does with the result: `processAllWrite` takes
the connection out of `m_writeFdMap`. A byte is its place in what is still owed to the
client, so a run of any length needs finitely many states.

### TcpClient

One `tcpclient`. Calls to the gate are numbers with a size, kept in caches as in
the code; calls from it are two cells each, so that a read can end within one.
A mutex that is released before anything else is waited for makes one step of its
critical section; those held longer follow from the places of the threads: the
writer holds the manager's and the client's in all of `dealSend`, the reader the
manager's from the close of the socket to the `TakeProxy` on the new one, main
`mutexRecv` in all of `handleRpcObj`. `keyed` says that the socket has the
descriptor under which the client was filed; a new socket may have another.
`dead` records a failed assertion, and two places where the code has undefined
behaviour: a cache overrun by the length that `getRpcSize` leaves out (the call is
appended, `used` is beyond `CacheSize`, and what the process does from then on is open, as
`m_offset` itself is overwritten), and the test of a NULL cache (388), which faults or
goes on.
Not modelled: several clients under one manager, the two pools.

## 3. Runs

| Run | Checks | Bounds |
|---|---|---|
| `kcp_tables` | types, `TablesAgree`, `PoolSound`, `BindMatchesPlayers`, `IteratorValid`, `ClosesOnlyItsSession`, `ReapsOnlyExpired`, `ExpiredIsReaped` | 3 objects (2 of them in the first pool), 3 descriptors, 3 sessions |
| `kcp_link` | `NeverStuck`, `AckedIsHeld`, `WholeMessages`, `PipeToServer`, `PipeToClient`, `Delivered` | segments of 2 bytes, windows of 2, refusal above 2 pieces, 1 segment on the way each way; the client writes two messages of 1 or 3 bytes, or the server 1 and then 4 or 6, or each end once |
| `room_frames` | `OverTellsLastFrame`, `FramesAreCuts`, `FollowsClock`, `CaughtUp`, `KeepsOneLog`, `OverEnds` | 2 players, rosters of 2 and 1, tick 2, passes up to 3 apart, clock 5 to 14 modulo 8, 2 commands beside those of the server |
| `game_players` | `PlayersSound` (with the types), `RoomPlayersLive`, `NoBoundLeak`, `FramesReach`, `UsesSessions` | 2 players, 2 pids that either may use, rosters of one and of both, 2 rooms, 2 sessions, 2 descriptors |
| `game_assert` | `RegistrationBinds`, **violated** | same |
| `net_tables` | `NoLostWakeup`, `OpenIsOwned`, `GateToldOnce`, `ClosesItsOwn`, `DataIsRead` | 1 descriptor, 3 connections on it, 2 entries put into the queue by the ep thread, up to a message waiting in the kernel |
| `net_force` | `ForceClosesPid`, **violated** | 2 descriptors, 3 connections |
| `conn_recv` | `StreamSound`, `SmallIsDealt` | a buffer of 5 ints, limit 3, up to 3 messages with bodies of 0, 1 or 3 |
| `conn_header` | `MsgidIsValid`, **violated** | a buffer of 4, 2 messages |
| `conn_send` | `RestSound`, `RestMoves` | a buffer of 3 bytes first, writes of at most 2, a socket of 3, messages of 1, 2 or 4, 6 owed to a client who does not read |
| `client` | `BufferInStep`, `SentInOrder`, `ReceivedInOrder`, `OnlyWriterBlocksItself`, `Reconnects`, `GoesOn` | 3 connections, 2 calls from the gate, one of main and three `TakeProxy` to it, caches of 2 or so |
| `client_cache` | `CachesFit`, **violated** | 2 connections, 1 call from the gate, caches of 2 or so |

The types of `KcpLink`, `Room`, `NetServer` and `TcpClient` are in no run, as they are
theorems (section 4).

Why the bounds are enough for what they look for. The session races need a
victim, a successor that gets the same descriptor and the same object, and a
third session that is neither: three sessions on three objects and three
descriptors have all these, and the pool both runs empty and is refilled. In the room the clock wraps and reads 0 within
the bound, a pass that is 3 late with tick 2 owes one frame and keeps a rest, and
two matches fit on one object; what two players and few commands do not reach is in
`RoomProofs`, where every safety property of the run is proved for any number of them. In the game two sessions are enough for one
object to change hands, and two pids for a player to change his, to take the other's and to
get his own back.
In a session (`MCKcpLink` chooses what the ends write at the beginning, so that one
run has these cases without their product) a window of 2 closes after two pieces, a lost or doubled segment comes
again after the other end has gone on (one on the way each way is enough, as a copy
may stay while both ends go on and a later one be lost instead), a write of 4
bytes after one of 1 fills the last piece and needs two more, one of 6 is refused
after it has filled it; a message of 3 is cut in two, and two of them do not fit into the
window.
A descriptor that is reused while a close for its former owner waits in the
queue needs one descriptor and two connections; the third meets what the first
left behind. A lost edge needs a read that takes a part of what is there. (Two
descriptors at once are in `net_force`.) In `conn_recv` a read of 5 ints ends within a header
and within a body, behind none, one or two whole messages; the limit is below the
buffer's size there so that both refusing and dealing happen; in the code it is
far above it (see below). In `conn_send` a message of 4 bytes does not fit into the first
buffer, after which there is a new one of just the size; writes end because of the
socket and because of `SEND_SIZE`. In `client` a cache is
full after two calls, a call may not fit by the length of its prefix, and the
buffer of the reader holds one call and the beginning of the next; two connections can
end, the second with what the first left behind.
`CHECK_DEADLOCK FALSE` is set for `KcpServer` and `Game` because an aborted
process really stops, for `KcpLink` because everything written may have arrived, for `ConnRecv` and `ConnSend` because the connection may be gone, and for `TcpClient` because it also really blocks (after a
failed write).

### What the violated runs show

- `game_assert`: `setSessid` closes the player's session and then binds the new
  one. If message 2004 is repeated on one session they are the same,
  `BindConn` returns NULL, and `assert(ref)` (`player.cpp:61`) stops the process.

- `net_force`: `connmgr.h:32` declares `DelConn(int pid, ...)`, the definition
  (`connmgr.cpp:124`) looks for a descriptor, and `onForceCloseCliConn` passes a
  pid: another client is closed, or nobody.
- `conn_header`: a header of which only the beginning has come, behind a whole
  message in the same read, is moved to the front and then dropped by
  `resetBuffer`, because `m_ReadOffset` still has its value from before
  (`conn.cpp:362-366`, 139). The stream is read out of step from then on; the run
  goes on to `assert(false)` in `dealMsg`.
- `client_cache`: `AppendSend` compares the room left in a cache with `getRpcSize`, which
  leaves out the 4 bytes of the length (`tcpclient.cpp:364-369`). A call that is shorter than the
  room by less than 4 passes the assertion and is written up to 3 bytes behind the memory of the
  cache, over `m_offset`, which `tcpclient.cpp:404` then asserts to be within it.

Met while modelling, and excluded by the properties that would otherwise fail:
without datagrams there is no sweep of the sessions (`epoll_wait(-1)`,
`sessServer.cpp:497`; `ExpiredIsReaped` assumes traffic); after a failed write the
writer waits for the manager's mutex that it holds itself (`tcpclient.cpp:413`;
`writePc = "del"` in `OnlyWriterBlocksItself` and `Stopped`); a connection to the
gate that ends within a call leaves its beginning in `m_recvBuffer` (`torn` in
`ReceivedInOrder`); after a reconnection on another descriptor the client is not
found any more (`keyed` in `Reconnects`); a connection made after one that was cut within
a call is read out of step, and at a full buffer the reader does not even notice its end
(`tcpclient.cpp:278`; `torn` in `Reconnects`); a client that resets while it is still
in the queue is registered after its close, and never times out because it never
sent anything.

Four more of this kind, each of which the models reach but no run reports, as no comment or
test promises otherwise:

- Nothing removes an entry from `m_pidConn`. One left under an old pid, or that of a player
  whose session was closed, points to a pooled `UDPConn`; when a new client is given that, the
  frames of the room go to him as well.
- A client that sends half a message and closes stays. The end of a stream is an
  empty read after one that found nothing (`m_bChkReadZero`); with the half in the
  buffer the descriptor stays in `m_readFdMap`, `m_lastSec` is set anew in each pass, and
  neither the close that `conn.cpp:169` announces nor the timeout comes.
- A message of more than 4K is never dealt with, nor refused: the buffer fills, every
  read into it returns 0, which counts as data, and the check on 64K (`conn.cpp:374`)
  comes after the one that the body is there. `SmallIsDealt` leaves such messages out
  (`Refused`).
- `send` returns 0 also when its write met `EAGAIN` once more, and `processAllWrite`
  (`connmgr.cpp:189`) then takes the connection out of `m_writeFdMap`: the rest stays until
  the gate pushes something to this client again, which `RestMoves` assumes.

### Fairness

`KcpServer!Fairness`: the main thread releases the mutex again and again (it sleeps
between updates), so the ep thread's steps that need it are strongly fair; steps
inside a critical section and the clock are weakly fair. Arrival of datagrams is
not fair; `TrafficSpec` adds it, for `ExpiredIsReaped`. Accepting is never
fair. `KcpLink!FairSpec`: the main thread goes on (`ServerNoFlush`), the client flushes again
and again (`ClientSends`), and the network does not drop for ever what it is given
over and over: the client's first outstanding piece or its question
(`ServerHears`), and an answer of the server that is up to date (`ServerSends`,
`ClientHears`). `Delivered` assumes besides that datagrams keep coming, for nothing is
taken without one (`m_bread`), and that copies of old answers run out: with
two segments on the way to the client and no such assumption TLC shows a copy
of an old acknowledgement closing the window again after every answer. `Room!FairSpec`: the main loop goes round (`Advance`, `Update`); no handler is
fair, because nobody has to call. `OverEnds` excludes ends asked for too close
to the bound on the clock, and those (not forced) of a room that was never made
ready or has nobody in it, which in the code never end. `NetServer!FairSpec`:
both threads go on; no client and no gate has to do anything. `TcpClient!FairSpec`: the threads go on, the
reader gets `mutexRecv` in the end for a call that begins where one should (main sleeps
between two rounds; where none begins, the length that stands there may stop the reader each
time), a gate that stopped is started again, and a gate that is up reads: `dosend` repeats a
write that meets `EAGAIN` for ever, with two mutexes held (`recvBuff.cpp:413-438`); main need
not call. `ConnRecv!FairSpec`: both threads go on and TCP brings what
was written; the client need not send. `ConnSend!FairSpec`: both threads go on and
the client reads; `PushSpec` adds, for `RestMoves`, a gate that never stops pushing
to him.

## 4. Proofs

### KcpServerProofs

For any sets of objects, any numbers of descriptors and sessions, every safety
property of `kcp_tables` is proved of `Spec`. The assumption is
`ConnsAssumption`: the initial pool holds each object once.

The properties are not inductive on their own. `IInv` adds what the steps rely
on: the descriptors still to be reaped belong to sessions that were expired
when they were collected (or were closed, and not yet given to anybody else:
while the sweep drains its queue nothing is accepted, as both are work of one
thread), how the session in `closing` and its object are related, how
the cursor moves, that a session number is used once. The first half of the module
shows for each operation on the tables what it does point by point and that it
keeps `Agree` and `Sound`; the second half has one lemma per action and
conjunct. `ClosesOnlyItsSession` and `ReapsOnlyExpired` are then read off the
invariant.

### KcpLinkProofs

For any size of segments, windows, writes and messages, any number of segments on
the way, and either mode at either end, `TypeOK`, `AckedIsHeld`, `WholeMessages` and both
refinements, `PipeToServer` and `PipeToClient`, are proved of `Spec`. The assumptions are
`IkcpAssumption` (sizes are positive) and `LinkAssumption`. `WindowsKept` and `NeverStuck`
are proved as well. `WindowsKept`, as `TypeOK`, is in no run: the theorem
`SessionWindows` is what is known of it.

The invariant is one formula for one direction, `Link`, taken twice. Its parts are
what each piece of data may rely on: `Sent` (what the sender holds is what it
numbered), `Arrived` (what the receiver has is what was numbered, each in its place,
and what it is about to acknowledge it has), `Acked` (what the sender has let go of the
receiver has), `DataSound` and `AcksSound` (the same of segments on the way, old
copies included), `Written` (numbered and waiting pieces are the bytes written, in a
row) and `Taken` (what was taken is the numbered pieces before the queue). The key is
that `Held` is monotone: a receiver never gets behind (`AheadHolds`), so an
acknowledgement once true stays true however late it comes. Part 1 states for
each function of `ikcp.c` what it does to a control block, piece by piece; Part 2 first
shows what each of them does to a `Link`, for either end, and then takes the actions
one by one, each of which is some of these at one end and nothing at the other;
Part 3 has the theorems that follow.

`WholeMessages`, in Part 4, is about the client's direction, where one message of KCP is one
`Write`. Its invariant, `MInv`, says of the client's pieces, all that were ever
numbered and those that wait, in a row, that they can be cut into messages (`Cuts`):
each message is a run of pieces whose `frg` counts down to 0 and whose
bytes are one write, the next one's begin where they end. The server only ever takes
such a run: what it has taken ends at a cut (`Heard`), the queue goes on from there,
and `ikcp_recv` takes as many pieces as `frg` of the first one says, which is where the
cut is. A call of `ikcp_send` that is refused whole writes nothing, so it makes no
message.

`WindowsKept`, in Part 5, is what makes the unbounded numbers of the model faithful to
the 32 bits of the code, which compares them by their difference: those in use
are within `snd_wnd + rcv_wnd` of each other. Its invariant `Kept` is of one control block
and says what each buffer holds and where its numbers lie; `ikcp_input` drops what is
outside the window, and `ikcp_flush` numbers no piece beyond the smaller of the two.

`NeverStuck`, in Part 6, is the safety half of `Delivered`, in both directions. Suppose
that the writer has nothing urgent to send. Then nothing it numbered is out, as
the first piece out would go again, and nothing waits for a number, as it would get one
or the window be asked for (`Silent`). So all of it is acknowledged, and by `Acked` the
receiver has it, in its queue or, when that is full, waiting for room there (`AllWaits`);
the queue is not empty, as not all was taken. In message mode it begins where a
message begins, and ends at or after that message's end unless it is full (`FrontWhole`);
in stream mode every piece is a message, as its `frg` is 0 (`FInv`). The case that is left, a queue
full with a part of one message, is real, and the property names it (`TooLong`):
`ikcp_send` refuses messages of more than 255 pieces, not those of more than `rcv_wnd`,
which is 128, and one of these blocks its session for good.

### GameProofs

For any players, pids, rooms, rosters, objects and sessions that satisfy
`ConnsAssumption` and `GameAssumption`, the refinement `UsesSessions` and every invariant of
`game_players` (`PlayersSound`, `RoomPlayersLive`, `NoBoundLeak`, `FramesReach`) are proved of
`GameSpec`.

`GInv` is `IInv` of `KcpServerProofs`, which comes for nothing once each step is seen to be a
step of `KcpServer` or none, and beside the properties

- `Filed`: `PlayersSound`, and who is registered has a pid, and what is in the pool was a
  player's once. That an entry of `m_pidPMap` finds somebody who has that pid is kept although
  entries are overwritten and erased by players who are not the ones found there, because
  who changes his pid or is removed erases the entry under his old one, whoever's it is;
- `SessionsBound`: a session that a player has, or had, was bound, so it is numbered
  already and no new connection gets its number: the ep thread can only take its
  entry out of the table, never put another object there;
- `OneRoom`: nobody is in two rooms, so what one `RawOver` removes no other room holds;
- `TodoInv`: while players are taken offline no walk over the sessions begins, and those
  whom `RawOver` is to remove are in no room, so they are not given a session meanwhile;
- `CurrentInv`: while `closeConn` is under way it is for the session of `current`, and the entry
  is the connection it looked up until it is erased. This is why a player has no
  open session left when he is removed (`NoBoundLeak`).

Part 2 says of each operation of `playerMgr` what it does to each field, Part 3 that it keeps
`Filed`. In `Reg` the order matters: the player gets his new pid, his old session is closed
and the new one bound, and only then is the connection entry filled, under the new pid
and with the object of the new session (`FramesReach`). Whoever had that pid before is not
found under it from then on, so nothing is promised of him.

### RoomProofs

For any players, rosters, frame length, width of the clock and bounds that
satisfy `RoomAssumption` (players are finitely many positive numbers, and two
passes of the loop are less than a period of the clock apart, `MaxGap < MsMod`;
the real period is 2^32 ms), every property of `room_frames` but the liveness is proved of
`Spec`, the refinement `KeepsOneLog` and the types included, and one more: a forced end
makes no more frames (`ForcedEndIsImmediate`).

`RInv` is the inductive invariant. Beside the properties themselves it has

- `LoopInv`: in a pass of `Update` the room is live and not told to end, so the
  frames it cuts belong to it;
- `CutsBounded`: a frame never ends after commands that do not exist yet. Without
  it `FramesAreCuts` is not kept by the next command, which extends the sequence
  the frames are slices of; with it, the lemmas `SliceKept` and `SliceGrows` say
  that old frames do not change and only the pending slice grows;
- `ClockInv`: once the room counts it goes on at every pass, so at most one pass
  lies between the clock and the time counted last. This is what makes
  `ms - m_lastMs` right across a wrap: `ReadingsDiffer` says that the
  difference of two readings modulo the period is the time between them when
  it is shorter than a period;
- `SyncInv`: a player is in step with the broadcast only while his session is
  open, and whoever has a session has an entry in `m_pidConn`, so a frame that
  is made reaches him.

The proof takes one invariant at a time, action by action. `StepKinds` sorts the
actions by what they are to the record (a start, a command, a frame, an end, or
quiet), and both the invariants and the refinement follow that sorting:
`NewRoom` maps to `Start`, the handlers that append a command to `Accept`,
`EmitFrame` to `Seal`, messages 2002 and 2003 to `Fetch`, both ends to
`Close`, and the rest to a stutter.

### NetServerProofs

For any number of descriptors, clients, queue entries and messages, `TypeOK`,
`OpenIsOwned`, `GateToldOnce` and `ClosesItsOwn` are proved of `Spec`; so is
`NoLostWakeup`, the safety half of `DataIsRead`: as long as data wait, something that
will lead main to them exists. The assumption is `NetServerAssumption` (the bounds are
numbers). `net_tables` has one descriptor and three clients on it; with two
and more, only the proofs speak.

`IInv` adds to the properties

- `Capacity`: every client that has not got a pid yet will find one below the bound;
- `QuitNamesOwner`: an entry that main put in to close a connection names the owner
  of its descriptor as long as that has one. A descriptor can lose its owner while the
  entry waits, but it gets a new one only in `Drain`, after the entry was handled;
  `ClosesItsOwn` is this together with `Forth`; of an entry by the ep thread, which names no
  owner, it says only that it takes the client who has the descriptor;
- `Gone`: a socket that was reset has nothing left to read, so an event with `hup`,
  which becomes a QUIT_CONN, never carries the only trace of data;
- `Quiet`: `delLst` is empty outside the reads, so what `Drain` puts into
  `m_readFdMap` is not struck off by an older pass;
- `DataHeld`: data wait with an edge, an event or a DATA_IN, and only those of a
  registered connection with a place in `m_readFdMap` alone. Without this difference
  `ReadNoConn`, which strikes off a descriptor accepted but not yet registered, would
  lose its data.

`OpenIsOwned` is proved in its five clauses. The pids of a batch are counted off in
`Born`; `RankBounds`, `RankOnce` and `RankOnto` show that counting gives each new
connection one pid and leaves no gap. `PassiveSteps` sorts out the steps that
open, close and name nothing; what is left is `AcceptTables`, `DelConnTables` (a close
by pid or by descriptor takes both entries or none, `ClosedPids`) and `DrainTables`.

### TcpClientProofs

For any sizes of caches, calls and buffers and any bounds on calls and connections,
the safety properties of `client` are proved of `Spec`, `BufferInStep`, `SentInOrder`,
`ReceivedInOrder` and `OnlyWriterBlocksItself`, and its types. The assumption is `TcpClientAssumption`.

`OnlyWriterBlocksItself` needs only `MgrInv`: the manager's mutex is with one thread.
The rest is a case analysis on where the writer is. `Counts` bounds the calls: a
connection comes after one that ended and brings one call of its own.

`SentInOrder` is `SentInv`. `Chain` says of the queue of caches and the cache being filled that
they hold one run of calls, `Out + 1` to `appended`; a lemma for each thing that is done
to them (`ChainCall`, `ChainQueue`, `ChainTail`, `ChainPart`) says which run it is then,
and `ChainOut` that there is no choice about `Out`. `Streams` says the same of what
was written or lost, and `Current`, which is not in the property, that the stream of a
connection that is up ends with `Out`. Without it the next write could leave a gap.

`ReceivedInOrder` is `RecvInv`, with `Came` for the calls that are queued or run,
`Aligned` for the cells ahead of them and `Covers` for how many these are. That nothing was sent and
nothing is left to read between the close and the next `TakeProxy` is what makes the
new connection begin with the next call. Reading and handling only move the place
where the sequence is cut (`ReadKeeps`, `HandleKeeps`).

`BufferInStep` needs beside these only `Dealt`: the reader stops dealing with calls when no
whole one is left. It can stop for another reason, that what stands first is no length, but
not while `RecvInv` holds (`BeginsWithLength`). So nothing but a connection that ended
within a call (`torn`) brings `decodeBuffer`'s assertion to fail or the buffer to be full.

### ConnSendProofs

For any sizes of buffers, sockets and messages, `RestSound`, that is `TypeOK` and
`RestIsOwed`, is proved of `Spec`. The assumption is `ConnSendAssumption`. The two are
inductive together: that
the rest lies within the memory, and that it is what is owed, need each other
(`Puts` copies it, a write takes its first bytes). `PutsKeeps` has the two ways of
putting bytes behind the rest, `WriteKeeps` the two ends of a write.

### ConnRecvProofs

For any sizes of the buffer, the messages and the reads, `StreamSound`, that is `TypeOK`,
`DealtInOrder` and `RoomForRest`, is proved of `Spec`. The assumption is `ConnRecvAssumption`. The
invariant adds `Tiled`, of the client (his messages lie one behind the other and leave
no place out, so `Message` finds the one a place belongs to), and `Parsed`: unless a part of a
message was dropped, the buffer holds the last places read, in a row, and the place
`parseBuff` looks at next is the one where the next message begins. `StandsAtMessage` is
the step from there: the int it takes for the size is that message's size. The
case in which `HeaderShort` drops the beginning of a header is in the model and sets
`torn`; that it happens is what `conn_header` shows. `RoomForRest`, the safety half of
`SmallIsDealt`, is kept by the returns of `parseBuff` (`ReturnsLeaveRoom`): with less than a header
left by its length, with a header by the size that stands there. It says which
messages can fill the buffer, those that are refused (`Refused`), and that nothing else
is in it then.

### What is only model-checked

Liveness (`ExpiredIsReaped`, `Delivered`, `OverEnds`, `DataIsRead`, `Reconnects`,
`GoesOn`, `SmallIsDealt`, `RestMoves`), which is out of the prover's reach. Every invariant
and every other action property of a passing run is a theorem.

## 5. What is not modelled, and the plan

Not modelled for good: `core/pb` (generated: 143 of the 150 thousand lines), the
demonstrations `epoll.c` and `kcpsess/ep_server.cpp`, configuration and counters,
start-up and shutdown.

The order was: the session table first (the only state two threads of the game
share), then the frame engine (what the server is for), then their composition.
Still to come, in this order:

1. `Game`: the gate's `EnterP`, with a player in two rooms (`OneRoom` no longer holds then).
2. `KcpAccept` (`sessServer.cpp:367-433`): the edge-triggered listening socket, and two
   datagrams of one client queued there, which become two sessions.
3. `FramePool` (`room.cpp:386-459`): ownership of the protobuf messages, with
   frames and commands recycled through two pools, what is pending when a match ends,
   and the frames that message 2002 takes from the pool.
4. The game's side of the net's connection (`connRpcObj`): `m_inst` and its two
   queues of caches, with `DelConn` from the net.

Theorems worth proving next: the safety halves of the liveness properties, as
`NoLostWakeup` is of `DataIsRead`, `NeverStuck` of `Delivered` and `RoomForRest` of `SmallIsDealt`:
that a session that was never registered is always in the way of a sweep
(`ExpiredIsReaped`).

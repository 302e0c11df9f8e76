# go-CFC in TLA+

A verification project for go-CFC: a proxy server, the client library that
links devices to it, and the protocol between them.  It holds TLA+ modules of
the parts that run concurrently, TLC configurations that check them on small
instances, and proofs, checked by TLAPS, of the results that should hold for
every size.  Paths below are relative to the repository.

## 1. The system

A *device* links to the *proxy server* with `client.LinkProxyServer`; the
result is a `DeviceBox` with a name.  A device that knows another's name asks
the server for a *sub* connection to it.  The server opens a *task room* and
tells the other device; both dial the server again, join the room, and the
server links the two connections and relays between them.  Instead of relaying,
two devices may punch a TCP or a UDP hole.  Everything before the relay is
spoken in encrypted, packetised messages (`ConnMsg`).

| Component | State it keeps | Operations | Talks to |
|---|---|---|---|
| Proxy server (`server/proxy*.go`) | `proxyClientMap` and its mutex, `proxyTaskRoomMap`, `proxyUP2PMap`; per connection `disable`, `closerOnce`, `step`, `name`, `parent`, `subMap`, `linkConn`, `linkSwitch` | accept, handshake Q1/Q2, SOpenQ, TaskQ, P2PUdpQ1, ping, delay, speed; `close`, `ProxyServer.Close`, gcTask | boxes and subs over TCP, hole punchers over UDP |
| Relay (`proxy.go` tcpHandler, `tool/linkBox.go`) | `linkSwitch`, `linkBox` of two connections | switch, ReadLinkBoxToWriter, WriteLinkBoxFromReader | the two subs |
| Speed ticker (`tool/speed.go`) | second, running count, last full count, two mutexes | Set, Get | every Read and Write of every connection |
| Device box (`client/client.go`, `client_box.go`) | `subListen`, `subListenStop`, `stop`, `isListen`, `subMap` and its mutex, `disable`, `closerOnce` | ListenSubBox, ListenSubBoxOnce, GetSubBox, Wait, Close; reader and pinger | the server; the application |
| Request table (`tool/cMsgTask.go`) | `taskMap`, per task `wait`, `disable`, `stop` | WaitCb, NowaitCb, OverTask, the reader's getTaskAndRun | the box that owns it |
| Messages (`tool/cMsgCrypto.go`, `cMsgRead.go`) | the write lock, the reader's `bufio.Reader` | Encode, WriteCMsg, ReadCMsg, ReadCMsgCb | every connection |
| UDP hole punching (`client/client_up2p.go`, `server/proxy_p2p.go`) | session: `step`, `c1`, `c2`, addresses; client: `stop`, `timeout` | offer, pair, answer, handshakeUP2P | box readers, the network |
| TCP hole punching (`client/client_p2p.go`) | none of its own | GetSubBoxByP2P | box, network |
| VPN link (`client/client_vpn.go`, `server/proxy_vpn.go`) | `LinkClient`: two connections, `disable`, `stop` | LinkOtherConn, Close, Wait | server, a third host |
| Log broadcast (`complexRW/rw.go`, `loger`) | listeners, a queue | Write, SetListener, DelListener, Close | everything |
| Close helpers (`tool/cw.go`, `cc.go`) | a list of functions, a Once | AddCloseFn, Close, Wait | server |

What is hard here: every object can be closed by any goroutine, closes run
other closes inside `sync.Once` bodies, two mutexes (registry and subMap) are
held across them; one reader goroutine per connection runs callbacks that send
into channels; stop signals are single tokens which each receiver puts back;
connections change from messages to raw bytes while somebody is reading; UDP
loses and repeats; requests time out while their answers are on the way.

What makes each part correct:

- *server*: a live registered client is the one its name leads to; nothing
  closed stays registered; no sub outlives its parent; a room links exactly
  two; no two closes wait for each other; every handler and Close itself end;
- *relay*: payload is never parsed as a request; each direction is a pipe:
  in order, nothing twice, losses only at the ends;
- *ticker*: no byte is lost or counted in another second; nobody blocks;
- *box*: every sub is in the end the application's or closed; Close, Wait and
  the listeners return;
- *request table*: an awaited answer finds its callback; every call returns;
  nothing is left behind; no caller holds up the reader;
- *messages*: what comes out is what was written, whole and in order;
- *dialing*: both applications are given their ends of one link or neither is;
  a dial needs no timeout unless boxes dial in a circle, and none lasts for ever;
- *VPN link*: a pipe each way; a call that failed has sent nothing; every
  socket is closed and Wait returns when either end is gone;
- *hole punching*: nobody is paired with itself or fooled by old datagrams; a
  side that succeeds has given the other its chance; every call returns.

`PROJECT.json` lists the hazards line by line with the properties that watch
them.

## 2. Modules

| Module | Models | Notes |
|---|---|---|
| `ProxyServer` | connections, registry, rooms, shutdown | 21 variables, one action per step visible to others |
| `NameTable` | what the registry promises | abstract specification, implemented by `ProxyServer` |
| `ProxyServerInv` | - | the inductive invariant, `ServerInv`, in named parts |
| `MCProxyServer` | - | symmetry sets; `RoomInit`, a start with open rooms |
| `ProxyServerProofs` | - | theorems about `ProxyServer` |
| `LinkPipe` | what two linked SubBoxes promise | abstract specification |
| `LinkRelay`, `LinkRelayProofs` | both handshakes, the switch, the relay loops | implements `LinkPipe`; theorems |
| `MCLinkRelay` | - | `ParkedInit`: the first handler already waits for its next message |
| `SpeedTicker`, `ConnProofs` | Set and Get lock by lock | theorems |
| `DeviceBox`, `DeviceBoxProofs` | the box's goroutines, its channels and its Close | theorems |
| `SubDial`, `SubDialProofs` | dials between several boxes through one server | composes GetSubBox, the push and the task room; theorems |
| `MCSubDial` | - | who dials whom in the runs |
| `VpnLink`, `VpnLinkProofs` | a LinkClient, the server's side of it, the application and the third host | implements `LinkPipe`; theorems |
| `TaskCb`, `TaskCbProofs` | requests, the reader, the table between them | theorems |
| `CMsgStream`, `ConnProofs` | packets of many writers, one reader | theorems; `ConnProofs` has those of the two parts every connection has |
| `UdpPunch`, `UdpPunchProofs` | two clients, the server's session, UDP | theorems |

Each module is about one component and abstracts the others to what it can see
of them.  They meet as follows: `ProxyServer` ends where two handlers have been
linked, which is where `LinkRelay` starts its relay; `DeviceBox` takes opening
a sub as one step, of which `LinkRelay` shows the handshake between two subs and
`SubDial` what several boxes' dials do to each other; `VpnLink` has the other
kind of link the server makes, to a socket of its own; `TaskCb` is the
table on the box's reader, into which `UdpPunch` stores the callback of an
answer; `CMsgStream` gives both the reader's view of whole messages; 
`SpeedTicker` sits below all Reads and Writes.

### ProxyServer

`Conn` is the accepted connections: `Boxes` register, `Subs` open with TaskQ.
`pc[c]` is the place of c's handler (tcpHandler and the cMsg functions), and
`closer[c]` how far the body of `c.close()` has got.  The body of a
`sync.Once` is a process of its own: the first caller starts it, every caller
waits in `pc = "wait"` for it to end, `waits[c]` says for whose and `ret[c]`
where it goes on.  Which caller's goroutine runs the body changes no
interleaving.  A write is `Write(c, x, l)`: it succeeds or, as
writeCMsgAndCheck does, closes x.  A failed read, a deadline and a closed socket
are `HandlerExit`.  Mutexes are variables that hold their owner.  `subMap`
changes and lookups that the code makes under the mutex are single steps when
nothing else can be observed in between.

Bounds and simplifications: a room id is used once (`created`); a sub sends one
TaskQ, as the clients do.  One guard of the model is an assumption about the
client and not in the code: `~disable[c]` in `HandshakeQ2` and `HandshakeNoName`.
The client sends Q2 only after it has read A1 (`handshakeCheck` in
`client/client_box.go`), so the server's write of A1 has not failed, and until
it has a name nothing but such a failure closes a connection whose handler is at
its read.  The server itself does not look at the flag: a peer that sends Q2
without waiting for A1 could be registered when its connection has been closed
already, and would stay in the registry.  No client in the repository does
that, and the properties of the registry are stated for those that do not.

### NameTable

A name has at most one holder, a client is stored under its name only while the
name is free and leaves when its own end takes it out.  The holder `NameTable`
sees is the registry entry; the delete of the code is by name and could take
out somebody else, which is what the refinement `RegistryIsNameTable` excludes.

### LinkPipe and LinkRelay

`LinkRelay` has the server's two handlers, the two `SubBox` clients and the TCP
streams between them; messages are numbered.  The close of the pair is one step
(its order is `ProxyServer`'s subject).  The refinement mapping puts the four
stream segments of a direction together: what the writer's socket, the server's
`bufio.Reader`, the relay buffer and the reader's socket hold, in this order,
is `LinkPipe`'s `pipe`.  `LinkPipe` lets a handshake swallow the front of a pipe
and a break lose its tail; that it must allow the first is what
`RelayTestSub.cfg` shows.

### SpeedTicker

One action per lock operation and access of Set and Get.  The clock is an
integer of seconds that may advance at any moment up to `MaxNow`.

### DeviceBox

Threads are the reader, the pinger, hole punchers, listeners, accepters,
waiters, dialers and closers.  A channel without a buffer is a rendezvous, one
step of two goroutines; the stop error on such a channel goes to anyone who
waits for it, an accepter or an opener with a sub in hand (`TakesStop`).  `mode`
says who made the listen channels.  Close is the
Once body `closing`, as above; it holds `subMapLock` from `BodyLock` on.

### SubDial

`case` is chosen once: who dials whom, and what may happen ("patient" has no
timer and no failure, "timers" lets every wait of ten seconds end, "faults" has
besides these lost connections, failed connects, applications that close, and
the collector).  `request`, `pushed` and `inbox` are the server's handler and the
messages of a box's own connection, in order; `reader[b]` is the dial b's reader
is joining, while it reads nothing.  Per dial and side, `end` is the client's sub,
`srv` the server's handler of it and `told` the TaskA sent.  Joining and linking
are one step each, their inner races being `ProxyServer`'s; the deadline lifted
after the link is part of `JoinSecond`.  A link made to a sub closed earlier is
"stale".  Of the relay only this is here: an application need not read its sub,
and the handler that writes to it then stands in its write, without a deadline
and reading nothing (`Stall`, srv "stuck"), until the partner reads on (`Drain`),
leaves (`StuckFails`) or a connection breaks (`SubLost`).

### VpnLink

Three connections in a row (application and client, client and server, server
and third host), a pipe segment for each in each direction; `Direct` leaves out
the server.  One process each for the caller of
LinkOtherConn, the copy loop, the reader, the server's handler and its relay.  A
socket holds a bounded number of messages, so that writes may block, and a write
to a socket whose other end has left may fail or vanish.  The refinement mapping
concatenates the segments of a direction, without ConnVPNQ1 and ConnVPNA1, into
`LinkPipe`'s `pipe`.  `Expire` is the deadline set by tcpHandler, which nothing
lifts for such a link.

### TaskCb

`pc[t]` is the call (WaitCb for `Waiting`, NowaitCb for `Pinging`), `reader`
the one reader; ids are the requests themselves, `NoTask` the empty id of
pushes.  `Timeout` may fire at any moment of the select.  `task.stop` is only
written after the select that reads it, so it is left out.  Two things run on the
reader that may not return: the callback of handleUP2P, for the requests in
`Offering`, which sends into a channel nobody may be receiving from (reader
"stop"), and noCbFn, which for a push dials, shakes hands and waits for the
application to take the sub (reader "push").  What ends them, `StopTaken` and
`PushHandled`, is an action without fairness, so both may last for ever.

### CMsgStream

A message is a writer, a number and a length; `Packets` is Encode and
assemblyBytes over lengths.  A packet carries what the reader tests: its number,
its length, whether it is whole.  `Decodes` is AES-GCM: only one message's whole
bytes pass.  `WriteFails` leaves nothing or a torn packet, and the connection
may live on, as after an expired write deadline.  In a torn packet the reader
waits for the bytes that are missing (`Await`); they are taken from what is written
behind it, and then fail its hash (`TornRefused`).  How many are missing is not
modelled: the reader may be refused as soon as anything has come, and must be
only when a whole packet's worth has (`Suffices`).  `GoOn` is what the callback of
ReadCMsgCb may answer; all other readers never stop, which is `{TRUE}`.

### UdpPunch

A side is the address of its socket, which the server is taken to see the same
in each offer of a side (a NAT that gave one socket two addresses towards one
server would be taken for two sides). The server records the address of the
first offer and of the next one from another address, and sends those. `udp` is
the set of datagrams ever sent, which gives loss, duplication and reordering;
it starts with strays of other sessions. Timers have only their order: a timer
of a select fires whenever the other branch is not ready, and the callback is
stored before the first offer, one second away. `break` in the two selects
leaves the select only, which is what Go does with it. The model ends where
handshakeUP2P does ("punched"); the kcp session that follows, with the loop
over AcceptKCP, is not in it.

## 3. What the runs check

All runs are in `PROJECT.json` with their properties; each passing property has
a mutant, a small change of one action such as a dropped check, that TLC
finds to violate it.

| Run | Instance | Shows |
|---|---|---|
| server_clients | 2 boxes, 2 names, shutdown | the registry implements `NameTable`; a displaced client's delete never hits its successor; Close leaves the registry empty |
| server_attach | 1 box, 1 sub, 1 room | no sub outlives its parent; handlers and Close return |
| server_room | 3 subs, 1 open room | exactly two are linked, to each other; no mutual wait; handlers return, a close reaches the other end |
| relay | 2 messages each way | the relay implements `LinkPipe`; payload is never parsed; what is written after both handshakes arrives |
| speed_accounting | 2 writers, 2 readers, 5 seconds | exact counts, whole seconds |
| box | reader, hole puncher, listener, a waiter that also dials, a goroutine that accepts or closes; 2 subs, a queue of 1 | no sub outlives its box unowned; every waiter returns; Close, the listener it found and the reader end |
| subdial | 3 boxes; every shape of 3 dials without a circle, an unknown name, two dials with timers in a circle, to oneself and to one box, one dial with faults | two applications given their ends were given a working link; dials succeed with no timer or return by it; readers read on; a live link ends on both sides, unless the handler of the closed one is stuck in a write |
| vpn | a link through the server and a direct one, 1 message there and 2 back, sockets that hold 1, hang-ups, the server's deadline and one call of Close, WriteToLinkConn or SetDeadline at any moment | the link implements `LinkPipe`; a failed call has sent nothing; every socket is closed and Wait returns |
| task | 2 WaitCb, one of them handleUP2P's, 1 push | answers find callers, nil means answered, nothing left; calls return; the reader takes every message, unless it is for ever in handleUP2P's callback or in noCbFn |
| stream | 2 writers, 1 message each, lengths around the packet size | whole messages in order; bad and torn packets only after failed writes; what was written arrives, unless the reader waits in a torn packet that nothing completes |
| punch | 2 sides, 3 tries | the two recorded addresses are of two sides, old datagrams fool nobody, both sides get their chance; the call returns |

One run finds the code at odds with what is said of it: `speed_obtained`, in
which Set and Get take the ticker's two mutexes in opposite orders and both stop
for ever.

### Further configurations

These are not runs of `PROJECT.json`; start them by hand
(`tlc -config X.cfg M`).  The first are larger instances, or check the type
invariant and the safety properties without fairness; TLC finishes them without
an error:

| Configuration | Module | Instance |
|---|---|---|
| `ServerSubs.cfg` | `MCProxyServer` | 1 box, 2 subs, 1 room from the start: types, no dead entry, no orphan sub, no mutual wait (3.4 million states) |
| `StreamSafety.cfg` | `CMsgStream` | 2 writers, 2 messages each of 1 or 2 packets (2.3 million states) |
| `TaskSafety.cfg` | `TaskCb` | the instance of task with 1 NowaitCb beside it (1.3 million states) |
| `BoxSafety.cfg` | `DeviceBox` | all kinds of goroutine at once, 2 subs |
| `RelaySafety.cfg` | `LinkRelay` | types, and both safety properties of relay |
| `SubDialSafety.cfg` | `MCSubDial` | types, and both ends given only of a link |
| `VpnSafety.cfg` | `VpnLink` | 2 messages each way: types, the pipe, a failed call has sent nothing (639 thousand states) |

The others state what one would like to hold and does not; each ends in a
counterexample, which marks where the properties of the runs have to stop:

| Configuration | Module | Property | What happens |
|---|---|---|---|
| `ServerGc.cfg` | `MCProxyServer` | ExpiredRoomsCollected | gcTask (`server/proxy.go:59`) collects once; rooms that expire later stay |
| `RelayBuffer.cfg` | `MCLinkRelay` | RelayHasBuffer | `linkSwitch` is visible before `linkBox` (`server/proxy_client.go:129`): nil dereference in the server |
| `RelayTestSub.cfg` | `MCLinkRelay` | TestSub | the first bytes after a dial are lost in the other side's handshake buffer (`client/client_sub.go:40`) |
| `BoxRelink.cfg` | `DeviceBox` | RelinkAfterLoss | ListenSubBox called after the box has closed never returns (`client/client.go:146`) |
| `BoxAcceptClose.cfg` | `DeviceBox` | BoxCloses | Close hangs on an unbuffered channel (`client/client.go:223`) when the box is used with ListenSubBoxOnce |
| `SubDialCross.cfg` | `MCSubDial` | CrossDialsSucceed | two boxes that dial each other at the same moment stand still until a timeout: each reader waits in a handshake (`client/client_box.go:118`) for a partner that reads nothing |
| `SubDialStale.cfg` | `MCSubDial` | AloneEnds | the second sub is linked to a first that has closed already (`server/proxy_task.go:45`); nothing but a write of its own ever tells it |
| `VpnDirect.cfg` | `VpnLink` | NoPanic | Close of a direct link dereferences `taskCbCtx`, which only proxyConn sets (`client/client_vpn.go:88`) |
| `VpnDeadline.cfg` | `VpnLink` | EndedByItsUsers | the ping deadline (`server/proxy.go:114`) ends a link both users want |
| `VpnStalled.cfg` | `VpnLink` | WaitReturns | an application that stops reading without closing keeps the reader in a write (`client/client_vpn.go:228`), and Wait with it |
| `PunchReader.cfg` | `UdpPunch` | ReaderGoesOn | a late P2PUdpA1 blocks the box's reader for ever (`client/client_up2p.go:143`) |
| `StreamCalls.cfg` | `CMsgStream` | Intact | ReadCMsgCb drops the messages it has read ahead (`client/client_sub.go:300`) |
| `StreamTorn.cfg` | `CMsgStream` | NoMessageHeldUp | the reader waits in a torn packet (`tool/cMsgRead.go:97`) with a whole message behind it, too short to fill it |
| `SubDialStuck.cfg` | `MCSubDial` | EndsAnyway | a relay that writes to an application that does not read (`tool/linkBox.go:98`) has no deadline and reads no end: the link stays when the other application has closed |

### Why the bounds are enough

Races over a name need a holder and a newcomer. A room has two places, so three
subs contain every overtaking. Closes form chains of parent, sub and linked
sub, which one box and one or two subs already have: the registry, the
attachment and the room are checked apart, and `ServerSubs.cfg` has them
together. The relay moves one buffer at a time, so two messages give each
segment a full and an empty neighbour. The ticker tells apart gaps of one, two
and more seconds, five seconds hold one of each. Box goroutines of a kind
compete for one token or one rendezvous; the run has one that may play each
part, with two subs for a queue of one so that the queue is full, and
`BoxSafety.cfg` has all kinds at once. A circle of dials has its whole
difficulty with two boxes (each reader waits for the other) or one; chains
without a circle need three boxes for a reader that waits for one that waits,
and three dials for a second push behind the first. Faults are about the two
ends of one room and are checked on one dial. A VPN link has sockets that hold
one message and a target that writes two, so that each writer blocks, and each
segment is seen empty, full and broken. The framing arithmetic is checked with
four bytes of data per packet on lengths of 1, 4, 5, 8 and 9. The theorems of
section 4 need none of these bounds.

### Fairness

Liveness is checked under fairness of goroutines only. A goroutine that can go
on does (weak fairness); one waiting for a mutex or a channel others use too is
served in the end (strong fairness): Go's mutexes hand over to a waiter after a
millisecond, and channels queue their waiters in order. Timers fire. Where a
channel has one receiver, or no step can be repeated for ever, weak fairness of
all steps together says the same and is what `DeviceBox` (per goroutine) and
`SubDial` (for the whole) use. In `VpnLink` the properties that need it,
`SocketsClose` and `WaitReturns`, are checked under `ReadingSpec`, by which the
application and the third host go on reading what they are sent until they
leave; the code has no limit for a peer that does neither. `SubDial` assumes no
such thing of its applications: a handler is promised the end of its connection
only while it is at its read. `TaskCb` assumes nothing of whom the reader waits
for in its callbacks, and `CMsgStream` lets the reader stay in a torn packet
until enough has come behind it. Nothing else is assumed of messages, of the
peer, of the application's calls, or of the network; a handler reading from a
socket that has been closed is promised its error.

`CHECK_DEADLOCK FALSE` is set where the modelled goroutines may all have
returned; `ProxyServer` instead has a `Terminated` step for exactly that state,
so that TLC's deadlock check stays on.

## 4. What is proved

For every set of boxes, subs, names and rooms (`ProxyServerProofs`):
`TypeCorrect`, `LiveClientRegistered`, `NoDeadEntryKept`, `NoOrphans`,
`NoMutualWaiting`, `LinksPaired`, `CloseLeavesNobody`, `RegistryRefines`.
Assumed is
`DisjointAssumption`: the kinds of names are disjoint and `Nil` is none of them.

All follow from one inductive invariant, `ServerInv` (module
`ProxyServerInv`), a conjunction of parts:

- `PlaceInv`: which connections are at which places and that their locals are
  set there;
- `CloserInv`: disabled from the first step of close on; the close holds
  subMapLock from the range to the end, after which subMap is empty;
- `SubInv`: a sub that names a parent is disabled or in the parent's subMap,
  the strengthening that makes "no orphan" inductive;
- `RoomInv`: who holds a room's lock is between join and leave, the first sub
  has left the join code, nobody is linked before link1;
- `RegistryInv`: an entry leads to a stored client of that name whose close has
  not deleted yet; a newcomer between displacement and store holds the lock and
  finds its name free when the wait is over;
- `ShutdownInv`: the names Close has visited lead to nobody or to the client it
  waits for.

`LiveClientIsRegistered` is not inductive alone: the delete is by name, so the
proof needs that no newcomer is stored before the displaced client's delete,
which is the newcomer's wait for the whole Once body, recorded in `BoxOK`.

`RegistryRefines` is the refinement of `NameTable`.  Three places of the code
touch the registry, and `TableStep` has one case for each: the store after the
displacement (the name is free, by `BoxOK`), the delete at the end of a
close (`EndedByUnregister`: the entry it removes is the closing client's own or
nobody's, by `LiveClientIsRegistered`), and the shutdown's step from name to
name (`ShutByUnlock`).  Every other step leaves the table alone
(`RegistryTouched`, from `ConnectionKeeps` and `ServerKeeps`).

Two more theorems are about the task rooms: `RoomsLinkOnePair`, that the subs
linked in a room are one pair, each linked to the other and not to itself, and
`FullRoomsStayGone`, that a room that has linked a pair has left
`proxyTaskRoomMap` for good.  The invariant is `ServerInv` with `RoomLinks` (every
link is made in one room and has the room's first sub as one of its ends) and
`RoomUse` (who joins a room has an id that was handed out; a room is out of the
map before its lock is given back with a pair linked).

For every set of goroutines and any clock (`ConnProofs`): `TickerTypesOK`,
`CountsExactly` and `AnswersOneSecond`, from an invariant that says who may hold
which lock where and what the running count is between the check of the second
and the addition.

Each of the modules below has one inductive invariant, `IInv`, a theorem
`Invariant` that every run keeps it, and the theorems that follow from it.  None of
the properties is inductive alone; what has to be added is said for each.

**LinkRelayProofs**, for any number of messages: `TypesOK`, `NoPayloadAsRequest`
and `RelayImplementsPipe`.

- `Switched`: once TaskA is on its way to a client, both handlers are switched;
  a client writes payload only after its TaskA.  So payload finds the switch on.
- `Told`: each side is told once, and a client that is open has TaskA behind it;
  so TaskA, which is no payload, never stands in the pipe of an open client.
- `Buffers`: a handler reads only with its relay buffer empty, and takes
  nothing from a connection it has closed; so nothing overtakes the buffer.

`RelayImplementsPipe` is the refinement `RelayIsPipe`.  The pipe of a direction is
the payload in four segments put end to end, and `StepIsPipe` has one case for
each action: a write is `LinkPipe`'s write, a read its read, a handshake that
reads ahead drops a front, the end of a link drops a tail, and a step of the
relay moves payload from one segment to the next and is a stutter
(`PayloadAround`, `FrontBehind`, `CutBreaks` are the lemmas on sequences).

**TaskCbProofs**, for any requests and any number of pushes: `TypesOK`,
`AnswersFindTheirCallers`, `NilIsAnAnswer`, `CallbacksAreRemoved`.  The invariant
follows one answer: a request is asked after its callback is stored (`Asked`), its
answer is on its way at most once (`Once`) or in the reader's hand (`Single`), and
not again when it has been looked at (`Filled`); so the callback is in the table
when the answer comes unless OverTask has run (`Expected`).  From the same invariant
`ReaderIsNeverHeldUp`, the safety half of `InboxDrained`: the reader finds room
for what a callback returns, also when its caller has timed out and listens no
more.  It says nothing of a callback that does not return, which handleUP2P's
may not.

**DeviceBoxProofs**, for any goroutines and any number of subs: `TypesOK`,
`NoSubSurvivesClose`.  A sub that is open is in subMap or in somebody's hands
(`Hands`, `Accounted`); Close holds subMapLock from the step that sets disable to
the one that has emptied subMap, and whoever gets the lock later sees disable
(`Order`).  `CloseTokenKept` and `StopErrorKept` are the safety halves of
`WaitReturns` and `LoopsEnd`: the token that Close sends to the waiters and the
stop error it sends to whoever takes subs are passed on, never lost nor doubled,
and no send that passes them on blocks.  The second has the hypothesis
`Accepters = {}`: where ListenSubBoxOnce is the first to be called, the channel
has no room for the error and Close hangs (`BoxAcceptClose.cfg`).

**SubDialProofs**, for any boxes, dials, timers and faults: `TypesOK`,
`GivenSubsAreLinked`.  Both ends can be given only by the step that links them
(`Promised`), and there is one such step because a request is in the queue at
most once and its room is made only at the head of it, so that a full or
collected room is never opened again (`Rooms`).

**UdpPunchProofs**, for any number of tries and any behaviour of the network:
`TypesOK`, `NobodyPairedWithItself`, `HoleIsOpen`.  Every address a side holds is
the other's (`Addressed`), because the second address is recorded only when it is
not the first; a datagram with the session's id and a receiver comes
from outside or from a side that has knocked (`Sent`), so who has heard, has
heard the other (`HeardKnock`); and the turns left make up for the knocks not
made, less the one that a heard id uses up (`Turns`).

**ConnProofs**, its second part, for any writers, lengths, sizes and failing
writes: `MessagesStayWhole` (`Intact`) and `ReadableWithoutFailure`
(`GarbledOnlyAfterFailure`). Their hypothesis is that the reader goes on with
its buffer (`GoOn \subseteq {TRUE}`), as every reader but ReadCMsgCb does and
as the run *stream* has it; without it `Intact` is false (`StreamCalls.cfg`).
What has been written and not yet put together, whether on the connection, in
the `bufio.Reader` or among the reader's parts, is one sequence, `Flight`.
`OnTheWay` keeps the places in it at which the messages not handed on end: they
are in the order of `sent`, and no other packet, a torn one neither, closes a
message (`Framed`). As a message is decoded only when it is one message's whole
bytes, this gives `Intact`. Until a write fails there is no torn packet to wait
in, and nothing between two ends but the packets of one message (`Joined`), and
behind the last what has gone out of the one being written (`Begun`), for which
the lock is needed (`OneWriter`). Then the next message can be decoded; that
each of its packets is accepted is `PacketsOf`, the arithmetic of encode for
every length (`DivUp`).

`StreamTypesOK` has no such hypothesis.  What it says besides types is that the
`bufio.Reader` never holds more bytes than its size.  The bytes of packets are a
recursive function; that a rest has no more of them than the whole
(`BytesOfRest`) is induction over the length, as in `VpnLinkProofs` below.

**VpnLinkProofs**, for any numbers of messages and calls and any room in the
sockets: `TypesOK`, `FailedCallsSendNothing` and `VpnImplementsPipe`.

- `Answers`: "ok" is written only when the target has been reached, so a caller
  that has read it, the only one to start a copy loop, finds it reached.
- `Waiting`: a caller that has not, has written ConnVPNQ1 at the most, and the
  server takes that before it dials; so it forwards nothing of such a caller.
  `FailedCallSendsNothing` is the last conjunct of this part.
- `Carried`: the kinds of message each connection may hold.  ConnVPNQ1 and
  ConnVPNA1 never get to the outer ones.
- `Held`: a goroutine that waits in a Write still has before it what it read, so
  that a link that is closed meanwhile does not take it back.
- `Places`: what the program counters say about the sockets; that linkConn is
  closed only after copyConn, and a direct link only by a panic, are the facts
  the refinement needs.

`EndsAreClosed` is the safety half of `SocketsClose`: a goroutine that ends has
closed its sockets, or has brought about the Close that does, on either side of
the server, and the token of Close is there until Wait takes it.

The refinement `VpnIsPipe` has a different argument from the relay's, because
here each goroutine that has ended and each socket that is closed cuts off what
is behind it.  Of a direction only the numbers of its data count, and of its
three segments those that still have everything in front of them
(`TargetTakes`, `ServerTakes`, `ClientTakes`; `AppTakes`, `ClientBrings`,
`ServerBrings`, and `ReaderHolds` for the one message in a blocked reader's
hand).  `Sides` lists what is then on its way.  Three kinds of step are left:
one that carries a message from segment to segment, which regroups a
concatenation (`CopierCarries` and the like) and is a stutter; one after which
fewer segments count, which leaves a front of what was on its way
(`UpKeeps`, `DownKeeps`) and is `LinkPipe`'s break; and the writes, reads and the
accept of the ends, which are `LinkPipe`'s own.  `ContextIs` is what all of them
may rely on, each action has one lemma, and `StepIsPipe` puts them together.
The numbers of a sequence are a recursive function; what it does with a
concatenation (`NumbersOfTwo`) is induction, which first-order logic can do here
by taking the least length at which the claim would fail.

Assumptions on constants: kinds of names and goroutines are disjoint and `Nil`
and `None` are none of them; `Sides` has two members (and is finite, as
cardinality says nothing of infinite sets); bounds are numbers; a packet has room
for a byte behind its header.  TLC evaluates them in every run.

`RoomsLinkOnePair`, `FullRoomsStayGone`, `ReaderIsNeverHeldUp`, `CloseTokenKept`,
`StopErrorKept` and `EndsAreClosed` state properties of no run;
`NoDeadEntryKept` and the type invariants of some modules state what only the
further configurations of section 3 check.
Every other theorem listed in `PROJECT.json` states a property that a run checks.

Only model-checked is liveness: `AllArrive`, `LateArrives`, every property of
calls that return and closes that spread.  Fairness and ENABLED are outside the
prover's reach.

## 5. What is not modelled

- AES, SHA-256, JSON, base64, logging, socket options: data only.
- TCP hole punching: one goroutine dials while the other listens on the same
  port; what comes of it is a matter of NATs and SO_REUSEPORT, which a model
  would have to make up.
- kcp: an external library.
- KeepWaitCb, SetKeep, CtxCloser, RWConference: no caller.
- A VPN link to a UDP address: its socket has no other end that could hang up,
  and keeps no order.
- The log broadcast: no other component waits for it, and its one hazard is an
  unlocked map access (`complexRW/rw.go:82`) at which the Go runtime stops the
  process.
- `_hook-tcp` and the tests: read for what they expect of the library.

## 6. Plan

Done, in the order of importance: server life cycle with proofs; speed ticker
with proofs; relay with its refinement; device box; request table; message
stream; UDP hole punching; dials between several boxes; the VPN link with its
refinement; the name table with its refinement, proved.

Theorems, done: every safety property and every refinement the runs check, every
type invariant, and the safety halves of four liveness properties (section 4).
What the runs check and no theorem states is liveness.

What could follow, in the order of use: the rooms of `SubDial` shown to be those
of `ProxyServer`; the rendezvous of hole punching as the way a sub of `SubDial`
comes to its link; the hazards of `PROJECT.json` that no property covers, each
of which is a behaviour the code has.

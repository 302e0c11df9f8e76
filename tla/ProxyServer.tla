---------------------------- MODULE ProxyServer ----------------------------
(***************************************************************************)
(* The connection life cycle of the go-CFC proxy server (server/proxy.go,  *)
(* proxy_client.go, proxy_server.go, proxy_task.go).                       *)
(*                                                                         *)
(* Every accepted connection is a ProxyClient with a goroutine of its own, *)
(* the handler (tcpHandler).  A box connection shakes hands and registers  *)
(* its name; a sub connection attaches itself to a registered parent and   *)
(* joins a task room, where it is linked to a second sub.  Any goroutine   *)
(* may close any connection it can reach.  ProxyClient.close runs once     *)
(* (sync.Once): the first caller runs the body, every other caller waits   *)
(* until the body has returned.  The body of each connection is modelled   *)
(* as a process of its own, closer[c], and a caller as a process that      *)
(* waits for closer[c] = "done"; which of the callers lends its goroutine  *)
(* to the body makes no difference to the interleavings.                   *)
(*                                                                         *)
(* A write succeeds or fails; what it says is left out.  Bytes relayed     *)
(* between linked subs are the subject of LinkRelay.                       *)
(***************************************************************************)
EXTENDS Naturals, FiniteSets

CONSTANTS Boxes,    \* connections that shake hands and register a name
          Subs,     \* connections that open with TaskQ
          Names,    \* the names boxes register
          Rooms,    \* task room ids, each handed out once (bounds SOpenQ)
          Server,   \* the goroutine that runs ProxyServer.Close
          Nil       \* nil pointer, empty name, free mutex

Conn == Boxes \cup Subs

ASSUME DisjointAssumption ==
  /\ Boxes \cap Subs = {}
  /\ Nil \notin Conn \cup Names \cup Rooms \cup {Server}
  /\ Server \notin Conn

VARIABLES
  disable,   \* disable[c]: the atomic flag; set together with rawConn.Close
  closer,    \* closer[c]: how far the body of c.close has got
  step,      \* step[c]: ProxyInitialization, ProxyRegister, ProxyBusiness
  name,      \* name[c]: the login name
  parent,    \* parent[c]: the client a sub belongs to
  link,      \* link[c]: linkConn, the ProxyClient at the other end
  subMap,    \* subMap[c]: the subs c has to close with itself
  subLock,   \* subLock[c]: the holder of c.subMapLock
  visit,     \* visit[c]: the sub that c's close is closing
  registry,  \* registry[n]: proxyClientMap
  regLock,   \* the holder of proxyClientMapLock
  rooms,     \* the keys of proxyTaskRoomMap
  created,   \* the rooms ever created
  expired,   \* the rooms whose expireTime has passed
  roomStep,  \* roomStep[r]: 0 nobody, 1 c1 has joined, 2 both
  c1,        \* c1[r]: the first sub in the room
  roomLock,  \* roomLock[r]: the holder of the room's lock
  pc,        \* pc[c]: where c's handler is
  waits,     \* waits[c]: the connection whose close c's handler waits for
  ret,       \* ret[c]: where c's handler goes on when that close is done
  odj,       \* odj[c]: the client c's handler has looked up
  room,      \* room[c]: the room id of c's TaskQ
  srv,       \* where ProxyServer.Close is
  todo,      \* the names rangeProxyClient has not visited yet
  gc         \* the gcTask goroutine

connVars  == <<disable, closer>>
idVars    == <<step, name, parent>>
subVars   == <<subMap, subLock, visit>>
regVars   == <<registry, regLock>>
roomVars  == <<rooms, created, expired, roomStep, c1, roomLock>>
pcVars    == <<pc, waits, ret>>
locals    == <<odj, room>>
srvVars   == <<srv, todo, gc>>
others    == <<idVars, link, regVars, roomVars, pcVars, locals, srvVars>>
elsewhere == <<idVars, link, subVars, regVars, roomVars, srvVars>>
vars == <<connVars, idVars, link, subVars, regVars, roomVars, pcVars, locals,
          srvVars>>

ProxyInitialization == 0
ProxyRegister       == 1
ProxyBusiness       == 2

CloserLabels == {"open", "entered", "link", "linkcall", "linkwait", "lock",
                 "range", "subwait", "unreg", "unlock", "done"}

HandlerLabels == {"new", "loop", "wait", "regLock", "regStore", "regReply",
                  "regDone", "tell", "tellme", "p2p", "attach", "detach",
                  "room", "join", "link1", "link2", "tell1", "tell2",
                  "leave", "gone"}

SrvLabels == {"up", "lock", "range", "wait", "unlock", "done"}

Init ==
  /\ disable  = [c \in Conn |-> FALSE]
  /\ closer   = [c \in Conn |-> "open"]
  /\ step     = [c \in Conn |-> ProxyInitialization]
  /\ name     = [c \in Conn |-> Nil]
  /\ parent   = [c \in Conn |-> Nil]
  /\ link     = [c \in Conn |-> Nil]
  /\ subMap   = [c \in Conn |-> {}]
  /\ subLock  = [c \in Conn |-> Nil]
  /\ visit    = [c \in Conn |-> Nil]
  /\ registry = [n \in Names |-> Nil]
  /\ regLock  = Nil
  /\ rooms    = {}
  /\ created  = {}
  /\ expired  = {}
  /\ roomStep = [r \in Rooms |-> 0]
  /\ c1       = [r \in Rooms |-> Nil]
  /\ roomLock = [r \in Rooms |-> Nil]
  /\ pc       = [c \in Conn |-> "new"]
  /\ waits    = [c \in Conn \cup {Server} |-> Nil]
  /\ ret      = [c \in Conn |-> "loop"]
  /\ odj      = [c \in Conn |-> Nil]
  /\ room     = [c \in Conn |-> Nil]
  /\ srv      = "up"
  /\ todo     = {}
  /\ gc       = "armed"

-----------------------------------------------------------------------------
(* Calling close and writing, as every handler does it. *)

\* x.close() has been called: the first call starts the body.
Entered(x) == [closer EXCEPT ![x] = IF @ = "open" THEN "entered" ELSE @]

Goto(c, l) == pc' = [pc EXCEPT ![c] = l] /\ UNCHANGED <<waits, ret>>

\* Handler c calls x.close() and goes on at l when the body has returned.
CallClose(c, x, l) ==
  /\ closer' = Entered(x)
  /\ pc'     = [pc EXCEPT ![c] = "wait"]
  /\ waits'  = [waits EXCEPT ![c] = x]
  /\ ret'    = [ret EXCEPT ![c] = l]
  /\ UNCHANGED disable

\* x.writeCMsgAndCheck(...) in c's handler: a disabled x refuses the write, a
\* live socket may fail it, and a failed write closes x.
Write(c, x, l) ==
  \/ ~disable[x] /\ Goto(c, l) /\ UNCHANGED connVars
  \/ CallClose(c, x, l)

\* The body of waits[c].close() has returned to c's handler.
CloseReturned(c) ==
  /\ pc[c] = "wait"
  /\ closer[waits[c]] = "done"
  /\ pc'    = [pc EXCEPT ![c] = ret[c]]
  /\ waits' = [waits EXCEPT ![c] = Nil]
  /\ ret'   = [ret EXCEPT ![c] = "loop"]
  /\ UNCHANGED <<connVars, locals, elsewhere>>

-----------------------------------------------------------------------------
(* The body of ProxyClient.close. *)

CloserGoto(c, from, to) ==
  closer[c] = from /\ closer' = [closer EXCEPT ![c] = to]

SetDisable(c) ==
  /\ CloserGoto(c, "entered", "link")
  /\ disable' = [disable EXCEPT ![c] = TRUE]
  /\ UNCHANGED <<subVars, others>>

\* linkConn is nil, or its Close finds it disabled: nothing to close.
SkipLink(c) ==
  /\ CloserGoto(c, "link", "lock")
  /\ link[c] # Nil => disable[link[c]]
  /\ UNCHANGED <<disable, subVars, others>>

\* Mutant of CheckLink: linkConn.Close does not look at disable first.
CheckLinkBlind(c) ==
  /\ CloserGoto(c, "link", "linkcall")
  /\ link[c] # Nil
  /\ UNCHANGED <<disable, subVars, others>>

\* Close of the linked client has loaded disable = false.
CheckLink(c) ==
  /\ CloserGoto(c, "link", "linkcall")
  /\ link[c] # Nil /\ ~disable[link[c]]
  /\ UNCHANGED <<disable, subVars, others>>

\* Mutant of CloseLink: the linked client is left open.
CloseLinkForgotten(c) ==
  /\ CloserGoto(c, "linkcall", "lock")
  /\ UNCHANGED <<disable, subVars, others>>

CloseLink(c) ==
  /\ closer[c] = "linkcall"
  /\ closer' = [Entered(link[c]) EXCEPT ![c] = "linkwait"]
  /\ UNCHANGED <<disable, subVars, others>>

LinkClosed(c) ==
  /\ CloserGoto(c, "linkwait", "lock")
  /\ closer[link[c]] = "done"
  /\ UNCHANGED <<disable, subVars, others>>

LockSubs(c) ==
  /\ subLock[c] = Nil
  /\ subLock' = [subLock EXCEPT ![c] = c]
  /\ CloserGoto(c, "lock", "range")
  /\ UNCHANGED <<disable, subMap, visit, others>>

\* rangeProxySubClient visits s and calls its close.
CloseSub(c, s) ==
  /\ closer[c] = "range"
  /\ s \in subMap[c]
  /\ closer' = [Entered(s) EXCEPT ![c] = "subwait"]
  /\ visit'  = [visit EXCEPT ![c] = s]
  /\ UNCHANGED <<disable, subMap, subLock, others>>

\* Mutant of SubClosed: the closed sub stays in the map that is being emptied.
SubClosedKept(c) ==
  /\ CloserGoto(c, "subwait", "range")
  /\ closer[visit[c]] = "done"
  /\ visit' = [visit EXCEPT ![c] = Nil]
  /\ UNCHANGED <<disable, subMap, subLock, others>>

SubClosed(c) ==
  /\ CloserGoto(c, "subwait", "range")
  /\ closer[visit[c]] = "done"
  /\ subMap' = [subMap EXCEPT ![c] = @ \ {visit[c]}]
  /\ visit'  = [visit EXCEPT ![c] = Nil]
  /\ UNCHANGED <<disable, subLock, others>>

SubsClosed(c) ==
  /\ subMap[c] = {}
  /\ CloserGoto(c, "range", "unreg")
  /\ UNCHANGED <<disable, subVars, others>>

\* Mutant of Unregister: only a client in ProxyBusiness takes itself out.
UnregisterBusiness(c) ==
  /\ CloserGoto(c, "unreg", "unlock")
  /\ registry' = [n \in Names |->
                    IF n = name[c] /\ step[c] = ProxyBusiness
                      THEN Nil ELSE registry[n]]
  /\ UNCHANGED <<disable, idVars, link, subVars, regLock, roomVars, pcVars,
                 locals, srvVars>>

\* delProxyClient deletes by name, whoever is registered under it.
Unregister(c) ==
  /\ CloserGoto(c, "unreg", "unlock")
  /\ registry' = [n \in Names |-> IF n = name[c] THEN Nil ELSE registry[n]]
  /\ UNCHANGED <<disable, idVars, link, subVars, regLock, roomVars, pcVars,
                 locals, srvVars>>

UnlockSubs(c) ==
  /\ CloserGoto(c, "unlock", "done")
  /\ subLock' = [subLock EXCEPT ![c] = Nil]
  /\ UNCHANGED <<disable, subMap, visit, others>>

CloserStep(c) ==
  \/ SetDisable(c) \/ SkipLink(c) \/ CheckLink(c) \/ CloseLink(c)
  \/ LinkClosed(c) \/ LockSubs(c) \/ (\E s \in Subs : CloseSub(c, s))
  \/ SubClosed(c) \/ SubsClosed(c) \/ Unregister(c) \/ UnlockSubs(c)

-----------------------------------------------------------------------------
(* tcpHandler, and the messages that change nothing but the connection. *)

\* A connection accepted before the listener was closed.
Accept(c) ==
  /\ srv = "up"
  /\ pc[c] = "new"
  /\ Goto(c, "loop")
  /\ UNCHANGED <<connVars, locals, elsewhere>>

\* A read or a relayed write fails (peer gone, deadline, bad packet, socket
\* closed): the handler leaves its loop and its deferred close runs.
HandlerExit(c) ==
  /\ pc[c] = "loop"
  /\ CallClose(c, c, "gone")
  /\ UNCHANGED <<locals, elsewhere>>

\* HandshakeCheckStepQ1: the step is counted before the answer is written.
HandshakeQ1(c) ==
  /\ pc[c] = "loop" /\ step[c] = ProxyInitialization
  /\ step' = [step EXCEPT ![c] = ProxyRegister]
  /\ Write(c, c, "loop")
  /\ UNCHANGED <<name, parent, link, subVars, regVars, roomVars, locals,
                 srvVars>>

\* PingMsg, DelayQ, SpeedQ0..3, and a request that is refused with a 400 or
\* 401 and no close: an answer is written to the sender.
Answer(c) ==
  /\ pc[c] = "loop" /\ step[c] = ProxyBusiness
  /\ Write(c, c, "loop")
  /\ UNCHANGED <<locals, elsewhere>>

-----------------------------------------------------------------------------
(* HandshakeCheckStepQ2: setProxyClient under proxyClientMapLock. *)

\* ~disable[c] is not in the code.  It says of the client that Q2 is sent only
\* after A1 has been read, as handshakeCheck does: then the write of A1 has not
\* failed, and nothing else closes a connection that has no name yet.
HandshakeQ2(c, n) ==
  /\ pc[c] = "loop" /\ step[c] = ProxyRegister /\ ~disable[c]
  /\ name' = [name EXCEPT ![c] = n]
  /\ Goto(c, "regLock")
  /\ UNCHANGED <<connVars, step, parent, link, subVars, regVars, roomVars,
                 locals, srvVars>>

\* No name, and no anonymity: 400 and close.  The client has read A1, as above.
HandshakeNoName(c) ==
  /\ pc[c] = "loop" /\ step[c] = ProxyRegister /\ ~disable[c]
  /\ CallClose(c, c, "loop")
  /\ UNCHANGED <<locals, elsewhere>>

\* Mutant of LockRegistry: the old client's close is started, not awaited.
LockRegistryNoWait(c) ==
  /\ pc[c] = "regLock" /\ regLock = Nil
  /\ regLock' = c
  /\ closer' = IF registry[name[c]] = Nil THEN closer
                                          ELSE Entered(registry[name[c]])
  /\ Goto(c, "regStore")
  /\ UNCHANGED <<disable, idVars, link, subVars, registry, roomVars, locals,
                 srvVars>>

LockRegistry(c) ==
  /\ pc[c] = "regLock" /\ regLock = Nil
  /\ regLock' = c
  /\ LET old == registry[name[c]] IN
       IF old = Nil THEN Goto(c, "regStore") /\ UNCHANGED connVars
                    ELSE CallClose(c, old, "regStore")
  /\ UNCHANGED <<idVars, link, subVars, registry, roomVars, locals, srvVars>>

StoreClient(c) ==
  /\ pc[c] = "regStore"
  /\ registry' = [registry EXCEPT ![name[c]] = c]
  /\ regLock'  = Nil
  /\ Goto(c, "regReply")
  /\ UNCHANGED <<connVars, idVars, link, subVars, roomVars, locals, srvVars>>

RegisterReply(c) ==
  /\ pc[c] = "regReply"
  /\ Write(c, c, "regDone")
  /\ UNCHANGED <<locals, elsewhere>>

RegisterDone(c) ==
  /\ pc[c] = "regDone"
  /\ step' = [step EXCEPT ![c] = ProxyBusiness]
  /\ Goto(c, "loop")
  /\ UNCHANGED <<connVars, name, parent, link, subVars, regVars, roomVars,
                 locals, srvVars>>

-----------------------------------------------------------------------------
(* SOpenQ and P2PUdpQ1: the server writes to two connections in turn. *)

SOpenQ(c, n, r) ==
  /\ pc[c] = "loop" /\ step[c] = ProxyBusiness
  /\ registry[n] # Nil /\ r \notin created
  /\ rooms'   = rooms \cup {r}
  /\ created' = created \cup {r}
  /\ odj'     = [odj EXCEPT ![c] = registry[n]]
  /\ Goto(c, "tell")
  /\ UNCHANGED <<connVars, idVars, link, subVars, regVars, expired, roomStep,
                 c1, roomLock, room, srvVars>>

TellOdj(c) ==
  /\ pc[c] = "tell"
  /\ Write(c, odj[c], "tellme")
  /\ odj' = [odj EXCEPT ![c] = Nil]
  /\ UNCHANGED <<room, elsewhere>>

TellAsker(c) ==
  /\ pc[c] = "tellme"
  /\ Write(c, c, "loop")
  /\ UNCHANGED <<locals, elsewhere>>

P2PUdpQ1(c, n) ==
  /\ pc[c] = "loop" /\ step[c] = ProxyBusiness
  /\ registry[n] # Nil
  /\ odj' = [odj EXCEPT ![c] = registry[n]]
  /\ Write(c, c, "p2p")
  /\ UNCHANGED <<room, elsewhere>>

TellP2P(c) ==
  /\ pc[c] = "p2p"
  /\ Write(c, odj[c], "loop")
  /\ odj' = [odj EXCEPT ![c] = Nil]
  /\ UNCHANGED <<room, elsewhere>>

-----------------------------------------------------------------------------
(* TaskQ: attach to the parent, then join the room.  A sub sends one TaskQ. *)

TaskQ(c, n, r) ==
  /\ pc[c] = "loop" /\ step[c] = ProxyInitialization /\ room[c] = Nil
  /\ room' = [room EXCEPT ![c] = r]
  /\ IF n = Nil THEN Goto(c, "room") /\ UNCHANGED <<connVars, odj>>
     ELSE IF registry[n] = Nil THEN CallClose(c, c, "loop") /\ UNCHANGED odj
     ELSE /\ odj' = [odj EXCEPT ![c] = registry[n]]
          /\ Goto(c, "attach") /\ UNCHANGED connVars
  /\ UNCHANGED elsewhere

\* Mutant of Attach: the parent's disable flag is not looked at.
AttachUnchecked(c) ==
  /\ pc[c] = "attach"
  /\ subLock[odj[c]] = Nil
  /\ subMap' = [subMap EXCEPT ![odj[c]] = @ \cup {c}]
  /\ parent' = [parent EXCEPT ![c] = odj[c]]
  /\ Goto(c, "room")
  /\ UNCHANGED <<subLock, connVars, step, name, link, visit, regVars,
                 roomVars, locals, srvVars>>

\* setProxySubClient: a disabled parent refuses, and closes the sub while it
\* holds the lock.
Attach(c) ==
  /\ pc[c] = "attach"
  /\ subLock[odj[c]] = Nil
  /\ IF disable[odj[c]]
       THEN /\ subLock' = [subLock EXCEPT ![odj[c]] = c]
            /\ CallClose(c, c, "detach")
            /\ UNCHANGED <<subMap, parent>>
       ELSE /\ subMap' = [subMap EXCEPT ![odj[c]] = @ \cup {c}]
            /\ parent' = [parent EXCEPT ![c] = odj[c]]
            /\ Goto(c, "room")
            /\ UNCHANGED <<subLock, connVars>>
  /\ UNCHANGED <<step, name, link, visit, regVars, roomVars, locals, srvVars>>

\* Mutant of Detach: a refused sub tries again.
DetachRetry(c) ==
  /\ pc[c] = "detach"
  /\ subLock' = [subLock EXCEPT ![odj[c]] = Nil]
  /\ Goto(c, "attach")
  /\ UNCHANGED <<connVars, idVars, link, subMap, visit, regVars, roomVars,
                 locals, srvVars>>

\* setProxySubClient returns nothing: a refused sub goes on to the room too.
Detach(c) ==
  /\ pc[c] = "detach"
  /\ subLock' = [subLock EXCEPT ![odj[c]] = Nil]
  /\ parent'  = [parent EXCEPT ![c] = odj[c]]
  /\ Goto(c, "room")
  /\ UNCHANGED <<connVars, step, name, link, subMap, visit, regVars, roomVars,
                 locals, srvVars>>

LookupRoom(c) ==
  /\ pc[c] = "room"
  /\ IF room[c] \in rooms THEN Goto(c, "join") /\ UNCHANGED connVars
                          ELSE CallClose(c, c, "loop")
  /\ UNCHANGED <<locals, elsewhere>>

JoinFirst(c) ==
  LET r == room[c] IN
  /\ pc[c] = "join" /\ roomLock[r] = Nil /\ roomStep[r] = 0
  /\ c1'       = [c1 EXCEPT ![r] = c]
  /\ roomStep' = [roomStep EXCEPT ![r] = 1]
  /\ Goto(c, "loop")
  /\ UNCHANGED <<connVars, idVars, link, subVars, regVars, rooms, created,
                 expired, roomLock, locals, srvVars>>

\* Mutant of JoinSecond: the room's lock is not taken.
JoinSecondUnlocked(c) ==
  LET r == room[c] IN
  /\ pc[c] = "join" /\ roomStep[r] = 1
  /\ rooms' = rooms \ {r}
  /\ Goto(c, "link1")
  /\ UNCHANGED <<connVars, idVars, link, subVars, regVars, created, expired,
                 roomStep, c1, roomLock, locals, srvVars>>

JoinSecond(c) ==
  LET r == room[c] IN
  /\ pc[c] = "join" /\ roomLock[r] = Nil /\ roomStep[r] = 1
  /\ roomLock' = [roomLock EXCEPT ![r] = c]
  /\ rooms'    = rooms \ {r}
  /\ Goto(c, "link1")
  /\ UNCHANGED <<connVars, idVars, link, subVars, regVars, created, expired,
                 roomStep, c1, locals, srvVars>>

\* The default case: a third sub that looked the room up in time.
JoinRefused(c) ==
  LET r == room[c] IN
  /\ pc[c] = "join" /\ roomLock[r] = Nil /\ roomStep[r] = 2
  /\ roomLock' = [roomLock EXCEPT ![r] = c]
  /\ CallClose(c, c, "leave")
  /\ UNCHANGED <<idVars, link, subVars, regVars, rooms, created, expired,
                 roomStep, c1, locals, srvVars>>

\* initLinkConn of c1, then of c2: the handler of c1 and every closer of
\* either may run in between.
LinkFirst(c) ==
  /\ pc[c] = "link1"
  /\ link' = [link EXCEPT ![c1[room[c]]] = c]
  /\ Goto(c, "link2")
  /\ UNCHANGED <<connVars, idVars, subVars, regVars, roomVars, locals,
                 srvVars>>

LinkSecond(c) ==
  /\ pc[c] = "link2"
  /\ link' = [link EXCEPT ![c] = c1[room[c]]]
  /\ Goto(c, "tell1")
  /\ UNCHANGED <<connVars, idVars, subVars, regVars, roomVars, locals,
                 srvVars>>

\* Mutant of TellFirst: a failed write to the first sub is tried again.
TellFirstRetry(c) ==
  /\ pc[c] = "tell1"
  /\ \/ ~disable[c1[room[c]]] /\ Goto(c, "tell2") /\ UNCHANGED connVars
     \/ CallClose(c, c1[room[c]], "tell1")
  /\ UNCHANGED <<locals, elsewhere>>

TellFirst(c) ==
  /\ pc[c] = "tell1"
  /\ Write(c, c1[room[c]], "tell2")
  /\ UNCHANGED <<locals, elsewhere>>

TellSecond(c) ==
  /\ pc[c] = "tell2"
  /\ Write(c, c, "leave")
  /\ UNCHANGED <<locals, elsewhere>>

LeaveRoom(c) ==
  LET r == room[c] IN
  /\ pc[c] = "leave"
  /\ roomStep' = [roomStep EXCEPT ![r] = 2]
  /\ roomLock' = [roomLock EXCEPT ![r] = Nil]
  /\ Goto(c, "loop")
  /\ UNCHANGED <<connVars, idVars, link, subVars, regVars, rooms, created,
                 expired, c1, locals, srvVars>>

-----------------------------------------------------------------------------
(* gcTask, and the passing of a room's expireTime. *)

Expire(r) ==
  /\ r \in created \ expired
  /\ expired' = expired \cup {r}
  /\ UNCHANGED <<connVars, idVars, link, subVars, regVars, rooms, created,
                 roomStep, c1, roomLock, pcVars, locals, srvVars>>

\* The timer fires, the expired rooms go, and the goroutine returns.
GcFires ==
  /\ gc = "armed"
  /\ rooms' = rooms \ expired
  /\ gc'    = "spent"
  /\ UNCHANGED <<connVars, idVars, link, subVars, regVars, created, expired,
                 roomStep, c1, roomLock, pcVars, locals, srv, todo>>

GcStopped ==
  /\ gc = "armed" /\ srv # "up"
  /\ gc' = "spent"
  /\ UNCHANGED <<connVars, idVars, link, subVars, regVars, roomVars, pcVars,
                 locals, srv, todo>>

-----------------------------------------------------------------------------
(* ProxyServer.Close: setCloseFn. *)

CloseListener ==
  /\ srv = "up"
  /\ srv' = "lock"
  /\ UNCHANGED <<connVars, idVars, link, subVars, regVars, roomVars, pcVars,
                 locals, todo, gc>>

LockForClose ==
  /\ srv = "lock" /\ regLock = Nil
  /\ regLock' = Server
  /\ srv'     = "range"
  /\ todo'    = Names
  /\ UNCHANGED <<connVars, idVars, link, subVars, registry, roomVars, pcVars,
                 locals, gc>>

\* Mutant of VisitName: a client found is closed but not waited for.
VisitNameNoWait(n) ==
  /\ srv = "range" /\ n \in todo
  /\ todo'   = todo \ {n}
  /\ closer' = IF registry[n] = Nil THEN closer ELSE Entered(registry[n])
  /\ UNCHANGED <<disable, idVars, link, subVars, regVars, roomVars, pcVars,
                 srv, locals, gc>>

\* rangeProxyClient visits n and closes the client it finds there.
VisitName(n) ==
  /\ srv = "range" /\ n \in todo
  /\ todo' = todo \ {n}
  /\ IF registry[n] = Nil
       THEN UNCHANGED <<closer, srv, waits>>
       ELSE /\ closer' = Entered(registry[n])
            /\ waits'  = [waits EXCEPT ![Server] = registry[n]]
            /\ srv'    = "wait"
  /\ UNCHANGED <<disable, idVars, link, subVars, regVars, roomVars, pc, ret,
                 locals, gc>>

ClientClosed ==
  /\ srv = "wait" /\ closer[waits[Server]] = "done"
  /\ waits' = [waits EXCEPT ![Server] = Nil]
  /\ srv'   = "range"
  /\ UNCHANGED <<connVars, idVars, link, subVars, regVars, roomVars, pc, ret,
                 locals, todo, gc>>

UnlockAfterClose ==
  /\ srv = "range" /\ todo = {}
  /\ regLock' = Nil
  /\ srv'     = "done"
  /\ UNCHANGED <<connVars, idVars, link, subVars, registry, roomVars, pcVars,
                 locals, todo, gc>>

-----------------------------------------------------------------------------

\* A message arrives on c's connection and its handler takes it up.
Receive(c) ==
  \/ HandshakeQ1(c) \/ HandshakeNoName(c) \/ Answer(c)
  \/ \E n \in Names : HandshakeQ2(c, n) \/ P2PUdpQ1(c, n)
  \/ \E n \in Names, r \in Rooms : SOpenQ(c, n, r)

ReceiveSub(c) == \E n \in Names \cup {Nil}, r \in Rooms : TaskQ(c, n, r)

\* The handler goes on with what it has started.
Proceed(c) ==
  \/ CloseReturned(c)
  \/ LockRegistry(c) \/ StoreClient(c) \/ RegisterReply(c) \/ RegisterDone(c)
  \/ TellOdj(c) \/ TellAsker(c) \/ TellP2P(c)
  \/ Attach(c) \/ Detach(c) \/ LookupRoom(c)
  \/ JoinFirst(c) \/ JoinSecond(c) \/ JoinRefused(c)
  \/ LinkFirst(c) \/ LinkSecond(c) \/ TellFirst(c) \/ TellSecond(c)
  \/ LeaveRoom(c)

ServerClose ==
  \/ LockForClose \/ (\E n \in Names : VisitName(n)) \/ ClientClosed
  \/ UnlockAfterClose

\* Every connection has come and gone and the server is closed.
Terminated ==
  /\ srv = "done" /\ gc = "spent"
  /\ \A c \in Conn : pc[c] \in {"new", "gone"} /\ closer[c] \in {"open", "done"}
  /\ UNCHANGED vars

Next ==
  \/ \E c \in Conn : Accept(c) \/ HandlerExit(c) \/ Proceed(c) \/ CloserStep(c)
  \/ \E c \in Boxes : Receive(c)
  \/ \E c \in Subs : ReceiveSub(c)
  \/ \E r \in Rooms : Expire(r)
  \/ GcFires \/ GcStopped
  \/ CloseListener \/ ServerClose
  \/ Terminated

Spec == Init /\ [][Next]_vars

\* A goroutine that can run is run, and sync.Mutex starves nobody.  Messages,
\* connections, Close and the failure of a live socket are never promised; a
\* handler reading a closed socket is promised its error.
Fairness ==
  /\ \A c \in Conn : WF_vars(CloserStep(c)) /\ SF_vars(Proceed(c))
  /\ \A c \in Conn : WF_vars(disable[c] /\ HandlerExit(c))
  /\ WF_vars(ServerClose) /\ WF_vars(GcFires \/ GcStopped)
  /\ \A r \in Rooms : WF_vars(Expire(r))

FairSpec == Spec /\ Fairness

-----------------------------------------------------------------------------
(* Properties. *)

\* Every variable has its type.  Only boxes are registered, looked up or
\* parents; only subs are attached, linked or hold a room's lock.
TypeOK ==
  /\ disable  \in [Conn -> BOOLEAN]
  /\ closer   \in [Conn -> CloserLabels]
  /\ step     \in [Conn -> 0..2]
  /\ name     \in [Conn -> Names \cup {Nil}]
  /\ parent   \in [Conn -> Boxes \cup {Nil}]
  /\ link     \in [Conn -> Subs \cup {Nil}]
  /\ subMap   \in [Conn -> SUBSET Subs]
  /\ subLock  \in [Conn -> Conn \cup {Nil}]
  /\ visit    \in [Conn -> Subs \cup {Nil}]
  /\ registry \in [Names -> Boxes \cup {Nil}]
  /\ regLock  \in Boxes \cup {Server, Nil}
  /\ rooms \in SUBSET Rooms /\ created \in SUBSET Rooms
  /\ expired  \in SUBSET Rooms
  /\ roomStep \in [Rooms -> 0..2]
  /\ c1       \in [Rooms -> Subs \cup {Nil}]
  /\ roomLock \in [Rooms -> Subs \cup {Nil}]
  /\ pc       \in [Conn -> HandlerLabels]
  /\ waits    \in [Conn \cup {Server} -> Conn \cup {Nil}]
  /\ ret      \in [Conn -> HandlerLabels]
  /\ odj      \in [Conn -> Boxes \cup {Nil}]
  /\ room     \in [Conn -> Rooms \cup {Nil}]
  /\ srv      \in SrvLabels
  /\ todo     \in SUBSET Names
  /\ gc       \in {"armed", "spent"}

\* A box that has been answered its registration and is not being closed is
\* the one its name leads to: the name-keyed delete at the end of a close
\* (proxy_client.go:166) never unregisters a newer client of the same name.
Stored(c) ==
  \/ pc[c] = "regReply" \/ pc[c] = "regDone"
  \/ pc[c] = "wait" /\ ret[c] = "regDone"
  \/ step[c] = ProxyBusiness

LiveClientIsRegistered ==
  \A c \in Boxes :
    Stored(c) /\ closer[c] \notin {"unlock", "done"} => registry[name[c]] = c

\* The registry is a name table: a client is stored under a free name only, and
\* a name-keyed delete takes out nobody but the client that is closing, though
\* clients of one name push each other out and Close comes in between.
Table == INSTANCE NameTable WITH
           Clients <- Boxes, Nobody <- Nil, holder <- registry,
           ended <- {c \in Boxes : closer[c] \in {"unlock", "done"}},
           shut <- srv = "done"

RegistryIsNameTable == Table!TableSpec

\* The registry never keeps a client whose close has returned: the close that
\* takes a client out of the map runs after the store that put it in.
NoDeadEntry ==
  \A n \in Names : registry[n] # Nil => closer[registry[n]] # "done"

\* A sub whose parent's close has returned is disabled: setProxySubClient and
\* the range in close (proxy_client.go:204, :160) exclude each other.
NoOrphanSub ==
  \A s \in Subs : parent[s] # Nil /\ closer[parent[s]] = "done" => disable[s]

\* Two linked subs never wait for each other's close: each disables itself
\* before it looks at the other (proxy_client.go:155, :87).
NoMutualWait ==
  \A c \in Conn :
    closer[c] \in {"linkcall", "linkwait"} =>
      closer[link[c]] \notin {"linkcall", "linkwait"} \/ link[link[c]] # c

\* Links come in pairs, whoever else looked the room up: once the second
\* initLinkConn has run, each end leads to the other.
LinksArePaired ==
  \A c \in Subs :
    link[c] # Nil => \/ link[link[c]] = c
                     \/ pc[link[c]] = "link2" /\ c1[room[link[c]]] = c

\* When ProxyServer.Close lets go of proxyClientMapLock, every client it held
\* off the lock has been closed and the registry is empty.
CloseEmptiesRegistry ==
  [][srv # "done" /\ srv' = "done" =>
       \A n \in Names : registry'[n] = Nil]_vars

\* Every handler that starts on a message finishes it: no combination of
\* closes, displaced names, attachments, joins and shutdown blocks it.
HandlerReturns ==
  \A c \in Conn :
    pc[c] \notin {"new", "loop", "gone"} ~> pc[c] \in {"loop", "gone"}

\* A sub linked when its partner's close starts is closed too.
LinkClosePropagates ==
  \A d \in Subs :
    (\E c \in Subs : link[c] = d /\ closer[c] = "entered") ~> disable[d]

\* Closing a parent reaches its subs: ProxyServer.Close ends.
ServerCloseReturns == srv = "lock" ~> srv = "done"

\* While the server runs, a room whose expireTime has passed is collected
\* (proxy_config.go:18, CGTaskTime: "gc task room time").
ExpiredRoomsCollected ==
  \A r \in Rooms :
    r \in rooms /\ r \in expired ~> r \notin rooms \/ srv # "up"

=============================================================================

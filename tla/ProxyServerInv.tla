--------------------------- MODULE ProxyServerInv ---------------------------
(* The inductive invariants behind the theorems of ProxyServerProofs.  TLC *)
(* checks them on small instances, TLAPS proves them for all.              *)
EXTENDS ProxyServer

\* c's handler is at a label of L, or will be when the close it waits for ends.
At(c, L) == \/ pc[c] \in L
            \/ pc[c] = "wait" /\ ret[c] \in L

Waiting(c, l) == pc[c] = "wait" /\ ret[c] = l

RegLabels    == {"regLock", "regStore", "regReply", "regDone"}
AskLabels    == {"tell", "tellme", "p2p"}
HoldLabels   == {"link1", "link2", "tell1", "tell2", "leave"}
JoinLabels   == {"attach", "detach", "room", "join"} \cup HoldLabels

\* Which connections are at which labels, and what their locals hold there.
PlaceOK(c) ==
  /\ At(c, RegLabels) => /\ c \in Boxes
                         /\ name[c] \in Names
                         /\ step[c] = ProxyRegister
  /\ step[c] = ProxyBusiness => name[c] \in Names
  /\ step[c] # ProxyInitialization => c \in Boxes
  /\ name[c] # Nil => c \in Boxes
  /\ At(c, AskLabels) => step[c] = ProxyBusiness
  /\ At(c, JoinLabels) => c \in Subs /\ room[c] \in Rooms
  /\ At(c, {"attach", "detach", "tell", "p2p"}) => odj[c] # Nil
  /\ At(c, HoldLabels) => c1[room[c]] # Nil
  /\ pc[c] = "wait" => waits[c] # Nil
  /\ ret[c] # "wait"

PlaceInv ==
  /\ \A c \in Conn : PlaceOK(c)
  /\ \A r \in Rooms : roomStep[r] # 0 => c1[r] # Nil

\* A connection is disabled from the first step of its close on, and its close
\* holds subMapLock from "range" to "unlock".
CloserOK(c) ==
  /\ disable[c] <=> closer[c] \notin {"open", "entered"}
  /\ closer[c] \in {"range", "subwait", "unreg", "unlock"} => subLock[c] = c
  /\ closer[c] \in {"unreg", "unlock", "done"} => subMap[c] = {}
  /\ closer[c] = "subwait" => visit[c] # Nil
  /\ closer[c] \in {"linkcall", "linkwait"} => link[c] # Nil

CloserInv == \A c \in Conn : CloserOK(c)

\* A sub that names a parent is disabled or in the parent's subMap.
SubOK(s) ==
  /\ parent[s] # Nil => disable[s] \/ s \in subMap[parent[s]]
  /\ pc[s] = "detach" => disable[s]
  /\ Waiting(s, "detach") => waits[s] = s
  /\ At(s, {"detach"}) => subLock[odj[s]] = s

SubInv == \A s \in Subs : SubOK(s)

\* A room's lock is held from JoinSecond or JoinRefused to LeaveRoom; the
\* first sub has left the join code, and nobody is linked before link1.
HoldsRoom(c) ==
  /\ At(c, HoldLabels) => roomLock[room[c]] = c
  /\ At(c, {"link1", "link2", "tell1", "tell2"}) =>
       roomStep[room[c]] = 1 /\ c1[room[c]] # c
  /\ At(c, {"attach", "detach", "room", "join", "link1", "link2"}) =>
       link[c] = Nil
  /\ room[c] = Nil => link[c] = Nil
  /\ At(c, {"link1"}) => link[c1[room[c]]] = Nil
  /\ At(c, {"link2"}) => link[c1[room[c]]] = c

FirstOK(r) ==
  /\ c1[r] # Nil => room[c1[r]] = r /\ ~At(c1[r], JoinLabels)
  /\ roomStep[r] = 1 /\ roomLock[r] = Nil => link[c1[r]] = Nil
  /\ roomLock[r] # Nil => At(roomLock[r], HoldLabels) /\ room[roomLock[r]] = r

RoomInv ==
  /\ \A c \in Subs : HoldsRoom(c)
  /\ \A r \in Rooms : FirstOK(r)

\* The registry and its lock.
RegisteredOK(n) ==
  registry[n] # Nil => /\ Stored(registry[n])
                       /\ name[registry[n]] = n
                       /\ closer[registry[n]] \notin {"unlock", "done"}

BoxOK(c) ==
  /\ At(c, {"regStore"}) <=> regLock = c
  /\ pc[c] = "regStore" => registry[name[c]] = Nil
  /\ Waiting(c, "regStore") => registry[name[c]] \in {Nil, waits[c]}
  /\ name[c] # Nil => At(c, {"regLock", "regStore"}) \/ Stored(c)
  /\ At(c, {"regLock", "regStore"}) => closer[c] = "open"
  /\ ~Stored(c) /\ closer[c] \notin {"open", "done"} =>
       pc[c] = "wait" /\ waits[c] = c
  /\ odj[c] # Nil => Stored(odj[c])

RegistryInv ==
  /\ \A n \in Names : RegisteredOK(n)
  /\ \A c \in Boxes : BoxOK(c)
  /\ LiveClientIsRegistered
  /\ regLock = Server <=> srv \in {"range", "wait"}

\* While Close holds the registry's lock, the names it has visited lead to
\* nobody, or to the client whose close it waits for.
ShutdownInv ==
  /\ srv # "wait" => waits[Server] = Nil
  /\ srv \in {"range", "wait"} =>
       \A n \in Names \ todo : registry[n] \in {Nil, waits[Server]}

ServerInv ==
  /\ TypeOK /\ PlaceInv /\ CloserInv /\ SubInv /\ RoomInv
  /\ NoMutualWait /\ LinksArePaired /\ RegistryInv /\ ShutdownInv

=============================================================================

------------------------------ MODULE UdpPunch ------------------------------
(***************************************************************************)
(* One UDP hole-punching session, from both clients and the server         *)
(* (client/client_up2p.go handleUP2P and handshakeUP2P, server/            *)
(* proxy_p2p.go), after the server has given both the id of the session.   *)
(*                                                                         *)
(* Each side opens a socket, offers it to the server up to three times and *)
(* waits for the answer P2PUdpA1 on its connection; the server records the *)
(* address the first offer comes from and that of the next offer from an   *)
(* address of its own, and sends each to the client of the other; then     *)
(* each side sends the id to the other up to three times and waits to hear *)
(* it.  A side stands for the address of its socket, which the server sees *)
(* unchanged in every offer.                                               *)
(*                                                                         *)
(* UDP is the set of datagrams sent so far, any of which may be delivered  *)
(* at any time, again and again, or never; it starts with the datagrams of *)
(* other sessions.  The timers are those of the code in order only: the    *)
(* callback is stored before the first offer, which is a second away.  The *)
(* kcp session made of the punched hole is a library's and left out.       *)
(***************************************************************************)
EXTENDS Naturals, FiniteSets

CONSTANTS Sides,   \* the two clients
          Tries,   \* how often an offer or an id is sent, 3 in the code
          None

ASSUME SidesAssumption == /\ IsFiniteSet(Sides) /\ Cardinality(Sides) = 2
                          /\ None \notin Sides
ASSUME TriesAssumption == Tries \in Nat \ {0}

Other(s) == CHOOSE o \in Sides : o # s

VARIABLES
  pc,       \* pc[s]: handleUP2P: "idle", "wait", "punch", "punched", "failed"
  stored,   \* stored[s]: the callback is in taskMap
  told,     \* told[s]: WaitCb has been given the result of the callback
  info,     \* info[s]: the address in the answer, which the callback keeps
  left,     \* left[s]: the turns of the offering goroutine that are left
  reader,   \* reader[s]: the reader of the box: "free", "stop", "report"
  turns,    \* turns[s]: the turns of handshakeUP2P that are left
  ear,      \* ear[s]: its reading goroutine: "off", "read", "heard", "stop", "gone"
  timeout,  \* timeout[s]: the flag the two share
  knocks,   \* knocks[s]: how often s has sent the id
  udp,      \* the datagrams sent so far
  online,   \* the sides the server has a connection of
  session,  \* the session is in proxyUP2PMap
  first,    \* c1 of the session, and c1PAddr
  second,   \* c2 of the session, and c2PAddr
  answer    \* answer[s]: the address in the P2PUdpA1 on its way to s

vars == <<pc, stored, told, info, left, reader, turns, ear, timeout, knocks, udp, online,
          session, first, second, answer>>
request == <<stored, told, info, left, reader>>
punch   == <<turns, ear, timeout, knocks>>
server  == <<online, session, first, second>>

OfferOf(s) == [to |-> None, src |-> s, kid |-> TRUE]
KnockOf(s) == [to |-> info[s], src |-> s, kid |-> TRUE]

(* What other sessions have left on the network: the id of another session   *)
(* from the address of the other side, and this id from another address.     *)
Strays == [to : Sides, src : Sides, kid : {FALSE}]
          \cup [to : Sides, src : {None}, kid : {TRUE}]

Init ==
  /\ pc = [s \in Sides |-> "idle"] /\ stored = [s \in Sides |-> FALSE]
  /\ told = [s \in Sides |-> FALSE] /\ info = [s \in Sides |-> None]
  /\ left = [s \in Sides |-> 0] /\ reader = [s \in Sides |-> "free"]
  /\ turns = [s \in Sides |-> 0] /\ ear = [s \in Sides |-> "off"]
  /\ timeout = [s \in Sides |-> TRUE] /\ knocks = [s \in Sides |-> 0]
  /\ udp = Strays /\ online = Sides /\ session = TRUE /\ first = None
  /\ second = None /\ answer = [s \in Sides |-> None]

Is(f, s, v) == f' = [f EXCEPT ![s] = v]

-----------------------------------------------------------------------------
(* handleUP2P: the offer and the answer *)

(* The socket, the offering goroutine, and WaitCb storing its callback. *)
Start(s) ==
  /\ pc[s] = "idle"
  /\ Is(pc, s, "wait") /\ Is(left, s, Tries) /\ Is(stored, s, TRUE)
  /\ UNCHANGED <<told, info, reader, punch, udp, server, answer>>

\* Mutant: the offering goroutine counts its turns without end.
OfferAgain(s) ==
  /\ left[s] > 0 /\ reader[s] # "stop" /\ pc[s] \in {"wait", "punch"}
  /\ Is(left, s, left[s] + 1)
  /\ udp' = udp \cup {OfferOf(s)}
  /\ UNCHANGED <<pc, stored, told, info, reader, punch, server, answer>>

(* The timer of the offering goroutine.  While the callback stands at       *)
(* stop <- the select takes that.                                           *)
Offer(s) ==
  /\ left[s] > 0 /\ reader[s] # "stop" /\ pc[s] \in {"wait", "punch"}
  /\ Is(left, s, left[s] - 1)
  /\ udp' = udp \cup {OfferOf(s)}
  /\ UNCHANGED <<pc, stored, told, info, reader, punch, server, answer>>

(* A write fails, always so once handleUP2P has closed the socket. *)
OfferFails(s) ==
  /\ left[s] > 0 /\ reader[s] # "stop"
  /\ Is(left, s, 0)
  /\ UNCHANGED <<pc, stored, told, info, reader, punch, udp, server, answer>>

(* break leaves the select only: the turn is used up, the loop goes on. *)
TakeStop(s) ==
  /\ left[s] > 0 /\ reader[s] = "stop"
  /\ Is(left, s, left[s] - 1) /\ Is(reader, s, "report")
  /\ UNCHANGED <<pc, stored, told, info, punch, udp, server, answer>>

(* The reader of the box gets the answer and runs the callback stored under *)
(* the id; without one cMsgHandler ignores the message.                     *)
Answered(s) ==
  /\ answer[s] # None /\ reader[s] = "free"
  /\ Is(answer, s, None)
  /\ IF stored[s]
     THEN Is(stored, s, FALSE) /\ Is(info, s, answer[s]) /\ Is(reader, s, "stop")
     ELSE UNCHANGED <<stored, info, reader>>
  /\ UNCHANGED <<pc, told, left, punch, udp, server>>

Report(s) ==
  /\ reader[s] = "report"
  /\ Is(reader, s, "free") /\ Is(told, s, TRUE)
  /\ UNCHANGED <<pc, stored, info, left, punch, udp, server, answer>>

(* WaitCb returns nil and handshakeUP2P starts. *)
Punch(s) ==
  /\ pc[s] = "wait" /\ told[s]
  /\ Is(pc, s, "punch") /\ Is(turns, s, Tries) /\ Is(ear, s, "read")
  /\ UNCHANGED <<request, timeout, knocks, udp, server, answer>>

\* Mutant: the wait has no timeout.
GiveUpNever(s) == s \notin Sides /\ UNCHANGED vars

(* WaitCb times out after ten seconds and deletes the callback. *)
GiveUp(s) ==
  /\ pc[s] = "wait"
  /\ Is(pc, s, "failed") /\ Is(stored, s, FALSE)
  /\ UNCHANGED <<told, info, left, reader, punch, udp, server, answer>>

-----------------------------------------------------------------------------
(* handshakeUP2P *)

(* The reading goroutine hears the id from the address of the other side.   *)
(* It looks at timeout before every ReadFrom, which fails on a socket       *)
(* handshakeUP2P has closed.                                                *)
Hear(s) ==
  /\ ear[s] = "read" /\ pc[s] = "punch"
  /\ \E d \in udp : d.to = s /\ d.src = info[s] /\ d.kid
  /\ Is(timeout, s, FALSE) /\ Is(ear, s, "heard")
  /\ UNCHANGED <<pc, request, turns, knocks, udp, server, answer>>

EarStops(s) ==
  /\ ear[s] = "heard" /\ Is(ear, s, "stop")
  /\ UNCHANGED <<pc, request, turns, timeout, knocks, udp, server, answer>>

EarFails(s) ==
  /\ ear[s] = "read" /\ pc[s] \in {"punched", "failed"}
  /\ Is(ear, s, "gone")
  /\ UNCHANGED <<pc, request, turns, timeout, knocks, udp, server, answer>>

Knock(s) ==
  /\ pc[s] = "punch" /\ turns[s] > 0 /\ ear[s] # "stop"
  /\ Is(turns, s, turns[s] - 1) /\ Is(knocks, s, knocks[s] + 1)
  /\ udp' = udp \cup {KnockOf(s)}
  /\ UNCHANGED <<pc, request, ear, timeout, server, answer>>

KnockFails(s) ==
  /\ pc[s] = "punch" /\ turns[s] > 0 /\ ear[s] # "stop"
  /\ Is(pc, s, "failed")
  /\ UNCHANGED <<request, punch, udp, server, answer>>

\* Mutant: hearing the other side ends the loop.
HeardLeaves(s) ==
  /\ pc[s] = "punch" /\ turns[s] > 0 /\ ear[s] = "stop"
  /\ Is(turns, s, 0) /\ Is(ear, s, "gone")
  /\ UNCHANGED <<pc, request, timeout, knocks, udp, server, answer>>

(* break leaves the select only: the loop goes on with its next turn. *)
Heard(s) ==
  /\ pc[s] = "punch" /\ turns[s] > 0 /\ ear[s] = "stop"
  /\ Is(turns, s, turns[s] - 1) /\ Is(ear, s, "gone")
  /\ UNCHANGED <<pc, request, timeout, knocks, udp, server, answer>>

Decide(s) ==
  /\ pc[s] = "punch" /\ turns[s] = 0
  /\ Is(pc, s, IF timeout[s] THEN "failed" ELSE "punched")
  /\ UNCHANGED <<request, punch, udp, server, answer>>

-----------------------------------------------------------------------------
(* The server: handleUP2P of ProxyServer and of proxyUP2P *)

\* Mutant: the second offer may come from the address of the first.
ServeAnyOffer(s) ==
  /\ OfferOf(s) \in udp /\ s \in online /\ session
  /\ \/ first = None /\ first' = s /\ UNCHANGED <<session, second, answer>>
     \/ /\ first # None
        /\ second' = s /\ session' = FALSE
        /\ answer' = [answer EXCEPT ![first] = IF first \in online THEN second' ELSE @,
                                    ![s] = first]
        /\ UNCHANGED first
  /\ UNCHANGED <<pc, request, punch, udp, online>>

(* An offer counts when its sender is registered and the session is known.  *)
(* The first is recorded; one from another address is recorded as well, and *)
(* c1 is sent the second address and c2 the first (a write to a client that *)
(* has gone is lost); the session is deleted.                               *)
ServeOffer(s) ==
  /\ OfferOf(s) \in udp /\ s \in online /\ session
  /\ \/ first = None /\ first' = s /\ UNCHANGED <<session, second, answer>>
     \/ /\ first \notin {None, s}
        /\ second' = s /\ session' = FALSE
        /\ answer' = [answer EXCEPT ![first] = IF first \in online THEN second' ELSE @,
                                    ![s] = first]
        /\ UNCHANGED first
  /\ UNCHANGED <<pc, request, punch, udp, online>>

(* delExpireUP2P *)
Expire ==
  /\ session /\ session' = FALSE
  /\ UNCHANGED <<pc, request, punch, udp, online, first, second, answer>>

Disconnect(s) ==
  /\ s \in online /\ online' = online \ {s}
  /\ UNCHANGED <<pc, request, punch, udp, session, first, second, answer>>

-----------------------------------------------------------------------------
Waiter(s)  == Start(s) \/ Punch(s) \/ GiveUp(s)
Offerer(s) == Offer(s) \/ OfferFails(s) \/ TakeStop(s)
Reader(s)  == Answered(s) \/ Report(s)
Puncher(s) == Knock(s) \/ KnockFails(s) \/ Heard(s) \/ Decide(s)
Ear(s)     == Hear(s) \/ EarStops(s) \/ EarFails(s)

Next == \/ \E s \in Sides : \/ Waiter(s) \/ Offerer(s) \/ Reader(s) \/ Puncher(s) \/ Ear(s)
                            \/ ServeOffer(s) \/ Disconnect(s)
        \/ Expire

Spec == Init /\ [][Next]_vars

(* Goroutines run and timers fire; nothing is assumed of the network, of the *)
(* server, or of what a goroutine hears.                                     *)
FairSpec == /\ Spec
            /\ \A s \in Sides : WF_vars(Punch(s) \/ GiveUp(s)) /\ WF_vars(Offerer(s))
                                /\ WF_vars(Reader(s)) /\ WF_vars(Puncher(s))

-----------------------------------------------------------------------------
TypeOK ==
  /\ pc \in [Sides -> {"idle", "wait", "punch", "punched", "failed"}]
  /\ stored \in [Sides -> BOOLEAN] /\ told \in [Sides -> BOOLEAN]
  /\ info \in [Sides -> Sides \cup {None}] /\ left \in [Sides -> 0 .. Tries]
  /\ reader \in [Sides -> {"free", "stop", "report"}]
  /\ turns \in [Sides -> 0 .. Tries]
  /\ ear \in [Sides -> {"off", "read", "heard", "stop", "gone"}]
  /\ timeout \in [Sides -> BOOLEAN] /\ knocks \in [Sides -> 0 .. Tries]
  /\ udp \subseteq [to : Sides \cup {None}, src : Sides \cup {None}, kid : BOOLEAN]
  /\ online \subseteq Sides /\ session \in BOOLEAN /\ first \in Sides \cup {None}
  /\ second \in Sides \cup {None}
  /\ answer \in [Sides -> Sides \cup {None}]

(* However often an offer is repeated, duplicated or late, and whichever      *)
(* side has gone meanwhile, the server never takes two offers of one side    *)
(* for the two sides: nobody is told its own address, and punches at itself. *)
PairedWithOther == \A s \in Sides : info[s] # s /\ answer[s] # s

(* Who takes the hole for open has heard this session's id from the other    *)
(* side, and no datagram of another session passed for it; and has sent the  *)
(* id all but once itself, even if it heard the other side first: the other  *)
(* side can hear it although all but one of its datagrams may be lost.       *)
PunchedMeansOpen ==
  \A s \in Sides : pc[s] = "punched" => knocks[Other(s)] > 0 /\ knocks[s] >= Tries - 1

(* handleUP2P returns, whatever the server, the other side and the network   *)
(* do or fail to do.                                                         *)
HandleReturns ==
  \A s \in Sides : (pc[s] = "wait") ~> (pc[s] \in {"punched", "failed"})

(* The callback of the answer gets out, so that the reader of the box goes   *)
(* on with pongs, answers and pushes.                                        *)
ReaderGoesOn == \A s \in Sides : (reader[s] = "stop") ~> (reader[s] = "free")
=============================================================================

------------------------------- MODULE SubDial -------------------------------
(***************************************************************************)
(* How two boxes come to share a sub (GetSubBox): several dials between    *)
(* several boxes, through one server.                                      *)
(*                                                                         *)
(* A dial asks the server (SOpenQ).  The handler of the asker's connection *)
(* makes a task room, pushes its key to the box that is dialed and then    *)
(* answers the asker.  Both open a connection of their own, the sub, and   *)
(* ask to join the room (TaskQ); when the second joins, the two are linked *)
(* and told (TaskA).                                                       *)
(*                                                                         *)
(* The box that is dialed does its half on the reader of its connection,   *)
(* which reads nothing else meanwhile, not even the answers its own dials  *)
(* wait for.  Every wait has a timer of 10 s, which tells neither the      *)
(* server nor the partner.                                                 *)
(*                                                                         *)
(* Every box listens and its application takes the subs it is offered      *)
(* (DeviceBox has the queue); joining and linking are one step             *)
(* (ProxyServer has theirs); the relay of a linked pair is LinkRelay's, of *)
(* which only this is left here: an application need not read its sub, and *)
(* the handler that writes to it then stands still and reads nothing.      *)
(***************************************************************************)
EXTENDS Naturals, Sequences, FiniteSets, SequencesExt

CONSTANTS Boxes,    \* the boxes the server knows
          Dials,    \* bound: the calls of GetSubBox that are ever made
          Cases,    \* who dials whom, and what may happen
          None

ASSUME CasesAssumption ==
  \A g \in Cases : /\ g.mode \in {"patient", "timers", "faults"}
                   /\ DOMAIN g.from \subseteq Dials /\ DOMAIN g.to = DOMAIN g.from
                   /\ \A d \in DOMAIN g.from : g.from[d] \in Boxes
ASSUME NoneAssumption == None \notin Boxes \cup Dials

Sides == {"caller", "callee"}
Partner(s) == IF s = "caller" THEN "callee" ELSE "caller"
Push(d) == [kind |-> "push", dial |-> d, ok |-> TRUE]
Answer(d, ok) == [kind |-> "answer", dial |-> d, ok |-> ok]
Messages == [kind : {"push", "answer"}, dial : Dials, ok : BOOLEAN]

VARIABLES
  case,     \* the member of Cases this is
  request,  \* request[b]: dials whose SOpenQ the server has not handled
  pushed,   \* pushed[b]: the first of them has been pushed, not yet answered
  inbox,    \* inbox[b]: messages on their way to the reader of b
  reader,   \* reader[b]: the dial the reader of b is joining
  room,     \* room[d]: "none", "empty", the side that came first, "full", "deleted"
  end,      \* end[d][s]: how far side s of dial d has got
  srv,      \* srv[d][s]: the server's handler of the sub
  told,     \* told[d][s]: the TaskA sent to it
  link      \* link[d]: "no", "live", or "stale" when one side was closed already

vars == <<case, request, pushed, inbox, reader, room, end, srv, told, link>>
boxes == <<request, pushed, inbox>>
subs  == <<srv, told, link>>

Active == DOMAIN case.from
Timers == case.mode \in {"timers", "faults"}
Faults == case.mode = "faults"
Owner(d, s) == IF s = "caller" THEN case.from[d] ELSE case.to[d]

Init ==
  /\ case \in Cases
  /\ request = [b \in Boxes |-> <<>>] /\ pushed = [b \in Boxes |-> FALSE]
  /\ inbox = [b \in Boxes |-> <<>>] /\ reader = [b \in Boxes |-> None]
  /\ room = [d \in Dials |-> "none"]
  /\ end = [d \in Dials |-> [s \in Sides |-> "none"]]
  /\ srv = [d \in Dials |-> [s \in Sides |-> "none"]]
  /\ told = [d \in Dials |-> [s \in Sides |-> "no"]]
  /\ link = [d \in Dials |-> "no"]

-----------------------------------------------------------------------------
(* The boxes *)

Becomes(d, s, e) == end' = [end EXCEPT ![d][s] = e]

\* The reader is done with the sub it was joining, if this is its side.
Resume(d, s) ==
  reader' = IF s = "callee" THEN [reader EXCEPT ![case.to[d]] = None] ELSE reader

\* GetSubBox sends SOpenQ and waits for its answer.
Ask(d) ==
  /\ end[d]["caller"] = "none"
  /\ Becomes(d, "caller", "asked")
  /\ request' = [request EXCEPT ![case.from[d]] = Append(@, d)]
  /\ UNCHANGED <<case, pushed, inbox, reader, room, subs>>

AskTimesOut(d) ==
  /\ Timers /\ end[d]["caller"] = "asked"
  /\ Becomes(d, "caller", "failed")
  /\ UNCHANGED <<case, boxes, reader, room, subs>>

\* An answer nobody waits for goes to listenSub, which wants an empty id.
ReadAnswer(b) ==
  /\ reader[b] = None /\ inbox[b] # <<>> /\ Head(inbox[b]).kind = "answer"
  /\ inbox' = [inbox EXCEPT ![b] = Tail(@)]
  /\ LET m == Head(inbox[b])
     IN  IF end[m.dial]["caller"] = "asked"
         THEN Becomes(m.dial, "caller", IF m.ok THEN "open" ELSE "failed")
         ELSE UNCHANGED end
  /\ UNCHANGED <<case, request, pushed, reader, room, subs>>

\* listenSub begins, on the reader's goroutine.
ReadPush(b) ==
  /\ reader[b] = None /\ inbox[b] # <<>> /\ Head(inbox[b]).kind = "push"
  /\ inbox' = [inbox EXCEPT ![b] = Tail(@)]
  /\ reader' = [reader EXCEPT ![b] = Head(inbox[b]).dial]
  /\ Becomes(Head(inbox[b]).dial, "callee", "open")
  /\ UNCHANGED <<case, request, pushed, room, subs>>

\* The sub's own connection, and TaskQ on it.
Connect(d, s) ==
  /\ end[d][s] = "open"
  /\ Becomes(d, s, "joining")
  /\ srv' = [srv EXCEPT ![d][s] = "asked"]
  /\ UNCHANGED <<case, boxes, reader, room, told, link>>

ConnectFails(d, s) ==
  /\ Faults /\ end[d][s] = "open"
  /\ Becomes(d, s, "failed") /\ Resume(d, s)
  /\ UNCHANGED <<case, boxes, room, subs>>

\* TaskA: the sub is the application's, or it is closed.
ReadTold(d, s) ==
  /\ end[d][s] = "joining" /\ told[d][s] # "no"
  /\ Becomes(d, s, IF told[d][s] = "ok" THEN "ok" ELSE "failed") /\ Resume(d, s)
  /\ UNCHANGED <<case, boxes, room, subs>>

\* Mutant: the handshake of a pushed sub has no timer.
JoinTimesOutForCallers(d, s) ==
  /\ Timers /\ end[d][s] = "joining" /\ s = "caller"
  /\ Becomes(d, s, "failed") /\ Resume(d, s)
  /\ UNCHANGED <<case, boxes, room, subs>>

\* WaitCb of the handshake gives up and the sub is closed.  The error of the
\* sub's reader does not wake it: a handshake the server ended waits as long.
JoinTimesOut(d, s) ==
  /\ Timers /\ end[d][s] = "joining"
  /\ Becomes(d, s, "failed") /\ Resume(d, s)
  /\ UNCHANGED <<case, boxes, room, subs>>

\* The application closes its sub.
CloseSub(d, s) ==
  /\ Faults /\ end[d][s] = "ok"
  /\ Becomes(d, s, "closed")
  /\ UNCHANGED <<case, boxes, reader, room, subs>>

-----------------------------------------------------------------------------
(* The server *)

\* SOpenQ of a box it knows: a room, and the push to the other box.
PushRoom(b) ==
  /\ request[b] # <<>> /\ ~pushed[b]
  /\ LET d == Head(request[b]) IN
       /\ case.to[d] \in Boxes
       /\ room' = [room EXCEPT ![d] = "empty"]
       /\ inbox' = [inbox EXCEPT ![case.to[d]] = Append(@, Push(d))]
  /\ pushed' = [pushed EXCEPT ![b] = TRUE]
  /\ UNCHANGED <<case, request, reader, end, subs>>

\* The answer follows the push; a name nobody has is refused at once.
AnswerAsker(b) ==
  /\ request[b] # <<>>
  /\ LET d == Head(request[b]) IN
       /\ pushed[b] \/ case.to[d] \notin Boxes
       /\ inbox' = [inbox EXCEPT ![b] = Append(@, Answer(d, pushed[b]))]
  /\ request' = [request EXCEPT ![b] = Tail(@)]
  /\ pushed' = [pushed EXCEPT ![b] = FALSE]
  /\ UNCHANGED <<case, reader, room, end, subs>>

\* The room is full or collected: TaskA with an error, and the sub is closed.
JoinRefused(d, s) ==
  /\ srv[d][s] = "asked" /\ room[d] = "deleted"
  /\ told' = [told EXCEPT ![d][s] = "bad"]
  /\ srv' = [srv EXCEPT ![d][s] = "closed"]
  /\ UNCHANGED <<case, boxes, reader, room, end, link>>

JoinFirst(d, s) ==
  /\ srv[d][s] = "asked" /\ room[d] = "empty"
  /\ room' = [room EXCEPT ![d] = s]
  /\ srv' = [srv EXCEPT ![d][s] = "waiting"]
  /\ UNCHANGED <<case, boxes, reader, end, told, link>>

HasLeft(d, s) == end[d][s] \in {"failed", "closed"}

\* Mutant: only the one that joins is told.
JoinSecondTellsOne(d, s) ==
  /\ srv[d][s] = "asked" /\ room[d] = Partner(s)
  /\ room' = [room EXCEPT ![d] = "full"]
  /\ link' = [link EXCEPT ![d] = IF srv[d][Partner(s)] = "closed" THEN "stale" ELSE "live"]
  /\ srv' = [srv EXCEPT ![d] = [t \in Sides |-> IF @[t] = "closed" THEN "closed" ELSE "linked"]]
  /\ told' = [told EXCEPT ![d][s] = "ok"]
  /\ UNCHANGED <<case, boxes, reader, end>>

\* Mutant: the first is told from the room, whatever became of its connection.
JoinSecondTellsBoth(d, s) ==
  /\ srv[d][s] = "asked" /\ room[d] = Partner(s)
  /\ room' = [room EXCEPT ![d] = "full"]
  /\ link' = [link EXCEPT ![d] = IF srv[d][Partner(s)] = "closed" THEN "stale" ELSE "live"]
  /\ srv' = [srv EXCEPT ![d] = [t \in Sides |-> IF @[t] = "closed" THEN "closed" ELSE "linked"]]
  /\ told' = [told EXCEPT ![d] = [t \in Sides |-> "ok"]]
  /\ UNCHANGED <<case, boxes, reader, end>>

\* The second joins: the two are linked, and both told, the first one first.
\* What is written to a closed connection is lost.  A write to one whose client
\* has left may fail: it is closed, and with it the one it is linked to.
JoinSecond(d, s) ==
  /\ srv[d][s] = "asked" /\ room[d] = Partner(s)
  /\ room' = [room EXCEPT ![d] = "full"]
  /\ LET open == {t \in Sides : srv[d][t] # "closed"}
     IN  /\ link' = [link EXCEPT ![d] = IF open = Sides THEN "live" ELSE "stale"]
         /\ \/ /\ srv' = [srv EXCEPT ![d] = [t \in Sides |-> IF t \in open THEN "linked" ELSE "closed"]]
               /\ told' = [told EXCEPT ![d] = [t \in Sides |-> IF t \in open THEN "ok" ELSE "no"]]
            \/ \E t \in open :
               /\ HasLeft(d, t)
               /\ srv' = [srv EXCEPT ![d] = [u \in Sides |-> "closed"]]
               /\ told' = [told EXCEPT ![d] = [u \in Sides |->
                             IF t = s /\ u \in open THEN "ok" ELSE "no"]]
  /\ UNCHANGED <<case, boxes, reader, end>>

\* Mutant: a closed sub leaves the one it is linked to alone.
SubEndsAlone(d, s) ==
  /\ srv[d][s] \in {"waiting", "linked"} /\ HasLeft(d, s)
  /\ srv' = [srv EXCEPT ![d][s] = "closed"]
  /\ UNCHANGED <<case, boxes, reader, room, end, told, link>>

\* close: the sub, and the one it is linked to.  The close of a sub that was
\* not yet linked is its only one: a link made later does not end with it.
CloseBoth(d, s) ==
  srv' = [srv EXCEPT ![d] = [t \in Sides |->
            IF t = s \/ link[d] # "no" THEN "closed" ELSE @[t]]]

\* The relay of s stands in the write to a partner whose application does not read:
\* joinTaskRoom has lifted the deadlines, and nobody reads the connection of s.
Stall(d, s) ==
  /\ Faults /\ end[d][s] = "ok" /\ srv[d][s] = "linked" /\ link[d] = "live"
  /\ ~HasLeft(d, Partner(s))
  /\ srv' = [srv EXCEPT ![d][s] = "stuck"]
  /\ UNCHANGED <<case, boxes, reader, room, end, told, link>>

\* The partner reads on.
Drain(d, s) ==
  /\ srv[d][s] = "stuck" /\ ~HasLeft(d, Partner(s))
  /\ srv' = [srv EXCEPT ![d][s] = "linked"]
  /\ UNCHANGED <<case, boxes, reader, room, end, told, link>>

\* The partner has left: the write fails.
StuckFails(d, s) ==
  /\ srv[d][s] = "stuck" /\ HasLeft(d, Partner(s))
  /\ CloseBoth(d, s)
  /\ UNCHANGED <<case, boxes, reader, room, end, told, link>>

\* The client has left and the handler, which is at its read, reads the end of
\* the connection.
SubEnds(d, s) ==
  /\ srv[d][s] \in {"waiting", "linked"} /\ HasLeft(d, s)
  /\ CloseBoth(d, s)
  /\ UNCHANGED <<case, boxes, reader, room, end, told, link>>

\* The connection the handler is busy with breaks (its own or, when it is stuck,
\* its partner's), or the deadline of tcpHandler passes before the link.
SubLost(d, s) ==
  /\ Faults /\ srv[d][s] \in {"asked", "waiting", "linked", "stuck"}
  /\ CloseBoth(d, s)
  /\ UNCHANGED <<case, boxes, reader, room, end, told, link>>

\* The owner of a sub writes; what is written to a closed partner ends it.
WriteEnds(d, s) ==
  /\ end[d][s] = "ok" /\ srv[d][s] = "linked" /\ srv[d][Partner(s)] = "closed"
  /\ srv' = [srv EXCEPT ![d][s] = "closed"]
  /\ UNCHANGED <<case, boxes, reader, room, end, told, link>>

\* The one run of delExpireTaskRoom finds the room 30 s old.
RoomCollected(d) ==
  /\ Faults /\ room[d] \in {"empty"} \cup Sides
  /\ room' = [room EXCEPT ![d] = "deleted"]
  /\ UNCHANGED <<case, boxes, reader, end, subs>>

-----------------------------------------------------------------------------

BoxStep(b) == ReadAnswer(b) \/ ReadPush(b)
ServerStep(b) == PushRoom(b) \/ AnswerAsker(b)
SubStep(d, s) == Connect(d, s) \/ ReadTold(d, s)
Timer(d, s) == JoinTimesOut(d, s) \/ (s = "caller" /\ AskTimesOut(d))
JoinStep(d, s) == JoinRefused(d, s) \/ JoinFirst(d, s) \/ JoinSecond(d, s)

Next ==
  \/ \E b \in Boxes : BoxStep(b) \/ ServerStep(b)
  \/ \E d \in Active : Ask(d) \/ RoomCollected(d)
  \/ \E d \in Active, s \in Sides :
       \/ SubStep(d, s) \/ Timer(d, s) \/ JoinStep(d, s) \/ SubEnds(d, s)
       \/ ConnectFails(d, s) \/ CloseSub(d, s) \/ SubLost(d, s) \/ WriteEnds(d, s)
       \/ Stall(d, s) \/ Drain(d, s) \/ StuckFails(d, s)

Spec == Init /\ [][Next]_vars

\* What the goroutines and the timers do of themselves; nobody has to dial, to
\* read, to write or to close, and nothing has to fail.
Prompt ==
  \/ \E b \in Boxes : BoxStep(b) \/ ServerStep(b)
  \/ \E d \in Active, s \in Sides : SubStep(d, s) \/ Timer(d, s) \/ JoinStep(d, s)
                                    \/ SubEnds(d, s) \/ StuckFails(d, s)

\* None of these steps can be taken for ever, so fairness need not say whose turn
\* it is.
Fairness == WF_vars(Prompt)

FairSpec == Spec /\ Fairness

-----------------------------------------------------------------------------
(* Properties *)

\* The variables have their types.
TypeOK ==
  /\ case \in Cases
  /\ request \in [Boxes -> Seq(Dials)] /\ pushed \in [Boxes -> BOOLEAN]
  /\ inbox \in [Boxes -> Seq(Messages)] /\ reader \in [Boxes -> Dials \cup {None}]
  /\ room \in [Dials -> {"none", "empty", "full", "deleted"} \cup Sides]
  /\ end \in [Dials -> [Sides -> {"none", "asked", "open", "joining", "ok", "failed", "closed"}]]
  /\ srv \in [Dials -> [Sides -> {"none", "asked", "waiting", "linked", "stuck", "closed"}]]
  /\ told \in [Dials -> [Sides -> {"no", "ok", "bad"}]]
  /\ link \in [Dials -> {"no", "live", "stale"}]

\* Two applications that were both given their end of a dial were given the
\* ends of a link that has worked, however their handshakes, their timers and
\* the losses of their connections fell out (joinTaskRoom reads neither
\* disable nor the result of its writes).
BothGivenMeansLinked ==
  \A d \in Dials : (\A s \in Sides : end[d][s] \in {"ok", "closed"}) => link[d] = "live"

\* No box dials one that could be waiting for it.
Acyclic == \A d \in Active : case.to[d] \in Boxes => case.from[d] < case.to[d]

\* The dial has got both applications a sub, or the asker a refusal.
Settled(d) ==
  d \in Active => IF case.to[d] \in Boxes THEN \A s \in Sides : end[d][s] = "ok"
                                          ELSE end[d]["caller"] = "failed"

\* Where nothing fails and no circle of boxes dial each other, no timer is
\* needed: every dial of a known box hands a sub to both applications, although
\* each reader stands still while it joins, and a refused one returns.
DialsSucceed ==
  (~Timers /\ Acyclic) =>
    \A d \in Dials : end[d]["caller"] = "asked" ~> Settled(d)

\* With the timers every dial returns, whoever dials whom, and every reader
\* gets back to reading: boxes that dial each other, or themselves, stand
\* still for a timeout and not for ever.
DialsReturn ==
  Timers =>
    /\ \A d \in Dials : end[d]["caller"] = "asked" ~> end[d]["caller"] \in {"ok", "failed", "closed"}
    /\ \A b \in Boxes : inbox[b] # <<>> ~> (reader[b] = None /\ inbox[b] = <<>>)

\* A live link ends on both sides when the application of one closes its sub, or
\* gave up before it was told; unless the handler of that sub stands for ever in a
\* write to the other one, whose application neither reads nor leaves.
EndsTogether ==
  \A d \in Dials, s \in Sides :
    (link[d] = "live" /\ HasLeft(d, s)) ~>
      (srv[d][Partner(s)] = "closed" \/ [](srv[d][s] = "stuck"))

\* By hand (SubDialStuck.cfg), and false: the same without the exception.
EndsAnyway ==
  \A d \in Dials, s \in Sides : (link[d] = "live" /\ HasLeft(d, s)) ~> srv[d][Partner(s)] = "closed"

\* By hand (SubDialStale.cfg), and false: a sub ends when the partner it was
\* promised has given up.
AloneEnds ==
  \A d \in Dials, s \in Sides :
    (end[d][s] = "ok" /\ HasLeft(d, Partner(s))) ~> srv[d][s] = "closed"

\* By hand (SubDialCross.cfg), and false: no timer is needed, whoever dials whom.
CrossDialsSucceed ==
  ~Timers => \A d \in Dials : end[d]["caller"] = "asked" ~> Settled(d)

=============================================================================

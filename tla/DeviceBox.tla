----------------------------- MODULE DeviceBox -----------------------------
(***************************************************************************)
(* A client's DeviceBox (client/client.go, client_box.go, client_up2p.go): *)
(* how sub connections get from the goroutine that opens them to the       *)
(* application that listens, and how Close ends all of it.                 *)
(*                                                                         *)
(* The goroutines: the reader of the box connection, which opens a sub for *)
(* every SOpenA the server pushes; the pinger; one goroutine per UDP hole  *)
(* being punched; the application's own, which listen (ListenSubBox),      *)
(* accept (ListenSubBoxOnce), wait, dial (GetSubBox) and close.            *)
(*                                                                         *)
(* Close runs its body once (sync.Once); every other caller waits for it.  *)
(* The body is modelled as a process of its own, closing, whoever's        *)
(* goroutine it runs on.  A channel of capacity 0 is a rendezvous: one     *)
(* step of both goroutines.  Dialing the server and the handshake of a sub *)
(* are one step that yields a live sub or nothing.                         *)
(***************************************************************************)
EXTENDS Naturals, Sequences, FiniteSets

CONSTANTS Reader, Pinger,
          Punchers,   \* goroutines started by listenUP2P
          Listeners,  \* goroutines that call ListenSubBox
          Accepters,  \* goroutines that call ListenSubBoxOnce, again and again
          Waiters,    \* goroutines that call Wait
          Dialers,    \* goroutines that call GetSubBox
          Closers,    \* goroutines that call Close
          Subs,       \* bound: the subs that are ever opened
          QueueCap,   \* capacity of subListen (100 in the code)
          None

Openers == {Reader} \cup Punchers
Threads == {Reader, Pinger} \cup Punchers \cup Listeners \cup Accepters \cup Waiters
           \cup Dialers \cup Closers

ASSUME QueueAssumption == QueueCap \in Nat \ {0}
ASSUME NoneAssumption == None \notin Threads \cup Subs \cup {"close"}

VARIABLES
  conn,     \* the connection to the server is up
  mode,     \* "none"; or who made the listen channels: "listen", "accept"
  queue,    \* subListen
  token,    \* errors in subListenStop
  stop,     \* tokens in stop
  closing,  \* how far the body of Close has got
  lock,     \* the holder of subMapLock
  disable,
  subMap,
  sub,      \* sub[x]: "new", "live", "closed"
  app,      \* the subs the application has been given
  pc,       \* pc[h]: where goroutine h is
  held      \* held[h]: the sub goroutine h has in hand

vars == <<conn, mode, queue, token, stop, closing, lock, disable, subMap, sub, app, pc, held>>
channels == <<mode, queue, token>>
ending   == <<stop, closing, lock, disable>>
table    == <<subMap, sub, app>>

Init ==
  /\ conn = TRUE /\ mode = "none" /\ queue = <<>> /\ token = 0
  /\ stop = 0 /\ closing = "no" /\ lock = None /\ disable = FALSE
  /\ subMap = {} /\ sub = [x \in Subs |-> "new"] /\ app = {}
  /\ pc = [h \in Threads |-> IF h = Reader THEN "read"
                             ELSE IF h = Pinger THEN "wait" ELSE "idle"]
  /\ held = [h \in Threads |-> None]

Goto(h, label) == pc' = [pc EXCEPT ![h] = label]
Hold(h, x) == held' = [held EXCEPT ![h] = x]

\* A stop error can be put back: there is room in the buffer.
RoomForToken == mode = "listen" /\ token = 0

----------------------------------------------------------------------------
(* Opening a sub and offering it to the application *)

\* A fresh sub connection, whichever, in the hands of h.
Open(h) ==
  /\ \E x \in Subs : sub[x] = "new"
  /\ LET x == CHOOSE y \in Subs : sub[y] = "new"
     IN  sub' = [sub EXCEPT ![x] = "live"] /\ Hold(h, x)

\* The reader ignores SOpenA unless somebody has started to listen.
OpenPushed ==
  /\ pc[Reader] = "read" /\ conn /\ mode # "none"
  /\ Open(Reader)
  /\ Goto(Reader, "offer")
  /\ UNCHANGED <<conn, subMap, app>> /\ UNCHANGED channels /\ UNCHANGED ending

\* A puncher does not check: with no channels its select waits for ever.
OpenPunched(h) ==
  /\ pc[h] = "idle" /\ conn
  /\ Open(h)
  /\ Goto(h, IF mode = "none" THEN "stuck" ELSE "offer")
  /\ UNCHANGED <<conn, subMap, app>> /\ UNCHANGED channels /\ UNCHANGED ending

\* Mutant: a queue without a bound.
OfferAlways(h) ==
  /\ pc[h] = "offer" /\ mode = "listen"
  /\ queue' = Append(queue, held[h])
  /\ Goto(h, "set")
  /\ UNCHANGED <<conn, mode, token, held>> /\ UNCHANGED table /\ UNCHANGED ending

\* The select at the end of listenSub: the queue, or the stop error.
Offer(h) ==
  /\ pc[h] = "offer" /\ mode = "listen" /\ Len(queue) < QueueCap
  /\ queue' = Append(queue, held[h])
  /\ Goto(h, "set")
  /\ UNCHANGED <<conn, mode, token, held>> /\ UNCHANGED table /\ UNCHANGED ending

\* With capacity 0 the sub goes straight to a goroutine in ListenSubBoxOnce.
HandOver(h, a) ==
  /\ pc[h] = "offer" /\ mode = "accept" /\ pc[a] = "accept"
  /\ app' = app \cup {held[h]}
  /\ pc' = [pc EXCEPT ![h] = "set", ![a] = "idle"]
  /\ UNCHANGED <<conn, subMap, sub, held>> /\ UNCHANGED channels /\ UNCHANGED ending

TakeStop(h) ==
  /\ pc[h] = "offer" /\ token = 1
  /\ token' = 0
  /\ Goto(h, "reput")
  /\ UNCHANGED <<conn, mode, queue, held>> /\ UNCHANGED table /\ UNCHANGED ending

\* SubBox.Close: the connection, and the entry in the map of its box.
CloseSubs(S) ==
  /\ sub' = [x \in Subs |-> IF x \in S THEN "closed" ELSE sub[x]]
  /\ subMap' = subMap \ S

\* With capacity 0 a stop error goes straight to somebody in a select on it: an
\* accepter, whose call returns, or an opener, which has to pass it on.
TakesStop(t) == \/ t \in Accepters /\ pc[t] = "accept"
                \/ t \in Openers /\ pc[t] = "offer"
AfterStop(t) == IF pc[t] = "accept" THEN "idle" ELSE "reput"

\* The stop error goes back, for the next one to find, and the sub is closed.
PutBack(h) ==
  /\ pc[h] = "reput" /\ RoomForToken
  /\ token' = 1
  /\ CloseSubs({held[h]}) /\ Hold(h, None)
  /\ Goto(h, IF h = Reader THEN "read" ELSE "gone")
  /\ UNCHANGED <<conn, mode, queue, app>> /\ UNCHANGED ending

\* With capacity 0 it goes back into the hands of another.
PutBackTo(h, t) ==
  /\ pc[h] = "reput" /\ mode = "accept" /\ TakesStop(t)
  /\ CloseSubs({held[h]}) /\ Hold(h, None)
  /\ pc' = [pc EXCEPT ![h] = IF h = Reader THEN "read" ELSE "gone", ![t] = AfterStop(t)]
  /\ UNCHANGED <<conn, app>> /\ UNCHANGED channels /\ UNCHANGED ending

\* Mutant: setSubBox without the look at disable.
SetSubBoxAlways(h) ==
  /\ pc[h] = "set" /\ lock = None
  /\ subMap' = subMap \cup {held[h]}
  /\ app' = IF h \in Dialers THEN app \cup {held[h]} ELSE app
  /\ Hold(h, None)
  /\ Goto(h, IF h = Reader THEN "read" ELSE "gone")
  /\ UNCHANGED <<conn, sub>> /\ UNCHANGED channels /\ UNCHANGED ending

\* setSubBox, for a sub that may long be in the application's hands.
SetSubBox(h) ==
  /\ pc[h] = "set" /\ lock = None
  /\ IF disable THEN CloseSubs({held[h]})
                ELSE subMap' = subMap \cup {held[h]} /\ sub' = sub
  /\ app' = IF h \in Dialers THEN app \cup {held[h]} ELSE app
  /\ Hold(h, None)
  /\ Goto(h, IF h = Reader THEN "read" ELSE "gone")
  /\ UNCHANGED conn /\ UNCHANGED channels /\ UNCHANGED ending

\* ReadCMsg fails and the deferred Close runs.
ReaderEnds ==
  /\ pc[Reader] = "read" /\ ~conn
  /\ Goto(Reader, "close")
  /\ UNCHANGED <<conn, held>> /\ UNCHANGED channels /\ UNCHANGED table /\ UNCHANGED ending

\* GetSubBox, up to the finished handshake.
Dial(h) ==
  /\ pc[h] = "idle" /\ conn
  /\ Open(h)
  /\ Goto(h, "set")
  /\ UNCHANGED <<conn, subMap, app>> /\ UNCHANGED channels /\ UNCHANGED ending

----------------------------------------------------------------------------
(* The application *)

\* ListenSubBox makes the channels; a second listener panics in SetLogError.
\* It asks neither disable nor whether Close has run.
Listen(h) ==
  /\ pc[h] = "idle" /\ mode = "none"
  /\ mode' = "listen"
  /\ Goto(h, "loop")
  /\ UNCHANGED <<conn, queue, token, held>> /\ UNCHANGED table /\ UNCHANGED ending

ListenNext(h) ==
  /\ pc[h] = "loop" /\ queue # <<>>
  /\ app' = app \cup {Head(queue)}
  /\ queue' = Tail(queue)
  /\ UNCHANGED <<conn, mode, token, subMap, sub, pc, held>> /\ UNCHANGED ending

\* Mutant: the listener keeps the stop error.
ListenStopKeeps(h) ==
  /\ pc[h] = "loop" /\ token = 1
  /\ token' = 0
  /\ Goto(h, "gone")
  /\ UNCHANGED <<conn, mode, queue, held>> /\ UNCHANGED table /\ UNCHANGED ending

ListenStop(h) ==
  /\ pc[h] = "loop" /\ token = 1
  /\ token' = 0
  /\ Goto(h, "unloop")
  /\ UNCHANGED <<conn, mode, queue, held>> /\ UNCHANGED table /\ UNCHANGED ending

ListenReturn(h) ==
  /\ pc[h] = "unloop" /\ RoomForToken
  /\ token' = 1
  /\ Goto(h, "gone")
  /\ UNCHANGED <<conn, mode, queue, held>> /\ UNCHANGED table /\ UNCHANGED ending

\* ListenSubBoxOnce: makes the channels, or takes the ones there are.
Accept(h) ==
  /\ pc[h] = "idle"
  /\ mode' = IF mode = "none" THEN "accept" ELSE mode
  /\ Goto(h, "accept")
  /\ UNCHANGED <<conn, queue, token, held>> /\ UNCHANGED table /\ UNCHANGED ending

AcceptQueued(h) ==
  /\ pc[h] = "accept" /\ queue # <<>>
  /\ app' = app \cup {Head(queue)}
  /\ queue' = Tail(queue)
  /\ Goto(h, "idle")
  /\ UNCHANGED <<conn, mode, token, subMap, sub, held>> /\ UNCHANGED ending

AcceptStop(h) ==
  /\ pc[h] = "accept" /\ token = 1
  /\ token' = 0
  /\ Goto(h, "idle")
  /\ UNCHANGED <<conn, mode, queue, held>> /\ UNCHANGED table /\ UNCHANGED ending

\* The application closes a sub it was given.
CloseSub(x) ==
  /\ x \in app /\ sub[x] = "live"
  /\ CloseSubs({x})
  /\ UNCHANGED <<conn, app, pc, held>> /\ UNCHANGED channels /\ UNCHANGED ending

WaitCall(h) ==
  /\ pc[h] = "idle"
  /\ Goto(h, "wait")
  /\ UNCHANGED <<conn, held>> /\ UNCHANGED channels /\ UNCHANGED table /\ UNCHANGED ending

\* Wait and the pinger take the stop token and put it back.
WaitTake(h) ==
  /\ pc[h] = "wait" /\ stop = 1
  /\ stop' = 0
  /\ Goto(h, "rewait")
  /\ UNCHANGED <<conn, closing, lock, disable, held>> /\ UNCHANGED channels /\ UNCHANGED table

\* Mutant: the token is not put back.
WaitPutBackNot(h) ==
  /\ pc[h] = "rewait"
  /\ Goto(h, IF h = Pinger THEN "close" ELSE "gone")
  /\ UNCHANGED <<conn, stop, closing, lock, disable, held>>
  /\ UNCHANGED channels /\ UNCHANGED table

WaitPutBack(h) ==
  /\ pc[h] = "rewait" /\ stop = 0
  /\ stop' = 1
  /\ Goto(h, IF h = Pinger THEN "close" ELSE "gone")
  /\ UNCHANGED <<conn, closing, lock, disable, held>> /\ UNCHANGED channels /\ UNCHANGED table

----------------------------------------------------------------------------
(* Close *)

\* The server or the network ends the connection.
Drop ==
  /\ conn
  /\ conn' = FALSE
  /\ UNCHANGED <<pc, held>> /\ UNCHANGED channels /\ UNCHANGED table /\ UNCHANGED ending

CloseCall(h) ==
  /\ pc[h] = "idle"
  /\ Goto(h, "close")
  /\ UNCHANGED <<conn, held>> /\ UNCHANGED channels /\ UNCHANGED table /\ UNCHANGED ending

\* conn.Close, and the first one into the Once starts the body.
CloseEnter(h) ==
  /\ pc[h] = "close"
  /\ conn' = FALSE
  /\ closing' = IF closing = "no" THEN "stop" ELSE closing
  /\ Goto(h, "await")
  /\ UNCHANGED <<stop, lock, disable, held>> /\ UNCHANGED channels /\ UNCHANGED table

CloseReturn(h) ==
  /\ pc[h] = "await" /\ closing = "done"
  /\ Goto(h, "gone")
  /\ UNCHANGED <<conn, held>> /\ UNCHANGED channels /\ UNCHANGED table /\ UNCHANGED ending

BodyStop ==
  /\ closing = "stop" /\ stop = 0
  /\ stop' = 1 /\ closing' = "lock"
  /\ UNCHANGED <<conn, lock, disable, pc, held>> /\ UNCHANGED channels /\ UNCHANGED table

BodyLock ==
  /\ closing = "lock" /\ lock = None
  /\ lock' = "close" /\ disable' = TRUE /\ closing' = "unlisten"
  /\ UNCHANGED <<conn, stop, pc, held>> /\ UNCHANGED channels /\ UNCHANGED table

\* isListen: the stop error goes into the buffer; nobody listens: no error.
BodyTellListener ==
  /\ closing = "unlisten"
  /\ \/ mode = "none" /\ token' = token
     \/ RoomForToken /\ token' = 1
  /\ closing' = "subs"
  /\ UNCHANGED <<conn, mode, queue, stop, lock, disable, pc, held>> /\ UNCHANGED table

\* Capacity 0: only an accepter, or an opener with a sub to offer, can take it.
BodyTellAccepter(h) ==
  /\ closing = "unlisten" /\ mode = "accept"
  /\ TakesStop(h) /\ Goto(h, AfterStop(h))
  /\ closing' = "subs"
  /\ UNCHANGED <<conn, stop, lock, disable, held>> /\ UNCHANGED channels /\ UNCHANGED table

BodySubs ==
  /\ closing = "subs"
  /\ CloseSubs(subMap)
  /\ lock' = None /\ closing' = "done"
  /\ UNCHANGED <<conn, stop, disable, app, pc, held>> /\ UNCHANGED channels

----------------------------------------------------------------------------

Body == BodyStop \/ BodyLock \/ BodyTellListener \/ (\E h \in Threads : BodyTellAccepter(h))
        \/ BodySubs

OpenerStep(h) ==
  \/ Offer(h) \/ TakeStop(h) \/ PutBack(h)
  \/ \E a \in Accepters : HandOver(h, a)
  \/ \E t \in Threads : PutBackTo(h, t)

Next ==
  \/ OpenPushed \/ ReaderEnds \/ Drop \/ Body
  \/ \E h \in Punchers : OpenPunched(h)
  \/ \E h \in Openers : OpenerStep(h)
  \/ \E h \in Openers \cup Dialers : SetSubBox(h)
  \/ \E h \in Dialers : Dial(h)
  \/ \E h \in Listeners : Listen(h) \/ ListenNext(h) \/ ListenStop(h) \/ ListenReturn(h)
  \/ \E h \in Accepters : Accept(h) \/ AcceptQueued(h) \/ AcceptStop(h)
  \/ \E h \in Waiters : WaitCall(h)
  \/ \E h \in Waiters \cup {Pinger} : WaitTake(h) \/ WaitPutBack(h)
  \/ \E h \in Closers : CloseCall(h)
  \/ \E h \in Closers \cup {Reader, Pinger} : CloseEnter(h) \/ CloseReturn(h)
  \/ \E x \in Subs : CloseSub(x)

Spec == Init /\ [][Next]_vars

\* Goroutines that can run do run, and a select with several ready cases takes
\* each in the end.  Weak fairness is enough: a lost connection opens no subs, so
\* a token is taken and put back only so many times.  Nobody has to call, to
\* dial, to accept again or to close.
Fairness ==
  /\ WF_vars(ReaderEnds) /\ WF_vars(Body)
  /\ \A h \in Openers \cup Dialers : WF_vars(SetSubBox(h))
  /\ \A h \in Openers : WF_vars(OpenerStep(h))
  /\ \A h \in Listeners : WF_vars(ListenNext(h)) /\ WF_vars(ListenStop(h)) /\ WF_vars(ListenReturn(h))
  /\ \A h \in Accepters : WF_vars(AcceptQueued(h) \/ AcceptStop(h))
  /\ \A h \in Waiters \cup {Pinger} : WF_vars(WaitTake(h)) /\ WF_vars(WaitPutBack(h))
  /\ \A h \in Closers \cup {Reader, Pinger} : WF_vars(CloseEnter(h)) /\ WF_vars(CloseReturn(h))

FairSpec == Spec /\ Fairness

----------------------------------------------------------------------------
(* Properties *)

Labels == {"idle", "read", "offer", "stuck", "reput", "set", "loop", "unloop", "accept",
           "wait", "rewait", "close", "await", "gone"}

\* The variables have their types; no channel holds more than its capacity.
TypeOK ==
  /\ conn \in BOOLEAN /\ disable \in BOOLEAN
  /\ mode \in {"none", "listen", "accept"}
  /\ queue \in Seq(Subs) /\ Len(queue) <= QueueCap
  /\ token \in 0..1 /\ stop \in 0..1
  /\ closing \in {"no", "stop", "lock", "unlisten", "subs", "done"}
  /\ lock \in {None, "close"}
  /\ subMap \subseteq Subs /\ app \subseteq Subs
  /\ sub \in [Subs -> {"new", "live", "closed"}]
  /\ pc \in [Threads -> Labels]
  /\ held \in [Threads -> Subs \cup {None}]

\* Once Close has returned, no sub of the box is left open but the ones a
\* goroutine is still about to register (setSubBox closes them) or to give up.
NoSubOutlivesBox ==
  closing = "done" =>
    \A x \in Subs : sub[x] = "live" => \E h \in Openers \cup Dialers : held[h] = x

\* Close ends: whoever loses the connection or calls Close gets out of it.
BoxCloses == ~conn ~> closing = "done"

\* Close releases every goroutine in Wait, however many there are, and the
\* pinger: each puts the one token back for the next (client.go Wait).
WaitReturns ==
  \A h \in Waiters \cup {Pinger} : (closing = "done" /\ pc[h] = "wait") ~> pc[h] = "gone"

\* Nobody takes subs with ListenSubBoxOnce.
OnlyListens == [](\A h \in Accepters : pc[h] # "accept")

\* The loops end with the box: a listener that Close finds listening returns,
\* although openers take the same stop error out of its channel and put it
\* back; and so does the reader, with the sub it was about to hand over.  Where
\* somebody accepts the stop error has no buffer, or a taker that keeps it:
\* Close itself may hang there (BoxCloses, BoxAcceptClose.cfg).
LoopsEnd ==
  OnlyListens =>
    /\ ~conn ~> (closing = "done" /\ pc[Reader] = "gone")
    /\ \A h \in Listeners : (closing = "unlisten" /\ pc[h] = "loop") ~> pc[h] = "gone"

\* When the connection is lost ListenSubBox returns, so that its caller can link
\* again (_hook-tcp: reLink calls LinkProxyServer and ListenSubBox in a loop).
RelinkAfterLoss == \A h \in Listeners : (~conn /\ pc[h] = "loop") ~> pc[h] = "gone"

=============================================================================

------------------------------- MODULE TaskCb -------------------------------
(***************************************************************************)
(* The request table of a client connection (tool/cMsgTask.go): a request  *)
(* stores its callback under its id, sends its message and, for WaitCb,    *)
(* waits for the answer, an error or the timeout; the single reader of the *)
(* connection runs the callback of the id each message carries, or hands   *)
(* the message to noCbFn when no callback is stored under that id.         *)
(* Callbacks and noCbFn run on the reader: the callback of handleUP2P      *)
(* sends into a channel without a buffer, and noCbFn dials, shakes hands   *)
(* and waits for somebody to take the sub it has opened.                   *)
(*                                                                         *)
(* Every request has an id of its own (NewId), so an id is modelled as the *)
(* request itself; pushes of the server carry the empty id.  No caller in  *)
(* the repository sets keep, and stop is written by OverTask only, after   *)
(* the select that reads it, so neither is modelled.                       *)
(***************************************************************************)
EXTENDS Naturals, Sequences, FiniteSets, SequencesExt

CONSTANTS Waiting,    \* requests made with WaitCb
          Offering,   \* those of them made by handleUP2P: its offers go by UDP
          Pinging,    \* requests made with NowaitCb
          MaxPush,    \* bound: messages the server pushes
          NoTask      \* the empty id

Requests == Waiting \cup Pinging

ASSUME RequestsAssumption == Waiting \cap Pinging = {} /\ NoTask \notin Requests
ASSUME OfferingAssumption == Offering \subseteq Waiting
ASSUME PushAssumption == MaxPush \in Nat

Results == {"none", "nil", "bad", "timeout", "disabled", "broken"}
Messages == [id : Requests \cup {NoTask}, code : {"ok", "bad"}]

VARIABLES
  pc,       \* pc[t]: how far the call of request t has got
  res,      \* res[t]: what WaitCb or NowaitCb returned
  info,     \* info[t]: what the callback of t found in the answer
  tOff,     \* tOff[t]: disable of the task
  wait,     \* wait[t]: the channel wait, of capacity 1
  taskMap,  \* the requests with a stored callback
  ctxOff,   \* disable of the context
  connUp,   \* the connection works
  peer,     \* peer[t]: "no", "asked", "answered"
  inbox,    \* messages on their way to the reader
  pushes,   \* pushes sent by the server
  reader,   \* where the reader is
  cur,      \* the message the reader has in hand
  stray     \* requests whose answer went to noCbFn

vars == <<pc, res, info, tOff, wait, taskMap, ctxOff, connUp, peer, inbox, pushes,
          reader, cur, stray>>
callers  == <<pc, res>>
network  == <<peer, inbox, pushes>>
ending   == <<ctxOff, connUp>>
position == <<reader, cur>>

Push == [id |-> NoTask, code |-> "ok"]

Init ==
  /\ pc = [t \in Requests |-> "idle"] /\ res = [t \in Requests |-> "none"]
  /\ info = [t \in Requests |-> "none"] /\ tOff = [t \in Requests |-> FALSE]
  /\ wait = [t \in Requests |-> <<>>]
  /\ taskMap = {} /\ ctxOff = FALSE /\ connUp = TRUE
  /\ peer = [t \in Requests |-> "no"] /\ inbox = <<>> /\ pushes = 0
  /\ reader = "top" /\ cur = Push /\ stray = {}

-----------------------------------------------------------------------------
(* WaitCb and NowaitCb *)

(* A call that fails leaves through the deferred OverTask, for WaitCb only. *)
Fail(t, r) ==
  /\ res' = [res EXCEPT ![t] = r]
  /\ pc' = [pc EXCEPT ![t] = IF t \in Waiting THEN "over" ELSE "done"]

(* The first statement: a disabled context refuses the call. *)
Begin(t) ==
  /\ pc[t] = "idle"
  /\ IF ctxOff THEN Fail(t, "disabled")
               ELSE pc' = [pc EXCEPT ![t] = "begun"] /\ UNCHANGED res
  /\ UNCHANGED <<info, tOff, wait, taskMap, ending, network, position, stray>>

\* Mutant: the message is sent before its callback is stored.
StoreLate(t) ==
  /\ pc[t] = "begun"
  /\ \/ peer[t] = "no" /\ peer' = [peer EXCEPT ![t] = "asked"] /\ UNCHANGED <<pc, taskMap>>
     \/ /\ peer[t] # "no" /\ taskMap' = taskMap \cup {t} /\ UNCHANGED peer
        /\ pc' = [pc EXCEPT ![t] = IF t \in Waiting THEN "waiting" ELSE "done"]
  /\ UNCHANGED <<res, info, tOff, wait, ending, inbox, pushes, position, stray>>

Store(t) ==
  /\ pc[t] = "begun"
  /\ taskMap' = taskMap \cup {t}
  /\ pc' = [pc EXCEPT ![t] = "stored"]
  /\ UNCHANGED <<res, info, tOff, wait, ending, network, position, stray>>

(* task.fn: WriteCMsg fails when the context is disabled or the write does. *)
(* handleUP2P gives none: a goroutine of its own sends the first offer a    *)
(* second later, over UDP, where nothing tells that it is lost.             *)
Send(t) ==
  /\ pc[t] = "stored"
  /\ IF t \notin Offering /\ (ctxOff \/ ~connUp)
     THEN Fail(t, IF ctxOff THEN "disabled" ELSE "broken") /\ UNCHANGED peer
     ELSE /\ peer' = [peer EXCEPT ![t] = "asked"]
          /\ pc' = [pc EXCEPT ![t] = IF t \in Waiting THEN "waiting" ELSE "done"]
          /\ UNCHANGED res
  /\ UNCHANGED <<info, tOff, wait, taskMap, ending, inbox, pushes, position, stray>>

Receive(t) ==
  /\ pc[t] = "waiting" /\ wait[t] # <<>>
  /\ wait' = [wait EXCEPT ![t] = Tail(@)]
  /\ IF Head(wait[t]) = "ok"
     THEN res' = [res EXCEPT ![t] = "nil"] /\ pc' = [pc EXCEPT ![t] = "done"]
     ELSE Fail(t, "bad")
  /\ UNCHANGED <<info, tOff, taskMap, ending, network, position, stray>>

\* Mutant: the select without its timer.
TimeoutNever(t) == t \notin Requests /\ UNCHANGED vars

Timeout(t) ==
  /\ pc[t] = "waiting"
  /\ Fail(t, "timeout")
  /\ UNCHANGED <<info, tOff, wait, taskMap, ending, network, position, stray>>

(* OverTask, run by the deferred function of WaitCb when it returns an error. *)
OverDisable(t) ==
  /\ pc[t] = "over"
  /\ tOff' = [tOff EXCEPT ![t] = TRUE]
  /\ pc' = [pc EXCEPT ![t] = "off"]
  /\ UNCHANGED <<res, info, wait, taskMap, ending, network, position, stray>>

\* Mutant: the callback stays in taskMap.
OverDeleteNot(t) ==
  /\ pc[t] = "off"
  /\ pc' = [pc EXCEPT ![t] = "done"]
  /\ UNCHANGED <<res, info, tOff, wait, taskMap, ending, network, position, stray>>

OverDelete(t) ==
  /\ pc[t] = "off"
  /\ taskMap' = taskMap \ {t}
  /\ pc' = [pc EXCEPT ![t] = "done"]
  /\ UNCHANGED <<res, info, tOff, wait, ending, network, position, stray>>

-----------------------------------------------------------------------------
(* The server, and the end of the connection *)

PeerAnswer(t) ==
  /\ connUp /\ peer[t] = "asked"
  /\ peer' = [peer EXCEPT ![t] = "answered"]
  /\ \E c \in {"ok", "bad"} : inbox' = Append(inbox, [id |-> t, code |-> c])
  /\ UNCHANGED <<callers, info, tOff, wait, taskMap, ending, pushes, position, stray>>

PeerPush ==
  /\ connUp /\ pushes < MaxPush
  /\ pushes' = pushes + 1
  /\ inbox' = Append(inbox, Push)
  /\ UNCHANGED <<callers, info, tOff, wait, taskMap, ending, peer, position, stray>>

ConnLost ==
  /\ connUp /\ connUp' = FALSE
  /\ UNCHANGED <<callers, info, tOff, wait, taskMap, ctxOff, network, position, stray>>

(* TaskCbContext.Close, and the connection closed by its owner after it. *)
CtxClose ==
  /\ ~ctxOff /\ ctxOff' = TRUE
  /\ UNCHANGED <<callers, info, tOff, wait, taskMap, connUp, network, position, stray>>

-----------------------------------------------------------------------------
(* The reader: ReadCMsg, getTask, getTaskAndRun *)

At(p) == reader' = p

(* The loop condition of ReadCMsg. *)
ReadLoop ==
  /\ reader = "top"
  /\ At(IF ctxOff THEN "ended" ELSE "read")
  /\ UNCHANGED <<callers, info, tOff, wait, taskMap, ending, network, cur, stray>>

(* Key.ReadCMsg: a message is skipped when the context has been disabled.   *)
(* One that names no stored callback goes to noCbFn, which drops an answer  *)
(* nobody waits for and works on a push (listenSub, listenUP2P); getTask    *)
(* deletes the callback it returns.                                         *)
ReadMsg ==
  /\ reader = "read" /\ inbox # <<>>
  /\ inbox' = Tail(inbox) /\ cur' = Head(inbox)
  /\ IF ctxOff
     THEN At("ended") /\ UNCHANGED <<taskMap, stray>>
     ELSE IF Head(inbox).id \in taskMap
          THEN taskMap' = taskMap \ {Head(inbox).id} /\ At("loaded") /\ UNCHANGED stray
          ELSE /\ stray' = stray \cup ({Head(inbox).id} \ {NoTask})
               /\ At(IF Head(inbox).id = NoTask THEN "push" ELSE "top")
               /\ UNCHANGED taskMap
  /\ UNCHANGED <<callers, info, tOff, wait, ending, peer, pushes>>

ReadFails ==
  /\ reader = "read" /\ ~connUp
  /\ At("ended")
  /\ UNCHANGED <<callers, info, tOff, wait, taskMap, ending, network, cur, stray>>

CheckTask ==
  /\ reader = "loaded"
  /\ At(IF tOff[cur.id] THEN "top" ELSE "run")
  /\ UNCHANGED <<callers, info, tOff, wait, taskMap, ending, network, cur, stray>>

(* task.cb: the callbacks check the code and fill a variable of the caller; *)
(* that of handleUP2P then sends into stop, which has no buffer.            *)
RunCb ==
  /\ reader = "run"
  /\ info' = [info EXCEPT ![cur.id] = cur.code]
  /\ At(IF cur.id \in Offering /\ cur.code = "ok" THEN "stop" ELSE "report")
  /\ UNCHANGED <<callers, tOff, wait, taskMap, ending, network, cur, stray>>

\* Mutant: the error of the callback is lost.
ReportNil ==
  /\ reader = "report" /\ Len(wait[cur.id]) < 1
  /\ wait' = [wait EXCEPT ![cur.id] = Append(@, "ok")]
  /\ At("top")
  /\ UNCHANGED <<callers, info, tOff, taskMap, ending, network, cur, stray>>

\* Mutant: a channel without a buffer.
ReportUnbuffered ==
  /\ reader = "report" /\ pc[cur.id] = "waiting"
  /\ wait' = [wait EXCEPT ![cur.id] = Append(@, cur.code)]
  /\ At("top")
  /\ UNCHANGED <<callers, info, tOff, taskMap, ending, network, cur, stray>>

Report ==
  /\ reader = "report" /\ Len(wait[cur.id]) < 1
  /\ wait' = [wait EXCEPT ![cur.id] = Append(@, cur.code)]
  /\ At("top")
  /\ UNCHANGED <<callers, info, tOff, taskMap, ending, network, cur, stray>>

(* The offers' goroutine takes from stop, if it has not sent its last offer *)
(* and gone: then nobody ever does.                                         *)
StopTaken ==
  /\ reader = "stop"
  /\ At("report")
  /\ UNCHANGED <<callers, info, tOff, wait, taskMap, ending, network, cur, stray>>

(* noCbFn returns: after a dial and a handshake of up to ten seconds, and   *)
(* when ListenSubBox takes the sub or subListenStop ends the wait, if ever. *)
PushHandled ==
  /\ reader = "push"
  /\ At("top")
  /\ UNCHANGED <<callers, info, tOff, wait, taskMap, ending, network, cur, stray>>

-----------------------------------------------------------------------------
Caller(t) == Begin(t) \/ Store(t) \/ Send(t) \/ Receive(t) \/ Timeout(t)
             \/ OverDisable(t) \/ OverDelete(t)
ReaderStep == ReadLoop \/ ReadMsg \/ ReadFails \/ CheckTask \/ RunCb \/ Report
Handlers == StopTaken \/ PushHandled

Next == \/ \E t \in Requests : Caller(t) \/ PeerAnswer(t)
        \/ PeerPush \/ ConnLost \/ CtxClose
        \/ ReaderStep \/ Handlers

Spec == Init /\ [][Next]_vars

(* A goroutine that can run does, and the timer of a WaitCb fires.  Nothing *)
(* is assumed of the server, of the connection, or of those the reader      *)
(* waits for in its Handlers: they may never come.                          *)
FairSpec == /\ Spec
            /\ \A t \in Requests : WF_vars(Caller(t))
            /\ WF_vars(ReaderStep)

-----------------------------------------------------------------------------
TypeOK ==
  /\ pc \in [Requests -> {"idle", "begun", "stored", "waiting", "over", "off", "done"}]
  /\ res \in [Requests -> Results] /\ info \in [Requests -> {"none", "ok", "bad"}]
  /\ tOff \in [Requests -> BOOLEAN]
  /\ wait \in [Requests -> {<<>>, <<"ok">>, <<"bad">>}]
  /\ taskMap \in SUBSET Requests /\ ctxOff \in BOOLEAN /\ connUp \in BOOLEAN
  /\ peer \in [Requests -> {"no", "asked", "answered"}]
  /\ inbox \in Seq(Messages) /\ pushes \in 0 .. MaxPush
  /\ reader \in {"top", "read", "push", "loaded", "run", "stop", "report", "ended"}
  /\ cur \in Messages /\ stray \in SUBSET Requests

(* An answer goes to noCbFn only when the caller has given the request up:  *)
(* a request that is still waited for is never mistaken for a push.         *)
AnswerFindsCaller ==
  \A t \in stray : t \in Waiting /\ tOff[t] /\ pc[t] = "done"

(* WaitCb returns nil only after the callback has run on a good answer, so  *)
(* the variable the callback fills for the caller is filled.                *)
NilMeansAnswered ==
  \A t \in Requests : res[t] = "nil" => info[t] = "ok"

(* A WaitCb that has returned leaves no callback behind in taskMap, whatever *)
(* way it ended, also when the context was closed under it.                 *)
NoCallbackLeft ==
  \A t \in Waiting : pc[t] = "done" => t \notin taskMap

(* Every WaitCb that is entered returns, whether the answer comes, is late, *)
(* or never comes.                                                          *)
WaitCbReturns == \A t \in Waiting : (pc[t] = "begun") ~> (pc[t] = "done")

(* A message that arrives is taken by the reader unless that has ended, or  *)
(* waits for ever in one of the two calls that may not return: the send of  *)
(* handleUP2P's callback into stop, and noCbFn.  No other callback, and no  *)
(* caller that has timed out, holds up the messages behind it.              *)
InboxDrained ==
  (inbox # <<>>) ~> (inbox = <<>> \/ reader = "ended" \/ [](reader \in {"stop", "push"}))

=============================================================================

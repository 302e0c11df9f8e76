---------------------------- MODULE TaskCbProofs ----------------------------
(***************************************************************************)
(* The request table matches answers to callers, for every set of requests *)
(* and every number of pushes.                                             *)
(*                                                                         *)
(* The argument follows one answer.  A request is asked only once its      *)
(* callback is stored (Asked), and is answered once: its answer is at most *)
(* once on its way (Once) or in the reader's hand (Single), and once it is *)
(* looked at it is neither (Filled).  So the callback is still there when  *)
(* the answer is taken unless OverTask of the request has run to its end   *)
(* (Expected), and what the caller receives is what the callback found.    *)
(***************************************************************************)
EXTENDS TaskCb, TLAPS, SequenceTheorems

OnItsWay(t) == \E i \in 1 .. Len(inbox) : inbox[i].id = t

InHand(t) == reader \in {"loaded", "run", "stop", "report"} /\ cur.id = t

GivenUp(t) == t \in Waiting /\ tOff[t] /\ pc[t] = "done"

\* Only WaitCb waits and runs OverTask; nothing is asked before its callback is stored.
Asked ==
  \A t \in Requests :
    /\ pc[t] \in {"waiting", "over", "off"} => t \in Waiting
    /\ pc[t] = "off" => tOff[t]
    /\ pc[t] = "stored" => t \in taskMap
    /\ peer[t] # "no" => pc[t] \notin {"idle", "begun", "stored"}

\* An answer is on its way once.
Once ==
  \A i, j \in 1 .. Len(inbox) :
    inbox[i].id = inbox[j].id /\ inbox[i].id # NoTask => i = j

\* An answer is in one place; the callback has left the table before it runs.
Single ==
  /\ \A t \in Requests : OnItsWay(t) \/ InHand(t) => peer[t] = "answered"
  /\ reader \in {"loaded", "run", "stop", "report"} =>
       /\ cur.id \in Requests /\ cur.id \notin taskMap
       /\ ~ OnItsWay(cur.id)

\* An answer to come has its callback, or nobody who waits for it.
Expected ==
  \A t \in Requests :
    /\ peer[t] = "asked" \/ OnItsWay(t) => t \in taskMap \/ GivenUp(t)
    /\ t \in stray => GivenUp(t)

\* What the callback found stays, and is what is reported.
Filled ==
  /\ \A t \in Requests :
       /\ info[t] # "none" =>
            /\ peer[t] = "answered" /\ t \notin taskMap /\ ~ OnItsWay(t)
            /\ cur.id = t => reader \notin {"loaded", "run"}
       /\ wait[t] # <<>> => wait[t] = <<info[t]>> /\ ~ (reader \in {"stop", "report"} /\ cur.id = t)
       /\ res[t] = "nil" => info[t] = "ok"
       /\ t \in Waiting /\ pc[t] = "done" => t \notin taskMap
  /\ reader \in {"stop", "report"} => info[cur.id] = cur.code

IInv == TypeOK /\ Asked /\ Once /\ Single /\ Expected /\ Filled

-----------------------------------------------------------------------------
\* The message taken is the first; those left move up by one.
LEMMA Taken ==
  ASSUME NEW S, NEW q \in Seq(S), q # <<>>
  PROVE  /\ Head(q) = q[1] /\ Head(q) \in S /\ Tail(q) \in Seq(S)
         /\ Len(q) \in Nat \ {0} /\ Len(Tail(q)) = Len(q) - 1
         /\ \A i \in 1 .. Len(Tail(q)) : Tail(q)[i] = q[i + 1]
  BY HeadTailProperties, EmptySeq

\* A message sent is the last; those before it stay where they are.
LEMMA Sent ==
  ASSUME NEW S, NEW q \in Seq(S), NEW m \in S
  PROVE  /\ Append(q, m) \in Seq(S) /\ Len(q) \in Nat
         /\ Len(Append(q, m)) = Len(q) + 1 /\ Append(q, m)[Len(q) + 1] = m
         /\ \A i \in 1 .. Len(q) : Append(q, m)[i] = q[i]
  BY AppendProperties

\* A channel of capacity 1 is empty once its result is taken.
LEMMA OneResult ==
  \A q \in {<<"ok">>, <<"bad">>} : Tail(q) = <<>> /\ q = <<Head(q)>>
<1> TAKE q \in {<<"ok">>, <<"bad">>}
<1> PICK v \in {"ok", "bad"} : q = <<v>> OBVIOUS
<1>1. q \in Seq({"ok", "bad"}) /\ Len(q) = 1 OBVIOUS
<1>2. q # <<>> BY <1>1
<1>3. Tail(q) \in Seq({"ok", "bad"}) /\ Len(Tail(q)) = 0
  BY <1>1, <1>2, HeadTailProperties
<1>4. Tail(q) = <<>> BY <1>3, EmptySeq
<1> QED BY <1>4

\* The table follows the answers, not their places in the inbox.
LEMMA SameInbox ==
  ASSUME inbox' = inbox, NEW t PROVE OnItsWay(t)' <=> OnItsWay(t)
  BY DEF OnItsWay

LEMMA Arrives ==
  ASSUME TypeOK, NEW m \in Messages, inbox' = Append(inbox, m)
  PROVE  /\ inbox' \in Seq(Messages)
         /\ \A t : OnItsWay(t)' <=> OnItsWay(t) \/ t = m.id
<1>1. inbox \in Seq(Messages) BY DEF TypeOK
<1>2. /\ inbox' \in Seq(Messages) /\ Len(inbox) \in Nat
      /\ Len(inbox') = Len(inbox) + 1 /\ inbox'[Len(inbox) + 1] = m
      /\ \A i \in 1 .. Len(inbox) : inbox'[i] = inbox[i]
  BY <1>1, Sent
<1>3. ASSUME NEW t, OnItsWay(t) PROVE OnItsWay(t)'
  BY <1>2, <1>3 DEF OnItsWay
<1>4. OnItsWay(m.id)' BY <1>2 DEF OnItsWay
<1>5. ASSUME NEW t, OnItsWay(t)' PROVE OnItsWay(t) \/ t = m.id
  BY <1>2, <1>5 DEF OnItsWay
<1> QED BY <1>2, <1>3, <1>4, <1>5

LEMMA Leaves ==
  ASSUME TypeOK, Once, inbox # <<>>, inbox' = Tail(inbox)
  PROVE  /\ inbox' \in Seq(Messages) /\ Head(inbox) \in Messages
         /\ \A t : OnItsWay(t)' => OnItsWay(t)
         /\ OnItsWay(Head(inbox).id)
         /\ \A t : t = Head(inbox).id /\ t # NoTask => ~ OnItsWay(t)'
<1>1. inbox \in Seq(Messages) BY DEF TypeOK
<1>2. /\ Head(inbox) = inbox[1] /\ Head(inbox) \in Messages /\ inbox' \in Seq(Messages)
      /\ Len(inbox) \in Nat \ {0} /\ Len(inbox') = Len(inbox) - 1
      /\ \A i \in 1 .. Len(inbox') : inbox'[i] = inbox[i + 1]
  BY <1>1, Taken
<1>3. ASSUME NEW t, OnItsWay(t)' PROVE OnItsWay(t)
  BY <1>2, <1>3 DEF OnItsWay
<1>4. OnItsWay(Head(inbox).id) BY <1>2 DEF OnItsWay
<1>5. ASSUME NEW t, t = Head(inbox).id, t # NoTask, OnItsWay(t)' PROVE FALSE
  <2>1. PICK i \in 1 .. Len(inbox') : inbox'[i].id = t
    BY <1>5 DEF OnItsWay
  <2>2. i + 1 \in 1 .. Len(inbox) /\ 1 \in 1 .. Len(inbox) /\ i + 1 # 1 BY <1>2
  <2>3. inbox[i + 1].id = inbox[1].id BY <1>2, <1>5, <2>1
  <2> QED BY <1>2, <1>5, <2>2, <2>3 DEF Once
<1> QED BY <1>2, <1>3, <1>4, <1>5

\* The first state satisfies the invariant.
LEMMA InitIInv == Init => IInv
<1> SUFFICES ASSUME Init PROVE IInv OBVIOUS
<1>1. TypeOK
  <2>1. Push \in Messages BY DEF Push, Messages
  <2>2. inbox \in Seq(Messages) BY DEF Init
  <2>3. wait \in [Requests -> {<<>>, <<"ok">>, <<"bad">>}] BY DEF Init
  <2>4. /\ pc \in [Requests -> {"idle", "begun", "stored", "waiting", "over", "off", "done"}]
        /\ res \in [Requests -> Results] /\ info \in [Requests -> {"none", "ok", "bad"}]
        /\ tOff \in [Requests -> BOOLEAN]
        /\ peer \in [Requests -> {"no", "asked", "answered"}]
    BY DEF Init, Results
  <2>5. ctxOff \in BOOLEAN /\ connUp \in BOOLEAN /\ taskMap \in SUBSET Requests
    BY DEF Init
  <2>6. /\ pushes \in 0 .. MaxPush /\ stray \in SUBSET Requests
        /\ reader \in {"top", "read", "push", "loaded", "run", "stop", "report", "ended"}
    BY PushAssumption DEF Init
  <2>7. cur \in Messages BY <2>1 DEF Init
  <2> QED BY <2>2, <2>3, <2>4, <2>5, <2>6, <2>7 DEF TypeOK
<1>2. Asked /\ Expected BY DEF Init, Asked, Expected, OnItsWay
<1>3. Once /\ Single BY DEF Init, Once, Single, OnItsWay, InHand
<1>4. Filled BY DEF Init, Filled, OnItsWay
<1> QED BY <1>1, <1>2, <1>3, <1>4 DEF IInv

\* Every action keeps the types.
LEMMA TypeStep ==
  ASSUME IInv, [Next]_vars
  PROVE  TypeOK'
<1> USE PushAssumption DEF IInv, TypeOK, Results, callers, network, ending, position
<1>1. ASSUME NEW t \in Requests, Begin(t) PROVE TypeOK'
  BY <1>1 DEF Begin, Fail
<1>2. ASSUME NEW t \in Requests, Store(t) PROVE TypeOK'
  BY <1>2 DEF Store
<1>3. ASSUME NEW t \in Requests, Send(t) PROVE TypeOK'
  BY <1>3 DEF Send, Fail
<1>4. ASSUME NEW t \in Requests, Receive(t) PROVE TypeOK'
  <2>1. Tail(wait[t]) = <<>> BY <1>4, OneResult DEF Receive
  <2> QED BY <1>4, <2>1 DEF Receive, Fail
<1>5. ASSUME NEW t \in Requests, Timeout(t) PROVE TypeOK'
  BY <1>5 DEF Timeout, Fail
<1>6. ASSUME NEW t \in Requests, OverDisable(t) PROVE TypeOK'
  BY <1>6 DEF OverDisable
<1>7. ASSUME NEW t \in Requests, OverDelete(t) PROVE TypeOK'
  BY <1>7 DEF OverDelete
<1>8. ASSUME NEW t \in Requests, PeerAnswer(t) PROVE TypeOK'
  <2>1. PICK c \in {"ok", "bad"} : inbox' = Append(inbox, [id |-> t, code |-> c])
    BY <1>8 DEF PeerAnswer
  <2>2. [id |-> t, code |-> c] \in Messages BY DEF Messages
  <2>3. inbox' \in Seq(Messages) BY <2>1, <2>2, Arrives
  <2> QED BY <1>8, <2>3 DEF PeerAnswer
<1>9. CASE PeerPush
  <2>1. Push \in Messages BY DEF Push, Messages
  <2>2. inbox' \in Seq(Messages) BY <1>9, <2>1, Arrives DEF PeerPush
  <2> QED BY <1>9, <2>2 DEF PeerPush
<1>10. CASE ConnLost
  BY <1>10 DEF ConnLost
<1>11. CASE CtxClose
  BY <1>11 DEF CtxClose
<1>12. CASE ReadLoop
  BY <1>12 DEF ReadLoop, At
<1>13. CASE ReadMsg
  <2>1. inbox' \in Seq(Messages) /\ Head(inbox) \in Messages
    BY <1>13, Leaves DEF ReadMsg
  <2>2. {Head(inbox).id} \ {NoTask} \subseteq Requests BY <2>1 DEF Messages
  <2> QED BY <1>13, <2>1, <2>2 DEF ReadMsg, At
<1>14. CASE ReadFails
  BY <1>14 DEF ReadFails, At
<1>15. CASE CheckTask
  BY <1>15 DEF CheckTask, At
<1>16. CASE RunCb
  <2>1. cur.code \in {"ok", "bad"} BY DEF Messages
  <2> QED BY <1>16, <2>1 DEF RunCb, At
<1>17. CASE Report
  <2>1. cur.code \in {"ok", "bad"} BY DEF Messages
  <2>2. cur.id \in Requests /\ wait[cur.id] = <<>> BY <1>17 DEF Report, Single
  <2>3. Append(wait[cur.id], cur.code) = <<cur.code>> BY <2>2
  <2> QED BY <1>17, <2>1, <2>2, <2>3 DEF Report, At
<1>18. CASE StopTaken
  BY <1>18 DEF StopTaken, At
<1>19. CASE PushHandled
  BY <1>19 DEF PushHandled, At
<1>20. CASE UNCHANGED vars BY <1>20 DEF vars
<1> QED
  BY <1>1, <1>2, <1>3, <1>4, <1>5, <1>6, <1>7, <1>8, <1>9, <1>10, <1>11, <1>12, <1>13, <1>14, <1>15, <1>16, <1>17, <1>18,
     <1>19, <1>20
     DEF Next, Caller, ReaderStep, Handlers

\* The order of the statements of a call.
LEMMA AskedStep ==
  ASSUME IInv, [Next]_vars
  PROVE  Asked'
<1> USE DEF IInv, TypeOK, Asked, callers, network, ending, position
<1>1. ASSUME NEW t \in Requests, Begin(t) PROVE Asked'
  BY <1>1 DEF Begin, Fail
<1>2. ASSUME NEW t \in Requests, Store(t) PROVE Asked'
  BY <1>2 DEF Store
<1>3. ASSUME NEW t \in Requests, Send(t) PROVE Asked'
  BY <1>3 DEF Send, Fail
<1>4. ASSUME NEW t \in Requests, Receive(t) PROVE Asked'
  BY <1>4 DEF Receive, Fail
<1>5. ASSUME NEW t \in Requests, Timeout(t) PROVE Asked'
  BY <1>5 DEF Timeout, Fail
<1>6. ASSUME NEW t \in Requests, OverDisable(t) PROVE Asked'
  BY <1>6 DEF OverDisable
<1>7. ASSUME NEW t \in Requests, OverDelete(t) PROVE Asked'
  BY <1>7 DEF OverDelete
<1>8. ASSUME NEW t \in Requests, PeerAnswer(t) PROVE Asked'
  BY <1>8 DEF PeerAnswer
<1>9. CASE PeerPush
  BY <1>9 DEF PeerPush
<1>10. CASE ConnLost
  BY <1>10 DEF ConnLost
<1>11. CASE CtxClose
  BY <1>11 DEF CtxClose
<1>12. CASE ReadLoop
  BY <1>12 DEF ReadLoop, At
<1>13. CASE ReadMsg
  <2>1. \A t \in Requests : pc[t] = "stored" => t # Head(inbox).id
    BY <1>13, Leaves DEF ReadMsg, Single
  <2>2. taskMap \ {Head(inbox).id} \subseteq taskMap' BY <1>13 DEF ReadMsg, At
  <2> QED BY <1>13, <2>1, <2>2 DEF ReadMsg
<1>14. CASE ReadFails
  BY <1>14 DEF ReadFails, At
<1>15. CASE CheckTask
  BY <1>15 DEF CheckTask, At
<1>16. CASE RunCb
  BY <1>16 DEF RunCb, At
<1>17. CASE Report
  BY <1>17 DEF Report, At
<1>18. CASE StopTaken
  BY <1>18 DEF StopTaken, At
<1>19. CASE PushHandled
  BY <1>19 DEF PushHandled, At
<1>20. CASE UNCHANGED vars BY <1>20 DEF vars
<1> QED
  BY <1>1, <1>2, <1>3, <1>4, <1>5, <1>6, <1>7, <1>8, <1>9, <1>10, <1>11, <1>12, <1>13, <1>14, <1>15, <1>16, <1>17, <1>18,
     <1>19, <1>20
     DEF Next, Caller, ReaderStep, Handlers

\* An answer is sent once.
LEMMA OnceStep ==
  ASSUME IInv, [Next]_vars
  PROVE  Once'
<1> USE RequestsAssumption DEF IInv, TypeOK, Once, callers, network, ending, position
<1>1. ASSUME NEW t \in Requests, Begin(t) PROVE Once'
  BY <1>1 DEF Begin, Fail
<1>2. ASSUME NEW t \in Requests, Store(t) PROVE Once'
  BY <1>2 DEF Store
<1>3. ASSUME NEW t \in Requests, Send(t) PROVE Once'
  BY <1>3 DEF Send, Fail
<1>4. ASSUME NEW t \in Requests, Receive(t) PROVE Once'
  BY <1>4 DEF Receive, Fail
<1>5. ASSUME NEW t \in Requests, Timeout(t) PROVE Once'
  BY <1>5 DEF Timeout, Fail
<1>6. ASSUME NEW t \in Requests, OverDisable(t) PROVE Once'
  BY <1>6 DEF OverDisable
<1>7. ASSUME NEW t \in Requests, OverDelete(t) PROVE Once'
  BY <1>7 DEF OverDelete
<1>8. ASSUME NEW t \in Requests, PeerAnswer(t) PROVE Once'
  <2>1. PICK c \in {"ok", "bad"} : inbox' = Append(inbox, [id |-> t, code |-> c])
    BY <1>8 DEF PeerAnswer
  <2>2. [id |-> t, code |-> c] \in Messages BY DEF Messages
  <2>3. \A i \in 1 .. Len(inbox) : inbox[i].id # t
    BY <1>8 DEF PeerAnswer, Single, OnItsWay
  <2> QED BY <2>1, <2>2, <2>3, Sent
<1>9. CASE PeerPush
  <2>1. Push \in Messages /\ Push.id = NoTask BY DEF Push, Messages
  <2>2. /\ Len(inbox) \in Nat /\ Len(inbox') = Len(inbox) + 1
        /\ inbox'[Len(inbox) + 1] = Push
        /\ \A i \in 1 .. Len(inbox) : inbox'[i] = inbox[i]
    BY <1>9, <2>1, Sent DEF PeerPush
  <2>3. \A i \in 1 .. Len(inbox') :
          inbox'[i].id # NoTask => i \in 1 .. Len(inbox) /\ inbox'[i] = inbox[i]
    BY <2>1, <2>2
  <2> QED BY <2>3
<1>10. CASE ConnLost
  BY <1>10 DEF ConnLost
<1>11. CASE CtxClose
  BY <1>11 DEF CtxClose
<1>12. CASE ReadLoop
  BY <1>12 DEF ReadLoop, At
<1>13. CASE ReadMsg
  <2>1. /\ Len(inbox) \in Nat \ {0} /\ Len(inbox') = Len(inbox) - 1
        /\ \A i \in 1 .. Len(inbox') : inbox'[i] = inbox[i + 1]
    BY <1>13, Taken DEF ReadMsg
  <2> SUFFICES ASSUME NEW i \in 1 .. Len(inbox'), NEW j \in 1 .. Len(inbox'),
                      inbox'[i].id = inbox'[j].id, inbox'[i].id # NoTask
               PROVE  i = j
    OBVIOUS
  <2>2. i + 1 \in 1 .. Len(inbox) /\ j + 1 \in 1 .. Len(inbox) BY <2>1
  <2>4. inbox'[i] = inbox[i + 1] /\ inbox'[j] = inbox[j + 1] BY <2>1
  <2>5. inbox[i + 1].id = inbox[j + 1].id /\ inbox[i + 1].id # NoTask BY <2>4, Zenon
  <2>6. \A x, y \in 1 .. Len(inbox) : inbox[x].id = inbox[y].id /\ inbox[x].id # NoTask => x = y
    BY DEF IInv, Once
  <2>3. i + 1 = j + 1 BY <2>2, <2>5, <2>6, Zenon
  <2> QED BY <2>3
<1>14. CASE ReadFails
  BY <1>14 DEF ReadFails, At
<1>15. CASE CheckTask
  BY <1>15 DEF CheckTask, At
<1>16. CASE RunCb
  BY <1>16 DEF RunCb, At
<1>17. CASE Report
  BY <1>17 DEF Report, At
<1>18. CASE StopTaken
  BY <1>18 DEF StopTaken, At
<1>19. CASE PushHandled
  BY <1>19 DEF PushHandled, At
<1>20. CASE UNCHANGED vars BY <1>20 DEF vars
<1> QED
  BY <1>1, <1>2, <1>3, <1>4, <1>5, <1>6, <1>7, <1>8, <1>9, <1>10, <1>11, <1>12, <1>13, <1>14, <1>15, <1>16, <1>17, <1>18,
     <1>19, <1>20
     DEF Next, Caller, ReaderStep, Handlers

\* An answer moves from the connection to the reader's hand and is never copied.
LEMMA SingleStep ==
  ASSUME IInv, [Next]_vars
  PROVE  Single'
<1> USE RequestsAssumption DEF IInv, TypeOK, Single, InHand, callers, network, ending, position
<1>0. inbox' = inbox => \A t : OnItsWay(t)' <=> OnItsWay(t) BY SameInbox
<1>1. ASSUME NEW t \in Requests, Begin(t) PROVE Single'
  BY <1>1, <1>0 DEF Begin, Fail
<1>2. ASSUME NEW t \in Requests, Store(t) PROVE Single'
  BY <1>2, <1>0 DEF Store, Asked
<1>3. ASSUME NEW t \in Requests, Send(t) PROVE Single'
  BY <1>3, <1>0 DEF Send, Fail, Asked
<1>4. ASSUME NEW t \in Requests, Receive(t) PROVE Single'
  BY <1>4, <1>0 DEF Receive, Fail
<1>5. ASSUME NEW t \in Requests, Timeout(t) PROVE Single'
  BY <1>5, <1>0 DEF Timeout, Fail
<1>6. ASSUME NEW t \in Requests, OverDisable(t) PROVE Single'
  BY <1>6, <1>0 DEF OverDisable
<1>7. ASSUME NEW t \in Requests, OverDelete(t) PROVE Single'
  BY <1>7, <1>0 DEF OverDelete
<1>8. ASSUME NEW t \in Requests, PeerAnswer(t) PROVE Single'
  <2>1. PICK c \in {"ok", "bad"} : inbox' = Append(inbox, [id |-> t, code |-> c])
    BY <1>8 DEF PeerAnswer
  <2>2. [id |-> t, code |-> c] \in Messages BY DEF Messages
  <2>3. \A u : OnItsWay(u)' <=> OnItsWay(u) \/ u = t BY <2>1, <2>2, Arrives
  <2> QED BY <1>8, <2>3 DEF PeerAnswer, Single, InHand
<1>9. CASE PeerPush
  <2>1. Push \in Messages /\ Push.id = NoTask BY DEF Push, Messages
  <2>2. \A u \in Requests : OnItsWay(u)' <=> OnItsWay(u)
    BY <1>9, <2>1, Arrives DEF PeerPush
  <2> QED BY <1>9, <2>2 DEF PeerPush, Single
<1>10. CASE ConnLost
  BY <1>10, <1>0 DEF ConnLost
<1>11. CASE CtxClose
  BY <1>11, <1>0 DEF CtxClose
<1>12. CASE ReadLoop
  BY <1>12, <1>0 DEF ReadLoop, At
<1>13. CASE ReadMsg
  <2>1. /\ Head(inbox) \in Messages /\ \A u : OnItsWay(u)' => OnItsWay(u)
        /\ OnItsWay(Head(inbox).id)
        /\ \A u : u = Head(inbox).id /\ u # NoTask => ~ OnItsWay(u)'
    BY <1>13, Leaves DEF ReadMsg
  <2> QED BY <1>13, <2>1 DEF ReadMsg, At, Single
<1>14. CASE ReadFails
  BY <1>14, <1>0 DEF ReadFails, At
<1>15. CASE CheckTask
  BY <1>15, <1>0 DEF CheckTask, At
<1>16. CASE RunCb
  BY <1>16, <1>0 DEF RunCb, At
<1>17. CASE Report
  BY <1>17, <1>0 DEF Report, At
<1>18. CASE StopTaken
  BY <1>18, <1>0 DEF StopTaken, At
<1>19. CASE PushHandled
  BY <1>19, <1>0 DEF PushHandled, At
<1>20. CASE UNCHANGED vars BY <1>20, <1>0 DEF vars
<1> QED
  BY <1>1, <1>2, <1>3, <1>4, <1>5, <1>6, <1>7, <1>8, <1>9, <1>10, <1>11, <1>12, <1>13, <1>14, <1>15, <1>16, <1>17, <1>18,
     <1>19, <1>20
     DEF Next, Caller, ReaderStep, Handlers

\* Who takes the callback away takes the answer too, or has given it up.
LEMMA ExpectedStep ==
  ASSUME IInv, [Next]_vars
  PROVE  Expected'
<1> USE RequestsAssumption DEF IInv, TypeOK, Expected, GivenUp, callers, network, ending, position
<1>0. inbox' = inbox => \A t : OnItsWay(t)' <=> OnItsWay(t) BY SameInbox
<1>1. ASSUME NEW t \in Requests, Begin(t) PROVE Expected'
  BY <1>1, <1>0 DEF Begin, Fail
<1>2. ASSUME NEW t \in Requests, Store(t) PROVE Expected'
  BY <1>2, <1>0 DEF Store
<1>3. ASSUME NEW t \in Requests, Send(t) PROVE Expected'
  BY <1>3, <1>0 DEF Send, Fail, Asked
<1>4. ASSUME NEW t \in Requests, Receive(t) PROVE Expected'
  BY <1>4, <1>0 DEF Receive, Fail
<1>5. ASSUME NEW t \in Requests, Timeout(t) PROVE Expected'
  BY <1>5, <1>0 DEF Timeout, Fail
<1>6. ASSUME NEW t \in Requests, OverDisable(t) PROVE Expected'
  BY <1>6, <1>0 DEF OverDisable
<1>7. ASSUME NEW t \in Requests, OverDelete(t) PROVE Expected'
  BY <1>7, <1>0 DEF OverDelete, Asked
<1>8. ASSUME NEW t \in Requests, PeerAnswer(t) PROVE Expected'
  <2>1. PICK c \in {"ok", "bad"} : inbox' = Append(inbox, [id |-> t, code |-> c])
    BY <1>8 DEF PeerAnswer
  <2>2. [id |-> t, code |-> c] \in Messages BY DEF Messages
  <2>3. \A u : OnItsWay(u)' <=> OnItsWay(u) \/ u = t BY <2>1, <2>2, Arrives
  <2> QED BY <1>8, <2>3 DEF PeerAnswer, Single, InHand
<1>9. CASE PeerPush
  <2>1. Push \in Messages /\ Push.id = NoTask BY DEF Push, Messages
  <2>2. \A u \in Requests : OnItsWay(u)' <=> OnItsWay(u)
    BY <1>9, <2>1, Arrives DEF PeerPush
  <2> QED BY <1>9, <2>2 DEF PeerPush, Single
<1>10. CASE ConnLost
  BY <1>10, <1>0 DEF ConnLost
<1>11. CASE CtxClose
  BY <1>11, <1>0 DEF CtxClose
<1>12. CASE ReadLoop
  BY <1>12, <1>0 DEF ReadLoop, At
<1>13. CASE ReadMsg
  <2>1. /\ Head(inbox) \in Messages /\ \A u : OnItsWay(u)' => OnItsWay(u)
        /\ OnItsWay(Head(inbox).id)
        /\ \A u : u = Head(inbox).id /\ u # NoTask => ~ OnItsWay(u)'
    BY <1>13, Leaves DEF ReadMsg
  <2> QED BY <1>13, <2>1 DEF ReadMsg, At, Single
<1>14. CASE ReadFails
  BY <1>14, <1>0 DEF ReadFails, At
<1>15. CASE CheckTask
  BY <1>15, <1>0 DEF CheckTask, At
<1>16. CASE RunCb
  BY <1>16, <1>0 DEF RunCb, At
<1>17. CASE Report
  BY <1>17, <1>0 DEF Report, At
<1>18. CASE StopTaken
  BY <1>18, <1>0 DEF StopTaken, At
<1>19. CASE PushHandled
  BY <1>19, <1>0 DEF PushHandled, At
<1>20. CASE UNCHANGED vars BY <1>20, <1>0 DEF vars
<1> QED
  BY <1>1, <1>2, <1>3, <1>4, <1>5, <1>6, <1>7, <1>8, <1>9, <1>10, <1>11, <1>12, <1>13, <1>14, <1>15, <1>16, <1>17, <1>18,
     <1>19, <1>20
     DEF Next, Caller, ReaderStep, Handlers

\* The callback runs once and fills in what is reported.
LEMMA FilledStep ==
  ASSUME IInv, [Next]_vars
  PROVE  Filled'
<1> USE RequestsAssumption DEF IInv, TypeOK, Filled, callers, network, ending, position
<1>0. inbox' = inbox => \A t : OnItsWay(t)' <=> OnItsWay(t) BY SameInbox
<1>1. ASSUME NEW t \in Requests, Begin(t) PROVE Filled'
  BY <1>1, <1>0 DEF Begin, Fail
<1>2. ASSUME NEW t \in Requests, Store(t) PROVE Filled'
  BY <1>2, <1>0 DEF Store, Asked, Single, InHand
<1>3. ASSUME NEW t \in Requests, Send(t) PROVE Filled'
  BY <1>3, <1>0 DEF Send, Fail, Asked
<1>4. ASSUME NEW t \in Requests, Receive(t) PROVE Filled'
  <2>1. /\ wait[t] \in {<<"ok">>, <<"bad">>} /\ wait[t] = <<info[t]>>
        /\ wait' = [wait EXCEPT ![t] = Tail(@)]
    BY <1>4 DEF Receive
  <2>2. wait'[t] = <<>> /\ \A u \in Requests : u # t => wait'[u] = wait[u]
    BY <2>1, OneResult
  <2>3. Head(wait[t]) = info[t] BY <2>1
  <2>4. CASE info[t] = "ok"
    BY <1>4, <1>0, <2>1, <2>2, <2>3, <2>4 DEF Receive
  <2>5. CASE info[t] # "ok"
    BY <1>4, <1>0, <2>2, <2>3, <2>5 DEF Receive, Fail, Asked
  <2> QED BY <2>4, <2>5
<1>5. ASSUME NEW t \in Requests, Timeout(t) PROVE Filled'
  BY <1>5, <1>0 DEF Timeout, Fail
<1>6. ASSUME NEW t \in Requests, OverDisable(t) PROVE Filled'
  BY <1>6, <1>0 DEF OverDisable
<1>7. ASSUME NEW t \in Requests, OverDelete(t) PROVE Filled'
  BY <1>7, <1>0 DEF OverDelete
<1>8. ASSUME NEW t \in Requests, PeerAnswer(t) PROVE Filled'
  <2>1. PICK c \in {"ok", "bad"} : inbox' = Append(inbox, [id |-> t, code |-> c])
    BY <1>8 DEF PeerAnswer
  <2>2. [id |-> t, code |-> c] \in Messages BY DEF Messages
  <2>3. \A u : OnItsWay(u)' <=> OnItsWay(u) \/ u = t BY <2>1, <2>2, Arrives
  <2> QED BY <1>8, <2>3 DEF PeerAnswer, Single, InHand
<1>9. CASE PeerPush
  <2>1. Push \in Messages /\ Push.id = NoTask BY DEF Push, Messages
  <2>2. \A u \in Requests : OnItsWay(u)' <=> OnItsWay(u)
    BY <1>9, <2>1, Arrives DEF PeerPush
  <2> QED BY <1>9, <2>2 DEF PeerPush, Single
<1>10. CASE ConnLost
  BY <1>10, <1>0 DEF ConnLost
<1>11. CASE CtxClose
  BY <1>11, <1>0 DEF CtxClose
<1>12. CASE ReadLoop
  BY <1>12, <1>0 DEF ReadLoop, At
<1>13. CASE ReadMsg
  <2>1. /\ Head(inbox) \in Messages /\ \A u : OnItsWay(u)' => OnItsWay(u)
        /\ OnItsWay(Head(inbox).id)
        /\ \A u : u = Head(inbox).id /\ u # NoTask => ~ OnItsWay(u)'
    BY <1>13, Leaves DEF ReadMsg
  <2> QED BY <1>13, <2>1 DEF ReadMsg, At, Single
<1>14. CASE ReadFails
  BY <1>14, <1>0 DEF ReadFails, At
<1>15. CASE CheckTask
  BY <1>15, <1>0 DEF CheckTask, At
<1>16. CASE RunCb
  <2>1. cur.id \in Requests /\ cur.code \in {"ok", "bad"}
    BY <1>16 DEF RunCb, Single, Messages
  <2>2. wait[cur.id] = <<>> /\ info[cur.id] = "none" /\ res[cur.id] # "nil"
    BY <1>16, <2>1 DEF RunCb
  <2>3. peer[cur.id] = "answered" BY <1>16, <2>1 DEF RunCb, Single, InHand
  <2> QED BY <1>16, <1>0, <2>1, <2>2, <2>3 DEF RunCb, At, Single
<1>17. CASE Report
  <2>1. cur.id \in Requests /\ wait[cur.id] = <<>> BY <1>17 DEF Report, Single
  <2>2. Append(wait[cur.id], cur.code) = <<info[cur.id]>> BY <1>17, <2>1 DEF Report
  <2>3. wait' = [wait EXCEPT ![cur.id] = <<info[cur.id]>>] BY <1>17, <2>2 DEF Report
  <2> QED BY <1>17, <1>0, <2>1, <2>3 DEF Report, At
<1>18. CASE StopTaken
  BY <1>18, <1>0 DEF StopTaken, At
<1>19. CASE PushHandled
  BY <1>19, <1>0 DEF PushHandled, At
<1>20. CASE UNCHANGED vars BY <1>20, <1>0 DEF vars
<1> QED
  BY <1>1, <1>2, <1>3, <1>4, <1>5, <1>6, <1>7, <1>8, <1>9, <1>10, <1>11, <1>12, <1>13, <1>14, <1>15, <1>16, <1>17, <1>18,
     <1>19, <1>20
     DEF Next, Caller, ReaderStep, Handlers

-----------------------------------------------------------------------------
\* IInv holds in every state of every run.
THEOREM Invariant == Spec => []IInv
<1>1. IInv /\ [Next]_vars => IInv'
  BY TypeStep, AskedStep, OnceStep, SingleStep,
      ExpectedStep, FilledStep DEF IInv
<1> QED BY InitIInv, <1>1, PTL DEF Spec

\* Every variable keeps its type; in particular the channel wait never holds
\* more than the one result it has room for, so that the reader never blocks on it.
THEOREM TypesOK == Spec => []TypeOK
<1>1. IInv => TypeOK BY DEF IInv
<1> QED BY <1>1, Invariant, PTL

\* getTask misses the callback of an answer only when WaitCb has returned an
\* error before and OverTask has run: noCbFn gets no answer somebody waits for.
THEOREM AnswersFindTheirCallers == Spec => []AnswerFindsCaller
<1>1. IInv => AnswerFindsCaller
  BY DEF IInv, TypeOK, Expected, GivenUp, AnswerFindsCaller
<1> QED BY <1>1, Invariant, PTL

\* A nil of WaitCb means that the callback has run and filled in its variable.
THEOREM NilIsAnAnswer == Spec => []NilMeansAnswered
<1>1. IInv => NilMeansAnswered BY DEF IInv, Filled, NilMeansAnswered
<1> QED BY <1>1, Invariant, PTL

\* However WaitCb ends, its callback has left taskMap when it returns.
THEOREM CallbacksAreRemoved == Spec => []NoCallbackLeft
<1>1. IInv => NoCallbackLeft
  BY DEF IInv, Filled, NoCallbackLeft, Requests
<1> QED BY <1>1, Invariant, PTL

\* The reader of a connection is never held up by a caller, one that has timed out and
\* listens no more neither: the channel it reports to is empty (cMsgTask.go getTaskAndRun).
ReaderNotHeldUp == reader = "report" => wait[cur.id] = <<>>

\* For any requests and pushes: a callback is run for one answer, so what it sends finds
\* the room of one that its channel has.
THEOREM ReaderIsNeverHeldUp == Spec => []ReaderNotHeldUp
<1>1. IInv => ReaderNotHeldUp
  BY DEF IInv, TypeOK, Single, Filled, ReaderNotHeldUp
<1> QED BY <1>1, Invariant, PTL
=============================================================================

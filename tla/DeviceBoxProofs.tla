--------------------------- MODULE DeviceBoxProofs ---------------------------
(***************************************************************************)
(* No sub outlives its box, whatever goroutines the application has and    *)
(* however many subs are opened.                                           *)
(*                                                                         *)
(* A sub that is open is in subMap or in the hands of the goroutine that   *)
(* opened it (Accounted), which lets go of it only by registering it or by *)
(* closing it.  That nothing is registered behind the back of Close is the *)
(* lock: from the step that sets disable to the one that has emptied       *)
(* subMap Close holds it, and whoever gets it later sees disable (Order).  *)
(***************************************************************************)
EXTENDS DeviceBox, TLAPS, SequenceTheorems

\* A goroutine has a sub in hand from opening it to registering or closing it.
Hands ==
  \A h \in Threads : held[h] # None <=> pc[h] \in {"offer", "stuck", "reput", "set"}

\* How far Close has got tells who holds subMapLock and what it has done.
Order ==
  /\ disable <=> closing \in {"unlisten", "subs", "done"}
  /\ lock = "close" <=> closing \in {"unlisten", "subs"}
  /\ closing = "done" => subMap = {}

Accounted ==
  \A x \in Subs :
    sub[x] = "live" => x \in subMap \/ \E h \in Openers \cup Dialers : held[h] = x

IInv == TypeOK /\ Hands /\ Order /\ Accounted

\* The one token of stop: none before the body of Close has sent it; from then on
\* it is in the channel or in the hands of one goroutine that puts it back.
StopKept ==
  /\ \A g, h \in Threads : pc[g] = "rewait" /\ pc[h] = "rewait" => g = h
  /\ closing \in {"no", "stop"} => stop = 0 /\ \A h \in Threads : pc[h] # "rewait"
  /\ closing \notin {"no", "stop"} => (stop = 1 <=> \A h \in Threads : pc[h] # "rewait")

\* Goroutines that have a stop error in hand and send it back.
PutsBack(h) == pc[h] \in {"reput", "unloop"}

ErrorSent == token = 1 \/ \E h \in Threads : PutsBack(h)

\* The stop error of a box where nobody calls ListenSubBoxOnce: none before the body of
\* Close has sent it, and then one, in the buffer or in the hands of one goroutine.
ErrorKept ==
  /\ mode # "accept" /\ \A h \in Threads : pc[h] # "accept"
  /\ \A g, h \in Threads : PutsBack(g) /\ PutsBack(h) => g = h
  /\ \A h \in Threads : PutsBack(h) => token = 0
  /\ ErrorSent => mode = "listen" /\ closing \in {"subs", "done"}

-----------------------------------------------------------------------------
\* What Open does, without its choice.
LEMMA Opened ==
  ASSUME NEW h, Open(h)
  PROVE  \E x \in Subs : /\ sub[x] = "new" /\ sub' = [sub EXCEPT ![x] = "live"]
                         /\ held' = [held EXCEPT ![h] = x]
<1> DEFINE x == CHOOSE y \in Subs : sub[y] = "new"
<1>1. x \in Subs /\ sub[x] = "new" BY DEF Open
<1>2. sub' = [sub EXCEPT ![x] = "live"] /\ held' = [held EXCEPT ![h] = x]
  BY DEF Open, Hold
<1> QED BY <1>1, <1>2

\* The goroutines of every kind are threads.
LEMMA Kinds ==
  /\ Openers \subseteq Threads /\ Punchers \subseteq Openers /\ Dialers \subseteq Threads
  /\ Listeners \subseteq Threads /\ Accepters \subseteq Threads /\ Waiters \subseteq Threads
  /\ Closers \subseteq Threads /\ Reader \in Openers /\ Pinger \in Threads
  BY DEF Threads, Openers

\* The first state satisfies the invariant.
LEMMA InitIInv == Init => IInv
<1> SUFFICES ASSUME Init PROVE IInv OBVIOUS
<1>1. TypeOK
  <2>1. pc \in [Threads -> Labels] BY DEF Init, Labels
  <2>2. held \in [Threads -> Subs \cup {None}] BY DEF Init
  <2>3. queue \in Seq(Subs) /\ Len(queue) = 0 BY DEF Init
  <2>4. conn \in BOOLEAN /\ disable \in BOOLEAN BY DEF Init
  <2> QED BY <2>1, <2>2, <2>3, <2>4, QueueAssumption DEF Init, TypeOK
<1>2. Hands BY DEF Init, Hands
<1>3. Order BY NoneAssumption DEF Init, Order
<1>4. Accounted BY DEF Init, Accounted
<1> QED BY <1>1, <1>2, <1>3, <1>4 DEF IInv

\* Every action keeps the types; a channel is written only when there is room.
LEMMA TypeStep ==
  ASSUME IInv, [Next]_vars
  PROVE  TypeOK'
<1> USE Kinds DEF IInv, TypeOK, Labels, Goto, Hold, channels, ending, table
<1>1. CASE OpenPushed
  <2>1. PICK x \in Subs : /\ sub[x] = "new" /\ sub' = [sub EXCEPT ![x] = "live"]
                         /\ held' = [held EXCEPT ![Reader] = x]
    BY <1>1, Opened DEF OpenPushed
  <2> QED BY <1>1, <2>1 DEF OpenPushed
<1>2. CASE ReaderEnds
  BY <1>2 DEF ReaderEnds
<1>3. CASE Drop
  BY <1>3 DEF Drop
<1>4. CASE BodyStop
  BY <1>4 DEF BodyStop
<1>5. CASE BodyLock
  BY <1>5 DEF BodyLock
<1>6. CASE BodyTellListener
  BY <1>6 DEF BodyTellListener, RoomForToken
<1>7. ASSUME NEW h \in Threads, BodyTellAccepter(h) PROVE TypeOK'
  BY <1>7 DEF BodyTellAccepter, TakesStop, AfterStop
<1>8. CASE BodySubs
  BY <1>8 DEF BodySubs, CloseSubs
<1>9. ASSUME NEW h \in Punchers, OpenPunched(h) PROVE TypeOK'
  <2>1. PICK x \in Subs : /\ sub[x] = "new" /\ sub' = [sub EXCEPT ![x] = "live"]
                         /\ held' = [held EXCEPT ![h] = x]
    BY <1>9, Opened DEF OpenPunched
  <2> QED BY <1>9, <2>1 DEF OpenPunched
<1>10. ASSUME NEW h \in Openers, Offer(h) PROVE TypeOK'
  <2>1. held[h] \in Subs BY <1>10 DEF Offer, Hands
  <2>2. queue' \in Seq(Subs) /\ Len(queue') = Len(queue) + 1
    BY <1>10, <2>1, AppendProperties DEF Offer
  <2>3. Len(queue') <= QueueCap BY <1>10, <2>2, QueueAssumption, LenProperties DEF Offer
  <2> QED BY <1>10, <2>2, <2>3 DEF Offer
<1>11. ASSUME NEW h \in Openers, TakeStop(h) PROVE TypeOK'
  BY <1>11 DEF TakeStop
<1>12. ASSUME NEW h \in Openers, PutBack(h) PROVE TypeOK'
  BY <1>12 DEF PutBack, CloseSubs
<1>13. ASSUME NEW h \in Openers, NEW a \in Accepters, HandOver(h, a) PROVE TypeOK'
  <2>1. held[h] \in Subs BY <1>13 DEF HandOver, Hands
  <2> QED BY <1>13, <2>1 DEF HandOver
<1>14. ASSUME NEW h \in Openers, NEW t \in Threads, PutBackTo(h, t) PROVE TypeOK'
  BY <1>14 DEF PutBackTo, TakesStop, AfterStop, CloseSubs
<1>15. ASSUME NEW h \in Openers \cup Dialers, SetSubBox(h) PROVE TypeOK'
  <2>1. held[h] \in Subs BY <1>15 DEF SetSubBox, Hands
  <2>2. CASE disable BY <1>15, <2>1, <2>2 DEF SetSubBox, CloseSubs
  <2>3. CASE ~ disable BY <1>15, <2>1, <2>3 DEF SetSubBox
  <2> QED BY <2>2, <2>3
<1>16. ASSUME NEW h \in Dialers, Dial(h) PROVE TypeOK'
  <2>1. PICK x \in Subs : /\ sub[x] = "new" /\ sub' = [sub EXCEPT ![x] = "live"]
                         /\ held' = [held EXCEPT ![h] = x]
    BY <1>16, Opened DEF Dial
  <2> QED BY <1>16, <2>1 DEF Dial
<1>17. ASSUME NEW h \in Listeners, Listen(h) PROVE TypeOK'
  BY <1>17 DEF Listen
<1>18. ASSUME NEW h \in Listeners, ListenNext(h) PROVE TypeOK'
  <2>1. Head(queue) \in Subs /\ Tail(queue) \in Seq(Subs) /\ Len(Tail(queue)) <= QueueCap
    BY <1>18, QueueAssumption, HeadTailProperties, LenProperties DEF ListenNext
  <2> QED BY <1>18, <2>1 DEF ListenNext
<1>19. ASSUME NEW h \in Listeners, ListenStop(h) PROVE TypeOK'
  BY <1>19 DEF ListenStop
<1>20. ASSUME NEW h \in Listeners, ListenReturn(h) PROVE TypeOK'
  BY <1>20 DEF ListenReturn, RoomForToken
<1>21. ASSUME NEW h \in Accepters, Accept(h) PROVE TypeOK'
  BY <1>21 DEF Accept
<1>22. ASSUME NEW h \in Accepters, AcceptQueued(h) PROVE TypeOK'
  <2>1. Head(queue) \in Subs /\ Tail(queue) \in Seq(Subs) /\ Len(Tail(queue)) <= QueueCap
    BY <1>22, QueueAssumption, HeadTailProperties, LenProperties DEF AcceptQueued
  <2> QED BY <1>22, <2>1 DEF AcceptQueued
<1>23. ASSUME NEW h \in Accepters, AcceptStop(h) PROVE TypeOK'
  BY <1>23 DEF AcceptStop
<1>24. ASSUME NEW h \in Waiters, WaitCall(h) PROVE TypeOK'
  BY <1>24 DEF WaitCall
<1>25. ASSUME NEW h \in Waiters \cup {Pinger}, WaitTake(h) PROVE TypeOK'
  BY <1>25 DEF WaitTake
<1>26. ASSUME NEW h \in Waiters \cup {Pinger}, WaitPutBack(h) PROVE TypeOK'
  BY <1>26 DEF WaitPutBack
<1>27. ASSUME NEW h \in Closers, CloseCall(h) PROVE TypeOK'
  BY <1>27 DEF CloseCall
<1>28. ASSUME NEW h \in Closers \cup {Reader, Pinger}, CloseEnter(h) PROVE TypeOK'
  BY <1>28 DEF CloseEnter
<1>29. ASSUME NEW h \in Closers \cup {Reader, Pinger}, CloseReturn(h) PROVE TypeOK'
  BY <1>29 DEF CloseReturn
<1>30. ASSUME NEW x \in Subs, CloseSub(x) PROVE TypeOK'
  BY <1>30 DEF CloseSub, CloseSubs
<1>31. CASE UNCHANGED vars BY <1>31 DEF vars
<1> QED
  BY <1>1, <1>2, <1>3, <1>4, <1>5, <1>6, <1>7, <1>8, <1>9, <1>10, <1>11, <1>12, <1>13, <1>14, <1>15,
     <1>16, <1>17, <1>18, <1>19, <1>20, <1>21, <1>22, <1>23, <1>24, <1>25, <1>26, <1>27, <1>28, <1>29, <1>30, <1>31
     DEF Next, Body, OpenerStep

\* A goroutine takes a sub only with empty hands.
LEMMA HandsStep ==
  ASSUME IInv, [Next]_vars
  PROVE  Hands'
<1> USE Kinds, NoneAssumption DEF IInv, TypeOK, Hands, Goto, Hold, channels, ending, table
<1>1. CASE OpenPushed
  <2>1. PICK x \in Subs : /\ sub[x] = "new" /\ sub' = [sub EXCEPT ![x] = "live"]
                         /\ held' = [held EXCEPT ![Reader] = x]
    BY <1>1, Opened DEF OpenPushed
  <2> QED BY <1>1, <2>1 DEF OpenPushed
<1>2. CASE ReaderEnds
  BY <1>2 DEF ReaderEnds
<1>3. CASE Drop
  BY <1>3 DEF Drop
<1>4. CASE BodyStop
  BY <1>4 DEF BodyStop
<1>5. CASE BodyLock
  BY <1>5 DEF BodyLock
<1>6. CASE BodyTellListener
  BY <1>6 DEF BodyTellListener, RoomForToken
<1>7. ASSUME NEW h \in Threads, BodyTellAccepter(h) PROVE Hands'
  BY <1>7 DEF BodyTellAccepter, TakesStop, AfterStop
<1>8. CASE BodySubs
  BY <1>8 DEF BodySubs, CloseSubs
<1>9. ASSUME NEW h \in Punchers, OpenPunched(h) PROVE Hands'
  <2>1. PICK x \in Subs : /\ sub[x] = "new" /\ sub' = [sub EXCEPT ![x] = "live"]
                         /\ held' = [held EXCEPT ![h] = x]
    BY <1>9, Opened DEF OpenPunched
  <2> QED BY <1>9, <2>1 DEF OpenPunched
<1>10. ASSUME NEW h \in Openers, Offer(h) PROVE Hands'
  BY <1>10 DEF Offer
<1>11. ASSUME NEW h \in Openers, TakeStop(h) PROVE Hands'
  BY <1>11 DEF TakeStop
<1>12. ASSUME NEW h \in Openers, PutBack(h) PROVE Hands'
  BY <1>12 DEF PutBack, CloseSubs
<1>13. ASSUME NEW h \in Openers, NEW a \in Accepters, HandOver(h, a) PROVE Hands'
  BY <1>13 DEF HandOver
<1>14. ASSUME NEW h \in Openers, NEW t \in Threads, PutBackTo(h, t) PROVE Hands'
  BY <1>14 DEF PutBackTo, TakesStop, AfterStop, CloseSubs
<1>15. ASSUME NEW h \in Openers \cup Dialers, SetSubBox(h) PROVE Hands'
  BY <1>15 DEF SetSubBox, CloseSubs
<1>16. ASSUME NEW h \in Dialers, Dial(h) PROVE Hands'
  <2>1. PICK x \in Subs : /\ sub[x] = "new" /\ sub' = [sub EXCEPT ![x] = "live"]
                         /\ held' = [held EXCEPT ![h] = x]
    BY <1>16, Opened DEF Dial
  <2> QED BY <1>16, <2>1 DEF Dial
<1>17. ASSUME NEW h \in Listeners, Listen(h) PROVE Hands'
  BY <1>17 DEF Listen
<1>18. ASSUME NEW h \in Listeners, ListenNext(h) PROVE Hands'
  BY <1>18 DEF ListenNext
<1>19. ASSUME NEW h \in Listeners, ListenStop(h) PROVE Hands'
  BY <1>19 DEF ListenStop
<1>20. ASSUME NEW h \in Listeners, ListenReturn(h) PROVE Hands'
  BY <1>20 DEF ListenReturn, RoomForToken
<1>21. ASSUME NEW h \in Accepters, Accept(h) PROVE Hands'
  BY <1>21 DEF Accept
<1>22. ASSUME NEW h \in Accepters, AcceptQueued(h) PROVE Hands'
  BY <1>22 DEF AcceptQueued
<1>23. ASSUME NEW h \in Accepters, AcceptStop(h) PROVE Hands'
  BY <1>23 DEF AcceptStop
<1>24. ASSUME NEW h \in Waiters, WaitCall(h) PROVE Hands'
  BY <1>24 DEF WaitCall
<1>25. ASSUME NEW h \in Waiters \cup {Pinger}, WaitTake(h) PROVE Hands'
  BY <1>25 DEF WaitTake
<1>26. ASSUME NEW h \in Waiters \cup {Pinger}, WaitPutBack(h) PROVE Hands'
  BY <1>26 DEF WaitPutBack
<1>27. ASSUME NEW h \in Closers, CloseCall(h) PROVE Hands'
  BY <1>27 DEF CloseCall
<1>28. ASSUME NEW h \in Closers \cup {Reader, Pinger}, CloseEnter(h) PROVE Hands'
  BY <1>28 DEF CloseEnter
<1>29. ASSUME NEW h \in Closers \cup {Reader, Pinger}, CloseReturn(h) PROVE Hands'
  BY <1>29 DEF CloseReturn
<1>30. ASSUME NEW x \in Subs, CloseSub(x) PROVE Hands'
  BY <1>30 DEF CloseSub, CloseSubs
<1>31. CASE UNCHANGED vars BY <1>31 DEF vars
<1> QED
  BY <1>1, <1>2, <1>3, <1>4, <1>5, <1>6, <1>7, <1>8, <1>9, <1>10, <1>11, <1>12, <1>13, <1>14, <1>15,
     <1>16, <1>17, <1>18, <1>19, <1>20, <1>21, <1>22, <1>23, <1>24, <1>25, <1>26, <1>27, <1>28, <1>29, <1>30, <1>31
     DEF Next, Body, OpenerStep

\* Only Close sets disable, takes the lock for more than a step and empties subMap.
LEMMA OrderStep ==
  ASSUME IInv, [Next]_vars
  PROVE  Order'
<1> USE NoneAssumption DEF IInv, TypeOK, Order, channels, ending, table
<1>1. CASE OpenPushed
  BY <1>1 DEF OpenPushed
<1>2. CASE ReaderEnds
  BY <1>2 DEF ReaderEnds
<1>3. CASE Drop
  BY <1>3 DEF Drop
<1>4. CASE BodyStop
  BY <1>4 DEF BodyStop
<1>5. CASE BodyLock
  BY <1>5 DEF BodyLock
<1>6. CASE BodyTellListener
  BY <1>6 DEF BodyTellListener, RoomForToken
<1>7. ASSUME NEW h \in Threads, BodyTellAccepter(h) PROVE Order'
  BY <1>7 DEF BodyTellAccepter, TakesStop, AfterStop
<1>8. CASE BodySubs
  BY <1>8 DEF BodySubs, CloseSubs
<1>9. ASSUME NEW h \in Punchers, OpenPunched(h) PROVE Order'
  BY <1>9 DEF OpenPunched
<1>10. ASSUME NEW h \in Openers, Offer(h) PROVE Order'
  BY <1>10 DEF Offer
<1>11. ASSUME NEW h \in Openers, TakeStop(h) PROVE Order'
  BY <1>11 DEF TakeStop
<1>12. ASSUME NEW h \in Openers, PutBack(h) PROVE Order'
  BY <1>12 DEF PutBack, CloseSubs
<1>13. ASSUME NEW h \in Openers, NEW a \in Accepters, HandOver(h, a) PROVE Order'
  BY <1>13 DEF HandOver
<1>14. ASSUME NEW h \in Openers, NEW t \in Threads, PutBackTo(h, t) PROVE Order'
  BY <1>14 DEF PutBackTo, TakesStop, AfterStop, CloseSubs
<1>15. ASSUME NEW h \in Openers \cup Dialers, SetSubBox(h) PROVE Order'
  BY <1>15 DEF SetSubBox, CloseSubs
<1>16. ASSUME NEW h \in Dialers, Dial(h) PROVE Order'
  BY <1>16 DEF Dial
<1>17. ASSUME NEW h \in Listeners, Listen(h) PROVE Order'
  BY <1>17 DEF Listen
<1>18. ASSUME NEW h \in Listeners, ListenNext(h) PROVE Order'
  BY <1>18 DEF ListenNext
<1>19. ASSUME NEW h \in Listeners, ListenStop(h) PROVE Order'
  BY <1>19 DEF ListenStop
<1>20. ASSUME NEW h \in Listeners, ListenReturn(h) PROVE Order'
  BY <1>20 DEF ListenReturn, RoomForToken
<1>21. ASSUME NEW h \in Accepters, Accept(h) PROVE Order'
  BY <1>21 DEF Accept
<1>22. ASSUME NEW h \in Accepters, AcceptQueued(h) PROVE Order'
  BY <1>22 DEF AcceptQueued
<1>23. ASSUME NEW h \in Accepters, AcceptStop(h) PROVE Order'
  BY <1>23 DEF AcceptStop
<1>24. ASSUME NEW h \in Waiters, WaitCall(h) PROVE Order'
  BY <1>24 DEF WaitCall
<1>25. ASSUME NEW h \in Waiters \cup {Pinger}, WaitTake(h) PROVE Order'
  BY <1>25 DEF WaitTake
<1>26. ASSUME NEW h \in Waiters \cup {Pinger}, WaitPutBack(h) PROVE Order'
  BY <1>26 DEF WaitPutBack
<1>27. ASSUME NEW h \in Closers, CloseCall(h) PROVE Order'
  BY <1>27 DEF CloseCall
<1>28. ASSUME NEW h \in Closers \cup {Reader, Pinger}, CloseEnter(h) PROVE Order'
  BY <1>28 DEF CloseEnter
<1>29. ASSUME NEW h \in Closers \cup {Reader, Pinger}, CloseReturn(h) PROVE Order'
  BY <1>29 DEF CloseReturn
<1>30. ASSUME NEW x \in Subs, CloseSub(x) PROVE Order'
  BY <1>30 DEF CloseSub, CloseSubs
<1>31. CASE UNCHANGED vars BY <1>31 DEF vars
<1> QED
  BY <1>1, <1>2, <1>3, <1>4, <1>5, <1>6, <1>7, <1>8, <1>9, <1>10, <1>11, <1>12, <1>13, <1>14, <1>15,
     <1>16, <1>17, <1>18, <1>19, <1>20, <1>21, <1>22, <1>23, <1>24, <1>25, <1>26, <1>27, <1>28, <1>29, <1>30, <1>31
     DEF Next, Body, OpenerStep

\* Nobody lets go of an open sub that is not in subMap.
LEMMA AccountedStep ==
  ASSUME IInv, [Next]_vars
  PROVE  Accounted'
<1> USE Kinds, NoneAssumption DEF IInv, TypeOK, Accounted, Hold, channels, ending, table
<1>1. CASE OpenPushed
  <2>1. PICK x \in Subs : /\ sub[x] = "new" /\ sub' = [sub EXCEPT ![x] = "live"]
                         /\ held' = [held EXCEPT ![Reader] = x]
    BY <1>1, Opened DEF OpenPushed
  <2>2. held[Reader] = None BY <1>1 DEF OpenPushed, Hands
  <2> QED BY <1>1, <2>1, <2>2 DEF OpenPushed
<1>2. CASE ReaderEnds
  BY <1>2 DEF ReaderEnds
<1>3. CASE Drop
  BY <1>3 DEF Drop
<1>4. CASE BodyStop
  BY <1>4 DEF BodyStop
<1>5. CASE BodyLock
  BY <1>5 DEF BodyLock
<1>6. CASE BodyTellListener
  BY <1>6 DEF BodyTellListener, RoomForToken
<1>7. ASSUME NEW h \in Threads, BodyTellAccepter(h) PROVE Accounted'
  BY <1>7 DEF BodyTellAccepter, TakesStop, AfterStop
<1>8. CASE BodySubs
  BY <1>8 DEF BodySubs, CloseSubs
<1>9. ASSUME NEW h \in Punchers, OpenPunched(h) PROVE Accounted'
  <2>1. PICK x \in Subs : /\ sub[x] = "new" /\ sub' = [sub EXCEPT ![x] = "live"]
                         /\ held' = [held EXCEPT ![h] = x]
    BY <1>9, Opened DEF OpenPunched
  <2>2. held[h] = None BY <1>9 DEF OpenPunched, Hands
  <2> QED BY <1>9, <2>1, <2>2 DEF OpenPunched
<1>10. ASSUME NEW h \in Openers, Offer(h) PROVE Accounted'
  BY <1>10 DEF Offer
<1>11. ASSUME NEW h \in Openers, TakeStop(h) PROVE Accounted'
  BY <1>11 DEF TakeStop
<1>12. ASSUME NEW h \in Openers, PutBack(h) PROVE Accounted'
  BY <1>12 DEF PutBack, CloseSubs
<1>13. ASSUME NEW h \in Openers, NEW a \in Accepters, HandOver(h, a) PROVE Accounted'
  BY <1>13 DEF HandOver
<1>14. ASSUME NEW h \in Openers, NEW t \in Threads, PutBackTo(h, t) PROVE Accounted'
  BY <1>14 DEF PutBackTo, TakesStop, AfterStop, CloseSubs
<1>15. ASSUME NEW h \in Openers \cup Dialers, SetSubBox(h) PROVE Accounted'
  BY <1>15 DEF SetSubBox, CloseSubs
<1>16. ASSUME NEW h \in Dialers, Dial(h) PROVE Accounted'
  <2>1. PICK x \in Subs : /\ sub[x] = "new" /\ sub' = [sub EXCEPT ![x] = "live"]
                         /\ held' = [held EXCEPT ![h] = x]
    BY <1>16, Opened DEF Dial
  <2>2. held[h] = None BY <1>16 DEF Dial, Hands
  <2> QED BY <1>16, <2>1, <2>2 DEF Dial
<1>17. ASSUME NEW h \in Listeners, Listen(h) PROVE Accounted'
  BY <1>17 DEF Listen
<1>18. ASSUME NEW h \in Listeners, ListenNext(h) PROVE Accounted'
  BY <1>18 DEF ListenNext
<1>19. ASSUME NEW h \in Listeners, ListenStop(h) PROVE Accounted'
  BY <1>19 DEF ListenStop
<1>20. ASSUME NEW h \in Listeners, ListenReturn(h) PROVE Accounted'
  BY <1>20 DEF ListenReturn, RoomForToken
<1>21. ASSUME NEW h \in Accepters, Accept(h) PROVE Accounted'
  BY <1>21 DEF Accept
<1>22. ASSUME NEW h \in Accepters, AcceptQueued(h) PROVE Accounted'
  BY <1>22 DEF AcceptQueued
<1>23. ASSUME NEW h \in Accepters, AcceptStop(h) PROVE Accounted'
  BY <1>23 DEF AcceptStop
<1>24. ASSUME NEW h \in Waiters, WaitCall(h) PROVE Accounted'
  BY <1>24 DEF WaitCall
<1>25. ASSUME NEW h \in Waiters \cup {Pinger}, WaitTake(h) PROVE Accounted'
  BY <1>25 DEF WaitTake
<1>26. ASSUME NEW h \in Waiters \cup {Pinger}, WaitPutBack(h) PROVE Accounted'
  BY <1>26 DEF WaitPutBack
<1>27. ASSUME NEW h \in Closers, CloseCall(h) PROVE Accounted'
  BY <1>27 DEF CloseCall
<1>28. ASSUME NEW h \in Closers \cup {Reader, Pinger}, CloseEnter(h) PROVE Accounted'
  BY <1>28 DEF CloseEnter
<1>29. ASSUME NEW h \in Closers \cup {Reader, Pinger}, CloseReturn(h) PROVE Accounted'
  BY <1>29 DEF CloseReturn
<1>30. ASSUME NEW x \in Subs, CloseSub(x) PROVE Accounted'
  BY <1>30 DEF CloseSub, CloseSubs
<1>31. CASE UNCHANGED vars BY <1>31 DEF vars
<1> QED
  BY <1>1, <1>2, <1>3, <1>4, <1>5, <1>6, <1>7, <1>8, <1>9, <1>10, <1>11, <1>12, <1>13, <1>14, <1>15,
     <1>16, <1>17, <1>18, <1>19, <1>20, <1>21, <1>22, <1>23, <1>24, <1>25, <1>26, <1>27, <1>28, <1>29, <1>30, <1>31
     DEF Next, Body, OpenerStep

\* Only the body of Close adds a token, and who takes it holds the only one there is.
LEMMA StopStep ==
  ASSUME IInv, StopKept, [Next]_vars
  PROVE  StopKept'
<1> USE Kinds DEF IInv, TypeOK, Labels, StopKept, Goto, channels, ending, table
<1>1. CASE OpenPushed
  BY <1>1 DEF OpenPushed
<1>2. CASE ReaderEnds
  BY <1>2 DEF ReaderEnds
<1>3. CASE Drop
  BY <1>3 DEF Drop
<1>4. CASE BodyStop
  BY <1>4 DEF BodyStop
<1>5. CASE BodyLock
  BY <1>5 DEF BodyLock
<1>6. CASE BodyTellListener
  BY <1>6 DEF BodyTellListener, RoomForToken
<1>7. ASSUME NEW h \in Threads, BodyTellAccepter(h) PROVE StopKept'
  BY <1>7 DEF BodyTellAccepter, TakesStop, AfterStop
<1>8. CASE BodySubs
  BY <1>8 DEF BodySubs, CloseSubs
<1>9. ASSUME NEW h \in Punchers, OpenPunched(h) PROVE StopKept'
  BY <1>9 DEF OpenPunched
<1>10. ASSUME NEW h \in Openers, Offer(h) PROVE StopKept'
  BY <1>10 DEF Offer
<1>11. ASSUME NEW h \in Openers, TakeStop(h) PROVE StopKept'
  BY <1>11 DEF TakeStop
<1>12. ASSUME NEW h \in Openers, PutBack(h) PROVE StopKept'
  BY <1>12 DEF PutBack, CloseSubs
<1>13. ASSUME NEW h \in Openers, NEW a \in Accepters, HandOver(h, a) PROVE StopKept'
  BY <1>13 DEF HandOver
<1>14. ASSUME NEW h \in Openers, NEW t \in Threads, PutBackTo(h, t) PROVE StopKept'
  BY <1>14 DEF PutBackTo, TakesStop, AfterStop, CloseSubs
<1>15. ASSUME NEW h \in Openers \cup Dialers, SetSubBox(h) PROVE StopKept'
  BY <1>15 DEF SetSubBox, CloseSubs
<1>16. ASSUME NEW h \in Dialers, Dial(h) PROVE StopKept'
  BY <1>16 DEF Dial
<1>17. ASSUME NEW h \in Listeners, Listen(h) PROVE StopKept'
  BY <1>17 DEF Listen
<1>18. ASSUME NEW h \in Listeners, ListenNext(h) PROVE StopKept'
  BY <1>18 DEF ListenNext
<1>19. ASSUME NEW h \in Listeners, ListenStop(h) PROVE StopKept'
  BY <1>19 DEF ListenStop
<1>20. ASSUME NEW h \in Listeners, ListenReturn(h) PROVE StopKept'
  BY <1>20 DEF ListenReturn, RoomForToken
<1>21. ASSUME NEW h \in Accepters, Accept(h) PROVE StopKept'
  BY <1>21 DEF Accept
<1>22. ASSUME NEW h \in Accepters, AcceptQueued(h) PROVE StopKept'
  BY <1>22 DEF AcceptQueued
<1>23. ASSUME NEW h \in Accepters, AcceptStop(h) PROVE StopKept'
  BY <1>23 DEF AcceptStop
<1>24. ASSUME NEW h \in Waiters, WaitCall(h) PROVE StopKept'
  BY <1>24 DEF WaitCall
<1>25. ASSUME NEW h \in Waiters \cup {Pinger}, WaitTake(h) PROVE StopKept'
  BY <1>25 DEF WaitTake
<1>26. ASSUME NEW h \in Waiters \cup {Pinger}, WaitPutBack(h) PROVE StopKept'
  BY <1>26 DEF WaitPutBack
<1>27. ASSUME NEW h \in Closers, CloseCall(h) PROVE StopKept'
  BY <1>27 DEF CloseCall
<1>28. ASSUME NEW h \in Closers \cup {Reader, Pinger}, CloseEnter(h) PROVE StopKept'
  BY <1>28 DEF CloseEnter
<1>29. ASSUME NEW h \in Closers \cup {Reader, Pinger}, CloseReturn(h) PROVE StopKept'
  BY <1>29 DEF CloseReturn
<1>30. ASSUME NEW x \in Subs, CloseSub(x) PROVE StopKept'
  BY <1>30 DEF CloseSub, CloseSubs
<1>31. CASE UNCHANGED vars BY <1>31 DEF vars
<1> QED
  BY <1>1, <1>2, <1>3, <1>4, <1>5, <1>6, <1>7, <1>8, <1>9, <1>10, <1>11, <1>12, <1>13, <1>14, <1>15,
     <1>16, <1>17, <1>18, <1>19, <1>20, <1>21, <1>22, <1>23, <1>24, <1>25, <1>26, <1>27, <1>28, <1>29, <1>30, <1>31
     DEF Next, Body, OpenerStep

\* A stop error is taken only by a goroutine that puts it back into the buffer.
LEMMA ErrorStep ==
  ASSUME Accepters = {}, IInv, ErrorKept, [Next]_vars
  PROVE  ErrorKept' /\ (ErrorSent => ErrorSent')
<1> USE Kinds DEF IInv, TypeOK, Labels, ErrorKept, ErrorSent, PutsBack, Goto, channels, ending, table
<1>1. CASE OpenPushed
  BY <1>1 DEF OpenPushed
<1>2. CASE ReaderEnds
  BY <1>2 DEF ReaderEnds
<1>3. CASE Drop
  BY <1>3 DEF Drop
<1>4. CASE BodyStop
  BY <1>4 DEF BodyStop
<1>5. CASE BodyLock
  BY <1>5 DEF BodyLock
<1>6. CASE BodyTellListener
  BY <1>6 DEF BodyTellListener, RoomForToken
<1>7. ASSUME NEW h \in Threads, BodyTellAccepter(h) PROVE ErrorKept' /\ (ErrorSent => ErrorSent')
  BY <1>7 DEF BodyTellAccepter, TakesStop, AfterStop
<1>8. CASE BodySubs
  BY <1>8 DEF BodySubs, CloseSubs
<1>9. ASSUME NEW h \in Punchers, OpenPunched(h) PROVE ErrorKept' /\ (ErrorSent => ErrorSent')
  BY <1>9 DEF OpenPunched
<1>10. ASSUME NEW h \in Openers, Offer(h) PROVE ErrorKept' /\ (ErrorSent => ErrorSent')
  BY <1>10 DEF Offer
<1>11. ASSUME NEW h \in Openers, TakeStop(h) PROVE ErrorKept' /\ (ErrorSent => ErrorSent')
  BY <1>11 DEF TakeStop
<1>12. ASSUME NEW h \in Openers, PutBack(h) PROVE ErrorKept' /\ (ErrorSent => ErrorSent')
  BY <1>12 DEF PutBack, CloseSubs
<1>13. ASSUME NEW h \in Openers, NEW a \in Accepters, HandOver(h, a) PROVE ErrorKept' /\ (ErrorSent => ErrorSent')
  BY <1>13 DEF HandOver
<1>14. ASSUME NEW h \in Openers, NEW t \in Threads, PutBackTo(h, t) PROVE ErrorKept' /\ (ErrorSent => ErrorSent')
  BY <1>14 DEF PutBackTo, TakesStop, AfterStop, CloseSubs
<1>15. ASSUME NEW h \in Openers \cup Dialers, SetSubBox(h) PROVE ErrorKept' /\ (ErrorSent => ErrorSent')
  BY <1>15 DEF SetSubBox, CloseSubs
<1>16. ASSUME NEW h \in Dialers, Dial(h) PROVE ErrorKept' /\ (ErrorSent => ErrorSent')
  BY <1>16 DEF Dial
<1>17. ASSUME NEW h \in Listeners, Listen(h) PROVE ErrorKept' /\ (ErrorSent => ErrorSent')
  BY <1>17 DEF Listen
<1>18. ASSUME NEW h \in Listeners, ListenNext(h) PROVE ErrorKept' /\ (ErrorSent => ErrorSent')
  BY <1>18 DEF ListenNext
<1>19. ASSUME NEW h \in Listeners, ListenStop(h) PROVE ErrorKept' /\ (ErrorSent => ErrorSent')
  BY <1>19 DEF ListenStop
<1>20. ASSUME NEW h \in Listeners, ListenReturn(h) PROVE ErrorKept' /\ (ErrorSent => ErrorSent')
  BY <1>20 DEF ListenReturn, RoomForToken
<1>21. ASSUME NEW h \in Accepters, Accept(h) PROVE ErrorKept' /\ (ErrorSent => ErrorSent')
  BY <1>21 DEF Accept
<1>22. ASSUME NEW h \in Accepters, AcceptQueued(h) PROVE ErrorKept' /\ (ErrorSent => ErrorSent')
  BY <1>22 DEF AcceptQueued
<1>23. ASSUME NEW h \in Accepters, AcceptStop(h) PROVE ErrorKept' /\ (ErrorSent => ErrorSent')
  BY <1>23 DEF AcceptStop
<1>24. ASSUME NEW h \in Waiters, WaitCall(h) PROVE ErrorKept' /\ (ErrorSent => ErrorSent')
  BY <1>24 DEF WaitCall
<1>25. ASSUME NEW h \in Waiters \cup {Pinger}, WaitTake(h) PROVE ErrorKept' /\ (ErrorSent => ErrorSent')
  BY <1>25 DEF WaitTake
<1>26. ASSUME NEW h \in Waiters \cup {Pinger}, WaitPutBack(h) PROVE ErrorKept' /\ (ErrorSent => ErrorSent')
  BY <1>26 DEF WaitPutBack
<1>27. ASSUME NEW h \in Closers, CloseCall(h) PROVE ErrorKept' /\ (ErrorSent => ErrorSent')
  BY <1>27 DEF CloseCall
<1>28. ASSUME NEW h \in Closers \cup {Reader, Pinger}, CloseEnter(h) PROVE ErrorKept' /\ (ErrorSent => ErrorSent')
  BY <1>28 DEF CloseEnter
<1>29. ASSUME NEW h \in Closers \cup {Reader, Pinger}, CloseReturn(h) PROVE ErrorKept' /\ (ErrorSent => ErrorSent')
  BY <1>29 DEF CloseReturn
<1>30. ASSUME NEW x \in Subs, CloseSub(x) PROVE ErrorKept' /\ (ErrorSent => ErrorSent')
  BY <1>30 DEF CloseSub, CloseSubs
<1>31. CASE UNCHANGED vars BY <1>31 DEF vars
<1> QED
  BY <1>1, <1>2, <1>3, <1>4, <1>5, <1>6, <1>7, <1>8, <1>9, <1>10, <1>11, <1>12, <1>13, <1>14, <1>15,
     <1>16, <1>17, <1>18, <1>19, <1>20, <1>21, <1>22, <1>23, <1>24, <1>25, <1>26, <1>27, <1>28, <1>29, <1>30, <1>31
     DEF Next, Body, OpenerStep

-----------------------------------------------------------------------------
\* IInv holds in every state of every run.
THEOREM Invariant == Spec => []IInv
<1>1. IInv /\ [Next]_vars => IInv'
  BY TypeStep, HandsStep, OrderStep, AccountedStep DEF IInv
<1> QED BY InitIInv, <1>1, PTL DEF Spec

\* Every variable keeps its type; in particular none of the channels subListen,
\* subListenStop and stop ever holds more than its capacity.
THEOREM TypesOK == Spec => []TypeOK
<1>1. IInv => TypeOK BY DEF IInv
<1> QED BY <1>1, Invariant, PTL

\* When Close of a DeviceBox has returned, every sub the box ever opened is closed,
\* or in the hands of the goroutine that opens it, which is yet to register it with
\* setSubBox, or to put the stop error back, and closes it there.
THEOREM NoSubSurvivesClose == Spec => []NoSubOutlivesBox
<1>1. IInv => NoSubOutlivesBox
  BY DEF IInv, Order, Accounted, NoSubOutlivesBox
<1> QED BY <1>1, Invariant, PTL

\* The token that Close puts into stop is never lost: it is there, or one of those
\* in Wait, or the pinger, has it and puts it back.  No send into stop blocks,
\* neither that of Close nor that of Wait (client.go Wait), which is what lets each of
\* them return in turn.
THEOREM CloseTokenKept == Spec => []StopKept
<1>1. Init => StopKept BY DEF Init, StopKept
<1>2. IInv /\ StopKept /\ [Next]_vars => StopKept' BY StopStep
<1> QED BY <1>1, <1>2, Invariant, PTL DEF Spec

\* Where subs are taken by ListenSubBox only, the stop error of Close is never lost,
\* however many openers and listeners take it out of subListenStop: it is in the
\* buffer, or in the hands of a single goroutine, for which the buffer has room.
\* So no send into subListenStop blocks there, that of Close neither.
THEOREM StopErrorKept ==
  ASSUME Accepters = {} PROVE Spec => []ErrorKept /\ [][ErrorSent => ErrorSent']_vars
<1>1. Init => ErrorKept BY DEF Init, ErrorKept, ErrorSent, PutsBack
<1>2. IInv /\ ErrorKept /\ [Next]_vars => ErrorKept' /\ (ErrorSent => ErrorSent')
  BY ErrorStep
<1> QED BY <1>1, <1>2, Invariant, PTL DEF Spec
=============================================================================

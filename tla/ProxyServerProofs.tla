------------------------- MODULE ProxyServerProofs -------------------------
(***************************************************************************)
(* The proxy server's registry, subs and rooms are right for every set of  *)
(* boxes, subs, names and rooms.                                           *)
(*                                                                         *)
(* ServerInv is proved one part at a time, each part from the whole of     *)
(* ServerInv before the step, one case per action.  A live client stays    *)
(* registered because the newcomer that takes its name waits for the whole *)
(* body of closerOnce, the unregister included, before it stores itself:   *)
(* RegistryInv says so of the two labels it waits between, and PlaceInv    *)
(* and CloserInv say where the handler and the close are.  Subs are not    *)
(* orphaned because a close holds subMapLock from its first sub to the     *)
(* parent's unregister, and a sub attaches under the same lock (SubInv).   *)
(* A room links two and only two because the second to join holds the      *)
(* room's lock until it leaves (RoomInv).  ShutdownInv follows Close       *)
(* through the names it has still to visit.                                *)
(***************************************************************************)
EXTENDS ProxyServerInv, TLAPS

\* Every action keeps the types.
LEMMA TypeStep ==
  ASSUME TypeOK, PlaceInv, [Next]_vars
  PROVE  TypeOK'
<1> USE DEF TypeOK, Goto, CallClose, Entered, Write, CloserGoto, HandlerLabels,
    CloserLabels, connVars, idVars, subVars, regVars, roomVars, pcVars, locals,
    srvVars, others, elsewhere
<1>0. Boxes \subseteq Conn /\ Subs \subseteq Conn BY DEF Conn
<1>1. ASSUME NEW c \in Conn, SetDisable(c)
     PROVE  TypeOK'
  BY <1>1 DEF SetDisable
<1>2. ASSUME NEW c \in Conn, SkipLink(c)
     PROVE  TypeOK'
  BY <1>2 DEF SkipLink
<1>3. ASSUME NEW c \in Conn, CheckLink(c)
     PROVE  TypeOK'
  BY <1>3 DEF CheckLink
<1>4. ASSUME NEW c \in Conn, CloseLink(c)
     PROVE  TypeOK'
  BY <1>4 DEF CloseLink
<1>5. ASSUME NEW c \in Conn, LinkClosed(c)
     PROVE  TypeOK'
  BY <1>5 DEF LinkClosed
<1>6. ASSUME NEW c \in Conn, LockSubs(c)
     PROVE  TypeOK'
  BY <1>6 DEF LockSubs
<1>7. ASSUME NEW c \in Conn, NEW s \in Subs, CloseSub(c, s)
     PROVE  TypeOK'
  BY <1>0, <1>7 DEF CloseSub
<1>8. ASSUME NEW c \in Conn, SubClosed(c)
     PROVE  TypeOK'
  BY <1>8 DEF SubClosed
<1>9. ASSUME NEW c \in Conn, SubsClosed(c)
     PROVE  TypeOK'
  BY <1>9 DEF SubsClosed
<1>10. ASSUME NEW c \in Conn, Unregister(c)
     PROVE  TypeOK'
  BY <1>10 DEF Unregister
<1>11. ASSUME NEW c \in Conn, UnlockSubs(c)
     PROVE  TypeOK'
  BY <1>11 DEF UnlockSubs
<1>12. ASSUME NEW c \in Conn, CloseReturned(c)
     PROVE  TypeOK'
  BY <1>12 DEF CloseReturned
<1>13. ASSUME NEW c \in Conn, LockRegistry(c)
     PROVE  TypeOK'
  <2>1. c \in Boxes /\ registry[name[c]] \in Conn \cup {Nil}
    BY <1>0, <1>13 DEF LockRegistry, PlaceInv, PlaceOK, At, RegLabels
  <2>2. CASE registry[name[c]] = Nil BY <1>13, <2>1, <2>2 DEF LockRegistry
  <2>3. CASE registry[name[c]] # Nil
    BY SMTT(40), <1>13, <2>1, <2>3 DEF LockRegistry
  <2>4. QED BY <2>2, <2>3
<1>14. ASSUME NEW c \in Conn, StoreClient(c)
     PROVE  TypeOK'
  <2>1. c \in Boxes BY <1>14 DEF StoreClient, PlaceInv, PlaceOK, At, RegLabels
  <2>2. QED BY <1>14, <2>1 DEF StoreClient
<1>15. ASSUME NEW c \in Conn, RegisterReply(c)
     PROVE  TypeOK'
  BY <1>15 DEF RegisterReply
<1>16. ASSUME NEW c \in Conn, RegisterDone(c)
     PROVE  TypeOK'
  BY <1>16 DEF RegisterDone, ProxyBusiness
<1>17. ASSUME NEW c \in Conn, TellOdj(c)
     PROVE  TypeOK'
  <2>1. odj[c] \in Conn
    BY <1>0, <1>17 DEF TellOdj, PlaceInv, PlaceOK, At, JoinLabels, HoldLabels
  <2>2. CASE Goto(c, "tellme") /\ UNCHANGED connVars
    BY <1>17, <2>1, <2>2 DEF TellOdj
  <2>3. CASE CallClose(c, odj[c], "tellme") BY <1>17, <2>1, <2>3 DEF TellOdj
  <2>4. QED BY <1>17, <2>2, <2>3 DEF TellOdj
<1>18. ASSUME NEW c \in Conn, TellAsker(c)
     PROVE  TypeOK'
  BY <1>18 DEF TellAsker
<1>19. ASSUME NEW c \in Conn, TellP2P(c)
     PROVE  TypeOK'
  <2>1. odj[c] \in Conn
    BY <1>0, <1>19 DEF TellP2P, PlaceInv, PlaceOK, At, JoinLabels, HoldLabels
  <2>2. CASE Goto(c, "loop") /\ UNCHANGED connVars
    BY <1>19, <2>1, <2>2 DEF TellP2P
  <2>3. CASE CallClose(c, odj[c], "loop") BY <1>19, <2>1, <2>3 DEF TellP2P
  <2>4. QED BY <1>19, <2>2, <2>3 DEF TellP2P
<1>20. ASSUME NEW c \in Conn, Attach(c)
     PROVE  TypeOK'
  <2>1. c \in Subs /\ odj[c] \in Boxes
    BY <1>20 DEF Attach, PlaceInv, PlaceOK, At, JoinLabels
  <2>2. CASE disable[odj[c]]
    <3>1. /\ subLock' = [subLock EXCEPT ![odj[c]] = c] /\ CallClose(c, c, "detach")
          /\ UNCHANGED <<subMap, parent, step, name, link, visit, regVars, roomVars, locals, srvVars>>
      BY <1>20, <2>2 DEF Attach
    <3>2. QED BY <2>1, <3>1
  <2>3. CASE ~disable[odj[c]] BY <1>0, <1>20, <2>1, <2>3 DEF Attach
  <2>4. QED BY <2>2, <2>3
<1>21. ASSUME NEW c \in Conn, Detach(c)
     PROVE  TypeOK'
  BY <1>21 DEF Detach
<1>22. ASSUME NEW c \in Conn, LookupRoom(c)
     PROVE  TypeOK'
  BY <1>22 DEF LookupRoom
<1>23. ASSUME NEW c \in Conn, JoinFirst(c)
     PROVE  TypeOK'
  <2>1. c \in Subs /\ room[c] \in Rooms
    BY <1>23 DEF JoinFirst, PlaceInv, PlaceOK, At, JoinLabels, HoldLabels
  <2>2. QED BY <1>23, <2>1 DEF JoinFirst
<1>24. ASSUME NEW c \in Conn, JoinSecond(c)
     PROVE  TypeOK'
  <2>1. c \in Subs /\ room[c] \in Rooms
    BY <1>24 DEF JoinSecond, PlaceInv, PlaceOK, At, JoinLabels, HoldLabels
  <2>2. QED BY <1>24, <2>1 DEF JoinSecond
<1>25. ASSUME NEW c \in Conn, JoinRefused(c)
     PROVE  TypeOK'
  <2>1. c \in Subs /\ room[c] \in Rooms
    BY <1>25 DEF JoinRefused, PlaceInv, PlaceOK, At, JoinLabels, HoldLabels
  <2>2. QED BY <1>25, <2>1 DEF JoinRefused
<1>26. ASSUME NEW c \in Conn, LinkFirst(c)
     PROVE  TypeOK'
  <2>1. c \in Subs /\ room[c] \in Rooms
    BY <1>26 DEF LinkFirst, PlaceInv, PlaceOK, At, JoinLabels, HoldLabels
  <2>2. QED BY <1>26, <2>1 DEF LinkFirst
<1>27. ASSUME NEW c \in Conn, LinkSecond(c)
     PROVE  TypeOK'
  <2>1. c1[room[c]] \in Subs
    BY <1>27 DEF LinkSecond, PlaceInv, PlaceOK, At, JoinLabels, HoldLabels
  <2>2. QED BY <1>27, <2>1 DEF LinkSecond
<1>28. ASSUME NEW c \in Conn, TellFirst(c)
     PROVE  TypeOK'
  <2>1. c1[room[c]] \in Conn
    BY <1>0, <1>28 DEF TellFirst, PlaceInv, PlaceOK, At, JoinLabels, HoldLabels
  <2>2. CASE Goto(c, "tell2") /\ UNCHANGED connVars
    BY <1>28, <2>1, <2>2 DEF TellFirst
  <2>3. CASE CallClose(c, c1[room[c]], "tell2") BY <1>28, <2>1, <2>3 DEF TellFirst
  <2>4. QED BY <1>28, <2>2, <2>3 DEF TellFirst
<1>29. ASSUME NEW c \in Conn, TellSecond(c)
     PROVE  TypeOK'
  BY <1>29 DEF TellSecond
<1>30. ASSUME NEW c \in Conn, LeaveRoom(c)
     PROVE  TypeOK'
  <2>1. c \in Subs /\ room[c] \in Rooms
    BY <1>30 DEF LeaveRoom, PlaceInv, PlaceOK, At, JoinLabels, HoldLabels
  <2>2. QED BY <1>30, <2>1 DEF LeaveRoom
<1>31. ASSUME NEW c \in Conn, Accept(c)
     PROVE  TypeOK'
  BY <1>31 DEF Accept
<1>32. ASSUME NEW c \in Conn, HandlerExit(c)
     PROVE  TypeOK'
  BY <1>32 DEF HandlerExit
<1>33. ASSUME NEW c \in Boxes, HandshakeQ1(c)
     PROVE  TypeOK'
  <2>1. c \in Conn BY <1>0
  <2>2. QED BY <2>1, <1>33 DEF HandshakeQ1, ProxyRegister
<1>34. ASSUME NEW c \in Boxes, HandshakeNoName(c)
     PROVE  TypeOK'
  BY <1>0, <1>34 DEF HandshakeNoName, ProxyRegister
<1>35. ASSUME NEW c \in Boxes, Answer(c)
     PROVE  TypeOK'
  BY <1>0, <1>35 DEF Answer, ProxyBusiness
<1>36. ASSUME NEW c \in Boxes, NEW n \in Names, HandshakeQ2(c, n)
     PROVE  TypeOK'
  BY <1>0, <1>36 DEF HandshakeQ2, ProxyRegister
<1>37. ASSUME NEW c \in Boxes, NEW n \in Names, P2PUdpQ1(c, n)
     PROVE  TypeOK'
  <2>1. c \in Conn
    BY <1>0, <1>37 DEF P2PUdpQ1, PlaceInv, PlaceOK, At, JoinLabels, HoldLabels
  <2>2. CASE Goto(c, "p2p") /\ UNCHANGED connVars
    BY <1>37, <2>1, <2>2 DEF P2PUdpQ1
  <2>3. CASE CallClose(c, c, "p2p") BY <1>37, <2>1, <2>3 DEF P2PUdpQ1
  <2>4. QED BY <1>37, <2>2, <2>3 DEF P2PUdpQ1
<1>38. ASSUME NEW c \in Boxes, NEW n \in Names, NEW r \in Rooms, SOpenQ(c, n, r)
     PROVE  TypeOK'
  BY <1>0, <1>38 DEF SOpenQ, ProxyBusiness
<1>39. ASSUME NEW c \in Subs, NEW n \in Names \cup {Nil}, NEW r \in Rooms, TaskQ(c, n,
       r)
     PROVE  TypeOK'
  <2>1. c \in Conn BY <1>0, <1>39
  <2>2. CASE n = Nil BY <2>1, <1>39, <2>2 DEF TaskQ
  <2>3. CASE n # Nil /\ registry[n] = Nil BY <2>1, <1>39, <2>3 DEF TaskQ
  <2>4. CASE n # Nil /\ registry[n] # Nil BY <2>1, <1>39, <2>4 DEF TaskQ
  <2>5. QED BY <2>2, <2>3, <2>4
<1>40. ASSUME NEW r \in Rooms, Expire(r)
     PROVE  TypeOK'
  BY <1>40 DEF Expire
<1>41. ASSUME GcFires
     PROVE  TypeOK'
  BY <1>41 DEF GcFires
<1>42. ASSUME GcStopped
     PROVE  TypeOK'
  BY <1>42 DEF GcStopped
<1>43. ASSUME CloseListener
     PROVE  TypeOK'
  BY <1>43 DEF CloseListener, SrvLabels
<1>44. ASSUME LockForClose
     PROVE  TypeOK'
  BY <1>44 DEF LockForClose, SrvLabels
<1>45. ASSUME NEW n \in Names, VisitName(n)
     PROVE  TypeOK'
  BY <1>0, <1>45 DEF VisitName, SrvLabels
<1>46. ASSUME ClientClosed
     PROVE  TypeOK'
  BY <1>46 DEF ClientClosed, SrvLabels
<1>47. ASSUME UnlockAfterClose
     PROVE  TypeOK'
  BY <1>47 DEF UnlockAfterClose, SrvLabels
<1>48. CASE UNCHANGED <<disable, closer, step, name, parent, link, subMap, subLock, visit,
     registry, regLock, rooms, created, expired, roomStep, c1, roomLock, pc,
     waits, ret, odj, room, srv, todo, gc>>
  BY <1>48
<1>49. QED
  BY <1>0, <1>1, <1>2, <1>3, <1>4, <1>5, <1>6, <1>7, <1>8, <1>9, <1>10, <1>11,
     <1>12, <1>13, <1>14, <1>15, <1>16, <1>17, <1>18, <1>19, <1>20, <1>21,
     <1>22, <1>23, <1>24, <1>25, <1>26, <1>27, <1>28, <1>29, <1>30, <1>31,
     <1>32, <1>33, <1>34, <1>35, <1>36, <1>37, <1>38, <1>39, <1>40, <1>41,
     <1>42, <1>43, <1>44, <1>45, <1>46, <1>47, <1>48 DEF Next, Receive,
     ReceiveSub, Proceed, CloserStep, ServerClose, Terminated, vars

\* Every action keeps the handlers' places.
LEMMA PlaceStep ==
  ASSUME TypeOK, PlaceInv, [Next]_vars
  PROVE  PlaceInv'
<1> USE DEF PlaceInv, PlaceOK, At, RegLabels, AskLabels, JoinLabels, HoldLabels, Goto,
    CallClose, Write, ProxyInitialization, ProxyRegister, ProxyBusiness
<1>0. Boxes \subseteq Conn /\ Subs \subseteq Conn BY DEF Conn
<1>1. ASSUME NEW c \in Conn, CloseReturned(c)
     PROVE  PlaceInv'
  BY <1>0, <1>1, DisjointAssumption DEF CloseReturned, locals, elsewhere,
     idVars, roomVars, TypeOK, Conn
<1>2. ASSUME NEW c \in Conn, LockRegistry(c)
     PROVE  PlaceInv'
  BY <1>0, <1>2, DisjointAssumption DEF LockRegistry, idVars, roomVars,
     locals, TypeOK, Conn
<1>3. ASSUME NEW c \in Conn, StoreClient(c)
     PROVE  PlaceInv'
  BY <1>0, <1>3, DisjointAssumption DEF StoreClient, idVars, roomVars,
     locals, TypeOK, Conn
<1>4. ASSUME NEW c \in Conn, RegisterReply(c)
     PROVE  PlaceInv'
  BY <1>0, <1>4, DisjointAssumption DEF RegisterReply, locals, elsewhere,
     idVars, roomVars, TypeOK, Conn
<1>5. ASSUME NEW c \in Conn, RegisterDone(c)
     PROVE  PlaceInv'
  BY <1>0, <1>5, DisjointAssumption DEF RegisterDone, roomVars, locals,
     TypeOK, Conn
<1>6. ASSUME NEW c \in Conn, TellOdj(c)
     PROVE  PlaceInv'
  BY <1>0, <1>6, DisjointAssumption DEF TellOdj, elsewhere, idVars,
     roomVars, TypeOK, Conn
<1>7. ASSUME NEW c \in Conn, TellAsker(c)
     PROVE  PlaceInv'
  BY <1>0, <1>7, DisjointAssumption DEF TellAsker, locals, elsewhere,
     idVars, roomVars, TypeOK, Conn
<1>8. ASSUME NEW c \in Conn, TellP2P(c)
     PROVE  PlaceInv'
  BY <1>0, <1>8, DisjointAssumption DEF TellP2P, elsewhere, idVars,
     roomVars, TypeOK, Conn
<1>9. ASSUME NEW c \in Conn, Attach(c)
     PROVE  PlaceInv'
  BY <1>0, <1>9, DisjointAssumption DEF Attach, roomVars, locals, TypeOK,
     Conn
<1>10. ASSUME NEW c \in Conn, Detach(c)
     PROVE  PlaceInv'
  BY <1>0, <1>10, DisjointAssumption DEF Detach, roomVars, locals, TypeOK,
     Conn
<1>11. ASSUME NEW c \in Conn, LookupRoom(c)
     PROVE  PlaceInv'
  BY <1>0, <1>11, DisjointAssumption DEF LookupRoom, locals, elsewhere,
     idVars, roomVars, TypeOK, Conn
<1>12. ASSUME NEW c \in Conn, JoinFirst(c)
     PROVE  PlaceInv'
  BY <1>0, <1>12, DisjointAssumption DEF JoinFirst, idVars, locals, TypeOK,
     Conn
<1>13. ASSUME NEW c \in Conn, JoinSecond(c)
     PROVE  PlaceInv'
  BY <1>0, <1>13, DisjointAssumption DEF JoinSecond, idVars, locals, TypeOK,
     Conn
<1>14. ASSUME NEW c \in Conn, JoinRefused(c)
     PROVE  PlaceInv'
  BY <1>0, <1>14, DisjointAssumption DEF JoinRefused, idVars, locals,
     TypeOK, Conn
<1>15. ASSUME NEW c \in Conn, LinkFirst(c)
     PROVE  PlaceInv'
  BY <1>0, <1>15, DisjointAssumption DEF LinkFirst, idVars, roomVars,
     locals, TypeOK, Conn
<1>16. ASSUME NEW c \in Conn, LinkSecond(c)
     PROVE  PlaceInv'
  BY <1>0, <1>16, DisjointAssumption DEF LinkSecond, idVars, roomVars,
     locals, TypeOK, Conn
<1>17. ASSUME NEW c \in Conn, TellFirst(c)
     PROVE  PlaceInv'
  BY <1>0, <1>17, DisjointAssumption DEF TellFirst, locals, elsewhere,
     idVars, roomVars, TypeOK, Conn
<1>18. ASSUME NEW c \in Conn, TellSecond(c)
     PROVE  PlaceInv'
  BY <1>0, <1>18, DisjointAssumption DEF TellSecond, locals, elsewhere,
     idVars, roomVars, TypeOK, Conn
<1>19. ASSUME NEW c \in Conn, LeaveRoom(c)
     PROVE  PlaceInv'
  BY <1>0, <1>19, DisjointAssumption DEF LeaveRoom, idVars, locals, TypeOK,
     Conn
<1>20. ASSUME NEW c \in Conn, Accept(c)
     PROVE  PlaceInv'
  BY <1>0, <1>20, DisjointAssumption DEF Accept, locals, elsewhere, idVars,
     roomVars, TypeOK, Conn
<1>21. ASSUME NEW c \in Conn, HandlerExit(c)
     PROVE  PlaceInv'
  BY <1>0, <1>21, DisjointAssumption DEF HandlerExit, locals, elsewhere,
     idVars, roomVars, TypeOK, Conn
<1>22. ASSUME NEW c \in Boxes, HandshakeQ1(c)
     PROVE  PlaceInv'
  BY <1>0, <1>22, DisjointAssumption DEF HandshakeQ1, roomVars, locals,
     TypeOK, Conn
<1>23. ASSUME NEW c \in Boxes, HandshakeNoName(c)
     PROVE  PlaceInv'
  BY <1>0, <1>23, DisjointAssumption DEF HandshakeNoName, locals, elsewhere,
     idVars, roomVars, TypeOK, Conn
<1>24. ASSUME NEW c \in Boxes, Answer(c)
     PROVE  PlaceInv'
  BY <1>0, <1>24, DisjointAssumption DEF Answer, locals, elsewhere, idVars,
     roomVars, TypeOK, Conn
<1>25. ASSUME NEW c \in Boxes, NEW n \in Names, HandshakeQ2(c, n)
     PROVE  PlaceInv'
  BY <1>0, <1>25, DisjointAssumption DEF HandshakeQ2, roomVars, locals,
     TypeOK, Conn
<1>26. ASSUME NEW c \in Boxes, NEW n \in Names, P2PUdpQ1(c, n)
     PROVE  PlaceInv'
  BY <1>0, <1>26, DisjointAssumption DEF P2PUdpQ1, elsewhere, idVars,
     roomVars, TypeOK, Conn
<1>27. ASSUME NEW c \in Boxes, NEW n \in Names, NEW r \in Rooms, SOpenQ(c, n, r)
     PROVE  PlaceInv'
  BY <1>0, <1>27, DisjointAssumption DEF SOpenQ, idVars, TypeOK, Conn
<1>28. ASSUME NEW c \in Subs, NEW n \in Names \cup {Nil}, NEW r \in Rooms, TaskQ(c, n,
       r)
     PROVE  PlaceInv'
  BY <1>0, <1>28, DisjointAssumption DEF TaskQ, elsewhere, idVars, roomVars,
     TypeOK, Conn
<1>29. ASSUME NEW n \in Names, VisitName(n)
     PROVE  PlaceInv'
  BY <1>0, <1>29, DisjointAssumption DEF VisitName, idVars, roomVars,
     locals, TypeOK, Conn
<1>30. ASSUME ClientClosed
     PROVE  PlaceInv'
  BY <1>0, <1>30, DisjointAssumption DEF ClientClosed, idVars, roomVars,
     locals, TypeOK, Conn
<1>31. CASE UNCHANGED <<step, name, room, odj, pc, waits, ret, c1, roomStep>>
  BY <1>31
<1>32. QED
  BY ZenonT(60), <1>0, <1>1, <1>2, <1>3, <1>4, <1>5, <1>6, <1>7, <1>8, <1>9,
     <1>10, <1>11,
     <1>12, <1>13, <1>14, <1>15, <1>16, <1>17, <1>18, <1>19, <1>20, <1>21,
     <1>22, <1>23, <1>24, <1>25, <1>26, <1>27, <1>28, <1>29, <1>30, <1>31 DEF
     Next, Receive, ReceiveSub, Proceed, CloserStep, ServerClose, Terminated,
     vars, SetDisable, SkipLink, CheckLink, CloseLink, LinkClosed, LockSubs,
     CloseSub, SubClosed, SubsClosed, Unregister, UnlockSubs, Expire, GcFires,
     GcStopped, CloseListener, LockForClose, UnlockAfterClose, connVars,
     idVars, subVars, regVars, roomVars, pcVars, locals, srvVars, others,
     elsewhere

\* Every action keeps what the labels of a close say about its locks.
LEMMA CloserInvStep ==
  ASSUME TypeOK, PlaceInv, SubInv, CloserInv, [Next]_vars
  PROVE  CloserInv'
<1> USE DEF CloserInv, CloserOK, Goto, CallClose, Write, Entered, CloserGoto
<1>0. Boxes \subseteq Conn /\ Subs \subseteq Conn BY DEF Conn
<1>1. ASSUME NEW c \in Conn, SetDisable(c)
     PROVE  CloserInv'
  BY <1>0, <1>1, DisjointAssumption DEF SetDisable, subVars, others, TypeOK,
     CloserLabels, Conn
<1>2. ASSUME NEW c \in Conn, SkipLink(c)
     PROVE  CloserInv'
  BY <1>0, <1>2, DisjointAssumption DEF SkipLink, subVars, others, TypeOK,
     CloserLabels, Conn
<1>3. ASSUME NEW c \in Conn, CheckLink(c)
     PROVE  CloserInv'
  BY <1>0, <1>3, DisjointAssumption DEF CheckLink, subVars, others, TypeOK,
     CloserLabels, Conn
<1>4. ASSUME NEW c \in Conn, CloseLink(c)
     PROVE  CloserInv'
  BY <1>0, <1>4, DisjointAssumption DEF CloseLink, subVars, others, TypeOK,
     CloserLabels, Conn
<1>5. ASSUME NEW c \in Conn, LinkClosed(c)
     PROVE  CloserInv'
  BY <1>0, <1>5, DisjointAssumption DEF LinkClosed, subVars, others, TypeOK,
     CloserLabels, Conn
<1>6. ASSUME NEW c \in Conn, LockSubs(c)
     PROVE  CloserInv'
  BY <1>0, <1>6, DisjointAssumption DEF LockSubs, others, TypeOK,
     CloserLabels, Conn
<1>7. ASSUME NEW c \in Conn, NEW s \in Subs, CloseSub(c, s)
     PROVE  CloserInv'
  BY <1>0, <1>7, DisjointAssumption DEF CloseSub, others, TypeOK,
     CloserLabels, Conn
<1>8. ASSUME NEW c \in Conn, SubClosed(c)
     PROVE  CloserInv'
  BY <1>0, <1>8, DisjointAssumption DEF SubClosed, others, TypeOK,
     CloserLabels, Conn
<1>9. ASSUME NEW c \in Conn, SubsClosed(c)
     PROVE  CloserInv'
  BY <1>0, <1>9, DisjointAssumption DEF SubsClosed, subVars, others, TypeOK,
     CloserLabels, Conn
<1>10. ASSUME NEW c \in Conn, Unregister(c)
     PROVE  CloserInv'
  BY <1>0, <1>10, DisjointAssumption DEF Unregister, subVars, TypeOK,
     CloserLabels, Conn
<1>11. ASSUME NEW c \in Conn, UnlockSubs(c)
     PROVE  CloserInv'
  BY <1>0, <1>11, DisjointAssumption DEF UnlockSubs, others, TypeOK,
     CloserLabels, Conn
<1>12. ASSUME NEW c \in Conn, LockRegistry(c)
     PROVE  CloserInv'
  BY <1>0, <1>12, DisjointAssumption DEF LockRegistry, connVars, subVars,
     TypeOK, CloserLabels, Conn
<1>13. ASSUME NEW c \in Conn, RegisterReply(c)
     PROVE  CloserInv'
  BY <1>0, <1>13, DisjointAssumption DEF RegisterReply, connVars, elsewhere,
     subVars, TypeOK, CloserLabels, Conn
<1>14. ASSUME NEW c \in Conn, TellOdj(c)
     PROVE  CloserInv'
  BY <1>0, <1>14, DisjointAssumption DEF TellOdj, connVars, elsewhere,
     subVars, TypeOK, CloserLabels, Conn
<1>15. ASSUME NEW c \in Conn, TellAsker(c)
     PROVE  CloserInv'
  BY <1>0, <1>15, DisjointAssumption DEF TellAsker, connVars, elsewhere,
     subVars, TypeOK, CloserLabels, Conn
<1>16. ASSUME NEW c \in Conn, TellP2P(c)
     PROVE  CloserInv'
  BY <1>0, <1>16, DisjointAssumption DEF TellP2P, connVars, elsewhere,
     subVars, TypeOK, CloserLabels, Conn
<1>17. ASSUME NEW c \in Conn, Attach(c)
     PROVE  CloserInv'
  BY <1>0, <1>17, DisjointAssumption DEF Attach, connVars, TypeOK,
     CloserLabels, Conn
<1>18. ASSUME NEW c \in Conn, Detach(c)
     PROVE  CloserInv'
  BY <1>0, <1>18, DisjointAssumption DEF Detach, connVars, SubInv, SubOK,
     At, PlaceInv, PlaceOK, JoinLabels, TypeOK, CloserLabels, Conn
<1>19. ASSUME NEW c \in Conn, LookupRoom(c)
     PROVE  CloserInv'
  BY <1>0, <1>19, DisjointAssumption DEF LookupRoom, connVars, elsewhere,
     subVars, TypeOK, CloserLabels, Conn
<1>20. ASSUME NEW c \in Conn, JoinRefused(c)
     PROVE  CloserInv'
  BY <1>0, <1>20, DisjointAssumption DEF JoinRefused, subVars, TypeOK,
     CloserLabels, Conn
<1>21. ASSUME NEW c \in Conn, LinkFirst(c)
     PROVE  CloserInv'
  BY <1>0, <1>21, DisjointAssumption DEF LinkFirst, connVars, subVars,
     PlaceInv, PlaceOK, At, JoinLabels, HoldLabels, TypeOK, CloserLabels, Conn
<1>22. ASSUME NEW c \in Conn, LinkSecond(c)
     PROVE  CloserInv'
  BY <1>0, <1>22, DisjointAssumption DEF LinkSecond, connVars, subVars,
     PlaceInv, PlaceOK, At, JoinLabels, HoldLabels, TypeOK, CloserLabels, Conn
<1>23. ASSUME NEW c \in Conn, TellFirst(c)
     PROVE  CloserInv'
  BY <1>0, <1>23, DisjointAssumption DEF TellFirst, connVars, elsewhere,
     subVars, TypeOK, CloserLabels, Conn
<1>24. ASSUME NEW c \in Conn, TellSecond(c)
     PROVE  CloserInv'
  BY <1>0, <1>24, DisjointAssumption DEF TellSecond, connVars, elsewhere,
     subVars, TypeOK, CloserLabels, Conn
<1>25. ASSUME NEW c \in Conn, HandlerExit(c)
     PROVE  CloserInv'
  BY <1>0, <1>25, DisjointAssumption DEF HandlerExit, elsewhere, subVars,
     TypeOK, CloserLabels, Conn
<1>26. ASSUME NEW c \in Boxes, HandshakeQ1(c)
     PROVE  CloserInv'
  BY <1>0, <1>26, DisjointAssumption DEF HandshakeQ1, connVars, subVars,
     TypeOK, CloserLabels, Conn
<1>27. ASSUME NEW c \in Boxes, HandshakeNoName(c)
     PROVE  CloserInv'
  BY <1>0, <1>27, DisjointAssumption DEF HandshakeNoName, elsewhere,
     subVars, TypeOK, CloserLabels, Conn
<1>28. ASSUME NEW c \in Boxes, Answer(c)
     PROVE  CloserInv'
  BY <1>0, <1>28, DisjointAssumption DEF Answer, connVars, elsewhere,
     subVars, TypeOK, CloserLabels, Conn
<1>29. ASSUME NEW c \in Boxes, NEW n \in Names, P2PUdpQ1(c, n)
     PROVE  CloserInv'
  BY <1>0, <1>29, DisjointAssumption DEF P2PUdpQ1, connVars, elsewhere,
     subVars, TypeOK, CloserLabels, Conn
<1>30. ASSUME NEW c \in Subs, NEW n \in Names \cup {Nil}, NEW r \in Rooms, TaskQ(c, n,
       r)
     PROVE  CloserInv'
  BY <1>0, <1>30, DisjointAssumption DEF TaskQ, connVars, elsewhere,
     subVars, TypeOK, CloserLabels, Conn
<1>31. ASSUME NEW n \in Names, VisitName(n)
     PROVE  CloserInv'
  BY <1>0, <1>31, DisjointAssumption DEF VisitName, subVars, TypeOK,
     CloserLabels, Conn
<1>32. CASE UNCHANGED <<disable, closer, subLock, subMap, visit, link>>
  BY <1>32
<1>33. QED
  BY ZenonT(60), <1>0, <1>1, <1>2, <1>3, <1>4, <1>5, <1>6, <1>7, <1>8, <1>9,
     <1>10, <1>11,
     <1>12, <1>13, <1>14, <1>15, <1>16, <1>17, <1>18, <1>19, <1>20, <1>21,
     <1>22, <1>23, <1>24, <1>25, <1>26, <1>27, <1>28, <1>29, <1>30, <1>31,
     <1>32 DEF Next, Receive, ReceiveSub, Proceed, CloserStep, ServerClose,
     Terminated, vars, CloseReturned, StoreClient, RegisterDone, JoinFirst,
     JoinSecond, LeaveRoom, Accept, HandshakeQ2, SOpenQ, Expire, GcFires,
     GcStopped, CloseListener, LockForClose, ClientClosed, UnlockAfterClose,
     connVars, idVars, subVars, regVars, roomVars, pcVars, locals, srvVars,
     others, elsewhere

\* Every action keeps a sub disabled or in its parent's subMap.
LEMMA SubInvStep ==
  ASSUME TypeOK, PlaceInv, CloserInv, SubInv, [Next]_vars
  PROVE  SubInv'
<1> USE DEF SubInv, SubOK, Waiting, At, Goto, CallClose, Write, Entered, CloserGoto
<1>0. Boxes \subseteq Conn /\ Subs \subseteq Conn BY DEF Conn
<1>1. ASSUME NEW c \in Conn, SetDisable(c)
     PROVE  SubInv'
  BY <1>0, <1>1, DisjointAssumption DEF SetDisable, subVars, others, idVars,
     pcVars, locals, PlaceInv, PlaceOK, JoinLabels, HoldLabels, CloserInv,
     CloserOK, TypeOK, Conn
<1>2. ASSUME NEW c \in Conn, LockSubs(c)
     PROVE  SubInv'
  BY <1>0, <1>2, DisjointAssumption DEF LockSubs, others, idVars, pcVars,
     locals, PlaceInv, PlaceOK, JoinLabels, HoldLabels, CloserInv, CloserOK,
     TypeOK, Conn
<1>3. ASSUME NEW c \in Conn, SubClosed(c)
     PROVE  SubInv'
  BY <1>0, <1>3, DisjointAssumption DEF SubClosed, others, idVars, pcVars,
     locals, PlaceInv, PlaceOK, JoinLabels, HoldLabels, CloserInv, CloserOK,
     TypeOK, Conn
<1>4. ASSUME NEW c \in Conn, UnlockSubs(c)
     PROVE  SubInv'
  BY <1>0, <1>4, DisjointAssumption DEF UnlockSubs, others, idVars, pcVars,
     locals, PlaceInv, PlaceOK, JoinLabels, HoldLabels, CloserInv, CloserOK,
     TypeOK, Conn
<1>5. ASSUME NEW c \in Conn, CloseReturned(c)
     PROVE  SubInv'
  BY <1>0, <1>5, DisjointAssumption DEF CloseReturned, connVars, locals,
     elsewhere, idVars, subVars, PlaceInv, PlaceOK, JoinLabels, HoldLabels,
     CloserInv, CloserOK, TypeOK, Conn
<1>6. ASSUME NEW c \in Conn, LockRegistry(c)
     PROVE  SubInv'
  BY <1>0, <1>6, DisjointAssumption DEF LockRegistry, connVars, idVars,
     subVars, locals, PlaceInv, PlaceOK, JoinLabels, HoldLabels, CloserInv,
     CloserOK, TypeOK, Conn
<1>7. ASSUME NEW c \in Conn, StoreClient(c)
     PROVE  SubInv'
  BY <1>0, <1>7, DisjointAssumption DEF StoreClient, connVars, idVars,
     subVars, locals, PlaceInv, PlaceOK, JoinLabels, HoldLabels, CloserInv,
     CloserOK, TypeOK, Conn
<1>8. ASSUME NEW c \in Conn, RegisterReply(c)
     PROVE  SubInv'
  BY <1>0, <1>8, DisjointAssumption DEF RegisterReply, connVars, locals,
     elsewhere, idVars, subVars, PlaceInv, PlaceOK, JoinLabels, HoldLabels,
     CloserInv, CloserOK, TypeOK, Conn
<1>9. ASSUME NEW c \in Conn, RegisterDone(c)
     PROVE  SubInv'
  BY <1>0, <1>9, DisjointAssumption DEF RegisterDone, connVars, subVars,
     locals, PlaceInv, PlaceOK, JoinLabels, HoldLabels, CloserInv, CloserOK,
     TypeOK, Conn
<1>10. ASSUME NEW c \in Conn, TellOdj(c)
     PROVE  SubInv'
  BY <1>0, <1>10, DisjointAssumption DEF TellOdj, connVars, elsewhere,
     idVars, subVars, PlaceInv, PlaceOK, JoinLabels, HoldLabels, CloserInv,
     CloserOK, TypeOK, Conn
<1>11. ASSUME NEW c \in Conn, TellAsker(c)
     PROVE  SubInv'
  BY <1>0, <1>11, DisjointAssumption DEF TellAsker, connVars, locals,
     elsewhere, idVars, subVars, PlaceInv, PlaceOK, JoinLabels, HoldLabels,
     CloserInv, CloserOK, TypeOK, Conn
<1>12. ASSUME NEW c \in Conn, TellP2P(c)
     PROVE  SubInv'
  BY <1>0, <1>12, DisjointAssumption DEF TellP2P, connVars, elsewhere,
     idVars, subVars, PlaceInv, PlaceOK, JoinLabels, HoldLabels, CloserInv,
     CloserOK, TypeOK, Conn
<1>13. ASSUME NEW c \in Conn, Attach(c)
     PROVE  SubInv'
  BY SMTT(40), <1>0, <1>13, DisjointAssumption DEF Attach, connVars, locals,
     PlaceInv,
     PlaceOK, JoinLabels, HoldLabels, CloserInv, CloserOK, TypeOK, Conn
<1>14. ASSUME NEW c \in Conn, Detach(c)
     PROVE  SubInv'
  BY <1>0, <1>14, DisjointAssumption DEF Detach, connVars, locals, PlaceInv,
     PlaceOK, JoinLabels, HoldLabels, CloserInv, CloserOK, TypeOK, Conn
<1>15. ASSUME NEW c \in Conn, LookupRoom(c)
     PROVE  SubInv'
  BY <1>0, <1>15, DisjointAssumption DEF LookupRoom, connVars, locals,
     elsewhere, idVars, subVars, PlaceInv, PlaceOK, JoinLabels, HoldLabels,
     CloserInv, CloserOK, TypeOK, Conn
<1>16. ASSUME NEW c \in Conn, JoinFirst(c)
     PROVE  SubInv'
  BY <1>0, <1>16, DisjointAssumption DEF JoinFirst, connVars, idVars,
     subVars, locals, PlaceInv, PlaceOK, JoinLabels, HoldLabels, CloserInv,
     CloserOK, TypeOK, Conn
<1>17. ASSUME NEW c \in Conn, JoinSecond(c)
     PROVE  SubInv'
  BY <1>0, <1>17, DisjointAssumption DEF JoinSecond, connVars, idVars,
     subVars, locals, PlaceInv, PlaceOK, JoinLabels, HoldLabels, CloserInv,
     CloserOK, TypeOK, Conn
<1>18. ASSUME NEW c \in Conn, JoinRefused(c)
     PROVE  SubInv'
  BY <1>0, <1>18, DisjointAssumption DEF JoinRefused, idVars, subVars,
     locals, PlaceInv, PlaceOK, JoinLabels, HoldLabels, CloserInv, CloserOK,
     TypeOK, Conn
<1>19. ASSUME NEW c \in Conn, LinkFirst(c)
     PROVE  SubInv'
  BY <1>0, <1>19, DisjointAssumption DEF LinkFirst, connVars, idVars,
     subVars, locals, PlaceInv, PlaceOK, JoinLabels, HoldLabels, CloserInv,
     CloserOK, TypeOK, Conn
<1>20. ASSUME NEW c \in Conn, LinkSecond(c)
     PROVE  SubInv'
  BY <1>0, <1>20, DisjointAssumption DEF LinkSecond, connVars, idVars,
     subVars, locals, PlaceInv, PlaceOK, JoinLabels, HoldLabels, CloserInv,
     CloserOK, TypeOK, Conn
<1>21. ASSUME NEW c \in Conn, TellFirst(c)
     PROVE  SubInv'
  BY <1>0, <1>21, DisjointAssumption DEF TellFirst, connVars, locals,
     elsewhere, idVars, subVars, PlaceInv, PlaceOK, JoinLabels, HoldLabels,
     CloserInv, CloserOK, TypeOK, Conn
<1>22. ASSUME NEW c \in Conn, TellSecond(c)
     PROVE  SubInv'
  BY <1>0, <1>22, DisjointAssumption DEF TellSecond, connVars, locals,
     elsewhere, idVars, subVars, PlaceInv, PlaceOK, JoinLabels, HoldLabels,
     CloserInv, CloserOK, TypeOK, Conn
<1>23. ASSUME NEW c \in Conn, LeaveRoom(c)
     PROVE  SubInv'
  BY <1>0, <1>23, DisjointAssumption DEF LeaveRoom, connVars, idVars,
     subVars, locals, PlaceInv, PlaceOK, JoinLabels, HoldLabels, CloserInv,
     CloserOK, TypeOK, Conn
<1>24. ASSUME NEW c \in Conn, Accept(c)
     PROVE  SubInv'
  BY <1>0, <1>24, DisjointAssumption DEF Accept, connVars, locals,
     elsewhere, idVars, subVars, PlaceInv, PlaceOK, JoinLabels, HoldLabels,
     CloserInv, CloserOK, TypeOK, Conn
<1>25. ASSUME NEW c \in Conn, HandlerExit(c)
     PROVE  SubInv'
  BY <1>0, <1>25, DisjointAssumption DEF HandlerExit, locals, elsewhere,
     idVars, subVars, PlaceInv, PlaceOK, JoinLabels, HoldLabels, CloserInv,
     CloserOK, TypeOK, Conn
<1>26. ASSUME NEW c \in Boxes, HandshakeQ1(c)
     PROVE  SubInv'
  BY <1>0, <1>26, DisjointAssumption DEF HandshakeQ1, connVars, subVars,
     locals, PlaceInv, PlaceOK, JoinLabels, HoldLabels, CloserInv, CloserOK,
     TypeOK, Conn
<1>27. ASSUME NEW c \in Boxes, HandshakeNoName(c)
     PROVE  SubInv'
  BY <1>0, <1>27, DisjointAssumption DEF HandshakeNoName, locals, elsewhere,
     idVars, subVars, PlaceInv, PlaceOK, JoinLabels, HoldLabels, CloserInv,
     CloserOK, TypeOK, Conn
<1>28. ASSUME NEW c \in Boxes, Answer(c)
     PROVE  SubInv'
  BY <1>0, <1>28, DisjointAssumption DEF Answer, connVars, locals,
     elsewhere, idVars, subVars, PlaceInv, PlaceOK, JoinLabels, HoldLabels,
     CloserInv, CloserOK, TypeOK, Conn
<1>29. ASSUME NEW c \in Boxes, NEW n \in Names, HandshakeQ2(c, n)
     PROVE  SubInv'
  BY <1>0, <1>29, DisjointAssumption DEF HandshakeQ2, connVars, subVars,
     locals, PlaceInv, PlaceOK, JoinLabels, HoldLabels, CloserInv, CloserOK,
     TypeOK, Conn
<1>30. ASSUME NEW c \in Boxes, NEW n \in Names, P2PUdpQ1(c, n)
     PROVE  SubInv'
  BY <1>0, <1>30, DisjointAssumption DEF P2PUdpQ1, connVars, elsewhere,
     idVars, subVars, PlaceInv, PlaceOK, JoinLabels, HoldLabels, CloserInv,
     CloserOK, TypeOK, Conn
<1>31. ASSUME NEW c \in Boxes, NEW n \in Names, NEW r \in Rooms, SOpenQ(c, n, r)
     PROVE  SubInv'
  BY <1>0, <1>31, DisjointAssumption DEF SOpenQ, connVars, idVars, subVars,
     PlaceInv, PlaceOK, JoinLabels, HoldLabels, CloserInv, CloserOK, TypeOK,
     Conn
<1>32. ASSUME NEW c \in Subs, NEW n \in Names \cup {Nil}, NEW r \in Rooms, TaskQ(c, n,
       r)
     PROVE  SubInv'
  BY <1>0, <1>32, DisjointAssumption DEF TaskQ, connVars, elsewhere, idVars,
     subVars, PlaceInv, PlaceOK, JoinLabels, HoldLabels, CloserInv, CloserOK,
     TypeOK, Conn
<1>33. ASSUME NEW n \in Names, VisitName(n)
     PROVE  SubInv'
  BY <1>0, <1>33, DisjointAssumption DEF VisitName, idVars, subVars, locals,
     PlaceInv, PlaceOK, JoinLabels, HoldLabels, CloserInv, CloserOK, TypeOK,
     Conn
<1>34. ASSUME ClientClosed
     PROVE  SubInv'
  BY <1>0, <1>34, DisjointAssumption DEF ClientClosed, connVars, idVars,
     subVars, locals, PlaceInv, PlaceOK, JoinLabels, HoldLabels, CloserInv,
     CloserOK, TypeOK, Conn
<1>35. CASE UNCHANGED <<parent, disable, subMap, pc, ret, waits, odj, subLock>>
  BY <1>35
<1>36. QED
  BY <1>0, <1>1, <1>2, <1>3, <1>4, <1>5, <1>6, <1>7, <1>8, <1>9, <1>10, <1>11,
     <1>12, <1>13, <1>14, <1>15, <1>16, <1>17, <1>18, <1>19, <1>20, <1>21,
     <1>22, <1>23, <1>24, <1>25, <1>26, <1>27, <1>28, <1>29, <1>30, <1>31,
     <1>32, <1>33, <1>34, <1>35 DEF Next, Receive, ReceiveSub, Proceed,
     CloserStep, ServerClose, Terminated, vars, SkipLink, CheckLink, CloseLink,
     LinkClosed, CloseSub, SubsClosed, Unregister, Expire, GcFires, GcStopped,
     CloseListener, LockForClose, UnlockAfterClose, connVars, idVars, subVars,
     regVars, roomVars, pcVars, locals, srvVars, others, elsewhere

\* Every action keeps the rooms' locks and the links of their members.
LEMMA RoomInvStep ==
  ASSUME TypeOK, PlaceInv, RoomInv, [Next]_vars
  PROVE  RoomInv'
<1> USE DEF RoomInv, HoldsRoom, FirstOK, At, HoldLabels, JoinLabels, Goto, CallClose,
    Write
<1>0. Boxes \subseteq Conn /\ Subs \subseteq Conn BY DEF Conn
<1>1. ASSUME NEW c \in Conn, CloseReturned(c)
     PROVE  RoomInv'
  BY <1>0, <1>1, DisjointAssumption DEF CloseReturned, locals, elsewhere,
     roomVars, PlaceInv, PlaceOK, TypeOK, Conn
<1>2. ASSUME NEW c \in Conn, LockRegistry(c)
     PROVE  RoomInv'
  BY <1>0, <1>2, DisjointAssumption DEF LockRegistry, roomVars, locals,
     PlaceInv, PlaceOK, TypeOK, Conn
<1>3. ASSUME NEW c \in Conn, StoreClient(c)
     PROVE  RoomInv'
  BY <1>0, <1>3, DisjointAssumption DEF StoreClient, roomVars, locals,
     PlaceInv, PlaceOK, TypeOK, Conn
<1>4. ASSUME NEW c \in Conn, RegisterReply(c)
     PROVE  RoomInv'
  BY <1>0, <1>4, DisjointAssumption DEF RegisterReply, locals, elsewhere,
     roomVars, PlaceInv, PlaceOK, TypeOK, Conn
<1>5. ASSUME NEW c \in Conn, RegisterDone(c)
     PROVE  RoomInv'
  BY <1>0, <1>5, DisjointAssumption DEF RegisterDone, roomVars, locals,
     PlaceInv, PlaceOK, TypeOK, Conn
<1>6. ASSUME NEW c \in Conn, TellOdj(c)
     PROVE  RoomInv'
  BY <1>0, <1>6, DisjointAssumption DEF TellOdj, elsewhere, roomVars,
     PlaceInv, PlaceOK, TypeOK, Conn
<1>7. ASSUME NEW c \in Conn, TellAsker(c)
     PROVE  RoomInv'
  BY <1>0, <1>7, DisjointAssumption DEF TellAsker, locals, elsewhere,
     roomVars, PlaceInv, PlaceOK, TypeOK, Conn
<1>8. ASSUME NEW c \in Conn, TellP2P(c)
     PROVE  RoomInv'
  BY <1>0, <1>8, DisjointAssumption DEF TellP2P, elsewhere, roomVars,
     PlaceInv, PlaceOK, TypeOK, Conn
<1>9. ASSUME NEW c \in Conn, Attach(c)
     PROVE  RoomInv'
  BY <1>0, <1>9, DisjointAssumption DEF Attach, roomVars, locals, PlaceInv,
     PlaceOK, TypeOK, Conn
<1>10. ASSUME NEW c \in Conn, Detach(c)
     PROVE  RoomInv'
  BY <1>0, <1>10, DisjointAssumption DEF Detach, roomVars, locals, PlaceInv,
     PlaceOK, TypeOK, Conn
<1>11. ASSUME NEW c \in Conn, LookupRoom(c)
     PROVE  RoomInv'
  BY <1>0, <1>11, DisjointAssumption DEF LookupRoom, locals, elsewhere,
     roomVars, PlaceInv, PlaceOK, TypeOK, Conn
<1>12. ASSUME NEW c \in Conn, JoinFirst(c)
     PROVE  RoomInv'
  BY <1>0, <1>12, DisjointAssumption DEF JoinFirst, locals, PlaceInv,
     PlaceOK, TypeOK, Conn
<1>13. ASSUME NEW c \in Conn, JoinSecond(c)
     PROVE  RoomInv'
  BY <1>0, <1>13, DisjointAssumption DEF JoinSecond, locals, PlaceInv,
     PlaceOK, TypeOK, Conn
<1>14. ASSUME NEW c \in Conn, JoinRefused(c)
     PROVE  RoomInv'
  BY <1>0, <1>14, DisjointAssumption DEF JoinRefused, locals, PlaceInv,
     PlaceOK, TypeOK, Conn
<1>15. ASSUME NEW c \in Conn, LinkFirst(c)
     PROVE  RoomInv'
  BY <1>0, <1>15, DisjointAssumption DEF LinkFirst, roomVars, locals,
     PlaceInv, PlaceOK, TypeOK, Conn
<1>16. ASSUME NEW c \in Conn, LinkSecond(c)
     PROVE  RoomInv'
  BY <1>0, <1>16, DisjointAssumption DEF LinkSecond, roomVars, locals,
     PlaceInv, PlaceOK, TypeOK, Conn
<1>17. ASSUME NEW c \in Conn, TellFirst(c)
     PROVE  RoomInv'
  BY <1>0, <1>17, DisjointAssumption DEF TellFirst, locals, elsewhere,
     roomVars, PlaceInv, PlaceOK, TypeOK, Conn
<1>18. ASSUME NEW c \in Conn, TellSecond(c)
     PROVE  RoomInv'
  BY <1>0, <1>18, DisjointAssumption DEF TellSecond, locals, elsewhere,
     roomVars, PlaceInv, PlaceOK, TypeOK, Conn
<1>19. ASSUME NEW c \in Conn, LeaveRoom(c)
     PROVE  RoomInv'
  BY <1>0, <1>19, DisjointAssumption DEF LeaveRoom, locals, PlaceInv,
     PlaceOK, TypeOK, Conn
<1>20. ASSUME NEW c \in Conn, Accept(c)
     PROVE  RoomInv'
  BY <1>0, <1>20, DisjointAssumption DEF Accept, locals, elsewhere,
     roomVars, PlaceInv, PlaceOK, TypeOK, Conn
<1>21. ASSUME NEW c \in Conn, HandlerExit(c)
     PROVE  RoomInv'
  BY <1>0, <1>21, DisjointAssumption DEF HandlerExit, locals, elsewhere,
     roomVars, PlaceInv, PlaceOK, TypeOK, Conn
<1>22. ASSUME NEW c \in Boxes, HandshakeQ1(c)
     PROVE  RoomInv'
  BY <1>0, <1>22, DisjointAssumption DEF HandshakeQ1, roomVars, locals,
     PlaceInv, PlaceOK, TypeOK, Conn
<1>23. ASSUME NEW c \in Boxes, HandshakeNoName(c)
     PROVE  RoomInv'
  BY <1>0, <1>23, DisjointAssumption DEF HandshakeNoName, locals, elsewhere,
     roomVars, PlaceInv, PlaceOK, TypeOK, Conn
<1>24. ASSUME NEW c \in Boxes, Answer(c)
     PROVE  RoomInv'
  BY <1>0, <1>24, DisjointAssumption DEF Answer, locals, elsewhere,
     roomVars, PlaceInv, PlaceOK, TypeOK, Conn
<1>25. ASSUME NEW c \in Boxes, NEW n \in Names, HandshakeQ2(c, n)
     PROVE  RoomInv'
  BY <1>0, <1>25, DisjointAssumption DEF HandshakeQ2, roomVars, locals,
     PlaceInv, PlaceOK, TypeOK, Conn
<1>26. ASSUME NEW c \in Boxes, NEW n \in Names, P2PUdpQ1(c, n)
     PROVE  RoomInv'
  BY <1>0, <1>26, DisjointAssumption DEF P2PUdpQ1, elsewhere, roomVars,
     PlaceInv, PlaceOK, TypeOK, Conn
<1>27. ASSUME NEW c \in Boxes, NEW n \in Names, NEW r \in Rooms, SOpenQ(c, n, r)
     PROVE  RoomInv'
  BY <1>0, <1>27, DisjointAssumption DEF SOpenQ, PlaceInv, PlaceOK, TypeOK,
     Conn
<1>28. ASSUME NEW c \in Subs, NEW n \in Names \cup {Nil}, NEW r \in Rooms, TaskQ(c, n,
       r)
     PROVE  RoomInv'
  BY <1>0, <1>28, DisjointAssumption DEF TaskQ, elsewhere, roomVars,
     PlaceInv, PlaceOK, TypeOK, Conn
<1>29. CASE UNCHANGED <<pc, ret, room, roomLock, roomStep, c1, link>>
  BY <1>29
<1>30. QED
  BY ZenonT(60), <1>0, <1>1, <1>2, <1>3, <1>4, <1>5, <1>6, <1>7, <1>8, <1>9,
     <1>10, <1>11,
     <1>12, <1>13, <1>14, <1>15, <1>16, <1>17, <1>18, <1>19, <1>20, <1>21,
     <1>22, <1>23, <1>24, <1>25, <1>26, <1>27, <1>28, <1>29 DEF Next, Receive,
     ReceiveSub, Proceed, CloserStep, ServerClose, Terminated, vars,
     SetDisable, SkipLink, CheckLink, CloseLink, LinkClosed, LockSubs,
     CloseSub, SubClosed, SubsClosed, Unregister, UnlockSubs, Expire, GcFires,
     GcStopped, CloseListener, LockForClose, VisitName, ClientClosed,
     UnlockAfterClose, connVars, idVars, subVars, regVars, roomVars, pcVars,
     locals, srvVars, others, elsewhere

\* Every action keeps two linked subs from waiting for each other.
LEMMA NoMutualWaitStep ==
  ASSUME TypeOK, PlaceInv, CloserInv, RoomInv, NoMutualWait, [Next]_vars
  PROVE  NoMutualWait'
<1> USE DEF NoMutualWait, Goto, CallClose, Write, Entered, CloserGoto
<1>0. Boxes \subseteq Conn /\ Subs \subseteq Conn BY DEF Conn
<1>1. ASSUME NEW c \in Conn, SetDisable(c)
     PROVE  NoMutualWait'
  BY <1>0, <1>1, DisjointAssumption DEF SetDisable, others, TypeOK,
     CloserInv, CloserOK, Conn
<1>2. ASSUME NEW c \in Conn, SkipLink(c)
     PROVE  NoMutualWait'
  BY <1>0, <1>2, DisjointAssumption DEF SkipLink, others, TypeOK, CloserInv,
     CloserOK, Conn
<1>3. ASSUME NEW c \in Conn, CheckLink(c)
     PROVE  NoMutualWait'
  BY <1>0, <1>3, DisjointAssumption DEF CheckLink, others, TypeOK,
     CloserInv, CloserOK, Conn
<1>4. ASSUME NEW c \in Conn, CloseLink(c)
     PROVE  NoMutualWait'
  BY <1>0, <1>4, DisjointAssumption DEF CloseLink, others, TypeOK,
     CloserInv, CloserOK, Conn
<1>5. ASSUME NEW c \in Conn, LinkClosed(c)
     PROVE  NoMutualWait'
  BY <1>0, <1>5, DisjointAssumption DEF LinkClosed, others, TypeOK,
     CloserInv, CloserOK, Conn
<1>6. ASSUME NEW c \in Conn, LockSubs(c)
     PROVE  NoMutualWait'
  BY <1>0, <1>6, DisjointAssumption DEF LockSubs, others, TypeOK, CloserInv,
     CloserOK, Conn
<1>7. ASSUME NEW c \in Conn, NEW s \in Subs, CloseSub(c, s)
     PROVE  NoMutualWait'
  BY <1>0, <1>7, DisjointAssumption DEF CloseSub, others, TypeOK, CloserInv,
     CloserOK, Conn
<1>8. ASSUME NEW c \in Conn, SubClosed(c)
     PROVE  NoMutualWait'
  BY <1>0, <1>8, DisjointAssumption DEF SubClosed, others, TypeOK,
     CloserInv, CloserOK, Conn
<1>9. ASSUME NEW c \in Conn, SubsClosed(c)
     PROVE  NoMutualWait'
  BY <1>0, <1>9, DisjointAssumption DEF SubsClosed, others, TypeOK,
     CloserInv, CloserOK, Conn
<1>10. ASSUME NEW c \in Conn, Unregister(c)
     PROVE  NoMutualWait'
  BY <1>0, <1>10, DisjointAssumption DEF Unregister, TypeOK, CloserInv,
     CloserOK, Conn
<1>11. ASSUME NEW c \in Conn, UnlockSubs(c)
     PROVE  NoMutualWait'
  BY <1>0, <1>11, DisjointAssumption DEF UnlockSubs, others, TypeOK,
     CloserInv, CloserOK, Conn
<1>12. ASSUME NEW c \in Conn, LockRegistry(c)
     PROVE  NoMutualWait'
  BY <1>0, <1>12, DisjointAssumption DEF LockRegistry, connVars, TypeOK,
     CloserInv, CloserOK, Conn
<1>13. ASSUME NEW c \in Conn, RegisterReply(c)
     PROVE  NoMutualWait'
  BY <1>0, <1>13, DisjointAssumption DEF RegisterReply, connVars, elsewhere,
     TypeOK, CloserInv, CloserOK, Conn
<1>14. ASSUME NEW c \in Conn, TellOdj(c)
     PROVE  NoMutualWait'
  BY <1>0, <1>14, DisjointAssumption DEF TellOdj, connVars, elsewhere,
     TypeOK, CloserInv, CloserOK, Conn
<1>15. ASSUME NEW c \in Conn, TellAsker(c)
     PROVE  NoMutualWait'
  BY <1>0, <1>15, DisjointAssumption DEF TellAsker, connVars, elsewhere,
     TypeOK, CloserInv, CloserOK, Conn
<1>16. ASSUME NEW c \in Conn, TellP2P(c)
     PROVE  NoMutualWait'
  BY <1>0, <1>16, DisjointAssumption DEF TellP2P, connVars, elsewhere,
     TypeOK, CloserInv, CloserOK, Conn
<1>17. ASSUME NEW c \in Conn, Attach(c)
     PROVE  NoMutualWait'
  BY <1>0, <1>17, DisjointAssumption DEF Attach, connVars, TypeOK,
     CloserInv, CloserOK, Conn
<1>18. ASSUME NEW c \in Conn, LookupRoom(c)
     PROVE  NoMutualWait'
  BY <1>0, <1>18, DisjointAssumption DEF LookupRoom, connVars, elsewhere,
     TypeOK, CloserInv, CloserOK, Conn
<1>19. ASSUME NEW c \in Conn, JoinRefused(c)
     PROVE  NoMutualWait'
  BY <1>0, <1>19, DisjointAssumption DEF JoinRefused, TypeOK, CloserInv,
     CloserOK, Conn
<1>20. ASSUME NEW c \in Conn, LinkFirst(c)
     PROVE  NoMutualWait'
  BY <1>0, <1>20, DisjointAssumption DEF LinkFirst, connVars, PlaceInv,
     PlaceOK, At, JoinLabels, HoldLabels, RoomInv, HoldsRoom, TypeOK,
     CloserInv, CloserOK, Conn
<1>21. ASSUME NEW c \in Conn, LinkSecond(c)
     PROVE  NoMutualWait'
  BY <1>0, <1>21, DisjointAssumption DEF LinkSecond, connVars, PlaceInv,
     PlaceOK, At, JoinLabels, HoldLabels, RoomInv, HoldsRoom, TypeOK,
     CloserInv, CloserOK, Conn
<1>22. ASSUME NEW c \in Conn, TellFirst(c)
     PROVE  NoMutualWait'
  BY <1>0, <1>22, DisjointAssumption DEF TellFirst, connVars, elsewhere,
     TypeOK, CloserInv, CloserOK, Conn
<1>23. ASSUME NEW c \in Conn, TellSecond(c)
     PROVE  NoMutualWait'
  BY <1>0, <1>23, DisjointAssumption DEF TellSecond, connVars, elsewhere,
     TypeOK, CloserInv, CloserOK, Conn
<1>24. ASSUME NEW c \in Conn, HandlerExit(c)
     PROVE  NoMutualWait'
  BY <1>0, <1>24, DisjointAssumption DEF HandlerExit, elsewhere, TypeOK,
     CloserInv, CloserOK, Conn
<1>25. ASSUME NEW c \in Boxes, HandshakeQ1(c)
     PROVE  NoMutualWait'
  BY <1>0, <1>25, DisjointAssumption DEF HandshakeQ1, connVars, TypeOK,
     CloserInv, CloserOK, Conn
<1>26. ASSUME NEW c \in Boxes, HandshakeNoName(c)
     PROVE  NoMutualWait'
  BY <1>0, <1>26, DisjointAssumption DEF HandshakeNoName, elsewhere, TypeOK,
     CloserInv, CloserOK, Conn
<1>27. ASSUME NEW c \in Boxes, Answer(c)
     PROVE  NoMutualWait'
  BY <1>0, <1>27, DisjointAssumption DEF Answer, connVars, elsewhere,
     TypeOK, CloserInv, CloserOK, Conn
<1>28. ASSUME NEW c \in Boxes, NEW n \in Names, P2PUdpQ1(c, n)
     PROVE  NoMutualWait'
  BY <1>0, <1>28, DisjointAssumption DEF P2PUdpQ1, connVars, elsewhere,
     TypeOK, CloserInv, CloserOK, Conn
<1>29. ASSUME NEW c \in Subs, NEW n \in Names \cup {Nil}, NEW r \in Rooms, TaskQ(c, n,
       r)
     PROVE  NoMutualWait'
  BY <1>0, <1>29, DisjointAssumption DEF TaskQ, connVars, elsewhere, TypeOK,
     CloserInv, CloserOK, Conn
<1>30. ASSUME NEW n \in Names, VisitName(n)
     PROVE  NoMutualWait'
  BY <1>0, <1>30, DisjointAssumption DEF VisitName, TypeOK, CloserInv,
     CloserOK, Conn
<1>31. CASE UNCHANGED <<closer, link>>
  BY <1>31
<1>32. QED
  BY ZenonT(60), <1>0, <1>1, <1>2, <1>3, <1>4, <1>5, <1>6, <1>7, <1>8, <1>9,
     <1>10, <1>11,
     <1>12, <1>13, <1>14, <1>15, <1>16, <1>17, <1>18, <1>19, <1>20, <1>21,
     <1>22, <1>23, <1>24, <1>25, <1>26, <1>27, <1>28, <1>29, <1>30, <1>31 DEF
     Next, Receive, ReceiveSub, Proceed, CloserStep, ServerClose, Terminated,
     vars, CloseReturned, StoreClient, RegisterDone, Detach, JoinFirst,
     JoinSecond, LeaveRoom, Accept, HandshakeQ2, SOpenQ, Expire, GcFires,
     GcStopped, CloseListener, LockForClose, ClientClosed, UnlockAfterClose,
     connVars, idVars, subVars, regVars, roomVars, pcVars, locals, srvVars,
     others, elsewhere

\* Every action keeps links in pairs.
LEMMA LinksArePairedStep ==
  ASSUME TypeOK, PlaceInv, RoomInv, LinksArePaired, [Next]_vars
  PROVE  LinksArePaired'
<1> USE DEF LinksArePaired, Goto, CallClose, Write
<1>0. Boxes \subseteq Conn /\ Subs \subseteq Conn BY DEF Conn
<1>1. ASSUME NEW c \in Conn, CloseReturned(c)
     PROVE  LinksArePaired'
  BY <1>0, <1>1, DisjointAssumption DEF CloseReturned, connVars, locals,
     elsewhere, roomVars, RoomInv, HoldsRoom, FirstOK, At, HoldLabels,
     JoinLabels, PlaceInv, PlaceOK, TypeOK, Conn
<1>2. ASSUME NEW c \in Conn, LockRegistry(c)
     PROVE  LinksArePaired'
  BY <1>0, <1>2, DisjointAssumption DEF LockRegistry, connVars, roomVars,
     locals, RoomInv, HoldsRoom, FirstOK, At, HoldLabels, JoinLabels, PlaceInv,
     PlaceOK, TypeOK, Conn
<1>3. ASSUME NEW c \in Conn, StoreClient(c)
     PROVE  LinksArePaired'
  BY <1>0, <1>3, DisjointAssumption DEF StoreClient, connVars, roomVars,
     locals, RoomInv, HoldsRoom, FirstOK, At, HoldLabels, JoinLabels, PlaceInv,
     PlaceOK, TypeOK, Conn
<1>4. ASSUME NEW c \in Conn, RegisterReply(c)
     PROVE  LinksArePaired'
  BY <1>0, <1>4, DisjointAssumption DEF RegisterReply, connVars, locals,
     elsewhere, roomVars, RoomInv, HoldsRoom, FirstOK, At, HoldLabels,
     JoinLabels, PlaceInv, PlaceOK, TypeOK, Conn
<1>5. ASSUME NEW c \in Conn, RegisterDone(c)
     PROVE  LinksArePaired'
  BY <1>0, <1>5, DisjointAssumption DEF RegisterDone, connVars, roomVars,
     locals, RoomInv, HoldsRoom, FirstOK, At, HoldLabels, JoinLabels, PlaceInv,
     PlaceOK, TypeOK, Conn
<1>6. ASSUME NEW c \in Conn, TellOdj(c)
     PROVE  LinksArePaired'
  BY <1>0, <1>6, DisjointAssumption DEF TellOdj, connVars, elsewhere,
     roomVars, RoomInv, HoldsRoom, FirstOK, At, HoldLabels, JoinLabels,
     PlaceInv, PlaceOK, TypeOK, Conn
<1>7. ASSUME NEW c \in Conn, TellAsker(c)
     PROVE  LinksArePaired'
  BY <1>0, <1>7, DisjointAssumption DEF TellAsker, connVars, locals,
     elsewhere, roomVars, RoomInv, HoldsRoom, FirstOK, At, HoldLabels,
     JoinLabels, PlaceInv, PlaceOK, TypeOK, Conn
<1>8. ASSUME NEW c \in Conn, TellP2P(c)
     PROVE  LinksArePaired'
  BY <1>0, <1>8, DisjointAssumption DEF TellP2P, connVars, elsewhere,
     roomVars, RoomInv, HoldsRoom, FirstOK, At, HoldLabels, JoinLabels,
     PlaceInv, PlaceOK, TypeOK, Conn
<1>9. ASSUME NEW c \in Conn, Attach(c)
     PROVE  LinksArePaired'
  BY <1>0, <1>9, DisjointAssumption DEF Attach, connVars, roomVars, locals,
     RoomInv, HoldsRoom, FirstOK, At, HoldLabels, JoinLabels, PlaceInv,
     PlaceOK, TypeOK, Conn
<1>10. ASSUME NEW c \in Conn, Detach(c)
     PROVE  LinksArePaired'
  BY <1>0, <1>10, DisjointAssumption DEF Detach, connVars, roomVars, locals,
     RoomInv, HoldsRoom, FirstOK, At, HoldLabels, JoinLabels, PlaceInv,
     PlaceOK, TypeOK, Conn
<1>11. ASSUME NEW c \in Conn, LookupRoom(c)
     PROVE  LinksArePaired'
  BY <1>0, <1>11, DisjointAssumption DEF LookupRoom, connVars, locals,
     elsewhere, roomVars, RoomInv, HoldsRoom, FirstOK, At, HoldLabels,
     JoinLabels, PlaceInv, PlaceOK, TypeOK, Conn
<1>12. ASSUME NEW c \in Conn, JoinFirst(c)
     PROVE  LinksArePaired'
  BY <1>0, <1>12, DisjointAssumption DEF JoinFirst, connVars, locals,
     RoomInv, HoldsRoom, FirstOK, At, HoldLabels, JoinLabels, PlaceInv,
     PlaceOK, TypeOK, Conn
<1>13. ASSUME NEW c \in Conn, JoinSecond(c)
     PROVE  LinksArePaired'
  BY <1>0, <1>13, DisjointAssumption DEF JoinSecond, connVars, locals,
     RoomInv, HoldsRoom, FirstOK, At, HoldLabels, JoinLabels, PlaceInv,
     PlaceOK, TypeOK, Conn
<1>14. ASSUME NEW c \in Conn, JoinRefused(c)
     PROVE  LinksArePaired'
  BY <1>0, <1>14, DisjointAssumption DEF JoinRefused, locals, RoomInv,
     HoldsRoom, FirstOK, At, HoldLabels, JoinLabels, PlaceInv, PlaceOK, TypeOK,
     Conn
<1>15. ASSUME NEW c \in Conn, LinkFirst(c)
     PROVE  LinksArePaired'
  BY <1>0, <1>15, DisjointAssumption DEF LinkFirst, connVars, roomVars,
     locals, RoomInv, HoldsRoom, FirstOK, At, HoldLabels, JoinLabels, PlaceInv,
     PlaceOK, TypeOK, Conn
<1>16. ASSUME NEW c \in Conn, LinkSecond(c)
     PROVE  LinksArePaired'
  BY <1>0, <1>16, DisjointAssumption DEF LinkSecond, connVars, roomVars,
     locals, RoomInv, HoldsRoom, FirstOK, At, HoldLabels, JoinLabels, PlaceInv,
     PlaceOK, TypeOK, Conn
<1>17. ASSUME NEW c \in Conn, TellFirst(c)
     PROVE  LinksArePaired'
  BY <1>0, <1>17, DisjointAssumption DEF TellFirst, connVars, locals,
     elsewhere, roomVars, RoomInv, HoldsRoom, FirstOK, At, HoldLabels,
     JoinLabels, PlaceInv, PlaceOK, TypeOK, Conn
<1>18. ASSUME NEW c \in Conn, TellSecond(c)
     PROVE  LinksArePaired'
  BY <1>0, <1>18, DisjointAssumption DEF TellSecond, connVars, locals,
     elsewhere, roomVars, RoomInv, HoldsRoom, FirstOK, At, HoldLabels,
     JoinLabels, PlaceInv, PlaceOK, TypeOK, Conn
<1>19. ASSUME NEW c \in Conn, LeaveRoom(c)
     PROVE  LinksArePaired'
  BY <1>0, <1>19, DisjointAssumption DEF LeaveRoom, connVars, locals,
     RoomInv, HoldsRoom, FirstOK, At, HoldLabels, JoinLabels, PlaceInv,
     PlaceOK, TypeOK, Conn
<1>20. ASSUME NEW c \in Conn, Accept(c)
     PROVE  LinksArePaired'
  BY <1>0, <1>20, DisjointAssumption DEF Accept, connVars, locals,
     elsewhere, roomVars, RoomInv, HoldsRoom, FirstOK, At, HoldLabels,
     JoinLabels, PlaceInv, PlaceOK, TypeOK, Conn
<1>21. ASSUME NEW c \in Conn, HandlerExit(c)
     PROVE  LinksArePaired'
  BY <1>0, <1>21, DisjointAssumption DEF HandlerExit, locals, elsewhere,
     roomVars, RoomInv, HoldsRoom, FirstOK, At, HoldLabels, JoinLabels,
     PlaceInv, PlaceOK, TypeOK, Conn
<1>22. ASSUME NEW c \in Boxes, HandshakeQ1(c)
     PROVE  LinksArePaired'
  BY <1>0, <1>22, DisjointAssumption DEF HandshakeQ1, connVars, roomVars,
     locals, RoomInv, HoldsRoom, FirstOK, At, HoldLabels, JoinLabels, PlaceInv,
     PlaceOK, TypeOK, Conn
<1>23. ASSUME NEW c \in Boxes, HandshakeNoName(c)
     PROVE  LinksArePaired'
  BY <1>0, <1>23, DisjointAssumption DEF HandshakeNoName, locals, elsewhere,
     roomVars, RoomInv, HoldsRoom, FirstOK, At, HoldLabels, JoinLabels,
     PlaceInv, PlaceOK, TypeOK, Conn
<1>24. ASSUME NEW c \in Boxes, Answer(c)
     PROVE  LinksArePaired'
  BY <1>0, <1>24, DisjointAssumption DEF Answer, connVars, locals,
     elsewhere, roomVars, RoomInv, HoldsRoom, FirstOK, At, HoldLabels,
     JoinLabels, PlaceInv, PlaceOK, TypeOK, Conn
<1>25. ASSUME NEW c \in Boxes, NEW n \in Names, HandshakeQ2(c, n)
     PROVE  LinksArePaired'
  BY <1>0, <1>25, DisjointAssumption DEF HandshakeQ2, connVars, roomVars,
     locals, RoomInv, HoldsRoom, FirstOK, At, HoldLabels, JoinLabels, PlaceInv,
     PlaceOK, TypeOK, Conn
<1>26. ASSUME NEW c \in Boxes, NEW n \in Names, P2PUdpQ1(c, n)
     PROVE  LinksArePaired'
  BY <1>0, <1>26, DisjointAssumption DEF P2PUdpQ1, connVars, elsewhere,
     roomVars, RoomInv, HoldsRoom, FirstOK, At, HoldLabels, JoinLabels,
     PlaceInv, PlaceOK, TypeOK, Conn
<1>27. ASSUME NEW c \in Boxes, NEW n \in Names, NEW r \in Rooms, SOpenQ(c, n, r)
     PROVE  LinksArePaired'
  BY <1>0, <1>27, DisjointAssumption DEF SOpenQ, connVars, RoomInv,
     HoldsRoom, FirstOK, At, HoldLabels, JoinLabels, PlaceInv, PlaceOK, TypeOK,
     Conn
<1>28. ASSUME NEW c \in Subs, NEW n \in Names \cup {Nil}, NEW r \in Rooms, TaskQ(c, n,
       r)
     PROVE  LinksArePaired'
  BY <1>0, <1>28, DisjointAssumption DEF TaskQ, connVars, elsewhere,
     roomVars, RoomInv, HoldsRoom, FirstOK, At, HoldLabels, JoinLabels,
     PlaceInv, PlaceOK, TypeOK, Conn
<1>29. CASE UNCHANGED <<pc, room, link, c1>>
  BY <1>29
<1>30. QED
  BY <1>0, <1>1, <1>2, <1>3, <1>4, <1>5, <1>6, <1>7, <1>8, <1>9, <1>10, <1>11,
     <1>12, <1>13, <1>14, <1>15, <1>16, <1>17, <1>18, <1>19, <1>20, <1>21,
     <1>22, <1>23, <1>24, <1>25, <1>26, <1>27, <1>28, <1>29 DEF Next, Receive,
     ReceiveSub, Proceed, CloserStep, ServerClose, Terminated, vars,
     SetDisable, SkipLink, CheckLink, CloseLink, LinkClosed, LockSubs,
     CloseSub, SubClosed, SubsClosed, Unregister, UnlockSubs, Expire, GcFires,
     GcStopped, CloseListener, LockForClose, VisitName, ClientClosed,
     UnlockAfterClose, connVars, idVars, subVars, regVars, roomVars, pcVars,
     locals, srvVars, others, elsewhere

\* Every action keeps the registry true to the live clients.
LEMMA RegistryInvStep ==
  ASSUME TypeOK, PlaceInv, CloserInv, RegistryInv, [Next]_vars
  PROVE  RegistryInv'
<1> USE DEF RegistryInv, RegisteredOK, BoxOK, LiveClientIsRegistered, Stored, At,
    Waiting, Goto, CallClose, Write, Entered, CloserGoto, ProxyInitialization,
    ProxyRegister, ProxyBusiness
<1>0. Boxes \subseteq Conn /\ Subs \subseteq Conn BY DEF Conn
<1>1. ASSUME NEW c \in Conn, SetDisable(c)
     PROVE  RegistryInv'
  BY <1>0, <1>1, DisjointAssumption DEF SetDisable, subVars, others, idVars,
     regVars, roomVars, pcVars, locals, srvVars, RegLabels, AskLabels,
     JoinLabels, HoldLabels, PlaceInv, PlaceOK, CloserInv, CloserOK, TypeOK,
     Conn
<1>2. ASSUME NEW c \in Conn, SkipLink(c)
     PROVE  RegistryInv'
  BY <1>0, <1>2, DisjointAssumption DEF SkipLink, subVars, others, idVars,
     regVars, roomVars, pcVars, locals, srvVars, RegLabels, AskLabels,
     JoinLabels, HoldLabels, PlaceInv, PlaceOK, CloserInv, CloserOK, TypeOK,
     Conn
<1>3. ASSUME NEW c \in Conn, CheckLink(c)
     PROVE  RegistryInv'
  BY <1>0, <1>3, DisjointAssumption DEF CheckLink, subVars, others, idVars,
     regVars, roomVars, pcVars, locals, srvVars, RegLabels, AskLabels,
     JoinLabels, HoldLabels, PlaceInv, PlaceOK, CloserInv, CloserOK, TypeOK,
     Conn
<1>4. ASSUME NEW c \in Conn, CloseLink(c)
     PROVE  RegistryInv'
  BY <1>0, <1>4, DisjointAssumption DEF CloseLink, subVars, others, idVars,
     regVars, roomVars, pcVars, locals, srvVars, RegLabels, AskLabels,
     JoinLabels, HoldLabels, PlaceInv, PlaceOK, CloserInv, CloserOK, TypeOK,
     Conn
<1>5. ASSUME NEW c \in Conn, LinkClosed(c)
     PROVE  RegistryInv'
  BY <1>0, <1>5, DisjointAssumption DEF LinkClosed, subVars, others, idVars,
     regVars, roomVars, pcVars, locals, srvVars, RegLabels, AskLabels,
     JoinLabels, HoldLabels, PlaceInv, PlaceOK, CloserInv, CloserOK, TypeOK,
     Conn
<1>6. ASSUME NEW c \in Conn, LockSubs(c)
     PROVE  RegistryInv'
  BY <1>0, <1>6, DisjointAssumption DEF LockSubs, others, idVars, regVars,
     roomVars, pcVars, locals, srvVars, RegLabels, AskLabels, JoinLabels,
     HoldLabels, PlaceInv, PlaceOK, CloserInv, CloserOK, TypeOK, Conn
<1>7. ASSUME NEW c \in Conn, NEW s \in Subs, CloseSub(c, s)
     PROVE  RegistryInv'
  BY <1>0, <1>7, DisjointAssumption DEF CloseSub, others, idVars, regVars,
     roomVars, pcVars, locals, srvVars, RegLabels, AskLabels, JoinLabels,
     HoldLabels, PlaceInv, PlaceOK, CloserInv, CloserOK, TypeOK, Conn
<1>8. ASSUME NEW c \in Conn, SubClosed(c)
     PROVE  RegistryInv'
  BY <1>0, <1>8, DisjointAssumption DEF SubClosed, others, idVars, regVars,
     roomVars, pcVars, locals, srvVars, RegLabels, AskLabels, JoinLabels,
     HoldLabels, PlaceInv, PlaceOK, CloserInv, CloserOK, TypeOK, Conn
<1>9. ASSUME NEW c \in Conn, SubsClosed(c)
     PROVE  RegistryInv'
  BY <1>0, <1>9, DisjointAssumption DEF SubsClosed, subVars, others, idVars,
     regVars, roomVars, pcVars, locals, srvVars, RegLabels, AskLabels,
     JoinLabels, HoldLabels, PlaceInv, PlaceOK, CloserInv, CloserOK, TypeOK,
     Conn
<1>10. ASSUME NEW c \in Conn, Unregister(c)
     PROVE  RegistryInv'
  <2>1. CASE name[c] = Nil
    BY SMTT(40), <1>10, <2>1, DisjointAssumption DEF Unregister, idVars,
       pcVars, locals,
       srvVars, TypeOK, CloserLabels, PlaceInv, PlaceOK, RegLabels
  <2>2. CASE name[c] # Nil
    <3>1. c \in Boxes /\ name[c] \in Names
      BY <2>2 DEF TypeOK, PlaceInv, PlaceOK
    <3>2. Stored(c) /\ registry[name[c]] = c
      BY <1>10, <2>2, <3>1 DEF Unregister
    <3>3. \A d \in Boxes : Stored(d)' <=> Stored(d)
      BY <1>10 DEF Unregister, idVars, pcVars
    <3>4. LiveClientIsRegistered'
      BY <1>0, <1>10, <3>1, <3>2, <3>3 DEF Unregister, idVars, pcVars, TypeOK,
         CloserLabels, PlaceInv, PlaceOK, RegLabels
    <3>5. \A n \in Names : RegisteredOK(n)'
      BY <1>0, <1>10, <3>1, <3>2, <3>3, DisjointAssumption DEF Unregister,
         idVars, pcVars, TypeOK, Conn
    <3>6. \A d \in Boxes : BoxOK(d)'
      BY <1>0, <1>10, <3>1, <3>2, <3>3, DisjointAssumption DEF Unregister,
         idVars, pcVars, locals, srvVars, TypeOK, CloserLabels, Conn, PlaceInv,
         PlaceOK, RegLabels
    <3>7. QED BY <1>10, <3>4, <3>5, <3>6 DEF Unregister, srvVars
  <2>3. QED BY <2>1, <2>2
<1>11. ASSUME NEW c \in Conn, UnlockSubs(c)
     PROVE  RegistryInv'
  BY <1>0, <1>11, DisjointAssumption DEF UnlockSubs, others, idVars,
     regVars, roomVars, pcVars, locals, srvVars, RegLabels, AskLabels,
     JoinLabels, HoldLabels, PlaceInv, PlaceOK, CloserInv, CloserOK, TypeOK,
     Conn
<1>12. ASSUME NEW c \in Conn, CloseReturned(c)
     PROVE  RegistryInv'
  BY <1>0, <1>12, DisjointAssumption DEF CloseReturned, connVars, locals,
     elsewhere, idVars, subVars, regVars, roomVars, srvVars, RegLabels,
     AskLabels, JoinLabels, HoldLabels, PlaceInv, PlaceOK, CloserInv, CloserOK,
     TypeOK, Conn
<1>13. ASSUME NEW c \in Conn, LockRegistry(c)
     PROVE  RegistryInv'
  BY <1>0, <1>13, DisjointAssumption DEF LockRegistry, connVars, idVars,
     subVars, roomVars, locals, srvVars, RegLabels, AskLabels, JoinLabels,
     HoldLabels, PlaceInv, PlaceOK, CloserInv, CloserOK, TypeOK, Conn
<1>14. ASSUME NEW c \in Conn, StoreClient(c)
     PROVE  RegistryInv'
  BY <1>0, <1>14, DisjointAssumption DEF StoreClient, connVars, idVars,
     subVars, roomVars, locals, srvVars, RegLabels, AskLabels, JoinLabels,
     HoldLabels, PlaceInv, PlaceOK, CloserInv, CloserOK, TypeOK, Conn
<1>15. ASSUME NEW c \in Conn, RegisterReply(c)
     PROVE  RegistryInv'
  BY <1>0, <1>15, DisjointAssumption DEF RegisterReply, connVars, locals,
     elsewhere, idVars, subVars, regVars, roomVars, srvVars, RegLabels,
     AskLabels, JoinLabels, HoldLabels, PlaceInv, PlaceOK, CloserInv, CloserOK,
     TypeOK, Conn
<1>16. ASSUME NEW c \in Conn, RegisterDone(c)
     PROVE  RegistryInv'
  BY <1>0, <1>16, DisjointAssumption DEF RegisterDone, connVars, subVars,
     regVars, roomVars, locals, srvVars, RegLabels, AskLabels, JoinLabels,
     HoldLabels, PlaceInv, PlaceOK, CloserInv, CloserOK, TypeOK, Conn
<1>17. ASSUME NEW c \in Conn, TellOdj(c)
     PROVE  RegistryInv'
  BY SMTT(40), <1>0, <1>17, DisjointAssumption DEF TellOdj, connVars, elsewhere,
     idVars, subVars, regVars, roomVars, srvVars, RegLabels, AskLabels,
     JoinLabels, HoldLabels, PlaceInv, PlaceOK, CloserInv, CloserOK, TypeOK,
     Conn
<1>18. ASSUME NEW c \in Conn, TellAsker(c)
     PROVE  RegistryInv'
  BY <1>0, <1>18, DisjointAssumption DEF TellAsker, connVars, locals,
     elsewhere, idVars, subVars, regVars, roomVars, srvVars, RegLabels,
     AskLabels, JoinLabels, HoldLabels, PlaceInv, PlaceOK, CloserInv, CloserOK,
     TypeOK, Conn
<1>19. ASSUME NEW c \in Conn, TellP2P(c)
     PROVE  RegistryInv'
  BY SMTT(40), <1>0, <1>19, DisjointAssumption DEF TellP2P, connVars, elsewhere,
     idVars, subVars, regVars, roomVars, srvVars, RegLabels, AskLabels,
     JoinLabels, HoldLabels, PlaceInv, PlaceOK, CloserInv, CloserOK, TypeOK,
     Conn
<1>20. ASSUME NEW c \in Conn, Attach(c)
     PROVE  RegistryInv'
  BY <1>0, <1>20, DisjointAssumption DEF Attach, connVars, regVars,
     roomVars, locals, srvVars, RegLabels, AskLabels, JoinLabels, HoldLabels,
     PlaceInv, PlaceOK, CloserInv, CloserOK, TypeOK, Conn
<1>21. ASSUME NEW c \in Conn, Detach(c)
     PROVE  RegistryInv'
  BY <1>0, <1>21, DisjointAssumption DEF Detach, connVars, regVars,
     roomVars, locals, srvVars, RegLabels, AskLabels, JoinLabels, HoldLabels,
     PlaceInv, PlaceOK, CloserInv, CloserOK, TypeOK, Conn
<1>22. ASSUME NEW c \in Conn, LookupRoom(c)
     PROVE  RegistryInv'
  BY SMTT(40), <1>0, <1>22, DisjointAssumption DEF LookupRoom, connVars, locals,
     elsewhere, idVars, subVars, regVars, roomVars, srvVars, RegLabels,
     AskLabels, JoinLabels, HoldLabels, PlaceInv, PlaceOK, CloserInv, CloserOK,
     TypeOK, Conn
<1>23. ASSUME NEW c \in Conn, JoinFirst(c)
     PROVE  RegistryInv'
  BY <1>0, <1>23, DisjointAssumption DEF JoinFirst, connVars, idVars,
     subVars, regVars, locals, srvVars, RegLabels, AskLabels, JoinLabels,
     HoldLabels, PlaceInv, PlaceOK, CloserInv, CloserOK, TypeOK, Conn
<1>24. ASSUME NEW c \in Conn, JoinSecond(c)
     PROVE  RegistryInv'
  BY <1>0, <1>24, DisjointAssumption DEF JoinSecond, connVars, idVars,
     subVars, regVars, locals, srvVars, RegLabels, AskLabels, JoinLabels,
     HoldLabels, PlaceInv, PlaceOK, CloserInv, CloserOK, TypeOK, Conn
<1>25. ASSUME NEW c \in Conn, JoinRefused(c)
     PROVE  RegistryInv'
  BY <1>0, <1>25, DisjointAssumption DEF JoinRefused, idVars, subVars,
     regVars, locals, srvVars, RegLabels, AskLabels, JoinLabels, HoldLabels,
     PlaceInv, PlaceOK, CloserInv, CloserOK, TypeOK, Conn
<1>26. ASSUME NEW c \in Conn, LinkFirst(c)
     PROVE  RegistryInv'
  BY <1>0, <1>26, DisjointAssumption DEF LinkFirst, connVars, idVars,
     subVars, regVars, roomVars, locals, srvVars, RegLabels, AskLabels,
     JoinLabels, HoldLabels, PlaceInv, PlaceOK, CloserInv, CloserOK, TypeOK,
     Conn
<1>27. ASSUME NEW c \in Conn, LinkSecond(c)
     PROVE  RegistryInv'
  BY <1>0, <1>27, DisjointAssumption DEF LinkSecond, connVars, idVars,
     subVars, regVars, roomVars, locals, srvVars, RegLabels, AskLabels,
     JoinLabels, HoldLabels, PlaceInv, PlaceOK, CloserInv, CloserOK, TypeOK,
     Conn
<1>28. ASSUME NEW c \in Conn, TellFirst(c)
     PROVE  RegistryInv'
  BY SMTT(40), <1>0, <1>28, DisjointAssumption DEF TellFirst, connVars, locals,
     elsewhere, idVars, subVars, regVars, roomVars, srvVars, RegLabels,
     AskLabels, JoinLabels, HoldLabels, PlaceInv, PlaceOK, CloserInv, CloserOK,
     TypeOK, Conn
<1>29. ASSUME NEW c \in Conn, TellSecond(c)
     PROVE  RegistryInv'
  BY <1>0, <1>29, DisjointAssumption DEF TellSecond, connVars, locals,
     elsewhere, idVars, subVars, regVars, roomVars, srvVars, RegLabels,
     AskLabels, JoinLabels, HoldLabels, PlaceInv, PlaceOK, CloserInv, CloserOK,
     TypeOK, Conn
<1>30. ASSUME NEW c \in Conn, LeaveRoom(c)
     PROVE  RegistryInv'
  BY <1>0, <1>30, DisjointAssumption DEF LeaveRoom, connVars, idVars,
     subVars, regVars, locals, srvVars, RegLabels, AskLabels, JoinLabels,
     HoldLabels, PlaceInv, PlaceOK, CloserInv, CloserOK, TypeOK, Conn
<1>31. ASSUME NEW c \in Conn, Accept(c)
     PROVE  RegistryInv'
  BY <1>0, <1>31, DisjointAssumption DEF Accept, connVars, locals,
     elsewhere, idVars, subVars, regVars, roomVars, srvVars, RegLabels,
     AskLabels, JoinLabels, HoldLabels, PlaceInv, PlaceOK, CloserInv, CloserOK,
     TypeOK, Conn
<1>32. ASSUME NEW c \in Conn, HandlerExit(c)
     PROVE  RegistryInv'
  BY <1>0, <1>32, DisjointAssumption DEF HandlerExit, locals, elsewhere,
     idVars, subVars, regVars, roomVars, srvVars, RegLabels, AskLabels,
     JoinLabels, HoldLabels, PlaceInv, PlaceOK, CloserInv, CloserOK, TypeOK,
     Conn
<1>33. ASSUME NEW c \in Boxes, HandshakeQ1(c)
     PROVE  RegistryInv'
  BY <1>0, <1>33, DisjointAssumption DEF HandshakeQ1, connVars, subVars,
     regVars, roomVars, locals, srvVars, RegLabels, AskLabels, JoinLabels,
     HoldLabels, PlaceInv, PlaceOK, CloserInv, CloserOK, TypeOK, Conn
<1>34. ASSUME NEW c \in Boxes, HandshakeNoName(c)
     PROVE  RegistryInv'
  BY <1>0, <1>34, DisjointAssumption DEF HandshakeNoName, locals, elsewhere,
     idVars, subVars, regVars, roomVars, srvVars, RegLabels, AskLabels,
     JoinLabels, HoldLabels, PlaceInv, PlaceOK, CloserInv, CloserOK, TypeOK,
     Conn
<1>35. ASSUME NEW c \in Boxes, Answer(c)
     PROVE  RegistryInv'
  BY <1>0, <1>35, DisjointAssumption DEF Answer, connVars, locals,
     elsewhere, idVars, subVars, regVars, roomVars, srvVars, RegLabels,
     AskLabels, JoinLabels, HoldLabels, PlaceInv, PlaceOK, CloserInv, CloserOK,
     TypeOK, Conn
<1>36. ASSUME NEW c \in Boxes, NEW n \in Names, HandshakeQ2(c, n)
     PROVE  RegistryInv'
  BY <1>0, <1>36, DisjointAssumption DEF HandshakeQ2, connVars, subVars,
     regVars, roomVars, locals, srvVars, RegLabels, AskLabels, JoinLabels,
     HoldLabels, PlaceInv, PlaceOK, CloserInv, CloserOK, TypeOK, Conn
<1>37. ASSUME NEW c \in Boxes, NEW n \in Names, P2PUdpQ1(c, n)
     PROVE  RegistryInv'
  BY <1>0, <1>37, DisjointAssumption DEF P2PUdpQ1, connVars, elsewhere,
     idVars, subVars, regVars, roomVars, srvVars, RegLabels, AskLabels,
     JoinLabels, HoldLabels, PlaceInv, PlaceOK, CloserInv, CloserOK, TypeOK,
     Conn
<1>38. ASSUME NEW c \in Boxes, NEW n \in Names, NEW r \in Rooms, SOpenQ(c, n, r)
     PROVE  RegistryInv'
  BY <1>0, <1>38, DisjointAssumption DEF SOpenQ, connVars, idVars, subVars,
     regVars, srvVars, RegLabels, AskLabels, JoinLabels, HoldLabels, PlaceInv,
     PlaceOK, CloserInv, CloserOK, TypeOK, Conn
<1>39. ASSUME NEW c \in Subs, NEW n \in Names \cup {Nil}, NEW r \in Rooms, TaskQ(c, n,
       r)
     PROVE  RegistryInv'
  <2>1. c \in Conn /\ c \notin Boxes BY <1>0, <1>39, DisjointAssumption
  <2>2. \A d \in Boxes :
          /\ pc'[d] = pc[d] /\ ret'[d] = ret[d] /\ waits'[d] = waits[d]
          /\ odj'[d] = odj[d] /\ closer'[d] = closer[d]
    BY <1>39, <2>1, DisjointAssumption DEF TaskQ, connVars, elsewhere, idVars,
       TypeOK, Conn
  <2>3. UNCHANGED <<registry, regLock, name, step, srv>>
    BY <1>39 DEF TaskQ, elsewhere, idVars, regVars, srvVars
  <2>4. \A d \in Boxes : Stored(d)' <=> Stored(d) BY <2>2, <2>3
  <2>5. \A n0 \in Names : RegisteredOK(n0)'
    BY <2>2, <2>3, <2>4 DEF TypeOK
  <2>6. \A d \in Boxes : BoxOK(d)' BY <1>0, <2>2, <2>3, <2>4 DEF TypeOK
  <2>7. LiveClientIsRegistered' BY <2>2, <2>3, <2>4
  <2>8. QED BY <2>3, <2>5, <2>6, <2>7
<1>40. ASSUME CloseListener
     PROVE  RegistryInv'
  BY <1>0, <1>40, DisjointAssumption DEF CloseListener, connVars, idVars,
     subVars, regVars, roomVars, pcVars, locals, RegLabels, AskLabels,
     JoinLabels, HoldLabels, PlaceInv, PlaceOK, CloserInv, CloserOK, TypeOK,
     Conn
<1>41. ASSUME LockForClose
     PROVE  RegistryInv'
  BY <1>0, <1>41, DisjointAssumption DEF LockForClose, connVars, idVars,
     subVars, roomVars, pcVars, locals, RegLabels, AskLabels, JoinLabels,
     HoldLabels, PlaceInv, PlaceOK, CloserInv, CloserOK, TypeOK, Conn
<1>42. ASSUME NEW n \in Names, VisitName(n)
     PROVE  RegistryInv'
  BY <1>0, <1>42, DisjointAssumption DEF VisitName, idVars, subVars,
     regVars, roomVars, locals, RegLabels, AskLabels, JoinLabels, HoldLabels,
     PlaceInv, PlaceOK, CloserInv, CloserOK, TypeOK, Conn
<1>43. ASSUME ClientClosed
     PROVE  RegistryInv'
  BY <1>0, <1>43, DisjointAssumption DEF ClientClosed, connVars, idVars,
     subVars, regVars, roomVars, locals, RegLabels, AskLabels, JoinLabels,
     HoldLabels, PlaceInv, PlaceOK, CloserInv, CloserOK, TypeOK, Conn
<1>44. ASSUME UnlockAfterClose
     PROVE  RegistryInv'
  BY <1>0, <1>44, DisjointAssumption DEF UnlockAfterClose, connVars, idVars,
     subVars, roomVars, pcVars, locals, RegLabels, AskLabels, JoinLabels,
     HoldLabels, PlaceInv, PlaceOK, CloserInv, CloserOK, TypeOK, Conn
<1>45. CASE UNCHANGED <<registry, regLock, closer, pc, ret, waits, name, step, odj, srv>>
  BY <1>45
<1>46. QED
  BY <1>0, <1>1, <1>2, <1>3, <1>4, <1>5, <1>6, <1>7, <1>8, <1>9, <1>10, <1>11,
     <1>12, <1>13, <1>14, <1>15, <1>16, <1>17, <1>18, <1>19, <1>20, <1>21,
     <1>22, <1>23, <1>24, <1>25, <1>26, <1>27, <1>28, <1>29, <1>30, <1>31,
     <1>32, <1>33, <1>34, <1>35, <1>36, <1>37, <1>38, <1>39, <1>40, <1>41,
     <1>42, <1>43, <1>44, <1>45 DEF Next, Receive, ReceiveSub, Proceed,
     CloserStep, ServerClose, Terminated, vars, Expire, GcFires, GcStopped,
     connVars, idVars, subVars, regVars, roomVars, pcVars, locals, srvVars,
     others, elsewhere

\* Every action keeps the visited names empty while Close holds the lock.
LEMMA ShutdownInvStep ==
  ASSUME TypeOK, PlaceInv, RegistryInv, ShutdownInv, [Next]_vars
  PROVE  ShutdownInv'
<1> USE DEF ShutdownInv, Goto, CallClose, Write
<1>0. Boxes \subseteq Conn /\ Subs \subseteq Conn BY DEF Conn
<1>1. ASSUME NEW c \in Conn, Unregister(c)
     PROVE  ShutdownInv'
  BY <1>0, <1>1, DisjointAssumption DEF Unregister, idVars, subVars,
     roomVars, pcVars, locals, srvVars, TypeOK, SrvLabels, Conn
<1>2. ASSUME NEW c \in Conn, CloseReturned(c)
     PROVE  ShutdownInv'
  BY <1>0, <1>2, DisjointAssumption DEF CloseReturned, connVars, locals,
     elsewhere, idVars, subVars, regVars, roomVars, srvVars, TypeOK, SrvLabels,
     Conn
<1>3. ASSUME NEW c \in Conn, LockRegistry(c)
     PROVE  ShutdownInv'
  BY <1>0, <1>3, DisjointAssumption DEF LockRegistry, connVars, idVars,
     subVars, roomVars, locals, srvVars, TypeOK, SrvLabels, Conn
<1>4. ASSUME NEW c \in Conn, StoreClient(c)
     PROVE  ShutdownInv'
  BY <1>0, <1>4, DisjointAssumption DEF StoreClient, connVars, idVars,
     subVars, roomVars, locals, srvVars, RegistryInv, RegisteredOK, BoxOK, At,
     PlaceInv, PlaceOK, RegLabels, TypeOK, SrvLabels, Conn
<1>5. ASSUME NEW c \in Conn, RegisterReply(c)
     PROVE  ShutdownInv'
  BY <1>0, <1>5, DisjointAssumption DEF RegisterReply, connVars, locals,
     elsewhere, idVars, subVars, regVars, roomVars, srvVars, TypeOK, SrvLabels,
     Conn
<1>6. ASSUME NEW c \in Conn, RegisterDone(c)
     PROVE  ShutdownInv'
  BY <1>0, <1>6, DisjointAssumption DEF RegisterDone, connVars, subVars,
     regVars, roomVars, locals, srvVars, TypeOK, SrvLabels, Conn
<1>7. ASSUME NEW c \in Conn, TellOdj(c)
     PROVE  ShutdownInv'
  BY <1>0, <1>7, DisjointAssumption DEF TellOdj, connVars, elsewhere,
     idVars, subVars, regVars, roomVars, srvVars, TypeOK, SrvLabels, Conn
<1>8. ASSUME NEW c \in Conn, TellAsker(c)
     PROVE  ShutdownInv'
  BY <1>0, <1>8, DisjointAssumption DEF TellAsker, connVars, locals,
     elsewhere, idVars, subVars, regVars, roomVars, srvVars, TypeOK, SrvLabels,
     Conn
<1>9. ASSUME NEW c \in Conn, TellP2P(c)
     PROVE  ShutdownInv'
  BY <1>0, <1>9, DisjointAssumption DEF TellP2P, connVars, elsewhere,
     idVars, subVars, regVars, roomVars, srvVars, TypeOK, SrvLabels, Conn
<1>10. ASSUME NEW c \in Conn, Attach(c)
     PROVE  ShutdownInv'
  BY <1>0, <1>10, DisjointAssumption DEF Attach, connVars, regVars,
     roomVars, locals, srvVars, TypeOK, SrvLabels, Conn
<1>11. ASSUME NEW c \in Conn, Detach(c)
     PROVE  ShutdownInv'
  BY <1>0, <1>11, DisjointAssumption DEF Detach, connVars, regVars,
     roomVars, locals, srvVars, TypeOK, SrvLabels, Conn
<1>12. ASSUME NEW c \in Conn, LookupRoom(c)
     PROVE  ShutdownInv'
  BY <1>0, <1>12, DisjointAssumption DEF LookupRoom, connVars, locals,
     elsewhere, idVars, subVars, regVars, roomVars, srvVars, TypeOK, SrvLabels,
     Conn
<1>13. ASSUME NEW c \in Conn, JoinFirst(c)
     PROVE  ShutdownInv'
  BY <1>0, <1>13, DisjointAssumption DEF JoinFirst, connVars, idVars,
     subVars, regVars, locals, srvVars, TypeOK, SrvLabels, Conn
<1>14. ASSUME NEW c \in Conn, JoinSecond(c)
     PROVE  ShutdownInv'
  BY <1>0, <1>14, DisjointAssumption DEF JoinSecond, connVars, idVars,
     subVars, regVars, locals, srvVars, TypeOK, SrvLabels, Conn
<1>15. ASSUME NEW c \in Conn, JoinRefused(c)
     PROVE  ShutdownInv'
  BY <1>0, <1>15, DisjointAssumption DEF JoinRefused, idVars, subVars,
     regVars, locals, srvVars, TypeOK, SrvLabels, Conn
<1>16. ASSUME NEW c \in Conn, LinkFirst(c)
     PROVE  ShutdownInv'
  BY <1>0, <1>16, DisjointAssumption DEF LinkFirst, connVars, idVars,
     subVars, regVars, roomVars, locals, srvVars, TypeOK, SrvLabels, Conn
<1>17. ASSUME NEW c \in Conn, LinkSecond(c)
     PROVE  ShutdownInv'
  BY <1>0, <1>17, DisjointAssumption DEF LinkSecond, connVars, idVars,
     subVars, regVars, roomVars, locals, srvVars, TypeOK, SrvLabels, Conn
<1>18. ASSUME NEW c \in Conn, TellFirst(c)
     PROVE  ShutdownInv'
  BY <1>0, <1>18, DisjointAssumption DEF TellFirst, connVars, locals,
     elsewhere, idVars, subVars, regVars, roomVars, srvVars, TypeOK, SrvLabels,
     Conn
<1>19. ASSUME NEW c \in Conn, TellSecond(c)
     PROVE  ShutdownInv'
  BY <1>0, <1>19, DisjointAssumption DEF TellSecond, connVars, locals,
     elsewhere, idVars, subVars, regVars, roomVars, srvVars, TypeOK, SrvLabels,
     Conn
<1>20. ASSUME NEW c \in Conn, LeaveRoom(c)
     PROVE  ShutdownInv'
  BY <1>0, <1>20, DisjointAssumption DEF LeaveRoom, connVars, idVars,
     subVars, regVars, locals, srvVars, TypeOK, SrvLabels, Conn
<1>21. ASSUME NEW c \in Conn, Accept(c)
     PROVE  ShutdownInv'
  BY <1>0, <1>21, DisjointAssumption DEF Accept, connVars, locals,
     elsewhere, idVars, subVars, regVars, roomVars, srvVars, TypeOK, SrvLabels,
     Conn
<1>22. ASSUME NEW c \in Conn, HandlerExit(c)
     PROVE  ShutdownInv'
  BY <1>0, <1>22, DisjointAssumption DEF HandlerExit, locals, elsewhere,
     idVars, subVars, regVars, roomVars, srvVars, TypeOK, SrvLabels, Conn
<1>23. ASSUME NEW c \in Boxes, HandshakeQ1(c)
     PROVE  ShutdownInv'
  BY <1>0, <1>23, DisjointAssumption DEF HandshakeQ1, connVars, subVars,
     regVars, roomVars, locals, srvVars, TypeOK, SrvLabels, Conn
<1>24. ASSUME NEW c \in Boxes, HandshakeNoName(c)
     PROVE  ShutdownInv'
  BY <1>0, <1>24, DisjointAssumption DEF HandshakeNoName, locals, elsewhere,
     idVars, subVars, regVars, roomVars, srvVars, TypeOK, SrvLabels, Conn
<1>25. ASSUME NEW c \in Boxes, Answer(c)
     PROVE  ShutdownInv'
  BY <1>0, <1>25, DisjointAssumption DEF Answer, connVars, locals,
     elsewhere, idVars, subVars, regVars, roomVars, srvVars, TypeOK, SrvLabels,
     Conn
<1>26. ASSUME NEW c \in Boxes, NEW n \in Names, HandshakeQ2(c, n)
     PROVE  ShutdownInv'
  BY <1>0, <1>26, DisjointAssumption DEF HandshakeQ2, connVars, subVars,
     regVars, roomVars, locals, srvVars, TypeOK, SrvLabels, Conn
<1>27. ASSUME NEW c \in Boxes, NEW n \in Names, P2PUdpQ1(c, n)
     PROVE  ShutdownInv'
  BY <1>0, <1>27, DisjointAssumption DEF P2PUdpQ1, connVars, elsewhere,
     idVars, subVars, regVars, roomVars, srvVars, TypeOK, SrvLabels, Conn
<1>28. ASSUME NEW c \in Boxes, NEW n \in Names, NEW r \in Rooms, SOpenQ(c, n, r)
     PROVE  ShutdownInv'
  BY <1>0, <1>28, DisjointAssumption DEF SOpenQ, connVars, idVars, subVars,
     regVars, srvVars, TypeOK, SrvLabels, Conn
<1>29. ASSUME NEW c \in Subs, NEW n \in Names \cup {Nil}, NEW r \in Rooms, TaskQ(c, n,
       r)
     PROVE  ShutdownInv'
  BY <1>0, <1>29, DisjointAssumption DEF TaskQ, connVars, elsewhere, idVars,
     subVars, regVars, roomVars, srvVars, TypeOK, SrvLabels, Conn
<1>30. ASSUME CloseListener
     PROVE  ShutdownInv'
  BY <1>0, <1>30, DisjointAssumption DEF CloseListener, connVars, idVars,
     subVars, regVars, roomVars, pcVars, locals, TypeOK, SrvLabels, Conn
<1>31. ASSUME LockForClose
     PROVE  ShutdownInv'
  BY <1>0, <1>31, DisjointAssumption DEF LockForClose, connVars, idVars,
     subVars, roomVars, pcVars, locals, TypeOK, SrvLabels, Conn
<1>32. ASSUME NEW n \in Names, VisitName(n)
     PROVE  ShutdownInv'
  BY <1>0, <1>32, DisjointAssumption DEF VisitName, idVars, subVars,
     regVars, roomVars, locals, TypeOK, SrvLabels, Conn
<1>33. ASSUME ClientClosed
     PROVE  ShutdownInv'
  BY <1>0, <1>33, DisjointAssumption DEF ClientClosed, connVars, idVars,
     subVars, regVars, roomVars, locals, RegistryInv, RegisteredOK, BoxOK, At,
     PlaceInv, PlaceOK, RegLabels, TypeOK, SrvLabels, Conn
<1>34. ASSUME UnlockAfterClose
     PROVE  ShutdownInv'
  BY <1>0, <1>34, DisjointAssumption DEF UnlockAfterClose, connVars, idVars,
     subVars, roomVars, pcVars, locals, TypeOK, SrvLabels, Conn
<1>35. CASE UNCHANGED <<srv, todo, registry, waits>>
  BY <1>35
<1>36. QED
  BY <1>0, <1>1, <1>2, <1>3, <1>4, <1>5, <1>6, <1>7, <1>8, <1>9, <1>10, <1>11,
     <1>12, <1>13, <1>14, <1>15, <1>16, <1>17, <1>18, <1>19, <1>20, <1>21,
     <1>22, <1>23, <1>24, <1>25, <1>26, <1>27, <1>28, <1>29, <1>30, <1>31,
     <1>32, <1>33, <1>34, <1>35 DEF Next, Receive, ReceiveSub, Proceed,
     CloserStep, ServerClose, Terminated, vars, SetDisable, SkipLink,
     CheckLink, CloseLink, LinkClosed, LockSubs, CloseSub, SubClosed,
     SubsClosed, UnlockSubs, Expire, GcFires, GcStopped, connVars, idVars,
     subVars, regVars, roomVars, pcVars, locals, srvVars, others, elsewhere


LEMMA ServerInvInit == Init => ServerInv
<1> SUFFICES ASSUME Init PROVE ServerInv
  OBVIOUS
<1> USE DisjointAssumption DEF Init, Conn, At, Waiting, Stored, RegLabels,
      AskLabels, JoinLabels, HoldLabels, ProxyInitialization, ProxyRegister,
      ProxyBusiness
<1>1. TypeOK BY DEF TypeOK, CloserLabels, HandlerLabels, SrvLabels
<1>2. PlaceInv BY DEF PlaceInv, PlaceOK
<1>3. CloserInv /\ SubInv BY DEF CloserInv, CloserOK, SubInv, SubOK
<1>4. RoomInv BY DEF RoomInv, HoldsRoom, FirstOK
<1>5. NoMutualWait /\ LinksArePaired BY DEF NoMutualWait, LinksArePaired
<1>6. RegistryInv
  BY DEF RegistryInv, RegisteredOK, BoxOK, LiveClientIsRegistered
<1>7. ShutdownInv BY DEF ShutdownInv
<1>8. QED BY <1>1, <1>2, <1>3, <1>4, <1>5, <1>6, <1>7 DEF ServerInv

LEMMA ServerInvStep == ServerInv /\ [Next]_vars => ServerInv'
BY TypeStep, PlaceStep, CloserInvStep, SubInvStep, RoomInvStep,
   NoMutualWaitStep, LinksArePairedStep, RegistryInvStep, ShutdownInvStep
   DEF ServerInv

\* The conjunction of all the parts is inductive.
THEOREM ServerInvariance == Spec => []ServerInv
BY ServerInvInit, ServerInvStep, PTL DEF Spec

\* Types: in particular only boxes are ever registered or looked up, and only
\* subs are ever attached or linked.
THEOREM TypeCorrect == Spec => []TypeOK
BY ServerInvariance, PTL DEF ServerInv

\* The name-keyed delete at the end of a close never unregisters a live client
\* of the same name (proxy_client.go:166, proxy_server.go:48).
THEOREM LiveClientRegistered == Spec => []LiveClientIsRegistered
<1>1. ServerInv => LiveClientIsRegistered BY DEF ServerInv, RegistryInv
<1>2. QED BY <1>1, ServerInvariance, PTL

\* A client whose close has returned is in the registry under no name.
THEOREM NoDeadEntryKept == Spec => []NoDeadEntry
<1>1. ServerInv => NoDeadEntry
  BY DEF ServerInv, RegistryInv, RegisteredOK, NoDeadEntry
<1>2. QED BY <1>1, ServerInvariance, PTL

\* A sub whose parent's close has returned is disabled (proxy_client.go:204).
THEOREM NoOrphans == Spec => []NoOrphanSub
<1>1. ServerInv => NoOrphanSub
  <2> SUFFICES ASSUME ServerInv, NEW s \in Subs, parent[s] # Nil,
                      closer[parent[s]] = "done"
               PROVE  disable[s]
    BY DEF NoOrphanSub
  <2>1. parent[s] \in Conn BY DEF ServerInv, TypeOK, Conn
  <2>2. subMap[parent[s]] = {} BY <2>1 DEF ServerInv, CloserInv, CloserOK
  <2>3. QED BY <2>2 DEF ServerInv, SubInv, SubOK
<1>2. QED BY <1>1, ServerInvariance, PTL

\* Two linked subs never wait for each other's close (proxy_client.go:155).
THEOREM NoMutualWaiting == Spec => []NoMutualWait
<1>1. ServerInv => NoMutualWait BY DEF ServerInv
<1>2. QED BY <1>1, ServerInvariance, PTL

\* A room links two subs to each other and never a third (proxy_task.go:24).
THEOREM LinksPaired == Spec => []LinksArePaired
<1>1. ServerInv => LinksArePaired BY DEF ServerInv
<1>2. QED BY <1>1, ServerInvariance, PTL

\* A connection's handler and its close leave ProxyServer.Close alone; only the
\* store under a name and the delete at the end of a close touch the registry.
LEMMA ConnectionKeeps ==
  ASSUME NEW c,
         Accept(c) \/ HandlerExit(c) \/ Receive(c) \/ ReceiveSub(c)
         \/ Proceed(c) \/ CloserStep(c)
  PROVE  srv' = srv /\ (registry' = registry \/ StoreClient(c) \/ Unregister(c))
<1> DEFINE Keeps == srv' = srv /\ (registry' = registry \/ StoreClient(c) \/ Unregister(c))
<1> USE DEF elsewhere, others, regVars, srvVars
<1>1. CASE Accept(c) \/ HandlerExit(c) BY <1>1 DEF Accept, HandlerExit
<1>2. CASE Receive(c)
  <2>1. CASE HandshakeQ1(c) \/ HandshakeNoName(c) \/ Answer(c)
    BY <2>1 DEF HandshakeQ1, HandshakeNoName, Answer
  <2>2. CASE \E n \in Names : HandshakeQ2(c, n) \/ P2PUdpQ1(c, n)
    BY <2>2 DEF HandshakeQ2, P2PUdpQ1
  <2>3. CASE \E n \in Names, r \in Rooms : SOpenQ(c, n, r) BY <2>3 DEF SOpenQ
  <2>4. QED BY <1>2, <2>1, <2>2, <2>3 DEF Receive
<1>3. CASE ReceiveSub(c) BY <1>3 DEF ReceiveSub, TaskQ
<1>4. CASE Proceed(c)
  <2>1. CASE CloseReturned(c) \/ RegisterReply(c) \/ LookupRoom(c)
    BY <2>1 DEF CloseReturned, RegisterReply, LookupRoom
  <2>2. CASE TellOdj(c) \/ TellAsker(c) \/ TellP2P(c) \/ TellFirst(c) \/ TellSecond(c)
    BY <2>2 DEF TellOdj, TellAsker, TellP2P, TellFirst, TellSecond
  <2>3. CASE LockRegistry(c) BY <2>3 DEF LockRegistry
  <2>4. CASE StoreClient(c) BY <2>4 DEF StoreClient
  <2>5. CASE RegisterDone(c) \/ Attach(c) \/ Detach(c)
    BY <2>5 DEF RegisterDone, Attach, Detach
  <2>6. CASE JoinFirst(c) \/ JoinSecond(c) \/ JoinRefused(c) \/ LeaveRoom(c)
    BY <2>6 DEF JoinFirst, JoinSecond, JoinRefused, LeaveRoom
  <2>7. CASE LinkFirst(c) \/ LinkSecond(c) BY <2>7 DEF LinkFirst, LinkSecond
  <2>8. QED BY <1>4, <2>1, <2>2, <2>3, <2>4, <2>5, <2>6, <2>7 DEF Proceed
<1>5. CASE CloserStep(c)
  <2>1. CASE SetDisable(c) \/ SkipLink(c) \/ CheckLink(c) \/ CloseLink(c) \/ LinkClosed(c)
    BY <2>1 DEF SetDisable, SkipLink, CheckLink, CloseLink, LinkClosed
  <2>2. CASE LockSubs(c) \/ SubClosed(c) \/ SubsClosed(c) \/ UnlockSubs(c)
    BY <2>2 DEF LockSubs, SubClosed, SubsClosed, UnlockSubs
  <2>3. CASE \E s \in Subs : CloseSub(c, s) BY <2>3 DEF CloseSub
  <2>4. CASE Unregister(c) BY <2>4 DEF Unregister
  <2>5. QED BY <1>5, <2>1, <2>2, <2>3, <2>4 DEF CloserStep
<1>6. QED BY <1>1, <1>2, <1>3, <1>4, <1>5

\* The collector and ProxyServer.Close do not touch the registry, and only the
\* unlock at the end of Close shuts the server.
LEMMA ServerKeeps ==
  ASSUME (\E r \in Rooms : Expire(r)) \/ GcFires \/ GcStopped
         \/ CloseListener \/ ServerClose \/ Terminated
  PROVE  /\ registry' = registry
         /\ srv' = "done" <=> (srv = "done" \/ UnlockAfterClose)
<1> DEFINE Keeps == /\ registry' = registry
                    /\ srv' = "done" <=> (srv = "done" \/ UnlockAfterClose)
<1> USE DEF regVars, srvVars
<1>1. CASE (\E r \in Rooms : Expire(r)) \/ GcFires \/ GcStopped
  BY <1>1 DEF Expire, GcFires, GcStopped, UnlockAfterClose
<1>2. CASE CloseListener BY <1>2 DEF CloseListener, UnlockAfterClose
<1>3. CASE ServerClose
  <2>1. CASE LockForClose BY <2>1 DEF LockForClose, UnlockAfterClose
  <2>2. CASE \E n \in Names : VisitName(n) BY <2>2 DEF VisitName, UnlockAfterClose
  <2>3. CASE ClientClosed BY <2>3 DEF ClientClosed, UnlockAfterClose
  <2>4. CASE UnlockAfterClose BY <2>4 DEF UnlockAfterClose
  <2>5. QED BY <1>3, <2>1, <2>2, <2>3, <2>4 DEF ServerClose
<1>4. CASE Terminated BY <1>4 DEF Terminated, UnlockAfterClose, vars
<1>5. QED BY <1>1, <1>2, <1>3, <1>4

\* ProxyServer.Close leaves an empty registry when it unlocks it (proxy.go:328).
THEOREM CloseLeavesNobody == Spec => CloseEmptiesRegistry
<1>1. ServerInv /\ [Next]_vars =>
        [srv # "done" /\ srv' = "done" =>
           \A n \in Names : registry'[n] = Nil]_vars
  <2> SUFFICES ASSUME ServerInv, Next, srv # "done", srv' = "done"
               PROVE  \A n \in Names : registry'[n] = Nil
    OBVIOUS
  <2>1. UnlockAfterClose BY ConnectionKeeps, ServerKeeps DEF Next
  <2>2. QED BY <2>1 DEF UnlockAfterClose, ServerInv, ShutdownInv
<1>2. QED BY <1>1, ServerInvariance, PTL DEF Spec, CloseEmptiesRegistry

\* Only the store under a name and the delete at the end of a close touch the
\* registry.
LEMMA RegistryTouched ==
  ASSUME Next, registry' # registry
  PROVE  \E c \in Conn : StoreClient(c) \/ Unregister(c)
BY ConnectionKeeps, ServerKeeps DEF Next, Conn

\* Only the delete at the end of its own close ends a client.
LEMMA EndedByUnregister ==
  ASSUME TypeOK, Next, NEW c \in Conn, ~Unregister(c)
  PROVE  closer'[c] \in {"unlock", "done"} <=> closer[c] \in {"unlock", "done"}
<1> DEFINE Same == closer'[c] \in {"unlock", "done"} <=> closer[c] \in {"unlock", "done"}
<1> USE DEF TypeOK, Entered, CloserGoto, Goto, CallClose, Write
<1>0. Boxes \subseteq Conn /\ Subs \subseteq Conn BY DEF Conn
<1>1. ASSUME NEW x \in Conn, SetDisable(x)
     PROVE  Same
  BY <1>0, <1>1 DEF SetDisable
<1>2. ASSUME NEW x \in Conn, SkipLink(x)
     PROVE  Same
  BY <1>0, <1>2 DEF SkipLink
<1>3. ASSUME NEW x \in Conn, CheckLink(x)
     PROVE  Same
  BY <1>0, <1>3 DEF CheckLink
<1>4. ASSUME NEW x \in Conn, CloseLink(x)
     PROVE  Same
  BY <1>0, <1>4 DEF CloseLink
<1>5. ASSUME NEW x \in Conn, LinkClosed(x)
     PROVE  Same
  BY <1>0, <1>5 DEF LinkClosed
<1>6. ASSUME NEW x \in Conn, LockSubs(x)
     PROVE  Same
  BY <1>0, <1>6 DEF LockSubs
<1>7. ASSUME NEW x \in Conn, SubClosed(x)
     PROVE  Same
  BY <1>0, <1>7 DEF SubClosed
<1>8. ASSUME NEW x \in Conn, SubsClosed(x)
     PROVE  Same
  BY <1>0, <1>8 DEF SubsClosed
<1>9. ASSUME NEW x \in Conn, UnlockSubs(x)
     PROVE  Same
  BY <1>0, <1>9 DEF UnlockSubs
<1>10. ASSUME NEW x \in Conn, NEW s \in Subs, CloseSub(x, s)
     PROVE  Same
  BY <1>0, <1>10 DEF CloseSub
<1>11. ASSUME NEW x \in Conn, Unregister(x)
     PROVE  Same
  BY <1>0, <1>11 DEF Unregister
<1>12. ASSUME NEW x \in Conn, CloseReturned(x)
     PROVE  Same
  BY <1>0, <1>12 DEF CloseReturned, connVars
<1>13. ASSUME NEW x \in Conn, LockRegistry(x)
     PROVE  Same
  BY <1>0, <1>13 DEF LockRegistry, connVars
<1>14. ASSUME NEW x \in Conn, StoreClient(x)
     PROVE  Same
  BY <1>0, <1>14 DEF StoreClient, connVars
<1>15. ASSUME NEW x \in Conn, RegisterReply(x)
     PROVE  Same
  BY <1>0, <1>15 DEF RegisterReply, connVars
<1>16. ASSUME NEW x \in Conn, RegisterDone(x)
     PROVE  Same
  BY <1>0, <1>16 DEF RegisterDone, connVars
<1>17. ASSUME NEW x \in Conn, TellOdj(x)
     PROVE  Same
  BY <1>0, <1>17 DEF TellOdj, connVars
<1>18. ASSUME NEW x \in Conn, TellAsker(x)
     PROVE  Same
  BY <1>0, <1>18 DEF TellAsker, connVars
<1>19. ASSUME NEW x \in Conn, TellP2P(x)
     PROVE  Same
  BY <1>0, <1>19 DEF TellP2P, connVars
<1>20. ASSUME NEW x \in Conn, Attach(x)
     PROVE  Same
  BY <1>0, <1>20 DEF Attach, connVars
<1>21. ASSUME NEW x \in Conn, Detach(x)
     PROVE  Same
  BY <1>0, <1>21 DEF Detach, connVars
<1>22. ASSUME NEW x \in Conn, LookupRoom(x)
     PROVE  Same
  BY <1>0, <1>22 DEF LookupRoom, connVars
<1>23. ASSUME NEW x \in Conn, JoinFirst(x)
     PROVE  Same
  BY <1>0, <1>23 DEF JoinFirst, connVars
<1>24. ASSUME NEW x \in Conn, JoinSecond(x)
     PROVE  Same
  BY <1>0, <1>24 DEF JoinSecond, connVars
<1>25. ASSUME NEW x \in Conn, JoinRefused(x)
     PROVE  Same
  BY <1>0, <1>25 DEF JoinRefused
<1>26. ASSUME NEW x \in Conn, LinkFirst(x)
     PROVE  Same
  BY <1>0, <1>26 DEF LinkFirst, connVars
<1>27. ASSUME NEW x \in Conn, LinkSecond(x)
     PROVE  Same
  BY <1>0, <1>27 DEF LinkSecond, connVars
<1>28. ASSUME NEW x \in Conn, TellFirst(x)
     PROVE  Same
  BY <1>0, <1>28 DEF TellFirst, connVars
<1>29. ASSUME NEW x \in Conn, TellSecond(x)
     PROVE  Same
  BY <1>0, <1>29 DEF TellSecond, connVars
<1>30. ASSUME NEW x \in Conn, LeaveRoom(x)
     PROVE  Same
  BY <1>0, <1>30 DEF LeaveRoom, connVars
<1>31. ASSUME NEW x \in Conn, Accept(x)
     PROVE  Same
  BY <1>0, <1>31 DEF Accept, connVars
<1>32. ASSUME NEW x \in Conn, HandlerExit(x)
     PROVE  Same
  BY <1>0, <1>32 DEF HandlerExit
<1>33. ASSUME NEW x \in Boxes, HandshakeQ1(x)
     PROVE  Same
  BY <1>0, <1>33 DEF HandshakeQ1, connVars
<1>34. ASSUME NEW x \in Boxes, HandshakeNoName(x)
     PROVE  Same
  BY <1>0, <1>34 DEF HandshakeNoName
<1>35. ASSUME NEW x \in Boxes, Answer(x)
     PROVE  Same
  BY <1>0, <1>35 DEF Answer, connVars
<1>36. ASSUME NEW x \in Boxes, NEW n \in Names, HandshakeQ2(x, n)
     PROVE  Same
  BY <1>0, <1>36 DEF HandshakeQ2, connVars
<1>37. ASSUME NEW x \in Boxes, NEW n \in Names, P2PUdpQ1(x, n)
     PROVE  Same
  BY <1>0, <1>37 DEF P2PUdpQ1, connVars
<1>38. ASSUME NEW x \in Boxes, NEW n \in Names, NEW r \in Rooms, SOpenQ(x, n, r)
     PROVE  Same
  BY <1>0, <1>38 DEF SOpenQ, connVars
<1>39. ASSUME NEW x \in Subs, NEW n \in Names \cup {Nil}, NEW r \in Rooms, TaskQ(x, n, r)
     PROVE  Same
  BY <1>0, <1>39 DEF TaskQ, connVars
<1>40. ASSUME CloseListener
     PROVE  Same
  BY <1>0, <1>40 DEF CloseListener, connVars
<1>41. ASSUME LockForClose
     PROVE  Same
  BY <1>0, <1>41 DEF LockForClose, connVars
<1>42. ASSUME NEW n \in Names, VisitName(n)
     PROVE  Same
  BY <1>0, <1>42 DEF VisitName
<1>43. ASSUME ClientClosed
     PROVE  Same
  BY <1>0, <1>43 DEF ClientClosed, connVars
<1>44. ASSUME UnlockAfterClose
     PROVE  Same
  BY <1>0, <1>44 DEF UnlockAfterClose, connVars
<1>45. CASE UNCHANGED closer
  BY <1>45
<1>46. QED
  BY <1>0, <1>1, <1>2, <1>3, <1>4, <1>5, <1>6, <1>7, <1>8, <1>9, <1>10, <1>11,
     <1>12, <1>13, <1>14, <1>15, <1>16, <1>17, <1>18, <1>19, <1>20, <1>21,
     <1>22, <1>23, <1>24, <1>25, <1>26, <1>27, <1>28, <1>29, <1>30, <1>31,
     <1>32, <1>33, <1>34, <1>35, <1>36, <1>37, <1>38, <1>39, <1>40, <1>41,
     <1>42, <1>43, <1>44, <1>45 DEF Next, Receive, ReceiveSub, Proceed,
     CloserStep, ServerClose, Terminated, vars, Expire, GcFires, GcStopped,
     connVars

\* The last step of ProxyServer.Close is the only one that shuts the server.
LEMMA ShutByUnlock ==
  ASSUME Next, ~UnlockAfterClose
  PROVE  srv = "done" <=> srv' = "done"
BY ConnectionKeeps, ServerKeeps DEF Next

\* Every step of the server is a step of the name table, or none.
LEMMA TableStep == ServerInv /\ [Next]_vars => [Table!TableNext]_(Table!tableVars)
<1> SUFFICES ASSUME ServerInv, [Next]_vars
             PROVE  [Table!TableNext]_(Table!tableVars)
  OBVIOUS
<1> USE DEF Table!tableVars
<1>0. /\ TypeOK /\ PlaceInv /\ RegistryInv /\ ShutdownInv
      /\ Boxes \subseteq Conn
  BY DEF ServerInv, Conn
<1>1. CASE UNCHANGED vars
  BY <1>1 DEF vars, connVars, regVars, srvVars
<1>2. ASSUME NEW c \in Conn, StoreClient(c)
      PROVE  Table!TableNext
  <2>1. /\ c \in Boxes /\ name[c] \in Names /\ step[c] = ProxyRegister
        /\ pc[c] = "regStore"
    BY <1>0, <1>2 DEF StoreClient, PlaceInv, PlaceOK, At, RegLabels
  <2>2. registry[name[c]] = Nil /\ closer[c] = "open"
    BY <1>0, <2>1 DEF RegistryInv, BoxOK, At
  <2>3. \A m \in Names : registry[m] # c
    <3> SUFFICES ASSUME NEW m \in Names, registry[m] = c PROVE FALSE
      OBVIOUS
    <3>1. c # Nil BY DisjointAssumption DEF Conn
    <3>2. Stored(c) BY <1>0, <3>1 DEF RegistryInv, RegisteredOK
    <3>3. QED BY <2>1, <3>2 DEF Stored, ProxyRegister, ProxyBusiness
  <2>4. Table!Enter(name[c], c)
    BY <1>2, <2>1, <2>2, <2>3 DEF StoreClient, Table!Enter, connVars, srvVars
  <2>5. QED BY <2>1, <2>4 DEF Table!TableNext
<1>3. ASSUME NEW c \in Conn, Unregister(c)
      PROVE  [Table!TableNext]_(Table!tableVars)
  <2>1. /\ closer[c] = "unreg" /\ closer' = [closer EXCEPT ![c] = "unlock"]
        /\ registry' = [n \in Names |-> IF n = name[c] THEN Nil ELSE registry[n]]
        /\ srv' = srv
    BY <1>3 DEF Unregister, CloserGoto, srvVars
  <2>2. CASE c \notin Boxes
    <3>1. name[c] = Nil BY <1>0, <2>2 DEF PlaceInv, PlaceOK
    <3>2. registry' = registry
      BY <1>0, <2>1, <3>1, DisjointAssumption DEF TypeOK
    <3>3. \A b \in Boxes : closer'[b] = closer[b] BY <1>0, <2>1, <2>2 DEF TypeOK
    <3>4. QED BY <2>1, <3>2, <3>3
  <2>3. CASE c \in Boxes
    <3>1. \A n \in Names : n = name[c] <=> registry[n] = c
      <4>1. c # Nil BY DisjointAssumption DEF Conn
      <4>2. ASSUME NEW n \in Names, registry[n] = c PROVE n = name[c]
        BY <1>0, <4>1, <4>2 DEF RegistryInv, RegisteredOK
      <4>3. ASSUME name[c] \in Names PROVE registry[name[c]] = c
        <5>1. Stored(c)
          BY <1>0, <2>1, <2>3, <4>3, DisjointAssumption DEF RegistryInv, BoxOK
        <5>2. QED BY <1>0, <2>1, <2>3, <5>1 DEF RegistryInv, LiveClientIsRegistered
      <4>4. QED BY <4>2, <4>3
    <3>2. registry' = [n \in Names |-> IF registry[n] = c THEN Nil ELSE registry[n]]
      BY <2>1, <3>1
    <3>3. \A b \in Boxes : closer'[b] = IF b = c THEN "unlock" ELSE closer[b]
      BY <1>0, <2>1 DEF TypeOK
    <3>4. {b \in Boxes : closer'[b] \in {"unlock", "done"}}
            = {b \in Boxes : closer[b] \in {"unlock", "done"}} \cup {c}
      BY <2>3, <3>3
    <3>5. Table!End(c) BY <2>1, <3>2, <3>4 DEF Table!End
    <3>6. QED BY <2>3, <3>5 DEF Table!TableNext
  <2>4. QED BY <2>2, <2>3
<1>4. ASSUME Next, ~ \E c \in Conn : StoreClient(c) \/ Unregister(c)
      PROVE  [Table!TableNext]_(Table!tableVars)
  <2>1. registry' = registry BY <1>4, RegistryTouched
  <2>2. \A c \in Boxes : closer'[c] \in {"unlock", "done"} <=> closer[c] \in {"unlock", "done"}
    BY <1>0, <1>4, EndedByUnregister
  <2>3. CASE UnlockAfterClose
    <3>1. /\ srv = "range" /\ todo = {} /\ srv' = "done"
      BY <2>3 DEF UnlockAfterClose
    <3>2. \A n \in Names : registry[n] = Nil
      BY <1>0, <3>1 DEF ShutdownInv
    <3>3. Table!Shut BY <2>1, <2>2, <3>1, <3>2 DEF Table!Shut
    <3>4. QED BY <3>3 DEF Table!TableNext
  <2>4. CASE ~UnlockAfterClose
    <3>1. srv = "done" <=> srv' = "done" BY <1>4, <2>4, ShutByUnlock
    <3>2. QED BY <2>1, <2>2, <3>1
  <2>5. QED BY <2>3, <2>4
<1>5. QED BY <1>1, <1>2, <1>3, <1>4

\* The server's registry implements the name table: no client is overwritten,
\* and none is taken out but by its own end (proxy_server.go:48, proxy_client.go:166).
THEOREM RegistryRefines == Spec => RegistryIsNameTable
<1>1. Init => Table!TableInit
  BY DEF Init, Conn, Table!TableInit
<1>2. ServerInv /\ [Next]_vars => [Table!TableNext]_(Table!tableVars)
  BY TableStep
<1>3. QED
  BY <1>1, <1>2, ServerInvariance, PTL DEF Spec, RegistryIsNameTable, Table!TableSpec

-----------------------------------------------------------------------------
(* Task rooms. *)

InRoom == {"join"} \cup HoldLabels

\* c's handler does something to a room, to the place c has in one or to a link.
RoomStep(c) ==
  \/ LookupRoom(c) \/ JoinFirst(c) \/ JoinSecond(c) \/ JoinRefused(c)
  \/ LinkFirst(c) \/ LinkSecond(c) \/ LeaveRoom(c)
  \/ c \in Boxes /\ \E n \in Names, r \in Rooms : SOpenQ(c, n, r)
  \/ c \in Subs /\ \E n \in Names \cup {Nil}, r \in Rooms : TaskQ(c, n, r)

\* Every other step of a handler, and every step of a close, leaves rooms and links
\* alone and takes nobody into a room.
LEMMA RoomsAlone ==
  ASSUME TypeOK, NEW c \in Conn, ~RoomStep(c),
         Accept(c) \/ HandlerExit(c) \/ (c \in Boxes /\ Receive(c))
         \/ (c \in Subs /\ ReceiveSub(c)) \/ Proceed(c) \/ CloserStep(c)
  PROVE  /\ UNCHANGED <<link, room, rooms, created, roomStep, c1, roomLock>>
         /\ \A d \in Conn : At(d, InRoom)' => At(d, InRoom)
<1> DEFINE Alone ==
      /\ UNCHANGED <<link, room, rooms, created, roomStep, c1, roomLock>>
      /\ \A d \in Conn : At(d, InRoom)' => At(d, InRoom)
<1> USE DEF elsewhere, others, roomVars, pcVars, locals, Goto, CallClose, Write,
            At, InRoom, HoldLabels, TypeOK
<1>1. CASE Accept(c) BY <1>1 DEF Accept
<1>2. CASE HandlerExit(c) BY <1>2 DEF HandlerExit
<1>3. CASE c \in Boxes /\ Receive(c)
  <2>1. CASE HandshakeQ1(c) BY <2>1 DEF HandshakeQ1
  <2>2. CASE HandshakeNoName(c) BY <2>2 DEF HandshakeNoName
  <2>3. CASE Answer(c) BY <2>3 DEF Answer
  <2>4. CASE \E n \in Names : HandshakeQ2(c, n) BY <2>4 DEF HandshakeQ2
  <2>5. CASE \E n \in Names : P2PUdpQ1(c, n) BY <2>5 DEF P2PUdpQ1
  <2>6. QED BY <1>3, <2>1, <2>2, <2>3, <2>4, <2>5 DEF Receive, RoomStep
<1>4. CASE c \in Subs /\ ReceiveSub(c) BY <1>4 DEF ReceiveSub, RoomStep
<1>5. CASE Proceed(c)
  <2>1. CASE CloseReturned(c) BY <2>1 DEF CloseReturned
  <2>2. CASE LockRegistry(c) BY <2>2 DEF LockRegistry
  <2>3. CASE StoreClient(c) BY <2>3 DEF StoreClient
  <2>4. CASE RegisterReply(c) BY <2>4 DEF RegisterReply
  <2>5. CASE RegisterDone(c) BY <2>5 DEF RegisterDone
  <2>6. CASE TellOdj(c) BY <2>6 DEF TellOdj
  <2>7. CASE TellAsker(c) BY <2>7 DEF TellAsker
  <2>8. CASE TellP2P(c) BY <2>8 DEF TellP2P
  <2>9. CASE Attach(c) BY <2>9 DEF Attach
  <2>10. CASE Detach(c) BY <2>10 DEF Detach
  <2>11. CASE TellFirst(c) BY <2>11 DEF TellFirst
  <2>12. CASE TellSecond(c) BY <2>12 DEF TellSecond
  <2>13. QED
    BY <1>5, <2>1, <2>2, <2>3, <2>4, <2>5, <2>6, <2>7, <2>8, <2>9, <2>10, <2>11, <2>12
       DEF Proceed, RoomStep
<1>6. CASE CloserStep(c)
  <2>1. UNCHANGED <<link, roomVars, pcVars, locals>>
    <3>1. CASE SetDisable(c) \/ SkipLink(c) \/ CheckLink(c) \/ CloseLink(c) \/ LinkClosed(c)
      BY <3>1 DEF SetDisable, SkipLink, CheckLink, CloseLink, LinkClosed
    <3>2. CASE LockSubs(c) \/ SubClosed(c) \/ SubsClosed(c) \/ UnlockSubs(c)
      BY <3>2 DEF LockSubs, SubClosed, SubsClosed, UnlockSubs
    <3>3. CASE \E s \in Subs : CloseSub(c, s) BY <3>3 DEF CloseSub
    <3>4. CASE Unregister(c) BY <3>4 DEF Unregister
    <3>5. QED BY <1>6, <3>1, <3>2, <3>3, <3>4 DEF CloserStep
  <2>2. QED BY <2>1
<1>7. QED BY <1>1, <1>2, <1>3, <1>4, <1>5, <1>6

\* So do the collector, but for the rooms it removes, and ProxyServer.Close.
LEMMA RoomsAloneToo ==
  ASSUME TypeOK,
         (\E r \in Rooms : Expire(r)) \/ GcStopped \/ CloseListener \/ ServerClose \/ Terminated
         \/ UNCHANGED vars
  PROVE  /\ UNCHANGED <<link, room, rooms, created, roomStep, c1, roomLock>>
         /\ \A d \in Conn : At(d, InRoom)' => At(d, InRoom)
<1>1. UNCHANGED <<link, room, rooms, created, roomStep, c1, roomLock, pc, ret>>
  <2> USE DEF roomVars, pcVars, locals
  <2>1. CASE \E r \in Rooms : Expire(r) BY <2>1 DEF Expire
  <2>2. CASE GcStopped \/ CloseListener BY <2>2 DEF GcStopped, CloseListener
  <2>3. CASE ServerClose
    BY <2>3 DEF ServerClose, LockForClose, VisitName, ClientClosed, UnlockAfterClose
  <2>4. CASE Terminated \/ UNCHANGED vars BY <2>4 DEF Terminated, vars
  <2>5. QED BY <2>1, <2>2, <2>3, <2>4
<1>2. QED BY <1>1 DEF At

\* What a step does to rooms and links is a step of RoomStep or of the collector.
LEMMA RoomsTouched ==
  ASSUME ServerInv, [Next]_vars
  PROVE  \/ \E c \in Conn : RoomStep(c)
         \/ GcFires
         \/ /\ UNCHANGED <<link, room, rooms, created, roomStep, c1, roomLock>>
            /\ \A d \in Conn : At(d, InRoom)' => At(d, InRoom)
BY RoomsAlone, RoomsAloneToo DEF Next, Conn, ServerInv

\* A link leads to another sub of the same room, and to or from the first of it.
RoomLinks ==
  /\ \A r \in Rooms : roomStep[r] = 0 => c1[r] = Nil
  /\ \A c \in Subs :
       link[c] # Nil => /\ link[c] # c /\ room[link[c]] = room[c]
                        /\ c1[room[c]] \in {c, link[c]}

\* A room has been handed out before anybody is in it, and is taken out of
\* proxyTaskRoomMap before it is full.
RoomUse ==
  /\ rooms \subseteq created
  /\ \A r \in Rooms : /\ roomStep[r] # 0 => r \in created
                      /\ roomStep[r] = 2 \/ roomLock[r] # Nil => r \notin rooms
  /\ \A c \in Subs : At(c, InRoom) => room[c] \in created

LEMMA RoomLinksStep ==
  ASSUME ServerInv, RoomLinks, [Next]_vars
  PROVE  RoomLinks'
<1>0. TypeOK /\ PlaceInv /\ RoomInv BY DEF ServerInv
<1>1. ASSUME NEW c \in Conn, JoinFirst(c) PROVE RoomLinks'
  <2>1. c \in Subs /\ room[c] \in Rooms
    BY <1>0, <1>1 DEF PlaceInv, PlaceOK, At, JoinLabels, JoinFirst
  <2>2. \A d \in Subs : link[d] # Nil => room[d] \in Rooms
    BY <1>0 DEF RoomInv, HoldsRoom, TypeOK, Conn
  <2> QED BY <1>0, <1>1, <2>1, <2>2, DisjointAssumption DEF JoinFirst, RoomLinks, TypeOK, locals, Conn
<1>2. ASSUME NEW c \in Conn, LinkFirst(c) PROVE RoomLinks'
  <2>1. /\ c \in Subs /\ room[c] \in Rooms /\ c1[room[c]] \in Subs /\ c1[room[c]] # c
        /\ room[c1[room[c]]] = room[c]
    BY <1>0, <1>2 DEF LinkFirst, PlaceInv, PlaceOK, RoomInv, HoldsRoom, FirstOK, At,
       JoinLabels, HoldLabels, TypeOK
  <2> QED BY <1>0, <1>2, <2>1, DisjointAssumption DEF LinkFirst, RoomLinks, TypeOK, roomVars, locals, Conn
<1>3. ASSUME NEW c \in Conn, LinkSecond(c) PROVE RoomLinks'
  <2>1. /\ c \in Subs /\ room[c] \in Rooms /\ c1[room[c]] \in Subs /\ c1[room[c]] # c
        /\ room[c1[room[c]]] = room[c]
    BY <1>0, <1>3 DEF LinkSecond, PlaceInv, PlaceOK, RoomInv, HoldsRoom, FirstOK, At,
       JoinLabels, HoldLabels, TypeOK
  <2> QED BY <1>0, <1>3, <2>1, DisjointAssumption DEF LinkSecond, RoomLinks, TypeOK, roomVars, locals, Conn
<1>4. ASSUME NEW c \in Conn, LeaveRoom(c) PROVE RoomLinks'
  BY <1>0, <1>4 DEF LeaveRoom, RoomLinks, TypeOK, locals
<1>5. ASSUME NEW c \in Subs, NEW n \in Names \cup {Nil}, NEW r \in Rooms, TaskQ(c, n, r)
      PROVE  RoomLinks'
  <2>1. link[c] = Nil /\ \A d \in Subs : link[d] # c
    BY <1>0, <1>5, DisjointAssumption DEF TaskQ, RoomInv, HoldsRoom, RoomLinks, TypeOK, Conn
  <2>2. /\ UNCHANGED <<link, c1, roomStep>> /\ room' = [room EXCEPT ![c] = r]
    BY <1>5 DEF TaskQ, elsewhere, roomVars
  <2> QED BY <1>0, <2>1, <2>2 DEF RoomLinks, TypeOK, Conn
<1>6. ASSUME UNCHANGED <<link, room, c1, roomStep>> PROVE RoomLinks'
  BY <1>6 DEF RoomLinks
<1>7. ASSUME NEW c \in Conn,
             \/ LookupRoom(c) \/ JoinSecond(c) \/ JoinRefused(c)
             \/ \E n \in Names, r \in Rooms : SOpenQ(c, n, r)
      PROVE  RoomLinks'
  <2>1. UNCHANGED <<link, room, c1, roomStep>>
    BY <1>7 DEF LookupRoom, JoinSecond, JoinRefused, SOpenQ, locals, elsewhere, roomVars
  <2> QED BY <2>1, <1>6
<1>8. CASE GcFires BY <1>8, <1>6 DEF GcFires, locals
<1> QED
  BY <1>1, <1>2, <1>3, <1>4, <1>5, <1>6, <1>7, <1>8, RoomsTouched DEF RoomStep

LEMMA RoomUseStep ==
  ASSUME ServerInv, RoomUse, [Next]_vars
  PROVE  RoomUse'
<1>0. TypeOK /\ PlaceInv /\ RoomInv BY DEF ServerInv
<1> USE DEF InRoom, Goto, CallClose
<1>1. ASSUME NEW c \in Conn, LookupRoom(c) PROVE RoomUse'
  <2>1. UNCHANGED <<room, rooms, created, roomStep, roomLock>>
    BY <1>1 DEF LookupRoom, locals, elsewhere, roomVars
  <2>2. \A d \in Subs : At(d, InRoom)' => At(d, InRoom) \/ (d = c /\ room[c] \in rooms)
    BY <1>0, <1>1 DEF LookupRoom, At, HoldLabels, TypeOK, Conn, locals, elsewhere, roomVars
  <2> QED BY <2>1, <2>2 DEF RoomUse
<1>2. ASSUME NEW c \in Conn, JoinFirst(c) PROVE RoomUse'
  <2>1. c \in Subs /\ room[c] \in Rooms /\ room[c] \in created
    BY <1>0, <1>2 DEF PlaceInv, PlaceOK, At, JoinLabels, JoinFirst, RoomUse
  <2>2. \A d \in Subs : At(d, InRoom)' => At(d, InRoom)
    BY <1>0, <1>2 DEF JoinFirst, At, HoldLabels, TypeOK
  <2>3. /\ roomStep' = [roomStep EXCEPT ![room[c]] = 1]
        /\ UNCHANGED <<room, rooms, created, roomLock>>
    BY <1>2 DEF JoinFirst, locals
  <2>4. \A r \in Rooms : roomStep'[r] = roomStep[r] \/ (r = room[c] /\ roomStep'[r] = 1)
    BY <1>0, <2>1, <2>3 DEF TypeOK
  <2> QED BY <2>1, <2>2, <2>3, <2>4 DEF RoomUse
<1>3. ASSUME NEW c \in Conn, JoinSecond(c) PROVE RoomUse'
  <2>1. c \in Subs /\ room[c] \in Rooms /\ room[c] \in created
    BY <1>0, <1>3 DEF PlaceInv, PlaceOK, At, JoinLabels, JoinSecond, RoomUse
  <2>2. \A d \in Subs : At(d, InRoom)' => At(d, InRoom)
    BY <1>0, <1>3 DEF JoinSecond, At, HoldLabels, TypeOK
  <2> QED BY <1>0, <1>3, <2>1, <2>2 DEF JoinSecond, RoomUse, TypeOK, locals
<1>4. ASSUME NEW c \in Conn, JoinRefused(c) PROVE RoomUse'
  <2>1. c \in Subs /\ room[c] \in Rooms /\ room[c] \in created
    BY <1>0, <1>4 DEF PlaceInv, PlaceOK, At, JoinLabels, JoinRefused, RoomUse
  <2>2. \A d \in Subs : At(d, InRoom)' => At(d, InRoom)
    BY <1>0, <1>4 DEF JoinRefused, At, HoldLabels, TypeOK
  <2> QED BY <1>0, <1>4, <2>1, <2>2 DEF JoinRefused, RoomUse, TypeOK, locals
<1>5. ASSUME NEW c \in Conn, LinkFirst(c) \/ LinkSecond(c) PROVE RoomUse'
  <2>1. UNCHANGED <<room, rooms, created, roomStep, roomLock>>
    BY <1>5 DEF LinkFirst, LinkSecond, locals, roomVars
  <2>2. \A d \in Subs : At(d, InRoom)' => At(d, InRoom)
    BY <1>0, <1>5 DEF LinkFirst, LinkSecond, At, HoldLabels, TypeOK, Conn
  <2> QED BY <2>1, <2>2 DEF RoomUse
<1>6. ASSUME NEW c \in Conn, LeaveRoom(c) PROVE RoomUse'
  <2>1. c \in Subs /\ room[c] \in Rooms /\ room[c] \in created /\ roomLock[room[c]] = c
    BY <1>0, <1>6 DEF PlaceInv, PlaceOK, RoomInv, HoldsRoom, At, JoinLabels, HoldLabels,
       LeaveRoom, RoomUse
  <2>2. room[c] \notin rooms BY <2>1, DisjointAssumption DEF RoomUse, Conn
  <2>3. \A d \in Subs : At(d, InRoom)' => At(d, InRoom)
    BY <1>0, <1>6 DEF LeaveRoom, At, HoldLabels, TypeOK
  <2> QED BY <1>0, <1>6, <2>1, <2>2, <2>3 DEF LeaveRoom, RoomUse, TypeOK, locals
<1>7. ASSUME NEW c \in Boxes, NEW n \in Names, NEW r \in Rooms, SOpenQ(c, n, r)
      PROVE  RoomUse'
  <2>1. /\ rooms' = rooms \cup {r} /\ created' = created \cup {r} /\ r \notin created
        /\ UNCHANGED <<room, roomStep, roomLock>>
    BY <1>7 DEF SOpenQ
  <2>2. \A d \in Subs : At(d, InRoom)' => At(d, InRoom)
    BY <1>0, <1>7 DEF SOpenQ, At, HoldLabels, TypeOK
  <2>3. roomStep[r] = 0 BY <2>1 DEF RoomUse
  <2>4. roomLock[r] = Nil
    BY <1>0, <2>1 DEF RoomInv, FirstOK, RoomUse, At, TypeOK
  <2>5. \A q \in Rooms : roomStep[q] = 2 \/ roomLock[q] # Nil => q \notin rooms'
    BY <2>1, <2>3, <2>4 DEF RoomUse
  <2>6. rooms' \subseteq created' /\ \A q \in Rooms : roomStep[q] # 0 => q \in created'
    BY <2>1 DEF RoomUse
  <2>7. \A d \in Subs : At(d, InRoom)' => room[d] \in created'
    BY <2>1, <2>2 DEF RoomUse
  <2> QED BY <2>1, <2>5, <2>6, <2>7 DEF RoomUse
<1>8. ASSUME NEW c \in Subs, NEW n \in Names \cup {Nil}, NEW r \in Rooms, TaskQ(c, n, r)
      PROVE  RoomUse'
  <2>1. /\ UNCHANGED <<rooms, created, roomStep, roomLock>> /\ room' = [room EXCEPT ![c] = r]
        /\ ~ At(c, InRoom)'
    BY <1>0, <1>8 DEF TaskQ, elsewhere, roomVars, At, HoldLabels, TypeOK, Conn
  <2>2. \A d \in Subs : At(d, InRoom)' => At(d, InRoom)
    BY <1>0, <1>8 DEF TaskQ, At, HoldLabels, TypeOK, Conn
  <2> QED BY <1>0, <2>1, <2>2 DEF RoomUse, TypeOK, Conn
<1>9. CASE GcFires BY <1>9 DEF GcFires, RoomUse, At, pcVars, locals
<1>10. ASSUME UNCHANGED <<room, rooms, created, roomStep, roomLock>>,
              \A d \in Conn : At(d, InRoom)' => At(d, InRoom)
       PROVE  RoomUse'
  BY <1>10 DEF RoomUse, Conn
<1> QED
  BY <1>1, <1>2, <1>3, <1>4, <1>5, <1>6, <1>7, <1>8, <1>9, <1>10, RoomsTouched DEF RoomStep

LEMMA RoomsInvariance == Spec => [](RoomLinks /\ RoomUse)
<1>1. Init => RoomLinks /\ RoomUse
  BY DisjointAssumption DEF Init, RoomLinks, RoomUse, At, InRoom, HoldLabels, Conn
<1>2. ServerInv /\ RoomLinks /\ RoomUse /\ [Next]_vars => (RoomLinks /\ RoomUse)'
  BY RoomLinksStep, RoomUseStep
<1>3. QED BY <1>1, <1>2, ServerInvariance, PTL DEF Spec

\* Two subs that are linked are in one room, and a room has one pair of them, however
\* many subs send its id in time to find it in proxyTaskRoomMap (proxy_task.go:24).
OnePairPerRoom ==
  \A c \in Subs :
    link[c] # Nil => /\ link[c] # c /\ room[link[c]] = room[c]
                     /\ \A d \in Subs :
                          link[d] # Nil /\ room[d] = room[c] => d \in {c, link[c]}

\* For every number of subs and rooms: who finds a room with one sub in it links with
\* that one, and whoever comes later finds it full (joinTaskRoom).
THEOREM RoomsLinkOnePair == Spec => []OnePairPerRoom
<1>1. ServerInv /\ RoomLinks => OnePairPerRoom
  <2> SUFFICES ASSUME ServerInv, RoomLinks, NEW c \in Subs, link[c] # Nil
               PROVE  /\ link[c] # c /\ room[link[c]] = room[c]
                      /\ \A d \in Subs :
                           link[d] # Nil /\ room[d] = room[c] => d \in {c, link[c]}
    BY DEF OnePairPerRoom
  <2>1. link[c] # c /\ room[link[c]] = room[c] /\ link[c] \in Subs
    BY DEF RoomLinks, ServerInv, TypeOK, Conn
  <2>2. room[c] \in Rooms
    BY DEF ServerInv, RoomInv, HoldsRoom, TypeOK, Conn
  <2> DEFINE a == c1[room[c]]
  <2>3. a \in {c, link[c]} /\ a # Nil
    BY <2>1, DisjointAssumption DEF RoomLinks, Conn
  <2>4. pc[a] # "link2"
    BY <2>2, <2>3 DEF ServerInv, RoomInv, FirstOK, At, JoinLabels, HoldLabels
  <2>5. ASSUME NEW d \in Subs, link[d] # Nil, room[d] = room[c], d # a PROVE link[a] = d
    BY <2>4, <2>5 DEF RoomLinks, ServerInv, LinksArePaired
  <2>6. ASSUME NEW d \in Subs, link[d] # Nil, room[d] = room[c] PROVE d \in {c, link[c]}
    <3>1. CASE d = a BY <2>3, <3>1
    <3>2. CASE d # a
      <4>1. link[a] = d BY <2>5, <2>6, <3>2
      <4>2. CASE a = c BY <4>1, <4>2
      <4>3. CASE a # c BY <2>5, <4>1, <4>3
      <4> QED BY <4>2, <4>3
    <3> QED BY <3>1, <3>2
  <2> QED BY <2>1, <2>6
<1>2. QED BY <1>1, ServerInvariance, RoomsInvariance, PTL

\* A room that is full is in proxyTaskRoomMap no more, and comes back under no SOpenQ:
\* who still joins it has looked it up before (proxy_task.go:24, :41).
FullRoomsAreGone == \A r \in Rooms : roomStep[r] = 2 => r \notin rooms /\ r \in created

\* For every number of subs and rooms: the second sub takes the room's id out of the
\* map before it unlocks the room (delTaskRoom), and newTaskRoom uses no id twice.
THEOREM FullRoomsStayGone == Spec => []FullRoomsAreGone
<1>1. RoomUse => FullRoomsAreGone BY DEF RoomUse, FullRoomsAreGone
<1>2. QED BY <1>1, RoomsInvariance, PTL
=============================================================================

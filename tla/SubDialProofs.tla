---------------------------- MODULE SubDialProofs ----------------------------
(***************************************************************************)
(* Two applications that were both given their end of a dial were given    *)
(* the ends of one link, whoever dials whom and whatever fails.            *)
(*                                                                         *)
(* Both can be given their end only by the one step in which the second    *)
(* side joins the room, which is also the one that links them (Promised).  *)
(* What has to be shown is that there is only one such step: a room that   *)
(* is full or collected must not be opened again.  That is the queue of    *)
(* requests: a dial is in it at most once, and its room is made when it    *)
(* comes first, before it is answered and leaves (Rooms).                  *)
(***************************************************************************)
EXTENDS SubDial, TLAPS, SequenceTheorems

\* A dial is asked for once, by its caller, and has no room until its turn comes.
Queued(b, i) ==
  LET d == request[b][i]
  IN  /\ d \in Active /\ case.from[d] = b /\ end[d]["caller"] # "none"
      /\ room[d] = "none" \/ (i = 1 /\ pushed[b])
      /\ \A j \in 1 .. Len(request[b]) : request[b][j] = d => j = i

Rooms ==
  /\ \A b \in Boxes : \A i \in 1 .. Len(request[b]) : Queued(b, i)
  /\ \A d \in Dials : end[d]["caller"] = "none" => room[d] = "none"

\* Who has been given a sub was promised it; both were promised it when they were linked.
Promised ==
  \A d \in Dials :
    /\ \A s \in Sides : /\ end[d][s] \in {"ok", "closed"} => told[d][s] = "ok"
                        /\ told[d][s] = "ok" => room[d] = "full"
    /\ (\A s \in Sides : told[d][s] = "ok") => link[d] = "live"

IInv == TypeOK /\ Rooms /\ Promised

-----------------------------------------------------------------------------
\* The dials that are made are between boxes the server knows.
LEMMA Actives == TypeOK => Active \subseteq Dials /\ \A d \in Active : case.from[d] \in Boxes
  BY CasesAssumption DEF TypeOK, Active

\* The request taken is the first; those left move up by one.
LEMMA Taken ==
  ASSUME NEW S, NEW q \in Seq(S), q # <<>>
  PROVE  /\ Head(q) = q[1] /\ Head(q) \in S /\ Tail(q) \in Seq(S)
         /\ Len(q) \in Nat \ {0} /\ Len(Tail(q)) = Len(q) - 1
         /\ \A i \in 1 .. Len(Tail(q)) : Tail(q)[i] = q[i + 1]
  BY HeadTailProperties, EmptySeq

\* A request made is the last; those before it stay where they are.
LEMMA Added ==
  ASSUME NEW S, NEW q \in Seq(S), NEW m \in S
  PROVE  /\ Append(q, m) \in Seq(S) /\ Len(q) \in Nat
         /\ Len(Append(q, m)) = Len(q) + 1 /\ Append(q, m)[Len(q) + 1] = m
         /\ \A i \in 1 .. Len(q) : Append(q, m)[i] = q[i]
  BY AppendProperties

\* A new request is the only one that is last.
LEMMA AddedFresh ==
  ASSUME NEW S, NEW q \in Seq(S), NEW m \in S, \A i \in 1 .. Len(q) : q[i] # m
  PROVE  LET r == Append(q, m)
         IN  \A j \in 1 .. Len(r) :
               \/ j = Len(q) + 1 /\ r[j] = m
               \/ j \in 1 .. Len(q) /\ r[j] = q[j] /\ r[j] # m
<1> DEFINE r == Append(q, m)
<1>1. /\ Len(q) \in Nat /\ Len(r) = Len(q) + 1 /\ r[Len(q) + 1] = m
      /\ \A i \in 1 .. Len(q) : r[i] = q[i]
  BY Added
<1> HIDE DEF r
<1>2. ASSUME NEW j \in 1 .. Len(r), j # Len(q) + 1 PROVE j \in 1 .. Len(q)
  BY <1>1, <1>2
<1> QED BY <1>1, <1>2 DEF r

\* What a reader takes is about a dial.
LEMMA Read ==
  ASSUME TypeOK, NEW b \in Boxes, inbox[b] # <<>>
  PROVE  Head(inbox[b]).dial \in Dials /\ Tail(inbox[b]) \in Seq(Messages)
<1>1. inbox[b] \in Seq(Messages) BY DEF TypeOK
<1>2. Head(inbox[b]) \in Messages /\ Tail(inbox[b]) \in Seq(Messages) BY <1>1, Taken
<1> QED BY <1>2 DEF Messages

\* An answer changes nothing, or moves on the caller that waits for it.
LEMMA AnswerRead ==
  ASSUME TypeOK, NEW b \in Boxes, ReadAnswer(b)
  PROVE  \E x \in Dials, e \in {"open", "failed"} :
           \/ end' = end
           \/ end[x]["caller"] = "asked" /\ end' = [end EXCEPT ![x]["caller"] = e]
<1> DEFINE m == Head(inbox[b])
<1>1. m.dial \in Dials BY Read DEF ReadAnswer
<1>2. \/ end' = end
      \/ /\ end[m.dial]["caller"] = "asked"
         /\ end' = [end EXCEPT ![m.dial]["caller"] = IF m.ok THEN "open" ELSE "failed"]
  BY DEF ReadAnswer, Becomes
<1> QED BY <1>1, <1>2

\* The first state satisfies the invariant.
LEMMA InitIInv == Init => IInv
<1> SUFFICES ASSUME Init PROVE IInv OBVIOUS
<1>1. TypeOK
  <2>1. request \in [Boxes -> Seq(Dials)] /\ inbox \in [Boxes -> Seq(Messages)]
    BY DEF Init
  <2>2. /\ pushed \in [Boxes -> BOOLEAN] /\ reader \in [Boxes -> Dials \cup {None}]
        /\ room \in [Dials -> {"none", "empty", "full", "deleted"} \cup Sides]
        /\ link \in [Dials -> {"no", "live", "stale"}] /\ case \in Cases
    BY DEF Init
  <2>3. end \in [Dials -> [Sides -> {"none", "asked", "open", "joining", "ok", "failed", "closed"}]]
    BY DEF Init
  <2>4. /\ srv \in [Dials -> [Sides -> {"none", "asked", "waiting", "linked", "stuck", "closed"}]]
        /\ told \in [Dials -> [Sides -> {"no", "ok", "bad"}]]
    BY DEF Init
  <2> QED BY <2>1, <2>2, <2>3, <2>4 DEF TypeOK
<1>2. Rooms
  <2>1. \A b \in Boxes : Len(request[b]) = 0 BY DEF Init
  <2> QED BY <2>1 DEF Init, Rooms
<1>3. Promised BY DEF Init, Promised, Sides
<1> QED BY <1>1, <1>2, <1>3 DEF IInv

\* Every action keeps the types.
LEMMA TypeStep ==
  ASSUME IInv, [Next]_vars
  PROVE  TypeOK'
<1> USE Actives DEF IInv, TypeOK, Becomes, Resume, boxes, subs
<1>1. ASSUME NEW b \in Boxes, ReadAnswer(b) PROVE TypeOK'
  <2>1. PICK x \in Dials, e \in {"open", "failed"} :
          \/ end' = end
          \/ end[x]["caller"] = "asked" /\ end' = [end EXCEPT ![x]["caller"] = e]
    BY <1>1, AnswerRead
  <2>2. UNCHANGED <<case, request, pushed, room, srv, told, link>> BY <1>1 DEF ReadAnswer
  <2>3. inbox' \in [Boxes -> Seq(Messages)] BY <1>1, Read DEF ReadAnswer
  <2>4. end' \in [Dials -> [Sides -> {"none", "asked", "open", "joining", "ok", "failed", "closed"}]]
    <3>1. CASE end' = end BY <3>1
    <3>2. CASE end' = [end EXCEPT ![x]["caller"] = e] BY <3>2 DEF Sides
    <3> QED BY <2>1, <3>1, <3>2
  <2> QED BY <1>1, <2>2, <2>3, <2>4 DEF ReadAnswer
<1>2. ASSUME NEW b \in Boxes, ReadPush(b) PROVE TypeOK'
  <2>1. Head(inbox[b]).dial \in Dials /\ Tail(inbox[b]) \in Seq(Messages)
    BY <1>2, Read DEF ReadPush
  <2> QED BY <1>2, <2>1 DEF ReadPush, Sides
<1>3. ASSUME NEW b \in Boxes, PushRoom(b) PROVE TypeOK'
  <2> DEFINE d == Head(request[b])
  <2>1. d \in Dials /\ case.to[d] \in Boxes BY <1>3, Taken DEF PushRoom
  <2>2. Push(d) \in Messages BY <2>1 DEF Push, Messages
  <2>3. Append(inbox[case.to[d]], Push(d)) \in Seq(Messages) BY <2>1, <2>2, Added
  <2> QED BY <1>3, <2>1, <2>3 DEF PushRoom
<1>4. ASSUME NEW b \in Boxes, AnswerAsker(b) PROVE TypeOK'
  <2> DEFINE m == Answer(Head(request[b]), pushed[b])
  <2>1. Head(request[b]) \in Dials /\ Tail(request[b]) \in Seq(Dials)
    BY <1>4, Taken DEF AnswerAsker
  <2>2. m \in Messages BY <2>1 DEF Answer, Messages
  <2>3. Append(inbox[b], m) \in Seq(Messages) BY <2>2, Added
  <2> QED BY <1>4, <2>1, <2>3 DEF AnswerAsker
<1>5. ASSUME NEW d \in Active, Ask(d) PROVE TypeOK'
  <2>1. Append(request[case.from[d]], d) \in Seq(Dials) BY Added
  <2> QED BY <1>5, <2>1 DEF Ask, Sides
<1>6. ASSUME NEW d \in Active, RoomCollected(d) PROVE TypeOK'
  BY <1>6 DEF RoomCollected
<1>7. ASSUME NEW d \in Active, AskTimesOut(d) PROVE TypeOK'
  BY <1>7 DEF AskTimesOut
<1>8. ASSUME NEW d \in Active, NEW s \in Sides, Connect(d, s) PROVE TypeOK'
  BY <1>8 DEF Connect
<1>9. ASSUME NEW d \in Active, NEW s \in Sides, ReadTold(d, s) PROVE TypeOK'
  BY <1>9 DEF ReadTold
<1>10. ASSUME NEW d \in Active, NEW s \in Sides, JoinTimesOut(d, s) PROVE TypeOK'
  BY <1>10 DEF JoinTimesOut
<1>11. ASSUME NEW d \in Active, NEW s \in Sides, JoinRefused(d, s) PROVE TypeOK'
  BY <1>11 DEF JoinRefused
<1>12. ASSUME NEW d \in Active, NEW s \in Sides, JoinFirst(d, s) PROVE TypeOK'
  BY <1>12 DEF JoinFirst
<1>13. ASSUME NEW d \in Active, NEW s \in Sides, JoinSecond(d, s) PROVE TypeOK'
  <2>1. PICK f \in [Sides -> {"linked", "closed"}], g \in [Sides -> {"no", "ok"}] :
          srv' = [srv EXCEPT ![d] = f] /\ told' = [told EXCEPT ![d] = g]
    BY <1>13 DEF JoinSecond
  <2>2. link' \in [Dials -> {"no", "live", "stale"}] /\ room' = [room EXCEPT ![d] = "full"]
    BY <1>13 DEF JoinSecond
  <2> QED BY <1>13, <2>1, <2>2 DEF JoinSecond
<1>14. ASSUME NEW d \in Active, NEW s \in Sides, SubEnds(d, s) PROVE TypeOK'
  BY <1>14 DEF SubEnds, CloseBoth
<1>15. ASSUME NEW d \in Active, NEW s \in Sides, ConnectFails(d, s) PROVE TypeOK'
  BY <1>15 DEF ConnectFails
<1>16. ASSUME NEW d \in Active, NEW s \in Sides, CloseSub(d, s) PROVE TypeOK'
  BY <1>16 DEF CloseSub
<1>17. ASSUME NEW d \in Active, NEW s \in Sides, SubLost(d, s) PROVE TypeOK'
  BY <1>17 DEF SubLost, CloseBoth
<1>18. ASSUME NEW d \in Active, NEW s \in Sides, WriteEnds(d, s) PROVE TypeOK'
  BY <1>18 DEF WriteEnds
<1>19. ASSUME NEW d \in Active, NEW s \in Sides, Stall(d, s) PROVE TypeOK'
  BY <1>19 DEF Stall
<1>20. ASSUME NEW d \in Active, NEW s \in Sides, Drain(d, s) PROVE TypeOK'
  BY <1>20 DEF Drain
<1>21. ASSUME NEW d \in Active, NEW s \in Sides, StuckFails(d, s) PROVE TypeOK'
  BY <1>21 DEF StuckFails, CloseBoth
<1>22. CASE UNCHANGED vars BY <1>22 DEF vars
<1> QED
  BY <1>1, <1>2, <1>3, <1>4, <1>5, <1>6, <1>7, <1>8, <1>9, <1>10, <1>11, <1>12, <1>13, <1>14, <1>15,
     <1>16, <1>17, <1>18, <1>19, <1>20, <1>21, <1>22
     DEF Next, BoxStep, ServerStep, SubStep, Timer, JoinStep

\* A room is made only for a request that comes first, and only once for it.
LEMMA RoomsStep ==
  ASSUME IInv, [Next]_vars
  PROVE  Rooms'
<1> USE Actives DEF IInv, TypeOK, Rooms, Queued, Becomes, Resume, boxes, subs
<1>0. case' = case => Active' = Active BY DEF Active
<1>1. ASSUME NEW b \in Boxes, ReadAnswer(b) PROVE Rooms'
  <2>1. PICK x \in Dials, e \in {"open", "failed"} :
          \/ end' = end
          \/ end[x]["caller"] = "asked" /\ end' = [end EXCEPT ![x]["caller"] = e]
    BY <1>1, AnswerRead
  <2>2. UNCHANGED <<case, request, pushed, room, srv, told, link>> BY <1>1 DEF ReadAnswer
  <2>3. \A y \in Dials : end'[y]["caller"] # "none" <=> end[y]["caller"] # "none"
    <3>1. CASE end' = end BY <3>1
    <3>2. CASE end[x]["caller"] = "asked" /\ end' = [end EXCEPT ![x]["caller"] = e]
      BY <3>2 DEF Sides
    <3> QED BY <2>1, <3>1, <3>2
  <2>4. Active' = Active BY <1>0, <2>2
  <2>5. \A c \in Boxes : \A i \in 1 .. Len(request'[c]) : Queued(c, i)'
    <3> SUFFICES ASSUME NEW c \in Boxes, NEW i \in 1 .. Len(request[c]) PROVE Queued(c, i)'
      BY <2>2
    <3>1. request[c][i] \in Dials BY ElementOfSeq
    <3> QED BY <2>2, <2>3, <2>4, <3>1
  <2> QED BY <2>2, <2>3, <2>5
<1>2. ASSUME NEW b \in Boxes, ReadPush(b) PROVE Rooms'
  BY <1>2, <1>0 DEF ReadPush
<1>3. ASSUME NEW b \in Boxes, PushRoom(b) PROVE Rooms'
  BY <1>3, <1>0 DEF PushRoom
<1>4. ASSUME NEW b \in Boxes, AnswerAsker(b) PROVE Rooms'
  BY <1>4, <1>0 DEF AnswerAsker
<1>5. ASSUME NEW d \in Active, Ask(d) PROVE Rooms'
  <2> DEFINE c == case.from[d]
  <2>1. /\ Len(request[c]) \in Nat /\ request'[c][Len(request[c]) + 1] = d
        /\ Len(request'[c]) = Len(request[c]) + 1
        /\ \A i \in 1 .. Len(request[c]) : request'[c][i] = request[c][i]
    BY <1>5, Added DEF Ask
  <2>2. \A i \in 1 .. Len(request[c]) : request[c][i] # d BY <1>5 DEF Ask
  <2>3. \A x \in Dials : end'[x]["caller"] # "none" <=> end[x]["caller"] # "none" \/ x = d
    BY <1>5 DEF Ask, Sides
  <2>4. room[d] = "none" BY <1>5 DEF Ask
  <2>7. UNCHANGED <<case, room, pushed>> BY <1>5 DEF Ask
  <2> SUFFICES ASSUME NEW b \in Boxes, NEW i \in 1 .. Len(request'[b]) PROVE Queued(b, i)'
    BY <1>5, <2>3, <2>7
  <2>8. \A j \in 1 .. Len(request'[c]) :
          \/ j = Len(request[c]) + 1 /\ request'[c][j] = d
          \/ j \in 1 .. Len(request[c]) /\ request'[c][j] = request[c][j] /\ request'[c][j] # d
    <3>1. request[c] \in Seq(Dials) /\ d \in Dials /\ request'[c] = Append(request[c], d)
      BY <1>5 DEF Ask
    <3>2. \A j \in 1 .. Len(Append(request[c], d)) :
            \/ j = Len(request[c]) + 1 /\ Append(request[c], d)[j] = d
            \/ /\ j \in 1 .. Len(request[c]) /\ Append(request[c], d)[j] = request[c][j]
               /\ Append(request[c], d)[j] # d
      <4> HIDE DEF c, IInv, TypeOK, Rooms
      <4> QED BY ONLY <2>2, <3>1, AddedFresh
    <3> QED BY ONLY <3>1, <3>2, Zenon
  <2>5. CASE b # c BY <1>5, <1>0, <2>3, <2>5, <2>7 DEF Ask
  <2>6. CASE b = c
    <3>1. CASE i = Len(request[c]) + 1
      <4>1. request'[b][i] = d BY <2>1, <2>6, <3>1
      <4>2. \A j \in 1 .. Len(request'[b]) : request'[b][j] = d => j = i
        BY <2>6, <2>8, <3>1
      <4> QED BY <1>0, <2>3, <2>4, <2>6, <2>7, <4>1, <4>2
    <3>2. CASE i # Len(request[c]) + 1
      <4>1. i \in 1 .. Len(request[c]) /\ request'[c][i] = request[c][i]
        BY <2>1, <2>6, <3>2
      <4>2. Queued(b, i) /\ request[b][i] # d BY <2>2, <2>6, <4>1
      <4>3. request'[b][i] = request[b][i] BY <2>6, <4>1
      <4>5. \A j \in 1 .. Len(request[b]) : request[b][j] = request[b][i] => j = i
        BY <2>6, <4>1
      <4>4. \A j \in 1 .. Len(request'[b]) : request'[b][j] = request[b][i] => j = i
        <5> SUFFICES ASSUME NEW j \in 1 .. Len(request'[c]), request'[c][j] = request[c][i]
                     PROVE  j = i
          BY <2>6
        <5>1. j \in 1 .. Len(request[c]) /\ request'[c][j] = request[c][j] BY <2>6, <2>8, <4>2, Zenon
        <5> QED BY <2>6, <4>5, <5>1, Zenon
      <4> QED BY <1>0, <2>3, <2>7, <4>2, <4>3, <4>4
    <3> QED BY <3>1, <3>2
  <2> QED BY <2>5, <2>6
<1>6. ASSUME NEW d \in Active, RoomCollected(d) PROVE Rooms'
  <2>1. \A x \in Dials : room[x] = "none" => room'[x] = "none"
    BY <1>6 DEF RoomCollected, Sides
  <2> QED BY <1>6, <1>0, <2>1 DEF RoomCollected
<1>7. ASSUME NEW d \in Active, AskTimesOut(d) PROVE Rooms'
  BY <1>7, <1>0 DEF AskTimesOut
<1>8. ASSUME NEW d \in Active, NEW s \in Sides, Connect(d, s) PROVE Rooms'
  BY <1>8, <1>0 DEF Connect
<1>9. ASSUME NEW d \in Active, NEW s \in Sides, ReadTold(d, s) PROVE Rooms'
  BY <1>9, <1>0 DEF ReadTold
<1>10. ASSUME NEW d \in Active, NEW s \in Sides, JoinTimesOut(d, s) PROVE Rooms'
  BY <1>10, <1>0 DEF JoinTimesOut
<1>11. ASSUME NEW d \in Active, NEW s \in Sides, JoinRefused(d, s) PROVE Rooms'
  BY <1>11, <1>0 DEF JoinRefused
<1>12. ASSUME NEW d \in Active, NEW s \in Sides, JoinFirst(d, s) PROVE Rooms'
  BY <1>12, <1>0 DEF JoinFirst
<1>13. ASSUME NEW d \in Active, NEW s \in Sides, JoinSecond(d, s) PROVE Rooms'
  <2>1. room[d] \in Sides BY <1>13 DEF JoinSecond, Partner, Sides
  <2>2. \A x \in Dials : room[x] = "none" => room'[x] = "none"
    BY <1>13, <2>1 DEF JoinSecond, Sides
  <2> QED BY <1>13, <1>0, <2>2 DEF JoinSecond
<1>14. ASSUME NEW d \in Active, NEW s \in Sides, SubEnds(d, s) PROVE Rooms'
  BY <1>14, <1>0 DEF SubEnds, CloseBoth
<1>15. ASSUME NEW d \in Active, NEW s \in Sides, ConnectFails(d, s) PROVE Rooms'
  BY <1>15, <1>0 DEF ConnectFails
<1>16. ASSUME NEW d \in Active, NEW s \in Sides, CloseSub(d, s) PROVE Rooms'
  BY <1>16, <1>0 DEF CloseSub
<1>17. ASSUME NEW d \in Active, NEW s \in Sides, SubLost(d, s) PROVE Rooms'
  BY <1>17, <1>0 DEF SubLost, CloseBoth
<1>18. ASSUME NEW d \in Active, NEW s \in Sides, WriteEnds(d, s) PROVE Rooms'
  BY <1>18, <1>0 DEF WriteEnds
<1>19. ASSUME NEW d \in Active, NEW s \in Sides, Stall(d, s) PROVE Rooms'
  BY <1>19, <1>0 DEF Stall
<1>20. ASSUME NEW d \in Active, NEW s \in Sides, Drain(d, s) PROVE Rooms'
  BY <1>20, <1>0 DEF Drain
<1>21. ASSUME NEW d \in Active, NEW s \in Sides, StuckFails(d, s) PROVE Rooms'
  BY <1>21, <1>0 DEF StuckFails, CloseBoth
<1>22. CASE UNCHANGED vars BY <1>22, <1>0 DEF vars
<1> QED
  BY <1>1, <1>2, <1>3, <1>4, <1>5, <1>6, <1>7, <1>8, <1>9, <1>10, <1>11, <1>12, <1>13, <1>14, <1>15,
     <1>16, <1>17, <1>18, <1>19, <1>20, <1>21, <1>22
     DEF Next, BoxStep, ServerStep, SubStep, Timer, JoinStep

\* Only the second to join promises anything, and a full room stays full.
LEMMA PromisedStep ==
  ASSUME IInv, [Next]_vars
  PROVE  Promised'
<1> USE Actives DEF IInv, TypeOK, Promised, Becomes, Resume, Sides, boxes, subs
<1>1. ASSUME NEW b \in Boxes, ReadAnswer(b) PROVE Promised'
  <2>1. PICK x \in Dials, e \in {"open", "failed"} :
          \/ end' = end
          \/ end[x]["caller"] = "asked" /\ end' = [end EXCEPT ![x]["caller"] = e]
    BY <1>1, AnswerRead
  <2>2. UNCHANGED <<case, request, pushed, room, srv, told, link>> BY <1>1 DEF ReadAnswer
  <2>3. \A y \in Dials, s \in Sides : end'[y][s] \in {"ok", "closed"} => end[y][s] = end'[y][s]
    <3>1. CASE end' = end BY <3>1
    <3>2. CASE end' = [end EXCEPT ![x]["caller"] = e] BY <3>2
    <3> QED BY <2>1, <3>1, <3>2
  <2> QED BY <2>2, <2>3
<1>2. ASSUME NEW b \in Boxes, ReadPush(b) PROVE Promised'
  BY <1>2 DEF ReadPush
<1>3. ASSUME NEW b \in Boxes, PushRoom(b) PROVE Promised'
  <2> DEFINE d == Head(request[b])
  <2>1. d = request[b][1] /\ 1 \in 1 .. Len(request[b]) /\ d \in Dials
    BY <1>3, Taken DEF PushRoom
  <2>2. room[d] = "none" BY <1>3, <2>1 DEF PushRoom, Rooms, Queued
  <2>3. \A x \in Dials : room[x] = "full" => room'[x] = "full" BY <1>3, <2>1, <2>2 DEF PushRoom
  <2> QED BY <1>3, <2>3 DEF PushRoom
<1>4. ASSUME NEW b \in Boxes, AnswerAsker(b) PROVE Promised'
  BY <1>4 DEF AnswerAsker
<1>5. ASSUME NEW d \in Active, Ask(d) PROVE Promised'
  BY <1>5 DEF Ask
<1>6. ASSUME NEW d \in Active, RoomCollected(d) PROVE Promised'
  BY <1>6 DEF RoomCollected
<1>7. ASSUME NEW d \in Active, AskTimesOut(d) PROVE Promised'
  BY <1>7 DEF AskTimesOut
<1>8. ASSUME NEW d \in Active, NEW s \in Sides, Connect(d, s) PROVE Promised'
  BY <1>8 DEF Connect
<1>9. ASSUME NEW d \in Active, NEW s \in Sides, ReadTold(d, s) PROVE Promised'
  BY <1>9 DEF ReadTold
<1>10. ASSUME NEW d \in Active, NEW s \in Sides, JoinTimesOut(d, s) PROVE Promised'
  BY <1>10 DEF JoinTimesOut
<1>11. ASSUME NEW d \in Active, NEW s \in Sides, JoinRefused(d, s) PROVE Promised'
  BY <1>11 DEF JoinRefused
<1>12. ASSUME NEW d \in Active, NEW s \in Sides, JoinFirst(d, s) PROVE Promised'
  BY <1>12 DEF JoinFirst
<1>13. ASSUME NEW d \in Active, NEW s \in Sides, JoinSecond(d, s) PROVE Promised'
  <2> DEFINE open == {t \in Sides : srv[d][t] # "closed"}
  <2>1. room[d] \in Sides /\ room' = [room EXCEPT ![d] = "full"] /\ end' = end
    BY <1>13 DEF JoinSecond, Partner
  <2>2. \A t \in Sides : told[d][t] # "ok" /\ end[d][t] \notin {"ok", "closed"}
    BY <2>1
  <2>3. /\ \A x \in Dials \ {d} : told'[x] = told[x]
        /\ \A t \in Sides : told'[d][t] = "ok" => t \in open
    BY <1>13 DEF JoinSecond
  <2>4. link' = [link EXCEPT ![d] = IF open = Sides THEN "live" ELSE "stale"]
    BY <1>13 DEF JoinSecond
  <2>5. (\A t \in Sides : told'[d][t] = "ok") => link'[d] = "live" BY <2>3, <2>4
  <2> QED BY <2>1, <2>2, <2>3, <2>4, <2>5
<1>14. ASSUME NEW d \in Active, NEW s \in Sides, SubEnds(d, s) PROVE Promised'
  BY <1>14 DEF SubEnds, CloseBoth
<1>15. ASSUME NEW d \in Active, NEW s \in Sides, ConnectFails(d, s) PROVE Promised'
  BY <1>15 DEF ConnectFails
<1>16. ASSUME NEW d \in Active, NEW s \in Sides, CloseSub(d, s) PROVE Promised'
  BY <1>16 DEF CloseSub
<1>17. ASSUME NEW d \in Active, NEW s \in Sides, SubLost(d, s) PROVE Promised'
  BY <1>17 DEF SubLost, CloseBoth
<1>18. ASSUME NEW d \in Active, NEW s \in Sides, WriteEnds(d, s) PROVE Promised'
  BY <1>18 DEF WriteEnds
<1>19. ASSUME NEW d \in Active, NEW s \in Sides, Stall(d, s) PROVE Promised'
  BY <1>19 DEF Stall
<1>20. ASSUME NEW d \in Active, NEW s \in Sides, Drain(d, s) PROVE Promised'
  BY <1>20 DEF Drain
<1>21. ASSUME NEW d \in Active, NEW s \in Sides, StuckFails(d, s) PROVE Promised'
  BY <1>21 DEF StuckFails, CloseBoth
<1>22. CASE UNCHANGED vars BY <1>22 DEF vars
<1>23. CASE Next
  <2> HIDE DEF IInv, TypeOK, Promised, Becomes, Resume, boxes, subs
  <2> QED
    BY <1>1, <1>2, <1>3, <1>4, <1>5, <1>6, <1>7, <1>8, <1>9, <1>10, <1>11, <1>12, <1>13, <1>14, <1>15,
       <1>16, <1>17, <1>18, <1>19, <1>20, <1>21, <1>23
       DEF Next, BoxStep, ServerStep, SubStep, Timer, JoinStep
<1> QED BY <1>22, <1>23

-----------------------------------------------------------------------------
\* IInv holds in every state of every run.
THEOREM Invariant == Spec => []IInv
<1>1. IInv /\ [Next]_vars => IInv'
  BY TypeStep, RoomsStep, PromisedStep DEF IInv
<1> QED BY InitIInv, <1>1, PTL DEF Spec

\* Every variable keeps its type: what waits in a queue or on a connection is
\* always about a dial, and nothing else is read from it.
THEOREM TypesOK == Spec => []TypeOK
<1>1. IInv => TypeOK BY DEF IInv
<1> QED BY <1>1, Invariant, PTL

\* When GetSubBox and listenSub have given both applications their sub, the server
\* has linked the two: what one writes the other can read.
THEOREM GivenSubsAreLinked == Spec => []BothGivenMeansLinked
<1>1. IInv => BothGivenMeansLinked
  BY DEF IInv, TypeOK, Promised, BothGivenMeansLinked
<1> QED BY <1>1, Invariant, PTL
=============================================================================

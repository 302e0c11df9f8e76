--------------------------- MODULE UdpPunchProofs ---------------------------
(***************************************************************************)
(* A hole is between the two sides of one session, and open, for every     *)
(* number of tries and whatever the network loses, repeats or holds back.  *)
(*                                                                         *)
(* Neither property is inductive.  That no side hears itself or a stranger *)
(* needs every address a side holds, in the answer or in the callback, to  *)
(* be the other side's (Addressed), which comes of the two addresses the   *)
(* server records being of two sides; and every datagram with the id of    *)
(* the session that names a receiver to come from outside the session or   *)
(* from a side that has knocked (Sent).  That the id was sent often enough *)
(* needs the turns that are left to make up for the knocks not made yet,   *)
(* less the one turn a heard id uses up (Turns).                           *)
(***************************************************************************)
EXTENDS UdpPunch, TLAPS, FiniteSetTheorems

\* Who has been given an address has been given the other side's, and has
\* been given one from the callback on.
Addressed ==
  \A s \in Sides :
    /\ info[s] \in {None, Other(s)} /\ answer[s] \in {None, Other(s)}
    /\ reader[s] # "free" \/ told[s] \/ pc[s] \in {"punch", "punched"} => info[s] # None

\* A datagram with the id of this session, sent to a side by a side, is a knock.
Sent ==
  \A d \in udp : d.kid /\ d.to # None /\ d.src # None => knocks[d.src] > 0

\* Who has heard something has heard the other side, and nobody else gets through.
HeardKnock ==
  \A s \in Sides : /\ ~ timeout[s] => knocks[Other(s)] > 0
                   /\ pc[s] = "punched" => ~ timeout[s]

\* What is left of the turns completes the knocks.
Turns ==
  \A s \in Sides :
    /\ pc[s] \in {"idle", "wait"} => knocks[s] = 0
    /\ pc[s] = "punch" =>
         knocks[s] + turns[s] = IF ear[s] = "gone" THEN Tries - 1 ELSE Tries
    /\ pc[s] = "punched" => knocks[s] >= Tries - 1

IInv == TypeOK /\ Addressed /\ Sent /\ HeardKnock /\ Turns

-----------------------------------------------------------------------------
\* A side has exactly one other.
LEMMA OtherSide ==
  ASSUME NEW s \in Sides
  PROVE  /\ Other(s) \in Sides /\ Other(s) # s /\ Other(s) # None
         /\ \A o \in Sides : o # s => o = Other(s)
<1> DEFINE Rest == Sides \ {s}
<1>1. IsFiniteSet(Rest) /\ Cardinality(Rest) = 1
  BY SidesAssumption, FS_RemoveElement
<1>2. PICK o : Rest = {o} BY <1>1, FS_Singleton
<1>3. o \in Sides /\ o # s BY <1>2
<1>4. Other(s) \in Sides /\ Other(s) # s BY <1>3 DEF Other
<1>5. \A x \in Sides : x # s => x = o BY <1>2
<1> QED BY <1>4, <1>5, SidesAssumption

\* The first state satisfies the invariant.
LEMMA InitIInv == Init => IInv
<1> SUFFICES ASSUME Init PROVE IInv OBVIOUS
<1>1. TypeOK
  <2>1. Strays \subseteq [to : Sides \cup {None}, src : Sides \cup {None}, kid : BOOLEAN]
    BY DEF Strays
  <2> QED BY <2>1, TriesAssumption DEF Init, TypeOK
<1>2. Addressed BY DEF Init, Addressed
<1>3. Sent BY DEF Init, Sent, Strays
<1>4. HeardKnock BY DEF Init, HeardKnock
<1>5. Turns BY DEF Init, Turns
<1> QED BY <1>1, <1>2, <1>3, <1>4, <1>5 DEF IInv

\* Every action keeps the types: the turns bound the knocks.
LEMMA TypeStep ==
  ASSUME IInv, [Next]_vars
  PROVE  TypeOK'
<1> USE TriesAssumption DEF IInv, TypeOK, Is, request, punch, server
<1>1. ASSUME NEW s \in Sides, Start(s) PROVE TypeOK'
  BY <1>1 DEF Start
<1>2. ASSUME NEW s \in Sides, Punch(s) PROVE TypeOK'
  BY <1>2 DEF Punch
<1>3. ASSUME NEW s \in Sides, GiveUp(s) PROVE TypeOK'
  BY <1>3 DEF GiveUp
<1>4. ASSUME NEW s \in Sides, Offer(s) PROVE TypeOK'
  <2>1. OfferOf(s) \in [to : Sides \cup {None}, src : Sides \cup {None}, kid : BOOLEAN]
    BY DEF OfferOf
  <2> QED BY <1>4, <2>1 DEF Offer
<1>5. ASSUME NEW s \in Sides, OfferFails(s) PROVE TypeOK'
  BY <1>5 DEF OfferFails
<1>6. ASSUME NEW s \in Sides, TakeStop(s) PROVE TypeOK'
  BY <1>6 DEF TakeStop
<1>7. ASSUME NEW s \in Sides, Answered(s) PROVE TypeOK'
  <2>1. CASE stored[s] BY <1>7, <2>1 DEF Answered
  <2>2. CASE ~ stored[s] BY <1>7, <2>2 DEF Answered
  <2> QED BY <2>1, <2>2
<1>8. ASSUME NEW s \in Sides, Report(s) PROVE TypeOK'
  BY <1>8 DEF Report
<1>9. ASSUME NEW s \in Sides, Knock(s) PROVE TypeOK'
  <2>1. KnockOf(s) \in [to : Sides \cup {None}, src : Sides \cup {None}, kid : BOOLEAN]
    BY DEF KnockOf
  <2>2. knocks[s] + 1 \in 0 .. Tries BY <1>9 DEF Knock, Turns
  <2> QED BY <1>9, <2>1, <2>2 DEF Knock
<1>10. ASSUME NEW s \in Sides, KnockFails(s) PROVE TypeOK'
  BY <1>10 DEF KnockFails
<1>11. ASSUME NEW s \in Sides, Heard(s) PROVE TypeOK'
  BY <1>11 DEF Heard
<1>12. ASSUME NEW s \in Sides, Decide(s) PROVE TypeOK'
  BY <1>12 DEF Decide
<1>13. ASSUME NEW s \in Sides, Hear(s) PROVE TypeOK'
  BY <1>13 DEF Hear
<1>14. ASSUME NEW s \in Sides, EarStops(s) PROVE TypeOK'
  BY <1>14 DEF EarStops
<1>15. ASSUME NEW s \in Sides, EarFails(s) PROVE TypeOK'
  BY <1>15 DEF EarFails
<1>16. ASSUME NEW s \in Sides, ServeOffer(s) PROVE TypeOK'
  <2>1. answer' \in [Sides -> Sides \cup {None}]
    <3>1. CASE UNCHANGED answer BY <3>1
    <3>2. CASE first \notin {None, s} /\ second' = s
               /\ answer' = [answer EXCEPT ![first] = IF first \in online THEN second' ELSE @,
                                           ![s] = first]
      BY <3>2
    <3> QED BY <1>16, <3>1, <3>2 DEF ServeOffer
  <2> QED BY <1>16, <2>1 DEF ServeOffer
<1>17. ASSUME NEW s \in Sides, Disconnect(s) PROVE TypeOK'
  BY <1>17 DEF Disconnect
<1>18. CASE Expire BY <1>18 DEF Expire
<1>19. CASE UNCHANGED vars BY <1>19 DEF vars
<1> QED
  BY <1>1, <1>2, <1>3, <1>4, <1>5, <1>6, <1>7, <1>8, <1>9, <1>10, <1>11, <1>12, <1>13, <1>14, <1>15, <1>16, <1>17, <1>18, <1>19
     DEF Next, Waiter, Offerer, Reader, Puncher, Ear

\* Only the pairing makes addresses, and only the answer spreads them.  The two addresses
\* recorded are of two sides since the second offer comes from another than the first.
LEMMA AddressedStep ==
  ASSUME IInv, [Next]_vars
  PROVE  Addressed'
<1> USE SidesAssumption, OtherSide
    DEF IInv, TypeOK, Addressed, Is, request, punch, server
<1>1. ASSUME NEW s \in Sides, Start(s) PROVE Addressed'
  BY <1>1 DEF Start
<1>2. ASSUME NEW s \in Sides, Punch(s) PROVE Addressed'
  BY <1>2 DEF Punch
<1>3. ASSUME NEW s \in Sides, GiveUp(s) PROVE Addressed'
  BY <1>3 DEF GiveUp
<1>4. ASSUME NEW s \in Sides, Offer(s) PROVE Addressed'
  BY <1>4 DEF Offer
<1>5. ASSUME NEW s \in Sides, OfferFails(s) PROVE Addressed'
  BY <1>5 DEF OfferFails
<1>6. ASSUME NEW s \in Sides, TakeStop(s) PROVE Addressed'
  BY <1>6 DEF TakeStop
<1>7. ASSUME NEW s \in Sides, Answered(s) PROVE Addressed'
  BY <1>7 DEF Answered
<1>8. ASSUME NEW s \in Sides, Report(s) PROVE Addressed'
  BY <1>8 DEF Report
<1>9. ASSUME NEW s \in Sides, Knock(s) PROVE Addressed'
  BY <1>9 DEF Knock
<1>10. ASSUME NEW s \in Sides, KnockFails(s) PROVE Addressed'
  BY <1>10 DEF KnockFails
<1>11. ASSUME NEW s \in Sides, Heard(s) PROVE Addressed'
  BY <1>11 DEF Heard
<1>12. ASSUME NEW s \in Sides, Decide(s) PROVE Addressed'
  BY <1>12 DEF Decide
<1>13. ASSUME NEW s \in Sides, Hear(s) PROVE Addressed'
  BY <1>13 DEF Hear
<1>14. ASSUME NEW s \in Sides, EarStops(s) PROVE Addressed'
  BY <1>14 DEF EarStops
<1>15. ASSUME NEW s \in Sides, EarFails(s) PROVE Addressed'
  BY <1>15 DEF EarFails
<1>16. ASSUME NEW s \in Sides, ServeOffer(s) PROVE Addressed'
  <2>1. \A c \in Sides : answer'[c] \in {None, Other(c)}
    <3>1. CASE UNCHANGED answer BY <3>1
    <3>2. CASE first \notin {None, s} /\ second' = s
               /\ answer' = [answer EXCEPT ![first] = IF first \in online THEN second' ELSE @,
                                           ![s] = first]
      <4>1. first \in Sides /\ first = Other(s) /\ s = Other(first) BY <3>2, OtherSide
      <4>2. answer'[s] = first /\ answer'[first] \in {s, answer[first]}
            /\ \A c \in Sides \ {s, first} : answer'[c] = answer[c]
        BY <3>2, <4>1
      <4> QED BY <4>1, <4>2
    <3> QED BY <1>16, <3>1, <3>2 DEF ServeOffer
  <2> QED BY <1>16, <2>1 DEF ServeOffer
<1>17. ASSUME NEW s \in Sides, Disconnect(s) PROVE Addressed'
  BY <1>17 DEF Disconnect
<1>18. CASE Expire BY <1>18 DEF Expire
<1>19. CASE UNCHANGED vars BY <1>19 DEF vars
<1> QED
  BY <1>1, <1>2, <1>3, <1>4, <1>5, <1>6, <1>7, <1>8, <1>9, <1>10, <1>11, <1>12, <1>13, <1>14, <1>15, <1>16, <1>17, <1>18, <1>19
     DEF Next, Waiter, Offerer, Reader, Puncher, Ear

\* A datagram to a side is sent by the step that counts the knock.
LEMMA SentStep ==
  ASSUME IInv, [Next]_vars
  PROVE  Sent'
<1> USE SidesAssumption DEF IInv, TypeOK, Sent, Is, request, punch, server
<1>1. ASSUME NEW s \in Sides, Start(s) PROVE Sent'
  BY <1>1 DEF Start
<1>2. ASSUME NEW s \in Sides, Punch(s) PROVE Sent'
  BY <1>2 DEF Punch
<1>3. ASSUME NEW s \in Sides, GiveUp(s) PROVE Sent'
  BY <1>3 DEF GiveUp
<1>4. ASSUME NEW s \in Sides, Offer(s) PROVE Sent'
  BY <1>4 DEF Offer, OfferOf
<1>5. ASSUME NEW s \in Sides, OfferFails(s) PROVE Sent'
  BY <1>5 DEF OfferFails
<1>6. ASSUME NEW s \in Sides, TakeStop(s) PROVE Sent'
  BY <1>6 DEF TakeStop
<1>7. ASSUME NEW s \in Sides, Answered(s) PROVE Sent'
  BY <1>7 DEF Answered
<1>8. ASSUME NEW s \in Sides, Report(s) PROVE Sent'
  BY <1>8 DEF Report
<1>9. ASSUME NEW s \in Sides, Knock(s) PROVE Sent'
  BY <1>9 DEF Knock, KnockOf
<1>10. ASSUME NEW s \in Sides, KnockFails(s) PROVE Sent'
  BY <1>10 DEF KnockFails
<1>11. ASSUME NEW s \in Sides, Heard(s) PROVE Sent'
  BY <1>11 DEF Heard
<1>12. ASSUME NEW s \in Sides, Decide(s) PROVE Sent'
  BY <1>12 DEF Decide
<1>13. ASSUME NEW s \in Sides, Hear(s) PROVE Sent'
  BY <1>13 DEF Hear
<1>14. ASSUME NEW s \in Sides, EarStops(s) PROVE Sent'
  BY <1>14 DEF EarStops
<1>15. ASSUME NEW s \in Sides, EarFails(s) PROVE Sent'
  BY <1>15 DEF EarFails
<1>16. ASSUME NEW s \in Sides, ServeOffer(s) PROVE Sent'
  BY <1>16 DEF ServeOffer
<1>17. ASSUME NEW s \in Sides, Disconnect(s) PROVE Sent'
  BY <1>17 DEF Disconnect
<1>18. CASE Expire BY <1>18 DEF Expire
<1>19. CASE UNCHANGED vars BY <1>19 DEF vars
<1> QED
  BY <1>1, <1>2, <1>3, <1>4, <1>5, <1>6, <1>7, <1>8, <1>9, <1>10, <1>11, <1>12, <1>13, <1>14, <1>15, <1>16, <1>17, <1>18, <1>19
     DEF Next, Waiter, Offerer, Reader, Puncher, Ear

\* What Hear accepts is a knock, since it comes from the address of the answer.
LEMMA HeardKnockStep ==
  ASSUME IInv, [Next]_vars
  PROVE  HeardKnock'
<1> USE SidesAssumption, OtherSide
    DEF IInv, TypeOK, HeardKnock, Is, request, punch, server
<1>1. ASSUME NEW s \in Sides, Start(s) PROVE HeardKnock'
  BY <1>1 DEF Start
<1>2. ASSUME NEW s \in Sides, Punch(s) PROVE HeardKnock'
  BY <1>2 DEF Punch
<1>3. ASSUME NEW s \in Sides, GiveUp(s) PROVE HeardKnock'
  BY <1>3 DEF GiveUp
<1>4. ASSUME NEW s \in Sides, Offer(s) PROVE HeardKnock'
  BY <1>4 DEF Offer
<1>5. ASSUME NEW s \in Sides, OfferFails(s) PROVE HeardKnock'
  BY <1>5 DEF OfferFails
<1>6. ASSUME NEW s \in Sides, TakeStop(s) PROVE HeardKnock'
  BY <1>6 DEF TakeStop
<1>7. ASSUME NEW s \in Sides, Answered(s) PROVE HeardKnock'
  BY <1>7 DEF Answered
<1>8. ASSUME NEW s \in Sides, Report(s) PROVE HeardKnock'
  BY <1>8 DEF Report
<1>9. ASSUME NEW s \in Sides, Knock(s) PROVE HeardKnock'
  BY <1>9 DEF Knock
<1>10. ASSUME NEW s \in Sides, KnockFails(s) PROVE HeardKnock'
  BY <1>10 DEF KnockFails
<1>11. ASSUME NEW s \in Sides, Heard(s) PROVE HeardKnock'
  BY <1>11 DEF Heard
<1>12. ASSUME NEW s \in Sides, Decide(s) PROVE HeardKnock'
  BY <1>12 DEF Decide
<1>13. ASSUME NEW s \in Sides, Hear(s) PROVE HeardKnock'
  BY <1>13 DEF Hear, Addressed, Sent
<1>14. ASSUME NEW s \in Sides, EarStops(s) PROVE HeardKnock'
  BY <1>14 DEF EarStops
<1>15. ASSUME NEW s \in Sides, EarFails(s) PROVE HeardKnock'
  BY <1>15 DEF EarFails
<1>16. ASSUME NEW s \in Sides, ServeOffer(s) PROVE HeardKnock'
  BY <1>16 DEF ServeOffer
<1>17. ASSUME NEW s \in Sides, Disconnect(s) PROVE HeardKnock'
  BY <1>17 DEF Disconnect
<1>18. CASE Expire BY <1>18 DEF Expire
<1>19. CASE UNCHANGED vars BY <1>19 DEF vars
<1> QED
  BY <1>1, <1>2, <1>3, <1>4, <1>5, <1>6, <1>7, <1>8, <1>9, <1>10, <1>11, <1>12, <1>13, <1>14, <1>15, <1>16, <1>17, <1>18, <1>19
     DEF Next, Waiter, Offerer, Reader, Puncher, Ear

\* Every turn is a knock but the one that ends with the id heard.
LEMMA TurnsStep ==
  ASSUME IInv, [Next]_vars
  PROVE  Turns'
<1> USE TriesAssumption DEF IInv, TypeOK, Turns, Is, request, punch, server
<1>1. ASSUME NEW s \in Sides, Start(s) PROVE Turns'
  BY <1>1 DEF Start
<1>2. ASSUME NEW s \in Sides, Punch(s) PROVE Turns'
  BY <1>2 DEF Punch
<1>3. ASSUME NEW s \in Sides, GiveUp(s) PROVE Turns'
  BY <1>3 DEF GiveUp
<1>4. ASSUME NEW s \in Sides, Offer(s) PROVE Turns'
  BY <1>4 DEF Offer
<1>5. ASSUME NEW s \in Sides, OfferFails(s) PROVE Turns'
  BY <1>5 DEF OfferFails
<1>6. ASSUME NEW s \in Sides, TakeStop(s) PROVE Turns'
  BY <1>6 DEF TakeStop
<1>7. ASSUME NEW s \in Sides, Answered(s) PROVE Turns'
  BY <1>7 DEF Answered
<1>8. ASSUME NEW s \in Sides, Report(s) PROVE Turns'
  BY <1>8 DEF Report
<1>9. ASSUME NEW s \in Sides, Knock(s) PROVE Turns'
  <2>1. /\ pc[s] = "punch" /\ pc' = pc /\ ear' = ear
        /\ turns' = [turns EXCEPT ![s] = turns[s] - 1]
        /\ knocks' = [knocks EXCEPT ![s] = knocks[s] + 1]
    BY <1>9 DEF Knock
  <2>2. knocks'[s] + turns'[s] = knocks[s] + turns[s] BY <2>1
  <2>3. \A c \in Sides \ {s} : knocks'[c] = knocks[c] /\ turns'[c] = turns[c]
    BY <2>1
  <2> QED BY <2>1, <2>2, <2>3
<1>10. ASSUME NEW s \in Sides, KnockFails(s) PROVE Turns'
  BY <1>10 DEF KnockFails
<1>11. ASSUME NEW s \in Sides, Heard(s) PROVE Turns'
  BY <1>11 DEF Heard
<1>12. ASSUME NEW s \in Sides, Decide(s) PROVE Turns'
  BY <1>12 DEF Decide
<1>13. ASSUME NEW s \in Sides, Hear(s) PROVE Turns'
  BY <1>13 DEF Hear
<1>14. ASSUME NEW s \in Sides, EarStops(s) PROVE Turns'
  BY <1>14 DEF EarStops
<1>15. ASSUME NEW s \in Sides, EarFails(s) PROVE Turns'
  BY <1>15 DEF EarFails
<1>16. ASSUME NEW s \in Sides, ServeOffer(s) PROVE Turns'
  BY <1>16 DEF ServeOffer
<1>17. ASSUME NEW s \in Sides, Disconnect(s) PROVE Turns'
  BY <1>17 DEF Disconnect
<1>18. CASE Expire BY <1>18 DEF Expire
<1>19. CASE UNCHANGED vars BY <1>19 DEF vars
<1> QED
  BY <1>1, <1>2, <1>3, <1>4, <1>5, <1>6, <1>7, <1>8, <1>9, <1>10, <1>11, <1>12, <1>13, <1>14, <1>15, <1>16, <1>17, <1>18, <1>19
     DEF Next, Waiter, Offerer, Reader, Puncher, Ear

-----------------------------------------------------------------------------
\* IInv holds in every state of every run.
THEOREM Invariant == Spec => []IInv
<1>1. IInv /\ [Next]_vars => IInv'
  BY TypeStep, AddressedStep, SentStep, HeardKnockStep, TurnsStep DEF IInv
<1> QED BY InitIInv, <1>1, PTL DEF Spec

\* Every variable keeps its type; in particular no loop of handleUP2P or
\* handshakeUP2P runs more than its Tries turns.
THEOREM TypesOK == Spec => []TypeOK
<1>1. IInv => TypeOK BY DEF IInv
<1> QED BY <1>1, Invariant, PTL

\* However often offers are repeated and duplicated, handleUP2P of the server
\* never gives a client its own address (its test of the second address).
THEOREM NobodyPairedWithItself == Spec => []PairedWithOther
<1>1. IInv => PairedWithOther
  BY OtherSide, SidesAssumption DEF IInv, Addressed, PairedWithOther
<1> QED BY <1>1, Invariant, PTL

\* handshakeUP2P returns nil only to a client that has heard the id from its
\* counterpart and has itself sent it Tries times but one, at the least.
THEOREM HoleIsOpen == Spec => []PunchedMeansOpen
<1>1. IInv => PunchedMeansOpen
  BY DEF IInv, HeardKnock, Turns, PunchedMeansOpen
<1> QED BY <1>1, Invariant, PTL
=============================================================================

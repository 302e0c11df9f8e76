---------------------------- MODULE VpnLinkProofs ----------------------------
(***************************************************************************)
(* A failed call has sent nothing, and a VPN link is a pipe each way, for  *)
(* every number of messages and calls and any size of the sockets.         *)
(*                                                                         *)
(* Data is sent to the server only by a caller that has read "ok", "ok" is *)
(* only written once the target has been reached (Answers), and by then    *)
(* the one message a caller sends before, ConnVPNQ1, has been taken        *)
(* (Waiting); so the server takes it, and nothing else, for the request.   *)
(* A goroutine that waits in a Write still holds what it has read (Held).  *)
(***************************************************************************)
EXTENDS VpnLink, TLAPS, SequenceTheorems, WellFoundedInduction

Datum == [kind : {"data"}, n : Nat]
Sent  == [kind : {"data", "own"}, n : Nat]

Waits   == caller \notin {"ok", "done"}
Reached == targetConn # "none"

\* What each connection carries.
Carried ==
  /\ up[1] \in Seq(Datum) /\ up[3] \in Seq(Sent)
  /\ down[1] \in Seq(Datum) /\ down[3] \in Seq(Datum)
  /\ ~ Waits => up[2] \in Seq(Sent)

\* A call that has returned no link has sent ConnVPNQ1 at the most, and the
\* server has taken it before it dials.
Waiting ==
  Waits => /\ copier = "off" /\ up[3] = <<>> /\ taken[2] = <<>>
           /\ up[2] = <<>> \/ up[2] = <<Q1>>
           /\ Reached \/ handler = "dialing" \/ caller \in {"idle", "dialed"} => up[2] = <<>>

Answers ==
  /\ answer = "ok" \/ ~ Waits => Direct \/ Reached
  /\ ~ Reached => \A i \in 1 .. Len(down[2]) : down[2][i].kind = "bad"

Places ==
  /\ caller \in {"idle", "dialed"} => ~ Reached /\ handler # "dialing"
  /\ caller = "idle" => reader = "off" /\ down[3] = <<>> /\ handler = "off"
  /\ handler = "off" <=> rawConn = "none"
  /\ handler \in {"off", "init", "dialing"} => ~ Reached
  /\ handler \in {"init", "dialing"} => rawConn = "open"
  /\ handler \in {"answer", "relay", "write"} \/ relayer # "off" => Reached
  /\ rawConn = "closed" => targetConn # "open"
  /\ linkConn = "closed" => copyConn = "closed"
  /\ caller = "idle" => closing = "no" /\ linkConn = "none" /\ target = "none"
  /\ ~ Direct /\ ~ Reached => target = "none"
  /\ Direct => /\ caller \notin {"dialed", "asking"} /\ handler = "off" /\ closing = "no"
               /\ up[2] = <<>> /\ down[2] = <<>> /\ (copyConn = "closed" => crashed)

Held ==
  /\ reader = "write" /\ ~ Direct => down[2] # <<>> /\ Head(down[2]).kind = "data"
  /\ handler = "write" => up[2] # <<>>

IInv == TypeOK /\ Carried /\ Waiting /\ Answers /\ Places /\ Held

-----------------------------------------------------------------------------
(* Sockets *)

\* A write appends what is written; or it fails, or goes nowhere because the
\* other end has gone.
Goes(w, q, m, here, there) ==
  \/ w.q = Append(q, m) /\ ~ w.fails /\ here = "open" /\ there \notin {"closed", "gone"}
  \/ w.q = q /\ (w.fails \/ there \in {"closed", "gone"})

LEMMA WriteGoes ==
  ASSUME NEW q, NEW m, NEW here, NEW there, NEW w \in Writes(q, m, here, there)
  PROVE  Goes(w, q, m, here, there)
<1>1. CASE here # "open"
  <2>1. w = [q |-> q, fails |-> TRUE] BY <1>1 DEF Writes
  <2> QED BY <1>1, <2>1 DEF Goes
<1>2. CASE here = "open" /\ there \in {"closed", "gone"}
  <2>1. w \in {[q |-> q, fails |-> f] : f \in BOOLEAN} BY <1>2 DEF Writes
  <2>2. PICK f \in BOOLEAN : w = [q |-> q, fails |-> f] BY <2>1
  <2>3. w.q = q /\ w.fails = f BY <2>2
  <2> QED BY <1>2, <2>3 DEF Goes
<1>3. CASE here = "open" /\ there \notin {"closed", "gone"}
  <2>1. w = [q |-> Append(q, m), fails |-> FALSE] BY <1>3 DEF Writes
  <2>2. w.q = Append(q, m) /\ w.fails = FALSE BY <2>1
  <2> QED BY <1>3, <2>2 DEF Goes
<1> QED BY <1>1, <1>2, <1>3

LEMMA ClientWriteGoes ==
  ASSUME NEW q, NEW m, NEW conn, NEW here, NEW there, NEW w \in ClientWrites(q, m, conn, here, there)
  PROVE  Goes(w, q, m, here, there)
<1>1. CASE Late(conn)
  <2>1. w = [q |-> q, fails |-> TRUE] BY <1>1 DEF ClientWrites
  <2> QED BY <2>1 DEF Goes
<1>2. CASE ~ Late(conn)
  <2>1. w \in Writes(q, m, here, there) BY <1>2 DEF ClientWrites
  <2> QED BY <2>1, WriteGoes
<1> QED BY <1>1, <1>2

LEMMA RawWriteGoes ==
  ASSUME NEW m, NEW w \in RawWrites(m)
  PROVE  Goes(w, down[2], m, rawConn, linkConn)
<1>1. CASE Late("raw")
  <2>1. w = [q |-> down[2], fails |-> TRUE] BY <1>1 DEF RawWrites
  <2> QED BY <2>1 DEF Goes
<1>2. CASE ~ Late("raw")
  <2>1. w \in Writes(down[2], m, rawConn, linkConn) BY <1>2 DEF RawWrites
  <2> QED BY <2>1, WriteGoes
<1> QED BY <1>1, <1>2

\* What is written keeps the kind of what a connection carries.
LEMMA GoesType ==
  ASSUME NEW S, NEW q \in Seq(S), NEW m \in S, NEW here, NEW there,
         NEW w, Goes(w, q, m, here, there)
  PROVE  w.q \in Seq(S)
<1>1. Append(q, m) \in Seq(S) BY AppendProperties
<1>2. w.q = q \/ w.q = Append(q, m) BY DEF Goes
<1> QED BY <1>1, <1>2

\* What was first in a connection stays first when more is written.
LEMMA GoesBehind ==
  ASSUME NEW S, NEW q \in Seq(S), NEW m \in S, NEW here, NEW there,
         NEW w, Goes(w, q, m, here, there), q # <<>>
  PROVE  w.q # <<>> /\ Head(w.q) = Head(q)
<1>1. Append(q, m) # <<>> /\ Head(Append(q, m)) = Head(q)
  <2>1. /\ Append(q, m) \in Seq(S) /\ Len(Append(q, m)) = Len(q) + 1 /\ Len(q) \in Nat \ {0}
        /\ Append(q, m)[1] = q[1]
    BY AppendProperties, LenProperties, EmptySeq
  <2>2. Append(q, m) # <<>> BY <2>1, EmptySeq
  <2> QED BY <2>1, <2>2, HeadTailProperties
<1>2. w.q = q \/ w.q = Append(q, m) BY DEF Goes
<1> QED BY <1>1, <1>2

\* Every kind of message is an item.
LEMMA Kinds ==
  /\ Datum \subseteq Sent /\ Sent \subseteq Item
  /\ \A n \in Nat : Data(n) \in Datum /\ Own(n) \in Sent
  /\ Q1 \in Item /\ Q1 \notin Sent /\ \A c \in {"ok", "bad"} : A1(c) \in Item
  /\ \A m \in Item : /\ m.n \in Nat
                     /\ m.kind = "data" => m \in Datum
                     /\ m.kind \in {"data", "own"} => m \in Sent
  /\ \A m \in Datum : m.kind = "data"
  /\ <<>> \in Seq(Datum) /\ <<>> \in Seq(Sent) /\ <<>> \in Seq(Item)
  BY DEF Datum, Sent, Item, Data, Own, Q1, A1

\* The first of a sequence, and the others.
LEMMA FirstAndRest ==
  ASSUME NEW S, NEW q \in Seq(S), q # <<>>
  PROVE  Head(q) \in S /\ Tail(q) \in Seq(S) /\ Len(q) \in Nat \ {0} /\ Head(q) = q[1]
  BY HeadTailProperties, EmptySeq

LEMMA Wider ==
  /\ \A q \in Seq(Datum) : q \in Seq(Sent) /\ q \in Seq(Item)
  /\ \A q \in Seq(Sent) : q \in Seq(Item)
  BY Kinds, SeqMonotonic

\* One connection is written to, or read from.
LEMMA Put ==
  ASSUME NEW f \in [1 .. 3 -> Seq(Item)], NEW i \in 1 .. 3, NEW q \in Seq(Item)
  PROVE  LET g == [f EXCEPT ![i] = q]
         IN  /\ g \in [1 .. 3 -> Seq(Item)] /\ g[i] = q
             /\ \A j \in 1 .. 3 : j # i => g[j] = f[j]
  OBVIOUS

\* The first state satisfies the invariant.
LEMMA InitIInv == Init => IInv
<1> SUFFICES ASSUME Init PROVE IInv OBVIOUS
<1>1. up = [i \in 1 .. 3 |-> <<>>] /\ down = [i \in 1 .. 3 |-> <<>>] BY DEF Init
<1>2. TypeOK
  <2>1. up \in [1 .. 3 -> Seq(Item)] /\ down \in [1 .. 3 -> Seq(Item)] BY <1>1, Kinds
  <2>2. /\ wrote \in [{1, 2} -> Nat] /\ wrote[1] = 0 /\ wrote[2] = 0
        /\ taken \in [{1, 2} -> Seq(Nat)]
    BY DEF Init
  <2>3. calls \in 0 .. MaxCalls /\ 0 <= AppMsgs /\ 0 <= TargetMsgs BY BoundsAssumption DEF Init
  <2> QED BY <2>1, <2>2, <2>3 DEF Init, TypeOK
<1>3. Carried BY <1>1, Kinds DEF Init, Carried
<1>4. Waiting /\ Held BY <1>1 DEF Init, Waiting, Waits, Reached, Held
<1>5. Answers BY <1>1 DEF Init, Answers, Waits, Reached
<1>6. Places BY <1>1 DEF Init, Places, Reached, Direct
<1> QED BY <1>2, <1>3, <1>4, <1>5, <1>6 DEF IInv

-----------------------------------------------------------------------------
(* The steps of a link *)

\* Nothing is put into a connection or taken out of one, and no call returns a link.
Still == UNCHANGED <<up, down, wrote, taken>> /\ (Waits' <=> Waits)

LEMMA StillSteps ==
  ASSUME \/ AppLeaves \/ TargetAccept \/ TargetLeaves \/ DialProxy \/ Refused \/ AskTimeout
         \/ WaitReturn \/ UserClose \/ CloseBody \/ CopierEnds \/ DirectCopierBlocks
         \/ DirectCopierEnds \/ ReaderEnds \/ ReaderBlocks \/ DirectReaderEnds
         \/ HandlerEnds \/ DialTarget \/ HandlerBlocks \/ RelayerEnds \/ Expire
         \/ (\E conn \in {"copy", "link"} : SetDeadline(conn)) \/ UNCHANGED vars
  PROVE  Still
<1> USE DEF Still, Waits, client, ends
<1>1. CASE AppLeaves BY <1>1 DEF AppLeaves
<1>2. CASE TargetAccept BY <1>2 DEF TargetAccept
<1>3. CASE TargetLeaves BY <1>3 DEF TargetLeaves
<1>4. CASE DialProxy BY <1>4 DEF DialProxy
<1>5. CASE Refused BY <1>5 DEF Refused
<1>6. CASE AskTimeout BY <1>6 DEF AskTimeout
<1>7. CASE WaitReturn BY <1>7 DEF WaitReturn
<1>8. CASE UserClose BY <1>8 DEF UserClose
<1>9. CASE CloseBody BY <1>9 DEF CloseBody
<1>10. CASE CopierEnds BY <1>10 DEF CopierEnds
<1>11. CASE DirectCopierBlocks BY <1>11 DEF DirectCopierBlocks
<1>12. CASE DirectCopierEnds BY <1>12 DEF DirectCopierEnds
<1>13. CASE ReaderEnds BY <1>13 DEF ReaderEnds
<1>14. CASE ReaderBlocks BY <1>14 DEF ReaderBlocks
<1>15. CASE DirectReaderEnds BY <1>15 DEF DirectReaderEnds
<1>16. CASE HandlerEnds BY <1>16 DEF HandlerEnds
<1>17. CASE DialTarget BY <1>17 DEF DialTarget
<1>18. CASE HandlerBlocks BY <1>18 DEF HandlerBlocks
<1>19. CASE RelayerEnds BY <1>19 DEF RelayerEnds
<1>20. CASE Expire BY <1>20 DEF Expire
<1>21. ASSUME NEW conn \in {"copy", "link"}, SetDeadline(conn) PROVE Still BY <1>21 DEF SetDeadline
<1>22. CASE UNCHANGED vars BY <1>22 DEF vars
<1> QED
  BY <1>1, <1>2, <1>3, <1>4, <1>5, <1>6, <1>7, <1>8, <1>9, <1>10, <1>11, <1>12, <1>13, <1>14,
     <1>15, <1>16, <1>17, <1>18, <1>19, <1>20, <1>21, <1>22

LEMMA Steps ==
  ASSUME [Next]_vars
  PROVE  \/ AppWrite \/ AppRead \/ TargetWrite \/ TargetRead
         \/ DialDirect \/ Ask \/ Answered \/ WriteToLinkConn
         \/ CopierMoves \/ DirectCopierMoves \/ ReadAnswer \/ ReadData \/ DirectReaderMoves
         \/ TakeQ1 \/ DialTargetFails \/ WriteA1 \/ HandlerMoves \/ RelayerMoves
         \/ Still
  BY StillSteps DEF Next, Caller, Copier, Reader, Handler, Relayer

\* Every action keeps what each connection carries.
LEMMA CarriedStep ==
  ASSUME IInv, [Next]_vars
  PROVE  up' \in [1 .. 3 -> Seq(Item)] /\ down' \in [1 .. 3 -> Seq(Item)] /\ Carried'
<1> USE DEF client, sockets, server, ends
<1> DEFINE Ups   == up' \in [1 .. 3 -> Seq(Item)] /\ up'[1] \in Seq(Datum) /\ up'[3] \in Seq(Sent)
                    /\ (~ Waits' => up'[2] \in Seq(Sent))
           Downs == down' \in [1 .. 3 -> Seq(Item)] /\ down'[1] \in Seq(Datum) /\ down'[3] \in Seq(Datum)
<1>0. /\ up \in [1 .. 3 -> Seq(Item)] /\ down \in [1 .. 3 -> Seq(Item)]
      /\ up[1] \in Seq(Datum) /\ up[2] \in Seq(Item) /\ up[3] \in Seq(Sent)
      /\ down[1] \in Seq(Datum) /\ down[2] \in Seq(Item) /\ down[3] \in Seq(Datum)
      /\ ~ Waits => up[2] \in Seq(Sent)
  BY DEF IInv, TypeOK, Carried
<1>a. wrote[1] + 1 \in Nat /\ wrote[2] + 1 \in Nat /\ calls + 1 \in Nat
  <2>1. wrote \in [{1, 2} -> Nat] /\ calls \in Nat BY BoundsAssumption DEF IInv, TypeOK
  <2> QED BY <2>1
<1>b. UNCHANGED up /\ (Waits' <=> Waits) => Ups BY <1>0
<1>c. UNCHANGED down => Downs BY <1>0
<1> HIDE DEF Ups, Downs
<1> USE <1>b, <1>c
<1> SUFFICES Ups /\ Downs BY DEF Carried, Ups, Downs
\* The two ends write and read.
<1>1. CASE AppWrite
  <2>1. PICK w \in Writes(up[1], Data(wrote[1] + 1), app, copyConn) : up' = [up EXCEPT ![1] = w.q]
    BY <1>1 DEF AppWrite
  <2>2. w.q \in Seq(Datum) /\ w.q \in Seq(Item) BY <1>0, <1>a, WriteGoes, GoesType, Kinds, Wider
  <2>3. up' \in [1 .. 3 -> Seq(Item)] /\ up'[1] = w.q /\ up'[2] = up[2] /\ up'[3] = up[3]
    BY <1>0, <2>1, <2>2, Put
  <2>4. Ups BY <1>0, <1>1, <2>2, <2>3 DEF AppWrite, Waits, Ups
  <2> QED BY <1>1, <2>4 DEF AppWrite
<1>2. CASE AppRead
  <2>1. Tail(down[3]) \in Seq(Datum) /\ Tail(down[3]) \in Seq(Item)
    BY <1>0, <1>2, FirstAndRest, Wider DEF AppRead
  <2>2. down' \in [1 .. 3 -> Seq(Item)] /\ down'[1] = down[1] /\ down'[3] = Tail(down[3])
    BY <1>0, <1>2, <2>1, Put DEF AppRead
  <2>3. Downs BY <1>0, <2>1, <2>2 DEF Downs
  <2> QED BY <1>2, <2>3 DEF AppRead, Waits
<1>3. CASE TargetWrite
  <2>1. PICK w \in Writes(down[1], Data(wrote[2] + 1), target, TowardsTarget) :
          down' = [down EXCEPT ![1] = w.q]
    BY <1>3 DEF TargetWrite
  <2>2. w.q \in Seq(Datum) /\ w.q \in Seq(Item) BY <1>0, <1>a, WriteGoes, GoesType, Kinds, Wider
  <2>3. down' \in [1 .. 3 -> Seq(Item)] /\ down'[1] = w.q /\ down'[3] = down[3]
    BY <1>0, <2>1, <2>2, Put
  <2>4. Downs BY <1>0, <2>2, <2>3 DEF Downs
  <2> QED BY <1>3, <2>4 DEF TargetWrite, Waits
<1>4. CASE TargetRead
  <2>1. Tail(up[3]) \in Seq(Sent) /\ Tail(up[3]) \in Seq(Item)
    BY <1>0, <1>4, FirstAndRest, Wider DEF TargetRead
  <2>2. up' \in [1 .. 3 -> Seq(Item)] /\ up'[1] = up[1] /\ up'[2] = up[2] /\ up'[3] = Tail(up[3])
    BY <1>0, <1>4, <2>1, Put DEF TargetRead
  <2>3. Ups BY <1>0, <1>4, <2>1, <2>2 DEF TargetRead, Waits, Ups
  <2> QED BY <1>4, <2>3 DEF TargetRead
\* The caller.
<1>5. CASE Ask
  <2>1. Waits /\ Waits'
    BY <1>5 DEF Ask, Waits
  <2>2. ASSUME NEW w \in ClientWrites(up[2], Q1, "link", linkConn, rawConn),
               up' = [up EXCEPT ![2] = w.q]
        PROVE  Ups
    <3>1. w.q \in Seq(Item) BY <1>0, ClientWriteGoes, GoesType, Kinds
    <3>2. up' \in [1 .. 3 -> Seq(Item)] /\ up'[1] = up[1] /\ up'[3] = up[3]
      BY <1>0, <2>2, <3>1, Put
    <3> QED BY <1>0, <2>1, <3>2 DEF Ups
  <2> QED BY <1>5, <2>1, <2>2 DEF Ask
<1>6. CASE Answered
  <2>1. answer = "ok" => up[2] = <<>>
    BY <1>6 DEF Answered, IInv, Answers, Waiting, Places, Waits
  <2>2. ~ Waits' => up[2] \in Seq(Sent) BY <1>6, <2>1, Kinds DEF Answered, Waits
  <2>3. Ups BY <1>0, <1>6, <2>2 DEF Answered, Ups
  <2> QED BY <1>6, <2>3 DEF Answered
<1>7. CASE WriteToLinkConn
  <2> DEFINE k == IF Direct THEN 3 ELSE 2
             there == IF Direct THEN target ELSE rawConn
  <2>1. ~ Waits /\ (Waits' <=> Waits) /\ calls' \in Nat BY <1>a, <1>7 DEF WriteToLinkConn, Waits
  <2>2. PICK w \in ClientWrites(up[k], Own(calls'), "link", linkConn, there) :
          up' = [up EXCEPT ![k] = w.q]
    <3>1. CASE Direct BY <1>7, <3>1 DEF WriteToLinkConn
    <3>2. CASE ~ Direct BY <1>7, <3>2 DEF WriteToLinkConn
    <3> QED BY <3>1, <3>2
  <2>3. up[k] \in Seq(Sent) /\ k \in {2, 3} BY <1>0, <2>1
  <2>4. Own(calls') \in Sent BY <2>1, Kinds
  <2>5. w.q \in Seq(Sent) /\ w.q \in Seq(Item) BY <2>3, <2>4, ClientWriteGoes, GoesType, Wider
  <2> HIDE DEF k, there
  <2>6. up' \in [1 .. 3 -> Seq(Item)] /\ up'[k] = w.q /\ \A j \in 1 .. 3 : j # k => up'[j] = up[j]
    BY <1>0, <2>2, <2>3, <2>5, Put
  <2>7. up'[1] = up[1] /\ \A j \in {2, 3} : up'[j] = up[j] \/ up'[j] \in Seq(Sent)
    BY <2>3, <2>5, <2>6
  <2>8. Ups BY <1>0, <2>1, <2>6, <2>7 DEF Ups
  <2> QED BY <1>7, <2>8 DEF WriteToLinkConn
\* The client carries to the server, or to the target.
<1>8. CASE CopierMoves
  <2> DEFINE rest == Tail(up[1])
  <2>1. Head(up[1]) \in Datum /\ rest \in Seq(Datum) /\ rest \in Seq(Item)
    BY <1>0, <1>8, FirstAndRest, Wider DEF CopierMoves
  <2>2. PICK w \in ClientWrites(up[2], Head(up[1]), "link", linkConn, rawConn) :
          up' = [up EXCEPT ![1] = rest, ![2] = w.q]
    BY <1>8 DEF CopierMoves
  <2> HIDE DEF rest
  <2>3. w.q \in Seq(Item) /\ (~ Waits => w.q \in Seq(Sent))
    BY <1>0, <2>1, ClientWriteGoes, GoesType, Kinds
  <2>4. up' \in [1 .. 3 -> Seq(Item)] /\ up'[1] = rest /\ up'[2] = w.q /\ up'[3] = up[3]
    BY <1>0, <2>1, <2>2, <2>3
  <2>5. Ups BY <1>0, <1>8, <2>1, <2>3, <2>4 DEF CopierMoves, Waits, Ups
  <2> QED BY <1>8, <2>5 DEF CopierMoves
<1>9. CASE DirectCopierMoves
  <2> DEFINE rest == Tail(up[1])
  <2>1. Head(up[1]) \in Sent /\ rest \in Seq(Datum) /\ rest \in Seq(Item)
    BY <1>0, <1>9, FirstAndRest, Kinds, Wider DEF DirectCopierMoves
  <2>2. PICK w \in ClientWrites(up[3], Head(up[1]), "link", linkConn, target) :
          up' = [up EXCEPT ![1] = rest, ![3] = w.q]
    BY <1>9 DEF DirectCopierMoves
  <2> HIDE DEF rest
  <2>3. w.q \in Seq(Sent) /\ w.q \in Seq(Item) BY <1>0, <2>1, ClientWriteGoes, GoesType, Wider
  <2>4. up' \in [1 .. 3 -> Seq(Item)] /\ up'[1] = rest /\ up'[2] = up[2] /\ up'[3] = w.q
    BY <1>0, <2>1, <2>2, <2>3
  <2>5. Ups BY <1>0, <1>9, <2>1, <2>3, <2>4 DEF DirectCopierMoves, Waits, Ups
  <2> QED BY <1>9, <2>5 DEF DirectCopierMoves
\* The reader of the client.
<1>10. CASE ReadAnswer
  <2>1. Tail(down[2]) \in Seq(Item) BY <1>0, <1>10, FirstAndRest DEF ReadAnswer
  <2>2. down' \in [1 .. 3 -> Seq(Item)] /\ down'[1] = down[1] /\ down'[3] = down[3]
    BY <1>0, <1>10, <2>1, Put DEF ReadAnswer
  <2>3. Downs BY <1>0, <2>2 DEF Downs
  <2> QED BY <1>10, <2>3 DEF ReadAnswer, Waits
<1>11. CASE ReadData
  <2> DEFINE rest == Tail(down[2])
  <2>1. Head(down[2]) \in Datum /\ rest \in Seq(Item)
    BY <1>0, <1>11, FirstAndRest, Kinds DEF ReadData
  <2>2. PICK w \in ClientWrites(down[3], Head(down[2]), "copy", copyConn, app) :
          down' = [down EXCEPT ![2] = rest, ![3] = w.q]
    BY <1>11 DEF ReadData
  <2> HIDE DEF rest
  <2>3. w.q \in Seq(Datum) /\ w.q \in Seq(Item) BY <1>0, <2>1, ClientWriteGoes, GoesType, Wider
  <2>4. down' \in [1 .. 3 -> Seq(Item)] /\ down'[1] = down[1] /\ down'[3] = w.q
    BY <1>0, <2>1, <2>2, <2>3
  <2>5. Downs BY <1>0, <2>3, <2>4 DEF Downs
  <2> QED BY <1>11, <2>5 DEF ReadData, Waits
<1>12. CASE DirectReaderMoves
  <2> DEFINE rest == Tail(down[1])
  <2>1. Head(down[1]) \in Datum /\ rest \in Seq(Datum) /\ rest \in Seq(Item)
    BY <1>0, <1>12, FirstAndRest, Wider DEF DirectReaderMoves
  <2>2. PICK w \in ClientWrites(down[3], Head(down[1]), "copy", copyConn, app) :
          down' = [down EXCEPT ![1] = rest, ![3] = w.q]
    BY <1>12 DEF DirectReaderMoves
  <2> HIDE DEF rest
  <2>3. w.q \in Seq(Datum) /\ w.q \in Seq(Item) BY <1>0, <2>1, ClientWriteGoes, GoesType, Wider
  <2>4. down' \in [1 .. 3 -> Seq(Item)] /\ down'[1] = rest /\ down'[3] = w.q
    <3>1. down \in [1 .. 3 -> Seq(Item)] BY <1>0
    <3>2. down' \in [1 .. 3 -> Seq(Item)] BY <2>1, <2>2, <2>3, <3>1
    <3>3. down'[1] = rest BY <2>2, <3>1
    <3>4. down'[3] = w.q BY <2>2, <3>1
    <3> QED BY <3>2, <3>3, <3>4
  <2>5. Downs BY <2>1, <2>3, <2>4 DEF Downs
  <2> QED BY <1>12, <2>5 DEF DirectReaderMoves, Waits
\* The server.
<1>13. CASE TakeQ1
  <2>1. Tail(up[2]) \in Seq(Item) /\ (~ Waits => Tail(up[2]) \in Seq(Sent))
    BY <1>0, <1>13, FirstAndRest DEF TakeQ1
  <2>2. up' \in [1 .. 3 -> Seq(Item)] /\ up'[1] = up[1] /\ up'[2] = Tail(up[2]) /\ up'[3] = up[3]
    BY <1>0, <1>13, <2>1, Put DEF TakeQ1
  <2>3. Ups BY <1>0, <1>13, <2>1, <2>2 DEF TakeQ1, Waits, Ups
  <2> QED BY <1>13, <2>3 DEF TakeQ1
<1>14. ASSUME NEW m \in Item, NEW w \in RawWrites(m), down' = [down EXCEPT ![2] = w.q]
       PROVE  Downs
  <2>1. w.q \in Seq(Item) BY <1>0, RawWriteGoes, GoesType
  <2>2. down' \in [1 .. 3 -> Seq(Item)] /\ down'[1] = down[1] /\ down'[3] = down[3]
    BY <1>0, <1>14, <2>1, Put
  <2> QED BY <1>0, <2>2 DEF Downs
<1>15. CASE DialTargetFails \/ WriteA1
  <2>1. CASE DialTargetFails BY <1>14, <2>1, Kinds DEF DialTargetFails, Waits
  <2>2. CASE WriteA1 BY <1>14, <2>2, Kinds DEF WriteA1, Waits
  <2> QED BY <1>15, <2>1, <2>2
<1>16. CASE HandlerMoves
  <2> DEFINE rest == Tail(up[2])
  <2>1. up[2] # <<>> /\ (Waits => up[2] = <<>>)
    BY <1>16 DEF HandlerMoves, IInv, Held, Waiting, Places
  <2>2. Head(up[2]) \in Sent /\ rest \in Seq(Sent) /\ rest \in Seq(Item)
    BY <1>0, <2>1, FirstAndRest, Wider
  <2>3. PICK w \in Writes(up[3], Head(up[2]), targetConn, target) :
          up' = [up EXCEPT ![2] = rest, ![3] = w.q]
    BY <1>16 DEF HandlerMoves
  <2> HIDE DEF rest
  <2>4. w.q \in Seq(Sent) /\ w.q \in Seq(Item) BY <1>0, <2>2, WriteGoes, GoesType, Wider
  <2>5. up' \in [1 .. 3 -> Seq(Item)] /\ up'[1] = up[1] /\ up'[2] = rest /\ up'[3] = w.q
    BY <1>0, <2>2, <2>3, <2>4
  <2>6. Ups BY <1>0, <2>2, <2>4, <2>5 DEF Ups
  <2> QED BY <1>16, <2>6 DEF HandlerMoves
<1>17. CASE RelayerMoves
  <2> DEFINE rest == Tail(down[1])
  <2>1. Head(down[1]) \in Item /\ rest \in Seq(Datum) /\ rest \in Seq(Item)
    BY <1>0, <1>17, FirstAndRest, Kinds, Wider DEF RelayerMoves
  <2>2. PICK w \in RawWrites(Head(down[1])) : down' = [down EXCEPT ![1] = rest, ![2] = w.q]
    BY <1>17 DEF RelayerMoves
  <2> HIDE DEF rest
  <2>3. w.q \in Seq(Item) BY <1>0, <2>1, RawWriteGoes, GoesType
  <2>4. down' \in [1 .. 3 -> Seq(Item)] /\ down'[1] = rest /\ down'[3] = down[3]
    BY <1>0, <2>1, <2>2, <2>3
  <2>5. Downs BY <1>0, <2>1, <2>4 DEF Downs
  <2> QED BY <1>17, <2>5 DEF RelayerMoves, Waits
<1>18. CASE DialDirect
  <2>1. up[2] = <<>> BY <1>18 DEF DialDirect, IInv, Waiting, Waits
  <2>2. Ups BY <1>0, <1>18, <2>1, Kinds DEF DialDirect, Ups
  <2> QED BY <1>18, <2>2 DEF DialDirect
\* The others carry nothing.
<1>19. CASE Still BY <1>19 DEF Still
<1> QED
  BY <1>1, <1>2, <1>3, <1>4, <1>5, <1>6, <1>7, <1>8, <1>9, <1>10, <1>11, <1>12, <1>13, <1>15,
     <1>16, <1>17, <1>18, <1>19, Steps

\* Every action keeps the types.
LEMMA TypeStep ==
  ASSUME IInv, [Next]_vars
  PROVE  TypeOK'
<1> USE DEF client, sockets, server, ends, CallClose, Panic, ServerClose
<1>t. TypeOK BY DEF IInv
<1>s. up' \in [1 .. 3 -> Seq(Item)] /\ down' \in [1 .. 3 -> Seq(Item)] BY CarriedStep
<1>d. up[3] \in Seq(Sent) /\ down[3] \in Seq(Datum) BY DEF IInv, Carried
<1>a. /\ wrote \in [{1, 2} -> Nat] /\ wrote[1] <= AppMsgs /\ wrote[2] <= TargetMsgs
      /\ calls \in 0 .. MaxCalls /\ taken \in [{1, 2} -> Seq(Nat)]
  BY DEF IInv, TypeOK
<1>1. CASE AppWrite
  <2>1. wrote' = [wrote EXCEPT ![1] = @ + 1] /\ wrote[1] < AppMsgs BY <1>1 DEF AppWrite
  <2>2. wrote' \in [{1, 2} -> Nat] /\ wrote'[1] <= AppMsgs /\ wrote'[2] <= TargetMsgs
    BY <1>a, <2>1, BoundsAssumption
  <2>3. UNCHANGED <<mode, client, sockets, server, app, target, taken, expired, calls>>
    BY <1>1 DEF AppWrite
  <2> QED BY <1>s, <1>t, <2>2, <2>3 DEF TypeOK
<1>2. CASE AppRead
  <2>1. Head(down[3]).n \in Nat BY <1>d, <1>2, FirstAndRest, Kinds DEF AppRead
  <2>2. Append(taken[1], Head(down[3]).n) \in Seq(Nat) BY <1>a, <2>1, AppendProperties
  <2>3. taken' \in [{1, 2} -> Seq(Nat)] BY <1>a, <2>2, <1>2 DEF AppRead
  <2>4. UNCHANGED <<mode, client, sockets, server, app, target, wrote, expired, calls>>
    BY <1>2 DEF AppRead
  <2> QED BY <1>s, <1>t, <2>3, <2>4 DEF TypeOK
<1>3. CASE AppLeaves BY <1>3, <1>s, <1>t DEF AppLeaves, TypeOK
<1>4. CASE TargetAccept BY <1>4, <1>s, <1>t DEF TargetAccept, TypeOK
<1>5. CASE TargetWrite
  <2>1. wrote' = [wrote EXCEPT ![2] = @ + 1] /\ wrote[2] < TargetMsgs BY <1>5 DEF TargetWrite
  <2>2. wrote' \in [{1, 2} -> Nat] /\ wrote'[1] <= AppMsgs /\ wrote'[2] <= TargetMsgs
    BY <1>a, <2>1, BoundsAssumption
  <2>3. UNCHANGED <<mode, client, sockets, server, app, target, taken, expired, calls>>
    BY <1>5 DEF TargetWrite
  <2> QED BY <1>s, <1>t, <2>2, <2>3 DEF TypeOK
<1>6. CASE TargetRead
  <2>1. Head(up[3]).n \in Nat BY <1>d, <1>6, FirstAndRest, Kinds DEF TargetRead
  <2>2. Append(taken[2], Head(up[3]).n) \in Seq(Nat) BY <1>a, <2>1, AppendProperties
  <2>3. taken' \in [{1, 2} -> Seq(Nat)] BY <1>a, <2>2, <1>6 DEF TargetRead
  <2>4. UNCHANGED <<mode, client, sockets, server, app, target, wrote, expired, calls>>
    BY <1>6 DEF TargetRead
  <2> QED BY <1>s, <1>t, <2>3, <2>4 DEF TypeOK
<1>7. CASE TargetLeaves BY <1>7, <1>s, <1>t DEF TargetLeaves, TypeOK
<1>8. CASE DialProxy BY <1>8, <1>s, <1>t DEF DialProxy, TypeOK
<1>9. CASE DialDirect BY <1>9, <1>s, <1>t DEF DialDirect, TypeOK
<1>10. CASE Refused BY <1>10, <1>s, <1>t DEF Refused, TypeOK
<1>11. CASE Ask BY <1>11, <1>s, <1>t DEF Ask, TypeOK
<1>12. CASE AskTimeout BY <1>12, <1>s, <1>t DEF AskTimeout, TypeOK
<1>13. CASE Answered BY <1>13, <1>s, <1>t DEF Answered, TypeOK
<1>14. CASE WaitReturn
  <2>1. caller' = "done" /\ stop' \in BOOLEAN BY <1>14 DEF WaitReturn
  <2> QED BY <1>s, <1>t, <1>14, <2>1 DEF WaitReturn, TypeOK
<1>15. CASE WriteToLinkConn
  <2>1. calls' \in 0 .. MaxCalls BY <1>a, <1>15, BoundsAssumption DEF WriteToLinkConn
  <2> QED BY <1>s, <1>t, <1>15, <2>1 DEF WriteToLinkConn, TypeOK
<1>16. CASE UserClose
  <2>1. calls' \in 0 .. MaxCalls BY <1>a, <1>16, BoundsAssumption DEF UserClose
  <2>2. /\ closing' \in {"no", "begun", "done"} /\ crashed' \in BOOLEAN
        /\ copyConn' \in {"open", "closed"} /\ linkConn' \in {"none", "open", "closed"}
    BY <1>t, <1>16 DEF UserClose, TypeOK
  <2> QED BY <1>s, <1>t, <1>16, <2>1, <2>2 DEF UserClose, TypeOK
<1>17. CASE CloseBody BY <1>17, <1>s, <1>t DEF CloseBody, TypeOK
<1>18. CASE CopierMoves
  <2>1. copier' \in {"off", "on", "write", "ended"} /\ copyConn' \in {"open", "closed"}
    BY <1>t, <1>18 DEF CopierMoves, TypeOK
  <2>2. UNCHANGED <<mode, caller, answer, reader, closing, stop, crashed, linkConn,
                   server, ends, expired, calls>>
    BY <1>18 DEF CopierMoves
  <2> QED BY <1>s, <1>t, <2>1, <2>2 DEF TypeOK
<1>19. CASE CopierEnds BY <1>19, <1>s, <1>t DEF CopierEnds, TypeOK
<1>20. CASE DirectCopierBlocks BY <1>20, <1>s, <1>t DEF DirectCopierBlocks, TypeOK
<1>21. CASE DirectCopierMoves
  <2>1. copier' \in {"off", "on", "write", "ended"}
    BY <1>t, <1>21 DEF DirectCopierMoves, TypeOK
  <2>2. UNCHANGED <<mode, caller, answer, reader, closing, stop, crashed, sockets,
                   server, ends, expired, calls>>
    BY <1>21 DEF DirectCopierMoves
  <2> QED BY <1>s, <1>t, <2>1, <2>2 DEF TypeOK
<1>22. CASE DirectCopierEnds BY <1>22, <1>s, <1>t DEF DirectCopierEnds, TypeOK
<1>23. CASE ReaderEnds BY <1>23, <1>s, <1>t DEF ReaderEnds, TypeOK
<1>24. CASE ReadAnswer
  <2>1. /\ answer' \in {"none", "ok", "bad"} /\ closing' \in {"no", "begun", "done"}
        /\ UNCHANGED <<crashed, copyConn, linkConn>>
    BY <1>t, <1>24 DEF ReadAnswer, TypeOK
  <2>2. UNCHANGED <<mode, caller, reader, copier, stop, server, ends, expired, calls>>
    BY <1>24 DEF ReadAnswer
  <2> QED BY <1>s, <1>t, <2>1, <2>2 DEF TypeOK
<1>25. CASE ReaderBlocks BY <1>25, <1>s, <1>t DEF ReaderBlocks, TypeOK
<1>26. CASE ReadData
  <2>1. /\ reader' = "on" /\ closing' \in {"no", "begun", "done"}
        /\ UNCHANGED <<crashed, copyConn, linkConn>>
    BY <1>t, <1>26 DEF ReadData, TypeOK
  <2>2. UNCHANGED <<mode, caller, answer, copier, stop, server, ends, expired, calls>>
    BY <1>26 DEF ReadData
  <2> QED BY <1>s, <1>t, <2>1, <2>2 DEF TypeOK
<1>27. CASE DirectReaderMoves
  <2>1. /\ reader' = "on" /\ closing' = closing /\ crashed' \in BOOLEAN
        /\ copyConn' \in {"open", "closed"} /\ linkConn' \in {"none", "open", "closed"}
    BY <1>t, <1>27 DEF DirectReaderMoves, TypeOK
  <2>2. UNCHANGED <<mode, caller, answer, copier, stop, server, ends, expired, calls>>
    BY <1>27 DEF DirectReaderMoves
  <2> QED BY <1>s, <1>t, <2>1, <2>2 DEF TypeOK
<1>28. CASE DirectReaderEnds BY <1>28, <1>s, <1>t DEF DirectReaderEnds, TypeOK
<1>29. CASE HandlerEnds BY <1>29, <1>s, <1>t DEF HandlerEnds, TypeOK
<1>30. CASE TakeQ1 BY <1>30, <1>s, <1>t DEF TakeQ1, TypeOK
<1>31. CASE DialTarget BY <1>31, <1>s, <1>t DEF DialTarget, TypeOK
<1>32. CASE DialTargetFails BY <1>32, <1>s, <1>t DEF DialTargetFails, TypeOK
<1>33. CASE WriteA1 BY <1>33, <1>s, <1>t DEF WriteA1, TypeOK
<1>34. CASE HandlerBlocks BY <1>34, <1>s, <1>t DEF HandlerBlocks, TypeOK
<1>35. CASE HandlerMoves
  <2>1. /\ rawConn' \in {"none", "open", "closed"} /\ targetConn' \in {"none", "open", "closed"}
        /\ handler' \in {"off", "init", "dialing", "answer", "relay", "write", "ended"}
    BY <1>t, <1>35 DEF HandlerMoves, TypeOK
  <2>2. UNCHANGED <<mode, client, sockets, relayer, ends, expired, calls>>
    BY <1>35 DEF HandlerMoves
  <2> QED BY <1>s, <1>t, <2>1, <2>2 DEF TypeOK
<1>36. CASE RelayerMoves
  <2>1. /\ rawConn' \in {"none", "open", "closed"} /\ targetConn' \in {"none", "open", "closed"}
        /\ relayer' \in {"off", "on", "ended"}
    BY <1>t, <1>36 DEF RelayerMoves, TypeOK
  <2>2. UNCHANGED <<mode, client, sockets, handler, ends, expired, calls>>
    BY <1>36 DEF RelayerMoves
  <2> QED BY <1>s, <1>t, <2>1, <2>2 DEF TypeOK
<1>37. CASE RelayerEnds BY <1>37, <1>s, <1>t DEF RelayerEnds, TypeOK
<1>38. CASE Expire BY <1>38, <1>s, <1>t DEF Expire, TypeOK
<1>39. ASSUME NEW conn \in {"copy", "link"}, SetDeadline(conn) PROVE TypeOK'
  <2>1. calls' \in 0 .. MaxCalls BY <1>a, <1>39, BoundsAssumption DEF SetDeadline
  <2>2. expired' \subseteq {"raw", "copy", "link"} BY <1>t, <1>39 DEF SetDeadline, TypeOK
  <2> QED BY <1>s, <1>t, <1>39, <2>1, <2>2 DEF SetDeadline, TypeOK
<1>40. CASE UNCHANGED vars BY <1>40, <1>s, <1>t DEF vars, TypeOK
<1> QED
  BY <1>1, <1>2, <1>3, <1>4, <1>5, <1>6, <1>7, <1>8, <1>9, <1>10, <1>11, <1>12, <1>13, <1>14, <1>15,
     <1>16, <1>17, <1>18, <1>19, <1>20, <1>21, <1>22, <1>23, <1>24, <1>25, <1>26, <1>27, <1>28, <1>29, <1>30,
     <1>31, <1>32, <1>33, <1>34, <1>35, <1>36, <1>37, <1>38, <1>39, <1>40
     DEF Next, Caller, Copier, Reader, Handler, Relayer

\* The caller goes on when he has asked.
LEMMA AskGoesOn ==
  ASSUME Ask
  PROVE  caller' \in {"failed", "asking"}
<1>1. CASE closing # "no" BY <1>1 DEF Ask
<1>2. CASE closing = "no"
  <2>1. PICK w : caller' = IF w.fails THEN "failed" ELSE "asking" BY <1>2 DEF Ask
  <2> QED BY <2>1
<1> QED BY <1>1, <1>2

\* A call without an answer sends ConnVPNQ1 at the most.
LEMMA WaitingStep ==
  ASSUME IInv, [Next]_vars
  PROVE  Waiting'
<1> USE DEF client, sockets, server, ends, CallClose, Panic, ServerClose, Waits, Reached, Direct, Waiting, Places
<1>a. /\ up \in [1 .. 3 -> Seq(Item)] /\ down \in [1 .. 3 -> Seq(Item)]
      /\ taken \in [{1, 2} -> Seq(Nat)] /\ Waiting /\ Places
  BY DEF IInv, TypeOK
<1> USE <1>a
<1>1. CASE AppWrite BY <1>1 DEF AppWrite
<1>2. CASE AppRead BY <1>2 DEF AppRead
<1>3. CASE AppLeaves BY <1>3 DEF AppLeaves
<1>4. CASE TargetAccept BY <1>4 DEF TargetAccept
<1>5. CASE TargetWrite BY <1>5 DEF TargetWrite
<1>6. CASE TargetRead BY <1>6 DEF TargetRead
<1>7. CASE TargetLeaves BY <1>7 DEF TargetLeaves
<1>8. CASE DialProxy BY <1>8 DEF DialProxy
<1>9. CASE DialDirect BY <1>9 DEF DialDirect
<1>10. CASE Refused BY <1>10 DEF Refused
<1>11. CASE Ask
  <2>1. Waits /\ up[2] = <<>> /\ ~ Reached /\ handler # "dialing" BY <1>11 DEF Ask
  <2>2. CASE closing # "no" BY <1>11, <2>1, <2>2 DEF Ask
  <2>3. CASE closing = "no"
    <3>1. PICK w \in ClientWrites(up[2], Q1, "link", linkConn, rawConn) : up' = [up EXCEPT ![2] = w.q]
      BY <1>11, <2>3 DEF Ask
    <3>2. Append(<<>>, Q1) = <<Q1>> OBVIOUS
    <3>3. w.q = <<>> \/ w.q = <<Q1>> BY <2>1, <3>2, ClientWriteGoes DEF Goes
    <3>4. up'[2] = w.q /\ up'[3] = up[3] BY <3>1
    <3>5. UNCHANGED <<copier, taken, handler, targetConn>> /\ caller' \in {"failed", "asking"}
      BY <1>11, AskGoesOn DEF Ask
    <3> QED BY <2>1, <3>3, <3>4, <3>5
  <2> QED BY <2>2, <2>3
<1>12. CASE AskTimeout BY <1>12 DEF AskTimeout
<1>13. CASE Answered BY <1>13 DEF Answered
<1>14. CASE WaitReturn BY <1>14 DEF WaitReturn
<1>15. CASE WriteToLinkConn BY <1>15 DEF WriteToLinkConn
<1>16. CASE UserClose BY <1>16 DEF UserClose
<1>17. CASE CloseBody BY <1>17 DEF CloseBody
<1>18. CASE CopierMoves BY <1>18 DEF CopierMoves
<1>19. CASE CopierEnds BY <1>19 DEF CopierEnds
<1>20. CASE DirectCopierBlocks BY <1>20 DEF DirectCopierBlocks
<1>21. CASE DirectCopierMoves BY <1>21 DEF DirectCopierMoves
<1>22. CASE DirectCopierEnds BY <1>22 DEF DirectCopierEnds
<1>23. CASE ReaderEnds BY <1>23 DEF ReaderEnds
<1>24. CASE ReadAnswer BY <1>24 DEF ReadAnswer
<1>25. CASE ReaderBlocks BY <1>25 DEF ReaderBlocks
<1>26. CASE ReadData BY <1>26 DEF ReadData
<1>27. CASE DirectReaderMoves BY <1>27 DEF DirectReaderMoves
<1>28. CASE DirectReaderEnds BY <1>28 DEF DirectReaderEnds
<1>29. CASE HandlerEnds BY <1>29 DEF HandlerEnds
<1>30. CASE TakeQ1
  <2>1. Waits => up'[2] = <<>> /\ up'[3] = up[3]
    <3>1. Waits => up[2] = <<Q1>> BY <1>30 DEF TakeQ1
    <3>2. Tail(<<Q1>>) = <<>> OBVIOUS
    <3>3. up'[2] = Tail(up[2]) /\ up'[3] = up[3] BY <1>30 DEF TakeQ1
    <3>4. Waits => Tail(up[2]) = <<>> BY <3>1, <3>2, Zenon
    <3> QED BY <3>3, <3>4, Zenon
  <2>2. UNCHANGED <<caller, copier, taken>> BY <1>30 DEF TakeQ1
  <2> QED BY <2>1, <2>2
<1>31. CASE DialTarget BY <1>31 DEF DialTarget
<1>32. CASE DialTargetFails BY <1>32 DEF DialTargetFails
<1>33. CASE WriteA1 BY <1>33 DEF WriteA1
<1>34. CASE HandlerBlocks BY <1>34 DEF HandlerBlocks
<1>35. CASE HandlerMoves
  <2>1. ~ Waits BY <1>35 DEF HandlerMoves, IInv, Held
  <2> QED BY <1>35, <2>1 DEF HandlerMoves
<1>36. CASE RelayerMoves BY <1>36 DEF RelayerMoves
<1>37. CASE RelayerEnds BY <1>37 DEF RelayerEnds
<1>38. CASE Expire BY <1>38 DEF Expire
<1>39. ASSUME NEW conn \in {"copy", "link"}, SetDeadline(conn) PROVE Waiting'
  BY <1>39 DEF SetDeadline
<1>40. CASE UNCHANGED vars BY <1>40 DEF vars
<1> QED
  BY <1>1, <1>2, <1>3, <1>4, <1>5, <1>6, <1>7, <1>8, <1>9, <1>10, <1>11, <1>12, <1>13, <1>14, <1>15,
     <1>16, <1>17, <1>18, <1>19, <1>20, <1>21, <1>22, <1>23, <1>24, <1>25, <1>26, <1>27, <1>28, <1>29, <1>30,
     <1>31, <1>32, <1>33, <1>34, <1>35, <1>36, <1>37, <1>38, <1>39, <1>40
     DEF Next, Caller, Copier, Reader, Handler, Relayer

\* Until the target has been reached only "bad" is answered.
LEMMA AnswersStep ==
  ASSUME IInv, [Next]_vars
  PROVE  Answers'
<1> USE DEF client, sockets, server, ends, CallClose, Panic, ServerClose, Waits, Reached, Direct, 
        Waiting, Answers, Places
<1>a. /\ up \in [1 .. 3 -> Seq(Item)] /\ down \in [1 .. 3 -> Seq(Item)]
      /\ taken \in [{1, 2} -> Seq(Nat)] /\ Waiting /\ Answers /\ Places
  BY DEF IInv, TypeOK
<1> USE <1>a
<1>1. CASE AppWrite BY <1>1 DEF AppWrite
<1>2. CASE AppRead
  <2>1. UNCHANGED <<mode, caller, answer, targetConn>> /\ down'[2] = down[2] BY <1>2 DEF AppRead
  <2> QED BY <2>1
<1>3. CASE AppLeaves BY <1>3 DEF AppLeaves
<1>4. CASE TargetAccept BY <1>4 DEF TargetAccept
<1>5. CASE TargetWrite BY <1>5 DEF TargetWrite
<1>6. CASE TargetRead BY <1>6 DEF TargetRead
<1>7. CASE TargetLeaves BY <1>7 DEF TargetLeaves
<1>8. CASE DialProxy BY <1>8 DEF DialProxy
<1>9. CASE DialDirect BY <1>9 DEF DialDirect
<1>10. CASE Refused BY <1>10 DEF Refused
<1>11. CASE Ask BY <1>11 DEF Ask
<1>12. CASE AskTimeout BY <1>12 DEF AskTimeout
<1>13. CASE Answered BY <1>13 DEF Answered
<1>14. CASE WaitReturn BY <1>14 DEF WaitReturn
<1>15. CASE WriteToLinkConn BY <1>15 DEF WriteToLinkConn
<1>16. CASE UserClose BY <1>16 DEF UserClose
<1>17. CASE CloseBody BY <1>17 DEF CloseBody
<1>18. CASE CopierMoves BY <1>18 DEF CopierMoves
<1>19. CASE CopierEnds BY <1>19 DEF CopierEnds
<1>20. CASE DirectCopierBlocks BY <1>20 DEF DirectCopierBlocks
<1>21. CASE DirectCopierMoves BY <1>21 DEF DirectCopierMoves
<1>22. CASE DirectCopierEnds BY <1>22 DEF DirectCopierEnds
<1>23. CASE ReaderEnds BY <1>23 DEF ReaderEnds
<1>24. CASE ReadAnswer BY <1>24 DEF ReadAnswer
<1>25. CASE ReaderBlocks BY <1>25 DEF ReaderBlocks
<1>26. CASE ReadData
  <2>1. Reached
    <3>1. down[2] \in Seq(Item) /\ down[2] # <<>> /\ Head(down[2]).kind = "data" BY <1>26 DEF ReadData
    <3>2. Len(down[2]) \in Nat \ {0} /\ Head(down[2]) = down[2][1] BY <3>1, FirstAndRest
    <3>3. 1 \in 1 .. Len(down[2]) /\ down[2][1].kind = "data" BY <3>1, <3>2
    <3> QED BY <3>3
  <2>2. UNCHANGED <<mode, caller, answer, targetConn>> BY <1>26 DEF ReadData
  <2> QED BY <2>1, <2>2
<1>27. CASE DirectReaderMoves BY <1>27 DEF DirectReaderMoves
<1>28. CASE DirectReaderEnds BY <1>28 DEF DirectReaderEnds
<1>29. CASE HandlerEnds BY <1>29 DEF HandlerEnds
<1>30. CASE TakeQ1 BY <1>30 DEF TakeQ1
<1>31. CASE DialTarget BY <1>31 DEF DialTarget
<1>32. CASE DialTargetFails
  <2>1. PICK w \in RawWrites(A1("bad")) : down' = [down EXCEPT ![2] = w.q] BY <1>32 DEF DialTargetFails
  <2>2. ~ Reached /\ ~ Reached' /\ UNCHANGED <<mode, caller, answer>> BY <1>32 DEF DialTargetFails
  <2>3. down'[2] = w.q /\ (w.q = down[2] \/ w.q = Append(down[2], A1("bad")))
    BY <2>1, RawWriteGoes DEF Goes
  <2>4. \A i \in 1 .. Len(down[2]) : down[2][i].kind = "bad" BY <2>2
  <2>5. \A i \in 1 .. Len(down'[2]) : down'[2][i].kind = "bad"
    <3> DEFINE q == down[2]
    <3>1. q \in Seq(Item) /\ A1("bad") \in Item /\ A1("bad").kind = "bad" BY Kinds DEF A1
    <3> HIDE DEF q
    <3>2. /\ Len(q) \in Nat /\ Len(Append(q, A1("bad"))) = Len(q) + 1
          /\ Append(q, A1("bad"))[Len(q) + 1] = A1("bad")
          /\ \A i \in 1 .. Len(q) : Append(q, A1("bad"))[i] = q[i]
      BY <3>1, AppendProperties, LenProperties
    <3>3. \A i \in 1 .. Len(Append(q, A1("bad"))) : Append(q, A1("bad"))[i].kind = "bad"
      <4> SUFFICES ASSUME NEW i \in 1 .. Len(q) + 1 PROVE Append(q, A1("bad"))[i].kind = "bad"
        BY <3>2
      <4>1. i \in 1 .. Len(q) \/ i = Len(q) + 1 BY <3>2
      <4> QED BY <2>4, <3>1, <3>2, <4>1 DEF q
    <3> QED BY <2>3, <2>4, <3>3 DEF q
  <2> QED BY <2>2, <2>5
<1>33. CASE WriteA1 BY <1>33 DEF WriteA1
<1>34. CASE HandlerBlocks BY <1>34 DEF HandlerBlocks
<1>35. CASE HandlerMoves BY <1>35 DEF HandlerMoves
<1>36. CASE RelayerMoves BY <1>36 DEF RelayerMoves
<1>37. CASE RelayerEnds BY <1>37 DEF RelayerEnds
<1>38. CASE Expire BY <1>38 DEF Expire
<1>39. ASSUME NEW conn \in {"copy", "link"}, SetDeadline(conn) PROVE Answers'
  BY <1>39 DEF SetDeadline
<1>40. CASE UNCHANGED vars BY <1>40 DEF vars
<1> QED
  BY <1>1, <1>2, <1>3, <1>4, <1>5, <1>6, <1>7, <1>8, <1>9, <1>10, <1>11, <1>12, <1>13, <1>14, <1>15,
     <1>16, <1>17, <1>18, <1>19, <1>20, <1>21, <1>22, <1>23, <1>24, <1>25, <1>26, <1>27, <1>28, <1>29, <1>30,
     <1>31, <1>32, <1>33, <1>34, <1>35, <1>36, <1>37, <1>38, <1>39, <1>40
     DEF Next, Caller, Copier, Reader, Handler, Relayer

\* Every goroutine and socket goes its way.
LEMMA PlacesStep ==
  ASSUME IInv, [Next]_vars
  PROVE  Places'
<1> USE DEF client, sockets, server, ends, CallClose, Panic, ServerClose, Waits, Reached, Direct, 
        Waiting, Answers, Places
<1>a. /\ up \in [1 .. 3 -> Seq(Item)] /\ down \in [1 .. 3 -> Seq(Item)]
      /\ taken \in [{1, 2} -> Seq(Nat)] /\ Waiting /\ Answers /\ Places
  BY DEF IInv, TypeOK
<1> USE <1>a
<1>1. CASE AppWrite BY <1>1 DEF AppWrite
<1>2. CASE AppRead BY <1>2 DEF AppRead
<1>3. CASE AppLeaves BY <1>3 DEF AppLeaves
<1>4. CASE TargetAccept BY <1>4 DEF TargetAccept
<1>5. CASE TargetWrite BY <1>5 DEF TargetWrite
<1>6. CASE TargetRead BY <1>6 DEF TargetRead
<1>7. CASE TargetLeaves BY <1>7 DEF TargetLeaves
<1>8. CASE DialProxy BY <1>8 DEF DialProxy
<1>9. CASE DialDirect BY <1>9 DEF DialDirect
<1>10. CASE Refused BY <1>10 DEF Refused
<1>11. CASE Ask
  <2>1. ~ Direct BY <1>11 DEF Ask
  <2>2. /\ UNCHANGED <<mode, reader, closing, crashed, sockets, server, target, down>>
        /\ caller' \in {"failed", "asking"}
    BY <1>11, AskGoesOn DEF Ask
  <2> QED BY <2>1, <2>2
<1>12. CASE AskTimeout BY <1>12 DEF AskTimeout
<1>13. CASE Answered BY <1>13 DEF Answered
<1>14. CASE WaitReturn BY <1>14 DEF WaitReturn
<1>15. CASE WriteToLinkConn BY <1>15 DEF WriteToLinkConn
<1>16. CASE UserClose BY <1>16 DEF UserClose
<1>17. CASE CloseBody
  <2>1. ~ Direct BY <1>17 DEF CloseBody
  <2>2. /\ UNCHANGED <<mode, caller, answer, reader, crashed, server, target, up, down>>
        /\ copyConn' = "closed" /\ linkConn' = "closed" /\ caller # "idle"
    BY <1>17 DEF CloseBody
  <2> QED BY <2>1, <2>2
<1>18. CASE CopierMoves BY <1>18 DEF CopierMoves
<1>19. CASE CopierEnds BY <1>19 DEF CopierEnds
<1>20. CASE DirectCopierBlocks BY <1>20 DEF DirectCopierBlocks
<1>21. CASE DirectCopierMoves BY <1>21 DEF DirectCopierMoves
<1>22. CASE DirectCopierEnds BY <1>22 DEF DirectCopierEnds
<1>23. CASE ReaderEnds BY <1>23 DEF ReaderEnds
<1>24. CASE ReadAnswer BY <1>24 DEF ReadAnswer
<1>25. CASE ReaderBlocks BY <1>25 DEF ReaderBlocks
<1>26. CASE ReadData BY <1>26 DEF ReadData
<1>27. CASE DirectReaderMoves BY <1>27 DEF DirectReaderMoves
<1>28. CASE DirectReaderEnds BY <1>28 DEF DirectReaderEnds
<1>29. CASE HandlerEnds BY <1>29 DEF HandlerEnds
<1>30. CASE TakeQ1 BY <1>30 DEF TakeQ1
<1>31. CASE DialTarget BY <1>31 DEF DialTarget
<1>32. CASE DialTargetFails BY <1>32 DEF DialTargetFails
<1>33. CASE WriteA1 BY <1>33 DEF WriteA1
<1>34. CASE HandlerBlocks BY <1>34 DEF HandlerBlocks
<1>35. CASE HandlerMoves BY <1>35 DEF HandlerMoves
<1>36. CASE RelayerMoves BY <1>36 DEF RelayerMoves
<1>37. CASE RelayerEnds BY <1>37 DEF RelayerEnds
<1>38. CASE Expire BY <1>38 DEF Expire
<1>39. ASSUME NEW conn \in {"copy", "link"}, SetDeadline(conn) PROVE Places'
  BY <1>39 DEF SetDeadline
<1>40. CASE UNCHANGED vars BY <1>40 DEF vars
<1> QED
  BY <1>1, <1>2, <1>3, <1>4, <1>5, <1>6, <1>7, <1>8, <1>9, <1>10, <1>11, <1>12, <1>13, <1>14, <1>15,
     <1>16, <1>17, <1>18, <1>19, <1>20, <1>21, <1>22, <1>23, <1>24, <1>25, <1>26, <1>27, <1>28, <1>29, <1>30,
     <1>31, <1>32, <1>33, <1>34, <1>35, <1>36, <1>37, <1>38, <1>39, <1>40
     DEF Next, Caller, Copier, Reader, Handler, Relayer

\* Who waits in a Write holds what he has read.
LEMMA HeldStep ==
  ASSUME IInv, [Next]_vars
  PROVE  Held'
<1> USE DEF client, sockets, server, ends, CallClose, Panic, ServerClose, Waits, Reached, Direct, 
        Waiting, Places, Held
<1>a. /\ up \in [1 .. 3 -> Seq(Item)] /\ down \in [1 .. 3 -> Seq(Item)]
      /\ taken \in [{1, 2} -> Seq(Nat)] /\ Waiting /\ Places /\ Held
  BY DEF IInv, TypeOK
<1> USE <1>a
<1>b. /\ up[1] \in Seq(Datum) /\ up[2] \in Seq(Item) /\ down[1] \in Seq(Datum) /\ down[2] \in Seq(Item)
      /\ calls \in Nat
  BY BoundsAssumption DEF IInv, TypeOK, Carried
<1>1. CASE AppWrite BY <1>1 DEF AppWrite
<1>2. CASE AppRead BY <1>2 DEF AppRead
<1>3. CASE AppLeaves BY <1>3 DEF AppLeaves
<1>4. CASE TargetAccept BY <1>4 DEF TargetAccept
<1>5. CASE TargetWrite BY <1>5 DEF TargetWrite
<1>6. CASE TargetRead BY <1>6 DEF TargetRead
<1>7. CASE TargetLeaves BY <1>7 DEF TargetLeaves
<1>8. CASE DialProxy BY <1>8 DEF DialProxy
<1>9. CASE DialDirect BY <1>9 DEF DialDirect
<1>10. CASE Refused BY <1>10 DEF Refused
<1>11. CASE Ask BY <1>11 DEF Ask
<1>12. CASE AskTimeout BY <1>12 DEF AskTimeout
<1>13. CASE Answered BY <1>13 DEF Answered
<1>14. CASE WaitReturn BY <1>14 DEF WaitReturn
<1>15. CASE WriteToLinkConn
  <2>1. up[2] # <<>> => up'[2] # <<>>
    <3>1. CASE Direct BY <1>15, <3>1 DEF WriteToLinkConn
    <3>2. CASE ~ Direct
      <4>1. PICK w \in ClientWrites(up[2], Own(calls'), "link", linkConn, rawConn) :
              up' = [up EXCEPT ![2] = w.q]
        BY <1>15, <3>2 DEF WriteToLinkConn
      <4>2. Own(calls') \in Item
        <5>1. calls' \in Nat BY <1>b, <1>15, BoundsAssumption DEF WriteToLinkConn
        <5> QED BY <5>1, Kinds
      <4>3. up'[2] = w.q /\ up[2] \in Seq(Item) BY <1>a, <4>1
      <4> QED BY <4>2, <4>3, ClientWriteGoes, GoesBehind
    <3> QED BY <3>1, <3>2
  <2>2. UNCHANGED <<mode, reader, down, handler>> BY <1>15 DEF WriteToLinkConn
  <2> QED BY <2>1, <2>2
<1>16. CASE UserClose BY <1>16 DEF UserClose
<1>17. CASE CloseBody BY <1>17 DEF CloseBody
<1>18. CASE CopierMoves
  <2>1. PICK w \in ClientWrites(up[2], Head(up[1]), "link", linkConn, rawConn) :
          up' = [up EXCEPT ![1] = Tail(@), ![2] = w.q]
    BY <1>18 DEF CopierMoves
  <2>2. up[2] # <<>> => up'[2] # <<>>
    <3>1. Head(up[1]) \in Item /\ up[2] \in Seq(Item) BY <1>b, <1>18, FirstAndRest, Kinds DEF CopierMoves
    <3>2. up'[2] = w.q BY <1>a, <2>1
    <3> QED BY <3>1, <3>2, ClientWriteGoes, GoesBehind
  <2>3. UNCHANGED <<mode, reader, down, handler>> BY <1>18 DEF CopierMoves
  <2> QED BY <2>2, <2>3
<1>19. CASE CopierEnds BY <1>19 DEF CopierEnds
<1>20. CASE DirectCopierBlocks BY <1>20 DEF DirectCopierBlocks
<1>21. CASE DirectCopierMoves BY <1>21 DEF DirectCopierMoves
<1>22. CASE DirectCopierEnds BY <1>22 DEF DirectCopierEnds
<1>23. CASE ReaderEnds BY <1>23 DEF ReaderEnds
<1>24. CASE ReadAnswer BY <1>24 DEF ReadAnswer
<1>25. CASE ReaderBlocks BY <1>25 DEF ReaderBlocks
<1>26. CASE ReadData BY <1>26 DEF ReadData
<1>27. CASE DirectReaderMoves BY <1>27 DEF DirectReaderMoves
<1>28. CASE DirectReaderEnds BY <1>28 DEF DirectReaderEnds
<1>29. CASE HandlerEnds BY <1>29 DEF HandlerEnds
<1>30. CASE TakeQ1 BY <1>30 DEF TakeQ1
<1>31. CASE DialTarget BY <1>31 DEF DialTarget
<1>32. CASE DialTargetFails
  <2>1. PICK w \in RawWrites(A1("bad")) : down' = [down EXCEPT ![2] = w.q]
    BY <1>32 DEF DialTargetFails
  <2>2. down[2] # <<>> => down'[2] # <<>> /\ Head(down'[2]) = Head(down[2])
    <3>1. A1("bad") \in Item /\ down[2] \in Seq(Item) BY <1>b, Kinds
    <3>2. down'[2] = w.q BY <1>a, <2>1
    <3> QED BY <3>1, <3>2, RawWriteGoes, GoesBehind
  <2>3. UNCHANGED <<mode, reader, up>> /\ (handler' = "write" => handler = "write")
    BY <1>32 DEF DialTargetFails
  <2> QED BY <2>2, <2>3
<1>33. CASE WriteA1
  <2>1. PICK w \in RawWrites(A1("ok")) : down' = [down EXCEPT ![2] = w.q]
    BY <1>33 DEF WriteA1
  <2>2. down[2] # <<>> => down'[2] # <<>> /\ Head(down'[2]) = Head(down[2])
    <3>1. A1("ok") \in Item /\ down[2] \in Seq(Item) BY <1>b, Kinds
    <3>2. down'[2] = w.q BY <1>a, <2>1
    <3> QED BY <3>1, <3>2, RawWriteGoes, GoesBehind
  <2>3. UNCHANGED <<mode, reader, up>> /\ (handler' = "write" => handler = "write")
    BY <1>33 DEF WriteA1
  <2> QED BY <2>2, <2>3
<1>34. CASE HandlerBlocks BY <1>34 DEF HandlerBlocks
<1>35. CASE HandlerMoves BY <1>35 DEF HandlerMoves
<1>36. CASE RelayerMoves
  <2>1. PICK w \in RawWrites(Head(down[1])) : down' = [down EXCEPT ![1] = Tail(@), ![2] = w.q]
    BY <1>36 DEF RelayerMoves
  <2>2. down[2] # <<>> => down'[2] # <<>> /\ Head(down'[2]) = Head(down[2])
    <3>1. Head(down[1]) \in Item /\ down[2] \in Seq(Item) BY <1>b, Kinds, FirstAndRest, <1>36 DEF RelayerMoves
    <3>2. down'[2] = w.q BY <1>a, <2>1
    <3> QED BY <3>1, <3>2, RawWriteGoes, GoesBehind
  <2>3. UNCHANGED <<mode, reader, up>> /\ (handler' = "write" => handler = "write")
    BY <1>36 DEF RelayerMoves
  <2> QED BY <2>2, <2>3
<1>37. CASE RelayerEnds BY <1>37 DEF RelayerEnds
<1>38. CASE Expire BY <1>38 DEF Expire
<1>39. ASSUME NEW conn \in {"copy", "link"}, SetDeadline(conn) PROVE Held'
  BY <1>39 DEF SetDeadline
<1>40. CASE UNCHANGED vars BY <1>40 DEF vars
<1> QED
  BY <1>1, <1>2, <1>3, <1>4, <1>5, <1>6, <1>7, <1>8, <1>9, <1>10, <1>11, <1>12, <1>13, <1>14, <1>15,
     <1>16, <1>17, <1>18, <1>19, <1>20, <1>21, <1>22, <1>23, <1>24, <1>25, <1>26, <1>27, <1>28, <1>29, <1>30,
     <1>31, <1>32, <1>33, <1>34, <1>35, <1>36, <1>37, <1>38, <1>39, <1>40
     DEF Next, Caller, Copier, Reader, Handler, Relayer

\* The link keeps its invariant.
THEOREM Invariant == Spec => []IInv
<1>1. IInv /\ [Next]_vars => IInv'
  BY TypeStep, CarriedStep, WaitingStep, AnswersStep, PlacesStep, HeldStep DEF IInv
<1> QED BY InitIInv, <1>1, PTL DEF Spec

\* The variables of the link have their types (client_vpn.go, proxy_vpn.go).
THEOREM TypesOK == Spec => []TypeOK
<1>1. IInv => TypeOK BY DEF IInv
<1> QED BY Invariant, <1>1, PTL

\* Who was told that LinkOtherConn has failed has sent nothing to the target:
\* until then his only message is ConnVPNQ1, which the server keeps to itself.
THEOREM FailedCallsSendNothing == Spec => []FailedCallSendsNothing
<1>1. IInv => FailedCallSendsNothing BY DEF IInv, Waiting, Waits, FailedCallSendsNothing
<1> QED BY Invariant, <1>1, PTL

\* Nobody who ends leaves open what nobody else will close: the copy loop closes
\* copyConn, the reader of a link calls Close, whose body closes both of its sockets,
\* and either goroutine of the server closes rawConn and the target's connection.
\* And the token of Close is there until Wait takes it.
NothingLeftOpen ==
  /\ ~ Direct /\ copier = "ended" => copyConn = "closed"
  /\ ~ Direct /\ reader = "ended" => closing # "no"
  /\ crashed \/ closing = "done" => copyConn = "closed" /\ linkConn = "closed"
  /\ "ended" \in {handler, relayer} => rawConn = "closed" /\ targetConn # "open"
  /\ closing = "done" <=> stop \/ caller = "done"

\* No action ends a goroutine and leaves its sockets open.
LEMMA EndsStep ==
  ASSUME IInv, NothingLeftOpen, [Next]_vars
  PROVE  NothingLeftOpen'
<1> USE DEF IInv, client, sockets, server, ends, CallClose, Panic, ServerClose, Direct,
        Places, NothingLeftOpen
<1>1. CASE AppWrite BY <1>1 DEF AppWrite
<1>2. CASE AppRead BY <1>2 DEF AppRead
<1>3. CASE AppLeaves BY <1>3 DEF AppLeaves
<1>4. CASE TargetAccept BY <1>4 DEF TargetAccept
<1>5. CASE TargetWrite BY <1>5 DEF TargetWrite
<1>6. CASE TargetRead BY <1>6 DEF TargetRead
<1>7. CASE TargetLeaves BY <1>7 DEF TargetLeaves
<1>8. CASE DialProxy BY <1>8 DEF DialProxy
<1>9. CASE DialDirect BY <1>9 DEF DialDirect
<1>10. CASE Refused BY <1>10 DEF Refused
<1>11. CASE Ask
  <2>1. /\ UNCHANGED <<mode, reader, copier, closing, stop, crashed, sockets, server>>
        /\ caller = "dialed" /\ caller' \in {"failed", "asking"}
    BY <1>11, AskGoesOn DEF Ask
  <2> QED BY <2>1
<1>12. CASE AskTimeout BY <1>12 DEF AskTimeout
<1>13. CASE Answered BY <1>13 DEF Answered
<1>14. CASE WaitReturn BY <1>14 DEF WaitReturn
<1>15. CASE WriteToLinkConn BY <1>15 DEF WriteToLinkConn
<1>16. CASE UserClose BY <1>16 DEF UserClose
<1>17. CASE CloseBody
  <2>1. /\ UNCHANGED <<mode, caller, reader, copier, crashed, server>>
        /\ copyConn' = "closed" /\ linkConn' = "closed" /\ closing' = "done" /\ stop'
    BY <1>17 DEF CloseBody
  <2> QED BY <2>1
<1>18. CASE CopierMoves BY <1>18 DEF CopierMoves
<1>19. CASE CopierEnds BY <1>19 DEF CopierEnds
<1>20. CASE DirectCopierBlocks BY <1>20 DEF DirectCopierBlocks
<1>21. CASE DirectCopierMoves BY <1>21 DEF DirectCopierMoves
<1>22. CASE DirectCopierEnds BY <1>22 DEF DirectCopierEnds
<1>23. CASE ReaderEnds BY <1>23 DEF ReaderEnds
<1>24. CASE ReadAnswer BY <1>24 DEF ReadAnswer
<1>25. CASE ReaderBlocks BY <1>25 DEF ReaderBlocks
<1>26. CASE ReadData BY <1>26 DEF ReadData
<1>27. CASE DirectReaderMoves BY <1>27 DEF DirectReaderMoves
<1>28. CASE DirectReaderEnds BY <1>28 DEF DirectReaderEnds
<1>29. CASE HandlerEnds BY <1>29 DEF HandlerEnds
<1>30. CASE TakeQ1 BY <1>30 DEF TakeQ1
<1>31. CASE DialTarget BY <1>31 DEF DialTarget
<1>32. CASE DialTargetFails BY <1>32 DEF DialTargetFails
<1>33. CASE WriteA1 BY <1>33 DEF WriteA1
<1>34. CASE HandlerBlocks BY <1>34 DEF HandlerBlocks
<1>35. CASE HandlerMoves BY <1>35 DEF HandlerMoves
<1>36. CASE RelayerMoves BY <1>36 DEF RelayerMoves
<1>37. CASE RelayerEnds BY <1>37 DEF RelayerEnds
<1>38. CASE Expire BY <1>38 DEF Expire
<1>39. ASSUME NEW conn \in {"copy", "link"}, SetDeadline(conn) PROVE NothingLeftOpen'
  BY <1>39 DEF SetDeadline
<1>40. CASE UNCHANGED vars BY <1>40 DEF vars
<1> QED
  BY <1>1, <1>2, <1>3, <1>4, <1>5, <1>6, <1>7, <1>8, <1>9, <1>10, <1>11, <1>12, <1>13, <1>14, <1>15,
     <1>16, <1>17, <1>18, <1>19, <1>20, <1>21, <1>22, <1>23, <1>24, <1>25, <1>26, <1>27, <1>28, <1>29, <1>30,
     <1>31, <1>32, <1>33, <1>34, <1>35, <1>36, <1>37, <1>38, <1>39, <1>40
     DEF Next, Caller, Copier, Reader, Handler, Relayer

\* However a link ends, by the application, the target, a deadline, a failed write or a
\* LinkOtherConn that has given up, no goroutine ends and leaves a socket behind
\* (client_vpn.go Close, proxy_client.go:155), and Wait has its token.
THEOREM EndsAreClosed == Spec => []NothingLeftOpen
<1>1. Init => NothingLeftOpen BY DEF Init, NothingLeftOpen
<1>2. IInv /\ NothingLeftOpen /\ [Next]_vars => NothingLeftOpen' BY EndsStep
<1> QED BY <1>1, <1>2, Invariant, PTL DEF Spec

-----------------------------------------------------------------------------
(* Numbers *)

\* A set of numbers that is not empty has a smallest one.
LEMMA Smallest ==
  ASSUME NEW T \in SUBSET Nat, T # {}
  PROVE  \E m \in T : \A k \in T : m <= k
<1>1. IsWellFoundedOn(OpToRel(<, Nat), Nat) BY NatLessThanWellFounded
<1>2. \E x \in T : \A y \in T : ~ (<<y, x>> \in OpToRel(<, Nat)) BY <1>1, WFMin
<1>3. \E x \in T : \A y \in T : ~ (y < x) BY <1>2 DEF OpToRel
<1> QED BY <1>3

\* What holds of 0, and of i + 1 whenever it holds of i, holds up to n.
LEMMA Induction ==
  ASSUME NEW n \in Nat, NEW T, 0 \in T, \A i \in 0 .. n - 1 : i \in T => i + 1 \in T
  PROVE  \A i \in 0 .. n : i \in T
<1> SUFFICES ASSUME NEW i \in 0 .. n, i \notin T PROVE FALSE OBVIOUS
<1> DEFINE U == {k \in 0 .. n : k \notin T}
<1>1. U \in SUBSET Nat /\ U # {} OBVIOUS
<1>2. PICK m \in U : \A k \in U : m <= k BY <1>1, Smallest
<1>3. m # 0 /\ m \in 1 .. n BY <1>2
<1>4. m - 1 \in 0 .. n - 1 /\ m - 1 \in 0 .. n /\ ~ (m <= m - 1) /\ (m - 1) + 1 = m BY <1>3
<1>5. m - 1 \in T BY <1>2, <1>4
<1> QED BY <1>2, <1>4, <1>5

\* The numbers up to a place, from those up to the place before.
Then(b, m) == IF m.kind = "data" THEN Append(b, m.n) ELSE b

\* n[i] are the numbers of the first i items of q.
Counts(n, q, k) == n[0] = <<>> /\ \A i \in 1 .. k : n[i] = Then(n[i - 1], q[i])

LEMMA ThenType ==
  ASSUME NEW b \in Seq(Nat), NEW m \in Item
  PROVE  Then(b, m) \in Seq(Nat)
<1>1. m.n \in Nat BY Kinds
<1>2. Append(b, m.n) \in Seq(Nat) BY <1>1, AppendProperties
<1> QED BY <1>2 DEF Then

\* There is one way to count.
LEMMA CountsOnce ==
  ASSUME NEW q, NEW k \in Nat, NEW f, NEW g, Counts(f, q, k), Counts(g, q, k)
  PROVE  \A i \in 0 .. k : f[i] = g[i]
<1> DEFINE T == {i \in 0 .. k : f[i] = g[i]}
<1>1. 0 \in T BY DEF Counts
<1>2. ASSUME NEW i \in 0 .. k - 1, i \in T PROVE i + 1 \in T
  <2>1. i + 1 \in 1 .. k /\ i + 1 \in 0 .. k /\ (i + 1) - 1 = i OBVIOUS
  <2>2. f[i + 1] = Then(f[i], q[i + 1]) /\ g[i + 1] = Then(g[i], q[i + 1]) BY <2>1 DEF Counts
  <2>3. f[i + 1] = g[i + 1] BY <1>2, <2>2
  <2> QED BY <2>1, <2>3
<1> HIDE DEF T
<1>3. \A i \in 0 .. k : i \in T BY <1>1, <1>2, Induction
<1> QED BY <1>3 DEF T

\* And there is one.
LEMMA Countable ==
  ASSUME NEW q \in Seq(Item)
  PROVE  \E n \in [0 .. Len(q) -> Seq(Nat)] : Counts(n, q, Len(q))
<1> DEFINE T == {k \in 0 .. Len(q) : \E n \in [0 .. k -> Seq(Nat)] : Counts(n, q, k)}
<1>1. Len(q) \in Nat /\ \A i \in 1 .. Len(q) : q[i] \in Item BY LenProperties, ElementOfSeq
<1>2. 0 \in T
  <2> DEFINE n == [i \in 0 .. 0 |-> <<>>]
  <2>1. n \in [0 .. 0 -> Seq(Nat)] OBVIOUS
  <2>2. n[0] = <<>> OBVIOUS
  <2>3. 0 \in 0 .. Len(q) BY <1>1
  <2> HIDE DEF n
  <2>4. Counts(n, q, 0) BY <2>2 DEF Counts
  <2> QED BY <2>1, <2>3, <2>4
<1>3. ASSUME NEW k \in 0 .. Len(q) - 1, k \in T PROVE k + 1 \in T
  <2>1. PICK n \in [0 .. k -> Seq(Nat)] : Counts(n, q, k) BY <1>3
  <2> DEFINE next == Then(n[k], q[k + 1])
             o == [i \in 0 .. k + 1 |-> IF i = k + 1 THEN next ELSE n[i]]
  <2>2. k + 1 \in 1 .. Len(q) /\ k \in 0 .. k /\ k + 1 \in 0 .. Len(q) /\ k \in Nat BY <1>1
  <2>3. next \in Seq(Nat) BY <1>1, <2>2, ThenType
  <2> HIDE DEF next
  <2>4. o \in [0 .. k + 1 -> Seq(Nat)] BY <2>2, <2>3
  <2>5. Counts(o, q, k + 1)
    <3>1. o[0] = <<>> BY <2>1, <2>2 DEF Counts
    <3>2. ASSUME NEW i \in 1 .. k + 1 PROVE o[i] = Then(o[i - 1], q[i])
      <4>1. i \in 0 .. k + 1 /\ i - 1 \in 0 .. k /\ i - 1 \in 0 .. k + 1 /\ i - 1 # k + 1 BY <2>2
      <4>2. o[i - 1] = n[i - 1] BY <4>1
      <4>3. CASE i = k + 1
        <5>1. i - 1 = k BY <2>2, <4>3
        <5>2. o[i] = next BY <4>1, <4>3
        <5> QED BY <4>2, <4>3, <5>1, <5>2 DEF next
      <4>4. CASE i # k + 1
        <5>1. i \in 1 .. k BY <2>2, <4>4
        <5>2. o[i] = n[i] BY <4>1, <4>4
        <5>3. n[i] = Then(n[i - 1], q[i]) BY <2>1, <5>1 DEF Counts
        <5> QED BY <4>2, <5>2, <5>3
      <4> QED BY <4>3, <4>4
    <3> HIDE DEF o
    <3> QED BY <3>1, <3>2 DEF Counts
  <2> HIDE DEF o
  <2> QED BY <2>2, <2>4, <2>5
<1> HIDE DEF T
<1>4. \A k \in 0 .. Len(q) : k \in T BY <1>1, <1>2, <1>3, Induction
<1>5. Len(q) \in T BY <1>1, <1>4
<1> QED BY <1>5 DEF T

\* Numbers counts.
LEMMA NumbersCount ==
  ASSUME NEW q \in Seq(Item), NEW n, Counts(n, q, Len(q))
  PROVE  Numbers(q) = n[Len(q)]
<1> DEFINE Of(m) == [i \in 0 .. Len(q) |-> IF i = 0 THEN <<>>
                                         ELSE IF q[i].kind = "data" THEN Append(m[i - 1], q[i].n)
                                         ELSE m[i - 1]]
           found == CHOOSE m : m = Of(m)
<1>1. Len(q) \in Nat BY LenProperties
<1>2. Numbers(q) = found[Len(q)] BY DEF Numbers
<1>3. found = Of(found)
  <2>1. PICK m \in [0 .. Len(q) -> Seq(Nat)] : Counts(m, q, Len(q)) BY Countable
  <2>2. ASSUME NEW i \in 0 .. Len(q) PROVE m[i] = Of(m)[i]
    <3>1. CASE i = 0 BY <2>1, <3>1 DEF Counts
    <3>2. CASE i # 0
      <4>1. i \in 1 .. Len(q) BY <1>1, <3>2
      <4>2. m[i] = Then(m[i - 1], q[i]) BY <2>1, <4>1 DEF Counts
      <4> QED BY <3>2, <4>2 DEF Then
    <3> QED BY <3>1, <3>2
  <2>3. m = [i \in 0 .. Len(q) |-> m[i]] OBVIOUS
  <2>4. m = Of(m) BY <2>2, <2>3
  <2> HIDE DEF Of
  <2> QED BY <2>4
<1> HIDE DEF found
<1>4. Counts(found, q, Len(q))
  <2>1. found[0] = <<>> BY <1>1, <1>3
  <2>2. ASSUME NEW i \in 1 .. Len(q) PROVE found[i] = Then(found[i - 1], q[i])
    <3>1. i \in 0 .. Len(q) /\ i # 0 BY <1>1
    <3>2. found[i] = Of(found)[i] BY <1>3
    <3>3. Of(found)[i] = Then(found[i - 1], q[i]) BY <3>1 DEF Then
    <3> QED BY <3>2, <3>3
  <2> HIDE DEF Of
  <2> QED BY <2>1, <2>2 DEF Counts
<1>5. \A i \in 0 .. Len(q) : found[i] = n[i] BY <1>1, <1>4, CountsOnce
<1> QED BY <1>1, <1>2, <1>5

LEMMA NumbersType ==
  ASSUME NEW q \in Seq(Item)
  PROVE  Numbers(q) \in Seq(Nat)
<1>1. Len(q) \in Nat BY LenProperties
<1>2. PICK n \in [0 .. Len(q) -> Seq(Nat)] : Counts(n, q, Len(q)) BY Countable
<1>3. Numbers(q) = n[Len(q)] BY <1>2, NumbersCount
<1> QED BY <1>1, <1>2, <1>3

\* Nothing has no numbers, a datum its own, and what is no datum none.
LEMMA NumbersOfNone == Numbers(<<>>) = <<>>
<1>1. <<>> \in Seq(Item) /\ Len(<<>>) = 0 OBVIOUS
<1>2. PICK n \in [0 .. Len(<<>>) -> Seq(Nat)] : Counts(n, <<>>, Len(<<>>)) BY <1>1, Countable
<1>3. Numbers(<<>>) = n[0] BY <1>1, <1>2, NumbersCount
<1> QED BY <1>2, <1>3 DEF Counts

LEMMA NumbersOfOne ==
  ASSUME NEW m \in Item
  PROVE  Numbers(<<m>>) = IF m.kind = "data" THEN <<m.n>> ELSE <<>>
<1>1. <<m>> \in Seq(Item) /\ Len(<<m>>) = 1 /\ <<m>>[1] = m OBVIOUS
<1>2. PICK n \in [0 .. Len(<<m>>) -> Seq(Nat)] : Counts(n, <<m>>, Len(<<m>>)) BY <1>1, Countable
<1>3. Numbers(<<m>>) = n[1] BY <1>1, <1>2, NumbersCount
<1>4. n[0] = <<>> /\ n[1] = Then(n[1 - 1], m) BY <1>1, <1>2 DEF Counts
<1>5. n[1] = Then(<<>>, m)
  <2>1. 1 - 1 = 0 OBVIOUS
  <2> QED BY <1>4, <2>1
<1>6. Append(<<>>, m.n) = <<m.n>> OBVIOUS
<1> QED BY <1>3, <1>5, <1>6 DEF Then

\* An item behind others.
LEMMA ThenBehind ==
  ASSUME NEW a \in Seq(Nat), NEW b \in Seq(Nat), NEW m \in Item
  PROVE  Then(a \o b, m) = a \o Then(b, m)
<1>1. m.n \in Nat BY Kinds
<1>2. Append(a \o b, m.n) = a \o Append(b, m.n)
  <2>1. a \o b \in Seq(Nat) /\ <<m.n>> \in Seq(Nat) BY <1>1, ConcatProperties
  <2>2. Append(a \o b, m.n) = (a \o b) \o <<m.n>> BY <1>1, <2>1, AppendIsConcat
  <2>3. Append(b, m.n) = b \o <<m.n>> BY <1>1, AppendIsConcat
  <2>4. (a \o b) \o <<m.n>> = a \o (b \o <<m.n>>) BY <2>1, ConcatAssociative
  <2> QED BY <2>2, <2>3, <2>4
<1> QED BY <1>2 DEF Then

\* The numbers of two are those of the first, then those of the second.
LEMMA NumbersOfTwo ==
  ASSUME NEW a \in Seq(Item), NEW b \in Seq(Item)
  PROVE  Numbers(a \o b) = Numbers(a) \o Numbers(b)
<1>1. Len(a) \in Nat /\ Len(b) \in Nat /\ \A j \in 1 .. Len(b) : b[j] \in Item
  BY LenProperties, ElementOfSeq
<1>2. PICK f \in [0 .. Len(a) -> Seq(Nat)] : Counts(f, a, Len(a)) BY Countable
<1>3. PICK g \in [0 .. Len(b) -> Seq(Nat)] : Counts(g, b, Len(b)) BY Countable
<1>4. Numbers(a) = f[Len(a)] /\ Numbers(b) = g[Len(b)] BY <1>2, <1>3, NumbersCount
<1> DEFINE p == a \o b
           e == f[Len(a)]
           h == [i \in 0 .. Len(a) + Len(b) |-> IF i <= Len(a) THEN f[i] ELSE e \o g[i - Len(a)]]
<1>5. /\ p \in Seq(Item) /\ Len(p) = Len(a) + Len(b)
      /\ \A i \in 1 .. Len(a) + Len(b) : p[i] = IF i <= Len(a) THEN a[i] ELSE b[i - Len(a)]
  BY ConcatProperties
<1>6. e \in Seq(Nat) /\ \A j \in 0 .. Len(b) : g[j] \in Seq(Nat) BY <1>1
<1>7. e \o <<>> = e BY <1>6, ConcatEmptySeq
<1>8. g[0] = <<>> /\ f[0] = <<>> BY <1>2, <1>3 DEF Counts
<1> HIDE DEF p
<1>9. \A j \in 0 .. Len(b) : h[Len(a) + j] = e \o g[j]
  <2> SUFFICES ASSUME NEW j \in 0 .. Len(b) PROVE h[Len(a) + j] = e \o g[j] OBVIOUS
  <2>1. Len(a) + j \in 0 .. Len(a) + Len(b) /\ (Len(a) + j) - Len(a) = j BY <1>1
  <2>2. CASE j = 0
    <3>1. Len(a) + j = Len(a) BY <1>1, <2>2
    <3>2. h[Len(a)] = f[Len(a)]
      <4>1. Len(a) \in 0 .. Len(a) + Len(b) /\ Len(a) <= Len(a) BY <1>1
      <4> QED BY <4>1
    <3> QED BY <1>7, <1>8, <2>2, <3>1, <3>2
  <2>3. CASE j # 0
    <3>1. ~ (Len(a) + j <= Len(a)) BY <1>1, <2>3
    <3> QED BY <2>1, <3>1
  <2> QED BY <2>2, <2>3
<1>10. \A i \in 0 .. Len(a) : h[i] = f[i] BY <1>1
<1> HIDE DEF h, e
<1>11. Counts(h, p, Len(a) + Len(b))
  <2>1. h[0] = <<>>
    <3>1. 0 \in 0 .. Len(a) BY <1>1
    <3> QED BY <1>8, <1>10, <3>1
  <2>2. ASSUME NEW i \in 1 .. Len(a) + Len(b) PROVE h[i] = Then(h[i - 1], p[i])
    <3>1. CASE i <= Len(a)
      <4>1. i \in 1 .. Len(a) /\ i \in 0 .. Len(a) /\ i - 1 \in 0 .. Len(a) BY <1>1, <3>1
      <4>2. f[i] = Then(f[i - 1], a[i]) BY <1>2, <4>1 DEF Counts
      <4>3. p[i] = a[i] BY <1>5, <3>1
      <4> QED BY <1>10, <4>1, <4>2, <4>3
    <3>2. CASE ~ (i <= Len(a))
      <4> DEFINE j == i - Len(a)
      <4>1. /\ j \in 1 .. Len(b) /\ j \in 0 .. Len(b) /\ j - 1 \in 0 .. Len(b)
            /\ Len(a) + j = i /\ Len(a) + (j - 1) = i - 1
        BY <1>1, <3>2
      <4>2. p[i] = b[j] BY <1>5, <3>2
      <4> HIDE DEF j
      <4>3. g[j] = Then(g[j - 1], b[j]) BY <1>3, <4>1 DEF Counts
      <4>4. h[i] = e \o g[j] /\ h[i - 1] = e \o g[j - 1] BY <1>9, <4>1
      <4>5. Then(e \o g[j - 1], b[j]) = e \o Then(g[j - 1], b[j]) BY <1>1, <1>6, <4>1, ThenBehind
      <4> QED BY <4>2, <4>3, <4>4, <4>5
    <3> QED BY <3>1, <3>2
  <2> QED BY <2>1, <2>2 DEF Counts
<1>12. Numbers(p) = h[Len(a) + Len(b)] BY <1>5, <1>11, NumbersCount
<1>13. h[Len(a) + Len(b)] = e \o g[Len(b)] BY <1>1, <1>9
<1> QED BY <1>4, <1>12, <1>13 DEF p, e

-----------------------------------------------------------------------------
(* What is on its way *)

Connections == up \in [1 .. 3 -> Seq(Item)] /\ down \in [1 .. 3 -> Seq(Item)]

\* The connections that count, for either end.
Sides ==
  /\ ClientTakes => ServerTakes
  /\ ServerTakes => TargetTakes
  /\ ~ TargetTakes => ToTarget = <<>>
  /\ TargetTakes /\ ~ ServerTakes => ToTarget = Numbers(up[3])
  /\ ServerTakes /\ ~ ClientTakes => ToTarget = Numbers(up[3]) \o Numbers(up[2])
  /\ ClientTakes => ToTarget = Numbers(up[3]) \o Numbers(up[2]) \o Numbers(up[1])
  /\ ServerBrings => ClientBrings
  /\ ClientBrings \/ ReaderHolds => AppTakes
  /\ ReaderHolds => ~ ClientBrings
  /\ ~ AppTakes => ToApp = <<>>
  /\ AppTakes /\ ~ ReaderHolds /\ ~ ClientBrings => ToApp = Numbers(down[3])
  /\ ReaderHolds /\ down[2] # <<>> => ToApp = Numbers(down[3]) \o Numbers(<<Head(down[2])>>)
  /\ ClientBrings /\ ~ ServerBrings => ToApp = Numbers(down[3]) \o Numbers(down[2])
  /\ ServerBrings => ToApp = Numbers(down[3]) \o Numbers(down[2]) \o Numbers(down[1])

LEMMA NumbersOfThree ==
  ASSUME NEW a \in Seq(Item), NEW b \in Seq(Item), NEW c \in Seq(Item)
  PROVE  Numbers(a \o b \o c) = Numbers(a) \o Numbers(b) \o Numbers(c)
<1>1. a \o b \in Seq(Item) BY ConcatProperties
<1>2. Numbers(a \o b) = Numbers(a) \o Numbers(b) BY NumbersOfTwo
<1>3. Numbers((a \o b) \o c) = Numbers(a \o b) \o Numbers(c) BY <1>1, NumbersOfTwo
<1> QED BY <1>2, <1>3

LEMMA SidesAre == Connections => Sides
<1> SUFFICES ASSUME Connections PROVE Sides OBVIOUS
<1>1. /\ up[1] \in Seq(Item) /\ up[2] \in Seq(Item) /\ up[3] \in Seq(Item)
      /\ down[1] \in Seq(Item) /\ down[2] \in Seq(Item) /\ down[3] \in Seq(Item)
  BY DEF Connections
<1>0. \A f \in [1 .. 3 -> Seq(Item)] :
        Numbers(f[3] \o f[2] \o f[1]) = Numbers(f[3]) \o Numbers(f[2]) \o Numbers(f[1])
  <2> SUFFICES ASSUME NEW f \in [1 .. 3 -> Seq(Item)]
               PROVE  Numbers(f[3] \o f[2] \o f[1]) = Numbers(f[3]) \o Numbers(f[2]) \o Numbers(f[1])
    OBVIOUS
  <2> DEFINE a == f[3]
             b == f[2]
             c == f[1]
  <2>1. a \in Seq(Item) /\ b \in Seq(Item) /\ c \in Seq(Item) OBVIOUS
  <2> HIDE DEF a, b, c
  <2>2. Numbers(a \o b \o c) = Numbers(a) \o Numbers(b) \o Numbers(c) BY <2>1, NumbersOfThree
  <2> QED BY <2>2 DEF a, b, c
<1>2. /\ ClientTakes => ServerTakes
      /\ ServerTakes => TargetTakes
      /\ ServerBrings => ClientBrings
      /\ ClientBrings \/ ReaderHolds => AppTakes
      /\ ReaderHolds => ~ ClientBrings
  BY DEF ClientTakes, ServerTakes, ServerBrings, ClientBrings, ReaderHolds
<1>3. <<>> \in Seq(Item) /\ <<>> \o <<>> = <<>> BY Kinds, ConcatEmptySeq
<1> DEFINE q == down[2]
<1>4. ASSUME q # <<>> PROVE <<Head(q)>> \in Seq(Item)
  <2>1. Head(q) \in Item BY <1>1, <1>4, FirstAndRest
  <2> HIDE DEF q
  <2> QED BY <2>1
<1>5. /\ ~ TargetTakes => ToTarget = <<>>
      /\ TargetTakes /\ ~ ServerTakes => ToTarget = Numbers(up[3])
      /\ ServerTakes /\ ~ ClientTakes => ToTarget = Numbers(up[3]) \o Numbers(up[2])
      /\ ClientTakes => ToTarget = Numbers(up[3]) \o Numbers(up[2]) \o Numbers(up[1])
  <2>1. CASE ClientTakes
    <3>1. ToTarget = Numbers(up[3] \o up[2] \o up[1]) BY <1>2, <2>1 DEF ToTarget, If
    <3>2. ToTarget = Numbers(up[3]) \o Numbers(up[2]) \o Numbers(up[1])
      BY <1>0, <3>1 DEF Connections
    <3> QED BY <1>2, <2>1, <3>2
  <2>2. CASE ServerTakes /\ ~ ClientTakes
    <3>1. ToTarget = Numbers(up[3] \o up[2] \o <<>>) BY <1>2, <2>2 DEF ToTarget, If
    <3>2. up[3] \o up[2] \o <<>> = up[3] \o up[2] BY <1>1, ConcatProperties, ConcatEmptySeq
    <3>3. Numbers(up[3] \o up[2]) = Numbers(up[3]) \o Numbers(up[2]) BY <1>1, NumbersOfTwo
    <3> QED BY <1>2, <2>2, <3>1, <3>2, <3>3
  <2>3. CASE TargetTakes /\ ~ ServerTakes
    <3>1. ToTarget = Numbers(up[3] \o <<>> \o <<>>) BY <1>2, <2>3 DEF ToTarget, If
    <3>2. up[3] \o <<>> \o <<>> = up[3] BY <1>1, ConcatEmptySeq
    <3> QED BY <1>2, <2>3, <3>1, <3>2
  <2>4. CASE ~ TargetTakes
    <3>1. ToTarget = Numbers(<<>> \o <<>> \o <<>>) BY <1>2, <2>4 DEF ToTarget, If
    <3>2. ToTarget = Numbers(<<>>) BY <1>3, <3>1
    <3> QED BY <1>2, <2>4, <3>2, NumbersOfNone
  <2> QED BY <1>2, <2>1, <2>2, <2>3, <2>4
<1> DEFINE h == <<Head(q)>>
<1> HIDE DEF h
<1>6. ToApp = Numbers(If(AppTakes, down[3]) \o If(ReaderHolds, h)
                      \o If(ClientBrings, down[2]) \o If(ServerBrings, down[1]))
  BY DEF ToApp, h
<1>7. /\ ~ AppTakes => ToApp = <<>>
      /\ AppTakes /\ ~ ReaderHolds /\ ~ ClientBrings => ToApp = Numbers(down[3])
      /\ ReaderHolds /\ down[2] # <<>> => ToApp = Numbers(down[3]) \o Numbers(h)
      /\ ClientBrings /\ ~ ServerBrings => ToApp = Numbers(down[3]) \o Numbers(down[2])
      /\ ServerBrings => ToApp = Numbers(down[3]) \o Numbers(down[2]) \o Numbers(down[1])
  <2>1. CASE ServerBrings
    <3>1. ToApp = Numbers(down[3] \o <<>> \o down[2] \o down[1]) BY <1>2, <1>6, <2>1 DEF If
    <3>2. down[3] \o <<>> = down[3] BY <1>1, ConcatEmptySeq
    <3>3. ToApp = Numbers(down[3] \o down[2] \o down[1]) BY <3>1, <3>2
    <3>4. ToApp = Numbers(down[3]) \o Numbers(down[2]) \o Numbers(down[1])
      BY <1>0, <3>3 DEF Connections
    <3> QED BY <1>2, <2>1, <3>4
  <2>2. CASE ClientBrings /\ ~ ServerBrings
    <3>1. ToApp = Numbers(down[3] \o <<>> \o down[2] \o <<>>) BY <1>2, <1>6, <2>2 DEF If
    <3>2. down[3] \o <<>> \o down[2] \o <<>> = down[3] \o down[2]
      BY <1>1, ConcatProperties, ConcatEmptySeq
    <3>3. Numbers(down[3] \o down[2]) = Numbers(down[3]) \o Numbers(down[2]) BY <1>1, NumbersOfTwo
    <3> QED BY <1>2, <2>2, <3>1, <3>2, <3>3
  <2>3. CASE ReaderHolds /\ down[2] # <<>>
    <3>1. ToApp = Numbers(down[3] \o h \o <<>> \o <<>>) BY <1>2, <1>6, <2>3 DEF If
    <3>2. h \in Seq(Item) BY <1>4, <2>3 DEF h
    <3>3. down[3] \o h \o <<>> \o <<>> = down[3] \o h BY <1>1, <3>2, ConcatProperties, ConcatEmptySeq
    <3>4. Numbers(down[3] \o h) = Numbers(down[3]) \o Numbers(h) BY <1>1, <3>2, NumbersOfTwo
    <3> QED BY <1>2, <2>3, <3>1, <3>3, <3>4
  <2>4. CASE AppTakes /\ ~ ReaderHolds /\ ~ ClientBrings
    <3>1. ToApp = Numbers(down[3] \o <<>> \o <<>> \o <<>>) BY <1>2, <1>6, <2>4 DEF If
    <3>2. down[3] \o <<>> \o <<>> \o <<>> = down[3] BY <1>1, ConcatEmptySeq
    <3> QED BY <1>2, <2>4, <3>1, <3>2
  <2>5. CASE ~ AppTakes
    <3>1. ToApp = Numbers(<<>> \o <<>> \o <<>> \o <<>>) BY <1>2, <1>6, <2>5 DEF If
    <3>2. ToApp = Numbers(<<>>) BY <1>3, <3>1
    <3> QED BY <1>2, <2>5, <3>2, NumbersOfNone
  <2> QED BY <1>2, <2>1, <2>2, <2>3, <2>4, <2>5
<1>8. Numbers(h) = Numbers(<<Head(down[2])>>) BY DEF h
<1> QED BY <1>2, <1>5, <1>7, <1>8 DEF Sides

LEMMA SidesThen == Connections' => Sides'
<1>1. Connections => Sides BY SidesAre
<1>2. (Connections => Sides)' BY <1>1, PTL
<1> QED BY <1>2

\* What a link that breaks may leave of b.
IsFront(a, b) == \E c \in Seq(Nat) : b = a \o c

LEMMA Fronts ==
  ASSUME NEW a \in Seq(Nat), NEW b \in Seq(Nat), NEW c \in Seq(Nat)
  PROVE  /\ IsFront(<<>>, a) /\ IsFront(a, a)
         /\ IsFront(a, a \o b) /\ IsFront(a, a \o b \o c) /\ IsFront(a \o b, a \o b \o c)
<1>1. <<>> \in Seq(Nat) /\ <<>> \o a = a /\ a \o <<>> = a BY ConcatEmptySeq
<1>2. b \o c \in Seq(Nat) BY ConcatProperties
<1>3. a \o b \o c = a \o (b \o c) BY ConcatAssociative
<1> QED BY <1>1, <1>2, <1>3 DEF IsFront

LEMMA Regroup ==
  ASSUME NEW a \in Seq(Nat), NEW b \in Seq(Nat), NEW c \in Seq(Nat)
  PROVE  a \o b \in Seq(Nat) /\ (a \o b) \o c = a \o (b \o c)
<1>1. a \o b \in Seq(Nat) BY ConcatProperties
<1>2. (a \o b) \o c = a \o (b \o c) BY ConcatAssociative
<1> QED BY <1>1, <1>2

LEMMA FrontCuts ==
  ASSUME NEW a \in Seq(Nat), NEW b, IsFront(a, b)
  PROVE  \E k \in 0 .. Len(b) : a = SubSeq(b, 1, k)
<1>1. PICK c \in Seq(Nat) : b = a \o c BY DEF IsFront
<1>2. Len(a) \in Nat /\ Len(c) \in Nat /\ Len(b) = Len(a) + Len(c) BY <1>1, LenProperties, ConcatProperties
<1>3. Len(a) \in 0 .. Len(b) BY <1>2
<1>4. SubSeq(a \o c, 1, Len(a)) = a
  BY <1>2, ConcatProperties
<1> QED BY <1>1, <1>3, <1>4

\* The first item, and the others.
LEMMA NumbersFirst ==
  ASSUME NEW q \in Seq(Item), q # <<>>
  PROVE  /\ Numbers(q) = Numbers(<<Head(q)>>) \o Numbers(Tail(q))
         /\ Numbers(<<Head(q)>>) \in Seq(Nat) /\ Numbers(Tail(q)) \in Seq(Nat)
<1> DEFINE h == Head(q)
           t == Tail(q)
<1>1. h \in Item /\ t \in Seq(Item) BY FirstAndRest
<1>2. q = <<h>> \o t
  <2> SUFFICES ASSUME TRUE PROVE q = <<h>> \o t OBVIOUS
  <2> QED BY <1>1, HeadTailProperties, ConcatProperties
<1> HIDE DEF h, t
<1>3. <<h>> \in Seq(Item) BY <1>1
<1>4. Numbers(<<h>> \o t) = Numbers(<<h>>) \o Numbers(t) BY <1>1, <1>3, NumbersOfTwo
<1> QED BY <1>1, <1>2, <1>3, <1>4, NumbersType DEF h, t

\* What is on its way to one end stays, or loses its end.
UpSame ==
  /\ (TargetTakes' <=> TargetTakes) /\ (TargetTakes => Numbers(up'[3]) = Numbers(up[3]))
  /\ (ServerTakes' <=> ServerTakes) /\ (ServerTakes => Numbers(up'[2]) = Numbers(up[2]))
  /\ (ClientTakes' <=> ClientTakes) /\ (ClientTakes => Numbers(up'[1]) = Numbers(up[1]))

UpShorter ==
  /\ TargetTakes' => TargetTakes /\ Numbers(up'[3]) = Numbers(up[3])
  /\ ServerTakes' => ServerTakes /\ Numbers(up'[2]) = Numbers(up[2])
  /\ ClientTakes' => ClientTakes /\ Numbers(up'[1]) = Numbers(up[1])

FirstSame == down[2] # <<>> /\ down'[2] # <<>> /\ Head(down'[2]) = Head(down[2])

DownSame ==
  /\ (AppTakes' <=> AppTakes) /\ (AppTakes => Numbers(down'[3]) = Numbers(down[3]))
  /\ (ReaderHolds' <=> ReaderHolds) /\ (ReaderHolds => FirstSame)
  /\ (ClientBrings' <=> ClientBrings) /\ (ClientBrings => Numbers(down'[2]) = Numbers(down[2]))
  /\ (ServerBrings' <=> ServerBrings) /\ (ServerBrings => Numbers(down'[1]) = Numbers(down[1]))

DownShorter ==
  /\ AppTakes' => AppTakes /\ Numbers(down'[3]) = Numbers(down[3])
  /\ ReaderHolds' => (ReaderHolds \/ ClientBrings) /\ FirstSame
  /\ ClientBrings' => ClientBrings /\ Numbers(down'[2]) = Numbers(down[2])
  /\ ServerBrings' => ServerBrings /\ Numbers(down'[1]) = Numbers(down[1])

LEMMA WayTypes ==
  ASSUME Connections
  PROVE  /\ \A i \in 1 .. 3 : Numbers(up[i]) \in Seq(Nat) /\ Numbers(down[i]) \in Seq(Nat)
         /\ ToTarget \in Seq(Nat)
         /\ (ReaderHolds => down[2] # <<>>) => ToApp \in Seq(Nat)
<1>1. \A i \in 1 .. 3 : Numbers(up[i]) \in Seq(Nat) /\ Numbers(down[i]) \in Seq(Nat)
  BY NumbersType DEF Connections
<1>2. Sides BY SidesAre
<1>3. <<>> \in Seq(Nat) OBVIOUS
<1>4. ASSUME down[2] # <<>> PROVE Numbers(<<Head(down[2])>>) \in Seq(Nat)
  <2> DEFINE h == Head(down[2])
  <2>1. h \in Item BY <1>4, FirstAndRest DEF Connections
  <2> HIDE DEF h
  <2>2. <<h>> \in Seq(Item) BY <2>1
  <2> QED BY <2>2, NumbersType DEF h
<1>5. ToTarget \in Seq(Nat)
  <2> DEFINE a == Numbers(up[3])
             b == Numbers(up[2])
             c == Numbers(up[1])
  <2>1. a \in Seq(Nat) /\ b \in Seq(Nat) /\ c \in Seq(Nat) BY <1>1
  <2>2. ToTarget \in {<<>>, a, a \o b, a \o b \o c} BY <1>2 DEF Sides
  <2> HIDE DEF a, b, c
  <2>3. a \o b \in Seq(Nat) /\ a \o b \o c \in Seq(Nat) BY <2>1, ConcatProperties
  <2> QED BY <1>3, <2>1, <2>2, <2>3
<1>6. ASSUME ReaderHolds => down[2] # <<>> PROVE ToApp \in Seq(Nat)
  <2> DEFINE a == Numbers(down[3])
             h == Numbers(<<Head(down[2])>>)
             b == Numbers(down[2])
             c == Numbers(down[1])
  <2>1. a \in Seq(Nat) /\ b \in Seq(Nat) /\ c \in Seq(Nat) BY <1>1
  <2>2. ToApp \in {<<>>, a, a \o b, a \o b \o c} \/ (ToApp = a \o h /\ down[2] # <<>>)
    BY <1>2, <1>6 DEF Sides
  <2>3. down[2] # <<>> => h \in Seq(Nat) BY <1>4
  <2> HIDE DEF a, b, c, h
  <2>4. a \o b \in Seq(Nat) /\ a \o b \o c \in Seq(Nat) BY <2>1, ConcatProperties
  <2>5. down[2] # <<>> => a \o h \in Seq(Nat) BY <2>1, <2>3, ConcatProperties
  <2> QED BY <1>3, <2>1, <2>2, <2>4, <2>5
<1> QED BY <1>1, <1>5, <1>6

LEMMA UpKeeps ==
  ASSUME Connections, Connections'
  PROVE  /\ UpSame => ToTarget' = ToTarget
         /\ UpShorter => IsFront(ToTarget', ToTarget)
<1> DEFINE a == Numbers(up[3])
           b == Numbers(up[2])
           c == Numbers(up[1])
<1>1. a \in Seq(Nat) /\ b \in Seq(Nat) /\ c \in Seq(Nat) BY WayTypes
<1>2. /\ ClientTakes => ServerTakes
      /\ ServerTakes => TargetTakes
      /\ ~ TargetTakes => ToTarget = <<>>
      /\ TargetTakes /\ ~ ServerTakes => ToTarget = a
      /\ ServerTakes /\ ~ ClientTakes => ToTarget = a \o b
      /\ ClientTakes => ToTarget = a \o b \o c
  BY SidesAre DEF Sides
<1>3. /\ ClientTakes' => ServerTakes'
      /\ ServerTakes' => TargetTakes'
      /\ ~ TargetTakes' => ToTarget' = <<>>
      /\ TargetTakes' /\ ~ ServerTakes' => ToTarget' = Numbers(up'[3])
      /\ ServerTakes' /\ ~ ClientTakes' => ToTarget' = Numbers(up'[3]) \o Numbers(up'[2])
      /\ ClientTakes' => ToTarget' = Numbers(up'[3]) \o Numbers(up'[2]) \o Numbers(up'[1])
  BY SidesThen DEF Sides
<1>4. ASSUME UpSame PROVE ToTarget' = ToTarget
  <2>1. CASE ClientTakes BY <1>2, <1>3, <1>4, <2>1 DEF UpSame
  <2>2. CASE ServerTakes /\ ~ ClientTakes BY <1>2, <1>3, <1>4, <2>2 DEF UpSame
  <2>3. CASE ~ ServerTakes BY <1>2, <1>3, <1>4, <2>3 DEF UpSame
  <2> QED BY <2>1, <2>2, <2>3
<1>5. ASSUME UpShorter PROVE IsFront(ToTarget', ToTarget)
  <2>1. \/ ToTarget' = <<>> /\ ToTarget \in Seq(Nat)
        \/ ToTarget' = ToTarget /\ ToTarget \in Seq(Nat)
        \/ ToTarget' = a /\ ToTarget \in {a \o b, a \o b \o c}
        \/ ToTarget' = a \o b /\ ToTarget = a \o b \o c
    BY <1>2, <1>3, <1>5, WayTypes DEF UpShorter
  <2> HIDE DEF a, b, c
  <2> QED BY <1>1, <2>1, Fronts
<1> QED BY <1>4, <1>5


LEMMA DownKeeps ==
  ASSUME Connections, Connections', ReaderHolds => down[2] # <<>>
  PROVE  /\ DownSame => ToApp' = ToApp
         /\ DownShorter => IsFront(ToApp', ToApp)
<1> DEFINE a == Numbers(down[3])
           b == Numbers(down[2])
           c == Numbers(down[1])
           h == Numbers(<<Head(down[2])>>)
<1>1. a \in Seq(Nat) /\ b \in Seq(Nat) /\ c \in Seq(Nat) /\ ToApp \in Seq(Nat) BY WayTypes
<1>2. /\ ServerBrings => ClientBrings
      /\ ClientBrings \/ ReaderHolds => AppTakes
      /\ ReaderHolds => ~ ClientBrings
      /\ ~ AppTakes => ToApp = <<>>
      /\ AppTakes /\ ~ ReaderHolds /\ ~ ClientBrings => ToApp = a
      /\ ReaderHolds => ToApp = a \o h
      /\ ClientBrings /\ ~ ServerBrings => ToApp = a \o b
      /\ ServerBrings => ToApp = a \o b \o c
  BY SidesAre DEF Sides
<1>3. /\ ServerBrings' => ClientBrings'
      /\ ClientBrings' \/ ReaderHolds' => AppTakes'
      /\ ReaderHolds' => ~ ClientBrings'
      /\ ~ AppTakes' => ToApp' = <<>>
      /\ AppTakes' /\ ~ ReaderHolds' /\ ~ ClientBrings' => ToApp' = Numbers(down'[3])
      /\ ReaderHolds' /\ down'[2] # <<>> => ToApp' = Numbers(down'[3]) \o Numbers(<<Head(down'[2])>>)
      /\ ClientBrings' /\ ~ ServerBrings' => ToApp' = Numbers(down'[3]) \o Numbers(down'[2])
      /\ ServerBrings' => ToApp' = Numbers(down'[3]) \o Numbers(down'[2]) \o Numbers(down'[1])
  BY SidesThen DEF Sides
<1>4. FirstSame => down'[2] # <<>> /\ Numbers(<<Head(down'[2])>>) = h BY DEF FirstSame
<1>5. ASSUME DownSame PROVE ToApp' = ToApp
  <2>1. CASE ServerBrings BY <1>2, <1>3, <1>5, <2>1 DEF DownSame
  <2>2. CASE ClientBrings /\ ~ ServerBrings BY <1>2, <1>3, <1>5, <2>2 DEF DownSame
  <2>3. CASE ReaderHolds
    <3>1. Numbers(down'[3]) = a /\ ReaderHolds' /\ FirstSame BY <1>2, <1>5, <2>3 DEF DownSame
    <3>2. ToApp' = a \o h BY <1>3, <1>4, <3>1
    <3> QED BY <1>2, <2>3, <3>2
  <2>4. CASE ~ ClientBrings /\ ~ ReaderHolds BY <1>2, <1>3, <1>5, <2>4 DEF DownSame
  <2> QED BY <2>1, <2>2, <2>3, <2>4
<1>6. ASSUME DownShorter PROVE IsFront(ToApp', ToApp)
  <2>1. CASE ReaderHolds'
    <3>1. Numbers(down'[3]) = a /\ FirstSame /\ (ReaderHolds \/ ClientBrings)
      BY <1>3, <1>6, <2>1 DEF DownShorter
    <3>2. ToApp' = a \o h BY <1>3, <1>4, <2>1, <3>1
    <3>3. CASE ReaderHolds
      <4>1. ToApp' = ToApp BY <1>2, <3>2, <3>3
      <4> HIDE DEF a, b, c, h
      <4> QED BY <1>1, <4>1, Fronts
    <3>4. CASE ClientBrings
      <4> DEFINE q == down[2]
                 t == Tail(down[2])
      <4>1. q \in Seq(Item) /\ q # <<>> BY <3>1 DEF Connections, FirstSame
      <4>2. b = h \o Numbers(t) /\ h \in Seq(Nat) /\ Numbers(t) \in Seq(Nat)
        BY <4>1, NumbersFirst
      <4> DEFINE n == Numbers(t)
                 f == a \o h
      <4> HIDE DEF a, b, c, h, q, n
      <4>3. a \in Seq(Nat) /\ h \in Seq(Nat) /\ n \in Seq(Nat) BY <1>1, <4>2 DEF n
      <4>8. f \in Seq(Nat) /\ f \o n = a \o (h \o n) BY <4>3, Regroup
      <4>9. b = h \o n BY <4>2 DEF n
      <4>4. f \in Seq(Nat) /\ n \in Seq(Nat) /\ a \o b = f \o n
        BY <4>3, <4>8, <4>9
      <4> HIDE DEF f
      <4>5. IsFront(f, f \o n) /\ IsFront(f, f \o n \o c) BY <1>1, <4>4, Fronts
      <4>6. ToApp \in {a \o b, a \o b \o c} BY <1>2, <3>4
      <4>7. IsFront(f, ToApp) BY <4>4, <4>5, <4>6
      <4> QED BY <3>2, <4>7 DEF f
    <3> QED BY <3>1, <3>3, <3>4
  <2>2. CASE ~ ReaderHolds'
    <3>1. CASE ReaderHolds
      <4>1. ToApp' \in {<<>>, a} BY <1>2, <1>3, <1>6, <2>2, <3>1 DEF DownShorter
      <4>2. ToApp = a \o h BY <1>2, <3>1
      <4> DEFINE q == down[2]
      <4>3. q \in Seq(Item) /\ q # <<>> BY <3>1 DEF Connections
      <4>4. h \in Seq(Nat)
        <5> HIDE DEF q
        <5>1. Numbers(<<Head(q)>>) \in Seq(Nat) BY <4>3, NumbersFirst
        <5> QED BY <5>1 DEF q
      <4> HIDE DEF a, b, c, h
      <4> QED BY <1>1, <4>1, <4>2, <4>4, Fronts
    <3>2. CASE ~ ReaderHolds
      <4>1. \/ ToApp' = <<>>
            \/ ToApp' = ToApp
            \/ ToApp' = a /\ ToApp \in {a \o b, a \o b \o c}
            \/ ToApp' = a \o b /\ ToApp = a \o b \o c
        BY <1>2, <1>3, <1>6, <2>2, <3>2 DEF DownShorter
      <4> HIDE DEF a, b, c, h
      <4> QED BY <1>1, <4>1, Fronts
    <3> QED BY <3>1, <3>2
  <2> QED BY <2>1, <2>2
<1> QED BY <1>5, <1>6

\* What moves from the front of one connection to the end of the next one.
LEMMA NumbersAppend ==
  ASSUME NEW q \in Seq(Item), NEW m \in Item
  PROVE  /\ Append(q, m) \in Seq(Item)
         /\ Numbers(Append(q, m)) = Numbers(q) \o Numbers(<<m>>)
         /\ m.kind # "data" => Numbers(Append(q, m)) = Numbers(q)
<1>1. <<m>> \in Seq(Item) /\ Append(q, m) \in Seq(Item) BY AppendProperties
<1>2. Append(q, m) = q \o <<m>> BY AppendIsConcat
<1>3. Numbers(q \o <<m>>) = Numbers(q) \o Numbers(<<m>>) BY <1>1, NumbersOfTwo
<1>4. m.kind # "data" => Numbers(<<m>>) = <<>> BY NumbersOfOne
<1>5. Numbers(q) \o <<>> = Numbers(q)
  <2>1. Numbers(q) \in Seq(Nat) BY NumbersType
  <2> QED BY <2>1, ConcatEmptySeq
<1> QED BY <1>1, <1>2, <1>3, <1>4, <1>5

LEMMA NumbersMove ==
  ASSUME NEW a \in Seq(Item), NEW q \in Seq(Item), q # <<>>
  PROVE  Numbers(a) \o Numbers(q) = Numbers(Append(a, Head(q))) \o Numbers(Tail(q))
<1> DEFINE h == Head(q)
           one == Numbers(<<h>>)
           rest == Numbers(Tail(q))
           n == Numbers(a)
<1>1. h \in Item BY FirstAndRest
<1>2. Numbers(q) = one \o rest /\ one \in Seq(Nat) /\ rest \in Seq(Nat) BY NumbersFirst
<1>3. n \in Seq(Nat) BY NumbersType
<1> HIDE DEF h
<1>4. Numbers(Append(a, h)) = n \o one BY <1>1, NumbersAppend
<1> HIDE DEF one, rest, n
<1>5. (n \o one) \o rest = n \o (one \o rest) BY <1>2, <1>3, Regroup
<1> QED BY <1>2, <1>4, <1>5 DEF h, rest, n

\* Behind the same front.
Cat(a, b) == a \o b

LEMMA CatRegroup ==
  ASSUME NEW a \in Seq(Nat), NEW b \in Seq(Nat), NEW c \in Seq(Nat)
  PROVE  Cat(Cat(a, b), c) = Cat(a, Cat(b, c))
<1>1. (a \o b) \o c = a \o (b \o c) BY ConcatAssociative
<1> QED BY <1>1 DEF Cat

LEMMA Behind ==
  ASSUME NEW a \in Seq(Nat), NEW b \in Seq(Nat), NEW c \in Seq(Nat),
         NEW d \in Seq(Nat), NEW e \in Seq(Nat), Cat(b, c) = Cat(d, e)
  PROVE  Cat(Cat(a, b), c) = Cat(Cat(a, d), e)
BY CatRegroup

UpFlags == /\ TargetTakes' <=> TargetTakes
           /\ ServerTakes' <=> ServerTakes
           /\ ClientTakes' <=> ClientTakes

LEMMA CopierCarries ==
  ASSUME Connections, Connections', UpFlags, ServerTakes => ClientTakes, up[1] # <<>>,
         up'[1] = Tail(up[1]), up'[2] = Append(up[2], Head(up[1])), up'[3] = up[3]
  PROVE  ToTarget' = ToTarget
<1> DEFINE p == up[1]
           q == up[2]
           r == up[3]
           a == Numbers(r)
           b == Numbers(q)
           c == Numbers(p)
           d == Numbers(Append(q, Head(p)))
           e == Numbers(Tail(p))
<1>1. p \in Seq(Item) /\ q \in Seq(Item) /\ r \in Seq(Item) /\ p # <<>> BY DEF Connections
<1>2. up'[1] \in Seq(Item) /\ up'[2] \in Seq(Item) BY DEF Connections
<1>3. Sides /\ Sides' BY SidesAre, SidesThen
<1>4. /\ ~ TargetTakes => ToTarget = <<>> /\ ToTarget' = <<>>
      /\ TargetTakes /\ ~ ServerTakes => ToTarget = a /\ ToTarget' = a
      /\ ServerTakes => ToTarget = a \o b \o c /\ ToTarget' = a \o d \o e
  BY <1>3 DEF Sides, UpFlags
<1>5. d \in Seq(Nat) /\ e \in Seq(Nat) BY <1>2, NumbersType
<1> HIDE DEF p, q, r
<1>6. b \o c = d \o e BY <1>1, NumbersMove
<1>7. a \in Seq(Nat) /\ b \in Seq(Nat) /\ c \in Seq(Nat) BY <1>1, NumbersType
<1>11. /\ ~ TargetTakes => ToTarget' = ToTarget
       /\ TargetTakes /\ ~ ServerTakes => ToTarget' = ToTarget
       /\ ServerTakes => ToTarget = Cat(Cat(a, b), c) /\ ToTarget' = Cat(Cat(a, d), e)
  BY <1>4 DEF Cat
<1> HIDE DEF a, b, c, d, e
<1>8. Cat(b, c) = Cat(d, e) BY <1>6 DEF Cat
<1>10. Cat(Cat(a, b), c) = Cat(Cat(a, d), e) BY <1>5, <1>7, <1>8, Behind
<1> QED BY <1>10, <1>11

LEMMA HandlerCarries ==
  ASSUME Connections, Connections', UpFlags, TargetTakes => ServerTakes, up[2] # <<>>,
         up'[1] = up[1], up'[2] = Tail(up[2]), up'[3] = Append(up[3], Head(up[2]))
  PROVE  ToTarget' = ToTarget
<1> DEFINE p == up[1]
           q == up[2]
           r == up[3]
           a == Numbers(r)
           b == Numbers(q)
           c == Numbers(p)
           d == Numbers(Append(r, Head(q)))
           e == Numbers(Tail(q))
           f == a \o b
           g == d \o e
           k == f \o c
           l == g \o c
<1>1. q \in Seq(Item) /\ r \in Seq(Item) /\ q # <<>> BY DEF Connections
<1>2. Sides /\ Sides' BY SidesAre, SidesThen
<1>3. /\ ~ TargetTakes => ToTarget = <<>> /\ ToTarget' = <<>>
      /\ TargetTakes /\ ~ ClientTakes => ToTarget = f /\ ToTarget' = g
      /\ ClientTakes => ToTarget = k /\ ToTarget' = l
      /\ ClientTakes => TargetTakes
  BY <1>2 DEF Sides, UpFlags
<1> HIDE DEF p, q, r
<1>4. a \o b = d \o e BY <1>1, NumbersMove
<1>5. f = g BY <1>4
<1> HIDE DEF f, g
<1>6. k = l BY <1>5
<1> HIDE DEF k, l
<1> QED BY <1>3, <1>5, <1>6

LEMMA DirectCopierCarries ==
  ASSUME Connections, Connections', ClientTakes, ClientTakes', up[1] # <<>>,
         up'[1] = Tail(up[1]), up[2] = <<>>, up'[2] = <<>>, up'[3] = Append(up[3], Head(up[1]))
  PROVE  ToTarget' = ToTarget
<1> DEFINE p == up[1]
           r == up[3]
           a == Numbers(r)
           c == Numbers(p)
           d == Numbers(Append(r, Head(p)))
           e == Numbers(Tail(p))
<1>1. p \in Seq(Item) /\ r \in Seq(Item) /\ p # <<>> BY DEF Connections
<1>2. up'[3] \in Seq(Item) BY DEF Connections
<1>3. ToTarget = a \o <<>> \o c /\ ToTarget' = d \o <<>> \o e
  BY SidesAre, SidesThen, NumbersOfNone DEF Sides
<1>4. d \in Seq(Nat) BY <1>2, NumbersType
<1> HIDE DEF p, r
<1>5. a \o c = d \o e BY <1>1, NumbersMove
<1>6. a \in Seq(Nat) BY <1>1, NumbersType
<1> HIDE DEF a, c, d, e
<1>7. a \o <<>> = a /\ d \o <<>> = d BY <1>4, <1>6, ConcatEmptySeq
<1> QED BY <1>3, <1>5, <1>7

DownFlags == /\ AppTakes' <=> AppTakes
             /\ ReaderHolds' <=> ReaderHolds
             /\ ClientBrings' <=> ClientBrings
             /\ ServerBrings' <=> ServerBrings

LEMMA RelayerCarries ==
  ASSUME Connections, Connections', DownFlags, ClientBrings => ServerBrings,
         ReaderHolds => FirstSame, down[1] # <<>>,
         down'[1] = Tail(down[1]), down'[2] = Append(down[2], Head(down[1])), down'[3] = down[3]
  PROVE  ToApp' = ToApp
<1> DEFINE p == down[1]
           q == down[2]
           r == down[3]
           a == Numbers(r)
           b == Numbers(q)
           c == Numbers(p)
           d == Numbers(Append(q, Head(p)))
           e == Numbers(Tail(p))
<1>1. p \in Seq(Item) /\ q \in Seq(Item) /\ r \in Seq(Item) /\ p # <<>> BY DEF Connections
<1>2. down'[1] \in Seq(Item) /\ down'[2] \in Seq(Item) BY DEF Connections
<1>3. Sides /\ Sides' BY SidesAre, SidesThen
<1>0. ReaderHolds \/ ~ ClientBrings => ToApp' = ToApp
  <2>1. ~ ClientBrings => ~ ServerBrings BY <1>3 DEF Sides
  <2>2. ReaderHolds => ~ ClientBrings BY <1>3 DEF Sides
  <2>3. ~ ClientBrings => DownSame BY <2>1 DEF DownSame, DownFlags
  <2>4. ReaderHolds => down[2] # <<>> BY DEF FirstSame
  <2> QED BY <2>2, <2>3, <2>4, DownKeeps
<1>4. ClientBrings => ToApp = a \o b \o c /\ ToApp' = a \o d \o e
  BY <1>3 DEF Sides, DownFlags
<1>5. d \in Seq(Nat) /\ e \in Seq(Nat) BY <1>2, NumbersType
<1> HIDE DEF p, q, r
<1>6. b \o c = d \o e BY <1>1, NumbersMove
<1>7. a \in Seq(Nat) /\ b \in Seq(Nat) /\ c \in Seq(Nat) BY <1>1, NumbersType
<1>11. ClientBrings => ToApp = Cat(Cat(a, b), c) /\ ToApp' = Cat(Cat(a, d), e)
  BY <1>4 DEF Cat
<1> HIDE DEF a, b, c, d, e
<1>8. Cat(b, c) = Cat(d, e) BY <1>6 DEF Cat
<1>10. Cat(Cat(a, b), c) = Cat(Cat(a, d), e) BY <1>5, <1>7, <1>8, Behind
<1> QED BY <1>0, <1>10, <1>11

LEMMA ReaderCarries ==
  ASSUME Connections, Connections', AppTakes, AppTakes', ~ ReaderHolds',
         ClientBrings \/ ReaderHolds,
         ClientBrings' <=> ClientBrings, ServerBrings' <=> ServerBrings, down[2] # <<>>,
         down'[1] = down[1], down'[2] = Tail(down[2]), down'[3] = Append(down[3], Head(down[2]))
  PROVE  ToApp' = ToApp
<1> DEFINE q == down[2]
           r == down[3]
           a == Numbers(r)
           b == Numbers(q)
           c == Numbers(down[1])
           d == Numbers(Append(r, Head(q)))
           e == Numbers(Tail(q))
           h == Numbers(<<Head(q)>>)
<1>1. q \in Seq(Item) /\ r \in Seq(Item) /\ q # <<>> BY DEF Connections
<1>2. Sides /\ Sides' BY SidesAre, SidesThen
<1>3. /\ ServerBrings => ClientBrings
      /\ ClientBrings /\ ~ ServerBrings => ToApp = a \o b /\ ToApp' = d \o e
      /\ ServerBrings => ToApp = a \o b \o c /\ ToApp' = d \o e \o c
      /\ ReaderHolds => ToApp = a \o h /\ ToApp' = d
  BY <1>2 DEF Sides
<1>4. Head(q) \in Item BY <1>1, FirstAndRest
<1> HIDE DEF q, r
<1>5. a \o b = d \o e BY <1>1, NumbersMove
<1>6. d = a \o h
  <2> DEFINE m == Head(q)
  <2>1. m \in Item BY <1>4
  <2> HIDE DEF m
  <2>2. Numbers(Append(r, m)) = Numbers(r) \o Numbers(<<m>>) BY <1>1, <2>1, NumbersAppend
  <2> QED BY <2>2 DEF m
<1> HIDE DEF a, b, c, d, e, h
<1> QED BY <1>3, <1>5, <1>6

LEMMA DirectReaderCarries ==
  ASSUME Connections, Connections', ServerBrings, ServerBrings', down[1] # <<>>,
         down'[1] = Tail(down[1]), down[2] = <<>>, down'[2] = <<>>,
         down'[3] = Append(down[3], Head(down[1]))
  PROVE  ToApp' = ToApp
<1> DEFINE p == down[1]
           r == down[3]
           a == Numbers(r)
           c == Numbers(p)
           d == Numbers(Append(r, Head(p)))
           e == Numbers(Tail(p))
<1>1. p \in Seq(Item) /\ r \in Seq(Item) /\ p # <<>> BY DEF Connections
<1>2. down'[3] \in Seq(Item) BY DEF Connections
<1>3. ToApp = a \o <<>> \o c /\ ToApp' = d \o <<>> \o e
  BY SidesAre, SidesThen, NumbersOfNone DEF Sides
<1>4. d \in Seq(Nat) BY <1>2, NumbersType
<1> HIDE DEF p, r
<1>5. a \o c = d \o e BY <1>1, NumbersMove
<1>6. a \in Seq(Nat) BY <1>1, NumbersType
<1> HIDE DEF a, c, d, e
<1>7. a \o <<>> = a /\ d \o <<>> = d BY <1>4, <1>6, ConcatEmptySeq
<1> QED BY <1>3, <1>5, <1>7

-----------------------------------------------------------------------------
(* The pipes *)

Ends == {1, 2}

LEMMA EndsAre ==
  /\ \A s \in Ends : s \in Pipe!Side /\ Pipe!Peer(s) \in Ends /\ Pipe!Peer(s) # s
  /\ Pipe!Peer(1) = 2 /\ Pipe!Peer(2) = 1
  /\ OnItsWay(1) = ToTarget /\ OnItsWay(2) = ToApp
  /\ OnItsWay(1)' = ToTarget' /\ OnItsWay(2)' = ToApp'
  BY DEF Ends, Pipe!Side, Pipe!Peer, OnItsWay

\* Both ends stay as ready as they were, and a broken link stays broken.
ReadySame == (Ready(1)' <=> Ready(1)) /\ (Ready(2)' <=> Ready(2))

LEMMA SamePipes ==
  ASSUME ToTarget' = ToTarget, ToApp' = ToApp
  PROVE  [s \in {1, 2} |-> OnItsWay(s)]' = [s \in {1, 2} |-> OnItsWay(s)]
<1>1. \A s \in {1, 2} : OnItsWay(s)' = OnItsWay(s) BY EndsAre
<1> QED BY <1>1

LEMMA SameReady ==
  ASSUME ReadySame
  PROVE  [s \in {1, 2} |-> Ready(s)]' = [s \in {1, 2} |-> Ready(s)]
<1>1. \A s \in {1, 2} : Ready(s)' <=> Ready(s) BY DEF ReadySame
<1>2. \A s \in {1, 2} : Ready(s)' = Ready(s) BY <1>1 DEF Ready
<1> QED BY <1>2

\* Nothing is written or read, and only a broken link loses anything.
LEMMA MovesIsPipe ==
  ASSUME Connections, Connections',
         ReaderHolds => down[2] # <<>>, ReaderHolds' => down'[2] # <<>>,
         IsFront(ToTarget', ToTarget), IsFront(ToApp', ToApp),
         Broken => Broken', Broken' \/ (ToTarget' = ToTarget /\ ToApp' = ToApp),
         ReadySame, wrote' = wrote, taken' = taken
  PROVE  Pipe!PipeNext \/ UNCHANGED Pipe!pipeVars
<1> DEFINE way == [s \in {1, 2} |-> OnItsWay(s)]
           rdy == [s \in {1, 2} |-> Ready(s)]
<1>1. rdy' = rdy BY SameReady
<1>2. CASE Broken'
  <2>1. ToTarget' \in Seq(Nat) /\ ToApp' \in Seq(Nat)
    <3>1. (Connections => (ToTarget \in Seq(Nat) /\ ((ReaderHolds => down[2] # <<>>) => ToApp \in Seq(Nat))))'
      BY WayTypes, PTL
    <3> QED BY <3>1
  <2>2. \E k \in 0 .. Len(ToTarget) : ToTarget' = SubSeq(ToTarget, 1, k) BY <2>1, FrontCuts
  <2>3. \E k \in 0 .. Len(ToApp) : ToApp' = SubSeq(ToApp, 1, k) BY <2>1, FrontCuts
  <2>4. \A s \in {1, 2} : \E k \in 0 .. Len(way[s]) : way'[s] = SubSeq(way[s], 1, k)
    BY <2>2, <2>3, EndsAre
  <2>5. Broken' = TRUE BY <1>2
  <2>6. Pipe!PipeBreak BY <1>1, <2>4, <2>5 DEF Pipe!PipeBreak, Pipe!Side
  <2> QED BY <2>6 DEF Pipe!PipeNext
<1>3. CASE ~ Broken'
  <2>1. way' = way BY <1>3, SamePipes
  <2>2. (Broken' <=> Broken) BY <1>3
  <2>3. Broken' = Broken BY <2>2
  <2> QED BY <1>1, <2>1, <2>3 DEF Pipe!pipeVars
<1> QED BY <1>2, <1>3

\* An end writes.
LEMMA WriteIsPipe ==
  ASSUME NEW s \in Ends, NEW p \in Ends, p # s, Ready(s), wrote[s] < AppMsgs + TargetMsgs,
         wrote' = [wrote EXCEPT ![s] = @ + 1], taken' = taken,
         OnItsWay(p)' = OnItsWay(p),
         \/ OnItsWay(s)' = Append(OnItsWay(s), wrote[s] + 1)
         \/ Broken /\ OnItsWay(s)' = OnItsWay(s),
         ReadySame, Broken' <=> Broken
  PROVE  Pipe!PipeNext
<1> DEFINE way == [x \in {1, 2} |-> OnItsWay(x)]
           rdy == [x \in {1, 2} |-> Ready(x)]
<1>1. rdy' = rdy BY SameReady
<1>2. rdy[s] BY DEF Ends
<1>3. Broken' = Broken OBVIOUS
<1>4. \/ way' = [way EXCEPT ![s] = Append(@, wrote[s] + 1)]
      \/ Broken /\ way' = way
  <2>1. \A x \in {1, 2} : x = s \/ x = p BY DEF Ends
  <2>2. CASE OnItsWay(s)' = Append(OnItsWay(s), wrote[s] + 1)
    <3>1. way' = [way EXCEPT ![s] = Append(@, wrote[s] + 1)] BY <2>1, <2>2
    <3> QED BY <3>1
  <2>3. CASE Broken /\ OnItsWay(s)' = OnItsWay(s)
    <3>1. way' = way BY <2>1, <2>3
    <3> QED BY <2>3, <3>1
  <2> QED BY <2>2, <2>3
<1>5. Pipe!PipeWrite(s) BY <1>1, <1>2, <1>3, <1>4 DEF Pipe!PipeWrite
<1> QED BY <1>5, EndsAre DEF Pipe!PipeNext

\* An end reads.
LEMMA ReadIsPipe ==
  ASSUME NEW s \in Ends, NEW p \in Ends, p # s, Ready(s), OnItsWay(p) # <<>>,
         taken' = [taken EXCEPT ![s] = Append(@, Head(OnItsWay(p)))], wrote' = wrote,
         OnItsWay(p)' = Tail(OnItsWay(p)), OnItsWay(s)' = OnItsWay(s),
         ReadySame, Broken' <=> Broken
  PROVE  Pipe!PipeNext
<1> DEFINE way == [x \in {1, 2} |-> OnItsWay(x)]
           rdy == [x \in {1, 2} |-> Ready(x)]
<1>1. rdy' = rdy BY SameReady
<1>2. rdy[s] BY DEF Ends
<1>3. Broken' = Broken OBVIOUS
<1>4. p = Pipe!Peer(s) BY DEF Ends, Pipe!Peer
<1>5. way' = [way EXCEPT ![p] = Tail(@)] /\ way[p] = OnItsWay(p)
  <2>1. \A x \in {1, 2} : x = s \/ x = p BY DEF Ends
  <2> QED BY <2>1 DEF Ends
<1>6. Pipe!PipeRead(s) BY <1>1, <1>2, <1>3, <1>4, <1>5 DEF Pipe!PipeRead
<1> QED BY <1>6, EndsAre DEF Pipe!PipeNext

\* An end becomes ready.
LEMMA ReadyIsPipe ==
  ASSUME Connections, ReaderHolds => down[2] # <<>>,
         NEW s \in Ends, NEW p \in Ends, p # s, ~ Ready(s), Ready(s)', Ready(p)' <=> Ready(p),
         ToTarget' = ToTarget, ToApp' = ToApp, wrote' = wrote, taken' = taken,
         Broken' <=> Broken
  PROVE  Pipe!PipeNext
<1> DEFINE way == [x \in {1, 2} |-> OnItsWay(x)]
           rdy == [x \in {1, 2} |-> Ready(x)]
<1>1. way' = way BY SamePipes
<1>2. rdy' = [rdy EXCEPT ![s] = TRUE]
  <2>1. \A x \in {1, 2} : x = s \/ x = p BY DEF Ends
  <2>2. Ready(s)' = TRUE /\ Ready(p)' = Ready(p) BY DEF Ready
  <2> QED BY <2>1, <2>2
<1>3. ~ rdy[s] BY DEF Ends
<1>4. Broken' = Broken OBVIOUS
<1>5. p = Pipe!Peer(s) BY DEF Ends, Pipe!Peer
<1>6. \E k \in 0 .. Len(way[p]) : way' = [way EXCEPT ![p] = SubSeq(@, k + 1, Len(@))]
  <2>1. OnItsWay(p) \in Seq(Nat) BY WayTypes, EndsAre DEF Ends
  <2>2. Len(OnItsWay(p)) \in Nat /\ SubSeq(OnItsWay(p), 0 + 1, Len(OnItsWay(p))) = OnItsWay(p)
    BY <2>1, LenProperties, SubSeqFull
  <2>3. way[p] = OnItsWay(p) BY DEF Ends
  <2>4. way' = [way EXCEPT ![p] = SubSeq(@, 0 + 1, Len(@))] BY <1>1, <2>2, <2>3
  <2>5. 0 \in 0 .. Len(way[p]) BY <2>2, <2>3
  <2> HIDE DEF way
  <2> QED BY <2>4, <2>5
<1>7. Pipe!PipeHandshake(s) BY <1>2, <1>3, <1>4, <1>5, <1>6 DEF Pipe!PipeHandshake
<1> QED BY <1>7, EndsAre DEF Pipe!PipeNext

\* What every step of the link may rely on.
Goal == Pipe!PipeNext \/ UNCHANGED Pipe!pipeVars

Context == /\ Connections /\ Connections'
           /\ ReaderHolds => down[2] # <<>>
           /\ ReaderHolds' => down'[2] # <<>>

LEMMA ContextIs ==
  ASSUME IInv, [Next]_vars
  PROVE  Context
<1>1. Connections /\ Connections' BY CarriedStep DEF IInv, TypeOK, Connections
<1>2. Held /\ Held' BY HeldStep DEF IInv
<1> QED BY <1>1, <1>2 DEF Context, Held, ReaderHolds, Direct

Fewer == /\ TargetTakes' => TargetTakes
         /\ ServerTakes' => ServerTakes
         /\ ClientTakes' => ClientTakes
         /\ AppTakes' => AppTakes
         /\ ReaderHolds' => ReaderHolds \/ ClientBrings
         /\ ClientBrings' => ClientBrings
         /\ ServerBrings' => ServerBrings

LEMMA Untouched ==
  /\ up' = up /\ UpFlags => UpSame
  /\ down' = down /\ DownFlags /\ (ReaderHolds => down[2] # <<>>) => DownSame
  /\ up' = up /\ Fewer => UpShorter
  /\ down' = down /\ Fewer /\ (ReaderHolds' => down'[2] # <<>>) => DownShorter
<1>1. up' = up /\ UpFlags => UpSame BY DEF UpFlags, UpSame
<1>2. down' = down /\ DownFlags /\ (ReaderHolds => down[2] # <<>>) => DownSame
  BY DEF DownFlags, DownSame, FirstSame
<1>3. up' = up /\ Fewer => UpShorter BY DEF Fewer, UpShorter
<1>4. down' = down /\ Fewer /\ (ReaderHolds' => down'[2] # <<>>) => DownShorter
  BY DEF Fewer, DownShorter, FirstSame
<1> QED BY <1>1, <1>2, <1>3, <1>4

LEMMA KeepsIsPipe ==
  ASSUME Context, ToTarget' = ToTarget, ToApp' = ToApp, Broken => Broken',
         ReadySame, wrote' = wrote, taken' = taken
  PROVE  Goal
<1>1. ToTarget \in Seq(Nat) /\ ToApp \in Seq(Nat) BY WayTypes DEF Context
<1>2. IsFront(ToTarget', ToTarget) /\ IsFront(ToApp', ToApp) BY <1>1, Fronts
<1> QED BY <1>2, MovesIsPipe DEF Context, Goal

LEMMA LosesIsPipe ==
  ASSUME Context, UpShorter, DownShorter, Broken', ReadySame, wrote' = wrote, taken' = taken
  PROVE  Goal
<1>1. IsFront(ToTarget', ToTarget) /\ IsFront(ToApp', ToApp) BY UpKeeps, DownKeeps DEF Context
<1> QED BY <1>1, MovesIsPipe DEF Context, Goal

LEMMA SameKeeps ==
  ASSUME Context
  PROVE  /\ UpSame => ToTarget' = ToTarget
         /\ DownSame => ToApp' = ToApp
         /\ up' = up /\ UpFlags => ToTarget' = ToTarget
         /\ down' = down /\ DownFlags => ToApp' = ToApp
<1>1. UpSame => ToTarget' = ToTarget BY UpKeeps DEF Context
<1>2. DownSame => ToApp' = ToApp BY DownKeeps DEF Context
<1> QED BY <1>1, <1>2, Untouched DEF Context

LEMMA RestsIsPipe ==
  ASSUME Context, up' = up, down' = down, UpFlags, DownFlags, Broken => Broken',
         ReadySame, wrote' = wrote, taken' = taken
  PROVE  Goal
<1>1. ToTarget' = ToTarget /\ ToApp' = ToApp BY SameKeeps
<1> QED BY <1>1, KeepsIsPipe

LEMMA EndsIsPipe ==
  ASSUME Context, up' = up, down' = down, Fewer, Broken', ReadySame, wrote' = wrote, taken' = taken
  PROVE  Goal
<1>1. UpShorter /\ DownShorter BY Untouched DEF Context
<1> QED BY <1>1, LosesIsPipe

\* Somebody hangs up, closes or gives up.
LEMMA EndingIsPipe ==
  ASSUME IInv, Context,
         \/ AppLeaves \/ TargetLeaves \/ UserClose \/ CloseBody \/ CopierEnds \/ DirectCopierEnds
         \/ ReaderEnds \/ DirectReaderEnds \/ HandlerEnds \/ RelayerEnds
  PROVE  Goal
<1> USE DEF client, sockets, server, ends
<1>1. up' = up /\ down' = down /\ wrote' = wrote /\ taken' = taken
  BY DEF AppLeaves, TargetLeaves, UserClose, CloseBody, CopierEnds, DirectCopierEnds,
         ReaderEnds, DirectReaderEnds, HandlerEnds, RelayerEnds
<1> USE DEF Fewer, Broken, ReadySame, Ready, TargetTakes, ServerTakes, ClientTakes, AppTakes,
            ClientBrings, ReaderHolds, ServerBrings, Direct
<1>2. CASE AppLeaves
  <2>1. Fewer /\ Broken' /\ ReadySame BY <1>2 DEF AppLeaves
  <2> QED BY <1>1, <2>1, EndsIsPipe
<1>3. CASE TargetLeaves
  <2>1. Fewer /\ Broken' /\ ReadySame BY <1>3 DEF TargetLeaves
  <2> QED BY <1>1, <2>1, EndsIsPipe
<1>4. CASE UserClose
  <2>1. Fewer /\ Broken' /\ ReadySame BY <1>4 DEF UserClose, Panic, CallClose
  <2> QED BY <1>1, <2>1, EndsIsPipe
<1>5. CASE CloseBody
  <2>1. Fewer /\ Broken' /\ ReadySame BY <1>5 DEF CloseBody
  <2> QED BY <1>1, <2>1, EndsIsPipe
<1>6. CASE CopierEnds
  <2>1. Fewer /\ Broken' /\ ReadySame BY <1>6 DEF CopierEnds
  <2> QED BY <1>1, <2>1, EndsIsPipe
<1>7. CASE DirectCopierEnds
  <2>1. Fewer /\ Broken' /\ ReadySame BY <1>7 DEF DirectCopierEnds
  <2> QED BY <1>1, <2>1, EndsIsPipe
<1>8. CASE ReaderEnds
  <2>1. Fewer /\ Broken' /\ ReadySame BY <1>8 DEF ReaderEnds, CallClose
  <2> QED BY <1>1, <2>1, EndsIsPipe
<1>9. CASE DirectReaderEnds
  <2>1. Fewer /\ Broken' /\ ReadySame BY <1>9 DEF DirectReaderEnds, Panic
  <2> QED BY <1>1, <2>1, EndsIsPipe
<1>10. CASE HandlerEnds
  <2>1. Fewer /\ Broken' /\ ReadySame BY <1>10 DEF HandlerEnds, ServerClose
  <2> QED BY <1>1, <2>1, EndsIsPipe
<1>11. CASE RelayerEnds
  <2>1. Fewer /\ Broken' /\ ReadySame BY <1>11 DEF RelayerEnds, ServerClose
  <2> QED BY <1>1, <2>1, EndsIsPipe
<1> QED BY <1>2, <1>3, <1>4, <1>5, <1>6, <1>7, <1>8, <1>9, <1>10, <1>11

\* Nothing is carried, and nobody ends anything.
LEMMA RestingIsPipe ==
  ASSUME IInv, Context,
         \/ AskTimeout \/ WaitReturn \/ Expire \/ (\E conn \in {"copy", "link"} : SetDeadline(conn))
         \/ DirectCopierBlocks \/ HandlerBlocks \/ ReaderBlocks \/ DialTarget \/ Answered
         \/ UNCHANGED vars
  PROVE  Goal
<1> USE DEF client, sockets, server, ends
<1>1. up' = up /\ down' = down /\ wrote' = wrote /\ taken' = taken
  BY DEF AskTimeout, WaitReturn, Expire, SetDeadline, DirectCopierBlocks, HandlerBlocks,
         ReaderBlocks, DialTarget, Answered, vars
<1>p. Places /\ Waiting BY DEF IInv
<1> DEFINE Keep == UpFlags /\ DownFlags /\ (Broken => Broken') /\ ReadySame
<1>2. Keep => Goal BY <1>1, RestsIsPipe
<1> HIDE DEF Keep
<1> SUFFICES Keep BY <1>2
<1> USE DEF Keep, UpFlags, DownFlags, Broken, ReadySame, Ready, TargetTakes, ServerTakes, ClientTakes,
            AppTakes, ClientBrings, ReaderHolds, ServerBrings, Direct
<1>3. CASE AskTimeout BY <1>3 DEF AskTimeout
<1>4. CASE WaitReturn BY <1>4 DEF WaitReturn
<1>5. CASE Expire BY <1>5 DEF Expire
<1>6. ASSUME NEW conn \in {"copy", "link"}, SetDeadline(conn) PROVE Keep BY <1>6 DEF SetDeadline
<1>7. CASE DirectCopierBlocks BY <1>7 DEF DirectCopierBlocks
<1>8. CASE HandlerBlocks BY <1>8 DEF HandlerBlocks
<1>9. CASE ReaderBlocks
  <2>1. copyConn # "closed" /\ app # "gone" BY <1>9 DEF ReaderBlocks, HasRoom, ReadFails
  <2>2. linkConn # "closed" BY <1>p, <2>1 DEF Places
  <2> QED BY <1>9, <2>1, <2>2 DEF ReaderBlocks
<1>10. CASE DialTarget
  <2>1. ~ Direct /\ targetConn = "none" /\ target = "none"
    BY <1>p, <1>10 DEF DialTarget, Places, Reached
  <2>2. relayer = "off" BY <1>p, <2>1 DEF Places, Reached
  <2> QED BY <1>10, <2>1, <2>2 DEF DialTarget
<1>11. CASE Answered
  <2>1. copier = "off" BY <1>p, <1>11 DEF Answered, Waiting, Waits
  <2> QED BY <1>11, <2>1 DEF Answered
<1>12. CASE UNCHANGED vars BY <1>12 DEF vars
<1> QED BY <1>3, <1>4, <1>5, <1>6, <1>7, <1>8, <1>9, <1>10, <1>11, <1>12

\* LinkOtherConn makes a link, and the target accepts it.
LEMMA DialingIsPipe ==
  ASSUME IInv, Context, DialProxy \/ DialDirect \/ Refused \/ TargetAccept
  PROVE  Goal
<1> USE DEF client, sockets, server, ends
<1>1. up' = up /\ down' = down /\ wrote' = wrote /\ taken' = taken
  BY DEF DialProxy, DialDirect, Refused, TargetAccept
<1>p. Places /\ Waiting BY DEF IInv
<1>2. UpFlags /\ DownFlags => ToTarget' = ToTarget /\ ToApp' = ToApp BY <1>1, SameKeeps
<1> DEFINE Keep == UpFlags /\ DownFlags /\ (Broken' <=> Broken)
<1>3. ASSUME Keep, ~ Ready(1), Ready(1)', Ready(2)' <=> Ready(2) PROVE Goal
  <2>1. 1 \in Ends /\ 2 \in Ends /\ 2 # 1 BY DEF Ends
  <2> QED BY <1>1, <1>2, <1>3, <2>1, ReadyIsPipe DEF Goal, Context
<1>4. ASSUME Keep, ~ Ready(2), Ready(2)', Ready(1)' <=> Ready(1) PROVE Goal
  <2>1. 1 \in Ends /\ 2 \in Ends /\ 2 # 1 BY DEF Ends
  <2> QED BY <1>1, <1>2, <1>4, <2>1, ReadyIsPipe DEF Goal, Context
<1> HIDE DEF Keep
<1> USE DEF UpFlags, DownFlags, Broken, Ready, TargetTakes, ServerTakes, ClientTakes,
            AppTakes, ClientBrings, ReaderHolds, ServerBrings, Direct
<1>5. CASE DialProxy \/ DialDirect \/ Refused
  <2>1. caller = "idle" BY <1>5 DEF DialProxy, DialDirect, Refused
  <2>2. /\ linkConn = "none" /\ target = "none" /\ handler = "off" /\ rawConn = "none"
        /\ targetConn = "none" /\ copier = "off" /\ reader = "off"
    BY <1>p, <2>1 DEF Places, Waiting, Waits, Reached
  <2>3. ~ Ready(1) /\ Ready(1)' /\ (Ready(2)' <=> Ready(2))
    BY <1>5, <2>1, <2>2 DEF DialProxy, DialDirect, Refused
  <2>4. Keep BY <1>5, <2>2 DEF DialProxy, DialDirect, Refused, Keep
  <2> QED BY <1>3, <2>3, <2>4
<1>6. CASE TargetAccept
  <2>1. ~ Ready(2) /\ Ready(2)' /\ (Ready(1)' <=> Ready(1)) BY <1>6 DEF TargetAccept
  <2>2. Keep BY <1>6 DEF TargetAccept, Keep
  <2> QED BY <1>4, <2>1, <2>2
<1> QED BY <1>5, <1>6

\* Whoever takes or brings nothing any more belongs to a broken link.
LEMMA Unbroken ==
  /\ ~ ClientTakes => Broken
  /\ ~ ServerBrings => Broken
<1>1. ~ ClientTakes => Broken BY DEF ClientTakes, ServerTakes, TargetTakes, Broken
<1>2. ~ ServerBrings => Broken BY DEF ServerBrings, ClientBrings, AppTakes, Broken
<1> QED BY <1>1, <1>2

\* A write to a socket that is open fails only when its other end has gone.
LEMMA OpenWriteGoes ==
  ASSUME NEW q, NEW m, NEW there, NEW w \in Writes(q, m, "open", there)
  PROVE  \/ w.q = Append(q, m) /\ there \notin {"closed", "gone"}
         \/ w.q = q /\ there \in {"closed", "gone"}
<1>1. CASE there \in {"closed", "gone"}
  <2>1. w \in {[q |-> q, fails |-> f] : f \in BOOLEAN} BY <1>1 DEF Writes
  <2> QED BY <1>1, <2>1
<1>2. CASE there \notin {"closed", "gone"}
  <2>1. w = [q |-> Append(q, m), fails |-> FALSE] BY <1>2 DEF Writes
  <2> QED BY <1>2, <2>1
<1> QED BY <1>1, <1>2

\* What is written last is last on its way.
LEMMA NumbersLast ==
  ASSUME NEW a \in Seq(Nat), NEW b \in Seq(Nat), NEW q \in Seq(Item), NEW n \in Nat
  PROVE  Cat(Cat(a, b), Numbers(Append(q, Data(n)))) = Append(Cat(Cat(a, b), Numbers(q)), n)
<1> DEFINE f == Cat(a, b)
           c == Numbers(q)
           one == <<n>>
<1>1. Data(n) \in Item /\ Data(n).kind = "data" /\ Data(n).n = n BY Kinds DEF Data
<1>2. Numbers(Append(q, Data(n))) = Cat(c, one)
  <2>1. Numbers(<<Data(n)>>) = one BY <1>1, NumbersOfOne
  <2>2. Numbers(Append(q, Data(n))) = c \o Numbers(<<Data(n)>>) BY <1>1, NumbersAppend
  <2> QED BY <2>1, <2>2 DEF Cat
<1>3. f \in Seq(Nat) /\ c \in Seq(Nat) /\ one \in Seq(Nat)
  BY NumbersType, ConcatProperties DEF Cat
<1>4. Cat(f, c) \in Seq(Nat)
  <2> HIDE DEF f, c
  <2> QED BY <1>3, ConcatProperties DEF Cat
<1>5. Append(Cat(f, c), n) = Cat(Cat(f, c), one)
  <2> DEFINE g == Cat(f, c)
  <2>1. g \in Seq(Nat) BY <1>4
  <2> HIDE DEF g
  <2>2. Append(g, n) = g \o one BY <2>1, AppendIsConcat
  <2> QED BY <2>2 DEF g, Cat
<1> HIDE DEF f, c, one
<1>6. Cat(Cat(f, c), one) = Cat(f, Cat(c, one)) BY <1>3, CatRegroup
<1>7. Cat(f, Numbers(Append(q, Data(n)))) = Append(Cat(f, c), n) BY <1>2, <1>5, <1>6
<1> QED BY <1>7 DEF f, c

LEMMA AppWriteIsPipe ==
  ASSUME IInv, Context, AppWrite
  PROVE  Goal
<1> USE DEF client, sockets, server
<1>0. up \in [1 .. 3 -> Seq(Item)] /\ wrote[1] \in Nat /\ wrote[1] + 1 \in Nat
      /\ wrote[1] < AppMsgs + TargetMsgs
  <2>1. wrote[1] \in Nat /\ wrote[1] < AppMsgs /\ AppMsgs \in Nat /\ TargetMsgs \in Nat
    BY BoundsAssumption DEF IInv, TypeOK, AppWrite
  <2>2. up \in [1 .. 3 -> Seq(Item)] BY DEF IInv, TypeOK
  <2> QED BY <2>1, <2>2
<1> DEFINE n == wrote[1] + 1
<1>1. PICK w \in Writes(up[1], Data(n), "open", copyConn) : up' = [up EXCEPT ![1] = w.q]
  BY DEF AppWrite
<1>2. UNCHANGED <<mode, client, sockets, server, app, target, taken, expired, down>>
  BY DEF AppWrite
<1>3. up'[1] = w.q /\ up'[2] = up[2] /\ up'[3] = up[3] BY <1>0, <1>1
<1>4. UpFlags /\ DownFlags /\ ReadySame /\ (Broken' <=> Broken)
  BY <1>2 DEF UpFlags, DownFlags, ReadySame, Ready, Broken, TargetTakes, ServerTakes, ClientTakes,
              AppTakes, ClientBrings, ReaderHolds, ServerBrings, Direct
<1>5. ToApp' = ToApp BY <1>2, <1>4, SameKeeps
<1>6. ToTarget' = Append(ToTarget, n) \/ (Broken /\ ToTarget' = ToTarget)
  <2>1. CASE ~ ClientTakes
    <3>1. UpSame BY <1>3, <1>4, <2>1 DEF UpSame, UpFlags
    <3>2. ToTarget' = ToTarget BY <3>1, SameKeeps
    <3> QED BY <2>1, <3>2, Unbroken
  <2>2. CASE ClientTakes
    <3> DEFINE a == Numbers(up[3])
               b == Numbers(up[2])
               q == up[1]
    <3>0. copyConn \notin {"closed", "gone"}
      <4>1. copyConn # "closed" BY <2>2 DEF ClientTakes
      <4> QED BY <4>1 DEF IInv, TypeOK
    <3>1. w.q = Append(q, Data(n)) BY <1>1, <3>0, OpenWriteGoes
    <3>2. ToTarget = Cat(Cat(a, b), Numbers(q)) BY <2>2, SidesAre DEF Context, Sides, Cat
    <3>3. ToTarget' = Cat(Cat(a, b), Numbers(Append(q, Data(n))))
      BY <1>3, <1>4, <2>2, <3>1, SidesThen DEF Context, Sides, Cat, UpFlags
    <3>4. a \in Seq(Nat) /\ b \in Seq(Nat) /\ q \in Seq(Item) BY <1>0, NumbersType
    <3> HIDE DEF a, b, q, n
    <3>5. n \in Nat BY <1>0 DEF n
    <3> QED BY <3>2, <3>3, <3>4, <3>5, NumbersLast
  <2> QED BY <2>1, <2>2
<1>7. Ready(1) /\ wrote' = [wrote EXCEPT ![1] = @ + 1] /\ taken' = taken
  BY <1>2 DEF AppWrite, Ready
<1>8. 1 \in Ends /\ 2 \in Ends /\ 2 # 1 BY DEF Ends
<1>9. OnItsWay(2)' = OnItsWay(2) BY <1>5, EndsAre
<1>10. \/ OnItsWay(1)' = Append(OnItsWay(1), wrote[1] + 1)
       \/ Broken /\ OnItsWay(1)' = OnItsWay(1)
  BY <1>6, EndsAre
<1> QED BY <1>0, <1>4, <1>7, <1>8, <1>9, <1>10, WriteIsPipe DEF Goal

LEMMA TargetWriteIsPipe ==
  ASSUME IInv, Context, TargetWrite
  PROVE  Goal
<1> USE DEF client, sockets, server
<1>0. down \in [1 .. 3 -> Seq(Item)] /\ wrote[2] \in Nat /\ wrote[2] + 1 \in Nat
      /\ wrote[2] < AppMsgs + TargetMsgs
  <2>1. wrote[2] \in Nat /\ wrote[2] < TargetMsgs /\ AppMsgs \in Nat /\ TargetMsgs \in Nat
    BY BoundsAssumption DEF IInv, TypeOK, TargetWrite
  <2>2. down \in [1 .. 3 -> Seq(Item)] BY DEF IInv, TypeOK
  <2> QED BY <2>1, <2>2
<1> DEFINE n == wrote[2] + 1
<1>1. PICK w \in Writes(down[1], Data(n), "open", TowardsTarget) : down' = [down EXCEPT ![1] = w.q]
  BY DEF TargetWrite
<1>2. UNCHANGED <<mode, client, sockets, server, app, target, taken, expired, up>>
  BY DEF TargetWrite
<1>3. down'[1] = w.q /\ down'[2] = down[2] /\ down'[3] = down[3] BY <1>0, <1>1
<1>4. UpFlags /\ DownFlags /\ ReadySame /\ (Broken' <=> Broken)
  BY <1>2 DEF UpFlags, DownFlags, ReadySame, Ready, Broken, TargetTakes, ServerTakes, ClientTakes,
              AppTakes, ClientBrings, ReaderHolds, ServerBrings, Direct
<1>5. ToTarget' = ToTarget BY <1>2, <1>4, SameKeeps
<1>6. ToApp' = Append(ToApp, n) \/ (Broken /\ ToApp' = ToApp)
  <2>1. CASE ~ ServerBrings
    <3>1. DownSame BY <1>3, <1>4, <2>1 DEF DownSame, DownFlags, FirstSame, Context
    <3>2. ToApp' = ToApp BY <3>1, SameKeeps
    <3> QED BY <2>1, <3>2, Unbroken
  <2>2. CASE ServerBrings
    <3> DEFINE a == Numbers(down[3])
               b == Numbers(down[2])
               q == down[1]
    <3>0. TowardsTarget \notin {"closed", "gone"}
      <4>1. linkConn # "closed" /\ (Direct \/ targetConn # "closed")
        BY <2>2 DEF ServerBrings, ClientBrings
      <4> QED BY <4>1 DEF TowardsTarget, IInv, TypeOK
    <3>1. w.q = Append(q, Data(n)) BY <1>1, <3>0, OpenWriteGoes
    <3>2. ToApp = Cat(Cat(a, b), Numbers(q)) BY <2>2, SidesAre DEF Context, Sides, Cat
    <3>3. ToApp' = Cat(Cat(a, b), Numbers(Append(q, Data(n))))
      BY <1>3, <1>4, <2>2, <3>1, SidesThen DEF Context, Sides, Cat, DownFlags
    <3>4. a \in Seq(Nat) /\ b \in Seq(Nat) /\ q \in Seq(Item) BY <1>0, NumbersType
    <3> HIDE DEF a, b, q, n
    <3>5. n \in Nat BY <1>0 DEF n
    <3> QED BY <3>2, <3>3, <3>4, <3>5, NumbersLast
  <2> QED BY <2>1, <2>2
<1>7. Ready(2) /\ wrote' = [wrote EXCEPT ![2] = @ + 1] /\ taken' = taken
  BY <1>2 DEF TargetWrite, Ready
<1>8. 1 \in Ends /\ 2 \in Ends /\ 2 # 1 BY DEF Ends
<1>9. OnItsWay(1)' = OnItsWay(1) BY <1>5, EndsAre
<1>10. \/ OnItsWay(2)' = Append(OnItsWay(2), wrote[2] + 1)
       \/ Broken /\ OnItsWay(2)' = OnItsWay(2)
  BY <1>6, EndsAre
<1> QED BY <1>0, <1>4, <1>7, <1>8, <1>9, <1>10, WriteIsPipe DEF Goal

\* What is taken from the front of the last connection was first on its way.
LEMMA NumbersFront ==
  ASSUME NEW q \in Seq(Item), q # <<>>, Head(q).kind = "data"
  PROVE  /\ Head(q).n \in Nat /\ Numbers(Tail(q)) \in Seq(Nat)
         /\ Numbers(q) = Cat(<<Head(q).n>>, Numbers(Tail(q)))
<1> DEFINE h == Head(q)
           t == Tail(q)
<1>1. h \in Item BY FirstAndRest
<1>2. Numbers(q) = Numbers(<<h>>) \o Numbers(t) /\ Numbers(t) \in Seq(Nat) BY NumbersFirst
<1> HIDE DEF h, t
<1>3. Numbers(<<h>>) = <<h.n>> /\ h.n \in Nat BY <1>1, NumbersOfOne, Kinds DEF h
<1> QED BY <1>2, <1>3 DEF Cat, h, t

LEMMA FrontOff ==
  ASSUME NEW n \in Nat, NEW r \in Seq(Nat)
  PROVE  /\ Cat(<<n>>, r) # <<>> /\ Head(Cat(<<n>>, r)) = n /\ Tail(Cat(<<n>>, r)) = r
<1> DEFINE p == <<n>> \o r
<1>1. /\ p \in Seq(Nat) /\ Len(p) = 1 + Len(r) /\ Len(r) \in Nat
      /\ p[1] = n /\ \A i \in 1 .. Len(r) : p[i + 1] = r[i]
  <2>1. <<n>> \in Seq(Nat) /\ Len(<<n>>) = 1 /\ <<n>>[1] = n OBVIOUS
  <2> DEFINE one == <<n>>
  <2> HIDE DEF one
  <2>2. one \in Seq(Nat) /\ Len(one) = 1 /\ one[1] = n BY <2>1 DEF one
  <2>3. Len(r) \in Nat BY LenProperties
  <2>4. /\ one \o r \in Seq(Nat) /\ Len(one \o r) = Len(one) + Len(r)
        /\ \A i \in 1 .. Len(one) + Len(r) :
             (one \o r)[i] = IF i <= Len(one) THEN one[i] ELSE r[i - Len(one)]
    BY <2>2, ConcatProperties
  <2>5. (one \o r)[1] = n BY <2>2, <2>3, <2>4
  <2>6. ASSUME NEW i \in 1 .. Len(r) PROVE (one \o r)[i + 1] = r[i]
    <3>1. i + 1 \in 1 .. 1 + Len(r) /\ ~ (i + 1 <= 1) /\ (i + 1) - 1 = i BY <2>3
    <3> QED BY <2>2, <2>4, <3>1
  <2> QED BY <2>2, <2>3, <2>4, <2>5, <2>6 DEF one
<1> HIDE DEF p
<1>2. p # <<>> BY <1>1, EmptySeq
<1>3. Head(p) = p[1] /\ Tail(p) \in Seq(Nat) /\ Len(Tail(p)) = Len(p) - 1
      /\ \A i \in 1 .. Len(Tail(p)) : Tail(p)[i] = p[i + 1]
  BY <1>1, <1>2, HeadTailProperties
<1>4. Tail(p) = r
  <2> DEFINE t == Tail(p)
  <2>1. /\ t \in Seq(Nat) /\ Len(t) = Len(p) - 1
        /\ \A i \in 1 .. Len(t) : t[i] = p[i + 1]
    BY <1>3
  <2> HIDE DEF t
  <2>2. Len(t) = Len(r) BY <1>1, <2>1
  <2>3. \A i \in 1 .. Len(t) : t[i] = r[i] BY <1>1, <2>1, <2>2
  <2>4. t = r BY <2>1, <2>2, <2>3, SeqEqual
  <2> QED BY <2>4 DEF t
<1> QED BY <1>1, <1>2, <1>3, <1>4 DEF p, Cat

LEMMA FrontThrough ==
  ASSUME NEW n \in Nat, NEW a \in Seq(Nat), NEW b \in Seq(Nat)
  PROVE  Cat(a, b) \in Seq(Nat) /\ Cat(Cat(<<n>>, a), b) = Cat(<<n>>, Cat(a, b))
<1>1. Cat(a, b) \in Seq(Nat) BY ConcatProperties DEF Cat
<1> DEFINE one == <<n>>
<1>2. one \in Seq(Nat) OBVIOUS
<1> HIDE DEF one
<1>3. Cat(Cat(one, a), b) = Cat(one, Cat(a, b)) BY <1>2, CatRegroup
<1> QED BY <1>1, <1>3 DEF one

LEMMA FrontThroughTwo ==
  ASSUME NEW n \in Nat, NEW a \in Seq(Nat), NEW b \in Seq(Nat), NEW c \in Seq(Nat)
  PROVE  /\ Cat(Cat(a, b), c) \in Seq(Nat)
         /\ Cat(Cat(Cat(<<n>>, a), b), c) = Cat(<<n>>, Cat(Cat(a, b), c))
<1> DEFINE f == Cat(a, b)
<1>1. f \in Seq(Nat) /\ Cat(Cat(<<n>>, a), b) = Cat(<<n>>, f) BY FrontThrough
<1> HIDE DEF f
<1>2. Cat(f, c) \in Seq(Nat) /\ Cat(Cat(<<n>>, f), c) = Cat(<<n>>, Cat(f, c))
  BY <1>1, FrontThrough
<1> QED BY <1>1, <1>2 DEF f

LEMMA AppReadIsPipe ==
  ASSUME IInv, Context, AppRead
  PROVE  Goal
<1> USE DEF client, sockets, server
<1> DEFINE q == down[3]
           n == Head(q).n
           r == Numbers(Tail(q))
           a == Numbers(q)
           b == Numbers(down[2])
           c == Numbers(down[1])
           h == Numbers(<<Head(down[2])>>)
<1>1. UNCHANGED <<mode, client, sockets, server, app, target, wrote, expired, up>> BY DEF AppRead
<1>2. /\ q \in Seq(Item) /\ q \in Seq(Datum) /\ q # <<>>
      /\ b \in Seq(Nat) /\ c \in Seq(Nat)
      /\ down[2] # <<>> => h \in Seq(Nat)
  <2>1. q \in Seq(Item) /\ q \in Seq(Datum) /\ q # <<>> BY DEF AppRead, IInv, TypeOK, Carried
  <2>2. b \in Seq(Nat) /\ c \in Seq(Nat) BY WayTypes DEF Context
  <2>3. ASSUME down[2] # <<>> PROVE h \in Seq(Nat)
    <3> DEFINE d == down[2]
    <3>1. d \in Seq(Item) /\ d # <<>> BY <2>3 DEF IInv, TypeOK
    <3> HIDE DEF d
    <3>2. Numbers(<<Head(d)>>) \in Seq(Nat) BY <3>1, NumbersFirst
    <3> QED BY <3>2 DEF d
  <2> QED BY <2>1, <2>2, <2>3
<1>3. down'[3] = Tail(q) /\ down'[2] = down[2] /\ down'[1] = down[1]
  <2> DEFINE rest == Tail(q)
  <2>1. down' = [down EXCEPT ![3] = rest] BY DEF AppRead
  <2>2. down \in [1 .. 3 -> Seq(Item)] BY DEF IInv, TypeOK
  <2> HIDE DEF rest, q
  <2>3. down'[3] = rest /\ down'[2] = down[2] /\ down'[1] = down[1] BY <2>1, <2>2
  <2> QED BY <2>3 DEF rest, q
<1>4. UpFlags /\ DownFlags /\ ReadySame /\ (Broken' <=> Broken)
  BY <1>1 DEF UpFlags, DownFlags, ReadySame, Ready, Broken, TargetTakes, ServerTakes, ClientTakes,
              AppTakes, ClientBrings, ReaderHolds, ServerBrings, Direct
<1>5. ToTarget' = ToTarget BY <1>1, <1>4, SameKeeps
<1>6. AppTakes /\ (ReaderHolds => down[2] # <<>>) BY DEF AppRead, AppTakes, Context
<1>7. \/ ToApp = a /\ ToApp' = r
      \/ ReaderHolds /\ ToApp = Cat(a, h) /\ ToApp' = Cat(r, h)
      \/ ToApp = Cat(a, b) /\ ToApp' = Cat(r, b)
      \/ ToApp = Cat(Cat(a, b), c) /\ ToApp' = Cat(Cat(r, b), c)
  <2>1. Sides /\ Sides' BY SidesAre, SidesThen DEF Context
  <2> QED BY <1>3, <1>4, <1>6, <2>1 DEF Sides, DownFlags, Cat
<1>8. n \in Nat /\ r \in Seq(Nat) /\ a = Cat(<<n>>, r)
  <2>1. Head(q).kind = "data"
    <3>1. Head(q) \in Datum BY <1>2, FirstAndRest
    <3> QED BY <3>1, Kinds
  <2> HIDE DEF q
  <2> QED BY <1>2, <2>1, NumbersFront
<1>9. ToApp # <<>> /\ Head(ToApp) = n /\ ToApp' = Tail(ToApp)
  <2> HIDE DEF a, b, c, h, n, r
  <2>1. \E t \in Seq(Nat) : ToApp = Cat(<<n>>, t) /\ ToApp' = t
    <3>1. CASE ToApp = a /\ ToApp' = r BY <1>8, <3>1
    <3>2. CASE ReaderHolds /\ ToApp = Cat(a, h) /\ ToApp' = Cat(r, h)
      <4>1. h \in Seq(Nat) BY <1>2, <1>6, <3>2
      <4>2. Cat(r, h) \in Seq(Nat) /\ Cat(Cat(<<n>>, r), h) = Cat(<<n>>, Cat(r, h))
        BY <1>8, <4>1, FrontThrough
      <4> QED BY <1>8, <3>2, <4>2
    <3>3. CASE ToApp = Cat(a, b) /\ ToApp' = Cat(r, b)
      <4>1. Cat(r, b) \in Seq(Nat) /\ Cat(Cat(<<n>>, r), b) = Cat(<<n>>, Cat(r, b))
        BY <1>2, <1>8, FrontThrough
      <4> QED BY <1>8, <3>3, <4>1
    <3>4. CASE ToApp = Cat(Cat(a, b), c) /\ ToApp' = Cat(Cat(r, b), c)
      <4>1. /\ Cat(Cat(r, b), c) \in Seq(Nat)
            /\ Cat(Cat(Cat(<<n>>, r), b), c) = Cat(<<n>>, Cat(Cat(r, b), c))
        BY <1>2, <1>8, FrontThroughTwo
      <4> QED BY <1>8, <3>4, <4>1
    <3> QED BY <1>7, <3>1, <3>2, <3>3, <3>4
  <2>2. PICK t \in Seq(Nat) : ToApp = Cat(<<n>>, t) /\ ToApp' = t BY <2>1
  <2>3. Cat(<<n>>, t) # <<>> /\ Head(Cat(<<n>>, t)) = n /\ Tail(Cat(<<n>>, t)) = t
    BY <1>8, FrontOff
  <2> QED BY <2>2, <2>3
<1>10. Ready(1) BY DEF AppRead, IInv, Places, Ready
<1>11. 1 \in Ends /\ 2 \in Ends /\ 2 # 1 BY DEF Ends
<1>12. /\ OnItsWay(1)' = OnItsWay(1) /\ OnItsWay(2) # <<>>
       /\ OnItsWay(2)' = Tail(OnItsWay(2)) /\ Head(OnItsWay(2)) = n
  BY <1>5, <1>9, EndsAre
<1>13. taken' = [taken EXCEPT ![1] = Append(@, n)] /\ wrote' = wrote BY <1>1 DEF AppRead
<1> HIDE DEF n
<1>14. taken' = [taken EXCEPT ![1] = Append(@, Head(OnItsWay(2)))] BY <1>12, <1>13
<1> QED BY <1>4, <1>10, <1>11, <1>12, <1>13, <1>14, ReadIsPipe DEF Goal

LEMMA TargetReadIsPipe ==
  ASSUME IInv, Context, TargetRead
  PROVE  Goal
<1> USE DEF client, sockets, server
<1> DEFINE q == up[3]
           n == Head(q).n
           r == Numbers(Tail(q))
           a == Numbers(q)
           b == Numbers(up[2])
           c == Numbers(up[1])
<1>1. UNCHANGED <<mode, client, sockets, server, app, target, wrote, expired, down>> BY DEF TargetRead
<1>2. q \in Seq(Item) /\ q \in Seq(Sent) /\ q # <<>> /\ b \in Seq(Nat) /\ c \in Seq(Nat)
  <2>1. q \in Seq(Item) /\ q \in Seq(Sent) /\ q # <<>> BY DEF TargetRead, IInv, TypeOK, Carried
  <2>2. b \in Seq(Nat) /\ c \in Seq(Nat) BY WayTypes DEF Context
  <2> QED BY <2>1, <2>2
<1>3. up'[3] = Tail(q) /\ up'[2] = up[2] /\ up'[1] = up[1]
  <2> DEFINE rest == Tail(q)
  <2>1. up' = [up EXCEPT ![3] = rest] BY DEF TargetRead
  <2>2. up \in [1 .. 3 -> Seq(Item)] BY DEF IInv, TypeOK
  <2> HIDE DEF rest, q
  <2>3. up'[3] = rest /\ up'[2] = up[2] /\ up'[1] = up[1] BY <2>1, <2>2
  <2> QED BY <2>3 DEF rest, q
<1>4. UpFlags /\ DownFlags /\ ReadySame /\ (Broken' <=> Broken)
  BY <1>1 DEF UpFlags, DownFlags, ReadySame, Ready, Broken, TargetTakes, ServerTakes, ClientTakes,
              AppTakes, ClientBrings, ReaderHolds, ServerBrings, Direct
<1>5. ToApp' = ToApp BY <1>1, <1>4, SameKeeps
\* Messages of the owner's own are not counted.
<1>6. CASE Head(q).kind = "own"
  <2>1. a = r
    <3> DEFINE m == Head(q)
               t == Tail(q)
    <3>1. m \in Item /\ t \in Seq(Item) BY <1>2, FirstAndRest
    <3>2. Numbers(q) = Numbers(<<m>>) \o Numbers(t) /\ Numbers(t) \in Seq(Nat) BY <1>2, NumbersFirst
    <3>3. m.kind # "data" BY <1>6
    <3> HIDE DEF m, t
    <3>4. Numbers(<<m>>) = <<>> BY <3>1, <3>3, NumbersOfOne
    <3> DEFINE x == Numbers(t)
    <3>5. Numbers(q) = <<>> \o x /\ x \in Seq(Nat) BY <3>2, <3>4
    <3> HIDE DEF x, q
    <3>6. Numbers(q) = x BY <3>5, ConcatEmptySeq
    <3> QED BY <3>6 DEF x, t
  <2>2. UpSame
    <3>1. Numbers(up'[3]) = Numbers(up[3]) BY <1>3, <2>1
    <3> QED BY <1>3, <1>4, <3>1 DEF UpSame, UpFlags
  <2>3. ToTarget' = ToTarget BY <2>2, SameKeeps
  <2>4. taken' = taken /\ wrote' = wrote BY <1>1, <1>6 DEF TargetRead
  <2> QED BY <1>4, <1>5, <2>3, <2>4, KeepsIsPipe
<1>7. CASE Head(q).kind # "own"
  <2>1. TargetTakes BY DEF TargetRead, TargetTakes
  <2>2. \/ ToTarget = a /\ ToTarget' = r
        \/ ToTarget = Cat(a, b) /\ ToTarget' = Cat(r, b)
        \/ ToTarget = Cat(Cat(a, b), c) /\ ToTarget' = Cat(Cat(r, b), c)
    <3>1. Sides /\ Sides' BY SidesAre, SidesThen DEF Context
    <3> QED BY <1>3, <1>4, <2>1, <3>1 DEF Sides, UpFlags, Cat
  <2>3. n \in Nat /\ r \in Seq(Nat) /\ a = Cat(<<n>>, r)
    <3>1. Head(q).kind = "data"
      <4>1. Head(q) \in Sent BY <1>2, FirstAndRest
      <4> QED BY <1>7, <4>1 DEF Sent
    <3> HIDE DEF q
    <3> QED BY <1>2, <3>1, NumbersFront
  <2>4. ToTarget # <<>> /\ Head(ToTarget) = n /\ ToTarget' = Tail(ToTarget)
    <3> HIDE DEF a, b, c, n, r
    <3>1. \E t \in Seq(Nat) : ToTarget = Cat(<<n>>, t) /\ ToTarget' = t
      <4>1. CASE ToTarget = a /\ ToTarget' = r BY <2>3, <4>1
      <4>2. CASE ToTarget = Cat(a, b) /\ ToTarget' = Cat(r, b)
        <5>1. Cat(r, b) \in Seq(Nat) /\ Cat(Cat(<<n>>, r), b) = Cat(<<n>>, Cat(r, b))
          BY <1>2, <2>3, FrontThrough
        <5> QED BY <2>3, <4>2, <5>1
      <4>3. CASE ToTarget = Cat(Cat(a, b), c) /\ ToTarget' = Cat(Cat(r, b), c)
        <5>1. /\ Cat(Cat(r, b), c) \in Seq(Nat)
              /\ Cat(Cat(Cat(<<n>>, r), b), c) = Cat(<<n>>, Cat(Cat(r, b), c))
          BY <1>2, <2>3, FrontThroughTwo
        <5> QED BY <2>3, <4>3, <5>1
      <4> QED BY <2>2, <4>1, <4>2, <4>3
    <3>2. PICK t \in Seq(Nat) : ToTarget = Cat(<<n>>, t) /\ ToTarget' = t BY <3>1
    <3>3. Cat(<<n>>, t) # <<>> /\ Head(Cat(<<n>>, t)) = n /\ Tail(Cat(<<n>>, t)) = t
      BY <2>3, FrontOff
    <3> QED BY <3>2, <3>3
  <2>5. Ready(2) BY DEF TargetRead, Ready
  <2>6. 1 \in Ends /\ 2 \in Ends /\ 2 # 1 BY DEF Ends
  <2>7. /\ OnItsWay(2)' = OnItsWay(2) /\ OnItsWay(1) # <<>>
        /\ OnItsWay(1)' = Tail(OnItsWay(1)) /\ Head(OnItsWay(1)) = n
    BY <1>5, <2>4, EndsAre
  <2>8. taken' = [taken EXCEPT ![2] = Append(@, n)] /\ wrote' = wrote BY <1>1, <1>7 DEF TargetRead
  <2> HIDE DEF n
  <2>9. taken' = [taken EXCEPT ![2] = Append(@, Head(OnItsWay(1)))] BY <2>7, <2>8
  <2> QED BY <1>4, <2>5, <2>6, <2>7, <2>8, <2>9, ReadIsPipe DEF Goal
<1> QED BY <1>6, <1>7

-----------------------------------------------------------------------------
(* The steps that carry *)

\* A message that is no data adds nothing to what is on its way.
LEMMA GoesUncounted ==
  ASSUME NEW q \in Seq(Item), NEW m \in Item, m.kind # "data", NEW here, NEW there,
         NEW w, Goes(w, q, m, here, there)
  PROVE  Numbers(w.q) = Numbers(q)
<1>1. w.q = q \/ w.q = Append(q, m) BY DEF Goes
<1>2. Numbers(Append(q, m)) = Numbers(q) BY NumbersAppend
<1> QED BY <1>1, <1>2

\* A message that is no data leaves nothing out when it is taken.
LEMMA TakenUncounted ==
  ASSUME NEW q \in Seq(Item), q # <<>>, Head(q).kind # "data"
  PROVE  Numbers(Tail(q)) = Numbers(q)
<1> DEFINE m == Head(q)
           t == Tail(q)
           x == Numbers(t)
<1>1. m \in Item /\ t \in Seq(Item) BY FirstAndRest
<1>2. Numbers(q) = Numbers(<<m>>) \o x /\ x \in Seq(Nat) BY NumbersFirst
<1> HIDE DEF m, t
<1>3. Numbers(<<m>>) = <<>> BY <1>1, NumbersOfOne DEF m
<1>4. Numbers(q) = <<>> \o x BY <1>2, <1>3
<1> HIDE DEF x
<1>5. Numbers(q) = x BY <1>2, <1>4, ConcatEmptySeq
<1> QED BY <1>5 DEF x, t

\* The messages of a link that are no data.
LEMMA OwnIsPipe ==
  ASSUME IInv, Context, Ask \/ WriteToLinkConn \/ TakeQ1
  PROVE  Goal
<1> USE DEF client, sockets, server, ends
<1>0. up \in [1 .. 3 -> Seq(Item)] BY DEF IInv, TypeOK
<1>1. UNCHANGED <<mode, reader, copier, closing, sockets, rawConn, targetConn, relayer, app, target,
                  wrote, taken, down>>
  BY DEF Ask, WriteToLinkConn, TakeQ1
<1>2. \A i \in 1 .. 3 : Numbers(up'[i]) = Numbers(up[i])
  <2>1. CASE Ask
    <3>1. CASE up' = up BY <3>1
    <3>2. ASSUME NEW w \in ClientWrites(up[2], Q1, "link", linkConn, rawConn),
                 up' = [up EXCEPT ![2] = w.q]
          PROVE  \A i \in 1 .. 3 : Numbers(up'[i]) = Numbers(up[i])
      <4>1. Numbers(w.q) = Numbers(up[2])
        <5>1. Q1 \in Item /\ Q1.kind # "data" BY Kinds DEF Q1
        <5>2. up[2] \in Seq(Item) BY <1>0
        <5>3. Goes(w, up[2], Q1, linkConn, rawConn) BY ClientWriteGoes
        <5> QED BY <5>1, <5>2, <5>3, GoesUncounted
      <4>2. up'[2] = w.q /\ up'[1] = up[1] /\ up'[3] = up[3] BY <1>0, <3>2
      <4> QED BY <4>1, <4>2
    <3> QED BY <2>1, <3>1, <3>2 DEF Ask
  <2>2. CASE WriteToLinkConn
    <3> DEFINE k == IF Direct THEN 3 ELSE 2
               there == IF Direct THEN target ELSE rawConn
               m == Own(calls')
    <3>1. PICK w \in ClientWrites(up[k], m, "link", linkConn, there) : up' = [up EXCEPT ![k] = w.q]
      <4>1. CASE Direct BY <2>2, <4>1 DEF WriteToLinkConn
      <4>2. CASE ~ Direct BY <2>2, <4>2 DEF WriteToLinkConn
      <4> QED BY <4>1, <4>2
    <3>2. k \in 1 .. 3 OBVIOUS
    <3>3. m \in Item /\ m.kind # "data"
      <4>1. calls' \in Nat
        <5>1. calls \in Nat BY BoundsAssumption DEF IInv, TypeOK
        <5> QED BY <2>2, <5>1 DEF WriteToLinkConn
      <4> QED BY <4>1, Kinds DEF Own
    <3> HIDE DEF k, there, m
    <3>4. Goes(w, up[k], m, linkConn, there) BY ClientWriteGoes
    <3>5. up[k] \in Seq(Item) BY <1>0, <3>2
    <3>6. Numbers(w.q) = Numbers(up[k]) BY <3>3, <3>4, <3>5, GoesUncounted
    <3>7. \A i \in 1 .. 3 : up'[i] = IF i = k THEN w.q ELSE up[i] BY <1>0, <3>1, <3>2
    <3> QED BY <3>6, <3>7
  <2>3. CASE TakeQ1
    <3> DEFINE q == up[2]
               rest == Tail(q)
    <3>1. q = <<Q1>>
      <4>1. handler = "init" /\ up[2] # <<>> BY <2>3 DEF TakeQ1
      <4>2. Waits BY <4>1 DEF IInv, Answers, Places, Direct, Reached
      <4> QED BY <4>1, <4>2 DEF IInv, Waiting
    <3>2. q \in Seq(Item) /\ q # <<>> /\ Head(q).kind # "data"
      <4>1. q \in Seq(Item) BY <1>0
      <4>2. Head(<<Q1>>) = Q1 /\ <<Q1>> # <<>> OBVIOUS
      <4>3. Q1.kind = "Q1" BY DEF Q1
      <4> QED BY <3>1, <4>1, <4>2, <4>3
    <3>3. Numbers(rest) = Numbers(q)
      <4> HIDE DEF q
      <4> QED BY <3>2, TakenUncounted
    <3>4. up' = [up EXCEPT ![2] = rest] BY <2>3 DEF TakeQ1
    <3> HIDE DEF rest
    <3>5. up'[2] = rest /\ up'[1] = up[1] /\ up'[3] = up[3] BY <1>0, <3>4
    <3> QED BY <3>3, <3>5
  <2> QED BY <2>1, <2>2, <2>3
<1>3. handler' = "ended" <=> handler = "ended" BY DEF Ask, WriteToLinkConn, TakeQ1
<1>4. caller' = "idle" <=> caller = "idle" BY DEF Ask, WriteToLinkConn, TakeQ1
<1>5. UpFlags /\ DownFlags /\ ReadySame /\ (Broken' <=> Broken)
  BY <1>1, <1>3, <1>4 DEF UpFlags, DownFlags, ReadySame, Ready, Broken, TargetTakes, ServerTakes,
     ClientTakes, AppTakes, ClientBrings, ReaderHolds, ServerBrings, Direct
<1>6. UpSame BY <1>2, <1>5 DEF UpSame, UpFlags
<1>7. ToTarget' = ToTarget /\ ToApp' = ToApp BY <1>1, <1>5, <1>6, SameKeeps
<1> QED BY <1>1, <1>5, <1>7, KeepsIsPipe

\* The copy loop of the client.
LEMMA CopierMovesIsPipe ==
  ASSUME IInv, Context, CopierMoves
  PROVE  Goal
<1> USE DEF client, sockets, server, ends
<1> DEFINE m == Head(up[1])
           rest == Tail(up[1])
<1>0. up \in [1 .. 3 -> Seq(Item)] BY DEF IInv, TypeOK
<1>1. PICK w \in ClientWrites(up[2], m, "link", linkConn, rawConn) :
        /\ up' = [up EXCEPT ![1] = rest, ![2] = w.q]
        /\ IF w.fails THEN copier' = "ended" /\ copyConn' = "closed"
                      ELSE UNCHANGED <<copier, copyConn>>
  BY DEF CopierMoves
<1>2. UNCHANGED <<mode, caller, reader, closing, linkConn, server, ends, down>> BY DEF CopierMoves
<1>3. copier = "on" /\ ~ Direct /\ copyConn = "open" /\ up[1] # <<>> BY DEF CopierMoves
<1>4. up'[1] = rest /\ up'[2] = w.q /\ up'[3] = up[3]
  <2> HIDE DEF m, rest
  <2> QED BY <1>0, <1>1
<1>5. Goes(w, up[2], m, linkConn, rawConn) BY <1>1, ClientWriteGoes
<1> HIDE DEF m, rest
<1>6. ReadySame BY <1>2 DEF ReadySame, Ready
<1> DEFINE Same == UpFlags /\ DownFlags /\ (Broken' <=> Broken)
<1>7. ASSUME ~ w.fails PROVE Same
  <2>1. UNCHANGED <<copier, copyConn>> BY <1>1, <1>7
  <2> QED BY <1>2, <2>1 DEF UpFlags, DownFlags, Broken, TargetTakes, ServerTakes,
       ClientTakes, AppTakes, ClientBrings, ReaderHolds, ServerBrings, Direct
<1> HIDE DEF Same
<1>8. CASE w.fails
  <2>1. copier' = "ended" /\ copyConn' = "closed" BY <1>1, <1>8
  <2>2. w.q = up[2] BY <1>5, <1>8 DEF Goes
  <2>3. Fewer /\ ~ ClientTakes' /\ Broken'
    BY <1>2, <2>1 DEF Fewer, Broken, TargetTakes, ServerTakes,
       ClientTakes, AppTakes, ClientBrings, ReaderHolds, ServerBrings, Direct
  <2>4. UpShorter BY <1>4, <2>2, <2>3 DEF UpShorter, Fewer
  <2>5. DownShorter BY <1>2, <2>3, Untouched DEF Context
  <2> QED BY <1>2, <1>6, <2>3, <2>4, <2>5, LosesIsPipe
<1>9. CASE ~ w.fails /\ w.q = Append(up[2], m) /\ linkConn = "open"
  <2>1. Same BY <1>7, <1>9
  <2>2. ServerTakes => ClientTakes BY <1>3, <1>9 DEF ClientTakes
  <2>3. ToTarget' = ToTarget
    BY <1>3, <1>4, <1>9, <2>1, <2>2, CopierCarries DEF Same, Context, m, rest
  <2>4. ToApp' = ToApp BY <1>2, <2>1, SameKeeps DEF Same
  <2> QED BY <1>2, <1>6, <2>1, <2>3, <2>4, KeepsIsPipe DEF Same
<1>10. CASE ~ w.fails /\ w.q = up[2] /\ rawConn \in {"closed", "gone"}
  <2>1. Same BY <1>7, <1>10
  <2>2. ~ ServerTakes /\ ~ ClientTakes
    <3>1. rawConn = "closed" BY <1>10 DEF IInv, TypeOK
    <3> QED BY <1>3, <3>1 DEF ServerTakes, ClientTakes
  <2>3. UpSame BY <1>4, <2>1, <2>2 DEF Same, UpFlags, UpSame
  <2>4. ToTarget' = ToTarget /\ ToApp' = ToApp BY <1>2, <2>1, <2>3, SameKeeps DEF Same
  <2> QED BY <1>2, <1>6, <2>1, <2>4, KeepsIsPipe DEF Same
<1> QED BY <1>5, <1>8, <1>9, <1>10 DEF Goes

LEMMA DirectCopierMovesIsPipe ==
  ASSUME IInv, Context, DirectCopierMoves
  PROVE  Goal
<1> USE DEF client, sockets, server, ends
<1> DEFINE m == Head(up[1])
           rest == Tail(up[1])
<1>0. up \in [1 .. 3 -> Seq(Item)] BY DEF IInv, TypeOK
<1>1. PICK w \in ClientWrites(up[3], m, "link", linkConn, target) :
        /\ up' = [up EXCEPT ![1] = rest, ![3] = w.q]
        /\ copier' = IF w.fails THEN "ended" ELSE "on"
  BY DEF DirectCopierMoves
<1>2. UNCHANGED <<mode, caller, reader, closing, sockets, server, ends, down>>
  BY DEF DirectCopierMoves
<1>3. copier \in {"on", "write"} /\ Direct /\ ~ crashed /\ up[1] # <<>> BY DEF DirectCopierMoves
<1>4. up'[1] = rest /\ up'[2] = up[2] /\ up'[3] = w.q
  <2> HIDE DEF m, rest
  <2> QED BY <1>0, <1>1
<1>5. Goes(w, up[3], m, linkConn, target) BY <1>1, ClientWriteGoes
<1> HIDE DEF m, rest
<1>6. ReadySame BY <1>2 DEF ReadySame, Ready
<1> DEFINE Same == UpFlags /\ DownFlags /\ (Broken' <=> Broken)
<1>7. ASSUME ~ w.fails PROVE Same
  <2>1. copier' = "on" BY <1>1, <1>7
  <2> QED BY <1>2, <1>3, <2>1 DEF UpFlags, DownFlags, Broken, TargetTakes, ServerTakes,
       ClientTakes, AppTakes, ClientBrings, ReaderHolds, ServerBrings, Direct
<1> HIDE DEF Same
<1>8. CASE w.fails
  <2>1. copier' = "ended" BY <1>1, <1>8
  <2>2. w.q = up[3] BY <1>5, <1>8 DEF Goes
  <2>3. Fewer /\ ~ ClientTakes' /\ Broken'
    BY <1>2, <2>1 DEF Fewer, Broken, TargetTakes, ServerTakes,
       ClientTakes, AppTakes, ClientBrings, ReaderHolds, ServerBrings, Direct
  <2>4. UpShorter BY <1>4, <2>2, <2>3 DEF UpShorter, Fewer
  <2>5. DownShorter BY <1>2, <2>3, Untouched DEF Context
  <2> QED BY <1>2, <1>6, <2>3, <2>4, <2>5, LosesIsPipe
<1>9. CASE ~ w.fails /\ w.q = Append(up[3], m) /\ linkConn = "open" /\ target \notin {"closed", "gone"}
  <2>1. Same BY <1>7, <1>9
  <2>2. copyConn # "closed" /\ up[2] = <<>> BY <1>3 DEF IInv, Places
  <2>3. ClientTakes BY <1>3, <1>9, <2>2 DEF ClientTakes, ServerTakes, TargetTakes
  <2>4. ClientTakes' BY <2>1, <2>3 DEF Same, UpFlags
  <2>5. ToTarget' = ToTarget
    BY <1>3, <1>4, <1>9, <2>2, <2>3, <2>4, DirectCopierCarries DEF Context, m, rest
  <2>6. ToApp' = ToApp BY <1>2, <2>1, SameKeeps DEF Same
  <2> QED BY <1>2, <1>6, <2>1, <2>5, <2>6, KeepsIsPipe DEF Same
<1>10. CASE ~ w.fails /\ w.q = up[3] /\ target \in {"closed", "gone"}
  <2>1. Same BY <1>7, <1>10
  <2>2. ~ TargetTakes /\ ~ ServerTakes /\ ~ ClientTakes
    <3>1. target = "gone" BY <1>10 DEF IInv, TypeOK
    <3> QED BY <3>1 DEF ServerTakes, ClientTakes, TargetTakes
  <2>3. UpSame BY <1>4, <2>1, <2>2 DEF Same, UpFlags, UpSame
  <2>4. ToTarget' = ToTarget /\ ToApp' = ToApp BY <1>2, <2>1, <2>3, SameKeeps DEF Same
  <2> QED BY <1>2, <1>6, <2>1, <2>4, KeepsIsPipe DEF Same
<1> QED BY <1>5, <1>8, <1>9, <1>10 DEF Goes

\* The handler of the server.
LEMMA HandlerMovesIsPipe ==
  ASSUME IInv, Context, HandlerMoves
  PROVE  Goal
<1> USE DEF client, sockets, server, ends
<1> DEFINE m == Head(up[2])
           rest == Tail(up[2])
<1>0. up \in [1 .. 3 -> Seq(Item)] BY DEF IInv, TypeOK
<1>1. PICK w \in Writes(up[3], m, targetConn, target) :
        /\ up' = [up EXCEPT ![2] = rest, ![3] = w.q]
        /\ IF w.fails THEN handler' = "ended" /\ ServerClose
                      ELSE handler' = "relay" /\ UNCHANGED <<rawConn, targetConn>>
  BY DEF HandlerMoves
<1>2. UNCHANGED <<mode, client, sockets, relayer, ends, down>> BY DEF HandlerMoves
<1>3. handler \in {"relay", "write"} /\ ~ Direct /\ up[2] # <<>>
  BY DEF HandlerMoves, IInv, Held, Places
<1>4. up'[1] = up[1] /\ up'[2] = rest /\ up'[3] = w.q
  <2> HIDE DEF m, rest
  <2> QED BY <1>0, <1>1
<1>5. Goes(w, up[3], m, targetConn, target) BY <1>1, WriteGoes
<1> HIDE DEF m, rest
<1>6. ReadySame BY <1>2 DEF ReadySame, Ready
<1> DEFINE Same == UpFlags /\ DownFlags /\ (Broken' <=> Broken)
<1>7. ASSUME ~ w.fails PROVE Same
  <2>1. handler' = "relay" /\ UNCHANGED <<rawConn, targetConn>> BY <1>1, <1>7
  <2> QED BY <1>2, <1>3, <2>1 DEF UpFlags, DownFlags, Broken, TargetTakes, ServerTakes,
       ClientTakes, AppTakes, ClientBrings, ReaderHolds, ServerBrings, Direct
<1> HIDE DEF Same
<1>8. CASE w.fails
  <2>1. handler' = "ended" /\ rawConn' = "closed" BY <1>1, <1>8 DEF ServerClose
  <2>2. w.q = up[3] BY <1>5, <1>8 DEF Goes
  <2>3. Fewer /\ ~ ServerTakes' /\ ~ ClientTakes' /\ Broken'
    BY <1>2, <1>3, <2>1 DEF Fewer, Broken, TargetTakes, ServerTakes,
       ClientTakes, AppTakes, ClientBrings, ReaderHolds, ServerBrings, Direct
  <2>4. UpShorter BY <1>4, <2>2, <2>3 DEF UpShorter, Fewer
  <2>5. DownShorter BY <1>2, <2>3, Untouched DEF Context
  <2> QED BY <1>2, <1>6, <2>3, <2>4, <2>5, LosesIsPipe
<1>9. CASE ~ w.fails /\ w.q = Append(up[3], m) /\ targetConn = "open"
  <2>1. Same BY <1>7, <1>9
  <2>2. rawConn # "closed" BY <1>9 DEF IInv, Places
  <2>3. TargetTakes => ServerTakes BY <1>3, <1>9, <2>2 DEF ServerTakes
  <2>4. ToTarget' = ToTarget
    BY <1>3, <1>4, <1>9, <2>1, <2>3, HandlerCarries DEF Same, Context, m, rest
  <2>5. ToApp' = ToApp BY <1>2, <2>1, SameKeeps DEF Same
  <2> QED BY <1>2, <1>6, <2>1, <2>4, <2>5, KeepsIsPipe DEF Same
<1>10. CASE ~ w.fails /\ w.q = up[3] /\ target \in {"closed", "gone"}
  <2>1. Same BY <1>7, <1>10
  <2>2. ~ TargetTakes /\ ~ ServerTakes /\ ~ ClientTakes
    <3>1. target = "gone" BY <1>10 DEF IInv, TypeOK
    <3> QED BY <3>1 DEF ServerTakes, ClientTakes, TargetTakes
  <2>3. UpSame BY <1>4, <2>1, <2>2 DEF Same, UpFlags, UpSame
  <2>4. ToTarget' = ToTarget /\ ToApp' = ToApp BY <1>2, <2>1, <2>3, SameKeeps DEF Same
  <2> QED BY <1>2, <1>6, <2>1, <2>4, KeepsIsPipe DEF Same
<1> QED BY <1>5, <1>8, <1>9, <1>10 DEF Goes

\* readLinkConn of the server.
LEMMA RelayerMovesIsPipe ==
  ASSUME IInv, Context, RelayerMoves
  PROVE  Goal
<1> USE DEF client, sockets, server, ends
<1> DEFINE m == Head(down[1])
           rest == Tail(down[1])
<1>0. down \in [1 .. 3 -> Seq(Item)] BY DEF IInv, TypeOK
<1>1. PICK w \in RawWrites(m) :
        /\ down' = [down EXCEPT ![1] = rest, ![2] = w.q]
        /\ IF w.fails THEN relayer' = "ended" /\ ServerClose
                      ELSE UNCHANGED <<relayer, rawConn, targetConn>>
  BY DEF RelayerMoves
<1>2. UNCHANGED <<mode, client, sockets, handler, ends, up>> BY DEF RelayerMoves
<1>3. relayer = "on" /\ targetConn = "open" /\ ~ Direct /\ down[1] # <<>>
  <2>1. relayer = "on" /\ targetConn = "open" /\ down[1] # <<>> BY DEF RelayerMoves
  <2>2. Reached BY <2>1 DEF Reached
  <2>3. ~ Direct BY <2>2 DEF IInv, Places
  <2> QED BY <2>1, <2>3
<1>4. down'[1] = rest /\ down'[2] = w.q /\ down'[3] = down[3]
  <2> HIDE DEF m, rest
  <2> QED BY <1>0, <1>1
<1>5. Goes(w, down[2], m, rawConn, linkConn) BY <1>1, RawWriteGoes
<1>11. m \in Item BY <1>0, <1>3, FirstAndRest
<1> HIDE DEF m, rest
<1>6. ReadySame BY <1>2 DEF ReadySame, Ready
<1>12. ReaderHolds => FirstSame
  <2> SUFFICES ASSUME ReaderHolds PROVE FirstSame OBVIOUS
  <2>1. down[2] # <<>> BY DEF Context
  <2>2. down[2] \in Seq(Item) BY <1>0
  <2>3. w.q # <<>> /\ Head(w.q) = Head(down[2]) BY <1>5, <1>11, <2>1, <2>2, GoesBehind
  <2> QED BY <1>4, <2>1, <2>3 DEF FirstSame
<1> DEFINE Same == UpFlags /\ DownFlags /\ (Broken' <=> Broken)
<1>7. ASSUME ~ w.fails PROVE Same
  <2>1. UNCHANGED <<relayer, rawConn, targetConn>> BY <1>1, <1>7
  <2> QED BY <1>2, <2>1 DEF UpFlags, DownFlags, Broken, TargetTakes, ServerTakes,
       ClientTakes, AppTakes, ClientBrings, ReaderHolds, ServerBrings, Direct
<1> HIDE DEF Same
<1>8. CASE w.fails
  <2>1. relayer' = "ended" /\ rawConn' = "closed" BY <1>1, <1>8 DEF ServerClose
  <2>2. w.q = down[2] BY <1>5, <1>8 DEF Goes
  <2>3. Fewer /\ ~ ServerBrings' /\ Broken' /\ (ReaderHolds' <=> ReaderHolds)
    BY <1>2, <1>3, <2>1 DEF Fewer, Broken, TargetTakes, ServerTakes,
       ClientTakes, AppTakes, ClientBrings, ReaderHolds, ServerBrings, Direct
  <2>4. DownShorter BY <1>4, <1>12, <2>2, <2>3 DEF DownShorter, Fewer
  <2>5. UpShorter BY <1>2, <2>3, Untouched
  <2> QED BY <1>2, <1>6, <2>3, <2>4, <2>5, LosesIsPipe
<1>9. CASE ~ w.fails /\ w.q = Append(down[2], m) /\ rawConn = "open"
  <2>1. Same BY <1>7, <1>9
  <2>2. ClientBrings => ServerBrings BY <1>3, <1>9 DEF ServerBrings
  <2>3. ToApp' = ToApp
    BY <1>3, <1>4, <1>9, <1>12, <2>1, <2>2, RelayerCarries DEF Same, Context, m, rest
  <2>4. ToTarget' = ToTarget BY <1>2, <2>1, SameKeeps DEF Same
  <2> QED BY <1>2, <1>6, <2>1, <2>3, <2>4, KeepsIsPipe DEF Same
<1>10. CASE ~ w.fails /\ w.q = down[2] /\ linkConn \in {"closed", "gone"}
  <2>1. Same BY <1>7, <1>10
  <2>2. ~ ClientBrings /\ ~ ServerBrings
    <3>1. linkConn = "closed" BY <1>10 DEF IInv, TypeOK
    <3> QED BY <3>1 DEF ServerBrings, ClientBrings
  <2>3. DownSame BY <1>4, <1>12, <2>1, <2>2 DEF Same, DownFlags, DownSame
  <2>4. ToTarget' = ToTarget /\ ToApp' = ToApp BY <1>2, <2>1, <2>3, SameKeeps DEF Same
  <2> QED BY <1>2, <1>6, <2>1, <2>4, KeepsIsPipe DEF Same
<1> QED BY <1>5, <1>8, <1>9, <1>10 DEF Goes

\* The reader of the client finds an answer.
LEMMA ReadAnswerIsPipe ==
  ASSUME IInv, Context, ReadAnswer
  PROVE  Goal
<1> USE DEF client, sockets, server, ends
<1> DEFINE q == down[2]
           rest == Tail(q)
<1>0. down \in [1 .. 3 -> Seq(Item)] BY DEF IInv, TypeOK
<1>1. /\ UNCHANGED <<mode, caller, reader, copier, copyConn, linkConn, server, ends, up>>
      /\ reader = "on" /\ closing = "no" /\ q # <<>> /\ Head(q).kind \in {"ok", "bad"}
      /\ down' = [down EXCEPT ![2] = rest]
      /\ closing' = closing \/ closing' = "begun"
  BY DEF ReadAnswer, CallClose
<1>2. q \in Seq(Item) BY <1>0
<1>3. Numbers(rest) = Numbers(q)
  <2> HIDE DEF q
  <2>1. Head(q).kind # "data" BY <1>1
  <2> QED BY <1>1, <1>2, <2>1, TakenUncounted
<1> HIDE DEF rest
<1>4. down'[2] = rest /\ down'[1] = down[1] /\ down'[3] = down[3] BY <1>0, <1>1
<1>5. ReadySame BY <1>1 DEF ReadySame, Ready
<1>6. ~ ReaderHolds /\ ~ ReaderHolds' BY <1>1 DEF ReaderHolds
<1>7. CASE closing' = closing
  <2>1. UpFlags /\ DownFlags /\ (Broken' <=> Broken)
    BY <1>1, <1>7 DEF UpFlags, DownFlags, Broken, TargetTakes, ServerTakes,
       ClientTakes, AppTakes, ClientBrings, ReaderHolds, ServerBrings, Direct
  <2>2. DownSame BY <1>3, <1>4, <1>6, <2>1 DEF DownSame, DownFlags
  <2>3. ToTarget' = ToTarget /\ ToApp' = ToApp BY <1>1, <2>1, <2>2, SameKeeps
  <2> QED BY <1>1, <1>5, <2>1, <2>3, KeepsIsPipe
<1>8. CASE closing' = "begun"
  <2>1. Fewer /\ ~ ClientBrings' /\ ~ ServerBrings' /\ Broken'
    BY <1>1, <1>6, <1>8 DEF Fewer, Broken, TargetTakes, ServerTakes,
       ClientTakes, AppTakes, ClientBrings, ServerBrings, Direct
  <2>2. DownShorter BY <1>4, <1>6, <2>1 DEF DownShorter, Fewer
  <2>3. UpShorter BY <1>1, <2>1, Untouched
  <2> QED BY <1>1, <1>5, <2>1, <2>2, <2>3, LosesIsPipe
<1> QED BY <1>1, <1>7, <1>8

\* The reader of the client finds data.
LEMMA ReadDataIsPipe ==
  ASSUME IInv, Context, ReadData
  PROVE  Goal
<1> USE DEF client, sockets, server, ends
<1> DEFINE m == Head(down[2])
           rest == Tail(down[2])
<1>0. down \in [1 .. 3 -> Seq(Item)] BY DEF IInv, TypeOK
<1>1. PICK w \in ClientWrites(down[3], m, "copy", copyConn, app) :
        /\ down' = [down EXCEPT ![2] = rest, ![3] = w.q]
        /\ IF w.fails THEN CallClose ELSE UNCHANGED <<closing, crashed, sockets>>
  BY DEF ReadData
<1>2. UNCHANGED <<mode, caller, copier, copyConn, linkConn, server, ends, up>> /\ reader' = "on"
  BY <1>1 DEF ReadData, CallClose
<1>3. /\ reader = "write" \/ (reader = "on" /\ closing = "no")
      /\ ~ Direct /\ down[2] # <<>>
  BY DEF ReadData
<1>4. down'[1] = down[1] /\ down'[2] = rest /\ down'[3] = w.q
  <2> HIDE DEF m, rest
  <2> QED BY <1>0, <1>1
<1>5. Goes(w, down[3], m, copyConn, app) BY <1>1, ClientWriteGoes
<1> HIDE DEF m, rest
<1>6. ReadySame BY <1>2 DEF ReadySame, Ready
<1>7. ~ ReaderHolds' BY <1>2 DEF ReaderHolds
<1> DEFINE Same == /\ UpFlags /\ (Broken' <=> Broken) /\ (AppTakes' <=> AppTakes)
                   /\ (ClientBrings' <=> ClientBrings) /\ (ServerBrings' <=> ServerBrings)
<1>8. ASSUME ~ w.fails PROVE Same
  <2>1. closing' = closing BY <1>1, <1>8
  <2> QED BY <1>2, <1>3, <2>1 DEF UpFlags, Broken, TargetTakes, ServerTakes,
       ClientTakes, AppTakes, ClientBrings, ServerBrings, Direct
<1> HIDE DEF Same
<1>9. CASE w.fails
  <2>1. closing' # "no"
    <3>1. CallClose BY <1>1, <1>9
    <3> QED BY <3>1 DEF CallClose
  <2>2. w.q = down[3] BY <1>5, <1>9 DEF Goes
  <2>3. Fewer /\ ~ ClientBrings' /\ ~ ServerBrings' /\ Broken'
    BY <1>2, <1>7, <2>1 DEF Fewer, Broken, TargetTakes, ServerTakes,
       ClientTakes, AppTakes, ClientBrings, ServerBrings, Direct
  <2>4. DownShorter BY <1>4, <1>7, <2>2, <2>3 DEF DownShorter, Fewer
  <2>5. UpShorter BY <1>2, <2>3, Untouched
  <2> QED BY <1>2, <1>6, <2>3, <2>4, <2>5, LosesIsPipe
<1>10. CASE ~ w.fails /\ w.q = Append(down[3], m) /\ copyConn = "open" /\ app \notin {"closed", "gone"}
  <2>1. Same BY <1>8, <1>10
  <2>2. AppTakes /\ AppTakes' BY <1>10, <2>1 DEF Same, AppTakes
  <2>3. ClientBrings \/ ReaderHolds
    <3>1. linkConn # "closed" BY <1>10 DEF IInv, Places
    <3> QED BY <1>3, <1>10, <2>2, <3>1 DEF ClientBrings, ReaderHolds
  <2>4. ToApp' = ToApp
    BY <1>3, <1>4, <1>7, <1>10, <2>1, <2>2, <2>3, ReaderCarries DEF Same, Context, m, rest
  <2>5. ToTarget' = ToTarget BY <1>2, <2>1, SameKeeps DEF Same
  <2> QED BY <1>2, <1>6, <2>1, <2>4, <2>5, KeepsIsPipe DEF Same
<1>11. CASE ~ w.fails /\ w.q = down[3] /\ app \in {"closed", "gone"}
  <2>1. Same BY <1>8, <1>11
  <2>2. ~ AppTakes /\ ~ ReaderHolds /\ ~ ClientBrings /\ ~ ServerBrings
    <3>1. app = "gone" BY <1>11 DEF IInv, TypeOK
    <3> QED BY <3>1 DEF AppTakes, ReaderHolds, ServerBrings, ClientBrings
  <2>3. DownSame BY <1>7, <2>1, <2>2 DEF Same, DownSame
  <2>4. ToTarget' = ToTarget /\ ToApp' = ToApp BY <1>2, <2>1, <2>3, SameKeeps DEF Same
  <2> QED BY <1>2, <1>6, <2>1, <2>4, KeepsIsPipe DEF Same
<1> QED BY <1>5, <1>9, <1>10, <1>11 DEF Goes

LEMMA DirectReaderMovesIsPipe ==
  ASSUME IInv, Context, DirectReaderMoves
  PROVE  Goal
<1> USE DEF client, sockets, server, ends
<1> DEFINE m == Head(down[1])
           rest == Tail(down[1])
<1>0. down \in [1 .. 3 -> Seq(Item)] BY DEF IInv, TypeOK
<1>1. PICK w \in ClientWrites(down[3], m, "copy", copyConn, app) :
        /\ down' = [down EXCEPT ![1] = rest, ![3] = w.q]
        /\ IF w.fails THEN Panic ELSE UNCHANGED <<closing, crashed, sockets>>
  BY DEF DirectReaderMoves
<1>2. UNCHANGED <<mode, caller, copier, closing, server, ends, up>> /\ reader' = "on"
  BY <1>1 DEF DirectReaderMoves, Panic
<1>3. reader \in {"on", "write"} /\ Direct /\ ~ crashed /\ down[1] # <<>> BY DEF DirectReaderMoves
<1>4. down'[1] = rest /\ down'[2] = down[2] /\ down'[3] = w.q
  <2> HIDE DEF m, rest
  <2> QED BY <1>0, <1>1
<1>5. Goes(w, down[3], m, copyConn, app) BY <1>1, ClientWriteGoes
<1> HIDE DEF m, rest
<1>6. ReadySame BY <1>2 DEF ReadySame, Ready
<1>7. ~ ReaderHolds /\ ~ ReaderHolds' BY <1>2, <1>3 DEF ReaderHolds, Direct
<1> DEFINE Same == UpFlags /\ DownFlags /\ (Broken' <=> Broken)
<1>8. ASSUME ~ w.fails PROVE Same
  <2>1. UNCHANGED sockets BY <1>1, <1>8
  <2> QED BY <1>2, <1>3, <1>7, <2>1 DEF UpFlags, DownFlags, Broken, TargetTakes, ServerTakes,
       ClientTakes, AppTakes, ClientBrings, ServerBrings, Direct
<1> HIDE DEF Same
<1>9. CASE w.fails
  <2>1. copyConn' = "closed" /\ linkConn' = "closed" BY <1>1, <1>9 DEF Panic
  <2>2. w.q = down[3] BY <1>5, <1>9 DEF Goes
  <2>3. Fewer /\ ~ ClientBrings' /\ ~ ServerBrings' /\ Broken'
    BY <1>2, <1>7, <2>1 DEF Fewer, Broken, TargetTakes, ServerTakes,
       ClientTakes, AppTakes, ClientBrings, ServerBrings, Direct
  <2>4. DownShorter BY <1>4, <1>7, <2>2, <2>3 DEF DownShorter, Fewer
  <2>5. UpShorter BY <1>2, <2>3, Untouched
  <2> QED BY <1>2, <1>6, <2>3, <2>4, <2>5, LosesIsPipe
<1>10. CASE ~ w.fails /\ w.q = Append(down[3], m) /\ copyConn = "open" /\ app \notin {"closed", "gone"}
  <2>1. Same BY <1>8, <1>10
  <2>2. linkConn # "closed" /\ closing = "no" /\ down[2] = <<>> BY <1>3, <1>10 DEF IInv, Places
  <2>3. ServerBrings BY <1>3, <1>10, <2>2 DEF ServerBrings, ClientBrings, AppTakes
  <2>4. ServerBrings' BY <2>1, <2>3 DEF Same, DownFlags
  <2>5. ToApp' = ToApp
    BY <1>3, <1>4, <1>10, <2>2, <2>3, <2>4, DirectReaderCarries DEF Context, m, rest
  <2>6. ToTarget' = ToTarget BY <1>2, <2>1, SameKeeps DEF Same
  <2> QED BY <1>2, <1>6, <2>1, <2>5, <2>6, KeepsIsPipe DEF Same
<1>11. CASE ~ w.fails /\ w.q = down[3] /\ app \in {"closed", "gone"}
  <2>1. Same BY <1>8, <1>11
  <2>2. ~ AppTakes /\ ~ ClientBrings /\ ~ ServerBrings
    <3>1. app = "gone" BY <1>11 DEF IInv, TypeOK
    <3> QED BY <3>1 DEF AppTakes, ServerBrings, ClientBrings
  <2>3. DownSame BY <1>7, <2>1, <2>2 DEF Same, DownFlags, DownSame
  <2>4. ToTarget' = ToTarget /\ ToApp' = ToApp BY <1>2, <2>1, <2>3, SameKeeps DEF Same
  <2> QED BY <1>2, <1>6, <2>1, <2>4, KeepsIsPipe DEF Same
<1> QED BY <1>5, <1>9, <1>10, <1>11 DEF Goes

\* The answer of the server.
LEMMA AnswerIsPipe ==
  ASSUME IInv, Context, WriteA1 \/ DialTargetFails
  PROVE  Goal
<1> USE DEF client, sockets, server, ends
<1> DEFINE m == IF WriteA1 THEN A1("ok") ELSE A1("bad")
<1>0. down \in [1 .. 3 -> Seq(Item)] BY DEF IInv, TypeOK
<1>1. PICK w \in RawWrites(m) :
        /\ down' = [down EXCEPT ![2] = w.q]
        /\ \/ handler = "answer" /\ handler' = "relay" /\ ~ w.fails /\ UNCHANGED <<rawConn, targetConn>>
           \/ handler \in {"answer", "dialing"} /\ handler' \in {"relay", "ended"} /\ ServerClose
  BY DEF WriteA1, DialTargetFails
<1>2. UNCHANGED <<mode, client, sockets, relayer, ends, up>> BY DEF WriteA1, DialTargetFails
<1>3. handler # "ended" /\ ~ Direct
  <2>1. handler \in {"answer", "dialing"} BY <1>1
  <2> QED BY <2>1 DEF IInv, Places
<1>4. down'[1] = down[1] /\ down'[2] = w.q /\ down'[3] = down[3]
  <2> HIDE DEF m
  <2> QED BY <1>0, <1>1
<1>5. m \in Item /\ m.kind # "data" BY Kinds DEF A1
<1>6. Goes(w, down[2], m, rawConn, linkConn) BY <1>1, RawWriteGoes
<1> HIDE DEF m
<1>7. down[2] \in Seq(Item) BY <1>0
<1>8. Numbers(down'[2]) = Numbers(down[2]) BY <1>4, <1>5, <1>6, <1>7, GoesUncounted
<1>9. ReaderHolds => FirstSame
  <2> SUFFICES ASSUME ReaderHolds PROVE FirstSame OBVIOUS
  <2>1. down[2] # <<>> BY DEF Context
  <2>2. w.q # <<>> /\ Head(w.q) = Head(down[2]) BY <1>5, <1>6, <1>7, <2>1, GoesBehind
  <2> QED BY <1>4, <2>1, <2>2 DEF FirstSame
<1>10. ReadySame BY <1>2 DEF ReadySame, Ready
<1>11. CASE handler' = "relay" /\ UNCHANGED <<rawConn, targetConn>>
  <2>1. UpFlags /\ DownFlags /\ (Broken' <=> Broken)
    BY <1>2, <1>3, <1>11 DEF UpFlags, DownFlags, Broken, TargetTakes, ServerTakes,
       ClientTakes, AppTakes, ClientBrings, ReaderHolds, ServerBrings, Direct
  <2>2. DownSame BY <1>4, <1>8, <1>9, <2>1 DEF DownSame, DownFlags
  <2>3. ToTarget' = ToTarget /\ ToApp' = ToApp BY <1>2, <2>1, <2>2, SameKeeps
  <2> QED BY <1>2, <1>10, <2>1, <2>3, KeepsIsPipe
<1>12. CASE ServerClose
  <2>1. rawConn' = "closed" BY <1>12 DEF ServerClose
  <2>2. Fewer /\ Broken' /\ (ReaderHolds' <=> ReaderHolds)
    BY <1>2, <1>3, <2>1 DEF Fewer, Broken, TargetTakes, ServerTakes,
       ClientTakes, AppTakes, ClientBrings, ReaderHolds, ServerBrings, Direct
  <2>3. DownShorter BY <1>4, <1>8, <1>9, <2>2 DEF DownShorter, Fewer
  <2>4. UpShorter BY <1>2, <2>2, Untouched
  <2> QED BY <1>2, <1>10, <2>2, <2>3, <2>4, LosesIsPipe
<1> QED BY <1>1, <1>11, <1>12

-----------------------------------------------------------------------------
(* A link is a pipe *)

LEMMA StepIsPipe ==
  ASSUME IInv, [Next]_vars
  PROVE  Goal
<1>1. Context BY ContextIs
<1>2. CASE AppWrite \/ AppRead \/ TargetWrite \/ TargetRead
  BY <1>1, <1>2, AppWriteIsPipe, AppReadIsPipe, TargetWriteIsPipe, TargetReadIsPipe
<1>3. CASE AppLeaves \/ TargetLeaves \/ UserClose \/ CloseBody BY <1>1, <1>3, EndingIsPipe
<1>4. CASE TargetAccept BY <1>1, <1>4, DialingIsPipe
<1>5. CASE WriteToLinkConn BY <1>1, <1>5, OwnIsPipe
<1>6. CASE \E conn \in {"copy", "link"} : SetDeadline(conn) BY <1>1, <1>6, RestingIsPipe
<1>7. CASE Expire \/ UNCHANGED vars BY <1>1, <1>7, RestingIsPipe
<1>8. CASE Caller
  <2>1. CASE DialProxy \/ DialDirect \/ Refused BY <1>1, <2>1, DialingIsPipe
  <2>2. CASE Ask BY <1>1, <2>2, OwnIsPipe
  <2>3. CASE AskTimeout \/ Answered \/ WaitReturn BY <1>1, <2>3, RestingIsPipe
  <2> QED BY <1>8, <2>1, <2>2, <2>3 DEF Caller
<1>9. CASE Copier
  <2>1. CASE CopierMoves \/ DirectCopierMoves
    BY <1>1, <2>1, CopierMovesIsPipe, DirectCopierMovesIsPipe
  <2>2. CASE CopierEnds \/ DirectCopierEnds BY <1>1, <2>2, EndingIsPipe
  <2>3. CASE DirectCopierBlocks BY <1>1, <2>3, RestingIsPipe
  <2> QED BY <1>9, <2>1, <2>2, <2>3 DEF Copier
<1>10. CASE Reader
  <2>1. CASE ReaderEnds \/ DirectReaderEnds BY <1>1, <2>1, EndingIsPipe
  <2>2. CASE ReadAnswer \/ ReadData \/ DirectReaderMoves
    BY <1>1, <2>2, ReadAnswerIsPipe, ReadDataIsPipe, DirectReaderMovesIsPipe
  <2>3. CASE ReaderBlocks BY <1>1, <2>3, RestingIsPipe
  <2> QED BY <1>10, <2>1, <2>2, <2>3 DEF Reader
<1>11. CASE Handler
  <2>1. CASE HandlerEnds BY <1>1, <2>1, EndingIsPipe
  <2>2. CASE TakeQ1 BY <1>1, <2>2, OwnIsPipe
  <2>3. CASE DialTargetFails \/ WriteA1 BY <1>1, <2>3, AnswerIsPipe
  <2>4. CASE DialTarget \/ HandlerBlocks BY <1>1, <2>4, RestingIsPipe
  <2>5. CASE HandlerMoves BY <1>1, <2>5, HandlerMovesIsPipe
  <2> QED BY <1>11, <2>1, <2>2, <2>3, <2>4, <2>5 DEF Handler
<1>12. CASE Relayer
  <2>1. CASE RelayerMoves BY <1>1, <2>1, RelayerMovesIsPipe
  <2>2. CASE RelayerEnds BY <1>1, <2>2, EndingIsPipe
  <2> QED BY <1>12, <2>1, <2>2 DEF Relayer
<1> QED
  BY <1>2, <1>3, <1>4, <1>5, <1>6, <1>7, <1>8, <1>9, <1>10, <1>11, <1>12 DEF Next

\* A VPN link, through a proxy or not, is a pipe each way: no order of reading,
\* writing, answering, timing out and closing loses anything but the end of
\* what is on its way, and that only once somebody has hung up.
THEOREM VpnImplementsPipe == Spec => VpnIsPipe
<1>1. Init => Pipe!PipeInit
  <2> SUFFICES ASSUME Init PROVE Pipe!PipeInit OBVIOUS
  <2>1. /\ \A i \in 1 .. 3 : up[i] = <<>> /\ down[i] = <<>>
        /\ up \in [1 .. 3 -> Seq(Item)] /\ down \in [1 .. 3 -> Seq(Item)]
    BY Kinds DEF Init
  <2>2. ToTarget = <<>> /\ ToApp = <<>>
    <3>1. <<>> \o <<>> = <<>> OBVIOUS
    <3>2. Connections /\ ~ ReaderHolds BY <2>1 DEF Connections, ReaderHolds, Init
    <3>3. Sides BY <3>2, SidesAre
    <3> QED BY <2>1, <3>1, <3>2, <3>3, NumbersOfNone DEF Sides
  <2>3. [s \in {1, 2} |-> OnItsWay(s)] = [s \in {1, 2} |-> <<>>] BY <2>2 DEF OnItsWay
  <2>4. [s \in {1, 2} |-> Ready(s)] = [s \in {1, 2} |-> FALSE]
    <3>1. ASSUME NEW s \in {1, 2} PROVE Ready(s) = FALSE BY DEF Init, Ready
    <3> QED BY <3>1, Zenon
  <2>5. Broken = FALSE
    <3>1. ~ Broken BY DEF Init, Broken
    <3> QED BY <3>1 DEF Broken
  <2> QED BY <2>3, <2>4, <2>5 DEF Pipe!PipeInit, Pipe!Side, Init
<1>2. IInv /\ [Next]_vars => [Pipe!PipeNext]_(Pipe!pipeVars) BY StepIsPipe DEF Goal
<1> QED BY Invariant, <1>1, <1>2, PTL DEF Spec, VpnIsPipe, Pipe!PipeSpec

=============================================================================

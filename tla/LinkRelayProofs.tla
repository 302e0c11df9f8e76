--------------------------- MODULE LinkRelayProofs ---------------------------
(***************************************************************************)
(* The relay of two linked subs reads no payload as a request and is two   *)
(* pipes, for every number of messages.                                    *)
(*                                                                         *)
(* That payload finds the switch on is a chain: what a client writes       *)
(* follows its TaskA, and TaskA is written after both sides are switched   *)
(* (Switched).  That the relay is a pipe needs the place of TaskA, which   *)
(* is no payload: each side is told once (Told), and an open client has    *)
(* it behind it; and that nothing overtakes what the handler holds: it     *)
(* reads only with its buffer empty, and a connection the server has       *)
(* closed delivers nothing more to it (Buffers).  Every step of the relay  *)
(* is then a step of LinkPipe, or none (StepIsPipe).                       *)
(***************************************************************************)
EXTENDS LinkRelay, TLAPS, SequenceTheorems

Stream == Seq(Message \cup {TaskA})

\* TaskA is in q once at the most.
OneTaskA(q) == \A i, j \in 1 .. Len(q) : q[i] = TaskA /\ q[j] = TaskA => i = j

Ready(s) == client[s] \in {"open", "closed"}

\* The goroutine that links the two has not written TaskA to s yet.
Untold(s) == handler[2] \in {"join", "switched", "boxed", "linked"}
             \/ (s = 2 /\ handler[2] = "told")

Switched ==
  /\ handler[2] \in {"switched", "boxed"} => linkSwitch[1]
  /\ handler[2] \in {"linked", "told"} => linkSwitch[1] /\ linkSwitch[2]
  /\ \A s \in Side : in[s] # <<>> \/ out[s] # <<>> \/ buf[s] # <<>> \/ Ready(s)
                     => linkSwitch[1] /\ linkSwitch[2]

Told ==
  \A s \in Side : /\ OneTaskA(out[s])
                  /\ Untold(s) \/ Ready(s) => TaskA \notin Items(out[s])
                  /\ Untold(s) => ~ Ready(s)

Buffers ==
  \A s \in Side : /\ buf[s] # <<>> => handler[s] = "write"
                  /\ ~ srv[s] => in[s] = <<>>

IInv == TypeOK /\ Switched /\ Told /\ Buffers

-----------------------------------------------------------------------------
(* Payload *)

\* TaskA is the number no message has.
LEMMA Numbers == TaskA \notin Message
  BY DEF TaskA, Message

\* The items of a sequence are those at its places.
LEMMA ItemsOf ==
  ASSUME NEW S, NEW q \in Seq(S), NEW x
  PROVE  x \in Items(q) <=> \E i \in 1 .. Len(q) : q[i] = x
  BY LenProperties DEF Items

\* The stream itself, when TaskA is not in it.
LEMMA PayloadPlain ==
  ASSUME NEW q, TaskA \notin Items(q)
  PROVE  Payload(q) = q
  BY DEF Payload

\* The stream without the place of TaskA.
LEMMA PayloadAround ==
  ASSUME NEW q \in Stream, OneTaskA(q), NEW i \in 1 .. Len(q), q[i] = TaskA
  PROVE  /\ Payload(q) \in Seq(Message) /\ Len(Payload(q)) = Len(q) - 1
         /\ \A j \in 1 .. Len(q) - 1 : Payload(q)[j] = IF j < i THEN q[j] ELSE q[j + 1]
<1> DEFINE p == [j \in 1 .. Len(q) - 1 |-> IF j < i THEN q[j] ELSE q[j + 1]]
<1>1. DOMAIN q = 1 .. Len(q) /\ Len(q) \in Nat BY LenProperties DEF Stream
<1>2. TaskA \in Items(q) BY <1>1 DEF Items
<1>3. (CHOOSE j \in DOMAIN q : q[j] = TaskA) = i BY <1>1 DEF OneTaskA
<1>4. Payload(q) = p BY <1>2, <1>3 DEF Payload
<1>5. \A j \in 1 .. Len(q) - 1 : p[j] \in Message
  <2> SUFFICES ASSUME NEW j \in 1 .. Len(q) - 1 PROVE p[j] \in Message OBVIOUS
  <2>1. j \in 1 .. Len(q) /\ j + 1 \in 1 .. Len(q) BY <1>1
  <2>2. q[j] \in Message \cup {TaskA} /\ q[j + 1] \in Message \cup {TaskA}
    BY <2>1, ElementOfSeq DEF Stream
  <2>3. j < i => q[j] # TaskA BY <2>1 DEF OneTaskA
  <2>4. ~ (j < i) => q[j + 1] # TaskA BY <2>1 DEF OneTaskA
  <2> QED BY <2>2, <2>3, <2>4
<1>6. p \in Seq(Message) /\ Len(p) = Len(q) - 1 BY <1>1, <1>5
<1> QED BY <1>4, <1>6

\* Payload is messages only.
LEMMA PayloadType ==
  ASSUME NEW q \in Stream, OneTaskA(q)
  PROVE  Payload(q) \in Seq(Message)
<1>1. CASE TaskA \in Items(q)
  BY <1>1, ItemsOf, PayloadAround DEF Stream
<1>2. CASE TaskA \notin Items(q)
  <2>1. Len(q) \in Nat /\ q \in [1 .. Len(q) -> Message \cup {TaskA}]
    BY LenProperties DEF Stream
  <2>2. \A j \in 1 .. Len(q) : q[j] \in Message
    BY <1>2, <2>1, ItemsOf DEF Stream
  <2>3. q \in [1 .. Len(q) -> Message] BY <2>1, <2>2
  <2>4. q \in Seq(Message) BY <2>1, <2>3, SeqDef
  <2> QED BY <1>2, <2>4, PayloadPlain
<1> QED BY <1>1, <1>2

\* TaskA itself is no payload.
LEMMA PayloadTold ==
  ASSUME NEW q \in Stream, TaskA \notin Items(q)
  PROVE  /\ Append(q, TaskA) \in Stream /\ OneTaskA(Append(q, TaskA))
         /\ Payload(Append(q, TaskA)) = Payload(q)
<1> DEFINE r == Append(q, TaskA)
<1>1. /\ r \in Stream /\ Len(r) = Len(q) + 1 /\ Len(q) \in Nat /\ r[Len(q) + 1] = TaskA
      /\ \A j \in 1 .. Len(q) : r[j] = q[j]
  BY AppendProperties, LenProperties DEF Stream
<1>2. \A j \in 1 .. Len(q) : q[j] # TaskA BY ItemsOf DEF Stream
<1> HIDE DEF r
<1>3. OneTaskA(r) BY <1>1, <1>2 DEF OneTaskA
<1>4. /\ Payload(r) \in Seq(Message) /\ Len(Payload(r)) = Len(q)
      /\ \A j \in 1 .. Len(q) : Payload(r)[j] = q[j]
  <2>1. Len(q) + 1 \in 1 .. Len(r) BY <1>1
  <2>2. /\ Payload(r) \in Seq(Message) /\ Len(Payload(r)) = Len(r) - 1
        /\ \A j \in 1 .. Len(r) - 1 :
             Payload(r)[j] = IF j < Len(q) + 1 THEN r[j] ELSE r[j + 1]
    BY <1>1, <1>3, <2>1, PayloadAround
  <2> QED BY <1>1, <2>2
<1>5. Payload(q) \in Seq(Message) /\ Payload(q) = q
  <2>1. OneTaskA(q) BY <1>2 DEF OneTaskA
  <2> QED BY <2>1, PayloadType, PayloadPlain
<1>6. Payload(r) = q BY <1>4, <1>5, SeqEqual
<1> QED BY <1>1, <1>3, <1>5, <1>6 DEF r

\* What the relay adds is payload.
LEMMA PayloadAdded ==
  ASSUME NEW q \in Stream, OneTaskA(q), NEW b \in Seq(Message)
  PROVE  /\ q \o b \in Stream /\ OneTaskA(q \o b)
         /\ Items(q \o b) \subseteq Items(q) \cup Message
         /\ Payload(q \o b) = Payload(q) \o b
<1> DEFINE r == q \o b
<1>0. b \in Stream BY SeqMonotonic DEF Stream
<1>1. /\ r \in Stream /\ Len(r) = Len(q) + Len(b) /\ Len(q) \in Nat /\ Len(b) \in Nat
      /\ \A j \in 1 .. Len(q) : r[j] = q[j]
      /\ \A j \in Len(q) + 1 .. Len(r) : r[j] = b[j - Len(q)]
  BY <1>0, ConcatProperties, LenProperties DEF Stream
<1> HIDE DEF r
<1>2. \A j \in 1 .. Len(b) : b[j] \in Message BY ElementOfSeq
<1>3. \A j \in Len(q) + 1 .. Len(r) : r[j] \in Message /\ r[j] # TaskA
  <2> SUFFICES ASSUME NEW j \in Len(q) + 1 .. Len(r) PROVE r[j] \in Message
    BY Numbers
  <2>1. j - Len(q) \in 1 .. Len(b) BY <1>1
  <2> QED BY <1>1, <1>2, <2>1
<1>4. \A j \in 1 .. Len(r) : r[j] = TaskA => j \in 1 .. Len(q) /\ q[j] = TaskA
  <2> SUFFICES ASSUME NEW j \in 1 .. Len(r), r[j] = TaskA
               PROVE  j \in 1 .. Len(q) /\ q[j] = TaskA
    OBVIOUS
  <2>1. j \notin Len(q) + 1 .. Len(r) BY <1>3
  <2>2. j \in 1 .. Len(q) BY <1>1, <2>1
  <2> QED BY <1>1, <2>2
<1>5. OneTaskA(r) BY <1>4 DEF OneTaskA
<1>6. Items(r) \subseteq Items(q) \cup Message
  <2> SUFFICES ASSUME NEW j \in 1 .. Len(r), r[j] \notin Message
               PROVE  r[j] \in Items(q)
    BY <1>1, ItemsOf DEF Stream
  <2>1. r[j] = TaskA BY <1>1, ElementOfSeq DEF Stream
  <2> QED BY <1>4, <2>1, ItemsOf DEF Stream
<1>7. Payload(r) = Payload(q) \o b
  <2>1. CASE TaskA \notin Items(q)
    BY <1>6, <2>1, Numbers, PayloadPlain DEF r
  <2>2. CASE TaskA \in Items(q)
    <3>1. PICK i \in 1 .. Len(q) : q[i] = TaskA BY <2>2, ItemsOf DEF Stream
    <3>2. i \in 1 .. Len(r) /\ r[i] = TaskA BY <1>1, <3>1
    <3> DEFINE p == Payload(q)
               s == Payload(r)
    <3>3. /\ p \in Seq(Message) /\ Len(p) = Len(q) - 1
          /\ \A j \in 1 .. Len(q) - 1 : p[j] = IF j < i THEN q[j] ELSE q[j + 1]
      BY <3>1, PayloadAround
    <3>4. /\ s \in Seq(Message) /\ Len(s) = Len(r) - 1
          /\ \A j \in 1 .. Len(r) - 1 : s[j] = IF j < i THEN r[j] ELSE r[j + 1]
      BY <1>1, <1>5, <3>2, PayloadAround
    <3> HIDE DEF p, s
    <3>5. /\ p \o b \in Seq(Message) /\ Len(p \o b) = Len(s)
          /\ \A j \in 1 .. Len(p) + Len(b) :
               (p \o b)[j] = IF j <= Len(p) THEN p[j] ELSE b[j - Len(p)]
      BY <1>1, <3>3, <3>4, ConcatProperties
    <3>6. ASSUME NEW j \in 1 .. Len(s) PROVE s[j] = (p \o b)[j]
      <4>1. j \in 1 .. Len(p) + Len(b) /\ j \in 1 .. Len(r) - 1
        BY <1>1, <3>3, <3>4
      <4>2. CASE j <= Len(p)
        <5>1. j \in 1 .. Len(q) /\ j + 1 \in 1 .. Len(q) /\ j \in 1 .. Len(q) - 1
          BY <1>1, <3>3, <4>2
        <5> QED BY <1>1, <3>3, <3>4, <3>5, <4>1, <4>2, <5>1
      <4>3. CASE j > Len(p)
        <5>1. j + 1 \in Len(q) + 1 .. Len(r) /\ ~ (j < i) BY <1>1, <3>1, <3>3, <4>1, <4>3
        <5>2. s[j] = r[j + 1] BY <3>4, <4>1, <5>1
        <5>3. r[j + 1] = b[j + 1 - Len(q)] BY <1>1, <5>1
        <5>4. j + 1 - Len(q) = j - Len(p) BY <1>1, <3>3
        <5>5. (p \o b)[j] = b[j - Len(p)] BY <1>1, <3>3, <3>5, <4>1, <4>3
        <5> QED BY <5>2, <5>3, <5>4, <5>5
      <4> QED BY <1>1, <3>3, <4>1, <4>2, <4>3
    <3>7. s = p \o b BY <3>4, <3>5, <3>6, SeqEqual
    <3> QED BY <3>7 DEF p, s
  <2> QED BY <2>1, <2>2
<1> QED BY <1>1, <1>5, <1>6, <1>7 DEF r

\* What is left of a sequence without a front.
LEMMA RestOf ==
  ASSUME NEW S, NEW q \in Seq(S), NEW k \in 0 .. Len(q)
  PROVE  LET r == SubSeq(q, k + 1, Len(q))
         IN  /\ r \in Seq(S) /\ Len(r) = Len(q) - k
             /\ \A j \in 1 .. Len(q) - k : r[j] = q[k + j]
<1> DEFINE r == SubSeq(q, k + 1, Len(q))
<1>1. Len(q) \in Nat /\ \A j \in k + 1 .. Len(q) : q[j] \in S
  BY LenProperties, ElementOfSeq
<1>2. /\ r \in Seq(S) /\ Len(r) = IF k + 1 <= Len(q) THEN Len(q) - (k + 1) + 1 ELSE 0
      /\ \A j \in 1 .. Len(q) - (k + 1) + 1 : r[j] = q[(k + 1) + j - 1]
  BY <1>1, SubSeqProperties
<1> HIDE DEF r
<1>3. Len(r) = Len(q) - k BY <1>1, <1>2
<1>4. ASSUME NEW j \in 1 .. Len(q) - k PROVE r[j] = q[k + j]
  <2>1. j \in 1 .. Len(q) - (k + 1) + 1 /\ (k + 1) + j - 1 = k + j BY <1>1
  <2> QED BY <1>2, <2>1
<1> QED BY <1>2, <1>3, <1>4 DEF r

\* What the handshake swallows is a front of the stream, and so a front of its payload.
LEMMA PayloadCut ==
  ASSUME NEW q \in Stream, OneTaskA(q), NEW k \in 1 .. Len(q)
  PROVE  LET r == SubSeq(q, k + 1, Len(q))
             p == Payload(q)
         IN  /\ r \in Stream /\ OneTaskA(r) /\ Items(r) \subseteq Items(q)
             /\ q[1] = TaskA => TaskA \notin Items(r)
             /\ \E m \in 0 .. Len(p) : Payload(r) = SubSeq(p, m + 1, Len(p))
<1> DEFINE r == SubSeq(q, k + 1, Len(q))
           p == Payload(q)
           s == Payload(r)
<1>1. Len(q) \in Nat /\ \A j \in 1 .. Len(q) : q[j] \in Message \cup {TaskA}
  BY LenProperties, ElementOfSeq DEF Stream
<1>2. /\ r \in Stream /\ Len(r) = Len(q) - k
      /\ \A j \in 1 .. Len(q) - k : r[j] = q[k + j]
  BY RestOf DEF Stream
<1>3. p \in Seq(Message) /\ Len(p) \in Nat BY PayloadType, LenProperties
<1> HIDE DEF r, p, s
<1>4. \A j \in 1 .. Len(r) : k + j \in 1 .. Len(q) /\ r[j] = q[k + j] BY <1>1, <1>2
<1>5. OneTaskA(r)
  <2> SUFFICES ASSUME NEW i \in 1 .. Len(r), NEW j \in 1 .. Len(r), r[i] = TaskA, r[j] = TaskA
               PROVE  i = j
    BY DEF OneTaskA
  <2>1. k + i = k + j BY <1>4 DEF OneTaskA
  <2> QED BY <2>1
<1>6. Items(r) \subseteq Items(q)
  <2> SUFFICES ASSUME NEW j \in 1 .. Len(r) PROVE r[j] \in Items(q)
    BY <1>2, ItemsOf DEF Stream
  <2> QED BY <1>4, ItemsOf DEF Stream
<1>7. q[1] = TaskA => TaskA \notin Items(r)
  <2> SUFFICES ASSUME q[1] = TaskA, NEW j \in 1 .. Len(r), r[j] = TaskA PROVE FALSE
    BY <1>2, ItemsOf DEF Stream
  <2>1. k + j \in 1 .. Len(q) /\ q[k + j] = TaskA /\ 1 \in 1 .. Len(q) /\ k + j # 1
    BY <1>1, <1>4
  <2> QED BY <2>1 DEF OneTaskA
\* What is left of the payload, and of the stream, place by place.
<1>8. ASSUME NEW m \in 0 .. Len(p)
      PROVE  /\ SubSeq(p, m + 1, Len(p)) \in Seq(Message)
             /\ Len(SubSeq(p, m + 1, Len(p))) = Len(p) - m
             /\ \A j \in 1 .. Len(p) - m : SubSeq(p, m + 1, Len(p))[j] = p[m + j]
  BY <1>3, RestOf
<1>9. s \in Seq(Message) BY <1>2, <1>5, PayloadType DEF s
<1>10. ASSUME NEW m \in 0 .. Len(p), Len(s) = Len(p) - m,
              \A j \in 1 .. Len(s) : s[j] = p[m + j]
       PROVE  s = SubSeq(p, m + 1, Len(p))
  BY <1>8, <1>9, <1>10, SeqEqual
<1>11. \E m \in 0 .. Len(p) : s = SubSeq(p, m + 1, Len(p))
  <2>1. CASE TaskA \notin Items(q)
    <3>1. p = q /\ s = r BY <1>6, <2>1, PayloadPlain DEF p, s
    <3>2. k \in 0 .. Len(p) /\ Len(s) = Len(p) - k BY <1>1, <1>2, <3>1
    <3>3. \A j \in 1 .. Len(s) : s[j] = p[k + j] BY <1>4, <3>1
    <3> QED BY <1>10, <3>2, <3>3
  <2>2. ASSUME NEW i \in 1 .. Len(q), q[i] = TaskA
        PROVE  \E m \in 0 .. Len(p) : s = SubSeq(p, m + 1, Len(p))
    <3>1. /\ Len(p) = Len(q) - 1
          /\ \A j \in 1 .. Len(q) - 1 : p[j] = IF j < i THEN q[j] ELSE q[j + 1]
      BY <2>2, PayloadAround DEF p
    <3>2. CASE i <= k
      <4>1. TaskA \notin Items(r)
        <5> SUFFICES ASSUME NEW j \in 1 .. Len(r), r[j] = TaskA PROVE FALSE
          BY <1>2, ItemsOf DEF Stream
        <5>1. k + j \in 1 .. Len(q) /\ q[k + j] = TaskA /\ k + j # i BY <1>4, <3>2
        <5> QED BY <2>2, <5>1 DEF OneTaskA
      <4>2. s = r BY <4>1, PayloadPlain DEF s
      <4>3. k - 1 \in 0 .. Len(p) /\ Len(s) = Len(p) - (k - 1) BY <1>1, <1>2, <3>1, <4>2
      <4>4. \A j \in 1 .. Len(s) : s[j] = p[(k - 1) + j]
        <5> SUFFICES ASSUME NEW j \in 1 .. Len(s) PROVE s[j] = p[(k - 1) + j] OBVIOUS
        <5>1. (k - 1) + j \in 1 .. Len(q) - 1 /\ ~ ((k - 1) + j < i) /\ (k - 1) + j + 1 = k + j
          BY <1>1, <1>2, <3>2, <4>2
        <5> QED BY <1>4, <3>1, <4>2, <5>1
      <4> QED BY <1>10, <4>3, <4>4
    <3>3. CASE i > k
      <4>1. i - k \in 1 .. Len(r) /\ r[i - k] = TaskA
        <5>1. i - k \in 1 .. Len(r) BY <1>1, <1>2, <3>3
        <5> QED BY <1>4, <2>2, <5>1
      <4>2. /\ Len(s) = Len(r) - 1
            /\ \A j \in 1 .. Len(r) - 1 : s[j] = IF j < i - k THEN r[j] ELSE r[j + 1]
        BY <1>2, <1>5, <4>1, PayloadAround DEF s
      <4>3. k \in 0 .. Len(p) /\ Len(s) = Len(p) - k BY <1>1, <1>2, <3>1, <3>3, <4>2
      <4>4. \A j \in 1 .. Len(s) : s[j] = p[k + j]
        <5> SUFFICES ASSUME NEW j \in 1 .. Len(s) PROVE s[j] = p[k + j] OBVIOUS
        <5>1. /\ j \in 1 .. Len(r) - 1 /\ j \in 1 .. Len(r) /\ j + 1 \in 1 .. Len(r)
              /\ k + j \in 1 .. Len(q) - 1 /\ k + (j + 1) = (k + j) + 1
          BY <1>1, <1>2, <4>2
        <5>2. j < i - k <=> k + j < i BY <1>1
        <5>3. r[j] = q[k + j] BY <1>4, <5>1
        <5>4. r[j + 1] = q[k + (j + 1)] BY <1>4, <5>1
        <5> QED BY <3>1, <4>2, <5>1, <5>2, <5>3, <5>4
      <4> QED BY <1>10, <4>3, <4>4
    <3> QED BY <3>2, <3>3
  <2> QED BY <2>1, <2>2, ItemsOf DEF Stream
<1> QED BY <1>2, <1>5, <1>6, <1>7, <1>11 DEF r, p, s

-----------------------------------------------------------------------------
(* The invariant *)

\* What a close leaves: the streams of the connections it has closed are empty,
\* or, towards the client, as they were; the others are as they were.
Cut ==
  /\ srv' \in [Side -> BOOLEAN] /\ in' \in [Side -> Seq(Message)] /\ out' \in [Side -> Stream]
  /\ \A x \in Side : IF srv'[x] THEN srv[x] /\ in'[x] = in[x] /\ out'[x] = out[x]
                                ELSE in'[x] = <<>> /\ out'[x] \in {out[x], <<>>}

LEMMA ShutCuts ==
  ASSUME IInv, NEW S \in SUBSET Side, Shut(S)
  PROVE  Cut /\ \A x \in S : ~ srv'[x]
<1> USE DEF IInv, TypeOK, Stream
<1>1. /\ srv' = [x \in Side |-> srv[x] /\ x \notin S]
      /\ in' = [x \in Side |-> IF x \in S THEN <<>> ELSE in[x]]
      /\ out' = out \/ out' = [x \in Side |-> IF x \in S THEN <<>> ELSE out[x]]
  BY DEF Shut
<1>2. srv' \in [Side -> BOOLEAN] BY <1>1
<1>3. in' \in [Side -> Seq(Message)] /\ out' \in [Side -> Seq(Message \cup {TaskA})]
  <2>1. <<>> \in Seq(Message) /\ <<>> \in Seq(Message \cup {TaskA}) OBVIOUS
  <2>2. CASE out' = out BY <1>1, <2>1, <2>2
  <2>3. CASE out' = [x \in Side |-> IF x \in S THEN <<>> ELSE out[x]] BY <1>1, <2>1, <2>3
  <2> QED BY <1>1, <2>2, <2>3
<1>4. ASSUME NEW x \in Side
      PROVE  IF srv'[x] THEN srv[x] /\ in'[x] = in[x] /\ out'[x] = out[x]
                        ELSE in'[x] = <<>> /\ out'[x] \in {out[x], <<>>}
  <2>1. CASE x \in S BY <1>1, <2>1
  <2>2. CASE x \notin S BY <1>1, <2>2 DEF Buffers
  <2> QED BY <2>1, <2>2
<1>5. \A x \in S : ~ srv'[x] BY <1>1
<1> QED BY <1>2, <1>3, <1>4, <1>5 DEF Cut

LEMMA CloseCuts ==
  ASSUME IInv, NEW s \in Side, Close(s)
  PROVE  Cut /\ ~ srv'[s]
<1>1. CASE srv[s]
  <2> DEFINE S == {s} \cup {x \in {Peer(s)} : linkConn[s] /\ srv[x]}
  <2>1. S \in SUBSET Side /\ s \in S BY DEF Side, Peer
  <2>2. Shut(S) BY <1>1 DEF Close
  <2> QED BY <2>1, <2>2, ShutCuts
<1>2. CASE ~ srv[s]
  <2>1. UNCHANGED <<srv, in, out>> BY <1>2 DEF Close
  <2> QED BY <1>2, <2>1 DEF Cut, IInv, TypeOK, Stream, Buffers
<1> QED BY <1>1, <1>2

\* Writing TaskA appends it to the stream, or closes the connection.
LEMMA TellTells ==
  ASSUME IInv, NEW s \in Side, Tell(s)
  PROVE  \/ out' = [out EXCEPT ![s] = Append(@, TaskA)] /\ UNCHANGED <<in, srv>>
         \/ Cut /\ ~ srv'[s] /\ Close(s)
  BY CloseCuts DEF Tell

\* Both sides are there, and each is the other's peer.
LEMMA Sides ==
  /\ 1 \in Side /\ 2 \in Side /\ \A s \in Side : s = 1 \/ s = 2
  /\ \A s \in Side : Peer(s) \in Side /\ Peer(s) # s /\ Peer(Peer(s)) = s
  BY DEF Side, Peer

\* The first state satisfies the invariant.
LEMMA InitIInv == Init => IInv
<1> SUFFICES ASSUME Init PROVE IInv OBVIOUS
<1>1. TypeOK
  <2>1. /\ in \in [Side -> Seq(Message)] /\ out \in [Side -> Seq(Message \cup {TaskA})]
        /\ buf \in [Side -> Seq(Message)] /\ got \in [Side -> Seq(Message)]
    BY DEF Init
  <2>2. /\ srv \in [Side -> BOOLEAN] /\ linkConn \in [Side -> BOOLEAN]
        /\ linkSwitch \in [Side -> BOOLEAN] /\ linkBox \in [Side -> BOOLEAN]
        /\ panic \in BOOLEAN
    BY DEF Init
  <2>3. handler \in [Side -> Labels]
    <3>1. handler = [s \in 1 .. 2 |-> IF s = 1 THEN "top" ELSE "join"] BY DEF Init
    <3>2. 1 .. 2 = Side BY DEF Side
    <3> QED BY <3>1, <3>2 DEF Labels
  <2>4. /\ client \in [Side -> {"handshake", "deaf", "failed", "open", "closed"}]
        /\ sent \in [Side -> 0..MaxMsgs] /\ late \in [Side -> SUBSET Message]
    BY RelayAssumption DEF Init
  <2> QED BY <2>1, <2>2, <2>3, <2>4 DEF TypeOK
<1>2. Switched BY Sides DEF Init, Switched, Ready
<1>3. Told
  <2>1. \A s \in Side : out[s] = <<>> /\ client[s] = "handshake" BY DEF Init
  <2>2. Len(<<>>) = 0 /\ Items(<<>>) = {} BY DEF Items
  <2> QED BY <2>1, <2>2 DEF Told, OneTaskA, Ready
<1>4. Buffers BY DEF Init, Buffers
<1> QED BY <1>1, <1>2, <1>3, <1>4 DEF IInv

\* A front of a sequence.
LEMMA FrontOf ==
  ASSUME NEW S, NEW q \in Seq(S), NEW k \in 0 .. Len(q)
  PROVE  LET f == SubSeq(q, 1, k)
         IN  f \in Seq(S) /\ Len(f) = k /\ \A j \in 1 .. k : f[j] = q[j]
<1> DEFINE f == SubSeq(q, 1, k)
<1>1. Len(q) \in Nat /\ \A j \in 1 .. k : q[j] \in S BY LenProperties, ElementOfSeq
<1>2. /\ f \in Seq(S) /\ Len(f) = IF 1 <= k THEN k - 1 + 1 ELSE 0
      /\ \A j \in 1 .. k - 1 + 1 : f[j] = q[1 + j - 1]
  BY <1>1, SubSeqProperties
<1> HIDE DEF f
<1>3. Len(f) = k /\ k - 1 + 1 = k BY <1>1, <1>2
<1>4. ASSUME NEW j \in 1 .. k PROVE f[j] = q[j]
  <2>1. j \in 1 .. k - 1 + 1 /\ 1 + j - 1 = j BY <1>1
  <2> QED BY <1>2, <2>1
<1> QED BY <1>2, <1>3, <1>4 DEF f

\* An open client reads messages: its TaskA is behind it.
LEMMA HeadIsPayload ==
  ASSUME IInv, NEW s \in Side, Ready(s), out[s] # <<>>
  PROVE  Head(out[s]) \in Message /\ Head(out[s]) = out[s][1] /\ Tail(out[s]) \in Stream
<1>1. out[s] \in Stream BY DEF IInv, TypeOK, Stream
<1>2. /\ Head(out[s]) = out[s][1] /\ Head(out[s]) \in Message \cup {TaskA}
      /\ Tail(out[s]) \in Stream /\ Len(out[s]) \in Nat \ {0}
  BY <1>1, HeadTailProperties, EmptySeq DEF Stream
<1>3. Head(out[s]) \in Items(out[s]) BY <1>1, <1>2, ItemsOf DEF Stream
<1>4. Head(out[s]) # TaskA BY <1>3 DEF IInv, Told
<1> QED BY <1>2, <1>4

\* Every action keeps the types.
LEMMA TypeStep ==
  ASSUME IInv, [Next]_vars
  PROVE  TypeOK'
<1> USE DEF IInv, TypeOK, Goto, Labels, Stream, server, clients
<1>1. CASE SwitchFirst
  BY <1>1 DEF SwitchFirst
<1>2. CASE BoxFirst
  BY <1>2 DEF BoxFirst
<1>3. CASE LinkSecond
  BY <1>3 DEF LinkSecond
<1>4. CASE TellFirst
  <2>1. CASE Cut
    BY <1>4, <2>1 DEF TellFirst, Cut
  <2>2. CASE out' = [out EXCEPT ![1] = Append(@, TaskA)] /\ UNCHANGED <<in, srv>>
    <3>1. out[1] \in Stream BY Sides DEF Stream
    <3>2. out' \in [Side -> Seq(Message \cup {TaskA})] BY <2>2, <3>1, AppendProperties DEF Stream
    <3> QED BY <1>4, <2>2, <3>2 DEF TellFirst
  <2> QED BY <1>4, <2>1, <2>2, Sides, TellTells DEF TellFirst
<1>5. CASE TellSecond
  <2>1. CASE Cut
    BY <1>5, <2>1 DEF TellSecond, Cut
  <2>2. CASE out' = [out EXCEPT ![2] = Append(@, TaskA)] /\ UNCHANGED <<in, srv>>
    <3>1. out[2] \in Stream BY Sides DEF Stream
    <3>2. out' \in [Side -> Seq(Message \cup {TaskA})] BY <2>2, <3>1, AppendProperties DEF Stream
    <3> QED BY <1>5, <2>2, <3>2 DEF TellSecond
  <2> QED BY <1>5, <2>1, <2>2, Sides, TellTells DEF TellSecond
<1>6. ASSUME NEW s \in Side, Loop(s) PROVE TypeOK'
  BY <1>6 DEF Loop
<1>7. ASSUME NEW s \in Side, NilBox(s) PROVE TypeOK'
  <2>1. Cut BY <1>7, ShutCuts DEF NilBox
  <2>2. handler' \in [Side -> Labels] /\ buf' \in [Side -> Seq(Message)] BY <1>7 DEF NilBox, Labels
  <2> QED BY <1>7, <2>1, <2>2 DEF NilBox, Cut
<1>8. ASSUME NEW s \in Side, Peek(s) PROVE TypeOK'
  <2>1. CASE Close(s)
    BY <1>8, <2>1, CloseCuts DEF Peek, Cut
  <2>2. CASE UNCHANGED <<in, out, srv>>
    BY <1>8, <2>2 DEF Peek
  <2> QED BY <1>8, <2>1, <2>2 DEF Peek
<1>9. ASSUME NEW s \in Side, ReadLink(s) PROVE TypeOK'
  <2>1. PICK k \in 1..Len(in[s]) :
          /\ buf' = [buf EXCEPT ![s] = SubSeq(in[s], 1, k)]
          /\ in' = [in EXCEPT ![s] = SubSeq(@, k + 1, Len(@))]
    BY <1>9 DEF ReadLink
  <2>2. SubSeq(in[s], 1, k) \in Seq(Message) /\ SubSeq(in[s], k + 1, Len(in[s])) \in Seq(Message)
    BY FrontOf, RestOf, LenProperties
  <2> QED BY <1>9, <2>1, <2>2 DEF ReadLink
<1>10. ASSUME NEW s \in Side, WriteLink(s) PROVE TypeOK'
  <2>1. out[Peer(s)] \o buf[s] \in Seq(Message \cup {TaskA})
    BY Sides, PayloadAdded DEF Stream, Told
  <2>2. out' \in [Side -> Seq(Message \cup {TaskA})] BY <1>10, <2>1 DEF WriteLink
  <2>3. buf' \in [Side -> Seq(Message)] /\ handler' \in [Side -> Labels] BY <1>10 DEF WriteLink
  <2> QED BY <1>10, <2>2, <2>3 DEF WriteLink
<1>11. ASSUME NEW s \in Side, WriteLinkFails(s) PROVE TypeOK'
  <2>1. Cut BY <1>11, CloseCuts DEF WriteLinkFails
  <2>2. buf' \in [Side -> Seq(Message)] /\ handler' \in [Side -> Labels] BY <1>11 DEF WriteLinkFails
  <2> QED BY <1>11, <2>1, <2>2 DEF WriteLinkFails, Cut
<1>12. ASSUME NEW s \in Side, ReadEnds(s) PROVE TypeOK'
  <2>1. Cut BY <1>12, CloseCuts DEF ReadEnds
  <2> QED BY <1>12, <2>1 DEF ReadEnds, Cut
<1>13. ASSUME NEW s \in Side, HandshakeRead(s) PROVE TypeOK'
  <2>1. PICK k \in 1..Len(out[s]) : out' = [out EXCEPT ![s] = SubSeq(@, k + 1, Len(@))]
    BY <1>13 DEF HandshakeRead
  <2>2. SubSeq(out[s], k + 1, Len(out[s])) \in Seq(Message \cup {TaskA})
    BY RestOf, LenProperties
  <2> QED BY <1>13, <2>1, <2>2 DEF HandshakeRead
<1>14. ASSUME NEW s \in Side, HandshakeEnds(s) PROVE TypeOK'
  BY <1>14 DEF HandshakeEnds
<1>15. ASSUME NEW s \in Side, Timeout(s) PROVE TypeOK'
  BY <1>15 DEF Timeout
<1>16. ASSUME NEW s \in Side, Send(s) PROVE TypeOK'
  <2>1. sent[s] + 1 \in Message /\ sent[s] + 1 \in 0..MaxMsgs BY <1>16, RelayAssumption DEF Send, Message
  <2>2. Append(in[s], sent[s] + 1) \in Seq(Message) BY <2>1, AppendProperties
  <2>3. in' \in [Side -> Seq(Message)] BY <1>16, <2>2 DEF Send
  <2>4. late' \in [Side -> SUBSET Message] BY <1>16, <2>1 DEF Send
  <2> QED BY <1>16, <2>1, <2>3, <2>4 DEF Send
<1>17. ASSUME NEW s \in Side, Receive(s) PROVE TypeOK'
  <2>1. /\ Head(out[s]) \in Message /\ Tail(out[s]) \in Seq(Message \cup {TaskA})
    BY <1>17, HeadIsPayload DEF Receive, Ready, Stream
  <2>2. Append(got[s], Head(out[s])) \in Seq(Message) BY <2>1, AppendProperties
  <2> QED BY <1>17, <2>1, <2>2 DEF Receive
<1>18. ASSUME NEW s \in Side, Hangup(s) PROVE TypeOK'
  <2>1. in' = in \/ in' = [in EXCEPT ![s] = <<>>] BY <1>18 DEF Hangup
  <2>2. <<>> \in Seq(Message) OBVIOUS
  <2>3. in' \in [Side -> Seq(Message)] BY <2>1, <2>2
  <2> QED BY <1>18, <2>3 DEF Hangup
<1>19. CASE UNCHANGED vars BY <1>19 DEF vars
<1> QED
  BY <1>1, <1>2, <1>3, <1>4, <1>5, <1>6, <1>7, <1>8, <1>9, <1>10, <1>11, <1>12, <1>13, <1>14, <1>15,
     <1>16, <1>17, <1>18, <1>19
     DEF Next, Join, Handler, Client, Handshake

\* The steps of the link: every one of Next, with the one that changes nothing.
LEMMA Steps ==
  ASSUME [Next]_vars
  PROVE  \/ Join
         \/ \E s \in Side : Loop(s) \/ NilBox(s) \/ Peek(s) \/ ReadLink(s) \/ WriteLink(s)
                            \/ WriteLinkFails(s) \/ ReadEnds(s)
         \/ \E s \in Side : HandshakeRead(s) \/ HandshakeEnds(s) \/ Timeout(s)
                            \/ Send(s) \/ Receive(s) \/ Hangup(s)
         \/ UNCHANGED vars
  BY DEF Next, Handler, Client, Handshake

\* A close keeps empty what was empty.
LEMMA CutKeepsEmpty ==
  ASSUME IInv, Cut, NEW x \in Side
  PROVE  (in[x] = <<>> => in'[x] = <<>>) /\ (out[x] = <<>> => out'[x] = <<>>)
  BY DEF Cut

\* Until both sides are switched nothing is on its way and nobody is ready; no
\* step switches a side off.
LEMMA SwitchedStep ==
  ASSUME IInv, [Next]_vars
  PROVE  Switched'
<1> USE Sides DEF Goto, server, clients
<1>1. \A x \in Side : linkSwitch[x] => linkSwitch'[x]
  <2> USE DEF IInv, TypeOK
  <2>1. CASE Join
    <3>1. CASE SwitchFirst BY <3>1 DEF SwitchFirst
    <3>2. CASE BoxFirst BY <3>2 DEF BoxFirst
    <3>3. CASE LinkSecond BY <3>3 DEF LinkSecond
    <3>4. CASE TellFirst \/ TellSecond BY <3>4 DEF TellFirst, TellSecond
    <3> QED BY <2>1, <3>1, <3>2, <3>3, <3>4 DEF Join
  <2>2. CASE ~ Join
    BY <2>2, Steps DEF Loop, NilBox, Peek, ReadLink, WriteLink, WriteLinkFails, ReadEnds,
      HandshakeRead, HandshakeEnds, Timeout, Send, Receive, Hangup, vars
  <2> QED BY <2>1, <2>2
<1>2. CASE linkSwitch[1] /\ linkSwitch[2] BY <1>1, <1>2 DEF Switched
<1>3. CASE ~ (linkSwitch[1] /\ linkSwitch[2])
  <2> DEFINE Quiet(s) == in[s] = <<>> /\ out[s] = <<>> /\ buf[s] = <<>> /\ ~ Ready(s)
  <2>1. \A s \in Side : Quiet(s) BY <1>3 DEF IInv, Switched
  <2>2. handler[2] \notin {"linked", "told"} BY <1>3 DEF IInv, Switched
  <2>3. \A s \in Side : client[s] # "open" /\ Len(in[s]) = 0 /\ Len(out[s]) = 0
    BY <2>1 DEF Ready
  <2>4. CASE SwitchFirst
    BY <2>1, <2>4 DEF SwitchFirst, IInv, TypeOK, Switched, Ready
  <2>5. CASE BoxFirst
    BY <2>1, <2>5 DEF BoxFirst, IInv, TypeOK, Switched, Ready
  <2>6. CASE LinkSecond
    BY <2>1, <2>6 DEF LinkSecond, IInv, TypeOK, Switched, Ready
  <2>7. CASE TellFirst \/ TellSecond BY <2>2, <2>7 DEF TellFirst, TellSecond
  \* The other steps: what was empty stays empty.
  <2>8. ASSUME \A s \in Side : in'[s] = <<>> /\ out'[s] = <<>> /\ buf'[s] = <<>> /\ ~ Ready(s)',
               handler'[2] = handler[2] \/ handler'[2] \notin {"switched", "boxed", "linked", "told"}
        PROVE  Switched'
    <3>1. handler'[2] \in {"switched", "boxed"} => linkSwitch'[1] BY <1>1, <2>8 DEF IInv, Switched
    <3>2. handler'[2] \notin {"linked", "told"} BY <2>2, <2>8
    <3> QED BY <2>8, <3>1, <3>2 DEF Switched, Ready
  <2>9. ASSUME NEW s \in Side, Loop(s) PROVE Switched'
    BY <2>1, <2>8, <2>9 DEF Loop, IInv, TypeOK, Ready
  <2>10. ASSUME NEW s \in Side, NilBox(s) PROVE Switched'
    <3>1. Cut BY <2>10, ShutCuts DEF NilBox
    <3> QED BY <2>1, <2>8, <2>10, <3>1, CutKeepsEmpty DEF NilBox, Ready
  <2>11. ASSUME NEW s \in Side, WriteLink(s) PROVE Switched'
    <3>1. <<>> \o <<>> = <<>> OBVIOUS
    <3>2. out'[Peer(s)] = <<>> BY <2>1, <2>11, <3>1 DEF WriteLink, IInv, TypeOK
    <3>3. \A x \in Side : out'[x] = <<>> BY <2>1, <2>11, <3>2 DEF WriteLink, IInv, TypeOK
    <3> QED BY <2>1, <2>8, <2>11, <3>3 DEF WriteLink, IInv, TypeOK, Ready
  <2>12. ASSUME NEW s \in Side, WriteLinkFails(s) PROVE Switched'
    <3>1. Cut BY <2>12, CloseCuts DEF WriteLinkFails
    <3> QED BY <2>1, <2>8, <2>12, <3>1, CutKeepsEmpty DEF WriteLinkFails, IInv, TypeOK, Ready
  <2>13. ASSUME NEW s \in Side, ReadEnds(s) PROVE Switched'
    <3>1. Cut BY <2>13, CloseCuts DEF ReadEnds
    <3> QED BY <2>1, <2>8, <2>13, <3>1, CutKeepsEmpty DEF ReadEnds, IInv, TypeOK, Ready
  <2>14. ASSUME NEW s \in Side, HandshakeEnds(s) \/ Timeout(s) PROVE Switched'
    BY <2>1, <2>8, <2>14 DEF HandshakeEnds, Timeout, IInv, TypeOK, Ready
  <2>15. ASSUME NEW s \in Side,
                Peek(s) \/ ReadLink(s) \/ HandshakeRead(s) \/ Send(s) \/ Receive(s) \/ Hangup(s)
         PROVE  FALSE
    <3>1. in[s] = <<>> /\ 1 .. Len(in[s]) = {} /\ 1 .. Len(out[s]) = {} /\ client[s] # "open"
      BY <2>1, <2>3
    <3> QED BY <2>15, <3>1 DEF Peek, ReadLink, HandshakeRead, Send, Receive, Hangup
  <2>16. CASE UNCHANGED vars BY <2>1, <2>8, <2>16 DEF vars, Ready
  <2> QED
    BY <2>4, <2>5, <2>6, <2>7, <2>9, <2>10, <2>11, <2>12, <2>13, <2>14, <2>15, <2>16, Steps DEF Join
<1> QED BY <1>2, <1>3

\* The goroutine that links goes forward: who has been told stays told.
LEMMA ToldStays ==
  ASSUME IInv, [Next]_vars, NEW s \in Side
  PROVE  Untold(s)' => Untold(s)
<1> USE Sides DEF Goto, IInv, TypeOK, Untold
<1>1. CASE Join
  BY <1>1 DEF Join, SwitchFirst, BoxFirst, LinkSecond, TellFirst, TellSecond
<1>2. ASSUME NEW x \in Side, Loop(x) \/ NilBox(x) \/ Peek(x) \/ ReadLink(x) \/ WriteLink(x)
                            \/ WriteLinkFails(x) \/ ReadEnds(x)
      PROVE  Untold(s)' => Untold(s)
  <2>1. handler'[2] = handler[2] \/ handler'[2] \in {"top", "peek", "read", "write", "gone"}
    <3>1. CASE Loop(x) BY <3>1 DEF Loop
    <3>2. CASE NilBox(x) BY <3>2 DEF NilBox
    <3>3. CASE Peek(x)
      <4>1. handler' = [handler EXCEPT ![x] = "top"] \/ handler' = [handler EXCEPT ![x] = "gone"]
        <5> HIDE DEF IInv, TypeOK, Untold
        <5> QED BY <3>3 DEF Peek
      <4>2. CASE x = 2 BY <4>1, <4>2
      <4>3. CASE x # 2 BY <4>1, <4>3
      <4> QED BY <4>2, <4>3
    <3>4. CASE ReadLink(x) BY <3>4 DEF ReadLink
    <3>6. CASE WriteLink(x) BY <3>6 DEF WriteLink
    <3>5. CASE WriteLinkFails(x) BY <3>5 DEF WriteLinkFails
    <3>7. CASE ReadEnds(x) BY <3>7 DEF ReadEnds
    <3> QED BY <1>2, <3>1, <3>2, <3>3, <3>4, <3>5, <3>6, <3>7
  <2> QED BY <2>1
<1>3. CASE handler' = handler BY <1>3
<1>4. ASSUME NEW x \in Side, HandshakeRead(x) \/ HandshakeEnds(x) \/ Timeout(x)
                            \/ Send(x) \/ Receive(x) \/ Hangup(x)
      PROVE  handler' = handler
  BY <1>4 DEF HandshakeRead, HandshakeEnds, Timeout, Send, Receive, Hangup
<1>5. CASE UNCHANGED vars BY <1>5 DEF vars
<1> QED BY <1>1, <1>2, <1>3, <1>4, <1>5, Steps

\* TaskA is written to a side once, before its client is ready.
LEMMA ToldStep ==
  ASSUME IInv, [Next]_vars
  PROVE  Told'
<1> USE Sides DEF Goto, server, clients
<1> SUFFICES ASSUME NEW x \in Side
             PROVE  /\ OneTaskA(out[x])'
                    /\ (Untold(x) \/ Ready(x) => TaskA \notin Items(out[x]))'
                    /\ (Untold(x) => ~ Ready(x))'
  BY DEF Told
<1> DEFINE Goal == /\ OneTaskA(out[x])'
                   /\ (Untold(x) \/ Ready(x) => TaskA \notin Items(out[x]))'
                   /\ (Untold(x) => ~ Ready(x))'
<1>1. Untold(x)' => Untold(x) BY ToldStays
<1>2. out \in [Side -> Stream] /\ out[x] \in Stream BY DEF IInv, TypeOK, Stream
<1>3. /\ OneTaskA(out[x]) /\ (Untold(x) \/ Ready(x) => TaskA \notin Items(out[x]))
      /\ (Untold(x) => ~ Ready(x))
  BY DEF IInv, Told
<1>4. OneTaskA(<<>>) /\ Items(<<>>) = {} BY DEF OneTaskA, Items
\* Nothing new in the stream, nobody new ready.
<1>5. ASSUME out'[x] \in {out[x], <<>>}, Ready(x)' => Ready(x) PROVE Goal
  <2>1. CASE out'[x] = out[x] BY <1>1, <1>3, <1>5, <2>1 DEF OneTaskA, Items
  <2>2. CASE out'[x] = <<>> BY <1>1, <1>3, <1>4, <1>5, <2>2 DEF OneTaskA, Items
  <2> QED BY <1>5, <2>1, <2>2
<1>6. ASSUME Cut PROVE out'[x] \in {out[x], <<>>} BY <1>6 DEF Cut
<1>7. CASE SwitchFirst \/ BoxFirst \/ LinkSecond
  BY <1>5, <1>7 DEF SwitchFirst, BoxFirst, LinkSecond, Ready
<1>8. ASSUME NEW s \in Side, Tell(s), Untold(s), ~ Untold(s)', UNCHANGED client PROVE Goal
  <2>1. CASE Cut BY <1>5, <1>6, <1>8, <2>1 DEF Ready
  <2>2. CASE out' = [out EXCEPT ![s] = Append(@, TaskA)] /\ x = s
    <3>1. TaskA \notin Items(out[x]) /\ ~ Ready(x) BY <1>3, <1>8, <2>2
    <3>2. out'[x] = Append(out[x], TaskA) BY <1>2, <2>2
    <3>3. OneTaskA(Append(out[x], TaskA)) BY <1>2, <3>1, PayloadTold
    <3>4. ~ Untold(x)' /\ ~ Ready(x)' BY <1>8, <2>2, <3>1 DEF Ready
    <3> QED BY <3>2, <3>3, <3>4 DEF OneTaskA
  <2>3. CASE out' = [out EXCEPT ![s] = Append(@, TaskA)] /\ x # s
    BY <1>2, <1>5, <1>8, <2>3 DEF Ready
  <2> QED BY <1>8, <2>1, <2>2, <2>3, TellTells
<1>9. CASE TellFirst
  BY <1>8, <1>9 DEF TellFirst, Untold, IInv, TypeOK
<1>10. CASE TellSecond
  BY <1>8, <1>10 DEF TellSecond, Untold, IInv, TypeOK
<1>11. ASSUME NEW s \in Side, NilBox(s) \/ WriteLinkFails(s) \/ ReadEnds(s) PROVE Goal
  <2>1. Cut BY <1>11, ShutCuts, CloseCuts DEF NilBox, WriteLinkFails, ReadEnds
  <2>2. Ready(x)' => Ready(x) BY <1>11 DEF NilBox, WriteLinkFails, ReadEnds, Ready
  <2> QED BY <1>5, <1>6, <2>1, <2>2
<1>12. ASSUME NEW s \in Side, Peek(s) PROVE Goal
  <2>1. Cut \/ out' = out BY <1>12, CloseCuts DEF Peek
  <2>2. Ready(x)' => Ready(x) BY <1>12 DEF Peek, Ready
  <2> QED BY <1>5, <1>6, <2>1, <2>2
<1>13. ASSUME NEW s \in Side, WriteLink(s) PROVE Goal
  <2>1. CASE x = Peer(s)
    <3>1. out'[x] = out[x] \o buf[s] BY <1>2, <1>13, <2>1 DEF WriteLink
    <3>2. buf[s] \in Seq(Message) BY DEF IInv, TypeOK
    <3>3. OneTaskA(out[x] \o buf[s]) /\ Items(out[x] \o buf[s]) \subseteq Items(out[x]) \cup Message
      BY <1>2, <1>3, <3>2, PayloadAdded
    <3>4. OneTaskA(out'[x]) /\ (TaskA \notin Items(out[x]) => TaskA \notin Items(out'[x]))
      BY <3>1, <3>3, Numbers
    <3>5. Ready(x)' <=> Ready(x) BY <1>13 DEF WriteLink, Ready
    <3> QED BY <1>1, <1>3, <3>4, <3>5 DEF OneTaskA, Items
  <2>2. CASE x # Peer(s) BY <1>2, <1>5, <1>13, <2>2 DEF WriteLink, Ready
  <2> QED BY <2>1, <2>2
<1>14. ASSUME NEW s \in Side, HandshakeRead(s) PROVE Goal
  <2>1. CASE x = s
    <3>1. PICK k \in 1 .. Len(out[x]) : out' = [out EXCEPT ![x] = SubSeq(@, k + 1, Len(@))]
      BY <1>14, <2>1 DEF HandshakeRead
    <3> DEFINE r == SubSeq(out[x], k + 1, Len(out[x]))
    <3>2. out'[x] = r BY <1>2, <3>1
    <3>3. OneTaskA(r) /\ Items(r) \subseteq Items(out[x]) /\ (out[x][1] = TaskA => TaskA \notin Items(r))
      BY <1>2, <1>3, PayloadCut
    <3> HIDE DEF r
    <3>4. Head(out[x]) = out[x][1] /\ 1 \in 1 .. Len(out[x])
      BY <1>2, LenProperties DEF Stream
    <3>5. Ready(x)' => out[x][1] = TaskA
      BY <1>14, <2>1, <3>4 DEF HandshakeRead, Ready, IInv, TypeOK
    <3>6. Untold(x)' => out[x][1] # TaskA BY <1>1, <1>2, <1>3, <3>4, ItemsOf DEF Stream
    <3>7. OneTaskA(out'[x]) /\ (Untold(x)' \/ Ready(x)' => TaskA \notin Items(out'[x]))
      BY <1>1, <1>3, <3>2, <3>3, <3>5
    <3> QED BY <3>5, <3>6, <3>7 DEF OneTaskA, Items
  <2>2. CASE x # s
    BY <1>2, <1>5, <1>14, <2>2 DEF HandshakeRead, Ready, IInv, TypeOK
  <2> QED BY <2>1, <2>2
<1>15. ASSUME NEW s \in Side, Receive(s) PROVE Goal
  <2>1. CASE x = s
    <3>1. out'[x] = Tail(out[x]) /\ out[x] # <<>> BY <1>2, <1>15, <2>1 DEF Receive
    <3>2. Ready(x) BY <1>15, <2>1 DEF Receive, Ready
    <3>3. Tail(out[x]) = SubSeq(out[x], 1 + 1, Len(out[x])) /\ 1 \in 1 .. Len(out[x])
      BY <1>2, <3>1, LenProperties, EmptySeq, TailIsSubSeq DEF Stream
    <3> DEFINE r == SubSeq(out[x], 1 + 1, Len(out[x]))
    <3>4. OneTaskA(r) /\ Items(r) \subseteq Items(out[x])
      BY <1>2, <1>3, <3>3, PayloadCut
    <3>6. out'[x] = r BY <3>1, <3>3
    <3> HIDE DEF r
    <3>5. ~ Untold(x)' BY <1>1, <1>3, <3>2
    <3> QED BY <1>3, <3>2, <3>4, <3>5, <3>6 DEF OneTaskA, Items
  <2>2. CASE x # s BY <1>2, <1>5, <1>15, <2>2 DEF Receive, Ready
  <2> QED BY <2>1, <2>2
<1>16. ASSUME NEW s \in Side, \/ Loop(s) \/ ReadLink(s) \/ HandshakeEnds(s) \/ Timeout(s)
                            \/ Send(s) \/ Hangup(s)
       PROVE  Goal
  <2>1. out' = out
    BY <1>16 DEF Loop, ReadLink, HandshakeEnds, Timeout, Send, Hangup
  <2>2. Ready(x)' => Ready(x)
    <3> USE DEF Ready, IInv, TypeOK
    <3>1. CASE Loop(s) \/ ReadLink(s) \/ Send(s) BY <3>1 DEF Loop, ReadLink, Send
    <3>2. CASE HandshakeEnds(s) BY <3>2 DEF HandshakeEnds
    <3>3. CASE Timeout(s) BY <3>3 DEF Timeout
    <3>4. CASE Hangup(s) BY <3>4 DEF Hangup
    <3> QED BY <1>16, <3>1, <3>2, <3>3, <3>4
  <2> QED BY <1>5, <2>1, <2>2
<1>17. CASE UNCHANGED vars BY <1>5, <1>17 DEF vars, Ready
<1> QED
  BY <1>7, <1>9, <1>10, <1>11, <1>12, <1>13, <1>14, <1>15, <1>16, <1>17, Steps DEF Join

\* The handler reads with nothing in its hands, from an open connection.
LEMMA BuffersStep ==
  ASSUME IInv, [Next]_vars
  PROVE  Buffers'
<1> USE Sides DEF Goto, server, clients
<1> SUFFICES ASSUME NEW x \in Side
             PROVE  (buf'[x] # <<>> => handler'[x] = "write") /\ (~ srv'[x] => in'[x] = <<>>)
  BY DEF Buffers
<1> DEFINE Goal == (buf'[x] # <<>> => handler'[x] = "write") /\ (~ srv'[x] => in'[x] = <<>>)
<1>1. (buf[x] # <<>> => handler[x] = "write") /\ (~ srv[x] => in[x] = <<>>)
  BY DEF IInv, Buffers
<1>2. CASE Join
  <2>1. (~ srv'[x] => in'[x] = <<>>)
    <3>1. ASSUME NEW s \in Side, Tell(s) PROVE ~ srv'[x] => in'[x] = <<>>
      BY <1>1, <3>1, TellTells DEF Cut
    <3> QED BY <1>1, <1>2, <3>1 DEF Join, SwitchFirst, BoxFirst, LinkSecond, TellFirst, TellSecond
  <2>2. buf' = buf /\ (handler[x] = "write" => handler'[x] = "write")
    BY <1>2 DEF Join, SwitchFirst, BoxFirst, LinkSecond, TellFirst, TellSecond, IInv, TypeOK
  <2> QED BY <1>1, <2>1, <2>2
<1>3. ASSUME NEW s \in Side, NilBox(s) \/ WriteLinkFails(s) \/ ReadEnds(s) PROVE Goal
  <2>1. Cut BY <1>3, ShutCuts, CloseCuts DEF NilBox, WriteLinkFails, ReadEnds
  <2>2. ~ srv'[x] => in'[x] = <<>> BY <2>1 DEF Cut
  <2>3. buf'[x] # <<>> => handler'[x] = "write"
    <3>1. CASE NilBox(s) BY <3>1 DEF NilBox
    <3>2. CASE WriteLinkFails(s) BY <1>1, <3>2 DEF WriteLinkFails, IInv, TypeOK
    <3>3. CASE ReadEnds(s) BY <1>1, <3>3 DEF ReadEnds, IInv, TypeOK, Buffers
    <3> QED BY <1>3, <3>1, <3>2, <3>3
  <2> QED BY <2>2, <2>3
<1>4. ASSUME NEW s \in Side, Peek(s) PROVE Goal
  <2>1. Cut \/ UNCHANGED <<in, srv>> BY <1>4, CloseCuts DEF Peek
  <2>2. ~ srv'[x] => in'[x] = <<>> BY <1>1, <2>1 DEF Cut
  <2>3. CASE x = s
    <3>1. buf'[x] = <<>> BY <1>1, <1>4, <2>3 DEF Peek
    <3> QED BY <2>2, <3>1
  <2>4. CASE x # s
    <3>1. buf'[x] = buf[x] /\ handler'[x] = handler[x] BY <1>4, <2>4 DEF Peek, IInv, TypeOK
    <3> QED BY <1>1, <2>2, <3>1
  <2> QED BY <2>3, <2>4
<1>5. ASSUME NEW s \in Side, Loop(s) \/ ReadLink(s) \/ WriteLink(s) PROVE Goal
  <2>1. CASE Loop(s)
    <3>1. handler[s] = "top" /\ buf' = buf /\ in' = in /\ srv' = srv BY <2>1 DEF Loop
    <3>2. x # s => handler'[x] = handler[x] BY <2>1 DEF Loop, IInv, TypeOK
    <3>3. x = s => buf[x] = <<>> BY <1>1, <3>1
    <3> QED BY <1>1, <3>1, <3>2, <3>3
  <2>2. CASE ReadLink(s)
    <3>1. srv[s] /\ srv' = srv /\ handler'[s] = "write" BY <2>2 DEF ReadLink, IInv, TypeOK
    <3>2. x # s => handler'[x] = handler[x] /\ buf'[x] = buf[x] /\ in'[x] = in[x]
      BY <2>2 DEF ReadLink, IInv, TypeOK
    <3> QED BY <1>1, <3>1, <3>2
  <2>3. CASE WriteLink(s)
    <3>1. in' = in /\ srv' = srv /\ buf'[s] = <<>> BY <2>3 DEF WriteLink, IInv, TypeOK
    <3>2. x # s => handler'[x] = handler[x] /\ buf'[x] = buf[x] BY <2>3 DEF WriteLink, IInv, TypeOK
    <3> QED BY <1>1, <3>1, <3>2
  <2> QED BY <1>5, <2>1, <2>2, <2>3
<1>6. ASSUME NEW s \in Side, \/ HandshakeRead(s) \/ HandshakeEnds(s) \/ Timeout(s)
                            \/ Send(s) \/ Receive(s) \/ Hangup(s)
      PROVE  Goal
  <2>1. UNCHANGED <<srv, handler, buf>>
    BY <1>6 DEF HandshakeRead, HandshakeEnds, Timeout, Send, Receive, Hangup
  <2>2. CASE Send(s) BY <1>1, <2>1, <2>2 DEF Send, IInv, TypeOK
  <2>3. CASE Hangup(s)
    <3>1. in' = in \/ in' = [in EXCEPT ![s] = <<>>] BY <2>3 DEF Hangup
    <3>2. in'[x] = in[x] \/ in'[x] = <<>> BY <3>1 DEF IInv, TypeOK
    <3> QED BY <1>1, <2>1, <3>2
  <2>4. CASE in' = in BY <1>1, <2>1, <2>4
  <2> QED BY <1>6, <2>2, <2>3, <2>4 DEF HandshakeRead, HandshakeEnds, Timeout, Receive
<1>7. CASE UNCHANGED vars BY <1>1, <1>7 DEF vars
<1> QED BY <1>2, <1>3, <1>4, <1>5, <1>6, <1>7, Steps

\* The relay keeps its invariant.
THEOREM Invariant == Spec => []IInv
<1>1. IInv /\ [Next]_vars => IInv'
  BY TypeStep, SwitchedStep, ToldStep, BuffersStep DEF IInv
<1> QED BY InitIInv, <1>1, PTL DEF Spec

\* The variables of the relay have their types (proxy_task.go, linkBox.go, client_sub.go).
THEOREM TypesOK == Spec => []TypeOK
<1>1. IInv => TypeOK BY DEF IInv
<1> QED BY Invariant, <1>1, PTL

\* The relay reads no payload as a request: joinTaskRoom has switched both
\* handlers before the first client hears that it may write.
THEOREM NoPayloadAsRequest == Spec => []SwitchedBeforePayload
<1>1. IInv => SwitchedBeforePayload BY Sides DEF IInv, Switched, SwitchedBeforePayload
<1> QED BY Invariant, <1>1, PTL

-----------------------------------------------------------------------------
(* Fronts and rests of what is on its way *)

IsFront(a, b) == \E k \in 0 .. Len(b) : a = SubSeq(b, 1, k)

\* A sequence is a front of itself, and nothing is a front of any.
LEMMA FrontEnds ==
  ASSUME NEW S, NEW q \in Seq(S)
  PROVE  IsFront(q, q) /\ IsFront(<<>>, q)
<1>1. Len(q) \in Nat BY LenProperties
<1>2. SubSeq(q, 1, Len(q)) = q BY SubSeqFull
<1>3. SubSeq(q, 1, 0) = <<>>
  <2>1. SubSeq(q, 1, 0) \in Seq(S) /\ Len(SubSeq(q, 1, 0)) = 0 BY <1>1, FrontOf
  <2> QED BY <2>1, EmptySeq
<1>4. Len(q) \in 0 .. Len(q) /\ 0 \in 0 .. Len(q) BY <1>1
<1> QED BY <1>2, <1>3, <1>4, Zenon DEF IsFront

\* A front stays one behind another sequence.
LEMMA FrontBehind ==
  ASSUME NEW S, NEW a \in Seq(S), NEW b \in Seq(S), NEW f, IsFront(f, b)
  PROVE  f \in Seq(S) /\ IsFront(a \o f, a \o b)
<1>1. PICK k \in 0 .. Len(b) : f = SubSeq(b, 1, k) BY DEF IsFront
<1>2. f \in Seq(S) /\ Len(f) = k /\ \A j \in 1 .. k : f[j] = b[j] BY <1>1, FrontOf
<1>3. Len(a) \in Nat /\ Len(b) \in Nat BY LenProperties
<1> DEFINE p == a \o b
           r == a \o f
           s == SubSeq(p, 1, Len(a) + k)
<1>4. /\ p \in Seq(S) /\ Len(p) = Len(a) + Len(b)
      /\ \A j \in 1 .. Len(a) + Len(b) : p[j] = IF j <= Len(a) THEN a[j] ELSE b[j - Len(a)]
  BY ConcatProperties
<1>5. /\ r \in Seq(S) /\ Len(r) = Len(a) + k
      /\ \A j \in 1 .. Len(a) + k : r[j] = IF j <= Len(a) THEN a[j] ELSE f[j - Len(a)]
  BY <1>2, ConcatProperties
<1>6. Len(a) + k \in 0 .. Len(p) BY <1>3, <1>4
<1>7. s \in Seq(S) /\ Len(s) = Len(a) + k /\ \A j \in 1 .. Len(a) + k : s[j] = p[j]
  BY <1>4, <1>6, FrontOf
<1> HIDE DEF p, r, s
<1>8. ASSUME NEW j \in 1 .. Len(r) PROVE r[j] = s[j]
  <2>1. j \in 1 .. Len(a) + k /\ j \in 1 .. Len(a) + Len(b) BY <1>3, <1>5
  <2>2. CASE j <= Len(a) BY <1>4, <1>5, <1>7, <2>1, <2>2
  <2>3. CASE ~ (j <= Len(a))
    <3>1. j - Len(a) \in 1 .. k BY <1>3, <2>1, <2>3
    <3> QED BY <1>2, <1>4, <1>5, <1>7, <2>1, <2>3, <3>1
  <2> QED BY <2>2, <2>3
<1>9. r = s BY <1>5, <1>7, <1>8, SeqEqual
<1> QED BY <1>2, <1>6, <1>9 DEF IsFront, p, r, s

\* The first of two is a front of both.
LEMMA FrontFirst ==
  ASSUME NEW S, NEW a \in Seq(S), NEW b \in Seq(S)
  PROVE  IsFront(a, a \o b)
<1>1. IsFront(a \o <<>>, a \o b) BY FrontEnds, FrontBehind
<1> QED BY <1>1, ConcatEmptySeq

\* The front of two is cut off the first.
LEMMA RestOfTwo ==
  ASSUME NEW S, NEW a \in Seq(S), NEW b \in Seq(S), NEW m \in 0 .. Len(a)
  PROVE  /\ m \in 0 .. Len(a \o b)
         /\ SubSeq(a \o b, m + 1, Len(a \o b)) = SubSeq(a, m + 1, Len(a)) \o b
<1>1. Len(a) \in Nat /\ Len(b) \in Nat BY LenProperties
<1> DEFINE p == a \o b
           r == SubSeq(a, m + 1, Len(a))
           q == r \o b
           s == SubSeq(p, m + 1, Len(p))
<1>2. /\ p \in Seq(S) /\ Len(p) = Len(a) + Len(b)
      /\ \A j \in 1 .. Len(a) + Len(b) : p[j] = IF j <= Len(a) THEN a[j] ELSE b[j - Len(a)]
  BY ConcatProperties
<1>3. r \in Seq(S) /\ Len(r) = Len(a) - m /\ \A j \in 1 .. Len(a) - m : r[j] = a[m + j]
  BY RestOf
<1>4. /\ q \in Seq(S) /\ Len(q) = Len(r) + Len(b)
      /\ \A j \in 1 .. Len(r) + Len(b) : q[j] = IF j <= Len(r) THEN r[j] ELSE b[j - Len(r)]
  BY <1>3, ConcatProperties
<1>5. m \in 0 .. Len(p) BY <1>1, <1>2
<1>6. s \in Seq(S) /\ Len(s) = Len(p) - m /\ \A j \in 1 .. Len(p) - m : s[j] = p[m + j]
  BY <1>2, <1>5, RestOf
<1> HIDE DEF p, q, r, s
<1>7. Len(q) = Len(s) BY <1>1, <1>2, <1>3, <1>4, <1>6
<1>8. ASSUME NEW j \in 1 .. Len(s) PROVE s[j] = q[j]
  <2>1. j \in 1 .. Len(p) - m /\ m + j \in 1 .. Len(a) + Len(b) /\ j \in 1 .. Len(r) + Len(b)
    BY <1>1, <1>2, <1>3, <1>6
  <2>2. s[j] = p[m + j] BY <1>6, <2>1
  <2>3. CASE j <= Len(r)
    <3>1. j \in 1 .. Len(a) - m /\ m + j <= Len(a) BY <1>1, <1>3, <2>1, <2>3
    <3> QED BY <1>2, <1>3, <1>4, <2>1, <2>2, <2>3, <3>1
  <2>4. CASE ~ (j <= Len(r))
    <3>1. ~ (m + j <= Len(a)) /\ m + j - Len(a) = j - Len(r) BY <1>1, <1>3, <2>1, <2>4
    <3>2. p[m + j] = b[m + j - Len(a)] BY <1>2, <2>1, <3>1
    <3>3. q[j] = b[j - Len(r)] BY <1>4, <2>1, <2>4
    <3> QED BY <2>2, <3>1, <3>2, <3>3
  <2> QED BY <2>3, <2>4
<1>9. s = q BY <1>4, <1>6, <1>7, <1>8, SeqEqual
<1> QED BY <1>5, <1>9 DEF p, q, r, s

\* The head of two is the head of the first.
LEMMA HeadOfTwo ==
  ASSUME NEW S, NEW a \in Seq(S), NEW b \in Seq(S), a # <<>>
  PROVE  /\ a \o b # <<>> /\ Head(a \o b) = Head(a)
         /\ Tail(a \o b) = Tail(a) \o b
<1>1. Len(a) \in Nat /\ Len(b) \in Nat /\ 1 \in 1 .. Len(a) /\ 1 \in 0 .. Len(a)
  BY LenProperties, EmptySeq
<1>2. /\ a \o b \in Seq(S) /\ Len(a \o b) = Len(a) + Len(b)
      /\ (a \o b)[1] = a[1]
  BY <1>1, ConcatProperties
<1>3. a \o b # <<>> BY <1>1, <1>2, EmptySeq
<1>4. Head(a \o b) = (a \o b)[1] /\ Head(a) = a[1] BY <1>2, <1>3
<1>5. Tail(a) = SubSeq(a, 1 + 1, Len(a)) BY TailIsSubSeq
<1>6. Tail(a \o b) = SubSeq(a \o b, 1 + 1, Len(a \o b)) BY <1>2, <1>3, TailIsSubSeq
<1>7. SubSeq(a \o b, 1 + 1, Len(a \o b)) = SubSeq(a, 1 + 1, Len(a)) \o b BY <1>1, RestOfTwo
<1> QED BY <1>2, <1>3, <1>4, <1>5, <1>6, <1>7

-----------------------------------------------------------------------------
(* The relay is two pipes *)

Broken == \E s \in Side : ~ srv[s] \/ Gone(s)

\* What is on its way is messages.
LEMMA WayType ==
  ASSUME IInv, NEW s \in Side
  PROVE  /\ out[s] \in Stream /\ OneTaskA(out[s]) /\ Payload(out[s]) \in Seq(Message)
         /\ buf[s] \in Seq(Message) /\ in[s] \in Seq(Message)
         /\ buf[s] \o in[s] \in Seq(Message) /\ OnItsWay(s) \in Seq(Message)
<1>1. \A x \in Side : out[x] \in Stream /\ OneTaskA(out[x]) BY DEF IInv, TypeOK, Told, Stream
<1>2. \A x \in Side : Payload(out[x]) \in Seq(Message) BY <1>1, PayloadType
<1>3. buf[s] \in Seq(Message) /\ in[s] \in Seq(Message) BY DEF IInv, TypeOK
<1>4. buf[s] \o in[s] \in Seq(Message) BY <1>3, ConcatProperties
<1> DEFINE rest == IF srv[Peer(s)] THEN buf[s] \o in[s] ELSE <<>>
<1>5. rest \in Seq(Message) BY <1>4
<1>6. Payload(out[Peer(s)]) \in Seq(Message) BY <1>2, Sides
<1> HIDE DEF rest
<1>7. Payload(out[Peer(s)]) \o rest \in Seq(Message) BY <1>5, <1>6, ConcatProperties
<1> QED BY <1>1, <1>2, <1>3, <1>4, <1>7 DEF rest, OnItsWay

\* The abstract state is unchanged when its parts are.
LEMMA Stutters ==
  ASSUME \A s \in Side : OnItsWay(s)' = OnItsWay(s), \A s \in Side : Ready(s)' <=> Ready(s),
         Broken' <=> Broken, sent' = sent, got' = got
  PROVE  UNCHANGED Pipe!pipeVars
<1>1. [s \in Side |-> OnItsWay(s)]' = [s \in Side |-> OnItsWay(s)] OBVIOUS
<1>2. [s \in Side |-> client[s] \in {"open", "closed"}]' = [s \in Side |-> client[s] \in {"open", "closed"}]
  BY DEF Ready
<1>3. (\E s \in Side : ~ srv[s] \/ Gone(s))' = (\E s \in Side : ~ srv[s] \/ Gone(s)) BY DEF Broken
<1> QED BY <1>1, <1>2, <1>3 DEF Pipe!pipeVars

\* A link is broken when somebody has gone and fronts are left.
LEMMA Breaks ==
  ASSUME \A s \in Side : IsFront(OnItsWay(s)', OnItsWay(s)), \A s \in Side : Ready(s)' <=> Ready(s),
         Broken', sent' = sent, got' = got
  PROVE  Pipe!PipeBreak
<1>1. \A s \in Side : \E k \in 0 .. Len(OnItsWay(s)) : OnItsWay(s)' = SubSeq(OnItsWay(s), 1, k)
  BY DEF IsFront
<1>2. [s \in Side |-> client[s] \in {"open", "closed"}]' = [s \in Side |-> client[s] \in {"open", "closed"}]
  BY DEF Ready
<1>3. (\E s \in Side : ~ srv[s] \/ Gone(s))' = TRUE BY DEF Broken
<1> QED BY <1>1, <1>2, <1>3 DEF Pipe!PipeBreak, Pipe!Side, Side

\* Every close that is a step of the relay breaks the link, and nothing else.
LEMMA CutBreaks ==
  ASSUME IInv, Cut, \E x \in Side : ~ srv'[x],
         \A x \in Side : buf'[x] \in {buf[x], <<>>} /\ (srv'[x] => buf'[x] = buf[x]),
         UNCHANGED <<client, sent, got>>
  PROVE  Pipe!PipeBreak
<1>1. ASSUME NEW s \in Side PROVE IsFront(OnItsWay(s)', OnItsWay(s))
  <2> DEFINE p == Peer(s)
             pay == Payload(out[p])
             rest == buf[s] \o in[s]
  <2>0. p \in Side BY Sides
  <2>1. pay \in Seq(Message) /\ rest \in Seq(Message) /\ OnItsWay(s) \in Seq(Message)
    BY <2>0, WayType
  <2>2. OnItsWay(s) = pay \o (IF srv[p] THEN rest ELSE <<>>) BY DEF OnItsWay
  <2>3. OnItsWay(s)' = Payload(out'[p]) \o (IF srv'[p] THEN buf'[s] \o in'[s] ELSE <<>>)
    BY DEF OnItsWay, Payload, Items, Peer
  <2> HIDE DEF pay, rest
  <2>4. CASE srv'[p]
    <3>1. srv[p] /\ out'[p] = out[p] BY <2>0, <2>4 DEF Cut
    <3>2. IsFront(buf'[s] \o in'[s], rest)
      <4> USE DEF rest
      <4>1. buf[s] \in Seq(Message) /\ in[s] \in Seq(Message) BY WayType
      <4>2. CASE srv'[s]
        <5>1. in'[s] = in[s] /\ buf'[s] = buf[s] BY <4>2 DEF Cut
        <5> QED BY <2>1, <5>1, FrontEnds
      <4>3. CASE ~ srv'[s] /\ buf'[s] = buf[s]
        <5>1. in'[s] = <<>> BY <4>3 DEF Cut
        <5>2. buf'[s] \o in'[s] = buf[s] BY <4>1, <4>3, <5>1, ConcatEmptySeq
        <5> QED BY <4>1, <5>2, FrontFirst
      <4>4. CASE ~ srv'[s] /\ buf'[s] = <<>>
        <5>1. in'[s] = <<>> BY <4>4 DEF Cut
        <5>2. <<>> \o <<>> = <<>> OBVIOUS
        <5>3. buf'[s] \o in'[s] = <<>> BY <4>4, <5>1, <5>2
        <5> QED BY <2>1, <5>3, FrontEnds
      <4> QED BY <4>2, <4>3, <4>4
    <3>3. OnItsWay(s) = pay \o rest /\ OnItsWay(s)' = pay \o (buf'[s] \o in'[s])
      BY <2>2, <2>3, <2>4, <3>1 DEF pay
    <3>4. IsFront(pay \o (buf'[s] \o in'[s]), pay \o rest) BY <2>1, <3>2, FrontBehind
    <3> QED BY <3>3, <3>4
  <2>5. CASE ~ srv'[p]
    <3>1. out'[p] \in {out[p], <<>>} BY <2>0, <2>5 DEF Cut
    <3>2. Payload(out'[p]) \in {pay, <<>>}
      <4>1. Payload(<<>>) = <<>> BY DEF Payload, Items
      <4>2. CASE out'[p] = out[p] BY <4>2 DEF pay
      <4>3. CASE out'[p] = <<>> BY <4>1, <4>3
      <4> QED BY <3>1, <4>2, <4>3
    <3>3. Payload(out'[p]) \in Seq(Message)
      <4>1. <<>> \in Seq(Message) OBVIOUS
      <4> QED BY <2>1, <3>2, <4>1, Zenon
    <3>4. OnItsWay(s)' = Payload(out'[p]) BY <2>3, <2>5, <3>3, ConcatEmptySeq
    <3>5. IsFront(pay, OnItsWay(s))
      <4> DEFINE more == IF srv[p] THEN rest ELSE <<>>
      <4>1. more \in Seq(Message) BY <2>1
      <4> HIDE DEF more
      <4>2. IsFront(pay, pay \o more) BY <2>1, <4>1, FrontFirst
      <4> QED BY <2>2, <4>2 DEF more
    <3>6. IsFront(<<>>, OnItsWay(s)) BY <2>1, FrontEnds
    <3> QED BY <3>2, <3>4, <3>5, <3>6
  <2> QED BY <2>4, <2>5
<1>2. \A s \in Side : Ready(s)' <=> Ready(s) BY DEF Ready
<1>3. Broken' BY DEF Broken
<1> QED BY <1>1, <1>2, <1>3, Breaks

\* What is on its way from a side, in the next state.
LEMMA NextWay ==
  ASSUME NEW s \in Side, NEW p, p = Peer(s)
  PROVE  OnItsWay(s)' = Payload(out'[p]) \o (IF srv'[p] THEN buf'[s] \o in'[s] ELSE <<>>)
  BY DEF OnItsWay, Payload, Items, Peer

\* The handler takes payload from the connection, and it stays on its way.
LEMMA ReadStutters ==
  ASSUME IInv, NEW s \in Side, ReadLink(s)
  PROVE  UNCHANGED Pipe!pipeVars
<1>1. PICK k \in 1 .. Len(in[s]) :
        /\ buf' = [buf EXCEPT ![s] = SubSeq(in[s], 1, k)]
        /\ in' = [in EXCEPT ![s] = SubSeq(@, k + 1, Len(@))]
  BY DEF ReadLink
<1>2. buf[s] = <<>> BY DEF ReadLink, IInv, Buffers
<1>3. in[s] \in Seq(Message) /\ Len(in[s]) \in Nat BY WayType, LenProperties
<1>4. SubSeq(in[s], 1, k) \o SubSeq(in[s], k + 1, Len(in[s])) = SubSeq(in[s], 1, Len(in[s]))
  BY <1>3, ConcatAdjacentSubSeq
<1>5. SubSeq(in[s], 1, Len(in[s])) = in[s] /\ <<>> \o in[s] = in[s]
  BY <1>3, SubSeqFull, ConcatEmptySeq
<1>6. buf'[s] = SubSeq(in[s], 1, k) /\ in'[s] = SubSeq(in[s], k + 1, Len(in[s]))
  BY <1>1 DEF IInv, TypeOK
<1>7. buf'[s] \o in'[s] = buf[s] \o in[s] BY <1>2, <1>4, <1>5, <1>6
<1>8. \A x \in Side : buf'[x] \o in'[x] = buf[x] \o in[x]
  <2> SUFFICES ASSUME NEW x \in Side, x # s PROVE buf'[x] = buf[x] /\ in'[x] = in[x]
    BY <1>7
  <2> QED BY <1>1 DEF IInv, TypeOK
<1>9. UNCHANGED <<out, srv, client, sent, got>> BY DEF ReadLink, clients
<1>10. \A x \in Side : OnItsWay(x)' = OnItsWay(x)
  BY <1>8, <1>9, NextWay DEF OnItsWay
<1> QED BY <1>9, <1>10, Stutters DEF Ready, Broken, Gone

\* The handler passes on what it holds, behind what the peer has still to read.
LEMMA WriteStutters ==
  ASSUME IInv, NEW s \in Side, WriteLink(s)
  PROVE  UNCHANGED Pipe!pipeVars
<1> DEFINE p == Peer(s)
           pay == Payload(out[p])
<1>1. p \in Side /\ p # s /\ Peer(p) = s BY Sides
<1>2. /\ srv[p] /\ out' = [out EXCEPT ![p] = @ \o buf[s]] /\ buf' = [buf EXCEPT ![s] = <<>>]
      /\ UNCHANGED <<in, srv, client, sent, got>>
  BY DEF WriteLink, Writable, clients
<1>3. out[p] \in Stream /\ OneTaskA(out[p]) /\ pay \in Seq(Message) BY <1>1, WayType
<1>4. buf[s] \in Seq(Message) /\ in[s] \in Seq(Message) BY WayType
<1> HIDE DEF p
<1>5. out'[p] = out[p] \o buf[s] /\ buf'[s] = <<>> /\ out'[s] = out[s] /\ buf'[p] = buf[p]
  BY <1>1, <1>2 DEF IInv, TypeOK
<1>6. Payload(out'[p]) = pay \o buf[s] BY <1>3, <1>4, <1>5, PayloadAdded
<1> HIDE DEF pay
<1>7. (pay \o buf[s]) \o (<<>> \o in[s]) = pay \o (buf[s] \o in[s])
  <2> DEFINE a == buf[s]
             b == in[s]
  <2>1. a \in Seq(Message) /\ b \in Seq(Message) /\ pay \in Seq(Message) BY <1>3, <1>4
  <2> HIDE DEF a, b
  <2>2. <<>> \o b = b BY <2>1, ConcatEmptySeq
  <2>3. (pay \o a) \o b = pay \o (a \o b) BY <2>1, ConcatAssociative
  <2>4. (pay \o a) \o (<<>> \o b) = pay \o (a \o b) BY <2>2, <2>3, Zenon
  <2> QED BY <2>4 DEF a, b
<1>8. OnItsWay(s)' = OnItsWay(s)
  <2>1. OnItsWay(s) = pay \o (buf[s] \o in[s]) BY <1>2 DEF OnItsWay, p, pay
  <2>2. OnItsWay(s)' = Payload(out'[p]) \o (buf'[s] \o in'[s]) BY <1>2, NextWay DEF p
  <2> QED BY <1>2, <1>5, <1>6, <1>7, <2>1, <2>2
<1>9. OnItsWay(p)' = OnItsWay(p)
  <2>1. OnItsWay(p)' = Payload(out'[s]) \o (IF srv'[s] THEN buf'[p] \o in'[p] ELSE <<>>)
    BY <1>1, NextWay
  <2>2. OnItsWay(p) = Payload(out[s]) \o (IF srv[s] THEN buf[p] \o in[p] ELSE <<>>)
    BY <1>1 DEF OnItsWay
  <2> QED BY <1>2, <1>5, <2>1, <2>2
<1>10. \A x \in Side : OnItsWay(x)' = OnItsWay(x) BY <1>1, <1>8, <1>9, Sides
<1> QED BY <1>2, <1>10, Stutters DEF Ready, Broken, Gone

\* TaskA is no payload, and a link is broken when it cannot be written.
LEMMA TellIsPipe ==
  ASSUME IInv, NEW s \in Side, Tell(s), ~ Ready(s), UNCHANGED <<buf, client, sent, got>>,
         TaskA \notin Items(out[s])
  PROVE  Pipe!PipeBreak \/ UNCHANGED Pipe!pipeVars
<1>1. CASE Cut /\ ~ srv'[s]
  <2>1. Pipe!PipeBreak BY <1>1, CutBreaks
  <2> QED BY <2>1
<1>2. CASE out' = [out EXCEPT ![s] = Append(@, TaskA)] /\ UNCHANGED <<in, srv>>
  <2>1. out[s] \in Stream BY WayType
  <2>2. Payload(Append(out[s], TaskA)) = Payload(out[s]) BY <2>1, PayloadTold
  <2>3. out'[s] = Append(out[s], TaskA) /\ \A x \in Side : x # s => out'[x] = out[x]
    BY <1>2 DEF IInv, TypeOK
  <2>4. \A x \in Side : Payload(out'[x]) = Payload(out[x]) BY <2>2, <2>3
  <2>5. \A x \in Side : OnItsWay(x)' = OnItsWay(x)
    BY <1>2, <2>4, NextWay, Sides DEF OnItsWay
  <2>6. UNCHANGED Pipe!pipeVars BY <1>2, <2>5, Stutters DEF Ready, Broken, Gone
  <2> QED BY <2>6
<1> QED BY <1>1, <1>2, TellTells

\* The handshake swallows a front of what is on its way to it.
LEMMA HandshakeIsPipe ==
  ASSUME IInv, NEW s \in Side, HandshakeRead(s)
  PROVE  Pipe!PipeHandshake(s)
<1> DEFINE p == Peer(s)
           pay == Payload(out[s])
           more == IF srv[s] THEN buf[p] \o in[p] ELSE <<>>
<1>1. p \in Side /\ p # s /\ Peer(p) = s BY Sides
<1>2. PICK k \in 1 .. Len(out[s]) : out' = [out EXCEPT ![s] = SubSeq(@, k + 1, Len(@))]
  BY DEF HandshakeRead
<1>3. UNCHANGED <<in, srv, buf, sent, got>> BY DEF HandshakeRead
<1>4. out[s] \in Stream /\ OneTaskA(out[s]) /\ pay \in Seq(Message) BY WayType
<1>5. buf[p] \o in[p] \in Seq(Message) BY <1>1, WayType
<1>6. more \in Seq(Message) BY <1>5
<1> HIDE DEF p
<1>7. out'[s] = SubSeq(out[s], k + 1, Len(out[s])) /\ out'[p] = out[p]
  BY <1>1, <1>2 DEF IInv, TypeOK
<1>8. PICK m \in 0 .. Len(pay) : Payload(out'[s]) = SubSeq(pay, m + 1, Len(pay))
  <2>1. \E m \in 0 .. Len(Payload(out[s])) :
          Payload(SubSeq(out[s], k + 1, Len(out[s])))
            = SubSeq(Payload(out[s]), m + 1, Len(Payload(out[s])))
    BY <1>4, PayloadCut, Zenon
  <2> QED BY <1>7, <2>1
<1>9. OnItsWay(p) = pay \o more BY <1>1 DEF OnItsWay
<1>10. OnItsWay(p)' = Payload(out'[s]) \o more BY <1>1, <1>3, NextWay
<1> HIDE DEF pay, more
<1>11. /\ m \in 0 .. Len(OnItsWay(p))
       /\ OnItsWay(p)' = SubSeq(OnItsWay(p), m + 1, Len(OnItsWay(p)))
  <2>1. /\ m \in 0 .. Len(pay \o more)
        /\ SubSeq(pay \o more, m + 1, Len(pay \o more)) = SubSeq(pay, m + 1, Len(pay)) \o more
    BY <1>4, <1>6, RestOfTwo
  <2> QED BY <1>8, <1>9, <1>10, <2>1, Zenon
<1>12. OnItsWay(s)' = OnItsWay(s)
  <2>1. OnItsWay(s) = Payload(out[p]) \o (IF srv[p] THEN buf[s] \o in[s] ELSE <<>>)
    BY DEF OnItsWay, p
  <2>2. OnItsWay(s)' = Payload(out'[p]) \o (IF srv'[p] THEN buf'[s] \o in'[s] ELSE <<>>)
    BY NextWay DEF p
  <2> QED BY <1>3, <1>7, <2>1, <2>2
<1> DEFINE way == [x \in Side |-> OnItsWay(x)]
           rdy == [x \in Side |-> client[x] \in {"open", "closed"}]
<1>13. way' = [way EXCEPT ![p] = SubSeq(@, m + 1, Len(@))] /\ m \in 0 .. Len(way[p])
  <2>1. way'[p] = SubSeq(way[p], m + 1, Len(way[p])) /\ way'[s] = way[s]
    BY <1>1, <1>11, <1>12
  <2>2. \A x \in Side : x = p \/ x = s BY <1>1, Sides
  <2> QED BY <1>1, <1>11, <2>1, <2>2
<1>14. ~ rdy[s] /\ rdy' \in {rdy, [rdy EXCEPT ![s] = TRUE]}
  <2>1. client[s] = "handshake"
        /\ client' \in {[client EXCEPT ![s] = "open"], [client EXCEPT ![s] = "deaf"]}
    BY DEF HandshakeRead
  <2>2. client \in [Side -> {"handshake", "deaf", "failed", "open", "closed"}] BY DEF IInv, TypeOK
  <2>3. CASE client' = [client EXCEPT ![s] = "open"]
    <3>1. rdy' = [rdy EXCEPT ![s] = TRUE] BY <2>2, <2>3
    <3> QED BY <2>1, <3>1
  <2>4. CASE client' = [client EXCEPT ![s] = "deaf"]
    <3>1. rdy' = rdy BY <2>1, <2>2, <2>4
    <3> QED BY <2>1, <3>1
  <2> QED BY <2>1, <2>3, <2>4
<1>15. Broken' <=> Broken
  <2>1. \A x \in Side : Gone(x)' <=> Gone(x) BY DEF HandshakeRead, Gone, IInv, TypeOK
  <2> QED BY <1>3, <2>1 DEF Broken
<1>16. (\E x \in Side : ~ srv[x] \/ Gone(x))' = (\E x \in Side : ~ srv[x] \/ Gone(x))
  BY <1>15 DEF Broken
<1>17. p = Pipe!Peer(s) BY DEF p, Peer, Pipe!Peer
<1> QED BY <1>3, <1>13, <1>14, <1>16, <1>17 DEF Pipe!PipeHandshake

\* What a client writes goes to the end of its pipe, or nowhere on a broken link.
LEMMA SendIsPipe ==
  ASSUME IInv, NEW s \in Side, Send(s)
  PROVE  Pipe!PipeWrite(s)
<1> DEFINE p == Peer(s)
           n == sent[s] + 1
           way == [x \in Side |-> OnItsWay(x)]
           rdy == [x \in Side |-> client[x] \in {"open", "closed"}]
           brk == \E x \in Side : ~ srv[x] \/ Gone(x)
<1>1. p \in Side /\ p # s /\ Peer(p) = s BY Sides
<1>2. /\ rdy[s] /\ sent[s] < MaxMsgs /\ sent' = [sent EXCEPT ![s] = @ + 1]
      /\ UNCHANGED <<out, srv, buf, client, got>>
  BY DEF Send
<1>3. in' = IF srv[s] THEN [in EXCEPT ![s] = Append(@, n)] ELSE in BY DEF Send
<1>4. n \in Message BY <1>2, RelayAssumption DEF IInv, TypeOK, Message
<1> HIDE DEF p, n
<1>5. in'[p] = in[p] /\ in'[s] = IF srv[s] THEN Append(in[s], n) ELSE in[s]
  BY <1>1, <1>3 DEF IInv, TypeOK
<1>6. \A x \in Side : x = s \/ x = p BY <1>1, Sides
<1>7. OnItsWay(p)' = OnItsWay(p)
  <2>1. OnItsWay(p) = Payload(out[s]) \o (IF srv[s] THEN buf[p] \o in[p] ELSE <<>>)
    BY <1>1 DEF OnItsWay
  <2>2. OnItsWay(p)' = Payload(out'[s]) \o (IF srv'[s] THEN buf'[p] \o in'[p] ELSE <<>>)
    BY <1>1, NextWay
  <2> QED BY <1>2, <1>5, <2>1, <2>2
<1> DEFINE pay == Payload(out[p])
           a == buf[s]
           b == in[s]
<1>8. /\ pay \in Seq(Message) /\ a \in Seq(Message) /\ b \in Seq(Message)
      /\ OnItsWay(s) \in Seq(Message)
  BY <1>1, WayType
<1>9. OnItsWay(s) = pay \o (IF srv[p] THEN a \o b ELSE <<>>) BY DEF OnItsWay, p
<1>10. OnItsWay(s)' = Payload(out'[p]) \o (IF srv'[p] THEN buf'[s] \o in'[s] ELSE <<>>)
  BY NextWay DEF p
<1>11. CASE srv[s] /\ srv[p]
  <2>1. OnItsWay(s)' = pay \o (a \o Append(b, n)) BY <1>2, <1>5, <1>10, <1>11
  <2>2. OnItsWay(s) = pay \o (a \o b) BY <1>9, <1>11
  <2> HIDE DEF pay, a, b
  <2>3. a \o b \in Seq(Message) /\ <<n>> \in Seq(Message) BY <1>4, <1>8, ConcatProperties
  <2>4. Append(b, n) = b \o <<n>> BY <1>4, <1>8, AppendIsConcat
  <2>5. a \o (b \o <<n>>) = (a \o b) \o <<n>> BY <1>8, <2>3, ConcatAssociative
  <2>6. pay \o ((a \o b) \o <<n>>) = (pay \o (a \o b)) \o <<n>> BY <1>8, <2>3, ConcatAssociative
  <2>7. Append(OnItsWay(s), n) = OnItsWay(s) \o <<n>> BY <1>4, <1>8, AppendIsConcat
  <2>8. OnItsWay(s)' = Append(OnItsWay(s), n) BY <2>1, <2>2, <2>4, <2>5, <2>6, <2>7, Zenon
  <2>9. way' = [way EXCEPT ![s] = Append(@, n)] BY <1>6, <1>7, <2>8
  <2> QED BY <1>2, <2>9 DEF Pipe!PipeWrite, n, Gone
<1>12. CASE ~ (srv[s] /\ srv[p])
  <2>1. OnItsWay(s)' = OnItsWay(s)
    <3>1. CASE srv[p] BY <1>2, <1>5, <1>9, <1>10, <1>12, <3>1
    <3>2. CASE ~ srv[p] BY <1>2, <1>9, <1>10, <3>2
    <3> QED BY <3>1, <3>2
  <2>2. way' = way BY <1>6, <1>7, <2>1
  <2>3. brk BY <1>1, <1>12
  <2> QED BY <1>2, <2>2, <2>3 DEF Pipe!PipeWrite, Gone
<1> QED BY <1>11, <1>12

\* What a client reads comes from the front of the pipe to it.
LEMMA ReceiveIsPipe ==
  ASSUME IInv, NEW s \in Side, Receive(s)
  PROVE  Pipe!PipeRead(s)
<1> DEFINE p == Peer(s)
           q == out[s]
           more == IF srv[s] THEN buf[p] \o in[p] ELSE <<>>
           way == [x \in Side |-> OnItsWay(x)]
           rdy == [x \in Side |-> client[x] \in {"open", "closed"}]
<1>1. p \in Side /\ p # s /\ Peer(p) = s /\ p = Pipe!Peer(s) BY Sides DEF Peer, Pipe!Peer
<1>2. /\ rdy[s] /\ Ready(s) /\ q # <<>> /\ got' = [got EXCEPT ![s] = Append(@, Head(q))]
      /\ out' = [out EXCEPT ![s] = Tail(@)] /\ UNCHANGED <<in, srv, buf, client, sent>>
  BY DEF Receive, Ready
<1>3. /\ q \in Stream /\ Payload(q) \in Seq(Message) /\ OneTaskA(q)
      /\ buf[p] \o in[p] \in Seq(Message)
  BY <1>1, WayType
<1>4. more \in Seq(Message) BY <1>3
<1>5. TaskA \notin Items(q) BY <1>2 DEF IInv, Told
<1>6. Payload(q) = q /\ q \in Seq(Message) BY <1>3, <1>5, PayloadPlain
<1>7. Payload(Tail(q)) = Tail(q)
  <2>1. Tail(q) = SubSeq(q, 1 + 1, Len(q)) /\ 1 \in 1 .. Len(q)
    BY <1>2, <1>6, TailIsSubSeq, LenProperties, EmptySeq
  <2>2. Items(SubSeq(q, 1 + 1, Len(q))) \subseteq Items(q) BY <1>3, <2>1, PayloadCut
  <2>3. TaskA \notin Items(Tail(q)) BY <1>5, <2>1, <2>2
  <2> QED BY <2>3, PayloadPlain
<1> HIDE DEF p
<1>8. out'[s] = Tail(q) /\ out'[p] = out[p] BY <1>1, <1>2 DEF IInv, TypeOK
<1>9. OnItsWay(p) = q \o more BY <1>1, <1>6 DEF OnItsWay
<1>10. OnItsWay(p)' = Payload(out'[s]) \o (IF srv'[s] THEN buf'[p] \o in'[p] ELSE <<>>)
  BY <1>1, NextWay
<1>11. OnItsWay(p)' = Tail(q) \o more BY <1>2, <1>7, <1>8, <1>10
<1>12. OnItsWay(s)' = OnItsWay(s)
  <2>1. OnItsWay(s) = Payload(out[p]) \o (IF srv[p] THEN buf[s] \o in[s] ELSE <<>>)
    BY DEF OnItsWay, p
  <2>2. OnItsWay(s)' = Payload(out'[p]) \o (IF srv'[p] THEN buf'[s] \o in'[s] ELSE <<>>)
    BY NextWay DEF p
  <2> QED BY <1>2, <1>8, <2>1, <2>2
<1> HIDE DEF q, more
<1>13. /\ OnItsWay(p) # <<>> /\ Head(OnItsWay(p)) = Head(q)
       /\ OnItsWay(p)' = Tail(OnItsWay(p))
  <2>1. q \o more # <<>> /\ Head(q \o more) = Head(q) /\ Tail(q \o more) = Tail(q) \o more
    BY <1>2, <1>4, <1>6, HeadOfTwo
  <2> QED BY <1>9, <1>11, <2>1, Zenon
<1>14. way' = [way EXCEPT ![p] = Tail(@)] /\ way[p] = OnItsWay(p)
  <2>1. \A x \in Side : x = p \/ x = s BY <1>1, Sides
  <2> QED BY <1>1, <1>12, <1>13, <2>1
<1> QED BY <1>1, <1>2, <1>13, <1>14 DEF Pipe!PipeRead, Gone

\* Every step of the relay is a step of the pipes, or none.
LEMMA StepIsPipe ==
  ASSUME IInv, [Next]_vars
  PROVE  Pipe!PipeNext \/ UNCHANGED Pipe!pipeVars
<1> USE DEF server, clients
<1> DEFINE Goal == Pipe!PipeNext \/ UNCHANGED Pipe!pipeVars
<1>0. \A s \in Side : s \in Pipe!Side BY DEF Side, Pipe!Side
<1>1. ASSUME Pipe!PipeBreak PROVE Goal BY <1>1 DEF Pipe!PipeNext
\* Nothing moves on its way.
<1>2. ASSUME UNCHANGED <<in, out, srv, buf, sent, got>>,
             \A s \in Side : (Ready(s)' <=> Ready(s)) /\ (Gone(s)' <=> Gone(s))
      PROVE  Goal
  <2>1. \A s \in Side : OnItsWay(s)' = OnItsWay(s) BY <1>2, NextWay DEF OnItsWay
  <2> QED BY <1>2, <2>1, Stutters DEF Broken
<1>3. CASE SwitchFirst \/ BoxFirst \/ LinkSecond
  BY <1>2, <1>3 DEF SwitchFirst, BoxFirst, LinkSecond, Ready, Gone
<1>4. CASE TellFirst
  <2>1. Untold(1) BY <1>4 DEF TellFirst, Untold
  <2>2. ~ Ready(1) /\ TaskA \notin Items(out[1]) BY <2>1, Sides DEF IInv, Told
  <2> QED BY <1>1, <1>4, <2>2, Sides, TellIsPipe DEF TellFirst
<1>5. CASE TellSecond
  <2>1. Untold(2) BY <1>5 DEF TellSecond, Untold
  <2>2. ~ Ready(2) /\ TaskA \notin Items(out[2]) BY <2>1, Sides DEF IInv, Told
  <2> QED BY <1>1, <1>5, <2>2, Sides, TellIsPipe DEF TellSecond
<1>6. ASSUME NEW s \in Side, Loop(s) PROVE Goal
  BY <1>2, <1>6 DEF Loop, Ready, Gone
<1>7. ASSUME NEW s \in Side, NilBox(s) PROVE Goal
  <2>1. Cut /\ \A x \in Side : ~ srv'[x] /\ buf'[x] = <<>>
    BY <1>7, ShutCuts DEF NilBox
  <2>2. UNCHANGED <<client, sent, got>> BY <1>7 DEF NilBox
  <2> QED BY <1>1, <2>1, <2>2, CutBreaks
<1>8. ASSUME NEW s \in Side, Close(s), UNCHANGED <<buf, client, sent, got>> PROVE Goal
  <2>1. Cut /\ ~ srv'[s] BY <1>8, CloseCuts
  <2> QED BY <1>1, <1>8, <2>1, CutBreaks
<1>9. ASSUME NEW s \in Side, Peek(s) PROVE Goal
  <2>1. Close(s) \/ UNCHANGED <<in, out, srv>> BY <1>9 DEF Peek
  <2>2. UNCHANGED <<buf, client, sent, got>> BY <1>9 DEF Peek
  <2> QED BY <1>2, <1>8, <2>1, <2>2 DEF Ready, Gone
<1>10. ASSUME NEW s \in Side, ReadEnds(s) PROVE Goal
  BY <1>8, <1>10 DEF ReadEnds
<1>11. ASSUME NEW s \in Side, WriteLinkFails(s) PROVE Goal
  <2>1. Cut /\ ~ srv'[s] BY <1>11, CloseCuts DEF WriteLinkFails
  <2>2. buf'[s] = <<>> /\ \A x \in Side : x # s => buf'[x] = buf[x]
    BY <1>11 DEF WriteLinkFails, IInv, TypeOK
  <2>3. UNCHANGED <<client, sent, got>> BY <1>11 DEF WriteLinkFails
  <2> QED BY <1>1, <2>1, <2>2, <2>3, CutBreaks
<1>12. ASSUME NEW s \in Side, ReadLink(s) \/ WriteLink(s) PROVE Goal
  BY <1>12, ReadStutters, WriteStutters
<1>13. ASSUME NEW s \in Side, HandshakeRead(s) PROVE Goal
  BY <1>0, <1>13, HandshakeIsPipe DEF Pipe!PipeNext
<1>14. ASSUME NEW s \in Side, HandshakeEnds(s) PROVE Goal
  BY <1>2, <1>14 DEF HandshakeEnds, Ready, Gone, IInv, TypeOK
<1>15. ASSUME NEW s \in Side, Timeout(s) PROVE Goal
  <2>1. UNCHANGED <<in, out, srv, buf, sent, got>> BY <1>15 DEF Timeout
  <2>2. \A x \in Side : Ready(x)' <=> Ready(x) BY <1>15 DEF Timeout, Ready, IInv, TypeOK
  <2>3. Broken' BY <1>15 DEF Timeout, Broken, Gone, IInv, TypeOK
  <2>4. \A x \in Side : OnItsWay(x)' = OnItsWay(x) BY <2>1, NextWay DEF OnItsWay
  <2>5. \A x \in Side : IsFront(OnItsWay(x)', OnItsWay(x)) BY <2>4, WayType, FrontEnds
  <2> QED BY <1>1, <2>1, <2>2, <2>3, <2>5, Breaks
<1>16. ASSUME NEW s \in Side, Send(s) PROVE Goal
  BY <1>0, <1>16, SendIsPipe DEF Pipe!PipeNext
<1>17. ASSUME NEW s \in Side, Receive(s) PROVE Goal
  BY <1>0, <1>17, ReceiveIsPipe DEF Pipe!PipeNext
<1>18. ASSUME NEW s \in Side, Hangup(s) PROVE Goal
  <2>1. UNCHANGED <<out, srv, buf, sent, got>> BY <1>18 DEF Hangup
  <2>2. \A x \in Side : Ready(x)' <=> Ready(x) BY <1>18 DEF Hangup, Ready, IInv, TypeOK
  <2>3. Broken' BY <1>18 DEF Hangup, Broken, Gone, IInv, TypeOK
  <2>4. ASSUME NEW x \in Side PROVE IsFront(OnItsWay(x)', OnItsWay(x))
    <3> DEFINE p == Peer(x)
               pay == Payload(out[p])
               rest == buf[x] \o in[x]
    <3>1. in'[x] \in {in[x], <<>>}
      <4>1. in' = in \/ in' = [in EXCEPT ![s] = <<>>] BY <1>18 DEF Hangup
      <4> QED BY <4>1 DEF IInv, TypeOK
    <3>2. /\ pay \in Seq(Message) /\ rest \in Seq(Message) /\ OnItsWay(x) \in Seq(Message)
          /\ buf[x] \in Seq(Message) /\ in[x] \in Seq(Message)
      BY Sides, WayType
    <3>3. OnItsWay(x) = pay \o (IF srv[p] THEN rest ELSE <<>>) BY DEF OnItsWay
    <3>4. OnItsWay(x)' = pay \o (IF srv[p] THEN buf[x] \o in'[x] ELSE <<>>)
      BY <2>1, NextWay
    <3> HIDE DEF pay, p
    <3>5. CASE ~ srv[p] \/ in'[x] = in[x]
      <4>1. OnItsWay(x)' = OnItsWay(x) BY <3>3, <3>4, <3>5
      <4> QED BY <3>2, <4>1, FrontEnds
    <3>6. CASE srv[p] /\ in'[x] = <<>>
      <4>1. buf[x] \o <<>> = buf[x] BY <3>2, ConcatEmptySeq
      <4>2. OnItsWay(x)' = pay \o buf[x] /\ OnItsWay(x) = pay \o rest
        BY <3>3, <3>4, <3>6, <4>1
      <4>3. IsFront(buf[x], rest) BY <3>2, FrontFirst
      <4> HIDE DEF rest
      <4>4. IsFront(pay \o buf[x], pay \o rest) BY <3>2, <4>3, FrontBehind
      <4> QED BY <4>2, <4>4
    <3> QED BY <3>1, <3>5, <3>6
  <2> QED BY <1>1, <2>1, <2>2, <2>3, <2>4, Breaks
<1>19. CASE UNCHANGED vars BY <1>2, <1>19 DEF vars, Ready, Gone
<1> QED
  BY <1>3, <1>4, <1>5, <1>6, <1>7, <1>9, <1>10, <1>11, <1>12, <1>13, <1>14, <1>15, <1>16, <1>17,
     <1>18, <1>19, Steps DEF Join

\* Two linked subs are two pipes: the relay reorders, duplicates and invents
\* nothing, and loses only in a handshake or when the link breaks.
THEOREM RelayImplementsPipe == Spec => RelayIsPipe
<1>1. Init => Pipe!PipeInit
  <2> SUFFICES ASSUME Init PROVE Pipe!PipeInit OBVIOUS
  <2>1. Payload(<<>>) = <<>> BY DEF Payload, Items
  <2>2. <<>> \o <<>> = <<>> OBVIOUS
  <2>3. ASSUME NEW s \in Side PROVE OnItsWay(s) = <<>>
    <3>1. out[Peer(s)] = <<>> /\ buf[s] = <<>> /\ in[s] = <<>> BY Sides DEF Init
    <3> QED BY <2>1, <2>2, <3>1 DEF OnItsWay
  <2>4. \A s \in Side : client[s] = "handshake" /\ srv[s] /\ ~ Gone(s) BY DEF Init, Gone
  <2>5. [s \in Side |-> client[s] \in {"open", "closed"}] = [s \in Side |-> FALSE]
    <3>1. ASSUME NEW s \in Side PROVE (client[s] \in {"open", "closed"}) = FALSE BY <2>4
    <3> QED BY <3>1, Zenon
  <2>6. (\E s \in Side : ~ srv[s] \/ Gone(s)) = FALSE BY <2>4
  <2> QED BY <2>3, <2>5, <2>6 DEF Pipe!PipeInit, Pipe!Side, Init, Side
<1>2. IInv /\ [Next]_vars => [Pipe!PipeNext]_(Pipe!pipeVars) BY StepIsPipe
<1> QED BY Invariant, <1>1, <1>2, PTL DEF Spec, RelayIsPipe, Pipe!PipeSpec
=============================================================================

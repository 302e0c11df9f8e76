----------------------------- MODULE ConnProofs -----------------------------
(***************************************************************************)
(* What lies below every connection: its messages (CMsgStream) and its     *)
(* byte counters (SpeedTicker, at the end).                                *)
(*                                                                         *)
(* The messages: for any goroutines, any lengths of messages and any sizes *)
(* of buffer and header, and for the readers that go on with their buffer  *)
(* (GoOn is TRUE): ReadCMsg, and ReadCMsgCb as long as fn returns no error.*)
(* The types (StreamTypesOK) need no such hypothesis.                      *)
(*                                                                         *)
(* A message is handed on when the packet numbered 0 is read, so the       *)
(* invariant keeps the place of the end of every message that has been     *)
(* written and not yet handed on, whether its packets are on the           *)
(* connection, in the bufio.Reader or put together already: the ends are   *)
(* in the order of sent, and no other packet closes a message, a torn one  *)
(* neither.  That is all Intact needs, for what is decoded is one message. *)
(* That a message can be decoded (GarbledOnlyAfterFailure) needs more:     *)
(* until a write fails there is nothing between two ends but the packets   *)
(* of one message, and behind the last end what has gone out of the one    *)
(* being written; and it needs the arithmetic of encode, that a message is *)
(* cut into packets none of which is empty or larger than the buffer.      *)
(***************************************************************************)
EXTENDS CMsgStream, SpeedTicker, TLAPS, SequenceTheorems, WellFoundedInduction

\* Division rounded up: the last piece is neither empty nor too long.
LEMMA DivUp ==
  ASSUME NEW n \in Nat \ {0}, NEW d \in Nat \ {0}
  PROVE  LET l == (n + d - 1) \div d
         IN  l \in Nat \ {0} /\ (l - 1) * d < n /\ n <= l * d
<1> DEFINE l == (n + d - 1) \div d
           r == (n + d - 1) % d
<1>1. n + d - 1 = d * l + r /\ r \in 0 .. d - 1 /\ l \in Int
  OBVIOUS
<1> HIDE DEF l, r
<1>2. l * d = d * l /\ (l - 1) * d = d * l - d BY <1>1
<1>3. l >= 1
  <2>1. ASSUME l <= 0 PROVE d * l <= 0 BY <1>1, <2>1
  <2> QED BY <1>1, <2>1
<1> QED BY <1>1, <1>2, <1>3 DEF l

\* What WriteCMsg writes and ReadCPacket reads.
Packet == [msg : Messages, num : Nat, whole : BOOLEAN, len : Nat]

\* What encode makes of a message: its packets, numbered down to 0, each of
\* which the reader accepts.
LEMMA PacketsOf ==
  ASSUME NEW m \in Messages
  PROVE  /\ Packets(m) \in Seq(Packet) /\ Len(Packets(m)) \in Nat \ {0}
         /\ \A i \in 1 .. Len(Packets(m)) :
              /\ Packets(m)[i].msg = m /\ Packets(m)[i].num = Len(Packets(m)) - i
              /\ Packets(m)[i].whole /\ Accepted(Packets(m)[i])
<1> DEFINE n == m.len
           d == Buffer - Header
           l == Pieces(n)
           p(i) == [msg |-> m, num |-> l - i, whole |-> TRUE,
                    len |-> IF n <= i * d THEN n - (i - 1) * d ELSE d]
<1>1. n \in Nat \ {0} /\ d \in Nat \ {0} /\ Buffer \in Nat /\ Header \in Nat
  <2>1. m.len \in Lengths BY DEF Messages
  <2>2. m.len \in Nat \ {0} BY <2>1, LengthsAssumption
  <2> QED BY <2>2, SizeAssumption
<1>2. l = (n + d - 1) \div d BY DEF Pieces
<1>3. Packets(m) = [i \in 1 .. l |-> p(i)] BY DEF Packets
<1> HIDE DEF l
<1>4. l \in Nat \ {0} /\ (l - 1) * d < n /\ n <= l * d BY <1>1, <1>2, DivUp
<1>5. ASSUME NEW i \in 1 .. l
      PROVE  p(i) \in Packet /\ p(i).len > 0 /\ p(i).len <= d
  <2> HIDE DEF n, d
  <2>1. CASE i = l
    <3>1. (l - 1) * d \in Nat /\ l * d = (l - 1) * d + d BY <1>1, <1>4
    <3>2. n - (l - 1) * d \in Nat /\ n - (l - 1) * d > 0 /\ n - (l - 1) * d <= d BY <1>1, <1>4, <3>1
    <3> QED BY <1>1, <1>4, <2>1, <3>2 DEF Packet
  <2>2. CASE i < l
    <3>1. i \in Nat /\ l - 1 - i \in Nat BY <1>4, <2>2
    <3>2. (l - 1) * d = i * d + (l - 1 - i) * d /\ (l - 1 - i) * d \in Nat /\ i * d \in Nat
      BY <1>1, <1>4, <3>1
    <3>3. i * d < n BY <1>1, <1>4, <3>1, <3>2
    <3> QED BY <1>1, <1>4, <2>2, <3>2, <3>3 DEF Packet
  <2> QED BY <1>4, <2>1, <2>2
<1>6. Packets(m) \in Seq(Packet) /\ Len(Packets(m)) = l /\ \A i \in 1 .. l : Packets(m)[i] = p(i)
  BY <1>3, <1>4, <1>5
<1>7. ASSUME NEW i \in 1 .. l PROVE Accepted(p(i))
  <2>1. p(i).whole BY DEF p
  <2>2. p(i).len \in Nat /\ p(i).len > 0 /\ p(i).len <= d BY <1>5 DEF Packet
  <2> HIDE DEF p
  <2>3. Header + p(i).len <= Buffer BY <1>1, <2>2
  <2> QED BY <2>1, <2>2, <2>3 DEF Accepted
<1> QED BY <1>4, <1>6, <1>7

-----------------------------------------------------------------------------
\* Everything that has been written and not yet been put together.
Flight == parts \o (buffered \o stream)

\* The packet the reader waits for: it makes a message.
Closes(p) == p.whole /\ p.num = 0

\* G is what is left of F without its first c.
Behind(G, F, c) ==
  /\ c \in 0 .. Len(F) /\ Len(G) = Len(F) - c
  /\ \A j \in 1 .. Len(G) : G[j] = F[c + j]

\* The packets F hold the ends of the messages of s behind the r-th, and no
\* other end; at[i] is the place of the end of s[i].
Framed(F, r, s, at) ==
  /\ at \in [r .. Len(s) -> 0 .. Len(F)] /\ at[r] = 0
  /\ \A i, j \in r .. Len(s) : i < j => at[i] < at[j]
  /\ \A i \in r + 1 .. Len(s) : Closes(F[at[i]]) /\ F[at[i]].msg = s[i]
  /\ \A x \in 1 .. Len(F) : Closes(F[x]) => \E i \in r + 1 .. Len(s) : at[i] = x

\* Between two ends are the packets of one message.
Joined(F, r, s, at) ==
  \A i \in r + 1 .. Len(s) :
    /\ at[i] = at[i - 1] + Len(Packets(s[i]))
    /\ \A j \in 1 .. Len(Packets(s[i])) : F[at[i - 1] + j] = Packets(s[i])[j]

\* Behind the last end is what has gone out of the message being written.
Begun(F, s, rem, at) ==
  /\ (\A w \in Writers : rem[w] = <<>>) => Len(F) = at[Len(s)]
  /\ \A w \in Writers : rem[w] # <<>> =>
       \E m \in Messages : \E k \in 0 .. Len(Packets(m)) - 1 :
         /\ Behind(rem[w], Packets(m), k) /\ Len(F) = at[Len(s)] + k
         /\ \A j \in 1 .. k : F[at[Len(s)] + j] = Packets(m)[j]

-----------------------------------------------------------------------------
\* A packet that makes no message changes no end.
LEMMA AppendPlain ==
  ASSUME NEW F \in Seq(Packet), NEW s \in Seq(Messages), NEW r \in 0 .. Len(s), NEW at,
         Framed(F, r, s, at), NEW x \in Packet, ~ Closes(x)
  PROVE  /\ Framed(Append(F, x), r, s, at)
         /\ Joined(F, r, s, at) => Joined(Append(F, x), r, s, at)
<1> DEFINE G == Append(F, x)
<1>1. /\ Len(F) \in Nat /\ Len(s) \in Nat /\ Len(G) = Len(F) + 1 /\ G[Len(F) + 1] = x
      /\ \A j \in 1 .. Len(F) : G[j] = F[j]
  BY LenProperties, AppendProperties
<1> HIDE DEF G
<1>2. at \in [r .. Len(s) -> 0 .. Len(F)] /\ at[r] = 0 /\ \A i, j \in r .. Len(s) : i < j => at[i] < at[j]
  BY DEF Framed
<1>3. at \in [r .. Len(s) -> 0 .. Len(G)] BY <1>1, <1>2
<1>4. ASSUME NEW i \in r + 1 .. Len(s)
      PROVE  at[i] \in 1 .. Len(F) /\ i - 1 \in r .. Len(s) /\ at[i - 1] \in Nat /\ at[i - 1] < at[i]
  <2> DEFINE a == at[i - 1]
             b == at[i]
  <2>1. i \in r .. Len(s) /\ i - 1 \in r .. Len(s) /\ i - 1 < i BY <1>1
  <2>2. a \in 0 .. Len(F) /\ b \in 0 .. Len(F) BY <1>2, <2>1
  <2>3. a < b BY <1>2, <2>1
  <2> HIDE DEF a, b
  <2>4. b \in 1 .. Len(F) /\ a \in Nat BY <1>1, <2>2, <2>3
  <2> QED BY <2>1, <2>3, <2>4 DEF a, b
<1>5. \A i \in r + 1 .. Len(s) : Closes(G[at[i]]) /\ G[at[i]].msg = s[i]
  BY <1>1, <1>4 DEF Framed
<1>6. ASSUME NEW y \in 1 .. Len(G), Closes(G[y]) PROVE \E i \in r + 1 .. Len(s) : at[i] = y
  <2>1. y \in 1 .. Len(F) BY <1>1, <1>6
  <2> QED BY <1>1, <1>6, <2>1 DEF Framed
<1>7. Framed(G, r, s, at) BY <1>2, <1>3, <1>5, <1>6 DEF Framed
<1>8. ASSUME Joined(F, r, s, at) PROVE Joined(G, r, s, at)
  <2> SUFFICES ASSUME NEW i \in r + 1 .. Len(s), NEW j \in 1 .. Len(Packets(s[i]))
               PROVE  G[at[i - 1] + j] = Packets(s[i])[j]
    BY <1>8 DEF Joined
  <2>1. at[i] = at[i - 1] + Len(Packets(s[i])) /\ F[at[i - 1] + j] = Packets(s[i])[j]
    BY <1>8 DEF Joined
  <2>2. Len(Packets(s[i])) \in Nat BY <1>1, ElementOfSeq, PacketsOf
  <2> DEFINE l == Len(Packets(s[i]))
             a == at[i - 1]
             b == at[i]
  <2>4. l \in Nat /\ j \in 1 .. l /\ a \in Nat /\ b \in 1 .. Len(F) /\ b = a + l
    BY <1>4, <2>1, <2>2
  <2> HIDE DEF l, a, b
  <2>5. a + j \in 1 .. Len(F) BY <1>1, <2>4
  <2>3. at[i - 1] + j \in 1 .. Len(F) BY <2>5 DEF a
  <2> QED BY <1>1, <2>1, <2>3
<1> QED BY <1>7, <1>8 DEF G

\* The packet that makes a message is its end.
LEMMA AppendLast ==
  ASSUME NEW F \in Seq(Packet), NEW s \in Seq(Messages), NEW r \in 0 .. Len(s), NEW at,
         Framed(F, r, s, at), NEW x \in Packet, Closes(x)
  PROVE  \E on : /\ Framed(Append(F, x), r, Append(s, x.msg), on)
                 /\ on[Len(s) + 1] = Len(F) + 1
                 /\ \A k :
                      /\ Joined(F, r, s, at) /\ k = Len(Packets(x.msg)) - 1
                      /\ Len(F) = at[Len(s)] + k /\ x = Packets(x.msg)[k + 1]
                      /\ \A j \in 1 .. k : F[at[Len(s)] + j] = Packets(x.msg)[j]
                      => Joined(Append(F, x), r, Append(s, x.msg), on)
<1> DEFINE G == Append(F, x)
           m == x.msg
           u == Append(s, m)
           n == Len(s)
           on == [i \in r .. n + 1 |-> IF i <= n THEN at[i] ELSE Len(F) + 1]
<1>0. m \in Messages BY DEF Packet
<1>1. /\ Len(F) \in Nat /\ Len(G) = Len(F) + 1 /\ G[Len(F) + 1] = x
      /\ \A j \in 1 .. Len(F) : G[j] = F[j]
  BY LenProperties, AppendProperties
<1>2. n \in Nat /\ Len(u) = n + 1 /\ u[n + 1] = m /\ \A j \in 1 .. n : u[j] = s[j]
  BY <1>0, LenProperties, AppendProperties
<1>3. at \in [r .. n -> 0 .. Len(F)] /\ at[r] = 0 /\ \A i, j \in r .. n : i < j => at[i] < at[j]
  BY DEF Framed
<1>4. ASSUME NEW i \in r + 1 .. n
      PROVE  at[i] \in 1 .. Len(F) /\ i - 1 \in r .. n /\ at[i - 1] \in Nat /\ at[i - 1] < at[i]
  <2> HIDE DEF n, u
  <2>1. n \in Nat /\ r \in Nat BY <1>2 DEF n
  <2>2. i \in r .. n /\ i - 1 \in r .. n /\ i - 1 < i BY <2>1
  <2> QED BY <1>3, <2>2
<1>5. /\ on \in [r .. n + 1 -> 0 .. Len(F) + 1] /\ on[n + 1] = Len(F) + 1
      /\ \A i \in r .. n : on[i] = at[i]
  BY <1>1, <1>2, <1>3
<1> HIDE DEF G, u, on, n
<1>6. on \in [r .. Len(u) -> 0 .. Len(G)] /\ on[r] = 0 BY <1>1, <1>2, <1>3, <1>5 DEF n
<1>7. ASSUME NEW i \in r .. Len(u), NEW j \in r .. Len(u), i < j PROVE on[i] < on[j]
  <2>1. i \in r .. n BY <1>2, <1>7
  <2>2. on[i] = at[i] /\ at[i] \in 0 .. Len(F) BY <1>3, <1>5, <2>1
  <2>3. CASE j = n + 1 BY <1>1, <1>5, <2>2, <2>3
  <2>4. CASE j # n + 1
    <3>1. j \in r .. n BY <1>2, <2>4
    <3> QED BY <1>3, <1>5, <1>7, <2>1, <2>2, <3>1
  <2> QED BY <2>3, <2>4
<1>8. ASSUME NEW i \in r + 1 .. Len(u) PROVE Closes(G[on[i]]) /\ G[on[i]].msg = u[i]
  <2>1. CASE i = n + 1 BY <1>1, <1>2, <1>5, <2>1
  <2>2. CASE i # n + 1
    <3>1. i \in r + 1 .. n /\ i \in r .. n /\ i \in 1 .. n BY <1>2, <2>2 DEF n
    <3>2. on[i] = at[i] /\ at[i] \in 1 .. Len(F) /\ u[i] = s[i] BY <1>2, <1>4, <1>5, <3>1
    <3>3. Closes(F[at[i]]) /\ F[at[i]].msg = s[i] BY <3>1 DEF Framed, n
    <3> QED BY <1>1, <3>2, <3>3
  <2> QED BY <2>1, <2>2
<1>9. ASSUME NEW y \in 1 .. Len(G), Closes(G[y]) PROVE \E i \in r + 1 .. Len(u) : on[i] = y
  <2>1. CASE y = Len(F) + 1
    <3>1. n + 1 \in r + 1 .. Len(u) BY <1>2 DEF n
    <3> QED BY <1>5, <2>1, <3>1
  <2>2. CASE y # Len(F) + 1
    <3>1. y \in 1 .. Len(F) BY <1>1, <2>2
    <3>2. PICK i \in r + 1 .. n : at[i] = y BY <1>1, <1>9, <3>1 DEF Framed, n
    <3>3. i \in r + 1 .. Len(u) /\ i \in r .. n BY <1>2 DEF n
    <3>4. on[i] = at[i] BY <1>5, <3>3
    <3> QED BY <3>2, <3>3, <3>4
  <2> QED BY <2>1, <2>2
<1>10. Framed(G, r, u, on) BY <1>6, <1>7, <1>8, <1>9 DEF Framed
<1>11. ASSUME NEW k, Joined(F, r, s, at), k = Len(Packets(m)) - 1, Len(F) = at[n] + k,
              x = Packets(m)[k + 1], \A j \in 1 .. k : F[at[n] + j] = Packets(m)[j]
       PROVE  Joined(G, r, u, on)
  <2>0. n \in r .. n /\ at[n] \in Nat /\ on[n] = at[n] /\ Len(Packets(m)) \in Nat \ {0}
    BY <1>0, <1>2, <1>3, <1>5, PacketsOf DEF n
  <2> SUFFICES ASSUME NEW i \in r + 1 .. Len(u)
               PROVE  /\ on[i] = on[i - 1] + Len(Packets(u[i]))
                      /\ \A j \in 1 .. Len(Packets(u[i])) : G[on[i - 1] + j] = Packets(u[i])[j]
    BY DEF Joined
  <2>1. CASE i = n + 1
    <3>1. i - 1 = n /\ u[i] = m /\ on[i] = Len(F) + 1 BY <1>2, <1>5, <2>1
    <3>2. on[i] = on[i - 1] + Len(Packets(m))
      <4> DEFINE l == Len(Packets(m))
                 a == at[n]
      <4>1. l \in Nat \ {0} /\ a \in Nat /\ k = l - 1 /\ Len(F) = a + k BY <1>11, <2>0
      <4>2. on[i] = Len(F) + 1 /\ on[i - 1] = a BY <2>0, <3>1
      <4> HIDE DEF l, a
      <4>3. Len(F) + 1 = a + l BY <4>1
      <4> QED BY <4>2, <4>3, Zenon DEF l
    <3>3. ASSUME NEW j \in 1 .. Len(Packets(m)) PROVE G[on[i - 1] + j] = Packets(m)[j]
      <4>1. CASE j = k + 1
        <5>1. at[n] + j = Len(F) + 1 BY <1>1, <1>11, <2>0, <4>1
        <5> QED BY <1>1, <1>11, <2>0, <3>1, <4>1, <5>1
      <4>2. CASE j # k + 1
        <5> DEFINE l == Len(Packets(m))
                   a == at[n]
        <5>2. l \in Nat \ {0} /\ a \in Nat BY <2>0
        <5>3. k = l - 1 /\ j \in 1 .. l /\ Len(F) = a + k BY <1>11
        <5> HIDE DEF l, a
        <5>4. k \in Nat /\ j \in 1 .. k BY <4>2, <5>2, <5>3
        <5>5. a + j \in 1 .. Len(F) BY <1>1, <5>2, <5>3, <5>4
        <5>1. j \in 1 .. k /\ at[n] + j \in 1 .. Len(F) BY <5>4, <5>5 DEF a
        <5> QED BY <1>1, <1>11, <2>0, <3>1, <5>1
      <4> QED BY <4>1, <4>2
    <3> QED BY <3>1, <3>2, <3>3
  <2>2. CASE i # n + 1
    <3>1. i \in r + 1 .. n /\ i \in 1 .. n BY <1>2, <2>2
    <3>2. i \in r .. n /\ i - 1 \in r .. n BY <1>2, <3>1
    <3>3. on[i] = at[i] /\ on[i - 1] = at[i - 1] /\ u[i] = s[i] BY <1>2, <1>5, <3>1, <3>2
    <3>4. at[i] = at[i - 1] + Len(Packets(s[i]))
          /\ \A j \in 1 .. Len(Packets(s[i])) : F[at[i - 1] + j] = Packets(s[i])[j]
      BY <1>11, <3>1 DEF Joined, n
    <3>5. at[i] \in 1 .. Len(F) /\ at[i - 1] \in Nat BY <1>4, <3>1
    <3>6. Len(Packets(s[i])) \in Nat
      <4>1. s[i] \in Messages BY <3>1, ElementOfSeq DEF n
      <4> QED BY <4>1, PacketsOf
    <3>7. ASSUME NEW j \in 1 .. Len(Packets(s[i])) PROVE G[at[i - 1] + j] = Packets(s[i])[j]
      <4> DEFINE l == Len(Packets(s[i]))
                 a == at[i - 1]
                 b == at[i]
      <4>2. l \in Nat /\ j \in 1 .. l /\ a \in Nat /\ b \in 1 .. Len(F) /\ b = a + l
        BY <3>4, <3>5, <3>6
      <4> HIDE DEF l, a, b
      <4>3. a + j \in 1 .. Len(F) BY <1>1, <4>2
      <4>1. at[i - 1] + j \in 1 .. Len(F) BY <4>3 DEF a
      <4> QED BY <1>1, <3>4, <4>1
    <3> QED BY <3>3, <3>4, <3>7
  <2> QED BY <2>1, <2>2
<1>12. /\ Framed(G, r, u, on) /\ on[n + 1] = Len(F) + 1
       /\ \A k :
            /\ Joined(F, r, s, at) /\ k = Len(Packets(m)) - 1
            /\ Len(F) = at[n] + k /\ x = Packets(m)[k + 1]
            /\ \A j \in 1 .. k : F[at[n] + j] = Packets(m)[j]
            => Joined(G, r, u, on)
  BY <1>5, <1>10, <1>11
<1> QED BY <1>12, Zenon DEF G, u, n

\* The part of a sequence from a place on is what is left of it there.
LEMMA RestOf ==
  ASSUME NEW S, NEW q \in Seq(S), NEW k \in 0 .. Len(q)
  PROVE  SubSeq(q, k + 1, Len(q)) \in Seq(S) /\ Behind(SubSeq(q, k + 1, Len(q)), q, k)
<1> DEFINE r == SubSeq(q, k + 1, Len(q))
<1>1. Len(q) \in Nat /\ \A j \in k + 1 .. Len(q) : q[j] \in S
  BY LenProperties, ElementOfSeq
<1>2. /\ r \in Seq(S) /\ Len(r) = IF k + 1 <= Len(q) THEN Len(q) - (k + 1) + 1 ELSE 0
      /\ \A j \in 1 .. Len(q) - (k + 1) + 1 : r[j] = q[(k + 1) + j - 1]
  BY <1>1, SubSeqProperties
<1> HIDE DEF r
<1>3. Len(r) = Len(q) - k BY <1>1, <1>2
<1>4. ASSUME NEW j \in 1 .. Len(r) PROVE r[j] = q[k + j]
  <2>1. j \in 1 .. Len(q) - (k + 1) + 1 /\ (k + 1) + j - 1 = k + j BY <1>1, <1>3
  <2> QED BY <1>2, <2>1
<1> QED BY <1>2, <1>3, <1>4 DEF r, Behind

\* A message that has been put together takes its end with it.
LEMMA CutMessage ==
  ASSUME NEW F \in Seq(Packet), NEW s \in Seq(Messages), NEW r \in 0 .. Len(s) - 1, NEW at,
         Framed(F, r, s, at), NEW G \in Seq(Packet),
         Behind(G, F, at[r + 1])
  PROVE  \E on : /\ Framed(G, r + 1, s, on)
                 /\ \A i \in r + 1 .. Len(s) : on[i] = at[i] - at[r + 1]
                 /\ Joined(F, r, s, at) => Joined(G, r + 1, s, on)
<1> DEFINE c == at[r + 1]
           on == [i \in r + 1 .. Len(s) |-> at[i] - c]
<1>1. Len(F) \in Nat /\ Len(s) \in Nat /\ Len(G) \in Nat BY LenProperties
<1>2. at \in [r .. Len(s) -> 0 .. Len(F)] /\ at[r] = 0 /\ \A i, j \in r .. Len(s) : i < j => at[i] < at[j]
  BY DEF Framed
<1>3. r + 1 \in r .. Len(s) /\ r \in r .. Len(s) /\ r < r + 1 BY <1>1
<1>4. c \in 1 .. Len(F) BY <1>1, <1>2, <1>3
<1>5. ASSUME NEW i \in r + 1 .. Len(s)
      PROVE  i \in r .. Len(s) /\ at[i] \in c .. Len(F) /\ (i # r + 1 => at[i] > c)
  <2>1. i \in r .. Len(s) /\ at[i] \in 0 .. Len(F) BY <1>1, <1>2
  <2>2. CASE i = r + 1 BY <1>4, <2>1, <2>2
  <2>3. CASE i # r + 1
    <3>1. r + 1 < i BY <1>1, <2>3
    <3>2. at[r + 1] < at[i] BY <1>2, <1>3, <2>1, <3>1
    <3> QED BY <1>4, <2>1, <3>2
  <2> QED BY <2>2, <2>3
<1>6. Len(G) = Len(F) - c /\ \A j \in 1 .. Len(G) : G[j] = F[c + j] BY DEF Behind
<1>7. \A i \in r + 1 .. Len(s) : on[i] = at[i] - c OBVIOUS
<1>15. Len(G) = Len(F) - c BY <1>6
<1>8. on \in [r + 1 .. Len(s) -> 0 .. Len(G)]
  <2>1. ASSUME NEW i \in r + 1 .. Len(s) PROVE at[i] - c \in 0 .. Len(G)
    <3>1. at[i] \in c .. Len(F) BY <1>5
    <3> HIDE DEF c
    <3> QED BY <1>1, <1>4, <1>6, <3>1
  <2> QED BY <2>1
<1>9. on[r + 1] = 0
  <2>1. r + 1 \in r + 1 .. Len(s) BY <1>1
  <2> QED BY <1>4, <1>7, <2>1
<1> HIDE DEF c, on
<1>10. ASSUME NEW i \in r + 1 .. Len(s), NEW j \in r + 1 .. Len(s), i < j PROVE on[i] < on[j]
  <2>1. at[i] < at[j] /\ at[i] \in c .. Len(F) /\ at[j] \in c .. Len(F) BY <1>2, <1>5, <1>10
  <2> QED BY <1>4, <1>7, <2>1
<1>11. ASSUME NEW i \in r + 1 .. Len(s), i # r + 1
       PROVE  on[i] \in 1 .. Len(G) /\ c + on[i] = at[i]
  <2>1. at[i] \in c .. Len(F) /\ at[i] > c BY <1>5, <1>11
  <2>2. on[i] = at[i] - c BY <1>7
  <2> DEFINE a == at[i]
  <2>3. a \in c .. Len(F) /\ a > c BY <2>1
  <2> HIDE DEF a
  <2>4. a - c \in 1 .. Len(F) - c BY <1>1, <1>4, <2>3
  <2>5. c + (a - c) = a BY <1>1, <1>4, <2>3
  <2> QED BY <1>15, <2>2, <2>4, <2>5, Zenon DEF a
<1>16. \A i \in (r + 1) + 1 .. Len(s) : i \in r + 1 .. Len(s) /\ i # r + 1 BY <1>1
<1>12. ASSUME NEW i \in r + 1 .. Len(s), i # r + 1
       PROVE  Closes(G[on[i]]) /\ G[on[i]].msg = s[i]
  <2>1. G[on[i]] = F[at[i]] BY <1>6, <1>11, <1>12
  <2>2. Closes(F[at[i]]) /\ F[at[i]].msg = s[i] BY DEF Framed
  <2> QED BY <2>1, <2>2
<1>17. ASSUME NEW y \in 1 .. Len(G), Closes(G[y]) PROVE \E i \in (r + 1) + 1 .. Len(s) : on[i] = y
  <2>1. c + y \in 1 .. Len(F) /\ c + y # c /\ G[y] = F[c + y] BY <1>1, <1>4, <1>6
  <2>2. PICK i \in r + 1 .. Len(s) : at[i] = c + y BY <1>17, <2>1 DEF Framed
  <2>3. i # r + 1 BY <2>1, <2>2 DEF c
  <2>4. i \in (r + 1) + 1 .. Len(s) /\ on[i] = y BY <1>1, <1>4, <1>7, <2>2, <2>3
  <2> QED BY <2>4
<1>13. Framed(G, r + 1, s, on) BY <1>8, <1>9, <1>10, <1>12, <1>16, <1>17 DEF Framed
<1>14. ASSUME Joined(F, r, s, at) PROVE Joined(G, r + 1, s, on)
  <2> SUFFICES ASSUME NEW i \in r + 1 .. Len(s), i # r + 1
               PROVE  /\ on[i] = on[i - 1] + Len(Packets(s[i]))
                      /\ \A j \in 1 .. Len(Packets(s[i])) : G[on[i - 1] + j] = Packets(s[i])[j]
    BY <1>16 DEF Joined
  <2>1. i - 1 \in r + 1 .. Len(s) /\ i \in 1 .. Len(s) BY <1>1
  <2>2. /\ at[i] = at[i - 1] + Len(Packets(s[i]))
        /\ \A j \in 1 .. Len(Packets(s[i])) : F[at[i - 1] + j] = Packets(s[i])[j]
    BY <1>14 DEF Joined
  <2>3. at[i] \in c .. Len(F) /\ at[i - 1] \in c .. Len(F) BY <1>5, <2>1
  <2>4. on[i] = at[i] - c /\ on[i - 1] = at[i - 1] - c BY <1>7, <2>1
  <2>5. Len(Packets(s[i])) \in Nat
    <3>1. s[i] \in Messages BY <2>1, ElementOfSeq
    <3> QED BY <3>1, PacketsOf
  <2>6. on[i] = on[i - 1] + Len(Packets(s[i])) BY <1>4, <2>2, <2>3, <2>4, <2>5
  <2>7. ASSUME NEW j \in 1 .. Len(Packets(s[i])) PROVE G[on[i - 1] + j] = Packets(s[i])[j]
    <3> DEFINE l == Len(Packets(s[i]))
               a == at[i - 1]
    <3>1. l \in Nat /\ j \in 1 .. l /\ a \in c .. Len(F) /\ a + l \in c .. Len(F) BY <2>2, <2>3, <2>5
    <3> HIDE DEF l, a
    <3>2. (a - c) + j \in 1 .. Len(F) - c /\ c + ((a - c) + j) = a + j BY <1>1, <1>4, <3>1
    <3>3. on[i - 1] + j \in 1 .. Len(G) /\ c + (on[i - 1] + j) = at[i - 1] + j
      BY <1>15, <2>4, <3>2, Zenon DEF a
    <3> QED BY <1>6, <2>2, <3>3
  <2> QED BY <2>6, <2>7
<1> QED BY <1>7, <1>13, <1>14 DEF c

-----------------------------------------------------------------------------
Types ==
  /\ holders \in SUBSET Writers /\ todo \in [Writers -> Seq(Packet)]
  /\ parts \in Seq(Packet) /\ buffered \in Seq(Packet) /\ stream \in Seq(Packet)
  /\ sent \in Seq(Messages) /\ received \in Seq(Messages)

\* The lock: one goroutine has a message to write.
OneWriter ==
  /\ \A v, w \in holders : v = w
  /\ \A w \in Writers : todo[w] # <<>> => w \in holders

\* What it has still to write is the rest of a message.
InHand ==
  \A w \in Writers : todo[w] # <<>> =>
    \E m \in Messages : \E k \in 0 .. Len(Packets(m)) - 1 : Behind(todo[w], Packets(m), k)

\* The packets that are being put together wait for the end of their message.
Waiting == \A i \in 1 .. Len(parts) : ~ Closes(parts[i])

\* The messages handed on are the first of those written.
HandedOn ==
  /\ Len(received) <= Len(sent)
  /\ \A i \in 1 .. Len(received) : received[i] = sent[i]

\* The messages written behind them are on their way, in that order; until a
\* write fails they are whole, and nothing else is.
OnTheWay ==
  \E at \in [Len(received) .. Len(sent) -> 0 .. Len(Flight)] :
    /\ Framed(Flight, Len(received), sent, at)
    /\ ~ failed => Joined(Flight, Len(received), sent, at) /\ Begun(Flight, sent, todo, at)

IInv == /\ Types /\ OneWriter /\ InHand /\ Waiting /\ HandedOn /\ OnTheWay
        /\ GarbledOnlyAfterFailure

-----------------------------------------------------------------------------
(* What is on its way, step by step *)

LEMMA FlightType ==
  ASSUME Types
  PROVE  Flight \in Seq(Packet) /\ Len(Flight) \in Nat
<1>1. buffered \o stream \in Seq(Packet) BY ConcatProperties DEF Types
<1>2. parts \o (buffered \o stream) \in Seq(Packet) BY <1>1, ConcatProperties DEF Types
<1> QED BY <1>2, LenProperties DEF Flight

LEMMA Regroup ==
  ASSUME NEW a \in Seq(Packet), NEW b \in Seq(Packet), NEW c \in Seq(Packet)
  PROVE  (a \o b) \o c = a \o (b \o c)
BY ConcatAssociative

\* A packet that is written is the last one on its way.
LEMMA FlightGrows ==
  ASSUME Types, NEW x \in Packet
  PROVE  /\ Append(stream, x) \in Seq(Packet)
         /\ parts \o (buffered \o Append(stream, x)) = Append(Flight, x)
<1> DEFINE a == parts
           b == buffered
           c == stream
<1>1. a \in Seq(Packet) /\ b \in Seq(Packet) /\ c \in Seq(Packet) /\ <<x>> \in Seq(Packet)
  BY DEF Types
<1> DEFINE e == <<x>>
<1>9. e \in Seq(Packet) BY <1>1
<1> HIDE DEF a, b, c
<1>2. Append(c, x) = c \o <<x>> /\ Append(c, x) \in Seq(Packet) BY <1>1, AppendIsConcat, AppendProperties
<1>3. b \o c \in Seq(Packet) BY <1>1, ConcatProperties
<1>4. a \o (b \o c) \in Seq(Packet) BY <1>1, <1>3, ConcatProperties
<1> HIDE DEF e
<1>5. (b \o c) \o e = b \o (c \o e) BY <1>1, <1>9, Regroup
<1>6. (a \o (b \o c)) \o e = a \o ((b \o c) \o e)
  <2> DEFINE g == b \o c
  <2>1. a \in Seq(Packet) /\ g \in Seq(Packet) /\ e \in Seq(Packet) BY <1>1, <1>3, <1>9
  <2> HIDE DEF g
  <2>2. (a \o g) \o e = a \o (g \o e) BY ONLY <2>1, Regroup
  <2> QED BY <2>2 DEF g
<1>7. Append(a \o (b \o c), x) = (a \o (b \o c)) \o <<x>> BY <1>4, AppendIsConcat
<1>8. a \o (b \o Append(c, x)) = Append(a \o (b \o c), x) BY <1>2, <1>5, <1>6, <1>7, Zenon DEF e
<1> QED BY <1>2, <1>8 DEF a, b, c, Flight

\* Filling the buffer moves nothing.
LEMMA FlightFills ==
  ASSUME Types, buffered = <<>>, NEW k \in 1 .. Len(stream)
  PROVE  /\ SubSeq(stream, 1, k) \in Seq(Packet) /\ SubSeq(stream, k + 1, Len(stream)) \in Seq(Packet)
         /\ parts \o (SubSeq(stream, 1, k) \o SubSeq(stream, k + 1, Len(stream))) = Flight
<1> DEFINE c == stream
<1>1. c \in Seq(Packet) /\ Len(c) \in Nat /\ k \in 1 .. Len(c) BY LenProperties DEF Types
<1> HIDE DEF c
<1>2. SubSeq(c, 1, k) \o SubSeq(c, k + 1, Len(c)) = SubSeq(c, 1, Len(c))
  BY <1>1, ConcatAdjacentSubSeq
<1>3. SubSeq(c, 1, Len(c)) = c /\ <<>> \o c = c BY <1>1, SubSeqFull, ConcatEmptySeq
<1>4. SubSeq(c, k + 1, Len(c)) \in Seq(Packet) BY <1>1, RestOf
<1>5. SubSeq(c, 1, k) \in Seq(Packet)
  <2>1. \A i \in 1 .. k : c[i] \in Packet BY <1>1, ElementOfSeq
  <2> QED BY <1>1, <2>1, SubSeqProperties
<1>6. parts \o (<<>> \o c) = Flight BY DEF Flight, c
<1>7. parts \o (SubSeq(c, 1, k) \o SubSeq(c, k + 1, Len(c))) = Flight
  BY <1>2, <1>3, <1>6, Zenon
<1> QED BY <1>4, <1>5, <1>7 DEF c

\* What the reader has with the packet to be read, and what follows it.
Taken == Append(parts, Head(buffered))
Rest == Tail(buffered) \o stream

LEMMA TakenAndRest ==
  ASSUME Types, buffered # <<>>
  PROVE  /\ Head(buffered) \in Packet /\ Tail(buffered) \in Seq(Packet)
         /\ Taken \in Seq(Packet) /\ Rest \in Seq(Packet) /\ Flight = Taken \o Rest
         /\ Len(Taken) = Len(parts) + 1 /\ Len(parts) \in Nat /\ Taken[Len(parts) + 1] = Head(buffered)
         /\ \A i \in 1 .. Len(parts) : Taken[i] = parts[i]
<1> DEFINE a == parts
           b == buffered
           c == stream
           p == Head(b)
           tl == Tail(b)
           d == tl \o c
           e == a \o <<p>>
<1>1. a \in Seq(Packet) /\ b \in Seq(Packet) /\ c \in Seq(Packet) /\ b # <<>>
  BY DEF Types
<1>2. p \in Packet /\ tl \in Seq(Packet) /\ p = b[1] /\ Len(b) \in Nat \ {0}
  BY <1>1, HeadTailProperties, LenProperties, EmptySeq
<1>3. b = <<p>> \o tl
  <2>1. SubSeq(b, 1, Len(b)) = <<b[1]>> \o SubSeq(b, 1 + 1, Len(b))
    BY <1>1, <1>2, SubSeqRecursiveFirst
  <2>2. SubSeq(b, 1, Len(b)) = b BY <1>1, SubSeqFull
  <2>3. tl = SubSeq(b, 1 + 1, Len(b)) BY <1>1, TailIsSubSeq
  <2> QED BY <1>2, <2>1, <2>2, <2>3
<1>4. Taken = e BY <1>1, <1>2, AppendIsConcat DEF Taken
<1>5. Flight = a \o (b \o c) /\ Rest = d BY DEF Flight, Rest
<1>6. /\ Taken \in Seq(Packet) /\ Len(Taken) = Len(a) + 1 /\ Len(a) \in Nat /\ Taken[Len(a) + 1] = p
      /\ \A i \in 1 .. Len(a) : Taken[i] = a[i]
  BY <1>1, <1>2, AppendProperties, LenProperties DEF Taken
<1> HIDE DEF a, b, c, p, tl
<1>7. <<p>> \in Seq(Packet) /\ d \in Seq(Packet) BY <1>1, <1>2, ConcatProperties
<1> DEFINE f == <<p>>
<1>13. f \in Seq(Packet) BY <1>7
<1> HIDE DEF d, f
<1>8. (f \o tl) \o c = f \o (tl \o c) BY <1>1, <1>2, <1>13, Regroup
<1>9. (a \o f) \o d = a \o (f \o d)
  <2>1. a \in Seq(Packet) /\ f \in Seq(Packet) /\ d \in Seq(Packet) BY <1>1, <1>7, <1>13
  <2> QED BY ONLY <2>1, Regroup
<1>10. a \o (b \o c) = e \o d BY <1>3, <1>8, <1>9, Zenon DEF d, f
<1>11. Flight = Taken \o Rest BY <1>4, <1>5, <1>10, Zenon
<1>12. Rest \in Seq(Packet) BY <1>5, <1>7
<1> QED BY <1>2, <1>6, <1>11, <1>12 DEF a, b, p, tl

LEMMA FlightFront ==
  ASSUME Types, buffered # <<>>
  PROVE  /\ Len(Taken) <= Len(Flight) /\ Behind(Rest, Flight, Len(Taken))
         /\ \A i \in 1 .. Len(Taken) : Flight[i] = Taken[i]
<1> DEFINE e == Taken
           d == Rest
           F == Flight
<1>1. e \in Seq(Packet) /\ d \in Seq(Packet) /\ F = e \o d /\ Len(e) \in Nat /\ Len(d) \in Nat
  BY TakenAndRest, LenProperties
<1> HIDE DEF e, d, F
<1>2. /\ Len(F) = Len(e) + Len(d)
      /\ \A i \in 1 .. Len(e) + Len(d) : F[i] = IF i <= Len(e) THEN e[i] ELSE d[i - Len(e)]
  BY <1>1, ConcatProperties
<1>3. \A i \in 1 .. Len(e) : F[i] = e[i] BY <1>1, <1>2
<1>4. ASSUME NEW j \in 1 .. Len(d) PROVE d[j] = F[Len(e) + j]
  <2>1. Len(e) + j \in 1 .. Len(e) + Len(d) /\ ~ (Len(e) + j <= Len(e)) /\ (Len(e) + j) - Len(e) = j
    BY <1>1
  <2> QED BY <1>2, <2>1
<1>5. Len(e) \in 0 .. Len(F) /\ Len(d) = Len(F) - Len(e) BY <1>1, <1>2
<1>6. Behind(d, F, Len(e)) BY <1>4, <1>5 DEF Behind
<1> QED BY <1>3, <1>5, <1>6 DEF e, d, F

-----------------------------------------------------------------------------
(* The packet to be read *)

\* The first end of a message on its way is that of the first message not
\* handed on.
LEMMA EndOfNext ==
  ASSUME IInv, buffered # <<>>, Closes(Head(buffered)), NEW at,
         Framed(Flight, Len(received), sent, at)
  PROVE  /\ Len(received) \in 0 .. Len(sent) - 1
         /\ at[Len(received) + 1] = Len(parts) + 1
         /\ sent[Len(received) + 1] = Head(buffered).msg
<1> DEFINE r == Len(received)
           n == Len(sent)
           p == Head(buffered)
           e == Taken
           F == Flight
<1>1. r \in Nat /\ n \in Nat /\ r <= n /\ Len(F) \in Nat
  BY LenProperties, FlightType DEF IInv, Types, HandedOn
<1>2. /\ Len(e) = Len(parts) + 1 /\ Len(parts) \in Nat /\ e[Len(e)] = p
      /\ Len(e) <= Len(F) /\ \A i \in 1 .. Len(e) : F[i] = e[i]
      /\ \A i \in 1 .. Len(parts) : e[i] = parts[i]
  <2>1. Types BY DEF IInv
  <2>2. e[Len(parts) + 1] = p BY <2>1, TakenAndRest
  <2> QED BY <2>1, <2>2, FlightFront, TakenAndRest
<1>3. /\ at \in [r .. n -> 0 .. Len(F)] /\ at[r] = 0
      /\ \A i, j \in r .. n : i < j => at[i] < at[j]
      /\ \A i \in r + 1 .. n : Closes(F[at[i]]) /\ F[at[i]].msg = sent[i]
      /\ \A x \in 1 .. Len(F) : Closes(F[x]) => \E i \in r + 1 .. n : at[i] = x
  BY DEF Framed
<1> HIDE DEF r, n, e, F
<1>4. Len(e) \in 1 .. Len(F) /\ F[Len(e)] = p BY <1>1, <1>2
<1>5. PICK i \in r + 1 .. n : at[i] = Len(e) BY <1>3, <1>4
<1>6. r + 1 \in r + 1 .. n /\ r + 1 \in r .. n /\ r \in r .. n /\ i \in r .. n BY <1>1, <1>5
<1>7. at[r + 1] \in 1 .. Len(F)
  <2>1. at[r] < at[r + 1] BY <1>1, <1>3, <1>6
  <2> QED BY <1>1, <1>3, <1>6, <2>1
<1>8. i = r + 1
  <2> SUFFICES ASSUME i # r + 1 PROVE FALSE OBVIOUS
  <2>1. r + 1 < i BY <1>1, <1>5
  <2>2. at[r + 1] < at[i] BY <1>3, <1>6, <2>1
  <2>3. at[r + 1] \in 1 .. Len(parts) BY <1>1, <1>2, <1>5, <1>7, <2>2
  <2>4. F[at[r + 1]] = parts[at[r + 1]] BY <1>2, <2>3
  <2>5. ~ Closes(parts[at[r + 1]]) BY <2>3 DEF IInv, Waiting
  <2> QED BY <1>3, <1>6, <2>4, <2>5
<1>9. sent[r + 1] = p.msg BY <1>3, <1>4, <1>5, <1>8
<1>10. r \in 0 .. n - 1 BY <1>1, <1>6
<1> QED BY <1>2, <1>5, <1>8, <1>9, <1>10 DEF r, n

\* As long as no write has failed the reader accepts the next packet, and can
\* decode the message that it closes.
LEMMA Readable ==
  ASSUME IInv, buffered # <<>>, ~ failed
  PROVE  Accepted(Head(buffered)) /\ (Head(buffered).num = 0 => Decodes(Taken))
<1> DEFINE r == Len(received)
           n == Len(sent)
           p == Head(buffered)
           e == Taken
           F == Flight
           x == Len(parts) + 1
<1>1. r \in Nat /\ n \in Nat /\ r <= n /\ Len(F) \in Nat
  BY LenProperties, FlightType DEF IInv, Types, HandedOn
<1>2. /\ Len(e) = x /\ x \in Nat \ {0} /\ Len(parts) \in Nat /\ e \in Seq(Packet)
      /\ x <= Len(F) /\ \A i \in 1 .. x : F[i] = e[i]
      /\ \A i \in 1 .. Len(parts) : e[i] = parts[i]
  <2>1. Types BY DEF IInv
  <2> QED BY <2>1, FlightFront, TakenAndRest
<1>3. F[x] = p
  <2>1. Types BY DEF IInv
  <2>2. e[x] = p BY <2>1, TakenAndRest
  <2> QED BY <1>2, <2>2
<1>4. PICK at : /\ Framed(F, r, sent, at) /\ Joined(F, r, sent, at) /\ Begun(F, sent, todo, at)
  BY DEF IInv, OnTheWay
<1>5. at[r] = 0 BY <1>4 DEF Framed
<1> HIDE DEF r, n, e, F, x, p
\* The front of what is on its way is the front of one message.
<1>6. ASSUME NEW m \in Messages, NEW k \in Nat, k <= Len(Packets(m)), x <= k,
             \A j \in 1 .. k : F[j] = Packets(m)[j]
      PROVE  Accepted(p) /\ (p.num = 0 => x = k /\ k = Len(Packets(m)) /\ Decodes(e))
  <2> DEFINE l == Len(Packets(m))
  <2>1. l \in Nat \ {0} /\ Packets(m) \in Seq(Packet) BY PacketsOf
  <2>2. x \in 1 .. k /\ x \in 1 .. l BY <1>2, <1>6, <2>1
  <2>3. p = Packets(m)[x] BY <1>3, <1>6, <2>2
  <2>4. Accepted(p) /\ p.num = l - x BY <2>2, <2>3, PacketsOf
  <2>5. ASSUME p.num = 0 PROVE x = k /\ k = l /\ Decodes(e)
    <3> HIDE DEF l
    <3>1. x = l /\ x = k BY <1>2, <1>6, <2>1, <2>2, <2>4, <2>5 DEF l
    <3>2. Len(e) = Len(Packets(m)) BY <1>2, <3>1 DEF l
    <3>3. \A j \in 1 .. Len(e) : e[j] = Packets(m)[j] BY <1>2, <1>6, <3>1
    <3>4. e = Packets(m) BY <1>2, <2>1, <3>2, <3>3, SeqEqual
    <3>5. 1 \in 1 .. Len(Packets(m)) BY <2>1 DEF l
    <3>6. e[1].msg = m BY <3>4, <3>5, PacketsOf
    <3> QED BY <3>1, <3>4, <3>6 DEF Decodes
  <2> QED BY <2>4, <2>5
<1>7. CASE r < n
  <2> DEFINE m == sent[r + 1]
             l == Len(Packets(m))
  <2>1. r + 1 \in r + 1 .. n /\ r + 1 \in 1 .. n /\ (r + 1) - 1 = r BY <1>1, <1>7
  <2>2. m \in Messages BY <2>1, ElementOfSeq DEF n, IInv, Types
  <2>3. at[r + 1] = at[(r + 1) - 1] + l /\ \A j \in 1 .. l : F[at[(r + 1) - 1] + j] = Packets(m)[j]
    BY <1>4, <2>1 DEF Joined, n
  <2>4. l \in Nat \ {0} BY <2>2, PacketsOf
  <2>5. Closes(Packets(m)[l])
    <3>1. l \in 1 .. l BY <2>4
    <3>2. Packets(m)[l].num = l - l /\ Packets(m)[l].whole BY <2>2, <3>1, PacketsOf
    <3> QED BY <2>4, <3>2 DEF Closes
  <2>6. \A j \in 1 .. l : F[j] = Packets(m)[j]
    <3> SUFFICES ASSUME NEW j \in 1 .. l PROVE F[j] = Packets(m)[j] OBVIOUS
    <3>1. F[at[r] + j] = Packets(m)[j] BY <2>1, <2>3
    <3>2. 0 + j = j OBVIOUS
    <3> QED BY <1>5, <3>1, <3>2
  <2> HIDE DEF m, l
  <2>7. x <= l
    <3> SUFFICES ASSUME ~ (x <= l) PROVE FALSE OBVIOUS
    <3>1. l \in 1 .. Len(parts) /\ l \in 1 .. x /\ l \in 1 .. l BY <1>2, <2>4 DEF x
    <3>2. parts[l] = Packets(m)[l] BY <1>2, <2>6, <3>1
    <3>3. ~ Closes(parts[l]) BY <3>1 DEF IInv, Waiting
    <3> QED BY <2>5, <3>2, <3>3
  <2>8. l <= Len(Packets(m)) BY <2>4 DEF l
  <2> QED BY <1>6, <2>2, <2>4, <2>6, <2>7, <2>8 DEF p, e
<1>8. CASE r = n
  <2>1. at[Len(sent)] = 0 BY <1>5, <1>8 DEF n
  <2>2. \E w \in Writers : todo[w] # <<>>
    <3> SUFFICES ASSUME \A w \in Writers : todo[w] = <<>> PROVE FALSE OBVIOUS
    <3>1. Len(F) = 0 BY <1>4, <2>1 DEF Begun
    <3> QED BY <1>2, <3>1
  <2>0. PICK m \in Messages : \E k \in 0 .. Len(Packets(m)) - 1 :
          Len(F) = 0 + k /\ \A j \in 1 .. k : F[0 + j] = Packets(m)[j]
    BY <1>4, <2>1, <2>2 DEF Begun
  <2>3. PICK k \in 0 .. Len(Packets(m)) - 1 :
          Len(F) = 0 + k /\ \A j \in 1 .. k : F[0 + j] = Packets(m)[j]
    BY <2>0
  <2>4. Len(Packets(m)) \in Nat BY PacketsOf
  <2>5. k \in Nat /\ k <= Len(Packets(m)) /\ k # Len(Packets(m)) /\ x <= k BY <1>2, <2>3, <2>4
  <2>6. \A j \in 1 .. k : F[j] = Packets(m)[j]
    <3> SUFFICES ASSUME NEW j \in 1 .. k PROVE F[j] = Packets(m)[j] OBVIOUS
    <3>1. F[0 + j] = Packets(m)[j] /\ 0 + j = j BY <2>3
    <3> QED BY <3>1
  <2> QED BY <1>6, <2>5, <2>6 DEF p, e
<1> QED BY <1>1, <1>7, <1>8

\* The next packet of a message, and what is left of it then.
LEMMA HandStep ==
  ASSUME NEW q \in Seq(Packet), q # <<>>, NEW m \in Messages,
         NEW k \in 0 .. Len(Packets(m)) - 1, Behind(q, Packets(m), k)
  PROVE  /\ Head(q) \in Packet /\ Head(q) = Packets(m)[k + 1] /\ Head(q).msg = m
         /\ Tail(q) \in Seq(Packet) /\ Behind(Tail(q), Packets(m), k + 1)
         /\ Closes(Head(q)) <=> Tail(q) = <<>>
         /\ Tail(q) = <<>> <=> k = Len(Packets(m)) - 1
<1> DEFINE l == Len(Packets(m))
           u == Tail(q)
<1>1. l \in Nat \ {0} BY PacketsOf
<1>2. Len(q) = l - k /\ \A j \in 1 .. Len(q) : q[j] = Packets(m)[k + j] BY DEF Behind
<1>3. /\ Head(q) = q[1] /\ Head(q) \in Packet /\ u \in Seq(Packet) /\ Len(u) = Len(q) - 1
      /\ \A i \in 1 .. Len(u) : u[i] = q[i + 1]
  BY HeadTailProperties
<1> HIDE DEF l, u
<1>4. k \in Nat /\ k + 1 \in 1 .. l /\ 1 \in 1 .. Len(q) BY <1>1, <1>2 DEF l
<1>5. Head(q) = Packets(m)[k + 1] BY <1>2, <1>3, <1>4
<1>6. /\ Packets(m)[k + 1].msg = m /\ Packets(m)[k + 1].num = l - (k + 1)
      /\ Packets(m)[k + 1].whole
  BY <1>4, PacketsOf DEF l
<1>7. u = <<>> <=> k = l - 1
  <2>1. u = <<>> <=> Len(u) = 0 BY <1>3, EmptySeq
  <2> QED BY <1>1, <1>2, <1>3, <1>4, <2>1
<1>8. Closes(Head(q)) <=> u = <<>>
  <2>1. l - (k + 1) = 0 <=> k = l - 1 BY <1>1, <1>4
  <2> QED BY <1>5, <1>6, <1>7, <2>1 DEF Closes
<1>9. Behind(u, Packets(m), k + 1)
  <2>1. Len(u) = l - (k + 1) /\ k + 1 \in 0 .. l BY <1>1, <1>2, <1>3, <1>4
  <2>2. ASSUME NEW j \in 1 .. Len(u) PROVE u[j] = Packets(m)[(k + 1) + j]
    <3>1. j + 1 \in 1 .. Len(q) /\ k + (j + 1) = (k + 1) + j BY <1>1, <1>2, <1>3, <1>4
    <3> QED BY <1>2, <1>3, <3>1
  <2> QED BY <2>1, <2>2 DEF Behind, l
<1> QED BY <1>3, <1>5, <1>6, <1>7, <1>8, <1>9 DEF l, u

\* When a message is taken away the one that is being written has still begun.
LEMMA CutBegun ==
  ASSUME NEW F \in Seq(Packet), NEW s \in Seq(Messages), NEW r \in 0 .. Len(s) - 1, NEW at, NEW rem,
         Framed(F, r, s, at), NEW G \in Seq(Packet), Behind(G, F, at[r + 1]), NEW on,
         on[Len(s)] = at[Len(s)] - at[r + 1], at[Len(s)] >= at[r + 1], Begun(F, s, rem, at)
  PROVE  Begun(G, s, rem, on)
<1> DEFINE c == at[r + 1]
           a == at[Len(s)]
           b == on[Len(s)]
<1>1. Len(F) \in Nat /\ Len(s) \in Nat /\ Len(G) \in Nat BY LenProperties
<1>2. c \in 0 .. Len(F) /\ Len(G) = Len(F) - c /\ \A j \in 1 .. Len(G) : G[j] = F[c + j]
  BY DEF Behind
<1>3. b = a - c /\ a >= c /\ a \in 0 .. Len(F)
  <2>1. Len(s) \in r .. Len(s) BY <1>1
  <2> QED BY <2>1 DEF Framed
<1>4. /\ (\A w \in Writers : rem[w] = <<>>) => Len(F) = a
      /\ \A w \in Writers : rem[w] # <<>> =>
           \E m \in Messages : \E k \in 0 .. Len(Packets(m)) - 1 :
             /\ Behind(rem[w], Packets(m), k) /\ Len(F) = a + k
             /\ \A j \in 1 .. k : F[a + j] = Packets(m)[j]
  BY DEF Begun
<1> HIDE DEF a, b, c
<1>5. (\A w \in Writers : rem[w] = <<>>) => Len(G) = b BY <1>2, <1>3, <1>4
<1>6. ASSUME NEW w \in Writers, rem[w] # <<>>
      PROVE  \E m \in Messages : \E k \in 0 .. Len(Packets(m)) - 1 :
               /\ Behind(rem[w], Packets(m), k) /\ Len(G) = b + k
               /\ \A j \in 1 .. k : G[b + j] = Packets(m)[j]
  <2>0. PICK m \in Messages : \E k \in 0 .. Len(Packets(m)) - 1 :
          /\ Behind(rem[w], Packets(m), k) /\ Len(F) = a + k
          /\ \A j \in 1 .. k : F[a + j] = Packets(m)[j]
    BY <1>4, <1>6
  <2>1. PICK k \in 0 .. Len(Packets(m)) - 1 :
          /\ Behind(rem[w], Packets(m), k) /\ Len(F) = a + k
          /\ \A j \in 1 .. k : F[a + j] = Packets(m)[j]
    BY <2>0
  <2>2. Len(Packets(m)) \in Nat BY PacketsOf
  <2>3. k \in Nat BY <2>2
  <2>4. Len(G) = b + k BY <1>1, <1>2, <1>3, <2>1, <2>3
  <2>5. ASSUME NEW j \in 1 .. k PROVE G[b + j] = Packets(m)[j]
    <3>1. b \in Nat /\ c \in Nat /\ c + b = a BY <1>1, <1>2, <1>3
    <3>2. b + j \in 1 .. Len(G) /\ c + (b + j) = (c + b) + j BY <1>1, <2>3, <2>4, <3>1
    <3>3. G[b + j] = F[a + j] BY <1>2, <3>1, <3>2
    <3> QED BY <2>1, <3>3
  <2> QED BY <2>1, <2>4, <2>5
<1> QED BY <1>5, <1>6 DEF Begun, b

\* When the next packet of a message is written more of it has begun.
LEMMA AppendBegun ==
  ASSUME NEW F \in Seq(Packet), NEW x \in Packet, NEW m \in Messages,
         NEW k \in 0 .. Len(Packets(m)) - 1, NEW a \in Nat, Len(F) = a + k,
         \A j \in 1 .. k : F[a + j] = Packets(m)[j], x = Packets(m)[k + 1]
  PROVE  /\ Len(Append(F, x)) = a + (k + 1)
         /\ \A j \in 1 .. k + 1 : Append(F, x)[a + j] = Packets(m)[j]
<1> DEFINE G == Append(F, x)
<1>1. /\ Len(F) \in Nat /\ Len(G) = Len(F) + 1 /\ G[Len(F) + 1] = x
      /\ \A j \in 1 .. Len(F) : G[j] = F[j]
  BY LenProperties, AppendProperties
<1> HIDE DEF G
<1>2. Len(Packets(m)) \in Nat BY PacketsOf
<1>3. k \in Nat BY <1>2
<1>4. ASSUME NEW j \in 1 .. k + 1 PROVE G[a + j] = Packets(m)[j]
  <2>1. CASE j = k + 1
    <3>1. a + j = Len(F) + 1 BY <1>3, <2>1
    <3> QED BY <1>1, <2>1, <3>1
  <2>2. CASE j # k + 1
    <3>1. j \in 1 .. k /\ a + j \in 1 .. Len(F) BY <1>1, <1>3, <2>2
    <3> QED BY <1>1, <3>1
  <2> QED BY <2>1, <2>2
<1>5. Len(G) = a + (k + 1) BY <1>1, <1>3
<1> QED BY <1>4, <1>5 DEF G

-----------------------------------------------------------------------------
(* The steps *)

LEMMA InitIInv == Init => IInv
<1> SUFFICES ASSUME Init PROVE IInv OBVIOUS
<1> DEFINE at == [i \in {0} |-> 0]
<1>1. /\ Types /\ OneWriter /\ InHand /\ Waiting /\ HandedOn /\ GarbledOnlyAfterFailure
  <2>1. <<>> \in Seq(Packet) /\ <<>> \in Seq(Messages) /\ Len(<<>>) = 0 BY EmptySeq
  <2> QED BY <2>1 DEF Init, Types, OneWriter, InHand, Waiting, HandedOn, GarbledOnlyAfterFailure
<1>2. Len(Flight) = 0
  <2>1. Len(<<>> \o (<<>> \o <<>>)) = 0 OBVIOUS
  <2> QED BY <2>1 DEF Init, Flight
<1>3. Len(received) = 0 /\ Len(sent) = 0 /\ sent = <<>> BY DEF Init
<1>4. 0 .. 0 = {0} /\ 0 + 1 .. 0 = {} /\ 1 .. 0 = {} OBVIOUS
<1>5. Framed(Flight, Len(received), sent, at) BY <1>2, <1>3, <1>4 DEF Framed
<1>6. Joined(Flight, Len(received), sent, at) BY <1>3, <1>4 DEF Joined
<1>7. Begun(Flight, sent, todo, at) BY <1>2, <1>3 DEF Begun, Init
<1>8. OnTheWay BY <1>5, <1>6, <1>7 DEF OnTheWay, Framed
<1> QED BY <1>1, <1>8 DEF IInv

\* What is on its way stays as long as what has begun of the next message is
\* what it was.
LEMMA SameWay ==
  ASSUME IInv, Flight' = Flight, received' = received, sent' = sent, failed' = failed,
         \A at : Begun(Flight, sent, todo, at) => Begun(Flight, sent, todo', at)
  PROVE  OnTheWay'
<1>1. PICK at : /\ Framed(Flight, Len(received), sent, at)
                /\ ~ failed => /\ Joined(Flight, Len(received), sent, at)
                               /\ Begun(Flight, sent, todo, at)
  BY DEF IInv, OnTheWay
<1>2. at \in [Len(received) .. Len(sent) -> 0 .. Len(Flight)] BY <1>1 DEF Framed
<1>3. ~ failed => Begun(Flight, sent, todo', at) BY <1>1
<1> QED BY <1>1, <1>2, <1>3 DEF OnTheWay

LEMMA LockStep == ASSUME IInv, NEW w \in Writers, Lock(w) PROVE IInv'
<1>1. PICK m \in Messages : Begin(w, m) BY DEF Lock
<1>2. /\ holders = {} /\ holders' = {w} /\ todo' = [todo EXCEPT ![w] = Packets(m)]
      /\ UNCHANGED <<stream, sent, failed, buffered, parts, received, reader>>
  BY <1>1 DEF Lock, Begin, reading
<1>3. todo \in [Writers -> Seq(Packet)] BY DEF IInv, Types
<1>4. Packets(m) \in Seq(Packet) /\ Len(Packets(m)) \in Nat \ {0} /\ Packets(m) # <<>>
  <2>1. Packets(m) \in Seq(Packet) /\ Len(Packets(m)) \in Nat \ {0} BY PacketsOf
  <2> QED BY <2>1, EmptySeq
<1>5. \A v \in Writers : todo[v] = <<>> BY <1>2 DEF IInv, OneWriter
<1>6. /\ todo' \in [Writers -> Seq(Packet)] /\ todo'[w] = Packets(m)
      /\ \A v \in Writers : v # w => todo'[v] = <<>>
  BY <1>2, <1>3, <1>4, <1>5
<1>7. Types' BY <1>2, <1>6 DEF IInv, Types
<1>8. OneWriter' BY <1>2, <1>6 DEF OneWriter
<1>9. 0 \in 0 .. Len(Packets(m)) - 1 /\ Behind(Packets(m), Packets(m), 0)
  <2> DEFINE l == Len(Packets(m))
  <2>1. l \in Nat \ {0} BY <1>4
  <2>2. \A j \in 1 .. l : 0 + j = j BY <2>1
  <2>3. \A j \in 1 .. l : Packets(m)[j] = Packets(m)[0 + j] BY <2>2
  <2> HIDE DEF l
  <2>4. 0 \in 0 .. l /\ l = l - 0 /\ 0 \in 0 .. l - 1 BY <2>1
  <2> QED BY <2>3, <2>4 DEF l, Behind
<1>10. InHand' BY <1>6, <1>9 DEF InHand
<1>11. Flight' = Flight BY <1>2 DEF Flight
<1>12. ASSUME NEW at, Begun(Flight, sent, todo, at) PROVE Begun(Flight, sent, todo', at)
  <2>1. Len(Flight) = at[Len(sent)] BY <1>5, <1>12 DEF Begun
  <2>2. Len(Flight) = at[Len(sent)] + 0
    <3>1. Len(Flight) \in Nat BY FlightType DEF IInv
    <3> QED BY <2>1, <3>1
  <2>3. \A j \in 1 .. 0 : Flight[at[Len(sent)] + j] = Packets(m)[j] OBVIOUS
  <2> QED BY <1>4, <1>6, <1>9, <2>2, <2>3 DEF Begun
<1>13. OnTheWay' BY <1>2, <1>11, <1>12, SameWay
<1> QED BY <1>2, <1>7, <1>8, <1>10, <1>13 DEF IInv, Waiting, HandedOn, GarbledOnlyAfterFailure

LEMMA UnlockStep == ASSUME IInv, NEW w \in Writers, Unlock(w) PROVE IInv'
<1>1. /\ holders' = holders \ {w} /\ todo[w] = <<>>
      /\ UNCHANGED <<todo, stream, sent, failed, buffered, parts, received, reader>>
  BY DEF Unlock, reading
<1>2. Types' BY <1>1 DEF IInv, Types
<1>3. OneWriter' BY <1>1 DEF IInv, OneWriter
<1>4. InHand' BY <1>1 DEF IInv, InHand
<1>5. Flight' = Flight BY <1>1 DEF Flight
<1>6. OnTheWay' BY <1>1, <1>5, SameWay
<1> QED BY <1>1, <1>2, <1>3, <1>4, <1>6 DEF IInv, Waiting, HandedOn, GarbledOnlyAfterFailure

LEMMA WriteStep == ASSUME IInv, NEW w \in Writers, WritePacket(w) PROVE IInv'
<1> DEFINE q == todo[w]
           x == Head(q)
           r == Len(received)
           n == Len(sent)
           F == Flight
<1>1. /\ q # <<>> /\ stream' = Append(stream, x) /\ todo' = [todo EXCEPT ![w] = Tail(q)]
      /\ sent' = IF Tail(q) = <<>> THEN Append(sent, x.msg) ELSE sent
      /\ UNCHANGED <<holders, failed, buffered, parts, received, reader>>
  BY DEF WritePacket, reading
<1>2. /\ Types /\ todo \in [Writers -> Seq(Packet)] /\ q \in Seq(Packet)
      /\ sent \in Seq(Messages) /\ r \in Nat /\ n \in Nat /\ r <= n
      /\ F \in Seq(Packet) /\ Len(F) \in Nat
  BY FlightType, LenProperties DEF IInv, Types, HandedOn
<1>3. /\ x \in Packet /\ Tail(q) \in Seq(Packet) /\ x.msg \in Messages
      /\ Closes(x) <=> Tail(q) = <<>>
  <2>1. PICK m \in Messages : \E k \in 0 .. Len(Packets(m)) - 1 : Behind(q, Packets(m), k)
    BY <1>1 DEF IInv, InHand
  <2>2. PICK k \in 0 .. Len(Packets(m)) - 1 : Behind(q, Packets(m), k) BY <2>1
  <2> HIDE DEF q
  <2> QED BY <1>1, <1>2, <2>2, HandStep
<1> HIDE DEF q, x
<1>4. /\ todo' \in [Writers -> Seq(Packet)] /\ todo'[w] = Tail(q)
      /\ \A v \in Writers : v # w => todo'[v] = todo[v]
  BY <1>1, <1>2, <1>3
<1>5. \A v \in Writers : v # w => todo[v] = <<>> /\ todo'[v] = <<>>
  BY <1>1, <1>4 DEF IInv, OneWriter, q
<1>6. Append(stream, x) \in Seq(Packet) /\ Flight' = Append(F, x)
  BY <1>1, <1>2, <1>3, FlightGrows DEF Flight
<1>7. /\ Append(sent, x.msg) \in Seq(Messages) /\ Len(Append(sent, x.msg)) = n + 1
      /\ \A i \in 1 .. n : Append(sent, x.msg)[i] = sent[i]
  BY <1>2, <1>3, AppendProperties
<1>8. Types'
  <2>1. sent' \in Seq(Messages) BY <1>1, <1>2, <1>7
  <2> QED BY <1>1, <1>4, <1>6, <2>1 DEF IInv, Types
<1>9. OneWriter' BY <1>1, <1>5 DEF IInv, OneWriter, q
<1>10. InHand'
  <2> SUFFICES ASSUME Tail(q) # <<>>
               PROVE  \E m \in Messages : \E k \in 0 .. Len(Packets(m)) - 1 :
                        Behind(Tail(q), Packets(m), k)
    BY <1>4, <1>5 DEF InHand
  <2>1. PICK m \in Messages : \E k \in 0 .. Len(Packets(m)) - 1 : Behind(q, Packets(m), k)
    BY <1>1 DEF IInv, InHand, q
  <2>2. PICK k \in 0 .. Len(Packets(m)) - 1 : Behind(q, Packets(m), k) BY <2>1
  <2>3. Behind(Tail(q), Packets(m), k + 1) /\ k # Len(Packets(m)) - 1
    BY <1>1, <1>2, <2>2, HandStep
  <2>4. Len(Packets(m)) \in Nat BY PacketsOf
  <2>5. k + 1 \in 0 .. Len(Packets(m)) - 1 BY <2>3, <2>4
  <2> QED BY <2>3, <2>5
<1>11. HandedOn'
  <2>1. Len(sent') \in Nat /\ n <= Len(sent') /\ \A i \in 1 .. n : sent'[i] = sent[i]
    BY <1>1, <1>2, <1>7 DEF n
  <2>2. r <= n /\ \A i \in 1 .. r : received[i] = sent[i] BY DEF IInv, HandedOn
  <2>3. \A i \in 1 .. r : i \in 1 .. n BY <1>2
  <2>4. r <= Len(sent') BY <1>2, <2>1, <2>2
  <2> QED BY <1>1, <2>1, <2>2, <2>3, <2>4 DEF HandedOn
<1>12. PICK at : /\ Framed(F, r, sent, at)
                 /\ ~ failed => Joined(F, r, sent, at) /\ Begun(F, sent, todo, at)
  BY DEF IInv, OnTheWay
<1>13. r \in 0 .. n /\ n \in r .. n BY <1>2
<1>14. at[n] \in 0 .. Len(F) BY <1>12, <1>13 DEF Framed
\* Unless a write has failed the packet is the next one of a message.
<1>15. ASSUME ~ failed
       PROVE  \E m \in Messages : \E k \in 0 .. Len(Packets(m)) - 1 :
                /\ Len(F) = at[n] + k /\ x = Packets(m)[k + 1] /\ x.msg = m
                /\ \A j \in 1 .. k : F[at[n] + j] = Packets(m)[j]
                /\ Behind(Tail(q), Packets(m), k + 1)
                /\ Tail(q) = <<>> <=> k = Len(Packets(m)) - 1
  <2>1. PICK m \in Messages : \E k \in 0 .. Len(Packets(m)) - 1 :
          /\ Behind(q, Packets(m), k) /\ Len(F) = at[n] + k
          /\ \A j \in 1 .. k : F[at[n] + j] = Packets(m)[j]
    BY <1>1, <1>12, <1>15 DEF Begun, q
  <2>2. PICK k \in 0 .. Len(Packets(m)) - 1 :
          /\ Behind(q, Packets(m), k) /\ Len(F) = at[n] + k
          /\ \A j \in 1 .. k : F[at[n] + j] = Packets(m)[j]
    BY <2>1
  <2>3. /\ x = Packets(m)[k + 1] /\ x.msg = m /\ Behind(Tail(q), Packets(m), k + 1)
        /\ Tail(q) = <<>> <=> k = Len(Packets(m)) - 1
    BY <1>1, <1>2, <2>2, HandStep DEF x
  <2> QED BY <2>2, <2>3
<1> HIDE DEF F, r
<1>16. CASE Tail(q) # <<>>
  <2>1. ~ Closes(x) /\ sent' = sent BY <1>1, <1>3, <1>16
  <2>2. /\ Framed(Append(F, x), r, sent, at)
        /\ Joined(F, r, sent, at) => Joined(Append(F, x), r, sent, at)
    BY <1>2, <1>3, <1>12, <1>13, <2>1, AppendPlain DEF n
  <2>3. ASSUME ~ failed PROVE Begun(Append(F, x), sent, todo', at)
    <3>1. PICK m \in Messages : \E k \in 0 .. Len(Packets(m)) - 1 :
            /\ Len(F) = at[n] + k /\ x = Packets(m)[k + 1]
            /\ \A j \in 1 .. k : F[at[n] + j] = Packets(m)[j]
            /\ Behind(Tail(q), Packets(m), k + 1) /\ k # Len(Packets(m)) - 1
      BY <1>15, <1>16, <2>3
    <3>2. PICK k \in 0 .. Len(Packets(m)) - 1 :
            /\ Len(F) = at[n] + k /\ x = Packets(m)[k + 1]
            /\ \A j \in 1 .. k : F[at[n] + j] = Packets(m)[j]
            /\ Behind(Tail(q), Packets(m), k + 1) /\ k # Len(Packets(m)) - 1
      BY <3>1
    <3>4. /\ Len(Append(F, x)) = at[n] + (k + 1)
          /\ \A j \in 1 .. k + 1 : Append(F, x)[at[n] + j] = Packets(m)[j]
      <4> DEFINE a == at[n]
      <4>1. a \in Nat BY <1>2, <1>14
      <4>2. Len(F) = a + k /\ x = Packets(m)[k + 1] /\ \A j \in 1 .. k : F[a + j] = Packets(m)[j]
        BY <3>2
      <4>3. F \in Seq(Packet) /\ x \in Packet BY <1>2, <1>3
      <4> HIDE DEF a, n
      <4> QED BY ONLY <4>1, <4>2, <4>3, m \in Messages, k \in 0 .. Len(Packets(m)) - 1, AppendBegun DEF a
    <3>5. Len(Packets(m)) \in Nat BY PacketsOf
    <3>6. k + 1 \in 0 .. Len(Packets(m)) - 1 BY <3>2, <3>5
    <3>7. ~ \A v \in Writers : todo'[v] = <<>> BY <1>4, <1>16
    <3>8. \E j \in 0 .. Len(Packets(m)) - 1 :
            /\ Behind(todo'[w], Packets(m), j) /\ Len(Append(F, x)) = at[n] + j
            /\ \A y \in 1 .. j : Append(F, x)[at[n] + y] = Packets(m)[y]
      BY <1>4, <3>2, <3>4, <3>6, Zenon
    <3>9. \A v \in Writers : todo'[v] # <<>> => v = w BY <1>5
    <3> QED BY <3>7, <3>8, <3>9, Zenon DEF Begun, n
  <2>4. at \in [r .. n -> 0 .. Len(Append(F, x))] BY <2>2 DEF Framed, n
  <2>5. /\ Framed(Flight', Len(received'), sent', at)
        /\ ~ failed' => Joined(Flight', Len(received'), sent', at) /\ Begun(Flight', sent', todo', at)
        /\ at \in [Len(received') .. Len(sent') -> 0 .. Len(Flight')]
    BY <1>1, <1>6, <1>12, <2>1, <2>2, <2>3, <2>4 DEF r, n
  <2>6. OnTheWay' BY <2>5 DEF OnTheWay
  <2> QED BY <1>1, <1>8, <1>9, <1>10, <1>11, <2>6 DEF IInv, Waiting, GarbledOnlyAfterFailure
<1>17. CASE Tail(q) = <<>>
  <2>1. Closes(x) /\ sent' = Append(sent, x.msg) BY <1>1, <1>3, <1>17
  <2>2. PICK on : /\ Framed(Append(F, x), r, Append(sent, x.msg), on)
                  /\ on[n + 1] = Len(F) + 1
                  /\ \A k :
                       /\ Joined(F, r, sent, at) /\ k = Len(Packets(x.msg)) - 1
                       /\ Len(F) = at[n] + k /\ x = Packets(x.msg)[k + 1]
                       /\ \A j \in 1 .. k : F[at[n] + j] = Packets(x.msg)[j]
                       => Joined(Append(F, x), r, Append(sent, x.msg), on)
    BY <1>2, <1>3, <1>12, <1>13, <2>1, AppendLast DEF n
  <2>3. ASSUME ~ failed PROVE Joined(Append(F, x), r, Append(sent, x.msg), on)
    <3>1. PICK m \in Messages : \E k \in 0 .. Len(Packets(m)) - 1 :
            /\ Len(F) = at[n] + k /\ x = Packets(m)[k + 1] /\ x.msg = m
            /\ \A j \in 1 .. k : F[at[n] + j] = Packets(m)[j]
            /\ k = Len(Packets(m)) - 1
      BY <1>15, <1>17, <2>3
    <3> QED BY <1>12, <2>2, <2>3, <3>1
  <2>4. Begun(Append(F, x), Append(sent, x.msg), todo', on)
    <3>1. Len(Append(F, x)) = Len(F) + 1 BY <1>2, <1>3, AppendProperties
    <3>2. \A v \in Writers : todo'[v] = <<>> BY <1>4, <1>5, <1>17
    <3>3. Len(Append(F, x)) = on[Len(Append(sent, x.msg))] BY <1>7, <2>2, <3>1
    <3> QED BY <3>2, <3>3 DEF Begun
  <2>5. on \in [r .. Len(Append(sent, x.msg)) -> 0 .. Len(Append(F, x))] BY <2>2 DEF Framed
  <2>6. /\ Framed(Flight', Len(received'), sent', on)
        /\ ~ failed' => Joined(Flight', Len(received'), sent', on) /\ Begun(Flight', sent', todo', on)
        /\ on \in [Len(received') .. Len(sent') -> 0 .. Len(Flight')]
    BY <1>1, <1>6, <2>1, <2>2, <2>3, <2>4, <2>5 DEF r
  <2>7. OnTheWay' BY <2>6 DEF OnTheWay
  <2> QED BY <1>1, <1>8, <1>9, <1>10, <1>11, <2>7 DEF IInv, Waiting, GarbledOnlyAfterFailure
<1> QED BY <1>16, <1>17

LEMMA FailStep == ASSUME IInv, NEW w \in Writers, WriteFails(w) PROVE IInv'
<1> DEFINE q == todo[w]
           x == Torn(Head(q))
           r == Len(received)
           F == Flight
<1>1. /\ q # <<>> /\ failed' = TRUE /\ todo' = [todo EXCEPT ![w] = <<>>]
      /\ stream' = stream \/ stream' = Append(stream, x)
      /\ UNCHANGED <<holders, sent, buffered, parts, received, reader>>
  BY DEF WriteFails, reading
<1>2. /\ Types /\ todo \in [Writers -> Seq(Packet)] /\ q \in Seq(Packet)
      /\ sent \in Seq(Messages) /\ Len(received) \in 0 .. Len(sent)
      /\ F \in Seq(Packet) /\ stream \in Seq(Packet)
  <2>1. Len(received) \in Nat /\ Len(sent) \in Nat /\ Len(received) <= Len(sent)
    BY LenProperties DEF IInv, Types, HandedOn
  <2>2. Len(received) \in 0 .. Len(sent) BY <2>1
  <2> QED BY <2>2, FlightType DEF IInv, Types
<1>3. x \in Packet /\ ~ Closes(x)
  <2>1. Head(q) \in Packet BY <1>1, <1>2, HeadTailProperties
  <2> QED BY <2>1 DEF Torn, Packet, Closes
<1>4. /\ todo' \in [Writers -> Seq(Packet)] /\ todo'[w] = <<>>
      /\ \A v \in Writers : v # w => todo'[v] = todo[v]
  <2>1. <<>> \in Seq(Packet) BY EmptySeq
  <2> QED BY <1>1, <1>2, <2>1
<1> HIDE DEF q, x, F
<1>5. /\ stream' \in Seq(Packet)
      /\ \/ stream' = stream /\ Flight' = F
         \/ stream' = Append(stream, x) /\ Flight' = Append(F, x)
  <2>1. Append(stream, x) \in Seq(Packet) BY <1>2, <1>3, FlightGrows
  <2>2. CASE stream' = stream
    <3>1. Flight' = Flight BY <1>1, <2>2 DEF Flight
    <3> QED BY <1>2, <2>2, <3>1 DEF F
  <2>3. CASE stream' = Append(stream, x)
    <3>1. parts \o (buffered \o Append(stream, x)) = Append(F, x)
      BY <1>2, <1>3, FlightGrows DEF F
    <3> QED BY <1>1, <2>1, <2>3, <3>1 DEF Flight
  <2> QED BY <1>1, <2>2, <2>3
<1>6. Types' BY <1>1, <1>4, <1>5 DEF IInv, Types
<1>7. OneWriter' BY <1>1, <1>4 DEF IInv, OneWriter
<1>8. InHand'
  <2>1. ASSUME NEW v \in Writers, todo'[v] # <<>>
        PROVE  \E m \in Messages : \E k \in 0 .. Len(Packets(m)) - 1 :
                 Behind(todo'[v], Packets(m), k)
    <3>1. v # w /\ todo'[v] = todo[v] BY <1>4, <2>1
    <3> QED BY <2>1, <3>1 DEF IInv, InHand
  <2> QED BY <2>1 DEF InHand
<1>9. PICK at : Framed(F, r, sent, at) BY DEF IInv, OnTheWay, F
<1>10. Framed(Flight', r, sent, at)
  <2>1. CASE Flight' = F BY <1>9, <2>1
  <2>2. CASE Flight' = Append(F, x)
    <3>1. Framed(Append(F, x), r, sent, at) BY <1>2, <1>3, <1>9, AppendPlain
    <3> QED BY <2>2, <3>1
  <2> QED BY <1>5, <2>1, <2>2
<1>11. at \in [r .. Len(sent) -> 0 .. Len(Flight')] BY <1>10 DEF Framed
<1>12. OnTheWay' BY <1>1, <1>10, <1>11 DEF OnTheWay
<1> QED BY <1>1, <1>6, <1>7, <1>8, <1>12 DEF IInv, Waiting, HandedOn, GarbledOnlyAfterFailure

LEMMA FillStep == ASSUME IInv, Fill PROVE IInv'
<1>1. PICK k \in 1 .. Len(stream) : buffered' = SubSeq(stream, 1, k)
                                    /\ stream' = SubSeq(stream, k + 1, Len(stream))
  BY DEF Fill
<1>2. buffered = <<>> /\ UNCHANGED <<holders, todo, sent, failed, parts, received, reader>>
  BY DEF Fill, writing
<1>3. Types BY DEF IInv
<1>4. buffered' \in Seq(Packet) /\ stream' \in Seq(Packet) /\ Flight' = Flight
  <2>1. parts \o (buffered' \o stream') = Flight BY <1>1, <1>2, <1>3, FlightFills
  <2> QED BY <1>1, <1>2, <1>3, <2>1, FlightFills DEF Flight
<1>5. Types' BY <1>2, <1>4 DEF IInv, Types
<1>6. OnTheWay' BY <1>2, <1>4, SameWay
<1> QED BY <1>2, <1>5, <1>6 DEF IInv, OneWriter, InHand, Waiting, HandedOn, GarbledOnlyAfterFailure

LEMMA GatherStep ==
  ASSUME IInv, buffered # <<>>, Gather(Head(buffered)),
         UNCHANGED <<writing, stream, broken, off, skip>>
  PROVE  IInv'
<1>1. /\ parts' = Taken /\ buffered' = Tail(buffered) /\ Head(buffered).num # 0
      /\ UNCHANGED <<holders, todo, stream, sent, failed, received, reader>>
  BY DEF Gather, writing, Taken
<1>2. Types BY DEF IInv
<1>3. /\ Taken \in Seq(Packet) /\ Tail(buffered) \in Seq(Packet) /\ Flight = Taken \o Rest
      /\ Len(Taken) = Len(parts) + 1 /\ Len(parts) \in Nat /\ Taken[Len(parts) + 1] = Head(buffered)
      /\ \A i \in 1 .. Len(parts) : Taken[i] = parts[i]
  BY <1>1, <1>2, TakenAndRest
<1>4. Flight' = Flight BY <1>1, <1>3 DEF Flight, Rest
<1>5. Types' BY <1>1, <1>3 DEF IInv, Types
<1>6. OnTheWay' BY <1>1, <1>4, SameWay
<1>7. Waiting'
  <2>1. ASSUME NEW i \in 1 .. Len(Taken) PROVE ~ Closes(Taken[i])
    <3>1. CASE i = Len(parts) + 1 BY <1>1, <1>3, <3>1 DEF Closes
    <3>2. CASE i # Len(parts) + 1
      <4>1. i \in 1 .. Len(parts) BY <1>3, <3>2
      <4> QED BY <1>3, <4>1 DEF IInv, Waiting
    <3> QED BY <3>1, <3>2
  <2> QED BY <1>1, <2>1 DEF Waiting
<1> QED BY <1>1, <1>5, <1>6, <1>7 DEF IInv, OneWriter, InHand, HandedOn, GarbledOnlyAfterFailure

\* The message that is handed on is the next of those written, and what is left
\* on its way are the messages behind it.
LEMMA DecodeStep ==
  ASSUME IInv, buffered # <<>>, Closes(Head(buffered)), Decodes(Taken),
         received' = Append(received, Taken[1].msg), parts' = <<>>, buffered' = Tail(buffered),
         UNCHANGED <<holders, todo, stream, sent, failed, reader>>
  PROVE  IInv'
<1> DEFINE r == Len(received)
           n == Len(sent)
           m == Taken[1].msg
<1>1. /\ Types /\ sent \in Seq(Messages) /\ received \in Seq(Messages)
      /\ r \in Nat /\ n \in Nat /\ Flight \in Seq(Packet)
  BY FlightType, LenProperties DEF IInv, Types
<1>2. /\ Taken \in Seq(Packet) /\ Rest \in Seq(Packet) /\ Len(parts) \in Nat
      /\ Tail(buffered) \in Seq(Packet) /\ Len(Taken) = Len(parts) + 1
      /\ Taken[Len(parts) + 1] = Head(buffered) /\ Behind(Rest, Flight, Len(Taken))
  BY <1>1, TakenAndRest, FlightFront
<1>3. m \in Messages
  <2>1. 1 \in 1 .. Len(Taken) BY <1>2
  <2>2. Taken[1] \in Packet BY <1>2, <2>1, ElementOfSeq
  <2> QED BY <2>2 DEF Packet
<1>4. Head(buffered).msg = m
  <2>1. Taken = Packets(m) BY DEF Decodes
  <2>2. Len(parts) + 1 \in 1 .. Len(Packets(m)) BY <1>2, <2>1
  <2>3. Packets(m)[Len(parts) + 1].msg = m BY <1>3, <2>2, PacketsOf
  <2> QED BY <1>2, <2>1, <2>3
<1>5. PICK at : /\ Framed(Flight, r, sent, at)
                /\ ~ failed => Joined(Flight, r, sent, at) /\ Begun(Flight, sent, todo, at)
  BY DEF IInv, OnTheWay
<1>6. r \in 0 .. n - 1 /\ at[r + 1] = Len(Taken) /\ sent[r + 1] = m
  BY <1>2, <1>4, <1>5, EndOfNext
<1> HIDE DEF m
<1>7. received' = Append(received, m) BY DEF m
<1>8. /\ received' \in Seq(Messages) /\ Len(received') = r + 1 /\ received'[r + 1] = m
      /\ \A i \in 1 .. r : received'[i] = received[i]
  BY <1>1, <1>3, <1>7, AppendProperties
<1>9. Types'
  <2>1. <<>> \in Seq(Packet) BY EmptySeq
  <2> QED BY <1>2, <1>8, <2>1 DEF IInv, Types
<1>10. HandedOn'
  <2>1. r + 1 <= n BY <1>1, <1>6
  <2>2. ASSUME NEW i \in 1 .. r + 1 PROVE received'[i] = sent[i]
    <3>1. CASE i = r + 1 BY <1>6, <1>8, <3>1
    <3>2. CASE i # r + 1
      <4>1. i \in 1 .. r BY <1>1, <3>2
      <4> QED BY <1>8, <4>1 DEF IInv, HandedOn
    <3> QED BY <3>1, <3>2
  <2> QED BY <1>8, <2>1, <2>2 DEF HandedOn
<1>11. Waiting'
  <2>1. 1 .. Len(<<>>) = {} OBVIOUS
  <2> QED BY <2>1 DEF Waiting
<1>12. Flight' = Rest
  <2>1. <<>> \o Rest = Rest BY <1>2, ConcatEmptySeq
  <2>2. Flight' = <<>> \o (Tail(buffered) \o stream) BY DEF Flight
  <2> QED BY <2>1, <2>2 DEF Rest
<1>13. Behind(Rest, Flight, at[r + 1]) BY <1>2, <1>6
<1> HIDE DEF r
<1>14. PICK on : /\ Framed(Rest, r + 1, sent, on)
                 /\ \A i \in r + 1 .. n : on[i] = at[i] - at[r + 1]
                 /\ Joined(Flight, r, sent, at) => Joined(Rest, r + 1, sent, on)
  BY <1>1, <1>2, <1>5, <1>6, <1>13, CutMessage
<1>15. n \in r + 1 .. n /\ r + 1 \in r .. n /\ n \in r .. n BY <1>1, <1>6
<1>16. at[n] >= at[r + 1]
  <2>1. /\ at \in [r .. n -> 0 .. Len(Flight)] /\ \A i, j \in r .. n : i < j => at[i] < at[j]
    BY <1>5 DEF Framed
  <2>2. at[n] \in Int /\ at[r + 1] \in Int
    <3> HIDE DEF n
    <3>1. at[n] \in 0 .. Len(Flight) /\ at[r + 1] \in 0 .. Len(Flight) BY <1>15, <2>1
    <3> QED BY <3>1
  <2>3. CASE r + 1 = n BY <2>2, <2>3
  <2>4. CASE r + 1 # n
    <3>1. r + 1 < n BY <1>15, <2>4
    <3>2. at[r + 1] < at[n] BY <1>15, <2>1, <3>1
    <3> QED BY <2>2, <3>2
  <2> QED BY <2>3, <2>4
<1>17. on[n] = at[n] - at[r + 1] BY <1>14, <1>15
<1>18. ASSUME ~ failed PROVE Begun(Rest, sent, todo, on)
  <2>1. Begun(Flight, sent, todo, at) BY <1>5, <1>18
  <2> QED BY <1>1, <1>2, <1>5, <1>6, <1>13, <1>16, <1>17, <2>1, CutBegun DEF n
<1>19. on \in [r + 1 .. n -> 0 .. Len(Rest)] BY <1>14 DEF Framed
<1>20. /\ on \in [Len(received') .. Len(sent') -> 0 .. Len(Flight')]
       /\ Framed(Flight', Len(received'), sent', on)
       /\ ~ failed' => Joined(Flight', Len(received'), sent', on) /\ Begun(Flight', sent', todo', on)
  BY <1>5, <1>8, <1>12, <1>14, <1>18, <1>19 DEF n, r
<1>21. OnTheWay' BY <1>20 DEF OnTheWay
<1> QED BY <1>9, <1>10, <1>11, <1>21 DEF IInv, OneWriter, InHand, GarbledOnlyAfterFailure

\* The reader ends, or waits in a packet; with a torn or a bad one only after a write
\* has failed.
LEMMA EndStep ==
  ASSUME IInv, NEW how, EndsWith(how), how \in {"waiting", "garbled"} => failed,
         UNCHANGED <<writing, stream, broken, off, skip>>
  PROVE  IInv'
<1>1. /\ UNCHANGED <<holders, todo, stream, sent, failed, buffered, parts, received>>
      /\ reader' = how
  BY DEF EndsWith, writing
<1>2. Flight' = Flight BY <1>1 DEF Flight
<1>3. OnTheWay' BY <1>1, <1>2, SameWay
<1> QED BY <1>1, <1>3 DEF IInv, Types, OneWriter, InHand, Waiting, HandedOn, GarbledOnlyAfterFailure

LEMMA ReadStep == ASSUME GoOn \subseteq {TRUE}, IInv, ReadPacket PROVE IInv'
<1> DEFINE p == Head(buffered)
<1>1. buffered # <<>> /\ UNCHANGED <<writing, stream, broken, off, skip>> BY DEF ReadPacket
<1>2. CASE Skipped BY <1>1, <1>2, EndStep DEF Skipped
<1>3. CASE Refused(p)
  <2>1. failed BY <1>1, <1>3, Readable DEF Refused
  <2> QED BY <1>1, <1>3, <2>1, EndStep DEF Refused
<1>4. CASE Await(p)
  <2>1. failed BY <1>1, <1>4, Readable DEF Await, Accepted
  <2>2. EndsWith("waiting") BY <1>4 DEF Await, EndsWith
  <2> QED BY <1>1, <2>1, <2>2, EndStep
<1>5. CASE Gather(p) BY <1>1, <1>5, GatherStep
<1>6. CASE Decode(p)
  <2>1. p.num = 0 /\ Accepted(p) /\ Closes(p) BY <1>6 DEF Decode, Accepted, Closes
  <2>2. CASE Decodes(Taken)
    <3>1. /\ received' = Append(received, Taken[1].msg) /\ parts' = <<>>
          /\ buffered' = Tail(buffered) /\ reader' = reader
      BY <1>6, <2>2 DEF Decode, Taken
    <3> QED BY <1>1, <2>1, <2>2, <3>1, DecodeStep DEF writing
  <2>3. CASE ~ Decodes(Taken)
    <3>1. failed BY <1>1, <2>1, <2>3, Readable
    <3>2. EndsWith("garbled") BY <1>6, <2>3 DEF Decode, Taken
    <3> QED BY <1>1, <3>1, <3>2, EndStep
  <2> QED BY <2>2, <2>3
<1> QED BY <1>2, <1>3, <1>4, <1>5, <1>6 DEF ReadPacket

LEMMA OtherStep ==
  ASSUME IInv, ReadFails \/ TornRefused \/ Disable \/ Break \/ SetSkip \/ UNCHANGED vars
  PROVE  IInv'
<1>1. CASE ReadFails BY <1>1, EndStep DEF ReadFails
<1>2. CASE TornRefused
  <2>1. failed BY <1>2 DEF TornRefused, IInv, GarbledOnlyAfterFailure
  <2> QED BY <1>2, <2>1, EndStep DEF TornRefused
<1>3. CASE Disable \/ Break \/ SetSkip \/ UNCHANGED vars
  <2>1. UNCHANGED <<holders, todo, stream, sent, failed, buffered, parts, received, reader>>
    BY <1>3 DEF Disable, Break, SetSkip, vars, writing, reading
  <2>2. Flight' = Flight BY <2>1 DEF Flight
  <2>3. OnTheWay' BY <2>1, <2>2, SameWay
  <2> QED BY <2>1, <2>3 DEF IInv, Types, OneWriter, InHand, Waiting, HandedOn, GarbledOnlyAfterFailure
<1> QED BY <1>1, <1>2, <1>3

-----------------------------------------------------------------------------
(* ReadCMsg and the other readers that go on with their buffer keep the      *)
(* messages whole, whatever the sizes, the number of writers and the         *)
(* failures of their writes.                                                 *)
THEOREM Invariant == ASSUME GoOn \subseteq {TRUE} PROVE Spec => []IInv
<1>1. IInv /\ [Next]_vars => IInv'
  <2> SUFFICES ASSUME IInv, [Next]_vars PROVE IInv' OBVIOUS
  <2>1. ASSUME NEW w \in Writers, Writer(w) PROVE IInv'
    BY <2>1, LockStep, WriteStep, FailStep, UnlockStep DEF Writer
  <2>2. CASE ReaderStep
    <3>1. CASE Fill BY <3>1, FillStep
    <3>2. CASE ReadPacket BY <3>2, ReadStep
    <3>3. CASE ReadFails BY <3>3, OtherStep
    <3> QED BY <2>2, <3>1, <3>2, <3>3 DEF ReaderStep
  <2>3. CASE TornRefused \/ Disable \/ Break \/ SetSkip \/ UNCHANGED vars BY <2>3, OtherStep
  <2> QED BY <2>1, <2>2, <2>3 DEF Next
<1> QED BY <1>1, InitIInv, PTL DEF Spec

(* What the reader hands on is a prefix of what the writers have written in  *)
(* full: WriteCMsg holds wLock until the last packet, and the decoding of    *)
(* readCMsg refuses what is not one whole message.                           *)
THEOREM MessagesStayWhole == ASSUME GoOn \subseteq {TRUE} PROVE Spec => []Intact
<1>1. IInv => Intact
  <2> SUFFICES ASSUME IInv PROVE Intact OBVIOUS
  <2> DEFINE r == Len(received)
  <2>1. /\ sent \in Seq(Messages) /\ received \in Seq(Messages) /\ r \in Nat /\ Len(sent) \in Nat
        /\ r <= Len(sent) /\ \A i \in 1 .. r : received[i] = sent[i]
    BY LenProperties DEF IInv, Types, HandedOn
  <2>2. \A i \in 1 .. r : sent[i] \in Messages
    <3>1. \A i \in 1 .. r : i \in 1 .. Len(sent) BY <2>1
    <3> QED BY <2>1, <3>1, ElementOfSeq
  <2>3. /\ SubSeq(sent, 1, r) \in Seq(Messages) /\ Len(SubSeq(sent, 1, r)) = r
        /\ \A i \in 1 .. r : SubSeq(sent, 1, r)[i] = sent[i]
    <3>1. 1 \in Int /\ r \in Int /\ (r - 1) + 1 = r BY <2>1
    <3> QED BY <2>1, <2>2, <3>1, SubSeqProperties
  <2>4. SubSeq(sent, 1, r) = received BY <2>1, <2>3, SeqEqual
  <2>5. SubSeq(received, 1, r) = received BY <2>1, SubSeqFull
  <2> QED BY <2>1, <2>4, <2>5 DEF Intact, IsPrefix
<1> QED BY <1>1, Invariant, PTL

(* As long as no write fails the reader accepts every packet, waits in none  *)
(* and decodes every message, for every length and number of writers.        *)
THEOREM ReadableWithoutFailure ==
  ASSUME GoOn \subseteq {TRUE} PROVE Spec => []GarbledOnlyAfterFailure
<1>1. IInv => GarbledOnlyAfterFailure BY DEF IInv
<1> QED BY <1>1, Invariant, PTL

-----------------------------------------------------------------------------
(* The types: that the bufio.Reader never holds more than its size is a sum *)
(* over packets, a recursive function; what it is of the rest of a sequence *)
(* is induction, by the least length at which the claim would fail.         *)

\* A set of numbers has a least one.
LEMMA Smallest ==
  ASSUME NEW T \in SUBSET Nat, T # {}
  PROVE  \E m \in T : \A k \in T : m <= k
<1>1. IsWellFoundedOn(OpToRel(<, Nat), Nat) BY NatLessThanWellFounded
<1>2. \E x \in T : \A y \in T : ~ (<<y, x>> \in OpToRel(<, Nat)) BY <1>1, WFMin
<1>3. \E x \in T : \A y \in T : ~ (y < x) BY <1>2 DEF OpToRel
<1> QED BY <1>3

\* What holds of 0, and of i + 1 whenever it holds of i, holds up to k.
LEMMA UpTo ==
  ASSUME NEW k \in Nat, NEW T, 0 \in T, \A i \in 0 .. k - 1 : i \in T => i + 1 \in T
  PROVE  \A i \in 0 .. k : i \in T
<1> SUFFICES ASSUME NEW i \in 0 .. k, i \notin T PROVE FALSE OBVIOUS
<1> DEFINE U == {j \in 0 .. k : j \notin T}
<1>1. U \in SUBSET Nat /\ U # {} OBVIOUS
<1>2. PICK m \in U : \A j \in U : m <= j BY <1>1, Smallest
<1>3. m # 0 /\ m \in 1 .. k BY <1>2
<1>4. m - 1 \in 0 .. k - 1 /\ m - 1 \in 0 .. k /\ ~ (m <= m - 1) /\ (m - 1) + 1 = m BY <1>3
<1>5. m - 1 \in T BY <1>2, <1>4
<1> QED BY <1>2, <1>4, <1>5

\* sums[i] are the bytes of the first i packets of ps, up to the k-th.
Sums(sums, ps, k) == sums[0] = 0 /\ \A i \in 1 .. k : sums[i] = sums[i - 1] + Header + ps[i].len

\* They can be added up in one way.
LEMMA SumsOnce ==
  ASSUME NEW ps, NEW k \in Nat, NEW f, NEW g, Sums(f, ps, k), Sums(g, ps, k)
  PROVE  \A i \in 0 .. k : f[i] = g[i]
<1> DEFINE T == {i \in 0 .. k : f[i] = g[i]}
<1>1. 0 \in T BY DEF Sums
<1>2. ASSUME NEW i \in 0 .. k - 1, i \in T PROVE i + 1 \in T
  <2>1. i + 1 \in 1 .. k /\ i + 1 \in 0 .. k /\ (i + 1) - 1 = i OBVIOUS
  <2>2. /\ f[i + 1] = f[i] + Header + ps[i + 1].len /\ g[i + 1] = g[i] + Header + ps[i + 1].len
    BY <2>1 DEF Sums
  <2>3. f[i + 1] = g[i + 1] BY <1>2, <2>2
  <2> QED BY <2>1, <2>3
<1> HIDE DEF T
<1>3. \A i \in 0 .. k : i \in T BY <1>1, <1>2, UpTo
<1> QED BY <1>3 DEF T

\* And in one at least.
LEMMA Summable ==
  ASSUME NEW ps \in Seq(Packet)
  PROVE  \E f \in [0 .. Len(ps) -> Nat] : Sums(f, ps, Len(ps))
<1> DEFINE T == {k \in 0 .. Len(ps) : \E f \in [0 .. k -> Nat] : Sums(f, ps, k)}
<1>1. Len(ps) \in Nat /\ \A i \in 1 .. Len(ps) : ps[i].len \in Nat
  <2>1. \A i \in 1 .. Len(ps) : ps[i] \in Packet BY ElementOfSeq
  <2> QED BY <2>1, LenProperties DEF Packet
<1>2. 0 \in T
  <2> DEFINE f == [i \in 0 .. 0 |-> 0]
  <2>1. f \in [0 .. 0 -> Nat] OBVIOUS
  <2>2. f[0] = 0 OBVIOUS
  <2>3. 0 \in 0 .. Len(ps) BY <1>1
  <2> HIDE DEF f
  <2>4. Sums(f, ps, 0) BY <2>2 DEF Sums
  <2> QED BY <2>1, <2>3, <2>4
<1>3. ASSUME NEW k \in 0 .. Len(ps) - 1, k \in T PROVE k + 1 \in T
  <2>1. PICK f \in [0 .. k -> Nat] : Sums(f, ps, k) BY <1>3
  <2> DEFINE next == f[k] + Header + ps[k + 1].len
             g == [i \in 0 .. k + 1 |-> IF i = k + 1 THEN next ELSE f[i]]
  <2>2. k + 1 \in 1 .. Len(ps) /\ k \in 0 .. k /\ k + 1 \in 0 .. Len(ps) /\ k \in Nat BY <1>1
  <2>3. next \in Nat BY <1>1, <2>2, SizeAssumption
  <2> HIDE DEF next
  <2>4. g \in [0 .. k + 1 -> Nat] BY <2>2, <2>3
  <2>5. Sums(g, ps, k + 1)
    <3>1. g[0] = 0 BY <2>1, <2>2 DEF Sums
    <3>2. ASSUME NEW i \in 1 .. k + 1 PROVE g[i] = g[i - 1] + Header + ps[i].len
      <4>1. i \in 0 .. k + 1 /\ i - 1 \in 0 .. k /\ i - 1 \in 0 .. k + 1 /\ i - 1 # k + 1 BY <2>2
      <4>2. g[i - 1] = f[i - 1] BY <4>1
      <4>3. CASE i = k + 1
        <5>1. i - 1 = k BY <2>2, <4>3
        <5>2. g[i] = next BY <4>1, <4>3
        <5> QED BY <4>2, <4>3, <5>1, <5>2 DEF next
      <4>4. CASE i # k + 1
        <5>1. i \in 1 .. k BY <2>2, <4>4
        <5>2. g[i] = f[i] BY <4>1, <4>4
        <5>3. f[i] = f[i - 1] + Header + ps[i].len BY <2>1, <5>1 DEF Sums
        <5> QED BY <4>2, <5>2, <5>3
      <4> QED BY <4>3, <4>4
    <3> HIDE DEF g
    <3> QED BY <3>1, <3>2 DEF Sums
  <2> HIDE DEF g
  <2> QED BY <2>2, <2>4, <2>5
<1> HIDE DEF T
<1>4. \A k \in 0 .. Len(ps) : k \in T BY <1>1, <1>2, <1>3, UpTo
<1>5. Len(ps) \in T BY <1>1, <1>4
<1> QED BY <1>5 DEF T

\* Bytes is that sum.
LEMMA BytesAre ==
  ASSUME NEW ps \in Seq(Packet), NEW f, Sums(f, ps, Len(ps))
  PROVE  Bytes(ps) = f[Len(ps)]
<1> DEFINE Of(m) == [i \in 0 .. Len(ps) |-> IF i = 0 THEN 0 ELSE m[i - 1] + Header + ps[i].len]
           found == CHOOSE m : m = Of(m)
<1>1. Len(ps) \in Nat BY LenProperties
<1>2. Bytes(ps) = found[Len(ps)] BY DEF Bytes
<1>3. found = Of(found)
  <2>1. PICK m \in [0 .. Len(ps) -> Nat] : Sums(m, ps, Len(ps)) BY Summable
  <2>2. ASSUME NEW i \in 0 .. Len(ps) PROVE m[i] = Of(m)[i]
    <3>1. CASE i = 0 BY <2>1, <3>1 DEF Sums
    <3>2. CASE i # 0
      <4>1. i \in 1 .. Len(ps) BY <1>1, <3>2
      <4>2. m[i] = m[i - 1] + Header + ps[i].len BY <2>1, <4>1 DEF Sums
      <4> QED BY <3>2, <4>2
    <3> QED BY <3>1, <3>2
  <2>3. m = [i \in 0 .. Len(ps) |-> m[i]] OBVIOUS
  <2>4. m = Of(m) BY <2>2, <2>3
  <2> HIDE DEF Of
  <2> QED BY <2>4
<1> HIDE DEF found
<1>4. Sums(found, ps, Len(ps))
  <2>1. found[0] = 0 BY <1>1, <1>3
  <2>2. ASSUME NEW i \in 1 .. Len(ps) PROVE found[i] = found[i - 1] + Header + ps[i].len
    <3>1. i \in 0 .. Len(ps) /\ i # 0 BY <1>1
    <3>2. found[i] = Of(found)[i] BY <1>3
    <3>3. Of(found)[i] = found[i - 1] + Header + ps[i].len BY <3>1
    <3> QED BY <3>2, <3>3
  <2> HIDE DEF Of
  <2> QED BY <2>1, <2>2 DEF Sums
<1>5. \A i \in 0 .. Len(ps) : found[i] = f[i] BY <1>1, <1>4, SumsOnce
<1> QED BY <1>1, <1>2, <1>5

\* Of no packet, of one, and of a sequence without its first.
LEMMA BytesOfNone == Bytes(<<>>) = 0
<1>1. <<>> \in Seq(Packet) /\ Len(<<>>) = 0 OBVIOUS
<1>2. PICK f \in [0 .. Len(<<>>) -> Nat] : Sums(f, <<>>, Len(<<>>)) BY <1>1, Summable
<1>3. Bytes(<<>>) = f[0] BY <1>1, <1>2, BytesAre
<1> QED BY <1>2, <1>3 DEF Sums

LEMMA BytesOfOne ==
  ASSUME NEW p \in Packet PROVE Bytes(<<p>>) = Header + p.len
<1>1. <<p>> \in Seq(Packet) /\ Len(<<p>>) = 1 /\ <<p>>[1] = p OBVIOUS
<1>2. PICK f \in [0 .. Len(<<p>>) -> Nat] : Sums(f, <<p>>, Len(<<p>>)) BY <1>1, Summable
<1>3. Bytes(<<p>>) = f[1] BY <1>1, <1>2, BytesAre
<1>4. f[0] = 0 /\ f[1] = f[1 - 1] + Header + p.len BY <1>1, <1>2 DEF Sums
<1>5. f[1 - 1] = 0
  <2>1. 1 - 1 = 0 OBVIOUS
  <2> QED BY <1>4, <2>1
<1>6. p.len \in Nat /\ Header \in Nat BY SizeAssumption DEF Packet
<1> QED BY <1>3, <1>4, <1>5, <1>6

LEMMA BytesOfRest ==
  ASSUME NEW ps \in Seq(Packet), ps # <<>>
  PROVE  Bytes(ps) \in Nat /\ Bytes(Tail(ps)) \in Nat /\ Bytes(Tail(ps)) <= Bytes(ps)
<1> DEFINE qs == Tail(ps)
           first == Header + ps[1].len
<1>1. /\ qs \in Seq(Packet) /\ Len(ps) \in Nat \ {0} /\ Len(qs) = Len(ps) - 1
      /\ \A i \in 1 .. Len(qs) : qs[i] = ps[i + 1]
  BY HeadTailProperties, EmptySeq, LenProperties
<1>2. \A i \in 1 .. Len(ps) : ps[i].len \in Nat
  <2>1. \A i \in 1 .. Len(ps) : ps[i] \in Packet BY ElementOfSeq
  <2> QED BY <2>1 DEF Packet
<1>3. first \in Nat BY <1>1, <1>2, SizeAssumption
<1>4. PICK f \in [0 .. Len(ps) -> Nat] : Sums(f, ps, Len(ps)) BY Summable
<1> HIDE DEF qs
<1>5. PICK g \in [0 .. Len(qs) -> Nat] : Sums(g, qs, Len(qs)) BY <1>1, Summable
<1> DEFINE T == {i \in 0 .. Len(qs) : f[i + 1] = first + g[i]}
<1>6. 0 \in T
  <2>1. 1 \in 1 .. Len(ps) /\ 1 - 1 = 0 /\ 0 + 1 = 1 /\ 0 \in 0 .. Len(qs) BY <1>1
  <2>2. f[1] = f[1 - 1] + Header + ps[1].len /\ f[0] = 0 BY <1>4, <2>1 DEF Sums
  <2>3. g[0] = 0 BY <1>5 DEF Sums
  <2>4. f[1] = 0 + Header + ps[1].len BY <2>1, <2>2
  <2>5. f[0 + 1] = first + g[0] BY <1>2, <2>1, <2>3, <2>4, SizeAssumption
  <2> QED BY <2>1, <2>5
<1>7. ASSUME NEW i \in 0 .. Len(qs) - 1, i \in T PROVE i + 1 \in T
  <2>1. /\ i + 1 \in 1 .. Len(qs) /\ i + 1 \in 0 .. Len(qs) /\ (i + 1) - 1 = i
        /\ (i + 1) + 1 \in 1 .. Len(ps) /\ ((i + 1) + 1) - 1 = i + 1 /\ i \in 0 .. Len(qs)
    BY <1>1
  <2>2. f[(i + 1) + 1] = f[i + 1] + Header + ps[(i + 1) + 1].len
    BY <1>4, <2>1 DEF Sums
  <2>3. g[i + 1] = g[i] + Header + qs[i + 1].len BY <1>5, <2>1 DEF Sums
  <2>4. qs[i + 1].len = ps[(i + 1) + 1].len /\ ps[(i + 1) + 1].len \in Nat BY <1>1, <1>2, <2>1
  <2>5. f[i + 1] = first + g[i] /\ g[i] \in Nat BY <1>7, <2>1
  <2> HIDE DEF first
  <2>6. f[(i + 1) + 1] = first + g[i + 1] BY <1>3, <2>2, <2>3, <2>4, <2>5, SizeAssumption
  <2> QED BY <2>1, <2>6
<1> HIDE DEF T
<1>8. \A i \in 0 .. Len(qs) : i \in T
  <2>1. Len(qs) \in Nat BY <1>1
  <2>2. \A i \in 0 .. Len(qs) - 1 : i \in T => i + 1 \in T BY <1>7
  <2> QED BY <1>6, <2>1, <2>2, UpTo
<1>9. f[Len(qs) + 1] = first + g[Len(qs)] BY <1>1, <1>8 DEF T
<1>10. Bytes(ps) = f[Len(ps)] /\ Bytes(qs) = g[Len(qs)] BY <1>1, <1>4, <1>5, BytesAre
<1>11. g[Len(qs)] \in Nat /\ Len(qs) + 1 = Len(ps) BY <1>1
<1> HIDE DEF first
<1>12. Bytes(ps) \in Nat /\ Bytes(qs) \in Nat /\ Bytes(qs) <= Bytes(ps) BY <1>3, <1>9, <1>10, <1>11
<1> QED BY <1>12 DEF qs

\* A packet that fits into the buffer; every packet does, a torn one too.
Fitting == {p \in Packet : Header + p.len <= Buffer}

Sized ==
  /\ TypeOK /\ todo \in [Writers -> Seq(Fitting)]
  /\ stream \in Seq(Fitting) /\ buffered \in Seq(Fitting) /\ parts \in Seq(Fitting)

LEMMA AllFit ==
  ASSUME NEW m \in Messages PROVE Packets(m) \in Seq(Fitting)
<1>1. Packets(m) \in Seq(Packet) /\ Len(Packets(m)) \in Nat BY PacketsOf
<1>2. \A i \in 1 .. Len(Packets(m)) : Packets(m)[i] \in Packet BY <1>1, ElementOfSeq
<1>3. \A i \in 1 .. Len(Packets(m)) : Header + Packets(m)[i].len <= Buffer
  BY PacketsOf DEF Accepted
<1>4. \A i \in 1 .. Len(Packets(m)) : Packets(m)[i] \in Fitting BY <1>2, <1>3 DEF Fitting
<1> DEFINE q == Packets(m)
           l == Len(q)
<1>5. l \in Nat /\ q \in [1 .. l -> Packet] BY <1>1, LenProperties
<1> HIDE DEF l
<1>6. \A i \in 1 .. l : q[i] \in Fitting BY <1>4 DEF l
<1> HIDE DEF q
<1>7. q \in [1 .. l -> Fitting] BY <1>5, <1>6
<1>8. q \in Seq(Fitting) BY <1>5, <1>7
<1> QED BY <1>8 DEF q

LEMMA FillSized == ASSUME Sized, Fill PROVE Sized'
<1>1. PICK k \in 1 .. Len(stream) :
        /\ k = 1 \/ Bytes(SubSeq(stream, 1, k)) <= Buffer
        /\ buffered' = SubSeq(stream, 1, k)
        /\ stream' = SubSeq(stream, k + 1, Len(stream))
  BY DEF Fill
<1>2. stream \in Seq(Fitting) /\ Len(stream) \in Nat BY LenProperties DEF Sized
<1>3. \A i \in 1 .. Len(stream) : stream[i] \in Fitting BY <1>2, ElementOfSeq
<1>4. buffered' \in Seq(Fitting) /\ stream' \in Seq(Fitting)
  <2>1. SubSeq(stream, 1, k) \in Seq(Fitting) BY <1>2, <1>3, SubSeqProperties
  <2>2. SubSeq(stream, k + 1, Len(stream)) \in Seq(Fitting) BY <1>2, <1>3, SubSeqProperties
  <2> QED BY <1>1, <2>1, <2>2
<1>5. Bytes(SubSeq(stream, 1, k)) <= Buffer
  <2>1. CASE k = 1
    <3>1. stream[1] \in Fitting BY <1>3, <2>1
    <3>2. SubSeq(stream, 1, 1) = <<stream[1]>>
      <4> DEFINE one == <<stream[1]>>
      <4>1. /\ Len(SubSeq(stream, 1, 1)) = 1 /\ SubSeq(stream, 1, 1)[1] = stream[1]
            /\ SubSeq(stream, 1, 1) \in Seq(Fitting)
        BY <1>2, <1>3, <2>1, SubSeqProperties
      <4>2. one \in Seq(Fitting) /\ Len(one) = 1 /\ one[1] = stream[1] BY <3>1
      <4> HIDE DEF one
      <4>3. SubSeq(stream, 1, 1) = one BY <4>1, <4>2, SeqEqual
      <4> QED BY <4>3 DEF one
    <3>3. Bytes(<<stream[1]>>) = Header + stream[1].len BY <3>1, BytesOfOne DEF Fitting
    <3> QED BY <2>1, <3>1, <3>2, <3>3 DEF Fitting
  <2> QED BY <1>1, <2>1
<1>6. Bytes(buffered') <= Buffer BY <1>1, <1>5
<1> QED BY <1>4, <1>6 DEF Sized, TypeOK, Fill, writing

LEMMA ReadSized == ASSUME Sized, ReadPacket PROVE Sized'
<1> DEFINE p == Head(buffered)
           ps == Append(parts, p)
<1>1. /\ buffered \in Seq(Fitting) /\ buffered # <<>> /\ p \in Fitting
      /\ Tail(buffered) \in Seq(Fitting) /\ ps \in Seq(Fitting)
  BY HeadTailProperties, AppendProperties DEF ReadPacket, Sized
<1>2. Bytes(Tail(buffered)) <= Buffer
  <2>1. buffered \in Seq(Packet) BY <1>1 DEF Fitting
  <2>2. /\ Bytes(buffered) \in Nat /\ Bytes(Tail(buffered)) \in Nat
        /\ Bytes(Tail(buffered)) <= Bytes(buffered)
    BY <1>1, <2>1, BytesOfRest
  <2>3. Bytes(buffered) <= Buffer BY DEF Sized, TypeOK
  <2> QED BY <2>2, <2>3, SizeAssumption
<1>3. <<>> \in Seq(Fitting) /\ Bytes(<<>>) <= Buffer
  <2>1. \A n : n = 0 => n <= Buffer BY SizeAssumption
  <2> QED BY <2>1, BytesOfNone
<1>4. ps[1].msg \in Messages
  <2>1. Len(ps) \in Nat \ {0} BY <1>1, AppendProperties DEF Sized
  <2>2. ps[1] \in Fitting BY <1>1, <2>1, ElementOfSeq
  <2> HIDE DEF ps
  <2> QED BY <2>2 DEF Fitting, Packet
<1> HIDE DEF p, ps
<1>5. /\ buffered' = buffered \/ buffered' = Tail(buffered) \/ buffered' = <<>>
      /\ parts' = parts \/ parts' = ps \/ parts' = <<>>
      /\ received' = received \/ received' = Append(received, ps[1].msg)
      /\ reader' \in {"reading", "waiting", "skipped", "lost", "garbled"}
  BY DEF ReadPacket, Skipped, Refused, Await, Gather, Decode, EndsWith, Sized, TypeOK, p, ps
<1>6. /\ buffered' \in Seq(Fitting) /\ Bytes(buffered') <= Buffer /\ parts' \in Seq(Fitting)
  BY <1>1, <1>2, <1>3, <1>5 DEF Sized, TypeOK
<1>7. received' \in Seq(Messages)
  <2> DEFINE m == ps[1].msg
  <2>1. received \in Seq(Messages) /\ m \in Messages BY <1>4 DEF Sized, TypeOK
  <2>2. received' = received \/ received' = Append(received, m) BY <1>5
  <2> HIDE DEF m
  <2>3. Append(received, m) \in Seq(Messages) BY <2>1, AppendProperties
  <2> QED BY <2>1, <2>2, <2>3
<1> QED BY <1>5, <1>6, <1>7 DEF Sized, TypeOK, ReadPacket, writing

LEMMA WriterSized == ASSUME Sized, NEW w \in Writers, Writer(w) PROVE Sized'
<1> USE DEF Sized, TypeOK, reading
<1>1. CASE Lock(w)
  <2>1. PICK m \in Messages : Begin(w, m) BY <1>1 DEF Lock
  <2>2. Packets(m) \in Seq(Fitting) BY AllFit
  <2>3. count[w] + 1 \in 0 .. MaxMsgs BY <2>1, GoOnAssumption DEF Begin
  <2> QED BY <2>1, <2>2, <2>3 DEF Begin
<1>2. ASSUME todo[w] # <<>>
      PROVE  /\ Head(todo[w]) \in Fitting /\ Tail(todo[w]) \in Seq(Fitting)
             /\ Head(todo[w]).msg \in Messages /\ Torn(Head(todo[w])) \in Fitting
  <2>1. Head(todo[w]) \in Fitting /\ Tail(todo[w]) \in Seq(Fitting)
    BY <1>2, HeadTailProperties
  <2> DEFINE x == Head(todo[w])
  <2> HIDE DEF x
  <2>2. x \in Fitting => x.msg \in Messages /\ Torn(x) \in Fitting
    BY DEF Fitting, Packet, Torn
  <2> QED BY <2>1, <2>2 DEF x
<1>3. CASE WritePacket(w)
  <2>1. Append(stream, Head(todo[w])) \in Seq(Fitting)
    BY <1>2, <1>3, AppendProperties DEF WritePacket
  <2>2. Append(sent, Head(todo[w]).msg) \in Seq(Messages)
    BY <1>2, <1>3, AppendProperties DEF WritePacket
  <2> QED BY <1>2, <1>3, <2>1, <2>2 DEF WritePacket
<1>4. CASE WriteFails(w)
  <2>1. Append(stream, Torn(Head(todo[w]))) \in Seq(Fitting)
    BY <1>2, <1>4, AppendProperties DEF WriteFails
  <2>2. stream' \in Seq(Fitting) BY <1>4, <2>1 DEF WriteFails
  <2> QED BY <1>4, <2>2 DEF WriteFails
<1>5. CASE Unlock(w) BY <1>5 DEF Unlock
<1> QED BY <1>1, <1>3, <1>4, <1>5 DEF Writer

(* The types, whatever fn of ReadCMsgCb returns.  Above all, the             *)
(* bufio.Reader never holds more bytes than it has been made for, and Peek   *)
(* can show a whole packet: each fits, and what a read leaves behind is      *)
(* never more than was there.                                                *)
THEOREM StreamTypesOK == Spec => []TypeOK
<1>1. Init => Sized
  <2>1. <<>> \in Seq(Fitting) /\ <<>> \in Seq(Messages) OBVIOUS
  <2>2. Bytes(<<>>) <= Buffer
    <3>1. \A n : n = 0 => n <= Buffer BY SizeAssumption
    <3> QED BY <3>1, BytesOfNone
  <2>3. 0 \in 0 .. MaxMsgs BY GoOnAssumption
  <2> QED BY <2>1, <2>2, <2>3 DEF Init, Sized, TypeOK
<1>2. Sized /\ [Next]_vars => Sized'
  <2> SUFFICES ASSUME Sized, [Next]_vars PROVE Sized' OBVIOUS
  <2>1. CASE \E w \in Writers : Writer(w) BY <2>1, WriterSized
  <2>2. CASE Fill BY <2>2, FillSized
  <2>3. CASE ReadPacket BY <2>3, ReadSized
  <2>4. CASE ReadFails \/ TornRefused
    BY <2>4 DEF ReadFails, TornRefused, EndsWith, Sized, TypeOK, writing
  <2>5. CASE Disable \/ Break \/ SetSkip
    BY <2>5 DEF Disable, Break, SetSkip, Sized, TypeOK, writing, reading
  <2>6. CASE UNCHANGED vars BY <2>6 DEF vars, Sized, TypeOK
  <2> QED BY <2>1, <2>2, <2>3, <2>4, <2>5, <2>6 DEF Next, ReaderStep
<1>3. Sized => TypeOK BY DEF Sized
<1> QED BY <1>1, <1>2, <1>3, PTL DEF Spec

-----------------------------------------------------------------------------
(* The byte counter counts exactly, for every number of goroutines, every    *)
(* length of the run and every chunk size.                                   *)
(*                                                                           *)
(* Neither property is inductive alone.  That a shift or a reset keeps the   *)
(* count exact needs the second it moves to to be untouched (Untouched),     *)
(* which needs the sampled second to lie after t (Sampled); that nobody      *)
(* moves t between the sample and its use is the two locks (Locks).  That    *)
(* an answer stays the count of a finished second needs the counts of the    *)
(* seconds before t to be final, which they are because Set only ever adds   *)
(* to the second t or to a later one.                                        *)

\* Who is inside a method holds its lock.
Locks ==
  /\ \A h \in Setters : wLock = h <=> pc[h] # "idle"
  /\ \A h \in Getters : rLock = h <=> pc[h] # "idle"
  /\ \A h \in Setters : pc[h] \in {"idle", "sample", "add", "shift"}
  /\ \A h \in Getters : pc[h] \in {"idle", "age", "reset"}

\* What a goroutine sampled still relates to t as it did when it sampled.
Sampled ==
  /\ \A h \in Setters : pc[h] = "add" => sample[h] = t
  /\ \A h \in Setters : pc[h] = "shift" => t < sample[h] /\ sample[h] <= now
  /\ \A h \in Getters : pc[h] = "reset" => t < sample[h] /\ sample[h] <= now

Untouched == \A u \in Seconds : u > t => moved[u] = 0

\* n is zero or the final count of a second before t.
Finished(n) == n = 0 \/ \E u \in Seconds : u < t /\ n = moved[u]

TickerInv ==
  /\ TickerTypeOK /\ Locks /\ Sampled /\ Untouched
  /\ t <= now
  /\ CountIsExact
  /\ Finished(read)
  /\ \A h \in Getters : Finished(got[h])

LEMMA InitTickerInv == TickerInit => TickerInv
  BY ThreadAssumption, NumberAssumption
     DEF TickerInit, TickerInv, TickerTypeOK, Locks, Sampled, Untouched, CountIsExact, Finished, Counted,
         Seconds, Never, Threads

\* A step that leaves the counter and the locks alone.
LEMMA TickKeeps == ASSUME TickerInv, Tick PROVE TickerInv'
  BY NumberAssumption
     DEF Tick, TickerInv, TickerTypeOK, Locks, Sampled, Untouched, CountIsExact, Finished, Counted,
         Seconds, Never, Threads

LEMMA SetLockKeeps == ASSUME TickerInv, NEW h \in Setters, SetLock(h) PROVE TickerInv'
  BY SMTT(40), ThreadAssumption, NumberAssumption
     DEF SetLock, Goto, TickerInv, TickerTypeOK, Locks, Sampled, Untouched, CountIsExact, Finished,
         Counted, Seconds, Never, Threads

LEMMA SetSampleKeeps == ASSUME TickerInv, NEW h \in Setters, SetSample(h) PROVE TickerInv'
<1> USE ThreadAssumption, NumberAssumption DEF Seconds, Threads
<1>1. /\ pc[h] = "sample" /\ wLock = h /\ sample' = [sample EXCEPT ![h] = now]
      /\ pc' = [pc EXCEPT ![h] = IF t = now THEN "add" ELSE "shift"]
      /\ UNCHANGED <<now, read, write, t, rLock, wLock, amount, got, sets, moved>>
  BY DEF SetSample, Goto, TickerInv, Locks
<1>2. TickerTypeOK' BY <1>1 DEF TickerInv, TickerTypeOK
<1>3. Locks' BY <1>1 DEF TickerInv, TickerTypeOK, Locks
<1>4. now' \in Int /\ t' \in Int /\ t <= now BY <1>1 DEF TickerInv, TickerTypeOK, Never
<1>5. Sampled' BY <1>1, <1>4 DEF TickerInv, TickerTypeOK, Sampled
<1>6. Untouched' /\ t' <= now' /\ CountIsExact' /\ Finished(read)'
      /\ \A k \in Getters : Finished(got[k])'
  BY <1>1 DEF TickerInv, Untouched, CountIsExact, Counted, Finished
<1> QED BY <1>2, <1>3, <1>5, <1>6 DEF TickerInv

LEMMA SetAddKeeps == ASSUME TickerInv, NEW h \in Setters, SetAdd(h) PROVE TickerInv'
  BY SMTT(40), ThreadAssumption, NumberAssumption
     DEF SetAdd, Goto, TickerInv, TickerTypeOK, Locks, Sampled, Untouched, CountIsExact, Finished,
         Counted, Seconds, Never, Threads

LEMMA SetShiftKeeps == ASSUME TickerInv, NEW h \in Setters, SetShift(h) PROVE TickerInv'
<1> USE ThreadAssumption, NumberAssumption DEF Seconds, Threads
<1>1. /\ pc[h] = "shift" /\ rLock = None /\ wLock = h
      /\ now' = now /\ read' = write /\ write' = amount[h] /\ t' = sample[h]
      /\ wLock' = None /\ rLock' = rLock /\ sample' = sample /\ got' = got
      /\ moved' = [moved EXCEPT ![sample[h]] = @ + amount[h]]
      /\ pc' = [pc EXCEPT ![h] = "idle"] /\ amount' = amount /\ sets' = sets
  BY DEF SetShift, Goto, TickerInv, Locks
<1>2. amount[h] \in Nat /\ sample[h] \in 0..MaxNow /\ t < sample[h] /\ sample[h] <= now
  BY <1>1 DEF TickerInv, TickerTypeOK, Sampled
<1>3. moved' \in [0..MaxNow -> Nat] /\ moved'[sample[h]] = amount[h]
  BY <1>1, <1>2 DEF TickerInv, TickerTypeOK, Untouched
<1>4. \A u \in 0..MaxNow : u # sample[h] => moved'[u] = moved[u]
  BY <1>1 DEF TickerInv, TickerTypeOK
<1>5. TickerTypeOK' BY <1>1, <1>2, <1>3 DEF TickerInv, TickerTypeOK
<1>6. Locks' BY <1>1 DEF TickerInv, TickerTypeOK, Locks
<1>7. \A k \in Threads : pc'[k] = "idle"
  <2>1. \A k \in Getters : pc[k] = "idle" BY <1>1 DEF TickerInv, Locks
  <2>2. \A k \in Setters : k # h => pc[k] = "idle" BY <1>1 DEF TickerInv, Locks
  <2> QED BY <1>1, <2>1, <2>2 DEF TickerInv, TickerTypeOK
<1>8. Sampled' BY <1>7 DEF Sampled
<1>9. Untouched' BY <1>1, <1>2, <1>4 DEF TickerInv, TickerTypeOK, Untouched, Never
<1>10. t' <= now' BY <1>1, <1>2
<1>11. CountIsExact' BY <1>1, <1>2, <1>3 DEF CountIsExact, Counted
<1>12. Finished(read)'
  BY <1>1, <1>2, <1>4 DEF TickerInv, TickerTypeOK, CountIsExact, Counted, Finished, Never
<1>13. \A k \in Getters : Finished(got[k])'
  <2> SUFFICES ASSUME NEW k \in Getters, got[k] # 0
               PROVE  \E u \in 0..MaxNow : u < t' /\ got[k] = moved'[u]
    BY <1>1 DEF Finished
  <2>1. PICK u \in 0..MaxNow : u < t /\ got[k] = moved[u] BY DEF TickerInv, Finished
  <2>2. u < t' BY <1>1, <1>2, <2>1 DEF TickerInv, TickerTypeOK, Never
  <2>3. moved'[u] = moved[u] BY <1>1, <1>4, <2>2
  <2> QED BY <2>1, <2>2, <2>3
<1> QED BY <1>5, <1>6, <1>8, <1>9, <1>10, <1>11, <1>12, <1>13 DEF TickerInv

LEMMA GetStepKeeps == ASSUME TickerInv, NEW h \in Getters, GetStep(h) PROVE TickerInv'
<1>1. CASE GetLock(h)
  <2> USE <1>1, ThreadAssumption, NumberAssumption DEF Seconds, Threads
  <2>1. /\ rLock = None /\ rLock' = h /\ pc' = [pc EXCEPT ![h] = "age"]
        /\ UNCHANGED <<now, read, write, t, wLock, sample, amount, got, sets, moved>>
    BY DEF GetLock, Goto
  <2>2. TickerTypeOK' BY <2>1 DEF TickerInv, TickerTypeOK
  <2>3. Locks' BY <2>1 DEF TickerInv, TickerTypeOK, Locks
  <2>4. Sampled' BY <2>1 DEF TickerInv, TickerTypeOK, Sampled
  <2>5. Untouched' /\ t' <= now' /\ CountIsExact' /\ Finished(read)'
        /\ \A k \in Getters : Finished(got[k])'
    BY <2>1 DEF TickerInv, Untouched, CountIsExact, Counted, Finished
  <2> QED BY <2>2, <2>3, <2>4, <2>5 DEF TickerInv
<1>2. ASSUME NEW n, n \in {read, 0}, pc[h] = "age", Return(h, n),
             UNCHANGED <<now, write, t, wLock, sample, amount, sets, moved>>
      PROVE  TickerInv'
  <2> USE <1>2, ThreadAssumption, NumberAssumption DEF Seconds, Threads
  <2>1. /\ rLock = h /\ read' = n /\ got' = [got EXCEPT ![h] = n]
        /\ rLock' = None /\ pc' = [pc EXCEPT ![h] = "idle"]
    BY DEF Return, Goto, TickerInv, Locks
  <2>2. TickerTypeOK' BY <2>1 DEF TickerInv, TickerTypeOK
  <2>3. Locks' BY <2>1 DEF TickerInv, TickerTypeOK, Locks
  <2>4. Sampled' BY <2>1 DEF TickerInv, TickerTypeOK, Sampled
  <2>5. Finished(n)' BY DEF TickerInv, Finished
  <2>6. Finished(read)' BY <2>1, <2>5 DEF Finished
  <2>7. \A k \in Getters : Finished(got[k])'
    <3>1. \A k \in Getters : got'[k] = IF k = h THEN n ELSE got[k]
      BY <2>1 DEF TickerInv, TickerTypeOK
    <3>2. \A k \in Getters : k # h => Finished(got[k])' BY <3>1 DEF TickerInv, Finished
    <3> QED BY <2>5, <3>1, <3>2 DEF Finished
  <2>8. Untouched' /\ t' <= now' /\ CountIsExact'
    BY DEF TickerInv, Untouched, CountIsExact, Counted
  <2> QED BY <2>2, <2>3, <2>4, <2>6, <2>7, <2>8 DEF TickerInv
<1>3. CASE GetTwoOld(h)
  <2> USE <1>3, ThreadAssumption, NumberAssumption DEF Seconds, Threads
  <2>1. /\ pc[h] = "age" /\ now - t = 2 /\ rLock = h
        /\ sample' = [sample EXCEPT ![h] = now] /\ pc' = [pc EXCEPT ![h] = "reset"]
        /\ UNCHANGED <<now, read, write, t, rLock, wLock, amount, got, sets, moved>>
    BY DEF GetTwoOld, Goto, TickerInv, Locks
  <2>2. TickerTypeOK' BY <2>1 DEF TickerInv, TickerTypeOK
  <2>3. Locks' BY <2>1 DEF TickerInv, TickerTypeOK, Locks
  <2>4. now' \in Int /\ t' \in Int /\ t < now BY <2>1 DEF TickerInv, TickerTypeOK, Never
  <2>5. Sampled' BY <2>1, <2>4 DEF TickerInv, TickerTypeOK, Sampled
  <2>6. Untouched' /\ t' <= now' /\ CountIsExact' /\ Finished(read)'
        /\ \A k \in Getters : Finished(got[k])'
    BY <2>1 DEF TickerInv, Untouched, CountIsExact, Counted, Finished
  <2> QED BY <2>2, <2>3, <2>5, <2>6 DEF TickerInv
<1>4. CASE GetReset(h)
  <2> USE <1>4, ThreadAssumption, NumberAssumption DEF Seconds, Threads
  <2>1. /\ pc[h] = "reset" /\ wLock = None /\ rLock = h
        /\ now' = now /\ read' = 0 /\ write' = 0 /\ t' = sample[h]
        /\ rLock' = None /\ wLock' = wLock /\ sample' = sample /\ moved' = moved
        /\ pc' = [pc EXCEPT ![h] = "idle"] /\ got' = [got EXCEPT ![h] = 0]
        /\ amount' = amount /\ sets' = sets
    BY DEF GetReset, Return, Goto, TickerInv, Locks
  <2>2. TickerTypeOK' BY <2>1 DEF TickerInv, TickerTypeOK
  <2>3. Locks' BY <2>1 DEF TickerInv, TickerTypeOK, Locks
  <2>4. t < sample[h] /\ sample[h] <= now /\ sample[h] \in 0..MaxNow
    BY <2>1 DEF TickerInv, Sampled, TickerTypeOK
  <2>5. \A k \in Threads : pc'[k] = "idle"
    <3>1. \A k \in Setters : pc[k] = "idle" BY <2>1 DEF TickerInv, Locks
    <3>2. \A k \in Getters : k # h => pc[k] = "idle" BY <2>1 DEF TickerInv, Locks
    <3> QED BY <2>1, <3>1, <3>2 DEF TickerInv, TickerTypeOK
  <2>6. Sampled' BY <2>5 DEF Sampled
  <2>7. Untouched' BY <2>1, <2>4 DEF TickerInv, TickerTypeOK, Untouched, Never
  <2>8. t' <= now' BY <2>1, <2>4
  <2>9. CountIsExact' BY <2>1, <2>4 DEF TickerInv, Untouched, CountIsExact, Counted
  <2>10. Finished(read)' BY <2>1 DEF Finished
  <2>11. \A k \in Getters : Finished(got[k])'
    BY <2>1, <2>4 DEF TickerInv, TickerTypeOK, Finished, Never
  <2> QED BY <2>2, <2>3, <2>6, <2>7, <2>8, <2>9, <2>10, <2>11 DEF TickerInv
<1> QED BY <1>1, <1>2, <1>3, <1>4 DEF GetStep, GetFresh, GetStale

\* The invariant holds in every reachable state.
THEOREM TickerInvariance == TickerSpec => []TickerInv
<1>1. ASSUME TickerInv, [TickerNext]_tickerVars PROVE TickerInv'
  <2>1. CASE UNCHANGED tickerVars
    BY <1>1, <2>1 DEF tickerVars, TickerInv, TickerTypeOK, Locks, Sampled, Untouched, CountIsExact,
                      Finished, Counted, Seconds, Threads
  <2>2. CASE TickerNext
    BY <1>1, <2>2, TickKeeps, SetLockKeeps, SetSampleKeeps, SetAddKeeps, SetShiftKeeps,
       GetStepKeeps DEF TickerNext, SetStep
  <2> QED BY <1>1, <2>1, <2>2
<1> QED BY InitTickerInv, <1>1, PTL DEF TickerSpec

\* The clock, the counts and the samples stay numbers of their ranges, and a
\* lock is held by one of the goroutines that takes it (speed.go).
THEOREM TickerTypesOK == TickerSpec => []TickerTypeOK
<1>1. TickerInv => TickerTypeOK BY DEF TickerInv
<1> QED BY TickerInvariance, <1>1, PTL

\* The running count is exact for the second it stands for (speed.go Set).
THEOREM CountsExactly == TickerSpec => []CountIsExact
<1>1. TickerInv => CountIsExact BY DEF TickerInv
<1> QED BY TickerInvariance, <1>1, PTL

\* Get answers with one finished second or with zero (speed.go Get).
THEOREM AnswersOneSecond == TickerSpec => []ReportsOneSecond
<1>1. TickerInv => ReportsOneSecond
  BY NumberAssumption DEF TickerInv, ReportsOneSecond, Finished, TickerTypeOK, Seconds, Never
<1> QED BY TickerInvariance, <1>1, PTL

=============================================================================

----------------------------- MODULE CMsgStream -----------------------------
(***************************************************************************)
(* The message protocol on one direction of a connection (tool/            *)
(* cMsgCrypto.go, cMsgRead.go, WriteCMsg of cMsgTask.go): goroutines that  *)
(* share the connection each cut their message into packets of at most     *)
(* Buffer bytes and write them under a lock; one reader takes packets out  *)
(* of its buffer, puts them together up to the one numbered 0 and decodes  *)
(* the message.                                                            *)
(*                                                                         *)
(* A message is its writer, its number and the length of its encrypted     *)
(* form; a packet is its place in a message.  Decrypting succeeds on the   *)
(* bytes of one whole message only (GCM), the hash of a packet matches     *)
(* only when the packet is whole.  A write that fails may leave a torn     *)
(* packet behind; the connection may survive it (a write deadline), and    *)
(* the reader then waits for the bytes that are missing.                   *)
(***************************************************************************)
EXTENDS Integers, Sequences, FiniteSets, SequencesExt

CONSTANTS Writers,   \* goroutines that write messages
          MaxMsgs,   \* bound: messages written by each
          Lengths,   \* lengths of encrypted messages, in bytes
          Buffer,    \* BufferSize, 4096 in the code
          Header,    \* getHeaderSize(), 92 in the code
          GoOn       \* what fn of ReadCMsgCb may return; {TRUE} for the other readers

ASSUME SizeAssumption == Buffer \in Nat /\ Header \in Nat /\ Header < Buffer
ASSUME LengthsAssumption == Lengths \subseteq Nat \ {0}
ASSUME GoOnAssumption == GoOn \subseteq BOOLEAN /\ MaxMsgs \in Nat

VARIABLES
  holders,   \* the holder of wLock
  count,     \* count[w]: messages writer w has begun
  todo,      \* todo[w]: the packets of its message that w has not written
  stream,    \* packets on their way
  sent,      \* messages written to the last packet, in that order
  failed,    \* some write has failed
  broken,    \* the connection is closed
  off,       \* the writers' context is disabled
  skip,      \* the reader's skip flag: disable, or linkSwitch
  buffered,  \* packets in the reader's bufio.Reader
  parts,     \* packets of the message being put together
  received,  \* messages handed on
  reader     \* "reading", "waiting" in a torn packet; or its end: "skipped", "lost", "garbled"

vars == <<holders, count, todo, stream, sent, failed, broken, off, skip, buffered, parts,
          received, reader>>
writing == <<holders, count, todo, sent, failed>>
reading == <<buffered, parts, received, reader>>

Messages == [src : Writers, no : 1 .. MaxMsgs, len : Lengths]

(* Encode and assemblyBytes: pieces of Buffer - Header bytes, the last one   *)
(* what is left, numbered down to 0.                                         *)
Pieces(n) == (n + (Buffer - Header) - 1) \div (Buffer - Header)

\* Mutant: the number of a packet is what is left with it, never 0.
PacketsOffByOne(m) ==
  LET size == Buffer - Header
  IN [i \in 1 .. Pieces(m.len) |->
       [msg |-> m, num |-> Pieces(m.len) - i + 1, whole |-> TRUE,
        len |-> IF m.len <= i * size THEN m.len - (i - 1) * size ELSE size]]

\* Mutant: the last packet is taken to be a full one, with an empty one behind.
PacketsEmptyLast(m) ==
  LET size == Buffer - Header
      l == m.len \div size + 1
  IN [i \in 1 .. l |->
       [msg |-> m, num |-> l - i, whole |-> TRUE,
        len |-> IF m.len <= i * size THEN m.len - (i - 1) * size ELSE size]]

Packets(m) ==
  LET size == Buffer - Header
  IN [i \in 1 .. Pieces(m.len) |->
       [msg |-> m, num |-> Pieces(m.len) - i, whole |-> TRUE,
        len |-> IF m.len <= i * size THEN m.len - (i - 1) * size ELSE size]]

Torn(p) == [p EXCEPT !.whole = FALSE]

Init ==
  /\ holders = {} /\ count = [w \in Writers |-> 0] /\ todo = [w \in Writers |-> <<>>]
  /\ stream = <<>> /\ sent = <<>> /\ failed = FALSE /\ broken = FALSE
  /\ off = FALSE /\ skip = FALSE
  /\ buffered = <<>> /\ parts = <<>> /\ received = <<>> /\ reader = "reading"

-----------------------------------------------------------------------------
(* WriteCMsg *)

Begin(w, m) ==
  /\ ~off /\ count[w] < MaxMsgs /\ todo[w] = <<>>
  /\ m.src = w /\ m.no = count[w] + 1
  /\ holders' = holders \cup {w}
  /\ count' = [count EXCEPT ![w] = @ + 1]
  /\ todo' = [todo EXCEPT ![w] = Packets(m)]
  /\ UNCHANGED <<stream, sent, failed, broken, off, skip, reading>>

\* Mutant: no lock.
LockNot(w) == w \notin holders /\ \E m \in Messages : Begin(w, m)

Lock(w) == holders = {} /\ \E m \in Messages : Begin(w, m)

(* One packet; with the last of them the message is written. *)
WritePacket(w) ==
  /\ w \in holders /\ todo[w] # <<>> /\ ~broken
  /\ stream' = Append(stream, Head(todo[w]))
  /\ todo' = [todo EXCEPT ![w] = Tail(@)]
  /\ sent' = IF Tail(todo[w]) = <<>> THEN Append(sent, Head(todo[w]).msg) ELSE sent
  /\ UNCHANGED <<holders, count, failed, broken, off, skip, reading>>

(* The write returns an error: none of the packet has gone out, or a part,   *)
(* and the rest of the message is dropped.                                   *)
WriteFails(w) ==
  /\ w \in holders /\ todo[w] # <<>>
  /\ failed' = TRUE
  /\ stream' \in {stream} \cup IF broken THEN {} ELSE {Append(stream, Torn(Head(todo[w])))}
  /\ todo' = [todo EXCEPT ![w] = <<>>]
  /\ UNCHANGED <<holders, count, sent, broken, off, skip, reading>>

Unlock(w) ==
  /\ w \in holders /\ todo[w] = <<>>
  /\ holders' = holders \ {w}
  /\ UNCHANGED <<count, todo, stream, sent, failed, broken, off, skip, reading>>

Disable ==
  /\ ~off /\ off' = TRUE
  /\ UNCHANGED <<writing, stream, broken, skip, reading>>

Break ==
  /\ ~broken /\ broken' = TRUE
  /\ UNCHANGED <<writing, stream, off, skip, reading>>

-----------------------------------------------------------------------------
(* ReadCMsg and ReadCPacket *)

SetSkip ==
  /\ ~skip /\ skip' = TRUE
  /\ UNCHANGED <<writing, stream, broken, off, reading>>

Bytes(ps) ==
  LET n[i \in 0 .. Len(ps)] == IF i = 0 THEN 0 ELSE n[i - 1] + Header + ps[i].len
  IN  n[Len(ps)]

(* Peek on an empty buffer reads what has come in, as far as it fits. *)
Fill ==
  /\ reader = "reading" /\ buffered = <<>>
  /\ \E k \in 1 .. Len(stream) :
       /\ k = 1 \/ Bytes(SubSeq(stream, 1, k)) <= Buffer
       /\ buffered' = SubSeq(stream, 1, k)
       /\ stream' = SubSeq(stream, k + 1, Len(stream))
  /\ UNCHANGED <<writing, broken, off, skip, parts, received, reader>>

EndsWith(r) == reader' = r /\ UNCHANGED <<buffered, parts, received>>

Skipped == skip /\ EndsWith("skipped")

Accepted(p) == p.whole /\ p.len > 0 /\ Header + p.len <= Buffer

Refused(p) == ~skip /\ p.whole /\ ~Accepted(p) /\ EndsWith("garbled")

(* Peek of the length a torn packet announces: skip is looked at no more.    *)
Await(p) ==
  /\ ~skip /\ ~p.whole
  /\ reader' = "waiting" /\ UNCHANGED <<buffered, parts, received>>

(* errWaitPack: more packets are to come. *)
Gather(p) ==
  /\ ~skip /\ Accepted(p) /\ p.num # 0
  /\ parts' = Append(parts, p) /\ buffered' = Tail(buffered)
  /\ UNCHANGED <<received, reader>>

\* Mutant: the bytes are not authenticated.
DecodesAnything(ps) == ps # <<>>

Decodes(ps) == ps = Packets(ps[1].msg)

(* The last packet.  When fn says so ReadCMsgCb returns, and its            *)
(* bufio.Reader goes with it.                                               *)
Decode(p) ==
  LET ps == Append(parts, p)
  IN /\ ~skip /\ Accepted(p) /\ p.num = 0
     /\ \/ /\ Decodes(ps)
           /\ received' = Append(received, ps[1].msg) /\ parts' = <<>>
           /\ \E on \in GoOn : buffered' = IF on THEN Tail(buffered) ELSE <<>>
           /\ UNCHANGED reader
        \/ ~Decodes(ps) /\ EndsWith("garbled")

ReadPacket ==
  /\ reader = "reading" /\ buffered # <<>>
  /\ LET p == Head(buffered) IN Skipped \/ Refused(p) \/ Await(p) \/ Gather(p) \/ Decode(p)
  /\ UNCHANGED <<writing, stream, broken, off, skip>>

Following == Tail(buffered) \o stream

(* The bytes that are missing, which may be few or many, are taken from what  *)
(* was written behind the torn packet, and do not match its hash.            *)
TornRefused ==
  /\ reader = "waiting" /\ Following # <<>>
  /\ EndsWith("garbled")
  /\ UNCHANGED <<writing, stream, broken, off, skip>>

(* However many bytes the torn packet misses, these are as many. *)
Suffices ==
  Bytes(SelectSeq(Following, LAMBDA p : p.whole)) >= Header + Head(buffered).len

(* Peek at the end of the connection, before a packet or in a torn one. *)
ReadFails ==
  /\ reader = "waiting" \/ (reader = "reading" /\ buffered = <<>>)
  /\ broken
  /\ EndsWith("lost")
  /\ UNCHANGED <<writing, stream, broken, off, skip>>

-----------------------------------------------------------------------------
Writer(w) == Lock(w) \/ WritePacket(w) \/ WriteFails(w) \/ Unlock(w)

ReaderStep == Fill \/ ReadPacket \/ ReadFails

Next == \/ \E w \in Writers : Writer(w)
        \/ ReaderStep \/ TornRefused \/ Disable \/ Break \/ SetSkip

Spec == Init /\ [][Next]_vars

(* The reader runs; nothing is asked of the writers.  In a torn packet it    *)
(* may go on as soon as something has come, but must only if that suffices.  *)
FairSpec == Spec /\ WF_vars(ReaderStep) /\ WF_vars(TornRefused /\ Suffices)

-----------------------------------------------------------------------------
TypeOK ==
  /\ holders \subseteq Writers /\ count \in [Writers -> 0 .. MaxMsgs]
  /\ DOMAIN todo = Writers /\ sent \in Seq(Messages)
  /\ {failed, broken, off, skip} \subseteq BOOLEAN
  /\ Bytes(buffered) <= Buffer
  /\ received \in Seq(Messages)
  /\ reader \in {"reading", "waiting", "skipped", "lost", "garbled"}

(* What the reader hands on is what the writers have written in full, every  *)
(* message once, in the order they were written: never one put together of   *)
(* the packets of two, also after a write has failed half way.               *)
Intact == IsPrefix(received, sent)

(* However many goroutines write and however long their messages are, the    *)
(* reader can read them all: it meets a torn packet, a bad one or a bad      *)
(* message only after a write has failed.                                    *)
GarbledOnlyAfterFailure == reader \in {"waiting", "garbled"} => failed

HeldUp == failed /\ reader = "waiting" /\ ~Suffices

(* Every message written in full comes out at the other end or the reader    *)
(* ends; unless a failed write has torn a packet before it and all that is   *)
(* ever written behind is too short to complete that one.                    *)
AllArrive ==
  \A n \in 1 .. MaxMsgs * Cardinality(Writers) :
    (Len(sent) >= n) ~> \/ Len(received) >= n \/ reader \in {"skipped", "lost", "garbled"}
                        \/ []HeldUp

(* The same without the exception, which does not hold of the code.          *)
NoMessageHeldUp ==
  \A n \in 1 .. MaxMsgs * Cardinality(Writers) :
    (Len(sent) >= n) ~> (Len(received) >= n \/ reader \in {"skipped", "lost", "garbled"})
=============================================================================

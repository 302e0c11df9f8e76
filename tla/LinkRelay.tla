----------------------------- MODULE LinkRelay -----------------------------
(***************************************************************************)
(* Two subs that met in a task room, from the moment the second one joins: *)
(* the server goroutine that links them (proxy_task.go), the two handlers  *)
(* that relay bytes (proxy.go, linkBox.go), and the two clients that wait  *)
(* for TaskA and then talk (client_sub.go, cMsgTask.go).                   *)
(*                                                                         *)
(* Side 1 is task.c1, side 2 is task.c2; the goroutine that links them is  *)
(* the handler of side 2.  A TCP connection is two streams, in[s] towards  *)
(* the server and out[s] back; a read takes any prefix of what has         *)
(* arrived.  A message of the application is its number, TaskA is the      *)
(* reply that ends the handshake.  Deadlines of the server are left out:   *)
(* the client's ten seconds end first.  A close is one step here; the      *)
(* steps inside it are the subject of ProxyServer.                         *)
(***************************************************************************)
EXTENDS Naturals, Sequences

CONSTANTS MaxMsgs,   \* bound: messages each application writes
          MayClose   \* whether clients may time out early and close

Side == {1, 2}
Peer(s) == 3 - s
TaskA == 0

ASSUME RelayAssumption == MaxMsgs \in Nat /\ MayClose \in BOOLEAN

VARIABLES
  in, out,       \* in[s], out[s]: the streams of connection s
  srv,           \* srv[s]: the server has the connection open (~disable)
  linkConn,      \* linkConn[s]: set
  linkSwitch,    \* linkSwitch[s]: relay instead of parsing requests
  linkBox,       \* linkBox[s]: set
  handler,       \* handler[s]: where the server's goroutine for s is
  buf,           \* buf[s]: bytes handler s has read and not yet written
  panic,         \* a nil linkBox was called: the process is gone
  client,        \* client[s]: where the client of s is
  sent,          \* sent[s]: messages the application of s has written
  got,           \* got[s]: messages the application of s has read
  late           \* history: late[s] were written with both clients ready

vars == <<in, out, srv, linkConn, linkSwitch, linkBox, handler, buf, panic,
          client, sent, got, late>>
server  == <<linkConn, linkSwitch, linkBox>>
clients == <<client, sent, got, late>>

\* Side 1 has joined and is on its way back to its loop; side 2 is in
\* joinTaskRoom with the room's lock.
Init ==
  /\ in = [s \in Side |-> <<>>] /\ out = [s \in Side |-> <<>>]
  /\ srv = [s \in Side |-> TRUE]
  /\ linkConn = [s \in Side |-> FALSE]
  /\ linkSwitch = [s \in Side |-> FALSE]
  /\ linkBox = [s \in Side |-> FALSE]
  /\ handler = <<"top", "join">>
  /\ buf = [s \in Side |-> <<>>]
  /\ panic = FALSE
  /\ client = [s \in Side |-> "handshake"]
  /\ sent = [s \in Side |-> 0]
  /\ got = [s \in Side |-> <<>>]
  /\ late = [s \in Side |-> {}]

Goto(s, label) == handler' = [handler EXCEPT ![s] = label]
Gone(s) == client[s] \in {"failed", "closed"}

\* The server closes the connections in S: what they have not delivered to the
\* server is dropped, what the server wrote may arrive or not.
Shut(S) ==
  /\ srv' = [x \in Side |-> srv[x] /\ x \notin S]
  /\ in' = [x \in Side |-> IF x \in S THEN <<>> ELSE in[x]]
  /\ \/ out' = out
     \/ out' = [x \in Side |-> IF x \in S THEN <<>> ELSE out[x]]

\* ProxyClient.close: once, and with it the connection it is linked to.
Close(s) ==
  IF srv[s] THEN Shut({s} \cup {x \in {Peer(s)} : linkConn[s] /\ srv[x]})
            ELSE UNCHANGED <<srv, in, out>>

\* A Write to connection s: refused when s is closed; when the client has gone
\* the kernel may still accept the bytes.
Writable(s) == srv[s]
MayFail(s) == ~srv[s] \/ Gone(s)

----------------------------------------------------------------------------
(* joinTaskRoom, run by the handler of side 2 *)

\* initLinkConn on c1: linkConn and linkSwitch are set before linkBox.
SwitchFirst ==
  /\ handler[2] = "join"
  /\ linkConn' = [linkConn EXCEPT ![1] = TRUE]
  /\ linkSwitch' = [linkSwitch EXCEPT ![1] = TRUE]
  /\ Goto(2, "switched")
  /\ UNCHANGED <<in, out, srv, linkBox, buf, panic>> /\ UNCHANGED clients

BoxFirst ==
  /\ handler[2] = "switched"
  /\ linkBox' = [linkBox EXCEPT ![1] = TRUE]
  /\ Goto(2, "boxed")
  /\ UNCHANGED <<in, out, srv, linkConn, linkSwitch, buf, panic>> /\ UNCHANGED clients

\* Mutant: c1 hears of the link before c2 has been switched.
LinkSecondLate ==
  /\ handler[2] = "boxed"
  /\ Goto(2, "linked")
  /\ UNCHANGED <<in, out, srv, linkConn, linkSwitch, linkBox, buf, panic>> /\ UNCHANGED clients

\* initLinkConn on c2, whose handler is busy right here.
LinkSecond ==
  /\ handler[2] = "boxed"
  /\ linkConn' = [linkConn EXCEPT ![2] = TRUE]
  /\ linkSwitch' = [linkSwitch EXCEPT ![2] = TRUE]
  /\ linkBox' = [linkBox EXCEPT ![2] = TRUE]
  /\ Goto(2, "linked")
  /\ UNCHANGED <<in, out, srv, buf, panic>> /\ UNCHANGED clients

\* writeCMsgAndCheck of TaskA: a failed write closes the connection.
Tell(s) ==
  \/ /\ Writable(s)
     /\ out' = [out EXCEPT ![s] = Append(@, TaskA)]
     /\ UNCHANGED <<in, srv>>
  \/ MayFail(s) /\ Close(s)

TellFirst ==
  /\ handler[2] = "linked"
  /\ Tell(1)
  /\ Goto(2, "told")
  /\ UNCHANGED <<buf, panic>> /\ UNCHANGED server /\ UNCHANGED clients

TellSecond ==
  /\ handler[2] = "told"
  /\ Tell(2)
  /\ Goto(2, "top")
  /\ UNCHANGED <<buf, panic>> /\ UNCHANGED server /\ UNCHANGED clients

----------------------------------------------------------------------------
(* tcpHandler: the loop of either handler *)

Loop(s) ==
  /\ handler[s] = "top"
  /\ linkSwitch[s] => linkBox[s]
  /\ Goto(s, IF linkSwitch[s] THEN "read" ELSE "peek")
  /\ UNCHANGED <<in, out, srv, buf, panic>> /\ UNCHANGED server /\ UNCHANGED clients

\* The switch is on and the box is not there yet: a nil receiver, the process
\* dies and takes every connection with it.
NilBox(s) ==
  /\ handler[s] = "top" /\ linkSwitch[s] /\ ~linkBox[s]
  /\ panic' = TRUE
  /\ handler' = [x \in Side |-> "gone"]
  /\ Shut(Side)
  /\ buf' = [x \in Side |-> <<>>]
  /\ UNCHANGED server /\ UNCHANGED clients

\* Mutant: the switch is not looked at again, the parser waits for the rest of
\* a packet header.
PeekWaits(s) ==
  /\ handler[s] = "peek" /\ in[s] # <<>>
  /\ UNCHANGED vars

\* ReadCPacket: woken by a first byte, the handler looks at the switch again.
\* ErrReadCSkipToFastConn sends it back to its loop with the bytes still there;
\* without the switch, payload is no packet and the connection is closed.
Peek(s) ==
  /\ handler[s] = "peek" /\ in[s] # <<>>
  /\ IF linkSwitch[s] THEN Goto(s, "top") /\ UNCHANGED <<in, out, srv>>
                      ELSE Goto(s, "gone") /\ Close(s)
  /\ UNCHANGED <<buf, panic>> /\ UNCHANGED server /\ UNCHANGED clients

\* Mutant: a second read before the buffer has been written.
ReadLinkAgain(s) ==
  /\ handler[s] = "read" /\ srv[s]
  /\ \E k \in 1..Len(in[s]) :
       /\ buf' = [buf EXCEPT ![s] = SubSeq(in[s], 1, k)]
       /\ in' = [in EXCEPT ![s] = SubSeq(@, k + 1, Len(@))]
  /\ \E label \in {"read", "write"} : Goto(s, label)
  /\ UNCHANGED <<out, srv, panic>> /\ UNCHANGED server /\ UNCHANGED clients

\* WriteLinkBoxFromReader, first half: any prefix of what has arrived.
ReadLink(s) ==
  /\ handler[s] = "read" /\ srv[s]
  /\ \E k \in 1..Len(in[s]) :
       /\ buf' = [buf EXCEPT ![s] = SubSeq(in[s], 1, k)]
       /\ in' = [in EXCEPT ![s] = SubSeq(@, k + 1, Len(@))]
  /\ Goto(s, "write")
  /\ UNCHANGED <<out, srv, panic>> /\ UNCHANGED server /\ UNCHANGED clients

\* Second half: the whole buffer goes to the peer, under its writeLock.
WriteLink(s) ==
  /\ handler[s] = "write" /\ Writable(Peer(s))
  /\ out' = [out EXCEPT ![Peer(s)] = @ \o buf[s]]
  /\ buf' = [buf EXCEPT ![s] = <<>>]
  /\ Goto(s, "top")
  /\ UNCHANGED <<in, srv, panic>> /\ UNCHANGED server /\ UNCHANGED clients

WriteLinkFails(s) ==
  /\ handler[s] = "write" /\ MayFail(Peer(s))
  /\ Close(s)
  /\ buf' = [buf EXCEPT ![s] = <<>>]
  /\ Goto(s, "gone")
  /\ UNCHANGED panic /\ UNCHANGED server /\ UNCHANGED clients

\* The read ends: the client has closed and everything it sent has been read,
\* or the server has closed the connection.
ReadEnds(s) ==
  /\ handler[s] \in {"peek", "read"}
  /\ ~srv[s] \/ (Gone(s) /\ in[s] = <<>>)
  /\ Close(s)
  /\ Goto(s, "gone")
  /\ UNCHANGED <<buf, panic>> /\ UNCHANGED server /\ UNCHANGED clients

----------------------------------------------------------------------------
(* The clients *)

\* The handshake reads through a buffer of its own (TaskCbContext.ReadCMsg): a
\* prefix of the stream goes into it, and what follows TaskA there is thrown
\* away with it.  A prefix that starts with payload is no packet: the reading
\* goroutine gives up and the handshake can only time out.
HandshakeRead(s) ==
  /\ client[s] = "handshake"
  /\ \E k \in 1..Len(out[s]) :
       out' = [out EXCEPT ![s] = SubSeq(@, k + 1, Len(@))]
  /\ client' = [client EXCEPT ![s] = IF Head(out[s]) = TaskA THEN "open" ELSE "deaf"]
  /\ UNCHANGED <<in, srv, handler, buf, panic, sent, got, late>> /\ UNCHANGED server

HandshakeEnds(s) ==
  /\ client[s] = "handshake" /\ ~srv[s] /\ out[s] = <<>>
  /\ client' = [client EXCEPT ![s] = "deaf"]
  /\ UNCHANGED <<in, out, srv, handler, buf, panic, sent, got, late>> /\ UNCHANGED server

\* WaitCb's ten seconds are over: fastHandshake fails and the sub is closed.
Timeout(s) ==
  /\ client[s] = "deaf" \/ (MayClose /\ client[s] = "handshake")
  /\ client' = [client EXCEPT ![s] = "failed"]
  /\ UNCHANGED <<in, out, srv, handler, buf, panic, sent, got, late>> /\ UNCHANGED server

\* SubBox.Write.  On a connection the server has closed the bytes are lost.
Send(s) ==
  /\ client[s] = "open" /\ sent[s] < MaxMsgs
  /\ sent' = [sent EXCEPT ![s] = @ + 1]
  /\ in' = IF srv[s] THEN [in EXCEPT ![s] = Append(@, sent[s] + 1)] ELSE in
  /\ late' = IF client[Peer(s)] = "open" THEN [late EXCEPT ![s] = @ \cup {sent[s] + 1}]
                                         ELSE late
  /\ UNCHANGED <<out, srv, handler, buf, panic, client, got>> /\ UNCHANGED server

\* SubBox.Read.
Receive(s) ==
  /\ client[s] = "open" /\ out[s] # <<>>
  /\ got' = [got EXCEPT ![s] = Append(@, Head(out[s]))]
  /\ out' = [out EXCEPT ![s] = Tail(@)]
  /\ UNCHANGED <<in, srv, handler, buf, panic, client, sent, late>> /\ UNCHANGED server

\* SubBox.Close.  TCP delivers what was written before, or a reset drops it.
Hangup(s) ==
  /\ MayClose /\ client[s] = "open"
  /\ client' = [client EXCEPT ![s] = "closed"]
  /\ in' \in {in, [in EXCEPT ![s] = <<>>]}
  /\ UNCHANGED <<out, srv, handler, buf, panic, sent, got, late>> /\ UNCHANGED server

----------------------------------------------------------------------------

Join == SwitchFirst \/ BoxFirst \/ LinkSecond \/ TellFirst \/ TellSecond
Handler(s) ==
  \/ Loop(s) \/ NilBox(s) \/ Peek(s)
  \/ ReadLink(s) \/ WriteLink(s) \/ WriteLinkFails(s) \/ ReadEnds(s)
Handshake(s) == HandshakeRead(s) \/ HandshakeEnds(s) \/ Timeout(s)
Client(s) == Handshake(s) \/ Send(s) \/ Receive(s) \/ Hangup(s)

Next == Join \/ \E s \in Side : Handler(s) \/ Client(s)

Spec == Init /\ [][Next]_vars

\* Goroutines that can run do run, the timer of a handshake fires, and an
\* application that has an open SubBox keeps reading it.
Fairness ==
  /\ WF_vars(Join)
  /\ \A s \in Side : WF_vars(Handler(s)) /\ WF_vars(Handshake(s)) /\ WF_vars(Receive(s))

FairSpec == Spec /\ Fairness

----------------------------------------------------------------------------
(* Properties *)

Labels == {"join", "switched", "boxed", "linked", "told", "top", "peek", "read", "write", "gone"}
Message == 1..MaxMsgs
Items(q) == {q[i] : i \in DOMAIN q}

\* The variables have their types.
TypeOK ==
  /\ in \in [Side -> Seq(Message)] /\ out \in [Side -> Seq(Message \cup {TaskA})]
  /\ buf \in [Side -> Seq(Message)] /\ got \in [Side -> Seq(Message)]
  /\ srv \in [Side -> BOOLEAN] /\ linkConn \in [Side -> BOOLEAN]
  /\ linkSwitch \in [Side -> BOOLEAN] /\ linkBox \in [Side -> BOOLEAN]
  /\ handler \in [Side -> Labels]
  /\ client \in [Side -> {"handshake", "deaf", "failed", "open", "closed"}]
  /\ sent \in [Side -> 0..MaxMsgs] /\ late \in [Side -> SUBSET Message]
  /\ panic \in BOOLEAN

\* The relay never reads payload as a request: whoever may send payload has its
\* switch on already (proxy_task.go links both sides before it tells either).
SwitchedBeforePayload == \A s \in Side : in[s] # <<>> => linkSwitch[s]

\* A handler parked in Peek when the link is made is woken by the first payload
\* and relays it: what is written with both handshakes done arrives, unless the
\* link is closed.
LateArrives ==
  \A s \in Side : \A n \in Message :
    n \in late[s] ~> (n \in Items(got[Peer(s)]) \/ \E x \in Side : ~srv[x] \/ Gone(x))

\* A handler that finds its switch on finds its buffer (proxy.go calls linkBox
\* without a check).
RelayHasBuffer == ~panic

\* What one test client writes after its dial the other one reads
\* (_test/testcase/03testsub.go).
TestSub == (sent[2] >= 1) ~> (1 \in Items(got[1]))

----------------------------------------------------------------------------
(* The abstract specification *)

\* What is in a stream but TaskA, which is in it once at the most.
Payload(q) ==
  IF TaskA \notin Items(q) THEN q
  ELSE LET i == CHOOSE j \in DOMAIN q : q[j] = TaskA
       IN  [j \in 1..Len(q) - 1 |-> IF j < i THEN q[j] ELSE q[j + 1]]

\* On its way from s: written to the peer, held by the handler, or still on its
\* way to the server; the last two only while the peer can be written to.
OnItsWay(s) ==
  Payload(out[Peer(s)]) \o (IF srv[Peer(s)] THEN buf[s] \o in[s] ELSE <<>>)

Pipe == INSTANCE LinkPipe WITH
  pipe   <- [s \in Side |-> OnItsWay(s)],
  wrote  <- sent,
  taken  <- got,
  ready  <- [s \in Side |-> client[s] \in {"open", "closed"}],
  broken <- \E s \in Side : ~srv[s] \/ Gone(s)

\* Two linked subs are two pipes: the relay reorders, duplicates and invents
\* nothing, and loses only in a handshake or when the link breaks.
RelayIsPipe == Pipe!PipeSpec

=============================================================================

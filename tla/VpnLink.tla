------------------------------- MODULE VpnLink -------------------------------
(***************************************************************************)
(* A LinkClient (client/client_vpn.go): what an application writes to      *)
(* copyConn is carried to a third host, the target, and back.  Through the *)
(* proxy it travels inside messages, ConnVPNQ2 and ConnVPNA2, and the      *)
(* server holds the connection to the target (server/proxy_vpn.go); without *)
(* a proxy the client copies bytes itself.                                 *)
(*                                                                         *)
(* There are three TCP connections in a row, app - copyConn, linkConn -    *)
(* rawConn and server - target; without a proxy linkConn leads to the      *)
(* target.  A socket that has been closed or left by its other end fails   *)
(* to read once what was sent is taken, or earlier by a reset, and what is *)
(* written to it is lost or fails.  A goroutine's Read and the Write that  *)
(* follows it are one step unless the Write has to wait.  A write          *)
(* of several packets under wLock or writeLock is one step too, and leaves  *)
(* nothing behind when it fails (CMsgStream has the torn packets).          *)
(***************************************************************************)
EXTENDS Naturals, Sequences

CONSTANTS Modes,      \* the links that may be made: "proxy", "direct"
          AppMsgs,    \* bound: messages the application writes
          TargetMsgs, \* bound: messages the target writes
          MaxCalls,   \* bound: calls of Close, WriteToLinkConn and SetDeadline
          Room        \* what the socket of the app and of the target hold unread

ASSUME ModesAssumption == Modes \subseteq {"proxy", "direct"}
ASSUME BoundsAssumption == AppMsgs \in Nat /\ TargetMsgs \in Nat /\ MaxCalls \in Nat /\ Room \in Nat \ {0}

Data(n) == [kind |-> "data", n |-> n]
Own(n)  == [kind |-> "own", n |-> n]
Q1      == [kind |-> "Q1", n |-> 0]
A1(c)   == [kind |-> c, n |-> 1]         \* ConnVPNA1, "ok" or "bad"
Item    == [kind : {"data", "own", "Q1", "ok", "bad"}, n : Nat]

VARIABLES
  mode,      \* who holds the connection to the target
  caller,    \* LinkOtherConn, then Wait
  answer,    \* the channel of the WaitCb: what its callback returned
  reader,    \* the goroutine of handleCMsg, or the second io.Copy of directConn
  copier,    \* the copy loop of proxyConn, or the first io.Copy of directConn
  closing,   \* the Once of Close: "no", "begun", "done"
  stop,      \* the token Close leaves for Wait
  crashed,   \* the program has panicked
  copyConn, linkConn,        \* the sockets of the client
  rawConn, targetConn,       \* the sockets of the server
  app, target,               \* the two ends
  handler,   \* tcpHandler of the server
  relayer,   \* readLinkConn of the server
  expired,   \* whose deadline has passed: "raw", set by the server, "copy", "link"
  up,        \* up[i]: on the way to the target, on connection i
  down,      \* down[i]: on the way to the application
  wrote, calls, taken

client   == <<caller, answer, reader, copier, closing, stop, crashed>>
sockets  == <<copyConn, linkConn>>
server   == <<rawConn, targetConn, handler, relayer>>
ends     == <<app, target, wrote, taken>>
vars == <<mode, client, sockets, server, ends, expired, up, down, calls>>

Direct == mode = "direct"

Init ==
  /\ mode \in Modes
  /\ caller = "idle" /\ answer = "none" /\ reader = "off" /\ copier = "off"
  /\ closing = "no" /\ stop = FALSE /\ crashed = FALSE
  /\ copyConn = "open" /\ linkConn = "none"
  /\ rawConn = "none" /\ targetConn = "none" /\ app = "open" /\ target = "none"
  /\ handler = "off" /\ relayer = "off" /\ expired = {}
  /\ up = [i \in 1 .. 3 |-> <<>>] /\ down = [i \in 1 .. 3 |-> <<>>]
  /\ wrote = [s \in {1, 2} |-> 0] /\ calls = 0 /\ taken = [s \in {1, 2} |-> <<>>]

-----------------------------------------------------------------------------
(* Sockets *)

Late(conn) == conn \in expired

(* What the pipe q holds after m has been written to it by a socket in state *)
(* here whose other end is there, and whether the write fails.               *)
Writes(q, m, here, there) ==
  IF here # "open" THEN {[q |-> q, fails |-> TRUE]}
  ELSE IF there \in {"closed", "gone"} THEN {[q |-> q, fails |-> f] : f \in BOOLEAN}
  ELSE {[q |-> Append(q, m), fails |-> FALSE]}

\* The same for a socket of the client, on which its owner may set a deadline.
ClientWrites(q, m, conn, here, there) ==
  IF Late(conn) THEN {[q |-> q, fails |-> TRUE]} ELSE Writes(q, m, here, there)

\* A read may fail once either end has been closed.
ReadFails(here, there) == here = "closed" \/ there \in {"closed", "gone"}

\* A write waits while the socket of an end that reads nothing is full.
HasRoom(q, here, there) == Len(q) < Room \/ ReadFails(here, there)

-----------------------------------------------------------------------------
(* The two ends *)

\* The socket the target is connected to.
TowardsTarget == IF Direct THEN linkConn ELSE targetConn

AppWrite ==
  /\ app = "open" /\ caller # "idle" /\ wrote[1] < AppMsgs
  /\ wrote' = [wrote EXCEPT ![1] = @ + 1]
  /\ \E w \in Writes(up[1], Data(wrote[1] + 1), app, copyConn) : up' = [up EXCEPT ![1] = w.q]
  /\ UNCHANGED <<mode, client, sockets, server, app, target, taken, expired, down, calls>>

AppRead ==
  /\ app = "open" /\ down[3] # <<>>
  /\ taken' = [taken EXCEPT ![1] = Append(@, Head(down[3]).n)]
  /\ down' = [down EXCEPT ![3] = Tail(@)]
  /\ UNCHANGED <<mode, client, sockets, server, app, target, wrote, expired, up, calls>>

TargetAccept ==
  /\ target = "asked" /\ target' = "open"
  /\ UNCHANGED <<mode, client, sockets, server, app, wrote, taken, expired, up, down, calls>>

TargetWrite ==
  /\ target = "open" /\ wrote[2] < TargetMsgs
  /\ wrote' = [wrote EXCEPT ![2] = @ + 1]
  /\ \E w \in Writes(down[1], Data(wrote[2] + 1), target, TowardsTarget) :
       down' = [down EXCEPT ![1] = w.q]
  /\ UNCHANGED <<mode, client, sockets, server, app, target, taken, expired, up, calls>>

TargetRead ==
  /\ target = "open" /\ up[3] # <<>>
  /\ taken' = IF Head(up[3]).kind = "own" THEN taken
              ELSE [taken EXCEPT ![2] = Append(@, Head(up[3]).n)]
  /\ up' = [up EXCEPT ![3] = Tail(@)]
  /\ UNCHANGED <<mode, client, sockets, server, app, target, wrote, expired, down, calls>>

AppLeaves ==
  /\ app = "open" /\ caller # "idle" /\ app' = "gone"
  /\ UNCHANGED <<mode, client, sockets, server, target, wrote, taken, expired, up, down, calls>>

TargetLeaves ==
  /\ target = "open" /\ target' = "gone"
  /\ UNCHANGED <<mode, client, sockets, server, app, wrote, taken, expired, up, down, calls>>

-----------------------------------------------------------------------------
(* LinkClient.Close, by any goroutine.  disable and the disable of the      *)
(* context come first, then the sockets and the token.  A LinkClient        *)
(* without a proxy has no context: Close dereferences a nil pointer.        *)

CallClose ==
  /\ closing' = IF closing = "no" THEN "begun" ELSE closing
  /\ UNCHANGED <<crashed, sockets>>

Panic ==
  /\ crashed' = TRUE /\ copyConn' = "closed" /\ linkConn' = "closed"
  /\ UNCHANGED closing

CloseBody ==
  /\ closing = "begun" /\ ~crashed
  /\ closing' = "done" /\ stop' = TRUE
  /\ copyConn' = "closed" /\ linkConn' = "closed"
  /\ UNCHANGED <<mode, caller, answer, reader, copier, crashed, server, ends, expired,
                 up, down, calls>>

UserClose ==
  /\ caller = "ok" /\ closing = "no" /\ ~crashed /\ calls < MaxCalls
  /\ calls' = calls + 1
  /\ IF Direct THEN Panic ELSE CallClose
  /\ UNCHANGED <<mode, caller, answer, reader, copier, stop, server, ends, expired, up, down>>

-----------------------------------------------------------------------------
(* LinkOtherConn and Wait *)

Refused ==
  /\ caller = "idle" /\ caller' = "failed"
  /\ UNCHANGED <<mode, answer, reader, copier, closing, stop, crashed, sockets, server,
                 ends, expired, up, down, calls>>

(* proxyConn up to the start of the reader. *)
DialProxy ==
  /\ caller = "idle" /\ ~Direct
  /\ caller' = "dialed" /\ reader' = "on" /\ linkConn' = "open"
  /\ rawConn' = "open" /\ handler' = "init"
  /\ UNCHANGED <<mode, answer, copier, closing, stop, crashed, copyConn, targetConn,
                 relayer, ends, expired, up, down, calls>>

(* directConn: two io.Copy. *)
DialDirect ==
  /\ caller = "idle" /\ Direct
  /\ caller' = "ok" /\ reader' = "on" /\ copier' = "on" /\ linkConn' = "open"
  /\ target' = "asked"
  /\ UNCHANGED <<mode, answer, closing, stop, crashed, copyConn, server, app, wrote,
                 taken, expired, up, down, calls>>

(* handshakeCheck: WaitCb writes ConnVPNQ1 unless the context is disabled. *)
Ask ==
  /\ caller = "dialed"
  /\ IF closing # "no" THEN caller' = "failed" /\ UNCHANGED up
     ELSE \E w \in ClientWrites(up[2], Q1, "link", linkConn, rawConn) :
            /\ up' = [up EXCEPT ![2] = w.q]
            /\ caller' = IF w.fails THEN "failed" ELSE "asking"
  /\ UNCHANGED <<mode, answer, reader, copier, closing, stop, crashed, sockets, server,
                 ends, expired, down, calls>>

\* Mutant: the copy loop is started before the answer is there.
AskTimeoutCopies ==
  /\ caller = "asking"
  /\ caller' = "failed" /\ copier' = "on"
  /\ UNCHANGED <<mode, answer, reader, closing, stop, crashed, sockets, server, ends,
                 expired, up, down, calls>>

(* Three seconds without an answer: proxyConn returns the error and leaves  *)
(* linkConn and the reader behind.                                          *)
AskTimeout ==
  /\ caller = "asking"
  /\ caller' = "failed"
  /\ UNCHANGED <<mode, answer, reader, copier, closing, stop, crashed, sockets, server,
                 ends, expired, up, down, calls>>

Answered ==
  /\ caller = "asking" /\ answer # "none"
  /\ IF answer = "ok" THEN caller' = "ok" /\ copier' = "on"
                      ELSE caller' = "failed" /\ UNCHANGED copier
  /\ UNCHANGED <<mode, answer, reader, closing, stop, crashed, sockets, server, ends,
                 expired, up, down, calls>>

(* Wait, called as soon as there is a LinkClient to wait for. *)
WaitReturn ==
  /\ caller = "ok" /\ stop
  /\ caller' = "done" /\ stop' = FALSE
  /\ UNCHANGED <<mode, answer, reader, copier, closing, crashed, sockets, server, ends,
                 expired, up, down, calls>>

(* WriteToLinkConn: a message of the owner's own between those of the app.   *)
WriteToLinkConn ==
  /\ caller = "ok" /\ ~crashed /\ calls < MaxCalls
  /\ calls' = calls + 1
  /\ \E w \in IF Direct THEN ClientWrites(up[3], Own(calls'), "link", linkConn, target)
                        ELSE ClientWrites(up[2], Own(calls'), "link", linkConn, rawConn) :
       up' = [up EXCEPT ![IF Direct THEN 3 ELSE 2] = w.q]
  /\ UNCHANGED <<mode, client, sockets, server, ends, expired, down>>

(* SetDeadline and the like, on either socket, and the time that passes.  A  *)
(* deadline that is moved before it has failed anything changes nothing.     *)
SetDeadline(conn) ==
  /\ caller = "ok" /\ ~crashed
  /\ calls < MaxCalls /\ calls' = calls + 1
  /\ expired' = expired \cup {conn}
  /\ UNCHANGED <<mode, client, sockets, server, ends, up, down>>

-----------------------------------------------------------------------------
(* The copy loop of proxyConn: only copyConn is closed when it ends.        *)

CopierMoves ==
  /\ copier = "on" /\ ~Direct /\ copyConn = "open" /\ up[1] # <<>>
  /\ \E w \in ClientWrites(up[2], Head(up[1]), "link", linkConn, rawConn) :
       /\ up' = [up EXCEPT ![1] = Tail(@), ![2] = w.q]
       /\ IF w.fails THEN copier' = "ended" /\ copyConn' = "closed"
                     ELSE UNCHANGED <<copier, copyConn>>
  /\ UNCHANGED <<mode, caller, answer, reader, closing, stop, crashed, linkConn, server,
                 ends, expired, down, calls>>

CopierEnds ==
  /\ copier = "on" /\ ~Direct /\ (Late("copy") \/ ReadFails(copyConn, app))
  /\ copier' = "ended" /\ copyConn' = "closed"
  /\ UNCHANGED <<mode, caller, answer, reader, closing, stop, crashed, linkConn, server,
                 ends, expired, up, down, calls>>

DirectCopierBlocks ==
  /\ copier = "on" /\ Direct /\ ~crashed /\ up[1] # <<>>
  /\ ~(Late("link") \/ HasRoom(up[3], linkConn, target))
  /\ copier' = "write"
  /\ UNCHANGED <<mode, caller, answer, reader, closing, stop, crashed, sockets, server,
                 ends, expired, up, down, calls>>

(* go io.Copy(lc.linkConn, lc.copyConn): nothing is closed when it ends.     *)
DirectCopierMoves ==
  /\ copier \in {"on", "write"} /\ Direct /\ ~crashed /\ up[1] # <<>> /\ (Late("link") \/ HasRoom(up[3], linkConn, target))
  /\ \E w \in ClientWrites(up[3], Head(up[1]), "link", linkConn, target) :
       /\ up' = [up EXCEPT ![1] = Tail(@), ![3] = w.q]
       /\ copier' = IF w.fails THEN "ended" ELSE "on"
  /\ UNCHANGED <<mode, caller, answer, reader, closing, stop, crashed, sockets, server,
                 ends, expired, down, calls>>

DirectCopierEnds ==
  /\ copier = "on" /\ Direct /\ ~crashed /\ (Late("copy") \/ ReadFails(copyConn, app))
  /\ copier' = "ended"
  /\ UNCHANGED <<mode, caller, answer, reader, closing, stop, crashed, sockets, server,
                 ends, expired, up, down, calls>>

-----------------------------------------------------------------------------
(* The reader of the client: ReadCMsg, the callback of handshakeCheck and    *)
(* noCbFn.  Its deferred Close ends the link.                                *)

\* ReadCPacket looks at the disable of the context when something has come.
ReaderStops == Late("link") \/ ReadFails(linkConn, rawConn) \/ (closing # "no" /\ down[2] # <<>>)

ReaderEnds ==
  /\ reader = "on" /\ ~Direct /\ ReaderStops
  /\ reader' = "ended"
  /\ CallClose
  /\ UNCHANGED <<mode, caller, answer, copier, stop, server, ends, expired, up, down, calls>>

(* The callback is stored while WaitCb waits; an answer that comes later     *)
(* goes to noCbFn, which takes it for a bad message and closes the link.     *)
ReadAnswer ==
  /\ reader = "on" /\ closing = "no" /\ down[2] # <<>> /\ Head(down[2]).kind \in {"ok", "bad"}
  /\ down' = [down EXCEPT ![2] = Tail(@)]
  /\ IF caller = "asking" THEN answer' = Head(down[2]).kind /\ UNCHANGED <<closing, crashed, sockets>>
                          ELSE CallClose /\ UNCHANGED answer
  /\ UNCHANGED <<mode, caller, reader, copier, stop, server, ends, expired, up, calls>>

\* Mutant: what comes before the answer overtakes what is not yet written.
ReadDataAhead ==
  /\ reader = "on" /\ closing = "no" /\ down[2] # <<>> /\ Head(down[2]).kind = "data"
  /\ down' = [down EXCEPT ![2] = Tail(@), ![3] = <<Head(down[2])>> \o @]
  /\ UNCHANGED <<mode, client, sockets, server, ends, expired, up, calls>>

(* A goroutine that has read and finds no room to write to is in Write: it   *)
(* sees nothing else that happens to the link.                              *)
ReaderBlocks ==
  /\ reader = "on" /\ closing = "no" /\ ~crashed
  /\ LET q == IF Direct THEN down[1] ELSE down[2]
     IN  q # <<>> /\ Head(q).kind = "data"
  /\ ~(Late("copy") \/ HasRoom(down[3], copyConn, app))
  /\ reader' = "write"
  /\ UNCHANGED <<mode, caller, answer, copier, closing, stop, crashed, sockets, server,
                 ends, expired, up, down, calls>>

(* noCbFn writes what a ConnVPNA2 holds to copyConn, before and after the    *)
(* answer, and closes the link when that fails.                              *)
ReadData ==
  /\ reader = "write" \/ (reader = "on" /\ closing = "no")
  /\ ~Direct /\ down[2] # <<>> /\ Head(down[2]).kind = "data"
  /\ Late("copy") \/ HasRoom(down[3], copyConn, app)
  /\ \E w \in ClientWrites(down[3], Head(down[2]), "copy", copyConn, app) :
       /\ down' = [down EXCEPT ![2] = Tail(@), ![3] = w.q]
       /\ IF w.fails THEN CallClose ELSE UNCHANGED <<closing, crashed, sockets>>
  /\ reader' = "on"
  /\ UNCHANGED <<mode, caller, answer, copier, stop, server, ends, expired, up, calls>>

(* io.Copy(lc.copyConn, lc.linkConn), then lc.Close.                         *)
DirectReaderMoves ==
  /\ reader \in {"on", "write"} /\ Direct /\ ~crashed /\ down[1] # <<>> /\ (Late("copy") \/ HasRoom(down[3], copyConn, app))
  /\ \E w \in ClientWrites(down[3], Head(down[1]), "copy", copyConn, app) :
       /\ down' = [down EXCEPT ![1] = Tail(@), ![3] = w.q]
       /\ IF w.fails THEN Panic ELSE UNCHANGED <<closing, crashed, sockets>>
  /\ reader' = "on"
  /\ UNCHANGED <<mode, caller, answer, copier, stop, server, ends, expired, up, calls>>

DirectReaderEnds ==
  /\ reader = "on" /\ Direct /\ ~crashed /\ (Late("link") \/ ReadFails(linkConn, target))
  /\ Panic
  /\ UNCHANGED <<mode, caller, answer, reader, copier, stop, server, ends, expired,
                 up, down, calls>>

-----------------------------------------------------------------------------
(* The server *)

\* pc.close(), by the handler or by readLinkConn, its Once body at once.
ServerClose ==
  /\ rawConn' = "closed"
  /\ targetConn' = IF targetConn = "open" THEN "closed" ELSE targetConn

\* A write to rawConn fails after the deadline as well.
RawWrites(m) == IF Late("raw") THEN {[q |-> down[2], fails |-> TRUE]}
                ELSE Writes(down[2], m, rawConn, linkConn)

\* Mutant: a deadline of zero.
ExpireNever == rawConn = "none" /\ Late("raw") /\ UNCHANGED vars

(* The deadline tcpHandler sets: nothing on the way of a VPN link moves it.  *)
Expire ==
  /\ rawConn = "open" /\ expired' = expired \cup {"raw"} /\ expired' # expired
  /\ UNCHANGED <<mode, client, sockets, server, ends, up, down, calls>>

HandlerEnds ==
  /\ handler \in {"init", "relay"}
  /\ Late("raw") \/ ReadFails(rawConn, linkConn)
  /\ handler' = "ended" /\ ServerClose
  /\ UNCHANGED <<mode, client, sockets, relayer, ends, expired, up, down, calls>>

TakeQ1 ==
  /\ handler = "init" /\ up[2] # <<>>
  /\ up' = [up EXCEPT ![2] = Tail(@)]
  /\ handler' = "dialing"
  /\ UNCHANGED <<mode, client, sockets, rawConn, targetConn, relayer, ends, expired, down, calls>>

\* Mutant: the failed dial leaves the connection open.
DialTargetFailsQuietly ==
  /\ handler = "dialing" /\ handler' = "ended"
  /\ UNCHANGED <<mode, client, sockets, rawConn, targetConn, relayer, ends, expired, up, down, calls>>

(* linkVPNConn fails, or VPN links are switched off: the answer says so and  *)
(* the connection is closed.                                                 *)
DialTargetFails ==
  /\ handler = "dialing" /\ handler' = "ended"
  /\ \E w \in RawWrites(A1("bad")) : down' = [down EXCEPT ![2] = w.q]
  /\ ServerClose
  /\ UNCHANGED <<mode, client, sockets, relayer, ends, expired, up, calls>>

(* linkVPNConn: initLinkConn starts readLinkConn before ConnVPNA1 is sent.   *)
DialTarget ==
  /\ handler = "dialing" /\ handler' = "answer"
  /\ targetConn' = "open" /\ target' = "asked" /\ relayer' = "on"
  /\ UNCHANGED <<mode, client, sockets, rawConn, app, wrote, taken, expired, up, down, calls>>

WriteA1 ==
  /\ handler = "answer" /\ handler' = "relay"
  /\ \E w \in RawWrites(A1("ok")) :
       /\ down' = [down EXCEPT ![2] = w.q]
       /\ IF w.fails THEN ServerClose ELSE UNCHANGED <<rawConn, targetConn>>
  /\ UNCHANGED <<mode, client, sockets, relayer, ends, expired, up, calls>>

HandlerBlocks ==
  /\ handler = "relay" /\ rawConn = "open" /\ up[2] # <<>>
  /\ ~HasRoom(up[3], targetConn, target)
  /\ handler' = "write"
  /\ UNCHANGED <<mode, client, sockets, rawConn, targetConn, relayer, ends, expired,
                 up, down, calls>>

(* writeLinkConn: the next ConnVPNQ2 goes to the target. *)
HandlerMoves ==
  /\ handler = "write" \/ (handler = "relay" /\ rawConn = "open" /\ up[2] # <<>>)
  /\ HasRoom(up[3], targetConn, target)
  /\ \E w \in Writes(up[3], Head(up[2]), targetConn, target) :
       /\ up' = [up EXCEPT ![2] = Tail(@), ![3] = w.q]
       /\ IF w.fails THEN handler' = "ended" /\ ServerClose
                     ELSE handler' = "relay" /\ UNCHANGED <<rawConn, targetConn>>
  /\ UNCHANGED <<mode, client, sockets, relayer, ends, expired, down, calls>>

(* readLinkConn: what the target sends goes out in a ConnVPNA2. *)
RelayerMoves ==
  /\ relayer = "on" /\ targetConn = "open" /\ down[1] # <<>>
  /\ \E w \in RawWrites(Head(down[1])) :
       /\ down' = [down EXCEPT ![1] = Tail(@), ![2] = w.q]
       /\ IF w.fails THEN relayer' = "ended" /\ ServerClose
                     ELSE UNCHANGED <<relayer, rawConn, targetConn>>
  /\ UNCHANGED <<mode, client, sockets, handler, ends, expired, up, calls>>

RelayerEnds ==
  /\ relayer = "on" /\ ReadFails(targetConn, target)
  /\ relayer' = "ended" /\ ServerClose
  /\ UNCHANGED <<mode, client, sockets, handler, ends, expired, up, down, calls>>

-----------------------------------------------------------------------------
Caller == DialProxy \/ DialDirect \/ Refused \/ Ask \/ AskTimeout \/ Answered \/ WaitReturn
Copier == CopierMoves \/ CopierEnds \/ DirectCopierBlocks \/ DirectCopierMoves
          \/ DirectCopierEnds
Reader == ReaderEnds \/ ReadAnswer \/ ReaderBlocks \/ ReadData
          \/ DirectReaderMoves \/ DirectReaderEnds
Handler == HandlerEnds \/ TakeQ1 \/ DialTarget \/ DialTargetFails \/ WriteA1
           \/ HandlerBlocks \/ HandlerMoves
Relayer == RelayerMoves \/ RelayerEnds

Next ==
  \/ AppWrite \/ AppRead \/ AppLeaves
  \/ TargetAccept \/ TargetWrite \/ TargetRead \/ TargetLeaves
  \/ Caller \/ WriteToLinkConn \/ \E conn \in {"copy", "link"} : SetDeadline(conn)
  \/ UserClose \/ CloseBody
  \/ Copier \/ Reader \/ Handler \/ Relayer \/ Expire

Spec == Init /\ [][Next]_vars

(* Goroutines that can go on do, a dial returns, timers fire.               *)
FairSpec ==
  /\ Spec
  /\ WF_vars(Caller) /\ WF_vars(CloseBody) /\ WF_vars(Copier) /\ WF_vars(Reader)
  /\ WF_vars(Handler) /\ WF_vars(Relayer) /\ WF_vars(Expire)

(* The application and the target go on reading while they are there: one   *)
(* that stops blocks a goroutine that has no deadline (VpnStalled.cfg).      *)
ReadingSpec == FairSpec /\ WF_vars(AppRead) /\ WF_vars(TargetAccept) /\ WF_vars(TargetRead)

-----------------------------------------------------------------------------
TypeOK ==
  /\ mode \in Modes
  /\ caller \in {"idle", "dialed", "asking", "failed", "ok", "done"}
  /\ answer \in {"none", "ok", "bad"}
  /\ {reader, copier} \subseteq {"off", "on", "write", "ended"}
  /\ closing \in {"no", "begun", "done"} /\ stop \in BOOLEAN /\ crashed \in BOOLEAN
  /\ copyConn \in {"open", "closed"} /\ linkConn \in {"none", "open", "closed"}
  /\ rawConn \in {"none", "open", "closed"} /\ targetConn \in {"none", "open", "closed"}
  /\ app \in {"open", "gone"} /\ target \in {"none", "asked", "open", "gone"}
  /\ handler \in {"off", "init", "dialing", "answer", "relay", "write", "ended"}
  /\ relayer \in {"off", "on", "ended"} /\ expired \subseteq {"raw", "copy", "link"}
  /\ up \in [1 .. 3 -> Seq(Item)] /\ down \in [1 .. 3 -> Seq(Item)]
  /\ taken \in [{1, 2} -> Seq(Nat)]
  /\ wrote \in [{1, 2} -> Nat] /\ wrote[1] <= AppMsgs /\ wrote[2] <= TargetMsgs
  /\ calls \in 0 .. MaxCalls

-----------------------------------------------------------------------------
(* What a link promises: LinkPipe, with the application as side 1 and the   *)
(* target as side 2.  What is on the way counts as long as every goroutine  *)
(* and socket in front of it is still there.                                *)

\* The numbers of the data in q.
Numbers(q) ==
  LET n[i \in 0 .. Len(q)] == IF i = 0 THEN <<>>
                              ELSE IF q[i].kind = "data" THEN Append(n[i - 1], q[i].n)
                              ELSE n[i - 1]
  IN  n[Len(q)]

TargetTakes == target # "gone"
ServerTakes == TargetTakes /\ (Direct \/ ("closed" \notin {rawConn, targetConn} /\ handler # "ended"))
ClientTakes == ServerTakes /\ "closed" \notin {copyConn, linkConn} /\ copier # "ended"

AppTakes     == app # "gone"
ClientBrings == AppTakes /\ closing = "no" /\ "closed" \notin {copyConn, linkConn} /\ reader # "ended"
ReaderHolds  == ~Direct /\ reader = "write" /\ AppTakes /\ copyConn = "open" /\ ~ClientBrings
ServerBrings == ClientBrings /\ (Direct \/ ("closed" \notin {rawConn, targetConn} /\ relayer # "ended"))

If(c, q) == IF c THEN q ELSE <<>>

ToTarget == Numbers(If(TargetTakes, up[3]) \o If(ServerTakes, up[2]) \o If(ClientTakes, up[1]))
ToApp    == Numbers(If(AppTakes, down[3]) \o If(ReaderHolds, <<Head(down[2])>>)
                    \o If(ClientBrings, down[2]) \o If(ServerBrings, down[1]))

OnItsWay(s) == IF s = 1 THEN ToTarget ELSE ToApp
Ready(s)    == IF s = 1 THEN caller # "idle" ELSE target \in {"open", "gone"}
Broken == \/ "gone" \in {app, target} \/ closing # "no"
          \/ "closed" \in {copyConn, linkConn, rawConn, targetConn}
          \/ "ended" \in {copier, reader, handler, relayer}

Pipe == INSTANCE LinkPipe WITH
  MaxMsgs <- AppMsgs + TargetMsgs,
  pipe <- [s \in {1, 2} |-> OnItsWay(s)], wrote <- wrote, taken <- taken,
  ready <- [s \in {1, 2} |-> Ready(s)], broken <- Broken

(* A VPN link is a pipe in each direction: what the application and the      *)
(* target write arrives in order, nothing twice, and only a hang-up can lose *)
(* anything, the end of it; so it is although data of the target may be sent *)
(* before the answer to the request that opened the link.                    *)
VpnIsPipe == Pipe!PipeSpec

(* An application whose LinkOtherConn has failed has sent nothing to the     *)
(* target, also when the target had been reached by then.                    *)
FailedCallSendsNothing == caller = "failed" => taken[2] = <<>> /\ up[3] = <<>>

(* Whatever becomes of a link through the proxy, and also when LinkOtherConn *)
(* gave up and nobody holds the LinkClient, all four sockets are closed in   *)
(* the end.                                                                  *)
SocketsClose ==
  (linkConn = "open" /\ ~Direct) ~>
     (copyConn = "closed" /\ linkConn = "closed" /\ rawConn = "closed" /\ targetConn # "open")

(* Wait returns, whichever end hangs up, closes or is cut off. *)
WaitReturns == (caller = "ok" /\ ~Direct) ~> (caller = "done")

(* By hand: no close is asked of a link without a proxy (VpnDirect.cfg).     *)
NoPanic == ~crashed

(* By hand: only who uses a link ends it (VpnDeadline.cfg).                  *)
EndedByItsUsers ==
  (rawConn = "closed" /\ targetConn = "closed") => (closing # "no" \/ "gone" \in {app, target})

=============================================================================

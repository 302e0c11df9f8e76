---------------------------- MODULE MCProxyServer ----------------------------
(* Model checking of ProxyServer: symmetry, and a start with open rooms. *)
EXTENDS ProxyServerInv, TLC

SubSymmetry == Permutations(Subs)
BoxSymmetry == Permutations(Boxes)

\* The boxes that opened the rooms have gone, the server has been closed, which
\* no sub notices, and the collector has had its only turn: what is left are the
\* rooms and the subs that have just been accepted.
RoomInit ==
  /\ disable  = [c \in Conn |-> FALSE]
  /\ closer   = [c \in Conn |-> "open"]
  /\ step     = [c \in Conn |-> ProxyInitialization]
  /\ name     = [c \in Conn |-> Nil]
  /\ parent   = [c \in Conn |-> Nil]
  /\ link     = [c \in Conn |-> Nil]
  /\ subMap   = [c \in Conn |-> {}]
  /\ subLock  = [c \in Conn |-> Nil]
  /\ visit    = [c \in Conn |-> Nil]
  /\ registry = [n \in Names |-> Nil]
  /\ regLock  = Nil
  /\ rooms    = Rooms
  /\ created  = Rooms
  /\ expired  = Rooms
  /\ roomStep = [r \in Rooms |-> 0]
  /\ c1       = [r \in Rooms |-> Nil]
  /\ roomLock = [r \in Rooms |-> Nil]
  /\ pc       = [c \in Conn |-> "loop"]
  /\ waits    = [c \in Conn \cup {Server} |-> Nil]
  /\ ret      = [c \in Conn |-> "loop"]
  /\ odj      = [c \in Conn |-> Nil]
  /\ room     = [c \in Conn |-> Nil]
  /\ srv      = "done"
  /\ todo     = {}
  /\ gc       = "spent"

FairRoomSpec == RoomInit /\ [][Next]_vars /\ Fairness

=============================================================================

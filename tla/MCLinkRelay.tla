---------------------------- MODULE MCLinkRelay ----------------------------
(* Model checking of LinkRelay: a start in which side 1 joined long before. *)
EXTENDS LinkRelay

\* Side 1 waits in Peek for its first byte, as it does unless side 2 joins in
\* the few instructions it takes side 1 to get back to its loop.
ParkedInit ==
  /\ in = [s \in Side |-> <<>>] /\ out = [s \in Side |-> <<>>]
  /\ srv = [s \in Side |-> TRUE]
  /\ linkConn = [s \in Side |-> FALSE]
  /\ linkSwitch = [s \in Side |-> FALSE]
  /\ linkBox = [s \in Side |-> FALSE]
  /\ handler = <<"peek", "join">>
  /\ buf = [s \in Side |-> <<>>]
  /\ panic = FALSE
  /\ client = [s \in Side |-> "handshake"]
  /\ sent = [s \in Side |-> 0]
  /\ got = [s \in Side |-> <<>>]
  /\ late = [s \in Side |-> {}]

ParkedFairSpec == ParkedInit /\ [][Next]_vars /\ Fairness

=============================================================================

------------------------------ MODULE NameTable ------------------------------
(***************************************************************************)
(* What proxyClientMap promises the rest of the server: a name leads to    *)
(* one client, the last to register it, until that client ends.  A client  *)
(* enters once, under a free name; nothing but its own end takes it out;   *)
(* and when the server's Close is through nobody is left in it.            *)
(***************************************************************************)

CONSTANTS Names, Clients, Nobody

VARIABLES holder,  \* holder[n]: the client the name n leads to
          ended,   \* the clients whose end is behind them
          shut     \* Close has been through the table

tableVars == <<holder, ended, shut>>

TableInit ==
  /\ holder = [n \in Names |-> Nobody]
  /\ ended = {}
  /\ shut = FALSE

Enter(n, c) ==
  /\ holder[n] = Nobody
  /\ c \notin ended
  /\ \A m \in Names : holder[m] # c
  /\ holder' = [holder EXCEPT ![n] = c]
  /\ UNCHANGED <<ended, shut>>

\* The end of a client, registered or not.
End(c) ==
  /\ ended' = ended \cup {c}
  /\ holder' = [n \in Names |-> IF holder[n] = c THEN Nobody ELSE holder[n]]
  /\ UNCHANGED shut

Shut ==
  /\ \A n \in Names : holder[n] = Nobody
  /\ shut' = TRUE
  /\ UNCHANGED <<holder, ended>>

TableNext ==
  \/ \E n \in Names, c \in Clients : Enter(n, c)
  \/ \E c \in Clients : End(c)
  \/ Shut

TableSpec == TableInit /\ [][TableNext]_tableVars

=============================================================================

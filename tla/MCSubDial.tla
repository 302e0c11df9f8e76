------------------------------ MODULE MCSubDial ------------------------------
(* Model checking of SubDial: who dials whom. *)
EXTENDS SubDial

Case(mode, from, to) == [mode |-> mode, from |-> from, to |-> to]

\* Three dials without a circle, every shape of them.
Shapes == { Case("patient", f, t) : f \in [1..3 -> 1..2], t \in [1..3 -> 2..3] }
Patience == { g \in Shapes :
    /\ \A d \in 1..3 : g.from[d] < g.to[d]
    /\ \A d \in 1..2 : \/ g.from[d] < g.from[d + 1]
                       \/ g.from[d] = g.from[d + 1] /\ g.to[d] <= g.to[d + 1] }

\* One of two dials asks for a name nobody has, box 4.
Unknown == { Case("patient", <<1, 1>>, <<4, 2>>) }

\* Two boxes that dial each other; one that dials itself while another dials it;
\* two that dial the same one.
Impatience == { Case("timers", <<1, 2>>, t) : t \in {<<2, 1>>, <<1, 1>>, <<3, 3>>} }

Faulty == { Case("faults", <<1>>, <<2>>) }

MCCases == Patience \cup Unknown \cup Impatience \cup Faulty

Cross == { Case("patient", <<1, 2>>, <<2, 1>>) }

=============================================================================

------------------------------ MODULE LinkPipe ------------------------------
(***************************************************************************)
(* What two linked SubBoxes promise each other: one pipe in each           *)
(* direction.  Messages come out in the order they went in, none twice.    *)
(* A pipe may spill what is in it only before its reader has finished its  *)
(* handshake, and lose its tail when the link is broken.  side[s] writes   *)
(* into pipe[s]; the other side reads from it.                             *)
(***************************************************************************)
EXTENDS Naturals, Sequences

CONSTANTS MaxMsgs   \* bound: messages written by each side

Side == {1, 2}
Peer(s) == 3 - s

VARIABLES pipe,    \* pipe[s]: what s has written and nobody has taken yet
          wrote,   \* wrote[s]: how many messages s has written: 1, 2, ...
          taken,   \* taken[s]: what the application of s has read
          ready,   \* ready[s]: s has finished its handshake
          broken   \* the link has been closed by somebody

pipeVars == <<pipe, wrote, taken, ready, broken>>

PipeInit ==
  /\ pipe = [s \in Side |-> <<>>]
  /\ wrote = [s \in Side |-> 0]
  /\ taken = [s \in Side |-> <<>>]
  /\ ready = [s \in Side |-> FALSE]
  /\ broken = FALSE

\* Only who has finished the handshake has a SubBox to write to; what is
\* written to a broken link may go nowhere.
PipeWrite(s) ==
  /\ ready[s] /\ wrote[s] < MaxMsgs
  /\ wrote' = [wrote EXCEPT ![s] = @ + 1]
  /\ \/ pipe' = [pipe EXCEPT ![s] = Append(@, wrote[s] + 1)]
     \/ broken /\ pipe' = pipe
  /\ UNCHANGED <<taken, ready, broken>>

PipeRead(s) ==
  /\ ready[s] /\ pipe[Peer(s)] # <<>>
  /\ taken' = [taken EXCEPT ![s] = Append(@, Head(pipe[Peer(s)]))]
  /\ pipe' = [pipe EXCEPT ![Peer(s)] = Tail(@)]
  /\ UNCHANGED <<wrote, ready, broken>>

\* The handshake of s may swallow the front of what is on its way to s.
PipeHandshake(s) ==
  /\ ~ready[s]
  /\ \E k \in 0..Len(pipe[Peer(s)]) :
       pipe' = [pipe EXCEPT ![Peer(s)] = SubSeq(@, k + 1, Len(@))]
  /\ ready' \in {ready, [ready EXCEPT ![s] = TRUE]}
  /\ UNCHANGED <<wrote, taken, broken>>

\* A broken link may lose the tail of either pipe, more than once.
PipeBreak ==
  /\ broken' = TRUE
  /\ \A s \in Side : \E k \in 0..Len(pipe[s]) : pipe'[s] = SubSeq(pipe[s], 1, k)
  /\ DOMAIN pipe' = Side
  /\ UNCHANGED <<wrote, taken, ready>>

PipeNext == PipeBreak \/ \E s \in Side : PipeWrite(s) \/ PipeRead(s) \/ PipeHandshake(s)

PipeSpec == PipeInit /\ [][PipeNext]_pipeVars

=============================================================================

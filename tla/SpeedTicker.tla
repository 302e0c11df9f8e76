---------------------------- MODULE SpeedTicker ----------------------------
(***************************************************************************)
(* tool/speed.go: the byte counter every connection keeps for each         *)
(* direction.  Set adds the bytes just moved, Get reports the bytes of     *)
(* the second before.  Two mutexes guard the counter, and the two methods  *)
(* take them in opposite orders: Set takes wLock and then rLock when a     *)
(* new second begins, Get takes rLock and then wLock when it finds the     *)
(* counter exactly two seconds old.                                        *)
(*                                                                         *)
(* Time is the wall clock rounded to seconds.  A ticker that was never     *)
(* set holds the zero time, which is further back than any second counts. *)
(***************************************************************************)
EXTENDS Integers

CONSTANTS Setters,   \* goroutines that call Set
          Getters,   \* goroutines that call Get
          Chunks,    \* byte counts handed to Set
          MaxNow,    \* bound: the last second of the clock
          MaxSets,   \* bound: how many calls of Set there are
          None       \* no goroutine holds the lock

Threads == Setters \cup Getters

ASSUME ThreadAssumption == Setters \cap Getters = {} /\ None \notin Threads
ASSUME NumberAssumption == Chunks \subseteq Nat /\ MaxNow \in Nat /\ MaxSets \in Nat

Seconds == 0..MaxNow
Never   == -3

VARIABLES
  now,      \* time.Now().Round(time.Second)
  read,     \* st.read: bytes of an earlier second
  write,    \* st.write: bytes of second t so far
  t,        \* st.t
  rLock, wLock,
  pc,       \* pc[h]: where goroutine h is
  sample,   \* sample[h]: the local variable t of Set and of Get
  amount,   \* amount[h]: the argument i of Set
  got,      \* got[h]: what Get returned last
  sets,     \* the calls of Set so far
  moved     \* history: moved[u] is the bytes counted for second u

tickerVars == <<now, read, write, t, rLock, wLock, pc, sample, amount, got, sets, moved>>

TickerInit ==
  /\ now = 0
  /\ read = 0 /\ write = 0 /\ t = Never
  /\ rLock = None /\ wLock = None
  /\ pc = [h \in Threads |-> "idle"]
  /\ sample = [h \in Threads |-> 0]
  /\ amount = [h \in Setters |-> 0]
  /\ got = [h \in Getters |-> 0]
  /\ sets = 0
  /\ moved = [u \in Seconds |-> 0]

Goto(h, label) == pc' = [pc EXCEPT ![h] = label]

Tick ==
  /\ now < MaxNow
  /\ now' = now + 1
  /\ UNCHANGED <<read, write, t, rLock, wLock, pc, sample, amount, got, sets, moved>>

----------------------------------------------------------------------------
(* Set *)

SetLock(h) ==
  /\ pc[h] = "idle" /\ wLock = None
  /\ sets < MaxSets
  /\ sets' = sets + 1
  /\ wLock' = h
  /\ \E i \in Chunks : amount' = [amount EXCEPT ![h] = i]
  /\ Goto(h, "sample")
  /\ UNCHANGED <<now, read, write, t, rLock, sample, got, moved>>

SetSample(h) ==
  /\ pc[h] = "sample"
  /\ sample' = [sample EXCEPT ![h] = now]
  /\ Goto(h, IF t = now THEN "add" ELSE "shift")
  /\ UNCHANGED <<now, read, write, t, rLock, wLock, amount, got, sets, moved>>

SetAdd(h) ==
  /\ pc[h] = "add"
  /\ write' = write + amount[h]
  /\ moved' = [moved EXCEPT ![sample[h]] = @ + amount[h]]
  /\ wLock' = None
  /\ Goto(h, "idle")
  /\ UNCHANGED <<now, read, t, rLock, sample, amount, got, sets>>

\* Takes rLock, shifts the counter and gives both locks back.
SetShift(h) ==
  /\ pc[h] = "shift" /\ rLock = None
  /\ read' = write /\ write' = amount[h] /\ t' = sample[h]
  /\ moved' = [moved EXCEPT ![sample[h]] = @ + amount[h]]
  /\ wLock' = None
  /\ Goto(h, "idle")
  /\ UNCHANGED <<now, rLock, sample, amount, got, sets>>

----------------------------------------------------------------------------
(* Get *)

GetLock(h) ==
  /\ pc[h] = "idle" /\ rLock = None
  /\ rLock' = h
  /\ Goto(h, "age")
  /\ UNCHANGED <<now, read, write, t, wLock, sample, amount, got, sets, moved>>

Return(h, n) ==
  /\ read' = n
  /\ got' = [got EXCEPT ![h] = n]
  /\ rLock' = None
  /\ Goto(h, "idle")

GetFresh(h) ==
  /\ pc[h] = "age" /\ now - t <= 1
  /\ Return(h, read)
  /\ UNCHANGED <<now, write, t, wLock, sample, amount, sets, moved>>

GetStale(h) ==
  /\ pc[h] = "age" /\ now - t > 2
  /\ Return(h, 0)
  /\ UNCHANGED <<now, write, t, wLock, sample, amount, sets, moved>>

GetTwoOld(h) ==
  /\ pc[h] = "age" /\ now - t = 2
  /\ sample' = [sample EXCEPT ![h] = now]
  /\ Goto(h, "reset")
  /\ UNCHANGED <<now, read, write, t, rLock, wLock, amount, got, sets, moved>>

\* Mutants: the reset without wLock; the reset that reports both counts; the
\* reset that forgets to unlock wLock.
GetResetUnlocked(h) ==
  /\ pc[h] = "reset"
  /\ write' = 0 /\ t' = sample[h]
  /\ Return(h, 0)
  /\ UNCHANGED <<now, wLock, sample, amount, sets, moved>>

GetResetMerges(h) ==
  /\ pc[h] = "reset" /\ wLock = None
  /\ write' = 0 /\ t' = sample[h]
  /\ Return(h, read + write)
  /\ UNCHANGED <<now, wLock, sample, amount, sets, moved>>

GetResetKeepsLock(h) ==
  /\ pc[h] = "reset" /\ wLock = None
  /\ write' = 0 /\ t' = sample[h] /\ wLock' = h
  /\ Return(h, 0)
  /\ UNCHANGED <<now, sample, amount, sets, moved>>

\* Takes wLock, empties the counter and gives both locks back; st.read takes
\* st.write on the way and is cleared before it is returned.
GetReset(h) ==
  /\ pc[h] = "reset" /\ wLock = None
  /\ write' = 0 /\ t' = sample[h]
  /\ Return(h, 0)
  /\ UNCHANGED <<now, wLock, sample, amount, sets, moved>>

----------------------------------------------------------------------------

SetStep(h) == SetLock(h) \/ SetSample(h) \/ SetAdd(h) \/ SetShift(h)
GetStep(h) == GetLock(h) \/ GetFresh(h) \/ GetStale(h) \/ GetTwoOld(h) \/ GetReset(h)

TickerNext == Tick \/ (\E h \in Setters : SetStep(h)) \/ (\E h \in Getters : GetStep(h))

TickerSpec == TickerInit /\ [][TickerNext]_tickerVars

\* The Go scheduler runs every goroutine that can run, and a mutex is handed to
\* a waiter in the end (sync.Mutex starvation mode); nobody has to call.
FairTickerSpec ==
  /\ TickerSpec
  /\ \A h \in Setters : WF_tickerVars(SetSample(h) \/ SetAdd(h)) /\ SF_tickerVars(SetShift(h))
  /\ \A h \in Getters : WF_tickerVars(GetFresh(h) \/ GetStale(h) \/ GetTwoOld(h)) /\ SF_tickerVars(GetReset(h))

----------------------------------------------------------------------------
(* Properties *)

\* The variables have their types.
TickerTypeOK ==
  /\ now \in Seconds
  /\ read \in Nat /\ write \in Nat
  /\ t \in Seconds \cup {Never}
  /\ rLock \in Getters \cup {None} /\ wLock \in Setters \cup {None}
  /\ pc \in [Threads -> {"idle", "sample", "add", "shift", "age", "reset"}]
  /\ sample \in [Threads -> Seconds]
  /\ amount \in [Setters -> Nat]
  /\ got \in [Getters -> Nat]
  /\ sets \in 0..MaxSets
  /\ moved \in [Seconds -> Nat]

Counted(u) == IF u \in Seconds THEN moved[u] ELSE 0

\* No update is lost and no two seconds are added up: the running count is
\* exactly what Set was given for the second the ticker stands at, however Set
\* and Get shift it (speed.go, Set and the reset inside Get).
CountIsExact == write = Counted(t)

\* What Get answers is the whole traffic of one single second that is over, or
\* zero: never a second that is still running, never the sum of several.
ReportsOneSecond ==
  \A h \in Getters : got[h] = 0 \/ \E u \in Seconds : u < now /\ got[h] = moved[u]

\* A goroutine that asks for the speed gets an answer (the two loops of
\* _test/testcase/04testspeed.go: one goroutine writes, one asks every 100 ms).
SpeedIsObtained == \A h \in Getters : (pc[h] = "age") ~> (pc[h] = "idle")

=============================================================================

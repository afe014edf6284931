---------------------------- MODULE ThreadPool ----------------------------
(***************************************************************************)
(* The worker pool of the matmul kernels (core/thread_pool.cpp): one pool  *)
(* per process, a caller that publishes a task and works on it too, and    *)
(* workers that spin for a while, then sleep, until a task is published.   *)
(*                                                                         *)
(* Every access to a shared field is a step of its own where another       *)
(* thread may come between. generation_ is only ever compared with a       *)
(* worker's local_gen, so one flag per worker says that the two differ.    *)
(*                                                                         *)
(* The task is known by its context, which lives on the stack of the       *)
(* caller: a context is the caller it belongs to. Left out: the profile    *)
(* counters, and the stop flag, which nothing sets.                        *)
(***************************************************************************)
EXTENDS Integers, FiniteSets

CONSTANTS
  Callers,    \* threads that call parallel_for
  Workers,    \* the pool's own threads
  NoOne,      \* no caller: a free mutex, no task yet
  Totals,     \* loop sizes asked for
  Line,       \* kFloatsPerLine
  MinRows     \* min_parallel of parallel_for

ASSUME PoolAssumption ==
  /\ Callers # {}
  /\ Callers \cap Workers = {}
  /\ NoOne \notin Callers
  /\ IsFiniteSet(Workers)
  /\ Totals \subseteq Nat
  /\ Line \in Nat \ {0}
  /\ MinRows \in Nat \ {0}

VARIABLES
  task,       \* task_ctx_: whose loop it is
  total,      \* total_
  grain,      \* grain_
  next,       \* next_
  pending,    \* pending_
  mtx,        \* mtx_: the caller that holds it
  fresh,      \* fresh[w]: generation_ # local_gen of worker w
  pc,         \* where each thread is
  hand,       \* hand[p]: start of the slice thread p took last
  want,       \* want[c]: size of caller c's last loop
  ran         \* ran[c]: the units of it that have been run

vars == <<task, total, grain, next, pending, mtx, fresh, pc, hand, want, ran>>

Threads == Callers \cup Workers
job     == <<task, total, grain>>
calls   == <<want, ran>>

Units(n) == 0..n - 1
At(p, place) == pc[p] = place
Go(p, place) == pc' = [pc EXCEPT ![p] = place]
Lower(a, b) == IF a <= b THEN a ELSE b

\* Slices of parallel_for: eight per thread, rounded up to whole cache lines.
Rows(n) ==
  LET share == n \div ((Cardinality(Workers) + 1) * 8)
      g == IF share < Line THEN Line ELSE share
  IN ((g + Line - 1) \div Line) * Line

\* The slice a thread has in hand, as it would run it now.
Slice(p) == hand[p]..Lower(total, hand[p] + grain) - 1
-----------------------------------------------------------------------------
(* The caller: run_raw.                                                    *)

\* Too small, or no worker: the caller runs the loop alone.
Alone(n, atLeast) == Workers = {} \/ n < atLeast

Enter(c, n) ==
  /\ At(c, "idle")
  /\ want' = [want EXCEPT ![c] = n]
  /\ ran' = [ran EXCEPT ![c] = {}]

StartAlone(c, n, atLeast) ==
  /\ Enter(c, n)
  /\ Alone(n, atLeast)
  /\ Go(c, IF n = 0 THEN "idle" ELSE "alone")
  /\ UNCHANGED <<job, next, pending, mtx, fresh, hand>>

RunAlone(c) ==
  /\ At(c, "alone")
  /\ ran' = [ran EXCEPT ![c] = Units(want[c])]
  /\ Go(c, "idle")
  /\ UNCHANGED <<job, next, pending, mtx, fresh, hand, want>>

\* How many are waited for, and where the first slice starts.
\* Mutants: the caller counts itself among the workers; no reset.
ArrivalsShort == Cardinality(Workers) - 1
Arrivals == Cardinality(Workers)
FirstStale == next
First == 0

\* Takes the mutex and fills in the task.
Prepare(c, n, g, atLeast) ==
  /\ mtx = NoOne
  /\ Enter(c, n)
  /\ n > 0
  /\ ~Alone(n, atLeast)
  /\ mtx' = c
  /\ task' = c
  /\ total' = n
  /\ grain' = g
  /\ next' = First
  /\ pending' = Arrivals
  /\ Go(c, "announce")
  /\ UNCHANGED <<fresh, hand>>

\* generation_.fetch_add, visible to the spinning workers; the mutex is let go.
Announce(c) ==
  /\ At(c, "announce")
  /\ fresh' = [w \in Workers |-> TRUE]
  /\ mtx' = NoOne
  /\ Go(c, "notify")
  /\ UNCHANGED <<job, next, pending, hand, calls>>

NotifyAll(c) ==
  /\ At(c, "notify")
  /\ pc' = [p \in Threads |->
              IF p = c THEN "take" ELSE IF At(p, "asleep") THEN "check" ELSE pc[p]]
  /\ UNCHANGED <<job, next, pending, mtx, fresh, hand, calls>>

\* What the spin on pending_ waits for. Mutant: it does not wait.
NoWait == TRUE
AllArrived == pending = 0

\* The spin ends and the call returns.
Leave(c) ==
  /\ At(c, "barrier")
  /\ AllArrived
  /\ Go(c, "idle")
  /\ UNCHANGED <<job, next, pending, mtx, fresh, hand, calls>>
-----------------------------------------------------------------------------
(* The shared loop: run_chunks.                                            *)

\* What next_ grows by. Mutant: one unit, not one slice.
StepOne == 1
Step == grain

\* next_.fetch_add and the test of what it returned.
Take(p) ==
  /\ At(p, "take")
  /\ hand' = [hand EXCEPT ![p] = next]
  /\ next' = next + Step
  /\ Go(p, IF next < total THEN "run" ELSE IF p \in Callers THEN "barrier" ELSE "arrive")
  /\ UNCHANGED <<job, pending, mtx, fresh, calls>>

\* The task, read now, over the slice taken before.
Run(p) ==
  /\ At(p, "run")
  /\ ran' = [ran EXCEPT ![task] = @ \cup Slice(p)]
  /\ Go(p, "take")
  /\ UNCHANGED <<job, next, pending, mtx, fresh, hand, want>>
-----------------------------------------------------------------------------
(* A worker: worker_loop.                                                  *)

\* The spin sees a new generation.
Notice(w) ==
  /\ At(w, "spin")
  /\ fresh[w]
  /\ Go(w, "load")
  /\ UNCHANGED <<job, next, pending, mtx, fresh, hand, calls>>

\* kSpinRounds looks without one.
GiveUp(w) ==
  /\ At(w, "spin")
  /\ Go(w, "check")
  /\ UNCHANGED <<job, next, pending, mtx, fresh, hand, calls>>

\* Mutant: a worker sleeps without looking again.
NothingLooked(w) == TRUE
NothingNew(w) == ~fresh[w]

\* The predicate of the wait, under the mutex, before sleeping and on waking.
Check(w) ==
  /\ At(w, "check")
  /\ mtx = NoOne
  /\ Go(w, IF NothingNew(w) THEN "asleep" ELSE "load")
  /\ UNCHANGED <<job, next, pending, mtx, fresh, hand, calls>>

\* A condition variable may wake a thread for no reason.
WakeSpuriously(w) ==
  /\ At(w, "asleep")
  /\ Go(w, "check")
  /\ UNCHANGED <<job, next, pending, mtx, fresh, hand, calls>>

Load(w) ==
  /\ At(w, "load")
  /\ fresh' = [fresh EXCEPT ![w] = FALSE]
  /\ Go(w, "take")
  /\ UNCHANGED <<job, next, pending, mtx, hand, calls>>

Arrive(w) ==
  /\ At(w, "arrive")
  /\ pending' = pending - 1
  /\ Go(w, "spin")
  /\ UNCHANGED <<job, next, mtx, fresh, hand, calls>>
-----------------------------------------------------------------------------
Init ==
  /\ task = NoOne /\ total = 0 /\ grain = 1 /\ next = 0 /\ pending = 0
  /\ mtx = NoOne
  /\ fresh = [w \in Workers |-> FALSE]
  /\ pc = [p \in Threads |-> IF p \in Callers THEN "idle" ELSE "spin"]
  /\ hand = [p \in Threads |-> 0]
  /\ want = [c \in Callers |-> 0]
  /\ ran = [c \in Callers |-> {}]

\* parallel_for and parallel_for_units.
ParallelForRows(c, n)  == StartAlone(c, n, MinRows) \/ Prepare(c, n, Rows(n), MinRows)
ParallelForUnits(c, n) == StartAlone(c, n, 2) \/ Prepare(c, n, 1, 2)

CallerStep(c) ==
  RunAlone(c) \/ Announce(c) \/ NotifyAll(c) \/ Take(c) \/ Run(c) \/ Leave(c)

WorkerStep(w) ==
  Notice(w) \/ GiveUp(w) \/ Check(w) \/ Load(w) \/ Take(w) \/ Run(w) \/ Arrive(w)

Next ==
  \/ \E c \in Callers :
       \/ \E n \in Totals : ParallelForRows(c, n) \/ ParallelForUnits(c, n)
       \/ CallerStep(c)
  \/ \E w \in Workers : WorkerStep(w) \/ WakeSpuriously(w)

\* Every thread that can run does so in the end: the operating system's scheduler.
Fairness ==
  /\ \A c \in Callers : WF_vars(CallerStep(c))
  /\ \A w \in Workers : WF_vars(WorkerStep(w))

Spec == Init /\ [][Next]_vars /\ Fairness
-----------------------------------------------------------------------------
(* Properties.                                                             *)

CallerPlaces == {"idle", "alone", "announce", "notify", "take", "run", "barrier"}
WorkerPlaces == {"spin", "check", "asleep", "load", "take", "run", "arrive"}

\* Every field holds a value of its type; pending_ in particular is unsigned
\* and is never taken below zero.
TypeOK ==
  /\ task \in Callers \cup {NoOne} /\ mtx \in Callers \cup {NoOne}
  /\ total \in Nat /\ grain \in Nat \ {0} /\ next \in Nat /\ pending \in Nat
  /\ fresh \in [Workers -> BOOLEAN]
  /\ pc \in [Threads -> CallerPlaces \cup WorkerPlaces]
  /\ \A c \in Callers : pc[c] \in CallerPlaces
  /\ \A w \in Workers : pc[w] \in WorkerPlaces
  /\ hand \in [Threads -> Nat]
  /\ want \in [Callers -> Nat]
  /\ ran \in [Callers -> SUBSET Nat]

\* A call that has returned ran every unit of its loop and nothing else.
ReturnedDone == \A c \in Callers : At(c, "idle") => ran[c] = Units(want[c])

\* No unit is run twice: a slice about to run holds no unit already run for
\* that loop, and none that another thread is about to run.
OnceEach ==
  \A p \in Threads : At(p, "run") =>
    /\ Slice(p) \cap ran[task] = {}
    /\ \A q \in Threads \ {p} : At(q, "run") => Slice(p) \cap Slice(q) = {}

\* A thread in run_chunks works for a call that has not returned: the context
\* it passes to the task is still on that caller's stack.
TaskAlive ==
  \A p \in Threads : pc[p] \in {"take", "run"} => task # NoOne /\ ~At(task, "idle")

\* Every call returns: no wake-up is lost, no worker is waited for in vain.
EveryCallReturns == \A c \in Callers : ~At(c, "idle") ~> At(c, "idle")

\* parallel_for is synchronous, whatever the threads do.
Loop == INSTANCE ParallelFor WITH
          left    <- [c \in Callers |-> Units(want[c]) \ ran[c]],
          calling <- [c \in Callers |-> ~At(c, "idle")]
Synchronous == Loop!Spec
=============================================================================

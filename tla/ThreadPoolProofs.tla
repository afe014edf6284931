------------------------- MODULE ThreadPoolProofs -------------------------
(***************************************************************************)
(* With one calling thread, whatever the number of workers, the sizes of   *)
(* the loops and of the slices, the pool runs every unit exactly once and  *)
(* never returns early: proofs for module ThreadPool.                      *)
(*                                                                         *)
(* The argument: a worker is late from the moment a task is announced      *)
(* until it has arrived at the barrier. pending_ counts the late workers,  *)
(* so none is left in run_chunks when a caller leaves; and every unit      *)
(* below next_ has been run or is in exactly one hand.                     *)
(***************************************************************************)
EXTENDS ThreadPool, FiniteSetTheorems, TLAPS

OneCallerOnly == \A c, d \in Callers : c = d

Working   == {"take", "run", "arrive"}
Published == {"notify", "take", "run", "barrier"}
Active(c) == pc[c] \in Published \cup {"announce"}

Late == {w \in Workers : fresh[w] \/ pc[w] \in Working}

\* A worker reads the new generation once per task.
LoadsOnce ==
  \A w \in Workers : /\ pc[w] = "load" => fresh[w]
                     /\ pc[w] \in Working => ~fresh[w]

\* pending_ counts the late workers once a task is announced; before, there are none.
Counted ==
  \A c \in Callers :
    /\ ~(pc[c] \in Published) => Late = {}
    /\ pc[c] = "announce" => pending = Cardinality(Workers)
    /\ pc[c] \in Published => pending = Cardinality(Late)

\* The published task is the one the caller is waiting for.
Current ==
  \A c \in Callers :
    /\ Active(c) => task = c /\ total = want[c]
    /\ pc[c] = "announce" => next = 0 /\ ran[c] = {}

Holds(p, i) == pc[p] = "run" /\ hand[p] <= i /\ i < hand[p] + grain

\* Slices in hand are below next_ and apart.
HandsApart ==
  /\ \A p \in Threads : pc[p] = "run" => hand[p] < total /\ hand[p] + grain <= next
  /\ \A p, q \in Threads :
       p # q /\ pc[p] = "run" /\ pc[q] = "run"
         => hand[p] + grain <= hand[q] \/ hand[q] + grain <= hand[p]

\* What has been run is below next_ and in no hand; what is below next_ has been
\* run or is in a hand; who has left run_chunks saw next_ beyond the end.
Covered ==
  \A c \in Callers : Active(c) =>
    /\ \A i \in ran[c] : i < next /\ i < total /\ \A p \in Threads : ~Holds(p, i)
    /\ \A i \in Nat : i < next /\ i < total => i \in ran[c] \/ \E p \in Threads : Holds(p, i)
    /\ \A p \in Threads : pc[p] \in {"arrive", "barrier"} => total <= next

IInv ==
  /\ TypeOK /\ ReturnedDone /\ LoadsOnce /\ Counted /\ Current /\ HandsApart /\ Covered
-----------------------------------------------------------------------------
(* Slices and late workers.                                                *)

LEMMA DivPositive ==
  ASSUME NEW a \in Nat, NEW b \in Nat \ {0}, a >= b
  PROVE  a \div b \in Nat \ {0}
BY SMT

\* A slice of rows is never empty, whatever the size of the loop.
LEMMA RowsPositive ==
  ASSUME NEW n \in Nat
  PROVE  Rows(n) \in Nat \ {0}
<1> DEFINE share == n \div ((Cardinality(Workers) + 1) * 8)
           g == IF share < Line THEN Line ELSE share
           q == (g + Line - 1) \div Line
<1>1. Cardinality(Workers) \in Nat /\ Line \in Nat \ {0}
  BY FS_CardinalityType, PoolAssumption
<1>2. (Cardinality(Workers) + 1) * 8 \in Nat \ {0}
  BY <1>1
<1>3. share \in Nat
  BY <1>2
<1>4. g \in Nat /\ g >= Line
  BY <1>1, <1>3
<1>5. q \in Nat \ {0}
  <2>1. g + Line - 1 \in Nat /\ g + Line - 1 >= Line
    BY <1>1, <1>4
  <2> QED BY <1>1, <2>1, DivPositive
<1>6. q * Line \in Nat \ {0}
  BY <1>1, <1>5
<1> QED BY <1>6 DEF Rows

LEMMA LateFinite ==
  /\ IsFiniteSet(Late)
  /\ Cardinality(Late) \in Nat
  /\ Cardinality(Late) = 0 <=> Late = {}
<1>1. Late \in SUBSET Workers
  BY DEF Late
<1>2. IsFiniteSet(Late)
  BY <1>1, FS_Subset, PoolAssumption
<1> QED BY <1>2, FS_CardinalityType, FS_EmptySet

\* Who works for a task works for the one caller there is.
LEMMA OneTask ==
  ASSUME IInv, OneCallerOnly, NEW p \in Threads, pc[p] \in {"take", "run", "arrive"}
  PROVE  \E c \in Callers : pc[c] \in Published /\ task = c /\ total = want[c]
<1>1. PICK c \in Callers : \A d \in Callers : d = c
  BY PoolAssumption DEF OneCallerOnly
<1>2. pc[c] \in Published
  <2>1. CASE p \in Callers
    BY <1>1, <2>1 DEF IInv, TypeOK, CallerPlaces, Published
  <2>2. CASE p \in Workers
    <3>1. p \in Late
      BY <2>2 DEF Late, Working
    <3> QED BY <3>1 DEF IInv, Counted
  <2> QED BY <2>1, <2>2 DEF Threads
<1> QED BY <1>2 DEF IInv, Current, Active
-----------------------------------------------------------------------------
THEOREM InitInv == Init => IInv
<1> SUFFICES ASSUME Init PROVE IInv
  OBVIOUS
<1> USE DEF Init
<1>1. TypeOK
  BY PoolAssumption DEF TypeOK, Threads, CallerPlaces, WorkerPlaces
<1>2. ReturnedDone /\ LoadsOnce
  BY PoolAssumption DEF ReturnedDone, LoadsOnce, At, Units, Threads, Working
<1>3. Late = {}
  BY PoolAssumption DEF Late, Threads, Working
<1>4. Counted /\ Current /\ HandsApart /\ Covered
  BY <1>3, PoolAssumption DEF Counted, Current, HandsApart, Covered, Active, Published, Threads
<1> QED BY <1>1, <1>2, <1>4 DEF IInv
-----------------------------------------------------------------------------
(* One lemma per action.                                                   *)

LEMMA StartAloneKeeps ==
  ASSUME IInv, OneCallerOnly, NEW c \in Callers, NEW n \in Nat, NEW k \in Nat \ {0},
         StartAlone(c, n, k)
  PROVE  IInv'
<1> USE DEF StartAlone, Enter, At, Go, IInv, job
<1>1. \A d \in Callers : d = c
  BY DEF OneCallerOnly
<1>2. Late = {} /\ Late' = {}
  <2>1. Late = {}
    BY DEF Counted, Published
  <2> QED BY <2>1, PoolAssumption DEF Late, TypeOK, Threads
<1>3. \A p \in Threads : pc[p] # "run" /\ pc'[p] # "run"
  BY <1>1, <1>2 DEF Late, Working, TypeOK, Threads
<1>4. TypeOK'
  BY DEF TypeOK, CallerPlaces, WorkerPlaces, Threads
<1>5. ReturnedDone'
  <2>1. n = 0 => Units(n) = {}
    BY DEF Units
  <2> QED BY <1>1, <2>1 DEF ReturnedDone, TypeOK, Threads
<1>6. LoadsOnce'
  BY PoolAssumption DEF LoadsOnce, TypeOK, Threads
<1>7. Counted' /\ Current' /\ Covered'
  BY <1>1, <1>2 DEF Counted, Current, Covered, Active, Published, TypeOK, Threads
<1>8. HandsApart'
  BY <1>3 DEF HandsApart
<1> QED BY <1>4, <1>5, <1>6, <1>7, <1>8

LEMMA RunAloneKeeps ==
  ASSUME IInv, OneCallerOnly, NEW c \in Callers, RunAlone(c)
  PROVE  IInv'
<1> USE DEF RunAlone, At, Go, IInv, job
<1>1. \A d \in Callers : d = c
  BY DEF OneCallerOnly
<1>2. Late = {} /\ Late' = {}
  <2>1. Late = {}
    BY DEF Counted, Published
  <2> QED BY <2>1, PoolAssumption DEF Late, TypeOK, Threads
<1>3. \A p \in Threads : pc[p] # "run" /\ pc'[p] # "run"
  BY <1>1, <1>2 DEF Late, Working, TypeOK, Threads
<1>4. TypeOK'
  BY DEF TypeOK, CallerPlaces, WorkerPlaces, Threads, Units
<1>5. ReturnedDone' /\ LoadsOnce'
  BY <1>1, PoolAssumption DEF ReturnedDone, LoadsOnce, TypeOK, Threads
<1>6. Counted' /\ Current' /\ Covered'
  BY <1>1, <1>2 DEF Counted, Current, Covered, Active, Published, TypeOK, Threads
<1>7. HandsApart'
  BY <1>3 DEF HandsApart
<1> QED BY <1>4, <1>5, <1>6, <1>7

LEMMA PrepareKeeps ==
  ASSUME IInv, OneCallerOnly, NEW c \in Callers, NEW n \in Nat, NEW g \in Nat \ {0},
         NEW k \in Nat \ {0}, Prepare(c, n, g, k)
  PROVE  IInv'
<1> USE DEF Prepare, Enter, At, Go, IInv, First, Arrivals
<1>1. \A d \in Callers : d = c
  BY DEF OneCallerOnly
<1>2. Late = {} /\ Late' = {}
  <2>1. Late = {}
    BY DEF Counted, Published
  <2> QED BY <2>1, PoolAssumption DEF Late, TypeOK, Threads
<1>3. \A p \in Threads : pc'[p] \notin {"run", "arrive", "barrier"}
  BY <1>1, <1>2 DEF Late, Working, TypeOK, WorkerPlaces, Threads
<1>4. TypeOK'
  BY FS_CardinalityType, PoolAssumption DEF TypeOK, CallerPlaces, WorkerPlaces, Threads
<1>5. ReturnedDone' /\ LoadsOnce'
  BY <1>1, PoolAssumption DEF ReturnedDone, LoadsOnce, TypeOK, Threads
<1>6. Counted' /\ Current'
  BY <1>1, <1>2 DEF Counted, Current, Active, Published, TypeOK, Threads
<1>7. HandsApart'
  BY <1>3 DEF HandsApart
<1>8. Covered'
  BY <1>1, <1>3 DEF Covered, Active, Holds, TypeOK
<1> QED BY <1>4, <1>5, <1>6, <1>7, <1>8

LEMMA AnnounceKeeps ==
  ASSUME IInv, OneCallerOnly, NEW c \in Callers, Announce(c)
  PROVE  IInv'
<1> USE DEF Announce, At, Go, IInv, job, calls
<1>1. \A d \in Callers : d = c
  BY DEF OneCallerOnly
<1>2. Late = {} /\ Late' = Workers
  BY DEF Late, Counted, Published
<1>3. \A p \in Threads : pc'[p] \notin {"run", "arrive", "barrier"}
  BY <1>1, <1>2 DEF Late, Working, TypeOK, WorkerPlaces, Threads
<1>4. TypeOK'
  BY DEF TypeOK, CallerPlaces, WorkerPlaces, Threads
<1>5. ReturnedDone'
  BY <1>1 DEF ReturnedDone, TypeOK, Threads
<1>6. LoadsOnce'
  BY <1>2, PoolAssumption DEF LoadsOnce, Late, TypeOK, Threads
<1>7. Counted' /\ Current'
  BY <1>1, <1>2 DEF Counted, Current, Active, Published, TypeOK, Threads
<1>8. HandsApart'
  BY <1>3 DEF HandsApart
<1>9. Covered'
  BY <1>1, <1>3 DEF Covered, Current, Active, Holds, TypeOK
<1> QED BY <1>4, <1>5, <1>6, <1>7, <1>8, <1>9

LEMMA NotifyAllKeeps ==
  ASSUME IInv, OneCallerOnly, NEW c \in Callers, NotifyAll(c)
  PROVE  IInv'
<1> USE DEF NotifyAll, At, IInv, job, calls
<1>1. \A d \in Callers : d = c
  BY DEF OneCallerOnly
<1>2. \A w \in Workers : pc'[w] = pc[w] \/ (pc[w] = "asleep" /\ pc'[w] = "check")
  BY PoolAssumption DEF TypeOK, Threads
<1>3. Late' = Late
  BY <1>2 DEF Late, Working
<1>4. \A p \in Threads : /\ pc'[p] = "run" <=> pc[p] = "run"
                         /\ pc'[p] \in {"arrive", "barrier"} <=> pc[p] \in {"arrive", "barrier"}
  BY DEF TypeOK, Threads
<1>5. TypeOK'
  BY PoolAssumption DEF TypeOK, CallerPlaces, WorkerPlaces, Threads
<1>6. ReturnedDone' /\ LoadsOnce'
  BY <1>1, <1>2 DEF ReturnedDone, LoadsOnce, Working, Threads
<1>7. Counted' /\ Current'
  BY <1>1, <1>3 DEF Counted, Current, Active, Published, Threads
<1>8. HandsApart' /\ Covered'
  BY <1>1, <1>4 DEF HandsApart, Covered, Holds, Active, Published, Threads
<1> QED BY <1>5, <1>6, <1>7, <1>8

LEMMA LeaveKeeps ==
  ASSUME IInv, OneCallerOnly, NEW c \in Callers, Leave(c)
  PROVE  IInv' /\ ran[c] = Units(want[c])
<1> USE DEF Leave, AllArrived, At, Go, IInv, job, calls
<1>1. \A d \in Callers : d = c
  BY DEF OneCallerOnly
<1>2. Late = {} /\ Late' = {}
  <2>1. Late = {}
    BY LateFinite DEF Counted, Published
  <2> QED BY <2>1, PoolAssumption DEF Late, TypeOK, Threads
<1>3. \A p \in Threads : pc[p] # "run" /\ pc'[p] # "run"
  BY <1>1, <1>2 DEF Late, Working, TypeOK, Threads
<1>4. ran[c] = Units(want[c])
  <2>1. total = want[c] /\ total <= next /\ Active(c)
    BY DEF Current, Covered, Active, Published, Threads
  <2>2. \A i \in Nat : i < total => i \in ran[c]
    BY <1>3, <2>1 DEF Covered, Holds, TypeOK
  <2>3. \A i \in ran[c] : i \in Nat /\ i < total
    BY <2>1 DEF Covered, TypeOK
  <2>4. want[c] \in Nat /\ Units(want[c]) = {i \in Nat : i < total}
    BY <2>1 DEF Units, TypeOK
  <2> QED BY <2>2, <2>3, <2>4
<1>5. TypeOK' /\ LoadsOnce'
  BY PoolAssumption DEF TypeOK, LoadsOnce, CallerPlaces, WorkerPlaces, Threads
<1>6. ReturnedDone'
  BY <1>1, <1>4 DEF ReturnedDone
<1>7. Counted' /\ Current' /\ Covered'
  BY <1>1, <1>2 DEF Counted, Current, Covered, Active, Published, TypeOK, Threads
<1>8. HandsApart'
  BY <1>3 DEF HandsApart
<1> QED BY <1>4, <1>5, <1>6, <1>7, <1>8

LEMMA TakeKeeps ==
  ASSUME IInv, OneCallerOnly, NEW p \in Threads, Take(p)
  PROVE  IInv'
<1> USE DEF Take, Step, At, Go, IInv, job, calls
<1>1. PICK c \in Callers : pc[c] \in Published /\ task = c /\ total = want[c]
  BY OneTask
<1>2. \A d \in Callers : d = c
  BY DEF OneCallerOnly
<1>3. pc'[p] = (IF next < total THEN "run" ELSE IF p \in Callers THEN "barrier" ELSE "arrive")
      /\ \A q \in Threads \ {p} : pc'[q] = pc[q] /\ hand'[q] = hand[q]
  BY DEF TypeOK
<1>4. hand'[p] = next /\ next' = next + grain /\ next \in Nat /\ grain \in Nat \ {0}
      /\ total \in Nat /\ hand \in [Threads -> Nat]
  BY DEF TypeOK
<1>5. Late' = Late
  BY <1>3, PoolAssumption DEF Late, Working, Threads
<1>6. TypeOK'
  BY <1>4, PoolAssumption DEF TypeOK, CallerPlaces, WorkerPlaces, Threads
<1>7. ReturnedDone' /\ LoadsOnce'
  BY <1>1, <1>2, <1>3, PoolAssumption
     DEF ReturnedDone, LoadsOnce, Working, Published, Threads
<1>8. c \in Threads /\ pc'[c] \in Published
  BY <1>1, <1>2, <1>3 DEF Published, Threads
<1>9. Counted' /\ Current'
  BY <1>1, <1>2, <1>5, <1>8 DEF Counted, Current, Active, Published
<1>10. HandsApart'
  <2>1. \A q \in Threads : pc[q] = "run" => hand[q] < total /\ hand[q] + grain <= next
    BY DEF HandsApart
  <2>2. \A q \in Threads : pc'[q] = "run" => hand'[q] < total /\ hand'[q] + grain <= next'
    BY <1>3, <1>4, <2>1
  <2>3. ASSUME NEW q \in Threads, NEW r \in Threads, q # r, pc'[q] = "run", pc'[r] = "run"
        PROVE  hand'[q] + grain <= hand'[r] \/ hand'[r] + grain <= hand'[q]
    BY <1>3, <1>4, <2>1, <2>3 DEF HandsApart
  <2> QED BY <2>2, <2>3 DEF HandsApart
<1>11. Covered'
  <2>1. Active(c)
    BY <1>1 DEF Active
  <2>2. ASSUME NEW i \in ran[c]
        PROVE  i < next' /\ i < total /\ \A q \in Threads : ~Holds(q, i)'
    <3>1. i \in Nat /\ i < next /\ i < total /\ \A q \in Threads : ~Holds(q, i)
      BY <2>1 DEF Covered, TypeOK
    <3> QED BY <1>3, <1>4, <3>1 DEF Holds
  <2>3. ASSUME NEW i \in Nat, i < next', i < total
        PROVE  i \in ran[c] \/ \E q \in Threads : Holds(q, i)'
    <3>1. CASE i < next
      <4>1. i \in ran[c] \/ \E q \in Threads : Holds(q, i)
        BY <2>1, <2>3, <3>1 DEF Covered
      <4> QED BY <1>3, <4>1 DEF Holds
    <3>2. CASE i >= next
      BY <1>3, <1>4, <2>3, <3>2 DEF Holds
    <3> QED BY <1>4, <3>1, <3>2
  <2>4. ASSUME NEW q \in Threads, pc'[q] \in {"arrive", "barrier"}
        PROVE  total <= next'
    BY <1>3, <1>4, <2>1, <2>4 DEF Covered
  <2> QED BY <1>2, <2>2, <2>3, <2>4 DEF Covered
<1> QED BY <1>6, <1>7, <1>9, <1>10, <1>11

LEMMA RunKeeps ==
  ASSUME IInv, OneCallerOnly, NEW p \in Threads, Run(p)
  PROVE  IInv'
<1> USE DEF Run, At, Go, IInv, job
<1>1. PICK c \in Callers : pc[c] \in Published /\ task = c /\ total = want[c]
  BY OneTask
<1>2. \A d \in Callers : d = c
  BY DEF OneCallerOnly
<1>3. pc[p] = "run" /\ pc'[p] = "take" /\ \A q \in Threads \ {p} : pc'[q] = pc[q]
  BY DEF TypeOK
<1>4. ran'[c] = ran[c] \cup Slice(p)
  BY <1>1 DEF TypeOK
<1>5. \A i : i \in Slice(p) <=> i \in Nat /\ Holds(p, i) /\ i < total
  BY <1>3 DEF Slice, Lower, Holds, TypeOK
<1>6. Late' = Late
  BY <1>3, PoolAssumption DEF Late, Working, Threads
<1>7. TypeOK'
  BY <1>1, <1>4, <1>5, PoolAssumption DEF TypeOK, CallerPlaces, WorkerPlaces, Threads
<1>8. c \in Threads /\ pc'[c] \in Published
  BY <1>1, <1>3 DEF Published, Threads
<1>9. ReturnedDone' /\ LoadsOnce'
  BY <1>2, <1>3, <1>8, PoolAssumption DEF ReturnedDone, LoadsOnce, Working, Published, Threads
<1>10. Counted' /\ Current'
  BY <1>1, <1>2, <1>6, <1>8 DEF Counted, Current, Active, Published
<1>11. HandsApart'
  BY <1>3 DEF HandsApart
<1>12. Covered'
  <2>1. Active(c)
    BY <1>1 DEF Active
  <2>2. ASSUME NEW i \in ran'[c]
        PROVE  i < next /\ i < total /\ \A q \in Threads : ~Holds(q, i)'
    <3>1. CASE i \in ran[c]
      BY <1>3, <2>1, <3>1 DEF Covered, Holds
    <3>2. CASE i \in Slice(p)
      <4>1. i \in Nat /\ i < total /\ hand[p] <= i /\ i < hand[p] + grain
        BY <1>5, <3>2 DEF Holds
      <4>2. hand[p] + grain <= next
        BY <1>3 DEF HandsApart
      <4>3. ASSUME NEW q \in Threads, q # p, pc[q] = "run"
            PROVE  ~(hand[q] <= i /\ i < hand[q] + grain)
        BY <1>3, <4>1, <4>3 DEF HandsApart, TypeOK
      <4> QED BY <1>3, <4>1, <4>2, <4>3 DEF Holds, TypeOK
    <3> QED BY <1>4, <3>1, <3>2
  <2>3. ASSUME NEW i \in Nat, i < next, i < total
        PROVE  i \in ran'[c] \/ \E q \in Threads : Holds(q, i)'
    <3>1. i \in ran[c] \/ \E q \in Threads : Holds(q, i)
      BY <2>1, <2>3 DEF Covered
    <3> QED BY <1>3, <1>4, <1>5, <2>3, <3>1 DEF Holds
  <2>4. \A q \in Threads : pc'[q] \in {"arrive", "barrier"} => total <= next
    BY <1>3, <2>1 DEF Covered
  <2> QED BY <1>2, <2>2, <2>3, <2>4 DEF Covered
<1> QED BY <1>7, <1>9, <1>10, <1>11, <1>12

\* Notice, GiveUp, Check, WakeSpuriously: a worker moves and nothing else changes.
LEMMA WorkerMoves ==
  ASSUME IInv, OneCallerOnly, NEW w \in Workers,
         pc[w] \in {"spin", "check", "asleep"},
         NEW place \in {"check", "asleep", "load"}, Go(w, place),
         place = "load" => fresh[w],
         UNCHANGED <<job, next, pending, mtx, fresh, hand, calls>>
  PROVE  IInv'
<1> USE DEF Go, IInv, job, calls
<1>1. w \notin Callers /\ \A q \in Threads \ {w} : pc'[q] = pc[q]
  BY PoolAssumption DEF TypeOK
<1>2. pc'[w] = place
  BY DEF TypeOK, Threads
<1>3. Late' = Late
  BY <1>1, <1>2 DEF Late, Working, Threads
<1>4. TypeOK'
  BY <1>1, <1>2 DEF TypeOK, CallerPlaces, WorkerPlaces, Threads
<1>5. ReturnedDone' /\ LoadsOnce'
  BY <1>1, <1>2 DEF ReturnedDone, LoadsOnce, At, Working, Threads
<1>6. Counted' /\ Current'
  BY <1>1, <1>3 DEF Counted, Current, Active, Threads
<1>7. HandsApart' /\ Covered'
  BY <1>1, <1>2 DEF HandsApart, Covered, Holds, Active, Threads
<1> QED BY <1>4, <1>5, <1>6, <1>7

LEMMA LoadKeeps ==
  ASSUME IInv, OneCallerOnly, NEW w \in Workers, Load(w)
  PROVE  IInv'
<1> USE DEF Load, At, Go, IInv, job, calls
<1>1. w \notin Callers /\ \A q \in Threads \ {w} : pc'[q] = pc[q]
  BY PoolAssumption DEF TypeOK
<1>2. pc'[w] = "take" /\ fresh[w] /\ ~fresh'[w]
      /\ \A v \in Workers \ {w} : fresh'[v] = fresh[v]
  BY DEF TypeOK, LoadsOnce, Threads
<1>3. Late' = Late
  BY <1>1, <1>2 DEF Late, Working, Threads
<1>4. TypeOK'
  BY <1>1, <1>2 DEF TypeOK, CallerPlaces, WorkerPlaces, Threads
<1>5. ReturnedDone' /\ LoadsOnce'
  BY <1>1, <1>2 DEF ReturnedDone, LoadsOnce, Working, Threads
<1>6. Counted' /\ Current'
  BY <1>1, <1>3 DEF Counted, Current, Active, Threads
<1>7. HandsApart' /\ Covered'
  BY <1>1, <1>2 DEF HandsApart, Covered, Holds, Active, Threads
<1> QED BY <1>4, <1>5, <1>6, <1>7

LEMMA ArriveKeeps ==
  ASSUME IInv, OneCallerOnly, NEW w \in Workers, Arrive(w)
  PROVE  IInv'
<1> USE DEF Arrive, At, Go, IInv, job, calls
<1>1. w \notin Callers /\ \A q \in Threads \ {w} : pc'[q] = pc[q]
  BY PoolAssumption DEF TypeOK
<1>2. pc'[w] = "spin" /\ ~fresh[w] /\ w \in Late
  BY DEF TypeOK, LoadsOnce, Late, Working, Threads
<1>3. Late' = Late \ {w}
  BY <1>1, <1>2 DEF Late, Working, Threads
<1>4. Cardinality(Late') = Cardinality(Late) - 1
  BY <1>2, <1>3, LateFinite, FS_RemoveElement
<1>5. PICK c \in Callers : pc[c] \in Published /\ \A d \in Callers : d = c
  <2>1. PICK c \in Callers : pc[c] \in Published
    BY OneTask DEF Threads
  <2> QED BY <2>1 DEF OneCallerOnly
<1>6. pending = Cardinality(Late) /\ Cardinality(Late) \in Nat \ {0}
  BY <1>2, <1>5, LateFinite DEF Counted
<1>7. TypeOK'
  BY <1>1, <1>2, <1>6 DEF TypeOK, CallerPlaces, WorkerPlaces, Threads
<1>8. ReturnedDone' /\ LoadsOnce'
  BY <1>1, <1>2 DEF ReturnedDone, LoadsOnce, Working, Threads
<1>9. Counted' /\ Current'
  BY <1>1, <1>4, <1>5, <1>6 DEF Counted, Current, Active, Published, Threads
<1>10. HandsApart' /\ Covered'
  BY <1>1, <1>2 DEF HandsApart, Covered, Holds, Active, Threads
<1> QED BY <1>7, <1>8, <1>9, <1>10

LEMMA CallerStepKeeps ==
  ASSUME IInv, OneCallerOnly, NEW c \in Callers, CallerStep(c)
  PROVE  IInv'
<1>1. CASE RunAlone(c)
  BY <1>1, RunAloneKeeps
<1>2. CASE Announce(c)
  BY <1>2, AnnounceKeeps
<1>3. CASE NotifyAll(c)
  BY <1>3, NotifyAllKeeps
<1>4. CASE Take(c) \/ Run(c)
  BY <1>4, TakeKeeps, RunKeeps DEF Threads
<1>5. CASE Leave(c)
  BY <1>5, LeaveKeeps
<1> QED BY <1>1, <1>2, <1>3, <1>4, <1>5 DEF CallerStep

LEMMA WorkerStepKeeps ==
  ASSUME IInv, OneCallerOnly, NEW w \in Workers, WorkerStep(w) \/ WakeSpuriously(w)
  PROVE  IInv'
<1>1. CASE Notice(w)
  BY <1>1, WorkerMoves DEF Notice, At
<1>2. CASE GiveUp(w) \/ WakeSpuriously(w)
  BY <1>2, WorkerMoves DEF GiveUp, WakeSpuriously, At
<1>3. CASE Check(w)
  BY <1>3, WorkerMoves DEF Check, NothingNew, At
<1>4. CASE Load(w)
  BY <1>4, LoadKeeps
<1>5. CASE Take(w) \/ Run(w)
  BY <1>5, TakeKeeps, RunKeeps DEF Threads
<1>6. CASE Arrive(w)
  BY <1>6, ArriveKeeps
<1> QED BY <1>1, <1>2, <1>3, <1>4, <1>5, <1>6 DEF WorkerStep

LEMMA CallKeeps ==
  ASSUME IInv, OneCallerOnly, NEW c \in Callers, NEW n \in Totals,
         ParallelForRows(c, n) \/ ParallelForUnits(c, n)
  PROVE  IInv'
<1>1. n \in Nat /\ MinRows \in Nat \ {0} /\ Rows(n) \in Nat \ {0}
  BY PoolAssumption, RowsPositive
<1>2. CASE StartAlone(c, n, MinRows) \/ StartAlone(c, n, 2)
  BY <1>1, <1>2, StartAloneKeeps
<1>3. CASE Prepare(c, n, Rows(n), MinRows)
  BY <1>1, <1>3, PrepareKeeps
<1>4. CASE Prepare(c, n, 1, 2)
  BY <1>1, <1>4, PrepareKeeps
<1> QED BY <1>2, <1>3, <1>4 DEF ParallelForRows, ParallelForUnits

LEMMA StutterKeeps ==
  ASSUME IInv, UNCHANGED vars
  PROVE  IInv'
BY DEF IInv, vars, TypeOK, ReturnedDone, LoadsOnce, Counted, Current, HandsApart, Covered,
       At, Late, Active, Holds

LEMMA NextKeeps ==
  ASSUME IInv, OneCallerOnly, [Next]_vars
  PROVE  IInv'
BY CallKeeps, CallerStepKeeps, WorkerStepKeeps, StutterKeeps DEF Next
-----------------------------------------------------------------------------
(* The theorems.                                                           *)

\* The argument above is inductive: it holds in every reachable state.
THEOREM Inductive == ASSUME OneCallerOnly PROVE Spec => []IInv
<1>1. Init => IInv
  BY InitInv
<1>2. IInv /\ [Next]_vars => IInv'
  BY NextKeeps
<1> QED BY <1>1, <1>2, PTL DEF Spec

\* Every field keeps its type; pending_ never goes below zero.
THEOREM TypeSafe == ASSUME OneCallerOnly PROVE Spec => []TypeOK
<1>1. IInv => TypeOK
  BY DEF IInv
<1> QED BY <1>1, Inductive, PTL

\* A call that has returned ran its whole loop, for any number of workers.
THEOREM ReturnsComplete == ASSUME OneCallerOnly PROVE Spec => []ReturnedDone
<1>1. IInv => ReturnedDone
  BY DEF IInv
<1> QED BY <1>1, Inductive, PTL

\* No unit is run twice.
THEOREM RunsOnce == ASSUME OneCallerOnly PROVE Spec => []OnceEach
<1>1. IInv => OnceEach
  <2> SUFFICES ASSUME IInv, NEW p \in Threads, pc[p] = "run"
               PROVE  /\ Slice(p) \cap ran[task] = {}
                      /\ \A q \in Threads \ {p} : pc[q] = "run" => Slice(p) \cap Slice(q) = {}
    BY DEF OnceEach, At
  <2>1. PICK c \in Callers : pc[c] \in Published /\ task = c
    BY OneTask
  <2>2. \A i \in Slice(p) : Holds(p, i)
    BY DEF Slice, Lower, Holds, IInv, TypeOK
  <2>3. \A i \in ran[c] : ~Holds(p, i)
    BY <2>1 DEF IInv, Covered, Active
  <2>4. ASSUME NEW q \in Threads \ {p}, pc[q] = "run", NEW i \in Slice(p), i \in Slice(q)
        PROVE  FALSE
    BY <2>4 DEF Slice, Lower, IInv, HandsApart, TypeOK
  <2> QED BY <2>1, <2>2, <2>3, <2>4
<1> QED BY <1>1, Inductive, PTL

\* No thread runs a task whose caller has gone.
THEOREM NeverStrays == ASSUME OneCallerOnly PROVE Spec => []TaskAlive
<1>1. IInv => TaskAlive
  BY OneTask, PoolAssumption DEF TaskAlive, At, Published
<1> QED BY <1>1, Inductive, PTL
-----------------------------------------------------------------------------
(* The pool implements the loop its callers ask for.                       *)

left    == [c \in Callers |-> Units(want[c]) \ ran[c]]
calling == [c \in Callers |-> ~At(c, "idle")]

\* A step that leaves the calls alone, and the places of the callers, does not show.
LEMMA Hidden ==
  ASSUME UNCHANGED calls, \A c \in Callers : At(c, "idle")' = At(c, "idle")
  PROVE  left' = left /\ calling' = calling
BY DEF left, calling, calls

\* Starting a call is a Call of the loop, or nothing when the loop is empty.
LEMMA CallRefines ==
  ASSUME IInv, NEW c \in Callers, NEW n \in Totals,
         ParallelForRows(c, n) \/ ParallelForUnits(c, n)
  PROVE  Loop!Call(c) \/ (left' = left /\ calling' = calling)
<1>1. n \in Nat /\ MinRows \in Nat \ {0}
  BY PoolAssumption
<1>2. pc[c] = "idle" /\ want' = [want EXCEPT ![c] = n] /\ ran' = [ran EXCEPT ![c] = {}]
      /\ \E place \in CallerPlaces : /\ Go(c, place)
                                     /\ place = "idle" <=> n = 0
  BY <1>1 DEF ParallelForRows, ParallelForUnits, StartAlone, Prepare, Enter, Alone, At, CallerPlaces
<1>3. left' = [left EXCEPT ![c] = 0..n - 1]
  BY <1>2 DEF left, Units, IInv, TypeOK
<1>4. calling' = [calling EXCEPT ![c] = (n # 0)] /\ ~calling[c]
  BY <1>2 DEF calling, At, Go, IInv, TypeOK, Threads
<1>5. CASE n # 0
  BY <1>3, <1>4, <1>5 DEF Loop!Call, left, calling
<1>6. CASE n = 0
  <2>1. 0..n - 1 = {}
    BY <1>1, <1>6
  <2>2. left[c] = {}
    BY <1>2 DEF left, IInv, ReturnedDone, At
  <2>3. left' = left
    BY <1>3, <2>1, <2>2 DEF left
  <2>4. calling[c] = FALSE
    BY <1>2, Zenon DEF calling, At
  <2>5. calling' = calling
    BY <1>4, <1>6, <2>4 DEF calling
  <2> QED BY <2>3, <2>5
<1> QED BY <1>5, <1>6

\* Work done for the call of c, which may return when all of it is done.
LEMMA AdvanceRefines ==
  ASSUME NEW c \in Callers, pc[c] # "idle", want' = want,
         NEW done, ran' = [ran EXCEPT ![c] = done], ran \in [Callers -> SUBSET Nat],
         Units(want[c]) \ done \in SUBSET (Units(want[c]) \ ran[c]),
         \A d \in Callers \ {c} : At(d, "idle")' = At(d, "idle"),
         At(c, "idle")' => Units(want[c]) \ done = {}
  PROVE  Loop!Advance(c)
<1> DEFINE rest == Units(want[c]) \ done
           stays == ~At(c, "idle")'
<1>1. left' = [left EXCEPT ![c] = rest]
  BY DEF left
<1>2. calling' = [calling EXCEPT ![c] = stays] /\ calling[c]
  <2>1. \A d \in Callers : calling'[d] = IF d = c THEN stays ELSE calling[d]
    BY Zenon DEF calling
  <2>2. calling' = [d \in Callers |-> calling'[d]]
    BY DEF calling
  <2>3. [calling EXCEPT ![c] = stays] = [d \in Callers |-> IF d = c THEN stays ELSE calling[d]]
    BY DEF calling
  <2>4. calling[c]
    BY DEF calling, At
  <2> HIDE DEF stays
  <2> QED BY <2>1, <2>2, <2>3, <2>4
<1>3. rest \in SUBSET left[c] /\ stays \in BOOLEAN
  BY DEF left, At
<1>4. rest # {} => stays
  OBVIOUS
<1> HIDE DEF rest, stays
<1>5. /\ calling[c]
      /\ \E r \in SUBSET left[c] : \E s \in BOOLEAN :
           /\ r # {} => s
           /\ left' = [left EXCEPT ![c] = r]
           /\ calling' = [calling EXCEPT ![c] = s]
  BY <1>1, <1>2, <1>3, <1>4
<1> QED BY <1>5 DEF Loop!Advance, left, calling

LEMMA RunAloneRefines ==
  ASSUME IInv, NEW c \in Callers, RunAlone(c)
  PROVE  Loop!Advance(c)
<1>1. pc[c] = "alone" /\ want' = want /\ ran' = [ran EXCEPT ![c] = Units(want[c])]
      /\ ran \in [Callers -> SUBSET Nat]
  BY DEF RunAlone, At, IInv, TypeOK
<1>2. \A d \in Callers \ {c} : At(d, "idle")' = At(d, "idle")
  BY DEF RunAlone, At, Go, IInv, TypeOK, Threads
<1> QED BY <1>1, <1>2, AdvanceRefines

LEMMA LeaveRefines ==
  ASSUME IInv, OneCallerOnly, NEW c \in Callers, Leave(c)
  PROVE  Loop!Advance(c)
<1>1. ran[c] = Units(want[c])
  BY LeaveKeeps
<1>2. pc[c] = "barrier" /\ want' = want /\ ran' = [ran EXCEPT ![c] = ran[c]]
      /\ ran \in [Callers -> SUBSET Nat]
  BY DEF Leave, At, calls, IInv, TypeOK
<1>3. \A d \in Callers \ {c} : At(d, "idle")' = At(d, "idle")
  BY DEF Leave, At, Go, IInv, TypeOK, Threads
<1> QED BY <1>1, <1>2, <1>3, AdvanceRefines

LEMMA RunRefines ==
  ASSUME IInv, OneCallerOnly, NEW p \in Threads, Run(p)
  PROVE  \E c \in Callers : Loop!Advance(c)
<1>1. PICK c \in Callers : pc[c] \in Published /\ task = c
  BY OneTask DEF Run, At
<1>2. want' = want /\ ran' = [ran EXCEPT ![c] = ran[c] \cup Slice(p)]
      /\ ran \in [Callers -> SUBSET Nat]
  BY <1>1 DEF Run, IInv, TypeOK
<1>3. \A d \in Callers : At(d, "idle")' = At(d, "idle")
  BY DEF Run, At, Go, IInv, TypeOK, Threads
<1>4. pc[c] # "idle"
  BY <1>1 DEF Published
<1>5. ~At(c, "idle")'
  BY <1>3, <1>4 DEF At
<1>6. Loop!Advance(c)
  BY <1>2, <1>3, <1>4, <1>5, AdvanceRefines
<1> QED BY <1>6

\* Every other step is hidden.
LEMMA HiddenSteps ==
  ASSUME IInv,
         \/ \E c \in Callers : Announce(c) \/ NotifyAll(c)
         \/ \E p \in Threads : Take(p)
         \/ \E w \in Workers : \/ Notice(w) \/ GiveUp(w) \/ Check(w) \/ WakeSpuriously(w)
                               \/ Load(w) \/ Arrive(w)
         \/ UNCHANGED vars
  PROVE  left' = left /\ calling' = calling
<1>1. CASE \E c \in Callers : Announce(c) \/ NotifyAll(c)
  BY <1>1, Hidden DEF Announce, NotifyAll, At, Go, IInv, TypeOK, Threads, CallerPlaces
<1>2. CASE \E p \in Threads : Take(p)
  BY <1>2, Hidden DEF Take, At, Go, IInv, TypeOK, Threads, CallerPlaces
<1>3. CASE \E w \in Workers : \/ Notice(w) \/ GiveUp(w) \/ Check(w) \/ WakeSpuriously(w)
                              \/ Load(w) \/ Arrive(w)
  BY <1>3, Hidden, PoolAssumption
     DEF Notice, GiveUp, Check, WakeSpuriously, Load, Arrive, At, Go, IInv, TypeOK, Threads
<1>4. CASE UNCHANGED vars
  BY <1>4, Hidden DEF vars, calls, At
<1> QED BY <1>1, <1>2, <1>3, <1>4

LEMMA StepRefines ==
  ASSUME IInv, OneCallerOnly, [Next]_vars
  PROVE  [Loop!Next]_(Loop!vars)
<1>1. CASE \E c \in Callers : \E n \in Totals : ParallelForRows(c, n) \/ ParallelForUnits(c, n)
  BY <1>1, CallRefines DEF Loop!Next, Loop!vars, left, calling
<1>2. CASE \E c \in Callers : RunAlone(c) \/ Leave(c)
  BY <1>2, RunAloneRefines, LeaveRefines DEF Loop!Next
<1>3. CASE \E p \in Threads : Run(p)
  BY <1>3, RunRefines DEF Loop!Next
<1>4. CASE \/ \E c \in Callers : Announce(c) \/ NotifyAll(c)
           \/ \E p \in Threads : Take(p)
           \/ \E w \in Workers : \/ Notice(w) \/ GiveUp(w) \/ Check(w) \/ WakeSpuriously(w)
                                 \/ Load(w) \/ Arrive(w)
           \/ UNCHANGED vars
  BY <1>4, HiddenSteps DEF Loop!vars, left, calling
<1> QED BY <1>1, <1>2, <1>3, <1>4 DEF Next, CallerStep, WorkerStep, Threads

\* The pool behaves as a loop that runs all its units before it returns.
THEOREM ImplementsParallelFor == ASSUME OneCallerOnly PROVE Spec => Synchronous
<1>1. Init => Loop!Init
  <2> SUFFICES ASSUME Init PROVE Loop!Init
    OBVIOUS
  <2>1. \A c \in Callers : Units(want[c]) \ ran[c] = {}
    BY DEF Init, Units
  <2>2. \A c \in Callers : (~At(c, "idle")) = FALSE
    BY Zenon DEF Init, At, Threads
  <2> QED BY <2>1, <2>2, Zenon DEF Loop!Init
<1>2. IInv /\ [Next]_vars => [Loop!Next]_(Loop!vars)
  BY StepRefines
<1> QED BY <1>1, <1>2, Inductive, PTL DEF Spec, Synchronous, Loop!Spec
=============================================================================

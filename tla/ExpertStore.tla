---------------------------- MODULE ExpertStore ----------------------------
(***************************************************************************)
(* The cache of dequantized experts (expert_store.cpp) in front of the     *)
(* tier: the engine's thread fetches experts while a worker loads the ones *)
(* the router predicts, and the model is closed while the worker may still *)
(* be reading (engine_destroy, ctx.cpp).                                   *)
(*                                                                         *)
(* mtx_ is held for one look or one insertion, never across a read: each   *)
(* is one action. reader_mtx_ is held across a read. Usage and hits are    *)
(* compared with PIN_THRESHOLD only and counted up to it.                  *)
(*                                                                         *)
(* Left out: fetch_union and prefetch_layer, which the engine never calls, *)
(* and the time between two fetches, which is the engine's computation.    *)
(***************************************************************************)
EXTENDS HybridTier, Sequences, FiniteSetsExt

CONSTANTS
  Main, Worker,  \* the two threads
  Capacity,      \* cache_count_
  PinAt,         \* PIN_THRESHOLD
  PinEnabled,    \* pin_enabled_
  Tiered,        \* the reader is wrapped in a HybridModelReader
  Parts,         \* the parts of an expert, in the order they are loaded
  Predictions,   \* what prefetch_async is called with: sequences of experts
  Saved,         \* the usage the file of the last run holds
  MaxCalls       \* bound: what the engine asks before the model is closed

ASSUME StoreAssumption ==
  /\ Threads = {Main, Worker} /\ Main # Worker
  /\ Capacity \in Nat \ {0} /\ PinAt \in Nat \ {0} /\ MaxCalls \in Nat
  /\ PinEnabled \in BOOLEAN /\ Tiered \in BOOLEAN
  /\ Parts \in Seq({k[2] : k \in Keys}) /\ Parts # <<>> /\ <<>> \notin Predictions
  /\ Predictions \subseteq Seq({k[1] : k \in Keys})
  /\ \A p \in Predictions : \A i \in DOMAIN p, j \in DOMAIN Parts : <<p[i], Parts[j]>> \in Keys
  /\ \E R \in SUBSET Keys : Saved \in [R -> 0..PinAt]

VARIABLES
  cache,    \* map_ and order_
  usage,    \* usage_: a key appears when it is first counted or looked up
  reader,   \* reader_mtx_: who holds it
  pending,  \* pending_idxs_ while has_pending_, else <<>>
  stop,     \* worker_stop_
  bell,     \* qcv_ has been notified since the worker went to sleep
  pc,       \* where each thread is
  want,     \* the key a thread loads, or Nobody
  todo,     \* the worker's list: experts still to be loaded
  part,     \* and the part of the first of them it is at
  calls     \* what the engine asked so far, up to MaxCalls

work == <<todo, part>>
queue == <<pending, stop, bell>>
vars == <<tier, cache, usage, reader, queue, pc, want, work, calls>>

Closing == {"save store", "save tier", "stop", "last ring", "join", "free tier", "free reader"}
MainPlaces == {"idle", "load", "read", "loaded", "tensor", "ring", "closed"} \cup Closing
WorkerPlaces == {"wait", "asleep", "look", "load", "read", "loaded", "next", "gone"}
Count(n) == IF n < PinAt THEN n + 1 ELSE n
Used(k) == IF k \in DOMAIN usage THEN usage[k] ELSE 0
WithUse(k, n) == [j \in DOMAIN usage \cup {k} |-> IF j = k THEN n ELSE usage[j]]
Go(t, place) == pc' = [pc EXCEPT ![t] = place]

Init ==
  /\ TierInit
  /\ cache = <<>> /\ usage = Saved /\ reader = Nobody
  /\ pending = <<>> /\ stop = FALSE /\ bell = FALSE
  /\ pc = [t \in Threads |-> IF t = Main THEN "idle" ELSE "wait"]
  /\ want = [t \in Threads |-> Nobody]
  /\ todo = <<>> /\ part = 1 /\ calls = 0

Ask == pc[Main] = "idle" /\ calls < MaxCalls /\ calls' = calls + 1

(***************************************************************************)
(* fetch: a hit under mtx_; a miss reads outside it and looks again before *)
(* it inserts, since the worker may have brought the same expert.          *)
(***************************************************************************)
FetchHit(k) ==
  /\ Ask /\ k \in DOMAIN cache
  /\ LET n == Count(cache[k].hits)
     IN cache' = [ToFront(cache, k) EXCEPT
                    ![k].hits = n,
                    ![k].pinned = @ \/ (PinEnabled /\ n >= PinAt)]
  /\ UNCHANGED <<tier, usage, reader, queue, pc, want, work>>

FetchMiss(k) ==
  /\ Ask /\ k \notin DOMAIN cache
  /\ usage' = WithUse(k, Count(Used(k)))
  /\ want' = [want EXCEPT ![Main] = k] /\ Go(Main, "load")
  /\ UNCHANGED <<tier, cache, reader, queue, work>>

\* load_data: reader_mtx_, then the reader or, behind it, the tier.
Load(t) ==
  /\ pc[t] = "load" /\ reader = Nobody
  /\ reader' = t /\ Go(t, "read")
  /\ IF Tiered
     THEN Call(t, <<"expert", want[t]>>)
     ELSE /\ \E ok \in IF want[t] \in Faulty THEN {"true", "false"} ELSE {"true"} :
               stage' = [stage EXCEPT ![t] = ok]
          /\ UNCHANGED ask
  /\ UNCHANGED <<mtx, bytes, kept, missed, cache, usage, queue, want, work, calls>>

\* Mutant of NextPart: one part too many.
NextPartLate ==
  IF part <= Len(Parts)
  THEN part' = part + 1 /\ Go(Worker, "look")
  ELSE part' = part /\ Go(Worker, "next")

\* The worker's next key: the next part of the expert, or the next expert.
NextPart ==
  IF part < Len(Parts)
  THEN part' = part + 1 /\ Go(Worker, "look")
  ELSE part' = part /\ Go(Worker, "next")

\* Mutant of Insert: it makes room only once the cache is over its capacity.
InsertLate(k) ==
  LET entry == Entry(0, PinEnabled /\ Used(k) >= PinAt)
  IN /\ IF Size(cache) > Capacity /\ Loose(cache) # {}
        THEN \E v \in Oldest(cache) : cache' = PushFront(Drop(cache, v), k, entry)
        ELSE cache' = PushFront(cache, k, entry)
     /\ usage' = IF PinEnabled THEN WithUse(k, Used(k)) ELSE usage

Loaded(t) ==
  /\ pc[t] = "read" /\ stage[t] \in {"true", "false"}
  /\ reader' = Nobody /\ Return(t)
  /\ IF stage[t] = "true" THEN Go(t, "loaded") /\ UNCHANGED <<want, part>>
     ELSE /\ want' = [want EXCEPT ![t] = Nobody]
          /\ IF t = Main THEN Go(t, "idle") /\ UNCHANGED part ELSE NextPart
  /\ UNCHANGED <<mtx, bytes, kept, missed, cache, usage, queue, todo, calls>>

Insert(k) ==
  LET entry == Entry(0, PinEnabled /\ Used(k) >= PinAt)
  IN /\ IF Size(cache) >= Capacity /\ Loose(cache) # {}
        THEN \E v \in Oldest(cache) : cache' = PushFront(Drop(cache, v), k, entry)
        ELSE cache' = PushFront(cache, k, entry)
     /\ usage' = IF PinEnabled THEN WithUse(k, Used(k)) ELSE usage

\* Mutant of InsertLocked: nobody looks whether the expert came meanwhile.
InsertBlind(k) == Insert(k)

\* insert_locked, and the look that fetch takes before it.
InsertLocked(k) ==
  IF k \in DOMAIN cache THEN UNCHANGED <<cache, usage>> ELSE Insert(k)

FetchKeep ==
  /\ pc[Main] = "loaded" /\ InsertLocked(want[Main]) /\ Go(Main, "idle")
  /\ want' = [want EXCEPT ![Main] = Nobody]
  /\ UNCHANGED <<tier, reader, queue, work, calls>>

WorkerKeep ==
  /\ pc[Worker] = "loaded" /\ InsertLocked(want[Worker]) /\ NextPart
  /\ want' = [want EXCEPT ![Worker] = Nobody]
  /\ UNCHANGED <<tier, reader, queue, todo, calls>>

\* The engine's own reads of weights go to the tier without reader_mtx_.
ReadTensor(half, n) ==
  /\ Ask /\ Tiered /\ Call(Main, <<half, n>>) /\ Go(Main, "tensor")
  /\ UNCHANGED <<mtx, bytes, kept, missed, cache, usage, reader, queue, want, work>>

GotTensor ==
  /\ pc[Main] = "tensor" /\ stage[Main] \in {"true", "false"}
  /\ Return(Main) /\ Go(Main, "idle")
  /\ UNCHANGED <<mtx, bytes, kept, missed, cache, usage, reader, queue, want, work, calls>>

(***************************************************************************)
(* prefetch_async and the worker. There is one slot: a fresher prediction  *)
(* replaces the one that waits. The flag is set under qmtx_, the           *)
(* notification comes after it is released.                                *)
(***************************************************************************)
PrefetchAsync(p) ==
  /\ Ask /\ pending' = p /\ Go(Main, "ring")
  /\ UNCHANGED <<tier, cache, usage, reader, stop, bell, want, work>>

\* Mutant of Wait: the worker sleeps without looking at the flags.
WaitBlind ==
  /\ pc[Worker] = "wait"
  /\ IF bell
     THEN /\ bell' = FALSE /\ UNCHANGED stop
          /\ IF stop THEN Go(Worker, "gone") /\ UNCHANGED <<pending, work>>
             ELSE IF pending # <<>>
             THEN /\ todo' = pending /\ part' = 1 /\ pending' = <<>> /\ Go(Worker, "look")
             ELSE Go(Worker, "asleep") /\ UNCHANGED <<pending, work>>
     ELSE bell' = FALSE /\ Go(Worker, "asleep") /\ UNCHANGED <<pending, stop, work>>
  /\ UNCHANGED <<tier, cache, usage, reader, want, calls>>

\* notify_one: nobody hears it unless the worker sleeps.
Ring ==
  /\ pc[Main] \in {"ring", "last ring"}
  /\ bell' = (pc[Worker] = "asleep")
  /\ Go(Main, IF pc[Main] = "ring" THEN "idle" ELSE "join")
  /\ UNCHANGED <<tier, cache, usage, reader, pending, stop, want, work, calls>>

Wait ==
  /\ pc[Worker] = "wait"
  /\ IF stop THEN Go(Worker, "gone") /\ UNCHANGED <<queue, work>>
     ELSE IF pending # <<>>
     THEN /\ todo' = pending /\ part' = 1 /\ pending' = <<>>
          /\ Go(Worker, "look") /\ UNCHANGED <<stop, bell>>
     ELSE bell' = FALSE /\ Go(Worker, "asleep") /\ UNCHANGED <<pending, stop, work>>
  /\ UNCHANGED <<tier, cache, usage, reader, want, calls>>

Wake ==
  /\ pc[Worker] = "asleep" /\ bell /\ Go(Worker, "wait")
  /\ UNCHANGED <<tier, cache, usage, reader, queue, want, work, calls>>

Look ==
  /\ pc[Worker] = "look"
  /\ LET k == <<Head(todo), Parts[part]>>
     IN IF k \in DOMAIN cache
        THEN NextPart /\ UNCHANGED want
        ELSE want' = [want EXCEPT ![Worker] = k] /\ Go(Worker, "load") /\ UNCHANGED part
  /\ UNCHANGED <<tier, cache, usage, reader, queue, todo, calls>>

\* A newer prediction makes the worker abandon the rest of this one.
NextExpert ==
  /\ pc[Worker] = "next"
  /\ IF pending # <<>> \/ Len(todo) = 1
     THEN todo' = <<>> /\ part' = 1 /\ Go(Worker, "wait")
     ELSE todo' = Tail(todo) /\ part' = 1 /\ Go(Worker, "look")
  /\ UNCHANGED <<tier, cache, usage, reader, queue, want, calls>>

(***************************************************************************)
(* engine_destroy: the usage is saved, the worker is stopped and joined by *)
(* the destructor of the store, then the tier and the reader go. save_usage *)
(* walks the counts without a lock.                                        *)
(***************************************************************************)
ClosingSteps ==
  {<<"save store", "save tier">>, <<"save tier", "stop">>, <<"stop", "last ring">>,
   <<"join", "free tier">>, <<"free tier", "free reader">>, <<"free reader", "closed">>}

Destroy ==
  /\ pc[Main] = "idle" /\ Go(Main, "save store")
  /\ UNCHANGED <<tier, cache, usage, reader, queue, want, work, calls>>

\* Mutant of Close: the worker is told to stop and not joined.
CloseDetached ==
  \E step \in ClosingSteps :
    /\ pc[Main] = step[1] /\ Go(Main, step[2])
    /\ stop' = (stop \/ step[1] = "stop")
    /\ UNCHANGED <<tier, cache, usage, reader, pending, bell, want, work, calls>>

Close ==
  \E step \in ClosingSteps :
    /\ pc[Main] = step[1] /\ Go(Main, step[2])
    /\ step[1] = "join" => pc[Worker] = "gone"
    /\ stop' = (stop \/ step[1] = "stop")
    /\ UNCHANGED <<tier, cache, usage, reader, pending, bell, want, work, calls>>

TierMoves(t) ==
  /\ TierStep(t)
  /\ UNCHANGED <<cache, usage, reader, queue, pc, want, work, calls>>

Turn(t) == Load(t) \/ Loaded(t) \/ TierMoves(t)
MainTurn == Turn(Main) \/ FetchKeep \/ GotTensor \/ Ring \/ Close
WorkerTurn == Turn(Worker) \/ WorkerKeep \/ Wait \/ Wake \/ Look \/ NextExpert

Next ==
  \/ \E k \in Keys : FetchHit(k) \/ FetchMiss(k)
  \/ \E half \in {"tensor", "raw"}, n \in Names : ReadTensor(half, n)
  \/ \E p \in Predictions : PrefetchAsync(p)
  \/ Destroy
  \/ MainTurn
  \/ WorkerTurn

\* The scheduler runs a thread that can go on; nothing makes the engine ask.
Spec == Init /\ [][Next]_vars /\ WF_vars(MainTurn) /\ WF_vars(WorkerTurn)

StoreTypeOK ==
  /\ IsCache(cache, Keys)
  /\ DOMAIN usage \subseteq Keys /\ usage \in [DOMAIN usage -> 0..PinAt]
  /\ reader \in Threads \cup {Nobody}
  /\ pending \in Predictions \cup {<<>>} /\ stop \in BOOLEAN /\ bell \in BOOLEAN
  /\ pc \in [Threads -> MainPlaces \cup WorkerPlaces]
  /\ pc[Main] \in MainPlaces /\ pc[Worker] \in WorkerPlaces
  /\ want \in [Threads -> Keys \cup {Nobody}]
  /\ part \in DOMAIN Parts /\ calls \in 0..MaxCalls

TypeOK == TierTypeOK /\ StoreTypeOK

(***************************************************************************)
(* The properties.                                                         *)
(***************************************************************************)
\* The cache outgrows the plan by pinned experts only: insert_locked adds
\* to a full cache when it finds nothing to evict, and what it adds then is
\* the first to go.
CacheWithinPlan == Size(cache) > Capacity => Cardinality(Loose(cache)) <= 1

\* No half of the tier takes more memory than it was given, and raw_bytes
\* is what the raw half holds, whatever was evicted on the way.
TierWithinPlan ==
  /\ \A half \in {"expert", "tensor"} : Size(kept[half]) <= RamCapacity
  /\ bytes <= RamBytes
  /\ bytes = MapThenSumSet(LAMBDA n : Bytes[n], DOMAIN kept["raw"])

\* An expert that is hot stays: whatever the worker loads meanwhile, a
\* pinned entry is neither evicted nor replaced by a fresh one.
HotStays ==
  [][\A k \in DOMAIN cache :
       cache[k].pinned => k \in DOMAIN cache' /\ cache'[k].pinned]_vars

\* Nobody reads through the tier or the file's reader once engine_destroy
\* has freed it, and the worker is past its last look at the cache.
ReadersAlive ==
  pc[Main] \in {"free tier", "free reader", "closed"} =>
    reader = Nobody /\ mtx = Nobody /\ pc[Worker] = "gone"

\* Every call of the engine comes back and closing ends, unless a loop that
\* makes room in the tier faces pinned entries only.
EveryCallReturns ==
  (pc[Main] # "idle") ~>
    (pc[Main] \in {"idle", "closed"} \/ \E t \in Threads : Spins(t))

\* hybrid_tier.cpp says that an eviction tells its caller when there is
\* nothing left to evict, so that it stops instead of looping for ever on an
\* all-pinned cache: every call comes back. (Only the raw half is told.)
NeverLoopsForEver == (pc[Main] # "idle") ~> (pc[Main] \in {"idle", "closed"})

\* engine.h says that mtx_ protects usage_: nobody changes the counts while
\* save_usage walks them.
UsageGuarded == [][pc[Main] = "save store" => UNCHANGED usage]_vars
=============================================================================

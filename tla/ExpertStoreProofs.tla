------------------------- MODULE ExpertStoreProofs -------------------------
(***************************************************************************)
(* Proofs about ExpertStore and HybridTier, for any experts, tensors,      *)
(* capacities, thresholds and predictions.                                 *)
(***************************************************************************)
EXTENDS ExpertStore, Induction, FiniteSetTheorems, TLAPS

\* A thread holds a mutex in the step that needs it and in no other, and a
\* thread that is in the tier got there through a read.
Locks ==
  \A t \in Threads :
    /\ reader = t <=> pc[t] = "read"
    /\ mtx = t <=> stage[t] = "room"
    /\ stage[t] # "out" => pc[t] \in {"read", "tensor"}
    /\ stage[t] \in {"call", "room"} => ask[t] \in Things

Wants == \A t \in Threads : pc[t] \in {"load", "read", "loaded"} => want[t] \in Keys

\* A list of experts of the model.
IsList(s) ==
  /\ s \in Seq({k[1] : k \in Keys})
  /\ \A i \in DOMAIN s, j \in DOMAIN Parts : <<s[i], Parts[j]>> \in Keys

Lists ==
  /\ IsList(todo) /\ IsList(pending)
  /\ pc[Worker] \in {"look", "load", "read", "loaded", "next"} => todo # <<>>

Joined == pc[Main] \in {"free tier", "free reader", "closed"} => pc[Worker] = "gone"

IInv ==
  /\ TierTypeOK
  /\ StoreTypeOK
  /\ IsFiniteSet(DOMAIN cache)
  /\ CacheWithinPlan
  /\ Locks
  /\ Wants
  /\ Lists
  /\ Joined
-----------------------------------------------------------------------------
(***************************************************************************)
(* The list operators keep a cache a cache, and move nothing but places.   *)
(***************************************************************************)
SameMarks(c, d, S) == \A j \in S : d[j].pinned <=> c[j].pinned

LEMMA PushFrontKeeps ==
  ASSUME NEW S, NEW c, IsCache(c, S), NEW k \in S, NEW e \in Cell
  PROVE  /\ IsCache(PushFront(c, k, e), S)
         /\ DOMAIN PushFront(c, k, e) = DOMAIN c \cup {k}
         /\ PushFront(c, k, e)[k] = e
         /\ SameMarks(c, PushFront(c, k, e), DOMAIN c \ {k})
BY DEF IsCache, PushFront, Cell, SameMarks

LEMMA ToFrontKeeps ==
  ASSUME NEW S, NEW c, IsCache(c, S), NEW k \in DOMAIN c
  PROVE  /\ IsCache(ToFront(c, k), S)
         /\ DOMAIN ToFront(c, k) = DOMAIN c
         /\ SameMarks(c, ToFront(c, k), DOMAIN c)
BY DEF IsCache, ToFront, Cell, SameMarks

LEMMA DropKeeps ==
  ASSUME NEW S, NEW c, IsCache(c, S), NEW k \in DOMAIN c
  PROVE  /\ IsCache(Drop(c, k), S)
         /\ DOMAIN Drop(c, k) = DOMAIN c \ {k}
         /\ SameMarks(c, Drop(c, k), DOMAIN c \ {k})
BY DEF IsCache, Drop, Cell, SameMarks

LEMMA SmallSet ==
  ASSUME NEW x, NEW S, S \subseteq {x}
  PROVE  Cardinality(S) <= 1
<1>1. Cardinality({x}) = 1 /\ IsFiniteSet({x})
  BY FS_Singleton
<1>2. Cardinality(S) <= Cardinality({x})
  BY <1>1, FS_Subset
<1> QED BY <1>1, <1>2

\* A step of the store that does not touch the tier.
LEMMA TierSame ==
  ASSUME TierTypeOK, UNCHANGED tier
  PROVE  TierTypeOK'
BY DEF TierTypeOK, tier, IsCache

LEMMA PairSize ==
  ASSUME NEW v, NEW w, v # w
  PROVE  Cardinality({v, w}) = 2
<1>1. IsFiniteSet({v}) /\ Cardinality({v}) = 1
  BY FS_Singleton
<1>2. Cardinality({v} \cup {w}) = IF w \in {v} THEN Cardinality({v}) ELSE Cardinality({v}) + 1
  BY <1>1, FS_AddElement
<1>3. {v} \cup {w} = {v, w} /\ w \notin {v}
  OBVIOUS
<1> QED BY <1>1, <1>2, <1>3

\* What a fetch or the worker inserts keeps the cache finite and within the
\* plan, and leaves every pinned entry where it is.
LEMMA InsertKeeps ==
  ASSUME IInv, NEW k \in Keys, InsertLocked(k)
  PROVE  /\ IsCache(cache', Keys)
         /\ IsFiniteSet(DOMAIN cache')
         /\ CacheWithinPlan'
         /\ DOMAIN usage' \subseteq Keys /\ usage' \in [DOMAIN usage' -> 0..PinAt]
         /\ \A j \in DOMAIN cache :
              cache[j].pinned => j \in DOMAIN cache' /\ cache'[j].pinned
<1> DEFINE e == Entry(0, PinEnabled /\ Used(k) >= PinAt)
<1>a. /\ IsCache(cache, Keys) /\ IsFiniteSet(DOMAIN cache) /\ CacheWithinPlan
      /\ DOMAIN usage \subseteq Keys /\ usage \in [DOMAIN usage -> 0..PinAt]
  BY DEF IInv, StoreTypeOK
<1>b. Capacity \in Nat \ {0} /\ PinAt \in Nat \ {0} /\ PinEnabled \in BOOLEAN
  BY StoreAssumption
<1>1. CASE k \in DOMAIN cache
  BY <1>1, <1>a DEF InsertLocked, CacheWithinPlan, Size, Loose
<1>2. CASE k \notin DOMAIN cache
  <2>1. Insert(k)
    BY <1>2 DEF InsertLocked
  <2>2. e \in Cell
    BY <1>b DEF Entry, Cell
  <2>3. DOMAIN usage' \subseteq Keys /\ usage' \in [DOMAIN usage' -> 0..PinAt]
    BY <2>1, <1>a, <1>b DEF Insert, WithUse, Used
  <2>4. CASE Size(cache) >= Capacity /\ Loose(cache) # {}
    <3>1. PICK v \in Oldest(cache) : cache' = PushFront(Drop(cache, v), k, e)
      BY <2>1, <2>4 DEF Insert
    <3>2. v \in DOMAIN cache /\ ~cache[v].pinned
      BY DEF Oldest, Loose
    <3>3. /\ IsCache(Drop(cache, v), Keys)
          /\ DOMAIN Drop(cache, v) = DOMAIN cache \ {v}
          /\ SameMarks(cache, Drop(cache, v), DOMAIN cache \ {v})
      BY <1>a, <3>2, DropKeeps
    <3>4. /\ IsCache(cache', Keys)
          /\ DOMAIN cache' = (DOMAIN cache \ {v}) \cup {k}
          /\ \A j \in DOMAIN cache \ {v, k} : cache'[j].pinned <=> cache[j].pinned
      <4> HIDE DEF e
      <4> DEFINE d == PushFront(Drop(cache, v), k, e)
      <4>1. IsCache(d, Keys)
        BY <2>2, <3>3, PushFrontKeeps
      <4>2. DOMAIN d = DOMAIN Drop(cache, v) \cup {k}
        BY DEF PushFront
      <4>3. SameMarks(Drop(cache, v), d, DOMAIN Drop(cache, v) \ {k})
        BY <2>2, <3>3, PushFrontKeeps
      <4>4. cache' = d
        BY <3>1
      <4> HIDE DEF d
      <4> QED BY <1>2, <3>3, <4>1, <4>2, <4>3, <4>4 DEF SameMarks
    <3>5. IsFiniteSet(DOMAIN cache') /\ Cardinality(DOMAIN cache') = Cardinality(DOMAIN cache)
      <4>1. IsFiniteSet(DOMAIN cache \ {v})
            /\ Cardinality(DOMAIN cache \ {v}) = Cardinality(DOMAIN cache) - 1
        BY <1>a, <3>2, FS_RemoveElement
      <4>2. k \notin DOMAIN cache \ {v}
        BY <1>2
      <4>3. IsFiniteSet((DOMAIN cache \ {v}) \cup {k})
            /\ Cardinality((DOMAIN cache \ {v}) \cup {k}) = Cardinality(DOMAIN cache \ {v}) + 1
        BY <4>1, <4>2, FS_AddElement
      <4>4. Cardinality(DOMAIN cache) \in Nat
        BY <1>a, FS_CardinalityType
      <4> QED BY <3>4, <4>1, <4>3, <4>4
    <3>6. CacheWithinPlan'
      <4>1. SUFFICES ASSUME Size(cache) > Capacity
                     PROVE  Cardinality(Loose(cache')) <= 1
        BY <3>5 DEF CacheWithinPlan, Size
      <4>2. Cardinality(Loose(cache)) <= 1 /\ IsFiniteSet(Loose(cache))
        <5>1. Loose(cache) \subseteq DOMAIN cache
          BY DEF Loose
        <5> QED BY <1>a, <4>1, <5>1, FS_Subset DEF CacheWithinPlan
      <4>3. Loose(cache) = {v}
        <5>1. v \in Loose(cache)
          BY <3>2 DEF Loose
        <5>2. ASSUME NEW w \in Loose(cache), w # v PROVE FALSE
          <6>1. {v, w} \subseteq Loose(cache)
            BY <5>1, <5>2
          <6>2. Cardinality({v, w}) = 2
            BY <5>2, PairSize
          <6>3. Cardinality({v, w}) <= Cardinality(Loose(cache))
            BY <4>2, <6>1, FS_Subset
          <6>4. Cardinality(Loose(cache)) \in Nat
            BY <4>2, FS_CardinalityType
          <6> QED BY <4>2, <6>2, <6>3, <6>4
        <5> QED BY <5>1, <5>2
      <4>4. Loose(cache') \subseteq {k}
        BY <3>4, <4>3 DEF Loose
      <4> QED BY <4>4, SmallSet
    <3>7. \A j \in DOMAIN cache :
             cache[j].pinned => j \in DOMAIN cache' /\ cache'[j].pinned
      BY <1>2, <3>2, <3>4
    <3> QED BY <2>3, <3>4, <3>5, <3>6, <3>7
  <2>5. CASE ~(Size(cache) >= Capacity /\ Loose(cache) # {})
    <3>1. cache' = PushFront(cache, k, e)
      BY <2>1, <2>5 DEF Insert
    <3>2. /\ IsCache(cache', Keys)
          /\ DOMAIN cache' = DOMAIN cache \cup {k}
          /\ \A j \in DOMAIN cache : cache'[j].pinned <=> cache[j].pinned
      <4> HIDE DEF e
      <4> DEFINE d == PushFront(cache, k, e)
      <4>1. IsCache(d, Keys)
        BY <1>a, <2>2, PushFrontKeeps
      <4>2. DOMAIN d = DOMAIN cache \cup {k}
        BY DEF PushFront
      <4>3. SameMarks(cache, d, DOMAIN cache \ {k})
        BY <1>a, <2>2, PushFrontKeeps
      <4>4. cache' = d
        BY <3>1
      <4> HIDE DEF d
      <4> QED BY <1>2, <4>1, <4>2, <4>3, <4>4 DEF SameMarks
    <3>3. IsFiniteSet(DOMAIN cache') /\ Cardinality(DOMAIN cache') = Cardinality(DOMAIN cache) + 1
      BY <1>2, <1>a, <3>2, FS_AddElement
    <3>4. CacheWithinPlan'
      <4>1. CASE Size(cache) >= Capacity
        <5>1. Loose(cache') \subseteq {k}
          BY <2>5, <4>1, <3>2 DEF Loose
        <5> QED BY <5>1, SmallSet DEF CacheWithinPlan
      <4>2. CASE ~(Size(cache) >= Capacity)
        <5>1. Cardinality(DOMAIN cache) \in Nat
          BY <1>a, FS_CardinalityType
        <5> QED BY <1>b, <4>2, <3>3, <5>1 DEF CacheWithinPlan, Size
      <4> QED BY <4>1, <4>2
    <3> QED BY <2>3, <3>2, <3>3, <3>4
  <2> QED BY <2>4, <2>5
<1> QED BY <1>1, <1>2

\* A hit moves its entry to the front and may pin it.
LEMMA HitInStore ==
  ASSUME IInv, NEW k \in Keys, FetchHit(k)
  PROVE  /\ (IsCache(cache, Keys) /\ IsFiniteSet(DOMAIN cache) /\ CacheWithinPlan)'
         /\ \A j \in DOMAIN cache :
              cache[j].pinned => j \in DOMAIN cache' /\ cache'[j].pinned
<1> DEFINE n == Count(cache[k].hits)
           c == ToFront(cache, k)
<1>1. IsCache(cache, Keys) /\ k \in DOMAIN cache /\ IsFiniteSet(DOMAIN cache) /\ CacheWithinPlan
  BY DEF FetchHit, IInv, StoreTypeOK
<1>2. /\ IsCache(c, Keys)
      /\ DOMAIN c = DOMAIN cache
      /\ SameMarks(cache, c, DOMAIN cache)
  BY <1>1, ToFrontKeeps
<1>3. n \in Nat
  BY <1>1, StoreAssumption DEF Count, IsCache, Cell
<1>4. cache' = [c EXCEPT ![k].hits = n, ![k].pinned = @ \/ (PinEnabled /\ n >= PinAt)]
  BY DEF FetchHit
<1> HIDE DEF n, c
<1>5. /\ DOMAIN cache' = DOMAIN cache
      /\ \A j \in DOMAIN cache : cache[j].pinned => cache'[j].pinned
  BY <1>1, <1>2, <1>4 DEF IsCache, Cell, SameMarks
<1>6. IsCache(cache', Keys)
  <2>1. \A j \in DOMAIN cache : cache'[j] \in Cell
    BY <1>1, <1>2, <1>3, <1>4, StoreAssumption DEF IsCache, Cell
  <2>2. cache' = [j \in DOMAIN cache' |-> cache'[j]]
    BY <1>2, <1>4 DEF IsCache
  <2> QED BY <1>1, <1>5, <2>1, <2>2 DEF IsCache
<1>7. CacheWithinPlan'
  <2>1. Loose(cache') \subseteq Loose(cache)
    BY <1>5 DEF Loose
  <2>2. IsFiniteSet(Loose(cache))
    <3>1. Loose(cache) \subseteq DOMAIN cache
      BY DEF Loose
    <3> QED BY <1>1, <3>1, FS_Subset
  <2>3. /\ Cardinality(Loose(cache')) <= Cardinality(Loose(cache))
        /\ Cardinality(Loose(cache')) \in Nat /\ Cardinality(Loose(cache)) \in Nat
    BY <2>1, <2>2, FS_Subset, FS_CardinalityType
  <2> QED BY <1>1, <1>5, <2>3 DEF CacheWithinPlan, Size
<1> QED BY <1>1, <1>5, <1>6, <1>7

LEMMA InitEstablishes ==
  ASSUME Init
  PROVE  IInv
<1> USE TierAssumption, StoreAssumption DEF Init, TierInit
<1>1. TierTypeOK
  BY DEF TierTypeOK, IsCache, Halves
<1>2. StoreTypeOK
  <2>1. IsCache(cache, Keys)
    BY DEF IsCache
  <2>2. DOMAIN usage \subseteq Keys /\ usage \in [DOMAIN usage -> 0..PinAt]
    OBVIOUS
  <2>3. part \in DOMAIN Parts
    <3>1. Len(Parts) \in Nat /\ Len(Parts) # 0 /\ DOMAIN Parts = 1..Len(Parts)
      OBVIOUS
    <3> QED BY <3>1
  <2>4. /\ pc \in [Threads -> MainPlaces \cup WorkerPlaces]
        /\ pc[Main] \in MainPlaces /\ pc[Worker] \in WorkerPlaces
    BY DEF MainPlaces, WorkerPlaces, Closing
  <2>5. want \in [Threads -> Keys \cup {Nobody}] /\ calls \in 0..MaxCalls
    OBVIOUS
  <2> QED BY <2>1, <2>2, <2>3, <2>4, <2>5 DEF StoreTypeOK
<1>3. IsFiniteSet(DOMAIN cache) /\ CacheWithinPlan
  <2>1. DOMAIN cache = {}
    OBVIOUS
  <2>2. IsFiniteSet({}) /\ Cardinality({}) = 0
    BY FS_EmptySet
  <2> QED BY <2>1, <2>2 DEF CacheWithinPlan, Size
<1>4. Locks
  BY DEF Locks
<1>5. Wants /\ Joined
  BY DEF Wants, Joined
<1>6. Lists
  BY DEF Lists, IsList
<1> QED BY <1>1, <1>2, <1>3, <1>4, <1>5, <1>6 DEF IInv
-----------------------------------------------------------------------------
(***************************************************************************)
(* One lemma per action: it keeps the invariant.                           *)
(***************************************************************************)
LEMMA FetchHitKeeps ==
  ASSUME IInv, NEW k \in Keys, FetchHit(k)
  PROVE  IInv'
<1>i. (IsCache(cache, Keys) /\ IsFiniteSet(DOMAIN cache) /\ CacheWithinPlan)'
  BY HitInStore
<1> USE TierAssumption, StoreAssumption DEF IInv, FetchHit, Ask, Count, tier, queue, work, Go
<1>1. TierTypeOK'
  BY TierSame
<1>2. StoreTypeOK'
  <2>1. IsCache(cache, Keys)'
    BY <1>i
  <2>2. (DOMAIN usage \subseteq Keys /\ usage \in [DOMAIN usage -> 0..PinAt])'
    BY DEF StoreTypeOK
  <2>3. (/\ pc \in [Threads -> MainPlaces \cup WorkerPlaces]
         /\ pc[Main] \in MainPlaces /\ pc[Worker] \in WorkerPlaces)'
    BY DEF StoreTypeOK, MainPlaces, WorkerPlaces, Closing
  <2>4. (reader \in Threads \cup {Nobody} /\ want \in [Threads -> Keys \cup {Nobody}])'
    BY DEF StoreTypeOK, Wants
  <2>5. (pending \in Predictions \cup {<<>>} /\ stop \in BOOLEAN /\ bell \in BOOLEAN)'
    BY DEF StoreTypeOK
  <2>6. (part \in DOMAIN Parts /\ calls \in 0..MaxCalls)'
    BY DEF StoreTypeOK
  <2> QED BY <2>1, <2>2, <2>3, <2>4, <2>5, <2>6 DEF StoreTypeOK
<1>3. IsFiniteSet(DOMAIN cache)' /\ CacheWithinPlan'
  BY <1>i
<1>4. Locks'
  BY DEF Locks, StoreTypeOK, TierTypeOK, Things, Held, Halves
<1>5. Wants'
  BY DEF Wants, StoreTypeOK
<1>6. Lists'
  BY DEF Lists, IsList, StoreTypeOK
<1>7. Joined'
  BY DEF Joined, StoreTypeOK
<1> QED BY <1>1, <1>2, <1>3, <1>4, <1>5, <1>6, <1>7

LEMMA FetchMissKeeps ==
  ASSUME IInv, NEW k \in Keys, FetchMiss(k)
  PROVE  IInv'
<1> USE TierAssumption, StoreAssumption DEF IInv, FetchMiss, Ask, Count, WithUse, Used, tier, queue, work, Go
<1>1. TierTypeOK'
  BY TierSame
<1>2. StoreTypeOK'
  <2>1. IsCache(cache, Keys)'
    BY DEF StoreTypeOK, IsCache
  <2>2. (DOMAIN usage \subseteq Keys /\ usage \in [DOMAIN usage -> 0..PinAt])'
    BY DEF StoreTypeOK
  <2>3. (/\ pc \in [Threads -> MainPlaces \cup WorkerPlaces]
         /\ pc[Main] \in MainPlaces /\ pc[Worker] \in WorkerPlaces)'
    BY DEF StoreTypeOK, MainPlaces, WorkerPlaces, Closing
  <2>4. (reader \in Threads \cup {Nobody} /\ want \in [Threads -> Keys \cup {Nobody}])'
    BY DEF StoreTypeOK, Wants
  <2>5. (pending \in Predictions \cup {<<>>} /\ stop \in BOOLEAN /\ bell \in BOOLEAN)'
    BY DEF StoreTypeOK
  <2>6. (part \in DOMAIN Parts /\ calls \in 0..MaxCalls)'
    BY DEF StoreTypeOK
  <2> QED BY <2>1, <2>2, <2>3, <2>4, <2>5, <2>6 DEF StoreTypeOK
<1>3. IsFiniteSet(DOMAIN cache)' /\ CacheWithinPlan'
  BY DEF CacheWithinPlan, Size, Loose
<1>4. Locks'
  BY DEF Locks, StoreTypeOK, TierTypeOK, Things, Held, Halves
<1>5. Wants'
  BY DEF Wants, StoreTypeOK
<1>6. Lists'
  BY DEF Lists, IsList, StoreTypeOK
<1>7. Joined'
  BY DEF Joined, StoreTypeOK
<1> QED BY <1>1, <1>2, <1>3, <1>4, <1>5, <1>6, <1>7

LEMMA LoadKeeps ==
  ASSUME IInv, NEW t \in Threads, Load(t)
  PROVE  IInv'
<1> USE TierAssumption, StoreAssumption DEF IInv, Load, Call, tier, queue, work, Go
<1>1. TierTypeOK'
  <2>1. ask' \in [Threads -> Things \cup {Nobody}]
    BY SMTT(40) DEF TierTypeOK, StoreTypeOK, Wants, Things, Held, Halves
  <2>2. stage' \in [Threads -> {"out", "call", "room", "true", "false"}]
    BY DEF TierTypeOK
  <2>3. UNCHANGED <<mtx, bytes, kept, missed>>
    OBVIOUS
  <2> QED BY <2>1, <2>2, <2>3 DEF TierTypeOK, IsCache
<1>2. StoreTypeOK'
  <2>1. IsCache(cache, Keys)'
    BY DEF StoreTypeOK, IsCache
  <2>2. (DOMAIN usage \subseteq Keys /\ usage \in [DOMAIN usage -> 0..PinAt])'
    BY DEF StoreTypeOK
  <2>3. (/\ pc \in [Threads -> MainPlaces \cup WorkerPlaces]
         /\ pc[Main] \in MainPlaces /\ pc[Worker] \in WorkerPlaces)'
    BY DEF StoreTypeOK, MainPlaces, WorkerPlaces, Closing
  <2>4. (reader \in Threads \cup {Nobody} /\ want \in [Threads -> Keys \cup {Nobody}])'
    BY DEF StoreTypeOK, Wants
  <2>5. (pending \in Predictions \cup {<<>>} /\ stop \in BOOLEAN /\ bell \in BOOLEAN)'
    BY DEF StoreTypeOK
  <2>6. (part \in DOMAIN Parts /\ calls \in 0..MaxCalls)'
    BY DEF StoreTypeOK
  <2> QED BY <2>1, <2>2, <2>3, <2>4, <2>5, <2>6 DEF StoreTypeOK
<1>3. IsFiniteSet(DOMAIN cache)' /\ CacheWithinPlan'
  BY DEF CacheWithinPlan, Size, Loose
<1>4. Locks'
  <2>1. want[t] \in Keys
    BY DEF Wants
  <2>2. <<"expert", want[t]>> \in Things
    BY <2>1 DEF Things, Held, Halves
  <2>3. SUFFICES ASSUME NEW u \in Threads
                 PROVE  /\ reader' = u <=> pc'[u] = "read"
                        /\ mtx' = u <=> stage'[u] = "room"
                        /\ stage'[u] # "out" => pc'[u] \in {"read", "tensor"}
                        /\ stage'[u] \in {"call", "room"} => ask'[u] \in Things
    BY DEF Locks
  <2>4. /\ reader' = u <=> pc'[u] = "read"
        /\ stage'[u] # "out" => pc'[u] \in {"read", "tensor"}
    BY DEF Locks, StoreTypeOK, TierTypeOK
  <2>5. mtx' = u <=> stage'[u] = "room"
    BY DEF Locks, StoreTypeOK, TierTypeOK
  <2>6. stage'[u] \in {"call", "room"} => ask'[u] \in Things
    BY ZenonT(40), <2>2 DEF Locks, StoreTypeOK, TierTypeOK
  <2> QED BY <2>4, <2>5, <2>6
<1>5. Wants'
  BY DEF Wants, StoreTypeOK
<1>6. Lists'
  BY DEF Lists, IsList, StoreTypeOK
<1>7. Joined'
  BY DEF Joined, StoreTypeOK
<1> QED BY <1>1, <1>2, <1>3, <1>4, <1>5, <1>6, <1>7

LEMMA LoadedKeeps ==
  ASSUME IInv, NEW t \in Threads, Loaded(t)
  PROVE  IInv'
<1> USE TierAssumption, StoreAssumption DEF IInv, Loaded, Return, NextPart, tier, queue, work, Go
<1>t. t = Main \/ t = Worker
  OBVIOUS
<1>1. TierTypeOK'
  BY DEF TierTypeOK, StoreTypeOK, Things, Held, Halves, IsCache
<1>2. StoreTypeOK'
  <2>1. IsCache(cache, Keys)'
    BY DEF StoreTypeOK, IsCache
  <2>2. (DOMAIN usage \subseteq Keys /\ usage \in [DOMAIN usage -> 0..PinAt])'
    BY DEF StoreTypeOK
  <2>3. (/\ pc \in [Threads -> MainPlaces \cup WorkerPlaces]
         /\ pc[Main] \in MainPlaces /\ pc[Worker] \in WorkerPlaces)'
    <3>1. PICK x : /\ pc' = [pc EXCEPT ![t] = x]
                   /\ x \in {"loaded", IF t = Main THEN "idle" ELSE "look",
                                      IF t = Main THEN "idle" ELSE "next"}
      OBVIOUS
    <3>2. x \in IF t = Main THEN {"loaded", "idle"} ELSE {"loaded", "look", "next"}
      BY <3>1
    <3>3. CASE t = Main
      BY <3>1, <3>2, <3>3 DEF StoreTypeOK, MainPlaces, WorkerPlaces, Closing
    <3>4. CASE t = Worker
      BY <3>1, <3>2, <3>4 DEF StoreTypeOK, MainPlaces, WorkerPlaces, Closing
    <3> QED BY <1>t, <3>3, <3>4
  <2>4. (reader \in Threads \cup {Nobody} /\ want \in [Threads -> Keys \cup {Nobody}])'
    BY DEF StoreTypeOK, Wants
  <2>5. (pending \in Predictions \cup {<<>>} /\ stop \in BOOLEAN /\ bell \in BOOLEAN)'
    BY DEF StoreTypeOK
  <2>6. (part \in DOMAIN Parts /\ calls \in 0..MaxCalls)'
    BY DEF StoreTypeOK
  <2> QED BY <2>1, <2>2, <2>3, <2>4, <2>5, <2>6 DEF StoreTypeOK
<1>3. IsFiniteSet(DOMAIN cache)' /\ CacheWithinPlan'
  BY DEF CacheWithinPlan, Size, Loose
<1>4. Locks'
  <2>1. UNCHANGED mtx
    OBVIOUS
  <2>2. CASE t = Main
    BY <2>1, <2>2 DEF Locks, StoreTypeOK, TierTypeOK
  <2>3. CASE t = Worker
    BY <2>1, <2>3 DEF Locks, StoreTypeOK, TierTypeOK
  <2> QED BY <1>t, <2>2, <2>3
<1>5. Wants'
  BY DEF Wants, StoreTypeOK
<1>6. Lists'
  BY DEF Lists, IsList, StoreTypeOK
<1>7. Joined'
  BY DEF Joined, StoreTypeOK
<1> QED BY <1>1, <1>2, <1>3, <1>4, <1>5, <1>6, <1>7

LEMMA FetchKeepKeeps ==
  ASSUME IInv, FetchKeep
  PROVE  IInv'
<1>i. (/\ IsCache(cache, Keys) /\ IsFiniteSet(DOMAIN cache) /\ CacheWithinPlan
       /\ DOMAIN usage \subseteq Keys /\ usage \in [DOMAIN usage -> 0..PinAt])'
  <2>1. InsertLocked(want[Main]) /\ want[Main] \in Keys
    BY StoreAssumption DEF FetchKeep, IInv, Wants
  <2> QED BY <2>1, InsertKeeps
<1> USE TierAssumption, StoreAssumption DEF IInv, FetchKeep, tier, queue, work, Go
<1>1. TierTypeOK'
  BY TierSame
<1>2. StoreTypeOK'
  <2>1. IsCache(cache, Keys)'
    BY <1>i
  <2>2. (DOMAIN usage \subseteq Keys /\ usage \in [DOMAIN usage -> 0..PinAt])'
    BY <1>i
  <2>3. (/\ pc \in [Threads -> MainPlaces \cup WorkerPlaces]
         /\ pc[Main] \in MainPlaces /\ pc[Worker] \in WorkerPlaces)'
    BY DEF StoreTypeOK, MainPlaces, WorkerPlaces, Closing
  <2>4. (reader \in Threads \cup {Nobody} /\ want \in [Threads -> Keys \cup {Nobody}])'
    BY DEF StoreTypeOK, Wants
  <2>5. (pending \in Predictions \cup {<<>>} /\ stop \in BOOLEAN /\ bell \in BOOLEAN)'
    BY DEF StoreTypeOK
  <2>6. (part \in DOMAIN Parts /\ calls \in 0..MaxCalls)'
    BY DEF StoreTypeOK
  <2> QED BY <2>1, <2>2, <2>3, <2>4, <2>5, <2>6 DEF StoreTypeOK
<1>3. IsFiniteSet(DOMAIN cache)' /\ CacheWithinPlan'
  BY <1>i
<1>4. Locks'
  BY DEF Locks, StoreTypeOK, TierTypeOK, Things, Held, Halves
<1>5. Wants'
  BY DEF Wants, StoreTypeOK
<1>6. Lists'
  BY DEF Lists, IsList, StoreTypeOK
<1>7. Joined'
  BY DEF Joined, StoreTypeOK
<1> QED BY <1>1, <1>2, <1>3, <1>4, <1>5, <1>6, <1>7

LEMMA WorkerKeepKeeps ==
  ASSUME IInv, WorkerKeep
  PROVE  IInv'
<1>i. (/\ IsCache(cache, Keys) /\ IsFiniteSet(DOMAIN cache) /\ CacheWithinPlan
       /\ DOMAIN usage \subseteq Keys /\ usage \in [DOMAIN usage -> 0..PinAt])'
  <2>1. InsertLocked(want[Worker]) /\ want[Worker] \in Keys
    BY StoreAssumption DEF WorkerKeep, IInv, Wants
  <2> QED BY <2>1, InsertKeeps
<1> USE TierAssumption, StoreAssumption DEF IInv, WorkerKeep, NextPart, tier, queue, work, Go
<1>1. TierTypeOK'
  BY TierSame
<1>2. StoreTypeOK'
  <2>1. IsCache(cache, Keys)'
    BY <1>i
  <2>2. (DOMAIN usage \subseteq Keys /\ usage \in [DOMAIN usage -> 0..PinAt])'
    BY <1>i
  <2>3. (/\ pc \in [Threads -> MainPlaces \cup WorkerPlaces]
         /\ pc[Main] \in MainPlaces /\ pc[Worker] \in WorkerPlaces)'
    BY ZenonT(40) DEF StoreTypeOK, MainPlaces, WorkerPlaces, Closing
  <2>4. (reader \in Threads \cup {Nobody} /\ want \in [Threads -> Keys \cup {Nobody}])'
    BY DEF StoreTypeOK, Wants
  <2>5. (pending \in Predictions \cup {<<>>} /\ stop \in BOOLEAN /\ bell \in BOOLEAN)'
    BY DEF StoreTypeOK
  <2>6. (part \in DOMAIN Parts /\ calls \in 0..MaxCalls)'
    BY DEF StoreTypeOK
  <2> QED BY <2>1, <2>2, <2>3, <2>4, <2>5, <2>6 DEF StoreTypeOK
<1>3. IsFiniteSet(DOMAIN cache)' /\ CacheWithinPlan'
  BY <1>i
<1>4. Locks'
  BY SMTT(40) DEF Locks, StoreTypeOK, TierTypeOK, Things, Held, Halves
<1>5. Wants'
  BY DEF Wants, StoreTypeOK
<1>6. Lists'
  BY DEF Lists, IsList, StoreTypeOK
<1>7. Joined'
  BY DEF Joined, StoreTypeOK
<1> QED BY <1>1, <1>2, <1>3, <1>4, <1>5, <1>6, <1>7

LEMMA ReadTensorKeeps ==
  ASSUME IInv, NEW half \in {"tensor", "raw"}, NEW n \in Names, ReadTensor(half, n)
  PROVE  IInv'
<1> USE TierAssumption, StoreAssumption DEF IInv, ReadTensor, Ask, Call, tier, queue, work, Go
<1>1. TierTypeOK'
  <2>1. ask' \in [Threads -> Things \cup {Nobody}]
    <3>1. <<half, n>> \in Things
      BY DEF Things, Held, Halves
    <3>2. Main \in Threads /\ ask \in [Threads -> Things \cup {Nobody}]
      BY DEF TierTypeOK
    <3>3. ask' = [ask EXCEPT ![Main] = <<half, n>>]
      OBVIOUS
    <3> QED BY <3>1, <3>2, <3>3
  <2>2. stage' \in [Threads -> {"out", "call", "room", "true", "false"}]
    BY DEF TierTypeOK
  <2>3. UNCHANGED <<mtx, bytes, kept, missed>>
    OBVIOUS
  <2> QED BY <2>1, <2>2, <2>3 DEF TierTypeOK, IsCache
<1>2. StoreTypeOK'
  <2>1. IsCache(cache, Keys)'
    BY DEF StoreTypeOK, IsCache
  <2>2. (DOMAIN usage \subseteq Keys /\ usage \in [DOMAIN usage -> 0..PinAt])'
    BY DEF StoreTypeOK
  <2>3. (/\ pc \in [Threads -> MainPlaces \cup WorkerPlaces]
         /\ pc[Main] \in MainPlaces /\ pc[Worker] \in WorkerPlaces)'
    BY DEF StoreTypeOK, MainPlaces, WorkerPlaces, Closing
  <2>4. (reader \in Threads \cup {Nobody} /\ want \in [Threads -> Keys \cup {Nobody}])'
    BY DEF StoreTypeOK, Wants
  <2>5. (pending \in Predictions \cup {<<>>} /\ stop \in BOOLEAN /\ bell \in BOOLEAN)'
    BY DEF StoreTypeOK
  <2>6. (part \in DOMAIN Parts /\ calls \in 0..MaxCalls)'
    BY DEF StoreTypeOK
  <2> QED BY <2>1, <2>2, <2>3, <2>4, <2>5, <2>6 DEF StoreTypeOK
<1>3. IsFiniteSet(DOMAIN cache)' /\ CacheWithinPlan'
  BY DEF CacheWithinPlan, Size, Loose
<1>4. Locks'
  <2>1. <<half, n>> \in Things
    BY DEF Things, Held, Halves
  <2> QED BY <2>1 DEF Locks, StoreTypeOK, TierTypeOK
<1>5. Wants'
  BY DEF Wants, StoreTypeOK
<1>6. Lists'
  BY DEF Lists, IsList, StoreTypeOK
<1>7. Joined'
  BY DEF Joined, StoreTypeOK
<1> QED BY <1>1, <1>2, <1>3, <1>4, <1>5, <1>6, <1>7

LEMMA GotTensorKeeps ==
  ASSUME IInv, GotTensor
  PROVE  IInv'
<1> USE TierAssumption, StoreAssumption DEF IInv, GotTensor, Return, tier, queue, work, Go
<1>1. TierTypeOK'
  BY DEF TierTypeOK, StoreTypeOK, Things, Held, Halves, IsCache
<1>2. StoreTypeOK'
  <2>1. IsCache(cache, Keys)'
    BY DEF StoreTypeOK, IsCache
  <2>2. (DOMAIN usage \subseteq Keys /\ usage \in [DOMAIN usage -> 0..PinAt])'
    BY DEF StoreTypeOK
  <2>3. (/\ pc \in [Threads -> MainPlaces \cup WorkerPlaces]
         /\ pc[Main] \in MainPlaces /\ pc[Worker] \in WorkerPlaces)'
    BY DEF StoreTypeOK, MainPlaces, WorkerPlaces, Closing
  <2>4. (reader \in Threads \cup {Nobody} /\ want \in [Threads -> Keys \cup {Nobody}])'
    BY DEF StoreTypeOK, Wants
  <2>5. (pending \in Predictions \cup {<<>>} /\ stop \in BOOLEAN /\ bell \in BOOLEAN)'
    BY DEF StoreTypeOK
  <2>6. (part \in DOMAIN Parts /\ calls \in 0..MaxCalls)'
    BY DEF StoreTypeOK
  <2> QED BY <2>1, <2>2, <2>3, <2>4, <2>5, <2>6 DEF StoreTypeOK
<1>3. IsFiniteSet(DOMAIN cache)' /\ CacheWithinPlan'
  BY DEF CacheWithinPlan, Size, Loose
<1>4. Locks'
  BY DEF Locks, StoreTypeOK, TierTypeOK, Things, Held, Halves
<1>5. Wants'
  BY DEF Wants, StoreTypeOK
<1>6. Lists'
  BY DEF Lists, IsList, StoreTypeOK
<1>7. Joined'
  BY DEF Joined, StoreTypeOK
<1> QED BY <1>1, <1>2, <1>3, <1>4, <1>5, <1>6, <1>7

LEMMA PrefetchAsyncKeeps ==
  ASSUME IInv, NEW p \in Predictions, PrefetchAsync(p)
  PROVE  IInv'
<1> USE TierAssumption, StoreAssumption DEF IInv, PrefetchAsync, Ask, tier, queue, work, Go
<1>1. TierTypeOK'
  BY TierSame
<1>2. StoreTypeOK'
  <2>1. IsCache(cache, Keys)'
    BY DEF StoreTypeOK, IsCache
  <2>2. (DOMAIN usage \subseteq Keys /\ usage \in [DOMAIN usage -> 0..PinAt])'
    BY DEF StoreTypeOK
  <2>3. (/\ pc \in [Threads -> MainPlaces \cup WorkerPlaces]
         /\ pc[Main] \in MainPlaces /\ pc[Worker] \in WorkerPlaces)'
    BY DEF StoreTypeOK, MainPlaces, WorkerPlaces, Closing
  <2>4. (reader \in Threads \cup {Nobody} /\ want \in [Threads -> Keys \cup {Nobody}])'
    BY DEF StoreTypeOK, Wants
  <2>5. (pending \in Predictions \cup {<<>>} /\ stop \in BOOLEAN /\ bell \in BOOLEAN)'
    BY DEF StoreTypeOK
  <2>6. (part \in DOMAIN Parts /\ calls \in 0..MaxCalls)'
    BY DEF StoreTypeOK
  <2> QED BY <2>1, <2>2, <2>3, <2>4, <2>5, <2>6 DEF StoreTypeOK
<1>3. IsFiniteSet(DOMAIN cache)' /\ CacheWithinPlan'
  BY DEF CacheWithinPlan, Size, Loose
<1>4. Locks'
  BY DEF Locks, StoreTypeOK, TierTypeOK, Things, Held, Halves
<1>5. Wants'
  BY DEF Wants, StoreTypeOK
<1>6. Lists'
  BY DEF Lists, IsList, StoreTypeOK
<1>7. Joined'
  BY DEF Joined, StoreTypeOK
<1> QED BY <1>1, <1>2, <1>3, <1>4, <1>5, <1>6, <1>7

LEMMA RingKeeps ==
  ASSUME IInv, Ring
  PROVE  IInv'
<1> USE TierAssumption, StoreAssumption DEF IInv, Ring, tier, queue, work, Go
<1>1. TierTypeOK'
  BY TierSame
<1>2. StoreTypeOK'
  <2>1. IsCache(cache, Keys)'
    BY DEF StoreTypeOK, IsCache
  <2>2. (DOMAIN usage \subseteq Keys /\ usage \in [DOMAIN usage -> 0..PinAt])'
    BY DEF StoreTypeOK
  <2>3. (/\ pc \in [Threads -> MainPlaces \cup WorkerPlaces]
         /\ pc[Main] \in MainPlaces /\ pc[Worker] \in WorkerPlaces)'
    BY DEF StoreTypeOK, MainPlaces, WorkerPlaces, Closing
  <2>4. (reader \in Threads \cup {Nobody} /\ want \in [Threads -> Keys \cup {Nobody}])'
    BY DEF StoreTypeOK, Wants
  <2>5. (pending \in Predictions \cup {<<>>} /\ stop \in BOOLEAN /\ bell \in BOOLEAN)'
    BY DEF StoreTypeOK
  <2>6. (part \in DOMAIN Parts /\ calls \in 0..MaxCalls)'
    BY DEF StoreTypeOK
  <2> QED BY <2>1, <2>2, <2>3, <2>4, <2>5, <2>6 DEF StoreTypeOK
<1>3. IsFiniteSet(DOMAIN cache)' /\ CacheWithinPlan'
  BY DEF CacheWithinPlan, Size, Loose
<1>4. Locks'
  BY DEF Locks, StoreTypeOK, TierTypeOK, Things, Held, Halves
<1>5. Wants'
  BY DEF Wants, StoreTypeOK
<1>6. Lists'
  BY DEF Lists, IsList, StoreTypeOK
<1>7. Joined'
  BY DEF Joined, StoreTypeOK
<1> QED BY <1>1, <1>2, <1>3, <1>4, <1>5, <1>6, <1>7

LEMMA WaitKeeps ==
  ASSUME IInv, Wait
  PROVE  IInv'
<1> USE TierAssumption, StoreAssumption DEF IInv, Wait, tier, queue, work, Go
<1>1. TierTypeOK'
  BY TierSame
<1>2. StoreTypeOK'
  <2>1. IsCache(cache, Keys)'
    BY DEF StoreTypeOK, IsCache
  <2>2. (DOMAIN usage \subseteq Keys /\ usage \in [DOMAIN usage -> 0..PinAt])'
    BY DEF StoreTypeOK
  <2>3. (/\ pc \in [Threads -> MainPlaces \cup WorkerPlaces]
         /\ pc[Main] \in MainPlaces /\ pc[Worker] \in WorkerPlaces)'
    BY ZenonT(40) DEF StoreTypeOK, MainPlaces, WorkerPlaces, Closing
  <2>4. (reader \in Threads \cup {Nobody} /\ want \in [Threads -> Keys \cup {Nobody}])'
    BY DEF StoreTypeOK, Wants
  <2>5. (pending \in Predictions \cup {<<>>} /\ stop \in BOOLEAN /\ bell \in BOOLEAN)'
    BY DEF StoreTypeOK
  <2>6. (part \in DOMAIN Parts /\ calls \in 0..MaxCalls)'
    BY DEF StoreTypeOK
  <2> QED BY <2>1, <2>2, <2>3, <2>4, <2>5, <2>6 DEF StoreTypeOK
<1>3. IsFiniteSet(DOMAIN cache)' /\ CacheWithinPlan'
  BY DEF CacheWithinPlan, Size, Loose
<1>4. Locks'
  BY SMTT(40) DEF Locks, StoreTypeOK, TierTypeOK, Things, Held, Halves
<1>5. Wants'
  BY DEF Wants, StoreTypeOK
<1>6. Lists'
  <2>1. IsList(<<>>)
    BY DEF IsList
  <2>2. IsList(todo)' /\ IsList(pending)'
    BY <2>1 DEF Lists, IsList
  <2> QED BY <2>2 DEF Lists, StoreTypeOK
<1>7. Joined'
  BY DEF Joined, StoreTypeOK
<1> QED BY <1>1, <1>2, <1>3, <1>4, <1>5, <1>6, <1>7

LEMMA WakeKeeps ==
  ASSUME IInv, Wake
  PROVE  IInv'
<1> USE TierAssumption, StoreAssumption DEF IInv, Wake, tier, queue, work, Go
<1>1. TierTypeOK'
  BY TierSame
<1>2. StoreTypeOK'
  <2>1. IsCache(cache, Keys)'
    BY DEF StoreTypeOK, IsCache
  <2>2. (DOMAIN usage \subseteq Keys /\ usage \in [DOMAIN usage -> 0..PinAt])'
    BY DEF StoreTypeOK
  <2>3. (/\ pc \in [Threads -> MainPlaces \cup WorkerPlaces]
         /\ pc[Main] \in MainPlaces /\ pc[Worker] \in WorkerPlaces)'
    BY DEF StoreTypeOK, MainPlaces, WorkerPlaces, Closing
  <2>4. (reader \in Threads \cup {Nobody} /\ want \in [Threads -> Keys \cup {Nobody}])'
    BY DEF StoreTypeOK, Wants
  <2>5. (pending \in Predictions \cup {<<>>} /\ stop \in BOOLEAN /\ bell \in BOOLEAN)'
    BY DEF StoreTypeOK
  <2>6. (part \in DOMAIN Parts /\ calls \in 0..MaxCalls)'
    BY DEF StoreTypeOK
  <2> QED BY <2>1, <2>2, <2>3, <2>4, <2>5, <2>6 DEF StoreTypeOK
<1>3. IsFiniteSet(DOMAIN cache)' /\ CacheWithinPlan'
  BY DEF CacheWithinPlan, Size, Loose
<1>4. Locks'
  BY DEF Locks, StoreTypeOK, TierTypeOK, Things, Held, Halves
<1>5. Wants'
  BY DEF Wants, StoreTypeOK
<1>6. Lists'
  BY DEF Lists, IsList, StoreTypeOK
<1>7. Joined'
  BY DEF Joined, StoreTypeOK
<1> QED BY <1>1, <1>2, <1>3, <1>4, <1>5, <1>6, <1>7

LEMMA LookKeeps ==
  ASSUME IInv, Look
  PROVE  IInv'
<1> USE TierAssumption, StoreAssumption DEF IInv, Look, NextPart, tier, queue, work, Go
<1>k. pc[Worker] = "look" => <<Head(todo), Parts[part]>> \in Keys
  <2>1. SUFFICES ASSUME pc[Worker] = "look"
                 PROVE  <<Head(todo), Parts[part]>> \in Keys
    OBVIOUS
  <2>2. todo # <<>> /\ todo \in Seq({x[1] : x \in Keys})
    BY <2>1 DEF Lists, IsList
  <2>3. Head(todo) = todo[1] /\ 1 \in DOMAIN todo
    BY <2>2
  <2>4. part \in DOMAIN Parts
    BY DEF StoreTypeOK
  <2> QED BY <2>3, <2>4 DEF Lists, IsList
<1>1. TierTypeOK'
  BY TierSame
<1>2. StoreTypeOK'
  <2>1. IsCache(cache, Keys)'
    BY DEF StoreTypeOK, IsCache
  <2>2. (DOMAIN usage \subseteq Keys /\ usage \in [DOMAIN usage -> 0..PinAt])'
    BY DEF StoreTypeOK
  <2>3. (/\ pc \in [Threads -> MainPlaces \cup WorkerPlaces]
         /\ pc[Main] \in MainPlaces /\ pc[Worker] \in WorkerPlaces)'
    BY ZenonT(40) DEF StoreTypeOK, MainPlaces, WorkerPlaces, Closing
  <2>4. (reader \in Threads \cup {Nobody} /\ want \in [Threads -> Keys \cup {Nobody}])'
    <3>1. UNCHANGED reader
      OBVIOUS
    <3>2. UNCHANGED want \/ want' = [want EXCEPT ![Worker] = <<Head(todo), Parts[part]>>]
      OBVIOUS
    <3>3. pc[Worker] = "look"
      OBVIOUS
    <3>4. want \in [Threads -> Keys \cup {Nobody}] /\ Worker \in Threads
      BY DEF StoreTypeOK
    <3>5. want' \in [Threads -> Keys \cup {Nobody}]
      <4>1. CASE UNCHANGED want
        BY <3>4, <4>1
      <4>2. CASE want' = [want EXCEPT ![Worker] = <<Head(todo), Parts[part]>>]
        <5> DEFINE k == <<Head(todo), Parts[part]>>
        <5>1. k \in Keys
          BY <1>k, <3>3
        <5>2. want' = [want EXCEPT ![Worker] = k]
          BY <4>2
        <5> HIDE DEF k
        <5> QED BY <3>4, <5>1, <5>2
      <4> QED BY <3>2, <4>1, <4>2
    <3> QED BY <3>1, <3>5 DEF StoreTypeOK
  <2>5. (pending \in Predictions \cup {<<>>} /\ stop \in BOOLEAN /\ bell \in BOOLEAN)'
    BY DEF StoreTypeOK
  <2>6. (part \in DOMAIN Parts /\ calls \in 0..MaxCalls)'
    BY DEF StoreTypeOK
  <2> QED BY <2>1, <2>2, <2>3, <2>4, <2>5, <2>6 DEF StoreTypeOK
<1>3. IsFiniteSet(DOMAIN cache)' /\ CacheWithinPlan'
  BY DEF CacheWithinPlan, Size, Loose
<1>4. Locks'
  BY SMTT(40) DEF Locks, StoreTypeOK, TierTypeOK, Things, Held, Halves
<1>5. Wants'
  BY ZenonT(40), <1>k DEF Wants, StoreTypeOK
<1>6. Lists'
  BY DEF Lists, IsList, StoreTypeOK
<1>7. Joined'
  BY DEF Joined, StoreTypeOK
<1> QED BY <1>1, <1>2, <1>3, <1>4, <1>5, <1>6, <1>7

LEMMA NextExpertKeeps ==
  ASSUME IInv, NextExpert
  PROVE  IInv'
<1> USE TierAssumption, StoreAssumption DEF IInv, NextExpert, tier, queue, work, Go
<1>1. TierTypeOK'
  BY TierSame
<1>2. StoreTypeOK'
  <2>1. IsCache(cache, Keys)'
    BY DEF StoreTypeOK, IsCache
  <2>2. (DOMAIN usage \subseteq Keys /\ usage \in [DOMAIN usage -> 0..PinAt])'
    BY DEF StoreTypeOK
  <2>3. (/\ pc \in [Threads -> MainPlaces \cup WorkerPlaces]
         /\ pc[Main] \in MainPlaces /\ pc[Worker] \in WorkerPlaces)'
    BY ZenonT(40) DEF StoreTypeOK, MainPlaces, WorkerPlaces, Closing
  <2>4. (reader \in Threads \cup {Nobody} /\ want \in [Threads -> Keys \cup {Nobody}])'
    BY DEF StoreTypeOK, Wants
  <2>5. (pending \in Predictions \cup {<<>>} /\ stop \in BOOLEAN /\ bell \in BOOLEAN)'
    BY DEF StoreTypeOK
  <2>6. (part \in DOMAIN Parts /\ calls \in 0..MaxCalls)'
    BY DEF StoreTypeOK
  <2> QED BY <2>1, <2>2, <2>3, <2>4, <2>5, <2>6 DEF StoreTypeOK
<1>3. IsFiniteSet(DOMAIN cache)' /\ CacheWithinPlan'
  BY DEF CacheWithinPlan, Size, Loose
<1>4. Locks'
  BY SMTT(40) DEF Locks, StoreTypeOK, TierTypeOK, Things, Held, Halves
<1>5. Wants'
  BY DEF Wants, StoreTypeOK
<1>6. Lists'
  <2>1. todo # <<>> /\ todo \in Seq({k[1] : k \in Keys})
    BY DEF Lists, IsList
  <2>2. CASE pending # <<>> \/ Len(todo) = 1
    <3>1. IsList(todo)'
      <4>1. todo' = <<>>
        BY <2>2
      <4> QED BY <4>1 DEF IsList
    <3> QED BY <2>2, <3>1 DEF Lists, IsList, StoreTypeOK
  <2>3. CASE ~(pending # <<>> \/ Len(todo) = 1)
    <3>1. /\ Tail(todo) \in Seq({k[1] : k \in Keys}) /\ Tail(todo) # <<>>
          /\ \A i \in DOMAIN Tail(todo) : i + 1 \in DOMAIN todo /\ Tail(todo)[i] = todo[i + 1]
      <4>1. Len(todo) \in Nat /\ Len(todo) # 0 /\ Len(todo) # 1 /\ DOMAIN todo = 1..Len(todo)
        BY <2>1, <2>3
      <4>2. /\ Tail(todo) \in Seq({k[1] : k \in Keys})
            /\ Len(Tail(todo)) = Len(todo) - 1
            /\ \A i \in 1..Len(todo) - 1 : Tail(todo)[i] = todo[i + 1]
        BY <2>1, <4>1
      <4>3. Tail(todo) # <<>> /\ DOMAIN Tail(todo) = 1..Len(todo) - 1
        <5> DEFINE t == Tail(todo)
        <5>1. t \in Seq({k[1] : k \in Keys}) /\ Len(t) = Len(todo) - 1
          BY <4>2
        <5>2. Len(t) # 0 /\ DOMAIN t = 1..Len(t)
          <6> HIDE DEF t
          <6> QED BY <4>1, <5>1
        <5>3. t # <<>>
          <6> HIDE DEF t
          <6> QED BY <5>2
        <5> QED BY <5>1, <5>2, <5>3
      <4> QED BY <4>1, <4>2, <4>3
    <3>2. IsList(Tail(todo))
      BY <3>1 DEF Lists, IsList
    <3>3. todo' = Tail(todo) /\ UNCHANGED pending
      BY <2>3
    <3> QED BY <3>1, <3>2, <3>3 DEF Lists, IsList
  <2> QED BY <2>2, <2>3
<1>7. Joined'
  BY DEF Joined, StoreTypeOK
<1> QED BY <1>1, <1>2, <1>3, <1>4, <1>5, <1>6, <1>7

LEMMA DestroyKeeps ==
  ASSUME IInv, Destroy
  PROVE  IInv'
<1> USE TierAssumption, StoreAssumption DEF IInv, Destroy, tier, queue, work, Go
<1>1. TierTypeOK'
  BY TierSame
<1>2. StoreTypeOK'
  <2>1. IsCache(cache, Keys)'
    BY DEF StoreTypeOK, IsCache
  <2>2. (DOMAIN usage \subseteq Keys /\ usage \in [DOMAIN usage -> 0..PinAt])'
    BY DEF StoreTypeOK
  <2>3. (/\ pc \in [Threads -> MainPlaces \cup WorkerPlaces]
         /\ pc[Main] \in MainPlaces /\ pc[Worker] \in WorkerPlaces)'
    BY DEF StoreTypeOK, MainPlaces, WorkerPlaces, Closing
  <2>4. (reader \in Threads \cup {Nobody} /\ want \in [Threads -> Keys \cup {Nobody}])'
    BY DEF StoreTypeOK, Wants
  <2>5. (pending \in Predictions \cup {<<>>} /\ stop \in BOOLEAN /\ bell \in BOOLEAN)'
    BY DEF StoreTypeOK
  <2>6. (part \in DOMAIN Parts /\ calls \in 0..MaxCalls)'
    BY DEF StoreTypeOK
  <2> QED BY <2>1, <2>2, <2>3, <2>4, <2>5, <2>6 DEF StoreTypeOK
<1>3. IsFiniteSet(DOMAIN cache)' /\ CacheWithinPlan'
  BY DEF CacheWithinPlan, Size, Loose
<1>4. Locks'
  BY DEF Locks, StoreTypeOK, TierTypeOK, Things, Held, Halves
<1>5. Wants'
  BY DEF Wants, StoreTypeOK
<1>6. Lists'
  BY DEF Lists, IsList, StoreTypeOK
<1>7. Joined'
  BY DEF Joined, StoreTypeOK
<1> QED BY <1>1, <1>2, <1>3, <1>4, <1>5, <1>6, <1>7

LEMMA CloseKeeps ==
  ASSUME IInv, Close
  PROVE  IInv'
<1>s. PICK step \in ClosingSteps :
        /\ pc[Main] = step[1] /\ Go(Main, step[2])
        /\ step[1] = "join" => pc[Worker] = "gone"
        /\ stop' = (stop \/ step[1] = "stop")
        /\ UNCHANGED <<tier, cache, usage, reader, pending, bell, want, work, calls>>
  BY DEF Close
<1>p. /\ pc[Main] \in Closing \ {"last ring"}
      /\ step[2] \in Closing \cup {"closed"} /\ step[2] # "save store"
      /\ step[2] \in {"free tier", "free reader", "closed"} =>
           step[1] \in {"join", "free tier", "free reader"}
  <2>1. \/ step[1] = "save store" /\ step[2] = "save tier"
        \/ step[1] = "save tier" /\ step[2] = "stop"
        \/ step[1] = "stop" /\ step[2] = "last ring"
        \/ step[1] = "join" /\ step[2] = "free tier"
        \/ step[1] = "free tier" /\ step[2] = "free reader"
        \/ step[1] = "free reader" /\ step[2] = "closed"
    <3>1. \/ step = <<"save store", "save tier">>
          \/ step = <<"save tier", "stop">>
          \/ step = <<"stop", "last ring">>
          \/ step = <<"join", "free tier">>
          \/ step = <<"free tier", "free reader">>
          \/ step = <<"free reader", "closed">>
      BY Zenon DEF ClosingSteps
    <3>2. CASE step = <<"save store", "save tier">>
      BY <3>2
    <3>3. CASE step = <<"save tier", "stop">>
      BY <3>3
    <3>4. CASE step = <<"stop", "last ring">>
      BY <3>4
    <3>5. CASE step = <<"join", "free tier">>
      BY <3>5
    <3>6. CASE step = <<"free tier", "free reader">>
      BY <3>6
    <3>7. CASE step = <<"free reader", "closed">>
      BY <3>7
    <3> QED BY <3>1, <3>2, <3>3, <3>4, <3>5, <3>6, <3>7
  <2> QED BY <1>s, <2>1 DEF Closing
<1>q. pc' = [pc EXCEPT ![Main] = step[2]]
  BY <1>s DEF Go
<1>u. UNCHANGED <<mtx, bytes, kept, missed, ask, stage, cache, usage, reader, pending, bell,
                  want, todo, part, calls>>
  BY <1>s DEF tier, work
<1> USE TierAssumption, StoreAssumption, <1>p, <1>q, <1>u DEF IInv
<1>1. TierTypeOK'
  BY DEF TierTypeOK, IsCache
<1>2. StoreTypeOK'
  <2>1. IsCache(cache, Keys)'
    BY DEF StoreTypeOK, IsCache
  <2>2. (DOMAIN usage \subseteq Keys /\ usage \in [DOMAIN usage -> 0..PinAt])'
    BY DEF StoreTypeOK
  <2>3. (/\ pc \in [Threads -> MainPlaces \cup WorkerPlaces]
         /\ pc[Main] \in MainPlaces /\ pc[Worker] \in WorkerPlaces)'
    BY DEF StoreTypeOK, MainPlaces, WorkerPlaces, Closing
  <2>4. (reader \in Threads \cup {Nobody} /\ want \in [Threads -> Keys \cup {Nobody}])'
    BY DEF StoreTypeOK, Wants
  <2>5. (pending \in Predictions \cup {<<>>} /\ stop \in BOOLEAN /\ bell \in BOOLEAN)'
    BY <1>s DEF StoreTypeOK
  <2>6. (part \in DOMAIN Parts /\ calls \in 0..MaxCalls)'
    BY DEF StoreTypeOK
  <2> QED BY <2>1, <2>2, <2>3, <2>4, <2>5, <2>6 DEF StoreTypeOK
<1>3. IsFiniteSet(DOMAIN cache)' /\ CacheWithinPlan'
  BY DEF CacheWithinPlan, Size, Loose
<1>4. Locks'
  BY DEF Locks, StoreTypeOK, Closing
<1>5. Wants'
  BY DEF Wants, StoreTypeOK, Closing
<1>6. Lists'
  BY DEF Lists, IsList, StoreTypeOK
<1>7. Joined'
  BY <1>s DEF Joined, StoreTypeOK, Closing
<1> QED BY <1>1, <1>2, <1>3, <1>4, <1>5, <1>6, <1>7

LEMMA HitKeeps ==
  ASSUME IInv, NEW t \in Threads, Hit(t),
         UNCHANGED <<cache, usage, reader, queue, pc, want, work, calls>>
  PROVE  IInv'
<1> USE TierAssumption, StoreAssumption DEF IInv, Hit, Answer, Half, Key, queue, work
<1>1. TierTypeOK'
  <2> DEFINE h == ask[t][1]
             k == ask[t][2]
  <2>1. h \in Halves /\ k \in Held(h)
    BY DEF Locks, Things
  <2>2. IsCache(kept[h], Held(h)) /\ kept = [x \in Halves |-> kept[x]]
    BY <2>1 DEF TierTypeOK
  <2>3. IsCache(kept'[h], Held(h)) /\ kept' = [kept EXCEPT ![h] = kept'[h]]
    <3>1. kept' = [kept EXCEPT ![h] = ToFront(kept[h], k)]
      BY <2>1, <2>2
    <3>2. IsCache(ToFront(kept[h], k), Held(h))
      BY <2>1, <2>2, ToFrontKeeps
    <3> HIDE DEF h, k
    <3> QED BY <2>1, <2>2, <3>1, <3>2
  <2>4. /\ kept' = [x \in Halves |-> kept'[x]]
        /\ \A x \in Halves : IsCache(kept'[x], Held(x))
    <3> HIDE DEF h, k
    <3>1. \A x \in Halves : IsCache(kept[x], Held(x))
      BY DEF TierTypeOK
    <3>2. \A x \in Halves : x # h => kept'[x] = kept[x]
      BY <2>1, <2>2, <2>3
    <3>3. kept' = [x \in Halves |-> kept'[x]]
      BY <2>1, <2>2, <2>3
    <3> QED BY <2>3, <3>1, <3>2, <3>3
  <2>5. mtx' \in Threads \cup {Nobody} /\ stage' \in [Threads -> {"out", "call", "room", "true", "false"}]
    BY DEF TierTypeOK
  <2>6. missed' \in [Keys \cup Names -> 0..RamPinAt] /\ ask' \in [Threads -> Things \cup {Nobody}]
    BY DEF TierTypeOK
  <2>7. bytes' \in Int
    BY DEF TierTypeOK
  <2> QED BY <2>4, <2>5, <2>6, <2>7 DEF TierTypeOK
<1>2. StoreTypeOK'
  BY DEF StoreTypeOK
<1>3. IsFiniteSet(DOMAIN cache)' /\ CacheWithinPlan'
  BY DEF CacheWithinPlan, Size, Loose
<1>4. Locks'
  BY DEF Locks, TierTypeOK
<1>5. Wants' /\ Lists' /\ Joined'
  BY DEF Wants, Lists, IsList, Joined
<1> QED BY <1>1, <1>2, <1>3, <1>4, <1>5

LEMMA MissKeeps ==
  ASSUME IInv, NEW t \in Threads, Miss(t),
         UNCHANGED <<cache, usage, reader, queue, pc, want, work, calls>>
  PROVE  IInv'
<1> USE TierAssumption, StoreAssumption DEF IInv, Miss, Answer, Half, Key, queue, work
<1>1. TierTypeOK'
  BY SMTT(40) DEF TierTypeOK, Locks, Things, Held, Halves, IsCache
<1>2. StoreTypeOK'
  BY DEF StoreTypeOK
<1>3. IsFiniteSet(DOMAIN cache)' /\ CacheWithinPlan'
  BY DEF CacheWithinPlan, Size, Loose
<1>4. Locks'
  BY DEF Locks, TierTypeOK
<1>5. Wants' /\ Lists' /\ Joined'
  BY DEF Wants, Lists, IsList, Joined
<1> QED BY <1>1, <1>2, <1>3, <1>4, <1>5

LEMMA EvictKeeps ==
  ASSUME IInv, NEW t \in Threads, Evict(t),
         UNCHANGED <<cache, usage, reader, queue, pc, want, work, calls>>
  PROVE  IInv'
<1> USE TierAssumption, StoreAssumption DEF IInv, Evict, Answer, Half, Key, queue, work
<1>1. TierTypeOK'
  <2> DEFINE h == ask[t][1]
             k == ask[t][2]
  <2>0. PICK v \in Oldest(kept[h]) :
          /\ kept' = [kept EXCEPT ![h] = Drop(@, v)]
          /\ bytes' = IF h = "raw" THEN bytes - Bytes[v] ELSE bytes
    OBVIOUS
  <2>a. v \in DOMAIN kept[h]
    BY DEF Oldest, Loose
  <2>1. h \in Halves /\ k \in Held(h)
    BY DEF Locks, Things
  <2>2. IsCache(kept[h], Held(h)) /\ kept = [x \in Halves |-> kept[x]]
    BY <2>1 DEF TierTypeOK
  <2>3. IsCache(kept'[h], Held(h)) /\ kept' = [kept EXCEPT ![h] = kept'[h]]
    <3>1. kept' = [kept EXCEPT ![h] = Drop(kept[h], v)]
      BY <2>0, <2>1, <2>2
    <3>2. IsCache(Drop(kept[h], v), Held(h))
      BY <2>a, <2>1, <2>2, DropKeeps
    <3> HIDE DEF h, k
    <3> QED BY <2>1, <2>2, <3>1, <3>2
  <2>4. /\ kept' = [x \in Halves |-> kept'[x]]
        /\ \A x \in Halves : IsCache(kept'[x], Held(x))
    <3> HIDE DEF h, k
    <3>1. \A x \in Halves : IsCache(kept[x], Held(x))
      BY DEF TierTypeOK
    <3>2. \A x \in Halves : x # h => kept'[x] = kept[x]
      BY <2>1, <2>2, <2>3
    <3>3. kept' = [x \in Halves |-> kept'[x]]
      BY <2>1, <2>2, <2>3
    <3> QED BY <2>3, <3>1, <3>2, <3>3
  <2>5. mtx' \in Threads \cup {Nobody} /\ stage' \in [Threads -> {"out", "call", "room", "true", "false"}]
    BY DEF TierTypeOK
  <2>6. missed' \in [Keys \cup Names -> 0..RamPinAt] /\ ask' \in [Threads -> Things \cup {Nobody}]
    BY DEF TierTypeOK
  <2>7. bytes' \in Int
    BY SMTT(40), <2>0, <2>a, <2>1, <2>2 DEF TierTypeOK, Held, IsCache
  <2> QED BY <2>4, <2>5, <2>6, <2>7 DEF TierTypeOK
<1>2. StoreTypeOK'
  BY DEF StoreTypeOK
<1>3. IsFiniteSet(DOMAIN cache)' /\ CacheWithinPlan'
  BY DEF CacheWithinPlan, Size, Loose
<1>4. Locks'
  BY DEF Locks, TierTypeOK
<1>5. Wants' /\ Lists' /\ Joined'
  BY DEF Wants, Lists, IsList, Joined
<1> QED BY <1>1, <1>2, <1>3, <1>4, <1>5

LEMMA ServeOnlyKeeps ==
  ASSUME IInv, NEW t \in Threads, ServeOnly(t),
         UNCHANGED <<cache, usage, reader, queue, pc, want, work, calls>>
  PROVE  IInv'
<1> USE TierAssumption, StoreAssumption DEF IInv, ServeOnly, Answer, Half, Key, queue, work
<1>1. TierTypeOK'
  BY DEF TierTypeOK, Locks, Things, Held, Halves, IsCache
<1>2. StoreTypeOK'
  BY DEF StoreTypeOK
<1>3. IsFiniteSet(DOMAIN cache)' /\ CacheWithinPlan'
  BY DEF CacheWithinPlan, Size, Loose
<1>4. Locks'
  BY DEF Locks, TierTypeOK
<1>5. Wants' /\ Lists' /\ Joined'
  BY DEF Wants, Lists, IsList, Joined
<1> QED BY <1>1, <1>2, <1>3, <1>4, <1>5

LEMMA KeepKeeps ==
  ASSUME IInv, NEW t \in Threads, Keep(t),
         UNCHANGED <<cache, usage, reader, queue, pc, want, work, calls>>
  PROVE  IInv'
<1> USE TierAssumption, StoreAssumption DEF IInv, Keep, Answer, Half, Key, queue, work
<1>1. TierTypeOK'
  <2> DEFINE h == ask[t][1]
             k == ask[t][2]
  <2>1. h \in Halves /\ k \in Held(h)
    BY DEF Locks, Things
  <2>2. IsCache(kept[h], Held(h)) /\ kept = [x \in Halves |-> kept[x]]
    BY <2>1 DEF TierTypeOK
  <2>8. Entry(0, missed[k] >= RamPinAt) \in Cell
    BY <2>1 DEF Entry, Cell, TierTypeOK, Held
  <2>3. IsCache(kept'[h], Held(h)) /\ kept' = [kept EXCEPT ![h] = kept'[h]]
    <3>1. kept' = [kept EXCEPT ![h] = PushFront(kept[h], k, Entry(0, missed[k] >= RamPinAt))]
      BY <2>1, <2>2
    <3>2. IsCache(PushFront(kept[h], k, Entry(0, missed[k] >= RamPinAt)), Held(h))
      BY <2>1, <2>2, <2>8, PushFrontKeeps
    <3> HIDE DEF h, k
    <3> QED BY <2>1, <2>2, <3>1, <3>2
  <2>4. /\ kept' = [x \in Halves |-> kept'[x]]
        /\ \A x \in Halves : IsCache(kept'[x], Held(x))
    <3> HIDE DEF h, k
    <3>1. \A x \in Halves : IsCache(kept[x], Held(x))
      BY DEF TierTypeOK
    <3>2. \A x \in Halves : x # h => kept'[x] = kept[x]
      BY <2>1, <2>2, <2>3
    <3>3. kept' = [x \in Halves |-> kept'[x]]
      BY <2>1, <2>2, <2>3
    <3> QED BY <2>3, <3>1, <3>2, <3>3
  <2>5. mtx' \in Threads \cup {Nobody} /\ stage' \in [Threads -> {"out", "call", "room", "true", "false"}]
    BY DEF TierTypeOK
  <2>6. missed' \in [Keys \cup Names -> 0..RamPinAt] /\ ask' \in [Threads -> Things \cup {Nobody}]
    BY DEF TierTypeOK
  <2>7. bytes' \in Int
    BY <2>1 DEF TierTypeOK, Held
  <2> QED BY <2>4, <2>5, <2>6, <2>7 DEF TierTypeOK
<1>2. StoreTypeOK'
  BY DEF StoreTypeOK
<1>3. IsFiniteSet(DOMAIN cache)' /\ CacheWithinPlan'
  BY DEF CacheWithinPlan, Size, Loose
<1>4. Locks'
  BY DEF Locks, TierTypeOK
<1>5. Wants' /\ Lists' /\ Joined'
  BY DEF Wants, Lists, IsList, Joined
<1> QED BY <1>1, <1>2, <1>3, <1>4, <1>5

LEMMA StutterKeeps ==
  ASSUME IInv, UNCHANGED vars
  PROVE  IInv'
BY DEF IInv, vars, tier, queue, work, TierTypeOK, StoreTypeOK, CacheWithinPlan, Size,
       Loose, Locks, Wants, Lists, IsList, Joined, IsCache

LEMMA NextKeeps ==
  ASSUME IInv, [Next]_vars
  PROVE  IInv'
<1>1. ASSUME NEW t \in Threads, TierMoves(t) PROVE IInv'
  <2> SUFFICES ASSUME TierStep(t), UNCHANGED <<cache, usage, reader, queue, pc, want, work, calls>>
               PROVE  IInv'
    BY <1>1 DEF TierMoves
  <2> QED BY HitKeeps, MissKeeps, EvictKeeps, ServeOnlyKeeps, KeepKeeps DEF TierStep
<1>2. ASSUME NEW t \in Threads, Turn(t) PROVE IInv'
  BY <1>1, <1>2, LoadKeeps, LoadedKeeps DEF Turn
<1>3. Main \in Threads /\ Worker \in Threads
  BY StoreAssumption
<1>4. CASE UNCHANGED vars
  BY <1>4, StutterKeeps
<1>5. CASE MainTurn
  BY <1>2, <1>3, <1>5, FetchKeepKeeps, GotTensorKeeps, RingKeeps, CloseKeeps DEF MainTurn
<1>6. CASE WorkerTurn
  BY <1>2, <1>3, <1>6, WorkerKeepKeeps, WaitKeeps, WakeKeeps, LookKeeps, NextExpertKeeps DEF WorkerTurn
<1>7. CASE Next /\ ~MainTurn /\ ~WorkerTurn
  BY <1>7, FetchHitKeeps, FetchMissKeeps, ReadTensorKeeps, PrefetchAsyncKeeps, DestroyKeeps DEF Next
<1> QED BY <1>4, <1>5, <1>6, <1>7

THEOREM ExpertsInductive == Spec => []IInv
<1>1. Init => IInv
  BY InitEstablishes
<1>2. IInv /\ [Next]_vars => IInv'
  BY NextKeeps
<1> QED BY <1>1, <1>2, PTL DEF Spec

\* Types, for the store and the tier behind it.
THEOREM ExpertsTyped == Spec => []TypeOK
<1>1. IInv => TypeOK
  BY DEF IInv, TypeOK
<1> QED BY <1>1, ExpertsInductive, PTL

\* A full cache is outgrown by pinned experts and at most one more: what
\* expert_store.cpp's insert_locked does when it finds nothing to evict.
THEOREM CacheStaysWithinPlan == Spec => []CacheWithinPlan
<1>1. IInv => CacheWithinPlan
  BY DEF IInv
<1> QED BY <1>1, ExpertsInductive, PTL

\* When engine_destroy frees the tier and the reader, nobody is in them.
THEOREM NobodyReadsFreed == Spec => []ReadersAlive
<1>1. IInv => ReadersAlive
  <2> SUFFICES ASSUME IInv, pc[Main] \in {"free tier", "free reader", "closed"}
               PROVE  reader = Nobody /\ mtx = Nobody /\ pc[Worker] = "gone"
    BY DEF ReadersAlive
  <2> USE StoreAssumption DEF IInv
  <2>1. pc[Worker] = "gone"
    BY DEF Joined
  <2>2. reader \notin Threads /\ mtx \notin Threads
    BY <2>1 DEF Locks
  <2> QED BY <2>1, <2>2 DEF TierTypeOK, StoreTypeOK
<1> QED BY <1>1, ExpertsInductive, PTL

LEMMA StepSparesHot ==
  ASSUME IInv, [Next]_vars
  PROVE  \A k \in DOMAIN cache :
           cache[k].pinned => k \in DOMAIN cache' /\ cache'[k].pinned
<1> USE StoreAssumption
<1>1. ASSUME NEW k \in Keys, FetchHit(k)
      PROVE  \A j \in DOMAIN cache :
               cache[j].pinned => j \in DOMAIN cache' /\ cache'[j].pinned
  BY <1>1, HitInStore
<1>2. CASE FetchKeep \/ WorkerKeep
  <2>1. PICK t \in Threads : pc[t] = "loaded" /\ InsertLocked(want[t])
    BY <1>2 DEF FetchKeep, WorkerKeep
  <2>2. want[t] \in Keys
    BY <2>1 DEF IInv, Wants
  <2> QED BY <2>1, <2>2, InsertKeeps
<1>3. CASE UNCHANGED cache
  BY <1>3
<1>4. \/ UNCHANGED cache
      \/ FetchKeep \/ WorkerKeep
      \/ \E k \in Keys : FetchHit(k)
  BY DEF Next, vars, MainTurn, WorkerTurn, Turn, TierMoves, FetchMiss, Load, Loaded,
         ReadTensor, GotTensor, PrefetchAsync, Ring, Wait, Wake, Look, NextExpert,
         Destroy, Close
<1> QED BY <1>1, <1>2, <1>3, <1>4

\* A hot expert stays in the store, whoever loads what meanwhile.
THEOREM HotExpertsStay == Spec => HotStays
<1>1. IInv /\ [Next]_vars =>
        [\A k \in DOMAIN cache :
           cache[k].pinned => k \in DOMAIN cache' /\ cache'[k].pinned]_vars
  BY StepSparesHot
<1> QED BY <1>1, ExpertsInductive, PTL DEF Spec, HotStays
-----------------------------------------------------------------------------
(***************************************************************************)
(* The memory of the tier.                                                 *)
(***************************************************************************)
\* Each half is finite and within its plan, raw_bytes is what the raw half
\* holds, and what a thread makes room for is not there yet.
TierPlan ==
  /\ \A half \in Halves : IsFiniteSet(DOMAIN kept[half])
  /\ \A half \in {"expert", "tensor"} : Size(kept[half]) <= RamCapacity
  /\ bytes <= RamBytes /\ bytes = Total(Bytes, DOMAIN kept["raw"])
  /\ \A t \in Threads : stage[t] = "room" => Key(t) \notin DOMAIN kept[Half(t)]

\* A step that leaves the caches alone and sends nobody to make room.
LEMMA OutsideTier ==
  ASSUME TierPlan, UNCHANGED <<bytes, kept>>,
         \A t \in Threads : stage'[t] = "room" => stage[t] = "room" /\ ask'[t] = ask[t]
  PROVE  TierPlan'
BY DEF TierPlan, Key, Half, Size

\* What the invariant says of a thread in the tier.
LEMMA InTier ==
  ASSUME IInv, NEW t \in Threads, stage[t] \in {"call", "room"}
  PROVE  /\ Half(t) \in Halves /\ Key(t) \in Held(Half(t))
         /\ IsCache(kept[Half(t)], Held(Half(t)))
         /\ kept = [h \in Halves |-> kept[h]]
         /\ \A h \in Halves : IsCache(kept[h], Held(h))
<1>1. ask[t] \in Things
  BY DEF IInv, Locks
<1>2. Half(t) \in Halves /\ Key(t) \in Held(Half(t))
  BY <1>1 DEF Things, Half, Key
<1> QED
  BY <1>2 DEF IInv, TierTypeOK

\* One thread makes room at a time.
LEMMA OneMakesRoom ==
  ASSUME IInv, NEW t \in Threads, NEW u \in Threads, stage[u] = "room",
         stage[t] = "room" \/ mtx = Nobody
  PROVE  u = t
BY TierAssumption DEF IInv, Locks

\* The bytes of the raw half with one tensor more and one less.
LEMMA RawTotals ==
  ASSUME NEW S, S \subseteq Names, IsFiniteSet(S)
  PROVE  /\ Total(Bytes, S) \in Nat
         /\ \A k \in S : Total(Bytes, S \ {k}) = Total(Bytes, S) - Bytes[k] /\ Bytes[k] \in Nat
         /\ \A k \in Names \ S : Total(Bytes, S \cup {k}) = Total(Bytes, S) + Bytes[k] /\ Bytes[k] \in Nat
<1>1. \A k \in Names : Bytes[k] \in Nat
  BY TierAssumption
<1>2. /\ Total(Bytes, S) \in Nat
      /\ \A k \in S : /\ Total(Bytes, S) = Bytes[k] + Total(Bytes, S \ {k})
                      /\ Total(Bytes, S \ {k}) \in Nat
  BY <1>1, TotalRemove
<1>3. ASSUME NEW k \in S
      PROVE  Total(Bytes, S \ {k}) = Total(Bytes, S) - Bytes[k] /\ Bytes[k] \in Nat
  <2> DEFINE a == Total(Bytes, S)
             b == Total(Bytes, S \ {k})
  <2>1. a \in Nat /\ b \in Nat /\ Bytes[k] \in Nat /\ a = Bytes[k] + b
    BY <1>1, <1>2
  <2> HIDE DEF a, b
  <2>2. b = a - Bytes[k]
    BY <2>1
  <2> QED
    BY <2>1, <2>2 DEF a, b
<1>4. ASSUME NEW k \in Names \ S
      PROVE  Total(Bytes, S \cup {k}) = Total(Bytes, S) + Bytes[k] /\ Bytes[k] \in Nat
  <2> DEFINE R == S \cup {k}
  <2>1. IsFiniteSet(R) /\ k \in R /\ R \ {k} = S /\ \A x \in R : Bytes[x] \in Nat
    BY <1>1, <1>4, FS_AddElement
  <2> HIDE DEF R
  <2>2. Total(Bytes, R) = Bytes[k] + Total(Bytes, R \ {k})
    BY <2>1, TotalRemove
  <2> DEFINE a == Total(Bytes, R)
             b == Total(Bytes, S)
  <2>3. a = Bytes[k] + b /\ b \in Nat /\ Bytes[k] \in Nat
    BY <1>1, <1>2, <2>1, <2>2
  <2> HIDE DEF a, b
  <2>4. a = b + Bytes[k]
    BY <2>3
  <2> QED
    BY <2>3, <2>4 DEF a, b, R
<1> QED
  BY <1>2, <1>3, <1>4

\* What is found only changes its place in the order of use.
LEMMA HitInPlan ==
  ASSUME IInv, TierPlan, NEW t \in Threads, Hit(t)
  PROVE  TierPlan'
<1> DEFINE h == Half(t)
           k == Key(t)
<1>1. /\ stage[t] = "call" /\ mtx = Nobody /\ k \in DOMAIN kept[h]
      /\ kept' = [kept EXCEPT ![h] = ToFront(@, k)]
      /\ stage' = [stage EXCEPT ![t] = "true"] /\ ask' = ask /\ bytes' = bytes
  BY DEF Hit, Answer
<1>2. h \in Halves /\ kept = [x \in Halves |-> kept[x]] /\ IsCache(kept[h], Held(h))
  BY <1>1, InTier
<1>3. \A x \in Halves : DOMAIN kept'[x] = DOMAIN kept[x]
  BY <1>1, <1>2, ToFrontKeeps
<1>4. \A u \in Threads : stage'[u] # "room"
  BY <1>1, OneMakesRoom DEF IInv, TierTypeOK
<1> QED
  BY <1>1, <1>3, <1>4 DEF TierPlan, Size, Halves

\* A thread that goes to make room found its key missing, under the mutex.
LEMMA MissInPlan ==
  ASSUME IInv, TierPlan, NEW t \in Threads, Miss(t)
  PROVE  TierPlan'
<1>1. /\ stage[t] = "call" /\ mtx = Nobody /\ Key(t) \notin DOMAIN kept[Half(t)]
      /\ UNCHANGED <<bytes, kept, ask>>
      /\ \E p \in {"room", "true", "false"} : stage' = [stage EXCEPT ![t] = p]
  BY DEF Miss, Answer
<1>2. \A u \in Threads : stage'[u] = "room" => u = t
  BY <1>1, OneMakesRoom DEF IInv, TierTypeOK
<1> QED
  BY <1>1, <1>2 DEF TierPlan, Size, Key, Half

\* What is evicted leaves with its own bytes.
LEMMA EvictInPlan ==
  ASSUME IInv, TierPlan, NEW t \in Threads, Evict(t)
  PROVE  TierPlan'
<1> DEFINE h == Half(t)
<1>1. PICK k \in Oldest(kept[h]) :
        /\ kept' = [kept EXCEPT ![h] = Drop(@, k)]
        /\ bytes' = IF h = "raw" THEN bytes - Bytes[k] ELSE bytes
  BY DEF Evict
<1>2. stage[t] = "room" /\ UNCHANGED <<ask, stage>> /\ k \in DOMAIN kept[h]
  BY DEF Evict, Oldest, Loose
<1>3. /\ h \in Halves /\ kept = [x \in Halves |-> kept[x]]
      /\ \A x \in Halves : IsCache(kept[x], Held(x))
  BY <1>2, InTier
<1> HIDE DEF h
<1>4. \A x \in Halves : DOMAIN kept'[x] = IF x = h THEN DOMAIN kept[x] \ {k} ELSE DOMAIN kept[x]
  BY <1>1, <1>2, <1>3, DropKeeps
<1>5. \A x \in Halves : /\ IsFiniteSet(DOMAIN kept[x]) /\ IsFiniteSet(DOMAIN kept'[x])
                        /\ Size(kept'[x]) <= Size(kept[x])
                        /\ Size(kept[x]) \in Nat /\ Size(kept'[x]) \in Nat
  <2> TAKE x \in Halves
  <2>1. IsFiniteSet(DOMAIN kept[x]) /\ DOMAIN kept'[x] \subseteq DOMAIN kept[x]
    BY <1>4 DEF TierPlan
  <2> QED
    BY <2>1, FS_Subset, FS_CardinalityType DEF Size
<1>6. bytes' <= RamBytes /\ bytes' = Total(Bytes, DOMAIN kept'["raw"])
  <2> DEFINE S == DOMAIN kept["raw"]
  <2>1. S \subseteq Names /\ IsFiniteSet(S) /\ "raw" \in Halves
    BY <1>3 DEF Halves, IsCache, Held, TierPlan
  <2>2. bytes = Total(Bytes, S) /\ bytes <= RamBytes /\ RamBytes \in Nat
    BY TierAssumption DEF TierPlan
  <2>3. CASE h = "raw"
    <3>1. k \in S /\ DOMAIN kept'["raw"] = S \ {k} /\ bytes' = bytes - Bytes[k]
      BY <1>1, <1>2, <1>4, <2>1, <2>3
    <3> HIDE DEF S
    <3>2. /\ Total(Bytes, S) \in Nat /\ Bytes[k] \in Nat
          /\ Total(Bytes, S \ {k}) = Total(Bytes, S) - Bytes[k]
      BY <2>1, <3>1, RawTotals
    <3> QED
      BY <2>2, <3>1, <3>2
  <2>4. CASE h # "raw"
    <3>1. bytes' = bytes /\ DOMAIN kept'["raw"] = S
      BY <1>1, <1>4, <2>1, <2>4
    <3> QED
      BY <2>2, <3>1
  <2> QED
    BY <2>3, <2>4
<1>7. \A half \in {"expert", "tensor"} : Size(kept'[half]) <= RamCapacity
  BY <1>5, TierAssumption DEF TierPlan, Halves
<1>8. \A u \in Threads : stage'[u] = "room" => Key(u)' \notin DOMAIN kept'[Half(u)']
  <2> SUFFICES ASSUME NEW u \in Threads, stage'[u] = "room"
               PROVE  Key(u)' \notin DOMAIN kept'[Half(u)']
    OBVIOUS
  <2>1. Key(u)' = Key(u) /\ Half(u)' = Half(u) /\ stage[u] = "room"
    BY <1>2 DEF Key, Half
  <2>2. Half(u) \in Halves /\ Key(u) \notin DOMAIN kept[Half(u)]
    BY <2>1, InTier DEF TierPlan
  <2> QED
    BY <1>4, <2>1, <2>2
<1> QED
  BY <1>5, <1>6, <1>7, <1>8 DEF TierPlan

\* What is kept was made room for, and was not there.
LEMMA KeepInPlan ==
  ASSUME IInv, TierPlan, NEW t \in Threads, Keep(t)
  PROVE  TierPlan'
<1> DEFINE h == Half(t)
           k == Key(t)
           e == Entry(0, missed[k] >= RamPinAt)
<1>1. /\ stage[t] = "room" /\ Room(t)
      /\ kept' = [kept EXCEPT ![h] = PushFront(@, k, e)]
      /\ bytes' = IF h = "raw" THEN bytes + Bytes[k] ELSE bytes
      /\ stage' = [stage EXCEPT ![t] = "true"]
  BY DEF Keep, Answer
<1>2. /\ h \in Halves /\ k \in Held(h) /\ kept = [x \in Halves |-> kept[x]]
      /\ \A x \in Halves : IsCache(kept[x], Held(x))
      /\ k \notin DOMAIN kept[h]
  BY <1>1, InTier DEF TierPlan
<1>r. IF h = "raw" THEN bytes + Bytes[k] <= RamBytes ELSE Size(kept[h]) < RamCapacity
  BY <1>1 DEF Room
<1> HIDE DEF h, k, e
<1>4. \A x \in Halves : DOMAIN kept'[x] = IF x = h THEN DOMAIN kept[x] \cup {k} ELSE DOMAIN kept[x]
  BY <1>1, <1>2 DEF PushFront
<1>5. \A x \in Halves : /\ IsFiniteSet(DOMAIN kept'[x])
                        /\ Size(kept'[x]) = IF x = h THEN Size(kept[x]) + 1 ELSE Size(kept[x])
                        /\ Size(kept[x]) \in Nat
  <2> TAKE x \in Halves
  <2>1. IsFiniteSet(DOMAIN kept[x])
    BY DEF TierPlan
  <2>2. Size(kept[x]) \in Nat
    BY <2>1, FS_CardinalityType DEF Size
  <2>3. CASE x = h
    <3>1. DOMAIN kept'[x] = DOMAIN kept[x] \cup {k} /\ k \notin DOMAIN kept[x]
      BY <1>2, <1>4, <2>3
    <3>2. /\ IsFiniteSet(DOMAIN kept[x] \cup {k})
          /\ Cardinality(DOMAIN kept[x] \cup {k}) = Cardinality(DOMAIN kept[x]) + 1
      BY <2>1, <3>1, FS_AddElement
    <3> QED
      BY <2>2, <2>3, <3>1, <3>2 DEF Size
  <2>4. CASE x # h
    <3>1. DOMAIN kept'[x] = DOMAIN kept[x]
      BY <1>4, <2>4
    <3> QED
      BY <2>1, <2>2, <2>4, <3>1 DEF Size
  <2> QED
    BY <2>3, <2>4
<1>6. bytes' <= RamBytes /\ bytes' = Total(Bytes, DOMAIN kept'["raw"])
  <2> DEFINE S == DOMAIN kept["raw"]
  <2>1. S \subseteq Names /\ IsFiniteSet(S) /\ "raw" \in Halves
    BY <1>2 DEF Halves, IsCache, Held, TierPlan
  <2>2. bytes = Total(Bytes, S) /\ bytes <= RamBytes /\ RamBytes \in Nat
    BY TierAssumption DEF TierPlan
  <2>3. CASE h = "raw"
    <3>1. k \in Names \ S /\ DOMAIN kept'["raw"] = S \cup {k} /\ bytes' = bytes + Bytes[k]
      BY <1>1, <1>2, <1>4, <2>1, <2>3 DEF Held
    <3> HIDE DEF S
    <3>2. Total(Bytes, S \cup {k}) = Total(Bytes, S) + Bytes[k]
      BY <2>1, <3>1, RawTotals
    <3> QED
      BY <1>r, <2>2, <2>3, <3>1, <3>2
  <2>4. CASE h # "raw"
    <3>1. bytes' = bytes /\ DOMAIN kept'["raw"] = S
      BY <1>1, <1>4, <2>1, <2>4
    <3> QED
      BY <2>2, <3>1
  <2> QED
    BY <2>3, <2>4
<1>7. \A half \in {"expert", "tensor"} : Size(kept'[half]) <= RamCapacity
  <2> TAKE half \in {"expert", "tensor"}
  <2>1. half \in Halves /\ Size(kept[half]) <= RamCapacity /\ RamCapacity \in Nat
    BY TierAssumption DEF TierPlan, Halves
  <2> QED
    BY <1>r, <1>5, <2>1
<1>8. \A u \in Threads : stage'[u] # "room"
  BY <1>1, OneMakesRoom DEF IInv, TierTypeOK
<1> QED
  BY <1>5, <1>6, <1>7, <1>8 DEF TierPlan

\* The caches start empty.
LEMMA TierPlanInit ==
  ASSUME Init
  PROVE  TierPlan
<1>1. \A half \in Halves : DOMAIN kept[half] = {} /\ kept[half] = <<>>
  BY DEF Init, TierInit, Halves
<1>2. IsFiniteSet({}) /\ Cardinality({}) = 0 /\ Total(Bytes, {}) = 0
  BY FS_EmptySet, TotalEmpty
<1>3. bytes = 0 /\ \A t \in Threads : stage[t] # "room"
  BY DEF Init, TierInit
<1> QED
  BY <1>1, <1>2, <1>3, TierAssumption DEF TierPlan, Halves, Size

\* Every step keeps the tier in its plan.
LEMMA TierPlanKeeps ==
  ASSUME IInv, TierPlan, [Next]_vars
  PROVE  TierPlan'
<1>1. ASSUME NEW t \in Threads, TierMoves(t)
      PROVE  TierPlan'
  <2>1. CASE ServeOnly(t)
    <3>1. UNCHANGED <<bytes, kept, ask>> /\ stage' = [stage EXCEPT ![t] = "true"]
      BY <2>1 DEF ServeOnly, Answer
    <3>2. \A u \in Threads : stage'[u] = "room" => stage[u] = "room" /\ ask'[u] = ask[u]
      BY <3>1 DEF IInv, TierTypeOK
    <3> QED
      BY <3>1, <3>2, OutsideTier
  <2> QED
    BY <1>1, <2>1, HitInPlan, MissInPlan, EvictInPlan, KeepInPlan DEF TierMoves, TierStep
<1>2. ASSUME NEW t \in Threads, NEW x, Call(t, x), UNCHANGED <<bytes, kept>>
      PROVE  TierPlan'
  <2>1. \A u \in Threads : stage'[u] = "room" => stage[u] = "room" /\ ask'[u] = ask[u]
    BY <1>2 DEF Call, IInv, TierTypeOK
  <2> QED
    BY <1>2, <2>1, OutsideTier
<1>3. ASSUME NEW t \in Threads, Return(t), UNCHANGED <<bytes, kept>>
      PROVE  TierPlan'
  <2>1. \A u \in Threads : stage'[u] = "room" => stage[u] = "room" /\ ask'[u] = ask[u]
    BY <1>3 DEF Return, IInv, TierTypeOK
  <2> QED
    BY <1>3, <2>1, OutsideTier
<1>4. ASSUME NEW t \in Threads, Load(t)
      PROVE  TierPlan'
  <2>1. CASE Tiered
    BY <1>2, <1>4, <2>1 DEF Load
  <2>2. CASE ~Tiered
    <3>1. UNCHANGED <<bytes, kept, ask>>
          /\ \E ok \in {"true", "false"} : stage' = [stage EXCEPT ![t] = ok]
      BY <1>4, <2>2 DEF Load
    <3>2. \A u \in Threads : stage'[u] = "room" => stage[u] = "room" /\ ask'[u] = ask[u]
      BY <3>1 DEF IInv, TierTypeOK
    <3> QED
      BY <3>1, <3>2, OutsideTier
  <2> QED
    BY <2>1, <2>2
<1>5. CASE UNCHANGED tier
  BY <1>5, OutsideTier DEF tier
<1>6. ASSUME NEW t \in Threads, Turn(t)
      PROVE  TierPlan'
  BY <1>1, <1>3, <1>4, <1>6 DEF Turn, Loaded
<1>7. Main \in Threads /\ Worker \in Threads
  BY StoreAssumption
<1>8. CASE MainTurn
  <2>1. CASE GotTensor
    BY <1>3, <1>7, <2>1 DEF GotTensor
  <2>2. CASE FetchKeep \/ Ring \/ Close
    BY <1>5, <2>2 DEF FetchKeep, Ring, Close
  <2> QED
    BY <1>6, <1>7, <1>8, <2>1, <2>2 DEF MainTurn
<1>9. CASE WorkerTurn
  <2>1. CASE WorkerKeep \/ Wait \/ Wake \/ Look \/ NextExpert
    BY <1>5, <2>1 DEF WorkerKeep, Wait, Wake, Look, NextExpert
  <2> QED
    BY <1>6, <1>7, <1>9, <2>1 DEF WorkerTurn
<1>10. ASSUME NEW half \in {"tensor", "raw"}, NEW n \in Names, ReadTensor(half, n)
       PROVE  TierPlan'
  BY <1>2, <1>7, <1>10 DEF ReadTensor
<1>11. CASE (\E k \in Keys : FetchHit(k) \/ FetchMiss(k)) \/ (\E p \in Predictions : PrefetchAsync(p)) \/ Destroy
  BY <1>5, <1>11 DEF FetchHit, FetchMiss, PrefetchAsync, Destroy
<1>12. CASE UNCHANGED vars
  BY <1>5, <1>12 DEF vars
<1> QED
  BY <1>8, <1>9, <1>10, <1>11, <1>12 DEF Next

\* No half of the tier outgrows what it was given, and the byte count never
\* drifts from the bytes held (evict_raw, read_tensor_raw).
THEOREM TierStaysWithinPlan == Spec => []TierWithinPlan
<1>1. TierPlan => TierWithinPlan
  BY DEF TierPlan, TierWithinPlan, Total
<1>2. Init => TierPlan
  BY TierPlanInit
<1>3. IInv /\ TierPlan /\ [Next]_vars => TierPlan'
  BY TierPlanKeeps
<1> QED
  BY <1>1, <1>2, <1>3, ExpertsInductive, PTL DEF Spec
=============================================================================

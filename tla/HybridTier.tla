----------------------------- MODULE HybridTier -----------------------------
(***************************************************************************)
(* The memory tier between the engine and the model file (hybrid_tier.cpp, *)
(* HybridModelReader of engine.h): three caches under one mutex - experts  *)
(* and float tensors counted in entries, raw quantized tensors in bytes.   *)
(*                                                                         *)
(* A read runs in the thread that asks, with the mutex from the first look *)
(* to the answer. A thing is <<half, key>>. The data is what the file      *)
(* holds for the key, so it is left out; so are the statistics.            *)
(***************************************************************************)
EXTENDS Lru

CONSTANTS
  Threads,
  Keys,         \* experts: <<expert, part>>
  Names,        \* tensors
  Bytes,        \* Bytes[n]: quantized bytes of tensor n
  RamCapacity,  \* ram_capacity
  RamBytes,     \* ram_bytes_max
  RamPinAt,     \* ram_pin_threshold
  Faulty,       \* the keys and tensors whose read may fail
  Nobody

ASSUME TierAssumption ==
  /\ RamCapacity \in Nat \ {0} /\ RamPinAt \in Nat \ {0}
  /\ RamBytes \in Nat /\ Bytes \in [Names -> Nat \ {0}]
  /\ Nobody \notin Threads /\ Keys \cap Names = {}

Halves == {"expert", "tensor", "raw"}
Held(half) == IF half = "expert" THEN Keys ELSE Names
Things == UNION {{half} \X Held(half) : half \in Halves}
Cell == [place : Nat, hits : Nat, pinned : BOOLEAN]
IsCache(c, S) == DOMAIN c \subseteq S /\ c \in [DOMAIN c -> Cell]

VARIABLES
  mtx,      \* HybridTier::Impl::mtx: who holds it
  bytes,    \* raw_bytes: what the raw half holds
  kept,     \* expert_map, tensor_map, raw_map with their lists
  missed,   \* usage, tensor_usage: misses, counted up to RamPinAt
  ask,      \* per thread: the thing it reads, or Nobody
  stage     \* per thread: "out", "call", "room", "true", "false"

tier == <<mtx, bytes, kept, missed, ask, stage>>

TierTypeOK ==
  /\ mtx \in Threads \cup {Nobody}
  /\ bytes \in Int
  /\ kept = [half \in Halves |-> kept[half]]
  /\ \A half \in Halves : IsCache(kept[half], Held(half))
  /\ missed \in [Keys \cup Names -> 0..RamPinAt]
  /\ ask \in [Threads -> Things \cup {Nobody}]
  /\ stage \in [Threads -> {"out", "call", "room", "true", "false"}]

TierInit ==
  /\ mtx = Nobody
  /\ bytes = 0
  /\ kept = [h \in Halves |-> <<>>]
  /\ missed = [k \in Keys \cup Names |-> 0]
  /\ ask = [t \in Threads |-> Nobody]
  /\ stage = [t \in Threads |-> "out"]

Half(t) == ask[t][1]
Key(t) == ask[t][2]

\* What the eviction loop of each half waits for.
Room(t) == IF Half(t) = "raw"
           THEN bytes + Bytes[Key(t)] <= RamBytes
           ELSE Size(kept[Half(t)]) < RamCapacity

\* read_tensor, read_tensor_raw and read_expert, called with the thing x.
Call(t, x) ==
  /\ ask' = [ask EXCEPT ![t] = x]
  /\ stage' = [stage EXCEPT ![t] = "call"]

Answer(t, ok) ==
  /\ mtx' = Nobody
  /\ stage' = [stage EXCEPT ![t] = IF ok THEN "true" ELSE "false"]

Hit(t) ==
  /\ stage[t] = "call" /\ mtx = Nobody
  /\ Key(t) \in DOMAIN kept[Half(t)]
  /\ kept' = [kept EXCEPT ![Half(t)] = ToFront(@, Key(t))]
  /\ Answer(t, TRUE)
  /\ UNCHANGED <<bytes, missed, ask>>

\* A miss reads the source with the mutex held. A raw tensor larger than the
\* whole budget is served and not kept.
Miss(t) ==
  /\ stage[t] = "call" /\ mtx = Nobody
  /\ Key(t) \notin DOMAIN kept[Half(t)]
  /\ missed' = [missed EXCEPT ![Key(t)] = IF @ < RamPinAt THEN @ + 1 ELSE @]
  /\ \/ Key(t) \in Faulty /\ Answer(t, FALSE)
     \/ IF Half(t) = "raw" /\ Bytes[Key(t)] > RamBytes
        THEN Answer(t, TRUE)
        ELSE mtx' = t /\ stage' = [stage EXCEPT ![t] = "room"]
  /\ UNCHANGED <<bytes, kept, ask>>

\* Mutant of Evict: the bytes of what goes are not given back.
EvictKeepsBytes(t) ==
  /\ stage[t] = "room" /\ ~Room(t)
  /\ \E k \in Oldest(kept[Half(t)]) :
       kept' = [kept EXCEPT ![Half(t)] = Drop(@, k)]
  /\ UNCHANGED <<mtx, bytes, missed, ask, stage>>

\* evict_expert, evict_tensor, evict_raw: one turn of the loop. With nothing
\* but pinned entries, the loop of the raw half stops and the tensor is
\* served without being kept; the loops of the other two turn on for ever.
Evict(t) ==
  /\ stage[t] = "room" /\ ~Room(t)
  /\ \E k \in Oldest(kept[Half(t)]) :
       /\ kept' = [kept EXCEPT ![Half(t)] = Drop(@, k)]
       /\ bytes' = IF Half(t) = "raw" THEN bytes - Bytes[k] ELSE bytes
  /\ UNCHANGED <<mtx, missed, ask, stage>>

ServeOnly(t) ==
  /\ stage[t] = "room" /\ ~Room(t)
  /\ Half(t) = "raw" /\ Loose(kept["raw"]) = {}
  /\ Answer(t, TRUE)
  /\ UNCHANGED <<bytes, kept, missed, ask>>

Keep(t) ==
  /\ stage[t] = "room" /\ Room(t)
  /\ kept' = [kept EXCEPT ![Half(t)] =
                PushFront(@, Key(t), Entry(0, missed[Key(t)] >= RamPinAt))]
  /\ bytes' = IF Half(t) = "raw" THEN bytes + Bytes[Key(t)] ELSE bytes
  /\ Answer(t, TRUE)
  /\ UNCHANGED <<missed, ask>>

TierStep(t) == Hit(t) \/ Miss(t) \/ Evict(t) \/ ServeOnly(t) \/ Keep(t)

Return(t) ==
  /\ ask' = [ask EXCEPT ![t] = Nobody]
  /\ stage' = [stage EXCEPT ![t] = "out"]

\* The loops that never end.
Spins(t) == stage[t] = "room" /\ Half(t) # "raw" /\ ~Room(t)
            /\ Loose(kept[Half(t)]) = {}
=============================================================================

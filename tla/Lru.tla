-------------------------------- MODULE Lru --------------------------------
(***************************************************************************)
(* A cache kept as std::list + std::unordered_map (expert_store.cpp,       *)
(* hybrid_tier.cpp): a function from the keys it holds to entries. place   *)
(* is how many entries stand in front of it in the list: 0 is the one used *)
(* last, and a touched entry is spliced to the front.                      *)
(***************************************************************************)
EXTENDS Integers, FiniteSets

Entry(hits, pinned) == [place |-> 0, hits |-> hits, pinned |-> pinned]

Size(c) == Cardinality(DOMAIN c)
Loose(c) == {k \in DOMAIN c : ~c[k].pinned}

PushFront(c, k, e) ==
  [j \in DOMAIN c \cup {k} |->
     IF j = k THEN e ELSE [c[j] EXCEPT !.place = @ + 1]]

ToFront(c, k) ==
  [j \in DOMAIN c |->
     [c[j] EXCEPT !.place = IF j = k THEN 0
                            ELSE IF @ < c[k].place THEN @ + 1 ELSE @]]

Drop(c, k) ==
  [j \in DOMAIN c \ {k} |->
     [c[j] EXCEPT !.place = IF @ > c[k].place THEN @ - 1 ELSE @]]

\* The entry an eviction takes, walking from the back past the pinned ones.
Oldest(c) == {k \in Loose(c) : \A j \in Loose(c) : c[j].place <= c[k].place}
=============================================================================

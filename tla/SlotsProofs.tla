----------------------------- MODULE SlotsProofs -----------------------------
(***************************************************************************)
(* Proofs about Slots, for any requests, any mix of endpoints, any number  *)
(* of replicas and of administrators, and any bound on the groups.         *)
(***************************************************************************)
EXTENDS Slots, TLAPS

Gated(r)  == kind[r] \in {"generate", "score"}
Locked(r) == kind[r] \in {"generate", "score", "decide"}

\* The request has the inference lock of its replica.
Engaged(r) == Locked(r) /\ pc[r] \in {"tune", "using", "leave"}

\* Where a request can be, by what it asked for; a request under way has a
\* replica, and only a request that has its model still holds a reference.
Places ==
  /\ \A r \in Requests :
       /\ pc[r] \in RequestPlaces
       /\ pc[r] \notin {"idle", "done"} => at[r] \in Slots
       /\ pc[r] \in {"idle", "ensure", "loading", "done"} => held[r] = "none"
       /\ pc[r] \in {"claim", "release"} => Gated(r)
       /\ pc[r] \in {"enter", "leave"} => Locked(r)
       /\ pc[r] = "tune" => kind[r] = "generate"
       /\ pc[r] = "using" => Locked(r) \/ kind[r] = "direct"
  /\ \A a \in Admins : pc[a] \in {"idle", "visit", "close"}

\* The gate of a replica let to a request is shut, and opens for one only.
Gate ==
  \A r \in Requests : Holds(r) =>
    /\ busy[at[r]]
    /\ \A q \in Requests : Holds(q) /\ at[q] = at[r] => q = r

Inference == \A r \in Requests : Engaged(r) => running[at[r]] = r

\* A replica has a model exactly when it says it is loaded; one that is being
\* loaded belongs to the request that loads it.
Loading ==
  /\ \A s \in Slots : state[s] = "loaded" <=> model[s]
  /\ \A r \in Requests : pc[r] = "loading" =>
       loader[at[r]] = r /\ state[at[r]] = "loading"

\* A reference nobody has closed is to the model of its replica.
Reference == \A r \in Requests : held[r] = "open" => at[r] \in Slots /\ model[at[r]]

\* A new configuration has a number left for its group, under the lock.
Reconfiguring ==
  \A a \in Admins : task[a] = "reconfigure" => manager = a /\ made < MaxGroups

IInv ==
  /\ TypeOK
  /\ Places
  /\ Gate
  /\ Inference
  /\ Loading
  /\ Reference
  /\ OwnSettings
  /\ Reconfiguring
-----------------------------------------------------------------------------
LEMMA RegisteredAreSlots ==
  ASSUME TypeOK
  PROVE  Registered \subseteq Slots
<1>1. group = 0 \/ group \in 1..MaxGroups
  BY SlotsAssumption DEF TypeOK
<1> QED
  BY <1>1 DEF Registered, Slots

LEMMA RingTurns ==
  ASSUME TypeOK, group # 0, NEW i \in Turns(group)
  PROVE  Ring(i) \in Slots /\ (rr + 1) % Parallel[group] \in Turns(group)
<1>1. group \in 1..MaxGroups /\ rr \in Nat /\ i \in Nat
  BY SlotsAssumption DEF TypeOK, Turns
<1>2. Parallel[group] \in Nat /\ Parallel[group] > 0
  BY <1>1, SlotsAssumption
<1>3. \A n \in Nat : n % Parallel[group] \in Turns(group)
  BY <1>2 DEF Turns
<1>4. rr + i \in Nat /\ rr + 1 \in Nat
  BY <1>1
<1>5. Ring(i) \in Members(group)
  BY <1>3, <1>4 DEF Ring, Members
<1> QED
  BY <1>1, <1>3, <1>4, <1>5 DEF Slots

LEMMA LoadedCases ==
  ASSUME TypeOK, NEW r \in Requests, Loaded(r)
  PROVE  \/ End(r)
         \/ \E place \in {"claim", "enter", "using"} :
              /\ Go(r, place)
              /\ place = "claim" => Gated(r)
              /\ place = "enter" => kind[r] = "decide"
              /\ place = "using" => kind[r] = "direct"
              /\ held' = [held EXCEPT ![r] = "open"]
              /\ at' = at
<1>1. kind[r] \in Kinds
  BY DEF TypeOK
<1> QED
  BY <1>1 DEF Loaded, Kinds, Gated, Locked

LEMMA TunedType ==
  ASSUME TypeOK, NEW r \in Requests, at[r] \in Slots
  PROVE  /\ \A n : Tuned(r, n) \in SUBSET (1..Last)
         /\ Tuned(r, Last) = Wish[r]
<1>1. tuning[at[r]] \subseteq 1..Last /\ Wish[r] \subseteq 1..Last
  BY SlotsAssumption DEF TypeOK
<1> QED
  BY <1>1, SlotsAssumption DEF Tuned

LEMMA NoModelKeeps ==
  ASSUME IInv, NEW r \in Requests, NoModel(r), UNCHANGED kind
  PROVE  IInv'
<1> USE SlotsAssumption DEF IInv, At, Go, End, slotVars, managerVars, requestVars, adminVars
<1>1. TypeOK'
  BY DEF NoModel, TypeOK, RequestPlaces, Threads
<1>2. Places'
  BY DEF NoModel, Places, TypeOK, RequestPlaces, Threads, Gated, Locked
<1>3. Gate'
  BY DEF NoModel, Gate, Holds, TypeOK, Threads, Places, Gated, Locked
<1>4. Inference'
  BY DEF NoModel, Inference, Engaged, Locked, Places, TypeOK, Threads, RequestPlaces, Gated
<1>5. Loading'
  BY DEF NoModel, Loading, TypeOK, Threads, Places, RequestPlaces
<1>6. Reference'
  BY DEF NoModel, Reference, Loading, TypeOK, Threads, Places
<1>7. OwnSettings'
  BY DEF NoModel, OwnSettings, Inference, Engaged, Locked, Reference, Loading, TypeOK, Threads, Places
<1>8. Reconfiguring'
  BY DEF NoModel, Reconfiguring, TypeOK, Threads
<1> QED
  BY <1>1, <1>2, <1>3, <1>4, <1>5, <1>6, <1>7, <1>8

LEMMA ResolveKeeps ==
  ASSUME IInv, NEW r \in Requests, Resolve(r), UNCHANGED kind
  PROVE  IInv'
<1> USE SlotsAssumption DEF IInv, At, Go, End, slotVars, managerVars, requestVars, adminVars
<1>1. TypeOK'
  BY RingTurns DEF Resolve, TypeOK, RequestPlaces, Threads
<1>2. Places'
  BY RingTurns DEF Resolve, Places, TypeOK, RequestPlaces, Threads, Gated, Locked
<1>3. Gate'
  BY RingTurns DEF Resolve, Gate, Holds, TypeOK, Threads, Places, Gated, Locked
<1>4. Inference'
  BY RingTurns DEF Resolve, Inference, Engaged, Locked, Places, TypeOK, Threads, RequestPlaces, Gated
<1>5. Loading'
  BY RingTurns DEF Resolve, Loading, TypeOK, Threads, Places, RequestPlaces
<1>6. Reference'
  BY RingTurns DEF Resolve, Reference, Loading, TypeOK, Threads, Places
<1>7. OwnSettings'
  BY RingTurns DEF Resolve, OwnSettings, Inference, Engaged, Locked, Reference, Loading, TypeOK, Threads, Places
<1>8. Reconfiguring'
  BY RingTurns DEF Resolve, Reconfiguring, TypeOK, Threads
<1> QED
  BY <1>1, <1>2, <1>3, <1>4, <1>5, <1>6, <1>7, <1>8

LEMMA WarmKeeps ==
  ASSUME IInv, NEW r \in Requests, Warm(r), UNCHANGED kind
  PROVE  IInv'
<1> USE SlotsAssumption DEF IInv, At, Go, End, slotVars, managerVars, requestVars, adminVars
<1>1. TypeOK'
  BY RegisteredAreSlots DEF Warm, TypeOK, RequestPlaces, Threads
<1>2. Places'
  BY RegisteredAreSlots DEF Warm, Places, TypeOK, RequestPlaces, Threads, Gated, Locked
<1>3. Gate'
  BY RegisteredAreSlots DEF Warm, Gate, Holds, TypeOK, Threads, Places, Gated, Locked
<1>4. Inference'
  BY RegisteredAreSlots DEF Warm, Inference, Engaged, Locked, Places, TypeOK, Threads, RequestPlaces, Gated
<1>5. Loading'
  BY RegisteredAreSlots DEF Warm, Loading, TypeOK, Threads, Places, RequestPlaces
<1>6. Reference'
  BY RegisteredAreSlots DEF Warm, Reference, Loading, TypeOK, Threads, Places
<1>7. OwnSettings'
  BY RegisteredAreSlots DEF Warm, OwnSettings, Inference, Engaged, Locked, Reference, Loading, TypeOK, Threads, Places
<1>8. Reconfiguring'
  BY RegisteredAreSlots DEF Warm, Reconfiguring, TypeOK, Threads
<1> QED
  BY <1>1, <1>2, <1>3, <1>4, <1>5, <1>6, <1>7, <1>8

LEMMA EnsuredKeeps ==
  ASSUME IInv, NEW r \in Requests, Ensured(r), UNCHANGED kind
  PROVE  IInv'
<1> USE SlotsAssumption DEF IInv, At, Go, End, slotVars, managerVars, requestVars, adminVars
<1>1. CASE End(r)
  <2>1. TypeOK'
    BY <1>1 DEF Ensured, TypeOK, RequestPlaces, Threads
  <2>2. Places'
    BY <1>1 DEF Ensured, Places, TypeOK, RequestPlaces, Threads, Gated, Locked
  <2>3. Gate'
    BY <1>1 DEF Ensured, Gate, Holds, TypeOK, Threads, Places, Gated, Locked
  <2>4. Inference'
    BY <1>1 DEF Ensured, Inference, Engaged, Locked, Places, TypeOK, Threads, RequestPlaces, Gated
  <2>5. Loading'
    BY <1>1 DEF Ensured, Loading, TypeOK, Threads, Places, RequestPlaces
  <2>6. Reference'
    BY <1>1 DEF Ensured, Reference, Loading, TypeOK, Threads, Places
  <2>7. OwnSettings'
    BY <1>1 DEF Ensured, OwnSettings, Inference, Engaged, Locked, Reference, Loading, TypeOK, Threads, Places
  <2>8. Reconfiguring'
    BY <1>1 DEF Ensured, Reconfiguring, TypeOK, Threads
  <2> QED
    BY <2>1, <2>2, <2>3, <2>4, <2>5, <2>6, <2>7, <2>8
<1>2. ASSUME NEW place \in {"claim", "enter", "using"},
             Go(r, place),
             place = "claim" => Gated(r),
             place = "enter" => kind[r] = "decide",
             place = "using" => kind[r] = "direct",
             held' = [held EXCEPT ![r] = "open"], at' = at
      PROVE  IInv'
  <2>1. TypeOK'
    BY <1>2 DEF Ensured, TypeOK, RequestPlaces, Threads
  <2>2. Places'
    BY <1>2 DEF Ensured, Places, TypeOK, RequestPlaces, Threads, Gated, Locked
  <2>3. Gate'
    BY <1>2 DEF Ensured, Gate, Holds, TypeOK, Threads, Places, Gated, Locked
  <2>4. Inference'
    BY <1>2 DEF Ensured, Inference, Engaged, Locked, Places, TypeOK, Threads, RequestPlaces, Gated
  <2>5. Loading'
    BY <1>2 DEF Ensured, Loading, TypeOK, Threads, Places, RequestPlaces
  <2>6. Reference'
    <3>1. at[r] \in Slots /\ model[at[r]]
      BY DEF Ensured, Loading, Places
    <3> QED
      BY <1>2, <3>1 DEF Ensured, Reference, TypeOK
  <2>7. OwnSettings'
    BY <1>2 DEF Ensured, OwnSettings, Inference, Engaged, Locked, Reference, Loading, TypeOK, Threads, Places
  <2>8. Reconfiguring'
    BY <1>2 DEF Ensured, Reconfiguring, TypeOK, Threads
  <2> QED
    BY <2>1, <2>2, <2>3, <2>4, <2>5, <2>6, <2>7, <2>8
<1> QED
  BY <1>1, <1>2, LoadedCases DEF Ensured

LEMMA LoadFailedBeforeKeeps ==
  ASSUME IInv, NEW r \in Requests, LoadFailedBefore(r), UNCHANGED kind
  PROVE  IInv'
<1> USE SlotsAssumption DEF IInv, At, Go, End, slotVars, managerVars, requestVars, adminVars
<1>1. TypeOK'
  BY DEF LoadFailedBefore, TypeOK, RequestPlaces, Threads
<1>2. Places'
  BY DEF LoadFailedBefore, Places, TypeOK, RequestPlaces, Threads, Gated, Locked
<1>3. Gate'
  BY DEF LoadFailedBefore, Gate, Holds, TypeOK, Threads, Places, Gated, Locked
<1>4. Inference'
  BY DEF LoadFailedBefore, Inference, Engaged, Locked, Places, TypeOK, Threads, RequestPlaces, Gated
<1>5. Loading'
  BY DEF LoadFailedBefore, Loading, TypeOK, Threads, Places, RequestPlaces
<1>6. Reference'
  BY DEF LoadFailedBefore, Reference, Loading, TypeOK, Threads, Places
<1>7. OwnSettings'
  BY DEF LoadFailedBefore, OwnSettings, Inference, Engaged, Locked, Reference, Loading, TypeOK, Threads, Places
<1>8. Reconfiguring'
  BY DEF LoadFailedBefore, Reconfiguring, TypeOK, Threads
<1> QED
  BY <1>1, <1>2, <1>3, <1>4, <1>5, <1>6, <1>7, <1>8

LEMMA BeginLoadKeeps ==
  ASSUME IInv, NEW r \in Requests, BeginLoad(r), UNCHANGED kind
  PROVE  IInv'
<1> USE SlotsAssumption DEF IInv, At, Go, End, slotVars, managerVars, requestVars, adminVars
<1>1. TypeOK'
  BY DEF BeginLoad, TypeOK, RequestPlaces, Threads
<1>2. Places'
  BY DEF BeginLoad, Places, TypeOK, RequestPlaces, Threads, Gated, Locked
<1>3. Gate'
  BY DEF BeginLoad, Gate, Holds, TypeOK, Threads, Places, Gated, Locked
<1>4. Inference'
  BY DEF BeginLoad, Inference, Engaged, Locked, Places, TypeOK, Threads, RequestPlaces, Gated
<1>5. Loading'
  <2>1. at[r] \in Slots /\ ~model[at[r]] /\ loader[at[r]] = Nobody
    BY DEF BeginLoad, Loading, Places, TypeOK
  <2>2. \A s \in Slots : state'[s] = "loaded" <=> model'[s]
    BY <2>1 DEF BeginLoad, Loading, TypeOK
  <2>3. ASSUME NEW q \in Requests, pc'[q] = "loading"
        PROVE  loader'[at'[q]] = q /\ state'[at'[q]] = "loading"
    <3>0. q = r \/ pc[q] = "loading"
      BY <2>3 DEF BeginLoad, TypeOK, Threads
    <3>1. q = r \/ (pc[q] = "loading" /\ loader[at[q]] = q)
      BY <3>0 DEF Loading
    <3>2. at[q] \in Slots
      BY <3>1, <2>1 DEF Places
    <3> QED
      BY <3>1, <3>2, <2>1 DEF BeginLoad, Loading, TypeOK
  <2> QED
    BY <2>2, <2>3 DEF Loading
<1>6. Reference'
  BY DEF BeginLoad, Reference, Loading, TypeOK, Threads, Places
<1>7. OwnSettings'
  BY DEF BeginLoad, OwnSettings, Inference, Engaged, Locked, Reference, Loading, TypeOK, Threads, Places
<1>8. Reconfiguring'
  BY DEF BeginLoad, Reconfiguring, TypeOK, Threads
<1> QED
  BY <1>1, <1>2, <1>3, <1>4, <1>5, <1>6, <1>7, <1>8

LEMMA EndLoadKeeps ==
  ASSUME IInv, NEW r \in Requests, EndLoad(r), UNCHANGED kind
  PROVE  IInv'
<1> USE SlotsAssumption DEF IInv, At, Go, End, slotVars, managerVars, requestVars, adminVars
<1>1. CASE End(r) /\ state' = [state EXCEPT ![at[r]] = "failed"] /\ UNCHANGED <<model, tuning>>
  <2>1. TypeOK'
    BY <1>1 DEF EndLoad, TypeOK, RequestPlaces, Threads
  <2>2. Places'
    BY <1>1 DEF EndLoad, Places, TypeOK, RequestPlaces, Threads, Gated, Locked
  <2>3. Gate'
    BY <1>1 DEF EndLoad, Gate, Holds, TypeOK, Threads, Places, Gated, Locked
  <2>4. Inference'
    BY <1>1 DEF EndLoad, Inference, Engaged, Locked, Places, TypeOK, Threads, RequestPlaces, Gated
  <2>5. Loading'
    BY <1>1 DEF EndLoad, Loading, TypeOK, Threads, Places, RequestPlaces
  <2>6. Reference'
    BY <1>1 DEF EndLoad, Reference, Loading, TypeOK, Threads, Places
  <2>7. OwnSettings'
    BY <1>1 DEF EndLoad, OwnSettings, Inference, Engaged, Locked, Reference, Loading, TypeOK, Threads, Places
  <2>8. Reconfiguring'
    BY <1>1 DEF EndLoad, Reconfiguring, TypeOK, Threads
  <2> QED
    BY <2>1, <2>2, <2>3, <2>4, <2>5, <2>6, <2>7, <2>8
<1>2. CASE /\ End(r)
          /\ state' = [state EXCEPT ![at[r]] = "loaded"]
          /\ model' = [model EXCEPT ![at[r]] = TRUE]
          /\ tuning' = [tuning EXCEPT ![at[r]] = {}]
  <2>1. TypeOK'
    BY <1>2 DEF EndLoad, TypeOK, RequestPlaces, Threads
  <2>2. Places'
    BY <1>2 DEF EndLoad, Places, TypeOK, RequestPlaces, Threads, Gated, Locked
  <2>3. Gate'
    BY <1>2 DEF EndLoad, Gate, Holds, TypeOK, Threads, Places, Gated, Locked
  <2>4. Inference'
    BY <1>2 DEF EndLoad, Inference, Engaged, Locked, Places, TypeOK, Threads, RequestPlaces, Gated
  <2>5. Loading'
    BY <1>2 DEF EndLoad, Loading, TypeOK, Threads, Places, RequestPlaces
  <2>6. Reference'
    BY <1>2 DEF EndLoad, Reference, Loading, TypeOK, Threads, Places
  <2>7. OwnSettings'
    BY <1>2 DEF EndLoad, OwnSettings, Inference, Engaged, Locked, Reference, Loading, TypeOK, Threads, Places
  <2>8. Reconfiguring'
    BY <1>2 DEF EndLoad, Reconfiguring, TypeOK, Threads
  <2> QED
    BY <2>1, <2>2, <2>3, <2>4, <2>5, <2>6, <2>7, <2>8
<1>3. ASSUME NEW place \in {"claim", "enter", "using"},
             state' = [state EXCEPT ![at[r]] = "loaded"],
             model' = [model EXCEPT ![at[r]] = TRUE],
             tuning' = [tuning EXCEPT ![at[r]] = {}],
             Go(r, place),
             place = "claim" => Gated(r),
             place = "enter" => kind[r] = "decide",
             place = "using" => kind[r] = "direct",
             held' = [held EXCEPT ![r] = "open"], at' = at
      PROVE  IInv'
  <2>1. TypeOK'
    BY <1>3 DEF EndLoad, TypeOK, RequestPlaces, Threads
  <2>2. Places'
    BY <1>3 DEF EndLoad, Places, TypeOK, RequestPlaces, Threads, Gated, Locked
  <2>3. Gate'
    BY <1>3 DEF EndLoad, Gate, Holds, TypeOK, Threads, Places, Gated, Locked
  <2>4. Inference'
    BY <1>3 DEF EndLoad, Inference, Engaged, Locked, Places, TypeOK, Threads, RequestPlaces, Gated
  <2>5. Loading'
    BY <1>3 DEF EndLoad, Loading, TypeOK, Threads, Places, RequestPlaces
  <2>6. Reference'
    BY SMTT(40), <1>3 DEF EndLoad, Reference, Loading, TypeOK, Threads, Places
  <2>7. OwnSettings'
    BY <1>3 DEF EndLoad, OwnSettings, Inference, Engaged, Locked, Reference, Loading, TypeOK, Threads, Places
  <2>8. Reconfiguring'
    BY <1>3 DEF EndLoad, Reconfiguring, TypeOK, Threads
  <2> QED
    BY <2>1, <2>2, <2>3, <2>4, <2>5, <2>6, <2>7, <2>8
<1> QED
  BY <1>1, <1>2, <1>3, LoadedCases DEF EndLoad

LEMMA UnsupportedKeeps ==
  ASSUME IInv, NEW r \in Requests, Unsupported(r), UNCHANGED kind
  PROVE  IInv'
<1> USE SlotsAssumption DEF IInv, At, Go, End, slotVars, managerVars, requestVars, adminVars
<1>1. TypeOK'
  BY DEF Unsupported, TypeOK, RequestPlaces, Threads
<1>2. Places'
  BY DEF Unsupported, Places, TypeOK, RequestPlaces, Threads, Gated, Locked
<1>3. Gate'
  BY DEF Unsupported, Gate, Holds, TypeOK, Threads, Places, Gated, Locked
<1>4. Inference'
  BY DEF Unsupported, Inference, Engaged, Locked, Places, TypeOK, Threads, RequestPlaces, Gated
<1>5. Loading'
  BY DEF Unsupported, Loading, TypeOK, Threads, Places, RequestPlaces
<1>6. Reference'
  BY DEF Unsupported, Reference, Loading, TypeOK, Threads, Places
<1>7. OwnSettings'
  BY DEF Unsupported, OwnSettings, Inference, Engaged, Locked, Reference, Loading, TypeOK, Threads, Places
<1>8. Reconfiguring'
  BY DEF Unsupported, Reconfiguring, TypeOK, Threads
<1> QED
  BY <1>1, <1>2, <1>3, <1>4, <1>5, <1>6, <1>7, <1>8

LEMMA BusyKeeps ==
  ASSUME IInv, NEW r \in Requests, Busy(r), UNCHANGED kind
  PROVE  IInv'
<1> USE SlotsAssumption DEF IInv, At, Go, End, slotVars, managerVars, requestVars, adminVars
<1>1. TypeOK'
  BY DEF Busy, Claimable, TypeOK, RequestPlaces, Threads
<1>2. Places'
  BY DEF Busy, Claimable, Places, TypeOK, RequestPlaces, Threads, Gated, Locked
<1>3. Gate'
  BY DEF Busy, Claimable, Gate, Holds, TypeOK, Threads, Places, Gated, Locked
<1>4. Inference'
  BY DEF Busy, Claimable, Inference, Engaged, Locked, Places, TypeOK, Threads, RequestPlaces, Gated
<1>5. Loading'
  BY DEF Busy, Claimable, Loading, TypeOK, Threads, Places, RequestPlaces
<1>6. Reference'
  BY DEF Busy, Claimable, Reference, Loading, TypeOK, Threads, Places
<1>7. OwnSettings'
  BY DEF Busy, Claimable, OwnSettings, Inference, Engaged, Locked, Reference, Loading, TypeOK, Threads, Places
<1>8. Reconfiguring'
  BY DEF Busy, Claimable, Reconfiguring, TypeOK, Threads
<1> QED
  BY <1>1, <1>2, <1>3, <1>4, <1>5, <1>6, <1>7, <1>8

LEMMA ClaimKeeps ==
  ASSUME IInv, NEW r \in Requests, Claim(r), UNCHANGED kind
  PROVE  IInv'
<1> USE SlotsAssumption DEF IInv, At, Go, End, slotVars, managerVars, requestVars, adminVars
<1>1. TypeOK'
  BY DEF Claim, Claimable, TypeOK, RequestPlaces, Threads
<1>2. Places'
  BY DEF Claim, Claimable, Places, TypeOK, RequestPlaces, Threads, Gated, Locked
<1>3. Gate'
  BY DEF Claim, Claimable, Gate, Holds, TypeOK, Threads, Places, Gated, Locked
<1>4. Inference'
  BY DEF Claim, Claimable, Inference, Engaged, Locked, Places, TypeOK, Threads, RequestPlaces, Gated
<1>5. Loading'
  BY DEF Claim, Claimable, Loading, TypeOK, Threads, Places, RequestPlaces
<1>6. Reference'
  BY DEF Claim, Claimable, Reference, Loading, TypeOK, Threads, Places
<1>7. OwnSettings'
  BY DEF Claim, Claimable, OwnSettings, Inference, Engaged, Locked, Reference, Loading, TypeOK, Threads, Places
<1>8. Reconfiguring'
  BY DEF Claim, Claimable, Reconfiguring, TypeOK, Threads
<1> QED
  BY <1>1, <1>2, <1>3, <1>4, <1>5, <1>6, <1>7, <1>8

LEMMA EnterKeeps ==
  ASSUME IInv, NEW r \in Requests, Enter(r), UNCHANGED kind
  PROVE  IInv'
<1> USE SlotsAssumption DEF IInv, At, Go, End, slotVars, managerVars, requestVars, adminVars
<1>1. CASE kind[r] = "generate"
  <2>1. TypeOK'
    BY <1>1 DEF Enter, TypeOK, RequestPlaces, Threads
  <2>2. Places'
    BY <1>1 DEF Enter, Places, TypeOK, RequestPlaces, Threads, Gated, Locked
  <2>3. Gate'
    BY <1>1 DEF Enter, Gate, Holds, TypeOK, Threads, Places, Gated, Locked
  <2>4. Inference'
    BY <1>1 DEF Enter, Inference, Engaged, Locked, Places, TypeOK, Threads, RequestPlaces, Gated
  <2>5. Loading'
    BY <1>1 DEF Enter, Loading, TypeOK, Threads, Places, RequestPlaces
  <2>6. Reference'
    BY <1>1 DEF Enter, Reference, Loading, TypeOK, Threads, Places
  <2>7. OwnSettings'
    BY <1>1 DEF Enter, OwnSettings, Inference, Engaged, Locked, Reference, Loading, TypeOK, Threads, Places
  <2>8. Reconfiguring'
    BY <1>1 DEF Enter, Reconfiguring, TypeOK, Threads
  <2> QED
    BY <2>1, <2>2, <2>3, <2>4, <2>5, <2>6, <2>7, <2>8
<1>2. CASE kind[r] # "generate"
  <2>1. TypeOK'
    BY <1>2 DEF Enter, TypeOK, RequestPlaces, Threads
  <2>2. Places'
    BY <1>2 DEF Enter, Places, TypeOK, RequestPlaces, Threads, Gated, Locked
  <2>3. Gate'
    BY <1>2 DEF Enter, Gate, Holds, TypeOK, Threads, Places, Gated, Locked
  <2>4. Inference'
    BY <1>2 DEF Enter, Inference, Engaged, Locked, Places, TypeOK, Threads, RequestPlaces, Gated
  <2>5. Loading'
    BY <1>2 DEF Enter, Loading, TypeOK, Threads, Places, RequestPlaces
  <2>6. Reference'
    BY <1>2 DEF Enter, Reference, Loading, TypeOK, Threads, Places
  <2>7. OwnSettings'
    BY <1>2 DEF Enter, OwnSettings, Inference, Engaged, Locked, Reference, Loading, TypeOK, Threads, Places
  <2>8. Reconfiguring'
    BY <1>2 DEF Enter, Reconfiguring, TypeOK, Threads
  <2> QED
    BY <2>1, <2>2, <2>3, <2>4, <2>5, <2>6, <2>7, <2>8
<1> QED
  BY <1>1, <1>2

LEMMA TuneKeeps ==
  ASSUME IInv, NEW r \in Requests, Tune(r), UNCHANGED kind
  PROVE  IInv'
<1> USE SlotsAssumption DEF IInv, At, Go, End, slotVars, managerVars, requestVars, adminVars
<1>1. CASE tuning' = [tuning EXCEPT ![at[r]] = Wish[r]] /\ Go(r, "using")
  <2>1. TypeOK'
    <3>1. at[r] \in Slots /\ Wish[r] \in SUBSET (1..Last)
      BY TunedType DEF Tune, Places
    <3>2. tuning' \in [Slots -> SUBSET (1..Last)]
      BY <1>1, <3>1 DEF TypeOK
    <3>3. pc' \in [Threads -> RequestPlaces \cup {"visit", "close"}]
      BY <1>1 DEF TypeOK, RequestPlaces, Threads
    <3> QED
      BY <3>2, <3>3 DEF Tune, TypeOK
  <2>2. Places'
    BY <1>1, TunedType DEF Tune, Places, TypeOK, RequestPlaces, Threads, Gated, Locked
  <2>3. Gate'
    BY <1>1, TunedType DEF Tune, Gate, Holds, TypeOK, Threads, Places, Gated, Locked
  <2>4. Inference'
    BY <1>1, TunedType DEF Tune, Inference, Engaged, Locked, Places, TypeOK, Threads, RequestPlaces, Gated
  <2>5. Loading'
    BY <1>1, TunedType DEF Tune, Loading, TypeOK, Threads, Places, RequestPlaces
  <2>6. Reference'
    BY <1>1, TunedType DEF Tune, Reference, Loading, TypeOK, Threads, Places
  <2>7. OwnSettings'
    BY <1>1, TunedType DEF Tune, OwnSettings, Inference, Engaged, Locked, Reference, Loading, TypeOK, Threads, Places
  <2>8. Reconfiguring'
    BY <1>1, TunedType DEF Tune, Reconfiguring, TypeOK, Threads
  <2> QED
    BY <2>1, <2>2, <2>3, <2>4, <2>5, <2>6, <2>7, <2>8
<1>2. ASSUME NEW k \in Refusable,
             tuning' = [tuning EXCEPT ![at[r]] = Tuned(r, k - 1)], Go(r, "leave")
      PROVE  IInv'
  <2>1. TypeOK'
    <3>1. at[r] \in Slots /\ Tuned(r, k - 1) \in SUBSET (1..Last)
      BY TunedType DEF Tune, Places
    <3>2. tuning' \in [Slots -> SUBSET (1..Last)]
      BY <1>2, <3>1 DEF TypeOK
    <3>3. pc' \in [Threads -> RequestPlaces \cup {"visit", "close"}]
      BY <1>2 DEF TypeOK, RequestPlaces, Threads
    <3> QED
      BY <3>2, <3>3 DEF Tune, TypeOK
  <2>2. Places'
    BY <1>2, TunedType DEF Tune, Places, TypeOK, RequestPlaces, Threads, Gated, Locked
  <2>3. Gate'
    BY <1>2, TunedType DEF Tune, Gate, Holds, TypeOK, Threads, Places, Gated, Locked
  <2>4. Inference'
    BY <1>2, TunedType DEF Tune, Inference, Engaged, Locked, Places, TypeOK, Threads, RequestPlaces, Gated
  <2>5. Loading'
    BY <1>2, TunedType DEF Tune, Loading, TypeOK, Threads, Places, RequestPlaces
  <2>6. Reference'
    BY <1>2, TunedType DEF Tune, Reference, Loading, TypeOK, Threads, Places
  <2>7. OwnSettings'
    BY <1>2, TunedType DEF Tune, OwnSettings, Inference, Engaged, Locked, Reference, Loading, TypeOK, Threads, Places
  <2>8. Reconfiguring'
    BY <1>2, TunedType DEF Tune, Reconfiguring, TypeOK, Threads
  <2> QED
    BY <2>1, <2>2, <2>3, <2>4, <2>5, <2>6, <2>7, <2>8
<1> QED
  BY <1>1, <1>2, TunedType DEF Tune, Places

LEMMA TuneClosedKeeps ==
  ASSUME IInv, NEW r \in Requests, TuneClosed(r), UNCHANGED kind
  PROVE  IInv'
<1> USE SlotsAssumption DEF IInv, At, Go, End, slotVars, managerVars, requestVars, adminVars
<1>1. TypeOK'
  BY DEF TuneClosed, TypeOK, RequestPlaces, Threads
<1>2. Places'
  BY DEF TuneClosed, Places, TypeOK, RequestPlaces, Threads, Gated, Locked
<1>3. Gate'
  BY DEF TuneClosed, Gate, Holds, TypeOK, Threads, Places, Gated, Locked
<1>4. Inference'
  BY DEF TuneClosed, Inference, Engaged, Locked, Places, TypeOK, Threads, RequestPlaces, Gated
<1>5. Loading'
  BY DEF TuneClosed, Loading, TypeOK, Threads, Places, RequestPlaces
<1>6. Reference'
  BY DEF TuneClosed, Reference, Loading, TypeOK, Threads, Places
<1>7. OwnSettings'
  BY DEF TuneClosed, OwnSettings, Inference, Engaged, Locked, Reference, Loading, TypeOK, Threads, Places
<1>8. Reconfiguring'
  BY DEF TuneClosed, Reconfiguring, TypeOK, Threads
<1> QED
  BY <1>1, <1>2, <1>3, <1>4, <1>5, <1>6, <1>7, <1>8

LEMMA FinishKeeps ==
  ASSUME IInv, NEW r \in Requests, Finish(r), UNCHANGED kind
  PROVE  IInv'
<1> USE SlotsAssumption DEF IInv, At, Go, End, slotVars, managerVars, requestVars, adminVars
<1>1. CASE kind[r] = "direct"
  <2>1. TypeOK'
    BY <1>1 DEF Finish, Sampling, TypeOK, RequestPlaces, Threads
  <2>2. Places'
    BY <1>1 DEF Finish, Sampling, Places, TypeOK, RequestPlaces, Threads, Gated, Locked
  <2>3. Gate'
    BY <1>1 DEF Finish, Sampling, Gate, Holds, TypeOK, Threads, Places, Gated, Locked
  <2>4. Inference'
    BY <1>1 DEF Finish, Sampling, Inference, Engaged, Locked, Places, TypeOK, Threads, RequestPlaces, Gated
  <2>5. Loading'
    <3>1. ASSUME NEW q \in Requests, pc'[q] = "loading"
          PROVE  pc[q] = "loading" /\ at'[q] = at[q]
      BY <1>1, <3>1 DEF Finish, TypeOK, Threads
    <3> QED
      BY <3>1 DEF Finish, Loading
  <2>6. Reference'
    BY <1>1 DEF Finish, Sampling, Reference, Loading, TypeOK, Threads, Places
  <2>7. OwnSettings'
    BY <1>1 DEF Finish, Sampling, OwnSettings, Inference, Engaged, Locked, Reference, Loading, TypeOK, Threads, Places
  <2>8. Reconfiguring'
    BY <1>1 DEF Finish, Sampling, Reconfiguring, TypeOK, Threads
  <2> QED
    BY <2>1, <2>2, <2>3, <2>4, <2>5, <2>6, <2>7, <2>8
<1>2. CASE kind[r] # "direct"
  <2>1. TypeOK'
    BY <1>2 DEF Finish, Sampling, TypeOK, RequestPlaces, Threads
  <2>2. Places'
    <3>1. Locked(r) /\ at[r] \in Slots
      BY <1>2 DEF Finish, Places
    <3>2. Go(r, "leave") /\ UNCHANGED requestVars
      BY <1>2 DEF Finish
    <3> QED
      BY <1>2, <3>1, <3>2 DEF Places, TypeOK, RequestPlaces, Threads, Gated, Locked
  <2>3. Gate'
    BY <1>2 DEF Finish, Sampling, Gate, Holds, TypeOK, Threads, Places, Gated, Locked
  <2>4. Inference'
    BY <1>2 DEF Finish, Sampling, Inference, Engaged, Locked, Places, TypeOK, Threads, RequestPlaces, Gated
  <2>5. Loading'
    BY <1>2 DEF Finish, Sampling, Loading, TypeOK, Threads, Places, RequestPlaces
  <2>6. Reference'
    BY <1>2 DEF Finish, Sampling, Reference, Loading, TypeOK, Threads, Places
  <2>7. OwnSettings'
    BY <1>2 DEF Finish, Sampling, OwnSettings, Inference, Engaged, Locked, Reference, Loading, TypeOK, Threads, Places
  <2>8. Reconfiguring'
    BY <1>2 DEF Finish, Sampling, Reconfiguring, TypeOK, Threads
  <2> QED
    BY <2>1, <2>2, <2>3, <2>4, <2>5, <2>6, <2>7, <2>8
<1> QED
  BY <1>1, <1>2

LEMMA LeaveKeeps ==
  ASSUME IInv, NEW r \in Requests, Leave(r), UNCHANGED kind
  PROVE  IInv'
<1> USE SlotsAssumption DEF IInv, At, Go, End, slotVars, managerVars, requestVars, adminVars
<1>1. TypeOK'
  BY DEF Leave, TypeOK, RequestPlaces, Threads
<1>2. Places'
  BY DEF Leave, Places, TypeOK, RequestPlaces, Threads, Gated, Locked
<1>3. Gate'
  BY DEF Leave, Gate, Holds, TypeOK, Threads, Places, Gated, Locked
<1>4. Inference'
  BY DEF Leave, Inference, Engaged, Locked, Places, TypeOK, Threads, RequestPlaces, Gated
<1>5. Loading'
  BY DEF Leave, Loading, TypeOK, Threads, Places, RequestPlaces
<1>6. Reference'
  BY DEF Leave, Reference, Loading, TypeOK, Threads, Places
<1>7. OwnSettings'
  BY DEF Leave, OwnSettings, Inference, Engaged, Locked, Reference, Loading, TypeOK, Threads, Places
<1>8. Reconfiguring'
  BY DEF Leave, Reconfiguring, TypeOK, Threads
<1> QED
  BY <1>1, <1>2, <1>3, <1>4, <1>5, <1>6, <1>7, <1>8

LEMMA ReleaseKeeps ==
  ASSUME IInv, NEW r \in Requests, Release(r), UNCHANGED kind
  PROVE  IInv'
<1> USE SlotsAssumption DEF IInv, At, Go, End, slotVars, managerVars, requestVars, adminVars
<1>1. TypeOK'
  BY DEF Release, TypeOK, RequestPlaces, Threads
<1>2. Places'
  BY DEF Release, Places, TypeOK, RequestPlaces, Threads, Gated, Locked
<1>3. Gate'
  BY DEF Release, Gate, Holds, TypeOK, Threads, Places, Gated, Locked
<1>4. Inference'
  BY DEF Release, Inference, Engaged, Locked, Places, TypeOK, Threads, RequestPlaces, Gated
<1>5. Loading'
  BY DEF Release, Loading, TypeOK, Threads, Places, RequestPlaces
<1>6. Reference'
  BY DEF Release, Reference, Loading, TypeOK, Threads, Places
<1>7. OwnSettings'
  BY DEF Release, OwnSettings, Inference, Engaged, Locked, Reference, Loading, TypeOK, Threads, Places
<1>8. Reconfiguring'
  BY DEF Release, Reconfiguring, TypeOK, Threads
<1> QED
  BY <1>1, <1>2, <1>3, <1>4, <1>5, <1>6, <1>7, <1>8

LEMMA StartKeeps ==
  ASSUME IInv, NEW a \in Admins, Start(a), UNCHANGED kind
  PROVE  IInv'
<1> USE SlotsAssumption DEF IInv, At, Go, End, slotVars, managerVars, requestVars, adminVars
<1>1. TypeOK'
  BY RegisteredAreSlots DEF Start, Tasks, TypeOK, RequestPlaces, Threads
<1>2. Places'
  BY RegisteredAreSlots DEF Start, Tasks, Places, TypeOK, RequestPlaces, Threads, Gated, Locked
<1>3. Gate'
  BY RegisteredAreSlots DEF Start, Tasks, Gate, Holds, TypeOK, Threads, Places, Gated, Locked
<1>4. Inference'
  BY RegisteredAreSlots DEF Start, Tasks, Inference, Engaged, Locked, Places, TypeOK, Threads, RequestPlaces, Gated
<1>5. Loading'
  BY RegisteredAreSlots DEF Start, Tasks, Loading, TypeOK, Threads, Places, RequestPlaces
<1>6. Reference'
  BY RegisteredAreSlots DEF Start, Tasks, Reference, Loading, TypeOK, Threads, Places
<1>7. OwnSettings'
  BY RegisteredAreSlots DEF Start, Tasks, OwnSettings, Inference, Engaged, Locked, Reference, Loading, TypeOK, Threads, Places
<1>8. Reconfiguring'
  BY RegisteredAreSlots DEF Start, Tasks, Reconfiguring, TypeOK, Threads
<1> QED
  BY <1>1, <1>2, <1>3, <1>4, <1>5, <1>6, <1>7, <1>8

LEMMA RescanKeeps ==
  ASSUME IInv, NEW a \in Admins, Rescan(a), UNCHANGED kind
  PROVE  IInv'
<1> USE SlotsAssumption DEF IInv, At, Go, End, slotVars, managerVars, requestVars, adminVars
<1>1. TypeOK'
  BY DEF Rescan, Turns, TypeOK, RequestPlaces, Threads
<1>2. Places'
  BY DEF Rescan, Turns, Places, TypeOK, RequestPlaces, Threads, Gated, Locked
<1>3. Gate'
  BY DEF Rescan, Turns, Gate, Holds, TypeOK, Threads, Places, Gated, Locked
<1>4. Inference'
  BY DEF Rescan, Turns, Inference, Engaged, Locked, Places, TypeOK, Threads, RequestPlaces, Gated
<1>5. Loading'
  BY DEF Rescan, Turns, Loading, TypeOK, Threads, Places, RequestPlaces
<1>6. Reference'
  BY DEF Rescan, Turns, Reference, Loading, TypeOK, Threads, Places
<1>7. OwnSettings'
  BY DEF Rescan, Turns, OwnSettings, Inference, Engaged, Locked, Reference, Loading, TypeOK, Threads, Places
<1>8. Reconfiguring'
  BY DEF Rescan, Turns, Reconfiguring, TypeOK, Threads
<1> QED
  BY <1>1, <1>2, <1>3, <1>4, <1>5, <1>6, <1>7, <1>8

LEMMA FinishedKeeps ==
  ASSUME IInv, NEW a \in Admins, Finished(a), UNCHANGED kind
  PROVE  IInv'
<1> USE SlotsAssumption DEF IInv, At, Go, End, slotVars, managerVars, requestVars, adminVars
<1>1. CASE task[a] = "reconfigure"
  <2>1. TypeOK'
    BY <1>1 DEF Finished, Turns, Reconfiguring, TypeOK, RequestPlaces, Threads
  <2>2. Places'
    BY <1>1 DEF Finished, Turns, Reconfiguring, Places, TypeOK, RequestPlaces, Threads, Gated, Locked
  <2>3. Gate'
    BY <1>1 DEF Finished, Turns, Reconfiguring, Gate, Holds, TypeOK, Threads, Places, Gated, Locked
  <2>4. Inference'
    BY <1>1 DEF Finished, Turns, Reconfiguring, Inference, Engaged, Locked, Places, TypeOK, Threads, RequestPlaces, Gated
  <2>5. Loading'
    BY <1>1 DEF Finished, Turns, Reconfiguring, Loading, TypeOK, Threads, Places, RequestPlaces
  <2>6. Reference'
    BY <1>1 DEF Finished, Turns, Reconfiguring, Reference, Loading, TypeOK, Threads, Places
  <2>7. OwnSettings'
    BY <1>1 DEF Finished, Turns, Reconfiguring, OwnSettings, Inference, Engaged, Locked, Reference, Loading, TypeOK, Threads, Places
  <2>8. Reconfiguring'
    BY <1>1 DEF Finished, Turns, Reconfiguring, Reconfiguring, TypeOK, Threads
  <2> QED
    BY <2>1, <2>2, <2>3, <2>4, <2>5, <2>6, <2>7, <2>8
<1>2. CASE task[a] # "reconfigure"
  <2>1. TypeOK'
    BY <1>2 DEF Finished, Turns, TypeOK, RequestPlaces, Threads
  <2>2. Places'
    BY <1>2 DEF Finished, Turns, Places, TypeOK, RequestPlaces, Threads, Gated, Locked
  <2>3. Gate'
    BY <1>2 DEF Finished, Turns, Gate, Holds, TypeOK, Threads, Places, Gated, Locked
  <2>4. Inference'
    BY <1>2 DEF Finished, Turns, Inference, Engaged, Locked, Places, TypeOK, Threads, RequestPlaces, Gated
  <2>5. Loading'
    BY <1>2 DEF Finished, Turns, Loading, TypeOK, Threads, Places, RequestPlaces
  <2>6. Reference'
    BY <1>2 DEF Finished, Turns, Reference, Loading, TypeOK, Threads, Places
  <2>7. OwnSettings'
    BY <1>2 DEF Finished, Turns, OwnSettings, Inference, Engaged, Locked, Reference, Loading, TypeOK, Threads, Places
  <2>8. Reconfiguring'
    BY <1>2 DEF Finished, Turns, Reconfiguring, TypeOK, Threads
  <2> QED
    BY <2>1, <2>2, <2>3, <2>4, <2>5, <2>6, <2>7, <2>8
<1> QED
  BY <1>1, <1>2

LEMMA SkipKeeps ==
  ASSUME IInv, NEW a \in Admins, NEW s \in Slots, Skip(a, s), UNCHANGED kind
  PROVE  IInv'
<1> USE SlotsAssumption DEF IInv, At, Go, End, slotVars, managerVars, requestVars, adminVars
<1>1. TypeOK'
  BY DEF Skip, Visiting, TypeOK, RequestPlaces, Threads
<1>2. Places'
  BY DEF Skip, Visiting, Places, TypeOK, RequestPlaces, Threads, Gated, Locked
<1>3. Gate'
  BY DEF Skip, Visiting, Gate, Holds, TypeOK, Threads, Places, Gated, Locked
<1>4. Inference'
  BY DEF Skip, Visiting, Inference, Engaged, Locked, Places, TypeOK, Threads, RequestPlaces, Gated
<1>5. Loading'
  BY DEF Skip, Visiting, Loading, TypeOK, Threads, Places, RequestPlaces
<1>6. Reference'
  BY DEF Skip, Visiting, Reference, Loading, TypeOK, Threads, Places
<1>7. OwnSettings'
  BY DEF Skip, Visiting, OwnSettings, Inference, Engaged, Locked, Reference, Loading, TypeOK, Threads, Places
<1>8. Reconfiguring'
  BY DEF Skip, Visiting, Reconfiguring, TypeOK, Threads
<1> QED
  BY <1>1, <1>2, <1>3, <1>4, <1>5, <1>6, <1>7, <1>8

LEMMA BeginUnloadKeeps ==
  ASSUME IInv, NEW a \in Admins, NEW s \in Slots, BeginUnload(a, s), UNCHANGED kind
  PROVE  IInv'
<1> USE SlotsAssumption DEF IInv, At, Go, End, slotVars, managerVars, requestVars, adminVars
<1>1. TypeOK'
  BY DEF BeginUnload, Visiting, TypeOK, RequestPlaces, Threads
<1>2. Places'
  BY DEF BeginUnload, Visiting, Places, TypeOK, RequestPlaces, Threads, Gated, Locked
<1>3. Gate'
  BY DEF BeginUnload, Visiting, Gate, Holds, TypeOK, Threads, Places, Gated, Locked
<1>4. Inference'
  BY DEF BeginUnload, Visiting, Inference, Engaged, Locked, Places, TypeOK, Threads, RequestPlaces, Gated
<1>5. Loading'
  BY DEF BeginUnload, Visiting, Loading, TypeOK, Threads, Places, RequestPlaces
<1>6. Reference'
  BY DEF BeginUnload, Visiting, Reference, Loading, TypeOK, Threads, Places
<1>7. OwnSettings'
  BY DEF BeginUnload, Visiting, OwnSettings, Inference, Engaged, Locked, Reference, Loading, TypeOK, Threads, Places
<1>8. Reconfiguring'
  BY DEF BeginUnload, Visiting, Reconfiguring, TypeOK, Threads
<1> QED
  BY <1>1, <1>2, <1>3, <1>4, <1>5, <1>6, <1>7, <1>8

LEMMA EndUnloadKeeps ==
  ASSUME IInv, NEW a \in Admins, NEW s \in Slots, EndUnload(a, s), UNCHANGED kind
  PROVE  IInv'
<1> USE SlotsAssumption DEF IInv, At, Go, End, slotVars, managerVars, requestVars, adminVars
<1>1. TypeOK'
  BY DEF EndUnload, TypeOK, RequestPlaces, Threads
<1>2. Places'
  BY DEF EndUnload, Places, TypeOK, RequestPlaces, Threads, Gated, Locked
<1>3. Gate'
  BY DEF EndUnload, Gate, Holds, TypeOK, Threads, Places, Gated, Locked
<1>4. Inference'
  BY DEF EndUnload, Inference, Engaged, Locked, Places, TypeOK, Threads, RequestPlaces, Gated
<1>5. Loading'
  BY DEF EndUnload, Loading, TypeOK, Threads, Places, RequestPlaces
<1>6. Reference'
  BY DEF EndUnload, Reference, Loading, TypeOK, Threads, Places
<1>7. OwnSettings'
  BY DEF EndUnload, OwnSettings, Inference, Engaged, Locked, Reference, Loading, TypeOK, Threads, Places
<1>8. Reconfiguring'
  BY DEF EndUnload, Reconfiguring, TypeOK, Threads
<1> QED
  BY <1>1, <1>2, <1>3, <1>4, <1>5, <1>6, <1>7, <1>8
-----------------------------------------------------------------------------
LEMMA Initial == Init => IInv
<1> SUFFICES ASSUME Init PROVE IInv
  OBVIOUS
<1> USE SlotsAssumption DEF Init
<1>1. TypeOK
  <2>1. 0 \in Turns(1)
    BY DEF Turns
  <2> QED
    BY <2>1 DEF TypeOK, RequestPlaces, Threads
<1>2. Places
  BY DEF Places, RequestPlaces, Threads, Gated, Locked
<1>3. Gate /\ Inference /\ Loading /\ Reference /\ OwnSettings
  BY DEF Gate, Holds, Inference, Engaged, Loading, Reference, OwnSettings, At, Threads
<1>4. Reconfiguring
  BY DEF Reconfiguring
<1> QED
  BY <1>1, <1>2, <1>3, <1>4 DEF IInv

LEMMA StutterKeeps ==
  ASSUME IInv, UNCHANGED vars
  PROVE  IInv'
<1> USE DEF IInv, vars, slotVars, managerVars, requestVars, adminVars
<1>1. TypeOK'
  BY DEF TypeOK
<1>2. Places' /\ Gate' /\ Inference'
  BY DEF Places, Gate, Holds, Inference, Engaged, Gated, Locked
<1>3. Loading' /\ Reference' /\ OwnSettings' /\ Reconfiguring'
  BY DEF Loading, Reference, OwnSettings, At, Reconfiguring
<1> QED
  BY <1>1, <1>2, <1>3

LEMMA Preserved == IInv /\ [Next]_vars => IInv'
<1> SUFFICES ASSUME IInv, [Next]_vars PROVE IInv'
  OBVIOUS
<1>1. ASSUME NEW r \in Requests, RequestStep(r) PROVE IInv'
  BY <1>1, NoModelKeeps, ResolveKeeps, WarmKeeps, EnsuredKeeps, LoadFailedBeforeKeeps,
     BeginLoadKeeps, EndLoadKeeps, UnsupportedKeeps, BusyKeeps, ClaimKeeps, EnterKeeps,
     TuneKeeps, TuneClosedKeeps, FinishKeeps, LeaveKeeps, ReleaseKeeps
  DEF RequestStep, Ask, Load, Run
<1>2. ASSUME NEW a \in Admins, AdminStep(a) PROVE IInv'
  BY <1>2, StartKeeps, RescanKeeps, FinishedKeeps, SkipKeeps, BeginUnloadKeeps, EndUnloadKeeps
  DEF AdminStep, Visit
<1> QED
  BY <1>1, <1>2, StutterKeeps DEF Next

\* The invariant the results below follow from.
THEOREM SlotsInductive == Spec => []IInv
<1>1. Init => IInv
  BY Initial
<1>2. IInv /\ [Next]_vars => IInv'
  BY Preserved
<1> QED
  BY <1>1, <1>2, PTL DEF Spec

\* Every field of the server keeps a value of its kind; the round-robin cursor
\* stays inside the registered group.
THEOREM SlotsTyped == Spec => []TypeOK
<1>1. IInv => TypeOK
  BY DEF IInv
<1> QED
  BY <1>1, SlotsInductive, PTL

\* Outside a load or an unload a replica looks loaded exactly when it has a model.
THEOREM StateIsTrue == Spec => []StateTellsTheModel
<1>1. IInv => StateTellsTheModel
  BY DEF IInv, Loading, StateTellsTheModel
<1> QED
  BY <1>1, SlotsInductive, PTL

\* A generation runs with exactly the engine settings it asked for, whoever used
\* the model before it and wherever that one failed.
THEOREM GenerationsTunedAlone == Spec => []OwnSettings
<1>1. IInv => OwnSettings
  BY DEF IInv
<1> QED
  BY <1>1, SlotsInductive, PTL

-----------------------------------------------------------------------------
(* Unloads and leases.                                                     *)

\* What a step does to the holders of a replica.
LEMMA HoldersAfter ==
  ASSUME TypeOK, Places, NEW r \in Requests, RequestStep(r)
  PROVE  \A q \in Requests \ {r} : (Holds(q)' <=> Holds(q)) /\ at'[q] = at[q]
<1> USE DEF Holds, At, Go, End, requestVars
<1>1. CASE Ask(r)
  BY <1>1 DEF TypeOK, Threads, RequestStep, Ask, NoModel, Resolve, Warm
<1>2. CASE Load(r)
  BY <1>2, LoadedCases DEF TypeOK, Threads, RequestStep, Load, Ensured, LoadFailedBefore, BeginLoad, EndLoad
<1>3. CASE Run(r)
  BY <1>3 DEF TypeOK, Threads, RequestStep, Run, Unsupported, Busy, Claim, Enter, Tune,
     TuneClosed, Finish, Leave, Release
<1> QED
  BY <1>1, <1>2, <1>3 DEF RequestStep

\* Only taking the gate and giving it back change who holds a replica.
LEMMA OthersLetNothing ==
  ASSUME TypeOK, Places, NEW r \in Requests, RequestStep(r), ~Claim(r), ~Release(r)
  PROVE  (Holds(r)' <=> Holds(r)) /\ (Holds(r) => at'[r] = at[r])
<1> USE DEF Holds, At, Go, End, requestVars
<1>1. CASE Ask(r)
  BY <1>1 DEF TypeOK, Threads, RequestStep, Ask, NoModel, Resolve, Warm
<1>2. CASE Ensured(r) \/ EndLoad(r)
  <2>1. pc[r] \notin {"enter", "tune", "using", "leave", "release"}
    BY <1>2 DEF Ensured, EndLoad
  <2>2. End(r) \/ (\E place \in {"claim", "enter", "using"} :
                     Go(r, place) /\ (place = "enter" => kind[r] = "decide")
                     /\ (place = "using" => kind[r] = "direct"))
    BY <1>2, LoadedCases DEF Ensured, EndLoad
  <2> QED
    BY <2>1, <2>2 DEF TypeOK, Threads, RequestStep
<1>3. CASE LoadFailedBefore(r) \/ BeginLoad(r)
  BY <1>3 DEF TypeOK, Threads, RequestStep, LoadFailedBefore, BeginLoad
<1>4. CASE Unsupported(r) \/ Busy(r) \/ Enter(r) \/ Tune(r) \/ TuneClosed(r)
  BY <1>4 DEF TypeOK, Threads, RequestStep, Unsupported, Busy, Enter, Tune, TuneClosed
<1>5. CASE Finish(r)
  BY <1>5 DEF TypeOK, Threads, RequestStep, Finish
<1>6. CASE Leave(r)
  BY <1>6 DEF TypeOK, Threads, RequestStep, Leave
<1> QED
  BY <1>1, <1>2, <1>3, <1>4, <1>5, <1>6 DEF RequestStep, Load, Run

\* An administrator lets nothing to anybody.
LEMMA AdminsLetNothing ==
  ASSUME TypeOK, NEW a \in Admins, AdminStep(a), NEW r \in Requests
  PROVE  (Holds(r)' <=> Holds(r)) /\ at'[r] = at[r]
<1>1. r # a
  BY SlotsAssumption
<1>2. pc'[r] = pc[r] /\ at' = at /\ kind' = kind
  BY <1>1 DEF TypeOK, Threads, AdminStep, Visit, Start, Rescan, Skip, BeginUnload,
     EndUnload, Finished, Go, requestVars
<1> QED
  BY <1>2 DEF Holds

LEMMA LettingStep ==
  ASSUME IInv, [Next]_vars
  PROVE  [Letting!LeaseNext]_Lettings
<1>1. ASSUME \A r \in Requests : (Holds(r)' <=> Holds(r)) /\ (Holds(r) => at'[r] = at[r])
      PROVE  Lettings' = Lettings
  <2>1. \A s \in Slots : Holders(s)' = Holders(s)
    BY <1>1 DEF Holders
  <2> QED
    BY <2>1 DEF Lettings
<1>2. ASSUME NEW r \in Requests, RequestStep(r), Claim(r)
      PROVE  Letting!Let(at[r], r) /\ at[r] \in Slots
  <2>1. at[r] \in Slots /\ at' = at /\ Holds(r)' /\ ~busy[at[r]]
    <3>1. pc[r] = "claim" /\ ~busy[at[r]] /\ at' = at /\ kind' = kind /\ Go(r, "enter")
      BY <1>2 DEF RequestStep, Claim, Claimable, At, requestVars
    <3>2. Gated(r) /\ at[r] \in Slots
      BY <3>1 DEF IInv, Places
    <3> QED
      BY <3>1, <3>2 DEF IInv, TypeOK, Threads, Go, Gated, Holds
  <2>2. \A q \in Requests : at[q] = at[r] => ~Holds(q)
    BY <2>1 DEF IInv, Gate
  <2>3. \A q \in Requests \ {r} : (Holds(q)' <=> Holds(q)) /\ at'[q] = at[q]
    BY <1>2, HoldersAfter DEF IInv
  <2>4. Holders(at[r]) = {}
    BY <2>2 DEF Holders
  <2>5. \A s \in Slots : Holders(s)' = IF s = at[r] THEN {r} ELSE Holders(s)
    BY <2>1, <2>2, <2>3 DEF Holders
  <2> QED
    BY <2>1, <2>4, <2>5 DEF Letting!Let, Lettings
<1>3. ASSUME NEW r \in Requests, RequestStep(r), Release(r)
      PROVE  Letting!GiveBack(at[r]) /\ at[r] \in Slots
  <2>1. at[r] \in Slots /\ Holds(r) /\ ~Holds(r)'
    BY <1>3 DEF IInv, Places, TypeOK, Threads, RequestStep, Release, At, Go, End, Holds, Gated
  <2>2. \A q \in Requests : Holds(q) /\ at[q] = at[r] => q = r
    BY <2>1 DEF IInv, Gate
  <2>3. \A q \in Requests \ {r} : (Holds(q)' <=> Holds(q)) /\ at'[q] = at[q]
    BY <1>3, HoldersAfter DEF IInv
  <2>4. Holders(at[r]) # {}
    BY <2>1 DEF Holders
  <2>5. \A s \in Slots : Holders(s)' = IF s = at[r] THEN {} ELSE Holders(s)
    BY <2>1, <2>2, <2>3 DEF Holders
  <2> QED
    BY <2>1, <2>4, <2>5 DEF Letting!GiveBack, Lettings
<1>4. ASSUME NEW r \in Requests, RequestStep(r)
      PROVE  Letting!LeaseNext \/ Lettings' = Lettings
  <2>1. CASE ~Claim(r) /\ ~Release(r)
    BY <1>1, <1>4, <2>1, OthersLetNothing, HoldersAfter DEF IInv
  <2> QED
    BY <1>2, <1>3, <1>4, <2>1 DEF Letting!LeaseNext
<1>5. ASSUME NEW a \in Admins, AdminStep(a) PROVE Lettings' = Lettings
  BY <1>1, <1>5, AdminsLetNothing DEF IInv
<1>6. CASE UNCHANGED vars
  BY <1>1, <1>6 DEF vars, requestVars, Holds
<1> QED
  BY <1>4, <1>5, <1>6 DEF Next

\* A replica is let to one request at a time: the server implements Lease.
THEOREM OneRequestPerReplica == Spec => LetToOne
<1>1. Init => Letting!LeaseInit
  BY DEF Init, Letting!LeaseInit, Lettings, Holders, Holds, Threads
<1>2. IInv /\ [Next]_vars => [Letting!LeaseNext]_Lettings
  BY LettingStep
<1> QED
  BY <1>1, <1>2, SlotsInductive, PTL DEF Spec, LetToOne, Letting!Spec

\* Who takes a load lock for an administrator: an unload that saw the gate open.
LEMMA UnloadStep ==
  ASSUME IInv, [Next]_vars, NEW s \in Slots,
         loader[s] \notin Admins, loader'[s] \in Admins
  PROVE  Holders(s) = {}
<1>1. PICK a \in Admins : \E q \in Slots : BeginUnload(a, q)
  <2>1. ASSUME NEW r \in Requests, RequestStep(r) PROVE FALSE
    BY <2>1, SlotsAssumption DEF IInv, TypeOK, Threads, RequestStep, Ask, Load, Run, NoModel, Resolve,
       Warm, Ensured, LoadFailedBefore, BeginLoad, EndLoad, Unsupported, Busy, Claim, Enter,
       Tune, TuneClosed, Finish, Leave, Release, slotVars
  <2>2. ASSUME NEW a \in Admins, AdminStep(a), ~\E q \in Slots : BeginUnload(a, q) PROVE FALSE
    BY <2>2, SlotsAssumption DEF IInv, TypeOK, AdminStep, Visit, Start, Rescan, Skip, EndUnload,
       Finished, slotVars
  <2> QED
    BY <2>1, <2>2 DEF Next, vars, slotVars
<1>2. BeginUnload(a, s)
  BY <1>1 DEF IInv, TypeOK, BeginUnload
<1>3. ~busy[s]
  BY <1>2 DEF BeginUnload, Unloadable
<1> QED
  BY <1>3 DEF IInv, Gate, Holders

\* No unload begins on a replica while a request generates on it.
THEOREM UnloadsSpareGenerations == Spec => UnloadsOnlyIdle
<1>1. IInv /\ [Next]_vars =>
        [\A s \in Slots :
           loader[s] \notin Admins /\ loader'[s] \in Admins => Holders(s) = {}]_vars
  BY UnloadStep
<1> QED
  BY <1>1, SlotsInductive, PTL DEF Spec, UnloadsOnlyIdle
=============================================================================

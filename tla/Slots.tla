------------------------------- MODULE Slots -------------------------------
(***************************************************************************)
(* The replicas of the HTTP server (slots.py): loading on demand, the busy *)
(* gate, the inference lock, and everything that closes a model while      *)
(* requests run - the idle sweep, the unload endpoint, a new configuration *)
(* and a rescan of the models folder.                                      *)
(*                                                                         *)
(* A request runs in a thread of its own: the pump of a stream, a worker   *)
(* of the thread pool, or the event loop itself. A lock is the thread that *)
(* holds it. A replica is <<generation of its group, place in it>>: a      *)
(* group that is replaced keeps its replicas, which threads may still use. *)
(*                                                                         *)
(* What a thread holds after ensure_loaded is a reference to a model; held *)
(* says whether somebody has closed that model since.                      *)
(*                                                                         *)
(* Left out: the text generated, the names of models (there is one), times *)
(* (a replica may have been idle long enough whenever the sweep looks),    *)
(* cancellation, which ends a bounded generation earlier.                  *)
(***************************************************************************)
EXTENDS Integers, FiniteSets

CONSTANTS
  Requests,   \* requests, each answered once
  Admins,     \* threads that unload, sweep, reconfigure or rescan
  Mixes,      \* Mixes: which endpoints the requests may come to
  Wish,       \* Wish[r]: the engine settings it asks for
  Last,       \* engine settings, 1..Last in the order they are reset
  Refusable,  \* those the engine may refuse to set
  Textual,    \* generations of the group whose model has a tokenizer
  Parallel,   \* Parallel[g]: replicas of group g (settings.parallel)
  MaxGroups,  \* bound: groups created by reconfigurations and rescans
  Jobs,       \* what the admins do
  Nobody

Kinds == {"generate", "score", "decide", "direct", "warm"}
Tasks == {"unload", "sweep", "reconfigure", "remove", "rescan"}

ASSUME SlotsAssumption ==
  /\ Mixes \subseteq [Requests -> Kinds]
  /\ Last \in Nat \ {0}
  /\ Wish \in [Requests -> SUBSET (1..Last)]
  /\ MaxGroups \in Nat \ {0}
  /\ Parallel \in [1..MaxGroups -> Nat \ {0}]
  /\ Requests \cap Admins = {}
  /\ Nobody \notin Requests \cup Admins
  /\ Jobs \subseteq Tasks

Sampling == 1   \* the setting a generation switches back when it is over

Threads == Requests \cup Admins
Turns(g) == 0..Parallel[g] - 1
Members(g) == {g} \X Turns(g)
Slots == UNION {Members(g) : g \in 1..MaxGroups}

VARIABLES
  state,    \* Slot._state
  model,    \* Slot._model is not None
  loader,   \* _load_cond: who holds it
  busy,     \* Slot._busy
  running,  \* _inference_lock: who holds it
  tuning,   \* engine settings switched on in the replica's model
  group,    \* the registered group (0: none)
  made,     \* groups created so far
  rr,       \* ModelGroup._rr
  manager,  \* SlotManager._lock: who holds it
  kind,     \* kind[r]: the endpoint of request r, which never changes
  pc,       \* where each thread is
  at,       \* the replica each request was given
  held,     \* what the request's reference points to: "none", "open", "closed"
  todo,     \* replicas an admin has still to visit
  task      \* what an admin is doing

slotVars    == <<state, model, loader, busy, running, tuning>>
managerVars == <<group, made, rr, manager>>
requestVars == <<at, held>>
adminVars   == <<todo, task>>
vars == <<slotVars, managerVars, kind, pc, requestVars, adminVars>>

At(t, place) == pc[t] = place
Go(t, place) == pc' = [pc EXCEPT ![t] = place]

\* The request is answered or refused; its thread keeps nothing.
End(r) ==
  /\ Go(r, "done")
  /\ at' = [at EXCEPT ![r] = Nobody]
  /\ held' = [held EXCEPT ![r] = "none"]

Registered == IF group = 0 THEN {} ELSE Members(group)

Init ==
  /\ state = [s \in Slots |-> "unloaded"]
  /\ model = [s \in Slots |-> FALSE]
  /\ loader = [s \in Slots |-> Nobody]
  /\ busy = [s \in Slots |-> FALSE]
  /\ running = [s \in Slots |-> Nobody]
  /\ tuning = [s \in Slots |-> {}]
  /\ group = 1
  /\ made = 1
  /\ rr = 0
  /\ manager = Nobody
  /\ kind \in Mixes
  /\ pc = [t \in Threads |-> "idle"]
  /\ at = [r \in Requests |-> Nobody]
  /\ held = [r \in Requests |-> "none"]
  /\ todo = [a \in Admins |-> {}]
  /\ task = [a \in Admins |-> "none"]
-----------------------------------------------------------------------------
(* Choosing a replica: resolve, pick_replica.                              *)

Ring(i) == <<group, (rr + i) % Parallel[group]>>

Idle(i)  == ~busy[Ring(i)]
Ready(i) == Idle(i) /\ state[Ring(i)] = "loaded"

\* pick_replica: the first one loaded and idle, else the first one idle, else
\* whoever is next.
Best(i) ==
  LET NoneBefore(n, P(_)) == \A j \in Turns(group) : j < n => ~P(j)
      None(P(_)) == NoneBefore(Parallel[group], P)
  IN \/ Ready(i) /\ NoneBefore(i, Ready)
     \/ None(Ready) /\ Idle(i) /\ NoneBefore(i, Idle)
     \/ None(Idle) /\ i = 0

NoModel(r) ==
  /\ At(r, "idle") /\ group = 0
  /\ kind[r] = "warm" \/ manager = Nobody
  /\ End(r)
  /\ UNCHANGED <<slotVars, managerVars, adminVars>>

Resolve(r) ==
  /\ At(r, "idle") /\ kind[r] # "warm" /\ manager = Nobody /\ group # 0
  /\ \E i \in Turns(group) : Best(i) /\ at' = [at EXCEPT ![r] = Ring(i)]
  /\ rr' = (rr + 1) % Parallel[group]
  /\ Go(r, "ensure")
  /\ UNCHANGED <<slotVars, group, made, manager, held, adminVars>>

\* The load endpoint and the background load take any replica, no lock.
Warm(r) ==
  /\ At(r, "idle") /\ kind[r] = "warm"
  /\ \E s \in Registered : at' = [at EXCEPT ![r] = s]
  /\ Go(r, "ensure")
  /\ UNCHANGED <<slotVars, managerVars, held, adminVars>>
-----------------------------------------------------------------------------
(* Loading: ensure_loaded.                                                 *)

\* The request has its model and goes on; loading was all a warm-up wanted.
Loaded(r) ==
  IF kind[r] = "warm" THEN End(r)
  ELSE /\ Go(r, IF kind[r] = "decide" THEN "enter"
                ELSE IF kind[r] = "direct" THEN "using" ELSE "claim")
       /\ held' = [held EXCEPT ![r] = "open"]
       /\ UNCHANGED at

Ensured(r) ==
  /\ At(r, "ensure") /\ loader[at[r]] = Nobody /\ state[at[r]] = "loaded"
  /\ Loaded(r)
  /\ UNCHANGED <<slotVars, managerVars, adminVars>>

LoadFailedBefore(r) ==
  /\ At(r, "ensure") /\ loader[at[r]] = Nobody /\ state[at[r]] = "failed"
  /\ End(r)
  /\ UNCHANGED <<slotVars, managerVars, adminVars>>

BeginLoad(r) ==
  /\ At(r, "ensure") /\ loader[at[r]] = Nobody /\ state[at[r]] = "unloaded"
  /\ loader' = [loader EXCEPT ![at[r]] = r]
  /\ state' = [state EXCEPT ![at[r]] = "loading"]
  /\ Go(r, "loading")
  /\ UNCHANGED <<model, busy, running, tuning, managerVars, requestVars, adminVars>>

EndLoad(r) ==
  /\ At(r, "loading")
  /\ loader' = [loader EXCEPT ![at[r]] = Nobody]
  /\ \/ /\ state' = [state EXCEPT ![at[r]] = "loaded"]
        /\ model' = [model EXCEPT ![at[r]] = TRUE]
        /\ tuning' = [tuning EXCEPT ![at[r]] = {}]
        /\ Loaded(r)
     \/ /\ state' = [state EXCEPT ![at[r]] = "failed"]
        /\ End(r)
        /\ UNCHANGED <<model, tuning>>
  /\ UNCHANGED <<busy, running, managerVars, adminVars>>
-----------------------------------------------------------------------------
(* Generating and scoring: SlotPrediction.run, Slot.score.                 *)

Textless(r) == kind[r] = "generate" /\ at[r][1] \notin Textual

Unsupported(r) ==
  /\ At(r, "claim") /\ Textless(r)
  /\ End(r)
  /\ UNCHANGED <<slotVars, managerVars, adminVars>>

\* Mutant: the gate is not looked at.
AlwaysClaimable(s) == TRUE

Claimable(s) == ~busy[s]

Busy(r) ==
  /\ At(r, "claim") /\ ~Textless(r) /\ ~Claimable(at[r])
  /\ End(r)
  /\ UNCHANGED <<slotVars, managerVars, adminVars>>

Claim(r) ==
  /\ At(r, "claim") /\ ~Textless(r) /\ Claimable(at[r])
  /\ busy' = [busy EXCEPT ![at[r]] = TRUE]
  /\ Go(r, "enter")
  /\ UNCHANGED <<state, model, loader, running, tuning, managerVars, requestVars, adminVars>>

Enter(r) ==
  /\ At(r, "enter") /\ running[at[r]] = Nobody
  /\ running' = [running EXCEPT ![at[r]] = r]
  /\ Go(r, IF kind[r] = "generate" THEN "tune" ELSE "using")
  /\ UNCHANGED <<state, model, loader, busy, tuning, managerVars, requestVars, adminVars>>

\* Mutant: a setting is made only when the request asks for it.
TunedIfAsked(r, n) ==
  tuning[at[r]] \cup {k \in Wish[r] : k <= n}

\* What the settings up to the n-th are once the request has reset them.
Tuned(r, n) ==
  {k \in tuning[at[r]] : k > n} \cup {k \in Wish[r] : k <= n}

\* _apply_sampling resets the settings one after the other; the engine may
\* refuse one, which leaves the rest as an earlier request set them.
Tune(r) ==
  /\ At(r, "tune") /\ held[r] = "open"
  /\ \/ /\ tuning' = [tuning EXCEPT ![at[r]] = Tuned(r, Last)]
        /\ Go(r, "using")
     \/ \E k \in Refusable \cap Wish[r] :
          /\ tuning' = [tuning EXCEPT ![at[r]] = Tuned(r, k - 1)]
          /\ Go(r, "leave")
  /\ UNCHANGED <<state, model, loader, busy, running, managerVars, requestVars, adminVars>>

TuneClosed(r) ==
  /\ At(r, "tune") /\ held[r] = "closed"
  /\ Go(r, "leave")
  /\ UNCHANGED <<slotVars, managerVars, requestVars, adminVars>>

\* The calls on the model are over: it answered, or it failed (a closed model
\* always does). A generation switches its sampling back; a request without
\* locks has nothing to give back.
Finish(r) ==
  /\ At(r, "using")
  /\ tuning' = IF kind[r] = "generate" /\ held[r] = "open"
               THEN [tuning EXCEPT ![at[r]] = @ \ {Sampling}] ELSE tuning
  /\ IF kind[r] = "direct" THEN End(r) ELSE Go(r, "leave") /\ UNCHANGED requestVars
  /\ UNCHANGED <<state, model, loader, busy, running, managerVars, adminVars>>

\* Mutant: the inference lock is not given back when the model failed.
LeaveLocked(r) ==
  /\ At(r, "leave")
  /\ running' = IF held[r] = "closed" THEN running
               ELSE [running EXCEPT ![at[r]] = Nobody]
  /\ IF kind[r] = "decide" THEN End(r) ELSE Go(r, "release") /\ UNCHANGED requestVars
  /\ UNCHANGED <<state, model, loader, busy, tuning, managerVars, adminVars>>

\* The inference lock first, the gate after it.
Leave(r) ==
  /\ At(r, "leave")
  /\ running' = [running EXCEPT ![at[r]] = Nobody]
  /\ IF kind[r] = "decide" THEN End(r) ELSE Go(r, "release") /\ UNCHANGED requestVars
  /\ UNCHANGED <<state, model, loader, busy, tuning, managerVars, adminVars>>

Release(r) ==
  /\ At(r, "release")
  /\ busy' = [busy EXCEPT ![at[r]] = FALSE]
  /\ End(r)
  /\ UNCHANGED <<state, model, loader, running, tuning, managerVars, adminVars>>
-----------------------------------------------------------------------------
(* Unloading: Slot.unload under unload_all, the sweep, reconfigure and     *)
(* refresh_from_folder.                                                    *)

\* All but the unload endpoint hold the manager's lock from start to end. A
\* group whose file is gone is dropped first.
Start(a) ==
  /\ At(a, "idle")
  /\ \E job \in Jobs \ {"rescan"} :
       /\ IF job = "unload" THEN group # 0 /\ UNCHANGED manager
                            ELSE manager = Nobody /\ manager' = a
       /\ job = "reconfigure" => made < MaxGroups
       /\ group' = IF job = "remove" THEN 0 ELSE group
       /\ task' = [task EXCEPT ![a] = job]
  /\ todo' = [todo EXCEPT ![a] = Registered]
  /\ Go(a, "visit")
  /\ UNCHANGED <<slotVars, made, rr, requestVars>>

\* The replicas are visited in the order of the list.
Visiting(a, s) ==
  /\ At(a, "visit") /\ s \in todo[a]
  /\ \A q \in todo[a] : s[2] <= q[2]

\* unload returns early; the sweep looks before it locks, and leaves alone a
\* replica that is not loaded or was used lately.
Skip(a, s) ==
  /\ Visiting(a, s)
  /\ \/ loader[s] = Nobody /\ busy[s]
     \/ task[a] = "sweep"
  /\ todo' = [todo EXCEPT ![a] = @ \ {s}]
  /\ UNCHANGED <<slotVars, managerVars, pc, requestVars, task>>

\* Mutant: unload does not look at the gate.
AlwaysUnloadable(s) == TRUE

Unloadable(s) == ~busy[s]

BeginUnload(a, s) ==
  /\ Visiting(a, s)
  /\ loader[s] = Nobody /\ Unloadable(s)
  /\ task[a] = "sweep" => state[s] = "loaded"
  /\ loader' = [loader EXCEPT ![s] = a]
  /\ Go(a, "close")
  /\ UNCHANGED <<state, model, busy, running, tuning, managerVars, requestVars, adminVars>>

\* Mutant: the model is not closed.
EndUnloadOpen(a, s) ==
  /\ At(a, "close") /\ loader[s] = a
  /\ state' = [state EXCEPT ![s] = "unloaded"]
  /\ loader' = [loader EXCEPT ![s] = Nobody]
  /\ todo' = [todo EXCEPT ![a] = @ \ {s}]
  /\ Go(a, "visit")
  /\ UNCHANGED <<model, busy, running, tuning, managerVars, requestVars, task>>

\* Whoever holds a reference to the model keeps it: a closed model.
EndUnload(a, s) ==
  /\ At(a, "close") /\ loader[s] = a
  /\ state' = [state EXCEPT ![s] = "unloaded"]
  /\ model' = [model EXCEPT ![s] = FALSE]
  /\ held' = [r \in Requests |->
                IF at[r] = s /\ held[r] = "open" THEN "closed" ELSE held[r]]
  /\ loader' = [loader EXCEPT ![s] = Nobody]
  /\ todo' = [todo EXCEPT ![a] = @ \ {s}]
  /\ Go(a, "visit")
  /\ UNCHANGED <<busy, running, tuning, managerVars, at, task>>

\* Mutant: the cursor of the old group is kept for the new one.
FinishedKeepsCursor(a) ==
  /\ At(a, "visit") /\ todo[a] = {}
  /\ IF task[a] = "reconfigure"
     THEN made' = made + 1 /\ group' = made + 1 /\ UNCHANGED rr
     ELSE UNCHANGED <<group, made, rr>>
  /\ manager' = IF manager = a THEN Nobody ELSE manager
  /\ task' = [task EXCEPT ![a] = "none"]
  /\ Go(a, "idle")
  /\ UNCHANGED <<slotVars, requestVars, todo>>

\* After the visits: a new configuration starts with a new group.
Finished(a) ==
  /\ At(a, "visit") /\ todo[a] = {}
  /\ IF task[a] = "reconfigure"
     THEN made' = made + 1 /\ group' = made + 1 /\ rr' = 0
     ELSE UNCHANGED <<group, made, rr>>
  /\ manager' = IF manager = a THEN Nobody ELSE manager
  /\ task' = [task EXCEPT ![a] = "none"]
  /\ Go(a, "idle")
  /\ UNCHANGED <<slotVars, requestVars, todo>>

\* _scan_folder looks a file up under its name with the extension while groups
\* are registered without it: with room for another model it registers the same
\* file again, in place of the group that is there.
Rescan(a) ==
  /\ At(a, "idle") /\ "rescan" \in Jobs /\ manager = Nobody /\ made < MaxGroups
  /\ made' = made + 1 /\ group' = made + 1 /\ rr' = 0
  /\ UNCHANGED <<slotVars, manager, pc, requestVars, adminVars>>
-----------------------------------------------------------------------------
Ask(r)  == NoModel(r) \/ Resolve(r) \/ Warm(r)
Load(r) == Ensured(r) \/ LoadFailedBefore(r) \/ BeginLoad(r) \/ EndLoad(r)
Run(r)  == \/ Unsupported(r) \/ Busy(r) \/ Claim(r) \/ Enter(r) \/ Tune(r)
           \/ TuneClosed(r) \/ Finish(r) \/ Leave(r) \/ Release(r)
Visit(a) ==
  \/ \E s \in Slots : Skip(a, s) \/ BeginUnload(a, s) \/ EndUnload(a, s)
  \/ Finished(a)

RequestStep(r) == (Ask(r) \/ Load(r) \/ Run(r)) /\ UNCHANGED kind
AdminStep(a)   == (Start(a) \/ Rescan(a) \/ Visit(a)) /\ UNCHANGED kind

Next ==
  \/ \E r \in Requests : RequestStep(r)
  \/ \E a \in Admins : AdminStep(a)

\* A thread that runs goes on; one that waits for a lock that is free again and
\* again gets it. Nothing obliges a request to come or an admin to start.
Fairness ==
  /\ \A r \in Requests : SF_vars(~At(r, "idle") /\ RequestStep(r))
  /\ \A a \in Admins : SF_vars(~At(a, "idle") /\ AdminStep(a))

Spec == Init /\ [][Next]_vars /\ Fairness
-----------------------------------------------------------------------------
RequestPlaces == {"idle", "ensure", "loading", "claim", "enter", "tune", "using",
                  "leave", "release", "done"}

TypeOK ==
  /\ state \in [Slots -> {"unloaded", "loading", "loaded", "failed"}]
  /\ model \in [Slots -> BOOLEAN] /\ busy \in [Slots -> BOOLEAN]
  /\ loader \in [Slots -> Threads \cup {Nobody}]
  /\ running \in [Slots -> Requests \cup {Nobody}]
  /\ tuning \in [Slots -> SUBSET (1..Last)]
  /\ group \in 0..made /\ made \in 1..MaxGroups
  /\ rr \in Nat /\ (group # 0 => rr \in Turns(group))
  /\ manager \in Admins \cup {Nobody}
  /\ pc \in [Threads -> RequestPlaces \cup {"visit", "close"}]
  /\ kind \in [Requests -> Kinds]
  /\ at \in [Requests -> Slots \cup {Nobody}]
  /\ held \in [Requests -> {"none", "open", "closed"}]
  /\ todo \in [Admins -> SUBSET Slots]
  /\ task \in [Admins -> Tasks \cup {"none"}]

\* The request has taken the gate of its replica and not given it back.
Holds(r) ==
  /\ kind[r] \in {"generate", "score"}
  /\ pc[r] \in {"enter", "tune", "using", "leave", "release"}

Holders(s) == {r \in Requests : at[r] = s /\ Holds(r)}
Lettings == [s \in Slots |-> Holders(s)]

\* A replica works for one request at a time, whatever loads, unloads, refusals
\* and failures come between.
Letting == INSTANCE Lease WITH holders <- Lettings
LetToOne == Letting!Spec

\* The engine settings live on the model and survive the request that made
\* them; a generation runs with exactly those it asked for, also after one that
\* failed between two settings.
OwnSettings ==
  \A r \in Requests :
    At(r, "using") /\ kind[r] = "generate" /\ held[r] = "open"
      => tuning[at[r]] = Wish[r]

\* When nobody is loading or unloading it, a replica says it is loaded exactly
\* when it has a model: no model stays open behind a replica that looks
\* unloaded or failed, and no request is handed a model that is not there.
StateTellsTheModel ==
  \A s \in Slots : loader[s] = Nobody => (state[s] = "loaded" <=> model[s])

\* No unload begins on a replica while a request generates on it.
UnloadsOnlyIdle ==
  [][\A s \in Slots :
       loader[s] \notin Admins /\ loader'[s] \in Admins => Holders(s) = {}]_vars

\* Every request is answered or refused, and every sweep, unload and
\* reconfiguration comes to its end: no lock is waited for for ever.
EveryCallEnds ==
  /\ \A r \in Requests : pc[r] # "idle" ~> pc[r] = "done"
  /\ \A a \in Admins : pc[a] # "idle" ~> pc[a] = "idle"

\* A generation never works on a model that was closed under it.
RunsOnOpenModel ==
  \A r \in Requests :
    At(r, "using") /\ kind[r] = "generate" => held[r] = "open"

\* A model that is open belongs to a replica the server still knows, so that a
\* later sweep or unload can reach it: what an unload skipped because it was
\* busy is closed once it is idle.
OpenModelsReachable ==
  manager = Nobody =>
    \A s \in Slots : model[s] /\ loader[s] = Nobody /\ ~busy[s] => s \in Registered
=============================================================================

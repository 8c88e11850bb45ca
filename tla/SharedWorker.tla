---------------------------- MODULE SharedWorker ----------------------------
(***************************************************************************)
(* The shared worker of the page (rustWorkerClient.ts, getSharedWorker and  *)
(* onSharedWorker): a singleton that is spawned on demand, evicted when it  *)
(* faults or fails to start, and retired after a large input once its last  *)
(* call settles.  A selected-file comparison runs several calls on it: it   *)
(* sends the support bundle unless the entry says the worker has it, asks   *)
(* for a persisted review, and falls back to the raw bytes; the worker      *)
(* runs reviews one at a time (withRuntimeExecutionLane) and keeps two      *)
(* bundles.                                                                 *)
(***************************************************************************)
EXTENDS Integers, Sequences, FiniteSets, SequencesExt

CONSTANTS
  Call,
  Key,          \* comparison support bundles
  Nil,
  MaxWorkers,   \* bound: workers spawned
  MaxFaults,    \* bound: faults and failed initializations
  MaxBundles    \* MAX_COMPARISON_SUPPORT_BUNDLES

ASSUME SharedAssumption ==
  /\ MaxWorkers \in Nat \ {0} /\ MaxFaults \in Nat /\ MaxBundles \in Nat \ {0}
  /\ IsFiniteSet(Call)
  /\ Nil \notin Call \cup Key

VARIABLES
  shared,      \* sharedWorker: the singleton's number, 0 for none
  spawned,     \* workers spawned so far
  ready,       \* worker -> the ready promise: pending, ok, failed
  faulted,     \* workers whose fault promise rejected
  terminated,  \* workers whose terminate() was called
  retiring,    \* retireWhenIdle
  inFlight,    \* SharedWorker.inFlight
  supportKey,  \* SharedWorker.supportCacheKey
  bundles,     \* worker side: keys it holds, oldest first
  lane,        \* worker side: reviews waiting for the lane, the first holds it
  pc,          \* where a call is
  on,          \* the worker a call runs on
  key,         \* the bundle it needs, Nil for a call that is no review
  large        \* it hands the worker at least SHARED_WORKER_RETIRE_INPUT_BYTES

entryVars == <<ready, faulted, terminated, retiring, inFlight, supportKey>>
workerVars == <<bundles, lane>>
callVars == <<pc, on, key, large>>
vars == <<shared, spawned, entryVars, workerVars, callVars>>

Workers == 1..MaxWorkers

\* idle; waiting for ready; a plain call; the bundle being cached, its reply;
\* the persisted review queued, running; the raw bytes loading; the raw review
\* queued, running; settled; done, or done with a bundle refusal.
Steps == {"idle", "starting", "working", "caching", "cached", "queued", "persisted",
          "loading", "queuedRaw", "raw", "settled", "refused", "done", "doneRefused"}
Pending == Steps \ {"idle", "done", "doneRefused"}

TypeOK ==
  /\ shared \in 0..MaxWorkers
  /\ spawned \in 0..MaxWorkers
  /\ ready \in [Workers -> {"pending", "ok", "failed"}]
  /\ faulted \subseteq Workers /\ terminated \subseteq Workers /\ retiring \subseteq Workers
  /\ inFlight \in [Workers -> 0..Cardinality(Call)]
  /\ supportKey \in [Workers -> Key \cup {Nil}]
  /\ bundles \in [Workers -> SeqOf(Key, MaxBundles)]
  /\ lane \in [Workers -> Seq(Call)]
  /\ pc \in [Call -> Steps]
  /\ on \in [Call -> 0..MaxWorkers]
  /\ key \in [Call -> Key \cup {Nil}]
  /\ large \subseteq Call

Init ==
  /\ shared = 0 /\ spawned = 0
  /\ ready = [i \in Workers |-> "pending"]
  /\ faulted = {} /\ terminated = {} /\ retiring = {}
  /\ inFlight = [i \in Workers |-> 0]
  /\ supportKey = [i \in Workers |-> Nil]
  /\ bundles = [i \in Workers |-> <<>>]
  /\ lane = [i \in Workers |-> <<>>]
  /\ pc = [c \in Call |-> "idle"]
  /\ on = [c \in Call |-> 0]
  /\ key = [c \in Call |-> Nil]
  /\ large = {}

Goto(c, step) == pc' = [pc EXCEPT ![c] = step]

-----------------------------------------------------------------------------
\* The singleton

\* A retiring worker takes no new call.
Current == IF shared \in retiring THEN 0 ELSE shared

Start(c, k, big) ==
  /\ pc[c] = "idle"
  /\ LET i == IF Current = 0 THEN spawned + 1 ELSE Current
     IN /\ i <= MaxWorkers
        /\ shared' = i
        /\ spawned' = IF Current = 0 THEN i ELSE spawned
        /\ inFlight' = [inFlight EXCEPT ![i] = @ + 1]
        /\ on' = [on EXCEPT ![c] = i]
  /\ key' = [key EXCEPT ![c] = k]
  /\ large' = IF big THEN large \cup {c} ELSE large
  /\ Goto(c, "starting")
  /\ UNCHANGED <<ready, faulted, terminated, retiring, supportKey, workerVars>>

\* evict: forget the singleton if it is this worker, terminate it once.
Evict(i) == /\ shared' = IF shared = i THEN 0 ELSE shared
            /\ terminated' = terminated \cup {i}

Running(i) == i <= spawned /\ i \notin terminated
Failures == Cardinality(faulted) + Cardinality({i \in Workers : ready[i] = "failed"} \ faulted)

Initialized(i) ==
  /\ Running(i) /\ ready[i] = "pending"
  /\ ready' = [ready EXCEPT ![i] = "ok"]
  /\ UNCHANGED <<shared, spawned, faulted, terminated, retiring, inFlight, supportKey,
                 workerVars, callVars>>

\* The module could not be fetched or compiled, or initializeRuntime refused.
InitializeFails(i) ==
  /\ Running(i) /\ ready[i] = "pending"
  /\ Failures < MaxFaults
  /\ ready' = [ready EXCEPT ![i] = "failed"]
  /\ Evict(i)
  /\ UNCHANGED <<spawned, faulted, retiring, inFlight, supportKey, workerVars, callVars>>

\* Worker.error or messageerror.
Fault(i) ==
  /\ Running(i)
  /\ Failures < MaxFaults
  /\ faulted' = faulted \cup {i}
  /\ ready' = [ready EXCEPT ![i] = IF @ = "pending" THEN "failed" ELSE @]
  /\ Evict(i)
  /\ UNCHANGED <<spawned, retiring, inFlight, supportKey, workerVars, callVars>>

-----------------------------------------------------------------------------
\* Steps of a call

\* The call is at this step, which its worker answers if it lives.
At(c, step) == pc[c] = step /\ Running(on[c])

\* Messages reach the worker in the order they are posted, so a review joins
\* the lane when it is posted; the one that holds the lane releases it.
Post(c, step) == /\ lane' = [lane EXCEPT ![on[c]] = Append(@, c)]
                 /\ Goto(c, step)
Holds(c) == lane[on[c]] # <<>> /\ Head(lane[on[c]]) = c
HasLane(c, step) == At(c, step) /\ Holds(c)
LeaveLane(c) == lane' = [lane EXCEPT ![on[c]] = Tail(@)]

HasWorker(c) == pc[c] = "starting" /\ ready[on[c]] = "ok" /\ on[c] \notin faulted

Proceed(c) ==
  /\ HasWorker(c)
  /\ IF key[c] = Nil
     THEN Goto(c, "working") /\ UNCHANGED lane
     ELSE IF supportKey[on[c]] = key[c]
     THEN Post(c, "queued")
     ELSE Goto(c, "caching") /\ UNCHANGED lane
  /\ UNCHANGED <<shared, spawned, entryVars, bundles, on, key, large>>

\* Map.delete of a key that may be there.
Deleted(held, k) ==
  IF k \in ToSet(held) THEN RemoveAt(held, CHOOSE n \in DOMAIN held : held[n] = k) ELSE held

\* The bundles after k was cached: newest last, the oldest dropped.
\* Mutant: one too many is dropped.
WithOneLess(held, k) ==
  LET s == Append(Deleted(held, k), k)
  IN IF Len(s) >= MaxBundles THEN Tail(s) ELSE s
With(held, k) ==
  LET s == Append(Deleted(held, k), k)
  IN IF Len(s) > MaxBundles THEN Tail(s) ELSE s

\* cacheComparisonSupportFiles hashes the bundle first, so two calls' bundles
\* arrive in either order.
Cache(c) ==
  /\ At(c, "caching")
  /\ bundles' = [bundles EXCEPT ![on[c]] = With(@, key[c])]
  /\ Goto(c, "cached")
  /\ UNCHANGED <<shared, spawned, entryVars, lane, on, key, large>>

Cached(c) ==
  /\ At(c, "cached")
  /\ supportKey' = [supportKey EXCEPT ![on[c]] = key[c]]
  /\ Post(c, "queued")
  /\ UNCHANGED <<shared, spawned, ready, faulted, terminated, retiring, inFlight,
                 bundles, on, key, large>>

\* cachedComparisonSupportFiles, once the lane is free: the bundle becomes the
\* newest; one that is gone is an error of the call.
Review(c, queued, running) ==
  /\ HasLane(c, queued)
  /\ IF key[c] \in ToSet(bundles[on[c]])
     THEN /\ bundles' = [bundles EXCEPT ![on[c]] = With(@, key[c])]
          /\ Goto(c, running)
          /\ UNCHANGED lane
     ELSE /\ Goto(c, "refused")
          /\ LeaveLane(c)
          /\ UNCHANGED bundles
  /\ UNCHANGED <<shared, spawned, entryVars, on, key, large>>

ReviewPersisted(c) == Review(c, "queued", "persisted")
ReviewRaw(c) == Review(c, "queuedRaw", "raw")

\* A verified persisted base answers, or the raw bytes are needed.
PersistedAnswers(c) ==
  /\ At(c, "persisted")
  /\ LeaveLane(c)
  /\ Goto(c, "settled") \/ Goto(c, "loading")
  /\ UNCHANGED <<shared, spawned, entryVars, bundles, on, key, large>>

LoadRaw(c) ==
  /\ pc[c] = "loading"
  /\ Post(c, "queuedRaw") \/ (Goto(c, "settled") /\ UNCHANGED lane)
  /\ UNCHANGED <<shared, spawned, entryVars, bundles, on, key, large>>

RawAnswers(c) ==
  /\ At(c, "raw")
  /\ LeaveLane(c)
  /\ Goto(c, "settled")
  /\ UNCHANGED <<shared, spawned, entryVars, bundles, on, key, large>>

WorkAnswers(c) ==
  /\ At(c, "working")
  /\ Goto(c, "settled")
  /\ UNCHANGED <<shared, spawned, entryVars, workerVars, on, key, large>>

\* The races with fault and ready: a dead worker's calls reject.
\* Mutant: a failed start is only seen through a fault.
RejectedByFault(c) == on[c] \in faulted
Rejected(c) == on[c] \in faulted \/ (pc[c] = "starting" /\ ready[on[c]] = "failed")

Rejectable(c) == pc[c] \in Pending \ {"settled", "refused"} /\ Rejected(c)

Reject(c) ==
  /\ Rejectable(c)
  /\ Goto(c, "settled")
  /\ UNCHANGED <<shared, spawned, entryVars, workerVars, on, key, large>>

\* onSharedWorker's finally.  Mutant: a worker that is no longer the singleton
\* is not retired.
RetiresShared(i, left, retire) == retire /\ left = 0 /\ i = shared
Settling(c) == pc[c] \in {"settled", "refused"}
Retires(i, left, retire) == retire /\ left = 0

Settle(c) ==
  /\ Settling(c)
  /\ LET i == on[c]
         left == inFlight[i] - 1
         retire == c \in large \/ i \in retiring
     IN /\ inFlight' = [inFlight EXCEPT ![i] = left]
        /\ retiring' = IF retire THEN retiring \cup {i} ELSE retiring
        /\ IF Retires(i, left, retire) THEN Evict(i) ELSE UNCHANGED <<shared, terminated>>
  /\ Goto(c, IF pc[c] = "refused" THEN "doneRefused" ELSE "done")
  /\ UNCHANGED <<spawned, ready, faulted, supportKey, workerVars, on, key, large>>

CallStep(c) ==
  \/ Proceed(c) \/ Cache(c) \/ Cached(c)
  \/ ReviewPersisted(c) \/ PersistedAnswers(c) \/ LoadRaw(c)
  \/ ReviewRaw(c) \/ RawAnswers(c) \/ WorkAnswers(c)
  \/ Reject(c) \/ Settle(c)

Next ==
  \/ \E c \in Call, k \in Key \cup {Nil}, big \in BOOLEAN : Start(c, k, big)
  \/ \E c \in Call : CallStep(c)
  \/ \E i \in Workers : Initialized(i) \/ InitializeFails(i) \/ Fault(i)

Spec == Init /\ [][Next]_vars

-----------------------------------------------------------------------------
\* Properties

CallsOn(i) == {c \in Call : on[c] = i /\ pc[c] \in Pending}

\* A worker lives exactly as long as somebody needs it: the singleton is never
\* a terminated worker, and one that stopped being the singleton ends when its
\* last call settles, so its WASM memory is given back.
NoWorkerLeaks ==
  /\ shared # 0 => shared \notin terminated
  /\ \A i \in 1..spawned : i # shared /\ CallsOn(i) = {} => i \in terminated

\* Whatever faults, fails or retires, no call hangs: it can step, or its worker
\* is starting, or a call that can step is before it in the lane.
CanStep(c) ==
  \/ HasWorker(c) \/ pc[c] = "loading"
  \/ \E step \in {"caching", "cached", "persisted", "raw", "working"} : At(c, step)
  \/ \E step \in {"queued", "queuedRaw"} : HasLane(c, step)
  \/ Rejectable(c) \/ Settling(c)
Starting(i) == Running(i) /\ ready[i] = "pending"
NobodyIsStuck ==
  \A c \in Call : pc[c] \in Pending =>
    \/ CanStep(c)
    \/ Starting(on[c])
    \/ /\ pc[c] \in {"queued", "queuedRaw"} /\ lane[on[c]] # <<>>
       /\ CanStep(Head(lane[on[c]]))

\* "unchanged support bytes cross the main-thread boundary only after a cache
\* miss" (rustWorkerClient.ts:1315-1319): a comparison finds the bundle it was
\* told is cached, or has cached, although others cache theirs meanwhile.  It
\* holds while no more than MaxBundles bundles are in use.
ComparisonFindsItsBundle == \A c \in Call : pc[c] # "refused"
=============================================================================

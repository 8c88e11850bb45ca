------------------------- MODULE SharedWorkerProofs -------------------------
(***************************************************************************)
(* Proofs about the shared worker of the page, for any number of calls,     *)
(* bundles, workers and faults: it lives exactly as long as somebody needs  *)
(* it, and no bundle is lost while the worker can keep all in use.          *)
(***************************************************************************)
EXTENDS SharedWorker, FiniteSetTheorems, SequenceTheorems, TLAPS

-----------------------------------------------------------------------------
(* The inductive invariant.                                                 *)

\* Only workers that were spawned are used, ended or retired.
Shape ==
  /\ spawned \in 0..MaxWorkers /\ shared \in 0..spawned
  /\ terminated \subseteq 1..spawned /\ retiring \subseteq 1..spawned
  /\ inFlight \in [Workers -> Nat]
  /\ pc \in [Call -> Steps] /\ on \in [Call -> 0..spawned]
  /\ \A c \in Call : pc[c] \in Pending => on[c] \in 1..spawned

\* inFlight counts the calls on a worker that have not settled.
Counted == \A i \in Workers : inFlight[i] = Cardinality(CallsOn(i))

\* The singleton lives; one that is to retire has calls to wait for.
SingletonServes ==
  /\ shared # 0 => shared \notin terminated
  /\ \A i \in retiring : i = shared => CallsOn(i) # {}

\* A worker that was replaced ends with its last call, which will see the
\* mark.
OthersEnd ==
  \A i \in 1..spawned :
    i # shared /\ i \notin terminated => i \in retiring /\ CallsOn(i) # {}

SharedInv == Shape /\ Counted /\ SingletonServes /\ OthersEnd

-----------------------------------------------------------------------------
(* Calls.                                                                   *)

\* A call belongs to the worker it runs on until it has settled.
LEMMA CallsOnFinite ==
  ASSUME NEW i
  PROVE  CallsOn(i) \subseteq Call /\ IsFiniteSet(CallsOn(i))
<1>1. CallsOn(i) \subseteq Call
  BY DEF CallsOn
<1> QED BY <1>1, SharedAssumption, FS_Subset

\* Until it settles a call goes from step to step on its worker, and changes
\* nothing that decides how long workers live.
LEMMA CallMoves ==
  ASSUME Shape, NEW c \in Call, CallStep(c), ~Settle(c)
  PROVE  /\ pc[c] \in Pending
         /\ \E step \in Pending : pc' = [pc EXCEPT ![c] = step]
         /\ UNCHANGED <<shared, spawned, terminated, retiring, inFlight, on>>
<1>1. {"caching", "cached", "queued", "persisted", "loading", "queuedRaw", "raw",
       "working", "settled", "refused", "starting"} \subseteq Pending
  BY DEF Pending, Steps
<1> DEFINE Moves ==
      /\ pc[c] \in Pending
      /\ \E step \in Pending : pc' = [pc EXCEPT ![c] = step]
      /\ UNCHANGED <<shared, spawned, terminated, retiring, inFlight, on>>
<1>2. Proceed(c) => Moves
  BY <1>1 DEF Proceed, HasWorker, Goto, Post, entryVars
<1>3. Cache(c) \/ Cached(c) => Moves
  BY <1>1 DEF Cache, Cached, At, Goto, Post, entryVars
<1>4. ReviewPersisted(c) \/ ReviewRaw(c) => Moves
  BY <1>1 DEF ReviewPersisted, ReviewRaw, Review, HasLane, At, Goto, entryVars
<1>5. PersistedAnswers(c) \/ LoadRaw(c) \/ RawAnswers(c) \/ WorkAnswers(c) => Moves
  BY <1>1 DEF PersistedAnswers, LoadRaw, RawAnswers, WorkAnswers, At, Goto, Post, entryVars
<1>6. Reject(c) => Moves
  BY <1>1 DEF Reject, Rejectable, Goto, entryVars
<1> QED BY <1>2, <1>3, <1>4, <1>5, <1>6 DEF CallStep

\* A call that moves stays where it is counted.
LEMMA MovingIsCounted ==
  ASSUME Shape, NEW c \in Call, pc[c] \in Pending, on' = on,
         NEW step \in Pending, pc' = [pc EXCEPT ![c] = step], NEW i
  PROVE  CallsOn(i)' = CallsOn(i)
<1>1. \A d \in Call : pc'[d] \in Pending <=> pc[d] \in Pending
  BY DEF Shape
<1> QED BY <1>1 DEF CallsOn

\* Steps between a call's start and its end keep the invariant.
LEMMA CallStepsKeepInv ==
  ASSUME SharedInv, NEW c \in Call, CallStep(c), ~Settle(c)
  PROVE  SharedInv'
<1>1. /\ Shape /\ pc[c] \in Pending
      /\ UNCHANGED <<shared, spawned, terminated, retiring, inFlight, on>>
  BY CallMoves DEF SharedInv
<1>2. PICK step \in Pending : pc' = [pc EXCEPT ![c] = step]
  BY CallMoves DEF SharedInv
<1>3. \A i : CallsOn(i)' = CallsOn(i)
  BY <1>1, <1>2, MovingIsCounted
<1>4. Shape'
  <2>1. pc' \in [Call -> Steps]
    BY <1>1, <1>2 DEF Shape, Pending
  <2>2. \A d \in Call : pc'[d] \in Pending => pc[d] \in Pending
    BY <1>1, <1>2 DEF Shape
  <2> QED BY <1>1, <2>1, <2>2 DEF Shape
<1>5. Counted' /\ SingletonServes' /\ OthersEnd'
  BY <1>1, <1>3 DEF SharedInv, Counted, SingletonServes, OthersEnd
<1> QED BY <1>4, <1>5 DEF SharedInv

-----------------------------------------------------------------------------
(* The first and the last step of a call.                                   *)

\* A call starts on the singleton, or on a new worker if there is none or it is
\* to retire, which then waits for its own calls.
LEMMA StartKeepsInv ==
  ASSUME SharedInv, NEW c \in Call, NEW k, NEW big, Start(c, k, big)
  PROVE  SharedInv'
<1>0. PICK i : i = IF Current = 0 THEN spawned + 1 ELSE Current
  OBVIOUS
<1>1. /\ pc[c] = "idle" /\ i <= MaxWorkers /\ shared' = i
      /\ spawned' = (IF Current = 0 THEN i ELSE spawned)
      /\ inFlight' = [inFlight EXCEPT ![i] = @ + 1]
      /\ on' = [on EXCEPT ![c] = i] /\ pc' = [pc EXCEPT ![c] = "starting"]
      /\ terminated' = terminated /\ retiring' = retiring
  BY <1>0 DEF Start, Goto
<1>2. /\ spawned \in Nat /\ MaxWorkers \in Nat /\ spawned <= MaxWorkers /\ shared \in 0..spawned
      /\ terminated \subseteq 1..spawned /\ retiring \subseteq 1..spawned
  BY SharedAssumption DEF SharedInv, Shape
<1>3. /\ i \in 1..spawned' /\ i \in Workers /\ spawned' \in 0..MaxWorkers
      /\ spawned <= spawned' /\ spawned' \in Nat
      /\ i \notin terminated /\ i \notin retiring
      /\ \A j \in 1..spawned' : j = i \/ j \in 1..spawned
  <2>1. CASE Current = 0
    BY <1>0, <1>1, <1>2, <2>1 DEF Workers
  <2>2. CASE Current # 0
    <3>1. Current = shared /\ shared \notin retiring /\ shared \notin terminated
      BY <2>2 DEF Current, SharedInv, SingletonServes
    <3> QED BY <1>0, <1>1, <1>2, <2>2, <3>1 DEF Workers
  <2> QED BY <2>1, <2>2
<1>4. shared # i /\ shared # 0 => shared \in retiring
  BY <1>0 DEF Current
<1>5. /\ "starting" \in Pending /\ "starting" \in Steps /\ "idle" \notin Pending
  BY DEF Pending, Steps
<1>6. /\ c \notin CallsOn(i) /\ CallsOn(i)' = CallsOn(i) \cup {c}
      /\ \A j : j # i => CallsOn(j)' = CallsOn(j)
  <2>1. /\ \A d \in Call : d # c => pc'[d] = pc[d] /\ on'[d] = on[d]
        /\ pc'[c] = "starting" /\ on'[c] = i
    BY <1>1 DEF SharedInv, Shape
  <2> QED BY <1>1, <1>5, <2>1 DEF CallsOn
<1>7. Shape'
  <2>1. inFlight' \in [Workers -> Nat]
    BY <1>1, <1>3 DEF SharedInv, Shape
  <2>2. pc' \in [Call -> Steps]
    BY <1>1, <1>5 DEF SharedInv, Shape
  <2>3. on' \in [Call -> 0..spawned']
    <3>1. \A d \in Call : on[d] \in 0..spawned'
      BY <1>2, <1>3 DEF SharedInv, Shape
    <3>2. i \in 0..spawned'
      BY <1>3
    <3>3. on \in [Call -> 0..spawned']
      BY <3>1 DEF SharedInv, Shape
    <3> QED BY <1>1, <3>2, <3>3
  <2>4. \A d \in Call : pc'[d] \in Pending => on'[d] \in 1..spawned'
    <3>1. \A d \in Call : d # c /\ pc'[d] \in Pending => on'[d] \in 1..spawned
      BY <1>1 DEF SharedInv, Shape
    <3>2. on'[c] = i
      BY <1>1 DEF SharedInv, Shape
    <3> QED BY <1>2, <1>3, <3>1, <3>2
  <2>5. /\ spawned' \in 0..MaxWorkers /\ shared' \in 0..spawned'
        /\ terminated' \subseteq 1..spawned' /\ retiring' \subseteq 1..spawned'
    BY <1>1, <1>2, <1>3
  <2> QED BY <2>1, <2>2, <2>3, <2>4, <2>5 DEF Shape
<1>8. Counted'
  <2>1. Cardinality(CallsOn(i) \cup {c}) = Cardinality(CallsOn(i)) + 1
    BY <1>6, CallsOnFinite, FS_AddElement
  <2>2. /\ inFlight[i] = Cardinality(CallsOn(i)) /\ inFlight'[i] = inFlight[i] + 1
        /\ \A j \in Workers : j # i => inFlight'[j] = inFlight[j]
    BY <1>1, <1>3 DEF SharedInv, Shape, Counted
  <2>3. \A j \in Workers : inFlight'[j] = Cardinality(CallsOn(j)')
    BY <1>6, <2>1, <2>2 DEF SharedInv, Counted
  <2> QED BY <2>3 DEF Counted
<1>9. SingletonServes'
  BY <1>1, <1>3 DEF SingletonServes
<1>10. OthersEnd'
  <2> SUFFICES ASSUME NEW j \in 1..spawned', j # i, j \notin terminated
               PROVE  j \in retiring /\ CallsOn(j)' # {}
    BY <1>1 DEF OthersEnd
  <2>1. j \in 1..spawned /\ CallsOn(j)' = CallsOn(j)
    BY <1>3, <1>6
  <2>2. CASE j = shared
    BY <1>2, <1>4, <2>1, <2>2 DEF SharedInv, SingletonServes
  <2>3. CASE j # shared
    BY <2>1, <2>3 DEF SharedInv, OthersEnd
  <2> QED BY <2>2, <2>3
<1> QED BY <1>7, <1>8, <1>9, <1>10 DEF SharedInv

\* The last call to settle on a worker that is to retire ends it, whether or not
\* it is still the singleton.
LEMMA SettleKeepsInv ==
  ASSUME SharedInv, NEW c \in Call, Settle(c)
  PROVE  SharedInv'
<1>0. PICK i : i = on[c]
  OBVIOUS
<1>1. PICK retire \in BOOLEAN : retire = (c \in large \/ i \in retiring)
  OBVIOUS
<1>2. /\ pc[c] \in Pending /\ i \in 1..spawned /\ i \in Workers /\ spawned \in Nat
      /\ inFlight' = [inFlight EXCEPT ![i] = inFlight[i] - 1]
      /\ spawned' = spawned /\ on' = on
  <2>1. pc[c] \in Pending
    BY DEF Settle, Settling, Pending, Steps
  <2>2. i \in 1..spawned /\ i \in Workers /\ spawned \in Nat
    BY <1>0, <2>1, SharedAssumption DEF SharedInv, Shape, Workers
  <2> QED BY <1>0, <2>1, <2>2 DEF Settle
<1>3. /\ retiring' = (IF retire THEN retiring \cup {i} ELSE retiring)
      /\ IF retire /\ inFlight[i] - 1 = 0 THEN Evict(i) ELSE UNCHANGED <<shared, terminated>>
  BY <1>0, <1>1 DEF Settle, Retires
<1>4. PICK step \in {"done", "doneRefused"} : pc' = [pc EXCEPT ![c] = step]
  BY DEF Settle, Goto
<1>5. step \notin Pending /\ step \in Steps
  BY DEF Pending, Steps
<1>6. /\ c \in CallsOn(i) /\ CallsOn(i)' = CallsOn(i) \ {c}
      /\ \A j : j # i => CallsOn(j)' = CallsOn(j)
  <2>1. /\ \A d \in Call : d # c => pc'[d] = pc[d]
        /\ pc'[c] \notin Pending
    BY <1>4, <1>5 DEF SharedInv, Shape
  <2> QED BY <1>0, <1>2, <2>1 DEF CallsOn
<1>7. /\ Cardinality(CallsOn(i) \ {c}) = inFlight[i] - 1 /\ inFlight[i] \in Nat
      /\ inFlight[i] - 1 \in Nat /\ (inFlight[i] - 1 = 0 <=> CallsOn(i) \ {c} = {})
  <2>1. IsFiniteSet(CallsOn(i)) /\ IsFiniteSet(CallsOn(i) \ {c})
    BY CallsOnFinite, FS_RemoveElement
  <2>2. Cardinality(CallsOn(i) \ {c}) = Cardinality(CallsOn(i)) - 1
    BY <1>6, <2>1, FS_RemoveElement
  <2>3. /\ Cardinality(CallsOn(i) \ {c}) \in Nat
        /\ Cardinality(CallsOn(i) \ {c}) = 0 <=> CallsOn(i) \ {c} = {}
    BY <2>1, FS_EmptySet, FS_CardinalityType
  <2>4. inFlight[i] = Cardinality(CallsOn(i)) /\ inFlight[i] \in Nat
    BY <1>2 DEF SharedInv, Counted, Shape
  <2> QED BY <2>2, <2>3, <2>4
<1>8. /\ shared \in 0..spawned /\ terminated \subseteq 1..spawned /\ retiring \subseteq 1..spawned
  BY DEF SharedInv, Shape
<1>9. /\ shared' \in 0..spawned /\ terminated' \subseteq 1..spawned /\ retiring' \subseteq 1..spawned
      /\ SingletonServes' /\ OthersEnd'
  <2>1. CASE retire /\ CallsOn(i) \ {c} = {}
    <3>1. /\ shared' = (IF shared = i THEN 0 ELSE shared) /\ terminated' = terminated \cup {i}
          /\ retiring' = retiring \cup {i}
      BY <1>3, <1>7, <2>1 DEF Evict
    <3>2. SingletonServes'
      BY <1>2, <1>6, <1>8, <3>1 DEF SharedInv, SingletonServes
    <3>3. OthersEnd'
      BY <1>2, <1>6, <3>1 DEF SharedInv, OthersEnd
    <3> QED BY <1>2, <1>8, <3>1, <3>2, <3>3
  <2>2. CASE ~(retire /\ CallsOn(i) \ {c} = {})
    <3>1. /\ shared' = shared /\ terminated' = terminated
          /\ retiring' = (IF retire THEN retiring \cup {i} ELSE retiring)
          /\ i \in retiring' => CallsOn(i)' # {}
      BY <1>1, <1>3, <1>6, <1>7, <2>2
    <3>2. SingletonServes'
      BY <1>6, <3>1 DEF SharedInv, SingletonServes
    <3>3. OthersEnd'
      BY <1>2, <1>6, <3>1 DEF SharedInv, OthersEnd
    <3> QED BY <1>2, <1>8, <3>1, <3>2, <3>3
  <2> QED BY <2>1, <2>2
<1>10. Counted'
  <2>1. /\ inFlight'[i] = inFlight[i] - 1
        /\ \A j \in Workers : j # i => inFlight'[j] = inFlight[j]
    BY <1>2 DEF SharedInv, Shape
  <2>2. \A j \in Workers : inFlight'[j] = Cardinality(CallsOn(j)')
    BY <1>6, <1>7, <2>1 DEF SharedInv, Counted
  <2> QED BY <2>2 DEF Counted
<1>11. Shape'
  <2>1. inFlight' \in [Workers -> Nat]
    BY <1>2, <1>7 DEF SharedInv, Shape
  <2>2. pc' \in [Call -> Steps] /\ \A d \in Call : pc'[d] \in Pending => pc[d] \in Pending
    BY <1>4, <1>5 DEF SharedInv, Shape
  <2> QED BY <1>2, <1>9, <2>1, <2>2 DEF SharedInv, Shape
<1> QED BY <1>9, <1>10, <1>11 DEF SharedInv

-----------------------------------------------------------------------------
(* Workers, and the theorem.                                                *)

\* A worker that fails is ended, and no longer the singleton.
LEMMA EvictKeepsInv ==
  ASSUME SharedInv, NEW i \in Workers, i <= spawned, Evict(i),
         UNCHANGED <<spawned, retiring, inFlight, pc, on>>
  PROVE  SharedInv'
<1>1. /\ shared' = (IF shared = i THEN 0 ELSE shared) /\ terminated' = terminated \cup {i}
  BY DEF Evict
<1>2. i \in 1..spawned
  BY DEF SharedInv, Shape, Workers
<1>3. \A j : CallsOn(j)' = CallsOn(j)
  BY DEF CallsOn
<1>4. Shape'
  BY <1>1, <1>2 DEF SharedInv, Shape
<1>5. Counted' /\ SingletonServes' /\ OthersEnd'
  BY <1>1, <1>2, <1>3 DEF SharedInv, Shape, Counted, SingletonServes, OthersEnd
<1> QED BY <1>4, <1>5 DEF SharedInv

\* Whatever faults, fails or retires, the worker in use is alive and no other
\* outlives its calls.
THEOREM SharedHolds == Spec => []SharedInv
<1>1. Init => SharedInv
  <2> SUFFICES ASSUME Init
               PROVE  SharedInv
    OBVIOUS
  <2>1. \A i : CallsOn(i) = {}
    BY DEF Init, CallsOn, Pending
  <2>2. Shape
    BY SharedAssumption DEF Init, Shape, Workers, Steps, Pending
  <2>3. Counted
    BY <2>1, FS_EmptySet DEF Init, Counted
  <2> QED BY <2>2, <2>3 DEF Init, SharedInv, SingletonServes, OthersEnd
<1>2. SharedInv /\ [Next]_vars => SharedInv'
  <2> SUFFICES ASSUME SharedInv, [Next]_vars
               PROVE  SharedInv'
    OBVIOUS
  <2>1. ASSUME NEW c \in Call, NEW k \in Key \cup {Nil}, NEW big \in BOOLEAN, Start(c, k, big)
        PROVE  SharedInv'
    BY <2>1, StartKeepsInv
  <2>2. ASSUME NEW c \in Call, CallStep(c)
        PROVE  SharedInv'
    BY <2>2, CallStepsKeepInv, SettleKeepsInv
  <2>3. ASSUME NEW i \in Workers, InitializeFails(i) \/ Fault(i)
        PROVE  SharedInv'
    BY <2>3, EvictKeepsInv DEF InitializeFails, Fault, Running, callVars
  <2>4. ASSUME UNCHANGED <<shared, spawned, terminated, retiring, inFlight, pc, on>>
        PROVE  SharedInv'
    <3>1. \A i : CallsOn(i)' = CallsOn(i)
      BY <2>4 DEF CallsOn
    <3> QED BY <2>4, <3>1
            DEF SharedInv, Shape, Counted, SingletonServes, OthersEnd
  <2>5. ASSUME NEW i \in Workers, Initialized(i)
        PROVE  SharedInv'
    BY <2>4, <2>5 DEF Initialized, callVars
  <2>6. CASE UNCHANGED vars
    BY <2>4, <2>6 DEF vars, entryVars, callVars
  <2> QED BY <2>1, <2>2, <2>3, <2>5, <2>6 DEF Next
<1> QED BY <1>1, <1>2, PTL DEF Spec

\* The singleton is never an ended worker, and a worker that stopped being the
\* singleton ends when its last call settles.
THEOREM NoLeaks == Spec => []NoWorkerLeaks
<1>1. SharedInv => NoWorkerLeaks
  BY DEF SharedInv, SingletonServes, OthersEnd, NoWorkerLeaks
<1> QED BY <1>1, SharedHolds, PTL

-----------------------------------------------------------------------------
(* The support bundles.                                                     *)

\* Deleting a key leaves the other bundles, once each.
LEMMA DeletedLeavesTheRest ==
  ASSUME NEW held \in Seq(Key), IsInjective(held), NEW k
  PROVE  /\ Deleted(held, k) \in Seq(Key) /\ IsInjective(Deleted(held, k))
         /\ ToSet(Deleted(held, k)) = ToSet(held) \ {k}
<1>1. CASE k \notin ToSet(held)
  BY <1>1 DEF Deleted
<1>2. CASE k \in ToSet(held)
  <2>1. \E n : n = CHOOSE m \in DOMAIN held : held[m] = k
    OBVIOUS
  <2>2. PICK n \in DOMAIN held : held[n] = k /\ Deleted(held, k) = RemoveAt(held, n)
    BY <1>2 DEF Deleted, ToSet
  <2>3. n \in 1..Len(held) /\ Len(held) \in Nat
    BY <2>2
  <2>4. PICK d : d = RemoveAt(held, n)
    OBVIOUS
  <2>5. /\ SubSeq(held, 1, n - 1) \in Seq(Key) /\ Len(SubSeq(held, 1, n - 1)) = n - 1
        /\ SubSeq(held, n + 1, Len(held)) \in Seq(Key)
        /\ Len(SubSeq(held, n + 1, Len(held))) = Len(held) - n
        /\ \A i \in 1..(n - 1) : SubSeq(held, 1, n - 1)[i] = held[i]
        /\ \A i \in 1..(Len(held) - n) : SubSeq(held, n + 1, Len(held))[i] = held[n + i]
    BY <2>3
  <2>6. /\ d \in Seq(Key) /\ Len(d) = Len(held) - 1
        /\ \A i \in 1..(n - 1) : d[i] = held[i]
        /\ \A i \in n..(Len(held) - 1) : d[i] = held[i + 1]
    <3>1. PICK a, b : a = SubSeq(held, 1, n - 1) /\ b = SubSeq(held, n + 1, Len(held))
      OBVIOUS
    <3>2. /\ a \in Seq(Key) /\ b \in Seq(Key) /\ Len(a) = n - 1 /\ Len(b) = Len(held) - n
          /\ \A i \in 1..(n - 1) : a[i] = held[i]
          /\ \A i \in 1..(Len(held) - n) : b[i] = held[n + i]
      BY <2>5, <3>1
    <3>3. d = a \o b
      BY <2>4, <3>1 DEF RemoveAt
    <3>4. d \in Seq(Key) /\ Len(d) = Len(held) - 1
      BY <2>3, <3>2, <3>3
    <3>5. \A i \in 1..(n - 1) : d[i] = a[i]
      BY <2>3, <3>2, <3>3
    <3>6. \A i \in n..(Len(held) - 1) : d[i] = b[i - (n - 1)]
      BY <2>3, <3>2, <3>3
    <3>7. ASSUME NEW i \in n..(Len(held) - 1) PROVE d[i] = held[i + 1]
      <4>1. i - (n - 1) \in 1..(Len(held) - n) /\ n + (i - (n - 1)) = i + 1
        BY <2>3, <3>7
      <4>2. b[i - (n - 1)] = held[n + (i - (n - 1))]
        BY <3>2, <4>1
      <4> QED BY <3>6, <3>7, <4>1, <4>2
    <3> QED BY <3>2, <3>4, <3>5, <3>7
  <2>7. DOMAIN d = 1..(Len(held) - 1) /\ DOMAIN held = 1..Len(held)
    BY <2>6
  <2> DEFINE Place(i) == IF i < n THEN i ELSE i + 1
  <2>8. \A i \in DOMAIN d : Place(i) \in DOMAIN held \ {n} /\ d[i] = held[Place(i)]
    BY <2>3, <2>6, <2>7
  <2>9. \A i, j \in DOMAIN d : Place(i) = Place(j) => i = j
    BY <2>3, <2>7
  <2>10. \A m \in DOMAIN held \ {n} : \E i \in DOMAIN d : Place(i) = m
    <3> SUFFICES ASSUME NEW m \in DOMAIN held \ {n}
                 PROVE  \E i \in DOMAIN d : Place(i) = m
      OBVIOUS
    <3>1. CASE m < n
      BY <2>3, <2>7, <3>1
    <3>2. CASE m > n
      <4>1. m - 1 \in DOMAIN d /\ Place(m - 1) = m
        BY <2>3, <2>7, <3>2
      <4> QED BY <4>1
    <3> QED BY <2>3, <2>7, <3>1, <3>2
  <2> HIDE DEF Place
  <2>11. IsInjective(d)
    BY <2>8, <2>9 DEF IsInjective
  <2>12. \A m \in DOMAIN held : held[m] = k => m = n
    BY <2>2 DEF IsInjective
  <2>13. ToSet(d) \subseteq ToSet(held) \ {k}
    BY <2>8, <2>12 DEF ToSet
  <2>14. ToSet(held) \ {k} \subseteq ToSet(d)
    BY <2>2, <2>8, <2>10 DEF ToSet
  <2> QED BY <2>2, <2>4, <2>6, <2>11, <2>13, <2>14
<1> QED BY <1>1, <1>2

\* A sequence without duplicates is no longer than what it is drawn from.
LEMMA NoDuplicatesFit ==
  ASSUME IsFiniteSet(Key), NEW s \in Seq(Key), IsInjective(s)
  PROVE  Len(s) <= Cardinality(Key)
<1>1. s \in Injection(1..Len(s), Key)
  BY DEF Injection
<1>2. Cardinality(1..Len(s)) <= Cardinality(Key)
  BY <1>1, FS_Injection
<1>3. Cardinality(1..Len(s)) = Len(s)
  <2>1. Len(s) \in Nat
    OBVIOUS
  <2>2. Cardinality(1..Len(s)) = IF 1 > Len(s) THEN 0 ELSE Len(s) - 1 + 1
    BY <2>1, FS_Interval
  <2> QED BY <2>1, <2>2
<1> QED BY <1>2, <1>3

FewBundles == IsFiniteSet(Key) /\ Cardinality(Key) <= MaxBundles

\* While the worker can keep every bundle in use, caching one drops none.
LEMMA WithDropsNone ==
  ASSUME FewBundles, NEW held \in Seq(Key), IsInjective(held), NEW k \in Key
  PROVE  /\ With(held, k) \in Seq(Key) /\ IsInjective(With(held, k))
         /\ ToSet(With(held, k)) = ToSet(held) \cup {k}
<1>1. PICK d : d = Deleted(held, k)
  OBVIOUS
<1>2. d \in Seq(Key) /\ IsInjective(d) /\ ToSet(d) = ToSet(held) \ {k}
  BY <1>1, DeletedLeavesTheRest
<1>3. PICK s : s = Append(d, k)
  OBVIOUS
<1>4. /\ s \in Seq(Key) /\ Len(s) = Len(d) + 1 /\ s[Len(d) + 1] = k
      /\ \A i \in 1..Len(d) : s[i] = d[i]
      /\ DOMAIN s = 1..(Len(d) + 1) /\ DOMAIN d = 1..Len(d) /\ Len(d) \in Nat
  BY <1>2, <1>3
<1>5. \A i \in DOMAIN d : d[i] # k
  BY <1>2 DEF ToSet
<1>6. \A i \in DOMAIN s : (i \in DOMAIN d /\ s[i] = d[i]) \/ (i = Len(d) + 1 /\ s[i] = k)
  BY <1>4
<1>7. IsInjective(s)
  BY <1>2, <1>5, <1>6 DEF IsInjective
<1>8. ToSet(s) = ToSet(held) \cup {k}
  <2>1. ToSet(s) \subseteq ToSet(d) \cup {k}
    BY <1>6 DEF ToSet
  <2>2. DOMAIN d \subseteq DOMAIN s /\ Len(d) + 1 \in DOMAIN s
    BY <1>4
  <2>3. ToSet(d) \cup {k} \subseteq ToSet(s)
    BY <1>4, <2>2 DEF ToSet
  <2> QED BY <1>2, <2>1, <2>3
<1>9. ~(Len(s) > MaxBundles)
  <2>1. Len(s) <= Cardinality(Key)
    BY <1>4, <1>7, NoDuplicatesFit DEF FewBundles
  <2>2. Cardinality(Key) \in Nat /\ Len(s) \in Nat /\ MaxBundles \in Nat
    BY <1>4, FS_CardinalityType, SharedAssumption DEF FewBundles
  <2> QED BY <2>1, <2>2 DEF FewBundles
<1>10. With(held, k) = s
  BY <1>1, <1>3, <1>9 DEF With
<1> QED BY <1>4, <1>7, <1>8, <1>10

\* The steps at which a comparison relies on its bundle.
Relying == {"cached", "queued", "persisted", "loading", "queuedRaw", "raw"}

\* The worker holds the bundle the page remembers, and that of each comparison
\* that was told so or cached it.
BundlesTyped ==
  /\ bundles \in [Workers -> Seq(Key)] /\ \A i \in Workers : IsInjective(bundles[i])
  /\ supportKey \in [Workers -> Key \cup {Nil}]
  /\ key \in [Call -> Key \cup {Nil}]
BundlesKept ==
  /\ \A i \in Workers : supportKey[i] # Nil => supportKey[i] \in ToSet(bundles[i])
  /\ \A c \in Call : pc[c] = "caching" => key[c] # Nil
  /\ \A c \in Call : pc[c] \in Relying => key[c] \in ToSet(bundles[on[c]])
BundlesInv == BundlesTyped /\ BundlesKept /\ ComparisonFindsItsBundle

\* A call moves to a step for which its bundle is there, and no bundle goes.
LEMMA CallKeepsBundles ==
  ASSUME SharedInv, BundlesInv, NEW c \in Call, NEW step \in Steps \ {"refused"},
         pc' = [pc EXCEPT ![c] = step], UNCHANGED <<on, key>>,
         BundlesTyped',
         \A i \in Workers : ToSet(bundles[i]) \subseteq ToSet(bundles'[i]),
         \A i \in Workers : supportKey'[i] \in {supportKey[i], Nil} \cup ToSet(bundles[i]),
         step = "caching" => key[c] # Nil,
         step \in Relying => key[c] \in ToSet(bundles'[on[c]])
  PROVE  BundlesInv'
<1>1. pc \in [Call -> Steps] /\ \A d \in Call : pc[d] \in Relying => on[d] \in Workers
  <2>1. 1..spawned \subseteq Workers
    BY SharedAssumption DEF SharedInv, Shape, Workers
  <2>2. Relying \subseteq Pending
    BY DEF Relying, Pending, Steps
  <2> QED BY <2>1, <2>2 DEF SharedInv, Shape
<1>2. \A d \in Call : d # c => pc'[d] = pc[d]
  BY <1>1
<1>3. pc'[c] = step
  BY <1>1
<1>4. ComparisonFindsItsBundle'
  BY <1>2, <1>3 DEF ComparisonFindsItsBundle, BundlesInv
<1>5. \A i \in Workers : supportKey'[i] # Nil => supportKey'[i] \in ToSet(bundles'[i])
  BY DEF BundlesInv, BundlesKept
<1>6. \A d \in Call : pc'[d] = "caching" => key[d] # Nil
  BY <1>2, <1>3 DEF BundlesInv, BundlesKept
<1>7. \A d \in Call : pc'[d] \in Relying => key[d] \in ToSet(bundles'[on[d]])
  <2> SUFFICES ASSUME NEW d \in Call, pc'[d] \in Relying PROVE key[d] \in ToSet(bundles'[on[d]])
    OBVIOUS
  <2>1. CASE d = c
    BY <1>3, <2>1
  <2>2. CASE d # c
    BY <1>1, <1>2, <2>2 DEF BundlesInv, BundlesKept
  <2> QED BY <2>1, <2>2
<1> QED BY <1>4, <1>5, <1>6, <1>7 DEF BundlesInv, BundlesKept

\* Caching or using a bundle drops none.
LEMMA WithOnWorker ==
  ASSUME FewBundles, BundlesInv, UNCHANGED <<supportKey, key>>,
         NEW i \in Workers, NEW k \in Key, bundles' = [bundles EXCEPT ![i] = With(@, k)]
  PROVE  /\ BundlesTyped' /\ k \in ToSet(bundles'[i])
         /\ \A j \in Workers : ToSet(bundles[j]) \subseteq ToSet(bundles'[j])
<1>1. PICK s : s = With(bundles[i], k)
  OBVIOUS
<1>2. s \in Seq(Key) /\ IsInjective(s) /\ ToSet(s) = ToSet(bundles[i]) \cup {k}
  BY <1>1, WithDropsNone DEF BundlesInv, BundlesTyped
<1>3. bundles' = [bundles EXCEPT ![i] = s]
  BY <1>1
<1>4. bundles'[i] = s /\ \A j \in Workers : j # i => bundles'[j] = bundles[j]
  BY <1>3 DEF BundlesInv, BundlesTyped
<1>5. BundlesTyped'
  BY <1>2, <1>3, <1>4 DEF BundlesInv, BundlesTyped
<1>6. \A j \in Workers : ToSet(bundles[j]) \subseteq ToSet(bundles'[j])
  BY <1>2, <1>4
<1> QED BY <1>2, <1>4, <1>5, <1>6

LEMMA BundlesStep ==
  ASSUME FewBundles, SharedInv, SharedInv', BundlesInv, [Next]_vars
  PROVE  BundlesInv'
<1>0. /\ pc \in [Call -> Steps] /\ on \in [Call -> Nat] /\ spawned <= MaxWorkers
      /\ \A d \in Call : pc[d] \in Pending => on[d] \in Workers
  BY SharedAssumption DEF SharedInv, Shape, Workers
<1>1. ASSUME NEW c \in Call, UNCHANGED <<bundles, supportKey, on, key>>,
             NEW step \in Steps \ {"refused"}, pc' = [pc EXCEPT ![c] = step],
             step = "caching" => key[c] # Nil,
             step \in Relying => key[c] \in ToSet(bundles[on[c]])
      PROVE  BundlesInv'
  <2>1. BundlesTyped'
    BY <1>1 DEF BundlesInv, BundlesTyped
  <2> QED BY <1>1, <2>1, CallKeepsBundles
<1>2. ASSUME NEW c \in Call, NEW k \in Key \cup {Nil}, NEW big \in BOOLEAN, Start(c, k, big)
      PROVE  BundlesInv'
  <2>1. /\ pc' = [pc EXCEPT ![c] = "starting"] /\ key' = [key EXCEPT ![c] = k]
        /\ \E i : on' = [on EXCEPT ![c] = i]
        /\ UNCHANGED <<bundles, supportKey>>
    BY <1>2 DEF Start, Goto, workerVars
  <2>2. BundlesTyped'
    BY <2>1 DEF BundlesInv, BundlesTyped
  <2>3. pc'[c] = "starting" /\ \A d \in Call : d # c => pc'[d] = pc[d] /\ on'[d] = on[d] /\ key'[d] = key[d]
    BY <1>0, <2>1 DEF BundlesInv, BundlesTyped
  <2> QED BY <2>1, <2>2, <2>3 DEF BundlesInv, BundlesKept, ComparisonFindsItsBundle, Relying
<1>3. ASSUME NEW c \in Call, Proceed(c)
      PROVE  BundlesInv'
  <2>1. UNCHANGED <<bundles, supportKey, on, key>> /\ on[c] \in Workers
    BY <1>0, <1>3 DEF Proceed, HasWorker, entryVars, Pending, Steps
  <2>2. CASE key[c] = Nil
    BY <1>1, <1>3, <2>1, <2>2 DEF Proceed, Goto, Steps, Relying
  <2>3. CASE key[c] # Nil /\ supportKey[on[c]] = key[c]
    <3>1. pc' = [pc EXCEPT ![c] = "queued"]
      BY <1>3, <2>3 DEF Proceed, Post, Goto
    <3>2. key[c] \in ToSet(bundles[on[c]])
      BY <2>1, <2>3 DEF BundlesInv, BundlesKept
    <3> QED BY <1>1, <2>1, <3>1, <3>2 DEF Steps
  <2>4. CASE key[c] # Nil /\ supportKey[on[c]] # key[c]
    BY <1>1, <1>3, <2>1, <2>4 DEF Proceed, Goto, Steps, Relying
  <2> QED BY <2>2, <2>3, <2>4
<1>4. ASSUME NEW c \in Call, Cache(c)
      PROVE  BundlesInv'
  <2>1. /\ pc[c] = "caching" /\ UNCHANGED <<supportKey, on, key>>
        /\ pc' = [pc EXCEPT ![c] = "cached"]
        /\ bundles' = [bundles EXCEPT ![on[c]] = With(@, key[c])]
    BY <1>4 DEF Cache, At, Goto, entryVars
  <2>2. on[c] \in Workers /\ key[c] \in Key
    BY <1>0, <2>1 DEF Pending, Steps, BundlesInv, BundlesKept, BundlesTyped
  <2>3. /\ BundlesTyped' /\ key[c] \in ToSet(bundles'[on[c]])
        /\ \A j \in Workers : ToSet(bundles[j]) \subseteq ToSet(bundles'[j])
    BY <2>1, <2>2, WithOnWorker
  <2> QED BY <2>1, <2>3, CallKeepsBundles DEF Steps
<1>5. ASSUME NEW c \in Call, Cached(c)
      PROVE  BundlesInv'
  <2>1. /\ pc[c] = "cached" /\ UNCHANGED <<bundles, on, key>>
        /\ pc' = [pc EXCEPT ![c] = "queued"]
        /\ supportKey' = [supportKey EXCEPT ![on[c]] = key[c]]
    BY <1>5 DEF Cached, At, Post, Goto
  <2>2. on[c] \in Workers /\ key[c] \in ToSet(bundles[on[c]])
    BY <1>0, <2>1 DEF Pending, Steps, BundlesInv, BundlesKept, Relying
  <2>3. BundlesTyped'
    BY <2>1 DEF BundlesInv, BundlesTyped
  <2>4. \A i \in Workers : supportKey'[i] \in {supportKey[i], Nil} \cup ToSet(bundles[i])
    BY <2>1, <2>2 DEF BundlesInv, BundlesTyped
  <2> QED BY <2>1, <2>2, <2>3, <2>4, CallKeepsBundles DEF Steps
<1>6. ASSUME NEW c \in Call, NEW queued \in Relying, NEW running \in Relying, Review(c, queued, running)
      PROVE  BundlesInv'
  <2>1. pc[c] \in Relying /\ key[c] \in ToSet(bundles[on[c]]) /\ UNCHANGED <<supportKey, on, key>>
    BY <1>6 DEF Review, HasLane, At, BundlesInv, BundlesKept, entryVars
  <2>2. /\ pc' = [pc EXCEPT ![c] = running]
        /\ bundles' = [bundles EXCEPT ![on[c]] = With(@, key[c])]
    BY <1>6, <2>1 DEF Review, Goto
  <2>3. on[c] \in Workers
    BY <1>0, <2>1 DEF Pending, Steps, Relying
  <2>4. key[c] \in Key
    BY <2>1, <2>3 DEF BundlesInv, BundlesTyped, ToSet
  <2>5. /\ BundlesTyped' /\ key[c] \in ToSet(bundles'[on[c]])
        /\ \A j \in Workers : ToSet(bundles[j]) \subseteq ToSet(bundles'[j])
    BY <2>1, <2>2, <2>3, <2>4, WithOnWorker
  <2> QED BY <1>6, <2>1, <2>2, <2>5, CallKeepsBundles DEF Steps, Relying
<1>7. ASSUME NEW c \in Call, PersistedAnswers(c) \/ LoadRaw(c) \/ RawAnswers(c)
      PROVE  BundlesInv'
  <2>1. /\ pc[c] \in Relying /\ UNCHANGED <<bundles, supportKey, on, key>>
        /\ \E step \in {"settled", "loading", "queuedRaw"} : pc' = [pc EXCEPT ![c] = step]
    BY <1>7 DEF PersistedAnswers, LoadRaw, RawAnswers, At, Goto, Post, entryVars, Relying
  <2>2. key[c] \in ToSet(bundles[on[c]])
    BY <2>1 DEF BundlesInv, BundlesKept
  <2> QED BY <1>1, <2>1, <2>2 DEF Steps
<1>8. ASSUME NEW c \in Call, WorkAnswers(c) \/ Reject(c)
      PROVE  BundlesInv'
  <2>1. UNCHANGED <<bundles, supportKey, on, key>> /\ pc' = [pc EXCEPT ![c] = "settled"]
    BY <1>8 DEF WorkAnswers, Reject, Goto, entryVars, workerVars
  <2> QED BY <1>1, <2>1 DEF Steps, Relying
<1>9. ASSUME NEW c \in Call, Settle(c)
      PROVE  BundlesInv'
  <2>1. UNCHANGED <<bundles, supportKey, on, key>>
        /\ \E step \in {"done", "doneRefused"} : pc' = [pc EXCEPT ![c] = step]
    BY <1>9 DEF Settle, Goto, workerVars
  <2> QED BY <1>1, <2>1 DEF Steps, Relying
<1>10. ASSUME UNCHANGED <<bundles, supportKey, pc, on, key>>
       PROVE  BundlesInv'
  BY <1>10 DEF BundlesInv, BundlesTyped, BundlesKept, ComparisonFindsItsBundle
<1>11. ASSUME NEW i \in Workers, Initialized(i) \/ InitializeFails(i) \/ Fault(i)
       PROVE  BundlesInv'
  BY <1>10, <1>11 DEF Initialized, InitializeFails, Fault, workerVars, callVars
<1>12. CASE UNCHANGED vars
  BY <1>10, <1>12 DEF vars, entryVars, workerVars, callVars
<1>13. ASSUME NEW c \in Call, CallStep(c)
       PROVE  BundlesInv'
  <2>1. ReviewPersisted(c) \/ ReviewRaw(c) => BundlesInv'
    BY <1>6 DEF ReviewPersisted, ReviewRaw, Relying
  <2> QED BY <1>3, <1>4, <1>5, <1>7, <1>8, <1>9, <1>13, <2>1 DEF CallStep
<1> QED BY <1>2, <1>11, <1>12, <1>13 DEF Next

\* A comparison finds the bundle it was told is cached, or has cached, whatever
\* others cache meanwhile and whichever workers come and go, as long as there
\* are no more bundles than a worker keeps.
THEOREM BundlesAreFound ==
  ASSUME FewBundles
  PROVE  Spec => []ComparisonFindsItsBundle
<1>1. Init => BundlesInv
  BY EmptySeq, SharedAssumption
     DEF Init, BundlesInv, BundlesTyped, BundlesKept, ComparisonFindsItsBundle, IsInjective, Relying
<1>2. SharedInv /\ SharedInv' /\ BundlesInv /\ [Next]_vars => BundlesInv'
  BY BundlesStep
<1>3. BundlesInv => ComparisonFindsItsBundle
  BY DEF BundlesInv
<1> QED BY <1>1, <1>2, <1>3, SharedHolds, PTL DEF Spec

-----------------------------------------------------------------------------
(* Nobody is stuck.                                                         *)

\* A review waits or runs in the lane.
InLane == {"queued", "persisted", "queuedRaw", "raw"}
\* A call that found its worker ready and still waits for something.
Served == Pending \ {"starting", "settled", "refused"}

\* The lane of a worker that has not faulted holds the reviews posted to it that
\* have not been answered, once each; the one that runs is the first.
LaneOf(i) ==
  /\ IsInjective(lane[i])
  /\ \A c \in Call : c \in ToSet(lane[i]) <=> on[c] = i /\ pc[c] \in InLane
  /\ \A c \in Call : on[c] = i /\ pc[c] \in {"persisted", "raw"} =>
       lane[i] # <<>> /\ Head(lane[i]) = c
Lanes == lane \in [Workers -> Seq(Call)] /\ \A i \in Workers \ faulted : LaneOf(i)

\* A worker ended for a reason its calls can see, or has none.
EndIsSeen ==
  /\ ready \in [Workers -> {"pending", "ok", "failed"}]
  /\ faulted \subseteq terminated
  /\ \A i \in terminated : i \in faulted \/ ready[i] = "failed" \/ CallsOn(i) = {}
  /\ \A c \in Call : pc[c] \in Served => ready[on[c]] = "ok"

\* A review that is posted goes behind the others.
LEMMA Appended ==
  ASSUME NEW s \in Seq(Call), IsInjective(s), NEW c \in Call, c \notin ToSet(s)
  PROVE  /\ Append(s, c) \in Seq(Call) /\ IsInjective(Append(s, c))
         /\ ToSet(Append(s, c)) = ToSet(s) \cup {c}
         /\ Append(s, c) # <<>> /\ (s # <<>> => Head(Append(s, c)) = Head(s))
<1>1. PICK t : t = Append(s, c)
  OBVIOUS
<1>2. /\ t \in Seq(Call) /\ Len(t) = Len(s) + 1 /\ t[Len(s) + 1] = c
      /\ \A i \in 1..Len(s) : t[i] = s[i]
      /\ DOMAIN t = 1..(Len(s) + 1) /\ DOMAIN s = 1..Len(s) /\ Len(s) \in Nat
  BY <1>1
<1>3. \A i \in DOMAIN s : s[i] # c
  BY DEF ToSet
<1>4. \A i \in DOMAIN t : (i \in DOMAIN s /\ t[i] = s[i]) \/ (i = Len(s) + 1 /\ t[i] = c)
  BY <1>2
<1>5. IsInjective(t)
  BY <1>3, <1>4 DEF IsInjective
<1>6. ToSet(t) \subseteq ToSet(s) \cup {c}
  BY <1>4 DEF ToSet
<1>7. DOMAIN s \subseteq DOMAIN t /\ Len(s) + 1 \in DOMAIN t
  BY <1>2
<1>8. ToSet(s) \cup {c} \subseteq ToSet(t)
  BY <1>2, <1>7 DEF ToSet
<1>9. t # <<>> /\ (s # <<>> => Head(t) = Head(s))
  BY <1>1, <1>2
<1> QED BY <1>1, <1>2, <1>5, <1>6, <1>8, <1>9

\* The first of a lane leaves it to the others.
LEMMA FirstLeaves ==
  ASSUME NEW s \in Seq(Call), IsInjective(s), s # <<>>
  PROVE  /\ Tail(s) \in Seq(Call) /\ IsInjective(Tail(s))
         /\ ToSet(Tail(s)) = ToSet(s) \ {Head(s)}
<1>1. PICK t : t = Tail(s)
  OBVIOUS
<1>2. /\ t \in Seq(Call) /\ Len(t) = Len(s) - 1 /\ Len(s) \in Nat /\ Len(s) > 0
      /\ \A i \in 1..(Len(s) - 1) : t[i] = s[i + 1]
      /\ DOMAIN t = 1..(Len(s) - 1) /\ DOMAIN s = 1..Len(s) /\ Head(s) = s[1]
  BY <1>1
<1>3. \A i \in DOMAIN t : i + 1 \in DOMAIN s /\ i + 1 # 1 /\ t[i] = s[i + 1]
  BY <1>2
<1>4. 1 \in DOMAIN s
  BY <1>2
<1>5. ASSUME NEW i \in DOMAIN t, NEW j \in DOMAIN t, t[i] = t[j] PROVE i = j
  <2>1. s[i + 1] = s[j + 1] /\ i \in Nat /\ j \in Nat
    BY <1>2, <1>3, <1>5
  <2>2. i + 1 = j + 1
    BY <1>3, <2>1 DEF IsInjective
  <2> QED BY <2>1, <2>2
<1>6. ToSet(t) \subseteq ToSet(s) \ {Head(s)}
  <2>1. \A i \in DOMAIN t : t[i] # s[1]
    BY <1>3, <1>4 DEF IsInjective
  <2> QED BY <1>2, <1>3, <2>1 DEF ToSet
<1>7. ASSUME NEW m \in DOMAIN s, s[m] # Head(s) PROVE s[m] \in ToSet(t)
  <2>1. m - 1 \in DOMAIN t /\ (m - 1) + 1 = m
    BY <1>2, <1>7
  <2>2. t[m - 1] = s[m]
    BY <1>3, <2>1
  <2> QED BY <2>1, <2>2 DEF ToSet
<1>8. ToSet(s) \ {Head(s)} \subseteq ToSet(t)
  BY <1>7 DEF ToSet
<1> QED BY <1>1, <1>2, <1>5, <1>6, <1>8 DEF IsInjective

\* A call that moves from step to step without touching the lane.
LEMMA MoveKeepsLanes ==
  ASSUME Shape, Lanes, NEW c \in Call, NEW step \in Steps, pc' = [pc EXCEPT ![c] = step],
         UNCHANGED <<lane, on, faulted>>,
         on[c] \in faulted \/ (pc[c] \in InLane <=> step \in InLane),
         step \in {"persisted", "raw"} => Holds(c)
  PROVE  Lanes'
<1>1. pc'[c] = step /\ \A d \in Call : d # c => pc'[d] = pc[d]
  BY DEF Shape
<1> SUFFICES ASSUME NEW i \in Workers \ faulted
             PROVE  LaneOf(i)'
  BY DEF Lanes
<1>2. LaneOf(i)
  BY DEF Lanes
<1>3. \A d \in Call : d \in ToSet(lane[i]) <=> on[d] = i /\ pc'[d] \in InLane
  BY <1>1, <1>2 DEF LaneOf
<1>4. \A d \in Call : on[d] = i /\ pc'[d] \in {"persisted", "raw"} =>
        lane[i] # <<>> /\ Head(lane[i]) = d
  BY <1>1, <1>2 DEF LaneOf, Holds
<1> QED BY <1>2, <1>3, <1>4 DEF LaneOf

\* A review joins the lane, at its end.
LEMMA PostKeepsLanes ==
  ASSUME Shape, Lanes, NEW c \in Call, on[c] \in Workers, pc[c] \notin InLane,
         NEW step \in {"queued", "queuedRaw"}, Post(c, step), UNCHANGED <<on, faulted>>
  PROVE  Lanes'
<1>1. /\ pc'[c] = step /\ \A d \in Call : d # c => pc'[d] = pc[d]
      /\ lane' = [lane EXCEPT ![on[c]] = Append(lane[on[c]], c)]
      /\ step \in InLane /\ step \notin {"persisted", "raw"}
  BY DEF Shape, Post, Goto, InLane
<1>2. /\ lane'[on[c]] = Append(lane[on[c]], c) /\ lane[on[c]] \in Seq(Call)
      /\ \A i \in Workers : i # on[c] => lane'[i] = lane[i]
  BY <1>1 DEF Lanes
<1>3. lane' \in [Workers -> Seq(Call)]
  BY <1>1, <1>2 DEF Lanes
<1>4. ASSUME NEW i \in Workers \ faulted, i # on[c]
      PROVE  LaneOf(i)'
  <2>1. LaneOf(i) /\ lane'[i] = lane[i]
    BY <1>2, <1>4 DEF Lanes
  <2> QED BY <1>1, <1>4, <2>1 DEF LaneOf
<1>5. ASSUME on[c] \notin faulted
      PROVE  LaneOf(on[c])'
  <2>1. PICK i, s, t : i = on[c] /\ s = lane[i] /\ t = lane'[i]
    OBVIOUS
  <2>2. LaneOf(i) /\ i \in Workers
    BY <1>5, <2>1 DEF Lanes
  <2>3. IsInjective(s) /\ c \notin ToSet(s) /\ s \in Seq(Call) /\ t = Append(s, c)
    BY <1>2, <2>1, <2>2 DEF LaneOf
  <2>4. /\ IsInjective(t) /\ ToSet(t) = ToSet(s) \cup {c}
        /\ t # <<>> /\ (s # <<>> => Head(t) = Head(s))
    BY <2>3, Appended
  <2>5. \A d \in Call : d \in ToSet(t) <=> on[d] = i /\ pc'[d] \in InLane
    BY <1>1, <2>1, <2>2, <2>4 DEF LaneOf
  <2>6. \A d \in Call : on[d] = i /\ pc'[d] \in {"persisted", "raw"} => t # <<>> /\ Head(t) = d
    BY <1>1, <2>1, <2>2, <2>4 DEF LaneOf
  <2> QED BY <2>1, <2>4, <2>5, <2>6 DEF LaneOf
<1> QED BY <1>3, <1>4, <1>5 DEF Lanes

\* The review that holds the lane leaves it.
LEMMA LeaveKeepsLanes ==
  ASSUME Shape, Lanes, NEW c \in Call, on[c] \in Workers \ faulted, Holds(c),
         NEW step \in Steps \ InLane, pc' = [pc EXCEPT ![c] = step],
         LeaveLane(c), UNCHANGED <<on, faulted>>
  PROVE  Lanes'
<1>1. /\ pc'[c] = step /\ \A d \in Call : d # c => pc'[d] = pc[d]
      /\ lane' = [lane EXCEPT ![on[c]] = Tail(lane[on[c]])]
      /\ step \notin InLane /\ {"persisted", "raw"} \subseteq InLane
  BY DEF Shape, LeaveLane, InLane
<1>2. PICK i, s, t : i = on[c] /\ s = lane[i] /\ t = lane'[i]
  OBVIOUS
<1>3. LaneOf(i) /\ i \in Workers /\ s \in Seq(Call) /\ t = Tail(s)
  BY <1>1, <1>2 DEF Lanes
<1>4. IsInjective(s) /\ s # <<>> /\ Head(s) = c
  BY <1>2, <1>3 DEF LaneOf, Holds
<1>5. t \in Seq(Call) /\ IsInjective(t) /\ ToSet(t) = ToSet(s) \ {c}
  BY <1>3, <1>4, FirstLeaves
<1>6. lane' \in [Workers -> Seq(Call)]
  <2>1. lane' = [lane EXCEPT ![i] = t]
    BY <1>1, <1>2, <1>3
  <2> QED BY <1>5, <2>1 DEF Lanes
<1>7. ASSUME NEW j \in Workers \ faulted, j # i
      PROVE  LaneOf(j)'
  <2>1. LaneOf(j) /\ lane'[j] = lane[j]
    BY <1>1, <1>2, <1>7 DEF Lanes
  <2> QED BY <1>1, <1>2, <1>7, <2>1 DEF LaneOf
<1>8. LaneOf(i)'
  <2>1. \A d \in Call : d \in ToSet(t) <=> on[d] = i /\ pc'[d] \in InLane
    BY <1>1, <1>2, <1>3, <1>5 DEF LaneOf
  <2>2. \A d \in Call : on[d] = i => pc'[d] \notin {"persisted", "raw"}
    BY <1>1, <1>2, <1>3, <1>4 DEF LaneOf
  <2> QED BY <1>2, <1>5, <2>1, <2>2 DEF LaneOf
<1> QED BY <1>2, <1>6, <1>7, <1>8 DEF Lanes

\* A call whose worker is at work on it.
LEMMA AtWork ==
  ASSUME SharedInv, EndIsSeen, NEW c \in Call, NEW step \in Pending, At(c, step)
  PROVE  pc[c] = step /\ on[c] \in Workers \ faulted
<1>1. pc[c] = step /\ on[c] \in 1..spawned /\ on[c] \notin terminated
  BY DEF At, Running, SharedInv, Shape
<1>2. 1..spawned \subseteq Workers
  BY SharedAssumption DEF SharedInv, Shape, Workers
<1> QED BY <1>1, <1>2 DEF EndIsSeen

LEMMA LanesStep ==
  ASSUME SharedInv, Lanes, EndIsSeen, [Next]_vars
  PROVE  Lanes'
<1>0. /\ Shape /\ \A c \in Call : pc[c] \in Pending => on[c] \in Workers
      /\ pc \in [Call -> Steps] /\ InLane \subseteq Pending /\ Pending \subseteq Steps
      /\ "starting" \in Pending \ InLane /\ "cached" \in Pending \ InLane
      /\ "loading" \in Pending \ InLane /\ "caching" \in Pending \ InLane
      /\ "working" \in Pending \ InLane
  BY SharedAssumption DEF SharedInv, Shape, Workers, InLane, Pending, Steps
<1>1. ASSUME UNCHANGED <<lane, on, pc>>, faulted \subseteq faulted'
      PROVE  Lanes'
  BY <1>1 DEF Lanes, LaneOf
<1>2. ASSUME NEW c \in Call, NEW k, NEW big, Start(c, k, big)
      PROVE  Lanes'
  <2>1. /\ pc[c] = "idle" /\ pc' = [pc EXCEPT ![c] = "starting"] /\ UNCHANGED <<lane, faulted>>
        /\ \E i : on' = [on EXCEPT ![c] = i]
    BY <1>2 DEF Start, Goto, workerVars
  <2>2. /\ pc'[c] = "starting"
        /\ \A d \in Call : d # c => pc'[d] = pc[d] /\ on'[d] = on[d]
    BY <1>0, <2>1 DEF Shape
  <2>3. ASSUME NEW i \in Workers \ faulted PROVE LaneOf(i)'
    <3>1. LaneOf(i)
      BY <2>3 DEF Lanes
    <3>2. \A d \in Call : d \in ToSet(lane[i]) <=> on'[d] = i /\ pc'[d] \in InLane
      BY <2>1, <2>2, <3>1 DEF LaneOf, InLane
    <3>3. \A d \in Call : on'[d] = i /\ pc'[d] \in {"persisted", "raw"} =>
            lane[i] # <<>> /\ Head(lane[i]) = d
      BY <2>2, <3>1 DEF LaneOf
    <3> QED BY <2>1, <3>1, <3>2, <3>3 DEF LaneOf
  <2> QED BY <2>1, <2>3 DEF Lanes
<1>3. ASSUME NEW c \in Call, Proceed(c)
      PROVE  Lanes'
  <2>1. UNCHANGED <<on, faulted>> /\ pc[c] = "starting" /\ on[c] \in Workers
    BY <1>0, <1>3 DEF Proceed, HasWorker, entryVars
  <2>2. CASE Post(c, "queued")
    BY <1>0, <2>1, <2>2, PostKeepsLanes
  <2>3. CASE ~Post(c, "queued")
    <3>1. /\ UNCHANGED lane
          /\ \E step \in {"working", "caching"} : pc' = [pc EXCEPT ![c] = step]
      BY <1>3, <2>3 DEF Proceed, Goto
    <3>2. PICK step \in {"working", "caching"} : pc' = [pc EXCEPT ![c] = step]
      BY <3>1
    <3>3. step \in Steps /\ step \notin InLane /\ step \notin {"persisted", "raw"}
      BY <1>0, <3>2
    <3> QED BY <1>0, <2>1, <3>1, <3>2, <3>3, MoveKeepsLanes
  <2> QED BY <2>2, <2>3
<1>4. ASSUME NEW c \in Call, Cache(c) \/ WorkAnswers(c)
      PROVE  Lanes'
  <2>1. /\ UNCHANGED <<lane, on, faulted>> /\ pc[c] \in {"caching", "working"}
        /\ \E step \in {"cached", "settled"} : pc' = [pc EXCEPT ![c] = step]
    BY <1>4 DEF Cache, WorkAnswers, At, Goto, entryVars, workerVars
  <2>2. PICK step \in {"cached", "settled"} : pc' = [pc EXCEPT ![c] = step]
    BY <2>1
  <2>3. /\ step \in Steps /\ step \notin InLane /\ step \notin {"persisted", "raw"}
        /\ pc[c] \notin InLane
    BY <2>1, <2>2 DEF Steps, InLane
  <2> QED BY <1>0, <2>1, <2>2, <2>3, MoveKeepsLanes
<1>5. ASSUME NEW c \in Call, Cached(c)
      PROVE  Lanes'
  <2>1. pc[c] = "cached" /\ Post(c, "queued") /\ UNCHANGED <<on, faulted>>
    BY <1>5 DEF Cached, At
  <2> QED BY <1>0, <2>1, PostKeepsLanes
<1>6. ASSUME NEW c \in Call, NEW queued \in {"queued", "queuedRaw"},
             NEW running \in {"persisted", "raw"}, Review(c, queued, running)
      PROVE  Lanes'
  <2>1. At(c, queued) /\ Holds(c) /\ UNCHANGED <<on, faulted>>
    BY <1>6 DEF Review, HasLane, entryVars
  <2>2. /\ pc[c] = queued /\ on[c] \in Workers \ faulted
        /\ queued \in InLane /\ running \in InLane /\ running \in Steps
        /\ "refused" \in Steps \ InLane
    BY <2>1, AtWork DEF InLane, Pending, Steps
  <2>3. CASE key[c] \in ToSet(bundles[on[c]])
    <3>1. pc' = [pc EXCEPT ![c] = running] /\ UNCHANGED lane
      BY <1>6, <2>3 DEF Review, Goto
    <3> QED BY <1>0, <2>1, <2>2, <3>1, MoveKeepsLanes
  <2>4. CASE key[c] \notin ToSet(bundles[on[c]])
    <3>1. pc' = [pc EXCEPT ![c] = "refused"] /\ LeaveLane(c)
      BY <1>6, <2>4 DEF Review, Goto
    <3> QED BY <1>0, <2>1, <2>2, <3>1, LeaveKeepsLanes
  <2> QED BY <2>3, <2>4
<1>7. ASSUME NEW c \in Call, PersistedAnswers(c) \/ RawAnswers(c)
      PROVE  Lanes'
  <2>1. /\ LeaveLane(c) /\ UNCHANGED <<on, faulted>>
        /\ \E step \in {"settled", "loading"} : pc' = [pc EXCEPT ![c] = step]
        /\ At(c, "persisted") \/ At(c, "raw")
    BY <1>7 DEF PersistedAnswers, RawAnswers, Goto, entryVars
  <2>2. PICK step \in {"settled", "loading"} : pc' = [pc EXCEPT ![c] = step]
    BY <2>1
  <2>3. step \in Steps \ InLane /\ "persisted" \in Pending /\ "raw" \in Pending
    BY <2>2 DEF Steps, InLane, Pending
  <2>4. pc[c] \in {"persisted", "raw"} /\ on[c] \in Workers \ faulted
    BY <2>1, <2>3, AtWork
  <2>5. LaneOf(on[c])
    BY <2>4 DEF Lanes
  <2>6. Holds(c)
    BY <2>4, <2>5 DEF LaneOf, Holds
  <2> QED BY <1>0, <2>1, <2>2, <2>3, <2>4, <2>6, LeaveKeepsLanes
<1>8. ASSUME NEW c \in Call, LoadRaw(c)
      PROVE  Lanes'
  <2>1. pc[c] = "loading" /\ UNCHANGED <<on, faulted>>
    BY <1>8 DEF LoadRaw, entryVars
  <2>2. CASE Post(c, "queuedRaw")
    BY <1>0, <2>1, <2>2, PostKeepsLanes
  <2>3. CASE ~Post(c, "queuedRaw")
    <3>1. pc' = [pc EXCEPT ![c] = "settled"] /\ UNCHANGED lane
      BY <1>8, <2>3 DEF LoadRaw, Goto
    <3>2. "settled" \in Steps \ InLane
      BY DEF Steps, InLane
    <3> QED BY <1>0, <2>1, <3>1, <3>2, MoveKeepsLanes
  <2> QED BY <2>2, <2>3
<1>9. ASSUME NEW c \in Call, Reject(c)
      PROVE  Lanes'
  <2>1. /\ pc' = [pc EXCEPT ![c] = "settled"] /\ UNCHANGED <<lane, on, faulted>>
        /\ on[c] \in faulted \/ pc[c] = "starting"
    BY <1>9 DEF Reject, Rejectable, Rejected, Goto, entryVars, workerVars
  <2>2. "settled" \in Steps \ InLane
    BY DEF Steps, InLane
  <2> QED BY <1>0, <2>1, <2>2, MoveKeepsLanes
<1>10. ASSUME NEW c \in Call, Settle(c)
       PROVE  Lanes'
  <2>1. /\ UNCHANGED <<lane, on, faulted>> /\ pc[c] \in {"settled", "refused"}
        /\ \E step \in {"done", "doneRefused"} : pc' = [pc EXCEPT ![c] = step]
    BY <1>10 DEF Settle, Settling, Goto, workerVars
  <2>2. PICK step \in {"done", "doneRefused"} : pc' = [pc EXCEPT ![c] = step]
    BY <2>1
  <2>3. /\ step \in Steps /\ step \notin InLane /\ step \notin {"persisted", "raw"}
        /\ pc[c] \notin InLane
    BY <2>1, <2>2 DEF Steps, InLane
  <2> QED BY <1>0, <2>1, <2>2, <2>3, MoveKeepsLanes
<1>11. ASSUME NEW c \in Call, CallStep(c)
       PROVE  Lanes'
  <2>1. ReviewPersisted(c) \/ ReviewRaw(c) => Lanes'
    BY <1>6 DEF ReviewPersisted, ReviewRaw
  <2> QED BY <1>3, <1>4, <1>5, <1>7, <1>8, <1>9, <1>10, <1>11, <2>1 DEF CallStep
<1>12. ASSUME NEW i \in Workers, Initialized(i) \/ InitializeFails(i) \/ Fault(i)
       PROVE  Lanes'
  BY <1>1, <1>12 DEF Initialized, InitializeFails, Fault, workerVars, callVars
<1>13. CASE UNCHANGED vars
  BY <1>1, <1>13 DEF vars, entryVars, workerVars, callVars
<1> QED BY <1>2, <1>11, <1>12, <1>13 DEF Next

\* A call that moves on a worker that was ready.
LEMMA MoveSeesEnd ==
  ASSUME Shape, EndIsSeen, NEW c \in Call, pc[c] \in Pending,
         NEW step \in Pending, pc' = [pc EXCEPT ![c] = step],
         UNCHANGED <<on, ready, faulted, terminated>>,
         step \in Served => ready[on[c]] = "ok"
  PROVE  EndIsSeen'
<1>1. pc'[c] = step /\ \A d \in Call : d # c => pc'[d] = pc[d]
  BY DEF Shape
<1>2. \A i : CallsOn(i)' = CallsOn(i)
  BY MovingIsCounted
<1> QED BY <1>1, <1>2 DEF EndIsSeen

LEMMA EndSeenStep ==
  ASSUME SharedInv, EndIsSeen, [Next]_vars
  PROVE  EndIsSeen'
<1>0. /\ Shape /\ \A c \in Call : pc[c] \in Pending => on[c] \in Workers
      /\ pc \in [Call -> Steps] /\ spawned \in Nat
  BY SharedAssumption DEF SharedInv, Shape, Workers
<1>1. ASSUME UNCHANGED <<ready, faulted, terminated, on, pc>>
      PROVE  EndIsSeen'
  BY <1>1 DEF EndIsSeen, CallsOn
<1>2. ASSUME NEW c \in Call, NEW k, NEW big, Start(c, k, big)
      PROVE  EndIsSeen'
  <2>1. PICK i : i = IF Current = 0 THEN spawned + 1 ELSE Current
    OBVIOUS
  <2>2. /\ pc' = [pc EXCEPT ![c] = "starting"] /\ on' = [on EXCEPT ![c] = i]
        /\ UNCHANGED <<ready, faulted, terminated>>
    BY <1>2, <2>1 DEF Start, Goto
  <2>3. i \notin terminated
    <3>1. CASE Current = 0
      BY <1>0, <2>1, <3>1 DEF Shape
    <3>2. CASE Current # 0
      BY <2>1, <3>2 DEF Current, SharedInv, SingletonServes
    <3> QED BY <3>1, <3>2
  <2>4. /\ pc'[c] = "starting" /\ on'[c] = i
        /\ \A d \in Call : d # c => pc'[d] = pc[d] /\ on'[d] = on[d]
    BY <1>0, <2>2 DEF Shape
  <2>5. \A j \in terminated : CallsOn(j)' \subseteq CallsOn(j)
    BY <2>3, <2>4 DEF CallsOn
  <2>6. \A d \in Call : pc'[d] \in Served => ready[on'[d]] = "ok"
    BY <2>4 DEF EndIsSeen, Served
  <2> QED BY <2>2, <2>5, <2>6 DEF EndIsSeen
<1>3. ASSUME NEW c \in Call, CallStep(c), ~Settle(c)
      PROVE  EndIsSeen'
  <2>1. pc[c] \in Pending /\ UNCHANGED <<on, terminated>>
    BY <1>0, <1>3, CallMoves
  <2>2. PICK step \in Pending : pc' = [pc EXCEPT ![c] = step]
    BY <1>0, <1>3, CallMoves
  <2>3. UNCHANGED <<ready, faulted>>
    BY <1>3 DEF CallStep, Proceed, Cache, Cached, ReviewPersisted, ReviewRaw, Review,
           PersistedAnswers, LoadRaw, RawAnswers, WorkAnswers, Reject, entryVars
  <2>4. CASE pc[c] \in Served
    <3>1. ready[on[c]] = "ok"
      BY <2>4 DEF EndIsSeen
    <3> QED BY <1>0, <2>1, <2>2, <2>3, <3>1, MoveSeesEnd
  <2>5. CASE Proceed(c)
    <3>1. ready[on[c]] = "ok"
      BY <2>5 DEF Proceed, HasWorker
    <3> QED BY <1>0, <2>1, <2>2, <2>3, <3>1, MoveSeesEnd
  <2>6. CASE pc[c] \notin Served /\ ~Proceed(c)
    <3>1. /\ pc[c] \in {"starting", "settled", "refused"}
      BY <2>1, <2>6 DEF Served
    <3>2. Reject(c)
      BY <1>3, <2>6, <3>1 DEF CallStep, Cache, Cached, ReviewPersisted, ReviewRaw, Review, HasLane,
             PersistedAnswers, LoadRaw, RawAnswers, WorkAnswers, At
    <3>3. pc' = [pc EXCEPT ![c] = "settled"] /\ "settled" \in Pending /\ "settled" \notin Served
      BY <3>2 DEF Reject, Goto, Pending, Steps, Served
    <3> QED BY <1>0, <2>1, <2>3, <3>3, MoveSeesEnd
  <2> QED BY <2>4, <2>5, <2>6
<1>4. ASSUME NEW c \in Call, Settle(c)
      PROVE  EndIsSeen'
  <2>1. PICK i : i = on[c]
    OBVIOUS
  <2>2. /\ UNCHANGED <<ready, faulted, on>> /\ pc[c] \in Pending
        /\ \E step \in {"done", "doneRefused"} : pc' = [pc EXCEPT ![c] = step]
    BY <1>4 DEF Settle, Settling, Goto, Pending, Steps
  <2>3. /\ pc'[c] \notin Pending /\ \A d \in Call : d # c => pc'[d] = pc[d]
    BY <1>0, <2>2 DEF Pending, Steps
  <2>4. \A j : CallsOn(j)' \subseteq CallsOn(j)
    BY <2>2, <2>3 DEF CallsOn
  <2>5. \A d \in Call : pc'[d] \in Served => ready[on[d]] = "ok"
    BY <2>3 DEF EndIsSeen, Served
  <2>6. CASE terminated' = terminated
    BY <2>2, <2>4, <2>5, <2>6 DEF EndIsSeen
  <2>7. CASE terminated' # terminated
    <3>1. terminated' = terminated \cup {i} /\ inFlight'[i] = 0
      <4>1. i \in Workers /\ inFlight' = [inFlight EXCEPT ![i] = inFlight[i] - 1]
        BY <1>0, <1>4, <2>1, <2>2 DEF Settle
      <4>2. inFlight[i] - 1 = 0 /\ terminated' = terminated \cup {i}
        BY <1>4, <2>1, <2>7 DEF Settle, Retires, Evict
      <4> QED BY <4>1, <4>2 DEF SharedInv, Shape
    <3>2. SharedInv'
      BY <1>4, SettleKeepsInv
    <3>3. i \in Workers
      BY <1>0, <2>1, <2>2
    <3>4. Cardinality(CallsOn(i)') = 0 /\ IsFiniteSet(CallsOn(i)')
      <4>1. CallsOn(i)' \subseteq CallsOn(i) /\ IsFiniteSet(CallsOn(i))
        BY <2>4, CallsOnFinite
      <4> QED BY <3>1, <3>2, <3>3, <4>1, FS_Subset DEF SharedInv, Counted
    <3>5. CallsOn(i)' = {}
      BY <3>4, FS_EmptySet
    <3> QED BY <2>2, <2>4, <2>5, <3>1, <3>5 DEF EndIsSeen
  <2> QED BY <2>6, <2>7
<1>5. ASSUME NEW i \in Workers, Initialized(i)
      PROVE  EndIsSeen'
  <2>1. /\ i \notin terminated /\ ready[i] = "pending" /\ ready' = [ready EXCEPT ![i] = "ok"]
        /\ UNCHANGED <<faulted, terminated, on, pc>>
    BY <1>5 DEF Initialized, Running, callVars
  <2>2. /\ ready' \in [Workers -> {"pending", "ok", "failed"}]
        /\ ready'[i] = "ok" /\ \A j \in Workers : j # i => ready'[j] = ready[j]
    BY <2>1 DEF EndIsSeen
  <2>3. terminated \subseteq Workers
    BY SharedAssumption, <1>0 DEF Shape, Workers
  <2>4. \A d \in Call : pc[d] \in Served => ready'[on[d]] = "ok"
    BY <1>0, <2>2 DEF EndIsSeen, Served
  <2> QED BY <2>1, <2>2, <2>3, <2>4 DEF EndIsSeen, CallsOn
<1>6. ASSUME NEW i \in Workers, InitializeFails(i) \/ Fault(i)
      PROVE  EndIsSeen'
  <2>1. /\ terminated' = terminated \cup {i} /\ UNCHANGED <<on, pc>>
        /\ ready' \in [Workers -> {"pending", "ok", "failed"}]
        /\ \A j \in Workers : ready[j] # "pending" => ready'[j] = ready[j]
        /\ \A j \in Workers : ready[j] = "failed" => ready'[j] = "failed"
        /\ faulted \subseteq faulted' /\ faulted' \subseteq faulted \cup {i}
        /\ i \in faulted' \/ ready'[i] = "failed"
    BY <1>6 DEF InitializeFails, Fault, Evict, callVars, EndIsSeen
  <2>2. terminated \subseteq Workers
    BY SharedAssumption, <1>0 DEF Shape, Workers
  <2>3. \A d \in Call : pc[d] \in Served => ready'[on[d]] = "ok"
    <3> SUFFICES ASSUME NEW d \in Call, pc[d] \in Served PROVE ready'[on[d]] = "ok"
      OBVIOUS
    <3>1. on[d] \in Workers /\ ready[on[d]] = "ok"
      BY <1>0 DEF EndIsSeen, Served
    <3> QED BY <2>1, <3>1
  <2> QED BY <2>1, <2>2, <2>3 DEF EndIsSeen, CallsOn
<1>7. CASE UNCHANGED vars
  BY <1>1, <1>7 DEF vars, entryVars, callVars
<1> QED BY <1>2, <1>3, <1>4, <1>5, <1>6, <1>7 DEF Next

\* Whatever faults, fails or retires, every call that has not settled can step,
\* or its worker is starting, or the review that holds the lane it waits in can.
THEOREM NobodyHangs == Spec => []NobodyIsStuck
<1>1. Init => Lanes /\ EndIsSeen
  <2> SUFFICES ASSUME Init PROVE Lanes /\ EndIsSeen
    OBVIOUS
  <2>1. \A i \in Workers : lane[i] = <<>> /\ ToSet(lane[i]) = {}
    BY DEF Init, ToSet
  <2>2. lane \in [Workers -> Seq(Call)]
    BY DEF Init
  <2>3. \A c \in Call : pc[c] = "idle"
    BY DEF Init
  <2>4. ASSUME NEW i \in Workers PROVE LaneOf(i)
    BY <2>1, <2>3 DEF LaneOf, IsInjective, InLane
  <2>5. EndIsSeen
    BY <2>3 DEF Init, EndIsSeen, Served, Pending
  <2> QED BY <2>2, <2>4, <2>5 DEF Lanes
<1>2. SharedInv /\ Lanes /\ EndIsSeen /\ [Next]_vars => (Lanes /\ EndIsSeen)'
  BY LanesStep, EndSeenStep
<1>3. SharedInv /\ Lanes /\ EndIsSeen => NobodyIsStuck
  <2> SUFFICES ASSUME SharedInv, Lanes, EndIsSeen, NEW c \in Call, pc[c] \in Pending,
                      ~Rejectable(c), ~Settling(c), pc[c] # "loading"
               PROVE  \/ CanStep(c)
                      \/ Starting(on[c])
                      \/ /\ pc[c] \in {"queued", "queuedRaw"} /\ lane[on[c]] # <<>>
                         /\ CanStep(Head(lane[on[c]]))
    BY DEF NobodyIsStuck, CanStep
  <2>1. /\ on[c] \in Workers /\ on[c] <= spawned /\ c \in CallsOn(on[c])
        /\ pc[c] \notin {"settled", "refused"}
    BY SharedAssumption DEF SharedInv, Shape, Workers, CallsOn, Settling
  <2>2. on[c] \notin faulted /\ ~(pc[c] = "starting" /\ ready[on[c]] = "failed")
    BY <2>1 DEF Rejectable, Rejected
  <2>3. CASE pc[c] = "starting"
    <3>1. ready[on[c]] \in {"pending", "ok"} /\ on[c] \notin terminated
      BY <2>1, <2>2, <2>3 DEF EndIsSeen
    <3> QED BY <2>1, <2>2, <2>3, <3>1 DEF CanStep, HasWorker, Starting, Running
  <2>4. CASE pc[c] # "starting"
    <3>1. on[c] \notin terminated
      BY <2>1, <2>2, <2>4 DEF EndIsSeen, Served
    <3>2. Running(on[c])
      BY <2>1, <3>1 DEF Running
    <3>3. CASE pc[c] \notin {"queued", "queuedRaw"}
      BY <2>1, <2>4, <3>2, <3>3 DEF CanStep, At, Pending, Steps
    <3>4. CASE pc[c] \in {"queued", "queuedRaw"}
      <4>1. LaneOf(on[c]) /\ lane[on[c]] \in Seq(Call)
        BY <2>1, <2>2 DEF Lanes
      <4>2. c \in ToSet(lane[on[c]])
        BY <3>4, <4>1 DEF LaneOf, InLane
      <4>3. lane[on[c]] # <<>> /\ Head(lane[on[c]]) \in ToSet(lane[on[c]])
        BY <4>1, <4>2 DEF ToSet
      <4>4. PICK d \in Call : d = Head(lane[on[c]])
        BY <4>1, <4>3
      <4>5. on[d] = on[c] /\ pc[d] \in InLane
        BY <4>1, <4>3, <4>4 DEF LaneOf
      <4>6. CanStep(d)
        BY <3>2, <4>3, <4>4, <4>5 DEF CanStep, At, HasLane, Holds, InLane
      <4> QED BY <3>4, <4>3, <4>4, <4>6
    <3> QED BY <3>3, <3>4
  <2> QED BY <2>3, <2>4
<1> QED BY <1>1, <1>2, <1>3, SharedHolds, PTL DEF Spec

=============================================================================

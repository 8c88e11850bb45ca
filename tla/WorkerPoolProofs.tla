-------------------------- MODULE WorkerPoolProofs --------------------------
(***************************************************************************)
(* Proofs about WorkerPool for every set of slots and submissions.         *)
(***************************************************************************)
EXTENDS WorkerPool, FiniteSetTheorems, WellFoundedInduction, TLAPS

-----------------------------------------------------------------------------
(* The inductive invariant. *)

\* A terminated worker is marked dead, so no search for an idle slot finds it.
TerminatedIsDead == \A s \in Slot : slot[s].terminated => slot[s].dead

\* The queue holds each waiting submission once, and none after termination.
QueueConsistent ==
  /\ \A i \in 1..Len(waiters) : status[waiters[i]] = "waiting"
  /\ \A i, j \in 1..Len(waiters) : waiters[i] = waiters[j] => i = j
  /\ closed => waiters = <<>>

HoldersHaveSlots ==
  ~closed => \A t \in Task : status[t] \in Holding => holds[t] \in Slot

\* WaitersWillBeServed, also while a new budget is being applied.
WaitersServed ==
  turn \in {"free", "trimOnly"} /\ waiters # <<>> =>
    /\ IdleSlots = {}
    /\ \E s \in slots : slot[s].busy /\ ~slot[s].dead

Inv ==
  /\ TypeOK
  /\ TerminatedIsDead
  /\ QueueConsistent
  /\ HoldersHaveSlots
  /\ SlotAccounting
  /\ WaitersServed

-----------------------------------------------------------------------------
(* What the slot operations return. *)

\* terminateSlot changes nothing but the two flags, and leaves a slot that is
\* terminated or dead.
LEMMA TerminateSlotLemma ==
  ASSUME NEW r \in SlotState, NEW k \in TerminateSlot(r)
  PROVE  /\ k \in SlotState
         /\ k.busy = r.busy
         /\ r.dead => k.dead
         /\ ~k.terminated => k.dead
BY DEF TerminateSlot, SlotState

\* The record of a new worker is a slot record.
LEMMA FreshSlotLemma == FreshSlot \in SlotState
BY DEF FreshSlot, SlotState

\* replaceSlot leaves the slot alone, renews it, or leaves it dead.
LEMMA ReplaceSlotLemma ==
  ASSUME NEW r \in SlotState, NEW k \in ReplaceSlot(r)
  PROVE  /\ k \in SlotState
         /\ k = r \/ k = FreshSlot \/ k.dead
         /\ ~r.busy => ~k.busy
         /\ ~r.busy /\ r.retired /\ ~k.dead => k = FreshSlot
<1>1. CASE r.busy \/ ~r.retired
  BY <1>1 DEF ReplaceSlot
<1>2. CASE ~(r.busy \/ ~r.retired)
  <2>1. PICK j \in TerminateSlot(r) : k \in IF j.terminated THEN Respawn(j) ELSE {j}
    BY <1>2 DEF ReplaceSlot
  <2>2. j \in SlotState /\ j.busy = r.busy /\ (~j.terminated => j.dead)
    BY TerminateSlotLemma
  <2>3. CASE ~j.terminated
    BY <1>2, <2>1, <2>2, <2>3
  <2>4. CASE j.terminated
    <3>1. k = FreshSlot \/ k = [j EXCEPT !.dead = TRUE]
      BY <2>1, <2>4 DEF Respawn
    <3>2. CASE k = FreshSlot
      BY <1>2, <3>2, FreshSlotLemma DEF FreshSlot
    <3>3. CASE k = [j EXCEPT !.dead = TRUE]
      BY <1>2, <2>2, <3>3 DEF SlotState
    <3> QED BY <3>1, <3>2, <3>3
  <2> QED BY <2>3, <2>4
<1> QED BY <1>1, <1>2

\* release leaves the slot idle, and dead when its worker was terminated.
LEMMA ReleaseSlotLemma ==
  ASSUME NEW r \in SlotState, r.terminated => r.dead, NEW k \in ReleaseSlot(r)
  PROVE  /\ k \in SlotState
         /\ ~k.busy
         /\ k.terminated => k.dead
<1> DEFINE idle == [r EXCEPT !.busy = FALSE, !.completedTasks = @ + 1]
<1>1. /\ idle \in SlotState /\ ~idle.busy
      /\ idle.terminated => idle.dead
  <2>1. r.completedTasks + 1 \in Nat
    BY DEF SlotState
  <2>2. idle \in SlotState
    BY <2>1 DEF SlotState
  <2>3. ~idle.busy /\ idle.terminated = r.terminated /\ idle.dead = r.dead
    BY DEF SlotState
  <2> QED BY <2>2, <2>3
<1> HIDE DEF idle
<1>2. PICK j \in RetireAtLimit(idle) :
        k \in IF j.dead /\ waiters # <<>> THEN ReplaceSlot(j) ELSE {j}
  BY DEF ReleaseSlot, idle
<1>3. /\ j \in SlotState /\ ~j.busy
      /\ j.terminated => j.dead
  <2>1. CASE j = idle
    BY <1>1, <2>1
  <2>2. CASE j \in TerminateSlot([idle EXCEPT !.dead = TRUE, !.retired = TRUE])
    <3> DEFINE d == [idle EXCEPT !.dead = TRUE, !.retired = TRUE]
    <3>1. d \in SlotState /\ d.dead /\ ~d.busy
      BY <1>1 DEF SlotState
    <3> HIDE DEF d
    <3>2. j \in TerminateSlot(d)
      BY <2>2 DEF d
    <3> QED BY <3>1, <3>2, TerminateSlotLemma
  <2> QED BY <1>2, <2>1, <2>2 DEF RetireAtLimit
<1>4. CASE k = j
  BY <1>3, <1>4
<1>5. CASE k \in ReplaceSlot(j)
  <2>1. /\ k \in SlotState /\ ~k.busy
        /\ k = j \/ k = FreshSlot \/ k.dead
    BY <1>3, <1>5, ReplaceSlotLemma
  <2> QED BY <1>3, <2>1 DEF FreshSlot
<1> QED BY <1>2, <1>4, <1>5

\* The catch clause of runOnSlot keeps the slot busy until it is released.
LEMMA RetireAfterErrorLemma ==
  ASSUME NEW r \in SlotState, r.terminated => r.dead, NEW k \in RetireAfterError(r)
  PROVE  k \in SlotState /\ (k.terminated => k.dead)
<1>1. CASE budget = NoBudget
  BY <1>1 DEF RetireAfterError
<1>2. CASE budget # NoBudget
  <2> DEFINE d == [r EXCEPT !.dead = TRUE, !.retired = ~r.dead \/ @]
  <2>1. d \in SlotState /\ d.dead
    BY DEF SlotState
  <2>2. k \in TerminateSlot(d)
    BY <1>2 DEF RetireAfterError
  <2> HIDE DEF d
  <2> QED BY <2>1, <2>2, TerminateSlotLemma
<1> QED BY <1>1, <1>2

-----------------------------------------------------------------------------
(* The invariant is preserved by every action. *)

\* Granting an idle slot's renewed record to a submission that held none.
LEMMA GrantLemma ==
  ASSUME Inv, NEW t \in Task, status[t] \in {"new", "waiting"},
         NEW s \in slots, ~slot[s].busy,
         NEW r \in SlotState, r.terminated => r.dead,
         ~closed, UNCHANGED closed, Grant(t, s, r)
  PROVE  /\ slot' \in [Slot -> SlotState]
         /\ status' \in [Task -> Status]
         /\ holds' \in [Task -> Slot \cup {NoSlot}]
         /\ TerminatedIsDead'
         /\ HoldersHaveSlots'
         /\ SlotAccounting'
<1> DEFINE g == [r EXCEPT !.busy = TRUE]
<1>1. /\ g \in SlotState /\ g.busy
      /\ g.terminated => g.dead
  BY DEF SlotState
<1> HIDE DEF g
<1>2. /\ s \in Slot
      /\ slot' = [slot EXCEPT ![s] = g]
      /\ status' = [status EXCEPT ![t] = "granted"]
      /\ holds' = [holds EXCEPT ![t] = s]
  BY DEF Inv, TypeOK, Grant, g
<1>3. /\ slot' \in [Slot -> SlotState]
      /\ status' \in [Task -> Status]
      /\ holds' \in [Task -> Slot \cup {NoSlot}]
  BY <1>1, <1>2 DEF Inv, TypeOK, Status, Holding
<1>4. TerminatedIsDead'
  BY <1>1, <1>2 DEF Inv, TypeOK, TerminatedIsDead
<1>5. HoldersHaveSlots'
  BY <1>2 DEF Inv, TypeOK, HoldersHaveSlots
<1>6. \A u \in Task : u # t => status'[u] = status[u] /\ holds'[u] = holds[u]
  BY <1>2 DEF Inv, TypeOK
<1>7. status'[t] \in Holding /\ holds'[t] = s /\ status[t] \notin Holding
  BY <1>2 DEF Inv, TypeOK, Holding
<1>8. ASSUME NEW x \in Slot
      PROVE  slot'[x].busy <=> \E u \in Task : status'[u] \in Holding /\ holds'[u] = x
  <2>1. CASE x = s
    BY <1>1, <1>2, <1>7, <2>1 DEF Inv, TypeOK
  <2>2. CASE x # s
    <3>1. slot'[x] = slot[x]
      BY <1>2, <2>2 DEF Inv, TypeOK
    <3> QED BY <1>6, <1>7, <2>2, <3>1 DEF Inv, SlotAccounting
  <2> QED BY <2>1, <2>2
<1>9. ASSUME NEW u \in Task, NEW v \in Task,
             status'[u] \in Holding, status'[v] \in Holding, holds'[u] = holds'[v]
      PROVE  u = v
  <2>1. ASSUME NEW w \in Task, w # t, status[w] \in Holding PROVE holds[w] # s
    BY <2>1, <1>2 DEF Inv, SlotAccounting
  <2> QED BY <1>6, <1>7, <1>9, <2>1 DEF Inv, SlotAccounting
<1> QED BY <1>3, <1>4, <1>5, <1>8, <1>9 DEF SlotAccounting

\* Leaving the busy slots and their holders alone.
LEMMA SameHoldersLemma ==
  ASSUME Inv, closed => closed',
         \A s \in Slot : slot'[s].busy = slot[s].busy,
         \A t \in Task : holds'[t] = holds[t],
         \A t \in Task : status'[t] \in Holding <=> status[t] \in Holding
  PROVE  HoldersHaveSlots' /\ SlotAccounting'
<1>1. CASE closed'
  BY <1>1 DEF HoldersHaveSlots, SlotAccounting
<1>2. CASE ~closed'
  <2>1. ~closed
    BY <1>2
  <2>2. HoldersHaveSlots'
    BY <2>1 DEF Inv, HoldersHaveSlots
  <2> QED BY <2>1, <2>2 DEF Inv, SlotAccounting
<1> QED BY <1>1, <1>2

\* A submission that is not queued changes its status: the queue is unaffected.
LEMMA SameQueueLemma ==
  ASSUME Inv, NEW t \in Task, status[t] # "waiting",
         \A u \in Task : u # t => status'[u] = status[u],
         UNCHANGED <<waiters, closed>>
  PROVE  QueueConsistent'
BY DEF Inv, TypeOK, QueueConsistent

\* acquire on a terminated pool settles the submission and changes nothing else.
LEMMA SubmitToClosedInv ==
  ASSUME Inv, NEW t \in Task, status[t] = "new", turn = "free", SubmitToClosed(t),
         UNCHANGED <<slots, budget, closed, turn>>
  PROVE  Inv'
<1> USE DEF SubmitToClosed
<1>1. TypeOK' /\ TerminatedIsDead' /\ WaitersServed'
  BY DEF Inv, TypeOK, Status, Settled, TerminatedIsDead, WaitersServed, IdleSlots
<1>2. \A u \in Task : u # t => status'[u] = status[u]
  BY DEF Inv, TypeOK
<1>3. QueueConsistent'
  BY <1>2, SameQueueLemma
<1>4. \A u \in Task : status'[u] \in Holding <=> status[u] \in Holding
  BY DEF Inv, TypeOK, Holding
<1>5. HoldersHaveSlots' /\ SlotAccounting'
  BY <1>4, SameHoldersLemma
<1> QED BY <1>1, <1>3, <1>5 DEF Inv

\* acquire marks the slot it finds busy, and its submission is the one that holds it.
LEMMA SubmitToIdleInv ==
  ASSUME Inv, NEW t \in Task, status[t] = "new", turn = "free", SubmitToIdle(t),
         UNCHANGED <<slots, budget, closed, turn>>
  PROVE  Inv'
<1>1. PICK s \in IdleSlots : Grant(t, s, slot[s])
  BY DEF SubmitToIdle, Preferred
<1>2. /\ ~closed /\ waiters' = waiters
      /\ s \in slots /\ ~slot[s].busy
      /\ slot[s] \in SlotState
      /\ slot[s].terminated => slot[s].dead
  BY <1>1 DEF SubmitToIdle, IdleSlots, Inv, TypeOK, TerminatedIsDead
<1>3. /\ slot' \in [Slot -> SlotState]
      /\ status' \in [Task -> Status]
      /\ holds' \in [Task -> Slot \cup {NoSlot}]
      /\ TerminatedIsDead' /\ HoldersHaveSlots' /\ SlotAccounting'
  BY <1>1, <1>2, GrantLemma
<1>4. TypeOK'
  BY <1>2, <1>3 DEF Inv, TypeOK
<1>5. QueueConsistent'
  <2>1. \A u \in Task : u # t => status'[u] = status[u]
    BY <1>1 DEF Grant, Inv, TypeOK
  <2> QED BY <1>2, <2>1, SameQueueLemma
<1>6. WaitersServed'
  BY <1>1, <1>2 DEF Inv, WaitersServed
<1> QED BY <1>3, <1>4, <1>5, <1>6 DEF Inv

\* A retired slot whose replacement is not dead got a new worker.
LEMMA RetiredSlotLemma ==
  ASSUME Inv, NEW s \in RetiredSlots, NEW r \in ReplaceSlot(slot[s])
  PROVE  /\ s \in slots /\ s \in Slot /\ ~slot[s].busy
         /\ r \in SlotState /\ ~r.busy
         /\ ~r.dead => r = FreshSlot /\ ~r.terminated
<1>1. s \in slots /\ s \in Slot /\ slot[s] \in SlotState /\ ~slot[s].busy /\ slot[s].retired
  BY DEF RetiredSlots, Inv, TypeOK
<1>2. /\ r \in SlotState /\ ~r.busy
      /\ ~r.dead => r = FreshSlot
  BY <1>1, ReplaceSlotLemma
<1> QED BY <1>1, <1>2 DEF FreshSlot

\* acquire through a respawn keeps the invariant: the renewed slot is idle and live.
LEMMA SubmitToRetiredInv ==
  ASSUME Inv, NEW t \in Task, status[t] = "new", turn = "free", SubmitToRetired(t),
         UNCHANGED <<slots, budget, closed, turn>>
  PROVE  Inv'
<1>0. PICK s \in RetiredSlots : \E r \in ReplaceSlot(slot[s]) : ~r.dead /\ Grant(t, s, r)
  BY DEF SubmitToRetired
<1>1. PICK r \in ReplaceSlot(slot[s]) : ~r.dead /\ Grant(t, s, r)
  BY <1>0
<1>2. /\ ~closed /\ waiters' = waiters /\ IdleSlots = {}
      /\ s \in slots /\ s \in Slot /\ ~slot[s].busy
      /\ r \in SlotState /\ ~r.terminated
  BY <1>1, RetiredSlotLemma DEF SubmitToRetired
<1>3. /\ slot' \in [Slot -> SlotState]
      /\ status' \in [Task -> Status]
      /\ holds' \in [Task -> Slot \cup {NoSlot}]
      /\ TerminatedIsDead' /\ HoldersHaveSlots' /\ SlotAccounting'
  BY <1>1, <1>2, GrantLemma
<1>4. TypeOK'
  BY <1>2, <1>3 DEF Inv, TypeOK
<1>5. QueueConsistent'
  <2>1. \A u \in Task : u # t => status'[u] = status[u]
    BY <1>1 DEF Grant, Inv, TypeOK
  <2> QED BY <1>2, <2>1, SameQueueLemma
<1>6. slot'[s].busy /\ ~slot'[s].dead /\ \A x \in Slot : x # s => slot'[x] = slot[x]
  BY <1>1, <1>2 DEF Grant, Inv, TypeOK, SlotState
<1>7. WaitersServed'
  BY <1>2, <1>6 DEF WaitersServed, IdleSlots, Inv, TypeOK
<1> QED BY <1>3, <1>4, <1>5, <1>7 DEF Inv

\* A respawn that failed changes one idle slot, which ends up dead.
LEMMA FailedRespawnLemma ==
  ASSUME Inv, NEW s \in RetiredSlots, NEW r \in ReplaceSlot(slot[s]), r.dead,
         slot' = [slot EXCEPT ![s] = r]
  PROVE  /\ slot' \in [Slot -> SlotState]
         /\ TerminatedIsDead'
         /\ \A x \in Slot : slot'[x].busy = slot[x].busy
         /\ \A x \in Slot : ~slot'[x].dead \/ slot[x].busy => slot'[x] = slot[x]
<1>1. s \in Slot /\ r \in SlotState /\ r.busy = slot[s].busy
  BY RetiredSlotLemma DEF Inv, TypeOK, SlotState
<1>2. ~slot[s].busy
  BY RetiredSlotLemma
<1> QED BY <1>1, <1>2 DEF Inv, TypeOK, TerminatedIsDead

\* acquire that queues the submission does so while a live worker is busy.
LEMMA SubmitAndWaitInv ==
  ASSUME Inv, NEW t \in Task, status[t] = "new", turn = "free", SubmitAndWait(t),
         UNCHANGED <<slots, budget, closed, turn>>
  PROVE  Inv'
<1>1. /\ slot' \in [Slot -> SlotState]
      /\ TerminatedIsDead'
      /\ \A x \in Slot : slot'[x].busy = slot[x].busy
      /\ \A x \in Slot : ~slot'[x].dead \/ slot[x].busy => slot'[x] = slot[x]
  <2>1. CASE UNCHANGED slot
    BY <2>1 DEF Inv, TypeOK, TerminatedIsDead
  <2>2. CASE ~UNCHANGED slot
    <3>1. PICK s \in RetiredSlots :
            \E r \in ReplaceSlot(slot[s]) : r.dead /\ slot' = [slot EXCEPT ![s] = r]
      BY <2>2 DEF SubmitAndWait
    <3>2. PICK r \in ReplaceSlot(slot[s]) : r.dead /\ slot' = [slot EXCEPT ![s] = r]
      BY <3>1
    <3> QED BY <3>2, FailedRespawnLemma
  <2> QED BY <2>1, <2>2
<1>2. ~closed /\ ~closed' /\ IdleSlots = {} /\ IdleSlots' = {}
  BY <1>1 DEF SubmitAndWait, IdleSlots, Inv, TypeOK
<1>3. /\ UNCHANGED holds
      /\ \A u \in Task : u # t => status'[u] = status[u]
      /\ status'[t] \in {"failed", "waiting"}
  BY DEF SubmitAndWait, Inv, TypeOK
<1>4. HoldersHaveSlots' /\ SlotAccounting'
  <2>1. \A u \in Task : status'[u] \in Holding <=> status[u] \in Holding
    BY <1>3 DEF Holding
  <2> QED BY <1>1, <1>3, <2>1, SameHoldersLemma
<1>5. CASE AllDead(slot')
  <2>1. UNCHANGED waiters /\ status' = [status EXCEPT ![t] = "failed"]
    BY <1>5 DEF SubmitAndWait
  <2>2. TypeOK'
    BY <1>1, <1>3, <2>1 DEF Inv, TypeOK, Status, Settled
  <2>3. QueueConsistent'
    BY <1>3, <2>1, SameQueueLemma
  <2>4. WaitersServed'
    BY <1>1, <1>2, <2>1 DEF Inv, TypeOK, WaitersServed
  <2> QED BY <1>1, <1>4, <2>2, <2>3, <2>4 DEF Inv
<1>6. CASE ~AllDead(slot')
  <2>1. waiters' = Append(waiters, t) /\ status' = [status EXCEPT ![t] = "waiting"]
    BY <1>6 DEF SubmitAndWait
  <2>2. TypeOK'
    BY <1>1, <1>3, <2>1 DEF Inv, TypeOK, Status
  <2>3. QueueConsistent'
    <3>1. /\ waiters \in Seq(Task) /\ Len(waiters) \in Nat
          /\ Len(waiters') = Len(waiters) + 1
          /\ waiters'[Len(waiters) + 1] = t
          /\ \A i \in 1..Len(waiters) : waiters'[i] = waiters[i] /\ waiters[i] \in Task
      BY <2>1 DEF Inv, TypeOK
    <3>2. \A i \in 1..Len(waiters) : waiters[i] # t
      BY DEF Inv, QueueConsistent
    <3>3. status'[t] = "waiting"
      BY <2>1 DEF Inv, TypeOK
    <3> QED BY <1>2, <1>3, <3>1, <3>2, <3>3 DEF Inv, QueueConsistent
  <2>4. WaitersServed'
    <3>1. PICK s \in slots : ~slot'[s].dead
      BY <1>6 DEF AllDead
    <3>2. slot'[s].busy
      BY <1>2, <3>1 DEF IdleSlots
    <3> QED BY <1>2, <3>1, <3>2 DEF WaitersServed
  <2> QED BY <1>1, <1>4, <2>2, <2>3, <2>4 DEF Inv
<1> QED BY <1>5, <1>6

\* acquire preserves the invariant, whichever way it ends.
LEMMA SubmitInv ==
  ASSUME Inv, NEW t \in Task, Submit(t)
  PROVE  Inv'
BY SubmitToClosedInv, SubmitToIdleInv, SubmitToRetiredInv, SubmitAndWaitInv DEF Submit

\* Starting a body and receiving a reply touch no flag of any slot.
LEMMA SameFlagsLemma ==
  ASSUME Inv, NEW t \in Task, status[t] \in Holding, turn = "free",
         UNCHANGED <<slots, waiters, holds, budget, closed, turn>>,
         NEW h \in Holding, status' = [status EXCEPT ![t] = h],
         slot' \in [Slot -> SlotState],
         \A s \in Slot : /\ slot'[s].busy = slot[s].busy
                         /\ slot'[s].dead = slot[s].dead
                         /\ slot'[s].terminated = slot[s].terminated
  PROVE  Inv'
<1>1. /\ status'[t] \in Holding
      /\ \A u \in Task : u # t => status'[u] = status[u]
  BY DEF Inv, TypeOK
<1>2. TypeOK' /\ TerminatedIsDead'
  BY DEF Inv, TypeOK, TerminatedIsDead, Status, Holding
<1>3. HoldersHaveSlots' /\ SlotAccounting'
  BY <1>1, SameHoldersLemma
<1>4. status[t] # "waiting"
  BY DEF Holding
<1>5. QueueConsistent'
  BY <1>1, <1>4, SameQueueLemma
<1>6. WaitersServed'
  BY DEF Inv, TypeOK, WaitersServed, IdleSlots
<1> QED BY <1>2, <1>3, <1>5, <1>6 DEF Inv

\* Entering the body touches the status of one holder only.
LEMMA StartInv ==
  ASSUME Inv, NEW t \in Task, Start(t)
  PROVE  Inv'
<1>1. /\ slot' \in [Slot -> SlotState]
      /\ \A s \in Slot : /\ slot'[s].busy = slot[s].busy
                         /\ slot'[s].dead = slot[s].dead
                         /\ slot'[s].terminated = slot[s].terminated
  <2>1. CASE slot' = slot
    BY <2>1 DEF Inv, TypeOK
  <2>2. CASE slot' # slot
    <3>1. /\ slot' = [slot EXCEPT ![holds[t]].lastInput = InputOf[t]]
          /\ ~closed /\ status[t] \in Holding
      BY <2>2 DEF Start, Holding
    <3>2. holds[t] \in Slot /\ InputOf[t] \in Input
      BY <3>1, PoolAssumption DEF Inv, HoldersHaveSlots
    <3> DEFINE reviewed == [slot[holds[t]] EXCEPT !.lastInput = InputOf[t]]
    <3>3. slot[holds[t]] \in SlotState
      BY <3>2 DEF Inv, TypeOK
    <3>4. /\ reviewed \in SlotState
          /\ reviewed.busy = slot[holds[t]].busy
          /\ reviewed.dead = slot[holds[t]].dead
          /\ reviewed.terminated = slot[holds[t]].terminated
      BY <3>2, <3>3 DEF SlotState
    <3>5. slot' = [slot EXCEPT ![holds[t]] = reviewed]
      BY <3>1
    <3> HIDE DEF reviewed
    <3> QED BY <3>2, <3>4, <3>5 DEF Inv, TypeOK
  <2> QED BY <2>1, <2>2
<1>2. status[t] \in Holding /\ "running" \in Holding
  BY DEF Start, Holding
<1> QED BY <1>1, <1>2, SameFlagsLemma DEF Start

\* A worker's reply touches its heap and its holder's status only.
LEMMA ReplyInv ==
  ASSUME Inv, NEW t \in Task, Reply(t)
  PROVE  Inv'
<1>1. PICK h \in {"answered", "refused"} : status' = [status EXCEPT ![t] = h]
  BY DEF Reply
<1>2. PICK bytes \in WasmSizes :
        slot' = [slot EXCEPT ![holds[t]].heap = IF bytes > @ THEN bytes ELSE @]
  BY DEF Reply
<1>3. status[t] \in Holding /\ h \in Holding /\ ~closed
  BY DEF Reply, Holding
<1>4. holds[t] \in Slot /\ bytes \in Nat
  BY <1>3, PoolAssumption DEF Inv, HoldersHaveSlots
<1> DEFINE grown == IF bytes > slot[holds[t]].heap THEN bytes ELSE slot[holds[t]].heap
<1>5. grown \in Nat /\ slot' = [slot EXCEPT ![holds[t]] = [@ EXCEPT !.heap = grown]]
  BY <1>2, <1>4 DEF Inv, TypeOK, SlotState
<1> HIDE DEF grown
<1> DEFINE renewed == [slot[holds[t]] EXCEPT !.heap = grown]
<1>7. slot \in [Slot -> SlotState]
  BY DEF Inv, TypeOK
<1>8. /\ renewed \in SlotState
      /\ renewed.busy = slot[holds[t]].busy
      /\ renewed.dead = slot[holds[t]].dead
      /\ renewed.terminated = slot[holds[t]].terminated
  <2>1. slot[holds[t]] \in SlotState
    BY <1>4, <1>7
  <2> QED BY <1>5, <2>1 DEF SlotState
<1>9. slot' = [slot EXCEPT ![holds[t]] = renewed]
  BY <1>5
<1> HIDE DEF renewed
<1>6. /\ slot' \in [Slot -> SlotState]
      /\ \A s \in Slot : /\ slot'[s].busy = slot[s].busy
                         /\ slot'[s].dead = slot[s].dead
                         /\ slot'[s].terminated = slot[s].terminated
  BY <1>4, <1>7, <1>8, <1>9
<1> QED BY <1>1, <1>3, <1>6, SameFlagsLemma DEF Reply

\* Giving a slot back frees it: its holder was the only one.
LEMMA ReleaseLemma ==
  ASSUME Inv, NEW t \in Task, status[t] \in Holding, ~closed,
         NEW r \in SlotState, ~r.busy, r.terminated => r.dead,
         Release(t, holds[t], r),
         NEW v \in Settled, status' = [status EXCEPT ![t] = v],
         UNCHANGED <<slots, waiters, budget, closed>>
  PROVE  Inv'
<1> USE DEF Release
<1>1. holds[t] \in Slot
  BY DEF Inv, HoldersHaveSlots
<1>2. TypeOK' /\ TerminatedIsDead'
  BY <1>1 DEF Inv, TypeOK, TerminatedIsDead, Status
<1>3. /\ v \notin Holding /\ status'[t] = v /\ status[t] # "waiting"
      /\ \A u \in Task : u # t => status'[u] = status[u] /\ holds'[u] = holds[u]
  BY DEF Inv, TypeOK, Settled, Holding
<1>4. QueueConsistent'
  BY <1>3, SameQueueLemma
<1>5. HoldersHaveSlots'
  BY <1>3 DEF Inv, HoldersHaveSlots
<1>6. ASSUME NEW x \in Slot
      PROVE  slot'[x].busy <=> \E u \in Task : status'[u] \in Holding /\ holds'[u] = x
  <2>1. CASE x = holds[t]
    <3>1. ~slot'[x].busy
      BY <1>1, <2>1 DEF Inv, TypeOK
    <3>2. \A u \in Task : u # t /\ status[u] \in Holding => holds[u] # x
      BY <2>1 DEF Inv, SlotAccounting
    <3> QED BY <1>3, <3>1, <3>2
  <2>2. CASE x # holds[t]
    <3>1. slot'[x] = slot[x]
      BY <1>1, <2>2 DEF Inv, TypeOK
    <3> QED BY <1>3, <2>2, <3>1 DEF Inv, SlotAccounting
  <2> QED BY <2>1, <2>2
<1>7. SlotAccounting'
  BY <1>3, <1>6 DEF Inv, SlotAccounting
<1>8. WaitersServed'
  BY DEF WaitersServed
<1> QED BY <1>2, <1>4, <1>5, <1>7, <1>8 DEF Inv

\* After termination a settled submission gives nothing back.
LEMMA ReleaseNothingLemma ==
  ASSUME Inv, NEW t \in Task, status[t] \in Holding, ReleaseNothing(t),
         NEW v \in Settled, status' = [status EXCEPT ![t] = v],
         UNCHANGED <<slots, waiters, budget, closed>>
  PROVE  Inv'
<1> USE DEF ReleaseNothing
<1>1. TypeOK' /\ TerminatedIsDead'
  BY DEF Inv, TypeOK, TerminatedIsDead, Status
<1>2. QueueConsistent' /\ WaitersServed'
  BY DEF Inv, QueueConsistent, WaitersServed
<1>3. HoldersHaveSlots' /\ SlotAccounting'
  BY DEF HoldersHaveSlots, SlotAccounting
<1> QED BY <1>1, <1>2, <1>3 DEF Inv

\* runOnSlot's success path gives the slot back, then trims and pumps.
LEMMA SettleOkInv ==
  ASSUME Inv, NEW t \in Task, SettleOk(t)
  PROVE  Inv'
<1>1. /\ status[t] \in Holding /\ "ok" \in Settled
      /\ status' = [status EXCEPT ![t] = "ok"]
      /\ UNCHANGED <<slots, waiters, budget, closed>>
  BY DEF SettleOk, Holding, Settled
<1>2. CASE ReleaseNothing(t)
  BY <1>1, <1>2, ReleaseNothingLemma
<1>3. CASE ~ReleaseNothing(t)
  <2> DEFINE w == [slot[holds[t]] EXCEPT !.wasmMemory = slot[holds[t]].heap]
  <2>1. ~closed
    BY <1>3 DEF SettleOk
  <2>2. PICK r \in ReleaseSlot(w) : Release(t, holds[t], r)
    BY <1>3 DEF SettleOk
  <2>3. w \in SlotState /\ (w.terminated => w.dead)
    <3>1. holds[t] \in Slot /\ slot[holds[t]] \in SlotState
      BY <1>1, <2>1 DEF Inv, HoldersHaveSlots, TypeOK
    <3> QED BY <3>1 DEF Inv, TerminatedIsDead, SlotState
  <2> HIDE DEF w
  <2>4. r \in SlotState /\ ~r.busy /\ (r.terminated => r.dead)
    BY <2>3, ReleaseSlotLemma
  <2> QED BY <1>1, <2>1, <2>2, <2>4, ReleaseLemma
<1> QED BY <1>2, <1>3

\* runOnSlot's catch and finally clauses give the slot back, then trim and pump.
LEMMA SettleErrorInv ==
  ASSUME Inv, NEW t \in Task, SettleError(t)
  PROVE  Inv'
<1>1. /\ status[t] \in Holding /\ "failed" \in Settled
      /\ status' = [status EXCEPT ![t] = "failed"]
      /\ UNCHANGED <<slots, waiters, budget, closed>>
  BY DEF SettleError, RaceLost, Holding, Settled
<1>2. CASE ReleaseNothing(t)
  BY <1>1, <1>2, ReleaseNothingLemma
<1>3. CASE ~ReleaseNothing(t)
  <2>1. ~closed
    BY <1>3 DEF SettleError
  <2>2. PICK k \in RetireAfterError(slot[holds[t]]) :
          \E r \in ReleaseSlot(k) : Release(t, holds[t], r)
    BY <1>3 DEF SettleError
  <2>3. PICK r \in ReleaseSlot(k) : Release(t, holds[t], r)
    BY <2>2
  <2>4. /\ slot[holds[t]] \in SlotState
        /\ slot[holds[t]].terminated => slot[holds[t]].dead
    BY <1>1, <2>1 DEF Inv, HoldersHaveSlots, TypeOK, TerminatedIsDead
  <2>5. k \in SlotState /\ (k.terminated => k.dead)
    BY <2>4, RetireAfterErrorLemma
  <2>6. r \in SlotState /\ ~r.busy /\ (r.terminated => r.dead)
    BY <2>5, ReleaseSlotLemma
  <2> QED BY <1>1, <2>1, <2>3, <2>6, ReleaseLemma
<1> QED BY <1>2, <1>3

\* Every iteration of trimRetainedSlots touches one idle live slot.
LEMMA TrimInv ==
  ASSUME Inv, TrimStep
  PROVE  Inv'
<1>0. UNCHANGED <<waiters, status, holds, budget, closed>>
  BY DEF TrimStep
<1>1. CASE EndTrim /\ UNCHANGED <<slots, slot>>
  <2>1. TypeOK' /\ TerminatedIsDead' /\ QueueConsistent'
    BY <1>0, <1>1 DEF Inv, TypeOK, TerminatedIsDead, QueueConsistent, EndTrim
  <2>2. HoldersHaveSlots' /\ SlotAccounting'
    BY <1>0, <1>1, SameHoldersLemma
  <2>3. WaitersServed'
    BY <1>0, <1>1 DEF Inv, WaitersServed, IdleSlots, EndTrim, TrimStep
  <2> QED BY <2>1, <2>2, <2>3 DEF Inv
<1>2. CASE ~(EndTrim /\ UNCHANGED <<slots, slot>>)
  <2>1. PICK s \in Trimmable : TrimSlot(s)
    BY <1>2 DEF TrimStep
  <2> DEFINE lone == Cardinality(LiveSlots) = 1
             d == [slot[s] EXCEPT !.dead = TRUE, !.retired = @ \/ lone]
  <2>2. PICK r \in TerminateSlot(d) :
          /\ slot' = [slot EXCEPT ![s] = r]
          /\ IF lone \/ ~r.terminated
             THEN EndTrim /\ UNCHANGED slots
             ELSE slots' = slots \ {s} /\ UNCHANGED turn
    BY <2>1 DEF TrimSlot
  <2>3. /\ s \in slots /\ s \in Slot /\ slot[s] \in SlotState
        /\ ~slot[s].busy /\ ~slot[s].dead
    BY DEF Trimmable, LiveSlots, Inv, TypeOK
  <2>4. d \in SlotState /\ d.dead /\ ~d.busy
    BY <2>3 DEF SlotState
  <2> HIDE DEF d, lone
  <2>5. r \in SlotState /\ r.dead /\ ~r.busy
    BY <2>4, TerminateSlotLemma
  <2>6. turn \in {"trim", "trimOnly"} /\ turn' \in {"trim", "trimOnly", "pump", "free"}
    BY <2>2 DEF TrimStep, EndTrim
  <2>7. TypeOK' /\ TerminatedIsDead' /\ QueueConsistent'
    BY <1>0, <2>2, <2>3, <2>5, <2>6
       DEF Inv, TypeOK, TerminatedIsDead, QueueConsistent
  <2>8. HoldersHaveSlots' /\ SlotAccounting'
    <3>1. \A x \in Slot : slot'[x].busy = slot[x].busy
      BY <2>2, <2>3, <2>5 DEF Inv, TypeOK, SlotState
    <3> QED BY <1>0, <3>1, SameHoldersLemma
  <2>9. WaitersServed'
    <3>1. turn = "trim" => turn' \in {"trim", "pump"}
      BY <2>2 DEF EndTrim
    <3>2. CASE turn = "trimOnly"
      <4>1. waiters = <<>>
        BY <2>3, <3>2 DEF Inv, WaitersServed, IdleSlots
      <4> QED BY <1>0, <4>1 DEF WaitersServed
    <3> QED BY <2>6, <3>1, <3>2 DEF WaitersServed
  <2> QED BY <2>7, <2>8, <2>9 DEF Inv
<1> QED BY <1>1, <1>2

\* Installing a budget changes no slot and no submission.
LEMMA SetRetainedMemoryBudgetInv ==
  ASSUME Inv, NEW b \in Budgets, SetRetainedMemoryBudget(b)
  PROVE  Inv'
<1> USE DEF SetRetainedMemoryBudget
<1>1. TypeOK' /\ TerminatedIsDead' /\ QueueConsistent'
  BY PoolAssumption DEF Inv, TypeOK, TerminatedIsDead, QueueConsistent
<1>2. HoldersHaveSlots' /\ SlotAccounting'
  BY SameHoldersLemma
<1>3. WaitersServed'
  BY DEF Inv, WaitersServed, IdleSlots
<1> QED BY <1>1, <1>2, <1>3 DEF Inv

\* pump hands the head of the queue a slot that nobody holds.
LEMMA HandOverLemma ==
  ASSUME Inv, turn = "pump", waiters # <<>>,
         NEW s \in slots, ~slot[s].busy,
         NEW r \in SlotState, r.terminated => r.dead,
         HandOver(s, r), UNCHANGED <<slots, budget, closed>>
  PROVE  Inv'
<1> DEFINE t == Head(waiters)
<1>1. /\ waiters \in Seq(Task) /\ Len(waiters) \in Nat /\ 1 \in 1..Len(waiters)
      /\ t = waiters[1] /\ t \in Task /\ status[t] = "waiting" /\ ~closed
  BY DEF Inv, TypeOK, QueueConsistent
<1>2. /\ Grant(t, s, r) /\ waiters' = Tail(waiters) /\ UNCHANGED turn
      /\ waiters' \in Seq(Task) /\ Len(waiters') = Len(waiters) - 1
      /\ \A i \in 1..Len(waiters') : waiters'[i] = waiters[i + 1]
  BY <1>1 DEF HandOver
<1> HIDE DEF t
<1>3. /\ slot' \in [Slot -> SlotState]
      /\ status' \in [Task -> Status]
      /\ holds' \in [Task -> Slot \cup {NoSlot}]
      /\ TerminatedIsDead' /\ HoldersHaveSlots' /\ SlotAccounting'
  BY <1>1, <1>2, GrantLemma
<1>4. TypeOK'
  BY <1>2, <1>3 DEF Inv, TypeOK
<1>5. QueueConsistent'
  <2>1. \A u \in Task : u # t => status'[u] = status[u]
    BY <1>2 DEF Grant, Inv, TypeOK
  <2>2. \A i \in 1..Len(waiters') : /\ i + 1 \in 1..Len(waiters)
                                    /\ i + 1 # 1
                                    /\ waiters[i + 1] \in Task
    BY <1>1, <1>2
  <2>3. \A i \in 1..Len(waiters') : waiters'[i] # t /\ status'[waiters'[i]] = "waiting"
    BY <1>1, <1>2, <2>1, <2>2 DEF Inv, QueueConsistent
  <2>4. ASSUME NEW i \in 1..Len(waiters'), NEW j \in 1..Len(waiters'),
               waiters'[i] = waiters'[j]
        PROVE  i = j
    <3>1. i \in Nat /\ j \in Nat /\ i + 1 = j + 1
      BY <1>2, <2>2, <2>4 DEF Inv, QueueConsistent
    <3> QED BY <3>1
  <2> QED BY <1>1, <2>3, <2>4 DEF QueueConsistent
<1>6. WaitersServed'
  BY <1>2 DEF WaitersServed
<1> QED BY <1>3, <1>4, <1>5, <1>6 DEF Inv

\* pump ends: either nobody waits, or every slot is dead, or a live one is busy.
LEMMA EndPumpLemma ==
  ASSUME Inv, EndPump, UNCHANGED <<slots, budget, closed>>,
         slot' \in [Slot -> SlotState], TerminatedIsDead',
         \A x \in Slot : slot'[x].busy = slot[x].busy,
         waiters # <<>> => IdleSlots' = {}
  PROVE  Inv'
<1> USE DEF EndPump
<1>1. \A u \in Task : /\ status'[u] \in Holding <=> status[u] \in Holding
                      /\ status'[u] \in Status
  BY DEF Inv, TypeOK, RejectWaiters, Status, Holding, Settled
<1>2. HoldersHaveSlots' /\ SlotAccounting'
  BY <1>1, SameHoldersLemma
<1>3. CASE waiters # <<>> /\ AllDead(slot')
  <2>1. RejectWaiters
    BY <1>3
  <2>2. TypeOK' /\ QueueConsistent' /\ WaitersServed'
    BY <1>1, <2>1 DEF Inv, TypeOK, RejectWaiters, QueueConsistent, WaitersServed
  <2> QED BY <1>2, <2>2 DEF Inv
<1>4. CASE ~(waiters # <<>> /\ AllDead(slot'))
  <2>1. UNCHANGED <<status, waiters>>
    BY <1>4
  <2>2. TypeOK' /\ QueueConsistent'
    BY <2>1 DEF Inv, TypeOK, QueueConsistent
  <2>3. WaitersServed'
    BY <1>4, <2>1 DEF WaitersServed, AllDead, IdleSlots
  <2> QED BY <1>2, <2>2, <2>3 DEF Inv
<1> QED BY <1>3, <1>4

\* Every step of pump keeps the invariant: grant, failed respawn, or end.
LEMMA PumpInv ==
  ASSUME Inv, PumpStep
  PROVE  Inv'
<1>1. turn = "pump" /\ UNCHANGED <<slots, budget, closed>>
  BY DEF PumpStep
<1>2. CASE /\ waiters # <<>>
           /\ \E s \in IdleSlots : HandOver(s, slot[s])
  <2>1. PICK s \in IdleSlots : HandOver(s, slot[s])
    BY <1>2
  <2>2. /\ s \in slots /\ ~slot[s].busy /\ slot[s] \in SlotState
        /\ slot[s].terminated => slot[s].dead
    BY DEF IdleSlots, Inv, TypeOK, TerminatedIsDead
  <2> QED BY <1>1, <1>2, <2>1, <2>2, HandOverLemma
<1>3. CASE /\ waiters # <<>> /\ IdleSlots = {}
           /\ \E s \in RetiredSlots : \E r \in ReplaceSlot(slot[s]) :
                IF r.dead
                THEN slot' = [slot EXCEPT ![s] = r] /\ EndPump
                ELSE HandOver(s, r)
  <2>1. PICK s \in RetiredSlots : \E r \in ReplaceSlot(slot[s]) :
          IF r.dead
          THEN slot' = [slot EXCEPT ![s] = r] /\ EndPump
          ELSE HandOver(s, r)
    BY <1>3
  <2>2. PICK r \in ReplaceSlot(slot[s]) :
          IF r.dead
          THEN slot' = [slot EXCEPT ![s] = r] /\ EndPump
          ELSE HandOver(s, r)
    BY <2>1
  <2>3. CASE r.dead
    <3>1. slot' = [slot EXCEPT ![s] = r] /\ EndPump
      BY <2>2, <2>3
    <3>2. /\ slot' \in [Slot -> SlotState]
          /\ TerminatedIsDead'
          /\ \A x \in Slot : slot'[x].busy = slot[x].busy
          /\ \A x \in Slot : ~slot'[x].dead \/ slot[x].busy => slot'[x] = slot[x]
      BY <2>3, <3>1, FailedRespawnLemma
    <3>3. IdleSlots' = {}
      BY <1>1, <1>3, <3>2 DEF IdleSlots, Inv, TypeOK
    <3> QED BY <1>1, <3>1, <3>2, <3>3, EndPumpLemma
  <2>4. CASE ~r.dead
    <3>1. HandOver(s, r)
      BY <2>2, <2>4
    <3>2. s \in slots /\ ~slot[s].busy /\ r \in SlotState /\ ~r.terminated
      BY <2>4, RetiredSlotLemma
    <3> QED BY <1>1, <1>3, <3>1, <3>2, HandOverLemma
  <2> QED BY <2>3, <2>4
<1>4. CASE /\ waiters = <<>> \/ (IdleSlots = {} /\ RetiredSlots = {})
           /\ UNCHANGED slot
           /\ EndPump
  <2>1. slot' \in [Slot -> SlotState] /\ TerminatedIsDead'
    BY <1>4 DEF Inv, TypeOK, TerminatedIsDead
  <2>2. waiters # <<>> => IdleSlots' = {}
    BY <1>1, <1>4 DEF IdleSlots
  <2> QED BY <1>1, <1>4, <2>1, <2>2, EndPumpLemma
<1> QED BY <1>2, <1>3, <1>4 DEF PumpStep

\* terminate empties the queue and the array.
LEMMA CloseLemma ==
  ASSUME Inv, Close, slot' \in [Slot -> SlotState], TerminatedIsDead'
  PROVE  Inv'
<1> USE DEF Close, RejectWaiters
<1>1. TypeOK' /\ QueueConsistent' /\ WaitersServed'
  BY DEF Inv, TypeOK, Status, Settled, QueueConsistent, WaitersServed
<1>2. HoldersHaveSlots' /\ SlotAccounting'
  BY DEF HoldersHaveSlots, SlotAccounting
<1> QED BY <1>1, <1>2 DEF Inv

\* terminate releases every waiter and empties the slot array.
LEMMA TerminateInv ==
  ASSUME Inv, Terminate
  PROVE  Inv'
<1>1. slot' \in [Slot -> SlotState] /\ TerminatedIsDead' /\ Close
  BY DEF Terminate, Inv, TypeOK, TerminatedIsDead
<1> QED BY <1>1, CloseLemma

\* markDead, with or without a callback that terminates the pool.
LEMMA FaultInv ==
  ASSUME Inv, NEW s \in Slot, Fault(s)
  PROVE  Inv'
<1>1. slot' = [slot EXCEPT ![s] = [@ EXCEPT !.dead = TRUE]]
  BY DEF Fault
<1>2. /\ slot' \in [Slot -> SlotState] /\ TerminatedIsDead'
      /\ \A x \in Slot : slot'[x].busy = slot[x].busy
  BY <1>1, ZenonT(40) DEF Inv, TypeOK, TerminatedIsDead, SlotState
<1>3. CASE Close
  BY <1>2, <1>3, CloseLemma
<1>4. CASE turn' = "pump" /\ UNCHANGED <<slots, waiters, status, holds, budget, closed>>
  <2>1. TypeOK' /\ QueueConsistent' /\ WaitersServed'
    BY <1>2, <1>4 DEF Inv, TypeOK, QueueConsistent, WaitersServed
  <2>2. HoldersHaveSlots' /\ SlotAccounting'
    BY <1>2, <1>4, SameHoldersLemma
  <2> QED BY <1>2, <2>1, <2>2 DEF Inv
<1> QED BY <1>3, <1>4 DEF Fault

\* The constructor establishes the invariant.
LEMMA InitInv == Init => Inv
<1> SUFFICES ASSUME Init PROVE Inv
  OBVIOUS
<1> USE DEF Init
<1>1. TypeOK
  <2>1. slot \in [Slot -> SlotState]
    BY FreshSlotLemma
  <2>2. waiters \in Seq(Task) /\ slots \subseteq Slot /\ status \in [Task -> Status]
    BY DEF Status
  <2> QED BY <2>1, <2>2 DEF TypeOK
<1>2. TerminatedIsDead /\ HoldersHaveSlots /\ QueueConsistent /\ WaitersServed
  BY DEF TerminatedIsDead, HoldersHaveSlots, QueueConsistent, WaitersServed,
         FreshSlot, Holding
<1>3. SlotAccounting
  BY DEF SlotAccounting, FreshSlot, Holding
<1> QED BY <1>1, <1>2, <1>3 DEF Inv

\* Every step of the pool preserves the invariant.
LEMMA NextInv == Inv /\ [Next]_vars => Inv'
<1> SUFFICES ASSUME Inv, [Next]_vars PROVE Inv'
  OBVIOUS
<1>1. ASSUME NEW t \in Task, Submit(t) \/ Start(t) \/ Reply(t) \/ Settle(t)
      PROVE  Inv'
  BY <1>1, SubmitInv, StartInv, ReplyInv, SettleOkInv, SettleErrorInv DEF Settle
<1>2. CASE UNCHANGED vars
  <2>1. TypeOK' /\ TerminatedIsDead' /\ QueueConsistent'
    BY <1>2 DEF vars, Inv, TypeOK, TerminatedIsDead, QueueConsistent
  <2>2. HoldersHaveSlots' /\ SlotAccounting'
    BY <1>2, SameHoldersLemma DEF vars
  <2>3. WaitersServed'
    BY <1>2 DEF vars, Inv, WaitersServed, IdleSlots
  <2> QED BY <2>1, <2>2, <2>3 DEF Inv
<1> QED BY <1>1, <1>2, TrimInv, PumpInv, SetRetainedMemoryBudgetInv, FaultInv,
           TerminateInv DEF Next

-----------------------------------------------------------------------------
(* The theorems. *)

\* The inductive invariant holds in every reachable state.
THEOREM InvHolds == Spec => []Inv
BY InitInv, NextInv, PTL DEF Spec

\* Type correctness of the pool, its slots, its queue and its submissions.
THEOREM TypeCorrect == Spec => []TypeOK
BY InvHolds, PTL DEF Inv

\* For any number of workers and submissions, with any task limit, heap sizes,
\* budgets and failures of spawning and terminating: while the pool is open a
\* slot is busy exactly while one submission holds it.
THEOREM SlotsAccountedFor == Spec => []SlotAccounting
BY InvHolds, PTL DEF Inv

\* Whenever control is back in the event loop and the queue is not empty, a
\* live worker is busy, so a release that pumps the queue is still to come.
THEOREM NoStrandedWaiters == Spec => []WaitersWillBeServed
<1>1. Inv => WaitersWillBeServed
  BY DEF Inv, WaitersServed, WaitersWillBeServed
<1> QED BY <1>1, InvHolds, PTL

\* A grant made by acquire or by pump goes to a live worker of the pool.
LEMMA GrantsLiveStep ==
  ASSUME Inv, [Next]_vars, NEW t \in Task,
         status[t] # "granted", status'[t] = "granted"
  PROVE  LET s == holds'[t] IN
           s \in slots' /\ ~slot'[s].dead /\ ~slot'[s].terminated
<1> DEFINE Goal == LET s == holds'[t] IN
                     s \in slots' /\ ~slot'[s].dead /\ ~slot'[s].terminated
<1>1. ASSUME NEW u \in Task, NEW s \in slots, NEW r \in SlotState,
             ~r.dead, ~r.terminated, Grant(u, s, r), UNCHANGED slots
      PROVE  Goal
  <2>1. u = t
    BY <1>1 DEF Grant, Inv, TypeOK
  <2> QED BY <1>1, <2>1 DEF Grant, Inv, TypeOK, SlotState
<1>2. ASSUME NEW s \in IdleSlots
      PROVE  s \in slots /\ slot[s] \in SlotState /\ ~slot[s].dead /\ ~slot[s].terminated
  BY DEF IdleSlots, Inv, TypeOK, TerminatedIsDead
<1>3. ASSUME NEW u \in Task, Submit(u)
      PROVE  Goal
  <2>1. UNCHANGED slots
    BY <1>3 DEF Submit
  <2>2. CASE SubmitToIdle(u)
    <3>1. PICK s \in IdleSlots : Grant(u, s, slot[s])
      BY <2>2 DEF SubmitToIdle, Preferred
    <3> QED BY <1>1, <1>2, <2>1, <3>1
  <2>3. CASE SubmitToRetired(u)
    <3>1. PICK s \in RetiredSlots : \E r \in ReplaceSlot(slot[s]) : ~r.dead /\ Grant(u, s, r)
      BY <2>3 DEF SubmitToRetired
    <3>2. PICK r \in ReplaceSlot(slot[s]) : ~r.dead /\ Grant(u, s, r)
      BY <3>1
    <3> QED BY <1>1, <2>1, <3>2, RetiredSlotLemma
  <2>4. CASE SubmitToClosed(u) \/ SubmitAndWait(u)
    BY <2>4 DEF SubmitToClosed, SubmitAndWait, Inv, TypeOK
  <2> QED BY <1>3, <2>2, <2>3, <2>4 DEF Submit
<1>4. CASE PumpStep
  <2>1. /\ UNCHANGED slots
        /\ waiters # <<>> => Head(waiters) \in Task
    BY <1>4 DEF PumpStep, Inv, TypeOK
  <2>2. CASE waiters # <<>> /\ \E s \in IdleSlots : HandOver(s, slot[s])
    <3>1. PICK s \in IdleSlots : Grant(Head(waiters), s, slot[s])
      BY <2>2 DEF HandOver
    <3> QED BY <1>1, <1>2, <2>1, <2>2, <3>1
  <2>3. CASE /\ waiters # <<>>
             /\ \E s \in RetiredSlots : \E r \in ReplaceSlot(slot[s]) :
                  ~r.dead /\ HandOver(s, r)
    <3>1. PICK s \in RetiredSlots : \E r \in ReplaceSlot(slot[s]) : ~r.dead /\ HandOver(s, r)
      BY <2>3
    <3>2. PICK r \in ReplaceSlot(slot[s]) : ~r.dead /\ Grant(Head(waiters), s, r)
      BY <3>1 DEF HandOver
    <3> QED BY <1>1, <2>1, <2>3, <3>2, RetiredSlotLemma
  <2>4. CASE EndPump
    BY <2>4 DEF EndPump, RejectWaiters, Inv, TypeOK
  <2> QED BY <1>4, <2>2, <2>3, <2>4 DEF PumpStep
<1>5. ASSUME NEW u \in Task, Start(u) \/ Reply(u) \/ Settle(u)
      PROVE  Goal
  BY <1>5 DEF Start, Reply, Settle, SettleOk, SettleError, Inv, TypeOK
<1>6. CASE TrimStep \/ (\E b \in Budgets : SetRetainedMemoryBudget(b)) \/ UNCHANGED vars
  BY <1>6 DEF TrimStep, SetRetainedMemoryBudget, vars
<1>7. CASE Terminate \/ \E s \in Slot : Fault(s)
  BY <1>7 DEF Terminate, Fault, Close, RejectWaiters, Inv, TypeOK
<1> QED BY <1>3, <1>4, <1>5, <1>6, <1>7 DEF Next

\* acquire and pump only ever hand out workers that are neither dead nor
\* terminated, whatever throws.
THEOREM OnlyLiveWorkersGranted == Spec => GrantsLiveWorker
<1>1. Inv /\ [Next]_vars =>
        [\A t \in Task :
           status[t] # "granted" /\ status'[t] = "granted" =>
             LET s == holds'[t] IN
               s \in slots' /\ ~slot'[s].dead /\ ~slot'[s].terminated]_vars
  BY GrantsLiveStep
<1> QED BY <1>1, InvHolds, PTL DEF Spec, GrantsLiveWorker

-----------------------------------------------------------------------------
(* The order of the queue, where spawning and terminating do not throw.     *)

NothingThrows == ~SpawnMayThrow /\ ~TerminateMayThrow

\* A retired slot awaits its replacement: dead, and held by nobody.
RetiredIsIdle == \A s \in Slot : slot[s].retired => slot[s].dead /\ ~slot[s].busy

\* While submissions are queued no slot could be given to a new one, retired
\* slots included.
NothingToTake == turn \in {"free", "trimOnly"} /\ waiters # <<>> => RetiredSlots = {}

\* Retired slots are kept idle by what a slot operation returns.
LEMMA ReleasedIsIdle ==
  ASSUME NEW r \in SlotState, r.retired => r.dead, r.terminated => r.dead, NEW k \in ReleaseSlot(r)
  PROVE  k.retired => k.dead /\ ~k.busy
<1> DEFINE idle == [r EXCEPT !.busy = FALSE, !.completedTasks = @ + 1]
<1>1. /\ idle \in SlotState /\ ~idle.busy
      /\ idle.retired => idle.dead
  <2>1. r.completedTasks + 1 \in Nat
    BY DEF SlotState
  <2>2. idle \in SlotState
    BY <2>1 DEF SlotState
  <2>3. ~idle.busy /\ idle.retired = r.retired /\ idle.dead = r.dead
    BY DEF SlotState
  <2> QED BY <2>2, <2>3
<1> HIDE DEF idle
<1>2. PICK j \in RetireAtLimit(idle) :
        k \in IF j.dead /\ waiters # <<>> THEN ReplaceSlot(j) ELSE {j}
  BY DEF ReleaseSlot, idle
<1>3. j \in SlotState /\ ~j.busy /\ (j.retired => j.dead)
  <2>1. CASE j = idle
    BY <1>1, <2>1
  <2>2. CASE j \in TerminateSlot([idle EXCEPT !.dead = TRUE, !.retired = TRUE])
    <3> DEFINE d == [idle EXCEPT !.dead = TRUE, !.retired = TRUE]
    <3>1. d \in SlotState /\ d.dead /\ ~d.busy
      BY <1>1 DEF SlotState
    <3> HIDE DEF d
    <3>2. j \in TerminateSlot(d)
      BY <2>2 DEF d
    <3> QED BY <3>1, <3>2, TerminateSlotLemma
  <2> QED BY <1>2, <2>1, <2>2 DEF RetireAtLimit
<1>4. CASE k = j
  BY <1>3, <1>4
<1>5. CASE k \in ReplaceSlot(j)
  <2>1. ~k.busy /\ (k = j \/ k = FreshSlot \/ k.dead)
    BY <1>3, <1>5, ReplaceSlotLemma
  <2> QED BY <1>3, <2>1 DEF FreshSlot
<1> QED BY <1>2, <1>4, <1>5

\* A change of one slot keeps retired slots idle if that slot is well.
LEMMA OneSlotIdle ==
  ASSUME Inv, RetiredIsIdle, NEW s, NEW r, slot' = [slot EXCEPT ![s] = r],
         r.retired => r.dead /\ ~r.busy
  PROVE  RetiredIsIdle'
BY DEF Inv, TypeOK, RetiredIsIdle

\* The slot that is granted is not retired.
LEMMA GrantedNotRetired ==
  ASSUME Inv, RetiredIsIdle, NEW t, NEW s, NEW r \in SlotState, Grant(t, s, r), ~r.retired
  PROVE  RetiredIsIdle'
<1>1. slot' = [slot EXCEPT ![s] = [r EXCEPT !.busy = TRUE]]
  BY DEF Grant
<1>2. ~[r EXCEPT !.busy = TRUE].retired
  BY DEF SlotState
<1> QED BY <1>1, <1>2, OneSlotIdle

\* Replacing a retired slot either renews it or leaves it retired and dead.
LEMMA ReplacedIsIdle ==
  ASSUME NEW r \in SlotState, NEW k \in ReplaceSlot(r), ~r.busy
  PROVE  /\ k.dead => (k.retired => k.dead /\ ~k.busy)
         /\ r.retired /\ ~k.dead => k \in SlotState /\ ~k.retired
         /\ r.retired /\ NothingThrows => ~k.dead
<1>1. /\ k \in SlotState /\ ~k.busy
      /\ r.retired /\ ~k.dead => k = FreshSlot
  BY ReplaceSlotLemma
<1>2. ASSUME r.retired, NothingThrows
      PROVE  ~k.dead
  <2>1. PICK j : j = [r EXCEPT !.terminated = TRUE]
    OBVIOUS
  <2>2. TerminateSlot(r) = {j} /\ j.terminated
    BY <1>2, <2>1 DEF TerminateSlot, NothingThrows, SlotState
  <2>3. Respawn(j) = {FreshSlot}
    BY <1>2 DEF Respawn, NothingThrows
  <2>4. k \in Respawn(j)
    BY <1>2, <2>2 DEF ReplaceSlot
  <2> QED BY <2>3, <2>4 DEF FreshSlot
<1> QED BY <1>1, <1>2 DEF FreshSlot

\* Every step keeps retired slots idle, whatever throws.
LEMMA RetiredStaysIdle ==
  ASSUME Inv, RetiredIsIdle, [Next]_vars
  PROVE  RetiredIsIdle'
<1>0. slot \in [Slot -> SlotState] /\ slots \subseteq Slot
  BY DEF Inv, TypeOK
<1>1. ASSUME NEW s \in IdleSlots
      PROVE  slot[s] \in SlotState /\ ~slot[s].retired
  BY <1>0, <1>1 DEF IdleSlots, RetiredIsIdle
<1>2. ASSUME NEW s \in RetiredSlots
      PROVE  slot[s] \in SlotState /\ ~slot[s].busy /\ slot[s].retired
  BY <1>0, <1>2 DEF RetiredSlots
<1>3. ASSUME NEW u \in Task, Submit(u)
      PROVE  RetiredIsIdle'
  <2>1. CASE SubmitToIdle(u)
    <3>1. PICK s \in IdleSlots : Grant(u, s, slot[s])
      BY <2>1 DEF SubmitToIdle, Preferred
    <3> QED BY <1>1, <3>1, GrantedNotRetired
  <2>2. CASE SubmitToRetired(u)
    <3>1. PICK s \in RetiredSlots : \E r \in ReplaceSlot(slot[s]) : ~r.dead /\ Grant(u, s, r)
      BY <2>2 DEF SubmitToRetired
    <3>2. PICK r \in ReplaceSlot(slot[s]) : ~r.dead /\ Grant(u, s, r)
      BY <3>1
    <3> QED BY <1>2, <3>2, ReplacedIsIdle, GrantedNotRetired
  <2>3. CASE SubmitAndWait(u)
    <3>1. CASE UNCHANGED slot
      BY <3>1 DEF RetiredIsIdle
    <3>2. CASE slot' # slot
      <4>1. PICK s \in RetiredSlots : \E r \in ReplaceSlot(slot[s]) :
              r.dead /\ slot' = [slot EXCEPT ![s] = r]
        BY <2>3, <3>2 DEF SubmitAndWait
      <4>2. PICK r \in ReplaceSlot(slot[s]) : r.dead /\ slot' = [slot EXCEPT ![s] = r]
        BY <4>1
      <4> QED BY <1>2, <4>2, ReplacedIsIdle, OneSlotIdle
    <3> QED BY <3>1, <3>2
  <2>4. CASE SubmitToClosed(u)
    BY <2>4 DEF SubmitToClosed, RetiredIsIdle
  <2> QED BY <1>3, <2>1, <2>2, <2>3, <2>4 DEF Submit
<1>4. ASSUME NEW u \in Task, Start(u) \/ Reply(u)
      PROVE  RetiredIsIdle'
  <2>1. \A s \in Slot : /\ slot'[s].busy = slot[s].busy /\ slot'[s].dead = slot[s].dead
                        /\ slot'[s].retired = slot[s].retired
    <3>1. CASE slot' = slot
      BY <3>1
    <3>2. CASE Start(u) /\ slot' # slot
      BY <1>0, <3>2 DEF Start, SlotState
    <3>3. CASE Reply(u)
      <4>1. PICK h : slot' = [slot EXCEPT ![holds[u]].heap = h]
        BY <3>3 DEF Reply
      <4> QED BY <1>0, <4>1 DEF SlotState
    <3> QED BY <1>4, <3>1, <3>2, <3>3
  <2> QED BY <2>1 DEF RetiredIsIdle
<1>5. ASSUME NEW u \in Task, Settle(u)
      PROVE  RetiredIsIdle'
  <2>1. CASE UNCHANGED slot
    BY <2>1 DEF RetiredIsIdle
  <2>2. CASE ~closed /\ slot' # slot
    <3>1. status[u] \in Holding
      BY <1>5 DEF Settle, SettleOk, SettleError, RaceLost, Holding
    <3>2. holds[u] \in Slot /\ slot[holds[u]] \in SlotState
      BY <1>0, <2>2, <3>1 DEF Inv, HoldersHaveSlots
    <3>3. PICK k \in SlotState : /\ k.retired => k.dead
                                 /\ k.terminated => k.dead
                                 /\ \E r \in ReleaseSlot(k) : slot' = [slot EXCEPT ![holds[u]] = r]
      <4>1. CASE SettleOk(u)
        <5> DEFINE k == [slot[holds[u]] EXCEPT !.wasmMemory = slot[holds[u]].heap]
        <5>1. k \in SlotState /\ k.retired = slot[holds[u]].retired /\ k.dead = slot[holds[u]].dead
              /\ k.terminated = slot[holds[u]].terminated
          BY <3>2 DEF SlotState
        <5>2. \E r \in ReleaseSlot(k) : slot' = [slot EXCEPT ![holds[u]] = r]
          BY <2>2, <4>1 DEF SettleOk, ReleaseNothing, Release
        <5>3. (k.retired => k.dead) /\ (k.terminated => k.dead)
          BY <3>2, <5>1 DEF RetiredIsIdle, Inv, TerminatedIsDead
        <5> HIDE DEF k
        <5> QED BY <5>1, <5>2, <5>3
      <4>2. CASE SettleError(u)
        <5>1. PICK k \in RetireAfterError(slot[holds[u]]) :
                \E r \in ReleaseSlot(k) : slot' = [slot EXCEPT ![holds[u]] = r]
          BY <2>2, <4>2 DEF SettleError, ReleaseNothing, Release
        <5>2. (slot[holds[u]].terminated => slot[holds[u]].dead)
              /\ (slot[holds[u]].retired => slot[holds[u]].dead)
          BY <3>2 DEF RetiredIsIdle, Inv, TerminatedIsDead
        <5>3. k \in SlotState /\ (k.terminated => k.dead)
          BY <3>2, <5>2, RetireAfterErrorLemma
        <5>4. k = slot[holds[u]] \/ k.dead
          <6> DEFINE d == [slot[holds[u]] EXCEPT !.dead = TRUE,
                                                 !.retired = ~slot[holds[u]].dead \/ @]
          <6>1. d \in SlotState /\ d.dead
            BY <3>2 DEF SlotState
          <6>2. k = slot[holds[u]] \/ k \in TerminateSlot(d)
            BY DEF RetireAfterError
          <6> HIDE DEF d
          <6> QED BY <6>1, <6>2, TerminateSlotLemma
        <5> QED BY <5>1, <5>2, <5>3, <5>4
      <4> QED BY <1>5, <4>1, <4>2 DEF Settle
    <3>4. PICK r \in ReleaseSlot(k) : slot' = [slot EXCEPT ![holds[u]] = r]
      BY <3>3
    <3> QED BY <3>3, <3>4, ReleasedIsIdle, OneSlotIdle
  <2> QED BY <1>5, <2>1, <2>2 DEF Settle, SettleOk, SettleError, ReleaseNothing
<1>6. CASE TrimStep
  <2>1. CASE UNCHANGED slot
    BY <2>1 DEF RetiredIsIdle
  <2>2. CASE slot' # slot
    <3>1. PICK s \in Trimmable : TrimSlot(s)
      BY <1>6, <2>2 DEF TrimStep
    <3> DEFINE d == [slot[s] EXCEPT !.dead = TRUE, !.retired = @ \/ Cardinality(LiveSlots) = 1]
    <3>2. PICK r \in TerminateSlot(d) : slot' = [slot EXCEPT ![s] = r]
      BY <3>1 DEF TrimSlot
    <3>3. d \in SlotState /\ d.dead /\ ~d.busy
      BY <1>0 DEF SlotState, Trimmable, LiveSlots
    <3> HIDE DEF d
    <3>4. r.dead /\ ~r.busy
      BY <3>3, TerminateSlotLemma
    <3> QED BY <3>2, <3>4, OneSlotIdle
  <2> QED BY <2>1, <2>2
<1>7. CASE PumpStep
  <2>1. CASE UNCHANGED slot
    BY <2>1 DEF RetiredIsIdle
  <2>2. CASE \E s \in IdleSlots : HandOver(s, slot[s])
    <3>1. PICK s \in IdleSlots : Grant(Head(waiters), s, slot[s])
      BY <2>2 DEF HandOver
    <3> QED BY <1>1, <3>1, GrantedNotRetired
  <2>3. CASE \E s \in RetiredSlots : \E r \in ReplaceSlot(slot[s]) :
               IF r.dead THEN slot' = [slot EXCEPT ![s] = r] /\ EndPump
               ELSE HandOver(s, r)
    <3>1. PICK s \in RetiredSlots : \E r \in ReplaceSlot(slot[s]) :
               IF r.dead THEN slot' = [slot EXCEPT ![s] = r] /\ EndPump
               ELSE HandOver(s, r)
      BY <2>3
    <3>2. PICK r \in ReplaceSlot(slot[s]) :
               IF r.dead THEN slot' = [slot EXCEPT ![s] = r] /\ EndPump
               ELSE HandOver(s, r)
      BY <3>1
    <3>3. CASE r.dead
      BY <1>2, <3>2, <3>3, ReplacedIsIdle, OneSlotIdle
    <3>4. CASE ~r.dead
      BY <1>2, <3>2, <3>4, ReplacedIsIdle, GrantedNotRetired DEF HandOver
    <3> QED BY <3>3, <3>4
  <2> QED BY <1>7, <2>1, <2>2, <2>3 DEF PumpStep
<1>8. ASSUME NEW s \in Slot, Fault(s)
      PROVE  RetiredIsIdle'
  <2>1. slot' = [slot EXCEPT ![s] = [slot[s] EXCEPT !.dead = TRUE]] /\ ~slot[s].dead
    BY <1>8 DEF Fault
  <2>2. [slot[s] EXCEPT !.dead = TRUE].retired = slot[s].retired
    BY <1>0 DEF SlotState
  <2>3. ~slot[s].retired
    BY <2>1 DEF RetiredIsIdle
  <2> QED BY <2>1, <2>2, <2>3, OneSlotIdle
<1>9. CASE Terminate \/ (\E b \in Budgets : SetRetainedMemoryBudget(b)) \/ UNCHANGED vars
  BY <1>9 DEF Terminate, SetRetainedMemoryBudget, vars, RetiredIsIdle
<1> QED BY <1>3, <1>4, <1>5, <1>6, <1>7, <1>8, <1>9 DEF Next

\* pump stops only when nothing is left to hand out, and the trimmer has
\* nothing to retire while submissions are queued.
LEMMA NothingIsLeft ==
  ASSUME NothingThrows, Inv, NothingToTake, [Next]_vars
  PROVE  NothingToTake'
<1>0. slot \in [Slot -> SlotState] /\ slots \subseteq Slot
  BY DEF Inv, TypeOK
<1>1. ASSUME NEW s \in RetiredSlots, NEW r \in ReplaceSlot(slot[s])
      PROVE  ~r.dead
  BY <1>0, <1>1, ReplacedIsIdle DEF RetiredSlots
<1>2. ASSUME UNCHANGED slots, turn = "free",
             \A s \in Slot : slot'[s].busy = slot[s].busy /\ slot'[s].retired = slot[s].retired,
             UNCHANGED waiters
      PROVE  NothingToTake'
  BY <1>0, <1>2 DEF NothingToTake, RetiredSlots
<1>3. ASSUME NEW u \in Task, Submit(u)
      PROVE  NothingToTake'
  <2>1. UNCHANGED <<slots, turn>> /\ turn = "free"
    BY <1>3 DEF Submit
  <2>2. CASE SubmitToClosed(u)
    BY <1>2, <2>1, <2>2 DEF SubmitToClosed
  <2>3. CASE SubmitToIdle(u)
    <3>1. waiters = <<>>
      BY <2>1, <2>3 DEF SubmitToIdle, Preferred, Inv, WaitersServed
    <3> QED BY <2>3, <3>1 DEF SubmitToIdle, NothingToTake
  <2>4. CASE SubmitToRetired(u)
    <3>1. waiters = <<>>
      BY <2>1, <2>4 DEF SubmitToRetired, NothingToTake
    <3> QED BY <2>4, <3>1 DEF SubmitToRetired, NothingToTake
  <2>5. CASE SubmitAndWait(u)
    <3>1. RetiredSlots = {} /\ UNCHANGED slot
      BY <1>1, <2>5 DEF SubmitAndWait
    <3> QED BY <2>1, <3>1 DEF NothingToTake, RetiredSlots
  <2> QED BY <1>3, <2>2, <2>3, <2>4, <2>5 DEF Submit
<1>4. ASSUME NEW u \in Task, Start(u) \/ Reply(u)
      PROVE  NothingToTake'
  <2>1. \A s \in Slot : /\ slot'[s].busy = slot[s].busy /\ slot'[s].retired = slot[s].retired
    <3>1. CASE slot' = slot
      BY <3>1
    <3>2. CASE Start(u) /\ slot' # slot
      BY <1>0, <3>2 DEF Start, SlotState
    <3>3. CASE Reply(u)
      <4>1. PICK h : slot' = [slot EXCEPT ![holds[u]].heap = h]
        BY <3>3 DEF Reply
      <4> QED BY <1>0, <4>1 DEF SlotState
    <3> QED BY <1>4, <3>1, <3>2, <3>3
  <2> QED BY <1>2, <1>4, <2>1 DEF Start, Reply
<1>5. ASSUME NEW u \in Task, Settle(u)
      PROVE  NothingToTake'
  <2>1. CASE closed
    BY <2>1, <1>5 DEF Settle, SettleOk, SettleError, Inv, QueueConsistent, NothingToTake
  <2>2. CASE ~closed
    <3>1. turn' = "trim"
      BY <1>5, <2>2 DEF Settle, SettleOk, SettleError, ReleaseNothing, Release
    <3> QED BY <3>1 DEF NothingToTake
  <2> QED BY <2>1, <2>2
<1>6. CASE TrimStep
  <2>1. CASE turn = "trim"
    <3>1. EndTrim \/ UNCHANGED turn
      <4>1. ASSUME NEW s, TrimSlot(s)
            PROVE  EndTrim \/ UNCHANGED turn
        <5>1. PICK r : IF Cardinality(LiveSlots) = 1 \/ ~r.terminated
                       THEN EndTrim /\ UNCHANGED slots
                       ELSE slots' = slots \ {s} /\ UNCHANGED turn
          BY <4>1 DEF TrimSlot
        <5> QED BY <5>1
      <4> QED BY <1>6, <4>1 DEF TrimStep
    <3>2. turn' \in {"trim", "pump"}
      BY <2>1, <3>1 DEF EndTrim
    <3> QED BY <3>2 DEF NothingToTake
  <2>2. CASE turn = "trimOnly" /\ waiters = <<>>
    BY <1>6, <2>2 DEF TrimStep, NothingToTake
  <2>3. CASE turn = "trimOnly" /\ waiters # <<>>
    <3>1. Trimmable = {}
      BY <2>3 DEF Trimmable, LiveSlots, Inv, WaitersServed, IdleSlots
    <3>2. UNCHANGED <<slots, slot, waiters>>
      BY <1>6, <3>1 DEF TrimStep
    <3> QED BY <2>3, <3>2 DEF NothingToTake, RetiredSlots
  <2> QED BY <1>6, <2>1, <2>2, <2>3 DEF TrimStep
<1>7. CASE PumpStep
  <2>1. CASE \E s, r : HandOver(s, r)
    BY <1>7, <2>1 DEF PumpStep, HandOver, NothingToTake
  <2>2. CASE /\ waiters = <<>> \/ (IdleSlots = {} /\ RetiredSlots = {})
             /\ UNCHANGED slot
             /\ EndPump
    <3>1. waiters' # <<>> => waiters # <<>>
      BY <2>2 DEF EndPump, RejectWaiters
    <3>2. UNCHANGED slots
      BY <1>7 DEF PumpStep
    <3> QED BY <2>2, <3>1, <3>2 DEF NothingToTake, RetiredSlots
  <2> QED BY <1>1, <1>7, <2>1, <2>2 DEF PumpStep
<1>8. ASSUME NEW s \in Slot, Fault(s)
      PROVE  NothingToTake'
  BY <1>8 DEF Fault, Close, RejectWaiters, NothingToTake
<1>9. CASE Terminate
  BY <1>9 DEF Terminate, Close, RejectWaiters, NothingToTake
<1>10. CASE \E b \in Budgets : SetRetainedMemoryBudget(b)
  BY <1>10 DEF SetRetainedMemoryBudget, NothingToTake, RetiredSlots
<1>11. CASE UNCHANGED vars
  BY <1>11 DEF vars, NothingToTake, RetiredSlots
<1> QED BY <1>3, <1>4, <1>5, <1>6, <1>7, <1>8, <1>9, <1>10, <1>11 DEF Next

\* A grant while submissions are queued goes to the oldest of them.
LEMMA OldestIsGranted ==
  ASSUME Inv, NothingToTake, [Next]_vars, NEW t \in Task,
         waiters # <<>>, status[t] # "granted", status'[t] = "granted"
  PROVE  t = Head(waiters)
<1>0. status \in [Task -> Status] /\ Head(waiters) \in Task
  BY DEF Inv, TypeOK
<1>1. ASSUME NEW u \in Task, Submit(u)
      PROVE  FALSE
  <2>1. ~SubmitToIdle(u)
    BY <1>1 DEF Submit, SubmitToIdle, Preferred, Inv, WaitersServed
  <2>2. ~SubmitToRetired(u)
    BY <1>1 DEF Submit, SubmitToRetired, NothingToTake
  <2>3. SubmitToClosed(u) \/ SubmitAndWait(u)
    BY <1>1, <2>1, <2>2 DEF Submit
  <2> QED BY <1>0, <2>3 DEF SubmitToClosed, SubmitAndWait
<1>2. ASSUME NEW u \in Task, Start(u) \/ Reply(u) \/ Settle(u)
      PROVE  FALSE
  BY <1>0, <1>2 DEF Start, Reply, Settle, SettleOk, SettleError
<1>3. CASE PumpStep
  <2>1. CASE \E s, r : Grant(Head(waiters), s, r)
    BY <1>0, <2>1 DEF Grant
  <2>2. CASE EndPump
    BY <1>0, <2>2 DEF EndPump, RejectWaiters
  <2> QED BY <1>3, <2>1, <2>2 DEF PumpStep, HandOver
<1>4. CASE TrimStep \/ (\E b \in Budgets : SetRetainedMemoryBudget(b)) \/ UNCHANGED vars
  BY <1>4 DEF TrimStep, SetRetainedMemoryBudget, vars
<1>5. CASE Terminate \/ \E s \in Slot : Fault(s)
  BY <1>0, <1>5 DEF Terminate, Fault, Close, RejectWaiters
<1> QED BY <1>1, <1>2, <1>3, <1>4, <1>5 DEF Next

\* A queued submission is rejected by terminate, or by pump with every worker
\* faulted.
LEMMA HopelessIsRejected ==
  ASSUME NothingThrows, Inv, RetiredIsIdle, [Next]_vars, NEW t \in Task,
         status[t] = "waiting", status'[t] = "failed"
  PROVE  closed' \/ \A s \in slots : slot[s].dead /\ ~slot[s].retired
<1>0. status \in [Task -> Status] /\ slot \in [Slot -> SlotState] /\ slots \subseteq Slot
  BY DEF Inv, TypeOK
<1>1. ASSUME NEW u \in Task, Submit(u)
      PROVE  FALSE
  <2>1. status[u] = "new" /\ \E x : status' = [status EXCEPT ![u] = x]
    BY <1>1 DEF Submit, SubmitToClosed, SubmitToIdle, SubmitToRetired, SubmitAndWait, Grant
  <2> QED BY <1>0, <2>1
<1>2. ASSUME NEW u \in Task, Start(u) \/ Reply(u) \/ Settle(u)
      PROVE  FALSE
  BY <1>0, <1>2 DEF Start, Reply, Settle, SettleOk, SettleError, RaceLost
<1>3. CASE PumpStep
  <2>1. CASE \E s, r : HandOver(s, r)
    <3>1. status' = [status EXCEPT ![Head(waiters)] = "granted"]
      BY <2>1 DEF HandOver, Grant
    <3> QED BY <1>0, <3>1
  <2>2. CASE /\ waiters = <<>> \/ (IdleSlots = {} /\ RetiredSlots = {})
             /\ UNCHANGED slot
             /\ EndPump
    <3>1. waiters # <<>> /\ AllDead(slot)
      BY <1>0, <2>2 DEF EndPump, AllDead
    <3>2. RetiredSlots = {}
      BY <2>2, <3>1
    <3> QED BY <1>0, <3>1, <3>2 DEF AllDead, RetiredSlots, RetiredIsIdle
  <2>3. \A s \in RetiredSlots : \A r \in ReplaceSlot(slot[s]) : ~r.dead
    BY <1>0, ReplacedIsIdle DEF RetiredSlots
  <2> QED BY <1>3, <2>1, <2>2, <2>3 DEF PumpStep
<1>4. CASE TrimStep \/ (\E b \in Budgets : SetRetainedMemoryBudget(b)) \/ UNCHANGED vars
  BY <1>4 DEF TrimStep, SetRetainedMemoryBudget, vars
<1>5. CASE Terminate \/ \E s \in Slot : Fault(s)
  BY <1>5 DEF Terminate, Fault, Close
<1> QED BY <1>1, <1>2, <1>3, <1>4, <1>5 DEF Next

\* Retired slots are idle in every reachable state.
THEOREM RetiredSlotsAreIdle == Spec => []RetiredIsIdle
<1>1. Init => RetiredIsIdle
  BY DEF Init, RetiredIsIdle, FreshSlot
<1>2. Inv /\ RetiredIsIdle /\ [Next]_vars => RetiredIsIdle'
  BY RetiredStaysIdle
<1> QED BY <1>1, <1>2, InvHolds, PTL DEF Spec

\* If workers can be spawned and terminated, queued submissions start in the
\* order in which they were made, and none that came later overtakes them.
THEOREM NothingOvertakes ==
  ASSUME NothingThrows
  PROVE  Spec => NoOvertaking
<1>1. Init => NothingToTake
  BY DEF Init, NothingToTake
<1>2. Inv /\ NothingToTake /\ [Next]_vars => NothingToTake'
  BY NothingIsLeft
<1>3. Inv /\ NothingToTake /\ [Next]_vars =>
        [\A t \in Task :
           waiters # <<>> /\ status[t] # "granted" /\ status'[t] = "granted"
             => t = Head(waiters)]_vars
  BY OldestIsGranted
<1> QED BY <1>1, <1>2, <1>3, InvHolds, PTL DEF Spec, NoOvertaking

\* If workers can be spawned and terminated, a queued submission is rejected by
\* terminate only, or when every worker has faulted: one that was retired is
\* replaced for it.
THEOREM OnlyHopelessRejected ==
  ASSUME NothingThrows
  PROVE  Spec => RejectedOnlyWhenHopeless
<1>1. Inv /\ RetiredIsIdle /\ [Next]_vars =>
        [\A t \in Task :
           status[t] = "waiting" /\ status'[t] = "failed" =>
             closed' \/ \A s \in slots : slot[s].dead /\ ~slot[s].retired]_vars
  BY HopelessIsRejected
<1> QED BY <1>1, InvHolds, RetiredSlotsAreIdle, PTL DEF Spec, RejectedOnlyWhenHopeless

-----------------------------------------------------------------------------
(* The pool implements a queue with servers.                                *)

\* Where nothing throws nobody passes the queue.
QueueIsFirst == NothingThrows => NothingToTake

\* What settles or waits is not served, and what is served is not seen to move
\* from the grant to the answer.
LEMMA StageIs ==
  ASSUME Inv
  PROVE  /\ Stage \in [Task -> {"new", "waiting", "served", "ok", "failed"}]
         /\ \A t \in Task :
              /\ Stage[t] = IF status[t] \in Holding THEN "served" ELSE status[t]
              /\ Server[t] = IF status[t] \in Holding THEN holds[t] ELSE NoSlot
              /\ Stage[t] = "waiting" <=> status[t] = "waiting"
BY DEF Inv, TypeOK, Status, Holding, Settled, Stage, Server

\* A step that moves submissions only within their service is a stutter.
LEMMA Unseen ==
  ASSUME UNCHANGED <<waiters, closed>>,
         \A t \in Task :
           \/ status'[t] = status[t] /\ holds'[t] = holds[t]
           \/ status[t] \in Holding /\ status'[t] \in Holding /\ holds'[t] = holds[t]
  PROVE  UNCHANGED Promised!vars
<1>1. Stage' = Stage
  BY DEF Stage
<1>2. Server' = Server
  BY DEF Server
<1> QED BY <1>1, <1>2 DEF Promised!vars

\* A submission that leaves the new ones or the queue for a stage of its own.
LEMMA MovesAlone ==
  ASSUME Inv, NEW t \in Task, NEW step \in Status \ Holding,
         status' = [status EXCEPT ![t] = step], status[t] \notin Holding, UNCHANGED holds
  PROVE  Stage' = [Stage EXCEPT ![t] = step] /\ UNCHANGED Server
<1>1. \A u \in Task : status'[u] = IF u = t THEN step ELSE status[u]
  BY DEF Inv, TypeOK
<1> QED BY <1>1 DEF Stage, Server

\* A grant of an idle slot serves a submission on a server of its own.
LEMMA GrantServes ==
  ASSUME Inv, ~closed, NEW t \in Task, status[t] \in {"new", "waiting"},
         NEW s \in Slot, ~slot[s].busy, NEW r, Grant(t, s, r)
  PROVE  Promised!Serve(t)
<1>1. \A u \in Task : /\ status'[u] = IF u = t THEN "granted" ELSE status[u]
                      /\ holds'[u] = IF u = t THEN s ELSE holds[u]
  BY DEF Grant, Inv, TypeOK
<1>2. Stage' = [Stage EXCEPT ![t] = "served"]
  BY <1>1 DEF Stage, Holding
<1>3. Server' = [Server EXCEPT ![t] = s]
  BY <1>1 DEF Server, Holding
<1>4. \A u \in Task : Server[u] # s
  BY PoolAssumption DEF Inv, SlotAccounting, Server
<1> QED BY <1>2, <1>3, <1>4 DEF Promised!Serve

\* acquire takes, queues or refuses.
LEMMA SubmitImplements ==
  ASSUME Inv, QueueIsFirst, NEW t \in Task, Submit(t)
  PROVE  Promised!Next
<1>0. /\ slot \in [Slot -> SlotState] /\ slots \subseteq Slot /\ waiters \in Seq(Task)
      /\ status[t] = "new" /\ turn = "free" /\ UNCHANGED <<slots, closed>>
      /\ Stage[t] = "new"
  BY StageIs DEF Inv, TypeOK, Submit, Holding
<1>1. CASE SubmitToClosed(t)
  <2>1. waiters = <<>>
    BY <1>1 DEF SubmitToClosed, Inv, QueueConsistent
  <2>2. Stage' = [Stage EXCEPT ![t] = "failed"] /\ UNCHANGED Server
    BY <1>0, <1>1, MovesAlone DEF SubmitToClosed, Status, Settled, Holding
  <2> QED BY <1>0, <1>1, <2>1, <2>2 DEF SubmitToClosed, Promised!Refuse, Promised!Next
<1>2. CASE SubmitToIdle(t)
  <2>1. PICK s \in IdleSlots : Grant(t, s, slot[s])
    BY <1>2 DEF SubmitToIdle, Preferred
  <2>2. waiters = <<>>
    BY <1>0, <2>1 DEF Inv, WaitersServed
  <2>3. Promised!Serve(t)
    BY <1>0, <1>2, <2>1, GrantServes DEF SubmitToIdle, IdleSlots
  <2> QED BY <1>0, <1>2, <2>2, <2>3 DEF SubmitToIdle, Promised!TakeAtOnce, Promised!Next
<1>3. CASE SubmitToRetired(t)
  <2>1. PICK s \in RetiredSlots : \E r : Grant(t, s, r)
    BY <1>3 DEF SubmitToRetired
  <2>2. ~SpawnMayThrow /\ ~TerminateMayThrow => waiters = <<>>
    BY <1>0, <2>1 DEF QueueIsFirst, NothingThrows, NothingToTake
  <2>3. Promised!Serve(t)
    BY <1>0, <1>3, <2>1, GrantServes DEF SubmitToRetired, RetiredSlots
  <2> QED BY <1>0, <1>3, <2>2, <2>3 DEF SubmitToRetired, Promised!TakeAtOnce, Promised!Next
<1>4. CASE SubmitAndWait(t)
  <2>1. CASE AllDead(slot')
    <3>1. status' = [status EXCEPT ![t] = "failed"] /\ UNCHANGED <<waiters, holds>>
      BY <1>4, <2>1 DEF SubmitAndWait
    <3>2. waiters = <<>>
      <4>1. SUFFICES ASSUME waiters # <<>> PROVE FALSE
        OBVIOUS
      <4>2. PICK s \in slots : slot[s].busy /\ ~slot[s].dead
        BY <1>0, <4>1 DEF Inv, WaitersServed
      <4>3. slot'[s] = slot[s]
        BY <1>0, <1>4, <4>2 DEF SubmitAndWait, RetiredSlots
      <4> QED BY <1>0, <2>1, <4>2, <4>3 DEF AllDead
    <3>3. Stage' = [Stage EXCEPT ![t] = "failed"] /\ UNCHANGED Server
      BY <1>0, <3>1, MovesAlone DEF Status, Settled, Holding
    <3> QED BY <1>0, <3>1, <3>2, <3>3 DEF Promised!Refuse, Promised!Next
  <2>2. CASE ~AllDead(slot')
    <3>1. /\ status' = [status EXCEPT ![t] = "waiting"] /\ UNCHANGED holds
          /\ waiters' = Append(waiters, t) /\ ~closed
      BY <1>4, <2>2 DEF SubmitAndWait
    <3>2. Stage' = [Stage EXCEPT ![t] = "waiting"] /\ UNCHANGED Server
      BY <1>0, <3>1, MovesAlone DEF Status, Settled, Holding
    <3> QED BY <1>0, <3>1, <3>2 DEF Promised!Enqueue, Promised!Next
  <2> QED BY <2>1, <2>2
<1> QED BY <1>1, <1>2, <1>3, <1>4 DEF Submit

\* A submission ends when it settles, by an answer, an error or a lost race.
LEMMA SettleImplements ==
  ASSUME Inv, NEW t \in Task, Settle(t)
  PROVE  Promised!Next
<1>1. /\ status[t] \in Holding
      /\ status' = [status EXCEPT ![t] = "ok"] \/ status' = [status EXCEPT ![t] = "failed"]
      /\ UNCHANGED <<waiters, closed>>
  BY DEF Settle, SettleOk, SettleError, RaceLost, Holding
<1>2. holds' = [holds EXCEPT ![t] = NoSlot]
  BY DEF Settle, SettleOk, SettleError, ReleaseNothing, Release
<1>3. PICK how \in {"ok", "failed"} : status' = [status EXCEPT ![t] = how]
  BY <1>1
<1>4. \A u \in Task : /\ status'[u] = IF u = t THEN how ELSE status[u]
                      /\ holds'[u] = IF u = t THEN NoSlot ELSE holds[u]
  BY <1>2, <1>3 DEF Inv, TypeOK
<1>5. Stage' = [Stage EXCEPT ![t] = how]
  BY <1>4 DEF Stage, Holding
<1>6. Server' = [Server EXCEPT ![t] = NoSlot]
  BY <1>4 DEF Server, Holding
<1>7. Stage[t] = "served"
  BY <1>1 DEF Stage
<1> QED BY <1>1, <1>5, <1>6, <1>7 DEF Promised!End, Promised!Next

\* The queue is rejected as a whole.
LEMMA RejectionImplements ==
  ASSUME Inv, ~closed, closed' \in BOOLEAN, RejectWaiters, UNCHANGED holds
  PROVE  Promised!Next
<1>1. \A t \in Task : status'[t] = IF status[t] = "waiting" THEN "failed" ELSE status[t]
  BY DEF RejectWaiters, Inv, TypeOK
<1>2. Stage' = [t \in Task |-> IF Stage[t] = "waiting" THEN "failed" ELSE Stage[t]]
  BY <1>1, StageIs DEF Stage, Holding
<1>3. UNCHANGED Server
  BY <1>1 DEF Server, Holding
<1> QED BY <1>2, <1>3 DEF RejectWaiters, Promised!EndQueue, Promised!Next

LEMMA EndPumpImplements ==
  ASSUME Inv, EndPump, UNCHANGED closed
  PROVE  Promised!Next \/ UNCHANGED Promised!vars
<1>1. CASE waiters # <<>> /\ AllDead(slot')
  <2>1. ~closed /\ closed \in BOOLEAN
    BY <1>1 DEF Inv, QueueConsistent, TypeOK
  <2> QED BY <1>1, <2>1, RejectionImplements DEF EndPump
<1>2. CASE ~(waiters # <<>> /\ AllDead(slot'))
  BY <1>2, Unseen DEF EndPump
<1> QED BY <1>1, <1>2

\* pump serves the head of the queue, or ends.
LEMMA PumpImplements ==
  ASSUME Inv, PumpStep
  PROVE  Promised!Next \/ UNCHANGED Promised!vars
<1>0. /\ slot \in [Slot -> SlotState] /\ slots \subseteq Slot /\ waiters \in Seq(Task)
      /\ UNCHANGED closed
  BY DEF Inv, TypeOK, PumpStep
<1>1. ASSUME NEW s \in slots, ~slot[s].busy, NEW r, HandOver(s, r), waiters # <<>>
      PROVE  Promised!Next
  <2>1. Head(waiters) \in Task /\ status[Head(waiters)] = "waiting" /\ ~closed
    <3>1. Head(waiters) = waiters[1] /\ 1 \in 1..Len(waiters)
      BY <1>0, <1>1
    <3> QED BY <1>0, <1>1, <3>1 DEF Inv, QueueConsistent
  <2>2. Promised!Serve(Head(waiters))
    BY <1>0, <1>1, <2>1, GrantServes DEF HandOver
  <2>3. Stage[Head(waiters)] = "waiting"
    BY <2>1, StageIs
  <2> QED BY <1>0, <1>1, <2>2, <2>3 DEF HandOver, Promised!ServeNext, Promised!Next
<1>2. CASE EndPump
  BY <1>0, <1>2, EndPumpImplements
<1>3. CASE waiters # <<>> /\ \E s \in IdleSlots : HandOver(s, slot[s])
  BY <1>1, <1>3 DEF IdleSlots
<1>4. CASE waiters # <<>> /\ \E s \in RetiredSlots : \E r : HandOver(s, r)
  BY <1>1, <1>4 DEF RetiredSlots
<1> QED BY <1>2, <1>3, <1>4 DEF PumpStep

LEMMA StepImplements ==
  ASSUME Inv, QueueIsFirst, [Next]_vars
  PROVE  [Promised!Next]_(Promised!vars)
<1>1. ASSUME NEW t \in Task, Submit(t)
      PROVE  Promised!Next
  BY <1>1, SubmitImplements
<1>2. ASSUME NEW t \in Task, Settle(t)
      PROVE  Promised!Next
  BY <1>2, SettleImplements
<1>3. ASSUME NEW t \in Task, Start(t) \/ Reply(t)
      PROVE  UNCHANGED Promised!vars
  <2>1. PICK step \in Holding : status' = [status EXCEPT ![t] = step]
    BY <1>3 DEF Start, Reply, Holding
  <2>2. status[t] \in Holding /\ UNCHANGED <<waiters, closed, holds>>
    BY <1>3 DEF Start, Reply, Holding
  <2>3. \A u \in Task : status'[u] = IF u = t THEN step ELSE status[u]
    BY <2>1 DEF Inv, TypeOK
  <2> QED BY <2>2, <2>3, Unseen
<1>4. CASE TrimStep \/ (\E b \in Budgets : SetRetainedMemoryBudget(b)) \/ UNCHANGED vars
  BY <1>4, Unseen DEF TrimStep, SetRetainedMemoryBudget, vars
<1>5. CASE PumpStep
  BY <1>5, PumpImplements
<1>6. CASE ~closed /\ Close
  BY <1>6, RejectionImplements DEF Close
<1>7. ASSUME NEW s \in Slot, Fault(s)
      PROVE  Promised!Next \/ UNCHANGED Promised!vars
  <2>1. CASE Close
    BY <1>6, <1>7, <2>1 DEF Fault
  <2>2. CASE UNCHANGED <<waiters, status, holds, closed>>
    BY <2>2, Unseen
  <2> QED BY <1>7, <2>1, <2>2 DEF Fault
<1>8. CASE Terminate
  BY <1>6, <1>8 DEF Terminate
<1> QED BY <1>1, <1>2, <1>3, <1>4, <1>5, <1>7, <1>8 DEF Next

\* For any workers and submissions, and whatever faults, is retired, trimmed,
\* rejected or terminated, the pool is a queue with servers, which nobody passes
\* where spawning and terminating do not throw.
THEOREM PoolImplementsQueue == Spec => ImplementsQueue
<1>1. Init => Promised!Init
  BY DEF Init, Promised!Init, Stage, Server, Holding
<1>2. Init => QueueIsFirst
  BY DEF Init, QueueIsFirst, NothingToTake
<1>3. Inv /\ QueueIsFirst /\ [Next]_vars => QueueIsFirst'
  BY NothingIsLeft DEF QueueIsFirst, NothingThrows
<1>4. Inv /\ QueueIsFirst /\ [Next]_vars => [Promised!Next]_(Promised!vars)
  BY StepImplements
<1> QED
  BY <1>1, <1>2, <1>3, <1>4, InvHolds, PTL DEF Spec, ImplementsQueue, Promised!Spec

-----------------------------------------------------------------------------
(* The synchronous loops end.                                               *)

\* The loops that release, a fault and a new budget run on the page's thread end,
\* whatever throws in them: a turn of the trimmer that is not its last takes a
\* worker out of the array, a turn of pump serves a waiter.
LessToDo ==
  \/ turn' = "free"
  \/ turn = "trim" /\ turn' = "pump"
  \/ /\ turn' = turn /\ slots' \subseteq slots
     /\ slots' # slots \/ Len(waiters') < Len(waiters)

LoopsEnd == [][turn # "free" => LessToDo]_vars

\* A turn of a loop is its last, or leaves it less to do.
LEMMA LoopsGoOn ==
  ASSUME Inv, Next, turn # "free"
  PROVE  LessToDo
<1>1. CASE TrimStep
  <2>1. EndTrim => LessToDo
    BY <1>1 DEF EndTrim, TrimStep, LessToDo
  <2>2. ASSUME NEW s \in slots, TrimSlot(s), ~EndTrim
        PROVE  LessToDo
    <3>1. PICK r : IF Cardinality(LiveSlots) = 1 \/ ~r.terminated
                   THEN EndTrim /\ UNCHANGED slots
                   ELSE slots' = slots \ {s} /\ UNCHANGED turn
      BY <2>2 DEF TrimSlot
    <3> QED BY <2>2, <3>1 DEF LessToDo
  <2>3. Trimmable \subseteq slots
    BY DEF Trimmable, LiveSlots
  <2> QED BY <1>1, <2>1, <2>2, <2>3 DEF TrimStep
<1>2. CASE PumpStep
  <2>1. ASSUME NEW s, NEW r, HandOver(s, r), waiters # <<>>
        PROVE  turn' = turn /\ Len(waiters') < Len(waiters)
    BY <2>1 DEF HandOver, Inv, TypeOK
  <2>2. EndPump => turn' = "free"
    BY DEF EndPump
  <2>3. UNCHANGED slots
    BY <1>2 DEF PumpStep
  <2>4. EndPump \/ (waiters # <<>> /\ \E s, r : HandOver(s, r))
    BY <1>2 DEF PumpStep
  <2> QED BY <2>1, <2>2, <2>3, <2>4 DEF LessToDo
<1> QED
  BY <1>1, <1>2
     DEF Next, Submit, Start, Reply, Settle, SettleOk, SettleError, SetRetainedMemoryBudget,
         Fault, Terminate

\* For any workers and submissions, and although spawning and terminating may
\* throw, trimRetainedSlots and pump end.
THEOREM PoolLoopsEnd == Spec => LoopsEnd
<1>1. Inv /\ [Next]_vars => [turn # "free" => LessToDo]_vars
  BY LoopsGoOn
<1> QED BY <1>1, InvHolds, PTL DEF Spec, LoopsEnd

-----------------------------------------------------------------------------
(* Sums over finite sets.                                                   *)

\* One unfolding of the sum of f: the element the fold takes first.
FirstOf(U) == CHOOSE x \in U : TRUE
Unfolded(g, f, U) == IF U = {} THEN 0 ELSE f[FirstOf(U)] + g[U \ {FirstOf(U)}]

\* g is the sum of f on every subset of S.
Unfolds(g, f, S) == \A U \in SUBSET S : g[U] = Unfolded(g, f, U)
SumsUp(g, f, S) == g \in [SUBSET S -> Nat] /\ Unfolds(g, f, S)

LEMMA LeastNumber ==
  ASSUME NEW T, T \subseteq Nat, T # {}
  PROVE  \E m \in T : \A t \in T : m <= t
<1>1. \E R : IsWellFoundedOn(R, Nat) /\ \A t, m \in Nat : t < m => <<t, m>> \in R
  <2>1. IsWellFoundedOn(OpToRel(<, Nat), Nat)
    BY NatLessThanWellFounded
  <2>2. \A t, m \in Nat : t < m => <<t, m>> \in OpToRel(<, Nat)
    BY DEF OpToRel
  <2> QED BY <2>1, <2>2, Zenon
<1>2. PICK R : IsWellFoundedOn(R, Nat) /\ \A t, m \in Nat : t < m => <<t, m>> \in R
  BY <1>1
<1>3. \E m \in T : \A t \in T : ~(<<t, m>> \in R)
  <2>1. IsWellFoundedOn(R, Nat)
    BY <1>2
  <2> QED BY <2>1, WFMin, Zenon
<1>4. PICK m \in T : \A t \in T : ~(<<t, m>> \in R)
  BY <1>3
<1>5. \A t \in T : t \in Nat /\ m \in Nat /\ ~(t < m)
  BY <1>2, <1>4
<1>6. \A t \in T : m <= t
  BY <1>5
<1> QED BY <1>6

\* Among sets of subsets of a finite set there is one that contains no other.
LEMMA LeastSubset ==
  ASSUME NEW S, IsFiniteSet(S), NEW bad, bad \subseteq SUBSET S, bad # {}
  PROVE  \E T \in bad : \A U \in SUBSET T : U # T => U \notin bad
<1>1. \A U \in SUBSET S : IsFiniteSet(U) /\ Cardinality(U) \in Nat
  BY FS_Subset, FS_CardinalityType
<1>2. PICK sizes : sizes = {Cardinality(U) : U \in bad}
  OBVIOUS
<1>3. PICK m \in sizes : \A n \in sizes : m <= n
  <2>1. sizes \subseteq Nat /\ sizes # {}
    BY <1>1, <1>2
  <2> QED BY <2>1, LeastNumber
<1>4. PICK T \in bad : m = Cardinality(T)
  BY <1>2
<1>5. ASSUME NEW U \in SUBSET T, U # T
      PROVE  U \notin bad
  <2>1. IsFiniteSet(T) /\ T \in SUBSET S /\ U \in SUBSET S
    BY <1>1, <1>4
  <2>2. Cardinality(U) < Cardinality(T)
    <3>1. Cardinality(U) <= Cardinality(T) /\ (Cardinality(U) = Cardinality(T) => U = T)
      BY <2>1, <1>5, FS_Subset
    <3> QED BY <1>1, <1>5, <2>1, <3>1
  <2>3. U \in bad => Cardinality(U) \in sizes
    BY <1>2
  <2> QED BY <1>1, <1>3, <1>4, <2>1, <2>2, <2>3
<1> QED BY <1>4, <1>5

LEMMA SumExists ==
  ASSUME NEW S, IsFiniteSet(S), NEW f, \A x \in S : f[x] \in Nat
  PROVE  \E g : SumsUp(g, f, S)
<1> DEFINE Upto(g, n) == \A U \in SUBSET S : Cardinality(U) <= n => g[U] = Unfolded(g, f, U)
           bad == {n \in Nat : ~\E g \in [SUBSET S -> Nat] : Upto(g, n)}
<1>0. \A U \in SUBSET S : /\ IsFiniteSet(U) /\ Cardinality(U) \in Nat
                          /\ Cardinality(U) = 0 <=> U = {}
                          /\ Cardinality(U) <= Cardinality(S)
  BY FS_Subset, FS_CardinalityType, FS_EmptySet
<1>1. \A U \in SUBSET S : U # {} =>
        /\ FirstOf(U) \in U /\ FirstOf(U) \in S
        /\ U \ {FirstOf(U)} \in SUBSET S
        /\ Cardinality(U \ {FirstOf(U)}) = Cardinality(U) - 1
  <2>1. ASSUME NEW U \in SUBSET S, U # {}
        PROVE  FirstOf(U) \in U
    BY <2>1 DEF FirstOf
  <2>2. ASSUME NEW U \in SUBSET S, NEW x \in U
        PROVE  Cardinality(U \ {x}) = Cardinality(U) - 1
    <3>1. IsFiniteSet(U)
      BY <1>0
    <3> QED BY <3>1, FS_RemoveElement
  <2> QED BY <2>1, <2>2
<1>2. bad = {}
  <2> SUFFICES ASSUME bad # {} PROVE FALSE
    OBVIOUS
  <2>1. PICK m \in bad : \A n \in bad : m <= n
    <3>1. bad \subseteq Nat
      OBVIOUS
    <3> HIDE DEF bad
    <3> QED BY <3>1, LeastNumber
  <2>2. CASE m = 0
    <3>1. PICK g : g = [U \in SUBSET S |-> 0]
      OBVIOUS
    <3>2. g \in [SUBSET S -> Nat] /\ Upto(g, 0)
      <4>1. g \in [SUBSET S -> Nat]
        BY <3>1
      <4>2. \A U \in SUBSET S : Cardinality(U) <= 0 => U = {}
        BY <1>0
      <4> QED BY <3>1, <4>1, <4>2 DEF Unfolded
    <3> QED BY <2>1, <2>2, <3>2
  <2>3. CASE m # 0
    <3>1. m \in Nat /\ m - 1 \in Nat /\ ~(m <= m - 1)
      BY <2>1, <2>3
    <3>2. PICK g \in [SUBSET S -> Nat] : Upto(g, m - 1)
      BY <2>1, <3>1
    <3>3. \A U \in SUBSET S : Unfolded(g, f, U) \in Nat
      BY <1>1 DEF Unfolded
    <3>4. PICK k : k = [U \in SUBSET S |-> IF Cardinality(U) = m THEN Unfolded(g, f, U) ELSE g[U]]
      OBVIOUS
    <3>5. k \in [SUBSET S -> Nat]
      BY <3>3, <3>4
    <3>6. ASSUME NEW U \in SUBSET S, Cardinality(U) <= m
          PROVE  k[U] = Unfolded(k, f, U)
      <4>1. Unfolded(k, f, U) = Unfolded(g, f, U)
        <5>1. U # {} => Cardinality(U \ {FirstOf(U)}) # m
          BY <1>0, <1>1, <3>1, <3>6
        <5>2. U # {} => k[U \ {FirstOf(U)}] = g[U \ {FirstOf(U)}]
          BY <1>1, <3>4, <5>1
        <5> QED BY <5>2 DEF Unfolded
      <4>2. CASE Cardinality(U) = m
        BY <3>4, <4>1, <4>2
      <4>3. CASE Cardinality(U) # m
        <5>1. Cardinality(U) <= m - 1
          BY <1>0, <3>1, <3>6, <4>3
        <5>2. g[U] = Unfolded(g, f, U)
          BY <3>2, <5>1
        <5> QED BY <3>4, <4>1, <4>3, <5>2
      <4> QED BY <4>2, <4>3
    <3> QED BY <2>1, <3>5, <3>6
  <2> QED BY <2>2, <2>3
<1>3. Cardinality(S) \in Nat
  BY <1>0
<1>4. PICK g \in [SUBSET S -> Nat] : Upto(g, Cardinality(S))
  BY <1>2, <1>3
<1> QED BY <1>0, <1>4 DEF SumsUp, Unfolds

\* A sum depends on the values only.
LEMMA SumsAgree ==
  ASSUME NEW S, IsFiniteSet(S), NEW R, NEW f, NEW h, NEW g, NEW k,
         Unfolds(g, f, S), Unfolds(k, h, R),
         NEW T, T \subseteq S, T \subseteq R, \A x \in T : f[x] = h[x]
  PROVE  g[T] = k[T]
<1> DEFINE bad == {U \in SUBSET T : g[U] # k[U]}
<1>1. SUFFICES ASSUME bad # {} PROVE FALSE
  OBVIOUS
<1>2. PICK U \in bad : \A V \in SUBSET U : V # U => V \notin bad
  <2>1. bad \subseteq SUBSET S
    OBVIOUS
  <2> HIDE DEF bad
  <2> QED BY <1>1, <2>1, LeastSubset
<1>3. g[U] = Unfolded(g, f, U) /\ k[U] = Unfolded(k, h, U)
  BY <1>2 DEF SumsUp, Unfolds
<1>4. CASE U = {}
  BY <1>2, <1>3, <1>4 DEF Unfolded
<1>5. CASE U # {}
  <2>1. FirstOf(U) \in U /\ U \ {FirstOf(U)} \in SUBSET U /\ U \ {FirstOf(U)} # U
    BY <1>5 DEF FirstOf
  <2>2. g[U \ {FirstOf(U)}] = k[U \ {FirstOf(U)}] /\ f[FirstOf(U)] = h[FirstOf(U)]
    BY <1>2, <2>1
  <2> QED BY <1>2, <1>3, <1>5, <2>2 DEF Unfolded
<1> QED BY <1>4, <1>5

\* The element taken first is no other than any.
LEMMA SumAdds ==
  ASSUME NEW S, IsFiniteSet(S), NEW f, \A x \in S : f[x] \in Nat, NEW g, SumsUp(g, f, S),
         NEW T \in SUBSET S, NEW y \in T
  PROVE  g[T] = f[y] + g[T \ {y}]
<1> DEFINE bad == {U \in SUBSET S : \E x \in U : g[U] # f[x] + g[U \ {x}]}
<1>1. SUFFICES ASSUME bad # {} PROVE FALSE
  OBVIOUS
<1>2. PICK U \in bad : \A V \in SUBSET U : V # U => V \notin bad
  <2>1. bad \subseteq SUBSET S
    OBVIOUS
  <2> HIDE DEF bad
  <2> QED BY <1>1, <2>1, LeastSubset
<1>3. PICK x \in U : g[U] # f[x] + g[U \ {x}]
  BY <1>2
<1>4. PICK z : z = FirstOf(U)
  OBVIOUS
<1>5. z \in U /\ g[U] = f[z] + g[U \ {z}]
  <2>1. z \in U
    BY <1>3, <1>4 DEF FirstOf
  <2>2. g[U] = Unfolded(g, f, U)
    BY <1>2 DEF SumsUp, Unfolds
  <2> QED BY <1>3, <1>4, <2>1, <2>2 DEF Unfolded
<1>6. x # z
  BY <1>3, <1>5
<1>7. PICK rest : rest = (U \ {z}) \ {x} /\ rest = (U \ {x}) \ {z}
  <2>1. (U \ {z}) \ {x} = (U \ {x}) \ {z}
    OBVIOUS
  <2> QED BY <2>1
<1>a. \A V \in SUBSET U : V # U => \A v \in V : g[V] = f[v] + g[V \ {v}]
  BY <1>2
<1>8. g[U \ {z}] = f[x] + g[rest]
  <2>1. U \ {z} \in SUBSET U /\ U \ {z} # U /\ U \ {z} \in SUBSET S /\ x \in U \ {z}
    BY <1>2, <1>5, <1>6
  <2> QED BY <1>a, <1>7, <2>1
<1>9. g[U \ {x}] = f[z] + g[rest]
  <2>1. U \ {x} \in SUBSET U /\ U \ {x} # U /\ U \ {x} \in SUBSET S /\ z \in U \ {x}
    BY <1>2, <1>3, <1>5, <1>6
  <2> QED BY <1>a, <1>7, <2>1
<1>10. f[x] \in Nat /\ f[z] \in Nat /\ g[rest] \in Nat
  <2>1. x \in S /\ z \in S /\ rest \in SUBSET S
    BY <1>2, <1>5, <1>7
  <2> QED BY <2>1 DEF SumsUp, Unfolds
<1> QED BY <1>3, <1>5, <1>8, <1>9, <1>10

LEMMA CountedIsSum ==
  ASSUME NEW L, IsFiniteSet(L), NEW w, NEW f, \A s \in L : f[s] \in Nat,
         \A s \in L : w[s].wasmMemory + WorkerBaseline = f[s],
         NEW g, SumsUp(g, f, L)
  PROVE  CountedBytes(L, w) = g[L]
<1> DEFINE Body(k) == [U \in SUBSET L |->
             IF U = {} THEN 0
             ELSE LET x == CHOOSE y \in U : TRUE
                  IN  (w[x].wasmMemory + WorkerBaseline) + k[U \ {x}]]
<1>1. ASSUME NEW U \in SUBSET L, U # {}
      PROVE  (CHOOSE y \in U : TRUE) \in L
  BY <1>1
<1>2. g = Body(g)
  <2>1. g = [U \in SUBSET L |-> g[U]]
    BY DEF SumsUp
  <2>2. \A U \in SUBSET L : g[U] = IF U = {} THEN 0
             ELSE LET x == CHOOSE y \in U : TRUE
                  IN  (w[x].wasmMemory + WorkerBaseline) + g[U \ {x}]
    BY <1>1 DEF SumsUp, Unfolds, Unfolded, FirstOf
  <2> QED BY <2>1, <2>2
<1>3. PICK it : it = CHOOSE k : k = Body(k)
  OBVIOUS
<1>4. it = Body(it)
  <2> HIDE DEF Body
  <2>1. \E k : k = Body(k)
    BY <1>2
  <2>2. (CHOOSE k : k = Body(k)) = Body(CHOOSE k : k = Body(k))
    BY <2>1, Zenon
  <2> QED BY <1>3, <2>2
<1>5. CountedBytes(L, w) = it[L]
  BY <1>3 DEF CountedBytes, MapThenSumSet, MapThenFoldSet
<1>6. Unfolds(it, f, L)
  <2>1. \A U \in SUBSET L : it[U] = IF U = {} THEN 0
             ELSE LET x == CHOOSE y \in U : TRUE
                  IN  (w[x].wasmMemory + WorkerBaseline) + it[U \ {x}]
    BY <1>4
  <2> QED BY <1>1, <2>1 DEF Unfolds, Unfolded, FirstOf
<1>7. it[L] = g[L]
  BY <1>6, SumsAgree DEF SumsUp
<1> QED BY <1>5, <1>7

LEMMA RealIsSum ==
  ASSUME NEW L, IsFiniteSet(L), NEW w, NEW f, \A s \in L : f[s] \in Nat,
         \A s \in L : (WorkerBaseline + IF w[s].busy THEN w[s].wasmMemory ELSE w[s].heap) = f[s],
         NEW g, SumsUp(g, f, L)
  PROVE  RealBytes(L, w) = g[L]
<1> DEFINE Body(k) == [U \in SUBSET L |->
             IF U = {} THEN 0
             ELSE LET x == CHOOSE y \in U : TRUE
                  IN  (WorkerBaseline + IF w[x].busy THEN w[x].wasmMemory ELSE w[x].heap) + k[U \ {x}]]
<1>1. ASSUME NEW U \in SUBSET L, U # {}
      PROVE  (CHOOSE y \in U : TRUE) \in L
  BY <1>1
<1>2. g = Body(g)
  <2>1. g = [U \in SUBSET L |-> g[U]]
    BY DEF SumsUp
  <2>2. \A U \in SUBSET L : g[U] = IF U = {} THEN 0
             ELSE LET x == CHOOSE y \in U : TRUE
                  IN  (WorkerBaseline + IF w[x].busy THEN w[x].wasmMemory ELSE w[x].heap) + g[U \ {x}]
    BY <1>1 DEF SumsUp, Unfolds, Unfolded, FirstOf
  <2> QED BY <2>1, <2>2
<1>3. PICK it : it = CHOOSE k : k = Body(k)
  OBVIOUS
<1>4. it = Body(it)
  <2> HIDE DEF Body
  <2>1. \E k : k = Body(k)
    BY <1>2
  <2>2. (CHOOSE k : k = Body(k)) = Body(CHOOSE k : k = Body(k))
    BY <2>1, Zenon
  <2> QED BY <1>3, <2>2
<1>5. RealBytes(L, w) = it[L]
  BY <1>3 DEF RealBytes, MapThenSumSet, MapThenFoldSet
<1>6. Unfolds(it, f, L)
  <2>1. \A U \in SUBSET L : it[U] = IF U = {} THEN 0
             ELSE LET x == CHOOSE y \in U : TRUE
                  IN  (WorkerBaseline + IF w[x].busy THEN w[x].wasmMemory ELSE w[x].heap) + it[U \ {x}]
    BY <1>4
  <2> QED BY <1>1, <2>1 DEF Unfolds, Unfolded, FirstOf
<1>7. it[L] = g[L]
  BY <1>6, SumsAgree DEF SumsUp
<1> QED BY <1>5, <1>7

\* Sums of bytes are sums of a function of the workers.
LEMMA BytesOf ==
  ASSUME NEW L, IsFiniteSet(L), NEW w, \A s \in L : w[s].wasmMemory \in Nat
  PROVE  \E f, g : /\ \A s \in L : f[s] \in Nat /\ f[s] = w[s].wasmMemory + WorkerBaseline
                   /\ SumsUp(g, f, L) /\ CountedBytes(L, w) = g[L]
<1>1. PICK f : f = [s \in L |-> w[s].wasmMemory + WorkerBaseline]
  OBVIOUS
<1>2. \A s \in L : f[s] \in Nat /\ f[s] = w[s].wasmMemory + WorkerBaseline
  BY <1>1, PoolAssumption
<1>3. PICK g : SumsUp(g, f, L)
  BY <1>2, SumExists
<1>4. CountedBytes(L, w) = g[L]
  BY <1>2, <1>3, CountedIsSum
<1> QED BY <1>2, <1>3, <1>4

\* The pool counts a number of bytes.
LEMMA CountedIsNat ==
  ASSUME NEW L, IsFiniteSet(L), NEW w, \A s \in L : w[s].wasmMemory \in Nat
  PROVE  CountedBytes(L, w) \in Nat
<1>1. PICK f, g : SumsUp(g, f, L) /\ CountedBytes(L, w) = g[L]
  BY BytesOf
<1> QED BY <1>1 DEF SumsUp

\* Workers that report the same count the same.
LEMMA CountedTheSame ==
  ASSUME NEW L, IsFiniteSet(L), NEW w, NEW v, \A s \in L : w[s].wasmMemory \in Nat,
         \A s \in L : v[s].wasmMemory = w[s].wasmMemory
  PROVE  CountedBytes(L, v) = CountedBytes(L, w)
<1>1. PICK f, g : /\ \A s \in L : f[s] \in Nat /\ f[s] = w[s].wasmMemory + WorkerBaseline
                  /\ SumsUp(g, f, L) /\ CountedBytes(L, w) = g[L]
  BY BytesOf
<1>2. CountedBytes(L, v) = g[L]
  BY <1>1, CountedIsSum
<1> QED BY <1>1, <1>2

\* A worker that is gone counts no more.
LEMMA CountedShrinks ==
  ASSUME NEW L, IsFiniteSet(L), NEW w, \A s \in L : w[s].wasmMemory \in Nat, NEW d \in L
  PROVE  CountedBytes(L \ {d}, w) <= CountedBytes(L, w)
<1>1. PICK f, g : /\ \A s \in L : f[s] \in Nat /\ f[s] = w[s].wasmMemory + WorkerBaseline
                  /\ SumsUp(g, f, L) /\ CountedBytes(L, w) = g[L]
  BY BytesOf
<1>2. PICK M : M = L \ {d}
  OBVIOUS
<1>3. IsFiniteSet(M) /\ M \subseteq L
  BY <1>2, FS_Subset
<1>4. PICK h, k : /\ \A s \in M : h[s] \in Nat /\ h[s] = w[s].wasmMemory + WorkerBaseline
                  /\ SumsUp(k, h, M) /\ CountedBytes(M, w) = k[M]
  BY <1>3, BytesOf
<1>5. \A s \in M : h[s] = f[s]
  BY <1>1, <1>3, <1>4
<1>6. k[M] = g[M]
  BY <1>1, <1>3, <1>4, <1>5, SumsAgree DEF SumsUp
<1>7. g[L] = f[d] + g[L \ {d}]
  <2>1. L \in SUBSET L /\ d \in L /\ IsFiniteSet(L)
    OBVIOUS
  <2>2. (\A x \in L : f[x] \in Nat) /\ SumsUp(g, f, L)
    BY <1>1
  <2> QED BY <2>1, <2>2, SumAdds
<1>8. f[d] \in Nat /\ g[M] \in Nat
  BY <1>1, <1>3 DEF SumsUp
<1> QED BY <1>1, <1>2, <1>4, <1>6, <1>7, <1>8

\* If idle workers retain what they reported, the pool counts the real bytes.
LEMMA RealIsCounted ==
  ASSUME NEW L, IsFiniteSet(L), NEW w, \A s \in L : w[s].wasmMemory \in Nat,
         \A s \in L : ~w[s].busy => w[s].heap = w[s].wasmMemory
  PROVE  RealBytes(L, w) = CountedBytes(L, w)
<1>1. PICK f, g : /\ \A s \in L : f[s] \in Nat /\ f[s] = w[s].wasmMemory + WorkerBaseline
                  /\ SumsUp(g, f, L) /\ CountedBytes(L, w) = g[L]
  BY BytesOf
<1>2. \A s \in L : (WorkerBaseline + IF w[s].busy THEN w[s].wasmMemory ELSE w[s].heap) = f[s]
  BY <1>1, PoolAssumption
<1>3. RealBytes(L, w) = g[L]
  BY <1>1, <1>2, RealIsSum
<1> QED BY <1>1, <1>3

-----------------------------------------------------------------------------
(* The memory of idle workers.                                              *)

\* Once a budget is set, a worker that is not in use retains what it reported.
Budgeted == budget # NoBudget \/ \A t \in Task : status[t] = "new"
HeapsKnown ==
  Budgeted => \A s \in Slot : slot[s].busy \/ slot[s].dead \/ slot[s].heap = slot[s].wasmMemory

ClosedIsEmpty == closed => slots = {}

\* What is counted fits the budget from the end of the trimmer on.
Bounded ==
  turn \in {"free", "pump"} /\ budget # NoBudget /\ IdleLive # {} => RetainedBytes <= budget

\* Neither budgets nor submissions are taken back.
LEMMA BudgetStays ==
  ASSUME Inv, [Next]_vars, Budgeted'
  PROVE  Budgeted
<1>0. status \in [Task -> Status] /\ (waiters # <<>> => Head(waiters) \in Task /\ waiters \in Seq(Task))
  BY DEF Inv, TypeOK
<1>1. ASSUME UNCHANGED budget, \A t \in Task : status'[t] = "new" => status[t] = "new"
      PROVE  Budgeted
  BY <1>1 DEF Budgeted
<1>2. ASSUME NEW t \in Task, Submit(t) \/ Start(t) \/ Reply(t) \/ Settle(t)
      PROVE  Budgeted
  <2>1. UNCHANGED budget
    BY <1>2 DEF Submit, Start, Reply, Settle, SettleOk, SettleError
  <2>2. \E x \in Status \ {"new"} : status' = [status EXCEPT ![t] = x]
    <3>1. CASE Submit(t)
      BY <3>1 DEF Submit, SubmitToClosed, SubmitToIdle, SubmitToRetired, SubmitAndWait, Grant,
         Status, Holding, Settled
    <3>2. CASE Start(t) \/ Reply(t) \/ Settle(t)
      BY <3>2 DEF Start, Reply, Settle, SettleOk, SettleError, Status, Holding, Settled
    <3> QED BY <1>2, <3>1, <3>2
  <2> QED BY <1>0, <1>1, <2>1, <2>2
<1>3. CASE PumpStep
  <2>1. \A t \in Task : status'[t] = "new" => status[t] = "new"
    <3>1. CASE \E s, r : waiters # <<>> /\ HandOver(s, r)
      BY <1>0, <3>1 DEF HandOver, Grant
    <3>2. CASE EndPump
      BY <1>0, <3>2 DEF EndPump, RejectWaiters
    <3> QED BY <1>3, <3>1, <3>2 DEF PumpStep
  <2> QED BY <1>1, <1>3, <2>1 DEF PumpStep
<1>4. CASE TrimStep \/ UNCHANGED vars
  BY <1>1, <1>4 DEF TrimStep, vars
<1>5. CASE Terminate \/ \E s \in Slot : Fault(s)
  BY <1>0, <1>1, <1>5 DEF Terminate, Fault, Close, RejectWaiters
<1>6. CASE \E b \in Budgets : SetRetainedMemoryBudget(b)
  BY <1>6 DEF SetRetainedMemoryBudget, Budgeted
<1> QED BY <1>2, <1>3, <1>4, <1>5, <1>6 DEF Next

\* A change of one slot keeps the heaps known if that slot is in use, is lost
\* or has reported its heap.
LEMMA OneHeapKnown ==
  ASSUME Inv, HeapsKnown, [Next]_vars, NEW s, NEW r, slot' = [slot EXCEPT ![s] = r],
         Budgeted => r.busy \/ r.dead \/ r.heap = r.wasmMemory
  PROVE  HeapsKnown'
<1>1. Budgeted' => Budgeted
  BY BudgetStays
<1> QED BY <1>1 DEF Inv, TypeOK, HeapsKnown

LEMMA SameHeapsKnown ==
  ASSUME Inv, HeapsKnown, [Next]_vars, UNCHANGED slot
  PROVE  HeapsKnown'
<1>1. Budgeted' => Budgeted
  BY BudgetStays
<1> QED BY <1>1 DEF HeapsKnown

\* A grant puts a slot in use.
LEMMA GrantedHeapKnown ==
  ASSUME Inv, HeapsKnown, [Next]_vars, NEW t, NEW s, NEW r \in SlotState, Grant(t, s, r)
  PROVE  HeapsKnown'
<1>1. slot' = [slot EXCEPT ![s] = [r EXCEPT !.busy = TRUE]]
  BY DEF Grant
<1>2. [r EXCEPT !.busy = TRUE].busy
  BY DEF SlotState
<1> QED BY <1>1, <1>2, OneHeapKnown

\* release knows the heap of a slot it keeps, if the settlement did.
LEMMA ReleasedHeapKnown ==
  ASSUME NEW r \in SlotState, r.dead \/ r.heap = r.wasmMemory, NEW k \in ReleaseSlot(r)
  PROVE  k.dead \/ k.heap = k.wasmMemory
<1> DEFINE idle == [r EXCEPT !.busy = FALSE, !.completedTasks = @ + 1]
<1>1. /\ idle \in SlotState /\ ~idle.busy
      /\ idle.dead \/ idle.heap = idle.wasmMemory
  <2>1. r.completedTasks + 1 \in Nat
    BY DEF SlotState
  <2>2. idle \in SlotState
    BY <2>1 DEF SlotState
  <2>3. ~idle.busy /\ idle.heap = r.heap /\ idle.dead = r.dead /\ idle.wasmMemory = r.wasmMemory
    BY DEF SlotState
  <2> QED BY <2>2, <2>3
<1> HIDE DEF idle
<1>2. PICK j \in RetireAtLimit(idle) :
        k \in IF j.dead /\ waiters # <<>> THEN ReplaceSlot(j) ELSE {j}
  BY DEF ReleaseSlot, idle
<1>3. j \in SlotState /\ (j.dead \/ j.heap = j.wasmMemory)
  <2>1. CASE j = idle
    BY <1>1, <2>1
  <2>2. CASE j \in TerminateSlot([idle EXCEPT !.dead = TRUE, !.retired = TRUE])
    <3> DEFINE d == [idle EXCEPT !.dead = TRUE, !.retired = TRUE]
    <3>1. d \in SlotState /\ d.dead
      BY <1>1 DEF SlotState
    <3> HIDE DEF d
    <3>2. j \in TerminateSlot(d)
      BY <2>2 DEF d
    <3> QED BY <3>1, <3>2, TerminateSlotLemma
  <2> QED BY <1>2, <2>1, <2>2 DEF RetireAtLimit
<1>4. CASE k = j
  BY <1>3, <1>4
<1>5. CASE k \in ReplaceSlot(j)
  <2>1. k = j \/ k = FreshSlot \/ k.dead
    BY <1>3, <1>5, ReplaceSlotLemma
  <2> QED BY <1>3, <2>1 DEF FreshSlot
<1> QED BY <1>2, <1>4, <1>5

LEMMA HeapsStayKnown ==
  ASSUME Inv, HeapsKnown, [Next]_vars
  PROVE  HeapsKnown'
<1>0. slot \in [Slot -> SlotState] /\ slots \subseteq Slot
  BY DEF Inv, TypeOK
<1>1. CASE UNCHANGED slot
  BY <1>1, SameHeapsKnown
<1>2. ASSUME NEW s \in IdleSlots \cup RetiredSlots
      PROVE  s \in Slot /\ slot[s] \in SlotState
  BY <1>0, <1>2 DEF IdleSlots, RetiredSlots
<1>3. ASSUME NEW u \in Task, Submit(u), slot' # slot
      PROVE  HeapsKnown'
  <2>1. CASE SubmitToIdle(u)
    <3>1. PICK s \in IdleSlots : Grant(u, s, slot[s])
      BY <2>1 DEF SubmitToIdle, Preferred
    <3> QED BY <1>2, <3>1, GrantedHeapKnown
  <2>2. CASE SubmitToRetired(u)
    <3>1. PICK s \in RetiredSlots : \E r \in ReplaceSlot(slot[s]) : ~r.dead /\ Grant(u, s, r)
      BY <2>2 DEF SubmitToRetired
    <3>2. PICK r \in ReplaceSlot(slot[s]) : Grant(u, s, r)
      BY <3>1
    <3> QED BY <1>2, <3>2, ReplaceSlotLemma, GrantedHeapKnown
  <2>3. CASE SubmitAndWait(u)
    <3>1. PICK s \in RetiredSlots : \E r \in ReplaceSlot(slot[s]) :
            r.dead /\ slot' = [slot EXCEPT ![s] = r]
      BY <1>3, <2>3 DEF SubmitAndWait
    <3>2. PICK r \in ReplaceSlot(slot[s]) : r.dead /\ slot' = [slot EXCEPT ![s] = r]
      BY <3>1
    <3> QED BY <3>2, OneHeapKnown
  <2> QED BY <1>3, <2>1, <2>2, <2>3 DEF Submit, SubmitToClosed
<1>4. ASSUME NEW u \in Task, Start(u), slot' # slot
      PROVE  HeapsKnown'
  <2>1. slot' = [slot EXCEPT ![holds[u]] = [slot[holds[u]] EXCEPT !.lastInput = InputOf[u]]]
        /\ holds[u] \in Slot
    BY <1>4 DEF Start, Holding, Inv, HoldersHaveSlots
  <2>2. /\ [slot[holds[u]] EXCEPT !.lastInput = InputOf[u]].busy = slot[holds[u]].busy
        /\ [slot[holds[u]] EXCEPT !.lastInput = InputOf[u]].dead = slot[holds[u]].dead
        /\ [slot[holds[u]] EXCEPT !.lastInput = InputOf[u]].heap = slot[holds[u]].heap
        /\ [slot[holds[u]] EXCEPT !.lastInput = InputOf[u]].wasmMemory = slot[holds[u]].wasmMemory
    BY <1>0, <2>1 DEF SlotState
  <2>3. Budgeted => slot[holds[u]].busy \/ slot[holds[u]].dead
                    \/ slot[holds[u]].heap = slot[holds[u]].wasmMemory
    BY <2>1 DEF HeapsKnown
  <2> QED BY <2>1, <2>2, <2>3, OneHeapKnown
<1>5. ASSUME NEW u \in Task, Reply(u)
      PROVE  HeapsKnown'
  <2>1. holds[u] \in Slot /\ slot[holds[u]].busy
    BY <1>5 DEF Reply, Holding, Inv, HoldersHaveSlots, SlotAccounting
  <2>2. PICK h : slot' = [slot EXCEPT ![holds[u]] = [slot[holds[u]] EXCEPT !.heap = h]]
    BY <1>5 DEF Reply
  <2>3. [slot[holds[u]] EXCEPT !.heap = h].busy
    BY <1>0, <2>1 DEF SlotState
  <2> QED BY <2>2, <2>3, OneHeapKnown
<1>6. ASSUME NEW u \in Task, Settle(u), slot' # slot
      PROVE  HeapsKnown'
  <2>0. ~closed /\ status[u] \in Holding
    BY <1>6 DEF Settle, SettleOk, SettleError, ReleaseNothing, RaceLost, Holding
  <2>2. holds[u] \in Slot /\ slot[holds[u]] \in SlotState
    BY <1>0, <2>0 DEF Inv, HoldersHaveSlots
  <2>3. PICK k \in SlotState : /\ Budgeted => k.dead \/ k.heap = k.wasmMemory
                               /\ \E r \in ReleaseSlot(k) : slot' = [slot EXCEPT ![holds[u]] = r]
    <3>1. CASE SettleOk(u)
      <4> DEFINE k == [slot[holds[u]] EXCEPT !.wasmMemory = slot[holds[u]].heap]
      <4>1. k \in SlotState /\ k.heap = k.wasmMemory
        BY <2>2 DEF SlotState
      <4>2. \E r \in ReleaseSlot(k) : slot' = [slot EXCEPT ![holds[u]] = r]
        BY <2>0, <3>1 DEF SettleOk, ReleaseNothing, Release
      <4> HIDE DEF k
      <4> QED BY <4>1, <4>2
    <3>2. CASE SettleError(u)
      <4>1. PICK k \in RetireAfterError(slot[holds[u]]) :
              \E r \in ReleaseSlot(k) : slot' = [slot EXCEPT ![holds[u]] = r]
        BY <2>0, <3>2 DEF SettleError, ReleaseNothing, Release
      <4>2. k \in SlotState
        <5>1. slot[holds[u]].terminated => slot[holds[u]].dead
          BY <2>2 DEF Inv, TerminatedIsDead
        <5> QED BY <2>2, <5>1, RetireAfterErrorLemma
      <4>3. Budgeted => budget # NoBudget
        BY <2>0 DEF Budgeted, Holding
      <4>4. budget # NoBudget => k.dead
        <5> DEFINE d == [slot[holds[u]] EXCEPT !.dead = TRUE,
                                               !.retired = ~slot[holds[u]].dead \/ @]
        <5>1. d \in SlotState /\ d.dead
          BY <2>2 DEF SlotState
        <5>2. budget # NoBudget => k \in TerminateSlot(d)
          BY DEF RetireAfterError
        <5> HIDE DEF d
        <5> QED BY <5>1, <5>2, TerminateSlotLemma
      <4> QED BY <4>1, <4>2, <4>3, <4>4
    <3> QED BY <1>6, <3>1, <3>2 DEF Settle
  <2>4. PICK r \in ReleaseSlot(k) : slot' = [slot EXCEPT ![holds[u]] = r]
    BY <2>3
  <2> QED BY <2>3, <2>4, ReleasedHeapKnown, OneHeapKnown
<1>7. CASE TrimStep /\ slot' # slot
  <2>1. PICK s \in Trimmable : TrimSlot(s)
    BY <1>7 DEF TrimStep
  <2> DEFINE d == [slot[s] EXCEPT !.dead = TRUE, !.retired = @ \/ Cardinality(LiveSlots) = 1]
  <2>2. PICK r \in TerminateSlot(d) : slot' = [slot EXCEPT ![s] = r]
    BY <2>1 DEF TrimSlot
  <2>3. d \in SlotState /\ d.dead
    BY <1>0 DEF SlotState, Trimmable, LiveSlots
  <2> HIDE DEF d
  <2>4. r.dead
    BY <2>3, TerminateSlotLemma
  <2> QED BY <2>2, <2>4, OneHeapKnown
<1>8. CASE PumpStep /\ slot' # slot
  <2>2. CASE \E s \in IdleSlots : HandOver(s, slot[s])
    <3>1. PICK s \in IdleSlots : Grant(Head(waiters), s, slot[s])
      BY <2>2 DEF HandOver
    <3> QED BY <1>2, <3>1, GrantedHeapKnown
  <2>3. CASE \E s \in RetiredSlots : \E r \in ReplaceSlot(slot[s]) :
               IF r.dead THEN slot' = [slot EXCEPT ![s] = r] /\ EndPump
               ELSE HandOver(s, r)
    <3>1. PICK s \in RetiredSlots : \E r \in ReplaceSlot(slot[s]) :
               IF r.dead THEN slot' = [slot EXCEPT ![s] = r] /\ EndPump
               ELSE HandOver(s, r)
      BY <2>3
    <3>2. PICK r \in ReplaceSlot(slot[s]) :
               IF r.dead THEN slot' = [slot EXCEPT ![s] = r] /\ EndPump
               ELSE HandOver(s, r)
      BY <3>1
    <3>3. CASE r.dead
      BY <3>2, <3>3, OneHeapKnown
    <3>4. CASE ~r.dead
      BY <1>2, <3>2, <3>4, ReplaceSlotLemma, GrantedHeapKnown DEF HandOver
    <3> QED BY <3>3, <3>4
  <2> QED BY <1>8, <2>2, <2>3 DEF PumpStep
<1>9. ASSUME NEW s \in Slot, Fault(s)
      PROVE  HeapsKnown'
  <2>1. slot' = [slot EXCEPT ![s] = [slot[s] EXCEPT !.dead = TRUE]]
    BY <1>9 DEF Fault
  <2>2. [slot[s] EXCEPT !.dead = TRUE].dead
    BY <1>0 DEF SlotState
  <2> QED BY <2>1, <2>2, OneHeapKnown
<1>10. CASE Terminate \/ (\E b \in Budgets : SetRetainedMemoryBudget(b)) \/ UNCHANGED vars
  BY <1>1, <1>10 DEF Terminate, SetRetainedMemoryBudget, vars
<1> QED BY <1>1, <1>3, <1>4, <1>5, <1>6, <1>7, <1>8, <1>9, <1>10 DEF Next

\* The workers that count are finitely many and report numbers.
LEMMA LiveTyped ==
  ASSUME Inv
  PROVE  /\ LiveSlots \subseteq Slot /\ IsFiniteSet(LiveSlots) /\ IdleLive \subseteq LiveSlots
         /\ \A s \in Slot : /\ slot[s] \in SlotState /\ slot[s].wasmMemory \in Nat
                            /\ slot[s].busy \in BOOLEAN /\ slot[s].dead \in BOOLEAN
<1>1. slot \in [Slot -> SlotState] /\ slots \subseteq Slot
  BY DEF Inv, TypeOK
<1>2. LiveSlots \subseteq Slot /\ IdleLive \subseteq LiveSlots
  BY <1>1 DEF LiveSlots, IdleLive
<1>3. IsFiniteSet(LiveSlots)
  BY <1>2, PoolAssumption, FS_Subset
<1> QED BY <1>1, <1>2, <1>3 DEF SlotState

LEMMA RetainedIs ==
  RetainedBytes = CountedBytes(LiveSlots, slot)
BY DEF RetainedBytes

\* What counts is the same when the same workers live and report the same.
LEMMA StillBounded ==
  ASSUME Inv, Bounded, turn \in {"free", "pump"}, UNCHANGED budget,
         LiveSlots' = LiveSlots, IdleLive' \subseteq IdleLive,
         \A s \in LiveSlots : slot'[s].wasmMemory = slot[s].wasmMemory
  PROVE  Bounded'
<1>1. RetainedBytes' = CountedBytes(LiveSlots, slot')
  BY DEF RetainedBytes
<1>2. PICK w : w = slot'
  OBVIOUS
<1>3. CountedBytes(LiveSlots, w) = CountedBytes(LiveSlots, slot)
  <2>1. \A s \in LiveSlots : slot[s].wasmMemory \in Nat
    BY LiveTyped
  <2>2. IsFiniteSet(LiveSlots) /\ \A s \in LiveSlots : w[s].wasmMemory = slot[s].wasmMemory
    BY <1>2, LiveTyped
  <2> QED BY <2>1, <2>2, CountedTheSame
<1>4. RetainedBytes' = RetainedBytes
  BY <1>1, <1>2, <1>3, RetainedIs
<1> QED BY <1>4 DEF Bounded

\* No worker is idle: nothing is bounded.
LEMMA NoneIdle ==
  ASSUME IdleLive' = {}
  PROVE  Bounded'
BY DEF Bounded

\* Handing out an idle worker.
LEMMA GrantedBounded ==
  ASSUME Inv, Bounded, turn \in {"free", "pump"}, UNCHANGED <<budget, slots>>,
         NEW t, NEW s \in IdleSlots, Grant(t, s, slot[s])
  PROVE  Bounded'
<1>1. slot' = [slot EXCEPT ![s] = [slot[s] EXCEPT !.busy = TRUE]] /\ s \in Slot /\ slot[s] \in SlotState
      /\ slot \in [Slot -> SlotState] /\ slots \subseteq Slot
  BY DEF Grant, IdleSlots, Inv, TypeOK
<1>2. PICK r : r = [slot[s] EXCEPT !.busy = TRUE]
  OBVIOUS
<1>3. /\ r.busy /\ r.dead = slot[s].dead /\ r.terminated = slot[s].terminated
      /\ r.wasmMemory = slot[s].wasmMemory
  BY <1>1, <1>2 DEF SlotState
<1>4. \A x \in Slot : /\ slot'[x].dead = slot[x].dead /\ slot'[x].terminated = slot[x].terminated
                      /\ slot'[x].wasmMemory = slot[x].wasmMemory
                      /\ slot[x].busy => slot'[x].busy
  BY <1>1, <1>2, <1>3
<1>5. LiveSlots' = LiveSlots
  BY <1>1, <1>4 DEF LiveSlots
<1>6. IdleLive' \subseteq IdleLive
  BY <1>1, <1>4, <1>5 DEF IdleLive, LiveSlots
<1>7. \A x \in LiveSlots : slot'[x].wasmMemory = slot[x].wasmMemory
  BY <1>1, <1>4 DEF LiveSlots
<1> QED BY <1>5, <1>6, <1>7, StillBounded

\* A change of one retired slot, dead or in use after it, while none is idle.
LEMMA RetiredChanged ==
  ASSUME Inv, IdleSlots = {}, UNCHANGED slots, NEW s, NEW r,
         slot' = [slot EXCEPT ![s] = r], r.busy \/ r.dead
  PROVE  IdleLive' = {}
BY DEF Inv, TypeOK, IdleLive, LiveSlots, IdleSlots

\* The trimmer ends when what is counted fits, or when nothing is left to end.
LEMMA TrimmedBounded ==
  ASSUME ~TerminateMayThrow, Inv, ClosedIsEmpty, TrimStep
  PROVE  Bounded'
<1>0. /\ slot \in [Slot -> SlotState] /\ slots \subseteq Slot /\ UNCHANGED <<budget, closed>>
      /\ turn \in {"trim", "trimOnly"}
      /\ budget \in Nat \cup {NoBudget}
  BY DEF TrimStep, Inv, TypeOK
<1>1. CASE ~(~closed /\ OverBudget /\ Trimmable # {})
  <2>0. UNCHANGED <<slots, slot>>
    BY <1>1 DEF TrimStep
  <2>1. RetainedBytes' = RetainedBytes /\ IdleLive' = IdleLive
    BY <2>0 DEF RetainedBytes, IdleLive, LiveSlots
  <2>2. CASE closed
    <3>1. IdleLive = {}
      BY <2>2 DEF ClosedIsEmpty, IdleLive, LiveSlots
    <3> QED BY <2>1, <3>1, NoneIdle
  <2>3. CASE ~OverBudget
    <3>1. budget # NoBudget => RetainedBytes <= budget
      <4>1. CountedBytes(LiveSlots, slot) \in Nat
        <5>1. \A s \in LiveSlots : slot[s].wasmMemory \in Nat
          BY LiveTyped
        <5> QED BY <5>1, LiveTyped, CountedIsNat
      <4> QED BY <1>0, <2>3, <4>1, RetainedIs DEF OverBudget
    <3> QED BY <1>0, <2>1, <3>1 DEF Bounded
  <2>4. CASE Trimmable = {}
    <3>1. IdleLive = {}
      <4> SUFFICES ASSUME IdleLive # {} PROVE FALSE
        OBVIOUS
      <4>1. PICK sizes : sizes = {slot[s].wasmMemory : s \in IdleLive}
        OBVIOUS
      <4>2. sizes \subseteq Nat /\ sizes # {}
        BY <4>1, LiveTyped
      <4>3. PICK m \in sizes : \A n \in sizes : m <= n
        BY <4>2, LeastNumber
      <4>4. PICK s \in IdleLive : slot[s].wasmMemory = m
        BY <4>1, <4>3
      <4>5. \A x \in LiveSlots : ~slot[x].busy => slot[s].wasmMemory <= slot[x].wasmMemory
        BY <4>1, <4>3, <4>4 DEF IdleLive
      <4>6. s \in Trimmable
        BY <4>4, <4>5 DEF Trimmable, IdleLive
      <4> QED BY <2>4, <4>6
    <3> QED BY <2>1, <3>1, NoneIdle
  <2> QED BY <1>1, <2>2, <2>3, <2>4
<1>2. CASE ~closed /\ OverBudget /\ Trimmable # {}
  <2>1. PICK s \in Trimmable : TrimSlot(s)
    BY <1>2 DEF TrimStep
  <2> DEFINE d == [slot[s] EXCEPT !.dead = TRUE, !.retired = @ \/ Cardinality(LiveSlots) = 1]
  <2>2. PICK r \in TerminateSlot(d) :
          /\ slot' = [slot EXCEPT ![s] = r]
          /\ IF Cardinality(LiveSlots) = 1 \/ ~r.terminated
             THEN EndTrim /\ UNCHANGED slots
             ELSE slots' = slots \ {s} /\ UNCHANGED turn
    BY <2>1 DEF TrimSlot
  <2>3. d \in SlotState /\ d.dead /\ s \in LiveSlots
    BY <1>0 DEF SlotState, Trimmable, LiveSlots
  <2> HIDE DEF d
  <2>4. r.terminated /\ r.dead
    <3>1. r = [d EXCEPT !.terminated = TRUE]
      BY <2>2 DEF TerminateSlot
    <3> QED BY <2>3, <3>1 DEF SlotState
  <2>5. CASE Cardinality(LiveSlots) = 1
    <3>1. UNCHANGED slots
      BY <2>2, <2>5
    <3>2. LiveSlots = {s}
      <4>1. \E x : LiveSlots = {x}
        BY <2>5, LiveTyped, FS_Singleton
      <4> QED BY <2>3, <4>1
    <3>3. \A x \in slots : x # s => slot[x].dead \/ slot[x].terminated
      BY <3>2 DEF LiveSlots
    <3>4. slot'[s] = r /\ \A x \in Slot : x # s => slot'[x] = slot[x]
      BY <1>0, <2>2, <2>3 DEF LiveSlots
    <3>5. LiveSlots' = {}
      BY <1>0, <2>4, <3>1, <3>3, <3>4 DEF LiveSlots
    <3> QED BY <3>5, NoneIdle DEF IdleLive
  <2>6. CASE Cardinality(LiveSlots) # 1
    BY <1>0, <2>2, <2>4, <2>6 DEF Bounded
  <2> QED BY <2>5, <2>6
<1> QED BY <1>1, <1>2

\* A worker that faults counts no more.
LEMMA FaultBounded ==
  ASSUME Inv, ClosedIsEmpty, Bounded, NEW s \in Slot, Fault(s)
  PROVE  Bounded'
<1>0. /\ slot \in [Slot -> SlotState] /\ slots \subseteq Slot /\ s \in slots /\ ~slot[s].dead
      /\ slot' = [slot EXCEPT ![s] = [slot[s] EXCEPT !.dead = TRUE]] /\ turn = "free"
      /\ budget \in Nat \cup {NoBudget}
  BY DEF Fault, Inv, TypeOK
<1>1. CASE Close
  BY <1>1, NoneIdle DEF Close, IdleLive, LiveSlots
<1>2. CASE UNCHANGED <<slots, budget>>
  <2>1. PICK r : r = [slot[s] EXCEPT !.dead = TRUE]
    OBVIOUS
  <2>2. r.dead /\ r.wasmMemory = slot[s].wasmMemory
    BY <1>0, <2>1 DEF SlotState
  <2>3. /\ slot'[s] = r /\ \A x \in Slot : x # s => slot'[x] = slot[x]
    BY <1>0, <2>1
  <2>4. PICK live : live = LiveSlots \ {s}
    OBVIOUS
  <2>5. LiveSlots' = live
    BY <1>0, <1>2, <2>2, <2>3, <2>4 DEF LiveSlots
  <2>6. IdleLive' \subseteq IdleLive
    BY <1>0, <2>3, <2>4, <2>5 DEF IdleLive, LiveSlots
  <2>7. s \in LiveSlots
    <3>1. ~slot[s].terminated
      BY <1>0 DEF Inv, TerminatedIsDead
    <3> QED BY <1>0, <3>1 DEF LiveSlots
  <2>8. PICK w : w = slot'
    OBVIOUS
  <2>9. RetainedBytes' = CountedBytes(live, w)
    BY <2>5, <2>8 DEF RetainedBytes
  <2>10. /\ IsFiniteSet(LiveSlots) /\ IsFiniteSet(live)
         /\ \A x \in LiveSlots : slot[x].wasmMemory \in Nat
         /\ \A x \in live : slot[x].wasmMemory \in Nat
    BY <2>4, LiveTyped, FS_Subset
  <2>11. CountedBytes(live, w) = CountedBytes(live, slot)
    <3>1. \A x \in live : w[x].wasmMemory = slot[x].wasmMemory
      BY <2>3, <2>4, <2>8, LiveTyped
    <3> QED BY <2>10, <3>1, CountedTheSame
  <2>12. CountedBytes(live, slot) <= CountedBytes(LiveSlots, slot)
    BY <2>4, <2>7, <2>10, CountedShrinks
  <2>13. CountedBytes(live, slot) \in Nat /\ CountedBytes(LiveSlots, slot) \in Nat
    BY <2>10, CountedIsNat
  <2>14. budget # NoBudget /\ IdleLive # {} => CountedBytes(LiveSlots, slot) <= budget
    BY <1>0, RetainedIs DEF Bounded
  <2>15. IdleLive' # {} => IdleLive # {}
    BY <2>6
  <2> QED BY <1>0, <1>2, <2>9, <2>11, <2>12, <2>13, <2>14, <2>15 DEF Bounded
<1> QED BY <1>1, <1>2 DEF Fault

LEMMA BoundedStep ==
  ASSUME ~TerminateMayThrow, Inv, ClosedIsEmpty, Bounded, [Next]_vars
  PROVE  Bounded'
<1>0. slot \in [Slot -> SlotState] /\ slots \subseteq Slot
  BY DEF Inv, TypeOK
<1>1. ASSUME turn \in {"free", "pump"}, UNCHANGED <<budget, slots, slot>>
      PROVE  Bounded'
  BY <1>1, StillBounded DEF LiveSlots, IdleLive
<1>2. ASSUME NEW s \in RetiredSlots, NEW r \in ReplaceSlot(slot[s]), NEW u, Grant(u, s, r),
             IdleSlots = {}, UNCHANGED slots
      PROVE  Bounded'
  <2>1. slot' = [slot EXCEPT ![s] = [r EXCEPT !.busy = TRUE]]
    BY <1>2 DEF Grant
  <2>2. r \in SlotState
    BY <1>0, <1>2, ReplaceSlotLemma DEF RetiredSlots
  <2>3. [r EXCEPT !.busy = TRUE].busy
    BY <2>2 DEF SlotState
  <2> QED BY <1>2, <2>1, <2>3, RetiredChanged, NoneIdle
<1>3. ASSUME NEW u \in Task, Submit(u)
      PROVE  Bounded'
  <2>0. turn = "free" /\ UNCHANGED <<slots, budget>>
    BY <1>3 DEF Submit
  <2>1. CASE UNCHANGED slot
    BY <1>1, <2>0, <2>1
  <2>2. CASE SubmitToIdle(u)
    <3>1. PICK s \in IdleSlots : Grant(u, s, slot[s])
      BY <2>2 DEF SubmitToIdle, Preferred
    <3> QED BY <2>0, <3>1, GrantedBounded
  <2>3. CASE SubmitToRetired(u)
    <3>1. PICK s \in RetiredSlots : \E r \in ReplaceSlot(slot[s]) : ~r.dead /\ Grant(u, s, r)
      BY <2>3 DEF SubmitToRetired
    <3>2. PICK r \in ReplaceSlot(slot[s]) : Grant(u, s, r)
      BY <3>1
    <3> QED BY <1>2, <2>0, <2>3, <3>2 DEF SubmitToRetired
  <2>4. CASE SubmitAndWait(u) /\ slot' # slot
    <3>1. PICK s \in RetiredSlots : \E r \in ReplaceSlot(slot[s]) :
            r.dead /\ slot' = [slot EXCEPT ![s] = r]
      BY <2>4 DEF SubmitAndWait
    <3>2. PICK r \in ReplaceSlot(slot[s]) : r.dead /\ slot' = [slot EXCEPT ![s] = r]
      BY <3>1
    <3> QED BY <2>0, <2>4, <3>2, RetiredChanged, NoneIdle DEF SubmitAndWait
  <2> QED BY <1>3, <2>1, <2>2, <2>3, <2>4 DEF Submit, SubmitToClosed
<1>4. ASSUME NEW u \in Task, Start(u) \/ Reply(u)
      PROVE  Bounded'
  <2>1. turn = "free" /\ UNCHANGED <<slots, budget>>
    BY <1>4 DEF Start, Reply
  <2>2. \A x \in Slot : /\ slot'[x].dead = slot[x].dead /\ slot'[x].terminated = slot[x].terminated
                        /\ slot'[x].wasmMemory = slot[x].wasmMemory /\ slot'[x].busy = slot[x].busy
    <3>1. CASE slot' = slot
      BY <3>1
    <3>2. CASE Start(u) /\ slot' # slot
      BY <1>0, <3>2 DEF Start, SlotState
    <3>3. CASE Reply(u)
      <4>1. PICK h : slot' = [slot EXCEPT ![holds[u]].heap = h]
        BY <3>3 DEF Reply
      <4> QED BY <1>0, <4>1 DEF SlotState
    <3> QED BY <1>4, <3>1, <3>2, <3>3
  <2>3. LiveSlots' = LiveSlots
    BY <1>0, <2>1, <2>2 DEF LiveSlots
  <2>4. IdleLive' = IdleLive
    BY <1>0, <2>2, <2>3 DEF IdleLive, LiveSlots
  <2>5. \A x \in LiveSlots : slot'[x].wasmMemory = slot[x].wasmMemory
    BY <1>0, <2>2 DEF LiveSlots
  <2> QED BY <2>1, <2>3, <2>4, <2>5, StillBounded
<1>5. ASSUME NEW u \in Task, Settle(u)
      PROVE  Bounded'
  <2>1. CASE closed
    BY <1>5, <2>1, NoneIdle DEF Settle, SettleOk, SettleError, ClosedIsEmpty, IdleLive, LiveSlots
  <2>2. CASE ~closed
    <3>1. turn' = "trim"
      BY <1>5, <2>2 DEF Settle, SettleOk, SettleError, ReleaseNothing, Release
    <3> QED BY <3>1 DEF Bounded
  <2> QED BY <2>1, <2>2
<1>6. CASE PumpStep
  <2>0. turn = "pump" /\ UNCHANGED <<slots, budget>>
    BY <1>6 DEF PumpStep
  <2>1. CASE \E s \in IdleSlots : HandOver(s, slot[s])
    <3>1. PICK s \in IdleSlots : Grant(Head(waiters), s, slot[s])
      BY <2>1 DEF HandOver
    <3> QED BY <2>0, <3>1, GrantedBounded
  <2>2. CASE /\ IdleSlots = {}
             /\ \E s \in RetiredSlots : \E r \in ReplaceSlot(slot[s]) :
                  IF r.dead THEN slot' = [slot EXCEPT ![s] = r] /\ EndPump
                  ELSE HandOver(s, r)
    <3>1. PICK s \in RetiredSlots : \E r \in ReplaceSlot(slot[s]) :
               IF r.dead THEN slot' = [slot EXCEPT ![s] = r] /\ EndPump
               ELSE HandOver(s, r)
      BY <2>2
    <3>2. PICK r \in ReplaceSlot(slot[s]) :
               IF r.dead THEN slot' = [slot EXCEPT ![s] = r] /\ EndPump
               ELSE HandOver(s, r)
      BY <3>1
    <3>3. CASE r.dead
      BY <2>0, <2>2, <3>2, <3>3, RetiredChanged, NoneIdle
    <3>4. CASE ~r.dead
      BY <1>2, <2>0, <2>2, <3>2, <3>4 DEF HandOver
    <3> QED BY <3>3, <3>4
  <2>3. CASE UNCHANGED slot
    BY <1>1, <2>0, <2>3
  <2> QED BY <1>6, <2>1, <2>2, <2>3 DEF PumpStep
<1>7. CASE TrimStep
  BY <1>7, TrimmedBounded
<1>8. ASSUME NEW s \in Slot, Fault(s)
      PROVE  Bounded'
  BY <1>8, FaultBounded
<1>9. CASE Terminate
  BY <1>9, NoneIdle DEF Terminate, Close, IdleLive, LiveSlots
<1>10. CASE \E b \in Budgets : SetRetainedMemoryBudget(b)
  BY <1>10 DEF SetRetainedMemoryBudget, Bounded
<1>11. CASE UNCHANGED vars
  BY <1>11 DEF vars, Bounded, RetainedBytes, IdleLive, LiveSlots
<1> QED BY <1>3, <1>4, <1>5, <1>6, <1>7, <1>8, <1>9, <1>10, <1>11 DEF Next

\* The trimmer keeps its promise for any number of workers, heaps of any size
\* and any budget, if terminating a worker does not throw: the heaps that idle
\* workers really retain, rejected tasks' included, fit beside those in use.
THEOREM MemoryIsBounded ==
  ASSUME ~TerminateMayThrow
  PROVE  Spec => []RetainedMemoryBound
<1> DEFINE MemoryInv == HeapsKnown /\ ClosedIsEmpty /\ Bounded
<1>1. Init => MemoryInv
  BY DEF Init, HeapsKnown, ClosedIsEmpty, Bounded, FreshSlot
<1>2. Inv /\ MemoryInv /\ [Next]_vars => MemoryInv'
  <2>1. Inv /\ ClosedIsEmpty /\ [Next]_vars => ClosedIsEmpty'
    <3> SUFFICES ASSUME Inv, ClosedIsEmpty, [Next]_vars, closed' PROVE slots' = {}
      BY DEF ClosedIsEmpty
    <3>1. CASE Terminate \/ \E s \in Slot : Fault(s)
      BY <3>1 DEF Terminate, Fault, Close, ClosedIsEmpty
    <3>2. CASE TrimStep
      BY <3>2 DEF TrimStep, ClosedIsEmpty
    <3>3. CASE UNCHANGED <<slots, closed>>
      BY <3>3 DEF ClosedIsEmpty
    <3> QED BY <3>1, <3>2, <3>3 DEF Next, vars, Submit, Start, Reply, Settle, SettleOk, SettleError,
                PumpStep, SetRetainedMemoryBudget
  <2> QED BY <2>1, HeapsStayKnown, BoundedStep
<1>3. Inv /\ MemoryInv => RetainedMemoryBound
  <2> SUFFICES ASSUME Inv, HeapsKnown, Bounded, turn = "free", budget # NoBudget, IdleLive # {}
               PROVE  RealBytes(LiveSlots, slot) <= budget
    BY DEF RetainedMemoryBound
  <2>1. \A s \in LiveSlots : ~slot[s].busy => slot[s].heap = slot[s].wasmMemory
    BY LiveTyped DEF HeapsKnown, Budgeted, LiveSlots
  <2>2. \A s \in LiveSlots : slot[s].wasmMemory \in Nat
    BY LiveTyped
  <2>3. RealBytes(LiveSlots, slot) = CountedBytes(LiveSlots, slot)
    BY <2>1, <2>2, LiveTyped, RealIsCounted
  <2> QED BY <2>3, RetainedIs DEF Bounded
<1> QED BY <1>1, <1>2, <1>3, InvHolds, PTL DEF Spec
=============================================================================

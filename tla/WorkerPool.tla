----------------------------- MODULE WorkerPool -----------------------------
(***************************************************************************)
(* The pool of processing workers of web/src/lib/rustWorkerClient.ts       *)
(* (class WorkerPool).  A submission acquires a slot or queues as a        *)
(* waiter; runOnSlot races the submission's body against the worker's      *)
(* fault and against the pool-wide abort; release gives the slot back,     *)
(* trims retained memory and pumps the queue.                              *)
(*                                                                         *)
(* JavaScript runs each of these to completion, so `turn` names the        *)
(* synchronous code in progress: while it is not "free" only the loop it   *)
(* names may step.  One TrimStep or PumpStep is one iteration of the       *)
(* corresponding while loop.                                               *)
(*                                                                         *)
(* A slot is identified by its position in the pool's array.  Where the    *)
(* code takes the first slot that satisfies a condition the model takes    *)
(* any: no property depends on the order of the array.                     *)
(***************************************************************************)
EXTENDS Naturals, FiniteSets, Sequences, FiniteSetsExt

CONSTANTS
  Slot,              \* positions of the constructor's slots array
  Task,              \* submissions; each is made at most once
  Input,             \* digests of the inputs that submissions carry
  InputOf,           \* the digest each submission prefers
  MaxTasksPerWorker, \* task limit of a worker (larger than |Task|: no limit)
  WasmSizes,         \* heap sizes that a worker may report
  WorkerBaseline,    \* WORKER_BASELINE_BYTES
  Budgets,           \* values setRetainedMemoryBudget may install
  DisposeOnFault,    \* whether onFault disposes the pool (incremental engine)
  SpawnMayThrow,     \* createSlot may throw
  TerminateMayThrow, \* worker.terminate() may throw
  NoInput, NoSlot, NoBudget

ASSUME PoolAssumption ==
  /\ Slot # {} /\ IsFiniteSet(Slot)
  /\ InputOf \in [Task -> Input]
  /\ NoInput \notin Input
  /\ NoSlot \notin Slot
  /\ MaxTasksPerWorker \in Nat \ {0}
  /\ WasmSizes \subseteq Nat
  /\ WorkerBaseline \in Nat
  /\ Budgets \subseteq Nat
  /\ NoBudget \notin Nat
  /\ DisposeOnFault \subseteq BOOLEAN
  /\ SpawnMayThrow \in BOOLEAN
  /\ TerminateMayThrow \in BOOLEAN

VARIABLES
  slots,    \* positions still in the array
  slot,     \* the WorkerSlot at each position
  waiters,  \* queued submissions, oldest first
  status,   \* where each submission is
  holds,    \* the slot a submission was granted
  budget,   \* retainedMemoryBudgetBytes
  closed,   \* the pool's `terminated`
  turn      \* synchronous code in progress

vars == <<slots, slot, waiters, status, holds, budget, closed, turn>>

SlotState ==
  [busy: BOOLEAN, dead: BOOLEAN, retired: BOOLEAN, terminated: BOOLEAN,
   completedTasks: Nat, wasmMemory: Nat, heap: Nat, lastInput: Input \cup {NoInput}]

\* createSlot.  wasmMemory is the last reported heap, heap the real one.
FreshSlot ==
  [busy |-> FALSE, dead |-> FALSE, retired |-> FALSE, terminated |-> FALSE,
   completedTasks |-> 0, wasmMemory |-> 0, heap |-> 0, lastInput |-> NoInput]

\* "answered" and "refused": the body settled, its continuation has not run.
Holding == {"granted", "running", "answered", "refused"}
Settled == {"ok", "failed"}
Status == {"new", "waiting"} \cup Holding \cup Settled

TypeOK ==
  /\ slots \subseteq Slot
  /\ slot \in [Slot -> SlotState]
  /\ waiters \in Seq(Task)
  /\ status \in [Task -> Status]
  /\ holds \in [Task -> Slot \cup {NoSlot}]
  /\ budget \in Nat \cup {NoBudget}
  /\ closed \in BOOLEAN
  /\ turn \in {"free", "trim", "trimOnly", "pump"}

Init ==
  /\ slots = Slot
  /\ slot = [s \in Slot |-> FreshSlot]
  /\ waiters = <<>>
  /\ status = [t \in Task |-> "new"]
  /\ holds = [t \in Task |-> NoSlot]
  /\ budget = NoBudget
  /\ closed = FALSE
  /\ turn = "free"

-----------------------------------------------------------------------------
(* Slot operations.  Each is the set of records the slot may end up with. *)

SlotsNotDead == {s \in slots : ~slot[s].dead}
IdleSlots == {s \in slots : ~slot[s].busy /\ ~slot[s].dead}
RetiredSlots == {s \in slots : ~slot[s].busy /\ slot[s].retired}
LiveSlots == {s \in slots : ~slot[s].dead /\ ~slot[s].terminated}
AllDead(state) == \A s \in slots : state[s].dead

\* terminateSlot
TerminateSlot(r) ==
  {[r EXCEPT !.terminated = TRUE]}
    \cup {x \in {[r EXCEPT !.dead = TRUE]} : TerminateMayThrow /\ ~r.terminated}

\* The attempt to respawn after a successful terminateSlot.
Respawn(r) == {FreshSlot} \cup {x \in {[r EXCEPT !.dead = TRUE]} : SpawnMayThrow}

\* replaceSlot: FreshSlot when the replacement took the slot's place.
ReplaceSlot(r) ==
  IF r.busy \/ ~r.retired
  THEN {r}
  ELSE UNION {IF k.terminated THEN Respawn(k) ELSE {k} : k \in TerminateSlot(r)}

\* The task limit in release.
RetireAtLimit(r) ==
  IF ~r.dead /\ r.completedTasks >= MaxTasksPerWorker
  THEN TerminateSlot([r EXCEPT !.dead = TRUE, !.retired = TRUE])
  ELSE {r}

\* release, up to the loops of trimRetainedSlots and pump.
ReleaseSlot(r) ==
  UNION {IF k.dead /\ waiters # <<>> THEN ReplaceSlot(k) ELSE {k} :
          k \in RetireAtLimit([r EXCEPT !.busy = FALSE, !.completedTasks = @ + 1])}

\* Mutant: a failed task keeps its worker, whose heap is unknown.
KeepAfterError(r) == {r}

\* The catch clause of runOnSlot.
RetireAfterError(r) ==
  IF budget = NoBudget
  THEN {r}
  ELSE TerminateSlot([r EXCEPT !.dead = TRUE, !.retired = ~r.dead \/ @])

\* What the workers L report and stand for beside it, by the records w.
CountedBytes(L, w) == MapThenSumSet(LAMBDA s : w[s].wasmMemory + WorkerBaseline, L)
RetainedBytes == CountedBytes(LiveSlots, slot)
OverBudget == budget # NoBudget /\ RetainedBytes > budget

-----------------------------------------------------------------------------
Grant(t, s, r) ==
  /\ slot' = [slot EXCEPT ![s] = [r EXCEPT !.busy = TRUE]]
  /\ status' = [status EXCEPT ![t] = "granted"]
  /\ holds' = [holds EXCEPT ![t] = s]

\* The slots acquire prefers: idle ones that last reviewed the same input.
Preferred(t) ==
  LET same == {s \in IdleSlots : slot[s].lastInput = InputOf[t]}
  IN  IF same # {} THEN same ELSE IdleSlots

\* acquire, refused by a terminated pool
SubmitToClosed(t) ==
  /\ closed
  /\ status' = [status EXCEPT ![t] = "failed"]
  /\ UNCHANGED <<slot, waiters, holds>>

\* acquire, an idle worker
SubmitToIdle(t) ==
  /\ ~closed
  /\ \E s \in Preferred(t) : Grant(t, s, slot[s])
  /\ UNCHANGED waiters

\* acquire, no idle worker but a retired one that is replaced
SubmitToRetired(t) ==
  /\ ~closed /\ IdleSlots = {}
  /\ \E s \in RetiredSlots : \E r \in ReplaceSlot(slot[s]) :
       ~r.dead /\ Grant(t, s, r)
  /\ UNCHANGED waiters

\* acquire, no worker to be had: reject when every slot is dead, else queue
SubmitAndWait(t) ==
  /\ ~closed /\ IdleSlots = {}
  /\ \/ RetiredSlots = {} /\ UNCHANGED slot
     \/ \E s \in RetiredSlots : \E r \in ReplaceSlot(slot[s]) :
          r.dead /\ slot' = [slot EXCEPT ![s] = r]
  /\ IF AllDead(slot')
     THEN /\ status' = [status EXCEPT ![t] = "failed"]
          /\ UNCHANGED waiters
     ELSE /\ status' = [status EXCEPT ![t] = "waiting"]
          /\ waiters' = Append(waiters, t)
  /\ UNCHANGED holds

Submit(t) ==
  /\ turn = "free" /\ status[t] = "new"
  /\ \/ SubmitToClosed(t)
     \/ SubmitToIdle(t)
     \/ SubmitToRetired(t)
     \/ SubmitAndWait(t)
  /\ UNCHANGED <<slots, budget, closed, turn>>

\* The continuation of `await this.acquire()`: runOnSlot starts the body, which
\* records the input once the worker is ready.
Start(t) ==
  /\ turn = "free" /\ status[t] = "granted"
  /\ status' = [status EXCEPT ![t] = "running"]
  /\ slot' = IF closed \/ slot[holds[t]].dead
             THEN slot
             ELSE [slot EXCEPT ![holds[t]].lastInput = InputOf[t]]
  /\ UNCHANGED <<slots, waiters, holds, budget, closed, turn>>

\* The worker's reply arrives: a result, which reports the heap, or an ordinary
\* rejection, which does not.  Either way the task may have grown the heap; it
\* never shrinks.  A faulted or terminated worker owes no reply any more.
Reply(t) ==
  /\ turn = "free" /\ status[t] = "running"
  /\ ~closed /\ ~slot[holds[t]].dead
  /\ \E outcome \in {"answered", "refused"} :
       status' = [status EXCEPT ![t] = outcome]
  /\ \E bytes \in WasmSizes :
       slot' = [slot EXCEPT ![holds[t]].heap = IF bytes > @ THEN bytes ELSE @]
  /\ UNCHANGED <<slots, waiters, holds, budget, closed, turn>>

\* Mutants: the race leaves out the fault, or the abort.
LostToAbortOnly(t) == status[t] = "running" /\ closed
LostToFaultOnly(t) == status[t] = "running" /\ slot[holds[t]].dead

\* The race in runOnSlot is lost to the slot's fault or to the pool's abort.
RaceLost(t) == status[t] = "running" /\ (closed \/ slot[holds[t]].dead)

\* release of a slot that is still in the array continues with its two loops.
Release(t, s, r) ==
  /\ slot' = [slot EXCEPT ![s] = r]
  /\ holds' = [holds EXCEPT ![t] = NoSlot]
  /\ turn' = "trim"

\* release finds the pool terminated: nothing is given back.
ReleaseNothing(t) ==
  /\ closed
  /\ holds' = [holds EXCEPT ![t] = NoSlot]
  /\ UNCHANGED <<slot, turn>>

SettleOk(t) ==
  /\ turn = "free" /\ status[t] = "answered"
  /\ status' = [status EXCEPT ![t] = "ok"]
  /\ \/ ReleaseNothing(t)
     \/ /\ ~closed
        /\ LET s == holds[t] IN
           \E r \in ReleaseSlot([slot[s] EXCEPT !.wasmMemory = slot[s].heap]) :
             Release(t, s, r)
  /\ UNCHANGED <<slots, waiters, budget, closed>>

SettleError(t) ==
  /\ turn = "free" /\ (status[t] = "refused" \/ RaceLost(t))
  /\ status' = [status EXCEPT ![t] = "failed"]
  /\ \/ ReleaseNothing(t)
     \/ /\ ~closed
        /\ LET s == holds[t] IN
           \E k \in RetireAfterError(slot[s]) : \E r \in ReleaseSlot(k) :
             Release(t, s, r)
  /\ UNCHANGED <<slots, waiters, budget, closed>>

-----------------------------------------------------------------------------
\* One iteration of the loop of trimRetainedSlots.
Trimmable ==
  {s \in LiveSlots : /\ ~slot[s].busy
                     /\ \A x \in LiveSlots :
                          ~slot[x].busy => slot[s].wasmMemory <= slot[x].wasmMemory}

EndTrim == turn' = IF turn = "trim" THEN "pump" ELSE "free"

TrimSlot(s) ==
  LET lone == Cardinality(LiveSlots) = 1 IN
  \E r \in TerminateSlot([slot[s] EXCEPT !.dead = TRUE, !.retired = @ \/ lone]) :
    /\ slot' = [slot EXCEPT ![s] = r]
    /\ IF lone \/ ~r.terminated
       THEN EndTrim /\ UNCHANGED slots
       ELSE slots' = slots \ {s} /\ UNCHANGED turn

TrimStep ==
  /\ turn \in {"trim", "trimOnly"}
  /\ IF ~closed /\ OverBudget /\ Trimmable # {}
     THEN \E s \in Trimmable : TrimSlot(s)
     ELSE EndTrim /\ UNCHANGED <<slots, slot>>
  /\ UNCHANGED <<waiters, status, holds, budget, closed>>

\* The batch runner installs the budget on a new pool before it submits to it;
\* on a warm pool it installs the same value again, which changes nothing.
SetRetainedMemoryBudget(b) ==
  /\ turn = "free" /\ budget # b
  /\ budget = NoBudget => \A t \in Task : status[t] = "new"
  /\ budget' = b
  /\ turn' = "trimOnly"
  /\ UNCHANGED <<slots, slot, waiters, status, holds, closed>>

\* Mutant: the queue is gone through and keeps those it rejected.
RejectInPlace ==
  /\ status' = [t \in Task |-> IF status[t] = "waiting" THEN "failed" ELSE status[t]]
  /\ UNCHANGED waiters
RejectWaiters ==
  /\ status' = [t \in Task |-> IF status[t] = "waiting" THEN "failed" ELSE status[t]]
  /\ waiters' = <<>>

\* Mutants: pump ends without looking at the queue; busy workers count as lost.
KeepWaiters ==
  /\ turn' = "free"
  /\ UNCHANGED <<holds, status, waiters>>
RejectUnlessIdle ==
  /\ IF waiters # <<>> /\ \A s \in slots : slot'[s].dead \/ slot'[s].busy
     THEN RejectWaiters
     ELSE UNCHANGED <<status, waiters>>
  /\ turn' = "free"
  /\ UNCHANGED holds

\* The end of pump: every slot is dead, so nothing will serve the queue.
EndPump ==
  /\ IF waiters # <<>> /\ AllDead(slot')
     THEN RejectWaiters
     ELSE UNCHANGED <<status, waiters>>
  /\ turn' = "free"
  /\ UNCHANGED holds

\* Mutant: the newest waiter first.
HandOverToNewest(s, r) ==
  /\ Grant(waiters[Len(waiters)], s, r)
  /\ waiters' = SubSeq(waiters, 1, Len(waiters) - 1)
  /\ UNCHANGED turn

HandOver(s, r) ==
  /\ Grant(Head(waiters), s, r)
  /\ waiters' = Tail(waiters)
  /\ UNCHANGED turn

\* One iteration of the loop of pump, or its end.
PumpStep ==
  /\ turn = "pump"
  /\ \/ /\ waiters # <<>>
        /\ \E s \in IdleSlots : HandOver(s, slot[s])
     \/ /\ waiters # <<>> /\ IdleSlots = {}
        /\ \E s \in RetiredSlots : \E r \in ReplaceSlot(slot[s]) :
             IF r.dead
             THEN slot' = [slot EXCEPT ![s] = r] /\ EndPump
             ELSE HandOver(s, r)
     \/ /\ waiters = <<>> \/ (IdleSlots = {} /\ RetiredSlots = {})
        /\ UNCHANGED slot
        /\ EndPump
  /\ UNCHANGED <<slots, budget, closed>>

-----------------------------------------------------------------------------
\* terminate: abort every submission, reject the queue, drop every worker.
Close ==
  /\ closed' = TRUE
  /\ RejectWaiters
  /\ slots' = {}
  /\ turn' = "free"
  /\ UNCHANGED <<holds, budget>>

Terminate == turn = "free" /\ ~closed /\ Close /\ UNCHANGED slot

\* markDead: the worker's fault or a failed initialisation.
Fault(s) ==
  /\ turn = "free" /\ ~closed
  /\ s \in slots /\ ~slot[s].dead
  /\ slot' = [slot EXCEPT ![s].dead = TRUE]
  /\ \/ TRUE \in DisposeOnFault /\ Close
     \/ /\ FALSE \in DisposeOnFault
        /\ turn' = "pump"
        /\ UNCHANGED <<slots, waiters, status, holds, budget, closed>>

Settle(t) == SettleOk(t) \/ SettleError(t)

Next ==
  \/ \E t \in Task : Submit(t) \/ Start(t) \/ Reply(t) \/ Settle(t)
  \/ TrimStep
  \/ PumpStep
  \/ \E b \in Budgets : SetRetainedMemoryBudget(b)
  \/ \E s \in Slot : Fault(s)
  \/ Terminate

Spec == Init /\ [][Next]_vars

\* The event loop runs every continuation and finishes every loop.  Nothing is
\* assumed of the workers: one may compute forever.
LoopFairness ==
  /\ WF_vars(TrimStep)
  /\ WF_vars(PumpStep)
  /\ \A t \in Task : WF_vars(Start(t)) /\ WF_vars(Settle(t))

EventLoopSpec == Spec /\ LoopFairness

\* In addition every call that a worker accepted ends with a reply.
WorkersAnswer == \A t \in Task : WF_vars(Reply(t))

-----------------------------------------------------------------------------
(* Properties *)

\* A slot of the pool is busy exactly while one submission holds it: release
\* neither leaks a slot nor hands one worker to two submissions.
SlotAccounting ==
  /\ ~closed =>
       \A s \in Slot :
         slot[s].busy <=> \E t \in Task : status[t] \in Holding /\ holds[t] = s
  /\ ~closed => \A t, u \in Task :
       status[t] \in Holding /\ status[u] \in Holding /\ holds[t] = holds[u] => t = u

\* Whenever control returns to the event loop with submissions queued, some
\* live worker is busy (its release will pump the queue) and none is idle:
\* acquire, release, markDead and the trimmer never strand a waiter.
WaitersWillBeServed ==
  turn = "free" /\ waiters # <<>> =>
    /\ IdleSlots = {}
    /\ \E s \in slots : slot[s].busy /\ ~slot[s].dead

\* acquire and pump never hand out a worker that faulted, was retired or was
\* already terminated (terminateSlot precedes the reuse of its slot).
GrantsLiveWorker ==
  [][\A t \in Task :
       status[t] # "granted" /\ status'[t] = "granted" =>
         LET s == holds'[t] IN
           s \in slots' /\ ~slot'[s].dead /\ ~slot'[s].terminated]_vars

\* Queued submissions start in order and no later submission overtakes them
\* (the order the pool's tests rely on), as long as spawning and terminating
\* workers does not throw.
NoOvertaking ==
  [][\A t \in Task :
       waiters # <<>> /\ status[t] # "granted" /\ status'[t] = "granted"
         => t = Head(waiters)]_vars

\* A queued submission is only rejected by terminate or when every worker of
\* the pool has faulted; a worker retired by its limit or for its memory is
\* replaced instead.
RejectedOnlyWhenHopeless ==
  [][\A t \in Task :
       status[t] = "waiting" /\ status'[t] = "failed" =>
         closed' \/ \A s \in slots : slot[s].dead /\ ~slot[s].retired]_vars

\* A submission is served from the grant of a worker until it settles.
Stage == [t \in Task |-> IF status[t] \in Holding THEN "served" ELSE status[t]]
Server == [t \in Task |-> IF status[t] \in Holding THEN holds[t] ELSE NoSlot]

Promised == INSTANCE WorkQueue WITH
  stage <- Stage, queue <- waiters, server <- Server,
  InOrder <- ~SpawnMayThrow /\ ~TerminateMayThrow

\* Slots, their replacements, the two loops of release and whatever faults or
\* throws implement a queue with servers: each submission is taken, queued or
\* refused once, served on a worker of its own once and settled once, and the
\* waiters are exactly those queued.  Where spawning or terminating throws a new
\* submission may pass the queue: it makes the pool try the failed spawn again.
ImplementsQueue == Promised!Spec

IdleLive == {s \in LiveSlots : ~slot[s].busy}
RealBytes(L, w) ==
  MapThenSumSet(LAMBDA s : WorkerBaseline + IF w[s].busy THEN w[s].wasmMemory ELSE w[s].heap, L)

\* "Account for every live WASM heap": after every release and every new budget
\* the heaps that idle workers really retain fit the budget beside those of the
\* workers in use, whatever the rejected tasks among them did not report.
RetainedMemoryBound ==
  turn = "free" /\ budget # NoBudget /\ IdleLive # {} =>
    RealBytes(LiveSlots, slot) <= budget

\* Every submission settles, by a result or by an error, as long as workers
\* answer; whatever throws, faults or is terminated on the way.
EverySubmissionSettles ==
  WorkersAnswer => \A t \in Task : status[t] # "new" ~> status[t] \in Settled

\* "Settle every submission FIRST ... so a cancel unwinds the batch instead of
\* wedging it": terminate settles every submission made before or after it,
\* although the workers never answer.
CancelUnwinds ==
  \A t \in Task : closed /\ status[t] # "new" ~> status[t] \in Settled
=============================================================================

---------------------------- MODULE PayloadStore ----------------------------
(***************************************************************************)
(* The payload store of the kernel (payload_store.rs): immutable values     *)
(* behind handles, a byte budget for what stays resident in WASM memory,   *)
(* and a spill backend for the rest.                                        *)
(*                                                                         *)
(* A value is an allocation at an address.  It is alive while anybody holds *)
(* a strong reference: the store (resident), a lease, a table waiting in    *)
(* the drop queue, or a shared Arc outside the store (arcs).  A dead        *)
(* address is handed out again, so every map keyed by address can be stale. *)
(* A row table is a value made of row allocations, which tables share; the  *)
(* store charges each row once.                                             *)
(*                                                                         *)
(* A call is one action, and the eviction pass it ends in is a loop of      *)
(* PassEvict steps: the store lock is held (pass # Nil) and nothing else    *)
(* runs.  last_used is 0 (cold) or a clock value, of which only the order   *)
(* (before) matters.                                                       *)
(***************************************************************************)
EXTENDS Integers, FiniteSets

CONSTANTS
  Entry,        \* payload identities, never reused (next_payload_id)
  Addr,         \* addresses of value allocations
  RowAddr,      \* addresses of row allocations
  Lease,        \* concurrent leases
  Nil,
  Budgets,      \* values of set_budget_bytes; 0 is unlimited
  ByteCharge,   \* charge of a byte payload
  TableCharge,  \* charge of a row table, without its rows
  RowCharge,    \* charge of one row allocation with its map entry
  MaxArcs,      \* bound: shared Arcs of one value
  MaxHandles,   \* bound: clones of one handle
  MaxFailures   \* bound: backend failures

ASSUME StoreAssumption ==
  /\ Budgets \subseteq Nat /\ Budgets # {}
  /\ ByteCharge \in Nat /\ TableCharge \in Nat /\ RowCharge \in Nat
  /\ MaxArcs \in Nat /\ MaxHandles \in Nat /\ MaxFailures \in Nat
  /\ Nil \notin Entry \cup Addr \cup Nat
  /\ IsFiniteSet(Entry) /\ IsFiniteSet(Addr) /\ IsFiniteSet(RowAddr)

VARIABLES
  arcs,          \* strong references outside the store, per address
  rows,          \* rows of the table last allocated at an address; {} for bytes
  used,          \* identities given out
  handles,       \* PayloadHandle clones of an entry
  resident,      \* Entry.resident
  tables,        \* entries whose payload is a row table
  before,        \* <<e, f>>: e.last_used < f.last_used, both touched
  cold,          \* entries whose last_used is 0
  integrity,     \* entries whose spill is written and hashed
  leases,        \* PayloadLease: the entry and the allocation it holds
  byAddress,     \* StoreState.by_address, a weak reference
  residentBytes, \* StoreState.resident_bytes
  sharedRows,    \* StoreState.shared_rows: references per row address
  droppedBytes,  \* drop queue: charges of byte payloads already freed
  droppedTables, \* drop queue: tables kept alive until they are accounted
  stalledAt,     \* StoreState.stalled_at
  budget,        \* StoreState.budget
  error,         \* StoreState.error is set
  failureCount,  \* StoreState.failure_count
  stored,        \* identities the spill backend holds
  failures,      \* backend failures so far (bound)
  pass,          \* trim_locked in progress
  request,       \* request bracket: failure count at entry, and whether it failed
  poisoned,      \* the workspace engine has memoized a store error
  silent         \* something became evictable that no pass was told of

heapVars == <<arcs, rows>>
entryVars == <<used, handles, resident, tables, before, cold, integrity>>
stateVars == <<byAddress, residentBytes, sharedRows, droppedBytes,
               droppedTables, stalledAt, budget, error, failureCount>>
engineVars == <<request, poisoned>>
vars == <<heapVars, entryVars, leases, stateVars, stored, failures, pass,
          engineVars, silent>>

Passes == [all : BOOLEAN, latch : BOOLEAN, begun : BOOLEAN]
Requests == [count : Nat, failed : BOOLEAN]
Leases == [entry : Entry, addr : Addr]

ASSUME NilAssumption == Nil \notin Passes \cup Requests \cup Leases

TypeOK ==
  /\ arcs \in [Addr -> Nat]
  /\ rows \in [Addr -> SUBSET RowAddr]
  /\ used \subseteq Entry
  /\ handles \in [Entry -> Nat]
  /\ resident \in [Entry -> Addr \cup {Nil}]
  /\ tables \subseteq Entry
  /\ before \subseteq Entry \X Entry
  /\ cold \subseteq Entry
  /\ integrity \subseteq Entry
  /\ leases \in [Lease -> Leases \cup {Nil}]
  /\ byAddress \in [Addr -> Entry \cup {Nil}]
  /\ residentBytes \in Nat
  /\ sharedRows \in [RowAddr -> Nat]
  /\ droppedBytes \in Nat
  /\ droppedTables \subseteq Addr
  /\ stalledAt \in Nat \cup {Nil}
  /\ budget \in Budgets
  /\ error \in BOOLEAN
  /\ failureCount \in Nat
  /\ stored \subseteq Entry
  /\ failures \in 0..MaxFailures
  /\ pass \in Passes \cup {Nil}
  /\ request \in Requests \cup {Nil}
  /\ poisoned \in BOOLEAN
  /\ silent \in BOOLEAN

Init ==
  /\ arcs = [a \in Addr |-> 0]
  /\ rows = [a \in Addr |-> {}]
  /\ used = {}
  /\ handles = [e \in Entry |-> 0]
  /\ resident = [e \in Entry |-> Nil]
  /\ tables = {}
  /\ before = {}
  /\ cold = {}
  /\ integrity = {}
  /\ leases = [l \in Lease |-> Nil]
  /\ byAddress = [a \in Addr |-> Nil]
  /\ residentBytes = 0
  /\ sharedRows = [r \in RowAddr |-> 0]
  /\ droppedBytes = 0
  /\ droppedTables = {}
  /\ stalledAt = Nil
  /\ budget \in Budgets
  /\ error = FALSE
  /\ failureCount = 0
  /\ stored = {}
  /\ failures = 0
  /\ pass = Nil
  /\ request = Nil
  /\ poisoned = FALSE
  /\ silent = FALSE

-----------------------------------------------------------------------------
\* References and lifetimes

LeasesOf(e) == {l \in Lease : leases[l] # Nil /\ leases[l].entry = e}
LeasesAt(a) == {l \in Lease : leases[l] # Nil /\ leases[l].addr = a}

\* An Entry lives while a handle or a lease refers to it.
Alive(e) == handles[e] > 0 \/ LeasesOf(e) # {}

\* Mutants: the queue frees a table before its rows leave the accounts
\* (HeldOutsideFreed); eviction does not look at the strong count
\* (HeldOutsideUncounted).
HeldOutsideFreed(a) == arcs[a] > 0 \/ LeasesAt(a) # {}
HeldOutsideUncounted(a) == a \in droppedTables

\* Something outside the store's own slot holds the allocation.
HeldOutside(a) == arcs[a] > 0 \/ LeasesAt(a) # {} \/ a \in droppedTables

LiveAddr(a) == HeldOutside(a) \/ \E e \in Entry : resident[e] = a
LiveRows == UNION {rows[a] : a \in {b \in Addr : LiveAddr(b)}}

\* Arc::strong_count(value) == 1: only the store holds it.
Evictable(e) == /\ Alive(e)
                /\ resident[e] # Nil
                /\ ~HeldOutside(resident[e])

\* last_used = next_payload_touch(): every other payload is older.
Touch(e) == /\ before' = {p \in before : p[1] # e} \cup ((Entry \ {e}) \X {e})
            /\ cold' = cold \ {e}
Older(f, e) == IF f \in cold THEN e \notin cold ELSE e \notin cold /\ <<f, e>> \in before

-----------------------------------------------------------------------------
\* Accounting of shared rows

Charged(shared) == {r \in RowAddr : shared[r] > 0}

\* Every table of T takes, or gives back, one reference to each of its rows.
RefsIn(T, r) == Cardinality({a \in T : r \in rows[a]})
WithTable(shared, R) == [r \in RowAddr |-> shared[r] + (IF r \in R THEN 1 ELSE 0)]
WithoutTables(shared, T) == [r \in RowAddr |-> shared[r] - RefsIn(T, r)]

\* What add_row_footprint returns, and remove_row_footprint for the tables T.
AddedCharge(shared, R) == TableCharge + RowCharge * Cardinality(R \ Charged(shared))
ReleasedCharge(shared, T) ==
  TableCharge * Cardinality(T)
    + RowCharge * Cardinality(Charged(shared) \ Charged(WithoutTables(shared, T)))

SaturatingSub(m, n) == IF m > n THEN m - n ELSE 0

\* drain_dropped_residents: what the accounts are once the queue is empty.
QueueEmpty == droppedBytes = 0 /\ droppedTables = {}
DrainedRows == WithoutTables(sharedRows, droppedTables)
DrainedBytes == SaturatingSub(residentBytes,
                              droppedBytes + ReleasedCharge(sharedRows, droppedTables))
\* Mutant: a drop does not end a stall.
DrainedStallKept == stalledAt
DrainedStall == IF QueueEmpty THEN stalledAt ELSE Nil
EmptyQueue == droppedBytes' = 0 /\ droppedTables' = {}

-----------------------------------------------------------------------------
\* The eviction pass

\* trim and trim_on_drop: the caller's step ends, trim_locked begins.  A drop
\* latches the pass's error in the store, every other caller returns it.
Trim(all, latch) == pass' = [all |-> all, latch |-> latch, begun |-> FALSE]

\* The pass is futile: unlimited, within the budget, or nothing changed since
\* the last pass that found nothing to evict.
NothingToDo(all, bytes, stall) ==
  \/ budget = 0
  \/ ~all /\ bytes <= budget
  \/ ~all /\ stall # Nil /\ bytes <= stall

PassBegin ==
  /\ pass # Nil /\ ~pass.begun
  /\ residentBytes' = DrainedBytes
  /\ sharedRows' = DrainedRows
  /\ stalledAt' = DrainedStall
  /\ EmptyQueue
  /\ IF NothingToDo(pass.all, DrainedBytes, DrainedStall)
     THEN pass' = Nil /\ UNCHANGED <<byAddress, silent>>
     ELSE /\ pass' = [pass EXCEPT !.begun = TRUE]
          /\ byAddress' = [a \in Addr |->
                 IF byAddress[a] # Nil /\ Alive(byAddress[a]) THEN byAddress[a] ELSE Nil]
          /\ silent' = FALSE
  /\ UNCHANGED <<heapVars, entryVars, leases, budget, error, failureCount,
                 stored, failures, engineVars>>

PassActive == pass # Nil /\ pass.begun
WantsMore == pass.all \/ residentBytes > budget

\* The oldest payload nobody else holds.
Victim(e) == Evictable(e) /\ \A f \in Entry : Evictable(f) => ~Older(f, e)

\* Drop e's value; the first time, write the spill before.
PassEvict(e) ==
  /\ PassActive /\ WantsMore /\ Victim(e)
  /\ stored' = stored \cup {e}
  /\ integrity' = integrity \cup {e}
  /\ LET a == resident[e]
         T == IF e \in tables THEN {a} ELSE {}
     IN /\ residentBytes' = SaturatingSub(residentBytes,
               IF e \in tables THEN ReleasedCharge(sharedRows, T) ELSE ByteCharge)
        /\ sharedRows' = WithoutTables(sharedRows, T)
        /\ byAddress' = [byAddress EXCEPT ![a] = Nil]
  /\ resident' = [resident EXCEPT ![e] = Nil]
  /\ UNCHANGED <<heapVars, used, handles, tables, before, cold, leases, droppedBytes,
                 droppedTables, stalledAt, budget, error, failureCount,
                 failures, pass, engineVars, silent>>

StallAfter == IF ~pass.all /\ residentBytes > budget THEN residentBytes ELSE Nil

\* The spill of e could not be written: the pass stops there, e keeps its
\* value, and the caller gets the error or leaves it in the store.  A latched
\* error is counted; evict_unpinned counts it too.
PassPutFails(e) ==
  /\ PassActive /\ WantsMore /\ Victim(e) /\ e \notin integrity
  /\ failures < MaxFailures
  /\ failures' = failures + 1
  /\ stalledAt' = StallAfter
  /\ pass' = Nil
  /\ error' = (error \/ pass.latch)
  /\ failureCount' = failureCount + (IF pass.latch THEN 1 ELSE 0)
  /\ silent' = TRUE
  /\ UNCHANGED <<heapVars, entryVars, leases, byAddress, residentBytes,
                 sharedRows, droppedBytes, droppedTables, budget, stored, engineVars>>

PassEnd ==
  /\ PassActive
  /\ ~(WantsMore /\ \E e \in Entry : Evictable(e))
  /\ stalledAt' = StallAfter
  /\ pass' = Nil
  /\ UNCHANGED <<heapVars, entryVars, leases, byAddress, residentBytes,
                 sharedRows, droppedBytes, droppedTables, budget, error,
                 failureCount, stored, failures, engineVars, silent>>

-----------------------------------------------------------------------------
\* Values outside the store

\* A computation builds a byte payload, or a table of rows it shares with
\* living tables and rows it allocates.
Allocate(a, R) ==
  /\ pass = Nil
  /\ ~LiveAddr(a)
  /\ arcs' = [arcs EXCEPT ![a] = 1]
  /\ rows' = [rows EXCEPT ![a] = R]
  /\ UNCHANGED <<entryVars, leases, stateVars, stored, failures, pass, engineVars, silent>>

\* Nobody outside the store holds a after its last reference goes.
LastOutside(a) == arcs[a] = 1 /\ LeasesAt(a) = {}

\* A legacy consumer clones the Arc it was lent, or lets go of it.
Share(l) ==
  /\ pass = Nil
  /\ leases[l] # Nil /\ arcs[leases[l].addr] < MaxArcs
  /\ arcs' = [arcs EXCEPT ![leases[l].addr] = @ + 1]
  /\ UNCHANGED <<rows, entryVars, leases, stateVars, stored, failures, pass, engineVars, silent>>

ReleaseArc(a) ==
  /\ pass = Nil
  /\ arcs[a] > 0
  /\ arcs' = [arcs EXCEPT ![a] = @ - 1]
  /\ silent' = (silent \/ LastOutside(a))
  /\ UNCHANGED <<rows, entryVars, leases, stateVars, stored, failures, pass, engineVars>>

-----------------------------------------------------------------------------
\* Publishing

\* The entry that already owns the allocation at a.
Published(a) == {e \in Entry : byAddress[a] = e /\ Alive(e) /\ resident[e] = a}

PublishAgain(a) ==
  /\ pass = Nil
  /\ arcs[a] > 0
  /\ \E e \in Published(a) :
       /\ handles[e] < MaxHandles
       /\ handles' = [handles EXCEPT ![e] = @ + 1]
  /\ arcs' = [arcs EXCEPT ![a] = @ - 1]
  /\ silent' = (silent \/ LastOutside(a))
  /\ residentBytes' = DrainedBytes
  /\ sharedRows' = DrainedRows
  /\ stalledAt' = DrainedStall
  /\ EmptyQueue
  /\ Trim(FALSE, TRUE)
  /\ UNCHANGED <<rows, used, resident, tables, before, cold, integrity, leases,
                 byAddress, budget, error, failureCount, stored, failures, engineVars>>

\* next_payload_id.  Mutant: the identity of a dropped payload is used again.
FreshIdsReused == {e \in Entry : ~Alive(e)}
FreshIds == Entry \ used

PublishNew(e, a) ==
  /\ pass = Nil
  /\ arcs[a] > 0
  /\ Published(a) = {}
  /\ e \in FreshIds
  /\ used' = used \cup {e}
  /\ handles' = [handles EXCEPT ![e] = 1]
  /\ resident' = [resident EXCEPT ![e] = a]
  /\ arcs' = [arcs EXCEPT ![a] = @ - 1]
  /\ Touch(e)
  /\ byAddress' = [byAddress EXCEPT ![a] = e]
  /\ IF rows[a] = {}
     THEN /\ tables' = tables
          /\ residentBytes' = DrainedBytes + ByteCharge
          /\ sharedRows' = DrainedRows
     ELSE /\ tables' = tables \cup {e}
          /\ residentBytes' = DrainedBytes + AddedCharge(DrainedRows, rows[a])
          /\ sharedRows' = WithTable(DrainedRows, rows[a])
  /\ stalledAt' = DrainedStall
  /\ EmptyQueue
  /\ Trim(FALSE, TRUE)
  /\ UNCHANGED <<rows, integrity, leases, budget, error, failureCount,
                 stored, failures, engineVars, silent>>

CloneHandle(e) ==
  /\ pass = Nil
  /\ handles[e] \in 1..(MaxHandles - 1)
  /\ handles' = [handles EXCEPT ![e] = @ + 1]
  /\ UNCHANGED <<heapVars, used, resident, tables, before, cold, integrity, leases,
                 stateVars, stored, failures, pass, engineVars, silent>>

\* Mutant: a dropped entry leaves its spill behind.
SpillAfterDropLeaked(e) == stored
SpillAfterDrop(e) == stored \ {e}

\* Drop for Entry: queue what was resident, free the spill.
EntryDropped(e) ==
  /\ IF resident[e] = Nil
     THEN UNCHANGED <<droppedBytes, droppedTables>>
     ELSE IF e \in tables
     THEN droppedTables' = droppedTables \cup {resident[e]} /\ UNCHANGED droppedBytes
     ELSE droppedBytes' = droppedBytes + ByteCharge /\ UNCHANGED droppedTables
  /\ resident' = [resident EXCEPT ![e] = Nil]
  /\ stored' = SpillAfterDrop(e)
  /\ integrity' = integrity \ {e}
  /\ tables' = tables \ {e}
  /\ before' = {p \in before : p[1] # e /\ p[2] # e}
  /\ cold' = cold \ {e}

EntryKept == UNCHANGED <<droppedBytes, droppedTables, resident, stored, integrity,
                         tables, before, cold>>

DropHandle(e) ==
  /\ pass = Nil
  /\ handles[e] > 0
  /\ handles' = [handles EXCEPT ![e] = @ - 1]
  /\ IF handles[e] = 1 /\ LeasesOf(e) = {} THEN EntryDropped(e) ELSE EntryKept
  /\ UNCHANGED <<heapVars, used, leases, byAddress, residentBytes, sharedRows,
                 stalledAt, budget, error, failureCount, failures, pass,
                 engineVars, silent>>

\* mark_cold: last_used = 0.
MarkCold(e) ==
  /\ pass = Nil
  /\ handles[e] > 0
  /\ cold' = cold \cup {e}
  /\ UNCHANGED <<heapVars, used, handles, resident, tables, before, integrity, leases,
                 stateVars, stored, failures, pass, engineVars, silent>>

-----------------------------------------------------------------------------
\* Leases

\* A tracked body that is given an error memoizes it, and its request fails.
BodyFails ==
  IF request = Nil
  THEN UNCHANGED engineVars
  ELSE request' = [request EXCEPT !.failed = TRUE] /\ poisoned' = TRUE

CanLease(e, l) == pass = Nil /\ handles[e] > 0 /\ leases[l] = Nil

\* The error a dropped lease or handle left behind is taken by whoever leases next.
LeaseTakesError(e) ==
  /\ \E l \in Lease : CanLease(e, l)
  /\ error
  /\ error' = FALSE
  /\ BodyFails
  /\ UNCHANGED <<heapVars, entryVars, leases, byAddress, residentBytes, sharedRows,
                 droppedBytes, droppedTables, stalledAt, budget, failureCount,
                 stored, failures, pass, silent>>

\* lease and lease_if_resident of a resident payload.
LeaseResident(e, l) ==
  /\ CanLease(e, l) /\ ~error
  /\ resident[e] # Nil
  /\ leases' = [leases EXCEPT ![l] = [entry |-> e, addr |-> resident[e]]]
  /\ Touch(e)
  /\ UNCHANGED <<heapVars, used, handles, resident, tables, integrity,
                 stateVars, stored, failures, pass, engineVars, silent>>

\* by_address after e was reloaded at a: only e's own stale mapping goes.
\* Mutant: the reloaded allocation is not entered.
ReloadMapForgotten(e, a) == byAddress
ReloadMap(e, a) == [b \in Addr |-> IF b = a THEN e
                                   ELSE IF byAddress[b] = e THEN Nil ELSE byAddress[b]]

\* Reload: a fresh allocation, its rows fresh too, under the entry's old name.
LeaseReload(e, l, a, R) ==
  /\ CanLease(e, l) /\ ~error
  /\ resident[e] = Nil
  /\ e \in stored /\ e \in integrity
  /\ ~LiveAddr(a)
  /\ (R = {}) = (e \notin tables)
  /\ R \cap LiveRows = {}
  /\ rows' = [rows EXCEPT ![a] = R]
  /\ resident' = [resident EXCEPT ![e] = a]
  /\ byAddress' = ReloadMap(e, a)
  /\ IF e \in tables
     THEN /\ residentBytes' = DrainedBytes + AddedCharge(DrainedRows, R)
          /\ sharedRows' = WithTable(DrainedRows, R)
     ELSE /\ residentBytes' = DrainedBytes + ByteCharge
          /\ sharedRows' = DrainedRows
  /\ stalledAt' = DrainedStall
  /\ EmptyQueue
  /\ leases' = [leases EXCEPT ![l] = [entry |-> e, addr |-> a]]
  /\ Touch(e)
  /\ UNCHANGED <<arcs, used, handles, tables, integrity, budget, error,
                 failureCount, stored, failures, pass, engineVars, silent>>

\* The backend cannot read the spill, or its bytes fail the hash or the decoder.
LeaseReloadFails(e) ==
  /\ \E l \in Lease : CanLease(e, l)
  /\ ~error
  /\ resident[e] = Nil
  /\ failures < MaxFailures
  /\ failures' = failures + 1
  /\ failureCount' = failureCount + 1
  /\ BodyFails
  /\ UNCHANGED <<heapVars, entryVars, leases, byAddress, residentBytes, sharedRows,
                 droppedBytes, droppedTables, stalledAt, budget, error, stored,
                 pass, silent>>

\* Drop for PayloadLease: the value, then the entry, then a full look at the store.
DropLease(l) ==
  /\ pass = Nil
  /\ leases[l] # Nil
  /\ leases' = [leases EXCEPT ![l] = Nil]
  /\ LET e == leases[l].entry
     IN IF handles[e] = 0 /\ LeasesOf(e) = {l} THEN EntryDropped(e) ELSE EntryKept
  /\ stalledAt' = Nil
  /\ Trim(FALSE, TRUE)
  /\ UNCHANGED <<heapVars, used, handles, byAddress, residentBytes, sharedRows,
                 budget, error, failureCount, failures, engineVars, silent>>

-----------------------------------------------------------------------------
\* The store's own calls and the request bracket

SetBudget(b) ==
  /\ pass = Nil
  /\ budget' = b
  /\ stalledAt' = Nil
  /\ Trim(FALSE, FALSE)
  /\ UNCHANGED <<heapVars, entryVars, leases, byAddress, residentBytes, sharedRows,
                 droppedBytes, droppedTables, error, failureCount, stored,
                 failures, engineVars, silent>>

\* enforce_budget consumes the latched error and returns its own.
Enforced ==
  /\ stalledAt' = Nil
  /\ error' = FALSE
  /\ Trim(FALSE, FALSE)
  /\ UNCHANGED <<heapVars, entryVars, leases, byAddress, residentBytes, sharedRows,
                 droppedBytes, droppedTables, budget, failureCount, stored,
                 failures, silent>>

EnforceBudget == pass = Nil /\ Enforced /\ UNCHANGED engineVars

EvictUnpinned ==
  /\ pass = Nil
  /\ Trim(TRUE, TRUE)
  /\ UNCHANGED <<heapVars, entryVars, leases, stateVars, stored, failures, engineVars, silent>>

\* Mutant: the count is taken without draining the latch.
BeginRequestUndrained ==
  /\ pass = Nil
  /\ request = Nil
  /\ request' = [count |-> failureCount, failed |-> FALSE]
  /\ UNCHANGED <<heapVars, entryVars, leases, stateVars, stored, failures, pass,
                 poisoned, silent>>

\* store_failures_at_request_entry: drain the latch, then remember the count.
BeginRequest ==
  /\ pass = Nil
  /\ request = Nil
  /\ request' = [count |-> failureCount, failed |-> FALSE]
  /\ Enforced
  /\ UNCHANGED poisoned

\* reset_incremental_state_after_store_failure: a failed request rebuilds the
\* engine when the count moved.
EndRequest ==
  /\ pass = Nil
  /\ request # Nil
  /\ request' = Nil
  /\ poisoned' = (poisoned /\ ~(request.failed /\ failureCount > request.count))
  /\ UNCHANGED <<heapVars, entryVars, leases, stateVars, stored, failures, pass, silent>>

Next ==
  \/ PassBegin \/ PassEnd
  \/ \E e \in Entry : PassEvict(e) \/ PassPutFails(e)
  \/ \E a \in Addr : \E R \in SUBSET RowAddr : Allocate(a, R)
  \/ \E a \in Addr : ReleaseArc(a) \/ PublishAgain(a)
  \/ \E e \in Entry, a \in Addr : PublishNew(e, a)
  \/ \E e \in Entry : CloneHandle(e) \/ DropHandle(e) \/ MarkCold(e)
                      \/ LeaseTakesError(e) \/ LeaseReloadFails(e)
  \/ \E e \in Entry, l \in Lease : LeaseResident(e, l)
  \/ \E e \in Entry, l \in Lease, a \in Addr : \E R \in SUBSET RowAddr :
       LeaseReload(e, l, a, R)
  \/ \E l \in Lease : DropLease(l) \/ Share(l)
  \/ \E b \in Budgets : SetBudget(b)
  \/ EnforceBudget \/ EvictUnpinned \/ BeginRequest \/ EndRequest

Spec == Init /\ [][Next]_vars

-----------------------------------------------------------------------------
\* Safety

\* The charge is exact: every resident or queued payload once, and every row
\* once however many of their tables hold it.  Shared rows whose address was
\* freed and handed out again, or a table charged by one path and released by
\* another, break it (add_row_footprint, remove_row_footprint, Drop for Entry).
ResidentTables == {resident[e] : e \in {f \in tables : resident[f] # Nil}}
AccountedTables == ResidentTables \cup droppedTables
ChargesMatch ==
  /\ \A r \in RowAddr : sharedRows[r] = RefsIn(AccountedTables, r)
  /\ residentBytes =
       ByteCharge * Cardinality({e \in Entry \ tables : resident[e] # Nil}) + droppedBytes
       + TableCharge * Cardinality(AccountedTables)
       + RowCharge * Cardinality(Charged(sharedRows))

\* Two entries never own one allocation: each would count as a holder for the
\* other, and neither could be evicted again (by_address across reloads,
\* evictions and reused addresses).
OneOwner ==
  \A e, f \in Entry : e # f /\ resident[e] # Nil => resident[e] # resident[f]

\* A payload somebody can still lease is in memory or readable from the spill,
\* and the spill holds nothing else (eviction, failed spills, Drop for Entry).
PayloadsReachable ==
  /\ \A e \in Entry : Alive(e) /\ resident[e] = Nil => e \in stored /\ e \in integrity
  /\ \A e \in stored : Alive(e)

\* A lease and its entry agree on the allocation for as long as the lease lasts.
LeasesHold ==
  \A l \in Lease : leases[l] # Nil => resident[leases[l].entry] = leases[l].addr

\* Allocations are owned by one entry, and a leased one stays with its owner,
\* whatever is evicted, reloaded or given to another by the allocator.
OwnersAreKept == OneOwner /\ LeasesHold

\* Between calls and with no lease open, the store is over its budget only by
\* payloads that somebody outside holds: no stall or early return of
\* trim_locked hides one it could evict.  The exception is what no call tells
\* it of: a shared Arc let go, or a spill that failed.
OverBudgetIsPinned ==
  pass = Nil /\ budget > 0 /\ residentBytes > budget /\ ~silent
    /\ (\A l \in Lease : leases[l] = Nil)
  => \A e \in Entry : ~Evictable(e)

\* No workspace engine keeps a memoized store error after its request: an
\* error a tracked body was given was counted inside the same request.
NoPoisonedEngineKept == request = Nil => ~poisoned

\* The store asks of its backend only what SpillBackend allows: a payload is
\* put once, and neither its spill nor its identity comes back after it.
SpillStatus == [e \in Entry |-> IF e \in stored THEN "held"
                                ELSE IF e \in used /\ ~Alive(e) THEN "gone" ELSE "never"]
Backend == INSTANCE SpillBackend WITH Id <- Entry, status <- SpillStatus
KeepsBackendContract == Backend!Spec
=============================================================================

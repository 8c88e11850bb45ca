---------------------------- MODULE PayloadSpill ----------------------------
(***************************************************************************)
(* The browser's spill storage (web/src/workers/payloadSpill.ts): one file  *)
(* per worker, cut in regions that are reused once their payload is         *)
(* removed.  The bridge is called synchronously from Rust, so put, get and  *)
(* remove are atomic; a write can fail, or be answered with a short count,  *)
(* after it has overwritten part of its region.  Of the bytes on disk the   *)
(* model keeps which payloads' regions nobody has written over (intact).    *)
(***************************************************************************)
EXTENDS Integers, Sequences, FiniteSets, SequencesExt

CONSTANTS
  Id,           \* payload identities
  MaxLength,    \* bound: length of a payload (an empty one is never published)
  FileLimit,    \* the storage quota: a write past it fails
  MaxFailures   \* bound: failed writes

ASSUME SpillAssumption ==
  MaxLength \in Nat /\ FileLimit \in Nat /\ MaxFailures \in Nat

VARIABLES
  regions,   \* payload -> its region, for the payloads that are spilled
  free,      \* regions to reuse, in the order they came free
  end,       \* first offset no region has used since the last reset
  intact,    \* spilled payloads whose region holds their bytes
  removed,   \* payloads removed
  failures   \* failures so far (bound)

vars == <<regions, free, end, intact, removed, failures>>

Lengths == 1..MaxLength
Region == [offset : Nat, length : Nat \ {0}]
Cells(r) == r.offset..(r.offset + r.length - 1)
Live == DOMAIN regions

TypeOK ==
  /\ Live \subseteq Id /\ \A id \in Live : regions[id] \in Region
  /\ free \in Seq(Region)
  /\ end \in Nat
  /\ intact \subseteq Live
  /\ removed \subseteq Id
  /\ failures \in 0..MaxFailures

Init ==
  /\ regions = <<>>
  /\ free = <<>>
  /\ end = 0
  /\ intact = {}
  /\ removed = {}
  /\ failures = 0

-----------------------------------------------------------------------------
\* allocate: the smallest free region that is large enough, the first of equals

Fitting(length) == {i \in DOMAIN free : free[i].length >= length}
BestFit(length) ==
  CHOOSE i \in Fitting(length) : \A j \in Fitting(length) :
    \/ free[i].length < free[j].length
    \/ free[i].length = free[j].length /\ i <= j

\* What is left of the region put back in its place.
\* Mutant: the whole region stays in the list.
FreeAfterUncut(i, length) == free
FreeAfter(i, length) ==
  IF free[i].length > length
  THEN ReplaceAt(free, i, [offset |-> free[i].offset + length, length |-> free[i].length - length])
  ELSE RemoveAt(free, i)

\* <<the region, the free list, the end>> after an allocation.
Allocated(length) ==
  IF Fitting(length) # {}
  THEN LET i == BestFit(length)
       IN <<[offset |-> free[i].offset, length |-> length], FreeAfter(i, length), end>>
  ELSE <<[offset |-> end, length |-> length], free, end + length>>

-----------------------------------------------------------------------------
\* put, remove

\* Payloads whose bytes a write of r does not touch.
SparedBy(r) == {id \in intact : Cells(regions[id]) \cap Cells(r) = {}}

MayPut(id) == id \notin Live /\ id \notin removed

Put(id, length) ==
  /\ MayPut(id)
  /\ LET a == Allocated(length)
     IN /\ a[1].offset + length <= FileLimit
        /\ regions' = [i \in Live \cup {id} |-> IF i = id THEN a[1] ELSE regions[i]]
        /\ free' = a[2]
        /\ end' = a[3]
        /\ intact' = SparedBy(a[1]) \cup {id}
  /\ UNCHANGED <<removed, failures>>

\* The free list of a failed write: the reservation is given back.
FreeAfterFailure(list, r) == Append(list, r)

\* Only some bytes arrive, or none: the reservation is given back and the
\* payload stays in memory.
PutFails(id, length, written) ==
  /\ MayPut(id)
  /\ failures < MaxFailures
  /\ failures' = failures + 1
  /\ LET a == Allocated(length)
     IN /\ free' = FreeAfterFailure(a[2], a[1])
        /\ end' = a[3]
        /\ intact' = SparedBy([a[1] EXCEPT !.length = written])
  /\ UNCHANGED <<regions, removed>>

Without(id) == [i \in Live \ {id} |-> regions[i]]

\* A payload that was never spilled: nothing to give back.
RemoveAbsent(id) ==
  /\ MayPut(id)
  /\ removed' = removed \cup {id}
  /\ UNCHANGED <<regions, free, end, intact, failures>>

\* The last payload: the file is emptied.  A truncate that throws is ignored
\* and leaves bytes nobody reads.
RemoveLast(id) ==
  /\ Live = {id}
  /\ regions' = <<>>
  /\ free' = <<>>
  /\ end' = 0
  /\ intact' = {}
  /\ removed' = removed \cup {id}
  /\ UNCHANGED failures

AtEnd(r) == r.offset + r.length = end

RemoveOne(id) ==
  /\ id \in Live /\ Live # {id}
  /\ regions' = Without(id)
  /\ IF AtEnd(regions[id])
     THEN end' = regions[id].offset /\ UNCHANGED free
     ELSE free' = Append(free, regions[id]) /\ UNCHANGED end
  /\ removed' = removed \cup {id}
  /\ intact' = intact \ {id}
  /\ UNCHANGED failures

Next ==
  \E id \in Id :
    \/ \E length \in Lengths :
         \/ Put(id, length)
         \/ \E written \in 0..length : PutFails(id, length, written)
    \/ RemoveAbsent(id) \/ RemoveLast(id) \/ RemoveOne(id)

Spec == Init /\ [][Next]_vars

-----------------------------------------------------------------------------
\* Safety

\* A spilled payload reads back as it was put until it is removed, whatever
\* was put, failed or removed around it; a payload that was removed is gone.
Status == [id \in Id |-> CASE id \in intact -> "held"
                           [] id \in Live \ intact -> "torn"
                           [] id \in removed -> "gone"
                           [] OTHER -> "never"]
Backend == INSTANCE SpillBackend WITH status <- Status
ImplementsBackend == Backend!Spec
=============================================================================

-------------------------- MODULE PayloadStoreProofs --------------------------
(***************************************************************************)
(* The payload store loses no payload, shares no allocation between two     *)
(* entries, charges what it holds exactly and reports every failure, for    *)
(* any number of entries, leases, addresses and rows and for any budget.    *)
(***************************************************************************)
EXTENDS PayloadStore, TLAPS, FiniteSetTheorems

-----------------------------------------------------------------------------
(* Who owns what. *)

OwnType ==
  /\ used \subseteq Entry
  /\ handles \in [Entry -> Nat]
  /\ resident \in [Entry -> Addr \cup {Nil}]
  /\ tables \subseteq Entry
  /\ integrity \subseteq Entry
  /\ leases \in [Lease -> Leases \cup {Nil}]
  /\ byAddress \in [Addr -> Entry \cup {Nil}]
  /\ stored \subseteq Entry

\* An entry that lives has taken its identity.
Identified == \A e \in Entry : Alive(e) => e \in used

\* Of an entry that is gone nothing is left: no value, no kind, no spill.
NothingLeft ==
  \A e \in Entry : resident[e] # Nil \/ e \in tables \/ e \in stored => Alive(e)

\* An allocation leads back to the entry that owns it.
Mapped == \A e \in Entry : resident[e] # Nil => byAddress[resident[e]] = e

\* A payload that was evicted can be read.
Readable ==
  \A e \in Entry : Alive(e) /\ resident[e] = Nil => e \in stored /\ e \in integrity

Ownership ==
  /\ OwnType
  /\ Identified
  /\ NothingLeft
  /\ Mapped
  /\ Readable
  /\ LeasesHold

ownVars == <<used, handles, resident, tables, integrity, leases, byAddress, stored>>

\* No two entries own one allocation, because it leads back to one of them.
LEMMA OwnerIsUnique == Ownership => OneOwner
BY DEF Ownership, OwnType, Mapped, OneOwner

\* What can still be leased is in memory or can be read.
LEMMA LivingIsReachable == Ownership => PayloadsReachable
BY DEF Ownership, OwnType, Readable, NothingLeft, PayloadsReachable

\* A value that is live at no address belongs to nobody.
LEMMA DeadIsFree ==
  ASSUME Ownership, NEW a \in Addr, ~LiveAddr(a)
  PROVE  \A e \in Entry : resident[e] # a
BY DEF LiveAddr

\* A lease on an entry holds the entry's allocation.
LEMMA LeaseHoldsOutside ==
  ASSUME Ownership, NEW e \in Entry, LeasesOf(e) # {}
  PROVE  resident[e] # Nil /\ HeldOutside(resident[e])
<1>1. PICK l \in Lease : leases[l] # Nil /\ leases[l].entry = e
  BY DEF LeasesOf
<1>2. leases[l] \in Leases
  BY <1>1 DEF Ownership, OwnType
<1>3. resident[e] = leases[l].addr /\ leases[l].addr \in Addr
  BY <1>1, <1>2 DEF Ownership, LeasesHold, Leases
<1>4. l \in LeasesAt(resident[e])
  BY <1>1, <1>3 DEF LeasesAt
<1> QED BY <1>3, <1>4, StoreAssumption DEF HeldOutside

\* Steps that leave owners alone.
LEMMA OwnersStay == ASSUME Ownership, UNCHANGED ownVars PROVE Ownership'
BY DEF Ownership, OwnType, Identified, NothingLeft, Mapped, Readable, LeasesHold, ownVars,
       Alive, LeasesOf

\* The pass begins: mappings of entries that are gone are forgotten.
LEMMA PassBeginOwns == ASSUME Ownership, PassBegin PROVE Ownership'
<1>1. UNCHANGED <<used, handles, resident, tables, integrity, leases, stored>>
  BY DEF PassBegin, entryVars
<1>2. CASE byAddress' = byAddress
  BY <1>1, <1>2, OwnersStay DEF ownVars
<1>3. CASE byAddress' = [a \in Addr |->
             IF byAddress[a] # Nil /\ Alive(byAddress[a]) THEN byAddress[a] ELSE Nil]
  <2>1. OwnType'
    BY <1>1, <1>3 DEF Ownership, OwnType
  <2>2. \A e \in Entry : (Alive(e))' = Alive(e)
    BY <1>1 DEF Alive, LeasesOf
  <2>3. Mapped'
    BY <1>1, <1>3, StoreAssumption DEF Ownership, OwnType, Mapped, NothingLeft
  <2>4. Identified' /\ NothingLeft' /\ Readable' /\ LeasesHold'
    BY <1>1, <2>2 DEF Ownership, Identified, NothingLeft, Readable, LeasesHold
  <2> QED BY <2>1, <2>3, <2>4 DEF Ownership
<1> QED BY <1>2, <1>3 DEF PassBegin

\* Eviction: nobody holds the value, and its spill is written.
LEMMA PassEvictOwns ==
  ASSUME Ownership, NEW e \in Entry, PassEvict(e)
  PROVE  Ownership'
<1>1. /\ stored' = stored \cup {e} /\ integrity' = integrity \cup {e}
      /\ byAddress' = [byAddress EXCEPT ![resident[e]] = Nil]
      /\ resident' = [resident EXCEPT ![e] = Nil]
      /\ UNCHANGED <<used, handles, tables, leases>>
      /\ Alive(e) /\ resident[e] # Nil /\ ~HeldOutside(resident[e])
  BY DEF PassEvict, Victim, Evictable
<1>2. OwnType'
  BY <1>1 DEF Ownership, OwnType
<1>3. \A f \in Entry : (Alive(f))' = Alive(f)
  BY <1>1 DEF Alive, LeasesOf
<1>4. LeasesOf(e) = {}
  BY <1>1, LeaseHoldsOutside
<1>5. LeasesHold'
  <2>1. ASSUME NEW l \in Lease, leases[l] # Nil PROVE leases[l].entry \in Entry \ {e}
    BY <1>4, <2>1 DEF LeasesOf, Ownership, OwnType, Leases
  <2> QED BY <1>1, <2>1 DEF LeasesHold, Ownership, OwnType
<1>6. \A f \in Entry \ {e} : resident[f] # resident[e]
  BY <1>1, OwnerIsUnique DEF OneOwner
<1>7. Mapped'
  BY <1>1, <1>6 DEF Mapped, Ownership, OwnType
<1>8. Identified' /\ NothingLeft' /\ Readable'
  BY <1>1, <1>3 DEF Ownership, OwnType, Identified, NothingLeft, Readable
<1> QED BY <1>2, <1>5, <1>7, <1>8 DEF Ownership

\* One more handle of a living entry.
LEMMA HandleAddedOwns ==
  ASSUME Ownership, NEW e \in Entry, Alive(e), handles' = [handles EXCEPT ![e] = @ + 1],
         UNCHANGED <<used, resident, tables, integrity, leases, byAddress, stored>>
  PROVE  Ownership'
<1>1. OwnType'
  BY DEF Ownership, OwnType
<1>2. \A f \in Entry : (Alive(f))' = Alive(f)
  BY DEF Alive, LeasesOf, Ownership, OwnType
<1>3. Identified' /\ NothingLeft' /\ Mapped' /\ Readable' /\ LeasesHold'
  BY <1>2 DEF Ownership, Identified, NothingLeft, Mapped, Readable, LeasesHold
<1> QED BY <1>1, <1>3 DEF Ownership

\* A new entry takes an identity and an allocation nobody owns.
LEMMA PublishNewOwns ==
  ASSUME Ownership, NEW e \in Entry, NEW a \in Addr, PublishNew(e, a)
  PROVE  Ownership'
<1>1. /\ Published(a) = {} /\ e \notin used
      /\ used' = used \cup {e} /\ handles' = [handles EXCEPT ![e] = 1]
      /\ resident' = [resident EXCEPT ![e] = a] /\ byAddress' = [byAddress EXCEPT ![a] = e]
      /\ tables' \in {tables, tables \cup {e}}
      /\ UNCHANGED <<integrity, leases, stored>>
  BY DEF PublishNew, FreshIds
<1>2. OwnType'
  BY <1>1 DEF Ownership, OwnType
<1>3. ~Alive(e)
  BY <1>1 DEF Ownership, Identified
<1>4. \A f \in Entry : (Alive(f))' <=> Alive(f) \/ f = e
  BY <1>1 DEF Alive, LeasesOf, Ownership, OwnType
<1>5. \A f \in Entry : resident[f] # a
  BY <1>1, StoreAssumption DEF Published, Ownership, Mapped, NothingLeft
<1>6. Mapped'
  BY <1>1, <1>5 DEF Mapped, Ownership, OwnType
<1>7. LeasesHold'
  <2>1. ASSUME NEW l \in Lease, leases[l] # Nil PROVE leases[l].entry \in Entry \ {e}
    BY <1>3, <2>1 DEF Alive, LeasesOf, Ownership, OwnType, Leases
  <2> QED BY <1>1, <2>1 DEF LeasesHold, Ownership, OwnType
<1>8. Identified' /\ NothingLeft' /\ Readable'
  BY <1>1, <1>4, StoreAssumption
     DEF Ownership, OwnType, Identified, NothingLeft, Readable
<1> QED BY <1>2, <1>6, <1>7, <1>8 DEF Ownership

\* A handle or a lease goes, and with the last of them the entry.
LEMMA DropOwns ==
  ASSUME Ownership, NEW e \in Entry, OwnType', UNCHANGED <<used, byAddress>>,
         \A f \in Entry \ {e} : (Alive(f))' <=> Alive(f),
         \A l \in Lease : leases'[l] = leases[l] \/ leases'[l] = Nil,
         Alive(e),
         \/ EntryDropped(e) /\ ~(Alive(e))'
         \/ EntryKept /\ (Alive(e))'
  PROVE  Ownership'
<1>1. CASE EntryKept /\ (Alive(e))'
  BY <1>1
     DEF EntryKept, Ownership, Identified, NothingLeft, Mapped, Readable, LeasesHold
<1>2. CASE EntryDropped(e) /\ ~(Alive(e))'
  <2>1. /\ resident' = [resident EXCEPT ![e] = Nil]
        /\ stored' = stored \ {e} /\ integrity' = integrity \ {e} /\ tables' = tables \ {e}
    BY <1>2 DEF EntryDropped, SpillAfterDrop
  <2>2. \A l \in Lease : leases'[l] # Nil => leases[l] # Nil /\ leases'[l].entry # e
    BY <1>2 DEF Alive, LeasesOf
  <2>3. LeasesHold'
    BY <2>1, <2>2 DEF LeasesHold, Ownership, OwnType, Leases
  <2>4. Identified' /\ NothingLeft' /\ Mapped' /\ Readable'
    BY <1>2, <2>1 DEF Ownership, OwnType, Identified, NothingLeft, Mapped, Readable
  <2> QED BY <2>3, <2>4 DEF Ownership
<1> QED BY <1>1, <1>2

\* What an entry that goes, or stays, leaves of the types.
LEMMA DropTypes ==
  ASSUME Ownership, NEW e \in Entry, EntryDropped(e) \/ EntryKept,
         handles' \in [Entry -> Nat], leases' \in [Lease -> Leases \cup {Nil}],
         UNCHANGED <<used, byAddress>>
  PROVE  OwnType'
BY DEF Ownership, OwnType, EntryDropped, EntryKept, SpillAfterDrop

\* A handle goes: with the last holder the entry, and no other.
LEMMA HandleGoes ==
  ASSUME Ownership, NEW e \in Entry, DropHandle(e)
  PROVE  /\ OwnType' /\ UNCHANGED <<used, leases, byAddress>> /\ Alive(e)
         /\ \A f \in Entry \ {e} : (Alive(f))' <=> Alive(f)
         /\ \/ EntryDropped(e) /\ ~(Alive(e))'
            \/ EntryKept /\ (Alive(e))'
<1>1. /\ handles[e] > 0 /\ handles' = [handles EXCEPT ![e] = @ - 1]
      /\ UNCHANGED <<used, leases, byAddress>>
      /\ IF handles[e] = 1 /\ LeasesOf(e) = {} THEN EntryDropped(e) ELSE EntryKept
  BY DEF DropHandle
<1>2. /\ handles' \in [Entry -> Nat] /\ handles'[e] = handles[e] - 1
      /\ \A f \in Entry \ {e} : handles'[f] = handles[f]
      /\ \A f \in Entry : (LeasesOf(f))' = LeasesOf(f)
  BY <1>1 DEF Ownership, OwnType, LeasesOf
<1>3. OwnType'
  BY <1>1, <1>2, DropTypes DEF Ownership, OwnType
<1>4. /\ Alive(e) /\ \A f \in Entry \ {e} : (Alive(f))' <=> Alive(f)
      /\ (Alive(e))' <=> ~(handles[e] = 1 /\ LeasesOf(e) = {})
  BY <1>1, <1>2 DEF Alive, Ownership, OwnType
<1> QED BY <1>1, <1>3, <1>4

\* A lease goes: with the last holder the entry, and no other.
LEMMA LeaseGoes ==
  ASSUME Ownership, NEW l \in Lease, DropLease(l)
  PROVE  /\ OwnType' /\ UNCHANGED <<used, byAddress>>
         /\ leases' = [leases EXCEPT ![l] = Nil]
         /\ \E e \in Entry :
              /\ Alive(e)
              /\ \A f \in Entry \ {e} : (Alive(f))' <=> Alive(f)
              /\ \/ EntryDropped(e) /\ ~(Alive(e))'
                 \/ EntryKept /\ (Alive(e))'
<1>1. PICK e : e = leases[l].entry
  OBVIOUS
<1>2. /\ leases[l] # Nil /\ leases' = [leases EXCEPT ![l] = Nil]
      /\ UNCHANGED <<used, handles, byAddress>>
      /\ IF handles[e] = 0 /\ LeasesOf(e) = {l} THEN EntryDropped(e) ELSE EntryKept
  BY <1>1 DEF DropLease
<1>3. e \in Entry /\ l \in LeasesOf(e)
  BY <1>1, <1>2 DEF Ownership, OwnType, Leases, LeasesOf
<1>4. /\ leases' \in [Lease -> Leases \cup {Nil}]
      /\ (LeasesOf(e))' = LeasesOf(e) \ {l}
      /\ \A f \in Entry \ {e} : (LeasesOf(f))' = LeasesOf(f)
  BY <1>1, <1>2 DEF Ownership, OwnType, LeasesOf
<1>5. OwnType'
  BY <1>2, <1>3, <1>4, DropTypes DEF Ownership, OwnType
<1>6. /\ Alive(e) /\ \A f \in Entry \ {e} : (Alive(f))' <=> Alive(f)
      /\ (Alive(e))' <=> ~(handles[e] = 0 /\ LeasesOf(e) = {l})
  BY <1>2, <1>3, <1>4 DEF Alive, Ownership, OwnType
<1>7. \/ EntryDropped(e) /\ ~(Alive(e))'
      \/ EntryKept /\ (Alive(e))'
  BY <1>2, <1>6
<1> QED BY <1>2, <1>3, <1>5, <1>6, <1>7

\* A handle is dropped.
LEMMA DropHandleOwns ==
  ASSUME Ownership, NEW e \in Entry, DropHandle(e)
  PROVE  Ownership'
BY HandleGoes, DropOwns

\* A lease is dropped.
LEMMA DropLeaseOwns ==
  ASSUME Ownership, NEW l \in Lease, DropLease(l)
  PROVE  Ownership'
<1>1. \A k \in Lease : leases'[k] = leases[k] \/ leases'[k] = Nil
  BY LeaseGoes DEF Ownership, OwnType
<1> QED BY <1>1, LeaseGoes, DropOwns

\* A lease of a resident payload.
LEMMA LeaseResidentOwns ==
  ASSUME Ownership, NEW e \in Entry, NEW l \in Lease, LeaseResident(e, l)
  PROVE  Ownership'
<1>1. /\ handles[e] > 0 /\ resident[e] # Nil
      /\ leases' = [leases EXCEPT ![l] = [entry |-> e, addr |-> resident[e]]]
      /\ UNCHANGED <<used, handles, resident, tables, integrity, byAddress, stored>>
  BY DEF LeaseResident, CanLease, stateVars
<1>2. OwnType'
  BY <1>1 DEF Ownership, OwnType, Leases
<1>3. \A f \in Entry : (Alive(f))' <=> Alive(f)
  <2>1. CanLease(e, l)
    BY DEF LeaseResident
  <2> QED BY <1>1, <2>1 DEF Alive, LeasesOf, CanLease, Ownership, OwnType
<1>4. LeasesHold'
  BY <1>1 DEF LeasesHold, Ownership, OwnType
<1>5. Identified' /\ NothingLeft' /\ Mapped' /\ Readable'
  BY <1>1, <1>3 DEF Ownership, Identified, NothingLeft, Mapped, Readable
<1> QED BY <1>2, <1>4, <1>5 DEF Ownership

\* A lease that reloads its payload to an allocation nobody owns.
LEMMA LeaseReloadOwns ==
  ASSUME Ownership, NEW e \in Entry, NEW l \in Lease, NEW a \in Addr,
         NEW R \in SUBSET RowAddr, LeaseReload(e, l, a, R)
  PROVE  Ownership'
<1>1. /\ CanLease(e, l) /\ resident[e] = Nil /\ ~LiveAddr(a)
      /\ resident' = [resident EXCEPT ![e] = a] /\ byAddress' = ReloadMap(e, a)
      /\ leases' = [leases EXCEPT ![l] = [entry |-> e, addr |-> a]]
      /\ UNCHANGED <<used, handles, tables, integrity, stored>>
  BY DEF LeaseReload
<1>2. OwnType'
  BY <1>1 DEF Ownership, OwnType, Leases, ReloadMap
<1>3. \A f \in Entry : (Alive(f))' <=> Alive(f)
  BY <1>1 DEF Alive, LeasesOf, CanLease, Ownership, OwnType
<1>4. \A f \in Entry : resident[f] # a
  BY <1>1, DeadIsFree
<1>5. Mapped'
  BY <1>1, <1>4 DEF Mapped, ReloadMap, Ownership, OwnType
<1>6. LeasesOf(e) = {}
  BY <1>1, LeaseHoldsOutside
<1>7. LeasesHold'
  <2>1. ASSUME NEW k \in Lease \ {l}, leases[k] # Nil PROVE leases[k].entry \in Entry \ {e}
    BY <1>6, <2>1 DEF LeasesOf, Ownership, OwnType, Leases
  <2> QED BY <1>1, <2>1 DEF LeasesHold, Ownership, OwnType
<1>8. Identified' /\ NothingLeft' /\ Readable'
  BY <1>1, <1>3 DEF Ownership, OwnType, Identified, NothingLeft, Readable, CanLease, Alive
<1> QED BY <1>2, <1>5, <1>7, <1>8 DEF Ownership

\* Every step keeps the owners.
LEMMA OwnershipStep == ASSUME Ownership, [Next]_vars PROVE Ownership'
<1>1. CASE PassBegin
  BY <1>1, PassBeginOwns
<1>2. ASSUME NEW e \in Entry, PassEvict(e) PROVE Ownership'
  BY <1>2, PassEvictOwns
<1>3. ASSUME NEW a \in Addr, PublishAgain(a) PROVE Ownership'
  <2>1. PICK e \in Published(a) : handles' = [handles EXCEPT ![e] = @ + 1]
    BY <1>3 DEF PublishAgain
  <2>2. Alive(e) /\ e \in Entry
    BY <2>1 DEF Published
  <2> QED BY <1>3, <2>1, <2>2, HandleAddedOwns DEF PublishAgain
<1>4. ASSUME NEW e \in Entry, NEW a \in Addr, PublishNew(e, a) PROVE Ownership'
  BY <1>4, PublishNewOwns
<1>5. ASSUME NEW e \in Entry, CloneHandle(e) PROVE Ownership'
  <2>1. Alive(e)
    BY <1>5 DEF CloneHandle, Alive
  <2> QED BY <1>5, <2>1, HandleAddedOwns DEF CloneHandle, stateVars
<1>6. ASSUME NEW e \in Entry, DropHandle(e) PROVE Ownership'
  BY <1>6, DropHandleOwns
<1>7. ASSUME NEW e \in Entry, NEW l \in Lease, LeaseResident(e, l) PROVE Ownership'
  BY <1>7, LeaseResidentOwns
<1>8. ASSUME NEW e \in Entry, NEW l \in Lease, NEW a \in Addr, NEW R \in SUBSET RowAddr,
             LeaseReload(e, l, a, R)
      PROVE  Ownership'
  BY <1>8, LeaseReloadOwns
<1>9. ASSUME NEW l \in Lease, DropLease(l) PROVE Ownership'
  BY <1>9, DropLeaseOwns
<1>10. ASSUME \/ PassEnd \/ \E e \in Entry : PassPutFails(e) \/ MarkCold(e)
              \/ \E e \in Entry : LeaseTakesError(e) \/ LeaseReloadFails(e)
       PROVE  Ownership'
  BY <1>10, OwnersStay
     DEF PassEnd, PassPutFails, MarkCold, LeaseTakesError, LeaseReloadFails, ownVars,
         entryVars, stateVars
<1>11. ASSUME \/ \E a \in Addr : (\E R \in SUBSET RowAddr : Allocate(a, R)) \/ ReleaseArc(a)
              \/ \E l \in Lease : Share(l)
       PROVE  Ownership'
  BY <1>11, OwnersStay DEF Allocate, ReleaseArc, Share, ownVars, entryVars, stateVars
<1>12. ASSUME \/ \E b \in Budgets : SetBudget(b)
              \/ EnforceBudget \/ EvictUnpinned \/ BeginRequest \/ EndRequest
       PROVE  Ownership'
  BY <1>12, OwnersStay
     DEF SetBudget, EnforceBudget, EvictUnpinned, BeginRequest, EndRequest, Enforced,
         ownVars, entryVars, stateVars
<1>13. CASE UNCHANGED vars
  BY <1>13, OwnersStay DEF vars, ownVars, entryVars, stateVars
<1> QED BY <1>1, <1>2, <1>3, <1>4, <1>5, <1>6, <1>7, <1>8, <1>9, <1>10, <1>11, <1>12, <1>13
        DEF Next

\* An empty store owns nothing.
LEMMA InitOwns == ASSUME Init PROVE Ownership
BY StoreAssumption
   DEF Init, Ownership, OwnType, Identified, NothingLeft, Mapped, Readable, LeasesHold, Alive,
       LeasesOf

\* The owners of allocations and spills, in every reachable state.
THEOREM OwnershipHolds == Spec => []Ownership
<1>1. Init => Ownership
  BY InitOwns
<1>2. Ownership /\ [Next]_vars => Ownership'
  BY OwnershipStep
<1> QED BY <1>1, <1>2, PTL DEF Spec

\* Two entries never own one allocation, so that neither keeps the other from
\* being evicted (by_address), and what a lease holds stays its entry's value.
THEOREM AllocationsStayOwned == Spec => []OwnersAreKept
<1>1. Ownership => OwnersAreKept
  BY OwnerIsUnique DEF Ownership, OwnersAreKept
<1> QED BY <1>1, OwnershipHolds, PTL

\* A payload that can be leased is in memory or can be read from the spill, and
\* nothing else is in the spill.
THEOREM PayloadsStayReachable == Spec => []PayloadsReachable
BY OwnershipHolds, LivingIsReachable, PTL

-----------------------------------------------------------------------------
(* The storage behind the store. *)

\* A step of the backend, or none.
BackendStep ==
  \/ SpillStatus' = SpillStatus
  \/ \E e \in Entry : SpillStatus[e] = "never" /\ SpillStatus' = [SpillStatus EXCEPT ![e] = "held"]
  \/ \E e \in Entry : SpillStatus[e] \in {"never", "held"}
                      /\ SpillStatus' = [SpillStatus EXCEPT ![e] = "gone"]

\* The status of the entries a step leaves alone.
LEMMA StatusOfOthers ==
  ASSUME NEW S \in SUBSET Entry,
         \A f \in S : /\ f \in stored' <=> f \in stored
                      /\ f \in used' <=> f \in used
                      /\ (Alive(f))' <=> Alive(f)
  PROVE  \A f \in S : SpillStatus'[f] = SpillStatus[f]
<1>1. ASSUME NEW f \in S PROVE SpillStatus'[f] = SpillStatus[f]
  <2>1. SpillStatus[f] = IF f \in stored THEN "held"
                         ELSE IF f \in used /\ ~Alive(f) THEN "gone" ELSE "never"
    BY DEF SpillStatus
  <2>2. SpillStatus'[f] = IF f \in stored' THEN "held"
                          ELSE IF f \in used' /\ ~(Alive(f))' THEN "gone" ELSE "never"
    BY DEF SpillStatus
  <2> QED BY <2>1, <2>2
<1> QED BY <1>1

\* A step that changes the status of one entry.
LEMMA StatusChanges ==
  ASSUME NEW e \in Entry, \A f \in Entry \ {e} : SpillStatus'[f] = SpillStatus[f]
  PROVE  SpillStatus' = [SpillStatus EXCEPT ![e] = SpillStatus'[e]]
<1>1. SpillStatus = [f \in Entry |-> SpillStatus[f]]
  BY DEF SpillStatus
<1>2. SpillStatus' = [f \in Entry |-> SpillStatus'[f]]
  BY DEF SpillStatus
<1> QED BY <1>1, <1>2

\* Steps that neither write nor free a spill, nor end an entry.
LEMMA StatusStays ==
  ASSUME \A f \in Entry : /\ f \in stored' <=> f \in stored
                          /\ f \in used' <=> f \in used
                          /\ (Alive(f))' <=> Alive(f)
  PROVE  BackendStep
<1>1. \A f \in Entry : SpillStatus'[f] = SpillStatus[f]
  BY StatusOfOthers
<1>2. SpillStatus = [f \in Entry |-> SpillStatus[f]]
  BY DEF SpillStatus
<1>3. SpillStatus' = [f \in Entry |-> SpillStatus'[f]]
  BY DEF SpillStatus
<1> QED BY <1>1, <1>2, <1>3 DEF BackendStep

\* An eviction puts a payload once.
LEMMA EvictPuts ==
  ASSUME Ownership, NEW e \in Entry, PassEvict(e)
  PROVE  BackendStep
<1>1. stored' = stored \cup {e} /\ UNCHANGED <<used, handles, leases>> /\ Alive(e)
  BY DEF PassEvict, Victim, Evictable
<1>2. \A f \in Entry : (Alive(f))' <=> Alive(f)
  BY <1>1 DEF Alive, LeasesOf
<1>3. \A f \in Entry \ {e} : SpillStatus'[f] = SpillStatus[f]
  BY <1>1, <1>2, StatusOfOthers
<1>4. SpillStatus'[e] = "held" /\ SpillStatus[e] \in {"held", "never"}
  BY <1>1 DEF SpillStatus
<1>5. CASE SpillStatus[e] = "never"
  BY <1>3, <1>4, <1>5, StatusChanges DEF BackendStep
<1>6. CASE SpillStatus[e] = "held"
  <2>1. e \in stored
    BY <1>1, <1>6 DEF SpillStatus
  <2> QED BY <1>1, <1>2, <2>1, StatusStays
<1> QED BY <1>4, <1>5, <1>6

\* An entry that goes takes its spill and its identity with it.
LEMMA DropRemoves ==
  ASSUME Ownership, NEW e \in Entry, UNCHANGED used, Alive(e),
         \A f \in Entry \ {e} : (Alive(f))' <=> Alive(f),
         \/ EntryDropped(e) /\ ~(Alive(e))'
         \/ EntryKept /\ (Alive(e))'
  PROVE  BackendStep
<1>1. CASE EntryKept /\ (Alive(e))'
  BY <1>1, StatusStays DEF EntryKept
<1>2. CASE EntryDropped(e) /\ ~(Alive(e))'
  <2>1. stored' = stored \ {e} /\ e \in used
    BY <1>2 DEF EntryDropped, SpillAfterDrop, Ownership, Identified
  <2>2. \A f \in Entry \ {e} : SpillStatus'[f] = SpillStatus[f]
    BY <2>1, StatusOfOthers
  <2>3. SpillStatus'[e] = "gone" /\ SpillStatus[e] \in {"never", "held"}
    BY <1>2, <2>1 DEF SpillStatus
  <2> QED BY <2>2, <2>3, StatusChanges DEF BackendStep
<1> QED BY <1>1, <1>2

\* Steps that change neither the spill, nor an entry's identity, nor its holders.
LEMMA SameHolders ==
  ASSUME UNCHANGED <<stored, used, handles, leases>> PROVE BackendStep
<1>1. \A f \in Entry : (Alive(f))' <=> Alive(f)
  BY DEF Alive, LeasesOf
<1> QED BY <1>1, StatusStays

\* An identity that is handed out is still one the backend has not seen.
LEMMA PublishNewKeepsStatus ==
  ASSUME Ownership, NEW e \in Entry, NEW a \in Addr, PublishNew(e, a)
  PROVE  BackendStep
<1>1. /\ e \notin used /\ used' = used \cup {e} /\ handles' = [handles EXCEPT ![e] = 1]
      /\ UNCHANGED <<leases, stored>>
  BY DEF PublishNew, FreshIds
<1>2. ~Alive(e) /\ e \notin stored
  BY <1>1 DEF Ownership, Identified, NothingLeft
<1>3. \A f \in Entry : (Alive(f))' <=> Alive(f) \/ f = e
  BY <1>1 DEF Alive, LeasesOf, Ownership, OwnType
<1>4. \A f \in Entry \ {e} : SpillStatus'[f] = SpillStatus[f]
  BY <1>1, <1>3, StatusOfOthers
<1>5. SpillStatus[e] = "never" /\ SpillStatus'[e] = "never"
  BY <1>1, <1>2, <1>3 DEF SpillStatus
<1>6. SpillStatus = [f \in Entry |-> SpillStatus[f]]
  BY DEF SpillStatus
<1>7. SpillStatus' = [f \in Entry |-> SpillStatus'[f]]
  BY DEF SpillStatus
<1> QED BY <1>4, <1>5, <1>6, <1>7 DEF BackendStep

\* One more handle of a living entry.
LEMMA HandleAddedKeepsStatus ==
  ASSUME Ownership, NEW e \in Entry, Alive(e), handles' = [handles EXCEPT ![e] = @ + 1],
         UNCHANGED <<used, leases, stored>>
  PROVE  BackendStep
<1>1. \A f \in Entry : (Alive(f))' <=> Alive(f)
  BY DEF Alive, LeasesOf, Ownership, OwnType
<1> QED BY <1>1, StatusStays

\* A lease on an entry somebody has a handle of.
LEMMA LeaseKeepsStatus ==
  ASSUME Ownership, NEW e \in Entry, NEW l \in Lease, NEW a, CanLease(e, l),
         leases' = [leases EXCEPT ![l] = [entry |-> e, addr |-> a]],
         UNCHANGED <<used, handles, stored>>
  PROVE  BackendStep
<1>1. \A f \in Entry : (Alive(f))' <=> Alive(f)
  BY DEF Alive, LeasesOf, CanLease, Ownership, OwnType
<1> QED BY <1>1, StatusStays

\* Every step asks the backend for what it promised, or for nothing.
LEMMA BackendStepped == ASSUME Ownership, [Next]_vars PROVE BackendStep
<1>1. ASSUME NEW e \in Entry, PassEvict(e) PROVE BackendStep
  BY <1>1, EvictPuts
<1>2. ASSUME NEW a \in Addr, PublishAgain(a) PROVE BackendStep
  <2>1. PICK e \in Published(a) : handles' = [handles EXCEPT ![e] = @ + 1]
    BY <1>2 DEF PublishAgain
  <2>2. Alive(e) /\ e \in Entry
    BY <2>1 DEF Published
  <2> QED BY <1>2, <2>1, <2>2, HandleAddedKeepsStatus DEF PublishAgain
<1>3. ASSUME NEW e \in Entry, NEW a \in Addr, PublishNew(e, a) PROVE BackendStep
  BY <1>3, PublishNewKeepsStatus
<1>4. ASSUME NEW e \in Entry, CloneHandle(e) PROVE BackendStep
  <2>1. Alive(e)
    BY <1>4 DEF CloneHandle, Alive
  <2> QED BY <1>4, <2>1, HandleAddedKeepsStatus DEF CloneHandle
<1>5. ASSUME NEW e \in Entry, DropHandle(e) PROVE BackendStep
  BY <1>5, HandleGoes, DropRemoves
<1>6. ASSUME NEW l \in Lease, DropLease(l) PROVE BackendStep
  <2>1. UNCHANGED used
    BY <1>6, LeaseGoes
  <2>2. PICK e \in Entry : /\ Alive(e)
                           /\ \A f \in Entry \ {e} : (Alive(f))' <=> Alive(f)
                           /\ \/ EntryDropped(e) /\ ~(Alive(e))'
                              \/ EntryKept /\ (Alive(e))'
    BY <1>6, LeaseGoes
  <2> QED BY <2>1, <2>2, DropRemoves
<1>7. ASSUME NEW e \in Entry, NEW l \in Lease, LeaseResident(e, l) PROVE BackendStep
  BY <1>7, LeaseKeepsStatus DEF LeaseResident
<1>8. ASSUME NEW e \in Entry, NEW l \in Lease, NEW a \in Addr, NEW R \in SUBSET RowAddr,
             LeaseReload(e, l, a, R)
      PROVE  BackendStep
  BY <1>8, LeaseKeepsStatus DEF LeaseReload
<1>9. ASSUME \/ PassBegin \/ PassEnd \/ \E e \in Entry : PassPutFails(e) \/ MarkCold(e)
             \/ \E e \in Entry : LeaseTakesError(e) \/ LeaseReloadFails(e)
      PROVE  BackendStep
  BY <1>9, SameHolders
     DEF PassBegin, PassEnd, PassPutFails, MarkCold, LeaseTakesError, LeaseReloadFails,
         entryVars
<1>10. ASSUME \/ \E a \in Addr : (\E R \in SUBSET RowAddr : Allocate(a, R)) \/ ReleaseArc(a)
              \/ \E l \in Lease : Share(l)
       PROVE  BackendStep
  BY <1>10, SameHolders DEF Allocate, ReleaseArc, Share, entryVars
<1>11. ASSUME \/ \E b \in Budgets : SetBudget(b)
              \/ EnforceBudget \/ EvictUnpinned \/ BeginRequest \/ EndRequest
       PROVE  BackendStep
  BY <1>11, SameHolders
     DEF SetBudget, EnforceBudget, EvictUnpinned, BeginRequest, EndRequest, Enforced,
         entryVars
<1>12. CASE UNCHANGED vars
  BY <1>12, SameHolders DEF vars, entryVars
<1> QED BY <1>1, <1>2, <1>3, <1>4, <1>5, <1>6, <1>7, <1>8, <1>9, <1>10, <1>11, <1>12 DEF Next

\* What the abstract backend calls a step.
LEMMA BackendStepIsAbstract == BackendStep => [Backend!Next]_SpillStatus
BY DEF BackendStep, Backend!Next, Backend!Put, Backend!Remove

\* The store puts a payload at most once, and neither its spill nor its
\* identity comes back after it was removed (SpillBackend).
THEOREM StoreKeepsBackendContract == Spec => KeepsBackendContract
<1>1. Init => Backend!Init
  BY DEF Init, Backend!Init, SpillStatus
<1>2. Ownership /\ [Next]_vars => [Backend!Next]_SpillStatus
  BY BackendStepped, BackendStepIsAbstract
<1> QED BY <1>1, <1>2, OwnershipHolds, PTL DEF Spec, KeepsBackendContract, Backend!Spec

-----------------------------------------------------------------------------
(* The request bracket. *)

ErrType ==
  /\ error \in BOOLEAN
  /\ poisoned \in BOOLEAN
  /\ failureCount \in Nat
  /\ pass \in Passes \cup {Nil}
  /\ request \in Requests \cup {Nil}

\* A failure the store latched, or a tracked body was given, was counted after
\* the request in progress began.
CountedInRequest ==
  /\ request # Nil => request.count <= failureCount
  /\ request # Nil /\ error => request.count < failureCount
  /\ poisoned => request # Nil /\ request.failed /\ request.count < failureCount

Bracket == ErrType /\ CountedInRequest

\* Steps that neither fail nor bound a request.
LEMMA BracketStays ==
  ASSUME Bracket, UNCHANGED <<error, poisoned, failureCount, request>>,
         pass' \in Passes \cup {Nil}
  PROVE  Bracket'
BY DEF Bracket, ErrType, CountedInRequest

\* A pass that cannot write a spill counts what it latches.
LEMMA PassPutFailsCounts ==
  ASSUME Bracket, NEW e \in Entry, PassPutFails(e)
  PROVE  Bracket'
<1>1. /\ pass # Nil /\ pass' = Nil /\ error' = (error \/ pass.latch)
      /\ failureCount' = failureCount + (IF pass.latch THEN 1 ELSE 0)
      /\ UNCHANGED <<request, poisoned>>
  BY DEF PassPutFails, PassActive, engineVars
<1>2. pass.latch \in BOOLEAN
  BY <1>1 DEF Bracket, ErrType, Passes
<1>3. ErrType'
  BY <1>1, <1>2 DEF Bracket, ErrType
<1>4. request # Nil => request.count \in Nat
  BY DEF Bracket, ErrType, Requests
<1>5. CountedInRequest'
  BY <1>1, <1>2, <1>4 DEF Bracket, ErrType, CountedInRequest
<1> QED BY <1>3, <1>5 DEF Bracket

\* A body that is given an error makes the request fail.
LEMMA BodyFailsCounts ==
  ASSUME Bracket, BodyFails, error' \in BOOLEAN, error' => error, UNCHANGED pass,
         failureCount' \in {failureCount, failureCount + 1},
         error \/ failureCount' = failureCount + 1
  PROVE  Bracket'
<1>1. CASE request = Nil
  BY <1>1 DEF BodyFails, engineVars, Bracket, ErrType, CountedInRequest
<1>2. CASE request # Nil
  <2>1. request' = [request EXCEPT !.failed = TRUE] /\ poisoned' = TRUE
    BY <1>2 DEF BodyFails
  <2>2. request \in Requests
    BY <1>2 DEF Bracket, ErrType
  <2>3. /\ request' \in Requests /\ request'.count = request.count /\ request'.failed
        /\ request.count \in Nat
    BY <2>1, <2>2 DEF Requests
  <2>4. request' # Nil
    BY <2>3, NilAssumption
  <2>5. ErrType'
    BY <2>1, <2>3 DEF Bracket, ErrType
  <2>6. request'.count < failureCount'
    BY <1>2, <2>3 DEF Bracket, ErrType, CountedInRequest
  <2>7. CountedInRequest'
    BY <2>3, <2>4, <2>5, <2>6 DEF CountedInRequest, ErrType
  <2> QED BY <2>5, <2>7 DEF Bracket
<1> QED BY <1>1, <1>2

\* The request begins with no failure latched, and counts from here.
LEMMA BeginRequestCounts == ASSUME Bracket, BeginRequest PROVE Bracket'
<1>1. /\ request = Nil /\ request' = [count |-> failureCount, failed |-> FALSE]
      /\ error' = FALSE /\ UNCHANGED <<poisoned, failureCount>>
      /\ pass' = [all |-> FALSE, latch |-> FALSE, begun |-> FALSE]
  BY DEF BeginRequest, Enforced, Trim
<1>2. ~poisoned
  BY <1>1 DEF Bracket, CountedInRequest
<1>3. ErrType'
  BY <1>1 DEF Bracket, ErrType, Passes, Requests
<1>4. request'.count = failureCount
  BY <1>1
<1>5. CountedInRequest'
  BY <1>1, <1>2, <1>4 DEF Bracket, ErrType, CountedInRequest
<1> QED BY <1>3, <1>5 DEF Bracket

\* Every step keeps the bracket.
LEMMA BracketStep == ASSUME Bracket, [Next]_vars PROVE Bracket'
<1>1. ASSUME PassBegin PROVE Bracket'
  <2>1. pass \in Passes
    BY <1>1 DEF PassBegin, Bracket, ErrType
  <2>2. pass' \in Passes \cup {Nil}
    BY <1>1, <2>1 DEF PassBegin, Passes
  <2> QED BY <1>1, <2>2, BracketStays DEF PassBegin, engineVars
<1>2. ASSUME NEW e \in Entry, PassPutFails(e) PROVE Bracket'
  BY <1>2, PassPutFailsCounts
<1>3. ASSUME NEW e \in Entry, LeaseTakesError(e) PROVE Bracket'
  <2>1. error /\ error' = FALSE /\ BodyFails /\ UNCHANGED <<pass, failureCount>>
    BY <1>3 DEF LeaseTakesError
  <2> QED BY <2>1, BodyFailsCounts
<1>4. ASSUME NEW e \in Entry, LeaseReloadFails(e) PROVE Bracket'
  <2>1. failureCount' = failureCount + 1 /\ BodyFails /\ UNCHANGED <<pass, error>>
    BY <1>4 DEF LeaseReloadFails
  <2> QED BY <2>1, BodyFailsCounts DEF Bracket, ErrType
<1>5. ASSUME BeginRequest PROVE Bracket'
  BY <1>5, BeginRequestCounts
<1>6. ASSUME EndRequest PROVE Bracket'
  <2>1. /\ request # Nil /\ request' = Nil /\ UNCHANGED <<error, failureCount, pass>>
        /\ poisoned' = (poisoned /\ ~(request.failed /\ failureCount > request.count))
    BY <1>6 DEF EndRequest, stateVars
  <2>2. request.count \in Nat
    BY <2>1 DEF Bracket, ErrType, Requests
  <2>3. poisoned' = FALSE
    BY <2>1, <2>2 DEF Bracket, ErrType, CountedInRequest
  <2> QED BY <2>1, <2>3 DEF Bracket, ErrType, CountedInRequest
<1>7. ASSUME EnforceBudget PROVE Bracket'
  <2>1. /\ error' = FALSE /\ UNCHANGED <<poisoned, failureCount, request>>
        /\ pass' \in Passes
    BY <1>7 DEF EnforceBudget, Enforced, Trim, engineVars, Passes
  <2> QED BY <2>1 DEF Bracket, ErrType, CountedInRequest
<1>8. ASSUME \/ PassEnd \/ \E e \in Entry : PassEvict(e)
             \/ \E a \in Addr : (\E R \in SUBSET RowAddr : Allocate(a, R)) \/ ReleaseArc(a)
             \/ \E l \in Lease : Share(l)
      PROVE  Bracket'
  <2>1. UNCHANGED <<error, poisoned, failureCount, request>>
    BY <1>8 DEF PassEnd, PassEvict, Allocate, ReleaseArc, Share, stateVars, engineVars
  <2>2. pass' \in {pass, Nil}
    BY <1>8 DEF PassEnd, PassEvict, Allocate, ReleaseArc, Share
  <2> QED BY <2>1, <2>2, BracketStays DEF Bracket, ErrType
<1>9. ASSUME \/ \E a \in Addr : PublishAgain(a)
             \/ \E e \in Entry, a \in Addr : PublishNew(e, a)
             \/ \E l \in Lease : DropLease(l)
             \/ \E b \in Budgets : SetBudget(b)
             \/ EvictUnpinned
      PROVE  Bracket'
  <2>1. UNCHANGED <<error, poisoned, failureCount, request>>
    BY <1>9 DEF PublishAgain, PublishNew, DropLease, SetBudget, EvictUnpinned, stateVars,
                engineVars
  <2>2. \E all, latch \in BOOLEAN : Trim(all, latch)
    BY <1>9 DEF PublishAgain, PublishNew, DropLease, SetBudget, EvictUnpinned
  <2>3. pass' \in Passes
    BY <2>2 DEF Trim, Passes
  <2> QED BY <2>1, <2>3, BracketStays
<1>10. ASSUME \/ \E e \in Entry : CloneHandle(e) \/ DropHandle(e) \/ MarkCold(e)
              \/ \E e \in Entry, l \in Lease : LeaseResident(e, l)
              \/ \E e \in Entry, l \in Lease, a \in Addr : \E R \in SUBSET RowAddr :
                   LeaseReload(e, l, a, R)
       PROVE  Bracket'
  <2>1. UNCHANGED <<error, poisoned, failureCount, request, pass>>
    BY <1>10 DEF CloneHandle, DropHandle, MarkCold, LeaseResident, LeaseReload, stateVars,
                 engineVars
  <2> QED BY <2>1, BracketStays DEF Bracket, ErrType
<1>11. CASE UNCHANGED vars
  <2>1. UNCHANGED <<error, poisoned, failureCount, request, pass>>
    BY <1>11 DEF vars, stateVars, engineVars
  <2> QED BY <2>1, BracketStays DEF Bracket, ErrType
<1> QED BY <1>1, <1>2, <1>3, <1>4, <1>5, <1>6, <1>7, <1>8, <1>9, <1>10, <1>11 DEF Next

\* What was counted within a request, in every reachable state.
THEOREM BracketHolds == Spec => []Bracket
<1>1. Init => Bracket
  <2>1. Init => /\ error = FALSE /\ poisoned = FALSE /\ failureCount = 0
                /\ pass = Nil /\ request = Nil
    BY DEF Init
  <2>2. Init => ErrType
    <3>1. Init => failureCount \in Nat
      BY <2>1
    <3> QED BY <2>1, <3>1, Zenon DEF ErrType
  <2>3. Init => CountedInRequest
    BY <2>1 DEF CountedInRequest
  <2> QED BY <2>2, <2>3 DEF Bracket
<1>2. Bracket /\ [Next]_vars => Bracket'
  BY BracketStep
<1> QED BY <1>1, <1>2, PTL DEF Spec

\* No engine that memoized a store error outlives its request: the failure was
\* counted inside the request (store_failures_at_request_entry,
\* reset_incremental_state_after_store_failure).
THEOREM NoEngineStaysPoisoned == Spec => []NoPoisonedEngineKept
<1>1. Bracket => NoPoisonedEngineKept
  BY DEF Bracket, CountedInRequest, NoPoisonedEngineKept
<1> QED BY <1>1, BracketHolds, PTL

-----------------------------------------------------------------------------
(* The charge of tables that share rows. *)

\* References of the tables at T to each row, and what they are charged.
RowRefs(held, T) == [r \in RowAddr |-> Cardinality({a \in T : r \in held[a]})]
TablesCharge(T, shared) == TableCharge * Cardinality(T) + RowCharge * Cardinality(Charged(shared))

\* The sizes of two sets without a common element add up.
LEMMA DisjointSizes ==
  ASSUME NEW S, NEW T, IsFiniteSet(S), IsFiniteSet(T), S \cap T = {}
  PROVE  /\ IsFiniteSet(S \cup T)
         /\ Cardinality(S) \in Nat /\ Cardinality(T) \in Nat
         /\ Cardinality(S \cup T) = Cardinality(S) + Cardinality(T)
<1>1. Cardinality(S) \in Nat /\ Cardinality(T) \in Nat
  BY FS_CardinalityType
<1>2. Cardinality(S \cap T) = 0
  BY FS_EmptySet
<1>3. IsFiniteSet(S \cup T) /\ Cardinality(S \cup T) = Cardinality(S) + Cardinality(T) - Cardinality(S \cap T)
  BY FS_Union
<1> QED BY <1>1, <1>2, <1>3

\* Addresses and rows are finitely many.
LEMMA AddressesAreFinite ==
  /\ \A T \in SUBSET Addr : IsFiniteSet(T) /\ Cardinality(T) \in Nat
  /\ \A R \in SUBSET RowAddr : IsFiniteSet(R) /\ Cardinality(R) \in Nat
  /\ \A E \in SUBSET Entry : IsFiniteSet(E) /\ Cardinality(E) \in Nat
<1>1. ASSUME NEW T \in SUBSET Addr PROVE IsFiniteSet(T) /\ Cardinality(T) \in Nat
  <2>1. IsFiniteSet(T)
    BY FS_Subset, StoreAssumption
  <2> QED BY <2>1, FS_CardinalityType
<1>2. ASSUME NEW R \in SUBSET RowAddr PROVE IsFiniteSet(R) /\ Cardinality(R) \in Nat
  <2>1. IsFiniteSet(R)
    BY FS_Subset, StoreAssumption
  <2> QED BY <2>1, FS_CardinalityType
<1>3. ASSUME NEW E \in SUBSET Entry PROVE IsFiniteSet(E) /\ Cardinality(E) \in Nat
  <2>1. IsFiniteSet(E)
    BY FS_Subset, StoreAssumption
  <2> QED BY <2>1, FS_CardinalityType
<1> QED BY <1>1, <1>2, <1>3

\* References count every table once.
LEMMA RefsAdd ==
  ASSUME NEW held, NEW Keep \in SUBSET Addr, NEW Gone \in SUBSET Addr, Keep \cap Gone = {},
         NEW r \in RowAddr
  PROVE  /\ RowRefs(held, Keep)[r] \in Nat /\ RowRefs(held, Gone)[r] \in Nat
         /\ RowRefs(held, Keep \cup Gone)[r] = RowRefs(held, Keep)[r] + RowRefs(held, Gone)[r]
<1> DEFINE K == {a \in Keep : r \in held[a]}
           G == {a \in Gone : r \in held[a]}
<1>1. IsFiniteSet(K) /\ IsFiniteSet(G)
  BY AddressesAreFinite
<1>2. K \cap G = {}
  OBVIOUS
<1>3. {a \in Keep \cup Gone : r \in held[a]} = K \cup G
  OBVIOUS
<1>4. /\ RowRefs(held, Keep)[r] = Cardinality(K)
      /\ RowRefs(held, Gone)[r] = Cardinality(G)
      /\ RowRefs(held, Keep \cup Gone)[r] = Cardinality(K \cup G)
  BY <1>3 DEF RowRefs
<1>5. /\ Cardinality(K) \in Nat /\ Cardinality(G) \in Nat
      /\ Cardinality(K \cup G) = Cardinality(K) + Cardinality(G)
  <2> HIDE DEF K, G
  <2> QED BY <1>1, <1>2, DisjointSizes
<1> QED BY <1>4, <1>5

\* Products distribute over the charges.
LEMMA ChargesAdd == \A c, m, n \in Nat : c * m \in Nat /\ c * (m + n) = c * m + c * n
OBVIOUS

\* A table more, charged for itself and for the rows nobody held before it.
LEMMA AddCharges ==
  ASSUME NEW held \in [Addr -> SUBSET RowAddr], NEW T \in SUBSET Addr, NEW a \in Addr \ T
  PROVE  LET s == RowRefs(held, T) IN
         /\ WithTable(s, held[a]) = RowRefs(held, T \cup {a})
         /\ TablesCharge(T, s) \in Nat /\ AddedCharge(s, held[a]) \in Nat
         /\ TablesCharge(T \cup {a}, WithTable(s, held[a]))
              = TablesCharge(T, s) + AddedCharge(s, held[a])
         /\ AddedCharge(s, held[a]) >= TableCharge
<1> DEFINE s == RowRefs(held, T)
           w == RowRefs(held, T \cup {a})
           R == held[a]
<1>1. ASSUME NEW r \in RowAddr
      PROVE  /\ s[r] \in Nat /\ w[r] = s[r] + (IF r \in R THEN 1 ELSE 0)
  <2>1. RowRefs(held, {a})[r] = IF r \in R THEN 1 ELSE 0
    <3>1. RowRefs(held, {a})[r] = Cardinality({b \in {a} : r \in held[b]})
      BY DEF RowRefs
    <3>2. CASE r \in R
      <4>1. {b \in {a} : r \in held[b]} = {a}
        BY <3>2
      <4> QED BY <3>1, <3>2, <4>1, FS_Singleton
    <3>3. CASE r \notin R
      <4>1. {b \in {a} : r \in held[b]} = {}
        BY <3>3
      <4> QED BY <3>1, <3>3, <4>1, FS_EmptySet
    <3> QED BY <3>2, <3>3
  <2>2. {a} \in SUBSET Addr /\ T \cap {a} = {}
    OBVIOUS
  <2> QED BY <2>1, <2>2, RefsAdd
<1>2. WithTable(s, R) = w
  <2>1. w = [r \in RowAddr |-> w[r]]
    BY DEF RowRefs
  <2>2. WithTable(s, R) = [r \in RowAddr |-> s[r] + (IF r \in R THEN 1 ELSE 0)]
    BY DEF WithTable
  <2> HIDE DEF s, w, R
  <2> QED BY <2>1, <2>2, <1>1
<1>3. R \subseteq RowAddr
  OBVIOUS
<1> HIDE DEF s, w, R
<1>4. Charged(w) = Charged(s) \cup (R \ Charged(s))
  BY <1>1, <1>3 DEF Charged
<1>5. Charged(s) \in SUBSET RowAddr /\ R \ Charged(s) \in SUBSET RowAddr
  BY <1>3 DEF Charged
<1>6. /\ Cardinality(Charged(s)) \in Nat /\ Cardinality(R \ Charged(s)) \in Nat
      /\ Cardinality(Charged(w)) = Cardinality(Charged(s)) + Cardinality(R \ Charged(s))
  <2>1. Charged(s) \cap (R \ Charged(s)) = {}
    OBVIOUS
  <2>2. IsFiniteSet(Charged(s)) /\ IsFiniteSet(R \ Charged(s))
    BY <1>5, AddressesAreFinite
  <2> QED BY <1>4, <2>1, <2>2, DisjointSizes
<1>7. Cardinality(T) \in Nat /\ Cardinality(T \cup {a}) = Cardinality(T) + 1
  BY AddressesAreFinite, FS_AddElement
<1>8. /\ TableCharge * (Cardinality(T) + 1) = TableCharge * Cardinality(T) + TableCharge
      /\ TableCharge * Cardinality(T) \in Nat
  BY <1>7, ChargesAdd, StoreAssumption
<1>9. /\ RowCharge * Cardinality(Charged(w))
           = RowCharge * Cardinality(Charged(s)) + RowCharge * Cardinality(R \ Charged(s))
      /\ RowCharge * Cardinality(Charged(s)) \in Nat
      /\ RowCharge * Cardinality(R \ Charged(s)) \in Nat
  BY <1>6, ChargesAdd, StoreAssumption
<1>10. /\ AddedCharge(s, R) = TableCharge + RowCharge * Cardinality(R \ Charged(s))
       /\ TablesCharge(T, s) = TableCharge * Cardinality(T) + RowCharge * Cardinality(Charged(s))
       /\ TablesCharge(T \cup {a}, w)
            = TableCharge * Cardinality(T \cup {a}) + RowCharge * Cardinality(Charged(w))
  BY DEF AddedCharge, TablesCharge
<1>11. /\ AddedCharge(s, R) \in Nat /\ AddedCharge(s, R) >= TableCharge
       /\ TablesCharge(T, s) \in Nat
       /\ TablesCharge(T \cup {a}, w) = TablesCharge(T, s) + AddedCharge(s, R)
  BY <1>7, <1>8, <1>9, <1>10, StoreAssumption
<1> QED BY <1>2, <1>11 DEF s, w, R

\* Tables that go release themselves and the rows nobody holds after them.
LEMMA ReleaseCharges ==
  ASSUME NEW Keep \in SUBSET Addr, NEW Gone \in SUBSET Addr, Keep \cap Gone = {}
  PROVE  LET s == RowRefs(rows, Keep \cup Gone) IN
         /\ WithoutTables(s, Gone) = RowRefs(rows, Keep)
         /\ TablesCharge(Keep, RowRefs(rows, Keep)) \in Nat
         /\ ReleasedCharge(s, Gone) \in Nat
         /\ TablesCharge(Keep \cup Gone, s)
              = TablesCharge(Keep, RowRefs(rows, Keep)) + ReleasedCharge(s, Gone)
<1> DEFINE s == RowRefs(rows, Keep \cup Gone)
           w == RowRefs(rows, Keep)
           g == RowRefs(rows, Gone)
           D == Charged(s) \ Charged(w)
<1>1. ASSUME NEW r \in RowAddr
      PROVE  w[r] \in Nat /\ g[r] \in Nat /\ s[r] = w[r] + g[r] /\ RefsIn(Gone, r) = g[r]
  <2>1. RefsIn(Gone, r) = g[r]
    BY DEF RefsIn, RowRefs
  <2>2. w[r] \in Nat /\ g[r] \in Nat /\ s[r] = w[r] + g[r]
    BY RefsAdd
  <2> QED BY <2>1, <2>2
<1>2. WithoutTables(s, Gone) = w
  <2>1. w = [r \in RowAddr |-> w[r]]
    BY DEF RowRefs
  <2>2. WithoutTables(s, Gone) = [r \in RowAddr |-> s[r] - RefsIn(Gone, r)]
    BY DEF WithoutTables
  <2> HIDE DEF s, w, g
  <2>3. \A r \in RowAddr : s[r] - RefsIn(Gone, r) = w[r]
    BY <1>1
  <2> QED BY <2>1, <2>2, <2>3
<1> HIDE DEF s, w, g
<1>3. Charged(w) \in SUBSET RowAddr /\ D \in SUBSET RowAddr
  BY DEF Charged
<1>4. Charged(s) = Charged(w) \cup D
  BY <1>1 DEF Charged
<1>5. /\ Cardinality(Charged(w)) \in Nat /\ Cardinality(D) \in Nat
      /\ Cardinality(Charged(s)) = Cardinality(Charged(w)) + Cardinality(D)
  <2>1. Charged(w) \cap D = {}
    OBVIOUS
  <2>2. IsFiniteSet(Charged(w)) /\ IsFiniteSet(D)
    BY <1>3, AddressesAreFinite
  <2> HIDE DEF D
  <2> QED BY <1>4, <2>1, <2>2, DisjointSizes
<1>6. /\ Cardinality(Keep) \in Nat /\ Cardinality(Gone) \in Nat
      /\ Cardinality(Keep \cup Gone) = Cardinality(Keep) + Cardinality(Gone)
  BY AddressesAreFinite, DisjointSizes
<1>7. /\ TableCharge * Cardinality(Keep \cup Gone)
           = TableCharge * Cardinality(Keep) + TableCharge * Cardinality(Gone)
      /\ TableCharge * Cardinality(Keep) \in Nat
      /\ TableCharge * Cardinality(Gone) \in Nat
  BY <1>6, ChargesAdd, StoreAssumption
<1>8. /\ RowCharge * Cardinality(Charged(s))
           = RowCharge * Cardinality(Charged(w)) + RowCharge * Cardinality(D)
      /\ RowCharge * Cardinality(Charged(w)) \in Nat
      /\ RowCharge * Cardinality(D) \in Nat
  BY <1>5, ChargesAdd, StoreAssumption
<1>9. /\ ReleasedCharge(s, Gone) = TableCharge * Cardinality(Gone) + RowCharge * Cardinality(D)
      /\ TablesCharge(Keep, w)
           = TableCharge * Cardinality(Keep) + RowCharge * Cardinality(Charged(w))
      /\ TablesCharge(Keep \cup Gone, s)
           = TableCharge * Cardinality(Keep \cup Gone) + RowCharge * Cardinality(Charged(s))
  BY <1>2 DEF ReleasedCharge, TablesCharge
<1>10. /\ TablesCharge(Keep, w) \in Nat /\ ReleasedCharge(s, Gone) \in Nat
       /\ TablesCharge(Keep \cup Gone, s) = TablesCharge(Keep, w) + ReleasedCharge(s, Gone)
  <2> HIDE DEF D
  <2> QED BY <1>7, <1>8, <1>9
<1> QED BY <1>2, <1>10 DEF s, w

-----------------------------------------------------------------------------
(* The accounts match what the store holds. *)

ByteEntries == {e \in Entry \ tables : resident[e] # Nil}
BytesCharge == ByteCharge * Cardinality(ByteEntries)

ChargeType ==
  /\ rows \in [Addr -> SUBSET RowAddr]
  /\ droppedBytes \in Nat
  /\ droppedTables \subseteq Addr

\* A table that waits in the drop queue has no owner any more.
QueueIsOwnerless == \A e \in Entry : resident[e] \notin droppedTables

Accounted ==
  /\ sharedRows = RowRefs(rows, AccountedTables)
  /\ residentBytes = BytesCharge + droppedBytes + TablesCharge(AccountedTables, sharedRows)

Accounts == ChargeType /\ QueueIsOwnerless /\ Accounted

chargeVars == <<rows, resident, tables, residentBytes, sharedRows, droppedBytes, droppedTables>>

\* Exact accounts are what the checks look at.
LEMMA AccountsMatch == Ownership /\ Accounts => ChargesMatch
<1> SUFFICES ASSUME Ownership, Accounts PROVE ChargesMatch
  OBVIOUS
<1>1. \A r \in RowAddr : sharedRows[r] = RefsIn(AccountedTables, r)
  BY DEF Accounts, Accounted, RowRefs, RefsIn
<1>2. /\ ResidentTables \in SUBSET Addr /\ ByteEntries \in SUBSET Entry
      /\ AccountedTables \in SUBSET Addr
      /\ Charged(sharedRows) \in SUBSET RowAddr
  BY DEF ResidentTables, ByteEntries, AccountedTables, Accounts, ChargeType, Ownership, OwnType,
         Charged
<1>3. /\ BytesCharge \in Nat /\ droppedBytes \in Nat
      /\ TableCharge * Cardinality(AccountedTables) \in Nat
      /\ RowCharge * Cardinality(Charged(sharedRows)) \in Nat
  BY <1>2, AddressesAreFinite, ChargesAdd, StoreAssumption
     DEF BytesCharge, Accounts, ChargeType
<1>4. residentBytes = BytesCharge + droppedBytes + TableCharge * Cardinality(AccountedTables)
                        + RowCharge * Cardinality(Charged(sharedRows))
  BY <1>3 DEF Accounts, Accounted, TablesCharge
<1> QED BY <1>1, <1>4 DEF ChargesMatch, BytesCharge, ByteEntries

\* Steps that leave the accounts alone.
LEMMA AccountsStay == ASSUME Accounts, UNCHANGED chargeVars PROVE Accounts'
<1>1. /\ UNCHANGED <<rows, resident, tables, residentBytes, sharedRows, droppedBytes, droppedTables>>
      /\ ByteEntries' = ByteEntries /\ ResidentTables' = ResidentTables
      /\ AccountedTables' = AccountedTables
  BY DEF chargeVars, ByteEntries, ResidentTables, AccountedTables
<1>2. sharedRows' = RowRefs(rows', AccountedTables')
  BY <1>1 DEF Accounts, Accounted
<1>3. residentBytes' = BytesCharge' + droppedBytes' + TablesCharge(AccountedTables', sharedRows')
  BY <1>1 DEF Accounts, Accounted, BytesCharge, TablesCharge, Charged
<1> QED BY <1>1, <1>2, <1>3 DEF Accounts, Accounted, ChargeType, QueueIsOwnerless

\* What the accounts are made of.
LEMMA AccountTypes ==
  ASSUME Ownership, Accounts
  PROVE  /\ ResidentTables \in SUBSET Addr /\ ResidentTables \cap droppedTables = {}
         /\ ByteEntries \in SUBSET Entry /\ BytesCharge \in Nat
         /\ TablesCharge(AccountedTables, sharedRows) \in Nat /\ residentBytes \in Nat
<1>1. /\ ResidentTables \in SUBSET Addr /\ ResidentTables \cap droppedTables = {}
      /\ ByteEntries \in SUBSET Entry
  BY DEF Ownership, OwnType, Accounts, QueueIsOwnerless, ResidentTables, ByteEntries
<1>2. BytesCharge \in Nat
  BY <1>1, AddressesAreFinite, ChargesAdd, StoreAssumption DEF BytesCharge
<1>3. TablesCharge(AccountedTables, sharedRows) \in Nat
  <2>1. AccountedTables \in SUBSET Addr /\ Charged(sharedRows) \in SUBSET RowAddr
    BY <1>1 DEF AccountedTables, Accounts, ChargeType, Charged
  <2>2. /\ TableCharge * Cardinality(AccountedTables) \in Nat
        /\ RowCharge * Cardinality(Charged(sharedRows)) \in Nat
    BY <2>1, AddressesAreFinite, ChargesAdd, StoreAssumption
  <2> QED BY <2>2 DEF TablesCharge
<1> QED BY <1>1, <1>2, <1>3 DEF Accounts, Accounted, ChargeType

\* Once the queue is drained the accounts are those of the resident payloads.
LEMMA DrainSettles ==
  ASSUME Ownership, Accounts
  PROVE  /\ DrainedRows = RowRefs(rows, ResidentTables)
         /\ DrainedBytes = BytesCharge + TablesCharge(ResidentTables, DrainedRows)
         /\ TablesCharge(ResidentTables, DrainedRows) \in Nat
         /\ DrainedBytes \in Nat
<1> DEFINE released == ReleasedCharge(sharedRows, droppedTables)
           kept == TablesCharge(ResidentTables, RowRefs(rows, ResidentTables))
           all == TablesCharge(AccountedTables, sharedRows)
<1>1. /\ ResidentTables \in SUBSET Addr /\ ResidentTables \cap droppedTables = {}
      /\ BytesCharge \in Nat /\ droppedBytes \in Nat /\ droppedTables \in SUBSET Addr
      /\ sharedRows = RowRefs(rows, ResidentTables \cup droppedTables)
      /\ residentBytes = BytesCharge + droppedBytes + all
  BY AccountTypes DEF Accounts, ChargeType, Accounted, AccountedTables
<1>2. /\ DrainedRows = RowRefs(rows, ResidentTables)
      /\ kept \in Nat /\ released \in Nat /\ all = kept + released
  BY <1>1, ReleaseCharges DEF DrainedRows, AccountedTables
<1>3. DrainedBytes = SaturatingSub(residentBytes, droppedBytes + released)
  BY DEF DrainedBytes
<1> HIDE DEF released, kept, all
<1>4. DrainedBytes = BytesCharge + kept
  BY <1>1, <1>2, <1>3 DEF SaturatingSub
<1> QED BY <1>1, <1>2, <1>4 DEF kept

\* The pass begins with the queue drained.
LEMMA PassBeginAccounts == ASSUME Ownership, Accounts, PassBegin PROVE Accounts'
<1>1. /\ residentBytes' = DrainedBytes /\ sharedRows' = DrainedRows
      /\ droppedBytes' = 0 /\ droppedTables' = {}
      /\ UNCHANGED <<rows, resident, tables>>
  BY DEF PassBegin, EmptyQueue, heapVars, entryVars
<1>2. /\ ByteEntries' = ByteEntries /\ AccountedTables' = ResidentTables
  BY <1>1 DEF ByteEntries, ResidentTables, AccountedTables
<1>3. ChargeType' /\ QueueIsOwnerless'
  BY <1>1 DEF Accounts, ChargeType, QueueIsOwnerless
<1>4. sharedRows' = RowRefs(rows', AccountedTables')
  BY <1>1, <1>2, DrainSettles
<1>5. residentBytes' = BytesCharge' + droppedBytes' + TablesCharge(AccountedTables', sharedRows')
  <2>1. BytesCharge' = BytesCharge
    BY <1>2 DEF BytesCharge
  <2> QED BY <2>1, <1>1, <1>2, DrainSettles, AccountTypes
<1> QED BY <1>3, <1>4, <1>5 DEF Accounts, Accounted

\* One byte payload more, or fewer.
LEMMA ByteSizes ==
  ASSUME NEW E \in SUBSET Entry, NEW e \in Entry
  PROVE  /\ ByteCharge * Cardinality(E) \in Nat
         /\ e \in E => ByteCharge * Cardinality(E) = ByteCharge * Cardinality(E \ {e}) + ByteCharge
         /\ e \notin E => ByteCharge * Cardinality(E \cup {e}) = ByteCharge * Cardinality(E) + ByteCharge
<1>1. IsFiniteSet(E) /\ Cardinality(E) \in Nat /\ Cardinality(E \ {e}) \in Nat
  BY AddressesAreFinite
<1>2. \A n \in Nat : ByteCharge * n \in Nat /\ ByteCharge * (n + 1) = ByteCharge * n + ByteCharge
  BY ChargesAdd, StoreAssumption
<1>3. e \in E => Cardinality(E) = Cardinality(E \ {e}) + 1
  <2>1. IsFiniteSet(E \ {e})
    BY <1>1, FS_RemoveElement
  <2>2. Cardinality((E \ {e}) \cup {e}) = Cardinality(E \ {e}) + 1
    BY <2>1, FS_AddElement
  <2>3. e \in E => (E \ {e}) \cup {e} = E
    OBVIOUS
  <2> QED BY <2>2, <2>3
<1>4. e \notin E => Cardinality(E \cup {e}) = Cardinality(E) + 1
  BY <1>1, FS_AddElement
<1> QED BY <1>1, <1>2, <1>3, <1>4

\* The victim's charge leaves with it.
LEMMA PassEvictAccounts ==
  ASSUME Ownership, Accounts, NEW e \in Entry, PassEvict(e)
  PROVE  Accounts'
<1>1. PICK a \in Addr : a = resident[e]
  <2>1. resident[e] # Nil
    BY DEF PassEvict, Victim, Evictable
  <2> QED BY <2>1 DEF Ownership, OwnType
<1>2. /\ resident' = [resident EXCEPT ![e] = Nil]
      /\ sharedRows' = WithoutTables(sharedRows, IF e \in tables THEN {a} ELSE {})
      /\ residentBytes' = SaturatingSub(residentBytes,
             IF e \in tables THEN ReleasedCharge(sharedRows, {a}) ELSE ByteCharge)
      /\ UNCHANGED <<rows, tables, droppedBytes, droppedTables>>
  BY <1>1 DEF PassEvict, heapVars
<1>3. /\ resident \in [Entry -> Addr \cup {Nil}] /\ tables \subseteq Entry
      /\ \A f \in Entry \ {e} : resident[f] # a
      /\ a \notin droppedTables /\ a # Nil
  BY <1>1, StoreAssumption, OwnerIsUnique DEF OneOwner, Ownership, OwnType, Accounts, QueueIsOwnerless
<1>4. ChargeType' /\ QueueIsOwnerless'
  <2>1. Nil \notin droppedTables
    BY StoreAssumption DEF Accounts, ChargeType
  <2> QED BY <1>2, <1>3, <2>1 DEF Accounts, ChargeType, QueueIsOwnerless
<1>5. CASE e \in tables
  <2>1. ResidentTables' = ResidentTables \ {a} /\ a \in ResidentTables /\ ByteEntries' = ByteEntries
    BY <1>1, <1>2, <1>3, <1>5 DEF ResidentTables, ByteEntries
  <2>2. /\ AccountedTables' = AccountedTables \ {a}
        /\ AccountedTables = (AccountedTables \ {a}) \cup {a}
        /\ AccountedTables \ {a} \in SUBSET Addr
    BY <1>2, <1>3, <2>1, AccountTypes DEF AccountedTables, Accounts, ChargeType
  <2> DEFINE Keep == AccountedTables \ {a}
             kept == TablesCharge(Keep, RowRefs(rows, Keep))
             released == ReleasedCharge(sharedRows, {a})
  <2>3. /\ WithoutTables(sharedRows, {a}) = RowRefs(rows, Keep)
        /\ kept \in Nat /\ released \in Nat
        /\ TablesCharge(AccountedTables, sharedRows) = kept + released
    <3>1. Keep \cap {a} = {} /\ {a} \in SUBSET Addr
      OBVIOUS
    <3>2. sharedRows = RowRefs(rows, Keep \cup {a})
      BY <2>2 DEF Accounts, Accounted
    <3> HIDE DEF Keep
    <3> QED BY <2>2, <3>1, <3>2, ReleaseCharges DEF Keep
  <2>4. residentBytes' = BytesCharge + droppedBytes + kept
    <3>1. residentBytes' = SaturatingSub(residentBytes, released)
      BY <1>2, <1>5
    <3>2. residentBytes = BytesCharge + droppedBytes + TablesCharge(AccountedTables, sharedRows)
      BY DEF Accounts, Accounted
    <3>3. droppedBytes \in Nat
      BY DEF Accounts, ChargeType
    <3> HIDE DEF kept, released
    <3> QED BY <2>3, <3>1, <3>2, <3>3, AccountTypes DEF SaturatingSub
  <2>5. sharedRows' = RowRefs(rows', AccountedTables') /\ BytesCharge' = BytesCharge
    BY <1>2, <1>5, <2>1, <2>2, <2>3 DEF BytesCharge
  <2>6. residentBytes' = BytesCharge' + droppedBytes' + TablesCharge(AccountedTables', sharedRows')
    BY <1>2, <2>2, <2>4, <2>5
  <2> QED BY <1>4, <2>5, <2>6 DEF Accounts, Accounted
<1>6. CASE e \notin tables
  <2>1. ResidentTables' = ResidentTables /\ ByteEntries' = ByteEntries \ {e} /\ e \in ByteEntries
    BY <1>1, <1>2, <1>3, <1>6 DEF ResidentTables, ByteEntries
  <2>2. AccountedTables' = AccountedTables /\ AccountedTables \in SUBSET Addr
    BY <1>2, <2>1, AccountTypes DEF AccountedTables, Accounts, ChargeType
  <2>3. sharedRows' = sharedRows
    <3>1. sharedRows = RowRefs(rows, AccountedTables \cup {}) /\ AccountedTables \cup {} = AccountedTables
      BY DEF Accounts, Accounted
    <3>2. WithoutTables(sharedRows, {}) = RowRefs(rows, AccountedTables)
      BY <2>2, <3>1, ReleaseCharges
    <3> QED BY <1>2, <1>6, <3>2 DEF Accounts, Accounted
  <2>4. BytesCharge = BytesCharge' + ByteCharge /\ BytesCharge' \in Nat
    <3>1. ByteEntries \in SUBSET Entry /\ ByteEntries \ {e} \in SUBSET Entry
      BY DEF ByteEntries
    <3> QED BY <2>1, <3>1, ByteSizes DEF BytesCharge
  <2>5. residentBytes' = BytesCharge' + droppedBytes + TablesCharge(AccountedTables, sharedRows)
    <3>1. residentBytes' = SaturatingSub(residentBytes, ByteCharge)
      BY <1>2, <1>6
    <3>2. residentBytes = BytesCharge + droppedBytes + TablesCharge(AccountedTables, sharedRows)
      BY DEF Accounts, Accounted
    <3>3. droppedBytes \in Nat
      BY DEF Accounts, ChargeType
    <3> QED BY <2>4, <3>1, <3>2, <3>3, AccountTypes, StoreAssumption DEF SaturatingSub
  <2>6. residentBytes' = BytesCharge' + droppedBytes' + TablesCharge(AccountedTables', sharedRows')
    BY <1>2, <2>2, <2>3, <2>5
  <2>7. sharedRows' = RowRefs(rows', AccountedTables')
    BY <1>2, <2>2, <2>3 DEF Accounts, Accounted
  <2> QED BY <1>4, <2>6, <2>7 DEF Accounts, Accounted
<1> QED BY <1>5, <1>6

\* A resident payload more, over drained accounts, at an address nobody owns.
LEMMA ResidentAdded ==
  ASSUME Ownership, Accounts, NEW e \in Entry, NEW a \in Addr, NEW R \in SUBSET RowAddr,
         resident[e] = Nil, \A f \in Entry : resident[f] # a,
         resident' = [resident EXCEPT ![e] = a], rows' = [rows EXCEPT ![a] = R],
         droppedBytes' = 0, droppedTables' = {},
         \A f \in Entry \ {e} : f \in tables' <=> f \in tables,
         tables' \subseteq Entry,
         IF e \in tables'
         THEN /\ residentBytes' = DrainedBytes + AddedCharge(DrainedRows, R)
              /\ sharedRows' = WithTable(DrainedRows, R)
         ELSE residentBytes' = DrainedBytes + ByteCharge /\ sharedRows' = DrainedRows
  PROVE  Accounts'
<1>1. resident \in [Entry -> Addr \cup {Nil}] /\ tables \subseteq Entry /\ a # Nil
  BY StoreAssumption DEF Ownership, OwnType
<1>2. ChargeType' /\ QueueIsOwnerless'
  BY DEF Accounts, ChargeType, QueueIsOwnerless
<1>3. ResidentTables \in SUBSET Addr /\ a \notin ResidentTables /\ rows \in [Addr -> SUBSET RowAddr]
  <2>1. ResidentTables \in SUBSET Addr
    BY AccountTypes
  <2>2. a \notin ResidentTables
    BY <1>1 DEF ResidentTables
  <2>3. rows \in [Addr -> SUBSET RowAddr]
    BY DEF Accounts, ChargeType
  <2> QED BY <2>1, <2>2, <2>3
<1>4. rows' \in [Addr -> SUBSET RowAddr] /\ rows'[a] = R /\ a \in Addr \ ResidentTables
  BY <1>3
<1>5. DrainedRows = RowRefs(rows', ResidentTables)
  <2>1. \A T \in SUBSET (Addr \ {a}) : RowRefs(rows', T) = RowRefs(rows, T)
    <3>1. ASSUME NEW T \in SUBSET (Addr \ {a}), NEW r \in RowAddr
          PROVE  {b \in T : r \in rows'[b]} = {b \in T : r \in rows[b]}
      BY <1>3, <3>1
    <3> QED BY <3>1 DEF RowRefs
  <2>2. ResidentTables \in SUBSET (Addr \ {a})
    BY <1>3
  <2> QED BY <2>1, <2>2, DrainSettles
<1>6. CASE e \in tables'
  <2>1. ResidentTables' = ResidentTables \cup {a}
    <3>1. \A f \in Entry \ {e} : resident'[f] = resident[f]
      BY <1>1
    <3>2. resident'[e] = a
      BY <1>1
    <3> QED BY <1>1, <1>6, <3>1, <3>2 DEF ResidentTables
  <2>2. ByteEntries' = ByteEntries
    BY <1>1, <1>6 DEF ByteEntries
  <2>3. AccountedTables' = ResidentTables \cup {a} /\ BytesCharge' = BytesCharge
    BY <2>1, <2>2 DEF AccountedTables, BytesCharge
  <2>4. /\ WithTable(DrainedRows, R) = RowRefs(rows', ResidentTables \cup {a})
        /\ TablesCharge(ResidentTables \cup {a}, WithTable(DrainedRows, R))
             = TablesCharge(ResidentTables, DrainedRows) + AddedCharge(DrainedRows, R)
        /\ AddedCharge(DrainedRows, R) \in Nat
    BY <1>3, <1>4, <1>5, AddCharges
  <2>5. sharedRows' = RowRefs(rows', AccountedTables')
    BY <1>6, <2>3, <2>4
  <2>6. residentBytes' = BytesCharge' + droppedBytes' + TablesCharge(AccountedTables', sharedRows')
    <3>1. /\ residentBytes' = DrainedBytes + AddedCharge(DrainedRows, R)
          /\ sharedRows' = WithTable(DrainedRows, R)
      BY <1>6
    <3>2. TablesCharge(AccountedTables', sharedRows')
            = TablesCharge(ResidentTables, DrainedRows) + AddedCharge(DrainedRows, R)
      BY <2>3, <2>4, <3>1
    <3> QED BY <2>3, <2>4, <3>1, <3>2, DrainSettles, AccountTypes
  <2> QED BY <1>2, <2>5, <2>6 DEF Accounts, Accounted
<1>7. CASE e \notin tables'
  <2>1. ResidentTables' = ResidentTables
    BY <1>1, <1>7 DEF ResidentTables
  <2>2. ByteEntries' = ByteEntries \cup {e} /\ e \notin ByteEntries
    BY <1>1, <1>7 DEF ByteEntries
  <2>3. AccountedTables' = ResidentTables /\ BytesCharge' = BytesCharge + ByteCharge
    <3>1. ByteEntries \in SUBSET Entry
      BY DEF ByteEntries
    <3> QED BY <2>1, <2>2, <3>1, ByteSizes DEF AccountedTables, BytesCharge
  <2>4. sharedRows' = DrainedRows /\ residentBytes' = DrainedBytes + ByteCharge
    BY <1>7
  <2>5. sharedRows' = RowRefs(rows', AccountedTables')
    BY <1>5, <2>3, <2>4
  <2>6. residentBytes' = BytesCharge' + droppedBytes' + TablesCharge(AccountedTables', sharedRows')
    <3>1. TablesCharge(AccountedTables', sharedRows') = TablesCharge(ResidentTables, DrainedRows)
      BY <2>3, <2>4
    <3> QED BY <2>3, <2>4, <3>1, DrainSettles, AccountTypes, StoreAssumption
  <2> QED BY <1>2, <2>5, <2>6 DEF Accounts, Accounted
<1> QED BY <1>6, <1>7

\* A payload's kind and value wait in the queue once its entry is gone.
LEMMA DropAccounts ==
  ASSUME Ownership, Accounts, NEW e \in Entry, EntryDropped(e) \/ EntryKept,
         UNCHANGED <<rows, residentBytes, sharedRows>>
  PROVE  Accounts'
<1>1. CASE EntryKept
  BY <1>1, AccountsStay DEF EntryKept, chargeVars
<1>2. CASE EntryDropped(e)
  <2>1. /\ resident' = [resident EXCEPT ![e] = Nil] /\ tables' = tables \ {e}
        /\ IF resident[e] = Nil
           THEN UNCHANGED <<droppedBytes, droppedTables>>
           ELSE IF e \in tables
           THEN droppedTables' = droppedTables \cup {resident[e]} /\ UNCHANGED droppedBytes
           ELSE droppedBytes' = droppedBytes + ByteCharge /\ UNCHANGED droppedTables
    BY <1>2 DEF EntryDropped
  <2>2. resident \in [Entry -> Addr \cup {Nil}] /\ tables \subseteq Entry /\ Nil \notin Addr
    BY StoreAssumption DEF Ownership, OwnType
  <2>3. /\ droppedTables \subseteq Addr /\ droppedBytes \in Nat
        /\ rows \in [Addr -> SUBSET RowAddr]
        /\ \A f \in Entry : resident[f] \notin droppedTables
        /\ sharedRows = RowRefs(rows, AccountedTables)
        /\ residentBytes = BytesCharge + droppedBytes + TablesCharge(AccountedTables, sharedRows)
    BY DEF Accounts, ChargeType, QueueIsOwnerless, Accounted
  <2>4. \A f \in Entry \ {e} : resident[e] # Nil => resident[f] # resident[e]
    BY OwnerIsUnique DEF OneOwner
  <2>5. ChargeType' /\ QueueIsOwnerless'
    BY <2>1, <2>2, <2>3, <2>4, StoreAssumption DEF ChargeType, QueueIsOwnerless
  <2>6. AccountedTables' = AccountedTables
    <3>1. CASE resident[e] # Nil /\ e \in tables
      <4>1. ResidentTables' = ResidentTables \ {resident[e]} /\ resident[e] \in ResidentTables
        BY <2>1, <2>2, <2>4, <3>1 DEF ResidentTables
      <4> QED BY <2>1, <3>1, <4>1 DEF AccountedTables
    <3>2. CASE ~(resident[e] # Nil /\ e \in tables)
      <4>1. ResidentTables' = ResidentTables
        BY <2>1, <2>2, <3>2 DEF ResidentTables
      <4> QED BY <2>1, <3>2, <4>1 DEF AccountedTables
    <3> QED BY <3>1, <3>2
  <2>7. BytesCharge' + droppedBytes' = BytesCharge + droppedBytes
    <3>1. ByteEntries \in SUBSET Entry /\ ByteEntries \ {e} \in SUBSET Entry
      BY DEF ByteEntries
    <3>2. CASE resident[e] # Nil /\ e \notin tables
      <4>1. ByteEntries' = ByteEntries \ {e} /\ e \in ByteEntries
        BY <2>1, <2>2, <3>2 DEF ByteEntries
      <4>2. /\ BytesCharge = BytesCharge' + ByteCharge /\ BytesCharge' \in Nat
        BY <3>1, <4>1, ByteSizes DEF BytesCharge
      <4>3. droppedBytes' = droppedBytes + ByteCharge
        BY <2>1, <3>2
      <4> QED BY <2>3, <4>2, <4>3, StoreAssumption
    <3>3. CASE ~(resident[e] # Nil /\ e \notin tables)
      <4>1. ByteEntries' = ByteEntries
        BY <2>1, <2>2, <3>3 DEF ByteEntries
      <4>2. droppedBytes' = droppedBytes
        BY <2>1, <3>3
      <4> QED BY <4>1, <4>2 DEF BytesCharge
    <3> QED BY <3>2, <3>3
  <2>8. sharedRows' = RowRefs(rows', AccountedTables')
    BY <2>3, <2>6
  <2>9. residentBytes' = BytesCharge' + droppedBytes' + TablesCharge(AccountedTables', sharedRows')
    BY <2>3, <2>6, <2>7
  <2> QED BY <2>5, <2>8, <2>9 DEF Accounts, Accounted
<1> QED BY <1>1, <1>2

\* Drained accounts, and the owners as they were.
LEMMA DrainedAccounts ==
  ASSUME Ownership, Accounts, residentBytes' = DrainedBytes, sharedRows' = DrainedRows,
         droppedBytes' = 0, droppedTables' = {}, UNCHANGED <<rows, resident, tables>>
  PROVE  Accounts'
<1>1. /\ BytesCharge' = BytesCharge /\ AccountedTables' = ResidentTables
  BY DEF BytesCharge, ByteEntries, ResidentTables, AccountedTables
<1>2. ChargeType' /\ QueueIsOwnerless'
  BY DEF Accounts, ChargeType, QueueIsOwnerless
<1>3. sharedRows' = RowRefs(rows', AccountedTables')
  BY <1>1, DrainSettles
<1>4. residentBytes' = BytesCharge' + droppedBytes' + TablesCharge(AccountedTables', sharedRows')
  BY <1>1, DrainSettles, AccountTypes
<1> QED BY <1>2, <1>3, <1>4 DEF Accounts, Accounted

\* A published payload is charged.
LEMMA PublishNewAccounts ==
  ASSUME Ownership, Accounts, NEW e \in Entry, NEW a \in Addr, PublishNew(e, a)
  PROVE  Accounts'
<1>1. /\ Published(a) = {} /\ e \notin used
      /\ resident' = [resident EXCEPT ![e] = a] /\ UNCHANGED rows
      /\ droppedBytes' = 0 /\ droppedTables' = {}
      /\ IF rows[a] = {}
         THEN /\ tables' = tables
              /\ residentBytes' = DrainedBytes + ByteCharge
              /\ sharedRows' = DrainedRows
         ELSE /\ tables' = tables \cup {e}
              /\ residentBytes' = DrainedBytes + AddedCharge(DrainedRows, rows[a])
              /\ sharedRows' = WithTable(DrainedRows, rows[a])
  BY DEF PublishNew, FreshIds, EmptyQueue
<1>2. resident[e] = Nil /\ e \notin tables
  BY <1>1 DEF Ownership, Identified, NothingLeft
<1>3. \A f \in Entry : resident[f] # a
  BY <1>1, StoreAssumption DEF Published, Ownership, Mapped, NothingLeft
<1>4. rows' = [rows EXCEPT ![a] = rows[a]] /\ rows[a] \in SUBSET RowAddr
  BY <1>1 DEF Accounts, ChargeType
<1>5. /\ \A f \in Entry \ {e} : f \in tables' <=> f \in tables
      /\ tables' \subseteq Entry
      /\ e \in tables' <=> rows[a] # {}
  BY <1>1, <1>2 DEF Ownership, OwnType
<1> QED BY <1>1, <1>2, <1>3, <1>4, <1>5, ResidentAdded

\* A reloaded payload is charged again, with the rows it brings.
LEMMA LeaseReloadAccounts ==
  ASSUME Ownership, Accounts, NEW e \in Entry, NEW l \in Lease, NEW a \in Addr,
         NEW R \in SUBSET RowAddr, LeaseReload(e, l, a, R)
  PROVE  Accounts'
<1>1. /\ ~LiveAddr(a) /\ resident[e] = Nil
      /\ resident' = [resident EXCEPT ![e] = a] /\ rows' = [rows EXCEPT ![a] = R]
      /\ UNCHANGED tables /\ droppedBytes' = 0 /\ droppedTables' = {}
      /\ IF e \in tables
         THEN /\ residentBytes' = DrainedBytes + AddedCharge(DrainedRows, R)
              /\ sharedRows' = WithTable(DrainedRows, R)
         ELSE /\ residentBytes' = DrainedBytes + ByteCharge
              /\ sharedRows' = DrainedRows
  BY DEF LeaseReload, EmptyQueue
<1>2. \A f \in Entry : resident[f] # a
  BY <1>1, DeadIsFree
<1>3. tables' \subseteq Entry
  BY <1>1 DEF Ownership, OwnType
<1> QED BY <1>1, <1>2, <1>3, ResidentAdded

\* A computation takes an address that no charged table is at.
LEMMA AllocateAccounts ==
  ASSUME Ownership, Accounts, NEW a \in Addr, NEW R \in SUBSET RowAddr, Allocate(a, R)
  PROVE  Accounts'
<1>1. /\ ~LiveAddr(a) /\ rows' = [rows EXCEPT ![a] = R]
      /\ UNCHANGED <<resident, tables, residentBytes, sharedRows, droppedBytes, droppedTables>>
  BY DEF Allocate, entryVars, stateVars
<1>2. a \notin AccountedTables
  BY <1>1 DEF LiveAddr, HeldOutside, AccountedTables, ResidentTables, Ownership, OwnType
<1>3. rows \in [Addr -> SUBSET RowAddr]
  BY DEF Accounts, ChargeType
<1>4. AccountedTables' = AccountedTables /\ BytesCharge' = BytesCharge
  BY <1>1 DEF AccountedTables, ResidentTables, BytesCharge, ByteEntries
<1>5. RowRefs(rows', AccountedTables) = RowRefs(rows, AccountedTables)
  <2>1. ASSUME NEW r \in RowAddr
        PROVE  {b \in AccountedTables : r \in rows'[b]} = {b \in AccountedTables : r \in rows[b]}
    <3>1. AccountedTables \subseteq Addr
      BY AccountTypes DEF AccountedTables, Accounts, ChargeType
    <3> QED BY <1>1, <1>2, <1>3, <3>1
  <2> QED BY <2>1 DEF RowRefs
<1>6. ChargeType' /\ QueueIsOwnerless'
  BY <1>1, <1>3 DEF Accounts, ChargeType, QueueIsOwnerless
<1>7. sharedRows' = RowRefs(rows', AccountedTables')
  BY <1>1, <1>4, <1>5 DEF Accounts, Accounted
<1>8. residentBytes' = BytesCharge' + droppedBytes' + TablesCharge(AccountedTables', sharedRows')
  BY <1>1, <1>4 DEF Accounts, Accounted
<1> QED BY <1>6, <1>7, <1>8 DEF Accounts, Accounted

\* Every step keeps the accounts.
LEMMA AccountsStep == ASSUME Ownership, Accounts, [Next]_vars PROVE Accounts'
<1>1. CASE PassBegin
  BY <1>1, PassBeginAccounts
<1>2. ASSUME NEW e \in Entry, PassEvict(e) PROVE Accounts'
  BY <1>2, PassEvictAccounts
<1>3. ASSUME NEW a \in Addr, PublishAgain(a) PROVE Accounts'
  BY <1>3, DrainedAccounts DEF PublishAgain, EmptyQueue
<1>4. ASSUME NEW e \in Entry, NEW a \in Addr, PublishNew(e, a) PROVE Accounts'
  BY <1>4, PublishNewAccounts
<1>5. ASSUME NEW e \in Entry, DropHandle(e) PROVE Accounts'
  <2>1. (EntryDropped(e) \/ EntryKept) /\ UNCHANGED <<rows, residentBytes, sharedRows>>
    BY <1>5 DEF DropHandle, heapVars
  <2> QED BY <2>1, DropAccounts
<1>6. ASSUME NEW l \in Lease, DropLease(l) PROVE Accounts'
  <2>1. leases[l] # Nil /\ leases[l].entry \in Entry
    BY <1>6 DEF DropLease, Ownership, OwnType, Leases
  <2>2. /\ EntryDropped(leases[l].entry) \/ EntryKept
        /\ UNCHANGED <<rows, residentBytes, sharedRows>>
    BY <1>6 DEF DropLease, heapVars
  <2> QED BY <2>1, <2>2, DropAccounts
<1>7. ASSUME NEW e \in Entry, NEW l \in Lease, NEW a \in Addr, NEW R \in SUBSET RowAddr,
             LeaseReload(e, l, a, R)
      PROVE  Accounts'
  BY <1>7, LeaseReloadAccounts
<1>8. ASSUME NEW a \in Addr, NEW R \in SUBSET RowAddr, Allocate(a, R) PROVE Accounts'
  BY <1>8, AllocateAccounts
<1>9. ASSUME \/ PassEnd \/ \E e \in Entry : PassPutFails(e) \/ CloneHandle(e) \/ MarkCold(e)
             \/ \E e \in Entry : LeaseTakesError(e) \/ LeaseReloadFails(e)
             \/ \E e \in Entry, l \in Lease : LeaseResident(e, l)
      PROVE  Accounts'
  BY <1>9, AccountsStay
     DEF PassEnd, PassPutFails, CloneHandle, MarkCold, LeaseTakesError, LeaseReloadFails,
         LeaseResident, chargeVars, heapVars, entryVars, stateVars
<1>10. ASSUME \/ \E a \in Addr : ReleaseArc(a)
              \/ \E l \in Lease : Share(l)
              \/ \E b \in Budgets : SetBudget(b)
              \/ EnforceBudget \/ EvictUnpinned \/ BeginRequest \/ EndRequest
       PROVE  Accounts'
  BY <1>10, AccountsStay
     DEF ReleaseArc, Share, SetBudget, EnforceBudget, EvictUnpinned, BeginRequest, EndRequest,
         Enforced, chargeVars, heapVars, entryVars, stateVars
<1>11. CASE UNCHANGED vars
  BY <1>11, AccountsStay DEF vars, chargeVars, heapVars, entryVars, stateVars
<1> QED BY <1>1, <1>2, <1>3, <1>4, <1>5, <1>6, <1>7, <1>8, <1>9, <1>10, <1>11 DEF Next

\* An empty store charges nothing.
LEMMA InitAccounts == ASSUME Init PROVE Accounts
<1>1. /\ rows = [a \in Addr |-> {}] /\ resident = [e \in Entry |-> Nil] /\ tables = {}
      /\ residentBytes = 0 /\ sharedRows = [r \in RowAddr |-> 0]
      /\ droppedBytes = 0 /\ droppedTables = {}
  BY DEF Init
<1>2. ChargeType /\ QueueIsOwnerless
  BY <1>1 DEF ChargeType, QueueIsOwnerless
<1>3. AccountedTables = {} /\ ByteEntries = {} /\ Charged(sharedRows) = {}
  BY <1>1 DEF AccountedTables, ResidentTables, ByteEntries, Charged
<1>4. Cardinality({}) = 0 /\ TableCharge * 0 = 0 /\ RowCharge * 0 = 0 /\ ByteCharge * 0 = 0
  BY FS_EmptySet, StoreAssumption
<1>5. residentBytes = BytesCharge + droppedBytes + TablesCharge(AccountedTables, sharedRows)
  BY <1>1, <1>3, <1>4 DEF BytesCharge, TablesCharge
<1>6. sharedRows = RowRefs(rows, AccountedTables)
  <2>1. \A r \in RowAddr : {a \in {} : r \in rows[a]} = {}
    OBVIOUS
  <2> QED BY <1>1, <1>3, <1>4, <2>1 DEF RowRefs
<1> QED BY <1>2, <1>5, <1>6 DEF Accounts, Accounted

\* The accounts of the store, in every reachable state.
THEOREM AccountsHold == Spec => []Accounts
<1>1. Init => Accounts
  BY InitAccounts
<1>2. Ownership /\ Accounts /\ [Next]_vars => Accounts'
  BY AccountsStep
<1> QED BY <1>1, <1>2, OwnershipHolds, PTL DEF Spec

\* Every resident or queued payload is charged once, and every row once
\* however many tables hold it (add_row_footprint, remove_row_footprint).
THEOREM ChargesAreExact == Spec => []ChargesMatch
BY AccountsMatch, AccountsHold, OwnershipHolds, PTL

-----------------------------------------------------------------------------
(* What stays over the budget. *)

PassType ==
  /\ arcs \in [Addr -> Nat]
  /\ before \subseteq Entry \X Entry
  /\ cold \subseteq Entry
  /\ stalledAt \in Nat \cup {Nil}
  /\ budget \in Budgets
  /\ failures \in 0..MaxFailures
  /\ silent \in BOOLEAN

NoneEvictable == \A e \in Entry : ~Evictable(e)
NoLease == \A l \in Lease : leases[l] = Nil

\* No pass has begun that would look at the stall.
BetweenPasses == pass = Nil \/ ~pass.begun

\* Residency only falls through the queue, which ends a stall, or in a pass.
StallIsFloor == BetweenPasses /\ stalledAt # Nil => residentBytes >= stalledAt

\* While residency is where the stall was, there is still nothing to evict.
StallIsFutile ==
  BetweenPasses /\ ~silent /\ stalledAt # Nil => residentBytes > stalledAt \/ NoneEvictable

Pinning == StallIsFloor /\ StallIsFutile /\ OverBudgetIsPinned

\* The facts the argument about the pass uses.
Store == Ownership /\ Accounts /\ Bracket /\ PassType

\* A pass writes nobody out who was not evictable before, unless a reference goes.
LEMMA EvictableOnly ==
  ASSUME Ownership, Accounts, NEW e \in Entry, NEW a \in Addr, a = resident[e],
         resident'[e] = a, (Evictable(e))', (Alive(e))' => Alive(e),
         arcs[a] > 0 => arcs'[a] > 0, LeasesAt(a) # {} => (LeasesAt(a))' # {}
  PROVE  Evictable(e)
<1>1. a \notin droppedTables
  BY DEF Accounts, QueueIsOwnerless
<1>2. (Alive(e))' /\ ~(HeldOutside(a))'
  BY DEF Evictable, HeldOutside, LeasesAt
<1>3. ~(arcs'[a] > 0) /\ (LeasesAt(a))' = {}
  BY <1>2 DEF HeldOutside
<1>4. ~HeldOutside(a)
  BY <1>1, <1>3 DEF HeldOutside
<1>5. a # Nil
  BY StoreAssumption
<1> QED BY <1>2, <1>4, <1>5 DEF Evictable

\* Steps that leave handles, leases, values and their holders alone, or drop some.
LEMMA NothingNewEvictable ==
  ASSUME Ownership, Accounts, Ownership',
         \A e \in Entry : resident'[e] \in {resident[e], Nil},
         \A e \in Entry : (Alive(e))' => Alive(e),
         \A a \in Addr : arcs[a] > 0 => arcs'[a] > 0,
         \A a \in Addr : LeasesAt(a) # {} => (LeasesAt(a))' # {},
         NoneEvictable
  PROVE  NoneEvictable'
<1>1. SUFFICES ASSUME NEW e \in Entry, (Evictable(e))' PROVE FALSE
  BY DEF NoneEvictable
<1>2. resident'[e] # Nil
  BY <1>1 DEF Evictable
<1>3. resident'[e] = resident[e] /\ resident[e] \in Addr
  BY <1>2 DEF Ownership, OwnType
<1>4. Evictable(e)
  BY <1>1, <1>3, EvictableOnly
<1> QED BY <1>4 DEF NoneEvictable

\* Steps between passes that make nothing evictable, or say so.
LEMMA QuietStep ==
  ASSUME Pinning, UNCHANGED <<residentBytes, stalledAt, budget, pass>>,
         ~silent' => ~silent, NoLease' => NoLease,
         NoneEvictable /\ ~silent' => NoneEvictable'
  PROVE  Pinning'
<1>1. BetweenPasses' = BetweenPasses
  BY DEF BetweenPasses
<1>2. StallIsFloor'
  BY <1>1 DEF Pinning, StallIsFloor
<1>3. StallIsFutile'
  BY <1>1 DEF Pinning, StallIsFutile
<1>4. OverBudgetIsPinned'
  BY DEF Pinning, OverBudgetIsPinned, NoLease, NoneEvictable
<1> QED BY <1>2, <1>3, <1>4 DEF Pinning

\* Steps that call for a pass and forget the stall.
LEMMA CallsForPass ==
  ASSUME pass' \in Passes, stalledAt' = Nil
  PROVE  Pinning'
<1>1. pass' # Nil
  BY NilAssumption
<1> QED BY <1>1 DEF Pinning, StallIsFloor, StallIsFutile, OverBudgetIsPinned

\* An empty queue leaves the accounts as they are.
LEMMA NothingDrained ==
  ASSUME Ownership, Accounts, QueueEmpty
  PROVE  DrainedBytes = residentBytes
<1>1. AccountedTables = ResidentTables /\ droppedBytes = 0
  BY DEF AccountedTables, QueueEmpty
<1>2. DrainedRows = sharedRows
  BY <1>1, DrainSettles DEF Accounts, Accounted
<1> QED BY <1>1, <1>2, DrainSettles, AccountTypes DEF Accounts, Accounted

\* What is left of a stall after the queue was drained.
LEMMA StallDrained ==
  ASSUME Store, DrainedStall # Nil
  PROVE  DrainedStall = stalledAt /\ DrainedBytes = residentBytes
BY NothingDrained DEF Store, DrainedStall

\* The pass begins, or finds nothing to do.
LEMMA PassBeginPins == ASSUME Store, Store', Pinning, PassBegin PROVE Pinning'
<1>1. /\ pass \in Passes /\ ~pass.begun /\ residentBytes' = DrainedBytes
      /\ stalledAt' = DrainedStall
      /\ UNCHANGED <<arcs, handles, resident, leases, budget>>
  BY DEF PassBegin, heapVars, entryVars, Store, Bracket, ErrType
<1>2. CASE ~NothingToDo(pass.all, DrainedBytes, DrainedStall)
  <2>1. pass' = [pass EXCEPT !.begun = TRUE]
    BY <1>2 DEF PassBegin
  <2>2. pass' \in Passes /\ pass'.begun
    BY <1>1, <2>1 DEF Passes
  <2>3. pass' # Nil
    BY <2>2, NilAssumption
  <2> QED BY <2>2, <2>3
         DEF Pinning, StallIsFloor, StallIsFutile, OverBudgetIsPinned, BetweenPasses
<1>3. CASE NothingToDo(pass.all, DrainedBytes, DrainedStall)
  <2>1. silent' = silent
    BY <1>3 DEF PassBegin
  <2>2. NoneEvictable => NoneEvictable'
    <3>1. /\ \A e \in Entry : (Alive(e))' = Alive(e)
          /\ \A a \in Addr : (LeasesAt(a))' = LeasesAt(a)
      BY <1>1 DEF Alive, LeasesOf, LeasesAt
    <3> QED BY <1>1, <3>1, NothingNewEvictable DEF Store
  <2>3. StallIsFloor'
    BY <1>1, StallDrained DEF Pinning, StallIsFloor, BetweenPasses
  <2>4. StallIsFutile'
    BY <1>1, <2>1, <2>2, StallDrained DEF Pinning, StallIsFutile, BetweenPasses
  <2>5. ASSUME budget > 0, DrainedBytes > budget, ~silent PROVE NoneEvictable
    <3>1. DrainedStall # Nil /\ DrainedBytes <= DrainedStall
      <4>1. budget \in Nat /\ DrainedBytes \in Nat
        BY DrainSettles, StoreAssumption DEF Store, PassType
      <4> QED BY <1>3, <2>5, <4>1 DEF NothingToDo
    <3>2. residentBytes <= stalledAt /\ stalledAt # Nil
      BY <3>1, StallDrained
    <3>3. residentBytes \in Nat /\ stalledAt \in Nat
      BY <3>2, AccountTypes DEF Store, PassType
    <3> QED BY <1>1, <2>5, <3>2, <3>3 DEF Pinning, StallIsFutile, BetweenPasses
  <2>6. OverBudgetIsPinned'
    BY <1>1, <2>1, <2>2, <2>5 DEF OverBudgetIsPinned, NoneEvictable
  <2> QED BY <2>3, <2>4, <2>6 DEF Pinning
<1> QED BY <1>2, <1>3

\* The pass ends with nothing to evict, within the budget, or at a failure.
LEMMA PassEndPins ==
  ASSUME Store, Store', Pinning, PassEnd \/ \E e \in Entry : PassPutFails(e)
  PROVE  Pinning'
<1>1. /\ pass' = Nil /\ stalledAt' = StallAfter
      /\ UNCHANGED <<arcs, handles, resident, leases, budget, residentBytes, droppedTables>>
  BY DEF PassEnd, PassPutFails, heapVars, entryVars
<1>2. residentBytes \in Nat
  BY AccountTypes DEF Store
<1>3. StallIsFloor'
  BY <1>1, <1>2 DEF StallIsFloor, StallAfter
<1>4. CASE PassEnd
  <2>1. residentBytes > budget => NoneEvictable
    BY <1>4 DEF PassEnd, WantsMore, NoneEvictable
  <2>2. NoneEvictable' = NoneEvictable
    BY <1>1 DEF NoneEvictable, Evictable, Alive, LeasesOf, HeldOutside, LeasesAt
  <2>3. StallIsFutile'
    BY <1>1, <2>1, <2>2 DEF StallIsFutile, StallAfter
  <2>4. OverBudgetIsPinned'
    BY <1>1, <2>1, <2>2 DEF OverBudgetIsPinned, NoneEvictable
  <2> QED BY <1>3, <2>3, <2>4 DEF Pinning
<1>5. CASE \E e \in Entry : PassPutFails(e)
  <2>1. silent' = TRUE
    BY <1>5 DEF PassPutFails
  <2> QED BY <1>3, <2>1 DEF Pinning, StallIsFutile, OverBudgetIsPinned
<1> QED BY <1>4, <1>5

\* A shared reference that is not the last one outside frees nothing.
LEMMA HolderLeaves ==
  ASSUME Ownership, Accounts, PassType, Ownership', NEW a \in Addr, arcs[a] > 0,
         ~LastOutside(a), arcs' = [arcs EXCEPT ![a] = @ - 1], UNCHANGED resident,
         \A e \in Entry : (Alive(e))' => Alive(e),
         \A b \in Addr : (LeasesAt(b))' = LeasesAt(b),
         NoneEvictable
  PROVE  NoneEvictable'
<1>1. /\ arcs'[a] = arcs[a] - 1 /\ arcs[a] \in Nat
      /\ \A b \in Addr \ {a} : arcs'[b] = arcs[b]
  BY DEF PassType
<1>2. CASE arcs[a] # 1
  <2>1. \A b \in Addr : arcs[b] > 0 => arcs'[b] > 0
    BY <1>1, <1>2
  <2> QED BY <2>1, NothingNewEvictable
<1>3. CASE LeasesAt(a) # {}
  <2>1. SUFFICES ASSUME NEW e \in Entry, (Evictable(e))' PROVE FALSE
    BY DEF NoneEvictable
  <2>2. resident[e] \in Addr /\ resident'[e] = resident[e]
    BY <2>1 DEF Evictable, Ownership, OwnType
  <2>3. resident[e] # a
    BY <1>3, <2>1, <2>2 DEF Evictable, HeldOutside
  <2>4. Evictable(e)
    BY <1>1, <2>1, <2>2, <2>3, EvictableOnly
  <2> QED BY <2>4 DEF NoneEvictable
<1> QED BY <1>2, <1>3 DEF LastOutside

\* What a payload is charged is never less than its kind's charge.
LEMMA AddedAtLeast ==
  ASSUME NEW s, NEW R \in SUBSET RowAddr
  PROVE  AddedCharge(s, R) \in Nat /\ AddedCharge(s, R) >= TableCharge
<1>1. Cardinality(R \ Charged(s)) \in Nat
  <2>1. R \ Charged(s) \in SUBSET RowAddr
    OBVIOUS
  <2> QED BY <2>1, AddressesAreFinite
<1>2. RowCharge * Cardinality(R \ Charged(s)) \in Nat
  BY <1>1, ChargesAdd, StoreAssumption
<1> QED BY <1>2, StoreAssumption DEF AddedCharge

\* Payloads are only ever published with the charge of their kind.
LEMMA PublishNewPins ==
  ASSUME Store, Store', Pinning, ByteCharge > 0, TableCharge > 0,
         NEW e \in Entry, NEW a \in Addr, PublishNew(e, a)
  PROVE  Pinning'
<1>1. /\ pass = Nil /\ stalledAt' = DrainedStall /\ UNCHANGED silent
      /\ pass' = [all |-> FALSE, latch |-> TRUE, begun |-> FALSE]
      /\ residentBytes' \in {DrainedBytes + ByteCharge, DrainedBytes + AddedCharge(DrainedRows, rows[a])}
  BY DEF PublishNew, Trim
<1>2. pass' # Nil
  <2>1. pass' \in Passes
    BY <1>1 DEF Passes
  <2> QED BY <2>1, NilAssumption
<1>3. residentBytes' > DrainedBytes /\ DrainedBytes \in Nat /\ residentBytes' \in Nat
  <2>1. DrainedBytes \in Nat
    BY DrainSettles DEF Store
  <2>2. AddedCharge(DrainedRows, rows[a]) \in Nat /\ AddedCharge(DrainedRows, rows[a]) >= TableCharge
    <3>1. rows[a] \in SUBSET RowAddr
      BY DEF Store, Accounts, ChargeType
    <3> QED BY <3>1, AddedAtLeast
  <2> QED BY <1>1, <2>1, <2>2, StoreAssumption
<1>4. stalledAt' # Nil => residentBytes' > stalledAt'
  <2>1. SUFFICES ASSUME stalledAt' # Nil PROVE residentBytes' > stalledAt'
    OBVIOUS
  <2>2. stalledAt' = stalledAt /\ DrainedBytes = residentBytes /\ stalledAt \in Nat
    BY <1>1, <2>1, StallDrained DEF Store, PassType
  <2>3. residentBytes >= stalledAt /\ residentBytes \in Nat
    BY <1>1, <2>1, <2>2, AccountTypes DEF Pinning, StallIsFloor, BetweenPasses, Store
  <2> QED BY <1>3, <2>2, <2>3
<1>5. stalledAt' # Nil => residentBytes' >= stalledAt'
  <2>1. stalledAt' \in Nat \cup {Nil}
    BY DEF Store, PassType
  <2> QED BY <1>3, <1>4, <2>1
<1> QED BY <1>2, <1>4, <1>5 DEF Pinning, StallIsFloor, StallIsFutile, OverBudgetIsPinned

\* A reload charges too, and its lease keeps the store from the question.
LEMMA LeaseReloadPins ==
  ASSUME Store, Store', Pinning, ByteCharge > 0, TableCharge > 0,
         NEW e \in Entry, NEW l \in Lease, NEW a \in Addr, NEW R \in SUBSET RowAddr,
         LeaseReload(e, l, a, R)
  PROVE  Pinning'
<1>1. /\ pass = Nil /\ stalledAt' = DrainedStall /\ UNCHANGED <<silent, pass>>
      /\ leases' = [leases EXCEPT ![l] = [entry |-> e, addr |-> a]]
      /\ residentBytes' \in {DrainedBytes + ByteCharge, DrainedBytes + AddedCharge(DrainedRows, R)}
  BY DEF LeaseReload, CanLease
<1>2. residentBytes' > DrainedBytes /\ DrainedBytes \in Nat /\ residentBytes' \in Nat
  <2>1. DrainedBytes \in Nat
    BY DrainSettles DEF Store
  <2>2. AddedCharge(DrainedRows, R) \in Nat /\ AddedCharge(DrainedRows, R) >= TableCharge
    BY AddedAtLeast
  <2> QED BY <1>1, <2>1, <2>2, StoreAssumption
<1>3. stalledAt' # Nil => residentBytes' > stalledAt' /\ residentBytes' >= stalledAt'
  <2>1. SUFFICES ASSUME stalledAt' # Nil
                 PROVE  residentBytes' > stalledAt' /\ residentBytes' >= stalledAt'
    OBVIOUS
  <2>2. stalledAt' = stalledAt /\ DrainedBytes = residentBytes /\ stalledAt \in Nat
    BY <1>1, <2>1, StallDrained DEF Store, PassType
  <2>3. residentBytes >= stalledAt
    BY <1>1, <2>1, <2>2 DEF Pinning, StallIsFloor, BetweenPasses
  <2> QED BY <1>2, <2>2, <2>3
<1>4. leases'[l] # Nil
  <2>1. [entry |-> e, addr |-> a] \in Leases
    BY DEF Leases
  <2> QED BY <1>1, <2>1, NilAssumption DEF Store, Ownership, OwnType
<1> QED BY <1>3, <1>4 DEF Pinning, StallIsFloor, StallIsFutile, OverBudgetIsPinned

\* A value published again loses one reference from outside.
LEMMA PublishAgainPins ==
  ASSUME Store, Store', Pinning, NEW a \in Addr, PublishAgain(a)
  PROVE  Pinning'
<1>1. /\ pass = Nil /\ arcs[a] > 0 /\ arcs' = [arcs EXCEPT ![a] = @ - 1]
      /\ silent' = (silent \/ LastOutside(a))
      /\ residentBytes' = DrainedBytes /\ stalledAt' = DrainedStall
      /\ pass' = [all |-> FALSE, latch |-> TRUE, begun |-> FALSE]
      /\ UNCHANGED <<resident, leases>>
  BY DEF PublishAgain, Trim
<1>2. pass' # Nil
  <2>1. pass' \in Passes
    BY <1>1 DEF Passes
  <2> QED BY <2>1, NilAssumption
<1>3. StallIsFloor'
  BY <1>1, StallDrained DEF Pinning, StallIsFloor, BetweenPasses
<1>4. PICK e \in Published(a) : handles' = [handles EXCEPT ![e] = @ + 1]
  BY DEF PublishAgain
<1>5. \A f \in Entry : (Alive(f))' => Alive(f)
  <2>1. Alive(e)
    BY <1>4 DEF Published
  <2> QED BY <1>1, <1>4, <2>1 DEF Alive, LeasesOf, Published, Store, Ownership, OwnType
<1>6. ~silent' /\ NoneEvictable => NoneEvictable'
  <2>1. SUFFICES ASSUME ~silent', NoneEvictable PROVE NoneEvictable'
    OBVIOUS
  <2>2. ~LastOutside(a)
    BY <1>1, <2>1
  <2>3. \A b \in Addr : (LeasesAt(b))' = LeasesAt(b)
    BY <1>1 DEF LeasesAt
  <2> QED BY <1>1, <1>5, <2>1, <2>2, <2>3, HolderLeaves DEF Store
<1>7. StallIsFutile'
  BY <1>1, <1>6, StallDrained DEF Pinning, StallIsFutile, BetweenPasses
<1> QED BY <1>2, <1>3, <1>7 DEF Pinning, OverBudgetIsPinned

\* A shared reference is let go: if it is the last, the store is not told.
LEMMA ReleaseArcPins ==
  ASSUME Store, Store', Pinning, NEW a \in Addr, ReleaseArc(a)
  PROVE  Pinning'
<1>1. /\ arcs[a] > 0 /\ arcs' = [arcs EXCEPT ![a] = @ - 1]
      /\ silent' = (silent \/ LastOutside(a))
      /\ UNCHANGED <<resident, handles, leases, residentBytes, stalledAt, budget, pass>>
  BY DEF ReleaseArc, entryVars, stateVars
<1>2. /\ \A e \in Entry : (Alive(e))' => Alive(e)
      /\ \A b \in Addr : (LeasesAt(b))' = LeasesAt(b)
      /\ NoLease' => NoLease
  BY <1>1 DEF Alive, LeasesOf, LeasesAt, NoLease
<1>3. NoneEvictable /\ ~silent' => NoneEvictable'
  BY <1>1, <1>2, HolderLeaves DEF Store
<1> QED BY <1>1, <1>2, <1>3, QuietStep

\* Steps that let references come and entries go.
LEMMA HoldersPin ==
  ASSUME Store, Store', Pinning,
         \/ \E a \in Addr : \E R \in SUBSET RowAddr : Allocate(a, R)
         \/ \E l \in Lease : Share(l)
         \/ \E e \in Entry : CloneHandle(e) \/ MarkCold(e)
         \/ \E e \in Entry : LeaseTakesError(e) \/ LeaseReloadFails(e)
         \/ EndRequest
  PROVE  Pinning'
<1>1. /\ UNCHANGED <<resident, leases, residentBytes, stalledAt, budget, pass, silent>>
  BY DEF Allocate, Share, CloneHandle, MarkCold, LeaseTakesError, LeaseReloadFails, EndRequest,
         entryVars, stateVars
<1>2. \A b \in Addr : arcs[b] > 0 => arcs'[b] > 0
  <2>1. arcs \in [Addr -> Nat]
    BY DEF Store, PassType
  <2>2. CASE \E a \in Addr : \E R \in SUBSET RowAddr : Allocate(a, R)
    BY <2>1, <2>2 DEF Allocate
  <2>3. CASE \E l \in Lease : Share(l)
    BY <2>1, <2>3 DEF Share
  <2>4. CASE UNCHANGED arcs
    BY <2>4
  <2> QED BY <2>2, <2>3, <2>4
          DEF CloneHandle, MarkCold, LeaseTakesError, LeaseReloadFails, EndRequest, heapVars
<1>3. \A e \in Entry : (Alive(e))' => Alive(e)
  <2>1. CASE UNCHANGED handles
    BY <1>1, <2>1 DEF Alive, LeasesOf
  <2>2. ASSUME NEW e \in Entry, CloneHandle(e) PROVE \A f \in Entry : (Alive(f))' => Alive(f)
    BY <1>1, <2>2 DEF CloneHandle, Alive, LeasesOf, Store, Ownership, OwnType
  <2> QED BY <2>1, <2>2
          DEF Allocate, Share, MarkCold, LeaseTakesError, LeaseReloadFails, EndRequest, entryVars
<1>4. \A b \in Addr : (LeasesAt(b))' = LeasesAt(b)
  BY <1>1 DEF LeasesAt
<1>5. NoneEvictable => NoneEvictable'
  BY <1>1, <1>2, <1>3, <1>4, NothingNewEvictable DEF Store
<1>6. NoLease' => NoLease
  BY <1>1 DEF NoLease
<1> QED BY <1>1, <1>5, <1>6, QuietStep

\* An entry that goes leaves nothing to evict.
LEMMA DropHandlePins ==
  ASSUME Store, Store', Pinning, NEW e \in Entry, DropHandle(e)
  PROVE  Pinning'
<1>1. UNCHANGED <<arcs, leases, residentBytes, stalledAt, budget, pass, silent>>
  BY DEF DropHandle, heapVars
<1>2. \A f \in Entry : (Alive(f))' => Alive(f)
  BY HandleGoes DEF Store
<1>3. \A f \in Entry : resident'[f] \in {resident[f], Nil}
  <2>1. EntryDropped(e) \/ EntryKept
    BY HandleGoes DEF Store
  <2> QED BY <2>1 DEF EntryDropped, EntryKept, Store, Ownership, OwnType
<1>4. \A b \in Addr : (LeasesAt(b))' = LeasesAt(b)
  BY <1>1 DEF LeasesAt
<1>5. NoneEvictable => NoneEvictable'
  BY <1>1, <1>2, <1>3, <1>4, NothingNewEvictable DEF Store
<1>6. NoLease' => NoLease
  BY <1>1 DEF NoLease
<1> QED BY <1>1, <1>5, <1>6, QuietStep

\* A lease holds one allocation more.
LEMMA LeaseResidentPins ==
  ASSUME Store, Store', Pinning, NEW e \in Entry, NEW l \in Lease, LeaseResident(e, l)
  PROVE  Pinning'
<1>1. /\ CanLease(e, l) /\ leases' = [leases EXCEPT ![l] = [entry |-> e, addr |-> resident[e]]]
      /\ UNCHANGED <<arcs, handles, resident, residentBytes, stalledAt, budget, pass, silent>>
  BY DEF LeaseResident, heapVars, stateVars
<1>2. \A f \in Entry : (Alive(f))' => Alive(f)
  BY <1>1 DEF Alive, LeasesOf, CanLease, Store, Ownership, OwnType
<1>3. \A b \in Addr : LeasesAt(b) # {} => (LeasesAt(b))' # {}
  <2>1. ASSUME NEW b \in Addr, NEW k \in LeasesAt(b) PROVE k \in (LeasesAt(b))'
    BY <1>1 DEF LeasesAt, CanLease, Store, Ownership, OwnType
  <2> QED BY <2>1
<1>4. NoneEvictable => NoneEvictable'
  BY <1>1, <1>2, <1>3, NothingNewEvictable DEF Store
<1>5. NoLease' => NoLease
  BY <1>1 DEF NoLease, CanLease, Store, Ownership, OwnType
<1> QED BY <1>1, <1>4, <1>5, QuietStep

\* Every step keeps what the pass may leave.
LEMMA PinningStep ==
  ASSUME ByteCharge > 0, TableCharge > 0, Store, Store', Pinning, [Next]_vars
  PROVE  Pinning'
<1>1. CASE PassBegin
  BY <1>1, PassBeginPins
<1>2. CASE PassEnd \/ \E e \in Entry : PassPutFails(e)
  BY <1>2, PassEndPins
<1>3. ASSUME NEW e \in Entry, PassEvict(e) PROVE Pinning'
  <2>1. pass # Nil /\ pass.begun /\ UNCHANGED pass
    BY <1>3 DEF PassEvict, PassActive
  <2> QED BY <2>1 DEF Pinning, StallIsFloor, StallIsFutile, OverBudgetIsPinned, BetweenPasses
<1>4. ASSUME NEW a \in Addr, PublishAgain(a) PROVE Pinning'
  BY <1>4, PublishAgainPins
<1>5. ASSUME NEW e \in Entry, NEW a \in Addr, PublishNew(e, a) PROVE Pinning'
  BY <1>5, PublishNewPins
<1>6. ASSUME NEW e \in Entry, DropHandle(e) PROVE Pinning'
  BY <1>6, DropHandlePins
<1>7. ASSUME NEW e \in Entry, NEW l \in Lease, LeaseResident(e, l) PROVE Pinning'
  BY <1>7, LeaseResidentPins
<1>8. ASSUME NEW e \in Entry, NEW l \in Lease, NEW a \in Addr, NEW R \in SUBSET RowAddr,
             LeaseReload(e, l, a, R)
      PROVE  Pinning'
  BY <1>8, LeaseReloadPins
<1>9. ASSUME NEW a \in Addr, ReleaseArc(a) PROVE Pinning'
  BY <1>9, ReleaseArcPins
<1>10. ASSUME \/ \E l \in Lease : DropLease(l)
              \/ \E b \in Budgets : SetBudget(b)
              \/ EnforceBudget \/ BeginRequest
       PROVE  Pinning'
  <2>1. stalledAt' = Nil /\ \E all, latch \in BOOLEAN : Trim(all, latch)
    BY <1>10 DEF DropLease, SetBudget, EnforceBudget, BeginRequest, Enforced
  <2>2. pass' \in Passes
    BY <2>1 DEF Trim, Passes
  <2> QED BY <2>1, <2>2, CallsForPass
<1>11. CASE EvictUnpinned
  <2>1. /\ pass = Nil /\ \E all, latch \in BOOLEAN : Trim(all, latch)
        /\ UNCHANGED <<arcs, handles, resident, leases, droppedTables, residentBytes, stalledAt,
                       silent>>
    BY <1>11 DEF EvictUnpinned, heapVars, entryVars, stateVars
  <2>2. pass' \in Passes
    BY <2>1 DEF Trim, Passes
  <2>3. pass' # Nil
    BY <2>2, NilAssumption
  <2>4. NoneEvictable' = NoneEvictable
    BY <2>1 DEF NoneEvictable, Evictable, Alive, LeasesOf, HeldOutside, LeasesAt
  <2>5. StallIsFloor' /\ StallIsFutile'
    BY <2>1, <2>4 DEF Pinning, StallIsFloor, StallIsFutile, BetweenPasses
  <2> QED BY <2>3, <2>5 DEF Pinning, OverBudgetIsPinned
<1>12. ASSUME \/ \E a \in Addr : \E R \in SUBSET RowAddr : Allocate(a, R)
              \/ \E l \in Lease : Share(l)
              \/ \E e \in Entry : CloneHandle(e) \/ MarkCold(e)
              \/ \E e \in Entry : LeaseTakesError(e) \/ LeaseReloadFails(e)
              \/ EndRequest
       PROVE  Pinning'
  BY <1>12, HoldersPin
<1>13. CASE UNCHANGED vars
  <2>1. UNCHANGED <<arcs, handles, resident, leases, droppedTables, residentBytes, stalledAt,
                    silent, budget, pass>>
    BY <1>13 DEF vars, heapVars, entryVars, stateVars
  <2>2. NoneEvictable' = NoneEvictable /\ NoLease' = NoLease
    BY <2>1 DEF NoneEvictable, Evictable, Alive, LeasesOf, HeldOutside, LeasesAt, NoLease
  <2> QED BY <2>1, <2>2, QuietStep
<1> QED BY <1>1, <1>2, <1>3, <1>4, <1>5, <1>6, <1>7, <1>8, <1>9, <1>10, <1>11, <1>12, <1>13
        DEF Next

\* The pass's own variables keep their shape.
LEMMA PassTypeStep ==
  ASSUME Ownership, Accounts, PassType, [Next]_vars
  PROVE  PassType'
<1>1. residentBytes \in Nat /\ DrainedStall \in Nat \cup {Nil} /\ StallAfter \in Nat \cup {Nil}
  BY AccountTypes DEF PassType, DrainedStall, StallAfter
<1>2. arcs' \in [Addr -> Nat]
  <2>1. \/ UNCHANGED arcs
        \/ \E a \in Addr : arcs' = [arcs EXCEPT ![a] = 1]
        \/ \E a \in Addr : arcs' = [arcs EXCEPT ![a] = @ + 1]
        \/ \E a \in Addr : arcs[a] > 0 /\ arcs' = [arcs EXCEPT ![a] = @ - 1]
    <3>1. ASSUME NEW l \in Lease, Share(l)
          PROVE  \E a \in Addr : arcs' = [arcs EXCEPT ![a] = @ + 1]
      <4>1. leases[l].addr \in Addr
        BY <3>1 DEF Share, Ownership, OwnType, Leases
      <4> QED BY <3>1, <4>1 DEF Share
    <3> QED BY <3>1
            DEF Next, PassBegin, PassEnd, PassEvict, PassPutFails, Allocate, ReleaseArc,
                PublishAgain, PublishNew, CloneHandle, DropHandle, MarkCold, LeaseTakesError,
                LeaseReloadFails, LeaseResident, LeaseReload, DropLease, SetBudget,
                EnforceBudget, Enforced, EvictUnpinned, BeginRequest, EndRequest, heapVars, vars
  <2> QED BY <2>1 DEF PassType
<1>3. before' \subseteq Entry \X Entry /\ cold' \subseteq Entry
  <2>1. \/ UNCHANGED <<before, cold>>
        \/ UNCHANGED before /\ \E e \in Entry : cold' = cold \cup {e}
        \/ \E e \in Entry : Touch(e) \/ EntryDropped(e)
    <3>1. ASSUME NEW l \in Lease, DropLease(l)
          PROVE  UNCHANGED <<before, cold>> \/ \E e \in Entry : EntryDropped(e)
      <4>1. leases[l].entry \in Entry
        BY <3>1 DEF DropLease, Ownership, OwnType, Leases
      <4> QED BY <3>1, <4>1 DEF DropLease, EntryKept
    <3> QED BY <3>1
            DEF Next, PassBegin, PassEnd, PassEvict, PassPutFails, Allocate, ReleaseArc,
                PublishAgain, PublishNew, CloneHandle, DropHandle, MarkCold, LeaseTakesError,
                LeaseReloadFails, LeaseResident, LeaseReload, Share, SetBudget, EntryKept,
                EnforceBudget, Enforced, EvictUnpinned, BeginRequest, EndRequest, entryVars, vars
  <2> QED BY <2>1 DEF PassType, Touch, EntryDropped
<1>4. stalledAt' \in Nat \cup {Nil}
  <2>1. stalledAt' \in {stalledAt, DrainedStall, StallAfter, Nil}
    BY DEF Next, PassBegin, PassEnd, PassEvict, PassPutFails, Allocate, ReleaseArc,
           PublishAgain, PublishNew, CloneHandle, DropHandle, MarkCold, LeaseTakesError,
           LeaseReloadFails, LeaseResident, LeaseReload, DropLease, Share, SetBudget,
           EnforceBudget, Enforced, EvictUnpinned, BeginRequest, EndRequest, stateVars, vars
  <2> QED BY <1>1, <2>1 DEF PassType
<1>5. budget' \in Budgets
  BY DEF PassType, Next, PassBegin, PassEnd, PassEvict, PassPutFails, Allocate, ReleaseArc,
         PublishAgain, PublishNew, CloneHandle, DropHandle, MarkCold, LeaseTakesError,
         LeaseReloadFails, LeaseResident, LeaseReload, DropLease, Share, SetBudget,
         EnforceBudget, Enforced, EvictUnpinned, BeginRequest, EndRequest, stateVars, vars
<1>6. failures' \in 0..MaxFailures
  <2>1. failures' = failures \/ (failures < MaxFailures /\ failures' = failures + 1)
    BY DEF Next, PassBegin, PassEnd, PassEvict, PassPutFails, Allocate, ReleaseArc,
           PublishAgain, PublishNew, CloneHandle, DropHandle, MarkCold, LeaseTakesError,
           LeaseReloadFails, LeaseResident, LeaseReload, DropLease, Share, SetBudget,
           EnforceBudget, Enforced, EvictUnpinned, BeginRequest, EndRequest, vars
  <2> QED BY <2>1, StoreAssumption DEF PassType
<1>7. silent' \in BOOLEAN
  BY Zenon DEF PassType, Next, PassBegin, PassEnd, PassEvict, PassPutFails, Allocate, ReleaseArc,
         PublishAgain, PublishNew, CloneHandle, DropHandle, MarkCold, LeaseTakesError,
         LeaseReloadFails, LeaseResident, LeaseReload, DropLease, Share, SetBudget,
         EnforceBudget, Enforced, EvictUnpinned, BeginRequest, EndRequest, vars
<1> QED BY <1>2, <1>3, <1>4, <1>5, <1>6, <1>7 DEF PassType

\* What the store's variables hold, in every reachable state.
THEOREM StoreHolds == Spec => []Store
<1>1. Init => PassType
  <2>1. Init => /\ arcs \in [Addr -> Nat] /\ before \subseteq Entry \X Entry
                /\ cold \subseteq Entry /\ stalledAt \in Nat \cup {Nil} /\ budget \in Budgets
    BY DEF Init
  <2>2. Init => failures \in 0..MaxFailures
    BY StoreAssumption DEF Init
  <2>3. Init => silent \in BOOLEAN
    BY DEF Init
  <2> QED BY <2>1, <2>2, <2>3 DEF PassType
<1>2. Ownership /\ Accounts /\ PassType /\ [Next]_vars => PassType'
  BY PassTypeStep
<1>3. Spec => []PassType
  BY <1>1, <1>2, OwnershipHolds, AccountsHold, PTL DEF Spec
<1>4. Ownership /\ Accounts /\ Bracket /\ PassType => Store
  BY DEF Store
<1> QED BY <1>3, <1>4, OwnershipHolds, AccountsHold, BracketHolds, PTL

\* Every variable of the store keeps its type.
THEOREM TypeCorrect == Spec => []TypeOK
<1>1. Store => TypeOK
  <2> SUFFICES ASSUME Store PROVE TypeOK
    OBVIOUS
  <2>1. residentBytes \in Nat
    BY AccountTypes DEF Store
  <2>2. sharedRows \in [RowAddr -> Nat]
    <3>1. AccountedTables \in SUBSET Addr
      BY AccountTypes DEF AccountedTables, Store, Accounts, ChargeType
    <3>2. \A r \in RowAddr : Cardinality({a \in AccountedTables : r \in rows[a]}) \in Nat
      BY <3>1, AddressesAreFinite
    <3> QED BY <3>2 DEF Store, Accounts, Accounted, RowRefs
  <2> QED BY <2>1, <2>2
         DEF Store, Ownership, OwnType, Accounts, ChargeType, Bracket, ErrType, PassType, TypeOK
<1> QED BY <1>1, StoreHolds, PTL

\* Between calls and without a lease the store is over its budget only by
\* payloads somebody holds, as long as a payload is charged anything at all
\* (trim_locked, stalled_at).
THEOREM OverBudgetMeansPinned ==
  ASSUME ByteCharge > 0, TableCharge > 0
  PROVE  Spec => []OverBudgetIsPinned
<1>1. Init => Pinning
  BY DEF Init, Pinning, StallIsFloor, StallIsFutile, OverBudgetIsPinned, Evictable
<1>2. Store /\ Store' /\ Pinning /\ [Next]_vars => Pinning'
  BY PinningStep
<1>3. Pinning => OverBudgetIsPinned
  BY DEF Pinning
<1> QED BY <1>1, <1>2, <1>3, StoreHolds, PTL DEF Spec
=============================================================================

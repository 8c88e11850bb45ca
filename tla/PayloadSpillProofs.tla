------------------------- MODULE PayloadSpillProofs -------------------------
(***************************************************************************)
(* Proofs about the browser's spill storage, for any number of payloads of  *)
(* any length and any failed writes: whatever is allocated, cut, given back *)
(* and reset, no two payloads ever share a byte of the file, so the storage *)
(* keeps the contract of the backend.  And about the files of any number of *)
(* workers: no sweep takes the file of a worker that boots.                 *)
(***************************************************************************)
EXTENDS MCSpillStorage, SequenceTheorems, WellFoundedInduction, TLAPS

-----------------------------------------------------------------------------
(* The inductive invariant.                                                 *)

Beyond(r) == r.offset + r.length
Apart(r, s) == Beyond(r) <= s.offset \/ Beyond(s) <= r.offset

\* Regions end before e, and no byte is in two of them.
LiveTidy(rs, e) ==
  /\ \A a \in DOMAIN rs : rs[a] \in Region /\ Beyond(rs[a]) <= e
  /\ \A a, b \in DOMAIN rs : a # b => Apart(rs[a], rs[b])
FreeTidy(list, e) ==
  /\ list \in Seq(Region)
  /\ \A i \in 1..Len(list) : Beyond(list[i]) <= e
  /\ \A i, j \in 1..Len(list) : i # j => Apart(list[i], list[j])
LiveIsNotFree(rs, list) ==
  \A a \in DOMAIN rs, i \in 1..Len(list) : Apart(rs[a], list[i])

\* A region apart from all the others.
Fresh(r, rs, list) ==
  /\ \A a \in DOMAIN rs : Apart(r, rs[a])
  /\ \A i \in 1..Len(list) : Apart(r, list[i])

SpillInv ==
  /\ Live \subseteq Id /\ end \in Nat
  /\ LiveTidy(regions, end) /\ FreeTidy(free, end) /\ LiveIsNotFree(regions, free)
  /\ intact = Live
  /\ removed \cap Live = {}

-----------------------------------------------------------------------------
(* Regions.                                                                 *)

\* Regions that are apart share no byte.
LEMMA ApartIsDisjoint ==
  ASSUME NEW r \in Region, NEW n \in Nat, n <= r.length, NEW s \in Region, Apart(r, s)
  PROVE  Cells(s) \cap Cells([r EXCEPT !.length = n]) = {}
BY DEF Region, Apart, Beyond, Cells

\* A region given back keeps the free list tidy.
LEMMA GivenBack ==
  ASSUME NEW list, NEW e \in Nat, NEW rs, NEW r \in Region,
         FreeTidy(list, e), LiveIsNotFree(rs, list), Fresh(r, rs, list), Beyond(r) <= e
  PROVE  FreeTidy(Append(list, r), e) /\ LiveIsNotFree(rs, Append(list, r))
<1>1. list \in Seq(Region) /\ Len(list) \in Nat
  BY LenProperties DEF FreeTidy
<1>2. PICK n : n = Len(list)
  OBVIOUS
<1>3. PICK new : new = Append(list, r)
  OBVIOUS
<1>4. /\ new \in Seq(Region) /\ Len(new) = n + 1
      /\ \A i \in 1..n : new[i] = list[i]
      /\ new[n + 1] = r
  BY <1>1, <1>2, <1>3, AppendProperties
<1>5. \A i \in 1..Len(new) : (i \in 1..n /\ new[i] = list[i]) \/ (i = n + 1 /\ new[i] = r)
  <2>1. \A i \in 1..n + 1 : i \in 1..n \/ i = n + 1
    BY <1>1, <1>2
  <2> QED BY <1>4, <2>1
<1>6. \A i, j \in 1..Len(new) : i # j => Apart(new[i], new[j])
  <2>1. \A i \in 1..n : Apart(r, list[i]) /\ Apart(list[i], r)
    BY <1>2 DEF Fresh, Apart
  <2>2. \A i, j \in 1..n : i # j => Apart(list[i], list[j])
    BY <1>2 DEF FreeTidy
  <2>3. ASSUME NEW i \in 1..Len(new), NEW j \in 1..Len(new), i # j
        PROVE  Apart(new[i], new[j])
    <3>1. CASE i \in 1..n /\ new[i] = list[i] /\ j \in 1..n /\ new[j] = list[j]
      BY <2>2, <2>3, <3>1
    <3>2. CASE i = n + 1 /\ new[i] = r /\ j \in 1..n /\ new[j] = list[j]
      BY <2>1, <3>2
    <3>3. CASE i \in 1..n /\ new[i] = list[i] /\ j = n + 1 /\ new[j] = r
      BY <2>1, <3>3
    <3> QED BY <1>5, <2>3, <3>1, <3>2, <3>3
  <2> QED BY <2>3
<1>7. \A i \in 1..Len(new) : Beyond(new[i]) <= e
  BY <1>2, <1>5 DEF FreeTidy
<1>8. LiveIsNotFree(rs, new)
  BY <1>2, <1>5 DEF LiveIsNotFree, Fresh, Apart
<1> QED BY <1>3, <1>4, <1>6, <1>7, <1>8 DEF FreeTidy

\* Regions that end before the end of the file end before a later one.
LEMMA TidyToLaterEnd ==
  ASSUME NEW rs, NEW list, NEW e \in Nat, NEW f \in Nat, e <= f,
         LiveTidy(rs, e), FreeTidy(list, e)
  PROVE  LiveTidy(rs, f) /\ FreeTidy(list, f)
<1>1. \A a \in DOMAIN rs : Beyond(rs[a]) <= f
  <2>1. \A a \in DOMAIN rs : Beyond(rs[a]) \in Nat /\ Beyond(rs[a]) <= e
    BY DEF LiveTidy, Region, Beyond
  <2> QED BY <2>1
<1>2. \A i \in 1..Len(list) : Beyond(list[i]) <= f
  <2>1. \A i \in 1..Len(list) : list[i] \in Region
    BY ElementOfSeq DEF FreeTidy
  <2>2. \A i \in 1..Len(list) : Beyond(list[i]) \in Nat /\ Beyond(list[i]) <= e
    BY <2>1 DEF FreeTidy, Region, Beyond
  <2> QED BY <2>2
<1> QED BY <1>1, <1>2 DEF LiveTidy, FreeTidy

-----------------------------------------------------------------------------
(* Allocation.                                                              *)

\* Lengths, and places in the free list, are well ordered.
LEMMA NumbersWellOrdered ==
  \E R : IsWellFoundedOn(R, Nat) /\ \A t, m \in Nat : t < m => <<t, m>> \in R
<1>1. IsWellFoundedOn(OpToRel(<, Nat), Nat)
  BY NatLessThanWellFounded
<1>2. \A t, m \in Nat : t < m => <<t, m>> \in OpToRel(<, Nat)
  BY DEF OpToRel
<1> QED BY <1>1, <1>2, Zenon

LEMMA Smallest ==
  ASSUME NEW T, T \subseteq Nat, T # {}
  PROVE  \E m \in T : \A t \in T : m <= t
<1>1. PICK R : IsWellFoundedOn(R, Nat) /\ \A t, m \in Nat : t < m => <<t, m>> \in R
  BY NumbersWellOrdered
<1>2. \E m \in T : \A t \in T : ~(<<t, m>> \in R)
  <2>1. IsWellFoundedOn(R, Nat)
    BY <1>1
  <2> QED BY <2>1, WFMin, Zenon
<1>3. PICK m \in T : \A t \in T : ~(<<t, m>> \in R)
  BY <1>2
<1>4. \A t \in T : t \in Nat /\ m \in Nat /\ ~(t < m)
  BY <1>1, <1>3
<1>5. \A t \in T : m <= t
  BY <1>4
<1> QED BY <1>5

\* If a free region is large enough, the one chosen is.
LEMMA BestFits ==
  ASSUME free \in Seq(Region), NEW length, Fitting(length) # {}
  PROVE  BestFit(length) \in Fitting(length)
<1>1. \A i \in Fitting(length) : i \in Nat /\ free[i].length \in Nat
  <2>1. \A i \in DOMAIN free : i \in 1..Len(free) /\ free[i] \in Region
    BY LenProperties, ElementOfSeq
  <2> QED BY <2>1, LenProperties DEF Fitting, Region
<1>2. PICK lengths : lengths = {free[i].length : i \in Fitting(length)}
  OBVIOUS
<1>3. lengths \subseteq Nat /\ lengths # {}
  BY <1>1, <1>2
<1>4. PICK m \in lengths : \A t \in lengths : m <= t
  BY <1>3, Smallest
<1>5. PICK tight : tight = {i \in Fitting(length) : free[i].length = m}
  OBVIOUS
<1>6. tight \subseteq Nat /\ tight # {}
  BY <1>1, <1>2, <1>4, <1>5
<1>7. PICK i \in tight : \A j \in tight : i <= j
  BY <1>6, Smallest
<1>8. \A j \in Fitting(length) : m <= free[j].length
  BY <1>2, <1>4
<1>9. /\ i \in Fitting(length)
      /\ \A j \in Fitting(length) :
           \/ free[i].length < free[j].length
           \/ free[i].length = free[j].length /\ i <= j
  BY <1>1, <1>3, <1>5, <1>7, <1>8
<1> QED BY <1>9 DEF BestFit

\* The list without one place.
LEMMA PlaceRemoved ==
  ASSUME NEW S, NEW s \in Seq(S), NEW i \in 1..Len(s)
  PROVE  /\ RemoveAt(s, i) \in Seq(S) /\ Len(RemoveAt(s, i)) = Len(s) - 1
         /\ \A k \in 1..Len(s) - 1 : RemoveAt(s, i)[k] = s[IF k < i THEN k ELSE k + 1]
<1>0. Len(s) \in Nat /\ i \in Nat /\ \A k \in 1..Len(s) : s[k] \in S
  BY LenProperties, ElementOfSeq
<1>1. PICK front : front = SubSeq(s, 1, i - 1)
  OBVIOUS
<1>2. PICK back : back = SubSeq(s, i + 1, Len(s))
  OBVIOUS
<1>3. /\ front \in Seq(S) /\ Len(front) = i - 1
      /\ \A k \in 1..i - 1 : front[k] = s[k]
  <2>1. 1 \in Int /\ i - 1 \in Int /\ \A k \in 1..i - 1 : s[k] \in S
    BY <1>0
  <2>2. /\ front \in Seq(S) /\ Len(front) = (IF 1 <= i - 1 THEN i - 1 - 1 + 1 ELSE 0)
        /\ \A k \in 1..i - 1 - 1 + 1 : front[k] = s[1 + k - 1]
    BY <1>1, <2>1, SubSeqProperties
  <2> QED BY <1>0, <2>2
<1>4. /\ back \in Seq(S) /\ Len(back) = Len(s) - i
      /\ \A k \in 1..Len(s) - i : back[k] = s[i + k]
  <2>1. i + 1 \in Int /\ Len(s) \in Int /\ \A k \in i + 1..Len(s) : s[k] \in S
    BY <1>0
  <2>2. /\ back \in Seq(S)
        /\ Len(back) = (IF i + 1 <= Len(s) THEN Len(s) - (i + 1) + 1 ELSE 0)
        /\ \A k \in 1..Len(s) - (i + 1) + 1 : back[k] = s[i + 1 + k - 1]
    BY <1>2, <2>1, SubSeqProperties
  <2> QED BY <1>0, <2>2
<1>5. PICK joined : joined = front \o back
  OBVIOUS
<1>6. /\ joined \in Seq(S) /\ Len(joined) = Len(s) - 1
      /\ \A k \in 1..Len(s) - 1 :
           joined[k] = IF k <= i - 1 THEN front[k] ELSE back[k - (i - 1)]
  <2>1. /\ joined \in Seq(S) /\ Len(joined) = Len(front) + Len(back)
        /\ \A k \in 1..Len(front) + Len(back) :
             joined[k] = IF k <= Len(front) THEN front[k] ELSE back[k - Len(front)]
    BY <1>3, <1>4, <1>5, ConcatProperties
  <2> QED BY <1>0, <1>3, <1>4, <2>1
<1>7. ASSUME NEW k \in 1..Len(s) - 1
      PROVE  joined[k] = s[IF k < i THEN k ELSE k + 1]
  <2>1. CASE k < i
    BY <1>0, <1>3, <1>6, <2>1
  <2>2. CASE ~(k < i)
    <3>1. k - (i - 1) \in 1..Len(s) - i /\ i + (k - (i - 1)) = k + 1 /\ ~(k <= i - 1)
      BY <1>0, <2>2
    <3>2. joined[k] = back[k - (i - 1)]
      BY <1>6, <3>1
    <3>3. back[k - (i - 1)] = s[k + 1]
      BY <1>4, <3>1
    <3> QED BY <2>2, <3>2, <3>3
  <2> QED BY <2>1, <2>2
<1>8. RemoveAt(s, i) = joined
  BY <1>1, <1>2, <1>5 DEF RemoveAt
<1> QED BY <1>6, <1>7, <1>8

\* Cutting a region leaves a free list whose regions are regions or rests of
\* regions that were free, each of another one, and apart from what was cut.
LEMMA Cut ==
  ASSUME NEW e \in Nat, FreeTidy(free, e), NEW length \in Lengths,
         NEW i \in Fitting(length), NEW rs, LiveTidy(rs, e), LiveIsNotFree(rs, free),
         NEW r, r = [offset |-> free[i].offset, length |-> length],
         NEW list, list = FreeAfter(i, length)
  PROVE  /\ r \in Region /\ Beyond(r) <= e /\ Fresh(r, rs, list)
         /\ FreeTidy(list, e) /\ LiveIsNotFree(rs, list)
<1>1. /\ Len(free) \in Nat /\ DOMAIN free = 1..Len(free) /\ free \in Seq(Region)
      /\ \A k \in 1..Len(free) : free[k] \in Region
  BY LenProperties, ElementOfSeq DEF FreeTidy
<1>2. i \in 1..Len(free) /\ free[i].length >= length /\ length \in Nat \ {0}
  BY <1>1, SpillAssumption DEF Fitting, Lengths
<1>3. r \in Region /\ Beyond(r) <= e /\ r.offset = free[i].offset /\ r.length = length
  BY <1>1, <1>2 DEF Region, Beyond, FreeTidy
<1>4. \A a \in DOMAIN rs : rs[a] \in Region /\ Apart(rs[a], free[i])
  BY <1>2 DEF LiveTidy, LiveIsNotFree
<1>5. \A a \in DOMAIN rs : Apart(r, rs[a])
  BY <1>1, <1>2, <1>3, <1>4 DEF Apart, Beyond, Region
<1>6. \A k \in 1..Len(free) : k # i => Apart(r, free[k])
  <2>1. \A k \in 1..Len(free) : k # i => free[k] \in Region /\ Apart(free[i], free[k])
    BY <1>1, <1>2 DEF FreeTidy
  <2> QED BY <1>1, <1>2, <1>3, <2>1 DEF Apart, Beyond, Region
<1>7. CASE free[i].length > length
  <2>1. PICK rest : rest = [offset |-> free[i].offset + length, length |-> free[i].length - length]
    OBVIOUS
  <2>2. /\ rest \in Region /\ Beyond(rest) = Beyond(free[i])
        /\ rest.offset = Beyond(r) /\ free[i].offset <= rest.offset
    <3>1. /\ free[i].offset \in Nat /\ free[i].length \in Nat /\ length \in Nat
          /\ length < free[i].length
      BY <1>1, <1>2, <1>7 DEF Region
    <3>2. /\ free[i].offset + length \in Nat /\ free[i].length - length \in Nat \ {0}
          /\ (free[i].offset + length) + (free[i].length - length)
               = free[i].offset + free[i].length
      BY <3>1
    <3>3. rest.offset = free[i].offset + length /\ rest.length = free[i].length - length
      BY <2>1
    <3> QED BY <1>3, <2>1, <3>1, <3>2, <3>3 DEF Region, Beyond
  <2>3. /\ list \in Seq(Region) /\ Len(list) = Len(free)
        /\ \A k \in 1..Len(free) : list[k] = IF k = i THEN rest ELSE free[k]
    BY <1>1, <1>2, <1>7, <2>1, <2>2, ExceptSeq DEF FreeAfter, ReplaceAt
  <2>4. \A s \in Region : Apart(s, free[i]) => Apart(s, rest) /\ Apart(rest, s)
    BY <1>1, <1>2, <2>2 DEF Apart, Beyond, Region
  <2>5. Apart(r, rest)
    BY <2>2, <1>3 DEF Apart, Region, Beyond
  <2>6. Fresh(r, rs, list)
    BY <1>5, <1>6, <2>3, <2>5 DEF Fresh
  <2>7. LiveIsNotFree(rs, list)
    BY <1>4, <2>3, <2>4 DEF LiveIsNotFree
  <2>8. \A k \in 1..Len(list) : Beyond(list[k]) <= e
    BY <1>2, <2>2, <2>3 DEF FreeTidy
  <2>9. \A k, l \in 1..Len(list) : k # l => Apart(list[k], list[l])
    <3>1. \A k \in 1..Len(free) : k # i => free[k] \in Region /\ Apart(free[k], free[i])
      BY <1>1, <1>2 DEF FreeTidy
    <3>2. \A k \in 1..Len(free) : k # i => Apart(free[k], rest) /\ Apart(rest, free[k])
      BY <2>4, <3>1
    <3> QED BY <2>3, <3>2 DEF FreeTidy
  <2>10. FreeTidy(list, e)
    BY <2>3, <2>8, <2>9 DEF FreeTidy
  <2> QED BY <1>3, <2>6, <2>7, <2>10
<1>8. CASE ~(free[i].length > length)
  <2>1. /\ list \in Seq(Region) /\ Len(list) = Len(free) - 1
        /\ \A k \in 1..Len(free) - 1 : list[k] = free[IF k < i THEN k ELSE k + 1]
    BY <1>1, <1>2, <1>8, PlaceRemoved DEF FreeAfter
  <2>2. PICK was : was = [k \in 1..Len(free) - 1 |-> IF k < i THEN k ELSE k + 1]
    OBVIOUS
  <2>3. /\ \A k \in 1..Len(list) : was[k] \in 1..Len(free) /\ was[k] # i /\ list[k] = free[was[k]]
        /\ \A k, l \in 1..Len(list) : k # l => was[k] # was[l]
    <3>1. \A k \in 1..Len(list) :
            /\ was[k] = IF k < i THEN k ELSE k + 1
            /\ list[k] = free[was[k]] /\ k \in Nat /\ k <= Len(free) - 1
      <4>1. \A k \in 1..Len(free) - 1 : was[k] = IF k < i THEN k ELSE k + 1
        BY <2>2
      <4>2. \A k \in 1..Len(free) - 1 : list[k] = free[was[k]]
        BY <2>1, <4>1
      <4>3. \A k \in 1..Len(list) : k \in 1..Len(free) - 1 /\ k \in Nat /\ k <= Len(free) - 1
        BY <1>1, <2>1
      <4> QED BY <4>1, <4>2, <4>3
    <3>2. \A k \in 1..Len(list) : was[k] \in 1..Len(free) /\ was[k] # i
      BY <1>1, <1>2, <3>1
    <3>3. \A k, l \in 1..Len(list) : k # l => was[k] # was[l]
      <4>1. ASSUME NEW k \in 1..Len(list), NEW l \in 1..Len(list), was[k] = was[l]
            PROVE  k = l
        <5>1. k \in Nat /\ l \in Nat /\ i \in Nat
          BY <1>1, <1>2, <3>1
        <5>2. (IF k < i THEN k ELSE k + 1) = (IF l < i THEN l ELSE l + 1)
          BY <3>1, <4>1, Zenon
        <5> QED BY <5>1, <5>2
      <4> QED BY <4>1
    <3> QED BY <3>1, <3>2, <3>3
  <2>4. Fresh(r, rs, list)
    BY <1>5, <1>6, <2>3 DEF Fresh
  <2>5. LiveIsNotFree(rs, list)
    BY <2>3 DEF LiveIsNotFree
  <2>6. \A k \in 1..Len(list) : Beyond(list[k]) <= e
    BY <2>3 DEF FreeTidy
  <2>7. \A k, l \in 1..Len(list) : k # l => Apart(list[k], list[l])
    BY <2>3 DEF FreeTidy
  <2>8. FreeTidy(list, e)
    BY <2>1, <2>6, <2>7 DEF FreeTidy
  <2> QED BY <1>3, <2>4, <2>5, <2>8
<1> QED BY <1>7, <1>8

\* What is allocated is nobody's, and the rest stays tidy.
LEMMA AllocatedIsFresh ==
  ASSUME SpillInv, NEW length \in Lengths, NEW a, a = Allocated(length)
  PROVE  /\ a[1] \in Region /\ a[1].length = length /\ a[3] \in Nat /\ Beyond(a[1]) <= a[3]
         /\ Fresh(a[1], regions, a[2])
         /\ LiveTidy(regions, a[3]) /\ FreeTidy(a[2], a[3]) /\ LiveIsNotFree(regions, a[2])
<1>1. /\ LiveTidy(regions, end) /\ FreeTidy(free, end) /\ LiveIsNotFree(regions, free)
      /\ end \in Nat /\ free \in Seq(Region) /\ length \in Nat \ {0}
  BY SpillAssumption DEF SpillInv, FreeTidy, Lengths
<1>2. CASE Fitting(length) # {}
  <2>1. PICK i : i = BestFit(length)
    OBVIOUS
  <2>2. i \in Fitting(length)
    BY <1>1, <1>2, <2>1, BestFits
  <2>3. /\ a[1] = [offset |-> free[i].offset, length |-> length]
        /\ a[2] = FreeAfter(i, length) /\ a[3] = end
    BY <1>2, <2>1 DEF Allocated
  <2>4. /\ a[1] \in Region /\ Beyond(a[1]) <= end /\ Fresh(a[1], regions, a[2])
        /\ FreeTidy(a[2], end) /\ LiveIsNotFree(regions, a[2])
    BY <1>1, <2>2, <2>3, Cut
  <2> QED BY <1>1, <2>3, <2>4
<1>3. CASE Fitting(length) = {}
  <2>1. /\ a[1] = [offset |-> end, length |-> length]
        /\ a[2] = free /\ a[3] = end + length
    BY <1>3 DEF Allocated
  <2>2. /\ a[1] \in Region /\ a[1].length = length /\ a[3] \in Nat /\ Beyond(a[1]) <= a[3]
        /\ end <= a[3] /\ a[1].offset = end
    BY <1>1, <2>1 DEF Region, Beyond
  <2>3. Fresh(a[1], regions, a[2])
    BY <1>1, <2>1, <2>2 DEF Fresh, Apart, LiveTidy, FreeTidy
  <2> QED BY <1>1, <2>1, <2>2, <2>3, TidyToLaterEnd
<1> QED BY <1>2, <1>3

-----------------------------------------------------------------------------
(* Steps.                                                                   *)

\* A write into a fresh region, or into the first cells of one, spares every
\* payload.
LEMMA WriteSparesAll ==
  ASSUME SpillInv, NEW r \in Region, Fresh(r, regions, <<>>), NEW n \in 0..r.length
  PROVE  SparedBy([r EXCEPT !.length = n]) = Live
<1>1. n \in Nat /\ n <= r.length
  BY DEF Region
<1>2. \A a \in Live : regions[a] \in Region /\ Apart(r, regions[a])
  BY DEF SpillInv, LiveTidy, Fresh, Live
<1>3. \A a \in Live : Cells(regions[a]) \cap Cells([r EXCEPT !.length = n]) = {}
  BY <1>1, <1>2, ApartIsDisjoint
<1> QED BY <1>3 DEF SparedBy, SpillInv

\* A put adds a region that is apart from all others.
LEMMA PutKeepsInv ==
  ASSUME SpillInv, NEW id \in Id, NEW length \in Lengths, Put(id, length)
  PROVE  SpillInv' /\ id \notin Live /\ Live' = Live \cup {id} /\ removed' = removed
<1>1. PICK a : a = Allocated(length)
  OBVIOUS
<1>2. /\ a[1] \in Region /\ a[3] \in Nat /\ Beyond(a[1]) <= a[3]
      /\ Fresh(a[1], regions, a[2])
      /\ LiveTidy(regions, a[3]) /\ FreeTidy(a[2], a[3]) /\ LiveIsNotFree(regions, a[2])
  BY <1>1, AllocatedIsFresh
<1>3. /\ id \notin Live /\ id \notin removed /\ removed' = removed
      /\ regions' = [i \in Live \cup {id} |-> IF i = id THEN a[1] ELSE regions[i]]
      /\ free' = a[2] /\ end' = a[3] /\ intact' = SparedBy(a[1]) \cup {id}
  BY <1>1 DEF Put, MayPut
<1>4. /\ Live' = Live \cup {id} /\ regions'[id] = a[1]
      /\ \A b \in Live : regions'[b] = regions[b]
  BY <1>3 DEF Live
<1>5. SparedBy(a[1]) = Live
  <2>1. a[1] = [a[1] EXCEPT !.length = a[1].length] /\ a[1].length \in 0..a[1].length
    BY <1>2 DEF Region
  <2>2. Fresh(a[1], regions, <<>>)
    BY <1>2 DEF Fresh
  <2> QED BY <1>2, <2>1, <2>2, WriteSparesAll
<1>6. \A b \in Live : Apart(a[1], regions[b]) /\ Apart(regions[b], a[1])
  BY <1>2 DEF Fresh, Live, Apart
<1>7. LiveTidy(regions', end')
  <2>1. \A b \in Live' : regions'[b] \in Region /\ Beyond(regions'[b]) <= end'
    BY <1>2, <1>3, <1>4 DEF LiveTidy, Live
  <2>2. \A b, c \in Live' : b # c => Apart(regions'[b], regions'[c])
    BY <1>2, <1>4, <1>6 DEF LiveTidy, Live
  <2> QED BY <2>1, <2>2 DEF LiveTidy, Live
<1>8. LiveIsNotFree(regions', free')
  BY <1>2, <1>3, <1>4 DEF LiveIsNotFree, Fresh, Live
<1> QED BY <1>2, <1>3, <1>4, <1>5, <1>7, <1>8 DEF SpillInv

\* A failed put gives its region back, and has written over nobody.
LEMMA PutFailsKeepsInv ==
  ASSUME SpillInv, NEW id \in Id, NEW length \in Lengths, NEW written \in 0..length,
         PutFails(id, length, written)
  PROVE  SpillInv' /\ Live' = Live /\ removed' = removed
<1>1. PICK a : a = Allocated(length)
  OBVIOUS
<1>2. /\ a[1] \in Region /\ a[1].length = length /\ a[3] \in Nat /\ Beyond(a[1]) <= a[3]
      /\ Fresh(a[1], regions, a[2])
      /\ LiveTidy(regions, a[3]) /\ FreeTidy(a[2], a[3]) /\ LiveIsNotFree(regions, a[2])
  BY <1>1, AllocatedIsFresh
<1>3. /\ regions' = regions /\ removed' = removed /\ Live' = Live
      /\ free' = Append(a[2], a[1]) /\ end' = a[3]
      /\ intact' = SparedBy([a[1] EXCEPT !.length = written])
  BY <1>1 DEF PutFails, FreeAfterFailure, Live
<1>4. SparedBy([a[1] EXCEPT !.length = written]) = Live
  <2>1. Fresh(a[1], regions, <<>>)
    BY <1>2 DEF Fresh
  <2> QED BY <1>2, <2>1, WriteSparesAll
<1>5. FreeTidy(free', end') /\ LiveIsNotFree(regions', free')
  BY <1>2, <1>3, GivenBack
<1> QED BY <1>2, <1>3, <1>4, <1>5 DEF SpillInv

\* The last payload leaves an empty file.
LEMMA RemoveLastKeepsInv ==
  ASSUME SpillInv, NEW id \in Id, RemoveLast(id)
  PROVE  SpillInv' /\ id \in Live /\ Live' = Live \ {id} /\ removed' = removed \cup {id}
<1>1. Live' = {} /\ Live = {id}
  BY DEF RemoveLast, Live
<1>2. LiveTidy(regions', end') /\ LiveIsNotFree(regions', free')
  BY <1>1 DEF LiveTidy, LiveIsNotFree, Live
<1>3. FreeTidy(free', end')
  BY EmptySeq DEF RemoveLast, FreeTidy
<1> QED BY <1>1, <1>2, <1>3 DEF RemoveLast, SpillInv

\* The region of a payload that is removed is given back, or the file ends
\* where it began: nothing lies behind it.
LEMMA RemoveOneKeepsInv ==
  ASSUME SpillInv, NEW id \in Id, RemoveOne(id)
  PROVE  SpillInv' /\ id \in Live /\ Live' = Live \ {id} /\ removed' = removed \cup {id}
<1>1. /\ id \in Live /\ removed' = removed \cup {id} /\ intact' = intact \ {id}
      /\ Live' = Live \ {id} /\ \A b \in Live' : regions'[b] = regions[b]
  BY DEF RemoveOne, Without, Live
<1>2. PICK r : r = regions[id]
  OBVIOUS
<1>3. /\ r \in Region /\ Beyond(r) <= end /\ end \in Nat
      /\ \A b \in Live \ {id} : regions[b] \in Region /\ Beyond(regions[b]) <= end
                                /\ Apart(regions[b], r) /\ Apart(r, regions[b])
  BY <1>1, <1>2 DEF SpillInv, LiveTidy, Live
<1>4. /\ free \in Seq(Region) /\ Len(free) \in Nat
      /\ \A i \in 1..Len(free) : free[i] \in Region /\ Beyond(free[i]) <= end /\ Apart(r, free[i])
  BY <1>1, <1>2, ElementOfSeq, LenProperties DEF SpillInv, FreeTidy, LiveIsNotFree, Live
<1>5. LiveIsNotFree(regions', free) /\ \A b, c \in Live' : b # c => Apart(regions'[b], regions'[c])
  BY <1>1 DEF SpillInv, LiveTidy, LiveIsNotFree, Live
<1>6. CASE AtEnd(r)
  <2>1. end' = r.offset /\ free' = free /\ Beyond(r) = end
    BY <1>2, <1>6 DEF RemoveOne, AtEnd, Beyond
  <2>2. \A s \in Region : Apart(r, s) /\ Beyond(s) <= end => Beyond(s) <= r.offset
    BY <1>3, <2>1 DEF Region, Apart, Beyond
  <2>3. LiveTidy(regions', end')
    BY <1>1, <1>3, <1>5, <2>1, <2>2 DEF LiveTidy, Live
  <2>4. FreeTidy(free', end') /\ end' \in Nat
    BY <1>3, <1>4, <2>1, <2>2 DEF SpillInv, FreeTidy, Region
  <2> QED BY <1>1, <1>5, <2>1, <2>3, <2>4 DEF SpillInv
<1>7. CASE ~AtEnd(r)
  <2>1. end' = end /\ free' = Append(free, r)
    BY <1>2, <1>7 DEF RemoveOne
  <2>2. LiveTidy(regions', end)
    BY <1>1, <1>3, <1>5 DEF LiveTidy, Live
  <2>3. Fresh(r, regions', free)
    BY <1>1, <1>3, <1>4 DEF Fresh, Live
  <2>4. FreeTidy(free', end') /\ LiveIsNotFree(regions', free')
    BY <1>3, <1>5, <2>1, <2>3, GivenBack DEF SpillInv
  <2> QED BY <1>1, <1>3, <2>1, <2>2, <2>4 DEF SpillInv
<1> QED BY <1>1, <1>6, <1>7

-----------------------------------------------------------------------------
(* The theorems.                                                            *)

\* What a step does to the payloads that are spilled and removed.
Effect(id) ==
  \/ Live' = Live /\ removed' = removed
  \/ id \notin Live \cup removed /\ Live' = Live \cup {id} /\ removed' = removed
  \/ id \notin Live \cup removed /\ Live' = Live /\ removed' = removed \cup {id}
  \/ id \in Live /\ Live' = Live \ {id} /\ removed' = removed \cup {id}

LEMMA StepKeepsInv ==
  ASSUME SpillInv, NEW id \in Id,
         \/ \E length \in Lengths :
              \/ Put(id, length)
              \/ \E written \in 0..length : PutFails(id, length, written)
         \/ RemoveAbsent(id) \/ RemoveLast(id) \/ RemoveOne(id)
  PROVE  SpillInv' /\ Effect(id)
<1>1. ASSUME NEW length \in Lengths, Put(id, length)
      PROVE  SpillInv' /\ Effect(id)
  BY <1>1, PutKeepsInv DEF Effect, Put, MayPut
<1>2. ASSUME NEW length \in Lengths, NEW written \in 0..length, PutFails(id, length, written)
      PROVE  SpillInv' /\ Effect(id)
  BY <1>2, PutFailsKeepsInv DEF Effect
<1>3. RemoveAbsent(id) => SpillInv' /\ Effect(id)
  BY DEF RemoveAbsent, MayPut, SpillInv, Effect, LiveTidy, FreeTidy, LiveIsNotFree, Live
<1>4. RemoveLast(id) \/ RemoveOne(id) => SpillInv' /\ Effect(id)
  BY RemoveLastKeepsInv, RemoveOneKeepsInv DEF Effect
<1> QED BY <1>1, <1>2, <1>3, <1>4

\* No two payloads share a byte, a free region or an end of the file.
THEOREM SpillHolds == Spec => []SpillInv
<1>1. Init => SpillInv
  BY EmptySeq DEF Init, SpillInv, Live, LiveTidy, FreeTidy, LiveIsNotFree
<1>2. SpillInv /\ [Next]_vars => SpillInv'
  <2>1. SpillInv /\ Next => SpillInv'
    BY StepKeepsInv DEF Next
  <2>2. SpillInv /\ UNCHANGED vars => SpillInv'
    BY DEF vars, SpillInv, LiveTidy, FreeTidy, LiveIsNotFree, Live
  <2> QED BY <2>1, <2>2
<1> QED BY <1>1, <1>2, PTL DEF Spec

StatusOf(live, gone) ==
  [id \in Id |-> IF id \in live THEN "held" ELSE IF id \in gone THEN "gone" ELSE "never"]

\* A step is an abstract put, an abstract removal or a stutter.
LEMMA EffectIsAbstract ==
  ASSUME SpillInv, SpillInv', NEW id \in Id, Effect(id)
  PROVE  [Backend!Next]_Status
<1>1. Status = StatusOf(Live, removed) /\ Status' = StatusOf(Live', removed')
  <2>1. Status = StatusOf(Live, removed)
    BY DEF SpillInv, Status, StatusOf
  <2>2. Status' = StatusOf(Live', removed')
    BY DEF SpillInv, Status, StatusOf
  <2> QED BY <2>1, <2>2
<1>2. CASE Live' = Live /\ removed' = removed
  BY <1>1, <1>2
<1>3. CASE id \notin Live \cup removed /\ Live' = Live \cup {id} /\ removed' = removed
  <2>1. Backend!Put(id)
    BY <1>1, <1>3 DEF Backend!Put, StatusOf
  <2> QED BY <2>1 DEF Backend!Next
<1>4. CASE id \notin Live \cup removed /\ Live' = Live /\ removed' = removed \cup {id}
  <2>1. Backend!Remove(id)
    BY <1>1, <1>4 DEF Backend!Remove, StatusOf
  <2> QED BY <2>1 DEF Backend!Next
<1>5. CASE id \in Live /\ Live' = Live \ {id} /\ removed' = removed \cup {id}
  <2>1. Backend!Remove(id)
    BY <1>1, <1>5 DEF Backend!Remove, StatusOf
  <2> QED BY <2>1 DEF Backend!Next
<1> QED BY <1>2, <1>3, <1>4, <1>5 DEF Effect

\* A spilled payload reads back as it was put until it is removed, and its
\* identity never returns.
THEOREM SpillKeepsContract == Spec => ImplementsBackend
<1>1. Init => Backend!Init
  BY DEF Init, Backend!Init, Status, Live
<1>2. SpillInv /\ SpillInv' /\ [Next]_vars => [Backend!Next]_Status
  <2>1. SpillInv /\ SpillInv' /\ Next => [Backend!Next]_Status
    BY StepKeepsInv, EffectIsAbstract DEF Next
  <2>2. UNCHANGED vars => UNCHANGED Status
    BY DEF vars, Status, Live
  <2> QED BY <2>1, <2>2
<1> QED BY <1>1, <1>2, SpillHolds, PTL DEF Spec, ImplementsBackend, Backend!Spec

-----------------------------------------------------------------------------
(* The files of all workers.                                                *)

\* A file that aged, and one a sweep found old, have been opened, or lost the
\* worker that would have opened them.
PastBoot(f) == phase[f] \in {"open", "unspilled", "ended"}
FilesInv ==
  /\ phase \in [Worker -> {"off", "booting", "open", "unspilled", "ended"}]
  /\ checked \in [Worker -> Worker \cup {Nil}]
  /\ files \subseteq Worker /\ \A f \in files : phase[f] # "off"
  /\ aged \subseteq Worker /\ \A f \in aged : PastBoot(f)
  /\ \A w \in Worker : checked[w] # Nil => checked[w] \in Worker /\ PastBoot(checked[w])

\* Past its boot a worker stays past it.
LEMMA PastBootStays ==
  ASSUME FilesInv, Directory!Next
  PROVE  /\ phase' \in [Worker -> {"off", "booting", "open", "unspilled", "ended"}]
         /\ \A f \in Worker : PastBoot(f) => PastBoot(f)'
         /\ \A f \in Worker : phase[f] # "off" => phase'[f] # "off"
<1>1. PICK w \in Worker :
        \/ Directory!Boot(w) \/ Directory!Open(w) \/ Directory!SweepAgain(w) \/ Directory!Age(w)
        \/ Directory!Write(w) \/ Directory!Terminate(w) \/ Directory!SweepStep(w)
        \/ Directory!DeleteFile(w)
  BY DEF Directory!Next
<1>2. CASE UNCHANGED phase
  BY <1>2 DEF FilesInv, PastBoot
<1>3. CASE Directory!Boot(w)
  BY <1>3 DEF Directory!Boot, FilesInv, PastBoot
<1>4. CASE Directory!Open(w)
  BY <1>4 DEF Directory!Open, FilesInv, PastBoot
<1>5. CASE Directory!Terminate(w)
  BY <1>5 DEF Directory!Terminate, FilesInv, PastBoot
<1> QED BY <1>1, <1>2, <1>3, <1>4, <1>5 DEF Directory!SweepAgain, Directory!Age, Directory!Write,
       Directory!SweepStep, Directory!SweepRemove, Directory!SweepEnd, Directory!SweepVisit,
       Directory!DeleteFile

LEMMA FilesStep ==
  ASSUME FilesInv, Directory!Next
  PROVE  FilesInv'
<1>1. PICK w \in Worker :
        \/ Directory!Boot(w) \/ Directory!Open(w) \/ Directory!SweepAgain(w) \/ Directory!Age(w)
        \/ Directory!Write(w) \/ Directory!Terminate(w) \/ Directory!SweepStep(w)
        \/ Directory!DeleteFile(w)
  BY DEF Directory!Next
<1>2. /\ phase' \in [Worker -> {"off", "booting", "open", "unspilled", "ended"}]
      /\ \A f \in Worker : PastBoot(f) => PastBoot(f)'
      /\ \A f \in Worker : phase[f] # "off" => phase'[f] # "off"
  BY PastBootStays
<1>3. files' \subseteq Worker /\ \A f \in files' : phase'[f] # "off"
  <2>1. CASE Directory!Boot(w)
    BY <1>2, <2>1 DEF Directory!Boot, FilesInv
  <2>2. CASE files' \subseteq files
    BY <1>2, <2>2 DEF FilesInv
  <2> QED BY <1>1, <2>1, <2>2 DEF Directory!Open, Directory!SweepAgain, Directory!Age,
         Directory!Write, Directory!Terminate, Directory!SweepStep, Directory!SweepRemove,
         Directory!SweepEnd, Directory!SweepVisit, Directory!DeleteFile
<1>4. aged' \subseteq Worker /\ \A f \in aged' : PastBoot(f)'
  <2>1. CASE Directory!Age(w)
    <3>1. aged' = aged \cup {w} /\ w \in files /\ phase[w] # "booting"
      BY <2>1 DEF Directory!Age
    <3>2. PastBoot(w)
      BY <3>1 DEF FilesInv, PastBoot
    <3> QED BY <1>2, <3>1, <3>2 DEF FilesInv
  <2>2. CASE aged' \subseteq aged
    BY <1>2, <2>2 DEF FilesInv
  <2> QED BY <1>1, <2>1, <2>2 DEF Directory!Boot, Directory!Open, Directory!SweepAgain,
         Directory!Write, Directory!Terminate, Directory!SweepStep, Directory!SweepRemove,
         Directory!SweepEnd, Directory!SweepVisit, Directory!DeleteFile
<1> DEFINE PastChecked(c) == /\ c \in [Worker -> Worker \cup {Nil}]
                             /\ \A v \in Worker : c[v] # Nil => c[v] \in Worker /\ PastBoot(c[v])
<1>5. PastChecked(checked')
  <2>1. ASSUME NEW c \in Worker \cup {Nil}, c # Nil => PastBoot(c),
               checked' = [checked EXCEPT ![w] = c]
        PROVE  PastChecked(checked')
    BY <2>1 DEF FilesInv
  <2>2. CASE UNCHANGED checked
    BY <2>2 DEF FilesInv
  <2>3. ASSUME NEW f \in Worker, Directory!SweepVisit(w, f)
        PROVE  PastChecked(checked')
    <3>1. checked' = [checked EXCEPT ![w] = IF f \in files /\ f \in aged THEN f ELSE Nil]
      BY <2>3 DEF Directory!SweepVisit, Directory!Stale
    <3>2. f \in aged => PastBoot(f)
      BY DEF FilesInv
    <3> QED BY <2>1, <3>1, <3>2
  <2>4. CASE Directory!SweepRemove(w) \/ Directory!Terminate(w)
    BY <2>1, <2>4 DEF Directory!SweepRemove, Directory!Terminate
  <2> QED BY <1>1, <2>2, <2>3, <2>4 DEF Directory!Boot, Directory!Open, Directory!SweepAgain,
         Directory!Age, Directory!Write, Directory!SweepStep, Directory!SweepEnd,
         Directory!DeleteFile
<1>6. \A v \in Worker : checked'[v] # Nil => phase'[checked'[v]] \in {"open", "unspilled", "ended"}
  BY <1>2, <1>5 DEF PastBoot
<1> QED BY <1>2, <1>3, <1>4, <1>5, <1>6 DEF FilesInv, PastBoot

\* No sweep, of however many workers in whatever order they boot, open, sweep
\* and end, takes the file of a worker that boots: what a sweep found old it
\* found old after the boot.
THEOREM BootingIsSpared == StorageSpec => SweepSparesBooting
<1>1. OneLevel => FilesInv
  BY DEF OneLevel, Directory!Init, FilesInv
<1>2. FilesInv /\ [FileStep \/ DirectoryStep]_<<level, vars, directory>> => FilesInv'
  <2>1. CASE DirectoryStep
    BY <2>1, FilesStep DEF DirectoryStep
  <2>2. CASE UNCHANGED directory
    BY <2>2 DEF directory, FilesInv, PastBoot
  <2> QED BY <2>1, <2>2 DEF FileStep
<1>3. FilesInv /\ [FileStep \/ DirectoryStep]_<<level, vars, directory>> =>
        [\A w \in Worker : phase[w] = "booting" /\ w \in files /\ w \notin files'
           => Directory!DeleteFile(w)]_(Directory!vars)
  <2>1. CASE DirectoryStep
    <3> SUFFICES ASSUME FilesInv, NEW w \in Worker, phase[w] = "booting", w \in files, w \notin files'
                 PROVE  Directory!DeleteFile(w)
      OBVIOUS
    <3>1. PICK v \in Worker :
            \/ Directory!Boot(v) \/ Directory!Open(v) \/ Directory!SweepAgain(v) \/ Directory!Age(v)
            \/ Directory!Write(v) \/ Directory!Terminate(v) \/ Directory!SweepStep(v)
            \/ Directory!DeleteFile(v)
      BY <2>1 DEF DirectoryStep, Directory!Next
    <3>2. ~Directory!SweepRemove(v)
      BY DEF Directory!SweepRemove, FilesInv, PastBoot
    <3>3. CASE Directory!DeleteFile(v)
      BY <3>3 DEF Directory!DeleteFile
    <3> QED BY <3>1, <3>2, <3>3 DEF Directory!Boot, Directory!Open, Directory!SweepAgain,
           Directory!Age, Directory!Write, Directory!Terminate, Directory!SweepStep,
           Directory!SweepEnd, Directory!SweepVisit
  <2>2. CASE UNCHANGED directory
    BY <2>2 DEF directory, Directory!vars
  <2> QED BY <2>1, <2>2 DEF FileStep
<1> QED BY <1>1, <1>2, <1>3, PTL DEF StorageSpec, SweepSparesBooting, Directory!SweepSparesBooting
=============================================================================

----------------------- MODULE AppUsageMatcherProofs -----------------------
(***************************************************************************)
(* Proofs about the pure parts of episode reconstruction.  First the sparse *)
(* matcher: its lists hold for every log and every options, and it matches  *)
(* what the reference matcher does.  Then the published episode rules, for  *)
(* every log, every set of packages, every pair of thresholds and every     *)
(* opener set: the ends found row by row are those of the definitions over  *)
(* the whole log.  Then the split of overlapping sessions, for any sessions *)
(* and times: the rows of the sweep have the layers the definition gives.   *)
(***************************************************************************)
EXTENDS MCAppUsageMatcher, FiniteSetTheorems, WellFoundedInduction, TLAPS

-----------------------------------------------------------------------------
(* The lists of the sparse matcher.                                         *)

\* While an event is consumed there is room for it in the log, and only the
\* walk at the end of the log has none.
EventsInPlace ==
  /\ event # Nil => count < MaxEvents
  /\ pc \in {"walk", "tidy", "advance"} => event # Nil

\* Links and heads lead to starts, those of an app to starts of that app.
LinksLeadToStarts ==
  /\ globalHead # 0 => start[globalHead] # Nil
  /\ \A i \in Index : start[i] # Nil /\ globalPrev[i] # 0 => start[globalPrev[i]] # Nil
  /\ \A a \in App : appHead[a] # 0 =>
       start[appHead[a]] # Nil /\ start[appHead[a]].app = a
  /\ \A i \in Index : start[i] # Nil /\ appPrev[i] # 0 =>
       start[appPrev[i]] # Nil /\ start[appPrev[i]].app = start[i].app

IInv == TypeOK /\ EventsInPlace /\ LinksLeadToStarts /\ ChainsExact

-----------------------------------------------------------------------------
(* Types.                                                                   *)

LEMMA InitEstablishes == Init => IInv
  BY MatcherAssumption DEF Init, IInv, TypeOK, EventsInPlace, LinksLeadToStarts,
     ChainsExact, Places, LastEvents, Index

\* A head or a walk moves to an earlier start.
LEMMA PreviousInRange ==
  ASSUME TypeOK, ChainsExact, NEW i \in 1..count
  PROVE  i \in Index /\ globalPrev[i] \in 0..count /\ appPrev[i] \in 0..count
  BY MatcherAssumption DEF TypeOK, ChainsExact, Index

LEMMA CountInIndex ==
  ASSUME TypeOK, EventsInPlace, event # Nil
  PROVE  count + 1 \in Index /\ event \in Events
  BY MatcherAssumption DEF TypeOK, EventsInPlace, Index

LEMMA ReasonsOfCloses ==
  ASSUME NEW o, NEW e, NEW a
  PROVE  CloseReason(o, e, a) \in Reasons
  BY DEF CloseReason, Reasons

\* Every step keeps the types and the place of the event.
LEMMA TypeStep ==
  ASSUME IInv, [Next]_vars
  PROVE  TypeOK' /\ EventsInPlace'
<1> USE MatcherAssumption
<1> USE DEF IInv
<1>1. ASSUME NEW a \in App, NEW k \in Kinds, NEW g \in Gap,
             Read([app |-> a, kind |-> k, at |-> now + g])
      PROVE  TypeOK' /\ EventsInPlace'
  <2> DEFINE e == [app |-> a, kind |-> k, at |-> now + g]
  <2>1. now + g \in Nat
    BY DEF TypeOK
  <2>2. e \in Events
    BY <2>1 DEF Events
  <2> HIDE DEF e
  <2>3. Read(e)
    BY <1>1 DEF e
  <2> QED
    BY <2>2, <2>3 DEF Read, TypeOK, EventsInPlace, Places, matcher, lists
<1>2. ASSUME Prune
      PROVE  TypeOK' /\ EventsInPlace'
  <2>1. CASE IsClosed(WalkHead) /\ WalksAppList
    <3>1. event \in Events /\ event.app \in App
      BY <2>1 DEF WalksAppList, TypeOK, Events
    <3>2. appHead[event.app] \in 1..count
      BY <2>1, <3>1 DEF IsClosed, WalkHead, TypeOK
    <3>3. appPrev[appHead[event.app]] \in 0..count
      BY <3>2, PreviousInRange
    <3> QED
      BY <1>2, <2>1, <3>1, <3>3
         DEF Prune, PruneAppHead, TypeOK, EventsInPlace, Places, matcher
  <2>2. CASE IsClosed(WalkHead) /\ ~WalksAppList
    <3>1. globalHead \in 1..count
      BY <2>2 DEF IsClosed, WalkHead, TypeOK
    <3>2. globalPrev[globalHead] \in 0..count
      BY <3>1, PreviousInRange
    <3> QED
      BY <1>2, <2>2, <3>2
         DEF Prune, PruneGlobalHead, TypeOK, EventsInPlace, Places, matcher
  <2>3. CASE ~IsClosed(WalkHead)
    <3>1. WalkHead \in 0..count
      BY DEF WalkHead, WalksAppList, TypeOK, Events
    <3> QED
      BY <1>2, <2>3, <3>1 DEF Prune, TypeOK, EventsInPlace, Places, matcher
  <2> QED BY <2>1, <2>2, <2>3
<1>3. ASSUME SkipClosed \/ SkipUnwanted
      PROVE  TypeOK' /\ EventsInPlace'
  <2>1. cursor \in 1..count
    BY <1>3 DEF SkipClosed, SkipUnwanted, IsClosed, TypeOK
  <2>2. Prev(cursor) \in 0..count
    BY <2>1, PreviousInRange DEF Prev
  <2> QED
    BY <1>3, <2>2 DEF SkipClosed, SkipUnwanted, TypeOK, EventsInPlace, matcher, lists
<1>4. ASSUME GiveUp
      PROVE  TypeOK' /\ EventsInPlace'
  BY <1>4 DEF GiveUp, WalkEnds, TypeOK, EventsInPlace, Places, matcher, lists
<1>5. ASSUME Close
      PROVE  TypeOK' /\ EventsInPlace'
  <2>1. cursor \in 1..count /\ event # Nil
    BY <1>5 DEF Close, TypeOK, EventsInPlace
  <2>2. count + 1 \in Index
    BY <2>1, CountInIndex
  <2>3. Prev(cursor) \in 0..count /\ cursor \in Index
    BY <2>1, PreviousInRange DEF Prev
  <2> DEFINE end == [stop |-> count + 1,
                     reason |-> CloseReason(options, event, start[cursor].app)]
  <2>4. end \in Ends
    BY <2>2, ReasonsOfCloses DEF Ends, Index
  <2> HIDE DEF end
  <2>5. /\ closed' \in [Index -> BOOLEAN]
        /\ ends' \in [Index -> Ends \cup {Nil}]
    <3>1. CASE ~options.reuse /\ HeldBack(event, cursor)
      BY <1>5, <3>1 DEF Close, TypeOK
    <3>2. CASE ~(~options.reuse /\ HeldBack(event, cursor))
      <4>1. /\ closed' = [closed EXCEPT ![cursor] = TRUE]
            /\ ends' = [ends EXCEPT ![cursor] = end]
        BY <1>5, <3>2 DEF Close, Closed, end
      <4> QED
        BY <4>1, <2>4 DEF TypeOK
    <3> QED BY <3>1, <3>2
  <2>6. cursor' \in 0..count /\ pc' \in Places
    BY <1>5, <2>3 DEF Close, WalkEnds, TypeOK, Places
  <2>7. UNCHANGED <<matcher, event, lists>>
    BY <1>5 DEF Close
  <2> QED
    BY <2>1, <2>5, <2>6, <2>7 DEF TypeOK, EventsInPlace, matcher, lists
<1>6. ASSUME Tidy
      PROVE  TypeOK' /\ EventsInPlace'
  <2>1. event \in Events /\ event.app \in App
    BY <1>6 DEF Tidy, TypeOK, EventsInPlace, Events
  <2>2. globalHead' \in 0..count
    BY <1>6, PreviousInRange
       DEF Tidy, PruneAppHead, PruneGlobalHead, IsClosed, TypeOK
  <2>3. appHead' \in [App -> 0..count]
    <3>1. CASE PruneAppHead(event.app)
      <4>1. appHead[event.app] \in 1..count
        BY <2>1, <3>1 DEF PruneAppHead, IsClosed, TypeOK
      <4>2. appPrev[appHead[event.app]] \in 0..count
        BY <4>1, PreviousInRange
      <4> QED
        BY <3>1, <4>2, <2>1 DEF PruneAppHead, TypeOK
    <3>2. CASE UNCHANGED appHead
      BY <3>2 DEF TypeOK
    <3> QED
      BY <1>6, <3>1, <3>2 DEF Tidy, PruneGlobalHead
  <2>4. pc' \in Places /\ (pc' = pc \/ pc' = "advance")
    BY <1>6 DEF Tidy, TypeOK, Places
  <2>5. UNCHANGED <<matcher, ends, event, cursor, globalPrev, appPrev, closed>>
    BY <1>6 DEF Tidy
  <2> QED
    BY <1>6, <2>2, <2>3, <2>4, <2>5 DEF Tidy, TypeOK, EventsInPlace, matcher
<1>7. ASSUME Advance
      PROVE  TypeOK' /\ EventsInPlace'
  <2> DEFINE here == count + 1
             a == event.app
             opened == [app |-> a, at |-> event.at,
                        reresumed |-> IsReresume(options, event, last[a])]
             read == [at |-> event.at, stops |-> SameStop(options, event)]
  <2>1. event # Nil
    BY <1>7 DEF Advance, EventsInPlace
  <2>2. here \in Index /\ event \in Events /\ a \in App /\ event.at \in Nat
    BY <2>1, CountInIndex DEF Events
  <2>3. opened \in Starts
    BY <2>2 DEF Starts, IsReresume, TypeOK, LastEvents
  <2>4. read \in LastEvents
    <3>1. SameStop(options, event) \in BOOLEAN
      BY DEF SameStop
    <3> QED BY <2>2, <3>1 DEF LastEvents
  <2>5. /\ count' = here /\ now' = event.at /\ pc' = "next" /\ event' = Nil
        /\ last' = [last EXCEPT ![a] = read]
        /\ UNCHANGED <<options, ends, cursor, closed>>
        /\ \/ start' = [start EXCEPT ![here] = opened] /\ Opened(here, a)
           \/ UNCHANGED <<start, lists>>
    BY <1>7 DEF Advance
  <2> HIDE DEF opened, read, a
  <2>6. count' \in 0..MaxEvents /\ 0..count \subseteq 0..count'
    BY <2>2, <2>5 DEF TypeOK, Index
  <2>7. last' \in [App -> LastEvents]
    BY <2>2, <2>4, <2>5 DEF TypeOK
  <2>8. start' \in [Index -> Starts \cup {Nil}]
    BY <2>2, <2>3, <2>5 DEF TypeOK
  <2>9. \A i \in Index : start'[i] # Nil => i <= count'
    BY <2>2, <2>5 DEF TypeOK, Index
  <2>10. /\ globalPrev' \in [Index -> 0..MaxEvents]
         /\ appPrev' \in [Index -> 0..MaxEvents]
         /\ globalHead' \in 0..count'
         /\ appHead' \in [App -> 0..count']
    <3>1. CASE Opened(here, a)
      BY <2>2, <2>5, <3>1, SMTT(30) DEF Opened, TypeOK, Index
    <3>2. CASE UNCHANGED lists
      BY <2>5, <2>6, <3>2 DEF lists, TypeOK
    <3> QED BY <2>5, <3>1, <3>2
  <2> QED
    BY <2>2, <2>5, <2>6, <2>7, <2>8, <2>9, <2>10 DEF TypeOK, EventsInPlace, Places
<1>8. ASSUME StartFinish \/ Finished
      PROVE  TypeOK' /\ EventsInPlace'
  BY <1>8 DEF StartFinish, Finished, TypeOK, EventsInPlace, Places, matcher, lists
<1>9. ASSUME FinishOpenStarts
      PROVE  TypeOK' /\ EventsInPlace'
  <2>1. cursor \in 1..count
    BY <1>9 DEF FinishOpenStarts, TypeOK
  <2>2. globalPrev[cursor] \in 0..count /\ cursor \in Index
    BY <2>1, PreviousInRange
  <2>3. /\ [stop |-> count, reason |-> "endOfStream"] \in Ends
        /\ [stop |-> 0, reason |-> "unobserved"] \in Ends
    BY DEF Ends, Reasons, TypeOK
  <2>4. /\ closed' \in [Index -> BOOLEAN]
        /\ ends' \in [Index -> Ends \cup {Nil}]
    <3>1. CASE closed[cursor]
      BY <1>9, <3>1 DEF FinishOpenStarts, TypeOK
    <3>2. CASE ~closed[cursor] /\ cursor < count /\ IsValidDuration(start[cursor].at, now, TRUE)
      BY <1>9, <3>2, <2>2, <2>3, ZenonT(40) DEF FinishOpenStarts, Closed, TypeOK
    <3>3. CASE ~closed[cursor] /\ ~(cursor < count /\ IsValidDuration(start[cursor].at, now, TRUE))
      BY <1>9, <3>3, <2>2, <2>3, ZenonT(40) DEF FinishOpenStarts, TypeOK
    <3> QED BY <3>1, <3>2, <3>3
  <2> QED
    BY <1>9, <2>2, <2>4 DEF FinishOpenStarts, TypeOK, EventsInPlace, matcher, lists
<1>10. ASSUME UNCHANGED vars
       PROVE  TypeOK' /\ EventsInPlace'
  BY <1>10 DEF vars, matcher, lists, TypeOK, EventsInPlace
<1> QED
  BY <1>1, <1>2, <1>3, <1>4, <1>5, <1>6, <1>7, <1>8, <1>9, <1>10 DEF Next

-----------------------------------------------------------------------------
(* The lists.                                                               *)

\* Ending starts disturbs no list.
LEMMA ClosingKeepsLists ==
  ASSUME TypeOK, LinksLeadToStarts, ChainsExact, UNCHANGED <<start, lists>>,
         \A i \in Index : closed[i] => closed'[i]
  PROVE  LinksLeadToStarts' /\ ChainsExact'
<1>1. LinksLeadToStarts'
  BY DEF LinksLeadToStarts, lists
<1>2. ChainsExact'
  BY DEF ChainsExact, lists
<1> QED BY <1>1, <1>2

\* Neither does unlinking an ended head.
LEMMA PruningKeepsGlobalList ==
  ASSUME TypeOK, LinksLeadToStarts, ChainsExact, PruneGlobalHead,
         UNCHANGED <<start, globalPrev, appPrev, closed>>
  PROVE  LinksLeadToStarts' /\ ChainsExact'
<1> USE MatcherAssumption
<1>1. globalHead \in Index /\ closed[globalHead] /\ start[globalHead] # Nil
  BY DEF PruneGlobalHead, IsClosed, TypeOK, LinksLeadToStarts, Index
<1>2. globalHead' = globalPrev[globalHead] /\ UNCHANGED appHead
  BY DEF PruneGlobalHead
<1>3. LinksLeadToStarts'
  BY <1>1, <1>2 DEF LinksLeadToStarts
<1>4. \A j \in Index : start[j] # Nil /\ globalPrev[globalHead] < j => closed[j]
  <2> TAKE j \in Index
  <2> HAVE start[j] # Nil /\ globalPrev[globalHead] < j
  <2>1. CASE j = globalHead
    BY <2>1, <1>1
  <2>2. CASE j < globalHead
    BY <2>2, <1>1 DEF ChainsExact
  <2>3. CASE globalHead < j
    BY <2>3 DEF ChainsExact, Index
  <2> QED BY <2>1, <2>2, <2>3, <1>1 DEF Index
<1>5. ChainsExact'
  BY <1>2, <1>4 DEF ChainsExact
<1> QED BY <1>3, <1>5

LEMMA PruningKeepsAppList ==
  ASSUME TypeOK, LinksLeadToStarts, ChainsExact, NEW a \in App, PruneAppHead(a),
         UNCHANGED <<start, globalPrev, appPrev, closed>>
  PROVE  LinksLeadToStarts' /\ ChainsExact'
<1> USE MatcherAssumption
<1> DEFINE h == appHead[a]
<1>1. h \in Index /\ closed[h] /\ start[h] # Nil /\ start[h].app = a
  BY DEF PruneAppHead, IsClosed, TypeOK, LinksLeadToStarts, Index
<1>2. UNCHANGED globalHead /\ appHead' = [appHead EXCEPT ![a] = appPrev[h]]
  BY DEF PruneAppHead
<1>3. appHead \in [App -> 0..count]
  BY DEF TypeOK
<1>4. LinksLeadToStarts'
  BY <1>1, <1>2, <1>3 DEF LinksLeadToStarts
<1>5. \A j \in Index :
        start[j] # Nil /\ start[j].app = a /\ appPrev[h] < j => closed[j]
  <2> TAKE j \in Index
  <2> HAVE start[j] # Nil /\ start[j].app = a /\ appPrev[h] < j
  <2>1. CASE j = h
    BY <2>1, <1>1
  <2>2. CASE j < h
    BY <2>2, <1>1 DEF ChainsExact
  <2>3. CASE h < j
    BY <2>3 DEF ChainsExact, Index
  <2> QED BY <2>1, <2>2, <2>3, <1>1 DEF Index
<1>6. ChainsExact'
  BY <1>2, <1>3, <1>5 DEF ChainsExact
<1> QED BY <1>4, <1>6

\* A new start lies above every other one and takes both heads as its links.
LEMMA OpeningKeepsLists ==
  ASSUME TypeOK, LinksLeadToStarts, ChainsExact,
         NEW i \in Index, i = count + 1, NEW a \in App,
         NEW s \in Starts, s.app = a,
         start' = [start EXCEPT ![i] = s], Opened(i, a), UNCHANGED closed
  PROVE  LinksLeadToStarts' /\ ChainsExact'
<1> USE MatcherAssumption
<1>1. /\ s # Nil /\ start[i] = Nil
      /\ globalHead \in 0..count /\ globalHead < i
      /\ appHead \in [App -> 0..count] /\ \A b \in App : appHead[b] < i
  BY DEF TypeOK
<1>2. /\ globalPrev' = [globalPrev EXCEPT ![i] = globalHead]
      /\ appPrev' = [appPrev EXCEPT ![i] = appHead[a]]
      /\ globalHead' = i /\ appHead' = [appHead EXCEPT ![a] = i]
  BY DEF Opened
<1>3. /\ start \in [Index -> Starts \cup {Nil}]
      /\ globalPrev \in [Index -> 0..MaxEvents] /\ appPrev \in [Index -> 0..MaxEvents]
  BY DEF TypeOK
<1>4. \A j \in Index : start'[j] # Nil => j <= i
  BY <1>1, <1>3 DEF TypeOK, Index
<1>5. \A j \in Index : globalPrev[j] < j /\ appPrev[j] < j
  BY DEF ChainsExact
<1>6. LinksLeadToStarts'
  <2>1. globalHead' # 0 => start'[globalHead'] # Nil
    BY <1>1, <1>2, <1>3
  <2>2. \A j \in Index : start'[j] # Nil /\ globalPrev'[j] # 0
                         => start'[globalPrev'[j]] # Nil
    <3> TAKE j \in Index
    <3>1. CASE j = i
      <4>1. globalPrev'[j] = globalHead
        BY <3>1, <1>2, <1>3
      <4> QED
        BY <4>1, <1>1, <1>3 DEF LinksLeadToStarts, Index
    <3>2. CASE j # i
      <4>1. globalPrev'[j] = globalPrev[j] /\ start'[j] = start[j]
        BY <3>2, <1>2, <1>3
      <4>2. globalPrev[j] \in 0..MaxEvents /\ globalPrev[j] < j
        BY <1>3, <1>5
      <4> QED
        BY <4>1, <4>2, <1>1, <1>3, SMTT(30) DEF LinksLeadToStarts, Index
    <3> QED BY <3>1, <3>2
  <2>3. \A b \in App : appHead'[b] # 0 =>
          start'[appHead'[b]] # Nil /\ start'[appHead'[b]].app = b
    <3> TAKE b \in App
    <3>1. CASE b = a
      BY <3>1, <1>1, <1>2, <1>3
    <3>2. CASE b # a
      <4>1. appHead'[b] = appHead[b] /\ appHead[b] \in 0..count
        BY <3>2, <1>1, <1>2
      <4> QED
        BY <4>1, <1>1, <1>3 DEF LinksLeadToStarts, Index
    <3> QED BY <3>1, <3>2
  <2>4. \A j \in Index : start'[j] # Nil /\ appPrev'[j] # 0 =>
          start'[appPrev'[j]] # Nil /\ start'[appPrev'[j]].app = start'[j].app
    <3> TAKE j \in Index
    <3>1. CASE j = i
      <4>1. appPrev'[j] = appHead[a] /\ start'[j].app = a
        BY <3>1, <1>2, <1>3
      <4>2. appHead[a] \in 0..count
        BY <1>1
      <4> QED
        BY <4>1, <4>2, <1>1, <1>3, SMTT(30) DEF LinksLeadToStarts, Index
    <3>2. CASE j # i
      <4>1. appPrev'[j] = appPrev[j] /\ start'[j] = start[j]
        BY <3>2, <1>2, <1>3
      <4>2. appPrev[j] \in 0..MaxEvents /\ appPrev[j] < j
        BY <1>3, <1>5
      <4> QED
        BY <4>1, <4>2, <1>1, <1>3, SMTT(30) DEF LinksLeadToStarts, Index
    <3> QED BY <3>1, <3>2
  <2> QED BY <2>1, <2>2, <2>3, <2>4 DEF LinksLeadToStarts
<1>7. \A j \in Index : globalPrev'[j] < j /\ appPrev'[j] < j
  BY <1>1, <1>2, <1>3, <1>5
<1>8. \A j, k \in Index :
        start'[j] # Nil /\ start'[k] # Nil /\ globalPrev'[j] < k /\ k < j => closed'[k]
  <2> TAKE j, k \in Index
  <2> HAVE start'[j] # Nil /\ start'[k] # Nil /\ globalPrev'[j] < k /\ k < j
  <2>1. k # i /\ start'[k] = start[k]
    BY <1>3, <1>4 DEF Index
  <2>2. CASE j = i
    <3>1. globalHead < k /\ k < MaxEvents + 1
      BY <2>2, <1>2, <1>3 DEF Index
    <3> QED BY <2>1, <3>1 DEF ChainsExact
  <2>3. CASE j # i
    <3>1. globalPrev[j] < k /\ start[j] # Nil
      BY <2>3, <1>2, <1>3
    <3> QED BY <2>1, <3>1 DEF ChainsExact
  <2> QED BY <2>2, <2>3
<1>9. \A b \in App, k \in Index :
        start'[k] # Nil /\ start'[k].app = b /\ appHead'[b] < k => closed'[k]
  <2> TAKE b \in App, k \in Index
  <2> HAVE start'[k] # Nil /\ start'[k].app = b /\ appHead'[b] < k
  <2>1. k # i
    <3>1. CASE b = a
      BY <3>1, <1>1, <1>2 DEF Index
    <3>2. CASE b # a
      BY <3>2, <1>3
    <3> QED BY <3>1, <3>2
  <2>2. start'[k] = start[k]
    BY <2>1, <1>3
  <2>3. b # a
    BY <2>1, <1>1, <1>2, <1>4 DEF Index
  <2>4. appHead[b] < k /\ k < MaxEvents + 1
    BY <2>3, <1>1, <1>2 DEF Index
  <2> QED BY <2>2, <2>4 DEF ChainsExact
<1>10. \A j, k \in Index :
         /\ start'[j] # Nil /\ start'[k] # Nil /\ start'[k].app = start'[j].app
         /\ appPrev'[j] < k /\ k < j
         => closed'[k]
  <2> TAKE j, k \in Index
  <2> HAVE /\ start'[j] # Nil /\ start'[k] # Nil /\ start'[k].app = start'[j].app
           /\ appPrev'[j] < k /\ k < j
  <2>1. k # i /\ start'[k] = start[k]
    BY <1>3, <1>4 DEF Index
  <2>2. CASE j = i
    <3>1. appHead[a] < k /\ k < MaxEvents + 1 /\ start[k].app = a
      BY <2>1, <2>2, <1>2, <1>3 DEF Index
    <3> QED BY <2>1, <3>1 DEF ChainsExact
  <2>3. CASE j # i
    <3>1. appPrev[j] < k /\ start'[j] = start[j]
      BY <2>3, <1>2, <1>3
    <3>2. start[j].app \in App
      BY <3>1, <1>3 DEF Starts
    <3> QED BY <2>1, <3>1, <3>2 DEF ChainsExact
  <2> QED BY <2>2, <2>3
<1>11. \A k \in Index : start'[k] # Nil => ~(globalHead' < k)
  BY <1>2, <1>4 DEF Index
<1>12. ChainsExact'
  BY <1>7, <1>8, <1>9, <1>10, <1>11 DEF ChainsExact
<1> QED BY <1>6, <1>12

LEMMA ListsStep ==
  ASSUME IInv, [Next]_vars
  PROVE  LinksLeadToStarts' /\ ChainsExact'
<1> USE MatcherAssumption
<1> USE DEF IInv
<1>1. ASSUME NEW e, Read(e)
      PROVE  LinksLeadToStarts' /\ ChainsExact'
  BY <1>1, ClosingKeepsLists DEF Read, matcher
<1>2. ASSUME Prune
      PROVE  LinksLeadToStarts' /\ ChainsExact'
  <2>1. UNCHANGED <<start, globalPrev, appPrev, closed>>
    BY <1>2 DEF Prune, matcher
  <2>2. CASE IsClosed(WalkHead) /\ WalksAppList
    <3>1. event.app \in App
      BY <2>2 DEF WalksAppList, TypeOK, Events
    <3> QED
      BY <1>2, <2>1, <2>2, <3>1, PruningKeepsAppList DEF Prune
  <2>3. CASE IsClosed(WalkHead) /\ ~WalksAppList
    BY <1>2, <2>1, <2>3, PruningKeepsGlobalList DEF Prune
  <2>4. CASE ~IsClosed(WalkHead)
    BY <1>2, <2>1, <2>4, ClosingKeepsLists DEF Prune, lists
  <2> QED BY <2>2, <2>3, <2>4
<1>3. ASSUME SkipClosed \/ SkipUnwanted \/ GiveUp \/ StartFinish \/ Finished
      PROVE  LinksLeadToStarts' /\ ChainsExact'
  BY <1>3, ClosingKeepsLists
     DEF SkipClosed, SkipUnwanted, GiveUp, StartFinish, Finished, matcher
<1>4. ASSUME Close
      PROVE  LinksLeadToStarts' /\ ChainsExact'
  <2>1. \A i \in Index : closed[i] => closed'[i]
    BY <1>4 DEF Close, Closed, TypeOK
  <2>2. UNCHANGED <<start, lists>>
    BY <1>4 DEF Close, matcher
  <2> QED BY <2>1, <2>2, ClosingKeepsLists
<1>5. ASSUME Tidy
      PROVE  LinksLeadToStarts' /\ ChainsExact'
  <2>1. event.app \in App
    BY <1>5 DEF Tidy, TypeOK, EventsInPlace, Events
  <2>2. UNCHANGED <<start, globalPrev, appPrev, closed>>
    BY <1>5 DEF Tidy, matcher
  <2>3. CASE PruneAppHead(event.app)
    BY <2>1, <2>2, <2>3, PruningKeepsAppList
  <2>4. CASE PruneGlobalHead
    BY <2>2, <2>4, PruningKeepsGlobalList
  <2>5. CASE UNCHANGED <<globalHead, appHead>>
    BY <2>2, <2>5, ClosingKeepsLists DEF lists
  <2> QED BY <1>5, <2>3, <2>4, <2>5 DEF Tidy
<1>6. ASSUME Advance
      PROVE  LinksLeadToStarts' /\ ChainsExact'
  <2> DEFINE s == [app |-> event.app, at |-> event.at,
                   reresumed |-> IsReresume(options, event, last[event.app])]
  <2>1. /\ count + 1 \in Index /\ event \in Events
        /\ event.app \in App /\ event.at \in Nat
    BY <1>6, CountInIndex DEF Advance, EventsInPlace, Events
  <2>2. s \in Starts /\ s.app = event.app
    BY <2>1 DEF Starts, IsReresume, TypeOK, LastEvents
  <2> HIDE DEF s
  <2>3. UNCHANGED closed
    BY <1>6 DEF Advance
  <2>4. \/ start' = [start EXCEPT ![count + 1] = s] /\ Opened(count + 1, event.app)
        \/ UNCHANGED <<start, lists>>
    BY <1>6 DEF Advance, s
  <2>5. CASE start' = [start EXCEPT ![count + 1] = s] /\ Opened(count + 1, event.app)
    BY <2>1, <2>2, <2>3, <2>5, OpeningKeepsLists
  <2>6. CASE UNCHANGED <<start, lists>>
    BY <2>3, <2>6, ClosingKeepsLists
  <2> QED BY <2>4, <2>5, <2>6
<1>7. ASSUME FinishOpenStarts
      PROVE  LinksLeadToStarts' /\ ChainsExact'
  <2>1. \A i \in Index : closed[i] => closed'[i]
    BY <1>7 DEF FinishOpenStarts, Closed, TypeOK
  <2>2. UNCHANGED <<start, lists>>
    BY <1>7 DEF FinishOpenStarts, matcher
  <2> QED BY <2>1, <2>2, ClosingKeepsLists
<1>8. ASSUME UNCHANGED vars
      PROVE  LinksLeadToStarts' /\ ChainsExact'
  BY <1>8, ClosingKeepsLists DEF vars, matcher, lists
<1> QED
  BY <1>1, <1>2, <1>3, <1>4, <1>5, <1>6, <1>7, <1>8 DEF Next

-----------------------------------------------------------------------------
(* The theorems.                                                            *)

THEOREM Invariance == Spec => []IInv
<1>1. IInv /\ [Next]_vars => IInv'
  BY TypeStep, ListsStep DEF IInv
<1> QED
  BY <1>1, InitEstablishes, PTL DEF Spec

\* For every set of apps, log and option record the loops stay within the log:
\* no index they use lies outside it.
THEOREM TypeCorrect == Spec => []TypeOK
<1>1. IInv => TypeOK
  BY DEF IInv
<1> QED BY <1>1, Invariance, PTL

\* Lazy unlinking loses no open start: whatever mixture of starts and stops ended
\* the starts of a list, the walk from its head meets every open one.
THEOREM NoOpenStartLost == Spec => []ChainsExact
<1>1. IInv => ChainsExact
  BY DEF IInv
<1> QED BY <1>1, Invariance, PTL

\* No turn of a loop repeats a place: the links of a start that is on a list lead
\* to earlier ones.  The lemma is about every turn, one that changed nothing
\* included, so that none can be repeated for ever.
LEMMA EveryTurnGoesOn ==
  ASSUME IInv, Next
  PROVE  Onward
<1> USE MatcherAssumption
<1> USE DEF IInv, TypeOK
<1>1. /\ count \in Nat /\ globalHead \in Nat
      /\ \A i \in Index : globalPrev[i] < i /\ appPrev[i] < i
      /\ \A a \in App : appHead[a] \in 0..count
  BY DEF ChainsExact
<1>2. \A i \in 1..count : i \in Index
  BY DEF Index
<1>3. ASSUME NEW e, Read(e)
      PROVE  Onward
  BY <1>3 DEF Read, Onward, Stage, matcher
<1>4. ASSUME Prune
      PROVE  Onward
  <2>1. CASE IsClosed(WalkHead) /\ WalksAppList
    <3> DEFINE a == event.app
    <3>1. a \in App /\ appHead[a] \in 1..count
      BY <1>1, <2>1 DEF WalksAppList, WalkHead, IsClosed, Events
    <3>2. appPrev[appHead[a]] < appHead[a] /\ appPrev[appHead[a]] \in Nat
      BY <1>1, <1>2, <3>1
    <3>3. appHead' = [appHead EXCEPT ![a] = appPrev[@]] /\ UNCHANGED <<count, pc, cursor, globalHead>>
      BY <1>4, <2>1 DEF Prune, PruneAppHead, matcher
    <3>4. appHead'[a] < appHead[a] /\ \A b \in App \ {a} : appHead'[b] = appHead[b]
      BY <3>1, <3>2, <3>3
    <3>5. \A b \in App : appHead[b] \in Nat /\ appHead'[b] <= appHead[b]
      BY <1>1, <3>1, <3>2, <3>3, <3>4
    <3>6. appHead' # appHead
      BY <1>1, <3>1, <3>4
    <3> QED BY <1>1, <3>3, <3>5, <3>6 DEF Onward
  <2>2. CASE IsClosed(WalkHead) /\ ~WalksAppList
    <3>1. globalHead \in Index /\ globalHead' = globalPrev[globalHead]
      BY <1>2, <1>4, <2>2 DEF Prune, PruneGlobalHead, WalkHead, IsClosed
    <3>2. globalHead' < globalHead /\ UNCHANGED <<count, pc, cursor, appHead>>
      BY <1>1, <1>4, <2>2, <3>1 DEF Prune, PruneGlobalHead, matcher
    <3> QED BY <1>1, <3>1, <3>2 DEF Onward
  <2>3. CASE ~IsClosed(WalkHead)
    BY <1>4, <2>3 DEF Prune, Onward, Stage, matcher
  <2> QED BY <2>1, <2>2, <2>3
<1>5. ASSUME cursor # 0
      PROVE  /\ cursor \in Nat
             /\ Prev(cursor) \in Nat /\ Prev(cursor) < cursor
             /\ globalPrev[cursor] \in Nat /\ globalPrev[cursor] < cursor
  <2>1. cursor \in Index
    BY <1>1, <1>2, <1>5
  <2>2. globalPrev[cursor] \in Nat /\ appPrev[cursor] \in Nat
    BY <2>1
  <2> QED BY <1>1, <2>1, <2>2 DEF Prev
<1>6. ASSUME SkipClosed \/ SkipUnwanted
      PROVE  Onward
  <2>1. cursor # 0 /\ cursor' = Prev(cursor) /\ UNCHANGED <<count, pc, globalHead, appHead>>
    BY <1>6 DEF SkipClosed, SkipUnwanted, IsClosed, matcher, lists
  <2> QED BY <1>1, <1>5, <2>1 DEF Onward
<1>7. ASSUME GiveUp
      PROVE  Onward
  BY <1>7 DEF GiveUp, WalkEnds, Onward, Stage, matcher
<1>8. ASSUME Close
      PROVE  Onward
  <2>1. CASE options.reuse
    <3>1. cursor # 0 /\ cursor' = Prev(cursor) /\ UNCHANGED <<count, pc, globalHead, appHead>>
      BY <1>8, <2>1 DEF Close, matcher, lists
    <3> QED BY <1>1, <1>5, <3>1 DEF Onward
  <2>2. CASE ~options.reuse
    BY <1>8, <2>2 DEF Close, WalkEnds, Onward, Stage, matcher
  <2> QED BY <2>1, <2>2
<1>9. ASSUME Tidy
      PROVE  Onward
  <2>1. CASE WalksAppList /\ PruneAppHead(event.app) /\ UNCHANGED pc
    <3> DEFINE a == event.app
    <3>1. a \in App /\ appHead[a] \in 1..count
      BY <1>1, <2>1 DEF WalksAppList, PruneAppHead, IsClosed, Events
    <3>2. appPrev[appHead[a]] < appHead[a] /\ appPrev[appHead[a]] \in Nat
      BY <1>1, <1>2, <3>1
    <3>3. appHead' = [appHead EXCEPT ![a] = appPrev[@]] /\ UNCHANGED <<count, pc, cursor, globalHead>>
      BY <1>9, <2>1 DEF Tidy, PruneAppHead, matcher
    <3>4. appHead'[a] < appHead[a] /\ \A b \in App \ {a} : appHead'[b] = appHead[b]
      BY <3>1, <3>2, <3>3
    <3>5. \A b \in App : appHead[b] \in Nat /\ appHead'[b] <= appHead[b]
      BY <1>1, <3>1, <3>2, <3>3, <3>4
    <3>6. appHead' # appHead
      BY <1>1, <3>1, <3>4
    <3> QED BY <1>1, <3>3, <3>5, <3>6 DEF Onward
  <2>2. CASE PruneGlobalHead /\ UNCHANGED pc
    <3>1. globalHead \in Index /\ globalHead' = globalPrev[globalHead]
      BY <1>2, <2>2 DEF PruneGlobalHead, IsClosed
    <3>2. globalHead' < globalHead /\ UNCHANGED <<count, pc, cursor, appHead>>
      BY <1>1, <1>9, <2>2, <3>1 DEF Tidy, PruneGlobalHead, matcher
    <3> QED BY <1>1, <3>1, <3>2 DEF Onward
  <2>3. CASE pc' = "advance"
    BY <1>9, <2>3 DEF Tidy, Onward, Stage, matcher
  <2> QED BY <1>9, <2>1, <2>2, <2>3 DEF Tidy
<1>10. ASSUME Advance
       PROVE  Onward
  BY <1>1, <1>10 DEF Advance, Onward
<1>11. ASSUME StartFinish \/ Finished
       PROVE  Onward
  BY <1>11 DEF StartFinish, Finished, Onward, Stage, matcher
<1>12. ASSUME FinishOpenStarts
       PROVE  Onward
  BY <1>1, <1>5, <1>12 DEF FinishOpenStarts, Onward, matcher, lists
<1> QED
  BY <1>3, <1>4, <1>6, <1>7, <1>8, <1>9, <1>10, <1>11, <1>12 DEF Next

\* For every log, set of apps and option record, each loop over the starts ends:
\* every turn goes on.
THEOREM WalksEnd == Spec => EveryWalkEnds
<1>1. IInv /\ [Next]_vars => [Onward]_vars
  BY EveryTurnGoesOn
<1> QED BY <1>1, Invariance, PTL DEF Spec, EveryWalkEnds

-----------------------------------------------------------------------------
(* The sparse matcher implements the reference matcher.  What the reference *)
(* matcher does in one step is spread over a walk: the invariant says what  *)
(* the walk has decided so far.                                             *)

LateReasons == {"endOfStream", "unobserved"}

\* Time does not go back, and the event is one that the reference matcher may
\* observe.
TimeInOrder ==
  /\ \A i \in Index : start[i] # Nil => start[i].at <= now
  /\ \A i, j \in Index :
       start[i] # Nil /\ start[j] # Nil /\ i < j => start[i].at <= start[j].at
  /\ event # Nil => \E g \in Gap : event.at = now + g
  /\ pc \in {"prune", "finish"} /\ event = Nil => count > 0
  /\ pc \in {"next", "finish"} => event = Nil

\* The marks of the lists agree with the ends.
MarksAgree ==
  /\ \A i \in Index : ends[i] # Nil => start[i] # Nil
  /\ \A i \in Index : ends[i] # Nil =>
       ends[i].stop <= (IF pc \in {"walk", "tidy", "advance"} THEN count + 1 ELSE count)
  /\ pc \notin {"finish", "done"} =>
       \A i \in Index : ends[i] # Nil => ends[i].reason \notin LateReasons
  /\ pc # "done" => \A i \in Index : closed[i] => ends[i] # Nil
  /\ pc # "done" =>
       \A i \in Index : ends[i] # Nil /\ (pc = "finish" => i <= cursor) => closed[i]

\* The starts that are open to the reference matcher while the walk goes on.
Candidate(i) == start[i] # Nil /\ ~Reported(i)

Fits(i) ==
  /\ StopMode(event) # "none"
  /\ WalksAppList => start[i].app = event.app
  /\ Wants(event, i) /\ InReach(i)

EndHere(i) ==
  [stop |-> count + 1, reason |-> CloseReason(options, event, start[i].app)]

Due(i) ==
  /\ Fits(i)
  /\ options.reuse \/ ( /\ ~HeldBack(event, i)
                        /\ \A j \in Index : Candidate(j) /\ Fits(j) => j <= i )

LateEnd(i) ==
  IF i < count /\ IsValidDuration(start[i].at, now, TRUE)
  THEN [stop |-> count, reason |-> "endOfStream"]
  ELSE [stop |-> 0, reason |-> "unobserved"]

OnTheList ==
  cursor # 0 => start[cursor] # Nil /\ (WalksAppList => start[cursor].app = event.app)

WalkDecides ==
  /\ pc = "prune" /\ event # Nil => StopMode(event) # "none"
  /\ pc = "walk" =>
       /\ StopMode(event) # "none" /\ OnTheList
       /\ \A i \in Index : Candidate(i) =>
            ends[i] = (IF options.reuse /\ cursor < i /\ Fits(i) THEN EndHere(i) ELSE Nil)
       /\ ~options.reuse => \A i \in Index : Candidate(i) /\ cursor < i => ~Fits(i)

WalkDecided ==
  pc \in {"tidy", "advance"} =>
    \A i \in Index : Candidate(i) => ends[i] = (IF Due(i) THEN EndHere(i) ELSE Nil)

FinishDecides ==
  pc = "finish" =>
    /\ cursor # 0 => start[cursor] # Nil
    /\ \A i \in Index : Candidate(i) => ends[i] = (IF cursor < i THEN LateEnd(i) ELSE Nil)

RInv ==
  /\ IInv /\ TimeInOrder /\ MarksAgree
  /\ WalkDecides /\ WalkDecided /\ FinishDecides

\* A step that reports nothing: the reference matcher stutters.
DoneNothing ==
  \A i \in Index : /\ Reported(i)' <=> Reported(i)
                   /\ Reported(i) => ends'[i] = ends[i]

LEMMA StopReasonsAreNotLate ==
  ASSUME NEW o, NEW e, NEW a
  PROVE  CloseReason(o, e, a) \notin LateReasons
  BY DEF CloseReason, LateReasons

LEMMA RInvInitially == Init => RInv
  BY InitEstablishes, MatcherAssumption
     DEF Init, RInv, TimeInOrder, MarksAgree, WalkDecides, WalkDecided, FinishDecides, Index

LEMMA TimeStep ==
  ASSUME RInv, [Next]_vars
  PROVE  TimeInOrder'
<1> USE MatcherAssumption
<1> USE DEF RInv, IInv
<1>1. ASSUME NEW a \in App, NEW k \in Kinds, NEW g \in Gap,
             Read([app |-> a, kind |-> k, at |-> now + g])
      PROVE  TimeInOrder'
  <2>1. event'.at = now + g /\ UNCHANGED matcher /\ pc' \in {"prune", "advance"}
    BY <1>1 DEF Read
  <2>2. event' # Nil
    <3>1. now + g \in Nat
      BY DEF TypeOK
    <3>2. [app |-> a, kind |-> k, at |-> now + g] \in Events
      BY <3>1 DEF Events
    <3> QED BY <1>1, <3>2 DEF Read
  <2> QED
    BY <2>1, <2>2 DEF TimeInOrder, matcher
<1>2. ASSUME Advance
      PROVE  TimeInOrder'
  <2>1. event # Nil /\ count + 1 \in Index /\ event \in Events /\ event.at \in Nat
    BY <1>2, CountInIndex DEF Advance, EventsInPlace, Events
  <2>2. event.at >= now
    BY <2>1 DEF TimeInOrder, TypeOK
  <2>3. /\ now' = event.at /\ count' = count + 1 /\ event' = Nil /\ pc' = "next"
    BY <1>2 DEF Advance
  <2> DEFINE s == [app |-> event.app, at |-> event.at,
                   reresumed |-> IsReresume(options, event, last[event.app])]
  <2>4. start' = [start EXCEPT ![count + 1] = s] \/ start' = start
    BY <1>2 DEF Advance
  <2>5. s.at = event.at
    OBVIOUS
  <2> HIDE DEF s
  <2>6. \A i \in Index : start'[i] # Nil =>
          \/ start'[i] = start[i] /\ i <= count
          \/ i = count + 1 /\ start'[i] = s
    BY <2>4, <2>1 DEF TypeOK
  <2>7. \A i \in Index : start[i] # Nil => start[i].at \in Nat /\ start[i].at <= now
    BY DEF TypeOK, Starts, TimeInOrder
  <2>8. now \in Nat /\ count \in Nat
    BY DEF TypeOK
  <2>9. \A i \in Index : start'[i] # Nil => start'[i].at <= now'
    BY <2>1, <2>2, <2>3, <2>5, <2>6, <2>7, <2>8
  <2>10. \A i, j \in Index :
           start'[i] # Nil /\ start'[j] # Nil /\ i < j => start'[i].at <= start'[j].at
    <3> TAKE i, j \in Index
    <3> HAVE start'[i] # Nil /\ start'[j] # Nil /\ i < j
    <3>1. CASE start'[j] = start[j] /\ j <= count
      <4>1. start'[i] = start[i]
        BY <3>1, <2>6, <2>8 DEF Index
      <4> QED BY <3>1, <4>1 DEF TimeInOrder
    <3>2. CASE j = count + 1 /\ start'[j] = s
      <4>1. start'[i] = start[i]
        BY <3>2, <2>6, <2>8 DEF Index
      <4> QED BY <3>2, <4>1, <2>1, <2>2, <2>5, <2>7, <2>8
    <3> QED BY <3>1, <3>2, <2>6
  <2> QED BY <2>3, <2>9, <2>10 DEF TimeInOrder
<1>3. ASSUME Prune \/ SkipClosed \/ SkipUnwanted \/ GiveUp \/ Close \/ Tidy
      PROVE  TimeInOrder'
  <2>1. UNCHANGED <<matcher, event>> /\ pc' \in Places
    BY <1>3, TypeStep
       DEF Prune, SkipClosed, SkipUnwanted, GiveUp, Close, Tidy, Next, TypeOK
  <2>2. /\ pc' = "prune" => pc = "prune"
        /\ pc' = "finish" => pc = "prune" /\ event = Nil
        /\ pc' # "next"
    BY <1>3
       DEF Prune, SkipClosed, SkipUnwanted, GiveUp, WalkEnds, Close, Tidy
  <2> QED
    BY <2>1, <2>2 DEF TimeInOrder, matcher
<1>4. ASSUME StartFinish \/ FinishOpenStarts \/ Finished
      PROVE  TimeInOrder'
  BY <1>4 DEF StartFinish, FinishOpenStarts, Finished, TimeInOrder, EventsInPlace, TypeOK, matcher
<1>5. ASSUME UNCHANGED vars
      PROVE  TimeInOrder'
  BY <1>5 DEF vars, matcher, TimeInOrder
<1> QED
  BY <1>1, <1>2, <1>3, <1>4, <1>5 DEF Next

LEMMA MarksStep ==
  ASSUME RInv, [Next]_vars
  PROVE  MarksAgree'
<1> USE MatcherAssumption
<1> USE DEF RInv, IInv
<1>1. ASSUME NEW e, Read(e)
      PROVE  MarksAgree'
  <2>1. /\ pc = "next" /\ pc' \in {"prune", "advance"}
        /\ UNCHANGED <<start, count, ends, closed>>
    BY <1>1 DEF Read, matcher
  <2>2. \A i \in Index : ends[i] # Nil => ends[i].stop \in Nat /\ count \in Nat
    BY DEF TypeOK, Ends
  <2> QED
    BY <2>1, <2>2 DEF MarksAgree
<1>2. ASSUME Prune \/ Tidy \/ StartFinish
      PROVE  MarksAgree'
  <2>1. UNCHANGED <<start, count, ends, closed>> /\ pc \in {"prune", "tidy", "next"}
    BY <1>2 DEF Prune, Tidy, StartFinish, matcher
  <2>2. /\ pc' # "done" /\ (pc = "tidy" => pc' \in {"tidy", "advance"})
    BY <1>2 DEF Prune, Tidy, StartFinish
  <2>3. ends \in [Index -> Ends \cup {Nil}] /\ count \in Nat
    BY DEF TypeOK
  <2> QED
    BY <2>1, <2>2, <2>3 DEF MarksAgree, Ends, Index
<1>3. ASSUME SkipClosed \/ SkipUnwanted \/ GiveUp
      PROVE  MarksAgree'
  BY <1>3 DEF SkipClosed, SkipUnwanted, GiveUp, WalkEnds, MarksAgree, matcher, lists
<1>4. ASSUME Close
      PROVE  MarksAgree'
  <2>1. /\ pc = "walk" /\ cursor \in Index /\ pc' \in {"walk", "tidy", "advance"}
        /\ UNCHANGED <<start, count>>
    BY <1>4, PreviousInRange DEF Close, WalkEnds, TypeOK, matcher
  <2>2. start[cursor] # Nil
    BY <2>1, <1>4 DEF WalkDecides, OnTheList, Close
  <2>3. CASE UNCHANGED <<closed, ends>>
    BY <2>1, <2>3 DEF MarksAgree
  <2>4. CASE Closed(cursor, count + 1, CloseReason(options, event, start[cursor].app))
    <3> DEFINE end == [stop |-> count + 1,
                       reason |-> CloseReason(options, event, start[cursor].app)]
    <3>1. end.stop = count + 1 /\ end.reason \notin LateReasons
      BY StopReasonsAreNotLate
    <3>2. end \in Ends
      BY CountInIndex, ReasonsOfCloses, <2>1 DEF Ends, Index, EventsInPlace
    <3>3. ends' = [ends EXCEPT ![cursor] = end] /\ closed' = [closed EXCEPT ![cursor] = TRUE]
      BY <2>4 DEF Closed
    <3> HIDE DEF end
    <3>4. /\ ends'[cursor] = end /\ closed'[cursor] /\ end # Nil
          /\ \A i \in Index : i # cursor => ends'[i] = ends[i] /\ closed'[i] = closed[i]
      BY <3>2, <3>3, <2>1 DEF TypeOK
    <3>5. count \in Nat
      BY DEF TypeOK
    <3> QED
      BY <2>1, <2>2, <3>1, <3>4, <3>5 DEF MarksAgree
  <2> QED BY <1>4, <2>3, <2>4 DEF Close
<1>5. ASSUME Advance
      PROVE  MarksAgree'
  <2>1. /\ pc = "advance" /\ pc' = "next" /\ count' = count + 1
        /\ UNCHANGED <<ends, closed>>
    BY <1>5 DEF Advance
  <2>2. count + 1 \in Index /\ event \in Events
    BY <2>1, CountInIndex DEF EventsInPlace
  <2> DEFINE s == [app |-> event.app, at |-> event.at,
                   reresumed |-> IsReresume(options, event, last[event.app])]
  <2>3. s \in Starts
    BY <2>2 DEF Starts, IsReresume, TypeOK, LastEvents, Events
  <2> HIDE DEF s
  <2>4. start' = [start EXCEPT ![count + 1] = s] \/ start' = start
    BY <1>5 DEF Advance, s
  <2>5. \A i \in Index : start[i] # Nil => start'[i] # Nil
    BY <2>2, <2>3, <2>4 DEF TypeOK
  <2> QED BY <2>1, <2>5 DEF MarksAgree
<1>6. ASSUME FinishOpenStarts
      PROVE  MarksAgree'
  <2>1. /\ pc = "finish" /\ pc' = "finish" /\ UNCHANGED <<start, count>>
        /\ cursor' = globalPrev[cursor] /\ cursor # 0
    BY <1>6 DEF FinishOpenStarts, matcher
  <2>2. cursor \in 1..count /\ count \in Nat
    BY <2>1 DEF TypeOK
  <2>3. cursor \in Index /\ cursor' \in Nat /\ cursor' < cursor
    BY <2>1, <2>2, PreviousInRange DEF ChainsExact
  <2>4. start[cursor] # Nil
    BY <2>1 DEF FinishDecides
  <2>5. \A i \in Index : i # cursor => ends'[i] = ends[i] /\ closed'[i] = closed[i]
    BY <1>6 DEF FinishOpenStarts, Closed, TypeOK
  <2>6. CASE closed[cursor]
    <3>1. UNCHANGED <<closed, ends>>
      BY <1>6, <2>6 DEF FinishOpenStarts
    <3> QED BY <3>1, <2>1, <2>2, <2>3 DEF MarksAgree, Index
  <2>7. CASE ~closed[cursor]
    <3>1. ends'[cursor].stop \in {0, count} /\ (closed'[cursor] => ends'[cursor] # Nil)
      <4>1. /\ [stop |-> count, reason |-> "endOfStream"] \in Ends
            /\ [stop |-> 0, reason |-> "unobserved"] \in Ends
        BY DEF Ends, Reasons, TypeOK
      <4>2. CASE ends' = [ends EXCEPT ![cursor] = [stop |-> count, reason |-> "endOfStream"]]
        BY <4>1, <4>2, <2>3 DEF TypeOK
      <4>3. CASE /\ ends' = [ends EXCEPT ![cursor] = [stop |-> 0, reason |-> "unobserved"]]
                 /\ UNCHANGED closed
        BY <4>1, <4>3, <2>3, <2>7 DEF TypeOK
      <4> QED
        BY <1>6, <2>7, <4>2, <4>3 DEF FinishOpenStarts, Closed
    <3> QED
      BY <3>1, <2>1, <2>2, <2>3, <2>4, <2>5 DEF MarksAgree, Index
  <2> QED BY <2>6, <2>7
<1>7. ASSUME Finished
      PROVE  MarksAgree'
  BY <1>7 DEF Finished, MarksAgree, matcher, lists
<1>8. ASSUME UNCHANGED vars
      PROVE  MarksAgree'
  BY <1>8 DEF vars, matcher, MarksAgree
<1> QED
  BY <1>1, <1>2, <1>3, <1>4, <1>5, <1>6, <1>7, <1>8 DEF Next

\* What a walk asks of a start depends on the log and the event alone.
LEMMA DecisionsStable ==
  ASSUME UNCHANGED <<matcher, event>>
  PROVE  \A i \in Index : /\ Fits(i)' <=> Fits(i)
                          /\ HeldBack(event, i)' <=> HeldBack(event, i)
                          /\ EndHere(i)' = EndHere(i)
                          /\ LateEnd(i)' = LateEnd(i)
<1>1. UNCHANGED <<options, count, now, start, event>>
  BY DEF matcher
<1>2. StopMode(event)' = StopMode(event)
  BY <1>1 DEF StopMode
<1>3. WalksAppList' <=> WalksAppList
  BY <1>1, <1>2 DEF WalksAppList
<1>4. \A i \in Index : /\ Wants(event, i)' <=> Wants(event, i)
                       /\ HeldBack(event, i)' <=> HeldBack(event, i)
  BY <1>1, <1>2 DEF Wants, HeldBack
<1>5. \A i \in Index : InReach(i)' <=> InReach(i)
  BY <1>1, <1>2 DEF InReach, EnforcesThreshold
<1>6. \A i \in Index : Fits(i)' <=> Fits(i)
  BY <1>1, <1>2, <1>3, <1>4, <1>5 DEF Fits
<1>7. \A i \in Index : EndHere(i)' = EndHere(i) /\ LateEnd(i)' = LateEnd(i)
  BY <1>1 DEF EndHere, LateEnd
<1> QED BY <1>4, <1>6, <1>7

LEMMA DueStable ==
  ASSUME UNCHANGED <<matcher, event>>,
         \A i \in Index : Candidate(i)' <=> Candidate(i)
  PROVE  \A i \in Index : Due(i)' <=> Due(i)
<1>1. UNCHANGED options
  BY DEF matcher
<1> QED
  BY <1>1, DecisionsStable DEF Due

\* Older starts are even farther away.
LEMMA OutOfReach ==
  ASSUME RInv, event # Nil, NEW i \in Index, NEW j \in Index,
         start[i] # Nil, start[j] # Nil, i <= j, ~InReach(j)
  PROVE  ~InReach(i)
<1> USE MatcherAssumption
<1>1. /\ start[i].at \in Nat /\ start[j].at \in Nat /\ event.at \in Nat /\ now \in Nat
      /\ start[j].at <= now
  BY DEF RInv, IInv, TypeOK, TimeInOrder, Starts, Events
<1>2. start[i].at <= start[j].at
  BY <1>1 DEF RInv, TimeInOrder, Index
<1>3. event.at >= now
  BY <1>1 DEF RInv, TimeInOrder
<1>4. PICK b \in BOOLEAN : b = EnforcesThreshold(StopMode(event))
  BY DEF EnforcesThreshold
<1> QED
  BY <1>1, <1>2, <1>3, <1>4 DEF InReach, IsValidDuration

LEMMA SilentStep ==
  ASSUME RInv,
         \/ \E e : Read(e)
         \/ Prune \/ SkipClosed \/ SkipUnwanted \/ GiveUp \/ Close \/ Tidy
         \/ StartFinish \/ FinishOpenStarts
  PROVE  /\ DoneNothing /\ UNCHANGED matcher /\ pc # "done" /\ pc' # "done"
         /\ \A i \in Index : Candidate(i)' <=> Candidate(i)
<1> USE MatcherAssumption
<1>1. UNCHANGED matcher /\ pc # "done" /\ pc' # "done"
  BY DEF Read, Prune, SkipClosed, SkipUnwanted, GiveUp, WalkEnds, Close, Tidy,
         StartFinish, FinishOpenStarts
<1>2. SUFFICES DoneNothing
  BY <1>1, <1>2 DEF DoneNothing, Candidate, matcher
<1>3. count' = count /\ count \in Nat
  BY <1>1 DEF matcher, RInv, IInv, TypeOK
<1>4. CASE (\E e : Read(e)) \/ Prune \/ StartFinish
  <2>1. pc \in {"next", "prune"} /\ UNCHANGED ends
    BY <1>4 DEF Read, Prune, StartFinish
  <2>2. \A i \in Index : ends[i] # Nil => ends[i].reason \notin LateReasons
    BY <2>1 DEF RInv, MarksAgree
  <2> QED
    BY <1>3, <2>1, <2>2 DEF DoneNothing, Reported, LateReasons
<1>5. CASE SkipClosed \/ SkipUnwanted \/ GiveUp \/ Tidy
  <2>1. pc # "finish" /\ pc' # "finish" /\ UNCHANGED ends
    BY <1>5 DEF SkipClosed, SkipUnwanted, GiveUp, WalkEnds, Tidy
  <2> QED
    BY <1>3, <2>1 DEF DoneNothing, Reported
<1>6. CASE Close
  <2>1. pc # "finish" /\ pc' # "finish" /\ ~closed[cursor] /\ cursor \in Index
    BY <1>6, PreviousInRange DEF Close, WalkEnds, RInv, IInv, TypeOK
  <2>2. ends[cursor] = Nil
    BY <2>1, <1>1 DEF RInv, MarksAgree
  <2> DEFINE end == [stop |-> count + 1,
                     reason |-> CloseReason(options, event, start[cursor].app)]
  <2>3. end.stop = count + 1
    OBVIOUS
  <2> HIDE DEF end
  <2>4. ends' = ends \/ ends' = [ends EXCEPT ![cursor] = end]
    BY <1>6 DEF Close, Closed, end
  <2>5. \A i \in Index : ends'[i] = ends[i] \/ (i = cursor /\ ends'[i] = end)
    BY <2>1, <2>4 DEF RInv, IInv, TypeOK
  <2> QED
    BY <1>3, <2>1, <2>2, <2>3, <2>5 DEF DoneNothing, Reported
<1>7. CASE FinishOpenStarts
  <2>1. /\ pc = "finish" /\ pc' = "finish" /\ cursor \in Index
        /\ cursor \in Nat
    BY <1>7, PreviousInRange DEF FinishOpenStarts, RInv, IInv, TypeOK
  <2>2. CASE closed[cursor]
    <3>1. UNCHANGED ends
      BY <1>7, <2>2 DEF FinishOpenStarts
    <3> QED BY <1>3, <2>1, <3>1 DEF DoneNothing, Reported
  <2>3. CASE ~closed[cursor]
    <3>1. ends[cursor] = Nil
      BY <2>1, <2>3 DEF RInv, MarksAgree
    <3>2. \/ ends' = [ends EXCEPT ![cursor] = [stop |-> count, reason |-> "endOfStream"]]
          \/ ends' = [ends EXCEPT ![cursor] = [stop |-> 0, reason |-> "unobserved"]]
      BY <1>7, <2>3 DEF FinishOpenStarts, Closed
    <3>3. ends'[cursor].reason \in LateReasons
      BY <3>2, <2>1 DEF RInv, IInv, TypeOK, LateReasons
    <3>4. \A i \in Index : i # cursor => ends'[i] = ends[i]
      BY <3>2 DEF RInv, IInv, TypeOK
    <3> QED
      BY <1>3, <2>1, <3>1, <3>3, <3>4 DEF DoneNothing, Reported, LateReasons
  <2> QED BY <2>2, <2>3
<1> QED BY <1>4, <1>5, <1>6, <1>7

\* The walk passes no start that fits between one start of its list and the next.
LEMMA NothingBetween ==
  ASSUME RInv, pc = "walk", cursor # 0
  PROVE  /\ cursor \in Index /\ Prev(cursor) \in Nat /\ Prev(cursor) < cursor
         /\ Prev(cursor) # 0 =>
              /\ start[Prev(cursor)] # Nil
              /\ WalksAppList => start[Prev(cursor)].app = event.app
         /\ \A i \in Index :
              Candidate(i) /\ Prev(cursor) < i /\ i < cursor => ~Fits(i)
<1> USE MatcherAssumption
<1> USE DEF RInv, IInv
<1>1. cursor \in 1..count /\ cursor \in Index
  BY PreviousInRange DEF TypeOK
<1>2. start[cursor] # Nil /\ (WalksAppList => start[cursor].app = event.app)
  BY DEF WalkDecides, OnTheList
<1>3. Prev(cursor) \in Nat /\ Prev(cursor) < cursor
  <2>1. globalPrev[cursor] \in Nat /\ appPrev[cursor] \in Nat
    BY <1>1 DEF TypeOK
  <2>2. globalPrev[cursor] < cursor /\ appPrev[cursor] < cursor
    BY <1>1 DEF ChainsExact
  <2> QED BY <2>1, <2>2 DEF Prev
<1>4. Prev(cursor) # 0 => /\ start[Prev(cursor)] # Nil
                          /\ WalksAppList => start[Prev(cursor)].app = event.app
  BY <1>1, <1>2 DEF Prev, LinksLeadToStarts
<1>5. ASSUME NEW i \in Index, Candidate(i), Prev(cursor) < i, i < cursor, Fits(i)
      PROVE  FALSE
  <2>1. start[i] # Nil /\ (WalksAppList => start[i].app = event.app)
    BY <1>5 DEF Candidate, Fits
  <2>2. start[cursor].app \in App
    BY <1>1, <1>2 DEF TypeOK, Starts
  <2>3. CASE WalksAppList
    <3>1. appPrev[cursor] < i /\ start[i].app = start[cursor].app
      BY <2>1, <2>3, <1>2, <1>5 DEF Prev
    <3>2. closed[i]
      BY <3>1, <2>1, <2>2, <1>1, <1>2, <1>5 DEF ChainsExact
    <3> QED
      BY <3>2, <1>5, <1>1 DEF MarksAgree, WalkDecides, Index
  <2>4. CASE ~WalksAppList
    <3>1. globalPrev[cursor] < i
      BY <2>4, <1>5 DEF Prev
    <3>2. closed[i]
      BY <3>1, <2>1, <1>1, <1>2, <1>5 DEF ChainsExact
    <3> QED
      BY <3>2, <1>5, <1>1 DEF MarksAgree, WalkDecides, Index
  <2> QED BY <2>3, <2>4
<1>6. \A i \in Index : Candidate(i) /\ Prev(cursor) < i /\ i < cursor => ~Fits(i)
  BY <1>5
<1> HIDE DEF RInv, IInv
<1> QED BY <1>1, <1>3, <1>4, <1>6, Zenon

\* Before a walk no candidate has ended, and all candidates lie in its list
\* below the head.
LEMMA NothingAboveHead ==
  ASSUME RInv, pc = "prune", ~IsClosed(WalkHead)
  PROVE  /\ WalkHead \in 0..count
         /\ WalkHead # 0 => start[WalkHead] # Nil /\ (WalksAppList => start[WalkHead].app = event.app)
         /\ \A i \in Index : Candidate(i) => ends[i] = Nil
         /\ \A i \in Index : Candidate(i) /\ WalkHead < i /\ event # Nil => ~Fits(i)
         /\ \A i \in Index : Candidate(i) /\ event = Nil => i <= WalkHead
<1> USE MatcherAssumption
<1> USE DEF RInv, IInv
<1>1. WalkHead \in 0..count
  BY DEF WalkHead, WalksAppList, TypeOK, Events
<1>2. WalkHead # 0 => start[WalkHead] # Nil /\ (WalksAppList => start[WalkHead].app = event.app)
  <2>1. WalksAppList => event.app \in App
    BY DEF WalksAppList, TypeOK, Events
  <2> QED BY <2>1 DEF WalkHead, LinksLeadToStarts
<1>3. \A i \in Index : Candidate(i) => ends[i] = Nil
  BY DEF Candidate, Reported, MarksAgree
<1>4. ASSUME NEW i \in Index, Candidate(i), WalkHead < i,
             WalksAppList => start[i].app = event.app
      PROVE  FALSE
  <2>1. start[i] # Nil /\ i < MaxEvents + 1
    BY <1>4 DEF Candidate, Index
  <2>2. CASE WalksAppList
    <3>1. event.app \in App
      BY <2>2 DEF WalksAppList, TypeOK, Events
    <3>2. appHead[event.app] < i /\ start[i].app = event.app
      BY <2>2, <1>4 DEF WalkHead
    <3>3. closed[i]
      BY <3>1, <3>2, <2>1 DEF ChainsExact
    <3> QED BY <3>3, <1>3, <1>4 DEF MarksAgree
  <2>3. CASE ~WalksAppList
    <3>1. globalHead < i
      BY <2>3, <1>4 DEF WalkHead
    <3>2. closed[i]
      BY <3>1, <2>1 DEF ChainsExact
    <3> QED BY <3>2, <1>3, <1>4 DEF MarksAgree
  <2> QED BY <2>2, <2>3
<1>5. \A i \in Index : Candidate(i) /\ WalkHead < i /\ event # Nil => ~Fits(i)
  <2> TAKE i \in Index
  <2> HAVE Candidate(i) /\ WalkHead < i /\ event # Nil
  <2> SUFFICES ASSUME Fits(i) PROVE FALSE
    OBVIOUS
  <2>1. WalksAppList => start[i].app = event.app
    BY DEF Fits
  <2> QED BY <2>1, <1>4
<1>6. \A i \in Index : Candidate(i) /\ event = Nil => i <= WalkHead
  <2> TAKE i \in Index
  <2> HAVE Candidate(i) /\ event = Nil
  <2>1. ~WalksAppList
    BY DEF WalksAppList
  <2>2. ~(WalkHead < i)
    BY <2>1, <1>4
  <2>3. WalkHead \in Int /\ i \in Int
    BY <1>1 DEF Index
  <2> QED BY <2>2, <2>3
<1> HIDE DEF RInv, IInv
<1> QED BY <1>1, <1>2, <1>3, <1>5, <1>6, Zenon

LEMMA WalkStep ==
  ASSUME RInv, [Next]_vars
  PROVE  WalkDecides'
<1> USE MatcherAssumption
<1>1. ASSUME NEW e, Read(e)
      PROVE  WalkDecides'
  <2>1. pc' # "walk" /\ UNCHANGED options
    BY <1>1 DEF Read, matcher
  <2>2. pc' = "prune" => StopMode(event') # "none"
    BY <1>1 DEF Read
  <2>3. StopMode(event)' = StopMode(event')
    BY <2>1 DEF StopMode
  <2> QED BY <2>1, <2>2, <2>3 DEF WalkDecides
<1>2. ASSUME Prune
      PROVE  WalkDecides'
  <2>1. pc = "prune" /\ UNCHANGED <<options, event, ends, start>>
    BY <1>2 DEF Prune, matcher
  <2>2. StopMode(event)' = StopMode(event)
    BY <2>1 DEF StopMode
  <2>3. pc' = "prune" /\ event # Nil => StopMode(event) # "none"
    BY <2>1 DEF RInv, WalkDecides
  <2>4. CASE pc' # "walk"
    BY <2>1, <2>2, <2>3, <2>4 DEF WalkDecides
  <2>5. CASE pc' = "walk"
    <3>1. ~IsClosed(WalkHead) /\ cursor' = WalkHead /\ event # Nil
      BY <1>2, <2>1, <2>5 DEF Prune
    <3>2. StopMode(event) # "none"
      BY <2>1, <3>1 DEF RInv, WalkDecides
    <3>3. WalksAppList' <=> WalksAppList
      BY <2>1, <2>2 DEF WalksAppList
    <3>4. OnTheList'
      BY <2>1, <3>1, <3>3, NothingAboveHead DEF OnTheList
    <3>5. \A i \in Index : (Candidate(i)' <=> Candidate(i)) /\ (Fits(i)' <=> Fits(i))
      BY <1>2, <2>1, SilentStep, DecisionsStable
    <3>6. \A i \in Index : Candidate(i) => ends[i] = Nil /\ (WalkHead < i => ~Fits(i))
      BY <2>1, <3>1, NothingAboveHead
    <3> QED
      BY <2>1, <2>2, <2>5, <3>1, <3>2, <3>4, <3>5, <3>6 DEF WalkDecides
  <2> QED BY <2>4, <2>5
<1>3. ASSUME SkipClosed \/ SkipUnwanted \/ (Close /\ options.reuse)
      PROVE  WalkDecides'
  <2>1. /\ pc = "walk" /\ pc' = "walk" /\ cursor # 0 /\ cursor' = Prev(cursor)
        /\ UNCHANGED <<options, count, event, start>>
    BY <1>3 DEF SkipClosed, SkipUnwanted, Close, IsClosed, matcher
  <2>2. StopMode(event)' = StopMode(event) /\ (WalksAppList' <=> WalksAppList)
    <3>1. StopMode(event)' = StopMode(event)
      BY <2>1 DEF StopMode
    <3> QED BY <2>1, <3>1 DEF WalksAppList
  <2>3. /\ cursor \in Index /\ Prev(cursor) \in Nat /\ Prev(cursor) < cursor
        /\ Prev(cursor) # 0 =>
             start[Prev(cursor)] # Nil /\ (WalksAppList => start[Prev(cursor)].app = event.app)
        /\ \A i \in Index : Candidate(i) /\ Prev(cursor) < i /\ i < cursor => ~Fits(i)
    BY <2>1, NothingBetween
  <2>4. OnTheList'
    BY <2>1, <2>2, <2>3 DEF OnTheList
  <2>5. /\ StopMode(event) # "none" /\ OnTheList
        /\ \A i \in Index : Candidate(i) =>
             ends[i] = (IF options.reuse /\ cursor < i /\ Fits(i) THEN EndHere(i) ELSE Nil)
        /\ ~options.reuse => \A i \in Index : Candidate(i) /\ cursor < i => ~Fits(i)
    BY <2>1 DEF RInv, WalkDecides
  <2>6. \A i \in Index : /\ Candidate(i)' <=> Candidate(i)
                         /\ Fits(i)' <=> Fits(i)
                         /\ EndHere(i)' = EndHere(i)
    <3>1. UNCHANGED matcher
      BY <1>3 DEF SkipClosed, SkipUnwanted, Close
    <3> QED BY <1>3, <2>1, <3>1, SilentStep, DecisionsStable
  <2>7. \A i \in Index : i # cursor => ends'[i] = ends[i]
    BY <1>3, <2>3
       DEF SkipClosed, SkipUnwanted, Close, Closed, RInv, IInv, TypeOK
  <2>8. Candidate(cursor) =>
          /\ ends'[cursor] = (IF options.reuse /\ Fits(cursor) THEN EndHere(cursor) ELSE Nil)
          /\ ~options.reuse => ~Fits(cursor)
    <3> HAVE Candidate(cursor)
    <3>1. ends[cursor] = Nil /\ ~closed[cursor]
      BY <2>1, <2>3, <2>5 DEF RInv, MarksAgree, Index
    <3>2. CASE SkipUnwanted
      <4>1. ends' = ends /\ ~Wants(event, cursor)
        BY <3>2 DEF SkipUnwanted
      <4> QED BY <4>1, <3>1 DEF Fits
    <3>3. CASE Close /\ options.reuse
      <4>1. ends' = [ends EXCEPT ![cursor] = EndHere(cursor)]
        BY <3>3 DEF Close, Closed, EndHere
      <4>2. Fits(cursor)
        BY <2>1, <2>5, <3>3 DEF Fits, Close, OnTheList
      <4> QED BY <4>1, <4>2, <3>3, <2>3 DEF RInv, IInv, TypeOK
    <3> QED BY <1>3, <3>1, <3>2, <3>3 DEF SkipClosed, IsClosed
  <2>9. \A i \in Index : Candidate(i) =>
          ends'[i] = (IF options.reuse /\ cursor' < i /\ Fits(i) THEN EndHere(i) ELSE Nil)
    <3> TAKE i \in Index
    <3> HAVE Candidate(i)
    <3>1. i \in Int /\ cursor \in Int
      BY <2>3 DEF Index
    <3>2. CASE cursor < i
      BY <3>1, <3>2, <2>1, <2>3, <2>5, <2>7
    <3>3. CASE i = cursor
      BY <3>1, <3>3, <2>1, <2>3, <2>8
    <3>4. CASE i < cursor
      BY <3>1, <3>4, <2>1, <2>3, <2>5, <2>7
    <3> QED BY <3>1, <3>2, <3>3, <3>4
  <2>10. ~options.reuse => \A i \in Index : Candidate(i) /\ cursor' < i => ~Fits(i)
    <3> HAVE ~options.reuse
    <3> TAKE i \in Index
    <3> HAVE Candidate(i) /\ cursor' < i
    <3>1. i \in Int /\ cursor \in Int
      BY <2>3 DEF Index
    <3>2. CASE i = cursor
      BY <3>2, <2>8
    <3>3. CASE i # cursor
      BY <3>1, <3>3, <2>1, <2>3, <2>5
    <3> QED BY <3>2, <3>3
  <2> QED
    BY <2>1, <2>2, <2>4, <2>5, <2>6, <2>9, <2>10 DEF WalkDecides
<1>4. ASSUME GiveUp \/ (Close /\ ~options.reuse) \/ Tidy \/ Advance
             \/ FinishOpenStarts \/ Finished
      PROVE  WalkDecides'
  <2>1. pc' # "walk" /\ pc' # "prune"
    BY <1>4 DEF GiveUp, Close, WalkEnds, Tidy, Advance, FinishOpenStarts, Finished
  <2> QED BY <2>1 DEF WalkDecides
<1>5. ASSUME StartFinish
      PROVE  WalkDecides'
  <2>1. pc' = "prune" /\ event' = Nil
    BY <1>5 DEF StartFinish, RInv, TimeInOrder
  <2> QED BY <2>1 DEF WalkDecides
<1>6. ASSUME UNCHANGED vars
      PROVE  WalkDecides'
  <2>1. UNCHANGED <<matcher, event, ends, pc, cursor>>
    BY <1>6 DEF vars
  <2>2. \A i \in Index : Candidate(i)' <=> Candidate(i)
    BY <2>1 DEF Candidate, Reported, matcher
  <2>3. StopMode(event)' = StopMode(event) /\ UNCHANGED <<options, start>>
    BY <2>1 DEF StopMode, matcher
  <2>4. WalksAppList' <=> WalksAppList
    BY <2>1, <2>3 DEF WalksAppList
  <2>5. OnTheList' <=> OnTheList
    BY <2>1, <2>3, <2>4 DEF OnTheList
  <2>6. \A i \in Index : (Fits(i)' <=> Fits(i)) /\ EndHere(i)' = EndHere(i)
    BY <2>1, DecisionsStable
  <2>7. WalkDecides
    BY DEF RInv
  <2> QED
    BY <2>1, <2>2, <2>3, <2>5, <2>6, <2>7 DEF WalkDecides
<1> QED
  BY <1>1, <1>2, <1>3, <1>4, <1>5, <1>6 DEF Next

LEMMA DecidedStep ==
  ASSUME RInv, [Next]_vars
  PROVE  WalkDecided'
<1> USE MatcherAssumption
<1>1. ASSUME NEW e, Read(e)
      PROVE  WalkDecided'
  <2>1. CASE pc' # "advance"
    BY <1>1, <2>1 DEF Read, WalkDecided
  <2>2. CASE pc' = "advance"
    <3>1. StopMode(e) = "none" /\ event' = e /\ pc = "next" /\ UNCHANGED <<options, ends>>
      BY <1>1, <2>2 DEF Read, matcher
    <3>2. StopMode(event)' = "none"
      BY <3>1 DEF StopMode
    <3>3. \A i \in Index : Candidate(i)' => ends'[i] = Nil
      <4>1. \A i \in Index : Candidate(i)' => Candidate(i)
        BY <1>1, SilentStep
      <4> QED
        BY <4>1, <3>1 DEF Candidate, Reported, RInv, MarksAgree
    <3>4. \A i \in Index : ~Due(i)'
      BY <3>2 DEF Due, Fits
    <3> QED BY <3>3, <3>4 DEF WalkDecided
  <2> QED BY <2>1, <2>2
<1>2. ASSUME GiveUp \/ (Close /\ ~options.reuse)
      PROVE  WalkDecided'
  <2>1. pc = "walk" /\ UNCHANGED <<matcher, event>>
    BY <1>2 DEF GiveUp, Close
  <2>2. /\ OnTheList /\ StopMode(event) # "none"
        /\ \A i \in Index : Candidate(i) =>
             ends[i] = (IF options.reuse /\ cursor < i /\ Fits(i) THEN EndHere(i) ELSE Nil)
        /\ ~options.reuse => \A i \in Index : Candidate(i) /\ cursor < i => ~Fits(i)
    BY <2>1 DEF RInv, WalkDecides
  <2>3. \A i \in Index : /\ Candidate(i)' <=> Candidate(i)
                         /\ Due(i)' <=> Due(i)
                         /\ EndHere(i)' = EndHere(i)
    BY <1>2, <2>1, SilentStep, DecisionsStable, DueStable
  <2>4. cursor \in 0..count /\ count \in Nat /\ (cursor # 0 => cursor \in Index)
    BY PreviousInRange DEF RInv, IInv, TypeOK
  <2>5. CASE GiveUp
    <3>1. \A i \in Index : Candidate(i) /\ i <= cursor => ~Fits(i)
      <4> TAKE i \in Index
      <4> HAVE Candidate(i) /\ i <= cursor
      <4>1. cursor # 0 /\ cursor \in Index
        BY <2>4 DEF Index
      <4>2. ~InReach(cursor) /\ event # Nil
        BY <4>1, <2>1, <2>5 DEF GiveUp, RInv, IInv, EventsInPlace
      <4>3. start[i] # Nil /\ start[cursor] # Nil
        BY <4>1, <2>2 DEF Candidate, OnTheList
      <4>4. ~InReach(i)
        BY <4>1, <4>2, <4>3, OutOfReach
      <4> QED BY <4>4 DEF Fits
    <3>2. \A i \in Index : i <= cursor \/ cursor < i
      BY <2>4 DEF Index
    <3>3. \A i \in Index : Candidate(i) =>
            ends[i] = (IF Due(i) THEN EndHere(i) ELSE Nil)
      BY <2>2, <2>4, <3>1, <3>2 DEF Due, Index
    <3>4. UNCHANGED ends
      BY <2>5 DEF GiveUp
    <3> QED BY <2>3, <3>3, <3>4 DEF WalkDecided
  <2>6. CASE Close /\ ~options.reuse
    <3>1. cursor \in Index /\ ~closed[cursor] /\ start[cursor] # Nil
      BY <2>2, <2>4, <2>6 DEF Close, OnTheList
    <3>2. Fits(cursor)
      BY <2>2, <2>6 DEF Fits, Close, OnTheList
    <3>3. Candidate(cursor)
      <4>1. ends[cursor] = Nil
        BY <2>1, <3>1 DEF RInv, MarksAgree
      <4> QED BY <3>1, <4>1 DEF Candidate, Reported
    <3>4. \A i \in Index : Candidate(i) /\ Fits(i) => i <= cursor
      BY <2>2, <2>4, <2>6 DEF Index
    <3>5. \A i \in Index : i # cursor /\ Candidate(i) => ends'[i] = Nil /\ ~Due(i)
      <4> TAKE i \in Index
      <4> HAVE i # cursor /\ Candidate(i)
      <4>1. ends'[i] = ends[i] /\ ends[i] = Nil
        BY <2>2, <2>6, <3>1 DEF Close, Closed, RInv, IInv, TypeOK
      <4>2. ~Due(i)
        <5>1. ~(cursor < i) => i < cursor
          BY <2>4 DEF Index
        <5>2. CASE cursor < i
          BY <5>2, <2>2, <2>6 DEF Due
        <5>3. CASE i < cursor
          BY <5>3, <2>6, <3>1, <3>2, <3>3, <2>4 DEF Due, Index
        <5> QED BY <5>1, <5>2, <5>3
      <4> QED BY <4>1, <4>2
    <3>6. ends'[cursor] = (IF Due(cursor) THEN EndHere(cursor) ELSE Nil)
      <4>1. ends[cursor] = Nil
        BY <2>1, <3>1 DEF RInv, MarksAgree
      <4>2. CASE HeldBack(event, cursor)
        <5>1. ends' = ends /\ ~Due(cursor)
          BY <4>2, <2>6 DEF Close, Due
        <5> QED BY <4>1, <5>1
      <4>3. CASE ~HeldBack(event, cursor)
        <5>1. ends' = [ends EXCEPT ![cursor] = EndHere(cursor)]
          BY <4>3, <2>6 DEF Close, Closed, EndHere
        <5>2. Due(cursor)
          BY <4>3, <3>2, <3>4 DEF Due
        <5> QED BY <5>1, <5>2, <3>1 DEF RInv, IInv, TypeOK
      <4> QED BY <4>2, <4>3
    <3> QED BY <2>3, <3>5, <3>6 DEF WalkDecided
  <2> QED BY <1>2, <2>5, <2>6
<1>3. ASSUME Tidy
      PROVE  WalkDecided'
  <2>1. pc = "tidy" /\ UNCHANGED <<matcher, event, ends>>
    BY <1>3 DEF Tidy
  <2>2. \A i \in Index : /\ Candidate(i)' <=> Candidate(i)
                         /\ Due(i)' <=> Due(i)
                         /\ EndHere(i)' = EndHere(i)
    BY <1>3, <2>1, SilentStep, DecisionsStable, DueStable
  <2> QED BY <2>1, <2>2 DEF RInv, WalkDecided
<1>4. ASSUME Prune \/ SkipClosed \/ SkipUnwanted \/ (Close /\ options.reuse) \/ Advance
             \/ StartFinish \/ FinishOpenStarts \/ Finished
      PROVE  WalkDecided'
  <2>1. pc' \notin {"tidy", "advance"}
    BY <1>4 DEF Prune, SkipClosed, SkipUnwanted, Close, Advance, StartFinish,
                FinishOpenStarts, Finished
  <2> QED BY <2>1 DEF WalkDecided
<1>5. ASSUME UNCHANGED vars
      PROVE  WalkDecided'
  <2>1. UNCHANGED <<matcher, event, ends, pc>>
    BY <1>5 DEF vars
  <2>2. \A i \in Index : Candidate(i)' <=> Candidate(i)
    BY <2>1 DEF Candidate, Reported, matcher
  <2>3. \A i \in Index : (Due(i)' <=> Due(i)) /\ EndHere(i)' = EndHere(i)
    BY <2>1, <2>2, DecisionsStable, DueStable
  <2> QED BY <2>1, <2>2, <2>3 DEF RInv, WalkDecided
<1> QED
  BY <1>1, <1>2, <1>3, <1>4, <1>5 DEF Next

LEMMA FinishStep ==
  ASSUME RInv, [Next]_vars
  PROVE  FinishDecides'
<1> USE MatcherAssumption
<1>1. ASSUME Prune
      PROVE  FinishDecides'
  <2>1. CASE pc' # "finish"
    BY <2>1 DEF FinishDecides
  <2>2. CASE pc' = "finish"
    <3>1. /\ pc = "prune" /\ event = Nil /\ ~IsClosed(WalkHead) /\ cursor' = WalkHead
          /\ UNCHANGED <<start, ends>>
      BY <1>1, <2>2 DEF Prune, matcher
    <3>2. /\ WalkHead \in 0..count /\ (WalkHead # 0 => start[WalkHead] # Nil)
          /\ \A i \in Index : Candidate(i) => ends[i] = Nil /\ i <= WalkHead
      BY <3>1, NothingAboveHead
    <3>3. \A i \in Index : Candidate(i)' <=> Candidate(i)
      BY <1>1, SilentStep
    <3>4. count \in Nat
      BY DEF RInv, IInv, TypeOK
    <3> QED
      BY <3>1, <3>2, <3>3, <3>4 DEF FinishDecides, Index
  <2> QED BY <2>1, <2>2
<1>2. ASSUME FinishOpenStarts
      PROVE  FinishDecides'
  <2>1. /\ pc = "finish" /\ cursor # 0 /\ cursor' = globalPrev[cursor]
        /\ UNCHANGED <<matcher, event>>
    BY <1>2 DEF FinishOpenStarts
  <2>2. /\ start[cursor] # Nil
        /\ \A i \in Index : Candidate(i) => ends[i] = (IF cursor < i THEN LateEnd(i) ELSE Nil)
    BY <2>1 DEF RInv, FinishDecides
  <2>3. cursor \in Index /\ cursor \in Int /\ globalPrev[cursor] \in Nat
    BY <2>1, PreviousInRange DEF RInv, IInv, TypeOK
  <2>4. globalPrev[cursor] < cursor
    BY <2>3 DEF RInv, IInv, ChainsExact
  <2>5. cursor' # 0 => start'[cursor'] # Nil
    BY <2>1, <2>2, <2>3 DEF RInv, IInv, LinksLeadToStarts, matcher
  <2>6. \A i \in Index : (Candidate(i)' <=> Candidate(i)) /\ LateEnd(i)' = LateEnd(i)
    BY <1>2, <2>1, SilentStep, DecisionsStable
  <2>7. \A i \in Index : i # cursor => ends'[i] = ends[i]
    BY <1>2, <2>3 DEF FinishOpenStarts, Closed, RInv, IInv, TypeOK
  <2>8. Candidate(cursor) => ends'[cursor] = LateEnd(cursor)
    <3> HAVE Candidate(cursor)
    <3>1. ends[cursor] = Nil
      BY <2>2, <2>3
    <3>2. ~closed[cursor]
      BY <2>1, <2>3, <3>1 DEF RInv, MarksAgree
    <3>3. ends' = [ends EXCEPT ![cursor] = LateEnd(cursor)]
      BY <1>2, <3>2 DEF FinishOpenStarts, Closed, LateEnd
    <3> QED BY <2>3, <3>3 DEF RInv, IInv, TypeOK
  <2>9. \A i \in Index : Candidate(i) /\ globalPrev[cursor] < i /\ i < cursor => FALSE
    <3> SUFFICES ASSUME NEW i \in Index, Candidate(i), globalPrev[cursor] < i, i < cursor
                 PROVE  FALSE
      OBVIOUS
    <3>1. closed[i]
      BY <2>2, <2>3 DEF RInv, IInv, ChainsExact, Candidate
    <3>2. ends[i] # Nil
      BY <2>1, <3>1 DEF RInv, MarksAgree
    <3> QED BY <2>2, <2>3, <3>2 DEF Index
  <2>10. \A i \in Index : Candidate(i) =>
           ends'[i] = (IF cursor' < i THEN LateEnd(i) ELSE Nil)
    <3> TAKE i \in Index
    <3> HAVE Candidate(i)
    <3>1. i \in Int
      BY DEF Index
    <3>2. CASE i = cursor
      BY <3>2, <2>1, <2>4, <2>8
    <3>3. CASE i # cursor
      BY <3>1, <3>3, <2>1, <2>2, <2>3, <2>4, <2>7, <2>9
    <3> QED BY <3>2, <3>3
  <2> QED
    BY <2>5, <2>6, <2>10 DEF FinishDecides
<1>3. ASSUME (\E e : Read(e)) \/ SkipClosed \/ SkipUnwanted \/ GiveUp \/ Close \/ Tidy
             \/ Advance \/ StartFinish \/ Finished
      PROVE  FinishDecides'
  <2>1. pc' # "finish"
    BY <1>3 DEF Read, SkipClosed, SkipUnwanted, GiveUp, WalkEnds, Close, Tidy, Advance,
                StartFinish, Finished
  <2> QED BY <2>1 DEF FinishDecides
<1>4. ASSUME UNCHANGED vars
      PROVE  FinishDecides'
  <2>1. UNCHANGED <<matcher, event, ends, pc, cursor>>
    BY <1>4 DEF vars
  <2>2. \A i \in Index : Candidate(i)' <=> Candidate(i)
    BY <2>1 DEF Candidate, Reported, matcher
  <2>3. \A i \in Index : LateEnd(i)' = LateEnd(i)
    BY <2>1, DecisionsStable
  <2>4. UNCHANGED start
    BY <2>1 DEF matcher
  <2> QED BY <2>1, <2>2, <2>3, <2>4 DEF RInv, FinishDecides
<1> QED
  BY <1>1, <1>2, <1>3, <1>4 DEF Next

THEOREM WalkInvariance == Spec => []RInv
<1>1. RInv /\ [Next]_vars => RInv'
  BY TypeStep, ListsStep, TimeStep, MarksStep, WalkStep, DecidedStep, FinishStep
     DEF RInv, IInv
<1> QED
  BY <1>1, RInvInitially, PTL DEF Spec

-----------------------------------------------------------------------------
(* The refinement, step by step.                                            *)

\* The flags of an event mean the same to both matchers.
LEMMA SameFlags ==
  ASSUME NEW o, NEW e
  PROVE  /\ Reference!SameStop(o, e) <=> SameStop(o, e)
         /\ Reference!OtherStop(o, e) <=> OtherStop(o, e)
         /\ Reference!FallbackStop(o, e) <=> FallbackStop(o, e)
         /\ Reference!Index = Index
         /\ \A a : Reference!CloseReason(o, e, a) = CloseReason(o, e, a)
         /\ \A l : Reference!IsReresume(o, e, l) <=> IsReresume(o, e, l)
         /\ \A x, y, b : Reference!IsValidDuration(x, y, b) <=> IsValidDuration(x, y, b)
<1>1. /\ Reference!SameStop(o, e) <=> SameStop(o, e)
      /\ Reference!OtherStop(o, e) <=> OtherStop(o, e)
      /\ Reference!FallbackStop(o, e) <=> FallbackStop(o, e)
      /\ Reference!Index = Index
  BY DEF Reference!SameStop, SameStop, Reference!OtherStop, OtherStop,
         Reference!FallbackStop, FallbackStop, Reference!Index, Index
<1>2. \A a : Reference!CloseReason(o, e, a) = CloseReason(o, e, a)
  BY <1>1 DEF Reference!CloseReason, CloseReason
<1>3. \A l : Reference!IsReresume(o, e, l) <=> IsReresume(o, e, l)
  BY DEF Reference!IsReresume, IsReresume
<1>4. \A x, y, b : Reference!IsValidDuration(x, y, b) <=> IsValidDuration(x, y, b)
  BY DEF Reference!IsValidDuration, IsValidDuration
<1> QED BY <1>1, <1>2, <1>3, <1>4

\* The reference matcher's fallback is one of the modes of the sparse matcher.
LEMMA FallbackMode ==
  Reference!IsFallback(event) <=> StopMode(event) = "fallbackSameApp"
  BY SameFlags DEF Reference!IsFallback, StopMode

\* What a walk looks for is what the reference matcher finds compatible.
LEMMA FitsIsCompatible ==
  ASSUME RInv, event # Nil, NEW i \in Index, start[i] # Nil
  PROVE  Reference!Compatible(event, i) <=> Fits(i)
<1> DEFINE kindFits ==
             \/ SameStop(options, event) /\ start[i].app = event.app
             \/ /\ OtherStop(options, event)
                /\ start[i].app # event.app /\ start[i].app \notin Background
             \/ StopMode(event) = "fallbackSameApp" /\ start[i].app = event.app
           reaches ==
             /\ start[i].at <= event.at
             /\ (StopMode(event) = "fallbackSameApp" => options.fallbackThreshold)
                  => event.at - start[i].at <= Threshold
           modeFits ==
             /\ WalksAppList => start[i].app = event.app
             /\ Wants(event, i)
<1>1. Reference!Compatible(event, i) <=> kindFits /\ reaches
  BY SameFlags, FallbackMode DEF Reference!Compatible, Reference!IsValidDuration
<1>2. InReach(i) <=> reaches
  BY DEF InReach, EnforcesThreshold, IsValidDuration
<1>3. WalksAppList <=> StopMode(event) \in {"sameApp", "fallbackSameApp"}
  BY DEF WalksAppList
<1>4. StopMode(event) # "none" => (kindFits <=> modeFits)
  BY <1>3 DEF StopMode, Wants
<1>5. StopMode(event) = "none" => ~kindFits
  BY DEF StopMode
<1> HIDE DEF kindFits, reaches, modeFits
<1>6. Fits(i) <=> StopMode(event) # "none" /\ modeFits /\ reaches
  BY <1>2 DEF Fits, modeFits
<1> QED BY <1>1, <1>4, <1>5, <1>6

\* The starts the reference matcher ends are those that are due.
LEMMA EndedByIsDue ==
  ASSUME RInv, event # Nil
  PROVE  /\ Reference!Open = {i \in Index : Candidate(i)}
         /\ \A i \in Index : i \in Reference!EndedBy(event) <=> Candidate(i) /\ Due(i)
<1>1. Reference!Open = {i \in Index : Candidate(i)}
  BY SameFlags DEF Reference!Open, Candidate, Reported
<1>2. \A i \in Index : Candidate(i) => (Reference!Compatible(event, i) <=> Fits(i))
  BY FitsIsCompatible DEF Candidate
<1>3. \A i \in Index : Reference!HeldBack(event, i) <=> HeldBack(event, i)
  BY FallbackMode DEF Reference!HeldBack, HeldBack
<1> QED
  BY <1>1, <1>2, <1>3 DEF Reference!EndedBy, Due

LEMMA InitImplements == Init => Reference!Init
  BY SameFlags DEF Init, Reference!Init, Reported

LEMMA SilentImplements ==
  ASSUME DoneNothing, UNCHANGED matcher, pc # "done", pc' # "done"
  PROVE  UNCHANGED Reference!vars
  BY DEF DoneNothing, matcher, Reference!vars

\* The end of a turn of the loop makes the ends of the event's walk visible.
LEMMA AdvanceImplements ==
  ASSUME RInv, Advance
  PROVE  Reference!Next
<1> USE MatcherAssumption
<1> DEFINE here == count + 1
           app == event.app
           opens == event.kind \in options.openers
           opened == [app |-> app, at |-> event.at,
                      reresumed |-> IsReresume(options, event, last[app])]
           seen == [i \in Index |-> IF Reported(i) THEN ends[i] ELSE Nil]
<1>1. /\ pc = "advance" /\ pc' = "next" /\ event # Nil
      /\ count' = here /\ now' = event.at
      /\ UNCHANGED <<options, ends, closed>>
      /\ last' = [last EXCEPT ![app] = [at |-> event.at, stops |-> SameStop(options, event)]]
  BY DEF Advance, RInv, IInv, EventsInPlace
<1>2. here \in Index /\ event \in Events /\ count \in Nat
  BY <1>1, CountInIndex DEF RInv, IInv, TypeOK
<1>3. PICK gap \in Gap : event.at = now + gap
  BY <1>1 DEF RInv, TimeInOrder
<1>4. /\ event = [app |-> app, kind |-> event.kind, at |-> now + gap]
      /\ app \in App /\ event.kind \in Kinds
  BY <1>2, <1>3 DEF Events
<1>5. start' = [i \in Index |-> IF i = here /\ opens THEN opened ELSE start[i]]
  BY <1>2 DEF Advance, RInv, IInv, TypeOK
<1>6. \A i \in Index : /\ Candidate(i) => ends[i] = (IF Due(i) THEN EndHere(i) ELSE Nil)
                       /\ ends[i] # Nil => start[i] # Nil /\ ends[i].stop <= here
  BY <1>1 DEF RInv, WalkDecided, MarksAgree
<1>7. \A i \in Index : (IF Reported(i) THEN ends[i] ELSE Nil)' = ends[i]
  BY <1>1, <1>6 DEF Reported
<1>8. \A i \in Index :
        ends[i] = IF i \in Reference!EndedBy(event)
                  THEN [stop |-> here,
                        reason |-> Reference!CloseReason(options, event, start[i].app)]
                  ELSE seen[i]
  <2> TAKE i \in Index
  <2>1. i \in Reference!EndedBy(event) <=> Candidate(i) /\ Due(i)
    BY <1>1, EndedByIsDue
  <2>2. CASE Candidate(i)
    BY <2>1, <2>2, <1>6, SameFlags DEF Candidate, EndHere
  <2>3. CASE ~Candidate(i)
    BY <2>1, <2>3, <1>6 DEF Candidate
  <2> QED BY <2>2, <2>3
<1>9. Reference!Observe(event)
  <2>1. ~(pc = "done") /\ here \in Reference!Index
    BY <1>1, <1>2, SameFlags
  <2>2. [i \in Index |-> IF Reported(i) THEN ends[i] ELSE Nil]' =
          [i \in Reference!Index |->
             IF i \in Reference!EndedBy(event)
             THEN [stop |-> here,
                   reason |-> Reference!CloseReason(options, event, start[i].app)]
             ELSE seen[i]]
    BY <1>7, <1>8, SameFlags
  <2>3. start' = [i \in Reference!Index |->
          IF i = here /\ opens
          THEN [app |-> app, at |-> event.at,
                reresumed |-> Reference!IsReresume(options, event, last[app])]
          ELSE start[i]]
    <3>1. Reference!IsReresume(options, event, last[app]) = IsReresume(options, event, last[app])
      BY DEF Reference!IsReresume, IsReresume
    <3> QED BY <1>5, <3>1, SameFlags
  <2>4. last' = [last EXCEPT ![app] =
                   [at |-> event.at, stops |-> Reference!SameStop(options, event)]]
    <3>1. Reference!SameStop(options, event) = SameStop(options, event)
      BY DEF Reference!SameStop, SameStop
    <3> QED BY <1>1, <3>1
  <2>5. (pc = "done")' = (pc = "done")
    BY <1>1
  <2> QED
    BY <1>1, <2>1, <2>2, <2>3, <2>4, <2>5 DEF Reference!Observe
<1> QED
  <2>1. event.kind \in Reference!Kinds
    BY <1>4 DEF Reference!Kinds, Kinds
  <2>2. PICK b \in App, k \in Reference!Kinds, h \in Gap :
          event = [app |-> b, kind |-> k, at |-> now + h]
    BY <1>4, <2>1
  <2>3. Reference!Observe([app |-> b, kind |-> k, at |-> now + h])
    BY <1>9, <2>2 DEF Reference!Observe
  <2> HIDE DEF here, app, opens, opened, seen
  <2> QED BY <2>3, ZenonT(60) DEF Reference!Next, Reference!Observe

\* The end of the last walk makes its ends visible.
LEMMA FinishedImplements ==
  ASSUME RInv, Finished
  PROVE  Reference!Next
<1> USE MatcherAssumption
<1> DEFINE seen == [i \in Index |-> IF Reported(i) THEN ends[i] ELSE Nil]
<1>1. /\ pc = "finish" /\ cursor = 0 /\ pc' = "done" /\ event = Nil
      /\ count > 0 /\ count \in Nat
      /\ UNCHANGED <<options, count, now, start, last, ends>>
  BY DEF Finished, matcher, RInv, TimeInOrder, IInv, TypeOK
<1>2. \A i \in Index : /\ Candidate(i) => ends[i] = LateEnd(i)
                       /\ ends[i] # Nil => start[i] # Nil /\ ends[i].stop <= count
  BY <1>1 DEF RInv, FinishDecides, MarksAgree, Index
<1>3. \A i \in Index : (IF Reported(i) THEN ends[i] ELSE Nil)' = ends[i]
  BY <1>1, <1>2 DEF Reported
<1>4. Reference!Open = {i \in Index : Candidate(i)}
  BY SameFlags DEF Reference!Open, Candidate, Reported
<1>5. \A i \in Index :
        ends[i] = IF i \notin Reference!Open THEN seen[i]
                  ELSE IF i < count /\ Reference!IsValidDuration(start[i].at, now, TRUE)
                  THEN [stop |-> count, reason |-> "endOfStream"]
                  ELSE [stop |-> 0, reason |-> "unobserved"]
  <2> TAKE i \in Index
  <2>1. CASE Candidate(i)
    BY <2>1, <1>2, <1>4, SameFlags DEF LateEnd
  <2>2. CASE ~Candidate(i)
    BY <2>2, <1>2, <1>4 DEF Candidate
  <2> QED BY <2>1, <2>2
<1>6. [i \in Index |-> IF Reported(i) THEN ends[i] ELSE Nil]' =
        [i \in Reference!Index |->
           IF i \notin Reference!Open THEN seen[i]
           ELSE IF i < count /\ Reference!IsValidDuration(start[i].at, now, TRUE)
           THEN [stop |-> count, reason |-> "endOfStream"]
           ELSE [stop |-> 0, reason |-> "unobserved"]]
  BY <1>3, <1>5, SameFlags
<1>7. Reference!Finish
  BY <1>1, <1>6 DEF Reference!Finish
<1> QED BY <1>7 DEF Reference!Next

\* The sparse matcher, with its lazily pruned lists and walks that give up early,
\* ends the same starts for the same reasons as the reference matcher, on every
\* sorted log of any apps and under every option record.
THEOREM SparseImplementsReference == Spec => ImplementsReference
<1>1. RInv /\ [Next]_vars => [Reference!Next]_(Reference!vars)
  <2> SUFFICES ASSUME RInv, [Next]_vars
               PROVE  Reference!Next \/ UNCHANGED Reference!vars
    OBVIOUS
  <2>1. CASE \/ \E e : Read(e)
             \/ Prune \/ SkipClosed \/ SkipUnwanted \/ GiveUp \/ Close \/ Tidy
             \/ StartFinish \/ FinishOpenStarts
    BY <2>1, SilentStep, SilentImplements
  <2>2. CASE Advance
    BY <2>2, AdvanceImplements
  <2>3. CASE Finished
    BY <2>3, FinishedImplements
  <2>4. CASE UNCHANGED vars
    <3>1. UNCHANGED <<matcher, ends, pc>>
      BY <2>4 DEF vars
    <3>2. UNCHANGED [i \in Index |-> IF Reported(i) THEN ends[i] ELSE Nil]
      BY <3>1 DEF Reported, matcher
    <3> QED BY <3>1, <3>2 DEF matcher, Reference!vars
  <2> QED BY <2>1, <2>2, <2>3, <2>4 DEF Next
<1> QED
  BY <1>1, InitImplements, WalkInvariance, PTL DEF Spec, ImplementsReference, Reference!Spec

-----------------------------------------------------------------------------
(* The published rules: the inductive invariant.                            *)

\* Rows are in the order of time.
Sorted == \A i, j \in 1..Len(log) : i <= j => log[i].at <= log[j].at

\* Every opener is open or has one use; only the end of the log leaves a use
\* without an end.
Accounted ==
  /\ \A i \in 1..Len(log) :
       Opens(log[i]) <=> (i \in running \/ \E u \in uses : u.start = i)
  /\ \A u \in uses :
       /\ u.start \in 1..Len(log) /\ u.start \notin running
       /\ u.stop \in 0..Len(log) /\ (u.stop = 0 => over)
  /\ \A u, v \in uses : u.start = v.start => u = v
  /\ over => running = {}

\* Two of the rules keep one use open.
OneOpen == rule.name # "foregroundBackground" => \A s, t \in running : s = t

OnlyMorrisonLocks == rule.name # "morrison" => lock = 0

\* No pause of its app passes while a use is open.
PairsWell ==
  rule.name = "foregroundBackground" =>
    /\ \A u \in uses : PairedUse(u)
    /\ \A s \in running : \A i \in After(s) : OwnPause(s, log[i]) => EndsAUse(i)

InterruptsWell ==
  rule.name = "draxler" =>
    /\ \A u \in uses : DraxlerUse(u)
    /\ \A s \in running : DraxlerEnds(s) = {}

\* What a pending lock stands for: the screen is off since, for less than the
\* timeout so far.
LockPends ==
  lock # 0 =>
    /\ running # {}
    /\ log[lock].kind = "screenOff"
    /\ \A j \in After(lock) : log[j].kind # "screenOn"
    /\ log[Len(log)].at - log[lock].at < LockTimeout
    /\ \A s \in running : s < lock /\ GoesOff(s, lock)

\* Every earlier lock of the open use was too short, and without a pending lock
\* the screen is on.
EarlierLocksReleased ==
  \A s \in running :
    /\ \A i \in After(s) : ~Closes(s, log[i])
    /\ \A k \in After(s) : GoesOff(s, k) => k = lock \/ ~StaysOff(s, k)
    /\ lock = 0 => \A k \in After(s) : log[k].kind = "screenOff" =>
                     \E j \in After(k) : log[j].kind = "screenOn"

\* A lock that ended a use had lasted when it did.
LockHadLasted ==
  \A u \in uses : u.reason = "locked" /\ ~over => log[Len(log)].at - log[u.stop].at >= LockTimeout

ToleratesWell ==
  rule.name = "morrison" =>
    /\ \A u \in uses : MorrisonUse(u)
    /\ LockPends /\ EarlierLocksReleased /\ LockHadLasted

RulesInv ==
  /\ RulesTypeOK /\ Sorted /\ Accounted /\ OneOpen /\ OnlyMorrisonLocks
  /\ PairsWell /\ InterruptsWell /\ ToleratesWell

-----------------------------------------------------------------------------
(* What a row changes.                                                      *)

\* The rule chosen is one of the three, with openers that are neither pauses nor
\* screen events.
LEMMA RuleTyped ==
  ASSUME RulesTypeOK
  PROVE  /\ rule.name \in RuleNames
         /\ rule.openers \subseteq Openers
BY RulesAssumption DEF RulesTypeOK

\* The next row has a type, and is not logged before the last.
LEMMA RowTyped ==
  ASSUME RulesTypeOK, NEW s \in Seen[rule.name], NEW g \in Pause
  PROVE  /\ [app |-> s.app, kind |-> s.kind, at |-> Now + g] \in LogRows
         /\ log # <<>> => log[Len(log)].at <= Now + g
<1>1. s \in [app : Package, kind : RowKinds] /\ g \in Nat
  BY RulesAssumption, RuleTyped
<1>2. CASE log = <<>>
  BY <1>1, <1>2 DEF Now, LogRows
<1>3. CASE log # <<>>
  <2>1. log[Len(log)] \in LogRows
    BY <1>3 DEF RulesTypeOK
  <2> QED BY <1>1, <1>3, <2>1 DEF Now, LogRows
<1> QED BY <1>2, <1>3

\* A row is added after the others, which stay.
LEMMA LogGrows ==
  ASSUME RulesTypeOK, NEW e \in LogRows, ReadRow(e)
  PROVE  /\ Len(log) \in Nat
         /\ log' \in Seq(LogRows) /\ Len(log') = Len(log) + 1
         /\ log'[Here] = e
         /\ \A i \in 1..Len(log) : log'[i] = log[i] /\ log[i] \in LogRows
         /\ rule' = rule /\ ~over /\ over' = over
         /\ log = <<>> <=> Len(log) = 0
BY DEF RulesTypeOK, ReadRow, Here

\* What a row does is not changed by those that come after it, and the new row
\* does what the rule made of it.
LEMMA RowsStay ==
  ASSUME RulesTypeOK, NEW e \in LogRows, ReadRow(e), NEW h, h = Here
  PROVE  /\ \A i \in 1..Len(log) : /\ Opens(log[i])' <=> Opens(log[i])
                                   /\ ClosingReason(log[i])' = ClosingReason(log[i])
                                   /\ Silent(i)' <=> Silent(i)
         /\ \A s, i \in 1..Len(log) : /\ OwnPause(s, log[i])' <=> OwnPause(s, log[i])
                                      /\ Closes(s, log[i])' <=> Closes(s, log[i])
         /\ Opens(log[h])' <=> Opens(e)
         /\ ClosingReason(log[h])' = ClosingReason(e)
         /\ Silent(h)' <=> BreaksSilence(e)
         /\ \A s \in 1..Len(log) : /\ OwnPause(s, log[h])' <=> OwnPause(s, e)
                                   /\ Closes(s, log[h])' <=> Closes(s, e)
<1>1. /\ \A i \in 1..Len(log) : log'[i] = log[i]
      /\ log'[h] = e /\ rule' = rule
      /\ Len(log) \in Nat /\ h = Len(log) + 1 /\ (log = <<>> <=> Len(log) = 0)
  BY LogGrows DEF Here
<1>2. /\ \A i \in 1..Len(log) : Opens(log[i])' <=> Opens(log[i])
      /\ Opens(log[h])' <=> Opens(e)
  BY <1>1 DEF Opens
<1>3. /\ \A s, i \in 1..Len(log) : OwnPause(s, log[i])' <=> OwnPause(s, log[i])
      /\ \A s \in 1..Len(log) : OwnPause(s, log[h])' <=> OwnPause(s, e)
  BY <1>1 DEF OwnPause
<1>4. /\ \A i \in 1..Len(log) : ClosingReason(log[i])' = ClosingReason(log[i])
      /\ ClosingReason(log[h])' = ClosingReason(e)
  BY <1>2 DEF ClosingReason
<1>5. /\ \A s, i \in 1..Len(log) : Closes(s, log[i])' <=> Closes(s, log[i])
      /\ \A s \in 1..Len(log) : Closes(s, log[h])' <=> Closes(s, e)
  BY <1>2, <1>3 DEF Closes
<1>6. ASSUME NEW i \in 1..Len(log)
      PROVE  Silent(i)' <=> Silent(i)
  <2>1. CASE i > 1
    <3>1. i - 1 \in 1..Len(log)
      BY <1>1, <1>6, <2>1
    <3> QED BY <1>1, <1>6, <3>1 DEF Silent
  <2>2. CASE ~(i > 1)
    BY <2>2 DEF Silent
  <2> QED BY <2>1, <2>2
<1>7. Silent(h)' <=> BreaksSilence(e)
  <2>1. CASE log = <<>>
    BY <1>1, <2>1 DEF Silent, BreaksSilence
  <2>2. CASE log # <<>>
    <3>1. h - 1 = Len(log) /\ h > 1 /\ Len(log) \in 1..Len(log)
      BY <1>1, <2>2
    <3> QED BY <1>1, <2>2, <3>1 DEF Silent, BreaksSilence
  <2> QED BY <2>1, <2>2
<1> QED BY <1>2, <1>3, <1>4, <1>5, <1>6, <1>7

\* The uses that one row ends alike are one for each start.
LEMMA EndedAlike ==
  ASSUME NEW S, NEW stop, NEW at, NEW reason
  PROVE  /\ \A u \in Ended(S, stop, at, reason) :
              u.start \in S /\ u.stop = stop /\ u.at = at /\ u.reason = reason
         /\ \A s \in S : \E u \in Ended(S, stop, at, reason) : u.start = s
         /\ \A u, v \in Ended(S, stop, at, reason) : u.start = v.start => u = v
         /\ S \subseteq Nat /\ stop \in Nat /\ at \in Nat /\ reason \in EndReasons
              => Ended(S, stop, at, reason) \subseteq Uses
<1> DEFINE use(s) == [start |-> s, stop |-> stop, at |-> at, reason |-> reason]
<1>1. \A s \in S : use(s) \in Ended(S, stop, at, reason) /\ use(s).start = s
  BY DEF Ended
<1>2. \A s \in S : \E u \in Ended(S, stop, at, reason) : u.start = s
  BY <1>1
<1>3. /\ \A u \in Ended(S, stop, at, reason) :
           u.start \in S /\ u.stop = stop /\ u.at = at /\ u.reason = reason
      /\ \A u, v \in Ended(S, stop, at, reason) : u.start = v.start => u = v
  BY DEF Ended
<1>4. S \subseteq Nat /\ stop \in Nat /\ at \in Nat /\ reason \in EndReasons
        => Ended(S, stop, at, reason) \subseteq Uses
  BY DEF Ended, Uses
<1> QED BY <1>2, <1>3, <1>4

\* What follows if a row ends the uses that gone opened, in the way N says.
LEMMA EffectOf ==
  ASSUME NEW e, NEW N, NEW gone, gone \subseteq running, Here \notin running,
         uses' = uses \cup N,
         running' = (running \ gone) \cup Opening(e),
         \A u \in N : u \in Uses /\ u.start \in gone /\ u.stop \in 1..Here,
         \A s \in gone : \E u \in N : u.start = s,
         \A u, v \in N : u.start = v.start => u = v,
         rule.name # "foregroundBackground" /\ Opens(e) => gone = running
  PROVE  /\ \A u \in uses' : u \in uses
                             \/ (u \in Uses /\ u.start \in running \ running' /\ u.stop \in 1..Here)
         /\ uses \subseteq uses'
         /\ \A s \in running : s \in running' \/ \E u \in uses' : u.start = s
         /\ \A u, v \in uses' \ uses : u.start = v.start => u = v
         /\ running' \subseteq running \cup {Here}
         /\ Here \in running' <=> Opens(e)
         /\ rule.name # "foregroundBackground" /\ Opens(e) => running' = {Here}
<1>1. Opening(e) = IF Opens(e) THEN {Here} ELSE {}
  BY DEF Opening
<1>2. /\ \A u \in uses' : u \in uses
                          \/ (u \in Uses /\ u.start \in running \ running' /\ u.stop \in 1..Here)
      /\ uses \subseteq uses'
      /\ \A u, v \in uses' \ uses : u.start = v.start => u = v
  <2>1. \A s \in gone : s \notin running'
    BY <1>1
  <2>2. \A u \in N : u \in Uses /\ u.start \in running \ running' /\ u.stop \in 1..Here
    BY <2>1
  <2>3. \A u \in uses' : u \in uses \/ u \in N
    OBVIOUS
  <2>4. \A u, v \in uses' \ uses : u.start = v.start => u = v
    BY <2>3
  <2> QED BY <2>2, <2>3, <2>4
<1>3. \A s \in running : s \in running' \/ \E u \in uses' : u.start = s
  OBVIOUS
<1>4. /\ running' \subseteq running \cup {Here}
      /\ Here \in running' <=> Opens(e)
      /\ rule.name # "foregroundBackground" /\ Opens(e) => running' = {Here}
  BY <1>1
<1> QED BY <1>2, <1>3, <1>4

\* A row ends some of the open uses, each once and at a row read, and opens one
\* if it is an opener.
LEMMA Effect ==
  ASSUME RulesTypeOK, NEW e \in LogRows, ReadRow(e)
  PROVE  /\ \A u \in uses' : u \in uses
                             \/ (u \in Uses /\ u.start \in running \ running' /\ u.stop \in 1..Here)
         /\ uses \subseteq uses'
         /\ \A s \in running : s \in running' \/ \E u \in uses' : u.start = s
         /\ \A u, v \in uses' \ uses : u.start = v.start => u = v
         /\ running' \subseteq running \cup {Here}
         /\ Here \in running' <=> Opens(e)
         /\ rule.name # "foregroundBackground" /\ Opens(e) => running' = {Here}
<1>1. /\ Len(log) \in Nat /\ running \subseteq 1..Len(log) /\ lock \in 0..Len(log)
      /\ Here \notin running /\ e.at \in Nat
      /\ \A i \in 1..Len(log) : log[i].at \in Nat
      /\ Here \in 1..Here /\ 1..Len(log) \subseteq 1..Here /\ Here \in Nat
      /\ running \subseteq Nat /\ 1..Len(log) \subseteq Nat
  <2>1. /\ Len(log) \in Nat /\ running \subseteq 1..Len(log) /\ lock \in 0..Len(log)
        /\ Here = Len(log) + 1
        /\ \A i \in 1..Len(log) : log[i] \in LogRows
    BY LogGrows DEF RulesTypeOK, Here
  <2>2. e.at \in Nat /\ \A i \in 1..Len(log) : log[i].at \in Nat
    BY <2>1 DEF LogRows
  <2>3. Here \in 1..Here /\ 1..Len(log) \subseteq 1..Here /\ Here \in Nat /\ 1..Len(log) \subseteq Nat
    BY <2>1
  <2>4. Here \notin running
    BY <2>1
  <2> QED BY <2>1, <2>2, <2>3, <2>4
<1>2. ClosingReason(e) \in EndReasons /\ {"paused", "silence", "screenOff", "locked"} \subseteq EndReasons
  BY DEF ClosingReason, EndReasons
<1>3. CASE Pair(e)
  <2>1. /\ uses' = uses \cup Ended(FirstOpen(e), Here, e.at, "paused")
        /\ running' = (running \ FirstOpen(e)) \cup Opening(e)
        /\ rule.name = "foregroundBackground"
    BY <1>3 DEF Pair
  <2>2. FirstOpen(e) \subseteq running /\ FirstOpen(e) \subseteq Nat
    BY <1>1 DEF FirstOpen
  <2>3. Ended(FirstOpen(e), Here, e.at, "paused") \subseteq Uses
    BY <1>1, <1>2, <2>2, EndedAlike
  <2>4. \A u \in Ended(FirstOpen(e), Here, e.at, "paused") :
          u \in Uses /\ u.start \in FirstOpen(e) /\ u.stop \in 1..Here
    BY <1>1, <2>3, EndedAlike
  <2>5. /\ \A s \in FirstOpen(e) :
             \E u \in Ended(FirstOpen(e), Here, e.at, "paused") : u.start = s
        /\ \A u, v \in Ended(FirstOpen(e), Here, e.at, "paused") : u.start = v.start => u = v
    BY EndedAlike
  <2> QED BY <1>1, <2>1, <2>2, <2>4, <2>5, EffectOf
<1>4. CASE Interrupt(e)
  <2> DEFINE cut == IF BreaksSilence(e) THEN running ELSE {}
             shut == {s \in running \ cut : Closes(s, e)}
             off == IF e.kind = "screenOff" THEN running \ cut ELSE {}
             A == Ended(cut, Here, log[Len(log)].at, "silence")
             B == Ended(shut, Here, e.at, ClosingReason(e))
             C == Ended(off, Here, e.at, "screenOff")
  <2>1. /\ uses' = uses \cup A \cup B \cup C
        /\ running' = (running \ (cut \cup shut \cup off)) \cup Opening(e)
    BY <1>4 DEF Interrupt
  <2>2. e.kind = "screenOff" => shut = {}
    BY RuleTyped DEF Closes, Opens, OwnPause, Openers
  <2>3. /\ cut \intersect shut = {} /\ cut \intersect off = {} /\ shut \intersect off = {}
        /\ cut \cup shut \cup off \subseteq running
        /\ Opens(e) => cut \cup shut \cup off = running
    BY <2>2 DEF Closes
  <2>4. cut # {} => log[Len(log)].at \in Nat
    BY <1>1 DEF BreaksSilence
  <2> HIDE DEF cut, shut, off
  <2>5. A \subseteq Uses
    <3>1. CASE cut = {}
      BY <3>1, EndedAlike
    <3>2. CASE cut # {}
      <4>1. cut \subseteq Nat /\ "silence" \in EndReasons
            /\ Here \in Nat /\ log[Len(log)].at \in Nat
        BY <1>1, <1>2, <2>3, <2>4, <3>2
      <4>2. \A t \in Nat : Ended(cut, Here, t, "silence") \subseteq Uses
        BY <4>1, EndedAlike
      <4> QED BY <4>1, <4>2
    <3> QED BY <3>1, <3>2
  <2>6. B \subseteq Uses /\ C \subseteq Uses
    BY <1>1, <1>2, <2>3, EndedAlike
  <2>7. /\ \A u \in A : u \in Uses /\ u.start \in cut /\ u.stop = Here
        /\ \A u \in B : u \in Uses /\ u.start \in shut /\ u.stop = Here
        /\ \A u \in C : u \in Uses /\ u.start \in off /\ u.stop = Here
    BY <2>5, <2>6, EndedAlike
  <2>8. /\ \A s \in cut : \E u \in A : u.start = s
        /\ \A s \in shut : \E u \in B : u.start = s
        /\ \A s \in off : \E u \in C : u.start = s
    BY EndedAlike
  <2>9. /\ \A u, v \in A : u.start = v.start => u = v
        /\ \A u, v \in B : u.start = v.start => u = v
        /\ \A u, v \in C : u.start = v.start => u = v
    BY EndedAlike
  <2> DEFINE N == A \cup B \cup C
             gone == cut \cup shut \cup off
  <2> HIDE DEF A, B, C
  <2>10. /\ uses' = uses \cup N
         /\ running' = (running \ gone) \cup Opening(e)
         /\ gone \subseteq running /\ (Opens(e) => gone = running)
         /\ \A u \in N : u \in Uses /\ u.start \in gone /\ u.stop \in 1..Here
         /\ \A s \in gone : \E u \in N : u.start = s
         /\ \A u, v \in N : u.start = v.start => u = v
    BY <1>1, <2>1, <2>3, <2>7, <2>8, <2>9
  <2> HIDE DEF N, gone
  <2> QED BY <1>1, <2>10, EffectOf
<1>5. CASE Tolerate(e)
  <2> DEFINE locked == IF LockLasted(e) THEN running ELSE {}
             shut == {s \in running \ locked : Closes(s, e)}
             A == Ended(locked, lock, log[lock].at, "locked")
             B == Ended(shut, Here, e.at, ClosingReason(e))
  <2>1. /\ uses' = uses \cup A \cup B
        /\ running' = (running \ (locked \cup shut)) \cup Opening(e)
    BY <1>5 DEF Tolerate
  <2>2. /\ locked \intersect shut = {} /\ locked \cup shut \subseteq running
        /\ Opens(e) => locked \cup shut = running
    BY DEF Closes
  <2>3. locked # {} => lock \in 1..Len(log) /\ log[lock].at \in Nat
    BY <1>1 DEF LockLasted
  <2> HIDE DEF locked, shut
  <2>4. A \subseteq Uses
    <3>1. CASE locked = {}
      BY <3>1, EndedAlike
    <3>2. CASE locked # {}
      <4>1. locked \subseteq Nat /\ "locked" \in EndReasons
            /\ lock \in Nat /\ log[lock].at \in Nat
        BY <1>1, <1>2, <2>2, <2>3, <3>2
      <4> QED BY <1>1, <4>1, EndedAlike
    <3> QED BY <3>1, <3>2
  <2>5. B \subseteq Uses
    BY <1>1, <1>2, <2>2, EndedAlike
  <2>6. /\ \A u \in A : u \in Uses /\ u.start \in locked /\ u.stop = lock
        /\ \A u \in B : u \in Uses /\ u.start \in shut /\ u.stop = Here
    BY <2>4, <2>5, EndedAlike
  <2>7. /\ \A s \in locked : \E u \in A : u.start = s
        /\ \A s \in shut : \E u \in B : u.start = s
    BY EndedAlike
  <2>8. /\ \A u, v \in A : u.start = v.start => u = v
        /\ \A u, v \in B : u.start = v.start => u = v
    BY EndedAlike
  <2> DEFINE N == A \cup B
             gone == locked \cup shut
  <2> HIDE DEF A, B
  <2>9. /\ uses' = uses \cup N
        /\ running' = (running \ gone) \cup Opening(e)
        /\ gone \subseteq running /\ (Opens(e) => gone = running)
        /\ \A u \in N : u \in Uses /\ u.start \in gone /\ u.stop \in 1..Here
        /\ \A s \in gone : \E u \in N : u.start = s
        /\ \A u, v \in N : u.start = v.start => u = v
    BY <1>1, <2>1, <2>2, <2>3, <2>6, <2>7, <2>8
  <2> HIDE DEF N, gone
  <2> QED BY <1>1, <2>9, EffectOf
<1> QED BY <1>3, <1>4, <1>5 DEF ReadRow

\* A row leaves the pending lock, drops it or becomes it.
LEMMA LockTyped ==
  ASSUME RulesTypeOK, NEW e \in LogRows, ReadRow(e)
  PROVE  lock' \in 0..Here /\ (rule.name # "morrison" => lock' = lock)
<1>1. Len(log) \in Nat /\ lock \in 0..Len(log)
  BY LogGrows DEF RulesTypeOK
<1>2. HeldLock(e) \in {0, Here, lock}
  BY DEF HeldLock
<1>3. lock' \in {0, Here, lock} /\ (rule.name # "morrison" => lock' = lock)
  BY <1>2 DEF ReadRow, Pair, Interrupt, Tolerate
<1> QED BY <1>1, <1>3 DEF Here

-----------------------------------------------------------------------------
(* Types and accounts.                                                      *)

\* Rows keep the variables' types.
LEMMA ReadKeepsTypes ==
  ASSUME RulesTypeOK, NEW e \in LogRows, ReadRow(e)
  PROVE  RulesTypeOK'
<1>1. uses' \subseteq Uses
  BY Effect DEF RulesTypeOK
<1>2. running' \subseteq 1..Len(log')
  <2>1. /\ running \subseteq 1..Len(log) /\ Len(log) \in Nat
        /\ Here = Len(log) + 1 /\ Len(log') = Here
    BY LogGrows DEF RulesTypeOK, Here
  <2>2. running' \subseteq running \cup {Here}
    BY Effect
  <2> QED BY <2>1, <2>2
<1>3. lock' \in 0..Len(log')
  BY LockTyped, LogGrows DEF Here
<1> QED BY <1>1, <1>2, <1>3, LogGrows DEF RulesTypeOK

\* Rows are read in the order of time.
LEMMA ReadKeepsOrder ==
  ASSUME RulesTypeOK, Sorted, NEW e \in LogRows, ReadRow(e),
         log # <<>> => log[Len(log)].at <= e.at
  PROVE  Sorted'
<1> SUFFICES ASSUME NEW i \in 1..Len(log'), NEW j \in 1..Len(log'), i <= j
             PROVE  log'[i].at <= log'[j].at
  BY DEF Sorted
<1>1. Len(log') = Len(log) + 1 /\ Len(log) \in Nat
  BY LogGrows
<1>2. CASE j \in 1..Len(log)
  <2>1. i \in 1..Len(log)
    BY <1>1, <1>2
  <2> QED BY <1>2, <2>1, LogGrows DEF Sorted
<1>3. CASE j = Here
  <2>1. CASE i = Here
    BY <1>3, <2>1, LogGrows DEF LogRows
  <2>2. CASE i \in 1..Len(log)
    <3>1. log[i].at <= log[Len(log)].at /\ log # <<>>
      BY <1>1, <2>2, LogGrows DEF Sorted
    <3>2. log[i].at \in Nat /\ log[Len(log)].at \in Nat /\ e.at \in Nat
      BY <1>1, <2>2, LogGrows DEF LogRows
    <3> QED BY <1>3, <2>2, <3>1, <3>2, LogGrows
  <2> QED BY <1>1, <2>1, <2>2 DEF Here
<1> QED BY <1>1, <1>2, <1>3 DEF Here

\* Rows keep the accounts of openers and uses.
LEMMA ReadKeepsAccounts ==
  ASSUME RulesTypeOK, Accounted, NEW e \in LogRows, ReadRow(e)
  PROVE  Accounted'
<1>1. /\ Len(log') = Here /\ Here = Len(log) + 1 /\ Len(log) \in Nat
      /\ log'[Here] = e /\ ~over /\ over' = over
      /\ \A i \in 1..Len(log) : log'[i] = log[i]
      /\ running \subseteq 1..Len(log) /\ Here \notin 1..Len(log)
      /\ \A i \in 1..Here : i \in 1..Len(log) \/ i = Here
  BY LogGrows DEF RulesTypeOK, Here
<1>2. ASSUME NEW i \in 1..Len(log')
      PROVE  Opens(log[i])' <=> (i \in running' \/ \E u \in uses' : u.start = i)
  <2>1. CASE i = Here
    <3>1. \A u \in uses' : u.start # Here
      BY <1>1, Effect DEF Accounted
    <3>2. Opens(log[i])' <=> Opens(e)
      BY <2>1, RowsStay
    <3> QED BY <2>1, <3>1, <3>2, Effect
  <2>2. CASE i \in 1..Len(log)
    <3>1. Opens(log[i])' <=> Opens(log[i])
      BY <2>2, RowsStay
    <3>2. Opens(log[i]) <=> (i \in running \/ \E u \in uses : u.start = i)
      BY <2>2 DEF Accounted
    <3>3. (i \in running \/ \E u \in uses : u.start = i)
            <=> (i \in running' \/ \E u \in uses' : u.start = i)
      BY <1>1, <2>2, Effect
    <3> QED BY <3>1, <3>2, <3>3
  <2> QED BY <1>1, <1>2, <2>1, <2>2
<1>3. ASSUME NEW u \in uses'
      PROVE  /\ u.start \in 1..Len(log') /\ u.start \notin running'
             /\ u.stop \in 0..Len(log') /\ (u.stop = 0 => over')
  <2>1. CASE u \in uses
    BY <1>1, <2>1, Effect DEF Accounted
  <2>2. CASE u \in Uses /\ u.start \in running \ running' /\ u.stop \in 1..Here
    <3> DEFINE x == u.start
               y == u.stop
    <3>2. x \in running /\ y \in 1..Here
      BY <2>2
    <3> HIDE DEF x, y
    <3>3. x \in 1..Len(log') /\ y \in 0..Len(log') /\ y # 0
      BY <1>1, <3>2
    <3>1. u.start \in 1..Len(log') /\ u.stop \in 0..Len(log') /\ u.stop # 0
      BY <3>3 DEF x, y
    <3> QED BY <2>2, <3>1
  <2> QED BY <1>3, <2>1, <2>2, Effect
<1>4. ASSUME NEW u \in uses', NEW v \in uses', u.start = v.start
      PROVE  u = v
  <2>1. \A w \in uses' : w \in uses => w.start \notin running
    BY DEF Accounted
  <2>2. \A w \in uses' : w \notin uses => w.start \in running
    BY Effect
  <2>3. CASE u \in uses
    BY <1>4, <2>1, <2>2, <2>3 DEF Accounted
  <2>4. CASE u \notin uses
    <3>1. v \notin uses
      BY <1>4, <2>1, <2>2, <2>4
    <3> QED BY <1>4, <2>4, <3>1, Effect
  <2> QED BY <2>3, <2>4
<1>5. over' => running' = {}
  BY <1>1
<1> QED BY <1>2, <1>3, <1>4, <1>5 DEF Accounted

\* The rules with one open use keep one.
LEMMA ReadKeepsOneOpen ==
  ASSUME RulesTypeOK, OneOpen, NEW e \in LogRows, ReadRow(e)
  PROVE  OneOpen'
<1> SUFFICES ASSUME rule.name # "foregroundBackground", NEW s \in running', NEW t \in running'
             PROVE  s = t
  BY LogGrows DEF OneOpen
<1>1. CASE Opens(e)
  BY <1>1, Effect
<1>2. CASE ~Opens(e)
  <2>1. s \in running /\ t \in running
    BY <1>2, Effect
  <2> QED BY <2>1 DEF OneOpen
<1> QED BY <1>1, <1>2

-----------------------------------------------------------------------------
(* Draxler.                                                                 *)

\* A new row is the only one that can end a use that none of the others ended.
LEMMA DraxlerEndsGrow ==
  ASSUME RulesTypeOK, NEW e \in LogRows, ReadRow(e), NEW s \in 1..Len(log), NEW h, h = Here
  PROVE  /\ DraxlerEnds(s) \subseteq 1..Len(log)
         /\ \A i \in 1..Len(log) : i \in DraxlerEnds(s)' <=> i \in DraxlerEnds(s)
         /\ DraxlerEnds(s)' \subseteq 1..h
         /\ h \in DraxlerEnds(s)' <=> (BreaksSilence(e) \/ Closes(s, e) \/ e.kind = "screenOff")
<1>1. /\ Len(log') = h /\ h = Len(log) + 1 /\ Len(log) \in Nat /\ log'[h] = e
      /\ \A i \in 1..Len(log) : log'[i] = log[i]
  BY LogGrows DEF Here
<1>2. DraxlerEnds(s) \subseteq 1..Len(log) /\ DraxlerEnds(s)' \subseteq 1..h
  BY <1>1 DEF DraxlerEnds, After
<1>3. ASSUME NEW i \in 1..Len(log)
      PROVE  i \in DraxlerEnds(s)' <=> i \in DraxlerEnds(s)
  <2>1. i \in After(s)' <=> i \in After(s)
    BY <1>1, <1>3 DEF After
  <2>2. Silent(i)' <=> Silent(i)
    BY <1>3, RowsStay
  <2>3. Closes(s, log[i])' <=> Closes(s, log[i])
    BY <1>3, RowsStay
  <2> QED BY <1>1, <1>3, <2>1, <2>2, <2>3 DEF DraxlerEnds
<1>4. h \in DraxlerEnds(s)' <=> (BreaksSilence(e) \/ Closes(s, e) \/ e.kind = "screenOff")
  <2>1. h \in After(s)'
    BY <1>1 DEF After
  <2>2. Silent(h)' <=> BreaksSilence(e)
    BY RowsStay
  <2>3. Closes(s, log[h])' <=> Closes(s, e)
    BY RowsStay
  <2> QED BY <1>1, <2>1, <2>2, <2>3 DEF DraxlerEnds
<1> QED BY <1>2, <1>3, <1>4

\* An ended use stays as Draxler's definition has it.
LEMMA DraxlerUsesStay ==
  ASSUME RulesTypeOK, Accounted, NEW e \in LogRows, ReadRow(e), NEW u \in uses, DraxlerUse(u)
  PROVE  DraxlerUse(u)'
<1>1. /\ Len(log) \in Nat /\ u.start \in 1..Len(log) /\ u.stop \in 1..Len(log)
      /\ \A i \in 1..Len(log) : log'[i] = log[i]
  BY LogGrows DEF Accounted
<1>2. PICK h : h = Here
  OBVIOUS
<1>3. EndsAtFirst(u, DraxlerEnds(u.start))'
  <2>1. /\ DraxlerEnds(u.start) \subseteq DraxlerEnds(u.start)'
        /\ \A i \in DraxlerEnds(u.start)' \ DraxlerEnds(u.start) : i > Len(log)
        /\ DraxlerEnds(u.start)' \subseteq Nat
    <3>1. h = Len(log) + 1
      BY <1>2 DEF Here
    <3> QED BY <1>1, <1>2, <3>1, DraxlerEndsGrow
  <2>2. EndsAtFirst(u, DraxlerEnds(u.start))
    BY DEF DraxlerUse
  <2> QED BY <1>1, <2>1, <2>2 DEF EndsAtFirst
<1>4. Silent(u.stop)' <=> Silent(u.stop)
  BY <1>1, <1>2, RowsStay
<1>5. ClosedByRow(u)' <=> ClosedByRow(u)
  BY <1>1, <1>2, RowsStay DEF ClosedByRow
<1>6. Silent(u.stop) => log'[u.stop - 1] = log[u.stop - 1]
  BY <1>1 DEF Silent
<1> QED BY <1>1, <1>3, <1>4, <1>5, <1>6 DEF DraxlerUse, Unobserved

\* Draxler's rule ends its uses as its definition has it.
LEMMA ReadKeepsInterrupts ==
  ASSUME RulesTypeOK, Accounted, InterruptsWell, NEW e \in LogRows, ReadRow(e)
  PROVE  InterruptsWell'
<1> SUFFICES ASSUME rule.name = "draxler"
             PROVE  /\ \A u \in uses' : DraxlerUse(u)'
                    /\ \A s \in running' : DraxlerEnds(s)' = {}
  BY LogGrows DEF InterruptsWell
<1>1. Interrupt(e)
  BY DEF ReadRow, Pair, Tolerate
<1>2. PICK h : h = Here
  OBVIOUS
<1>3. /\ Len(log') = h /\ h = Len(log) + 1 /\ Len(log) \in Nat /\ log'[h] = e
      /\ \A i \in 1..Len(log) : log'[i] = log[i]
      /\ running \subseteq 1..Len(log) /\ h # 0 /\ h \in Nat
  BY <1>2, LogGrows DEF Here, RulesTypeOK
<1> DEFINE cut == IF BreaksSilence(e) THEN running ELSE {}
           shut == {s \in running \ cut : Closes(s, e)}
           off == IF e.kind = "screenOff" THEN running \ cut ELSE {}
<1>4. /\ uses' = uses \cup Ended(cut, h, log[Len(log)].at, "silence")
                      \cup Ended(shut, h, e.at, ClosingReason(e))
                      \cup Ended(off, h, e.at, "screenOff")
      /\ running' = (running \ (cut \cup shut \cup off)) \cup Opening(e)
  BY <1>1, <1>2 DEF Interrupt
<1>5. \A s \in running :
        /\ s \in cut <=> BreaksSilence(e)
        /\ s \in shut <=> ~BreaksSilence(e) /\ Closes(s, e)
        /\ s \in off <=> ~BreaksSilence(e) /\ e.kind = "screenOff"
  OBVIOUS
<1>6. cut \subseteq running /\ shut \subseteq running /\ off \subseteq running
  OBVIOUS
<1> HIDE DEF cut, shut, off
<1>7. ASSUME NEW s \in running
      PROVE  DraxlerEnds(s)' = IF s \in cut \cup shut \cup off THEN {h} ELSE {}
  <2>1. DraxlerEnds(s) = {}
    BY <1>7 DEF InterruptsWell
  <2>2. /\ \A i \in 1..Len(log) : i \notin DraxlerEnds(s)'
        /\ DraxlerEnds(s)' \subseteq 1..h
        /\ h \in DraxlerEnds(s)' <=> (BreaksSilence(e) \/ Closes(s, e) \/ e.kind = "screenOff")
    BY <1>2, <1>3, <1>7, <2>1, DraxlerEndsGrow
  <2>3. h \in DraxlerEnds(s)' <=> s \in cut \cup shut \cup off
    BY <1>5, <1>7, <2>2
  <2>4. \A i \in DraxlerEnds(s)' : i = h
    BY <1>3, <2>2
  <2> QED BY <2>3, <2>4
<1>8. ASSUME NEW u, u.start \in cut \cup shut \cup off, u.stop = h
      PROVE  EndsAtFirst(u, DraxlerEnds(u.start))'
  <2>1. DraxlerEnds(u.start)' = {h}
    BY <1>6, <1>7, <1>8
  <2> QED BY <1>3, <1>8, <2>1 DEF EndsAtFirst
<1>9. Silent(h)' <=> BreaksSilence(e)
  BY <1>2, RowsStay
<1>10. ASSUME NEW u \in uses'
       PROVE  DraxlerUse(u)'
  <2>1. CASE u \in uses
    BY <2>1, DraxlerUsesStay DEF InterruptsWell
  <2>2. CASE u \in Ended(cut, h, log[Len(log)].at, "silence")
    <3>1. u.start \in cut /\ u.stop = h /\ u.at = log[Len(log)].at /\ u.reason = "silence"
      BY <2>2, EndedAlike
    <3>2. BreaksSilence(e) /\ log # <<>>
      BY <1>5, <1>6, <3>1 DEF BreaksSilence
    <3>3. log'[h - 1] = log[Len(log)]
      BY <1>3, <3>2, LogGrows
    <3> QED BY <1>3, <1>8, <1>9, <3>1, <3>2, <3>3 DEF DraxlerUse
  <2>3. CASE u \in Ended(shut, h, e.at, ClosingReason(e))
    <3>1. u.start \in shut /\ u.stop = h /\ u.at = e.at /\ u.reason = ClosingReason(e)
      BY <2>3, EndedAlike
    <3>2. ~BreaksSilence(e) /\ Closes(u.start, e) /\ u.start \in 1..Len(log)
      BY <1>3, <1>5, <1>6, <3>1
    <3>3. Closes(u.start, log[h])' /\ ClosingReason(log[h])' = ClosingReason(e)
      BY <1>2, <3>2, RowsStay
    <3>4. ClosedByRow(u)'
      BY <1>3, <3>1, <3>3 DEF ClosedByRow
    <3> QED BY <1>3, <1>8, <1>9, <3>1, <3>2, <3>4 DEF DraxlerUse
  <2>4. CASE u \in Ended(off, h, e.at, "screenOff")
    <3>1. u.start \in off /\ u.stop = h /\ u.at = e.at /\ u.reason = "screenOff"
      BY <2>4, EndedAlike
    <3>2. ~BreaksSilence(e) /\ e.kind = "screenOff"
      BY <1>5, <1>6, <3>1
    <3> QED BY <1>3, <1>8, <1>9, <3>1, <3>2 DEF DraxlerUse
  <2> QED BY <1>4, <1>10, <2>1, <2>2, <2>3, <2>4
<1>11. ASSUME NEW s \in running'
       PROVE  DraxlerEnds(s)' = {}
  <2>1. CASE s \in running /\ s \notin cut \cup shut \cup off
    BY <1>7, <2>1
  <2>2. CASE s = h
    <3>1. After(h)' = {}
      BY <1>3 DEF After
    <3> QED BY <2>2, <3>1 DEF DraxlerEnds
  <2>3. (s \in running /\ s \notin cut \cup shut \cup off) \/ s = h
    BY <1>2, <1>4, <1>11 DEF Opening
  <2> QED BY <2>1, <2>2, <2>3
<1> QED BY <1>10, <1>11

-----------------------------------------------------------------------------
(* Foreground/background.                                                   *)

\* The numbers of rows are well ordered.
LEMMA RowsWellOrdered ==
  \E R : IsWellFoundedOn(R, Nat) /\ \A t, m \in Nat : t < m => <<t, m>> \in R
<1>1. IsWellFoundedOn(OpToRel(<, Nat), Nat)
  BY NatLessThanWellFounded
<1>2. \A t, m \in Nat : t < m => <<t, m>> \in OpToRel(<, Nat)
  BY DEF OpToRel
<1> QED BY <1>1, <1>2, Zenon

\* Of some row numbers one is the smallest.
LEMMA LeastRow ==
  ASSUME NEW T, T \subseteq Nat, T # {}
  PROVE  \E m \in T : \A t \in T : m <= t
<1>1. PICK R : IsWellFoundedOn(R, Nat) /\ \A t, m \in Nat : t < m => <<t, m>> \in R
  BY RowsWellOrdered
<1>2. \E m \in T : \A t \in T : ~(<<t, m>> \in R)
  <2>1. IsWellFoundedOn(R, Nat)
    BY <1>1
  <2> QED BY <2>1, WFMin, Zenon
<1>3. PICK m \in T : \A t \in T : ~(<<t, m>> \in R)
  BY <1>2
<1>4. ASSUME NEW t \in T
      PROVE  ~(t < m)
  <2>1. t \in Nat /\ m \in Nat
    OBVIOUS
  <2>2. ~(<<t, m>> \in R)
    BY <1>3, <1>4
  <2> QED BY <1>1, <2>1, <2>2, Zenon
<1>5. \A t \in T : m <= t
  BY <1>4
<1> QED BY <1>5

\* A pause of the app of an open use ends one.
LEMMA PauseEndsOne ==
  ASSUME running \subseteq Nat, NEW e, NEW s \in running, OwnPause(s, e)
  PROVE  FirstOpen(e) # {}
<1> DEFINE T == {t \in running : OwnPause(t, e)}
<1>1. T \subseteq Nat /\ T # {} /\ \A t \in T : t \in running /\ OwnPause(t, e)
  OBVIOUS
<1>2. \A t \in running : OwnPause(t, e) => t \in T
  OBVIOUS
<1> HIDE DEF T
<1>3. PICK m \in T : \A t \in T : m <= t
  BY <1>1, LeastRow
<1> QED BY <1>1, <1>2, <1>3 DEF FirstOpen

\* An ended use stays as the definition of foreground/background has it.
LEMMA PairedUsesStay ==
  ASSUME RulesTypeOK, Accounted, NEW e \in LogRows, ReadRow(e), NEW u \in uses, PairedUse(u)
  PROVE  PairedUse(u)'
<1>1. /\ Len(log) \in Nat /\ u.start \in 1..Len(log) /\ u.stop \in 1..Len(log)
      /\ \A i \in 1..Len(log) : log'[i] = log[i]
      /\ uses \subseteq uses' /\ Len(log') = Len(log) + 1
  BY LogGrows, Effect DEF Accounted, Here
<1>2. PICK h : h = Here
  OBVIOUS
<1>3. /\ u.stop \in After(u.start) /\ OwnPause(u.start, log[u.stop])
      /\ u.at = log[u.stop].at /\ u.reason = "paused"
      /\ \A i \in 1..u.start - 1 : Opens(log[i]) /\ log[i].app = log[u.start].app =>
           \E v \in uses : v.start = i /\ v.stop \in 1..u.stop - 1
      /\ \A i \in After(u.start) : i < u.stop /\ OwnPause(u.start, log[i]) => EndsAUse(i)
  BY <1>1 DEF PairedUse, Unobserved
<1>4. ASSUME NEW i \in After(u.start)', i < u.stop, OwnPause(u.start, log[i])'
      PROVE  EndsAUse(i)'
  <2>1. i \in 1..Len(log) /\ i \in After(u.start)
    BY <1>1, <1>4 DEF After
  <2>2. OwnPause(u.start, log[i])
    BY <1>1, <1>2, <1>4, <2>1, RowsStay
  <2> QED BY <1>1, <1>3, <1>4, <2>1, <2>2 DEF EndsAUse
<1>5. ASSUME NEW i \in 1..u.start - 1, Opens(log[i])', log'[i].app = log'[u.start].app
      PROVE  \E v \in uses' : v.start = i /\ v.stop \in 1..u.stop - 1
  <2>1. i \in 1..Len(log)
    BY <1>1
  <2>2. Opens(log[i]) /\ log[i].app = log[u.start].app
    BY <1>1, <1>2, <1>5, <2>1, RowsStay
  <2> QED BY <1>1, <1>3, <2>2
<1>6. u.stop \in After(u.start)' /\ OwnPause(u.start, log[u.stop])' /\ u.at = log'[u.stop].at
  <2>1. u.stop \in After(u.start)'
    BY <1>1, <1>3 DEF After
  <2> QED BY <1>1, <1>2, <1>3, <2>1, RowsStay
<1>7. u.stop # 0
  BY <1>1
<1> QED BY <1>3, <1>4, <1>5, <1>6, <1>7 DEF PairedUse

\* Foreground/background pairs as its definition has it.
LEMMA ReadKeepsPairs ==
  ASSUME RulesTypeOK, Accounted, PairsWell, NEW e \in LogRows, ReadRow(e)
  PROVE  PairsWell'
<1> SUFFICES ASSUME rule.name = "foregroundBackground"
             PROVE  /\ \A u \in uses' : PairedUse(u)'
                    /\ \A s \in running' : \A i \in After(s)' :
                         OwnPause(s, log[i])' => EndsAUse(i)'
  BY LogGrows DEF PairsWell
<1>1. Pair(e)
  BY DEF ReadRow, Interrupt, Tolerate
<1>2. PICK h : h = Here
  OBVIOUS
<1>3. /\ Len(log') = h /\ h = Len(log) + 1 /\ Len(log) \in Nat /\ log'[h] = e
      /\ \A i \in 1..Len(log) : log'[i] = log[i]
      /\ running \subseteq 1..Len(log) /\ running \subseteq Nat /\ h # 0 /\ h \in Nat /\ ~over
  BY <1>2, LogGrows DEF Here, RulesTypeOK
<1>4. /\ uses' = uses \cup Ended(FirstOpen(e), h, e.at, "paused")
      /\ running' = (running \ FirstOpen(e)) \cup Opening(e)
  BY <1>1, <1>2 DEF Pair
<1>5. ASSUME NEW s \in running, NEW i \in After(s)', i < h, OwnPause(s, log[i])'
      PROVE  EndsAUse(i)'
  <2>1. i \in 1..Len(log) /\ i \in After(s) /\ s \in 1..Len(log)
    BY <1>3, <1>5 DEF After
  <2>2. OwnPause(s, log[i])
    BY <1>2, <1>5, <2>1, RowsStay
  <2> QED BY <1>4, <2>1, <2>2 DEF PairsWell, EndsAUse
<1>6. ASSUME NEW u \in Ended(FirstOpen(e), h, e.at, "paused")
      PROVE  PairedUse(u)'
  <2>1. u.start \in FirstOpen(e) /\ u.stop = h /\ u.at = e.at /\ u.reason = "paused"
    BY <1>6, EndedAlike
  <2>2. /\ u.start \in running /\ OwnPause(u.start, e) /\ u.start \in 1..Len(log)
        /\ \A t \in running : OwnPause(t, e) => u.start <= t
    BY <1>3, <2>1 DEF FirstOpen
  <2>3. u.stop \in After(u.start)' /\ OwnPause(u.start, log[u.stop])' /\ u.at = log'[u.stop].at
    <3>1. u.stop \in After(u.start)'
      BY <1>3, <2>1, <2>2 DEF After
    <3>2. OwnPause(u.start, log[h])'
      BY <1>2, <2>2, RowsStay
    <3> QED BY <1>3, <2>1, <3>1, <3>2
  <2>4. ASSUME NEW i \in 1..u.start - 1, Opens(log[i])', log'[i].app = log'[u.start].app
        PROVE  \E v \in uses' : v.start = i /\ v.stop \in 1..u.stop - 1
    <3>1. i \in 1..Len(log) /\ ~(u.start <= i)
      BY <1>3, <2>2
    <3>2. Opens(log[i]) /\ log[i].app = log[u.start].app
      BY <1>2, <1>3, <2>2, <2>4, <3>1, RowsStay
    <3>3. OwnPause(i, e)
      BY <2>2, <3>2 DEF OwnPause
    <3>4. i \notin running
      BY <2>2, <3>1, <3>3
    <3>5. PICK v \in uses : v.start = i
      BY <3>1, <3>2, <3>4 DEF Accounted
    <3>6. v.stop \in 0..Len(log) /\ v.stop # 0
      BY <1>3, <3>5 DEF Accounted
    <3>7. v.stop \in 1..u.stop - 1
      BY <1>3, <2>1, <3>6
    <3> QED BY <1>4, <3>5, <3>7
  <2>5. \A i \in After(u.start)' : i < u.stop /\ OwnPause(u.start, log[i])' => EndsAUse(i)'
    BY <1>5, <2>1, <2>2
  <2>6. u.stop # 0
    BY <1>3, <2>1
  <2> QED BY <2>1, <2>3, <2>4, <2>5, <2>6 DEF PairedUse
<1>7. ASSUME NEW s \in running', NEW i \in After(s)', OwnPause(s, log[i])'
      PROVE  EndsAUse(i)'
  <2>1. s \in running \/ s = h
    BY <1>2, <1>4 DEF Opening
  <2>2. CASE s = h
    BY <1>3, <1>7, <2>2 DEF After
  <2>3. CASE s \in running /\ i < h
    BY <1>5, <1>7, <2>3
  <2>4. CASE s \in running /\ ~(i < h)
    <3>1. i = h /\ s \in 1..Len(log)
      BY <1>3, <1>7, <2>4 DEF After
    <3>2. OwnPause(s, e)
      BY <1>2, <1>7, <3>1, RowsStay
    <3>3. PICK t : t \in FirstOpen(e)
      BY <1>3, <2>4, <3>2, PauseEndsOne
    <3>4. \E u \in Ended(FirstOpen(e), h, e.at, "paused") : u.start = t
      BY <3>3, EndedAlike
    <3>5. \E u \in Ended(FirstOpen(e), h, e.at, "paused") : u.stop = h
      BY <3>4, EndedAlike
    <3> QED BY <1>4, <3>1, <3>5 DEF EndsAUse
  <2> QED BY <2>1, <2>2, <2>3, <2>4
<1>8. \A u \in uses' : PairedUse(u)'
  BY <1>4, <1>6, PairedUsesStay DEF PairsWell
<1> QED BY <1>7, <1>8

-----------------------------------------------------------------------------
(* Morrison.                                                                *)

\* What is known of a lock does not change with the rows after it, except that
\* the next row can be the one that comes too soon.
LEMMA LocksStay ==
  ASSUME RulesTypeOK, NEW e \in LogRows, ReadRow(e), NEW h, h = Here,
         NEW s \in 1..Len(log), NEW k \in 1..Len(log)
  PROVE  /\ k \in After(s)' <=> k \in After(s)
         /\ GoesOff(s, k)' <=> GoesOff(s, k)
         /\ ~StaysOff(s, k) => ~StaysOff(s, k)'
         /\ (e.kind = "screenOn" \/ Closes(s, e)) /\ e.at - log[k].at < LockTimeout
              => ~StaysOff(s, k)'
         /\ StaysOff(s, k) /\ e.at - log[k].at >= LockTimeout => StaysOff(s, k)'
<1>1. /\ Len(log') = h /\ h = Len(log) + 1 /\ Len(log) \in Nat /\ log'[h] = e
      /\ \A i \in 1..Len(log) : log'[i] = log[i]
      /\ LockTimeout \in Nat /\ e.at \in Nat /\ \A i \in 1..Len(log) : log[i].at \in Nat
  BY LogGrows, RulesAssumption DEF Here, LogRows
<1>2. /\ \A i \in 1..Len(log) : Closes(s, log[i])' <=> Closes(s, log[i])
      /\ Closes(s, log[h])' <=> Closes(s, e)
  BY RowsStay
<1>3. k \in After(s)' <=> k \in After(s)
  BY <1>1 DEF After
<1>4. GoesOff(s, k)' <=> GoesOff(s, k)
  <2>1. \A i \in s + 1 .. k - 1 : log'[i] = log[i]
    BY <1>1
  <2>2. \A i \in s + 1 .. k - 1 : \A j \in i + 1 .. k - 1 : log'[j] = log[j]
    BY <1>1
  <2> QED BY <1>1, <2>1, <2>2 DEF GoesOff
<1>5. After(k) \subseteq 1..Len(log) /\ After(k)' = After(k) \cup {h}
  BY <1>1 DEF After
<1>6. StaysOff(s, k)' <=>
        /\ StaysOff(s, k)
        /\ e.kind = "screenOn" \/ Closes(s, e) => e.at - log[k].at >= LockTimeout
  <2>1. StaysOff(s, k)' <=>
          \A i \in After(k)' : log'[i].kind = "screenOn" \/ Closes(s, log[i])'
                               => log'[i].at - log'[k].at >= LockTimeout
    BY DEF StaysOff
  <2>2. \A i \in After(k) : log'[i] = log[i] /\ (Closes(s, log[i])' <=> Closes(s, log[i]))
    BY <1>1, <1>2, <1>5
  <2> QED BY <1>1, <1>2, <1>5, <2>1, <2>2 DEF StaysOff
<1>7. ~(e.at - log[k].at < LockTimeout /\ e.at - log[k].at >= LockTimeout)
  BY <1>1
<1> QED BY <1>3, <1>4, <1>6, <1>7

\* An ended use stays as Morrison's definition has it.
LEMMA MorrisonUsesStay ==
  ASSUME RulesTypeOK, Accounted, LockHadLasted, NEW e \in LogRows, ReadRow(e),
         log # <<>> => log[Len(log)].at <= e.at,
         NEW u \in uses, MorrisonUse(u)
  PROVE  /\ MorrisonUse(u)'
         /\ u.reason = "locked" => e.at - log'[u.stop].at >= LockTimeout
<1>1. /\ Len(log) \in Nat /\ u.start \in 1..Len(log) /\ u.stop \in 1..Len(log)
      /\ \A i \in 1..Len(log) : log'[i] = log[i] /\ log[i].at \in Nat
      /\ Len(log') = Len(log) + 1 /\ ~over /\ log # <<>> /\ e.at \in Nat
      /\ LockTimeout \in Nat
  BY LogGrows, RulesAssumption DEF Accounted, LogRows
<1>2. PICK h : h = Here
  OBVIOUS
<1>3. u.reason = "locked" => e.at - log[u.stop].at >= LockTimeout
  <2>1. u.reason = "locked" => log[Len(log)].at - log[u.stop].at >= LockTimeout
    BY <1>1 DEF LockHadLasted
  <2>2. log[Len(log)].at \in Nat /\ log[u.stop].at \in Nat /\ log[Len(log)].at <= e.at
    BY <1>1
  <2> QED BY <1>1, <2>1, <2>2
<1>4. EndsAtFirst(u, MorrisonEnds(u.start))
  BY DEF MorrisonUse
<1>5. u.stop \in MorrisonEnds(u.start) /\ \A i \in MorrisonEnds(u.start) : u.stop <= i
  BY <1>1, <1>4 DEF EndsAtFirst
<1>6. \A i \in 1..Len(log) : i \in MorrisonEnds(u.start)' => i \in MorrisonEnds(u.start)
  <2> SUFFICES ASSUME NEW i \in 1..Len(log), i \in MorrisonEnds(u.start)'
               PROVE  i \in MorrisonEnds(u.start)
    OBVIOUS
  <2>1. CASE i \in LastingLocks(u.start)'
    BY <1>1, <1>2, <2>1, LocksStay DEF LastingLocks, MorrisonEnds
  <2>2. CASE i \in After(u.start)' /\ Closes(u.start, log[i])'
    BY <1>1, <1>2, <2>2, LocksStay, RowsStay DEF MorrisonEnds
  <2> QED BY <2>1, <2>2 DEF MorrisonEnds
<1>7. \A i \in MorrisonEnds(u.start)' : u.stop <= i
  <2>1. MorrisonEnds(u.start)' \subseteq Int
    BY DEF MorrisonEnds, LastingLocks, After
  <2>2. \A i \in MorrisonEnds(u.start)' : i \in 1..Len(log) \/ i > Len(log)
    <3>1. \A i \in MorrisonEnds(u.start)' : i >= 1
      BY <1>1 DEF MorrisonEnds, LastingLocks, After
    <3> QED BY <1>1, <2>1, <3>1
  <2> QED BY <1>1, <1>5, <1>6, <2>1, <2>2
<1>8. CASE u.stop \in LastingLocks(u.start) /\ u.at = log[u.stop].at /\ u.reason = "locked"
  <2>1. u.stop \in LastingLocks(u.start)'
    BY <1>1, <1>2, <1>3, <1>8, LocksStay DEF LastingLocks
  <2>2. EndsAtFirst(u, MorrisonEnds(u.start))'
    BY <1>7, <2>1 DEF EndsAtFirst, MorrisonEnds
  <2> QED BY <1>1, <1>3, <1>8, <2>1, <2>2 DEF MorrisonUse
<1>9. CASE ClosedByRow(u)
  <2>1. ClosedByRow(u)'
    BY <1>1, <1>2, <1>9, RowsStay DEF ClosedByRow
  <2>2. u.stop \in After(u.start)
    BY <1>5 DEF MorrisonEnds, LastingLocks
  <2>3. u.stop \in MorrisonEnds(u.start)'
    BY <1>1, <1>2, <2>1, <2>2, LocksStay DEF ClosedByRow, MorrisonEnds
  <2>4. EndsAtFirst(u, MorrisonEnds(u.start))'
    BY <1>7, <2>3 DEF EndsAtFirst
  <2> QED BY <1>1, <1>3, <2>1, <2>4 DEF MorrisonUse
<1>10. ~Unobserved(u)
  BY <1>1 DEF Unobserved
<1> QED BY <1>8, <1>9, <1>10 DEF MorrisonUse

\* Until the next row, no lock but the pending one can end an open use.
LEMMA OpenUse ==
  ASSUME RulesTypeOK, ToleratesWell, rule.name = "morrison", NEW s \in running
  PROVE  /\ s \in 1..Len(log)
         /\ \A i \in After(s) : ~Closes(s, log[i])
         /\ \A k \in After(s) : GoesOff(s, k) => k = lock \/ ~StaysOff(s, k)
         /\ lock = 0 => \A k \in After(s) : log[k].kind = "screenOff" =>
                          \E j \in After(k) : log[j].kind = "screenOn"
         /\ lock # 0 => lock \in After(s) /\ GoesOff(s, lock)
<1>1. lock # 0 => lock \in After(s) /\ GoesOff(s, lock)
  <2>1. lock \in 0..Len(log) /\ s \in 1..Len(log)
    BY DEF RulesTypeOK
  <2> QED BY <2>1 DEF ToleratesWell, LockPends, After
<1> QED BY <1>1 DEF RulesTypeOK, ToleratesWell, EarlierLocksReleased

\* A lock that has lasted ends the use where the screen went off.
LEMMA LastingLockEnds ==
  ASSUME RulesTypeOK, ToleratesWell, rule.name = "morrison", NEW e \in LogRows, ReadRow(e),
         LockLasted(e), NEW s \in running, NEW u,
         u.start = s, u.stop = lock, u.at = log[lock].at, u.reason = "locked"
  PROVE  MorrisonUse(u)' /\ e.at - log'[u.stop].at >= LockTimeout
<1>1. /\ Len(log) \in Nat /\ s \in 1..Len(log) /\ lock \in 1..Len(log) /\ lock \in After(s)
      /\ log'[lock] = log[lock] /\ GoesOff(s, lock) /\ e.at - log[lock].at >= LockTimeout
  BY OpenUse, LogGrows DEF LockLasted, RulesTypeOK
<1>2. PICK h : h = Here
  OBVIOUS
<1>3. StaysOff(s, lock)
  <2>1. After(lock) \subseteq After(s)
    BY <1>1 DEF After
  <2>2. \A i \in After(lock) : log[i].kind # "screenOn" /\ ~Closes(s, log[i])
    BY <1>1, <2>1, OpenUse DEF ToleratesWell, LockPends
  <2> QED BY <2>2 DEF StaysOff
<1>4. lock \in LastingLocks(s)'
  BY <1>1, <1>2, <1>3, LocksStay DEF LastingLocks
<1>5. ASSUME NEW i \in MorrisonEnds(s)'
      PROVE  lock <= i
  <2>1. i \in After(s)' /\ i \in Int /\ i >= 1
    <3>1. i \in After(s)'
      BY <1>5 DEF MorrisonEnds, LastingLocks
    <3> QED BY <1>1, <3>1 DEF After
  <2>2. CASE i \in 1..Len(log)
    <3>1. i \in After(s)
      BY <1>1, <1>2, <2>1, <2>2, LocksStay
    <3>2. ~Closes(s, log[i])'
      BY <1>1, <1>2, <2>2, <3>1, OpenUse, RowsStay
    <3>3. i \in LastingLocks(s)'
      BY <1>5, <3>2 DEF MorrisonEnds
    <3>4. GoesOff(s, i) /\ StaysOff(s, i)
      BY <1>1, <1>2, <2>2, <3>3, LocksStay DEF LastingLocks
    <3>5. i = lock
      BY <3>1, <3>4, OpenUse
    <3> QED BY <1>1, <3>5
  <2>3. CASE i > Len(log)
    BY <1>1, <2>1, <2>3
  <2> QED BY <1>1, <2>1, <2>2, <2>3
<1>6. EndsAtFirst(u, MorrisonEnds(u.start))'
  <2>1. lock \in MorrisonEnds(s)'
    BY <1>4 DEF MorrisonEnds
  <2> QED BY <1>5, <2>1 DEF EndsAtFirst
<1> QED BY <1>1, <1>4, <1>6 DEF MorrisonUse

\* A row that closes a use ends it, since the pending lock was too short.
LEMMA ClosingRowEnds ==
  ASSUME RulesTypeOK, ToleratesWell, rule.name = "morrison", NEW e \in LogRows, ReadRow(e),
         ~LockLasted(e), NEW s \in running, Closes(s, e), NEW u, NEW h, h = Here,
         u.start = s, u.stop = h, u.at = e.at, u.reason = ClosingReason(e)
  PROVE  MorrisonUse(u)'
<1>1. /\ Len(log) \in Nat /\ Len(log') = h /\ h = Len(log) + 1 /\ log'[h] = e
      /\ s \in 1..Len(log) /\ h # 0 /\ h \in After(s)' /\ After(s)' \subseteq 1..h
      /\ e.at \in Nat /\ \A i \in 1..Len(log) : log[i].at \in Nat
      /\ LockTimeout \in Nat /\ lock \in 0..Len(log)
  BY LogGrows, RulesAssumption DEF RulesTypeOK, Here, After, LogRows
<1>2. Closes(s, log[h])' /\ ClosingReason(log[h])' = ClosingReason(e)
  BY <1>1, RowsStay
<1>3. ASSUME NEW i \in MorrisonEnds(s)'
      PROVE  h <= i
  <2>1. i \in After(s)'
    BY <1>3 DEF MorrisonEnds, LastingLocks
  <2>2. CASE i = h
    BY <1>1, <2>2
  <2>3. CASE i \in 1..Len(log)
    <3>1. i \in After(s)
      BY <1>1, <2>1, <2>3, LocksStay
    <3>2. ~Closes(s, log[i])'
      BY <1>1, <2>3, <3>1, OpenUse, RowsStay
    <3>3. i \in LastingLocks(s)'
      BY <1>3, <3>2 DEF MorrisonEnds
    <3>4. GoesOff(s, i) /\ StaysOff(s, i) /\ StaysOff(s, i)'
      BY <1>1, <2>3, <3>3, LocksStay DEF LastingLocks
    <3>5. i = lock
      BY <3>1, <3>4, OpenUse
    <3>6. e.at - log[i].at < LockTimeout
      BY <1>1, <2>3, <3>5 DEF LockLasted
    <3> QED BY <1>1, <2>3, <3>4, <3>6, LocksStay
  <2> QED BY <1>1, <2>1, <2>2, <2>3
<1>4. EndsAtFirst(u, MorrisonEnds(u.start))'
  <2>1. h \in MorrisonEnds(s)'
    BY <1>1, <1>2 DEF MorrisonEnds
  <2> QED BY <1>3, <2>1 DEF EndsAtFirst
<1>5. ClosedByRow(u)'
  BY <1>1, <1>2 DEF ClosedByRow
<1> QED BY <1>4, <1>5 DEF MorrisonUse

\* The uses that a row adds are those of the locks that lasted and those it
\* closes.
LEMMA ReadKeepsMorrisonUses ==
  ASSUME RulesTypeOK, Accounted, ToleratesWell, rule.name = "morrison",
         NEW e \in LogRows, ReadRow(e), log # <<>> => log[Len(log)].at <= e.at
  PROVE  (\A u \in uses : MorrisonUse(u))' /\ LockHadLasted'
<1>1. /\ Len(log') = Len(log) + 1 /\ Here = Len(log) + 1 /\ log'[Here] = e
  BY LogGrows DEF Here
<1>2. PICK h : h = Here
  OBVIOUS
<1>3. Tolerate(e)
  BY DEF ReadRow, Pair, Interrupt
<1> DEFINE locked == IF LockLasted(e) THEN running ELSE {}
           shut == {s \in running \ locked : Closes(s, e)}
           A == Ended(locked, lock, log[lock].at, "locked")
           B == Ended(shut, Here, e.at, ClosingReason(e))
<1>4. uses' = uses \cup A \cup B
  BY <1>3 DEF Tolerate
<1>5. ASSUME NEW u \in uses'
      PROVE  MorrisonUse(u)' /\ (u.reason = "locked" => e.at - log'[u.stop].at >= LockTimeout)
  <2>1. CASE u \in uses
    BY <2>1, MorrisonUsesStay DEF ToleratesWell
  <2>2. CASE u \in A
    <3>1. u.start \in locked /\ u.stop = lock /\ u.at = log[lock].at /\ u.reason = "locked"
      BY <2>2, EndedAlike
    <3>2. LockLasted(e) /\ u.start \in running
      BY <3>1
    <3> QED BY <3>1, <3>2, LastingLockEnds
  <2>3. CASE u \in B
    <3>1. u.start \in shut /\ u.stop = Here /\ u.at = e.at /\ u.reason = ClosingReason(e)
      BY <2>3, EndedAlike
    <3>2. ~LockLasted(e) /\ u.start \in running /\ Closes(u.start, e)
      BY <3>1
    <3>3. u.reason # "locked"
      BY <3>1 DEF ClosingReason
    <3> QED BY <1>2, <3>1, <3>2, <3>3, ClosingRowEnds
  <2> QED BY <1>4, <1>5, <2>1, <2>2, <2>3
<1>6. LockHadLasted'
  BY <1>1, <1>5 DEF LockHadLasted
<1> QED BY <1>5, <1>6

\* A row that ends what is open, or finds nothing open, leaves no lock.
LEMMA NothingPends ==
  ASSUME RulesTypeOK, NEW e \in LogRows, ReadRow(e), running' \subseteq {Here}, lock' = 0
  PROVE  LockPends' /\ EarlierLocksReleased'
<1>1. Len(log') = Here /\ Here \in Nat
  BY LogGrows DEF Here
<1>2. \A s \in running' : After(s)' = {}
  BY <1>1 DEF After
<1> QED BY <1>2 DEF LockPends, EarlierLocksReleased

\* A row that ends nothing leaves every earlier lock too short.
LEMMA EarlierStayReleased ==
  ASSUME RulesTypeOK, ToleratesWell, rule.name = "morrison", NEW e \in LogRows, ReadRow(e),
         ~LockLasted(e), NEW s \in running, ~Closes(s, e), NEW h, h = Here,
         e.kind = "screenOn" => lock' = 0,
         e.kind # "screenOn" /\ lock # 0 => lock' = lock
  PROVE  /\ s \in 1..Len(log) /\ After(s)' = After(s) \cup {h}
         /\ \A i \in After(s)' : ~Closes(s, log[i])'
         /\ \A k \in After(s) : GoesOff(s, k)' => k = lock' \/ ~StaysOff(s, k)'
<1>1. /\ Len(log) \in Nat /\ Len(log') = h /\ h = Len(log) + 1 /\ log'[h] = e
      /\ s \in 1..Len(log) /\ After(s) \subseteq 1..Len(log) /\ 0 \notin After(s)
      /\ After(s)' = After(s) \cup {h} /\ e.at \in Nat /\ LockTimeout \in Nat
      /\ \A i \in 1..Len(log) : log[i].at \in Nat
  <2>1. /\ Len(log) \in Nat /\ Len(log') = h /\ h = Len(log) + 1 /\ log'[h] = e
        /\ s \in 1..Len(log) /\ \A i \in 1..Len(log) : log[i] \in LogRows
    BY LogGrows DEF RulesTypeOK, Here
  <2>2. /\ After(s) \subseteq 1..Len(log) /\ 0 \notin After(s)
        /\ After(s)' = After(s) \cup {h}
    BY <2>1 DEF After
  <2> QED BY <2>1, <2>2, RulesAssumption DEF LogRows
<1>2. \A i \in After(s)' : ~Closes(s, log[i])'
  BY <1>1, OpenUse, RowsStay
<1>3. ASSUME NEW k \in After(s), GoesOff(s, k)'
      PROVE  k = lock' \/ ~StaysOff(s, k)'
  <2>1. GoesOff(s, k)
    BY <1>1, <1>3, LocksStay
  <2>2. CASE ~StaysOff(s, k)
    BY <1>1, <2>2, LocksStay
  <2>3. CASE k = lock
    <3>1. lock # 0
      BY <1>1, <2>3
    <3>2. CASE e.kind = "screenOn"
      <4>1. e.at - log[k].at < LockTimeout
        BY <1>1, <2>3, <3>1 DEF LockLasted
      <4> QED BY <1>1, <3>2, <4>1, LocksStay
    <3>3. CASE e.kind # "screenOn"
      BY <2>3, <3>1, <3>3
    <3> QED BY <3>2, <3>3
  <2> QED BY <1>3, <2>1, <2>2, <2>3, OpenUse
<1> QED BY <1>1, <1>2, <1>3

\* A row that ends nothing leaves the pending lock what it stands for.
LEMMA QuietRowKeepsLocks ==
  ASSUME RulesTypeOK, ToleratesWell, rule.name = "morrison", NEW e \in LogRows, ReadRow(e),
         ~LockLasted(e), \A s \in running : ~Closes(s, e),
         running # {}, running' = running, lock' = HeldLock(e)
  PROVE  LockPends' /\ EarlierLocksReleased'
<1>1. PICK h : h = Here
  OBVIOUS
<1>2. /\ Len(log) \in Nat /\ Len(log') = h /\ h = Len(log) + 1 /\ log'[h] = e /\ h # 0
      /\ \A i \in 1..Len(log) : log'[i] = log[i]
      /\ running \subseteq 1..Len(log) /\ e.at \in Nat
      /\ LockTimeout \in Nat /\ LockTimeout > 0
      /\ \A i \in 1..Len(log) : log[i].at \in Nat
      /\ lock \in 0..Len(log)
  <2>1. /\ Len(log) \in Nat /\ running \subseteq 1..Len(log) /\ lock \in 0..Len(log)
        /\ \A i \in 1..Len(log) : log[i] \in LogRows
    BY LogGrows DEF RulesTypeOK
  <2>2. e.at \in Nat /\ \A i \in 1..Len(log) : log[i].at \in Nat
    BY <2>1 DEF LogRows
  <2>3. Len(log') = h /\ h = Len(log) + 1 /\ log'[h] = e /\ \A i \in 1..Len(log) : log'[i] = log[i]
    BY <1>1, LogGrows DEF Here
  <2> QED BY <2>1, <2>2, <2>3, RulesAssumption
<1>3. /\ e.kind = "screenOn" => lock' = 0
      /\ e.kind # "screenOn" /\ lock # 0 => lock' = lock
      /\ e.kind = "screenOff" /\ lock = 0 => lock' = h
      /\ e.kind \notin {"screenOn", "screenOff"} => lock' = lock
  BY <1>1 DEF HeldLock
<1>4. ASSUME NEW s \in running
      PROVE  /\ s \in 1..Len(log) /\ After(s)' = After(s) \cup {h}
             /\ After(s) \subseteq 1..Len(log) /\ h \notin After(s)
             /\ \A i \in After(s)' : ~Closes(s, log[i])'
             /\ \A k \in After(s) : GoesOff(s, k)' => k = lock' \/ ~StaysOff(s, k)'
  <2>1. After(s) \subseteq 1..Len(log) /\ h \notin After(s)
    BY <1>2, <1>4 DEF After
  <2> QED BY <1>1, <1>3, <1>4, <2>1, EarlierStayReleased
<1>5. lock # 0 => \A j \in After(lock) : log[j].kind # "screenOn"
  BY DEF ToleratesWell, LockPends
<1>6. ASSUME NEW s \in running, lock = 0, NEW k \in After(s), log[k].kind = "screenOff"
      PROVE  \E j \in k + 1 .. Len(log) : log[j].kind = "screenOn"
  BY <1>6, OpenUse DEF After
<1>7. LockPends'
  <2> SUFFICES ASSUME lock' # 0
               PROVE  /\ log'[lock'].kind = "screenOff"
                      /\ \A j \in After(lock)' : log'[j].kind # "screenOn"
                      /\ log'[Len(log')].at - log'[lock'].at < LockTimeout
                      /\ \A s \in running : s < lock' /\ GoesOff(s, lock)'
    BY DEF LockPends
  <2>1. CASE lock = 0
    <3>1. e.kind = "screenOff" /\ lock' = h
      BY <1>3, <2>1
    <3>2. After(lock)' = {}
      BY <1>2, <3>1 DEF After
    <3>3. ASSUME NEW s \in running
          PROVE  s < h /\ GoesOff(s, h)'
      <4>1. ASSUME NEW i \in s + 1 .. h - 1, log'[i].kind = "screenOff"
            PROVE  \E j \in i + 1 .. h - 1 : log'[j].kind = "screenOn"
        <5>1. i \in After(s) /\ i \in 1..Len(log)
          BY <1>2, <1>4, <4>1 DEF After
        <5>2. log[i].kind = "screenOff"
          BY <1>2, <4>1, <5>1
        <5>3. PICK j \in i + 1 .. Len(log) : log[j].kind = "screenOn"
          BY <1>6, <2>1, <5>1, <5>2
        <5>4. j \in 1..Len(log) /\ j \in i + 1 .. h - 1
          BY <1>2, <5>1
        <5> QED BY <1>2, <5>3, <5>4
      <4> QED BY <1>2, <3>1, <3>3, <4>1 DEF GoesOff
    <3>4. \A s \in running : GoesOff(s, lock)' <=> GoesOff(s, h)'
      BY <3>1 DEF GoesOff
    <3> QED BY <1>2, <3>1, <3>2, <3>3, <3>4
  <2>2. CASE lock # 0
    <3>1. lock' = lock /\ e.kind # "screenOn" /\ lock \in 1..Len(log)
      BY <1>2, <1>3, <2>2
    <3>2. After(lock)' = After(lock) \cup {h} /\ After(lock) \subseteq 1..Len(log)
      BY <1>2, <3>1 DEF After
    <3>3. e.at - log[lock].at < LockTimeout
      BY <1>2, <2>2, <3>1 DEF LockLasted
    <3>4. log[lock].kind = "screenOff" /\ \A s \in running : s < lock /\ GoesOff(s, lock)
      BY <2>2 DEF ToleratesWell, LockPends
    <3>5. PICK l : l = lock
      OBVIOUS
    <3>6. \A s \in running : GoesOff(s, l)' <=> GoesOff(s, l)
      BY <1>1, <1>2, <3>1, <3>5, LocksStay
    <3>7. \A s \in running : GoesOff(s, lock)' <=> GoesOff(s, l)'
      BY <3>1, <3>5 DEF GoesOff
    <3> QED BY <1>2, <1>5, <2>2, <3>1, <3>2, <3>3, <3>4, <3>5, <3>6, <3>7
  <2> QED BY <2>1, <2>2
<1>8. ASSUME NEW s \in running, NEW k \in After(s)', GoesOff(s, k)'
      PROVE  k = lock' \/ ~StaysOff(s, k)'
  <2>1. CASE k \in After(s)
    BY <1>4, <1>8, <2>1
  <2>2. CASE k = h
    <3>1. e.kind = "screenOff"
      BY <1>2, <1>8, <2>2 DEF GoesOff
    <3>2. CASE lock = 0
      BY <1>3, <2>2, <3>1, <3>2
    <3>3. CASE lock # 0
      <4>1. lock \in s + 1 .. h - 1 /\ log'[lock].kind = "screenOff" /\ lock \in 1..Len(log)
        <5>1. s < lock /\ log[lock].kind = "screenOff"
          BY <1>8, <3>3 DEF ToleratesWell, LockPends
        <5> QED BY <1>2, <1>4, <3>3, <5>1
      <4>2. PICK j \in lock + 1 .. h - 1 : log'[j].kind = "screenOn"
        BY <1>8, <2>2, <4>1 DEF GoesOff
      <4>3. j \in After(lock) /\ j \in 1..Len(log)
        BY <1>2, <4>1 DEF After
      <4> QED BY <1>2, <1>5, <3>3, <4>2, <4>3
    <3> QED BY <3>2, <3>3
  <2> QED BY <1>4, <1>8, <2>1, <2>2
<1>9. ASSUME NEW s \in running, lock' = 0, NEW k \in After(s)', log'[k].kind = "screenOff"
      PROVE  \E j \in After(k)' : log'[j].kind = "screenOn"
  <2>1. k # h
    BY <1>2, <1>3, <1>9
  <2>2. k \in After(s) /\ k \in 1..Len(log) /\ log[k].kind = "screenOff"
    BY <1>2, <1>4, <1>9, <2>1
  <2>3. CASE e.kind = "screenOn"
    <3>1. h \in After(k)'
      BY <1>2, <2>2 DEF After
    <3> QED BY <1>2, <2>3, <3>1
  <2>4. CASE e.kind # "screenOn"
    <3>1. lock = 0
      BY <1>3, <1>9, <2>4
    <3>2. PICK j \in k + 1 .. Len(log) : log[j].kind = "screenOn"
      BY <1>6, <1>9, <2>2, <3>1
    <3>3. j \in After(k)' /\ j \in 1..Len(log)
      BY <1>2, <2>2 DEF After
    <3> QED BY <1>2, <3>2, <3>3
  <2> QED BY <2>3, <2>4
<1>10. EarlierLocksReleased'
  BY <1>4, <1>8, <1>9 DEF EarlierLocksReleased
<1> QED BY <1>7, <1>10

\* Morrison's rule ends its uses as its definition has it.
LEMMA ReadKeepsTolerates ==
  ASSUME RulesTypeOK, Accounted, OneOpen, ToleratesWell,
         NEW e \in LogRows, ReadRow(e), log # <<>> => log[Len(log)].at <= e.at
  PROVE  ToleratesWell'
<1> SUFFICES ASSUME rule.name = "morrison"
             PROVE  (\A u \in uses : MorrisonUse(u))' /\ LockPends' /\ EarlierLocksReleased'
                    /\ LockHadLasted'
  BY LogGrows DEF ToleratesWell
<1>1. Tolerate(e)
  BY DEF ReadRow, Pair, Interrupt
<1> DEFINE locked == IF LockLasted(e) THEN running ELSE {}
           shut == {s \in running \ locked : Closes(s, e)}
<1>2. /\ running' = (running \ (locked \cup shut)) \cup Opening(e)
      /\ lock' = IF locked \cup shut # {} \/ Opens(e) THEN 0 ELSE HeldLock(e)
  BY <1>1 DEF Tolerate
<1>3. Opening(e) = IF Opens(e) THEN {Here} ELSE {}
  BY DEF Opening
<1>4. CASE LockLasted(e)
  <2>1. locked = running /\ running # {}
    BY <1>4 DEF LockLasted
  <2> QED BY <1>2, <1>3, <2>1, NothingPends, ReadKeepsMorrisonUses
<1>5. CASE ~LockLasted(e) /\ (Opens(e) \/ \E s \in running : Closes(s, e))
  <2>1. running \subseteq shut
    BY <1>5 DEF OneOpen, Closes
  <2>2. shut # {} \/ Opens(e)
    BY <1>5
  <2> QED BY <1>2, <1>3, <2>1, <2>2, NothingPends, ReadKeepsMorrisonUses
<1>6. CASE ~LockLasted(e) /\ ~Opens(e) /\ \A s \in running : ~Closes(s, e)
  <2>1. running' = running /\ lock' = HeldLock(e)
    BY <1>2, <1>3, <1>6
  <2>2. CASE running = {}
    <3>1. lock' = 0
      BY <2>1, <2>2 DEF HeldLock, ToleratesWell, LockPends
    <3> QED BY <2>1, <2>2, <3>1, NothingPends, ReadKeepsMorrisonUses
  <2>3. CASE running # {}
    BY <1>6, <2>1, <2>3, QuietRowKeepsLocks, ReadKeepsMorrisonUses
  <2> QED BY <2>2, <2>3
<1> QED BY <1>4, <1>5, <1>6

-----------------------------------------------------------------------------
(* The end of the log, and the theorems.                                    *)

\* The log's end changes neither the log nor what the definitions say of it.
LEMMA DefinitionsStay ==
  ASSUME log' = log, rule' = rule
  PROVE  /\ \A s, i : /\ Opens(log[i])' <=> Opens(log[i])
                      /\ OwnPause(s, log[i])' <=> OwnPause(s, log[i])
                      /\ Closes(s, log[i])' <=> Closes(s, log[i])
                      /\ GoesOff(s, i)' <=> GoesOff(s, i)
                      /\ StaysOff(s, i)' <=> StaysOff(s, i)
                      /\ After(s)' = After(s)
         /\ \A s : DraxlerEnds(s)' = DraxlerEnds(s)
         /\ \A u : /\ DraxlerUse(u)' <=> DraxlerUse(u)
                   /\ MorrisonUse(u)' <=> MorrisonUse(u)
<1>1. \A s, i : /\ Opens(log[i])' <=> Opens(log[i])
                /\ OwnPause(s, log[i])' <=> OwnPause(s, log[i])
                /\ Closes(s, log[i])' <=> Closes(s, log[i])
                /\ ClosingReason(log[i])' = ClosingReason(log[i])
  BY DEF Opens, OwnPause, Closes, ClosingReason
<1>2. \A s : After(s)' = After(s) /\ (Silent(s)' <=> Silent(s))
  BY DEF After, Silent
<1>3. \A s : DraxlerEnds(s)' = DraxlerEnds(s)
  BY <1>1, <1>2 DEF DraxlerEnds
<1>4. \A s, k : /\ GoesOff(s, k)' <=> GoesOff(s, k)
                /\ StaysOff(s, k)' <=> StaysOff(s, k)
  BY <1>1, <1>2 DEF GoesOff, StaysOff
<1>5. \A s : LastingLocks(s)' = LastingLocks(s)
  BY <1>2, <1>4 DEF LastingLocks
<1>6. \A s : MorrisonEnds(s)' = MorrisonEnds(s)
  BY <1>1, <1>2, <1>5 DEF MorrisonEnds
<1>7. \A u : ClosedByRow(u)' <=> ClosedByRow(u)
  BY <1>1 DEF ClosedByRow
<1>8. \A u : DraxlerUse(u)' <=> DraxlerUse(u)
  <2>1. \A u : EndsAtFirst(u, DraxlerEnds(u.start))' <=> EndsAtFirst(u, DraxlerEnds(u.start))
    BY <1>3 DEF EndsAtFirst
  <2> QED BY <1>2, <1>7, <2>1 DEF DraxlerUse, Unobserved
<1>9. \A u : MorrisonUse(u)' <=> MorrisonUse(u)
  <2>1. \A u : EndsAtFirst(u, MorrisonEnds(u.start))' <=> EndsAtFirst(u, MorrisonEnds(u.start))
    BY <1>6 DEF EndsAtFirst
  <2> QED BY <1>5, <1>7, <2>1 DEF MorrisonUse, Unobserved
<1> QED BY <1>1, <1>2, <1>3, <1>4, <1>8, <1>9

\* The log's end ends every open use: a pending lock where the screen went off,
\* or nowhere.
LEMMA FinishEnds ==
  ASSUME RulesInv, Finish
  PROVE  /\ \A u \in uses' :
              \/ u \in uses
              \/ /\ u \in Uses /\ u.start \in running
                 /\ \/ lock # 0 /\ u.stop = lock /\ u.at = log[lock].at /\ u.reason = "locked"
                    \/ lock = 0 /\ Unobserved(u)
         /\ uses \subseteq uses'
         /\ \A s \in running : \E u \in uses' : u.start = s
         /\ \A u, v \in uses' \ uses : u.start = v.start => u = v
<1> DEFINE locked == IF lock # 0 THEN running ELSE {}
           A == Ended(locked, lock, log[lock].at, "locked")
           B == Ended(running \ locked, 0, 0, "unobserved")
<1>1. uses' = uses \cup A \cup B
  BY DEF Finish
<1>2. /\ running \subseteq Nat /\ (lock # 0 => lock \in Nat /\ log[lock].at \in Nat)
      /\ {"locked", "unobserved"} \subseteq EndReasons
  <2>1. /\ running \subseteq 1..Len(log) /\ lock \in 0..Len(log) /\ Len(log) \in Nat
        /\ \A i \in 1..Len(log) : log[i] \in LogRows
    BY DEF RulesInv, RulesTypeOK
  <2>2. running \subseteq Nat
    BY <2>1
  <2>3. lock # 0 => lock \in 1..Len(log)
    BY <2>1
  <2> QED BY <2>1, <2>2, <2>3 DEF EndReasons, LogRows
<1>3. CASE lock # 0
  <2>1. locked = running /\ running \ locked = {}
    BY <1>3
  <2> HIDE DEF locked
  <2>2. A = Ended(running, lock, log[lock].at, "locked") /\ B = {}
    BY <2>1 DEF Ended
  <2> HIDE DEF A, B
  <2>3. A \subseteq Uses
    <3>1. running \subseteq Nat /\ lock \in Nat /\ log[lock].at \in Nat /\ "locked" \in EndReasons
      BY <1>2, <1>3
    <3>2. Ended(running, lock, log[lock].at, "locked") \subseteq Uses
      BY <3>1, EndedAlike
    <3> QED BY <2>2, <3>2
  <2>4. /\ \A u \in A : u.start \in running /\ u.stop = lock /\ u.at = log[lock].at /\ u.reason = "locked"
        /\ \A s \in running : \E u \in A : u.start = s
        /\ \A u, v \in A : u.start = v.start => u = v
    BY <2>2, EndedAlike
  <2> QED BY <1>1, <1>3, <2>2, <2>3, <2>4
<1>4. CASE lock = 0
  <2>1. locked = {} /\ running \ locked = running
    BY <1>4
  <2> HIDE DEF locked
  <2>2. B = Ended(running, 0, 0, "unobserved") /\ A = {}
    BY <2>1 DEF Ended
  <2> HIDE DEF A, B
  <2>3. B \subseteq Uses
    <3>1. 0 \in Nat
      OBVIOUS
    <3> QED BY <1>2, <2>2, <3>1, EndedAlike
  <2>4. /\ \A u \in B : u.start \in running /\ u.stop = 0 /\ u.at = 0 /\ u.reason = "unobserved"
        /\ \A s \in running : \E u \in B : u.start = s
        /\ \A u, v \in B : u.start = v.start => u = v
    BY <2>2, EndedAlike
  <2> QED BY <1>1, <1>4, <2>2, <2>3, <2>4 DEF Unobserved
<1> QED BY <1>3, <1>4

\* At the log's end the pending lock has lasted, and nothing else ends a use.
LEMMA FinishKeepsInv ==
  ASSUME RulesInv, Finish
  PROVE  RulesInv'
<1>1. /\ log' = log /\ rule' = rule /\ over' = TRUE /\ running' = {} /\ lock' = 0 /\ ~over
      /\ running \subseteq 1..Len(log) /\ lock \in 0..Len(log) /\ Len(log) \in Nat
      /\ rule.name \in RuleNames
  BY RuleTyped DEF Finish, RulesInv, RulesTypeOK
<1>2. RulesTypeOK'
  <2>1. uses' \subseteq Uses
    BY FinishEnds DEF RulesInv, RulesTypeOK
  <2> QED BY <1>1, <2>1 DEF RulesInv, RulesTypeOK
<1>3. Accounted'
  <2>1. \A i \in 1..Len(log) : Opens(log[i])' <=> \E u \in uses' : u.start = i
    BY <1>1, DefinitionsStay, FinishEnds DEF RulesInv, Accounted
  <2>2. ASSUME NEW u \in uses'
        PROVE  u.start \in 1..Len(log) /\ u.stop \in 0..Len(log)
    <3>1. CASE u \in uses
      BY <3>1 DEF RulesInv, Accounted
    <3>2. CASE u.start \in running /\ (u.stop = lock \/ Unobserved(u))
      <4> DEFINE x == u.start
                 y == u.stop
      <4>1. x \in running /\ (y = lock \/ y = 0)
        BY <3>2 DEF Unobserved
      <4> HIDE DEF x, y
      <4>2. x \in 1..Len(log) /\ y \in 0..Len(log)
        BY <1>1, <4>1
      <4> QED BY <4>2 DEF x, y
    <3> QED BY <2>2, <3>1, <3>2, FinishEnds
  <2>3. ASSUME NEW u \in uses', NEW v \in uses', u.start = v.start
        PROVE  u = v
    <3>1. \A w \in uses : w.start \notin running
      BY DEF RulesInv, Accounted
    <3>2. \A w \in uses' : w \notin uses => w.start \in running
      BY FinishEnds
    <3>3. CASE u \in uses
      BY <2>3, <3>1, <3>2, <3>3 DEF RulesInv, Accounted
    <3>4. CASE u \notin uses
      BY <2>3, <3>1, <3>2, <3>4, FinishEnds
    <3> QED BY <3>3, <3>4
  <2> QED BY <1>1, <2>1, <2>2, <2>3 DEF Accounted
<1>4. PairsWell'
  <2> SUFFICES ASSUME rule.name = "foregroundBackground", NEW u \in uses'
               PROVE  PairedUse(u)'
    BY <1>1 DEF PairsWell
  <2>1. \A i : EndsAUse(i) => EndsAUse(i)'
    BY FinishEnds DEF EndsAUse
  <2>2. CASE u \in uses
    <3>1. PairedUse(u)
      BY <2>2 DEF RulesInv, PairsWell
    <3> QED BY <1>1, <2>1, <3>1, DefinitionsStay, FinishEnds DEF PairedUse, Unobserved
  <2>3. CASE u \notin uses
    <3>1. u.start \in running /\ Unobserved(u)
      BY <2>3, FinishEnds DEF RulesInv, OnlyMorrisonLocks
    <3>2. \A i \in After(u.start) : OwnPause(u.start, log[i]) => EndsAUse(i)
      BY <3>1 DEF RulesInv, PairsWell
    <3> QED BY <1>1, <2>1, <3>1, <3>2, DefinitionsStay DEF PairedUse, Unobserved
  <2> QED BY <2>2, <2>3
<1>5. InterruptsWell'
  <2> SUFFICES ASSUME rule.name = "draxler", NEW u \in uses'
               PROVE  DraxlerUse(u)'
    BY <1>1 DEF InterruptsWell
  <2>1. CASE u \in uses
    BY <1>1, <2>1, DefinitionsStay DEF RulesInv, InterruptsWell
  <2>2. CASE u \notin uses
    <3>1. u.start \in running /\ Unobserved(u)
      BY <2>2, FinishEnds DEF RulesInv, OnlyMorrisonLocks
    <3>2. DraxlerEnds(u.start) = {}
      BY <3>1 DEF RulesInv, InterruptsWell
    <3>3. DraxlerUse(u)
      BY <3>1, <3>2 DEF DraxlerUse, EndsAtFirst, Unobserved
    <3> QED BY <1>1, <3>3, DefinitionsStay
  <2> QED BY <2>1, <2>2
<1>6. ToleratesWell'
  <2>1. ASSUME rule.name = "morrison", NEW u \in uses'
        PROVE  MorrisonUse(u)'
    <3>1. CASE u \in uses
      BY <1>1, <2>1, <3>1, DefinitionsStay DEF RulesInv, ToleratesWell
    <3>2. CASE u \notin uses
      <4> DEFINE s == u.start
      <4>1. /\ s \in running
            /\ \/ lock # 0 /\ u.stop = lock /\ u.at = log[lock].at /\ u.reason = "locked"
               \/ lock = 0 /\ Unobserved(u)
        BY <2>1, <3>2, FinishEnds
      <4> HIDE DEF s
      <4>2. /\ \A i \in After(s) : ~Closes(s, log[i])
            /\ \A k \in After(s) : GoesOff(s, k) => k = lock \/ ~StaysOff(s, k)
            /\ lock # 0 => lock \in After(s) /\ GoesOff(s, lock)
        BY <2>1, <4>1, OpenUse DEF RulesInv
      <4>3. \A k \in MorrisonEnds(s) : k = lock
        BY <4>2 DEF MorrisonEnds, LastingLocks
      <4>4. CASE lock # 0
        <5>1. s \in 1..Len(log) /\ lock \in After(s)
          BY <1>1, <4>1, <4>2, <4>4
        <5>2. After(lock) \subseteq After(s)
          BY <1>1, <5>1 DEF After
        <5>3. StaysOff(s, lock)
          BY <2>1, <4>2, <4>4, <5>2 DEF RulesInv, ToleratesWell, LockPends, StaysOff
        <5>4. lock \in LastingLocks(s)
          BY <4>2, <4>4, <5>3 DEF LastingLocks
        <5>5. EndsAtFirst(u, MorrisonEnds(s))
          BY <1>1, <4>1, <4>3, <4>4, <5>4 DEF EndsAtFirst, MorrisonEnds
        <5>6. MorrisonUse(u)
          BY <4>1, <4>4, <5>4, <5>5 DEF MorrisonUse, s
        <5> QED BY <1>1, <5>6, DefinitionsStay
      <4>5. CASE lock = 0
        <5>1. 0 \notin After(s)
          BY <1>1, <4>1 DEF After
        <5>2. MorrisonEnds(s) = {}
          BY <4>3, <4>5, <5>1 DEF MorrisonEnds, LastingLocks
        <5>3. MorrisonUse(u)
          BY <4>1, <4>5, <5>2 DEF MorrisonUse, EndsAtFirst, Unobserved, s
        <5> QED BY <1>1, <5>3, DefinitionsStay
      <4> QED BY <4>4, <4>5
    <3> QED BY <3>1, <3>2
  <2>2. LockPends' /\ EarlierLocksReleased' /\ LockHadLasted'
    BY <1>1 DEF LockPends, EarlierLocksReleased, LockHadLasted
  <2> QED BY <1>1, <2>1, <2>2 DEF ToleratesWell
<1>7. Sorted' /\ OneOpen' /\ OnlyMorrisonLocks'
  BY <1>1 DEF RulesInv, Sorted, OneOpen, OnlyMorrisonLocks
<1> QED BY <1>2, <1>3, <1>4, <1>5, <1>6, <1>7 DEF RulesInv

\* A row keeps the invariant.
LEMMA ReadKeepsInv ==
  ASSUME RulesInv, NEW e \in LogRows, ReadRow(e), log # <<>> => log[Len(log)].at <= e.at
  PROVE  RulesInv'
<1>1. RulesTypeOK' /\ Sorted' /\ Accounted' /\ OneOpen'
  BY ReadKeepsTypes, ReadKeepsOrder, ReadKeepsAccounts, ReadKeepsOneOpen DEF RulesInv
<1>2. OnlyMorrisonLocks'
  BY LockTyped, LogGrows DEF RulesInv, OnlyMorrisonLocks
<1>3. PairsWell' /\ InterruptsWell' /\ ToleratesWell'
  BY ReadKeepsPairs, ReadKeepsInterrupts, ReadKeepsTolerates DEF RulesInv
<1> QED BY <1>1, <1>2, <1>3 DEF RulesInv

\* The invariant holds as long as rows are read in the order of time, whatever
\* the rule and the thresholds.
THEOREM RulesHold == RulesSpec => []RulesInv
<1>1. RulesInit => RulesInv
  <2> SUFFICES ASSUME RulesInit
               PROVE  RulesInv
    OBVIOUS
  <2>1. RulesTypeOK
    <3>1. <<>> \in Seq(LogRows) /\ Len(<<>>) = 0 /\ 0 \in 0..0
      OBVIOUS
    <3> QED BY <3>1 DEF RulesInit, RulesTypeOK
  <2>2. Sorted /\ Accounted /\ OneOpen /\ OnlyMorrisonLocks
    BY DEF RulesInit, Sorted, Accounted, OneOpen, OnlyMorrisonLocks
  <2>3. PairsWell /\ InterruptsWell /\ ToleratesWell
    BY DEF RulesInit, PairsWell, InterruptsWell, ToleratesWell, LockPends, EarlierLocksReleased,
           LockHadLasted
  <2> QED BY <2>1, <2>2, <2>3 DEF RulesInv
<1>2. RulesInv /\ [RulesNext]_rulesVars => RulesInv'
  <2> SUFFICES ASSUME RulesInv, [RulesNext]_rulesVars
               PROVE  RulesInv'
    OBVIOUS
  <2>1. CASE Finish
    BY <2>1, FinishKeepsInv
  <2>2. ASSUME NEW s \in Seen[rule.name], NEW g \in Pause,
               ReadRow([app |-> s.app, kind |-> s.kind, at |-> Now + g])
        PROVE  RulesInv'
    <3>1. RulesTypeOK
      BY DEF RulesInv
    <3> DEFINE e == [app |-> s.app, kind |-> s.kind, at |-> Now + g]
    <3>2. e \in LogRows /\ (log # <<>> => log[Len(log)].at <= e.at)
      BY <2>2, <3>1, RowTyped
    <3>3. ReadRow(e)
      BY <2>2
    <3> HIDE DEF e
    <3> QED BY <3>2, <3>3, ReadKeepsInv
  <2>3. CASE UNCHANGED rulesVars
    <3>1. /\ log' = log /\ rule' = rule /\ running' = running /\ lock' = lock
          /\ uses' = uses /\ over' = over
      BY <2>3 DEF rulesVars
    <3>2. RulesTypeOK' /\ Sorted' /\ OneOpen' /\ OnlyMorrisonLocks'
      BY <3>1 DEF RulesInv, RulesTypeOK, Sorted, OneOpen, OnlyMorrisonLocks
    <3>3. Accounted'
      BY <3>1, DefinitionsStay DEF RulesInv, Accounted
    <3>4. PairsWell'
      <4>1. \A i : EndsAUse(i)' <=> EndsAUse(i)
        BY <3>1 DEF EndsAUse
      <4>2. \A u : PairedUse(u) => PairedUse(u)'
        BY <3>1, <4>1, DefinitionsStay DEF PairedUse, Unobserved
      <4> QED BY <3>1, <4>1, <4>2, DefinitionsStay DEF RulesInv, PairsWell
    <3>5. InterruptsWell'
      BY <3>1, DefinitionsStay DEF RulesInv, InterruptsWell
    <3>6. ToleratesWell'
      <4>1. LockPends => LockPends'
        <5>1. After(lock)' = After(lock)
          BY <3>1 DEF After
        <5>2. \A s : GoesOff(s, lock)' <=> GoesOff(s, lock)
          BY <3>1, <5>1 DEF GoesOff
        <5> QED BY <3>1, <5>1, <5>2 DEF LockPends
      <4>2. EarlierLocksReleased => EarlierLocksReleased'
        BY <3>1, DefinitionsStay DEF EarlierLocksReleased
      <4>3. LockHadLasted => LockHadLasted'
        BY <3>1 DEF LockHadLasted
      <4> QED BY <3>1, <4>1, <4>2, <4>3, DefinitionsStay DEF RulesInv, ToleratesWell
    <3> QED BY <3>2, <3>3, <3>4, <3>5, <3>6 DEF RulesInv
  <2> QED BY <2>1, <2>2, <2>3 DEF RulesNext
<1> QED BY <1>1, <1>2, PTL DEF RulesSpec

\* Rows, uses and the pending lock keep their types.
THEOREM TypesHold == RulesSpec => []RulesTypeOK
<1>1. RulesInv => RulesTypeOK
  BY DEF RulesInv
<1> QED BY <1>1, RulesHold, PTL

\* Decided row by row, every opener gets the end that its rule has for it.
THEOREM EndsHold == RulesSpec => []EndsAreDefined
<1>1. RulesInv => EndsAreDefined
  <2> SUFFICES ASSUME RulesInv, over
               PROVE  /\ {u.start : u \in uses} = {i \in 1..Len(log) : Opens(log[i])}
                      /\ \A u \in uses : Defined(u)
                      /\ \A u, v \in uses : u.start = v.start => u = v
    BY DEF EndsAreDefined
  <2>1. /\ running = {}
        /\ \A i \in 1..Len(log) : Opens(log[i]) <=> \E u \in uses : u.start = i
        /\ \A u \in uses : u.start \in 1..Len(log)
        /\ \A u, v \in uses : u.start = v.start => u = v
    BY DEF RulesInv, Accounted
  <2>2. {u.start : u \in uses} = {i \in 1..Len(log) : Opens(log[i])}
    BY <2>1
  <2>3. \A u \in uses : Defined(u)
    BY RuleTyped DEF RulesInv, PairsWell, InterruptsWell, ToleratesWell, Defined, RuleNames
  <2> QED BY <2>1, <2>2, <2>3
<1> QED BY <1>1, RulesHold, PTL


-----------------------------------------------------------------------------
(* The split of overlapping sessions.                                       *)

Visited == {from[i] : i \in begun} \cup {to[i] : i \in ended}

\* The sweep has visited every boundary up to the last one it visited.
Swept ==
  /\ \A v \in Visited : \A i \in Session : /\ from[i] <= v => i \in begun
                                           /\ to[i] <= v => i \in ended
  /\ ended \subseteq begun /\ open = begun \ ended

\* The layer of a session of S while S are the open ones.
LayerIn(i, S) == IF i \in Split!Newest(S) THEN "primary" ELSE "secondary"

\* An open session has the layer its segment says, from then to the next
\* boundary.
LayersSoFar ==
  \A i \in open :
    /\ segment[i].since \in Visited /\ from[i] <= segment[i].since
    /\ segment[i].layer = LayerIn(i, open)
    /\ \A t \in Time : segment[i].since <= t /\ (\A u \in Split!Boundaries : t < u) =>
         Split!LayerAt(i, t) = segment[i].layer

\* An instant of a session has its row as soon as its segment ended.
Written(i, t) ==
  Split!IsOpen(i, t) /\ (i \in ended \/ (i \in open /\ t < segment[i].since))
RowsAt(i, t) == {r \in Split!RowsOf(i) : r.start <= t /\ t < r.stop}

RowsSoFar ==
  \A i \in Session :
    /\ \A t \in Time :
         IF Written(i, t) THEN \E r : RowsAt(i, t) = {r} /\ r.layer = Split!LayerAt(i, t)
         ELSE RowsAt(i, t) = {}
    /\ from[i] = to[i] =>
         Split!RowsOf(i) = IF done THEN {[session |-> i, start |-> from[i], stop |-> to[i],
                                          layer |-> "primary"]}
                           ELSE {}

SplitInv ==
  /\ Split!TypeOK /\ Swept /\ LayersSoFar /\ RowsSoFar
  /\ done => Split!Boundaries = {}

LEMMA TimesTyped ==
  ASSUME Split!TypeOK
  PROVE  /\ \A i \in Session : from[i] \in Time /\ from[i] \in Int /\ to[i] \in Time /\ to[i] \in Int
                               /\ from[i] <= to[i]
         /\ Visited \subseteq Int /\ Split!Boundaries \subseteq Int
         /\ \A i \in Session : i \in Int
         /\ \A i \in open : i \in Session /\ segment[i] # Nil /\ segment[i] \in Split!Segments
<1>1. \A i \in Session : from[i] \in Time /\ from[i] \in Int /\ to[i] \in Time /\ to[i] \in Int
                         /\ from[i] <= to[i]
  BY SessionsAssumption DEF Split!TypeOK
<1>2. \A i \in open : i \in Session /\ segment[i] # Nil /\ segment[i] \in Split!Segments
  BY DEF Split!TypeOK
<1>3. \A i \in Session : i \in Int
  BY SessionsAssumption
<1>4. Visited \subseteq Int /\ Split!Boundaries \subseteq Int
  BY <1>1 DEF Visited, Split!Boundaries, Split!TypeOK
<1> QED BY <1>1, <1>2, <1>3, <1>4

\* The sets a visit is made of.
LEMMA VisitIs ==
  ASSUME SplitInv, NEW b \in Time, Split!Boundary(b)
  PROVE  \E E, O, still \in SUBSET Session :
         /\ E = Split!Ending(b) /\ O = Split!Opening(b) /\ still = (open \ E) \cup O
         /\ UNCHANGED <<from, to, done>> /\ ~done
         /\ ended' = ended \cup E /\ begun' = begun \cup {i \in Session : from[i] <= b} /\ open' = still
         /\ \A v \in Visited : v < b
         /\ \A u \in Split!Boundaries : b <= u
         /\ \A i \in E : to[i] = b /\ i \notin ended
         /\ \A i \in O : from[i] = b /\ b < to[i] /\ i \notin begun
         /\ \A i \in open \ E : b < to[i]
         /\ \A i \in E \ open : from[i] = b
<1>a. PICK E, O, still :
        E = Split!Ending(b) /\ O = Split!Opening(b) /\ still = (open \ E) \cup O
  OBVIOUS
<1>1. /\ UNCHANGED <<from, to, done>> /\ b \in Split!Boundaries
      /\ \A u \in Split!Boundaries : b <= u
      /\ ended' = ended \cup E /\ begun' = begun \cup {i \in Session : from[i] <= b} /\ open' = still
  BY <1>a DEF Split!Boundary, Split!input
<1>2. Split!TypeOK /\ Swept /\ b \in Int
  BY SessionsAssumption DEF SplitInv
<1>3. \A i \in Session : from[i] \in Int /\ to[i] \in Int /\ from[i] <= to[i]
  BY <1>2, TimesTyped
<1>4. begun \subseteq Session /\ ended \subseteq begun /\ open = begun \ ended
  BY <1>2 DEF Split!TypeOK, Swept
<1>5. ~done
  BY <1>1 DEF SplitInv
<1>6. \A i \in Session : /\ i \notin begun => b <= from[i]
                         /\ i \notin ended => b <= to[i]
  BY <1>1 DEF Split!Boundaries
<1>7. \A v \in Visited : v < b
  <2>1. ASSUME NEW v \in Visited
        PROVE  v < b
    <3>1. v \in Int
      BY <1>2, TimesTyped
    <3>2. PICK i \in Session : (i \notin begun /\ b = from[i]) \/ (i \notin ended /\ b = to[i])
      BY <1>1 DEF Split!Boundaries
    <3>3. ~(b <= v)
      BY <1>2, <3>2 DEF Swept
    <3> QED BY <1>2, <3>1, <3>3
  <2> QED BY <2>1
<1>8. E = {i \in Session \ ended : to[i] <= b} /\ O = {i \in Session \ begun : from[i] <= b /\ to[i] > b}
  BY <1>a DEF Split!Ending, Split!Opening
<1>9. \A i \in E : to[i] = b /\ i \notin ended
  BY <1>2, <1>3, <1>6, <1>8
<1>10. \A i \in O : from[i] = b /\ b < to[i] /\ i \notin begun
  BY <1>2, <1>3, <1>6, <1>8
<1>11. \A i \in open \ E : b < to[i]
  BY <1>2, <1>3, <1>4, <1>8
<1>12. \A i \in E \ open : from[i] = b
  BY <1>2, <1>3, <1>4, <1>6, <1>8, <1>9
<1>13. E \subseteq Session /\ O \subseteq Session /\ still \subseteq Session
  BY <1>a, <1>4, <1>8
<1> QED BY <1>a, <1>1, <1>5, <1>7, <1>9, <1>10, <1>11, <1>12, <1>13

\* After a visit the sweep has visited every boundary up to it.
LEMMA VisitSweeps ==
  ASSUME SplitInv, NEW b \in Time, Split!Boundary(b)
  PROVE  /\ Swept' /\ b \in Visited' /\ \A v \in Visited' : v <= b
         /\ \A u \in Split!Boundaries' : b < u
<1>4. PICK E, O, still \in SUBSET Session :
         /\ E = Split!Ending(b) /\ O = Split!Opening(b) /\ still = (open \ E) \cup O
         /\ UNCHANGED <<from, to, done>> /\ ~done
         /\ ended' = ended \cup E /\ begun' = begun \cup {i \in Session : from[i] <= b} /\ open' = still
         /\ \A v \in Visited : v < b
         /\ \A u \in Split!Boundaries : b <= u
         /\ \A i \in E : to[i] = b /\ i \notin ended
         /\ \A i \in O : from[i] = b /\ b < to[i] /\ i \notin begun
         /\ \A i \in open \ E : b < to[i]
         /\ \A i \in E \ open : from[i] = b
  BY VisitIs
<1>5. /\ b \in Int /\ Split!TypeOK /\ Swept
      /\ \A i \in Session : from[i] \in Int /\ to[i] \in Int /\ from[i] <= to[i]
      /\ begun \subseteq Session /\ ended \subseteq begun /\ open = begun \ ended
  BY SessionsAssumption, TimesTyped DEF SplitInv, Split!TypeOK, Swept
<1>6. /\ E = {i \in Session \ ended : to[i] <= b}
      /\ O = {i \in Session \ begun : from[i] <= b /\ to[i] > b}
      /\ b \in Split!Boundaries
  BY <1>4 DEF Split!Ending, Split!Opening, Split!Boundary
<1>7. \A i \in Session : /\ i \in begun' <=> i \in begun \/ from[i] <= b
                         /\ i \in ended' <=> i \in ended \/ to[i] <= b
  BY <1>4, <1>6
<1>8. Visited' = {from[i] : i \in begun'} \cup {to[i] : i \in ended'}
  BY <1>4 DEF Visited
<1>9. begun' \subseteq Session /\ ended' \subseteq Session
  BY <1>4, <1>5
<1>10. \A v \in Visited' : v <= b /\ v \in Int
  <2>1. \A i \in begun : from[i] < b
    BY <1>4 DEF Visited
  <2>2. \A i \in ended : to[i] < b
    BY <1>4 DEF Visited
  <2> QED BY <1>5, <1>7, <1>8, <1>9, <2>1, <2>2
<1>11. b \in Visited'
  <2>1. PICK i \in Session : (i \notin begun /\ b = from[i]) \/ (i \notin ended /\ b = to[i])
    BY <1>6 DEF Split!Boundaries
  <2> QED BY <1>5, <1>7, <1>8, <2>1
<1>12. Split!Boundaries' = {from[i] : i \in Session \ begun'} \cup {to[i] : i \in Session \ ended'}
  BY <1>4 DEF Split!Boundaries
<1>13. \A u \in Split!Boundaries' : b < u
  BY <1>5, <1>7, <1>12
<1>14. Swept'
  <2>1. \A v \in Visited' : \A i \in Session : /\ from[i] <= v => i \in begun'
                                               /\ to[i] <= v => i \in ended'
    <3>1. ASSUME NEW v \in Visited', NEW i \in Session
          PROVE  /\ from[i] <= v => from[i] <= b
                 /\ to[i] <= v => to[i] <= b
      BY <1>5, <1>10
    <3> QED BY <1>7, <3>1
  <2>2. ended' \subseteq begun'
    <3>1. \A i \in Session : to[i] <= b => from[i] <= b
      BY <1>5
    <3> QED BY <1>5, <1>7, <1>9, <3>1
  <2>3. open' = begun' \ ended'
    <3>1. \A i \in Session : i \in still <=> i \in begun' /\ i \notin ended'
      BY <1>4, <1>5, <1>6, <1>7
    <3> QED BY <1>4, <1>9, <3>1
  <2> QED BY <1>4, <2>1, <2>2, <2>3 DEF Swept
<1> QED BY <1>10, <1>11, <1>13, <1>14

\* What a visit does to the segments: E end, O open, still are open after it,
\* and C change their layer.
VisitOf(b, E, O, still, C) ==
  /\ E = Split!Ending(b) /\ O = Split!Opening(b) /\ still = (open \ E) \cup O
  /\ C \subseteq open /\ C \subseteq still
  /\ rows' = rows \cup Split!RowsUpTo(segment, E \cup C, b)
  /\ segment' \in [Session -> Split!Segments \cup {Nil}]
  /\ \A i \in O \cup C :
       /\ segment'[i] \in Split!Segments /\ segment'[i].since = b
       /\ segment'[i].layer = LayerIn(i, still)
  /\ \A i \in still \ (O \cup C) :
       /\ i \in open /\ i \notin E /\ segment'[i] = segment[i]
       /\ segment[i].layer = LayerIn(i, still)
  /\ \A i \in Session \ still : segment'[i] = Nil

LEMMA VisitSegments ==
  ASSUME SplitInv, NEW b \in Time, Split!Boundary(b)
  PROVE  \E E, O, still, C \in SUBSET Session : VisitOf(b, E, O, still, C)
<1>1. PICK E, O, still \in SUBSET Session :
        /\ E = Split!Ending(b) /\ O = Split!Opening(b) /\ still = (open \ E) \cup O
        /\ \A i \in O : i \notin begun
  BY VisitIs
<1>2. PICK C : C = Split!Changed(b, still)
  OBVIOUS
<1>3. /\ rows' = rows \cup Split!RowsUpTo(segment, E \cup C, b)
      /\ segment' = [i \in Session |->
            IF i \in O \cup C
            THEN Split!Segment(b, LayerIn(i, still))
            ELSE IF i \in E THEN Nil ELSE segment[i]]
  BY <1>1, <1>2 DEF Split!Boundary, LayerIn
<1>4. /\ open \subseteq begun /\ begun \subseteq Session
      /\ segment \in [Session -> Split!Segments \cup {Nil}]
      /\ \A i \in Session : segment[i] # Nil <=> i \in open
  BY DEF SplitInv, Swept, Split!TypeOK
<1>5. PICK D, P :
        /\ D = Split!Changing(Split!Newest(open) \ (E \cup Split!Newest(still)), "secondary")
        /\ P = Split!Changing(Split!Newest(still) \ Split!Newest(open), "primary")
        /\ C = D \cup P
  BY <1>1, <1>2 DEF Split!Changed, Split!Demoted, Split!Promoted
<1>6. /\ \A i \in D : /\ i \in Split!Newest(open) /\ i \notin E /\ i \notin Split!Newest(still)
                      /\ segment[i] # Nil /\ segment[i].layer # "secondary"
      /\ \A i : i \in Split!Newest(open) /\ i \notin E /\ i \notin Split!Newest(still)
                /\ segment[i] # Nil /\ segment[i].layer # "secondary" => i \in D
      /\ \A i \in P : /\ i \in Split!Newest(still) /\ i \notin Split!Newest(open)
                      /\ segment[i] # Nil /\ segment[i].layer # "primary"
      /\ \A i : i \in Split!Newest(still) /\ i \notin Split!Newest(open)
                /\ segment[i] # Nil /\ segment[i].layer # "primary" => i \in P
  BY <1>5 DEF Split!Changing
<1>7. Split!Newest(open) \subseteq open /\ Split!Newest(still) \subseteq still
  BY DEF Split!Newest
<1>8. C \subseteq open /\ C \subseteq still /\ C \subseteq Session
  BY <1>1, <1>4, <1>5, <1>6, <1>7
<1>9. segment' \in [Session -> Split!Segments \cup {Nil}]
  <2>1. ASSUME NEW i \in Session
        PROVE  segment'[i] \in Split!Segments \cup {Nil}
    <3>1. /\ Split!Segment(b, "primary") \in Split!Segments
          /\ Split!Segment(b, "secondary") \in Split!Segments
      BY DEF Split!Segment, Split!Segments, Split!Layers
    <3> QED BY <1>3, <1>4, <3>1 DEF LayerIn
  <2> QED BY <1>3, <2>1
<1>10. \A i \in O \cup C :
         /\ segment'[i] \in Split!Segments /\ segment'[i].since = b
         /\ segment'[i].layer = LayerIn(i, still)
  BY <1>1, <1>3, <1>8 DEF Split!Segment, Split!Segments, Split!Layers, LayerIn
<1>11. ASSUME NEW i \in still \ (O \cup C)
       PROVE  /\ i \in open /\ i \notin E /\ segment'[i] = segment[i]
              /\ segment[i].layer = LayerIn(i, still)
  <2>1. i \in open /\ i \notin E /\ i \in Session
    BY <1>1
  <2>2. segment[i] # Nil /\ i \notin D /\ i \notin P
    BY <1>4, <1>5, <2>1
  <2>3. segment[i].layer = LayerIn(i, open)
    BY <2>1 DEF SplitInv, LayersSoFar
  <2>4. segment[i].layer = LayerIn(i, still)
    BY <1>6, <2>1, <2>2, <2>3 DEF LayerIn
  <2> QED BY <1>3, <2>1, <2>4
<1>12. \A i \in Session \ still : segment'[i] = Nil
  <2>1. ASSUME NEW i \in Session \ still
        PROVE  segment'[i] = Nil
    <3>1. i \notin O /\ i \notin C /\ (i \in E \/ i \notin open)
      BY <1>1, <1>8
    <3> QED BY <1>3, <1>4, <3>1
  <2> QED BY <2>1
<1>13. VisitOf(b, E, O, still, C)
  BY <1>1, <1>3, <1>8, <1>9, <1>10, <1>11, <1>12 DEF VisitOf
<1> QED BY <1>8, <1>13

\* When S are the open ones, their layers are those among S.
LEMMA LayerNow ==
  ASSUME Split!TypeOK, NEW S, S \subseteq Session, NEW i \in S, NEW t \in Time,
         \A j \in Session : Split!IsOpen(j, t) <=> j \in S
  PROVE  Split!LayerAt(i, t) = LayerIn(i, S)
<1>1. \A j \in Session : from[j] \in Int /\ j \in Int
  BY TimesTyped
<1>2. i \in Split!Newest(S) <=> \A j \in S \ {i} : Split!Newer(i, j)
  BY DEF Split!Newest
<1>3. \A j \in Session \ {i} :
        Split!Newer(i, j) <=> from[j] < from[i] \/ (from[j] = from[i] /\ j < i)
  BY <1>1 DEF Split!Newer
<1> QED BY <1>2, <1>3 DEF Split!LayerAt, LayerIn

LEMMA VisitKeepsTypes ==
  ASSUME SplitInv, NEW b \in Time, Split!Boundary(b)
  PROVE  Split!TypeOK'
<1>a. PICK E, O, still, C \in SUBSET Session : VisitOf(b, E, O, still, C)
  BY VisitSegments
<1>1. /\ E = Split!Ending(b) /\ O = Split!Opening(b) /\ still = (open \ E) \cup O
      /\ C \subseteq open /\ C \subseteq still
      /\ rows' = rows \cup Split!RowsUpTo(segment, E \cup C, b)
      /\ segment' \in [Session -> Split!Segments \cup {Nil}]
      /\ \A i \in O \cup C :
           segment'[i] \in Split!Segments /\ segment'[i].since = b
            /\ segment'[i].layer = LayerIn(i, still)
      /\ \A i \in still \ (O \cup C) : i \in open /\ segment'[i] = segment[i]
      /\ \A i \in Session \ still : segment'[i] = Nil
  BY <1>a DEF VisitOf
<1>2. /\ UNCHANGED <<from, to, done>> /\ open' = still /\ Swept'
      /\ begun' = begun \cup {i \in Session : from[i] <= b} /\ ended' = ended \cup E
  BY <1>1, VisitSweeps DEF Split!Boundary, Split!input
<1>3. Split!TypeOK
  BY DEF SplitInv
<1>4. \A i \in Session : segment'[i] # Nil <=> i \in open'
  <2>1. \A i \in O \cup C : segment'[i] \in Split!Segments
    BY <1>1
  <2>2. \A i \in Session \cap open : segment[i] # Nil
    BY <1>3 DEF Split!TypeOK
  <2> QED BY <1>1, <1>2, <2>1, <2>2, SessionsAssumption
<1>5. Split!RowsUpTo(segment, E \cup C, b) \subseteq Split!Rows
  <2>1. ASSUME NEW i \in E \cup C, segment[i] # Nil
        PROVE  [session |-> i, start |-> segment[i].since, stop |-> b, layer |-> segment[i].layer]
                 \in Split!Rows
    <3>1. i \in Session /\ segment[i] \in Split!Segments
      BY <1>1, <1>3, <2>1 DEF Split!TypeOK
    <3> QED BY <3>1 DEF Split!Segments, Split!Rows
  <2> QED BY <2>1 DEF Split!RowsUpTo
<1>6. open' \subseteq begun' \ ended' /\ begun' \subseteq Session /\ ended' \subseteq Session
  BY <1>1, <1>2, <1>3 DEF Swept, Split!TypeOK
<1> QED BY <1>1, <1>2, <1>3, <1>4, <1>5, <1>6 DEF Split!TypeOK

LEMMA VisitKeepsLayers ==
  ASSUME SplitInv, NEW b \in Time, Split!Boundary(b)
  PROVE  LayersSoFar'
<1>a. PICK E, O, still, C \in SUBSET Session : VisitOf(b, E, O, still, C)
  BY VisitSegments
<1>1. /\ E = Split!Ending(b) /\ O = Split!Opening(b) /\ still = (open \ E) \cup O
      /\ C \subseteq open /\ C \subseteq still
      /\ \A i \in O \cup C :
           segment'[i] \in Split!Segments /\ segment'[i].since = b
            /\ segment'[i].layer = LayerIn(i, still)
      /\ \A i \in still \ (O \cup C) :
           /\ i \in open /\ i \notin E /\ segment'[i] = segment[i]
           /\ segment[i].layer = LayerIn(i, still)
  BY <1>a DEF VisitOf
<1>2. /\ UNCHANGED <<from, to, done>> /\ open' = still
      /\ begun' = begun \cup {i \in Session : from[i] <= b} /\ ended' = ended \cup E
      /\ \A u \in Split!Boundaries : b <= u
  BY <1>1 DEF Split!Boundary, Split!input
<1>3. /\ Swept' /\ Split!TypeOK' /\ b \in Visited' /\ \A v \in Visited' : v <= b
      /\ \A u \in Split!Boundaries' : b < u
  BY VisitSweeps, VisitKeepsTypes
<1>0. Split!TypeOK /\ \A i \in Session : from[i] \in Int /\ to[i] \in Int
  BY TimesTyped DEF SplitInv
<1>3a. Visited' \subseteq Int
  BY <1>0, <1>2, <1>3 DEF Visited, Split!TypeOK
<1>4. /\ \A i \in Session : from[i] \in Int /\ to[i] \in Int
      /\ Split!Boundaries \subseteq Int /\ Visited \subseteq Int /\ b \in Int
  BY TimesTyped, SessionsAssumption DEF SplitInv
<1>5. (\A i : LayerIn(i, open)' = LayerIn(i, still)) /\ Visited \subseteq Visited'
  BY <1>2 DEF LayerIn, Split!Newest, Split!Newer, Visited
<1>6. \A i, t : Split!LayerAt(i, t)' = Split!LayerAt(i, t)
  BY <1>2 DEF Split!LayerAt, Split!IsOpen
<1>7. \A i \in open', t \in Time :
        b <= t /\ (\A u \in Split!Boundaries' : t < u) =>
          Split!LayerAt(i, t) = LayerIn(i, still)
  <2>1. ASSUME NEW i \in still, NEW t \in Time, b <= t, \A u \in Split!Boundaries' : t < u
        PROVE  Split!LayerAt(i, t) = LayerIn(i, still)
    <3>1. t \in Int /\ \A v \in Visited' : v \in Int
      BY <1>3a, SessionsAssumption
    <3>2. \A v \in Visited' : v <= t
      BY <1>3, <1>4, <2>1, <3>1
    <3>3. ASSUME NEW j \in Session
          PROVE  Split!IsOpen(j, t) <=> j \in still
      <4>1. (j \in begun' => from[j] <= t) /\ (j \in ended' => to[j] <= t)
        BY <1>2, <3>2 DEF Visited
      <4>2. (j \notin begun' => t < from[j]) /\ (j \notin ended' => t < to[j])
        BY <1>2, <2>1 DEF Split!Boundaries
      <4>3. j \in still <=> j \in begun' /\ j \notin ended'
        BY <1>2, <1>3 DEF Swept
      <4> QED BY <1>4, <3>1, <4>1, <4>2, <4>3 DEF Split!IsOpen
    <3> QED BY <1>0, <3>3, LayerNow
  <2> QED BY <1>2, <2>1
<1>8. ASSUME NEW i \in open'
      PROVE  /\ segment'[i].since \in Visited' /\ from'[i] <= segment'[i].since
             /\ segment'[i].layer = LayerIn(i, open)'
             /\ \A t \in Time : segment'[i].since <= t /\ (\A u \in Split!Boundaries' : t < u) =>
                  Split!LayerAt(i, t)' = segment'[i].layer
  <2>1. CASE i \in O \cup C
    <3>1. segment'[i].since = b
          /\ segment'[i].layer = LayerIn(i, still)
      BY <1>1, <2>1
    <3>2. from[i] <= b
      <4>1. i \in begun'
        BY <1>3, <1>8 DEF Swept
      <4>2. from'[i] \in Visited'
        BY <4>1 DEF Visited
      <4> QED BY <1>2, <1>3, <4>2
    <3> QED BY <1>2, <1>3, <1>5, <1>6, <1>7, <3>1, <3>2
  <2>2. CASE i \notin O \cup C
    <3>1. /\ i \in open /\ segment'[i] = segment[i]
          /\ segment[i].layer = LayerIn(i, still)
      BY <1>1, <1>2, <1>8, <2>2
    <3>2. /\ segment[i].since \in Visited /\ from[i] <= segment[i].since
          /\ \A t \in Time : segment[i].since <= t /\ (\A u \in Split!Boundaries : t < u) =>
               Split!LayerAt(i, t) = segment[i].layer
      BY <3>1 DEF SplitInv, LayersSoFar
    <3>3. ASSUME NEW t \in Time, segment[i].since <= t, \A u \in Split!Boundaries' : t < u
          PROVE  Split!LayerAt(i, t) = segment[i].layer
      <4>1. CASE b <= t
        BY <1>7, <1>8, <3>1, <3>3, <4>1
      <4>2. CASE ~(b <= t)
        <5>1. t \in Int
          BY SessionsAssumption
        <5>2. t < b
          BY <1>4, <4>2, <5>1
        <5>3. ASSUME NEW u \in Split!Boundaries
              PROVE  t < u
          <6>1. b <= u /\ u \in Int
            BY <1>2, <1>4
          <6> QED BY <1>4, <5>1, <5>2, <6>1
        <5> QED BY <3>2, <3>3, <5>3
      <4> QED BY <4>1, <4>2
    <3> QED BY <1>2, <1>5, <1>6, <3>1, <3>2, <3>3
  <2> QED BY <2>1, <2>2
<1> QED BY <1>8 DEF LayersSoFar

\* A visit writes the rows of the sessions that end or change their layer, and
\* of no others.
LEMMA VisitWrites ==
  ASSUME SplitInv, NEW b \in Time, Split!Boundary(b),
         NEW E, NEW O, NEW still, NEW C, VisitOf(b, E, O, still, C), NEW i \in Session
  PROVE  /\ i \in (E \cup C) \cap open =>
              Split!RowsOf(i)' = Split!RowsOf(i) \cup
                {[session |-> i, start |-> segment[i].since, stop |-> b,
                  layer |-> segment[i].layer]}
         /\ i \notin (E \cup C) \cap open => Split!RowsOf(i)' = Split!RowsOf(i)
<1>1. rows' = rows \cup Split!RowsUpTo(segment, E \cup C, b)
  BY DEF VisitOf
<1>2. PICK new : new = Split!RowsUpTo(segment, E \cup C, b)
  OBVIOUS
<1>3. Split!RowsOf(i)' = Split!RowsOf(i) \cup {r \in new : r.session = i}
  BY <1>1, <1>2 DEF Split!RowsOf
<1>4. \A r \in new : \E k \in E \cup C :
        /\ segment[k] # Nil /\ r.session = k
        /\ r = [session |-> k, start |-> segment[k].since, stop |-> b, layer |-> segment[k].layer]
  BY <1>2 DEF Split!RowsUpTo
<1>5. ASSUME i \in (E \cup C) \cap open
      PROVE  [session |-> i, start |-> segment[i].since, stop |-> b, layer |-> segment[i].layer]
               \in new
  <2>1. segment[i] # Nil
    BY <1>5, TimesTyped DEF SplitInv
  <2>2. segment[i].since < b
    <3>1. segment[i].since \in Visited
      BY <1>5 DEF SplitInv, LayersSoFar
    <3>2. \A v \in Visited : v < b
      BY VisitIs
    <3> QED BY <3>1, <3>2
  <2> QED BY <1>2, <1>5, <2>1, <2>2 DEF Split!RowsUpTo
<1>6. CASE i \in (E \cup C) \cap open
  <2>1. {r \in new : r.session = i} =
          {[session |-> i, start |-> segment[i].since, stop |-> b, layer |-> segment[i].layer]}
    BY <1>4, <1>5, <1>6
  <2> QED BY <1>3, <1>6, <2>1
<1>7. CASE i \notin (E \cup C) \cap open
  <2>1. \A r \in new : r.session # i
    <3>1. i \notin open => segment[i] = Nil
      BY DEF SplitInv, Split!TypeOK
    <3> QED BY <1>4, <1>7, <3>1
  <2> QED BY <1>3, <1>7, <2>1
<1> QED BY <1>6, <1>7

LEMMA VisitKeepsRows ==
  ASSUME SplitInv, NEW b \in Time, Split!Boundary(b)
  PROVE  RowsSoFar'
<1>a. PICK E, O, still, C \in SUBSET Session : VisitOf(b, E, O, still, C)
  BY VisitSegments
<1>b. PICK E0, O0, still0 \in SUBSET Session :
         /\ E0 = Split!Ending(b) /\ O0 = Split!Opening(b) /\ still0 = (open \ E0) \cup O0
         /\ UNCHANGED <<from, to, done>> /\ ~done
         /\ ended' = ended \cup E0 /\ begun' = begun \cup {i \in Session : from[i] <= b} /\ open' = still0
         /\ \A v \in Visited : v < b
         /\ \A u \in Split!Boundaries : b <= u
         /\ \A i \in E0 : to[i] = b /\ i \notin ended
         /\ \A i \in O0 : from[i] = b /\ b < to[i] /\ i \notin begun
         /\ \A i \in open \ E0 : b < to[i]
         /\ \A i \in E0 \ open : from[i] = b
  BY VisitIs
<1>1. E0 = E /\ O0 = O /\ still0 = still /\ still = (open \ E) \cup O
  BY <1>a, <1>b DEF VisitOf
<1>2. /\ UNCHANGED <<from, to, done>> /\ ~done
      /\ ended' = ended \cup E /\ open' = still
      /\ \A v \in Visited : v < b
      /\ \A u \in Split!Boundaries : b <= u
      /\ \A i \in E : to[i] = b /\ i \notin ended
      /\ \A i \in O : from[i] = b /\ b < to[i] /\ i \notin begun
      /\ \A i \in open \ E : b < to[i]
      /\ \A i \in E \ open : from[i] = b
  BY <1>b, <1>1
<1>3. /\ C \subseteq open /\ C \subseteq still
      /\ \A i \in O \cup C : segment'[i].since = b
      /\ \A i \in still \ (O \cup C) : i \in open /\ segment'[i] = segment[i]
  BY <1>a DEF VisitOf
<1>4. /\ Split!TypeOK /\ Swept /\ open = begun \ ended /\ ended \subseteq begun
      /\ begun \subseteq Session /\ b \in Int
      /\ \A i \in Session : from[i] \in Int /\ to[i] \in Int /\ from[i] <= to[i]
  BY TimesTyped, SessionsAssumption DEF SplitInv, Swept, Split!TypeOK
<1>5. \A i \in open : /\ segment[i].since \in Int /\ segment[i].since < b
                      /\ from[i] <= segment[i].since
                      /\ \A t \in Time : segment[i].since <= t /\ t < b =>
                           Split!LayerAt(i, t) = segment[i].layer
  <2>1. ASSUME NEW i \in open
        PROVE  /\ segment[i].since \in Visited /\ from[i] <= segment[i].since
               /\ \A t \in Time : segment[i].since <= t /\ (\A u \in Split!Boundaries : t < u) =>
                    Split!LayerAt(i, t) = segment[i].layer
    BY DEF SplitInv, LayersSoFar
  <2>2. Visited \subseteq Int /\ Split!Boundaries \subseteq Int
    BY <1>4, TimesTyped
  <2>3. \A t \in Time : t < b => \A u \in Split!Boundaries : t < u
    BY <1>2, <1>4, <2>2, SessionsAssumption
  <2> QED BY <1>2, <2>1, <2>2, <2>3
<1>6. \A i \in Session, t \in Time : Split!IsOpen(i, t) <=> from[i] <= t /\ t < to[i]
  BY DEF Split!IsOpen
<1>7. \A i, t : Split!IsOpen(i, t)' = Split!IsOpen(i, t) /\ Split!LayerAt(i, t)' = Split!LayerAt(i, t)
  BY <1>2 DEF Split!LayerAt, Split!IsOpen
<1>8. \A i \in Session, t \in Time :
        IF Written(i, t) THEN \E r : RowsAt(i, t) = {r} /\ r.layer = Split!LayerAt(i, t)
        ELSE RowsAt(i, t) = {}
  BY DEF SplitInv, RowsSoFar
<1>9. \A i, t : RowsAt(i, t)' = {r \in Split!RowsOf(i)' : r.start <= t /\ t < r.stop}
  BY DEF RowsAt
<1>10. ASSUME NEW i \in Session, NEW t \in Time, i \in (E \cup C) \cap open
       PROVE  IF Written(i, t)' THEN \E r : RowsAt(i, t)' = {r} /\ r.layer = Split!LayerAt(i, t)
              ELSE RowsAt(i, t)' = {}
  <2>1. PICK row : row = [session |-> i, start |-> segment[i].since, stop |-> b,
                          layer |-> segment[i].layer]
    OBVIOUS
  <2>2. row.start = segment[i].since /\ row.stop = b /\ row.layer = segment[i].layer
    BY <2>1
  <2>3. Split!RowsOf(i)' = Split!RowsOf(i) \cup {row}
    BY <1>a, <1>10, <2>1, VisitWrites
  <2>4. /\ RowsAt(i, t)' = RowsAt(i, t) \cup {r \in {row} : r.start <= t /\ t < r.stop}
    BY <1>9, <2>3 DEF RowsAt
  <2>5. t \in Int
    BY SessionsAssumption
  <2>6. Written(i, t) <=> from[i] <= t /\ t < segment[i].since
    <3>1. segment[i].since < b /\ b <= to[i]
      BY <1>2, <1>4, <1>5, <1>10
    <3> QED BY <1>4, <1>5, <1>6, <1>10, <2>5, <3>1 DEF Written
  <2>7. Written(i, t)' <=> from[i] <= t /\ t < b
    <3>1. CASE i \in E
      <4>1. i \in ended' /\ to[i] = b
        BY <1>2, <3>1
      <4> QED BY <1>6, <1>7, <4>1 DEF Written
    <3>2. CASE i \notin E
      <4>1. i \in open' /\ i \notin ended' /\ segment'[i].since = b /\ b < to[i]
        BY <1>1, <1>2, <1>3, <1>4, <1>10, <3>2
      <4> QED BY <1>4, <1>6, <1>7, <2>5, <4>1 DEF Written
    <3> QED BY <3>1, <3>2
  <2>8. CASE t < segment[i].since
    <3>1. RowsAt(i, t)' = RowsAt(i, t)
      BY <1>5, <1>10, <2>2, <2>4, <2>5, <2>8
    <3>2. Written(i, t)' <=> Written(i, t)
      BY <1>4, <1>5, <1>10, <2>5, <2>6, <2>7, <2>8
    <3> QED BY <1>8, <3>1, <3>2
  <2>9. CASE segment[i].since <= t /\ t < b
    <3>1. ~Written(i, t) /\ Written(i, t)'
      BY <1>4, <1>5, <1>10, <2>5, <2>6, <2>7, <2>9
    <3>2. RowsAt(i, t) = {}
      BY <1>8, <3>1
    <3>3. RowsAt(i, t)' = {row}
      BY <2>2, <2>4, <2>9, <3>2
    <3>4. row.layer = Split!LayerAt(i, t)
      BY <1>5, <1>10, <2>2, <2>9
    <3> QED BY <3>1, <3>3, <3>4
  <2>10. CASE ~(t < b)
    <3>1. ~Written(i, t) /\ ~Written(i, t)'
      BY <1>4, <1>5, <1>10, <2>5, <2>6, <2>7, <2>10
    <3>2. RowsAt(i, t)' = {}
      BY <1>8, <2>2, <2>4, <2>10, <3>1
    <3> QED BY <3>1, <3>2
  <2> QED BY <1>4, <1>5, <1>10, <2>5, <2>8, <2>9, <2>10
<1>11. ASSUME NEW i \in Session, NEW t \in Time, i \notin (E \cup C) \cap open
       PROVE  IF Written(i, t)' THEN \E r : RowsAt(i, t)' = {r} /\ r.layer = Split!LayerAt(i, t)
              ELSE RowsAt(i, t)' = {}
  <2>1. RowsAt(i, t)' = RowsAt(i, t)
    <3>1. Split!RowsOf(i)' = Split!RowsOf(i)
      BY <1>a, <1>11, VisitWrites
    <3> QED BY <1>9, <3>1 DEF RowsAt
  <2>2. t \in Int
    BY SessionsAssumption
  <2>3. Written(i, t)' <=> Written(i, t)
    <3>1. CASE i \in E
      <4>1. i \notin open /\ to[i] = b /\ from[i] = b
        BY <1>2, <1>11, <3>1
      <4>2. ~Split!IsOpen(i, t) /\ ~Split!IsOpen(i, t)'
        BY <1>4, <1>6, <1>7, <2>2, <4>1
      <4> QED BY <4>2 DEF Written
    <3>2. CASE i \in O
      <4>1. i \notin open /\ i \notin ended /\ from[i] = b
        BY <1>2, <1>4, <3>2
      <4>2. segment'[i].since = b
        BY <1>3, <3>2
      <4>3. (i \notin ended' /\ ~Written(i, t)) \/ i \in E
        BY <1>2, <4>1 DEF Written
      <4>4. Written(i, t)' => (from[i] <= t /\ t < b) \/ i \in E
        BY <1>6, <1>7, <4>2, <4>3 DEF Written
      <4> QED BY <1>4, <2>2, <3>1, <4>1, <4>3, <4>4
    <3>3. CASE i \notin E /\ i \notin O
      <4>1. (i \in ended' <=> i \in ended) /\ (i \in open' <=> i \in open)
        BY <1>1, <1>2, <3>3
      <4>2. i \in open => segment'[i] = segment[i]
        BY <1>1, <1>3, <1>11, <3>3
      <4> QED BY <1>7, <4>1, <4>2 DEF Written
    <3> QED BY <3>1, <3>2, <3>3
  <2> QED BY <1>8, <2>1, <2>3
<1>12. ASSUME NEW i \in Session, from[i] = to[i]
       PROVE  Split!RowsOf(i)' = {}
  <2>1. i \notin open
    <3>1. i \in begun => from[i] \in Visited
      BY DEF Visited
    <3>2. from[i] <= from[i]
      BY <1>4
    <3> QED BY <1>4, <1>12, <3>1, <3>2 DEF Swept
  <2>2. Split!RowsOf(i) = {}
    BY <1>2, <1>12 DEF SplitInv, RowsSoFar
  <2> QED BY <1>a, <2>1, <2>2, VisitWrites
<1>13. \A i \in Session, t \in Time :
         IF Written(i, t)' THEN \E r : RowsAt(i, t)' = {r} /\ r.layer = Split!LayerAt(i, t)'
         ELSE RowsAt(i, t)' = {}
  BY <1>7, <1>10, <1>11
<1> QED BY <1>2, <1>12, <1>13 DEF RowsSoFar

\* Finish adds the rows of the sessions without duration.
LEMMA FinishKeeps ==
  ASSUME SplitInv, Split!Finish
  PROVE  SplitInv'
<1>1. /\ ~done /\ Split!Boundaries = {} /\ done' = TRUE
      /\ rows' = rows \cup Split!ZeroWidthRows
      /\ UNCHANGED <<from, to, begun, ended, open, segment>>
  BY DEF Split!Finish, Split!input
<1>2. /\ Split!TypeOK /\ \A i \in Session : from[i] \in Time /\ from[i] \in Int /\ to[i] \in Time /\ to[i] \in Int
  BY TimesTyped DEF SplitInv
<1>3. Split!TypeOK'
  <2>1. Split!ZeroWidthRows \subseteq Split!Rows
    BY <1>2 DEF Split!ZeroWidthRows, Split!Rows, Split!Layers
  <2> QED BY <1>1, <1>2, <2>1 DEF Split!TypeOK
<1>4. Swept' /\ (done' => Split!Boundaries' = {})
  BY <1>1 DEF SplitInv, Swept, Visited, Split!Boundaries
<1>5. LayersSoFar'
  <2>1. Session \subseteq ended
    BY <1>1 DEF Split!Boundaries
  <2>2. open' = {}
    BY <1>1, <1>2, <2>1 DEF SplitInv, Swept, Split!TypeOK
  <2> QED BY <2>2 DEF LayersSoFar
<1>6. \A i \in Session :
        Split!RowsOf(i)' = IF from[i] = to[i]
                           THEN Split!RowsOf(i) \cup {[session |-> i, start |-> from[i], stop |-> to[i],
                                                       layer |-> "primary"]}
                           ELSE Split!RowsOf(i)
  <2>1. PICK new : new = Split!ZeroWidthRows
    OBVIOUS
  <2>2. \A r \in new : \E k \in Session :
          /\ from[k] = to[k] /\ r.session = k
          /\ r = [session |-> k, start |-> from[k], stop |-> to[k], layer |-> "primary"]
    BY <2>1 DEF Split!ZeroWidthRows
  <2>3. \A k \in Session : from[k] = to[k] =>
          [session |-> k, start |-> from[k], stop |-> to[k], layer |-> "primary"] \in new
    BY <2>1 DEF Split!ZeroWidthRows
  <2>4. \A i \in Session : Split!RowsOf(i)' = Split!RowsOf(i) \cup {r \in new : r.session = i}
    BY <1>1, <2>1 DEF Split!RowsOf
  <2>5. ASSUME NEW i \in Session, from[i] = to[i]
        PROVE  {r \in new : r.session = i} =
                 {[session |-> i, start |-> from[i], stop |-> to[i], layer |-> "primary"]}
    BY <2>2, <2>3, <2>5
  <2>6. ASSUME NEW i \in Session, from[i] # to[i]
        PROVE  {r \in new : r.session = i} = {}
    BY <2>2, <2>6
  <2> QED BY <2>4, <2>5, <2>6
<1>7. \A i, t : /\ Written(i, t)' = Written(i, t) /\ Split!LayerAt(i, t)' = Split!LayerAt(i, t)
                /\ RowsAt(i, t)' = {r \in Split!RowsOf(i)' : r.start <= t /\ t < r.stop}
  BY <1>1 DEF Written, Split!LayerAt, Split!IsOpen, RowsAt
<1>8. \A i \in Session, t \in Time : RowsAt(i, t)' = RowsAt(i, t)
  <2>1. ASSUME NEW i \in Session, NEW t \in Time
        PROVE  RowsAt(i, t)' = RowsAt(i, t)
    <3>1. t \in Int
      BY SessionsAssumption
    <3>2. PICK row : row = [session |-> i, start |-> from[i], stop |-> to[i], layer |-> "primary"]
      OBVIOUS
    <3>3. from[i] = to[i] => ~(row.start <= t /\ t < row.stop)
      BY <1>2, <3>1, <3>2
    <3>4. Split!RowsOf(i)' = IF from[i] = to[i] THEN Split!RowsOf(i) \cup {row}
                             ELSE Split!RowsOf(i)
      BY <1>6, <3>2
    <3> QED BY <1>7, <3>3, <3>4 DEF RowsAt
  <2> QED BY <2>1
<1>9. RowsSoFar'
  <2>1. \A i \in Session, t \in Time :
          IF Written(i, t)' THEN \E r : RowsAt(i, t)' = {r} /\ r.layer = Split!LayerAt(i, t)'
          ELSE RowsAt(i, t)' = {}
    BY <1>7, <1>8 DEF SplitInv, RowsSoFar
  <2>2. \A i \in Session : from[i] = to[i] => Split!RowsOf(i) = {}
    BY <1>1 DEF SplitInv, RowsSoFar
  <2> QED BY <1>1, <1>6, <2>1, <2>2 DEF RowsSoFar
<1> QED BY <1>3, <1>4, <1>5, <1>9 DEF SplitInv

LEMMA SplitStarts ==
  ASSUME Split!Init
  PROVE  SplitInv
<1>1. /\ from \in [Session -> Time] /\ to \in [Session -> Time] /\ \A i \in Session : from[i] <= to[i]
      /\ begun = {} /\ ended = {} /\ open = {} /\ rows = {} /\ done = FALSE
      /\ segment = [i \in Session |-> Nil]
  BY DEF Split!Init
<1>2. Split!TypeOK
  BY <1>1 DEF Split!TypeOK
<1>3. Swept /\ LayersSoFar
  BY <1>1 DEF Swept, Visited, LayersSoFar
<1>4. RowsSoFar
  BY <1>1 DEF RowsSoFar, Written, RowsAt, Split!RowsOf
<1> QED BY <1>1, <1>2, <1>3, <1>4 DEF SplitInv

LEMMA SplitStays ==
  ASSUME SplitInv, UNCHANGED <<from, to, begun, ended, open, segment, rows, done>>
  PROVE  SplitInv'
<1>1. Split!TypeOK' /\ Swept' /\ (done' => Split!Boundaries' = {})
  BY DEF SplitInv, Split!TypeOK, Swept, Visited, Split!Boundaries
<1>2. LayersSoFar'
  BY DEF SplitInv, LayersSoFar, LayerIn, Visited, Split!Boundaries, Split!Newest, Split!Newer,
         Split!LayerAt, Split!IsOpen
<1>3. RowsSoFar'
  BY DEF SplitInv, RowsSoFar, Written, RowsAt, Split!RowsOf, Split!LayerAt, Split!IsOpen
<1> QED BY <1>1, <1>2, <1>3 DEF SplitInv

LEMMA SplitSteps ==
  ASSUME SplitInv, Split!Next
  PROVE  SplitInv'
<1>1. ASSUME NEW b \in Time, Split!Boundary(b)
      PROVE  SplitInv'
  <2>1. ~done /\ UNCHANGED done
    BY <1>1, VisitIs
  <2> QED BY <1>1, <2>1, VisitSweeps, VisitKeepsTypes, VisitKeepsLayers, VisitKeepsRows DEF SplitInv
<1> QED BY <1>1, FinishKeeps DEF Split!Next

LEMMA SplitIsExact ==
  ASSUME SplitInv
  PROVE  LayersExact
<1>1. ASSUME done, NEW i \in Session
      PROVE  /\ \A t \in Time :
                  LET here == {r \in Split!RowsOf(i) : r.start <= t /\ t < r.stop}
                  IN IF Split!IsOpen(i, t)
                     THEN \E r \in here : here = {r} /\ r.layer = Split!LayerAt(i, t)
                     ELSE here = {}
             /\ from[i] = to[i] => Split!RowsOf(i) = {[session |-> i, start |-> from[i],
                                                       stop |-> to[i], layer |-> "primary"]}
  <2>1. i \in ended
    BY <1>1 DEF SplitInv, Split!Boundaries
  <2>2. ASSUME NEW t \in Time
        PROVE  IF Split!IsOpen(i, t)
               THEN \E r \in RowsAt(i, t) : RowsAt(i, t) = {r} /\ r.layer = Split!LayerAt(i, t)
               ELSE RowsAt(i, t) = {}
    <3>1. Written(i, t) <=> Split!IsOpen(i, t)
      BY <2>1 DEF Written
    <3>2. IF Written(i, t) THEN \E r : RowsAt(i, t) = {r} /\ r.layer = Split!LayerAt(i, t)
          ELSE RowsAt(i, t) = {}
      BY DEF SplitInv, RowsSoFar
    <3> QED BY <3>1, <3>2
  <2>3. from[i] = to[i] => Split!RowsOf(i) = {[session |-> i, start |-> from[i],
                                               stop |-> to[i], layer |-> "primary"]}
    BY <1>1 DEF SplitInv, RowsSoFar
  <2> QED BY <2>2, <2>3 DEF RowsAt
<1> QED BY <1>1 DEF LayersExact, Split!LayersExact

\* LayersExact, of split_overlapping_sessions: however the sessions overlap,
\* when the sweep is over every instant of a session is in exactly one of its
\* rows, of the layer its definition gives then, and a session without duration
\* has one row.
THEOREM LayersAreExact == RequestSpec => []LayersExact
<1> DEFINE Inv == /\ request = "split" => SplitInv
                  /\ request # "split" => ~done
           steps == <<request, vars, sessions, rulesVars>>
<1>1. AnyRequest => Inv
  BY SplitStarts DEF AnyRequest, NoSessions
<1>2. Inv /\ [MatchStep \/ SplitStep \/ ReconstructStep]_steps => Inv'
  <2>1. ASSUME Inv, MatchStep \/ ReconstructStep \/ UNCHANGED steps
        PROVE  Inv'
    <3>1. UNCHANGED <<request, from, to, begun, ended, open, segment, rows, done>>
      BY <2>1 DEF MatchStep, ReconstructStep, sessions, Split!vars, Split!input
    <3> QED BY <2>1, <3>1, SplitStays
  <2>2. ASSUME Inv, SplitStep
        PROVE  Inv'
    BY <2>2, SplitSteps DEF SplitStep
  <2> QED BY <2>1, <2>2
<1>3. Inv => LayersExact
  BY SplitIsExact DEF LayersExact, Split!LayersExact
<1> QED BY <1>1, <1>2, <1>3, PTL DEF RequestSpec

=============================================================================

--------------------------- MODULE SparseMatcher ---------------------------
(***************************************************************************)
(* The matcher production runs on sorted logs: SparseOpenStarts threads the *)
(* starts on one list of all and one list per app, newest first, marks the  *)
(* ended ones and unlinks them only when they reach a head.  A stop walks   *)
(* one list and gives up at the first start out of its reach.  One step is  *)
(* one turn of a loop.                                                      *)
(***************************************************************************)
EXTENDS UsageEvents

VARIABLES
  options, count, now, start, last, ends,
  pc,          \* where in the loop over the log
  event,       \* the event being consumed
  cursor,      \* the start the walk looks at
  globalPrev,  \* global_prev, 0 for -1
  appPrev,     \* app_prev
  closed,      \* closed
  globalHead,  \* global_head
  appHead      \* app_heads

matcher == <<options, count, now, start, last>>
lists == <<globalPrev, appPrev, globalHead, appHead>>
vars == <<matcher, ends, pc, event, cursor, lists, closed>>

Places == {"next", "prune", "walk", "tidy", "advance", "finish", "done"}

\* No start lies beyond the events read.
TypeOK ==
  /\ options \in Options
  /\ count \in 0..MaxEvents /\ now \in Nat
  /\ start \in [Index -> Starts \cup {Nil}]
  /\ last \in [App -> LastEvents]
  /\ ends \in [Index -> Ends \cup {Nil}]
  /\ pc \in Places
  /\ event \in Events \cup {Nil}
  /\ cursor \in 0..count
  /\ \A i \in Index : start[i] # Nil => i <= count
  /\ globalPrev \in [Index -> 0..MaxEvents] /\ appPrev \in [Index -> 0..MaxEvents]
  /\ closed \in [Index -> BOOLEAN]
  /\ globalHead \in 0..count
  /\ appHead \in [App -> 0..count]

Init ==
  /\ options \in OptionSets
  /\ count = 0 /\ now = 0
  /\ start = [i \in Index |-> Nil]
  /\ last = [a \in App |-> [at |-> 0, stops |-> FALSE]]
  /\ ends = [i \in Index |-> Nil]
  /\ pc = "next" /\ event = Nil /\ cursor = 0
  /\ globalPrev = [i \in Index |-> 0] /\ appPrev = [i \in Index |-> 0]
  /\ closed = [i \in Index |-> FALSE]
  /\ globalHead = 0
  /\ appHead = [a \in App |-> 0]

-----------------------------------------------------------------------------
(* The stop that an event is (SparseStopMode) and what it looks for.        *)

StopMode(e) ==
  LET same == SameStop(options, e)
      other == OtherStop(options, e) IN
  CASE same /\ other -> "anyApp"
    [] same /\ ~other -> "sameApp"
    [] other /\ ~same -> "otherApp"
    [] ~same /\ ~other /\ FallbackStop(options, e) -> "fallbackSameApp"
    [] OTHER -> "none"

\* The end of the log walks the list of all starts too.
WalksAppList == event # Nil /\ StopMode(event) \in {"sameApp", "fallbackSameApp"}

EnforcesThreshold(mode) == mode = "fallbackSameApp" => options.fallbackThreshold

InReach(i) ==
  IsValidDuration(start[i].at, event.at, EnforcesThreshold(StopMode(event)))

\* Mutant: a background start is ended by another app.
WantsForeign(e, i) == StopMode(e) = "otherApp" => start[i].app # e.app
Wants(e, i) ==
  /\ StopMode(e) = "otherApp" => start[i].app # e.app
  /\ StopMode(e) \in {"otherApp", "anyApp"} =>
       start[i].app = e.app \/ start[i].app \notin Background

HeldBack(e, i) ==
  /\ StopMode(e) = "fallbackSameApp"
  /\ start[i].reresumed /\ e.at - start[i].at < options.proximity

-----------------------------------------------------------------------------
(* The lists.                                                               *)

WalkHead == IF WalksAppList THEN appHead[event.app] ELSE globalHead

Prev(i) == IF WalksAppList THEN appPrev[i] ELSE globalPrev[i]

IsClosed(i) == i # 0 /\ closed[i]

PruneGlobalHead ==
  /\ IsClosed(globalHead)
  /\ globalHead' = globalPrev[globalHead]
  /\ UNCHANGED appHead

PruneAppHead(a) ==
  /\ IsClosed(appHead[a])
  /\ appHead' = [appHead EXCEPT ![a] = appPrev[@]]
  /\ UNCHANGED globalHead

\* SparseOpenStarts::open.  Mutant: the heads are moved before they are linked.
OpenedFirst(i, a) ==
  /\ globalHead' = i /\ appHead' = [appHead EXCEPT ![a] = i]
  /\ globalPrev' = [globalPrev EXCEPT ![i] = globalHead']
  /\ appPrev' = [appPrev EXCEPT ![i] = appHead'[a]]
Opened(i, a) ==
  /\ globalPrev' = [globalPrev EXCEPT ![i] = globalHead]
  /\ appPrev' = [appPrev EXCEPT ![i] = appHead[a]]
  /\ globalHead' = i
  /\ appHead' = [appHead EXCEPT ![a] = i]

Closed(i, stop, reason) ==
  /\ closed' = [closed EXCEPT ![i] = TRUE]
  /\ ends' = [ends EXCEPT ![i] = [stop |-> stop, reason |-> reason]]

-----------------------------------------------------------------------------
(* The loop over the log.                                                   *)

Read(e) ==
  /\ pc = "next" /\ count < MaxEvents
  /\ event' = e
  /\ pc' = IF StopMode(e) = "none" THEN "advance" ELSE "prune"
  /\ UNCHANGED <<matcher, ends, cursor, lists, closed>>

\* The head of the list to walk is pruned, then the walk begins.
Prune ==
  /\ pc = "prune"
  /\ IF IsClosed(WalkHead)
     THEN /\ IF WalksAppList THEN PruneAppHead(event.app) ELSE PruneGlobalHead
          /\ UNCHANGED <<pc, cursor>>
     ELSE /\ cursor' = WalkHead
          /\ pc' = IF event = Nil THEN "finish" ELSE "walk"
          /\ UNCHANGED <<globalHead, appHead>>
  /\ UNCHANGED <<matcher, ends, event, globalPrev, appPrev, closed>>

\* Only a stop that ends several starts prunes again.
WalkEnds == pc' = (IF options.reuse THEN "tidy" ELSE "advance") /\ cursor' = 0

SkipClosed ==
  /\ pc = "walk" /\ IsClosed(cursor)
  /\ cursor' = Prev(cursor)
  /\ UNCHANGED <<matcher, ends, pc, event, lists, closed>>

SkipUnwanted ==
  /\ pc = "walk" /\ cursor # 0 /\ ~closed[cursor]
  /\ InReach(cursor) /\ ~Wants(event, cursor)
  /\ cursor' = Prev(cursor)
  /\ UNCHANGED <<matcher, ends, pc, event, lists, closed>>

\* The list is exhausted, or older starts are even farther away.
GiveUp ==
  /\ pc = "walk"
  /\ cursor # 0 => ~closed[cursor] /\ ~InReach(cursor)
  /\ WalkEnds
  /\ UNCHANGED <<matcher, ends, event, lists, closed>>

Close ==
  /\ pc = "walk" /\ cursor # 0 /\ ~closed[cursor]
  /\ InReach(cursor) /\ Wants(event, cursor)
  /\ IF ~options.reuse /\ HeldBack(event, cursor)
     THEN UNCHANGED <<closed, ends>>
     ELSE Closed(cursor, count + 1, CloseReason(options, event, start[cursor].app))
  /\ IF options.reuse THEN cursor' = Prev(cursor) /\ UNCHANGED pc ELSE WalkEnds
  /\ UNCHANGED <<matcher, event, lists>>

Tidy ==
  /\ pc = "tidy"
  /\ \/ WalksAppList /\ PruneAppHead(event.app) /\ UNCHANGED pc
     \/ PruneGlobalHead /\ UNCHANGED pc
     \/ /\ ~IsClosed(WalkHead) /\ ~IsClosed(globalHead)
        /\ pc' = "advance"
        /\ UNCHANGED <<globalHead, appHead>>
  /\ UNCHANGED <<matcher, ends, event, cursor, globalPrev, appPrev, closed>>

\* The rest of the turn: an opener is put on its lists.
Advance ==
  LET here == count + 1
      a == event.app IN
  /\ pc = "advance"
  /\ IF event.kind \in options.openers
     THEN /\ start' = [start EXCEPT ![here] =
               [app |-> a, at |-> event.at,
                reresumed |-> IsReresume(options, event, last[a])]]
          /\ Opened(here, a)
     ELSE UNCHANGED <<start, lists>>
  /\ last' = [last EXCEPT ![a] = [at |-> event.at, stops |-> SameStop(options, event)]]
  /\ count' = here /\ now' = event.at
  /\ pc' = "next" /\ event' = Nil
  /\ UNCHANGED <<options, ends, cursor, closed>>

\* finish_open_starts
StartFinish ==
  /\ pc = "next" /\ count > 0
  /\ pc' = "prune"
  /\ UNCHANGED <<matcher, ends, event, cursor, lists, closed>>

FinishOpenStarts ==
  /\ pc = "finish" /\ cursor # 0
  /\ cursor' = globalPrev[cursor]
  /\ IF closed[cursor]
     THEN UNCHANGED <<closed, ends>>
     ELSE IF cursor < count /\ IsValidDuration(start[cursor].at, now, TRUE)
     THEN Closed(cursor, count, "endOfStream")
     ELSE /\ ends' = [ends EXCEPT ![cursor] = [stop |-> 0, reason |-> "unobserved"]]
          /\ UNCHANGED closed
  /\ UNCHANGED <<matcher, pc, event, lists>>

Finished ==
  /\ pc = "finish" /\ cursor = 0
  /\ pc' = "done"
  /\ UNCHANGED <<matcher, ends, event, cursor, lists, closed>>

Next ==
  \/ \E a \in App, k \in Kinds, g \in Gap : Read([app |-> a, kind |-> k, at |-> now + g])
  \/ Prune \/ SkipClosed \/ SkipUnwanted \/ GiveUp \/ Close \/ Tidy \/ Advance
  \/ StartFinish \/ FinishOpenStarts \/ Finished

Spec == Init /\ [][Next]_vars

-----------------------------------------------------------------------------
(* Properties.                                                              *)

\* Links lead to earlier starts only.  Between a start
\* and the start it links to, on either list, and above either head, every start
\* has ended: a walk from the head meets all open starts, newest first, although
\* ended ones are unlinked only at the head.
ChainsExact ==
  LET Started == {i \in Index : start[i] # Nil}
      ClosedBetween(S, low, high) == \A j \in S : low < j /\ j < high => closed[j]
      StartedBy(a) == {i \in Started : start[i].app = a} IN
  /\ \A i \in Index : globalPrev[i] < i /\ appPrev[i] < i
  /\ ClosedBetween(Started, globalHead, MaxEvents + 1)
  /\ \A i \in Started : ClosedBetween(Started, globalPrev[i], i)
  /\ \A a \in App :
       /\ ClosedBetween(StartedBy(a), appHead[a], MaxEvents + 1)
       /\ \A i \in StartedBy(a) : ClosedBetween(StartedBy(a), appPrev[i], i)

\* No log makes a loop run for ever (lib.rs:721-905): each turn reads an event, or
\* takes the event further, or goes back on a list that other events have linked,
\* marked and pruned, and never forth.
Stage ==
  [next |-> 0, prune |-> 1, walk |-> 2, finish |-> 2, tidy |-> 3, advance |-> 4, done |-> 5]
Onward ==
  \/ count' > count
  \/ count' = count /\ Stage[pc'] > Stage[pc]
  \/ /\ UNCHANGED <<count, pc>>
     /\ cursor' <= cursor /\ globalHead' <= globalHead
     /\ \A a \in App : appHead'[a] <= appHead[a]
     /\ ~UNCHANGED <<cursor, globalHead, appHead>>

EveryWalkEnds == [][Onward]_vars

\* The sparse matcher does what the reference matcher does, for every order of
\* starts and stops: the ends found by the walk of an event, and by the last
\* walk, take effect together.
Reported(i) ==
  /\ ends[i] # Nil /\ ends[i].stop <= count
  /\ pc = "finish" => ends[i].reason \notin {"endOfStream", "unobserved"}

Reference == INSTANCE UsageMatcher WITH
  ends <- [i \in Index |-> IF Reported(i) THEN ends[i] ELSE Nil],
  finished <- pc = "done"

ImplementsReference == Reference!Spec
=============================================================================

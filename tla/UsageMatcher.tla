---------------------------- MODULE UsageMatcher ----------------------------
(***************************************************************************)
(* What the app-usage matcher promises, after the reference matcher         *)
(* (match_app_usage_core and the legacy proximity path): it reads the log   *)
(* once, keeps every start open until a compatible stop, and ends what is   *)
(* left at the last event or not at all.  One step consumes one event.      *)
(***************************************************************************)
EXTENDS UsageEvents

VARIABLES
  options,   \* of the run
  count,     \* events consumed
  now,       \* timestamp of the last of them
  start,     \* the episode starts, by event index
  last,      \* last_event_ns and last_was_same_stop of each app
  ends,      \* how each start ended
  finished   \* the log is exhausted

vars == <<options, count, now, start, last, ends, finished>>

Init ==
  /\ options \in OptionSets
  /\ count = 0 /\ now = 0
  /\ start = [i \in Index |-> Nil]
  /\ last = [a \in App |-> [at |-> 0, stops |-> FALSE]]
  /\ ends = [i \in Index |-> Nil]
  /\ finished = FALSE

\* open_start_indices, which holds them in order.
Open == {i \in Index : start[i] # Nil /\ ends[i] = Nil}

IsFallback(e) ==
  FallbackStop(options, e) /\ ~SameStop(options, e) /\ ~OtherStop(options, e)

\* is_compatible_open_start_for_stop
Compatible(e, i) ==
  /\ \/ SameStop(options, e) /\ start[i].app = e.app
     \/ OtherStop(options, e) /\ start[i].app # e.app /\ start[i].app \notin Background
     \/ IsFallback(e) /\ start[i].app = e.app
  /\ IsValidDuration(start[i].at, e.at, IsFallback(e) => options.fallbackThreshold)

\* A fallback stop within the grace of a re-resumed start is a teardown
\* artifact.
HeldBack(e, i) ==
  IsFallback(e) /\ start[i].reresumed /\ e.at - start[i].at < options.proximity

\* Without reuse a stop ends the newest compatible start.
EndedBy(e) ==
  LET fit == {i \in Open : Compatible(e, i)} IN
  IF options.reuse THEN fit
  ELSE {i \in fit : ~HeldBack(e, i) /\ \A j \in fit : j <= i}

Observe(e) ==
  LET here == count + 1
      opens == e.kind \in options.openers IN
  /\ ~finished /\ here \in Index
  /\ ends' = [i \in Index |->
       IF i \in EndedBy(e)
       THEN [stop |-> here, reason |-> CloseReason(options, e, start[i].app)]
       ELSE ends[i]]
  /\ start' = [i \in Index |->
       IF i = here /\ opens
       THEN [app |-> e.app, at |-> e.at, reresumed |-> IsReresume(options, e, last[e.app])]
       ELSE start[i]]
  /\ last' = [last EXCEPT ![e.app] = [at |-> e.at, stops |-> SameStop(options, e)]]
  /\ count' = here /\ now' = e.at
  /\ UNCHANGED <<options, finished>>

Finish ==
  /\ ~finished /\ count > 0
  /\ finished' = TRUE
  /\ ends' = [i \in Index |->
       IF i \notin Open THEN ends[i]
       ELSE IF i < count /\ IsValidDuration(start[i].at, now, TRUE)
       THEN [stop |-> count, reason |-> "endOfStream"]
       ELSE [stop |-> 0, reason |-> "unobserved"]]
  /\ UNCHANGED <<options, count, now, start, last>>

Next ==
  \/ \E a \in App, k \in Kinds, g \in Gap : Observe([app |-> a, kind |-> k, at |-> now + g])
  \/ Finish

Spec == Init /\ [][Next]_vars
=============================================================================

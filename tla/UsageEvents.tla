---------------------------- MODULE UsageEvents ----------------------------
(***************************************************************************)
(* The events of one participant's log as the app-usage matcher reads them, *)
(* and the flags build_app_event_index derives from an event's type, its    *)
(* app and the options o of the run.                                        *)
(***************************************************************************)
EXTENDS Integers

CONSTANTS
  App,         \* packages
  Background,  \* packages that play in the background
  Threshold,   \* long_duration_threshold_ns
  MaxEvents,   \* bound: length of the log
  Gap,         \* bound: time between two events
  OptionSets,  \* option records to choose from
  Nil

Kinds == {"resumed", "paused", "stopped", "service"}

Options == [reuse : BOOLEAN,              \* allow_stop_event_reuse
            fallback : BOOLEAN,           \* use_activity_stopped_as_fallback
            fallbackThreshold : BOOLEAN,  \* apply_threshold_to_fallback
            proximity : Nat,              \* proximity_interval_ns
            sameStop : SUBSET Kinds,      \* same_stop_types
            otherStop : SUBSET Kinds,     \* other_stop_types
            openers : SUBSET Kinds]       \* the opener set

Index == 1..MaxEvents
Events == [app : App, kind : Kinds, at : Nat]
Reasons == {"sameAppStop", "otherAppStop", "activityStoppedFallback", "endOfStream", "unobserved"}
Starts == [app : App, at : Nat, reresumed : BOOLEAN]
Ends == [stop : 0..MaxEvents, reason : Reasons]
LastEvents == [at : Nat, stops : BOOLEAN]

ASSUME MatcherAssumption ==
  /\ Background \subseteq App
  /\ Threshold \in Nat /\ MaxEvents \in Nat
  /\ Gap \subseteq Nat
  /\ OptionSets \subseteq Options
  /\ Nil \notin Starts \cup Ends \cup Events

SameStop(o, e) ==
  e.kind \in (IF e.app \in Background THEN {"resumed", "stopped"} ELSE o.sameStop)

OtherStop(o, e) == e.kind \in o.otherStop

FallbackStop(o, e) == o.fallback /\ e.kind = "stopped" /\ e.app \notin Background

IsValidDuration(from, to, enforce) == from <= to /\ (enforce => to - from <= Threshold)

\* Why the stop e ends a start of app (legacy_close_reason).
CloseReason(o, e, app) ==
  CASE SameStop(o, e) /\ app = e.app -> "sameAppStop"
    [] OtherStop(o, e) /\ app # e.app /\ app \notin Background -> "otherAppStop"
    [] OTHER -> "activityStoppedFallback"

\* The opener e resumes an app whose last event was a stop shortly before.
IsReresume(o, e, last) ==
  e.kind = "resumed" /\ last.stops /\ e.at - last.at < o.proximity
=============================================================================

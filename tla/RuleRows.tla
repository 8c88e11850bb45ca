------------------------------ MODULE RuleRows ------------------------------
(***************************************************************************)
(* The rows of one participant's log as the published episode rules read    *)
(* them, and the rules with the openers they are given.                     *)
(***************************************************************************)
EXTENDS Integers, Sequences

CONSTANTS
  Package,      \* app packages
  Rules,        \* rules with their opener sets, to choose from
  Silence,      \* DRAXLER_INACTIVITY_NS
  LockTimeout,  \* MORRISON_LOCK_TIMEOUT_NS
  Seen,         \* bound: packages and kinds of the rows, by rule
  LogLength,    \* bound: length of the log
  Pause         \* bound: time between two rows

RuleNames == {"foregroundBackground", "draxler", "morrison"}

\* An opener is never a pause or a screen event.
Openers == {"resumed", "service"}
RowKinds == Openers \cup {"paused", "screenOff", "screenOn"}
LogRows == [app : Package, kind : RowKinds, at : Nat]
EndReasons == {"paused", "handover", "screenOff", "silence", "locked", "unobserved"}
Uses == [start : Nat, stop : Nat, at : Nat, reason : EndReasons]

ASSUME RulesAssumption ==
  /\ Rules \subseteq [name : RuleNames, openers : SUBSET Openers]
  /\ Silence \in Nat /\ LockTimeout \in Nat \ {0}
  /\ Seen \in [RuleNames -> SUBSET [app : Package, kind : RowKinds]]
  /\ LogLength \in Nat
  /\ Pause \subseteq Nat
=============================================================================

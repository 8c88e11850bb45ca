---------------------------- MODULE DurableHead ----------------------------
(***************************************************************************)
(* What a workspace promises its user: it has at most one saved run, the   *)
(* head.  A save replaces the head by a run built on it, directly or       *)
(* through further runs; nothing else moves the head until the workspace   *)
(* is erased.  The promise holds while the storage keeps what it was       *)
(* given; only an erasure takes it up again after that.                    *)
(***************************************************************************)
EXTENDS RootHistory

VARIABLES
  head,    \* the run that reopening the workspace shows
  damaged  \* whether the storage lacks or corrupts something it was given

vars == <<head, damaged>>

Init == head \in Root \cup {NoRoot} /\ damaged = FALSE

Save ==
  /\ \E r \in Root :
       /\ head # r
       /\ head = NoRoot \/ head \in History[r]
       /\ head' = r
  /\ UNCHANGED damaged

Erase == head' = NoRoot /\ damaged' = FALSE

\* The storage damages something, or has done so before: any head may show.
Fault == damaged' = TRUE

Spec == Init /\ [][Save \/ Erase \/ Fault]_vars
=============================================================================

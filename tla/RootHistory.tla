---------------------------- MODULE RootHistory ----------------------------
(***************************************************************************)
(* The committed workspace roots of web/src/lib/opfsArtifactStore.ts.  A   *)
(* root object is content-addressed and names the root it was built on, so *)
(* the roots that can exist form a forest fixed once and for all by their  *)
(* digests: Prev is a constant.                                            *)
(***************************************************************************)
EXTENDS Naturals, FiniteSets

CONSTANTS
  Root,    \* workspace root digests
  NoRoot,  \* previousWorkspaceRootDigest null
  Prev     \* decodeHistoryRoot(root).previousWorkspaceRootDigest

ASSUME RootAssumption ==
  /\ NoRoot \notin Root
  /\ Prev \in [Root -> Root \cup {NoRoot}]

\* A set of roots that contains the predecessor of each of its members.
ClosedUnderPrev(S) == \A q \in S : Prev[q] # NoRoot => Prev[q] \in S

\* The rootDigests of collectCommittedHistoryFromObjects: r and its ancestors.
History == [r \in Root |->
  {q \in Root : \A S \in SUBSET Root : r \in S /\ ClosedUnderPrev(S) => q \in S}]
=============================================================================

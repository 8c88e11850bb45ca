-------------------------- MODULE MCArtifactStore --------------------------
(* ArtifactStore for TLC: a chain of four roots with a fork, and a root of  *)
(* an earlier build.  All closures share x; y is shared by r2 and q2 alone.  *)
EXTENDS ArtifactStore, TLC

CONSTANTS c1, c2, r1, r2, r3, r4, q2, f, x, y

MCClient == {c1, c2}
OneClient == {c1}
MCRoot == {r1, r2, r3, r4, q2, f}
MCPrev == r1 :> NoRoot @@ r2 :> r1 @@ r3 :> r2 @@ r4 :> r3 @@ q2 :> r1 @@ f :> NoRoot
MCArtifact == {x, y}
MCArts == r1 :> {x} @@ r2 :> {x, y} @@ r3 :> {x} @@ r4 :> {x} @@ q2 :> {x, y} @@ f :> {x}
MCForeign == {f}
MCArchive == {r2, r3}
NoArchive == {}

\* Two clients share a smaller forest.
ThreeRoots == {r1, r2, q2}
TwoArchives == {r2, q2}
SmallPrev == [r \in ThreeRoots |-> MCPrev[r]]
SmallArts == [r \in ThreeRoots |-> MCArts[r]]

ClientSymmetry == Permutations(MCClient)
=============================================================================

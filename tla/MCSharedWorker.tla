--------------------------- MODULE MCSharedWorker ---------------------------
(***************************************************************************)
(* Instances of the shared worker for TLC.  Calls and bundles are           *)
(* interchangeable.                                                         *)
(***************************************************************************)
EXTENDS SharedWorker, TLC

SharedSymmetry == Permutations(Call) \cup Permutations(Key)
=============================================================================

---------------------------- MODULE MCBatchRun ----------------------------
(* Two files of equal content and one whose digest is not known, two lanes. *)
EXTENDS BatchRun, TLC

CONSTANTS f1, f2, f3, digest, before, after

MCFile == {f1, f2, f3}
MCKeyOf == f1 :> digest @@ f2 :> digest @@ f3 :> f3
MCSchedule == <<f1, f2, f3>>

MCSettings == {before, after}
SettingsSymmetry == Permutations(MCSettings)

\* A heap that leaves room for both lanes, and one that does not.
MCMeasure == {1, 2}
=============================================================================

---------------------------- MODULE MCWorkerPool ----------------------------
(* WorkerPool for TLC: two workers, up to four submissions of two inputs. *)
EXTENDS WorkerPool, TLC

CONSTANTS s1, s2, t1, t2, t3, t4, in1, in2

MCSlot == {s1, s2}
ThreeTasks == {t1, t2, t3}
FourTasks == {t1, t2, t3, t4}
MCInput == {in1, in2}
ThreeInputs == t1 :> in1 @@ t2 :> in2 @@ t3 :> in1
FourInputs == ThreeInputs @@ t4 :> in2

\* Heaps are counted in baselines: one that fits the budget beside a fresh
\* worker but not beside another of its size, and one that fits it not at all.
MCWasmSizes == {3, 5}
MCBudgets == {5}

SlotSymmetry == Permutations(MCSlot)
=============================================================================

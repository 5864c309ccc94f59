----------------------------- MODULE MCExecutor -----------------------------
(* Small instances of Executor for TLC.                                     *)
EXTENDS Executor, TLC

CONSTANTS First, Second  \* two of the jobs

NoFollower == [j \in Jobs |-> None]

\* The first job pushes the second one.
FirstPushesSecond == [j \in Jobs |-> IF j = First THEN Second ELSE None]

Symmetry == Permutations(Threads)
=============================================================================

---------------------------- MODULE MCPayrollRun ----------------------------
(* PayrollRun on small sets of runs, sessions, lines and settings. *)
EXTENDS PayrollRun, TLC

CONSTANTS r1, r2, s1, s2, p1, l1, l2

OnePeriod == [r \in Runs |-> p1]
MCBatchStates == {"hr_pending", "approved"}
MCBlocking == {"approved"}
Symmetry == Permutations(Runs) \cup Permutations(Sessions) \cup Permutations(Lines)
=============================================================================

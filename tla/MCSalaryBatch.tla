--------------------------- MODULE MCSalaryBatch ---------------------------
(* SalaryBatch with few users and requests. *)
EXTENDS SalaryBatch, TLC

CONSTANTS u1, u2, s1, s2

Symmetry == Permutations(Users) \cup Permutations(Sessions)
=============================================================================

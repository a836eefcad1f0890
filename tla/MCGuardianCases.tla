--------------------------- MODULE MCGuardianCases --------------------------
(* Instances of GuardianCases for TLC. *)
EXTENDS GuardianCases, TLC

MCAlike == Permutations(Proc) \cup Permutations(Revision) \cup Permutations(Conclusion)
=============================================================================

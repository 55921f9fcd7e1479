----------------------------- MODULE MCSessions -----------------------------
(* Instances of Sessions for TLC.                                          *)
EXTENDS Sessions, TLC

CallerSymmetry  == Permutations(Callers)
AccountSymmetry == Permutations(Callers) \cup Permutations(Users)
                   \cup Permutations(Managers)

=============================================================================

------------------------------ MODULE MCAdmin ------------------------------
(* An instance of AdminScreens for TLC.                                    *)
EXTENDS AdminScreens, TLC

AdminSymmetry ==
  Permutations(Names) \cup Permutations(Plates)

=============================================================================

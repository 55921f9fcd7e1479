---------------------------- MODULE MCWebSession ----------------------------
(* Instances of WebSession for TLC.                                        *)
EXTENDS WebSession, TLC

PageSymmetry == Permutations(Tabs) \cup Permutations(Calls) \cup Permutations(Users)

=============================================================================

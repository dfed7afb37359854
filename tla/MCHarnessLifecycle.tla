------------------------ MODULE MCHarnessLifecycle ------------------------
(* Small instances of HarnessLifecycle for TLC.                            *)
EXTENDS HarnessLifecycle, TLC

Symmetry == Permutations(Callers) \cup Permutations(Sessions)
=============================================================================

--------------------------- MODULE MCMachNamespace ---------------------------
(* Instances of MachNamespace.                                             *)
EXTENDS MachNamespace, TLC

Symmetric == Permutations(Objects) \cup Permutations(Tasks)
=============================================================================

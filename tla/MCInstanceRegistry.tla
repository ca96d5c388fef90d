------------------------- MODULE MCInstanceRegistry -------------------------
(***************************************************************************)
(* Instances of InstanceRegistry for TLC: the constants of the .cfg files  *)
(* that are not model values, and the symmetry of the safety run.          *)
(***************************************************************************)
EXTENDS InstanceRegistry, TLC

\* DNS names are never compared with one another, nor are the manager's servers.
ServerSymmetry == Permutations(Address) \cup Permutations(Instance \ Foreign)
=============================================================================

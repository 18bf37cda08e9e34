---------------------------- MODULE MCLifecycle ----------------------------
(* Lifecycle, with its previews, on small instances. *)
EXTENDS Previews, TLC

Symmetry == Permutations(Device) \cup Permutations(Person \ {CreatedBy})
=============================================================================

-------------------------- MODULE MCMountLifecycle --------------------------
(* Two shares on one host and of one name, so with one native credential. *)
EXTENDS MountLifecycle, TLC

CONSTANTS a, b

OneKey == (a :> "host") @@ (b :> "host")

Symmetry == Permutations(Shares)
=============================================================================

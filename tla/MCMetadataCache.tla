-------------------------- MODULE MCMetadataCache --------------------------
(* Model checking of MetadataCache: the names of files are interchangeable. *)
EXTENDS MetadataCache, TLC

Symmetry == Permutations(Names)
=============================================================================

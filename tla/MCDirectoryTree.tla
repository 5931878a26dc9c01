-------------------------- MODULE MCDirectoryTree --------------------------
(* A share with a directory d, which holds the files f and g and a         *)
(* directory e with a file h.                                              *)
EXTENDS DirectoryTree, TLC

CONSTANTS root, d, e, f, g, h

SmallTree == (d :> root) @@ (e :> d) @@ (f :> d) @@ (g :> d) @@ (h :> e)
=============================================================================

----------------------------- MODULE MCStreamTree -----------------------------
(***************************************************************************)
(* StreamTree with four modules: a source, two that forward requests, and  *)
(* one that does not.  Deep enough for a module between two others to be   *)
(* moved and destroyed.                                                    *)
(***************************************************************************)
EXTENDS StreamTree, TLC

Symmetry == Permutations(Module \ (Opaque \cup Source))
=============================================================================

------------------------------- MODULE MCTsSync -------------------------------
(***************************************************************************)
(* TsSync with a buffer of two slots that can grow to eight, two pids that *)
(* carry PCRs, and PCRs of which every other value is a valid step.        *)
(***************************************************************************)
EXTENDS TsSync, TLC

Symmetry == Permutations(Pid)
=============================================================================

------------------------------ MODULE MCLoopCore ------------------------------
(* LoopCore with slots that are interchangeable *)
EXTENDS LoopCore, TLC

Symmetry == Permutations(Timer) \cup Permutations(Event)
=============================================================================

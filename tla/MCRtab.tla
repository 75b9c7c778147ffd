------------------------------- MODULE MCRtab -------------------------------
(* Model-checking instances of Rtab: lines and identifiers are               *)
(* interchangeable.                                                          *)
EXTENDS Rtab, TLC

Symmetry == Permutations(Lines) \cup Permutations(Tids)
=============================================================================

---------------------------- MODULE MCTestbench ----------------------------
(***************************************************************************)
(* Testbench for TLC: the requests of a trace only load and store, so that *)
(* a longer test than with the other sequences can be explored: a word     *)
(* that is fetched, stored and loaded again.                               *)
(***************************************************************************)
EXTENDS Testbench, TLC

\* Address a1 is in segment 2; a2 is in the part of segment 0 where the random
\* sequence has the memory answer with errors.
CONSTANTS a1, a2
Segments == (a1 :> 2) @@ (a2 :> 0)

Lengths == [k \in Kinds |-> IF k = "from_trace" THEN 3 ELSE 2]
=============================================================================

----------------------------- MODULE MCHpdcache -----------------------------
(* Model-checking instances of Hpdcache.                                     *)
EXTENDS Hpdcache, TLC

CONSTANT Far    \* a line of another set, or NoLine if there is one set only

\* One set with all the ways.
OneSet == [l \in Lines |-> Ways]

\* Two sets: the highest way is the set of line Far, the others are the set of
\* the other lines.
TwoSets ==
    LET top == CHOOSE w \in Ways : \A v \in Ways : v <= w
    IN  [l \in Lines |-> IF l = Far THEN {top} ELSE Ways \ {top}]

Symmetry == Permutations(Lines \ {Far}) \cup Permutations(Tids)
=============================================================================

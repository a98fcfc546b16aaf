----------------------------- MODULE MC_Documents -----------------------------
(* Instances of Documents for the model checker.                             *)
EXTENDS Documents, TLC

CONSTANTS c1, c2, m1

OneModule == [c \in Councils |-> m1]

(* A range set aside after the first number.                                 *)
OneRange == {[start |-> 2, end |-> 3, ext |-> FALSE]}

(* The first number set aside, or the neighbour's numbers asked for.         *)
FirstNumbers == {[start |-> 1, end |-> 1, ext |-> FALSE],
                 [start |-> 0, end |-> 1, ext |-> TRUE]}

Symmetry == Permutations(Requests) \cup Permutations(Councils)
===============================================================================

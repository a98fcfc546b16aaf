---------------------------- MODULE MC_Numeration ----------------------------
(* Instances of Numeration for the model checker.                            *)
EXTENDS NumerationRefinement, NumerationInv, TLC

CONSTANTS c1, c2, c3, m1, m2

(* All the councils meet for one module.                                     *)
OneModule == [c \in Councils |-> m1]

(* c3 belongs to another module.                                             *)
TwoModules == [c \in Councils |-> IF c = c3 THEN m2 ELSE m1]

(* Every body that POST numeration-document/reserve lets through.            *)
AllRanges == [start : 0 .. MaxNumber, end : 0 .. MaxNumber, ext : BOOLEAN]

(* A reservation after the first number, an extension of a range upwards and *)
(* one in both directions.                                                   *)
SomeRanges == {[start |-> 2, end |-> 3, ext |-> FALSE],
               [start |-> 0, end |-> 3, ext |-> TRUE],
               [start |-> 1, end |-> 2, ext |-> TRUE]}

(* Requests are interchangeable, and so are the councils of one module.      *)
RequestSymmetry == Permutations(Requests)
Symmetry == Permutations(Requests) \cup Permutations(Councils)
===============================================================================

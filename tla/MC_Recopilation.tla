---------------------------- MODULE MC_Recopilation ---------------------------
(* Instances of Recopilation for the model checker.                          *)
EXTENDS Recopilation

(* Two documents of the first council and one of the second.                 *)
TwoAndOne == [d \in Docs |-> IF d = 3 THEN 2 ELSE 1]
===============================================================================

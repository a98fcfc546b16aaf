----------------------------- MODULE MC_LongTasks -----------------------------
(* Instances of LongTasks for the model checker.                             *)
EXTENDS LongTasks

CONSTANTS d1, s1

(* A student twice in a sheet.                                               *)
SomeSheets == {<<s1, s1>>}
===============================================================================

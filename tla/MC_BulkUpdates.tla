--------------------------- MODULE MC_BulkUpdates -----------------------------
(* Instances of BulkUpdates and StudentLoad for the model checker.           *)
EXTENDS StudentLoad

CONSTANTS r1, r2, c1, f1, f2, d1, d2, m1, m2, k1, k2, t1, t2

(* Updates of functionaries in opposite orders, and one of councils.         *)
SomeBulks ==
  {[service |-> "functionaries", rows |-> <<f1, f2>>],
   [service |-> "functionaries", rows |-> <<f2, f1>>],
   [service |-> "councils", rows |-> <<c1>>],
   [service |-> "councils", rows |-> <<>>]}

StudentOf(dni, mail, career, canton) ==
  [dni |-> dni, mail |-> mail, career |-> career, canton |-> canton]

(* Rows that share a dni, with each other, or a mail, with those of another  *)
(* sheet; one whose career and one whose canton does not exist.              *)
SomeSheets ==
  {{StudentOf(d1, m1, k1, t1), StudentOf(d1, m2, k1, t1)},
   {StudentOf(d2, m1, k1, t1), StudentOf(d2, m2, k2, t1)},
   {StudentOf(d1, m1, k1, t2)}}
===============================================================================

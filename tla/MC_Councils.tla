----------------------------- MODULE MC_Councils ------------------------------
(* Instances of Councils for the model checker.                              *)
EXTENDS Councils

CONSTANTS r1, f1, f2, s1, nobody, m1

Body(date, members) == [date |-> date, module |-> m1, members |-> members]

(* Dates in half hours.  A council whose second member does not exist, and   *)
(* one that names a member twice, among them.                                *)
SomeCreations ==
  {Body(1, <<f1, f2>>), Body(2, <<f1, nobody>>), Body(4, <<s1, s1>>)}

(* A council gets another date and a student in the place of a functionary;  *)
(* a name and an unknown member.                                             *)
SomeUpdates ==
  {[date |-> 4, rename |-> FALSE, members |-> {[position |-> 1, person |-> s1]}],
   [date |-> 0, rename |-> TRUE, members |-> {[position |-> 1, person |-> nobody]}]}

Item(action, council, id, person) ==
  [action |-> action, id |-> id, council |-> council, person |-> person]

(* The last one names a member of a council.                                 *)
SomeChanges ==
  {{Item("create", 0, 0, f1), Item("create", 0, 0, s1)},
   {Item("delete", 0, 1, f1), Item("create", 0, 0, f2)},
   {Item("update", 0, 1, s1), Item("update", 1, 1, f1)}}
===============================================================================

------------------------ MODULE MC_CertificateSchedule ------------------------
(* An instance of CertificateSchedule for the model checker.                 *)
EXTENDS CertificateSchedule

CONSTANTS f1, f2, f3

(* One contains another in its room and meets a third, in another room; no   *)
(* two end at one minute.                                                    *)
SomeSlots == {[start |-> 1, duration |-> 5, room |-> "A"],
              [start |-> 2, duration |-> 2, room |-> "A"],
              [start |-> 5, duration |-> 3, room |-> "B"]}

Nothing == [who |-> "same", role |-> "same",
            attended |-> "same", notified |-> "same"]

(* Present; another in the place, present at once.                           *)
SomeChanges ==
  {[Nothing EXCEPT !.attended = "yes"],
   [Nothing EXCEPT !.who = f1, !.attended = "yes"]}

(* f1 comes to another certificate in the place of f3.                       *)
OneMore == {[who |-> f3, role |-> "M_SUPLENTE"]}

TwoPrincipals == <<[who |-> f1, role |-> "M_PRINCIPAL"],
                   [who |-> f2, role |-> "M_PRINCIPAL"]>>
===============================================================================

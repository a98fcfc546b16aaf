---- MODULE MC_Users ----
EXTENDS Users

TwoUsers ==
  {[outlook |-> "ana", google |-> "g1", role |-> "ADMIN",
    modules |-> <<"FACU", "SOFT">>, careers |-> <<>>],
   [outlook |-> "luis", google |-> "g2", role |-> "READER",
    modules |-> <<"SOFT">>, careers |-> <<"Civil">>]}

Nothing ==
  [google |-> "same", role |-> "same", active |-> "same", gives |-> {},
   modules |-> <<>>, careers |-> <<>>]

(* An address and a role; a module without a row; not active; all accesses.  *)
SomeUpdates ==
  {[Nothing EXCEPT !.google = "g3", !.role = "READER"],
   [Nothing EXCEPT !.role = "ADMIN", !.gives = {"modules"},
                   !.modules = <<"FACU", "gone">>],
   [Nothing EXCEPT !.active = "no"],
   [Nothing EXCEPT !.role = "ADMIN", !.active = "yes", !.gives = Kinds,
                   !.modules = <<"SOFT">>, !.careers = <<"Civil">>]}
====

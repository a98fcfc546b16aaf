---------------------------- MODULE NumerationBook ----------------------------
(***************************************************************************)
(* What the numbering of a module promises, with no database in sight: a   *)
(* book that is only written at its end.  The entry in place n says which  *)
(* council owns number n and what became of it.  Numeration implements     *)
(* this as long as requests are served one at a time and no row is         *)
(* deleted; it does not once two requests interleave.                      *)
(***************************************************************************)
EXTENDS Naturals, Sequences

CONSTANTS
  Councils,   \* the councils
  Modules,    \* the modules; each has a book
  ModuleOf    \* the module of each council

VARIABLE book \* the book of each module

Entry == [council : Councils, state : {"RESERVED", "ENQUEUED", "USED"}]

BookTypeOK == book \in [Modules -> Seq(Entry)]

BookInit == book = [m \in Modules |-> <<>>]

Owns(c, n) == book[ModuleOf[c]][n].council = c

Places(m) == 1 .. Len(book[m])

(* The next number goes, in use at once, to whatever council takes it.       *)
TakeNext(c) ==
  book' = [book EXCEPT ![ModuleOf[c]] =
             Append(@, [council |-> c, state |-> "USED"])]

(* A council sets the next number aside, if it owns the end of the book or   *)
(* has no number yet.                                                        *)
SetAside(c) ==
  LET m == ModuleOf[c] IN
  /\ \/ \A n \in Places(m) : ~ Owns(c, n)
     \/ Owns(c, Len(book[m]))
  /\ book' = [book EXCEPT ![m] =
                Append(@, [council |-> c, state |-> "RESERVED"])]

(* A number set aside, or free again, is put to use by the council it is of. *)
PutToUse(m, n) ==
  /\ book[m][n].state # "USED"
  /\ book' = [book EXCEPT ![m][n].state = "USED"]

(* The document of a number is removed.                                      *)
SetFree(m, n) ==
  /\ book[m][n].state # "RESERVED"
  /\ book' = [book EXCEPT ![m][n].state = "ENQUEUED"]

(* A council extends its range over first .. last, numbers that another      *)
(* council has set aside next to one of its own.                             *)
Annex(c, first, last) ==
  LET m == ModuleOf[c] IN
  /\ \E d \in Councils \ {c} : \A n \in first .. last :
        book[m][n] = [council |-> d, state |-> "RESERVED"]
  /\ \E n \in {first - 1, last + 1} \cap Places(m) : Owns(c, n)
  /\ book' = [book EXCEPT ![m] =
                [n \in Places(m) |-> IF n \in first .. last
                                     THEN [council |-> c, state |-> "RESERVED"]
                                     ELSE @[n]]]

BookNext ==
  \/ \E c \in Councils : TakeNext(c) \/ SetAside(c)
  \/ \E m \in Modules : \E n \in Places(m) : PutToUse(m, n) \/ SetFree(m, n)
  \/ \E c \in Councils : \E first, last \in Places(ModuleOf[c]) :
        Annex(c, first, last)

BookSpec == BookInit /\ [][BookNext]_book
===============================================================================

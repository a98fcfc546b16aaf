------------------------- MODULE NumerationRefinement -------------------------
(***************************************************************************)
(* Numeration implements NumerationBook: the entry of number n is the row  *)
(* that carries it.                                                        *)
(***************************************************************************)
EXTENDS Numeration

EntryOf(m, n) ==
  LET x == CHOOSE x \in InBook(m) : x.number = n
  IN  [council |-> x.council, state |-> x.state]

BookOfRows ==
  [m \in Modules |-> [n \in 1 .. Cardinality(Numbers(m)) |-> EntryOf(m, n)]]

Book == INSTANCE NumerationBook WITH book <- BookOfRows

(* Requests served one at a time write the book only at its end, put to use  *)
(* only their council's own free numbers and annex only what a neighbour     *)
(* holds in reserve.                                                         *)
ImplementsBook == Book!BookSpec
===============================================================================

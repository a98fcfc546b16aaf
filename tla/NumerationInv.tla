----------------------------- MODULE NumerationInv -----------------------------
(***************************************************************************)
(* Inductive invariants of Numeration: what a handler may rely on at each  *)
(* await.  Each is a predicate of one handler (what it was asked, where it *)
(* is, what it has read) and of the table.                                 *)
(***************************************************************************)
EXTENDS Numeration

CreateAwaits == {"next", "book", "own", "available", "save", "insert"}
ReserveAwaits == {"reserveBook", "reserveLast", "reserveNext",
                  "down", "downRead", "downMove", "up", "upRead", "upMove"}
Moving == {"downMove", "upMove"}
Downwards == {"down", "downRead", "downMove"}
Upwards == {"up", "upRead", "upMove"}

-------------------------------------------------------------------------------
(* Every await belongs to one handler, which knows its council; a range is   *)
(* not exhausted, and that of create ends just before its number; a request  *)
(* that is not being served has read no range.                               *)
Fits(q, at, v) ==
  /\ at \in {"idle", "done"} => v.hi = NoNumber
  /\ at \in CreateAwaits =>
       q.op = "create" /\ q.number \in Number /\ q.council \in Councils
  /\ at \in ReserveAwaits => q.op = "reserve" /\ q.council \in Councils
  /\ at = "range" => /\ q.council \in Councils
                     /\ 1 <= v.cur /\ v.cur <= v.lim
                     /\ q.op = "create" => q.number = v.lim + 1

AwaitInv == \A r \in Requests : Fits(req[r], pc[r], view[r])

TypeInv == TypeOK /\ AwaitInv

-------------------------------------------------------------------------------
(* The rows about to be moved are of the book of the council they go to, all *)
(* others that a handler has read of that of their own council.              *)
SnapFits(q, at, v) ==
  \A x \in v.snap :
    IF at \in Moving THEN x.book = ModuleOf[q.council]
                     ELSE x.book = ModuleOf[x.council]

SnapInv == \A r \in Requests : SnapFits(req[r], pc[r], view[r])

BookInv == BookOfCouncil /\ SnapInv

-------------------------------------------------------------------------------
(* What a row is and where it stands, whoever owns it in whatever state.     *)
Key(x) == [id |-> x.id, number |-> x.number, book |-> x.book]
Keys == {Key(x) : x \in rows}

(* Rows have identifiers of their own.                                       *)
RowsInv ==
  /\ \A x, y \in rows : x.id = y.id => x = y
  /\ \A x \in rows : x.id < nextId

(* A row that a handler has read is still there (no row is deleted).         *)
ReadRows(keys, v) ==
  /\ \A s, t \in v.snap : s.id = t.id => s = t
  /\ \A s \in v.snap : Key(s) \in keys

ReadInv == \A r \in Requests : ReadRows(Keys, view[r])

IdInv == RowsInv /\ ReadInv

(* Below what a handler is about to insert, and below what it has read, the  *)
(* book, here the set of its numbers, is complete.                           *)
Filled(numbers, q, at, v) ==
  /\ at = "range" => 1 .. v.cur - 1 \subseteq numbers
  /\ at = "insert" => 1 .. q.number - 1 \subseteq numbers
  /\ at = "own" => 1 .. v.top \subseteq numbers
  /\ at \in ReserveAwaits => 1 .. v.hi \subseteq numbers

FilledInv ==
  \A r \in Requests :
    Filled(Numbers(ModuleOf[req[r].council]), req[r], pc[r], view[r])

GapInv == IdInv /\ NoGaps /\ FilledInv

-------------------------------------------------------------------------------
(* With a single request in flight what it has read is still true: nothing   *)
(* of the book lies at or above what it is about to insert.                  *)
Fresh(numbers, own, q, at, v) ==
  /\ at = "range" => \A n \in numbers : n < v.cur
  /\ at = "insert" => \A n \in numbers : n < q.number
  /\ at = "own" => \A n \in numbers : n <= v.top
  /\ at = "reserveBook" => \A x \in own : x.number <= v.hi
  /\ at \in {"down", "downRead", "downMove"} /\ v.topCouncil = q.council =>
       \A n \in numbers : n <= v.hi

FreshInv ==
  \A r \in Requests :
    Fresh(Numbers(ModuleOf[req[r].council]), Own(req[r].council),
          req[r], pc[r], view[r])

UniqueInv == IdInv /\ UniqueNumbers /\ FreshInv
-------------------------------------------------------------------------------
(* What is about to be moved: the numbers first .. last of book m, all of    *)
(* them, which the donor holds in reserve.                                   *)
Taken(v, m, first, last) ==
  /\ \A x \in v.snap : /\ x.council = v.donor /\ x.book = m
                       /\ x.state = "RESERVED" /\ x.number \in first .. last
  /\ \A n \in first .. last : \E x \in v.snap : x.number = n

(* With a single request in flight the rows it has read are those of the     *)
(* table, lo and hi are the ends of its council's numbers, and a range grows *)
(* from the last number of its council, or is the council's first.           *)
Seen(table, q, at, v) ==
  LET m == ModuleOf[q.council]
      own == {x \in table : x.council = q.council /\ x.book = m}
  IN
  /\ v.snap \subseteq table
  /\ at = "own" => \E t \in Highest({x \in table : x.book = m}) :
                     t.number = v.top /\ t.council = v.topCouncil
  /\ at = "save" => \E x \in table : v.snap = {x} /\ x.state # "USED"
  /\ at = "enqueue" => \E x \in table : v.snap = {x} /\ x.state # "RESERVED"
  /\ at = "range" => own = {} \/ \E x \in own : x.number = v.cur - 1
  /\ at \in ReserveAwaits =>
       IF v.hi = NoNumber THEN own = {}
                          ELSE \E h \in Highest(own) : h.number = v.hi
  /\ at \in {"reserveBook"} \cup Downwards /\ v.hi # NoNumber =>
       \E l \in Lowest(own) : l.number = v.lo
  /\ at = "reserveNext" /\ v.hi # NoNumber =>
       \E t \in Highest({x \in table : x.book = m}) : t.council = q.council
  /\ at \in Downwards => v.hi # NoNumber /\ q.start \in 1 .. v.lo - 1
  /\ at \in Upwards => v.hi # NoNumber /\ v.hi < q.end
  /\ at \in {"downRead", "upRead"} \cup Moving => v.donor # q.council
  /\ at = "upRead" => \E x \in table : /\ x.council = v.donor
                                       /\ x.state = "RESERVED"
                                       /\ x.number = v.hi + 1
  /\ at = "downMove" => Taken(v, m, q.start, v.lo - 1)
  /\ at = "upMove" => Taken(v, m, v.hi + 1, q.end)

SeenInv == \A r \in Requests : Seen(rows, req[r], pc[r], view[r])

FirmInv == IsFiniteSet(rows) /\ SeenInv

-------------------------------------------------------------------------------
(* The create of a number that is not the next one.                          *)
NotNextInv ==
  \A r \in Requests : pc[r] \in {"book", "own", "available"} =>
    ~ IsNext(ModuleOf[req[r].council], req[r].number)

(* A council that was told that it may not reserve has a range already, and  *)
(* not the last.                                                             *)
NotLastInv ==
  \A r \in Requests :
    pc[r] = "done" /\ reply[r] = "notLast" =>
      /\ Own(req[r].council) # {}
      /\ \A t \in Highest(InBook(ModuleOf[req[r].council])) :
           t.council # req[r].council

AdviceInv == NotNextInv /\ SuggestionAccepted /\ NotLastInv
-------------------------------------------------------------------------------
(* A number in reserve follows another one of its council, or is the first   *)
(* of it: a council that gets numbers apart from its range gets them USED,   *)
(* and gives away only what is in reserve next to the range of another.      *)
Attached(table) ==
  \A x, y \in table :
    x.state = "RESERVED" /\ y.council = x.council /\ y.number < x.number =>
      \E z \in table : z.council = x.council /\ z.number = x.number - 1

(* What a handler was asked, where the other invariants do not need it.      *)
AskedInv ==
  \A r \in Requests :
    /\ pc[r] = "idle" => req[r].op = "none"
    /\ pc[r] = "enqueue" => req[r].op = "remove"
    /\ pc[r] \in {"reserveLast", "reserveNext"} => ~ req[r].ext

OfferInv == Attached(rows) /\ AskedInv
===============================================================================

------------------------------ MODULE Numeration ------------------------------
(***************************************************************************)
(* The numbering service of the council documents                          *)
(* (src/numeration-document/numeration-document.service.ts).               *)
(*                                                                         *)
(* Every module of the faculty keeps, for the year the system is set to,   *)
(* one numbering: the rows of "numeration-documents" of one year_module,   *)
(* called a book here.  A row binds a number to the council that owns it   *)
(* and says whether the number is RESERVED, USED by a document or ENQUEUED *)
(* for reuse after its document was removed.  The table has no uniqueness  *)
(* constraint and the handlers take no lock: a handler is a chain of       *)
(* awaited queries, and between two of them other handlers run.  Each      *)
(* action below is the code between two awaits, with the query it ends on. *)
(*                                                                         *)
(* A request is an HTTP call being served.  req is what it was asked, view *)
(* what its handler has read so far, which may be stale by the time it is  *)
(* used.                                                                   *)
(***************************************************************************)
EXTENDS Naturals, FiniteSets

CONSTANTS
  Requests,    \* the HTTP requests that can be in flight at the same time
  Councils,    \* the councils (councils table)
  Modules,     \* the modules of the faculty; each has one book in this year
  ModuleOf,    \* the module each council belongs to
  Presided,    \* the councils with a member in position order 1 or 2
  Closable,    \* the councils that operators close and open in this instance
  Ranges,      \* the ranges that reserve requests ask for in this instance
  MaxNumber,   \* bound: the highest number a request may ask for
  MaxId,       \* bound: once that many rows were inserted no request arrives
  NoCouncil    \* the absent council

ASSUME NumerationAssumption ==
  /\ ModuleOf \in [Councils -> Modules]
  /\ Presided \subseteq Councils
  /\ Closable \subseteq Councils
  /\ MaxNumber \in Nat \ {0}
  /\ Ranges \subseteq [start : 0 .. MaxNumber, end : 0 .. MaxNumber,
                      ext : BOOLEAN]
  /\ MaxId \in Nat
  /\ NoCouncil \notin Councils

VARIABLES
  rows,    \* the numeration-documents table, a set of rows
  nextId,  \* the identifier the database gives to the next inserted row
  active,  \* councils.is_active
  pc,      \* the await each request is at
  req,     \* what each request was asked
  view,    \* what its handler has read
  reply    \* the answer of a request that is done

vars == <<rows, nextId, active, pc, req, view, reply>>

-------------------------------------------------------------------------------
(***************************************************************************)
(* The data.                                                               *)
(***************************************************************************)

NumerationState == {"RESERVED", "ENQUEUED", "USED"}

Number == 1 .. MaxNumber
NoNumber == 0            \* an optional field of the DTO that was not sent

Row == [id : Nat, number : Number, state : NumerationState,
        council : Councils, book : Modules]

(* CreateNumerationDocumentDto uses number, ReserveNumerationDocumentDto     *)
(* start, end and ext (isExtension); the removal of a document uses neither. *)
Request == [op : {"none", "create", "reserve", "remove"},
            council : Councils \cup {NoCouncil},
            number : Number \cup {NoNumber},
            start : Number \cup {NoNumber},
            end : Number \cup {NoNumber},
            ext : BOOLEAN]

(* lo, hi: the council's lowest and highest number; top, topCouncil: the     *)
(* highest number of the book and its owner; cur .. lim: what is left to     *)
(* reserve; donor, snap: the neighbour and the rows about to be saved.       *)
View == [lo : Number \cup {NoNumber}, hi : Number \cup {NoNumber},
         top : Number \cup {NoNumber}, topCouncil : Councils \cup {NoCouncil},
         cur : 0 .. MaxNumber + 1, lim : 0 .. MaxNumber,
         donor : Councils \cup {NoCouncil}, snap : SUBSET Row]

Location == {"idle", "done",
             "next", "book", "own", "available", "save", "range", "insert",
             "reserveBook", "reserveLast", "reserveNext",
             "down", "downRead", "downMove", "up", "upRead", "upMove",
             "enqueue"}

(* The answers, by the error message they carry: "inUse" is "El número ya    *)
(* está en uso" and the ranges already in use, "otherCouncil" is "ya es      *)
(* parte de la numeración de otro consejo", "crash" an unexpected TypeError  *)
(* or database error (HTTP 500).                                             *)
Status == {"none", "ok", "inUse", "otherCouncil", "noneAvailable", "noRows",
           "notLast", "notNext", "badRange", "noPresident", "crash"}

NoRequest == [op |-> "none", council |-> NoCouncil, number |-> NoNumber,
              start |-> NoNumber, end |-> NoNumber, ext |-> FALSE]

NothingRead == [lo |-> NoNumber, hi |-> NoNumber, top |-> NoNumber,
                topCouncil |-> NoCouncil, cur |-> 0, lim |-> 0,
                donor |-> NoCouncil, snap |-> {}]

TypeOK ==
  /\ rows \subseteq Row
  /\ nextId \in Nat
  /\ active \in [Councils -> BOOLEAN]
  /\ pc \in [Requests -> Location]
  /\ req \in [Requests -> Request]
  /\ view \in [Requests -> View]
  /\ reply \in [Requests -> Status]

Init ==
  /\ rows = {}
  /\ nextId = 1
  /\ active = [c \in Councils |-> TRUE]
  /\ pc = [r \in Requests |-> "idle"]
  /\ req = [r \in Requests |-> NoRequest]
  /\ view = [r \in Requests |-> NothingRead]
  /\ reply = [r \in Requests |-> "none"]

-------------------------------------------------------------------------------
(***************************************************************************)
(* Queries.                                                                *)
(***************************************************************************)

InBook(m) == {x \in rows : x.book = m}

Numbers(m) == {x.number : x \in InBook(m)}

(* The rows of a council in the book of its module (the year is fixed).      *)
Own(c) == {x \in rows : x.council = c /\ x.book = ModuleOf[c]}

(* ORDER BY number DESC (ASC): with equal numbers the database may put any   *)
(* of them first.                                                            *)
Highest(S) == {x \in S : \A y \in S : y.number <= x.number}
Lowest(S) == {x \in S : \A y \in S : x.number <= y.number}

(* Mutant of IsNext: the last number is taken for the next one.              *)
IsNextStill(m, n) ==
  \/ InBook(m) = {} /\ n = 1
  \/ \E t \in Highest(InBook(m)) : n = t.number

(* getNextNumberToRegister of module m returns n.                            *)
IsNext(m, n) ==
  \/ InBook(m) = {} /\ n = 1
  \/ \E t \in Highest(InBook(m)) : n = t.number + 1

(* getNumerationByCouncil: the number offered to council c, -1 when none is. *)
Suggests(c, n) ==
  LET book == InBook(ModuleOf[c])
      enqueued == {x \in Own(c) : x.state = "ENQUEUED"}
      reserved == {x \in Own(c) : x.state = "RESERVED"}
  IN  IF Own(c) = {} \/ \E t \in Highest(book) : t.council = c
      THEN IsNext(ModuleOf[c], n)
      ELSE \E x \in Lowest(IF enqueued # {} THEN enqueued ELSE reserved) :
              n = x.number

(* getCouncilsCouldReserveNumeration of the module of c lists c.             *)
CouldReserve(c) ==
  /\ active[c]
  /\ Own(c) # {} => \E t \in Highest(InBook(ModuleOf[c])) : t.council = c

(* findAvailableExtensionNumeration reads the council of the row below from  *)
(* a query that did not load it: with such a row there is no answer.         *)
OfferFails(c) ==
  \E l \in Lowest(Own(c)) : \E x \in rows :
    x.council # c /\ x.state = "RESERVED" /\ x.number = l.number - 1

(* Mutant of OffersUpTo: the numbers of the neighbour that are not RESERVED  *)
(* are offered as well.                                                      *)
OffersUpToAny(c, end) ==
  /\ active[c] /\ Own(c) # {} /\ ~ OfferFails(c)
  /\ \A t \in Highest(InBook(ModuleOf[c])) : t.council # c
  /\ \E h \in Highest(Own(c)) : \E above \in rows :
       /\ above.council # c /\ above.state = "RESERVED"
       /\ above.number = h.number + 1
       /\ \E x \in Highest({x \in rows : x.council = above.council}) :
            end = x.number

(* getAvailableExtensionNumeration offers council c the numbers up to end:   *)
(* those of the council that holds the next number in reserve, up to the     *)
(* first that is not RESERVED.  That council may be closed.                  *)
OffersUpTo(c, end) ==
  /\ active[c] /\ Own(c) # {} /\ ~ OfferFails(c)
  /\ \A t \in Highest(InBook(ModuleOf[c])) : t.council # c
  /\ \E h \in Highest(Own(c)) : \E above \in rows :
       /\ above.council # c /\ above.state = "RESERVED"
       /\ above.number = h.number + 1
       /\ LET after == {x \in rows : /\ x.council = above.council
                                     /\ x.number > h.number}
              given == {x \in after : \A y \in after :
                          y.number <= x.number => y.state = "RESERVED"}
          IN  \E x \in Highest(given) : end = x.number

-------------------------------------------------------------------------------
(***************************************************************************)
(* How a handler moves on.                                                 *)
(***************************************************************************)

(* The handler of r goes on at another await, having read v.                 *)
GoOn(r, to, v) ==
  /\ pc' = [pc EXCEPT ![r] = to]
  /\ view' = [view EXCEPT ![r] = v]
  /\ UNCHANGED <<req, reply>>

(* The handler of r is done: it returned, or threw what status names.        *)
Finish(r, status) ==
  /\ pc' = [pc EXCEPT ![r] = "done"]
  /\ view' = [view EXCEPT ![r] = NothingRead]
  /\ reply' = [reply EXCEPT ![r] = status]
  /\ UNCHANGED req

(* The response leaves the server.                                           *)
Return(r) ==
  /\ pc[r] = "done"
  /\ pc' = [pc EXCEPT ![r] = "idle"]
  /\ req' = [req EXCEPT ![r] = NoRequest]
  /\ reply' = [reply EXCEPT ![r] = "none"]
  /\ UNCHANGED <<rows, nextId, active, view>>

(* manager.save of a new row.                                                *)
InsertRow(n, state, c) ==
  /\ rows' = rows \cup {[id |-> nextId, number |-> n, state |-> state,
                         council |-> c, book |-> ModuleOf[c]]}
  /\ nextId' = nextId + 1
  /\ UNCHANGED active

(* manager.save of entities loaded earlier: every loaded column is written   *)
(* back, and a row that has been deleted meanwhile is inserted again.        *)
SaveRows(saved) ==
  /\ rows' = {x \in rows : \A y \in saved : y.id # x.id} \cup saved
  /\ UNCHANGED <<nextId, active>>

Unwritten == UNCHANGED <<rows, nextId, active>>

(* reserveNumerationRange(first, last): no end means an empty loop.          *)
ReserveRange(r, first, last, v) ==
  \/ /\ last = NoNumber
     /\ Finish(r, "ok")
  \/ /\ last # NoNumber /\ first > last
     /\ Finish(r, "badRange")
  \/ /\ last # NoNumber /\ first <= last
     /\ GoOn(r, "range", [v EXCEPT !.cur = first, !.lim = last])

-------------------------------------------------------------------------------
(***************************************************************************)
(* create: a document takes a number.                                      *)
(***************************************************************************)

(* The request arrives; the last row of the book is read.                    *)
BeginCreate(r, c, n) ==
  /\ pc[r] = "idle"
  /\ req' = [req EXCEPT ![r] =
               [NoRequest EXCEPT !.op = "create", !.council = c, !.number = n]]
  /\ \/ /\ \E t \in Highest(InBook(ModuleOf[c])) :
              t.number = n /\ t.state = "USED"
        /\ pc' = [pc EXCEPT ![r] = "done"]
        /\ reply' = [reply EXCEPT ![r] = "inUse"]
     \/ /\ InBook(ModuleOf[c]) # {} =>
             \E t \in Highest(InBook(ModuleOf[c])) :
                ~ (t.number = n /\ t.state = "USED")
        /\ pc' = [pc EXCEPT ![r] = "next"]
        /\ UNCHANGED reply
  /\ Unwritten
  /\ UNCHANGED view

(* The next number is read and compared with the one asked for.              *)
CheckNext(r) ==
  LET c == req[r].council IN
  /\ pc[r] = "next"
  /\ \/ /\ c \notin Presided
        /\ Finish(r, "noPresident")
     \/ /\ c \in Presided /\ IsNext(ModuleOf[c], req[r].number)
        /\ GoOn(r, "insert", view[r])
     \/ /\ c \in Presided /\ ~ IsNext(ModuleOf[c], req[r].number)
        /\ GoOn(r, "book", view[r])
  /\ Unwritten

(* All the rows of the book are read; an empty book is filled from 1.        *)
ReadBook(r) ==
  LET book == InBook(ModuleOf[req[r].council])
      n == req[r].number
  IN
  /\ pc[r] = "book"
  /\ \/ /\ book = {} /\ n > 1
        /\ GoOn(r, "range", [view[r] EXCEPT !.cur = 1, !.lim = n - 1])
     \/ /\ book = {} /\ n = 1
        /\ GoOn(r, "insert", view[r])
     \/ \E t \in Highest(book) :
          GoOn(r, "own", [view[r] EXCEPT !.top = t.number,
                                         !.topCouncil = t.council])
  /\ Unwritten

(* Mutant of AppendTo: the numbers skipped are not reserved.                 *)
AppendToUnfilled(r) == GoOn(r, "insert", view[r])

(* Fill the numbers between the end of the book, as read, and n; then use n. *)
AppendTo(r) ==
  LET n == req[r].number
      top == view[r].top
  IN  IF n > top + 1
      THEN GoOn(r, "range", [view[r] EXCEPT !.cur = top + 1, !.lim = n - 1])
      ELSE GoOn(r, "insert", view[r])

(* The council's own rows are read, in every book.                           *)
ReadOwn(r) ==
  LET c == req[r].council
      n == req[r].number
      own == {x \in rows : x.council = c}
  IN
  /\ pc[r] = "own"
  /\ \/ /\ own = {} /\ n <= view[r].top
        /\ Finish(r, "otherCouncil")
     \/ /\ own = {} /\ n > view[r].top
        /\ AppendTo(r)
     \/ \E t \in Highest(own) :
          \/ /\ t.state = "USED" /\ t.number = n
             /\ Finish(r, "inUse")
          \/ /\ ~ (t.state = "USED" /\ t.number = n)
             /\ view[r].topCouncil = c /\ view[r].top < n
             /\ AppendTo(r)
          \/ /\ ~ (t.state = "USED" /\ t.number = n)
             /\ ~ (view[r].topCouncil = c /\ view[r].top < n)
             /\ GoOn(r, "available", view[r])
  /\ Unwritten

(* Mutant of ReadAvailable: the numbers of removed documents are forgotten.  *)
ReadAvailableReserved(r) ==
  LET available == {x \in rows : /\ x.council = req[r].council
                                 /\ x.state = "RESERVED"}
      found == {x \in available : x.number = req[r].number}
  IN
  /\ pc[r] = "available"
  /\ \/ /\ available = {}
        /\ Finish(r, "noneAvailable")
     \/ /\ available # {} /\ found = {}
        /\ Finish(r, "otherCouncil")
     \/ \E x \in found : GoOn(r, "save", [view[r] EXCEPT !.snap = {x}])
  /\ Unwritten

(* getAvailableCouncilNumeration, and the search for n in what it returns.   *)
ReadAvailable(r) ==
  LET available == {x \in rows : /\ x.council = req[r].council
                                 /\ x.state # "USED"}
      found == {x \in available : x.number = req[r].number}
  IN
  /\ pc[r] = "available"
  /\ \/ /\ available = {}
        /\ Finish(r, "noneAvailable")
     \/ /\ available # {} /\ found = {}
        /\ Finish(r, "otherCouncil")
     \/ \E x \in found : GoOn(r, "save", [view[r] EXCEPT !.snap = {x}])
  /\ Unwritten

(* The row found is saved as USED.                                           *)
SaveUsed(r) ==
  /\ pc[r] = "save"
  /\ SaveRows({[x EXCEPT !.state = "USED"] : x \in view[r].snap})
  /\ Finish(r, "ok")

(* Mutant of InsertReserved: the loop runs once too often.                   *)
InsertReservedPast(r) ==
  LET v == view[r] IN
  /\ pc[r] = "range"
  /\ InsertRow(v.cur, "RESERVED", req[r].council)
  /\ \/ /\ v.cur <= v.lim
        /\ GoOn(r, "range", [v EXCEPT !.cur = v.cur + 1])
     \/ /\ v.cur > v.lim
        /\ Finish(r, "ok")

(* One turn of the loop of reserveNumerationRange.                           *)
InsertReserved(r) ==
  LET v == view[r] IN
  /\ pc[r] = "range"
  /\ InsertRow(v.cur, "RESERVED", req[r].council)
  /\ \/ /\ v.cur < v.lim
        /\ GoOn(r, "range", [v EXCEPT !.cur = v.cur + 1])
     \/ /\ v.cur >= v.lim /\ req[r].op = "create"
        /\ GoOn(r, "insert", NothingRead)
     \/ /\ v.cur >= v.lim /\ req[r].op # "create"
        /\ Finish(r, "ok")

(* createLastNumeration.                                                     *)
InsertUsed(r) ==
  /\ pc[r] = "insert"
  /\ InsertRow(req[r].number, "USED", req[r].council)
  /\ Finish(r, "ok")

-------------------------------------------------------------------------------
(***************************************************************************)
(* reserveNumeration: a council reserves numbers, or extends its range.    *)
(***************************************************************************)

(* The request arrives; the council's rows in the book are read.             *)
BeginReserve(r, c, g) ==
  LET nothing == Own(c) = {} IN
  /\ pc[r] = "idle"
  /\ req' = [req EXCEPT ![r] =
               [NoRequest EXCEPT !.op = "reserve", !.council = c,
                                 !.start = g.start, !.end = g.end,
                                 !.ext = g.ext]]
  /\ pc' = [pc EXCEPT ![r] = "reserveBook"]
  /\ \/ /\ nothing
        /\ UNCHANGED view
     \/ \E l \in Lowest(Own(c)), h \in Highest(Own(c)) :
          view' = [view EXCEPT ![r].lo = l.number, ![r].hi = h.number]
  /\ Unwritten
  /\ UNCHANGED reply

(* What an extension does above the council's range, once it is done below:  *)
(* go past the end of the book, or ask the neighbour above.  A book whose    *)
(* rows were deleted meanwhile has no end to read.                           *)
ExtendUp(r, v) ==
  LET c == req[r].council
      end == req[r].end
      more == end # NoNumber /\ end > v.hi
      atEnd == end > v.top /\ v.topCouncil = c
  IN
  \/ ~ more /\ Finish(r, "ok")
  \/ more /\ v.top = NoNumber /\ Finish(r, "crash")
  \/ more /\ v.top # NoNumber /\ atEnd /\ ReserveRange(r, v.hi + 1, end, v)
  \/ more /\ v.top # NoNumber /\ ~ atEnd /\ GoOn(r, "up", v)

(* The rows of the book are read.                                            *)
ReserveReadBook(r) ==
  LET book == InBook(ModuleOf[req[r].council])
      start == req[r].start
      Decide(v) ==
        \/ /\ ~ req[r].ext
           /\ GoOn(r, "reserveLast", v)
        \/ /\ req[r].ext /\ v.hi = NoNumber
           /\ Finish(r, "noRows")
        \/ /\ req[r].ext /\ v.hi # NoNumber
           /\ start # NoNumber /\ start < v.lo
           /\ GoOn(r, "down", v)
        \/ /\ req[r].ext /\ v.hi # NoNumber
           /\ start = NoNumber \/ start >= v.lo
           /\ ExtendUp(r, v)
  IN
  /\ pc[r] = "reserveBook"
  /\ \/ book = {} /\ Decide(view[r])
     \/ \E t \in Highest(book) :
          Decide([view[r] EXCEPT !.top = t.number, !.topCouncil = t.council])
  /\ Unwritten

(* Mutant of ReserveCheckLast: a council that is not the last may reserve.   *)
ReserveCheckLastOfAny(r) ==
  /\ pc[r] = "reserveLast"
  /\ InBook(ModuleOf[req[r].council]) # {}
  /\ GoOn(r, "reserveNext", view[r])
  /\ Unwritten

(* The last row of the book is read again; without one its council is read   *)
(* from null.                                                                *)
ReserveCheckLast(r) ==
  LET c == req[r].council
      book == InBook(ModuleOf[c])
  IN
  /\ pc[r] = "reserveLast"
  /\ \/ /\ book = {}
        /\ Finish(r, "crash")
     \/ \E t \in Highest(book) :
          \/ /\ t.council # c /\ view[r].hi # NoNumber
             /\ Finish(r, "notLast")
          \/ /\ t.council = c \/ view[r].hi = NoNumber
             /\ view[r].top = NoNumber /\ req[r].start # 1
             /\ Finish(r, "notNext")
          \/ /\ t.council = c \/ view[r].hi = NoNumber
             /\ view[r].top # NoNumber \/ req[r].start = 1
             /\ GoOn(r, "reserveNext", view[r])
  /\ Unwritten

(* The next number is read; the range must start there.  When the book was   *)
(* read as empty the range starts at the next number whatever was asked.     *)
ReserveCheckNext(r) ==
  LET m == ModuleOf[req[r].council]
      start == req[r].start
  IN
  /\ pc[r] = "reserveNext"
  /\ \/ /\ view[r].top = NoNumber
        /\ \E n \in 1 .. MaxNumber + 1 :
             IsNext(m, n) /\ ReserveRange(r, n, req[r].end, view[r])
     \/ /\ view[r].top # NoNumber /\ ~ IsNext(m, start)
        /\ Finish(r, "notNext")
     \/ /\ view[r].top # NoNumber /\ IsNext(m, start)
        /\ ReserveRange(r, start, req[r].end, view[r])
  /\ Unwritten

(* The neighbour below: the council of some RESERVED row with the number     *)
(* before the range, in whatever book.                                       *)
FindBelow(r) ==
  LET below == {x \in rows : /\ x.council # req[r].council
                             /\ x.state = "RESERVED"
                             /\ x.number = view[r].lo - 1}
  IN
  /\ pc[r] = "down"
  /\ \/ /\ below = {}
        /\ Finish(r, "inUse")
     \/ \E x \in below :
          GoOn(r, "downRead", [view[r] EXCEPT !.donor = x.council])
  /\ Unwritten

(* Mutant of Giveable: the neighbour's rows are taken in all the books.      *)
GiveableAnyBook(r, first, last) ==
  {x \in rows : /\ x.council = view[r].donor /\ active[view[r].donor]
                /\ x.state = "RESERVED"
                /\ x.number >= first /\ x.number <= last}

(* Mutant of Giveable: the neighbour gives numbers in use, too.              *)
GiveableAnyState(r, first, last) ==
  {x \in rows : /\ x.council = view[r].donor /\ active[view[r].donor]
                /\ x.book = ModuleOf[req[r].council]
                /\ x.number >= first /\ x.number <= last}

(* The reserved rows of the neighbour in first .. last of the book.          *)
Giveable(r, first, last) ==
  {x \in rows : /\ x.council = view[r].donor /\ active[view[r].donor]
                /\ x.book = ModuleOf[req[r].council]
                /\ x.state = "RESERVED"
                /\ x.number >= first /\ x.number <= last}

ReadBelow(r) ==
  LET v == view[r]
      moved == Giveable(r, req[r].start, v.lo - 1)
  IN
  /\ pc[r] = "downRead"
  /\ \/ /\ Cardinality(moved) # v.lo - req[r].start
        /\ Finish(r, "inUse")
     \/ /\ Cardinality(moved) = v.lo - req[r].start
        /\ GoOn(r, "downMove", [v EXCEPT !.snap = moved])
  /\ Unwritten

(* reasignNumerations: one transaction saves the rows read for the council.  *)
Reassigned(r) ==
  {[x EXCEPT !.state = "RESERVED", !.council = req[r].council] :
     x \in view[r].snap}

MoveBelow(r) ==
  /\ pc[r] = "downMove"
  /\ SaveRows(Reassigned(r))
  /\ ExtendUp(r, [view[r] EXCEPT !.snap = {}, !.donor = NoCouncil])

(* The neighbour above, of an open council this time.                        *)
FindAbove(r) ==
  LET above == {x \in rows : /\ x.council # req[r].council
                             /\ active[x.council]
                             /\ x.state = "RESERVED"
                             /\ x.number = view[r].hi + 1}
  IN
  /\ pc[r] = "up"
  /\ \/ /\ above = {}
        /\ Finish(r, "inUse")
     \/ \E x \in above :
          GoOn(r, "upRead", [view[r] EXCEPT !.donor = x.council])
  /\ Unwritten

ReadAbove(r) ==
  LET v == view[r]
      moved == Giveable(r, v.hi + 1, req[r].end)
  IN
  /\ pc[r] = "upRead"
  /\ \/ /\ Cardinality(moved) # req[r].end - v.hi
        /\ Finish(r, "inUse")
     \/ /\ Cardinality(moved) = req[r].end - v.hi
        /\ GoOn(r, "upMove", [v EXCEPT !.snap = moved])
  /\ Unwritten

MoveAbove(r) ==
  /\ pc[r] = "upMove"
  /\ SaveRows(Reassigned(r))
  /\ Finish(r, "ok")

-------------------------------------------------------------------------------
(***************************************************************************)
(* documentRemoved and remove; councils; restarts.                         *)
(***************************************************************************)

(* The removal of a document reads the row x that its document holds.        *)
BeginDocumentRemoved(r, x) ==
  /\ pc[r] = "idle"
  /\ req' = [req EXCEPT ![r] = [NoRequest EXCEPT !.op = "remove"]]
  /\ pc' = [pc EXCEPT ![r] = "enqueue"]
  /\ view' = [view EXCEPT ![r].snap = {x}]
  /\ Unwritten
  /\ UNCHANGED reply

(* The row is saved as ENQUEUED; only its number and state were loaded, so a *)
(* row deleted meanwhile cannot be inserted again (its council is missing).  *)
Enqueue(r) ==
  /\ pc[r] = "enqueue"
  /\ \E x \in view[r].snap :
       \/ /\ \A y \in rows : y.id # x.id
          /\ Unwritten
          /\ Finish(r, "crash")
       \/ \E y \in rows :
            /\ y.id = x.id
            /\ SaveRows({[y EXCEPT !.state = "ENQUEUED", !.number = x.number]})
            /\ Finish(r, "ok")

(* remove: DELETE of one row.                                                *)
Remove(x) ==
  /\ nextId <= MaxId
  /\ rows' = rows \ {x}
  /\ UNCHANGED <<nextId, active, pc, req, view, reply>>

(* A council is closed or opened again (councils update, isActive).          *)
SetActive(c) ==
  /\ active' = [active EXCEPT ![c] = ~ @]
  /\ UNCHANGED <<rows, nextId, pc, req, view, reply>>

(* The process restarts: the requests in flight are gone, the table stays.   *)
Restart ==
  /\ pc' = [r \in Requests |-> "idle"]
  /\ req' = [r \in Requests |-> NoRequest]
  /\ view' = [r \in Requests |-> NothingRead]
  /\ reply' = [r \in Requests |-> "none"]
  /\ Unwritten

-------------------------------------------------------------------------------
(***************************************************************************)
(* The specifications.                                                     *)
(***************************************************************************)

(* The row of a document is USED, or ENQUEUED by a removal that failed       *)
(* further on.                                                               *)
Begin(r) ==
  /\ nextId <= MaxId
  /\ \/ \E c \in Councils, n \in Number : BeginCreate(r, c, n)
     \/ \E c \in Councils, g \in Ranges : BeginReserve(r, c, g)
     \/ \E x \in rows : x.state # "RESERVED" /\ BeginDocumentRemoved(r, x)

(* The server runs the handler of r up to its next await.                    *)
Serve(r) ==
  \/ CheckNext(r) \/ ReadBook(r) \/ ReadOwn(r) \/ ReadAvailable(r)
  \/ SaveUsed(r) \/ InsertReserved(r) \/ InsertUsed(r)
  \/ ReserveReadBook(r) \/ ReserveCheckLast(r) \/ ReserveCheckNext(r)
  \/ FindBelow(r) \/ ReadBelow(r) \/ MoveBelow(r)
  \/ FindAbove(r) \/ ReadAbove(r) \/ MoveAbove(r)
  \/ Enqueue(r) \/ Return(r)

(* Everything but the deletion of rows.                                      *)
Keep ==
  \/ \E r \in Requests : Begin(r) \/ Serve(r)
  \/ \E c \in Closable : SetActive(c)
  \/ Restart

Next == Keep \/ \E x \in rows : Remove(x)

KeepSpec == Init /\ [][Keep]_vars
Spec == Init /\ [][Next]_vars

-------------------------------------------------------------------------------
(***************************************************************************)
(* Properties that hold whatever the interleaving.                         *)
(***************************************************************************)

(* As long as no row is deleted, the numbers of a book run from 1 without a  *)
(* gap, whichever handlers interleave and wherever the process restarts: a   *)
(* range is filled upwards from a number read as the end of the book.        *)
NoGaps ==
  \A m \in Modules : \A n \in Numbers(m) : 1 .. n \subseteq Numbers(m)

(* A number never leaves the book of its council's module, although the      *)
(* neighbour asked to give numbers is looked up in all the books.            *)
BookOfCouncil == \A x \in rows : x.book = ModuleOf[x.council]

-------------------------------------------------------------------------------
(***************************************************************************)
(* Properties of requests served one at a time.                            *)
(***************************************************************************)

(* No two rows of a book carry the same number, so no two documents can.     *)
UniqueNumbers ==
  \A x, y \in rows : x.book = y.book /\ x.number = y.number => x.id = y.id

(* A number in use stays with its council: only the removal of its document  *)
(* takes it out of use, and no extension of a range takes it away.           *)
UsedStays ==
  [][\A x \in rows : x.state = "USED" =>
       \/ x \notin rows' /\ rows' = rows \ {x}
       \/ \E y \in rows' : /\ y.id = x.id /\ y.number = x.number
                           /\ y.council = x.council
                           /\ \/ y.state = "USED"
                              \/ \E r \in Requests : pc[r] = "enqueue"]_vars

(* The number the service suggests to a council (getNumerationByCouncil) is  *)
(* one that create then accepts, if the council has a president.             *)
SuggestionAccepted ==
  \A r \in Requests :
    /\ pc[r] = "done" /\ req[r].op = "create"
    /\ req[r].council \in Presided
    /\ reply[r] # "ok"
    => ~ Suggests(req[r].council, req[r].number)

(* A council listed by getCouncilsCouldReserveNumeration is never told that  *)
(* it may not reserve.                                                       *)
ListedMayReserve ==
  \A r \in Requests :
    pc[r] = "done" /\ reply[r] = "notLast" => ~ CouldReserve(req[r].council)

(* What the service suggests or lists it then accepts.                       *)
AdviceHolds == SuggestionAccepted /\ ListedMayReserve

(* The range that getAvailableExtensionNumeration offers above a council's   *)
(* numbers is one that reserveNumeration grants: while all the councils are  *)
(* open, a refusal is never decided while the range asked for is on offer.   *)
OfferGranted ==
  [][\A r \in Requests :
       /\ pc[r] # "done" /\ pc'[r] = "done"
       /\ req[r].op = "reserve" /\ req[r].ext /\ req[r].start = NoNumber
       /\ reply'[r] # "ok"
       /\ \A c \in Councils : active[c]
       => ~ OffersUpTo(req[r].council, req[r].end)]_vars
===============================================================================

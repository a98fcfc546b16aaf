---------------------------- MODULE DocumentsProofs ----------------------------
(***************************************************************************)
(* What holds of Numeration and of Documents, which goes on from it, for   *)
(* every number of requests, councils, modules and documents and every     *)
(* bound.                                                                  *)
(*                                                                         *)
(* Part 1, the numbering, with the invariants of NumerationInv: first what *)
(* holds whatever interleaves, then what holds of requests served one at a *)
(* time: no number is given twice, a number in use stays, what the service *)
(* advises it accepts and what it offers it grants, and it implements      *)
(* NumerationBook.  All of the latter rests on SeenInv: what the only      *)
(* handler has read is still in the table.                                 *)
(*                                                                         *)
(* Part 2, the documents: a handler of a document goes through the         *)
(* numbering's own steps, so that part 1 is used step by step; what is new *)
(* is the deletion of a row and the reading of any row.  MakingInv holds   *)
(* whatever interleaves and fails; OneInv, of requests served one at a     *)
(* time, says where in a creation or a removal the tables and Drive do not *)
(* agree.                                                                  *)
(***************************************************************************)
EXTENDS Documents, NumerationInv, NumerationRefinement, Sequences,
        FiniteSetTheorems, SequenceTheorems, WellFoundedInduction, TLAPS

-------------------------------------------------------------------------------
(***************************************************************************)
(* Sets of numbers.                                                        *)
(***************************************************************************)

(* Every set of numbers has a least one.                                     *)
LEMMA LeastOf ==
  ASSUME NEW T \in SUBSET Nat, T # {}
  PROVE  \E x \in T : \A y \in T : x <= y
<1> DEFINE R == OpToRel(<, Nat)
<1>1. IsWellFoundedOn(R, Nat)
  BY NatLessThanWellFounded
<1>2. PICK x \in T : \A y \in T : ~ (<<y, x>> \in R)
  <2> HIDE DEF R
  <2> QED
    BY <1>1, WFMin
<1>3. \A y \in T : ~ (y < x)
  BY <1>2 DEF OpToRel
<1> QED
  BY <1>3

(* A bounded set of numbers has a greatest one.                              *)
LEMMA GreatestOf ==
  ASSUME NEW T \in SUBSET Nat, T # {}, NEW bound \in Nat, \A x \in T : x <= bound
  PROVE  \E x \in T : \A y \in T : y <= x
<1> DEFINE D == {d \in 0..bound : bound - d \in T}
<1>1. D \in SUBSET Nat /\ D # {}
  <2>1. PICK x \in T : TRUE
    OBVIOUS
  <2>2. x \in Nat /\ x <= bound
    BY <2>1
  <2>3. bound - x \in 0..bound /\ bound - (bound - x) = x
    BY <2>2
  <2>4. bound - x \in D
    BY <2>1, <2>3
  <2>5. D \subseteq Nat
    OBVIOUS
  <2> QED
    BY <2>4, <2>5
<1>2. PICK d \in D : \A e \in D : d <= e
  BY <1>1, LeastOf
<1>3. ASSUME NEW y \in T
      PROVE  bound - d >= y
  <2>1. bound - y \in 0..bound /\ bound - (bound - y) = y
    OBVIOUS
  <2>2. d <= bound - y
    BY <1>2, <2>1
  <2> QED
    BY <1>2, <2>1, <2>2
<1>4. \E x \in T : \A y \in T : x >= y
  BY <1>2, <1>3
<1> QED
  BY <1>4

-------------------------------------------------------------------------------
(***************************************************************************)
(* Part 1: the numbering of documents.                                     *)
(***************************************************************************)

(* The variables of the handlers have their types.                           *)
ControlTypeOK ==
  /\ pc \in [Requests -> Location]
  /\ req \in [Requests -> Request]
  /\ view \in [Requests -> View]
  /\ reply \in [Requests -> Status]

(* The table has its type.                                                   *)
TableTypeOK ==
  /\ rows \subseteq Row
  /\ nextId \in Nat
  /\ active \in [Councils -> BOOLEAN]

-------------------------------------------------------------------------------
(***************************************************************************)
(* The ways a handler moves on keep the types.                             *)
(***************************************************************************)

(* A handler that goes on to an await that fits it keeps TypeInv.            *)
LEMMA GoOnTyped ==
  ASSUME TypeInv, NEW r \in Requests, NEW to \in Location, NEW v \in View,
         GoOn(r, to, v), Fits(req[r], to, v)
  PROVE  ControlTypeOK' /\ AwaitInv'
  BY DEF TypeInv, TypeOK, AwaitInv, Fits, GoOn, ControlTypeOK

(* What an idle handler has read is of its type.                            *)
LEMMA NothingReadTyped ==
  /\ NothingRead \in View
  /\ NothingRead.hi = NoNumber /\ NothingRead.snap = {}
  BY NumerationAssumption DEF NothingRead, View, Number, NoNumber

(* A handler that is done keeps TypeInv.                                    *)
LEMMA FinishTyped ==
  ASSUME TypeInv, NEW r \in Requests, NEW status \in Status,
         Finish(r, status)
  PROVE  ControlTypeOK' /\ AwaitInv'
  BY NothingReadTyped
  DEF TypeInv, TypeOK, AwaitInv, Fits, Finish, ControlTypeOK, Location,
      CreateAwaits, ReserveAwaits

(* A step without a write keeps the type of the table.                      *)
LEMMA UnwrittenTyped ==
  ASSUME TypeOK, Unwritten
  PROVE  TableTypeOK'
  BY DEF TypeOK, Unwritten, TableTypeOK

(* So does the insertion of a row that is of its type,                      *)
LEMMA InsertRowTyped ==
  ASSUME TypeOK, NEW n \in Number, NEW state \in NumerationState,
         NEW c \in Councils, InsertRow(n, state, c)
  PROVE  TableTypeOK'
  BY NumerationAssumption DEF TypeOK, InsertRow, TableTypeOK, Row

(* and the save of such rows.                                               *)
LEMMA SaveRowsTyped ==
  ASSUME TypeOK, NEW saved \in SUBSET Row, SaveRows(saved)
  PROVE  TableTypeOK'
  BY DEF TypeOK, SaveRows, TableTypeOK

(* The loop of reserveNumerationRange starts from a number.                  *)
LEMMA ReserveRangeTyped ==
  ASSUME TypeInv, NEW r \in Requests, pc[r] \in ReserveAwaits,
         NEW first \in Nat \ {0}, NEW last \in Number \cup {NoNumber},
         NEW v \in View, ReserveRange(r, first, last, v)
  PROVE  ControlTypeOK' /\ AwaitInv'
<1>1. CASE last = NoNumber \/ first > last
  BY <1>1, FinishTyped DEF ReserveRange, Status, NoNumber, Number
<1>2. CASE last # NoNumber /\ first <= last
  <2> DEFINE w == [v EXCEPT !.cur = first, !.lim = last]
  <2>1. GoOn(r, "range", w)
    BY <1>2, NumerationAssumption DEF ReserveRange, Number, NoNumber
  <2>2. w \in View
    <3>1. last \in 0 .. MaxNumber /\ first \in 0 .. MaxNumber + 1
      BY <1>2, NumerationAssumption DEF Number, NoNumber
    <3> QED
      BY <3>1 DEF View
  <2>3. Fits(req[r], "range", w)
    BY <1>2 DEF TypeInv, AwaitInv, Fits, CreateAwaits, ReserveAwaits, View
  <2>4. "range" \in Location
    BY DEF Location
  <2> QED
    BY <2>1, <2>2, <2>3, <2>4, GoOnTyped
<1> QED
  BY <1>1, <1>2, NumerationAssumption DEF Number, NoNumber

(* What an extension does above its range.                                   *)
LEMMA ExtendUpTyped ==
  ASSUME TypeInv, NEW r \in Requests, pc[r] \in ReserveAwaits,
         NEW v \in View, ExtendUp(r, v)
  PROVE  ControlTypeOK' /\ AwaitInv'
<1>1. ASSUME NEW status \in Status, Finish(r, status)
      PROVE  ControlTypeOK' /\ AwaitInv'
  BY <1>1, FinishTyped
<1>2. ASSUME ReserveRange(r, v.hi + 1, req[r].end, v)
      PROVE  ControlTypeOK' /\ AwaitInv'
  <2>1. v.hi + 1 \in Nat \ {0}
    BY NumerationAssumption DEF View, Number, NoNumber
  <2>2. req[r].end \in Number \cup {NoNumber}
    BY DEF TypeInv, TypeOK, Request
  <2> QED
    BY <1>2, <2>1, <2>2, ReserveRangeTyped
<1>3. ASSUME GoOn(r, "up", v)
      PROVE  ControlTypeOK' /\ AwaitInv'
  <2>1. Fits(req[r], "up", v)
    BY DEF TypeInv, AwaitInv, Fits, CreateAwaits, ReserveAwaits
  <2>2. "up" \in Location
    BY DEF Location
  <2> QED
    BY <1>3, <2>1, <2>2, GoOnTyped
<1> QED
  BY <1>1, <1>2, <1>3 DEF ExtendUp, Status

-------------------------------------------------------------------------------
(***************************************************************************)
(* Every action keeps TypeInv.                                             *)
(***************************************************************************)

(* What the arrival of a request does.                                       *)
LEMMA BeginTyped ==
  ASSUME TypeInv, NEW r \in Requests, Begin(r)
  PROVE  TypeInv'
<1>1. ASSUME NEW c \in Councils, NEW n \in Number, BeginCreate(r, c, n)
      PROVE  TypeInv'
  <2> DEFINE q == [NoRequest EXCEPT !.op = "create", !.council = c,
                                    !.number = n]
  <2>1. q \in Request /\ q.op = "create" /\ q.council = c /\ q.number = n
    BY NumerationAssumption DEF Request, NoRequest, Number, NoNumber
  <2>2. req' = [req EXCEPT ![r] = q] /\ view' = view /\ Unwritten
    BY <1>1 DEF BeginCreate
  <2>3. \/ pc' = [pc EXCEPT ![r] = "done"] /\ reply' = [reply EXCEPT ![r] = "inUse"]
        \/ pc' = [pc EXCEPT ![r] = "next"] /\ reply' = reply
    BY <1>1 DEF BeginCreate
  <2>4. TypeOK'
    BY <2>1, <2>2, <2>3
    DEF TypeInv, TypeOK, Unwritten, Location, Status
  <2>5. AwaitInv'
    <3>1. ASSUME NEW s \in Requests, s # r
          PROVE  pc'[s] = pc[s] /\ req'[s] = req[s] /\ view'[s] = view[s]
      BY <2>2, <2>3, <3>1 DEF TypeInv, TypeOK
    <3>2. view[r].hi = NoNumber
      BY <1>1 DEF BeginCreate, TypeInv, AwaitInv, Fits
    <3>3. Fits(req'[r], pc'[r], view'[r])
      BY <2>1, <2>2, <2>3, <3>2
      DEF TypeInv, TypeOK, Fits, CreateAwaits, ReserveAwaits
    <3> QED
      BY <3>1, <3>3 DEF TypeInv, AwaitInv
  <2> QED
    BY <2>4, <2>5 DEF TypeInv
<1>2. ASSUME NEW c \in Councils, NEW g \in Ranges, BeginReserve(r, c, g)
      PROVE  TypeInv'
  <2> DEFINE q == [NoRequest EXCEPT !.op = "reserve", !.council = c,
                      !.start = g.start, !.end = g.end, !.ext = g.ext]
  <2>1. q \in Request /\ q.op = "reserve" /\ q.council = c
    <3>1. g \in [start : 0 .. MaxNumber, end : 0 .. MaxNumber, ext : BOOLEAN]
      BY NumerationAssumption
    <3>2. /\ g.start \in Number \cup {NoNumber}
          /\ g.end \in Number \cup {NoNumber}
          /\ g.ext \in BOOLEAN
      BY <3>1, NumerationAssumption DEF Number, NoNumber
    <3> QED
      BY <3>2 DEF Request, NoRequest
  <2>2. /\ req' = [req EXCEPT ![r] = q] /\ pc' = [pc EXCEPT ![r] = "reserveBook"]
        /\ reply' = reply /\ Unwritten
    BY <1>2 DEF BeginReserve
  <2>3. view' \in [Requests -> View]
    <3>1. CASE view' = view
      BY <3>1 DEF TypeInv, TypeOK
    <3>2. ASSUME NEW l \in Lowest(Own(c)), NEW h \in Highest(Own(c)),
                 view' = [view EXCEPT ![r].lo = l.number, ![r].hi = h.number]
          PROVE  view' \in [Requests -> View]
      <4>1. l.number \in Number /\ h.number \in Number
        BY DEF TypeInv, TypeOK, Lowest, Highest, Own, Row
      <4>2. [view[r] EXCEPT !.lo = l.number, !.hi = h.number] \in View
        BY <4>1 DEF TypeInv, TypeOK, View
      <4>3. view' = [view EXCEPT ![r] = [view[r] EXCEPT !.lo = l.number,
                                                       !.hi = h.number]]
        BY <3>2 DEF TypeInv, TypeOK
      <4> QED
        BY <4>2, <4>3 DEF TypeInv, TypeOK
    <3> QED
      BY <1>2, <3>1, <3>2 DEF BeginReserve
  <2>4. TypeOK'
    BY <2>1, <2>2, <2>3 DEF TypeInv, TypeOK, Unwritten, Location
  <2>5. AwaitInv'
    <3>1. ASSUME NEW s \in Requests, s # r
          PROVE  pc'[s] = pc[s] /\ req'[s] = req[s] /\ view'[s] = view[s]
      BY <1>2, <2>2, <3>1 DEF TypeInv, TypeOK, BeginReserve
    <3>2. Fits(req'[r], pc'[r], view'[r])
      BY <2>1, <2>2 DEF TypeInv, TypeOK, Fits, CreateAwaits, ReserveAwaits
    <3> QED
      BY <3>1, <3>2 DEF TypeInv, AwaitInv, Fits
  <2> QED
    BY <2>4, <2>5 DEF TypeInv
<1>3. ASSUME NEW x \in rows, BeginDocumentRemoved(r, x)
      PROVE  TypeInv'
  <2>1. [NoRequest EXCEPT !.op = "remove"] \in Request
    BY DEF NoRequest, Request, NoNumber
  <2>2. view' \in [Requests -> View]
    <3>1. view \in [Requests -> View] /\ {x} \in SUBSET Row
      BY DEF TypeInv, TypeOK
    <3>2. [view[r] EXCEPT !.snap = {x}] \in View
      BY <3>1 DEF View
    <3>3. view' = [view EXCEPT ![r] = [view[r] EXCEPT !.snap = {x}]]
      BY <1>3, <3>1 DEF BeginDocumentRemoved
    <3> QED
      BY <3>1, <3>2, <3>3
  <2>3. TypeOK'
    BY <1>3, <2>1, <2>2
    DEF BeginDocumentRemoved, TypeInv, TypeOK, Unwritten, Location
  <2>4. AwaitInv'
    BY <1>3 DEF BeginDocumentRemoved, TypeInv, TypeOK, AwaitInv, Fits,
                CreateAwaits, ReserveAwaits
  <2> QED
    BY <2>3, <2>4 DEF TypeInv
<1> QED
  BY <1>1, <1>2, <1>3 DEF Begin

(* What the server runs up to the next await of a handler.                   *)
LEMMA ServeTyped ==
  ASSUME TypeInv, NEW r \in Requests, Serve(r)
  PROVE  TypeInv'
<1> USE DEF TypeInv
<1>0. /\ req[r] \in Request /\ view[r] \in View /\ Fits(req[r], pc[r], view[r])
      /\ view[r].snap \in SUBSET Row
  BY DEF TypeOK, AwaitInv, View
<1>a. ASSUME TableTypeOK', ControlTypeOK' /\ AwaitInv'
      PROVE  TypeInv'
  BY <1>a DEF TypeOK, TableTypeOK, ControlTypeOK
<1>b. ASSUME NEW status \in Status, Finish(r, status)
      PROVE  ControlTypeOK' /\ AwaitInv'
  BY <1>b, FinishTyped
<1>c. ASSUME NEW to \in Location, NEW v \in View, GoOn(r, to, v),
             Fits(req[r], to, v)
      PROVE  ControlTypeOK' /\ AwaitInv'
  BY <1>c, GoOnTyped
<1>d. Unwritten => TableTypeOK'
  BY UnwrittenTyped
<1>e. ASSUME NEW to \in CreateAwaits, pc[r] \in CreateAwaits, NEW v
      PROVE  to \in Location /\ Fits(req[r], to, v)
  BY <1>0, <1>e DEF Fits, CreateAwaits, ReserveAwaits, Location
<1>f. ASSUME NEW to \in ReserveAwaits, pc[r] \in ReserveAwaits, NEW v
      PROVE  to \in Location /\ Fits(req[r], to, v)
  BY <1>0, <1>f DEF Fits, CreateAwaits, ReserveAwaits, Location
<1>g. ASSUME pc[r] \in CreateAwaits, NEW v \in View, 1 <= v.cur,
             v.cur <= v.lim, req[r].number = v.lim + 1, GoOn(r, "range", v)
      PROVE  ControlTypeOK' /\ AwaitInv'
  <2>1. Fits(req[r], "range", v)
    BY <1>0, <1>g DEF Fits, CreateAwaits, ReserveAwaits
  <2> QED
    BY <1>c, <1>g, <2>1 DEF Location
<1>1. CASE CheckNext(r)
  BY <1>0, <1>1, <1>a, <1>b, <1>c, <1>d, <1>e
  DEF CheckNext, CreateAwaits, Status
<1>2. CASE ReadBook(r)
  <2>0. pc[r] \in CreateAwaits /\ req[r].number \in Number /\ Unwritten
    BY <1>0, <1>2 DEF ReadBook, Fits, CreateAwaits
  <2>1. ASSUME req[r].number > 1,
               GoOn(r, "range", [view[r] EXCEPT !.cur = 1,
                                               !.lim = req[r].number - 1])
        PROVE  ControlTypeOK' /\ AwaitInv'
    <3> DEFINE v == [view[r] EXCEPT !.cur = 1, !.lim = req[r].number - 1]
    <3>1. /\ req[r].number \in Nat /\ req[r].number - 1 \in 0 .. MaxNumber
          /\ 1 \in 0 .. MaxNumber + 1
      BY <2>0, <2>1, NumerationAssumption DEF Number
    <3>2. v \in View /\ v.cur = 1 /\ v.lim = req[r].number - 1
      BY <1>0, <3>1 DEF View
    <3>3. v.cur <= v.lim /\ 1 <= v.cur /\ req[r].number = v.lim + 1
      BY <2>1, <3>1, <3>2
    <3> HIDE DEF v
    <3> QED
      BY <1>g, <2>0, <2>1, <3>2, <3>3 DEF v
  <2>2. ASSUME NEW t \in Highest(InBook(ModuleOf[req[r].council])),
               GoOn(r, "own", [view[r] EXCEPT !.top = t.number,
                                             !.topCouncil = t.council])
        PROVE  ControlTypeOK' /\ AwaitInv'
    <3>1. t.number \in Number /\ t.council \in Councils
      BY DEF TypeOK, Highest, InBook, Row
    <3>2. [view[r] EXCEPT !.top = t.number, !.topCouncil = t.council] \in View
      BY <1>0, <3>1 DEF View
    <3> QED
      BY <1>c, <1>e, <2>0, <2>2, <3>2 DEF CreateAwaits
  <2>3. GoOn(r, "insert", view[r]) => ControlTypeOK' /\ AwaitInv'
    BY <1>0, <1>c, <1>e, <2>0 DEF CreateAwaits
  <2> QED
    BY <1>2, <1>a, <1>d, <2>0, <2>1, <2>2, <2>3 DEF ReadBook
<1>h. ASSUME pc[r] = "own", AppendTo(r), req[r].number > view[r].top
      PROVE  ControlTypeOK' /\ AwaitInv'
  <2>0. pc[r] \in CreateAwaits /\ req[r].number \in Number
    BY <1>0, <1>h DEF Fits, CreateAwaits
  <2>1. CASE req[r].number > view[r].top + 1
    <3> DEFINE v == [view[r] EXCEPT !.cur = view[r].top + 1,
                                    !.lim = req[r].number - 1]
    <3>1. /\ req[r].number \in Nat /\ req[r].number - 1 \in 0 .. MaxNumber
          /\ view[r].top \in Nat /\ view[r].top + 1 \in 0 .. MaxNumber + 1
      BY <1>0, <2>0, <2>1, NumerationAssumption DEF View, Number, NoNumber
    <3>2. /\ v \in View /\ v.cur = view[r].top + 1
          /\ v.lim = req[r].number - 1
      BY <1>0, <3>1 DEF View
    <3>3. v.cur <= v.lim /\ 1 <= v.cur /\ req[r].number = v.lim + 1
      BY <2>1, <3>1, <3>2
    <3>4. GoOn(r, "range", v)
      BY <1>h, <2>1 DEF AppendTo
    <3> QED
      BY <1>g, <2>0, <3>2, <3>3, <3>4
  <2>2. CASE ~ req[r].number > view[r].top + 1
    BY <1>0, <1>c, <1>e, <1>h, <2>0, <2>2 DEF AppendTo, CreateAwaits
  <2> QED
    BY <2>1, <2>2
<1>3. CASE ReadOwn(r)
  <2>1. /\ pc[r] = "own" /\ pc[r] \in CreateAwaits /\ Unwritten
        /\ req[r].number \in Nat /\ view[r].top \in Nat
    BY <1>0, <1>3, NumerationAssumption
    DEF ReadOwn, CreateAwaits, View, Request, Number, NoNumber
  <2>2. \/ \E status \in Status : Finish(r, status)
        \/ AppendTo(r) /\ req[r].number > view[r].top
        \/ GoOn(r, "available", view[r])
    BY <1>3, <2>1 DEF ReadOwn, Status
  <2>3. ControlTypeOK' /\ AwaitInv'
    BY <1>0, <1>b, <1>c, <1>e, <1>h, <2>1, <2>2 DEF CreateAwaits
  <2> QED
    BY <1>a, <1>d, <2>1, <2>3
<1>4. CASE ReadAvailable(r)
  <2>1. pc[r] \in CreateAwaits /\ Unwritten
    BY <1>4 DEF ReadAvailable, CreateAwaits
  <2>2. \/ \E status \in Status : Finish(r, status)
        \/ \E x \in rows : GoOn(r, "save", [view[r] EXCEPT !.snap = {x}])
    BY <1>4 DEF ReadAvailable, Status
  <2>3. ASSUME NEW x \in rows PROVE [view[r] EXCEPT !.snap = {x}] \in View
    BY <1>0 DEF TypeOK, View
  <2>4. ControlTypeOK' /\ AwaitInv'
    BY <1>b, <1>c, <1>e, <2>1, <2>2, <2>3 DEF CreateAwaits
  <2> QED
    BY <1>a, <1>d, <2>1, <2>4
<1>5. CASE SaveUsed(r)
  <2>1. {[x EXCEPT !.state = "USED"] : x \in view[r].snap} \in SUBSET Row
    BY <1>0 DEF Row, NumerationState
  <2>2. Finish(r, "ok") /\ "ok" \in Status
    BY <1>5 DEF SaveUsed, Status
  <2> QED
    BY <1>5, <1>a, <1>b, <2>1, <2>2, SaveRowsTyped DEF SaveUsed
<1>i. rows' \in SUBSET Row /\ nextId' \in Nat /\ UNCHANGED active => TableTypeOK'
  BY DEF TypeOK, TableTypeOK
<1>6. CASE InsertReserved(r)
  <2> DEFINE v == view[r]
  <2>1. /\ pc[r] = "range" /\ InsertRow(v.cur, "RESERVED", req[r].council)
        /\ req[r].council \in Councils /\ v.cur \in Number /\ v.lim \in Number
        /\ v.cur <= v.lim
    BY <1>0, <1>6, NumerationAssumption DEF InsertReserved, Fits, View, Number
  <2>2. TableTypeOK'
    BY <2>1, InsertRowTyped DEF NumerationState
  <2>3. ASSUME v.cur < v.lim, GoOn(r, "range", [v EXCEPT !.cur = v.cur + 1])
        PROVE  ControlTypeOK' /\ AwaitInv'
    <3> DEFINE w == [v EXCEPT !.cur = v.cur + 1]
    <3>1. /\ w \in View /\ w.cur = v.cur + 1 /\ w.lim = v.lim
          /\ v.cur \in Nat /\ v.lim \in Nat
      BY <1>0, <2>1, NumerationAssumption DEF View, Number
    <3>2. Fits(req[r], "range", w)
      BY <1>0, <2>1, <2>3, <3>1 DEF Fits, CreateAwaits, ReserveAwaits
    <3> QED
      BY <1>c, <2>3, <3>1, <3>2 DEF Location
  <2>4. ASSUME req[r].op = "create", GoOn(r, "insert", NothingRead)
        PROVE  ControlTypeOK' /\ AwaitInv'
    <3>1. req[r].number \in Number
      BY <1>0, <2>1, <2>4, NumerationAssumption
      DEF Fits, Request, Number, NoNumber
    <3>2. Fits(req[r], "insert", NothingRead)
      BY <1>0, <2>1, <2>4, <3>1 DEF Fits, CreateAwaits, ReserveAwaits
    <3> QED
      BY <1>c, <2>4, <3>2, NothingReadTyped DEF Location
  <2> QED
    BY <1>6, <1>a, <1>b, <2>2, <2>3, <2>4 DEF InsertReserved, Status
<1>7. CASE InsertUsed(r)
  <2>1. req[r].council \in Councils /\ req[r].number \in Number
    BY <1>0, <1>7 DEF InsertUsed, Fits, CreateAwaits
  <2>2. TableTypeOK'
    BY <1>7, <2>1, InsertRowTyped DEF InsertUsed, NumerationState
  <2> QED
    BY <1>7, <1>a, <1>b, <2>2 DEF InsertUsed, Status
<1>8. CASE ReserveReadBook(r)
  <2>0. pc[r] \in ReserveAwaits /\ Unwritten
    BY <1>8 DEF ReserveReadBook, ReserveAwaits
  <2>1. ASSUME NEW v \in View,
               \/ GoOn(r, "reserveLast", v) \/ Finish(r, "noRows")
               \/ GoOn(r, "down", v) \/ ExtendUp(r, v)
        PROVE  ControlTypeOK' /\ AwaitInv'
    BY <1>b, <1>c, <1>f, <2>0, <2>1, ExtendUpTyped DEF ReserveAwaits, Status
  <2>2. ASSUME NEW t \in Highest(InBook(ModuleOf[req[r].council]))
        PROVE  [view[r] EXCEPT !.top = t.number, !.topCouncil = t.council]
                 \in View
    <3>1. t.number \in Number /\ t.council \in Councils
      BY DEF TypeOK, Highest, InBook, Row
    <3> QED
      BY <1>0, <3>1 DEF View
  <2> QED
    BY <1>8, <1>0, <1>a, <1>d, <2>0, <2>1, <2>2 DEF ReserveReadBook
<1>9. CASE ReserveCheckLast(r)
  <2>1. pc[r] \in ReserveAwaits /\ Unwritten
    BY <1>9 DEF ReserveCheckLast, ReserveAwaits
  <2>2. \/ \E status \in Status : Finish(r, status)
        \/ GoOn(r, "reserveNext", view[r])
    BY <1>9 DEF ReserveCheckLast, Status
  <2> QED
    BY <1>0, <1>a, <1>b, <1>c, <1>d, <1>f, <2>1, <2>2 DEF ReserveAwaits
<1>10. CASE ReserveCheckNext(r)
  <2>1. /\ pc[r] \in ReserveAwaits /\ Unwritten
        /\ req[r].end \in Number \cup {NoNumber}
    BY <1>0, <1>10 DEF ReserveCheckNext, ReserveAwaits, Request
  <2>2. ASSUME NEW first, IsNext(ModuleOf[req[r].council], first)
        PROVE  first \in Nat \ {0}
    <3>1. \A t \in rows : t.number \in Nat
      BY NumerationAssumption DEF TypeOK, Row, Number
    <3> QED
      BY <2>2, <3>1 DEF IsNext, Highest, InBook
  <2>3. \/ Finish(r, "notNext")
        \/ \E first : /\ IsNext(ModuleOf[req[r].council], first)
                      /\ ReserveRange(r, first, req[r].end, view[r])
    BY <1>10 DEF ReserveCheckNext
  <2>4. ControlTypeOK' /\ AwaitInv'
    BY <1>0, <1>b, <2>1, <2>2, <2>3, ReserveRangeTyped DEF Status
  <2> QED
    BY <1>a, <1>d, <2>1, <2>4
<1>j. ASSUME NEW x \in rows, x.council \in Councils
      PROVE  [view[r] EXCEPT !.donor = x.council] \in View
  BY <1>0, <1>j DEF View
<1>k. ASSUME NEW moved \in SUBSET rows
      PROVE  [view[r] EXCEPT !.snap = moved] \in View
  BY <1>0 DEF TypeOK, View
<1>l. \A x \in rows : x.council \in Councils
  BY DEF TypeOK, Row
<1>11. CASE FindBelow(r)
  <2>1. pc[r] \in ReserveAwaits /\ Unwritten
    BY <1>11 DEF FindBelow, ReserveAwaits
  <2>2. \/ Finish(r, "inUse")
        \/ \E x \in rows :
             GoOn(r, "downRead", [view[r] EXCEPT !.donor = x.council])
    BY <1>11 DEF FindBelow
  <2> QED
    BY <1>a, <1>b, <1>c, <1>d, <1>f, <1>j, <1>l, <2>1, <2>2
    DEF ReserveAwaits, Status
<1>12. CASE ReadBelow(r)
  <2>1. pc[r] \in ReserveAwaits /\ Unwritten
    BY <1>12 DEF ReadBelow, ReserveAwaits
  <2>2. \/ Finish(r, "inUse")
        \/ \E moved \in SUBSET rows :
             GoOn(r, "downMove", [view[r] EXCEPT !.snap = moved])
    BY <1>12 DEF ReadBelow, Giveable
  <2> QED
    BY <1>a, <1>b, <1>c, <1>d, <1>f, <1>k, <2>1, <2>2
    DEF ReserveAwaits, Status
<1>m. ASSUME pc[r] \in Moving PROVE Reassigned(r) \in SUBSET Row
  <2>1. req[r].council \in Councils
    BY <1>0, <1>m DEF Moving, Fits, ReserveAwaits
  <2> QED
    BY <1>0, <2>1 DEF Reassigned, Row, NumerationState
<1>13. CASE MoveBelow(r)
  <2>1. /\ pc[r] \in ReserveAwaits /\ SaveRows(Reassigned(r))
        /\ Reassigned(r) \in SUBSET Row
    BY <1>13, <1>m DEF MoveBelow, ReserveAwaits, Moving
  <2>2. [view[r] EXCEPT !.snap = {}, !.donor = NoCouncil] \in View
    BY <1>0 DEF View
  <2>3. ControlTypeOK' /\ AwaitInv'
    BY <1>13, <2>1, <2>2, ExtendUpTyped DEF MoveBelow
  <2> QED
    BY <1>a, <2>1, <2>3, SaveRowsTyped
<1>14. CASE FindAbove(r)
  <2>1. pc[r] \in ReserveAwaits /\ Unwritten
    BY <1>14 DEF FindAbove, ReserveAwaits
  <2>2. \/ Finish(r, "inUse")
        \/ \E x \in rows :
             GoOn(r, "upRead", [view[r] EXCEPT !.donor = x.council])
    BY <1>14 DEF FindAbove
  <2> QED
    BY <1>a, <1>b, <1>c, <1>d, <1>f, <1>j, <1>l, <2>1, <2>2
    DEF ReserveAwaits, Status
<1>15. CASE ReadAbove(r)
  <2>1. pc[r] \in ReserveAwaits /\ Unwritten
    BY <1>15 DEF ReadAbove, ReserveAwaits
  <2>2. \/ Finish(r, "inUse")
        \/ \E moved \in SUBSET rows :
             GoOn(r, "upMove", [view[r] EXCEPT !.snap = moved])
    BY <1>15 DEF ReadAbove, Giveable
  <2> QED
    BY <1>a, <1>b, <1>c, <1>d, <1>f, <1>k, <2>1, <2>2
    DEF ReserveAwaits, Status
<1>16. CASE MoveAbove(r)
  <2>1. SaveRows(Reassigned(r)) /\ Reassigned(r) \in SUBSET Row
    BY <1>16, <1>m DEF MoveAbove, Moving
  <2> QED
    BY <1>16, <1>a, <1>b, <2>1, SaveRowsTyped DEF MoveAbove, Status
<1>17. CASE Enqueue(r)
  <2>1. ASSUME NEW x \in view[r].snap, NEW y \in rows
        PROVE  {[y EXCEPT !.state = "ENQUEUED", !.number = x.number]}
                 \in SUBSET Row
    BY <1>0 DEF TypeOK, Row, NumerationState
  <2>2. TableTypeOK'
    BY <1>17, <1>d, <2>1, SaveRowsTyped DEF Enqueue
  <2>3. \E status \in Status : Finish(r, status)
    BY <1>17 DEF Enqueue, Status
  <2> QED
    BY <1>a, <1>b, <2>2, <2>3
<1>18. CASE Return(r)
  <2>1. NoRequest \in Request
    BY DEF NoRequest, Request, NoNumber
  <2>2. TypeOK'
    BY <1>18, <2>1 DEF Return, TypeOK, Location, Status
  <2>3. AwaitInv'
    BY <1>18 DEF Return, TypeOK, AwaitInv, Fits, CreateAwaits, ReserveAwaits
  <2> QED
    BY <2>2, <2>3
<1> QED
  BY <1>1, <1>2, <1>3, <1>4, <1>5, <1>6, <1>7, <1>8, <1>9, <1>10, <1>11,
     <1>12, <1>13, <1>14, <1>15, <1>16, <1>17, <1>18 DEF Serve

(* TypeInv is inductive.                                                     *)
LEMMA TypeStep == TypeInv /\ [Next]_vars => TypeInv'
<1> SUFFICES ASSUME TypeInv, [Next]_vars PROVE TypeInv'
  OBVIOUS
<1>1. ASSUME NEW r \in Requests, Begin(r) PROVE TypeInv'
  BY <1>1, BeginTyped
<1>2. ASSUME NEW r \in Requests, Serve(r) PROVE TypeInv'
  BY <1>2, ServeTyped
<1>3. ASSUME NEW c \in Closable, SetActive(c) PROVE TypeInv'
  BY <1>3, NumerationAssumption DEF SetActive, TypeInv, TypeOK, AwaitInv
<1>4. ASSUME Restart PROVE TypeInv'
  <2>1. NoRequest \in Request
    BY DEF NoRequest, Request, NoNumber
  <2> QED
    BY <1>4, <2>1, NothingReadTyped
    DEF Restart, Unwritten, TypeInv, TypeOK, AwaitInv, Fits, CreateAwaits,
        ReserveAwaits, Location, Status
<1>5. ASSUME NEW x \in rows, Remove(x) PROVE TypeInv'
  BY <1>5 DEF Remove, TypeInv, TypeOK, AwaitInv
<1>6. CASE UNCHANGED vars
  BY <1>6 DEF vars, TypeInv, TypeOK, AwaitInv
<1> QED
  BY <1>1, <1>2, <1>3, <1>4, <1>5, <1>6 DEF Next, Keep

(* TypeInv holds at the start.                                              *)
LEMMA TypeInit == Init => TypeInv
<1>1. NoRequest \in Request
  BY DEF NoRequest, Request, NoNumber
<1> QED
  BY <1>1, NothingReadTyped
  DEF Init, TypeInv, TypeOK, AwaitInv, Fits, CreateAwaits, ReserveAwaits,
      Location, Status

(* Every await belongs to one handler and what it has read is of its type,   *)
(* whichever requests interleave.                                            *)
THEOREM AlwaysTyped == Spec => []TypeInv
  BY TypeInit, TypeStep, PTL DEF Spec

(* The types are right in every reachable state: in particular no row gets a *)
(* number beyond those asked for, so every loop over a range ends where it   *)
(* should.                                                                   *)
THEOREM TypeCorrect == Spec => []TypeOK
<1>1. TypeInv => TypeOK
  BY DEF TypeInv
<1> QED
  BY <1>1, AlwaysTyped, PTL

-------------------------------------------------------------------------------
(***************************************************************************)
(* No number leaves the book of its council.                               *)
(***************************************************************************)

(* A handler that goes on with rows of the right book keeps SnapInv.        *)
LEMMA GoOnSnap ==
  ASSUME TypeInv, SnapInv, NEW r \in Requests, NEW to, NEW v,
         GoOn(r, to, v), SnapFits(req[r], to, v)
  PROVE  SnapInv'
  BY DEF TypeInv, TypeOK, SnapInv, SnapFits, GoOn

(* A handler that is done has no rows left to save.                         *)
LEMMA FinishSnap ==
  ASSUME TypeInv, SnapInv, NEW r \in Requests, NEW status, Finish(r, status)
  PROVE  SnapInv'
  BY DEF TypeInv, TypeOK, SnapInv, SnapFits, Finish, NothingRead

(* The loop of reserveNumerationRange and the extension upwards keep what    *)
(* the handler has read.                                                     *)
LEMMA ReserveRangeSnap ==
  ASSUME TypeInv, SnapInv, NEW r \in Requests, NEW first, NEW last,
         NEW v \in View, SnapFits(req[r], "up", v),
         ReserveRange(r, first, last, v)
  PROVE  SnapInv'
<1>1. SnapFits(req[r], "range", [v EXCEPT !.cur = first, !.lim = last])
  BY DEF SnapFits, Moving, View
<1> QED
  BY <1>1, GoOnSnap, FinishSnap DEF ReserveRange

(* The extension above the range takes no rows of its own.                  *)
LEMMA ExtendUpSnap ==
  ASSUME TypeInv, SnapInv, NEW r \in Requests, NEW v \in View,
         SnapFits(req[r], "up", v), ExtendUp(r, v)
  PROVE  SnapInv'
  BY GoOnSnap, FinishSnap, ReserveRangeSnap DEF ExtendUp

(* Rows of the right book may be saved.                                     *)
LEMMA SaveRowsBook ==
  ASSUME BookOfCouncil, NEW saved, SaveRows(saved),
         \A x \in saved : x.book = ModuleOf[x.council]
  PROVE  BookOfCouncil'
  BY DEF BookOfCouncil, SaveRows

(* BookInv is kept by every step.                                           *)
LEMMA BookStep == TypeInv /\ BookInv /\ [Next]_vars => BookInv'
<1> SUFFICES ASSUME TypeInv, BookInv, [Next]_vars PROVE BookInv'
  OBVIOUS
<1> USE DEF BookInv
<1>0. ASSUME NEW r \in Requests
      PROVE  view[r] \in View /\ SnapFits(req[r], pc[r], view[r])
  BY DEF TypeInv, TypeOK, SnapInv
<1>a. Unwritten => BookOfCouncil'
  BY DEF Unwritten, BookOfCouncil
<1>1. ASSUME NEW r \in Requests, Begin(r) PROVE BookInv'
  <2>1. ASSUME NEW c \in Councils, NEW n \in Number, BeginCreate(r, c, n)
        PROVE  BookInv'
    BY <2>1, <1>a
    DEF BeginCreate, SnapInv, SnapFits, TypeInv, TypeOK, Moving
  <2>2. ASSUME NEW c \in Councils, NEW g \in Ranges, BeginReserve(r, c, g)
        PROVE  BookInv'
    <3>1. \A s \in Requests : view'[s].snap = view[s].snap
      <4>1. ASSUME NEW a, NEW b,
                   view' = [view EXCEPT ![r].lo = a, ![r].hi = b]
            PROVE  \A s \in Requests : view'[s].snap = view[s].snap
        <5>1. view' = [view EXCEPT ![r] = [view[r] EXCEPT !.lo = a, !.hi = b]]
          BY <4>1 DEF TypeInv, TypeOK
        <5>2. [view[r] EXCEPT !.lo = a, !.hi = b].snap = view[r].snap
          BY <1>0 DEF View
        <5> QED
          BY <5>1, <5>2 DEF TypeInv, TypeOK
      <4>2. CASE view' = view
        BY <4>2
      <4> QED
        BY <2>2, <4>1, <4>2 DEF BeginReserve
    <3>2. \A s \in Requests : s # r => pc'[s] = pc[s] /\ req'[s] = req[s]
      BY <2>2 DEF BeginReserve, TypeInv, TypeOK
    <3>3. pc[r] \notin Moving /\ pc'[r] \notin Moving
      BY <2>2 DEF BeginReserve, TypeInv, TypeOK, Moving
    <3> QED
      BY <2>2, <1>a, <3>1, <3>2, <3>3 DEF BeginReserve, SnapInv, SnapFits
  <2>3. ASSUME NEW x \in rows, BeginDocumentRemoved(r, x)
        PROVE  BookInv'
    <3>1. \A s \in Requests : s # r =>
             pc'[s] = pc[s] /\ req'[s] = req[s] /\ view'[s] = view[s]
      BY <2>3 DEF BeginDocumentRemoved, TypeInv, TypeOK
    <3>2. view'[r].snap = {x} /\ pc'[r] = "enqueue"
      BY <2>3 DEF BeginDocumentRemoved, TypeInv, TypeOK, View
    <3> QED
      BY <2>3, <1>a, <3>1, <3>2
      DEF BeginDocumentRemoved, SnapInv, SnapFits, BookOfCouncil, Moving
  <2> QED
    BY <1>1, <2>1, <2>2, <2>3 DEF Begin
<1>2. ASSUME NEW r \in Requests, Serve(r) PROVE BookInv'
  <2> DEFINE v == view[r]
             q == req[r]
  <2>0. v \in View /\ SnapFits(q, pc[r], v)
    BY <1>0
  <2>a. ASSUME NEW to, NEW w, to \notin Moving, pc[r] \notin Moving,
               w.snap = v.snap, GoOn(r, to, w)
        PROVE  SnapInv'
    BY <2>0, <2>a, GoOnSnap DEF SnapFits
  <2>b. ASSUME NEW status, Finish(r, status) PROVE SnapInv'
    BY <2>b, FinishSnap
  <2>c. ASSUME NEW w \in View, w.snap = v.snap, pc[r] \notin Moving
        PROVE  SnapFits(q, "up", w)
    BY <2>0, <2>c DEF SnapFits, Moving
  <2>e. ASSUME NEW first, NEW last, pc[r] \notin Moving,
               GoOn(r, "range", [v EXCEPT !.cur = first, !.lim = last])
        PROVE  SnapInv'
    <3> DEFINE w == [v EXCEPT !.cur = first, !.lim = last]
    <3>1. w.snap = v.snap
      BY <2>0 DEF View
    <3>2. GoOn(r, "range", w)
      BY <2>e
    <3> HIDE DEF w
    <3> QED
      BY <2>a, <2>e, <3>1, <3>2 DEF Moving
  <2>f. ASSUME NEW to, to \notin Moving, pc[r] \notin Moving, NEW x,
               GoOn(r, to, [v EXCEPT !.donor = x.council])
        PROVE  SnapInv'
    <3>1. [v EXCEPT !.donor = x.council].snap = v.snap
      BY <2>0 DEF View
    <3> QED
      BY <2>a, <2>f, <3>1
  <2>1. CASE CheckNext(r)
    BY <2>1, <1>a, <2>a, <2>b DEF CheckNext, Moving
  <2>2. CASE ReadBook(r)
    <3>1. pc[r] \notin Moving
      BY <2>2 DEF ReadBook, Moving
    <3>2. ASSUME NEW t,
                 GoOn(r, "own", [v EXCEPT !.top = t.number,
                                          !.topCouncil = t.council])
          PROVE  SnapInv'
      <4> DEFINE w == [v EXCEPT !.top = t.number, !.topCouncil = t.council]
      <4>1. w.snap = v.snap
        BY <2>0 DEF View
      <4>2. GoOn(r, "own", w)
        BY <3>2
      <4> HIDE DEF w
      <4> QED
        BY <2>a, <3>1, <4>1, <4>2 DEF Moving
    <3>3. GoOn(r, "range", [v EXCEPT !.cur = 1, !.lim = q.number - 1])
            => SnapInv'
      BY <2>e, <3>1
    <3>4. GoOn(r, "insert", v) => SnapInv'
      BY <2>a, <3>1 DEF Moving
    <3> QED
      BY <2>2, <1>a, <3>2, <3>3, <3>4 DEF ReadBook
  <2>3. CASE ReadOwn(r)
    <3>1. AppendTo(r) => SnapInv'
      <4>1. pc[r] \notin Moving
        BY <2>3 DEF ReadOwn, Moving
      <4>2. GoOn(r, "range", [v EXCEPT !.cur = v.top + 1, !.lim = q.number - 1])
              => SnapInv'
        BY <2>e, <4>1
      <4>3. GoOn(r, "insert", v) => SnapInv'
        BY <2>a, <4>1 DEF Moving
      <4> QED
        BY <4>2, <4>3 DEF AppendTo
    <3> QED
      BY <2>3, <1>a, <2>a, <2>b, <3>1 DEF ReadOwn, Moving
  <2>4. CASE ReadAvailable(r)
    <3>1. ASSUME NEW x \in rows
          PROVE  SnapFits(q, "save", [v EXCEPT !.snap = {x}])
      BY <2>0 DEF SnapFits, Moving, View, BookOfCouncil
    <3> QED
      BY <2>4, <1>a, <2>b, <3>1, GoOnSnap DEF ReadAvailable
  <2>5. CASE SaveUsed(r)
    <3>1. \A x \in v.snap : x \in Row /\ x.book = ModuleOf[x.council]
      BY <2>0, <2>5 DEF SaveUsed, SnapFits, Moving, View
    <3>2. \A y \in {[x EXCEPT !.state = "USED"] : x \in v.snap} :
             y.book = ModuleOf[y.council]
      BY <3>1 DEF Row
    <3> QED
      BY <2>5, <2>b, <3>2, SaveRowsBook DEF SaveUsed
  <2>6. CASE InsertReserved(r)
    <3>1. BookOfCouncil'
      BY <2>6 DEF InsertReserved, InsertRow, BookOfCouncil
    <3>2. GoOn(r, "insert", NothingRead) => SnapInv'
      BY GoOnSnap DEF SnapFits, NothingRead
    <3> QED
      BY <2>0, <2>6, <2>a, <2>b, <3>1, <3>2 DEF InsertReserved, Moving, View
  <2>7. CASE InsertUsed(r)
    BY <2>7, <2>b DEF InsertUsed, InsertRow, BookOfCouncil
  <2>8. CASE ReserveReadBook(r)
    <3>1. pc[r] \notin Moving
      BY <2>8 DEF ReserveReadBook, Moving
    <3>2. ASSUME NEW w \in View, w.snap = v.snap,
                 \/ GoOn(r, "reserveLast", w) \/ Finish(r, "noRows")
                 \/ GoOn(r, "down", w) \/ ExtendUp(r, w)
          PROVE  SnapInv'
      BY <2>a, <2>b, <2>c, <3>1, <3>2, ExtendUpSnap DEF Moving
    <3>3. ASSUME NEW t \in Highest(InBook(ModuleOf[q.council]))
          PROVE  /\ [v EXCEPT !.top = t.number, !.topCouncil = t.council]
                      \in View
                 /\ [v EXCEPT !.top = t.number, !.topCouncil = t.council].snap
                      = v.snap
      <4>1. t.number \in Number /\ t.council \in Councils
        BY DEF TypeInv, TypeOK, Highest, InBook, Row
      <4> QED
        BY <2>0, <4>1 DEF View
    <3> QED
      BY <2>0, <2>8, <1>a, <3>2, <3>3 DEF ReserveReadBook
  <2>9. CASE ReserveCheckLast(r)
    BY <2>9, <1>a, <2>a, <2>b DEF ReserveCheckLast, Moving
  <2>10. CASE ReserveCheckNext(r)
    <3>1. SnapFits(q, "up", v)
      BY <2>0, <2>10, <2>c DEF ReserveCheckNext, Moving
    <3> QED
      BY <2>0, <2>10, <1>a, <2>b, <3>1, ReserveRangeSnap DEF ReserveCheckNext
  <2>11. CASE FindBelow(r)
    <3>1. pc[r] \notin Moving
      BY <2>11 DEF FindBelow, Moving
    <3>2. ASSUME NEW x, GoOn(r, "downRead", [v EXCEPT !.donor = x.council])
          PROVE  SnapInv'
      BY <2>f, <3>1, <3>2 DEF Moving
    <3> QED
      BY <2>11, <1>a, <2>b, <3>2 DEF FindBelow
  <2>12. CASE ReadBelow(r)
    <3>1. SnapFits(q, "downMove",
                   [v EXCEPT !.snap = Giveable(r, q.start, v.lo - 1)])
      BY <2>0 DEF SnapFits, Moving, View, Giveable
    <3> QED
      BY <2>12, <1>a, <2>b, <3>1, GoOnSnap DEF ReadBelow
  <2>d. ASSUME pc[r] \in Moving, SaveRows(Reassigned(r)) PROVE BookOfCouncil'
    <3>1. \A x \in v.snap : x \in Row /\ x.book = ModuleOf[q.council]
      BY <2>0, <2>d DEF SnapFits, View
    <3>2. \A y \in Reassigned(r) : y.book = ModuleOf[y.council]
      BY <3>1 DEF Reassigned, Row
    <3> QED
      BY <2>d, <3>2, SaveRowsBook
  <2>13. CASE MoveBelow(r)
    <3> DEFINE w == [v EXCEPT !.snap = {}, !.donor = NoCouncil]
    <3>1. w \in View /\ w.snap = {}
      BY <2>0 DEF View
    <3>2. SnapFits(q, "up", w)
      BY <3>1 DEF SnapFits
    <3> QED
      BY <2>13, <2>d, <3>1, <3>2, ExtendUpSnap DEF MoveBelow, Moving
  <2>14. CASE FindAbove(r)
    <3>1. pc[r] \notin Moving
      BY <2>14 DEF FindAbove, Moving
    <3>2. ASSUME NEW x, GoOn(r, "upRead", [v EXCEPT !.donor = x.council])
          PROVE  SnapInv'
      BY <2>f, <3>1, <3>2 DEF Moving
    <3> QED
      BY <2>14, <1>a, <2>b, <3>2 DEF FindAbove
  <2>15. CASE ReadAbove(r)
    <3>1. SnapFits(q, "upMove",
                   [v EXCEPT !.snap = Giveable(r, v.hi + 1, q.end)])
      BY <2>0 DEF SnapFits, Moving, View, Giveable
    <3> QED
      BY <2>15, <1>a, <2>b, <3>1, GoOnSnap DEF ReadAbove
  <2>16. CASE MoveAbove(r)
    BY <2>16, <2>b, <2>d DEF MoveAbove, Moving
  <2>17. CASE Enqueue(r)
    <3>1. ASSUME NEW x \in v.snap, NEW y \in rows,
                 SaveRows({[y EXCEPT !.state = "ENQUEUED",
                                     !.number = x.number]})
          PROVE  BookOfCouncil'
      <4>1. y \in Row /\ y.book = ModuleOf[y.council]
        BY DEF TypeInv, TypeOK, BookOfCouncil
      <4> QED
        BY <3>1, <4>1, SaveRowsBook DEF Row
    <3> QED
      BY <2>17, <1>a, <2>b, <3>1 DEF Enqueue
  <2>18. CASE Return(r)
    BY <2>18 DEF Return, SnapInv, SnapFits, TypeInv, TypeOK, BookOfCouncil,
                 Moving
  <2> QED
    BY <1>2, <2>1, <2>2, <2>3, <2>4, <2>5, <2>6, <2>7, <2>8, <2>9, <2>10,
       <2>11, <2>12, <2>13, <2>14, <2>15, <2>16, <2>17, <2>18 DEF Serve
<1>3. ASSUME NEW c \in Closable, SetActive(c) PROVE BookInv'
  BY <1>3 DEF SetActive, BookOfCouncil, SnapInv, SnapFits
<1>4. ASSUME Restart PROVE BookInv'
  BY <1>4, <1>a DEF Restart, SnapInv, SnapFits, NothingRead
<1>5. ASSUME NEW x \in rows, Remove(x) PROVE BookInv'
  BY <1>5 DEF Remove, BookOfCouncil, SnapInv, SnapFits
<1>6. CASE UNCHANGED vars
  BY <1>6 DEF vars, BookOfCouncil, SnapInv, SnapFits
<1> QED
  BY <1>1, <1>2, <1>3, <1>4, <1>5, <1>6 DEF Next, Keep

(* A number stays in the book of its council's module, whichever requests    *)
(* interleave and whatever rows are deleted: reserveNumeration asks a        *)
(* neighbour of any module, but moves only rows of the council's own book.   *)
THEOREM NumbersStayInTheirBook == Spec => []BookOfCouncil
<1>1. Init => BookInv
  BY DEF Init, BookInv, BookOfCouncil, SnapInv, SnapFits, NothingRead
<1>2. BookInv => BookOfCouncil
  BY DEF BookInv
<1> QED
  BY <1>1, <1>2, TypeInit, TypeStep, BookStep, PTL DEF Spec

-------------------------------------------------------------------------------
(***************************************************************************)
(* What the writes to the table do to its keys and to the numbers of the   *)
(* books.                                                                  *)
(***************************************************************************)

(* Equal keys have equal fields.                                            *)
LEMMA KeyFields ==
  ASSUME NEW x, NEW y, Key(x) = Key(y)
  PROVE  x.id = y.id /\ x.number = y.number /\ x.book = y.book
<1>1. /\ Key(x).id = x.id /\ Key(x).number = x.number /\ Key(x).book = x.book
      /\ Key(y).id = y.id /\ Key(y).number = y.number /\ Key(y).book = y.book
  BY DEF Key
<1> QED
  BY <1>1

(* As long as no key is lost no number is.                                   *)
LEMMA KeysKeepNumbers ==
  ASSUME Keys \subseteq Keys'
  PROVE  \A m : Numbers(m) \subseteq Numbers(m)'
<1> SUFFICES ASSUME NEW m, NEW x \in rows, x.book = m
             PROVE  \E y \in rows' : y.book = m /\ y.number = x.number
  BY DEF Numbers, InBook
<1>1. Key(x) \in Keys'
  BY DEF Keys
<1>2. PICK y \in rows' : Key(y) = Key(x)
  BY <1>1 DEF Keys, Key
<1> QED
  BY <1>2, KeyFields

(* If no key is new, no number is.                                          *)
LEMMA KeysBoundNumbers ==
  ASSUME Keys' \subseteq Keys
  PROVE  \A m : Numbers(m)' \subseteq Numbers(m)
<1> SUFFICES ASSUME NEW m, NEW x \in rows', x.book = m
             PROVE  \E y \in rows : y.book = m /\ y.number = x.number
  BY DEF Numbers, InBook
<1>1. Key(x) \in Keys
  BY DEF Keys, Key
<1>2. PICK y \in rows : Key(y) = Key(x)
  BY <1>1 DEF Keys
<1> QED
  BY <1>2, KeyFields

(* Rows that are read and saved keep their identifiers and numbers.          *)
LEMMA SaveRowsKeys ==
  ASSUME RowsInv, NEW saved, SaveRows(saved),
         \A s, t \in saved : s.id = t.id => s = t,
         \A s \in saved : Key(s) \in Keys
  PROVE  RowsInv' /\ Keys' = Keys
<1>1. rows' = {x \in rows : \A y \in saved : y.id # x.id} \cup saved
      /\ nextId' = nextId
  BY DEF SaveRows
<1>2. ASSUME NEW s \in saved
      PROVE  \E x \in rows : Key(x) = Key(s) /\ x.id = s.id
  <2>1. PICK x \in rows : Key(x) = Key(s)
    BY DEF Keys
  <2> QED
    BY <2>1, KeyFields
<1>3. RowsInv'
  BY <1>1, <1>2 DEF RowsInv
<1>4. ASSUME NEW x \in rows PROVE Key(x) \in Keys'
  <2>1. CASE x \in rows'
    BY <2>1 DEF Keys, Key
  <2>2. CASE x \notin rows'
    <3>1. PICK s \in saved : s.id = x.id
      BY <1>1, <2>2
    <3>2. PICK y \in rows : Key(y) = Key(s) /\ y.id = s.id
      BY <1>2
    <3>3. y = x
      BY <3>1, <3>2 DEF RowsInv
    <3>4. s \in rows'
      BY <1>1
    <3>5. Key(s) \in Keys'
      BY <3>4 DEF Keys, Key
    <3> QED
      BY <3>2, <3>3, <3>5
  <2> QED
    BY <2>1, <2>2
<1>5. ASSUME NEW x \in rows' PROVE Key(x) \in Keys
  BY <1>1 DEF Keys
<1> QED
  BY <1>3, <1>4, <1>5 DEF Keys, Key

(* A row that is inserted has an identifier of its own and adds its number.  *)
LEMMA InsertRowKeys ==
  ASSUME TypeOK, RowsInv, NEW n, NEW state, NEW c, InsertRow(n, state, c)
  PROVE  /\ RowsInv' /\ Keys \subseteq Keys'
         /\ n \in Numbers(ModuleOf[c])'
         /\ \A m : \A k \in Numbers(m)' :
              k \in Numbers(m) \/ (m = ModuleOf[c] /\ k = n)
<1> DEFINE new == [id |-> nextId, number |-> n, state |-> state,
                   council |-> c, book |-> ModuleOf[c]]
<1>1. rows' = rows \cup {new} /\ nextId' = nextId + 1
  BY DEF InsertRow
<1>2. new.id = nextId /\ new.number = n /\ new.book = ModuleOf[c]
  OBVIOUS
<1>3. \A x \in rows : x.id \in Nat /\ x.id < nextId
  BY DEF TypeOK, Row, RowsInv
<1> HIDE DEF new
<1>4. RowsInv'
  BY <1>1, <1>2, <1>3 DEF RowsInv, TypeOK
<1>5. Keys \subseteq Keys'
  BY <1>1 DEF Keys, Key
<1>6. n \in Numbers(ModuleOf[c])'
  BY <1>1, <1>2 DEF Numbers, InBook
<1>7. \A m : \A k \in Numbers(m)' :
         k \in Numbers(m) \/ (m = ModuleOf[c] /\ k = n)
  BY <1>1, <1>2 DEF Numbers, InBook
<1> QED
  BY <1>4, <1>5, <1>6, <1>7

(* A step without a write changes no key.                                   *)
LEMMA UnwrittenKeys ==
  ASSUME RowsInv, Unwritten
  PROVE  RowsInv' /\ Keys' = Keys
  BY DEF RowsInv, Unwritten, Keys

(* The rows found are known by their keys.                                   *)
LEMMA ReadRowsOfTable ==
  ASSUME RowsInv, NEW found \in SUBSET rows, NEW v, v.snap = found
  PROVE  ReadRows(Keys, v)
  BY DEF RowsInv, ReadRows, Keys

-------------------------------------------------------------------------------
(***************************************************************************)
(* The saves of rows read earlier change no key.                           *)
(***************************************************************************)

(* Putting a number to use changes no key,                                  *)
LEMMA SaveUsedKeys ==
  ASSUME TypeInv, RowsInv, ReadInv, NEW r \in Requests, SaveUsed(r)
  PROVE  RowsInv' /\ Keys' = Keys
<1> DEFINE v == view[r]
           Used(x) == [x EXCEPT !.state = "USED"]
           saved == {Used(x) : x \in v.snap}
<1>1. ReadRows(Keys, v) /\ \A x \in v.snap : x \in Row
  BY DEF ReadInv, TypeInv, TypeOK, View
<1>2. ASSUME NEW x \in v.snap PROVE Used(x).id = x.id /\ Key(Used(x)) = Key(x)
  BY <1>1 DEF Row, Key
<1>3. SaveRows(saved)
  BY DEF SaveUsed
<1>4. \A s, t \in saved : s.id = t.id => s = t
  <2> HIDE DEF Used
  <2> SUFFICES ASSUME NEW x \in v.snap, NEW y \in v.snap, x.id = y.id
               PROVE  Used(x) = Used(y)
    BY <1>2
  <2> QED
    BY <1>1 DEF ReadRows
<1>5. \A s \in saved : Key(s) \in Keys
  BY <1>1, <1>2 DEF ReadRows
<1> HIDE DEF saved
<1> QED
  BY <1>3, <1>4, <1>5, SaveRowsKeys

(* nor does giving rows to another council,                                 *)
LEMMA ReassignedKeys ==
  ASSUME TypeInv, RowsInv, ReadInv, NEW r \in Requests, SaveRows(Reassigned(r))
  PROVE  RowsInv' /\ Keys' = Keys
<1> DEFINE v == view[r]
           Moved(x) == [x EXCEPT !.state = "RESERVED",
                                 !.council = req[r].council]
           saved == {Moved(x) : x \in v.snap}
<1>1. ReadRows(Keys, v) /\ \A x \in v.snap : x \in Row
  BY DEF ReadInv, TypeInv, TypeOK, View
<1>2. ASSUME NEW x \in v.snap
      PROVE  Moved(x).id = x.id /\ Key(Moved(x)) = Key(x)
  BY <1>1 DEF Row, Key
<1>3. SaveRows(saved)
  BY DEF Reassigned
<1>4. \A s, t \in saved : s.id = t.id => s = t
  <2> HIDE DEF Moved
  <2> SUFFICES ASSUME NEW x \in v.snap, NEW y \in v.snap, x.id = y.id
               PROVE  Moved(x) = Moved(y)
    BY <1>2
  <2> QED
    BY <1>1 DEF ReadRows
<1>5. \A s \in saved : Key(s) \in Keys
  BY <1>1, <1>2 DEF ReadRows
<1> HIDE DEF saved
<1> QED
  BY <1>3, <1>4, <1>5, SaveRowsKeys

(* nor does the removal of a document.                                      *)
LEMMA EnqueueKeys ==
  ASSUME TypeInv, RowsInv, ReadInv, NEW r \in Requests, Enqueue(r)
  PROVE  RowsInv' /\ Keys' = Keys
<1> DEFINE v == view[r]
<1>1. ReadRows(Keys, v)
  BY DEF ReadInv
<1>2. ASSUME NEW x \in v.snap, NEW y \in rows, y.id = x.id,
             SaveRows({[y EXCEPT !.state = "ENQUEUED", !.number = x.number]})
      PROVE  RowsInv' /\ Keys' = Keys
  <2> DEFINE s == [y EXCEPT !.state = "ENQUEUED", !.number = x.number]
  <2>1. PICK z \in rows : Key(z) = Key(x)
    BY <1>1 DEF ReadRows, Keys
  <2>2. z.id = x.id /\ z.number = x.number
    BY <2>1, KeyFields
  <2>3. z = y
    BY <1>2, <2>2 DEF RowsInv
  <2>4. y \in Row
    BY DEF TypeInv, TypeOK
  <2>5. Key(s) = Key(y)
    BY <2>2, <2>3, <2>4 DEF Row, Key
  <2>6. Key(s) \in Keys
    BY <2>5 DEF Keys
  <2>7. SaveRows({s})
    BY <1>2
  <2> HIDE DEF s
  <2> QED
    BY <2>6, <2>7, SaveRowsKeys
<1> QED
  BY <1>2, UnwrittenKeys DEF Enqueue

-------------------------------------------------------------------------------
(***************************************************************************)
(* The books have no gap.                                                  *)
(***************************************************************************)

(* A step that loses no key, after which the handler of r rests on numbers   *)
(* and rows that are there, keeps what all handlers rest on.                 *)
LEMMA GoOnFilled ==
  ASSUME TypeInv, ReadInv, FilledInv, Keys \subseteq Keys',
         NEW r \in Requests, NEW to, NEW v, GoOn(r, to, v),
         ReadRows(Keys', v),
         NEW m, m = ModuleOf[req[r].council],
         Filled(Numbers(m)', req[r], to, v)
  PROVE  ReadInv' /\ FilledInv'
<1>1. /\ req' = req
      /\ \A s \in Requests : s # r => pc'[s] = pc[s] /\ view'[s] = view[s]
      /\ pc'[r] = to /\ view'[r] = v
  BY DEF GoOn, TypeInv, TypeOK
<1>2. ReadInv'
  BY <1>1 DEF ReadInv, ReadRows
<1>3. ASSUME NEW s \in Requests, s # r, NEW k, k = ModuleOf[req[s].council]
      PROVE  Filled(Numbers(k)', req[s], pc[s], view[s])
  <2>1. Numbers(k) \subseteq Numbers(k)'
    BY KeysKeepNumbers
  <2>2. Filled(Numbers(k), req[s], pc[s], view[s])
    BY <1>3 DEF FilledInv
  <2> QED
    BY <2>1, <2>2 DEF Filled
<1>4. FilledInv'
  <2> SUFFICES ASSUME NEW s \in Requests, NEW k, k = ModuleOf[req[s].council]
               PROVE  Filled(Numbers(k)', req[s], pc'[s], view'[s])
    BY <1>1 DEF FilledInv
  <2> QED
    BY <1>1, <1>3
<1> QED
  BY <1>2, <1>4

(* A handler that is done rests on nothing.                                 *)
LEMMA FinishFilled ==
  ASSUME TypeInv, ReadInv, FilledInv, Keys \subseteq Keys',
         NEW r \in Requests, NEW status, Finish(r, status)
  PROVE  ReadInv' /\ FilledInv'
<1>1. /\ req' = req
      /\ \A s \in Requests : s # r => pc'[s] = pc[s] /\ view'[s] = view[s]
      /\ pc'[r] = "done" /\ view'[r] = NothingRead
  BY DEF Finish, TypeInv, TypeOK
<1>2. ReadInv'
  BY <1>1, NothingReadTyped DEF ReadInv, ReadRows
<1>3. ASSUME NEW s \in Requests, NEW k, k = ModuleOf[req[s].council]
      PROVE  Filled(Numbers(k)', req[s], pc'[s], view'[s])
  <2>1. CASE s = r
    BY <1>1, <2>1 DEF Filled, ReserveAwaits
  <2>2. CASE s # r
    <3>1. Numbers(k) \subseteq Numbers(k)'
      BY KeysKeepNumbers
    <3>2. Filled(Numbers(k), req[s], pc[s], view[s])
      BY <1>3 DEF FilledInv
    <3> QED
      BY <1>1, <2>2, <3>1, <3>2 DEF Filled
  <2> QED
    BY <2>1, <2>2
<1>4. FilledInv'
  <2> SUFFICES ASSUME NEW s \in Requests, NEW k, k = ModuleOf[req[s].council]
               PROVE  Filled(Numbers(k)', req[s], pc'[s], view'[s])
    BY <1>1 DEF FilledInv
  <2> QED
    BY <1>3
<1> QED
  BY <1>2, <1>4

(* A loop over a range starts where the book is complete.                    *)
LEMMA ReserveRangeFilled ==
  ASSUME TypeInv, ReadInv, FilledInv, Keys \subseteq Keys',
         NEW r \in Requests, NEW first, NEW last, NEW v \in View,
         ReadRows(Keys', v), NEW m, m = ModuleOf[req[r].council],
         1 .. first - 1 \subseteq Numbers(m)', ReserveRange(r, first, last, v)
  PROVE  ReadInv' /\ FilledInv'
<1> DEFINE w == [v EXCEPT !.cur = first, !.lim = last]
<1>1. w.snap = v.snap /\ w.cur = first
  BY DEF View
<1> HIDE DEF w
<1>2. ReadRows(Keys', w)
  BY <1>1 DEF ReadRows
<1>3. Filled(Numbers(m)', req[r], "range", w)
  BY <1>1 DEF Filled, ReserveAwaits
<1>4. GoOn(r, "range", w) => ReadInv' /\ FilledInv'
  BY <1>2, <1>3, GoOnFilled
<1>5. GoOn(r, "range", w) \/ \E status : Finish(r, status)
  BY DEF ReserveRange, w
<1> QED
  BY <1>4, <1>5, FinishFilled

(* What an extension does next starts where the book is complete.           *)
LEMMA ExtendUpFilled ==
  ASSUME TypeInv, ReadInv, FilledInv, Keys \subseteq Keys',
         NEW r \in Requests, NEW v \in View, ReadRows(Keys', v),
         NEW m, m = ModuleOf[req[r].council],
         1 .. v.hi \subseteq Numbers(m)', ExtendUp(r, v)
  PROVE  ReadInv' /\ FilledInv'
<1>1. v.hi \in Nat /\ (v.hi + 1) - 1 = v.hi
  BY NumerationAssumption DEF View, Number, NoNumber
<1>2. Filled(Numbers(m)', req[r], "up", v)
  BY DEF Filled
<1>3. \/ \E status : Finish(r, status)
      \/ ReserveRange(r, v.hi + 1, req[r].end, v)
      \/ GoOn(r, "up", v)
  BY DEF ExtendUp
<1>4. ReserveRange(r, v.hi + 1, req[r].end, v) => ReadInv' /\ FilledInv'
  BY <1>1, ReserveRangeFilled
<1> QED
  BY <1>2, <1>3, <1>4, GoOnFilled, FinishFilled

(* Below the next number of a book without gaps the book is complete, and    *)
(* below any number it has.                                                  *)
LEMMA NextFilled ==
  ASSUME TypeInv, NoGaps, NEW c \in Councils, NEW n, IsNext(ModuleOf[c], n)
  PROVE  1 .. n - 1 \subseteq Numbers(ModuleOf[c]) /\ n \in Nat
<1> DEFINE m == ModuleOf[c]
<1>1. CASE n = 1
  BY <1>1
<1>2. ASSUME NEW t \in Highest(InBook(m)), n = t.number + 1
      PROVE  1 .. n - 1 \subseteq Numbers(m) /\ n \in Nat
  <2>1. m \in Modules /\ t.number \in Numbers(m) /\ t.number \in Nat
    BY NumerationAssumption
    DEF TypeInv, TypeOK, Row, Number, Highest, Numbers, InBook
  <2>2. n - 1 = t.number
    BY <1>2, <2>1
  <2> QED
    BY <1>2, <2>1, <2>2 DEF NoGaps
<1> QED
  BY <1>1, <1>2 DEF IsNext

(* A book without gaps is complete below each of its numbers.               *)
LEMMA NumberFilled ==
  ASSUME TypeInv, NoGaps, NEW c \in Councils,
         NEW x \in InBook(ModuleOf[c])
  PROVE  1 .. x.number \subseteq Numbers(ModuleOf[c])
<1>1. ModuleOf[c] \in Modules
  BY NumerationAssumption
<1> QED
  BY <1>1 DEF NoGaps, Numbers, InBook

(* The writes to the table leave no gap.                                     *)
LEMMA SameKeysNoGaps ==
  ASSUME NoGaps, Keys' = Keys
  PROVE  NoGaps'
<1>1. \A m : Numbers(m)' = Numbers(m)
  BY KeysKeepNumbers, KeysBoundNumbers
<1> QED
  BY <1>1 DEF NoGaps

(* Inserting a number below which the book is complete leaves no gap.       *)
LEMMA InsertNoGaps ==
  ASSUME TypeInv, RowsInv, NoGaps, NEW n \in Nat, NEW state, NEW c \in Councils,
         1 .. n - 1 \subseteq Numbers(ModuleOf[c]), InsertRow(n, state, c)
  PROVE  NoGaps'
<1>1. /\ Keys \subseteq Keys' /\ n \in Numbers(ModuleOf[c])'
      /\ \A m : \A k \in Numbers(m)' :
           k \in Numbers(m) \/ (m = ModuleOf[c] /\ k = n)
  BY InsertRowKeys DEF TypeInv
<1>2. \A m : Numbers(m) \subseteq Numbers(m)'
  BY <1>1, KeysKeepNumbers
<1>3. 1 .. n \subseteq Numbers(ModuleOf[c])'
  BY <1>1, <1>2
<1> QED
  BY <1>1, <1>2, <1>3 DEF NoGaps

(* What the arrival of a request leaves.                                     *)
LEMMA BeginGap ==
  ASSUME TypeInv, GapInv, NEW r \in Requests, Begin(r)
  PROVE  GapInv'
<1> USE DEF GapInv, IdInv
<1>0. Unwritten
  BY DEF Begin, BeginCreate, BeginReserve, BeginDocumentRemoved
<1>1. RowsInv' /\ Keys' = Keys /\ NoGaps' /\ \A m : Numbers(m)' = Numbers(m)
  BY <1>0, UnwrittenKeys, SameKeysNoGaps DEF Unwritten, Numbers, InBook
<1>2. ASSUME \A s \in Requests : s # r =>
                pc'[s] = pc[s] /\ req'[s] = req[s] /\ view'[s] = view[s],
             ReadRows(Keys, view'[r]),
             NEW m, m = ModuleOf[req'[r].council],
             Filled(Numbers(m), req'[r], pc'[r], view'[r])
      PROVE  GapInv'
  <2>1. ReadInv'
    BY <1>1, <1>2 DEF ReadInv
  <2>2. ASSUME NEW s \in Requests, NEW k, k = ModuleOf[req'[s].council]
        PROVE  Filled(Numbers(k)', req'[s], pc'[s], view'[s])
    <3>1. CASE s = r
      BY <1>1, <1>2, <2>2, <3>1
    <3>2. CASE s # r
      <4>1. Filled(Numbers(k), req[s], pc[s], view[s])
        BY <1>2, <2>2, <3>2 DEF FilledInv
      <4> QED
        BY <1>1, <1>2, <3>2, <4>1
    <3> QED
      BY <3>1, <3>2
  <2>3. FilledInv'
    BY <2>2 DEF FilledInv
  <2> QED
    BY <1>1, <2>1, <2>3
<1>3. ReadRows(Keys, view[r]) /\ view[r] \in View
  BY DEF ReadInv, TypeInv, TypeOK
<1>4. ASSUME NEW c \in Councils, NEW n \in Number, BeginCreate(r, c, n)
      PROVE  GapInv'
  <2>1. /\ \A s \in Requests : s # r =>
              pc'[s] = pc[s] /\ req'[s] = req[s] /\ view'[s] = view[s]
        /\ view'[r] = view[r] /\ pc'[r] \in {"done", "next"}
    BY <1>4 DEF BeginCreate, TypeInv, TypeOK
  <2>2. ASSUME NEW m PROVE Filled(Numbers(m), req'[r], pc'[r], view'[r])
    BY <2>1 DEF Filled, ReserveAwaits
  <2> QED
    BY <1>2, <1>3, <2>1, <2>2
<1>5. ASSUME NEW c \in Councils, NEW g \in Ranges, BeginReserve(r, c, g)
      PROVE  GapInv'
  <2>1. /\ \A s \in Requests : s # r =>
              pc'[s] = pc[s] /\ req'[s] = req[s] /\ view'[s] = view[s]
        /\ pc'[r] = "reserveBook" /\ req'[r].council = c
    BY <1>5 DEF BeginReserve, TypeInv, TypeOK, NoRequest
  <2>2. view'[r].snap = view[r].snap /\ 1 .. view'[r].hi \subseteq Numbers(ModuleOf[c])
    <3>1. CASE view' = view
      <4>1. view[r].hi = 0
        BY <1>5 DEF BeginReserve, TypeInv, AwaitInv, Fits, NoNumber
      <4> QED
        BY <3>1, <4>1
    <3>2. ASSUME NEW l \in Lowest(Own(c)), NEW h \in Highest(Own(c)),
                 view' = [view EXCEPT ![r].lo = l.number, ![r].hi = h.number]
          PROVE  /\ view'[r].snap = view[r].snap
                 /\ 1 .. view'[r].hi \subseteq Numbers(ModuleOf[c])
      <4>1. view' = [view EXCEPT ![r] = [view[r] EXCEPT !.lo = l.number,
                                                       !.hi = h.number]]
        BY <3>2 DEF TypeInv, TypeOK
      <4>2. view'[r].hi = h.number /\ view'[r].snap = view[r].snap
        BY <1>3, <4>1 DEF View, TypeInv, TypeOK
      <4>3. h \in InBook(ModuleOf[c])
        BY DEF Highest, Own, InBook
      <4> QED
        BY <4>2, <4>3, NumberFilled
    <3> QED
      BY <1>5, <3>1, <3>2 DEF BeginReserve
  <2>3. ReadRows(Keys, view'[r])
    BY <1>3, <2>2 DEF ReadRows
  <2>4. Filled(Numbers(ModuleOf[c]), req'[r], pc'[r], view'[r])
    BY <2>1, <2>2 DEF Filled, ReserveAwaits
  <2> QED
    BY <1>2, <2>1, <2>3, <2>4
<1>6. ASSUME NEW x \in rows, BeginDocumentRemoved(r, x)
      PROVE  GapInv'
  <2>1. /\ \A s \in Requests : s # r =>
              pc'[s] = pc[s] /\ req'[s] = req[s] /\ view'[s] = view[s]
        /\ pc'[r] = "enqueue" /\ view'[r].snap = {x}
    BY <1>6 DEF BeginDocumentRemoved, TypeInv, TypeOK, View
  <2>2. ReadRows(Keys, view'[r])
    BY <2>1, ReadRowsOfTable
  <2>3. ASSUME NEW m PROVE Filled(Numbers(m), req'[r], pc'[r], view'[r])
    BY <2>1 DEF Filled, ReserveAwaits
  <2> QED
    BY <1>2, <2>1, <2>2, <2>3
<1> QED
  BY <1>4, <1>5, <1>6 DEF Begin

(* What the server runs leaves no gap.                                       *)
LEMMA ServeGap ==
  ASSUME TypeInv, GapInv, NEW r \in Requests, Serve(r)
  PROVE  GapInv'
<1> USE DEF GapInv, IdInv
<1> DEFINE v == view[r]
           q == req[r]
<1>0. PICK c : c = q.council
  OBVIOUS
<1> DEFINE m == ModuleOf[c]
<1>z. /\ v \in View /\ q \in Request /\ ReadRows(Keys, v)
      /\ Filled(Numbers(m), q, pc[r], v) /\ Fits(q, pc[r], v)
  BY <1>0 DEF TypeInv, TypeOK, ReadInv, FilledInv, AwaitInv
<1>a. ASSUME Unwritten
      PROVE  RowsInv' /\ Keys' = Keys /\ NoGaps'
  BY <1>a, UnwrittenKeys, SameKeysNoGaps
<1>b. ASSUME Keys \subseteq Keys', NEW status, Finish(r, status)
      PROVE  ReadInv' /\ FilledInv'
  BY <1>b, FinishFilled
<1>c. ASSUME Keys' = Keys PROVE \A k : Numbers(k)' = Numbers(k)
  BY <1>c, KeysKeepNumbers, KeysBoundNumbers
(* The handler goes on with what it has read so far.                         *)
<1>d. ASSUME Keys' = Keys, NEW to, NEW w, GoOn(r, to, w), ReadRows(Keys, w),
             Filled(Numbers(m), q, to, w)
      PROVE  ReadInv' /\ FilledInv'
  <2>1. Filled(Numbers(m)', q, to, w)
    BY <1>c, <1>d
  <2> QED
    BY <1>0, <1>d, <2>1, GoOnFilled
<1>e. ASSUME Keys' = Keys, NEW first, NEW last, ReserveRange(r, first, last, v),
             1 .. first - 1 \subseteq Numbers(m)
      PROVE  ReadInv' /\ FilledInv'
  <2>1. 1 .. first - 1 \subseteq Numbers(m)'
    BY <1>c, <1>e
  <2> QED
    BY <1>0, <1>z, <1>e, <2>1, ReserveRangeFilled
<1>1. CASE CheckNext(r)
  <2>1. q.council \in Councils /\ Unwritten
    BY <1>0, <1>z, <1>1 DEF CheckNext, Fits, CreateAwaits
  <2>2. ASSUME IsNext(ModuleOf[q.council], q.number)
        PROVE  Filled(Numbers(m), q, "insert", v)
    BY <1>0, <2>1, <2>2, NextFilled DEF Filled, ReserveAwaits
  <2>3. Filled(Numbers(m), q, "book", v)
    BY DEF Filled, ReserveAwaits
  <2> QED
    BY <1>0, <1>z, <1>1, <1>a, <1>b, <1>d, <2>1, <2>2, <2>3 DEF CheckNext
<1>2. CASE ReadBook(r)
  <2>1. q.council \in Councils /\ Unwritten
    BY <1>0, <1>z, <1>2 DEF ReadBook, Fits, CreateAwaits
  <2>2. ASSUME GoOn(r, "range", [v EXCEPT !.cur = 1, !.lim = q.number - 1])
        PROVE  ReadInv' /\ FilledInv'
    <3> DEFINE w == [v EXCEPT !.cur = 1, !.lim = q.number - 1]
    <3>1. w.snap = v.snap /\ w.cur = 1
      BY <1>z DEF View
    <3>2. GoOn(r, "range", w)
      BY <2>2
    <3> HIDE DEF w
    <3>3. ReadRows(Keys, w) /\ Filled(Numbers(m), q, "range", w)
      BY <1>0, <1>z, <3>1 DEF ReadRows, Filled, ReserveAwaits
    <3> QED
      BY <1>a, <1>d, <2>1, <3>2, <3>3
  <2>3. ASSUME NEW t \in Highest(InBook(ModuleOf[q.council])),
               GoOn(r, "own", [v EXCEPT !.top = t.number,
                                        !.topCouncil = t.council])
        PROVE  ReadInv' /\ FilledInv'
    <3> DEFINE w == [v EXCEPT !.top = t.number, !.topCouncil = t.council]
    <3>1. w.snap = v.snap /\ w.top = t.number
      BY <1>z DEF View
    <3>2. GoOn(r, "own", w)
      BY <2>3
    <3> HIDE DEF w
    <3>3. 1 .. t.number \subseteq Numbers(m)
      BY <1>0, <2>1, NumberFilled DEF Highest
    <3>4. ReadRows(Keys, w) /\ Filled(Numbers(m), q, "own", w)
      BY <1>0, <1>z, <3>1, <3>3 DEF ReadRows, Filled, ReserveAwaits
    <3> QED
      BY <1>a, <1>d, <2>1, <3>2, <3>4
  <2>4. ASSUME q.number = 1 PROVE Filled(Numbers(m), q, "insert", v)
    BY <2>4 DEF Filled, ReserveAwaits
  <2> QED
    BY <1>0, <1>z, <1>2, <1>a, <1>d, <2>1, <2>2, <2>3, <2>4 DEF ReadBook
<1>3. CASE ReadOwn(r)
  <2>1. pc[r] = "own" /\ Unwritten /\ q.number \in Nat /\ v.top \in Nat
    BY <1>0, <1>z, <1>3, NumerationAssumption
    DEF ReadOwn, Fits, CreateAwaits, View, Number, NoNumber
  <2>2. 1 .. v.top \subseteq Numbers(m)
    BY <1>0, <1>z, <2>1 DEF Filled
  <2>3. ASSUME AppendTo(r) PROVE ReadInv' /\ FilledInv'
    <3>1. CASE q.number > v.top + 1
      <4> DEFINE w == [v EXCEPT !.cur = v.top + 1, !.lim = q.number - 1]
      <4>1. w.snap = v.snap /\ w.cur = v.top + 1 /\ w.cur - 1 = v.top
        BY <1>0, <1>z, <2>1 DEF View
      <4>2. GoOn(r, "range", w)
        BY <2>3, <3>1 DEF AppendTo
      <4> HIDE DEF w
      <4>3. ReadRows(Keys, w) /\ Filled(Numbers(m), q, "range", w)
        BY <1>0, <1>z, <2>2, <4>1 DEF ReadRows, Filled, ReserveAwaits
      <4> QED
        BY <1>a, <1>d, <2>1, <4>2, <4>3
    <3>2. CASE ~ q.number > v.top + 1
      <4>1. 1 .. q.number - 1 \subseteq Numbers(m)
        BY <2>1, <2>2, <3>2
      <4>2. Filled(Numbers(m), q, "insert", v)
        BY <4>1 DEF Filled, ReserveAwaits
      <4> QED
        BY <1>0, <1>z, <1>a, <1>d, <2>1, <2>3, <3>2, <4>2 DEF AppendTo
    <3> QED
      BY <3>1, <3>2
  <2>4. Filled(Numbers(m), q, "available", v)
    BY DEF Filled, ReserveAwaits
  <2> QED
    BY <1>0, <1>z, <1>3, <1>a, <1>b, <1>d, <2>1, <2>3, <2>4 DEF ReadOwn
<1>4. CASE ReadAvailable(r)
  <2>1. ASSUME NEW x \in rows,
               GoOn(r, "save", [v EXCEPT !.snap = {x}]), Unwritten
        PROVE  ReadInv' /\ FilledInv'
    <3> DEFINE w == [v EXCEPT !.snap = {x}]
    <3>1. w.snap = {x}
      BY <1>z DEF View
    <3>2. GoOn(r, "save", w)
      BY <2>1
    <3> HIDE DEF w
    <3>3. ReadRows(Keys, w) /\ Filled(Numbers(m), q, "save", w)
      BY <3>1, ReadRowsOfTable DEF Filled, ReserveAwaits
    <3> QED
      BY <1>a, <1>d, <2>1, <3>2, <3>3
  <2> QED
    BY <1>4, <1>a, <1>b, <2>1 DEF ReadAvailable
<1>5. CASE SaveUsed(r)
  BY <1>5, <1>b, SaveUsedKeys, SameKeysNoGaps DEF SaveUsed
<1>h. ASSUME SaveRows(Reassigned(r))
      PROVE  RowsInv' /\ Keys' = Keys /\ NoGaps'
  BY <1>h, ReassignedKeys, SameKeysNoGaps
<1>6. CASE InsertReserved(r)
  <2>1. /\ pc[r] = "range" /\ InsertRow(v.cur, "RESERVED", c)
        /\ c \in Councils /\ v.cur \in Nat /\ v.lim \in Nat
        /\ v.cur <= v.lim /\ (q.op = "create" => q.number = v.lim + 1)
        /\ 1 .. v.cur - 1 \subseteq Numbers(m)
    BY <1>0, <1>z, <1>6, NumerationAssumption
    DEF InsertReserved, Fits, View, Number, Filled
  <2>2. NoGaps'
    BY <2>1, InsertNoGaps
  <2>3. RowsInv' /\ Keys \subseteq Keys' /\ v.cur \in Numbers(m)'
    BY <2>1, InsertRowKeys DEF TypeInv
  <2>4. 1 .. v.cur \subseteq Numbers(m)'
    <3>1. Numbers(m) \subseteq Numbers(m)'
      BY <2>3, KeysKeepNumbers
    <3> QED
      BY <2>1, <2>3, <3>1
  <2>5. ReadRows(Keys', v)
    BY <1>z, <2>3 DEF ReadRows
  <2>6. ASSUME GoOn(r, "range", [v EXCEPT !.cur = v.cur + 1])
        PROVE  ReadInv' /\ FilledInv'
    <3> DEFINE w == [v EXCEPT !.cur = v.cur + 1]
    <3>1. w.snap = v.snap /\ w.cur - 1 = v.cur
      BY <1>z, <2>1 DEF View
    <3>2. GoOn(r, "range", w)
      BY <2>6
    <3> HIDE DEF w
    <3>3. ReadRows(Keys', w) /\ Filled(Numbers(m)', q, "range", w)
      BY <2>4, <2>5, <3>1 DEF ReadRows, Filled, ReserveAwaits
    <3> QED
      BY <1>0, <2>3, <3>2, <3>3, GoOnFilled
  <2>7. ASSUME q.op = "create", v.cur >= v.lim, GoOn(r, "insert", NothingRead)
        PROVE  ReadInv' /\ FilledInv'
    <3>1. q.number - 1 = v.cur
      BY <2>1, <2>7
    <3>2. Filled(Numbers(m)', q, "insert", NothingRead)
      BY <2>4, <3>1 DEF Filled, ReserveAwaits
    <3>3. ReadRows(Keys', NothingRead)
      BY NothingReadTyped DEF ReadRows
    <3> QED
      BY <1>0, <2>3, <2>7, <3>2, <3>3, GoOnFilled
  <2> QED
    BY <1>6, <1>b, <2>2, <2>3, <2>6, <2>7 DEF InsertReserved
<1>7. CASE InsertUsed(r)
  <2>1. /\ InsertRow(q.number, "USED", c) /\ Finish(r, "ok")
        /\ c \in Councils /\ q.number \in Nat
        /\ 1 .. q.number - 1 \subseteq Numbers(m)
    BY <1>0, <1>z, <1>7, NumerationAssumption
    DEF InsertUsed, Fits, CreateAwaits, Number, Filled
  <2>2. NoGaps' /\ RowsInv' /\ Keys \subseteq Keys'
    BY <2>1, InsertNoGaps, InsertRowKeys DEF TypeInv
  <2> QED
    BY <1>b, <2>1, <2>2
(* The handlers of reserveNumeration: 1 .. v.hi is there.                    *)
<1>i. ASSUME pc[r] \in ReserveAwaits
      PROVE  c \in Councils /\ 1 .. v.hi \subseteq Numbers(m)
  BY <1>0, <1>z, <1>i DEF Filled, Fits
<1>j. ASSUME pc[r] \in ReserveAwaits, NEW to \in ReserveAwaits, NEW w,
             w.hi = v.hi
      PROVE  Filled(Numbers(m), q, to, w)
  BY <1>i, <1>j DEF Filled, ReserveAwaits
<1>k. ASSUME Keys' = Keys, pc[r] \in ReserveAwaits, NEW w \in View,
             w.hi = v.hi, ReadRows(Keys, w), ExtendUp(r, w)
      PROVE  ReadInv' /\ FilledInv'
  <2>1. 1 .. w.hi \subseteq Numbers(m)'
    BY <1>c, <1>i, <1>k
  <2> QED
    BY <1>0, <1>k, <2>1, ExtendUpFilled
<1>8. CASE ReserveReadBook(r)
  <2>0. pc[r] \in ReserveAwaits /\ Unwritten
    BY <1>8 DEF ReserveReadBook, ReserveAwaits
  <2>1. ASSUME NEW w \in View, w.hi = v.hi, w.snap = v.snap,
               \/ GoOn(r, "reserveLast", w) \/ Finish(r, "noRows")
               \/ GoOn(r, "down", w) \/ ExtendUp(r, w)
        PROVE  ReadInv' /\ FilledInv'
    <3>1. ReadRows(Keys, w)
      BY <1>z, <2>1 DEF ReadRows
    <3>2. Filled(Numbers(m), q, "reserveLast", w) /\ Filled(Numbers(m), q, "down", w)
      BY <1>j, <2>0, <2>1 DEF ReserveAwaits
    <3> QED
      BY <1>a, <1>b, <1>d, <1>k, <2>0, <2>1, <3>1, <3>2
  <2>2. ASSUME NEW t \in Highest(InBook(ModuleOf[q.council]))
        PROVE  LET w == [v EXCEPT !.top = t.number, !.topCouncil = t.council]
               IN  w \in View /\ w.hi = v.hi /\ w.snap = v.snap
    <3>1. t.number \in Number /\ t.council \in Councils
      BY DEF TypeInv, TypeOK, Highest, InBook, Row
    <3> QED
      BY <1>z, <3>1 DEF View
  <2> QED
    BY <1>8, <1>z, <1>a, <2>0, <2>1, <2>2 DEF ReserveReadBook
<1>9. CASE ReserveCheckLast(r)
  <2>1. pc[r] \in ReserveAwaits /\ Unwritten
    BY <1>9 DEF ReserveCheckLast, ReserveAwaits
  <2>2. Filled(Numbers(m), q, "reserveNext", v)
    BY <1>j, <2>1 DEF ReserveAwaits
  <2> QED
    BY <1>9, <1>z, <1>a, <1>b, <1>d, <2>1, <2>2 DEF ReserveCheckLast
<1>10. CASE ReserveCheckNext(r)
  <2>1. pc[r] \in ReserveAwaits /\ Unwritten
    BY <1>10 DEF ReserveCheckNext, ReserveAwaits
  <2>2. \/ Finish(r, "notNext")
        \/ \E first : IsNext(m, first) /\ ReserveRange(r, first, q.end, v)
    BY <1>0, <1>10 DEF ReserveCheckNext
  <2> QED
    BY <1>a, <1>b, <1>e, <1>i, <2>1, <2>2, NextFilled
(* Finding the neighbour and its rows changes neither the table nor v.hi.    *)
<1>l. ASSUME pc[r] \in ReserveAwaits, Unwritten, NEW to \in ReserveAwaits,
             NEW x, GoOn(r, to, [v EXCEPT !.donor = x.council])
      PROVE  ReadInv' /\ FilledInv'
  <2> DEFINE w == [v EXCEPT !.donor = x.council]
  <2>1. w.hi = v.hi /\ w.snap = v.snap
    BY <1>z DEF View
  <2>2. GoOn(r, to, w)
    BY <1>l
  <2> HIDE DEF w
  <2>3. ReadRows(Keys, w) /\ Filled(Numbers(m), q, to, w)
    BY <1>z, <1>j, <1>l, <2>1 DEF ReadRows
  <2> QED
    BY <1>a, <1>d, <1>l, <2>2, <2>3
<1>m. ASSUME pc[r] \in ReserveAwaits, Unwritten, NEW to \in ReserveAwaits,
             NEW moved \in SUBSET rows, GoOn(r, to, [v EXCEPT !.snap = moved])
      PROVE  ReadInv' /\ FilledInv'
  <2> DEFINE w == [v EXCEPT !.snap = moved]
  <2>1. w.hi = v.hi /\ w.snap = moved
    BY <1>z DEF View
  <2>2. GoOn(r, to, w)
    BY <1>m
  <2> HIDE DEF w
  <2>3. ReadRows(Keys, w)
    BY <2>1, ReadRowsOfTable
  <2>4. Filled(Numbers(m), q, to, w)
    BY <1>j, <1>m, <2>1
  <2> QED
    BY <1>a, <1>d, <1>m, <2>2, <2>3, <2>4
<1>11. CASE FindBelow(r)
  <2>1. pc[r] \in ReserveAwaits /\ Unwritten
    BY <1>11 DEF FindBelow, ReserveAwaits
  <2>2. \/ Finish(r, "inUse")
        \/ \E x : GoOn(r, "downRead", [v EXCEPT !.donor = x.council])
    BY <1>11 DEF FindBelow
  <2>3. "downRead" \in ReserveAwaits
    BY DEF ReserveAwaits
  <2> QED
    BY <1>a, <1>b, <1>l, <2>1, <2>2, <2>3
<1>12. CASE ReadBelow(r)
  <2>1. pc[r] \in ReserveAwaits /\ Unwritten
    BY <1>12 DEF ReadBelow, ReserveAwaits
  <2>2. \/ Finish(r, "inUse")
        \/ \E moved \in SUBSET rows :
             GoOn(r, "downMove", [v EXCEPT !.snap = moved])
    BY <1>12 DEF ReadBelow, Giveable
  <2>3. "downMove" \in ReserveAwaits
    BY DEF ReserveAwaits
  <2> QED
    BY <1>a, <1>b, <1>m, <2>1, <2>2, <2>3
<1>13. CASE MoveBelow(r)
  <2> DEFINE w == [v EXCEPT !.snap = {}, !.donor = NoCouncil]
  <2>1. pc[r] \in ReserveAwaits /\ SaveRows(Reassigned(r)) /\ ExtendUp(r, w)
    BY <1>13 DEF MoveBelow, ReserveAwaits
  <2>2. w \in View /\ w.hi = v.hi /\ w.snap = {}
    BY <1>z DEF View
  <2> HIDE DEF w
  <2>3. ReadRows(Keys, w)
    BY <2>2 DEF ReadRows
  <2> QED
    BY <1>h, <1>k, <2>1, <2>2, <2>3
<1>14. CASE FindAbove(r)
  <2>1. pc[r] \in ReserveAwaits /\ Unwritten
    BY <1>14 DEF FindAbove, ReserveAwaits
  <2>2. \/ Finish(r, "inUse")
        \/ \E x : GoOn(r, "upRead", [v EXCEPT !.donor = x.council])
    BY <1>14 DEF FindAbove
  <2>3. "upRead" \in ReserveAwaits
    BY DEF ReserveAwaits
  <2> QED
    BY <1>a, <1>b, <1>l, <2>1, <2>2, <2>3
<1>15. CASE ReadAbove(r)
  <2>1. pc[r] \in ReserveAwaits /\ Unwritten
    BY <1>15 DEF ReadAbove, ReserveAwaits
  <2>2. \/ Finish(r, "inUse")
        \/ \E moved \in SUBSET rows :
             GoOn(r, "upMove", [v EXCEPT !.snap = moved])
    BY <1>15 DEF ReadAbove, Giveable
  <2>3. "upMove" \in ReserveAwaits
    BY DEF ReserveAwaits
  <2> QED
    BY <1>a, <1>b, <1>m, <2>1, <2>2, <2>3
<1>16. CASE MoveAbove(r)
  BY <1>16, <1>b, <1>h DEF MoveAbove
<1>17. CASE Enqueue(r)
  <2>1. \E status : Finish(r, status)
    BY <1>17 DEF Enqueue
  <2> QED
    BY <1>17, <1>b, <2>1, EnqueueKeys, SameKeysNoGaps
<1>18. CASE Return(r)
  <2>1. /\ \A s \in Requests : s # r => pc'[s] = pc[s] /\ req'[s] = req[s]
        /\ pc'[r] = "idle" /\ view' = view /\ Unwritten
    BY <1>18 DEF Return, TypeInv, TypeOK, Unwritten
  <2>2. RowsInv' /\ Keys' = Keys /\ NoGaps' /\ \A k : Numbers(k)' = Numbers(k)
    BY <1>a, <1>c, <2>1
  <2>3. ReadInv'
    BY <2>1, <2>2 DEF ReadInv
  <2>4. ASSUME NEW s \in Requests, NEW k, k = ModuleOf[req'[s].council]
        PROVE  Filled(Numbers(k)', req'[s], pc'[s], view'[s])
    <3>1. CASE s = r
      BY <2>1, <3>1 DEF Filled, ReserveAwaits
    <3>2. CASE s # r
      BY <2>1, <2>2, <2>4, <3>2 DEF FilledInv
    <3> QED
      BY <3>1, <3>2
  <2>5. FilledInv'
    BY <2>4 DEF FilledInv
  <2> QED
    BY <2>2, <2>3, <2>5
<1> QED
  BY <1>1, <1>2, <1>3, <1>4, <1>5, <1>6, <1>7, <1>8, <1>9, <1>10, <1>11,
     <1>12, <1>13, <1>14, <1>15, <1>16, <1>17, <1>18 DEF Serve

(* GapInv is kept by every step that deletes no row.                        *)
LEMMA GapStep == TypeInv /\ GapInv /\ [Keep]_vars => GapInv'
<1> SUFFICES ASSUME TypeInv, GapInv, [Keep]_vars PROVE GapInv'
  OBVIOUS
<1>1. ASSUME NEW r \in Requests, Begin(r) PROVE GapInv'
  BY <1>1, BeginGap
<1>2. ASSUME NEW r \in Requests, Serve(r) PROVE GapInv'
  BY <1>2, ServeGap
<1>3. ASSUME NEW c \in Closable, SetActive(c) PROVE GapInv'
  BY <1>3 DEF SetActive, GapInv, IdInv, RowsInv, ReadInv, Keys, NoGaps,
              FilledInv, Numbers, InBook
<1>4. ASSUME Restart PROVE GapInv'
  <2>1. RowsInv' /\ Keys' = Keys /\ NoGaps'
    BY <1>4, UnwrittenKeys, SameKeysNoGaps DEF Restart, GapInv, IdInv
  <2>2. ReadInv'
    BY <1>4, NothingReadTyped DEF Restart, ReadInv, ReadRows
  <2>3. FilledInv'
    BY <1>4 DEF Restart, FilledInv, Filled, ReserveAwaits
  <2> QED
    BY <2>1, <2>2, <2>3 DEF GapInv, IdInv
<1>5. CASE UNCHANGED vars
  BY <1>5 DEF vars, GapInv, IdInv, RowsInv, ReadInv, Keys, NoGaps, FilledInv,
              Numbers, InBook
<1> QED
  BY <1>1, <1>2, <1>3, <1>4, <1>5 DEF Keep

(* As long as no row is deleted the numbers of every book run from 1 without *)
(* a gap, for any number of requests that interleave and wherever the        *)
(* process restarts in the middle of a range.                                *)
THEOREM BooksHaveNoGaps == KeepSpec => []NoGaps
<1>1. Init => GapInv
  <2>1. Init => IdInv
    BY NothingReadTyped DEF Init, IdInv, RowsInv, ReadInv, ReadRows
  <2>2. Init => NoGaps
    BY DEF Init, NoGaps, Numbers, InBook
  <2>3. Init => FilledInv
    BY DEF Init, FilledInv, Filled, ReserveAwaits
  <2> QED
    BY <2>1, <2>2, <2>3 DEF GapInv
<1>2. [Keep]_vars => [Next]_vars
  BY DEF Next
<1>3. GapInv => NoGaps
  BY DEF GapInv
<1> QED
  BY <1>1, <1>2, <1>3, TypeInit, TypeStep, GapStep, PTL DEF KeepSpec

-------------------------------------------------------------------------------
(***************************************************************************)
(* With requests served one at a time no number is given twice.            *)
(***************************************************************************)

(* There is one place for a request.                                         *)
OneAtATime == \A r, s \in Requests : r = s

(* The only handler goes on with something that is still true.              *)
LEMMA GoOnFresh ==
  ASSUME OneAtATime, TypeInv, NEW r \in Requests, NEW to, NEW v,
         GoOn(r, to, v), NEW c, c = req[r].council,
         Fresh(Numbers(ModuleOf[c])', Own(c)', req[r], to, v)
  PROVE  FreshInv'
<1>1. req' = req /\ pc'[r] = to /\ view'[r] = v
  BY DEF GoOn, TypeInv, TypeOK
<1> SUFFICES ASSUME NEW s \in Requests, NEW d, d = req[s].council
             PROVE  Fresh(Numbers(ModuleOf[d])', Own(d)', req[s], pc'[s], view'[s])
  BY <1>1 DEF FreshInv
<1>2. s = r
  BY DEF OneAtATime
<1> QED
  BY <1>1, <1>2

(* When the only handler is done nothing is relied on.                      *)
LEMMA FinishFresh ==
  ASSUME OneAtATime, TypeInv, NEW r \in Requests, NEW status,
         Finish(r, status)
  PROVE  FreshInv'
<1>1. pc'[r] = "done"
  BY DEF Finish, TypeInv, TypeOK
<1> QED
  BY <1>1 DEF FreshInv, Fresh, OneAtATime

(* A loop over a range starts above the book.                               *)
LEMMA ReserveRangeFresh ==
  ASSUME OneAtATime, TypeInv, NEW r \in Requests, NEW first, NEW last,
         NEW v \in View, NEW c, c = req[r].council,
         \A n \in Numbers(ModuleOf[c])' : n < first,
         ReserveRange(r, first, last, v)
  PROVE  FreshInv'
<1> DEFINE w == [v EXCEPT !.cur = first, !.lim = last]
<1>1. w.cur = first
  BY DEF View
<1>2. GoOn(r, "range", w) \/ \E status : Finish(r, status)
  BY DEF ReserveRange
<1> HIDE DEF w
<1>3. Fresh(Numbers(ModuleOf[c])', Own(c)', req[r], "range", w)
  BY <1>1 DEF Fresh
<1> QED
  BY <1>2, <1>3, GoOnFresh, FinishFresh

(* So does the extension past the end of the book.                          *)
LEMMA ExtendUpFresh ==
  ASSUME OneAtATime, TypeInv, NEW r \in Requests, NEW v \in View,
         NEW c, c = req[r].council,
         v.topCouncil = c => \A n \in Numbers(ModuleOf[c])' : n <= v.hi,
         \A n \in Numbers(ModuleOf[c])' : n \in Nat, ExtendUp(r, v)
  PROVE  FreshInv'
<1>1. \/ \E status : Finish(r, status)
      \/ v.topCouncil = c /\ ReserveRange(r, v.hi + 1, req[r].end, v)
      \/ GoOn(r, "up", v)
  BY DEF ExtendUp
<1>2. Fresh(Numbers(ModuleOf[c])', Own(c)', req[r], "up", v)
  BY DEF Fresh
<1>3. v.hi \in Nat
  BY NumerationAssumption DEF View, Number, NoNumber
<1>4. ASSUME v.topCouncil = c PROVE \A n \in Numbers(ModuleOf[c])' : n < v.hi + 1
  BY <1>3, <1>4
<1> QED
  BY <1>1, <1>2, <1>4, GoOnFresh, FinishFresh, ReserveRangeFresh

(* If the keys stay, numbers stay unique.                                   *)
LEMMA SameKeysUnique ==
  ASSUME UniqueNumbers, Keys' = Keys
  PROVE  UniqueNumbers'
<1> SUFFICES ASSUME NEW x \in rows', NEW y \in rows', x.book = y.book,
                    x.number = y.number
             PROVE  x.id = y.id
  BY DEF UniqueNumbers
<1>1. Key(x) \in Keys /\ Key(y) \in Keys
  BY DEF Keys, Key
<1>2. PICK u \in rows : Key(u) = Key(x)
  BY <1>1 DEF Keys
<1>3. PICK w \in rows : Key(w) = Key(y)
  BY <1>1 DEF Keys
<1>4. /\ u.id = x.id /\ u.number = x.number /\ u.book = x.book
      /\ w.id = y.id /\ w.number = y.number /\ w.book = y.book
  BY <1>2, <1>3, KeyFields
<1> QED
  BY <1>4 DEF UniqueNumbers

(* They do when the number inserted is above all others of the book.        *)
LEMMA InsertUnique ==
  ASSUME TypeInv, UniqueNumbers, NEW n \in Nat, NEW state, NEW c,
         \A k \in Numbers(ModuleOf[c]) : k < n, InsertRow(n, state, c)
  PROVE  UniqueNumbers'
<1> DEFINE new == [id |-> nextId, number |-> n, state |-> state,
                   council |-> c, book |-> ModuleOf[c]]
<1>1. rows' = rows \cup {new}
  BY DEF InsertRow
<1>2. new.number = n /\ new.book = ModuleOf[c]
  OBVIOUS
<1> HIDE DEF new
<1>3. ASSUME NEW x \in rows, x.book = new.book, x.number = new.number
      PROVE  FALSE
  BY <1>2, <1>3 DEF Numbers, InBook
<1> QED
  BY <1>1, <1>3 DEF UniqueNumbers

(* The next number of a book is above all that it has.                       *)
LEMMA NextFresh ==
  ASSUME TypeInv, NEW c, NEW n, IsNext(ModuleOf[c], n)
  PROVE  n \in Nat /\ \A k \in Numbers(ModuleOf[c]) : k < n
<1>1. \A x \in rows : x.number \in Nat
  BY NumerationAssumption DEF TypeInv, TypeOK, Row, Number
<1> QED
  BY <1>1 DEF IsNext, Highest, Numbers, InBook

(* A highest number is above all that the book has.                         *)
LEMMA HighestFresh ==
  ASSUME NEW m, NEW t \in Highest(InBook(m))
  PROVE  \A k \in Numbers(m) : k <= t.number
  BY DEF Highest, Numbers

(* The numbers of a book are natural numbers.                               *)
LEMMA NumbersTyped ==
  ASSUME TypeOK, NEW m
  PROVE  \A n \in Numbers(m) : n \in Nat
  BY NumerationAssumption DEF TypeOK, Row, Number, Numbers, InBook

(* What the only handler runs keeps numbers unique.                         *)
LEMMA ServeUnique ==
  ASSUME OneAtATime, TypeInv, RowsInv, ReadInv, UniqueNumbers, FreshInv,
         NEW r \in Requests, Serve(r)
  PROVE  UniqueNumbers' /\ FreshInv'
<1> DEFINE v == view[r]
           q == req[r]
<1>0. PICK c : c = q.council
  OBVIOUS
<1> DEFINE m == ModuleOf[c]
<1>z. /\ v \in View /\ q \in Request /\ Fits(q, pc[r], v)
      /\ Fresh(Numbers(m), Own(c), q, pc[r], v)
      /\ \A k \in Numbers(m) : k \in Nat
  BY <1>0, NumbersTyped DEF TypeInv, TypeOK, FreshInv, AwaitInv
<1>a. Unwritten => /\ UniqueNumbers'
                   /\ \A k : Numbers(k)' = Numbers(k) /\ Own(k)' = Own(k)
  BY DEF Unwritten, UniqueNumbers, Numbers, InBook, Own
<1>b. ASSUME NEW status, Finish(r, status) PROVE FreshInv'
  BY <1>b, FinishFresh
<1>c. ASSUME Keys' = Keys
      PROVE  UniqueNumbers' /\ \A k : Numbers(k)' = Numbers(k)
  BY <1>c, SameKeysUnique, KeysKeepNumbers, KeysBoundNumbers
(* The handler goes on, the table being as it was.                           *)
<1>d. ASSUME Unwritten, NEW to, NEW w, GoOn(r, to, w),
             Fresh(Numbers(m), Own(c), q, to, w)
      PROVE  FreshInv'
  <2>1. Fresh(Numbers(m)', Own(c)', q, to, w)
    BY <1>a, <1>d
  <2> QED
    BY <1>0, <1>d, <2>1, GoOnFresh
<1>e. ASSUME NEW to, to \notin {"range", "insert", "own", "reserveBook",
                                "down", "downRead", "downMove"},
             NEW w, GoOn(r, to, w)
      PROVE  FreshInv'
  <2>1. Fresh(Numbers(m)', Own(c)', q, to, w)
    BY <1>e DEF Fresh
  <2> QED
    BY <1>0, <1>e, <2>1, GoOnFresh
<1>1. CASE CheckNext(r)
  <2>1. Unwritten
    BY <1>1 DEF CheckNext
  <2>2. ASSUME IsNext(ModuleOf[q.council], q.number)
        PROVE  Fresh(Numbers(m), Own(c), q, "insert", v)
    BY <1>0, <2>2, NextFresh DEF Fresh
  <2> QED
    BY <1>1, <1>a, <1>b, <1>d, <1>e, <2>1, <2>2 DEF CheckNext
<1>2. CASE ReadBook(r)
  <2>1. Unwritten
    BY <1>2 DEF ReadBook
  <2>2. ASSUME InBook(ModuleOf[q.council]) = {}
        PROVE  Numbers(m) = {}
    BY <1>0, <2>2 DEF Numbers
  <2>3. ASSUME InBook(ModuleOf[q.council]) = {},
               GoOn(r, "range", [v EXCEPT !.cur = 1, !.lim = q.number - 1])
        PROVE  FreshInv'
    BY <1>d, <2>1, <2>2, <2>3 DEF Fresh
  <2>4. ASSUME InBook(ModuleOf[q.council]) = {}, GoOn(r, "insert", v)
        PROVE  FreshInv'
    BY <1>d, <2>1, <2>2, <2>4 DEF Fresh
  <2>5. ASSUME NEW t \in Highest(InBook(ModuleOf[q.council])),
               GoOn(r, "own", [v EXCEPT !.top = t.number,
                                        !.topCouncil = t.council])
        PROVE  FreshInv'
    <3> DEFINE w == [v EXCEPT !.top = t.number, !.topCouncil = t.council]
    <3>1. w.top = t.number
      BY <1>z DEF View
    <3>2. GoOn(r, "own", w)
      BY <2>5
    <3> HIDE DEF w
    <3>3. \A k \in Numbers(m) : k <= t.number
      BY <1>0, HighestFresh
    <3>4. Fresh(Numbers(m), Own(c), q, "own", w)
      BY <3>1, <3>3 DEF Fresh
    <3> QED
      BY <1>d, <2>1, <3>2, <3>4
  <2> QED
    BY <1>2, <1>a, <2>1, <2>3, <2>4, <2>5 DEF ReadBook
<1>3. CASE ReadOwn(r)
  <2>1. /\ pc[r] = "own" /\ Unwritten /\ q.number \in Nat /\ v.top \in Nat
        /\ \A k \in Numbers(m) : k <= v.top
    BY <1>z, <1>3, NumerationAssumption
    DEF ReadOwn, Fits, CreateAwaits, View, Number, NoNumber, Fresh
  <2>2. ASSUME AppendTo(r), q.number > v.top PROVE FreshInv'
    <3>1. CASE q.number > v.top + 1
      <4> DEFINE w == [v EXCEPT !.cur = v.top + 1, !.lim = q.number - 1]
      <4>1. w.cur = v.top + 1
        BY <1>z DEF View
      <4>2. GoOn(r, "range", w)
        BY <2>2, <3>1 DEF AppendTo
      <4> HIDE DEF w
      <4>3. Fresh(Numbers(m), Own(c), q, "range", w)
        BY <1>z, <2>1, <4>1 DEF Fresh
      <4> QED
        BY <1>d, <2>1, <4>2, <4>3
    <3>2. CASE ~ q.number > v.top + 1
      <4>1. Fresh(Numbers(m), Own(c), q, "insert", v)
        BY <1>z, <2>1, <2>2 DEF Fresh
      <4> QED
        BY <1>d, <2>1, <2>2, <3>2, <4>1 DEF AppendTo
    <3> QED
      BY <3>1, <3>2
  <2>3. \/ \E status : Finish(r, status)
        \/ AppendTo(r) /\ q.number > v.top
        \/ GoOn(r, "available", v)
    BY <1>3, <2>1 DEF ReadOwn
  <2> QED
    BY <1>a, <1>b, <1>e, <2>1, <2>2, <2>3
<1>4. CASE ReadAvailable(r)
  <2>1. \/ \E status : Finish(r, status)
        \/ \E w : GoOn(r, "save", w)
    BY <1>4 DEF ReadAvailable
  <2>2. Unwritten
    BY <1>4 DEF ReadAvailable
  <2> QED
    BY <1>a, <1>b, <1>e, <2>1, <2>2
<1>5. CASE SaveUsed(r)
  BY <1>5, <1>b, <1>c, SaveUsedKeys DEF SaveUsed
<1>6. CASE InsertReserved(r)
  <2>1. /\ pc[r] = "range" /\ InsertRow(v.cur, "RESERVED", c)
        /\ v.cur \in Nat /\ v.lim \in Nat /\ v.cur <= v.lim
        /\ (q.op = "create" => q.number = v.lim + 1)
        /\ \A k \in Numbers(m) : k < v.cur
    BY <1>0, <1>z, <1>6, NumerationAssumption
    DEF InsertReserved, Fits, View, Number, Fresh
  <2>2. UniqueNumbers'
    BY <2>1, InsertUnique
  <2>3. \A k \in Numbers(m)' : k < v.cur + 1
    <3>1. \A k \in Numbers(m)' : k \in Numbers(m) \/ k = v.cur
      BY <2>1, InsertRowKeys DEF TypeInv
    <3> QED
      BY <1>z, <2>1, <3>1
  <2>4. ASSUME GoOn(r, "range", [v EXCEPT !.cur = v.cur + 1])
        PROVE  FreshInv'
    <3> DEFINE w == [v EXCEPT !.cur = v.cur + 1]
    <3>1. w.cur = v.cur + 1
      BY <1>z DEF View
    <3>2. GoOn(r, "range", w)
      BY <2>4
    <3> HIDE DEF w
    <3>3. Fresh(Numbers(m)', Own(c)', q, "range", w)
      BY <2>3, <3>1 DEF Fresh
    <3> QED
      BY <1>0, <3>2, <3>3, GoOnFresh
  <2>5. ASSUME q.op = "create", v.cur >= v.lim, GoOn(r, "insert", NothingRead)
        PROVE  FreshInv'
    <3>1. q.number = v.cur + 1
      BY <2>1, <2>5
    <3>2. Fresh(Numbers(m)', Own(c)', q, "insert", NothingRead)
      BY <2>3, <3>1 DEF Fresh
    <3> QED
      BY <1>0, <2>5, <3>2, GoOnFresh
  <2> QED
    BY <1>6, <1>b, <2>2, <2>4, <2>5 DEF InsertReserved
<1>7. CASE InsertUsed(r)
  <2>1. /\ InsertRow(q.number, "USED", c) /\ Finish(r, "ok")
        /\ q.number \in Nat /\ \A k \in Numbers(m) : k < q.number
    BY <1>0, <1>z, <1>7, NumerationAssumption
    DEF InsertUsed, Fits, CreateAwaits, Number, Fresh
  <2> QED
    BY <1>b, <2>1, InsertUnique
<1>8. CASE ReserveReadBook(r)
  <2>1. /\ pc[r] = "reserveBook" /\ Unwritten
        /\ \A x \in Own(c) : x.number <= v.hi
    BY <1>z, <1>8 DEF ReserveReadBook, Fresh
  (* What was read of the end of the book, if it has one, is still true.      *)
  <2>2. ASSUME NEW w \in View, w.topCouncil = c => \A n \in Numbers(m) : n <= w.hi,
               \/ GoOn(r, "reserveLast", w) \/ Finish(r, "noRows")
               \/ GoOn(r, "down", w) \/ ExtendUp(r, w)
        PROVE  FreshInv'
    <3>1. Fresh(Numbers(m), Own(c), q, "down", w)
      BY <1>0, <2>2 DEF Fresh
    <3>2. /\ w.topCouncil = c => \A n \in Numbers(m)' : n <= w.hi
          /\ \A n \in Numbers(m)' : n \in Nat
      BY <1>a, <1>z, <2>1, <2>2
    <3>3. ExtendUp(r, w) => FreshInv'
      BY <1>0, <3>2, ExtendUpFresh
    <3> QED
      BY <1>b, <1>d, <1>e, <2>1, <2>2, <3>1, <3>3
  <2>3. ASSUME InBook(ModuleOf[q.council]) = {}
        PROVE  \A n \in Numbers(m) : n <= v.hi
    BY <1>0, <2>3 DEF Numbers
  <2>4. ASSUME NEW t \in Highest(InBook(ModuleOf[q.council]))
        PROVE  LET w == [v EXCEPT !.top = t.number, !.topCouncil = t.council]
               IN  w \in View /\
                   (w.topCouncil = c => \A n \in Numbers(m) : n <= w.hi)
    <3> DEFINE w == [v EXCEPT !.top = t.number, !.topCouncil = t.council]
    <3>1. t.number \in Number /\ t.council \in Councils
      BY DEF TypeInv, TypeOK, Highest, InBook, Row
    <3>2. w \in View /\ w.topCouncil = t.council /\ w.hi = v.hi
      BY <1>z, <3>1 DEF View
    <3>3. \A n \in Numbers(m) : n <= t.number
      BY <1>0, HighestFresh
    <3>4. t.number \in Nat /\ v.hi \in Nat
      BY <1>z, <3>1, NumerationAssumption DEF View, Number, NoNumber
    <3>5. t.council = c => t.number <= v.hi
      BY <1>0, <2>1 DEF Highest, InBook, Own
    <3> HIDE DEF w
    <3>6. w.topCouncil = c => \A n \in Numbers(m) : n <= w.hi
      BY <1>z, <3>2, <3>3, <3>4, <3>5
    <3> QED
      BY <3>2, <3>6 DEF w
  <2> QED
    BY <1>8, <1>z, <1>a, <2>1, <2>2, <2>3, <2>4 DEF ReserveReadBook
<1>9. CASE ReserveCheckLast(r)
  <2>1. \/ \E status : Finish(r, status)
        \/ GoOn(r, "reserveNext", v)
    BY <1>9 DEF ReserveCheckLast
  <2>2. Unwritten
    BY <1>9 DEF ReserveCheckLast
  <2> QED
    BY <1>a, <1>b, <1>e, <2>1, <2>2
<1>10. CASE ReserveCheckNext(r)
  <2>1. Unwritten
    BY <1>10 DEF ReserveCheckNext
  <2>2. \/ Finish(r, "notNext")
        \/ \E first : IsNext(m, first) /\ ReserveRange(r, first, q.end, v)
    BY <1>0, <1>10 DEF ReserveCheckNext
  <2>3. ASSUME NEW first, IsNext(m, first), ReserveRange(r, first, q.end, v)
        PROVE  FreshInv'
    <3>1. \A n \in Numbers(m)' : n < first
      BY <1>a, <2>1, <2>3, NextFresh
    <3> QED
      BY <1>0, <1>z, <2>3, <3>1, ReserveRangeFresh
  <2> QED
    BY <1>a, <1>b, <2>1, <2>2, <2>3
(* The search for the neighbour below keeps v.hi and v.topCouncil.           *)
<1>l. ASSUME pc[r] \in {"down", "downRead"}, Unwritten,
             NEW to \in {"downRead", "downMove"}, NEW w, GoOn(r, to, w),
             w.hi = v.hi, w.topCouncil = v.topCouncil
      PROVE  FreshInv'
  <2>1. Fresh(Numbers(m), Own(c), q, to, w)
    BY <1>z, <1>l DEF Fresh
  <2> QED
    BY <1>d, <1>l, <2>1
<1>11. CASE FindBelow(r)
  <2>1. pc[r] = "down" /\ Unwritten
    BY <1>11 DEF FindBelow
  <2>2. ASSUME NEW x, GoOn(r, "downRead", [v EXCEPT !.donor = x.council])
        PROVE  FreshInv'
    <3> DEFINE w == [v EXCEPT !.donor = x.council]
    <3>1. w.hi = v.hi /\ w.topCouncil = v.topCouncil
      BY <1>z DEF View
    <3>2. GoOn(r, "downRead", w)
      BY <2>2
    <3> HIDE DEF w
    <3> QED
      BY <1>l, <2>1, <3>1, <3>2
  <2> QED
    BY <1>11, <1>a, <1>b, <2>1, <2>2 DEF FindBelow
<1>12. CASE ReadBelow(r)
  <2>1. pc[r] = "downRead" /\ Unwritten
    BY <1>12 DEF ReadBelow
  <2>2. ASSUME NEW moved, GoOn(r, "downMove", [v EXCEPT !.snap = moved])
        PROVE  FreshInv'
    <3> DEFINE w == [v EXCEPT !.snap = moved]
    <3>1. w.hi = v.hi /\ w.topCouncil = v.topCouncil
      BY <1>z DEF View
    <3>2. GoOn(r, "downMove", w)
      BY <2>2
    <3> HIDE DEF w
    <3> QED
      BY <1>l, <2>1, <3>1, <3>2
  <2> QED
    BY <1>12, <1>a, <1>b, <2>1, <2>2 DEF ReadBelow
<1>13. CASE MoveBelow(r)
  <2> DEFINE w == [v EXCEPT !.snap = {}, !.donor = NoCouncil]
  <2>1. /\ pc[r] = "downMove" /\ SaveRows(Reassigned(r)) /\ ExtendUp(r, w)
        /\ w \in View /\ w.hi = v.hi /\ w.topCouncil = v.topCouncil
    BY <1>z, <1>13 DEF MoveBelow, View
  <2>2. Keys' = Keys
    BY <2>1, ReassignedKeys
  <2>3. /\ w.topCouncil = c => \A n \in Numbers(m)' : n <= w.hi
        /\ \A n \in Numbers(m)' : n \in Nat
    BY <1>0, <1>z, <1>c, <2>1, <2>2 DEF Fresh
  <2> HIDE DEF w
  <2> QED
    BY <1>0, <1>c, <2>1, <2>2, <2>3, ExtendUpFresh
<1>14. CASE FindAbove(r)
  <2>1. \/ \E status : Finish(r, status)
        \/ \E w : GoOn(r, "upRead", w)
    BY <1>14 DEF FindAbove
  <2>2. Unwritten
    BY <1>14 DEF FindAbove
  <2> QED
    BY <1>a, <1>b, <1>e, <2>1, <2>2
<1>15. CASE ReadAbove(r)
  <2>1. \/ \E status : Finish(r, status)
        \/ \E w : GoOn(r, "upMove", w)
    BY <1>15 DEF ReadAbove
  <2>2. Unwritten
    BY <1>15 DEF ReadAbove
  <2> QED
    BY <1>a, <1>b, <1>e, <2>1, <2>2
<1>16. CASE MoveAbove(r)
  BY <1>16, <1>b, <1>c, ReassignedKeys DEF MoveAbove
<1>17. CASE Enqueue(r)
  <2>1. \E status : Finish(r, status)
    BY <1>17 DEF Enqueue
  <2> QED
    BY <1>17, <1>b, <1>c, <2>1, EnqueueKeys
<1>18. CASE Return(r)
  <2>1. pc'[r] = "idle" /\ rows' = rows
    BY <1>18 DEF Return, TypeInv, TypeOK
  <2> QED
    BY <2>1 DEF UniqueNumbers, FreshInv, Fresh, OneAtATime
<1> QED
  BY <1>1, <1>2, <1>3, <1>4, <1>5, <1>6, <1>7, <1>8, <1>9, <1>10, <1>11,
     <1>12, <1>13, <1>14, <1>15, <1>16, <1>17, <1>18 DEF Serve

(* So does the arrival of its request.                                      *)
LEMMA BeginUnique ==
  ASSUME OneAtATime, TypeInv, UniqueNumbers, NEW r \in Requests, Begin(r)
  PROVE  UniqueNumbers' /\ FreshInv'
<1>1. Unwritten
  BY DEF Begin, BeginCreate, BeginReserve, BeginDocumentRemoved
<1>2. UniqueNumbers' /\ \A k : Own(k)' = Own(k)
  BY <1>1 DEF Unwritten, UniqueNumbers, Own
<1>3. CASE pc'[r] \in {"done", "next", "enqueue"}
  BY <1>2, <1>3 DEF FreshInv, Fresh, OneAtATime
<1>4. ASSUME NEW c \in Councils, NEW g \in Ranges, BeginReserve(r, c, g)
      PROVE  FreshInv'
  <2>1. pc'[r] = "reserveBook" /\ req'[r].council = c
    BY <1>4 DEF BeginReserve, TypeInv, TypeOK, NoRequest
  <2>2. \A x \in Own(c) : x.number <= view'[r].hi
    <3>1. CASE Own(c) = {}
      BY <3>1
    <3>2. ASSUME NEW l \in Lowest(Own(c)), NEW h \in Highest(Own(c)),
                 view' = [view EXCEPT ![r].lo = l.number, ![r].hi = h.number]
          PROVE  \A x \in Own(c) : x.number <= view'[r].hi
      <4>1. view' = [view EXCEPT ![r] = [view[r] EXCEPT !.lo = l.number,
                                                       !.hi = h.number]]
        BY <3>2 DEF TypeInv, TypeOK
      <4>2. view'[r].hi = h.number
        BY <4>1 DEF View, TypeInv, TypeOK
      <4> QED
        BY <4>2 DEF Highest
    <3> QED
      BY <1>4, <3>1, <3>2 DEF BeginReserve
  <2>3. \A k : k = req'[r].council => Own(k)' = Own(c)
    BY <1>2, <2>1
  <2> QED
    BY <2>1, <2>2, <2>3 DEF FreshInv, Fresh, OneAtATime
<1>5. ASSUME NEW c \in Councils, NEW n \in Number, BeginCreate(r, c, n)
      PROVE  pc'[r] \in {"done", "next", "enqueue"}
  BY <1>5 DEF BeginCreate, TypeInv, TypeOK
<1>6. ASSUME NEW x \in rows, BeginDocumentRemoved(r, x)
      PROVE  pc'[r] \in {"done", "next", "enqueue"}
  BY <1>6 DEF BeginDocumentRemoved, TypeInv, TypeOK
<1> QED
  BY <1>2, <1>3, <1>4, <1>5, <1>6 DEF Begin

(* UniqueInv is kept by every step that deletes no row.                     *)
LEMMA UniqueStep ==
  ASSUME OneAtATime
  PROVE  TypeInv /\ UniqueInv /\ [Keep]_vars /\ IdInv' => UniqueInv'
<1> SUFFICES ASSUME TypeInv, UniqueInv, [Keep]_vars
             PROVE  UniqueNumbers' /\ FreshInv'
  BY DEF UniqueInv
<1> USE DEF UniqueInv, IdInv
<1>1. ASSUME NEW r \in Requests, Begin(r) PROVE UniqueNumbers' /\ FreshInv'
  BY <1>1, BeginUnique
<1>2. ASSUME NEW r \in Requests, Serve(r) PROVE UniqueNumbers' /\ FreshInv'
  BY <1>2, ServeUnique
<1>3. ASSUME NEW c \in Closable, SetActive(c) PROVE UniqueNumbers' /\ FreshInv'
  BY <1>3 DEF SetActive, UniqueNumbers, FreshInv, Numbers, InBook, Own
<1>4. ASSUME Restart PROVE UniqueNumbers' /\ FreshInv'
  BY <1>4 DEF Restart, Unwritten, UniqueNumbers, FreshInv, Fresh
<1>5. CASE UNCHANGED vars
  BY <1>5 DEF vars, UniqueNumbers, FreshInv, Numbers, InBook, Own
<1> QED
  BY <1>1, <1>2, <1>3, <1>4, <1>5 DEF Keep

(* It holds at the start.                                                   *)
LEMMA UniqueInit == Init => GapInv /\ UniqueInv
<1>1. Init => IdInv
  BY NothingReadTyped DEF Init, IdInv, RowsInv, ReadInv, ReadRows
<1>2. Init => NoGaps /\ UniqueNumbers
  BY DEF Init, NoGaps, UniqueNumbers, Numbers, InBook
<1>3. Init => FilledInv /\ FreshInv
  BY DEF Init, FilledInv, Filled, FreshInv, Fresh, ReserveAwaits
<1> QED
  BY <1>1, <1>2, <1>3 DEF GapInv, UniqueInv

(* As long as requests are served one at a time and no row is deleted, no    *)
(* number of a book is given twice, whatever is asked, however many councils *)
(* and modules there are and wherever the process restarts.                  *)
THEOREM NumbersAreUnique ==
  ASSUME OneAtATime
  PROVE  KeepSpec => []UniqueNumbers
<1>1. [Keep]_vars => [Next]_vars
  BY DEF Next
<1>2. GapInv => IdInv
  BY DEF GapInv
<1>3. UniqueInv => UniqueNumbers
  BY DEF UniqueInv
<1>4. TypeInv /\ UniqueInv /\ [Keep]_vars /\ IdInv' => UniqueInv'
  BY UniqueStep
<1> QED
  BY <1>1, <1>2, <1>3, <1>4, UniqueInit, TypeInit, TypeStep, GapStep, PTL
  DEF KeepSpec

-------------------------------------------------------------------------------
(***************************************************************************)
(* What the only handler has read is still in the table.                   *)
(***************************************************************************)

(* The only handler goes on with what the table still has.                   *)
LEMMA GoOnSeen ==
  ASSUME OneAtATime, TypeInv, NEW r \in Requests, NEW to, NEW v,
         GoOn(r, to, v), Seen(rows', req[r], to, v)
  PROVE  SeenInv'
<1>1. req' = req /\ pc'[r] = to /\ view'[r] = v
  BY DEF GoOn, TypeInv, TypeOK
<1> SUFFICES ASSUME NEW s \in Requests
             PROVE  Seen(rows', req'[s], pc'[s], view'[s])
  BY DEF SeenInv
<1>2. s = r
  BY DEF OneAtATime
<1> QED
  BY <1>1, <1>2

(* A handler that is done, or has not begun, has read nothing.               *)
LEMMA AtRestSeen ==
  ASSUME NEW table, NEW q, NEW at \in {"idle", "done", "insert"}
  PROVE  Seen(table, q, at, NothingRead)
<1>1. NothingRead.snap = {}
  BY NothingReadTyped
<1> HIDE DEF NothingRead
<1> QED
  BY <1>1 DEF Seen, ReserveAwaits, Moving, Downwards, Upwards

LEMMA FinishSeen ==
  ASSUME OneAtATime, TypeInv, NEW r \in Requests, NEW status,
         Finish(r, status)
  PROVE  SeenInv'
<1>1. req' = req /\ pc'[r] = "done" /\ view'[r] = NothingRead
  BY DEF Finish, TypeInv, TypeOK
<1> SUFFICES ASSUME NEW s \in Requests
             PROVE  Seen(rows', req'[s], pc'[s], view'[s])
  BY DEF SeenInv
<1>2. s = r
  BY DEF OneAtATime
<1> HIDE DEF NothingRead
<1>3. Seen(rows', req[r], "done", NothingRead)
  BY AtRestSeen
<1> QED
  BY <1>1, <1>2, <1>3

(* At an await that relies on nothing but the rows read, these are enough.   *)
LEMMA FreeSeen ==
  ASSUME NEW table, NEW q, NEW v, v.snap \subseteq table,
         NEW at \in {"idle", "done", "next", "book", "available", "insert"}
  PROVE  Seen(table, q, at, v)
  BY DEF Seen, ReserveAwaits, Moving, Downwards, Upwards

(* A range grows from the last number of its council, or is its first.       *)
LEMMA RangeSeen ==
  ASSUME NEW table, NEW q, NEW v, v.snap \subseteq table,
         NEW own, own = {x \in table : /\ x.council = q.council
                                       /\ x.book = ModuleOf[q.council]},
         own = {} \/ \E x \in own : x.number = v.cur - 1
  PROVE  Seen(table, q, "range", v)
  BY DEF Seen, ReserveAwaits, Moving, Downwards, Upwards

LEMMA ReserveRangeSeen ==
  ASSUME OneAtATime, TypeInv, NEW r \in Requests, NEW first, NEW last,
         NEW v \in View, v.snap \subseteq rows',
         NEW own, own = Own(req[r].council)',
         own = {} \/ \E x \in own : x.number = first - 1,
         ReserveRange(r, first, last, v)
  PROVE  SeenInv'
<1> DEFINE w == [v EXCEPT !.cur = first, !.lim = last]
<1>1. w.cur = first /\ w.snap = v.snap
  BY DEF View
<1>2. GoOn(r, "range", w) \/ \E status : Finish(r, status)
  BY DEF ReserveRange
<1> HIDE DEF w
<1>3. req' = req
  BY DEF ReserveRange, GoOn, Finish
<1>4. Seen(rows', req[r], "range", w)
  BY <1>1, <1>3, RangeSeen DEF Own
<1> QED
  BY <1>2, <1>4, GoOnSeen, FinishSeen

(* The extension upwards starts from the council's highest number.           *)
LEMMA ExtendUpSeen ==
  ASSUME OneAtATime, TypeInv, NEW r \in Requests, NEW v \in View,
         v.snap \subseteq rows', v.hi # NoNumber,
         NEW h \in Highest(Own(req[r].council))', h.number = v.hi,
         ExtendUp(r, v)
  PROVE  SeenInv'
<1> DEFINE c == req[r].council
           q == req[r]
<1>0. v.hi \in Nat /\ q.end \in Nat
  BY NumerationAssumption DEF View, Number, NoNumber, TypeInv, TypeOK, Request
<1>1. req' = req
  BY DEF ExtendUp, ReserveRange, GoOn, Finish
<1>2. h \in Own(c)' /\ Own(c)' = {x \in rows' : x.council = c /\ x.book = ModuleOf[c]}
      /\ h \in Highest(Own(c)')
  BY <1>1 DEF Highest, Own
<1>3. \/ \E status : Finish(r, status)
      \/ ReserveRange(r, v.hi + 1, q.end, v)
      \/ q.end > v.hi /\ GoOn(r, "up", v)
  BY DEF ExtendUp
<1>4. ASSUME ReserveRange(r, v.hi + 1, q.end, v) PROVE SeenInv'
  <2>2. PICK own : own = Own(c)' /\ h \in own
    BY <1>2
  <2>6. PICK first : first = v.hi + 1
    OBVIOUS
  <2>3. first = v.hi + 1 /\ first - 1 = v.hi
    BY <1>0, <2>6
  <2>4. \E x \in own : x.number = first - 1
    BY <2>2, <2>3
  <2>5. ReserveRange(r, first, q.end, v)
    BY <1>4, <2>3
  <2> QED
    BY <2>2, <2>4, <2>5, ReserveRangeSeen
<1>5. ASSUME q.end > v.hi PROVE Seen(rows', q, "up", v)
  <2>1. v.hi < q.end
    BY <1>0, <1>5
  <2> QED
    BY <1>2, <2>1 DEF Seen, ReserveAwaits, Moving, Downwards, Upwards
<1> QED
  BY <1>3, <1>4, <1>5, GoOnSeen, FinishSeen

-------------------------------------------------------------------------------
(***************************************************************************)
(* Counting: rows with different numbers are as many as their numbers.     *)
(***************************************************************************)

LEMMA AsManyNumbers ==
  ASSUME NEW S, IsFiniteSet(S), \A x, y \in S : x.number = y.number => x = y,
         NEW T, T = {x.number : x \in S}
  PROVE  IsFiniteSet(T) /\ Cardinality(T) = Cardinality(S)
<1> DEFINE f == [x \in S |-> x.number]
<1>1. f \in [S -> T] /\ (\A x \in S : f[x] = x.number)
  OBVIOUS
<1> HIDE DEF f
<1>2. f \in Injection(S, T)
  BY <1>1 DEF Injection, IsInjective
<1>3. f \in Surjection(S, T)
  BY <1>1 DEF Surjection
<1>4. ExistsBijection(S, T)
  BY <1>2, <1>3 DEF Bijection, ExistsBijection
<1> QED
  BY <1>4, FS_Bijection

(* As many rows as a range has numbers, all of the range, cover it,          *)
LEMMA RowsCoverRange ==
  ASSUME NEW S, IsFiniteSet(S), \A x, y \in S : x.number = y.number => x = y,
         NEW first \in Nat, NEW last \in Int, first <= last,
         \A x \in S : x.number \in first .. last,
         Cardinality(S) = last - first + 1
  PROVE  \A n \in first .. last : \E x \in S : x.number = n
<1> DEFINE T == {x.number : x \in S}
<1>1. IsFiniteSet(T) /\ Cardinality(T) = Cardinality(S)
  BY AsManyNumbers
<1>2. T \in SUBSET (first .. last)
  OBVIOUS
<1>3. IsFiniteSet(first .. last) /\ Cardinality(first .. last) = last - first + 1
  BY FS_Interval
<1> HIDE DEF T
<1>4. T = first .. last
  BY <1>1, <1>2, <1>3, FS_Subset
<1> QED
  BY <1>4 DEF T

(* and rows that cover it are as many.                                       *)
LEMMA RangeOfRows ==
  ASSUME NEW S, IsFiniteSet(S), \A x, y \in S : x.number = y.number => x = y,
         NEW first \in Nat, NEW last \in Int, first <= last,
         \A x \in S : x.number \in first .. last,
         \A n \in first .. last : \E x \in S : x.number = n
  PROVE  Cardinality(S) = last - first + 1
<1> DEFINE T == {x.number : x \in S}
<1>1. IsFiniteSet(T) /\ Cardinality(T) = Cardinality(S)
  BY AsManyNumbers
<1>2. T = first .. last
  OBVIOUS
<1> HIDE DEF T
<1> QED
  BY <1>1, <1>2, FS_Interval

-------------------------------------------------------------------------------
(***************************************************************************)
(* The steps of the handler.                                               *)
(***************************************************************************)

(* Two rows of a book with one number are one row.                           *)
LEMMA RowsApart ==
  ASSUME RowsInv, UniqueNumbers, NEW S \in SUBSET rows, NEW m,
         \A x \in S : x.book = m
  PROVE  \A x, y \in S : x.number = y.number => x = y
  BY DEF RowsInv, UniqueNumbers

(* What only reads keeps what was seen.                                      *)
LEMMA ReadOnlySeen ==
  ASSUME OneAtATime, TypeInv, Unwritten, NEW r \in Requests, NEW to, NEW v,
         GoOn(r, to, v), Seen(rows, req[r], to, v)
  PROVE  SeenInv'
<1>1. rows' = rows
  BY DEF Unwritten
<1> QED
  BY <1>1, GoOnSeen

(* create up to the row that is saved or the numbers that are reserved.      *)
LEMMA CreateSeen ==
  ASSUME OneAtATime, TypeInv, SeenInv, NEW r \in Requests,
         CheckNext(r) \/ ReadBook(r) \/ ReadOwn(r) \/ ReadAvailable(r)
  PROVE  SeenInv'
<1> DEFINE v == view[r]
           q == req[r]
           c == q.council
           m == ModuleOf[c]
<1>z. /\ v \in View /\ q \in Request /\ Fits(q, pc[r], v)
      /\ Seen(rows, q, pc[r], v) /\ v.snap \subseteq rows
  BY DEF TypeInv, TypeOK, SeenInv, AwaitInv, Seen
<1>f. Unwritten
  BY DEF CheckNext, ReadBook, ReadOwn, ReadAvailable
<1>b. ASSUME NEW status, Finish(r, status) PROVE SeenInv'
  BY <1>b, FinishSeen
<1>e. ASSUME NEW to \in {"next", "book", "available", "insert"}, GoOn(r, to, v)
      PROVE  SeenInv'
  BY <1>e, <1>f, <1>z, FreeSeen, ReadOnlySeen
<1>g. ASSUME NEW n, NEW l, GoOn(r, "range", [v EXCEPT !.cur = n, !.lim = l]),
             NEW own, own = Own(c),
             own = {} \/ \E x \in own : x.number = n - 1
      PROVE  SeenInv'
  <2> DEFINE w == [v EXCEPT !.cur = n, !.lim = l]
  <2>1. w.cur = n /\ w.snap = v.snap
    BY <1>z DEF View
  <2>2. GoOn(r, "range", w)
    BY <1>g
  <2> HIDE DEF w
  <2>3. Seen(rows, q, "range", w)
    BY <1>g, <1>z, <2>1, RangeSeen DEF Own
  <2> QED
    BY <1>f, <2>2, <2>3, ReadOnlySeen
<1>1. CASE CheckNext(r)
  BY <1>1, <1>b, <1>e DEF CheckNext
<1>2. CASE ReadBook(r)
  <2>1. ASSUME InBook(m) = {}, GoOn(r, "range", [v EXCEPT !.cur = 1, !.lim = q.number - 1])
        PROVE  SeenInv'
    <3>1. PICK own : own = Own(c) /\ own = {}
      BY <2>1 DEF Own, InBook
    <3> QED
      BY <1>g, <2>1, <3>1
  <2>2. ASSUME NEW t \in Highest(InBook(m)),
               GoOn(r, "own", [v EXCEPT !.top = t.number, !.topCouncil = t.council])
        PROVE  SeenInv'
    <3> DEFINE w == [v EXCEPT !.top = t.number, !.topCouncil = t.council]
    <3>1. w.top = t.number /\ w.topCouncil = t.council /\ w.snap = v.snap
      BY <1>z DEF View
    <3>2. GoOn(r, "own", w)
      BY <2>2
    <3> HIDE DEF w
    <3>3. Seen(rows, q, "own", w)
      BY <1>z, <2>2, <3>1 DEF Seen, InBook, ReserveAwaits, Moving, Downwards, Upwards
    <3> QED
      BY <1>f, <3>2, <3>3, ReadOnlySeen
  <2> QED
    BY <1>2, <1>e, <2>1, <2>2 DEF ReadBook
<1>3. CASE ReadOwn(r)
  <2>1. pc[r] = "own" /\ q.number \in Nat /\ v.top \in Nat
    BY <1>z, <1>3, NumerationAssumption
    DEF ReadOwn, Fits, CreateAwaits, View, Number, NoNumber
  <2>2. PICK t \in Highest({x \in rows : x.book = m}) :
          t.number = v.top /\ t.council = v.topCouncil
    BY <1>z, <2>1 DEF Seen
  <2>3. ASSUME AppendTo(r), Own(c) = {} \/ v.topCouncil = c
        PROVE  SeenInv'
    <3>1. PICK own : own = Own(c)
      OBVIOUS
    <3>2. PICK n : n = v.top + 1
      OBVIOUS
    <3>3. n - 1 = v.top
      BY <2>1, <3>2
    <3>4. own = {} \/ \E x \in own : x.number = n - 1
      BY <2>2, <2>3, <3>1, <3>3 DEF Own, Highest
    <3>5. \/ GoOn(r, "range", [v EXCEPT !.cur = n, !.lim = q.number - 1])
          \/ GoOn(r, "insert", v)
      BY <2>3, <3>2 DEF AppendTo
    <3> QED
      BY <1>e, <1>g, <3>1, <3>4, <3>5
  <2>4. {x \in rows : x.council = c} = {} => Own(c) = {}
    BY DEF Own
  <2>5. \/ \E status : Finish(r, status)
        \/ AppendTo(r) /\ (Own(c) = {} \/ v.topCouncil = c)
        \/ GoOn(r, "available", v)
    BY <1>3, <2>4 DEF ReadOwn
  <2> QED
    BY <1>b, <1>e, <2>3, <2>5
<1>4. CASE ReadAvailable(r)
  <2>1. ASSUME NEW x \in rows, x.state # "USED",
               GoOn(r, "save", [v EXCEPT !.snap = {x}])
        PROVE  SeenInv'
    <3> DEFINE w == [v EXCEPT !.snap = {x}]
    <3>1. w.snap = {x}
      BY <1>z DEF View
    <3>2. GoOn(r, "save", w)
      BY <2>1
    <3> HIDE DEF w
    <3>3. Seen(rows, q, "save", w)
      BY <2>1, <3>1 DEF Seen, ReserveAwaits, Moving, Downwards, Upwards
    <3> QED
      BY <1>f, <3>2, <3>3, ReadOnlySeen
  <2> QED
    BY <1>4, <1>b, <2>1 DEF ReadAvailable
<1> QED
  BY <1>1, <1>2, <1>3, <1>4

(* reserve up to the loop or the move.                                       *)
LEMMA ReserveSeen ==
  ASSUME OneAtATime, TypeInv, SeenInv, NEW r \in Requests,
         ReserveReadBook(r) \/ ReserveCheckLast(r) \/ ReserveCheckNext(r)
  PROVE  SeenInv'
<1> DEFINE v == view[r]
           q == req[r]
           c == q.council
           m == ModuleOf[c]
<1>y. /\ v \in View /\ q \in Request
      /\ Seen(rows, q, pc[r], v) /\ v.snap \subseteq rows
  BY DEF TypeInv, TypeOK, SeenInv, Seen
<1>z. /\ v \in View /\ q \in Request
      /\ Seen(rows, q, pc[r], v) /\ v.snap \subseteq rows
      /\ v.hi \in Nat /\ v.lo \in Nat /\ q.start \in Nat
  BY <1>y, NumerationAssumption DEF View, Request, Number, NoNumber
<1>f. Unwritten
  BY DEF ReserveReadBook, ReserveCheckLast, ReserveCheckNext
<1>g. req' = req
  BY DEF ReserveReadBook, ReserveCheckLast, ReserveCheckNext, ExtendUp,
         ReserveRange, GoOn, Finish
<1>b. ASSUME NEW status, Finish(r, status) PROVE SeenInv'
  BY <1>b, FinishSeen
<1>h. pc[r] \in ReserveAwaits
  BY DEF ReserveReadBook, ReserveCheckLast, ReserveCheckNext, ReserveAwaits
<1>o. PICK own : own = Own(c)
  OBVIOUS
<1>p. IF v.hi = NoNumber THEN own = {} ELSE \E h \in Highest(own) : h.number = v.hi
  BY <1>h, <1>o, <1>z DEF Seen, Own
<1>q. own = {x \in rows : x.council = c /\ x.book = m} /\ own = Own(c)'
      /\ rows' = rows
  BY <1>f, <1>g, <1>o DEF Own, Unwritten
<1>1. CASE ReserveReadBook(r)
  <2>1. v.hi # NoNumber => \E l \in Lowest(own) : l.number = v.lo
    BY <1>1, <1>o, <1>z DEF ReserveReadBook, Seen, Own
  <2>2. ASSUME NEW w \in View, w.hi = v.hi, w.lo = v.lo, w.snap = v.snap,
               \/ GoOn(r, "reserveLast", w) \/ Finish(r, "noRows")
               \/ w.hi # NoNumber /\ q.start # NoNumber /\ q.start < w.lo
                  /\ GoOn(r, "down", w)
               \/ w.hi # NoNumber /\ ExtendUp(r, w)
        PROVE  SeenInv'
    <3>1. Seen(rows, q, "reserveLast", w)
      BY <1>p, <1>q, <1>z, <2>2 DEF Seen, ReserveAwaits, Moving, Downwards, Upwards
    <3>2. ASSUME w.hi # NoNumber, q.start # NoNumber, q.start < w.lo
          PROVE  Seen(rows, q, "down", w)
      <4>1. q.start \in 1 .. w.lo - 1
        BY <1>z, <2>2, <3>2 DEF NoNumber
      <4> QED
        BY <1>p, <1>q, <1>z, <2>1, <2>2, <3>2, <4>1
        DEF Seen, ReserveAwaits, Moving, Downwards, Upwards
    <3>3. ASSUME w.hi # NoNumber, ExtendUp(r, w) PROVE SeenInv'
      <4>1. PICK h \in Highest(own) : h.number = w.hi
        BY <1>p, <2>2, <3>3
      <4>2. h \in Highest(Own(c))'
        BY <1>q, <4>1, <3>3 DEF Highest
      <4> QED
        BY <1>q, <1>z, <2>2, <3>3, <4>1, <4>2, ExtendUpSeen
    <3> QED
      BY <1>b, <1>f, <2>2, <3>1, <3>2, <3>3, ReadOnlySeen
  <2>3. ASSUME NEW t \in Highest(InBook(m))
        PROVE  LET w == [v EXCEPT !.top = t.number, !.topCouncil = t.council]
               IN  w \in View /\ w.hi = v.hi /\ w.lo = v.lo /\ w.snap = v.snap
    BY <1>z DEF TypeInv, TypeOK, Highest, InBook, Row, View
  <2>4. \E w \in View :
          /\ w.hi = v.hi /\ w.lo = v.lo /\ w.snap = v.snap
          /\ \/ GoOn(r, "reserveLast", w) \/ Finish(r, "noRows")
             \/ w.hi # NoNumber /\ q.start # NoNumber /\ q.start < w.lo
                /\ GoOn(r, "down", w)
             \/ w.hi # NoNumber /\ ExtendUp(r, w)
    BY <1>1, <1>z, <2>3 DEF ReserveReadBook
  <2> QED
    BY <2>2, <2>4
<1>2. CASE ReserveCheckLast(r)
  <2>1. ASSUME NEW t \in Highest(InBook(m)), t.council = c \/ v.hi = NoNumber,
               GoOn(r, "reserveNext", v)
        PROVE  SeenInv'
    <3>1. Seen(rows, q, "reserveNext", v)
      BY <1>p, <1>q, <1>z, <2>1
      DEF Seen, ReserveAwaits, Moving, Downwards, Upwards, InBook
    <3> QED
      BY <1>f, <2>1, <3>1, ReadOnlySeen
  <2> QED
    BY <1>2, <1>b, <2>1 DEF ReserveCheckLast
<1>3. CASE ReserveCheckNext(r)
  <2>1. ASSUME NEW n, IsNext(m, n), ReserveRange(r, n, q.end, v)
        PROVE  SeenInv'
    <3>1. CASE v.hi = NoNumber
      BY <1>p, <1>q, <1>z, <2>1, <3>1, ReserveRangeSeen
    <3>2. CASE v.hi # NoNumber
      <4>1. PICK t \in Highest(InBook(m)) : t.council = c
        BY <1>3, <1>z, <3>2 DEF Seen, InBook, ReserveCheckNext
      <4>2. PICK u \in Highest(InBook(m)) : n = u.number + 1
        BY <2>1, <4>1 DEF IsNext, Highest
      <4>3. t.number \in Nat /\ u.number \in Nat
        BY NumerationAssumption DEF Highest, InBook, TypeInv, TypeOK, Row, Number
      <4>4. t.number <= u.number /\ u.number <= t.number
        BY <4>1, <4>2 DEF Highest
      <4>5. t.number = n - 1
        BY <4>2, <4>3, <4>4
      <4>6. t \in own
        BY <1>q, <4>1 DEF Highest, InBook
      <4> QED
        BY <1>q, <1>z, <2>1, <4>5, <4>6, ReserveRangeSeen
    <3> QED
      BY <3>1, <3>2
  <2>2. \/ Finish(r, "notNext")
        \/ \E n : IsNext(m, n) /\ ReserveRange(r, n, q.end, v)
    BY <1>3 DEF ReserveCheckNext
  <2> QED
    BY <1>b, <2>1, <2>2
<1> QED
  BY <1>1, <1>2, <1>3

(* The neighbours, up to the rows that are moved.                            *)
LEMMA NeighbourSeen ==
  ASSUME OneAtATime, TypeInv, RowsInv, UniqueNumbers, BookOfCouncil, FirmInv,
         NEW r \in Requests,
         FindBelow(r) \/ ReadBelow(r) \/ FindAbove(r) \/ ReadAbove(r)
  PROVE  SeenInv'
<1> DEFINE v == view[r]
           q == req[r]
           c == q.council
           m == ModuleOf[c]
<1>y. /\ v \in View /\ q \in Request /\ IsFiniteSet(rows)
      /\ Seen(rows, q, pc[r], v) /\ v.snap \subseteq rows
  BY DEF FirmInv, TypeInv, TypeOK, SeenInv, Seen
<1>z. v.hi \in Nat /\ v.lo \in Nat /\ q.start \in Nat /\ q.end \in Nat
  BY <1>y, NumerationAssumption DEF View, Request, Number, NoNumber
<1>f. Unwritten
  BY DEF FindBelow, ReadBelow, FindAbove, ReadAbove
<1>b. ASSUME NEW status, Finish(r, status) PROVE SeenInv'
  BY <1>b, FinishSeen
<1>1. CASE FindBelow(r)
  <2>1. ASSUME NEW x \in rows, x.council # c,
               GoOn(r, "downRead", [v EXCEPT !.donor = x.council])
        PROVE  SeenInv'
    <3> DEFINE w == [v EXCEPT !.donor = x.council]
    <3>1. w.donor = x.council /\ w.snap = v.snap /\ w.hi = v.hi /\ w.lo = v.lo
      BY <1>y DEF View
    <3>2. GoOn(r, "downRead", w)
      BY <2>1
    <3> HIDE DEF w
    <3>3. pc[r] = "down"
      BY <1>1 DEF FindBelow
    <3>4. Seen(rows, q, "downRead", w)
      BY <1>y, <2>1, <3>1, <3>3 DEF Seen, ReserveAwaits, Moving, Downwards, Upwards
    <3> QED
      BY <1>f, <3>2, <3>4, ReadOnlySeen
  <2> QED
    BY <1>1, <1>b, <2>1 DEF FindBelow
<1>2. CASE FindAbove(r)
  <2>1. ASSUME NEW x \in rows, x.council # c, x.state = "RESERVED",
               x.number = v.hi + 1,
               GoOn(r, "upRead", [v EXCEPT !.donor = x.council])
        PROVE  SeenInv'
    <3> DEFINE w == [v EXCEPT !.donor = x.council]
    <3>1. w.donor = x.council /\ w.snap = v.snap /\ w.hi = v.hi /\ w.lo = v.lo
      BY <1>y DEF View
    <3>2. GoOn(r, "upRead", w)
      BY <2>1
    <3> HIDE DEF w
    <3>3. pc[r] = "up"
      BY <1>2 DEF FindAbove
    <3>4. Seen(rows, q, "upRead", w)
      BY <1>y, <2>1, <3>1, <3>3 DEF Seen, ReserveAwaits, Moving, Downwards, Upwards
    <3> QED
      BY <1>f, <3>2, <3>4, ReadOnlySeen
  <2> QED
    BY <1>2, <1>b, <2>1 DEF FindAbove
(* The rows a neighbour gives are as many as the range asked for has.        *)
<1>t. ASSUME NEW first \in Nat, NEW last \in Int, first <= last,
             NEW S, S = Giveable(r, first, last),
             Cardinality(S) = last - first + 1,
             NEW w, w.snap = S, w.donor = v.donor
      PROVE  Taken(w, m, first, last)
  <2>1. /\ S \in SUBSET rows
        /\ \A x \in S : x.book = m /\ x.council = v.donor /\ x.state = "RESERVED"
    BY <1>t DEF Giveable
  <2>2. \A x \in S : x.number \in first .. last
    BY <1>t, NumerationAssumption DEF Giveable, TypeInv, TypeOK, Row, Number
  <2>3. IsFiniteSet(S) /\ \A x, y \in S : x.number = y.number => x = y
    BY <1>y, <2>1, FS_Subset, RowsApart
  <2>4. \A n \in first .. last : \E x \in S : x.number = n
    BY <1>t, <2>2, <2>3, RowsCoverRange
  <2> QED
    BY <1>t, <2>1, <2>2, <2>4 DEF Taken
<1>3. CASE ReadBelow(r)
  <2>1. ASSUME NEW S, S = Giveable(r, q.start, v.lo - 1),
               Cardinality(S) = v.lo - q.start,
               GoOn(r, "downMove", [v EXCEPT !.snap = S])
        PROVE  SeenInv'
    <3> DEFINE w == [v EXCEPT !.snap = S]
    <3>1. w.snap = S /\ w.donor = v.donor /\ w.hi = v.hi /\ w.lo = v.lo
      BY <1>y DEF View
    <3>2. GoOn(r, "downMove", w)
      BY <2>1
    <3> HIDE DEF w
    <3>3. pc[r] = "downRead"
      BY <1>3 DEF ReadBelow
    <3>4. q.start \in 1 .. v.lo - 1
      BY <1>y, <3>3 DEF Seen, Downwards
    <3>5. Taken(w, m, q.start, w.lo - 1)
      <4>1. v.lo - 1 \in Int /\ q.start <= v.lo - 1
            /\ Cardinality(S) = v.lo - 1 - q.start + 1
        BY <1>z, <2>1, <3>4
      <4>2. PICK last : last = v.lo - 1
        OBVIOUS
      <4>3. Taken(w, m, q.start, last)
        BY <1>t, <1>z, <2>1, <3>1, <4>1, <4>2
      <4> QED
        BY <3>1, <4>2, <4>3
    <3>6. S \subseteq rows
      BY <2>1 DEF Giveable
    <3>7. Seen(rows, q, "downMove", w)
      BY <1>y, <3>1, <3>3, <3>5, <3>6
      DEF Seen, ReserveAwaits, Moving, Downwards, Upwards
    <3> QED
      BY <1>f, <3>2, <3>7, ReadOnlySeen
  <2> QED
    BY <1>3, <1>b, <2>1 DEF ReadBelow
<1>4. CASE ReadAbove(r)
  <2>1. ASSUME NEW S, S = Giveable(r, v.hi + 1, q.end),
               Cardinality(S) = q.end - v.hi,
               GoOn(r, "upMove", [v EXCEPT !.snap = S])
        PROVE  SeenInv'
    <3> DEFINE w == [v EXCEPT !.snap = S]
    <3>1. w.snap = S /\ w.donor = v.donor /\ w.hi = v.hi /\ w.lo = v.lo
      BY <1>y DEF View
    <3>2. GoOn(r, "upMove", w)
      BY <2>1
    <3> HIDE DEF w
    <3>3. pc[r] = "upRead"
      BY <1>4 DEF ReadAbove
    <3>4. v.hi < q.end
      BY <1>y, <3>3 DEF Seen, Upwards
    <3>5. Taken(w, m, w.hi + 1, q.end)
      <4>1. v.hi + 1 \in Nat /\ v.hi + 1 <= q.end
            /\ Cardinality(S) = q.end - (v.hi + 1) + 1
        BY <1>z, <2>1, <3>4
      <4>2. PICK first : first = v.hi + 1
        OBVIOUS
      <4>3. Taken(w, m, first, q.end)
        BY <1>t, <1>z, <2>1, <3>1, <4>1, <4>2
      <4> QED
        BY <3>1, <4>2, <4>3
    <3>6. S \subseteq rows
      BY <2>1 DEF Giveable
    <3>7. Seen(rows, q, "upMove", w)
      BY <1>y, <3>1, <3>3, <3>5, <3>6
      DEF Seen, ReserveAwaits, Moving, Downwards, Upwards
    <3> QED
      BY <1>f, <3>2, <3>7, ReadOnlySeen
  <2> QED
    BY <1>4, <1>b, <2>1 DEF ReadAbove
<1> QED
  BY <1>1, <1>2, <1>3, <1>4

(* What becomes of a row that is moved to council c.                         *)
Given(x, c) == [x EXCEPT !.state = "RESERVED", !.council = c]

LEMMA GivenFields ==
  ASSUME NEW x \in Row, NEW c, NEW y, y = Given(x, c)
  PROVE  /\ y.id = x.id /\ y.number = x.number /\ y.book = x.book
         /\ y.state = "RESERVED" /\ y.council = c
  BY DEF Given, Row

LEMMA ReassignedAreGiven ==
  ASSUME TypeInv, NEW r \in Requests, view[r].snap \subseteq rows
  PROVE  /\ \A y \in Reassigned(r) : \E s \in view[r].snap :
              /\ y = Given(s, req[r].council)
              /\ y.id = s.id /\ y.number = s.number /\ y.book = s.book
              /\ y.state = "RESERVED" /\ y.council = req[r].council
         /\ \A s \in view[r].snap : \E y \in Reassigned(r) :
              /\ y = Given(s, req[r].council)
              /\ y.id = s.id /\ y.number = s.number /\ y.book = s.book
              /\ y.state = "RESERVED" /\ y.council = req[r].council
<1> PICK c : c = req[r].council
  OBVIOUS
<1>1. Reassigned(r) = {Given(x, c) : x \in view[r].snap}
  BY DEF Reassigned, Given
<1>2. \A s \in view[r].snap : \A y : y = Given(s, c) =>
         /\ y.id = s.id /\ y.number = s.number /\ y.book = s.book
         /\ y.state = "RESERVED" /\ y.council = c
  BY GivenFields DEF TypeInv, TypeOK
<1> QED
  BY <1>1, <1>2

(* A row that a council moves is not one of its own: these stay where they   *)
(* are, and the moved ones are added.                                        *)
LEMMA MovedRows ==
  ASSUME TypeInv, RowsInv, NEW r \in Requests, NEW v, v = view[r],
         v.snap \subseteq rows, SaveRows(Reassigned(r)),
         \A x \in v.snap : x.council # req[r].council
  PROVE  /\ rows' = (rows \ v.snap) \cup Reassigned(r)
         /\ \A x \in rows : x.council = req[r].council => x \in rows'
<1> DEFINE c == req[r].council
<1>1. \A y \in Reassigned(r) : \E s \in v.snap : y.id = s.id
  BY ReassignedAreGiven
<1>2. \A s \in v.snap : \E y \in Reassigned(r) : y.id = s.id
  BY ReassignedAreGiven
<1>3. ASSUME NEW x \in rows
      PROVE  (\A y \in Reassigned(r) : y.id # x.id) <=> x \notin v.snap
  BY <1>1, <1>2 DEF RowsInv
<1> QED
  BY <1>3 DEF SaveRows

(* What writes to the table.                                                 *)
LEMMA WriteSeen ==
  ASSUME OneAtATime, TypeInv, RowsInv, SeenInv, NEW r \in Requests,
         \/ SaveUsed(r) \/ InsertReserved(r) \/ InsertUsed(r)
         \/ MoveBelow(r) \/ MoveAbove(r) \/ Enqueue(r) \/ Return(r)
  PROVE  SeenInv'
<1> DEFINE v == view[r]
           q == req[r]
           c == q.council
           m == ModuleOf[c]
<1>y. /\ v \in View /\ q \in Request /\ Fits(q, pc[r], v)
      /\ Seen(rows, q, pc[r], v) /\ v.snap \subseteq rows
  BY DEF TypeInv, TypeOK, AwaitInv, SeenInv, Seen
<1>z. v.hi \in Nat /\ v.lo \in Nat /\ v.cur \in Nat
  BY <1>y, NumerationAssumption DEF View, Number, NoNumber
<1>b. ASSUME NEW status, Finish(r, status) PROVE SeenInv'
  BY <1>b, FinishSeen
<1>1. CASE SaveUsed(r) \/ InsertUsed(r) \/ MoveAbove(r) \/ Enqueue(r)
  BY <1>1, <1>b DEF SaveUsed, InsertUsed, MoveAbove, Enqueue
<1>2. CASE InsertReserved(r)
  <2>1. InsertRow(v.cur, "RESERVED", c)
    BY <1>2 DEF InsertReserved
  <2>2. PICK new : /\ new = [id |-> nextId, number |-> v.cur, state |-> "RESERVED",
                             council |-> c, book |-> m]
                   /\ rows' = rows \cup {new}
    BY <2>1 DEF InsertRow
  <2>3. ASSUME GoOn(r, "range", [v EXCEPT !.cur = v.cur + 1])
        PROVE  SeenInv'
    <3> DEFINE w == [v EXCEPT !.cur = v.cur + 1]
    <3>1. w.cur = v.cur + 1 /\ w.snap = v.snap /\ w.cur - 1 = v.cur
      BY <1>y, <1>z DEF View
    <3>2. GoOn(r, "range", w)
      BY <2>3
    <3> HIDE DEF w
    <3>3. PICK own : own = {x \in rows' : x.council = c /\ x.book = m}
      OBVIOUS
    <3>4. new \in own /\ new.number = w.cur - 1
      BY <2>2, <3>1, <3>3
    <3>5. Seen(rows', q, "range", w)
      BY <1>y, <2>2, <3>1, <3>3, <3>4, RangeSeen
    <3> QED
      BY <3>2, <3>5, GoOnSeen
  <2>4. ASSUME GoOn(r, "insert", NothingRead) PROVE SeenInv'
    <3> HIDE DEF NothingRead
    <3>1. Seen(rows', q, "insert", NothingRead)
      BY AtRestSeen
    <3> QED
      BY <2>4, <3>1, GoOnSeen
  <2> QED
    BY <1>2, <1>b, <2>3, <2>4 DEF InsertReserved
<1>3. CASE MoveBelow(r)
  <2> DEFINE w == [v EXCEPT !.snap = {}, !.donor = NoCouncil]
  <2>1. /\ pc[r] = "downMove" /\ SaveRows(Reassigned(r)) /\ ExtendUp(r, w)
        /\ w \in View /\ w.hi = v.hi /\ w.snap = {}
    BY <1>y, <1>3 DEF MoveBelow, View
  <2> HIDE DEF w
  <2>2. /\ v.hi # NoNumber /\ v.donor # c /\ Taken(v, m, q.start, v.lo - 1)
        /\ \E h \in Highest(Own(c)) : h.number = v.hi
        /\ \E l \in Lowest(Own(c)) : l.number = v.lo
    BY <1>y, <2>1 DEF Seen, Downwards, Moving, ReserveAwaits, Own
  <2>3. PICK h \in Highest(Own(c)) : h.number = v.hi
    BY <2>2
  <2>4. /\ rows' = (rows \ v.snap) \cup Reassigned(r)
        /\ \A x \in rows : x.council = c => x \in rows'
    BY <1>y, <2>1, <2>2, MovedRows DEF Taken
  <2>5. req' = req
    BY <2>1 DEF ExtendUp, ReserveRange, GoOn, Finish
  <2>6. v.lo <= v.hi
    BY <2>2, <2>3 DEF Highest, Lowest
  <2>7. ASSUME NEW x \in rows', x.council = c, x.book = m
        PROVE  x.number <= v.hi
    <3>1. CASE x \in Reassigned(r)
      <4>1. PICK s \in v.snap : x.number = s.number
        BY <1>y, <3>1, ReassignedAreGiven
      <4>2. s.number \in q.start .. v.lo - 1
        BY <2>2, <4>1 DEF Taken
      <4>3. s.number \in Int /\ s.number <= v.lo - 1
        BY <4>2
      <4> QED
        BY <1>z, <2>6, <4>1, <4>3
    <3>2. CASE x \in rows
      BY <2>3, <2>7, <3>2 DEF Highest, Own
    <3> QED
      BY <2>4, <3>1, <3>2
  <2>8. h \in rows' /\ h.council = c /\ h.book = m
    BY <2>3, <2>4 DEF Highest, Own
  <2>9. h \in Highest(Own(c))'
    BY <2>3, <2>5, <2>7, <2>8 DEF Highest, Own
  <2> QED
    BY <2>1, <2>2, <2>3, <2>9, ExtendUpSeen
<1>4. CASE Return(r)
  <2>1. pc'[r] = "idle" /\ rows' = rows /\ view' = view
    BY <1>4 DEF Return, TypeInv, TypeOK
  <2>2. Seen(rows', req'[r], "idle", v)
    BY <1>y, <2>1 DEF Seen, ReserveAwaits, Moving, Downwards, Upwards
  <2> QED
    BY <2>1, <2>2 DEF SeenInv, OneAtATime
<1> QED
  BY <1>1, <1>2, <1>3, <1>4

(* The arrival of a request.                                                 *)
LEMMA BeginSeen ==
  ASSUME OneAtATime, TypeInv, SeenInv, NEW r \in Requests, Begin(r)
  PROVE  SeenInv'
<1> SUFFICES Seen(rows', req'[r], pc'[r], view'[r])
  BY DEF SeenInv, OneAtATime
<1>1. rows' = rows
  BY DEF Begin, BeginCreate, BeginReserve, BeginDocumentRemoved, Unwritten
<1>y. /\ view[r] \in View /\ pc[r] = "idle" /\ Fits(req[r], pc[r], view[r])
      /\ view[r].snap \subseteq rows
  BY DEF TypeInv, TypeOK, AwaitInv, SeenInv, Seen, Begin, BeginCreate,
     BeginReserve, BeginDocumentRemoved
<1>2. ASSUME NEW c \in Councils, NEW n \in Number, BeginCreate(r, c, n)
      PROVE  Seen(rows', req'[r], pc'[r], view'[r])
  <2>1. pc'[r] \in {"done", "next"} /\ view' = view
    BY <1>2 DEF BeginCreate, TypeInv, TypeOK
  <2> QED
    BY <1>1, <1>y, <2>1, FreeSeen
<1>3. ASSUME NEW c \in Councils, NEW g \in Ranges, BeginReserve(r, c, g)
      PROVE  Seen(rows', req'[r], pc'[r], view'[r])
  <2>1. pc'[r] = "reserveBook" /\ req'[r].council = c
    BY <1>3 DEF BeginReserve, TypeInv, TypeOK, NoRequest
  <2>2. PICK own : own = Own(c) /\ own = {x \in rows' : x.council = c /\ x.book = ModuleOf[c]}
    BY <1>1 DEF Own
  <2>3. ASSUME own = {}, view' = view
        PROVE  view'[r].hi = NoNumber /\ view'[r].snap \subseteq rows
    BY <1>y, <2>3 DEF Fits
  <2>4. ASSUME NEW l \in Lowest(own), NEW h \in Highest(own),
               view' = [view EXCEPT ![r].lo = l.number, ![r].hi = h.number]
        PROVE  /\ view'[r].lo = l.number /\ view'[r].hi = h.number
               /\ view'[r].snap \subseteq rows /\ h.number # NoNumber
    <3>1. view' = [view EXCEPT ![r] = [view[r] EXCEPT !.lo = l.number,
                                                     !.hi = h.number]]
      BY <2>4 DEF TypeInv, TypeOK
    <3>2. view'[r] = [view[r] EXCEPT !.lo = l.number, !.hi = h.number]
      BY <3>1 DEF TypeInv, TypeOK
    <3>3. /\ view'[r].lo = l.number /\ view'[r].hi = h.number
          /\ view'[r].snap = view[r].snap
      BY <1>y, <3>2 DEF View
    <3>4. h.number \in Number
      BY <2>2 DEF Highest, Own, TypeInv, TypeOK, Row
    <3> QED
      BY <1>y, <3>3, <3>4, NumerationAssumption DEF Number, NoNumber
  <2>5. \/ own = {} /\ view' = view
        \/ \E l \in Lowest(own), h \in Highest(own) :
             view' = [view EXCEPT ![r].lo = l.number, ![r].hi = h.number]
    BY <1>3, <2>2 DEF BeginReserve
  <2>6. /\ view'[r].snap \subseteq rows
        /\ \/ own = {} /\ view'[r].hi = NoNumber
           \/ /\ view'[r].hi # NoNumber
              /\ \E l \in Lowest(own) : view'[r].lo = l.number
              /\ \E h \in Highest(own) : view'[r].hi = h.number
    BY <2>3, <2>4, <2>5
  <2> QED
    BY <1>1, <2>1, <2>2, <2>6 DEF Seen, ReserveAwaits, Moving, Downwards, Upwards
<1>4. ASSUME NEW x \in rows, x.state # "RESERVED", BeginDocumentRemoved(r, x)
      PROVE  Seen(rows', req'[r], pc'[r], view'[r])
  <2>1. pc'[r] = "enqueue"
    BY <1>4 DEF BeginDocumentRemoved, TypeInv, TypeOK
  <2>2. view' = [view EXCEPT ![r] = [view[r] EXCEPT !.snap = {x}]]
    BY <1>4 DEF BeginDocumentRemoved, TypeInv, TypeOK
  <2>3. view'[r] = [view[r] EXCEPT !.snap = {x}]
    BY <2>2 DEF TypeInv, TypeOK
  <2>4. view'[r].snap = {x}
    BY <1>y, <2>3 DEF View
  <2> QED
    BY <1>1, <1>4, <2>1, <2>4 DEF Seen, ReserveAwaits, Moving, Downwards, Upwards
<1> QED
  BY <1>2, <1>3, <1>4 DEF Begin

(* The table stays finite.                                                   *)
LEMMA SaveRowsFinite ==
  ASSUME IsFiniteSet(rows), NEW saved, IsFiniteSet(saved), SaveRows(saved)
  PROVE  IsFiniteSet(rows')
<1> DEFINE kept == {x \in rows : \A y \in saved : y.id # x.id}
<1>1. kept \in SUBSET rows /\ rows' = kept \cup saved
  BY DEF SaveRows
<1> HIDE DEF kept
<1> QED
  BY <1>1, FS_Subset, FS_Union

LEMMA ReassignedFinite ==
  ASSUME IsFiniteSet(rows), NEW r, view[r].snap \subseteq rows
  PROVE  IsFiniteSet(Reassigned(r))
<1> DEFINE S == view[r].snap
           c == req[r].council
           g == [x \in S |-> Given(x, c)]
           T == {Given(x, c) : x \in S}
<1>1. Reassigned(r) = T
  BY DEF Reassigned, Given
<1>2. g \in [S -> T] /\ \A x \in S : g[x] = Given(x, c)
  OBVIOUS
<1>3. \A y \in T : \E x \in S : g[x] = y
  OBVIOUS
<1> HIDE DEF g, T
<1>4. g \in Surjection(S, T)
  BY <1>2, <1>3 DEF Surjection
<1>5. IsFiniteSet(S)
  BY FS_Subset
<1> QED
  BY <1>1, <1>4, <1>5, FS_Surjection

LEMMA FiniteStep ==
  ASSUME TypeInv, FirmInv, [Keep]_vars
  PROVE  IsFiniteSet(rows')
<1>a. Unwritten => IsFiniteSet(rows')
  BY DEF FirmInv, Unwritten
<1>b. ASSUME NEW n, NEW state, NEW c, InsertRow(n, state, c)
      PROVE  IsFiniteSet(rows')
  BY <1>b, FS_AddElement DEF FirmInv, InsertRow
<1>c. ASSUME NEW z, SaveRows({z}) PROVE IsFiniteSet(rows')
  BY <1>c, FS_Singleton, SaveRowsFinite DEF FirmInv
<1>d. ASSUME NEW r \in Requests PROVE Seen(rows, req[r], pc[r], view[r])
                                     /\ view[r].snap \subseteq rows
  BY <1>d DEF FirmInv, SeenInv, Seen
<1>1. ASSUME NEW r \in Requests, Begin(r) PROVE IsFiniteSet(rows')
  BY <1>1, <1>a DEF Begin, BeginCreate, BeginReserve, BeginDocumentRemoved
<1>2. ASSUME NEW r \in Requests, SaveUsed(r) PROVE IsFiniteSet(rows')
  <2>1. PICK x \in rows : view[r].snap = {x}
    BY <1>2, <1>d DEF SaveUsed, Seen
  <2>2. SaveRows({[x EXCEPT !.state = "USED"]})
    BY <1>2, <2>1 DEF SaveUsed
  <2> QED
    BY <1>c, <2>2
<1>3. ASSUME NEW r \in Requests, MoveBelow(r) \/ MoveAbove(r)
      PROVE  IsFiniteSet(rows')
  BY <1>3, <1>d, ReassignedFinite, SaveRowsFinite DEF MoveBelow, MoveAbove, FirmInv
<1>4. ASSUME NEW r \in Requests, Enqueue(r) PROVE IsFiniteSet(rows')
  BY <1>4, <1>a, <1>c DEF Enqueue
<1>5. ASSUME NEW r \in Requests, InsertReserved(r) \/ InsertUsed(r)
      PROVE  IsFiniteSet(rows')
  BY <1>5, <1>b DEF InsertReserved, InsertUsed
<1>6. ASSUME NEW r \in Requests, Serve(r),
             ~ SaveUsed(r), ~ MoveBelow(r), ~ MoveAbove(r), ~ Enqueue(r),
             ~ InsertReserved(r), ~ InsertUsed(r)
      PROVE  rows' = rows
  BY <1>6 DEF Serve, CheckNext, ReadBook, ReadOwn, ReadAvailable,
     ReserveReadBook, ReserveCheckLast, ReserveCheckNext, FindBelow, ReadBelow,
     FindAbove, ReadAbove, Return, Unwritten
<1>7. ASSUME NEW c \in Closable, SetActive(c) PROVE rows' = rows
  BY <1>7 DEF SetActive
<1>8. Restart \/ UNCHANGED vars => rows' = rows
  BY DEF Restart, Unwritten, vars
<1>9. rows' = rows => IsFiniteSet(rows')
  BY DEF FirmInv
<1> QED
  BY <1>1, <1>2, <1>3, <1>4, <1>5, <1>6, <1>7, <1>8, <1>9 DEF Keep

(* FirmInv is kept by every step that deletes no row.                        *)
LEMMA FirmStep ==
  ASSUME OneAtATime, TypeInv, BookInv, UniqueInv, FirmInv, [Keep]_vars
  PROVE  FirmInv'
<1> USE DEF FirmInv, UniqueInv, IdInv, BookInv
<1>1. ASSUME NEW r \in Requests, Begin(r) PROVE SeenInv'
  BY <1>1, BeginSeen
<1>2. ASSUME NEW r \in Requests, Serve(r) PROVE SeenInv'
  BY <1>2, CreateSeen, ReserveSeen, NeighbourSeen, WriteSeen DEF Serve
<1>3. ASSUME NEW c \in Closable, SetActive(c) PROVE SeenInv'
  BY <1>3 DEF SetActive, SeenInv
<1>4. ASSUME Restart PROVE SeenInv'
  <2> HIDE DEF NothingRead
  <2>1. \A s \in Requests : pc'[s] = "idle" /\ view'[s] = NothingRead
    BY <1>4 DEF Restart
  <2> QED
    BY <2>1, AtRestSeen DEF SeenInv
<1>5. UNCHANGED vars => SeenInv'
  BY DEF vars, SeenInv
<1> QED
  BY <1>1, <1>2, <1>3, <1>4, <1>5, FiniteStep DEF Keep

-------------------------------------------------------------------------------
(***************************************************************************)
(* All that holds when requests are served one at a time.                  *)
(***************************************************************************)

(* With and without deletions of rows; and without.                          *)
TableInv == TypeInv /\ BookInv /\ UniqueInv /\ FirmInv
SerialInv == TableInv /\ GapInv

(* Rows keep identifiers of their own.                                       *)
LEMMA RowsStep ==
  ASSUME TypeInv, IdInv, [Keep]_vars
  PROVE  RowsInv'
<1> USE DEF IdInv
<1>a. Unwritten => RowsInv'
  BY UnwrittenKeys
<1>b. ASSUME NEW n, NEW state, NEW c, InsertRow(n, state, c) PROVE RowsInv'
  BY <1>b, InsertRowKeys DEF TypeInv
<1>1. ASSUME NEW r \in Requests, Begin(r) PROVE RowsInv'
  BY <1>1, <1>a DEF Begin, BeginCreate, BeginReserve, BeginDocumentRemoved
<1>2. ASSUME NEW r \in Requests,
             \/ SaveUsed(r) \/ MoveBelow(r) \/ MoveAbove(r) \/ Enqueue(r)
             \/ InsertReserved(r) \/ InsertUsed(r)
      PROVE  RowsInv'
  BY <1>2, <1>b, SaveUsedKeys, ReassignedKeys, EnqueueKeys
  DEF MoveBelow, MoveAbove, InsertReserved, InsertUsed
<1>3. ASSUME NEW r \in Requests, Serve(r),
             ~ SaveUsed(r), ~ MoveBelow(r), ~ MoveAbove(r), ~ Enqueue(r),
             ~ InsertReserved(r), ~ InsertUsed(r)
      PROVE  rows' = rows /\ nextId' = nextId
  BY <1>3 DEF Serve, CheckNext, ReadBook, ReadOwn, ReadAvailable,
     ReserveReadBook, ReserveCheckLast, ReserveCheckNext, FindBelow, ReadBelow,
     FindAbove, ReadAbove, Return, Unwritten
<1>4. ASSUME NEW c \in Closable, SetActive(c)
      PROVE  rows' = rows /\ nextId' = nextId
  BY <1>4 DEF SetActive
<1>5. Restart \/ UNCHANGED vars => rows' = rows /\ nextId' = nextId
  BY DEF Restart, Unwritten, vars
<1>6. rows' = rows /\ nextId' = nextId => RowsInv'
  BY DEF RowsInv
<1> QED
  BY <1>1, <1>2, <1>3, <1>4, <1>5, <1>6 DEF Keep

(* TableInv is kept by every step that deletes no row, whatever rows were    *)
(* deleted before.                                                           *)
LEMMA TableStep ==
  ASSUME OneAtATime, TableInv, [Keep]_vars
  PROVE  TableInv'
<1> USE DEF TableInv
<1>1. [Next]_vars
  BY DEF Next
<1>2. TypeInv' /\ BookInv'
  BY <1>1, TypeStep, BookStep
<1>3. FirmInv' /\ RowsInv'
  BY FirmStep, RowsStep DEF UniqueInv
<1>4. \A r \in Requests : view[r].snap' \subseteq rows'
  BY <1>3 DEF FirmInv, SeenInv, Seen
<1>5. ReadInv'
  BY <1>3, <1>4 DEF RowsInv, ReadInv, ReadRows, Keys
<1> QED
  BY <1>2, <1>3, <1>5, UniqueStep DEF IdInv

LEMMA SerialInit == Init => SerialInv
<1>1. Init => BookInv
  BY DEF Init, BookInv, BookOfCouncil, SnapInv, SnapFits, NothingRead
<1>2. ASSUME Init PROVE FirmInv
  <2> HIDE DEF NothingRead
  <2>1. \A s \in Requests : Seen(rows, req[s], pc[s], view[s])
    BY <1>2, AtRestSeen DEF Init
  <2> QED
    BY <1>2, <2>1, FS_EmptySet DEF Init, FirmInv, SeenInv
<1> QED
  BY <1>1, <1>2, TypeInit, UniqueInit DEF SerialInv, TableInv

LEMMA SerialStep ==
  ASSUME OneAtATime
  PROVE  SerialInv /\ [Keep]_vars => SerialInv'
<1> SUFFICES ASSUME SerialInv, [Keep]_vars PROVE SerialInv'
  OBVIOUS
<1>1. [Next]_vars
  BY DEF Next
<1>2. TypeInv' /\ BookInv' /\ GapInv'
  BY <1>1, TypeStep, BookStep, GapStep DEF SerialInv, TableInv
<1>3. UniqueInv'
  BY <1>2, UniqueStep DEF SerialInv, TableInv, GapInv
<1>4. FirmInv'
  BY FirmStep DEF SerialInv, TableInv
<1> QED
  BY <1>2, <1>3, <1>4 DEF SerialInv, TableInv

(* A number in use stays with its council until its document is removed.     *)
Stays(x) ==
  \/ x \notin rows' /\ rows' = rows \ {x}
  \/ \E y \in rows' : /\ y.id = x.id /\ y.number = x.number
                      /\ y.council = x.council
                      /\ \/ y.state = "USED"
                         \/ \E r \in Requests : pc[r] = "enqueue"

LEMMA UsedStaysStep ==
  ASSUME OneAtATime, TableInv, [Keep]_vars, NEW x \in rows, x.state = "USED"
  PROVE  Stays(x)
<1>0. /\ TypeInv /\ RowsInv /\ SeenInv /\ x \in Row
      /\ \A s \in Requests : Seen(rows, req[s], pc[s], view[s])
                             /\ view[s].snap \subseteq rows
  BY DEF SerialInv, TableInv, UniqueInv, IdInv, FirmInv, SeenInv, Seen, TypeInv, TypeOK
<1>a. x \in rows' => Stays(x)
  BY DEF Stays
<1>b. Unwritten => Stays(x)
  BY <1>a DEF Unwritten
<1>c. ASSUME NEW n, NEW state, NEW c, InsertRow(n, state, c) PROVE Stays(x)
  BY <1>a, <1>c DEF InsertRow
<1>1. ASSUME NEW r \in Requests, Begin(r) PROVE Stays(x)
  BY <1>1, <1>b DEF Begin, BeginCreate, BeginReserve, BeginDocumentRemoved
<1>2. ASSUME NEW r \in Requests, SaveUsed(r) PROVE Stays(x)
  <2>1. PICK y \in rows : view[r].snap = {y} /\ y.state # "USED"
    BY <1>2, <1>0 DEF SaveUsed, Seen
  <2>5. PICK z : z = [y EXCEPT !.state = "USED"]
    OBVIOUS
  <2>6. {[w EXCEPT !.state = "USED"] : w \in {y}} = {z}
    BY <2>5
  <2>2. z = [y EXCEPT !.state = "USED"] /\ SaveRows({z})
    BY <1>2, <2>1, <2>5, <2>6 DEF SaveUsed
  <2>3. z.id = y.id
    BY <2>1, <2>2 DEF TypeInv, TypeOK, Row
  <2>4. x.id # z.id
    BY <1>0, <2>1, <2>3 DEF RowsInv
  <2> QED
    BY <1>a, <2>2, <2>4 DEF SaveRows
<1>3. ASSUME NEW r \in Requests, MoveBelow(r) \/ MoveAbove(r) PROVE Stays(x)
  <2>1. pc[r] \in Moving /\ SaveRows(Reassigned(r))
    BY <1>3 DEF MoveBelow, MoveAbove, Moving
  <2>2. \A s \in view[r].snap : s.council # req[r].council /\ s.state = "RESERVED"
    BY <1>0, <2>1 DEF Seen, Taken, Moving
  <2>3. rows' = (rows \ view[r].snap) \cup Reassigned(r)
    BY <1>0, <2>1, <2>2, MovedRows
  <2> QED
    BY <1>a, <2>2, <2>3
<1>4. ASSUME NEW r \in Requests, Enqueue(r) PROVE Stays(x)
  <2>1. PICK s \in rows : view[r].snap = {s}
    BY <1>4, <1>0 DEF Enqueue, Seen
  <2>2. ASSUME NEW y \in rows, y.id = s.id,
               SaveRows({[y EXCEPT !.state = "ENQUEUED", !.number = s.number]})
        PROVE  Stays(x)
    <3>1. y = s
      BY <1>0, <2>2 DEF RowsInv
    <3>2. PICK z : /\ z = [y EXCEPT !.state = "ENQUEUED", !.number = s.number]
                   /\ SaveRows({z})
      BY <2>2
    <3>3. z.id = s.id /\ z.number = s.number /\ z.council = s.council
      BY <3>1, <3>2 DEF SerialInv, TableInv, TypeInv, TypeOK, Row
    <3>4. CASE x = s
      BY <1>4, <3>2, <3>3, <3>4 DEF Stays, SaveRows, Enqueue
    <3>5. CASE x # s
      <4>1. x.id # z.id
        BY <1>0, <3>3, <3>5 DEF RowsInv
      <4> QED
        BY <1>a, <3>2, <4>1 DEF SaveRows
    <3> QED
      BY <3>4, <3>5
  <2> QED
    BY <1>4, <1>b, <2>1, <2>2 DEF Enqueue
<1>5. ASSUME NEW r \in Requests, InsertReserved(r) \/ InsertUsed(r)
      PROVE  Stays(x)
  BY <1>5, <1>c DEF InsertReserved, InsertUsed
<1>6. ASSUME NEW r \in Requests, Serve(r),
             ~ SaveUsed(r), ~ MoveBelow(r), ~ MoveAbove(r), ~ Enqueue(r),
             ~ InsertReserved(r), ~ InsertUsed(r)
      PROVE  rows' = rows
  BY <1>6 DEF Serve, CheckNext, ReadBook, ReadOwn, ReadAvailable,
     ReserveReadBook, ReserveCheckLast, ReserveCheckNext, FindBelow, ReadBelow,
     FindAbove, ReadAbove, Return, Unwritten
<1>7. ASSUME NEW c \in Closable, SetActive(c) PROVE rows' = rows
  BY <1>7 DEF SetActive
<1>8. Restart \/ UNCHANGED vars => rows' = rows
  BY DEF Restart, Unwritten, vars
<1> QED
  BY <1>1, <1>2, <1>3, <1>4, <1>5, <1>6, <1>7, <1>8, <1>a DEF Keep

(* As long as requests are served one at a time and no row is deleted, a     *)
(* number in use stays with its council: only the removal of its document    *)
(* takes it out of use, and no extension of a range takes it away.           *)
THEOREM NumbersInUseStay ==
  ASSUME OneAtATime
  PROVE  KeepSpec => UsedStays
<1> DEFINE Kept ==
      \A x \in rows : x.state = "USED" =>
        \/ x \notin rows' /\ rows' = rows \ {x}
        \/ \E y \in rows' : /\ y.id = x.id /\ y.number = x.number
                            /\ y.council = x.council
                            /\ \/ y.state = "USED"
                               \/ \E r \in Requests : pc[r] = "enqueue"
<1>1. SerialInv /\ [Keep]_vars => [Kept]_vars
  BY UsedStaysStep DEF Stays, SerialInv
<1>2. SerialInv /\ [Keep]_vars => SerialInv'
  BY SerialStep
<1> QED
  BY <1>1, <1>2, SerialInit, PTL DEF KeepSpec, UsedStays

-------------------------------------------------------------------------------
(***************************************************************************)
(* What the service advises.                                               *)
(***************************************************************************)

(* A number suggested that is not the next one is a free one of the council. *)
LEMMA SuggestedIsOwn ==
  ASSUME TypeInv, NEW c, NEW n, Suggests(c, n), ~ IsNext(ModuleOf[c], n)
  PROVE  \E x \in rows : /\ x.council = c /\ x.book = ModuleOf[c]
                         /\ x.number = n /\ x.state # "USED"
<1> DEFINE enqueued == {x \in Own(c) : x.state = "ENQUEUED"}
           reserved == {x \in Own(c) : x.state = "RESERVED"}
<1>1. PICK S : S = (IF enqueued # {} THEN enqueued ELSE reserved)
               /\ \E x \in Lowest(S) : n = x.number
  BY DEF Suggests
<1>2. \A x \in S : x \in Own(c) /\ x.state # "USED"
  BY <1>1
<1> QED
  BY <1>1, <1>2 DEF Lowest, Own

(* A number in use is never suggested.                                       *)
LEMMA UsedNotSuggested ==
  ASSUME TypeInv, RowsInv, UniqueNumbers, NEW c, NEW t \in rows,
         t.book = ModuleOf[c], t.state = "USED"
  PROVE  ~ Suggests(c, t.number)
<1> PICK n : n = t.number
  OBVIOUS
<1>1. n \in Numbers(ModuleOf[c])
  BY DEF Numbers, InBook
<1>2. ~ IsNext(ModuleOf[c], n)
  <2> SUFFICES ASSUME IsNext(ModuleOf[c], n) PROVE FALSE
    OBVIOUS
  <2>1. n \in Nat /\ n < n
    BY <1>1, NextFresh
  <2> QED
    BY <2>1
<1>3. ASSUME NEW x \in rows, x.book = ModuleOf[c], x.number = n
      PROVE  x.state = "USED"
  BY <1>3 DEF UniqueNumbers, RowsInv
<1> QED
  BY <1>2, <1>3, SuggestedIsOwn

(* What is suggested depends on the rows alone.                              *)
LEMMA SameRowsSameAdvice ==
  ASSUME rows' = rows, NEW c, NEW n
  PROVE  /\ IsNext(ModuleOf[c], n)' = IsNext(ModuleOf[c], n)
         /\ Suggests(c, n)' = Suggests(c, n)
         /\ Own(c)' = Own(c)
         /\ Highest(InBook(ModuleOf[c]))' = Highest(InBook(ModuleOf[c]))
<1>1. /\ Own(c)' = Own(c) /\ InBook(ModuleOf[c])' = InBook(ModuleOf[c])
  BY DEF Own, InBook
<1>2. \A S : Highest(S)' = Highest(S)
  BY DEF Highest
<1> QED
  BY <1>1, <1>2 DEF IsNext, Suggests, Highest, Lowest

(* What AdviceInv says of one request, of council c for number n.            *)
Advised(at, answer, op, c, n) ==
  /\ at \in {"book", "own", "available"} => ~ IsNext(ModuleOf[c], n)
  /\ at = "done" /\ op = "create" /\ c \in Presided /\ answer # "ok" =>
       ~ Suggests(c, n)
  /\ at = "done" /\ answer = "notLast" =>
       /\ Own(c) # {}
       /\ \A t \in Highest(InBook(ModuleOf[c])) : t.council # c

LEMMA AdvisedIsAdviceInv ==
  AdviceInv <=> \A r \in Requests :
                  Advised(pc[r], reply[r], req[r].op, req[r].council, req[r].number)
  BY DEF AdviceInv, NotNextInv, SuggestionAccepted, NotLastInv, Advised

(* The same, for the only request.                                           *)
LEMMA OnlyRequestAdvised ==
  ASSUME OneAtATime, NEW r \in Requests, NEW at, at = pc'[r],
         NEW answer, answer = reply'[r], NEW op, op = req'[r].op,
         NEW c, c = req'[r].council, NEW n, n = req'[r].number,
         Advised(at, answer, op, c, n)'
  PROVE  AdviceInv'
<1>1. \A s \in Requests : s = r
  BY DEF OneAtATime
<1>2. /\ (\A s \in Requests : pc[s] \in {"book", "own", "available"} =>
            ~ IsNext(ModuleOf[req[s].council], req[s].number))'
      /\ (\A s \in Requests :
            /\ pc[s] = "done" /\ req[s].op = "create"
            /\ req[s].council \in Presided
            /\ reply[s] # "ok"
            => ~ Suggests(req[s].council, req[s].number))'
      /\ (\A s \in Requests :
            pc[s] = "done" /\ reply[s] = "notLast" =>
              /\ Own(req[s].council) # {}
              /\ \A t \in Highest(InBook(ModuleOf[req[s].council])) :
                   t.council # req[s].council)'
  BY <1>1 DEF Advised
<1> QED
  BY <1>2 DEF AdviceInv, NotNextInv, SuggestionAccepted, NotLastInv

(* The awaits that AdviceInv says nothing of.                                *)
LEMMA QuietAdvised ==
  ASSUME OneAtATime, NEW r \in Requests,
         pc'[r] \notin {"book", "own", "available", "done"}
  PROVE  AdviceInv'
<1> PICK at, answer, op, c, n : /\ at = pc'[r] /\ answer = reply'[r]
                                /\ op = req'[r].op /\ c = req'[r].council
                                /\ n = req'[r].number
  OBVIOUS
<1>1. Advised(at, answer, op, c, n)'
  BY DEF Advised
<1> QED
  BY <1>1, OnlyRequestAdvised

(* A handler goes on to look for a number that is not the next one.          *)
LEMMA GoOnAdvised ==
  ASSUME OneAtATime, TypeInv, NEW r \in Requests, NEW to, NEW v, GoOn(r, to, v),
         \/ to \notin {"book", "own", "available", "done"}
         \/ /\ to \in {"book", "own", "available"} /\ Unwritten
            /\ ~ IsNext(ModuleOf[req[r].council], req[r].number)
  PROVE  AdviceInv'
<1>1. req' = req /\ pc'[r] = to
  BY DEF GoOn, TypeInv, TypeOK
<1>2. CASE to \notin {"book", "own", "available", "done"}
  BY <1>1, <1>2, QuietAdvised
<1>3. CASE /\ to \in {"book", "own", "available"} /\ Unwritten
           /\ ~ IsNext(ModuleOf[req[r].council], req[r].number)
  <2> PICK answer, op, c, n : /\ answer = reply'[r]
                              /\ op = req'[r].op /\ c = req'[r].council
                              /\ n = req'[r].number
    OBVIOUS
  <2>1. rows' = rows /\ ~ IsNext(ModuleOf[c], n)
    BY <1>1, <1>3 DEF Unwritten
  <2>2. ~ IsNext(ModuleOf[c], n)'
    BY <2>1, SameRowsSameAdvice
  <2>3. Advised(to, answer, op, c, n)'
    BY <1>3, <2>2 DEF Advised
  <2> QED
    BY <1>1, <2>3, OnlyRequestAdvised
<1> QED
  BY <1>2, <1>3

(* A handler is done: it granted what was asked, or had not advised it.      *)
LEMMA FinishAdvised ==
  ASSUME OneAtATime, TypeInv, NEW r \in Requests, NEW status,
         Finish(r, status),
         NEW c, c = req[r].council, NEW n, n = req[r].number,
         \/ status = "ok"
         \/ status # "notLast" /\ req[r].op # "create"
         \/ rows' = rows /\ Advised("done", status, req[r].op, c, n)
  PROVE  AdviceInv'
<1>1. req' = req /\ pc'[r] = "done" /\ reply'[r] = status
  BY DEF Finish, TypeInv, TypeOK
<1> PICK op : op = req[r].op
  OBVIOUS
<1>2. CASE status = "ok"
  BY <1>1, <1>2, OnlyRequestAdvised DEF Advised
<1>3. CASE status # "notLast" /\ req[r].op # "create"
  BY <1>1, <1>3, OnlyRequestAdvised DEF Advised
<1>4. CASE rows' = rows /\ Advised("done", status, req[r].op, c, n)
  <2>1. Advised("done", status, op, c, n)'
    BY <1>4, SameRowsSameAdvice DEF Advised
  <2> QED
    BY <1>1, <2>1, OnlyRequestAdvised
<1> QED
  BY <1>2, <1>3, <1>4

LEMMA CreateAdvised ==
  ASSUME OneAtATime, SerialInv, AdviceInv, NEW r \in Requests,
         CheckNext(r) \/ ReadBook(r) \/ ReadOwn(r) \/ ReadAvailable(r)
  PROVE  AdviceInv'
<1> PICK c : c = req[r].council
  OBVIOUS
<1> PICK n : n = req[r].number
  OBVIOUS
<1>0. TypeInv /\ RowsInv /\ UniqueNumbers /\ BookOfCouncil
  BY DEF SerialInv, TableInv, UniqueInv, IdInv, BookInv
<1>f. Unwritten /\ rows' = rows
  BY DEF CheckNext, ReadBook, ReadOwn, ReadAvailable, Unwritten
<1>q. ASSUME NEW to, to \notin {"book", "own", "available", "done"},
             NEW v, GoOn(r, to, v)
      PROVE  AdviceInv'
  BY <1>0, <1>q, GoOnAdvised
<1>1. CASE CheckNext(r)
  <2>1. ASSUME Finish(r, "noPresident"), c \notin Presided PROVE AdviceInv'
    BY <1>0, <1>f, <2>1, FinishAdvised DEF Advised
  <2> QED
    BY <1>1, <1>0, <1>f, <1>q, <2>1, GoOnAdvised DEF CheckNext
<1>n. pc[r] \in {"book", "own", "available"} => ~ IsNext(ModuleOf[c], n)
  BY DEF AdviceInv, NotNextInv
<1>2. CASE ReadBook(r)
  <2>1. ~ IsNext(ModuleOf[c], n)
    BY <1>2, <1>n DEF ReadBook
  <2>2. \/ \E v : GoOn(r, "range", v) \/ GoOn(r, "insert", v) \/ GoOn(r, "own", v)
    BY <1>2 DEF ReadBook
  <2> QED
    BY <1>0, <1>f, <1>q, <2>1, <2>2, GoOnAdvised
(* A refusal when no free row of the council has the number.                 *)
<1>r. ASSUME NEW status, status # "notLast", Finish(r, status),
             ~ IsNext(ModuleOf[c], n),
             ~ \E x \in rows : /\ x.council = c /\ x.book = ModuleOf[c]
                               /\ x.number = n /\ x.state # "USED"
      PROVE  AdviceInv'
  <2>1. ~ Suggests(c, n)
    BY <1>0, <1>r, SuggestedIsOwn
  <2>2. \A op : Advised("done", status, op, c, n)
    BY <1>r, <2>1 DEF Advised
  <2> QED
    BY <1>0, <1>f, <1>r, <2>2, FinishAdvised
<1>3. CASE ReadOwn(r)
  <2>1. ~ IsNext(ModuleOf[c], n)
    BY <1>3, <1>n DEF ReadOwn
  <2>2. ASSUME {x \in rows : x.council = c} = {}, Finish(r, "otherCouncil")
        PROVE  AdviceInv'
    BY <1>r, <2>1, <2>2
  <2>3. ASSUME NEW t \in rows, t.council = c, t.state = "USED", t.number = n,
               Finish(r, "inUse")
        PROVE  AdviceInv'
    <3>1. t.book = ModuleOf[c]
      BY <1>0, <2>3 DEF BookOfCouncil
    <3>2. \A x \in rows : x.book = ModuleOf[c] /\ x.number = n => x = t
      BY <1>0, <2>3, <3>1 DEF UniqueNumbers, RowsInv
    <3> QED
      BY <1>r, <2>1, <2>3, <3>2
  <2>4. AppendTo(r) => AdviceInv'
    BY <1>q DEF AppendTo
  <2>5. ASSUME NEW v, GoOn(r, "available", v) PROVE AdviceInv'
    BY <1>0, <1>f, <2>1, <2>5, GoOnAdvised
  <2>6. \/ {x \in rows : x.council = c} = {} /\ Finish(r, "otherCouncil")
        \/ AppendTo(r)
        \/ GoOn(r, "available", view[r])
        \/ \E t \in Highest({x \in rows : x.council = c}) :
             t.state = "USED" /\ t.number = n /\ Finish(r, "inUse")
    BY <1>3 DEF ReadOwn
  <2> QED
    BY <2>2, <2>3, <2>4, <2>5, <2>6 DEF Highest
<1>4. CASE ReadAvailable(r)
  <2>1. ~ IsNext(ModuleOf[c], n)
    BY <1>4, <1>n DEF ReadAvailable
  <2>2. ASSUME NEW status \in {"noneAvailable", "otherCouncil"}, Finish(r, status),
               {x \in rows : x.council = c /\ x.state # "USED" /\ x.number = n} = {}
        PROVE  AdviceInv'
    BY <1>r, <2>1, <2>2
  <2>3. \/ Finish(r, "noneAvailable") /\ {x \in rows : x.council = c /\ x.state # "USED"} = {}
        \/ Finish(r, "otherCouncil") /\ {x \in rows : x.council = c /\ x.state # "USED" /\ x.number = n} = {}
        \/ \E v : GoOn(r, "save", v)
    BY <1>4 DEF ReadAvailable
  <2> QED
    BY <1>q, <2>2, <2>3
<1> QED
  BY <1>1, <1>2, <1>3, <1>4

LEMMA ReserveAdvised ==
  ASSUME OneAtATime, SerialInv, AdviceInv, NEW r \in Requests,
         ReserveReadBook(r) \/ ReserveCheckLast(r) \/ ReserveCheckNext(r)
  PROVE  AdviceInv'
<1> PICK c : c = req[r].council
  OBVIOUS
<1>0. TypeInv /\ RowsInv /\ UniqueNumbers /\ Seen(rows, req[r], pc[r], view[r])
  BY DEF SerialInv, TableInv, UniqueInv, IdInv, FirmInv, SeenInv
<1>1. pc[r] \in ReserveAwaits /\ req[r].op = "reserve"
  BY <1>0 DEF ReserveReadBook, ReserveCheckLast, ReserveCheckNext, TypeInv,
     AwaitInv, Fits, ReserveAwaits
<1>q. ASSUME NEW to, to \notin {"book", "own", "available", "done"},
             NEW v, GoOn(r, to, v)
      PROVE  AdviceInv'
  BY <1>0, <1>q, GoOnAdvised
<1>b. ASSUME NEW status, status # "notLast", Finish(r, status) PROVE AdviceInv'
  BY <1>0, <1>1, <1>b, FinishAdvised
<1>g. ASSUME NEW first, NEW last, NEW v, ReserveRange(r, first, last, v)
      PROVE  AdviceInv'
  BY <1>b, <1>g, <1>q DEF ReserveRange
<1>2. CASE ReserveReadBook(r)
  <2>1. ASSUME NEW v, ExtendUp(r, v) PROVE AdviceInv'
    BY <1>b, <1>g, <1>q, <2>1 DEF ExtendUp
  <2>2. \E v : \/ GoOn(r, "reserveLast", v) \/ Finish(r, "noRows")
               \/ GoOn(r, "down", v) \/ ExtendUp(r, v)
    BY <1>2 DEF ReserveReadBook
  <2> QED
    BY <1>b, <1>q, <2>1, <2>2
<1>3. CASE ReserveCheckLast(r)
  <2>1. ASSUME NEW t \in Highest(InBook(ModuleOf[c])), t.council # c,
               view[r].hi # NoNumber, Finish(r, "notLast")
        PROVE  AdviceInv'
    <3>1. Own(c) # {}
      BY <1>0, <1>1, <2>1 DEF Seen, Own, Highest
    <3>2. \A u \in Highest(InBook(ModuleOf[c])) : u.council # c
      <4>1. \A u \in Highest(InBook(ModuleOf[c])) :
              /\ u \in rows /\ u.book = ModuleOf[c]
              /\ u.number <= t.number /\ t.number <= u.number
              /\ u.number \in Nat /\ t.number \in Nat
        BY <1>0, NumerationAssumption DEF Highest, InBook, TypeInv, TypeOK, Row, Number
      <4>2. \A u \in Highest(InBook(ModuleOf[c])) : u.number = t.number
        BY <4>1
      <4>3. t \in rows /\ t.book = ModuleOf[c]
        BY DEF Highest, InBook
      <4> QED
        BY <1>0, <2>1, <4>1, <4>2, <4>3 DEF UniqueNumbers, RowsInv
    <3>3. \A n : Advised("done", "notLast", "reserve", c, n)
      BY <3>1, <3>2 DEF Advised
    <3>4. rows' = rows
      BY <1>3 DEF ReserveCheckLast, Unwritten
    <3> QED
      BY <1>0, <1>1, <2>1, <3>3, <3>4, FinishAdvised
  <2>2. \/ \E t \in Highest(InBook(ModuleOf[c])) :
             t.council # c /\ view[r].hi # NoNumber /\ Finish(r, "notLast")
        \/ Finish(r, "crash") \/ Finish(r, "notNext")
        \/ GoOn(r, "reserveNext", view[r])
    BY <1>3 DEF ReserveCheckLast
  <2> QED
    BY <1>b, <1>q, <2>1, <2>2
<1>4. CASE ReserveCheckNext(r)
  <2>1. \/ \E n : ReserveRange(r, n, req[r].end, view[r])
        \/ Finish(r, "notNext")
    BY <1>4 DEF ReserveCheckNext
  <2> QED
    BY <1>b, <1>g, <2>1
<1> QED
  BY <1>2, <1>3, <1>4

LEMMA OtherAdvised ==
  ASSUME OneAtATime, SerialInv, AdviceInv, NEW r \in Requests,
         \/ FindBelow(r) \/ ReadBelow(r) \/ MoveBelow(r)
         \/ FindAbove(r) \/ ReadAbove(r) \/ MoveAbove(r)
         \/ SaveUsed(r) \/ InsertReserved(r) \/ InsertUsed(r)
         \/ Enqueue(r) \/ Return(r)
  PROVE  AdviceInv'
<1>0. /\ TypeInv /\ Fits(req[r], pc[r], view[r])
      /\ Seen(rows, req[r], pc[r], view[r])
  BY DEF SerialInv, TableInv, FirmInv, SeenInv, TypeInv, AwaitInv
<1>q. ASSUME NEW to, to \notin {"book", "own", "available", "done"},
             NEW v, GoOn(r, to, v)
      PROVE  AdviceInv'
  BY <1>0, <1>q, GoOnAdvised
<1>o. Finish(r, "ok") => AdviceInv'
  BY <1>0, FinishAdvised
<1>b. ASSUME NEW status, status # "notLast", pc[r] \in ReserveAwaits,
             Finish(r, status)
      PROVE  AdviceInv'
  BY <1>0, <1>b, FinishAdvised DEF Fits
<1>1. CASE \/ FindBelow(r) \/ ReadBelow(r) \/ MoveBelow(r)
           \/ FindAbove(r) \/ ReadAbove(r)
  <2>1. pc[r] \in ReserveAwaits
    BY <1>1 DEF FindBelow, ReadBelow, MoveBelow, FindAbove, ReadAbove, ReserveAwaits
  <2>2. ASSUME NEW v, ExtendUp(r, v) PROVE AdviceInv'
    BY <1>b, <1>q, <2>1, <2>2 DEF ExtendUp, ReserveRange
  <2>3. \/ Finish(r, "inUse")
        \/ \E v : ExtendUp(r, v)
        \/ \E v : \/ GoOn(r, "downRead", v) \/ GoOn(r, "downMove", v)
                  \/ GoOn(r, "upRead", v) \/ GoOn(r, "upMove", v)
    BY <1>1 DEF FindBelow, ReadBelow, MoveBelow, FindAbove, ReadAbove
  <2> QED
    BY <1>b, <1>q, <2>1, <2>2, <2>3
<1>2. CASE MoveAbove(r) \/ SaveUsed(r) \/ InsertReserved(r) \/ InsertUsed(r)
  BY <1>2, <1>o, <1>q DEF MoveAbove, SaveUsed, InsertReserved, InsertUsed
<1>3. CASE Enqueue(r)
  <2>1. Finish(r, "ok")
    BY <1>0, <1>3 DEF Enqueue, Seen
  <2> QED
    BY <1>o, <2>1
<1>4. CASE Return(r)
  <2>1. pc'[r] = "idle"
    BY <1>0, <1>4 DEF Return, TypeInv, TypeOK
  <2> QED
    BY <2>1, QuietAdvised
<1> QED
  BY <1>1, <1>2, <1>3, <1>4

LEMMA BeginAdvised ==
  ASSUME OneAtATime, SerialInv, NEW r \in Requests, Begin(r)
  PROVE  AdviceInv'
<1>0. TypeInv /\ RowsInv /\ UniqueNumbers
  BY DEF SerialInv, TableInv, UniqueInv, IdInv
<1>1. ASSUME NEW c \in Councils, NEW n \in Number, BeginCreate(r, c, n)
      PROVE  AdviceInv'
  <2>1. rows' = rows /\ req'[r].council = c /\ req'[r].number = n
    BY <1>0, <1>1 DEF BeginCreate, Unwritten, TypeInv, TypeOK, NoRequest
  <2>2. CASE pc'[r] = "next"
    BY <2>2, QuietAdvised
  <2>3. CASE pc'[r] # "next"
    <3>1. PICK t \in Highest(InBook(ModuleOf[c])) : t.number = n /\ t.state = "USED"
      BY <1>0, <1>1, <2>3 DEF BeginCreate, TypeInv, TypeOK
    <3>2. pc'[r] = "done" /\ reply'[r] = "inUse"
      BY <1>0, <1>1, <2>3 DEF BeginCreate, TypeInv, TypeOK
    <3>3. ~ Suggests(c, n)
      BY <1>0, <3>1, UsedNotSuggested DEF Highest, InBook
    <3>4. PICK op : op = req'[r].op
      OBVIOUS
    <3>5. Advised("done", "inUse", op, c, n)'
      BY <2>1, <3>3, SameRowsSameAdvice DEF Advised
    <3> QED
      BY <2>1, <3>2, <3>4, <3>5, OnlyRequestAdvised
  <2> QED
    BY <2>2, <2>3
<1>2. ASSUME NEW c \in Councils, NEW g \in Ranges, BeginReserve(r, c, g)
      PROVE  pc'[r] = "reserveBook"
  BY <1>0, <1>2 DEF BeginReserve, TypeInv, TypeOK
<1>3. ASSUME NEW x \in rows, BeginDocumentRemoved(r, x)
      PROVE  pc'[r] = "enqueue"
  BY <1>0, <1>3 DEF BeginDocumentRemoved, TypeInv, TypeOK
<1> QED
  BY <1>1, <1>2, <1>3, QuietAdvised DEF Begin

LEMMA AdviceStep ==
  ASSUME OneAtATime, SerialInv, AdviceInv, [Keep]_vars
  PROVE  AdviceInv'
<1>1. ASSUME NEW r \in Requests, Begin(r) PROVE AdviceInv'
  BY <1>1, BeginAdvised
<1>2. ASSUME NEW r \in Requests, Serve(r) PROVE AdviceInv'
  BY <1>2, CreateAdvised, ReserveAdvised, OtherAdvised DEF Serve
<1>3. ASSUME rows' = rows, pc' = pc, req' = req, reply' = reply PROVE AdviceInv'
  <2>1. SUFFICES ASSUME NEW r \in Requests PROVE AdviceInv'
    BY DEF AdviceInv, NotNextInv, SuggestionAccepted, NotLastInv
  <2>2. PICK at, answer, op, c, n : /\ at = pc[r] /\ answer = reply[r]
                                    /\ op = req[r].op /\ c = req[r].council
                                    /\ n = req[r].number
    OBVIOUS
  <2>3. Advised(at, answer, op, c, n)
    BY <2>2, AdvisedIsAdviceInv
  <2>4. Advised(at, answer, op, c, n)'
    BY <1>3, <2>3, SameRowsSameAdvice DEF Advised
  <2> QED
    BY <1>3, <2>2, <2>4, OnlyRequestAdvised
<1>4. ASSUME NEW c \in Closable, SetActive(c) PROVE AdviceInv'
  BY <1>3, <1>4 DEF SetActive
<1>5. ASSUME Restart PROVE AdviceInv'
  <2>1. SUFFICES ASSUME NEW r \in Requests PROVE AdviceInv'
    BY DEF AdviceInv, NotNextInv, SuggestionAccepted, NotLastInv
  <2>2. pc'[r] = "idle"
    BY <1>5 DEF Restart
  <2> QED
    BY <2>2, QuietAdvised
<1>6. UNCHANGED vars => AdviceInv'
  BY <1>3 DEF vars
<1> QED
  BY <1>1, <1>2, <1>4, <1>5, <1>6 DEF Keep

(* As long as requests are served one at a time and no row is deleted, what  *)
(* the service advises it accepts: a create of the number it suggested is    *)
(* not refused for the number, and a council it lists as one that could      *)
(* reserve is not told that it is not the last.                              *)
THEOREM AdviceIsAccepted ==
  ASSUME OneAtATime
  PROVE  KeepSpec => []AdviceHolds
<1>1. Init => AdviceInv
  BY DEF Init, AdviceInv, NotNextInv, SuggestionAccepted, NotLastInv
<1>2. AdviceInv => AdviceHolds
  BY DEF AdviceInv, NotLastInv, AdviceHolds, ListedMayReserve, CouldReserve
<1>3. SerialInv /\ AdviceInv /\ [Keep]_vars => AdviceInv'
  BY AdviceStep
<1>4. SerialInv /\ [Keep]_vars => SerialInv'
  BY SerialStep
<1> QED
  BY <1>1, <1>2, <1>3, <1>4, SerialInit, PTL DEF KeepSpec

-------------------------------------------------------------------------------
(***************************************************************************)
(* The book of a table: what NumerationRefinement makes of the rows.       *)
(***************************************************************************)

InBookOf(table, m) == {x \in table : x.book = m}

BookOf(table, m) ==
  [n \in 1 .. Cardinality({x.number : x \in InBookOf(table, m)}) |->
     LET x == CHOOSE x \in InBookOf(table, m) : x.number = n
     IN  [council |-> x.council, state |-> x.state]]

EntryFor(x) == [council |-> x.council, state |-> x.state]

(* A table as it is when requests are served one at a time.                  *)
Sound(table) ==
  /\ table \subseteq Row
  /\ \A x, y \in table : x.id = y.id => x = y
  /\ \A x, y \in table : x.book = y.book /\ x.number = y.number => x = y
  /\ \A x \in table : \A n \in 1 .. x.number :
       \E y \in table : y.book = x.book /\ y.number = n

LEMMA BookOfRowsIs == BookOfRows = [m \in Modules |-> BookOf(rows, m)]
  BY DEF BookOfRows, BookOf, EntryOf, Numbers, InBook, InBookOf

LEMMA SerialSound == SerialInv => Sound(rows)
<1> SUFFICES ASSUME SerialInv PROVE Sound(rows)
  OBVIOUS
<1>1. TypeOK /\ RowsInv /\ UniqueNumbers /\ NoGaps
  BY DEF SerialInv, TableInv, TypeInv, UniqueInv, IdInv, GapInv
<1>2. ASSUME NEW x \in rows, NEW n \in 1 .. x.number
      PROVE  \E y \in rows : y.book = x.book /\ y.number = n
  <2>1. x.book \in Modules /\ x.number \in Numbers(x.book)
    BY <1>1 DEF TypeOK, Row, Numbers, InBook
  <2>2. n \in Numbers(x.book)
    BY <1>1, <1>2, <2>1 DEF NoGaps
  <2> QED
    BY <2>2 DEF Numbers, InBook
<1> QED
  BY <1>1, <1>2 DEF Sound, TypeOK, RowsInv, UniqueNumbers

(* A book has the numbers from 1 to its length, each with the entry of its   *)
(* row.                                                                      *)
LEMMA BookIsOfRows ==
  ASSUME NEW T, Sound(T), NEW m \in Modules
  PROVE  \E k \in Nat :
           /\ BookOf(T, m) = [n \in 1 .. k |-> BookOf(T, m)[n]]
           /\ \A n \in 1 .. k : \E x \in T : /\ x.book = m /\ x.number = n
                                              /\ BookOf(T, m)[n] = EntryFor(x)
           /\ \A x \in T : x.book = m => x.number \in 1 .. k
<1> DEFINE B == InBookOf(T, m)
           N == {x.number : x \in B}
<1>1. N \in SUBSET Nat /\ 0 \notin N
  BY NumerationAssumption DEF Sound, Row, Number, InBookOf
<1>2. \A n \in N : n <= MaxNumber
  BY NumerationAssumption DEF Sound, Row, Number, InBookOf
<1>3. ASSUME NEW b \in N, NEW n \in 1 .. b PROVE n \in N
  BY <1>3 DEF Sound, InBookOf
<1>4. PICK k \in Nat : N = 1 .. k
  <2>1. CASE N = {}
    <3>1. N = 1 .. 0
      BY <2>1
    <3> QED
      BY <3>1
  <2>2. CASE N # {}
    <3>1. PICK k \in N : \A n \in N : n <= k
      <4> HIDE DEF N
      <4> QED
        BY <1>1, <1>2, <2>2, NumerationAssumption, GreatestOf
    <3> HIDE DEF N
    <3>2. \A n \in 1 .. k : n \in N
      BY <1>3
    <3>3. \A n \in N : n \in 1 .. k
      <4>1. \A n \in N : n \in Nat /\ n # 0 /\ n <= k /\ k \in Nat
        BY <1>1, <3>1
      <4> QED
        BY <4>1
    <3>4. N = 1 .. k
      BY <3>2, <3>3
    <3> QED
      BY <1>1, <3>4
  <2> QED
    BY <2>1, <2>2
<1>5. Cardinality(N) = k
  <2> HIDE DEF N
  <2> QED
    BY <1>4, FS_Interval
<1>6. DOMAIN BookOf(T, m) = 1 .. k
      /\ BookOf(T, m) = [n \in 1 .. k |-> BookOf(T, m)[n]]
  BY <1>5 DEF BookOf
<1>7. ASSUME NEW x \in B, NEW n, n = x.number
      PROVE  BookOf(T, m)[n] = EntryFor(x)
  <2>1. n \in 1 .. k
    BY <1>4, <1>7
  <2>2. \A y \in B : y.number = n => y = x
    BY <1>7 DEF Sound, InBookOf
  <2>3. (CHOOSE y \in B : y.number = n) = x
    BY <1>7, <2>2
  <2> QED
    BY <1>5, <2>1, <2>3 DEF BookOf, EntryFor
<1>8. \A n \in 1 .. k : \E x \in T : x \in B /\ x.book = m /\ x.number = n
  BY <1>4 DEF InBookOf
<1>9. \A x \in T : x.book = m => x \in B /\ x.number \in N
  BY DEF InBookOf
<1> HIDE DEF B, N
<1> QED
  BY <1>4, <1>6, <1>7, <1>8, <1>9

(* The entries s, k of them, are those of the rows of book m.                *)
Shows(T, m, k, s) ==
  /\ \A n \in 1 .. k : \E x \in T : /\ x.book = m /\ x.number = n
                                     /\ s[n] = EntryFor(x)
  /\ \A x \in T : x.book = m => x.number \in 1 .. k

LEMMA BookIs ==
  ASSUME NEW T, Sound(T), NEW m \in Modules, NEW k \in Nat,
         NEW s \in [1 .. k -> Book!Entry], Shows(T, m, k, s)
  PROVE  BookOf(T, m) = s
<1>0. /\ \A n \in 1 .. k : \E x \in T : /\ x.book = m /\ x.number = n
                                        /\ s[n] = EntryFor(x)
      /\ \A x \in T : x.book = m => x.number \in 1 .. k
  BY DEF Shows
<1>1. PICK l \in Nat :
        /\ BookOf(T, m) = [n \in 1 .. l |-> BookOf(T, m)[n]]
        /\ \A n \in 1 .. l : \E x \in T : /\ x.book = m /\ x.number = n
                                           /\ BookOf(T, m)[n] = EntryFor(x)
        /\ \A x \in T : x.book = m => x.number \in 1 .. l
  BY BookIsOfRows
<1>2. 1 .. l = 1 .. k
  <2>1. \A n \in 1 .. l : n \in 1 .. k
    BY <1>0, <1>1
  <2>2. \A n \in 1 .. k : n \in 1 .. l
    BY <1>0, <1>1
  <2> QED
    BY <2>1, <2>2
<1>3. ASSUME NEW n \in 1 .. k PROVE BookOf(T, m)[n] = s[n]
  <2>1. PICK x \in T : x.book = m /\ x.number = n /\ BookOf(T, m)[n] = EntryFor(x)
    BY <1>1, <1>2
  <2>2. PICK y \in T : y.book = m /\ y.number = n /\ s[n] = EntryFor(y)
    BY <1>0
  <2>3. x = y
    BY <2>1, <2>2 DEF Sound
  <2> QED
    BY <2>1, <2>2, <2>3
<1>4. BookOf(T, m) = [n \in 1 .. k |-> BookOf(T, m)[n]]
  BY <1>1, <1>2
<1>5. [n \in 1 .. k |-> BookOf(T, m)[n]] = [n \in 1 .. k |-> s[n]]
  BY <1>3
<1> QED
  BY <1>4, <1>5

(* A book none of whose rows changes is the same.                            *)
LEMMA BookUntouched ==
  ASSUME NEW T, NEW U, NEW m,
         \A x : x.book = m => (x \in T <=> x \in U)
  PROVE  BookOf(T, m) = BookOf(U, m)
<1>1. InBookOf(T, m) = InBookOf(U, m)
  BY DEF InBookOf
<1> QED
  BY <1>1 DEF BookOf

(* It is a sequence, with the entry of a row at its number.                  *)
LEMMA BookIsSeq ==
  ASSUME NEW T, Sound(T), NEW m \in Modules
  PROVE  /\ BookOf(T, m) \in Seq(Book!Entry)
         /\ Len(BookOf(T, m)) \in Nat
         /\ \A n \in 1 .. Len(BookOf(T, m)) :
              \E x \in T : /\ x.book = m /\ x.number = n
                           /\ BookOf(T, m)[n] = EntryFor(x)
         /\ \A x \in T : x.book = m =>
              /\ x.number \in 1 .. Len(BookOf(T, m))
              /\ BookOf(T, m)[x.number] = EntryFor(x)
<1> PICK s : s = BookOf(T, m)
  OBVIOUS
<1>1. PICK k \in Nat :
        /\ s = [n \in 1 .. k |-> s[n]]
        /\ \A n \in 1 .. k : \E x \in T : /\ x.book = m /\ x.number = n
                                           /\ s[n] = EntryFor(x)
        /\ \A x \in T : x.book = m => x.number \in 1 .. k
  BY BookIsOfRows
<1>2. \A x \in T : EntryFor(x) \in Book!Entry
  BY DEF Sound, Row, NumerationState, EntryFor, Book!Entry
<1>3. s \in [1 .. k -> Book!Entry]
  BY <1>1, <1>2
<1>4. s \in Seq(Book!Entry) /\ Len(s) = k
  BY <1>3
<1>5. ASSUME NEW x \in T, x.book = m PROVE s[x.number] = EntryFor(x)
  <2>1. PICK y \in T : y.book = m /\ y.number = x.number /\ s[x.number] = EntryFor(y)
    BY <1>1, <1>5
  <2>2. y = x
    BY <1>5, <2>1 DEF Sound
  <2> QED
    BY <2>1, <2>2
<1> QED
  BY <1>1, <1>4, <1>5

(* Row z is added to book m of table T, after its last number.               *)
Appended(T, U, z, m) ==
  /\ U = T \cup {z}
  /\ z.book = m
  /\ \A x \in T : x.book = m => x.number < z.number

(* A row added after the last number is an entry appended.                   *)
LEMMA BookAppended ==
  ASSUME NEW T, Sound(T), NEW U, Sound(U), NEW z,
         NEW m \in Modules, Appended(T, U, z, m)
  PROVE  /\ BookOf(U, m) = Append(BookOf(T, m), EntryFor(z))
         /\ z.number = Len(BookOf(T, m)) + 1
<1> USE DEF Appended
<1> PICK s : s = BookOf(T, m)
  OBVIOUS
<1>1. /\ s \in Seq(Book!Entry) /\ Len(s) \in Nat
      /\ \A n \in 1 .. Len(s) : \E x \in T : /\ x.book = m /\ x.number = n
                                             /\ s[n] = EntryFor(x)
      /\ \A x \in T : x.book = m => x.number \in 1 .. Len(s)
  BY BookIsSeq
<1>2. z \in Row /\ z \in U
  BY DEF Sound
<1>3. EntryFor(z) \in Book!Entry /\ z.number \in Nat \ {0}
  BY <1>2, NumerationAssumption DEF Row, Number, NumerationState, EntryFor, Book!Entry
<1>4. z.number = Len(s) + 1
  <2>1. z.number > Len(s)
    <3>1. CASE Len(s) = 0
      BY <1>3, <3>1
    <3>2. CASE Len(s) # 0
      <4>1. Len(s) \in 1 .. Len(s)
        BY <1>1, <3>2
      <4>2. PICK x \in T : x.book = m /\ x.number = Len(s)
        BY <1>1, <4>1
      <4> QED
        BY <1>1, <1>3, <4>2
    <3> QED
      BY <3>1, <3>2
  <2>2. ASSUME z.number > Len(s) + 1 PROVE FALSE
    <3>1. Len(s) + 1 \in 1 .. z.number
      BY <1>1, <1>3, <2>2
    <3>2. PICK y \in U : y.book = m /\ y.number = Len(s) + 1
      BY <1>2, <3>1 DEF Sound
    <3>3. y \in T
      BY <1>1, <1>3, <2>2, <3>2
    <3> QED
      BY <1>1, <3>2, <3>3
  <2> QED
    BY <1>1, <1>3, <2>1, <2>2
<1> PICK e : e = EntryFor(z)
  OBVIOUS
<1> PICK k : k = Len(s) + 1
  OBVIOUS
<1> PICK t : t = Append(s, e)
  OBVIOUS
<1>5. /\ t \in Seq(Book!Entry) /\ Len(t) = k /\ k \in Nat
      /\ \A i \in 1 .. Len(s) : t[i] = s[i]
      /\ t[k] = e
  BY <1>1, <1>3, AppendProperties
<1>6. t \in [1 .. k -> Book!Entry]
  BY <1>5, LenProperties
<1>7. ASSUME NEW n \in 1 .. k
      PROVE  \E x \in U : x.book = m /\ x.number = n /\ t[n] = EntryFor(x)
  <2>1. CASE n = k
    BY <1>2, <1>4, <1>5, <2>1
  <2>2. CASE n # k
    <3>1. n \in 1 .. Len(s)
      BY <1>1, <2>2
    <3> QED
      BY <1>1, <1>5, <3>1
  <2> QED
    BY <2>1, <2>2
<1>8. ASSUME NEW x \in U, x.book = m PROVE x.number \in 1 .. k
  <2>1. CASE x = z
    BY <1>1, <1>4, <2>1
  <2>2. CASE x \in T
    BY <1>1, <1>8, <2>2
  <2> QED
    BY <2>1, <2>2
<1>10. Shows(U, m, k, t)
  BY <1>7, <1>8 DEF Shows
<1>9. BookOf(U, m) = t
  BY <1>5, <1>6, <1>10, BookIs
<1> QED
  BY <1>4, <1>9

(* Row y of number n is saved as z, with another state perhaps.              *)
SavedAs(T, U, y, z, m, n) ==
  /\ U = (T \ {y}) \cup {z}
  /\ y \in T
  /\ z.number = y.number /\ z.book = y.book /\ z.council = y.council
  /\ z.book = m
  /\ n = z.number

WithState(s, n, state) == [s EXCEPT ![n].state = state]

(* A row saved with another state changes the state of its entry.            *)
LEMMA BookSaved ==
  ASSUME NEW T, Sound(T), NEW U, Sound(U), NEW y, NEW z,
         NEW m \in Modules, NEW n, SavedAs(T, U, y, z, m, n)
  PROVE  /\ n \in 1 .. Len(BookOf(T, m))
         /\ BookOf(T, m)[n] = EntryFor(y)
         /\ BookOf(U, m) = WithState(BookOf(T, m), n, z.state)
<1> USE DEF SavedAs
<1>7. ASSUME NEW x \in T, x.book = m, x.number = n PROVE x = y
  <2>1. x.book = y.book /\ x.number = y.number
    BY <1>7
  <2>2. \A v, w \in T : v.book = w.book /\ v.number = w.number => v = w
    BY DEF Sound
  <2> QED
    BY <2>1, <2>2
<1> PICK s : s = BookOf(T, m)
  OBVIOUS
<1> PICK k : k = Len(s)
  OBVIOUS
<1>1. /\ s \in Seq(Book!Entry) /\ k \in Nat
      /\ \A i \in 1 .. k : \E x \in T : /\ x.book = m /\ x.number = i
                                        /\ s[i] = EntryFor(x)
      /\ \A x \in T : x.book = m => /\ x.number \in 1 .. k
                                    /\ s[x.number] = EntryFor(x)
  BY BookIsSeq
<1>2. s \in [1 .. k -> Book!Entry]
  BY <1>1, LenProperties
<1>3. n \in 1 .. k /\ s[n] = EntryFor(y)
  BY <1>1
<1>4. z \in Row
  BY DEF Sound
<1> DEFINE t == [s EXCEPT ![n] = EntryFor(z)]
<1>5. EntryFor(z) \in Book!Entry
  BY <1>4 DEF Row, NumerationState, EntryFor, Book!Entry
<1>6. /\ t \in [1 .. k -> Book!Entry] /\ t[n] = EntryFor(z)
      /\ \A i \in 1 .. k : i # n => t[i] = s[i]
  BY <1>2, <1>3, <1>5
<1>11. [s[n] EXCEPT !.state = z.state] = EntryFor(z)
  BY <1>3 DEF EntryFor
<1>12. t = [s EXCEPT ![n].state = z.state]
  BY <1>2, <1>3, <1>11
<1> HIDE DEF t
<1>8. Shows(U, m, k, t)
  <2>1. ASSUME NEW i \in 1 .. k
        PROVE  \E x \in U : x.book = m /\ x.number = i /\ t[i] = EntryFor(x)
    <3>1. CASE i = n
      BY <1>6, <3>1
    <3>2. CASE i # n
      <4>1. PICK x \in T : x.book = m /\ x.number = i /\ s[i] = EntryFor(x)
        BY <1>1
      <4> QED
        BY <1>6, <3>2, <4>1
    <3> QED
      BY <3>1, <3>2
  <2>2. \A x \in U : x.book = m => x.number \in 1 .. k
    BY <1>1, <1>3
  <2> QED
    BY <2>1, <2>2 DEF Shows
<1>9. BookOf(U, m) = t
  BY <1>1, <1>6, <1>8, BookIs
<1> QED
  BY <1>3, <1>9, <1>12 DEF WithState

(* The rows S of first .. last of book m are replaced by R, of council c.    *)
MovedTo(T, U, S, R, c, m, first, last) ==
  /\ U = (T \ S) \cup R
  /\ S \subseteq T
  /\ \A x \in S : x.book = m /\ x.number \in first .. last
  /\ \A n \in first .. last : \E x \in S : x.number = n
  /\ \A x \in R : /\ x.book = m /\ x.number \in first .. last
                  /\ x.council = c /\ x.state = "RESERVED"
  /\ \A n \in first .. last : \E x \in R : x.number = n

Annexed(s, c, first, last) ==
  [n \in 1 .. Len(s) |->
     IF n \in first .. last THEN [council |-> c, state |-> "RESERVED"] ELSE s[n]]

(* Rows first .. last of a book moved to council c.                          *)
LEMMA BookMoved ==
  ASSUME NEW T, Sound(T), NEW U, Sound(U), NEW S, NEW R,
         NEW c \in Councils, NEW m \in Modules,
         NEW first \in Nat \ {0}, NEW last \in Int, first <= last,
         MovedTo(T, U, S, R, c, m, first, last)
  PROVE  /\ first \in 1 .. Len(BookOf(T, m)) /\ last \in 1 .. Len(BookOf(T, m))
         /\ BookOf(U, m) = Annexed(BookOf(T, m), c, first, last)
<1> USE DEF MovedTo
<1> PICK s : s = BookOf(T, m)
  OBVIOUS
<1> PICK k : k = Len(s)
  OBVIOUS
<1>1. /\ s \in Seq(Book!Entry) /\ k \in Nat
      /\ \A i \in 1 .. k : \E x \in T : /\ x.book = m /\ x.number = i
                                        /\ s[i] = EntryFor(x)
      /\ \A x \in T : x.book = m => x.number \in 1 .. k
  BY BookIsSeq
<1>2. s \in [1 .. k -> Book!Entry]
  BY <1>1, LenProperties
<1>3. \A n \in first .. last : n \in 1 .. k
  BY <1>1
<1>4. first \in 1 .. k /\ last \in 1 .. k
  BY <1>3
<1> PICK e : e = [council |-> c, state |-> "RESERVED"]
  OBVIOUS
<1>5. e \in Book!Entry
  BY DEF Book!Entry
<1> PICK t : t = [n \in 1 .. k |-> IF n \in first .. last THEN e ELSE s[n]]
  OBVIOUS
<1>6. /\ t \in [1 .. k -> Book!Entry]
      /\ \A n \in 1 .. k : t[n] = IF n \in first .. last THEN e ELSE s[n]
  BY <1>2, <1>5
<1>7. \A x \in R : EntryFor(x) = e
  BY DEF EntryFor
<1>8. ASSUME NEW i \in 1 .. k
      PROVE  \E x \in U : x.book = m /\ x.number = i /\ t[i] = EntryFor(x)
  <2>1. CASE i \in first .. last
    <3>1. PICK x \in R : x.number = i
      BY <2>1
    <3> QED
      BY <1>6, <1>7, <2>1, <3>1
  <2>2. CASE i \notin first .. last
    <3>1. PICK x \in T : x.book = m /\ x.number = i /\ s[i] = EntryFor(x)
      BY <1>1
    <3>2. x \notin S
      BY <2>2, <3>1
    <3> QED
      BY <1>6, <2>2, <3>1, <3>2
  <2> QED
    BY <2>1, <2>2
<1>9. \A x \in U : x.book = m => x.number \in 1 .. k
  BY <1>1, <1>3
<1>10. Shows(U, m, k, t)
  BY <1>8, <1>9 DEF Shows
<1>11. BookOf(U, m) = t
  BY <1>1, <1>6, <1>10, BookIs
<1>12. t = Annexed(s, c, first, last)
  BY DEF Annexed
<1> QED
  BY <1>4, <1>11, <1>12

(* One book changes.                                                         *)
LEMMA OneBookChanges ==
  ASSUME NEW m \in Modules, NEW f, BookOf(rows', m) = f,
         \A k \in Modules \ {m} : BookOf(rows', k) = BookOf(rows, k)
  PROVE  BookOfRows' = [BookOfRows EXCEPT ![m] = f]
<1>1. BookOfRows = [k \in Modules |-> BookOf(rows, k)]
  BY BookOfRowsIs
<1>2. BookOfRows' = [k \in Modules |-> BookOf(rows', k)]
  BY DEF BookOfRows, BookOf, EntryOf, Numbers, InBook, InBookOf
<1> QED
  BY <1>1, <1>2

-------------------------------------------------------------------------------
(***************************************************************************)
(* Each write to the table is a step of the book.                          *)
(***************************************************************************)

LEMMA BookOfRowsAt ==
  /\ \A m \in Modules : BookOfRows[m] = BookOf(rows, m)
  /\ BookOfRows = [m \in Modules |-> BookOfRows[m]]
<1>1. BookOfRows = [m \in Modules |-> BookOf(rows, m)]
  BY BookOfRowsIs
<1> QED
  BY <1>1

LEMMA SerialSoundNext ==
  ASSUME SerialInv'
  PROVE  Sound(rows')
<1>1. TypeOK' /\ RowsInv' /\ UniqueNumbers' /\ NoGaps'
  BY DEF SerialInv, TableInv, TypeInv, UniqueInv, IdInv, GapInv
<1>2. ASSUME NEW x \in rows', NEW n \in 1 .. x.number
      PROVE  \E y \in rows' : y.book = x.book /\ y.number = n
  <2>1. PICK b \in Modules : b = x.book
    BY <1>1 DEF TypeOK, Row
  <2>2. x.number \in Numbers(b)'
    BY <1>1, <2>1 DEF Numbers, InBook
  <2>3. n \in Numbers(b)'
    BY <1>1, <1>2, <2>2 DEF NoGaps
  <2> QED
    BY <2>1, <2>3 DEF Numbers, InBook
<1> QED
  BY <1>1, <1>2 DEF Sound, TypeOK, RowsInv, UniqueNumbers

AppendedAt(books, m, c, state) ==
  [books EXCEPT ![m] = Append(@, [council |-> c, state |-> state])]

WithStateAt(books, m, n, state) == [books EXCEPT ![m][n].state = state]

(* A row inserted past the numbers of its book is appended to it.            *)
LEMMA InsertAppends ==
  ASSUME SerialInv, SerialInv', NEW n, NEW state, NEW c \in Councils,
         InsertRow(n, state, c), NEW m, m = ModuleOf[c],
         \A k \in Numbers(m) : k < n
  PROVE  /\ m \in Modules /\ n = Len(BookOfRows[m]) + 1
         /\ BookOfRows' = AppendedAt(BookOfRows, m, c, state)
<1>1. Sound(rows) /\ Sound(rows')
  BY SerialSound, SerialSoundNext
<1>2. m \in Modules
  BY NumerationAssumption
<1>3. PICK z : z = [id |-> nextId, number |-> n, state |-> state,
                    council |-> c, book |-> m]
  OBVIOUS
<1>4. rows' = rows \cup {z} /\ z.book = m /\ z.number = n
      /\ EntryFor(z) = [council |-> c, state |-> state]
  BY <1>3 DEF InsertRow, EntryFor
<1>5. \A x \in rows : x.book = m => x.number < z.number
  BY <1>4 DEF Numbers, InBook
<1>6. /\ BookOf(rows', m) = Append(BookOf(rows, m), EntryFor(z))
      /\ z.number = Len(BookOf(rows, m)) + 1
  <2>1. Appended(rows, rows', z, m)
    BY <1>4, <1>5 DEF Appended
  <2> QED
    BY <1>1, <1>2, <2>1, BookAppended
<1>7. \A k \in Modules \ {m} : BookOf(rows', k) = BookOf(rows, k)
  <2> TAKE k \in Modules \ {m}
  <2>1. \A x : x.book = k => (x \in rows' <=> x \in rows)
    BY <1>4
  <2> QED
    BY <2>1, BookUntouched
<1>8. BookOfRows' = [BookOfRows EXCEPT ![m] =
                       Append(BookOf(rows, m), EntryFor(z))]
  BY <1>2, <1>6, <1>7, OneBookChanges
<1> QED
  BY <1>2, <1>4, <1>6, <1>8, BookOfRowsAt DEF AppendedAt

(* A row saved with another state changes the state of its entry.            *)
LEMMA SaveChangesState ==
  ASSUME SerialInv, SerialInv', NEW y \in rows, NEW z, SaveRows({z}),
         z.id = y.id, z.number = y.number, z.book = y.book,
         z.council = y.council,
         NEW m, m = y.book, NEW n, n = y.number
  PROVE  /\ m \in Modules /\ n \in 1 .. Len(BookOfRows[m])
         /\ BookOfRows[m][n].state = y.state
         /\ BookOfRows' = WithStateAt(BookOfRows, m, n, z.state)
<1>1. Sound(rows) /\ Sound(rows')
  BY SerialSound, SerialSoundNext
<1>2. m \in Modules
  BY <1>1 DEF Sound, Row
<1>3. \A x \in rows : x.id = z.id <=> x = y
  BY <1>1 DEF Sound
<1>4. rows' = (rows \ {y}) \cup {z}
  BY <1>3 DEF SaveRows
<1>5. /\ n \in 1 .. Len(BookOf(rows, m))
      /\ BookOf(rows, m)[n] = EntryFor(y)
      /\ BookOf(rows', m) = WithState(BookOf(rows, m), n, z.state)
  <2>1. SavedAs(rows, rows', y, z, m, n)
    BY <1>4 DEF SavedAs
  <2> QED
    BY <1>1, <1>2, <2>1, BookSaved
<1>6. \A k \in Modules \ {m} : BookOf(rows', k) = BookOf(rows, k)
  <2> TAKE k \in Modules \ {m}
  <2>1. \A x : x.book = k => (x \in rows' <=> x \in rows)
    BY <1>4
  <2> QED
    BY <2>1, BookUntouched
<1>7. BookOfRows' = [BookOfRows EXCEPT ![m] =
                       WithState(BookOf(rows, m), n, z.state)]
  BY <1>2, <1>5, <1>6, OneBookChanges
<1>8. BookOfRows[m] = BookOf(rows, m)
  BY <1>2, BookOfRowsAt
<1>9. EntryFor(y).state = y.state
  BY DEF EntryFor
<1>10. BookOfRows' = [BookOfRows EXCEPT ![m] =
                       [BookOfRows[m] EXCEPT ![n].state = z.state]]
  BY <1>7, <1>8 DEF WithState
<1> QED
  BY <1>2, <1>5, <1>8, <1>9, <1>10 DEF WithStateAt

(* Rows moved to another council are annexed.                                *)
LEMMA MoveAnnexes ==
  ASSUME SerialInv, SerialInv', NEW r \in Requests, SaveRows(Reassigned(r)),
         NEW c \in Councils, c = req[r].council, NEW m, m = ModuleOf[c],
         NEW v, v = view[r], v.snap \subseteq rows,
         NEW first \in Nat \ {0}, NEW last \in Int, first <= last,
         Taken(v, m, first, last), v.donor # c,
         NEW o \in rows, o.council = c, o.book = m,
         o.number = first - 1 \/ o.number = last + 1
  PROVE  /\ first \in Book!Places(m) /\ last \in Book!Places(m)
         /\ Book!Annex(c, first, last)
<1>1. Sound(rows) /\ Sound(rows') /\ TypeInv /\ RowsInv
  BY SerialSound, SerialSoundNext DEF SerialInv, TableInv, UniqueInv, IdInv
<1>2. m \in Modules
  BY NumerationAssumption
<1> PICK S : S = v.snap
  OBVIOUS
<1> PICK R : R = Reassigned(r)
  OBVIOUS
<1>3. rows' = (rows \ S) \cup R
  BY <1>1, MovedRows DEF Taken
<1>4. /\ \A x \in S : /\ x.council = v.donor /\ x.book = m
                      /\ x.state = "RESERVED" /\ x.number \in first .. last
      /\ \A n \in first .. last : \E x \in S : x.number = n
  BY DEF Taken
<1>5. /\ \A x \in R : /\ x.book = m /\ x.number \in first .. last
                      /\ x.council = c /\ x.state = "RESERVED"
      /\ \A n \in first .. last : \E x \in R : x.number = n
  <2>1. /\ \A y \in R : \E s \in S :
             /\ y.number = s.number /\ y.book = s.book
             /\ y.state = "RESERVED" /\ y.council = c
        /\ \A s \in S : \E y \in R : y.number = s.number
    BY <1>1, ReassignedAreGiven
  <2> QED
    BY <1>4, <2>1
<1> PICK b : b = BookOfRows[m]
  OBVIOUS
<1>6. b = BookOf(rows, m)
  BY <1>2, BookOfRowsAt
<1>7. /\ first \in 1 .. Len(b) /\ last \in 1 .. Len(b)
      /\ BookOf(rows', m) = Annexed(b, c, first, last)
  <2>1. MovedTo(rows, rows', S, R, c, m, first, last)
    BY <1>3, <1>4, <1>5 DEF MovedTo
  <2> QED
    BY <1>1, <1>2, <1>6, <2>1, BookMoved
<1>8. \A k \in Modules \ {m} : BookOf(rows', k) = BookOf(rows, k)
  <2> TAKE k \in Modules \ {m}
  <2>1. \A x : x.book = k => (x \in rows' <=> x \in rows)
    BY <1>3, <1>4, <1>5
  <2> QED
    BY <2>1, BookUntouched
<1>9. BookOfRows' = [BookOfRows EXCEPT ![m] = Annexed(b, c, first, last)]
  BY <1>2, <1>7, <1>8, OneBookChanges
<1>10. \A x \in rows : x.book = m =>
         x.number \in 1 .. Len(b) /\ b[x.number] = EntryFor(x)
  BY <1>1, <1>2, <1>6, BookIsSeq
<1>11. \E d \in Councils \ {c} : \A n \in first .. last :
         b[n] = [council |-> d, state |-> "RESERVED"]
  <2>1. v.donor \in Councils
    <3>1. PICK x \in S : x.number = first
      BY <1>4
    <3> QED
      BY <1>1, <1>4, <3>1 DEF Sound, Row
  <2>2. ASSUME NEW n \in first .. last
        PROVE  b[n] = [council |-> v.donor, state |-> "RESERVED"]
    <3>1. PICK x \in S : x.number = n
      BY <1>4
    <3>2. x \in rows /\ x.book = m /\ x.council = v.donor /\ x.state = "RESERVED"
      BY <1>4
    <3>3. b[x.number] = EntryFor(x)
      BY <1>10, <3>2
    <3> QED
      BY <3>1, <3>2, <3>3 DEF EntryFor
  <2> QED
    BY <2>1, <2>2
<1>12. \E n \in {first - 1, last + 1} \cap (1 .. Len(b)) : b[n].council = c
  <2>1. o.number \in 1 .. Len(b) /\ b[o.number] = EntryFor(o)
    BY <1>10
  <2>2. b[o.number].council = c
    BY <2>1 DEF EntryFor
  <2>3. o.number \in {first - 1, last + 1}
    OBVIOUS
  <2> QED
    BY <2>1, <2>2, <2>3
<1>13. Book!Places(m) = 1 .. Len(b)
  BY DEF Book!Places
<1>14. Book!Annex(c, first, last)
  <2>1. BookOfRows[ModuleOf[c]] = b /\ 1 .. Len(b) = Book!Places(m)
    BY <1>13
  <2>2. BookOfRows' = [BookOfRows EXCEPT ![ModuleOf[c]] =
          [n \in Book!Places(m) |->
             IF n \in first .. last THEN [council |-> c, state |-> "RESERVED"]
                                    ELSE BookOfRows[ModuleOf[c]][n]]]
    <3>1. [n \in Book!Places(m) |->
             IF n \in first .. last THEN [council |-> c, state |-> "RESERVED"]
                                    ELSE BookOfRows[ModuleOf[c]][n]]
          = Annexed(b, c, first, last)
      BY <2>1 DEF Annexed
    <3> QED
      BY <1>9, <3>1
  <2>3. \E d \in Councils \ {c} : \A n \in first .. last :
          BookOfRows[ModuleOf[c]][n] = [council |-> d, state |-> "RESERVED"]
    BY <1>11, <2>1
  <2>4. \E n \in {first - 1, last + 1} \cap Book!Places(m) : Book!Owns(c, n)
    BY <1>12, <2>1 DEF Book!Owns
  <2> QED
    BY <2>2, <2>3, <2>4 DEF Book!Annex
<1> QED
  BY <1>7, <1>13, <1>14
(* What the only handler relies on.                                          *)
LEMMA SerialReads ==
  ASSUME SerialInv, NEW r \in Requests
  PROVE  /\ TypeInv /\ RowsInv /\ view[r] \in View /\ req[r] \in Request
         /\ Fits(req[r], pc[r], view[r])
         /\ Seen(rows, req[r], pc[r], view[r])
         /\ view[r].snap \subseteq rows
         /\ Fresh(Numbers(ModuleOf[req[r].council]), Own(req[r].council),
                  req[r], pc[r], view[r])
  BY DEF SerialInv, TableInv, TypeInv, TypeOK, AwaitInv, FirmInv, SeenInv, Seen,
     UniqueInv, IdInv, FreshInv

(* The last number of a range, or the number of a document, is appended.     *)
LEMMA InsertUsedTakesNext ==
  ASSUME SerialInv, SerialInv', NEW r \in Requests, InsertUsed(r)
  PROVE  Book!BookNext
<1> DEFINE c == req[r].council
<1>1. c \in Councils /\ \A k \in Numbers(ModuleOf[c]) : k < req[r].number
  BY SerialReads DEF InsertUsed, Fits, Fresh, CreateAwaits
<1>2. InsertRow(req[r].number, "USED", c)
  BY DEF InsertUsed
<1>3. BookOfRows' = AppendedAt(BookOfRows, ModuleOf[c], c, "USED")
  BY <1>1, <1>2, InsertAppends
<1>4. Book!TakeNext(c)
  BY <1>3 DEF Book!TakeNext, AppendedAt
<1> QED
  BY <1>1, <1>4 DEF Book!BookNext

LEMMA InsertReservedSetsAside ==
  ASSUME SerialInv, SerialInv', NEW r \in Requests, InsertReserved(r)
  PROVE  Book!BookNext
<1> DEFINE c == req[r].council
           own == {x \in rows : x.council = c /\ x.book = ModuleOf[c]}
           cur == view[r].cur
<1> PICK m : m = ModuleOf[c]
  OBVIOUS
<1> PICK b : b = BookOfRows[m]
  OBVIOUS
<1>1. /\ c \in Councils /\ cur \in Nat /\ pc[r] = "range"
      /\ \A k \in Numbers(m) : k < cur
      /\ own = {} \/ \E x \in own : x.number = cur - 1
  BY SerialReads DEF InsertReserved, Fits, Fresh, Seen, View
<1>2. InsertRow(cur, "RESERVED", c)
  BY DEF InsertReserved
<1>3. /\ m \in Modules /\ cur = Len(b) + 1
      /\ BookOfRows' = AppendedAt(BookOfRows, m, c, "RESERVED")
  BY <1>1, <1>2, InsertAppends
<1>4. Sound(rows) /\ b = BookOf(rows, m)
  BY <1>3, SerialSound, BookOfRowsAt
<1>5. /\ Len(b) \in Nat
      /\ \A n \in 1 .. Len(b) : \E x \in rows : /\ x.book = m /\ x.number = n
                                                /\ b[n] = EntryFor(x)
      /\ \A x \in rows : x.book = m => /\ x.number \in 1 .. Len(b)
                                       /\ b[x.number] = EntryFor(x)
  BY <1>3, <1>4, BookIsSeq
<1>6. \/ \A n \in 1 .. Len(b) : b[n].council # c
      \/ b[Len(b)].council = c
  <2>1. CASE own = {}
    <3>1. ASSUME NEW n \in 1 .. Len(b) PROVE b[n].council # c
      <4>1. PICK x \in rows : x.book = m /\ b[n] = EntryFor(x)
        BY <1>5
      <4> QED
        BY <2>1, <4>1 DEF EntryFor
    <3> QED
      BY <3>1
  <2>2. CASE own # {}
    <3>1. PICK x \in rows : /\ x.council = c /\ x.book = m /\ x.number = cur - 1
      BY <1>1, <2>2
    <3>2. x.number = Len(b)
      BY <1>3, <1>5, <3>1
    <3>3. b[x.number] = EntryFor(x)
      BY <1>5, <3>1
    <3> QED
      BY <3>1, <3>2, <3>3 DEF EntryFor
  <2> QED
    BY <2>1, <2>2
<1>7. Book!SetAside(c)
  <2>1. Book!Places(m) = 1 .. Len(b) /\ BookOfRows[ModuleOf[c]] = b
    BY DEF Book!Places
  <2>2. \/ \A n \in Book!Places(m) : ~ Book!Owns(c, n)
        \/ Book!Owns(c, Len(b))
    BY <1>6, <2>1 DEF Book!Owns
  <2> QED
    BY <1>3, <2>2 DEF Book!SetAside, AppendedAt
<1> QED
  BY <1>1, <1>7 DEF Book!BookNext

LEMMA SaveUsedPutsToUse ==
  ASSUME SerialInv, SerialInv', NEW r \in Requests, SaveUsed(r)
  PROVE  Book!BookNext
<1>1. PICK y \in rows : view[r].snap = {y} /\ y.state # "USED"
  BY SerialReads DEF SaveUsed, Seen
<1>2. PICK z : z = [y EXCEPT !.state = "USED"]
  OBVIOUS
<1>3. {[w EXCEPT !.state = "USED"] : w \in {y}} = {z}
  BY <1>2
<1>4. SaveRows({z})
  BY <1>1, <1>3 DEF SaveUsed
<1>5. y \in Row
  BY DEF SerialInv, TableInv, TypeInv, TypeOK
<1>6. /\ z.id = y.id /\ z.number = y.number /\ z.book = y.book
      /\ z.council = y.council /\ z.state = "USED"
  BY <1>2, <1>5 DEF Row
<1> PICK m, n : m = y.book /\ n = y.number
  OBVIOUS
<1>7. /\ m \in Modules /\ n \in 1 .. Len(BookOfRows[m])
      /\ BookOfRows[m][n].state = y.state
      /\ BookOfRows' = WithStateAt(BookOfRows, m, n, z.state)
  BY <1>4, <1>6, SaveChangesState
<1>8. Book!PutToUse(m, n)
  BY <1>1, <1>6, <1>7 DEF Book!PutToUse, WithStateAt
<1> QED
  BY <1>7, <1>8 DEF Book!BookNext, Book!Places

LEMMA EnqueueSetsFree ==
  ASSUME SerialInv, SerialInv', NEW r \in Requests, Enqueue(r)
  PROVE  Book!BookNext
<1>1. PICK y \in rows : view[r].snap = {y} /\ y.state # "RESERVED"
  BY SerialReads DEF Enqueue, Seen
<1>2. PICK w \in rows :
        /\ w.id = y.id
        /\ SaveRows({[w EXCEPT !.state = "ENQUEUED", !.number = y.number]})
  BY <1>1 DEF Enqueue
<1>3. w = y
  BY <1>2, SerialReads DEF RowsInv
<1>4. PICK z : z = [y EXCEPT !.state = "ENQUEUED", !.number = y.number]
  OBVIOUS
<1>5. SaveRows({z})
  BY <1>2, <1>3, <1>4
<1>6. y \in Row
  BY DEF SerialInv, TableInv, TypeInv, TypeOK
<1>7. /\ z.id = y.id /\ z.number = y.number /\ z.book = y.book
      /\ z.council = y.council /\ z.state = "ENQUEUED"
  BY <1>4, <1>6 DEF Row
<1> PICK m, n : m = y.book /\ n = y.number
  OBVIOUS
<1>8. /\ m \in Modules /\ n \in 1 .. Len(BookOfRows[m])
      /\ BookOfRows[m][n].state = y.state
      /\ BookOfRows' = WithStateAt(BookOfRows, m, n, z.state)
  BY <1>7, <1>5, SaveChangesState
<1>9. Book!SetFree(m, n)
  BY <1>1, <1>7, <1>8 DEF Book!SetFree, WithStateAt
<1> QED
  BY <1>8, <1>9 DEF Book!BookNext, Book!Places

(* An extension downwards annexes what ends just below the council's lowest  *)
(* number, one upwards what begins just above its highest.                   *)
LEMMA MovesAnnex ==
  ASSUME SerialInv, SerialInv', NEW r \in Requests,
         MoveBelow(r) \/ MoveAbove(r)
  PROVE  Book!BookNext
<1> DEFINE q == req[r]
           v == view[r]
<1> PICK c, m : c = q.council /\ m = ModuleOf[c]
  OBVIOUS
<1>1. /\ c \in Councils /\ v.lo \in Nat /\ v.hi \in Nat
      /\ q.start \in Nat /\ q.end \in Nat /\ v.snap \subseteq rows
  BY SerialReads, NumerationAssumption
  DEF MoveBelow, MoveAbove, Fits, ReserveAwaits, View, Request, Number, NoNumber
<1>2. SaveRows(Reassigned(r))
  BY DEF MoveBelow, MoveAbove
<1>3. PICK first \in Nat \ {0}, last \in Int, o \in rows :
        /\ first <= last /\ Taken(v, m, first, last) /\ v.donor # c
        /\ o.council = c /\ o.book = m
        /\ o.number = first - 1 \/ o.number = last + 1
  <2>1. CASE MoveBelow(r)
    <3>1. /\ Taken(v, m, q.start, v.lo - 1) /\ v.donor # c
          /\ q.start \in 1 .. v.lo - 1 /\ v.hi # NoNumber
          /\ v.hi # NoNumber =>
               \E l \in Lowest({x \in rows : x.council = c /\ x.book = m}) :
                  l.number = v.lo
      BY <2>1, SerialReads
      DEF MoveBelow, Seen, ReserveAwaits, Moving, Downwards
    <3>2. PICK l \in rows : l.council = c /\ l.book = m /\ l.number = v.lo
      BY <3>1 DEF Lowest
    <3>3. PICK first, last : first = q.start /\ last = v.lo - 1
      OBVIOUS
    <3>4. /\ first \in Nat \ {0} /\ last \in Int /\ first <= last
          /\ l.number = last + 1
      BY <1>1, <3>1, <3>2, <3>3
    <3> QED
      BY <3>1, <3>2, <3>3, <3>4
  <2>2. CASE MoveAbove(r)
    <3>1. /\ Taken(v, m, v.hi + 1, q.end) /\ v.donor # c
          /\ v.hi # NoNumber /\ v.hi < q.end
          /\ \E h \in Highest({x \in rows : x.council = c /\ x.book = m}) :
                h.number = v.hi
      BY <2>2, SerialReads
      DEF MoveAbove, Seen, ReserveAwaits, Moving, Upwards
    <3>2. PICK h \in rows : h.council = c /\ h.book = m /\ h.number = v.hi
      BY <3>1 DEF Highest
    <3>3. PICK first, last : first = v.hi + 1 /\ last = q.end
      OBVIOUS
    <3>4. /\ first \in Nat \ {0} /\ last \in Int /\ first <= last
          /\ h.number = first - 1
      BY <1>1, <3>1, <3>2, <3>3
    <3> QED
      BY <3>1, <3>2, <3>3, <3>4
  <2> QED
    BY <2>1, <2>2
<1>4. /\ first \in Book!Places(m) /\ last \in Book!Places(m)
      /\ Book!Annex(c, first, last)
  <2> PICK w : w = view[r]
    OBVIOUS
  <2> QED
    BY <1>1, <1>2, <1>3, MoveAnnexes
<1> QED
  BY <1>1, <1>4 DEF Book!BookNext

(* A step that writes no row leaves the books as they are.                   *)
LEMMA SameRowsSameBook ==
  ASSUME rows' = rows
  PROVE  BookOfRows' = BookOfRows
  BY DEF BookOfRows, EntryOf, Numbers, InBook

LEMMA BookStepTaken ==
  ASSUME SerialInv, SerialInv', [Keep]_vars
  PROVE  [Book!BookNext]_BookOfRows
<1>1. ASSUME NEW r \in Requests, Begin(r) PROVE rows' = rows
  BY <1>1 DEF Begin, BeginCreate, BeginReserve, BeginDocumentRemoved, Unwritten
<1>2. ASSUME NEW r \in Requests, Serve(r),
             ~ SaveUsed(r), ~ MoveBelow(r), ~ MoveAbove(r), ~ Enqueue(r),
             ~ InsertReserved(r), ~ InsertUsed(r)
      PROVE  rows' = rows
  BY <1>2 DEF Serve, CheckNext, ReadBook, ReadOwn, ReadAvailable,
     ReserveReadBook, ReserveCheckLast, ReserveCheckNext, FindBelow, ReadBelow,
     FindAbove, ReadAbove, Return, Unwritten
<1>3. ASSUME NEW c \in Closable, SetActive(c) PROVE rows' = rows
  BY <1>3 DEF SetActive
<1>4. Restart \/ UNCHANGED vars => rows' = rows
  BY DEF Restart, Unwritten, vars
<1> QED
  BY <1>1, <1>2, <1>3, <1>4, SameRowsSameBook, InsertUsedTakesNext,
     InsertReservedSetsAside, SaveUsedPutsToUse, EnqueueSetsFree, MovesAnnex
  DEF Keep

LEMMA BookBegins ==
  ASSUME Init
  PROVE  Book!BookInit
<1>1. Sound({})
  BY DEF Sound
<1>2. ASSUME NEW m \in Modules PROVE BookOf({}, m) = <<>>
  <2>1. /\ BookOf({}, m) \in Seq(Book!Entry) /\ Len(BookOf({}, m)) \in Nat
        /\ \A n \in 1 .. Len(BookOf({}, m)) : \E x \in {} : x.number = n
    BY <1>1, BookIsSeq
  <2>2. Len(BookOf({}, m)) = 0
    BY <2>1
  <2> QED
    BY <2>1, <2>2, EmptySeq
<1> QED
  BY <1>2, BookOfRowsIs DEF Init, Book!BookInit

(* As long as requests are served one at a time and no row is deleted, the   *)
(* numbering service implements the book of NumerationBook: whatever the     *)
(* handlers write appends a number at the end of a book, puts to use a free  *)
(* number, sets one free or annexes what a neighbour holds in reserve.       *)
THEOREM BookIsImplemented ==
  ASSUME OneAtATime
  PROVE  KeepSpec => ImplementsBook
<1>1. SerialInv /\ SerialInv' /\ [Keep]_vars => [Book!BookNext]_BookOfRows
  BY BookStepTaken
<1>2. SerialInv /\ [Keep]_vars => SerialInv'
  BY SerialStep
<1>3. Init => Book!BookInit
  BY BookBegins
<1> QED
  BY <1>1, <1>2, <1>3, SerialInit, PTL DEF KeepSpec, ImplementsBook, Book!BookSpec

-------------------------------------------------------------------------------
(***************************************************************************)
(* What the service offers.                                                *)
(***************************************************************************)

(* All the councils meet for one module.  The neighbour of an offer is       *)
(* looked up in every book: with a second one the rows of another module     *)
(* may be offered, and are then not granted.                                 *)
OneModuleOnly == \A c, d \in Councils : ModuleOf[c] = ModuleOf[d]

(* With one module a row is known by its number.                             *)
LEMMA OneBook ==
  ASSUME OneModuleOnly, SerialInv
  PROVE  /\ \A x, y \in rows : x.number = y.number => x = y
         /\ \A x \in rows : \A c \in Councils : x.book = ModuleOf[c]
         /\ \A x \in rows : /\ x.number \in Nat /\ x.number >= 1
                            /\ x.council \in Councils
<1>1. \A x \in rows : x \in Row /\ x.book = ModuleOf[x.council]
  BY DEF SerialInv, TableInv, TypeInv, TypeOK, BookInv, BookOfCouncil
<1>2. \A x \in rows : /\ x.council \in Councils /\ x.number \in Number
  BY <1>1 DEF Row
<1>3. \A x \in rows : \A c \in Councils : x.book = ModuleOf[c]
  BY <1>1, <1>2 DEF OneModuleOnly
<1>4. \A x, y \in rows : x.book = y.book
  BY <1>2, <1>3
<1>5. UniqueNumbers /\ RowsInv
  BY DEF SerialInv, TableInv, UniqueInv, IdInv
<1>6. \A x, y \in rows : x.number = y.number => x = y
  BY <1>4, <1>5 DEF UniqueNumbers, RowsInv
<1> QED
  BY <1>2, <1>3, <1>6, NumerationAssumption DEF Number

(* Rows that keep number and council, and are not in reserve anew.           *)
LEMMA StatesAttached ==
  ASSUME NEW old, NEW new, Attached(old),
         \A y \in new : \E x \in old :
           /\ x.council = y.council /\ x.number = y.number
           /\ y.state = "RESERVED" => x.state = "RESERVED",
         \A x \in old : \E y \in new : y.council = x.council /\ y.number = x.number
  PROVE  Attached(new)
<1> SUFFICES ASSUME NEW x \in new, NEW y \in new, x.state = "RESERVED",
                    y.council = x.council, y.number < x.number
             PROVE  \E z \in new : z.council = x.council /\ z.number = x.number - 1
  BY DEF Attached
<1>1. PICK x0 \in old : /\ x0.council = x.council /\ x0.number = x.number
                        /\ x0.state = "RESERVED"
  OBVIOUS
<1>2. PICK y0 \in old : y0.council = y.council /\ y0.number = y.number
  OBVIOUS
<1>3. PICK z0 \in old : z0.council = x0.council /\ z0.number = x0.number - 1
  BY <1>1, <1>2 DEF Attached
<1>4. PICK z \in new : z.council = z0.council /\ z.number = z0.number
  BY <1>3
<1> QED
  BY <1>1, <1>3, <1>4

(* A row at the end of the book, in use or after one of its council.         *)
LEMMA InsertAttached ==
  ASSUME NEW table, Attached(table), NEW new,
         \A x \in table : x.number \in Nat /\ x.number < new.number,
         new.number \in Nat,
         \/ new.state # "RESERVED"
         \/ \A x \in table : x.council # new.council
         \/ \E x \in table : x.council = new.council /\ x.number = new.number - 1
  PROVE  Attached(table \cup {new})
<1> PICK both : both = table \cup {new}
  OBVIOUS
<1> SUFFICES ASSUME NEW x \in both, NEW y \in both, x.state = "RESERVED",
                    y.council = x.council, y.number < x.number
             PROVE  \E z \in both : z.council = x.council /\ z.number = x.number - 1
  BY DEF Attached
<1>1. y \in table
  OBVIOUS
<1>2. CASE x \in table
  BY <1>1, <1>2 DEF Attached
<1>3. CASE x = new
  BY <1>1, <1>3
<1> QED
  BY <1>2, <1>3

(* The donor hands over the rows snap, its numbers first .. last, next to    *)
(* the last or the first row of c; there they are the rows given.            *)
HandsOver(table, snap, donor, first, last, c, end, given) ==
  /\ snap \subseteq table /\ donor # c
  /\ first \in Nat /\ last \in Int /\ first <= last
  /\ \A x \in snap : /\ x.council = donor /\ x.state = "RESERVED"
                     /\ x.number \in first .. last
  /\ \A n \in first .. last : \E x \in snap : x.number = n
  /\ end \in table /\ end.council = c
  /\ \/ end.number = last + 1 /\ \A x \in table : x.council = c => end.number <= x.number
     \/ end.number = first - 1 /\ \A x \in table : x.council = c => x.number <= end.number
  /\ \A y \in given : y.council = c /\ \E x \in snap : y.number = x.number
  /\ \A x \in snap : \E y \in given : y.number = x.number

LEMMA MovedAttached ==
  ASSUME NEW table, Attached(table),
         \A x \in table : x.number \in Nat,
         \A x, y \in table : x.number = y.number => x = y,
         NEW snap, NEW donor, NEW first, NEW last, NEW c, NEW end, NEW given,
         HandsOver(table, snap, donor, first, last, c, end, given)
  PROVE  Attached((table \ snap) \cup given)
<1> USE DEF HandsOver
<1> PICK new : new = (table \ snap) \cup given
  OBVIOUS
<1> SUFFICES ASSUME NEW x \in new, NEW y \in new, x.state = "RESERVED",
                    y.council = x.council, y.number < x.number
             PROVE  \E z \in new : z.council = x.council /\ z.number = x.number - 1
  BY DEF Attached
<1>1. \A z \in given : z.council = c /\ z.number \in first .. last
  OBVIOUS
<1>2. \A n \in first .. last : \E z \in given : z.council = c /\ z.number = n
  OBVIOUS
<1>3. \A z \in table : z.council = c => z \in new
  OBVIOUS
<1>4. \A z \in table : z.number \in first .. last => z \in snap
  OBVIOUS
<1>5. x.number \in Nat /\ y.number \in Nat
  BY <1>1
<1>6. CASE x.council = c
  <2>1. CASE x \in given
    <3>1. CASE x.number - 1 \in first .. last
      BY <1>2, <1>6, <3>1
    <3>2. CASE x.number = first
      <4>1. end.number = first - 1
        BY <1>1, <1>6, <3>2
      <4> QED
        BY <1>3, <1>6, <3>2, <4>1
    <3> QED
      BY <1>1, <2>1, <3>1, <3>2
  <2>2. CASE x \notin given
    <3>1. x \in table
      BY <2>2
    <3>2. CASE \E z \in table : z.council = c /\ z.number < x.number
      BY <1>3, <1>6, <3>1, <3>2 DEF Attached
    <3>3. CASE \A z \in table : z.council = c => ~ (z.number < x.number)
      <4>1. y \in given
        BY <1>6, <3>3
      <4>2. y.number \in first .. last /\ x.number <= end.number
        BY <1>1, <3>1, <3>3, <4>1
      <4>3. end.number = last + 1 /\ x.number = last + 1
        BY <1>5, <1>6, <3>1, <4>2
      <4> QED
        BY <1>2, <1>6, <4>3
    <3> QED
      BY <3>2, <3>3
  <2> QED
    BY <2>1, <2>2
<1>7. CASE x.council # c
  <2>1. x \in table \ snap /\ y \in table \ snap
    BY <1>1, <1>7
  <2>2. PICK z \in table : z.council = x.council /\ z.number = x.number - 1
    BY <2>1 DEF Attached
  <2>3. ASSUME z \in snap PROVE FALSE
    <3>1. z.number \in first .. last /\ x.number \notin first .. last
      BY <1>4, <2>1, <2>3
    <3>2. x.number = last + 1 /\ x.council = donor
      BY <1>5, <2>2, <2>3, <3>1
    <3>3. CASE end.number = last + 1
      BY <1>7, <2>1, <3>2, <3>3
    <3>4. CASE end.number = first - 1
      <4>1. y.number \notin first .. last /\ y.number <= last
        BY <1>4, <1>5, <2>1, <3>2
      <4>2. y.number < first
        BY <1>5, <4>1
      <4>3. PICK f \in snap : f.number = first
        OBVIOUS
      <4>4. f.state = "RESERVED" /\ f.council = donor /\ y.council = f.council
        BY <3>2, <4>3
      <4>5. PICK e \in table : e.council = donor /\ e.number = first - 1
        BY <2>1, <4>2, <4>3, <4>4 DEF Attached
      <4> QED
        BY <3>4, <4>5
    <3> QED
      BY <3>3, <3>4
  <2> QED
    BY <2>2, <2>3
<1> QED
  BY <1>6, <1>7

(* Attached, of the table, at every write of the handler.                    *)
LEMMA ServeAttached ==
  ASSUME OneAtATime, OneModuleOnly, SerialInv, Attached(rows), NEW r \in Requests, Serve(r)
  PROVE  Attached(rows')
<1> DEFINE v == view[r]
           q == req[r]
           c == q.council
           m == ModuleOf[c]
<1>y. /\ TypeInv /\ RowsInv /\ v \in View /\ q \in Request
      /\ Fits(q, pc[r], v) /\ Seen(rows, q, pc[r], v) /\ v.snap \subseteq rows
      /\ Fresh(Numbers(m), Own(c), q, pc[r], v)
  BY SerialReads
<1>z. v.cur \in Nat /\ v.lo \in Nat /\ v.hi \in Nat /\ q.number \in Nat
      /\ q.start \in Nat /\ q.end \in Nat
  BY <1>y, NumerationAssumption DEF View, Request, Number, NoNumber
<1>n. /\ \A x, y \in rows : x.number = y.number => x = y
      /\ \A x \in rows : \A d \in Councils : x.book = ModuleOf[d]
      /\ \A x \in rows : x.number \in Nat
  BY OneBook
<1>b. ASSUME c \in Councils
      PROVE  \A x \in rows : x.number \in Numbers(m) /\ x.book = m
  BY <1>b, <1>n DEF Numbers, InBook
<1>a. ASSUME NEW y \in rows, NEW z, z.id = y.id, z.council = y.council,
             z.number = y.number, z.state # "RESERVED", SaveRows({z})
      PROVE  Attached(rows')
  <2>1. rows' = {x \in rows : x.id # y.id} \cup {z}
    BY <1>a DEF SaveRows
  <2>2. \A x \in rows : x.id = y.id => x = y
    BY <1>y DEF RowsInv
  <2>3. \A w \in rows' : \E x \in rows :
           /\ x.council = w.council /\ x.number = w.number
           /\ w.state = "RESERVED" => x.state = "RESERVED"
    BY <1>a, <2>1
  <2>4. \A x \in rows : \E w \in rows' : w.council = x.council /\ w.number = x.number
    <3> SUFFICES ASSUME NEW x \in rows
                 PROVE  \E w \in rows' : w.council = x.council /\ w.number = x.number
      OBVIOUS
    <3>1. CASE x.id = y.id
      BY <1>a, <2>1, <2>2, <3>1
    <3>2. CASE x.id # y.id
      BY <2>1, <3>2
    <3> QED
      BY <3>1, <3>2
  <2> QED
    BY <2>3, <2>4, StatesAttached
<1>1. CASE SaveUsed(r)
  <2>1. PICK y \in rows : v.snap = {y} /\ y.state # "USED"
    BY <1>y, <1>1 DEF SaveUsed, Seen
  <2>2. PICK z : z = [y EXCEPT !.state = "USED"]
    OBVIOUS
  <2>3. {[w EXCEPT !.state = "USED"] : w \in {y}} = {z}
    BY <2>2
  <2>4. SaveRows({z})
    BY <1>1, <2>1, <2>3 DEF SaveUsed
  <2>5. /\ z.id = y.id /\ z.number = y.number
        /\ z.council = y.council /\ z.state = "USED"
    BY <1>y, <2>2 DEF TypeInv, TypeOK, Row
  <2> QED
    BY <1>a, <2>4, <2>5
<1>2. CASE Enqueue(r)
  <2>1. PICK s \in rows : v.snap = {s}
    BY <1>y, <1>2 DEF Enqueue, Seen
  <2>2. ASSUME NEW y \in rows, y.id = s.id,
               SaveRows({[y EXCEPT !.state = "ENQUEUED", !.number = s.number]})
        PROVE  Attached(rows')
    <3>1. y = s
      BY <1>y, <2>2 DEF RowsInv
    <3>2. PICK z : /\ z = [y EXCEPT !.state = "ENQUEUED", !.number = s.number]
                   /\ SaveRows({z})
      BY <2>2
    <3>3. /\ z.id = s.id /\ z.number = s.number /\ z.council = s.council
          /\ z.state = "ENQUEUED"
      BY <1>y, <3>1, <3>2 DEF TypeInv, TypeOK, Row
    <3> QED
      BY <1>a, <3>2, <3>3
  <2> QED
    BY <1>2, <2>1, <2>2 DEF Enqueue, Unwritten
<1>3. CASE InsertUsed(r) \/ InsertReserved(r)
  <2>1. PICK n, state : /\ InsertRow(n, state, c) /\ n \in Nat /\ c \in Councils
                        /\ \A k \in Numbers(m) : k < n
                        /\ \/ state # "RESERVED"
                           \/ \A x \in Own(c) : FALSE
                           \/ \E x \in Own(c) : x.number = n - 1
    <3>1. CASE InsertUsed(r)
      BY <1>y, <1>z, <3>1 DEF InsertUsed, Fits, Fresh, CreateAwaits
    <3>2. CASE InsertReserved(r)
      BY <1>y, <1>z, <3>2 DEF InsertReserved, Fits, Fresh, Seen, Own
    <3> QED
      BY <1>3, <3>1, <3>2
  <2>2. PICK new : /\ new = [id |-> nextId, number |-> n, state |-> state,
                             council |-> c, book |-> m]
                   /\ rows' = rows \cup {new}
    BY <2>1 DEF InsertRow
  <2>3. new.number = n /\ new.state = state /\ new.council = c
    BY <2>2
  <2>4. \A x \in rows : x.number < n /\ x.book = m
    BY <1>b, <2>1
  <2>5. \A x \in rows : x.council = c => x \in Own(c)
    BY <2>4 DEF Own
  <2>6. \A x \in Own(c) : x \in rows /\ x.council = c
    BY DEF Own
  <2>7. Attached(rows \cup {new})
    BY <1>n, <2>1, <2>3, <2>4, <2>5, <2>6, InsertAttached
  <2> QED
    BY <2>2, <2>7
<1>4. CASE MoveBelow(r) \/ MoveAbove(r)
  <2>1. pc[r] \in Moving /\ SaveRows(Reassigned(r))
    BY <1>4 DEF MoveBelow, MoveAbove, Moving
  <2>2. c \in Councils /\ v.donor # c /\ v.hi # NoNumber
    BY <1>y, <2>1 DEF Fits, Seen, Moving, ReserveAwaits, Downwards, Upwards
  <2>3. \A x \in rows : x.council = c => x \in Own(c)
    BY <1>b, <2>2 DEF Own
  <2>4. \A x \in Own(c) : x \in rows /\ x.council = c
    BY DEF Own
  <2>5. PICK first, last, end : 
          /\ Taken(v, m, first, last) /\ first \in Nat /\ last \in Int /\ first <= last
          /\ end \in Own(c)
          /\ \/ end.number = last + 1 /\ \A x \in Own(c) : end.number <= x.number
             \/ end.number = first - 1 /\ \A x \in Own(c) : x.number <= end.number
    <3>1. CASE pc[r] = "downMove"
      <4>1. /\ Taken(v, m, q.start, v.lo - 1) /\ q.start \in 1 .. v.lo - 1
            /\ \E l \in Lowest(Own(c)) : l.number = v.lo
        BY <1>y, <2>2, <3>1 DEF Seen, Downwards, Own
      <4>2. PICK l \in Own(c) : l.number = v.lo /\ \A x \in Own(c) : l.number <= x.number
        BY <4>1 DEF Lowest
      <4>3. v.lo - 1 \in Int /\ q.start <= v.lo - 1 /\ l.number = v.lo - 1 + 1
        BY <1>z, <4>1, <4>2
      <4> QED
        BY <1>z, <4>1, <4>2, <4>3
    <3>2. CASE pc[r] = "upMove"
      <4>1. /\ Taken(v, m, v.hi + 1, q.end) /\ v.hi < q.end
            /\ \E h \in Highest(Own(c)) : h.number = v.hi
        BY <1>y, <2>2, <3>2 DEF Seen, Upwards, ReserveAwaits, Own
      <4>2. PICK h \in Own(c) : h.number = v.hi /\ \A x \in Own(c) : x.number <= h.number
        BY <4>1 DEF Highest
      <4>3. PICK f : f = v.hi + 1
        OBVIOUS
      <4>4. f \in Nat /\ q.end \in Int /\ f <= q.end /\ h.number = f - 1
        BY <1>z, <4>1, <4>2, <4>3
      <4>5. Taken(v, m, f, q.end)
        BY <4>1, <4>3
      <4> QED
        BY <4>2, <4>4, <4>5
    <3> QED
      BY <2>1, <3>1, <3>2 DEF Moving
  <2>6. /\ \A x \in v.snap : /\ x.council = v.donor /\ x.state = "RESERVED"
                             /\ x.number \in first .. last
        /\ \A n \in first .. last : \E x \in v.snap : x.number = n
    BY <2>5 DEF Taken
  <2>7. rows' = (rows \ v.snap) \cup Reassigned(r)
    BY <1>y, <2>1, <2>2, <2>6, MovedRows
  <2>8. /\ \A y \in Reassigned(r) : y.council = c /\ \E x \in v.snap : y.number = x.number
        /\ \A x \in v.snap : \E y \in Reassigned(r) : y.number = x.number
    BY <1>y, ReassignedAreGiven
  <2>9. \/ end.number = last + 1 /\ \A x \in rows : x.council = c => end.number <= x.number
        \/ end.number = first - 1 /\ \A x \in rows : x.council = c => x.number <= end.number
    BY <2>3, <2>5
  <2>10. HandsOver(rows, v.snap, v.donor, first, last, c, end, Reassigned(r))
    BY <1>y, <2>2, <2>4, <2>5, <2>6, <2>8, <2>9 DEF HandsOver
  <2>11. Attached((rows \ v.snap) \cup Reassigned(r))
    BY <1>n, <2>10, MovedAttached
  <2> QED
    BY <2>7, <2>11
<1>5. ASSUME ~ SaveUsed(r), ~ MoveBelow(r), ~ MoveAbove(r), ~ Enqueue(r),
             ~ InsertReserved(r), ~ InsertUsed(r)
      PROVE  rows' = rows
  BY <1>5 DEF Serve, CheckNext, ReadBook, ReadOwn, ReadAvailable,
     ReserveReadBook, ReserveCheckLast, ReserveCheckNext, FindBelow, ReadBelow,
     FindAbove, ReadAbove, Return, Unwritten
<1> QED
  BY <1>1, <1>2, <1>3, <1>4, <1>5

(* What the numbering does for one request.                                  *)
LEMMA Serves ==
  ASSUME TypeInv, NEW r \in Requests, Serve(r)
  PROVE  \/ \E to \in Location \ {"idle", "done", "enqueue"} : \E v : GoOn(r, to, v)
         \/ \E status : Finish(r, status)
         \/ Return(r)
<1> DEFINE Goal == \/ \E to \in Location \ {"idle", "done", "enqueue"} : \E v : GoOn(r, to, v)
                   \/ \E status : Finish(r, status)
<1>a. ASSUME NEW to \in Location \ {"idle", "done", "enqueue"}, NEW v, GoOn(r, to, v)
      PROVE  Goal
  BY <1>a
<1>b. ASSUME NEW status, Finish(r, status) PROVE Goal
  BY <1>b
<1>c. ASSUME NEW first, NEW last, NEW v, ReserveRange(r, first, last, v)
      PROVE  Goal
  BY <1>c, <1>a, <1>b DEF ReserveRange, Location
<1>d. ASSUME NEW v, ExtendUp(r, v) PROVE Goal
  BY <1>d, <1>a, <1>b, <1>c DEF ExtendUp, Location
<1> HIDE DEF Goal
<1>1. CheckNext(r) => Goal
  BY <1>a, <1>b DEF CheckNext, Location
<1>2. ReadBook(r) => Goal
  BY <1>a, <1>b DEF ReadBook, Location
<1>3. ReadOwn(r) => Goal
  <2>1. AppendTo(r) => Goal
    BY <1>a DEF AppendTo, Location
  <2> QED
    BY <1>a, <1>b, <2>1 DEF ReadOwn, Location
<1>4. ReadAvailable(r) => Goal
  BY <1>a, <1>b DEF ReadAvailable, Location
<1>5. InsertReserved(r) => Goal
  BY <1>a, <1>b DEF InsertReserved, Location
<1>6. SaveUsed(r) \/ InsertUsed(r) \/ MoveAbove(r) \/ Enqueue(r) => Goal
  BY <1>b DEF SaveUsed, InsertUsed, MoveAbove, Enqueue
<1>7. ReserveReadBook(r) => Goal
  BY <1>a, <1>b, <1>d DEF ReserveReadBook, Location
<1>8. ReserveCheckLast(r) => Goal
  BY <1>a, <1>b DEF ReserveCheckLast, Location
<1>9. ReserveCheckNext(r) => Goal
  BY <1>b, <1>c DEF ReserveCheckNext
<1>10. FindBelow(r) \/ ReadBelow(r) \/ FindAbove(r) \/ ReadAbove(r) => Goal
  BY <1>a, <1>b DEF FindBelow, ReadBelow, FindAbove, ReadAbove, Location
<1>11. MoveBelow(r) => Goal
  BY <1>d DEF MoveBelow
<1> QED
  BY <1>1, <1>2, <1>3, <1>4, <1>5, <1>6, <1>7, <1>8, <1>9, <1>10, <1>11
  DEF Serve, Goal

(* Other requests stay where they are, and the one served is answered the    *)
(* question it asked.                                                        *)
LEMMA ServesOne ==
  ASSUME TypeInv, NEW r \in Requests, Serve(r)
  PROVE  /\ \A s \in Requests : s # r => pc'[s] = pc[s] /\ req'[s] = req[s]
         /\ \/ pc'[r] \notin {"idle", "enqueue"} /\ req'[r] = req[r]
            \/ pc'[r] = "idle"
<1>1. ASSUME NEW to \in Location \ {"idle", "done", "enqueue"}, NEW v, GoOn(r, to, v)
      PROVE  /\ pc' = [pc EXCEPT ![r] = to] /\ req' = req
             /\ to \notin {"idle", "enqueue"}
  BY <1>1 DEF GoOn
<1>2. ASSUME NEW status, Finish(r, status)
      PROVE  pc' = [pc EXCEPT ![r] = "done"] /\ req' = req
  BY <1>2 DEF Finish
<1>3. ASSUME Return(r)
      PROVE  pc' = [pc EXCEPT ![r] = "idle"] /\ req' = [req EXCEPT ![r] = NoRequest]
  BY <1>3 DEF Return
<1> QED
  BY <1>1, <1>2, <1>3, Serves DEF TypeInv, TypeOK

(* Only the first of a reservation's awaits, of a range that is no           *)
(* extension, leads to the check of the last number.                         *)
LEMMA ServeAsked ==
  ASSUME TypeInv, NEW r \in Requests, Serve(r)
  PROVE  /\ pc'[r] = "reserveLast" => ~ req[r].ext /\ req' = req
         /\ pc'[r] = "reserveNext" => pc[r] = "reserveLast" /\ req' = req
         /\ pc'[r] = "idle" => req'[r] = NoRequest
<1> DEFINE Elsewhere == pc'[r] \notin {"reserveLast", "reserveNext", "idle"}
<1>a. ASSUME NEW to \in Location \ {"reserveLast", "reserveNext", "idle"}, NEW v,
             GoOn(r, to, v)
      PROVE  Elsewhere
  BY <1>a DEF GoOn, TypeInv, TypeOK
<1>b. ASSUME NEW status, Finish(r, status) PROVE Elsewhere
  BY <1>b DEF Finish, TypeInv, TypeOK
<1>c. ASSUME NEW first, NEW last, NEW v, ReserveRange(r, first, last, v)
      PROVE  Elsewhere
  BY <1>c, <1>a, <1>b DEF ReserveRange, Location
<1>d. ASSUME NEW v, ExtendUp(r, v) PROVE Elsewhere
  BY <1>d, <1>a, <1>b, <1>c DEF ExtendUp, Location
<1> HIDE DEF Elsewhere
<1>1. AppendTo(r) => Elsewhere
  BY <1>a DEF AppendTo, Location
<1>2. CheckNext(r) \/ ReadBook(r) \/ ReadOwn(r) \/ ReadAvailable(r) => Elsewhere
  BY <1>1, <1>a, <1>b DEF CheckNext, ReadBook, ReadOwn, ReadAvailable, Location
<1>3. \/ SaveUsed(r) \/ InsertReserved(r) \/ InsertUsed(r)
      \/ FindBelow(r) \/ ReadBelow(r) \/ MoveBelow(r)
      \/ FindAbove(r) \/ ReadAbove(r) \/ MoveAbove(r) \/ Enqueue(r)
      => Elsewhere
  BY <1>a, <1>b, <1>d DEF SaveUsed, InsertReserved, InsertUsed, FindBelow, ReadBelow,
     MoveBelow, FindAbove, ReadAbove, MoveAbove, Enqueue, Location
<1>4. ReserveCheckNext(r) => Elsewhere
  BY <1>b, <1>c DEF ReserveCheckNext
<1>5. ASSUME ReserveReadBook(r)
      PROVE  \/ Elsewhere
             \/ ~ req[r].ext /\ pc'[r] = "reserveLast" /\ req' = req
  <2>1. ASSUME NEW v, GoOn(r, "reserveLast", v)
        PROVE  pc'[r] = "reserveLast" /\ req' = req
    BY <2>1 DEF GoOn, TypeInv, TypeOK
  <2> QED
    BY <1>5, <1>a, <1>b, <1>d, <2>1 DEF ReserveReadBook, Location
<1>6. ASSUME ReserveCheckLast(r)
      PROVE  \/ Elsewhere
             \/ pc[r] = "reserveLast" /\ pc'[r] = "reserveNext" /\ req' = req
  <2>1. ASSUME NEW v, GoOn(r, "reserveNext", v)
        PROVE  pc'[r] = "reserveNext" /\ req' = req
    BY <2>1 DEF GoOn, TypeInv, TypeOK
  <2> QED
    BY <1>6, <1>b, <2>1 DEF ReserveCheckLast
<1>7. Return(r) => pc'[r] = "idle" /\ req'[r] = NoRequest
  BY DEF Return, TypeInv, TypeOK
<1> QED
  BY <1>2, <1>3, <1>4, <1>5, <1>6, <1>7 DEF Serve, Elsewhere

LEMMA AskedStep ==
  ASSUME TypeInv, AskedInv, [Keep]_vars
  PROVE  AskedInv'
<1>0. NoRequest.op = "none"
  BY DEF NoRequest
<1>1. ASSUME NEW r \in Requests, Begin(r) PROVE AskedInv'
  <2>1. /\ \A s \in Requests : s # r => pc'[s] = pc[s] /\ req'[s] = req[s]
        /\ \/ pc'[r] \in {"done", "next", "reserveBook"}
           \/ pc'[r] = "enqueue" /\ req'[r].op = "remove"
    BY <1>1 DEF Begin, BeginCreate, BeginReserve, BeginDocumentRemoved, TypeInv,
       TypeOK, NoRequest
  <2> QED
    BY <2>1 DEF AskedInv
<1>2. ASSUME NEW r \in Requests, Serve(r) PROVE AskedInv'
  <2>1. /\ \A s \in Requests : s # r => pc'[s] = pc[s] /\ req'[s] = req[s]
        /\ pc'[r] # "enqueue"
    BY <1>2, ServesOne
  <2> QED
    BY <1>0, <1>2, <2>1, ServeAsked DEF AskedInv
<1>3. ASSUME NEW c \in Closable, SetActive(c) PROVE AskedInv'
  BY <1>3 DEF SetActive, AskedInv
<1>4. Restart => AskedInv'
  BY <1>0 DEF Restart, AskedInv
<1>5. UNCHANGED vars => AskedInv'
  BY DEF vars, AskedInv
<1> QED
  BY <1>1, <1>2, <1>3, <1>4, <1>5 DEF Keep

LEMMA OfferStep ==
  ASSUME OneAtATime, OneModuleOnly, SerialInv, OfferInv, [Keep]_vars
  PROVE  OfferInv'
<1>1. ASSUME rows' = rows PROVE Attached(rows')
  BY <1>1 DEF OfferInv
<1>2. ASSUME NEW r \in Requests, Begin(r) PROVE rows' = rows
  BY <1>2 DEF Begin, BeginCreate, BeginReserve, BeginDocumentRemoved, Unwritten
<1>3. ASSUME NEW r \in Requests, Serve(r) PROVE Attached(rows')
  BY <1>3, ServeAttached DEF OfferInv
<1>4. ASSUME NEW c \in Closable, SetActive(c) PROVE rows' = rows
  BY <1>4 DEF SetActive
<1>5. Restart \/ UNCHANGED vars => rows' = rows
  BY DEF Restart, Unwritten, vars
<1>6. Attached(rows')
  BY <1>1, <1>2, <1>3, <1>4, <1>5 DEF Keep
<1>7. AskedInv'
  BY AskedStep DEF SerialInv, TableInv, OfferInv
<1> QED
  BY <1>6, <1>7 DEF OfferInv

(* The numbers of an offer are all the neighbour's and in reserve: its row   *)
(* next to the range of c is its first, so that every number in reserve      *)
(* above has its own number below.                                           *)
LEMMA OfferIsWhole ==
  ASSUME Attached(rows), NEW c, NEW d, c # d, NEW lo \in Nat, NEW last \in Nat,
         \A x \in rows : x.number \in Nat,
         \A x, y \in rows : x.number = y.number => x = y,
         NEW own \in rows, own.council = c, own.number = lo - 1,
         NEW first \in rows, first.council = d, first.number = lo,
         first.state = "RESERVED",
         NEW end \in rows, end.council = d, end.number = last, lo <= last,
         \A x \in rows : x.council = d /\ x.number >= lo /\ x.number <= last =>
           x.state = "RESERVED"
  PROVE  \A n \in lo .. last : \E x \in rows :
           x.council = d /\ x.number = n /\ x.state = "RESERVED"
<1> DEFINE Has(n) == \E x \in rows : x.council = d /\ x.number = n
<1> DEFINE T == {n \in lo .. last : \A k \in n .. last : Has(k)}
<1>1. last \in T
  BY DEF Has
<1>2. T \in SUBSET Nat
  OBVIOUS
<1>3. PICK least \in T : \A n \in T : least <= n
  BY <1>1, <1>2, LeastOf
<1>4. least \in lo .. last /\ \A k \in least .. last : Has(k)
  BY <1>3
<1>5. \A x \in rows : x.council = d => x.number >= lo
  <2> SUFFICES ASSUME NEW x \in rows, x.council = d, x.number < lo PROVE FALSE
    OBVIOUS
  <2>1. PICK z \in rows : z.council = d /\ z.number = lo - 1
    BY DEF Attached
  <2> QED
    BY <2>1
<1>6. least = lo
  <2> SUFFICES ASSUME least > lo PROVE FALSE
    BY <1>4
  <2>1. PICK x \in rows : x.council = d /\ x.number = least
    BY <1>4
  <2>2. x.state = "RESERVED"
    BY <1>4, <2>1
  <2>3. PICK z \in rows : z.council = d /\ z.number = least - 1
    BY <2>1, <2>2 DEF Attached
  <2>4. least - 1 \in lo .. last
    BY <1>4
  <2>5. \A k \in least - 1 .. last : k = least - 1 \/ k \in least .. last
    BY <1>4
  <2>6. least - 1 \in T
    BY <1>4, <2>3, <2>4, <2>5
  <2> QED
    BY <1>3, <1>4, <2>6
<1>7. \A n \in lo .. last : Has(n)
  BY <1>4, <1>6
<1> QED
  BY <1>7

(* What is offered to the council that asks: it has a last row h, the next   *)
(* number is in reserve, and its holder has the end.                         *)
LEMMA OffersMeans ==
  ASSUME OneModuleOnly, SerialInv, NEW c \in Councils, NEW end,
         OffersUpTo(c, end), NEW h \in Highest(Own(c))
  PROVE  /\ InBook(ModuleOf[c]) # {} /\ Own(c) # {}
         /\ \A t \in Highest(InBook(ModuleOf[c])) : t.council # c
         /\ \E above \in rows :
              /\ above.council # c /\ above.state = "RESERVED"
              /\ above.number = h.number + 1
              /\ \E x \in rows : x.council = above.council /\ x.number = end
                                 /\ x.number > h.number
              /\ \A x \in rows :
                   x.council = above.council /\ x.number > h.number /\ x.number <= end
                   => x.state = "RESERVED"
<1>1. PICK g \in Highest(Own(c)), above \in rows :
        /\ above.council # c /\ above.state = "RESERVED"
        /\ above.number = g.number + 1
        /\ LET after == {x \in rows : /\ x.council = above.council
                                      /\ x.number > g.number}
               given == {x \in after : \A y \in after :
                           y.number <= x.number => y.state = "RESERVED"}
           IN  \E x \in Highest(given) : end = x.number
  BY DEF OffersUpTo
<1>2. \A x \in rows : x.number \in Nat
  BY OneBook
<1>3. g.number = h.number
  BY <1>2 DEF Highest, Own
<1>4. \A x \in Own(c) : x \in InBook(ModuleOf[c])
  BY DEF Own, InBook
<1>5. \A t \in Highest(InBook(ModuleOf[c])) : t.council # c
  BY DEF OffersUpTo
<1>6. h \in Own(c)
  BY DEF Highest
<1> QED
  BY <1>1, <1>3, <1>4, <1>5, <1>6 DEF Highest

(* An extension upwards that is refused where all the councils are open is   *)
(* not one that the service offers at that moment.                           *)
Upward(r) == req[r].op = "reserve" /\ req[r].ext /\ req[r].start = NoNumber

LEMMA ReadBookRefuses ==
  ASSUME SerialInv, NEW r \in Requests, Upward(r), ReserveReadBook(r),
         pc'[r] = "done", reply'[r] # "ok"
  PROVE  Own(req[r].council) = {}
<1> DEFINE c == req[r].council
           v == view[r]
<1>1. /\ TypeInv /\ v \in View /\ req[r] \in Request /\ c \in Councils
      /\ pc[r] = "reserveBook" /\ Seen(rows, req[r], pc[r], v)
  BY SerialReads DEF ReserveReadBook, Fits, ReserveAwaits
<1>2. v.hi = NoNumber => Own(c) = {}
  BY <1>1 DEF Seen, ReserveAwaits, Own
<1>3. Own(c) \subseteq InBook(ModuleOf[c])
  BY DEF Own, InBook
<1>4. v.hi \in Nat /\ req[r].end \in Nat /\ NoNumber = 0
  BY <1>1, NumerationAssumption DEF View, Request, Number, NoNumber
<1>5. ASSUME NEW to \in Location, to # "done", NEW w, GoOn(r, to, w) PROVE FALSE
  BY <1>1, <1>5 DEF GoOn, TypeInv, TypeOK
<1>6. ~ Finish(r, "ok")
  BY <1>1 DEF Finish, TypeInv, TypeOK
<1>7. ASSUME NEW first, NEW w, first = w.hi + 1, w.hi = v.hi,
             req[r].end > v.hi, ReserveRange(r, first, req[r].end, w)
      PROVE  FALSE
  BY <1>4, <1>5, <1>6, <1>7 DEF ReserveRange, Location
<1>8. ASSUME NEW w, w.hi = v.hi, ExtendUp(r, w)
      PROVE  w.top = NoNumber
  BY <1>5, <1>6, <1>7, <1>8 DEF ExtendUp, Location
<1>9. ASSUME NEW w, w.hi = v.hi, w.lo = v.lo,
             \/ ~ req[r].ext /\ GoOn(r, "reserveLast", w)
             \/ w.hi = NoNumber
             \/ req[r].start # NoNumber
             \/ ExtendUp(r, w)
      PROVE  v.hi = NoNumber \/ w.top = NoNumber
  BY <1>8, <1>9 DEF Upward
<1>10. CASE InBook(ModuleOf[c]) = {}
  BY <1>3, <1>10
<1>11. ASSUME NEW t \in Highest(InBook(ModuleOf[c])), NEW w,
              w = [v EXCEPT !.top = t.number, !.topCouncil = t.council],
              \/ ~ req[r].ext /\ GoOn(r, "reserveLast", w)
              \/ w.hi = NoNumber
              \/ req[r].start # NoNumber
              \/ ExtendUp(r, w)
       PROVE  Own(c) = {}
  <2>1. t.number \in Number
    BY <1>1 DEF Highest, InBook, TypeInv, TypeOK, Row
  <2>2. w.top = t.number /\ w.hi = v.hi /\ w.lo = v.lo
    BY <1>1, <1>11 DEF View
  <2>3. t.number # NoNumber
    BY <2>1, <1>4, NumerationAssumption DEF Number
  <2> QED
    BY <1>2, <1>9, <1>11, <2>2, <2>3
<1> QED
  BY <1>10, <1>11 DEF ReserveReadBook, Upward

LEMMA FindAboveRefuses ==
  ASSUME OneModuleOnly, SerialInv, NEW r \in Requests, FindAbove(r),
         pc'[r] = "done", \A c \in Councils : active[c]
  PROVE  ~ OffersUpTo(req[r].council, req[r].end)
<1> DEFINE c == req[r].council
<1>1. /\ TypeInv /\ c \in Councils /\ pc[r] = "up" /\ Seen(rows, req[r], pc[r], view[r])
  BY SerialReads DEF FindAbove, Fits, ReserveAwaits
<1>2. PICK h \in Highest(Own(c)) : h.number = view[r].hi
  BY <1>1 DEF Seen, ReserveAwaits, Upwards, Own
<1>3. ASSUME NEW v, GoOn(r, "upRead", v) PROVE FALSE
  BY <1>1, <1>3 DEF GoOn, TypeInv, TypeOK
<1>4. \A x \in rows : x.council # c /\ x.state = "RESERVED" => x.number # view[r].hi + 1
  BY <1>3, OneBook DEF FindAbove
<1> QED
  BY <1>1, <1>2, <1>4, OffersMeans

LEMMA ReadAboveRefuses ==
  ASSUME OneModuleOnly, SerialInv, Attached(rows), NEW r \in Requests, ReadAbove(r),
         pc'[r] = "done", \A c \in Councils : active[c]
  PROVE  ~ OffersUpTo(req[r].council, req[r].end)
<1> DEFINE c == req[r].council
           v == view[r]
           end == req[r].end
           moved == Giveable(r, v.hi + 1, end)
<1> SUFFICES ASSUME OffersUpTo(c, end) PROVE FALSE
  OBVIOUS
<1>1. /\ TypeInv /\ c \in Councils /\ pc[r] = "upRead"
      /\ v \in View /\ req[r] \in Request /\ Seen(rows, req[r], pc[r], v)
  BY SerialReads DEF ReadAbove, Fits, ReserveAwaits
<1>2. PICK h \in Highest(Own(c)) : h.number = v.hi
  BY <1>1 DEF Seen, ReserveAwaits, Upwards, Own
<1>3. /\ v.hi \in Nat /\ end \in Nat /\ v.hi < end /\ v.donor # c
      /\ \E x \in rows : /\ x.council = v.donor /\ x.state = "RESERVED"
                         /\ x.number = v.hi + 1
  BY <1>1, NumerationAssumption
  DEF Seen, Upwards, View, Request, Number, NoNumber
<1>4. /\ \A x, y \in rows : x.number = y.number => x = y
      /\ \A x \in rows : x.book = ModuleOf[c]
      /\ \A x \in rows : x.number \in Nat /\ x.council \in Councils
  BY <1>1, OneBook
<1>5. PICK above \in rows :
        /\ above.council # c /\ above.state = "RESERVED"
        /\ above.number = h.number + 1
        /\ \E x \in rows : x.council = above.council /\ x.number = end
                           /\ x.number > h.number
        /\ \A x \in rows :
             x.council = above.council /\ x.number > h.number /\ x.number <= end
             => x.state = "RESERVED"
  BY <1>1, OffersMeans
<1>6. above.council = v.donor /\ h \in rows /\ h.council = c
  BY <1>2, <1>3, <1>4, <1>5 DEF Highest, Own
<1> PICK d, lo : d = v.donor /\ lo = v.hi + 1
  OBVIOUS
<1>7. \A n \in lo .. end : \E x \in rows :
        x.council = d /\ x.number = n /\ x.state = "RESERVED"
  <2>1. PICK last \in rows : last.council = d /\ last.number = end
    BY <1>5, <1>6
  <2>2. /\ lo \in Nat /\ lo <= end /\ h.number = lo - 1 /\ above.number = lo
        /\ above.council = d /\ c # d
    BY <1>2, <1>3, <1>5, <1>6
  <2>3. \A x \in rows : x.council = d /\ x.number >= lo /\ x.number <= end =>
          x.state = "RESERVED"
    BY <1>2, <1>3, <1>4, <1>5, <1>6
  <2> QED
    BY <1>3, <1>4, <1>5, <1>6, <2>1, <2>2, <2>3, OfferIsWhole
<1>8. moved = {x \in rows : /\ x.council = d /\ x.state = "RESERVED"
                            /\ x.number >= lo /\ x.number <= end}
  BY <1>3, <1>4 DEF Giveable
<1> PICK S : S = moved
  OBVIOUS
<1>9. Cardinality(S) = end - lo + 1
  <2>1. S \in SUBSET rows /\ IsFiniteSet(rows)
    BY <1>8 DEF SerialInv, TableInv, FirmInv
  <2>2. IsFiniteSet(S)
    BY <2>1, FS_Subset
  <2>3. /\ \A x, y \in S : x.number = y.number => x = y
        /\ \A x \in S : x.number \in lo .. end
    BY <1>3, <1>4, <1>8, <2>1
  <2>4. \A n \in lo .. end : \E x \in S : x.number = n
    BY <1>3, <1>7, <1>8
  <2>5. lo \in Nat /\ end \in Int /\ lo <= end
    BY <1>3
  <2> QED
    BY <2>2, <2>3, <2>4, <2>5, RangeOfRows
<1>10. Cardinality(S) = end - v.hi
  BY <1>3, <1>9
<1>11. ASSUME NEW w, GoOn(r, "upMove", w) PROVE FALSE
  BY <1>1, <1>11 DEF GoOn, TypeInv, TypeOK
<1> QED
  BY <1>10, <1>11 DEF ReadAbove

LEMMA RefusalStep ==
  ASSUME OneAtATime, OneModuleOnly, SerialInv, OfferInv, Keep, NEW r \in Requests,
         pc[r] # "done", pc'[r] = "done", Upward(r), reply'[r] # "ok",
         \A c \in Councils : active[c]
  PROVE  ~ OffersUpTo(req[r].council, req[r].end)
<1>y. /\ TypeInv /\ Fits(req[r], pc[r], view[r])
      /\ Seen(rows, req[r], pc[r], view[r])
      /\ pc[r] # "idle" /\ pc[r] # "enqueue"
      /\ pc[r] \notin {"reserveLast", "reserveNext"}
  BY SerialReads DEF OfferInv, AskedInv, Upward
<1>1. Serve(r)
  <2>1. \A s \in Requests : s = r
    BY DEF OneAtATime
  <2>2. ~ Begin(r)
    BY <1>y DEF Begin, BeginCreate, BeginReserve, BeginDocumentRemoved
  <2>3. \A c \in Closable : ~ SetActive(c)
    BY DEF SetActive
  <2>4. ~ Restart
    BY DEF Restart
  <2> QED
    BY <2>1, <2>2, <2>3, <2>4 DEF Keep
<1>2. pc[r] \notin CreateAwaits
  BY <1>y DEF Fits, Upward
<1>3. pc[r] \notin Downwards
  BY <1>y, NumerationAssumption DEF Seen, Upward, NoNumber
<1>4. ASSUME Finish(r, "ok") PROVE FALSE
  BY <1>4, <1>y DEF Finish, TypeInv, TypeOK
<1>5. ASSUME NEW to \in Location, to # "done", NEW w, GoOn(r, to, w) PROVE FALSE
  BY <1>y, <1>5 DEF GoOn, TypeInv, TypeOK
<1>6. ~ InsertReserved(r) /\ ~ MoveAbove(r)
  BY <1>4, <1>5 DEF InsertReserved, MoveAbove, Location
<1>7. ~ Return(r)
  BY DEF Return
<1>8. ReserveReadBook(r) \/ FindAbove(r) \/ ReadAbove(r)
  BY <1>y, <1>1, <1>2, <1>3, <1>6, <1>7
  DEF Serve, CheckNext, ReadBook, ReadOwn, ReadAvailable, SaveUsed, InsertUsed,
      ReserveCheckLast, ReserveCheckNext, FindBelow, ReadBelow, MoveBelow, Enqueue,
      CreateAwaits, Downwards
<1>9. CASE ReserveReadBook(r)
  BY <1>9, ReadBookRefuses DEF OffersUpTo
<1>10. CASE FindAbove(r)
  BY <1>10, FindAboveRefuses
<1>11. CASE ReadAbove(r)
  BY <1>11, ReadAboveRefuses DEF OfferInv
<1> QED
  BY <1>8, <1>9, <1>10, <1>11

(* OfferGranted, as long as requests are served one at a time, no row is     *)
(* deleted and all the councils meet for one module: while all of them are   *)
(* open, the range that the service offers above the numbers of a council is *)
(* never refused to it.                                                      *)
THEOREM OffersAreGranted ==
  ASSUME OneAtATime, OneModuleOnly
  PROVE  KeepSpec => OfferGranted
<1> DEFINE Granted ==
      \A r \in Requests :
        /\ pc[r] # "done" /\ pc'[r] = "done"
        /\ req[r].op = "reserve" /\ req[r].ext /\ req[r].start = NoNumber
        /\ reply'[r] # "ok"
        /\ \A c \in Councils : active[c]
        => ~ OffersUpTo(req[r].council, req[r].end)
<1>1. SerialInv /\ OfferInv /\ [Keep]_vars => [Granted]_vars
  BY RefusalStep DEF Upward
<1>2. SerialInv /\ [Keep]_vars => SerialInv'
  BY SerialStep
<1>3. SerialInv /\ OfferInv /\ [Keep]_vars => OfferInv'
  BY OfferStep
<1>4. Init => OfferInv
  <2>1. NoRequest.op = "none"
    BY DEF NoRequest
  <2> QED
    BY <2>1 DEF Init, OfferInv, Attached, AskedInv
<1>5. OfferGranted <=> [][Granted]_vars
  BY DEF OfferGranted
<1> HIDE DEF Granted
<1> QED
  BY <1>1, <1>2, <1>3, <1>4, <1>5, SerialInit, PTL DEF KeepSpec

-------------------------------------------------------------------------------
(***************************************************************************)
(* Part 2: creation and removal of documents.                              *)
(***************************************************************************)

(***************************************************************************)
(* The types, and which await of the numbering a document handler is at.   *)
(***************************************************************************)

(* The numbering is at work while a number is taken or queued, and when no   *)
(* document is concerned; otherwise it is done, and waits for the answer.    *)
Follows(at, await, op) ==
  /\ at = "idle" => \/ await = "idle"
                    \/ op = "reserve" /\ await \notin {"idle", "enqueue"}
  /\ at = "numbering" =>
       await \in CreateAwaits \cup {"range", "done"} /\ op = "create"
  /\ at = "dequeue" => await = "enqueue"
  /\ at \notin {"idle", "numbering", "dequeue"} => await = "done"

FollowsInv == \A r \in Requests : Follows(work[r].at, pc[r], req[r].op)

DocumentTables ==
  /\ documents \subseteq Document
  /\ nextDocument \in Nat
  /\ files \subseteq Nat
  /\ background \subseteq Task

TypedInv == TypeInv /\ DocumentTables /\ work \in [Requests -> Work] /\ FollowsInv

(* One handler moves on, all others stay where they are.                     *)
Moves(r, w) == work' = [work EXCEPT ![r] = w]

LEMMA AtMoves ==
  ASSUME TypedInv, NEW r \in Requests, NEW to \in Step, At(r, to)
  PROVE  \E w \in Work : /\ Moves(r, w)
                         /\ w.at = to /\ w.row = work[r].row
                         /\ w.doc = work[r].doc /\ w.file = work[r].file
<1>1. work[r] \in Work
  BY DEF TypedInv
<1> DEFINE w == [work[r] EXCEPT !.at = to]
<1>2. /\ w \in Work /\ w.at = to /\ w.row = work[r].row
      /\ w.doc = work[r].doc /\ w.file = work[r].file
  BY <1>1 DEF Work
<1>3. Moves(r, w)
  BY <1>1 DEF At, Moves, TypedInv
<1> QED
  BY <1>2, <1>3

(* The handlers that do not move.                                            *)
LEMMA OthersStay ==
  ASSUME TypedInv, NEW r \in Requests, NEW w, Moves(r, w)
  PROVE  work'[r] = w /\ \A s \in Requests : s # r => work'[s] = work[s]
  BY DEF TypedInv, Moves

(* While a number is taken the numbering stays in create.                    *)
LEMMA TakeNumberAwaits ==
  ASSUME TypeInv, NEW r \in Requests, req[r].op = "create",
         \/ CheckNext(r) \/ ReadBook(r) \/ ReadOwn(r) \/ ReadAvailable(r)
         \/ InsertReserved(r)
  PROVE  /\ pc'[r] \in CreateAwaits \cup {"range", "done"}
         /\ req' = req
         /\ \A s \in Requests : s # r => pc'[s] = pc[s]
<1> DEFINE Goal == /\ pc'[r] \in CreateAwaits \cup {"range", "done"}
                   /\ req' = req
                   /\ \A s \in Requests : s # r => pc'[s] = pc[s]
<1>a. ASSUME NEW to \in CreateAwaits \cup {"range", "done"}, NEW v, GoOn(r, to, v)
      PROVE  Goal
  BY <1>a DEF GoOn, TypeInv, TypeOK
<1>b. ASSUME NEW status, Finish(r, status) PROVE Goal
  BY <1>b DEF Finish, TypeInv, TypeOK
<1> HIDE DEF Goal
<1>1. CheckNext(r) => Goal
  BY <1>a, <1>b DEF CheckNext, CreateAwaits
<1>2. ReadBook(r) => Goal
  BY <1>a, <1>b DEF ReadBook, CreateAwaits
<1>3. ReadOwn(r) => Goal
  <2>1. AppendTo(r) => Goal
    BY <1>a DEF AppendTo, CreateAwaits
  <2> QED
    BY <1>a, <1>b, <2>1 DEF ReadOwn, CreateAwaits
<1>4. ReadAvailable(r) => Goal
  BY <1>a, <1>b DEF ReadAvailable, CreateAwaits
<1>5. InsertReserved(r) => Goal
  BY <1>a, <1>b DEF InsertReserved, CreateAwaits
<1> QED
  BY <1>1, <1>2, <1>3, <1>4, <1>5 DEF Goal

(* A step of the numbering keeps its types.                                  *)
LEMMA KeepTyped ==
  ASSUME TypeInv, [Keep]_vars
  PROVE  TypeInv'
<1>1. [Next]_vars
  BY DEF Next
<1> QED
  BY <1>1, TypeStep

(* So does the deletion of the row of a number,                              *)
LEMMA DeletionTyped ==
  ASSUME TypeInv, rows' \subseteq rows,
         UNCHANGED <<nextId, active, pc, req, view, reply>>
  PROVE  TypeInv'
  BY DEF TypeInv, TypeOK, AwaitInv

LEMMA DeleteNumberDeletes ==
  ASSUME NEW r, NEW done, NEW refused, DeleteNumber(r, done, refused)
  PROVE  /\ rows' \subseteq rows
         /\ UNCHANGED <<nextId, active, pc, req, view, reply>>
         /\ At(r, done) \/ At(r, refused)
  BY DEF DeleteNumber, Numbered, vars

(* and the reading of the row of a document.                                 *)
LEMMA ReadingTyped ==
  ASSUME TypeInv, NEW r \in Requests, NEW x \in rows, BeginDocumentRemoved(r, x)
  PROVE  /\ TypeInv'
         /\ pc'[r] = "enqueue"
         /\ \A s \in Requests : s # r => pc'[s] = pc[s] /\ req'[s] = req[s]
<1> DEFINE q == [NoRequest EXCEPT !.op = "remove"]
           v == [view[r] EXCEPT !.snap = {x}]
<1>1. q \in Request
  BY DEF NoRequest, Request, NoNumber
<1>2. view[r] \in View /\ x \in Row /\ view[r].hi = NoNumber
  BY DEF TypeInv, TypeOK, BeginDocumentRemoved, AwaitInv, Fits
<1>3. v \in View /\ v.hi = NoNumber
  BY <1>2 DEF View
<1>4. /\ pc' = [pc EXCEPT ![r] = "enqueue"] /\ req' = [req EXCEPT ![r] = q]
      /\ view' = [view EXCEPT ![r] = v] /\ UNCHANGED <<rows, nextId, active, reply>>
  BY DEF BeginDocumentRemoved, Unwritten, TypeInv, TypeOK
<1> HIDE DEF q, v
<1>5. /\ pc'[r] = "enqueue"
      /\ \A s \in Requests : s # r => /\ pc'[s] = pc[s] /\ req'[s] = req[s]
                                      /\ view'[s] = view[s]
  BY <1>4 DEF TypeInv, TypeOK
<1>6. TypeOK'
  BY <1>1, <1>3, <1>4 DEF TypeInv, TypeOK, Location
<1>7. Fits(req'[r], pc'[r], view'[r])
  BY <1>5 DEF Fits, CreateAwaits, ReserveAwaits
<1>8. AwaitInv'
  BY <1>5, <1>7 DEF TypeInv, AwaitInv
<1> QED
  BY <1>5, <1>6, <1>8 DEF TypeInv

-------------------------------------------------------------------------------
(***************************************************************************)
(* The steps of a document keep the types.                                 *)
(***************************************************************************)

(* The steps at which the numbering waits for the document.                  *)
Late == Step \ {"idle", "numbering", "dequeue"}

DocumentStep(r) ==
  \/ SaveDocument(r) \/ QueryDocument(r) \/ CopyTemplate(r) \/ LinkFile(r)
  \/ DropNumber(r) \/ UndoFile(r) \/ UndoDocument(r) \/ UndoNumber(r)
  \/ UnlinkFile(r) \/ DeleteDocument(r)

LEMMA MovedTyped ==
  ASSUME TypedInv, TypeInv', DocumentTables', NEW r \in Requests, NEW w \in Work,
         Moves(r, w), Follows(w.at, pc'[r], req'[r].op),
         \A s \in Requests : s # r => pc'[s] = pc[s] /\ req'[s] = req[s]
  PROVE  TypedInv'
<1>1. /\ work' \in [Requests -> Work] /\ work'[r] = w
      /\ \A s \in Requests : s # r => work'[s] = work[s]
  BY DEF TypedInv, Moves
<1>2. FollowsInv'
  BY <1>1 DEF TypedInv, FollowsInv
<1> QED
  BY <1>1, <1>2 DEF TypedInv

LEMMA IdleTyped == Idle \in Work /\ Idle.at = "idle" /\ Idle.doc = 0
  BY DEF Idle, Work, Step

(* A document and its file are of their types.                               *)
LEMMA DeleteFileTyped ==
  ASSUME TypedInv, NEW r \in Requests, NEW done \in Late, DeleteFile(r, done)
  PROVE  DocumentTables' /\ \E to \in Late : At(r, to)
  BY DEF DeleteFile, TypedInv, DocumentTables, Tables, Late, Step

LEMMA DocumentStepTyped ==
  ASSUME TypedInv, NEW r \in Requests, DocumentStep(r)
  PROVE  TypedInv'
<1>0. /\ work[r] \in Work /\ work[r].row \in Nat /\ work[r].doc \in Nat
      /\ nextDocument \in Nat /\ TypeInv /\ DocumentTables
  BY DEF TypedInv, DocumentTables, Work
<1> DEFINE Goal == DocumentTables' /\ \E w \in Work : Moves(r, w) /\ w.at \in Late
<1>a. ASSUME NEW to \in Late, At(r, to), DocumentTables' PROVE Goal
  BY <1>a, AtMoves DEF Late
<1>b. Tables => DocumentTables'
  BY <1>0 DEF Tables, DocumentTables
<1>c. \A to : to \in {"save", "query", "copy", "link", "dropNumber", "undoFile",
                      "undoDocument", "undoNumber", "unlink", "delete",
                      "created", "removed", "failed"} => to \in Late
  BY DEF Late, Step
<1>d. ASSUME NEW done \in Late, NEW refused \in Late,
             DeleteNumber(r, done, refused), Tables
      PROVE  Goal
  BY <1>a, <1>b, <1>d, DeleteNumberDeletes
<1>e. ASSUME NEW done \in Late, DeleteFile(r, done) PROVE Goal
  BY <1>a, <1>e, DeleteFileTyped
<1>f. \A d \in documents : d.id \in Nat /\ d.row \in Nat
  BY <1>0 DEF DocumentTables, Document
<1> HIDE DEF Goal
<1>1. ASSUME SaveDocument(r) PROVE Goal
  <2> DEFINE saved == [id |-> nextDocument, row |-> work[r].row,
                       linked |-> FALSE, left |-> FALSE]
             w == [work[r] EXCEPT !.at = "query", !.doc = nextDocument]
  <2>1. saved \in Document /\ w \in Work /\ w.at = "query"
    BY <1>0 DEF Document, Work, Step
  <2>2. CASE /\ documents' = documents \cup {saved}
             /\ nextDocument' = nextDocument + 1
             /\ work' = [work EXCEPT ![r].at = "query", ![r].doc = nextDocument]
             /\ UNCHANGED <<files, background>>
    <3>1. work' = [work EXCEPT ![r] = w]
      BY <2>2 DEF TypedInv
    <3> HIDE DEF w, saved
    <3>2. nextDocument' = nextDocument + 1 /\ UNCHANGED <<files, background>>
          /\ documents' = documents \cup {saved}
      BY <2>2 DEF saved
    <3>3. nextDocument' \in Nat
      BY <1>0, <3>2
    <3>4. DocumentTables'
      BY <1>0, <2>1, <3>2, <3>3 DEF DocumentTables
    <3> QED
      BY <1>c, <2>1, <3>1, <3>4 DEF Goal, Moves
  <2>3. CASE At(r, "undoNumber") /\ Tables
    BY <1>a, <1>b, <1>c, <2>3
  <2> QED
    BY <1>1, <2>2, <2>3 DEF SaveDocument
<1>2. ASSUME QueryDocument(r) PROVE Goal
  BY <1>2, <1>a, <1>b, <1>c DEF QueryDocument
<1>3. ASSUME CopyTemplate(r) PROVE Goal
  <2> DEFINE w == [work[r] EXCEPT !.at = "link", !.file = TRUE]
             t == [kind |-> "replaceText", doc |-> work[r].doc]
  <2>1. w \in Work /\ w.at = "link" /\ t \in Task
    BY <1>0 DEF Work, Step, Task
  <2>2. CASE /\ files' = files \cup {work[r].doc}
             /\ background' = background \cup {t}
             /\ work' = [work EXCEPT ![r].at = "link", ![r].file = TRUE]
             /\ UNCHANGED <<documents, nextDocument>>
    <3>1. work' = [work EXCEPT ![r] = w]
      BY <2>2 DEF TypedInv
    <3>2. DocumentTables'
      BY <1>0, <2>1, <2>2 DEF DocumentTables
    <3> HIDE DEF w
    <3> QED
      BY <1>c, <2>1, <3>1, <3>2 DEF Goal, Moves
  <2>3. CASE At(r, "undoDocument") /\ Tables
    BY <1>a, <1>b, <1>c, <2>3
  <2> QED
    BY <1>3, <2>2, <2>3 DEF CopyTemplate
<1>4. ASSUME LinkFile(r) PROVE Goal
  <2> DEFINE t == [kind |-> "saveVariables", doc |-> work[r].doc]
  <2>1. t \in Task
    BY <1>0 DEF Task
  <2>2. ASSUME NEW d \in documents,
               documents' = (documents \ {d}) \cup {[d EXCEPT !.linked = TRUE]},
               background' = background \cup {t},
               At(r, "created"), UNCHANGED <<nextDocument, files>>
        PROVE  Goal
    <3>1. [d EXCEPT !.linked = TRUE] \in Document
      BY <1>0 DEF DocumentTables, Document
    <3>2. DocumentTables'
      BY <1>0, <2>1, <2>2, <3>1 DEF DocumentTables
    <3> QED
      BY <1>a, <1>c, <2>2, <3>2
  <2>3. CASE At(r, "undoFile") /\ Tables
    BY <1>a, <1>b, <1>c, <2>3
  <2> QED
    BY <1>4, <2>2, <2>3 DEF LinkFile
<1>5. ASSUME DropNumber(r) PROVE Goal
  BY <1>5, <1>c, <1>d DEF DropNumber
<1>6. ASSUME UndoFile(r) PROVE Goal
  BY <1>6, <1>c, <1>e DEF UndoFile
<1>7. ASSUME UndoDocument(r) \/ DeleteDocument(r) PROVE Goal
  <2>1. /\ documents' = {d \in documents : d.id # work[r].doc}
        /\ At(r, "undoNumber") \/ At(r, "removed")
        /\ UNCHANGED <<nextDocument, files, background>>
    BY <1>7 DEF UndoDocument, DeleteDocument
  <2>2. DocumentTables'
    BY <1>0, <2>1 DEF DocumentTables
  <2> QED
    BY <1>a, <1>c, <2>1, <2>2
<1>8. ASSUME UndoNumber(r) PROVE Goal
  BY <1>8, <1>c, <1>d DEF UndoNumber
<1>9. ASSUME UnlinkFile(r) PROVE Goal
  BY <1>9, <1>c, <1>e DEF UnlinkFile
<1>10. Goal
  BY <1>1, <1>2, <1>3, <1>4, <1>5, <1>6, <1>7, <1>8, <1>9 DEF DocumentStep
<1>11. work[r].at \in Late
  BY <1>c DEF DocumentStep, SaveDocument, QueryDocument, CopyTemplate, LinkFile,
     DropNumber, UndoFile, UndoDocument, UndoNumber, UnlinkFile, DeleteDocument
<1>12. pc' = pc /\ req' = req /\ TypeInv'
  <2>1. Numbered => pc' = pc /\ req' = req /\ TypeInv'
    BY <1>0, KeepTyped DEF Numbered, vars
  <2>2. ASSUME NEW done, NEW refused, DeleteNumber(r, done, refused)
        PROVE  pc' = pc /\ req' = req /\ TypeInv'
    BY <1>0, <2>2, DeleteNumberDeletes, DeletionTyped
  <2> QED
    BY <2>1, <2>2 DEF DocumentStep, SaveDocument, QueryDocument, CopyTemplate,
       LinkFile, DropNumber, UndoFile, UndoDocument, UndoNumber, UnlinkFile,
       DeleteDocument
<1>13. pc[r] = "done"
  BY <1>11 DEF TypedInv, FollowsInv, Follows, Late
<1>14. PICK w \in Work : Moves(r, w) /\ w.at \in Late
  BY <1>10 DEF Goal
<1>15. Follows(w.at, pc'[r], req'[r].op)
  BY <1>12, <1>13, <1>14 DEF Follows, Late
<1> QED
  BY <1>10, <1>12, <1>14, <1>15, MovedTyped DEF Goal

(* A step of the numbering, and the handler of the document with it.         *)
LEMMA ServedTyped ==
  ASSUME TypedInv, NEW r \in Requests, Serve(r), DocumentTables',
         NEW w \in Work, Moves(r, w), Follows(w.at, pc'[r], req'[r].op)
  PROVE  TypedInv'
<1>1. Keep
  BY DEF Keep
<1>2. TypeInv'
  BY <1>1, KeepTyped DEF TypedInv
<1> QED
  BY <1>2, ServesOne, MovedTyped DEF TypedInv

(* The tables of the documents are left alone.                               *)
LEMMA TablesTyped ==
  ASSUME TypedInv, Tables
  PROVE  DocumentTables'
  BY DEF TypedInv, Tables, DocumentTables

LEMMA StaysMoves ==
  ASSUME TypedInv, NEW r \in Requests, work' = work
  PROVE  Moves(r, work[r]) /\ work[r] \in Work
  BY DEF TypedInv, Moves

LEMMA CreateDocumentTyped ==
  ASSUME TypedInv, NEW r \in Requests, NEW c \in Councils, NEW n \in Number,
         CreateDocument(r, c, n)
  PROVE  TypedInv'
<1>1. Begin(r) /\ Keep
  BY DEF CreateDocument, Begin, Keep
<1>2. PICK w \in Work : Moves(r, w) /\ w.at = "numbering"
  BY AtMoves DEF CreateDocument, Step
<1>3. /\ pc'[r] \in {"next", "done"} /\ req'[r].op = "create"
      /\ \A s \in Requests : s # r => pc'[s] = pc[s] /\ req'[s] = req[s]
  BY DEF CreateDocument, BeginCreate, TypedInv, TypeInv, TypeOK, NoRequest
<1>4. Follows(w.at, pc'[r], req'[r].op)
  BY <1>2, <1>3 DEF Follows, CreateAwaits
<1> QED
  BY <1>1, <1>2, <1>3, <1>4, KeepTyped, TablesTyped, MovedTyped
  DEF CreateDocument, TypedInv

LEMMA TakeNumberTyped ==
  ASSUME TypedInv, NEW r \in Requests, TakeNumber(r)
  PROVE  TypedInv'
<1>1. Serve(r) /\ work' = work /\ Tables
  BY DEF TakeNumber, Serve, documentVars, Tables
<1>2. work[r].at = "numbering" /\ req[r].op = "create"
  BY DEF TakeNumber, TypedInv, FollowsInv, Follows
<1>3. Follows(work[r].at, pc'[r], req'[r].op)
  BY <1>2, TakeNumberAwaits DEF TakeNumber, Follows, TypedInv
<1> QED
  BY <1>1, <1>3, StaysMoves, TablesTyped, ServedTyped

(* A number that was given is that of a row.                                 *)
LEMMA NumberGivenMoves ==
  ASSUME TypedInv, NEW r \in Requests, NumberGiven(r)
  PROVE  /\ Serve(r) /\ pc'[r] = "done" /\ Tables /\ work[r].at = "numbering"
         /\ \E w \in Work :
              /\ Moves(r, w) /\ w.at = "save"
              /\ w.doc = work[r].doc /\ w.file = work[r].file
              /\ \/ InsertUsed(r) /\ w.row = nextId
                 \/ SaveUsed(r) /\ \E x \in view[r].snap : w.row = x.id
<1>1. ASSUME NEW n \in Nat,
             work' = [work EXCEPT ![r].at = "save", ![r].row = n]
      PROVE  \E w \in Work : /\ Moves(r, w) /\ w.at = "save" /\ w.row = n
                             /\ w.doc = work[r].doc /\ w.file = work[r].file
  <2> DEFINE w == [work[r] EXCEPT !.at = "save", !.row = n]
  <2>1. work' = [work EXCEPT ![r] = w]
    BY <1>1 DEF TypedInv
  <2>2. /\ w \in Work /\ w.at = "save" /\ w.row = n
        /\ w.doc = work[r].doc /\ w.file = work[r].file
    BY DEF TypedInv, Work, Step
  <2> QED
    BY <2>1, <2>2 DEF Moves
<1>2. Finish(r, "ok") /\ Serve(r) /\ Tables /\ work[r].at = "numbering"
  BY DEF NumberGiven, InsertUsed, SaveUsed, Serve
<1>3. pc'[r] = "done"
  BY <1>2 DEF Finish, TypedInv, TypeInv, TypeOK
<1>4. nextId \in Nat
  BY DEF TypedInv, TypeInv, TypeOK
<1>5. \A x \in view[r].snap : x.id \in Nat
  BY DEF TypedInv, TypeInv, TypeOK, View, Row
<1>6. CASE InsertUsed(r) /\ work' = [work EXCEPT ![r].at = "save", ![r].row = nextId]
  BY <1>1, <1>2, <1>3, <1>4, <1>6
<1>7. ASSUME SaveUsed(r), NEW x \in view[r].snap,
             work' = [work EXCEPT ![r].at = "save", ![r].row = x.id]
      PROVE  \E w \in Work :
              /\ Moves(r, w) /\ w.at = "save"
              /\ w.doc = work[r].doc /\ w.file = work[r].file
              /\ SaveUsed(r) /\ \E y \in view[r].snap : w.row = y.id
  <2>1. PICK n \in Nat : n = x.id
    BY <1>5
  <2> QED
    BY <1>1, <1>7, <2>1
<1> QED
  BY <1>2, <1>3, <1>6, <1>7 DEF NumberGiven

LEMMA NumberGivenTyped ==
  ASSUME TypedInv, NEW r \in Requests, NumberGiven(r)
  PROVE  TypedInv'
<1>1. PICK w \in Work : Moves(r, w) /\ w.at = "save"
  BY NumberGivenMoves
<1>2. Serve(r) /\ pc'[r] = "done" /\ Tables
  BY NumberGivenMoves
<1>3. Follows(w.at, pc'[r], req'[r].op)
  BY <1>1, <1>2 DEF Follows
<1> QED
  BY <1>1, <1>2, <1>3, TablesTyped, ServedTyped

LEMMA RemoveDocumentMoves ==
  ASSUME TypedInv, NEW r \in Requests, NEW d \in documents, RemoveDocument(r, d)
  PROVE  \E w \in Work : /\ Moves(r, w) /\ w.at = "dequeue" /\ w.row = d.row
                         /\ w.doc = d.id /\ w.file = d.linked
<1> DEFINE w == [at |-> "dequeue", row |-> d.row, doc |-> d.id,
                 file |-> d.linked]
<1>1. w \in Work
  BY DEF TypedInv, DocumentTables, Document, Work, Step
<1> QED
  BY <1>1 DEF RemoveDocument, Moves

LEMMA RemoveDocumentTyped ==
  ASSUME TypedInv, NEW r \in Requests, NEW d \in documents, RemoveDocument(r, d)
  PROVE  TypedInv'
<1>1. PICK w \in Work : Moves(r, w) /\ w.at = "dequeue"
  BY RemoveDocumentMoves
<1>2. PICK x \in rows : BeginDocumentRemoved(r, x)
  BY DEF RemoveDocument
<1>3. /\ TypeInv' /\ pc'[r] = "enqueue"
      /\ \A s \in Requests : s # r => pc'[s] = pc[s] /\ req'[s] = req[s]
  BY <1>2, ReadingTyped DEF TypedInv
<1>4. Follows(w.at, pc'[r], req'[r].op)
  BY <1>1, <1>3 DEF Follows
<1> QED
  BY <1>1, <1>3, <1>4, TablesTyped, MovedTyped DEF RemoveDocument

LEMMA DequeueNumberMoves ==
  ASSUME TypedInv, NEW r \in Requests, DequeueNumber(r)
  PROVE  \E w \in Work :
           /\ Moves(r, w) /\ w.row = work[r].row /\ w.doc = work[r].doc
           /\ w.file = work[r].file
           /\ \/ w.at = "failed" /\ reply'[r] # "ok"
              \/ w.at = "unlink" /\ work[r].file /\ reply'[r] = "ok"
              \/ w.at = "delete" /\ ~ work[r].file /\ reply'[r] = "ok"
<1>1. "failed" \in Step /\ "unlink" \in Step /\ "delete" \in Step
  BY DEF Step
<1>2. work[r].file \in BOOLEAN
  BY DEF TypedInv, Work
<1>3. CASE reply'[r] # "ok" /\ At(r, "failed")
  BY <1>1, <1>3, AtMoves
<1>4. CASE reply'[r] = "ok" /\ work[r].file /\ At(r, "unlink")
  BY <1>1, <1>4, AtMoves
<1>5. CASE reply'[r] = "ok" /\ ~ work[r].file /\ At(r, "delete")
  BY <1>1, <1>5, AtMoves
<1> QED
  BY <1>2, <1>3, <1>4, <1>5 DEF DequeueNumber

LEMMA DequeueNumberTyped ==
  ASSUME TypedInv, NEW r \in Requests, DequeueNumber(r)
  PROVE  TypedInv'
<1>1. PICK w \in Work : Moves(r, w) /\ w.at \in {"failed", "unlink", "delete"}
  BY DequeueNumberMoves
<1>2. Serve(r) /\ Tables /\ \E status : Finish(r, status)
  BY DEF DequeueNumber, Enqueue, Serve
<1>3. pc'[r] = "done"
  BY <1>2 DEF Finish, TypedInv, TypeInv, TypeOK
<1>4. Follows(w.at, pc'[r], req'[r].op)
  BY <1>1, <1>3 DEF Follows
<1> QED
  BY <1>1, <1>2, <1>4, TablesTyped, ServedTyped

LEMMA RespondTyped ==
  ASSUME TypedInv, NEW r \in Requests, Respond(r)
  PROVE  TypedInv'
<1>1. Serve(r) /\ Tables /\ Moves(r, Idle) /\ Return(r)
  BY DEF Respond, Serve, Moves
<1>2. pc'[r] = "idle"
  BY <1>1 DEF Return, TypedInv, TypeInv, TypeOK
<1>3. Follows(Idle.at, pc'[r], req'[r].op)
  BY <1>2, IdleTyped DEF Follows
<1> QED
  BY <1>1, <1>3, IdleTyped, TablesTyped, ServedTyped

LEMMA ReserveTyped ==
  ASSUME TypedInv, NEW r \in Requests, ReserveNumbers(r) \/ ServeReserve(r)
  PROVE  TypedInv'
<1>1. Tables /\ work' = work /\ work[r].at = "idle"
  BY DEF ReserveNumbers, ServeReserve, documentVars, Tables
<1>2. CASE ReserveNumbers(r)
  <2>1. PICK c \in Councils, g \in Ranges : BeginReserve(r, c, g)
    BY <1>2 DEF ReserveNumbers
  <2>2. Begin(r) /\ Keep
    BY <1>2 DEF ReserveNumbers, Begin, Keep
  <2>3. /\ pc'[r] = "reserveBook" /\ req'[r].op = "reserve"
        /\ \A s \in Requests : s # r => pc'[s] = pc[s] /\ req'[s] = req[s]
    BY <2>1 DEF BeginReserve, TypedInv, TypeInv, TypeOK, NoRequest
  <2>4. Follows(work[r].at, pc'[r], req'[r].op)
    BY <1>1, <2>3 DEF Follows
  <2> QED
    BY <1>1, <2>2, <2>3, <2>4, KeepTyped, StaysMoves, TablesTyped, MovedTyped
    DEF TypedInv
<1>3. CASE ServeReserve(r)
  <2>1. Serve(r) /\ req[r].op = "reserve"
    BY <1>3 DEF ServeReserve
  <2>2. Follows(work[r].at, pc'[r], req'[r].op)
    BY <1>1, <2>1, ServesOne DEF Follows, TypedInv
  <2> QED
    BY <1>1, <2>1, <2>2, StaysMoves, TablesTyped, ServedTyped
<1> QED
  BY <1>2, <1>3

LEMMA CrashTyped ==
  ASSUME TypedInv, Crash
  PROVE  TypedInv'
<1>1. TypeInv'
  BY KeepTyped DEF TypedInv, Crash, Keep
<1>2. /\ \A r \in Requests : pc'[r] = "idle" /\ work'[r] = Idle
      /\ work' \in [Requests -> Work]
  BY IdleTyped DEF Crash, Restart
<1>3. FollowsInv'
  BY <1>2, IdleTyped DEF FollowsInv, Follows
<1>4. \A d \in documents : \A l \in BOOLEAN : [d EXCEPT !.left = l] \in Document
  BY DEF TypedInv, DocumentTables, Document
<1>5. \A d \in documents :
        (d.left \/ \E r \in Requests : work[r].doc = d.id) \in BOOLEAN
  BY DEF TypedInv, DocumentTables, Document
<1>6. documents' \subseteq Document
  <2> SUFFICES ASSUME NEW e \in documents' PROVE e \in Document
    OBVIOUS
  <2>1. PICK d \in documents :
          e = [d EXCEPT !.left = @ \/ \E r \in Requests : work[r].doc = d.id]
    BY DEF Crash
  <2>2. PICK l : l = (d.left \/ \E r \in Requests : work[r].doc = d.id)
    OBVIOUS
  <2>3. e = [d EXCEPT !.left = l] /\ l \in BOOLEAN
    BY <1>5, <2>1, <2>2
  <2> QED
    BY <1>4, <2>3
<1>7. background' = {} /\ UNCHANGED <<nextDocument, files>>
  BY DEF Crash
<1>8. DocumentTables'
  BY <1>6, <1>7 DEF TypedInv, DocumentTables
<1> QED
  BY <1>1, <1>2, <1>3, <1>8 DEF TypedInv

LEMMA TypedStep == TypedInv /\ [DocumentsNext]_allVars => TypedInv'
<1> SUFFICES ASSUME TypedInv, [DocumentsNext]_allVars PROVE TypedInv'
  OBVIOUS
<1>1. ASSUME NEW r \in Requests, ServeDocument(r) PROVE TypedInv'
  BY <1>1, TakeNumberTyped, NumberGivenTyped, DocumentStepTyped,
     DequeueNumberTyped, RespondTyped, ReserveTyped
  DEF ServeDocument, DocumentStep
<1>2. UNCHANGED vars => TypeInv'
  BY KeepTyped DEF TypedInv
<1>3. UNCHANGED vars /\ work' = work => FollowsInv' /\ work' \in [Requests -> Work]
  BY DEF TypedInv, FollowsInv, vars
<1>4. ASSUME NEW t \in background, Settle(t) PROVE TypedInv'
  <2>1. DocumentTables'
    BY <1>4 DEF Settle, TypedInv, DocumentTables
  <2> QED
    BY <1>2, <1>3, <1>4, <2>1 DEF Settle, Numbered, TypedInv
<1>5. ASSUME NEW t \in background, Reject(t) PROVE TypedInv'
  BY <1>5, CrashTyped DEF Reject
<1>6. CASE UNCHANGED allVars
  <2>1. UNCHANGED vars /\ work' = work /\ Tables
    BY <1>6 DEF allVars, documentVars, Tables
  <2> QED
    BY <1>2, <1>3, <2>1, TablesTyped DEF TypedInv
<1> QED
  BY <1>1, <1>4, <1>5, <1>6, CreateDocumentTyped, RemoveDocumentTyped,
     ReserveTyped, CrashTyped
  DEF DocumentsNext

LEMMA TypedInit == DocumentsInit => TypedInv
<1> SUFFICES ASSUME DocumentsInit PROVE TypedInv
  OBVIOUS
<1>1. TypeInv /\ \A r \in Requests : pc[r] = "idle"
  BY TypeInit DEF DocumentsInit, Init
<1>2. work \in [Requests -> Work] /\ \A r \in Requests : work[r].at = "idle"
  BY IdleTyped DEF DocumentsInit
<1> QED
  BY <1>1, <1>2 DEF DocumentsInit, TypedInv, DocumentTables, FollowsInv, Follows

-------------------------------------------------------------------------------
(***************************************************************************)
(* Whatever interleaves: a document without a file is in the making.       *)
(***************************************************************************)

Making == {"query", "copy", "link", "undoFile"}

(* What a handler that makes a document may rely on.                         *)
Made(w, docs, fs) ==
  /\ w.at = "link" => w.doc \in fs
  /\ w.at \in {"query", "copy", "link"} =>
       \A d \in docs : d.id = w.doc => ~ d.linked
  /\ w.at = "undoFile" => \A d \in docs : d.id # w.doc

(* A handler that is going to delete the file of its document.               *)
Unlinks(w) == w.at = "unlink" \/ (w.at = "dequeue" /\ w.file)

(* A document is made by one handler, and none that is going to delete its   *)
(* file has been given it yet.                                               *)
Apart(w, u) ==
  /\ w.at \in Making /\ u.at \in Making => w.doc # u.doc
  /\ Unlinks(w) /\ u.at \in Making => w.doc # u.doc

DocumentIds ==
  /\ nextDocument > 0
  /\ \A d \in documents : d.id < nextDocument
  /\ \A d, e \in documents : d.id = e.id => d = e
  /\ \A r \in Requests : work[r].doc < nextDocument

MakingInv ==
  /\ DocumentIds
  /\ \A r \in Requests : Made(work[r], documents, files)
  /\ \A r, s \in Requests : r # s => Apart(work[r], work[s])
  /\ DocumentsFinished


LEMMA QuietMoves ==
  ASSUME TypedInv, MakingInv, UNCHANGED <<documents, files, nextDocument>>,
         NEW r \in Requests, NEW w, Moves(r, w), w.doc < nextDocument,
         w.at \notin Making,
         Unlinks(w) => \A s \in Requests : s # r /\ work[s].at \in Making =>
                         work[s].doc # w.doc,
         work[r].at \notin {"query", "copy", "link", "undoFile",
                            "undoDocument", "delete"}
  PROVE  MakingInv'
<1>1. work'[r] = w /\ \A s \in Requests : s # r => work'[s] = work[s]
  BY OthersStay
<1>2. DocumentIds'
  BY <1>1 DEF MakingInv, DocumentIds
<1>3. \A s \in Requests : Made(work'[s], documents', files')
  BY <1>1 DEF MakingInv, Made, Making
<1>4. ASSUME NEW s \in Requests, NEW t \in Requests, s # t
      PROVE  Apart(work'[s], work'[t])
  BY <1>1, <1>4 DEF MakingInv, Apart
<1>5. DocumentsFinished'
  BY <1>1 DEF MakingInv, DocumentsFinished
<1> QED
  BY <1>2, <1>3, <1>4, <1>5 DEF MakingInv

LEMMA SameDocumentsMade ==
  ASSUME MakingInv, UNCHANGED <<documents, files, nextDocument, work>>
  PROVE  MakingInv'
  BY DEF MakingInv, DocumentIds, Made, Apart, Unlinks, Making, DocumentsFinished

LEMMA SaveDocumentMade ==
  ASSUME TypedInv, MakingInv, NEW r \in Requests, SaveDocument(r)
  PROVE  MakingInv'
<1>0. /\ work[r] \in Work /\ nextDocument \in Nat /\ work[r].at = "save"
      /\ DocumentIds
  BY DEF TypedInv, DocumentTables, SaveDocument, MakingInv
<1>1. CASE At(r, "undoNumber") /\ Tables
  <2>1. PICK w \in Work : Moves(r, w) /\ w.at = "undoNumber" /\ w.doc = work[r].doc
    BY <1>1, AtMoves DEF Step
  <2> QED
    BY <1>0, <1>1, <2>1, QuietMoves DEF Tables, Making, Unlinks, DocumentIds
<1>2. CASE ~ (At(r, "undoNumber") /\ Tables)
  <2>1. PICK d : /\ d = [id |-> nextDocument, row |-> work[r].row, linked |-> FALSE,
                         left |-> FALSE]
                 /\ documents' = documents \cup {d}
    BY <1>2 DEF SaveDocument
  <2>2. PICK w : w = [work[r] EXCEPT !.at = "query", !.doc = nextDocument]
    OBVIOUS
  <2>3. /\ nextDocument' = nextDocument + 1
        /\ work' = [work EXCEPT ![r] = w]
        /\ UNCHANGED <<files, background>>
    BY <1>2, <2>2 DEF SaveDocument, TypedInv
  <2>4. w.at = "query" /\ w.doc = nextDocument
    BY <1>0, <2>2 DEF Work
  <2>5. d.id = nextDocument /\ ~ d.linked /\ ~ d.left
    BY <2>1
  <2>6. work'[r] = w /\ \A s \in Requests : s # r => work'[s] = work[s]
    BY <2>3, OthersStay DEF Moves
  <2>7. /\ \A s \in Requests : work[s].doc \in Nat
        /\ \A e \in documents : e.id \in Nat
    BY DEF TypedInv, DocumentTables, Document, Work
  <2>8. DocumentIds'
    <3>1. /\ nextDocument' > 0
          /\ \A s \in Requests : work[s].doc < nextDocument'
          /\ w.doc < nextDocument'
      BY <1>0, <2>3, <2>4, <2>7 DEF DocumentIds
    <3>2. \A e \in documents : e.id < nextDocument /\ e.id < nextDocument'
      BY <1>0, <2>3, <2>7 DEF DocumentIds
    <3>3. d.id < nextDocument' /\ \A e \in documents : e.id # d.id
      BY <1>0, <2>3, <2>5, <2>7, <3>2
    <3>4. \A e, f \in documents' : e.id = f.id => e = f
      BY <1>0, <2>1, <3>3 DEF DocumentIds
    <3> QED
      BY <2>1, <2>6, <3>1, <3>2, <3>3, <3>4 DEF DocumentIds
  <2>9. ASSUME NEW s \in Requests PROVE Made(work'[s], documents', files')
    <3>1. CASE s = r
      BY <1>0, <2>1, <2>4, <2>5, <2>6, <2>7, <3>1 DEF Made, DocumentIds
    <3>2. CASE s # r
      BY <1>0, <2>1, <2>3, <2>5, <2>6, <2>7, <3>2 DEF Made, DocumentIds, MakingInv
    <3> QED
      BY <3>1, <3>2
  <2>10. ASSUME NEW s \in Requests, NEW t \in Requests, s # t
         PROVE  Apart(work'[s], work'[t])
    <3>1. CASE s # r /\ t # r
      BY <2>6, <2>10, <3>1 DEF MakingInv
    <3>2. CASE s = r \/ t = r
      BY <1>0, <2>4, <2>6, <2>7, <2>10, <3>2 DEF Apart, Unlinks, DocumentIds
    <3> QED
      BY <3>1, <3>2
  <2>11. DocumentsFinished'
    <3> SUFFICES ASSUME NEW e \in documents', ~ e.left
                 PROVE  IF e.linked
                        THEN \/ e.id \in files'
                             \/ \E s \in Requests : /\ work'[s].doc = e.id
                                                     /\ work'[s].at = "delete"
                        ELSE \E s \in Requests :
                               /\ work'[s].doc = e.id
                               /\ work'[s].at \in {"query", "copy", "link",
                                                    "undoFile", "undoDocument"}
      BY DEF DocumentsFinished
    <3>1. CASE e = d
      BY <2>4, <2>5, <2>6, <3>1
    <3>2. CASE e \in documents
      BY <1>0, <2>3, <2>6, <3>2 DEF MakingInv, DocumentsFinished
    <3> QED
      BY <2>1, <3>1, <3>2
  <2> QED
    BY <2>8, <2>9, <2>10, <2>11 DEF MakingInv
<1> QED
  BY <1>1, <1>2

(* The other steps add no document, and each moves on with the document that *)
(* it has.                                                                   *)
LEMMA MovesMade ==
  ASSUME TypedInv, MakingInv, nextDocument' = nextDocument,
         \A d, e \in documents' : d.id = e.id => d = e,
         \A d \in documents' : \E e \in documents : e.id = d.id,
         NEW r \in Requests, NEW w, Moves(r, w), w.doc = work[r].doc,
         Made(w, documents', files'),
         \A s \in Requests : s # r => Made(work[s], documents', files'),
         w.at \in Making => work[r].at \in Making,
         Unlinks(w) => Unlinks(work[r]),
         DocumentsFinished'
  PROVE  MakingInv'
<1>1. work'[r] = w /\ \A s \in Requests : s # r => work'[s] = work[s]
  BY OthersStay
<1>2. DocumentIds'
  BY <1>1 DEF MakingInv, DocumentIds
<1>3. \A s \in Requests : Made(work'[s], documents', files')
  BY <1>1
<1>4. ASSUME NEW s \in Requests, NEW t \in Requests, s # t
      PROVE  Apart(work'[s], work'[t])
  BY <1>1, <1>4 DEF MakingInv, Apart
<1> QED
  BY <1>2, <1>3, <1>4 DEF MakingInv

LEMMA QueryDocumentMade ==
  ASSUME TypedInv, MakingInv, NEW r \in Requests, QueryDocument(r)
  PROVE  MakingInv'
<1>1. PICK to \in {"dropNumber", "copy", "undoDocument"} :
        /\ At(r, to) /\ work[r].at = "query" /\ Tables
        /\ to = "dropNumber" => \A d \in documents : d.id # work[r].doc
  BY DEF QueryDocument
<1>2. PICK w \in Work : Moves(r, w) /\ w.at = to /\ w.doc = work[r].doc
  BY <1>1, AtMoves DEF Step
<1>3. work'[r] = w /\ \A s \in Requests : s # r => work'[s] = work[s]
  BY <1>2, OthersStay
<1>4. DocumentsFinished'
  BY <1>1, <1>2, <1>3 DEF MakingInv, DocumentsFinished, Tables
<1>5. Made(w, documents, files)
  BY <1>1, <1>2 DEF MakingInv, Made
<1> QED
  BY <1>1, <1>2, <1>4, <1>5, MovesMade
  DEF MakingInv, DocumentIds, Tables, Making, Unlinks

LEMMA CopyTemplateMade ==
  ASSUME TypedInv, MakingInv, NEW r \in Requests, CopyTemplate(r)
  PROVE  MakingInv'
<1>0. work[r] \in Work /\ work[r].at = "copy"
  BY DEF TypedInv, CopyTemplate
<1>1. \E w : /\ Moves(r, w) /\ w.doc = work[r].doc
             /\ \/ w.at = "link" /\ files' = files \cup {work[r].doc}
                \/ w.at = "undoDocument" /\ files' = files
  <2>1. CASE /\ work' = [work EXCEPT ![r].at = "link", ![r].file = TRUE]
             /\ files' = files \cup {work[r].doc}
    <3> DEFINE w == [work[r] EXCEPT !.at = "link", !.file = TRUE]
    <3>1. work' = [work EXCEPT ![r] = w] /\ w.at = "link" /\ w.doc = work[r].doc
      BY <1>0, <2>1 DEF TypedInv, Work
    <3> QED
      BY <2>1, <3>1 DEF Moves
  <2>2. CASE At(r, "undoDocument") /\ Tables
    BY <2>2, AtMoves DEF Step, Tables
  <2> QED
    BY <2>1, <2>2 DEF CopyTemplate
<1>2. PICK w : /\ Moves(r, w) /\ w.doc = work[r].doc
               /\ \/ w.at = "link" /\ files' = files \cup {work[r].doc}
                  \/ w.at = "undoDocument" /\ files' = files
  BY <1>1
<1>3. work'[r] = w /\ \A s \in Requests : s # r => work'[s] = work[s]
  BY <1>2, OthersStay
<1>4. documents' = documents /\ nextDocument' = nextDocument
  BY DEF CopyTemplate, Tables
<1>5. DocumentsFinished'
  BY <1>0, <1>2, <1>3, <1>4 DEF MakingInv, DocumentsFinished
<1>6. Made(w, documents, files')
  BY <1>0, <1>2 DEF MakingInv, Made
<1>7. \A s \in Requests : s # r => Made(work[s], documents, files')
  BY <1>2 DEF MakingInv, Made
<1> QED
  BY <1>0, <1>2, <1>4, <1>5, <1>6, <1>7, MovesMade
  DEF MakingInv, DocumentIds, Making, Unlinks

LEMMA LinkFileMade ==
  ASSUME TypedInv, MakingInv, NEW r \in Requests, LinkFile(r)
  PROVE  MakingInv'
<1>0. /\ work[r] \in Work /\ work[r].at = "link" /\ DocumentIds
      /\ documents \subseteq Document
  BY DEF TypedInv, LinkFile, MakingInv, DocumentTables
<1>1. CASE /\ \A d \in documents : d.id # work[r].doc
           /\ At(r, "undoFile") /\ Tables
  <2>1. PICK w \in Work : Moves(r, w) /\ w.at = "undoFile" /\ w.doc = work[r].doc
    BY <1>1, AtMoves DEF Step
  <2>2. work'[r] = w /\ \A s \in Requests : s # r => work'[s] = work[s]
    BY <2>1, OthersStay
  <2>3. DocumentsFinished'
    BY <1>0, <1>1, <2>1, <2>2 DEF MakingInv, DocumentsFinished, Tables
  <2>4. Made(w, documents, files)
    BY <1>1, <2>1 DEF Made
  <2> QED
    BY <1>0, <1>1, <2>1, <2>3, <2>4, MovesMade
    DEF MakingInv, DocumentIds, Tables, Making, Unlinks
<1>2. ASSUME NEW d \in documents, d.id = work[r].doc,
             documents' = (documents \ {d}) \cup {[d EXCEPT !.linked = TRUE]},
             At(r, "created"), UNCHANGED <<nextDocument, files>>
      PROVE  MakingInv'
  <2>1. PICK w \in Work : Moves(r, w) /\ w.at = "created" /\ w.doc = work[r].doc
    BY <1>2, AtMoves DEF Step
  <2>2. work'[r] = w /\ \A s \in Requests : s # r => work'[s] = work[s]
    BY <2>1, OthersStay
  <2>3. PICK e : e = [d EXCEPT !.linked = TRUE]
    OBVIOUS
  <2>4. e.id = d.id /\ e.linked /\ documents' = (documents \ {d}) \cup {e}
    BY <1>0, <1>2, <2>3 DEF Document
  <2>5. d.id \in files
    BY <1>0, <1>2 DEF MakingInv, Made
  <2>6. \A f \in documents : f # d => f.id # d.id
    BY <1>0 DEF DocumentIds
  <2>7. DocumentsFinished'
    <3> SUFFICES ASSUME NEW f \in documents', ~ f.left
                 PROVE  IF f.linked
                        THEN \/ f.id \in files'
                             \/ \E s \in Requests : /\ work'[s].doc = f.id
                                                     /\ work'[s].at = "delete"
                        ELSE \E s \in Requests :
                               /\ work'[s].doc = f.id
                               /\ work'[s].at \in {"query", "copy", "link",
                                                    "undoFile", "undoDocument"}
      BY DEF DocumentsFinished
    <3>1. CASE f = e
      BY <1>2, <2>4, <2>5, <3>1
    <3>2. CASE f \in documents /\ f # d
      BY <1>0, <1>2, <2>2, <2>6, <3>2 DEF MakingInv, DocumentsFinished
    <3> QED
      BY <2>4, <3>1, <3>2
  <2>8. \A s \in Requests : s # r => Made(work[s], documents', files')
    <3> SUFFICES ASSUME NEW s \in Requests, s # r
                 PROVE  Made(work[s], documents', files')
      OBVIOUS
    <3>1. Made(work[s], documents, files) /\ Apart(work[s], work[r])
      BY DEF MakingInv
    <3>2. work[s].at \in Making => work[s].doc # d.id
      BY <1>0, <1>2, <3>1 DEF Apart, Making
    <3>3. ASSUME work[s].at \in {"query", "copy", "link"}, NEW f \in documents',
                 f.id = work[s].doc
          PROVE  ~ f.linked
      BY <2>4, <3>1, <3>2, <3>3 DEF Made, Making
    <3>4. ASSUME work[s].at = "undoFile", NEW f \in documents'
          PROVE  f.id # work[s].doc
      BY <2>4, <3>1, <3>2, <3>4 DEF Made, Making
    <3> QED
      BY <1>2, <3>1, <3>3, <3>4 DEF Made
  <2>9. Made(w, documents', files')
    BY <2>1 DEF Made
  <2>10. /\ \A f, g \in documents' : f.id = g.id => f = g
         /\ \A f \in documents' : \E g \in documents : g.id = f.id
    BY <1>0, <2>4, <2>6 DEF DocumentIds
  <2> QED
    BY <1>2, <2>1, <2>7, <2>8, <2>9, <2>10, MovesMade DEF Making, Unlinks
<1> QED
  BY <1>1, <1>2 DEF LinkFile

(* The deletion of a file.                                                   *)
LEMMA DeleteFileIs ==
  ASSUME TypedInv, NEW r \in Requests, NEW done \in Step, DeleteFile(r, done)
  PROVE  /\ documents' = documents /\ nextDocument' = nextDocument
         /\ background' = background
         /\ \E w \in Work :
              /\ Moves(r, w) /\ w.doc = work[r].doc /\ w.row = work[r].row
              /\ w.file = work[r].file
              /\ \/ /\ w.at = done /\ files' = files \ {work[r].doc}
                    /\ work[r].doc \in files
                 \/ /\ w.at = "failed" /\ files' = files
                    /\ work[r].doc \notin files \/ "unlink" \in Failures
<1>1. CASE /\ work[r].doc \in files /\ files' = files \ {work[r].doc}
           /\ At(r, done) /\ UNCHANGED <<documents, nextDocument, background>>
  BY <1>1, AtMoves
<1>2. CASE /\ work[r].doc \notin files \/ "unlink" \in Failures
           /\ At(r, "failed") /\ Tables
  BY <1>2, AtMoves DEF Tables, Step
<1> QED
  BY <1>1, <1>2 DEF DeleteFile

LEMMA UndoFileMade ==
  ASSUME TypedInv, MakingInv, NEW r \in Requests, UndoFile(r)
  PROVE  MakingInv'
<1>0. /\ work[r].at = "undoFile" /\ \A d \in documents : d.id # work[r].doc
  BY DEF UndoFile, MakingInv, Made
<1>1. DeleteFile(r, "undoDocument") /\ "undoDocument" \in Step
  BY DEF UndoFile, Step
<1>2. PICK w \in Work : /\ Moves(r, w) /\ w.doc = work[r].doc
                        /\ w.at \in {"undoDocument", "failed"}
                        /\ files' = files \/ files' = files \ {work[r].doc}
  BY <1>1, DeleteFileIs
<1>3. work'[r] = w /\ \A s \in Requests : s # r => work'[s] = work[s]
  BY <1>2, OthersStay
<1>4. documents' = documents /\ nextDocument' = nextDocument
  BY <1>1, DeleteFileIs
<1>5. DocumentsFinished'
  BY <1>0, <1>2, <1>3, <1>4 DEF MakingInv, DocumentsFinished
<1>6. \A s \in Requests : s # r => Made(work[s], documents, files')
  <2> SUFFICES ASSUME NEW s \in Requests, s # r PROVE Made(work[s], documents, files')
    OBVIOUS
  <2>1. Made(work[s], documents, files) /\ Apart(work[s], work[r])
    BY DEF MakingInv
  <2>2. work[s].at = "link" => work[s].doc # work[r].doc
    BY <1>0, <2>1 DEF Apart, Making
  <2> QED
    BY <1>2, <2>1, <2>2 DEF Made
<1>7. Made(w, documents, files')
  BY <1>2 DEF Made
<1> QED
  BY <1>2, <1>4, <1>5, <1>6, <1>7, MovesMade
  DEF MakingInv, DocumentIds, Making, Unlinks

LEMMA UnlinkFileMade ==
  ASSUME TypedInv, MakingInv, NEW r \in Requests, UnlinkFile(r)
  PROVE  MakingInv'
<1>0. work[r].at = "unlink" /\ DeleteFile(r, "delete") /\ "delete" \in Step
  BY DEF UnlinkFile, Step
<1>1. PICK w \in Work : /\ Moves(r, w) /\ w.doc = work[r].doc
                        /\ \/ w.at = "delete" /\ files' = files \ {work[r].doc}
                           \/ w.at = "failed" /\ files' = files
  BY <1>0, DeleteFileIs
<1>2. work'[r] = w /\ \A s \in Requests : s # r => work'[s] = work[s]
  BY <1>1, OthersStay
<1>3. documents' = documents /\ nextDocument' = nextDocument
  BY <1>0, DeleteFileIs
<1>4. DocumentsFinished'
  BY <1>0, <1>1, <1>2, <1>3 DEF MakingInv, DocumentsFinished
<1>5. \A s \in Requests : s # r => Made(work[s], documents, files')
  <2> SUFFICES ASSUME NEW s \in Requests, s # r PROVE Made(work[s], documents, files')
    OBVIOUS
  <2>1. Made(work[s], documents, files) /\ Apart(work[r], work[s])
    BY DEF MakingInv
  <2>2. work[s].at = "link" => work[s].doc # work[r].doc
    BY <1>0, <2>1 DEF Apart, Making, Unlinks
  <2> QED
    BY <1>1, <2>1, <2>2 DEF Made
<1>6. Made(w, documents, files')
  BY <1>1 DEF Made
<1> QED
  BY <1>1, <1>3, <1>4, <1>5, <1>6, MovesMade
  DEF MakingInv, DocumentIds, Making, Unlinks

(* The deletion of a document.                                               *)
LEMMA DeletionMade ==
  ASSUME TypedInv, MakingInv, NEW r \in Requests,
         UndoDocument(r) \/ DeleteDocument(r)
  PROVE  MakingInv'
<1>1. /\ documents' = {d \in documents : d.id # work[r].doc}
      /\ At(r, "undoNumber") \/ At(r, "removed")
      /\ UNCHANGED <<nextDocument, files, background>>
  BY DEF UndoDocument, DeleteDocument
<1>2. PICK w \in Work : /\ Moves(r, w) /\ w.doc = work[r].doc
                        /\ w.at \in {"undoNumber", "removed"}
  BY <1>1, AtMoves DEF Step
<1>3. work'[r] = w /\ \A s \in Requests : s # r => work'[s] = work[s]
  BY <1>2, OthersStay
<1>4. DocumentsFinished'
  BY <1>1, <1>2, <1>3 DEF MakingInv, DocumentsFinished
<1>5. \A s \in Requests : s # r => Made(work[s], documents', files')
  BY <1>1 DEF MakingInv, Made
<1>6. Made(w, documents', files')
  BY <1>2 DEF Made
<1>7. /\ \A d, e \in documents' : d.id = e.id => d = e
      /\ \A d \in documents' : \E e \in documents : e.id = d.id
  BY <1>1 DEF MakingInv, DocumentIds
<1> QED
  BY <1>1, <1>2, <1>4, <1>5, <1>6, <1>7, MovesMade DEF Making, Unlinks

(* The end of the process: what was worked on is marked.                     *)
LEMMA CrashMade ==
  ASSUME TypedInv, MakingInv, Crash
  PROVE  MakingInv'
<1>0. DocumentIds /\ documents \subseteq Document
  BY DEF MakingInv, TypedInv, DocumentTables
<1>1. \A r \in Requests : work'[r].at = "idle" /\ work'[r].doc = 0
  BY IdleTyped DEF Crash
<1>2. ASSUME NEW e \in documents'
      PROVE  \E d \in documents : /\ e.id = d.id /\ e.linked = d.linked
                                  /\ e = d \/ e.left
                                  /\ ~ e.left => \A r \in Requests : work[r].doc # d.id
                                  /\ e = [d EXCEPT !.left = e.left]
                                  /\ e.left = (d.left \/ \E r \in Requests : work[r].doc = d.id)
  <2>1. PICK d \in documents :
          e = [d EXCEPT !.left = @ \/ \E r \in Requests : work[r].doc = d.id]
    BY <1>2 DEF Crash
  <2>2. PICK l : l = (d.left \/ \E r \in Requests : work[r].doc = d.id)
    OBVIOUS
  <2>3. e = [d EXCEPT !.left = l]
    BY <2>1, <2>2
  <2>4. d \in Document /\ l \in BOOLEAN
    BY <1>0, <2>2 DEF Document
  <2>5. e.id = d.id /\ e.linked = d.linked /\ e.left = l /\ (l = d.left => e = d)
    BY <2>3, <2>4 DEF Document
  <2>6. l = d.left \/ l = TRUE
    <3>1. d.left => l
      BY <2>2
    <3>2. d.left \in BOOLEAN
      BY <2>4 DEF Document
    <3> QED
      BY <2>4, <3>1, <3>2
  <2>7. ~ l => \A r \in Requests : work[r].doc # d.id
    BY <2>2
  <2> QED
    BY <2>2, <2>3, <2>5, <2>6, <2>7
<1>3. UNCHANGED <<nextDocument, files>>
  BY DEF Crash
<1>4. DocumentIds'
  <2>1. ASSUME NEW e \in documents', NEW f \in documents', e.id = f.id
        PROVE  e = f
    <3>1. PICK d \in documents : /\ e.id = d.id
            /\ e = [d EXCEPT !.left = e.left]
            /\ e.left = (d.left \/ \E r \in Requests : work[r].doc = d.id)
      BY <1>2
    <3>2. PICK g \in documents : /\ f.id = g.id
            /\ f = [g EXCEPT !.left = f.left]
            /\ f.left = (g.left \/ \E r \in Requests : work[r].doc = g.id)
      BY <1>2
    <3>3. d = g
      BY <1>0, <2>1, <3>1, <3>2 DEF DocumentIds
    <3>4. e.left = f.left
      BY <3>1, <3>2, <3>3
    <3> QED
      BY <3>1, <3>2, <3>3, <3>4
  <2>2. \A e \in documents' : e.id < nextDocument'
    BY <1>0, <1>2, <1>3 DEF DocumentIds
  <2> QED
    BY <1>0, <1>1, <1>3, <2>1, <2>2 DEF DocumentIds
<1>5. DocumentsFinished'
  <2> SUFFICES ASSUME NEW e \in documents', ~ e.left
               PROVE  e.linked /\ e.id \in files'
    BY DEF DocumentsFinished
  <2>1. PICK d \in documents : /\ e.id = d.id /\ e = d
                               /\ \A r \in Requests : work[r].doc # d.id
    BY <1>2
  <2> QED
    BY <1>3, <2>1 DEF MakingInv, DocumentsFinished
<1> QED
  BY <1>1, <1>4, <1>5 DEF MakingInv, Made, Apart, Unlinks, Making

(* A step that leaves the tables and the file of the document alone.         *)
LEMMA NumberingMade ==
  ASSUME TypedInv, MakingInv, NEW r \in Requests,
         \/ \E c \in Councils, n \in Number : CreateDocument(r, c, n)
         \/ NumberGiven(r) \/ DropNumber(r) \/ UndoNumber(r)
         \/ DequeueNumber(r) \/ Respond(r)
  PROVE  MakingInv'
<1>0. /\ nextDocument > 0 /\ work[r].doc < nextDocument
      /\ UNCHANGED <<documents, files, nextDocument>>
  BY DEF MakingInv, DocumentIds, CreateDocument, NumberGiven, DropNumber,
     UndoNumber, DequeueNumber, Respond, Tables
<1>a. ASSUME NEW w, Moves(r, w), w.doc < nextDocument, w.at \notin Making,
             ~ Unlinks(w),
             work[r].at \notin {"query", "copy", "link", "undoFile",
                                "undoDocument", "delete"}
      PROVE  MakingInv'
  BY <1>0, <1>a, QuietMoves
<1>b. ASSUME NEW to \in Step, At(r, to),
             to \notin Making \cup {"unlink", "dequeue"},
             work[r].at \notin {"query", "copy", "link", "undoFile",
                                "undoDocument", "delete"}
      PROVE  MakingInv'
  BY <1>0, <1>a, <1>b, AtMoves DEF Unlinks
<1>1. ASSUME NEW c \in Councils, NEW n \in Number, CreateDocument(r, c, n)
      PROVE  MakingInv'
  <2>1. pc[r] = "idle" /\ At(r, "numbering")
    BY <1>1 DEF CreateDocument, BeginCreate
  <2>2. work[r].at = "idle"
    BY <2>1 DEF TypedInv, FollowsInv, Follows, CreateAwaits
  <2> QED
    BY <1>b, <2>1, <2>2 DEF Making, Step
<1>2. CASE NumberGiven(r)
  BY <1>0, <1>2, <1>a, NumberGivenMoves DEF Making, Unlinks
<1>3. CASE DropNumber(r) \/ UndoNumber(r)
  BY <1>3, <1>b, DeleteNumberDeletes DEF DropNumber, UndoNumber, Making, Step
<1>4. CASE DequeueNumber(r)
  <2>1. PICK w \in Work : /\ Moves(r, w) /\ w.doc = work[r].doc
                          /\ \/ w.at = "failed" \/ w.at = "delete"
                             \/ w.at = "unlink" /\ work[r].file
    BY <1>4, DequeueNumberMoves
  <2>2. work[r].at = "dequeue"
    BY <1>4 DEF DequeueNumber
  <2>3. CASE w.at = "unlink"
    <3>1. Unlinks(work[r])
      BY <2>1, <2>2, <2>3 DEF Unlinks
    <3>2. \A s \in Requests : s # r /\ work[s].at \in Making =>
            work[s].doc # w.doc
      BY <2>1, <3>1 DEF MakingInv, Apart
    <3> QED
      BY <1>0, <2>1, <2>2, <2>3, <3>2, QuietMoves DEF Making
  <2> QED
    BY <1>0, <1>a, <2>1, <2>2, <2>3 DEF Making, Unlinks
<1>5. CASE Respond(r)
  <2>1. Moves(r, Idle) /\ work[r].at \in Answers \cup {"numbering"}
    BY <1>5 DEF Respond, Moves
  <2> QED
    BY <1>0, <1>a, <2>1, IdleTyped DEF Making, Unlinks, Answers
<1> QED
  BY <1>1, <1>2, <1>3, <1>4, <1>5

LEMMA RemoveDocumentMade ==
  ASSUME TypedInv, MakingInv, NEW r \in Requests, NEW d \in documents,
         RemoveDocument(r, d)
  PROVE  MakingInv'
<1>1. PICK w \in Work : /\ Moves(r, w) /\ w.at = "dequeue"
                        /\ w.doc = d.id /\ w.file = d.linked
  BY RemoveDocumentMoves
<1>2. work[r].at = "idle" /\ UNCHANGED <<documents, files, nextDocument>>
  <2>1. pc[r] = "idle" /\ Tables
    BY DEF RemoveDocument, BeginDocumentRemoved
  <2> QED
    BY <2>1 DEF TypedInv, FollowsInv, Follows, Tables, CreateAwaits
<1>3. ASSUME NEW s \in Requests, work[s].at \in Making, d.linked
      PROVE  work[s].doc # d.id
  BY <1>3 DEF MakingInv, Made, Making
<1>4. d.id < nextDocument
  BY DEF MakingInv, DocumentIds
<1> QED
  BY <1>1, <1>2, <1>3, <1>4, QuietMoves DEF Making, Unlinks

LEMMA MakingStep == TypedInv /\ MakingInv /\ [DocumentsNext]_allVars => MakingInv'
<1> SUFFICES ASSUME TypedInv, MakingInv, [DocumentsNext]_allVars PROVE MakingInv'
  OBVIOUS
<1>1. ASSUME NEW r \in Requests, ServeDocument(r) PROVE MakingInv'
  <2>1. TakeNumber(r) \/ ServeReserve(r) => MakingInv'
    BY SameDocumentsMade DEF TakeNumber, ServeReserve, documentVars
  <2> QED
    BY <1>1, <2>1, NumberingMade, SaveDocumentMade, QueryDocumentMade,
       CopyTemplateMade, LinkFileMade, UndoFileMade, UnlinkFileMade, DeletionMade
    DEF ServeDocument
<1>2. ASSUME NEW r \in Requests, ReserveNumbers(r) PROVE MakingInv'
  BY <1>2, SameDocumentsMade DEF ReserveNumbers, documentVars
<1>3. ASSUME NEW t \in background, Settle(t) PROVE MakingInv'
  BY <1>3, SameDocumentsMade DEF Settle
<1>4. ASSUME NEW t \in background, Reject(t) PROVE MakingInv'
  BY <1>4, CrashMade DEF Reject
<1>5. CASE UNCHANGED allVars
  BY <1>5, SameDocumentsMade DEF allVars, documentVars
<1> QED
  BY <1>1, <1>2, <1>3, <1>4, <1>5, NumberingMade, RemoveDocumentMade, CrashMade
  DEF DocumentsNext

LEMMA MakingInit == DocumentsInit => MakingInv
<1> SUFFICES ASSUME DocumentsInit PROVE MakingInv
  OBVIOUS
<1>1. /\ documents = {} /\ nextDocument = 1
      /\ \A r \in Requests : work[r].at = "idle" /\ work[r].doc = 0
  BY IdleTyped DEF DocumentsInit
<1> QED
  BY <1>1 DEF MakingInv, DocumentIds, Made, Apart, Unlinks, Making,
     DocumentsFinished

(* The types of the documents and of the numbering they call are right in    *)
(* every reachable state, with any number of requests and failures.          *)
THEOREM DocumentsTyped == DocumentsSpec => []DocumentsTypeOK
<1>1. TypedInv => DocumentsTypeOK
  BY DEF TypedInv, DocumentTables, DocumentsTypeOK, TypeInv
<1> QED
  BY <1>1, TypedInit, TypedStep, PTL DEF DocumentsSpec

(* However many requests interleave, whatever Drive refuses, with promises   *)
(* rejected and the process restarted: a document without a file is one that *)
(* a handler is still working on, and one with a file keeps it until its     *)
(* removal is at its last step.                                              *)
THEOREM DocumentsKeepTheirFiles == DocumentsSpec => []DocumentsFinished
<1>1. MakingInv => DocumentsFinished
  BY DEF MakingInv
<1> QED
  BY <1>1, TypedInit, TypedStep, MakingInit, MakingStep, PTL DEF DocumentsSpec

-------------------------------------------------------------------------------
(***************************************************************************)
(* One request at a time, and nothing fails but the steps of a creation:   *)
(* what the numbering does to rows that documents hold.                    *)
(***************************************************************************)

(* Every row stays in the table, as whatever it is put to,                   *)
LEMMA IdsStay ==
  ASSUME TypeInv, IdInv, [Keep]_vars, NEW x \in rows
  PROVE  \E y \in rows' : y.id = x.id
<1>a. Keys \subseteq Keys' => \E y \in rows' : y.id = x.id
  BY KeyFields DEF Keys
<1>b. Unwritten => Keys \subseteq Keys'
  BY DEF Unwritten, Keys
<1>c. ASSUME NEW n, NEW state, NEW c, InsertRow(n, state, c)
      PROVE  Keys \subseteq Keys'
  BY <1>c, InsertRowKeys DEF TypeInv, IdInv
<1>1. ASSUME NEW r \in Requests, Begin(r) PROVE Keys \subseteq Keys'
  BY <1>1, <1>b DEF Begin, BeginCreate, BeginReserve, BeginDocumentRemoved
<1>2. ASSUME NEW r \in Requests,
             \/ SaveUsed(r) \/ MoveBelow(r) \/ MoveAbove(r) \/ Enqueue(r)
             \/ InsertReserved(r) \/ InsertUsed(r)
      PROVE  Keys \subseteq Keys'
  BY <1>2, <1>c, SaveUsedKeys, ReassignedKeys, EnqueueKeys
  DEF MoveBelow, MoveAbove, InsertReserved, InsertUsed, IdInv
<1>3. ASSUME NEW r \in Requests, Serve(r),
             ~ SaveUsed(r), ~ MoveBelow(r), ~ MoveAbove(r), ~ Enqueue(r),
             ~ InsertReserved(r), ~ InsertUsed(r)
      PROVE  rows' = rows
  BY <1>3 DEF Serve, CheckNext, ReadBook, ReadOwn, ReadAvailable,
     ReserveReadBook, ReserveCheckLast, ReserveCheckNext, FindBelow, ReadBelow,
     FindAbove, ReadAbove, Return, Unwritten
<1>4. ASSUME NEW c \in Closable, SetActive(c) PROVE rows' = rows
  BY <1>4 DEF SetActive
<1>5. Restart \/ UNCHANGED vars => rows' = rows
  BY DEF Restart, Unwritten, vars
<1> QED
  BY <1>1, <1>2, <1>3, <1>4, <1>5, <1>a DEF Keep

(* and only a creation puts one to use.                                      *)
LEMMA OnlyCreateUses ==
  ASSUME OneAtATime, TableInv, [Keep]_vars, NEW y \in rows', y.state = "USED"
  PROVE  \/ \E x \in rows : x.id = y.id /\ x.state = "USED"
         \/ \E r \in Requests :
              \/ InsertUsed(r) /\ y.id = nextId
              \/ SaveUsed(r) /\ \E x \in view[r].snap : y.id = x.id
<1> DEFINE Goal == \/ \E x \in rows : x.id = y.id /\ x.state = "USED"
                   \/ \E r \in Requests :
                        \/ InsertUsed(r) /\ y.id = nextId
                        \/ SaveUsed(r) /\ \E x \in view[r].snap : y.id = x.id
<1>0. /\ TypeInv /\ RowsInv /\ SeenInv /\ rows \subseteq Row
      /\ \A s \in Requests : Seen(rows, req[s], pc[s], view[s])
                             /\ view[s].snap \subseteq rows
  BY DEF TableInv, UniqueInv, IdInv, FirmInv, SeenInv, Seen, TypeInv, TypeOK
<1>a. y \in rows => Goal
  OBVIOUS
<1>b. ASSUME NEW r \in Requests, InsertUsed(r) PROVE Goal
  BY <1>a, <1>b DEF InsertUsed, InsertRow
<1>c. ASSUME NEW r \in Requests, SaveUsed(r) PROVE Goal
  <2>1. CASE y \in rows
    BY <1>a, <2>1
  <2>2. ASSUME NEW s \in view[r].snap, y = [s EXCEPT !.state = "USED"]
        PROVE  Goal
    BY <1>0, <1>c, <2>2 DEF Row
  <2> QED
    BY <1>c, <2>1, <2>2 DEF SaveUsed, SaveRows
<1> HIDE DEF Goal
<1>1. ASSUME NEW r \in Requests, Begin(r) PROVE Goal
  BY <1>1, <1>a DEF Begin, BeginCreate, BeginReserve, BeginDocumentRemoved,
     Unwritten
<1>2. ASSUME NEW r \in Requests, MoveBelow(r) \/ MoveAbove(r) PROVE Goal
  <2>1. SaveRows(Reassigned(r))
    BY <1>2 DEF MoveBelow, MoveAbove
  <2>2. \A z \in Reassigned(r) : z.state = "RESERVED"
    BY <1>0, ReassignedAreGiven
  <2> QED
    BY <1>a, <2>1, <2>2 DEF SaveRows
<1>3. ASSUME NEW r \in Requests, Enqueue(r) PROVE Goal
  <2>1. ASSUME NEW s, NEW u \in rows,
               SaveRows({[u EXCEPT !.state = "ENQUEUED", !.number = s.number]})
        PROVE  Goal
    <3>1. [u EXCEPT !.state = "ENQUEUED", !.number = s.number].state = "ENQUEUED"
      BY <1>0 DEF Row
    <3> QED
      BY <1>a, <2>1, <3>1 DEF SaveRows
  <2> QED
    BY <1>3, <1>a, <2>1 DEF Enqueue, Unwritten
<1>4. ASSUME NEW r \in Requests, InsertReserved(r) PROVE Goal
  BY <1>4, <1>a DEF InsertReserved, InsertRow
<1>5. ASSUME NEW r \in Requests, Serve(r),
             ~ SaveUsed(r), ~ MoveBelow(r), ~ MoveAbove(r), ~ Enqueue(r),
             ~ InsertReserved(r), ~ InsertUsed(r)
      PROVE  rows' = rows
  BY <1>5 DEF Serve, CheckNext, ReadBook, ReadOwn, ReadAvailable,
     ReserveReadBook, ReserveCheckLast, ReserveCheckNext, FindBelow, ReadBelow,
     FindAbove, ReadAbove, Return, Unwritten
<1>6. ASSUME NEW c \in Closable, SetActive(c) PROVE rows' = rows
  BY <1>6 DEF SetActive
<1>7. Restart \/ UNCHANGED vars => rows' = rows
  BY DEF Restart, Unwritten, vars
<1>8. Goal
  BY <1>1, <1>2, <1>3, <1>4, <1>5, <1>6, <1>7, <1>a, <1>b, <1>c DEF Keep
<1> QED
  BY <1>8 DEF Goal

(* A handler that has answered, or has none to serve, has no rows to save.   *)
RestInv == \A r \in Requests : pc[r] \in {"idle", "done"} => view[r].snap = {}

LEMMA RestServe ==
  ASSUME TypeInv, RestInv, NEW r \in Requests, Serve(r)
  PROVE  RestInv'
<1>1. ASSUME NEW to \in Location \ {"idle", "done", "enqueue"}, NEW v,
             GoOn(r, to, v)
      PROVE  RestInv'
  BY <1>1 DEF GoOn, RestInv, TypeInv, TypeOK
<1>2. ASSUME NEW status, Finish(r, status) PROVE RestInv'
  BY <1>2, NothingReadTyped DEF Finish, RestInv, TypeInv, TypeOK
<1>3. ASSUME Return(r) PROVE RestInv'
  BY <1>3 DEF Return, RestInv, TypeInv, TypeOK
<1> QED
  BY <1>1, <1>2, <1>3, Serves

(* The deletion of a row of the numbering, while no request is being served  *)
(* by it, keeps what holds of the table.                                     *)
LEMMA DeletionTable ==
  ASSUME OneAtATime, TableInv, RestInv, NEW r \in Requests, pc[r] = "done",
         rows' \subseteq rows, UNCHANGED <<nextId, active, pc, req, view, reply>>
  PROVE  TableInv' /\ RestInv'
<1>1. \A s \in Requests : s = r
  BY DEF OneAtATime
<1>2. view[r].snap = {} /\ view' = view /\ pc' = pc /\ req' = req
  BY DEF RestInv
<1>3. TypeInv'
  BY DeletionTyped DEF TableInv
<1>4. BookInv'
  BY DEF TableInv, BookInv, BookOfCouncil, SnapInv
<1>5. RowsInv' /\ UniqueNumbers'
  BY DEF TableInv, UniqueInv, IdInv, RowsInv, UniqueNumbers
<1>6. ReadInv'
  BY <1>1, <1>2 DEF ReadInv, ReadRows
<1>7. FreshInv'
  BY <1>1, <1>2 DEF FreshInv, Fresh
<1>8. IsFiniteSet(rows')
  BY FS_Subset DEF TableInv, FirmInv
<1>9. SeenInv'
  <2>1. Seen(rows', req[r], "done", view[r])
    BY <1>2, FreeSeen
  <2> QED
    BY <1>1, <1>2, <2>1 DEF SeenInv
<1> QED
  BY <1>2, <1>3, <1>4, <1>5, <1>6, <1>7, <1>8, <1>9
  DEF TableInv, UniqueInv, IdInv, FirmInv, RestInv

(* So does the reading of a row that is in use.                              *)
LEMMA ReadingTable ==
  ASSUME OneAtATime, TableInv, RestInv, NEW r \in Requests,
         NEW x \in rows, x.state = "USED", BeginDocumentRemoved(r, x)
  PROVE  TableInv' /\ RestInv' /\ view'[r].snap = {x} /\ rows' = rows
<1>1. \A s \in Requests : s = r
  BY DEF OneAtATime
<1>2. /\ view[r] \in View /\ view \in [Requests -> View]
      /\ pc \in [Requests -> Location]
  BY DEF TableInv, TypeInv, TypeOK
<1>3. /\ pc'[r] = "enqueue" /\ view'[r].snap = {x}
      /\ UNCHANGED <<rows, nextId, active>>
  BY <1>2 DEF BeginDocumentRemoved, Unwritten, View
<1>4. TypeInv'
  BY ReadingTyped DEF TableInv
<1>5. BookInv'
  BY <1>1, <1>3 DEF TableInv, BookInv, BookOfCouncil, SnapInv, SnapFits, Moving
<1>6. RowsInv' /\ UniqueNumbers' /\ Keys' = Keys
  BY <1>3 DEF TableInv, UniqueInv, IdInv, RowsInv, UniqueNumbers, Keys
<1>7. ReadInv'
  BY <1>1, <1>3, <1>6 DEF ReadInv, ReadRows, Keys
<1>8. FreshInv'
  BY <1>1, <1>3 DEF FreshInv, Fresh
<1>9. FirmInv'
  <2>1. Seen(rows', req'[r], pc'[r], view'[r])
    BY <1>3 DEF Seen, ReserveAwaits, Moving, Downwards, Upwards
  <2> QED
    BY <1>1, <1>3, <2>1 DEF TableInv, FirmInv, SeenInv
<1> QED
  BY <1>1, <1>3, <1>4, <1>5, <1>6, <1>7, <1>8, <1>9
  DEF TableInv, UniqueInv, IdInv, RestInv

-------------------------------------------------------------------------------
(***************************************************************************)
(* What the only handler, at work on w, leaves to be done: where the       *)
(* tables and Drive do not agree yet.                                      *)
(***************************************************************************)

(* Nothing is left to be done.                                               *)
Calm == {"idle", "numbering", "created", "removed", "failed"}

(* A document holds a row of its own, which is in use but at the end of a    *)
(* removal; a row in use is held but at the ends of a creation.              *)
RowsHeld(w, docs, table) ==
  /\ \A d \in docs : \E x \in table : x.id = d.row
  /\ \A d, e \in docs : d.row = e.row => d = e
  /\ \A d \in docs, x \in table : x.id = d.row =>
       x.state = "USED" \/ (w.at \in {"unlink", "delete"} /\ w.doc = d.id)
  /\ \A x \in table : x.state = "USED" =>
       \/ \E d \in docs : d.row = x.id
       \/ w.at \in {"save", "undoNumber"} /\ w.row = x.id

(* A document has a file but in the making and at the end of its removal,    *)
(* and a file a document.                                                    *)
FilesHeld(w, docs, fs) ==
  /\ \A d \in docs : d.linked =>
       d.id \in fs \/ (w.at = "delete" /\ w.doc = d.id)
  /\ \A d \in docs : ~ d.linked =>
       w.at \in {"query", "copy", "link", "undoDocument"} /\ w.doc = d.id
  /\ \A f \in fs : \E d \in docs : /\ d.id = f
                                   /\ d.linked \/ w.at = "link"

(* What the handler relies on.                                               *)
HandlerHolds(w, docs, fs, tasks) ==
  /\ w.at \notin {"dropNumber", "undoFile"}
  /\ w.at \in {"save", "undoNumber"} => \A d \in docs : d.row # w.row
  /\ w.at \in {"query", "copy", "link", "undoDocument"} =>
       \E d \in docs : d.id = w.doc /\ d.row = w.row /\ ~ d.linked
  /\ w.at = "link" => w.doc \in fs
  /\ w.at \in {"dequeue", "unlink", "delete"} =>
       /\ w.file /\ \A t \in tasks : t.doc # w.doc
       /\ \E d \in docs : d.id = w.doc /\ d.row = w.row /\ d.linked
  /\ w.at = "delete" => w.doc \notin fs

(* No promise that nobody awaits can be rejected.                            *)
TasksHold(docs, fs, tasks) ==
  \A t \in tasks :
    IF t.kind = "replaceText" THEN t.doc \in fs
                              ELSE \E d \in docs : d.id = t.doc /\ d.linked

(* The number that was given for a document is in use, one that was taken    *)
(* back from it is not.                                                      *)
NumberFits(w, table) ==
  \A x \in table : x.id = w.row =>
    /\ w.at = "save" => x.state = "USED"
    /\ w.at \in {"unlink", "delete"} => x.state # "USED"

Alone(w, docs, fs, tasks, table) ==
  /\ NumberFits(w, table)
  /\ RowsHeld(w, docs, table) /\ FilesHeld(w, docs, fs)
  /\ HandlerHolds(w, docs, fs, tasks) /\ TasksHold(docs, fs, tasks)

AloneInv ==
  \E w \in Work : /\ \A r \in Requests : work[r] = w
                  /\ Requests = {} => w = Idle
                  /\ Alone(w, documents, files, background, rows)

(* The removal of a document reads the row that it holds.                    *)
DequeueInv ==
  \A r \in Requests : work[r].at = "dequeue" =>
    \A x \in view[r].snap : x.id = work[r].row

OneInv == TypedInv /\ MakingInv /\ TableInv /\ RestInv /\ DequeueInv /\ AloneInv

(* The only handler moves on.                                                *)
LEMMA AloneMoves ==
  ASSUME OneAtATime, TypedInv, NEW r \in Requests, NEW u \in Work, Moves(r, u),
         RowsHeld(u, documents', rows'), FilesHeld(u, documents', files'),
         HandlerHolds(u, documents', files', background'),
         TasksHold(documents', files', background'), NumberFits(u, rows')
  PROVE  AloneInv'
<1>1. \A s \in Requests : work'[s] = u
  BY OthersStay DEF OneAtATime
<1>2. Requests # {}
  OBVIOUS
<1>3. Alone(u, documents', files', background', rows')
  BY DEF Alone
<1> QED
  BY <1>1, <1>2, <1>3 DEF AloneInv

(* What holds of the only handler.                                           *)
LEMMA OnlyHandler ==
  ASSUME OneInv, NEW r \in Requests
  PROVE  /\ work[r] \in Work
         /\ RowsHeld(work[r], documents, rows)
         /\ FilesHeld(work[r], documents, files)
         /\ HandlerHolds(work[r], documents, files, background)
         /\ TasksHold(documents, files, background)
         /\ NumberFits(work[r], rows)
         /\ TypedInv /\ TableInv /\ RestInv /\ DocumentIds
  BY DEF OneInv, AloneInv, Alone, MakingInv

(* Where nothing is left to be done any handler may go on.                   *)
LEMMA CalmHeld ==
  ASSUME NEW w, NEW u, w.at \in Calm, u.at \in Calm,
         NEW docs, NEW fs, NEW tasks,
         FilesHeld(w, docs, fs), HandlerHolds(w, docs, fs, tasks)
  PROVE  FilesHeld(u, docs, fs) /\ HandlerHolds(u, docs, fs, tasks)
  BY DEF Calm, FilesHeld, HandlerHolds

(* A step of the numbering that deletes no row.                              *)
LEMMA RowsStayHeld ==
  ASSUME OneAtATime, TableInv, TableInv', [Keep]_vars, NEW w, NEW u, NEW docs,
         RowsHeld(w, docs, rows),
         w.at \notin {"unlink", "delete", "save", "undoNumber"},
         \A r \in Requests :
           /\ pc[r] # "enqueue"
           /\ InsertUsed(r) => u.at = "save" /\ u.row = nextId
           /\ SaveUsed(r) => u.at = "save" /\ \A x \in view[r].snap : u.row = x.id
  PROVE  RowsHeld(u, docs, rows')
<1>0. TypeInv /\ IdInv /\ RowsInv'
  BY DEF TableInv, UniqueInv, IdInv
<1>1. ASSUME NEW d \in docs PROVE \E y \in rows' : y.id = d.row
  <2>1. PICK x \in rows : x.id = d.row
    BY DEF RowsHeld
  <2> QED
    BY <1>0, <2>1, IdsStay
<1>2. ASSUME NEW d \in docs, NEW y \in rows', y.id = d.row
      PROVE  y.state = "USED"
  <2>1. PICK x \in rows : x.id = d.row /\ x.state = "USED"
    BY DEF RowsHeld
  <2>2. Stays(x)
    BY <2>1, UsedStaysStep
  <2>3. PICK z \in rows : z.id = x.id
    BY <2>1
  <2>4. \E z2 \in rows' : z2.id = x.id
    BY <1>2, <2>1
  <2>5. PICK z3 \in rows' : z3.id = x.id /\ z3.state = "USED"
    <3>1. CASE x \notin rows' /\ rows' = rows \ {x}
      BY <1>0, <2>1, <2>4, <3>1 DEF IdInv, RowsInv
    <3> QED
      BY <2>2, <3>1 DEF Stays
  <2>6. z3 = y
    BY <1>0, <1>2, <2>1, <2>5 DEF RowsInv
  <2> QED
    BY <2>5, <2>6
<1>3. ASSUME NEW y \in rows', y.state = "USED"
      PROVE  \/ \E d \in docs : d.row = y.id
             \/ u.at \in {"save", "undoNumber"} /\ u.row = y.id
  <2>1. CASE \E x \in rows : x.id = y.id /\ x.state = "USED"
    BY <2>1 DEF RowsHeld
  <2> QED
    BY <1>3, <2>1, OnlyCreateUses
<1>4. \A d, e \in docs : d.row = e.row => d = e
  BY DEF RowsHeld
<1> QED
  BY <1>1, <1>2, <1>3, <1>4 DEF RowsHeld

(* A step of the numbering with which the handler goes on where nothing is   *)
(* left to be done.                                                          *)
LEMMA CalmAlone ==
  ASSUME OneAtATime, OneInv, TypedInv', [Keep]_vars, Tables,
         NEW r \in Requests, NEW u \in Work, Moves(r, u),
         work[r].at \in Calm, u.at \in Calm,
         pc[r] # "enqueue", ~ InsertUsed(r), ~ SaveUsed(r)
  PROVE  TableInv' /\ AloneInv'
<1>0. /\ RowsHeld(work[r], documents, rows) /\ FilesHeld(work[r], documents, files)
      /\ HandlerHolds(work[r], documents, files, background)
      /\ TasksHold(documents, files, background) /\ TypedInv /\ TableInv
  BY OnlyHandler
<1>1. TableInv'
  BY <1>0, TableStep
<1>2. RowsHeld(u, documents, rows')
  BY <1>0, <1>1, RowsStayHeld DEF Calm, OneAtATime
<1>3. FilesHeld(u, documents, files) /\ HandlerHolds(u, documents, files, background)
  BY <1>0, CalmHeld
<1>4. NumberFits(u, rows')
  BY DEF NumberFits, Calm
<1> QED
  BY <1>0, <1>1, <1>2, <1>3, <1>4, AloneMoves DEF Tables

LEMMA CreateDocumentAlone ==
  ASSUME OneAtATime, OneInv, TypedInv', NEW r \in Requests,
         NEW c \in Councils, NEW n \in Number, CreateDocument(r, c, n)
  PROVE  TableInv' /\ RestInv' /\ AloneInv'
<1>1. /\ Begin(r) /\ Keep /\ Tables /\ pc[r] = "idle" /\ view' = view
      /\ \A s \in Requests : s # r => pc'[s] = pc[s]
  BY DEF CreateDocument, Begin, Keep, BeginCreate, OneInv, TypedInv, TypeInv,
     TypeOK
<1>2. work[r].at = "idle" /\ TypedInv
  BY <1>1 DEF OneInv, TypedInv, FollowsInv, Follows, CreateAwaits
<1>3. PICK u \in Work : Moves(r, u) /\ u.at = "numbering"
  BY <1>2, AtMoves DEF CreateDocument, Step
<1>4. ~ InsertUsed(r) /\ ~ SaveUsed(r)
  BY <1>1 DEF InsertUsed, SaveUsed
<1>5. RestInv'
  BY <1>1 DEF OneInv, RestInv, OneAtATime
<1> QED
  BY <1>1, <1>2, <1>3, <1>4, <1>5, CalmAlone DEF Calm

LEMMA TakeNumberAlone ==
  ASSUME OneAtATime, OneInv, TypedInv', NEW r \in Requests,
         TakeNumber(r) \/ ServeReserve(r) \/ ReserveNumbers(r)
  PROVE  TableInv' /\ RestInv' /\ AloneInv'
<1>0. TypedInv /\ RestInv /\ TypeInv /\ Follows(work[r].at, pc[r], req[r].op)
  BY DEF OneInv, TypedInv, FollowsInv
<1>1. Tables /\ Moves(r, work[r]) /\ work[r] \in Work /\ work[r].at \in Calm
  <2>1. Tables /\ work' = work /\ work[r].at \in Calm
    BY DEF TakeNumber, ServeReserve, ReserveNumbers, documentVars, Tables, Calm
  <2> QED
    BY <1>0, <2>1, StaysMoves
<1>2. CASE TakeNumber(r)
  <2>1. Serve(r) /\ Keep
    BY <1>2 DEF TakeNumber, Serve, Keep
  <2>2. pc[r] # "enqueue" /\ ~ InsertUsed(r) /\ ~ SaveUsed(r)
    BY <1>2 DEF TakeNumber, CheckNext, ReadBook, ReadOwn, ReadAvailable,
       InsertReserved, InsertUsed, SaveUsed
  <2> QED
    BY <1>0, <1>1, <2>1, <2>2, CalmAlone, RestServe
<1>3. CASE ServeReserve(r)
  <2>1. Serve(r) /\ Keep /\ req[r].op = "reserve" /\ work[r].at = "idle"
    BY <1>3 DEF ServeReserve, Keep
  <2>2. pc[r] # "enqueue"
    BY <1>0, <2>1 DEF Follows
  <2>3. ~ InsertUsed(r) /\ ~ SaveUsed(r)
    <3>1. InsertUsed(r) => req[r].op = "create"
      BY <1>0 DEF InsertUsed, TypeInv, AwaitInv, Fits, CreateAwaits
    <3>2. SaveUsed(r) => req[r].op = "create"
      BY <1>0 DEF SaveUsed, TypeInv, AwaitInv, Fits, CreateAwaits
    <3> QED
      BY <2>1, <3>1, <3>2
  <2> QED
    BY <1>0, <1>1, <2>1, <2>2, <2>3, CalmAlone, RestServe
<1>4. CASE ReserveNumbers(r)
  <2>1. PICK c \in Councils, g \in Ranges : BeginReserve(r, c, g)
    BY <1>4 DEF ReserveNumbers
  <2>2. Begin(r) /\ Keep
    BY <1>4 DEF ReserveNumbers, Begin, Keep
  <2>3. pc[r] = "idle" /\ pc'[r] = "reserveBook"
    BY <1>0, <2>1 DEF BeginReserve, TypeInv, TypeOK
  <2>4. ~ InsertUsed(r) /\ ~ SaveUsed(r)
    BY <2>3 DEF InsertUsed, SaveUsed
  <2>5. RestInv'
    BY <2>3 DEF RestInv, OneAtATime
  <2> QED
    BY <1>0, <1>1, <2>2, <2>3, <2>4, <2>5, CalmAlone
<1> QED
  BY <1>2, <1>3, <1>4

LEMMA NumberGivenAlone ==
  ASSUME OneAtATime, OneInv, TypedInv', NEW r \in Requests, NumberGiven(r)
  PROVE  TableInv' /\ RestInv' /\ AloneInv'
<1>0. /\ RowsHeld(work[r], documents, rows) /\ FilesHeld(work[r], documents, files)
      /\ HandlerHolds(work[r], documents, files, background)
      /\ TasksHold(documents, files, background)
      /\ TypedInv /\ TableInv /\ RestInv /\ TypeInv
  BY OnlyHandler DEF TypedInv
<1>1. /\ Serve(r) /\ Tables /\ work[r].at = "numbering" /\ Keep
  BY <1>0, NumberGivenMoves DEF Keep
<1>2. PICK u \in Work :
        /\ Moves(r, u) /\ u.at = "save"
        /\ \/ InsertUsed(r) /\ u.row = nextId
           \/ SaveUsed(r) /\ \E x \in view[r].snap : u.row = x.id
  BY <1>0, NumberGivenMoves
<1>3. TableInv'
  BY <1>0, <1>1, TableStep
<1>4. /\ RowsInv /\ Seen(rows, req[r], pc[r], view[r])
      /\ \A x \in rows : x.id \in Nat
  BY <1>0 DEF TableInv, UniqueInv, IdInv, FirmInv, SeenInv, TypeInv, TypeOK, Row
<1>5. SaveUsed(r) => /\ pc[r] = "save"
                     /\ \E x \in rows : view[r].snap = {x} /\ x.state # "USED"
  BY <1>4 DEF SaveUsed, Seen
<1>6. InsertUsed(r) => pc[r] = "insert"
  BY DEF InsertUsed
<1>7. RowsHeld(u, documents, rows')
  <2>1. pc[r] # "enqueue" /\ [Keep]_vars
    BY <1>1, <1>2, <1>5, <1>6
  <2>2. InsertUsed(r) => u.row = nextId
    BY <1>2, <1>5, <1>6
  <2>3. SaveUsed(r) => \A x \in view[r].snap : u.row = x.id
    BY <1>2, <1>5, <1>6
  <2> QED
    BY <1>0, <1>1, <1>2, <1>3, <2>1, <2>2, <2>3, RowsStayHeld DEF OneAtATime
<1>8. ASSUME NEW d \in documents PROVE d.row # u.row
  <2>1. PICK x \in rows : x.id = d.row /\ x.state = "USED"
    BY <1>0, <1>1 DEF RowsHeld
  <2>2. CASE InsertUsed(r) /\ u.row = nextId
    BY <1>4, <2>1, <2>2 DEF RowsInv
  <2>3. CASE SaveUsed(r) /\ \E y \in view[r].snap : u.row = y.id
    <3>1. PICK y \in rows : u.row = y.id /\ y.state # "USED"
      BY <1>5, <2>3
    <3> QED
      BY <1>4, <2>1, <3>1 DEF RowsInv
  <2> QED
    BY <1>2, <2>2, <2>3
<1>9. FilesHeld(u, documents, files)
  BY <1>0, <1>1 DEF FilesHeld
<1>10. HandlerHolds(u, documents, files, background)
  BY <1>2, <1>8 DEF HandlerHolds
<1>11. ASSUME NEW y \in rows', y.id = u.row PROVE y.state = "USED"
  <2>1. CASE InsertUsed(r) /\ u.row = nextId
    BY <1>4, <1>11, <2>1 DEF InsertUsed, InsertRow, RowsInv
  <2>2. CASE SaveUsed(r) /\ \E x \in view[r].snap : u.row = x.id
    <3>1. PICK x \in rows : view[r].snap = {x} /\ u.row = x.id
      BY <1>5, <2>2
    <3>2. PICK z : z = [x EXCEPT !.state = "USED"]
      OBVIOUS
    <3>3. z.id = x.id /\ z.state = "USED"
      BY <1>0, <3>2 DEF TypeInv, TypeOK, Row
    <3>4. rows' = {a \in rows : a.id # z.id} \cup {z}
      BY <2>2, <3>1, <3>2 DEF SaveUsed, SaveRows
    <3> QED
      BY <1>11, <3>1, <3>3, <3>4
  <2> QED
    BY <1>2, <2>1, <2>2
<1>12. NumberFits(u, rows')
  BY <1>2, <1>11 DEF NumberFits
<1> QED
  BY <1>0, <1>1, <1>2, <1>3, <1>7, <1>9, <1>10, <1>12, RestServe, AloneMoves DEF Tables

LEMMA RespondAlone ==
  ASSUME OneAtATime, OneInv, TypedInv', NEW r \in Requests, Respond(r)
  PROVE  TableInv' /\ RestInv' /\ AloneInv'
<1>1. /\ Serve(r) /\ Keep /\ Tables /\ Moves(r, Idle) /\ pc[r] = "done"
      /\ work[r].at \in Calm
  BY DEF Respond, Serve, Keep, Moves, Return, Calm, Answers
<1>2. ~ InsertUsed(r) /\ ~ SaveUsed(r)
  BY <1>1 DEF InsertUsed, SaveUsed
<1>3. RestInv'
  BY <1>1, RestServe DEF OneInv, TypedInv
<1> QED
  BY <1>1, <1>2, <1>3, IdleTyped, CalmAlone DEF Calm

-------------------------------------------------------------------------------
(***************************************************************************)
(* The steps of a creation and of its undoing, by the only handler.        *)
(***************************************************************************)

LEMMA NumberedTable ==
  ASSUME OneAtATime, TableInv, RestInv, Numbered
  PROVE  TableInv' /\ RestInv' /\ rows' = rows
<1>1. UNCHANGED vars /\ [Keep]_vars
  BY DEF Numbered
<1>2. TableInv'
  BY <1>1, TableStep
<1> QED
  BY <1>1, <1>2 DEF vars, RestInv

LEMMA SaveDocumentAlone ==
  ASSUME OneAtATime, OneInv, NEW r \in Requests, SaveDocument(r)
  PROVE  TableInv' /\ RestInv' /\ AloneInv'
<1> DEFINE w == work[r]
<1>0. /\ w \in Work /\ RowsHeld(w, documents, rows)
      /\ FilesHeld(w, documents, files)
      /\ HandlerHolds(w, documents, files, background)
      /\ TasksHold(documents, files, background) /\ NumberFits(w, rows)
      /\ TypedInv /\ TableInv /\ RestInv /\ DocumentIds
  BY OnlyHandler
<1>1. w.at = "save" /\ TableInv' /\ RestInv' /\ rows' = rows
  BY <1>0, NumberedTable DEF SaveDocument
<1>2. \A d \in documents : d.row # w.row
  BY <1>0, <1>1 DEF HandlerHolds
<1>3. /\ nextDocument \in Nat /\ w.row \in Nat
      /\ \A d \in documents : d.id \in Nat /\ d.row \in Nat /\ d.id < nextDocument
  BY <1>0 DEF TypedInv, DocumentTables, Document, DocumentIds, Work
<1>4. CASE At(r, "undoNumber") /\ Tables
  <2>1. PICK u \in Work : Moves(r, u) /\ u.at = "undoNumber" /\ u.row = w.row
    BY <1>0, <1>4, AtMoves DEF Step
  <2>2. RowsHeld(u, documents, rows)
    BY <1>0, <1>1, <2>1 DEF RowsHeld
  <2>3. FilesHeld(u, documents, files)
    BY <1>0, <1>1, <2>1 DEF FilesHeld
  <2>4. HandlerHolds(u, documents, files, background)
    BY <1>2, <2>1 DEF HandlerHolds
  <2>5. NumberFits(u, rows)
    BY <2>1 DEF NumberFits
  <2> QED
    BY <1>0, <1>1, <1>4, <2>1, <2>2, <2>3, <2>4, <2>5, AloneMoves DEF Tables
<1>5. CASE ~ (At(r, "undoNumber") /\ Tables)
  <2>1. PICK d : d = [id |-> nextDocument, row |-> w.row, linked |-> FALSE,
                      left |-> FALSE]
    OBVIOUS
  <2>2. PICK u : u = [w EXCEPT !.at = "query", !.doc = nextDocument]
    OBVIOUS
  <2>3. /\ \E x \in rows : x.id = w.row
        /\ documents' = documents \cup {d}
        /\ work' = [work EXCEPT ![r] = u]
        /\ files' = files /\ background' = background
    BY <1>0, <1>5, <2>1, <2>2 DEF SaveDocument, TypedInv
  <2>4. /\ u \in Work /\ u.at = "query" /\ u.doc = nextDocument /\ u.row = w.row
    BY <1>0, <1>3, <2>2 DEF Work, Step
  <2>5. d.id = nextDocument /\ d.row = w.row /\ ~ d.linked
    BY <2>1
  <2>6. RowsHeld(u, documents', rows)
    <3>1. \A e \in documents' : \E x \in rows : x.id = e.row
      BY <1>0, <2>3, <2>5 DEF RowsHeld
    <3>2. \A e, f \in documents' : e.row = f.row => e = f
      BY <1>0, <1>2, <2>3, <2>5 DEF RowsHeld
    <3>3. \A e \in documents', x \in rows : x.id = e.row => x.state = "USED"
      BY <1>0, <1>1, <2>3, <2>5 DEF RowsHeld, NumberFits
    <3>4. \A x \in rows : x.state = "USED" => \E e \in documents' : e.row = x.id
      BY <1>0, <1>1, <2>3, <2>5 DEF RowsHeld
    <3> QED
      BY <3>1, <3>2, <3>3, <3>4 DEF RowsHeld
  <2>7. FilesHeld(u, documents', files)
    BY <1>0, <1>1, <2>3, <2>4, <2>5 DEF FilesHeld
  <2>8. HandlerHolds(u, documents', files, background)
    BY <2>3, <2>4, <2>5 DEF HandlerHolds
  <2>9. TasksHold(documents', files, background) /\ NumberFits(u, rows)
    BY <1>0, <2>3, <2>4 DEF TasksHold, NumberFits
  <2> QED
    BY <1>0, <1>1, <2>3, <2>4, <2>6, <2>7, <2>8, <2>9, AloneMoves DEF Moves
<1> QED
  BY <1>1, <1>4, <1>5

LEMMA QueryDocumentAlone ==
  ASSUME OneAtATime, OneInv, NEW r \in Requests, QueryDocument(r)
  PROVE  TableInv' /\ RestInv' /\ AloneInv'
<1> DEFINE w == work[r]
<1>0. /\ w \in Work /\ RowsHeld(w, documents, rows)
      /\ FilesHeld(w, documents, files)
      /\ HandlerHolds(w, documents, files, background)
      /\ TasksHold(documents, files, background)
      /\ TypedInv /\ TableInv /\ RestInv
  BY OnlyHandler
<1>1. /\ w.at = "query" /\ TableInv' /\ RestInv' /\ rows' = rows /\ Tables
  BY <1>0, NumberedTable DEF QueryDocument
<1>2. \E d \in documents : d.id = w.doc /\ d.row = w.row /\ ~ d.linked
  BY <1>0, <1>1 DEF HandlerHolds
<1>3. At(r, "copy") \/ At(r, "undoDocument")
  BY <1>2 DEF QueryDocument
<1>4. PICK u \in Work : /\ Moves(r, u) /\ u.at \in {"copy", "undoDocument"}
                        /\ u.row = w.row /\ u.doc = w.doc
  BY <1>0, <1>3, AtMoves DEF Step
<1>5. RowsHeld(u, documents, rows)
  BY <1>0, <1>1, <1>4 DEF RowsHeld
<1>6. FilesHeld(u, documents, files)
  BY <1>0, <1>1, <1>4 DEF FilesHeld
<1>7. HandlerHolds(u, documents, files, background)
  BY <1>2, <1>4 DEF HandlerHolds
<1>8. NumberFits(u, rows)
  BY <1>4 DEF NumberFits
<1> QED
  BY <1>0, <1>1, <1>4, <1>5, <1>6, <1>7, <1>8, AloneMoves DEF Tables

LEMMA CopyTemplateAlone ==
  ASSUME OneAtATime, OneInv, NEW r \in Requests, CopyTemplate(r)
  PROVE  TableInv' /\ RestInv' /\ AloneInv'
<1> DEFINE w == work[r]
<1>0. /\ w \in Work /\ RowsHeld(w, documents, rows)
      /\ FilesHeld(w, documents, files)
      /\ HandlerHolds(w, documents, files, background)
      /\ TasksHold(documents, files, background)
      /\ TypedInv /\ TableInv /\ RestInv
  BY OnlyHandler
<1>1. w.at = "copy" /\ TableInv' /\ RestInv' /\ rows' = rows
  BY <1>0, NumberedTable DEF CopyTemplate
<1>2. \E d \in documents : d.id = w.doc /\ d.row = w.row /\ ~ d.linked
  BY <1>0, <1>1 DEF HandlerHolds
<1>3. CASE At(r, "undoDocument") /\ Tables
  <2>1. PICK u \in Work : /\ Moves(r, u) /\ u.at = "undoDocument"
                          /\ u.row = w.row /\ u.doc = w.doc
    BY <1>0, <1>3, AtMoves DEF Step
  <2>2. RowsHeld(u, documents, rows)
    BY <1>0, <1>1, <2>1 DEF RowsHeld
  <2>3. FilesHeld(u, documents, files)
    BY <1>0, <1>1, <2>1 DEF FilesHeld
  <2>4. HandlerHolds(u, documents, files, background)
    BY <1>2, <2>1 DEF HandlerHolds
  <2>5. NumberFits(u, rows)
    BY <2>1 DEF NumberFits
  <2> QED
    BY <1>0, <1>1, <1>3, <2>1, <2>2, <2>3, <2>4, <2>5, AloneMoves DEF Tables
<1>4. CASE ~ (At(r, "undoDocument") /\ Tables)
  <2>1. PICK u : u = [w EXCEPT !.at = "link", !.file = TRUE]
    OBVIOUS
  <2>2. PICK t : t = [kind |-> "replaceText", doc |-> w.doc]
    OBVIOUS
  <2>3. /\ work' = [work EXCEPT ![r] = u] /\ documents' = documents
        /\ files' = files \cup {w.doc} /\ background' = background \cup {t}
    BY <1>0, <1>4, <2>1, <2>2 DEF CopyTemplate, TypedInv
  <2>4. /\ u \in Work /\ u.at = "link" /\ u.doc = w.doc /\ u.row = w.row
        /\ t.kind = "replaceText" /\ t.doc = w.doc
    BY <1>0, <2>1, <2>2 DEF Work, Step
  <2>5. RowsHeld(u, documents, rows)
    BY <1>0, <1>1, <2>4 DEF RowsHeld
  <2>6. FilesHeld(u, documents, files')
    BY <1>0, <1>1, <1>2, <2>3, <2>4 DEF FilesHeld
  <2>7. HandlerHolds(u, documents, files', background')
    BY <1>2, <2>3, <2>4 DEF HandlerHolds
  <2>8. TasksHold(documents, files', background') /\ NumberFits(u, rows)
    BY <1>0, <2>3, <2>4 DEF TasksHold, NumberFits
  <2> QED
    BY <1>0, <1>1, <2>3, <2>4, <2>5, <2>6, <2>7, <2>8, AloneMoves DEF Moves
<1> QED
  BY <1>1, <1>3, <1>4

LEMMA LinkFileAlone ==
  ASSUME OneAtATime, OneInv, NEW r \in Requests, LinkFile(r)
  PROVE  TableInv' /\ RestInv' /\ AloneInv'
<1> DEFINE w == work[r]
<1>0. /\ w \in Work /\ RowsHeld(w, documents, rows)
      /\ FilesHeld(w, documents, files)
      /\ HandlerHolds(w, documents, files, background)
      /\ TasksHold(documents, files, background)
      /\ TypedInv /\ TableInv /\ RestInv /\ DocumentIds
  BY OnlyHandler
<1>1. w.at = "link" /\ TableInv' /\ RestInv' /\ rows' = rows
  BY <1>0, NumberedTable DEF LinkFile
<1>2. /\ w.doc \in files
      /\ \E d \in documents : d.id = w.doc /\ d.row = w.row /\ ~ d.linked
  BY <1>0, <1>1 DEF HandlerHolds
<1>3. PICK d \in documents :
        /\ d.id = w.doc
        /\ documents' = (documents \ {d}) \cup {[d EXCEPT !.linked = TRUE]}
        /\ background' =
             background \cup {[kind |-> "saveVariables", doc |-> w.doc]}
        /\ At(r, "created") /\ UNCHANGED <<nextDocument, files>>
  BY <1>2 DEF LinkFile
<1>4. PICK e : e = [d EXCEPT !.linked = TRUE]
  OBVIOUS
<1>5. PICK t : t = [kind |-> "saveVariables", doc |-> w.doc]
  OBVIOUS
<1>6. PICK u \in Work : /\ Moves(r, u) /\ u.at = "created"
  BY <1>0, <1>3, AtMoves DEF Step
<1>7. /\ e.id = w.doc /\ e.row = d.row /\ e.linked
      /\ t.kind = "saveVariables" /\ t.doc = w.doc
  BY <1>0, <1>3, <1>4, <1>5 DEF TypedInv, DocumentTables, Document
<1>8. /\ documents' = (documents \ {d}) \cup {e} /\ files' = files
      /\ background' = background \cup {t}
  BY <1>3, <1>4, <1>5
<1>9. \A f \in documents : f.linked \/ f = d
  BY <1>0, <1>1, <1>3 DEF FilesHeld, DocumentIds
<1>10. RowsHeld(u, documents', rows)
  <2>1. \A f \in documents' : \E x \in rows : x.id = f.row
    BY <1>0, <1>7, <1>8 DEF RowsHeld
  <2>2. \A f, g \in documents' : f.row = g.row => f = g
    BY <1>0, <1>7, <1>8 DEF RowsHeld
  <2>3. \A f \in documents', x \in rows : x.id = f.row => x.state = "USED"
    BY <1>0, <1>1, <1>7, <1>8 DEF RowsHeld
  <2>4. \A x \in rows : x.state = "USED" => \E f \in documents' : f.row = x.id
    BY <1>0, <1>1, <1>7, <1>8 DEF RowsHeld
  <2> QED
    BY <2>1, <2>2, <2>3, <2>4 DEF RowsHeld
<1>11. FilesHeld(u, documents', files)
  <2>1. \A f \in documents' : f.linked /\ f.id \in files
    BY <1>0, <1>1, <1>2, <1>7, <1>8, <1>9 DEF FilesHeld
  <2>2. \A f \in files : \E g \in documents' : g.id = f
    BY <1>0, <1>3, <1>7, <1>8 DEF FilesHeld
  <2> QED
    BY <2>1, <2>2 DEF FilesHeld
<1>12. HandlerHolds(u, documents', files, background')
  BY <1>6 DEF HandlerHolds
<1>13. TasksHold(documents', files, background') /\ NumberFits(u, rows)
  <2>1. \A f \in documents : \E g \in documents' : g.id = f.id /\ g.linked
    BY <1>3, <1>7, <1>8, <1>9
  <2> QED
    BY <1>0, <1>3, <1>6, <1>7, <1>8, <2>1 DEF TasksHold, NumberFits
<1> QED
  BY <1>0, <1>1, <1>6, <1>8, <1>10, <1>11, <1>12, <1>13, AloneMoves

LEMMA UndoDocumentAlone ==
  ASSUME OneAtATime, OneInv, NEW r \in Requests, UndoDocument(r)
  PROVE  TableInv' /\ RestInv' /\ AloneInv'
<1> DEFINE w == work[r]
<1>0. /\ w \in Work /\ RowsHeld(w, documents, rows)
      /\ FilesHeld(w, documents, files)
      /\ HandlerHolds(w, documents, files, background)
      /\ TasksHold(documents, files, background)
      /\ TypedInv /\ TableInv /\ RestInv /\ DocumentIds
  BY OnlyHandler
<1>1. /\ w.at = "undoDocument" /\ TableInv' /\ RestInv' /\ rows' = rows
      /\ documents' = {d \in documents : d.id # w.doc}
      /\ files' = files /\ background' = background
  BY <1>0, NumberedTable DEF UndoDocument
<1>2. PICK d \in documents : d.id = w.doc /\ d.row = w.row /\ ~ d.linked
  BY <1>0, <1>1 DEF HandlerHolds
<1>3. PICK u \in Work : Moves(r, u) /\ u.at = "undoNumber" /\ u.row = w.row
  BY <1>0, AtMoves DEF UndoDocument, Step
<1>4. /\ documents' \subseteq documents
      /\ \A e \in documents : e \in documents' \/ e = d
      /\ d \notin documents'
  BY <1>0, <1>1, <1>2 DEF DocumentIds
<1>5. \A e \in documents' : e.linked
  BY <1>0, <1>1 DEF FilesHeld
<1>6. RowsHeld(u, documents', rows)
  BY <1>0, <1>1, <1>2, <1>3, <1>4 DEF RowsHeld
<1>7. FilesHeld(u, documents', files)
  BY <1>0, <1>1, <1>2, <1>4, <1>5 DEF FilesHeld
<1>8. HandlerHolds(u, documents', files, background)
  BY <1>0, <1>2, <1>3, <1>4 DEF HandlerHolds, RowsHeld
<1>9. TasksHold(documents', files, background) /\ NumberFits(u, rows)
  BY <1>0, <1>2, <1>3, <1>4 DEF TasksHold, NumberFits
<1> QED
  BY <1>0, <1>1, <1>3, <1>6, <1>7, <1>8, <1>9, AloneMoves

LEMMA UndoNumberAlone ==
  ASSUME OneAtATime, OneInv, NEW r \in Requests, UndoNumber(r)
  PROVE  TableInv' /\ RestInv' /\ AloneInv'
<1> DEFINE w == work[r]
<1>0. /\ w \in Work /\ RowsHeld(w, documents, rows)
      /\ FilesHeld(w, documents, files)
      /\ HandlerHolds(w, documents, files, background)
      /\ TasksHold(documents, files, background)
      /\ TypedInv /\ TableInv /\ RestInv
  BY OnlyHandler
<1>1. w.at = "undoNumber" /\ Tables
  BY DEF UndoNumber
<1>2. \A d \in documents : d.row # w.row
  BY <1>0, <1>1 DEF HandlerHolds
<1>3. /\ rows' = {x \in rows : x.id # w.row} /\ At(r, "failed")
      /\ UNCHANGED <<nextId, active, pc, req, view, reply>>
  BY <1>2 DEF UndoNumber, DeleteNumber, Held
<1>4. pc[r] = "done"
  BY <1>0, <1>1 DEF TypedInv, FollowsInv, Follows
<1>5. TableInv' /\ RestInv'
  BY <1>0, <1>3, <1>4, DeletionTable
<1>6. PICK u \in Work : Moves(r, u) /\ u.at = "failed"
  BY <1>0, <1>3, AtMoves DEF Step
<1>7. RowsHeld(u, documents, rows')
  BY <1>0, <1>1, <1>2, <1>3 DEF RowsHeld
<1>8. FilesHeld(u, documents, files)
  BY <1>0, <1>1 DEF FilesHeld
<1>9. HandlerHolds(u, documents, files, background) /\ NumberFits(u, rows')
  BY <1>6 DEF HandlerHolds, NumberFits
<1> QED
  BY <1>0, <1>1, <1>5, <1>6, <1>7, <1>8, <1>9, AloneMoves DEF Tables

-------------------------------------------------------------------------------
(***************************************************************************)
(* The steps of a removal, by the only handler.                            *)
(***************************************************************************)

LEMMA RemoveDocumentAlone ==
  ASSUME OneAtATime, OneInv, Failures \subseteq {"document", "copy"},
         NEW r \in Requests, NEW d \in documents, Removable(d),
         RemoveDocument(r, d)
  PROVE  TableInv' /\ RestInv' /\ AloneInv' /\ DequeueInv'
<1> DEFINE w == work[r]
<1>0. /\ w \in Work /\ RowsHeld(w, documents, rows)
      /\ FilesHeld(w, documents, files)
      /\ HandlerHolds(w, documents, files, background)
      /\ TasksHold(documents, files, background)
      /\ TypedInv /\ TableInv /\ RestInv
  BY OnlyHandler
<1>1. PICK x \in rows : x.id = d.row /\ BeginDocumentRemoved(r, x)
  BY DEF RemoveDocument
<1>2. w.at = "idle" /\ Tables
  <2>1. pc[r] = "idle"
    BY <1>1 DEF BeginDocumentRemoved
  <2> QED
    BY <1>0, <2>1 DEF RemoveDocument, TypedInv, FollowsInv, Follows, CreateAwaits
<1>3. d.linked /\ \A t \in background : t.doc # d.id
  BY DEF Removable
<1>4. x.state = "USED"
  BY <1>0, <1>1, <1>2 DEF RowsHeld
<1>5. TableInv' /\ RestInv' /\ view'[r].snap = {x} /\ rows' = rows
  BY <1>0, <1>1, <1>4, ReadingTable
<1>6. PICK u \in Work : /\ Moves(r, u) /\ u.at = "dequeue" /\ u.row = d.row
                        /\ u.doc = d.id /\ u.file = d.linked
  BY <1>0, RemoveDocumentMoves
<1>7. RowsHeld(u, documents, rows)
  BY <1>0, <1>2, <1>6 DEF RowsHeld
<1>8. FilesHeld(u, documents, files)
  BY <1>0, <1>2, <1>6 DEF FilesHeld
<1>9. HandlerHolds(u, documents, files, background) /\ NumberFits(u, rows)
  BY <1>3, <1>6 DEF HandlerHolds, NumberFits
<1>10. AloneInv'
  BY <1>0, <1>2, <1>5, <1>6, <1>7, <1>8, <1>9, AloneMoves DEF Tables
<1>11. work'[r] = u
  BY <1>0, <1>6, OthersStay
<1>12. DequeueInv'
  BY <1>1, <1>5, <1>6, <1>11 DEF DequeueInv, OneAtATime
<1> QED
  BY <1>5, <1>10, <1>12

LEMMA DequeueNumberAlone ==
  ASSUME OneAtATime, OneInv, NEW r \in Requests, DequeueNumber(r)
  PROVE  TableInv' /\ RestInv' /\ AloneInv'
<1> DEFINE w == work[r]
<1>0. /\ w \in Work /\ RowsHeld(w, documents, rows)
      /\ FilesHeld(w, documents, files)
      /\ HandlerHolds(w, documents, files, background)
      /\ TasksHold(documents, files, background)
      /\ TypedInv /\ TableInv /\ RestInv /\ TypeInv
  BY OnlyHandler DEF TypedInv
<1>1. w.at = "dequeue" /\ Enqueue(r) /\ Tables /\ Serve(r) /\ Keep
  BY DEF DequeueNumber, Serve, Keep
<1>2. TableInv' /\ RestInv'
  BY <1>0, <1>1, TableStep, RestServe
<1>3. /\ w.file /\ \A t \in background : t.doc # w.doc
      /\ \E d \in documents : d.id = w.doc /\ d.row = w.row /\ d.linked
  BY <1>0, <1>1 DEF HandlerHolds
<1>4. PICK x \in rows : view[r].snap = {x}
  BY <1>0, <1>1 DEF TableInv, FirmInv, SeenInv, Seen, Enqueue
<1>5. x.id = w.row
  BY <1>1, <1>4 DEF OneInv, DequeueInv
<1>6. \A y \in rows : y.id = x.id => y = x
  BY <1>0 DEF TableInv, UniqueInv, IdInv, RowsInv
<1>7. PICK z : z = [x EXCEPT !.state = "ENQUEUED", !.number = x.number]
  OBVIOUS
<1>8. SaveRows({z}) /\ Finish(r, "ok")
  BY <1>1, <1>4, <1>6, <1>7 DEF Enqueue
<1>9. z.id = x.id /\ z.state = "ENQUEUED"
  BY <1>0, <1>7 DEF TypeInv, TypeOK, Row
<1>10. rows' = {y \in rows : y.id # x.id} \cup {z}
  BY <1>8, <1>9 DEF SaveRows
<1>11. reply'[r] = "ok"
  BY <1>0, <1>8 DEF Finish, TypeInv, TypeOK
<1>12. PICK u \in Work : /\ Moves(r, u) /\ u.at = "unlink" /\ u.row = w.row
                         /\ u.doc = w.doc /\ u.file = w.file
  BY <1>0, <1>3, <1>11, DequeueNumberMoves
<1>13. RowsHeld(u, documents, rows')
  <2>1. \A d \in documents : \E y \in rows' : y.id = d.row
    BY <1>0, <1>9, <1>10 DEF RowsHeld
  <2>2. \A d, e \in documents : d.row = e.row => d = e
    BY <1>0 DEF RowsHeld
  <2>3. \A d \in documents, y \in rows' : y.id = d.row =>
          y.state = "USED" \/ d.id = w.doc
    <3> SUFFICES ASSUME NEW d \in documents, NEW y \in rows', y.id = d.row
                 PROVE  y.state = "USED" \/ d.id = w.doc
      OBVIOUS
    <3>1. CASE y = z
      BY <1>3, <1>5, <1>9, <2>2, <3>1
    <3>2. CASE y \in rows
      BY <1>0, <1>1, <3>2 DEF RowsHeld
    <3> QED
      BY <1>10, <3>1, <3>2
  <2>4. \A y \in rows' : y.state = "USED" => \E d \in documents : d.row = y.id
    BY <1>0, <1>1, <1>9, <1>10 DEF RowsHeld
  <2> QED
    BY <1>12, <2>1, <2>2, <2>3, <2>4 DEF RowsHeld
<1>14. FilesHeld(u, documents, files)
  BY <1>0, <1>1, <1>12 DEF FilesHeld
<1>15. HandlerHolds(u, documents, files, background)
  BY <1>3, <1>12 DEF HandlerHolds
<1>16. NumberFits(u, rows')
  BY <1>5, <1>9, <1>10, <1>12 DEF NumberFits
<1> QED
  BY <1>0, <1>1, <1>2, <1>12, <1>13, <1>14, <1>15, <1>16, AloneMoves DEF Tables

LEMMA UnlinkFileAlone ==
  ASSUME OneAtATime, OneInv, Failures \subseteq {"document", "copy"},
         NEW r \in Requests, UnlinkFile(r)
  PROVE  TableInv' /\ RestInv' /\ AloneInv'
<1> DEFINE w == work[r]
<1>0. /\ w \in Work /\ RowsHeld(w, documents, rows)
      /\ FilesHeld(w, documents, files)
      /\ HandlerHolds(w, documents, files, background)
      /\ TasksHold(documents, files, background) /\ NumberFits(w, rows)
      /\ TypedInv /\ TableInv /\ RestInv
  BY OnlyHandler
<1>1. /\ w.at = "unlink" /\ TableInv' /\ RestInv' /\ rows' = rows
      /\ DeleteFile(r, "delete") /\ "delete" \in Step
  BY <1>0, NumberedTable DEF UnlinkFile, Step
<1>2. /\ w.file /\ \A t \in background : t.doc # w.doc
      /\ \E d \in documents : d.id = w.doc /\ d.row = w.row /\ d.linked
  BY <1>0, <1>1 DEF HandlerHolds
<1>3. w.doc \in files /\ "unlink" \notin Failures
  BY <1>0, <1>1, <1>2 DEF FilesHeld
<1>4. documents' = documents /\ background' = background
  BY <1>0, <1>1, DeleteFileIs
<1>5. PICK u \in Work : /\ Moves(r, u) /\ u.at = "delete" /\ u.row = w.row
                        /\ u.doc = w.doc /\ u.file = w.file
                        /\ files' = files \ {w.doc}
  BY <1>0, <1>1, <1>3, DeleteFileIs
<1>6. RowsHeld(u, documents, rows)
  BY <1>0, <1>1, <1>5 DEF RowsHeld
<1>7. FilesHeld(u, documents, files')
  BY <1>0, <1>1, <1>5 DEF FilesHeld
<1>8. HandlerHolds(u, documents, files', background)
  BY <1>2, <1>5 DEF HandlerHolds
<1>9. TasksHold(documents, files', background) /\ NumberFits(u, rows)
  BY <1>0, <1>1, <1>2, <1>5 DEF TasksHold, NumberFits
<1> QED
  BY <1>0, <1>1, <1>4, <1>5, <1>6, <1>7, <1>8, <1>9, AloneMoves

LEMMA DeleteDocumentAlone ==
  ASSUME OneAtATime, OneInv, NEW r \in Requests, DeleteDocument(r)
  PROVE  TableInv' /\ RestInv' /\ AloneInv'
<1> DEFINE w == work[r]
<1>0. /\ w \in Work /\ RowsHeld(w, documents, rows)
      /\ FilesHeld(w, documents, files)
      /\ HandlerHolds(w, documents, files, background)
      /\ TasksHold(documents, files, background) /\ NumberFits(w, rows)
      /\ TypedInv /\ TableInv /\ RestInv /\ DocumentIds
  BY OnlyHandler
<1>1. /\ w.at = "delete" /\ TableInv' /\ RestInv' /\ rows' = rows
      /\ documents' = {d \in documents : d.id # w.doc}
      /\ files' = files /\ background' = background
  BY <1>0, NumberedTable DEF DeleteDocument
<1>2. /\ \A t \in background : t.doc # w.doc
      /\ w.doc \notin files
  BY <1>0, <1>1 DEF HandlerHolds
<1>3. PICK d \in documents : d.id = w.doc /\ d.row = w.row
  BY <1>0, <1>1 DEF HandlerHolds
<1>4. PICK u \in Work : Moves(r, u) /\ u.at = "removed"
  BY <1>0, AtMoves DEF DeleteDocument, Step
<1>5. \A e \in documents : e.id = w.doc => e.row = w.row
  BY <1>0, <1>3 DEF DocumentIds
<1>6. RowsHeld(u, documents', rows)
  <2>1. \A e \in documents' : \E x \in rows : x.id = e.row
    BY <1>0, <1>1 DEF RowsHeld
  <2>2. \A e, f \in documents' : e.row = f.row => e = f
    BY <1>0, <1>1 DEF RowsHeld
  <2>3. \A e \in documents', x \in rows : x.id = e.row => x.state = "USED"
    BY <1>0, <1>1 DEF RowsHeld
  <2>4. \A x \in rows : x.state = "USED" => \E e \in documents' : e.row = x.id
    BY <1>0, <1>1, <1>5 DEF RowsHeld, NumberFits
  <2> QED
    BY <2>1, <2>2, <2>3, <2>4 DEF RowsHeld
<1>7. FilesHeld(u, documents', files)
  BY <1>0, <1>1, <1>2 DEF FilesHeld
<1>8. HandlerHolds(u, documents', files, background) /\ NumberFits(u, rows)
  BY <1>4 DEF HandlerHolds, NumberFits
<1>9. TasksHold(documents', files, background)
  BY <1>0, <1>1, <1>2 DEF TasksHold
<1> QED
  BY <1>0, <1>1, <1>4, <1>6, <1>7, <1>8, <1>9, AloneMoves

(* No step is taken by a handler: a promise that nobody awaits settles.      *)
LEMMA SettleAlone ==
  ASSUME OneAtATime, OneInv, Numbered,
         UNCHANGED <<documents, files, work>>, background' \subseteq background
  PROVE  TableInv' /\ RestInv' /\ AloneInv' /\ DequeueInv'
<1>1. TableInv' /\ RestInv' /\ rows' = rows
  BY NumberedTable DEF OneInv
<1>2. PICK w \in Work : /\ \A r \in Requests : work[r] = w
                        /\ Requests = {} => w = Idle
                        /\ Alone(w, documents, files, background, rows)
  BY DEF OneInv, AloneInv
<1>3. Alone(w, documents', files', background', rows')
  BY <1>1, <1>2 DEF Alone, HandlerHolds, TasksHold
<1>4. AloneInv'
  BY <1>2, <1>3 DEF AloneInv
<1>5. DequeueInv'
  BY DEF OneInv, DequeueInv, Numbered, vars
<1> QED
  BY <1>1, <1>4, <1>5

LEMMA NothingIsRejected ==
  ASSUME OneInv, Failures \subseteq {"document", "copy"},
         NEW t \in background, Reject(t)
  PROVE  FALSE
<1>1. TasksHold(documents, files, background)
  BY DEF OneInv, AloneInv, Alone
<1>2. t.kind \in {"replaceText", "saveVariables"}
  BY DEF OneInv, TypedInv, DocumentTables, Task
<1> QED
  BY <1>1, <1>2 DEF TasksHold, Reject

(* No step but the reading of a document to be removed puts a row in line.   *)
LEMMA NoDequeue ==
  ASSUME OneAtATime, TypedInv', NEW r \in Requests, pc'[r] # "enqueue"
  PROVE  DequeueInv'
<1>1. Follows(work'[r].at, pc'[r], req'[r].op)
  BY DEF TypedInv, FollowsInv
<1>2. work'[r].at # "dequeue"
  BY <1>1 DEF Follows
<1> QED
  BY <1>2 DEF DequeueInv, OneAtATime

LEMMA ServeDequeue ==
  ASSUME OneAtATime, OneInv, TypedInv', NEW r \in Requests, ServeDocument(r)
  PROVE  DequeueInv'
<1>0. TypedInv /\ TypeInv
  BY DEF OneInv, TypedInv
<1>1. CASE Serve(r)
  BY <1>0, <1>1, ServesOne, NoDequeue
<1>2. CASE DocumentStep(r)
  <2>1. pc' = pc
    <3>1. CASE DropNumber(r) \/ UndoNumber(r)
      BY <3>1, DeleteNumberDeletes DEF DropNumber, UndoNumber
    <3>2. CASE ~ (DropNumber(r) \/ UndoNumber(r))
      BY <1>2, <3>2 DEF DocumentStep, SaveDocument, QueryDocument, CopyTemplate,
         LinkFile, UndoFile, UndoDocument, UnlinkFile, DeleteDocument, Numbered,
         vars
    <3> QED
      BY <3>1, <3>2
  <2>2. work[r].at \notin {"idle", "numbering", "dequeue"}
    BY <1>2 DEF DocumentStep, SaveDocument, QueryDocument, CopyTemplate, LinkFile,
       DropNumber, UndoFile, UndoDocument, UndoNumber, UnlinkFile, DeleteDocument
  <2>3. pc[r] = "done"
    BY <1>0, <2>2 DEF TypedInv, FollowsInv, Follows
  <2> QED
    BY <2>1, <2>3, NoDequeue
<1>3. Serve(r) \/ DocumentStep(r)
  <2>1. TakeNumber(r) \/ NumberGiven(r) \/ DequeueNumber(r) \/ Respond(r)
        \/ ServeReserve(r) => Serve(r)
    BY DEF TakeNumber, NumberGiven, DequeueNumber, Respond, ServeReserve, Serve
  <2> QED
    BY <2>1 DEF ServeDocument, DocumentStep
<1> QED
  BY <1>1, <1>2, <1>3

LEMMA OneStep ==
  ASSUME OneAtATime, Failures \subseteq {"document", "copy"}
  PROVE  OneInv /\ [DocumentsNext]_allVars => OneInv'
<1> SUFFICES ASSUME OneInv, [DocumentsNext]_allVars
             PROVE  OneInv'
  OBVIOUS
<1>0. TypedInv /\ MakingInv /\ TypeInv
  BY DEF OneInv, TypedInv
<1>1. TypedInv' /\ MakingInv'
  BY <1>0, TypedStep, MakingStep
<1> DEFINE Goal == TableInv' /\ RestInv' /\ AloneInv' /\ DequeueInv'
<1>2. ASSUME NEW r \in Requests, ServeDocument(r) PROVE Goal
  <2>1. DequeueInv'
    BY <1>1, <1>2, ServeDequeue
  <2>2. ~ DropNumber(r) /\ ~ UndoFile(r)
    BY OnlyHandler DEF HandlerHolds, DropNumber, UndoFile
  <2>3. TableInv' /\ RestInv' /\ AloneInv'
    BY <1>1, <1>2, <2>2, TakeNumberAlone, NumberGivenAlone, SaveDocumentAlone,
       QueryDocumentAlone, CopyTemplateAlone, LinkFileAlone, UndoDocumentAlone,
       UndoNumberAlone, DequeueNumberAlone, UnlinkFileAlone,
       DeleteDocumentAlone, RespondAlone
    DEF ServeDocument
  <2> QED
    BY <2>1, <2>3
<1>3. ASSUME NEW r \in Requests, NEW c \in Councils, NEW n \in Number,
             CreateDocument(r, c, n)
      PROVE  Goal
  <2>1. pc'[r] # "enqueue"
    BY <1>0, <1>3 DEF CreateDocument, BeginCreate, TypeInv, TypeOK
  <2> QED
    BY <1>1, <1>3, <2>1, CreateDocumentAlone, NoDequeue
<1>4. ASSUME NEW r \in Requests, NEW d \in documents, Removable(d),
             RemoveDocument(r, d)
      PROVE  Goal
  BY <1>4, RemoveDocumentAlone
<1>5. ASSUME NEW r \in Requests, ReserveNumbers(r) PROVE Goal
  <2>1. pc'[r] # "enqueue"
    BY <1>0, <1>5 DEF ReserveNumbers, BeginReserve, TypeInv, TypeOK
  <2> QED
    BY <1>1, <1>5, <2>1, TakeNumberAlone, NoDequeue
<1>6. ASSUME NEW t \in background, Settle(t) PROVE Goal
  BY <1>6, SettleAlone DEF Settle
<1>7. ASSUME UNCHANGED allVars PROVE Goal
  <2>1. Numbered /\ UNCHANGED <<documents, files, work, background>>
    BY <1>7 DEF allVars, documentVars, Numbered
  <2> QED
    BY <2>1, SettleAlone
<1>8. \A t \in background : ~ Reject(t)
  BY NothingIsRejected
<1> HIDE DEF Goal
<1>9. Goal
  BY <1>2, <1>3, <1>4, <1>5, <1>6, <1>7, <1>8 DEF DocumentsNext
<1> QED
  BY <1>1, <1>9 DEF OneInv, Goal

LEMMA OneInit == DocumentsInit => OneInv
<1> SUFFICES ASSUME DocumentsInit PROVE OneInv
  OBVIOUS
<1>1. TypedInv /\ MakingInv
  BY TypedInit, MakingInit
<1>2. TableInv
  BY SerialInit DEF DocumentsInit, SerialInv
<1>3. RestInv
  BY DEF DocumentsInit, Init, RestInv, NothingRead
<1>4. /\ rows = {} /\ documents = {} /\ files = {} /\ background = {}
      /\ \A r \in Requests : work[r] = Idle
  BY DEF DocumentsInit, Init
<1>5. DequeueInv
  BY <1>4, IdleTyped DEF DequeueInv
<1>6. Alone(Idle, documents, files, background, rows)
  BY <1>4, IdleTyped DEF Alone, NumberFits, RowsHeld, FilesHeld, HandlerHolds, TasksHold
<1>7. AloneInv
  BY <1>4, <1>6, IdleTyped DEF AloneInv
<1> QED
  BY <1>1, <1>2, <1>3, <1>5, <1>7 DEF OneInv

(* At rest nothing is left to be done.                                       *)
LEMMA AtRestHeld ==
  ASSUME OneInv, AtRest
  PROVE  /\ RowsHeld(Idle, documents, rows) /\ FilesHeld(Idle, documents, files)
<1>1. PICK w \in Work : /\ \A r \in Requests : work[r] = w
                        /\ Requests = {} => w = Idle
                        /\ Alone(w, documents, files, background, rows)
  BY DEF OneInv, AloneInv
<1>2. w = Idle
  BY <1>1 DEF AtRest
<1> QED
  BY <1>1, <1>2 DEF Alone

(* Whatever step of a creation fails it is undone: of requests served one at *)
(* a time, with creations refused for what they name and copies refused by   *)
(* Drive, none leaves a number in use without its document, a document       *)
(* without its file or a file without its document.                          *)
THEOREM CreationsAreUndone ==
  ASSUME OneAtATime, Failures \subseteq {"document", "copy"}
  PROVE  DocumentsSpec => []DocumentsInv
<1>1. OneInv => DocumentsInv
  <2> SUFFICES ASSUME OneInv PROVE DocumentsInv
    OBVIOUS
  <2>1. DocumentsTypeOK
    BY DEF OneInv, TypedInv, DocumentTables, DocumentsTypeOK, TypeInv
  <2>2. ASSUME AtRest
        PROVE  /\ \A x \in rows : x.state = "USED" => Held(x.id)
               /\ \A d \in documents : d.linked
               /\ \A d \in documents : d.id \in files
               /\ \A f \in files : \E d \in documents : d.id = f
    BY <2>2, AtRestHeld, IdleTyped DEF RowsHeld, FilesHeld, Held
  <2> QED
    BY <2>1, <2>2 DEF DocumentsInv, UsedHasDocument, FilesAreDocuments
<1>2. OneInv /\ [DocumentsNext]_allVars => OneInv'
  BY OneStep
<1> QED
  BY <1>1, <1>2, OneInit, PTL DEF DocumentsSpec

(* The number suggested for the next document is not that of a document that *)
(* is there, also after documents and rows were deleted in between.          *)
THEOREM SuggestionsAreFree ==
  ASSUME OneAtATime, Failures \subseteq {"document", "copy"}
  PROVE  DocumentsSpec => []SuggestedIsFree
<1>1. OneInv => SuggestedIsFree
  <2> SUFFICES ASSUME OneInv, AtRest, NEW c \in Councils, NEW n \in Number,
                      Suggests(c, n), NEW d \in documents,
                      NEW x \in InBook(ModuleOf[c]), d.row = x.id
               PROVE  x.number # n
    BY DEF SuggestedIsFree
  <2>1. x \in rows /\ x.book = ModuleOf[c]
    BY DEF InBook
  <2>2. x.state = "USED"
    BY <2>1, AtRestHeld, IdleTyped DEF RowsHeld
  <2>3. TypeInv /\ RowsInv /\ UniqueNumbers
    BY DEF OneInv, TypedInv, TableInv, UniqueInv, IdInv
  <2> QED
    BY <2>1, <2>2, <2>3, UsedNotSuggested
<1>2. OneInv /\ [DocumentsNext]_allVars => OneInv'
  BY OneStep
<1> QED
  BY <1>1, <1>2, OneInit, PTL DEF DocumentsSpec

(* The deletions of a creation that is undone, and the numbers put back in   *)
(* line by removals, never let a number of a book be given twice.            *)
THEOREM DocumentNumbersAreUnique ==
  ASSUME OneAtATime, Failures \subseteq {"document", "copy"}
  PROVE  DocumentsSpec => []UniqueNumbers
<1>1. OneInv => UniqueNumbers
  BY DEF OneInv, TableInv, UniqueInv
<1>2. OneInv /\ [DocumentsNext]_allVars => OneInv'
  BY OneStep
<1> QED
  BY <1>1, <1>2, OneInit, PTL DEF DocumentsSpec
===============================================================================

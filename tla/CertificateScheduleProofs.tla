----------------------- MODULE CertificateScheduleProofs -----------------------
(***************************************************************************)
(* What holds of CertificateSchedule for any rooms, functionaries and      *)
(* times asked for and any number of certificates, removals and requests.  *)
(***************************************************************************)
EXTENDS CertificateSchedule, TLAPS, FiniteSetTheorems

(* No two of the times asked for end at one minute, unless they are one.     *)
EndsDiffer ==
  \A s, t \in Slots :
    s.start + s.duration = t.start + t.duration => s.start = t.start

(* Nobody who attends changes roles.                                         *)
RolesKept == \A b \in Changes : b.role = "same"

(* A certificate is not removed twice at once.                               *)
OneRemoval ==
  \A r, s \in Requests :
    Doing(r, "delete") /\ Doing(s, "delete") /\ handler[r].cert = handler[s].cert
      => r = s

-------------------------------------------------------------------------------
(* Handlers, by what they are about.                                         *)
Creators == [at : {"room", "insert"}, slot : Slots]
Movers ==
  [at : {"moveRoom", "members", "move", "back"}, cert : Cells,
   read : Certificate, seats : SUBSET Seats, absent : SUBSET Seats,
   slot : Slots, closed : BOOLEAN]
Deleters == [at : {"delete"}, cert : Cells, seats : SUBSET Seats]
Strippers == [at : {"strip"}, cert : Cells]
Joiners == [at : {"free", "join"}, cert : Cells, who : Functionaries, role : Roles]
Changers ==
  [at : {"twice", "substitute", "attend", "limit", "change"},
   seat : Seats, read : Attendance, date : Nat, body : Changes]
Droppers == [at : {"drop"}, seat : Seats]

(* Where a handler awaits tells which it is.                                 *)
LEMMA WhereItAwaits ==
  ASSUME NEW h \in Handler
  PROVE  /\ h.at \in {"room", "insert"} => h \in Creators
         /\ h.at \in {"moveRoom", "members", "move", "back"} => h \in Movers
         /\ h.at = "delete" => h \in Deleters
         /\ h.at = "strip" => h \in Strippers
         /\ h.at \in {"free", "join"} => h \in Joiners
         /\ h.at \in {"twice", "substitute", "attend", "limit", "change"} =>
              h \in Changers
         /\ h.at = "drop" => h \in Droppers
         /\ h.at = "idle" => h = Idle
  BY DEF Handler, Creators, Movers, Deleters, Strippers, Joiners, Changers,
     Droppers, Idle

(* And each of them is a handler.                                            *)
LEMMA AreHandlers ==
  /\ Creators \subseteq Handler /\ Movers \subseteq Handler
  /\ Deleters \subseteq Handler /\ Strippers \subseteq Handler
  /\ Joiners \subseteq Handler /\ Changers \subseteq Handler
  /\ Droppers \subseteq Handler /\ Idle \in Handler
  BY DEF Handler, Creators, Movers, Deleters, Strippers, Joiners, Changers,
     Droppers, Idle

(* A handler that goes on is of the same kind, and knows the same.           *)
LEMMA GoesOn ==
  /\ \A h \in Creators, place \in {"room", "insert"} :
       LET g == [h EXCEPT !.at = place] IN
       g \in Creators /\ g.at = place /\ g.slot = h.slot
  /\ \A h \in Movers, place \in {"moveRoom", "members", "move", "back"} :
       LET g == [h EXCEPT !.at = place] IN
       /\ g \in Movers /\ g.at = place /\ g.cert = h.cert /\ g.read = h.read
       /\ g.seats = h.seats /\ g.absent = h.absent /\ g.slot = h.slot
       /\ g.closed = h.closed
  /\ \A h \in Joiners, place \in {"free", "join"} :
       LET g == [h EXCEPT !.at = place] IN
       /\ g \in Joiners /\ g.at = place /\ g.cert = h.cert /\ g.who = h.who
       /\ g.role = h.role
  /\ \A h \in Changers,
        place \in {"twice", "substitute", "attend", "limit", "change"} :
       LET g == [h EXCEPT !.at = place] IN
       /\ g \in Changers /\ g.at = place /\ g.seat = h.seat /\ g.read = h.read
       /\ g.date = h.date /\ g.body = h.body
  BY DEF Creators, Movers, Joiners, Changers

-------------------------------------------------------------------------------
(***************************************************************************)
(* Rows.                                                                   *)
(***************************************************************************)
(* A place taken is an attendance.                                           *)
LEMMA NoAttendanceIsNone == NoAttendance \notin Attendance
<1>1. \A x \in Attendance : "who" \in DOMAIN x
  BY DEF Attendance
<1>2. "who" \notin DOMAIN NoAttendance
  BY DEF NoAttendance
<1> QED
  BY <1>1, <1>2

LEMMA NoCertificateIsNone == NoCertificate \notin Certificate
  BY DEF NoCertificate, Certificate

LEMMA HeldTyped ==
  ASSUME ScheduleTypeOK
  PROVE  \A a \in Seats : a \in Held <=> attendances[a] \in Attendance
  BY NoAttendanceIsNone DEF ScheduleTypeOK, Held

LEMMA LiveTyped ==
  ASSUME ScheduleTypeOK
  PROVE  \A c \in Cells : Live(c) => certificates[c] \in Certificate
  BY DEF ScheduleTypeOK, Live, NoCertificate

(* The rows that are written.                                                *)
LEMMA WrittenTyped ==
  /\ Undated \in Certificate /\ Undated.start = NoDate /\ ~Undated.deleted
  /\ Removed \in Certificate /\ Removed.start = NoDate /\ Removed.deleted
  /\ \A c \in Cells, who \in Functionaries, role \in Roles :
       LET x == Seat(c, who, role) IN
       /\ x \in Attendance /\ x.of = c /\ x.who = who /\ x.role = role
       /\ ~x.attended
<1>1. \A x \in [start : Nat, duration : Nat, room : Rooms \cup {"none"},
                closed : BOOLEAN, deleted : BOOLEAN] :
        LET y == [x EXCEPT !.duration = DefaultDuration] IN
        y \in Certificate /\ y.start = x.start
  BY DEF Certificate, DefaultDuration
<1>2. \A x \in Certificate, deleted \in BOOLEAN :
        LET y == [x EXCEPT !.deleted = deleted] IN
        y \in Certificate /\ y.start = x.start /\ y.deleted = deleted
  BY DEF Certificate
<1>3. Undated \in Certificate /\ Undated.start = NoDate /\ ~Undated.deleted
  <2>1. PICK x : x = NoCertificate
    OBVIOUS
  <2>2. x \in [start : Nat, duration : Nat, room : Rooms \cup {"none"},
               closed : BOOLEAN, deleted : BOOLEAN]
        /\ x.start = NoDate
    BY <2>1 DEF NoCertificate, NoDate
  <2>3. PICK y : y = [x EXCEPT !.duration = DefaultDuration]
    OBVIOUS
  <2>4. y \in Certificate /\ y.start = NoDate
    BY <1>1, <2>2, <2>3
  <2>5. Undated = [y EXCEPT !.deleted = FALSE]
    BY <2>1, <2>3 DEF Undated
  <2> QED
    BY <1>2, <2>4, <2>5
<1>4. Removed \in Certificate /\ Removed.start = NoDate /\ Removed.deleted
  BY <1>2, <1>3 DEF Removed
<1>5. ASSUME NEW c \in Cells, NEW who \in Functionaries, NEW role \in Roles
      PROVE  LET x == Seat(c, who, role) IN
             /\ x \in Attendance /\ x.of = c /\ x.who = who /\ x.role = role
             /\ ~x.attended
  BY <1>5 DEF Seat, Attendance
<1> QED
  BY <1>3, <1>4, <1>5

(* The places of a certificate are places.                                   *)
LEMMA SeatsOfAre == \A c : SeatsOf(c) \subseteq Held /\ Held \subseteq Seats
  BY DEF SeatsOf, Held

-------------------------------------------------------------------------------
(***************************************************************************)
(* The types, and that one request at a time looks the schedule up.        *)
(***************************************************************************)
Alone == \A r, s \in Requests : Looking(r) /\ Looking(s) => r = s

OthersRest(r) == \A s \in Requests \ {r} : ~Looking(s)

LooksAt(h) == h.at \notin {"idle", "delete", "strip", "drop"}

TypesInv == ScheduleTypeOK /\ Alone

(* A request that looks, or may begin to, does so alone.                     *)
LEMMA LooksAlone ==
  ASSUME TypesInv, NEW r \in Requests
  PROVE  /\ Looking(r) => OthersRest(r)
         /\ Patient /\ MayLook(r) => OthersRest(r)
         /\ \A s \in Requests : Looking(s) <=> LooksAt(handler[s])
  BY DEF TypesInv, Alone, OthersRest, MayLook, Looking, LooksAt

LEMMA HandlerTyped ==
  ASSUME TypesInv, NEW r \in Requests
  PROVE  handler[r] \in Handler
  BY DEF TypesInv, ScheduleTypeOK

(* The types of the tables.                                                  *)
TablesTypeOK ==
  /\ certificates \in [Cells -> Certificate \cup {NoCertificate}]
  /\ attendances \in [Seats -> Attendance \cup {NoAttendance}]
  /\ removals \in 0..MaxRemovals

(* What a step has to show.                                                  *)
LEMMA Typed ==
  ASSUME TypesInv, NEW r \in Requests, NEW g \in Handler, Becomes(r, g),
         LooksAt(g) => OthersRest(r), TablesTypeOK'
  PROVE  TypesInv' /\ handler'[r] = g
                   /\ \A s \in Requests \ {r} : handler'[s] = handler[s]
<1>1. handler \in [Requests -> Handler]
  BY DEF TypesInv, ScheduleTypeOK
<1>2. /\ handler' \in [Requests -> Handler] /\ handler'[r] = g
      /\ \A s \in Requests \ {r} : handler'[s] = handler[s]
  BY <1>1 DEF Becomes
<1>3. Alone'
  BY <1>2 DEF TypesInv, Alone, OthersRest, LooksAt, Looking
<1> QED
  BY <1>2, <1>3 DEF TypesInv, ScheduleTypeOK, TablesTypeOK

LEMMA SameTables ==
  ASSUME TypesInv
  PROVE  /\ UNCHANGED certificates =>
              certificates' \in [Cells -> Certificate \cup {NoCertificate}]
         /\ UNCHANGED attendances =>
              attendances' \in [Seats -> Attendance \cup {NoAttendance}]
         /\ UNCHANGED removals \/ Removes => removals' \in 0..MaxRemovals
         /\ Unwritten => TablesTypeOK'
<1>1. /\ UNCHANGED certificates =>
              certificates' \in [Cells -> Certificate \cup {NoCertificate}]
      /\ UNCHANGED attendances =>
              attendances' \in [Seats -> Attendance \cup {NoAttendance}]
  BY DEF TypesInv, ScheduleTypeOK
<1>2. UNCHANGED removals \/ Removes => removals' \in 0..MaxRemovals
  BY ScheduleAssumption DEF TypesInv, ScheduleTypeOK, Removes
<1> QED
  BY <1>1, <1>2 DEF Unwritten, TablesTypeOK

(* A handler that only goes on, alone as it was.                             *)
LEMMA Onward ==
  ASSUME TypesInv, NEW r \in Requests, NEW h, h = handler[r], NEW place,
         Goes(r, place)
  PROVE  Becomes(r, [h EXCEPT !.at = place])
  BY DEF Goes, Becomes

(* What the writing operators write.                                         *)
LEMMA SavedTyped ==
  ASSUME TypesInv, NEW c \in Cells, NEW x \in Certificate, Save(c, x)
  PROVE  /\ certificates' \in [Cells -> Certificate \cup {NoCertificate}]
         /\ certificates'[c] = x
         /\ \A d \in Cells \ {c} : certificates'[d] = certificates[d]
  BY DEF TypesInv, ScheduleTypeOK, Save

LEMMA SeatsSavedTyped ==
  ASSUME TypesInv, NEW c \in Cells, NEW seats, SaveSeats(c, seats)
  PROVE  attendances' \in [Seats -> Attendance \cup {NoAttendance}]
<1> SUFFICES ASSUME NEW a \in Seats
             PROVE  attendances'[a] \in Attendance \cup {NoAttendance}
  BY DEF SaveSeats
<1>1. a \in Held => attendances[a] \in Attendance
  BY HeldTyped DEF TypesInv
<1>2. attendances[a] \in Attendance \cup {NoAttendance}
  BY DEF TypesInv, ScheduleTypeOK
<1>3. a \in Held => [attendances[a] EXCEPT !.of = c] \in Attendance
                    /\ [attendances[a] EXCEPT !.of = 0] \in Attendance
  BY <1>1 DEF Attendance
<1>4. a \in SeatsOf(c) => a \in Held
  BY DEF SeatsOf
<1> QED
  BY <1>2, <1>3, <1>4 DEF SaveSeats

-------------------------------------------------------------------------------
(***************************************************************************)
(* What each step does, and that it keeps the types.                       *)
(***************************************************************************)
(* All of a step of r but what it writes.                                    *)
StepOf(r) ==
  /\ TypesInv' /\ handler'[r] \in Handler
  /\ \A s \in Requests \ {r} : handler'[s] = handler[s]
  /\ LooksAt(handler[r]) \/ LooksAt(handler'[r]) => OthersRest(r)

SameSlot(h, g) == h \in Creators /\ g \in Creators /\ g.slot = h.slot

SameMove(h, g) ==
  /\ h \in Movers /\ g \in Movers
  /\ g.cert = h.cert /\ g.read = h.read /\ g.seats = h.seats
  /\ g.absent = h.absent /\ g.slot = h.slot /\ g.closed = h.closed

SameJoin(h, g) ==
  /\ h \in Joiners /\ g \in Joiners
  /\ g.cert = h.cert /\ g.who = h.who /\ g.role = h.role

SameChange(h, g) ==
  /\ h \in Changers /\ g \in Changers
  /\ g.seat = h.seat /\ g.read = h.read /\ g.date = h.date /\ g.body = h.body

LEMMA StepIs ==
  ASSUME TypesInv, NEW r \in Requests, NEW g \in Handler, Becomes(r, g),
         LooksAt(handler[r]) \/ LooksAt(g) => OthersRest(r), TablesTypeOK'
  PROVE  StepOf(r) /\ handler'[r] = g
  BY Typed DEF StepOf

(* A request that ends.                                                      *)
LEMMA EndIs ==
  ASSUME TypesInv, NEW r \in Requests, Ends(r), TablesTypeOK'
  PROVE  StepOf(r) /\ handler'[r] = Idle
<1>1. LooksAt(handler[r]) => OthersRest(r)
  BY LooksAlone
<1>2. ~LooksAt(Idle)
  BY DEF LooksAt, Idle
<1> QED
  BY <1>1, <1>2, AreHandlers, StepIs DEF Ends

LEMMA BeginCreateIs ==
  ASSUME Patient, TypesInv, NEW r \in Requests, NEW slot \in Slots,
         BeginCreate(r, slot)
  PROVE  StepOf(r) /\ handler'[r] \in Creators /\ handler'[r].at = "room"
<1>1. PICK g : g = [at |-> "room", slot |-> slot]
  OBVIOUS
<1>2. g \in Creators /\ g.at = "room"
  BY <1>1 DEF Creators
<1>3. OthersRest(r) /\ TablesTypeOK'
  BY LooksAlone, SameTables DEF BeginCreate
<1>4. Becomes(r, g)
  BY <1>1 DEF BeginCreate
<1> QED
  BY <1>2, <1>3, <1>4, StepIs, AreHandlers

LEMMA CheckRoomIs ==
  ASSUME TypesInv, NEW r \in Requests, CheckRoom(r)
  PROVE  /\ StepOf(r)
         /\ \/ handler'[r] = Idle
            \/ /\ SameSlot(handler[r], handler'[r]) /\ handler'[r].at = "insert"
               /\ ~RoomTaken(handler'[r].slot, {})
<1>1. PICK h : h = handler[r]
  OBVIOUS
<1>2. h \in Creators /\ h.at = "room"
  BY <1>1, HandlerTyped, WhereItAwaits DEF CheckRoom, Doing
<1>3. TablesTypeOK'
  BY SameTables DEF CheckRoom
<1>4. CASE RoomTaken(h.slot, {})
  BY <1>1, <1>3, <1>4, EndIs DEF CheckRoom
<1>5. CASE ~RoomTaken(h.slot, {})
  <2>1. PICK g : g = [h EXCEPT !.at = "insert"]
    OBVIOUS
  <2>2. g \in Creators /\ g.at = "insert" /\ g.slot = h.slot
    BY <1>2, <2>1, GoesOn
  <2>3. Becomes(r, g)
    BY <1>1, <1>5, <2>1, Onward DEF CheckRoom
  <2>4. OthersRest(r)
    BY <1>1, <1>2, LooksAlone DEF LooksAt
  <2>5. StepOf(r) /\ handler'[r] = g
    BY <1>3, <2>2, <2>3, <2>4, StepIs, AreHandlers
  <2> QED
    BY <1>1, <1>2, <1>5, <2>2, <2>5 DEF SameSlot
<1> QED
  BY <1>4, <1>5

(* What Scheduled makes of a certificate.                                    *)
LEMMA ScheduledIs ==
  ASSUME NEW r \in Requests, NEW slot \in Slots, slot = handler[r].slot,
         NEW x \in Certificate \cup {NoCertificate}
  PROVE  LET y == Scheduled(r, x) IN
         /\ y \in Certificate /\ y.start = slot.start
         /\ y.duration = slot.duration /\ y.room = slot.room
         /\ y.deleted = x.deleted /\ y.closed = x.closed
<1>1. slot \in [start : Nat \ {0}, duration : Nat \ {0}, room : Rooms]
  BY ScheduleAssumption
<1>2. x \in [start : Nat, duration : Nat, room : Rooms \cup {"none"},
             closed : BOOLEAN, deleted : BOOLEAN]
  <2>1. CASE x \in Certificate
    BY <2>1 DEF Certificate
  <2>2. CASE x = NoCertificate
    BY <2>2 DEF NoCertificate, NoDate
  <2> QED
    BY <2>1, <2>2
<1>3. PICK start : start = slot.start
  OBVIOUS
<1>4. PICK duration : duration = slot.duration
  OBVIOUS
<1>5. PICK room : room = slot.room
  OBVIOUS
<1>6. start \in Nat /\ duration \in Nat \ {0} /\ room \in Rooms
  BY <1>1, <1>3, <1>4, <1>5
<1>7. Scheduled(r, x) =
        [x EXCEPT !.start = start, !.duration = duration, !.room = room]
  BY <1>3, <1>4, <1>5 DEF Scheduled
<1> QED
  BY <1>2, <1>3, <1>4, <1>5, <1>6, <1>7 DEF Certificate

LEMMA InsertIs ==
  ASSUME TypesInv, NEW r \in Requests, NEW c \in Cells, Insert(r, c)
  PROVE  /\ StepOf(r) /\ handler'[r] = Idle
         /\ handler[r] \in Creators /\ handler[r].at = "insert"
         /\ certificates[c] = NoCertificate /\ UNCHANGED attendances
         /\ \E x \in Certificate :
              /\ Save(c, x) /\ ~x.deleted /\ ~x.closed
              /\ x.start = handler[r].slot.start
              /\ x.duration = handler[r].slot.duration
              /\ x.room = handler[r].slot.room
<1>1. PICK h : h = handler[r]
  OBVIOUS
<1>2. h \in Creators /\ h.at = "insert"
  BY <1>1, HandlerTyped, WhereItAwaits DEF Insert, Doing
<1>3. h.slot \in Slots
  BY <1>2 DEF Creators
<1>4. PICK y : y = Scheduled(r, NoCertificate)
  OBVIOUS
<1>5. /\ y \in Certificate /\ y.start = h.slot.start
      /\ y.duration = h.slot.duration /\ y.room = h.slot.room /\ ~y.closed
  BY <1>1, <1>3, <1>4, ScheduledIs DEF NoCertificate
<1>6. PICK x : x = [y EXCEPT !.deleted = FALSE]
  OBVIOUS
<1>7. /\ x \in Certificate /\ x.start = h.slot.start /\ ~x.deleted /\ ~x.closed
      /\ x.duration = h.slot.duration /\ x.room = h.slot.room
  BY <1>5, <1>6 DEF Certificate
<1>8. Save(c, x)
  BY <1>4, <1>6 DEF Insert
<1>9. TablesTypeOK'
  BY <1>7, <1>8, SavedTyped, SameTables DEF Insert, TablesTypeOK
<1> QED
  BY <1>1, <1>2, <1>7, <1>8, <1>9, EndIs DEF Insert, First, New

(* A move that goes on.                                                      *)
LEMMA MoveOn ==
  ASSUME TypesInv, NEW r \in Requests, handler[r] \in Movers, TablesTypeOK',
         NEW place \in {"members", "move", "back"}, Goes(r, place)
  PROVE  /\ StepOf(r) /\ SameMove(handler[r], handler'[r])
         /\ handler'[r].at = place
<1>1. PICK h : h = handler[r]
  OBVIOUS
<1>2. h \in Movers /\ LooksAt(h)
  BY <1>1 DEF Movers, LooksAt
<1>3. PICK g : g = [h EXCEPT !.at = place]
  OBVIOUS
<1>4. g \in Movers /\ g.at = place /\ SameMove(h, g)
  <2>1. /\ g \in Movers /\ g.at = place /\ g.cert = h.cert /\ g.read = h.read
        /\ g.seats = h.seats /\ g.absent = h.absent /\ g.slot = h.slot
        /\ g.closed = h.closed
    BY <1>2, <1>3 DEF Movers
  <2> QED
    BY <1>2, <2>1 DEF SameMove
<1>5. Becomes(r, g)
  BY <1>1, <1>3, Onward
<1>6. OthersRest(r)
  BY <1>1, <1>2, LooksAlone
<1>7. StepOf(r) /\ handler'[r] = g
  BY <1>4, <1>5, <1>6, StepIs, AreHandlers
<1> QED
  BY <1>1, <1>4, <1>7

LEMMA BeginMoveIs ==
  ASSUME Patient, TypesInv, NEW r \in Requests, NEW c \in Cells, NEW slot \in Slots,
         NEW closed \in BOOLEAN, BeginMove(r, c, slot, closed)
  PROVE  /\ StepOf(r) /\ handler'[r] \in Movers /\ handler'[r].at = "moveRoom"
         /\ Live(c) /\ handler'[r].cert = c /\ handler'[r].read = certificates[c]
         /\ handler'[r].seats = SeatsOf(c)
         /\ handler'[r].absent = SeatsOf(c) \ Present(c)
<1>1. PICK x : x = certificates[c]
  OBVIOUS
<1>2. PICK seats : seats = SeatsOf(c)
  OBVIOUS
<1>3. PICK absent : absent = SeatsOf(c) \ Present(c)
  OBVIOUS
<1>4. Live(c) /\ x \in Certificate
  BY <1>1, LiveTyped DEF BeginMove, TypesInv
<1>5. seats \subseteq Seats /\ absent \subseteq Seats
  BY <1>2, <1>3, SeatsOfAre
<1>6. PICK g : g = [at |-> "moveRoom", cert |-> c, read |-> x, seats |-> seats,
                    absent |-> absent, slot |-> slot, closed |-> closed]
  OBVIOUS
<1>7. /\ g \in Movers /\ g.at = "moveRoom" /\ g.cert = c /\ g.read = x
      /\ g.seats = seats /\ g.absent = absent
  BY <1>4, <1>5, <1>6 DEF Movers
<1>8. OthersRest(r) /\ TablesTypeOK'
  BY LooksAlone, SameTables DEF BeginMove
<1>9. Becomes(r, g)
  BY <1>1, <1>2, <1>3, <1>6 DEF BeginMove
<1>10. StepOf(r) /\ handler'[r] = g
  BY <1>7, <1>8, <1>9, StepIs, AreHandlers
<1> QED
  BY <1>1, <1>2, <1>3, <1>4, <1>7, <1>10

LEMMA CheckMoveRoomIs ==
  ASSUME TypesInv, NEW r \in Requests, CheckMoveRoom(r)
  PROVE  /\ StepOf(r) /\ SameMove(handler[r], handler'[r])
         /\ \/ handler'[r].at = "back"
            \/ /\ handler'[r].at = "members"
               /\ ~RoomTaken(handler'[r].slot, {handler'[r].cert})
<1>1. handler[r] \in Movers
  BY HandlerTyped, WhereItAwaits DEF CheckMoveRoom, Doing
<1>2. TablesTypeOK'
  BY SameTables DEF CheckMoveRoom
<1> QED
  BY <1>1, <1>2, MoveOn DEF CheckMoveRoom, SameMove

LEMMA CheckMembersIs ==
  ASSUME TypesInv, NEW r \in Requests, CheckMembers(r)
  PROVE  /\ StepOf(r) /\ SameMove(handler[r], handler'[r])
         /\ handler[r].at = "members"
         /\ \/ handler'[r].at = "back"
            \/ /\ handler'[r].at = "move"
               /\ \A a \in Held \cap (handler'[r].seats \ handler'[r].absent) :
                    ~Elsewhere(attendances[a].who, handler'[r].cert,
                               handler'[r].slot.start, handler'[r].slot.duration)
<1>1. handler[r] \in Movers
  BY HandlerTyped, WhereItAwaits DEF CheckMembers, Doing
<1>2. TablesTypeOK'
  BY SameTables DEF CheckMembers
<1>3. CASE Goes(r, "back")
  BY <1>1, <1>2, <1>3, MoveOn DEF CheckMembers, Doing
<1>4. CASE ~Goes(r, "back")
  <2>1. /\ Goes(r, "move")
        /\ \A a \in Held \cap (handler[r].seats \ handler[r].absent) :
             ~Elsewhere(attendances[a].who, handler[r].cert,
                        handler[r].slot.start, handler[r].slot.duration)
    BY <1>4 DEF CheckMembers
  <2>2. /\ StepOf(r) /\ SameMove(handler[r], handler'[r])
        /\ handler'[r].at = "move"
    BY <1>1, <1>2, <2>1, MoveOn
  <2> QED
    BY <2>1, <2>2 DEF SameMove, CheckMembers, Doing
<1> QED
  BY <1>3, <1>4

LEMMA SaveMoveIs ==
  ASSUME TypesInv, NEW r \in Requests, SaveMove(r)
  PROVE  /\ StepOf(r) /\ handler[r] \in Movers /\ handler[r].at = "move"
         /\ \/ handler'[r] = Idle
            \/ SameMove(handler[r], handler'[r]) /\ handler'[r].at = "back"
         /\ UNCHANGED attendances
         /\ \E x \in Certificate :
              /\ Save(handler[r].cert, x) /\ x.deleted = handler[r].read.deleted
              /\ x.closed = handler[r].closed
              /\ x.start = handler[r].slot.start
              /\ x.duration = handler[r].slot.duration
              /\ x.room = handler[r].slot.room
<1>1. PICK h : h = handler[r]
  OBVIOUS
<1>2. h \in Movers /\ h.at = "move"
  BY <1>1, HandlerTyped, WhereItAwaits DEF SaveMove, Doing
<1>3. h.slot \in Slots /\ h.read \in Certificate /\ h.closed \in BOOLEAN
      /\ h.cert \in Cells
  BY <1>2 DEF Movers
<1>4. PICK y : y = Scheduled(r, h.read)
  OBVIOUS
<1>5. /\ y \in Certificate /\ y.start = h.slot.start
      /\ y.duration = h.slot.duration /\ y.room = h.slot.room
      /\ y.deleted = h.read.deleted
  BY <1>1, <1>3, <1>4, ScheduledIs
<1>6. PICK closed : closed = h.closed
  OBVIOUS
<1>7. PICK x : x = [y EXCEPT !.closed = closed]
  OBVIOUS
<1>8. /\ x \in Certificate /\ x.start = h.slot.start /\ x.closed = h.closed
      /\ x.duration = h.slot.duration /\ x.room = h.slot.room
      /\ x.deleted = h.read.deleted
  BY <1>3, <1>5, <1>6, <1>7 DEF Certificate
<1>9. Save(h.cert, x)
  BY <1>1, <1>4, <1>6, <1>7 DEF SaveMove
<1>10. TablesTypeOK'
  BY <1>3, <1>8, <1>9, SavedTyped, SameTables DEF SaveMove, TablesTypeOK
<1>11. CASE Ends(r)
  BY <1>1, <1>2, <1>8, <1>9, <1>10, <1>11, EndIs DEF SaveMove
<1>12. CASE Goes(r, "back")
  BY <1>1, <1>2, <1>8, <1>9, <1>10, <1>12, MoveOn DEF SaveMove
<1> QED
  BY <1>11, <1>12 DEF SaveMove

LEMMA SaveBackIs ==
  ASSUME TypesInv, NEW r \in Requests, SaveBack(r)
  PROVE  /\ StepOf(r) /\ handler'[r] = Idle
         /\ handler[r] \in Movers /\ handler[r].at = "back"
         /\ Save(handler[r].cert, handler[r].read)
         /\ SaveSeats(handler[r].cert, handler[r].seats)
<1>1. PICK h : h = handler[r]
  OBVIOUS
<1>2. h \in Movers /\ h.at = "back"
  BY <1>1, HandlerTyped, WhereItAwaits DEF SaveBack, Doing
<1>3. h.read \in Certificate /\ h.cert \in Cells
  BY <1>2 DEF Movers
<1>4. Save(h.cert, h.read) /\ SaveSeats(h.cert, h.seats)
  BY <1>1 DEF SaveBack
<1>5. TablesTypeOK'
  BY <1>3, <1>4, SavedTyped, SeatsSavedTyped, SameTables DEF SaveBack, TablesTypeOK
<1> QED
  BY <1>1, <1>2, <1>4, <1>5, EndIs DEF SaveBack

LEMMA BeginRemovalIs ==
  ASSUME TypesInv, NEW r \in Requests, NEW c \in Cells, BeginRemoval(r, c)
  PROVE  /\ StepOf(r) /\ handler'[r] \in Deleters
         /\ Live(c) /\ handler'[r].cert = c /\ handler'[r].seats = SeatsOf(c)
<1>1. PICK seats : seats = SeatsOf(c)
  OBVIOUS
<1>2. PICK g : g = [at |-> "delete", cert |-> c, seats |-> seats]
  OBVIOUS
<1>3. seats \subseteq Seats
  BY <1>1, SeatsOfAre
<1>4. g \in Deleters /\ g.cert = c /\ g.seats = seats /\ ~LooksAt(g)
  BY <1>2, <1>3 DEF Deleters, LooksAt
<1>5. TablesTypeOK'
  BY SameTables DEF BeginRemoval, TablesTypeOK
<1>6. Becomes(r, g)
  BY <1>1, <1>2 DEF BeginRemoval
<1>7. ~LooksAt(handler[r])
  BY DEF BeginRemoval, MayBegin, Free, LooksAt
<1>8. StepOf(r) /\ handler'[r] = g
  BY <1>4, <1>5, <1>6, <1>7, StepIs, AreHandlers
<1> QED
  BY <1>1, <1>4, <1>8 DEF BeginRemoval

LEMMA DeleteIs ==
  ASSUME TypesInv, NEW r \in Requests, Delete(r)
  PROVE  /\ StepOf(r) /\ handler[r] \in Deleters /\ handler'[r] \in Strippers
         /\ Save(handler[r].cert, Removed)
         /\ SaveSeats(handler[r].cert, handler[r].seats)
<1>1. PICK h : h = handler[r]
  OBVIOUS
<1>2. h \in Deleters /\ ~LooksAt(h)
  BY <1>1, HandlerTyped, WhereItAwaits DEF Delete, Doing, LooksAt
<1>3. h.cert \in Cells
  BY <1>2 DEF Deleters
<1>4. Save(h.cert, Removed) /\ SaveSeats(h.cert, h.seats)
  BY <1>1 DEF Delete
<1>5. TablesTypeOK'
  BY <1>3, <1>4, WrittenTyped, SavedTyped, SeatsSavedTyped, SameTables
  DEF Delete, TablesTypeOK
<1>6. PICK g : g = [at |-> "strip", cert |-> h.cert]
  OBVIOUS
<1>7. g \in Strippers /\ ~LooksAt(g)
  BY <1>3, <1>6 DEF Strippers, LooksAt
<1>8. Becomes(r, g)
  BY <1>1, <1>6 DEF Delete
<1>9. StepOf(r) /\ handler'[r] = g
  BY <1>1, <1>2, <1>5, <1>7, <1>8, StepIs, AreHandlers
<1> QED
  BY <1>1, <1>2, <1>4, <1>7, <1>9

LEMMA StripIs ==
  ASSUME TypesInv, NEW r \in Requests, Strip(r)
  PROVE  StepOf(r) /\ handler'[r] = Idle
<1>1. \A a \in Seats : attendances'[a] \in {attendances[a], NoAttendance}
  BY DEF Strip
<1>2. attendances' \in [Seats -> Attendance \cup {NoAttendance}]
  BY <1>1 DEF Strip, TypesInv, ScheduleTypeOK
<1>3. TablesTypeOK'
  BY <1>2, SameTables DEF Strip, TablesTypeOK
<1> QED
  BY <1>3, EndIs DEF Strip

LEMMA BeginJoinIs ==
  ASSUME Patient, TypesInv, NEW r \in Requests, NEW c \in Cells, NEW j \in Joins,
         BeginJoin(r, c, j.who, j.role)
  PROVE  /\ StepOf(r) /\ handler'[r] \in Joiners
         /\ Live(c) /\ handler'[r].cert = c
         /\ \A a \in SeatsOf(c) : attendances[a].who # handler'[r].who
<1>1. PICK who : who = j.who
  OBVIOUS
<1>2. PICK role : role = j.role
  OBVIOUS
<1>3. who \in Functionaries /\ role \in Roles
  BY <1>1, <1>2, ScheduleAssumption
<1>4. PICK g : g = [at |-> "free", cert |-> c, who |-> who, role |-> role]
  OBVIOUS
<1>5. g \in Joiners /\ g.cert = c /\ g.who = who
  BY <1>3, <1>4 DEF Joiners
<1>6. OthersRest(r) /\ TablesTypeOK'
  BY LooksAlone, SameTables DEF BeginJoin
<1>7. Becomes(r, g)
  BY <1>1, <1>2, <1>4 DEF BeginJoin
<1>8. StepOf(r) /\ handler'[r] = g
  BY <1>5, <1>6, <1>7, StepIs, AreHandlers
<1> QED
  BY <1>1, <1>5, <1>8 DEF BeginJoin

LEMMA CheckFreeIs ==
  ASSUME TypesInv, NEW r \in Requests, CheckFree(r)
  PROVE  /\ StepOf(r)
         /\ handler'[r] = Idle \/ SameJoin(handler[r], handler'[r])
<1>1. PICK h : h = handler[r]
  OBVIOUS
<1>2. h \in Joiners /\ LooksAt(h)
  BY <1>1, HandlerTyped, WhereItAwaits DEF CheckFree, Doing, LooksAt
<1>3. TablesTypeOK'
  BY SameTables DEF CheckFree
<1>4. CASE Goes(r, "join")
  <2>1. PICK g : g = [h EXCEPT !.at = "join"]
    OBVIOUS
  <2>2. g \in Joiners /\ g.cert = h.cert /\ g.who = h.who /\ g.role = h.role
    BY <1>2, <2>1, GoesOn
  <2>3. Becomes(r, g) /\ OthersRest(r)
    BY <1>1, <1>2, <1>4, <2>1, Onward, LooksAlone
  <2>4. StepOf(r) /\ handler'[r] = g
    BY <1>3, <2>2, <2>3, StepIs, AreHandlers
  <2> QED
    BY <1>1, <1>2, <2>2, <2>4 DEF SameJoin
<1> QED
  BY <1>3, <1>4, EndIs DEF CheckFree

LEMMA JoinIs ==
  ASSUME TypesInv, NEW r \in Requests, NEW a \in Seats, Join(r, a)
  PROVE  /\ StepOf(r) /\ handler'[r] = Idle /\ handler[r] \in Joiners
         /\ a \notin Held /\ a \notin Remembered
         /\ \E x \in Attendance :
              /\ attendances' = [attendances EXCEPT ![a] = x]
              /\ x.of = handler[r].cert /\ x.who = handler[r].who /\ ~x.attended
<1>1. PICK h : h = handler[r]
  OBVIOUS
<1>2. h \in Joiners
  BY <1>1, HandlerTyped, WhereItAwaits DEF Join, Doing
<1>3. h.cert \in Cells /\ h.who \in Functionaries /\ h.role \in Roles
  BY <1>2 DEF Joiners
<1>4. PICK x : x = Seat(h.cert, h.who, h.role)
  OBVIOUS
<1>5. x \in Attendance /\ x.of = h.cert /\ x.who = h.who /\ ~x.attended
  BY <1>3, <1>4, WrittenTyped
<1>6. attendances' = [attendances EXCEPT ![a] = x]
  BY <1>1, <1>4 DEF Join
<1>7. attendances' \in [Seats -> Attendance \cup {NoAttendance}]
  BY <1>5, <1>6 DEF TypesInv, ScheduleTypeOK
<1>8. TablesTypeOK'
  BY <1>7, SameTables DEF Join, TablesTypeOK
<1> QED
  BY <1>1, <1>2, <1>5, <1>6, <1>8, EndIs DEF Join, First

LEMMA BeginChangeIs ==
  ASSUME Patient, TypesInv, NEW r \in Requests, NEW a \in Seats, NEW body \in Changes,
         BeginChange(r, a, body)
  PROVE  /\ StepOf(r) /\ handler'[r] \in Changers /\ handler'[r].at = "twice"
         /\ a \in Held /\ attendances[a].of # 0
         /\ handler'[r].seat = a /\ handler'[r].read = attendances[a]
<1>1. PICK x : x = attendances[a]
  OBVIOUS
<1>2. a \in Held /\ x \in Attendance /\ x.of # 0
  BY <1>1, HeldTyped DEF BeginChange, TypesInv
<1>3. x.of \in Cells
  BY <1>2 DEF Attendance
<1>4. PICK date : date = certificates[attendances[a].of].start
  OBVIOUS
<1>5. date \in Nat
  <2>1. certificates[x.of] \in Certificate \cup {NoCertificate}
    BY <1>3 DEF TypesInv, ScheduleTypeOK
  <2> QED
    BY <1>1, <1>4, <2>1 DEF Certificate, NoCertificate, NoDate
<1>6. PICK g : g = [at |-> "twice", seat |-> a, read |-> x, date |-> date,
                    body |-> body]
  OBVIOUS
<1>7. g \in Changers /\ g.at = "twice" /\ g.seat = a /\ g.read = x
  BY <1>2, <1>5, <1>6 DEF Changers
<1>8. OthersRest(r) /\ TablesTypeOK'
  BY LooksAlone, SameTables DEF BeginChange
<1>9. Becomes(r, g)
  BY <1>1, <1>4, <1>6 DEF BeginChange
<1>10. StepOf(r) /\ handler'[r] = g
  BY <1>7, <1>8, <1>9, StepIs, AreHandlers
<1> QED
  BY <1>1, <1>2, <1>7, <1>10

(* A change that goes on.                                                    *)
LEMMA ChangeOn ==
  ASSUME TypesInv, NEW r \in Requests, handler[r] \in Changers, TablesTypeOK',
         NEW place \in {"substitute", "attend", "limit", "change"}, Goes(r, place)
  PROVE  /\ StepOf(r) /\ SameChange(handler[r], handler'[r])
         /\ handler'[r].at = place
<1>1. PICK h : h = handler[r]
  OBVIOUS
<1>2. h \in Changers /\ LooksAt(h)
  BY <1>1 DEF Changers, LooksAt
<1>3. PICK g : g = [h EXCEPT !.at = place]
  OBVIOUS
<1>4. g \in Changers /\ g.at = place /\ SameChange(h, g)
  <2>1. /\ g \in Changers /\ g.at = place /\ g.seat = h.seat /\ g.read = h.read
        /\ g.date = h.date /\ g.body = h.body
    BY <1>2, <1>3 DEF Changers
  <2> QED
    BY <1>2, <2>1 DEF SameChange
<1>5. Becomes(r, g)
  BY <1>1, <1>3, Onward
<1>6. OthersRest(r)
  BY <1>1, <1>2, LooksAlone
<1>7. StepOf(r) /\ handler'[r] = g
  BY <1>4, <1>5, <1>6, StepIs, AreHandlers
<1> QED
  BY <1>1, <1>4, <1>7

LEMMA CheckTwiceIs ==
  ASSUME TypesInv, NEW r \in Requests, CheckTwice(r)
  PROVE  /\ StepOf(r)
         /\ \/ handler'[r] = Idle
            \/ /\ SameChange(handler[r], handler'[r])
               /\ handler'[r].at = "substitute"
               /\ \A a \in SeatsOf(handler'[r].read.of) \ {handler'[r].seat} :
                    attendances[a].who # handler'[r].body.who
<1>1. handler[r] \in Changers
  BY HandlerTyped, WhereItAwaits DEF CheckTwice, Doing
<1>2. TablesTypeOK'
  BY SameTables DEF CheckTwice
<1>3. CASE Ends(r)
  BY <1>2, <1>3, EndIs
<1>4. CASE ~Ends(r)
  <2>1. /\ Goes(r, "substitute")
        /\ \A a \in SeatsOf(handler[r].read.of) \ {handler[r].seat} :
             attendances[a].who # handler[r].body.who
    BY <1>4 DEF CheckTwice
  <2>2. /\ StepOf(r) /\ SameChange(handler[r], handler'[r])
        /\ handler'[r].at = "substitute"
    BY <1>1, <1>2, <2>1, ChangeOn
  <2> QED
    BY <2>1, <2>2 DEF SameChange
<1> QED
  BY <1>3, <1>4

LEMMA CheckSubstituteIs ==
  ASSUME TypesInv, NEW r \in Requests, CheckSubstitute(r)
  PROVE  /\ StepOf(r)
         /\ \/ handler'[r] = Idle
            \/ /\ SameChange(handler[r], handler'[r])
               /\ handler[r].at = "substitute"
               /\ \/ handler'[r].at = "attend"
                  \/ /\ handler'[r].at = "change"
                     /\ handler'[r].body.attended = "same"
<1>1. handler[r] \in Changers
  BY HandlerTyped, WhereItAwaits DEF CheckSubstitute, Doing
<1>2. TablesTypeOK'
  BY SameTables DEF CheckSubstitute
<1>3. CASE Ends(r)
  BY <1>2, <1>3, EndIs
<1>4. CASE Goes(r, "change") /\ handler[r].body.attended = "same"
  BY <1>1, <1>2, <1>4, ChangeOn DEF SameChange, CheckSubstitute, Doing
<1>5. CASE Goes(r, "attend")
  BY <1>1, <1>2, <1>5, ChangeOn DEF CheckSubstitute, Doing
<1> QED
  BY <1>3, <1>4, <1>5 DEF CheckSubstitute

LEMMA CheckAttendIs ==
  ASSUME TypesInv, NEW r \in Requests, CheckAttend(r)
  PROVE  /\ StepOf(r)
         /\ \/ handler'[r] = Idle
            \/ /\ SameChange(handler[r], handler'[r])
               /\ handler[r].at = "attend" /\ handler'[r].at = "limit"
               /\ LET h == handler'[r]  x == certificates[h.read.of] IN
                  h.body.attended = "yes" =>
                    ~Elsewhere(h.read.who, h.read.of, x.start, x.duration)
<1>1. handler[r] \in Changers
  BY HandlerTyped, WhereItAwaits DEF CheckAttend, Doing
<1>2. TablesTypeOK'
  BY SameTables DEF CheckAttend
<1>3. CASE Ends(r)
  BY <1>2, <1>3, EndIs
<1>4. CASE ~Ends(r)
  <2>1. /\ Goes(r, "limit") /\ handler[r].at = "attend"
        /\ LET h == handler[r]  x == certificates[h.read.of] IN
           h.body.attended = "yes" =>
             ~Elsewhere(h.read.who, h.read.of, x.start, x.duration)
    BY <1>4 DEF CheckAttend, Doing
  <2>2. /\ StepOf(r) /\ SameChange(handler[r], handler'[r])
        /\ handler'[r].at = "limit"
    BY <1>1, <1>2, <2>1, ChangeOn
  <2> QED
    BY <2>1, <2>2 DEF SameChange
<1> QED
  BY <1>3, <1>4

LEMMA CheckLimitIs ==
  ASSUME TypesInv, NEW r \in Requests, CheckLimit(r)
  PROVE  /\ StepOf(r)
         /\ \/ handler'[r] = Idle
            \/ /\ SameChange(handler[r], handler'[r])
               /\ handler[r].at = "limit" /\ handler'[r].at = "change"
               /\ LET h == handler'[r] IN
                  /\ Counted(h.read.of)
                  /\ h.body.attended = "yes" /\ h.read.role \in Members =>
                       ~(Cardinality(PresentMembers(h.read.of) \ {h.seat}) >= Limit)
<1>1. handler[r] \in Changers
  BY HandlerTyped, WhereItAwaits DEF CheckLimit, Doing
<1>2. TablesTypeOK'
  BY SameTables DEF CheckLimit
<1>3. CASE Ends(r)
  BY <1>2, <1>3, EndIs
<1>4. CASE ~Ends(r)
  <2>1. /\ Goes(r, "change") /\ handler[r].at = "limit"
        /\ LET h == handler[r] IN
           /\ Counted(h.read.of)
           /\ h.body.attended = "yes" /\ h.read.role \in Members =>
                ~(Cardinality(PresentMembers(h.read.of) \ {h.seat}) >= Limit)
    BY <1>4 DEF CheckLimit, Doing
  <2>2. /\ StepOf(r) /\ SameChange(handler[r], handler'[r])
        /\ handler'[r].at = "change"
    BY <1>1, <1>2, <2>1, ChangeOn
  <2> QED
    BY <2>1, <2>2 DEF SameChange
<1> QED
  BY <1>3, <1>4

(* What Changed makes of an attendance.                                      *)
LEMMA ChangedIs ==
  ASSUME NEW h \in Changers, NEW x \in Attendance
  PROVE  LET y == Changed(h, x) IN
         /\ y \in Attendance /\ y.of = x.of
         /\ y.who = Given(h.body.who, x.who) /\ y.role = Given(h.body.role, x.role)
         /\ y.attended = (~Substitutes(h) /\ Flag(h.body.attended, x.attended))
<1>1. h.body \in Change
  BY ScheduleAssumption DEF Changers
<1>2. PICK role : role = Given(h.body.role, x.role)
  OBVIOUS
<1>3. PICK who : who = Given(h.body.who, x.who)
  OBVIOUS
<1>4. role \in Roles /\ who \in Functionaries
  <2>1. h.body.role \in Roles \cup {"same"} /\ h.body.who \in Functionaries \cup {"same"}
        /\ x.role \in Roles /\ x.who \in Functionaries
    BY <1>1 DEF Change, Attendance
  <2> QED
    BY <1>2, <1>3, <2>1 DEF Given
<1>5. PICK attended \in BOOLEAN :
        attended = (~Substitutes(h) /\ Flag(h.body.attended, x.attended))
  OBVIOUS
<1>6. PICK notified \in BOOLEAN :
        notified = (~Substitutes(h) /\ Flag(h.body.notified, x.notified))
  OBVIOUS
<1>7. Changed(h, x) = [x EXCEPT !.role = role, !.who = who,
                                !.attended = attended, !.notified = notified]
  BY <1>2, <1>3, <1>5, <1>6 DEF Changed
<1> QED
  BY <1>2, <1>3, <1>4, <1>5, <1>7 DEF Attendance

LEMMA SaveChangeIs ==
  ASSUME TypesInv, NEW r \in Requests, SaveChange(r)
  PROVE  /\ StepOf(r) /\ handler'[r] = Idle
         /\ handler[r] \in Changers /\ handler[r].at = "change"
         /\ \A a \in Seats \ {handler[r].seat} : attendances'[a] = attendances[a]
         /\ LET a == handler[r].seat IN
            IF a \in Held THEN attendances'[a] = Changed(handler[r], attendances[a])
                          ELSE attendances'[a] = NoAttendance
<1>1. PICK h : h = handler[r]
  OBVIOUS
<1>2. h \in Changers /\ h.at = "change"
  BY <1>1, HandlerTyped, WhereItAwaits DEF SaveChange, Doing
<1>3. PICK a \in Seats : a = h.seat
  BY <1>2 DEF Changers
<1>4. PICK x : x = attendances[a]
  OBVIOUS
<1>5. x \in Attendance \cup {NoAttendance} /\ (a \in Held <=> x # NoAttendance)
  BY <1>4 DEF TypesInv, ScheduleTypeOK, Held
<1>6. PICK y : y = IF x = NoAttendance THEN x ELSE Changed(h, x)
  OBVIOUS
<1>7. y \in Attendance \cup {NoAttendance}
  <2>1. CASE x = NoAttendance
    BY <1>6, <2>1
  <2>2. CASE x # NoAttendance
    <3>1. x \in Attendance /\ y = Changed(h, x)
      BY <1>5, <1>6, <2>2
    <3> QED
      BY <1>2, <3>1, ChangedIs
  <2> QED
    BY <2>1, <2>2
<1>8. attendances' = [attendances EXCEPT ![a] = y]
  BY <1>1, <1>3, <1>4, <1>6 DEF SaveChange
<1>9. /\ attendances' \in [Seats -> Attendance \cup {NoAttendance}]
      /\ attendances'[a] = y
      /\ \A b \in Seats \ {a} : attendances'[b] = attendances[b]
  BY <1>7, <1>8 DEF TypesInv, ScheduleTypeOK
<1>10. TablesTypeOK'
  BY <1>9, SameTables DEF SaveChange, TablesTypeOK
<1>11. Ends(r)
  BY DEF SaveChange
<1>12. StepOf(r) /\ handler'[r] = Idle
  BY <1>10, <1>11, EndIs
<1> QED
  BY <1>1, <1>2, <1>3, <1>4, <1>5, <1>6, <1>9, <1>12

LEMMA BeginDropIs ==
  ASSUME TypesInv, NEW r \in Requests, NEW a \in Seats, BeginDrop(r, a)
  PROVE  StepOf(r) /\ handler'[r] \in Droppers
<1>1. PICK g : g = [at |-> "drop", seat |-> a]
  OBVIOUS
<1>2. g \in Droppers /\ ~LooksAt(g)
  BY <1>1 DEF Droppers, LooksAt
<1>3. TablesTypeOK'
  BY SameTables DEF BeginDrop, TablesTypeOK
<1>4. Becomes(r, g)
  BY <1>1 DEF BeginDrop
<1>5. ~LooksAt(handler[r])
  BY DEF BeginDrop, MayBegin, Free, LooksAt
<1> QED
  BY <1>2, <1>3, <1>4, <1>5, StepIs, AreHandlers

LEMMA DropIs ==
  ASSUME TypesInv, NEW r \in Requests, Drop(r)
  PROVE  StepOf(r) /\ handler'[r] = Idle
<1>1. \A a \in Seats : attendances'[a] \in {attendances[a], NoAttendance}
  BY DEF Drop, TypesInv, ScheduleTypeOK
<1>2. attendances' \in [Seats -> Attendance \cup {NoAttendance}]
  BY <1>1 DEF Drop, TypesInv, ScheduleTypeOK
<1>3. TablesTypeOK'
  BY <1>2, SameTables DEF Drop, TablesTypeOK
<1> QED
  BY <1>3, EndIs DEF Drop

(* A certificate without a date is made at once.                             *)
LEMMA CreateUndatedIs ==
  ASSUME TypesInv, NEW r \in Requests, NEW c \in Cells, CreateUndated(r, c)
  PROVE  /\ TypesInv' /\ Save(c, Undated) /\ certificates[c] = NoCertificate
<1>1. TablesTypeOK'
  BY WrittenTyped, SavedTyped, SameTables DEF CreateUndated, TablesTypeOK
<1> QED
  BY <1>1 DEF CreateUndated, First, New, TypesInv, ScheduleTypeOK, TablesTypeOK,
     Alone, Looking

-------------------------------------------------------------------------------
(***************************************************************************)
(* Rooms (RoomNotShared).                                                  *)
(***************************************************************************)
(* A certificate that has a date has one of the times asked for.             *)
Timed(x) ==
  x.start # NoDate =>
    \E s \in Slots : x.start = s.start /\ x.duration = s.duration

(* No open certificate but c is in the room of x at its time.                *)
Vacant(x, c) ==
  \A d \in Open \ {c} :
    certificates[d].room = x.room => ~Shares(certificates[d], x)

(* What a handler found vacant still is, and what it has read of an open     *)
(* certificate is still its own.                                             *)
RoomKept(h) ==
  /\ h.at = "insert" => Vacant(h.slot, 0)
  /\ h \in Movers =>
       /\ ~h.read.deleted /\ Timed(h.read)
       /\ h.read.closed \/ Vacant(h.read, h.cert)
       /\ h.at \in {"members", "move"} => Vacant(h.slot, h.cert)

RoomInv ==
  /\ TypesInv /\ RoomNotShared
  /\ \A c \in Cells : Timed(certificates[c])
  /\ \A r \in Requests : RoomKept(handler[r])

(* The open certificates that have a date are of those there were.           *)
Fewer ==
  \A c \in Open' :
    \/ certificates'[c].start = NoDate
    \/ c \in Open /\ certificates'[c] = certificates[c]

LEMMA VacantStays ==
  ASSUME Fewer, NEW x, NEW c, Vacant(x, c)
  PROVE  Vacant(x, c)'
  BY DEF Fewer, Vacant, Shares

LEMMA FewerRooms ==
  ASSUME Fewer, RoomNotShared
  PROVE  RoomNotShared'
  BY DEF Fewer, RoomNotShared, Shares

(* Two times that share a minute are seen by the query.                      *)
LEMMA NotMet ==
  ASSUME EndsDiffer, NEW x \in Certificate \cup {NoCertificate}, Timed(x),
         NEW s \in Slots, ~Meets(x, s.start, s.duration)
  PROVE  ~Shares(x, s)
<1> SUFFICES ASSUME Shares(x, s) PROVE FALSE
  OBVIOUS
<1>1. s.start \in Nat \ {0} /\ s.duration \in Nat \ {0}
  BY ScheduleAssumption
<1>2. PICK t \in Slots : x.start = t.start /\ x.duration = t.duration
  BY DEF Shares, Timed
<1>3. t.start \in Nat \ {0} /\ t.duration \in Nat \ {0}
  BY ScheduleAssumption
<1>4. t.start + t.duration = s.start + s.duration => t.start = s.start
  BY DEF EndsDiffer
<1> QED
  BY <1>1, <1>2, <1>3, <1>4 DEF Shares, Meets, NoDate

LEMMA FreeRoom ==
  ASSUME EndsDiffer, RoomInv, NEW slot \in Slots, NEW except, NEW c,
         except \subseteq {c}, ~RoomTaken(slot, except)
  PROVE  Vacant(slot, c)
<1> SUFFICES ASSUME NEW d \in Open \ {c}, certificates[d].room = slot.room
             PROVE  ~Shares(certificates[d], slot)
  BY DEF Vacant
<1>1. d \in Cells \ except /\ Counted(d)
  BY DEF Open
<1>2. ~Meets(certificates[d], slot.start, slot.duration)
  BY <1>1 DEF RoomTaken
<1>3. certificates[d] \in Certificate \cup {NoCertificate} /\ Timed(certificates[d])
  BY <1>1 DEF RoomInv, TypesInv, ScheduleTypeOK
<1> QED
  BY <1>2, <1>3, NotMet

(* Vacant looks at the room and the time.                                    *)
LEMMA VacantLike ==
  ASSUME NEW x, NEW y, NEW c, NEW d, c \in {0, d}, Vacant(x, c),
         y.start = x.start, y.duration = x.duration, y.room = x.room
  PROVE  Vacant(y, d)
<1>1. Open \subseteq Cells /\ 0 \notin Cells
  BY DEF Open, Cells
<1> QED
  BY <1>1 DEF Vacant, Shares

(* Where one row alone changes.                                              *)
OnlyAt(c) == \A d \in Cells \ {c} : certificates'[d] = certificates[d]

LEMMA VacantBut ==
  ASSUME NEW c, OnlyAt(c), NEW x, Vacant(x, c)
  PROVE  Vacant(x, c)'
  BY DEF OnlyAt, Vacant, Open, Counted, Live

LEMMA RoomOfOne ==
  ASSUME RoomNotShared, NEW c \in Cells, OnlyAt(c), NEW x, certificates'[c] = x,
         x.deleted \/ x.closed \/ Vacant(x, c)
  PROVE  RoomNotShared'
<1> SUFFICES ASSUME NEW d \in Open', NEW e \in Open', d # e,
                    certificates'[d].room = certificates'[e].room
             PROVE  ~Shares(certificates'[d], certificates'[e])
  BY DEF RoomNotShared
<1>1. \A b \in Open' :
        b \in Cells /\ ~certificates'[b].deleted /\ ~certificates'[b].closed
  BY DEF Open, Counted, Live
<1>2. \A b \in Open' \ {c} : b \in Open /\ certificates'[b] = certificates[b]
  BY <1>1 DEF OnlyAt, Open, Counted, Live
<1>3. \A b \in Open' \ {c} :
        c \in Open' /\ certificates[b].room = x.room => ~Shares(certificates[b], x)
  BY <1>1, <1>2 DEF Vacant
<1>4. CASE d = c
  BY <1>2, <1>3, <1>4 DEF Shares
<1>5. CASE e = c
  BY <1>2, <1>3, <1>5
<1>6. CASE d # c /\ e # c
  BY <1>2, <1>6 DEF RoomNotShared
<1> QED
  BY <1>4, <1>5, <1>6

(* What a handler that does not look, or not yet, has found.                 *)
LEMMA NothingFound ==
  ASSUME NEW h, h.at \notin {"insert", "moveRoom", "members", "move", "back"}
  PROVE  RoomKept(h) /\ RoomKept(h)'
<1>1. h \notin Movers
  BY DEF Movers
<1> QED
  BY <1>1 DEF RoomKept

(* What a step has to show.                                                  *)
LEMMA RoomConcludes ==
  ASSUME RoomInv, NEW r \in Requests, StepOf(r), Fewer \/ OthersRest(r),
         RoomNotShared', \A c \in Cells : Timed(certificates'[c]),
         NEW g, g = handler'[r], RoomKept(g)'
  PROVE  RoomInv'
<1>1. ASSUME NEW s \in Requests PROVE RoomKept(handler[s])'
  <2>1. CASE s = r
    BY <2>1 DEF RoomKept
  <2>2. CASE s # r
    <3>1. PICK h : h = handler[s] /\ h = handler'[s]
      BY <2>2 DEF StepOf
    <3>2. RoomKept(h)
      BY <3>1 DEF RoomInv
    <3>3. RoomKept(h)'
      <4>1. CASE Fewer
        <5>1. \A x, c : Vacant(x, c) => Vacant(x, c)'
          BY <4>1, VacantStays
        <5> QED
          BY <3>2, <5>1 DEF RoomKept
      <4>2. CASE OthersRest(r)
        <5>1. h.at \in {"idle", "delete", "strip", "drop"}
          BY <2>2, <3>1, <4>2 DEF OthersRest, Looking
        <5> QED
          BY <5>1, NothingFound
      <4> QED
        BY <4>1, <4>2
    <3> QED
      BY <3>1, <3>3 DEF RoomKept
  <2> QED
    BY <2>1, <2>2
<1> QED
  BY <1>1 DEF RoomInv, StepOf

(* A step that leaves the certificates alone.                                *)
LEMMA QuietRoom ==
  ASSUME RoomInv, NEW r \in Requests, StepOf(r), UNCHANGED certificates,
         NEW g, g = handler'[r], RoomKept(g)
  PROVE  RoomInv'
<1>1. Fewer
  BY DEF Fewer, Open, Counted, Live
<1>2. RoomNotShared'
  BY <1>1, FewerRooms DEF RoomInv
<1>3. \A x, c : Vacant(x, c) => Vacant(x, c)'
  BY <1>1, VacantStays
<1>4. RoomKept(g)'
  BY <1>3 DEF RoomKept
<1> QED
  BY <1>1, <1>2, <1>4, RoomConcludes DEF RoomInv

(* A step that writes one row that takes no room.                            *)
LEMMA VacatedRoom ==
  ASSUME RoomInv, NEW r \in Requests, StepOf(r), NEW c \in Cells, OnlyAt(c),
         certificates'[c].start = NoDate,
         NEW g, g = handler'[r],
         g.at \notin {"insert", "moveRoom", "members", "move", "back"}
  PROVE  RoomInv'
<1>1. Fewer
  BY DEF Fewer, OnlyAt, Open, Counted, Live
<1>2. RoomNotShared'
  BY <1>1, FewerRooms DEF RoomInv
<1>3. \A d \in Cells : Timed(certificates'[d])
  BY DEF RoomInv, OnlyAt, Timed
<1> QED
  BY <1>1, <1>2, <1>3, NothingFound, RoomConcludes

(* A step of a request that looks, which writes one row.                     *)
LEMMA RoomWritten ==
  ASSUME RoomInv, NEW r \in Requests, StepOf(r), OthersRest(r),
         NEW c \in Cells, NEW x \in Certificate, Save(c, x), Timed(x),
         x.deleted \/ x.closed \/ Vacant(x, c),
         NEW g, g = handler'[r], RoomKept(g)'
  PROVE  RoomInv'
<1>1. certificates'[c] = x /\ OnlyAt(c)
  BY SavedTyped DEF RoomInv, OnlyAt
<1>2. RoomNotShared'
  BY <1>1, RoomOfOne DEF RoomInv
<1>3. \A d \in Cells : Timed(certificates'[d])
  BY <1>1 DEF RoomInv, OnlyAt
<1> QED
  BY <1>2, <1>3, RoomConcludes

(* Before a step, what its handler has found.                                *)
LEMMA RoomFound ==
  ASSUME RoomInv, NEW r \in Requests
  PROVE  /\ TypesInv /\ RoomKept(handler[r]) /\ handler[r] \in Handler
         /\ LooksAt(handler[r]) => OthersRest(r)
<1>1. LooksAt(handler[r]) => OthersRest(r)
  BY LooksAlone DEF RoomInv
<1> QED
  BY <1>1, HandlerTyped DEF RoomInv

LEMMA CreateRoomStep ==
  ASSUME EndsDiffer, Patient, RoomInv, NEW r \in Requests
  PROVE  /\ \A slot \in Slots : BeginCreate(r, slot) => RoomInv'
         /\ CheckRoom(r) => RoomInv'
         /\ \A c \in Cells : Insert(r, c) => RoomInv'
<1>1. ASSUME NEW slot \in Slots, BeginCreate(r, slot) PROVE RoomInv'
  <2>1. PICK g : g = handler'[r]
    OBVIOUS
  <2>2. StepOf(r) /\ g.at = "room" /\ UNCHANGED certificates
    BY <1>1, <2>1, BeginCreateIs, RoomFound DEF BeginCreate, Unwritten
  <2> QED
    BY <2>1, <2>2, NothingFound, QuietRoom
<1>2. ASSUME CheckRoom(r) PROVE RoomInv'
  <2>1. PICK g : g = handler'[r]
    OBVIOUS
  <2>2. StepOf(r) /\ UNCHANGED certificates
    BY <1>2, CheckRoomIs, RoomFound DEF CheckRoom, Unwritten
  <2>3. RoomKept(g)
    <3>1. CASE g = Idle
      BY <3>1, NothingFound DEF Idle
    <3>2. CASE g \in Creators /\ ~RoomTaken(g.slot, {})
      <4>1. g.slot \in Slots /\ g \notin Movers
        BY <3>2 DEF Creators, Movers
      <4>2. Vacant(g.slot, 0)
        BY <3>2, <4>1, FreeRoom
      <4> QED
        BY <4>1, <4>2 DEF RoomKept
    <3> QED
      BY <1>2, <2>1, <3>1, <3>2, CheckRoomIs, RoomFound DEF SameSlot
  <2> QED
    BY <2>1, <2>2, <2>3, QuietRoom
<1>3. ASSUME NEW c \in Cells, Insert(r, c) PROVE RoomInv'
  <2>1. PICK h : h = handler[r]
    OBVIOUS
  <2>2. PICK x \in Certificate :
          /\ Save(c, x) /\ x.start = h.slot.start
          /\ x.duration = h.slot.duration /\ x.room = h.slot.room
    BY <1>3, <2>1, InsertIs, RoomFound
  <2>3. StepOf(r) /\ handler'[r] = Idle /\ h \in Creators /\ h.at = "insert"
    BY <1>3, <2>1, InsertIs, RoomFound
  <2>4. OthersRest(r) /\ RoomKept(h)
    BY <2>1, <2>3, RoomFound DEF LooksAt
  <2>5. h.slot \in Slots
    BY <2>3 DEF Creators
  <2>6. Timed(x)
    BY <2>2, <2>5 DEF Timed
  <2>7. Vacant(x, c)
    <3>1. Vacant(h.slot, 0)
      BY <2>3, <2>4 DEF RoomKept
    <3> QED
      BY <2>2, <3>1, VacantLike
  <2>8. RoomKept(Idle)'
    BY NothingFound DEF Idle
  <2> QED
    BY <2>2, <2>3, <2>4, <2>6, <2>7, <2>8, RoomWritten
<1> QED
  BY <1>1, <1>2, <1>3

LEMMA MoveRoomStep ==
  ASSUME EndsDiffer, Patient, RoomInv, NEW r \in Requests
  PROVE  /\ \A c \in Cells, slot \in Slots, closed \in BOOLEAN :
              BeginMove(r, c, slot, closed) => RoomInv'
         /\ CheckMoveRoom(r) => RoomInv'
         /\ CheckMembers(r) => RoomInv'
         /\ SaveMove(r) => RoomInv'
         /\ SaveBack(r) => RoomInv'
<1>1. ASSUME NEW c \in Cells, NEW slot \in Slots, NEW closed \in BOOLEAN,
             BeginMove(r, c, slot, closed)
      PROVE  RoomInv'
  <2>1. PICK g : g = handler'[r]
    OBVIOUS
  <2>2. /\ StepOf(r) /\ g \in Movers /\ g.at = "moveRoom" /\ Live(c) /\ g.cert = c
        /\ g.read = certificates[c] /\ UNCHANGED certificates
    BY <1>1, <2>1, BeginMoveIs, RoomFound DEF BeginMove, Unwritten
  <2>3. ~g.read.deleted /\ Timed(g.read)
    BY <2>2 DEF Live, RoomInv
  <2>4. g.read.closed \/ Vacant(g.read, g.cert)
    BY <2>2 DEF Vacant, RoomInv, RoomNotShared, Open, Counted
  <2>5. RoomKept(g)
    BY <2>2, <2>3, <2>4 DEF RoomKept
  <2> QED
    BY <2>1, <2>2, <2>5, QuietRoom
<1>2. ASSUME CheckMoveRoom(r) PROVE RoomInv'
  <2>1. PICK h : h = handler[r]
    OBVIOUS
  <2>2. PICK g : g = handler'[r]
    OBVIOUS
  <2>3. /\ StepOf(r) /\ SameMove(h, g) /\ UNCHANGED certificates
        /\ \/ g.at = "back"
           \/ g.at = "members" /\ ~RoomTaken(g.slot, {g.cert})
    BY <1>2, <2>1, <2>2, CheckMoveRoomIs, RoomFound DEF CheckMoveRoom, Unwritten
  <2>4. RoomKept(h)
    BY <2>1, RoomFound
  <2>5. g.slot \in Slots
    BY <2>3 DEF SameMove, Movers
  <2>6. g.at \in {"members", "move"} => Vacant(g.slot, g.cert)
    BY <2>3, <2>5, FreeRoom
  <2>7. RoomKept(g)
    BY <2>3, <2>4, <2>6 DEF RoomKept, SameMove
  <2> QED
    BY <2>2, <2>3, <2>7, QuietRoom
<1>3. ASSUME CheckMembers(r) PROVE RoomInv'
  <2>1. PICK h : h = handler[r]
    OBVIOUS
  <2>2. PICK g : g = handler'[r]
    OBVIOUS
  <2>3. /\ StepOf(r) /\ SameMove(h, g) /\ UNCHANGED certificates
        /\ h.at = "members" /\ g.at \in {"back", "move"}
    BY <1>3, <2>1, <2>2, CheckMembersIs, RoomFound DEF CheckMembers, Unwritten
  <2>4. RoomKept(h)
    BY <2>1, RoomFound
  <2>5. RoomKept(g)
    BY <2>3, <2>4 DEF RoomKept, SameMove
  <2> QED
    BY <2>2, <2>3, <2>5, QuietRoom
<1>4. ASSUME SaveMove(r) PROVE RoomInv'
  <2>1. PICK h : h = handler[r]
    OBVIOUS
  <2>2. PICK g : g = handler'[r]
    OBVIOUS
  <2>3. PICK x \in Certificate :
          /\ Save(h.cert, x) /\ x.start = h.slot.start
          /\ x.duration = h.slot.duration /\ x.room = h.slot.room
    BY <1>4, <2>1, SaveMoveIs, RoomFound
  <2>4. /\ StepOf(r) /\ h \in Movers /\ h.at = "move"
        /\ g = Idle \/ (SameMove(h, g) /\ g.at = "back")
    BY <1>4, <2>1, <2>2, SaveMoveIs, RoomFound
  <2>5. OthersRest(r) /\ RoomKept(h)
    BY <2>1, <2>4, RoomFound DEF LooksAt
  <2>6. h.slot \in Slots /\ h.cert \in Cells
    BY <2>4 DEF Movers
  <2>7. Timed(x)
    BY <2>3, <2>6 DEF Timed
  <2>8. Vacant(x, h.cert)
    <3>1. Vacant(h.slot, h.cert)
      BY <2>4, <2>5 DEF RoomKept
    <3> QED
      BY <2>3, <3>1, VacantLike
  <2>9. RoomKept(g)'
    <3>1. CASE g = Idle
      BY <3>1, NothingFound DEF Idle
    <3>2. CASE SameMove(h, g) /\ g.at = "back"
      <4>1. OnlyAt(h.cert)
        BY <2>3, <2>6, SavedTyped DEF RoomInv, OnlyAt
      <4>2. ~g.read.deleted /\ Timed(g.read) /\ (g.read.closed \/ Vacant(g.read, g.cert))
        BY <2>4, <2>5, <3>2 DEF RoomKept, SameMove
      <4>3. Vacant(g.read, g.cert) => Vacant(g.read, g.cert)'
        BY <3>2, <4>1, VacantBut DEF SameMove
      <4> QED
        BY <3>2, <4>2, <4>3 DEF RoomKept
    <3> QED
      BY <2>4, <3>1, <3>2
  <2> QED
    BY <2>2, <2>3, <2>4, <2>5, <2>6, <2>7, <2>8, <2>9, RoomWritten
<1>5. ASSUME SaveBack(r) PROVE RoomInv'
  <2>1. PICK h : h = handler[r]
    OBVIOUS
  <2>2. /\ StepOf(r) /\ handler'[r] = Idle /\ h \in Movers /\ h.at = "back"
        /\ Save(h.cert, h.read)
    BY <1>5, <2>1, SaveBackIs, RoomFound
  <2>3. OthersRest(r) /\ RoomKept(h)
    BY <2>1, <2>2, RoomFound DEF LooksAt
  <2>4. h.read \in Certificate /\ h.cert \in Cells
    BY <2>2 DEF Movers
  <2>5. Timed(h.read) /\ (h.read.closed \/ Vacant(h.read, h.cert))
    BY <2>2, <2>3 DEF RoomKept
  <2>6. RoomKept(Idle)'
    BY NothingFound DEF Idle
  <2> QED
    BY <2>2, <2>3, <2>4, <2>5, <2>6, RoomWritten
<1> QED
  BY <1>1, <1>2, <1>3, <1>4, <1>5

(* The steps about attendances leave the certificates alone.                 *)
LEMMA AttendanceRoomStep ==
  ASSUME Patient, RoomInv, NEW r \in Requests,
         \/ \E c \in Cells, j \in Joins : BeginJoin(r, c, j.who, j.role)
         \/ CheckFree(r)
         \/ \E a \in Seats : \/ Join(r, a) \/ BeginDrop(r, a)
                             \/ \E body \in Changes : BeginChange(r, a, body)
         \/ CheckTwice(r) \/ CheckSubstitute(r) \/ CheckAttend(r)
         \/ CheckLimit(r) \/ SaveChange(r) \/ Drop(r) \/ Strip(r)
         \/ \E c \in Cells : BeginRemoval(r, c)
  PROVE  RoomInv'
<1>1. PICK g : g = handler'[r]
  OBVIOUS
<1>2. TypesInv
  BY RoomFound
<1>3. UNCHANGED certificates
  BY DEF BeginJoin, CheckFree, Join, BeginDrop, BeginChange, CheckTwice,
     CheckSubstitute, CheckAttend, CheckLimit, SaveChange, Drop, Strip,
     BeginRemoval, Unwritten
<1>4. StepOf(r) /\ g \in {Idle} \cup Joiners \cup Changers \cup Droppers \cup Deleters
  <2>1. ASSUME NEW c \in Cells, NEW j \in Joins, BeginJoin(r, c, j.who, j.role)
        PROVE  StepOf(r) /\ g \in Joiners
    BY <1>1, <1>2, <2>1, BeginJoinIs
  <2>2. CheckFree(r) => StepOf(r) /\ g \in {Idle} \cup Joiners
    BY <1>1, <1>2, CheckFreeIs DEF SameJoin
  <2>3. ASSUME NEW a \in Seats, Join(r, a) PROVE StepOf(r) /\ g = Idle
    BY <1>1, <1>2, <2>3, JoinIs
  <2>4. ASSUME NEW a \in Seats, BeginDrop(r, a) PROVE StepOf(r) /\ g \in Droppers
    BY <1>1, <1>2, <2>4, BeginDropIs
  <2>5. ASSUME NEW a \in Seats, NEW body \in Changes, BeginChange(r, a, body)
        PROVE  StepOf(r) /\ g \in Changers
    BY <1>1, <1>2, <2>5, BeginChangeIs
  <2>6. CheckTwice(r) => StepOf(r) /\ g \in {Idle} \cup Changers
    BY <1>1, <1>2, CheckTwiceIs DEF SameChange
  <2>7. CheckSubstitute(r) => StepOf(r) /\ g \in {Idle} \cup Changers
    BY <1>1, <1>2, CheckSubstituteIs DEF SameChange
  <2>8. CheckAttend(r) => StepOf(r) /\ g \in {Idle} \cup Changers
    BY <1>1, <1>2, CheckAttendIs DEF SameChange
  <2>9. CheckLimit(r) => StepOf(r) /\ g \in {Idle} \cup Changers
    BY <1>1, <1>2, CheckLimitIs DEF SameChange
  <2>10. SaveChange(r) \/ Drop(r) \/ Strip(r) => StepOf(r) /\ g = Idle
    BY <1>1, <1>2, SaveChangeIs, DropIs, StripIs
  <2>11. ASSUME NEW c \in Cells, BeginRemoval(r, c)
         PROVE  StepOf(r) /\ g \in Deleters
    BY <1>1, <1>2, <2>11, BeginRemovalIs
  <2> QED
    BY <2>1, <2>2, <2>3, <2>4, <2>5, <2>6, <2>7, <2>8, <2>9, <2>10, <2>11
<1>5. g.at \notin {"insert", "moveRoom", "members", "move", "back"}
  BY <1>4 DEF Idle, Joiners, Changers, Droppers, Deleters
<1> QED
  BY <1>1, <1>3, <1>4, <1>5, NothingFound, QuietRoom

LEMMA RoomInit == ScheduleInit => RoomInv
<1> SUFFICES ASSUME ScheduleInit PROVE RoomInv
  OBVIOUS
<1>1. \A c \in Cells : /\ certificates[c] \in Certificate \cup {NoCertificate}
                       /\ certificates[c].start = NoDate
  BY WrittenTyped DEF ScheduleInit, NoCertificate
<1>2. certificates \in [Cells -> Certificate \cup {NoCertificate}]
  BY <1>1 DEF ScheduleInit
<1>3. attendances \in [Seats -> Attendance \cup {NoAttendance}]
  <2>1. 1 \in Cells
    BY ScheduleAssumption DEF Cells
  <2>2. ASSUME NEW a \in Seats, ~(a > Len(Seated))
        PROVE  Seat(1, Seated[a].who, Seated[a].role) \in Attendance
    <3>1. a \in 1..Len(Seated)
      BY <2>2, ScheduleAssumption DEF Seats
    <3>2. Seated[a].who \in Functionaries /\ Seated[a].role \in Roles
      <4>1. PICK Seatings : Seatings = [who : Functionaries, role : Roles]
        OBVIOUS
      <4>2. Seated \in Seq(Seatings)
        BY <4>1, ScheduleAssumption
      <4>3. Seated[a] \in Seatings
        BY <3>1, <4>2
      <4> QED
        BY <4>1, <4>3
    <3> QED
      BY <2>1, <3>2, WrittenTyped
  <2> QED
    BY <2>2 DEF ScheduleInit
<1>4. handler \in [Requests -> Handler] /\ \A r \in Requests : handler[r] = Idle
  BY AreHandlers DEF ScheduleInit
<1>5. \A r \in Requests : ~Looking(r)
  BY <1>4 DEF Looking, Idle
<1>6. TypesInv
  BY <1>2, <1>3, <1>4, <1>5, ScheduleAssumption
  DEF TypesInv, ScheduleTypeOK, Alone, ScheduleInit
<1>7. RoomNotShared /\ \A c \in Cells : Timed(certificates[c])
  BY <1>1 DEF RoomNotShared, Open, Shares, Timed
<1>8. \A r \in Requests : RoomKept(handler[r])
  BY <1>4, NothingFound DEF Idle
<1> QED
  BY <1>6, <1>7, <1>8 DEF RoomInv

LEMMA RoomStep ==
  ASSUME EndsDiffer, Patient, RoomInv, [ScheduleNext]_scheduleVars
  PROVE  RoomInv'
<1>1. CASE UNCHANGED scheduleVars
  BY <1>1 DEF scheduleVars, RoomInv, TypesInv, ScheduleTypeOK, Alone, Looking,
     RoomNotShared, Open, Counted, Live, RoomKept, Vacant
<1>2. ASSUME NEW r \in Requests, NEW c \in Cells, CreateUndated(r, c)
      PROVE  RoomInv'
  <2>1. TypesInv' /\ OnlyAt(c) /\ certificates'[c] = Undated
    BY <1>2, RoomFound, CreateUndatedIs, SavedTyped, WrittenTyped DEF OnlyAt
  <2>2. Fewer
    BY <2>1, WrittenTyped DEF Fewer, OnlyAt, Open, Counted, Live
  <2>3. RoomNotShared'
    BY <2>2, FewerRooms DEF RoomInv
  <2>4. \A d \in Cells : Timed(certificates'[d])
    BY <2>1, WrittenTyped DEF RoomInv, OnlyAt, Timed
  <2>5. ASSUME NEW s \in Requests PROVE RoomKept(handler[s])'
    <3>1. PICK h : h = handler[s] /\ h = handler'[s]
      BY <1>2 DEF CreateUndated
    <3>2. \A x, d : Vacant(x, d) => Vacant(x, d)'
      BY <2>2, VacantStays
    <3>3. RoomKept(h)'
      BY <3>1, <3>2 DEF RoomInv, RoomKept
    <3> QED
      BY <3>1, <3>3 DEF RoomKept
  <2> QED
    BY <2>1, <2>3, <2>4, <2>5 DEF RoomInv
<1>3. ASSUME NEW r \in Requests, Delete(r) PROVE RoomInv'
  <2>1. PICK g : g = handler'[r]
    OBVIOUS
  <2>2. PICK h : h = handler[r]
    OBVIOUS
  <2>3. StepOf(r) /\ h \in Deleters /\ g \in Strippers /\ Save(h.cert, Removed)
    BY <1>3, <2>1, <2>2, RoomFound, DeleteIs
  <2>4. h.cert \in Cells /\ g.at = "strip"
    BY <2>3 DEF Deleters, Strippers
  <2>5. OnlyAt(h.cert) /\ certificates'[h.cert].start = NoDate
    BY <2>3, <2>4, RoomFound, SavedTyped, WrittenTyped DEF OnlyAt
  <2> QED
    BY <2>1, <2>3, <2>4, <2>5, VacatedRoom
<1> QED
  BY <1>1, <1>2, <1>3, CreateRoomStep, MoveRoomStep, AttendanceRoomStep
  DEF ScheduleNext

(* Where no two of the times asked for end at one minute and what looks the  *)
(* schedule up waits for others that do: no two open certificates have a     *)
(* room at one time, however many are removed meanwhile and put back by      *)
(* updates that were refused (countCertificatesInDateRangeByRoom).           *)
THEOREM RoomsAreNotShared ==
  ASSUME EndsDiffer, Patient
  PROVE  ScheduleSpec => []RoomNotShared
<1>1. RoomInv /\ [ScheduleNext]_scheduleVars => RoomInv'
  BY RoomStep
<1>2. RoomInv => RoomNotShared
  BY DEF RoomInv
<1> QED
  BY <1>1, <1>2, RoomInit, PTL DEF ScheduleSpec

-------------------------------------------------------------------------------
(***************************************************************************)
(* Places (OnePlaceEach).                                                  *)
(***************************************************************************)
Known(c) == certificates[c] # NoCertificate

(* An update: who has a place there was read, and nobody has come since.     *)
MoveKept(h) ==
  /\ Known(h.cert) /\ ~h.read.deleted /\ SeatsOf(h.cert) \subseteq h.seats
  /\ \A a \in Held \cap h.seats :
       /\ attendances[a].of \in {0, h.cert}
       /\ a \in h.absent => ~attendances[a].attended
  /\ \A a, b \in Held \cap h.seats : attendances[a].who = attendances[b].who => a = b

(* A change of an attendance: it is as it was read, unless it has lost its   *)
(* certificate or is gone, and nobody else has the place of a substitute.    *)
ChangeKept(h) ==
  /\ h.read.of # 0
  /\ h.seat \in Held =>
       /\ attendances[h.seat].of \in {0, h.read.of}
       /\ attendances[h.seat].who = h.read.who
       /\ attendances[h.seat].role = h.read.role
  /\ h.at # "twice" =>
       \A a \in SeatsOf(h.read.of) \ {h.seat} : attendances[a].who # h.body.who

(* Who is about to be added has no place yet.                                *)
JoinKept(h) ==
  /\ Known(h.cert)
  /\ \A a \in SeatsOf(h.cert) : attendances[a].who # h.who

(* Who was read by a removal is of its certificate.                          *)
DeleteKept(h) == \A a \in Held \cap h.seats : attendances[a].of = h.cert

PlaceKept(h) ==
  /\ h \in Movers => MoveKept(h)
  /\ h \in Changers => ChangeKept(h)
  /\ h \in Joiners => JoinKept(h)
  /\ h \in Deleters => Known(h.cert) /\ DeleteKept(h)

(* Everybody attends a certificate there is, or was.                         *)
OfKnown == \A a \in Held : attendances[a].of # 0 => Known(attendances[a].of)

PlaceInv ==
  /\ TypesInv /\ OnePlaceEach /\ OfKnown
  /\ \A r \in Requests : PlaceKept(handler[r])

(* What no step undoes: a certificate that was made.                         *)
KnownStay == \A c \in Cells : Known(c) => Known(c)'

(* Attendances only go, or lose their certificate.                           *)
Loses ==
  \A a \in Held' :
    /\ a \in Held
    /\ attendances'[a].who = attendances[a].who
    /\ attendances'[a].role = attendances[a].role
    /\ attendances'[a].attended = attendances[a].attended
    /\ attendances'[a].of \in {0, attendances[a].of}

LEMMA LosesSeats ==
  ASSUME Loses
  PROVE  \A c \in Cells : \A a \in SeatsOf(c)' :
           a \in SeatsOf(c) /\ attendances'[a].who = attendances[a].who
<1>1. 0 \notin Cells
  BY DEF Cells
<1> QED
  BY <1>1 DEF Loses, SeatsOf

(* What a handler has found stays, its removal aside.                        *)
LEMMA PlaceStays ==
  ASSUME Loses, KnownStay, NEW h, h \notin Deleters, PlaceKept(h)
  PROVE  PlaceKept(h)'
<1>1. ASSUME h \in Movers PROVE MoveKept(h)'
  <2>1. h.cert \in Cells /\ MoveKept(h)
    BY <1>1 DEF Movers, PlaceKept
  <2>2. \A a \in Held' : a \in Held
    BY DEF Loses
  <2>3. \A a \in SeatsOf(h.cert)' : a \in SeatsOf(h.cert)
    BY <2>1, LosesSeats
  <2> QED
    BY <2>1, <2>2, <2>3 DEF MoveKept, Loses, KnownStay
<1>2. ASSUME h \in Changers PROVE ChangeKept(h)'
  <2>1. h.read.of \in Cells /\ ChangeKept(h)
    BY <1>2 DEF Changers, PlaceKept, ChangeKept, Attendance
  <2>2. \A a \in SeatsOf(h.read.of)' :
          a \in SeatsOf(h.read.of) /\ attendances'[a].who = attendances[a].who
    BY <2>1, LosesSeats
  <2> QED
    BY <2>1, <2>2 DEF ChangeKept, Loses
<1>3. ASSUME h \in Joiners PROVE JoinKept(h)'
  <2>1. h.cert \in Cells /\ JoinKept(h)
    BY <1>3 DEF Joiners, PlaceKept
  <2>2. \A a \in SeatsOf(h.cert)' :
          a \in SeatsOf(h.cert) /\ attendances'[a].who = attendances[a].who
    BY <2>1, LosesSeats
  <2> QED
    BY <2>1, <2>2 DEF JoinKept, KnownStay
<1> QED
  BY <1>1, <1>2, <1>3 DEF PlaceKept

(* No place is taken by what only goes.                                      *)
LEMMA LosesPlaces ==
  ASSUME PlaceInv, Loses, KnownStay
  PROVE  OnePlaceEach' /\ OfKnown'
<1>1. OnePlaceEach'
  BY LosesSeats DEF PlaceInv, OnePlaceEach
<1>2. \A a \in Held : attendances[a].of \in Cells \cup {0}
  BY HeldTyped, SeatsOfAre DEF PlaceInv, TypesInv, Attendance
<1>3. OfKnown'
  BY <1>2 DEF PlaceInv, OfKnown, Loses, KnownStay
<1> QED
  BY <1>1, <1>3

(* What a handler that is not of these has found.                            *)
LEMMA NothingPlaced ==
  ASSUME NEW h, h.at \in {"idle", "room", "insert", "strip", "drop"}
  PROVE  PlaceKept(h) /\ PlaceKept(h)'
<1>1. h \notin Movers /\ h \notin Changers /\ h \notin Joiners /\ h \notin Deleters
  BY DEF Movers, Changers, Joiners, Deleters
<1> QED
  BY <1>1 DEF PlaceKept

(* What a step has to show.                                                  *)
LEMMA PlaceConcludes ==
  ASSUME PlaceInv, NEW r \in Requests, StepOf(r), Loses \/ OthersRest(r),
         KnownStay, OnePlaceEach', OfKnown',
         \A h \in Deleters : \A s \in Requests \ {r} :
           h = handler[s] => DeleteKept(h)',
         NEW g, g = handler'[r], PlaceKept(g)'
  PROVE  PlaceInv'
<1>1. ASSUME NEW s \in Requests PROVE PlaceKept(handler[s])'
  <2>1. CASE s = r
    BY <2>1 DEF PlaceKept
  <2>2. CASE s # r
    <3>1. PICK h : h = handler[s] /\ h = handler'[s]
      BY <2>2 DEF StepOf
    <3>2. PlaceKept(h)
      BY <3>1 DEF PlaceInv
    <3>3. PlaceKept(h)'
      <4>1. CASE h \in Deleters
        <5>1. h.cert \in Cells /\ h \notin Movers /\ h \notin Changers /\ h \notin Joiners
          BY <4>1 DEF Deleters, Movers, Changers, Joiners
        <5>2. Known(h.cert)' /\ DeleteKept(h)'
          BY <2>2, <3>1, <3>2, <4>1, <5>1 DEF PlaceKept, KnownStay
        <5> QED
          BY <5>1, <5>2 DEF PlaceKept
      <4>2. CASE h \notin Deleters /\ Loses
        BY <3>2, <4>2, PlaceStays
      <4>3. CASE h \notin Deleters /\ OthersRest(r)
        <5>1. h \in Handler
          BY <3>1, HandlerTyped DEF PlaceInv
        <5>2. h.at \in {"idle", "strip", "drop"}
          BY <2>2, <3>1, <4>3, <5>1, WhereItAwaits DEF OthersRest, Looking
        <5> QED
          BY <5>2, NothingPlaced
      <4> QED
        BY <4>1, <4>2, <4>3
    <3> QED
      BY <3>1, <3>3 DEF PlaceKept
  <2> QED
    BY <2>1, <2>2
<1> QED
  BY <1>1 DEF PlaceInv, StepOf

(* A step that leaves both tables alone.                                     *)
LEMMA QuietPlace ==
  ASSUME PlaceInv, NEW r \in Requests, StepOf(r),
         UNCHANGED <<certificates, attendances>>,
         NEW g, g = handler'[r], PlaceKept(g)
  PROVE  PlaceInv'
<1>1. Loses /\ KnownStay
  BY DEF Loses, KnownStay, Held, Known
<1>2. OnePlaceEach' /\ OfKnown'
  BY DEF PlaceInv, OnePlaceEach, OfKnown, SeatsOf, Held, Known
<1>3. ASSUME NEW h \in Deleters, NEW s \in Requests \ {r}, h = handler[s]
      PROVE  DeleteKept(h)'
  BY <1>3 DEF PlaceInv, PlaceKept, DeleteKept, Held
<1>4. PlaceKept(g)'
  BY DEF PlaceKept, MoveKept, ChangeKept, JoinKept, DeleteKept, Known, SeatsOf, Held
<1> QED
  BY <1>1, <1>2, <1>3, <1>4, PlaceConcludes

(* A step that writes a certificate and leaves the attendances alone.        *)
LEMMA KnownPlace ==
  ASSUME PlaceInv, NEW r \in Requests, StepOf(r), UNCHANGED attendances,
         KnownStay, NEW g, g = handler'[r], g \notin Deleters, PlaceKept(g)
  PROVE  PlaceInv'
<1>1. Loses
  BY DEF Loses, Held
<1>2. OnePlaceEach'
  BY DEF PlaceInv, OnePlaceEach, SeatsOf, Held
<1>3. OfKnown'
  <2>1. \A a \in Held : attendances[a].of \in Cells \cup {0}
    BY HeldTyped, SeatsOfAre DEF PlaceInv, TypesInv, Attendance
  <2> QED
    BY <2>1 DEF PlaceInv, OfKnown, KnownStay, Held
<1>4. ASSUME NEW h \in Deleters, NEW s \in Requests \ {r}, h = handler[s]
      PROVE  DeleteKept(h)'
  BY <1>4 DEF PlaceInv, PlaceKept, DeleteKept, Held
<1>5. PlaceKept(g)'
  BY <1>1, PlaceStays
<1> QED
  BY <1>1, <1>2, <1>3, <1>4, <1>5, PlaceConcludes

(* A step that takes attendances away.                                       *)
LEMMA LosingPlace ==
  ASSUME PlaceInv, NEW r \in Requests, StepOf(r), UNCHANGED certificates,
         \A a \in Seats : attendances'[a] \in {attendances[a], NoAttendance},
         handler'[r] = Idle
  PROVE  PlaceInv'
<1>1. \A a \in Held' : a \in Held /\ attendances'[a] = attendances[a]
  BY DEF Held
<1>2. Loses /\ KnownStay
  BY <1>1 DEF Loses, KnownStay, Known
<1>3. OnePlaceEach' /\ OfKnown'
  BY <1>1 DEF PlaceInv, OnePlaceEach, OfKnown, SeatsOf, Known
<1>4. ASSUME NEW h \in Deleters, NEW s \in Requests \ {r}, h = handler[s]
      PROVE  DeleteKept(h)'
  BY <1>1, <1>4 DEF PlaceInv, PlaceKept, DeleteKept
<1>5. PlaceKept(Idle)'
  BY NothingPlaced DEF Idle
<1> QED
  BY <1>2, <1>3, <1>4, <1>5, PlaceConcludes

(* What saving a certificate does to the attendances.                        *)
LEMMA SeatsSavedIs ==
  ASSUME TypesInv, NEW c \in Cells, NEW seats, SaveSeats(c, seats)
  PROVE  \A a \in Held' :
           /\ a \in Held
           /\ attendances'[a].who = attendances[a].who
           /\ attendances'[a].role = attendances[a].role
           /\ attendances'[a].attended = attendances[a].attended
           /\ attendances'[a].of = IF a \in seats THEN c
                                   ELSE IF attendances[a].of = c THEN 0
                                   ELSE attendances[a].of
<1> SUFFICES ASSUME NEW a \in Held'
             PROVE  /\ a \in Held
                    /\ attendances'[a].who = attendances[a].who
                    /\ attendances'[a].role = attendances[a].role
                    /\ attendances'[a].attended = attendances[a].attended
                    /\ attendances'[a].of = IF a \in seats THEN c
                                            ELSE IF attendances[a].of = c THEN 0
                                            ELSE attendances[a].of
  OBVIOUS
<1>1. a \in Seats /\ attendances'[a] # NoAttendance
  BY DEF Held
<1>2. a \in Held
  BY <1>1 DEF SaveSeats, Held, SeatsOf
<1>3. attendances[a] \in Attendance
  BY <1>1, <1>2, HeldTyped DEF TypesInv
<1>4. attendances'[a] = IF a \in seats THEN [attendances[a] EXCEPT !.of = c]
                        ELSE IF attendances[a].of = c
                             THEN [attendances[a] EXCEPT !.of = 0]
                        ELSE attendances[a]
  BY <1>1, <1>2 DEF SaveSeats, SeatsOf
<1> QED
  BY <1>2, <1>3, <1>4 DEF Attendance

(* Before a step, what its handler has found.                                *)
LEMMA PlaceFound ==
  ASSUME PlaceInv, NEW r \in Requests
  PROVE  /\ TypesInv /\ PlaceKept(handler[r]) /\ handler[r] \in Handler
         /\ LooksAt(handler[r]) => OthersRest(r)
<1>1. LooksAt(handler[r]) => OthersRest(r)
  BY LooksAlone DEF PlaceInv
<1> QED
  BY <1>1, HandlerTyped DEF PlaceInv

(* What a handler that goes on has found before.                             *)
LEMMA PlaceOn ==
  ASSUME NEW h, NEW g, PlaceKept(h)
  PROVE  /\ SameMove(h, g) => PlaceKept(g)
         /\ SameJoin(h, g) => PlaceKept(g)
         /\ SameChange(h, g) /\ h.at # "twice" => PlaceKept(g)
<1>1. ASSUME SameMove(h, g) PROVE PlaceKept(g)
  <2>1. g \notin Changers /\ g \notin Joiners /\ g \notin Deleters
    BY <1>1 DEF SameMove, Movers, Changers, Joiners, Deleters
  <2> QED
    BY <1>1, <2>1 DEF SameMove, PlaceKept, MoveKept
<1>2. ASSUME SameJoin(h, g) PROVE PlaceKept(g)
  <2>1. g \notin Changers /\ g \notin Movers /\ g \notin Deleters
    BY <1>2 DEF SameJoin, Movers, Changers, Joiners, Deleters
  <2> QED
    BY <1>2, <2>1 DEF SameJoin, PlaceKept, JoinKept
<1>3. ASSUME SameChange(h, g), h.at # "twice" PROVE PlaceKept(g)
  <2>1. g \notin Movers /\ g \notin Joiners /\ g \notin Deleters
    BY <1>3 DEF SameChange, Movers, Changers, Joiners, Deleters
  <2> QED
    BY <1>3, <2>1 DEF SameChange, PlaceKept, ChangeKept
<1> QED
  BY <1>1, <1>2, <1>3

LEMMA CreatePlaceStep ==
  ASSUME Patient, PlaceInv, NEW r \in Requests
  PROVE  /\ \A slot \in Slots : BeginCreate(r, slot) => PlaceInv'
         /\ CheckRoom(r) => PlaceInv'
         /\ \A c \in Cells : Insert(r, c) => PlaceInv'
<1>1. ASSUME NEW slot \in Slots, BeginCreate(r, slot) PROVE PlaceInv'
  <2>1. PICK g : g = handler'[r]
    OBVIOUS
  <2>2. StepOf(r) /\ g.at = "room" /\ UNCHANGED <<certificates, attendances>>
    BY <1>1, <2>1, BeginCreateIs, PlaceFound DEF BeginCreate, Unwritten
  <2> QED
    BY <2>1, <2>2, NothingPlaced, QuietPlace
<1>2. ASSUME CheckRoom(r) PROVE PlaceInv'
  <2>1. PICK g : g = handler'[r]
    OBVIOUS
  <2>2. /\ StepOf(r) /\ UNCHANGED <<certificates, attendances>>
        /\ g.at \in {"idle", "insert"}
    BY <1>2, <2>1, CheckRoomIs, PlaceFound DEF CheckRoom, Unwritten, Idle
  <2> QED
    BY <2>1, <2>2, NothingPlaced, QuietPlace
<1>3. ASSUME NEW c \in Cells, Insert(r, c) PROVE PlaceInv'
  <2>1. PICK x \in Certificate : Save(c, x)
    BY <1>3, InsertIs, PlaceFound
  <2>2. StepOf(r) /\ handler'[r] = Idle /\ UNCHANGED attendances
    BY <1>3, InsertIs, PlaceFound
  <2>3. KnownStay
    BY <2>1, PlaceFound, SavedTyped, NoCertificateIsNone DEF KnownStay, Known
  <2>4. Idle \notin Deleters /\ PlaceKept(Idle)
    BY NothingPlaced DEF Idle, Deleters
  <2> QED
    BY <2>2, <2>3, <2>4, KnownPlace
<1> QED
  BY <1>1, <1>2, <1>3

LEMMA MovePlaceStep ==
  ASSUME Patient, PlaceInv, NEW r \in Requests
  PROVE  /\ \A c \in Cells, slot \in Slots, closed \in BOOLEAN :
              BeginMove(r, c, slot, closed) => PlaceInv'
         /\ CheckMoveRoom(r) \/ CheckMembers(r) => PlaceInv'
         /\ SaveMove(r) => PlaceInv'
         /\ SaveBack(r) => PlaceInv'
<1>1. ASSUME NEW c \in Cells, NEW slot \in Slots, NEW closed \in BOOLEAN,
             BeginMove(r, c, slot, closed)
      PROVE  PlaceInv'
  <2>1. PICK g : g = handler'[r]
    OBVIOUS
  <2>2. /\ StepOf(r) /\ g \in Movers /\ Live(c) /\ g.cert = c
        /\ g.read = certificates[c] /\ g.seats = SeatsOf(c)
        /\ g.absent = SeatsOf(c) \ Present(c)
        /\ UNCHANGED <<certificates, attendances>>
    BY <1>1, <2>1, BeginMoveIs, PlaceFound DEF BeginMove, Unwritten
  <2>3. Known(c) /\ ~g.read.deleted
    BY <2>2 DEF Live, Known, NoCertificate
  <2>4. MoveKept(g)
    BY <2>2, <2>3 DEF MoveKept, SeatsOf, Present, PlaceInv, OnePlaceEach
  <2>5. g \notin Changers /\ g \notin Joiners /\ g \notin Deleters
    BY <2>2 DEF Movers, Changers, Joiners, Deleters
  <2>6. PlaceKept(g)
    BY <2>4, <2>5 DEF PlaceKept
  <2> QED
    BY <2>1, <2>2, <2>6, QuietPlace
<1>2. ASSUME CheckMoveRoom(r) \/ CheckMembers(r) PROVE PlaceInv'
  <2>1. PICK h : h = handler[r]
    OBVIOUS
  <2>2. PICK g : g = handler'[r]
    OBVIOUS
  <2>3. StepOf(r) /\ SameMove(h, g) /\ UNCHANGED <<certificates, attendances>>
    BY <1>2, <2>1, <2>2, CheckMoveRoomIs, CheckMembersIs, PlaceFound
    DEF CheckMoveRoom, CheckMembers, Unwritten
  <2>4. PlaceKept(g)
    BY <2>1, <2>3, PlaceFound, PlaceOn
  <2> QED
    BY <2>2, <2>3, <2>4, QuietPlace
<1>3. ASSUME SaveMove(r) PROVE PlaceInv'
  <2>1. PICK h : h = handler[r]
    OBVIOUS
  <2>2. PICK g : g = handler'[r]
    OBVIOUS
  <2>3. PICK x \in Certificate : Save(h.cert, x)
    BY <1>3, <2>1, SaveMoveIs, PlaceFound
  <2>4. /\ StepOf(r) /\ h \in Movers /\ UNCHANGED attendances
        /\ g = Idle \/ (SameMove(h, g) /\ g.at = "back")
    BY <1>3, <2>1, <2>2, SaveMoveIs, PlaceFound
  <2>5. KnownStay
    <3>1. h.cert \in Cells
      BY <2>4 DEF Movers
    <3> QED
      BY <2>3, <3>1, PlaceFound, SavedTyped, NoCertificateIsNone DEF KnownStay, Known
  <2>6. PlaceKept(g)
    <3>1. CASE g = Idle
      BY <3>1, NothingPlaced DEF Idle
    <3>2. CASE SameMove(h, g)
      BY <2>1, <3>2, PlaceFound, PlaceOn
    <3> QED
      BY <2>4, <3>1, <3>2
  <2>7. g \notin Deleters
    BY <2>4 DEF Idle, SameMove, Movers, Deleters
  <2> QED
    BY <2>2, <2>4, <2>5, <2>6, <2>7, KnownPlace
<1>4. ASSUME SaveBack(r) PROVE PlaceInv'
  <2>1. PICK h : h = handler[r]
    OBVIOUS
  <2>2. /\ StepOf(r) /\ handler'[r] = Idle /\ h \in Movers
        /\ Save(h.cert, h.read) /\ SaveSeats(h.cert, h.seats)
    BY <1>4, <2>1, SaveBackIs, PlaceFound
  <2>3. h.read \in Certificate /\ h.cert \in Cells /\ LooksAt(h)
    BY <2>2 DEF Movers, LooksAt
  <2>4. OthersRest(r) /\ MoveKept(h)
    BY <2>1, <2>2, <2>3, PlaceFound DEF PlaceKept
  <2>5. KnownStay /\ Known(h.cert)'
    BY <2>2, <2>3, PlaceFound, SavedTyped, NoCertificateIsNone DEF KnownStay, Known
  <2>6. \A a \in Held' :
          /\ a \in Held /\ attendances'[a].who = attendances[a].who
          /\ attendances'[a].of = IF a \in h.seats THEN h.cert ELSE attendances[a].of
          /\ attendances[a].of = h.cert => a \in h.seats
    <3>1. \A a \in Held : attendances[a].of = h.cert => a \in h.seats
      BY <2>4 DEF MoveKept, SeatsOf
    <3> QED
      BY <2>2, <2>3, <3>1, PlaceFound, SeatsSavedIs
  <2>7. OnePlaceEach'
    BY <2>4, <2>6 DEF OnePlaceEach, PlaceInv, SeatsOf, MoveKept
  <2>8. OfKnown'
    <3>1. \A a \in Held : attendances[a].of \in Cells \cup {0}
      BY HeldTyped, SeatsOfAre DEF PlaceInv, TypesInv, Attendance
    <3> QED
      BY <2>5, <2>6, <3>1 DEF OfKnown, PlaceInv, KnownStay
  <2>9. ASSUME NEW k \in Deleters, NEW s \in Requests \ {r}, k = handler[s]
        PROVE  DeleteKept(k)'
    <3>1. DeleteKept(k) /\ k.cert \in Cells
      BY <2>9 DEF PlaceInv, PlaceKept, Deleters
    <3>2. 0 \notin Cells
      BY DEF Cells
    <3> QED
      BY <2>4, <2>6, <3>1, <3>2 DEF DeleteKept, MoveKept
  <2>10. PlaceKept(Idle)'
    BY NothingPlaced DEF Idle
  <2> QED
    BY <2>2, <2>4, <2>5, <2>7, <2>8, <2>9, <2>10, PlaceConcludes
<1> QED
  BY <1>1, <1>2, <1>3, <1>4

(* A removal takes its attendances from their certificate, and no others.    *)
LEMMA DeleteTakes ==
  ASSUME PlaceInv, NEW r \in Requests, Delete(r), NEW h, h = handler[r]
  PROVE  /\ Loses
         /\ \A a \in Held' :
              attendances'[a].of = IF a \notin h.seats /\ attendances[a].of = h.cert
                                   THEN 0 ELSE attendances[a].of
<1>1. h \in Deleters /\ SaveSeats(h.cert, h.seats)
  BY DeleteIs, PlaceFound
<1>2. h.cert \in Cells /\ DeleteKept(h)
  BY <1>1, PlaceFound DEF Deleters, PlaceKept
<1>3. \A a \in Held' :
        /\ a \in Held
        /\ attendances'[a].who = attendances[a].who
        /\ attendances'[a].role = attendances[a].role
        /\ attendances'[a].attended = attendances[a].attended
        /\ attendances'[a].of = IF a \notin h.seats /\ attendances[a].of = h.cert
                                THEN 0 ELSE attendances[a].of
  BY <1>1, <1>2, PlaceFound, SeatsSavedIs DEF DeleteKept
<1> QED
  BY <1>3 DEF Loses

(* The steps of a removal.                                                   *)
LEMMA RemovalPlaceStep ==
  ASSUME OneRemoval, PlaceInv, NEW r \in Requests
  PROVE  /\ \A c \in Cells : BeginRemoval(r, c) => PlaceInv'
         /\ Delete(r) => PlaceInv'
         /\ Strip(r) \/ Drop(r) => PlaceInv'
         /\ \A a \in Seats : BeginDrop(r, a) => PlaceInv'
<1>1. ASSUME NEW c \in Cells, BeginRemoval(r, c) PROVE PlaceInv'
  <2>1. PICK g : g = handler'[r]
    OBVIOUS
  <2>2. /\ StepOf(r) /\ g \in Deleters /\ Live(c) /\ g.cert = c
        /\ g.seats = SeatsOf(c) /\ UNCHANGED <<certificates, attendances>>
    BY <1>1, <2>1, BeginRemovalIs, PlaceFound DEF BeginRemoval
  <2>3. Known(g.cert) /\ DeleteKept(g)
    BY <2>2 DEF Live, Known, NoCertificate, DeleteKept, SeatsOf
  <2>4. g \notin Movers /\ g \notin Changers /\ g \notin Joiners
    BY <2>2 DEF Movers, Changers, Joiners, Deleters
  <2>5. PlaceKept(g)
    BY <2>3, <2>4 DEF PlaceKept
  <2> QED
    BY <2>1, <2>2, <2>5, QuietPlace
<1>2. ASSUME Delete(r) PROVE PlaceInv'
  <2>1. PICK h : h = handler[r]
    OBVIOUS
  <2>2. PICK g : g = handler'[r]
    OBVIOUS
  <2>3. /\ StepOf(r) /\ h \in Deleters /\ g \in Strippers
        /\ Save(h.cert, Removed) /\ SaveSeats(h.cert, h.seats)
    BY <1>2, <2>1, <2>2, DeleteIs, PlaceFound
  <2>4. h.cert \in Cells /\ g.at = "strip"
    BY <2>3 DEF Deleters, Strippers
  <2>5. Known(h.cert) /\ DeleteKept(h)
    BY <2>1, <2>3, PlaceFound DEF PlaceKept
  <2>6. KnownStay
    BY <2>3, <2>4, PlaceFound, SavedTyped, WrittenTyped, NoCertificateIsNone
    DEF KnownStay, Known
  <2>7. \A a \in Held' :
          /\ a \in Held
          /\ attendances'[a].of = IF a \notin h.seats /\ attendances[a].of = h.cert
                                  THEN 0 ELSE attendances[a].of
    BY <1>2, <2>1, DeleteTakes DEF Loses
  <2>8. Loses
    BY <1>2, <2>1, DeleteTakes
  <2>9. OnePlaceEach' /\ OfKnown'
    BY <2>6, <2>8, LosesPlaces
  <2>10. ASSUME NEW k \in Deleters, NEW s \in Requests \ {r}, k = handler[s]
         PROVE  DeleteKept(k)'
    <3>1. k.at = "delete" /\ h.at = "delete"
      BY <2>3, <2>10 DEF Deleters
    <3>2. k.cert # h.cert
      BY <2>1, <2>10, <3>1 DEF OneRemoval, Doing
    <3>3. DeleteKept(k)
      BY <2>10 DEF PlaceInv, PlaceKept
    <3> QED
      BY <2>7, <3>2, <3>3 DEF DeleteKept
  <2>11. PlaceKept(g)'
    BY <2>4, NothingPlaced
  <2> QED
    BY <2>2, <2>3, <2>6, <2>8, <2>9, <2>10, <2>11, PlaceConcludes
<1>3. ASSUME Strip(r) \/ Drop(r) PROVE PlaceInv'
  <2>1. /\ StepOf(r) /\ handler'[r] = Idle /\ UNCHANGED certificates
    BY <1>3, StripIs, DropIs, PlaceFound DEF Strip, Drop
  <2>2. \A a \in Seats : attendances'[a] \in {attendances[a], NoAttendance}
    BY <1>3 DEF Strip, Drop, PlaceInv, TypesInv, ScheduleTypeOK
  <2> QED
    BY <2>1, <2>2, LosingPlace
<1>4. ASSUME NEW a \in Seats, BeginDrop(r, a) PROVE PlaceInv'
  <2>1. PICK g : g = handler'[r]
    OBVIOUS
  <2>2. StepOf(r) /\ g \in Droppers /\ UNCHANGED <<certificates, attendances>>
    BY <1>4, <2>1, BeginDropIs, PlaceFound DEF BeginDrop
  <2>3. g.at = "drop"
    BY <2>2 DEF Droppers
  <2> QED
    BY <2>1, <2>2, <2>3, NothingPlaced, QuietPlace
<1> QED
  BY <1>1, <1>2, <1>3, <1>4

(* What a handler remembers is not given to somebody else.                   *)
LEMMA DeletersRemember ==
  ASSUME NEW s \in Requests, handler[s] \in Deleters
  PROVE  handler[s].seats \subseteq Remembered
<1>1. "seats" \in DOMAIN handler[s]
  BY DEF Deleters
<1> QED
  BY <1>1 DEF Remembered

(* Somebody is added.                                                        *)
LEMMA JoinPlaceStep ==
  ASSUME Patient, PlaceInv, NEW r \in Requests
  PROVE  /\ \A c \in Cells, j \in Joins :
              BeginJoin(r, c, j.who, j.role) => PlaceInv'
         /\ CheckFree(r) => PlaceInv'
         /\ \A a \in Seats : Join(r, a) => PlaceInv'
<1>1. ASSUME NEW c \in Cells, NEW j \in Joins, BeginJoin(r, c, j.who, j.role)
      PROVE  PlaceInv'
  <2>1. PICK g : g = handler'[r]
    OBVIOUS
  <2>2. /\ StepOf(r) /\ g \in Joiners /\ Live(c) /\ g.cert = c
        /\ \A a \in SeatsOf(c) : attendances[a].who # g.who
        /\ UNCHANGED <<certificates, attendances>>
    BY <1>1, <2>1, BeginJoinIs, PlaceFound DEF BeginJoin, Unwritten
  <2>3. JoinKept(g)
    BY <2>2 DEF Live, Known, NoCertificate, JoinKept
  <2>4. g \notin Movers /\ g \notin Changers /\ g \notin Deleters
    BY <2>2 DEF Movers, Changers, Joiners, Deleters
  <2>5. PlaceKept(g)
    BY <2>3, <2>4 DEF PlaceKept
  <2> QED
    BY <2>1, <2>2, <2>5, QuietPlace
<1>2. ASSUME CheckFree(r) PROVE PlaceInv'
  <2>1. PICK h : h = handler[r]
    OBVIOUS
  <2>2. PICK g : g = handler'[r]
    OBVIOUS
  <2>3. /\ StepOf(r) /\ (g = Idle \/ SameJoin(h, g))
        /\ UNCHANGED <<certificates, attendances>>
    BY <1>2, <2>1, <2>2, CheckFreeIs, PlaceFound DEF CheckFree, Unwritten
  <2>4. PlaceKept(g)
    <3>1. CASE g = Idle
      BY <3>1, NothingPlaced DEF Idle
    <3>2. CASE SameJoin(h, g)
      BY <2>1, <3>2, PlaceFound, PlaceOn
    <3> QED
      BY <2>3, <3>1, <3>2
  <2> QED
    BY <2>2, <2>3, <2>4, QuietPlace
<1>3. ASSUME NEW a \in Seats, Join(r, a) PROVE PlaceInv'
  <2>1. PICK h : h = handler[r]
    OBVIOUS
  <2>2. PICK x \in Attendance :
          /\ attendances' = [attendances EXCEPT ![a] = x]
          /\ x.of = h.cert /\ x.who = h.who /\ ~x.attended
    BY <1>3, <2>1, JoinIs, PlaceFound
  <2>3. /\ StepOf(r) /\ handler'[r] = Idle /\ h \in Joiners
        /\ a \notin Held /\ a \notin Remembered /\ UNCHANGED certificates
    BY <1>3, <2>1, JoinIs, PlaceFound DEF Join
  <2>4. OthersRest(r) /\ JoinKept(h)
    BY <2>1, <2>3, PlaceFound DEF PlaceKept, Joiners, LooksAt
  <2>5. h.cert \in Cells
    BY <2>3 DEF Joiners
  <2>6. /\ attendances'[a] = x
        /\ \A b \in Held' \ {a} : b \in Held /\ attendances'[b] = attendances[b]
    BY <2>2 DEF PlaceInv, TypesInv, ScheduleTypeOK, Held
  <2>7. KnownStay
    BY <2>3 DEF KnownStay, Known
  <2>8. OnePlaceEach'
    BY <2>2, <2>4, <2>6 DEF PlaceInv, OnePlaceEach, SeatsOf, JoinKept
  <2>9. OfKnown'
    BY <2>2, <2>3, <2>4, <2>6 DEF PlaceInv, OfKnown, JoinKept, Known
  <2>10. ASSUME NEW k \in Deleters, NEW s \in Requests \ {r}, k = handler[s]
         PROVE  DeleteKept(k)'
    <3>1. a \notin k.seats
      BY <2>3, <2>10, DeletersRemember
    <3> QED
      BY <2>6, <2>10, <3>1 DEF PlaceInv, PlaceKept, DeleteKept
  <2>11. PlaceKept(Idle)'
    BY NothingPlaced DEF Idle
  <2> QED
    BY <2>3, <2>4, <2>7, <2>8, <2>9, <2>10, <2>11, PlaceConcludes
<1> QED
  BY <1>1, <1>2, <1>3

(* An attendance is changed.                                                 *)
LEMMA ChangePlaceStep ==
  ASSUME Patient, PlaceInv, NEW r \in Requests
  PROVE  /\ \A a \in Seats, body \in Changes :
              BeginChange(r, a, body) => PlaceInv'
         /\ CheckTwice(r) => PlaceInv'
         /\ CheckSubstitute(r) \/ CheckAttend(r) \/ CheckLimit(r) => PlaceInv'
         /\ SaveChange(r) => PlaceInv'
<1>1. ASSUME NEW a \in Seats, NEW body \in Changes, BeginChange(r, a, body)
      PROVE  PlaceInv'
  <2>1. PICK g : g = handler'[r]
    OBVIOUS
  <2>2. /\ StepOf(r) /\ g \in Changers /\ g.at = "twice"
        /\ a \in Held /\ attendances[a].of # 0 /\ g.seat = a
        /\ g.read = attendances[a] /\ UNCHANGED <<certificates, attendances>>
    BY <1>1, <2>1, BeginChangeIs, PlaceFound DEF BeginChange, Unwritten
  <2>3. ChangeKept(g)
    BY <2>2 DEF ChangeKept
  <2>4. g \notin Movers /\ g \notin Joiners /\ g \notin Deleters
    BY <2>2 DEF Movers, Changers, Joiners, Deleters
  <2>5. PlaceKept(g)
    BY <2>3, <2>4 DEF PlaceKept
  <2> QED
    BY <2>1, <2>2, <2>5, QuietPlace
<1>2. ASSUME CheckTwice(r) PROVE PlaceInv'
  <2>1. PICK h : h = handler[r]
    OBVIOUS
  <2>2. PICK g : g = handler'[r]
    OBVIOUS
  <2>3. /\ StepOf(r) /\ UNCHANGED <<certificates, attendances>>
        /\ \/ g = Idle
           \/ /\ SameChange(h, g)
              /\ \A a \in SeatsOf(g.read.of) \ {g.seat} :
                   attendances[a].who # g.body.who
    BY <1>2, <2>1, <2>2, CheckTwiceIs, PlaceFound DEF CheckTwice, Unwritten
  <2>4. PlaceKept(g)
    <3>1. CASE g = Idle
      BY <3>1, NothingPlaced DEF Idle
    <3>2. CASE g # Idle
      <4>1. g \notin Movers /\ g \notin Joiners /\ g \notin Deleters
        BY <2>3, <3>2 DEF SameChange, Movers, Changers, Joiners, Deleters
      <4>2. ChangeKept(h)
        BY <2>1, <2>3, <3>2, PlaceFound DEF PlaceKept, SameChange
      <4>3. ChangeKept(g)
        BY <2>3, <3>2, <4>2 DEF ChangeKept, SameChange
      <4> QED
        BY <4>1, <4>3 DEF PlaceKept
    <3> QED
      BY <3>1, <3>2
  <2> QED
    BY <2>2, <2>3, <2>4, QuietPlace
<1>3. ASSUME CheckSubstitute(r) \/ CheckAttend(r) \/ CheckLimit(r) PROVE PlaceInv'
  <2>1. PICK h : h = handler[r]
    OBVIOUS
  <2>2. PICK g : g = handler'[r]
    OBVIOUS
  <2>3. /\ StepOf(r) /\ UNCHANGED <<certificates, attendances>>
        /\ g = Idle \/ (SameChange(h, g) /\ h.at # "twice")
    BY <1>3, <2>1, <2>2, CheckSubstituteIs, CheckAttendIs, CheckLimitIs, PlaceFound
    DEF CheckSubstitute, CheckAttend, CheckLimit, Unwritten
  <2>4. PlaceKept(g)
    <3>1. CASE g = Idle
      BY <3>1, NothingPlaced DEF Idle
    <3>2. CASE SameChange(h, g) /\ h.at # "twice"
      BY <2>1, <3>2, PlaceFound, PlaceOn
    <3> QED
      BY <2>3, <3>1, <3>2
  <2> QED
    BY <2>2, <2>3, <2>4, QuietPlace
<1>4. ASSUME SaveChange(r) PROVE PlaceInv'
  <2>1. PICK h : h = handler[r]
    OBVIOUS
  <2>2. PICK a : a = h.seat
    OBVIOUS
  <2>3. /\ StepOf(r) /\ handler'[r] = Idle /\ h \in Changers /\ h.at = "change"
        /\ \A b \in Seats \ {a} : attendances'[b] = attendances[b]
        /\ IF a \in Held THEN attendances'[a] = Changed(h, attendances[a])
                         ELSE attendances'[a] = NoAttendance
        /\ UNCHANGED certificates
    BY <1>4, <2>1, <2>2, SaveChangeIs, PlaceFound DEF SaveChange
  <2>4. OthersRest(r) /\ ChangeKept(h) /\ a \in Seats
    BY <2>1, <2>2, <2>3, PlaceFound DEF PlaceKept, Changers, LooksAt
  <2>5. CASE a \notin Held
    <3>1. \A b \in Seats : attendances'[b] \in {attendances[b], NoAttendance}
      BY <2>3, <2>5
    <3> QED
      BY <2>3, <3>1, LosingPlace
  <2>6. CASE a \in Held
    <3>1. PICK x : x = attendances[a]
      OBVIOUS
    <3>2. PICK y : y = attendances'[a]
      OBVIOUS
    <3>3. x \in Attendance
      BY <2>4, <2>6, <3>1, HeldTyped DEF PlaceInv, TypesInv
    <3>4. y \in Attendance /\ y.of = x.of /\ y.who = Given(h.body.who, x.who)
      BY <2>3, <2>6, <3>1, <3>2, <3>3, ChangedIs
    <3>5. /\ \A b \in Held' : b \in Held /\ attendances'[b].of = attendances[b].of
          /\ \A b \in Held' \ {a} : attendances'[b] = attendances[b]
      BY <2>3, <2>4, <2>6, <3>1, <3>2, <3>4 DEF Held
    <3>6. ASSUME NEW b \in Held' \ {a}, NEW c \in Cells,
                 attendances'[b].of = c, y.of = c
          PROVE  attendances'[b].who # y.who
      <4>1. c = h.read.of
        BY <2>2, <2>4, <2>6, <3>1, <3>4, <3>6 DEF ChangeKept, Cells
      <4>2. b \in SeatsOf(c) /\ a \in SeatsOf(c) /\ attendances'[b] = attendances[b]
        BY <2>6, <3>1, <3>4, <3>5, <3>6 DEF SeatsOf
      <4>3. attendances[b].who # x.who
        BY <3>1, <3>6, <4>2 DEF PlaceInv, OnePlaceEach
      <4>4. attendances[b].who # h.body.who
        BY <2>2, <2>3, <2>4, <3>6, <4>1, <4>2 DEF ChangeKept
      <4> QED
        BY <3>4, <4>2, <4>3, <4>4 DEF Given
    <3>7. OnePlaceEach'
      BY <3>2, <3>5, <3>6 DEF PlaceInv, OnePlaceEach, SeatsOf
    <3>8. OfKnown' /\ KnownStay
      BY <2>3, <3>5 DEF PlaceInv, OfKnown, KnownStay, Known
    <3>9. ASSUME NEW k \in Deleters, NEW s \in Requests \ {r}, k = handler[s]
          PROVE  DeleteKept(k)'
      BY <3>5, <3>9 DEF PlaceInv, PlaceKept, DeleteKept
    <3>10. PlaceKept(Idle)'
      BY NothingPlaced DEF Idle
    <3> QED
      BY <2>3, <2>4, <3>7, <3>8, <3>9, <3>10, PlaceConcludes
  <2> QED
    BY <2>5, <2>6
<1> QED
  BY <1>1, <1>2, <1>3, <1>4

(* Who attends the certificate there is at the beginning is there once.      *)
SeatedOnce ==
  \A a, b \in 1..Len(Seated) : Seated[a].who = Seated[b].who => a = b

(* The attendances there are at the beginning.                               *)
LEMMA SeatedAre ==
  ASSUME ScheduleInit
  PROVE  \A a \in Held : /\ a \in 1..Len(Seated) /\ ~attendances[a].attended
                         /\ attendances[a].of = 1
                         /\ attendances[a].who = Seated[a].who
<1>1. ASSUME NEW a \in Held
      PROVE  /\ a \in 1..Len(Seated)
             /\ attendances[a] = Seat(1, Seated[a].who, Seated[a].role)
  <2>1. a \in Seats /\ attendances[a] # NoAttendance
    BY <1>1 DEF Held
  <2>2. ~(a > Len(Seated))
    BY <2>1 DEF ScheduleInit
  <2> QED
    BY <2>1, <2>2, ScheduleAssumption DEF ScheduleInit, Seats
<1>2. ASSUME NEW a \in Held
      PROVE  /\ ~attendances[a].attended /\ attendances[a].of = 1
             /\ attendances[a].who = Seated[a].who
  <2>1. PICK who : who = Seated[a].who
    OBVIOUS
  <2>2. PICK role : role = Seated[a].role
    OBVIOUS
  <2>3. attendances[a] = Seat(1, who, role)
    BY <1>1, <2>1, <2>2
  <2>4. attendances[a].of = 1 /\ attendances[a].who = who /\ ~attendances[a].attended
    BY <2>3 DEF Seat
  <2> QED
    BY <2>1, <2>4
<1> QED
  BY <1>1, <1>2

LEMMA PlaceInit ==
  ASSUME SeatedOnce, ScheduleInit
  PROVE  PlaceInv
<1>1. TypesInv
  BY RoomInit DEF RoomInv
<1>2. OnePlaceEach
  BY SeatedAre DEF SeatedOnce, OnePlaceEach, SeatsOf
<1>3. Known(1)
  BY WrittenTyped, NoCertificateIsNone, ScheduleAssumption
  DEF ScheduleInit, Known, Cells
<1>4. OfKnown
  BY <1>3, SeatedAre DEF OfKnown
<1>5. \A r \in Requests : PlaceKept(handler[r])
  BY NothingPlaced DEF ScheduleInit, Idle
<1> QED
  BY <1>1, <1>2, <1>4, <1>5 DEF PlaceInv

LEMMA PlaceStep ==
  ASSUME Patient, OneRemoval, PlaceInv, [ScheduleNext]_scheduleVars
  PROVE  PlaceInv'
<1>1. CASE UNCHANGED scheduleVars
  BY <1>1 DEF scheduleVars, PlaceInv, TypesInv, ScheduleTypeOK, Alone, Looking,
     OnePlaceEach, OfKnown, PlaceKept, MoveKept, ChangeKept, JoinKept, DeleteKept,
     Known, SeatsOf, Held
<1>2. ASSUME NEW r \in Requests, NEW c \in Cells, CreateUndated(r, c)
      PROVE  PlaceInv'
  <2>1. TypesInv' /\ Save(c, Undated) /\ UNCHANGED <<attendances, handler>>
    BY <1>2, CreateUndatedIs DEF CreateUndated, PlaceInv
  <2>2. KnownStay
    BY <2>1, SavedTyped, WrittenTyped, NoCertificateIsNone
    DEF PlaceInv, KnownStay, Known
  <2>3. Loses
    BY <2>1 DEF Loses, Held
  <2>4. OnePlaceEach' /\ OfKnown'
    BY <2>2, <2>3, LosesPlaces
  <2>5. ASSUME NEW s \in Requests PROVE PlaceKept(handler[s])'
    <3>1. PICK h : h = handler[s] /\ h = handler'[s]
      BY <2>1
    <3>2. PlaceKept(h)
      BY <3>1 DEF PlaceInv
    <3>3. PlaceKept(h)'
      <4>1. CASE h \in Deleters
        <5>1. h.cert \in Cells /\ h \notin Movers /\ h \notin Changers
              /\ h \notin Joiners
          BY <4>1 DEF Deleters, Movers, Changers, Joiners
        <5>2. Known(h.cert)' /\ DeleteKept(h)'
          BY <2>1, <2>2, <3>2, <4>1, <5>1 DEF PlaceKept, KnownStay, DeleteKept, Held
        <5> QED
          BY <5>1, <5>2 DEF PlaceKept
      <4>2. CASE h \notin Deleters
        BY <2>2, <2>3, <3>2, <4>2, PlaceStays
      <4> QED
        BY <4>1, <4>2
    <3> QED
      BY <3>1, <3>3 DEF PlaceKept
  <2> QED
    BY <2>1, <2>4, <2>5 DEF PlaceInv
<1> QED
  BY <1>1, <1>2, CreatePlaceStep, MovePlaceStep, RemovalPlaceStep, JoinPlaceStep,
     ChangePlaceStep
  DEF ScheduleNext

-------------------------------------------------------------------------------
(***************************************************************************)
(* The limit (LimitKept).                                                  *)
(***************************************************************************)
(* The members who are present of those a handler has read.                  *)
MembersRead(h) ==
  {a \in Held \cap h.seats : attendances[a].attended /\ attendances[a].role \in Members}

(* An update that puts back what it read puts back no more than the limit;   *)
(* a change that marks a member present finds a place.                       *)
LimitFound(h) ==
  /\ h \in Movers => Cardinality(MembersRead(h)) <= Limit
  /\ h \in Changers /\ h.at = "change" /\ h.body.attended = "yes"
       /\ h.read.role \in Members
     => Cardinality(PresentMembers(h.read.of) \ {h.seat}) < Limit

LimitInv ==
  /\ \A c \in Cells : Cardinality(PresentMembers(c)) <= Limit
  /\ \A r \in Requests : LimitFound(handler[r])

(* Sets of places are finite.                                                *)
LEMMA SeatsCounted ==
  ASSUME NEW T, T \subseteq Seats
  PROVE  /\ IsFiniteSet(T) /\ Cardinality(T) \in Nat
         /\ \A S \in SUBSET T : Cardinality(S) \in Nat /\ Cardinality(S) <= Cardinality(T)
<1>1. IsFiniteSet(Seats)
  BY FS_Interval, ScheduleAssumption DEF Seats
<1>2. IsFiniteSet(T)
  BY <1>1, FS_Subset
<1>3. \A S \in SUBSET T :
        IsFiniteSet(S) /\ Cardinality(S) <= Cardinality(T) /\ Cardinality(S) \in Nat
  BY <1>2, FS_Subset, FS_CardinalityType
<1> QED
  BY <1>2, <1>3, FS_CardinalityType

LEMMA MembersAre ==
  /\ \A c : PresentMembers(c) \subseteq Seats
  /\ \A h : MembersRead(h) \subseteq Seats
  BY SeatsOfAre DEF PresentMembers, Present, MembersRead

(* No more are present where attendances only go.                            *)
LEMMA LosesMembers ==
  ASSUME Loses
  PROVE  /\ \A c \in Cells : PresentMembers(c)' \subseteq PresentMembers(c)
         /\ \A h : MembersRead(h)' \subseteq MembersRead(h)
<1>1. 0 \notin Cells
  BY DEF Cells
<1>2. \A c \in Cells : PresentMembers(c)' \subseteq PresentMembers(c)
  BY <1>1 DEF Loses, PresentMembers, Present, SeatsOf
<1>3. \A h : MembersRead(h)' \subseteq MembersRead(h)
  BY DEF Loses, MembersRead
<1> QED
  BY <1>2, <1>3

LEMMA LimitStays ==
  ASSUME Loses, NEW h, PlaceKept(h), LimitFound(h)
  PROVE  LimitFound(h)'
<1>1. ASSUME h \in Movers PROVE Cardinality(MembersRead(h)') <= Limit
  <2>1. /\ Cardinality(MembersRead(h)') \in Nat /\ Cardinality(MembersRead(h)) \in Nat
        /\ Cardinality(MembersRead(h)') <= Cardinality(MembersRead(h))
    BY LosesMembers, MembersAre, SeatsCounted
  <2> QED
    BY <1>1, <2>1 DEF LimitFound, Limit
<1>2. ASSUME h \in Changers, h.at = "change", h.body.attended = "yes",
             h.read.role \in Members
      PROVE  Cardinality(PresentMembers(h.read.of)' \ {h.seat}) < Limit
  <2>1. h.read.of \in Cells
    BY <1>2 DEF Changers, PlaceKept, ChangeKept, Attendance
  <2>2. PICK S : S = PresentMembers(h.read.of)' \ {h.seat}
    OBVIOUS
  <2>3. PICK T : T = PresentMembers(h.read.of) \ {h.seat}
    OBVIOUS
  <2>4. S \subseteq T /\ T \subseteq Seats
    BY <2>1, <2>2, <2>3, LosesMembers, MembersAre
  <2>5. /\ Cardinality(S) \in Nat /\ Cardinality(T) \in Nat
        /\ Cardinality(S) <= Cardinality(T)
    BY <2>4, SeatsCounted
  <2>6. Cardinality(T) < Limit
    BY <1>2, <2>3 DEF LimitFound
  <2> QED
    BY <2>2, <2>5, <2>6 DEF Limit
<1> QED
  BY <1>1, <1>2 DEF LimitFound

(* What a handler that is not of these has found.                            *)
LEMMA NothingLimited ==
  ASSUME NEW h, h \notin Movers, h.at # "change"
  PROVE  LimitFound(h) /\ LimitFound(h)'
  BY DEF LimitFound

(* What a step has to show.                                                  *)
LEMMA LimitConcludes ==
  ASSUME PlaceInv, LimitInv, NEW r \in Requests, StepOf(r),
         \/ Loses
         \/ /\ OthersRest(r)
            /\ \A c \in Cells : Cardinality(PresentMembers(c)') <= Limit,
         NEW g, g = handler'[r], LimitFound(g)'
  PROVE  LimitInv'
<1>1. \A c \in Cells : Cardinality(PresentMembers(c)') <= Limit
  <2>1. ASSUME Loses, NEW c \in Cells
        PROVE  Cardinality(PresentMembers(c)') <= Limit
    <3>1. /\ Cardinality(PresentMembers(c)') \in Nat
          /\ Cardinality(PresentMembers(c)) \in Nat
          /\ Cardinality(PresentMembers(c)') <= Cardinality(PresentMembers(c))
      BY <2>1, LosesMembers, MembersAre, SeatsCounted
    <3> QED
      BY <3>1 DEF LimitInv, Limit
  <2> QED
    BY <2>1
<1>2. ASSUME NEW s \in Requests PROVE LimitFound(handler[s])'
  <2>1. CASE s = r
    BY <2>1 DEF LimitFound
  <2>2. CASE s # r
    <3>1. PICK h : h = handler[s] /\ h = handler'[s]
      BY <2>2 DEF StepOf
    <3>2. LimitFound(h) /\ PlaceKept(h)
      BY <3>1 DEF LimitInv, PlaceInv
    <3>3. LimitFound(h)'
      <4>1. CASE Loses
        BY <3>2, <4>1, LimitStays
      <4>2. CASE OthersRest(r)
        <5>1. h.at \in {"idle", "delete", "strip", "drop"}
          BY <2>2, <3>1, <4>2 DEF OthersRest, Looking
        <5>2. h \notin Movers
          BY <5>1 DEF Movers
        <5> QED
          BY <5>1, <5>2, NothingLimited
      <4> QED
        BY <4>1, <4>2
    <3> QED
      BY <3>1, <3>3 DEF LimitFound
  <2> QED
    BY <2>1, <2>2
<1> QED
  BY <1>1, <1>2 DEF LimitInv

(* A step that leaves the attendances alone.                                 *)
LEMMA QuietLimit ==
  ASSUME PlaceInv, LimitInv, NEW r \in Requests, StepOf(r), UNCHANGED attendances,
         NEW g, g = handler'[r], LimitFound(g)
  PROVE  LimitInv'
<1>1. Loses
  BY DEF Loses, Held
<1>2. LimitFound(g)'
  BY DEF LimitFound, MembersRead, PresentMembers, Present, SeatsOf, Held
<1> QED
  BY <1>1, <1>2, LimitConcludes

(* What the steps that write attendances do to those who are present.        *)
LEMMA JoinWrites ==
  ASSUME PlaceInv, NEW r \in Requests, NEW a \in Seats, Join(r, a)
  PROVE  \A b \in Held' : attendances'[b].attended =>
           b \in Held /\ attendances'[b] = attendances[b]
<1>1. PICK x \in Attendance :
        attendances' = [attendances EXCEPT ![a] = x] /\ ~x.attended
  BY JoinIs, PlaceFound
<1> QED
  BY <1>1 DEF PlaceInv, TypesInv, ScheduleTypeOK, Held

LEMMA BackWrites ==
  ASSUME PlaceInv, NEW r \in Requests, SaveBack(r), NEW h, h = handler[r]
  PROVE  /\ OthersRest(r) /\ MoveKept(h) /\ h.cert \in Cells /\ h \in Movers
         /\ \A a \in Held' :
              /\ a \in Held /\ attendances'[a].who = attendances[a].who
              /\ attendances'[a].role = attendances[a].role
              /\ attendances'[a].attended = attendances[a].attended
              /\ attendances'[a].of = IF a \in h.seats THEN h.cert
                                      ELSE attendances[a].of
              /\ attendances[a].of = h.cert => a \in h.seats
<1>1. h \in Movers /\ SaveSeats(h.cert, h.seats)
  BY SaveBackIs, PlaceFound
<1>2. h.cert \in Cells /\ LooksAt(h)
  BY <1>1 DEF Movers, LooksAt
<1>3. OthersRest(r) /\ MoveKept(h)
  BY <1>1, <1>2, PlaceFound DEF PlaceKept
<1>4. \A a \in Held : attendances[a].of = h.cert => a \in h.seats
  BY <1>3 DEF MoveKept, SeatsOf
<1> QED
  BY <1>1, <1>2, <1>3, <1>4, PlaceFound, SeatsSavedIs

(* A change of an attendance makes nobody else present.                      *)
LEMMA ChangeWrites ==
  ASSUME PlaceInv, NEW r \in Requests, SaveChange(r),
         NEW h, h = handler[r]
  PROVE  /\ OthersRest(r) /\ ChangeKept(h) /\ h \in Changers /\ h.at = "change"
         /\ \A b \in Held' :
              /\ b \in Held /\ attendances'[b].of = attendances[b].of
              /\ b # h.seat => attendances'[b] = attendances[b]
              /\ RolesKept => attendances'[b].role = attendances[b].role
              /\ attendances'[b].attended =>
                   /\ attendances'[b].who = attendances[b].who
                   /\ attendances[b].attended
                        \/ (b = h.seat /\ h.body.attended = "yes")
<1>1. PICK a : a = h.seat
  OBVIOUS
<1>2. /\ StepOf(r) /\ h \in Changers /\ h.at = "change"
      /\ \A b \in Seats \ {a} : attendances'[b] = attendances[b]
      /\ IF a \in Held THEN attendances'[a] = Changed(h, attendances[a])
                       ELSE attendances'[a] = NoAttendance
  BY <1>1, SaveChangeIs, PlaceFound
<1>3. OthersRest(r) /\ ChangeKept(h) /\ a \in Seats
  BY <1>1, <1>2, PlaceFound DEF PlaceKept, Changers, LooksAt
<1>4. RolesKept => h.body.role = "same"
  BY <1>2 DEF RolesKept, Changers
<1>5. ASSUME a \in Held
      PROVE  /\ attendances'[a].of = attendances[a].of
             /\ RolesKept => attendances'[a].role = attendances[a].role
             /\ attendances'[a].attended =>
                  /\ attendances'[a].who = attendances[a].who
                  /\ attendances[a].attended \/ h.body.attended = "yes"
  <2>1. PICK x : x = attendances[a]
    OBVIOUS
  <2>2. PICK y : y = attendances'[a]
    OBVIOUS
  <2>3. x \in Attendance /\ x.who = h.read.who
    BY <1>1, <1>3, <1>5, <2>1, HeldTyped DEF PlaceInv, TypesInv, ChangeKept
  <2>4. /\ y.of = x.of
        /\ y.who = Given(h.body.who, x.who) /\ y.role = Given(h.body.role, x.role)
        /\ y.attended = (~Substitutes(h) /\ Flag(h.body.attended, x.attended))
    BY <1>2, <1>5, <2>1, <2>2, <2>3, ChangedIs
  <2>5. RolesKept => y.role = x.role
    BY <1>4, <2>4 DEF Given
  <2>6. y.attended => x.attended \/ h.body.attended = "yes"
    BY <2>4 DEF Flag
  <2>7. y.attended => y.who = x.who
    BY <2>3, <2>4 DEF Given, Substitutes
  <2> QED
    BY <2>1, <2>2, <2>4, <2>5, <2>6, <2>7
<1> QED
  BY <1>1, <1>2, <1>3, <1>5 DEF Held

LEMMA MoveLimitStep ==
  ASSUME Patient, PlaceInv, LimitInv, NEW r \in Requests
  PROVE  /\ \A c \in Cells, slot \in Slots, closed \in BOOLEAN :
              BeginMove(r, c, slot, closed) => LimitInv'
         /\ CheckMoveRoom(r) \/ CheckMembers(r) \/ SaveMove(r) => LimitInv'
         /\ SaveBack(r) => LimitInv'
<1>1. ASSUME NEW c \in Cells, NEW slot \in Slots, NEW closed \in BOOLEAN,
             BeginMove(r, c, slot, closed)
      PROVE  LimitInv'
  <2>1. PICK g : g = handler'[r]
    OBVIOUS
  <2>2. StepOf(r) /\ g \in Movers /\ g.seats = SeatsOf(c) /\ UNCHANGED attendances
    BY <1>1, <2>1, BeginMoveIs, PlaceFound DEF BeginMove, Unwritten
  <2>3. MembersRead(g) = PresentMembers(c)
    BY <2>2 DEF MembersRead, PresentMembers, Present, SeatsOf
  <2>4. g \notin Changers
    BY <2>2 DEF Movers, Changers
  <2>5. LimitFound(g)
    BY <2>3, <2>4 DEF LimitFound, LimitInv
  <2> QED
    BY <2>1, <2>2, <2>5, QuietLimit
<1>2. ASSUME CheckMoveRoom(r) \/ CheckMembers(r) \/ SaveMove(r) PROVE LimitInv'
  <2>1. PICK h : h = handler[r]
    OBVIOUS
  <2>2. PICK g : g = handler'[r]
    OBVIOUS
  <2>3. StepOf(r) /\ (g = Idle \/ SameMove(h, g)) /\ UNCHANGED attendances
    BY <1>2, <2>1, <2>2, CheckMoveRoomIs, CheckMembersIs, SaveMoveIs, PlaceFound
    DEF CheckMoveRoom, CheckMembers, Unwritten
  <2>4. LimitFound(g)
    <3>1. CASE g = Idle
      <4>1. g.at = "idle" /\ g \notin Movers
        BY <3>1 DEF Idle, Movers
      <4> QED
        BY <4>1, NothingLimited
    <3>2. CASE SameMove(h, g)
      <4>1. h \in Movers /\ g \notin Changers /\ g.seats = h.seats
        BY <3>2 DEF SameMove, Movers, Changers
      <4>2. LimitFound(h)
        BY <2>1 DEF LimitInv
      <4> QED
        BY <4>1, <4>2 DEF LimitFound, MembersRead
    <3> QED
      BY <2>3, <3>1, <3>2
  <2> QED
    BY <2>2, <2>3, <2>4, QuietLimit
<1>3. ASSUME SaveBack(r) PROVE LimitInv'
  <2>1. PICK h : h = handler[r]
    OBVIOUS
  <2>2. StepOf(r) /\ handler'[r] = Idle /\ OthersRest(r) /\ h \in Movers
    BY <1>3, <2>1, SaveBackIs, BackWrites, PlaceFound
  <2>3. ASSUME NEW c \in Cells
        PROVE  Cardinality(PresentMembers(c)') <= Limit
    <3>1. PICK T : T = IF c = h.cert THEN MembersRead(h) ELSE PresentMembers(c)
      OBVIOUS
    <3>2. PresentMembers(c)' \subseteq T
      BY <1>3, <2>1, <3>1, BackWrites
      DEF PresentMembers, Present, SeatsOf, MembersRead
    <3>3. T \subseteq Seats
      BY <3>1, MembersAre
    <3>4. Cardinality(T) <= Limit
      BY <2>1, <2>2, <3>1 DEF LimitInv, LimitFound
    <3>5. /\ Cardinality(PresentMembers(c)') \in Nat /\ Cardinality(T) \in Nat
          /\ Cardinality(PresentMembers(c)') <= Cardinality(T)
      BY <3>2, <3>3, SeatsCounted
    <3> QED
      BY <3>4, <3>5 DEF Limit
  <2>4. LimitFound(Idle)'
    <3>1. Idle.at = "idle" /\ Idle \notin Movers
      BY DEF Idle, Movers
    <3> QED
      BY <3>1, NothingLimited
  <2> QED
    BY <2>2, <2>3, <2>4, LimitConcludes
<1> QED
  BY <1>1, <1>2, <1>3

(* A step that ends in none of these takes none of the places.               *)
LEMMA LosingLimit ==
  ASSUME PlaceInv, LimitInv, NEW r \in Requests, StepOf(r), Loses,
         NEW g, g = handler'[r],
         g.at \in {"idle", "room", "insert", "delete", "strip", "drop", "free", "join",
                   "twice", "substitute", "attend", "limit"}
  PROVE  LimitInv'
<1>1. g \notin Movers /\ g.at # "change"
  BY DEF Movers
<1> QED
  BY <1>1, NothingLimited, LimitConcludes

LEMMA ChangeLimitStep ==
  ASSUME RolesKept, Patient, PlaceInv, LimitInv, NEW r \in Requests
  PROVE  /\ CheckSubstitute(r) \/ CheckAttend(r) \/ CheckLimit(r) => LimitInv'
         /\ SaveChange(r) => LimitInv'
<1>1. ASSUME CheckSubstitute(r) \/ CheckAttend(r) \/ CheckLimit(r) PROVE LimitInv'
  <2>1. PICK h : h = handler[r]
    OBVIOUS
  <2>2. PICK g : g = handler'[r]
    OBVIOUS
  <2>3. /\ StepOf(r) /\ UNCHANGED attendances
        /\ \/ g = Idle
           \/ g \in Changers /\ g.at \in {"attend", "limit"}
           \/ g \in Changers /\ g.at = "change" /\ g.body.attended = "same"
           \/ /\ g \in Changers /\ g.at = "change"
              /\ g.body.attended = "yes" /\ g.read.role \in Members =>
                   ~(Cardinality(PresentMembers(g.read.of) \ {g.seat}) >= Limit)
    BY <1>1, <2>1, <2>2, CheckSubstituteIs, CheckAttendIs, CheckLimitIs, PlaceFound
    DEF CheckSubstitute, CheckAttend, CheckLimit, Unwritten, SameChange
  <2>4. LimitFound(g)
    <3>1. g \notin Movers
      BY <2>3 DEF Idle, Changers, Movers
    <3>2. PICK S : S = PresentMembers(g.read.of) \ {g.seat}
      OBVIOUS
    <3>3. Cardinality(S) \in Nat
      BY <3>2, MembersAre, SeatsCounted
    <3>4. ~(Cardinality(S) >= Limit) => Cardinality(S) < Limit
      BY <3>3 DEF Limit
    <3> QED
      BY <2>3, <3>1, <3>2, <3>4 DEF LimitFound, Idle
  <2> QED
    BY <2>2, <2>3, <2>4, QuietLimit
<1>2. ASSUME SaveChange(r) PROVE LimitInv'
  <2>1. PICK h : h = handler[r]
    OBVIOUS
  <2>2. /\ StepOf(r) /\ handler'[r] = Idle /\ OthersRest(r)
        /\ h \in Changers /\ h.at = "change" /\ ChangeKept(h)
    BY <1>2, <2>1, SaveChangeIs, ChangeWrites, PlaceFound
  <2>3. ASSUME NEW c \in Cells
        PROVE  Cardinality(PresentMembers(c)') <= Limit
    <3>1. PICK S : S = PresentMembers(c)'
      OBVIOUS
    <3>2. PICK T : T = PresentMembers(c)
      OBVIOUS
    <3>3. /\ S \subseteq Seats /\ T \subseteq Seats
          /\ Cardinality(S) \in Nat /\ Cardinality(T) \in Nat
          /\ Cardinality(T) <= Limit
      <4>1. S \subseteq Seats /\ T \subseteq Seats
        BY <3>1, <3>2 DEF PresentMembers, Present, SeatsOf, Held
      <4> QED
        BY <3>2, <4>1, SeatsCounted DEF LimitInv
    <3>4. \A a \in S : a \in T \/ (a = h.seat /\ h.body.attended = "yes")
      BY <1>2, <2>1, <3>1, <3>2, ChangeWrites
      DEF PresentMembers, Present, SeatsOf
    <3>5. CASE S \subseteq T
      BY <3>1, <3>3, <3>5, SeatsCounted DEF Limit
    <3>6. CASE ~(S \subseteq T)
      <4>1. h.seat \in S /\ h.body.attended = "yes"
        BY <3>4, <3>6
      <4>2. /\ h.seat \in Held /\ attendances[h.seat].of = c
            /\ attendances[h.seat].role \in Members
        BY <1>2, <2>1, <3>1, <4>1, ChangeWrites DEF PresentMembers, Present, SeatsOf
      <4>3. h.read.of = c /\ h.read.role \in Members
        BY <2>2, <4>2 DEF ChangeKept, Cells
      <4>4. Cardinality(T \ {h.seat}) < Limit
        BY <2>1, <2>2, <3>2, <4>1, <4>3 DEF LimitInv, LimitFound
      <4>5. PICK R : R = T \ {h.seat}
        OBVIOUS
      <4>6. IsFiniteSet(R) /\ Cardinality(R) \in Nat
        BY <3>3, <4>5, SeatsCounted
      <4>7. /\ IsFiniteSet(R \cup {h.seat})
            /\ Cardinality(R \cup {h.seat}) = Cardinality(R) + 1
        BY <4>5, <4>6, FS_AddElement
      <4>8. S \subseteq R \cup {h.seat}
        BY <3>4, <4>5
      <4>9. Cardinality(S) <= Cardinality(R \cup {h.seat})
        BY <4>7, <4>8, FS_Subset
      <4> QED
        BY <3>1, <3>3, <4>4, <4>5, <4>6, <4>7, <4>9 DEF Limit
    <3> QED
      BY <3>5, <3>6
  <2>4. LimitFound(Idle)'
    <3>1. Idle.at = "idle" /\ Idle \notin Movers
      BY DEF Idle, Movers
    <3> QED
      BY <3>1, NothingLimited
  <2> QED
    BY <2>2, <2>3, <2>4, LimitConcludes
<1> QED
  BY <1>1, <1>2

LEMMA LimitInit == ScheduleInit => LimitInv
<1> SUFFICES ASSUME ScheduleInit PROVE LimitInv
  OBVIOUS
<1>1. \A c : PresentMembers(c) = {}
  BY SeatedAre DEF PresentMembers, Present, SeatsOf
<1>2. \A c \in Cells : Cardinality(PresentMembers(c)) <= Limit
  BY <1>1, FS_EmptySet DEF Limit
<1>3. \A r \in Requests : LimitFound(handler[r])
  <2>1. Idle.at = "idle" /\ Idle \notin Movers
    BY DEF Idle, Movers
  <2>2. LimitFound(Idle)
    BY <2>1, NothingLimited
  <2> QED
    BY <2>2 DEF ScheduleInit
<1> QED
  BY <1>2, <1>3 DEF LimitInv

LEMMA LimitStep ==
  ASSUME RolesKept, Patient, PlaceInv, LimitInv, [ScheduleNext]_scheduleVars
  PROVE  LimitInv'
<1>1. CASE UNCHANGED scheduleVars
  BY <1>1 DEF scheduleVars, LimitInv, LimitFound, MembersRead, PresentMembers,
     Present, SeatsOf, Held
<1>2. ASSUME NEW r \in Requests, NEW c \in Cells, CreateUndated(r, c)
      PROVE  LimitInv'
  BY <1>2 DEF CreateUndated, LimitInv, LimitFound, MembersRead, PresentMembers,
     Present, SeatsOf, Held
<1>3. ASSUME NEW r \in Requests,
             \/ \E c \in Cells : Insert(r, c) \/ BeginRemoval(r, c)
             \/ \E slot \in Slots : BeginCreate(r, slot)
             \/ CheckRoom(r) \/ Delete(r) \/ Strip(r) \/ Drop(r)
             \/ \E c \in Cells, j \in Joins : BeginJoin(r, c, j.who, j.role)
             \/ CheckFree(r)
             \/ \E a \in Seats : \/ BeginDrop(r, a)
                                 \/ \E body \in Changes : BeginChange(r, a, body)
             \/ CheckTwice(r)
      PROVE  LimitInv'
  <2>1. PICK g : g = handler'[r]
    OBVIOUS
  <2>2. TypesInv
    BY DEF PlaceInv
  <2>3. UNCHANGED attendances => Loses
    BY DEF Loses, Held
  <2>4. (\A a \in Seats : attendances'[a] \in {attendances[a], NoAttendance}) => Loses
    BY DEF Loses, Held
  <2>5. ASSUME NEW c \in Cells, Insert(r, c)
        PROVE  StepOf(r) /\ Loses /\ g.at = "idle"
    BY <2>1, <2>2, <2>3, <2>5, InsertIs DEF Idle
  <2>6. ASSUME NEW c \in Cells, BeginRemoval(r, c)
        PROVE  StepOf(r) /\ Loses /\ g.at = "delete"
    BY <2>1, <2>2, <2>3, <2>6, BeginRemovalIs DEF Deleters, BeginRemoval
  <2>7. ASSUME NEW slot \in Slots, BeginCreate(r, slot)
        PROVE  StepOf(r) /\ Loses /\ g.at = "room"
    BY <2>1, <2>2, <2>3, <2>7, BeginCreateIs DEF BeginCreate, Unwritten
  <2>8. CheckRoom(r) => StepOf(r) /\ Loses /\ g.at \in {"idle", "insert"}
    BY <2>1, <2>2, <2>3, CheckRoomIs DEF CheckRoom, Unwritten, Idle
  <2>9. Delete(r) => StepOf(r) /\ Loses /\ g.at = "strip"
    BY <2>1, <2>2, DeleteIs, DeleteTakes DEF Strippers
  <2>10. Strip(r) => StepOf(r) /\ Loses /\ g.at = "idle"
    BY <2>1, <2>2, <2>4, StripIs DEF Strip, Idle
  <2>11. Drop(r) => StepOf(r) /\ Loses /\ g.at = "idle"
    <3>1. Drop(r) => StepOf(r) /\ handler'[r] = Idle
      BY <2>2, DropIs
    <3>2. Drop(r) =>
            \A a \in Seats : attendances'[a] \in {attendances[a], NoAttendance}
      BY <2>2 DEF Drop, TypesInv, ScheduleTypeOK
    <3> QED
      BY <2>1, <2>4, <3>1, <3>2 DEF Idle
  <2>12. ASSUME NEW c \in Cells, NEW j \in Joins, BeginJoin(r, c, j.who, j.role)
         PROVE  StepOf(r) /\ Loses /\ g.at \in {"free", "join"}
    BY <2>1, <2>2, <2>3, <2>12, BeginJoinIs DEF BeginJoin, Unwritten, Joiners
  <2>13. CheckFree(r) => StepOf(r) /\ Loses /\ g.at \in {"idle", "free", "join"}
    BY <2>1, <2>2, <2>3, CheckFreeIs DEF CheckFree, Unwritten, Idle, SameJoin, Joiners
  <2>14. ASSUME NEW a \in Seats, BeginDrop(r, a)
         PROVE  StepOf(r) /\ Loses /\ g.at = "drop"
    BY <2>1, <2>2, <2>3, <2>14, BeginDropIs DEF BeginDrop, Droppers
  <2>15. ASSUME NEW a \in Seats, NEW body \in Changes, BeginChange(r, a, body)
         PROVE  StepOf(r) /\ Loses /\ g.at = "twice"
    BY <2>1, <2>2, <2>3, <2>15, BeginChangeIs DEF BeginChange, Unwritten
  <2>16. CheckTwice(r) => StepOf(r) /\ Loses /\ g.at \in {"idle", "substitute"}
    BY <2>1, <2>2, <2>3, CheckTwiceIs DEF CheckTwice, Unwritten, Idle
  <2>17. StepOf(r) /\ Loses /\ g.at \in {"idle", "room", "insert", "delete", "strip",
           "drop", "free", "join", "twice", "substitute", "attend", "limit"}
    BY <1>3, <2>5, <2>6, <2>7, <2>8, <2>9, <2>10, <2>11, <2>12, <2>13, <2>14,
       <2>15, <2>16
  <2> QED
    BY <2>1, <2>17, LosingLimit
<1>4. ASSUME NEW r \in Requests, NEW a \in Seats, Join(r, a) PROVE LimitInv'
  <2>1. /\ StepOf(r) /\ handler'[r] = Idle /\ handler[r] \in Joiners
    BY <1>4, JoinIs, PlaceFound
  <2>2. OthersRest(r)
    BY <2>1, PlaceFound DEF Joiners, LooksAt
  <2>3. ASSUME NEW c \in Cells
        PROVE  Cardinality(PresentMembers(c)') <= Limit
    <3>1. PresentMembers(c)' \subseteq PresentMembers(c)
      BY <1>4, JoinWrites DEF PresentMembers, Present, SeatsOf
    <3>2. /\ Cardinality(PresentMembers(c)') \in Nat
          /\ Cardinality(PresentMembers(c)) \in Nat
          /\ Cardinality(PresentMembers(c)') <= Cardinality(PresentMembers(c))
      BY <3>1, MembersAre, SeatsCounted
    <3> QED
      BY <3>2 DEF LimitInv, Limit
  <2>4. LimitFound(Idle)'
    <3>1. Idle.at = "idle" /\ Idle \notin Movers
      BY DEF Idle, Movers
    <3> QED
      BY <3>1, NothingLimited
  <2> QED
    BY <2>1, <2>2, <2>3, <2>4, LimitConcludes
<1> QED
  BY <1>1, <1>2, <1>3, <1>4, MoveLimitStep, ChangeLimitStep DEF ScheduleNext

(* Where nobody who attends changes roles, what looks the schedule up waits  *)
(* for others that do, and no certificate is removed twice at once: nobody   *)
(* has two places at a certificate, and no more members are present than its *)
(* document names, whoever is added, substituted or marked present while     *)
(* updates are refused and put back what they read.                          *)
THEOREM MembersAreInOrder ==
  ASSUME RolesKept, SeatedOnce, Patient
  PROVE  ScheduleSpec /\ []OneRemoval => []ScheduleInv
<1>1. ScheduleInit => PlaceInv /\ LimitInv
  BY PlaceInit, LimitInit
<1>2. PlaceInv /\ LimitInv /\ OneRemoval /\ [ScheduleNext]_scheduleVars
        => PlaceInv' /\ LimitInv'
  BY PlaceStep, LimitStep
<1>3. PlaceInv /\ LimitInv => ScheduleInv
  BY DEF PlaceInv, LimitInv, TypesInv, ScheduleInv, LimitKept, Open
<1> QED
  BY <1>1, <1>2, <1>3, PTL DEF ScheduleSpec

-------------------------------------------------------------------------------
(***************************************************************************)
(* Two places at a time (NotTwoPlaces).                                    *)
(***************************************************************************)
(* Somebody is present at an open certificate, other than c, while x lasts.  *)
Busy(who, x, c) ==
  \E d \in Open \ {c} :
    /\ Shares(certificates[d], x)
    /\ \E a \in Present(d) : attendances[a].who = who

(* An update: who was read as present is nowhere else at the time that was   *)
(* read, nor, once looked up, at the time asked for.                         *)
MoveFree(h) ==
  \A a \in Held \cap h.seats :
    attendances[a].attended =>
      /\ h.read.closed \/ ~Busy(attendances[a].who, h.read, h.cert)
      /\ h.at = "move" => ~Busy(attendances[a].who, h.slot, h.cert)

(* A change that marks somebody present: they are nowhere else.              *)
ChangeFree(h) ==
  h.at \in {"limit", "change"} /\ h.body.attended = "yes" /\ Counted(h.read.of)
    => ~Busy(h.read.who, certificates[h.read.of], h.read.of)

BusyKept(h) ==
  /\ h \in Movers => MoveFree(h)
  /\ h \in Changers => ChangeFree(h)

(* NotTwoPlaces, of one who is present.                                      *)
NoneBusy ==
  \A c \in Open : \A a \in Present(c) :
    ~Busy(attendances[a].who, certificates[c], c)

BusyInv == NoneBusy /\ \A r \in Requests : BusyKept(handler[r])

LEMMA NoneBusyPlaces == NoneBusy => NotTwoPlaces
<1> SUFFICES ASSUME NoneBusy, NEW c \in Open, NEW d \in Open, c # d,
                    Shares(certificates[c], certificates[d]),
                    NEW a \in Present(c), NEW b \in Present(d),
                    attendances[a].who = attendances[b].who
             PROVE  FALSE
  BY DEF NotTwoPlaces
<1>1. ~Busy(attendances[a].who, certificates[c], c)
  BY DEF NoneBusy
<1>2. Shares(certificates[d], certificates[c])
  BY DEF Shares
<1> QED
  BY <1>1, <1>2 DEF Busy

(* Nobody comes to be present.                                               *)
Leaves ==
  \A c \in Cells : \A a \in Present(c)' :
    a \in Present(c) /\ attendances'[a].who = attendances[a].who

LEMMA BusyStays ==
  ASSUME Fewer, Leaves, NEW who, NEW x, NEW c, Busy(who, x, c)'
  PROVE  Busy(who, x, c)
<1>1. PICK d \in Open' \ {c} :
        /\ Shares(certificates'[d], x)
        /\ \E a \in Present(d)' : attendances'[a].who = who
  BY DEF Busy
<1>2. d \in Open /\ certificates'[d] = certificates[d]
  BY <1>1 DEF Fewer, Shares
<1>3. d \in Cells
  BY <1>2 DEF Open
<1> QED
  BY <1>1, <1>2, <1>3 DEF Leaves, Busy

(* Where attendances only go, nobody comes to be present.                    *)
LEMMA LosesLeaves == Loses => Leaves
<1> SUFFICES ASSUME Loses, NEW c \in Cells, NEW a \in Present(c)'
             PROVE  a \in Present(c) /\ attendances'[a].who = attendances[a].who
  BY DEF Leaves
<1>1. 0 \notin Cells
  BY DEF Cells
<1> QED
  BY <1>1 DEF Loses, Present, SeatsOf

LEMMA LeavesPlaces ==
  ASSUME Fewer, Leaves, NoneBusy
  PROVE  NoneBusy'
<1> SUFFICES ASSUME NEW c \in Open', NEW a \in Present(c)',
                    Busy(attendances[a].who, certificates[c], c)'
             PROVE  FALSE
  BY DEF NoneBusy
<1>1. PICK who : who = attendances'[a].who
  OBVIOUS
<1>2. PICK x : x = certificates'[c]
  OBVIOUS
<1>3. Busy(who, x, c)'
  BY <1>1, <1>2 DEF Busy
<1>4. Busy(who, x, c)
  BY <1>3, BusyStays
<1>5. c \in Open /\ certificates[c] = x
  BY <1>2, <1>4 DEF Fewer, Busy, Shares
<1>6. a \in Present(c) /\ attendances[a].who = who
  BY <1>1, <1>5 DEF Leaves, Open
<1> QED
  BY <1>4, <1>5, <1>6 DEF NoneBusy

(* What a handler has found stays where certificates and attendances go.     *)
LEMMA BusyKeptStays ==
  ASSUME Fewer, Loses, NEW h, PlaceKept(h), BusyKept(h)
  PROVE  BusyKept(h)'
<1>1. \A who, x, c : Busy(who, x, c)' => Busy(who, x, c)
  BY BusyStays, LosesLeaves
<1>2. ASSUME h \in Movers PROVE MoveFree(h)'
  <2>1. \A a \in Held' :
          /\ a \in Held /\ attendances'[a].who = attendances[a].who
          /\ attendances'[a].attended = attendances[a].attended
    BY DEF Loses
  <2>2. MoveFree(h)
    BY <1>2 DEF BusyKept
  <2> QED
    BY <1>1, <2>1, <2>2 DEF MoveFree
<1>3. ASSUME h \in Changers PROVE ChangeFree(h)'
  <2> SUFFICES ASSUME h.at \in {"limit", "change"}, h.body.attended = "yes",
                      Counted(h.read.of)',
                      Busy(h.read.who, certificates[h.read.of], h.read.of)'
               PROVE  FALSE
    BY DEF ChangeFree
  <2>1. PICK x : x = certificates'[h.read.of]
    OBVIOUS
  <2>2. Busy(h.read.who, x, h.read.of)'
    BY <2>1 DEF Busy
  <2>3. Busy(h.read.who, x, h.read.of)
    BY <1>1, <2>2
  <2>4. h.read.of \in Open'
    BY <1>3 DEF Changers, Attendance, PlaceKept, ChangeKept, Open
  <2>5. x.start # NoDate
    BY <2>3 DEF Busy, Shares
  <2>6. h.read.of \in Open /\ certificates[h.read.of] = x
    BY <2>1, <2>4, <2>5 DEF Fewer
  <2> QED
    BY <1>3, <2>3, <2>6 DEF BusyKept, ChangeFree, Open
<1> QED
  BY <1>2, <1>3 DEF BusyKept

(* What a handler that is not of these has found.                            *)
LEMMA NothingBusy ==
  ASSUME NEW h,
         h.at \notin {"moveRoom", "members", "move", "back", "limit", "change"}
  PROVE  BusyKept(h) /\ BusyKept(h)'
<1>1. h \notin Movers
  BY DEF Movers
<1> QED
  BY <1>1 DEF BusyKept, ChangeFree

(* What a step has to show.                                                  *)
LEMMA BusyConcludes ==
  ASSUME PlaceInv, BusyInv, NEW r \in Requests, StepOf(r),
         \/ Fewer /\ Loses
         \/ OthersRest(r) /\ NoneBusy',
         NEW g, g = handler'[r], BusyKept(g)'
  PROVE  BusyInv'
<1>1. NoneBusy'
  BY LosesLeaves, LeavesPlaces DEF BusyInv
<1>2. ASSUME NEW s \in Requests PROVE BusyKept(handler[s])'
  <2>1. CASE s = r
    BY <2>1 DEF BusyKept
  <2>2. CASE s # r
    <3>1. PICK h : h = handler[s] /\ h = handler'[s]
      BY <2>2 DEF StepOf
    <3>2. BusyKept(h) /\ PlaceKept(h)
      BY <3>1 DEF BusyInv, PlaceInv
    <3>3. BusyKept(h)'
      <4>1. CASE Fewer /\ Loses
        BY <3>2, <4>1, BusyKeptStays
      <4>2. CASE OthersRest(r)
        <5>1. h.at \in {"idle", "delete", "strip", "drop"}
          BY <2>2, <3>1, <4>2 DEF OthersRest, Looking
        <5> QED
          BY <5>1, NothingBusy
      <4> QED
        BY <4>1, <4>2
    <3> QED
      BY <3>1, <3>3 DEF BusyKept
  <2> QED
    BY <2>1, <2>2
<1> QED
  BY <1>1, <1>2 DEF BusyInv

(* A step that leaves both tables alone.                                     *)
LEMMA QuietBusy ==
  ASSUME PlaceInv, BusyInv, NEW r \in Requests, StepOf(r),
         UNCHANGED <<certificates, attendances>>,
         NEW g, g = handler'[r], BusyKept(g)
  PROVE  BusyInv'
<1>1. Fewer /\ Loses
  BY DEF Fewer, Loses, Open, Counted, Live, Held
<1>2. BusyKept(g)'
  BY DEF BusyKept, MoveFree, ChangeFree, Busy, Open, Counted, Live, Present,
     SeatsOf, Held
<1> QED
  BY <1>1, <1>2, BusyConcludes

(* Who is nowhere else for the query is nowhere else.                        *)
LEMMA FreeElsewhere ==
  ASSUME EndsDiffer, RoomInv, NEW who, NEW c \in Cells, NEW x, Timed(x),
         ~Elsewhere(who, c, x.start, x.duration)
  PROVE  ~Busy(who, x, c)
<1> SUFFICES ASSUME NEW d \in Open \ {c}, Shares(certificates[d], x),
                    NEW a \in Present(d), attendances[a].who = who
             PROVE  FALSE
  BY DEF Busy
<1>1. PICK s \in Slots : x.start = s.start /\ x.duration = s.duration
  BY DEF Timed, Shares
<1>2. d \in Cells /\ Counted(d) /\ d \notin {0, c}
  BY DEF Open, Cells
<1>3. certificates[d] \in Certificate \cup {NoCertificate} /\ Timed(certificates[d])
  BY <1>2 DEF RoomInv, TypesInv, ScheduleTypeOK
<1>4. Shares(certificates[d], s)
  BY <1>1 DEF Shares
<1>5. Meets(certificates[d], x.start, x.duration)
  BY <1>1, <1>3, <1>4, NotMet
<1>6. a \in Held /\ attendances[a].of = d /\ attendances[a].attended
  BY DEF Present, SeatsOf
<1> QED
  BY <1>2, <1>5, <1>6 DEF Elsewhere

(* Nobody but at c comes to be present.                                      *)
LeavesBut(c) ==
  \A d \in Cells \ {c} : \A a \in Present(d)' :
    a \in Present(d) /\ attendances'[a].who = attendances[a].who

(* Where one certificate alone changes, or who is present there.             *)
LEMMA BusyOfOne ==
  ASSUME NoneBusy, NEW c \in Cells, OnlyAt(c), LeavesBut(c),
         NEW x, x = certificates'[c],
         c \in Open' => \A a \in Present(c)' : ~Busy(attendances'[a].who, x, c)
  PROVE  NoneBusy'
<1> SUFFICES ASSUME NEW d \in Open', NEW a \in Present(d)',
                    Busy(attendances[a].who, certificates[d], d)'
             PROVE  FALSE
  BY DEF NoneBusy
<1>1. PICK e \in Open' \ {d} :
        /\ Shares(certificates'[e], certificates'[d])
        /\ \E b \in Present(e)' : attendances'[b].who = attendances'[a].who
  BY DEF Busy
<1>2. PICK b \in Present(e)' : attendances'[b].who = attendances'[a].who
  BY <1>1
<1>3. d \in Cells /\ e \in Cells
  BY DEF Open
<1>4. \A p \in Open' \ {c} : p \in Open /\ certificates'[p] = certificates[p]
  BY DEF OnlyAt, Open, Counted, Live
<1>5. CASE d = c
  <2>1. e \in Open /\ certificates'[e] = certificates[e] /\ e # c
    BY <1>4, <1>5
  <2>2. b \in Present(e) /\ attendances[b].who = attendances'[a].who
    BY <1>2, <1>3, <2>1 DEF LeavesBut
  <2>3. Busy(attendances'[a].who, x, c)
    BY <1>1, <1>5, <2>1, <2>2 DEF Busy
  <2> QED
    BY <1>5, <2>3
<1>6. CASE e = c
  <2>1. d \in Open /\ certificates'[d] = certificates[d] /\ d # c
    BY <1>1, <1>4, <1>6
  <2>2. a \in Present(d) /\ attendances[a].who = attendances'[a].who
    BY <1>3, <2>1 DEF LeavesBut
  <2>3. Shares(certificates[d], x)
    BY <1>1, <1>6, <2>1 DEF Shares
  <2>4. Busy(attendances'[b].who, x, c)
    BY <1>2, <2>1, <2>2, <2>3 DEF Busy
  <2> QED
    BY <1>6, <2>4
<1>7. CASE d # c /\ e # c
  <2>1. /\ d \in Open /\ certificates'[d] = certificates[d]
        /\ e \in Open /\ certificates'[e] = certificates[e]
    BY <1>4, <1>7
  <2>2. /\ a \in Present(d) /\ attendances[a].who = attendances'[a].who
        /\ b \in Present(e) /\ attendances[b].who = attendances'[b].who
    BY <1>3, <1>7 DEF LeavesBut
  <2>3. Busy(attendances[a].who, certificates[d], d)
    BY <1>1, <1>2, <2>1, <2>2 DEF Busy
  <2> QED
    BY <2>1, <2>2, <2>3 DEF NoneBusy
<1> QED
  BY <1>5, <1>6, <1>7

LEMMA MoveBusyStep ==
  ASSUME EndsDiffer, Patient, RoomInv, PlaceInv, BusyInv, NEW r \in Requests
  PROVE  /\ \A c \in Cells, slot \in Slots, closed \in BOOLEAN :
              BeginMove(r, c, slot, closed) => BusyInv'
         /\ CheckMoveRoom(r) => BusyInv'
         /\ CheckMembers(r) => BusyInv'
         /\ SaveMove(r) => BusyInv'
         /\ SaveBack(r) => BusyInv'
<1>1. ASSUME NEW c \in Cells, NEW slot \in Slots, NEW closed \in BOOLEAN,
             BeginMove(r, c, slot, closed)
      PROVE  BusyInv'
  <2>1. PICK g : g = handler'[r]
    OBVIOUS
  <2>2. /\ StepOf(r) /\ g \in Movers /\ g.at = "moveRoom" /\ Live(c) /\ g.cert = c
        /\ g.read = certificates[c] /\ g.seats = SeatsOf(c)
        /\ UNCHANGED <<certificates, attendances>>
    BY <1>1, <2>1, BeginMoveIs, PlaceFound DEF BeginMove, Unwritten
  <2>3. g.read.closed \/ c \in Open
    BY <2>2 DEF Open, Counted
  <2>4. \A a \in Held \cap g.seats : attendances[a].attended => a \in Present(c)
    BY <2>2 DEF Present
  <2>5. MoveFree(g)
    BY <2>2, <2>3, <2>4 DEF MoveFree, BusyInv, NoneBusy
  <2>6. g \notin Changers
    BY <2>2 DEF Movers, Changers
  <2>7. BusyKept(g)
    BY <2>5, <2>6 DEF BusyKept
  <2> QED
    BY <2>1, <2>2, <2>7, QuietBusy
<1>2. ASSUME CheckMoveRoom(r) PROVE BusyInv'
  <2>1. PICK h : h = handler[r]
    OBVIOUS
  <2>2. PICK g : g = handler'[r]
    OBVIOUS
  <2>3. /\ StepOf(r) /\ SameMove(h, g) /\ g.at \in {"back", "members"}
        /\ UNCHANGED <<certificates, attendances>>
    BY <1>2, <2>1, <2>2, CheckMoveRoomIs, PlaceFound DEF CheckMoveRoom, Unwritten
  <2>4. MoveFree(h)
    BY <2>1, <2>3 DEF BusyInv, BusyKept, SameMove
  <2>5. MoveFree(g) /\ g \notin Changers
    BY <2>3, <2>4 DEF MoveFree, SameMove, Movers, Changers
  <2>6. BusyKept(g)
    BY <2>5 DEF BusyKept
  <2> QED
    BY <2>2, <2>3, <2>6, QuietBusy
<1>3. ASSUME CheckMembers(r) PROVE BusyInv'
  <2>1. PICK h : h = handler[r]
    OBVIOUS
  <2>2. PICK g : g = handler'[r]
    OBVIOUS
  <2>3. /\ StepOf(r) /\ SameMove(h, g)
        /\ \/ g.at = "back"
           \/ /\ g.at = "move"
              /\ \A a \in Held \cap (g.seats \ g.absent) :
                   ~Elsewhere(attendances[a].who, g.cert, g.slot.start, g.slot.duration)
        /\ UNCHANGED <<certificates, attendances>>
    BY <1>3, <2>1, <2>2, CheckMembersIs, PlaceFound DEF CheckMembers, Unwritten
  <2>4. MoveFree(h) /\ MoveKept(h)
    BY <2>1, <2>3 DEF BusyInv, BusyKept, PlaceInv, PlaceKept, SameMove
  <2>5. g.slot \in Slots /\ g.cert \in Cells
    BY <2>3 DEF SameMove, Movers
  <2>6. Timed(g.slot)
    BY <2>5 DEF Timed
  <2>7. ASSUME NEW a \in Held \cap g.seats, attendances[a].attended, g.at = "move"
        PROVE  ~Busy(attendances[a].who, g.slot, g.cert)
    <3>1. a \notin g.absent
      BY <2>3, <2>4, <2>7 DEF MoveKept, SameMove
    <3>2. ~Elsewhere(attendances[a].who, g.cert, g.slot.start, g.slot.duration)
      BY <2>3, <2>7, <3>1
    <3> QED
      BY <2>5, <2>6, <3>2, FreeElsewhere
  <2>8. MoveFree(g) /\ g \notin Changers
    BY <2>3, <2>4, <2>7 DEF MoveFree, SameMove, Movers, Changers
  <2>9. BusyKept(g)
    BY <2>8 DEF BusyKept
  <2> QED
    BY <2>2, <2>3, <2>9, QuietBusy
<1>4. ASSUME SaveMove(r) PROVE BusyInv'
  <2>1. PICK h : h = handler[r]
    OBVIOUS
  <2>2. PICK g : g = handler'[r]
    OBVIOUS
  <2>3. PICK x \in Certificate :
          /\ Save(h.cert, x) /\ x.start = h.slot.start
          /\ x.duration = h.slot.duration
    BY <1>4, <2>1, SaveMoveIs, PlaceFound
  <2>4. /\ StepOf(r) /\ h \in Movers /\ h.at = "move" /\ UNCHANGED attendances
        /\ g = Idle \/ (SameMove(h, g) /\ g.at = "back")
    BY <1>4, <2>1, <2>2, SaveMoveIs, PlaceFound
  <2>5. OthersRest(r) /\ MoveKept(h) /\ MoveFree(h) /\ h.cert \in Cells
    BY <2>1, <2>4, PlaceFound DEF PlaceKept, BusyInv, BusyKept, LooksAt, Movers
  <2>6. certificates'[h.cert] = x /\ OnlyAt(h.cert)
    BY <2>3, <2>5, PlaceFound, SavedTyped DEF OnlyAt
  <2>7. LeavesBut(h.cert) /\ Present(h.cert)' = Present(h.cert)
    BY <2>4 DEF LeavesBut, Present, SeatsOf, Held
  <2>8. ASSUME NEW a \in Present(h.cert)'
        PROVE  ~Busy(attendances'[a].who, x, h.cert)
    <3>1. a \in Held \cap h.seats /\ attendances[a].attended
      BY <2>5, <2>7, <2>8 DEF MoveKept, Present, SeatsOf
    <3>2. ~Busy(attendances[a].who, h.slot, h.cert)
      BY <2>4, <2>5, <3>1 DEF MoveFree
    <3> QED
      BY <2>3, <2>4, <3>2 DEF Busy, Shares
  <2>9. NoneBusy'
    BY <2>5, <2>6, <2>7, <2>8, BusyOfOne DEF BusyInv
  <2>10. BusyKept(g)'
    <3>1. CASE g = Idle
      BY <3>1, NothingBusy DEF Idle
    <3>2. CASE SameMove(h, g) /\ g.at = "back"
      <4>1. \A p \in Open' \ {h.cert} : p \in Open /\ certificates'[p] = certificates[p]
        BY <2>6 DEF OnlyAt, Open, Counted, Live
      <4>2. \A who : Busy(who, h.read, h.cert)' => Busy(who, h.read, h.cert)
        BY <2>4, <4>1 DEF Busy, Present, SeatsOf, Held
      <4>3. MoveFree(g)'
        BY <2>4, <2>5, <3>2, <4>2 DEF MoveFree, SameMove, Held
      <4>4. g \notin Changers
        BY <3>2 DEF SameMove, Movers, Changers
      <4> QED
        BY <4>3, <4>4 DEF BusyKept
    <3> QED
      BY <2>4, <3>1, <3>2
  <2> QED
    BY <2>2, <2>4, <2>5, <2>9, <2>10, BusyConcludes
<1>5. ASSUME SaveBack(r) PROVE BusyInv'
  <2>1. PICK h : h = handler[r]
    OBVIOUS
  <2>2. /\ StepOf(r) /\ handler'[r] = Idle /\ Save(h.cert, h.read)
        /\ OthersRest(r) /\ MoveKept(h) /\ h.cert \in Cells /\ h \in Movers
        /\ h.read \in Certificate
    BY <1>5, <2>1, SaveBackIs, BackWrites, PlaceFound DEF Movers
  <2>3. MoveFree(h)
    BY <2>1, <2>2 DEF BusyInv, BusyKept
  <2>4. certificates'[h.cert] = h.read /\ OnlyAt(h.cert)
    BY <2>2, PlaceFound, SavedTyped DEF OnlyAt
  <2>5. LeavesBut(h.cert)
    BY <1>5, <2>1, BackWrites DEF LeavesBut, Present, SeatsOf
  <2>6. ASSUME h.cert \in Open', NEW a \in Present(h.cert)'
        PROVE  ~Busy(attendances'[a].who, h.read, h.cert)
    <3>1. ~h.read.closed
      BY <2>4, <2>6 DEF Open, Counted
    <3>2. /\ a \in Held \cap h.seats /\ attendances[a].attended
          /\ attendances'[a].who = attendances[a].who
      BY <1>5, <2>1, <2>6, BackWrites DEF Present, SeatsOf
    <3> QED
      BY <2>3, <3>1, <3>2 DEF MoveFree
  <2>7. NoneBusy'
    BY <2>2, <2>4, <2>5, <2>6, BusyOfOne DEF BusyInv
  <2>8. BusyKept(Idle)'
    BY NothingBusy DEF Idle
  <2> QED
    BY <2>2, <2>7, <2>8, BusyConcludes
<1> QED
  BY <1>1, <1>2, <1>3, <1>4, <1>5

LEMMA ChangeBusyStep ==
  ASSUME EndsDiffer, Patient, RoomInv, PlaceInv, BusyInv, NEW r \in Requests
  PROVE  /\ CheckSubstitute(r) => BusyInv'
         /\ CheckAttend(r) => BusyInv'
         /\ CheckLimit(r) => BusyInv'
         /\ SaveChange(r) => BusyInv'
<1>1. ASSUME CheckSubstitute(r) PROVE BusyInv'
  <2>1. PICK h : h = handler[r]
    OBVIOUS
  <2>2. PICK g : g = handler'[r]
    OBVIOUS
  <2>3. /\ StepOf(r) /\ UNCHANGED <<certificates, attendances>>
        /\ \/ g = Idle
           \/ g \in Changers /\ g.at = "attend"
           \/ g \in Changers /\ g.body.attended = "same"
    BY <1>1, <2>1, <2>2, CheckSubstituteIs, PlaceFound
    DEF CheckSubstitute, Unwritten, SameChange
  <2>4. BusyKept(g)
    <3>1. CASE g = Idle \/ g.at = "attend"
      BY <3>1, NothingBusy DEF Idle
    <3>2. CASE g \in Changers /\ g.body.attended = "same"
      <4>1. g \notin Movers
        BY <3>2 DEF Movers, Changers
      <4> QED
        BY <3>2, <4>1 DEF BusyKept, ChangeFree
    <3> QED
      BY <2>3, <3>1, <3>2
  <2> QED
    BY <2>2, <2>3, <2>4, QuietBusy
<1>2. ASSUME CheckAttend(r) PROVE BusyInv'
  <2>1. PICK h : h = handler[r]
    OBVIOUS
  <2>2. PICK g : g = handler'[r]
    OBVIOUS
  <2>3. PICK x : x = certificates[g.read.of]
    OBVIOUS
  <2>4. /\ StepOf(r) /\ UNCHANGED <<certificates, attendances>>
        /\ \/ g = Idle
           \/ /\ SameChange(h, g)
              /\ g.body.attended = "yes" =>
                   ~Elsewhere(g.read.who, g.read.of, x.start, x.duration)
    BY <1>2, <2>1, <2>2, <2>3, CheckAttendIs, PlaceFound DEF CheckAttend, Unwritten
  <2>5. BusyKept(g)
    <3>1. CASE g = Idle
      BY <3>1, NothingBusy DEF Idle
    <3>2. CASE g # Idle
      <4>1. h \in Changers /\ g \in Changers /\ g \notin Movers /\ g.read = h.read
        BY <2>4, <3>2 DEF SameChange, Movers, Changers
      <4>2. g.read.of \in Cells
        BY <2>1, <4>1 DEF PlaceInv, PlaceKept, ChangeKept, Changers, Attendance
      <4>3. Timed(x)
        BY <2>3, <4>2 DEF RoomInv
      <4>4. g.body.attended = "yes" => ~Busy(g.read.who, x, g.read.of)
        BY <2>4, <3>2, <4>2, <4>3, FreeElsewhere
      <4> QED
        BY <2>3, <4>1, <4>4 DEF BusyKept, ChangeFree
    <3> QED
      BY <3>1, <3>2
  <2> QED
    BY <2>2, <2>4, <2>5, QuietBusy
<1>3. ASSUME CheckLimit(r) PROVE BusyInv'
  <2>1. PICK h : h = handler[r]
    OBVIOUS
  <2>2. PICK g : g = handler'[r]
    OBVIOUS
  <2>3. /\ StepOf(r) /\ UNCHANGED <<certificates, attendances>>
        /\ g = Idle \/ (SameChange(h, g) /\ h.at = "limit")
    BY <1>3, <2>1, <2>2, CheckLimitIs, PlaceFound DEF CheckLimit, Unwritten
  <2>4. BusyKept(g)
    <3>1. CASE g = Idle
      BY <3>1, NothingBusy DEF Idle
    <3>2. CASE SameChange(h, g) /\ h.at = "limit"
      <4>1. h \in Changers /\ g \in Changers /\ g \notin Movers
        BY <3>2 DEF SameChange, Movers, Changers
      <4>2. ChangeFree(h)
        BY <2>1, <4>1 DEF BusyInv, BusyKept
      <4>3. ChangeFree(g)
        BY <3>2, <4>2 DEF ChangeFree, SameChange
      <4> QED
        BY <4>1, <4>3 DEF BusyKept
    <3> QED
      BY <2>3, <3>1, <3>2
  <2> QED
    BY <2>2, <2>3, <2>4, QuietBusy
<1>4. ASSUME SaveChange(r) PROVE BusyInv'
  <2>1. PICK h : h = handler[r]
    OBVIOUS
  <2>2. /\ StepOf(r) /\ handler'[r] = Idle /\ OthersRest(r) /\ ChangeKept(h)
        /\ h \in Changers /\ h.at = "change" /\ UNCHANGED certificates
    BY <1>4, <2>1, SaveChangeIs, ChangeWrites, PlaceFound DEF SaveChange
  <2>3. PICK c : c = h.read.of
    OBVIOUS
  <2>4. c \in Cells /\ ChangeFree(h)
    BY <2>1, <2>2, <2>3
    DEF ChangeKept, Changers, Attendance, BusyInv, BusyKept
  <2>5. ASSUME NEW d \in Cells, NEW a \in Present(d)'
        PROVE  /\ attendances'[a].who = attendances[a].who
               /\ \/ a \in Present(d)
                  \/ /\ d = c /\ h.body.attended = "yes"
                     /\ attendances[a].who = h.read.who
    <3>1. /\ a \in Held' /\ attendances'[a].of = d /\ attendances'[a].attended
      BY <2>5 DEF Present, SeatsOf
    <3>2. /\ a \in Held /\ attendances[a].of = d
          /\ attendances'[a].who = attendances[a].who
          /\ attendances[a].attended \/ (a = h.seat /\ h.body.attended = "yes")
      BY <1>4, <2>1, <3>1, ChangeWrites
    <3>3. CASE attendances[a].attended
      BY <3>2, <3>3 DEF Present, SeatsOf
    <3>4. CASE a = h.seat /\ h.body.attended = "yes"
      BY <2>2, <2>3, <2>5, <3>2, <3>4 DEF ChangeKept, Cells
    <3> QED
      BY <3>2, <3>3, <3>4
  <2>6. OnlyAt(c) /\ LeavesBut(c)
    BY <2>2, <2>5 DEF OnlyAt, LeavesBut
  <2>7. PICK x : x = certificates'[c]
    OBVIOUS
  <2>8. ASSUME c \in Open', NEW a \in Present(c)'
        PROVE  ~Busy(attendances'[a].who, x, c)
    <3>1. c \in Open /\ x = certificates[c]
      BY <2>2, <2>7, <2>8 DEF Open, Counted, Live
    <3>2. CASE a \in Present(c)
      BY <2>4, <2>5, <2>8, <3>1, <3>2 DEF BusyInv, NoneBusy
    <3>3. CASE h.body.attended = "yes" /\ attendances[a].who = h.read.who
      BY <2>2, <2>3, <2>4, <2>5, <2>8, <3>1, <3>3 DEF ChangeFree, Open
    <3> QED
      BY <2>4, <2>5, <2>8, <3>2, <3>3
  <2>9. NoneBusy'
    BY <2>4, <2>6, <2>7, <2>8, BusyOfOne DEF BusyInv
  <2>10. BusyKept(Idle)'
    BY NothingBusy DEF Idle
  <2> QED
    BY <2>2, <2>9, <2>10, BusyConcludes
<1> QED
  BY <1>1, <1>2, <1>3, <1>4

LEMMA BusyInit == ScheduleInit => BusyInv
<1> SUFFICES ASSUME ScheduleInit PROVE BusyInv
  OBVIOUS
<1>1. \A c : Present(c) = {}
  BY SeatedAre DEF Present, SeatsOf
<1>2. BusyKept(Idle)
  BY NothingBusy DEF Idle
<1> QED
  BY <1>1, <1>2 DEF BusyInv, NoneBusy, ScheduleInit

LEMMA BusyStep ==
  ASSUME EndsDiffer, Patient, RoomInv, PlaceInv, BusyInv,
         [ScheduleNext]_scheduleVars
  PROVE  BusyInv'
<1>1. CASE UNCHANGED scheduleVars
  BY <1>1 DEF scheduleVars, BusyInv, NoneBusy, BusyKept, MoveFree, ChangeFree,
     Busy, Open, Counted, Live, Present, SeatsOf, Held
<1>2. ASSUME NEW r \in Requests, NEW c \in Cells, CreateUndated(r, c)
      PROVE  BusyInv'
  <2>1. Save(c, Undated) /\ UNCHANGED <<attendances, handler>>
    BY <1>2 DEF CreateUndated
  <2>2. certificates'[c] = Undated /\ OnlyAt(c)
    BY <2>1, RoomFound, SavedTyped, WrittenTyped DEF OnlyAt
  <2>3. Fewer /\ Loses
    BY <2>1, <2>2, WrittenTyped DEF Fewer, OnlyAt, Open, Counted, Live, Loses, Held
  <2>4. NoneBusy'
    BY <2>3, LosesLeaves, LeavesPlaces DEF BusyInv
  <2>5. ASSUME NEW s \in Requests PROVE BusyKept(handler[s])'
    <3>1. PICK h : h = handler[s] /\ h = handler'[s]
      BY <2>1
    <3>2. BusyKept(h)'
      BY <2>3, <3>1, BusyKeptStays DEF BusyInv, PlaceInv
    <3> QED
      BY <3>1, <3>2 DEF BusyKept
  <2> QED
    BY <2>4, <2>5 DEF BusyInv
<1>3. ASSUME NEW r \in Requests,
             \/ \E c \in Cells : BeginRemoval(r, c)
             \/ \E slot \in Slots : BeginCreate(r, slot)
             \/ CheckRoom(r) \/ Delete(r) \/ Strip(r) \/ Drop(r)
             \/ \E c \in Cells, j \in Joins : BeginJoin(r, c, j.who, j.role)
             \/ CheckFree(r)
             \/ \E a \in Seats : \/ BeginDrop(r, a)
                                 \/ \E body \in Changes : BeginChange(r, a, body)
             \/ CheckTwice(r)
      PROVE  BusyInv'
  <2>1. PICK g : g = handler'[r]
    OBVIOUS
  <2>2. TypesInv
    BY DEF PlaceInv
  <2>3. /\ UNCHANGED attendances => Loses
        /\ UNCHANGED certificates => Fewer
        /\ (\A a \in Seats : attendances'[a] \in {attendances[a], NoAttendance})
             => Loses
    BY DEF Loses, Held, Fewer, Open, Counted, Live
  <2>4. ASSUME NEW c \in Cells, BeginRemoval(r, c)
        PROVE  StepOf(r) /\ Fewer /\ Loses /\ g.at = "delete"
    BY <2>1, <2>2, <2>3, <2>4, BeginRemovalIs DEF Deleters, BeginRemoval
  <2>5. ASSUME NEW slot \in Slots, BeginCreate(r, slot)
        PROVE  StepOf(r) /\ Fewer /\ Loses /\ g.at = "room"
    BY <2>1, <2>2, <2>3, <2>5, BeginCreateIs DEF BeginCreate, Unwritten
  <2>6. CheckRoom(r) => StepOf(r) /\ Fewer /\ Loses /\ g.at \in {"idle", "insert"}
    BY <2>1, <2>2, <2>3, CheckRoomIs DEF CheckRoom, Unwritten, Idle
  <2>7. ASSUME Delete(r) PROVE StepOf(r) /\ Fewer /\ Loses /\ g.at = "strip"
    <3>1. PICK h : h = handler[r]
      OBVIOUS
    <3>2. /\ StepOf(r) /\ h \in Deleters /\ g \in Strippers
          /\ Save(h.cert, Removed) /\ Loses
      BY <2>1, <2>2, <2>7, <3>1, DeleteIs, DeleteTakes
    <3>3. h.cert \in Cells /\ g.at = "strip"
      BY <3>2 DEF Deleters, Strippers
    <3>4. OnlyAt(h.cert) /\ certificates'[h.cert] = Removed
      BY <2>2, <3>2, <3>3, SavedTyped, WrittenTyped DEF OnlyAt
    <3>5. Fewer
      BY <3>4, WrittenTyped DEF Fewer, OnlyAt, Open, Counted, Live
    <3> QED
      BY <3>2, <3>3, <3>5
  <2>8. Strip(r) => StepOf(r) /\ Fewer /\ Loses /\ g.at = "idle"
    BY <2>1, <2>2, <2>3, StripIs DEF Strip, Idle
  <2>9. Drop(r) => StepOf(r) /\ Fewer /\ Loses /\ g.at = "idle"
    <3>1. Drop(r) => StepOf(r) /\ handler'[r] = Idle /\ UNCHANGED certificates
      BY <2>2, DropIs DEF Drop
    <3>2. Drop(r) =>
            \A a \in Seats : attendances'[a] \in {attendances[a], NoAttendance}
      BY <2>2 DEF Drop, TypesInv, ScheduleTypeOK
    <3> QED
      BY <2>1, <2>3, <3>1, <3>2 DEF Idle
  <2>10. ASSUME NEW c \in Cells, NEW j \in Joins, BeginJoin(r, c, j.who, j.role)
         PROVE  StepOf(r) /\ Fewer /\ Loses /\ g.at \in {"free", "join"}
    BY <2>1, <2>2, <2>3, <2>10, BeginJoinIs DEF BeginJoin, Unwritten, Joiners
  <2>11. CheckFree(r) => StepOf(r) /\ Fewer /\ Loses /\ g.at \in {"idle", "free", "join"}
    BY <2>1, <2>2, <2>3, CheckFreeIs DEF CheckFree, Unwritten, Idle, SameJoin, Joiners
  <2>12. ASSUME NEW a \in Seats, BeginDrop(r, a)
         PROVE  StepOf(r) /\ Fewer /\ Loses /\ g.at = "drop"
    BY <2>1, <2>2, <2>3, <2>12, BeginDropIs DEF BeginDrop, Droppers
  <2>13. ASSUME NEW a \in Seats, NEW body \in Changes, BeginChange(r, a, body)
         PROVE  StepOf(r) /\ Fewer /\ Loses /\ g.at = "twice"
    BY <2>1, <2>2, <2>3, <2>13, BeginChangeIs DEF BeginChange, Unwritten
  <2>14. CheckTwice(r) => StepOf(r) /\ Fewer /\ Loses /\ g.at \in {"idle", "substitute"}
    BY <2>1, <2>2, <2>3, CheckTwiceIs DEF CheckTwice, Unwritten, Idle
  <2>15. /\ StepOf(r) /\ Fewer /\ Loses
         /\ g.at \notin {"moveRoom", "members", "move", "back", "limit", "change"}
    BY <1>3, <2>4, <2>5, <2>6, <2>7, <2>8, <2>9, <2>10, <2>11, <2>12, <2>13, <2>14
  <2> QED
    BY <2>1, <2>15, NothingBusy, BusyConcludes
<1>4. ASSUME NEW r \in Requests, NEW c \in Cells, Insert(r, c) PROVE BusyInv'
  <2>1. PICK x \in Certificate : Save(c, x)
    BY <1>4, InsertIs, PlaceFound
  <2>2. /\ StepOf(r) /\ handler'[r] = Idle /\ OthersRest(r)
        /\ certificates[c] = NoCertificate /\ UNCHANGED attendances
    BY <1>4, InsertIs, PlaceFound DEF LooksAt
  <2>3. certificates'[c] = x /\ OnlyAt(c) /\ LeavesBut(c)
    BY <2>1, <2>2, PlaceFound, SavedTyped
    DEF OnlyAt, LeavesBut, Present, SeatsOf, Held
  <2>4. Present(c)' = {}
    <3>1. 0 \notin Cells
      BY DEF Cells
    <3> QED
      BY <2>2, <3>1 DEF Present, SeatsOf, Held, PlaceInv, OfKnown, Known
  <2>5. NoneBusy'
    BY <2>3, <2>4, BusyOfOne DEF BusyInv
  <2>6. BusyKept(Idle)'
    BY NothingBusy DEF Idle
  <2> QED
    BY <2>2, <2>5, <2>6, BusyConcludes
<1>5. ASSUME NEW r \in Requests, NEW a \in Seats, Join(r, a) PROVE BusyInv'
  <2>1. /\ StepOf(r) /\ handler'[r] = Idle /\ handler[r] \in Joiners
        /\ UNCHANGED certificates
    BY <1>5, JoinIs, PlaceFound DEF Join
  <2>2. OthersRest(r)
    BY <2>1, PlaceFound DEF Joiners, LooksAt
  <2>3. Fewer /\ Leaves
    BY <1>5, <2>1, JoinWrites
    DEF Fewer, Open, Counted, Live, Leaves, Present, SeatsOf
  <2>4. NoneBusy'
    BY <2>3, LeavesPlaces DEF BusyInv
  <2>5. BusyKept(Idle)'
    BY NothingBusy DEF Idle
  <2> QED
    BY <2>1, <2>2, <2>4, <2>5, BusyConcludes
<1> QED
  BY <1>1, <1>2, <1>3, <1>4, <1>5, MoveBusyStep, ChangeBusyStep DEF ScheduleNext

(* Where no two of the times asked for end at one minute, what looks the     *)
(* schedule up waits for others that do, and no certificate is removed twice *)
(* at once: nobody is present at two open certificates at a time, whether    *)
(* they were marked present after both had a date, took the place of another *)
(* or one was moved over the other (DegreeAttendanceThatOverlapValidator).   *)
THEOREM NobodyIsInTwoPlaces ==
  ASSUME EndsDiffer, SeatedOnce, Patient
  PROVE  ScheduleSpec /\ []OneRemoval => []NotTwoPlaces
<1>1. ScheduleInit => RoomInv /\ PlaceInv /\ BusyInv
  BY RoomInit, PlaceInit, BusyInit
<1>2. RoomInv /\ PlaceInv /\ BusyInv /\ OneRemoval /\ [ScheduleNext]_scheduleVars
        => RoomInv' /\ PlaceInv' /\ BusyInv'
  BY RoomStep, PlaceStep, BusyStep
<1>3. BusyInv => NotTwoPlaces
  BY NoneBusyPlaces DEF BusyInv
<1> QED
  BY <1>1, <1>2, <1>3, PTL DEF ScheduleSpec

-------------------------------------------------------------------------------
(***************************************************************************)
(* One removal.                                                            *)
(***************************************************************************)
(* Requests that come to delete a certificate count a removal.               *)
NoneDeletes ==
  /\ \A r \in Requests : Doing(r, "delete")' => Doing(r, "delete")
  /\ UNCHANGED removals \/ Removes

OneDeletes ==
  Removes /\ \E r \in Requests : \A s \in Requests \ {r} :
               Doing(s, "delete")' => Doing(s, "delete")

LEMMA DeletesAre ==
  ASSUME NEW r \in Requests, StepOf(r)
  PROVE  /\ handler'[r].at # "delete" /\ (UNCHANGED removals \/ Removes)
              => NoneDeletes
         /\ Removes => OneDeletes
  BY DEF StepOf, NoneDeletes, OneDeletes, Doing

LEMMA TypesStep ==
  ASSUME Patient, TypesInv, [ScheduleNext]_scheduleVars
  PROVE  TypesInv' /\ (NoneDeletes \/ OneDeletes)
<1>1. CASE UNCHANGED scheduleVars
  BY <1>1 DEF scheduleVars, TypesInv, ScheduleTypeOK, Alone, Looking, NoneDeletes,
     Doing
<1>2. ASSUME NEW r \in Requests, NEW c \in Cells, CreateUndated(r, c)
      PROVE  TypesInv' /\ NoneDeletes
  BY <1>2, CreateUndatedIs DEF CreateUndated, NoneDeletes, Doing
<1>3. ASSUME NEW r \in Requests, NEW c \in Cells, BeginRemoval(r, c)
      PROVE  TypesInv' /\ OneDeletes
  BY <1>3, BeginRemovalIs, DeletesAre DEF StepOf, BeginRemoval
<1>4. ASSUME NEW r \in Requests, NEW a \in Seats, BeginDrop(r, a)
      PROVE  TypesInv' /\ OneDeletes
  BY <1>4, BeginDropIs, DeletesAre DEF StepOf, BeginDrop
<1>5. ASSUME NEW r \in Requests,
             \/ \E c \in Cells : Insert(r, c)
             \/ \E slot \in Slots :
                  \/ BeginCreate(r, slot)
                  \/ \E c \in Cells, closed \in BOOLEAN : BeginMove(r, c, slot, closed)
             \/ CheckRoom(r) \/ CheckMoveRoom(r) \/ CheckMembers(r)
             \/ SaveMove(r) \/ SaveBack(r) \/ Delete(r) \/ Strip(r)
             \/ \E c \in Cells, j \in Joins : BeginJoin(r, c, j.who, j.role)
             \/ CheckFree(r)
             \/ \E a \in Seats : \/ Join(r, a)
                                 \/ \E body \in Changes : BeginChange(r, a, body)
             \/ CheckTwice(r) \/ CheckSubstitute(r) \/ CheckAttend(r)
             \/ CheckLimit(r) \/ SaveChange(r) \/ Drop(r)
      PROVE  TypesInv' /\ NoneDeletes
  <2>1. PICK g : g = handler'[r]
    OBVIOUS
  <2>2. UNCHANGED removals
    BY <1>5 DEF Insert, BeginCreate, BeginMove, CheckRoom, CheckMoveRoom,
       CheckMembers, SaveMove, SaveBack, Delete, Strip, BeginJoin, CheckFree, Join,
       BeginChange, CheckTwice, CheckSubstitute, CheckAttend, CheckLimit,
       SaveChange, Drop, Unwritten
  <2>3. ASSUME NEW c \in Cells, Insert(r, c) PROVE StepOf(r) /\ g = Idle
    BY <2>1, <2>3, InsertIs
  <2>4. ASSUME NEW slot \in Slots, BeginCreate(r, slot)
        PROVE  StepOf(r) /\ g \in Creators
    BY <2>1, <2>4, BeginCreateIs
  <2>5. ASSUME NEW slot \in Slots, NEW c \in Cells, NEW closed \in BOOLEAN,
               BeginMove(r, c, slot, closed)
        PROVE  StepOf(r) /\ g \in Movers
    BY <2>1, <2>5, BeginMoveIs
  <2>6. CheckRoom(r) => StepOf(r) /\ g \in {Idle} \cup Creators
    BY <2>1, CheckRoomIs DEF SameSlot
  <2>7. CheckMoveRoom(r) => StepOf(r) /\ g \in Movers
    BY <2>1, CheckMoveRoomIs DEF SameMove
  <2>8. CheckMembers(r) => StepOf(r) /\ g \in Movers
    BY <2>1, CheckMembersIs DEF SameMove
  <2>9. SaveMove(r) => StepOf(r) /\ g \in {Idle} \cup Movers
    BY <2>1, SaveMoveIs DEF SameMove
  <2>10. SaveBack(r) \/ Strip(r) \/ SaveChange(r) \/ Drop(r)
           => StepOf(r) /\ g = Idle
    BY <2>1, SaveBackIs, StripIs, SaveChangeIs, DropIs
  <2>11. Delete(r) => StepOf(r) /\ g \in Strippers
    BY <2>1, DeleteIs
  <2>12. ASSUME NEW c \in Cells, NEW j \in Joins, BeginJoin(r, c, j.who, j.role)
         PROVE  StepOf(r) /\ g \in Joiners
    BY <2>1, <2>12, BeginJoinIs
  <2>13. CheckFree(r) => StepOf(r) /\ g \in {Idle} \cup Joiners
    BY <2>1, CheckFreeIs DEF SameJoin
  <2>14. ASSUME NEW a \in Seats, Join(r, a) PROVE StepOf(r) /\ g = Idle
    BY <2>1, <2>14, JoinIs
  <2>15. ASSUME NEW a \in Seats, NEW body \in Changes, BeginChange(r, a, body)
         PROVE  StepOf(r) /\ g \in Changers
    BY <2>1, <2>15, BeginChangeIs
  <2>16. CheckTwice(r) => StepOf(r) /\ g \in {Idle} \cup Changers
    BY <2>1, CheckTwiceIs DEF SameChange
  <2>17. CheckSubstitute(r) => StepOf(r) /\ g \in {Idle} \cup Changers
    BY <2>1, CheckSubstituteIs DEF SameChange
  <2>18. CheckAttend(r) => StepOf(r) /\ g \in {Idle} \cup Changers
    BY <2>1, CheckAttendIs DEF SameChange
  <2>19. CheckLimit(r) => StepOf(r) /\ g \in {Idle} \cup Changers
    BY <2>1, CheckLimitIs DEF SameChange
  <2>20. /\ StepOf(r)
         /\ g \in {Idle} \cup Creators \cup Movers \cup Joiners \cup Changers
                  \cup Strippers
    BY <1>5, <2>3, <2>4, <2>5, <2>6, <2>7, <2>8, <2>9, <2>10, <2>11, <2>12,
       <2>13, <2>14, <2>15, <2>16, <2>17, <2>18, <2>19
  <2>21. g.at # "delete"
    BY <2>20 DEF Idle, Creators, Movers, Joiners, Changers, Strippers
  <2> QED
    BY <2>1, <2>2, <2>20, <2>21, DeletesAre DEF StepOf
<1> QED
  BY <1>1, <1>2, <1>3, <1>4, <1>5 DEF ScheduleNext

(* Where one certificate is removed, or none, it is not removed twice.       *)
RemovalsInv ==
  /\ TypesInv /\ OneRemoval
  /\ \A r, s \in Requests : Doing(r, "delete") /\ Doing(s, "delete") => r = s
  /\ removals = 0 => \A r \in Requests : ~Doing(r, "delete")

LEMMA RemovedOnce ==
  ASSUME Patient, MaxRemovals <= 1
  PROVE  ScheduleSpec => []OneRemoval
<1>1. ScheduleInit => RemovalsInv
  BY RoomInit DEF RoomInv, ScheduleInit, RemovalsInv, OneRemoval, Doing, Idle
<1>2. ASSUME RemovalsInv, [ScheduleNext]_scheduleVars PROVE RemovalsInv'
  <2>1. TypesInv' /\ (NoneDeletes \/ OneDeletes)
    BY <1>2, TypesStep DEF RemovalsInv
  <2>2. removals \in Nat
    BY <1>2, ScheduleAssumption DEF RemovalsInv, TypesInv, ScheduleTypeOK
  <2>3. Removes => removals = 0 /\ removals' = 1
    BY <2>2, ScheduleAssumption DEF Removes
  <2>4. CASE NoneDeletes
    BY <1>2, <2>1, <2>3, <2>4 DEF NoneDeletes, RemovalsInv, OneRemoval
  <2>5. CASE OneDeletes
    BY <1>2, <2>1, <2>3, <2>5 DEF OneDeletes, RemovalsInv, OneRemoval
  <2> QED
    BY <2>1, <2>4, <2>5
<1>3. RemovalsInv => OneRemoval
  BY DEF RemovalsInv
<1> QED
  BY <1>1, <1>2, <1>3, PTL DEF ScheduleSpec
===============================================================================

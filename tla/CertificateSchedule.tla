-------------------------- MODULE CertificateSchedule --------------------------
(***************************************************************************)
(* When and where degree certificates are presented, and who attends       *)
(* (update-certificate.service, degree-certificates.service and            *)
(* degree-certificate-attendance).                                         *)
(*                                                                         *)
(* A room, a functionary and the two seats of the members are looked up    *)
(* with queries before the row is saved; nothing in the database keeps     *)
(* what they found true.                                                   *)
(***************************************************************************)
EXTENDS Naturals, Sequences, FiniteSets

CONSTANTS
  Requests,        \* handlers that may be under way at once
  Rooms,
  Functionaries,
  Slots,           \* the dates, durations and rooms asked for
  Joins,           \* who is added to a certificate, and in which role
  Changes,         \* bodies of PATCH /degree-certificate-attendance/:id
  MaxCertificates, \* bound: certificates ever created
  MaxAttendances,  \* bound: attendances at a time
  MaxRemovals,     \* bound: removals of certificates and of attendances
  Ending,          \* the certificates closed, removed or left, in this instance
  Seated,          \* who attends the certificate there is at the beginning
  Patient          \* what waits, in this instance, for others of its kind

Roles == {"M_PRINCIPAL", "M_SUPLENTE", "PRESIDENTE", "TUTOR"}

NoDate == 0

DefaultDuration == 60

(* Who attends is "same" where the body does not say.                        *)
Change ==
  [who : Functionaries \cup {"same"}, role : Roles \cup {"same"},
   attended : {"same", "yes", "no"}, notified : {"same", "yes", "no"}]

ASSUME ScheduleAssumption ==
  /\ Requests \subseteq Nat
  /\ Slots \subseteq [start : Nat \ {0}, duration : Nat \ {0}, room : Rooms]
  /\ Joins \subseteq [who : Functionaries, role : Roles] /\ Changes \subseteq Change
  /\ "same" \notin Functionaries /\ "none" \notin Rooms
  /\ MaxCertificates \in Nat \ {0} /\ MaxAttendances \in Nat
  /\ Ending \subseteq Nat /\ MaxRemovals \in Nat /\ Patient \in BOOLEAN
  /\ Len(Seated) <= MaxAttendances
  /\ Seated \in Seq([who : Functionaries, role : Roles])

VARIABLES
  certificates, \* the rows of degree_certificates, in the order of their ids
  attendances,  \* those of degree_certificate_attendance
  removals,     \* removals begun
  handler

scheduleVars == <<certificates, attendances, removals, handler>>

-------------------------------------------------------------------------------
Cells == 1..MaxCertificates
Seats == 1..MaxAttendances

Certificate ==
  [start : Nat, duration : Nat \ {0}, room : Rooms \cup {"none"},
   closed : BOOLEAN, deleted : BOOLEAN]

NoCertificate == [start |-> NoDate, duration |-> 0, room |-> "none",
                  closed |-> FALSE, deleted |-> TRUE]

(* of: the certificate, 0 for null.                                          *)
Attendance ==
  [of : Cells \cup {0}, who : Functionaries, role : Roles,
   attended : BOOLEAN, notified : BOOLEAN]

NoAttendance == [of |-> 0]

(* Where a handler awaits, and what it has read: a certificate with its      *)
(* attendances, or an attendance.                                            *)
Handler ==
       {[at |-> "idle"]}
  \cup [at : {"room", "insert"}, slot : Slots]
  \cup [at : {"moveRoom", "members", "move", "back"}, cert : Cells,
        read : Certificate, seats : SUBSET Seats, absent : SUBSET Seats,
        slot : Slots, closed : BOOLEAN]
  \cup [at : {"delete"}, cert : Cells, seats : SUBSET Seats]
  \cup [at : {"strip"}, cert : Cells]
  \cup [at : {"free", "join"}, cert : Cells, who : Functionaries, role : Roles]
  \cup [at : {"twice", "substitute", "attend", "limit", "change"},
        seat : Seats, read : Attendance, date : Nat, body : Changes]
  \cup [at : {"drop"}, seat : Seats]

ScheduleTypeOK ==
  /\ certificates \in [Cells -> Certificate \cup {NoCertificate}]
  /\ attendances \in [Seats -> Attendance \cup {NoAttendance}]
  /\ removals \in 0..MaxRemovals
  /\ handler \in [Requests -> Handler]

Idle == [at |-> "idle"]

Undated == [NoCertificate EXCEPT !.duration = DefaultDuration, !.deleted = FALSE]

(* What else a removed row holds is not told apart: nothing reads it.        *)
Removed == [Undated EXCEPT !.deleted = TRUE]

Seat(c, who, role) ==
  [of |-> c, who |-> who, role |-> role, attended |-> FALSE, notified |-> FALSE]

(* A certificate without a date, as create leaves it, and who was added.     *)
ScheduleInit ==
  /\ certificates = [c \in Cells |-> IF c = 1 THEN Undated ELSE NoCertificate]
  /\ attendances = [a \in Seats |-> IF a > Len(Seated) THEN NoAttendance
                                    ELSE Seat(1, Seated[a].who, Seated[a].role)]
  /\ removals = 0
  /\ handler = [r \in Requests |-> Idle]

Live(c) == ~certificates[c].deleted

Held == {a \in Seats : attendances[a] # NoAttendance}

SeatsOf(c) == {a \in Held : attendances[a].of = c}

Free(r) == handler[r].at = "idle"

Doing(r, place) == handler[r].at = place

(* Of the requests that look the schedule up one is under way at a time      *)
(* where Patient is set; handlers are alike, and the first free one serves.  *)
Looking(r) == handler[r].at \notin {"idle", "delete", "strip", "drop"}

MayBegin(r) == Free(r) /\ \A other \in Requests : other < r => ~Free(other)

MayLook(r) == MayBegin(r) /\ (Patient => \A other \in Requests : ~Looking(other))

Becomes(r, h) == handler' = [handler EXCEPT ![r] = h]
Goes(r, place) == handler' = [handler EXCEPT ![r].at = place]
Ends(r) == Becomes(r, Idle)

Unwritten == UNCHANGED <<certificates, attendances, removals>>

Removes == removals < MaxRemovals /\ removals' = removals + 1

-------------------------------------------------------------------------------
(***************************************************************************)
(* The queries.                                                            *)
(***************************************************************************)

(* Mutant of Meets: a presentation in the middle of the other is not seen.   *)
MeetsOutside(x, start, duration) ==
  LET end == start + duration  ends == x.start + x.duration IN
  /\ x.start # NoDate /\ start # NoDate
  /\ \/ x.start < start /\ ends > start
     \/ x.start = start
     \/ ends > end /\ x.start < end

(* The row x and the time asked for.  No date compares with none.  A row     *)
(* that begins later and ends at the same minute meets none of the four.     *)
Meets(x, start, duration) ==
  LET end == start + duration  ends == x.start + x.duration IN
  /\ x.start # NoDate /\ start # NoDate
  /\ \/ x.start < start /\ ends > start
     \/ x.start = start
     \/ ends > end /\ x.start < end
     \/ x.start > start /\ ends < end

(* Those that were removed or closed take no room and nobody's time.         *)
Counted(c) == Live(c) /\ ~certificates[c].closed

(* countCertificatesInDateRangeByRoom.                                       *)
RoomTaken(slot, except) ==
  \E c \in Cells \ except :
    /\ Counted(c) /\ certificates[c].room = slot.room
    /\ Meets(certificates[c], slot.start, slot.duration)

(* DegreeAttendanceThatOverlapValidator: who is present elsewhere meanwhile. *)
Elsewhere(who, cert, start, duration) ==
  \E a \in Held :
    LET c == attendances[a].of IN
    /\ attendances[a].who = who /\ attendances[a].attended
    /\ c \notin {0, cert}
    /\ c # 0 => Counted(c) /\ Meets(certificates[c], start, duration)

Members == {"M_PRINCIPAL", "M_SUPLENTE"}

Limit == 2 \* ATTENDANCE_M_LIMIT

Present(c) == {a \in SeatsOf(c) : attendances[a].attended}

PresentMembers(c) == {a \in Present(c) : attendances[a].role \in Members}

-------------------------------------------------------------------------------
(***************************************************************************)
(* Writing.                                                                *)
(***************************************************************************)
Save(c, x) == certificates' = [certificates EXCEPT ![c] = x]

(* A certificate read with its attendances and saved keeps those alone.      *)
SaveSeats(c, seats) ==
  attendances' = [a \in Seats |->
    IF a \in Held /\ a \in seats THEN [attendances[a] EXCEPT !.of = c]
    ELSE IF a \in SeatsOf(c) THEN [attendances[a] EXCEPT !.of = 0]
    ELSE attendances[a]]

-------------------------------------------------------------------------------
(***************************************************************************)
(* create and update: a room is taken.                                     *)
(***************************************************************************)
New == {c \in Cells : certificates[c] = NoCertificate}

First(S, x) == x \in S /\ \A y \in S : x <= y

(* Without a date there is nothing to look up.                               *)
CreateUndated(r, c) ==
  /\ MayBegin(r) /\ First(New, c)
  /\ Save(c, Undated)
  /\ UNCHANGED <<attendances, removals, handler>>

BeginCreate(r, slot) ==
  /\ MayLook(r) /\ New # {}
  /\ Becomes(r, [at |-> "room", slot |-> slot])
  /\ Unwritten

(* checkPresentationDate.                                                    *)
CheckRoom(r) ==
  /\ Doing(r, "room")
  /\ IF RoomTaken(handler[r].slot, {})
     THEN Ends(r) ELSE Goes(r, "insert")
  /\ Unwritten

Scheduled(r, x) ==
  LET slot == handler[r].slot IN
  [x EXCEPT !.start = slot.start, !.duration = slot.duration, !.room = slot.room]

Insert(r, c) ==
  /\ Doing(r, "insert") /\ First(New, c)
  /\ Save(c, [Scheduled(r, NoCertificate) EXCEPT !.deleted = FALSE])
  /\ Ends(r)
  /\ UNCHANGED <<attendances, removals>>

(* A certificate is closed once it has a date and a room (and a document);   *)
(* here it is not moved as well.                                             *)
BeginMove(r, c, slot, closed) ==
  /\ MayLook(r) /\ Live(c)
  /\ closed => c \in Ending /\ slot.room = certificates[c].room
                            /\ slot.start = certificates[c].start
  /\ Becomes(r, [at |-> "moveRoom", cert |-> c, read |-> certificates[c],
                 seats |-> SeatsOf(c), absent |-> SeatsOf(c) \ Present(c),
                 slot |-> slot, closed |-> closed])
  /\ Unwritten

CheckMoveRoom(r) ==
  LET h == handler[r] IN
  /\ Doing(r, "moveRoom")
  /\ Goes(r, IF RoomTaken(h.slot, {h.cert}) THEN "back" ELSE "members")
  /\ Unwritten

(* Those read as present are looked up at the new time.                      *)
CheckMembers(r) ==
  LET h == handler[r]
      present == {attendances[a].who : a \in Held \cap (h.seats \ h.absent)}
  IN
  /\ Doing(r, "members")
  /\ Goes(r, IF \E who \in present :
                  Elsewhere(who, h.cert, h.slot.start, h.slot.duration)
             THEN "back" ELSE "move")
  /\ Unwritten

(* What was read, and the changes.  The sheet or the document may be refused *)
(* later (Certificates).                                                     *)
SaveMove(r) ==
  /\ Doing(r, "move")
  /\ Save(handler[r].cert, [Scheduled(r, handler[r].read) EXCEPT
                              !.closed = handler[r].closed])
  /\ Ends(r) \/ Goes(r, "back")
  /\ UNCHANGED <<attendances, removals>>

(* Whatever was refused, the certificate is saved as it was read.            *)
SaveBack(r) ==
  /\ Doing(r, "back")
  /\ Save(handler[r].cert, handler[r].read)
  /\ SaveSeats(handler[r].cert, handler[r].seats)
  /\ Ends(r)
  /\ UNCHANGED removals

(* remove: the certificate first, its attendances after.                     *)
BeginRemoval(r, c) ==
  /\ MayBegin(r) /\ Live(c) /\ c \in Ending /\ Removes
  /\ Becomes(r, [at |-> "delete", cert |-> c, seats |-> SeatsOf(c)])
  /\ UNCHANGED <<certificates, attendances>>

Delete(r) ==
  /\ Doing(r, "delete")
  /\ Save(handler[r].cert, Removed)
  /\ SaveSeats(handler[r].cert, handler[r].seats)
  /\ Becomes(r, [at |-> "strip", cert |-> handler[r].cert])
  /\ UNCHANGED removals

(* removeAllAttendanceByDegreeCertificateId.                                 *)
Strip(r) ==
  /\ Doing(r, "strip")
  /\ attendances' = [a \in Seats |-> IF a \in SeatsOf(handler[r].cert)
                                     THEN NoAttendance ELSE attendances[a]]
  /\ Ends(r)
  /\ UNCHANGED <<certificates, removals>>

-------------------------------------------------------------------------------
(***************************************************************************)
(* The attendances.                                                        *)
(***************************************************************************)

(* validateDegreeCertificateAttendanceExists.                                *)
BeginJoin(r, c, who, role) ==
  /\ MayLook(r) /\ Live(c)
  /\ \A a \in SeatsOf(c) : attendances[a].who # who
  /\ Becomes(r, [at |-> "free", cert |-> c, who |-> who, role |-> role])
  /\ Unwritten

(* An identifier is not given twice: here not while a handler may use it.    *)
Remembered ==
  UNION {LET h == handler[r] IN
           IF "seats" \in DOMAIN h THEN h.seats
           ELSE IF "seat" \in DOMAIN h THEN {h.seat} ELSE {} : r \in Requests}

CheckFree(r) ==
  LET h == handler[r]  x == certificates[h.cert] IN
  /\ Doing(r, "free")
  /\ IF Elsewhere(h.who, h.cert, x.start, x.duration)
     THEN Ends(r) ELSE Goes(r, "join")
  /\ Unwritten

Join(r, a) ==
  LET h == handler[r] IN
  /\ Doing(r, "join") /\ First(Seats \ (Held \cup Remembered), a)
  /\ attendances' = [attendances EXCEPT ![a] = Seat(h.cert, h.who, h.role)]
  /\ Ends(r)
  /\ UNCHANGED <<certificates, removals>>

(* The attendance is read with its certificate; an attendance that lost its  *)
(* certificate is a TypeError.                                               *)
BeginChange(r, a, body) ==
  /\ MayLook(r)
  /\ a \in Held /\ attendances[a].of # 0
  /\ Becomes(r, [at |-> "twice", seat |-> a, read |-> attendances[a],
                 date |-> certificates[attendances[a].of].start, body |-> body])
  /\ Unwritten

Substitutes(h) == h.body.who \notin {"same", h.read.who}

(* Nobody is left of the certificate, or the new one has a place there.      *)
CheckTwice(r) ==
  LET h == handler[r]  c == h.read.of IN
  /\ Doing(r, "twice")
  /\ IF \/ SeatsOf(c) = {}
        \/ \E a \in SeatsOf(c) \ {h.seat} : attendances[a].who = h.body.who
     THEN Ends(r) ELSE Goes(r, "substitute")
  /\ Unwritten

CheckSubstitute(r) ==
  LET h == handler[r]  x == certificates[h.read.of] IN
  /\ Doing(r, "substitute")
  /\ IF Substitutes(h) /\ Elsewhere(h.body.who, h.read.of, x.start, x.duration)
     THEN Ends(r)
     ELSE Goes(r, IF h.body.attended = "same" THEN "change" ELSE "attend")
  /\ Unwritten

(* Mutant of CheckAttend: who has a place may come whatever else they have.  *)
CheckAttendUnlooked(r) ==
  /\ Doing(r, "attend")
  /\ IF handler[r].body.attended = "yes" /\ handler[r].date = NoDate
     THEN Ends(r) ELSE Goes(r, "limit")
  /\ Unwritten

(* To be present takes a date, and to be nowhere else: the one that was read *)
(* is looked up, also where another takes the place.                         *)
CheckAttend(r) ==
  LET h == handler[r]  x == certificates[h.read.of] IN
  /\ Doing(r, "attend")
  /\ IF h.body.attended = "yes"
        /\ \/ ~h.read.attended /\ h.date = NoDate
           \/ Elsewhere(h.read.who, h.read.of, x.start, x.duration)
     THEN Ends(r) ELSE Goes(r, "limit")
  /\ Unwritten

(* Mutant of CheckLimit: principals and substitutes are counted apart.       *)
CheckLimitOfRole(r) ==
  LET h == handler[r]
      others == {a \in Present(h.read.of) : attendances[a].role = h.read.role}
  IN
  /\ Doing(r, "limit")
  /\ IF ~Counted(h.read.of) \/ (h.body.attended = "yes" /\
        Cardinality(others \ {h.seat}) >= Limit)
     THEN Ends(r) ELSE Goes(r, "change")
  /\ Unwritten

(* AttendanceLimitAttendedValidator: the role is the one that was read.      *)
CheckLimit(r) ==
  LET h == handler[r] IN
  /\ Doing(r, "limit")
  /\ IF \/ ~Counted(h.read.of)
        \/ /\ h.body.attended = "yes" /\ h.read.role \in Members
           /\ Cardinality(PresentMembers(h.read.of) \ {h.seat}) >= Limit
     THEN Ends(r) ELSE Goes(r, "change")
  /\ Unwritten

Given(value, old) == IF value = "same" THEN old ELSE value

Flag(value, old) == IF value = "same" THEN old ELSE value = "yes"

(* A substitute starts neither present nor notified, whatever was asked.     *)
Changed(h, x) ==
  [x EXCEPT !.role = Given(h.body.role, @), !.who = Given(h.body.who, @),
            !.attended = ~Substitutes(h) /\ Flag(h.body.attended, @),
            !.notified = ~Substitutes(h) /\ Flag(h.body.notified, @)]

(* Only the columns of the body are saved.  A row that is gone is inserted   *)
(* without the columns it must have: refused.                                *)
SaveChange(r) ==
  LET h == handler[r] IN
  /\ Doing(r, "change")
  /\ attendances' = [attendances EXCEPT ![h.seat] =
                       IF @ = NoAttendance THEN @ ELSE Changed(h, @)]
  /\ Ends(r)
  /\ UNCHANGED <<certificates, removals>>

(* remove: who is present, or was notified, stays.                           *)
BeginDrop(r, a) ==
  /\ MayBegin(r) /\ Removes
  /\ a \in Held /\ attendances[a].of \in Ending
  /\ ~attendances[a].attended /\ ~attendances[a].notified
  /\ Becomes(r, [at |-> "drop", seat |-> a])
  /\ UNCHANGED <<certificates, attendances>>

Drop(r) ==
  /\ Doing(r, "drop")
  /\ attendances' = [attendances EXCEPT ![handler[r].seat] = NoAttendance]
  /\ Ends(r)
  /\ UNCHANGED <<certificates, removals>>

-------------------------------------------------------------------------------
ScheduleNext ==
  \E r \in Requests :
    \/ \E c \in Cells : CreateUndated(r, c) \/ Insert(r, c) \/ BeginRemoval(r, c)
    \/ \E slot \in Slots :
         \/ BeginCreate(r, slot)
         \/ \E c \in Cells, closed \in BOOLEAN : BeginMove(r, c, slot, closed)
    \/ CheckRoom(r) \/ CheckMoveRoom(r) \/ CheckMembers(r)
    \/ SaveMove(r) \/ SaveBack(r) \/ Delete(r) \/ Strip(r)
    \/ \E c \in Cells, j \in Joins : BeginJoin(r, c, j.who, j.role)
    \/ CheckFree(r)
    \/ \E a \in Seats :
         \/ Join(r, a) \/ BeginDrop(r, a)
         \/ \E body \in Changes : BeginChange(r, a, body)
    \/ CheckTwice(r) \/ CheckSubstitute(r) \/ CheckAttend(r) \/ CheckLimit(r)
    \/ SaveChange(r) \/ Drop(r)

ScheduleSpec == ScheduleInit /\ [][ScheduleNext]_scheduleVars

-------------------------------------------------------------------------------
(***************************************************************************)
(* What is promised.                                                       *)
(***************************************************************************)
Shares(x, y) ==
  /\ x.start # NoDate /\ y.start # NoDate
  /\ x.start < y.start + y.duration /\ y.start < x.start + x.duration

Open == {c \in Cells : Counted(c)}

(* No two certificates that are open are presented in a room at a time,      *)
(* though one that was removed comes back when an update that read it is     *)
(* refused, and one that was closed is opened again (update, create).        *)
RoomNotShared ==
  \A c, d \in Open :
    c # d /\ certificates[c].room = certificates[d].room
      => ~Shares(certificates[c], certificates[d])

(* Nobody is present at two presentations at a time, whether they were       *)
(* marked present after both had a date or one was moved over the other.     *)
NotTwoPlaces ==
  \A c, d \in Open :
    c # d /\ Shares(certificates[c], certificates[d])
      => {attendances[a].who : a \in Present(c)}
           \cap {attendances[a].who : a \in Present(d)} = {}

(* At most two members, of either role, are present at a presentation: the   *)
(* document of the certificate names the first and the second alone.         *)
LimitKept == \A c \in Open : Cardinality(PresentMembers(c)) <= Limit

(* Nobody has two places at a certificate (create and update look for them   *)
(* in different ways; a refused update puts back those that were read).      *)
OnePlaceEach ==
  \A c \in Cells : \A a, b \in SeatsOf(c) :
    attendances[a].who = attendances[b].who => a = b

(* The members of a certificate: of their type, each with one place, and no  *)
(* more of them present than its document names.                             *)
ScheduleInv == ScheduleTypeOK /\ LimitKept /\ OnePlaceEach
===============================================================================

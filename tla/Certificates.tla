----------------------------- MODULE Certificates -----------------------------
(***************************************************************************)
(* The degree certificates (actas de grado) of one career in the current   *)
(* year: creation, update, removal, the generation of their documents and  *)
(* of their numbers (src/degree-certificates/services/).                   *)
(*                                                                         *)
(* Every handler reads a whole certificate, awaits for other queries and   *)
(* for Drive, and saves the whole certificate back as it was read, with    *)
(* its own change: nothing tells it that the row was written meanwhile.    *)
(***************************************************************************)
EXTENDS Integers, FiniteSets, FiniteSetsExt

CONSTANTS
  Requests,      \* slots for requests in flight
  Base,          \* the last number given before the system was used
  DaysInMonth,   \* a day of presentation is a number, from 1; 0 is none yet
  MaxDate,       \* bound: the last day
  MaxCertificate,\* bound: once that many certificates exist none is created
  MaxAttendance  \* bound: once that many attendances exist none is added

ASSUME CertificatesAssumption ==
  /\ Base \in Nat /\ DaysInMonth \in Nat \ {0} /\ MaxDate \in Nat
  /\ MaxCertificate \in Nat /\ MaxAttendance \in Nat

VARIABLES
  certificates,   \* the degree_certificates table
  attendances,    \* the degree_certificate_attendance table
  nextId,         \* the identifier of the next certificate
  nextAttendance, \* the identifier of the next attendance, newer than the others
  pc,             \* the await at which the handler of each request is
  req,            \* the request
  view            \* what its handler has read

vars == <<certificates, attendances, nextId, nextAttendance, pc, req, view>>

-------------------------------------------------------------------------------
NoDate == 0
NoNumber == 0

Certificate ==
  [id : Nat, date : Nat, number : Nat, removed : BOOLEAN,
   sheet : BOOLEAN, document : BOOLEAN]

NoCertificate == [id |-> 0, date |-> NoDate, number |-> NoNumber,
                  removed |-> FALSE, sheet |-> FALSE, document |-> FALSE]

(* of: the certificate, 0 for an attendance that lost its certificate.       *)
Attendance == [id : Nat, of : Nat]

Await == {"idle", "insert", "readBack", "saveSheet",
          "verifyNumber", "schedule", "saveUpdate", "resheet", "regenerate",
          "unlink", "saveBack", "docPending", "docCheck", "docSave",
          "saveRemoved", "dropAttendances",
          "genList", "genLast", "genVerify", "genSave"}

Op == {"none", "create", "update", "document", "remove", "generate"}

(* date and number: what an update asks for, 0 to leave it.                  *)
Request == [op : Op, date : Nat, number : Nat]
NoRequest == [op |-> "none", date |-> NoDate, number |-> NoNumber]

(* cert and members: a certificate read with its attendances; fresh: the one *)
(* that the generation of a document reads; pending and last: those to be    *)
(* numbered and the last number given.                                       *)
View == [cert : Certificate, members : SUBSET Nat,
         fresh : Certificate, freshMembers : SUBSET Nat,
         pending : SUBSET Certificate, last : Nat]
NothingRead == [cert |-> NoCertificate, members |-> {},
                fresh |-> NoCertificate, freshMembers |-> {},
                pending |-> {}, last |-> 0]

CertificatesTypeOK ==
  /\ certificates \subseteq Certificate
  /\ attendances \subseteq Attendance
  /\ nextId \in Nat /\ nextAttendance \in Nat
  /\ pc \in [Requests -> Await]
  /\ req \in [Requests -> Request]
  /\ view \in [Requests -> View]

Init ==
  /\ certificates = {} /\ attendances = {}
  /\ nextId = 1 /\ nextAttendance = 1
  /\ pc = [r \in Requests |-> "idle"]
  /\ req = [r \in Requests |-> NoRequest]
  /\ view = [r \in Requests |-> NothingRead]

-------------------------------------------------------------------------------
(***************************************************************************)
(* Queries.                                                                *)
(***************************************************************************)

Live == {x \in certificates : ~ x.removed}
MembersOf(c) == {a.id : a \in {b \in attendances : b.of = c}}

(* Mutant of ToGenerate: those that have a number are numbered again.        *)
ToGenerateAll == {x \in Live : x.date # NoDate}

(* getCertificatesToGenerate.                                                *)
ToGenerate == {x \in Live : x.date # NoDate /\ x.number = NoNumber}

(* getNumerationEnqueued: the numbers of removed certificates that no other  *)
(* certificate uses.                                                         *)
Enqueued ==
  {x.number : x \in certificates \ Live}
    \ ({x.number : x \in Live} \cup {NoNumber})

(* findOneFor orders by the creation of the attendances first, newest first  *)
(* and none before any, and only then by what its caller asks for; the first *)
(* row of the join decides.                                                  *)
Newest(S) ==
  LET without == {x \in S : MembersOf(x.id) = {}}
      Latest(x) == Max(MembersOf(x.id))
  IN  IF without # {} THEN without
      ELSE {x \in S : \A y \in S : Latest(y) <= Latest(x)}

Numbered == {x \in Live : x.number # NoNumber}

(* getLastNumberGenerated, ordered by number where Newest leaves a choice.   *)
LastNumber ==
  IF Numbered = {} THEN Base ELSE Max({x.number : x \in Newest(Numbered)})

Month(d) == (d - 1) \div DaysInMonth
Day(d) == (d - 1) % DaysInMonth \* getDate: the day without its month

-------------------------------------------------------------------------------
(***************************************************************************)
(* Steps.                                                                  *)
(***************************************************************************)
GoOn(r, to, v) ==
  /\ pc' = [pc EXCEPT ![r] = to]
  /\ view' = [view EXCEPT ![r] = v]
  /\ UNCHANGED req

Done(r) ==
  /\ pc' = [pc EXCEPT ![r] = "idle"]
  /\ req' = [req EXCEPT ![r] = NoRequest]
  /\ view' = [view EXCEPT ![r] = NothingRead]

Begin(r, to, q, v) ==
  /\ pc[r] = "idle"
  /\ pc' = [pc EXCEPT ![r] = to]
  /\ req' = [req EXCEPT ![r] = q]
  /\ view' = [view EXCEPT ![r] = v]

Unwritten == UNCHANGED <<certificates, attendances, nextId, nextAttendance>>
Identified == UNCHANGED <<nextId, nextAttendance>>

(* TypeORM saves an entity by its identifier, every column as given.         *)
Save(x) == certificates' = {y \in certificates : y.id # x.id} \cup {x}

(* An entity read with its attendances is saved with them: those that were   *)
(* added to the certificate since lose it.                                   *)
SaveMembers(c, members) ==
  attendances' =
    {[a EXCEPT !.of = IF a.id \in members THEN c
                      ELSE IF a.of = c THEN 0 ELSE a.of] : a \in attendances}

Read(x) == [NothingRead EXCEPT !.cert = x, !.members = MembersOf(x.id)]

-------------------------------------------------------------------------------
(***************************************************************************)
(* create (degree-certificates.service.ts).                                *)
(***************************************************************************)
BeginCreate(r, d) ==
  /\ nextId <= MaxCertificate
  /\ Begin(r, "insert", [NoRequest EXCEPT !.op = "create", !.date = d],
           NothingRead)
  /\ Unwritten

(* Refused (the student, the room, the certificate's type), or inserted.     *)
Insert(r) ==
  LET x == [NoCertificate EXCEPT !.id = nextId, !.date = req[r].date] IN
  /\ pc[r] = "insert"
  /\ \/ Done(r) /\ Unwritten
     \/ /\ Save(x)
        /\ nextId' = nextId + 1
        /\ UNCHANGED <<attendances, nextAttendance>>
        /\ GoOn(r, "readBack", [NothingRead EXCEPT !.cert = x])

ReadBack(r) ==
  /\ pc[r] = "readBack"
  /\ \E x \in certificates :
       x.id = view[r].cert.id /\ GoOn(r, "saveSheet", Read(x))
  /\ Unwritten

(* generateGradeSheet: Drive copies the sheet, or throws; then the removal   *)
(* of the certificate that create has for an error is not reached.           *)
SaveSheet(r) ==
  /\ pc[r] = "saveSheet"
  /\ Done(r)
  /\ \/ Unwritten
     \/ /\ Save([view[r].cert EXCEPT !.sheet = TRUE])
        /\ SaveMembers(view[r].cert.id, view[r].members)
        /\ Identified

-------------------------------------------------------------------------------
(***************************************************************************)
(* update (update-certificate.service.ts).                                 *)
(***************************************************************************)

(* A date and a number may be asked for, and what is no part of the model.   *)
(* Only a number that the certificate has not got is verified.               *)
BeginUpdate(r, x, d, n) ==
  /\ Begin(r, IF n \in {NoNumber, x.number} THEN "schedule" ELSE "verifyNumber",
           [op |-> "update", date |-> d, number |-> n], Read(x))
  /\ Unwritten

(* The certificate as the update wants it.                                   *)
Updated(r) ==
  LET x == view[r].cert
      q == req[r]
  IN [x EXCEPT !.date = IF q.date = NoDate THEN @ ELSE q.date,
               !.number = IF q.number = NoNumber THEN @ ELSE q.number]

(* verifyLastNumberatedAndPresentationDate for an enqueued number: the day   *)
(* of the month, and no more, is compared with that of the next number.      *)
VerifyNumber(r) ==
  LET above == {y \in Live : y.number > req[r].number}
      next == {y \in above : \A z \in above : y.number <= z.number}
  IN
  /\ pc[r] = "verifyNumber"
  /\ \/ above = {} /\ GoOn(r, "schedule", view[r])
     \/ \E y \in next :
          IF y.date # NoDate /\ Day(y.date) < Day(Updated(r).date)
          THEN GoOn(r, "saveBack", view[r])
          ELSE GoOn(r, "schedule", view[r])
  /\ Unwritten

(* Where a date is given the room or a member may be taken at that time.     *)
CheckSchedule(r) ==
  /\ pc[r] = "schedule"
  /\ \/ GoOn(r, "saveUpdate", view[r])
     \/ req[r].date # NoDate /\ GoOn(r, "saveBack", view[r])
  /\ Unwritten

(* A document is generated again for a new date or status.                   *)
Regenerated(r) ==
  \/ view[r].cert.document /\ GoOn(r, "regenerate", view[r])
  \/ ~ (view[r].cert.document /\ req[r].date # NoDate) /\ Done(r)

(* The row is loaded, overwritten with what was read and the changes, and    *)
(* saved.  Another type needs another sheet.                                 *)
SaveUpdate(r) ==
  /\ pc[r] = "saveUpdate"
  /\ Save(Updated(r))
  /\ \/ Regenerated(r)
     \/ GoOn(r, "resheet", [view[r] EXCEPT
           !.freshMembers = view[r].members \cup MembersOf(view[r].cert.id)])
  /\ UNCHANGED <<attendances, nextId, nextAttendance>>

(* generateGradeSheet saves the updated entity once more, or Drive refuses.  *)
SaveNewSheet(r) ==
  /\ pc[r] = "resheet"
  /\ \/ GoOn(r, "saveBack", view[r]) /\ Unwritten
     \/ /\ Save([Updated(r) EXCEPT !.sheet = TRUE])
        /\ SaveMembers(view[r].cert.id, view[r].freshMembers)
        /\ Identified
        /\ Regenerated(r)

Regenerate(r) ==
  /\ pc[r] = "regenerate"
  /\ \E x \in certificates :
       /\ x.id = view[r].cert.id
       /\ GoOn(r, "docPending", [view[r] EXCEPT
                 !.fresh = x, !.freshMembers = MembersOf(x.id)])
  /\ Unwritten

(* The old document is deleted on Drive, which may refuse.                   *)
Unlink(r) ==
  /\ pc[r] = "unlink"
  /\ Done(r) \/ GoOn(r, "saveBack", view[r])
  /\ Unwritten

(* The error path: the certificate is saved as it was read.                  *)
SaveBack(r) ==
  /\ pc[r] = "saveBack"
  /\ Save(view[r].cert)
  /\ SaveMembers(view[r].cert.id, view[r].members)
  /\ Identified
  /\ Done(r)

-------------------------------------------------------------------------------
(***************************************************************************)
(* generateDocument (certificate-document.service.ts), by itself or for an *)
(* update.                                                                 *)
(***************************************************************************)
BeginDocument(r, x) ==
  /\ Begin(r, "docPending", [NoRequest EXCEPT !.op = "document"],
           [NothingRead EXCEPT !.fresh = x, !.freshMembers = MembersOf(x.id)])
  /\ Unwritten

Refuse(r) ==
  IF req[r].op = "update" THEN GoOn(r, "saveBack", view[r]) ELSE Done(r)

(* Mutant of CheckPending: certificates without a number are not waited for. *)
CheckPendingNot(r) ==
  /\ pc[r] = "docPending"
  /\ IF view[r].fresh.date = NoDate
     THEN Refuse(r) ELSE GoOn(r, "docCheck", view[r])
  /\ Unwritten

CheckPending(r) ==
  /\ pc[r] = "docPending"
  /\ IF ToGenerate # {} \/ view[r].fresh.date = NoDate
     THEN Refuse(r) ELSE GoOn(r, "docCheck", view[r])
  /\ Unwritten

(* The sheet, the members present and their president, the grades.           *)
CheckDocument(r) ==
  LET x == view[r].fresh IN
  /\ pc[r] = "docCheck"
  /\ \/ x.sheet /\ MembersOf(x.id) # {} /\ GoOn(r, "docSave", view[r])
     \/ Refuse(r)
  /\ Unwritten

(* Drive copies the template, or fails; the certificate is saved as read.    *)
SaveDocument(r) ==
  LET x == view[r].fresh IN
  /\ pc[r] = "docSave"
  /\ \/ Refuse(r) /\ Unwritten
     \/ /\ Save([x EXCEPT !.document = TRUE])
        /\ SaveMembers(x.id, view[r].freshMembers)
        /\ Identified
        /\ IF req[r].op = "update" THEN GoOn(r, "unlink", view[r]) ELSE Done(r)

-------------------------------------------------------------------------------
(***************************************************************************)
(* remove (degree-certificates.service.ts).                                *)
(***************************************************************************)
BeginRemove(r, x) ==
  /\ Begin(r, "saveRemoved", [NoRequest EXCEPT !.op = "remove"], Read(x))
  /\ Unwritten

(* Mutant of SaveRemoved: the number goes with the certificate.              *)
SaveRemovedNumber(r) ==
  /\ pc[r] = "saveRemoved"
  /\ Save([view[r].cert EXCEPT !.removed = TRUE, !.sheet = FALSE,
                               !.number = NoNumber])
  /\ SaveMembers(view[r].cert.id, view[r].members)
  /\ Identified
  /\ GoOn(r, "dropAttendances", view[r])

(* The row stays, with its number, which is enqueued.                        *)
SaveRemoved(r) ==
  /\ pc[r] = "saveRemoved"
  /\ Save([view[r].cert EXCEPT !.removed = TRUE, !.sheet = FALSE])
  /\ SaveMembers(view[r].cert.id, view[r].members)
  /\ Identified
  /\ GoOn(r, "dropAttendances", view[r])

DropAttendances(r) ==
  /\ pc[r] = "dropAttendances"
  /\ attendances' = {a \in attendances : a.of # view[r].cert.id}
  /\ UNCHANGED <<certificates, nextId, nextAttendance>>
  /\ Done(r)

-------------------------------------------------------------------------------
(***************************************************************************)
(* generateNumeration (certificate-numeration.service.ts).                 *)
(***************************************************************************)
BeginGenerate(r) ==
  /\ Begin(r, "genList", [NoRequest EXCEPT !.op = "generate"], NothingRead)
  /\ Unwritten

ListPending(r) ==
  /\ pc[r] = "genList"
  /\ IF ToGenerate = {} THEN Done(r)
     ELSE GoOn(r, "genLast", [NothingRead EXCEPT !.pending = ToGenerate])
  /\ Unwritten

ReadLast(r) ==
  /\ pc[r] = "genLast"
  /\ GoOn(r, "genVerify", [view[r] EXCEPT !.last = LastNumber])
  /\ Unwritten

(* Is d a day before that of the last number, in the same month?             *)
Before(d, last) == Month(d) = Month(last) /\ Day(d) < Day(last)

(* The dates are compared with that of the certificate of the last number,   *)
(* unless it is removed or from before the system.                           *)
VerifyDates(r) ==
  LET lasts == Newest({x \in certificates : x.number = view[r].last
                                            /\ x.number # NoNumber})
      Refused(x) ==
        \/ x.date = NoDate
        \/ ~ x.removed /\ \E y \in view[r].pending : Before(y.date, x.date)
  IN
  /\ pc[r] = "genVerify"
  /\ \/ /\ lasts = {} \/ \E x \in lasts : ~ Refused(x)
        /\ GoOn(r, "genSave", view[r])
     \/ (\E x \in lasts : Refused(x)) /\ Done(r)
  /\ Unwritten

(* One certificate after the other, by date, is saved as it was listed, with *)
(* the next number.                                                          *)
SaveNumber(r) ==
  LET v == view[r]
      earliest == {x \in v.pending : \A y \in v.pending : x.date <= y.date}
  IN
  /\ pc[r] = "genSave"
  /\ \E x \in earliest :
       /\ Save([x EXCEPT !.number = v.last + 1])
       /\ IF v.pending = {x} THEN Done(r)
          ELSE GoOn(r, "genSave", [v EXCEPT !.pending = @ \ {x},
                                            !.last = @ + 1])
  /\ UNCHANGED <<attendances, nextId, nextAttendance>>

-------------------------------------------------------------------------------
(***************************************************************************)
(* The members of the tribunal, and the specification.                     *)
(***************************************************************************)
Attend(x) ==
  /\ nextAttendance <= MaxAttendance
  /\ attendances' = attendances \cup {[id |-> nextAttendance, of |-> x.id]}
  /\ nextAttendance' = nextAttendance + 1
  /\ UNCHANGED <<certificates, nextId, pc, req, view>>

Leave(a) ==
  /\ attendances' = attendances \ {a}
  /\ UNCHANGED <<certificates, nextId, nextAttendance, pc, req, view>>

(* The updates considered: a client gives a number from the list of enqueued *)
(* ones, to a certificate that has a date and no number.                     *)
Considered(x, d, n) ==
  n # NoNumber =>
    n \in Enqueued /\ x.number = NoNumber /\ (d # NoDate \/ x.date # NoDate)

(* Clients see the certificates that are not removed.                        *)
BeginRequest(r) ==
  \/ \E d \in 0 .. MaxDate : BeginCreate(r, d)
  \/ \E x \in Live : \/ BeginRemove(r, x) \/ BeginDocument(r, x)
                     \/ \E d \in 0 .. MaxDate, n \in Enqueued \cup {NoNumber} :
                          Considered(x, d, n) /\ BeginUpdate(r, x, d, n)
  \/ BeginGenerate(r)

Serve(r) ==
  \/ Insert(r) \/ ReadBack(r) \/ SaveSheet(r)
  \/ VerifyNumber(r) \/ CheckSchedule(r) \/ SaveUpdate(r)
  \/ SaveNewSheet(r) \/ Regenerate(r) \/ Unlink(r) \/ SaveBack(r)
  \/ CheckPending(r) \/ CheckDocument(r) \/ SaveDocument(r)
  \/ SaveRemoved(r) \/ DropAttendances(r)
  \/ ListPending(r) \/ ReadLast(r) \/ VerifyDates(r) \/ SaveNumber(r)

Next ==
  \/ \E r \in Requests : BeginRequest(r) \/ Serve(r)
  \/ \E x \in Live : Attend(x)
  \/ \E a \in attendances : Leave(a)

CertificatesSpec == Init /\ [][Next]_vars

-------------------------------------------------------------------------------
(***************************************************************************)
(* Properties of requests served one at a time.                            *)
(***************************************************************************)

(* Every number up to the last is that of a certificate, removed or not: the *)
(* removal keeps it so that it can be given again ("no se elimina el numero  *)
(* ya que se utiliza para los números encolados").                           *)
NumbersComplete ==
  LET numbers == {x.number : x \in certificates}
  IN  \A n \in numbers : Base + 1 .. n \subseteq numbers

(* A certificate keeps its number for ever, and stays removed, whatever      *)
(* fails in later requests; only the update that gives a number takes it     *)
(* back when it fails itself.                                                *)
NumberStays ==
  [][\A x \in certificates : \E y \in certificates' :
       /\ y.id = x.id
       /\ x.removed => y.removed
       /\ \/ x.number \in {NoNumber, y.number}
          \/ \E r \in Requests : /\ pc[r] = "saveBack" /\ view[r].cert.id = x.id
                                 /\ req[r].number = x.number]_vars

(* A document shows a number: no certificate has one without the other.      *)
DocumentsNumbered ==
  \A x \in certificates : x.document => x.number # NoNumber /\ x.date # NoDate

(* A certificate is of its type and its document shows a number.             *)
CertificatesInv == CertificatesTypeOK /\ DocumentsNumbered
===============================================================================

-------------------------- MODULE CertificatesProofs --------------------------
(***************************************************************************)
(* What holds of the certificates and of the students they are made for.   *)
(*                                                                         *)
(* Part 1: Certificates, for any dates and any number of certificates,     *)
(* where one request is served at a time.  Part 2: the pool of connections *)
(* and the load of students, for any bodies, sheets and callers.           *)
(***************************************************************************)
EXTENDS Certificates, StudentLoad, TLAPS, FiniteSetTheorems, WellFoundedInduction

-------------------------------------------------------------------------------
(***************************************************************************)
(* Sets of numbers.                                                        *)
(***************************************************************************)

(* Every set of numbers has a least one.                                     *)
LEMMA LeastOf ==
  ASSUME NEW T \in SUBSET Nat, T # {}
  PROVE  \E x \in T : \A y \in T : x <= y
<1> DEFINE R == OpToRel(<, Nat)
<1>1. IsWellFoundedOn(R, Nat)
  BY NatLessThanWellFounded
<1>2. PICK x \in T : \A y \in T : ~ (<<y, x>> \in R)
  <2> HIDE DEF R
  <2> QED
    BY <1>1, WFMin
<1>3. \A y \in T : ~ (y < x)
  BY <1>2 DEF OpToRel
<1> QED
  BY <1>3

(* A bounded set of numbers has a greatest one, which Max is.                *)
LEMMA MaxOf ==
  ASSUME NEW T \in SUBSET Nat, T # {}, NEW bound \in Nat, \A x \in T : x <= bound
  PROVE  Max(T) \in T /\ \A y \in T : y <= Max(T)
<1> DEFINE D == {d \in 0..bound : bound - d \in T}
<1>1. D \in SUBSET Nat /\ D # {}
  <2>1. PICK x \in T : TRUE
    OBVIOUS
  <2>2. x \in Nat /\ x <= bound
    BY <2>1
  <2>3. bound - x \in 0..bound /\ bound - (bound - x) = x
    BY <2>2
  <2>4. bound - x \in D
    BY <2>1, <2>3
  <2>5. D \subseteq Nat
    OBVIOUS
  <2> QED
    BY <2>4, <2>5
<1>2. PICK d \in D : \A e \in D : d <= e
  BY <1>1, LeastOf
<1>3. ASSUME NEW y \in T
      PROVE  bound - d >= y
  <2>1. bound - y \in 0..bound /\ bound - (bound - y) = y
    OBVIOUS
  <2>2. d <= bound - y
    BY <1>2, <2>1
  <2> QED
    BY <1>2, <2>1, <2>2
<1>4. \E x \in T : \A y \in T : x >= y
  BY <1>2, <1>3
<1>5. Max(T) \in T /\ \A y \in T : Max(T) >= y
  BY <1>4 DEF Max
<1> QED
  BY <1>5

-------------------------------------------------------------------------------
(* One request is served at a time.                                          *)
OneRequest == \A r, s \in Requests : r = s

-------------------------------------------------------------------------------
(* Certificates and attendances have identifiers of their own, given in      *)
(* order.                                                                    *)
RowsInv ==
  /\ \A x, y \in certificates : x.id = y.id => x = y
  /\ \A x \in certificates : x.id < nextId

AttendancesInv == \A a \in attendances : a.id < nextAttendance

(* There is a highest number.                                                *)
BoundInv == \E bound \in Nat : \A x \in certificates : x.number <= bound

Reading == {"readBack", "saveSheet", "saveRemoved"}
Updating == {"verifyNumber", "schedule", "saveUpdate",
             "resheet", "regenerate", "unlink", "saveBack"}
Documenting == {"docPending", "docCheck", "docSave"}
Generating == {"genLast", "genVerify", "genSave"}

(* A certificate as a document may show it.                                  *)
Showable(x) == x.document => x.number # NoNumber /\ x.date # NoDate

(* What an update has read of table: the certificate as it still is, or as   *)
(* the update has left it.  The number it gives is that of a removed one.    *)
UpdateFits(table, q, at, x) ==
  /\ q.op = "update" /\ ~ x.removed /\ Showable(x)
  /\ q.number # NoNumber =>
       /\ x.number = NoNumber
       /\ q.date # NoDate \/ x.date # NoDate
       /\ \E y \in table : y.removed /\ y.number = q.number
  /\ IF at \in {"verifyNumber", "schedule", "saveUpdate"}
     THEN x \in table
     ELSE \E y \in table :
            /\ y.id = x.id /\ ~ y.removed
            /\ \/ y.number = x.number
               \/ q.number # NoNumber /\ y.number = q.number

(* What each handler has read is still true.                                 *)
Fits(table, q, at, v) ==
  /\ at \in Reading => v.cert \in table
  /\ at \in Updating => UpdateFits(table, q, at, v.cert)
  /\ at \in Documenting =>
       /\ v.fresh \in table /\ ~ v.fresh.removed
       /\ q.op = "update" =>
            v.fresh.id = v.cert.id /\ UpdateFits(table, q, at, v.cert)
  /\ at \in {"docCheck", "docSave"} =>
       v.fresh.number # NoNumber /\ v.fresh.date # NoDate
  /\ at \in Generating => \A x \in v.pending :
       x \in table /\ ~ x.removed /\ x.date # NoDate /\ x.number = NoNumber
  /\ at \in {"genVerify", "genSave"} =>
       v.last = Base \/ \E x \in table : x.number = v.last

HandlersInv == \A r \in Requests : Fits(certificates, req[r], pc[r], view[r])

(* All that holds when requests are served one at a time.                    *)
SerialInv ==
  /\ CertificatesTypeOK /\ RowsInv /\ AttendancesInv /\ BoundInv
  /\ DocumentsNumbered /\ NumbersComplete /\ HandlersInv
-------------------------------------------------------------------------------
(***************************************************************************)
(* Helpers.                                                                *)
(***************************************************************************)

LEMMA NoneTyped ==
  /\ NoCertificate \in Certificate /\ NothingRead \in View
  /\ NoRequest \in Request
  BY DEF NoCertificate, Certificate, NothingRead, View, NoRequest, Request, Op,
     NoDate, NoNumber

LEMMA MembersTyped ==
  ASSUME CertificatesTypeOK, AttendancesInv, NEW c
  PROVE  MembersOf(c) \in SUBSET Nat /\ \A i \in MembersOf(c) : i < nextAttendance
  BY DEF CertificatesTypeOK, AttendancesInv, Attendance, MembersOf

(* What a handler reads of a certificate.                                    *)
LEMMA ReadIs ==
  ASSUME CertificatesTypeOK, AttendancesInv, NEW x \in certificates
  PROVE  Read(x) \in View /\ Read(x).cert = x
<1>1. MembersOf(x.id) \in SUBSET Nat /\ x \in Certificate
  BY MembersTyped DEF CertificatesTypeOK
<1> QED
  BY <1>1, NoneTyped DEF Read, View

(* A handler that goes on, or is done, is of its type.                       *)
LEMMA GoOnTyped ==
  ASSUME CertificatesTypeOK, NEW r \in Requests, NEW to \in Await,
         NEW v \in View, GoOn(r, to, v)
  PROVE  /\ pc' \in [Requests -> Await] /\ req' \in [Requests -> Request]
         /\ view' \in [Requests -> View]
  BY DEF CertificatesTypeOK, GoOn

LEMMA DoneTyped ==
  ASSUME CertificatesTypeOK, NEW r \in Requests, Done(r)
  PROVE  /\ pc' \in [Requests -> Await] /\ req' \in [Requests -> Request]
         /\ view' \in [Requests -> View]
  BY NoneTyped DEF CertificatesTypeOK, Done, Await

LEMMA BeginTyped ==
  ASSUME CertificatesTypeOK, NEW r \in Requests, NEW to \in Await,
         NEW q \in Request, NEW v \in View, Begin(r, to, q, v)
  PROVE  /\ pc' \in [Requests -> Await] /\ req' \in [Requests -> Request]
         /\ view' \in [Requests -> View]
  BY DEF CertificatesTypeOK, Begin

(* What the only handler relies on afterwards.                               *)
LEMMA GoOnFits ==
  ASSUME OneRequest, CertificatesTypeOK, NEW r \in Requests, NEW to, NEW v,
         GoOn(r, to, v), Fits(certificates', req[r], to, v)
  PROVE  HandlersInv'
<1>1. req' = req /\ pc'[r] = to /\ view'[r] = v
  BY DEF GoOn, CertificatesTypeOK
<1> SUFFICES ASSUME NEW s \in Requests
             PROVE  Fits(certificates', req'[s], pc'[s], view'[s])
  BY DEF HandlersInv
<1>2. s = r
  BY DEF OneRequest
<1> QED
  BY <1>1, <1>2

LEMMA BeginFits ==
  ASSUME OneRequest, CertificatesTypeOK, NEW r \in Requests, NEW to, NEW q, NEW v,
         Begin(r, to, q, v), Fits(certificates', q, to, v)
  PROVE  HandlersInv'
<1>1. req'[r] = q /\ pc'[r] = to /\ view'[r] = v
  BY DEF Begin, CertificatesTypeOK
<1> SUFFICES ASSUME NEW s \in Requests
             PROVE  Fits(certificates', req'[s], pc'[s], view'[s])
  BY DEF HandlersInv
<1>2. s = r
  BY DEF OneRequest
<1> QED
  BY <1>1, <1>2

(* Where nothing is relied on.                                               *)
LEMMA FreeFits ==
  ASSUME NEW table, NEW q, NEW v,
         NEW at \in {"idle", "insert", "dropAttendances", "genList"}
  PROVE  Fits(table, q, at, v)
  BY DEF Fits, Reading, Updating, Documenting, Generating

LEMMA DoneFits ==
  ASSUME OneRequest, CertificatesTypeOK, NEW r \in Requests, Done(r)
  PROVE  HandlersInv'
<1> SUFFICES ASSUME NEW s \in Requests
             PROVE  Fits(certificates', req'[s], pc'[s], view'[s])
  BY DEF HandlersInv
<1>1. s = r
  BY DEF OneRequest
<1>2. pc'[s] = "idle"
  BY <1>1 DEF Done, CertificatesTypeOK
<1> QED
  BY <1>2, FreeFits

(* An entity saved with its attendances.                                     *)
LEMMA SaveMembersTyped ==
  ASSUME CertificatesTypeOK, AttendancesInv, NEW c \in Nat, NEW members,
         SaveMembers(c, members)
  PROVE  /\ attendances' \subseteq Attendance
         /\ \A a \in attendances' : a.id < nextAttendance
<1> DEFINE Of(a) == IF a.id \in members THEN c
                    ELSE IF a.of = c THEN 0 ELSE a.of
<1>1. ASSUME NEW a \in attendances
      PROVE  /\ [a EXCEPT !.of = Of(a)] \in Attendance
             /\ [a EXCEPT !.of = Of(a)].id < nextAttendance
  <2>1. a \in Attendance /\ Of(a) \in Nat /\ a.id < nextAttendance
    BY DEF CertificatesTypeOK, AttendancesInv, Attendance
  <2> HIDE DEF Of
  <2> QED
    BY <2>1 DEF Attendance
<1> QED
  BY <1>1 DEF SaveMembers

-------------------------------------------------------------------------------
(***************************************************************************)
(* A certificate is saved over itself.                                     *)
(***************************************************************************)

(* Certificate y may be saved as z: it keeps its number, or gets one that is *)
(* enqueued or the next of one, or loses one that is enqueued to the failure *)
(* of the update that gave it.                                               *)
NumberGiven(y, z) ==
  /\ y.number = NoNumber
  /\ \/ \E x \in certificates : x.number = z.number
     \/ z.number = Base + 1
     \/ \E x \in certificates : z.number = x.number + 1

NumberTakenBack(r, y, z) ==
  /\ z.number = NoNumber
  /\ pc[r] = "saveBack" /\ view[r].cert.id = y.id /\ req[r].number = y.number
  /\ \E x \in certificates : x.id # y.id /\ x.number = y.number

Allowed(r, y, z) ==
  /\ y \in certificates /\ z \in Certificate /\ z.id = y.id
  /\ y.removed => z.removed
  /\ Showable(z)
  /\ z.number = y.number \/ NumberGiven(y, z) \/ NumberTakenBack(r, y, z)

LEMMA SaveReplaces ==
  ASSUME RowsInv, NEW y \in certificates, NEW z, z.id = y.id, Save(z)
  PROVE  certificates' = (certificates \ {y}) \cup {z}
<1>1. \A x \in certificates : x.id # z.id <=> x # y
  BY DEF RowsInv
<1> QED
  BY <1>1 DEF Save

(* The numbers stay complete.                                                *)
LEMMA NumbersKept ==
  ASSUME CertificatesTypeOK, NumbersComplete, certificates' \subseteq Certificate,
         \A x \in certificates :
           x.number = NoNumber \/ \E y \in certificates' : y.number = x.number,
         \A y \in certificates' :
           \/ y.number \in {NoNumber, Base + 1}
           \/ \E x \in certificates : y.number \in {x.number, x.number + 1}
  PROVE  NumbersComplete'
<1> SUFFICES ASSUME NEW y \in certificates', NEW k \in Base + 1 .. y.number
             PROVE  \E z \in certificates' : z.number = k
  BY DEF NumbersComplete
<1>1. y.number \in Nat /\ Base \in Nat /\ k \in Nat /\ k # NoNumber
  BY CertificatesAssumption DEF Certificate, NoNumber
<1>2. ASSUME NEW x \in certificates, k \in Base + 1 .. x.number
      PROVE  \E z \in certificates' : z.number = k
  <2>1. \E w \in certificates : w.number = k
    BY <1>2 DEF NumbersComplete
  <2> QED
    BY <1>1, <2>1
<1>3. CASE y.number = k
  BY <1>3
<1>4. CASE y.number # k
  <2>1. y.number \notin {NoNumber, Base + 1}
    BY <1>1, <1>4 DEF NoNumber
  <2>2. PICK x \in certificates : y.number \in {x.number, x.number + 1}
    BY <2>1
  <2>3. x.number \in Nat
    BY DEF CertificatesTypeOK, Certificate
  <2>4. k \in Base + 1 .. x.number
    BY <1>1, <1>4, <2>2, <2>3
  <2> QED
    BY <1>2, <2>4
<1> QED
  BY <1>3, <1>4

(* A certificate keeps its number and stays removed.                         *)
Stays(x) ==
  \E y \in certificates' :
    /\ y.id = x.id
    /\ x.removed => y.removed
    /\ \/ x.number \in {NoNumber, y.number}
       \/ \E r \in Requests : /\ pc[r] = "saveBack" /\ view[r].cert.id = x.id
                              /\ req[r].number = x.number

(* What holds of the tables alone.                                           *)
TablesInv ==
  /\ certificates \subseteq Certificate /\ attendances \subseteq Attendance
  /\ nextId \in Nat /\ nextAttendance \in Nat
  /\ RowsInv /\ AttendancesInv /\ BoundInv
  /\ DocumentsNumbered /\ NumbersComplete

AllStay == \A x \in certificates : Stays(x)

LEMMA AllowedKeeps ==
  ASSUME SerialInv, NEW r \in Requests, NEW y, NEW z, Allowed(r, y, z), Save(z),
         nextId' = nextId
  PROVE  /\ certificates' = (certificates \ {y}) \cup {z}
         /\ certificates' \subseteq Certificate
         /\ RowsInv' /\ BoundInv' /\ DocumentsNumbered' /\ NumbersComplete'
         /\ AllStay
<1> USE DEF SerialInv
<1>0. /\ y \in certificates /\ z \in Certificate /\ z.id = y.id
      /\ y.removed => z.removed
      /\ Showable(z)
      /\ z.number = y.number \/ NumberGiven(y, z) \/ NumberTakenBack(r, y, z)
  BY DEF Allowed
<1>1. certificates' = (certificates \ {y}) \cup {z}
  BY <1>0, SaveReplaces
<1>2. certificates' \subseteq Certificate
  BY <1>0, <1>1 DEF CertificatesTypeOK
<1>3. RowsInv'
  BY <1>0, <1>1 DEF RowsInv
<1>4. BoundInv'
  <2>1. PICK bound \in Nat : \A x \in certificates : x.number <= bound
    BY DEF BoundInv
  <2>2. PICK b \in Nat : bound <= b /\ z.number <= b
    <3>1. z.number \in Nat
      BY <1>0 DEF Certificate
    <3> QED
      BY <3>1
  <2>3. ASSUME NEW x \in certificates' PROVE x.number <= b
    <3>1. x.number \in Nat
      BY <1>2, <2>3 DEF Certificate
    <3> QED
      BY <1>1, <2>1, <2>2, <3>1
  <2> QED
    BY <2>3 DEF BoundInv
<1>5. DocumentsNumbered'
  BY <1>0, <1>1 DEF DocumentsNumbered, Showable
<1>6. NumbersComplete'
  <2>1. ASSUME NEW x \in certificates
        PROVE  x.number = NoNumber \/ \E w \in certificates' : w.number = x.number
    <3>1. CASE x # y
      BY <1>1, <3>1
    <3>2. CASE x = y
      <4>1. CASE z.number = y.number
        BY <1>1, <3>2, <4>1
      <4>2. CASE NumberGiven(y, z)
        BY <3>2, <4>2 DEF NumberGiven
      <4>3. CASE NumberTakenBack(r, y, z)
        BY <1>1, <3>2, <4>3 DEF NumberTakenBack
      <4> QED
        BY <1>0, <4>1, <4>2, <4>3
    <3> QED
      BY <3>1, <3>2
  <2>2. ASSUME NEW w \in certificates'
        PROVE  \/ w.number \in {NoNumber, Base + 1}
               \/ \E x \in certificates : w.number \in {x.number, x.number + 1}
    BY <1>0, <1>1 DEF NumberGiven, NumberTakenBack
  <2> QED
    BY <1>2, <2>1, <2>2, NumbersKept
<1>7. AllStay
  <2> SUFFICES ASSUME NEW x \in certificates PROVE Stays(x)
    BY DEF AllStay
  <2>1. CASE x # y
    BY <1>1, <2>1 DEF Stays
  <2>2. CASE x = y
    BY <1>0, <1>1, <2>2 DEF Stays, NumberGiven, NumberTakenBack
  <2> QED
    BY <2>1, <2>2
<1> QED
  BY <1>1, <1>2, <1>3, <1>4, <1>5, <1>6, <1>7

(* A step that writes no certificate.                                        *)
LEMMA SameCertificates ==
  ASSUME SerialInv, certificates' = certificates, nextId' = nextId
  PROVE  /\ certificates' \subseteq Certificate
         /\ RowsInv' /\ BoundInv' /\ DocumentsNumbered' /\ NumbersComplete'
         /\ AllStay
  BY DEF SerialInv, CertificatesTypeOK, RowsInv, BoundInv, DocumentsNumbered,
     NumbersComplete, AllStay, Stays
-------------------------------------------------------------------------------
(***************************************************************************)
(* Steps that write no certificate.                                        *)
(***************************************************************************)

(* The part of the type that is about handlers.                              *)
HandlersTyped ==
  /\ pc \in [Requests -> Await] /\ req \in [Requests -> Request]
  /\ view \in [Requests -> View]

(* What the only handler relies on.                                          *)
LEMMA SerialReads ==
  ASSUME SerialInv, NEW r \in Requests
  PROVE  /\ CertificatesTypeOK /\ AttendancesInv
         /\ view[r] \in View /\ req[r] \in Request
         /\ view[r].cert \in Certificate /\ view[r].fresh \in Certificate
         /\ Fits(certificates, req[r], pc[r], view[r])
  BY DEF SerialInv, CertificatesTypeOK, HandlersInv, View

(* The handler goes on with what it has read.                                *)
LEMMA GoesOn ==
  ASSUME OneRequest, SerialInv, NEW r \in Requests, NEW to \in Await, NEW v \in View,
         GoOn(r, to, v), Fits(certificates', req[r], to, v)
  PROVE  HandlersTyped' /\ HandlersInv'
  BY GoOnTyped, GoOnFits DEF SerialInv, HandlersTyped

LEMMA IsDone ==
  ASSUME OneRequest, SerialInv, NEW r \in Requests, Done(r)
  PROVE  HandlersTyped' /\ HandlersInv'
  BY DoneTyped, DoneFits DEF SerialInv, HandlersTyped

LEMMA BeginStep ==
  ASSUME OneRequest, SerialInv, NEW r \in Requests, BeginRequest(r)
  PROVE  Unwritten /\ HandlersTyped' /\ HandlersInv'
<1>0. CertificatesTypeOK /\ AttendancesInv /\ DocumentsNumbered
  BY DEF SerialInv
<1>a. ASSUME NEW to \in Await, NEW q \in Request, NEW v \in View,
             Begin(r, to, q, v), Fits(certificates', q, to, v)
      PROVE  HandlersTyped' /\ HandlersInv'
  BY <1>0, <1>a, BeginTyped, BeginFits DEF HandlersTyped
<1>1. ASSUME NEW d \in 0 .. MaxDate, BeginCreate(r, d)
      PROVE  Unwritten /\ HandlersTyped' /\ HandlersInv'
  <2>1. PICK q : q = [NoRequest EXCEPT !.op = "create", !.date = d]
    OBVIOUS
  <2>2. d \in Nat
    BY CertificatesAssumption
  <2>3. q \in Request
    BY <2>1, <2>2, NoneTyped DEF Request, Op
  <2>4. Begin(r, "insert", q, NothingRead) /\ Unwritten
    BY <1>1, <2>1 DEF BeginCreate
  <2>5. Fits(certificates', q, "insert", NothingRead)
    BY FreeFits
  <2> QED
    BY <1>a, <2>3, <2>4, <2>5, NoneTyped DEF Await
<1>2. ASSUME NEW x \in Live, BeginRemove(r, x)
      PROVE  Unwritten /\ HandlersTyped' /\ HandlersInv'
  <2>1. PICK q : q = [NoRequest EXCEPT !.op = "remove"]
    OBVIOUS
  <2>2. q \in Request
    BY <2>1, NoneTyped DEF Request, Op
  <2>3. Begin(r, "saveRemoved", q, Read(x)) /\ Unwritten
    BY <1>2, <2>1 DEF BeginRemove
  <2>4. x \in certificates /\ Read(x) \in View /\ Read(x).cert = x
        /\ certificates' = certificates
    BY <1>0, <2>3, ReadIs DEF Live, Unwritten
  <2>5. Fits(certificates', q, "saveRemoved", Read(x))
    BY <2>4 DEF Fits, Reading, Updating, Documenting, Generating
  <2> QED
    BY <1>a, <2>2, <2>3, <2>4, <2>5 DEF Await
<1>3. ASSUME NEW x \in Live, BeginDocument(r, x)
      PROVE  Unwritten /\ HandlersTyped' /\ HandlersInv'
  <2>1. PICK q : q = [NoRequest EXCEPT !.op = "document"]
    OBVIOUS
  <2>2. q \in Request /\ q.op = "document"
    BY <2>1, NoneTyped DEF Request, Op
  <2>3. PICK v : v = [NothingRead EXCEPT !.fresh = x, !.freshMembers = MembersOf(x.id)]
    OBVIOUS
  <2>4. Begin(r, "docPending", q, v) /\ Unwritten
    BY <1>3, <2>1, <2>3 DEF BeginDocument
  <2>5. x \in certificates /\ ~ x.removed /\ x \in Certificate
        /\ certificates' = certificates
    BY <1>0, <2>4 DEF Live, Unwritten, CertificatesTypeOK
  <2>6. MembersOf(x.id) \in SUBSET Nat
    BY <1>0, MembersTyped
  <2>7. v \in View /\ v.fresh = x
    BY <2>3, <2>5, <2>6, NoneTyped DEF View
  <2>8. Fits(certificates', q, "docPending", v)
    BY <2>2, <2>5, <2>7 DEF Fits, Reading, Updating, Documenting, Generating
  <2> QED
    BY <1>a, <2>2, <2>4, <2>7, <2>8 DEF Await
<1>4. ASSUME NEW x \in Live, NEW d \in 0 .. MaxDate,
             NEW n \in Enqueued \cup {NoNumber}, Considered(x, d, n),
             BeginUpdate(r, x, d, n)
      PROVE  Unwritten /\ HandlersTyped' /\ HandlersInv'
  <2>0. d \in Nat /\ n \in Nat
    BY <1>0, CertificatesAssumption
    DEF Enqueued, Live, CertificatesTypeOK, Certificate, NoNumber
  <2>1. PICK q : q = [op |-> "update", date |-> d, number |-> n]
    OBVIOUS
  <2>2. q \in Request /\ q.op = "update" /\ q.date = d /\ q.number = n
    BY <2>0, <2>1 DEF Request, Op
  <2>3. PICK to : to = IF n \in {NoNumber, x.number} THEN "schedule" ELSE "verifyNumber"
    OBVIOUS
  <2>4. Begin(r, to, q, Read(x)) /\ Unwritten
    BY <1>4, <2>1, <2>3 DEF BeginUpdate
  <2>5. x \in certificates /\ ~ x.removed /\ Read(x) \in View /\ Read(x).cert = x
        /\ certificates' = certificates
    BY <1>0, <2>4, ReadIs DEF Live, Unwritten
  <2>6. n # NoNumber =>
          /\ x.number = NoNumber
          /\ d # NoDate \/ x.date # NoDate
          /\ \E y \in certificates : y.removed /\ y.number = n
    <3>1. n # NoNumber => n \in Enqueued /\ x.number = NoNumber
                          /\ (d # NoDate \/ x.date # NoDate)
      BY <1>4 DEF Considered
    <3>2. n \in Enqueued => \E y \in certificates : y.removed /\ y.number = n
      BY DEF Enqueued, Live
    <3> QED
      BY <3>1, <3>2
  <2>7. Showable(x)
    BY <1>0, <2>5 DEF DocumentsNumbered, Showable
  <2>8. to \in {"schedule", "verifyNumber"}
    BY <2>3
  <2>9. UpdateFits(certificates', q, to, x)
    BY <2>2, <2>5, <2>6, <2>7, <2>8 DEF UpdateFits
  <2>10. Fits(certificates', q, to, Read(x))
    BY <2>5, <2>8, <2>9 DEF Fits, Reading, Updating, Documenting, Generating
  <2> QED
    BY <1>a, <2>2, <2>4, <2>5, <2>8, <2>10 DEF Await
<1>5. ASSUME BeginGenerate(r)
      PROVE  Unwritten /\ HandlersTyped' /\ HandlersInv'
  <2>1. PICK q : q = [NoRequest EXCEPT !.op = "generate"]
    OBVIOUS
  <2>2. q \in Request
    BY <2>1, NoneTyped DEF Request, Op
  <2>3. Begin(r, "genList", q, NothingRead) /\ Unwritten
    BY <1>5, <2>1 DEF BeginGenerate
  <2>4. Fits(certificates', q, "genList", NothingRead)
    BY FreeFits
  <2> QED
    BY <1>a, <2>2, <2>3, <2>4, NoneTyped DEF Await
<1> QED
  BY <1>1, <1>2, <1>3, <1>4, <1>5 DEF BeginRequest

(* The handlers of a read, of the checks of an update and of a document.     *)
LEMMA CheckStep ==
  ASSUME OneRequest, SerialInv, NEW r \in Requests,
         \/ ReadBack(r) \/ VerifyNumber(r) \/ CheckSchedule(r) \/ Regenerate(r)
         \/ Unlink(r) \/ CheckPending(r) \/ CheckDocument(r)
  PROVE  Unwritten /\ HandlersTyped' /\ HandlersInv'
<1> DEFINE v == view[r]
           q == req[r]
<1>0. /\ CertificatesTypeOK /\ AttendancesInv /\ v \in View /\ q \in Request
      /\ v.cert \in Certificate /\ v.fresh \in Certificate
      /\ Fits(certificates, q, pc[r], v)
  BY SerialReads
<1>a. Unwritten /\ certificates' = certificates
  BY DEF ReadBack, VerifyNumber, CheckSchedule, Regenerate, Unlink,
     CheckPending, CheckDocument, Unwritten
<1>b. Done(r) => HandlersTyped' /\ HandlersInv'
  BY IsDone
<1>1. ASSUME ReadBack(r) PROVE HandlersTyped' /\ HandlersInv'
  <2>1. PICK x \in certificates : GoOn(r, "saveSheet", Read(x))
    BY <1>1 DEF ReadBack
  <2>2. Read(x) \in View /\ Read(x).cert = x
    BY <1>0, ReadIs
  <2>3. Fits(certificates', q, "saveSheet", Read(x))
    BY <1>a, <2>2 DEF Fits, Reading, Updating, Documenting, Generating
  <2> QED
    BY <2>1, <2>2, <2>3, GoesOn DEF Await
<1>2. ASSUME NEW to \in {"schedule", "saveUpdate", "saveBack"},
             pc[r] \in {"verifyNumber", "schedule"}, GoOn(r, to, v)
      PROVE  HandlersTyped' /\ HandlersInv'
  <2>1. UpdateFits(certificates, q, to, v.cert)
    BY <1>0, <1>2 DEF Fits, Updating, UpdateFits
  <2>2. Fits(certificates', q, to, v)
    BY <1>2, <1>a, <2>1 DEF Fits, Reading, Updating, Documenting, Generating
  <2> QED
    BY <1>0, <1>2, <2>2, GoesOn DEF Await
<1>3. ASSUME VerifyNumber(r) \/ CheckSchedule(r) PROVE HandlersTyped' /\ HandlersInv'
  BY <1>2, <1>3 DEF VerifyNumber, CheckSchedule
<1>4. ASSUME Regenerate(r) PROVE HandlersTyped' /\ HandlersInv'
  <2>1. PICK x \in certificates :
          /\ pc[r] = "regenerate" /\ x.id = v.cert.id
          /\ GoOn(r, "docPending", [v EXCEPT
               !.fresh = x, !.freshMembers = MembersOf(x.id)])
    BY <1>4 DEF Regenerate
  <2>2. PICK w : w = [v EXCEPT !.fresh = x, !.freshMembers = MembersOf(x.id)]
    OBVIOUS
  <2>3. MembersOf(x.id) \in SUBSET Nat /\ x \in Certificate
    BY <1>0, MembersTyped DEF CertificatesTypeOK
  <2>4. w \in View /\ w.fresh = x /\ w.cert = v.cert
    BY <1>0, <2>2, <2>3 DEF View
  <2>5. UpdateFits(certificates, q, "regenerate", v.cert)
    BY <1>0, <2>1 DEF Fits, Updating
  <2>6. ~ x.removed
    BY <2>1, <2>5 DEF UpdateFits, SerialInv, RowsInv
  <2>7. UpdateFits(certificates, q, "docPending", v.cert)
    BY <2>5 DEF UpdateFits
  <2>8. Fits(certificates', q, "docPending", w)
    BY <1>a, <2>1, <2>4, <2>6, <2>7
    DEF Fits, Reading, Updating, Documenting, Generating
  <2> QED
    BY <2>1, <2>2, <2>4, <2>8, GoesOn DEF Await
<1>5. ASSUME Refuse(r), pc[r] \in Documenting PROVE HandlersTyped' /\ HandlersInv'
  <2>1. CASE q.op = "update"
    <3>1. UpdateFits(certificates, q, "saveBack", v.cert)
      BY <1>0, <1>5, <2>1 DEF Fits, Documenting, UpdateFits
    <3>2. Fits(certificates', q, "saveBack", v)
      BY <1>a, <3>1 DEF Fits, Reading, Updating, Documenting, Generating
    <3> QED
      BY <1>0, <1>5, <2>1, <3>2, GoesOn DEF Await, Refuse
  <2>2. CASE q.op # "update"
    BY <1>5, <1>b, <2>2 DEF Refuse
  <2> QED
    BY <2>1, <2>2
<1>6. ASSUME Unlink(r) PROVE HandlersTyped' /\ HandlersInv'
  <2>1. UpdateFits(certificates, q, "saveBack", v.cert)
    BY <1>0, <1>6 DEF Unlink, Fits, Updating, UpdateFits
  <2>2. Fits(certificates', q, "saveBack", v)
    BY <1>a, <2>1 DEF Fits, Reading, Updating, Documenting, Generating
  <2> QED
    BY <1>0, <1>6, <1>b, <2>2, GoesOn DEF Await, Unlink
<1>7. ASSUME NEW to \in {"docCheck", "docSave"},
             pc[r] \in {"docPending", "docCheck"}, GoOn(r, to, v),
             v.fresh.number # NoNumber /\ v.fresh.date # NoDate
      PROVE  HandlersTyped' /\ HandlersInv'
  <2>1. /\ v.fresh \in certificates /\ ~ v.fresh.removed
        /\ q.op = "update" => v.fresh.id = v.cert.id
                              /\ UpdateFits(certificates, q, to, v.cert)
    BY <1>0, <1>7 DEF Fits, Documenting, UpdateFits
  <2>2. Fits(certificates', q, to, v)
    BY <1>7, <1>a, <2>1 DEF Fits, Reading, Updating, Documenting, Generating
  <2> QED
    BY <1>0, <1>7, <2>2, GoesOn DEF Await
<1>8. ASSUME CheckPending(r) PROVE HandlersTyped' /\ HandlersInv'
  <2>1. CASE ToGenerate # {} \/ v.fresh.date = NoDate
    BY <1>5, <1>8, <2>1 DEF CheckPending, Documenting
  <2>2. CASE ToGenerate = {} /\ v.fresh.date # NoDate
    <3>1. v.fresh \in certificates /\ ~ v.fresh.removed
      BY <1>0, <1>8 DEF Fits, Documenting, CheckPending
    <3>2. v.fresh.number # NoNumber
      BY <2>2, <3>1 DEF ToGenerate, Live
    <3>3. GoOn(r, "docCheck", v) /\ pc[r] = "docPending"
      BY <1>8, <2>2 DEF CheckPending
    <3> QED
      BY <1>7, <2>2, <3>2, <3>3
  <2> QED
    BY <2>1, <2>2
<1>9. ASSUME CheckDocument(r) PROVE HandlersTyped' /\ HandlersInv'
  <2>1. pc[r] = "docCheck" /\ (Refuse(r) \/ GoOn(r, "docSave", v))
    BY <1>9 DEF CheckDocument
  <2>2. v.fresh.number # NoNumber /\ v.fresh.date # NoDate
    BY <1>0, <2>1 DEF Fits
  <2> QED
    BY <1>5, <1>7, <2>1, <2>2 DEF Documenting
<1> QED
  BY <1>a, <1>1, <1>3, <1>4, <1>6, <1>8, <1>9
-------------------------------------------------------------------------------
(***************************************************************************)
(* The generation of numbers.                                              *)
(***************************************************************************)

(* The newest of some certificates are some of them.                         *)
LEMMA NewestOf ==
  ASSUME CertificatesTypeOK, AttendancesInv, NEW S, S # {}
  PROVE  Newest(S) # {} /\ Newest(S) \subseteq S
<1> DEFINE without == {x \in S : MembersOf(x.id) = {}}
           Latest(x) == Max(MembersOf(x.id))
           T == {Latest(x) : x \in S}
<1>1. CASE without # {}
  BY <1>1 DEF Newest
<1>2. CASE without = {}
  <2>1. ASSUME NEW x \in S PROVE Latest(x) \in Nat /\ Latest(x) <= nextAttendance
    <3>1. PICK M : M = MembersOf(x.id)
      OBVIOUS
    <3>2. /\ M # {} /\ M \in SUBSET Nat /\ nextAttendance \in Nat
          /\ \A i \in M : i <= nextAttendance
      BY <1>2, <2>1, <3>1, MembersTyped DEF CertificatesTypeOK
    <3>3. Max(M) \in M
      BY <3>2, MaxOf
    <3> QED
      BY <3>1, <3>2, <3>3
  <2>2. T \in SUBSET Nat /\ T # {} /\ nextAttendance \in Nat
    BY <2>1 DEF CertificatesTypeOK
  <2>3. \A t \in T : t <= nextAttendance
    BY <2>1
  <2>4. PICK t \in T : \A u \in T : u <= t
    <3> HIDE DEF T
    <3> QED
      BY <2>2, <2>3, MaxOf
  <2>5. PICK x \in S : Latest(x) = t
    BY <2>4
  <2>6. \A y \in S : Latest(y) <= Latest(x)
    BY <2>4, <2>5
  <2> QED
    BY <1>2, <2>6 DEF Newest
<1> QED
  BY <1>1, <1>2

(* The last number is that of a certificate, or the last before the system.  *)
LEMMA LastNumberGiven ==
  ASSUME SerialInv
  PROVE  /\ LastNumber \in Nat
         /\ LastNumber = Base \/ \E x \in certificates : x.number = LastNumber
<1>1. CASE Numbered = {}
  BY <1>1, CertificatesAssumption DEF LastNumber
<1>2. CASE Numbered # {}
  <2>1. PICK T : T = {x.number : x \in Newest(Numbered)}
    OBVIOUS
  <2>2. Newest(Numbered) # {} /\ Newest(Numbered) \subseteq certificates
    BY <1>2, NewestOf DEF SerialInv, Numbered, Live
  <2>3. PICK bound \in Nat : \A x \in certificates : x.number <= bound
    BY DEF SerialInv, BoundInv
  <2>4. T # {} /\ T \in SUBSET Nat /\ \A t \in T : t <= bound
    BY <2>1, <2>2, <2>3 DEF SerialInv, CertificatesTypeOK, Certificate
  <2>5. Max(T) \in T
    BY <2>3, <2>4, MaxOf
  <2>6. LastNumber = Max(T)
    BY <1>2, <2>1 DEF LastNumber
  <2> QED
    BY <2>1, <2>2, <2>4, <2>5, <2>6
<1> QED
  BY <1>1, <1>2

LEMMA GenerateStep ==
  ASSUME OneRequest, SerialInv, NEW r \in Requests,
         ListPending(r) \/ ReadLast(r) \/ VerifyDates(r)
  PROVE  Unwritten /\ HandlersTyped' /\ HandlersInv'
<1> DEFINE v == view[r]
           q == req[r]
<1>0. /\ CertificatesTypeOK /\ AttendancesInv /\ v \in View /\ q \in Request
      /\ Fits(certificates, q, pc[r], v)
  BY SerialReads
<1>a. Unwritten /\ certificates' = certificates
  BY DEF ListPending, ReadLast, VerifyDates, Unwritten
<1>b. Done(r) => HandlersTyped' /\ HandlersInv'
  BY IsDone
<1>1. ASSUME ListPending(r) PROVE HandlersTyped' /\ HandlersInv'
  <2>1. PICK w : w = [NothingRead EXCEPT !.pending = ToGenerate]
    OBVIOUS
  <2>2. Done(r) \/ GoOn(r, "genLast", w)
    BY <1>1, <2>1 DEF ListPending
  <2>3. ToGenerate \in SUBSET Certificate
    BY <1>0 DEF ToGenerate, Live, CertificatesTypeOK
  <2>4. w \in View /\ w.pending = ToGenerate
    BY <2>1, <2>3, NoneTyped DEF View
  <2>5. \A x \in w.pending :
          x \in certificates /\ ~ x.removed /\ x.date # NoDate /\ x.number = NoNumber
    BY <2>4 DEF ToGenerate, Live
  <2>6. Fits(certificates', q, "genLast", w)
    BY <1>a, <2>5 DEF Fits, Reading, Updating, Documenting, Generating
  <2> QED
    BY <1>b, <2>2, <2>4, <2>6, GoesOn DEF Await
<1>2. ASSUME ReadLast(r) PROVE HandlersTyped' /\ HandlersInv'
  <2>1. PICK w : w = [v EXCEPT !.last = LastNumber]
    OBVIOUS
  <2>2. pc[r] = "genLast" /\ GoOn(r, "genVerify", w)
    BY <1>2, <2>1 DEF ReadLast
  <2>3. w \in View /\ w.pending = v.pending /\ w.last = LastNumber
    BY <1>0, <2>1, LastNumberGiven DEF View
  <2>4. Fits(certificates', q, "genVerify", w)
    BY <1>0, <1>a, <2>2, <2>3, LastNumberGiven
    DEF Fits, Reading, Updating, Documenting, Generating
  <2> QED
    BY <2>2, <2>3, <2>4, GoesOn DEF Await
<1>3. ASSUME VerifyDates(r) PROVE HandlersTyped' /\ HandlersInv'
  <2>1. pc[r] = "genVerify" /\ (Done(r) \/ GoOn(r, "genSave", v))
    BY <1>3 DEF VerifyDates
  <2>2. Fits(certificates', q, "genSave", v)
    BY <1>0, <1>a, <2>1 DEF Fits, Reading, Updating, Documenting, Generating
  <2> QED
    BY <1>0, <1>b, <2>1, <2>2, GoesOn DEF Await
<1> QED
  BY <1>a, <1>1, <1>2, <1>3

-------------------------------------------------------------------------------
(***************************************************************************)
(* Steps that save a certificate.                                          *)
(***************************************************************************)

(* What a step does to the table of certificates.                            *)
CertificatesKept ==
  /\ certificates' \subseteq Certificate /\ nextId' \in Nat
  /\ RowsInv' /\ BoundInv' /\ DocumentsNumbered' /\ NumbersComplete'
  /\ AllStay

AttendancesKept ==
  /\ attendances' \subseteq Attendance /\ nextAttendance' \in Nat
  /\ AttendancesInv'

LEMMA UnwrittenKeeps ==
  ASSUME SerialInv, Unwritten
  PROVE  CertificatesKept /\ AttendancesKept
<1>1. CertificatesKept
  BY SameCertificates DEF Unwritten, CertificatesKept, SerialInv, CertificatesTypeOK
<1>2. AttendancesKept
  BY DEF Unwritten, AttendancesKept, SerialInv, CertificatesTypeOK, AttendancesInv
<1> QED
  BY <1>1, <1>2

LEMMA SaveKeeps ==
  ASSUME SerialInv, NEW r \in Requests, NEW y, NEW z, Allowed(r, y, z), Save(z),
         nextId' = nextId
  PROVE  CertificatesKept /\ certificates' = (certificates \ {y}) \cup {z}
  BY AllowedKeeps DEF CertificatesKept, SerialInv, CertificatesTypeOK

LEMMA SaveMembersKeeps ==
  ASSUME SerialInv, NEW c \in Nat, NEW members, SaveMembers(c, members), Identified
  PROVE  AttendancesKept
<1>1. /\ attendances' \subseteq Attendance
      /\ \A a \in attendances' : a.id < nextAttendance
  BY SaveMembersTyped DEF SerialInv
<1> QED
  BY <1>1 DEF AttendancesKept, AttendancesInv, Identified, SerialInv,
     CertificatesTypeOK

LEMMA SameAttendances ==
  ASSUME SerialInv, attendances' = attendances, nextAttendance' = nextAttendance
  PROVE  AttendancesKept
  BY DEF AttendancesKept, SerialInv, CertificatesTypeOK, AttendancesInv

(* A new certificate.                                                        *)
LEMMA InsertStep ==
  ASSUME OneRequest, SerialInv, NEW r \in Requests, Insert(r)
  PROVE  CertificatesKept /\ AttendancesKept /\ HandlersTyped' /\ HandlersInv'
<1>1. CASE Done(r) /\ Unwritten
  BY <1>1, IsDone, UnwrittenKeeps
<1>2. CASE ~ (Done(r) /\ Unwritten)
  <2>1. PICK x : x = [NoCertificate EXCEPT !.id = nextId, !.date = req[r].date]
    OBVIOUS
  <2>2. PICK w : w = [NothingRead EXCEPT !.cert = x]
    OBVIOUS
  <2>3. /\ Save(x) /\ nextId' = nextId + 1 /\ GoOn(r, "readBack", w)
        /\ attendances' = attendances /\ nextAttendance' = nextAttendance
    BY <1>2, <2>1, <2>2 DEF Insert
  <2>4. nextId \in Nat /\ req[r].date \in Nat
    BY DEF SerialInv, CertificatesTypeOK, Request
  <2>5. /\ x \in Certificate /\ x.id = nextId /\ x.number = NoNumber
        /\ ~ x.document
    BY <2>1, <2>4, NoneTyped DEF NoCertificate, Certificate
  <2>6. certificates' = certificates \cup {x}
    BY <2>3, <2>4, <2>5 DEF Save, SerialInv, RowsInv, CertificatesTypeOK, Certificate
  <2>7. RowsInv'
    BY <2>3, <2>4, <2>5, <2>6
    DEF SerialInv, RowsInv, CertificatesTypeOK, Certificate
  <2>8. BoundInv'
    BY <2>5, <2>6 DEF SerialInv, BoundInv, NoNumber
  <2>9. DocumentsNumbered'
    BY <2>5, <2>6 DEF SerialInv, DocumentsNumbered
  <2>10. NumbersComplete'
    <3>1. CertificatesTypeOK /\ NumbersComplete /\ certificates' \subseteq Certificate
      BY <2>5, <2>6 DEF SerialInv, CertificatesTypeOK
    <3>2. \A y \in certificates' :
            \/ y.number \in {NoNumber, Base + 1}
            \/ \E z \in certificates : y.number \in {z.number, z.number + 1}
      BY <2>5, <2>6
    <3>3. \A z \in certificates :
            z.number = NoNumber \/ \E y \in certificates' : y.number = z.number
      BY <2>6
    <3> QED
      BY <3>1, <3>2, <3>3, NumbersKept
  <2>11. AllStay
    BY <2>6 DEF AllStay, Stays
  <2>12. CertificatesKept
    BY <2>3, <2>4, <2>5, <2>6, <2>7, <2>8, <2>9, <2>10, <2>11
    DEF CertificatesKept, SerialInv, CertificatesTypeOK
  <2>13. w \in View /\ w.cert = x
    BY <2>2, <2>5, NoneTyped DEF View
  <2>14. Fits(certificates', req[r], "readBack", w)
    BY <2>6, <2>13 DEF Fits, Reading, Updating, Documenting, Generating
  <2>15. HandlersTyped' /\ HandlersInv'
    BY <2>3, <2>13, <2>14, GoesOn DEF Await
  <2> QED
    BY <2>3, <2>12, <2>15, SameAttendances
<1> QED
  BY <1>1, <1>2
(* The sheet of a new certificate.                                           *)
LEMMA SaveSheetStep ==
  ASSUME OneRequest, SerialInv, NEW r \in Requests, SaveSheet(r)
  PROVE  CertificatesKept /\ AttendancesKept /\ HandlersTyped' /\ HandlersInv'
<1>1. HandlersTyped' /\ HandlersInv'
  BY IsDone DEF SaveSheet
<1>2. CASE Unwritten
  BY <1>1, <1>2, UnwrittenKeeps
<1>3. CASE ~ Unwritten
  <2>1. PICK x, z : x = view[r].cert /\ z = [x EXCEPT !.sheet = TRUE]
    OBVIOUS
  <2>2. Save(z) /\ SaveMembers(x.id, view[r].members) /\ Identified
    BY <1>3, <2>1 DEF SaveSheet
  <2>3. x \in certificates /\ x \in Certificate
    BY <2>1, SerialReads DEF SaveSheet, Fits, Reading
  <2>4. /\ z \in Certificate /\ z.id = x.id /\ z.number = x.number
        /\ z.document = x.document /\ z.date = x.date /\ z.removed = x.removed
        /\ x.id \in Nat
    BY <2>1, <2>3 DEF Certificate
  <2>5. Allowed(r, x, z)
    BY <2>3, <2>4 DEF Allowed, Showable, SerialInv, DocumentsNumbered
  <2> QED
    BY <1>1, <2>2, <2>4, <2>5, SaveKeeps, SaveMembersKeeps DEF Identified
<1> QED
  BY <1>2, <1>3

(* A certificate as the update wants it.                                     *)
LEMMA UpdatedIs ==
  ASSUME NEW r, view[r].cert \in Certificate, req[r] \in Request
  PROVE  LET x == view[r].cert
             q == req[r]
             z == Updated(r)
         IN  /\ z \in Certificate /\ z.id = x.id /\ z.removed = x.removed
             /\ z.document = x.document
             /\ z.date = (IF q.date = NoDate THEN x.date ELSE q.date)
             /\ z.number = (IF q.number = NoNumber THEN x.number ELSE q.number)
<1> PICK x, d, n : /\ x = view[r].cert
                   /\ d = (IF req[r].date = NoDate THEN x.date ELSE req[r].date)
                   /\ n = (IF req[r].number = NoNumber THEN x.number ELSE req[r].number)
  OBVIOUS
<1>1. d \in Nat /\ n \in Nat /\ x \in Certificate
  BY DEF Certificate, Request
<1>2. Updated(r) = [x EXCEPT !.date = d, !.number = n]
  BY <1>1 DEF Updated, Certificate
<1>3. /\ Updated(r) \in Certificate
      /\ Updated(r).id = x.id /\ Updated(r).removed = x.removed
      /\ Updated(r).document = x.document
      /\ Updated(r).date = d /\ Updated(r).number = n
  BY <1>1, <1>2 DEF Certificate
<1> QED
  BY <1>3

(* The certificate of an update in the table, and what the update makes of   *)
(* it.                                                                       *)
LEMMA UpdateSaves ==
  ASSUME SerialInv, NEW r \in Requests, pc[r] \in {"saveUpdate", "resheet"},
         NEW z \in Certificate, NEW u, u = Updated(r), z.id = u.id, z.number = u.number,
         z.removed = u.removed, z.document = u.document, z.date = u.date
  PROVE  \E y \in certificates :
           /\ Allowed(r, y, z) /\ ~ y.removed /\ y.id = view[r].cert.id
           /\ pc[r] = "saveUpdate" => y = view[r].cert
<1> PICK x, q : x = view[r].cert /\ q = req[r]
  OBVIOUS
<1>1. UpdateFits(certificates, q, pc[r], x) /\ x \in Certificate /\ q \in Request
  BY SerialReads DEF Fits, Updating
<1>2. /\ z.id = x.id /\ z.removed = x.removed /\ z.document = x.document
      /\ z.date = (IF q.date = NoDate THEN x.date ELSE q.date)
      /\ z.number = (IF q.number = NoNumber THEN x.number ELSE q.number)
  BY <1>1, UpdatedIs
<1>3. Showable(z)
  BY <1>1, <1>2 DEF UpdateFits, Showable
<1>4. q.number # NoNumber => x.number = NoNumber
                             /\ \E y \in certificates : y.number = q.number
  BY <1>1 DEF UpdateFits
<1>5. PICK y \in certificates :
        /\ y.id = x.id /\ ~ y.removed
        /\ \/ y.number = x.number
           \/ q.number # NoNumber /\ y.number = q.number
        /\ pc[r] = "saveUpdate" => y = x
  BY <1>1 DEF UpdateFits
<1>6. z.number = y.number \/ NumberGiven(y, z)
  BY <1>2, <1>4, <1>5 DEF NumberGiven
<1>7. Allowed(r, y, z)
  BY <1>2, <1>3, <1>5, <1>6 DEF Allowed
<1> QED
  BY <1>5, <1>7

(* After it has saved, the update may fail and save back.                    *)
LEMMA UpdateFitsOn ==
  ASSUME SerialInv, NEW r \in Requests, pc[r] \in {"saveUpdate", "resheet"},
         NEW table, NEW y \in certificates, NEW z,
         table = (certificates \ {y}) \cup {z}, ~ y.removed,
         z.id = view[r].cert.id, z.number = Updated(r).number, ~ z.removed,
         NEW to \in {"resheet", "regenerate", "saveBack"}
  PROVE  UpdateFits(table, req[r], to, view[r].cert)
<1> PICK x, q : x = view[r].cert /\ q = req[r]
  OBVIOUS
<1>1. UpdateFits(certificates, q, pc[r], x) /\ x \in Certificate /\ q \in Request
  BY SerialReads DEF Fits, Updating
<1>2. z.number = (IF q.number = NoNumber THEN x.number ELSE q.number)
  BY <1>1, UpdatedIs
<1>3. z \in table /\ \A w \in certificates : w.removed => w \in table
  OBVIOUS
<1> QED
  BY <1>1, <1>2, <1>3 DEF UpdateFits

(* The certificate is saved as the update wants it.                          *)
LEMMA SaveUpdateStep ==
  ASSUME OneRequest, SerialInv, NEW r \in Requests, SaveUpdate(r)
  PROVE  CertificatesKept /\ AttendancesKept /\ HandlersTyped' /\ HandlersInv'
<1> DEFINE v == view[r]
           q == req[r]
<1>0. /\ CertificatesTypeOK /\ AttendancesInv /\ v \in View /\ q \in Request
      /\ v.cert \in Certificate
  BY SerialReads
<1> PICK z : z = Updated(r)
  OBVIOUS
<1>1. /\ pc[r] = "saveUpdate" /\ Save(z)
      /\ attendances' = attendances /\ nextId' = nextId
      /\ nextAttendance' = nextAttendance
  BY DEF SaveUpdate
<1>2. z \in Certificate /\ z.id = v.cert.id /\ z.removed = v.cert.removed
  BY <1>0, UpdatedIs
<1>3. PICK y \in certificates :
        Allowed(r, y, z) /\ ~ y.removed /\ y = v.cert
  BY <1>1, <1>2, UpdateSaves
<1>4. CertificatesKept /\ certificates' = (certificates \ {y}) \cup {z}
  BY <1>1, <1>3, SaveKeeps
<1>5. AttendancesKept
  BY <1>1, SameAttendances
<1>6. ASSUME NEW to \in {"resheet", "regenerate"}
      PROVE  UpdateFits(certificates', q, to, v.cert)
  BY <1>1, <1>2, <1>3, <1>4, UpdateFitsOn
<1>7. ASSUME NEW to \in {"resheet", "regenerate"}, NEW w \in View,
             w.cert = v.cert, GoOn(r, to, w)
      PROVE  HandlersTyped' /\ HandlersInv'
  <2>1. Fits(certificates', q, to, w)
    BY <1>6, <1>7 DEF Fits, Reading, Updating, Documenting, Generating
  <2> QED
    BY <1>7, <2>1, GoesOn DEF Await
<1>8. ASSUME Regenerated(r) PROVE HandlersTyped' /\ HandlersInv'
  BY <1>0, <1>7, <1>8, IsDone DEF Regenerated
<1>9. ASSUME NEW w, w = [v EXCEPT !.freshMembers = v.members \cup MembersOf(v.cert.id)]
      PROVE  w \in View /\ w.cert = v.cert
  <2>1. MembersOf(v.cert.id) \in SUBSET Nat
    BY <1>0, MembersTyped
  <2> QED
    BY <1>0, <1>9, <2>1 DEF View
<1>10. Regenerated(r) \/ GoOn(r, "resheet",
         [v EXCEPT !.freshMembers = v.members \cup MembersOf(v.cert.id)])
  BY DEF SaveUpdate
<1> QED
  BY <1>4, <1>5, <1>7, <1>8, <1>9, <1>10

(* The sheet of another type.                                                *)
LEMMA SaveNewSheetStep ==
  ASSUME OneRequest, SerialInv, NEW r \in Requests, SaveNewSheet(r)
  PROVE  CertificatesKept /\ AttendancesKept /\ HandlersTyped' /\ HandlersInv'
<1> DEFINE v == view[r]
           q == req[r]
<1>0. /\ CertificatesTypeOK /\ AttendancesInv /\ v \in View /\ q \in Request
      /\ v.cert \in Certificate /\ Fits(certificates, q, pc[r], v)
      /\ pc[r] = "resheet"
  BY SerialReads DEF SaveNewSheet
<1>1. CASE GoOn(r, "saveBack", v) /\ Unwritten
  <2>1. UpdateFits(certificates', q, "saveBack", v.cert)
    BY <1>0, <1>1 DEF Fits, Updating, UpdateFits, Unwritten
  <2>2. Fits(certificates', q, "saveBack", v)
    BY <2>1 DEF Fits, Reading, Updating, Documenting, Generating
  <2> QED
    BY <1>0, <1>1, <2>2, GoesOn, UnwrittenKeeps DEF Await
<1>2. CASE ~ (GoOn(r, "saveBack", v) /\ Unwritten)
  <2> PICK u : u = Updated(r)
    OBVIOUS
  <2>1. PICK z : z = [u EXCEPT !.sheet = TRUE]
    OBVIOUS
  <2>2. /\ Save(z) /\ SaveMembers(v.cert.id, v.freshMembers) /\ Identified
        /\ Regenerated(r)
    BY <1>2, <2>1 DEF SaveNewSheet
  <2>3. u \in Certificate /\ u.id = v.cert.id /\ u.removed = v.cert.removed
    BY <1>0, UpdatedIs
  <2>4. /\ z \in Certificate /\ z.id = u.id /\ z.number = u.number
        /\ z.document = u.document /\ z.date = u.date /\ z.removed = u.removed
        /\ u.id \in Nat
    BY <2>1, <2>3 DEF Certificate
  <2>5. PICK y \in certificates :
          Allowed(r, y, z) /\ ~ y.removed /\ y.id = v.cert.id
    BY <1>0, <2>4, UpdateSaves
  <2>6. CertificatesKept /\ certificates' = (certificates \ {y}) \cup {z}
    BY <2>2, <2>5, SaveKeeps DEF Identified
  <2>7. AttendancesKept
    BY <2>2, <2>3, <2>4, SaveMembersKeeps
  <2>8. ~ v.cert.removed
    BY <1>0 DEF Fits, Updating, UpdateFits
  <2>9. UpdateFits(certificates', q, "regenerate", v.cert)
    BY <1>0, <2>3, <2>4, <2>5, <2>6, <2>8, UpdateFitsOn
  <2>10. Fits(certificates', q, "regenerate", v)
    BY <2>9 DEF Fits, Reading, Updating, Documenting, Generating
  <2>11. GoOn(r, "regenerate", v) => HandlersTyped' /\ HandlersInv'
    BY <1>0, <2>10, GoesOn DEF Await
  <2> QED
    BY <2>2, <2>6, <2>7, <2>11, IsDone DEF Regenerated
<1> QED
  BY <1>1, <1>2
(* The error path of an update: the certificate is saved as it was read.     *)
LEMMA SaveBackStep ==
  ASSUME OneRequest, SerialInv, NEW r \in Requests, SaveBack(r)
  PROVE  CertificatesKept /\ AttendancesKept /\ HandlersTyped' /\ HandlersInv'
<1> PICK x, q : x = view[r].cert /\ q = req[r]
  OBVIOUS
<1>1. /\ x \in Certificate /\ pc[r] = "saveBack"
      /\ UpdateFits(certificates, q, "saveBack", x)
  BY SerialReads DEF SaveBack, Fits, Updating
<1>2. Save(x) /\ SaveMembers(x.id, view[r].members) /\ Identified /\ Done(r)
  BY DEF SaveBack
<1>3. PICK y \in certificates :
        /\ y.id = x.id /\ ~ y.removed
        /\ \/ y.number = x.number
           \/ q.number # NoNumber /\ y.number = q.number
  BY <1>1 DEF UpdateFits
<1>4. Allowed(r, y, x)
  <2>1. CASE y.number = x.number
    BY <1>1, <1>3, <2>1 DEF Allowed, UpdateFits
  <2>2. CASE q.number # NoNumber /\ y.number = q.number
    <3>1. PICK w \in certificates : w.removed /\ w.number = q.number
      BY <1>1, <2>2 DEF UpdateFits
    <3>2. w.id # y.id
      BY <1>3, <3>1 DEF SerialInv, RowsInv
    <3>3. x.number = NoNumber
      BY <1>1, <2>2 DEF UpdateFits
    <3>4. NumberTakenBack(r, y, x)
      BY <1>1, <1>3, <2>2, <3>1, <3>2, <3>3 DEF NumberTakenBack
    <3> QED
      BY <1>1, <1>3, <3>4 DEF Allowed, UpdateFits
  <2> QED
    BY <1>3, <2>1, <2>2
<1>5. x.id \in Nat
  BY <1>1 DEF Certificate
<1> QED
  BY <1>2, <1>4, <1>5, SaveKeeps, SaveMembersKeeps, IsDone DEF Identified

(* A document is generated.                                                  *)
LEMMA SaveDocumentStep ==
  ASSUME OneRequest, SerialInv, NEW r \in Requests, SaveDocument(r)
  PROVE  CertificatesKept /\ AttendancesKept /\ HandlersTyped' /\ HandlersInv'
<1> DEFINE v == view[r]
           q == req[r]
<1> PICK x : x = v.fresh
  OBVIOUS
<1>0. /\ v \in View /\ x \in Certificate /\ x \in certificates /\ ~ x.removed
      /\ x.number # NoNumber /\ x.date # NoDate
      /\ q.op = "update" =>
           x.id = v.cert.id /\ UpdateFits(certificates, q, "docSave", v.cert)
  BY SerialReads DEF SaveDocument, Fits, Documenting
<1>1. CASE Refuse(r) /\ Unwritten
  <2>1. CASE q.op = "update"
    <3>1. UpdateFits(certificates', q, "saveBack", v.cert)
      BY <1>0, <1>1, <2>1 DEF UpdateFits, Unwritten
    <3>2. Fits(certificates', q, "saveBack", v)
      BY <3>1 DEF Fits, Reading, Updating, Documenting, Generating
    <3> QED
      BY <1>0, <1>1, <2>1, <3>2, GoesOn, UnwrittenKeeps DEF Await, Refuse
  <2>2. CASE q.op # "update"
    BY <1>1, <2>2, IsDone, UnwrittenKeeps DEF Refuse
  <2> QED
    BY <2>1, <2>2
<1>2. CASE ~ (Refuse(r) /\ Unwritten)
  <2>1. PICK z : z = [x EXCEPT !.document = TRUE]
    OBVIOUS
  <2>2. /\ Save(z) /\ SaveMembers(x.id, v.freshMembers) /\ Identified
        /\ IF q.op = "update" THEN GoOn(r, "unlink", v) ELSE Done(r)
    BY <1>2, <2>1 DEF SaveDocument
  <2>3. /\ z \in Certificate /\ z.id = x.id /\ z.number = x.number
        /\ z.date = x.date /\ z.removed = x.removed /\ x.id \in Nat
    BY <1>0, <2>1 DEF Certificate
  <2>4. Allowed(r, x, z)
    BY <1>0, <2>3 DEF Allowed, Showable
  <2>5. CertificatesKept /\ certificates' = (certificates \ {x}) \cup {z}
    BY <2>2, <2>4, SaveKeeps DEF Identified
  <2>6. AttendancesKept
    BY <2>2, <2>3, SaveMembersKeeps
  <2>7. CASE q.op = "update"
    <3>1. PICK y \in certificates :
            /\ y.id = v.cert.id
            /\ \/ y.number = v.cert.number
               \/ q.number # NoNumber /\ y.number = q.number
      BY <1>0, <2>7 DEF UpdateFits
    <3>2. y = x
      BY <1>0, <2>7, <3>1 DEF SerialInv, RowsInv
    <3>3. z \in certificates' /\ \A w \in certificates : w.removed => w \in certificates'
      BY <1>0, <2>5
    <3>4. UpdateFits(certificates', q, "unlink", v.cert)
      BY <1>0, <2>3, <2>7, <3>1, <3>2, <3>3 DEF UpdateFits
    <3>5. Fits(certificates', q, "unlink", v)
      BY <3>4 DEF Fits, Reading, Updating, Documenting, Generating
    <3> QED
      BY <1>0, <2>2, <2>5, <2>6, <2>7, <3>5, GoesOn DEF Await
  <2>8. CASE q.op # "update"
    BY <2>2, <2>5, <2>6, <2>8, IsDone
  <2> QED
    BY <2>7, <2>8
<1> QED
  BY <1>1, <1>2

(* A certificate is removed: its row stays, with its number.                 *)
LEMMA SaveRemovedStep ==
  ASSUME OneRequest, SerialInv, NEW r \in Requests, SaveRemoved(r)
  PROVE  CertificatesKept /\ AttendancesKept /\ HandlersTyped' /\ HandlersInv'
<1> PICK x, z : x = view[r].cert /\ z = [x EXCEPT !.removed = TRUE, !.sheet = FALSE]
  OBVIOUS
<1>1. /\ Save(z) /\ SaveMembers(x.id, view[r].members) /\ Identified
      /\ GoOn(r, "dropAttendances", view[r])
  BY DEF SaveRemoved
<1>2. x \in certificates /\ x \in Certificate /\ view[r] \in View
  BY SerialReads DEF SaveRemoved, Fits, Reading
<1>3. /\ z \in Certificate /\ z.id = x.id /\ z.number = x.number
      /\ z.document = x.document /\ z.date = x.date /\ z.removed
      /\ x.id \in Nat
  BY <1>2 DEF Certificate
<1>4. Allowed(r, x, z)
  BY <1>2, <1>3 DEF Allowed, Showable, SerialInv, DocumentsNumbered
<1>5. HandlersTyped' /\ HandlersInv'
  BY <1>1, <1>2, FreeFits, GoesOn DEF Await
<1> QED
  BY <1>1, <1>3, <1>4, <1>5, SaveKeeps, SaveMembersKeeps DEF Identified

LEMMA DropAttendancesStep ==
  ASSUME OneRequest, SerialInv, NEW r \in Requests, DropAttendances(r)
  PROVE  CertificatesKept /\ AttendancesKept /\ HandlersTyped' /\ HandlersInv'
<1>1. CertificatesKept
  BY SameCertificates
  DEF DropAttendances, CertificatesKept, SerialInv, CertificatesTypeOK
<1>2. AttendancesKept
  BY DEF DropAttendances, AttendancesKept, SerialInv, CertificatesTypeOK,
     AttendancesInv
<1> QED
  BY <1>1, <1>2, IsDone DEF DropAttendances

(* The next certificate to be numbered gets the next number.                 *)
LEMMA SaveNumberStep ==
  ASSUME OneRequest, SerialInv, NEW r \in Requests, SaveNumber(r)
  PROVE  CertificatesKept /\ AttendancesKept /\ HandlersTyped' /\ HandlersInv'
<1> DEFINE v == view[r]
           q == req[r]
<1>1. /\ v \in View /\ pc[r] = "genSave" /\ v.last \in Nat
      /\ \A x \in v.pending :
           x \in certificates /\ ~ x.removed /\ x.date # NoDate /\ x.number = NoNumber
      /\ v.last = Base \/ \E x \in certificates : x.number = v.last
  BY SerialReads DEF SaveNumber, Fits, Generating, View
<1>2. PICK x \in v.pending :
        /\ Save([x EXCEPT !.number = v.last + 1])
        /\ IF v.pending = {x} THEN Done(r)
           ELSE GoOn(r, "genSave", [v EXCEPT !.pending = v.pending \ {x},
                                            !.last = v.last + 1])
  BY DEF SaveNumber
<1>3. PICK z : z = [x EXCEPT !.number = v.last + 1]
  OBVIOUS
<1>4. x \in Certificate /\ x \in certificates /\ x.number = NoNumber /\ x.date # NoDate
  BY <1>1 DEF SerialInv, CertificatesTypeOK
<1>5. /\ z \in Certificate /\ z.id = x.id /\ z.number = v.last + 1
      /\ z.document = x.document /\ z.date = x.date /\ z.removed = x.removed
  BY <1>1, <1>3, <1>4 DEF Certificate
<1>6. z.number # NoNumber
  BY <1>1, <1>5 DEF NoNumber
<1>7. NumberGiven(x, z)
  BY <1>1, <1>4, <1>5 DEF NumberGiven
<1>8. Allowed(r, x, z)
  BY <1>4, <1>5, <1>6, <1>7 DEF Allowed, Showable
<1>9. /\ Save(z) /\ nextId' = nextId
      /\ attendances' = attendances /\ nextAttendance' = nextAttendance
  BY <1>2, <1>3 DEF SaveNumber
<1>10. CertificatesKept /\ certificates' = (certificates \ {x}) \cup {z}
  BY <1>8, <1>9, SaveKeeps
<1>11. AttendancesKept
  BY <1>9, SameAttendances
<1>12. ASSUME NEW w, w = [v EXCEPT !.pending = v.pending \ {x}, !.last = v.last + 1],
              GoOn(r, "genSave", w)
       PROVE  HandlersTyped' /\ HandlersInv'
  <2> PICK p, n : p = v.pending \ {x} /\ n = v.last + 1
    OBVIOUS
  <2>1. p \in SUBSET Certificate /\ n \in Nat /\ v.pending \in SUBSET Certificate
    BY <1>1 DEF View
  <2>2. w = [v EXCEPT !.pending = p, !.last = n]
    BY <1>12
  <2>3. w \in View /\ w.pending = v.pending \ {x} /\ w.last = v.last + 1
    BY <1>1, <2>1, <2>2 DEF View
  <2>4. \A y \in w.pending :
          y \in certificates' /\ ~ y.removed /\ y.date # NoDate /\ y.number = NoNumber
    BY <1>1, <1>10, <2>3
  <2>5. \E y \in certificates' : y.number = w.last
    BY <1>5, <1>10, <2>3
  <2>6. Fits(certificates', q, "genSave", w)
    BY <2>4, <2>5 DEF Fits, Reading, Updating, Documenting, Generating
  <2> QED
    BY <1>12, <2>3, <2>6, GoesOn DEF Await
<1>13. HandlersTyped' /\ HandlersInv'
  BY <1>2, <1>12, IsDone
<1> QED
  BY <1>10, <1>11, <1>13

-------------------------------------------------------------------------------
(***************************************************************************)
(* The specification.                                                      *)
(***************************************************************************)
LEMMA SerialInit == Init => SerialInv
<1> SUFFICES ASSUME Init PROVE SerialInv
  OBVIOUS
<1>1. CertificatesTypeOK
  BY NoneTyped DEF Init, CertificatesTypeOK, Await
<1>2. HandlersInv
  BY FreeFits DEF Init, HandlersInv
<1> QED
  BY <1>1, <1>2
  DEF Init, SerialInv, RowsInv, AttendancesInv, BoundInv, DocumentsNumbered,
      NumbersComplete

(* Every step keeps the tables, the certificates' numbers and what the only  *)
(* handler relies on.                                                        *)
LEMMA SerialStep ==
  ASSUME OneRequest, SerialInv, [Next]_vars
  PROVE  SerialInv' /\ AllStay
<1>a. Unwritten => CertificatesKept /\ AttendancesKept
  BY UnwrittenKeeps
<1>1. ASSUME NEW r \in Requests, BeginRequest(r) \/ Serve(r)
      PROVE  CertificatesKept /\ AttendancesKept /\ HandlersTyped' /\ HandlersInv'
  BY <1>1, <1>a, BeginStep, CheckStep, GenerateStep, InsertStep, SaveSheetStep,
     SaveUpdateStep, SaveNewSheetStep, SaveBackStep, SaveDocumentStep,
     SaveRemovedStep, DropAttendancesStep, SaveNumberStep
  DEF Serve
<1>b. ASSUME UNCHANGED <<pc, req, view>>, certificates' = certificates
      PROVE  HandlersTyped' /\ HandlersInv'
  BY <1>b DEF SerialInv, CertificatesTypeOK, HandlersTyped, HandlersInv
<1>c. ASSUME certificates' = certificates, nextId' = nextId
      PROVE  CertificatesKept
  BY <1>c, SameCertificates DEF CertificatesKept, SerialInv, CertificatesTypeOK
<1>2. ASSUME NEW x \in Live, Attend(x)
      PROVE  CertificatesKept /\ AttendancesKept /\ HandlersTyped' /\ HandlersInv'
  <2>1. PICK a : a = [id |-> nextAttendance, of |-> x.id]
    OBVIOUS
  <2>2. /\ attendances' = attendances \cup {a}
        /\ nextAttendance' = nextAttendance + 1
    BY <1>2, <2>1 DEF Attend
  <2>3. nextAttendance \in Nat /\ x.id \in Nat
    BY DEF SerialInv, CertificatesTypeOK, Live, Certificate
  <2>4. a \in Attendance /\ a.id = nextAttendance
    BY <2>1, <2>3 DEF Attendance
  <2>5. AttendancesKept
    BY <2>2, <2>3, <2>4
    DEF AttendancesKept, AttendancesInv, SerialInv, CertificatesTypeOK, Attendance
  <2> QED
    BY <1>2, <1>b, <1>c, <2>5 DEF Attend
<1>3. ASSUME NEW a \in attendances, Leave(a)
      PROVE  CertificatesKept /\ AttendancesKept /\ HandlersTyped' /\ HandlersInv'
  <2>1. AttendancesKept
    BY <1>3 DEF Leave, AttendancesKept, AttendancesInv, SerialInv, CertificatesTypeOK
  <2> QED
    BY <1>3, <1>b, <1>c, <2>1 DEF Leave
<1>4. ASSUME UNCHANGED vars
      PROVE  CertificatesKept /\ AttendancesKept /\ HandlersTyped' /\ HandlersInv'
  BY <1>4, <1>a, <1>b DEF vars, Unwritten
<1>5. CertificatesKept /\ AttendancesKept /\ HandlersTyped' /\ HandlersInv'
  BY <1>1, <1>2, <1>3, <1>4 DEF Next
<1> QED
  BY <1>5 DEF CertificatesKept, AttendancesKept, HandlersTyped, SerialInv,
     CertificatesTypeOK

(* As long as one request is served at a time, a document shows a number and *)
(* a date, for no certificate has a document without them.                   *)
THEOREM DocumentsShowNumbers ==
  ASSUME OneRequest
  PROVE  CertificatesSpec => []CertificatesInv
<1>1. SerialInv => CertificatesInv
  BY DEF SerialInv, CertificatesInv
<1>2. SerialInv /\ [Next]_vars => SerialInv'
  BY SerialStep
<1> QED
  BY <1>1, <1>2, SerialInit, PTL DEF CertificatesSpec

(* As long as one request is served at a time, the numbers given have no     *)
(* gap: every number up to any in use is that of a certificate, although the *)
(* last number is looked up by the newest attendance first.                  *)
THEOREM NumbersHaveNoGap ==
  ASSUME OneRequest
  PROVE  CertificatesSpec => []NumbersComplete
<1>1. SerialInv => NumbersComplete
  BY DEF SerialInv
<1>2. SerialInv /\ [Next]_vars => SerialInv'
  BY SerialStep
<1> QED
  BY <1>1, <1>2, SerialInit, PTL DEF CertificatesSpec

(* As long as one request is served at a time, a certificate keeps its       *)
(* number for ever and stays removed; only the update that gave a number     *)
(* takes it back when it fails itself.                                       *)
THEOREM NumbersStay ==
  ASSUME OneRequest
  PROVE  CertificatesSpec => NumberStays
<1> DEFINE Kept ==
      \A x \in certificates : \E y \in certificates' :
        /\ y.id = x.id
        /\ x.removed => y.removed
        /\ \/ x.number \in {NoNumber, y.number}
           \/ \E r \in Requests : /\ pc[r] = "saveBack" /\ view[r].cert.id = x.id
                                  /\ req[r].number = x.number
<1>1. SerialInv /\ [Next]_vars => [Kept]_vars
  BY SerialStep DEF AllStay, Stays
<1>2. SerialInv /\ [Next]_vars => SerialInv'
  BY SerialStep
<1> QED
  BY <1>1, <1>2, SerialInit, PTL DEF CertificatesSpec, NumberStays

-------------------------------------------------------------------------------
(***************************************************************************)
(* Part 2.  The pool of connections: every handler that moves takes a      *)
(* connection only if there is one, and changes only what no other         *)
(* transaction has changed, whether it still runs or was left open.        *)
(***************************************************************************)

(* The requests that have a connection.                                      *)
Taking == {r \in Callers : HasConnection(r)}

(* The rows that a handler in state h has changed in its transaction.        *)
LocksOf(h) ==
  IF h.at \in {"rename", "preload", "save", "commit"}
  THEN {h.body.rows[i] : i \in 1 .. h.next - 1}
  ELSE {}

(* Where a handler is in its body: functionaries begin with a row.           *)
InPlace(h) ==
  /\ h.at \in {"connect", "check"} =>
       /\ h.next = 1
       /\ h.body.service = "functionaries" => Len(h.body.rows) > 0
  /\ h.at = "check" => h.body.service = "functionaries"
  /\ h.at \in {"rename", "preload", "save"} => h.next \in 1 .. Len(h.body.rows)

Holds(h) ==
  h.at \in {"check", "rename", "preload", "save", "commit", "find", "update"}

HandlerState == {Idle} \cup Bulk \cup Single

PlacesInv == \A r \in Callers : InPlace(handler[r])

(* The lost connections are told apart by the order they were lost in.       *)
LostInv == IsFiniteSet(lost) /\ \A x \in lost : x.nth < Cardinality(lost)

PoolInv ==
  /\ BulkTypeOK
  /\ PlacesInv
  /\ IsFiniteSet(Taking)
  /\ LostInv
  /\ PoolKept
  /\ ChangedByOne

LEMMA LocksOfHandler ==
  ASSUME NEW r \in Callers
  PROVE  /\ Locks(r) = LocksOf(handler[r])
         /\ HasConnection(r) <=> Holds(handler[r])
BY DEF Locks, LocksOf, HasConnection, InTransaction, Holds

(* The rows before a position within a body are rows.                        *)
LEMMA LocksAreRows ==
  ASSUME BulkTypeOK, PlacesInv, NEW r \in Callers,
         handler[r].at \in {"check", "rename", "preload", "save"}
  PROVE  Locks(r) \subseteq Rows
<1>1. handler[r] \in Bulk
  <2>1. handler[r] \in {Idle} \cup Bulk \cup Single
    BY DEF BulkTypeOK
  <2>2. handler[r] # Idle /\ handler[r] \notin Single
    BY DEF Idle, Single
  <2> QED
    BY <2>1, <2>2
<1> DEFINE body == handler[r].body
           next == handler[r].next
<1>2. body \in Bulks /\ next \in Nat
  BY <1>1 DEF Bulk
<1>3. body.rows \in Seq(Rows)
  BY <1>2, BulkUpdatesAssumption
<1>4. CASE handler[r].at = "check"
  BY <1>4 DEF Locks
<1>5. CASE handler[r].at # "check"
  <2>1. next \in 1 .. Len(body.rows)
    BY <1>5 DEF PlacesInv, InPlace
  <2>2. \A i \in 1 .. next - 1 : body.rows[i] \in Rows
    BY <2>1, <1>2, <1>3
  <2> QED
    BY <2>2, <1>5 DEF Locks
<1> QED
  BY <1>4, <1>5

(* A handler goes on to h and gives no connection up: it takes one if one is *)
(* available, and changes no row that another transaction has changed.       *)
LEMMA HandlerMovesOn ==
  ASSUME PoolInv, NEW r \in Callers, NEW h \in HandlerState, InPlace(h),
         Becomes(r, h), UNCHANGED lost,
         Holds(h) => HasConnection(r) \/ Available,
         \A row \in LocksOf(h) : row \in Locks(r) \/ ~ Locked(row, r)
  PROVE  PoolInv'
<1> USE DEF PoolInv
<1>1. /\ handler'[r] = h
      /\ \A other \in Callers \ {r} : handler'[other] = handler[other]
  BY DEF Becomes, BulkTypeOK
<1>2. /\ \A other \in Callers \ {r} : Locks(other)' = Locks(other)
      /\ Locks(r)' = LocksOf(h)
  BY <1>1 DEF Locks, LocksOf
<1>3. /\ \A other \in Callers \ {r} : HasConnection(other)' <=> HasConnection(other)
      /\ HasConnection(r)' <=> Holds(h)
  BY <1>1 DEF HasConnection, InTransaction, Holds
<1>4. BulkTypeOK'
  <2>1. handler' \in [Callers -> {Idle} \cup Bulk \cup Single]
    BY DEF Becomes, BulkTypeOK, HandlerState
  <2> QED
    BY <2>1 DEF BulkTypeOK
<1>5. PlacesInv'
  BY <1>1 DEF PlacesInv
<1>6. IsFiniteSet(Taking)' /\ PoolKept'
  <2>1. Cardinality(Taking) \in Nat /\ Cardinality(lost) \in Nat
    BY FS_CardinalityType DEF LostInv
  <2>2. Connections = Cardinality(lost) + Cardinality(Taking)
    BY DEF Connections, Taking
  <2>3. Connections' = Cardinality(lost) + Cardinality(Taking')
    BY DEF Connections, Taking
  <2>4. CASE Holds(h) /\ ~ HasConnection(r)
    <3>1. Taking' = Taking \cup {r}
      BY <2>4, <1>3 DEF Taking
    <3>2. r \notin Taking
      BY <2>4 DEF Taking
    <3>3. IsFiniteSet(Taking \cup {r}) /\ Cardinality(Taking \cup {r}) = Cardinality(Taking) + 1
      BY <3>2, FS_AddElement
    <3>4. Connections < Pool
      BY <2>4 DEF Available
    <3> QED
      BY <3>1, <3>3, <3>4, <2>1, <2>2, <2>3, BulkUpdatesAssumption DEF PoolKept
  <2>5. CASE ~ (Holds(h) /\ ~ HasConnection(r))
    <3>1. Taking' \subseteq Taking
      BY <2>5, <1>3 DEF Taking
    <3>2. IsFiniteSet(Taking') /\ Cardinality(Taking') <= Cardinality(Taking)
      BY <3>1, FS_Subset
    <3>3. Cardinality(Taking') \in Nat
      BY <3>2, FS_CardinalityType
    <3>4. Connections <= Pool
      BY DEF PoolKept
    <3> QED
      BY <3>2, <3>3, <3>4, <2>1, <2>2, <2>3, BulkUpdatesAssumption DEF PoolKept
  <2> QED
    BY <2>4, <2>5
<1>7. ChangedByOne'
  <2>1. \A other \in Callers \ {r} : Locks(r)' \cap Locks(other)' = {}
    BY <1>2 DEF ChangedByOne, Locked
  <2>2. \A x \in lost : x.locks \cap Locks(r)' = {}
    BY <1>2 DEF ChangedByOne, Locked
  <2>3. \A one, other \in Callers :
          one # other => Locks(one)' \cap Locks(other)' = {}
    BY <2>1, <1>2 DEF ChangedByOne
  <2>4. \A x \in lost' : \A one \in Callers : x.locks \cap Locks(one)' = {}
    BY <2>2, <1>2 DEF ChangedByOne
  <2>5. \A x \in lost' : \A y \in lost' : x # y => x.locks \cap y.locks = {}
    BY DEF ChangedByOne
  <2> QED
    BY <2>3, <2>4, <2>5 DEF ChangedByOne
<1>8. LostInv'
  BY DEF LostInv
<1> QED
  BY <1>4, <1>5, <1>6, <1>7, <1>8

(* A handler ends and leaves its connection taken, with some of its locks.   *)
LEMMA HandlerIsLost ==
  ASSUME PoolInv, NEW r \in Callers, HasConnection(r),
         NEW locks, locks \subseteq Locks(r), locks \subseteq Rows,
         Becomes(r, Idle), Keep(r, locks)
  PROVE  PoolInv'
<1> USE DEF PoolInv
<1> DEFINE left == [by |-> r, locks |-> locks, nth |-> Cardinality(lost)]
<1>1. /\ handler'[r] = Idle
      /\ \A other \in Callers \ {r} : handler'[other] = handler[other]
  BY DEF Becomes, BulkTypeOK
<1>2. /\ \A other \in Callers \ {r} : Locks(other)' = Locks(other)
      /\ Locks(r)' = {}
  BY <1>1 DEF Locks, Idle
<1>3. /\ \A other \in Callers \ {r} : HasConnection(other)' <=> HasConnection(other)
      /\ ~ HasConnection(r)'
  BY <1>1 DEF HasConnection, InTransaction, Idle
<1>4. lost' = lost \cup {left}
  BY DEF Keep
<1>5. Cardinality(lost) \in Nat /\ Cardinality(Taking) \in Nat
  BY FS_CardinalityType DEF LostInv
<1>6. left.nth = Cardinality(lost) /\ left.locks = locks /\ left \in Lost
  BY <1>5 DEF Lost
<1>7. left \notin lost
  BY <1>5, <1>6 DEF LostInv
<1>8. /\ IsFiniteSet(lost \cup {left})
      /\ Cardinality(lost \cup {left}) = Cardinality(lost) + 1
  BY <1>7, FS_AddElement DEF LostInv
<1> HIDE DEF left
<1>9. BulkTypeOK'
  <2>1. handler' \in [Callers -> {Idle} \cup Bulk \cup Single]
    BY DEF Becomes, BulkTypeOK
  <2>2. lost' \subseteq Lost
    BY <1>4, <1>6 DEF BulkTypeOK
  <2> QED
    BY <2>1, <2>2 DEF BulkTypeOK
<1>10. PlacesInv'
  <2>1. InPlace(Idle)
    BY DEF InPlace, Idle
  <2> QED
    BY <1>1, <2>1 DEF PlacesInv
<1>11. IsFiniteSet(Taking)' /\ PoolKept'
  <2>1. Taking' = Taking \ {r}
    BY <1>3 DEF Taking
  <2>2. r \in Taking
    BY DEF Taking
  <2>3. IsFiniteSet(Taking \ {r}) /\ Cardinality(Taking \ {r}) = Cardinality(Taking) - 1
    BY <2>2, FS_RemoveElement
  <2>4. Connections = Cardinality(lost) + Cardinality(Taking)
    BY DEF Connections, Taking
  <2>5. Connections' = Cardinality(lost') + Cardinality(Taking')
    BY DEF Connections, Taking
  <2>6. Connections <= Pool
    BY DEF PoolKept
  <2> QED
    BY <2>1, <2>3, <2>4, <2>5, <2>6, <1>4, <1>5, <1>8 DEF PoolKept
<1>12. LostInv'
  <2>1. \A x \in lost : x.nth \in Nat
    BY DEF BulkTypeOK, Lost
  <2>2. \A x \in lost' : x.nth < Cardinality(lost')
    BY <2>1, <1>4, <1>5, <1>6, <1>8 DEF LostInv
  <2> QED
    BY <2>2, <1>4, <1>8 DEF LostInv
<1>13. ChangedByOne'
  <2>1. \A one, other \in Callers :
          one # other => Locks(one)' \cap Locks(other)' = {}
    BY <1>2 DEF ChangedByOne
  <2>2. \A one \in Callers : left.locks \cap Locks(one)' = {}
    BY <1>2, <1>6 DEF ChangedByOne
  <2>3. \A x \in lost : \A one \in Callers : x.locks \cap Locks(one)' = {}
    BY <1>2 DEF ChangedByOne
  <2>4. \A x \in lost : x.locks \cap left.locks = {} /\ left.locks \cap x.locks = {}
    BY <1>6 DEF ChangedByOne
  <2>5. \A x \in lost' : \A one \in Callers : x.locks \cap Locks(one)' = {}
    BY <2>2, <2>3, <1>4
  <2>6. \A x, y \in lost' : x # y => x.locks \cap y.locks = {}
    BY <2>4, <1>4 DEF ChangedByOne
  <2> QED
    BY <2>1, <2>5, <2>6 DEF ChangedByOne
<1> QED
  BY <1>9, <1>10, <1>11, <1>12, <1>13

(* Which kind of handler is at which point.                                  *)
LEMMA KindOfHandler ==
  ASSUME BulkTypeOK, NEW r \in Callers
  PROVE  /\ handler[r].at \in {"connect", "check", "rename", "preload", "save",
                               "commit", "find"} =>
              /\ handler[r] \in Bulk
              /\ handler[r].body \in Bulks /\ handler[r].next \in Nat
              /\ handler[r].body.rows \in Seq(Rows)
         /\ handler[r].at \in {"query", "update"} => handler[r] \in Single
<1>1. handler[r] \in {Idle} \cup Bulk \cup Single
  BY DEF BulkTypeOK
<1>2. handler[r] \in Bulk => /\ handler[r].body \in Bulks /\ handler[r].next \in Nat
                             /\ handler[r].body.rows \in Seq(Rows)
  BY BulkUpdatesAssumption DEF Bulk
<1> QED
  BY <1>1, <1>2 DEF Bulk, Single, Idle

(* A handler of a bulk update at another point is one.                       *)
LEMMA BulkHandlerGoesTo ==
  ASSUME NEW h \in Bulk, NEW g,
         NEW at \in {"connect", "check", "rename", "preload", "save", "commit", "find"},
         g = [h EXCEPT !.at = at]
  PROVE  g \in HandlerState /\ g.at = at /\ g.next = h.next /\ g.body = h.body
BY DEF Bulk, HandlerState

LEMMA BeginBulkKeepsPool ==
  ASSUME PoolInv, NEW r \in Callers, BeginBulk(r)
  PROVE  PoolInv'
<1>1. PICK body \in Bulks : /\ body.service = "functionaries" => body.rows # <<>>
                            /\ Becomes(r, [at |-> "connect", body |-> body, next |-> 1])
  BY DEF BeginBulk
<1> DEFINE h == [at |-> "connect", body |-> body, next |-> 1]
<1>2. h \in HandlerState /\ h.at = "connect" /\ h.next = 1 /\ h.body = body
  BY DEF HandlerState, Bulk
<1>3. Becomes(r, h) /\ UNCHANGED lost
  BY <1>1 DEF BeginBulk
<1> HIDE DEF h
<1>4. body.rows \in Seq(Rows)
  BY BulkUpdatesAssumption
<1>5. InPlace(h)
  BY <1>1, <1>2, <1>4 DEF InPlace
<1>6. ~ Holds(h) /\ LocksOf(h) = {}
  BY <1>2 DEF Holds, LocksOf
<1> QED
  BY <1>2, <1>3, <1>5, <1>6, HandlerMovesOn

LEMMA ConnectKeepsPool ==
  ASSUME PoolInv, NEW r \in Callers, Connect(r)
  PROVE  PoolInv'
<1> DEFINE body == handler[r].body
<1> PICK at : at = IF IsFunctionaries(r) THEN "check" ELSE Onward(body, 1)
  OBVIOUS
<1> PICK h : h = [handler[r] EXCEPT !.at = at]
  OBVIOUS
<1>1. BulkTypeOK /\ PlacesInv /\ handler[r].at = "connect" /\ Available
  BY DEF PoolInv, Connect
<1>2. /\ handler[r] \in Bulk
      /\ handler[r].next = 1 /\ body.rows \in Seq(Rows)
      /\ IsFunctionaries(r) => Len(body.rows) > 0
  BY <1>1, KindOfHandler DEF PlacesInv, InPlace, IsFunctionaries
<1>3. at \in {"check", "rename", "commit"}
  BY DEF Onward, IsFunctionaries
<1>4. h \in HandlerState /\ h.at = at /\ h.next = 1 /\ h.body = body
  BY <1>2, <1>3, BulkHandlerGoesTo
<1>5. Becomes(r, h) /\ UNCHANGED lost
  BY DEF Connect
<1>6. at = "rename" => 1 \in 1 .. Len(body.rows)
  BY <1>2 DEF Onward
<1>7. at = "check" <=> IsFunctionaries(r)
  BY DEF Onward
<1>8. InPlace(h)
  BY <1>2, <1>3, <1>4, <1>6, <1>7 DEF InPlace, IsFunctionaries
<1>9. LocksOf(h) = {}
  BY <1>4 DEF LocksOf
<1> QED
  BY <1>1, <1>4, <1>5, <1>8, <1>9, HandlerMovesOn

(* A step of a transaction that changes no row keeps its locks.              *)
LEMMA StepInTransaction ==
  ASSUME PoolInv, NEW r \in Callers, NEW at \in {"preload", "save"},
         handler[r].at \in {"check", "rename", "preload"},
         Becomes(r, [handler[r] EXCEPT !.at = at]), UNCHANGED lost
  PROVE  PoolInv'
<1> DEFINE body == handler[r].body
<1> PICK h : h = [handler[r] EXCEPT !.at = at]
  OBVIOUS
<1>1. BulkTypeOK /\ PlacesInv
  BY DEF PoolInv
<1>2. handler[r] \in Bulk /\ handler[r].next \in Nat /\ body.rows \in Seq(Rows)
  BY <1>1, KindOfHandler
<1>3. h \in HandlerState /\ h.at = at /\ h.next = handler[r].next /\ h.body = body
  BY <1>2, BulkHandlerGoesTo
<1>4. h.next \in 1 .. Len(h.body.rows)
  BY <1>1, <1>2, <1>3 DEF PlacesInv, InPlace
<1>5. HasConnection(r)
  BY DEF HasConnection, InTransaction
<1>6. InPlace(h)
  BY <1>3, <1>4 DEF InPlace
<1>7. LocksOf(h) \subseteq Locks(r)
  <2>1. CASE handler[r].at = "check"
    BY <2>1, <1>1, <1>3 DEF LocksOf, PlacesInv, InPlace
  <2>2. CASE handler[r].at # "check"
    BY <2>2, <1>3 DEF LocksOf, Locks
  <2> QED
    BY <2>1, <2>2
<1>8. Becomes(r, h)
  OBVIOUS
<1> QED
  BY <1>3, <1>5, <1>6, <1>7, <1>8, HandlerMovesOn

LEMMA ThrowKeepsPool ==
  ASSUME PoolInv, NEW r \in Callers, Throw(r),
         handler[r].at \in {"check", "rename", "preload", "save"}
  PROVE  PoolInv'
<1>1. PICK locks : locks = IF IsFunctionaries(r) THEN {} ELSE Locks(r)
  OBVIOUS
<1>2. Locks(r) \subseteq Rows
  BY LocksAreRows DEF PoolInv
<1>3. locks \subseteq Locks(r) /\ locks \subseteq Rows
  BY <1>1, <1>2
<1>4. HasConnection(r)
  BY DEF HasConnection, InTransaction
<1>5. Keep(r, locks) /\ Becomes(r, Idle)
  BY <1>1 DEF Throw
<1> QED
  BY <1>3, <1>4, <1>5, HandlerIsLost

LEMMA CheckKeepsPool ==
  ASSUME PoolInv, NEW r \in Callers, Check(r)
  PROVE  PoolInv'
BY StepInTransaction, ThrowKeepsPool DEF Check

LEMMA RenameKeepsPool ==
  ASSUME PoolInv, NEW r \in Callers, Rename(r)
  PROVE  PoolInv'
BY StepInTransaction, ThrowKeepsPool DEF Rename

LEMMA PreloadKeepsPool ==
  ASSUME PoolInv, NEW r \in Callers, Preload(r)
  PROVE  PoolInv'
BY StepInTransaction, ThrowKeepsPool DEF Preload

(* A row is changed that no other transaction has changed.                   *)
LEMMA SaveRowKeepsPool ==
  ASSUME PoolInv, NEW r \in Callers, SaveRow(r)
  PROVE  PoolInv'
<1> DEFINE body == handler[r].body
<1> PICK next : next = handler[r].next + 1
  OBVIOUS
<1> PICK at : at = Onward(body, next)
  OBVIOUS
<1> PICK h : h = [handler[r] EXCEPT !.next = next, !.at = at]
  OBVIOUS
<1>1. BulkTypeOK /\ PlacesInv /\ handler[r].at = "save" /\ ~ Locked(Row(r), r)
  BY DEF PoolInv, SaveRow
<1>2. /\ handler[r] \in Bulk
      /\ handler[r].next \in 1 .. Len(body.rows) /\ body.rows \in Seq(Rows)
  BY <1>1, KindOfHandler DEF PlacesInv, InPlace
<1>3. next \in Nat /\ at \in {"rename", "save", "commit"}
  BY <1>2 DEF Onward
<1>4. h \in HandlerState /\ h.at = at /\ h.next = next /\ h.body = body
  BY <1>2, <1>3 DEF Bulk, HandlerState
<1>5. Becomes(r, h) /\ UNCHANGED lost
  BY DEF SaveRow
<1>6. at # "commit" => next \in 1 .. Len(body.rows)
  BY <1>2 DEF Onward
<1>7. HasConnection(r)
  BY <1>1 DEF HasConnection, InTransaction
<1>8. LocksOf(h) = Locks(r) \cup {Row(r)}
  <2>1. LocksOf(h) = {body.rows[i] : i \in 1 .. next - 1}
    BY <1>3, <1>4 DEF LocksOf
  <2>2. Locks(r) = {body.rows[i] : i \in 1 .. handler[r].next - 1}
    BY <1>1 DEF Locks
  <2>3. 1 .. next - 1 = (1 .. handler[r].next - 1) \cup {handler[r].next}
    BY <1>2
  <2>4. Row(r) = body.rows[handler[r].next]
    BY DEF Row
  <2> QED
    BY <2>1, <2>2, <2>3, <2>4
<1>9. InPlace(h)
  BY <1>3, <1>4, <1>6 DEF InPlace
<1> QED
  BY <1>1, <1>4, <1>5, <1>7, <1>8, <1>9, HandlerMovesOn

LEMMA DeadlockKeepsPool ==
  ASSUME PoolInv, NEW r \in Callers, Deadlock(r)
  PROVE  PoolInv'
<1>1. handler[r].at = "save"
  BY DEF Deadlock, Awaited
<1>2. HasConnection(r)
  BY <1>1 DEF HasConnection, InTransaction
<1>3. Keep(r, {}) /\ Becomes(r, Idle)
  BY DEF Deadlock
<1>4. {} \subseteq Locks(r) /\ {} \subseteq Rows
  OBVIOUS
<1> QED
  BY <1>2, <1>3, <1>4, HandlerIsLost

LEMMA FindAllKeepsPool ==
  ASSUME PoolInv, NEW r \in Callers, FindAll(r)
  PROVE  PoolInv'
<1>1. HasConnection(r)
  BY DEF FindAll, HasConnection, InTransaction
<1>2. Keep(r, {}) /\ Becomes(r, Idle)
  BY DEF FindAll
<1>3. {} \subseteq Locks(r) /\ {} \subseteq Rows
  OBVIOUS
<1> QED
  BY <1>1, <1>2, <1>3, HandlerIsLost

LEMMA IdleIsNowhere ==
  /\ Idle \in HandlerState /\ InPlace(Idle)
  /\ ~ Holds(Idle) /\ LocksOf(Idle) = {}
BY DEF Idle, HandlerState, InPlace, Holds, LocksOf

LEMMA CommitKeepsPool ==
  ASSUME PoolInv, NEW r \in Callers, Commit(r)
  PROVE  PoolInv'
<1>1. BulkTypeOK /\ handler[r].at = "commit" /\ UNCHANGED lost
  BY DEF PoolInv, Commit
<1>2. HasConnection(r)
  BY <1>1 DEF HasConnection, InTransaction
<1>3. CASE IsFunctionaries(r)
  <2> DEFINE h == [handler[r] EXCEPT !.at = "find"]
  <2>1. handler[r] \in Bulk
    BY <1>1, KindOfHandler
  <2>2. h \in HandlerState /\ h.at = "find"
    BY <2>1, BulkHandlerGoesTo
  <2>3. Becomes(r, h)
    BY <1>3 DEF Commit
  <2> HIDE DEF h
  <2>4. InPlace(h) /\ LocksOf(h) = {}
    BY <2>2 DEF InPlace, LocksOf
  <2> QED
    BY <1>1, <1>2, <2>2, <2>3, <2>4, HandlerMovesOn
<1>4. CASE ~ IsFunctionaries(r)
  <2>1. Becomes(r, Idle)
    BY <1>4 DEF Commit
  <2> QED
    BY <1>1, <2>1, IdleIsNowhere, HandlerMovesOn
<1> QED
  BY <1>3, <1>4

LEMMA SinglesKeepPool ==
  ASSUME PoolInv, NEW r \in Callers,
         BeginSingle(r) \/ TakeConnection(r) \/ UpdateRow(r)
  PROVE  PoolInv'
<1>1. CASE BeginSingle(r)
  <2>1. PICK row \in Rows : Becomes(r, [at |-> "query", row |-> row])
    BY <1>1 DEF BeginSingle
  <2> DEFINE h == [at |-> "query", row |-> row]
  <2>2. h \in HandlerState /\ h.at = "query"
    BY DEF HandlerState, Single
  <2>3. Becomes(r, h) /\ UNCHANGED lost
    BY <1>1, <2>1 DEF BeginSingle
  <2> HIDE DEF h
  <2>4. InPlace(h) /\ LocksOf(h) = {} /\ ~ Holds(h)
    BY <2>2 DEF InPlace, LocksOf, Holds
  <2> QED
    BY <2>2, <2>3, <2>4, HandlerMovesOn
<1>2. CASE TakeConnection(r)
  <2> DEFINE h == [handler[r] EXCEPT !.at = "update"]
  <2>1. handler[r] \in Single /\ Available
    BY <1>2, KindOfHandler DEF TakeConnection, PoolInv
  <2>2. h \in HandlerState /\ h.at = "update"
    BY <2>1 DEF HandlerState, Single
  <2>3. Becomes(r, h) /\ UNCHANGED lost
    BY <1>2 DEF TakeConnection
  <2> HIDE DEF h
  <2>4. InPlace(h) /\ LocksOf(h) = {}
    BY <2>2 DEF InPlace, LocksOf
  <2> QED
    BY <2>1, <2>2, <2>3, <2>4, HandlerMovesOn
<1>3. CASE UpdateRow(r)
  BY <1>3, IdleIsNowhere, HandlerMovesOn DEF UpdateRow
<1> QED
  BY <1>1, <1>2, <1>3

LEMMA HandlersKeepPool ==
  ASSUME PoolInv, BulkNext
  PROVE  PoolInv'
<1>1. PICK r \in Callers : BeginBulk(r) \/ BeginSingle(r) \/ Handle(r)
  BY DEF BulkNext
<1> QED
  BY <1>1, BeginBulkKeepsPool, ConnectKeepsPool, CheckKeepsPool, RenameKeepsPool,
     PreloadKeepsPool, SaveRowKeepsPool, DeadlockKeepsPool, CommitKeepsPool,
     FindAllKeepsPool, SinglesKeepPool DEF Handle

(* Nothing is taken when the process begins, again or for the first time.    *)
LEMMA NothingTaken ==
  ASSUME handler = [r \in Callers |-> Idle], lost = {}
  PROVE  PoolInv
<1>1. \A r \in Callers : handler[r] = Idle
  OBVIOUS
<1>2. \A r \in Callers : Locks(r) = {} /\ ~ HasConnection(r) /\ InPlace(handler[r])
  BY <1>1, IdleIsNowhere, LocksOfHandler
<1>3. Taking = {}
  BY <1>2 DEF Taking
<1>4. IsFiniteSet({}) /\ Cardinality({}) = 0
  BY FS_EmptySet
<1>5. Connections = 0
  BY <1>3, <1>4 DEF Connections, Taking
<1>6. PoolKept
  BY <1>5, BulkUpdatesAssumption DEF PoolKept
<1>7. BulkTypeOK
  BY DEF BulkTypeOK
<1>8. ChangedByOne
  BY <1>2 DEF ChangedByOne
<1>9. LostInv
  BY <1>4 DEF LostInv
<1>10. PlacesInv
  BY <1>2 DEF PlacesInv
<1> QED
  BY <1>3, <1>4, <1>6, <1>7, <1>8, <1>9, <1>10 DEF PoolInv

LEMMA RestartKeepsPool ==
  ASSUME Restart
  PROVE  PoolInv'
<1>1. (handler = [r \in Callers |-> Idle])' /\ (lost = {})'
  BY DEF Restart
<1>2. ASSUME (handler = [r \in Callers |-> Idle])', (lost = {})'
      PROVE  PoolInv'
  BY NothingTaken, <1>2, PTL
<1> QED
  BY <1>1, <1>2

-------------------------------------------------------------------------------
(***************************************************************************)
(* The load of a sheet of students.                                        *)
(***************************************************************************)

(* The rows of a load are those of its sheet that are under way, each once;  *)
(* a row that failed is no student, and every other one that is through has  *)
(* a student with its dni.                                                   *)
SheetInv ==
  /\ load = NoLoad => rows = {} /\ errors = {}
  /\ load.at \in {"end", "close"} => rows = {}
  /\ \A row, other \in rows : row.student = other.student => row = other
  /\ \A row \in rows : row.at \in {"check", "save"} => row.student \notin students
  /\ \A row \in rows : row.student \notin errors
  /\ errors \cap students = {}
  /\ load # NoLoad =>
       /\ errors \subseteq load.sheet
       /\ \A row \in rows : row.student \in load.sheet
       /\ \A x \in load.sheet : \/ \E row \in rows : row.student = x
                                \/ x \in errors
                                \/ \E y \in students : y.dni = x.dni

LoadInv == LoadTypeOK /\ StudentsDiffer /\ SheetInv

(* A row of a load under way.                                                *)
LEMMA RowUnderWay ==
  ASSUME LoadInv, NEW row \in rows, RunRow(row)
  PROVE  /\ load.at = "rows" /\ load # NoLoad
         /\ row.student \in Student /\ row.student \in load.sheet
         /\ row.student \notin errors
         /\ \A other \in rows : other # row => other.student # row.student
BY DEF LoadInv, LoadTypeOK, SheetInv, RunRow, NoLoad

(* A row that goes on: it is looked up, or checked, and is not a student.    *)
LEMMA RowGoesOn ==
  ASSUME LoadInv, NEW row \in rows, RunRow(row),
         NEW to \in {"check", "save", "update"}, Goes(row, to),
         to # "update" => row.student \notin students,
         UNCHANGED <<students, errors>>
  PROVE  LoadInv'
<1> USE DEF LoadInv
<1>1. UNCHANGED <<load, status>>
  BY DEF RunRow
<1>2. PICK moved : moved = [row EXCEPT !.at = to]
  OBVIOUS
<1>3. row \in [student : Student, at : {"find", "check", "save", "update"}]
  BY DEF LoadTypeOK
<1>4. /\ moved \in [student : Student, at : {"find", "check", "save", "update"}]
      /\ moved.student = row.student /\ moved.at = to
  BY <1>2, <1>3
<1>5. rows' = (rows \ {row}) \cup {moved}
  BY <1>2 DEF Goes
<1>6. LoadTypeOK'
  <2>1. rows' \subseteq [student : Student, at : {"find", "check", "save", "update"}]
    BY <1>4, <1>5 DEF LoadTypeOK
  <2> QED
    BY <2>1, <1>1 DEF LoadTypeOK
<1>7. StudentsDiffer'
  BY DEF StudentsDiffer, Referred
<1>8. SheetInv'
  <2>1. \A x \in rows' : x = moved \/ (x \in rows /\ x # row)
    BY <1>5
  <2>2. load.at = "rows" /\ load # NoLoad
    BY RowUnderWay
  <2>3. \A one, other \in rows' : one.student = other.student => one = other
    BY <2>1, <1>4, RowUnderWay DEF SheetInv
  <2>4. \A x \in rows' : x.at \in {"check", "save"} => x.student \notin students'
    BY <2>1, <1>4 DEF SheetInv
  <2>5. \A x \in rows' : x.student \notin errors' /\ x.student \in load.sheet
    BY <2>1, <2>2, <1>4, RowUnderWay DEF SheetInv
  <2>6. errors' \cap students' = {} /\ errors' \subseteq load.sheet
    BY <2>2 DEF SheetInv
  <2>7. ASSUME NEW x \in load.sheet
        PROVE  \/ \E other \in rows' : other.student = x
               \/ x \in errors'
               \/ \E y \in students' : y.dni = x.dni
    <3>1. CASE x = row.student
      BY <3>1, <1>4, <1>5
    <3>2. CASE x # row.student
      BY <3>2, <2>2, <1>5 DEF SheetInv
    <3> QED
      BY <3>1, <3>2
  <2> QED
    BY <2>2, <2>3, <2>4, <2>5, <2>6, <2>7, <1>1 DEF SheetInv
<1> QED
  BY <1>6, <1>7, <1>8

(* A row that ends: it failed and is no student, or it left a student with   *)
(* its dni, in the place of those who had it.                                *)
LEMMA RowIsThrough ==
  ASSUME LoadInv, NEW row \in rows, RunRow(row), NEW failed \in BOOLEAN,
         RowEnds(row, failed),
         failed => students' = students /\ row.student \notin students,
         ~ failed => /\ row.student \in students'
                     /\ \A x \in students' \ {row.student} : x \in students
                     /\ \A x \in students \ students' : x.dni = row.student.dni,
         StudentsDiffer'
  PROVE  LoadInv'
<1> USE DEF LoadInv
<1>1. UNCHANGED <<load, status>>
  BY DEF RunRow
<1>2. rows' = rows \ {row}
  BY DEF RowEnds
<1>3. errors' = IF failed THEN errors \cup {row.student} ELSE errors
  BY DEF RowEnds
<1>4. LoadTypeOK'
  <2>1. row.student \in Student
    BY RowUnderWay
  <2>2. students' \subseteq Student
    BY <2>1 DEF LoadTypeOK
  <2>3. errors' \subseteq Student
    BY <2>1, <1>3 DEF LoadTypeOK
  <2> QED
    BY <2>2, <2>3, <1>1, <1>2 DEF LoadTypeOK
<1>5. SheetInv'
  <2>1. load.at = "rows" /\ load # NoLoad
    BY RowUnderWay
  <2>2. \A one, other \in rows' : one.student = other.student => one = other
    BY <1>2 DEF SheetInv
  <2>3. \A x \in rows' : x.student # row.student
    BY <1>2, RowUnderWay
  <2>4. \A x \in rows' : x.at \in {"check", "save"} => x.student \notin students'
    BY <2>3, <1>2 DEF SheetInv
  <2>5. \A x \in rows' : x.student \notin errors' /\ x.student \in load.sheet
    BY <2>1, <2>3, <1>2, <1>3 DEF SheetInv
  <2>6. errors' \cap students' = {}
    <3>1. CASE failed
      BY <3>1, <1>3 DEF SheetInv
    <3>2. CASE ~ failed
      BY <3>2, <1>3, RowUnderWay DEF SheetInv
    <3> QED
      BY <3>1, <3>2
  <2>7. errors' \subseteq load.sheet
    BY <2>1, <1>3, RowUnderWay DEF SheetInv
  <2>8. ASSUME NEW x \in load.sheet
        PROVE  \/ \E other \in rows' : other.student = x
               \/ x \in errors'
               \/ \E y \in students' : y.dni = x.dni
    <3>1. CASE x = row.student
      BY <3>1, <1>3
    <3>2. CASE x # row.student /\ \E other \in rows : other.student = x
      BY <3>2, <1>2
    <3>3. CASE x \in errors
      BY <3>3, <1>3
    <3>4. CASE \E y \in students : y.dni = x.dni
      BY <3>4
    <3> QED
      BY <3>1, <3>2, <3>3, <3>4, <2>1 DEF SheetInv
  <2> QED
    BY <2>1, <2>2, <2>4, <2>5, <2>6, <2>7, <2>8, <1>1 DEF SheetInv
<1> QED
  BY <1>4, <1>5

LEMMA FindKeepsLoad ==
  ASSUME LoadInv, NEW row \in rows, RunRow(row), Find(row)
  PROVE  LoadInv'
<1>1. UNCHANGED students /\ StudentsDiffer'
  BY DEF Find, LoadInv, StudentsDiffer, Referred
<1>2. CASE WithDni(row.student) # {}
  <2>1. Goes(row, "update") /\ UNCHANGED errors
    BY <1>2 DEF Find
  <2> QED
    BY <2>1, <1>1, RowGoesOn
<1>3. CASE WithDni(row.student) = {}
  <2>1. row.student \notin students
    BY <1>3 DEF WithDni
  <2>2. CASE load.update
    <3>1. RowEnds(row, TRUE)
      BY <1>3, <2>2 DEF Find
    <3> QED
      BY <3>1, <2>1, <1>1, RowIsThrough
  <2>3. CASE ~ load.update
    <3>1. Goes(row, "check") /\ UNCHANGED errors
      BY <1>3, <2>3 DEF Find
    <3> QED
      BY <3>1, <2>1, <1>1, RowGoesOn
  <2> QED
    BY <2>2, <2>3
<1> QED
  BY <1>2, <1>3

LEMMA UpdateStudentKeepsLoad ==
  ASSUME LoadInv, NEW row \in rows, RunRow(row), UpdateStudent(row)
  PROVE  LoadInv'
<1> PICK taken \in BOOLEAN :
      taken <=> \/ WithMail(row.student) \ WithDni(row.student) # {}
                \/ ~ Referred(row.student)
  OBVIOUS
<1>1. RowEnds(row, taken)
  BY DEF UpdateStudent, RowEnds
<1>2. StudentsDiffer
  BY DEF LoadInv
<1>3. CASE taken
  <2>1. students' = students
    BY <1>3 DEF UpdateStudent
  <2>2. row.student \notin students
    BY <1>2, <1>3 DEF WithMail, WithDni, StudentsDiffer, Referred
  <2>3. StudentsDiffer'
    BY <2>1, <1>2 DEF StudentsDiffer, Referred
  <2> QED
    BY <2>1, <2>2, <2>3, <1>1, <1>3, RowIsThrough
<1>4. CASE ~ taken
  <2>1. students' = (students \ WithDni(row.student)) \cup {row.student}
    BY <1>4 DEF UpdateStudent
  <2>2. \A x \in students \ WithDni(row.student) :
          x.dni # row.student.dni /\ x.mail # row.student.mail
    BY <1>4 DEF WithMail, WithDni
  <2>3. StudentsDiffer'
    <3>1. Referred(row.student)
      BY <1>4
    <3>2. \A x \in students : Referred(x)
      BY <1>2 DEF StudentsDiffer
    <3>3. \A x \in students' : Referred(x)
      BY <3>1, <3>2, <2>1
    <3>4. \A x, other \in students : x.dni = other.dni \/ x.mail = other.mail => x = other
      BY <1>2 DEF StudentsDiffer
    <3>5. \A x, other \in students' : x.dni = other.dni \/ x.mail = other.mail => x = other
      BY <2>1, <2>2, <3>4
    <3>6. \A x \in students' : Referred(x)'
      BY <3>3 DEF Referred
    <3> QED
      BY <3>5, <3>6 DEF StudentsDiffer
  <2>4. \A x \in students \ students' : x.dni = row.student.dni
    BY <2>1 DEF WithDni
  <2> QED
    BY <2>1, <2>3, <2>4, <1>1, <1>4, RowIsThrough
<1> QED
  BY <1>3, <1>4

LEMMA CheckStudentKeepsLoad ==
  ASSUME LoadInv, NEW row \in rows, RunRow(row), CheckStudent(row)
  PROVE  LoadInv'
<1>1. row.student \notin students
  BY DEF LoadInv, SheetInv, CheckStudent
<1>2. UNCHANGED students /\ StudentsDiffer'
  BY DEF CheckStudent, LoadInv, StudentsDiffer, Referred
<1>3. CASE Goes(row, "save") /\ UNCHANGED errors
  BY <1>1, <1>2, <1>3, RowGoesOn
<1>4. CASE RowEnds(row, TRUE)
  BY <1>1, <1>2, <1>4, RowIsThrough
<1> QED
  BY <1>3, <1>4 DEF CheckStudent

LEMMA SaveStudentKeepsLoad ==
  ASSUME LoadInv, NEW row \in rows, RunRow(row), SaveStudent(row)
  PROVE  LoadInv'
<1> PICK taken \in BOOLEAN :
      taken <=> \/ WithDni(row.student) \cup WithMail(row.student) # {}
                \/ ~ Referred(row.student)
  OBVIOUS
<1>1. RowEnds(row, taken)
  BY DEF SaveStudent, RowEnds
<1>2. StudentsDiffer /\ row.student \notin students
  BY DEF LoadInv, SheetInv, SaveStudent
<1>3. CASE taken
  <2>1. students' = students
    BY <1>3 DEF SaveStudent
  <2>2. StudentsDiffer'
    BY <2>1, <1>2 DEF StudentsDiffer, Referred
  <2> QED
    BY <2>1, <2>2, <1>1, <1>2, <1>3, RowIsThrough
<1>4. CASE ~ taken
  <2>1. students' = students \cup {row.student}
    BY <1>4 DEF SaveStudent
  <2>2. \A x \in students : x.dni # row.student.dni /\ x.mail # row.student.mail
    BY <1>4 DEF WithMail, WithDni
  <2>3. StudentsDiffer'
    <3>1. Referred(row.student)
      BY <1>4
    <3>2. \A x \in students : Referred(x)
      BY <1>2 DEF StudentsDiffer
    <3>3. \A x \in students' : Referred(x)
      BY <3>1, <3>2, <2>1
    <3>4. \A x, other \in students : x.dni = other.dni \/ x.mail = other.mail => x = other
      BY <1>2 DEF StudentsDiffer
    <3>5. \A x, other \in students' : x.dni = other.dni \/ x.mail = other.mail => x = other
      BY <2>1, <2>2, <3>4
    <3>6. \A x \in students' : Referred(x)'
      BY <3>3 DEF Referred
    <3> QED
      BY <3>5, <3>6 DEF StudentsDiffer
  <2> QED
    BY <2>1, <2>3, <1>1, <1>4, RowIsThrough
<1> QED
  BY <1>3, <1>4

LEMMA BeginLoadKeepsLoad ==
  ASSUME LoadInv, NEW sheet \in Sheets, NEW update \in BOOLEAN, BeginLoad(sheet, update)
  PROVE  LoadInv'
<1> USE DEF LoadInv
<1>1. PICK begun : begun = [at |-> "rows", sheet |-> sheet, update |-> update]
  OBVIOUS
<1>2. /\ begun \in [at : {"rows", "end", "close"}, sheet : Sheets, update : BOOLEAN]
      /\ begun.at = "rows" /\ begun.sheet = sheet /\ load' = begun
  BY <1>1 DEF BeginLoad
<1>3. /\ rows' = {[student |-> x, at |-> "find"] : x \in sheet}
      /\ errors = {} /\ UNCHANGED <<students, errors>> /\ status' = "IN_PROGRESS"
  BY DEF BeginLoad, SheetInv
<1>4. sheet \subseteq Student
  BY DEF Student
<1>5. \A row \in rows' : /\ row = [student |-> row.student, at |-> "find"]
                         /\ row.student \in sheet /\ row.at = "find"
  BY <1>3
<1>6. \A x \in sheet : \E row \in rows' : row.student = x
  <2>1. \A x \in sheet : [student |-> x, at |-> "find"] \in rows'
    BY <1>3
  <2> QED
    BY <2>1
<1>7. LoadTypeOK'
  <2>1. rows' \subseteq [student : Student, at : {"find", "check", "save", "update"}]
    BY <1>3, <1>4
  <2>2. load' \in [at : {"idle"}]
          \cup [at : {"rows", "end", "close"}, sheet : Sheets, update : BOOLEAN]
    BY <1>2
  <2> QED
    BY <2>1, <2>2, <1>3 DEF LoadTypeOK
<1>8. StudentsDiffer'
  BY <1>3 DEF StudentsDiffer, Referred
<1>9. SheetInv'
  <2>1. load' # NoLoad /\ load'.at = "rows" /\ load'.sheet = sheet
    BY <1>2 DEF NoLoad
  <2> QED
    BY <2>1, <1>3, <1>5, <1>6 DEF SheetInv
<1> QED
  BY <1>7, <1>8, <1>9

(* EndRows and CreateChild: the load goes on once its rows are through.      *)
LEMMA LoadGoesOn ==
  ASSUME LoadInv, EndRows \/ CreateChild
  PROVE  LoadInv'
<1> USE DEF LoadInv
<1>1. PICK to : to = IF load.at = "rows" THEN "end" ELSE "close"
  OBVIOUS
<1>2. PICK begun : begun = [load EXCEPT !.at = to]
  OBVIOUS
<1>3. load' = begun /\ UNCHANGED <<students, rows, errors, status>>
  BY <1>1, <1>2 DEF EndRows, CreateChild
<1>4. load \in [at : {"rows", "end", "close"}, sheet : Sheets, update : BOOLEAN]
  BY DEF LoadTypeOK, EndRows, CreateChild
<1>5. /\ begun \in [at : {"rows", "end", "close"}, sheet : Sheets, update : BOOLEAN]
      /\ begun.at \in {"end", "close"} /\ begun.sheet = load.sheet
  BY <1>1, <1>2, <1>4
<1>6. rows = {} /\ load # NoLoad /\ begun # NoLoad
  BY <1>5 DEF EndRows, CreateChild, SheetInv, NoLoad
<1>7. LoadTypeOK'
  BY <1>3, <1>5 DEF LoadTypeOK
<1>8. StudentsDiffer'
  BY <1>3 DEF StudentsDiffer, Referred
<1>9. SheetInv'
  BY <1>3, <1>5, <1>6 DEF SheetInv
<1> QED
  BY <1>7, <1>8, <1>9

(* CloseLoad and a restart: there is no load, and the students stay.         *)
LEMMA LoadIsOver ==
  ASSUME LoadInv, load' = NoLoad, rows' = {}, errors' = {}, UNCHANGED students,
         status' \in {"none", "IN_PROGRESS", "COMPLETED", "WITH_ERRORS", "FAILURE"}
  PROVE  LoadInv'
<1>1. LoadTypeOK'
  BY DEF LoadInv, LoadTypeOK, NoLoad
<1>2. StudentsDiffer'
  BY DEF LoadInv, StudentsDiffer, Referred
<1>3. SheetInv'
  BY DEF SheetInv, NoLoad
<1> QED
  BY <1>1, <1>2, <1>3 DEF LoadInv

LEMMA CloseLoadKeepsLoad ==
  ASSUME LoadInv, CloseLoad
  PROVE  LoadInv'
<1>1. rows' = {}
  BY DEF LoadInv, SheetInv, CloseLoad
<1>2. status' \in {"none", "IN_PROGRESS", "COMPLETED", "WITH_ERRORS", "FAILURE"}
  BY DEF CloseLoad, StatusOf
<1> QED
  BY <1>1, <1>2, LoadIsOver DEF CloseLoad

LEMMA RestartKeepsLoad ==
  ASSUME LoadInv, RestartAll
  PROVE  LoadInv'
<1>1. status' \in {"none", "IN_PROGRESS", "COMPLETED", "WITH_ERRORS", "FAILURE"}
  BY DEF LoadInv, LoadTypeOK, RestartAll
<1> QED
  BY <1>1, LoadIsOver DEF RestartAll

LEMMA NoLoadAtFirst ==
  ASSUME LoadInit
  PROVE  LoadInv
<1>1. LoadTypeOK /\ StudentsDiffer
  BY DEF LoadInit, LoadTypeOK, NoLoad, StudentsDiffer, Referred
<1>2. SheetInv
  BY DEF LoadInit, SheetInv, NoLoad
<1> QED
  BY <1>1, <1>2 DEF LoadInv

(* What a step of the pool, or of the load, leaves alone.                    *)
LEMMA PoolUnchanged ==
  ASSUME PoolInv, UNCHANGED bulkVars
  PROVE  PoolInv'
<1>1. handler' = handler /\ lost' = lost
  BY DEF bulkVars
<1>2. \A r \in Callers : (Locks(r)' = Locks(r)) /\ (HasConnection(r)' <=> HasConnection(r))
  BY <1>1 DEF Locks, HasConnection, InTransaction
<1>3. Taking' = Taking
  BY <1>2 DEF Taking
<1>4. Connections' = Connections
  BY <1>1, <1>3 DEF Connections, Taking
<1>5. BulkTypeOK' /\ PlacesInv'
  BY <1>1 DEF PoolInv, BulkTypeOK, PlacesInv
<1>6. IsFiniteSet(Taking)' /\ LostInv'
  BY <1>1, <1>3 DEF PoolInv, LostInv
<1>7. PoolKept'
  BY <1>4 DEF PoolInv, PoolKept
<1>8. ChangedByOne'
  BY <1>1, <1>2 DEF PoolInv, ChangedByOne
<1> QED
  BY <1>5, <1>6, <1>7, <1>8 DEF PoolInv

LEMMA LoadUnchanged ==
  ASSUME LoadInv, UNCHANGED loadVars
  PROVE  LoadInv'
BY DEF LoadInv, LoadTypeOK, StudentsDiffer, Referred, SheetInv, loadVars

LEMMA LoadStep ==
  ASSUME PoolInv, LoadInv, StudentLoadNext
  PROVE  PoolInv' /\ LoadInv'
<1>1. ASSUME NEW sheet \in Sheets, NEW update \in BOOLEAN, BeginLoad(sheet, update),
             UNCHANGED bulkVars
      PROVE  PoolInv' /\ LoadInv'
  BY <1>1, BeginLoadKeepsLoad, PoolUnchanged
<1>2. ASSUME NEW row \in rows, RunRow(row), UNCHANGED bulkVars
      PROVE  PoolInv' /\ LoadInv'
  <2>1. Find(row) \/ UpdateStudent(row) \/ CheckStudent(row) \/ SaveStudent(row)
    BY <1>2 DEF RunRow
  <2> QED
    BY <1>2, <2>1, FindKeepsLoad, UpdateStudentKeepsLoad, CheckStudentKeepsLoad,
       SaveStudentKeepsLoad, PoolUnchanged
<1>3. CASE (EndRows \/ CreateChild \/ CloseLoad) /\ UNCHANGED bulkVars
  BY <1>3, LoadGoesOn, CloseLoadKeepsLoad, PoolUnchanged
<1>4. CASE BulkNext /\ UNCHANGED loadVars
  BY <1>4, HandlersKeepPool, LoadUnchanged
<1>5. CASE RestartAll
  BY <1>5, RestartKeepsLoad, RestartKeepsPool DEF RestartAll
<1> QED
  BY <1>1, <1>2, <1>3, <1>4, <1>5 DEF StudentLoadNext, HandleLoad

LEMMA LoadIsKept == StudentLoadSpec => [](PoolInv /\ LoadInv)
<1>1. StudentLoadInit => PoolInv /\ LoadInv
  BY NothingTaken, NoLoadAtFirst DEF StudentLoadInit, BulkInit
<1>2. /\ PoolInv /\ LoadInv
      /\ [StudentLoadNext]_<<bulkVars, loadVars>>
      => (PoolInv /\ LoadInv)'
  BY LoadStep, PoolUnchanged, LoadUnchanged
<1> QED
  BY <1>1, <1>2, PTL DEF StudentLoadSpec

(* BulkInv, for any bodies, sheets and callers: the connections taken are no *)
(* more than the pool has, a row that a transaction has changed is changed by no  *)
(* other before its end, no two students have one dni or one mail, and the   *)
(* career and the canton of each exist.                                      *)
THEOREM ThePoolAndTheStudentsAreKept == StudentLoadSpec => []BulkInv
<1>1. PoolInv /\ LoadInv => BulkInv
  BY DEF PoolInv, LoadInv, BulkInv
<1> QED
  BY <1>1, LoadIsKept, PTL

(* Only CloseLoad takes a load from "close" to its end with another status.  *)
LEMMA CloseTells ==
  ASSUME LoadInv, StudentLoadNext,
         load.at = "close", load' = NoLoad, status' # status
  PROVE  /\ status' = "COMPLETED" => \A x \in load.sheet : WithDni(x) # {}
         /\ status' = "FAILURE" => load.sheet \cap students = {}
<1>1. CloseLoad
  <2>1. load # NoLoad
    BY DEF NoLoad
  <2>2. \A sheet \in Sheets : \A update \in BOOLEAN : ~ BeginLoad(sheet, update)
    BY <2>1 DEF BeginLoad
  <2>3. ~ RestartAll /\ ~ UNCHANGED loadVars
    BY DEF RestartAll, loadVars
  <2>4. ~ EndRows /\ ~ CreateChild /\ \A row \in rows : ~ RunRow(row)
    BY DEF EndRows, CreateChild, RunRow
  <2> QED
    BY <2>2, <2>3, <2>4 DEF StudentLoadNext, HandleLoad
<1>2. load # NoLoad /\ rows = {}
  BY DEF LoadInv, SheetInv, NoLoad
<1>3. status' = StatusOf(load.sheet)
  BY <1>1 DEF CloseLoad
<1>4. ASSUME status' = "COMPLETED", NEW x \in load.sheet
      PROVE  WithDni(x) # {}
  <2>1. errors = {}
    BY <1>3, <1>4 DEF StatusOf
  <2>2. PICK y \in students : y.dni = x.dni
    BY <1>2, <2>1 DEF LoadInv, SheetInv
  <2> QED
    BY <2>2 DEF WithDni
<1>5. ASSUME status' = "FAILURE"
      PROVE  load.sheet \cap students = {}
  <2>1. errors = load.sheet
    BY <1>3, <1>5 DEF StatusOf
  <2> QED
    BY <2>1 DEF LoadInv, SheetInv
<1> QED
  BY <1>4, <1>5

(* StatusTells, for any sheets: a load is COMPLETED only when there is a     *)
(* student with the dni of every row, FAILURE only when no student has the   *)
(* data of a row.                                                            *)
THEOREM TheStatusTells == StudentLoadSpec => StatusTells
<1> DEFINE Tells ==
      load.at = "close" /\ load' = NoLoad /\ status' # status =>
        /\ status' = "COMPLETED" => \A x \in load.sheet : WithDni(x) # {}
        /\ status' = "FAILURE" => load.sheet \cap students = {}
<1>1. LoadInv /\ [StudentLoadNext]_<<bulkVars, loadVars>>
        => [Tells]_<<bulkVars, loadVars>>
  BY CloseTells
<1>2. StatusTells <=> [][Tells]_<<bulkVars, loadVars>>
  BY DEF StatusTells
<1> HIDE DEF Tells
<1> QED
  BY <1>1, <1>2, LoadIsKept, PTL DEF StudentLoadSpec
===============================================================================

---------------------------- MODULE LongTasksProofs ----------------------------
(***************************************************************************)
(* What holds of LongTasks for every set of documents and students, every  *)
(* sheet and whatever fails, however often the process stops.              *)
(***************************************************************************)
EXTENDS LongTasks, TLAPS, SequenceTheorems, FiniteSetTheorems,
        WellFoundedInduction

-------------------------------------------------------------------------------
(***************************************************************************)
(* Sets of numbers and lists.                                              *)
(***************************************************************************)

(* Every set of numbers has a least one.                                     *)
LEMMA LeastOf ==
  ASSUME NEW T \in SUBSET Nat, T # {}
  PROVE  \E x \in T : \A y \in T : x <= y
<1> DEFINE R == OpToRel(<, Nat)
<1>1. IsWellFoundedOn(R, Nat)
  BY NatLessThanWellFounded
<1>2. PICK x \in T : \A y \in T : ~ (<<y, x>> \in R)
  <2> HIDE DEF R
  <2> QED
    BY <1>1, WFMin
<1>3. \A y \in T : ~ (y < x)
  BY <1>2 DEF OpToRel
<1> QED
  BY <1>3

(* A bounded set of numbers has a greatest one, which Max is.                *)
LEMMA MaxOf ==
  ASSUME NEW T \in SUBSET Nat, T # {}, NEW bound \in Nat, \A x \in T : x <= bound
  PROVE  Max(T) \in T /\ \A y \in T : y <= Max(T)
<1> DEFINE D == {d \in 0..bound : bound - d \in T}
<1>1. D \in SUBSET Nat /\ D # {}
  <2>1. PICK x \in T : TRUE
    OBVIOUS
  <2>2. x \in Nat /\ x <= bound
    BY <2>1
  <2>3. bound - x \in 0..bound /\ bound - (bound - x) = x
    BY <2>2
  <2>4. bound - x \in D
    BY <2>1, <2>3
  <2>5. D \subseteq Nat
    OBVIOUS
  <2> QED
    BY <2>4, <2>5
<1>2. PICK d \in D : \A e \in D : d <= e
  BY <1>1, LeastOf
<1>3. ASSUME NEW y \in T
      PROVE  bound - d >= y
  <2>1. bound - y \in 0..bound /\ bound - (bound - y) = y
    OBVIOUS
  <2>2. d <= bound - y
    BY <1>2, <2>1
  <2> QED
    BY <1>2, <2>1, <2>2
<1>4. \E x \in T : \A y \in T : x >= y
  BY <1>2, <1>3
<1>5. Max(T) \in T /\ \A y \in T : Max(T) >= y
  BY <1>4 DEF Max
<1> QED
  BY <1>5

(* A list is its first element and the rest.                                 *)
LEMMA RangeSplits ==
  ASSUME NEW S, NEW s \in Seq(S), s # <<>>
  PROVE  /\ Head(s) \in S /\ Tail(s) \in Seq(S)
         /\ Range(s) = {Head(s)} \cup Range(Tail(s))
<1>1. Head(s) \in S /\ Tail(s) \in Seq(S)
      /\ Len(Tail(s)) = Len(s) - 1
      /\ \A i \in 1 .. Len(Tail(s)) : Tail(s)[i] = s[i + 1]
  BY HeadTailProperties
<1>2. Len(s) \in Nat \ {0} /\ DOMAIN s = 1..Len(s) /\ Head(s) = s[1]
      /\ DOMAIN Tail(s) = 1..Len(Tail(s))
  BY <1>1, EmptySeq, LenProperties DEF Head
<1>3. ASSUME NEW i \in DOMAIN s
      PROVE  s[i] \in {Head(s)} \cup Range(Tail(s))
  <2>1. CASE i = 1
    BY <1>2, <2>1
  <2>2. CASE i # 1
    <3>1. i - 1 \in DOMAIN Tail(s) /\ Tail(s)[i - 1] = s[i]
      BY <1>1, <1>2, <2>2
    <3> QED
      BY <3>1 DEF Range
  <2> QED
    BY <2>1, <2>2
<1>4. ASSUME NEW i \in DOMAIN Tail(s)
      PROVE  i + 1 \in DOMAIN s /\ Tail(s)[i] = s[i + 1]
  BY <1>1, <1>2
<1>5. Range(s) \subseteq {Head(s)} \cup Range(Tail(s))
  BY <1>3 DEF Range
<1>6. Range(Tail(s)) \subseteq Range(s)
  BY <1>4 DEF Range
<1>7. Head(s) \in Range(s)
  BY <1>2 DEF Range
<1> QED
  BY <1>1, <1>5, <1>6, <1>7

(* The elements of a list of one, and of none.                               *)
LEMMA RangeOfFew ==
  /\ \A x : Range(<<x>>) = {x}
  /\ \A x, y : Range(<<x, y>>) = {x, y}
  /\ Range(<<>>) = {}
<1>1. \A x : Range(<<x>>) = {x}
  BY DEF Range
<1>2. ASSUME NEW x, NEW y
      PROVE  Range(<<x, y>>) = {x, y}
  <2> DEFINE s == <<x, y>>
  <2>1. DOMAIN s = {1, 2} /\ s[1] = x /\ s[2] = y
    OBVIOUS
  <2> HIDE DEF s
  <2>2. Range(s) = {x, y}
    BY <2>1 DEF Range
  <2> QED
    BY <2>2 DEF s
<1>3. Range(<<>>) = {}
  BY DEF Range
<1> QED
  BY <1>1, <1>2, <1>3

-------------------------------------------------------------------------------
(* What the jobs of a queue are about.                                       *)
About(q) == IF q = "document" THEN Docs ELSE Students

(* A child that names a certificate names one of its own student.            *)
Traced(x) ==
  x.entities # 0 =>
    /\ x.entities \in DOMAIN certificates
    /\ certificates[x.entities].student = x.item

(* The main notifications of the tasks of a queue.                           *)
RootsOf(q) == {n \in Roots : notifications[n].kind = q}

(* A notification tries no other one again or a load, it is a child of a     *)
(* main one or none, and a main one is about no item.                        *)
Noted(x) ==
  /\ x.retry \in RootsOf("certificate") \cup {0}
  /\ x.parent \in Roots \cup {0}
  /\ x.parent = 0 => x.item = "none"
  /\ Traced(x)

(* A job of a queue, of a task that was started.                             *)
TaskJob(q) ==
  {j \in Job : /\ j.item \in About(q) /\ j.root \in RootsOf(q)
               /\ \A x \in j.retries : Noted(x.row)}

(* A request whose task is in the table, with items of its queue.            *)
TaskRequest ==
  {r \in Request : /\ r.items \in Seq(About(r.queue)) /\ r.root \in RootsOf(r.queue)
                   /\ \A x \in r.retries : Noted(x.row)}

(* A processor at a job of its own queue.                                    *)
TaskBusy(q) == {w \in Busy : w.job \in TaskJob(q)}

(* The table of notifications,                                               *)
NotesInv ==
  /\ notifications \in Seq(Notification)
  /\ \A n \in DOMAIN notifications : Noted(notifications[n])

(* the queues,                                                               *)
WaitingInv ==
  /\ waiting \in [Queues -> Seq(Job)]
  /\ \A q \in Queues : waiting[q] \in Seq(TaskJob(q))

(* the processors,                                                           *)
WorkerInv ==
  /\ worker \in [Queues -> Busy \cup {Free}]
  /\ \A q \in Queues : worker[q] \in TaskBusy(q) \cup {Free}

(* and the requests in flight.                                               *)
RequestsInv == requests \subseteq TaskRequest

(* The jobs that a stop left are of their queues, too.                       *)
StalledInv ==
  /\ stalled \in [Queues -> Seq(Job)]
  /\ \A q \in Queues : stalled[q] \in Seq(TaskJob(q))

(* The types, and what ties the tables together.                             *)
TasksInv ==
  /\ NotesInv /\ WaitingInv /\ WorkerInv /\ RequestsInv
  /\ stops \in 0..MaxStops
  /\ DocumentsTypeOK /\ CertificatesTypeOK

-------------------------------------------------------------------------------
(* What was done last for a student.                                         *)
Own(s) == {n \in DOMAIN notifications \ Roots :
             notifications[n].item = s /\ ~ notifications[n].carried}

(* The newest of them.                                                       *)
LastOwn(n, s) == n \in Own(s) /\ \A m \in Own(s) : m <= n

(* The certificate that the processor is loading.                            *)
LoadInv ==
  LET w == worker["certificate"] IN
  /\ w.at \notin {"idle", "start"} =>
       /\ LastOwn(w.child, w.job.item)
       /\ notifications[w.child].status = "IN_PROGRESS"
  /\ w.at = "previous" => \E x \in w.job.retries : x.row.item = w.job.item
  /\ w.at \in {"sheet", "cells", "clear", "members", "finish"} =>
       /\ w.entity \in DOMAIN certificates
       /\ certificates[w.entity].student = w.job.item
       /\ certificates[w.entity].state = "live"
       /\ w.at # "sheet" => certificates[w.entity].sheet
       /\ w.at = "finish" /\ ~w.errors => certificates[w.entity].members = Members

(* The child of the document that is made anew.                              *)
ChildInv ==
  LET w == worker["document"] IN
  w.at \notin {"idle", "start"} =>
    /\ w.child \in DOMAIN notifications \ Roots
    /\ notifications[w.child].item \in Docs

(* A last row that is COMPLETED has its whole certificate.                   *)
LastIsThere ==
  \A s \in Students, n \in DOMAIN notifications :
    LastOwn(n, s) /\ notifications[n].status = "COMPLETED" =>
      \E i \in DOMAIN certificates :
        certificates[i] = [student |-> s, state |-> "live", sheet |-> TRUE,
                           members |-> Members]

-------------------------------------------------------------------------------
(* The files that Drive made, and the copy that is made.                     *)
FilesInv ==
  LET w == worker["document"] IN
  /\ \A f \in files : f.id < nextFile
  /\ \A d \in DOMAIN documents : documents[d].file < nextFile
  /\ w.at \in {"fill", "save"} => w.entity < nextFile
  /\ w.at = "fill" /\ w.job.item \in DOMAIN documents =>
       documents[w.job.item].file # w.entity
  /\ w.at = "save" =>
       \A f \in files : f.doc = w.job.item /\ f.id = w.entity =>
                          f.shows = w.job.data

-------------------------------------------------------------------------------
(***************************************************************************)
(* What every step keeps.                                                  *)
(***************************************************************************)
Same(x, y) ==
  /\ x.parent = y.parent /\ x.item = y.item /\ x.carried = y.carried
  /\ x.retry = y.retry /\ x.kind = y.kind

(* No notification is deleted, or becomes another one; nor is a certificate. *)
Kept ==
  /\ \A n \in DOMAIN notifications :
       n \in DOMAIN notifications' /\ Same(notifications'[n], notifications[n])
  /\ \A i \in DOMAIN certificates :
       i \in DOMAIN certificates' /\ certificates'[i].student = certificates[i].student

(* The two queues are these.                                                 *)
LEMMA TheQueues ==
  /\ Queues = {"document", "certificate"}
  /\ "document" \in Queues /\ "certificate" \in Queues
  /\ About("document") = Docs /\ About("certificate") = Students
  /\ \A q \in Queues : About(q) \subseteq Items
  BY JobsAssumption, RegenerationAssumption, BulkLoadAssumption DEF About

(* A main notification stays one.                                            *)
LEMMA RootsStay ==
  ASSUME Kept
  PROVE  Roots \subseteq Roots' /\ \A q : RootsOf(q) \subseteq RootsOf(q)'
  BY DEF Kept, Roots, RootsOf, Same

(* What was traced stays traced,                                             *)
LEMMA TracedStays ==
  ASSUME Kept, NEW x, Traced(x)
  PROVE  Traced(x)'
  BY DEF Kept, Traced

(* so that a notification is well noted after any later step,                *)
LEMMA NotedStays ==
  ASSUME Kept, NEW x, Noted(x)
  PROVE  Noted(x)'
  BY RootsStay, TracedStays DEF Noted

(* and a job, a request and a processor stay of their queue.                 *)
LEMMA JobsStay ==
  ASSUME Kept, NEW q
  PROVE  TaskJob(q) \subseteq TaskJob(q)'
<1>1. RootsOf(q) \subseteq RootsOf(q)'
  BY RootsStay
<1>2. \A x : Noted(x) => Noted(x)'
  BY NotedStays
<1> QED
  BY <1>1, <1>2 DEF TaskJob

(* Nor does a request that is in flight stop being one, or a processor lose  *)
(* what it works on.                                                         *)
LEMMA RequestsStay ==
  ASSUME Kept
  PROVE  TaskRequest \subseteq TaskRequest'
<1>1. \A q : RootsOf(q) \subseteq RootsOf(q)'
  BY RootsStay
<1>2. \A x : Noted(x) => Noted(x)'
  BY NotedStays
<1> QED
  BY <1>1, <1>2 DEF TaskRequest

(* What a processor is busy with stays a job of its queue.                   *)
LEMMA BusyStays ==
  ASSUME Kept, NEW q
  PROVE  TaskBusy(q) \subseteq TaskBusy(q)'
  BY JobsStay DEF TaskBusy

(* Where the queues are left alone they stay as they are.                    *)
LEMMA WaitingStays ==
  ASSUME Kept, WaitingInv, UNCHANGED waiting
  PROVE  WaitingInv'
<1>1. \A q \in Queues : TaskJob(q) \subseteq TaskJob(q)'
  BY JobsStay
<1> SUFFICES ASSUME NEW q \in Queues
             PROVE  waiting[q] \in Seq(TaskJob(q)')
  BY DEF WaitingInv
<1> QED
  BY <1>1, SeqMonotonic DEF WaitingInv

LEMMA StalledStays ==
  ASSUME Kept, StalledInv, UNCHANGED stalled
  PROVE  StalledInv'
<1>1. \A q \in Queues : TaskJob(q) \subseteq TaskJob(q)'
  BY JobsStay
<1> SUFFICES ASSUME NEW q \in Queues
             PROVE  stalled[q] \in Seq(TaskJob(q)')
  BY DEF StalledInv
<1> QED
  BY <1>1, SeqMonotonic DEF StalledInv

(* Where one processor goes on with what it does, or ends,                   *)
LEMMA WorkerGoes ==
  ASSUME Kept, WorkerInv, NEW q \in Queues, NEW w,
         worker' = [worker EXCEPT ![q] = w],
         w \in TaskBusy(q) \/ w = Free
  PROVE  WorkerInv'
<1>1. \A p \in Queues : TaskBusy(p) \subseteq TaskBusy(p)'
  BY BusyStays
<1>2. w \in Busy \cup {Free} /\ w \in TaskBusy(q)' \cup {Free}
  BY <1>1 DEF TaskBusy
<1>3. worker' \in [Queues -> Busy \cup {Free}]
  BY <1>2 DEF WorkerInv
<1>4. ASSUME NEW p \in Queues
      PROVE  worker'[p] \in TaskBusy(p)' \cup {Free}
  <2>1. CASE p = q
    BY <2>1, <1>2 DEF WorkerInv
  <2>2. CASE p # q
    <3>1. worker'[p] = worker[p]
      BY <2>2 DEF WorkerInv
    <3> QED
      BY <3>1, <1>1 DEF WorkerInv
  <2> QED
    BY <2>1, <2>2
<1> QED
  BY <1>3, <1>4 DEF WorkerInv

(* and where none does, they are of their types.                             *)
LEMMA WorkerStays ==
  ASSUME Kept, WorkerInv, UNCHANGED worker
  PROVE  WorkerInv'
<1>1. \A p \in Queues : TaskBusy(p) \subseteq TaskBusy(p)'
  BY BusyStays
<1> QED
  BY <1>1 DEF WorkerInv

(* A handler that goes on is of its type too.                                *)
LEMMA RequestAdvances ==
  ASSUME Kept, RequestsInv, NEW r, NEW s \in TaskRequest,
         requests' \subseteq (requests \ {r}) \cup {s}
  PROVE  RequestsInv'
  BY RequestsStay DEF RequestsInv

(* And those that end do not matter.                                         *)
LEMMA RequestsLess ==
  ASSUME Kept, RequestsInv, requests' \subseteq requests
  PROVE  RequestsInv'
  BY RequestsStay DEF RequestsInv

-------------------------------------------------------------------------------
(***************************************************************************)
(* How notifications are written.                                          *)
(***************************************************************************)

(* A step that writes neither table keeps both.                              *)
LEMMA NothingWritten ==
  ASSUME NotesInv, CertificatesTypeOK, UNCHANGED <<notifications, certificates>>
  PROVE  Kept /\ NotesInv' /\ CertificatesTypeOK'
<1>1. Kept
  BY DEF Kept, Same
<1>2. NotesInv'
  BY DEF NotesInv, Noted, Traced, Roots, RootsOf
<1> QED
  BY <1>1, <1>2 DEF CertificatesTypeOK

(* One that is added is the last.                                            *)
LEMMA NoteAdded ==
  ASSUME NotesInv, NEW x \in Notification, Noted(x), UNCHANGED certificates,
         notifications' = Append(notifications, x)
  PROVE  /\ Kept /\ NotesInv'
         /\ DOMAIN notifications' = DOMAIN notifications \cup {Len(notifications) + 1}
         /\ \A n \in DOMAIN notifications :
              notifications'[n] = notifications[n] /\ n < Len(notifications) + 1
         /\ notifications'[Len(notifications) + 1] = x
<1>1. notifications \in Seq(Notification)
  BY DEF NotesInv
<1>2. /\ notifications' \in Seq(Notification)
      /\ Len(notifications') = Len(notifications) + 1
      /\ \A n \in 1..Len(notifications) : notifications'[n] = notifications[n]
      /\ notifications'[Len(notifications) + 1] = x
  BY <1>1, AppendProperties
<1>3. /\ Len(notifications) \in Nat
      /\ DOMAIN notifications = 1..Len(notifications)
      /\ DOMAIN notifications' = 1..Len(notifications')
  BY <1>1, <1>2, LenProperties
<1>4. /\ DOMAIN notifications' = DOMAIN notifications \cup {Len(notifications) + 1}
      /\ \A n \in DOMAIN notifications :
           notifications'[n] = notifications[n] /\ n < Len(notifications) + 1
  BY <1>2, <1>3
<1>5. Kept
  BY <1>4 DEF Kept, Same
<1>6. \A y : Noted(y) => Noted(y)'
  BY <1>5, NotedStays
<1>7. ASSUME NEW n \in DOMAIN notifications'
      PROVE  Noted(notifications[n])'
  BY <1>2, <1>4, <1>6 DEF NotesInv
<1> QED
  BY <1>2, <1>4, <1>5, <1>7 DEF NotesInv

(* A status that is written changes nothing else.                            *)
LEMMA StatusWritten ==
  ASSUME NotesInv, NEW n, NEW status \in NotificationStatus,
         SetStatus(n, status), UNCHANGED certificates
  PROVE  /\ Kept /\ NotesInv'
         /\ DOMAIN notifications' = DOMAIN notifications
         /\ \A m \in DOMAIN notifications :
              m # n => notifications'[m] = notifications[m]
         /\ n \in DOMAIN notifications => notifications'[n].status = status
<1>1. notifications \in Seq(Notification)
  BY DEF NotesInv
<1>2. DOMAIN notifications' = DOMAIN notifications
  BY DEF SetStatus
<1>3. CASE n \notin DOMAIN notifications
  <2>1. UNCHANGED notifications
    <3>1. notifications = [m \in DOMAIN notifications |-> notifications[m]]
      BY <1>1, LenProperties
    <3> QED
      BY <1>3, <3>1 DEF SetStatus
  <2> QED
    BY <1>3, <2>1, NothingWritten DEF NotesInv, Kept, Same, Noted, Traced, Roots,
                                     RootsOf
<1>4. CASE n \in DOMAIN notifications
  <2> DEFINE x == [notifications[n] EXCEPT !.status = status]
  <2>1. notifications[n] \in Notification /\ n \in 1..Len(notifications)
    BY <1>1, <1>4, LenProperties, ElementOfSeq
  <2>2. x \in Notification /\ Same(x, notifications[n])
        /\ x.entities = notifications[n].entities /\ x.status = status
    BY <2>1 DEF Notification, Same
  <2>3. notifications' = [notifications EXCEPT ![n] = x]
    BY DEF SetStatus
  <2> HIDE DEF x
  <2>4. /\ notifications' \in Seq(Notification)
        /\ \A m \in DOMAIN notifications :
             notifications'[m] = IF m = n THEN x ELSE notifications[m]
    BY <1>1, <2>1, <2>2, <2>3, ExceptSeq, LenProperties
  <2>5. Kept
    BY <1>2, <2>2, <2>4 DEF Kept, Same
  <2>6. \A y : Noted(y) => Noted(y)'
    BY <2>5, NotedStays
  <2>7. Noted(x)
    BY <1>4, <2>2 DEF NotesInv, Noted, Same, Traced
  <2>8. \A m \in DOMAIN notifications : Noted(notifications[m])'
    BY <2>4, <2>6, <2>7 DEF NotesInv
  <2> QED
    BY <1>2, <1>4, <2>2, <2>4, <2>5, <2>8 DEF NotesInv
<1> QED
  BY <1>3, <1>4

-------------------------------------------------------------------------------
(***************************************************************************)
(* The handlers keep TasksInv.                                             *)
(***************************************************************************)

(* What a step that keeps the tables and the queues has yet to keep.         *)
LEMMA TablesAlone ==
  ASSUME DocumentsTypeOK, UNCHANGED councilVars
  PROVE  DocumentsTypeOK'
  BY DEF DocumentsTypeOK, councilVars

(* A request has the fields of one,                                          *)
LEMMA RequestFields ==
  ASSUME RequestsInv, NEW r \in requests
  PROVE  /\ r \in Request /\ r \in TaskRequest
         /\ r.queue \in Queues /\ r.root \in RootsOf(r.queue) /\ r.root \in Roots
         /\ r.items \in Seq(About(r.queue)) /\ r.data \in Nat
         /\ r.retries \subseteq Child /\ \A x \in r.retries : Noted(x.row)
  BY DEF RequestsInv, TaskRequest, Request, RootsOf

(* and keeps them when it goes on.                                           *)
LEMMA RequestAt ==
  ASSUME RequestsInv, NEW r \in requests,
         NEW at \in {"prepare", "enqueue", "wait", "retried", "lost"}
  PROVE  [r EXCEPT !.at = at] \in TaskRequest
  BY DEF RequestsInv, TaskRequest, Request

(* The main notification of a task, which is in progress.                    *)
LEMMA StartTyped ==
  ASSUME NotesInv, RequestsInv, CertificatesTypeOK,
         NEW q \in Queues, NEW items \in Seq(About(q)),
         NEW retry \in RootsOf("certificate") \cup {0},
         Start(q, items, retry), UNCHANGED certificates
  PROVE  /\ Kept /\ NotesInv' /\ RequestsInv'
         /\ DOMAIN notifications' = DOMAIN notifications \cup {Len(notifications) + 1}
         /\ \A n \in DOMAIN notifications :
              notifications'[n] = notifications[n] /\ n < Len(notifications) + 1
         /\ notifications'[Len(notifications) + 1].parent = 0
         /\ notifications'[Len(notifications) + 1].kind = q
         /\ notifications'[Len(notifications) + 1].status = "IN_PROGRESS"
<1> DEFINE x == [kind |-> q, parent |-> 0, retry |-> retry, item |-> "none",
                 status |-> "IN_PROGRESS", entities |-> 0, carried |-> FALSE]
           s == [root |-> Len(notifications) + 1, queue |-> q, items |-> items,
                 data |-> 0, retries |-> {}, at |-> "prepare"]
<1>1. notifications \in Seq(Notification) /\ Len(notifications) \in Nat
  BY LenProperties DEF NotesInv
<1>2. retry \in Nat
  BY <1>1, LenProperties DEF Roots, RootsOf
<1>3. x \in Notification
  BY <1>2 DEF Notification, NotificationStatus
<1>4. Noted(x)
  BY DEF Noted, Traced
<1>5. notifications' = Append(notifications, x)
  BY DEF Start, Create
<1>6. /\ Kept /\ NotesInv'
      /\ DOMAIN notifications' = DOMAIN notifications \cup {Len(notifications) + 1}
      /\ \A n \in DOMAIN notifications :
           notifications'[n] = notifications[n] /\ n < Len(notifications) + 1
      /\ notifications'[Len(notifications) + 1] = x
  <2> HIDE DEF x
  <2> QED
    BY <1>3, <1>4, <1>5, NoteAdded
<1>7. s.root \in RootsOf(q)'
  BY <1>6 DEF Roots, RootsOf
<1>8. s \in Request
  <2>1. items \in Seq(Items)
    BY TheQueues, SeqMonotonic
  <2> QED
    BY <1>1, <2>1 DEF Request
<1>9. s \in TaskRequest'
  BY <1>7, <1>8 DEF TaskRequest
<1>10. RequestsInv'
  <2>1. requests' = requests \cup {s}
    BY DEF Start
  <2> HIDE DEF s
  <2> QED
    BY <1>6, <1>9, <2>1, RequestsStay DEF RequestsInv
<1> QED
  BY <1>6, <1>10

(* A task is started, or tried again.                                        *)
LEMMA StartedTask ==
  ASSUME TasksInv,
         NEW q \in Queues, NEW items \in Seq(About(q)),
         NEW retry \in RootsOf("certificate") \cup {0},
         Start(q, items, retry), UNCHANGED certificates, DocumentsTypeOK'
  PROVE  TasksInv'
<1>1. Kept /\ NotesInv' /\ RequestsInv'
  BY StartTyped DEF TasksInv
<1>2. UNCHANGED <<waiting, worker, stops>>
  BY DEF Start
<1> QED
  BY <1>1, <1>2, WaitingStays, WorkerStays DEF TasksInv, CertificatesTypeOK

(* One job per item is added to the queue.                                   *)
LEMMA EnqueueTyped ==
  ASSUME TasksInv, NEW r \in requests, Enqueue(r),
         UNCHANGED <<councilVars, loadVars>>
  PROVE  TasksInv'
<1> DEFINE job(i) == [root |-> r.root, item |-> r.items[i], data |-> r.data,
                      retries |-> r.retries, again |-> FALSE]
           added == [i \in DOMAIN r.items |-> job(i)]
<1> USE DEF TasksInv
<1>1. UNCHANGED <<notifications, certificates, worker, stops>>
  BY DEF Enqueue, loadVars
<1>2. Kept /\ NotesInv' /\ CertificatesTypeOK'
  BY <1>1, NothingWritten
<1>3. RequestsInv'
  BY <1>2, RequestAt, RequestAdvances DEF Enqueue, Advance
<1>4. added \in Seq(TaskJob(r.queue)) /\ added \in Seq(Job)
  <2>1. /\ Len(r.items) \in Nat /\ DOMAIN r.items = 1..Len(r.items)
        /\ \A i \in 1..Len(r.items) : r.items[i] \in About(r.queue)
    BY RequestFields, LenProperties, ElementOfSeq
  <2>2. ASSUME NEW i \in 1..Len(r.items)
        PROVE  job(i) \in TaskJob(r.queue)
    <3>1. r.items[i] \in Items
      BY <2>1, TheQueues, RequestFields
    <3>2. r.root \in Nat
      BY RequestFields DEF Request
    <3>3. job(i) \in Job
      BY <3>1, <3>2, RequestFields DEF Job
    <3> QED
      BY <2>1, <3>3, RequestFields DEF TaskJob
  <2>3. added \in [1..Len(r.items) -> TaskJob(r.queue)]
    BY <2>1, <2>2
  <2>4. added \in Seq(TaskJob(r.queue))
    <3> HIDE DEF added
    <3> QED
      BY <2>1, <2>3, SeqDef
  <2>5. TaskJob(r.queue) \subseteq Job
    BY DEF TaskJob
  <2> HIDE DEF added
  <2> QED
    BY <2>4, <2>5, SeqMonotonic
<1>5. waiting' = [waiting EXCEPT ![r.queue] = @ \o added]
  BY DEF Enqueue
<1>6. WaitingInv'
  <2> HIDE DEF added
  <2>1. /\ waiting[r.queue] \o added \in Seq(TaskJob(r.queue))
        /\ waiting[r.queue] \o added \in Seq(Job)
    BY <1>4, RequestFields, ConcatProperties DEF WaitingInv
  <2>2. waiting' \in [Queues -> Seq(Job)]
    BY <1>5, <2>1, RequestFields DEF WaitingInv
  <2>3. ASSUME NEW q \in Queues
        PROVE  waiting'[q] \in Seq(TaskJob(q)')
    <3>1. waiting'[q] \in Seq(TaskJob(q))
      BY <1>5, <2>1, RequestFields DEF WaitingInv
    <3>2. TaskJob(q) \subseteq TaskJob(q)'
      BY <1>2, JobsStay
    <3> QED
      BY <3>1, <3>2, SeqMonotonic
  <2> QED
    BY <2>2, <2>3 DEF WaitingInv
<1>7. WorkerInv'
  BY <1>1, <1>2, WorkerStays
<1> QED
  BY <1>1, <1>2, <1>3, <1>6, <1>7, TablesAlone

(* A task that was started gets its last status ...                          *)
LEMMA FinishTyped ==
  ASSUME TasksInv, NEW r \in requests, Finish(r),
         UNCHANGED <<councilVars, loadVars>>
  PROVE  TasksInv'
<1> USE DEF TasksInv
<1>1. UNCHANGED <<certificates, waiting, worker, stops>>
  BY DEF Finish, loadVars
<1>2. LastStatus(r) \in NotificationStatus
  BY DEF LastStatus, NotificationStatus
<1>3. Kept /\ NotesInv'
  BY <1>1, <1>2, StatusWritten DEF Finish
<1>4. RequestsInv'
  BY <1>3, RequestAt, RequestAdvances, RequestsLess DEF Finish, Advance
<1> QED
  BY <1>1, <1>3, <1>4, WaitingStays, WorkerStays, TablesAlone DEF CertificatesTypeOK

(* ... and so does the one that it tried again.                              *)
LEMMA MarkRetriedTyped ==
  ASSUME TasksInv, NEW r \in requests, MarkRetried(r),
         UNCHANGED <<councilVars, loadVars>>
  PROVE  TasksInv'
<1> USE DEF TasksInv
<1>1. UNCHANGED <<certificates, waiting, worker, stops>>
  BY DEF MarkRetried, loadVars
<1>2. "COMPLETED" \in NotificationStatus
  BY DEF NotificationStatus
<1>3. Kept /\ NotesInv'
  BY <1>1, <1>2, StatusWritten DEF MarkRetried
<1>4. RequestsInv'
  BY <1>3, RequestsLess DEF MarkRetried
<1> QED
  BY <1>1, <1>3, <1>4, WaitingStays, WorkerStays, TablesAlone DEF CertificatesTypeOK

(* The documents in some order.                                              *)
LEMMA SequenceOfDocs ==
  ASSUME NEW S \in SUBSET Docs
  PROVE  /\ SetToSeq(S) \in [1..Cardinality(S) -> S]
         /\ Cardinality(S) \in Nat /\ SetToSeq(S) \in Seq(Docs)
         /\ Len(SetToSeq(S)) = Cardinality(S)
         /\ IsInjective(SetToSeq(S))
<1>1. IsFiniteSet(S)
  BY RegenerationAssumption, FS_Subset
<1>2. Cardinality(S) \in Nat /\ ExistsBijection(1..Cardinality(S), S)
  BY <1>1, FS_CardinalityType
<1>3. \E f \in [1..Cardinality(S) -> S] : IsInjective(f)
  BY <1>2 DEF ExistsBijection, Bijection, Injection
<1>4. SetToSeq(S) \in [1..Cardinality(S) -> S] /\ IsInjective(SetToSeq(S))
  BY <1>3 DEF SetToSeq
<1>5. SetToSeq(S) \in Seq(Docs)
  <2>1. SetToSeq(S) \in [1..Cardinality(S) -> Docs]
    BY <1>4
  <2> QED
    BY <1>2, <2>1, SeqDef
<1>6. Len(SetToSeq(S)) = Cardinality(S)
  BY <1>2, <1>4, <1>5, LenProperties
<1> QED
  BY <1>2, <1>4, <1>5, <1>6

(* The documents of the council are read.                                    *)
LEMMA ReadDocumentsTyped ==
  ASSUME TasksInv, NEW r \in requests, ReadDocuments(r), UNCHANGED loadVars
  PROVE  TasksInv'
<1> DEFINE docs == SetToSeq(DOMAIN documents)
           s == [r EXCEPT !.items = docs, !.data = council.version,
                          !.at = "enqueue"]
<1> USE DEF TasksInv
<1>1. UNCHANGED <<notifications, certificates, waiting, worker, stops>>
  BY DEF ReadDocuments, loadVars
<1>2. Kept /\ NotesInv' /\ CertificatesTypeOK'
  BY <1>1, NothingWritten
<1>3. docs \in Seq(Docs) /\ docs \in Seq(Items)
  BY SequenceOfDocs, SeqMonotonic, RegenerationAssumption DEF DocumentsTypeOK
<1>4. council.version \in Nat
  BY DEF DocumentsTypeOK
<1>5. s \in TaskRequest
  <2> HIDE DEF docs
  <2>1. r.queue = "document"
    BY DEF ReadDocuments
  <2>2. s \in Request /\ s.items = docs /\ s.queue = "document"
        /\ s.root = r.root /\ s.retries = r.retries
    BY <1>3, <1>4, <2>1, RequestFields DEF Request
  <2> HIDE DEF s
  <2> QED
    BY <1>3, <2>1, <2>2, RequestFields, TheQueues DEF TaskRequest
<1>6. RequestsInv'
  <2>1. requests' = (requests \ {r}) \cup {s}
    BY DEF ReadDocuments, Advance
  <2> HIDE DEF s
  <2> QED
    BY <1>2, <1>5, <2>1, RequestAdvances
<1>7. DocumentsTypeOK'
  <2>1. r.root \in Nat
    BY RequestFields DEF Request
  <2>2. [root |-> r.root, version |-> council.version] \in Reading
    BY <1>4, <2>1 DEF Reading
  <2>3. council' \in [version : Nat, called : Nat, read : SUBSET Reading]
    BY <2>2 DEF ReadDocuments, DocumentsTypeOK
  <2> QED
    BY <2>3 DEF ReadDocuments, DocumentsTypeOK
<1> QED
  BY <1>1, <1>2, <1>6, <1>7, WaitingStays, WorkerStays DEF ReadDocuments

(* There are none: the task is over, with a child that says so.              *)
LEMMA NoDocumentsWritten ==
  ASSUME NotesInv, RequestsInv, NEW r \in requests, NoDocuments(r),
         UNCHANGED certificates
  PROVE  /\ Kept /\ NotesInv'
         /\ DOMAIN notifications' = DOMAIN notifications \cup {Len(notifications) + 1}
         /\ \A n \in DOMAIN notifications :
              n # r.root => notifications'[n] = notifications[n]
         /\ \A n \in DOMAIN notifications : n < Len(notifications) + 1
         /\ notifications'[Len(notifications) + 1].item = "none"
         /\ notifications'[Len(notifications) + 1].parent = r.root
<1> DEFINE old == notifications[r.root]
           root == [old EXCEPT !.status = "COMPLETED"]
           child == [root EXCEPT !.parent = r.root]
           mid == [notifications EXCEPT ![r.root] = root]
<1>1. notifications \in Seq(Notification) /\ Len(notifications) \in Nat
      /\ DOMAIN notifications = 1..Len(notifications)
  BY LenProperties DEF NotesInv
<1>2. r.root \in 1..Len(notifications) /\ old.parent = 0 /\ r.root \in Nat
  BY <1>1, RequestFields DEF Roots
<1>3. old \in Notification /\ Noted(old)
  BY <1>1, <1>2, ElementOfSeq DEF NotesInv
<1>4. /\ root \in Notification /\ Same(root, old) /\ root.entities = old.entities
  BY <1>3 DEF Notification, NotificationStatus, Same
<1>5. /\ child \in Notification /\ child.parent = r.root /\ child.item = old.item
      /\ child.entities = old.entities /\ child.retry = old.retry
  BY <1>2, <1>4 DEF Notification, Same
<1>6. Noted(child) /\ child.item = "none"
  BY <1>2, <1>3, <1>5, RequestFields DEF Noted, Traced
<1>7. notifications' = Append(mid, child)
  BY DEF NoDocuments
<1> HIDE DEF child, root
<1>8. /\ mid \in Seq(Notification) /\ Len(mid) = Len(notifications)
      /\ \A n \in 1..Len(notifications) :
           mid[n] = IF n = r.root THEN root ELSE notifications[n]
  BY <1>1, <1>2, <1>4, ExceptSeq
<1> HIDE DEF mid
<1>9. /\ notifications' \in Seq(Notification)
      /\ Len(notifications') = Len(notifications) + 1
      /\ \A n \in 1..Len(notifications) : notifications'[n] = mid[n]
      /\ notifications'[Len(notifications) + 1] = child
  BY <1>5, <1>7, <1>8, AppendProperties
<1>10. /\ DOMAIN notifications' = DOMAIN notifications \cup {Len(notifications) + 1}
       /\ \A n \in DOMAIN notifications : n < Len(notifications) + 1
  BY <1>1, <1>9, LenProperties
<1>11. Kept
  BY <1>1, <1>4, <1>8, <1>9, <1>10 DEF Kept, Same
<1>12. \A y : Noted(y) => Noted(y)'
  BY <1>11, NotedStays
<1>13. Noted(root)
  BY <1>2, <1>3, <1>4 DEF Noted, Traced, Same
<1>14. ASSUME NEW n \in DOMAIN notifications'
       PROVE  Noted(notifications[n])'
  <2>1. CASE n = Len(notifications) + 1
    BY <1>6, <1>9, <1>12, <2>1
  <2>2. CASE n \in DOMAIN notifications /\ n = r.root
    BY <1>1, <1>8, <1>9, <1>12, <1>13, <2>2
  <2>3. CASE n \in DOMAIN notifications /\ n # r.root
    <3>1. notifications'[n] = notifications[n]
      BY <1>1, <1>8, <1>9, <2>3
    <3> QED
      BY <1>12, <2>3, <3>1 DEF NotesInv
  <2> QED
    BY <1>10, <2>1, <2>2, <2>3
<1>15. NotesInv'
  BY <1>9, <1>14 DEF NotesInv
<1> QED
  BY <1>1, <1>5, <1>6, <1>8, <1>9, <1>10, <1>11, <1>15

(* A council without documents ends its request.                             *)
LEMMA NoDocumentsTyped ==
  ASSUME TasksInv, NEW r \in requests, NoDocuments(r), UNCHANGED loadVars
  PROVE  TasksInv'
<1> USE DEF TasksInv
<1>1. UNCHANGED <<certificates, waiting, worker, stops, councilVars>>
      /\ requests' \subseteq requests
  BY DEF NoDocuments, loadVars
<1>2. Kept /\ NotesInv'
  BY <1>1, NoDocumentsWritten
<1> QED
  BY <1>1, <1>2, RequestsLess, WaitingStays, WorkerStays, TablesAlone
  DEF CertificatesTypeOK

(* The children of the load that is tried again are read.                    *)
LEMMA ReadRetriedTyped ==
  ASSUME TasksInv, NEW r \in requests, ReadRetried(r), UNCHANGED councilVars
  PROVE  TasksInv'
<1> DEFINE retry == notifications[r.root].retry
           found == IF retry = 0 THEN {} ELSE NotificationsByParent(retry)
           s == [r EXCEPT !.at = "enqueue", !.retries = found]
<1> USE DEF TasksInv
<1>1. UNCHANGED <<notifications, certificates, waiting, worker, stops>>
  BY DEF ReadRetried, loadVars
<1>2. Kept /\ NotesInv' /\ CertificatesTypeOK'
  BY <1>1, NothingWritten
<1>3. found \subseteq Child /\ \A x \in found : Noted(x.row)
  <2>1. ASSUME NEW k \in DOMAIN notifications
        PROVE  /\ k \in Nat /\ notifications[k] \in Notification
               /\ Noted(notifications[k])
    BY LenProperties, ElementOfSeq DEF NotesInv
  <2> QED
    BY <2>1 DEF NotificationsByParent, Child
<1>4. s \in TaskRequest
  <2> HIDE DEF found
  <2>1. s \in Request /\ s.items = r.items /\ s.queue = r.queue
        /\ s.root = r.root /\ s.retries = found
    BY <1>3, RequestFields DEF Request
  <2> HIDE DEF s
  <2> QED
    BY <1>3, <2>1, RequestFields DEF TaskRequest
<1>5. RequestsInv'
  <2>1. requests' = (requests \ {r}) \cup {s}
    BY DEF ReadRetried, Advance
  <2> HIDE DEF s
  <2> QED
    BY <1>2, <1>4, <2>1, RequestAdvances
<1> QED
  BY <1>1, <1>2, <1>5, WaitingStays, WorkerStays, TablesAlone DEF ReadRetried

-------------------------------------------------------------------------------
(***************************************************************************)
(* The processors, the requests and a restart keep TasksInv.               *)
(***************************************************************************)
Steps == {"start", "copy", "fill", "save", "complete", "fail", "overwrite",
          "previous", "validate", "certificate", "sheet", "cells",
          "clear", "members", "finish"}

(* A processor that is not free has the fields of one.                       *)
LEMMA BusyFields ==
  ASSUME WorkerInv, NEW q \in Queues, worker[q] # Free
  PROVE  LET w == worker[q] IN
         /\ w \in TaskBusy(q) /\ w.at \in Steps
         /\ w.job \in TaskJob(q) /\ w.job \in Job /\ w.job.item \in About(q)
         /\ w.job.root \in RootsOf(q) /\ w.job.root \in Roots /\ w.job.data \in Nat
         /\ w.job.retries \subseteq Child
         /\ \A x \in w.job.retries : Noted(x.row)
         /\ w.child \in Nat /\ w.entity \in Nat /\ w.errors \in BOOLEAN
  BY DEF WorkerInv, TaskBusy, Busy, TaskJob, Job, Steps, RootsOf

(* One that goes on to another step keeps the rest.                          *)
LEMMA WorkerAt ==
  ASSUME Kept, WorkerInv, NEW q \in Queues, worker[q] # Free, NEW to \in Steps,
         Goes(q, to)
  PROVE  /\ WorkerInv' /\ worker'[q].at = to
         /\ worker'[q].job = worker[q].job
         /\ worker'[q].child = worker[q].child
         /\ worker'[q].entity = worker[q].entity
         /\ worker'[q].errors = worker[q].errors
         /\ \A p \in Queues : p # q => worker'[p] = worker[p]
<1> DEFINE w == [worker[q] EXCEPT !.at = to]
<1>1. /\ w \in TaskBusy(q) /\ w.at = to /\ w.job = worker[q].job
      /\ w.child = worker[q].child /\ w.entity = worker[q].entity
      /\ w.errors = worker[q].errors
  BY BusyFields DEF TaskBusy, Busy, Steps
<1>2. worker' = [worker EXCEPT ![q] = w]
  BY DEF Goes
<1> HIDE DEF w
<1>3. WorkerInv'
  BY <1>1, <1>2, WorkerGoes
<1>4. worker'[q] = w /\ \A p \in Queues : p # q => worker'[p] = worker[p]
  BY <1>2 DEF WorkerInv
<1> QED
  BY <1>1, <1>3, <1>4

(* One that ends is free.                                                    *)
LEMMA WorkerReleased ==
  ASSUME Kept, WorkerInv, NEW q \in Queues, Release(q)
  PROVE  /\ WorkerInv' /\ worker'[q] = Free
         /\ \A p \in Queues : p # q => worker'[p] = worker[p]
  BY WorkerGoes DEF Release, WorkerInv

(* A job is taken from its queue.                                            *)
LEMMA TakeTyped ==
  ASSUME TasksInv, NEW q \in Queues, Take(q), UNCHANGED <<councilVars, loadVars>>
  PROVE  /\ TasksInv' /\ worker'[q].at = "start"
         /\ \A p \in Queues : p # q => worker'[p] = worker[p]
<1> DEFINE job == Head(waiting[q])
           w == [at |-> "start", job |-> job, child |-> 0, entity |-> 0,
                 errors |-> FALSE]
<1> USE DEF TasksInv
<1>1. UNCHANGED <<notifications, certificates, requests, stops>>
  BY DEF Take, loadVars
<1>2. Kept /\ NotesInv' /\ CertificatesTypeOK'
  BY <1>1, NothingWritten
<1>3. waiting[q] \in Seq(TaskJob(q)) /\ waiting[q] # <<>>
  BY DEF Take, WaitingInv
<1>4. job \in TaskJob(q) /\ Tail(waiting[q]) \in Seq(TaskJob(q))
  BY <1>3, HeadTailProperties
<1>5. w \in TaskBusy(q)
  BY <1>4 DEF TaskBusy, Busy, TaskJob
<1>6. worker' = [worker EXCEPT ![q] = w]
  BY DEF Take
<1>7. WorkerInv'
  <2> HIDE DEF w
  <2> QED
    BY <1>2, <1>5, <1>6, WorkerGoes
<1>8. WaitingInv'
  <2>1. waiting' = [waiting EXCEPT ![q] = Tail(waiting[q])]
    BY DEF Take
  <2>2. waiting' \in [Queues -> Seq(Job)]
    <3>1. Tail(waiting[q]) \in Seq(Job)
      <4>1. TaskJob(q) \subseteq Job
        BY DEF TaskJob
      <4> QED
        BY <1>4, <4>1, SeqMonotonic
    <3> QED
      BY <2>1, <3>1 DEF WaitingInv
  <2>3. ASSUME NEW p \in Queues
        PROVE  waiting'[p] \in Seq(TaskJob(p)')
    <3>1. waiting'[p] \in Seq(TaskJob(p))
      BY <1>4, <2>1 DEF WaitingInv
    <3> QED
      BY <1>2, <3>1, JobsStay, SeqMonotonic
  <2> QED
    BY <2>2, <2>3 DEF WaitingInv
<1>9. worker'[q] = w /\ \A p \in Queues : p # q => worker'[p] = worker[p]
  BY <1>6 DEF WorkerInv
<1> QED
  BY <1>1, <1>2, <1>7, <1>8, <1>9, RequestsLess, TablesAlone

(* A stalled job waits again.                                                *)
LEMMA RecoverTyped ==
  ASSUME TasksInv, StalledInv, NEW q \in Queues, Recover(q),
         UNCHANGED <<councilVars, loadVars>>
  PROVE  TasksInv' /\ StalledInv' /\ Kept
<1> DEFINE job == Head(stalled[q])
<1> USE DEF TasksInv
<1>1. UNCHANGED <<notifications, certificates, worker, requests, stops>>
  BY DEF Recover, loadVars
<1>2. Kept /\ NotesInv' /\ CertificatesTypeOK'
  BY <1>1, NothingWritten
<1>3. stalled[q] \in Seq(TaskJob(q)) /\ stalled[q] # <<>>
      /\ waiting[q] \in Seq(TaskJob(q)) /\ TaskJob(q) \subseteq Job
  BY DEF Recover, WaitingInv, StalledInv, TaskJob
<1>4. job \in TaskJob(q) /\ Tail(stalled[q]) \in Seq(TaskJob(q))
  BY <1>3, HeadTailProperties
<1>5. <<job>> \o waiting[q] \in Seq(TaskJob(q))
  <2> HIDE DEF job
  <2>1. <<job>> \in Seq(TaskJob(q))
    BY <1>4
  <2> QED
    BY <1>3, <2>1, ConcatProperties
<1>6. /\ waiting' = [waiting EXCEPT ![q] = <<job>> \o waiting[q]]
      /\ stalled' = [stalled EXCEPT ![q] = Tail(stalled[q])]
  BY DEF Recover
<1> HIDE DEF job
<1>7. WaitingInv'
  <2>1. waiting' \in [Queues -> Seq(Job)]
    BY <1>3, <1>5, <1>6, SeqMonotonic DEF WaitingInv
  <2>2. ASSUME NEW p \in Queues
        PROVE  waiting'[p] \in Seq(TaskJob(p)')
    <3>1. waiting'[p] \in Seq(TaskJob(p))
      BY <1>5, <1>6 DEF WaitingInv
    <3> QED
      BY <1>2, <3>1, JobsStay, SeqMonotonic
  <2> QED
    BY <2>1, <2>2 DEF WaitingInv
<1>8. StalledInv'
  <2>1. stalled' \in [Queues -> Seq(Job)]
    BY <1>3, <1>4, <1>6, SeqMonotonic DEF StalledInv
  <2>2. ASSUME NEW p \in Queues
        PROVE  stalled'[p] \in Seq(TaskJob(p)')
    <3>1. stalled'[p] \in Seq(TaskJob(p))
      BY <1>4, <1>6 DEF StalledInv
    <3> QED
      BY <1>2, <3>1, JobsStay, SeqMonotonic
  <2> QED
    BY <2>1, <2>2 DEF StalledInv
<1> QED
  BY <1>1, <1>2, <1>7, <1>8, WorkerStays, RequestsLess, TablesAlone

(* The process stops: the handlers are lost, and the job of each queue is    *)
(* stalled unless it was so before.                                          *)
LEMMA RestartTyped ==
  ASSUME TasksInv, StalledInv, Restart
  PROVE  /\ TasksInv' /\ StalledInv'
         /\ \A q \in Queues : worker'[q] = Free
<1> USE DEF TasksInv, StalledInv
<1>1. UNCHANGED <<notifications, certificates, waiting>>
  BY DEF Restart, Stop, loadVars
<1>2. Kept /\ NotesInv' /\ CertificatesTypeOK'
  BY <1>1, NothingWritten
<1>3. stops' \in 0..MaxStops
  BY JobsAssumption DEF Restart, Stop
<1>4. worker' = [q \in Queues |-> Free]
  BY DEF Restart, Stop
<1>5. WorkerInv'
  BY <1>4 DEF WorkerInv
<1>6. RequestsInv'
  <2>1. ASSUME NEW r \in requests
        PROVE  [r EXCEPT !.at = "lost"] \in TaskRequest'
    BY <1>2, RequestAt, RequestsStay
  <2> QED
    BY <2>1 DEF RequestsInv, Restart, Stop
<1>7. ASSUME NEW q \in Queues
      PROVE  /\ stalled'[q] \in Seq(TaskJob(q))
             /\ stalled'[q] \in Seq(Job)
  <2>1. TaskJob(q) \subseteq Job
    BY DEF TaskJob
  <2>2. stalled[q] \in Seq(TaskJob(q))
    OBVIOUS
  <2>3. stalled'[q] = IF worker[q] = Free \/ worker[q].job.again THEN stalled[q]
                      ELSE Append(stalled[q], [worker[q].job EXCEPT !.again = TRUE])
    BY DEF Restart, Stop
  <2>4. CASE worker[q] = Free \/ worker[q].job.again
    BY <2>1, <2>2, <2>3, <2>4, SeqMonotonic
  <2>5. CASE ~(worker[q] = Free \/ worker[q].job.again)
    <3> DEFINE job == [worker[q].job EXCEPT !.again = TRUE]
    <3>1. job \in TaskJob(q)
      BY <2>5, BusyFields DEF TaskJob, Job
    <3> HIDE DEF job
    <3>3. Append(stalled[q], job) \in Seq(TaskJob(q))
      BY <2>2, <3>1, AppendProperties
    <3>4. stalled'[q] = Append(stalled[q], job)
      BY <2>3, <2>5 DEF job
    <3> QED
      BY <2>1, <3>3, <3>4, SeqMonotonic
  <2> QED
    BY <2>4, <2>5
<1>8. StalledInv'
  <2>1. DOMAIN stalled' = Queues /\ stalled' = [q \in Queues |-> stalled'[q]]
    BY DEF Restart, Stop
  <2>2. stalled' \in [Queues -> Seq(Job)]
    BY <1>7, <2>1
  <2>3. \A q \in Queues : stalled'[q] \in Seq(TaskJob(q)')
    BY <1>2, <1>7, JobsStay, SeqMonotonic
  <2> QED
    BY <2>2, <2>3
<1>9. DocumentsTypeOK'
  <2>1. council' \in [version : Nat, called : Nat, read : SUBSET Reading]
    BY DEF Restart, StopRegeneration, DocumentsTypeOK
  <2>2. removals' = {} /\ UNCHANGED <<documents, files, nextFile>>
    BY DEF Restart, StopRegeneration
  <2> QED
    BY <2>1, <2>2 DEF DocumentsTypeOK
<1> QED
  BY <1>1, <1>2, <1>3, <1>4, <1>5, <1>6, <1>8, <1>9, WaitingStays

(* The council's documents are typed after every request,                    *)
LEMMA CouncilRequestsTyped ==
  ASSUME TasksInv, CouncilRequests, UNCHANGED loadVars
  PROVE  TasksInv'
<1> USE DEF TasksInv
<1>1. CASE StartRegeneration
  <2>1. DocumentsTypeOK'
    <3>1. council' \in [version : Nat, called : Nat, read : SUBSET Reading]
      BY <1>1 DEF StartRegeneration, DocumentsTypeOK
    <3> QED
      BY <1>1, <3>1 DEF StartRegeneration, DocumentsTypeOK
  <2>2. <<>> \in Seq(About("document"))
    BY EmptySeq
  <2> QED
    BY <1>1, <2>1, <2>2, StartedTask, TheQueues DEF StartRegeneration, loadVars
<1>2. ASSUME UNCHANGED jobVars, DocumentsTypeOK'
      PROVE  TasksInv'
  <2>1. UNCHANGED <<notifications, certificates, waiting, worker, requests, stops>>
    BY <1>2 DEF jobVars, loadVars
  <2>2. Kept /\ NotesInv' /\ CertificatesTypeOK'
    BY <2>1, NothingWritten
  <2> QED
    BY <1>2, <2>1, <2>2, RequestsLess, WaitingStays, WorkerStays
<1>3. CASE UpdateCouncil \/ UpdateQuietly
  <2>1. council' \in [version : Nat, called : Nat, read : SUBSET Reading]
    <3>1. council \in [version : Nat, called : Nat, read : SUBSET Reading]
      BY DEF DocumentsTypeOK
    <3>2. council.version + 1 \in Nat /\ council.called + 1 \in Nat
      BY <3>1
    <3> QED
      BY <1>3, <3>1, <3>2 DEF UpdateCouncil, UpdateQuietly
  <2>2. DocumentsTypeOK'
    BY <1>3, <2>1 DEF UpdateCouncil, UpdateQuietly, DocumentsTypeOK
  <2> QED
    BY <1>2, <1>3, <2>2 DEF UpdateCouncil, UpdateQuietly
<1>4. ASSUME NEW d \in DOMAIN documents, BeginRemoval(d)
      PROVE  TasksInv'
  <2>1. documents[d].file \in Nat /\ d \in Docs
    BY DEF DocumentsTypeOK, Doc
  <2>2. DocumentsTypeOK'
    BY <1>4, <2>1 DEF BeginRemoval, DocumentsTypeOK
  <2> QED
    BY <1>2, <1>4, <2>2 DEF BeginRemoval
<1>5. ASSUME NEW x \in removals, DeleteFile(x)
      PROVE  TasksInv'
  <2>1. [x EXCEPT !.at = "delete"] \in
          [doc : Docs, file : Nat, at : {"unlink", "delete"}]
    BY DEF DocumentsTypeOK
  <2>2. files' \subseteq files
        /\ removals' \subseteq removals \cup {[x EXCEPT !.at = "delete"]}
        /\ UNCHANGED <<council, documents, nextFile>>
    BY <1>5 DEF DeleteFile
  <2>3. DocumentsTypeOK'
    BY <2>1, <2>2 DEF DocumentsTypeOK
  <2> QED
    BY <1>2, <1>5, <2>3 DEF DeleteFile
<1>6. ASSUME NEW x \in removals, DeleteRow(x)
      PROVE  TasksInv'
  <2>1. /\ DOMAIN documents' = DOMAIN documents \ {x.doc}
        /\ \A d \in DOMAIN documents' : documents'[d] = documents[d]
    BY <1>6 DEF DeleteRow, Restrict
  <2>2. removals' \subseteq removals /\ UNCHANGED <<council, files, nextFile>>
    BY <1>6 DEF DeleteRow
  <2>3. DocumentsTypeOK'
    BY <2>1, <2>2 DEF DocumentsTypeOK
  <2> QED
    BY <1>2, <1>6, <2>3 DEF DeleteRow
<1> QED
  BY <1>1, <1>3, <1>4, <1>5, <1>6 DEF CouncilRequests

(* and a load starts from a sheet of students.                               *)
LEMMA LoadRequestsTyped ==
  ASSUME TasksInv, LoadRequests, UNCHANGED councilVars
  PROVE  TasksInv'
<1>1. PICK sheet \in Sheets :
        StartLoad(sheet) \/ \E n \in Roots : RetryLoad(n, sheet)
  BY DEF LoadRequests
<1>2. sheet \in Seq(About("certificate"))
  BY BulkLoadAssumption, TheQueues
<1>3. DocumentsTypeOK'
  BY TablesAlone DEF TasksInv
<1>4. \E retry \in RootsOf("certificate") \cup {0} :
        Start("certificate", sheet, retry) /\ UNCHANGED certificates
  BY <1>1 DEF StartLoad, RetryLoad, RootsOf, loadVars
<1> QED
  BY <1>2, <1>3, <1>4, StartedTask, TheQueues

(* A new child of the job that a processor runs.                             *)
LEMMA ChildCreated ==
  ASSUME NotesInv, WorkerInv, NEW q \in Queues, worker[q] # Free,
         Create(q, worker[q].job.root, 0, worker[q].job.item, "IN_PROGRESS"),
         UNCHANGED certificates
  PROVE  /\ Kept /\ NotesInv' /\ Len(notifications) + 1 \in Nat
         /\ DOMAIN notifications' = DOMAIN notifications \cup {Len(notifications) + 1}
         /\ \A n \in DOMAIN notifications :
              notifications'[n] = notifications[n] /\ n < Len(notifications) + 1
         /\ notifications'[Len(notifications) + 1] =
              [kind |-> q, parent |-> worker[q].job.root, retry |-> 0,
               item |-> worker[q].job.item, status |-> "IN_PROGRESS",
               entities |-> 0, carried |-> FALSE]
         /\ worker[q].job.root # 0
<1> DEFINE x == [kind |-> q, parent |-> worker[q].job.root, retry |-> 0,
                 item |-> worker[q].job.item, status |-> "IN_PROGRESS",
                 entities |-> 0, carried |-> FALSE]
<1>1. worker[q].job.root \in Roots /\ worker[q].job.item \in Items
  BY BusyFields DEF Job
<1>2. worker[q].job.root \in Nat \ {0} /\ Len(notifications) \in Nat
  BY <1>1, LenProperties DEF NotesInv, Roots
<1>3. x \in Notification /\ Noted(x)
  BY <1>1, <1>2 DEF Notification, NotificationStatus, Noted, Traced
<1>4. notifications' = Append(notifications, x)
  BY DEF Create
<1> HIDE DEF x
<1>5. /\ Kept /\ NotesInv'
      /\ DOMAIN notifications' = DOMAIN notifications \cup {Len(notifications) + 1}
      /\ \A n \in DOMAIN notifications :
           notifications'[n] = notifications[n] /\ n < Len(notifications) + 1
      /\ notifications'[Len(notifications) + 1] = x
  BY <1>3, <1>4, NoteAdded
<1> QED
  BY <1>2, <1>5 DEF x

WithChild(q, to, child) ==
  worker' = [worker EXCEPT ![q].at = to, ![q].child = child]

(* The processor goes on with the child it created,                          *)
LEMMA WorkerOfChild ==
  ASSUME Kept, WorkerInv, NEW q \in Queues, worker[q] # Free,
         NEW to \in Steps, NEW child \in Nat, WithChild(q, to, child)
  PROVE  /\ WorkerInv' /\ worker'[q].at = to /\ worker'[q].child = child
         /\ worker'[q].job = worker[q].job
         /\ worker'[q].entity = worker[q].entity
         /\ worker'[q].errors = worker[q].errors
         /\ \A p \in Queues : p # q => worker'[p] = worker[p]
<1> DEFINE w == [worker[q] EXCEPT !.at = to, !.child = child]
<1>1. /\ w \in TaskBusy(q) /\ w.at = to /\ w.job = worker[q].job
      /\ w.child = child /\ w.entity = worker[q].entity
      /\ w.errors = worker[q].errors
  BY BusyFields DEF TaskBusy, Busy, Steps
<1>2. worker' = [worker EXCEPT ![q] = w]
  BY DEF WorkerInv, WithChild
<1> HIDE DEF w
<1>3. WorkerInv'
  BY <1>1, <1>2, WorkerGoes
<1>4. worker'[q] = w /\ \A p \in Queues : p # q => worker'[p] = worker[p]
  BY <1>2 DEF WorkerInv
<1> QED
  BY <1>1, <1>3, <1>4

WithEntity(q, to, entity) ==
  worker' = [worker EXCEPT ![q].at = to, ![q].entity = entity]

(* with the file or the certificate that it made or found,                   *)
LEMMA WorkerOfEntity ==
  ASSUME Kept, WorkerInv, NEW q \in Queues, worker[q] # Free,
         NEW to \in Steps, NEW entity \in Nat, WithEntity(q, to, entity)
  PROVE  /\ WorkerInv' /\ worker'[q].at = to /\ worker'[q].entity = entity
         /\ worker'[q].job = worker[q].job
         /\ worker'[q].child = worker[q].child
         /\ worker'[q].errors = worker[q].errors
         /\ \A p \in Queues : p # q => worker'[p] = worker[p]
<1> DEFINE w == [worker[q] EXCEPT !.at = to, !.entity = entity]
<1>1. /\ w \in TaskBusy(q) /\ w.at = to /\ w.job = worker[q].job
      /\ w.entity = entity /\ w.child = worker[q].child
      /\ w.errors = worker[q].errors
  BY BusyFields DEF TaskBusy, Busy, Steps
<1>2. worker' = [worker EXCEPT ![q] = w]
  BY DEF WorkerInv, WithEntity
<1> HIDE DEF w
<1>3. WorkerInv'
  BY <1>1, <1>2, WorkerGoes
<1>4. worker'[q] = w /\ \A p \in Queues : p # q => worker'[p] = worker[p]
  BY <1>2 DEF WorkerInv
<1> QED
  BY <1>1, <1>3, <1>4

WithErrors(q, to, errors) ==
  worker' = [worker EXCEPT ![q].at = to, ![q].errors = errors]

(* or with what went wrong.                                                  *)
LEMMA WorkerOfErrors ==
  ASSUME Kept, WorkerInv, NEW q \in Queues, worker[q] # Free,
         NEW to \in Steps, NEW errors \in BOOLEAN, WithErrors(q, to, errors)
  PROVE  /\ WorkerInv' /\ worker'[q].at = to /\ worker'[q].errors = errors
         /\ worker'[q].job = worker[q].job
         /\ worker'[q].child = worker[q].child
         /\ worker'[q].entity = worker[q].entity
         /\ \A p \in Queues : p # q => worker'[p] = worker[p]
<1> DEFINE w == [worker[q] EXCEPT !.at = to, !.errors = errors]
<1>1. /\ w \in TaskBusy(q) /\ w.at = to /\ w.job = worker[q].job
      /\ w.errors = errors /\ w.child = worker[q].child
      /\ w.entity = worker[q].entity
  BY BusyFields DEF TaskBusy, Busy, Steps
<1>2. worker' = [worker EXCEPT ![q] = w]
  BY DEF WorkerInv, WithErrors
<1> HIDE DEF w
<1>3. WorkerInv'
  BY <1>1, <1>2, WorkerGoes
<1>4. worker'[q] = w /\ \A p \in Queues : p # q => worker'[p] = worker[p]
  BY <1>2 DEF WorkerInv
<1> QED
  BY <1>1, <1>3, <1>4

-------------------------------------------------------------------------------
(***************************************************************************)
(* The regeneration: the files and the rows of the documents.              *)
(***************************************************************************)

(* What is written of a student's children: nothing.                         *)
OwnSame ==
  \A s \in Students :
    /\ Own(s)' = Own(s)
    /\ \A n \in Own(s) : notifications'[n].status = notifications[n].status

RegenerationInv == ChildInv /\ FilesInv /\ FileShowsVariables

(* An invariant of the documents holds on where nothing is made of them.     *)
LEMMA RegenerationFrame ==
  ASSUME RegenerationInv, Kept, UNCHANGED <<documents, files, nextFile>>,
         \/ worker'["document"] = worker["document"]
         \/ worker'["document"].at \in {"idle", "start"}
  PROVE  RegenerationInv'
<1>1. ChildInv'
  BY DEF RegenerationInv, ChildInv, Kept, Same, Roots
<1>2. FilesInv'
  BY DEF RegenerationInv, FilesInv
<1>3. FileShowsVariables'
  BY DEF RegenerationInv, FileShowsVariables
<1> QED
  BY <1>1, <1>2, <1>3 DEF RegenerationInv

(* The status of a child of a document is no student's.                      *)
LEMMA OwnSameByStatus ==
  ASSUME NotesInv, NEW n, NEW status \in NotificationStatus,
         SetStatus(n, status), UNCHANGED certificates,
         n \in DOMAIN notifications \ Roots => notifications[n].item \in Docs
  PROVE  OwnSame
<1>1. /\ Kept /\ DOMAIN notifications' = DOMAIN notifications
      /\ \A m \in DOMAIN notifications :
           m # n => notifications'[m] = notifications[m]
  BY StatusWritten
<1>2. Docs \cap Students = {}
  BY LongTasksAssumption
<1>3. ASSUME NEW s \in Students
      PROVE  Own(s)' = Own(s) /\ n \notin Own(s)
  <2>1. n \notin Own(s)
    BY <1>2 DEF Own
  <2>2. \A m \in DOMAIN notifications :
           /\ m \in Roots' <=> m \in Roots
           /\ notifications'[m].item = notifications[m].item
           /\ notifications'[m].carried = notifications[m].carried
    BY <1>1 DEF Kept, Same, Roots
  <2> QED
    BY <1>1, <2>1, <2>2 DEF Own
<1>4. \A s \in Students : Own(s) \subseteq DOMAIN notifications
  BY DEF Own
<1> QED
  BY <1>1, <1>3, <1>4 DEF OwnSame

(* Nor is a notification that is added for a task or a document.             *)
LEMMA OwnSameByNote ==
  ASSUME Kept,
         DOMAIN notifications' = DOMAIN notifications \cup {Len(notifications) + 1},
         \A n \in DOMAIN notifications :
           notifications'[n].status = notifications[n].status \/ n \in Roots,
         Len(notifications) + 1 \notin DOMAIN notifications,
         \/ notifications'[Len(notifications) + 1].parent = 0
         \/ notifications'[Len(notifications) + 1].item \notin Students
  PROVE  OwnSame
<1>1. ASSUME NEW s \in Students
      PROVE  Own(s)' = Own(s)
  <2>1. \A m \in DOMAIN notifications :
           /\ m \in Roots' <=> m \in Roots
           /\ notifications'[m].item = notifications[m].item
           /\ notifications'[m].carried = notifications[m].carried
    BY DEF Kept, Same, Roots
  <2>2. Len(notifications) + 1 \notin Own(s)'
    BY DEF Own, Roots
  <2> QED
    BY <2>1, <2>2 DEF Own
<1>2. \A s \in Students : \A n \in Own(s) : n \in DOMAIN notifications \ Roots
  BY DEF Own
<1> QED
  BY <1>1, <1>2 DEF OwnSame

(* What a step of the regeneration leaves alone.                             *)
Regenerates ==
  /\ TasksInv' /\ Kept /\ RegenerationInv' /\ OwnSame /\ UNCHANGED certificates
  /\ worker'["certificate"] = worker["certificate"]

(* The child of a document,                                                  *)
LEMMA CreateChildStep ==
  ASSUME TasksInv, RegenerationInv, CreateChild, UNCHANGED loadVars
  PROVE  Regenerates
<1> USE DEF TasksInv
<1> USE TheQueues
<1>1. worker["document"] # Free
      /\ UNCHANGED <<certificates, waiting, requests, stops, councilVars>>
  BY DEF CreateChild, Regenerating, loadVars
<1>2. Create("document", worker["document"].job.root, 0,
             worker["document"].job.item, "IN_PROGRESS")
  BY DEF CreateChild, Doing
<1>3. /\ Kept /\ NotesInv' /\ Len(notifications) + 1 \in Nat
      /\ DOMAIN notifications' = DOMAIN notifications \cup {Len(notifications) + 1}
      /\ \A n \in DOMAIN notifications :
           notifications'[n] = notifications[n] /\ n < Len(notifications) + 1
      /\ notifications'[Len(notifications) + 1].item = worker["document"].job.item
      /\ notifications'[Len(notifications) + 1].parent # 0
  BY <1>1, <1>2, ChildCreated
<1>4. /\ WorkerInv' /\ worker'["document"].at = "copy"
      /\ worker'["document"].child = Len(notifications) + 1
      /\ worker'["certificate"] = worker["certificate"]
  <2>1. "copy" \in Steps
    BY DEF Steps
  <2>2. WithChild("document", "copy", Len(notifications) + 1)
    BY DEF CreateChild, WithChild
  <2> QED
    BY <1>1, <1>3, <2>1, <2>2, WorkerOfChild
<1>5. worker["document"].job.item \in Docs
  BY <1>1, BusyFields
<1>6. TasksInv'
  BY <1>1, <1>3, <1>4, RequestsLess, WaitingStays, TablesAlone
  DEF CertificatesTypeOK
<1>7. ChildInv'
  BY <1>3, <1>4, <1>5 DEF ChildInv, Roots
<1>8. FilesInv' /\ FileShowsVariables'
  BY <1>1, <1>4 DEF RegenerationInv, FilesInv, FileShowsVariables, councilVars
<1>9. Len(notifications) + 1 \notin DOMAIN notifications
  BY <1>3
<1>10. worker["document"].job.item \notin Students
  BY <1>5, LongTasksAssumption
<1>11. OwnSame
  BY <1>3, <1>9, <1>10, OwnSameByNote
<1> QED
  BY <1>1, <1>3, <1>4, <1>6, <1>7, <1>8, <1>11 DEF Regenerates, RegenerationInv

(* Where no notification is written no student's is.                         *)
LEMMA OwnSameQuietly ==
  ASSUME UNCHANGED notifications
  PROVE  OwnSame
  BY DEF OwnSame, Own, Roots

(* the copy of its template, which no document has yet,                      *)
LEMMA CopyTemplateStep ==
  ASSUME TasksInv, RegenerationInv, CopyTemplate, UNCHANGED loadVars
  PROVE  Regenerates
<1> USE DEF TasksInv
<1> USE TheQueues
<1> DEFINE copy == [doc |-> worker["document"].job.item, id |-> nextFile,
                    shows |-> 0]
<1>1. worker["document"] # Free
      /\ UNCHANGED <<notifications, certificates, waiting, requests, stops,
                     council, documents, removals>>
  BY DEF CopyTemplate, Regenerating, loadVars
<1>2. Kept /\ NotesInv' /\ CertificatesTypeOK'
  BY <1>1, NothingWritten
<1>3. nextFile \in Nat /\ files' = files \cup {copy} /\ nextFile' = nextFile + 1
  BY DEF CopyTemplate, Doing, DocumentsTypeOK
<1>4. /\ WorkerInv' /\ worker'["document"].at = "fill"
      /\ worker'["document"].entity = nextFile
      /\ worker'["document"].job = worker["document"].job
      /\ worker'["document"].child = worker["document"].child
      /\ worker'["certificate"] = worker["certificate"]
  <2>1. "fill" \in Steps
    BY DEF Steps
  <2>2. WithEntity("document", "fill", nextFile)
    BY DEF CopyTemplate, WithEntity
  <2> QED
    BY <1>1, <1>2, <1>3, <2>1, <2>2, WorkerOfEntity
<1>5. copy \in File
  BY <1>1, <1>3, BusyFields DEF File
<1>6. DocumentsTypeOK'
  <2> HIDE DEF copy
  <2> QED
    BY <1>1, <1>3, <1>5 DEF DocumentsTypeOK
<1>7. TasksInv'
  BY <1>1, <1>2, <1>4, <1>6, RequestsLess, WaitingStays
<1>8. ChildInv'
  <2>1. worker["document"].at = "copy"
    BY DEF CopyTemplate, Regenerating
  <2> QED
    BY <1>1, <1>4, <2>1 DEF RegenerationInv, ChildInv, Roots
<1>9. /\ \A f \in files : f.id < nextFile /\ f.id \in Nat
      /\ \A d \in DOMAIN documents :
           documents[d].file < nextFile /\ documents[d].file \in Nat
  BY DEF RegenerationInv, FilesInv, DocumentsTypeOK, File, Doc
<1>10. FilesInv'
  BY <1>1, <1>3, <1>4, <1>9 DEF FilesInv
<1>11. FileShowsVariables'
  BY <1>1, <1>3, <1>9 DEF RegenerationInv, FileShowsVariables
<1> QED
  BY <1>1, <1>2, <1>4, <1>7, <1>8, <1>10, <1>11, OwnSameQuietly
  DEF Regenerates, RegenerationInv

(* what is written in that copy,                                             *)
LEMMA FillCopyStep ==
  ASSUME TasksInv, RegenerationInv, FillCopy, UNCHANGED loadVars
  PROVE  Regenerates
<1> USE DEF TasksInv
<1> USE TheQueues
<1> DEFINE w == worker["document"]
           filled(f) == IF Copied(f) THEN [f EXCEPT !.shows = Doing.data] ELSE f
<1>1. w # Free /\ w.at = "fill"
      /\ UNCHANGED <<notifications, certificates, waiting, requests, stops,
                     council, documents, nextFile, removals>>
  BY DEF FillCopy, Regenerating, loadVars
<1>2. Kept /\ NotesInv' /\ CertificatesTypeOK'
  BY <1>1, NothingWritten
<1>3. /\ WorkerInv' /\ worker'["document"].at = "save"
      /\ worker'["document"].entity = w.entity /\ worker'["document"].job = w.job
      /\ worker'["document"].child = w.child
      /\ worker'["certificate"] = worker["certificate"]
  <2>1. "save" \in Steps
    BY DEF Steps
  <2>2. Goes("document", "save")
    BY DEF FillCopy
  <2> QED
    BY <1>1, <1>2, <2>1, <2>2, WorkerAt
<1>4. w.job.data \in Nat
  BY <1>1, BusyFields
<1>5. files' = {filled(f) : f \in files}
  BY DEF FillCopy
<1>6. ASSUME NEW f \in files
      PROVE  /\ filled(f) \in File /\ filled(f).doc = f.doc /\ filled(f).id = f.id
             /\ f.doc = w.job.item /\ f.id = w.entity =>
                  filled(f).shows = w.job.data
             /\ ~(f.doc = w.job.item /\ f.id = w.entity) => filled(f) = f
  <2>1. f \in File
    BY DEF DocumentsTypeOK
  <2> QED
    BY <1>4, <2>1 DEF File, Copied, Doing
<1> HIDE DEF filled
<1>7. DocumentsTypeOK'
  BY <1>1, <1>5, <1>6 DEF DocumentsTypeOK
<1>8. TasksInv'
  BY <1>1, <1>2, <1>3, <1>7, RequestsLess, WaitingStays
<1>9. ChildInv'
  BY <1>1, <1>3 DEF RegenerationInv, ChildInv, Roots
<1>10. FilesInv'
  BY <1>1, <1>3, <1>5, <1>6 DEF RegenerationInv, FilesInv
<1>11. FileShowsVariables'
  <2> SUFFICES ASSUME NEW d \in DOMAIN documents, NEW f \in files,
                      f.doc = d, f.id = documents[d].file
               PROVE  filled(f).shows = documents[d].variables
    BY <1>1, <1>5, <1>6 DEF FileShowsVariables
  <2>1. ~(f.doc = w.job.item /\ f.id = w.entity)
    BY <1>1 DEF RegenerationInv, FilesInv
  <2> QED
    BY <1>6, <2>1 DEF RegenerationInv, FileShowsVariables
<1> QED
  BY <1>1, <1>2, <1>3, <1>8, <1>9, <1>10, <1>11, OwnSameQuietly
  DEF Regenerates, RegenerationInv

(* or not written in it,                                                     *)
LEMMA DriveRefusesStep ==
  ASSUME TasksInv, RegenerationInv, DriveRefuses, UNCHANGED loadVars
  PROVE  Regenerates
<1> USE DEF TasksInv
<1> USE TheQueues
<1> DEFINE w == worker["document"]
<1>1. w # Free /\ w.at \in {"copy", "fill"}
      /\ UNCHANGED <<notifications, certificates, waiting, requests, stops,
                     councilVars>>
  BY DEF DriveRefuses, Regenerating, loadVars
<1>2. Kept /\ NotesInv' /\ CertificatesTypeOK'
  BY <1>1, NothingWritten
<1>3. /\ WorkerInv' /\ worker'["document"].at = "fail"
      /\ worker'["document"].child = w.child
      /\ worker'["certificate"] = worker["certificate"]
  <2>1. "fail" \in Steps
    BY DEF Steps
  <2>2. Goes("document", "fail")
    BY DEF DriveRefuses
  <2> QED
    BY <1>1, <1>2, <2>1, <2>2, WorkerAt
<1>4. TasksInv'
  BY <1>1, <1>2, <1>3, RequestsLess, WaitingStays, TablesAlone
<1>5. worker'["document"].job = w.job
  <2>1. "fail" \in Steps
    BY DEF Steps
  <2>2. Goes("document", "fail")
    BY DEF DriveRefuses
  <2> QED
    BY <1>1, <1>2, <2>1, <2>2, WorkerAt
<1>6. ChildInv'
  BY <1>1, <1>3, <1>5 DEF RegenerationInv, ChildInv, Roots
<1>7. FilesInv' /\ FileShowsVariables'
  BY <1>1, <1>3 DEF RegenerationInv, FilesInv, FileShowsVariables, councilVars
<1> QED
  BY <1>1, <1>2, <1>3, <1>4, <1>6, <1>7, OwnSameQuietly DEF Regenerates, RegenerationInv

(* the copy that becomes the document's file, with its variables,            *)
LEMMA SaveCopyStep ==
  ASSUME TasksInv, RegenerationInv, SaveCopy, UNCHANGED loadVars
  PROVE  Regenerates
<1> USE DEF TasksInv
<1> USE TheQueues
<1> DEFINE w == worker["document"]
           saved == [file |-> w.entity, variables |-> w.job.data]
<1>1. w # Free /\ w.at = "save"
      /\ UNCHANGED <<notifications, certificates, waiting, requests, stops,
                     council, files, nextFile, removals>>
  BY DEF SaveCopy, Regenerating, loadVars
<1>2. Kept /\ NotesInv' /\ CertificatesTypeOK'
  BY <1>1, NothingWritten
<1>3. PICK to \in {"complete", "fail"} : Goes("document", to)
  BY DEF SaveCopy
<1>4. /\ WorkerInv' /\ worker'["document"].at \in {"complete", "fail"}
      /\ worker'["document"].child = w.child
      /\ worker'["document"].job = w.job
      /\ worker'["certificate"] = worker["certificate"]
  <2>1. to \in Steps
    BY DEF Steps
  <2> QED
    BY <1>1, <1>2, <1>3, <2>1, WorkerAt
<1>5. saved \in Doc /\ saved.file < nextFile
  BY <1>1, BusyFields DEF Doc, RegenerationInv, FilesInv
<1>6. /\ DOMAIN documents' = DOMAIN documents
      /\ \A d \in DOMAIN documents :
           documents'[d] = documents[d] \/ (d = w.job.item /\ documents'[d] = saved)
  <2>1. CASE w.job.item \in DOMAIN documents
    BY <2>1 DEF SaveCopy, Doing
  <2>2. CASE w.job.item \notin DOMAIN documents
    BY <2>2 DEF SaveCopy, Doing
  <2> QED
    BY <2>1, <2>2
<1>7. DocumentsTypeOK'
  BY <1>1, <1>5, <1>6 DEF DocumentsTypeOK
<1>8. TasksInv'
  BY <1>1, <1>2, <1>4, <1>7, RequestsLess, WaitingStays
<1>9. ChildInv'
  BY <1>1, <1>4 DEF RegenerationInv, ChildInv, Roots
<1>10. FilesInv'
  BY <1>1, <1>4, <1>5, <1>6 DEF RegenerationInv, FilesInv
<1>11. FileShowsVariables'
  BY <1>1, <1>6 DEF RegenerationInv, FilesInv, FileShowsVariables
<1> QED
  BY <1>1, <1>2, <1>4, <1>8, <1>9, <1>10, <1>11, OwnSameQuietly
  DEF Regenerates, RegenerationInv

(* and the last status of the child.                                         *)
LEMMA CloseChildStep ==
  ASSUME TasksInv, RegenerationInv,
         CompleteChild \/ FailChild \/ OverwriteChild, UNCHANGED loadVars
  PROVE  Regenerates
<1> USE DEF TasksInv
<1> USE TheQueues
<1> DEFINE w == worker["document"]
<1>1. w # Free /\ w.at \in {"complete", "fail", "overwrite"}
      /\ UNCHANGED <<certificates, waiting, requests, stops, councilVars>>
  BY DEF CompleteChild, FailChild, OverwriteChild, Regenerating, loadVars
<1>2. PICK status \in {"COMPLETED", "FAILURE", "IN_PROGRESS"} :
        SetStatus(w.child, status)
  BY DEF CompleteChild, FailChild, OverwriteChild
<1>3. status \in NotificationStatus
  BY DEF NotificationStatus
<1>4. Kept /\ NotesInv'
  BY <1>1, <1>2, <1>3, StatusWritten
<1>5. /\ WorkerInv' /\ worker'["certificate"] = worker["certificate"]
      /\ \/ worker'["document"] = Free
         \/ /\ worker'["document"].at = "overwrite"
            /\ worker'["document"].child = w.child
            /\ worker'["document"].job = w.job
  <2>1. CASE Release("document")
    BY <1>4, <2>1, WorkerReleased
  <2>2. CASE Goes("document", "overwrite")
    <3>1. "overwrite" \in Steps
      BY DEF Steps
    <3> QED
      BY <1>1, <1>4, <2>2, <3>1, WorkerAt
  <2> QED
    BY <2>1, <2>2 DEF CompleteChild, FailChild, OverwriteChild
<1>6. TasksInv'
  BY <1>1, <1>4, <1>5, RequestsLess, WaitingStays, TablesAlone
  DEF CertificatesTypeOK
<1>7. w.child \in DOMAIN notifications \ Roots /\ notifications[w.child].item \in Docs
  BY <1>1 DEF RegenerationInv, ChildInv
<1>8. ChildInv'
  BY <1>4, <1>5, <1>7 DEF ChildInv, Free, Kept, Same, Roots
<1>9. FilesInv' /\ FileShowsVariables'
  BY <1>1, <1>5 DEF RegenerationInv, FilesInv, FileShowsVariables, councilVars, Free
<1>10. OwnSame
  BY <1>1, <1>2, <1>3, <1>7, OwnSameByStatus
<1> QED
  BY <1>1, <1>4, <1>5, <1>6, <1>8, <1>9, <1>10 DEF Regenerates, RegenerationInv

(* Every step of the processor of documents.                                 *)
LEMMA RecreateStep ==
  ASSUME TasksInv, RegenerationInv, Recreate, UNCHANGED loadVars
  PROVE  Regenerates
  BY CreateChildStep, CopyTemplateStep, FillCopyStep, DriveRefusesStep,
     SaveCopyStep, CloseChildStep DEF Recreate

(* The requests of a council: a file that goes is shown by nobody, and the   *)
(* rows that stay are as they were.                                          *)
LEMMA CouncilRequestsStep ==
  ASSUME TasksInv, RegenerationInv, CouncilRequests, UNCHANGED loadVars
  PROVE  Regenerates
<1>1. TasksInv'
  BY CouncilRequestsTyped
<1>2. UNCHANGED <<worker, certificates, nextFile>>
  BY DEF CouncilRequests, UpdateCouncil, UpdateQuietly, StartRegeneration, Start, BeginRemoval,
         DeleteFile, DeleteRow, jobVars, loadVars
<1>3. Kept /\ OwnSame
  <2>1. CASE StartRegeneration
    <3>1. Start("document", <<>>, 0)
      BY <2>1 DEF StartRegeneration
    <3>2. <<>> \in Seq(About("document"))
      BY EmptySeq
    <3>3. /\ Kept
          /\ DOMAIN notifications' = DOMAIN notifications \cup {Len(notifications) + 1}
          /\ \A n \in DOMAIN notifications :
               notifications'[n] = notifications[n] /\ n < Len(notifications) + 1
          /\ notifications'[Len(notifications) + 1].parent = 0
      BY <1>2, <3>1, <3>2, TheQueues, StartTyped DEF TasksInv
    <3>4. Len(notifications) + 1 \notin DOMAIN notifications
      <4>1. notifications \in Seq(Notification)
        BY DEF TasksInv, NotesInv
      <4> QED
        BY <4>1, LenProperties
    <3> QED
      BY <3>3, <3>4, OwnSameByNote
  <2>2. CASE UNCHANGED jobVars
    BY <1>2, <2>2, NothingWritten, OwnSameQuietly DEF jobVars, TasksInv
  <2> QED
    BY <2>1, <2>2
    DEF CouncilRequests, UpdateCouncil, UpdateQuietly, BeginRemoval, DeleteFile, DeleteRow
<1>4. /\ files' \subseteq files /\ DOMAIN documents' \subseteq DOMAIN documents
      /\ \A d \in DOMAIN documents' : documents'[d] = documents[d]
  <2>1. ASSUME NEW x \in removals, DeleteFile(x)
        PROVE  files' \subseteq files /\ UNCHANGED documents
    BY <2>1 DEF DeleteFile
  <2>2. ASSUME NEW x \in removals, DeleteRow(x)
        PROVE  /\ UNCHANGED files /\ DOMAIN documents' \subseteq DOMAIN documents
               /\ \A d \in DOMAIN documents' : documents'[d] = documents[d]
    BY <2>2 DEF DeleteRow, Restrict
  <2>3. CASE UNCHANGED <<documents, files>>
    BY <2>3
  <2> QED
    BY <2>1, <2>2, <2>3
    DEF CouncilRequests, UpdateCouncil, UpdateQuietly, StartRegeneration, BeginRemoval
<1>5. ChildInv'
  BY <1>2, <1>3 DEF RegenerationInv, ChildInv, Kept, Same, Roots
<1>6. FilesInv' /\ FileShowsVariables'
  BY <1>2, <1>4 DEF RegenerationInv, FilesInv, FileShowsVariables
<1> QED
  BY <1>1, <1>2, <1>3, <1>5, <1>6 DEF Regenerates, RegenerationInv

-------------------------------------------------------------------------------
(***************************************************************************)
(* The load: a student's certificate and the last that was done for them.  *)
(***************************************************************************)
CertificatesInv == LoadInv /\ LastIsThere /\ OneCertificate

(* It holds on where the processor is at the beginning or as it was, and     *)
(* nothing is written of certificates nor of the children of students.       *)
LEMMA LoadFrame ==
  ASSUME TasksInv, CertificatesInv, OwnSame, UNCHANGED certificates,
         \/ worker'["certificate"] = worker["certificate"]
         \/ worker'["certificate"].at \in {"idle", "start"}
  PROVE  CertificatesInv'
<1> DEFINE w == worker["certificate"]
<1>1. w = Free \/ (w # Free /\ w.job.item \in Students)
  BY TheQueues, BusyFields DEF TasksInv
<1>2. \A s \in Students : \A n :
        /\ LastOwn(n, s)' <=> LastOwn(n, s)
        /\ LastOwn(n, s) => notifications'[n].status = notifications[n].status
  BY DEF OwnSame, LastOwn
<1>3. LoadInv'
  <2>1. CASE worker'["certificate"].at \in {"idle", "start"}
    BY <2>1 DEF LoadInv
  <2>2. CASE worker'["certificate"] = w /\ w.at \notin {"idle", "start"}
    <3>1. w.job.item \in Students
      BY <1>1, <2>2 DEF Free
    <3>2. LastOwn(w.child, w.job.item)' /\ notifications'[w.child].status = "IN_PROGRESS"
      BY <1>2, <2>2, <3>1 DEF CertificatesInv, LoadInv
    <3> QED
      BY <2>2, <3>2 DEF CertificatesInv, LoadInv
  <2> QED
    BY <2>1, <2>2
<1>4. LastIsThere'
  BY <1>2 DEF CertificatesInv, LastIsThere, LastOwn, Own
<1>5. OneCertificate'
  BY DEF CertificatesInv, OneCertificate
<1> QED
  BY <1>3, <1>4, <1>5 DEF CertificatesInv

(* A certificate of the student whose child is in progress is rewritten.     *)
LEMMA CertificateRewritten ==
  ASSUME TasksInv, CertificatesInv, UNCHANGED notifications,
         worker["certificate"].at \notin {"idle", "start"},
         NEW i \in DOMAIN certificates,
         certificates[i].student = worker["certificate"].job.item,
         NEW c \in Certificate, c.student = certificates[i].student,
         c.state = "live" => certificates[i].state = "live",
         certificates' = [certificates EXCEPT ![i] = c]
  PROVE  /\ CertificatesTypeOK' /\ Kept /\ NotesInv' /\ LastIsThere' /\ OneCertificate'
         /\ DOMAIN certificates' = DOMAIN certificates
         /\ certificates'[i] = c
<1> DEFINE w == worker["certificate"]
<1>1. certificates \in Seq(Certificate) /\ i \in 1..Len(certificates)
  BY LenProperties DEF TasksInv, CertificatesTypeOK
<1>2. /\ CertificatesTypeOK' /\ DOMAIN certificates' = DOMAIN certificates
      /\ certificates'[i] = c
      /\ \A j \in DOMAIN certificates : j # i => certificates'[j] = certificates[j]
  BY <1>1, ExceptSeq, LenProperties DEF CertificatesTypeOK
<1>3. Kept
  BY <1>2 DEF Kept, Same
<1>4. NotesInv'
  <2>1. \A x : Noted(x) => Noted(x)'
    BY <1>3, NotedStays
  <2> QED
    BY <2>1 DEF TasksInv, NotesInv
<1>5. OneCertificate'
  BY <1>2 DEF CertificatesInv, OneCertificate
<1>6. LastIsThere'
  <2> SUFFICES ASSUME NEW s \in Students, NEW n \in DOMAIN notifications,
                      LastOwn(n, s), notifications[n].status = "COMPLETED"
               PROVE  \E j \in DOMAIN certificates' :
                        certificates'[j] = [student |-> s, state |-> "live",
                                            sheet |-> TRUE, members |-> Members]
    BY DEF LastIsThere, LastOwn, Own, Roots
  <2>1. s # w.job.item
    <3>1. LastOwn(w.child, w.job.item)
          /\ notifications[w.child].status = "IN_PROGRESS"
      BY DEF CertificatesInv, LoadInv
    <3>2. \A m \in DOMAIN notifications : m \in Nat
      BY LenProperties DEF TasksInv, NotesInv
    <3> QED
      BY <3>1, <3>2 DEF LastOwn, Own
  <2>2. PICK j \in DOMAIN certificates :
          certificates[j] = [student |-> s, state |-> "live", sheet |-> TRUE,
                             members |-> Members]
    BY DEF CertificatesInv, LastIsThere
  <2>3. j # i
    BY <2>1, <2>2
  <2> QED
    BY <1>2, <2>2, <2>3
<1> QED
  BY <1>2, <1>3, <1>4, <1>5, <1>6

(* What a step of the load leaves alone.                                     *)
Loads ==
  /\ TasksInv' /\ CertificatesInv' /\ Kept
  /\ worker'["document"] = worker["document"]

(* The fields of the row that is loaded.                                     *)
LEMMA RowFields ==
  ASSUME TasksInv, worker["certificate"] # Free
  PROVE  LET w == worker["certificate"] IN
         /\ WorkerInv /\ "certificate" \in Queues /\ "document" \in Queues
         /\ "document" # "certificate"
         /\ w.at \in Steps /\ w.job.item \in Students /\ w.job.root \in Roots
         /\ w.job.retries \subseteq Child
         /\ \A x \in w.job.retries : Noted(x.row)
         /\ w.child \in Nat /\ w.entity \in Nat /\ w.errors \in BOOLEAN
<1>1. WorkerInv
  BY DEF TasksInv
<1> QED
  BY <1>1, TheQueues, BusyFields

(* A processor that ends without writing anything,                           *)
LEMMA QuietRelease ==
  ASSUME TasksInv, CertificatesInv, worker["certificate"] # Free,
         Release("certificate"),
         UNCHANGED <<notifications, certificates, waiting, requests, stops, councilVars>>
  PROVE  Loads
<1> USE DEF TasksInv
<1>1. Kept /\ NotesInv' /\ CertificatesTypeOK' /\ OwnSame
  BY NothingWritten, OwnSameQuietly
<1>2. WorkerInv' /\ worker'["certificate"] = Free
      /\ worker'["document"] = worker["document"]
  BY <1>1, RowFields, WorkerReleased
<1>3. TasksInv'
  BY <1>1, <1>2, RequestsLess, WaitingStays, TablesAlone
<1>4. worker'["certificate"].at = "idle"
  BY <1>2 DEF Free
<1>5. CertificatesInv'
  BY <1>1, <1>4, LoadFrame
<1> QED
  BY <1>1, <1>2, <1>3, <1>5 DEF Loads

(* or that writes an error in the main notification and ends.                *)
LEMMA FailedRelease ==
  ASSUME TasksInv, CertificatesInv, worker["certificate"] # Free,
         Release("certificate"), SetStatus(Row.root, "FAILURE"),
         UNCHANGED <<certificates, waiting, requests, stops, councilVars>>
  PROVE  Loads
<1> USE DEF TasksInv
<1>1. "FAILURE" \in NotificationStatus /\ Row.root \in Roots
  BY RowFields DEF NotificationStatus, Row
<1>2. Kept /\ NotesInv' /\ CertificatesTypeOK'
  BY <1>1, StatusWritten DEF CertificatesTypeOK
<1>3. OwnSame
  BY <1>1, OwnSameByStatus
<1>4. WorkerInv' /\ worker'["certificate"] = Free
      /\ worker'["document"] = worker["document"]
  BY <1>2, RowFields, WorkerReleased
<1>5. TasksInv'
  BY <1>2, <1>4, RequestsLess, WaitingStays, TablesAlone
<1>6. worker'["certificate"].at = "idle"
  BY <1>4 DEF Free
<1>7. CertificatesInv'
  BY <1>2, <1>3, <1>6, LoadFrame
<1> QED
  BY <1>2, <1>4, <1>5, <1>7 DEF Loads

(* The child of the row that is loaded is the last of its student.           *)
LEMMA CreateLoadChildStep ==
  ASSUME TasksInv, CertificatesInv, CreateLoadChild, UNCHANGED councilVars
  PROVE  Loads
<1> USE DEF TasksInv
<1> DEFINE w == worker["certificate"]
           to == IF IsRetry THEN "previous" ELSE "validate"
<1>1. w # Free /\ w.at = "start"
      /\ UNCHANGED <<certificates, waiting, requests, stops, councilVars>>
  BY DEF CreateLoadChild, Loading, loadVars
<1> PICK me \in Students, new \in Nat :
          me = w.job.item /\ new = Len(notifications) + 1
  BY <1>1, RowFields, LenProperties DEF NotesInv
<1>2. Create("certificate", w.job.root, 0, w.job.item, "IN_PROGRESS")
  BY DEF CreateLoadChild, Row
<1>3. /\ Kept /\ NotesInv'
      /\ DOMAIN notifications' = DOMAIN notifications \cup {new}
      /\ \A n \in DOMAIN notifications :
           notifications'[n] = notifications[n] /\ n < new
      /\ notifications'[new] =
           [kind |-> "certificate", parent |-> w.job.root, retry |-> 0,
            item |-> me, status |-> "IN_PROGRESS",
            entities |-> 0, carried |-> FALSE]
      /\ w.job.root # 0
  BY <1>1, <1>2, RowFields, ChildCreated
<1>4. notifications'[new].item = me /\ notifications'[new].parent # 0
      /\ notifications'[new].status = "IN_PROGRESS" /\ ~notifications'[new].carried
  BY <1>3
<1>5. \A n \in DOMAIN notifications : n \in Nat
  BY LenProperties DEF NotesInv
<1>6. /\ WorkerInv' /\ worker'["certificate"].at = to
      /\ worker'["certificate"].child = new
      /\ worker'["certificate"].job = w.job
      /\ worker'["document"] = worker["document"]
  <2>1. to \in Steps
    BY DEF Steps
  <2>2. WithChild("certificate", to, new)
    BY DEF CreateLoadChild, WithChild
  <2> HIDE DEF to
  <2> QED
    BY <1>1, <1>3, <2>1, <2>2, RowFields, WorkerOfChild
<1>7. TasksInv'
  BY <1>1, <1>3, <1>6, RequestsLess, WaitingStays, TablesAlone
  DEF CertificatesTypeOK
<1>8. /\ Own(me)' = Own(me) \cup {new}
      /\ \A s \in Students : s # me => Own(s)' = Own(s)
  BY <1>3, <1>4 DEF Own, Roots
<1>9. LastOwn(new, me)'
  <2>1. \A m \in Own(me) : m <= new
    BY <1>3, <1>5 DEF Own
  <2> QED
    BY <1>3, <1>8, <2>1 DEF LastOwn
<1>10. LoadInv'
  <2>1. to = "previous" => \E x \in w.job.retries : x.row.item = me
    BY DEF CreateLoadChild, Named, Row
  <2>2. to \in {"previous", "validate"}
    OBVIOUS
  <2> HIDE DEF to
  <2> QED
    BY <1>4, <1>6, <1>9, <2>1, <2>2 DEF LoadInv
<1>11. LastIsThere'
  <2> SUFFICES ASSUME NEW s \in Students, NEW n \in DOMAIN notifications',
                      LastOwn(n, s)', notifications'[n].status = "COMPLETED"
               PROVE  \E j \in DOMAIN certificates :
                        certificates[j] = [student |-> s, state |-> "live",
                                           sheet |-> TRUE, members |-> Members]
    BY <1>1 DEF LastIsThere
  <2>1. s # me
    <3>1. CASE s = me
      <4>1. n <= new /\ new <= n
        BY <1>9, <3>1 DEF LastOwn
      <4>2. n \in Nat
        BY <1>3, <1>5
      <4> QED
        BY <1>3, <1>4, <4>1, <4>2
    <3> QED
      BY <3>1
  <2>2. LastOwn(n, s) /\ n \in DOMAIN notifications
    BY <1>8, <2>1 DEF LastOwn, Own
  <2>3. notifications[n].status = "COMPLETED"
    BY <1>3, <2>2
  <2> QED
    BY <2>2, <2>3 DEF CertificatesInv, LastIsThere
<1>12. OneCertificate'
  BY <1>1 DEF CertificatesInv, OneCertificate
<1> QED
  BY <1>3, <1>6, <1>7, <1>10, <1>11, <1>12 DEF Loads, CertificatesInv

(* The child of the retried load that names the student.                     *)
LEMMA PreviousFields ==
  ASSUME TasksInv, worker["certificate"] # Free, Named # {}
  PROVE  /\ Previous \in Notification /\ Noted(Previous)
         /\ Previous.item = worker["certificate"].job.item
<1>1. Named \subseteq Child
      /\ \A x \in Named : Noted(x.row) /\ x.row.item = worker["certificate"].job.item
  BY RowFields DEF Named, Row
<1> DEFINE ids == {x.id : x \in Named}
<1>2. ids \in SUBSET Nat /\ ids # {}
  BY <1>1 DEF Child
<1>3. PICK i \in ids : \A j \in ids : i <= j
  <2> HIDE DEF ids
  <2> QED
    BY <1>2, LeastOf
<1>4. \E x \in Named : \A y \in Named : x.id <= y.id
  BY <1>3
<1> DEFINE first == CHOOSE x \in Named : \A y \in Named : x.id <= y.id
<1>5. first \in Named /\ Previous = first.row
  BY <1>4 DEF Previous
<1> HIDE DEF first
<1> QED
  BY <1>1, <1>5 DEF Child

(* A row that was completed before is not loaded again,                      *)
LEMMA SkipRowStep ==
  ASSUME TasksInv, CertificatesInv, SkipRow, UNCHANGED councilVars
  PROVE  Loads
<1> USE DEF TasksInv
<1> DEFINE w == worker["certificate"]
<1>1. w # Free /\ Release("certificate")
      /\ UNCHANGED <<certificates, waiting, requests, stops, councilVars>>
  BY DEF SkipRow, Loading, loadVars
<1>2. CASE UNCHANGED notifications
  BY <1>1, <1>2, QuietRelease
<1>3. CASE /\ Named # {}
           /\ notifications' = Append(notifications,
                [Previous EXCEPT !.parent = Row.root, !.carried = TRUE])
  <2> DEFINE x == [Previous EXCEPT !.parent = Row.root, !.carried = TRUE]
  <2>1. Previous \in Notification /\ Noted(Previous)
    BY <1>1, <1>3, PreviousFields
  <2>2. Row.root \in Nat \ {0} /\ Len(notifications) \in Nat
        /\ DOMAIN notifications = 1..Len(notifications)
    BY <1>1, RowFields, LenProperties DEF NotesInv, Row, Roots
  <2>3. x \in Notification /\ x.parent # 0 /\ x.retry = Previous.retry
        /\ x.entities = Previous.entities /\ x.item = Previous.item /\ x.carried
    BY <2>1, <2>2 DEF Notification
  <2>4. Noted(x)
    <3>1. x.parent = Row.root /\ Row.root \in Roots
      BY <1>1, <2>1, RowFields DEF Notification, Row
    <3> QED
      BY <2>1, <2>3, <3>1 DEF Noted, Traced
  <2>5. notifications' = Append(notifications, x)
    BY <1>3
  <2> HIDE DEF x
  <2>6. /\ Kept /\ NotesInv'
        /\ DOMAIN notifications' = DOMAIN notifications \cup {Len(notifications) + 1}
        /\ \A n \in DOMAIN notifications : notifications'[n] = notifications[n]
        /\ notifications'[Len(notifications) + 1] = x
    BY <1>1, <2>3, <2>4, <2>5, NoteAdded
  <2>7. OwnSame
    <3>1. ASSUME NEW s \in Students
          PROVE  Own(s)' = Own(s)
      BY <2>2, <2>3, <2>6 DEF Own, Roots
    <3>2. \A s \in Students : Own(s) \subseteq DOMAIN notifications
      BY DEF Own
    <3> QED
      BY <2>6, <3>1, <3>2 DEF OwnSame
  <2>8. WorkerInv' /\ worker'["certificate"] = Free
        /\ worker'["document"] = worker["document"]
    BY <1>1, <2>6, RowFields, WorkerReleased
  <2>9. TasksInv'
    BY <1>1, <2>6, <2>8, RequestsLess, WaitingStays, TablesAlone
    DEF CertificatesTypeOK
  <2>10. worker'["certificate"].at = "idle"
    BY <2>8 DEF Free
  <2>11. CertificatesInv'
    BY <1>1, <2>6, <2>7, <2>10, LoadFrame
  <2> QED
    BY <2>6, <2>8, <2>9, <2>11 DEF Loads
<1> QED
  BY <1>2, <1>3 DEF SkipRow

(* A processor that goes on without writing anything.                        *)
LEMMA QuietlyOn ==
  ASSUME TasksInv, CertificatesInv, WorkerInv', LoadInv',
         worker'["document"] = worker["document"],
         UNCHANGED <<notifications, certificates, waiting, requests, stops, councilVars>>
  PROVE  Loads
<1> USE DEF TasksInv
<1>1. Kept /\ NotesInv' /\ CertificatesTypeOK'
  BY NothingWritten
<1>2. TasksInv'
  BY <1>1, RequestsLess, WaitingStays, TablesAlone
<1>3. LastIsThere' /\ OneCertificate'
  BY DEF CertificatesInv, LastIsThere, LastOwn, Own, Roots, OneCertificate
<1> QED
  BY <1>1, <1>2, <1>3 DEF Loads, CertificatesInv

(* One that wrote the certificate of its student goes on.                    *)
LEMMA WrittenOn ==
  ASSUME TasksInv, CertificatesInv, WorkerInv', LoadInv',
         worker'["document"] = worker["document"],
         CertificatesTypeOK', Kept, NotesInv', LastIsThere', OneCertificate',
         UNCHANGED <<notifications, waiting, requests, stops, councilVars>>
  PROVE  Loads
<1> USE DEF TasksInv
<1>1. TasksInv'
  BY RequestsLess, WaitingStays, TablesAlone
<1> QED
  BY <1>1 DEF Loads, CertificatesInv

(* The child of the row stays the last of its student where nothing is       *)
(* written of notifications.                                                 *)
LEMMA ChildStaysLast ==
  ASSUME CertificatesInv, UNCHANGED notifications,
         worker["certificate"].at \notin {"idle", "start"},
         worker'["certificate"].child = worker["certificate"].child,
         worker'["certificate"].job = worker["certificate"].job
  PROVE  LET w == worker["certificate"] IN
         /\ LastOwn(w.child, w.job.item)'
         /\ notifications'[worker'["certificate"].child].status = "IN_PROGRESS"
  BY DEF CertificatesInv, LoadInv, LastOwn, Own, Roots

(* The certificate that an earlier load left with errors is removed,         *)
LEMMA RemovePreviousStep ==
  ASSUME TasksInv, CertificatesInv, RemovePrevious, UNCHANGED councilVars
  PROVE  Loads
<1> DEFINE w == worker["certificate"]
           left == Previous.entities
<1>1. w # Free /\ w.at = "previous"
      /\ UNCHANGED <<notifications, waiting, requests, stops, councilVars>>
  BY DEF RemovePrevious, Loading
<1>2. Named # {}
  BY <1>1 DEF CertificatesInv, LoadInv, Named, Row
<1>3. CASE left = 0
  BY <1>1, <1>3, QuietRelease DEF RemovePrevious
<1>4. CASE left # 0
  <2>1. left \in DOMAIN certificates /\ certificates[left].student = w.job.item
    BY <1>1, <1>2, <1>4, PreviousFields DEF Noted, Traced
  <2>2. certificates \in Seq(Certificate) /\ certificates[left] \in Certificate
    BY <2>1, LenProperties, ElementOfSeq DEF TasksInv, CertificatesTypeOK
  <2>3. PICK c \in Certificate :
          /\ certificates' = [certificates EXCEPT ![left] = c]
          /\ c.student = certificates[left].student
          /\ c.state = "live" => certificates[left].state = "live"
    <3>1. CASE certificates[left].state = "gone"
      <4>1. certificates' = certificates
        BY <1>4, <3>1 DEF RemovePrevious
      <4>2. certificates = [certificates EXCEPT ![left] = certificates[left]]
        BY <2>2, LenProperties
      <4> QED
        BY <2>2, <4>1, <4>2
    <3>2. CASE certificates[left].state # "gone"
      <4> DEFINE c == [certificates[left] EXCEPT !.state = "deleted",
                         !.sheet = FALSE, !.members = 0]
      <4>1. c \in Certificate /\ c.student = certificates[left].student
            /\ c.state = "deleted"
        BY <2>2 DEF Certificate
      <4>2. certificates' = [certificates EXCEPT ![left] = c]
        BY <1>4, <3>2 DEF RemovePrevious, Removed
      <4> HIDE DEF c
      <4> QED
        BY <4>1, <4>2
    <3> QED
      BY <3>1, <3>2
  <2>4. w.at \notin {"idle", "start"}
    BY <1>1
  <2>5. /\ CertificatesTypeOK' /\ Kept /\ NotesInv' /\ LastIsThere' /\ OneCertificate'
    BY <1>1, <2>1, <2>3, <2>4, CertificateRewritten
  <2>6. /\ WorkerInv' /\ worker'["certificate"].at = "validate"
        /\ worker'["certificate"].job = w.job
        /\ worker'["certificate"].child = w.child
        /\ worker'["document"] = worker["document"]
    <3>1. "validate" \in Steps
      BY DEF Steps
    <3>2. Goes("certificate", "validate")
      BY <1>4 DEF RemovePrevious, LoadGoes, Goes
    <3> QED
      BY <1>1, <2>5, <3>1, <3>2, RowFields, WorkerAt
  <2>7. LoadInv'
    BY <1>1, <2>4, <2>6, ChildStaysLast DEF LoadInv
  <2> QED
    BY <1>1, <2>5, <2>6, <2>7, WrittenOn
<1> QED
  BY <1>3, <1>4

(* the row is validated,                                                     *)
LEMMA ValidateRowStep ==
  ASSUME TasksInv, CertificatesInv, ValidateRow, UNCHANGED councilVars
  PROVE  Loads
<1> DEFINE w == worker["certificate"]
<1>1. w # Free /\ w.at = "validate" /\ w.at \notin {"idle", "start"}
      /\ UNCHANGED <<notifications, certificates, waiting, requests, stops, councilVars>>
  BY DEF ValidateRow, Loading, loadVars
<1>2. PICK to \in {"certificate", "fail"} : Goes("certificate", to)
  BY DEF ValidateRow, LoadGoes, Goes
<1>3. /\ WorkerInv' /\ worker'["certificate"].at = to
      /\ worker'["certificate"].job = w.job
      /\ worker'["certificate"].child = w.child
      /\ worker'["document"] = worker["document"]
  <2>1. to \in Steps
    BY DEF Steps
  <2>2. Kept
    BY <1>1, NothingWritten DEF TasksInv
  <2> QED
    BY <1>1, <1>2, <2>1, <2>2, RowFields, WorkerAt
<1>4. LoadInv'
  BY <1>1, <1>3, ChildStaysLast DEF LoadInv
<1> QED
  BY <1>1, <1>3, <1>4, QuietlyOn

(* a certificate is created where there is none, or the newest one is taken, *)
LEMMA SaveCertificateStep ==
  ASSUME TasksInv, CertificatesInv, SaveCertificate, UNCHANGED councilVars
  PROVE  Loads
<1> DEFINE w == worker["certificate"]
           new == Len(certificates) + 1
<1>1. w # Free /\ w.at = "certificate" /\ w.at \notin {"idle", "start"}
      /\ UNCHANGED <<notifications, waiting, requests, stops, councilVars>>
  BY DEF SaveCertificate, Loading
<1>2. /\ certificates \in Seq(Certificate) /\ Len(certificates) \in Nat
      /\ DOMAIN certificates = 1..Len(certificates)
  BY LenProperties DEF TasksInv, CertificatesTypeOK
<1>3. "sheet" \in Steps
  BY DEF Steps
<1>4. CASE Replicates = {}
  <2>1. w.job.item \in Students
    BY <1>1, RowFields
  <2>2. NewCertificate \in Certificate /\ NewCertificate.student = w.job.item
        /\ NewCertificate.state = "live"
    BY <2>1 DEF NewCertificate, Certificate, Row
  <2>3. certificates' = Append(certificates, NewCertificate)
    BY <1>4 DEF SaveCertificate
  <2>4. /\ certificates' \in Seq(Certificate)
        /\ DOMAIN certificates' = DOMAIN certificates \cup {new}
        /\ \A i \in DOMAIN certificates : certificates'[i] = certificates[i]
        /\ certificates'[new] = NewCertificate
    <3>1. /\ certificates' \in Seq(Certificate)
          /\ Len(certificates') = Len(certificates) + 1
          /\ \A i \in 1..Len(certificates) : certificates'[i] = certificates[i]
          /\ certificates'[new] = NewCertificate
      BY <1>2, <2>2, <2>3, AppendProperties
    <3>2. DOMAIN certificates' = 1..Len(certificates')
      BY <3>1, LenProperties
    <3> QED
      BY <1>2, <3>1, <3>2
  <2>5. Kept
    BY <1>1, <2>4 DEF Kept, Same
  <2>6. NotesInv'
    <3>1. \A x : Noted(x) => Noted(x)'
      BY <2>5, NotedStays
    <3> QED
      BY <1>1, <3>1 DEF TasksInv, NotesInv
  <2>7. OneCertificate'
    <3>1. \A i \in DOMAIN certificates :
            ~(certificates[i].student = w.job.item /\ certificates[i].state = "live")
      BY <1>4 DEF Replicates, Row
    <3> QED
      BY <2>2, <2>4, <3>1 DEF CertificatesInv, OneCertificate
  <2>8. LastIsThere'
    BY <1>1, <2>4 DEF CertificatesInv, LastIsThere, LastOwn, Own, Roots
  <2>9. /\ WorkerInv' /\ worker'["certificate"].at = "sheet"
        /\ worker'["certificate"].job = w.job
        /\ worker'["certificate"].child = w.child
        /\ worker'["certificate"].entity = new
        /\ worker'["document"] = worker["document"]
    <3>1. WithEntity("certificate", "sheet", new)
      BY <1>4 DEF SaveCertificate, WithEntity
    <3>2. new \in Nat
      BY <1>2
    <3> HIDE DEF new
    <3> QED
      BY <1>1, <1>3, <2>5, <3>1, <3>2, RowFields, WorkerOfEntity
  <2>10. LoadInv'
    BY <1>1, <2>2, <2>4, <2>9, ChildStaysLast DEF LoadInv
  <2>11. CertificatesTypeOK'
    BY <2>4 DEF CertificatesTypeOK
  <2> QED
    BY <1>1, <2>5, <2>6, <2>7, <2>8, <2>9, <2>10, <2>11, WrittenOn
<1>5. CASE Replicates # {}
  <2>1. Replicates \in SUBSET Nat /\ \A i \in Replicates : i <= Len(certificates)
    BY <1>2 DEF Replicates
  <2>2. Max(Replicates) \in Replicates
    BY <1>2, <1>5, <2>1, MaxOf
  <2>3. UNCHANGED certificates
    BY <1>5 DEF SaveCertificate
  <2>4. Kept
    BY <1>1, <2>3, NothingWritten DEF TasksInv
  <2>5. /\ WorkerInv' /\ worker'["certificate"].at = "sheet"
        /\ worker'["certificate"].job = w.job
        /\ worker'["certificate"].child = w.child
        /\ worker'["certificate"].entity = Max(Replicates)
        /\ worker'["document"] = worker["document"]
    <3>1. WithEntity("certificate", "sheet", Max(Replicates))
      BY <1>5 DEF SaveCertificate, WithEntity
    <3>2. Max(Replicates) \in Nat
      BY <2>1, <2>2
    <3> QED
      BY <1>1, <1>3, <2>4, <3>1, <3>2, RowFields, WorkerOfEntity
  <2>6. LoadInv'
    <3>1. /\ Max(Replicates) \in DOMAIN certificates
          /\ certificates[Max(Replicates)].student = w.job.item
          /\ certificates[Max(Replicates)].state = "live"
      BY <2>2 DEF Replicates, Row
    <3> QED
      BY <1>1, <2>3, <2>5, <3>1, ChildStaysLast DEF LoadInv
  <2> QED
    BY <1>1, <2>3, <2>5, <2>6, QuietlyOn
<1> QED
  BY <1>4, <1>5

(* What is known of the certificate that is loaded.                          *)
LEMMA EntityFields ==
  ASSUME TasksInv, CertificatesInv,
         worker["certificate"].at \in {"sheet", "cells", "clear", "members", "finish"}
  PROVE  LET w == worker["certificate"] IN
         /\ w # Free /\ w.entity \in DOMAIN certificates /\ Entity = w.entity
         /\ certificates \in Seq(Certificate)
         /\ certificates[w.entity] \in Certificate
         /\ certificates[w.entity].student = w.job.item
         /\ certificates[w.entity].state = "live"
<1>1. worker["certificate"] # Free
  BY DEF Free
<1>2. certificates \in Seq(Certificate)
  BY DEF TasksInv, CertificatesTypeOK
<1>3. worker["certificate"].entity \in DOMAIN certificates
  BY DEF CertificatesInv, LoadInv
<1>4. certificates[worker["certificate"].entity] \in Certificate
  BY <1>2, <1>3, LenProperties, ElementOfSeq
<1> QED
  BY <1>1, <1>2, <1>3, <1>4 DEF CertificatesInv, LoadInv, Entity

(* A step that goes on from the certificate that is written.                 *)
LEMMA EntityWritten ==
  ASSUME TasksInv, CertificatesInv,
         worker["certificate"].at \in {"sheet", "cells", "clear", "members", "finish"},
         NEW c \in Certificate, c.student = worker["certificate"].job.item,
         certificates' = [certificates EXCEPT ![Entity] = c],
         UNCHANGED <<notifications, waiting, requests, stops, councilVars>>,
         NEW to \in Steps, Goes("certificate", to),
         to \in {"cells", "clear", "members", "finish"} =>
           c.state = "live" /\ c.sheet,
         to \notin {"idle", "start", "previous", "sheet", "finish"}
  PROVE  Loads
<1> DEFINE w == worker["certificate"]
<1>1. /\ w # Free /\ w.entity \in DOMAIN certificates /\ Entity = w.entity
      /\ certificates[w.entity].student = w.job.item
      /\ certificates[w.entity].state = "live"
      /\ w.at \notin {"idle", "start"}
  BY EntityFields
<1>2. /\ CertificatesTypeOK' /\ Kept /\ NotesInv' /\ LastIsThere' /\ OneCertificate'
      /\ DOMAIN certificates' = DOMAIN certificates
      /\ certificates'[w.entity] = c
  BY <1>1, CertificateRewritten
<1>3. /\ WorkerInv' /\ worker'["certificate"].at = to
      /\ worker'["certificate"].job = w.job
      /\ worker'["certificate"].child = w.child
      /\ worker'["certificate"].entity = w.entity
      /\ worker'["document"] = worker["document"]
  BY <1>1, <1>2, RowFields, WorkerAt
<1>4. LoadInv'
  BY <1>1, <1>2, <1>3, ChildStaysLast DEF LoadInv
<1> QED
  BY <1>2, <1>3, <1>4, WrittenOn

(* the sheet is copied,                                                      *)
LEMMA CopySheetStep ==
  ASSUME TasksInv, CertificatesInv, CopySheet, UNCHANGED councilVars
  PROVE  Loads
<1> DEFINE w == worker["certificate"]
           c == [certificates[Entity] EXCEPT !.sheet = TRUE]
<1>1. w.at = "sheet" /\ UNCHANGED <<notifications, waiting, requests, stops>>
  BY DEF CopySheet, Loading
<1>2. c \in Certificate /\ c.student = w.job.item /\ c.state = "live" /\ c.sheet
  BY <1>1, EntityFields DEF Certificate
<1>3. certificates' = [certificates EXCEPT ![Entity] = c]
  BY DEF CopySheet
<1>4. "cells" \in Steps /\ Goes("certificate", "cells")
  BY DEF Steps, CopySheet, LoadGoes, Goes
<1> HIDE DEF c
<1> QED
  BY <1>1, <1>2, <1>3, <1>4, EntityWritten

(* the members there were are deleted,                                       *)
LEMMA ClearMembersStep ==
  ASSUME TasksInv, CertificatesInv, ClearMembers, UNCHANGED councilVars
  PROVE  Loads
<1> DEFINE w == worker["certificate"]
           c == [certificates[Entity] EXCEPT !.members = 0]
<1>1. w.at = "clear" /\ UNCHANGED <<notifications, waiting, requests, stops>>
  BY DEF ClearMembers, Loading
<1>2. certificates[Entity].sheet
  BY <1>1, EntityFields DEF CertificatesInv, LoadInv
<1>3. c \in Certificate /\ c.student = w.job.item /\ c.state = "live" /\ c.sheet
  BY <1>1, <1>2, EntityFields DEF Certificate
<1>4. certificates' = [certificates EXCEPT ![Entity] = c]
  BY DEF ClearMembers
<1>5. "members" \in Steps /\ Goes("certificate", "members")
  BY DEF Steps, ClearMembers, LoadGoes, Goes
<1> HIDE DEF c
<1> QED
  BY <1>1, <1>3, <1>4, <1>5, EntityWritten

(* and the row's are added one by one.                                       *)
LEMMA AddMemberStep ==
  ASSUME TasksInv, CertificatesInv, AddMember, UNCHANGED councilVars
  PROVE  Loads
<1> DEFINE w == worker["certificate"]
           c == [certificates[Entity] EXCEPT !.members = @ + 1]
<1>1. w.at = "members" /\ UNCHANGED <<notifications, waiting, worker, requests, stops>>
  BY DEF AddMember, Loading
<1>2. /\ w # Free /\ w.entity \in DOMAIN certificates /\ Entity = w.entity
      /\ certificates[w.entity] \in Certificate
      /\ certificates[w.entity].student = w.job.item
      /\ certificates[w.entity].state = "live" /\ certificates[w.entity].sheet
  BY <1>1, EntityFields DEF CertificatesInv, LoadInv
<1>3. c \in Certificate /\ c.student = w.job.item /\ c.state = "live" /\ c.sheet
  BY <1>2 DEF Certificate
<1>4. certificates' = [certificates EXCEPT ![w.entity] = c]
  BY <1>2 DEF AddMember
<1> HIDE DEF c
<1>5. /\ CertificatesTypeOK' /\ Kept /\ NotesInv' /\ LastIsThere' /\ OneCertificate'
      /\ DOMAIN certificates' = DOMAIN certificates
      /\ certificates'[w.entity] = c
  BY <1>1, <1>2, <1>3, <1>4, CertificateRewritten
<1>6. WorkerInv'
  BY <1>1, <1>5, WorkerStays DEF TasksInv
<1>7. LoadInv'
  BY <1>1, <1>2, <1>3, <1>5, ChildStaysLast DEF LoadInv
<1> QED
  BY <1>1, <1>5, <1>6, <1>7, WrittenOn

(* The grades may lack a cell,                                               *)
LEMMA FillCellsStep ==
  ASSUME TasksInv, CertificatesInv, FillCells, UNCHANGED councilVars
  PROVE  Loads
<1> DEFINE w == worker["certificate"]
<1>1. w.at = "cells"
      /\ UNCHANGED <<notifications, certificates, waiting, requests, stops>>
  BY DEF FillCells, Loading, loadVars
<1>2. PICK errors \in BOOLEAN : WithErrors("certificate", "clear", errors)
  BY DEF FillCells, WithErrors
<1>3. "clear" \in Steps
  BY DEF Steps
<1>4. Kept
  BY <1>1, NothingWritten DEF TasksInv
<1>5. w # Free /\ w.entity \in DOMAIN certificates
      /\ certificates[w.entity].student = w.job.item
      /\ certificates[w.entity].state = "live" /\ certificates[w.entity].sheet
  BY <1>1, EntityFields DEF CertificatesInv, LoadInv
<1>6. /\ WorkerInv' /\ worker'["certificate"].at = "clear"
      /\ worker'["certificate"].job = w.job
      /\ worker'["certificate"].child = w.child
      /\ worker'["certificate"].entity = w.entity
      /\ worker'["document"] = worker["document"]
  BY <1>2, <1>3, <1>4, <1>5, RowFields, WorkerOfErrors
<1>7. LoadInv'
  BY <1>1, <1>5, <1>6, ChildStaysLast DEF LoadInv
<1> QED
  BY <1>1, <1>6, <1>7, QuietlyOn

(* or the certificate is deleted, unless it has members.                     *)
LEMMA DiscardCertificateStep ==
  ASSUME TasksInv, CertificatesInv, DiscardCertificate, UNCHANGED councilVars
  PROVE  Loads
<1> DEFINE w == worker["certificate"]
           c == [certificates[Entity] EXCEPT !.state = "gone"]
<1>1. w # Free /\ w.at = "cells" /\ UNCHANGED <<waiting, requests, stops, councilVars>>
  BY DEF DiscardCertificate, Loading
<1>2. CASE certificates[Entity].members # 0
  BY <1>1, <1>2, FailedRelease DEF DiscardCertificate
<1>3. CASE certificates[Entity].members = 0
  <2>1. /\ w.entity \in DOMAIN certificates /\ Entity = w.entity
        /\ certificates[w.entity] \in Certificate
        /\ certificates[w.entity].student = w.job.item
    BY <1>1, EntityFields
  <2>2. c \in Certificate /\ c.student = w.job.item /\ c.state # "live"
    BY <2>1 DEF Certificate
  <2>3. /\ certificates' = [certificates EXCEPT ![w.entity] = c]
        /\ UNCHANGED notifications
    BY <1>3, <2>1 DEF DiscardCertificate
  <2> HIDE DEF c
  <2>4. w.at \notin {"idle", "start"}
    BY <1>1
  <2>5. /\ CertificatesTypeOK' /\ Kept /\ NotesInv' /\ LastIsThere' /\ OneCertificate'
    BY <2>1, <2>2, <2>3, <2>4, CertificateRewritten
  <2>6. /\ WorkerInv' /\ worker'["certificate"].at = "fail"
        /\ worker'["certificate"].job = w.job
        /\ worker'["certificate"].child = w.child
        /\ worker'["document"] = worker["document"]
    <3>1. "fail" \in Steps /\ Goes("certificate", "fail")
      BY <1>3 DEF Steps, DiscardCertificate, LoadGoes, Goes
    <3> QED
      BY <1>1, <2>5, <3>1, RowFields, WorkerAt
  <2>7. LoadInv'
    BY <2>3, <2>4, <2>6, ChildStaysLast DEF LoadInv
  <2> QED
    BY <1>1, <2>3, <2>5, <2>6, <2>7, WrittenOn
<1> QED
  BY <1>2, <1>3

(* The members were added, or one of them could not be.                      *)
LEMMA EndMembersStep ==
  ASSUME TasksInv, CertificatesInv, EndMembers, UNCHANGED councilVars
  PROVE  Loads
<1> DEFINE w == worker["certificate"]
<1>1. w.at = "members"
      /\ UNCHANGED <<notifications, certificates, waiting, requests, stops>>
  BY DEF EndMembers, Loading, loadVars
<1>2. "finish" \in Steps /\ Kept
  BY <1>1, NothingWritten DEF Steps, TasksInv
<1>3. w # Free /\ w.entity \in DOMAIN certificates /\ Entity = w.entity
      /\ certificates[w.entity].student = w.job.item
      /\ certificates[w.entity].state = "live" /\ certificates[w.entity].sheet
  BY <1>1, EntityFields DEF CertificatesInv, LoadInv
<1>4. /\ WorkerInv' /\ worker'["certificate"].at = "finish"
      /\ worker'["certificate"].job = w.job
      /\ worker'["certificate"].child = w.child
      /\ worker'["certificate"].entity = w.entity
      /\ worker'["document"] = worker["document"]
      /\ ~worker'["certificate"].errors =>
           certificates[w.entity].members = Members
  <2>1. CASE certificates[Entity].members = Members /\ LoadGoes("finish")
    <3>1. Goes("certificate", "finish")
      BY <2>1 DEF LoadGoes, Goes
    <3>2. /\ WorkerInv' /\ worker'["certificate"].at = "finish"
          /\ worker'["certificate"].job = w.job
          /\ worker'["certificate"].child = w.child
          /\ worker'["certificate"].entity = w.entity
          /\ worker'["document"] = worker["document"]
      BY <1>2, <1>3, <3>1, RowFields, WorkerAt
    <3> QED
      BY <1>3, <2>1, <3>2
  <2>2. CASE WithErrors("certificate", "finish", TRUE)
    <3>1. /\ WorkerInv' /\ worker'["certificate"].at = "finish"
          /\ worker'["certificate"].job = w.job
          /\ worker'["certificate"].child = w.child
          /\ worker'["certificate"].entity = w.entity
          /\ worker'["certificate"].errors = TRUE
          /\ worker'["document"] = worker["document"]
      BY <1>2, <1>3, <2>2, RowFields, WorkerOfErrors
    <3> QED
      BY <3>1
  <2> QED
    BY <2>1, <2>2 DEF EndMembers, WithErrors
<1>5. LoadInv'
  BY <1>1, <1>3, <1>4, ChildStaysLast DEF LoadInv
<1> QED
  BY <1>1, <1>4, <1>5, QuietlyOn

(* The child gets its last status, and is COMPLETED only where everything is *)
(* there.                                                                    *)
LEMMA ChildClosed ==
  ASSUME TasksInv, CertificatesInv,
         worker["certificate"].at \notin {"idle", "start"},
         worker["certificate"] # Free, Release("certificate"),
         Kept, NotesInv', DOMAIN notifications' = DOMAIN notifications,
         \A m \in DOMAIN notifications :
           m # worker["certificate"].child => notifications'[m] = notifications[m],
         LET w == worker["certificate"] IN
           notifications'[w.child].status = "COMPLETED" =>
             /\ w.at = "finish" /\ ~w.errors,
         UNCHANGED <<certificates, waiting, requests, stops, councilVars>>
  PROVE  Loads
<1> USE DEF TasksInv
<1> DEFINE w == worker["certificate"]
<1>1. WorkerInv' /\ worker'["certificate"] = Free
      /\ worker'["document"] = worker["document"]
  BY RowFields, WorkerReleased
<1>2. TasksInv'
  BY <1>1, RequestsLess, WaitingStays, TablesAlone DEF CertificatesTypeOK
<1>3. LoadInv'
  BY <1>1 DEF LoadInv, Free
<1>4. OneCertificate'
  BY DEF CertificatesInv, OneCertificate
<1>5. \A s \in Students : \A n : LastOwn(n, s)' <=> LastOwn(n, s)
  <2>1. \A m \in DOMAIN notifications :
           /\ m \in Roots' <=> m \in Roots
           /\ notifications'[m].item = notifications[m].item
           /\ notifications'[m].carried = notifications[m].carried
    BY DEF Kept, Same, Roots
  <2>2. \A s \in Students : Own(s)' = Own(s)
    BY <2>1 DEF Own
  <2> QED
    BY <2>2 DEF LastOwn
<1>6. LastIsThere'
  <2> SUFFICES ASSUME NEW s \in Students, NEW n \in DOMAIN notifications,
                      LastOwn(n, s), notifications'[n].status = "COMPLETED"
               PROVE  \E j \in DOMAIN certificates :
                        certificates[j] = [student |-> s, state |-> "live",
                                           sheet |-> TRUE, members |-> Members]
    BY <1>5 DEF LastIsThere
  <2>1. CASE n # w.child
    BY <2>1 DEF CertificatesInv, LastIsThere
  <2>2. CASE n = w.child
    <3>1. w.at = "finish" /\ ~w.errors
      BY <2>2
    <3>2. s = w.job.item
      <4>1. LastOwn(w.child, w.job.item)
        BY DEF CertificatesInv, LoadInv
      <4> QED
        BY <2>2, <4>1 DEF LastOwn, Own
    <3>3. /\ w.entity \in DOMAIN certificates
          /\ certificates[w.entity].student = s
          /\ certificates[w.entity].state = "live"
          /\ certificates[w.entity].sheet
          /\ certificates[w.entity].members = Members
      BY <3>1, <3>2 DEF CertificatesInv, LoadInv
    <3>4. certificates[w.entity] \in Certificate
      BY <3>1, EntityFields
    <3>5. certificates[w.entity] = [student |-> s, state |-> "live",
                                    sheet |-> TRUE, members |-> Members]
      BY <3>3, <3>4 DEF Certificate
    <3> QED
      BY <3>3, <3>5
  <2> QED
    BY <2>1, <2>2
<1> QED
  BY <1>1, <1>2, <1>3, <1>4, <1>6 DEF Loads, CertificatesInv

(* A row that failed before it had a certificate.                            *)
LEMMA FailRowStep ==
  ASSUME TasksInv, CertificatesInv, FailRow, UNCHANGED councilVars
  PROVE  Loads
<1> DEFINE w == worker["certificate"]
<1>1. w # Free /\ w.at = "fail" /\ w.at \notin {"idle", "start"}
      /\ Release("certificate") /\ SetStatus(w.child, "FAILURE")
      /\ UNCHANGED <<certificates, waiting, requests, stops, councilVars>>
  BY DEF FailRow, Loading, loadVars
<1>2. "FAILURE" \in NotificationStatus
  BY DEF NotificationStatus
<1>3. /\ Kept /\ NotesInv' /\ DOMAIN notifications' = DOMAIN notifications
      /\ \A m \in DOMAIN notifications :
           m # w.child => notifications'[m] = notifications[m]
      /\ w.child \in DOMAIN notifications => notifications'[w.child].status = "FAILURE"
  BY <1>1, <1>2, StatusWritten DEF TasksInv
<1>4. w.child \in DOMAIN notifications
  BY <1>1 DEF CertificatesInv, LoadInv, LastOwn, Own
<1>5. notifications'[w.child].status # "COMPLETED"
  BY <1>3, <1>4
<1> QED
  BY <1>1, <1>3, <1>5, ChildClosed

(* A row that is done.                                                       *)
LEMMA FinishRowStep ==
  ASSUME TasksInv, CertificatesInv, FinishRow, UNCHANGED councilVars
  PROVE  Loads
<1> DEFINE w == worker["certificate"]
<1>1. w # Free /\ w.at = "finish" /\ w.at \notin {"idle", "start"}
      /\ Release("certificate")
      /\ UNCHANGED <<certificates, waiting, requests, stops, councilVars>>
  BY DEF FinishRow, Loading, loadVars
<1>2. w.child \in DOMAIN notifications /\ notifications[w.child].item = w.job.item
  BY <1>1 DEF CertificatesInv, LoadInv, LastOwn, Own
<1>3. CASE ~w.errors
  <2>1. SetStatus(w.child, "COMPLETED") /\ "COMPLETED" \in NotificationStatus
    BY <1>3 DEF FinishRow, NotificationStatus
  <2>2. /\ Kept /\ NotesInv' /\ DOMAIN notifications' = DOMAIN notifications
        /\ \A m \in DOMAIN notifications :
             m # w.child => notifications'[m] = notifications[m]
    BY <1>1, <2>1, StatusWritten DEF TasksInv
  <2> QED
    BY <1>1, <1>3, <2>2, ChildClosed
<1>4. CASE w.errors
  <2> DEFINE x == [notifications[w.child] EXCEPT !.status = "WITH_ERRORS",
                                                !.entities = Entity]
  <2>1. notifications \in Seq(Notification) /\ notifications[w.child] \in Notification
        /\ w.child \in 1..Len(notifications)
        /\ Noted(notifications[w.child])
    BY <1>2, LenProperties, ElementOfSeq DEF TasksInv, NotesInv
  <2>2. w.entity \in DOMAIN certificates /\ Entity = w.entity /\ w.entity \in Nat
        /\ certificates[w.entity].student = w.job.item
    BY <1>1, EntityFields, RowFields
  <2>3. /\ x \in Notification /\ Same(x, notifications[w.child])
        /\ x.entities = w.entity /\ x.status = "WITH_ERRORS"
    BY <2>1, <2>2 DEF Notification, NotificationStatus, Same
  <2>4. Noted(x)
    BY <1>2, <2>1, <2>2, <2>3 DEF Noted, Traced, Same
  <2>5. notifications' = [notifications EXCEPT ![w.child] = x]
    BY <1>4 DEF FinishRow
  <2> HIDE DEF x
  <2>6. /\ notifications' \in Seq(Notification)
        /\ DOMAIN notifications' = DOMAIN notifications
        /\ \A m \in DOMAIN notifications :
             notifications'[m] = IF m = w.child THEN x ELSE notifications[m]
    BY <2>1, <2>3, <2>5, ExceptSeq, LenProperties
  <2>7. Kept
    BY <1>1, <2>3, <2>6 DEF Kept, Same
  <2>8. NotesInv'
    <3>1. \A y : Noted(y) => Noted(y)'
      BY <2>7, NotedStays
    <3>2. \A m \in DOMAIN notifications : Noted(notifications[m])'
      BY <2>4, <2>6, <3>1 DEF TasksInv, NotesInv
    <3> QED
      BY <2>6, <3>2 DEF NotesInv
  <2>9. notifications'[w.child].status # "COMPLETED"
    BY <1>2, <2>3, <2>6
  <2> QED
    BY <1>1, <2>6, <2>7, <2>8, <2>9, ChildClosed
<1> QED
  BY <1>3, <1>4

(* Every step of the processor of certificates.                              *)
LEMMA LoadRowStep ==
  ASSUME TasksInv, CertificatesInv, LoadRow, UNCHANGED councilVars
  PROVE  Loads
<1>1. CASE ThrowInLoad
  BY <1>1, FailedRelease DEF ThrowInLoad, Loading, loadVars
<1>2. CASE TooManyRequests
  BY <1>2, QuietRelease DEF TooManyRequests, Loading, loadVars
<1> QED
  BY <1>1, <1>2, CreateLoadChildStep, SkipRowStep, RemovePreviousStep,
     ValidateRowStep, SaveCertificateStep, CopySheetStep, FillCellsStep,
     DiscardCertificateStep, FailRowStep, ClearMembersStep, AddMemberStep,
     EndMembersStep, FinishRowStep
  DEF LoadRow

-------------------------------------------------------------------------------
(***************************************************************************)
(* The theorems.                                                           *)
(***************************************************************************)
AllInv == TasksInv /\ StalledInv /\ RegenerationInv /\ CertificatesInv

(* It all holds of the empty tables.                                         *)
LEMMA InitHolds ==
  ASSUME LongTasksInit
  PROVE  AllInv
<1> USE DEF LongTasksInit, JobsInit, RegenerationInit, BulkLoadInit
<1>1. NotesInv
  <2>1. notifications \in Seq(Notification) /\ DOMAIN notifications = {}
    BY EmptySeq
  <2> QED
    BY <2>1 DEF NotesInv
<1>2. WaitingInv /\ StalledInv /\ WorkerInv /\ RequestsInv
  <2>1. \A q \in Queues : <<>> \in Seq(TaskJob(q)) /\ <<>> \in Seq(Job)
    BY EmptySeq
  <2> QED
    BY <2>1 DEF WaitingInv, StalledInv, WorkerInv, RequestsInv
<1>3. stops \in 0..MaxStops
  BY JobsAssumption
<1>4. DocumentsTypeOK
  BY DEF DocumentsTypeOK, Doc, File
<1>5. certificates \in Seq(Certificate) /\ DOMAIN certificates = {}
  BY EmptySeq
<1>6. worker["document"] = Free /\ worker["certificate"] = Free
  BY TheQueues
<1>7. ChildInv /\ LoadInv
  BY <1>6 DEF ChildInv, LoadInv, Free
<1>8. FilesInv /\ FileShowsVariables
  BY <1>6 DEF FilesInv, FileShowsVariables, Free
<1>9. DOMAIN notifications = {}
  BY EmptySeq
<1>10. LastIsThere /\ OneCertificate
  BY <1>5, <1>9 DEF LastIsThere, OneCertificate
<1> QED
  BY <1>1, <1>2, <1>3, <1>4, <1>5, <1>7, <1>8, <1>10
  DEF AllInv, TasksInv, RegenerationInv, CertificatesInv, CertificatesTypeOK

(* The steps of a handler touch no document, certificate or child.           *)
LEMMA HandleStep ==
  ASSUME AllInv, NEW r \in requests, Handle(r)
  PROVE  AllInv'
<1> USE DEF AllInv
<1>1. UNCHANGED <<worker, certificates, documents, files, nextFile, stalled>>
  BY DEF Handle, Enqueue, Finish, MarkRetried, ReadDocuments, NoDocuments,
         ReadRetried, loadVars, councilVars
<1>2. TasksInv'
  BY EnqueueTyped, FinishTyped, MarkRetriedTyped, ReadDocumentsTyped,
     NoDocumentsTyped, ReadRetriedTyped DEF Handle
<1>3. Kept /\ OwnSame
  <2>1. CASE UNCHANGED notifications
    BY <1>1, <2>1, NothingWritten, OwnSameQuietly DEF TasksInv
  <2>2. CASE Finish(r)
    <3>1. LastStatus(r) \in NotificationStatus /\ r.root \in Roots
      BY RequestFields DEF LastStatus, NotificationStatus, TasksInv
    <3> QED
      BY <1>1, <2>2, <3>1, StatusWritten, OwnSameByStatus DEF Finish, TasksInv
  <2>3. CASE MarkRetried(r)
    <3>1. r.root \in DOMAIN notifications
      BY RequestFields DEF TasksInv, Roots
    <3>2. notifications[r.root].retry \in Roots \cup {0}
      BY <3>1 DEF TasksInv, NotesInv, Noted, RootsOf
    <3>3. 0 \notin DOMAIN notifications
      BY LenProperties DEF TasksInv, NotesInv
    <3>4. "COMPLETED" \in NotificationStatus
      BY DEF NotificationStatus
    <3> QED
      BY <1>1, <2>3, <3>2, <3>3, <3>4, StatusWritten, OwnSameByStatus
      DEF MarkRetried, TasksInv
  <2>4. CASE NoDocuments(r)
    <3>1. /\ Kept
          /\ DOMAIN notifications' = DOMAIN notifications \cup {Len(notifications) + 1}
          /\ \A n \in DOMAIN notifications :
               n # r.root => notifications'[n] = notifications[n]
          /\ notifications'[Len(notifications) + 1].item = "none"
      BY <1>1, <2>4, NoDocumentsWritten DEF TasksInv
    <3>2. Len(notifications) + 1 \notin DOMAIN notifications
      BY LenProperties DEF TasksInv, NotesInv
    <3>3. r.root \in Roots
      BY RequestFields DEF TasksInv
    <3>4. "none" \notin Students
      BY JobsAssumption, BulkLoadAssumption
    <3> QED
      BY <3>1, <3>2, <3>3, <3>4, OwnSameByNote
  <2> QED
    BY <2>1, <2>2, <2>3, <2>4 DEF Handle, Enqueue, ReadDocuments, ReadRetried
<1>4. RegenerationInv'
  BY <1>1, <1>3, RegenerationFrame
<1>5. CertificatesInv'
  BY <1>1, <1>3, LoadFrame
<1> QED
  BY <1>1, <1>2, <1>3, <1>4, <1>5, StalledStays

(* Nor does a job that is taken from its queue.                              *)
LEMMA TakeStep ==
  ASSUME AllInv, NEW q \in Queues, Take(q), UNCHANGED <<councilVars, loadVars>>
  PROVE  AllInv'
<1> USE DEF AllInv
<1>1. TasksInv' /\ worker'[q].at = "start"
      /\ \A p \in Queues : p # q => worker'[p] = worker[p]
  BY TakeTyped
<1>2. UNCHANGED <<notifications, certificates, stalled>>
  BY DEF Take, loadVars
<1>3. Kept /\ OwnSame
  BY <1>2, NothingWritten, OwnSameQuietly DEF TasksInv
<1>4. \A p \in Queues : worker'[p] = worker[p] \/ worker'[p].at \in {"idle", "start"}
  BY <1>1
<1>5. RegenerationInv'
  BY <1>3, <1>4, TheQueues, RegenerationFrame DEF councilVars
<1>6. CertificatesInv'
  BY <1>2, <1>3, <1>4, TheQueues, LoadFrame
<1> QED
  BY <1>1, <1>2, <1>3, <1>5, <1>6, StalledStays

(* Nor does one that waits again.                                            *)
LEMMA RecoverStep ==
  ASSUME AllInv, NEW q \in Queues, Recover(q), UNCHANGED <<councilVars, loadVars>>
  PROVE  AllInv'
<1> USE DEF AllInv
<1>1. UNCHANGED <<notifications, certificates, worker, documents, files, nextFile>>
  BY DEF Recover, loadVars, councilVars
<1>2. Kept /\ OwnSame /\ TasksInv' /\ StalledInv'
  BY <1>1, RecoverTyped, OwnSameQuietly
<1>3. RegenerationInv' /\ CertificatesInv'
  BY <1>1, <1>2, RegenerationFrame, LoadFrame
<1> QED
  BY <1>2, <1>3

(* The start of a load writes a main notification.                           *)
LEMMA LoadRequestsStep ==
  ASSUME AllInv, LoadRequests, UNCHANGED councilVars
  PROVE  AllInv'
<1> USE DEF AllInv
<1>1. TasksInv'
  BY LoadRequestsTyped
<1>2. PICK sheet \in Sheets, retry \in RootsOf("certificate") \cup {0} :
        Start("certificate", sheet, retry) /\ UNCHANGED certificates
  BY DEF LoadRequests, StartLoad, RetryLoad, RootsOf, loadVars
<1>3. sheet \in Seq(About("certificate"))
  BY BulkLoadAssumption, TheQueues
<1>4. /\ Kept
      /\ DOMAIN notifications' = DOMAIN notifications \cup {Len(notifications) + 1}
      /\ \A n \in DOMAIN notifications :
           notifications'[n] = notifications[n] /\ n < Len(notifications) + 1
      /\ notifications'[Len(notifications) + 1].parent = 0
  BY <1>2, <1>3, TheQueues, StartTyped DEF TasksInv
<1>5. Len(notifications) + 1 \notin DOMAIN notifications
  BY LenProperties DEF TasksInv, NotesInv
<1>6. OwnSame
  BY <1>4, <1>5, OwnSameByNote
<1>7. UNCHANGED <<worker, stalled>>
  BY <1>2 DEF Start
<1>8. RegenerationInv'
  BY <1>4, <1>7, RegenerationFrame DEF councilVars
<1>9. CertificatesInv'
  BY <1>2, <1>6, <1>7, LoadFrame
<1> QED
  BY <1>1, <1>4, <1>7, <1>8, <1>9, StalledStays

(* A restart leaves the tables alone and the processors at the beginning.    *)
LEMMA RestartStep ==
  ASSUME AllInv, Restart
  PROVE  AllInv'
<1> USE DEF AllInv
<1>1. TasksInv' /\ StalledInv' /\ \A q \in Queues : worker'[q] = Free
  BY RestartTyped
<1>2. UNCHANGED <<notifications, certificates, documents, files, nextFile>>
  BY DEF Restart, Stop, StopRegeneration, loadVars
<1>3. Kept /\ OwnSame
  BY <1>2, NothingWritten, OwnSameQuietly DEF TasksInv
<1>4. worker'["document"].at = "idle" /\ worker'["certificate"].at = "idle"
  BY <1>1, TheQueues DEF Free
<1>5. RegenerationInv'
  BY <1>2, <1>3, <1>4, RegenerationFrame
<1>6. CertificatesInv'
  BY <1>2, <1>3, <1>4, LoadFrame
<1> QED
  BY <1>1, <1>5, <1>6

(* Nor do the processors touch what is stalled.                              *)
LEMMA ProcessorsAlone ==
  Recreate \/ LoadRow => UNCHANGED <<waiting, requests, stalled>>
  BY DEF Recreate, CreateChild, CopyTemplate, FillCopy, DriveRefuses, SaveCopy,
         CompleteChild, FailChild, OverwriteChild,
         LoadRow, CreateLoadChild, SkipRow, RemovePrevious, ValidateRow,
         SaveCertificate, CopySheet, ThrowInLoad, TooManyRequests, FillCells,
         DiscardCertificate, FailRow, ClearMembers, AddMember, EndMembers,
         FinishRow

(* Every step keeps it all.                                                  *)
LEMMA StepHolds ==
  ASSUME AllInv, [LongTasksNext]_taskVars
  PROVE  AllInv'
<1> USE DEF AllInv
<1>1. ASSUME Regenerates, UNCHANGED stalled
      PROVE  AllInv'
  BY <1>1, LoadFrame, StalledStays DEF Regenerates
<1>2. ASSUME Loads, UNCHANGED councilVars, UNCHANGED stalled
      PROVE  AllInv'
  BY <1>2, RegenerationFrame, StalledStays DEF Loads, councilVars
<1>3. ASSUME NEW r \in requests, Handle(r)
      PROVE  AllInv'
  BY <1>3, HandleStep
<1>4. ASSUME NEW q \in Queues, Process(q)
      PROVE  AllInv'
  <2>1. Recreate \/ LoadRow => UNCHANGED stalled
    BY ProcessorsAlone
  <2> QED
    BY <1>1, <1>2, <1>4, <2>1, TakeStep, RecoverStep, RecreateStep, LoadRowStep
    DEF Process
<1>5. CASE CouncilRequests /\ UNCHANGED loadVars
  <2>1. UNCHANGED stalled
    BY <1>5 DEF CouncilRequests, UpdateCouncil, UpdateQuietly, StartRegeneration,
                Start, BeginRemoval, DeleteFile, DeleteRow, jobVars
  <2> QED
    BY <1>1, <1>5, <2>1, CouncilRequestsStep
<1>6. CASE LoadRequests /\ UNCHANGED councilVars
  BY <1>6, LoadRequestsStep
<1>7. CASE Restart
  BY <1>7, RestartStep
<1>8. CASE UNCHANGED taskVars
  <2>1. UNCHANGED <<jobVars, councilVars, loadVars>>
    BY <1>8 DEF taskVars
  <2>2. /\ UNCHANGED <<notifications, waiting, worker, requests, stops, stalled>>
        /\ UNCHANGED <<documents, files, nextFile, certificates>>
    BY <2>1 DEF jobVars, councilVars, loadVars
  <2>3. Kept /\ OwnSame /\ NotesInv' /\ CertificatesTypeOK'
    BY <2>2, NothingWritten, OwnSameQuietly DEF TasksInv
  <2>4. TasksInv'
    BY <2>1, <2>2, <2>3, WaitingStays, WorkerStays, RequestsLess, TablesAlone
    DEF TasksInv
  <2>5. RegenerationInv' /\ CertificatesInv'
    BY <2>2, <2>3, RegenerationFrame, LoadFrame
  <2> QED
    BY <2>2, <2>3, <2>4, <2>5, StalledStays
<1> QED
  BY <1>3, <1>4, <1>5, <1>6, <1>7, <1>8 DEF LongTasksNext

(* The invariant holds of every behaviour, with every failure and restart.   *)
LEMMA AlwaysAll == LongTasksSpec => []AllInv
<1>1. LongTasksInit => AllInv
  BY InitHolds
<1>2. AllInv /\ [LongTasksNext]_taskVars => AllInv'
  BY StepHolds
<1> QED
  BY <1>1, <1>2, PTL DEF LongTasksSpec

(* Notifications, jobs, documents and certificates are of their types, and a *)
(* student whose last row is COMPLETED has a certificate with its sheet and  *)
(* all its members, whatever is loaded, tried again or stopped.              *)
THEOREM CompletedLoadsAreThere == LongTasksSpec => []LongTasksInv
<1>1. AllInv => LongTasksTypeOK
  BY DEF AllInv, TasksInv, StalledInv, NotesInv, WaitingInv, WorkerInv, RequestsInv,
         TaskRequest, LongTasksTypeOK, JobsTypeOK
<1>2. AllInv => CompletedIsThere
  <2> SUFFICES ASSUME AllInv, NEW s \in Students, Own(s) # {},
                      notifications[Max(Own(s))].status = "COMPLETED"
               PROVE  \E i \in DOMAIN certificates :
                        certificates[i] = [student |-> s, state |-> "live",
                                           sheet |-> TRUE, members |-> Members]
    BY DEF CompletedIsThere, Own
  <2>1. /\ DOMAIN notifications = 1..Len(notifications)
        /\ Len(notifications) \in Nat
    BY LenProperties DEF AllInv, TasksInv, NotesInv
  <2>2. Own(s) \in SUBSET Nat /\ \A n \in Own(s) : n <= Len(notifications)
    BY <2>1 DEF Own
  <2>3. LastOwn(Max(Own(s)), s) /\ Max(Own(s)) \in DOMAIN notifications
    BY <2>1, <2>2, MaxOf DEF LastOwn, Own
  <2> QED
    BY <2>3 DEF AllInv, CertificatesInv, LastIsThere
<1>3. AllInv => LongTasksInv
  BY <1>1, <1>2 DEF LongTasksInv
<1> QED
  BY <1>3, AlwaysAll, PTL

(* However often a student is loaded, at most one certificate of theirs is   *)
(* not deleted.                                                              *)
THEOREM LoadsLeaveOneCertificate == LongTasksSpec => []OneCertificate
<1>1. AllInv => OneCertificate
  BY DEF AllInv, CertificatesInv
<1> QED
  BY <1>1, AlwaysAll, PTL

(* The file of a document shows the variables that are kept in its row,      *)
(* whatever is regenerated, removed or stopped.                              *)
THEOREM FilesShowTheirVariables == LongTasksSpec => []FileShowsVariables
<1>1. AllInv => FileShowsVariables
  BY DEF AllInv, RegenerationInv
<1> QED
  BY <1>1, AlwaysAll, PTL

-------------------------------------------------------------------------------
(***************************************************************************)
(* What a COMPLETED regeneration says of the documents (CouncilShown).     *)
(***************************************************************************)
(* The jobs of the regenerations: 0 is the place of the one that runs, and   *)
(* some are stalled.                                                         *)
Places == DOMAIN waiting["document"] \cup
            (IF worker["document"] = Free THEN {} ELSE {0})

JobAt(i) == IF i = 0 THEN worker["document"].job ELSE waiting["document"][i]

Stalled == Range(stalled["document"])

(* What those jobs will write, and what was read for it.                     *)
Writes(j) == [root |-> j.root, version |-> j.data]

Left == {Writes(JobAt(i)) : i \in Places} \cup {Writes(j) : j \in Stalled}

(* The main notifications of regenerations and their children.               *)
Regenerations == RootsOf("document")

ChildrenOf(n) == {m \in DOMAIN notifications : notifications[m].parent = n}

(* Every task has one handler.                                               *)
OneEach == \A r, s \in requests : r.root = s.root => r = s

(* The children of a regeneration are about documents.                       *)
ItemsInv ==
  \A n \in Regenerations : \A m \in ChildrenOf(n) :
    notifications[m].item \in Docs \cup {"none"}

(* A regeneration reads once.  Its jobs write what it read, and while one is *)
(* left it is not COMPLETED.                                                 *)
ReadInv ==
  /\ Left \subseteq council.read
  /\ \A x \in council.read : x.root \in Regenerations
  /\ \A x, y \in council.read : x.root = y.root => x = y
  /\ \A x \in Left : notifications[x.root].status # "COMPLETED"

Asked == {r \in requests : r.queue = "document"}

(* The documents are all in the list, each once.                             *)
Listed(r) ==
  /\ DOMAIN documents \subseteq Range(r.items)
  /\ IsInjective(r.items) /\ r.items # <<>>

(* A regeneration that has no jobs yet.                                      *)
Prepared(r) ==
  /\ ChildrenOf(r.root) = {} /\ \A x \in Left : x.root # r.root
  /\ notifications[r.root].status # "COMPLETED"
  /\ r.at = "prepare" => \A x \in council.read : x.root # r.root
  /\ r.at = "enqueue" => Listed(r) /\ Writes(r) \in council.read

PreparingInv == \A r \in Asked : r.at \in {"prepare", "enqueue"} => Prepared(r)

Of(r) == {i \in Places : JobAt(i).root = r.root}

(* Each document of the list has one job that is left or one child, or both  *)
(* while it is made anew.                                                    *)
Counted(r) ==
  /\ \A i \in Of(r) : JobAt(i).item \in Range(r.items)
  /\ \A i, k \in Of(r) : JobAt(i).item = JobAt(k).item => i = k
  /\ \A m \in ChildrenOf(r.root) :
       /\ notifications[m].item \in Range(r.items)
       /\ \A i \in Of(r) : JobAt(i).item = notifications[m].item =>
            i = 0 /\ worker["document"].at # "start" /\ worker["document"].child = m
  /\ \A m, n \in ChildrenOf(r.root) :
       notifications[m].item = notifications[n].item => m = n

(* A regeneration whose jobs are awaited: none of them was left by a stop.   *)
Awaited(r) == Listed(r) /\ Counted(r) /\ \A j \in Stalled : j.root # r.root

AwaitedInv == \A r \in Asked : r.at = "wait" => Awaited(r)

(* The child of the document that is made anew is the last about it, and     *)
(* what it will say.                                                         *)
RunInv ==
  LET w == worker["document"] IN
  w.at \notin {"idle", "start"} =>
    /\ w.child \in ChildrenOf(w.job.root)
    /\ notifications[w.child].item = w.job.item /\ LastAbout(w.child)
    /\ w.at = "complete" /\ w.job.item \in DOMAIN documents =>
         documents[w.job.item].variables = w.job.data

(* A document whose last child is COMPLETED shows what that one's            *)
(* regeneration read.                                                        *)
ShownInv ==
  \A m \in DOMAIN notifications :
    LET x == notifications[m] IN
    x.item \in DOMAIN documents /\ x.status = "COMPLETED" /\ LastAbout(m) =>
      [root |-> x.parent, version |-> documents[x.item].variables] \in council.read

(* A COMPLETED regeneration that read documents has a COMPLETED child for    *)
(* each of them.                                                             *)
DoneInv ==
  \A x \in council.read, d \in DOMAIN documents :
    notifications[x.root].status = "COMPLETED" =>
      \E m \in ChildrenOf(x.root) :
        notifications[m].item = d /\ notifications[m].status = "COMPLETED"

CouncilInv ==
  /\ OneEach /\ ItemsInv /\ ReadInv /\ PreparingInv /\ AwaitedInv
  /\ RunInv /\ ShownInv /\ DoneInv

-------------------------------------------------------------------------------
(***************************************************************************)
(* What most steps leave alone.                                            *)
(***************************************************************************)

(* A job of the queue has the fields of one.                                 *)
LEMMA PlaceFields ==
  ASSUME TasksInv, NEW i \in Places
  PROVE  /\ i \in Nat /\ JobAt(i).root \in Regenerations /\ JobAt(i).root \in Nat
         /\ JobAt(i).item \in Docs
<1>1. JobAt(i) \in TaskJob("document") /\ i \in Nat
  <2>1. CASE i = 0 /\ worker["document"] # Free
    BY <2>1, TheQueues, BusyFields DEF JobAt, TasksInv
  <2>2. CASE i \in DOMAIN waiting["document"]
    <3>1. waiting["document"] \in Seq(TaskJob("document"))
      BY TheQueues DEF TasksInv, WaitingInv
    <3>2. i \in 1..Len(waiting["document"])
      BY <2>2, <3>1, LenProperties
    <3>3. waiting["document"][i] \in TaskJob("document") /\ i \in Nat /\ i # 0
      BY <3>1, <3>2, ElementOfSeq, LenProperties
    <3> QED
      BY <3>3 DEF JobAt
  <2> QED
    BY <2>1, <2>2 DEF Places
<1> QED
  BY <1>1, TheQueues DEF TaskJob, Job, Regenerations

(* So are the main notifications of the council's requests.                  *)
LEMMA AskedFields ==
  ASSUME TasksInv, NEW r \in Asked
  PROVE  /\ r \in requests /\ r.root \in Regenerations /\ r.items \in Seq(Docs)
         /\ r.root \in DOMAIN notifications /\ r.root \in Nat
<1>1. r \in requests /\ r.queue = "document" /\ RequestsInv
  BY DEF Asked, TasksInv
<1>2. r.root \in RootsOf("document") /\ r.items \in Seq(Docs) /\ r \in Request
  BY <1>1, TheQueues, RequestFields
<1> QED
  BY <1>1, <1>2 DEF Regenerations, RootsOf, Roots, Request

LEMMA PlacesNext ==
  ASSUME TasksInv'
  PROVE  /\ \A i \in Places' : i \in Nat
         /\ 0 \in Places' <=> worker'["document"] # Free
<1>1. waiting'["document"] \in Seq(Job)
  BY TheQueues DEF TasksInv, WaitingInv
<1>2. DOMAIN waiting'["document"] = 1..Len(waiting'["document"])
      /\ Len(waiting'["document"]) \in Nat
  BY <1>1, LenProperties
<1> QED
  BY <1>2 DEF Places

(* No more of some notifications are COMPLETED.                              *)
NoMoreCompleted(S) ==
  \A m \in S :
    notifications'[m].status = "COMPLETED" => notifications[m].status = "COMPLETED"

(* The regenerations have the children they had,                             *)
ChildrenSame ==
  \A n \in Regenerations :
    /\ ChildrenOf(n)' = ChildrenOf(n)
    /\ \A m \in ChildrenOf(n) : notifications'[m].item = notifications[m].item

(* and what was COMPLETED of one that is so stays COMPLETED.                 *)
DoneStays ==
  \A n \in Regenerations : notifications[n].status = "COMPLETED" =>
    \A m \in ChildrenOf(n) :
      notifications[m].status = "COMPLETED" => notifications'[m].status = "COMPLETED"

NotesSame ==
  /\ Regenerations' = Regenerations /\ NoMoreCompleted(Regenerations)
  /\ ChildrenSame /\ DoneStays

(* Of the notifications about documents none is new,                         *)
NoneAbout ==
  \A m \in DOMAIN notifications' :
    notifications'[m].item \in Docs => m \in DOMAIN notifications

(* and no more are COMPLETED.                                                *)
QuietDocs ==
  \A m \in DOMAIN notifications' :
    notifications'[m].item \in Docs /\ notifications'[m].status = "COMPLETED" =>
      m \in DOMAIN notifications /\ notifications[m].status = "COMPLETED"

(* The jobs are those there were, d places further back.                     *)
Shifted(d) ==
  \A i \in Places' :
    /\ i + d \in Places
    /\ JobAt(i)'.root = JobAt(i + d).root
    /\ JobAt(i)'.item = JobAt(i + d).item
    /\ JobAt(i)'.data = JobAt(i + d).data

(* The job that runs goes on, with its child if it has one.                  *)
RunsOn(d) ==
  \A i \in Places' : i + d = 0 =>
    /\ i = 0
    /\ worker["document"].at # "start" =>
         /\ worker'["document"].at # "start"
         /\ worker'["document"].child = worker["document"].child

(* Documents are removed, and none is made anew.                             *)
DocsLess ==
  /\ DOMAIN documents' \subseteq DOMAIN documents
  /\ \A d \in DOMAIN documents' : documents'[d].variables = documents[d].variables

(* Handlers that are there had no less to go on before.                      *)
AskedLess ==
  \A r \in Asked' : r.at \in {"prepare", "enqueue", "wait"} => r \in Asked

(* There is no more to write.                                                *)
LEMMA LeftLess ==
  ASSUME NEW d, Shifted(d), Stalled' \subseteq Stalled
  PROVE  Left' \subseteq Left
<1>1. ASSUME NEW i \in Places'
      PROVE  Writes(JobAt(i))' \in Left
  <2>1. i + d \in Places /\ Writes(JobAt(i))' = Writes(JobAt(i + d))
    BY DEF Shifted, Writes
  <2> QED
    BY <2>1 DEF Left
<1>2. ASSUME NEW j \in Stalled'
      PROVE  Writes(j) \in Left
  BY <1>2 DEF Left
<1> QED
  BY <1>1, <1>2 DEF Left, Writes

(* What was read stays so,                                                   *)
LEMMA ReadKept ==
  ASSUME ReadInv, Kept, Left' \subseteq Left, council'.read = council.read,
         NoMoreCompleted(Regenerations)
  PROVE  ReadInv'
<1>1. Regenerations \subseteq Regenerations'
  BY RootsStay DEF Regenerations
<1>2. \A x \in Left : x.root \in Regenerations
  BY DEF ReadInv
<1> QED
  BY <1>1, <1>2 DEF ReadInv, NoMoreCompleted

(* and what is prepared, where no jobs come,                                 *)
LEMMA PreparedKept ==
  ASSUME NEW r \in Asked, Prepared(r), ChildrenOf(r.root)' = ChildrenOf(r.root),
         Left' \subseteq Left, council'.read = council.read,
         NoMoreCompleted({r.root}), DOMAIN documents' \subseteq DOMAIN documents
  PROVE  Prepared(r)'
<1>1. Listed(r) => Listed(r)'
  BY DEF Listed
<1> QED
  BY <1>1 DEF Prepared, NoMoreCompleted, Writes

(* what is counted,                                                          *)
LEMMA CountedKept ==
  ASSUME TasksInv, TasksInv', NEW r \in Asked, Counted(r), ChildrenSame,
         NEW d \in {0, 1}, Shifted(d), RunsOn(d)
  PROVE  Counted(r)'
<1>1. \A i \in Places' : i \in Nat
  BY PlacesNext
<1>2. /\ ChildrenOf(r.root)' = ChildrenOf(r.root)
      /\ \A m \in ChildrenOf(r.root) : notifications'[m].item = notifications[m].item
  BY AskedFields DEF ChildrenSame
<1>3. \A i \in Of(r)' : /\ i \in Places' /\ i + d \in Of(r)
                        /\ JobAt(i)'.item = JobAt(i + d).item
  BY DEF Of, Shifted
<1>4. \A i \in Of(r)' : JobAt(i)'.item \in Range(r.items)
  BY <1>3 DEF Counted
<1>5. ASSUME NEW i \in Of(r)', NEW k \in Of(r)', JobAt(i)'.item = JobAt(k)'.item
      PROVE  i = k
  <2>1. i + d = k + d
    BY <1>3, <1>5 DEF Counted
  <2> QED
    BY <1>1, <1>3, <2>1
<1>6. ASSUME NEW m \in ChildrenOf(r.root), NEW i \in Of(r)',
             JobAt(i)'.item = notifications[m].item
      PROVE  i = 0 /\ worker'["document"].at # "start"
             /\ worker'["document"].child = m
  <2>1. i + d = 0 /\ worker["document"].at # "start"
        /\ worker["document"].child = m
    BY <1>3, <1>6 DEF Counted
  <2> QED
    BY <1>3, <2>1 DEF RunsOn
<1> QED
  BY <1>2, <1>4, <1>5, <1>6 DEF Counted

(* what is awaited,                                                          *)
LEMMA AwaitedKept ==
  ASSUME TasksInv, TasksInv', AwaitedInv, ChildrenSame,
         \A r \in Asked' : r.at = "wait" => r \in Asked,
         NEW d \in {0, 1}, Shifted(d), RunsOn(d), Stalled' \subseteq Stalled,
         DOMAIN documents' \subseteq DOMAIN documents
  PROVE  AwaitedInv'
<1> SUFFICES ASSUME NEW r \in Asked', r.at = "wait"
             PROVE  Awaited(r)'
  BY DEF AwaitedInv
<1>1. r \in Asked /\ Awaited(r)
  BY DEF AwaitedInv
<1>2. Counted(r)'
  BY <1>1, CountedKept DEF Awaited
<1>3. Listed(r)'
  BY <1>1 DEF Awaited, Listed
<1> QED
  BY <1>1, <1>2, <1>3 DEF Awaited

(* what is done,                                                             *)
LEMMA DoneKept ==
  ASSUME ReadInv, DoneInv, Kept, council'.read = council.read,
         NoMoreCompleted(Regenerations), DoneStays,
         DOMAIN documents' \subseteq DOMAIN documents
  PROVE  DoneInv'
<1> SUFFICES ASSUME NEW x \in council.read, NEW d \in DOMAIN documents',
                    notifications'[x.root].status = "COMPLETED"
             PROVE  \E m \in ChildrenOf(x.root)' :
                      /\ notifications'[m].item = d
                      /\ notifications'[m].status = "COMPLETED"
  BY DEF DoneInv
<1>1. x.root \in Regenerations /\ notifications[x.root].status = "COMPLETED"
  BY DEF ReadInv, NoMoreCompleted
<1>2. PICK m \in ChildrenOf(x.root) :
        notifications[m].item = d /\ notifications[m].status = "COMPLETED"
  BY <1>1 DEF DoneInv
<1>3. m \in ChildrenOf(x.root)' /\ notifications'[m].item = d
  BY <1>2 DEF Kept, Same, ChildrenOf
<1> QED
  BY <1>1, <1>2, <1>3 DEF DoneStays

(* and what was shown is shown, where documents are only removed.            *)
LEMMA ShownKept ==
  ASSUME TasksInv, ShownInv, Kept, QuietDocs, DocsLess,
         council.read \subseteq council'.read
  PROVE  ShownInv'
<1> SUFFICES ASSUME NEW m \in DOMAIN notifications',
                    notifications'[m].item \in DOMAIN documents',
                    notifications'[m].status = "COMPLETED", LastAbout(m)'
             PROVE  [root |-> notifications'[m].parent,
                     version |-> documents'[notifications'[m].item].variables]
                      \in council'.read
  BY DEF ShownInv
<1>1. notifications'[m].item \in Docs
  BY DEF DocsLess, TasksInv, DocumentsTypeOK
<1>2. m \in DOMAIN notifications /\ notifications[m].status = "COMPLETED"
  BY <1>1 DEF QuietDocs
<1>3. /\ notifications'[m].item = notifications[m].item
      /\ notifications'[m].parent = notifications[m].parent
  BY <1>2 DEF Kept, Same
<1>4. LastAbout(m)
  BY <1>3 DEF LastAbout, Kept, Same
<1> QED
  BY <1>2, <1>3, <1>4 DEF ShownInv, DocsLess

(* The processor's child is its own as long as it goes on with it.           *)
LEMMA RunKept ==
  ASSUME TasksInv, RunInv, Kept, NoneAbout, DocsLess,
         \/ worker'["document"] = worker["document"]
         \/ worker'["document"].at \in {"idle", "start"}
  PROVE  RunInv'
<1> SUFFICES ASSUME worker'["document"] = worker["document"],
                    worker["document"].at \notin {"idle", "start"}
             PROVE  RunInv'
  BY DEF RunInv
<1> DEFINE w == worker["document"]
<1>1. w.child \in ChildrenOf(w.job.root)' /\ notifications'[w.child].item = w.job.item
  BY DEF RunInv, ChildrenOf, Kept, Same
<1>2. w.at = "complete" /\ w.job.item \in DOMAIN documents' =>
        documents'[w.job.item].variables = w.job.data
  BY DEF RunInv, DocsLess
<1>3. LastAbout(w.child)'
  <2>1. w # Free /\ w.job.item \in Docs
    BY TheQueues, BusyFields DEF Free, TasksInv
  <2>2. ASSUME NEW n \in DOMAIN notifications', notifications'[n].item = w.job.item
        PROVE  n <= w.child
    <3>1. n \in DOMAIN notifications
      BY <2>1, <2>2 DEF NoneAbout
    <3>2. notifications[n].item = w.job.item
      BY <2>2, <3>1 DEF Kept, Same
    <3> QED
      BY <3>1, <3>2 DEF RunInv, LastAbout
  <2> QED
    BY <1>1, <2>2 DEF LastAbout
<1> QED
  BY <1>1, <1>2, <1>3 DEF RunInv

(* All together but what is shown and run.                                   *)
LEMMA CouncilKept ==
  ASSUME TasksInv, TasksInv', CouncilInv, Kept, AskedLess, NotesSame,
         NEW d \in {0, 1}, Shifted(d), RunsOn(d), Stalled' \subseteq Stalled,
         council'.read = council.read,
         DOMAIN documents' \subseteq DOMAIN documents
  PROVE  ItemsInv' /\ ReadInv' /\ PreparingInv' /\ AwaitedInv' /\ DoneInv'
<1> USE DEF CouncilInv
<1>1. Left' \subseteq Left
  BY LeftLess
<1>2. ItemsInv'
  BY DEF NotesSame, ChildrenSame, ItemsInv
<1>3. ReadInv' /\ DoneInv' /\ AwaitedInv'
  BY <1>1, ReadKept, DoneKept, AwaitedKept DEF NotesSame, AskedLess
<1>4. ASSUME NEW r \in Asked', r.at \in {"prepare", "enqueue"}
      PROVE  Prepared(r)'
  <2>1. r \in Asked /\ Prepared(r)
    BY <1>4 DEF AskedLess, PreparingInv
  <2>2. r.root \in Regenerations
    BY <2>1, AskedFields
  <2> QED
    BY <1>1, <2>1, <2>2, PreparedKept DEF NotesSame, ChildrenSame, NoMoreCompleted
<1> QED
  BY <1>2, <1>3, <1>4 DEF PreparingInv

-------------------------------------------------------------------------------
(***************************************************************************)
(* The processor of documents.                                             *)
(***************************************************************************)

(* Nothing of the notifications changes,                                     *)
LEMMA NotesUntouched ==
  ASSUME UNCHANGED notifications
  PROVE  NotesSame /\ NoneAbout /\ QuietDocs
  BY DEF NotesSame, ChildrenSame, NoMoreCompleted, DoneStays, Regenerations,
         RootsOf, Roots, ChildrenOf, NoneAbout, QuietDocs

(* or a status is written,                                                   *)
LEMMA OneStatus ==
  ASSUME NotesInv, NEW n, NEW status \in NotificationStatus,
         SetStatus(n, status), UNCHANGED certificates
  PROVE  /\ Kept /\ DOMAIN notifications' = DOMAIN notifications
         /\ Regenerations' = Regenerations /\ ChildrenSame /\ NoneAbout
         /\ \A m : ChildrenOf(m)' = ChildrenOf(m)
         /\ \A m \in DOMAIN notifications :
              m # n => notifications'[m] = notifications[m]
<1>1. /\ Kept /\ DOMAIN notifications' = DOMAIN notifications
      /\ \A m \in DOMAIN notifications :
           m # n => notifications'[m] = notifications[m]
  BY StatusWritten
<1>2. \A m \in DOMAIN notifications : Same(notifications'[m], notifications[m])
  BY <1>1 DEF Kept
<1>3. Regenerations' = Regenerations
  BY <1>1, <1>2 DEF Regenerations, RootsOf, Roots, Same
<1>4. \A m : ChildrenOf(m)' = ChildrenOf(m)
  BY <1>1, <1>2 DEF ChildrenOf, Same
<1>5. ChildrenSame /\ NoneAbout
  BY <1>1, <1>2, <1>4 DEF ChildrenSame, ChildrenOf, Same, NoneAbout
<1> QED
  BY <1>1, <1>3, <1>4, <1>5

(* which makes no more of them COMPLETED.                                    *)
LEMMA StatusNotCompleted ==
  ASSUME NotesInv, NEW n, NEW status \in NotificationStatus,
         SetStatus(n, status), UNCHANGED certificates, status # "COMPLETED",
         \A m \in Regenerations : n \in ChildrenOf(m) =>
           notifications[m].status # "COMPLETED"
  PROVE  NotesSame /\ QuietDocs
<1>1. /\ DOMAIN notifications' = DOMAIN notifications
      /\ Regenerations' = Regenerations /\ ChildrenSame
      /\ \A m \in DOMAIN notifications :
           m # n => notifications'[m] = notifications[m]
  BY OneStatus
<1>2. n \in DOMAIN notifications => notifications'[n].status = status
  BY StatusWritten
<1>3. /\ Regenerations \subseteq DOMAIN notifications
      /\ \A m : ChildrenOf(m) \subseteq DOMAIN notifications
  BY DEF Regenerations, RootsOf, Roots, ChildrenOf
<1>4. DoneStays
  BY <1>1, <1>3 DEF DoneStays
<1> QED
  BY <1>1, <1>2, <1>3, <1>4 DEF NotesSame, NoMoreCompleted, QuietDocs

(* The jobs stay where they are while the processor goes on,                 *)
LEMMA StaysPut ==
  ASSUME TasksInv', waiting'["document"] = waiting["document"],
         worker["document"] # Free <=> worker'["document"] # Free,
         worker["document"] # Free => worker'["document"].job = worker["document"].job
  PROVE  /\ Shifted(0) /\ Places' = Places
         /\ \A i \in Places : JobAt(i)' = JobAt(i)
<1>1. Places' = Places /\ \A i \in Places' : i \in Nat
  BY PlacesNext DEF Places
<1>2. \A i \in Places : JobAt(i)' = JobAt(i)
  BY <1>1, PlacesNext DEF JobAt
<1>3. \A i \in Places' : i + 0 = i
  BY <1>1
<1> QED
  BY <1>1, <1>2, <1>3 DEF Shifted

(* and the others do when it ends.                                           *)
LEMMA OthersStay ==
  ASSUME TasksInv', waiting'["document"] = waiting["document"],
         worker'["document"] = Free
  PROVE  Shifted(0) /\ RunsOn(0)
<1>1. \A i \in Places' : i \in Nat /\ i # 0 /\ i + 0 = i /\ i \in Places
  BY PlacesNext DEF Places
<1> QED
  BY <1>1 DEF Shifted, RunsOn, JobAt

(* The job that runs is one of a regeneration that is not COMPLETED and read *)
(* what it writes.                                                           *)
LEMMA RunningJob ==
  ASSUME TasksInv, ReadInv, worker["document"] # Free
  PROVE  LET job == worker["document"].job IN
         /\ 0 \in Places /\ JobAt(0) = job
         /\ job.root \in Regenerations /\ job.root \in Nat \ {0}
         /\ job.item \in Docs
         /\ Writes(job) \in council.read
         /\ notifications[job.root].status # "COMPLETED"
<1> DEFINE job == worker["document"].job
<1>1. 0 \in Places /\ JobAt(0) = job
  BY DEF Places, JobAt
<1>2. job.root \in Regenerations /\ job.root \in Nat /\ job.item \in Docs
  BY <1>1, PlaceFields
<1>3. job.root # 0
  BY <1>2, LenProperties DEF Regenerations, RootsOf, Roots, TasksInv, NotesInv
<1>4. Writes(job) \in Left /\ Writes(job).root = job.root
  BY <1>1 DEF Left, Writes
<1> QED
  BY <1>1, <1>2, <1>3, <1>4 DEF ReadInv

(* The copy is made and filled, or it is not.                                *)
LEMMA CopyKeeps ==
  ASSUME AllInv, AllInv', CouncilInv, CopyTemplate \/ FillCopy \/ DriveRefuses,
         UNCHANGED loadVars
  PROVE  CouncilInv'
<1> DEFINE w == worker["document"]
<1> USE DEF AllInv
<1>1. w # Free /\ w.at \in {"copy", "fill"}
      /\ UNCHANGED <<notifications, certificates, waiting, requests, council,
                     documents, stalled>>
  BY DEF CopyTemplate, FillCopy, DriveRefuses, Regenerating, loadVars, councilVars
<1>2. NotesSame /\ Kept /\ QuietDocs
  BY <1>1, NotesUntouched, NothingWritten DEF TasksInv
<1>3. /\ worker'["document"].at \in {"fill", "save", "fail"}
      /\ worker'["document"].job = w.job /\ worker'["document"].child = w.child
  <2>1. {"fill", "save", "fail"} \subseteq Steps /\ "document" \in Queues
    BY TheQueues DEF Steps
  <2>2. CASE CopyTemplate
    <3>1. WithEntity("document", "fill", nextFile) /\ nextFile \in Nat
      BY <2>2 DEF CopyTemplate, WithEntity, TasksInv, DocumentsTypeOK
    <3> QED
      BY <1>1, <1>2, <2>1, <3>1, WorkerOfEntity DEF TasksInv
  <2>3. CASE Goes("document", "save") \/ Goes("document", "fail")
    BY <1>1, <1>2, <2>1, <2>3, WorkerAt DEF TasksInv
  <2> QED
    BY <2>2, <2>3 DEF FillCopy, DriveRefuses
<1>4. Shifted(0) /\ RunsOn(0)
  <2>1. worker'["document"] # Free
    BY <1>3 DEF Free
  <2> QED
    BY <1>1, <1>3, <2>1, StaysPut, PlacesNext DEF RunsOn
<1>5. OneEach' /\ AskedLess /\ DocsLess /\ Stalled' = Stalled
  BY <1>1 DEF CouncilInv, OneEach, AskedLess, Asked, DocsLess, Stalled
<1>6. RunInv'
  BY <1>1, <1>3 DEF CouncilInv, RunInv, ChildrenOf, LastAbout
<1>7. ShownInv'
  BY <1>1, <1>2, <1>5, ShownKept DEF CouncilInv
<1> QED
  BY <1>1, <1>2, <1>4, <1>5, <1>6, <1>7, CouncilKept DEF CouncilInv

(* The copy becomes the document's file: the last notification about it is   *)
(* the child of the job, whose regeneration read what the copy shows.        *)
LEMMA SaveCopyKeeps ==
  ASSUME AllInv, AllInv', CouncilInv, SaveCopy, UNCHANGED loadVars
  PROVE  CouncilInv'
<1> DEFINE w == worker["document"]
<1> USE DEF AllInv
<1>1. w # Free /\ w.at = "save"
      /\ UNCHANGED <<notifications, certificates, waiting, requests, council,
                     stalled>>
  BY DEF SaveCopy, Regenerating, loadVars
<1>2. NotesSame /\ Kept
  BY <1>1, NotesUntouched, NothingWritten DEF TasksInv
<1>3. PICK to \in {"complete", "fail"} :
        /\ Goes("document", to)
        /\ DOMAIN documents' = DOMAIN documents
        /\ \A d \in DOMAIN documents :
             d # w.job.item => documents'[d] = documents[d]
        /\ w.job.item \in DOMAIN documents =>
             documents'[w.job.item].variables = w.job.data
  <2>1. CASE w.job.item \in DOMAIN documents
    <3> DEFINE saved == [file |-> w.entity, variables |-> w.job.data]
    <3>1. documents' = [documents EXCEPT ![w.job.item] = saved]
          /\ Goes("document", "complete")
      BY <2>1 DEF SaveCopy, Doing
    <3>2. saved.variables = w.job.data
      OBVIOUS
    <3> HIDE DEF saved
    <3> QED
      BY <2>1, <3>1, <3>2
  <2>2. CASE w.job.item \notin DOMAIN documents
    BY <2>2 DEF SaveCopy, Doing
  <2> QED
    BY <2>1, <2>2
<1>4. /\ worker'["document"].at = to
      /\ worker'["document"].job = w.job /\ worker'["document"].child = w.child
  <2>1. to \in Steps /\ "document" \in Queues
    BY TheQueues DEF Steps
  <2> QED
    BY <1>1, <1>2, <1>3, <2>1, WorkerAt DEF TasksInv
<1>5. Shifted(0) /\ RunsOn(0)
  <2>1. worker'["document"] # Free
    BY <1>4 DEF Free
  <2> QED
    BY <1>1, <1>4, <2>1, StaysPut, PlacesNext DEF RunsOn
<1>6. OneEach' /\ AskedLess /\ Stalled' = Stalled
  BY <1>1 DEF CouncilInv, OneEach, AskedLess, Asked, Stalled
<1>7. w.child \in ChildrenOf(w.job.root) /\ notifications[w.child].item = w.job.item
      /\ LastAbout(w.child)
  BY <1>1 DEF CouncilInv, RunInv
<1>8. ShownInv'
  <2> SUFFICES ASSUME NEW m \in DOMAIN notifications,
                      notifications[m].item \in DOMAIN documents,
                      notifications[m].status = "COMPLETED", LastAbout(m)
               PROVE  [root |-> notifications[m].parent,
                       version |-> documents'[notifications[m].item].variables]
                        \in council.read
    BY <1>1, <1>3 DEF ShownInv, LastAbout
  <2>1. CASE notifications[m].item = w.job.item
    <3>1. m = w.child
      <4>1. m <= w.child /\ w.child <= m /\ m \in Nat /\ w.child \in Nat
        BY <1>7, <2>1, LenProperties DEF LastAbout, ChildrenOf, TasksInv, NotesInv
      <4> QED
        BY <4>1
    <3>2. notifications[m].parent = w.job.root
      BY <1>7, <3>1 DEF ChildrenOf
    <3>3. Writes(w.job) \in council.read
      BY <1>1, RunningJob DEF CouncilInv
    <3> QED
      BY <1>3, <2>1, <3>2, <3>3 DEF Writes
  <2>2. CASE notifications[m].item # w.job.item
    BY <1>3, <2>2 DEF CouncilInv, ShownInv
  <2> QED
    BY <2>1, <2>2
<1>9. RunInv'
  BY <1>1, <1>3, <1>4, <1>7 DEF RunInv, ChildrenOf, LastAbout
<1> QED
  BY <1>1, <1>2, <1>3, <1>5, <1>6, <1>8, <1>9, CouncilKept DEF CouncilInv

(* The child is COMPLETED once the document shows what it was to show.       *)
LEMMA CompleteChildKeeps ==
  ASSUME AllInv, AllInv', CouncilInv, CompleteChild, UNCHANGED loadVars
  PROVE  CouncilInv'
<1> DEFINE w == worker["document"]
<1> USE DEF AllInv
<1>1. w # Free /\ w.at = "complete"
      /\ UNCHANGED <<certificates, waiting, requests, council, documents, stalled>>
  BY DEF CompleteChild, Regenerating, loadVars, councilVars
<1>2. SetStatus(w.child, "COMPLETED") /\ "COMPLETED" \in NotificationStatus
      /\ Release("document")
  BY DEF CompleteChild, NotificationStatus
<1>3. /\ Kept /\ DOMAIN notifications' = DOMAIN notifications
      /\ Regenerations' = Regenerations /\ ChildrenSame
      /\ \A m \in DOMAIN notifications :
           m # w.child => notifications'[m] = notifications[m]
  BY <1>1, <1>2, OneStatus DEF TasksInv
<1>4. w.child \in ChildrenOf(w.job.root) /\ notifications[w.child].item = w.job.item
      /\ notifications[w.child].parent = w.job.root
      /\ (w.job.item \in DOMAIN documents =>
            documents[w.job.item].variables = w.job.data)
  BY <1>1 DEF CouncilInv, RunInv, ChildrenOf
<1>5. w.job.root # 0 /\ Writes(w.job) \in council.read
  BY <1>1, RunningJob DEF CouncilInv
<1>6. NotesSame
  <2>1. \A n \in Regenerations : n # w.child /\ n \in DOMAIN notifications
    BY <1>4, <1>5 DEF Regenerations, RootsOf, Roots
  <2>2. NoMoreCompleted(Regenerations)
    BY <1>3, <2>1 DEF NoMoreCompleted
  <2>3. w.child \in DOMAIN notifications => notifications'[w.child].status = "COMPLETED"
    BY <1>1, <1>2, StatusWritten DEF TasksInv
  <2>4. DoneStays
    BY <1>3, <2>3 DEF DoneStays, ChildrenOf
  <2> QED
    BY <1>3, <2>2, <2>4 DEF NotesSame
<1>7. worker'["document"] = Free
  BY <1>2, <1>3, TheQueues, WorkerReleased DEF TasksInv
<1>8. Shifted(0) /\ RunsOn(0)
  BY <1>1, <1>7, OthersStay
<1>9. OneEach' /\ AskedLess /\ Stalled' = Stalled
  BY <1>1 DEF CouncilInv, OneEach, AskedLess, Asked, Stalled
<1>10. ShownInv'
  <2> SUFFICES ASSUME NEW m \in DOMAIN notifications,
                      notifications'[m].item \in DOMAIN documents,
                      notifications'[m].status = "COMPLETED", LastAbout(m)'
               PROVE  [root |-> notifications'[m].parent,
                       version |-> documents[notifications'[m].item].variables]
                        \in council.read
    BY <1>1, <1>3 DEF ShownInv
  <2>1. /\ notifications'[m].item = notifications[m].item
        /\ notifications'[m].parent = notifications[m].parent
    BY <1>3 DEF Kept, Same
  <2>2. CASE m = w.child
    BY <1>4, <1>5, <2>1, <2>2 DEF Writes
  <2>3. CASE m # w.child
    <3>1. LastAbout(m) /\ notifications[m].status = "COMPLETED"
      BY <1>3, <2>1, <2>3 DEF LastAbout, Kept, Same
    <3> QED
      BY <2>1, <3>1 DEF CouncilInv, ShownInv
  <2> QED
    BY <2>2, <2>3
<1>11. RunInv'
  BY <1>7 DEF RunInv, Free
<1> QED
  BY <1>1, <1>3, <1>6, <1>8, <1>9, <1>10, <1>11, CouncilKept DEF CouncilInv

(* A child that is not COMPLETED is counted for nothing.                     *)
LEMMA FailChildKeeps ==
  ASSUME AllInv, AllInv', CouncilInv, FailChild \/ OverwriteChild,
         UNCHANGED loadVars
  PROVE  CouncilInv'
<1> DEFINE w == worker["document"]
<1> USE DEF AllInv
<1>1. w # Free /\ w.at \in {"fail", "overwrite"}
      /\ UNCHANGED <<certificates, waiting, requests, council, documents, stalled>>
  BY DEF FailChild, OverwriteChild, Regenerating, loadVars, councilVars
<1>2. PICK status \in {"FAILURE", "IN_PROGRESS"} : SetStatus(w.child, status)
  BY DEF FailChild, OverwriteChild
<1>3. status \in NotificationStatus /\ status # "COMPLETED"
  BY DEF NotificationStatus
<1>4. w.child \in ChildrenOf(w.job.root) /\ notifications[w.child].item = w.job.item
      /\ LastAbout(w.child)
  BY <1>1 DEF CouncilInv, RunInv
<1>5. \A m \in Regenerations : w.child \in ChildrenOf(m) =>
        notifications[m].status # "COMPLETED"
  BY <1>1, <1>4, RunningJob DEF CouncilInv, ChildrenOf
<1>6. Kept /\ NotesSame /\ QuietDocs /\ DOMAIN notifications' = DOMAIN notifications
  BY <1>1, <1>2, <1>3, <1>5, OneStatus, StatusNotCompleted DEF TasksInv
<1>7. \/ worker'["document"] = Free
      \/ /\ worker'["document"].at = "overwrite"
         /\ worker'["document"].job = w.job /\ worker'["document"].child = w.child
  <2>1. "overwrite" \in Steps /\ "document" \in Queues
    BY TheQueues DEF Steps
  <2>2. CASE Goes("document", "overwrite")
    BY <1>1, <1>6, <2>1, <2>2, WorkerAt DEF TasksInv
  <2>3. CASE Release("document")
    BY <1>6, <2>1, <2>3, WorkerReleased DEF TasksInv
  <2> QED
    BY <2>2, <2>3 DEF FailChild, OverwriteChild
<1>8. Shifted(0) /\ RunsOn(0)
  <2>1. CASE worker'["document"] = Free
    BY <1>1, <2>1, OthersStay
  <2>2. CASE worker'["document"] # Free
    BY <1>1, <1>7, <2>2, StaysPut, PlacesNext DEF RunsOn
  <2> QED
    BY <2>1, <2>2
<1>9. OneEach' /\ AskedLess /\ DocsLess /\ Stalled' = Stalled
  BY <1>1 DEF CouncilInv, OneEach, AskedLess, Asked, DocsLess, Stalled
<1>10. ShownInv'
  BY <1>1, <1>6, <1>9, ShownKept DEF CouncilInv
<1>11. RunInv'
  <2>1. CASE worker'["document"] = Free
    BY <2>1 DEF RunInv, Free
  <2>2. CASE worker'["document"] # Free
    BY <1>1, <1>4, <1>6, <1>7, <2>2 DEF RunInv, ChildrenOf, Kept, Same, LastAbout
  <2> QED
    BY <2>1, <2>2
<1> QED
  BY <1>1, <1>6, <1>8, <1>9, <1>10, <1>11, CouncilKept DEF CouncilInv

(* The child that a job creates is the only one of its regeneration about    *)
(* its document, and the last about it.                                      *)
LEMMA CreateChildKeeps ==
  ASSUME AllInv, AllInv', CouncilInv, CreateChild, UNCHANGED loadVars
  PROVE  CouncilInv'
<1> DEFINE w == worker["document"]
           new == Len(notifications) + 1
<1> USE DEF AllInv
<1>1. w # Free /\ w.at = "start"
      /\ UNCHANGED <<certificates, waiting, requests, council, documents, stalled>>
  BY DEF CreateChild, Regenerating, loadVars, councilVars
<1>2. /\ Kept /\ new \in Nat
      /\ DOMAIN notifications' = DOMAIN notifications \cup {new}
      /\ \A n \in DOMAIN notifications : notifications'[n] = notifications[n] /\ n < new
      /\ notifications'[new].item = w.job.item
      /\ notifications'[new].parent = w.job.root /\ w.job.root # 0
      /\ notifications'[new].status = "IN_PROGRESS"
  <2>1. Create("document", w.job.root, 0, w.job.item, "IN_PROGRESS")
    BY DEF CreateChild, Doing
  <2> QED
    BY <1>1, <2>1, TheQueues, ChildCreated DEF TasksInv
<1>3. new \notin DOMAIN notifications /\ \A n \in DOMAIN notifications : n \in Nat
  BY <1>2, LenProperties DEF TasksInv, NotesInv
<1>4. /\ worker'["document"].at = "copy" /\ worker'["document"].child = new
      /\ worker'["document"].job = w.job
  <2>1. "copy" \in Steps /\ "document" \in Queues
    BY TheQueues DEF Steps
  <2>2. WithChild("document", "copy", new)
    BY DEF CreateChild, WithChild
  <2> QED
    BY <1>1, <1>2, <2>1, <2>2, WorkerOfChild DEF TasksInv
<1> HIDE DEF new
<1>5. PICK root : root = w.job.root
  OBVIOUS
<1>6. root # 0 /\ notifications'[new].parent = root
  BY <1>2, <1>5
<1>7. \A n : ChildrenOf(n) \subseteq DOMAIN notifications
  BY DEF ChildrenOf
<1>8. Regenerations' = Regenerations
  BY <1>2, <1>3, <1>6 DEF Regenerations, RootsOf, Roots
<1>9. \A n : n # root => ChildrenOf(n)' = ChildrenOf(n)
  BY <1>2, <1>3, <1>6 DEF ChildrenOf
<1>10. ChildrenOf(root)' = ChildrenOf(root) \cup {new}
  BY <1>2, <1>3, <1>6 DEF ChildrenOf
<1>11. NoMoreCompleted(Regenerations) /\ DoneStays /\ QuietDocs
  <2>1. Regenerations \subseteq DOMAIN notifications
    BY DEF Regenerations, RootsOf, Roots
  <2> QED
    BY <1>2, <1>7, <2>1 DEF NoMoreCompleted, DoneStays, QuietDocs
<1>12. worker'["document"] # Free /\ Places' = Places /\ Shifted(0)
       /\ \A i \in Places : JobAt(i)' = JobAt(i) /\ i \in Nat
  <2>1. worker'["document"] # Free
    BY <1>4 DEF Free
  <2> QED
    BY <1>1, <1>4, <2>1, StaysPut, PlacesNext
<1>13. 0 \in Places /\ JobAt(0) = w.job /\ JobAt(0).root = root
       /\ root \in Regenerations /\ w.job.item \in Docs
       /\ \E x \in Left : x.root = root
  <2>1. Writes(w.job) \in Left /\ Writes(w.job).root = w.job.root
    BY <1>1 DEF Left, Places, JobAt, Writes
  <2> QED
    BY <1>1, <1>5, <2>1, RunningJob DEF CouncilInv
<1>14. OneEach' /\ Asked' = Asked /\ Stalled' = Stalled /\ DocsLess
  BY <1>1 DEF CouncilInv, OneEach, Asked, Stalled, DocsLess
<1>15. Left' \subseteq Left
  BY <1>12, <1>14, LeftLess
<1>16. ItemsInv'
  <2>1. \A n \in Regenerations : \A m \in ChildrenOf(n)' :
          \/ m \in ChildrenOf(n) /\ notifications'[m] = notifications[m]
          \/ m = new
    BY <1>2, <1>7, <1>9, <1>10
  <2> QED
    BY <1>2, <1>8, <1>13, <2>1 DEF CouncilInv, ItemsInv
<1>17. ReadInv' /\ DoneInv' /\ ShownInv'
  BY <1>1, <1>2, <1>11, <1>14, <1>15, ReadKept, DoneKept, ShownKept DEF CouncilInv
<1>18. PreparingInv'
  <2> SUFFICES ASSUME NEW r \in Asked, r.at \in {"prepare", "enqueue"}
               PROVE  Prepared(r)'
    BY <1>1, <1>14 DEF PreparingInv
  <2>1. Prepared(r) /\ r.root # root /\ r.root \in DOMAIN notifications
    BY <1>13, AskedFields DEF CouncilInv, PreparingInv, Prepared
  <2>2. NoMoreCompleted({r.root}) /\ ChildrenOf(r.root)' = ChildrenOf(r.root)
    BY <1>2, <1>9, <2>1 DEF NoMoreCompleted
  <2>3. council'.read = council.read /\ DOMAIN documents' \subseteq DOMAIN documents
    BY <1>1
  <2> QED
    BY <1>15, <2>1, <2>2, <2>3, PreparedKept
<1>19. AwaitedInv'
  <2> SUFFICES ASSUME NEW r \in Asked, r.at = "wait"
               PROVE  Awaited(r)'
    BY <1>14 DEF AwaitedInv
  <2>1. Awaited(r)
    BY DEF CouncilInv, AwaitedInv
  <2>2. Listed(r)' /\ \A j \in Stalled' : j.root # r.root
    BY <1>1, <1>14, <2>1 DEF Awaited, Listed
  <2>3. Of(r)' = Of(r) /\ \A i \in Of(r) : i \in Places /\ JobAt(i)' = JobAt(i)
    BY <1>12 DEF Of
  <2>4. \A m \in ChildrenOf(r.root) : notifications'[m] = notifications[m] /\ m # new
    BY <1>2, <1>3, <1>7
  <2>5. \A i \in Of(r) : JobAt(i).item \in Range(r.items)
    BY <2>1 DEF Awaited, Counted
  <2>6. \A m \in ChildrenOf(r.root) : \A i \in Of(r) :
          JobAt(i).item # notifications[m].item
    BY <1>1, <2>1 DEF Awaited, Counted
  <2>7. CASE r.root = root
    <3>1. 0 \in Of(r)
      BY <1>13, <2>7 DEF Of
    <3>2. ChildrenOf(r.root)' = ChildrenOf(r.root) \cup {new}
      BY <1>10, <2>7
    <3>3. \A i \in Of(r) : JobAt(i).item = w.job.item => i = 0
      BY <1>13, <2>1, <3>1 DEF Awaited, Counted
    <3>4. \A m \in ChildrenOf(r.root) : notifications[m].item # w.job.item
      BY <1>13, <2>6, <3>1
    <3>5. w.job.item \in Range(r.items)
      BY <1>13, <2>5, <3>1
    <3>6. /\ \A i \in Of(r) : JobAt(i)'.item \in Range(r.items)
          /\ \A i, k \in Of(r) : JobAt(i)'.item = JobAt(k)'.item => i = k
      BY <2>1, <2>3, <2>5 DEF Awaited, Counted
    <3>7. ASSUME NEW m \in ChildrenOf(r.root)'
          PROVE  /\ notifications'[m].item \in Range(r.items)
                 /\ \A i \in Of(r) : JobAt(i)'.item = notifications'[m].item =>
                      i = 0 /\ worker'["document"].at # "start"
                      /\ worker'["document"].child = m
      <4>1. CASE m = new
        BY <1>2, <1>4, <2>3, <3>3, <3>5, <4>1
      <4>2. CASE m \in ChildrenOf(r.root)
        BY <2>1, <2>3, <2>4, <2>6, <4>2 DEF Awaited, Counted
      <4> QED
        BY <3>2, <4>1, <4>2
    <3>8. ASSUME NEW m \in ChildrenOf(r.root)', NEW n \in ChildrenOf(r.root)',
                 notifications'[m].item = notifications'[n].item
          PROVE  m = n
      BY <1>2, <2>1, <2>4, <3>2, <3>4, <3>8 DEF Awaited, Counted
    <3>9. Counted(r)'
      BY <2>3, <3>6, <3>7, <3>8 DEF Counted
    <3> QED
      BY <2>2, <3>9 DEF Awaited
  <2>8. CASE r.root # root
    <3>1. ChildrenOf(r.root)' = ChildrenOf(r.root)
      BY <1>9, <2>8
    <3>2. Counted(r)'
      BY <2>1, <2>3, <2>4, <2>6, <3>1 DEF Awaited, Counted
    <3> QED
      BY <2>2, <3>2 DEF Awaited
  <2> QED
    BY <2>7, <2>8
<1>20. RunInv'
  <2>1. new \in ChildrenOf(worker["document"].job.root)'
    BY <1>2, <1>4 DEF ChildrenOf
  <2>2. \A n \in DOMAIN notifications' : n <= new
    BY <1>2, <1>3
  <2> QED
    BY <1>2, <1>4, <2>1, <2>2 DEF RunInv, LastAbout
<1> QED
  BY <1>14, <1>16, <1>17, <1>18, <1>19, <1>20 DEF CouncilInv

(* Every step of the processor of documents.                                 *)
LEMMA RecreateKeeps ==
  ASSUME AllInv, AllInv', CouncilInv, Recreate, UNCHANGED loadVars
  PROVE  CouncilInv'
  BY CreateChildKeeps, CopyKeeps, SaveCopyKeeps, CompleteChildKeeps,
     FailChildKeeps DEF Recreate

-------------------------------------------------------------------------------
(***************************************************************************)
(* The loads of certificates.                                              *)
(***************************************************************************)

(* A notification of a load.                                                 *)
Foreign(x) ==
  /\ x.item \notin Docs
  /\ IF x.parent = 0 THEN x.kind # "document" ELSE x.parent \in RootsOf("certificate")

(* What happens to those disturbs no regeneration.                           *)
LEMMA OnlyForeign ==
  ASSUME Kept,
         \A m \in DOMAIN notifications' :
           \/ m \in DOMAIN notifications /\ notifications'[m] = notifications[m]
           \/ Foreign(notifications'[m]),
         0 \notin DOMAIN notifications
  PROVE  NotesSame /\ NoneAbout /\ QuietDocs
<1>1. \A n \in RootsOf("certificate") : n \notin Regenerations' /\ n # 0
  BY DEF Kept, Same, Regenerations, RootsOf, Roots
<1>2. \A m \in Regenerations' :
        m \in DOMAIN notifications /\ notifications'[m] = notifications[m]
  BY DEF Foreign, Regenerations, RootsOf, Roots
<1>3. Regenerations' = Regenerations
  BY <1>2 DEF Kept, Same, Regenerations, RootsOf, Roots
<1>4. ASSUME NEW n \in Regenerations, NEW m \in ChildrenOf(n)'
      PROVE  /\ m \in DOMAIN notifications /\ notifications'[m] = notifications[m]
             /\ m \in ChildrenOf(n)
  <2>1. m \in DOMAIN notifications' /\ notifications'[m].parent = n
    BY <1>4 DEF ChildrenOf
  <2>2. n # 0
    BY DEF Regenerations, RootsOf, Roots
  <2>3. ~Foreign(notifications'[m])
    BY <1>1, <1>3, <2>1, <2>2 DEF Foreign
  <2> QED
    BY <2>1, <2>3 DEF ChildrenOf
<1>5. \A n \in Regenerations : \A m \in ChildrenOf(n) : m \in ChildrenOf(n)'
  BY DEF Kept, Same, ChildrenOf
<1>6. \A n \in Regenerations : ChildrenOf(n)' = ChildrenOf(n)
  BY <1>4, <1>5
<1>7. ChildrenSame
  BY <1>4, <1>6 DEF ChildrenSame
<1>8. NoMoreCompleted(Regenerations)
  BY <1>2, <1>3 DEF NoMoreCompleted
<1>9. DoneStays
  <2>1. \A n \in Regenerations : \A m \in ChildrenOf(n) :
          notifications'[m] = notifications[m]
    BY <1>4, <1>6
  <2> QED
    BY <2>1 DEF DoneStays
<1>10. NoneAbout /\ QuietDocs
  BY DEF Foreign, NoneAbout, QuietDocs
<1> QED
  BY <1>3, <1>7, <1>8, <1>9, <1>10 DEF NotesSame

(* Steps that leave the regenerations and their jobs alone,                 *)
LEMMA HandlersKeep ==
  ASSUME TasksInv, TasksInv', CouncilInv, Kept, NotesSame, NoneAbout, QuietDocs,
         OneEach', AskedLess, council'.read = council.read, DocsLess,
         waiting'["document"] = waiting["document"], Stalled' \subseteq Stalled,
         worker'["document"] = worker["document"]
  PROVE  CouncilInv'
<1>1. Shifted(0) /\ RunsOn(0)
  BY StaysPut, PlacesNext DEF RunsOn
<1>2. RunInv' /\ ShownInv'
  BY RunKept, ShownKept DEF CouncilInv
<1> QED
  BY <1>1, <1>2, CouncilKept DEF CouncilInv, DocsLess

(* and the handlers, too: those of the processor of certificates.            *)
LEMMA LoadsKeep ==
  ASSUME TasksInv, TasksInv', CouncilInv, Kept, NotesSame, NoneAbout, QuietDocs,
         UNCHANGED <<council, documents, requests>>,
         waiting'["document"] = waiting["document"],
         stalled'["document"] = stalled["document"],
         worker'["document"] = worker["document"]
  PROVE  CouncilInv'
<1>1. OneEach' /\ AskedLess /\ DocsLess /\ Stalled' = Stalled
  BY DEF CouncilInv, OneEach, AskedLess, Asked, DocsLess, Stalled
<1> QED
  BY <1>1, HandlersKeep

(* One of a load is written,                                                 *)
LEMMA ForeignWritten ==
  ASSUME NotesInv, Kept, NEW n,
         DOMAIN notifications' = DOMAIN notifications,
         \A m \in DOMAIN notifications : m # n => notifications'[m] = notifications[m],
         n \in DOMAIN notifications => Foreign(notifications[n])
  PROVE  NotesSame /\ NoneAbout /\ QuietDocs
<1>1. 0 \notin DOMAIN notifications
  BY LenProperties DEF NotesInv
<1>2. n \in DOMAIN notifications => Foreign(notifications'[n])
  BY DEF Kept, Same, Foreign
<1> QED
  BY <1>1, <1>2, OnlyForeign

(* or added.                                                                 *)
LEMMA ForeignAdded ==
  ASSUME NotesInv, Kept, NEW x \in Notification, Foreign(x),
         notifications' = Append(notifications, x)
  PROVE  NotesSame /\ NoneAbout /\ QuietDocs
<1>1. 0 \notin DOMAIN notifications /\ notifications \in Seq(Notification)
  BY LenProperties DEF NotesInv
<1>2. /\ Len(notifications') = Len(notifications) + 1
      /\ \A m \in 1..Len(notifications) : notifications'[m] = notifications[m]
      /\ notifications'[Len(notifications) + 1] = x
      /\ notifications' \in Seq(Notification)
  BY <1>1, AppendProperties
<1>3. /\ Len(notifications) \in Nat /\ DOMAIN notifications = 1..Len(notifications)
      /\ DOMAIN notifications' = 1..Len(notifications')
  BY <1>1, <1>2, LenProperties
<1>4. \A m \in DOMAIN notifications' :
        m \in DOMAIN notifications \/ m = Len(notifications) + 1
  BY <1>2, <1>3
<1> QED
  BY <1>1, <1>2, <1>3, <1>4, OnlyForeign

(* The main notification of a load is one of those,                          *)
LEMMA RootIsForeign ==
  ASSUME NotesInv, NEW n \in RootsOf("certificate")
  PROVE  Foreign(notifications[n])
<1>1. n \in DOMAIN notifications /\ notifications[n].parent = 0
      /\ notifications[n].kind = "certificate"
  BY DEF RootsOf, Roots
<1>2. notifications[n].item = "none"
  BY <1>1 DEF NotesInv, Noted
<1>3. "none" \notin Docs
  BY JobsAssumption, RegenerationAssumption
<1> QED
  BY <1>1, <1>2, <1>3 DEF Foreign

(* and so are that of the row that is loaded and its child.                  *)
LEMMA RowIsForeign ==
  ASSUME TasksInv, CouncilInv, worker["certificate"] # Free
  PROVE  /\ Row.root \in RootsOf("certificate") /\ Foreign(notifications[Row.root])
         /\ CertificatesInv /\ worker["certificate"].at \notin {"idle", "start"} =>
              /\ worker["certificate"].child \in DOMAIN notifications
              /\ Foreign(notifications[worker["certificate"].child])
<1> DEFINE w == worker["certificate"]
<1>1. Row.root \in RootsOf("certificate") /\ w.job.item \in Students
  BY TheQueues, BusyFields DEF TasksInv, Row
<1>2. Foreign(notifications[Row.root])
  BY <1>1, RootIsForeign DEF TasksInv
<1>3. ASSUME CertificatesInv, w.at \notin {"idle", "start"}
      PROVE  w.child \in DOMAIN notifications /\ Foreign(notifications[w.child])
  <2>1. w.child \in DOMAIN notifications \ Roots
        /\ notifications[w.child].item = w.job.item
    BY <1>3 DEF CertificatesInv, LoadInv, LastOwn, Own
  <2>2. PICK x : x = notifications[w.child]
    OBVIOUS
  <2>3. x.parent # 0 /\ x.parent \in Roots
    BY <2>1, <2>2 DEF Roots, TasksInv, NotesInv, Noted
  <2>4. x.item \notin Docs \cup {"none"}
    BY <1>1, <2>1, <2>2, LongTasksAssumption, JobsAssumption, BulkLoadAssumption
  <2>5. x.parent \notin Regenerations
    BY <2>1, <2>2, <2>4 DEF CouncilInv, ItemsInv, ChildrenOf
  <2>6. notifications[x.parent].kind \in Queues
    <3>1. notifications[x.parent] \in Notification
      BY <2>3, LenProperties, ElementOfSeq DEF Roots, TasksInv, NotesInv
    <3> QED
      BY <3>1 DEF Notification
  <2>7. x.parent \in RootsOf("certificate")
    BY <2>3, <2>5, <2>6, TheQueues DEF Regenerations, RootsOf
  <2> QED
    BY <2>1, <2>2, <2>3, <2>4, <2>7 DEF Foreign
<1> QED
  BY <1>1, <1>2, <1>3

(* Every step of the processor of certificates.                              *)
LEMMA LoadRowKeeps ==
  ASSUME AllInv, AllInv', CouncilInv, LoadRow, UNCHANGED councilVars
  PROVE  CouncilInv'
<1> DEFINE w == worker["certificate"]
<1> USE DEF AllInv
<1>1. Kept /\ worker'["document"] = worker["document"]
  BY LoadRowStep DEF Loads
<1>2. w # Free /\ UNCHANGED <<waiting, requests, stalled>>
  BY DEF LoadRow, CreateLoadChild, SkipRow, RemovePrevious, ValidateRow,
         SaveCertificate, CopySheet, ThrowInLoad, TooManyRequests, FillCells,
         DiscardCertificate, FailRow, ClearMembers, AddMember, EndMembers,
         FinishRow, Loading
<1>3. UNCHANGED <<council, documents>>
  BY DEF councilVars
<1>4. Row.item \notin Docs
  BY <1>2, RowFields, LongTasksAssumption DEF Row
<1>10. Row.root \in RootsOf("certificate") /\ Row.root # 0
      /\ Foreign(notifications[Row.root])
  BY <1>2, RowIsForeign, LenProperties DEF RootsOf, Roots, TasksInv, NotesInv
<1>5. CASE UNCHANGED notifications
  BY <1>5, NotesUntouched, <1>1, <1>2, <1>3, LoadsKeep
<1>6. CASE CreateLoadChild
  <2>1. PICK x : x = [kind |-> "certificate", parent |-> Row.root, retry |-> 0,
                      item |-> Row.item, status |-> "IN_PROGRESS",
                      entities |-> 0, carried |-> FALSE]
    OBVIOUS
  <2>2. notifications' = Append(notifications, x)
    BY <1>6, <2>1 DEF CreateLoadChild, Create
  <2>3. Foreign(x)
    BY <1>4, <1>10, <2>1 DEF Foreign
  <2>4. x \in Notification
    <3>1. Row.root \in Nat
      BY <1>10, LenProperties DEF RootsOf, Roots, TasksInv, NotesInv
    <3>2. Row.item \in Items
      BY <1>2, RowFields, BulkLoadAssumption DEF Row
    <3> QED
      BY <2>1, <3>1, <3>2, TheQueues DEF Notification, NotificationStatus
  <2>5. NotesSame /\ NoneAbout /\ QuietDocs
    BY <1>1, <2>2, <2>3, <2>4, ForeignAdded DEF TasksInv
  <2> QED
    BY <1>1, <1>2, <1>3, <2>5, LoadsKeep
<1>7. CASE SkipRow
  <2>1. CASE UNCHANGED notifications
    BY <1>5, <2>1
  <2>2. CASE Named # {} /\ notifications' = Append(notifications,
               [Previous EXCEPT !.parent = Row.root, !.carried = TRUE])
    <3>1. PICK x : x = [Previous EXCEPT !.parent = Row.root, !.carried = TRUE]
      OBVIOUS
    <3>2. Previous \in Notification /\ Previous.item = Row.item
      BY <1>2, <2>2, PreviousFields DEF Row
    <3>3. Row.root \in Nat
      BY <1>10, LenProperties DEF RootsOf, Roots, TasksInv, NotesInv
    <3>4. x \in Notification /\ x.parent = Row.root /\ x.item = Row.item
      BY <3>1, <3>2, <3>3 DEF Notification
    <3>5. Foreign(x)
      BY <1>4, <1>10, <3>4 DEF Foreign
    <3>6. NotesSame /\ NoneAbout /\ QuietDocs
      BY <1>1, <2>2, <3>1, <3>4, <3>5, ForeignAdded DEF TasksInv
    <3> QED
      BY <1>1, <1>2, <1>3, <3>6, LoadsKeep
  <2> QED
    BY <1>7, <2>1, <2>2 DEF SkipRow
<1>8. CASE SetStatus(Row.root, "FAILURE")
  <2>1. /\ DOMAIN notifications' = DOMAIN notifications
        /\ \A m \in DOMAIN notifications :
             m # Row.root => notifications'[m] = notifications[m]
    BY <1>8 DEF SetStatus
  <2>2. NotesSame /\ NoneAbout /\ QuietDocs
    BY <1>1, <1>10, <2>1, ForeignWritten DEF TasksInv
  <2> QED
    BY <1>1, <1>2, <1>3, <2>2, LoadsKeep
<1>9. CASE FailRow \/ FinishRow
  <2>1. w.at \notin {"idle", "start"}
    BY <1>9 DEF FailRow, FinishRow, Loading
  <2>2. /\ DOMAIN notifications' = DOMAIN notifications
        /\ \A m \in DOMAIN notifications :
             m # w.child => notifications'[m] = notifications[m]
    BY <1>9 DEF FailRow, FinishRow, SetStatus
  <2>3. Foreign(notifications[w.child])
    BY <1>2, <2>1, RowIsForeign
  <2>4. NotesSame /\ NoneAbout /\ QuietDocs
    BY <1>1, <2>2, <2>3, ForeignWritten DEF TasksInv
  <2> QED
    BY <1>1, <1>2, <1>3, <2>4, LoadsKeep
<1> QED
  BY <1>5, <1>6, <1>7, <1>8, <1>9
  DEF LoadRow, RemovePrevious, ValidateRow, SaveCertificate, CopySheet,
      ThrowInLoad, TooManyRequests, FillCells, DiscardCertificate,
      ClearMembers, AddMember, EndMembers

(* A handler that ends,                                                      *)
LEMMA HandlerEnds ==
  ASSUME OneEach, requests' \subseteq requests
  PROVE  OneEach' /\ AskedLess
  BY DEF OneEach, AskedLess, Asked

(* or goes on to what needs nothing more.                                    *)
LEMMA HandlerGoesOn ==
  ASSUME OneEach, NEW r \in requests, NEW s, Advance(r, s), s.root = r.root
  PROVE  /\ OneEach'
         /\ s.queue # "document" \/ s.at \notin {"prepare", "enqueue", "wait"} =>
              AskedLess
<1>1. requests' = (requests \ {r}) \cup {s}
  BY DEF Advance
<1>2. OneEach'
  BY <1>1 DEF OneEach
<1> QED
  BY <1>1, <1>2 DEF AskedLess, Asked

(* The handler of a load.                                                    *)
LEMMA LoadHandlerKeeps ==
  ASSUME AllInv, AllInv', CouncilInv, NEW r \in requests, r.queue = "certificate",
         Enqueue(r) \/ Finish(r) \/ ReadRetried(r),
         UNCHANGED <<councilVars, loadVars>>
  PROVE  CouncilInv'
<1> USE DEF AllInv
<1>1. UNCHANGED <<council, documents, worker, stalled>>
      /\ waiting'["document"] = waiting["document"]
  BY TheQueues DEF Enqueue, Finish, ReadRetried, councilVars, TasksInv, WaitingInv
<1>2. r \in Request /\ r.root \in RootsOf("certificate")
  BY RequestFields DEF TasksInv
<1>3. Foreign(notifications[r.root])
  BY <1>2, RootIsForeign DEF TasksInv
<1>4. Kept /\ NotesSame /\ NoneAbout /\ QuietDocs
  <2>1. CASE UNCHANGED notifications
    BY <2>1, NotesUntouched, NothingWritten DEF TasksInv, loadVars
  <2>2. CASE Finish(r)
    <3>1. LastStatus(r) \in NotificationStatus /\ UNCHANGED certificates
      BY <2>2 DEF LastStatus, NotificationStatus, loadVars
    <3>2. /\ Kept /\ DOMAIN notifications' = DOMAIN notifications
          /\ \A m \in DOMAIN notifications :
               m # r.root => notifications'[m] = notifications[m]
      BY <2>2, <3>1, StatusWritten DEF Finish, TasksInv
    <3> QED
      BY <1>3, <3>2, ForeignWritten DEF TasksInv
  <2> QED
    BY <2>1, <2>2 DEF Enqueue, Finish, ReadRetried
<1>5. OneEach' /\ AskedLess
  <2>1. CASE requests' \subseteq requests
    BY <2>1, HandlerEnds DEF CouncilInv
  <2>2. CASE \E s : Advance(r, s) /\ s.root = r.root /\ s.queue = r.queue
    BY <2>2, HandlerGoesOn DEF CouncilInv
  <2>3. \A at : [r EXCEPT !.at = at].root = r.root /\ [r EXCEPT !.at = at].queue = r.queue
    BY <1>2 DEF Request
  <2>4. CASE \E at : Advance(r, [r EXCEPT !.at = at])
    <3>1. PICK at : Advance(r, [r EXCEPT !.at = at])
      BY <2>4
    <3>2. PICK s : s = [r EXCEPT !.at = at]
      OBVIOUS
    <3>3. Advance(r, s) /\ s.root = r.root /\ s.queue = r.queue
      BY <2>3, <3>1, <3>2
    <3> QED
      BY <2>2, <3>3
  <2>5. CASE ReadRetried(r)
    <3> DEFINE retry == notifications[r.root].retry
               found == IF retry = 0 THEN {} ELSE NotificationsByParent(retry)
               s == [r EXCEPT !.at = "enqueue", !.retries = found]
    <3>1. requests' = (requests \ {r}) \cup {s}
      BY <2>5 DEF ReadRetried, Advance
    <3> HIDE DEF found
    <3>2. s.root = r.root /\ s.queue = r.queue
      BY <1>2 DEF Request
    <3> HIDE DEF s
    <3> QED
      BY <2>2, <3>1, <3>2 DEF Advance
  <2>6. CASE Finish(r)
    BY <2>1, <2>4, <2>6 DEF Finish
  <2> QED
    BY <2>4, <2>5, <2>6 DEF Enqueue
<1> QED
  BY <1>1, <1>4, <1>5, HandlersKeep DEF DocsLess, Stalled

(* The load that was tried again is marked.                                  *)
LEMMA MarkRetriedKeeps ==
  ASSUME AllInv, AllInv', CouncilInv, NEW r \in requests, MarkRetried(r),
         UNCHANGED <<councilVars, loadVars>>
  PROVE  CouncilInv'
<1> USE DEF AllInv
<1>1. UNCHANGED <<council, documents, worker, waiting, stalled, certificates>>
      /\ requests' \subseteq requests
  BY DEF MarkRetried, councilVars, loadVars
<1>2. PICK n : n = notifications[r.root].retry
  OBVIOUS
<1>3. n \in RootsOf("certificate") \cup {0} /\ 0 \notin DOMAIN notifications
  BY <1>2, RequestFields, LenProperties DEF TasksInv, NotesInv, Noted, Roots
<1>4. SetStatus(n, "COMPLETED") /\ "COMPLETED" \in NotificationStatus
  BY <1>2 DEF MarkRetried, NotificationStatus
<1>5. n \in DOMAIN notifications => Foreign(notifications[n])
  BY <1>3, RootIsForeign DEF TasksInv
<1>6. /\ Kept /\ DOMAIN notifications' = DOMAIN notifications
      /\ \A m \in DOMAIN notifications : m # n => notifications'[m] = notifications[m]
  BY <1>1, <1>4, StatusWritten DEF TasksInv
<1>7. NotesSame /\ NoneAbout /\ QuietDocs
  BY <1>5, <1>6, ForeignWritten DEF TasksInv
<1>8. OneEach' /\ AskedLess
  BY <1>1, HandlerEnds DEF CouncilInv
<1> QED
  BY <1>1, <1>6, <1>7, <1>8, HandlersKeep DEF DocsLess, Stalled

-------------------------------------------------------------------------------
(***************************************************************************)
(* The jobs of the regenerations come and go.                              *)
(***************************************************************************)

(* What is left to write is what those jobs and the stalled ones write.      *)
LEMMA LeftWrites ==
  /\ \A i \in Places : Writes(JobAt(i)) \in Left
  /\ \A j \in Stalled : Writes(j) \in Left
<1>1. \A i \in Places : Writes(JobAt(i)) \in Left
  BY DEF Left
<1>2. \A j \in Stalled : Writes(j) \in Left
  BY DEF Left
<1> QED
  BY <1>1, <1>2

(* A job that is taken moves the others one place up.                        *)
LEMMA TakeKeeps ==
  ASSUME AllInv, AllInv', CouncilInv, NEW q \in Queues, Take(q),
         UNCHANGED <<councilVars, loadVars>>
  PROVE  CouncilInv'
<1> USE DEF AllInv
<1>1. UNCHANGED <<notifications, certificates, requests, council, documents,
                  stalled>>
  BY DEF Take, councilVars, loadVars
<1>2. Kept /\ NotesSame /\ NoneAbout /\ QuietDocs
  BY <1>1, NothingWritten, NotesUntouched DEF TasksInv
<1>3. CASE q = "certificate"
  <2>1. worker'["document"] = worker["document"]
        /\ waiting'["document"] = waiting["document"]
    BY <1>3, TheQueues DEF Take, TasksInv, WaitingInv, WorkerInv
  <2> QED
    BY <1>1, <1>2, <2>1, LoadsKeep
<1>4. CASE q = "document"
  <2>1. /\ worker["document"] = Free /\ waiting["document"] # <<>>
        /\ worker'["document"].job = Head(waiting["document"])
        /\ worker'["document"].at = "start"
        /\ waiting'["document"] = Tail(waiting["document"])
    BY <1>4, TheQueues DEF Take, TasksInv, WaitingInv, WorkerInv
  <2>2. PICK jobs \in Seq(Job) : jobs = waiting["document"]
    BY TheQueues DEF TasksInv, WaitingInv
  <2>3. /\ Head(jobs) = jobs[1] /\ Len(jobs) \in Nat \ {0}
        /\ Tail(jobs) \in Seq(Job) /\ Len(Tail(jobs)) = Len(jobs) - 1
        /\ \A i \in 1..Len(jobs) - 1 : Tail(jobs)[i] = jobs[i + 1]
    BY <2>1, <2>2, HeadTailProperties, EmptySeq, LenProperties
  <2>4. DOMAIN jobs = 1..Len(jobs) /\ DOMAIN Tail(jobs) = 1..Len(jobs) - 1
    BY <2>3, LenProperties
  <2>5. worker'["document"] # Free
    BY <2>1 DEF Free
  <2>6. Shifted(1)
    <3>1. Places = 1..Len(jobs) /\ Places' = 0..Len(jobs) - 1
      BY <2>1, <2>2, <2>3, <2>4, <2>5 DEF Places
    <3>2. ASSUME NEW i \in 0..Len(jobs) - 1
          PROVE  i + 1 \in 1..Len(jobs) /\ JobAt(i)' = jobs[i + 1]
                 /\ JobAt(i + 1) = jobs[i + 1]
      <4>1. JobAt(i + 1) = jobs[i + 1]
        BY <2>2, <2>3 DEF JobAt
      <4>2. CASE i = 0
        BY <2>1, <2>2, <2>3, <4>1, <4>2 DEF JobAt
      <4>3. CASE i # 0
        BY <2>1, <2>2, <2>3, <4>1, <4>3 DEF JobAt
      <4> QED
        BY <2>3, <4>1, <4>2, <4>3
    <3> QED
      BY <3>1, <3>2 DEF Shifted
  <2>7. RunsOn(1)
    BY PlacesNext DEF RunsOn
  <2>8. OneEach' /\ AskedLess /\ DocsLess /\ Stalled' = Stalled
    BY <1>1 DEF CouncilInv, OneEach, AskedLess, Asked, DocsLess, Stalled
  <2>9. RunInv' /\ ShownInv'
    BY <1>1, <1>2, <2>1, <2>8, RunKept, ShownKept DEF CouncilInv
  <2> QED
    BY <1>1, <1>2, <2>6, <2>7, <2>8, <2>9, CouncilKept DEF CouncilInv
<1> QED
  BY <1>3, <1>4, TheQueues

(* What is added to a queue comes after what is in it.                       *)
LEMMA ConcatPlaces ==
  ASSUME NEW S, NEW s \in Seq(S), NEW t \in Seq(S)
  PROVE  /\ DOMAIN s = 1..Len(s) /\ Len(s) \in Nat
         /\ DOMAIN (s \o t) = 1..(Len(s) + Len(t)) /\ Len(t) \in Nat
         /\ \A i \in 1..Len(s) : (s \o t)[i] = s[i]
         /\ \A i \in 1..(Len(s) + Len(t)) : i > Len(s) =>
              i - Len(s) \in 1..Len(t) /\ (s \o t)[i] = t[i - Len(s)]
<1>1. s \o t \in Seq(S) /\ Len(s \o t) = Len(s) + Len(t)
      /\ \A i \in 1..Len(s) + Len(t) :
           (s \o t)[i] = IF i <= Len(s) THEN s[i] ELSE t[i - Len(s)]
  BY ConcatProperties
<1>2. Len(s) \in Nat /\ Len(t) \in Nat /\ DOMAIN s = 1..Len(s)
      /\ DOMAIN (s \o t) = 1..Len(s \o t)
  BY <1>1, LenProperties
<1> QED
  BY <1>1, <1>2

(* A stalled job that waits again is the first of them.                      *)
LEMMA RecoveredJobs ==
  ASSUME TasksInv, TasksInv', StalledInv, Recover("document")
  PROVE  /\ Stalled' \subseteq Stalled
         /\ \E job \in Stalled : \A i \in Places' :
              \/ i = 1 /\ JobAt(i)' = job
              \/ i = 0 /\ 0 \in Places /\ JobAt(i)' = JobAt(0)
              \/ i > 1 /\ i - 1 \in Places /\ JobAt(i)' = JobAt(i - 1)
<1>1. PICK jobs \in Seq(Job) : jobs = waiting["document"]
  BY TheQueues DEF TasksInv, WaitingInv
<1>2. PICK left \in Seq(Job) : left = stalled["document"]
  BY TheQueues DEF StalledInv
<1>3. PICK job : job = Head(left)
  OBVIOUS
<1>4. left # <<>> /\ UNCHANGED worker
      /\ waiting'["document"] = <<job>> \o jobs
      /\ stalled'["document"] = Tail(left)
  BY <1>1, <1>2, <1>3, TheQueues DEF Recover, TasksInv, WaitingInv, StalledInv
<1>5. job \in Job /\ Stalled = {job} \cup Range(Tail(left))
  BY <1>2, <1>3, <1>4, RangeSplits DEF Stalled
<1>6. Stalled' \subseteq Stalled
  BY <1>4, <1>5 DEF Stalled
<1>12. PICK one : one = <<job>>
  OBVIOUS
<1>7. one = <<job>> /\ one \in Seq(Job) /\ Len(one) = 1 /\ one[1] = job
  BY <1>5, <1>12
<1>8. PICK later : later = one \o jobs
  OBVIOUS
<1>9. /\ DOMAIN later = 1..(1 + Len(jobs)) /\ later[1] = job
      /\ DOMAIN jobs = 1..Len(jobs) /\ Len(jobs) \in Nat
      /\ \A i \in 1..(1 + Len(jobs)) : i > 1 =>
           i - 1 \in 1..Len(jobs) /\ later[i] = jobs[i - 1]
  <2>1. /\ DOMAIN jobs = 1..Len(jobs)
        /\ DOMAIN (one \o jobs) = 1..(Len(one) + Len(jobs)) /\ Len(jobs) \in Nat
        /\ \A i \in 1..Len(one) : (one \o jobs)[i] = one[i]
        /\ \A i \in 1..(Len(one) + Len(jobs)) : i > Len(one) =>
             i - Len(one) \in 1..Len(jobs) /\ (one \o jobs)[i] = jobs[i - Len(one)]
    BY ConcatPlaces, LenProperties
  <2> QED
    BY <1>7, <1>8, <2>1
<1>10. waiting'["document"] = later
  BY <1>4, <1>7, <1>8
<1>11. ASSUME NEW i \in Places'
       PROVE  \/ i = 1 /\ JobAt(i)' = job
              \/ i = 0 /\ 0 \in Places /\ JobAt(i)' = JobAt(0)
              \/ i > 1 /\ i - 1 \in Places /\ JobAt(i)' = JobAt(i - 1)
  <2>1. CASE i \in 1..(1 + Len(jobs))
    <3>1. JobAt(i)' = later[i]
      BY <1>9, <1>10, <2>1 DEF JobAt
    <3>2. CASE i = 1
      BY <1>9, <3>1, <3>2
    <3>3. CASE i # 1
      <4>1. i > 1 /\ i - 1 \in DOMAIN jobs /\ later[i] = jobs[i - 1] /\ i - 1 # 0
        BY <1>9, <2>1, <3>3
      <4>2. i - 1 \in Places /\ JobAt(i - 1) = jobs[i - 1]
        BY <1>1, <4>1 DEF Places, JobAt
      <4> QED
        BY <3>1, <4>1, <4>2
    <3> QED
      BY <3>2, <3>3
  <2>2. CASE i = 0 /\ worker["document"] # Free
    BY <1>4, <2>2 DEF Places, JobAt
  <2>3. i \in DOMAIN later \/ (i = 0 /\ worker["document"] # Free)
    BY <1>4, <1>10 DEF Places
  <2> QED
    BY <1>9, <2>1, <2>2, <2>3
<1> QED
  BY <1>5, <1>6, <1>11

(* It is of no regeneration whose handler waits.                             *)
LEMMA RecoverKeeps ==
  ASSUME AllInv, AllInv', CouncilInv, NEW q \in Queues, Recover(q),
         UNCHANGED <<councilVars, loadVars>>
  PROVE  CouncilInv'
<1> USE DEF AllInv
<1>1. UNCHANGED <<notifications, certificates, worker, requests, council,
                  documents>>
  BY DEF Recover, councilVars, loadVars
<1>2. Kept /\ NotesSame /\ NoneAbout /\ QuietDocs
  BY <1>1, NothingWritten, NotesUntouched DEF TasksInv
<1>3. CASE q = "certificate"
  <2>1. stalled'["document"] = stalled["document"]
        /\ waiting'["document"] = waiting["document"]
    BY <1>3, TheQueues DEF Recover, TasksInv, WaitingInv, StalledInv
  <2> QED
    BY <1>1, <1>2, <2>1, LoadsKeep
<1>4. CASE q = "document"
  <2>1. Stalled' \subseteq Stalled
    BY <1>4, RecoveredJobs
  <2>2. PICK job \in Stalled : \A i \in Places' :
          \/ i = 1 /\ JobAt(i)' = job
          \/ i = 0 /\ 0 \in Places /\ JobAt(i)' = JobAt(0)
          \/ i > 1 /\ i - 1 \in Places /\ JobAt(i)' = JobAt(i - 1)
    BY <1>4, RecoveredJobs
  <2>3. Left' \subseteq Left
    <3>1. ASSUME NEW i \in Places'
          PROVE  Writes(JobAt(i))' \in Left
      <4>1. (JobAt(i)' = job) \/ (\E k \in Places : JobAt(i)' = JobAt(k))
        BY <2>2
      <4>2. Writes(JobAt(i))' = Writes(JobAt(i)')
        BY DEF Writes
      <4> QED
        BY <4>1, <4>2, LeftWrites
    <3>2. \A j \in Stalled' : Writes(j)' \in Left
      <4>1. \A j : Writes(j)' = Writes(j)
        BY DEF Writes
      <4> QED
        BY <2>1, <4>1, LeftWrites
    <3> QED
      BY <3>1, <3>2 DEF Left
  <2>4. OneEach' /\ Asked' = Asked /\ DocsLess
    BY <1>1 DEF CouncilInv, OneEach, Asked, DocsLess
  <2>5. /\ Regenerations' = Regenerations
        /\ \A n : ChildrenOf(n)' = ChildrenOf(n)
    BY <1>1 DEF Regenerations, RootsOf, Roots, ChildrenOf
  <2>6. ItemsInv'
    BY <1>1, <2>5 DEF CouncilInv, ItemsInv
  <2>7. ReadInv' /\ DoneInv' /\ ShownInv' /\ RunInv'
    BY <1>1, <1>2, <2>3, <2>4, ReadKept, DoneKept, ShownKept, RunKept
    DEF CouncilInv, NotesSame
  <2>8. PreparingInv'
    <3> SUFFICES ASSUME NEW r \in Asked, r.at \in {"prepare", "enqueue"}
                 PROVE  Prepared(r)'
      BY <2>4 DEF PreparingInv
    <3>1. Prepared(r) /\ NoMoreCompleted({r.root})
      BY <1>1 DEF CouncilInv, PreparingInv, NoMoreCompleted
    <3> QED
      BY <1>1, <2>3, <2>5, <3>1, PreparedKept
  <2>9. AwaitedInv'
    <3> SUFFICES ASSUME NEW r \in Asked, r.at = "wait"
                 PROVE  Awaited(r)'
      BY <2>4 DEF AwaitedInv
    <3>1. Awaited(r)
      BY DEF CouncilInv, AwaitedInv
    <3>2. Listed(r)' /\ \A j \in Stalled' : j.root # r.root
      BY <1>1, <2>1, <3>1 DEF Awaited, Listed
    <3> DEFINE before(i) == IF i = 0 THEN 0 ELSE i - 1
    <3>3. ASSUME NEW i \in Of(r)'
          PROVE  /\ i = 0 \/ i > 1
                 /\ i \in Nat /\ before(i) \in Of(r) /\ JobAt(i)' = JobAt(before(i))
      <4>1. i \in Places' /\ JobAt(i)'.root = r.root /\ i \in Nat
        BY PlacesNext DEF Of
      <4>2. ~(i = 1 /\ JobAt(i)' = job)
        BY <3>1, <4>1 DEF Awaited
      <4> QED
        BY <2>2, <4>1, <4>2 DEF Of
    <3>4. \A i \in Of(r)' : \A k \in Of(r)' : before(i) = before(k) => i = k
      BY <3>3
    <3>5. \A i \in Of(r)' : before(i) = 0 => i = 0
      BY <3>3
    <3> HIDE DEF before
    <3>6. Counted(r)'
      BY <1>1, <2>5, <3>1, <3>3, <3>4, <3>5 DEF Awaited, Counted
    <3> QED
      BY <3>2, <3>6 DEF Awaited
  <2> QED
    BY <2>4, <2>6, <2>7, <2>8, <2>9 DEF CouncilInv
<1> QED
  BY <1>3, <1>4, TheQueues

(* The jobs of a regeneration are behind those that are there.               *)
LEMMA EnqueuedJobs ==
  ASSUME TasksInv, TasksInv', NEW r \in Asked, Enqueue(r)
  PROVE  /\ \A i \in Places : i \in Places' /\ JobAt(i)' = JobAt(i)
                              /\ i <= Len(waiting["document"])
         /\ \A i \in Places' : i \notin Places =>
              /\ i > Len(waiting["document"])
              /\ i - Len(waiting["document"]) \in DOMAIN r.items
              /\ JobAt(i)'.root = r.root /\ JobAt(i)'.data = r.data
              /\ JobAt(i)'.item = r.items[i - Len(waiting["document"])]
<1> DEFINE job(i) == [root |-> r.root, item |-> r.items[i], data |-> r.data,
                      retries |-> r.retries, again |-> FALSE]
           added == [i \in DOMAIN r.items |-> job(i)]
<1>1. r.queue = "document" /\ r \in requests /\ r.items \in Seq(Docs)
      /\ UNCHANGED worker
  BY AskedFields DEF Asked, Enqueue
<1>2. waiting'["document"] = waiting["document"] \o added
  BY <1>1, TheQueues DEF Enqueue, TasksInv, WaitingInv
<1>3. PICK jobs \in Seq(Job) : jobs = waiting["document"]
  BY TheQueues DEF TasksInv, WaitingInv
<1>4. added \in Seq(Job) /\ Len(added) = Len(r.items)
      /\ DOMAIN r.items = 1..Len(r.items) /\ Len(r.items) \in Nat
  <2>1. DOMAIN r.items = 1..Len(r.items) /\ Len(r.items) \in Nat
    BY <1>1, LenProperties
  <2>2. ASSUME NEW i \in 1..Len(r.items)
        PROVE  job(i) \in Job
    <3>1. r.items[i] \in Items
      BY <1>1, <2>1, ElementOfSeq, RegenerationAssumption
    <3>2. r.root \in Nat /\ r.data \in Nat /\ r.retries \subseteq Child
      BY <1>1, RequestFields DEF TasksInv, Request
    <3> QED
      BY <3>1, <3>2 DEF Job
  <2>3. added \in [1..Len(r.items) -> Job]
    BY <2>1, <2>2
  <2> HIDE DEF added
  <2>4. added \in Seq(Job)
    BY <2>1, <2>3, SeqDef
  <2>5. Len(added) = Len(r.items)
    BY <2>1, <2>3, <2>4, LenProperties
  <2> QED
    BY <2>1, <2>4, <2>5
<1>5. \A k \in DOMAIN r.items :
        /\ added[k].root = r.root /\ added[k].data = r.data
        /\ added[k].item = r.items[k]
  OBVIOUS
<1> HIDE DEF added
<1>6. /\ DOMAIN jobs = 1..Len(jobs) /\ Len(jobs) \in Nat
      /\ DOMAIN (jobs \o added) = 1..(Len(jobs) + Len(added)) /\ Len(added) \in Nat
      /\ \A i \in 1..Len(jobs) : (jobs \o added)[i] = jobs[i]
      /\ \A i \in 1..(Len(jobs) + Len(added)) : i > Len(jobs) =>
           i - Len(jobs) \in 1..Len(added) /\ (jobs \o added)[i] = added[i - Len(jobs)]
  BY <1>4, ConcatPlaces
<1>7. PICK later : later = jobs \o added
  OBVIOUS
<1>8. waiting'["document"] = later
  BY <1>2, <1>3, <1>7
<1>9. ASSUME NEW i \in Places
      PROVE  i \in Places' /\ JobAt(i)' = JobAt(i) /\ i <= Len(jobs)
  <2>1. CASE i \in DOMAIN jobs
    <3>1. i \in DOMAIN later /\ later[i] = jobs[i] /\ i # 0 /\ i <= Len(jobs)
      BY <1>6, <1>7, <2>1
    <3> QED
      BY <1>3, <1>8, <3>1 DEF Places, JobAt
  <2>2. CASE i = 0 /\ worker["document"] # Free
    <3>1. i \in Places' /\ JobAt(i)' = JobAt(i)
      BY <1>1, <2>2 DEF Places, JobAt
    <3> QED
      BY <1>6, <2>2, <3>1
  <2> QED
    BY <1>3, <2>1, <2>2 DEF Places
<1>10. ASSUME NEW i \in Places', i \notin Places
       PROVE  /\ i > Len(jobs) /\ i - Len(jobs) \in DOMAIN r.items
              /\ JobAt(i)'.root = r.root /\ JobAt(i)'.data = r.data
              /\ JobAt(i)'.item = r.items[i - Len(jobs)]
  <2>1. i \in DOMAIN later /\ i \notin DOMAIN jobs
    BY <1>1, <1>3, <1>8, <1>10 DEF Places
  <2>2. i > Len(jobs) /\ i - Len(jobs) \in DOMAIN r.items
        /\ later[i] = added[i - Len(jobs)] /\ i # 0
    BY <1>4, <1>6, <1>7, <2>1
  <2>3. JobAt(i)' = added[i - Len(jobs)]
    BY <1>8, <2>2 DEF JobAt
  <2> QED
    BY <1>5, <2>2, <2>3
<1> QED
  BY <1>3, <1>9, <1>10

(* The handler of a regeneration that gets its jobs.                         *)
LEMMA EnqueueKeeps ==
  ASSUME AllInv, AllInv', CouncilInv, NEW r \in Asked, Enqueue(r),
         UNCHANGED <<councilVars, loadVars>>
  PROVE  CouncilInv'
<1> USE DEF AllInv
<1>1. UNCHANGED <<notifications, certificates, worker, council, documents, stalled>>
      /\ r.at = "enqueue" /\ r \in requests /\ r.queue = "document" /\ r \in Request
  BY AskedFields, RequestFields DEF Enqueue, councilVars, loadVars, Asked, TasksInv
<1>2. Prepared(r) /\ Listed(r) /\ Writes(r) \in council.read
      /\ notifications[r.root].status # "COMPLETED" /\ ChildrenOf(r.root) = {}
      /\ \A x \in Left : x.root # r.root
  BY <1>1 DEF CouncilInv, PreparingInv, Prepared
<1>3. PICK s : s = [r EXCEPT !.at = "wait"]
  OBVIOUS
<1>4. s.root = r.root /\ s.queue = "document" /\ s.items = r.items /\ s.data = r.data
      /\ s.at = "wait" /\ requests' = (requests \ {r}) \cup {s}
  BY <1>1, <1>3 DEF Request, Enqueue, Advance
<1>5. OneEach' /\ Stalled' = Stalled
  BY <1>1, <1>4 DEF CouncilInv, OneEach, Stalled
<1>6. PICK len \in Nat : len = Len(waiting["document"])
  BY TheQueues, LenProperties DEF TasksInv, WaitingInv
<1>7. \A i \in Places : i \in Places' /\ JobAt(i)' = JobAt(i) /\ i <= len
                        /\ JobAt(i).root # r.root /\ i \in Nat
  <2>1. \A i \in Places : Writes(JobAt(i)) \in Left
    BY DEF Left
  <2> QED
    BY <1>2, <1>6, <2>1, EnqueuedJobs, PlaceFields DEF Writes
<1>8. \A i \in Places' : i \notin Places =>
        /\ i > len /\ i - len \in DOMAIN r.items /\ i \in Nat
        /\ JobAt(i)'.root = r.root /\ JobAt(i)'.data = r.data
        /\ JobAt(i)'.item = r.items[i - len]
  BY <1>6, EnqueuedJobs, PlacesNext
<1>9. Left' \subseteq Left \cup {Writes(r)}
  <2>1. ASSUME NEW i \in Places'
        PROVE  Writes(JobAt(i))' \in Left \cup {Writes(r)}
    <3>1. CASE i \in Places
      <4>1. Writes(JobAt(i))' = Writes(JobAt(i))
        BY <1>7, <3>1 DEF Writes
      <4> QED
        BY <3>1, <4>1, LeftWrites
    <3>2. CASE i \notin Places
      <4>1. Writes(JobAt(i))' = Writes(r)
        BY <1>8, <3>2 DEF Writes
      <4> QED
        BY <4>1
    <3> QED
      BY <3>1, <3>2
  <2>2. \A j \in Stalled' : Writes(j)' \in Left
    <3>1. \A j : Writes(j)' = Writes(j)
      BY DEF Writes
    <3> QED
      BY <1>5, <3>1, LeftWrites
  <2> QED
    BY <2>1, <2>2 DEF Left
<1>10. /\ Regenerations' = Regenerations /\ \A n : ChildrenOf(n)' = ChildrenOf(n)
       /\ Kept /\ NotesSame /\ NoneAbout /\ QuietDocs /\ DocsLess
  <2>1. Kept
    BY <1>1, NothingWritten DEF TasksInv
  <2> QED
    BY <1>1, <2>1, NotesUntouched DEF Regenerations, RootsOf, Roots, ChildrenOf, DocsLess
<1>11. ItemsInv' /\ DoneInv' /\ ShownInv' /\ RunInv'
  <2>1. ItemsInv'
    BY <1>1, <1>10 DEF CouncilInv, ItemsInv
  <2> QED
    BY <1>1, <1>10, <2>1, DoneKept, ShownKept, RunKept DEF CouncilInv, NotesSame
<1>12. ReadInv'
  BY <1>1, <1>2, <1>9, <1>10 DEF CouncilInv, ReadInv, Writes
<1>13. PreparingInv'
  <2> SUFFICES ASSUME NEW t \in Asked', t.at \in {"prepare", "enqueue"}
               PROVE  Prepared(t)'
    BY DEF PreparingInv
  <2>1. t \in Asked /\ t # r /\ t \in requests
    BY <1>4 DEF Asked
  <2>2. Prepared(t) /\ t.root # r.root
    BY <1>1, <2>1 DEF CouncilInv, PreparingInv, OneEach
  <2>3. \A x \in Left' : x.root # t.root
    BY <1>9, <2>2 DEF Prepared, Writes
  <2>4. Listed(t) => Listed(t)'
    BY <1>1 DEF Listed
  <2> QED
    BY <1>1, <1>10, <2>2, <2>3, <2>4 DEF Prepared, Writes
<1>14. Awaited(s)'
  <2>1. Listed(s)'
    BY <1>1, <1>2, <1>4 DEF Listed
  <2>2. ChildrenOf(s.root)' = {}
    BY <1>2, <1>4, <1>10
  <2>3. \A i \in Of(s)' : i \in Places' /\ i \notin Places
    BY <1>4, <1>7 DEF Of
  <2>4. \A i \in Of(s)' : JobAt(i)'.item \in Range(s.items)
    BY <1>4, <1>8, <2>3 DEF Range
  <2>5. ASSUME NEW i \in Of(s)', NEW k \in Of(s)', JobAt(i)'.item = JobAt(k)'.item
        PROVE  i = k
    <3>1. i - len = k - len
      <4>1. r.items[i - len] = r.items[k - len]
            /\ i - len \in DOMAIN r.items /\ k - len \in DOMAIN r.items
        BY <1>8, <2>3, <2>5
      <4> QED
        BY <1>2, <4>1 DEF Listed, IsInjective
    <3> QED
      BY <1>8, <2>3, <3>1
  <2>6. Counted(s)'
    BY <2>2, <2>4, <2>5 DEF Counted
  <2>7. \A j \in Stalled : j.root # s.root
    <3>1. \A j \in Stalled : Writes(j) \in Left
      BY LeftWrites
    <3>2. \A j : Writes(j).root = j.root
      BY DEF Writes
    <3> QED
      BY <1>2, <1>4, <3>1, <3>2
  <2> QED
    BY <1>5, <2>1, <2>6, <2>7 DEF Awaited
<1>15. ASSUME NEW t \in Asked, t # r, Awaited(t)
       PROVE  Awaited(t)'
  <2>1. t.root # r.root
    BY <1>1, <1>15 DEF CouncilInv, OneEach, Asked
  <2>2. Of(t)' = Of(t) /\ \A i \in Of(t) : JobAt(i)' = JobAt(i)
    BY <1>7, <1>8, <2>1 DEF Of
  <2>3. Counted(t)' /\ Listed(t)'
    BY <1>1, <1>10, <1>15, <2>2 DEF Awaited, Counted, Listed
  <2> QED
    BY <1>5, <1>15, <2>3 DEF Awaited
<1>16. AwaitedInv'
  <2> SUFFICES ASSUME NEW t \in Asked', t.at = "wait"
               PROVE  Awaited(t)'
    BY DEF AwaitedInv
  <2>1. t = s \/ (t \in Asked /\ t # r)
    BY <1>4 DEF Asked
  <2> QED
    BY <1>14, <1>15, <2>1 DEF CouncilInv, AwaitedInv
<1> QED
  BY <1>5, <1>11, <1>12, <1>13, <1>16 DEF CouncilInv

(* Every document is in the list of them.                                    *)
LEMMA DocsAreListed ==
  ASSUME NEW S \in SUBSET Docs
  PROVE  Range(SetToSeq(S)) = S
<1> DEFINE c == Cardinality(S)
<1>1. SetToSeq(S) \in [1..c -> S] /\ c \in Nat /\ IsInjective(SetToSeq(S))
  BY SequenceOfDocs
<1>2. IsFiniteSet(S) /\ Cardinality(1..c) = c
  <2>1. IsFiniteSet(S)
    BY RegenerationAssumption, FS_Subset
  <2> HIDE DEF c
  <2>2. Cardinality(1..c) = c
    BY <1>1, FS_Interval
  <2> QED
    BY <2>1, <2>2
<1>3. SetToSeq(S) \in Injection(1..c, S)
  BY <1>1 DEF Injection
<1>4. SetToSeq(S) \in Surjection(1..c, S)
  BY <1>2, <1>3, FS_Injection
<1> QED
  BY <1>1, <1>4 DEF Surjection, Range

(* The documents are read, and the council as it is then.                    *)
LEMMA ReadDocumentsKeeps ==
  ASSUME AllInv, AllInv', CouncilInv, NEW r \in requests, ReadDocuments(r),
         UNCHANGED loadVars
  PROVE  CouncilInv'
<1> USE DEF AllInv
<1>1. UNCHANGED <<notifications, certificates, waiting, worker, documents, stalled>>
      /\ r.at = "prepare" /\ r \in Asked /\ r \in Request
      /\ DOMAIN documents # {} /\ DOMAIN documents \subseteq Docs
  BY RequestFields
  DEF ReadDocuments, councilVars, loadVars, Asked, TasksInv, DocumentsTypeOK
<1>2. Prepared(r) /\ OneEach /\ AwaitedInv /\ PreparingInv /\ ReadInv
      /\ r.root \in Regenerations
  BY <1>1, AskedFields DEF CouncilInv, PreparingInv
<1>3. PICK s : s = [r EXCEPT !.items = SetToSeq(DOMAIN documents),
                             !.data = council.version, !.at = "enqueue"]
  OBVIOUS
<1>4. s.root = r.root /\ s.items = SetToSeq(DOMAIN documents)
      /\ s.data = council.version /\ s.at = "enqueue"
      /\ requests' = (requests \ {r}) \cup {s}
  BY <1>1, <1>3 DEF Request, ReadDocuments, Advance
<1>5. council'.read = council.read \cup {Writes(s)}
  <2>1. council' = [council EXCEPT !.read = council.read \cup
                     {[root |-> r.root, version |-> council.version]}]
    BY DEF ReadDocuments
  <2>2. Writes(s) = [root |-> r.root, version |-> council.version]
    BY <1>4 DEF Writes
  <2> QED
    BY <2>1, <2>2 DEF TasksInv, DocumentsTypeOK
<1>6. OneEach'
  BY <1>1, <1>2, <1>4 DEF OneEach
<1>7. /\ Regenerations' = Regenerations /\ Places' = Places /\ Stalled' = Stalled
      /\ \A n : ChildrenOf(n)' = ChildrenOf(n) /\ JobAt(n)' = JobAt(n)
      /\ \A x : Of(x)' = Of(x)
  BY <1>1 DEF Regenerations, RootsOf, Roots, ChildrenOf, Places, JobAt, Of, Stalled
<1>8. Left' = Left
  BY <1>1 DEF Left, Places, JobAt, Stalled, Writes
<1>9. Listed(s)
  <2>1. Range(s.items) = DOMAIN documents /\ IsInjective(s.items)
    BY <1>1, <1>4, DocsAreListed, SequenceOfDocs
  <2>2. s.items # <<>>
    <3>1. Range(<<>>) = {}
      BY RangeOfFew
    <3> QED
      BY <1>1, <2>1, <3>1
  <2> QED
    BY <2>1, <2>2 DEF Listed
<1>10. /\ Writes(s).root = r.root /\ notifications[r.root].status # "COMPLETED"
       /\ \A x \in council.read : x.root # r.root
       /\ \A x \in Left : x.root # r.root
  BY <1>1, <1>2, <1>4 DEF Prepared, Writes
<1>11. ReadInv'
  <2>1. Left' \subseteq council'.read
    BY <1>2, <1>5, <1>8 DEF ReadInv
  <2>2. \A x \in council'.read : x.root \in Regenerations
    BY <1>2, <1>5, <1>10 DEF ReadInv
  <2>3. \A x, y \in council'.read : x.root = y.root => x = y
    BY <1>2, <1>5, <1>10 DEF ReadInv
  <2> QED
    BY <1>1, <1>2, <1>7, <1>8, <2>1, <2>2, <2>3 DEF ReadInv
<1>12. PreparingInv'
  <2> SUFFICES ASSUME NEW t \in Asked', t.at \in {"prepare", "enqueue"}
               PROVE  Prepared(t)'
    BY DEF PreparingInv
  <2>1. CASE t = s
    <3>1. Writes(t)' \in council'.read
      BY <1>5, <2>1 DEF Writes
    <3>2. Listed(t)'
      BY <1>1, <1>9, <2>1 DEF Listed
    <3> QED
      BY <1>1, <1>2, <1>4, <1>7, <1>8, <2>1, <3>1, <3>2 DEF Prepared
  <2>2. CASE t \in Asked /\ t # r
    <3>1. Prepared(t) /\ t.root # r.root
      BY <1>1, <1>2, <2>2 DEF PreparingInv, OneEach, Asked
    <3>2. \A x \in council'.read : x.root = t.root => x \in council.read
      BY <1>5, <1>10, <3>1
    <3>3. t.at = "enqueue" => Writes(t)' \in council'.read /\ Listed(t)'
      BY <1>1, <1>5, <3>1 DEF Prepared, Writes, Listed
    <3> QED
      BY <1>1, <1>7, <1>8, <3>1, <3>2, <3>3 DEF Prepared
  <2> QED
    BY <1>4, <2>1, <2>2 DEF Asked
<1>13. AwaitedInv'
  <2> SUFFICES ASSUME NEW t \in Asked', t.at = "wait"
               PROVE  Awaited(t)'
    BY DEF AwaitedInv
  <2>1. t \in Asked /\ Awaited(t)
    BY <1>2, <1>4 DEF Asked, AwaitedInv
  <2> QED
    BY <1>1, <1>7, <2>1 DEF Awaited, Counted, Listed
<1>14. RunInv' /\ ItemsInv'
  BY <1>1, <1>7 DEF CouncilInv, RunInv, ItemsInv, LastAbout
<1>15. ShownInv'
  <2>1. Kept /\ QuietDocs /\ DocsLess /\ council.read \subseteq council'.read
    BY <1>1, <1>5, NothingWritten, NotesUntouched DEF TasksInv, DocsLess
  <2> QED
    BY <2>1, ShownKept DEF CouncilInv
<1>16. DoneInv'
  <2> SUFFICES ASSUME NEW x \in council'.read, NEW d \in DOMAIN documents,
                      notifications[x.root].status = "COMPLETED"
               PROVE  \E m \in ChildrenOf(x.root) :
                        /\ notifications[m].item = d
                        /\ notifications[m].status = "COMPLETED"
    BY <1>1, <1>7 DEF DoneInv
  <2>1. x \in council.read /\ DoneInv
    BY <1>5, <1>10 DEF CouncilInv
  <2>2. \E m \in ChildrenOf(x.root) :
          notifications[m].item = d /\ notifications[m].status = "COMPLETED"
    BY <2>1 DEF DoneInv
  <2> QED
    BY <2>2
<1> QED
  BY <1>6, <1>11, <1>12, <1>13, <1>14, <1>15, <1>16 DEF CouncilInv

(* There is none: the regeneration is over.                                  *)
LEMMA NoDocumentsKeeps ==
  ASSUME AllInv, AllInv', CouncilInv, NEW r \in requests, NoDocuments(r),
         UNCHANGED loadVars
  PROVE  CouncilInv'
<1> USE DEF AllInv
<1>1. UNCHANGED <<certificates, waiting, worker, council, documents, stalled>>
      /\ r.at = "prepare" /\ r \in Asked /\ r \in requests
      /\ DOMAIN documents = {} /\ requests' = requests \ {r}
  BY DEF NoDocuments, councilVars, loadVars, Asked
<1>2. Prepared(r) /\ OneEach /\ AwaitedInv /\ PreparingInv /\ ReadInv
  BY <1>1 DEF CouncilInv, PreparingInv
<1>3. r.root \in Regenerations /\ r.root \in DOMAIN notifications /\ r.root # 0
      /\ r.root \in Nat /\ notifications[r.root].parent = 0
  BY <1>1, AskedFields, LenProperties
  DEF TasksInv, NotesInv, Regenerations, RootsOf, Roots
<1>4. PICK new : new = Len(notifications) + 1
  OBVIOUS
<1>5. /\ Kept /\ DOMAIN notifications' = DOMAIN notifications \cup {new}
      /\ \A n \in DOMAIN notifications :
           n # r.root => notifications'[n] = notifications[n]
      /\ \A n \in DOMAIN notifications : n < new
      /\ notifications'[new].item = "none" /\ notifications'[new].parent = r.root
  BY <1>1, <1>4, NoDocumentsWritten DEF TasksInv
<1>6. new \notin DOMAIN notifications
  <2>1. \A n \in DOMAIN notifications : n \in Nat
    BY LenProperties DEF TasksInv, NotesInv
  <2> QED
    BY <1>5, <2>1
<1>7. Regenerations' = Regenerations /\ Regenerations \subseteq DOMAIN notifications
  BY <1>3, <1>5, <1>6 DEF Kept, Same, Regenerations, RootsOf, Roots
<1>8. \A n : n # r.root => ChildrenOf(n)' = ChildrenOf(n)
  BY <1>5, <1>6 DEF Kept, Same, ChildrenOf
<1>9. \A n : n = r.root => ChildrenOf(n)' = ChildrenOf(n) \cup {new}
  BY <1>5, <1>6 DEF Kept, Same, ChildrenOf
<1>10. \A n \in Regenerations : \A m \in ChildrenOf(n) :
         notifications'[m] = notifications[m]
  <2>1. \A n \in Regenerations : n # 0
    BY LenProperties DEF TasksInv, NotesInv, Regenerations, RootsOf, Roots
  <2> QED
    BY <1>3, <1>5, <2>1 DEF ChildrenOf
<1>11. /\ Places' = Places /\ \A i : JobAt(i)' = JobAt(i)
       /\ \A x : Of(x)' = Of(x) /\ Stalled' = Stalled
  BY <1>1 DEF Places, JobAt, Of, Stalled
<1>12. Left' = Left
  BY <1>1 DEF Left, Places, JobAt, Stalled, Writes
<1>13. OneEach' /\ AskedLess
  BY <1>1, <1>2, HandlerEnds
<1>14. ItemsInv'
  <2>1. \A n \in Regenerations : \A m \in ChildrenOf(n)' :
          \/ m \in ChildrenOf(n) /\ notifications'[m] = notifications[m]
          \/ notifications'[m].item = "none"
    BY <1>5, <1>8, <1>9, <1>10
  <2> QED
    BY <1>7, <2>1 DEF CouncilInv, ItemsInv
<1>15. ReadInv'
  <2>1. \A x \in Left : x.root # r.root /\ x.root \in Regenerations
    BY <1>2 DEF Prepared, ReadInv
  <2>2. \A x \in Left : notifications'[x.root] = notifications[x.root]
    BY <1>5, <1>7, <2>1
  <2> QED
    BY <1>1, <1>2, <1>7, <1>12, <2>2 DEF ReadInv
<1>16. PreparingInv'
  <2> SUFFICES ASSUME NEW t \in Asked', t.at \in {"prepare", "enqueue"}
               PROVE  Prepared(t)'
    BY DEF PreparingInv
  <2>1. t \in Asked /\ t # r /\ Prepared(t)
    BY <1>1, <1>2 DEF Asked, PreparingInv
  <2>2. t.root # r.root /\ t.root \in DOMAIN notifications
    BY <1>1, <1>2, <2>1, AskedFields DEF OneEach, Asked
  <2>3. notifications'[t.root] = notifications[t.root]
        /\ ChildrenOf(t.root)' = ChildrenOf(t.root)
    BY <1>5, <1>8, <2>2
  <2> QED
    BY <1>1, <1>12, <2>1, <2>3 DEF Prepared, Writes, Listed
<1>17. AwaitedInv'
  <2> SUFFICES ASSUME NEW t \in Asked', t.at = "wait"
               PROVE  Awaited(t)'
    BY DEF AwaitedInv
  <2>1. t \in Asked /\ Awaited(t) /\ t # r /\ t \in requests
    BY <1>1, <1>2 DEF Asked, AwaitedInv
  <2>2. t.root # r.root /\ t.root \in Regenerations
    BY <1>1, <1>2, <2>1, AskedFields DEF OneEach
  <2>3. ChildrenOf(t.root)' = ChildrenOf(t.root)
        /\ \A m \in ChildrenOf(t.root) : notifications'[m] = notifications[m]
    BY <1>8, <1>10, <2>2
  <2> QED
    BY <1>1, <1>11, <2>1, <2>3 DEF Awaited, Counted, Listed
<1>18. RunInv'
  <2>1. "none" \notin Docs
    BY JobsAssumption, RegenerationAssumption
  <2>2. NoneAbout /\ DocsLess
    BY <1>1, <1>5, <2>1 DEF NoneAbout, DocsLess
  <2> QED
    BY <1>1, <1>5, <2>2, RunKept DEF CouncilInv
<1>19. ShownInv' /\ DoneInv'
  BY <1>1 DEF ShownInv, DoneInv
<1> QED
  BY <1>13, <1>14, <1>15, <1>16, <1>17, <1>18, <1>19 DEF CouncilInv

(* A regeneration is COMPLETED only if every document of its list has a      *)
(* child that is.                                                            *)
LEMMA AllCompleted ==
  ASSUME TasksInv, NEW r \in Asked, Counted(r), IsInjective(r.items),
         LastStatus(r) = "COMPLETED"
  PROVE  \A d \in Range(r.items) : \E m \in ChildrenOf(r.root) :
           notifications[m].item = d /\ notifications[m].status = "COMPLETED"
<1> DEFINE C == {x \in NotificationsByParent(r.root) : x.row.status = "COMPLETED"}
           D == 1..Len(r.items)
           R == Range(r.items)
<1>1. r.items \in Seq(Docs) /\ Len(r.items) \in Nat /\ DOMAIN r.items = D
      /\ r.items \in [D -> Docs]
  BY AskedFields, LenProperties
<1>2. Cardinality(C) = Len(r.items)
  <2> HIDE DEF C
  <2>1. LastStatus(r) = IF Cardinality(C) = Len(r.items) THEN "COMPLETED"
                        ELSE IF 0 < Cardinality(C) /\ Cardinality(C) < Len(r.items)
                             THEN "WITH_ERRORS" ELSE "FAILURE"
    BY DEF LastStatus, C
  <2> QED
    BY <2>1
<1>3. IsFiniteSet(R) /\ Cardinality(R) = Len(r.items)
  <2>1. r.items \in Bijection(D, R)
    BY <1>1 DEF Bijection, Injection, Surjection, Range
  <2>2. IsFiniteSet(D) /\ Cardinality(D) = Len(r.items)
    BY <1>1, FS_Interval
  <2> HIDE DEF D, R
  <2>3. ExistsBijection(D, R)
    BY <2>1 DEF ExistsBijection
  <2> QED
    BY <2>2, <2>3, FS_Bijection
<1>4. \A x \in C : /\ x.id \in ChildrenOf(r.root) /\ x.row = notifications[x.id]
                   /\ x.row.status = "COMPLETED"
                   /\ x = [id |-> x.id, row |-> notifications[x.id]]
  BY DEF NotificationsByParent, ChildrenOf
<1> DEFINE f == [x \in C |-> x.row.item]
<1>5. f \in Injection(C, R)
  <2>1. f \in [C -> R]
    BY <1>4 DEF Counted
  <2>2. ASSUME NEW x \in C, NEW y \in C, f[x] = f[y]
        PROVE  x = y
    <3>1. x.id = y.id
      BY <1>4, <2>2 DEF Counted
    <3> QED
      BY <1>4, <3>1
  <2> QED
    BY <2>1, <2>2 DEF Injection, IsInjective
<1>6. f \in Surjection(C, R)
  <2> HIDE DEF C, R, f
  <2> QED
    BY <1>2, <1>3, <1>5, FS_Injection
<1>7. \A d \in R : \E x \in C : x.row.item = d
  <2>1. \A d \in R : \E x \in C : f[x] = d
    <3> HIDE DEF C, R, f
    <3> QED
      BY <1>6 DEF Surjection
  <2>2. \A x \in C : f[x] = x.row.item
    OBVIOUS
  <2> HIDE DEF C, R, f
  <2> QED
    BY <2>1, <2>2
<1> HIDE DEF C, f
<1> QED
  BY <1>4, <1>7

(* The last status of a regeneration.                                        *)
LEMMA FinishKeeps ==
  ASSUME AllInv, AllInv', CouncilInv, NEW r \in Asked, Finish(r),
         UNCHANGED <<councilVars, loadVars>>
  PROVE  CouncilInv'
<1> USE DEF AllInv
<1>1. UNCHANGED <<certificates, waiting, worker, council, documents, stalled>>
      /\ r.at = "wait" /\ r \in requests /\ r.queue = "document" /\ r \in Request
      /\ JobsFinished(r)
  BY AskedFields, RequestFields DEF Finish, councilVars, loadVars, Asked, TasksInv
<1>2. Awaited(r) /\ OneEach /\ AwaitedInv /\ PreparingInv /\ ReadInv
  BY <1>1 DEF CouncilInv, AwaitedInv
<1>3. r.root \in Regenerations /\ r.root \in DOMAIN notifications /\ r.root # 0
      /\ r.root \in Nat /\ notifications[r.root].parent = 0
      /\ notifications[r.root].item \notin Docs
  <2>1. "none" \notin Docs
    BY JobsAssumption, RegenerationAssumption
  <2> QED
    BY <1>1, <2>1, AskedFields, LenProperties
    DEF TasksInv, NotesInv, Noted, Regenerations, RootsOf, Roots
<1>4. PICK status \in NotificationStatus : status = LastStatus(r)
  BY DEF LastStatus, NotificationStatus
<1>5. /\ Kept /\ DOMAIN notifications' = DOMAIN notifications
      /\ Regenerations' = Regenerations /\ ChildrenSame /\ NoneAbout
      /\ \A m : ChildrenOf(m)' = ChildrenOf(m)
      /\ \A m \in DOMAIN notifications :
           m # r.root => notifications'[m] = notifications[m]
      /\ notifications'[r.root].status = status
  <2>1. SetStatus(r.root, status)
    BY <1>4 DEF Finish
  <2> QED
    BY <1>1, <1>3, <2>1, OneStatus, StatusWritten DEF TasksInv
<1>6. \A n \in Regenerations : \A m \in ChildrenOf(n) :
        notifications'[m] = notifications[m]
  <2>1. \A n \in Regenerations : n # 0
    BY LenProperties DEF TasksInv, NotesInv, Regenerations, RootsOf, Roots
  <2> QED
    BY <1>3, <1>5, <2>1 DEF ChildrenOf
<1>7. OneEach' /\ AskedLess
  <2>1. CASE requests' = requests \ {r}
    BY <1>2, <2>1, HandlerEnds
  <2>2. CASE Advance(r, [r EXCEPT !.at = "retried"])
    <3>1. PICK s : s = [r EXCEPT !.at = "retried"]
      OBVIOUS
    <3>2. s.root = r.root /\ s.at = "retried" /\ Advance(r, s)
      BY <1>1, <2>2, <3>1 DEF Request
    <3> QED
      BY <1>1, <1>2, <3>2, HandlerGoesOn
  <2> QED
    BY <2>1, <2>2 DEF Finish
<1>8. /\ Places' = Places /\ \A i : JobAt(i)' = JobAt(i)
      /\ \A x : Of(x)' = Of(x) /\ Stalled' = Stalled
  BY <1>1 DEF Places, JobAt, Of, Stalled
<1>9. Left' = Left
  BY <1>1 DEF Left, Places, JobAt, Stalled, Writes
<1>10. \A x \in Left : x.root # r.root
  <2>1. ASSUME NEW i \in Places
        PROVE  JobAt(i).root # r.root
    <3>1. 0 \notin DOMAIN waiting["document"]
      BY TheQueues, LenProperties DEF TasksInv, WaitingInv
    <3> QED
      BY <1>1, <3>1 DEF JobsFinished, Places, JobAt
  <2>2. \A j \in Stalled : j.root # r.root
    BY <1>2 DEF Awaited
  <2> QED
    BY <2>1, <2>2 DEF Left, Writes
<1>11. ItemsInv'
  BY <1>5, <1>6 DEF CouncilInv, ItemsInv
<1>12. ReadInv'
  <2>1. \A x \in Left : x.root \in DOMAIN notifications
    BY <1>2 DEF ReadInv, Regenerations, RootsOf, Roots
  <2>2. \A x \in Left : notifications'[x.root] = notifications[x.root]
    BY <1>5, <1>10, <2>1
  <2> QED
    BY <1>1, <1>2, <1>5, <1>9, <2>2 DEF ReadInv
<1>13. PreparingInv'
  <2> SUFFICES ASSUME NEW t \in Asked', t.at \in {"prepare", "enqueue"}
               PROVE  Prepared(t)'
    BY DEF PreparingInv
  <2>1. t \in Asked /\ Prepared(t) /\ t # r
    BY <1>1, <1>2, <1>7 DEF AskedLess, PreparingInv
  <2>2. t.root # r.root /\ t.root \in DOMAIN notifications
    BY <1>1, <1>2, <2>1, AskedFields DEF OneEach
  <2>3. notifications'[t.root] = notifications[t.root]
    BY <1>5, <2>2
  <2> QED
    BY <1>1, <1>5, <1>9, <2>1, <2>3 DEF Prepared, Writes, Listed
<1>14. AwaitedInv'
  <2> SUFFICES ASSUME NEW t \in Asked', t.at = "wait"
               PROVE  Awaited(t)'
    BY DEF AwaitedInv
  <2>1. t \in Asked /\ Awaited(t) /\ t.root \in Regenerations
    BY <1>2, <1>7, AskedFields DEF AskedLess, AwaitedInv
  <2>2. \A m \in ChildrenOf(t.root) : notifications'[m] = notifications[m]
    BY <1>6, <2>1
  <2> QED
    BY <1>1, <1>5, <1>8, <2>1, <2>2 DEF Awaited, Counted, Listed
<1>15. RunInv' /\ ShownInv'
  <2>1. QuietDocs /\ DocsLess
    BY <1>1, <1>3, <1>5 DEF QuietDocs, DocsLess, Kept, Same
  <2> QED
    BY <1>1, <1>5, <2>1, RunKept, ShownKept DEF CouncilInv
<1>16. DoneInv'
  <2> SUFFICES ASSUME NEW x \in council.read, NEW d \in DOMAIN documents,
                      notifications'[x.root].status = "COMPLETED"
               PROVE  \E m \in ChildrenOf(x.root) :
                        /\ notifications[m].item = d
                        /\ notifications[m].status = "COMPLETED"
    <3>1. \A x \in council.read : x.root \in Regenerations
      BY <1>2 DEF ReadInv
    <3> QED
      BY <1>1, <1>5, <1>6, <3>1 DEF DoneInv
  <2>1. CASE x.root = r.root
    <3>1. Counted(r) /\ IsInjective(r.items) /\ d \in Range(r.items)
      BY <1>2 DEF Awaited, Listed
    <3> QED
      BY <1>4, <1>5, <2>1, <3>1, AllCompleted
  <2>2. CASE x.root # r.root
    <3>1. notifications'[x.root] = notifications[x.root]
      BY <1>2, <1>5, <2>2 DEF ReadInv, Regenerations, RootsOf, Roots
    <3> QED
      BY <3>1 DEF CouncilInv, DoneInv
  <2> QED
    BY <2>1, <2>2
<1> QED
  BY <1>7, <1>11, <1>12, <1>13, <1>14, <1>15, <1>16 DEF CouncilInv

-------------------------------------------------------------------------------
(***************************************************************************)
(* The requests and the restarts.                                          *)
(***************************************************************************)

(* A document is removed.                                                    *)
LEMMA RemovalKeeps ==
  ASSUME AllInv, AllInv', CouncilInv, UNCHANGED loadVars,
         \/ \E d \in DOMAIN documents : BeginRemoval(d)
         \/ \E x \in removals : DeleteFile(x) \/ DeleteRow(x)
  PROVE  CouncilInv'
<1>1. UNCHANGED jobVars /\ UNCHANGED council /\ DocsLess
  <2>1. CASE \E x \in removals : DeleteRow(x)
    BY <2>1 DEF DeleteRow, Restrict, DocsLess
  <2> QED
    BY <2>1 DEF BeginRemoval, DeleteFile, DocsLess
<1>2. UNCHANGED <<notifications, certificates, waiting, worker, requests, stalled>>
  BY <1>1 DEF jobVars, loadVars
<1>3. Kept /\ NotesSame /\ NoneAbout /\ QuietDocs
  BY <1>2, NothingWritten, NotesUntouched DEF AllInv, TasksInv
<1>4. OneEach' /\ AskedLess /\ Stalled' = Stalled
  BY <1>2, HandlerEnds DEF CouncilInv, Stalled
<1> QED
  BY <1>1, <1>2, <1>3, <1>4, HandlersKeep DEF AllInv

(* The council is changed: what was read of it stays read.                   *)
LEMMA UpdateCouncilKeeps ==
  ASSUME AllInv, AllInv', CouncilInv, UpdateCouncil \/ UpdateQuietly,
         UNCHANGED loadVars
  PROVE  CouncilInv'
<1>1. UNCHANGED <<notifications, certificates, waiting, worker, requests, stalled,
                  documents>>
  BY DEF UpdateCouncil, UpdateQuietly, jobVars, loadVars
<1>2. council'.read = council.read
  BY DEF UpdateCouncil, UpdateQuietly, AllInv, TasksInv, DocumentsTypeOK
<1>3. Kept /\ NotesSame /\ NoneAbout /\ QuietDocs
  BY <1>1, NothingWritten, NotesUntouched DEF AllInv, TasksInv
<1>4. OneEach' /\ AskedLess /\ Stalled' = Stalled /\ DocsLess
  BY <1>1, HandlerEnds DEF CouncilInv, Stalled, DocsLess
<1> QED
  BY <1>1, <1>2, <1>3, <1>4, HandlersKeep DEF AllInv

(* A regeneration starts: it has read nothing, and has no jobs.              *)
LEMMA StartRegenerationKeeps ==
  ASSUME AllInv, AllInv', CouncilInv, StartRegeneration, UNCHANGED loadVars
  PROVE  CouncilInv'
<1> USE DEF AllInv
<1>1. UNCHANGED <<certificates, waiting, worker, documents, stalled>>
      /\ council'.read = council.read
  BY DEF StartRegeneration, Start, loadVars, TasksInv, DocumentsTypeOK
<1>2. OneEach /\ ItemsInv /\ ReadInv /\ PreparingInv /\ AwaitedInv
      /\ RunInv /\ ShownInv /\ DoneInv
  BY DEF CouncilInv
<1>3. PICK new : new = Len(notifications) + 1
  OBVIOUS
<1>4. /\ Kept /\ DOMAIN notifications' = DOMAIN notifications \cup {new}
      /\ \A n \in DOMAIN notifications : notifications'[n] = notifications[n]
      /\ notifications'[new].parent = 0 /\ notifications'[new].kind = "document"
      /\ notifications'[new].status = "IN_PROGRESS"
  <2>1. <<>> \in Seq(About("document")) /\ "document" \in Queues
    BY EmptySeq, TheQueues
  <2>2. Start("document", <<>>, 0)
    BY DEF StartRegeneration
  <2>3. 0 \in RootsOf("certificate") \cup {0}
    OBVIOUS
  <2> QED
    BY <1>1, <1>3, <2>1, <2>2, <2>3, StartTyped DEF TasksInv
<1>5. /\ \A n \in DOMAIN notifications : n \in Nat /\ n < new /\ n # 0
      /\ new \in Nat /\ new # 0 /\ new \notin DOMAIN notifications
  <2>1. Len(notifications) \in Nat /\ DOMAIN notifications = 1..Len(notifications)
    BY LenProperties DEF TasksInv, NotesInv
  <2> QED
    BY <1>3, <2>1
<1>6. notifications'[new].item \notin Docs
  <2>1. notifications'[new].item = "none"
    BY <1>4 DEF TasksInv, NotesInv, Noted
  <2> QED
    BY <2>1, JobsAssumption, RegenerationAssumption
<1>7. Regenerations' = Regenerations \cup {new}
      /\ Regenerations \subseteq DOMAIN notifications
  BY <1>4, <1>5 DEF Regenerations, RootsOf, Roots
<1>8. \A n : n # 0 => ChildrenOf(n)' = ChildrenOf(n)
  BY <1>4, <1>5 DEF ChildrenOf
<1>9. ChildrenOf(new) = {}
  BY <1>5 DEF ChildrenOf, TasksInv, NotesInv, Noted, Roots
<1>10. /\ Places' = Places /\ \A n : JobAt(n)' = JobAt(n)
       /\ (\A x : Of(x)' = Of(x)) /\ Stalled' = Stalled
  BY <1>1 DEF Places, JobAt, Of, Stalled
<1>11. Left' = Left
  <2>1. \A j : Writes(j)' = Writes(j)
    BY DEF Writes
  <2> QED
    BY <1>10, <2>1 DEF Left, Writes
<1>12. /\ \A n \in Regenerations : n # new /\ n # 0 /\ n \in DOMAIN notifications
       /\ \A n \in Regenerations : \A m \in ChildrenOf(n) :
            notifications'[m] = notifications[m]
  BY <1>4, <1>5, <1>7 DEF ChildrenOf
<1>13. NoMoreCompleted(Regenerations) /\ DoneStays /\ NoneAbout /\ QuietDocs
       /\ DocsLess
  <2>1. NoMoreCompleted(Regenerations) /\ DoneStays
    BY <1>4, <1>12 DEF NoMoreCompleted, DoneStays
  <2>2. NoneAbout /\ QuietDocs
    BY <1>4, <1>6 DEF NoneAbout, QuietDocs
  <2> QED
    BY <1>1, <2>1, <2>2 DEF DocsLess
<1>14. ReadInv' /\ DoneInv' /\ ShownInv' /\ RunInv'
  BY <1>1, <1>2, <1>4, <1>11, <1>13, ReadKept, DoneKept, ShownKept, RunKept
  DEF DocsLess
<1>15. ItemsInv'
  <2>1. \A n \in Regenerations' : \A m \in ChildrenOf(n)' :
          n \in Regenerations /\ m \in ChildrenOf(n)
    BY <1>5, <1>7, <1>8, <1>9, <1>12
  <2> QED
    BY <1>2, <1>12, <2>1 DEF ItemsInv
<1>16. PICK s : /\ requests' = requests \cup {s} /\ s.root = new
                /\ s.queue = "document" /\ s.at = "prepare"
  <2>1. PICK s : s = [root |-> Len(notifications) + 1, queue |-> "document",
                      items |-> <<>>, data |-> 0, retries |-> {}, at |-> "prepare"]
    OBVIOUS
  <2>2. requests' = requests \cup {s}
    BY <2>1 DEF StartRegeneration, Start
  <2>3. s.root = new /\ s.queue = "document" /\ s.at = "prepare"
    BY <1>3, <2>1
  <2> QED
    BY <2>2, <2>3
<1>17. \A r \in requests : r.root \in DOMAIN notifications /\ r.root # new
  BY <1>5, RequestFields DEF TasksInv, Roots
<1>18. OneEach'
  BY <1>2, <1>16, <1>17 DEF OneEach
<1>19. Prepared(s)'
  <2>1. ChildrenOf(s.root)' = {}
    <3>1. ChildrenOf(new)' = {}
      BY <1>5, <1>8, <1>9
    <3> QED
      BY <1>16, <3>1
  <2>2. \A x \in council.read : x.root # new
    BY <1>2, <1>12 DEF ReadInv
  <2>3. \A x \in Left : x.root # new
    BY <1>2, <2>2 DEF ReadInv
  <2> QED
    BY <1>1, <1>4, <1>11, <1>16, <2>1, <2>2, <2>3 DEF Prepared
<1>20. PreparingInv'
  <2> SUFFICES ASSUME NEW t \in Asked', t.at \in {"prepare", "enqueue"}
               PROVE  Prepared(t)'
    BY DEF PreparingInv
  <2>1. CASE t = s
    BY <1>19, <2>1
  <2>2. CASE t \in Asked
    <3>1. Prepared(t) /\ t.root \in Regenerations
      BY <1>2, <2>2, AskedFields DEF PreparingInv
    <3>2. ChildrenOf(t.root)' = ChildrenOf(t.root) /\ NoMoreCompleted({t.root})
      BY <1>4, <1>8, <1>12, <3>1 DEF NoMoreCompleted
    <3> QED
      BY <1>1, <1>11, <2>2, <3>1, <3>2, PreparedKept
  <2> QED
    BY <1>16, <2>1, <2>2 DEF Asked
<1>21. AwaitedInv'
  <2> SUFFICES ASSUME NEW t \in Asked', t.at = "wait"
               PROVE  Awaited(t)'
    BY DEF AwaitedInv
  <2>1. t \in Asked /\ Awaited(t)
    BY <1>2, <1>16 DEF Asked, AwaitedInv
  <2>2. t.root \in Regenerations
    BY <2>1, AskedFields
  <2>3. ChildrenOf(t.root)' = ChildrenOf(t.root)
        /\ \A m \in ChildrenOf(t.root) : notifications'[m] = notifications[m]
    BY <1>8, <1>12, <2>2
  <2>4. Counted(t)' /\ Listed(t)'
    BY <1>1, <1>10, <2>1, <2>3 DEF Awaited, Counted, Listed
  <2> QED
    BY <1>10, <2>1, <2>4 DEF Awaited
<1> QED
  BY <1>14, <1>15, <1>18, <1>20, <1>21 DEF CouncilInv

(* A load starts.                                                            *)
LEMMA LoadRequestsKeep ==
  ASSUME AllInv, AllInv', CouncilInv, LoadRequests, UNCHANGED councilVars
  PROVE  CouncilInv'
<1> USE DEF AllInv
<1>1. PICK sheet \in Sheets, retry \in RootsOf("certificate") \cup {0} :
        Start("certificate", sheet, retry) /\ UNCHANGED certificates
  BY DEF LoadRequests, StartLoad, RetryLoad, RootsOf, loadVars
<1>2. sheet \in Seq(About("certificate")) /\ "certificate" \in Queues
  BY BulkLoadAssumption, TheQueues
<1>3. PICK new : new = Len(notifications) + 1
  OBVIOUS
<1>4. /\ Kept /\ DOMAIN notifications' = DOMAIN notifications \cup {new}
      /\ \A n \in DOMAIN notifications : notifications'[n] = notifications[n]
      /\ notifications'[new].parent = 0 /\ notifications'[new].kind = "certificate"
  BY <1>1, <1>2, <1>3, StartTyped DEF TasksInv
<1>5. 0 \notin DOMAIN notifications /\ new \notin DOMAIN notifications
  BY <1>3, LenProperties DEF TasksInv, NotesInv
<1>6. NotesSame /\ NoneAbout /\ QuietDocs
  <2>1. notifications'[new].item = "none"
    BY <1>4 DEF TasksInv, NotesInv, Noted
  <2>2. Foreign(notifications'[new])
    BY <1>4, <2>1, JobsAssumption, RegenerationAssumption DEF Foreign
  <2> QED
    BY <1>4, <1>5, <2>2, OnlyForeign
<1>7. PICK s : /\ requests' = requests \cup {s} /\ s.root = new
               /\ s.queue = "certificate"
  <2>1. PICK s : s = [root |-> Len(notifications) + 1, queue |-> "certificate",
                      items |-> sheet, data |-> 0, retries |-> {},
                      at |-> "prepare"]
    OBVIOUS
  <2>2. requests' = requests \cup {s}
    BY <1>1, <2>1 DEF Start
  <2>3. s.root = new /\ s.queue = "certificate"
    BY <1>3, <2>1
  <2> QED
    BY <2>2, <2>3
<1>8. \A r \in requests : r.root # new
  BY <1>5, RequestFields DEF TasksInv, Roots
<1>9. OneEach' /\ AskedLess
  BY <1>7, <1>8 DEF CouncilInv, OneEach, AskedLess, Asked
<1>10. UNCHANGED <<waiting, worker, stalled, council, documents>>
  BY <1>1 DEF Start, councilVars
<1>11. Stalled' = Stalled /\ DocsLess
  BY <1>10 DEF Stalled, DocsLess
<1> QED
  BY <1>4, <1>6, <1>9, <1>10, <1>11, HandlersKeep

(* What is appended to a sequence is the only new element of it.             *)
LEMMA RangeOfAppended ==
  ASSUME NEW S, NEW s \in Seq(S), NEW x \in S
  PROVE  Range(Append(s, x)) \subseteq Range(s) \cup {x}
<1>1. /\ Append(s, x) \in Seq(S) /\ Len(Append(s, x)) = Len(s) + 1
      /\ \A i \in 1..Len(s) : Append(s, x)[i] = s[i]
      /\ Append(s, x)[Len(s) + 1] = x
  BY AppendProperties
<1>2. DOMAIN s = 1..Len(s) /\ Len(s) \in Nat
      /\ DOMAIN Append(s, x) = 1..Len(Append(s, x))
  BY <1>1, LenProperties
<1>3. \A i \in DOMAIN Append(s, x) : i \in DOMAIN s \/ i = Len(s) + 1
  BY <1>1, <1>2
<1> QED
  BY <1>1, <1>2, <1>3 DEF Range

(* The job that ran is stalled, or dropped: no more is left to write.        *)
LEMMA RestartLeaves ==
  ASSUME TasksInv, TasksInv', StalledInv, Restart
  PROVE  Left' \subseteq Left
<1> DEFINE w == worker["document"]
           old == stalled["document"]
           job == [w.job EXCEPT !.again = TRUE]
<1>1. worker'["document"] = Free /\ UNCHANGED waiting /\ old \in Seq(Job)
      /\ stalled'["document"] = IF w = Free \/ w.job.again THEN old
                                ELSE Append(old, job)
  BY TheQueues DEF Restart, Stop, StalledInv
<1>2. Shifted(0)
  BY <1>1, OthersStay
<1>3. \A j : Writes(j)' = Writes(j)
  BY DEF Writes
<1>4. ASSUME NEW i \in Places'
      PROVE  Writes(JobAt(i))' \in Left
  <2>1. i \in Places /\ Writes(JobAt(i))' = Writes(JobAt(i))
    <3>1. i \in Nat
      BY PlacesNext
    <3>2. i + 0 = i
      BY <3>1
    <3> QED
      BY <1>2, <3>2 DEF Shifted, Writes
  <2> QED
    BY <2>1, LeftWrites
<1>5. ASSUME NEW j \in Stalled'
      PROVE  Writes(j) \in Left
  <2>1. CASE j \in Stalled
    BY <2>1, LeftWrites
  <2>2. CASE j \notin Stalled
    <3>1. w # Free /\ stalled'["document"] = Append(old, job)
      BY <1>1, <2>2 DEF Stalled
    <3>2. w.job \in Job
      BY <3>1, TheQueues, BusyFields DEF TasksInv
    <3>3. job \in Job /\ Writes(job) = Writes(w.job)
      BY <3>2 DEF Job, Writes
    <3>4. j = job
      <4> HIDE DEF job
      <4>1. Range(Append(old, job)) \subseteq Range(old) \cup {job}
        BY <1>1, <3>3, RangeOfAppended
      <4> QED
        BY <2>2, <3>1, <4>1 DEF Stalled
    <3>5. 0 \in Places /\ JobAt(0) = w.job
      BY <3>1 DEF Places, JobAt
    <3>6. Writes(w.job) \in Left
      BY <3>5, LeftWrites
    <3> QED
      BY <3>3, <3>4, <3>6
  <2> QED
    BY <2>1, <2>2
<1> QED
  BY <1>3, <1>4, <1>5 DEF Left

(* A restart leaves no handler.                                              *)
LEMMA RestartKeeps ==
  ASSUME AllInv, AllInv', CouncilInv, Restart
  PROVE  CouncilInv'
<1> USE DEF AllInv
<1>1. UNCHANGED <<notifications, certificates, documents>>
      /\ worker'["document"] = Free
      /\ requests' = {[r EXCEPT !.at = "lost"] : r \in requests}
      /\ council'.read = council.read
  BY TheQueues
  DEF Restart, Stop, StopRegeneration, loadVars, TasksInv, DocumentsTypeOK
<1>2. Kept /\ NotesSame /\ NoneAbout /\ QuietDocs /\ DocsLess
  BY <1>1, NothingWritten, NotesUntouched DEF TasksInv, DocsLess
<1>3. Left' \subseteq Left
  BY RestartLeaves
<1>4. \A r \in requests' : r.at = "lost"
  BY <1>1, RequestFields DEF TasksInv, Request
<1>5. OneEach'
  <2>1. \A r \in requests : [r EXCEPT !.at = "lost"].root = r.root
    BY RequestFields DEF TasksInv, Request
  <2> SUFFICES ASSUME NEW x \in requests', NEW y \in requests', x.root = y.root
               PROVE  x = y
    BY DEF OneEach
  <2>2. PICK r \in requests : x = [r EXCEPT !.at = "lost"]
    BY <1>1
  <2>3. PICK t \in requests : y = [t EXCEPT !.at = "lost"]
    BY <1>1
  <2>4. r = t
    BY <2>1, <2>2, <2>3 DEF CouncilInv, OneEach
  <2> QED
    BY <2>2, <2>3, <2>4
<1>6. PreparingInv' /\ AwaitedInv'
  BY <1>4 DEF PreparingInv, AwaitedInv, Asked
<1>7. RunInv'
  BY <1>1 DEF RunInv, Free
<1>8. ItemsInv'
  BY <1>2 DEF CouncilInv, ItemsInv, NotesSame, ChildrenSame
<1>9. ReadInv' /\ DoneInv' /\ ShownInv'
  BY <1>1, <1>2, <1>3, ReadKept, DoneKept, ShownKept
  DEF CouncilInv, NotesSame, DocsLess
<1> QED
  BY <1>5, <1>6, <1>7, <1>8, <1>9 DEF CouncilInv

-------------------------------------------------------------------------------
(***************************************************************************)
(* The theorem.                                                            *)
(***************************************************************************)

(* At first there is neither task nor job.                                   *)
LEMMA CouncilInit ==
  ASSUME LongTasksInit
  PROVE  CouncilInv
<1>1. /\ notifications = <<>> /\ waiting["document"] = <<>>
      /\ worker["document"] = Free /\ requests = {} /\ council.read = {}
      /\ stalled["document"] = <<>>
  BY TheQueues DEF LongTasksInit, JobsInit, RegenerationInit
<1>2. Places = {} /\ Regenerations = {} /\ Asked = {} /\ Stalled = {}
  BY <1>1 DEF Places, Regenerations, RootsOf, Roots, Asked, Stalled, Range
<1>3. Left = {}
  BY <1>2 DEF Left
<1>4. OneEach /\ ItemsInv /\ ReadInv /\ PreparingInv /\ AwaitedInv
  BY <1>1, <1>2, <1>3 DEF OneEach, ItemsInv, ReadInv, PreparingInv, AwaitedInv
<1>5. RunInv /\ ShownInv /\ DoneInv
  BY <1>1 DEF RunInv, Free, ShownInv, DoneInv
<1> QED
  BY <1>4, <1>5 DEF CouncilInv

(* Every step keeps what is said of the council.                             *)
LEMMA CouncilStep ==
  ASSUME AllInv, AllInv', CouncilInv, [LongTasksNext]_taskVars
  PROVE  CouncilInv'
<1>1. ASSUME NEW r \in requests, Handle(r)
      PROVE  CouncilInv'
  <2>1. r.queue = "document" \/ r.queue = "certificate"
    BY RequestFields, TheQueues DEF AllInv, TasksInv
  <2>2. r.queue = "document" => r \in Asked
    BY DEF Asked
  <2>3. CASE Enqueue(r) /\ UNCHANGED <<councilVars, loadVars>>
    BY <2>1, <2>2, <2>3, EnqueueKeeps, LoadHandlerKeeps
  <2>4. CASE Finish(r) /\ UNCHANGED <<councilVars, loadVars>>
    BY <2>1, <2>2, <2>4, FinishKeeps, LoadHandlerKeeps
  <2>5. CASE ReadRetried(r) /\ UNCHANGED councilVars
    <3>1. r.queue = "certificate" /\ UNCHANGED loadVars
      BY <2>5 DEF ReadRetried
    <3> QED
      BY <2>5, <3>1, LoadHandlerKeeps
  <2> QED
    BY <1>1, <2>3, <2>4, <2>5, MarkRetriedKeeps, ReadDocumentsKeeps, NoDocumentsKeeps
    DEF Handle
<1>2. ASSUME NEW q \in Queues, Process(q)
      PROVE  CouncilInv'
  BY <1>2, TakeKeeps, RecoverKeeps, RecreateKeeps, LoadRowKeeps DEF Process
<1>3. CASE CouncilRequests /\ UNCHANGED loadVars
  BY <1>3, UpdateCouncilKeeps, StartRegenerationKeeps, RemovalKeeps
  DEF CouncilRequests
<1>4. CASE LoadRequests /\ UNCHANGED councilVars
  BY <1>4, LoadRequestsKeep
<1>5. CASE Restart
  BY <1>5, RestartKeeps
<1>6. CASE UNCHANGED taskVars
  <2>1. UNCHANGED <<notifications, waiting, worker, requests, stalled, council,
                    documents, certificates>>
    BY <1>6 DEF taskVars, jobVars, councilVars, loadVars
  <2>2. Kept /\ NotesSame /\ NoneAbout /\ QuietDocs
    BY <2>1, NothingWritten, NotesUntouched DEF AllInv, TasksInv
  <2> QED
    BY <2>1, <2>2, LoadsKeep DEF AllInv
<1> QED
  BY <1>1, <1>2, <1>3, <1>4, <1>5, <1>6 DEF LongTasksNext

(* The child of a COMPLETED regeneration was made with what it read.         *)
LEMMA DoneIsShown ==
  ASSUME CouncilInv
  PROVE  CouncilShown
<1> SUFFICES ASSUME NEW x \in council.read, NEW d \in DOMAIN documents,
                    notifications[x.root].status = "COMPLETED"
             PROVE  \E m \in DOMAIN notifications :
                      /\ notifications[m].parent = x.root
                      /\ notifications[m].item = d
                      /\ notifications[m].status = "COMPLETED"
                      /\ LastAbout(m) => documents[d].variables = x.version
  BY DEF CouncilShown
<1>1. PICK m \in ChildrenOf(x.root) :
        notifications[m].item = d /\ notifications[m].status = "COMPLETED"
  BY DEF CouncilInv, DoneInv
<1>2. m \in DOMAIN notifications /\ notifications[m].parent = x.root
  BY DEF ChildrenOf
<1>3. ASSUME LastAbout(m)
      PROVE  documents[d].variables = x.version
  <2>1. [root |-> x.root, version |-> documents[d].variables] \in council.read
    BY <1>1, <1>2, <1>3 DEF CouncilInv, ShownInv
  <2> QED
    BY <2>1 DEF CouncilInv, ReadInv
<1> QED
  BY <1>1, <1>2, <1>3

(* A COMPLETED regeneration that read documents has made each one that is    *)
(* still there anew, which shows the council as that regeneration read it    *)
(* unless another one's job about it began later, whatever is changed,       *)
(* removed, loaded, fails or stops meanwhile (documents.service.ts,          *)
(* recreateDocumentsByCouncil and recreateDocument).                         *)
THEOREM CouncilIsShown == LongTasksSpec => []CouncilShown
<1>1. LongTasksInit => AllInv /\ CouncilInv
  BY InitHolds, CouncilInit
<1>2. AllInv /\ CouncilInv /\ [LongTasksNext]_taskVars => AllInv' /\ CouncilInv'
  BY StepHolds, CouncilStep
<1>3. CouncilInv => CouncilShown
  BY DoneIsShown
<1> QED
  BY <1>1, <1>2, <1>3, PTL DEF LongTasksSpec
===============================================================================

--------------------------------- MODULE Jobs ---------------------------------
(***************************************************************************)
(* What the two long tasks of the server share: a main notification, one   *)
(* job per item in a Bull queue, a child notification per job, and the     *)
(* handler that waits for the jobs and gives the main notification its     *)
(* last status (recreateDocumentsByCouncil in documents.service.ts,        *)
(* createBulkCertificates in certificate-bulk.service.ts, the              *)
(* notifications service and the two processors).                          *)
(*                                                                         *)
(* Nobody awaits these handlers: what they wait for is lost when the       *)
(* process stops, while the jobs stay in Redis.  A queue has one processor *)
(* that runs one job at a time.                                            *)
(***************************************************************************)
EXTENDS Naturals, Sequences, SequencesExt

CONSTANTS
  Queues,    \* the document and the certificate queue
  Items,     \* what a job is about: a document or a student
  Failures,  \* what may fail in this instance
  MaxRoots,  \* bound: the tasks that are started
  MaxStops   \* bound: the times the process stops

(* drive, fill: Drive refuses to copy a file, to write in it; rate: for too   *)
(* many requests; validation: a row names something that is not there; cells, *)
(* grades: the cells of the sheet cannot be written, some grades have none;   *)
(* members: a member cannot be added.                                         *)
ASSUME JobsAssumption ==
  /\ Queues = {"document", "certificate"}
  /\ Failures \subseteq {"drive", "fill", "validation", "rate",
                         "cells", "grades", "members"}
  /\ "none" \notin Items
  /\ MaxRoots \in Nat /\ MaxStops \in Nat

VARIABLES
  notifications, \* the notifications table; an identifier is a position
  waiting,       \* the jobs in Redis, in the order they will run
  worker,        \* what the processor of each queue is doing
  requests,      \* the handlers that started a task and wait for its jobs
  stops,         \* how often the process stopped
  stalled        \* the jobs that it left, in the order it left them

jobVars == <<notifications, waiting, worker, requests, stops, stalled>>

-------------------------------------------------------------------------------
NotificationStatus == {"IN_PROGRESS", "COMPLETED", "WITH_ERRORS", "FAILURE"}

(* parent: 0 for a main notification; retry: the main one that this one tries *)
(* again, or 0; entities: the certificate in data.entities, or 0; carried:    *)
(* its name says that the item was completed before.                          *)
Notification == [kind : Queues, parent : Nat, retry : Nat,
                 item : Items \cup {"none"}, status : NotificationStatus,
                 entities : Nat, carried : BOOLEAN]

(* A notification as it was read, and its identifier.                         *)
Child == [id : Nat, row : Notification]

(* data: the values the job is to write; retries: the children of the task    *)
(* that is tried again, as they were read; again: the job was active when the *)
(* process stopped.                                                           *)
Job == [root : Nat, item : Items, data : Nat, retries : SUBSET Child,
        again : BOOLEAN]

Request == [root : Nat, queue : Queues, items : Seq(Items), data : Nat,
            retries : SUBSET Child,
            at : {"prepare", "enqueue", "wait", "retried", "lost"}]

Free == [at |-> "idle"]

(* child and entity: the identifiers of the child notification and of the     *)
(* certificate or file, 0 when there is none yet; errors: what went wrong.    *)
Busy == [at : {"start", "copy", "fill", "save", "complete", "fail", "overwrite",
               "previous", "validate", "certificate", "sheet", "cells",
               "clear", "members", "finish"},
         job : Job, child : Nat, entity : Nat, errors : BOOLEAN]

JobsTypeOK ==
  /\ notifications \in Seq(Notification)
  /\ waiting \in [Queues -> Seq(Job)]
  /\ worker \in [Queues -> Busy \cup {Free}]
  /\ requests \subseteq Request
  /\ stops \in 0..MaxStops
  /\ stalled \in [Queues -> Seq(Job)]

JobsInit ==
  /\ notifications = <<>>
  /\ waiting = [q \in Queues |-> <<>>]
  /\ worker = [q \in Queues |-> Free]
  /\ requests = {}
  /\ stops = 0
  /\ stalled = [q \in Queues |-> <<>>]

Roots == {n \in DOMAIN notifications : notifications[n].parent = 0}

(* notificationsByParent.                                                    *)
NotificationsByParent(n) ==
  {[id |-> i, row |-> notifications[i]] :
     i \in {k \in DOMAIN notifications : notifications[k].parent = n}}

(* create: a row; its identifier is the length of the table.                 *)
Create(kind, parent, retry, item, status) ==
  notifications' = Append(notifications,
    [kind |-> kind, parent |-> parent, retry |-> retry, item |-> item,
     status |-> status, entities |-> 0, carried |-> FALSE])

(* update, updateFailureMsg, and save of an entity: the status is written,   *)
(* whatever it was.                                                          *)
SetStatus(n, status) ==
  notifications' = [notifications EXCEPT ![n].status = status]

-------------------------------------------------------------------------------
(***************************************************************************)
(* The handler that starts a task.                                         *)
(***************************************************************************)

(* The main notification, in progress.                                       *)
Start(q, items, retry) ==
  /\ Cardinality(Roots) < MaxRoots
  /\ Create(q, 0, retry, "none", "IN_PROGRESS")
  /\ requests' = requests \cup
       {[root |-> Len(notifications) + 1, queue |-> q, items |-> items,
         data |-> 0, retries |-> {}, at |-> "prepare"]}
  /\ UNCHANGED <<waiting, worker, stops, stalled>>

Advance(r, s) == requests' = (requests \ {r}) \cup {s}

(* One job per item, in their order.                                         *)
Enqueue(r) ==
  /\ r.at = "enqueue"
  /\ waiting' = [waiting EXCEPT ![r.queue] = @ \o
       [i \in DOMAIN r.items |->
          [root |-> r.root, item |-> r.items[i], data |-> r.data,
           retries |-> r.retries, again |-> FALSE]]]
  /\ Advance(r, [r EXCEPT !.at = "wait"])
  /\ UNCHANGED <<notifications, worker, stops, stalled>>

(* Every job of r has finished.                                              *)
JobsFinished(r) ==
  /\ \A i \in DOMAIN waiting[r.queue] : waiting[r.queue][i].root # r.root
  /\ worker[r.queue] # Free => worker[r.queue].job.root # r.root

(* Mutant of LastStatus: the children are counted, whatever their status.    *)
LastStatusOfAny(r) ==
  IF Cardinality(NotificationsByParent(r.root)) = Len(r.items)
  THEN "COMPLETED" ELSE "FAILURE"

(* The last status of a main notification, from those of its children.       *)
LastStatus(r) ==
  LET completed == Cardinality({x \in NotificationsByParent(r.root) :
                                  x.row.status = "COMPLETED"})
  IN  IF completed = Len(r.items) THEN "COMPLETED"
      ELSE IF 0 < completed /\ completed < Len(r.items) THEN "WITH_ERRORS"
      ELSE "FAILURE"

(* The main notification gets its last status.  One that tries another again *)
(* has that one marked next, if any item was completed.                      *)
Finish(r) ==
  LET root == notifications[r.root] IN
  /\ r.at = "wait" /\ JobsFinished(r)
  /\ SetStatus(r.root, LastStatus(r))
  /\ IF root.retry # 0 /\ LastStatus(r) # "FAILURE"
     THEN Advance(r, [r EXCEPT !.at = "retried"])
     ELSE requests' = requests \ {r}
  /\ UNCHANGED <<waiting, worker, stops, stalled>>

(* The task that was tried again is COMPLETED from now on.                   *)
MarkRetried(r) ==
  /\ r.at = "retried"
  /\ SetStatus(notifications[r.root].retry, "COMPLETED")
  /\ requests' = requests \ {r}
  /\ UNCHANGED <<waiting, worker, stops, stalled>>

-------------------------------------------------------------------------------
(***************************************************************************)
(* The processors.                                                         *)
(***************************************************************************)

(* The next job of the queue.                                                *)
Take(q) ==
  /\ worker[q] = Free /\ waiting[q] # <<>>
  /\ worker' = [worker EXCEPT ![q] =
       [at |-> "start", job |-> Head(waiting[q]), child |-> 0, entity |-> 0,
        errors |-> FALSE]]
  /\ waiting' = [waiting EXCEPT ![q] = Tail(@)]
  /\ UNCHANGED <<notifications, requests, stops, stalled>>

Goes(q, to) == worker' = [worker EXCEPT ![q].at = to]

(* Mutant of Release: the error reaches Bull, which runs the job again.      *)
ReleaseThrown(q) ==
  worker' = [worker EXCEPT
    ![q].at = IF @ = "overwrite" THEN "start" ELSE "idle"]

(* The handler of the job returns or throws: the processor swallows what it  *)
(* throws (isRecoverable is never set), and the job is finished either way.  *)
Release(q) == worker' = [worker EXCEPT ![q] = Free]

(* The process stops and starts again: the handlers are gone; the job that a *)
(* processor had is stalled, or failed if it was so before.                  *)
Stop ==
  /\ stops < MaxStops
  /\ stops' = stops + 1
  /\ stalled' = [q \in Queues |->
       IF worker[q] = Free \/ worker[q].job.again THEN stalled[q]
       ELSE Append(stalled[q], [worker[q].job EXCEPT !.again = TRUE])]
  /\ worker' = [q \in Queues |-> Free]
  /\ requests' = {[r EXCEPT !.at = "lost"] : r \in requests}
  /\ UNCHANGED <<notifications, waiting>>

(* The lock of a stalled job has expired: it waits again, before the others. *)
(* Any of them may have run meanwhile.                                       *)
Recover(q) ==
  /\ stalled[q] # <<>>
  /\ waiting' = [waiting EXCEPT ![q] = <<Head(stalled[q])>> \o @]
  /\ stalled' = [stalled EXCEPT ![q] = Tail(@)]
  /\ UNCHANGED <<notifications, worker, requests, stops>>
===============================================================================

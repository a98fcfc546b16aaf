------------------------------ MODULE LongTasks -------------------------------
(***************************************************************************)
(* The regeneration of documents and the load of certificates together, on *)
(* one server, with its two queues and its restarts.                       *)
(***************************************************************************)
EXTENDS Regeneration, BulkLoad

CONSTANT OneKind \* bound: whether a behaviour has tasks of one kind only

(* Documents and students are rows of different tables.                      *)
ASSUME LongTasksAssumption == Docs \cap Students = {} /\ OneKind \in BOOLEAN

taskVars == <<jobVars, councilVars, loadVars>>

LongTasksTypeOK == JobsTypeOK /\ DocumentsTypeOK /\ CertificatesTypeOK

LongTasksInit == JobsInit /\ RegenerationInit /\ BulkLoadInit

(* Every handler, processor and promise of the process ends.                 *)
Restart ==
  /\ Stop
  /\ StopRegeneration
  /\ UNCHANGED loadVars

(* The steps that the server takes by itself.                                *)
Handle(r) ==
  \/ /\ Enqueue(r) \/ Finish(r) \/ MarkRetried(r)
     /\ UNCHANGED <<councilVars, loadVars>>
  \/ (ReadDocuments(r) \/ NoDocuments(r)) /\ UNCHANGED loadVars
  \/ ReadRetried(r) /\ UNCHANGED councilVars

Process(q) ==
  \/ (Take(q) \/ Recover(q)) /\ UNCHANGED <<councilVars, loadVars>>
  \/ q = "document" /\ Recreate /\ UNCHANGED loadVars
  \/ q = "certificate" /\ LoadRow /\ UNCHANGED councilVars

LongTasksNext ==
  \/ \E r \in requests : Handle(r)
  \/ \E q \in Queues : Process(q)
  \/ /\ OneKind => \A n \in Roots : notifications[n].kind = "document"
     /\ CouncilRequests /\ UNCHANGED loadVars
  \/ /\ OneKind => RegenerationInit
     /\ LoadRequests /\ UNCHANGED councilVars
  \/ Restart

LongTasksSpec == LongTasksInit /\ [][LongTasksNext]_taskVars

(* Node runs what has settled, Redis hands out the jobs, and whatever Drive  *)
(* and the database are asked they answer.                                   *)
FairLongTasksSpec ==
  /\ LongTasksSpec
  /\ WF_taskVars(\E r \in requests : Handle(r))
  /\ \A q \in Queues : WF_taskVars(Process(q))

(* The tasks that were started come to their end: their main notifications   *)
(* get a last status, their handlers return unless the process stopped, and  *)
(* no job is left, whatever Drive and the database refuse.                   *)
TasksEnd ==
  <>[] /\ \A r \in requests : r.at = "lost"
       /\ \A q \in Queues :
            waiting[q] = <<>> /\ stalled[q] = <<>> /\ worker[q] = Free
       /\ \A n \in Roots : notifications[n].status = "IN_PROGRESS" =>
            \E r \in requests : r.root = n

(* Documents, certificates and notifications are of their types, and what a  *)
(* load reports as COMPLETED is there.                                       *)
LongTasksInv == LongTasksTypeOK /\ CompletedIsThere
===============================================================================

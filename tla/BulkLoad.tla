------------------------------- MODULE BulkLoad -------------------------------
(***************************************************************************)
(* The load of degree certificates from a sheet                            *)
(* (certificate-bulk.service.ts): one job per row, that is, per student.   *)
(*                                                                         *)
(* A load may try another one again (retryId).  A job then looks for the   *)
(* child notification that the earlier load left for the student, and      *)
(* goes on from what that one says.                                        *)
(***************************************************************************)
EXTENDS Jobs

CONSTANTS
  Students, \* rows name students
  Sheets,   \* the sheets that are loaded: sequences of students
  Members   \* the members of a certificate that a row asks for

ASSUME BulkLoadAssumption ==
  Students \subseteq Items /\ Sheets \subseteq Seq(Students) /\ Members \in Nat

VARIABLE certificates \* the certificates; an identifier is a position

loadVars == <<certificates>>

Certificate == [student : Students, state : {"live", "deleted", "gone"},
                sheet : BOOLEAN, members : Nat]

CertificatesTypeOK == certificates \in Seq(Certificate)

BulkLoadInit == certificates = <<>>

-------------------------------------------------------------------------------
(***************************************************************************)
(* createBulkCertificates.                                                 *)
(***************************************************************************)
StartLoad(sheet) ==
  /\ Start("certificate", sheet, 0)
  /\ UNCHANGED loadVars

(* A load whose handler is no longer there is tried again.                   *)
RetryLoad(n, sheet) ==
  /\ notifications[n].kind = "certificate"
  /\ \A r \in requests : r.root = n => r.at = "lost"
  /\ Start("certificate", sheet, n)
  /\ UNCHANGED loadVars

(* The children of the load that is tried again, as they are now.            *)
ReadRetried(r) ==
  LET retry == notifications[r.root].retry IN
  /\ r.at = "prepare" /\ r.queue = "certificate"
  /\ Advance(r, [r EXCEPT !.at = "enqueue",
       !.retries = IF retry = 0 THEN {} ELSE NotificationsByParent(retry)])
  /\ UNCHANGED <<notifications, waiting, worker, loadVars, stops, stalled>>

-------------------------------------------------------------------------------
(***************************************************************************)
(* createDegreeCertificate.                                                *)
(***************************************************************************)
Loading(step) ==
  worker["certificate"] # Free /\ worker["certificate"].at = step

Row == worker["certificate"].job

Entity == worker["certificate"].entity

LoadGoes(to) == worker' = [worker EXCEPT !["certificate"].at = to]

(* The children of the retried load that name the student ...                *)
Named == {x \in Row.retries : x.row.item = Row.item}

(* ... and the first of them, which is the one that find returns.            *)
Previous == (CHOOSE x \in Named : \A y \in Named : x.id <= y.id).row

IsRetry == notifications[Row.root].retry # 0

(* The child of a row that is loaded, or loaded again.                       *)
CreateLoadChild ==
  /\ Loading("start")
  /\ IsRetry => Named # {} /\ Previous.status # "COMPLETED"
  /\ Create("certificate", Row.root, 0, Row.item, "IN_PROGRESS")
  /\ worker' = [worker EXCEPT
       !["certificate"].at = IF IsRetry THEN "previous" ELSE "validate",
       !["certificate"].child = Len(notifications) + 1]
  /\ UNCHANGED <<waiting, requests, stops, stalled, loadVars>>

(* Nothing to do for a row that was completed; a row that the retried load   *)
(* has no child for is an error, and gets no child either.                   *)
SkipRow ==
  /\ Loading("start") /\ IsRetry
  /\ \/ /\ Named # {} /\ Previous.status = "COMPLETED"
        /\ notifications' = Append(notifications,
             [Previous EXCEPT !.parent = Row.root, !.carried = TRUE])
     \/ Named = {} /\ UNCHANGED notifications
  /\ Release("certificate")
  /\ UNCHANGED <<waiting, requests, stops, stalled, loadVars>>

(* remove of a certificate: it is kept, without its sheet and its members.   *)
Removed(i) ==
  [certificates EXCEPT ![i] = [@ EXCEPT !.state = "deleted", !.sheet = FALSE,
                                        !.members = 0]]

(* The certificate that the earlier load left with errors is removed.  Only  *)
(* such a child names its entities: for another one reading them throws, and *)
(* nothing catches it.                                                       *)
RemovePrevious ==
  LET left == Previous.entities IN
  /\ Loading("previous")
  /\ IF left = 0
     THEN Release("certificate") /\ UNCHANGED certificates
     ELSE /\ certificates' =
               IF certificates[left].state = "gone" THEN certificates
                                                    ELSE Removed(left)
          /\ LoadGoes("validate")
  /\ UNCHANGED <<notifications, waiting, requests, stops, stalled>>

(* Student, type, status and modality are looked up, and one may be missing. *)
MayBeMissing == "validation" \in Failures

ValidateRow ==
  /\ Loading("validate")
  /\ LoadGoes("certificate") \/ (MayBeMissing /\ LoadGoes("fail"))
  /\ UNCHANGED <<notifications, waiting, requests, stops, stalled, loadVars>>

(* Mutant of Replicates: only a certificate with members is one.             *)
ReplicatesWithMembers ==
  {i \in DOMAIN certificates : certificates[i].student = Row.item
                               /\ certificates[i].state = "live"
                               /\ certificates[i].members > 0}

(* findReplicate: the newest certificate of the student that is not deleted. *)
Replicates == {i \in DOMAIN certificates :
                 certificates[i].student = Row.item
                 /\ certificates[i].state = "live"}

(* getDegreeCertificateData, before it has a sheet and members.              *)
NewCertificate ==
  [student |-> Row.item, state |-> "live", sheet |-> FALSE, members |-> 0]

(* validateCertificate: the certificate is created, or the one there is is   *)
(* overwritten.                                                              *)
SaveCertificate ==
  /\ Loading("certificate")
  /\ IF Replicates = {}
     THEN /\ certificates' = Append(certificates, NewCertificate)
          /\ worker' = [worker EXCEPT !["certificate"].at = "sheet",
                          !["certificate"].entity = Len(certificates) + 1]
     ELSE /\ worker' = [worker EXCEPT !["certificate"].at = "sheet",
                          !["certificate"].entity = Max(Replicates)]
          /\ UNCHANGED certificates
  /\ UNCHANGED <<notifications, waiting, requests, stops, stalled>>

(* The sheet there was is revoked, another one is copied.                    *)
CopySheet ==
  /\ Loading("sheet")
  /\ certificates' = [certificates EXCEPT ![Entity].sheet = TRUE]
  /\ LoadGoes("cells")
  /\ UNCHANGED <<notifications, waiting, requests, stops, stalled>>

(* The database or Drive refuses: the error is written in the main           *)
(* notification, and the child stays in progress.                            *)
ThrowInLoad ==
  /\ "drive" \in Failures
  /\ Loading("certificate") \/ Loading("sheet")
  /\ SetStatus(Row.root, "FAILURE")
  /\ Release("certificate")
  /\ UNCHANGED <<waiting, requests, stops, stalled, loadVars>>

(* Drive has had too many requests: the error is thrown for Bull to try      *)
(* again, and the processor swallows it.                                     *)
TooManyRequests ==
  /\ "rate" \in Failures /\ Loading("sheet")
  /\ Release("certificate")
  /\ UNCHANGED <<notifications, waiting, requests, stops, stalled, loadVars>>

(* The grades are written in the sheet; some of them may have no cell.       *)
FillCells ==
  /\ Loading("cells")
  /\ \E errors \in IF "grades" \in Failures THEN BOOLEAN ELSE {FALSE} :
       worker' = [worker EXCEPT !["certificate"].at = "clear",
                                !["certificate"].errors = errors]
  /\ UNCHANGED <<notifications, waiting, requests, stops, stalled, loadVars>>

(* The cells are not known or Drive refuses to write them: the certificate   *)
(* is deleted from the table, which the database refuses when it has         *)
(* members.                                                                  *)
DiscardCertificate ==
  /\ "cells" \in Failures /\ Loading("cells")
  /\ IF certificates[Entity].members = 0
     THEN /\ certificates' = [certificates EXCEPT ![Entity].state = "gone"]
          /\ LoadGoes("fail")
          /\ UNCHANGED notifications
     ELSE /\ SetStatus(Row.root, "FAILURE")
          /\ Release("certificate")
          /\ UNCHANGED certificates
  /\ UNCHANGED <<waiting, requests, stops, stalled>>

FailRow ==
  /\ Loading("fail")
  /\ SetStatus(worker["certificate"].child, "FAILURE")
  /\ Release("certificate")
  /\ UNCHANGED <<waiting, requests, stops, stalled, loadVars>>

(* generateAttendance: the members there were are deleted ...                *)
ClearMembers ==
  /\ Loading("clear")
  /\ certificates' = [certificates EXCEPT ![Entity].members = 0]
  /\ LoadGoes("members")
  /\ UNCHANGED <<notifications, waiting, requests, stops, stalled>>

(* ... and those of the row are added, one by one.                           *)
AddMember ==
  /\ Loading("members") /\ certificates[Entity].members < Members
  /\ certificates' = [certificates EXCEPT ![Entity].members = @ + 1]
  /\ UNCHANGED <<notifications, waiting, worker, requests, stops, stalled>>

(* All were added, or one could not be: those after it are not tried.        *)
EndMembers ==
  /\ Loading("members")
  /\ \/ /\ certificates[Entity].members = Members
        /\ LoadGoes("finish")
     \/ /\ "members" \in Failures /\ certificates[Entity].members < Members
        /\ worker' = [worker EXCEPT !["certificate"].at = "finish",
                                    !["certificate"].errors = TRUE]
  /\ UNCHANGED <<notifications, waiting, requests, stops, stalled, loadVars>>

(* Mutant of FinishRow: what went wrong with the members is forgotten.       *)
FinishRowCompleted ==
  /\ Loading("finish")
  /\ SetStatus(worker["certificate"].child, "COMPLETED")
  /\ Release("certificate")
  /\ UNCHANGED <<waiting, requests, stops, stalled, loadVars>>

FinishRow ==
  LET child == worker["certificate"].child IN
  /\ Loading("finish")
  /\ IF worker["certificate"].errors
     THEN notifications' = [notifications EXCEPT
            ![child] = [@ EXCEPT !.status = "WITH_ERRORS", !.entities = Entity]]
     ELSE SetStatus(child, "COMPLETED")
  /\ Release("certificate")
  /\ UNCHANGED <<waiting, requests, stops, stalled, loadVars>>

LoadRow ==
  \/ CreateLoadChild \/ SkipRow \/ RemovePrevious \/ ValidateRow
  \/ SaveCertificate \/ CopySheet \/ ThrowInLoad \/ TooManyRequests
  \/ FillCells \/ DiscardCertificate \/ FailRow
  \/ ClearMembers \/ AddMember \/ EndMembers \/ FinishRow

LoadRequests ==
  \E sheet \in Sheets :
    StartLoad(sheet) \/ \E n \in Roots : RetryLoad(n, sheet)

-------------------------------------------------------------------------------
(***************************************************************************)
(* Properties.                                                             *)
(***************************************************************************)

(* However often a student is loaded, in one sheet or several, tried again   *)
(* or run again after a restart, there is one certificate that is not        *)
(* deleted.                                                                  *)
OneCertificate ==
  \A i, j \in DOMAIN certificates :
    /\ certificates[i].state = "live" /\ certificates[j].state = "live"
    /\ certificates[i].student = certificates[j].student
    => i = j

(* When the last that was done for a student is COMPLETED, the student has a *)
(* certificate with its sheet and every member that the row asked for.       *)
CompletedIsThere ==
  \A s \in Students :
    LET own == {n \in DOMAIN notifications \ Roots :
                  notifications[n].item = s /\ ~ notifications[n].carried}
    IN  own # {} /\ notifications[Max(own)].status = "COMPLETED" =>
          \E i \in DOMAIN certificates :
            certificates[i] = [student |-> s, state |-> "live", sheet |-> TRUE,
                               members |-> Members]
===============================================================================

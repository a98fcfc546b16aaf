----------------------------- MODULE Regeneration -----------------------------
(***************************************************************************)
(* The regeneration of a council's documents: councils.service.ts (update, *)
(* regenerateCouncilDocuments), documents.service.ts                       *)
(* (recreateDocumentsByCouncil, recreateDocument, remove).                 *)
(*                                                                         *)
(* When the date of a council changes, or its type in an update that names *)
(* no members, every document of the council is made anew from its         *)
(* template with the council's variables.  What the variables say of the   *)
(* council is a version number here.                                       *)
(***************************************************************************)
EXTENDS Jobs

CONSTANTS
  Docs,       \* documents of the council
  Removable,  \* those that a user may remove
  MaxVersion  \* bound: the versions of the council

ASSUME RegenerationAssumption ==
  /\ Removable \subseteq Docs /\ Docs \subseteq Items /\ IsFiniteSet(Docs)
  /\ MaxVersion \in Nat

VARIABLES
  council,   \* its version, the regenerations called and what they read of it
  documents, \* the documents table: the file and the variables of each
  files,     \* the files on Drive and what they show
  nextFile,  \* the identifier Drive gives to the next file
  removals   \* the removals of documents under way

councilVars == <<council, documents, files, nextFile, removals>>

(* What a regeneration read: its main notification and the version.          *)
Reading == [root : Nat, version : Nat]

Doc == [file : Nat, variables : Nat]

File == [doc : Docs, id : Nat, shows : Nat]

DocumentsTypeOK ==
  /\ council \in [version : Nat, called : Nat, read : SUBSET Reading]
  /\ DOMAIN documents \subseteq Docs
  /\ \A d \in DOMAIN documents : documents[d] \in Doc
  /\ files \subseteq File
  /\ nextFile \in Nat
  /\ removals \subseteq [doc : Docs, file : Nat, at : {"unlink", "delete"}]

(* Documents of a council in its first version, each with its file.          *)
RegenerationInit ==
  /\ council = [version |-> 1, called |-> 0, read |-> {}]
  /\ documents = [d \in Docs |-> [file |-> 0, variables |-> 1]]
  /\ files = {[doc |-> d, id |-> 0, shows |-> 1] : d \in Docs}
  /\ nextFile = 1
  /\ removals = {}

-------------------------------------------------------------------------------
(***************************************************************************)
(* The requests: a council is changed, a document is removed.              *)
(***************************************************************************)

(* update: the council is saved with another date, or another type and no    *)
(* members; the regeneration is called and not awaited.  Every save makes a  *)
(* version.                                                                  *)
UpdateCouncil ==
  /\ council.version < MaxVersion
  /\ council' = [council EXCEPT !.version = @ + 1, !.called = @ + 1]
  /\ UNCHANGED <<documents, files, nextFile, removals, jobVars>>

(* update where the date stays: with members, each saved by itself, whatever *)
(* else changes, or of neither date nor type; updateBulk, of anything.       *)
(* Nothing is regenerated.                                                   *)
UpdateQuietly ==
  /\ council.version < MaxVersion
  /\ council' = [council EXCEPT !.version = @ + 1]
  /\ UNCHANGED <<documents, files, nextFile, removals, jobVars>>

(* The main notification of the regeneration.                                *)
StartRegeneration ==
  /\ council.called > 0
  /\ Start("document", <<>>, 0)
  /\ council' = [council EXCEPT !.called = @ - 1]
  /\ UNCHANGED <<documents, files, nextFile, removals>>

(* The documents are read, and the council's variables through the first of  *)
(* them.                                                                     *)
ReadDocuments(r) ==
  /\ r.at = "prepare" /\ r.queue = "document"
  /\ DOMAIN documents # {}
  /\ Advance(r, [r EXCEPT !.items = SetToSeq(DOMAIN documents),
                          !.data = council.version, !.at = "enqueue"])
  /\ council' = [council EXCEPT !.read = @ \cup
       {[root |-> r.root, version |-> council.version]}]
  /\ UNCHANGED <<notifications, waiting, worker, documents, files, nextFile,
                 removals, stops, stalled>>

(* There is none: the notification is completed with a child that says so.   *)
NoDocuments(r) ==
  LET root == [notifications[r.root] EXCEPT !.status = "COMPLETED"]
      child == [root EXCEPT !.parent = r.root]
  IN
  /\ r.at = "prepare" /\ r.queue = "document"
  /\ DOMAIN documents = {}
  /\ notifications' = Append([notifications EXCEPT ![r.root] = root], child)
  /\ requests' = requests \ {r}
  /\ UNCHANGED <<waiting, worker, councilVars, stops, stalled>>

(* remove: the document is read, the file it had is deleted, then the row.    *)
BeginRemoval(d) ==
  /\ d \in Removable /\ \A x \in removals : x.doc # d
  /\ removals' = removals \cup
       {[doc |-> d, file |-> documents[d].file, at |-> "unlink"]}
  /\ UNCHANGED <<council, documents, files, nextFile, jobVars>>

(* A file that is not there cannot be deleted: the row stays.                *)
DeleteFile(x) ==
  LET file == {f \in files : f.doc = x.doc /\ f.id = x.file} IN
  /\ x.at = "unlink"
  /\ removals' = (removals \ {x}) \cup
       (IF file = {} THEN {} ELSE {[x EXCEPT !.at = "delete"]})
  /\ files' = files \ file
  /\ UNCHANGED <<council, documents, nextFile, jobVars>>

DeleteRow(x) ==
  /\ x.at = "delete"
  /\ documents' = Restrict(documents, DOMAIN documents \ {x.doc})
  /\ removals' = removals \ {x}
  /\ UNCHANGED <<council, files, nextFile, jobVars>>

-------------------------------------------------------------------------------
(***************************************************************************)
(* recreateDocument.                                                       *)
(***************************************************************************)
Regenerating(step) ==
  worker["document"] # Free /\ worker["document"].at = step

Doing == worker["document"].job

(* The child notification, in progress.                                      *)
CreateChild ==
  /\ Regenerating("start")
  /\ Create("document", Doing.root, 0, Doing.item, "IN_PROGRESS")
  /\ worker' = [worker EXCEPT !["document"].at = "copy",
                              !["document"].child = Len(notifications) + 1]
  /\ UNCHANGED <<waiting, requests, stops, stalled, councilVars>>

(* The template is copied on Drive.                                          *)
CopyTemplate ==
  /\ Regenerating("copy")
  /\ files' = files \cup {[doc |-> Doing.item, id |-> nextFile, shows |-> 0]}
  /\ nextFile' = nextFile + 1
  /\ worker' = [worker EXCEPT !["document"].at = "fill",
                              !["document"].entity = nextFile]
  /\ UNCHANGED <<notifications, waiting, requests, stops, stalled, council,
                 documents, removals>>

Copied(f) == f.doc = Doing.item /\ f.id = worker["document"].entity

(* The variables are written in the copy.                                    *)
FillCopy ==
  /\ Regenerating("fill")
  /\ files' = {IF Copied(f) THEN [f EXCEPT !.shows = Doing.data] ELSE f :
                 f \in files}
  /\ Goes("document", "save")
  /\ UNCHANGED <<notifications, waiting, requests, stops, stalled, council,
                 documents, nextFile, removals>>

(* Drive refuses to copy or to fill: whatever was made stays.                *)
DriveRefuses ==
  /\ \/ Regenerating("copy") /\ "drive" \in Failures
     \/ Regenerating("fill") /\ "fill" \in Failures
  /\ Goes("document", "fail")
  /\ UNCHANGED <<notifications, waiting, requests, stops, stalled, councilVars>>

(* Mutant of SaveCopy: the file is saved and the variables stay.             *)
SaveCopyAlone ==
  /\ Regenerating("save")
  /\ Doing.item \in DOMAIN documents
  /\ documents' = [documents EXCEPT ![Doing.item].file = worker["document"].entity]
  /\ Goes("document", "complete")
  /\ UNCHANGED <<notifications, waiting, requests, stops, stalled, council,
                 files, nextFile, removals>>

(* The file and the variables of the document are saved together; there is   *)
(* no row to save them in when it was removed, nor enough for a new one.     *)
SaveCopy ==
  LET saved == [file |-> worker["document"].entity, variables |-> Doing.data] IN
  /\ Regenerating("save")
  /\ IF Doing.item \in DOMAIN documents
     THEN /\ documents' = [documents EXCEPT ![Doing.item] = saved]
          /\ Goes("document", "complete")
     ELSE /\ Goes("document", "fail")
          /\ UNCHANGED documents
  /\ UNCHANGED <<notifications, waiting, requests, stops, stalled, council,
                 files, nextFile, removals>>

CompleteChild ==
  /\ Regenerating("complete")
  /\ SetStatus(worker["document"].child, "COMPLETED")
  /\ Release("document")
  /\ UNCHANGED <<waiting, requests, stops, stalled, councilVars>>

(* The child is marked FAILURE by a query ...                                *)
FailChild ==
  /\ Regenerating("fail")
  /\ SetStatus(worker["document"].child, "FAILURE")
  /\ Goes("document", "overwrite")
  /\ UNCHANGED <<waiting, requests, stops, stalled, councilVars>>

(* ... and saved again from the entity, in progress as it was created.       *)
OverwriteChild ==
  /\ Regenerating("overwrite")
  /\ SetStatus(worker["document"].child, "IN_PROGRESS")
  /\ Release("document")
  /\ UNCHANGED <<waiting, requests, stops, stalled, councilVars>>

Recreate ==
  \/ CreateChild \/ CopyTemplate \/ FillCopy \/ DriveRefuses \/ SaveCopy
  \/ CompleteChild \/ FailChild \/ OverwriteChild

CouncilRequests ==
  \/ UpdateCouncil \/ UpdateQuietly \/ StartRegeneration
  \/ \E d \in DOMAIN documents : BeginRemoval(d)
  \/ \E x \in removals : DeleteFile(x) \/ DeleteRow(x)

(* What a restart does to these handlers; a regeneration that was about to    *)
(* start leaves no trace.                                                    *)
StopRegeneration ==
  /\ council' = [council EXCEPT !.called = 0]
  /\ removals' = {}
  /\ UNCHANGED <<documents, files, nextFile>>

-------------------------------------------------------------------------------
(***************************************************************************)
(* Properties.                                                             *)
(***************************************************************************)

(* The variables kept in a document's row are those that its file shows,     *)
(* whatever fails, is removed or stops in the middle of a regeneration       *)
(* ("Variables a reemplazar en el documento").                               *)
FileShowsVariables ==
  \A d \in DOMAIN documents, f \in files :
    f.doc = d /\ f.id = documents[d].file => f.shows = documents[d].variables

(* m is the last notification about its item.                                *)
LastAbout(m) ==
  \A n \in DOMAIN notifications :
    notifications[n].item = notifications[m].item => n <= m

(* A regeneration that read documents and is COMPLETED has made every one of *)
(* them anew: each that is still there has a COMPLETED child of it, and      *)
(* shows the council as that regeneration read it unless another one's job   *)
(* about the document began later.                                           *)
CouncilShown ==
  \A x \in council.read, d \in DOMAIN documents :
    notifications[x.root].status = "COMPLETED" =>
      \E m \in DOMAIN notifications :
        /\ notifications[m].parent = x.root /\ notifications[m].item = d
        /\ notifications[m].status = "COMPLETED"
        /\ LastAbout(m) => documents[d].variables = x.version
===============================================================================

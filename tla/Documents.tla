------------------------------ MODULE Documents ------------------------------
(***************************************************************************)
(* The documents of the councils                                           *)
(* (src/documents/services/documents.service.ts): create and remove,       *)
(* composed with the numbering service they call and with Google Drive.    *)
(*                                                                         *)
(* A document holds one row of the numbering (numeration_document_id, a    *)
(* foreign key that is unique) and, once it is linked, a file on Drive.    *)
(* Neither create nor remove is a transaction: create compensates the      *)
(* steps done when a later one fails, and both leave what they did where   *)
(* it is when the process ends in between.                                 *)
(***************************************************************************)
EXTENDS Numeration

CONSTANTS
  Failures,   \* what may fail in this instance
  MaxDocument \* bound: once that many documents were saved none is created

(* document: the dto names a template, a user, a functionary or a student    *)
(* that is not there; copy, unlink: Drive refuses to copy or to delete a     *)
(* file; background: Drive refuses to fill the copy in; restart: the process *)
(* is stopped; early: a client removes a document before its creation is     *)
(* answered.                                                                 *)
ASSUME DocumentsAssumption ==
  /\ Failures \subseteq {"document", "copy", "unlink", "background", "restart",
                         "early"}
  /\ MaxDocument \in Nat

VARIABLES
  documents,    \* the documents table
  nextDocument, \* the identifier the database gives to the next document
  files,        \* the files on Drive, named by the document they were made for
  work,         \* what the handler of each request has done about a document
  background    \* promises that no handler awaits

documentVars == <<documents, nextDocument, files, work, background>>
allVars == <<vars, documentVars>>

-------------------------------------------------------------------------------
Step == {"idle", "numbering", "save", "query", "copy", "link",
         "dropNumber", "undoFile", "undoDocument", "undoNumber",
         "dequeue", "unlink", "delete",
         "created", "removed", "failed"}

Answers == {"created", "removed", "failed"}

(* row and doc: the identifiers of the numeration and of the document, 0 when *)
(* there is none yet; file: whether the handler knows of a file on Drive.     *)
Work == [at : Step, row : Nat, doc : Nat, file : BOOLEAN]

Idle == [at |-> "idle", row |-> 0, doc |-> 0, file |-> FALSE]

(* left: the process ended while a handler was at work on it (bookkeeping).  *)
Document == [id : Nat, row : Nat, linked : BOOLEAN, left : BOOLEAN]

Task == [kind : {"replaceText", "saveVariables"}, doc : Nat]

DocumentsTypeOK ==
  /\ TypeOK
  /\ documents \subseteq Document
  /\ nextDocument \in Nat
  /\ files \subseteq Nat
  /\ work \in [Requests -> Work]
  /\ background \subseteq Task

DocumentsInit ==
  /\ Init
  /\ documents = {}
  /\ nextDocument = 1
  /\ files = {}
  /\ work = [r \in Requests |-> Idle]
  /\ background = {}

(* The handler of r goes on at another step.                                 *)
At(r, to) == work' = [work EXCEPT ![r].at = to]

(* A row of the numbering that a document refers to.                         *)
Held(row) == \E d \in documents : d.row = row

(* A step of a document handler leaves the numbering alone.                  *)
Numbered == UNCHANGED vars

Tables == UNCHANGED <<documents, nextDocument, files, background>>

-------------------------------------------------------------------------------
(***************************************************************************)
(* create.                                                                 *)
(***************************************************************************)

(* The request arrives: the numbering service is called first.               *)
CreateDocument(r, c, n) ==
  /\ nextDocument <= MaxDocument /\ nextId <= MaxId
  /\ BeginCreate(r, c, n)
  /\ At(r, "numbering")
  /\ Tables

(* A step of the numbering's create that does not give the number yet.       *)
TakeNumber(r) ==
  /\ work[r].at = "numbering"
  /\ CheckNext(r) \/ ReadBook(r) \/ ReadOwn(r) \/ ReadAvailable(r)
     \/ InsertReserved(r)
  /\ UNCHANGED documentVars

(* The number is given, in a new row or in one that the council had.         *)
NumberGiven(r) ==
  /\ work[r].at = "numbering"
  /\ \/ /\ InsertUsed(r)
        /\ work' = [work EXCEPT ![r].at = "save", ![r].row = nextId]
     \/ /\ SaveUsed(r)
        /\ \E x \in view[r].snap :
             work' = [work EXCEPT ![r].at = "save", ![r].row = x.id]
  /\ Tables

(* The document is saved, unless another one holds the row, the row is gone  *)
(* or the dto refers to something that is not there.                         *)
SaveDocument(r) ==
  LET row == work[r].row
      saved == [id |-> nextDocument, row |-> row, linked |-> FALSE,
                left |-> FALSE]
  IN
  /\ work[r].at = "save"
  /\ \/ /\ ~ Held(row) /\ \E x \in rows : x.id = row
        /\ documents' = documents \cup {saved}
        /\ nextDocument' = nextDocument + 1
        /\ work' = [work EXCEPT ![r].at = "query", ![r].doc = nextDocument]
        /\ UNCHANGED <<files, background>>
     \/ /\ \/ Held(row)
           \/ \A x \in rows : x.id # row
           \/ "document" \in Failures
        /\ At(r, "undoNumber")
        /\ Tables
  /\ Numbered

(* The document is read back with all it refers to, functionaries and        *)
(* student are linked and the variables computed.                            *)
QueryDocument(r) ==
  /\ work[r].at = "query"
  /\ \/ /\ \A d \in documents : d.id # work[r].doc
        /\ At(r, "dropNumber")
     \/ /\ \E d \in documents : d.id = work[r].doc
        /\ At(r, "copy")
     \/ /\ \E d \in documents : d.id = work[r].doc
        /\ "document" \in Failures
        /\ At(r, "undoDocument")
  /\ Numbered /\ Tables

(* The template is copied on Drive.  The replacement of the text in the copy *)
(* is started and not awaited.                                               *)
CopyTemplate(r) ==
  LET doc == work[r].doc IN
  /\ work[r].at = "copy"
  /\ \/ /\ files' = files \cup {doc}
        /\ background' = background \cup {[kind |-> "replaceText", doc |-> doc]}
        /\ work' = [work EXCEPT ![r].at = "link", ![r].file = TRUE]
        /\ UNCHANGED <<documents, nextDocument>>
     \/ /\ "copy" \in Failures
        /\ At(r, "undoDocument")
        /\ Tables
  /\ Numbered

(* The driveId is saved; a document deleted meanwhile cannot be inserted     *)
(* with this alone.  The save of the variables is started and not awaited.   *)
LinkFile(r) ==
  LET doc == work[r].doc IN
  /\ work[r].at = "link"
  /\ \/ \E d \in documents :
          /\ d.id = doc
          /\ documents' = (documents \ {d}) \cup {[d EXCEPT !.linked = TRUE]}
          /\ background' =
               background \cup {[kind |-> "saveVariables", doc |-> doc]}
          /\ At(r, "created")
          /\ UNCHANGED <<nextDocument, files>>
     \/ /\ \A d \in documents : d.id # doc
        /\ At(r, "undoFile")
        /\ Tables
  /\ Numbered

(* DELETE of the numeration the request was given, refused while a document  *)
(* holds it.                                                                 *)
DeleteNumber(r, done, refused) ==
  \/ /\ ~ Held(work[r].row)
     /\ rows' = {x \in rows : x.id # work[r].row}
     /\ At(r, done)
     /\ UNCHANGED <<nextId, active, pc, req, view, reply>>
  \/ /\ Held(work[r].row)
     /\ At(r, refused)
     /\ Numbered

(* The document was not found: its number is removed before the error is     *)
(* thrown, and once more by its handler.                                     *)
DropNumber(r) ==
  /\ work[r].at = "dropNumber"
  /\ DeleteNumber(r, "undoDocument", "undoDocument")
  /\ Tables

(* The file, if its deletion is refused the rest is not undone.              *)
DeleteFile(r, done) ==
  LET doc == work[r].doc IN
  \/ /\ doc \in files
     /\ files' = files \ {doc}
     /\ At(r, done)
     /\ UNCHANGED <<documents, nextDocument, background>>
  \/ /\ doc \notin files \/ "unlink" \in Failures
     /\ At(r, "failed")
     /\ Tables

(* Mutant of UndoFile: a refused deletion is tried for ever.                 *)
UndoFileForEver(r) ==
  /\ work[r].at = "undoFile"
  /\ work[r].doc \in files /\ "unlink" \notin Failures
  /\ DeleteFile(r, "undoDocument")
  /\ Numbered

UndoFile(r) ==
  /\ work[r].at = "undoFile"
  /\ DeleteFile(r, "undoDocument")
  /\ Numbered

(* Mutant of UndoDocument: the document stays.                               *)
UndoDocumentNot(r) ==
  /\ work[r].at = "undoDocument"
  /\ At(r, "undoNumber")
  /\ Tables /\ Numbered

UndoDocument(r) ==
  /\ work[r].at = "undoDocument"
  /\ documents' = {d \in documents : d.id # work[r].doc}
  /\ At(r, "undoNumber")
  /\ UNCHANGED <<nextDocument, files, background>>
  /\ Numbered

(* Mutant of UndoNumber: the number stays in use.                            *)
UndoNumberNot(r) ==
  /\ work[r].at = "undoNumber"
  /\ At(r, "failed")
  /\ Tables /\ Numbered

UndoNumber(r) ==
  /\ work[r].at = "undoNumber"
  /\ DeleteNumber(r, "failed", "failed")
  /\ Tables

-------------------------------------------------------------------------------
(***************************************************************************)
(* remove.                                                                 *)
(***************************************************************************)

(* The document and its numeration are read.                                 *)
RemoveDocument(r, d) ==
  /\ \E x \in rows : x.id = d.row /\ BeginDocumentRemoved(r, x)
  /\ work' = [work EXCEPT ![r] = [at |-> "dequeue", row |-> d.row,
                                  doc |-> d.id, file |-> d.linked]]
  /\ Tables

(* documentRemoved.                                                          *)
DequeueNumber(r) ==
  /\ work[r].at = "dequeue"
  /\ Enqueue(r)
  /\ \/ reply'[r] # "ok" /\ At(r, "failed")
     \/ reply'[r] = "ok" /\ At(r, IF work[r].file THEN "unlink" ELSE "delete")
  /\ Tables

UnlinkFile(r) ==
  /\ work[r].at = "unlink"
  /\ DeleteFile(r, "delete")
  /\ Numbered

(* Mutant of DeleteDocument: the numeration's identifier is taken for the    *)
(* document's.                                                               *)
DeleteDocumentOfNumber(r) ==
  /\ work[r].at = "delete"
  /\ documents' = {d \in documents : d.id # work[r].row}
  /\ At(r, "removed")
  /\ UNCHANGED <<nextDocument, files, background>>
  /\ Numbered

DeleteDocument(r) ==
  /\ work[r].at = "delete"
  /\ documents' = {d \in documents : d.id # work[r].doc}
  /\ At(r, "removed")
  /\ UNCHANGED <<nextDocument, files, background>>
  /\ Numbered

-------------------------------------------------------------------------------
(***************************************************************************)
(* Answers, promises that nobody awaits, and the end of the process.       *)
(***************************************************************************)

(* The answer leaves; an error of the numbering is the answer as it is.      *)
Respond(r) ==
  /\ \/ work[r].at \in Answers
     \/ work[r].at = "numbering" /\ pc[r] = "done" /\ reply[r] # "ok"
  /\ Return(r)
  /\ work' = [work EXCEPT ![r] = Idle]
  /\ Tables

(* The numbering is asked for a range, or for more of it ...                 *)
ReserveNumbers(r) ==
  /\ work[r].at = "idle" /\ nextId <= MaxId
  /\ \E c \in Councils, g \in Ranges : BeginReserve(r, c, g)
  /\ UNCHANGED documentVars

(* ... and serves it.                                                        *)
ServeReserve(r) ==
  /\ work[r].at = "idle" /\ req[r].op = "reserve" /\ Serve(r)
  /\ UNCHANGED documentVars

(* The text of the copy is replaced, the variables are saved.                *)
Settle(t) ==
  /\ IF t.kind = "replaceText" THEN t.doc \in files
                               ELSE \E d \in documents : d.id = t.doc
  /\ background' = background \ {t}
  /\ UNCHANGED <<documents, nextDocument, files, work>>
  /\ Numbered

(* The end of the process and its start: what was in flight is gone.         *)
Crash ==
  /\ Restart
  /\ work' = [r \in Requests |-> Idle]
  /\ background' = {}
  /\ documents' = {[d EXCEPT !.left = @ \/ \E r \in Requests : work[r].doc = d.id] :
                     d \in documents}
  /\ UNCHANGED <<nextDocument, files>>

(* A promise that nobody awaits is rejected: Node ends the process.          *)
Reject(t) ==
  /\ \/ "background" \in Failures
     \/ t.kind = "replaceText" /\ t.doc \notin files
     \/ t.kind = "saveVariables" /\ \A d \in documents : d.id # t.doc
  /\ Crash

-------------------------------------------------------------------------------
(***************************************************************************)
(* The specification.                                                      *)
(***************************************************************************)

(* Clients remove a document that they were given, once what is not awaited  *)
(* has settled, or with "early" one whose creation is not answered yet.      *)
Removable(d) ==
  \/ d.linked /\ \A t \in background : t.doc # d.id
  \/ ~ d.linked /\ "early" \in Failures

ServeDocument(r) ==
  \/ TakeNumber(r) \/ NumberGiven(r)
  \/ SaveDocument(r) \/ QueryDocument(r) \/ CopyTemplate(r) \/ LinkFile(r)
  \/ DropNumber(r) \/ UndoFile(r) \/ UndoDocument(r) \/ UndoNumber(r)
  \/ DequeueNumber(r) \/ UnlinkFile(r) \/ DeleteDocument(r)
  \/ Respond(r) \/ ServeReserve(r)

DocumentsNext ==
  \/ \E r \in Requests :
       \/ \E c \in Councils, n \in Number : CreateDocument(r, c, n)
       \/ \E d \in documents : Removable(d) /\ RemoveDocument(r, d)
       \/ ServeDocument(r)
       \/ ReserveNumbers(r)
  \/ \E t \in background : Settle(t) \/ Reject(t)
  \/ "restart" \in Failures /\ Crash

DocumentsSpec == DocumentsInit /\ [][DocumentsNext]_allVars

(* Node runs what has settled, Drive and the database answer.                *)
FairDocumentsSpec ==
  /\ DocumentsSpec
  /\ \A r \in Requests : WF_allVars(ServeDocument(r))
  /\ WF_allVars(\E t \in background : Settle(t) \/ Reject(t))

-------------------------------------------------------------------------------
(***************************************************************************)
(* Properties.                                                             *)
(***************************************************************************)

(* Nothing is in flight.                                                     *)
AtRest == background = {} /\ \A r \in Requests : work[r] = Idle /\ pc[r] = "idle"

(* A number that the service answers is in use ("El número ya está en uso")  *)
(* is the number of a document, once nothing is in flight: whatever step of  *)
(* a creation fails, the number is given back.                               *)
UsedHasDocument == AtRest => \A x \in rows : x.state = "USED" => Held(x.id)

(* Once nothing is in flight every document has its file, and there is no    *)
(* other file.                                                               *)
FilesAreDocuments ==
  AtRest => /\ \A d \in documents : d.linked
            /\ files = {d.id : d \in documents}

(* The number suggested to a council is not that of a document: a creation   *)
(* that asked for it would take the number and fail on the document.         *)
SuggestedIsFree ==
  AtRest => \A c \in Councils, n \in Number :
    Suggests(c, n) => \A d \in documents, x \in InBook(ModuleOf[c]) :
                         d.row = x.id => x.number # n

(* Whatever requests interleave and whatever Drive refuses, a document       *)
(* without a file is one that a handler is still working on, and one with a  *)
(* file keeps it until its removal is at its last step; the end of the       *)
(* process spoils only those that were being worked on.                      *)
DocumentsFinished ==
  \A d \in {x \in documents : ~x.left} :
    IF d.linked
    THEN d.id \in files
         \/ \E r \in Requests : work[r].doc = d.id /\ work[r].at = "delete"
    ELSE \E r \in Requests :
           work[r].doc = d.id /\ work[r].at \in {"query", "copy", "link",
                                                 "undoFile", "undoDocument"}

(* Every request about a document is answered, also when Drive refuses.      *)
DocumentsAnswered == \A r \in Requests : pc[r] # "idle" ~> pc[r] = "idle"

(* The tables and Drive agree at rest, whatever step of a creation failed.   *)
DocumentsInv == DocumentsTypeOK /\ UsedHasDocument /\ FilesAreDocuments
===============================================================================

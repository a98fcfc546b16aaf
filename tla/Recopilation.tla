----------------------------- MODULE Recopilation -----------------------------
(***************************************************************************)
(* The recopilation of a council's documents in one file                   *)
(* (document-recopilation.service.ts, with the directories of the server   *)
(* that files.service.ts, file-system.service.ts and docx.service.ts write *)
(* in).                                                                    *)
(*                                                                         *)
(* Every document is downloaded into a directory of the council, cut in a  *)
(* directory that all councils share, and given a separator; then what the *)
(* council's directory holds is merged.  The documents are prepared in     *)
(* parallel, and those that are under way when one fails go on.            *)
(***************************************************************************)
EXTENDS Naturals, Sequences, FiniteSets

CONSTANTS
  Councils,  \* councils of one submodule and year, as numbers: their dates
  Docs,      \* documents, as their numbers
  CouncilOf, \* the council of each
  Changing,  \* the documents that may be made and removed meanwhile
  Failures,  \* what may fail in this instance
  Patient    \* whether a recopilation begins only when none is under way

(* Names of files have four digits: up to this number their alphabetical      *)
(* order, in which a directory is read, is that of the numbers.               *)
LastNumber == 9999

(* drive: Drive refuses to export or to copy a document; restart: the process *)
(* is stopped and started again.                                              *)
ASSUME RecopilationAssumption ==
  /\ Councils \subseteq Nat /\ Docs \subseteq 1 .. LastNumber /\ Changing \subseteq Docs
  /\ CouncilOf \in [Docs -> Councils]
  /\ Failures \subseteq {"drive", "restart"}
  /\ Patient \in BOOLEAN

VARIABLES
  documents, \* the documents there are
  temp,      \* the files in the temp directory of each council
  extracted, \* the documents that lie unzipped in storage/temp/zdocs
  tasks,     \* the preparations of documents that are under way
  handler,   \* the handler of each council's recopilation
  merging,   \* what the zip of each merge has, in memory
  draft,     \* the file of storage/temp/dm-, which all merges write
  merged,    \* the merged file of each council
  processed  \* the councils marked hasProcessedDocuments

mergeVars == <<merging, draft, merged, processed>>

recopilationVars == <<documents, temp, extracted, tasks, handler, merging,
                      draft, merged, processed>>

-------------------------------------------------------------------------------
(* raw: as it was downloaded or copied; ready: cut, or its text replaced;     *)
(* broken: zipped again without what the clean-up took away.                  *)
File == [doc : Docs, kind : {"document", "separator"},
         state : {"raw", "ready", "broken"}]

Task == [doc : Docs,
         at : {"download", "extract", "read", "zip", "copy", "replace"}]

Handler == [at : {"idle", "separator", "prepare", "append", "write", "rename",
                  "flag", "clean", "cleanAll"},
            docs : SUBSET Docs]

Part == [separator : Docs, document : Docs, ready : BOOLEAN]

(* A merged file, by the documents in it; it has none while it is but a copy  *)
(* of the first separator, or is not there.                                   *)
Merged == Seq(Part)

Idle == [at |-> "idle", docs |-> {}]

RecopilationTypeOK ==
  /\ documents \subseteq Docs
  /\ temp \in [Councils -> SUBSET File]
  /\ extracted \subseteq Docs
  /\ tasks \subseteq Task
  /\ handler \in [Councils -> Handler]
  /\ merging \in [Councils -> Merged] /\ draft \in Merged
  /\ merged \in [Councils -> Merged]
  /\ processed \subseteq Councils

RecopilationInit ==
  /\ documents = Docs \ Changing
  /\ temp = [c \in Councils |-> {}]
  /\ extracted = {}
  /\ tasks = {}
  /\ handler = [c \in Councils |-> Idle]
  /\ merging = [c \in Councils |-> <<>>]
  /\ draft = <<>>
  /\ merged = [c \in Councils |-> <<>>]
  /\ processed = {}

Goes(c, to) == handler' = [handler EXCEPT ![c].at = to]

DocumentsOf(c) == {d \in documents : CouncilOf[d] = c}

TasksOf(c) == {t \in tasks : CouncilOf[t.doc] = c}

(* The file of that name in the council's directory is written.              *)
Written(c, file) ==
  temp' = [temp EXCEPT ![c] =
    {f \in @ : f.doc # file.doc \/ f.kind # file.kind} \cup {file}]

Busy(c) == handler[c] # Idle \/ TasksOf(c) # {}

-------------------------------------------------------------------------------
(***************************************************************************)
(* generateRecopilationDocuments.                                          *)
(***************************************************************************)

(* The council and its documents are read, the directories made.  The        *)
(* council is open: one that was closed is refused.                          *)
Begin(c) ==
  /\ ~ Busy(c)
  /\ Patient => \A other \in Councils : ~ Busy(other)
  /\ DocumentsOf(c) # {}
  /\ handler' = [handler EXCEPT ![c] = [at |-> "separator",
                                        docs |-> DocumentsOf(c)]]
  /\ UNCHANGED <<documents, temp, extracted, tasks, mergeVars>>

(* The separator of the module is downloaded; every document is prepared.    *)
Prepare(c) ==
  /\ handler[c].at = "separator"
  /\ \/ /\ Goes(c, "prepare")
        /\ tasks' = tasks \cup
             {[doc |-> d, at |-> "download"] : d \in handler[c].docs}
     \/ /\ "drive" \in Failures
        /\ handler' = [handler EXCEPT ![c] = Idle]
        /\ UNCHANGED tasks
  /\ UNCHANGED <<documents, temp, extracted, mergeVars>>

(* The preparation t goes on.                                                *)
Continue(t, to) == tasks' = (tasks \ {t}) \cup {[t EXCEPT !.at = to]}

(* Mutant of Fail: the handler prepares the documents again.                 *)
FailRetried(t) ==
  /\ tasks' = tasks \ {t}
  /\ Goes(CouncilOf[t.doc], "separator")

(* It has failed, and the handler answers.                                   *)
Fail(t) ==
  /\ tasks' = tasks \ {t}
  /\ handler' = [handler EXCEPT ![CouncilOf[t.doc]] = Idle]

(* The document is exported and saved in the council's directory.            *)
Download(t) ==
  LET c == CouncilOf[t.doc] IN
  /\ t.at = "download"
  /\ \/ /\ Written(c, [doc |-> t.doc, kind |-> "document", state |-> "raw"])
        /\ Continue(t, "extract")
        /\ UNCHANGED handler
     \/ /\ "drive" \in Failures
        /\ Fail(t)
        /\ UNCHANGED temp
  /\ UNCHANGED <<documents, extracted, mergeVars>>

(* filterDocx: it is unzipped in a directory of its own ...                  *)
Extract(t) ==
  /\ t.at = "extract"
  /\ extracted' = extracted \cup {t.doc}
  /\ Continue(t, "read")
  /\ UNCHANGED <<documents, temp, handler, mergeVars>>

(* ... its text is read and cut ...                                          *)
ReadText(t) ==
  /\ t.at = "read"
  /\ IF t.doc \in extracted
     THEN Continue(t, "zip") /\ UNCHANGED handler
     ELSE Fail(t)
  /\ UNCHANGED <<documents, temp, extracted, mergeVars>>

(* Mutant of ZipText: the text that was cut is not zipped again.             *)
ZipTextNot(t) ==
  /\ t.at = "zip"
  /\ Continue(t, "copy")
  /\ UNCHANGED <<documents, temp, extracted, handler, mergeVars>>

(* ... and what is in the directory by then is zipped again; when it is gone *)
(* it is made again, for the text alone.                                     *)
ZipText(t) ==
  /\ t.at = "zip"
  /\ Written(CouncilOf[t.doc],
             [doc |-> t.doc, kind |-> "document",
              state |-> IF t.doc \in extracted THEN "ready" ELSE "broken"])
  /\ Continue(t, "copy")
  /\ UNCHANGED <<documents, extracted, handler, mergeVars>>

(* The separator is copied under the document's number; nobody awaits that   *)
(* the copy is complete.                                                     *)
CopySeparator(t) ==
  /\ t.at = "copy"
  /\ Written(CouncilOf[t.doc],
             [doc |-> t.doc, kind |-> "separator", state |-> "raw"])
  /\ Continue(t, "replace")
  /\ UNCHANGED <<documents, extracted, handler, mergeVars>>

(* The number and the year are written in the copy, unless it was read       *)
(* before it was complete: then it is no zip file.                           *)
ReplaceText(t) ==
  /\ t.at = "replace"
  /\ \/ /\ Written(CouncilOf[t.doc],
                   [doc |-> t.doc, kind |-> "separator", state |-> "ready"])
        /\ tasks' = tasks \ {t}
        /\ UNCHANGED handler
     \/ /\ Fail(t)
        /\ UNCHANGED temp
  /\ UNCHANGED <<documents, extracted, mergeVars>>

-------------------------------------------------------------------------------
(***************************************************************************)
(* mergeDocuments.                                                         *)
(***************************************************************************)

(* The numbers in the names of one kind, in the order of the directory.  The *)
(* code sorts them by the text before the number, which is no number and     *)
(* leaves them as they are.                                                  *)
Sorted(numbers) ==
  CHOOSE s \in [1 .. Cardinality(numbers) -> numbers] :
    \A i, j \in DOMAIN s : i < j => s[i] < s[j]

Names(c, kind) == Sorted({f.doc : f \in {x \in temp[c] : x.kind = kind}})

StateOf(c, doc, kind) ==
  (CHOOSE f \in temp[c] : f.doc = doc /\ f.kind = kind).state

(* Separator and document stand at the same position.                        *)
Parts(c) ==
  LET separators == Names(c, "separator")
      texts == Names(c, "document")
  IN  [i \in DOMAIN separators |->
        [separator |-> separators[i], document |-> texts[i],
         ready |-> /\ StateOf(c, separators[i], "separator") = "ready"
                   /\ StateOf(c, texts[i], "document") = "ready"]]

(* Every document was prepared.  The first separator is copied over the       *)
(* merged file, and a zip is opened with it.                                 *)
BeginMerge(c) ==
  /\ handler[c].at = "prepare" /\ TasksOf(c) = {}
  /\ merging' = [merging EXCEPT ![c] = <<>>]
  /\ merged' = [merged EXCEPT ![c] = <<>>]
  /\ Goes(c, "append")
  /\ UNCHANGED <<documents, temp, extracted, tasks, draft, processed>>

(* addFile: the next separator and the next document are read and added to   *)
(* the zip, which is in memory; nothing else changes a directory whose       *)
(* council has no preparation left.                                          *)
AddPart(c) ==
  LET next == Len(merging[c]) + 1 IN
  /\ handler[c].at = "append" /\ next <= Len(Parts(c))
  /\ merging' = [merging EXCEPT ![c] = Append(@, Parts(c)[next])]
  /\ Goes(c, IF next = Len(Parts(c)) THEN "write" ELSE "append")
  /\ UNCHANGED <<documents, temp, extracted, tasks, draft, merged, processed>>

(* flush: the zip is written in the directory of all merges ...              *)
WriteDraft(c) ==
  /\ handler[c].at = "write"
  /\ draft' = merging[c]
  /\ Goes(c, "rename")
  /\ UNCHANGED <<documents, temp, extracted, tasks, merging, merged, processed>>

(* ... and what is there by then becomes the merged file; or nothing is      *)
(* there, when another merge took it, and the request fails.                 *)
Rename(c) ==
  /\ handler[c].at = "rename"
  /\ IF draft # <<>>
     THEN /\ merged' = [merged EXCEPT ![c] = draft]
          /\ draft' = <<>>
          /\ Goes(c, "flag")
     ELSE /\ handler' = [handler EXCEPT ![c] = Idle]
          /\ UNCHANGED <<draft, merged>>
  /\ merging' = [merging EXCEPT ![c] = <<>>]
  /\ UNCHANGED <<documents, temp, extracted, tasks, processed>>

(* hasProcessedDocuments is set and saved.                                   *)
MarkProcessed(c) ==
  /\ handler[c].at = "flag"
  /\ processed' = processed \cup {c}
  /\ Goes(c, "clean")
  /\ UNCHANGED <<documents, temp, extracted, tasks, merging, draft, merged>>

(* The council's directory is emptied ...                                    *)
CleanTemp(c) ==
  /\ handler[c].at = "clean"
  /\ temp' = [temp EXCEPT ![c] = {}]
  /\ Goes(c, "cleanAll")
  /\ UNCHANGED <<documents, extracted, tasks, mergeVars>>

(* ... and so is the one that all councils share.                            *)
CleanAll(c) ==
  /\ handler[c].at = "cleanAll"
  /\ extracted' = {}
  /\ handler' = [handler EXCEPT ![c] = Idle]
  /\ UNCHANGED <<documents, temp, tasks, mergeVars>>

-------------------------------------------------------------------------------
(***************************************************************************)
(* What else happens to documents, and the end of the process.             *)
(***************************************************************************)

(* A document is created; or removed, in a Patient instance when an attempt  *)
(* that failed has not left its files behind.                                *)
ChangeDocument(d) ==
  LET c == CouncilOf[d] IN
  /\ \/ d \notin documents /\ documents' = documents \cup {d}
     \/ /\ d \in documents /\ documents' = documents \ {d}
        /\ Patient => temp[c] = {} /\ ~ Busy(c)
  /\ UNCHANGED <<temp, extracted, tasks, handler, mergeVars>>

Stop ==
  /\ "restart" \in Failures
  /\ tasks' = {}
  /\ handler' = [c \in Councils |-> Idle]
  /\ merging' = [c \in Councils |-> <<>>]
  /\ UNCHANGED <<documents, temp, extracted, draft, merged, processed>>

-------------------------------------------------------------------------------
(***************************************************************************)
(* The specification.                                                      *)
(***************************************************************************)
Handle(c) ==
  \/ Prepare(c) \/ BeginMerge(c) \/ AddPart(c) \/ WriteDraft(c) \/ Rename(c)
  \/ MarkProcessed(c) \/ CleanTemp(c) \/ CleanAll(c)

Run(t) ==
  \/ Download(t) \/ Extract(t) \/ ReadText(t) \/ ZipText(t)
  \/ CopySeparator(t) \/ ReplaceText(t)

RecopilationNext ==
  \/ \E c \in Councils :
       Begin(c) \/ Handle(c)
  \/ \E t \in tasks : Run(t)
  \/ \E d \in Changing : ChangeDocument(d)
  \/ Stop

RecopilationSpec == RecopilationInit /\ [][RecopilationNext]_recopilationVars

(* Drive answers, the file system too.                                       *)
FairRecopilationSpec ==
  /\ RecopilationSpec
  /\ \A c \in Councils : WF_recopilationVars(Handle(c))
  /\ WF_recopilationVars(\E t \in tasks : Run(t))

-------------------------------------------------------------------------------
(***************************************************************************)
(* Properties.                                                             *)
(***************************************************************************)

(* Documents that were cut, each after its own separator, in the order of     *)
(* their numbers ("documents end with {number}.dock, so we sorted by          *)
(* number").                                                                  *)
InOrder(parts) ==
  \A i \in DOMAIN parts :
    /\ parts[i].ready /\ parts[i].separator = parts[i].document
    /\ i > 1 => parts[i - 1].document < parts[i].document

(* As many as the answer says, and of those that were asked for.              *)
AllOf(parts, docs) ==
  /\ Len(parts) = Cardinality(docs)
  /\ \A i \in DOMAIN parts : parts[i].document \in docs

(* The documents of a merged file are in order, and when the recopilation is  *)
(* marked and answered they are all there, whatever attempts that failed or   *)
(* were stopped, some of them between the copy of the first separator and the *)
(* last rename, left in the directories and in the file.                      *)
MergedInOrder ==
  \A c \in Councils :
    /\ InOrder(merged[c])
    /\ handler[c].at \in {"flag", "clean", "cleanAll"} =>
         AllOf(merged[c], handler[c].docs)

(* A recopilation that was asked for is answered.                            *)
RecopilationAnswered ==
  \A c \in Councils : handler[c] # Idle ~> handler[c] = Idle

(* Directories and merged files are of their types, and what was merged is   *)
(* in order, and all there when the request is answered.                     *)
RecopilationInv == RecopilationTypeOK /\ MergedInOrder
===============================================================================

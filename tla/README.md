# GenDocs v3 backend: a verification development

GenDocs (a NestJS service over PostgreSQL, a Bull queue on Redis and Google
Drive) produces the numbered documents of the councils of a university faculty
and the certificates of its degree ceremonies. This directory models its
stateful core in TLA+, checks the models with TLC and proves the properties that
matter most with TLAPS.

One fact shapes all the models. The server is one Node process: code runs
without interruption up to the next `await`, and between two awaits of one
request any other request, queue job or un-awaited continuation may run. The
services use almost no database transactions, no locks and very few unique
constraints. So an *action* of a model is the code between two awaits, what a
handler has read is kept in a variable of its own, and may be stale when it is
used.

## 1. Inventory

All paths are below `src/src/`.

| Part | State | Operations | What is hard | What makes it correct |
|---|---|---|---|---|
| Council document numbering (`numeration-document/`) | rows *(number, state, council, year_module)* | `create`, `reserveNumeration`, `documentRemoved`, `remove`; suggestions, lists and offers | a handler is up to a dozen awaited queries, nothing forbids two rows with one number; ranges written row by row; neighbours looked up in any module | numbers unique and without gap in a book; a used number stays; what is suggested is accepted |
| Documents (`documents/services/documents.service.ts`) | documents, their numeration (one-to-one), functionaries, a Drive file | `create` with compensation, `remove` | compensation of failures half way, steps not awaited, Drive may fail | a document has a number in use and a file, or there is none of the three |
| Regeneration queue (`documents/processors/`, `recreateDocumentsByCouncil`) | Bull jobs, a root notification and one child per document | enqueue, process, retry, count | retries, a worker that restarts, a save of a stale entity | the root is eventually final and its status is that of its children |
| Recopilation (`documents/services/document-recopilation.service.ts`) | files of a council in a temporary directory, `hasProcessedDocuments` | prepare, merge, download | two recopilations share one directory; a failure or a stop half way leaves files behind | what is downloaded are all the documents, in order |
| Councils, attendance (`councils/`, `council-attendance/`) | council rows, members, default members | `create`, `update`, `updateBulk`, default members, `toggleHasAssisted` | members saved side by side, transactions without rollback, read-modify-write of a flag | what is answered is complete; a pool that still serves |
| Certificate numbering (`degree-certificates/services/certificate-numeration.service.ts`) | number and submodule year of each certificate | generate, next, free numbers | generation in two passes over stale entities, two generations at once | numbers unique, without gap and in order of presentation |
| Degree certificates (`degree-certificates/services/`, `repositories/`) | certificate rows, room, duration, date; soft deletion | create, update, remove | the overlap of room schedules; deletion while a job works on the row | no two certificates in a room at a time, also after removals and refused updates |
| Certificate bulk load (`certificate-bulk.service.ts`, `certificate-processor.ts`) | jobs, notification tree | enqueue, create, retry of failures | retry of a failed child, errors swallowed, limits of Drive | as the regeneration queue |
| Certificate attendance (`degree-certificate-attendance/`) | attendance rows of a certificate | create, update | a limit checked before a save; overlap of two certificates | members within the limit, no member in two places |
| System year (`year-module/`) | the system's year, year modules, submodule years | `updateSystemYear` | a chain of inserts without a transaction that cannot be repeated once it failed half way | a year is either prepared or not |
| Notifications (`notifications/`) | a tree of rows with a status | create, update status | status written from stale entities | a final status stays |
| Users and access (`users/`, `users-access-modules/`, `auth/`) | accounts, shares of Drive folders, access rows | create, update, delete; replace the modules of a user | delete then insert without transaction, shares and rows apart | rows and shares agree |
| Students (`students/`) | student rows | bulk create or update | check then insert in parallel | one row per identity |
| Processes, templates | rows with a Drive folder or file | CRUD | asset and row written apart | row and asset agree |
| Careers, degrees, cities, positions, functionaries, modules, submodules | single rows | CRUD | – | – |
| Variables | values of the variables of a document | formatting | strings | – |
| Drive, files, mail (`gcp/`, `files/`, `email/`) | external | calls | they fail | – |

How they interact: `documents.create` calls the numbering's `create`, then Drive;
its failure path calls the numbering's `remove`, and the removal of a document its
`documentRemoved`. Closing a council (`isActive`) changes what the numbering
grants. An update of a council's date starts the regeneration of its documents
without waiting for it. Regeneration and bulk load talk to their callers through
Bull and notifications only.

`PROJECT.json` lists the components with their status and, under `hazards`,
what in this code is hardest to test, at its line.

## 2. Plan

| Module | Of | Composes | State |
|---|---|---|---|
| `Numeration`, `NumerationBook`, `NumerationRefinement`, `NumerationInv` | the numbering, its abstract book, refinement, inductive invariants (proofs: `DocumentsProofs`, part 1) | | checked and proved |
| `Documents`, `DocumentsProofs` | creation and removal of documents | `Numeration` | checked and proved |
| `Certificates`, `CertificatesProofs` | numbers, documents and removal of degree certificates | | checked and proved |
| `Jobs`, `Regeneration`, `BulkLoad`, `LongTasks`, `LongTasksProofs` | the two queues and their notifications; regeneration of documents; load of certificates; both on one server | `LongTasks` extends the others | checked and proved |
| `Recopilation`, `RecopilationProofs` | the merge of a council's documents | | checked and proved |
| `Councils`, `CouncilsProofs` | councils with members and folders, default members | | checked and proved |
| `BulkUpdates`, `StudentLoad` | transactions and the pool of connections; the load of students beside them (proofs: `CertificatesProofs`, part 2) | `StudentLoad` extends `BulkUpdates` | checked and proved |
| `SystemYear`, `SystemYearProofs` | the change of year, careers, modules, year modules | | checked and proved |
| `Users`, `UsersProofs` | accounts, accesses, permissions on Drive, recovery | | checked and proved |
| `CertificateSchedule`, `CertificateScheduleProofs` | rooms, times and members of certificates | | checked and proved |

Each has an instance `MC_<module>` and one `.cfg` per run. What is left:
the act of a council (`generateRecopilationDocument`), `notifyMembers` and the
submodules, should they get state that other parts read. Every safety invariant and
every action property of a run is stated by a theorem; the seven liveness properties
stay with TLC.

Modules are written for proofs as well: parameters are constants with a named
assumption, one action per await, invariants are conjunctions of named parts, and
there is no RECURSIVE operator. A run checks the type invariant of its module
together with the plainest of its properties, under the name `...Inv`.

What the proofs say and what they do not. A theorem holds for all values of the
constants that meet the module's assumption and the hypotheses it names; each
hypothesis is one that the run which checks the same property meets too, but for one
of section 11 that is only needed beyond that run's inputs. Two things stay with
TLC: liveness (the prover has neither fairness nor ENABLED), that is
`DocumentsAnswered`, `TasksEnd` and the like; and what would need induction over
data beyond sets of numbers and lists. For these the proof modules begin with the
few facts they need (a set of numbers has a least one, a bounded one a greatest; the
range of a list that is split or concatenated), and `RecopilationProofs` shows by
the least counterexample that a finite set of numbers has a list in which they grow.
The inductive invariants are checked by TLC on the run's instance before they are
proved.

## 3. The numbering service

### Model

`Numeration` models `numeration-document.service.ts` in one year. A *book* is the
set of rows of one module's year_module. `rows` is the table, `nextId` its
sequence, `active` the councils' `isActive`. For each request in flight `pc` is
the await its handler is at, `req` the DTO, `view` what the handler has read, and
`reply` the answer.

| Code | Actions |
|---|---|
| `create` (815) | `BeginCreate`, `CheckNext`, `ReadBook`, `ReadOwn`, `ReadAvailable`, `SaveUsed`, `InsertReserved` (loop of `reserveNumerationRange`), `InsertUsed` |
| `reserveNumeration` (465) | `BeginReserve`, `ReserveReadBook`, `ReserveCheckLast`, `ReserveCheckNext`, `InsertReserved`; downwards `FindBelow`, `ReadBelow`, `MoveBelow`; upwards `FindAbove`, `ReadAbove`, `MoveAbove` |
| `documentRemoved` (1133) | `BeginDocumentRemoved`, `Enqueue` |
| `remove` (1282) | `Remove` |
| `getNextNumberToRegister`, `getNumerationByCouncil`, `getCouncilsCouldReserveNumeration`, `getAvailableExtensionNumeration` | operators `IsNext`, `Suggests`, `CouldReserve`, `OfferFails`, `OffersUpTo` |
| council update, restart of the process | `SetActive`, `Restart` |

Abstractions, each of which keeps every state change: consecutive queries whose
results only meet constant data (council, module, year) are one step; the error
messages are the members of `Status`; `ORDER BY number` with equal numbers chooses
any of them; what the transaction of `reasignNumerations` saves is one step.
Entities saved back are saved as they were read (`SaveRows`), and are inserted
again if they were deleted meanwhile, as TypeORM does.

### Properties and runs

| Run | Instance | Shows |
|---|---|---|
| `serial` | 1 request, 3 councils, numbers to 3, every range, councils closing, restarts | `TypeOK`; `UniqueNumbers`: no number twice; `UsedStays`: no extension takes a number in use; `AdviceHolds`: the number suggested is accepted, and who is listed as able to reserve is not refused as not the last; `OfferGranted`: the range offered for an extension is granted; `ImplementsBook` |
| `concurrent` | 2 requests, 3 councils in 2 modules, restarts | `NoGaps`, also where numbers are given twice; `BookOfCouncil`: no number changes its module |

Bounds. Three numbers are the least with a range that has an inner number, a
neighbour below and one above. Three councils are a requester, its neighbour and a
third; with two modules, two of them share a book and the third is the neighbour
by number that the code finds in another book. `MaxId` only stops new requests:
those in flight run to their end. Requests and the councils of one module are
interchangeable, hence the symmetry sets; the instance with two modules does not
permute councils. `OfferGranted` is about the moment a refusal is decided, while
all councils are open: a closed council may be offered, and cannot give.

That every request is answered is checked with the documents that call the
service (`DocumentsAnswered` in section 4, reservations included).

What holds only serially. `UniqueNumbers` and `UsedStays` are checked for one request
at a time, and both are proved for it. `NoGaps` needs that no row is deleted
(`KeepSpec`): `remove` is reached from the compensation of a failed document and
deletes a row anywhere in the book.

### Abstract specification

`NumerationBook` has no database: a book is a sequence that is appended to, whose
entries are put to use and set free, and of which a council may annex what its
neighbour holds in reserve. `NumerationRefinement` maps the rows to it
(`EntryOf`), and the run `serial` checks that a step of the service, with one
request at a time, is a step of the book or a stutter.

### Proofs (`DocumentsProofs`, part 1)

| Theorem | For every | Argument |
|---|---|---|
| `TypeCorrect` | instance | `TypeInv` = `TypeOK` and `AwaitInv` (each await belongs to one handler; a range is not exhausted) is inductive. `AwaitInv` is needed since `InsertReserved` may write `cur` only because it is not past `lim`. |
| `NumbersStayInTheirBook` | instance, with deletions | `BookInv`: besides the table, the rows a handler is about to move are of the book of the council they go to. |
| `BooksHaveNoGaps` | instance without deletions | `GapInv`: rows have identifiers of their own, a row read is still in the table with its number, and below what a handler is about to insert or has read the book is complete. |
| `NumbersAreUnique` | instance with one request at a time | `UniqueInv`: what the handler has read is still the end of the book. |
| `NumbersInUseStay` | instance with one request at a time, without deletions | `FirmInv`: what the one handler has read is still in the table, its range grows from the last number of its council, and what an extension is about to move are exactly the numbers asked for, all of them the donor's and RESERVED. So nothing that is moved is in use. |
| `AdviceIsAccepted` | the same | `AdviceInv`: a create of the number suggested is never in the branch for another number, and a council that is refused as not the last has a range and is not the last. |
| `BookIsImplemented` | the same | The initial book is empty, and every step that saves is one step of `NumerationBook`: an insertion appends, as `Fresh` has nothing above it; a save puts to use or sets free; a move annexes what is the neighbour's, in reserve, and adjacent. All others leave the book as it is. |
| `OffersAreGranted` | the same, all councils of one module | `OfferInv`: a number in reserve follows another of its council or is its first (`Attached`), so that what a neighbour has left above a council is whole; and each await holds what its request asked for (`AskedInv`). |

The only assumption is `NumerationAssumption`; from `NumbersAreUnique` on there is one
request (`OneAtATime`), and "without deletions" is `KeepSpec`. `OffersAreGranted` also
takes the councils to meet for one module (`OneModuleOnly`), as in the run `serial`: the
code looks up the neighbour of an offer among the rows of every book, so that with a
second module the offer may be of numbers another book has in reserve. TLC checks the
invariants of `NumerationInv` on the instances above before they are proved.

### Seen while modelling

The model has each of these; no run expects them.

* `create` reads the next number and inserts it in two awaits (878, 890), with
  neither a lock nor a unique constraint: two requests both insert it.
  `UniqueNumbers` fails as soon as `serial` gets `Requests = {r1, r2}`;
* an extension writes back, as RESERVED and for another council, rows it read
  (548–567) before a document put one to use: `UsedStays` fails with two requests
  and a range that extends downwards;
* what is offered above a council may be in reserve in the book of another module,
  and is then refused as in use when it is asked for: `OfferGranted` fails in `serial`
  with `ModuleOf <- TwoModules` (and without the symmetry of councils);
* the first reservation of a book ends in a TypeError (line 695) before the branch
  that is meant for it: `ReserveCheckLast` answers `crash`;
* "ya es parte de la numeración de otro consejo" (1079–1095) is also said of the
  council's own number in use and of numbers of nobody;
* the neighbour below is looked up in every module (529): with the wrong one the
  extension is refused though the numbers are free;
* the range offered (226) may be that of a closed council, which cannot give it.

## 4. Documents

### Model

`Documents` extends `Numeration`: a document handler goes through the numbering's
own actions, one await at a time, and then through the rest of
`documents.service.ts`. `documents` is the table (a document, the row of the
numbering it holds, whether it is linked to a file), `files` are the files on
Drive, `work` is what the handler of each request has done, and `background`
holds the promises the code starts and does not await.

| Code | Actions |
|---|---|
| `create` (57) | `CreateDocument`, `TakeNumber` and `NumberGiven` (the numbering), `SaveDocument`, `QueryDocument`, `CopyTemplate`, `LinkFile` |
| its `catch` (328) | `DropNumber`, `UndoFile`, `UndoDocument`, `UndoNumber` |
| `remove` (730) | `RemoveDocument`, `DequeueNumber` (the numbering's `documentRemoved`), `UnlinkFile`, `DeleteDocument` |
| `replaceTextOnDocument` (295), save of the variables (316), not awaited | `Settle`, `Reject` |
| `reserveNumeration` of the numbering, beside them | `ReserveNumbers`, `ServeReserve` |
| end of the process | `Crash`; `Reject` crashes it, as Node does on a rejection nobody handles; the container is started again |

`Failures` names what may fail in an instance: a reference of the DTO
(`document`), Drive copying, deleting or filling a file (`copy`, `unlink`,
`background`), the process (`restart`); `early` lets clients remove a document
whose creation is not answered yet. `left` of a document is bookkeeping: the
process ended while a handler was at work on it. The one-to-one relation of a document and
its numeration is a unique foreign key, as TypeORM makes it; the migrations of the
repository do not contain the schema, so this is read off the entity.

### Properties and runs

| Run | Instance | Shows |
|---|---|---|
| `documents` | 1 request, 2 councils, numbers to 3, a range, creation may fail anywhere | `DocumentsInv`: once nothing is in flight a number in use is that of a document (`UsedHasDocument`), documents and files agree (`FilesAreDocuments`); `SuggestedIsFree`: no document's number is suggested |
| `documentRaces` | 2 requests, reservations, early removals, Drive refuses, rejected promises, restarts | `DocumentsFinished`: a document without a file is being made, one with a file keeps it until its removal ends, and the end of the process spoils only those being worked on; `DocumentsAnswered`: every request is answered |

Bounds. Two requests and two rows give a creation that meets a removal, or an
extension, at each of its awaits, and a number that is used, freed and used again;
one number is enough for that, since what is asked is about documents and files.
The serial instance has the range 2–3, so that a number is also taken from a
council's reserve. Otherwise a client removes a document only once it is linked
and settled.

Fairness. `WF(ServeDocument(r))`, and the same for the promises that nobody
awaits: Node runs the continuation of a promise that has settled, the database and
Drive answer, if with a refusal. Clients, operators and restarts are not fair.

### Proofs (`DocumentsProofs`, part 2)

A handler of a document takes the numbering's own steps, so that the lemmas of
part 1 are used step by step. New are the deletion of a row while a
creation is undone, and a removal that reads the row of any document.

| Theorem | For every | Argument |
|---|---|---|
| `DocumentsTyped` | instance | `TypedInv`: the types, with `FollowsInv`, which says at which await the numbering is when a document handler is at a given step. Without it a document handler might take a number that its numbering has not given. |
| `DocumentsKeepTheirFiles` | instance: any requests, early removals, rejected promises, restarts | `MakingInv`: a document that has no file and was not left behind is some handler's own, between its save and its link; no two handlers make one document, and none that is going to delete a file has one that is being made. It gives `DocumentsFinished`. |
| `CreationsAreUndone` | instance with one request at a time, where `Failures` is at most {`document`, `copy`} | `OneInv`, below; it gives `DocumentsInv`. |
| `SuggestionsAreFree` | the same | From `OneInv` at rest, and what `Suggests` reads. |
| `DocumentNumbersAreUnique` | the same | `UniqueInv` of the numbering is part of `OneInv`. |

`OneInv` is `TypedInv`, `MakingInv` and four parts: `TableInv`, what the numbering's
proofs say of the rows; `RestInv`, that a request begins with nothing read;
`DequeueInv`, that the row a removal hands to the numbering is still that of its
document; and `AloneInv`, where the one handler is, and what is out of step there: the
number it was given is in use before its document is saved, a document is there before
its file, a file before it is linked, and, on the way back, each is taken away in
turn. Agreement at rest is not inductive without it.

The hypotheses are those of the run `documents`: one request (`OneAtATime`), and
neither refused deletions, restarts nor early removals. That each of these breaks
agreement is told below. Along the way two steps turn out never to be taken by a
handler that is alone: `DropNumber` and `UndoFile`, both for a document that vanishes
under its own creation. `DocumentsAnswered` is liveness and stays with TLC.

### Seen while modelling

`remove` queues the number (752) before it deletes the document (764); a creation
in between takes it, fails on the unique key and cannot give it back: the number
stays in use without a document. `DocumentsInv` fails with two requests.

Drive may refuse to delete the file of a document (761) after its
number was queued; the document stays and its number is suggested to others. The
instance of `documents` has no refusal of deletions for that reason.

What a process that ends leaves half done (a number in use without document, a
document without file, a file without document) is undone by nothing in the
code; the properties about agreement are therefore stated without restarts.

## 5. Degree certificates

### Model

`Certificates` models the certificates of one career in one year: the table
`certificates`, of which a removed row stays as *deleted* and keeps its number,
the `attendances` of the members of the tribunals, and the requests in flight.

| Code | Actions |
|---|---|
| `create` (`degree-certificates.service.ts`) | `BeginCreate`, `Insert`, `ReadBack`, `SaveSheet` |
| `update` (`update-certificate.service.ts`) | `BeginUpdate`, `VerifyNumber`, `CheckSchedule`, `SaveUpdate`, `SaveNewSheet`, `Regenerate`, then `generateDocument`, `Unlink`; its `catch` is `SaveBack` |
| `generateDocument` (`certificate-document.service.ts`) | `BeginDocument`, `CheckPending`, `CheckDocument`, `SaveDocument` |
| `remove` | `BeginRemove`, `SaveRemoved`, `DropAttendances` |
| `generateNumeration` (`certificate-numeration.service.ts`) | `BeginGenerate`, `ListPending`, `ReadLast`, `VerifyDates`, `SaveNumber` (once per certificate) |
| `getCertificatesToGenerate`, `getNumerationEnqueued`, `getLastNumberGenerated` | `ToGenerate`, `Enqueued`, `LastNumber` |
| attendance service | `Attend`, `Leave` |

The handlers save whole entities. `Save` writes every column as it was read, and
`SaveMembers` also the attendances read with the certificate: TypeORM takes an
attendance that was added since for one that was removed from the relation, and
clears its reference. What is read is therefore in `view` until it is saved.

`Newest` is what `findOneFor` returns when a caller asks for *the* certificate of
some order: it orders by the creation of the attendances before it does so by what
the caller gave.

Abstractions. A date is a number of days; a month has `DaysInMonth`. The code
compares months and days of months, and the order of dates otherwise. A refusal
(student, room, type, grades, Drive) is a choice at the step it occurs in.
`auxNumber` is left out: only its own computation reads it. So are `isClosed`, the
schedule of the rooms and the writes of the bulk load, which have modules of their
own (sections 12 and 6). A client gives a certificate a number only from the list of
enqueued ones, to a certificate that has none, and with a date: the code does not
ask for it, `Considered` does, where requests begin.

### Properties and runs

| Run | Instance | Shows |
|---|---|---|
| `certificates` | 1 request, 3 certificates, 2 days, an attendance that comes and goes at any time, every refusal | `NumbersComplete`: the numbers given have no gap, those of removed certificates counted; `NumberStays`: no request takes a number or a removal back; `CertificatesInv`: a certificate with a document has a number and a date |

Bounds. Three certificates are one that is removed, one that is given its number
and one that is numbered after it. The last number before the system is 1, so that
a career with none of its own starts at 2. Two days, both in one month, have dates
that are equal, earlier and later; a second month would only let `VerifyDates`
pass more often, which it does already where the dates agree.

These properties are those of requests served one after another: with two at once
each of them fails, since a save of one restores what the other had changed.
`remove` beside `generateNumeration` loses the number given, and a generation or a
document beside `remove` brings the certificate back. No comment or document of
the code claims otherwise.

### Proofs (`CertificatesProofs`, part 1)

`DocumentsShowNumbers`, `NumbersHaveNoGap` and `NumbersStay` state the three
properties for any dates, students, members, certificates and refusals, where one
request is served at a time (`OneRequest`, as in the run). They rest on one inductive
invariant, `SerialInv`: rows have identifiers of their own, there is a highest number,
and what a handler has read is still true (`Fits`). The last is what the stale
entities need: a row that is saved back is either the one in the table or, in an
update, the one the update has changed itself, and a number that an update gives is
that of a removed certificate, so that no gap is left when its `catch` takes it back.
A generation numbers certificates that have none, one save after another, from a
number that some certificate has; since the numbers up to that one are all taken,
there is no gap wherever it stops. This holds although `LastNumber` may not be the
last: the theorem says nothing of numbers given twice (see below).

### Seen while modelling

The last number is looked up through `findOneFor`, which orders by the creation of
the attendances first (`degree-certificate-repository.ts` 72); with attendances a
generation after a first one starts from a number that is not the last, and gives
numbers that others have.

The branch of `create` that removes a certificate without a sheet
(145) is not reached, as `generateGradeSheet` throws instead; the day of the month
alone is compared for an enqueued number (223).

## 6. Long tasks: regeneration of documents, load of certificates

### Model

`Jobs` is what the two share: a main notification, a queue with one processor, a
job and a child notification per item, and a handler, awaited by nobody, that waits
for its jobs and gives the main notification its last status. `Regeneration` has
the documents of a council and their files; what the variables of a document say of
the council is a *version*, raised by every save of the council or of a member. A
change of the date, or of the type in an `update` without members, calls a
regeneration; one of the type beside members (439–446) and `updateBulk` (481) do not.
`BulkLoad` has the certificates made of the rows of a sheet. `LongTasks` is both on
one server, with removals of documents and with stops of the process: what a
handler waits for is gone then, the jobs stay in Redis, and the one that was active
is *stalled*: Bull moves it back to the head of its queue once its lock has expired
and it looks for such jobs, so that any number of newer ones may run before it.

| Code | Actions |
|---|---|
| `update`, `updateBulk`, `regenerateCouncilDocuments` (`councils.service.ts`) | `UpdateCouncil`, `UpdateQuietly`, `StartRegeneration` |
| `recreateDocumentsByCouncil` | `ReadDocuments`, `NoDocuments`, `Enqueue`, `Finish` |
| `recreateDocument`, run by `DocumentProcessor` | `Take`, `CreateChild`, `CopyTemplate`, `FillCopy`, `SaveCopy`, `CompleteChild`, `FailChild`, `OverwriteChild` |
| `remove` of a document | `BeginRemoval`, `DeleteFile`, `DeleteRow` |
| `createBulkCertificates` | `StartLoad`, `RetryLoad`, `ReadRetried`, `Enqueue`, `Finish`, `MarkRetried` |
| `createDegreeCertificate`, run by `CertificateProcessor` | `CreateLoadChild`, `SkipRow`, `RemovePrevious`, `ValidateRow`, `SaveCertificate`, `CopySheet`, `FillCells`, `ClearMembers`, `AddMember`, `FinishRow`, `FailRow`, `DiscardCertificate` |
| end of the process, and what Bull does with the job it had | `Restart`, `Recover` |

### Run `longTasks`

A document, which may be removed, and two changes of the council, with or without a
regeneration, at any time; or a sheet
with a student twice, and its retry; every refusal of Drive and of the checks of a
row, one stop. `FileShowsVariables`: the variables in a document's row are what its
file shows. `CouncilShown`: a regeneration that read documents and is COMPLETED has a
COMPLETED child for each that is still there, and the document shows the council as
that regeneration read it unless the job of another one about it began later. A user
who sees COMPLETED may thus trust the documents until something newer is under way;
that what was read is the council as it is now is not promised by the code (below).
`OneCertificate`: a student has one certificate,
however often loaded. `LongTasksInv`: when the last that was done for a student is
COMPLETED, the certificate is there with its sheet and members. `TasksEnd`: jobs
run out, handlers return, and a main notification gets a last status unless the
process stopped under it.

Bounds. Two roots are a regeneration that meets another, or a load and its retry;
`OneKind` keeps the two kinds of task apart, which share nothing but the process. One
document is enough for two regenerations to write it in either order and for a
stalled job to write it after both; with a second one, which is not removed, the
invariants hold on five million states, which takes too long with `TasksEnd`.
Fairness: of a handler that can go on and of each processor; Bull hands
out a job as long as there is one, and a stalled one goes back in the end.

### Proofs (`LongTasksProofs`)

For any documents, students, members and sheets, any failures, removals and stops:

| Theorem | Inductive invariant |
|---|---|
| `CompletedLoadsAreThere` | `TasksInv`: the types of the tables, and that jobs, requests and notifications name tasks and items that exist. `LoadInv`: the child of the row being loaded is the last of its student, and IN_PROGRESS; the certificate is live, and past each await it has what the await was for. Hence `LastIsThere`. |
| `LoadsLeaveOneCertificate` | the same: a certificate is saved only once those of the student were removed, and the one processor loads one row at a time. |
| `FilesShowTheirVariables` | `FilesInv`: files have identifiers of their own; the copy being filled is not yet the document's, and when it is saved it shows what the job says. |
| `CouncilIsShown` | `CouncilInv`, on top of those (`AllInv`), below |

`CouncilIsShown` has no hypothesis: councils change at any time, jobs of several
regenerations run in any order, stalled ones included. A regeneration reads once, and
what its jobs will write, waiting, running or stalled, is what it read (`ReadInv`). While
its jobs are awaited none is stalled, since a stop takes the handler with it, and each
document of its list has one job that is left or one child, or both while it is made
anew (`AwaitedInv`). The handler counts: when there are as many COMPLETED children as
documents, every document of the list has one (`DoneInv`); documents removed meanwhile
only make the list longer than the table. The child of the document that is made anew
is the last notification about it, since there is one processor (`RunInv`), so that what
the last COMPLETED child of a document says is what its row has (`ShownInv`): a job
that ran later would have left a later child. The stop is why both are needed: a stalled
job leaves a child IN_PROGRESS and makes a second one when it runs again.

### Seen while modelling

* the documents may go on showing an older council than the table has, with every
  regeneration COMPLETED: two of them queue their jobs in an
  order other than that of the changes, a stalled job runs after newer ones and
  saves what it read long ago, and changes by `updateBulk`, or of the type beside
  members, regenerate nothing;
* `update` with members regenerates before the members are saved;
* the entity of the child is saved over the FAILURE a query has just set (543, 548),
  and the catch of the load writes FAILURE on the root and leaves the child
  IN_PROGRESS (417): such rows, without `entities` in their data, cannot be retried;
* a retry marks the old root COMPLETED even if rows fail again;
* a process that stops between the save of the council and the start of the
  regeneration leaves no trace of it; copies on Drive of jobs that failed stay;
* to discard a certificate deletes its row, with the number it may have;
* "Bull reintentará" (`certificate-processor.ts` 49): nothing is thrown again.

## 7. Recopilation

`Recopilation` has the directories that the server writes in: `temp` of each
council, `extracted` of all. One handler per council and one task per document go
through export, unzipping, cutting, zipping and the separator, in parallel;
`promises` that go on after one has failed are tasks left over. The merge copies the
first separator over the merged file (`docx.service.ts` 134), reads the parts into a
zip in memory (`merging`), writes it in a directory of all merges (`draft`) and
renames it: until then the merged file has no document.

| Code | Actions |
|---|---|
| `generateRecopilationDocuments` | `Begin`, `Prepare`, `BeginMerge`, `AddPart`, `WriteDraft`, `Rename`, `MarkProcessed`, `CleanTemp`, `CleanAll` |
| `prepareDocument` | `Download`, `Extract`, `ReadText`, `ZipText`, `CopySeparator`, `ReplaceText`, `Fail` |
| documents made and removed meanwhile, end of the process | `ChangeDocument`, `Stop` |

Run `recopilation`: two councils with two documents and one, refusals of Drive and
stops, also in the middle of a merge. `RecopilationInv`: the documents of a merged file
are whole and in the order of their numbers, and when the request is answered they are
as many as the answer says (`MergedInOrder`).
`RecopilationAnswered`. `Patient`: one recopilation at a time, and no document
changes between a failed attempt and the next. Two documents are the least that
can be out of order. Fairness: of handlers and tasks; the file system and Drive
answer.

Proof (`RecopilationProofs`, `DocumentsAreMergedInOrder`), for any councils,
documents, failures, stops, and documents made and removed meanwhile, where
recopilations begin one after another (`Patient`, as in the run). `OrderInv` says that
one council at a time is at work (`AloneInv`), that one task prepares a document, also
when its handler has answered because another one failed (`TasksInv`), that a
directory has one file of a name, of a document of its council that is there
(`FilesInv`), and, of a recopilation under way, only of the documents it lists
(`OwnInv`). Each of these has its two files ready or a task on its way
(`PreparedInv`); a task that zips has its document unzipped in the shared directory,
one at the separator has its document ready (`ReachedInv`); the zip of a merge has the
first parts of what the directory holds, and the draft all of them (`MergingInv`).
Without tasks, the names found are then exactly the documents listed, twice, and as
lists that grow they are the same list (`MergedAll`). One bound comes from the code:
names have four digits (`formatNumeration`, `string.ts` 75), and `sort` gets NaN for
them (203–213), so that the order is the alphabetical one of the directory, which is
that of the numbers up to `LastNumber`.

Seen: with two recopilations at once one cleans the directories the other fills (117),
and the properties fail; a stop between the copy of the first separator and the rename
leaves a file without documents for a council that has `hasProcessedDocuments` since
an earlier recopilation; a failed attempt leaves its files, and those of a document
removed since are merged by the next; the comparison of two names without a number is
NaN; `hasProcessedDocuments` is never reset; the check that a council is open is
inverted. The act (265–343) is not modelled.

## 8. Councils

`Councils` has the councils, their folders on Drive, their members and the default
members of a module. Members are saved side by side by tasks of their own, and go
on when one of them has failed.

| Code | Actions |
|---|---|
| `create` (`councils.service.ts` 49) with `CouncilsThatOverlapValidator` | `BeginCreation`, `CreateFolder`, `SaveCouncil`, `SaveMember`, `EndCreation` |
| `update` | `BeginUpdate`, `RenameFolder`, `UpdateMember`, `SaveUpdate`, `EndUpdate` |
| default members, with the strategies in `members-manipulation/` | `BeginChanges`, `RunChange`, `EndChanges` |
| a rejected promise, end of the process | `ProcessEnds`, `Restart` |

Run `councils`: bodies with a member twice, one that does not exist, councils an
hour apart and less. `CouncilsInv`: what is answered as created has its folder and
every member in its place (`CreatedComplete`), and no person is a default member
twice (`DefaultsDistinct`). `CouncilsAnswered`. One handler at a time (`Patient`), with the
tasks that an earlier one left. Fairness: of the handler and of the tasks.

Proofs (`CouncilsProofs`), for any councils, bodies, persons, members and failures,
where a request begins only when nothing is under way (`Patient`, as in the run):

| Theorem | Hypotheses | Inductive invariant |
|---|---|---|
| `CouncilsAreComplete` (`CouncilsInv`) | `Patient`, `NamedOnce` | `CouncilInv`, below |

`NamedOnce`: no body of changes of the default members brings one person twice;
without it two creations of one person both pass (below). `CouncilInv` relates the one
handler to the tasks it has begun, which may outlive it (`AloneInv`, `TasksInv`).
While a creation is under way the council has members of its body only, and each seat
is taken or has its task (`SeatsInv`): when no task is left all seats are. That the
number of persons is right needs that the body was looked at for repetitions before
the tasks began. `DefaultsInv`: rows have distinct ids, the changes under way have
read one list, bring distinct persons, and none that has come since the list was read.
A row that changes its person loses it for one that nobody has, since a change that
switches is refused if the list has the person (`ChangedDefaults`).

Seen: the window of the validator looks one hour back only, so that the order of
two creations decides whether they overlap; a member whose save is rejected before
`Promise.all` looks at it ends the process; two creations of one person in one
request of default members both pass; `validateDifferentsMembers` is never reached;
an update of a member leaves the reference to the person of the other kind that the
seat had, so that both sit in it (`UpdateMember`); the changes of default members
take the id of any row of attendance, so that they can delete or change a member of a
council (`SeatsOf`). Two creations that overlap both pass the validation before
either is saved, and nothing else refuses the second.
Left out: `notifyMembers`, `toggleHasAssisted`, queries.

## 9. Bulk updates, the pool, the load of students

`BulkUpdates` has what the rows of three tables and the connections of the pool are
held by. `lost` are the connections of handlers that ended without rollback and
release. `StudentLoad` adds the rows of a sheet, looked up and saved side by side.

| Code | Actions |
|---|---|
| `updateBulk` of councils and processes, `createBulk` of functionaries | `BeginBulk`, `Connect`, `Check`, `Rename`, `Preload`, `SaveRow`, `Commit`, `FindAll`; errors by `Throw` |
| single updates | `BeginSingle`, `TakeConnection`, `UpdateRow` |
| PostgreSQL | `Deadlock` |
| `createUpdateBulk` (`students.service.ts`) | `BeginLoad`, `Find`, `CheckStudent`, `SaveStudent`, `UpdateStudent`, `EndRows`, `CreateChild`, `CloseLoad` |

Run `bulkUpdates`: two requests and a load on a pool of two, rows in opposite orders,
missing rows, refusals, restarts. `ServedUnlessLost`: every request is answered,
unless from some moment on the pool is taken or a lost transaction holds a row.
`StatusTells`: the status of a load is what became of its rows. A load may be a
FAILURE with students of its dnis in the database, whom its rows failed to update.
`LoadAnswered`. `BulkInv`: types; no more connections are taken than the pool has,
lost ones included (`PoolKept`); a row that a transaction has changed is changed by no
other one before its end (`ChangedByOne`); no two students share a dni or a mail, and
each has a career and a canton that exist, although the rows of a sheet are looked up
first and saved later (`StudentsDiffer`). A row has all four fields; a sheet with ids
(the first branch of the handler) is not modelled. One body of councils is empty,
which only functionaries refuse. Fairness is strong: the pool and the locks serve
those who wait in order.

### Proofs (`CertificatesProofs`, part 2)

`ThePoolAndTheStudentsAreKept` (`BulkInv`) and `TheStatusTells` (`StatusTells`) hold
for any bodies, sheets, callers and size of the pool, without a hypothesis of their
own. The pool needs that the requests with a connection are finitely many (`Taking`),
that lost connections are told apart by the order they were lost in (`LostInv`), and
where a handler is in its body (`PlacesInv`). All handlers move in one of two ways,
each a lemma: on, with a connection if one is free and a row if nobody has it
(`HandlerMovesOn`), or off, leaving connection and locks behind (`HandlerIsLost`). The
status needs `SheetInv`: each student of the sheet is under way in one row, or failed
and no student has its data, or has a student with its dni; that `UpdateStudent` fails
only for a row whose data no student has follows from `StudentsDiffer` and the foreign
keys. `ServedUnlessLost` and `LoadAnswered` are liveness and stay with TLC.

Seen: a throw leaves the connection taken and its rows locked; as many bulk updates
as the pool has connections each wait for a second one and nobody is served
again, as the rows are loaded outside the transaction; a load that the process did
not survive stays IN_PROGRESS; `processes.update` merges the body before it compares
the names (250–272), so that the folder is never renamed, and `templates.update`
does the same. The update by identifier (77–97) is not modelled.

## 10. The year of the system

`SystemYear` has the years, careers, modules, year modules with their submodules,
the work that is open in each year (councils, numbers, certificates) and the
notifications of changes.

| Code | Actions |
|---|---|
| `updateSystemYear` with `SysYearUpdateValidator` | `BeginChange`, `Validate` (once per kind of work), `ListModules`, `CheckYearModule`, `SaveYearModule`, `SaveSubmodule`, `SetYear`, `EndChange`, `DriveRefuses` |
| `yearModuleService.create` | `BeginYearModule` and the three above |
| `careersService.create`, `update`; `modulesService` | `BeginCareer`, `SaveCareer`, `CopyTemplates`, `UpdateCareer`; `BeginModule`, `SaveModule`; `BeginFolders`, `SetFolder` |
| work of the year | `BeginWork`, `SaveWork`, `CloseWork` |
| the migrations' modules and year modules | `Migrated`, `FirstYearModules` (initial state) |
| end of the process | `Stop` |

Run `systemYear`: two changes at once, one of which fails or is stopped, beside
new careers and modules. `YearPrepared`: when the year changes, everything of it is
there. `ChangeReported`:
the notification of a change does not stay in progress. `SystemYearInv`: no year is
skipped, COMPLETED means that the year began, a career answered as created has its
module. `Patient` names what is asked for only when nothing else is under way. Two
of the three modules of the faculty are enough, since one has documents and the
other has not. Fairness: of handlers that can go on.

Seen: a change that failed half way cannot be repeated, since a year module that
exists is an error; two changes for one year both save it; work may be opened
between the validation and the new year, so that nothing is stated of what the year
that ends leaves open; `modulesService` swallows its errors and
a career of which the module name is not in capitals is skipped; two active careers
of a name come of PATCH `isActive`; `driveId: null` in a `where` is ignored, and
all modules get new folders. The links to certificate types (57–76) and the CRUD of
submodules are not modelled.

Proofs (`SystemYearProofs`), for any modules, careers, years and requests, whatever
Drive refuses. `YearsFollowEachOther` (`SystemYearInv`) rests on `YearInv`: what a
handler has done so far is in the tables (`Recorded`: the year module it saved, its
submodules but those left, the year before the one it sets), and a request saves
the year module of a module once. `TheYearIsPrepared` (`YearPrepared`) assumes
`{"career", "module"} \subseteq Patient`: what a change has made covers all modules
but those left in its list (`PreparingInv`), which fails when a career or module
appears after it was read. Changes of year may run at once.
It also uses `AloneInv`, that a task of `Patient` is
under way alone. `ChangeReported` is model-checked.

## 11. Users

`Users` has the rows, the accesses to modules and careers, the permission of each
address on the shared folder and the recovery mails.

| Code | Actions |
|---|---|
| `create` (`users.service.ts`) | `BeginCreate`, `SaveRow`, `SaveAccess`, `ShareNew`, `RemoveRefused` |
| `update` | `BeginUpdate`, `Clear`, `SaveAccess`, `ChangeRole`, `SaveUpdate`, `UnshareOld`, `UnshareInactive` |
| `delete` | `BeginDelete`, `Unshare`, `Deactivate` |
| `forgotPassword`, `resendActivationEmail`, `newPassword` (`auth.service.ts`) | `BeginRecovery`, `SendMail`, `SaveToken`, `BeginPassword`, `SavePassword`, `Expire` |
| end of the process | `Stop` |

Run `users`: two users, changes of address, role, activity and accesses in any
order; Drive refuses once and the process stops once. `AnsweredAsAsked`: what is
answered is what was asked. `InactiveOnlyReads`: who is not active is no writer on
Drive. `UsersInv`: the token saved for a user is that of the last recovery asked
for. A recovery goes on to save its token whether its mail went or was refused:
`SmtpClient` (44–50) returns the error and `forgotPassword` does not look at it. So
the last mail works if it arrived; if it did not, the ones before are dead too. One
handler at a time; two mails and two users are a second of each.

When Drive refuses the share of a new user the request is answered at once, and its
removal (`userSaved.remove()`, not awaited) is under way by itself (`removing`,
`RemoveRefused`): other requests come before it, and a stop leaves the user with
its accesses. Nothing says that it happens, so no property does. The inputs
considered (`Known`): nobody works on a user before it is answered as created, nor
on one whose creation was refused.

Seen: with two handlers on one user the properties fail; a creation with an
unknown module leaves its row, a refused update its accesses half replaced and the
permission of the new address; a new address gets a permission only with a new
role, a user made active again none; `update({ id }, currentUser)` (265) is given
relations; `forgotPassword` does not look at the tries.

Proofs (`UsersProofs`), for any users, addresses, modules, careers and bodies, one
request at a time (`OneRequest`). `UsersFullInv` says, for each await of each handler,
what the row, the accesses and the permission have come to (`CreatingInv`,
`ChangingInv`, `ReadingInv`, `MailingInv`), that no two rows have one address, and
that a mail whose token is not saved yet is the last; `RemovingInv`, that no handler
works on a user that is about to be removed. `TheLastLinkIsKept` (`UsersInv`) and
`AnswersAreTrue` (`AnsweredAsAsked`) follow. `InactiveUsersOnlyRead`
(`InactiveOnlyReads`) adds that a writer is the address of an active user or one that
a change is about to take away (`WritersInv`, `SharesInv`), and that the address of a
refused user has no permission (`RefusedInv`). It has two hypotheses more, each of
which the attempt to prove it brought up and without which the code
(`users.service.ts` 145–331) does not keep the property:

* `AddressesKept`: a change that deactivates a user gives it no new address. With a
  new role besides, the new address is shared as writer (250), and only the old one
  is taken back (284–330): the inactive user is left a writer;
* `~OldRefused`: Drive does not refuse to take from an old address what it had. That
  address stays a writer when it does, and may be given to an inactive user later.

The bodies of the run `users` are within the first, and Drive's one refusal cannot
be followed by what the second needs.

## 12. The schedule of the certificates

`CertificateSchedule` has the time, room and members of each certificate.
`Meets` is the query of the repository (367), `Elsewhere` that of
`DegreeAttendanceThatOverlapValidator`, `CheckLimit` that of
`AttendanceLimitAttendedValidator`.

| Code | Actions |
|---|---|
| `create`, `update` of a certificate | `CreateUndated`, `BeginCreate`, `CheckRoom`, `Insert`; `BeginMove`, `CheckMoveRoom`, `CheckMembers`, `SaveMove`, `SaveBack` |
| `remove` | `BeginRemoval`, `Delete`, `Strip` |
| attendance: `create`, `update`, `remove` | `BeginJoin`, `CheckFree`, `Join`; `BeginChange`, `CheckTwice`, `CheckSubstitute`, `CheckAttend`, `CheckLimit`, `SaveChange`; `BeginDrop`, `Drop` |

Run `schedule`: two certificates, three members, three slots of which one lies in
another and meets a third in another room. `RoomNotShared` and `NotTwoPlaces`: no
room and nobody present is at two presentations at a time, though certificates are
closed, opened again, removed, and put back by an update that was refused.
`ScheduleInv`: nobody has two places, and no more members are present than the
document names. `Patient`: what looks the schedule up waits for others that do;
removals do not wait. No slots end at one minute (see below).

Seen: a row that begins later and ends at the same minute meets none of the four
comparisons; an update that names only the date, or only the room, is not checked;
a change of role of a member who is present goes around the limit, as do two
requests at once (without `Patient` all three properties fail); a substitute who is
said to be present is not, and a mark read before a substitution makes the
substitute present; `drop` may delete one who was marked present meanwhile; a
certificate opened again is checked only if the update names its date; `createBulk`
and `updateBulk` always throw, `createRoom` always refuses, `deleteRoom` inserts a
room without a name. Two removals of one certificate at once: `remove` saves the
row together with the attendances it read (172–212), so the second gives its
certificate back to an attendance that the first, which had not read it, took from
it; an update that was under way then brings the certificate back with somebody
present at two presentations (three requests and two removals; the run has one).

### Proofs

`CertificateScheduleProofs` proves the three invariants of the run for any rooms,
functionaries, times, certificates, attendances and requests. All of them assume
`Patient`, which the run has too, and each only what else it needs:

* `RoomsAreNotShared`: `EndsDiffer`, no two of the times asked for end at one minute
  (the query does not see those). With it `NotMet`: two times that share a minute are
  seen by `Meets`. The inductive invariant `RoomInv` says what a handler relies on
  between its await and its save: the room it found free still is (`Vacant`), and
  what it read of an open certificate, which it puts back when it is refused, is
  still in nobody's way. A removal is the only step that can come in between, and
  leaves less (`Fewer`).
* `MembersAreInOrder`: `SeatedOnce`, who is there at the beginning is there once;
  `RolesKept`, no change of role; and that always `OneRemoval`, no certificate is
  removed by two requests at once (both: see above). `PlaceInv` relates each handler
  to the rows it read: who attends the certificate of an update was read by it
  (`MoveKept`), a change is of an attendance that is as it was read or has lost its
  certificate (`ChangeKept`), and a removal knows only attendances of its own
  certificate (`DeleteKept`; what two removals would break). `LimitInv` counts: of
  those an update may put back no more than the limit is present, and a change that
  marks a member present finds fewer than the limit besides.
* `NobodyIsInTwoPlaces`: `EndsDiffer`, `SeatedOnce`, always `OneRemoval`. `BusyInv`, on
  top of `RoomInv` and `PlaceInv`: who an update read as present is nowhere else at
  the time it read nor, once looked up, at the one asked for, and who a change is
  about to mark present is nowhere else. That the update needs to look up only those
  it read as present (`absent`) is `MoveKept`: nobody is marked present meanwhile.

`RemovedOnce` shows that `OneRemoval` holds where one removal is allowed for, as in
the run. The invariants were checked by TLC on the run's instance first.

## 13. Not modelled

Formatting of variables and documents, Drive, mail and the CRUD of independent
rows: pure I/O or single statements. `Numeration` and `Certificates` have one year;
the change of year is `SystemYear`. Queries that change nothing are modelled where
another call depends on their answer. Configuration and wiring are declarations; of
the migrations only the first year is modelled, as the initial state of
`SystemYear`. `PROJECT.json` lists each part with its status and reason.

----------------------------- MODULE BulkUpdates ------------------------------
(***************************************************************************)
(* The bulk updates of councils, processes and functionaries, each in a    *)
(* transaction on a connection of its own, and the pool of connections     *)
(* that every request draws from.                                          *)
(*                                                                         *)
(* The three services keep their rows in tables of their own; a row here   *)
(* belongs to one of them.  A query outside a transaction takes a          *)
(* connection for itself and gives it back: it only needs a free one.      *)
(* What the rows hold is left out.                                         *)
(***************************************************************************)
EXTENDS Naturals, Sequences, FiniteSets

CONSTANTS
  Callers,   \* handlers that may be under way at once
  Rows,      \* the rows there are
  Bulks,     \* bodies: [service, rows], the rows in the order of the body
  Pool,      \* connections of the pool
  Failures   \* what may fail in this instance

Services == {"councils", "processes", "functionaries"}

(* drive: Drive refuses to rename; missing: a body names a row that does not *)
(* exist; restart: the process is stopped and started again.                 *)
ASSUME BulkUpdatesAssumption ==
  /\ Bulks \subseteq [service : Services, rows : Seq(Rows)]
  /\ Pool \in Nat \ {0}
  /\ Failures \subseteq {"drive", "missing", "restart"}

VARIABLES
  handler, \* the handler of each request
  lost     \* the transactions that an ended handler has left open or idle

bulkVars == <<handler, lost>>

-------------------------------------------------------------------------------
Idle == [at |-> "idle"]

(* rename, preload, save: of the row at position next.                       *)
Bulk == [at : {"connect", "check", "rename", "preload", "save", "commit", "find"},
         body : Bulks, next : Nat]

(* An update of one row: it waits for a connection, then for the row.        *)
Single == [at : {"query", "update"}, row : Rows]

(* A lost connection, with the rows its open transaction has locked.         *)
Lost == [by : Callers, locks : SUBSET Rows, nth : Nat]

BulkTypeOK ==
  /\ handler \in [Callers -> {Idle} \cup Bulk \cup Single]
  /\ lost \subseteq Lost

BulkInit ==
  /\ handler = [r \in Callers |-> Idle]
  /\ lost = {}

Becomes(r, h) == handler' = [handler EXCEPT ![r] = h]

InTransaction(r) ==
  handler[r].at \in {"check", "rename", "preload", "save", "commit", "find"}

HasConnection(r) == InTransaction(r) \/ handler[r].at = "update"

Connections == Cardinality(lost) + Cardinality({r \in Callers : HasConnection(r)})

Available == Connections < Pool

(* The rows that a transaction has changed and not yet given back.           *)
Locks(r) ==
  IF handler[r].at \in {"rename", "preload", "save", "commit"}
  THEN {handler[r].body.rows[i] : i \in 1 .. handler[r].next - 1}
  ELSE {}

Locked(row, r) ==
  \/ \E other \in Callers \ {r} : row \in Locks(other)
  \/ \E x \in lost : row \in x.locks

Row(r) == handler[r].body.rows[handler[r].next]

IsFunctionaries(r) == handler[r].body.service = "functionaries"

(* The connection stays taken although the handler has ended.                *)
Keep(r, locks) ==
  lost' = lost \cup {[by |-> r, locks |-> locks, nth |-> Cardinality(lost)]}

(* What an error does.  Councils (and processes, whose catch only changes    *)
(* the error) leave the transaction as it is; functionaries roll it back;    *)
(* none gives the connection back.                                           *)
Throw(r) ==
  /\ Keep(r, IF IsFunctionaries(r) THEN {} ELSE Locks(r))
  /\ Becomes(r, Idle)

-------------------------------------------------------------------------------
(***************************************************************************)
(* updateBulk, and createBulk of functionaries.                            *)
(***************************************************************************)
BeginBulk(r) ==
  /\ handler[r] = Idle
  /\ \E body \in Bulks :
       /\ body.service = "functionaries" => body.rows # <<>>
       /\ Becomes(r, [at |-> "connect", body |-> body, next |-> 1])
  /\ UNCHANGED lost

(* What comes before the row at position next is saved, or after the last.   *)
Onward(body, next) ==
  IF next > Len(body.rows) THEN "commit"
  ELSE IF body.service = "functionaries" THEN "save" ELSE "rename"

(* startTransaction waits for a connection.                                  *)
Connect(r) ==
  /\ handler[r].at = "connect" /\ Available
  /\ Becomes(r, [handler[r] EXCEPT !.at =
                   IF IsFunctionaries(r) THEN "check" ELSE Onward(handler[r].body, 1)])
  /\ UNCHANGED lost

(* Functionaries: all ids must exist, counted outside the transaction.       *)
Check(r) ==
  /\ handler[r].at = "check" /\ Available
  /\ \/ Becomes(r, [handler[r] EXCEPT !.at = "save"]) /\ UNCHANGED lost
     \/ "missing" \in Failures /\ Throw(r)

(* Mutant of Rename: the folder is found in a transaction of its own, whose  *)
(* queries take a connection more.                                           *)
RenameHoldingTwo(r) ==
  /\ handler[r].at = "rename" /\ Connections + 1 < Pool
  /\ Becomes(r, [handler[r] EXCEPT !.at = "preload"])
  /\ UNCHANGED lost

(* The folder of a council or a process is found and renamed.                *)
Rename(r) ==
  /\ handler[r].at = "rename" /\ Available
  /\ \/ Becomes(r, [handler[r] EXCEPT !.at = "preload"]) /\ UNCHANGED lost
     \/ Failures \cap {"drive", "missing"} # {} /\ Throw(r)

(* preload reads the row, outside the transaction as well.                   *)
Preload(r) ==
  /\ handler[r].at = "preload" /\ Available
  /\ \/ Becomes(r, [handler[r] EXCEPT !.at = "save"]) /\ UNCHANGED lost
     \/ "missing" \in Failures /\ Throw(r)

(* The row is changed in the transaction, once nobody else has it locked.    *)
SaveRow(r) ==
  LET next == handler[r].next + 1 IN
  /\ handler[r].at = "save" /\ ~ Locked(Row(r), r)
  /\ Becomes(r, [handler[r] EXCEPT !.next = next,
                                   !.at = Onward(handler[r].body, next)])
  /\ UNCHANGED lost

(* Those whose locks a transaction waits for.                                *)
Awaited(r) ==
  {other \in Callers \ {r} : handler[r].at = "save" /\ Row(r) \in Locks(other)}

(* Two transactions that wait for each other: the database aborts one, whose *)
(* locks it takes back.                                                      *)
Deadlock(r) ==
  /\ \E other \in Awaited(r) : r \in Awaited(other)
  /\ Keep(r, {})
  /\ Becomes(r, Idle)

(* Councils and processes give their connection back; functionaries keep     *)
(* theirs, and read all rows with another one.                               *)
Commit(r) ==
  /\ handler[r].at = "commit"
  /\ IF IsFunctionaries(r)
     THEN Becomes(r, [handler[r] EXCEPT !.at = "find"])
     ELSE Becomes(r, Idle)
  /\ UNCHANGED lost

FindAll(r) ==
  /\ handler[r].at = "find" /\ Available
  /\ Keep(r, {})
  /\ Becomes(r, Idle)

-------------------------------------------------------------------------------
(***************************************************************************)
(* Everything else: an update of one row, and the end of the process.      *)
(***************************************************************************)
BeginSingle(r) ==
  /\ handler[r] = Idle
  /\ \E row \in Rows : Becomes(r, [at |-> "query", row |-> row])
  /\ UNCHANGED lost

TakeConnection(r) ==
  /\ handler[r].at = "query" /\ Available
  /\ Becomes(r, [handler[r] EXCEPT !.at = "update"])
  /\ UNCHANGED lost

UpdateRow(r) ==
  /\ handler[r].at = "update" /\ ~ Locked(handler[r].row, r)
  /\ Becomes(r, Idle)
  /\ UNCHANGED lost

(* The database rolls back what was open.                                    *)
Restart ==
  /\ "restart" \in Failures
  /\ handler' = [r \in Callers |-> Idle]
  /\ lost' = {}

Handle(r) ==
  \/ Connect(r) \/ Check(r) \/ Rename(r) \/ Preload(r) \/ SaveRow(r) \/ Deadlock(r)
  \/ Commit(r) \/ FindAll(r) \/ TakeConnection(r) \/ UpdateRow(r)

BulkNext == \E r \in Callers : BeginBulk(r) \/ BeginSingle(r) \/ Handle(r)

-------------------------------------------------------------------------------
(***************************************************************************)
(* Properties.                                                             *)
(***************************************************************************)

(* No more connections are taken, lost ones counted, than the pool has.      *)
PoolKept == Connections <= Pool

(* A row that a transaction has changed is changed by no other one before it *)
(* has ended, left open by its handler or not.                               *)
ChangedByOne ==
  /\ \A r, other \in Callers : r # other => Locks(r) \cap Locks(other) = {}
  /\ \A x \in lost : /\ \A r \in Callers : x.locks \cap Locks(r) = {}
                     /\ \A y \in lost : x # y => x.locks \cap y.locks = {}

(* Every request is answered again and again, unless from some moment on the *)
(* whole pool is taken, or a transaction that was left open holds a row.     *)
(* Taken by connections that were lost, by bulk updates that each wait for a *)
(* second one, by updates that wait for the rows of such a bulk update.      *)
ServedUnlessLost ==
  \A r \in Callers :
    \/ []<>(handler[r] = Idle)
    \/ <>[](~ Available \/ \E x \in lost : x.locks # {})
===============================================================================

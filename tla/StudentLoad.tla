----------------------------- MODULE StudentLoad ------------------------------
(***************************************************************************)
(* The load of a sheet of students (createUpdateBulk of                    *)
(* students.service.ts), beside the bulk updates that share the pool with  *)
(* it.                                                                     *)
(*                                                                         *)
(* The rows of the sheet are looked up, checked and saved in parallel,     *)
(* without a transaction; what fails is collected, and told by the status  *)
(* of a notification.                                                      *)
(***************************************************************************)
EXTENDS BulkUpdates

CONSTANTS
  Sheets,   \* bodies: sets of rows [dni, mail, career, canton]
  Careers,  \* the careers there are
  Cantons   \* the cantons there are

VARIABLES
  students, \* the students there are
  load,     \* the handler of the load
  rows,     \* the rows under way: where each is
  errors,   \* the rows that failed
  status    \* the status of the load's notification

loadVars == <<students, load, rows, errors, status>>

-------------------------------------------------------------------------------
Student == UNION Sheets

(* end: all rows are through, the child notification is to be made; close:   *)
(* the root's status is to be saved.                                         *)
LoadTypeOK ==
  /\ students \subseteq Student
  /\ load \in [at : {"idle"}]
       \cup [at : {"rows", "end", "close"}, sheet : Sheets, update : BOOLEAN]
  /\ rows \subseteq [student : Student, at : {"find", "check", "save", "update"}]
  /\ errors \subseteq Student
  /\ status \in {"none", "IN_PROGRESS", "COMPLETED", "WITH_ERRORS", "FAILURE"}

NoLoad == [at |-> "idle"]

LoadInit ==
  /\ students = {} /\ load = NoLoad
  /\ rows = {} /\ errors = {} /\ status = "none"

WithDni(student) == {x \in students : x.dni = student.dni}

WithMail(student) == {x \in students : x.mail = student.mail}

(* The root notification is made, and every row begins.                      *)
BeginLoad(sheet, update) ==
  /\ load = NoLoad /\ Available
  /\ load' = [at |-> "rows", sheet |-> sheet, update |-> update]
  /\ rows' = {[student |-> x, at |-> "find"] : x \in sheet}
  /\ status' = "IN_PROGRESS"
  /\ UNCHANGED <<students, errors>>

Goes(row, to) == rows' = (rows \ {row}) \cup {[row EXCEPT !.at = to]}

(* Mutant of RowEnds: an error is logged, not collected.                     *)
RowEndsSilently(row, failed) == rows' = rows \ {row} /\ UNCHANGED errors

RowEnds(row, failed) ==
  /\ rows' = rows \ {row}
  /\ errors' = IF failed THEN errors \cup {row.student} ELSE errors

(* The student with the dni is looked up.                                    *)
Find(row) ==
  /\ row.at = "find"
  /\ IF WithDni(row.student) # {} THEN Goes(row, "update") /\ UNCHANGED errors
     ELSE IF load.update THEN RowEnds(row, TRUE)
     ELSE Goes(row, "check") /\ UNCHANGED errors
  /\ UNCHANGED students

(* The foreign keys of a student's career and canton.                        *)
Referred(student) == student.career \in Careers /\ student.canton \in Cantons

(* The student takes the data of the row. The database refuses a mail that   *)
(* another has, and a career or a canton that does not exist.                *)
UpdateStudent(row) ==
  LET refused == \/ WithMail(row.student) \ WithDni(row.student) # {}
                 \/ ~ Referred(row.student)
  IN
  /\ row.at = "update"
  /\ students' = IF refused THEN students
                 ELSE (students \ WithDni(row.student)) \cup {row.student}
  /\ RowEnds(row, refused)

(* The career, the dni and the mail are looked up.                           *)
CheckStudent(row) ==
  /\ row.at = "check"
  /\ IF /\ row.student.career \in Careers
        /\ WithDni(row.student) = {} /\ WithMail(row.student) = {}
     THEN Goes(row, "save") /\ UNCHANGED errors
     ELSE RowEnds(row, TRUE)
  /\ UNCHANGED students

(* Mutant of SaveStudent: the dni and the mail are not unique columns.       *)
SaveStudentAnyway(row) ==
  /\ row.at = "save"
  /\ students' = students \cup {row.student}
  /\ RowEnds(row, FALSE)

(* The database refuses a dni or a mail that another row has brought since,  *)
(* and a canton that does not exist: nobody has looked it up.                *)
SaveStudent(row) ==
  LET refused == \/ WithDni(row.student) \cup WithMail(row.student) # {}
                 \/ ~ Referred(row.student)
  IN
  /\ row.at = "save"
  /\ students' = IF refused THEN students ELSE students \cup {row.student}
  /\ RowEnds(row, refused)

RunRow(row) ==
  /\ load.at = "rows" /\ Available
  /\ Find(row) \/ UpdateStudent(row) \/ CheckStudent(row) \/ SaveStudent(row)
  /\ UNCHANGED <<load, status>>

(* Mutant of EndRows: only rows without an error are awaited.                *)
EndRowsWithoutErrors ==
  /\ load.at = "rows" /\ rows = {} /\ errors = {}
  /\ load' = [load EXCEPT !.at = "end"]
  /\ UNCHANGED <<students, rows, errors, status>>

EndRows ==
  /\ load.at = "rows" /\ rows = {}
  /\ load' = [load EXCEPT !.at = "end"]
  /\ UNCHANGED <<students, rows, errors, status>>

CreateChild ==
  /\ load.at = "end" /\ Available
  /\ load' = [load EXCEPT !.at = "close"]
  /\ UNCHANGED <<students, rows, errors, status>>

(* The status counts the errors.                                             *)
StatusOf(sheet) ==
  IF errors = sheet THEN "FAILURE"
  ELSE IF errors # {} THEN "WITH_ERRORS" ELSE "COMPLETED"

CloseLoad ==
  /\ load.at = "close" /\ Available
  /\ status' = StatusOf(load.sheet)
  /\ load' = NoLoad /\ errors' = {}
  /\ UNCHANGED <<students, rows>>

-------------------------------------------------------------------------------
HandleLoad == (\E row \in rows : RunRow(row)) \/ EndRows \/ CreateChild \/ CloseLoad

(* A restart ends the load as well, and leaves its notification as it is.    *)
RestartAll ==
  /\ Restart
  /\ load' = NoLoad /\ rows' = {} /\ errors' = {}
  /\ UNCHANGED <<students, status>>

StudentLoadNext ==
  \/ /\ \/ \E sheet \in Sheets, update \in BOOLEAN : BeginLoad(sheet, update)
        \/ HandleLoad
     /\ UNCHANGED bulkVars
  \/ BulkNext /\ UNCHANGED loadVars
  \/ RestartAll

StudentLoadInit == BulkInit /\ LoadInit

StudentLoadSpec == StudentLoadInit /\ [][StudentLoadNext]_<<bulkVars, loadVars>>

(* The pool and the locks of the database serve those who wait in order, so  *)
(* that nobody is passed over for ever.                                      *)
FairStudentLoadSpec ==
  /\ StudentLoadSpec
  /\ SF_<<bulkVars, loadVars>>(HandleLoad /\ UNCHANGED bulkVars)
  /\ \A r \in Callers :
       SF_<<bulkVars, loadVars>>(Handle(r) /\ UNCHANGED loadVars)

(* The status of a load is what became of its sheet, whatever the order of   *)
(* the rows: COMPLETED when there is a student with the dni of every row,    *)
(* FAILURE when no student has the data of a row (there may be one with its  *)
(* dni, which the row could not update).                                     *)
StatusTells ==
  [][load.at = "close" /\ load' = NoLoad /\ status' # status =>
       /\ status' = "COMPLETED" => \A x \in load.sheet : WithDni(x) # {}
       /\ status' = "FAILURE" => load.sheet \cap students = {}]_<<bulkVars, loadVars>>

(* A load is answered, unless the pool stays taken.                          *)
LoadAnswered == []<>(load = NoLoad) \/ <>[](~ Available)

(* No two students have one dni or one mail, and each has a career and a     *)
(* canton that exist, although rows are looked up first and saved later,     *)
(* side by side.                                                             *)
StudentsDiffer ==
  /\ \A x, other \in students : x.dni = other.dni \/ x.mail = other.mail => x = other
  /\ \A x \in students : Referred(x)

(* The pool, the rows in transactions and the students are kept.             *)
BulkInv ==
  BulkTypeOK /\ LoadTypeOK /\ PoolKept /\ ChangedByOne /\ StudentsDiffer
===============================================================================

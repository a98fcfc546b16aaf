----------------------------- MODULE SystemYear -----------------------------
(***************************************************************************)
(* The year of the system, the year modules, and the careers and modules   *)
(* they are made for (year-module, modules and careers services).          *)
(*                                                                         *)
(* A change of year is started by a request that does not wait for it: it  *)
(* validates that the work of the year before is closed, makes a year      *)
(* module for each module of an active career and for FACU, SUDE and COMM, *)
(* and inserts the year.  One action stands for the code between two       *)
(* awaits that matter.  A module is named as its code.                     *)
(***************************************************************************)
EXTENDS Naturals, Sequences, SequencesExt, FiniteSetsExt

CONSTANTS
  Requests,   \* handlers that may be under way at once
  Codes,      \* module codes
  Fixed,      \* FACU, SUDE and COMM, in the order a change makes them
  Documented, \* the modules created with hasDocuments
  Asked,      \* the modules and years POST /year-module may name
  Opened,     \* the kinds of work that are opened in this instance
  Initial,    \* the careers of the initial migration
  Bodies,     \* bodies of POST /careers
  Updates,    \* what PATCH /careers/:id makes of a career
  Years,      \* the years there may be
  Next,       \* the years a change may ask for
  FirstYear,  \* the year of the initial migration
  MaxChanges, \* bound: changes of year asked for
  Failures,   \* what may go wrong, once, in this instance
  Patient     \* the tasks that are asked for only when nothing is under way

(* What a year's councils, numbers and certificates may be: a council not    *)
(* archived, a number not used, a certificate not closed, one not numbered.  *)
Work == <<"council", "number", "certificate", "unnumbered">>

(* module: moduleName and moduleCode; upper: written in capitals.            *)
Career == [name : STRING, module : Codes, upper : BOOLEAN, active : BOOLEAN]

Tasks == {"change", "yearModule", "career", "module", "folders", "work"}

ASSUME SystemYearAssumption ==
  /\ Requests \subseteq Nat
  /\ IsFiniteSet(Codes)
  /\ Fixed \in Seq({"FACU", "SUDE", "COMM"}) /\ Range(Fixed) \subseteq Codes
  /\ Fixed # <<>> /\ Bodies # {}
  /\ Documented \subseteq Codes
  /\ Initial \subseteq Career /\ Bodies \cup Updates \subseteq Career
  /\ Asked \subseteq Codes \X Years /\ Opened \subseteq Range(Work)
  /\ Next \subseteq Years /\ Years \subseteq Nat /\ FirstYear \in Years
  /\ MaxChanges \in Nat
  /\ Failures \subseteq {"drive", "restart"} /\ Patient \subseteq Tasks

VARIABLES
  systemYears,   \* the rows of system_year
  modules,       \* what each module has come to
  careers,
  yearModules,   \* year modules with the names of their submodules
  open,          \* the work of each year that is not closed
  notifications, \* the root notification of each change
  handler,
  trouble        \* what went wrong

systemYearVars ==
  <<systemYears, modules, careers, yearModules, open, notifications, handler,
    trouble>>

-------------------------------------------------------------------------------
(* The names of submodules.                                                  *)
SubNames == {"Procesos", "Consejos", "Actas de grado"}

(* by: the request that saved it (two may both save one), 0: the migration.  *)
YearModule ==
  [module : Codes, year : Years, by : Requests \cup {0},
   names : SUBSET SubNames]

(* bare: saved without a folder; kept: with one; ready: with its templates.  *)
ModuleState == {"absent", "bare", "kept", "ready"}

Notification ==
  [year : Years, status : {"IN_PROGRESS", "FAILURE", "COMPLETED"}]

(* What a change validates: that the year is new and the work is closed.     *)
Validations == {"year"} \cup Range(Work)

(* todo: the modules left to make a year module for, left: the submodules    *)
(* left of the first, or the validations left; errors: those that failed;    *)
(* root: the place of the change's notification.                             *)
Handler ==
  [task : Tasks, year : Years, root : 0..MaxChanges, todo : Seq(Codes),
   left : Seq(SubNames \cup Validations),
   errors : SUBSET (Validations \cup {"error"}), body : Bodies,
   at : {"validate", "list", "check", "row", "sub", "set", "end", "save",
         "find", "folder", "templates", "created", "insert"}]

Idle == [at |-> "idle"]

SystemYearTypeOK ==
  /\ systemYears \subseteq Years
  /\ modules \in [Codes -> ModuleState]
  /\ careers \subseteq Career
  /\ yearModules \subseteq YearModule
  /\ open \in [Years -> SUBSET Range(Work)]
  /\ notifications \in Seq(Notification)
  /\ handler \in [Requests -> Handler \cup {Idle}]
  /\ trouble \in Failures \cup {"none"}

Current == Max(systemYears)

Names(code, update) ==
  IF code = "COMM" THEN <<"Actas de grado">>
  ELSE (IF update THEN <<>> ELSE <<"Procesos">>) \o <<"Consejos">>

(* What the migrations insert: the modules, and their first year modules,    *)
(* which have no Procesos.                                                   *)
Migrated == Range(Fixed) \cup {c.module : c \in Initial}

FirstYearModules ==
  {[module |-> c, year |-> FirstYear, by |-> 0, names |-> Range(Names(c, TRUE))] :
     c \in Migrated}

SystemYearInit ==
  /\ systemYears = {FirstYear}
  /\ modules = [c \in Codes |-> IF c \in Migrated THEN "ready" ELSE "absent"]
  /\ careers = Initial
  /\ yearModules = FirstYearModules
  /\ open = [y \in Years |-> {}]
  /\ notifications = <<>>
  /\ handler = [r \in Requests |-> Idle]
  /\ trouble = "none"

Free(r) == handler[r] = Idle

(* Handlers are alike: a request takes the first that is free.               *)
MayBegin(r, task) ==
  /\ Free(r) /\ \A other \in Requests : other < r => ~Free(other)
  /\ \A other \in Requests \ {r} :
       ~Free(other) => {task, handler[other].task} \cap Patient = {}

Becomes(r, h) == handler' = [handler EXCEPT ![r] = h]

Ends(r) == Becomes(r, Idle)

Goes(r, place) == handler' = [handler EXCEPT ![r].at = place]

Doing(r, place) == ~Free(r) /\ handler[r].at = place

Begun(task, place, year, todo, body) ==
  [task |-> task, at |-> place, year |-> year, root |-> 0, todo |-> todo,
   left |-> <<>>, errors |-> {}, body |-> body]

AnyBody == CHOOSE b \in Bodies : TRUE

-------------------------------------------------------------------------------
(***************************************************************************)
(* yearModuleService.create, for the first module of todo.                 *)
(***************************************************************************)
(* Mutant of Fails: careersService goes on without the module.               *)
FailsAndGoesOn(r) ==
  CASE handler[r].task = "change" ->
         handler' = [handler EXCEPT ![r].errors = @ \cup {"error"},
                                    ![r].at = "end"]
    [] handler[r].task = "career" -> Goes(r, "templates")
    [] OTHER -> Ends(r)

(* Mutant of Fails: an error that is not a BaseError leaves the handler.     *)
FailsAtOnce(r) == Ends(r)

(* An error: a change notes it and reports; modulesService swallows it and   *)
(* careersService fails on the module it did not get; the rest only answer.  *)
Fails(r) ==
  IF handler[r].task = "change"
  THEN handler' = [handler EXCEPT ![r].errors = @ \cup {"error"},
                                  ![r].at = "end"]
  ELSE Ends(r)

YearModulesOf(code, year) ==
  {y \in yearModules : y.module = code /\ y.year = year}

CheckYearModule(r) ==
  LET h == handler[r] IN
  /\ Doing(r, "check")
  /\ IF YearModulesOf(Head(h.todo), h.year) = {}
     THEN Goes(r, "row") ELSE Fails(r)
  /\ UNCHANGED <<systemYears, modules, careers, yearModules, open,
                 notifications, trouble>>

SaveYearModule(r) ==
  LET h == handler[r] IN
  /\ Doing(r, "row")
  /\ yearModules' = yearModules \cup
       {[module |-> Head(h.todo), year |-> h.year, by |-> r, names |-> {}]}
  /\ handler' =
       [handler EXCEPT ![r].at = "sub",
                       ![r].left = Names(Head(h.todo), h.task = "change")]
  /\ UNCHANGED <<systemYears, modules, careers, open, notifications, trouble>>

(* What follows the last submodule of a module.                              *)
After(h) ==
  LET rest == Tail(h.todo) IN
  CASE rest # <<>> /\ h.task = "change" ->
         [h EXCEPT !.todo = rest, !.at = "check"]
    [] rest # <<>> /\ h.task = "folders" ->
         [h EXCEPT !.todo = rest, !.at = "folder"]
    [] rest = <<>> /\ h.task = "change" ->
         [h EXCEPT !.todo = <<>>, !.at = "set"]
    [] h.task = "career" -> [h EXCEPT !.at = "templates"]
    [] OTHER -> Idle

SaveSubmodule(r) ==
  LET h == handler[r]
      mine == CHOOSE y \in YearModulesOf(Head(h.todo), h.year) : y.by = r
      left == [h EXCEPT !.left = Tail(@)]
  IN
  /\ Doing(r, "sub")
  /\ yearModules' = (yearModules \ {mine})
                      \cup {[mine EXCEPT !.names = @ \cup {Head(h.left)}]}
  /\ Becomes(r, IF left.left = <<>> THEN After(left) ELSE left)
  /\ UNCHANGED <<systemYears, modules, careers, open, notifications, trouble>>

(* Drive refuses a folder, whose row is not saved then.                      *)
DriveRefuses(r) ==
  /\ "drive" \in Failures /\ trouble = "none" /\ trouble' = "drive"
  /\ ~Free(r) /\ handler[r].at \in {"row", "sub", "folder", "templates"}
  /\ Fails(r)
  /\ UNCHANGED <<systemYears, modules, careers, yearModules, open,
                 notifications>>

(* POST /year-module                                                         *)
BeginYearModule(r, asked) ==
  /\ MayBegin(r, "yearModule")
  /\ modules[asked[1]] # "absent"
  /\ Becomes(r, Begun("yearModule", "check", asked[2], <<asked[1]>>, AnyBody))
  /\ UNCHANGED <<systemYears, modules, careers, yearModules, open,
                 notifications, trouble>>

-------------------------------------------------------------------------------
(***************************************************************************)
(* updateSystemYear.                                                       *)
(***************************************************************************)
BeginChange(r, year) ==
  /\ MayBegin(r, "change")
  /\ Len(notifications) < MaxChanges
  /\ notifications' =
       Append(notifications, [year |-> year, status |-> "IN_PROGRESS"])
  /\ Becomes(r, [Begun("change", "validate", year, <<>>, AnyBody)
                   EXCEPT !.left = <<"year">> \o Work,
                          !.root = Len(notifications) + 1])
  /\ UNCHANGED <<systemYears, modules, careers, yearModules, open, trouble>>

(* What the next validation, one of five, finds of the year before.          *)
Finds(what, year) ==
  IF what = "year" THEN year \in systemYears
  ELSE year - 1 \in Years /\ what \in open[year - 1]

(* left holds the validations left; all are made, whatever they find.        *)
Validate(r) ==
  LET h == handler[r]
      found == IF Finds(Head(h.left), h.year) THEN {Head(h.left)} ELSE {}
      errors == h.errors \cup found
  IN
  /\ Doing(r, "validate")
  /\ handler' =
       [handler EXCEPT ![r].left = Tail(@), ![r].errors = errors,
          ![r].at = IF Len(h.left) > 1 THEN "validate"
                    ELSE IF errors = {} THEN "list" ELSE "end"]
  /\ UNCHANGED <<systemYears, modules, careers, yearModules, open,
                 notifications, trouble>>

Active == {c \in careers : c.active}

(* Mutant of OfCareers: only the modules that have their templates.          *)
OfCareersReady ==
  {c.module : c \in {x \in Active : x.upper /\ modules[x.module] = "ready"}}

(* The active modules that bear the name some active career gives.           *)
OfCareers ==
  {c.module : c \in {x \in Active : x.upper /\ modules[x.module] # "absent"}}

ListModules(r) ==
  /\ Doing(r, "list")
  /\ IF Current = handler[r].year - 1
     THEN \E order \in SetToSeqs(OfCareers) :
            handler' = [handler EXCEPT ![r].todo = order \o Fixed,
                                       ![r].at = "check"]
     ELSE Fails(r)
  /\ UNCHANGED <<systemYears, modules, careers, yearModules, open,
                 notifications, trouble>>

(* The row is looked up and inserted; its key refuses a second one.          *)
SetYear(r) ==
  /\ Doing(r, "set")
  /\ IF handler[r].year \in systemYears
     THEN Fails(r) /\ UNCHANGED systemYears
     ELSE /\ systemYears' = systemYears \cup {handler[r].year}
          /\ Goes(r, "end")
  /\ UNCHANGED <<modules, careers, yearModules, open, notifications, trouble>>

EndChange(r) ==
  LET h == handler[r] IN
  /\ Doing(r, "end")
  /\ notifications' =
       [notifications EXCEPT ![h.root].status =
          IF h.errors = {} THEN "COMPLETED" ELSE "FAILURE"]
  /\ Ends(r)
  /\ UNCHANGED <<systemYears, modules, careers, yearModules, open, trouble>>

-------------------------------------------------------------------------------
(***************************************************************************)
(* careersService.create and update; modulesService.create and setFolders. *)
(***************************************************************************)
BeginCareer(r, body) ==
  /\ MayBegin(r, "career")
  /\ ~(body.active /\ \E c \in Active : c.name = body.name)
  /\ Becomes(r, Begun("career", "save", Current, <<body.module>>, body))
  /\ UNCHANGED <<systemYears, modules, careers, yearModules, open,
                 notifications, trouble>>

SaveCareer(r) ==
  /\ Doing(r, "save")
  /\ careers' = careers \cup {handler[r].body}
  /\ Goes(r, "find")
  /\ UNCHANGED <<systemYears, modules, yearModules, open, notifications,
                 trouble>>

(* POST /modules                                                             *)
BeginModule(r, code) ==
  /\ MayBegin(r, "module")
  /\ Becomes(r, Begun("module", "find", Current, <<code>>, AnyBody))
  /\ UNCHANGED <<systemYears, modules, careers, yearModules, open,
                 notifications, trouble>>

SaveModule(r) ==
  LET code == Head(handler[r].todo) IN
  /\ Doing(r, "find")
  /\ IF modules[code] # "absent"
     THEN Fails(r) /\ UNCHANGED modules
     ELSE /\ modules' = [modules EXCEPT ![code] = "bare"]
          /\ Goes(r, "folder")
  /\ UNCHANGED <<systemYears, careers, yearModules, open, notifications,
                 trouble>>

(* setFolders asks for the modules whose driveId is null, which TypeORM      *)
(* leaves out of the condition: it lists them all.                           *)
BeginFolders(r) ==
  LET listed == {c \in Documented : modules[c] # "absent"} IN
  /\ MayBegin(r, "folders") /\ listed # {}
  /\ \E order \in SetToSeqs(listed) :
       Becomes(r, Begun("folders", "folder", Current, order, AnyBody))
  /\ UNCHANGED <<systemYears, modules, careers, yearModules, open,
                 notifications, trouble>>

(* The folder, its place in the row, and the year that is current then.      *)
SetFolder(r) ==
  LET code == Head(handler[r].todo) IN
  /\ Doing(r, "folder")
  /\ modules' = [modules EXCEPT ![code] = IF @ = "bare" THEN "kept" ELSE @]
  /\ handler' = [handler EXCEPT ![r].at = "check", ![r].year = Current]
  /\ UNCHANGED <<systemYears, careers, yearModules, open, notifications,
                 trouble>>

(* The templates are copied from the module of another active career.        *)
CopyTemplates(r) ==
  LET body == handler[r].body
      sources == Active \ {body}
      Found(c) == c.upper /\ modules[c.module] # "absent"
  IN
  /\ Doing(r, "templates")
  /\ \/ /\ sources = {} \/ \E c \in sources : ~Found(c)
        /\ Ends(r) /\ UNCHANGED modules
     \/ /\ \E c \in sources : Found(c)
        /\ modules' = [modules EXCEPT ![body.module] = "ready"]
        /\ Goes(r, "created")
  /\ UNCHANGED <<systemYears, careers, yearModules, open, notifications,
                 trouble>>

Answer(r) ==
  /\ Doing(r, "created") /\ Ends(r)
  /\ UNCHANGED <<systemYears, modules, careers, yearModules, open,
                 notifications, trouble>>

(* PATCH /careers/:id changes all but the name, and looks at no other career.*)
UpdateCareer(c, new) ==
  /\ c \in careers /\ new.name = c.name /\ new # c
  /\ "career" \in Patient => \A r \in Requests : Free(r)
  /\ careers' = (careers \ {c}) \cup {new}
  /\ UNCHANGED <<systemYears, modules, yearModules, open, notifications,
                 handler, trouble>>

-------------------------------------------------------------------------------
(***************************************************************************)
(* The work of a year, as councils, numbers and certificates are created:  *)
(* the current year and its submodule are read, and then it is saved.      *)
(***************************************************************************)
Place(what) ==
  IF what \in {"certificate", "unnumbered"} THEN "Actas de grado"
  ELSE "Consejos"

BeginWork(r, what) ==
  /\ MayBegin(r, "work")
  /\ \E y \in yearModules : y.year = Current /\ Place(what) \in y.names
  /\ Becomes(r, [Begun("work", "insert", Current, <<>>, AnyBody)
                   EXCEPT !.left = <<what>>])
  /\ UNCHANGED <<systemYears, modules, careers, yearModules, open,
                 notifications, trouble>>

SaveWork(r) ==
  LET h == handler[r] IN
  /\ Doing(r, "insert")
  /\ open' = [open EXCEPT ![h.year] = @ \cup {Head(h.left)}]
  /\ Ends(r)
  /\ UNCHANGED <<systemYears, modules, careers, yearModules, notifications,
                 trouble>>

(* A council archived, a number used, a certificate closed or numbered.      *)
CloseWork(year, what) ==
  /\ what \in open[year]
  /\ open' = [open EXCEPT ![year] = @ \ {what}]
  /\ UNCHANGED <<systemYears, modules, careers, yearModules, notifications,
                 handler, trouble>>

-------------------------------------------------------------------------------
Stop ==
  /\ "restart" \in Failures /\ trouble = "none" /\ trouble' = "restart"
  /\ handler' = [r \in Requests |-> Idle]
  /\ UNCHANGED <<systemYears, modules, careers, yearModules, open,
                 notifications>>

Begin(r) ==
  \/ \E year \in Next : BeginChange(r, year)
  \/ \E asked \in Asked : BeginYearModule(r, asked)
  \/ \E body \in Bodies : BeginCareer(r, body)
  \/ \E code \in Documented : BeginModule(r, code)
  \/ BeginFolders(r)
  \/ \E what \in Opened : BeginWork(r, what)

Continue(r) ==
  \/ CheckYearModule(r) \/ SaveYearModule(r) \/ SaveSubmodule(r)
  \/ Validate(r) \/ ListModules(r) \/ SetYear(r) \/ EndChange(r)
  \/ SaveCareer(r) \/ SaveModule(r) \/ SetFolder(r) \/ CopyTemplates(r)
  \/ Answer(r) \/ SaveWork(r)

SystemYearNext ==
  \/ \E r \in Requests : Begin(r) \/ Continue(r) \/ DriveRefuses(r)
  \/ \E c \in careers, new \in Updates : UpdateCareer(c, new)
  \/ \E year \in Years, what \in Opened : CloseWork(year, what)
  \/ Stop

SystemYearSpec == SystemYearInit /\ [][SystemYearNext]_systemYearVars

(* Drive and the database answer, with a refusal or without.                 *)
FairSystemYearSpec ==
  SystemYearSpec /\ \A r \in Requests : WF_systemYearVars(Continue(r))

-------------------------------------------------------------------------------
(***************************************************************************)
(* Properties.                                                             *)
(***************************************************************************)
HasYear(code, year) ==
  \E y \in YearModulesOf(code, year) :
    Range(Names(code, TRUE)) \subseteq y.names

(* The year goes from one to the next, whatever is asked for and however     *)
(* many ask for it at once (the check of prepareToUpdateSystemYear).         *)
NoYearSkipped == systemYears = FirstYear..Current

(* When the year changes, the modules of the active careers and of the       *)
(* faculty have everything a council or a certificate of the new year looks  *)
(* for: another change half made, a refusal of Drive, or a restart never     *)
(* lets the year begin without it (prepareToUpdateSystemYear).               *)
YearPrepared ==
  [][systemYears' # systemYears =>
       /\ \A c \in careers :
            c.active /\ c.upper /\ modules[c.module] # "absent" =>
              HasYear(c.module, Max(systemYears'))
       /\ \A code \in Range(Fixed) : HasYear(code, Max(systemYears'))
    ]_systemYearVars

(* A change reported as completed did make its year (updateSystemYear).      *)
CompletedBegan ==
  \A i \in DOMAIN notifications :
    notifications[i].status = "COMPLETED" =>
      notifications[i].year \in systemYears

(* A career is answered as created only with a module that has its folder    *)
(* and its place in the year, though modulesService swallows every error.    *)
CareerHasModule ==
  \A r \in Requests :
    Doing(r, "created") =>
      /\ modules[handler[r].body.module] = "ready"
      /\ \E year \in systemYears : HasYear(handler[r].body.module, year)

(* The notification of a change does not stay in progress, unless the        *)
(* process was stopped.                                                      *)
ChangeReported ==
  \A i \in 1..MaxChanges :
    i \in DOMAIN notifications ~>
      /\ i \in DOMAIN notifications
      /\ notifications[i].status # "IN_PROGRESS" \/ trouble = "restart"

(* Years follow each other, and what a notification or an answer says was    *)
(* made is there.                                                            *)
SystemYearInv ==
  SystemYearTypeOK /\ NoYearSkipped /\ CompletedBegan /\ CareerHasModule
===============================================================================

------------------------------- MODULE Councils -------------------------------
(***************************************************************************)
(* Councils, their members and the default members of a module             *)
(* (councils.service.ts and the council-attendance module).                *)
(*                                                                         *)
(* A handler works through awaits, one action between two of them; the     *)
(* members of a council, and the changes of the default members, are saved *)
(* in parallel by tasks of their own.  When one of them fails the handler  *)
(* answers, and the others go on.  What marks a member (notified, attended)*)
(* is left out: nothing here reads it.                                     *)
(***************************************************************************)
EXTENDS Naturals, Sequences, FiniteSetsExt

CONSTANTS
  Requests,   \* handlers that may be under way at once
  Councils,   \* council ids
  Modules,
  Students,   \* persons that sit as students
  Persons,    \* all persons a body may name
  Registered, \* those with a row of their own
  Creations,  \* bodies of POST /councils
  Updates,    \* bodies of PATCH /councils/:id
  Changes,    \* bodies of the default members of a module
  Hour,       \* TIMES.AN_HOUR, in the unit of the dates
  Failures,   \* what may fail in this instance
  Patient     \* whether a request begins only when nothing is under way

(* members: by position.  date 0: left as it is.                             *)
Creation == [date : Nat \ {0}, module : Modules, members : Seq(Persons)]

Update == [date : Nat, rename : BOOLEAN,
           members : SUBSET [position : Nat, person : Persons]]

(* Rows of attendance have one sequence of ids: a change names a default     *)
(* member by id, or, with a council, the member that has id for position.    *)
Change == [action : {"create", "update", "delete"}, id : Nat,
           council : Councils \cup {0}, person : Persons]

(* drive: Drive refuses; year: the module has no folder for the year;        *)
(* restart: the process is stopped and started again.                        *)
ASSUME CouncilsAssumption ==
  /\ Councils \subseteq Nat \ {0} /\ Hour \in Nat
  /\ Students \subseteq Persons /\ Registered \subseteq Persons
  /\ Creations \subseteq Creation /\ Updates \subseteq Update
  /\ Changes \subseteq SUBSET Change
  /\ Failures \subseteq {"drive", "year", "restart"}
  /\ Patient \in BOOLEAN

VARIABLES
  councils,   \* the council saved under each id, or NoCouncil
  folders,    \* the name of each council's folder on Drive
  attendance, \* the members of councils
  defaults,   \* the default members of the module
  handler,    \* the handler of each request
  tasks       \* the members and changes that are being saved

councilsVars == <<councils, folders, attendance, defaults, handler, tasks>>

-------------------------------------------------------------------------------
(* Names are numbered: a council is renamed from old to new.                 *)
Council == [date : Nat \ {0}, module : Modules, name : {"old", "new"}]

NoCouncil == [date |-> 0]

(* A row has a reference to a functionary and one to a student.              *)
Member == [council : Councils, position : Nat, people : SUBSET Persons]

DefaultMember == [id : Nat, person : Persons]

(* What a handler saves in parallel; list: the default members it has read.  *)
Task ==
       [of : Requests, kind : {"create", "update"}, council : Councils,
        position : Nat, person : Persons]
  \cup [of : Requests, kind : {"default"}, change : Change,
        list : SUBSET DefaultMember]

(* done: answered with success; a refusal leaves the handler idle.           *)
Handler ==
       {[at |-> "idle"]}
  \cup [at : {"folder"}, body : Creations]
  \cup [at : {"save"}, body : Creations]
  \cup [at : {"members", "done"}, council : Councils, body : Creations]
  \cup [at : {"rename", "update", "updateMembers"}, council : Councils,
        body : Updates]
  \cup [at : {"defaults"}]

CouncilsTypeOK ==
  /\ councils \in [Councils -> Council \cup {NoCouncil}]
  /\ folders \in [Councils -> {"none", "old", "new"}]
  /\ attendance \subseteq Member
  /\ defaults \subseteq DefaultMember
  /\ handler \in [Requests -> Handler]
  /\ tasks \subseteq Task

Idle == [at |-> "idle"]

CouncilsInit ==
  /\ councils = [c \in Councils |-> NoCouncil]
  /\ folders = [c \in Councils |-> "none"]
  /\ attendance = {} /\ defaults = {}
  /\ handler = [r \in Requests |-> Idle]
  /\ tasks = {}

Free(r) == handler[r].at = "idle"

MayBegin(r) ==
  /\ Free(r)
  /\ Patient => tasks = {} /\ \A other \in Requests : Free(other)

Becomes(r, h) == handler' = [handler EXCEPT ![r] = h]

Held == {c \in Councils : councils[c] # NoCouncil}

TasksOf(r) == {t \in tasks : t.of = r}

PeopleOf(c) == UNION {m.people : m \in {x \in attendance : x.council = c}}

(* One sits as a functionary and the other as a student.                     *)
Switches(old, person) == (old \in Students) # (person \in Students)

-------------------------------------------------------------------------------
(***************************************************************************)
(* create.                                                                 *)
(***************************************************************************)
Seated(body) == Range(body.members)

(* CouncilsThatOverlapValidator: a council of the module in the hour up to   *)
(* the date has one of the functionaries, or a council of any module and     *)
(* date one of the students.                                                 *)
Overlaps(body) ==
  \E c \in Held :
    LET shared == PeopleOf(c) \cap Seated(body) IN
    \/ /\ councils[c].date <= body.date /\ body.date <= councils[c].date + Hour
       /\ councils[c].module = body.module
       /\ shared \ Students # {}
    \/ shared \cap Students # {}

BeginCreation(r, body) ==
  /\ MayBegin(r) /\ Held # Councils
  /\ ~ Overlaps(body)
  /\ Becomes(r, [at |-> "folder", body |-> body])
  /\ UNCHANGED <<councils, folders, attendance, defaults, tasks>>

(* The year module and its submodule are looked up, the folder is made.      *)
CreateFolder(r) ==
  /\ handler[r].at = "folder"
  /\ \/ Becomes(r, [at |-> "save", body |-> handler[r].body])
     \/ {"drive", "year"} \cap Failures # {} /\ Becomes(r, Idle)
  /\ UNCHANGED <<councils, folders, attendance, defaults, tasks>>

Repeated(members) == Cardinality(Range(members)) # Len(members)

(* The council is saved; only then its members are looked at.                *)
SaveCouncil(r) ==
  LET body == handler[r].body
      c == Min(Councils \ Held)
  IN
  /\ handler[r].at = "save" /\ Held # Councils
  /\ councils' = [councils EXCEPT ![c] =
       [date |-> body.date, module |-> body.module, name |-> "old"]]
  /\ folders' = [folders EXCEPT ![c] = "old"]
  /\ IF Repeated(body.members)
     THEN Becomes(r, Idle) /\ UNCHANGED tasks
     ELSE /\ Becomes(r, [at |-> "members", council |-> c, body |-> body])
          /\ tasks' = tasks \cup
               {[of |-> r, kind |-> "create", council |-> c, position |-> i,
                 person |-> body.members[i]] : i \in DOMAIN body.members}
  /\ UNCHANGED <<attendance, defaults>>

(* Mutant of SaveMember: the promise of a person that does not exist never   *)
(* settles.                                                                  *)
SaveMemberHangs(t) ==
  /\ t.kind = "create" /\ t.person \in Registered
  /\ tasks' = tasks \ {t}
  /\ attendance' = attendance \cup
       {[council |-> t.council, position |-> t.position, people |-> {t.person}]}
  /\ UNCHANGED <<councils, folders, defaults, handler>>

(* A person is looked up, and saved as a member.                             *)
SaveMember(t) ==
  /\ t.kind = "create"
  /\ tasks' = tasks \ {t}
  /\ IF t.person \in Registered
     THEN /\ attendance' = attendance \cup
               {[council |-> t.council, position |-> t.position,
                 people |-> {t.person}]}
          /\ UNCHANGED handler
     ELSE /\ IF handler[t.of].at = "members"
             THEN Becomes(t.of, Idle) ELSE UNCHANGED handler
          /\ UNCHANGED attendance
  /\ UNCHANGED <<councils, folders, defaults>>

(* Mutant of EndCreation: the members are not awaited.                       *)
EndCreationAtOnce(r) ==
  /\ handler[r].at = "members"
  /\ Becomes(r, [handler[r] EXCEPT !.at = "done"])
  /\ UNCHANGED <<councils, folders, attendance, defaults, tasks>>

EndCreation(r) ==
  /\ handler[r].at = "members" /\ TasksOf(r) = {}
  /\ Becomes(r, [handler[r] EXCEPT !.at = "done"])
  /\ UNCHANGED <<councils, folders, attendance, defaults, tasks>>

(* The answer is sent.                                                       *)
Answer(r) ==
  /\ handler[r].at = "done"
  /\ Becomes(r, Idle)
  /\ UNCHANGED <<councils, folders, attendance, defaults, tasks>>

-------------------------------------------------------------------------------
(***************************************************************************)
(* update.                                                                 *)
(***************************************************************************)

(* The process ends, with all that was under way, and starts again.          *)
ProcessEnds ==
  /\ handler' = [r \in Requests |-> Idle]
  /\ tasks' = {}
  /\ UNCHANGED <<councils, folders, attendance, defaults>>

BeginUpdate(r, c, body) ==
  /\ MayBegin(r) /\ c \in Held
  /\ Becomes(r, [at |-> "rename", council |-> c, body |-> body])
  /\ UNCHANGED <<councils, folders, attendance, defaults, tasks>>

(* The folder is renamed; then the members begin to be saved, and the        *)
(* handler goes on to the council without awaiting them.                     *)
RenameFolder(r) ==
  LET h == handler[r] IN
  /\ h.at = "rename"
  /\ \/ /\ folders' = IF h.body.rename
                      THEN [folders EXCEPT ![h.council] = "new"] ELSE folders
        /\ tasks' = tasks \cup
             {[of |-> r, kind |-> "update", council |-> h.council,
               position |-> m.position, person |-> m.person] :
                m \in h.body.members}
        /\ Becomes(r, [h EXCEPT !.at = "update"])
     \/ /\ h.body.rename /\ "drive" \in Failures
        /\ Becomes(r, Idle)
        /\ UNCHANGED <<folders, tasks>>
  /\ UNCHANGED <<councils, attendance, defaults>>

(* The row with the position takes the person, in the place of one of the    *)
(* same kind: the reference of the other kind stays.  When there is no row,  *)
(* or no such person, the promise is rejected: while nobody awaits it, that  *)
(* is until the council is saved, an unhandled rejection ends the process.   *)
UpdateMember(t) ==
  LET old == {m \in attendance : m.council = t.council /\ m.position = t.position}
  IN
  /\ t.kind = "update"
  /\ IF t.person \in Registered /\ old # {}
     THEN /\ attendance' = (attendance \ old) \cup
               {[m EXCEPT !.people =
                   {p \in @ : Switches(p, t.person)} \cup {t.person}] : m \in old}
          /\ tasks' = tasks \ {t}
          /\ UNCHANGED <<councils, folders, defaults, handler>>
     ELSE IF handler[t.of].at = "update"
     THEN ProcessEnds
     ELSE /\ tasks' = tasks \ {t}
          /\ IF handler[t.of].at = "updateMembers"
             THEN Becomes(t.of, Idle) ELSE UNCHANGED handler
          /\ UNCHANGED <<councils, folders, attendance, defaults>>

(* The council is saved; a new date makes its documents be generated again   *)
(* (Regeneration).                                                           *)
SaveUpdate(r) ==
  LET h == handler[r]
      old == councils[h.council]
  IN
  /\ h.at = "update"
  /\ councils' = [councils EXCEPT ![h.council] =
       [old EXCEPT !.date = IF h.body.date = 0 THEN @ ELSE h.body.date,
                   !.name = IF h.body.rename THEN "new" ELSE @]]
  /\ Becomes(r, [h EXCEPT !.at = "updateMembers"])
  /\ UNCHANGED <<folders, attendance, defaults, tasks>>

EndUpdate(r) ==
  /\ handler[r].at = "updateMembers" /\ TasksOf(r) = {}
  /\ Becomes(r, Idle)
  /\ UNCHANGED <<councils, folders, attendance, defaults, tasks>>

-------------------------------------------------------------------------------
(***************************************************************************)
(* handleDefaultMembersManipulation.                                       *)
(***************************************************************************)

(* The default members are read once; deletions, changes and creations go on *)
(* side by side, with that list.                                             *)
BeginChanges(r, changes) ==
  /\ MayBegin(r)
  /\ Becomes(r, [at |-> "defaults"])
  /\ tasks' = tasks \cup
       {[of |-> r, kind |-> "default", change |-> x, list |-> defaults] :
          x \in changes}
  /\ UNCHANGED <<councils, folders, attendance, defaults>>

InList(list, person) == \E m \in list : m.person = person

(* The rows that a change names.  The ids are looked up in the whole table:  *)
(* the members of councils are among them.                                   *)
Row(x) ==
  IF x.action = "create" \/ x.council # 0 THEN {} ELSE {m \in defaults : m.id = x.id}

SeatsOf(x) ==
  IF x.action = "create" THEN {}
  ELSE {m \in attendance : m.council = x.council /\ m.position = x.id}

(* UpdateDefaultMemberStrategy: the person of a row only changes when a      *)
(* student takes the place of a functionary, or the other way round.         *)
Brought(x) ==
  \/ x.action = "create"
  \/ /\ x.action = "update"
     /\ \/ \E m \in Row(x) : Switches(m.person, x.person)
        \/ \E m \in SeatsOf(x) : \E p \in m.people : Switches(p, x.person)

(* What is refused: to bring a person of the list that was read, or one that *)
(* does not exist, and to update a row that is not there.                    *)
Refuses(t) ==
  LET x == t.change IN
  \/ Brought(x) /\ (InList(t.list, x.person) \/ x.person \notin Registered)
  \/ x.action = "update" /\ Row(x) = {} /\ SeatsOf(x) = {}

(* An id that no row has, and none had when a request under way read them.   *)
NewId ==
  LET known == UNION ({defaults} \cup
                      {t.list : t \in {x \in tasks : x.kind = "default"}})
      ids == {m.id : m \in known}
  IN  Min((1 .. Cardinality(ids) + 1) \ ids)

(* The rows that a change puts in the place of those that it names.          *)
Added(x) ==
  CASE x.action = "create" -> {[id |-> NewId, person |-> x.person]}
    [] x.action = "update" ->
         {IF Brought(x) THEN [m EXCEPT !.person = x.person] ELSE m : m \in Row(x)}
    [] x.action = "delete" -> {}

AddedSeats(x) ==
  IF x.action # "update" THEN {}
  ELSE {IF Brought(x) THEN [m EXCEPT !.people = {x.person}] ELSE m : m \in SeatsOf(x)}

RunChange(t) ==
  /\ t.kind = "default"
  /\ tasks' = tasks \ {t}
  /\ IF Refuses(t)
     THEN /\ IF handler[t.of].at = "defaults"
             THEN Becomes(t.of, Idle) ELSE UNCHANGED handler
          /\ UNCHANGED <<defaults, attendance>>
     ELSE /\ defaults' = (defaults \ Row(t.change)) \cup Added(t.change)
          /\ attendance' = (attendance \ SeatsOf(t.change)) \cup AddedSeats(t.change)
          /\ UNCHANGED handler
  /\ UNCHANGED <<councils, folders>>

EndChanges(r) ==
  /\ handler[r].at = "defaults" /\ TasksOf(r) = {}
  /\ Becomes(r, Idle)
  /\ UNCHANGED <<councils, folders, attendance, defaults, tasks>>

-------------------------------------------------------------------------------
(***************************************************************************)
(* The specification.                                                      *)
(***************************************************************************)
Begin(r) ==
  \/ \E body \in Creations : BeginCreation(r, body)
  \/ \E c \in Councils, body \in Updates : BeginUpdate(r, c, body)
  \/ \E changes \in Changes : BeginChanges(r, changes)

Handle(r) ==
  \/ CreateFolder(r) \/ SaveCouncil(r) \/ EndCreation(r) \/ Answer(r)
  \/ RenameFolder(r) \/ SaveUpdate(r) \/ EndUpdate(r)
  \/ EndChanges(r)

Run(t) == SaveMember(t) \/ UpdateMember(t) \/ RunChange(t)

Restart == "restart" \in Failures /\ ProcessEnds

CouncilsNext ==
  \/ \E r \in Requests : Begin(r) \/ Handle(r)
  \/ \E t \in tasks : Run(t)
  \/ Restart

CouncilsSpec == CouncilsInit /\ [][CouncilsNext]_councilsVars

(* The database answers and Drive does, with a refusal or without.           *)
FairCouncilsSpec ==
  /\ CouncilsSpec
  /\ \A r \in Requests : WF_councilsVars(Handle(r))
  /\ WF_councilsVars(\E t \in tasks : Run(t))

-------------------------------------------------------------------------------
(***************************************************************************)
(* Properties.                                                             *)
(***************************************************************************)

(* A creation that was answered with success has its folder and every member *)
(* of its body in its place, whatever order they were saved in.              *)
CreatedComplete ==
  \A r \in Requests :
    handler[r].at = "done" =>
      LET c == handler[r].council
          members == handler[r].body.members
      IN  /\ folders[c] # "none"
          /\ \A i \in DOMAIN members :
               \E m \in attendance : /\ m.council = c /\ m.position = i
                                    /\ m.people = {members[i]}
          /\ Cardinality(PeopleOf(c)) = Len(members)

(* No person is twice in the list of default members, as long as a request   *)
(* names a person once, although its changes run side by side.               *)
DefaultsDistinct ==
  \A m, other \in defaults : m.person = other.person => m = other

(* Every request is answered.                                                *)
CouncilsAnswered ==
  \A r \in Requests : ~ Free(r) ~> Free(r)

(* The members of a council, and those by default, are the ones asked for.   *)
CouncilsInv == CouncilsTypeOK /\ CreatedComplete /\ DefaultsDistinct
===============================================================================

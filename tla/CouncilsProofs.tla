----------------------------- MODULE CouncilsProofs ----------------------------
(***************************************************************************)
(* What holds of Councils for any bodies, persons and failures, when no    *)
(* request begins before another has ended.  A creation that is under way  *)
(* has each of its members in its seat or about to be saved (SeatsInv);    *)
(* and no two changes of the default members bring the same person, nor    *)
(* one that has come since the list was read (DefaultsInv).                *)
(***************************************************************************)
EXTENDS Councils, TLAPS, FiniteSetTheorems, WellFoundedInduction

-------------------------------------------------------------------------------
(***************************************************************************)
(* Sets of numbers.                                                        *)
(***************************************************************************)

(* Every set of numbers has a least one.                                     *)
LEMMA LeastOf ==
  ASSUME NEW T \in SUBSET Nat, T # {}
  PROVE  \E x \in T : \A y \in T : x <= y
<1> DEFINE R == OpToRel(<, Nat)
<1>1. IsWellFoundedOn(R, Nat)
  BY NatLessThanWellFounded
<1>2. PICK x \in T : \A y \in T : ~ (<<y, x>> \in R)
  <2> HIDE DEF R
  <2> QED
    BY <1>1, WFMin
<1>3. \A y \in T : ~ (y < x)
  BY <1>2 DEF OpToRel
<1> QED
  BY <1>3

(* The minimum of a set of numbers is in it.                                 *)
LEMMA MinOf ==
  ASSUME NEW T \in SUBSET Nat, T # {}
  PROVE  Min(T) \in T /\ \A y \in T : Min(T) <= y
<1>1. \E x \in T : \A y \in T : x <= y
  BY LeastOf
<1> QED
  BY <1>1 DEF Min

-------------------------------------------------------------------------------
(* Every body of changes names a person for one of them only.                *)
NamedOnce ==
  \A changes \in Changes : \A x, y \in changes :
    /\ x.action # "delete" /\ y.action # "delete" /\ x.person = y.person
    => x = y

-------------------------------------------------------------------------------
(***************************************************************************)
(* The invariant.                                                          *)
(***************************************************************************)

(* One request is at work, and what is being saved was begun by it.          *)
AloneInv ==
  /\ \A r, other \in Requests : ~ Free(r) /\ ~ Free(other) => r = other
  /\ \A t \in tasks, r \in Requests : ~ Free(r) => t.of = r
  /\ \A t, other \in tasks : t.of = other.of

(* What is being saved for a handler that is at h, or has answered.          *)
Fits(t, h) ==
  /\ t.kind = "create" =>
       /\ t.council \in Held /\ h.at \in {"idle", "members"}
       /\ h.at = "members" => /\ t.council = h.council
                              /\ t.position \in DOMAIN h.body.members
                              /\ t.person = h.body.members[t.position]
  /\ t.kind = "update" => h.at \in {"idle", "update", "updateMembers"}
  /\ t.kind = "default" => h.at \in {"idle", "defaults"}

TasksInv == \A t \in tasks : Fits(t, handler[t.of])

(* Members are of councils that are there, and these have their folder.      *)
RowsInv ==
  /\ \A m \in attendance : m.council \in Held
  /\ \A c \in Held : folders[c] # "none"

(* The council a handler works on is there.                                  *)
Holds(h) ==
  h.at \in {"members", "done", "rename", "update", "updateMembers"} =>
    h.council \in Held

HoldsInv == \A r \in Requests : Holds(handler[r])

Seat(c, i, p) ==
  \E m \in attendance : m.council = c /\ m.position = i /\ m.people = {p}

(* A new council has members of its body only, each in its place or about to *)
(* be saved.                                                                 *)
Seats(h) ==
  h.at \in {"members", "done"} =>
    /\ ~ Repeated(h.body.members)
    /\ \A m \in attendance : m.council = h.council =>
         m.position \in DOMAIN h.body.members /\ m.people = {h.body.members[m.position]}
    /\ \A i \in DOMAIN h.body.members :
         \/ Seat(h.council, i, h.body.members[i])
         \/ \E t \in tasks : t.kind = "create" /\ t.position = i

SeatsInv == \A r \in Requests : Seats(handler[r])

(* What brings a person to the default members.                              *)
Brings(t) == t.kind = "default" /\ t.change.action # "delete"

(* The rows have distinct ids.  When a body names a person once, no two      *)
(* changes bring the same person, and none one that has come since the list  *)
(* was read.                                                                 *)
DefaultsInv ==
  /\ IsFiniteSet(defaults)
  /\ \A m, other \in defaults : m.id = other.id => m = other
  /\ \A t, u \in tasks : t.kind = "default" /\ u.kind = "default" => t.list = u.list
  /\ \A t \in tasks : t.kind = "default" => IsFiniteSet(t.list)
  /\ NamedOnce =>
       /\ DefaultsDistinct
       /\ \A t, u \in tasks :
            Brings(t) /\ Brings(u) /\ t.change.person = u.change.person => t = u
       /\ \A t \in tasks : Brings(t) =>
            \/ InList(t.list, t.change.person)
            \/ \A m \in defaults : m.person # t.change.person

CouncilInv ==
  /\ AloneInv /\ TasksInv /\ RowsInv /\ HoldsInv /\ SeatsInv /\ DefaultsInv

LEMMA CouncilInit ==
  ASSUME CouncilsInit
  PROVE  CouncilsTypeOK /\ CouncilInv
<1>1. Idle \in Handler /\ Idle.at = "idle"
  BY DEF Idle, Handler
<1>2. CouncilsTypeOK
  BY <1>1 DEF CouncilsInit, CouncilsTypeOK
<1>3. \A r \in Requests : handler[r] = Idle
  BY DEF CouncilsInit
<1>4. Held = {}
  BY DEF CouncilsInit, Held
<1>5. AloneInv /\ TasksInv /\ RowsInv /\ HoldsInv /\ SeatsInv
  BY <1>1, <1>3, <1>4 DEF CouncilsInit, AloneInv, TasksInv, RowsInv, HoldsInv, SeatsInv,
     Free, Holds, Seats
<1>6. DefaultsInv
  BY FS_EmptySet DEF CouncilsInit, DefaultsInv, DefaultsDistinct
<1> QED
  BY <1>2, <1>5, <1>6 DEF CouncilInv

-------------------------------------------------------------------------------
(***************************************************************************)
(* What handlers and tasks are made of.                                    *)
(***************************************************************************)

LEMMA HandlerIs ==
  ASSUME NEW h \in Handler
  PROVE  /\ h.at \in {"folder", "save"} => h.body \in Creations
         /\ h.at \in {"members", "done"} =>
              h.council \in Councils /\ h.body \in Creations
         /\ h.at \in {"rename", "update", "updateMembers"} =>
              h.council \in Councils /\ h.body \in Updates
  BY DEF Handler

LEMMA HandlerMoves ==
  ASSUME NEW h \in Handler
  PROVE  /\ h.at = "members" => [h EXCEPT !.at = "done"] \in Handler
         /\ h.at = "rename" => [h EXCEPT !.at = "update"] \in Handler
         /\ h.at = "update" => [h EXCEPT !.at = "updateMembers"] \in Handler
         /\ h.at \in {"members", "rename", "update"} =>
              \A at : /\ [h EXCEPT !.at = at].at = at
                      /\ [h EXCEPT !.at = at].council = h.council
                      /\ [h EXCEPT !.at = at].body = h.body
<1>1. CASE h.at = "members"
  <2>1. h \in [at : {"members", "done"}, council : Councils, body : Creations]
    BY <1>1 DEF Handler
  <2>2. [h EXCEPT !.at = "done"] \in
          [at : {"members", "done"}, council : Councils, body : Creations]
    BY <2>1
  <2> QED
    BY <1>1, <2>1, <2>2 DEF Handler
<1>2. CASE h.at \in {"rename", "update"}
  <2>1. h \in [at : {"rename", "update", "updateMembers"}, council : Councils,
               body : Updates]
    BY <1>2 DEF Handler
  <2>2. \A at \in {"update", "updateMembers"} :
          [h EXCEPT !.at = at] \in
            [at : {"rename", "update", "updateMembers"}, council : Councils,
             body : Updates]
    BY <2>1
  <2> QED
    BY <1>2, <2>1, <2>2 DEF Handler
<1> QED
  BY <1>1, <1>2

LEMMA TaskIs ==
  ASSUME NEW t \in Task
  PROVE  /\ t.of \in Requests /\ t.kind \in {"create", "update", "default"}
         /\ t.kind \in {"create", "update"} =>
              t.council \in Councils /\ t.position \in Nat /\ t.person \in Persons
         /\ t.kind = "default" =>
              t.change \in Change /\ t.list \subseteq DefaultMember
  BY DEF Task

LEMMA CreationIs ==
  ASSUME NEW body \in Creations
  PROVE  /\ body.date \in Nat \ {0} /\ body.module \in Modules
         /\ body.members \in Seq(Persons)
         /\ Seated(body) \subseteq Persons
<1>1. body \in Creation
  BY CouncilsAssumption
<1>2. /\ body.date \in Nat \ {0} /\ body.module \in Modules
      /\ body.members \in Seq(Persons)
  BY <1>1 DEF Creation
<1> QED
  BY <1>2 DEF Seated, Range

(* A handler that is at work, or begins, or whose task runs, is the only one *)
(* at work, and all that is being saved is its.                              *)
LEMMA OnlyOne ==
  ASSUME CouncilsTypeOK, AloneInv, NEW r \in Requests,
         \/ ~ Free(r)
         \/ Patient /\ MayBegin(r)
         \/ \E t \in tasks : t.of = r
  PROVE  /\ \A other \in Requests \ {r} : Free(other)
         /\ \A t \in tasks : t.of = r
  BY DEF AloneInv, MayBegin

(* Only the handler that is at work has to be looked at after a step.        *)
LEMMA OneHandler ==
  ASSUME CouncilsTypeOK, NEW r \in Requests,
         \A other \in Requests \ {r} : Free(other),
         \A other \in Requests \ {r} : handler'[other] = handler[other],
         \A t \in tasks' : t.of = r,
         \A t \in tasks' : Fits(t, handler[r])',
         Holds(handler[r])', Seats(handler[r])'
  PROVE  AloneInv' /\ TasksInv' /\ HoldsInv' /\ SeatsInv'
<1>1. \A other \in Requests \ {r} : handler'[other].at = "idle"
  BY DEF Free
<1>2. AloneInv'
  BY <1>1 DEF AloneInv, Free
<1>3. TasksInv'
  BY DEF TasksInv
<1>4. HoldsInv'
  BY <1>1 DEF HoldsInv, Holds
<1>5. SeatsInv'
  BY <1>1 DEF SeatsInv, Seats
<1> QED
  BY <1>2, <1>3, <1>4, <1>5

LEMMA Moved ==
  ASSUME CouncilsTypeOK, NEW r \in Requests, NEW h, Becomes(r, h)
  PROVE  /\ handler'[r] = h
         /\ \A other \in Requests \ {r} : handler'[other] = handler[other]
         /\ h \in Handler => handler' \in [Requests -> Handler]
  BY DEF CouncilsTypeOK, Becomes

(* A step on other tasks leaves the default members as they are.             *)
LEMMA DefaultsStay ==
  ASSUME DefaultsInv, UNCHANGED defaults,
         \A t \in tasks' : t \in tasks \/ t.kind # "default"
  PROVE  DefaultsInv'
  BY DEF DefaultsInv, DefaultsDistinct, Brings

-------------------------------------------------------------------------------
(***************************************************************************)
(* The steps of create.                                                    *)
(***************************************************************************)

LEMMA StepBeginCreation ==
  ASSUME Patient, CouncilsTypeOK, CouncilInv, NEW r \in Requests,
         NEW body \in Creations, BeginCreation(r, body)
  PROVE  CouncilsTypeOK' /\ CouncilInv'
<1> DEFINE h == [at |-> "folder", body |-> body]
<1>1. h \in Handler /\ h.at = "folder" /\ h.body = body
  BY DEF Handler
<1>2. Becomes(r, h) /\ MayBegin(r)
      /\ UNCHANGED <<councils, folders, attendance, defaults, tasks>>
  BY DEF BeginCreation
<1> HIDE DEF h
<1>3. /\ handler'[r] = h
      /\ \A other \in Requests \ {r} : handler'[other] = handler[other]
      /\ handler' \in [Requests -> Handler]
  BY <1>1, <1>2, Moved
<1>4. CouncilsTypeOK'
  BY <1>2, <1>3 DEF CouncilsTypeOK
<1>5. tasks' = {}
  BY <1>2 DEF MayBegin
<1>6. \A other \in Requests \ {r} : Free(other)
  BY <1>2 DEF MayBegin
<1>8. Holds(handler[r])' /\ Seats(handler[r])'
  BY <1>1, <1>3 DEF Holds, Seats
<1>9. AloneInv' /\ TasksInv' /\ HoldsInv' /\ SeatsInv'
  BY <1>3, <1>5, <1>6, <1>8, OneHandler
<1>10. RowsInv'
  BY <1>2 DEF CouncilInv, RowsInv, Held
<1>11. DefaultsInv'
  BY <1>2, DefaultsStay DEF CouncilInv
<1> QED
  BY <1>4, <1>9, <1>10, <1>11 DEF CouncilInv

(* A step that only moves the handler on, to a place where nothing more is   *)
(* promised of it than before.                                               *)
LEMMA StepOn ==
  ASSUME CouncilsTypeOK, CouncilInv, NEW r \in Requests, ~ Free(r),
         NEW h \in Handler, Becomes(r, h),
         UNCHANGED <<councils, folders, attendance, defaults, tasks>>,
         \A t \in tasks : Fits(t, h),
         Holds(h), Seats(h)
  PROVE  CouncilsTypeOK' /\ CouncilInv'
<1>1. /\ handler'[r] = h
      /\ \A other \in Requests \ {r} : handler'[other] = handler[other]
      /\ handler' \in [Requests -> Handler]
  BY Moved
<1>2. CouncilsTypeOK'
  BY <1>1 DEF CouncilsTypeOK
<1>3. /\ \A other \in Requests \ {r} : Free(other)
      /\ \A t \in tasks' : t.of = r
  BY OnlyOne DEF CouncilInv
<1>4. \A t \in tasks' : Fits(t, handler[r])'
  BY <1>1 DEF Fits, Held
<1>5. Holds(handler[r])' /\ Seats(handler[r])'
  BY <1>1 DEF Holds, Seats, Seat, Held
<1>6. AloneInv' /\ TasksInv' /\ HoldsInv' /\ SeatsInv'
  BY <1>1, <1>3, <1>4, <1>5, OneHandler
<1>7. RowsInv'
  BY DEF CouncilInv, RowsInv, Held
<1>8. DefaultsInv'
  BY DefaultsStay DEF CouncilInv
<1> QED
  BY <1>2, <1>6, <1>7, <1>8 DEF CouncilInv

(* Of a handler that has answered nothing is promised.                       *)
LEMMA IdleIs ==
  /\ Idle \in Handler /\ Idle.at = "idle"
  /\ Holds(Idle) /\ Seats(Idle)
  /\ CouncilInv /\ CouncilsTypeOK => \A t \in tasks : Fits(t, Idle)
<1>1. Idle \in Handler /\ Idle.at = "idle"
  BY DEF Idle, Handler
<1>2. CouncilInv => \A t \in tasks : t.kind = "create" => t.council \in Held
  BY DEF CouncilInv, TasksInv, Fits
<1>3. CouncilInv /\ CouncilsTypeOK => \A t \in tasks : Fits(t, Idle)
  BY <1>1, <1>2 DEF Fits
<1> QED
  BY <1>1, <1>3 DEF Holds, Seats

(* A handler that answers.                                                   *)
LEMMA StepIdle ==
  ASSUME CouncilsTypeOK, CouncilInv, NEW r \in Requests, ~ Free(r),
         Becomes(r, Idle),
         UNCHANGED <<councils, folders, attendance, defaults, tasks>>
  PROVE  CouncilsTypeOK' /\ CouncilInv'
  BY IdleIs, StepOn

LEMMA StepCreateFolder ==
  ASSUME CouncilsTypeOK, CouncilInv, NEW r \in Requests, CreateFolder(r)
  PROVE  CouncilsTypeOK' /\ CouncilInv'
<1> DEFINE h == [at |-> "save", body |-> handler[r].body]
<1>1. handler[r] \in Handler /\ handler[r].at = "folder" /\ ~ Free(r)
      /\ UNCHANGED <<councils, folders, attendance, defaults, tasks>>
  BY DEF CreateFolder, CouncilsTypeOK, Free
<1>2. CASE Becomes(r, Idle)
  BY <1>1, <1>2, StepIdle
<1>3. CASE Becomes(r, h)
  <2>1. h \in Handler /\ h.at = "save" /\ h.body = handler[r].body
    BY <1>1, HandlerIs DEF Handler
  <2>2. \A t \in tasks : t.of = r /\ Fits(t, handler[r])
    BY <1>1, OnlyOne DEF CouncilInv, TasksInv
  <2> HIDE DEF h
  <2>4. \A t \in tasks : Fits(t, h)
    BY <1>1, <2>1, <2>2 DEF Fits
  <2>5. Holds(h) /\ Seats(h)
    BY <1>1, <2>1 DEF Holds, Seats
  <2> QED
    BY <1>1, <1>3, <2>1, <2>4, <2>5, StepOn
<1> QED
  BY <1>2, <1>3 DEF CreateFolder

LEMMA StepEndCreation ==
  ASSUME CouncilsTypeOK, CouncilInv, NEW r \in Requests, EndCreation(r)
  PROVE  CouncilsTypeOK' /\ CouncilInv'
<1> DEFINE h == [handler[r] EXCEPT !.at = "done"]
<1>1. handler[r] \in Handler /\ handler[r].at = "members" /\ ~ Free(r)
      /\ UNCHANGED <<councils, folders, attendance, defaults, tasks>>
      /\ Becomes(r, h) /\ TasksOf(r) = {}
  BY DEF EndCreation, CouncilsTypeOK, Free
<1>2. /\ h \in Handler /\ h.at = "done" /\ h.body = handler[r].body
      /\ h.council = handler[r].council
  BY <1>1, HandlerMoves
<1> HIDE DEF h
<1>3. tasks = {}
  BY <1>1, OnlyOne DEF CouncilInv, TasksOf
<1>4. Holds(handler[r]) /\ Seats(handler[r])
  BY DEF CouncilInv, HoldsInv, SeatsInv
<1>5. Holds(h) /\ Seats(h)
  BY <1>1, <1>2, <1>3, <1>4 DEF Holds, Seats
<1> QED
  BY <1>1, <1>2, <1>3, <1>5, StepOn

LEMMA StepEnds ==
  ASSUME CouncilsTypeOK, CouncilInv, NEW r \in Requests,
         Answer(r) \/ EndUpdate(r) \/ EndChanges(r)
  PROVE  CouncilsTypeOK' /\ CouncilInv'
<1>1. /\ ~ Free(r) /\ Becomes(r, Idle)
      /\ UNCHANGED <<councils, folders, attendance, defaults, tasks>>
  BY DEF Answer, EndUpdate, EndChanges, Free
<1> QED
  BY <1>1, StepIdle

(* A council is saved under an id that none had.                             *)
LEMMA NewCouncil ==
  ASSUME CouncilsTypeOK, Held # Councils
  PROVE  Min(Councils \ Held) \in Councils \ Held
<1>1. Councils \ Held # {} /\ Councils \ Held \subseteq Nat
  BY CouncilsAssumption DEF Held
<1> QED
  BY <1>1, MinOf

LEMMA StepSaveCouncil ==
  ASSUME CouncilsTypeOK, CouncilInv, NEW r \in Requests, SaveCouncil(r)
  PROVE  CouncilsTypeOK' /\ CouncilInv'
<1> DEFINE body == handler[r].body
           c == Min(Councils \ Held)
           new == [date |-> body.date, module |-> body.module, name |-> "old"]
           h == IF Repeated(body.members) THEN Idle
                ELSE [at |-> "members", council |-> c, body |-> body]
           begun == {[of |-> r, kind |-> "create", council |-> c, position |-> i,
                      person |-> body.members[i]] : i \in DOMAIN body.members}
<1>1. /\ handler[r] \in Handler /\ handler[r].at = "save" /\ ~ Free(r)
      /\ Held # Councils
      /\ councils' = [councils EXCEPT ![c] = new]
      /\ folders' = [folders EXCEPT ![c] = "old"]
      /\ UNCHANGED <<attendance, defaults>>
  BY DEF SaveCouncil, CouncilsTypeOK, Free
<1>2. /\ Becomes(r, h)
      /\ tasks' = IF Repeated(body.members) THEN tasks ELSE tasks \cup begun
  BY DEF SaveCouncil
<1>3. c \in Councils \ Held
  BY <1>1, NewCouncil
<1>4. /\ body \in Creations
      /\ body.date \in Nat \ {0} /\ body.module \in Modules
      /\ body.members \in Seq(Persons)
  <2>1. body \in Creations
    BY <1>1, HandlerIs
  <2> QED
    BY <2>1, CreationIs
<1>5. new \in Council /\ new # NoCouncil
  BY <1>4 DEF Council, NoCouncil
<1>6. /\ h \in Handler
      /\ h.at \in {"idle", "members"}
      /\ h.at = "members" => /\ ~ Repeated(body.members)
                             /\ h.council = c /\ h.body = body
  BY <1>3, <1>4, IdleIs DEF Handler
<1>7. \A t \in begun : /\ t \in Task /\ t.of = r /\ t.kind = "create"
                       /\ t.council = c /\ t.position \in DOMAIN body.members
                       /\ t.person = body.members[t.position]
  <2> SUFFICES ASSUME NEW i \in DOMAIN body.members
               PROVE  [of |-> r, kind |-> "create", council |-> c, position |-> i,
                       person |-> body.members[i]] \in Task
    OBVIOUS
  <2>1. i \in Nat /\ body.members[i] \in Persons
    BY <1>4
  <2> QED
    BY <1>3, <2>1 DEF Task
<1>8. \A i \in DOMAIN body.members :
        \E t \in begun : t.kind = "create" /\ t.position = i
  <2> SUFFICES ASSUME NEW i \in DOMAIN body.members
               PROVE  \E t \in begun : t.kind = "create" /\ t.position = i
    OBVIOUS
  <2> DEFINE mine == [of |-> r, kind |-> "create", council |-> c, position |-> i,
                      person |-> body.members[i]]
  <2>1. mine \in begun /\ mine.kind = "create" /\ mine.position = i
    OBVIOUS
  <2> HIDE DEF begun, mine
  <2> QED
    BY <2>1
<1> HIDE DEF body, c, new, h, begun
<1>9. /\ handler'[r] = h
      /\ \A other \in Requests \ {r} : handler'[other] = handler[other]
      /\ handler' \in [Requests -> Handler]
  BY <1>2, <1>6, Moved
<1>10. CouncilsTypeOK'
  BY <1>1, <1>2, <1>3, <1>5, <1>7, <1>9 DEF CouncilsTypeOK
<1>11. Held' = Held \cup {c}
  BY <1>1, <1>3, <1>5 DEF Held, CouncilsTypeOK
<1>12. tasks = {}
  BY <1>1, OnlyOne, TaskIs DEF CouncilInv, TasksInv, Fits, CouncilsTypeOK
<1>13. \A other \in Requests \ {r} : Free(other)
  BY <1>1, OnlyOne DEF CouncilInv
<1>14. \A t \in tasks' : t \in begun /\ h.at = "members"
  BY <1>2, <1>12 DEF h
<1>15. \A t \in tasks' : t.of = r /\ Fits(t, handler[r])'
  BY <1>6, <1>7, <1>9, <1>11, <1>14 DEF Fits
<1>16. Holds(handler[r])'
  BY <1>6, <1>9, <1>11 DEF Holds
<1>17. Seats(handler[r])'
  <2> SUFFICES ASSUME h.at = "members"
               PROVE  Seats(handler[r])'
    BY <1>6, <1>9 DEF Seats
  <2>1. tasks' = begun
    BY <1>2, <1>6, <1>12
  <2>2. \A m \in attendance' : m.council # c
    BY <1>1, <1>3 DEF CouncilInv, RowsInv
  <2> QED
    BY <1>6, <1>8, <1>9, <2>1, <2>2 DEF Seats
<1>19. AloneInv' /\ TasksInv' /\ HoldsInv' /\ SeatsInv'
  BY <1>9, <1>13, <1>15, <1>16, <1>17, OneHandler
<1>20. RowsInv'
  BY <1>1, <1>3, <1>11 DEF CouncilInv, RowsInv, CouncilsTypeOK
<1>21. DefaultsInv'
  BY <1>1, <1>7, <1>14, DefaultsStay DEF CouncilInv
<1> QED
  BY <1>10, <1>19, <1>20, <1>21 DEF CouncilInv

LEMMA StepSaveMember ==
  ASSUME CouncilsTypeOK, CouncilInv, NEW t \in tasks, SaveMember(t)
  PROVE  CouncilsTypeOK' /\ CouncilInv'
<1> DEFINE r == t.of
           row == [council |-> t.council, position |-> t.position,
                   people |-> {t.person}]
<1>1. /\ r \in Requests /\ t.kind = "create" /\ row \in Member
      /\ t.council \in Held
  BY TaskIs DEF CouncilsTypeOK, SaveMember, CouncilInv, TasksInv, Fits, Member
<1>2. /\ tasks' = tasks \ {t} /\ UNCHANGED <<councils, folders, defaults>>
      /\ Held' = Held
  BY DEF SaveMember, Held
<1>3. Fits(t, handler[r])
  BY DEF CouncilInv, TasksInv
<1>4. /\ \A other \in Requests \ {r} : Free(other)
      /\ \A u \in tasks : u.of = r /\ Fits(u, handler[r])
  BY <1>1, OnlyOne DEF CouncilInv, TasksInv
<1>5. DefaultsInv'
  BY <1>2, DefaultsStay DEF CouncilInv
<1>6. Holds(handler[r]) /\ Seats(handler[r])
  BY <1>1 DEF CouncilInv, HoldsInv, SeatsInv
<1>7. CASE t.person \in Registered
  <2>1. attendance' = attendance \cup {row} /\ UNCHANGED handler
    BY <1>7 DEF SaveMember
  <2>2. row.council = t.council /\ row.position = t.position /\ row.people = {t.person}
    OBVIOUS
  <2> HIDE DEF r, row
  <2>3. CouncilsTypeOK'
    BY <1>1, <1>2, <2>1 DEF CouncilsTypeOK
  <2>4. \A u \in tasks' : u.of = r /\ Fits(u, handler[r])'
    BY <1>2, <1>4, <2>1 DEF Fits
  <2>5. Holds(handler[r])'
    BY <1>2, <1>6, <2>1 DEF Holds
  <2>7. Seats(handler[r])'
    <3> SUFFICES ASSUME handler[r].at \in {"members", "done"}
                 PROVE  Seats(handler[r])'
      BY <2>1 DEF Seats
    <3>1. /\ t.council = handler[r].council
          /\ t.position \in DOMAIN handler[r].body.members
          /\ t.person = handler[r].body.members[t.position]
      BY <1>1, <1>3 DEF Fits
    <3>2. Seat(t.council, t.position, t.person)'
      BY <2>1, <2>2 DEF Seat
    <3>3. \A i \in DOMAIN handler[r].body.members :
            Seat(handler[r].council, i, handler[r].body.members[i]) =>
            Seat(handler[r].council, i, handler[r].body.members[i])'
      BY <2>1 DEF Seat
    <3>4. \A m \in attendance' : m.council = handler[r].council =>
            /\ m.position \in DOMAIN handler[r].body.members
            /\ m.people = {handler[r].body.members[m.position]}
      BY <1>6, <2>1, <2>2, <3>1 DEF Seats
    <3>5. \A i \in DOMAIN handler[r].body.members :
            \/ Seat(handler[r].council, i, handler[r].body.members[i])'
            \/ \E u \in tasks' : u.kind = "create" /\ u.position = i
      <4> SUFFICES ASSUME NEW i \in DOMAIN handler[r].body.members
                   PROVE  \/ Seat(handler[r].council, i, handler[r].body.members[i])'
                          \/ \E u \in tasks' : u.kind = "create" /\ u.position = i
        OBVIOUS
      <4>1. CASE i = t.position
        BY <2>1, <3>1, <3>2, <4>1 DEF Seat
      <4>2. CASE Seat(handler[r].council, i, handler[r].body.members[i])
        BY <3>3, <4>2
      <4>3. ASSUME NEW u \in tasks, u.kind = "create", u.position = i, u # t
            PROVE  \E other \in tasks' : other.kind = "create" /\ other.position = i
        BY <1>2, <4>3
      <4> QED
        BY <1>6, <4>1, <4>2, <4>3 DEF Seats
    <3>6. ~ Repeated(handler[r].body.members)
      BY <1>6 DEF Seats
    <3> QED
      BY <2>1, <3>4, <3>5, <3>6 DEF Seats
  <2>8. AloneInv' /\ TasksInv' /\ HoldsInv' /\ SeatsInv'
    BY <1>1, <1>4, <2>1, <2>4, <2>5, <2>7, OneHandler
  <2>9. RowsInv'
    BY <1>1, <1>2, <2>1, <2>2 DEF CouncilInv, RowsInv
  <2> QED
    BY <1>5, <2>3, <2>8, <2>9 DEF CouncilInv
<1>8. CASE t.person \notin Registered
  <2>1. UNCHANGED attendance
    BY <1>8 DEF SaveMember
  <2>2. CASE handler[r].at = "members"
    <3>1. Becomes(r, Idle)
      BY <1>8, <2>2 DEF SaveMember
    <3> HIDE DEF r, row
    <3>2. /\ handler'[r] = Idle
          /\ \A other \in Requests \ {r} : handler'[other] = handler[other]
          /\ handler' \in [Requests -> Handler]
      BY <1>1, <3>1, IdleIs, Moved
    <3>3. CouncilsTypeOK'
      BY <1>2, <2>1, <3>2 DEF CouncilsTypeOK
    <3>4. \A u \in tasks' : u.of = r /\ Fits(u, handler[r])'
      BY <1>2, <1>4, <3>2, IdleIs DEF Fits
    <3>5. Holds(handler[r])' /\ Seats(handler[r])'
      BY <3>2, IdleIs DEF Holds, Seats
    <3>6. AloneInv' /\ TasksInv' /\ HoldsInv' /\ SeatsInv'
      BY <1>1, <1>4, <3>2, <3>4, <3>5, OneHandler
    <3>7. RowsInv'
      BY <1>2, <2>1 DEF CouncilInv, RowsInv
    <3> QED
      BY <1>5, <3>3, <3>6, <3>7 DEF CouncilInv
  <2>3. CASE handler[r].at # "members"
    <3>1. UNCHANGED handler
      BY <1>8, <2>3 DEF SaveMember
    <3>2. handler[r].at = "idle"
      BY <1>1, <1>3, <2>3 DEF Fits
    <3> HIDE DEF r, row
    <3>3. CouncilsTypeOK'
      BY <1>2, <2>1, <3>1 DEF CouncilsTypeOK
    <3>4. \A u \in tasks' : u.of = r /\ Fits(u, handler[r])'
      BY <1>2, <1>4, <3>1 DEF Fits
    <3>5. Holds(handler[r])' /\ Seats(handler[r])'
      BY <3>1, <3>2 DEF Holds, Seats
    <3>6. AloneInv' /\ TasksInv' /\ HoldsInv' /\ SeatsInv'
      BY <1>1, <1>4, <3>1, <3>4, <3>5, OneHandler
    <3>7. RowsInv'
      BY <1>2, <2>1 DEF CouncilInv, RowsInv
    <3> QED
      BY <1>5, <3>3, <3>6, <3>7 DEF CouncilInv
  <2> QED
    BY <2>2, <2>3
<1> QED
  BY <1>7, <1>8

-------------------------------------------------------------------------------
(***************************************************************************)
(* The steps of update.                                                    *)
(***************************************************************************)

LEMMA StepProcessEnds ==
  ASSUME CouncilsTypeOK, CouncilInv, ProcessEnds
  PROVE  CouncilsTypeOK' /\ CouncilInv'
<1>1. /\ handler' = [r \in Requests |-> Idle] /\ tasks' = {}
      /\ UNCHANGED <<councils, folders, attendance, defaults>>
  BY DEF ProcessEnds
<1>2. \A r \in Requests : handler'[r] = Idle
  BY <1>1
<1>3. CouncilsTypeOK'
  BY <1>1, IdleIs DEF CouncilsTypeOK
<1>4. AloneInv' /\ TasksInv' /\ HoldsInv' /\ SeatsInv'
  BY <1>1, <1>2, IdleIs DEF AloneInv, Free, TasksInv, HoldsInv, Holds, SeatsInv,
     Seats
<1>5. RowsInv'
  BY <1>1 DEF CouncilInv, RowsInv, Held
<1>6. DefaultsInv'
  BY <1>1, DefaultsStay DEF CouncilInv
<1> QED
  BY <1>3, <1>4, <1>5, <1>6 DEF CouncilInv

LEMMA StepBeginUpdate ==
  ASSUME Patient, CouncilsTypeOK, CouncilInv, NEW r \in Requests,
         NEW c \in Councils, NEW body \in Updates, BeginUpdate(r, c, body)
  PROVE  CouncilsTypeOK' /\ CouncilInv'
<1> DEFINE h == [at |-> "rename", council |-> c, body |-> body]
<1>1. h \in Handler /\ h.at = "rename" /\ h.council = c
  BY DEF Handler
<1>2. /\ Becomes(r, h) /\ MayBegin(r) /\ c \in Held
      /\ UNCHANGED <<councils, folders, attendance, defaults, tasks>>
  BY DEF BeginUpdate
<1> HIDE DEF h
<1>3. /\ handler'[r] = h
      /\ \A other \in Requests \ {r} : handler'[other] = handler[other]
      /\ handler' \in [Requests -> Handler]
  BY <1>1, <1>2, Moved
<1>4. CouncilsTypeOK'
  BY <1>2, <1>3 DEF CouncilsTypeOK
<1>5. tasks' = {} /\ \A other \in Requests \ {r} : Free(other)
  BY <1>2 DEF MayBegin
<1>6. Holds(handler[r])' /\ Seats(handler[r])'
  BY <1>1, <1>2, <1>3 DEF Holds, Held, Seats
<1>7. AloneInv' /\ TasksInv' /\ HoldsInv' /\ SeatsInv'
  BY <1>3, <1>5, <1>6, OneHandler
<1>8. RowsInv'
  BY <1>2 DEF CouncilInv, RowsInv, Held
<1>9. DefaultsInv'
  BY <1>2, DefaultsStay DEF CouncilInv
<1> QED
  BY <1>4, <1>7, <1>8, <1>9 DEF CouncilInv

LEMMA StepRenameFolder ==
  ASSUME CouncilsTypeOK, CouncilInv, NEW r \in Requests, RenameFolder(r)
  PROVE  CouncilsTypeOK' /\ CouncilInv'
<1> DEFINE g == handler[r]
           h == [g EXCEPT !.at = "update"]
           begun == {[of |-> r, kind |-> "update", council |-> g.council,
                      position |-> m.position, person |-> m.person] :
                       m \in g.body.members}
<1>1. /\ g \in Handler /\ g.at = "rename" /\ ~ Free(r)
      /\ UNCHANGED <<councils, attendance, defaults>>
  BY DEF RenameFolder, CouncilsTypeOK, Free
<1>2. CASE Becomes(r, Idle) /\ UNCHANGED <<folders, tasks>>
  BY <1>1, <1>2, StepIdle
<1>3. CASE /\ folders' = IF g.body.rename
                         THEN [folders EXCEPT ![g.council] = "new"] ELSE folders
           /\ tasks' = tasks \cup begun
           /\ Becomes(r, h)
  <2>1. h \in Handler /\ h.at = "update" /\ h.council = g.council
    BY <1>1, HandlerMoves
  <2>2. g.council \in Councils /\ g.body \in Updates
    BY <1>1, HandlerIs
  <2>3. g.body.members \subseteq [position : Nat, person : Persons]
    BY <2>2, CouncilsAssumption DEF Update
  <2>4. \A t \in begun : t \in Task /\ t.of = r /\ t.kind = "update"
    BY <2>2, <2>3 DEF Task
  <2>5. g.council \in Held
    BY <1>1 DEF CouncilInv, HoldsInv, Holds
  <2> HIDE DEF g, h, begun
  <2>6. /\ handler'[r] = h
        /\ \A other \in Requests \ {r} : handler'[other] = handler[other]
        /\ handler' \in [Requests -> Handler]
    BY <1>3, <2>1, Moved
  <2>7. CouncilsTypeOK'
    BY <1>1, <1>3, <2>2, <2>4, <2>6 DEF CouncilsTypeOK
  <2>8. /\ \A other \in Requests \ {r} : Free(other)
        /\ \A t \in tasks : t.of = r /\ Fits(t, g)
    BY <1>1, OnlyOne DEF CouncilInv, TasksInv, g
  <2>9. tasks = {}
    BY <1>1, <2>8, TaskIs DEF Fits, CouncilsTypeOK
  <2>10. \A t \in tasks' : t.of = r /\ Fits(t, handler[r])'
    BY <1>3, <2>1, <2>4, <2>6, <2>9 DEF Fits
  <2>11. Holds(handler[r])' /\ Seats(handler[r])'
    BY <1>1, <2>1, <2>5, <2>6 DEF Holds, Held, Seats
  <2>12. AloneInv' /\ TasksInv' /\ HoldsInv' /\ SeatsInv'
    BY <2>6, <2>8, <2>10, <2>11, OneHandler
  <2>13. RowsInv'
    BY <1>1, <1>3, <2>2 DEF CouncilInv, RowsInv, Held, CouncilsTypeOK
  <2>14. DefaultsInv'
    BY <1>1, <1>3, <2>4, DefaultsStay DEF CouncilInv
  <2> QED
    BY <2>7, <2>12, <2>13, <2>14 DEF CouncilInv
<1> QED
  BY <1>2, <1>3 DEF RenameFolder

LEMMA StepSaveUpdate ==
  ASSUME CouncilsTypeOK, CouncilInv, NEW r \in Requests, SaveUpdate(r)
  PROVE  CouncilsTypeOK' /\ CouncilInv'
<1> DEFINE g == handler[r]
           c == g.council
           old == councils[c]
           new == [old EXCEPT !.date = IF g.body.date = 0 THEN @ ELSE g.body.date,
                              !.name = IF g.body.rename THEN "new" ELSE @]
           h == [g EXCEPT !.at = "updateMembers"]
<1>1. /\ g \in Handler /\ g.at = "update" /\ ~ Free(r)
      /\ councils' = [councils EXCEPT ![c] = new]
      /\ Becomes(r, h)
      /\ UNCHANGED <<folders, attendance, defaults, tasks>>
  BY DEF SaveUpdate, CouncilsTypeOK, Free
<1>2. c \in Councils /\ g.body \in Updates
  BY <1>1, HandlerIs
<1>3. g.body.date \in Nat
  BY <1>2, CouncilsAssumption DEF Update
<1>4. c \in Held
  BY <1>1 DEF CouncilInv, HoldsInv, Holds
<1>5. old \in Council
  BY <1>2, <1>4 DEF CouncilsTypeOK, Held
<1>6. new \in Council
  BY <1>3, <1>5 DEF Council
<1>7. new # NoCouncil
  BY <1>6 DEF Council, NoCouncil
<1>8. h \in Handler /\ h.at = "updateMembers" /\ h.council = c
  BY <1>1, HandlerMoves
<1> HIDE DEF c, old, new, h
<1>9. /\ handler'[r] = h
      /\ \A other \in Requests \ {r} : handler'[other] = handler[other]
      /\ handler' \in [Requests -> Handler]
  BY <1>1, <1>8, Moved
<1>10. CouncilsTypeOK'
  BY <1>1, <1>2, <1>6, <1>9 DEF CouncilsTypeOK
<1>11. Held' = Held
  BY <1>1, <1>2, <1>4, <1>7 DEF Held, CouncilsTypeOK
<1>12. /\ \A other \in Requests \ {r} : Free(other)
       /\ \A t \in tasks : t.of = r /\ Fits(t, g)
  BY <1>1, OnlyOne DEF CouncilInv, TasksInv
<1>13. \A t \in tasks' : t.of = r /\ Fits(t, handler[r])'
  BY <1>1, <1>8, <1>9, <1>12 DEF Fits
<1>14. Holds(handler[r])' /\ Seats(handler[r])'
  BY <1>4, <1>8, <1>9, <1>11 DEF Holds, Seats
<1>15. AloneInv' /\ TasksInv' /\ HoldsInv' /\ SeatsInv'
  BY <1>9, <1>12, <1>13, <1>14, OneHandler
<1>16. RowsInv'
  BY <1>1, <1>11 DEF CouncilInv, RowsInv
<1>17. DefaultsInv'
  BY <1>1, DefaultsStay DEF CouncilInv
<1> QED
  BY <1>10, <1>15, <1>16, <1>17 DEF CouncilInv

LEMMA StepUpdateMember ==
  ASSUME CouncilsTypeOK, CouncilInv, NEW t \in tasks, UpdateMember(t)
  PROVE  CouncilsTypeOK' /\ CouncilInv'
<1> DEFINE r == t.of
           old == {m \in attendance : m.council = t.council /\ m.position = t.position}
           To(m) == {p \in m.people : Switches(p, t.person)} \cup {t.person}
           new == {[m EXCEPT !.people = To(m)] : m \in old}
<1>1. r \in Requests /\ t.kind = "update" /\ t.person \in Persons
  BY TaskIs DEF CouncilsTypeOK, UpdateMember
<1>2. /\ \A other \in Requests \ {r} : Free(other)
      /\ \A u \in tasks : u.of = r /\ Fits(u, handler[r])
  BY <1>1, OnlyOne DEF CouncilInv, TasksInv
<1>3. handler[r].at \in {"idle", "update", "updateMembers"}
  BY <1>1, <1>2 DEF Fits
<1>4. CASE t.person \in Registered /\ old # {}
  <2>1. /\ attendance' = (attendance \ old) \cup new
        /\ tasks' = tasks \ {t}
        /\ UNCHANGED <<councils, folders, defaults, handler>>
    BY <1>4 DEF UpdateMember
  <2>2. \A m \in new : m \in Member /\ m.council \in Held
    <3> SUFFICES ASSUME NEW m \in old
                 PROVE  /\ [m EXCEPT !.people = To(m)] \in Member
                        /\ [m EXCEPT !.people = To(m)].council \in Held
      OBVIOUS
    <3>1. m \in Member /\ m.council \in Held
      BY DEF CouncilsTypeOK, CouncilInv, RowsInv
    <3> QED
      BY <1>1, <3>1 DEF Member
  <2> HIDE DEF r, new, old
  <2>3. CouncilsTypeOK'
    BY <2>1, <2>2 DEF CouncilsTypeOK
  <2>4. Held' = Held
    BY <2>1 DEF Held
  <2>5. \A u \in tasks' : u.of = r /\ Fits(u, handler[r])'
    BY <1>2, <2>1, <2>4 DEF Fits
  <2>6. Holds(handler[r])'
    BY <1>1, <2>1, <2>4 DEF CouncilInv, HoldsInv, Holds
  <2>7. Seats(handler[r])'
    BY <1>3, <2>1 DEF Seats
  <2>8. AloneInv' /\ TasksInv' /\ HoldsInv' /\ SeatsInv'
    BY <1>1, <1>2, <2>1, <2>5, <2>6, <2>7, OneHandler
  <2>9. RowsInv'
    BY <2>1, <2>2, <2>4 DEF CouncilInv, RowsInv
  <2>10. DefaultsInv'
    BY <2>1, DefaultsStay DEF CouncilInv
  <2> QED
    BY <2>3, <2>8, <2>9, <2>10 DEF CouncilInv
<1>5. CASE ~ (t.person \in Registered /\ old # {})
  <2>1. CASE handler[r].at = "update"
    <3>1. ProcessEnds
      BY <1>5, <2>1 DEF UpdateMember
    <3> QED
      BY <3>1, StepProcessEnds
  <2>2. CASE handler[r].at # "update"
    <3>1. /\ tasks' = tasks \ {t}
          /\ UNCHANGED <<councils, folders, attendance, defaults>>
          /\ IF handler[r].at = "updateMembers" THEN Becomes(r, Idle) ELSE UNCHANGED handler
      BY <1>5, <2>2 DEF UpdateMember
    <3> HIDE DEF r, new, old
    <3>2. /\ handler'[r].at = "idle"
          /\ \A other \in Requests \ {r} : handler'[other] = handler[other]
          /\ handler' \in [Requests -> Handler]
      <4>1. CASE Becomes(r, Idle)
        BY <1>1, <4>1, IdleIs, Moved
      <4>2. CASE handler[r].at = "idle" /\ UNCHANGED handler
        BY <1>1, <4>2 DEF CouncilsTypeOK
      <4> QED
        BY <1>3, <2>2, <3>1, <4>1, <4>2
    <3>3. CouncilsTypeOK'
      BY <3>1, <3>2 DEF CouncilsTypeOK
    <3>4. \A u \in tasks' : u.of = r /\ (u.kind = "create" => u.council \in Held')
      BY <1>2, <3>1 DEF Fits, Held
    <3>5. \A u \in tasks' : Fits(u, handler[r])'
      BY <3>2, <3>4 DEF Fits
    <3>6. Holds(handler[r])' /\ Seats(handler[r])'
      BY <3>2 DEF Holds, Seats
    <3>7. AloneInv' /\ TasksInv' /\ HoldsInv' /\ SeatsInv'
      BY <1>1, <1>2, <3>2, <3>4, <3>5, <3>6, OneHandler
    <3>8. RowsInv'
      BY <3>1 DEF CouncilInv, RowsInv, Held
    <3>9. DefaultsInv'
      BY <3>1, DefaultsStay DEF CouncilInv
    <3> QED
      BY <3>3, <3>7, <3>8, <3>9 DEF CouncilInv
  <2> QED
    BY <2>1, <2>2
<1> QED
  BY <1>4, <1>5

-------------------------------------------------------------------------------
(***************************************************************************)
(* The steps on the default members.                                       *)
(***************************************************************************)

LEMMA StepBeginChanges ==
  ASSUME Patient, CouncilsTypeOK, CouncilInv, NEW r \in Requests,
         NEW changes \in Changes, BeginChanges(r, changes)
  PROVE  CouncilsTypeOK' /\ CouncilInv'
<1> DEFINE h == [at |-> "defaults"]
           begun == {[of |-> r, kind |-> "default", change |-> x, list |-> defaults] :
                       x \in changes}
<1>1. h \in Handler /\ h.at = "defaults"
  BY DEF Handler
<1>2. /\ Becomes(r, h) /\ MayBegin(r)
      /\ tasks' = tasks \cup begun
      /\ UNCHANGED <<councils, folders, attendance, defaults>>
  BY DEF BeginChanges
<1>3. tasks = {} /\ \A other \in Requests \ {r} : Free(other)
  BY <1>2 DEF MayBegin
<1>4. tasks' = begun
  BY <1>2, <1>3
<1>5. changes \subseteq Change
  BY CouncilsAssumption
<1>6. begun \subseteq Task
  BY <1>5 DEF Task, CouncilsTypeOK
<1>7. \A t \in begun : /\ t.of = r /\ t.kind = "default" /\ t.list = defaults
                       /\ t.change \in changes
                       /\ t = [of |-> r, kind |-> "default", change |-> t.change,
                               list |-> defaults]
  OBVIOUS
<1> HIDE DEF h, begun
<1>8. /\ handler'[r] = h
      /\ \A other \in Requests \ {r} : handler'[other] = handler[other]
      /\ handler' \in [Requests -> Handler]
  BY <1>1, <1>2, Moved
<1>9. CouncilsTypeOK'
  BY <1>2, <1>4, <1>6, <1>8 DEF CouncilsTypeOK
<1>10. \A t \in tasks' : t.of = r /\ Fits(t, handler[r])'
  BY <1>1, <1>4, <1>7, <1>8 DEF Fits
<1>11. Holds(handler[r])' /\ Seats(handler[r])'
  BY <1>1, <1>8 DEF Holds, Seats
<1>12. AloneInv' /\ TasksInv' /\ HoldsInv' /\ SeatsInv'
  BY <1>3, <1>8, <1>10, <1>11, OneHandler
<1>13. RowsInv'
  BY <1>2 DEF CouncilInv, RowsInv, Held
<1>14. DefaultsInv'
  <2>1. /\ NamedOnce => DefaultsDistinct'
        /\ IsFiniteSet(defaults)'
        /\ \A m, other \in defaults' : m.id = other.id => m = other
    BY <1>2 DEF CouncilInv, DefaultsInv, DefaultsDistinct
  <2>2. \A t, u \in tasks' : t.kind = "default" /\ u.kind = "default" => t.list = u.list
    BY <1>4, <1>7
  <2>3. \A t \in tasks' : t.kind = "default" => IsFiniteSet(t.list)
    BY <1>4, <1>7 DEF CouncilInv, DefaultsInv
  <2>4. NamedOnce => \A t, u \in tasks' :
          Brings(t) /\ Brings(u) /\ t.change.person = u.change.person => t = u
    <3> SUFFICES ASSUME NamedOnce, NEW t \in begun, NEW u \in begun, Brings(t), Brings(u),
                        t.change.person = u.change.person
                 PROVE  t = u
      BY <1>4
    <3>1. t.change = u.change
      BY <1>7 DEF NamedOnce, Brings
    <3> QED
      BY <1>7, <3>1
  <2>5. \A t \in tasks' : Brings(t) =>
          \/ InList(t.list, t.change.person)
          \/ \A m \in defaults' : m.person # t.change.person
    BY <1>2, <1>4, <1>7 DEF InList
  <2> QED
    BY <2>1, <2>2, <2>3, <2>4, <2>5 DEF DefaultsInv
<1> QED
  BY <1>9, <1>12, <1>13, <1>14 DEF CouncilInv

(* A new row has an id that no row has.                                      *)
LEMMA NewIdIsNew ==
  ASSUME CouncilsTypeOK, DefaultsInv
  PROVE  NewId \in Nat /\ \A m \in defaults : m.id # NewId
<1> DEFINE lists == {t.list : t \in {x \in tasks : x.kind = "default"}}
           known == UNION ({defaults} \cup lists)
           ids == {m.id : m \in known}
           id == [m \in known |-> m.id]
           n == Cardinality(ids)
           free == (1 .. n + 1) \ ids
<1>1. NewId = Min(free)
  BY DEF NewId
<1>2. known \subseteq DefaultMember
  BY TaskIs DEF CouncilsTypeOK
<1>3. IsFiniteSet(known)
  <2>1. CASE lists = {}
    <3>1. known = defaults
      BY <2>1
    <3> QED
      BY <3>1 DEF DefaultsInv
  <2>2. ASSUME NEW t \in tasks, t.kind = "default"
        PROVE  IsFiniteSet(known)
    <3>1. \A u \in tasks : u.kind = "default" => u.list = t.list
      BY <2>2 DEF DefaultsInv
    <3>2. known = defaults \cup t.list
      BY <2>2, <3>1
    <3> HIDE DEF known
    <3>3. IsFiniteSet(defaults) /\ IsFiniteSet(t.list)
      BY <2>2 DEF DefaultsInv
    <3>4. IsFiniteSet(defaults \cup t.list)
      BY <3>3, FS_Union
    <3> QED
      BY <3>2, <3>4
  <2> QED
    BY <2>1, <2>2
<1> HIDE DEF known
<1>4. ids \subseteq Nat
  BY <1>2 DEF DefaultMember
<1>5. id \in Surjection(known, ids)
  BY DEF Surjection
<1>6. IsFiniteSet(ids) /\ n \in Nat
  <2> HIDE DEF ids, id
  <2> QED
    BY <1>3, <1>5, FS_Surjection, FS_CardinalityType DEF n
<1> HIDE DEF ids, n
<1>7. free # {}
  <2> SUFFICES ASSUME free = {}
               PROVE  FALSE
    OBVIOUS
  <2>1. 1 .. n + 1 \subseteq ids
    OBVIOUS
  <2>2. Cardinality(1 .. n + 1) = n + 1
    BY <1>6, FS_Interval
  <2>3. Cardinality(1 .. n + 1) <= n
    BY <1>6, <2>1, FS_Subset DEF n
  <2> QED
    BY <1>6, <2>2, <2>3
<1>8. free \subseteq Nat
  BY <1>6
<1>9. Min(free) \in free
  <2> HIDE DEF free
  <2> QED
    BY <1>7, <1>8, MinOf
<1>10. NewId \in Nat /\ NewId \notin ids
  BY <1>1, <1>8, <1>9
<1>11. \A m \in defaults : m.id \in ids
  BY DEF ids, known
<1> QED
  BY <1>10, <1>11

(* One row in the place of another of its id.                                *)
LEMMA RowReplaced ==
  ASSUME NEW rows \in SUBSET DefaultMember, IsFiniteSet(rows),
         \A m, other \in rows : m.id = other.id => m = other,
         NEW old \in rows, NEW new \in DefaultMember, new.id = old.id,
         NEW after, after = (rows \ {old}) \cup {new}
  PROVE  /\ after \subseteq DefaultMember /\ IsFiniteSet(after)
         /\ \A m, other \in after : m.id = other.id => m = other
         /\ \A m \in after : m \in rows \/ m = new
         /\ /\ \A m, other \in rows : m.person = other.person => m = other
            /\ \A m \in rows : m.person # new.person
            => \A m, other \in after : m.person = other.person => m = other
<1>1. IsFiniteSet(rows \ {old})
  BY FS_Subset
<1>2. IsFiniteSet((rows \ {old}) \cup {new})
  BY <1>1, FS_AddElement
<1>3. \A m \in after : (m \in rows /\ m # old) \/ m = new
  OBVIOUS
<1>4. \A m, other \in after : m.id = other.id => m = other
  BY <1>3
<1>5. ASSUME \A m, other \in rows : m.person = other.person => m = other,
             \A m \in rows : m.person # new.person
      PROVE  \A m, other \in after : m.person = other.person => m = other
  BY <1>3, <1>5
<1> QED
  BY <1>2, <1>3, <1>4, <1>5

(* What a change that is not refused does to the default members: they stay, *)
(* lose a row, gain one, or one of their rows takes another person.  Persons *)
(* and ids stay distinct, and only the change's own person may come.         *)
LEMMA ChangedDefaults ==
  ASSUME CouncilsTypeOK, CouncilInv, NEW t \in tasks, t.kind = "default",
         ~ Refuses(t),
         defaults' = (defaults \ Row(t.change)) \cup Added(t.change)
  PROVE  /\ defaults' \subseteq DefaultMember
         /\ NamedOnce => DefaultsDistinct'
         /\ IsFiniteSet(defaults)'
         /\ \A m, other \in defaults' : m.id = other.id => m = other
         /\ \A m \in defaults' : \/ \E old \in defaults : old.person = m.person
                                 \/ Brings(t) /\ m.person = t.change.person
<1> DEFINE x == t.change
<1>1. /\ t.list \subseteq DefaultMember /\ x \in Change
      /\ x.action \in {"create", "update", "delete"} /\ x.person \in Persons
      /\ x.id \in Nat
  BY TaskIs DEF CouncilsTypeOK, Change
<1>2. /\ defaults \subseteq DefaultMember
      /\ NamedOnce => DefaultsDistinct
      /\ IsFiniteSet(defaults)
      /\ \A m, other \in defaults : m.id = other.id => m = other
  BY DEF CouncilsTypeOK, CouncilInv, DefaultsInv
<1>3. NamedOnce /\ Brings(t) => \/ InList(t.list, x.person)
                                \/ \A m \in defaults : m.person # x.person
  BY DEF CouncilInv, DefaultsInv
<1>4. CASE x.action = "create"
  <2> DEFINE row == [id |-> NewId, person |-> x.person]
  <2>1. defaults' = defaults \cup {row}
    BY <1>4 DEF Row, Added
  <2>2. NewId \in Nat /\ \A m \in defaults : m.id # NewId
    BY NewIdIsNew DEF CouncilInv
  <2>3. row \in DefaultMember /\ row.id = NewId /\ row.person = x.person
    BY <1>1, <2>2 DEF DefaultMember
  <2>4. NamedOnce => \A m \in defaults : m.person # x.person
    BY <1>3, <1>4 DEF Brings, Refuses, Brought
  <2> HIDE DEF row
  <2>5. IsFiniteSet(defaults \cup {row})
    BY <1>2, FS_AddElement
  <2> QED
    BY <1>2, <1>4, <2>1, <2>2, <2>3, <2>4, <2>5 DEF DefaultsDistinct, Brings
<1>5. CASE x.action = "delete"
  <2>1. defaults' \subseteq defaults
    BY <1>5 DEF Row, Added
  <2>2. IsFiniteSet(defaults')
    BY <1>2, <2>1, FS_Subset
  <2> QED
    BY <1>2, <2>1, <2>2 DEF DefaultsDistinct
<1>6. CASE x.action = "update"
  <2>1. CASE Row(x) = {}
    <3>1. defaults' = defaults
      BY <1>6, <2>1 DEF Added
    <3> QED
      BY <1>2, <3>1 DEF DefaultsDistinct
  <2>2. CASE Row(x) # {}
    <3>1. PICK old \in Row(x) : TRUE
      BY <2>2
    <3>2. old \in defaults /\ old.id = x.id
      BY DEF Row
    <3>3. Row(x) = {old}
      BY <1>2, <3>2 DEF Row
    <3> DEFINE new == IF Brought(x) THEN [old EXCEPT !.person = x.person] ELSE old
    <3>4. defaults' = (defaults \ {old}) \cup {new}
      BY <1>6, <3>3 DEF Added
    <3>5. CASE Brought(x)
      <4>1. ~ InList(t.list, x.person)
        BY <3>5 DEF Refuses
      <4>2. NamedOnce => \A m \in defaults : m.person # x.person
        BY <1>3, <1>6, <4>1 DEF Brings
      <4>3. new \in DefaultMember /\ new.id = old.id /\ new.person = x.person
        BY <1>1, <1>2, <3>2, <3>5 DEF DefaultMember
      <4> HIDE DEF new
      <4>4. /\ defaults' \subseteq DefaultMember /\ IsFiniteSet(defaults')
            /\ \A m, other \in defaults' : m.id = other.id => m = other
            /\ \A m \in defaults' : m \in defaults \/ m = new
            /\ NamedOnce => DefaultsDistinct'
        BY <1>2, <3>2, <3>4, <4>2, <4>3, RowReplaced DEF DefaultsDistinct
      <4> QED
        BY <1>6, <4>3, <4>4 DEF Brings
    <3>6. CASE ~ Brought(x)
      <4>1. defaults' = defaults
        BY <3>2, <3>4, <3>6
      <4> QED
        BY <1>2, <4>1 DEF DefaultsDistinct
    <3> QED
      BY <3>5, <3>6
  <2> QED
    BY <2>1, <2>2
<1> QED
  BY <1>1, <1>4, <1>5, <1>6

LEMMA StepRunChange ==
  ASSUME CouncilsTypeOK, CouncilInv, NEW t \in tasks, RunChange(t)
  PROVE  CouncilsTypeOK' /\ CouncilInv'
<1> DEFINE r == t.of
<1>1. /\ r \in Requests /\ t.kind = "default"
      /\ tasks' = tasks \ {t}
      /\ UNCHANGED <<councils, folders>>
      /\ Held' = Held
  BY TaskIs DEF CouncilsTypeOK, RunChange, Held
<1>2. /\ \A other \in Requests \ {r} : Free(other)
      /\ \A u \in tasks : u.of = r /\ Fits(u, handler[r])
  BY <1>1, OnlyOne DEF CouncilInv, TasksInv
<1>3. handler[r].at \in {"idle", "defaults"}
  BY <1>1, <1>2 DEF Fits
<1>4. /\ handler'[r].at \in {"idle", "defaults"}
      /\ \A other \in Requests \ {r} : handler'[other] = handler[other]
      /\ handler' \in [Requests -> Handler]
      /\ handler'[r].at # "idle" => handler'[r] = handler[r]
  <2>1. CASE Becomes(r, Idle)
    BY <1>1, <2>1, IdleIs, Moved
  <2>2. CASE UNCHANGED handler
    BY <1>1, <1>3, <2>2 DEF CouncilsTypeOK
  <2> QED
    BY <2>1, <2>2 DEF RunChange
<1>5. \A u \in tasks' : u.of = r /\ Fits(u, handler[r])'
  BY <1>1, <1>2, <1>4 DEF Fits
<1>6. Holds(handler[r])' /\ Seats(handler[r])'
  BY <1>4 DEF Holds, Seats
<1>7. AloneInv' /\ TasksInv' /\ HoldsInv' /\ SeatsInv'
  BY <1>1, <1>2, <1>4, <1>5, <1>6, OneHandler
<1>8. attendance' \subseteq Member /\ \A m \in attendance' : m.council \in Held
  <2>1. attendance \subseteq Member /\ \A m \in attendance : m.council \in Held
    BY DEF CouncilsTypeOK, CouncilInv, RowsInv
  <2>2. CASE Refuses(t)
    BY <2>1, <2>2 DEF RunChange
  <2>3. CASE ~ Refuses(t)
    <3>1. attendance' = (attendance \ SeatsOf(t.change)) \cup AddedSeats(t.change)
      BY <2>3 DEF RunChange
    <3>2. SeatsOf(t.change) \subseteq attendance
      BY DEF SeatsOf
    <3>3. t.change.person \in Persons
      BY <1>1, TaskIs DEF CouncilsTypeOK, Change
    <3>4. \A m \in Member : LET g == [m EXCEPT !.people = {t.change.person}]
                            IN  g \in Member /\ g.council = m.council
      BY <3>3 DEF Member
    <3>5. \A m \in AddedSeats(t.change) : m \in Member /\ m.council \in Held
      <4> SUFFICES ASSUME NEW m \in AddedSeats(t.change)
                   PROVE  m \in Member /\ m.council \in Held
        OBVIOUS
      <4>1. PICK old \in SeatsOf(t.change) :
              m = IF Brought(t.change) THEN [old EXCEPT !.people = {t.change.person}] ELSE old
        BY DEF AddedSeats
      <4> QED
        BY <2>1, <3>2, <3>4, <4>1
    <3> QED
      BY <2>1, <3>1, <3>5
  <2> QED
    BY <2>2, <2>3
<1>9. RowsInv'
  BY <1>1, <1>8 DEF CouncilInv, RowsInv
<1>10. CASE Refuses(t)
  <2>1. UNCHANGED defaults
    BY <1>10 DEF RunChange
  <2>2. DefaultsInv'
    BY <1>1, <2>1, DefaultsStay DEF CouncilInv
  <2>3. CouncilsTypeOK'
    BY <1>1, <1>4, <1>8, <2>1 DEF CouncilsTypeOK
  <2> QED
    BY <1>7, <1>9, <2>2, <2>3 DEF CouncilInv
<1>11. CASE ~ Refuses(t)
  <2>1. defaults' = (defaults \ Row(t.change)) \cup Added(t.change)
    BY <1>11 DEF RunChange
  <2>2. /\ defaults' \subseteq DefaultMember
        /\ NamedOnce => DefaultsDistinct'
        /\ IsFiniteSet(defaults)'
        /\ \A m, other \in defaults' : m.id = other.id => m = other
        /\ \A m \in defaults' : \/ \E old \in defaults : old.person = m.person
                                \/ Brings(t) /\ m.person = t.change.person
    BY <1>1, <1>11, <2>1, ChangedDefaults
  <2>3. CouncilsTypeOK'
    BY <1>1, <1>4, <1>8, <2>2 DEF CouncilsTypeOK
  <2>4. NamedOnce => \A u \in tasks' : Brings(u) =>
          \/ InList(u.list, u.change.person)
          \/ \A m \in defaults' : m.person # u.change.person
    <3> SUFFICES ASSUME NamedOnce, NEW u \in tasks, u # t, Brings(u),
                        ~ InList(u.list, u.change.person),
                        NEW m \in defaults'
                 PROVE  m.person # u.change.person
      BY <1>1
    <3>1. \A old \in defaults : old.person # u.change.person
      BY DEF CouncilInv, DefaultsInv
    <3>2. Brings(t) => t.change.person # u.change.person
      BY DEF CouncilInv, DefaultsInv
    <3> QED
      BY <2>2, <3>1, <3>2
  <2>5. DefaultsInv'
    BY <1>1, <2>2, <2>4 DEF CouncilInv, DefaultsInv, Brings
  <2> QED
    BY <1>7, <1>9, <2>3, <2>5 DEF CouncilInv
<1> QED
  BY <1>10, <1>11

-------------------------------------------------------------------------------
(***************************************************************************)
(* The theorems.                                                           *)
(***************************************************************************)

LEMMA CouncilStep ==
  ASSUME Patient, CouncilsTypeOK, CouncilInv, [CouncilsNext]_councilsVars
  PROVE  CouncilsTypeOK' /\ CouncilInv'
<1>1. CASE UNCHANGED councilsVars
  BY <1>1 DEF councilsVars, CouncilsTypeOK, CouncilInv, AloneInv, Free, TasksInv,
     Fits, Held, RowsInv, HoldsInv, Holds, SeatsInv, Seats, Seat,
     PeopleOf, DefaultsInv, DefaultsDistinct, Brings
<1>2. ASSUME NEW r \in Requests, Begin(r)
      PROVE  CouncilsTypeOK' /\ CouncilInv'
  BY <1>2, StepBeginCreation, StepBeginUpdate, StepBeginChanges DEF Begin
<1>3. ASSUME NEW r \in Requests, Handle(r)
      PROVE  CouncilsTypeOK' /\ CouncilInv'
  BY <1>3, StepCreateFolder, StepSaveCouncil, StepEndCreation, StepEnds,
     StepRenameFolder, StepSaveUpdate DEF Handle
<1>4. ASSUME NEW t \in tasks, Run(t)
      PROVE  CouncilsTypeOK' /\ CouncilInv'
  BY <1>4, StepSaveMember, StepUpdateMember, StepRunChange DEF Run
<1>5. CASE Restart
  BY <1>5, StepProcessEnds DEF Restart
<1> QED
  BY <1>1, <1>2, <1>3, <1>4, <1>5 DEF CouncilsNext

LEMMA CouncilsInvariant ==
  ASSUME Patient
  PROVE  CouncilsSpec => [](CouncilsTypeOK /\ CouncilInv)
<1>1. CouncilsInit => CouncilsTypeOK /\ CouncilInv
  BY CouncilInit
<1>2. CouncilsTypeOK /\ CouncilInv /\ [CouncilsNext]_councilsVars
      => CouncilsTypeOK' /\ CouncilInv'
  BY CouncilStep
<1> QED
  BY <1>1, <1>2, PTL DEF CouncilsSpec

(* As many persons sit in a council as its body names, when none is named    *)
(* twice and each has its seat.                                              *)
LEMMA AllSeated ==
  ASSUME CouncilsTypeOK, CouncilInv, NEW r \in Requests,
         handler[r].at = "done"
  PROVE  /\ folders[handler[r].council] # "none"
         /\ \A i \in DOMAIN handler[r].body.members :
              Seat(handler[r].council, i, handler[r].body.members[i])
         /\ PeopleOf(handler[r].council) = Range(handler[r].body.members)
<1> DEFINE c == handler[r].council
           members == handler[r].body.members
<1>1. c \in Held
  BY DEF CouncilInv, HoldsInv, Holds
<1>2. folders[c] # "none"
  BY <1>1 DEF CouncilInv, RowsInv
<1>3. \A t \in tasks : t.of = r /\ Fits(t, handler[r])
  BY OnlyOne DEF CouncilInv, TasksInv, Free
<1>4. tasks = {}
  BY <1>3, TaskIs DEF Fits, CouncilsTypeOK
<1>5. /\ \A i \in DOMAIN members : Seat(c, i, members[i])
      /\ \A m \in attendance : m.council = c =>
           m.position \in DOMAIN members /\ m.people = {members[m.position]}
  BY <1>4 DEF CouncilInv, SeatsInv, Seats
<1> HIDE DEF c, members
<1>6. PeopleOf(c) \subseteq Range(members)
  BY <1>5 DEF PeopleOf, Range
<1>7. Range(members) \subseteq PeopleOf(c)
  <2> SUFFICES ASSUME NEW i \in DOMAIN members
               PROVE  members[i] \in PeopleOf(c)
    BY DEF Range
  <2>1. PICK m \in attendance : m.council = c /\ m.people = {members[i]}
    BY <1>5 DEF Seat
  <2> QED
    BY <2>1 DEF PeopleOf
<1> QED
  BY <1>2, <1>5, <1>6, <1>7 DEF c, members

LEMMA CreatedInFull ==
  ASSUME CouncilsTypeOK, CouncilInv
  PROVE  CreatedComplete
<1> SUFFICES ASSUME NEW r \in Requests, handler[r].at = "done"
             PROVE  /\ folders[handler[r].council] # "none"
                    /\ \A i \in DOMAIN handler[r].body.members :
                         \E m \in attendance :
                           /\ m.council = handler[r].council /\ m.position = i
                           /\ m.people = {handler[r].body.members[i]}
                    /\ Cardinality(PeopleOf(handler[r].council))
                       = Len(handler[r].body.members)
  BY DEF CreatedComplete
<1>1. ~ Repeated(handler[r].body.members)
  BY DEF CouncilInv, SeatsInv, Seats
<1> QED
  BY <1>1, AllSeated DEF Seat, Repeated

(* A creation that has been answered with success has its folder and each of *)
(* the members its body names, and the default members are distinct persons, *)
(* whatever order members and changes were saved in, and whatever failed of  *)
(* them (councils.service.ts, default-members strategies), when no other     *)
(* request is under way and no body brings the same person twice.            *)
THEOREM CouncilsAreComplete ==
  ASSUME Patient, NamedOnce
  PROVE  CouncilsSpec => []CouncilsInv
<1>1. CouncilsSpec => [](CouncilsTypeOK /\ CouncilInv)
  BY CouncilsInvariant
<1>2. CouncilsTypeOK /\ CouncilInv => CouncilsInv
  BY CreatedInFull DEF CouncilsInv, CouncilInv, DefaultsInv
<1> QED
  BY <1>1, <1>2, PTL
===============================================================================

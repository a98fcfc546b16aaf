-------------------------------- MODULE Users --------------------------------
(***************************************************************************)
(* Users, what they have access to, their permission on Drive, and the     *)
(* recovery of their passwords (users, users-access-modules and auth).     *)
(*                                                                         *)
(* Nothing of this is in a transaction: a handler saves the row, the       *)
(* accesses, one by one, and the permission on Drive in steps of its own,  *)
(* and undoes some of them when a later one is refused.                    *)
(***************************************************************************)
EXTENDS Naturals, Sequences, SequencesExt, FiniteSetsExt

CONSTANTS
  Requests,  \* handlers that may be under way at once
  Ids,       \* identifiers of users, given in order
  Gmails,    \* their addresses on Google
  Existing,  \* the modules and careers that have a row
  Bodies,    \* bodies of POST /users
  Updates,   \* bodies of PATCH /users/:id
  MaxMails,  \* bound: recovery mails sent
  Touched,   \* the users that are changed or recovered in this instance
  Failures   \* what may go wrong, each once, in this instance

Roles == {"ADMIN", "READER"}

(* Places a user may be given access to: modules and careers.                *)
Kinds == {"modules", "careers"}

Body == [outlook : STRING, google : Gmails, role : Roles,
         modules : Seq(STRING), careers : Seq(STRING)]

(* "same": the body does not have the field.                                 *)
Update == [google : Gmails \cup {"same"}, role : Roles \cup {"same"},
           active : {"same", "yes", "no"}, gives : SUBSET Kinds,
           modules : Seq(STRING), careers : Seq(STRING)]

ASSUME UsersAssumption ==
  /\ Ids \subseteq Nat \ {0} /\ Touched \subseteq Ids /\ MaxMails \in Nat
  /\ Bodies \subseteq Body /\ Updates \subseteq Update
  /\ Failures \subseteq {"drive", "restart"}

VARIABLES
  users,    \* the row of each user
  access,   \* the accesses of each, by kind
  drive,    \* the permission each address has on the shared folder
  mails,    \* to whom each recovery mail was addressed, sent or refused
  expired,  \* the mails whose token has expired
  handler,
  removing, \* refused users whose removal nothing waits for
  trouble   \* what went wrong

usersVars == <<users, access, drive, mails, expired, handler, removing, trouble>>

-------------------------------------------------------------------------------
(* token: the mail it was sent with, 0: null.                                *)
User ==
  [outlook : STRING, google : Gmails, role : Roles, active : BOOLEAN,
   token : 0..MaxMails, tries : Nat]

NoUser == [outlook |-> ""]

(* todo: the accesses left to save, then whether the address changes         *)
(* ("email"); read: the row as read at the beginning; mail: the one sent.    *)
Todo == Seq(STRING \cup {"email"})

Creating ==
  [at : {"row", "modules", "careers", "share", "created"},
   user : Ids \cup {0}, body : Bodies, todo : Todo]

Changing ==
  [at : {"modules", "careers", "clear", "clearCareers", "role", "save",
         "email", "inactive", "updated"},
   user : Ids, body : Updates, todo : Todo, read : User]

Reading ==
  [at : {"unshare", "deactivate", "password"}, user : Ids, read : User]

Mailing == [at : {"mail", "token"}, user : Ids, mail : 0..MaxMails]

Idle == [at |-> "idle"]

Handler == {Idle} \cup Creating \cup Changing \cup Reading \cup Mailing

UsersTypeOK ==
  /\ users \in [Ids -> User \cup {NoUser}]
  /\ access \in [Ids -> [Kinds -> SUBSET Existing]]
  /\ drive \in [Gmails -> {"none", "reader", "writer"}]
  /\ mails \in Seq(Ids) /\ Len(mails) \in 0..MaxMails
  /\ expired \subseteq 1..MaxMails
  /\ handler \in [Requests -> Handler]
  /\ removing \subseteq Ids /\ trouble \subseteq Failures

UsersInit ==
  /\ users = [u \in Ids |-> NoUser]
  /\ access = [u \in Ids |-> [k \in Kinds |-> {}]]
  /\ drive = [g \in Gmails |-> "none"]
  /\ mails = <<>> /\ expired = {}
  /\ handler = [r \in Requests |-> Idle]
  /\ removing = {} /\ trouble = {}

Free(r) == handler[r].at = "idle"

Doing(r, places) == handler[r].at \in places

On(r, u) == ~Free(r) /\ handler[r].user = u

Held == {u \in Ids : users[u] # NoUser}

Quiet(u) == \A r \in Requests : ~On(r, u)

(* Handlers are alike: a request takes the first that is free.               *)
MayBegin(r) == Free(r) /\ \A other \in Requests : other < r => ~Free(other)

(* The inputs considered: nobody works on a user before it is answered as    *)
(* created, nor on one that was refused.                                     *)
Known ==
  {u \in Held \ removing :
     \A r \in Requests : handler[r] \in Creating => handler[r].user # u}

MayBeginOn(r, u) == MayBegin(r) /\ u \in Touched \cap Known

Becomes(r, h) == handler' = [handler EXCEPT ![r] = h]

Goes(r, place) == handler' = [handler EXCEPT ![r].at = place]

Ends(r) == Becomes(r, Idle)

Permission(role) == IF role = "READER" THEN "reader" ELSE "writer"

(* shareAsset: the address gets the permission, or Drive refuses.            *)
Shares(google, permission) ==
  drive' = [drive EXCEPT ![google] = permission] /\ UNCHANGED trouble

GoesWrong(what) ==
  what \in Failures \ trouble /\ trouble' = trouble \cup {what}

-------------------------------------------------------------------------------
(***************************************************************************)
(* users.service create.                                                   *)
(***************************************************************************)
(* The inputs considered: nobody gives the Google address of another.        *)
Own(google, u) == \A x \in Held \ {u} : users[x].google # google

BeginCreate(r, body) ==
  /\ MayBegin(r) /\ Own(body.google, 0)
  /\ \A u \in Ids : users[u].outlook # body.outlook
  /\ \E u \in Ids : users[u] = NoUser
  /\ Becomes(r, [at |-> "row", user |-> 0, body |-> body, todo |-> <<>>])
  /\ UNCHANGED <<users, access, drive, mails, expired, removing, trouble>>

SaveRow(r) ==
  LET body == handler[r].body
      u == Min({x \in Ids : users[x] = NoUser})
  IN
  /\ Doing(r, {"row"}) /\ \E x \in Ids : users[x] = NoUser
  /\ users' = [users EXCEPT ![u] =
       [outlook |-> body.outlook, google |-> body.google, role |-> body.role,
        active |-> TRUE, token |-> 0, tries |-> 0]]
  /\ handler' = [handler EXCEPT ![r].at = "modules", ![r].user = u,
                                ![r].todo = body.modules]
  /\ UNCHANGED <<access, drive, mails, expired, removing, trouble>>

IsCreation(h) == h.body \in Bodies

(* What follows the last access of a kind.                                   *)
AfterModules(h) ==
  IF IsCreation(h)
  THEN IF h.body.careers = <<>> THEN [h EXCEPT !.at = "share"]
       ELSE [h EXCEPT !.at = "careers", !.todo = h.body.careers]
  ELSE [h EXCEPT !.at =
          IF "careers" \in h.body.gives THEN "clearCareers" ELSE "role"]

AfterCareers(h) ==
  [h EXCEPT !.at = IF IsCreation(h) THEN "share" ELSE "role"]

AfterAccess(h) ==
  LET rest == [h EXCEPT !.todo = Tail(@)] IN
  CASE rest.todo # <<>> -> rest
    [] rest.todo = <<>> /\ h.at = "modules" -> AfterModules(rest)
    [] OTHER -> AfterCareers(rest)

CanSave(h) ==
  h.todo # <<>> /\ Head(h.todo) \in Existing

(* Accesses are saved in the order given; one without a row, or none to      *)
(* save where there must be some, ends the handler with an error.            *)
SaveAccess(r) ==
  LET h == handler[r] IN
  /\ Doing(r, Kinds)
  /\ \/ /\ ~CanSave(h)
        /\ Ends(r) /\ UNCHANGED access
     \/ /\ CanSave(h)
        /\ access' =
             [access EXCEPT ![h.user][h.at] = @ \cup {Head(h.todo)}]
        /\ Becomes(r, AfterAccess(h))
  /\ UNCHANGED <<users, drive, mails, expired, removing, trouble>>

(* The share; when Drive refuses it the request is answered, and a removal   *)
(* begins that nothing waits for.                                            *)
ShareNew(r) ==
  LET h == handler[r] IN
  /\ Doing(r, {"share"})
  /\ \/ /\ Shares(h.body.google, Permission(h.body.role))
        /\ Goes(r, "created") /\ UNCHANGED removing
     \/ /\ GoesWrong("drive") /\ Ends(r) /\ UNCHANGED drive
        /\ removing' = removing \cup {h.user}
  /\ UNCHANGED <<users, access, mails, expired>>

(* remove takes the accesses with it.                                        *)
RemoveRefused(u) ==
  /\ u \in removing /\ removing' = removing \ {u}
  /\ users' = [users EXCEPT ![u] = NoUser]
  /\ access' = [access EXCEPT ![u] = [k \in Kinds |-> {}]]
  /\ UNCHANGED <<drive, mails, expired, handler, trouble>>

Answer(r) ==
  /\ Doing(r, {"created", "updated"}) /\ Ends(r)
  /\ UNCHANGED <<users, access, drive, mails, expired, removing, trouble>>

-------------------------------------------------------------------------------
(***************************************************************************)
(* users.service update: accesses are deleted and saved again, the role    *)
(* and the row follow, and then what an address loses on Drive.            *)
(***************************************************************************)
BeginUpdate(r, u, body) ==
  /\ MayBeginOn(r, u)
  /\ Own(body.google, u)
  /\ Becomes(r, [user |-> u, body |-> body, todo |-> <<>>, read |-> users[u],
                 at |-> CASE "modules" \in body.gives -> "clear"
                          [] body.gives = {"careers"} -> "clearCareers"
                          [] OTHER -> "role"])
  /\ UNCHANGED <<users, access, drive, mails, expired, removing, trouble>>

(* Mutant of Clear: the accesses there were are kept.                        *)
ClearNot(r) ==
  LET h == handler[r]
      kind == IF h.at = "clear" THEN "modules" ELSE "careers"
  IN
  /\ Doing(r, {"clear", "clearCareers"})
  /\ Becomes(r, [h EXCEPT !.at = kind, !.todo = h.body[kind]])
  /\ UNCHANGED <<users, access, drive, mails, expired, removing, trouble>>

Clear(r) ==
  LET h == handler[r]
      kind == IF h.at = "clear" THEN "modules" ELSE "careers"
  IN
  /\ Doing(r, {"clear", "clearCareers"})
  /\ access' = [access EXCEPT ![h.user][kind] = {}]
  /\ Becomes(r, [h EXCEPT !.at = kind, !.todo = h.body[kind]])
  /\ UNCHANGED <<users, drive, mails, expired, removing, trouble>>

(* The address whose permission a new role changes.                          *)
Address(h) ==
  IF h.body.google = "same" THEN users[h.user].google ELSE h.body.google

(* A role shares anew when its permission differs and the user is active, or *)
(* becomes so.                                                               *)
Sharing(h) ==
  LET user == users[h.user] IN
  /\ h.body.role # "same"
  /\ h.body.active = "yes" \/ user.active
  /\ Permission(h.body.role) # Permission(user.role)

ChangeRole(r) ==
  LET h == handler[r]
      left == IF Address(h) # users[h.user].google THEN <<"email">> ELSE <<>>
      go == [h EXCEPT !.at = "save", !.todo = left]
  IN
  /\ Doing(r, {"role"})
  /\ CASE h.user \notin Held -> Ends(r) /\ UNCHANGED <<users, drive, trouble>>
       [] h.user \in Held /\ ~Sharing(h) ->
            Becomes(r, go) /\ UNCHANGED <<users, drive, trouble>>
       [] h.user \in Held /\ Sharing(h) ->
            \/ /\ Shares(Address(h), Permission(h.body.role))
               /\ Becomes(r, go) /\ UNCHANGED users
            \/ /\ GoesWrong("drive") /\ Ends(r) /\ UNCHANGED drive
               /\ users' \in {users, [users EXCEPT ![h.user] = h.read]}
  /\ UNCHANGED <<access, mails, expired, removing>>

(* An update of a row that is gone changes nothing.                          *)
Updated(user, body) ==
  IF user = NoUser THEN user ELSE
  [user EXCEPT !.google = IF body.google = "same" THEN @ ELSE body.google,
               !.role = IF body.role = "same" THEN @ ELSE body.role,
               !.active = CASE body.active = "same" -> @
                            [] OTHER -> body.active = "yes"]

AfterSave(h) ==
  CASE h.todo # <<>> -> "email"
    [] h.todo = <<>> /\ h.body.active = "no" -> "inactive"
    [] OTHER -> "updated"

SaveUpdate(r) ==
  LET h == handler[r] IN
  /\ Doing(r, {"save"})
  /\ users' = [users EXCEPT ![h.user] = Updated(@, h.body)]
  /\ Becomes(r, [h EXCEPT !.at = AfterSave(h)])
  /\ UNCHANGED <<access, drive, mails, expired, removing, trouble>>

(* What the address the user had loses; when Drive refuses, the row is put   *)
(* back, by an update that names relations too and that TypeORM may refuse.  *)
UnshareOld(r) ==
  LET h == handler[r] IN
  /\ Doing(r, {"email"})
  /\ \/ /\ Shares(h.read.google, "reader")
        /\ Goes(r, IF h.body.active = "no" THEN "inactive" ELSE "updated")
        /\ UNCHANGED users
     \/ /\ GoesWrong("drive")
        /\ Ends(r)
        /\ users' \in {users, [users EXCEPT ![h.user] = h.read]}
        /\ UNCHANGED drive
  /\ UNCHANGED <<access, mails, expired, removing>>

(* Mutant of UnshareInactive: the row is not put back.                       *)
UnshareInactiveOnly(r) ==
  LET h == handler[r] IN
  /\ Doing(r, {"inactive"})
  /\ \/ Shares(h.read.google, "reader") /\ Goes(r, "updated")
     \/ GoesWrong("drive") /\ Ends(r) /\ UNCHANGED drive
  /\ UNCHANGED <<users, access, mails, expired, removing>>

UnshareInactive(r) ==
  LET h == handler[r] IN
  /\ Doing(r, {"inactive"})
  /\ \/ /\ Shares(h.read.google, "reader") /\ Goes(r, "updated")
        /\ UNCHANGED users
     \/ /\ GoesWrong("drive") /\ Ends(r)
        /\ users' = [users EXCEPT ![h.user] = h.read]
        /\ UNCHANGED drive
  /\ UNCHANGED <<access, mails, expired, removing>>

-------------------------------------------------------------------------------
(***************************************************************************)
(* users.service delete, and the accesses changed by themselves.           *)
(***************************************************************************)
BeginDelete(r, u) ==
  /\ MayBeginOn(r, u)
  /\ Becomes(r, [at |-> "unshare", user |-> u, read |-> users[u]])
  /\ UNCHANGED <<users, access, drive, mails, expired, removing, trouble>>

Unshare(r) ==
  /\ Doing(r, {"unshare"})
  /\ \/ Shares(handler[r].read.google, "reader") /\ Goes(r, "deactivate")
     \/ GoesWrong("drive") /\ Ends(r) /\ UNCHANGED drive
  /\ UNCHANGED <<users, access, mails, expired, removing>>

Deactivate(r) ==
  /\ Doing(r, {"deactivate"})
  /\ users' = [users EXCEPT ![handler[r].user].active = FALSE]
  /\ Ends(r)
  /\ UNCHANGED <<access, drive, mails, expired, removing, trouble>>

(* DELETE /users-access-modules, of one module or of all.                    *)
DropAccess(u, places) ==
  /\ u \in Touched \cap Known /\ \E r \in Requests : Free(r)
  /\ places # {} /\ places \subseteq access[u]["modules"]
  /\ access' = [access EXCEPT ![u]["modules"] = @ \ places]
  /\ UNCHANGED <<users, drive, mails, expired, handler, removing, trouble>>

-------------------------------------------------------------------------------
(***************************************************************************)
(* forgotPassword, resendActivationEmail and newPassword.                  *)
(***************************************************************************)
MaxTries == 3

BeginRecovery(r, u, resend) ==
  /\ MayBeginOn(r, u) /\ users[u].active
  /\ resend => users[u].tries < MaxTries
  /\ Becomes(r, [at |-> "mail", user |-> u, mail |-> 0])
  /\ UNCHANGED <<users, access, drive, mails, expired, removing, trouble>>

(* The mail goes before its token is saved. SmtpClient returns the error of  *)
(* one that is refused and nobody looks at it: the handler goes on.          *)
SendMail(r) ==
  /\ Doing(r, {"mail"}) /\ Len(mails) < MaxMails
  /\ mails' = Append(mails, handler[r].user)
  /\ Becomes(r, [handler[r] EXCEPT !.at = "token", !.mail = Len(mails) + 1])
  /\ UNCHANGED <<users, access, drive, expired, removing, trouble>>

(* Mutant of SaveToken: a token that was not used is kept.                   *)
SaveTokenOnce(r) ==
  LET h == handler[r] IN
  /\ Doing(r, {"token"})
  /\ users' = [users EXCEPT
       ![h.user].token = IF @ = 0 \/ @ \in expired THEN h.mail ELSE @,
       ![h.user].tries = @ + 1]
  /\ Ends(r)
  /\ UNCHANGED <<access, drive, mails, expired, removing, trouble>>

SaveToken(r) ==
  LET h == handler[r] IN
  /\ Doing(r, {"token"})
  /\ users' = [users EXCEPT ![h.user].token = h.mail, ![h.user].tries = @ + 1]
  /\ Ends(r)
  /\ UNCHANGED <<access, drive, mails, expired, removing, trouble>>

(* The token saved is verified, and the user is read by the one given.       *)
BeginPassword(r, u) ==
  /\ MayBeginOn(r, u) /\ users[u].active
  /\ users[u].token \notin expired \cup {0}
  /\ Becomes(r, [at |-> "password", user |-> u, read |-> users[u]])
  /\ UNCHANGED <<users, access, drive, mails, expired, removing, trouble>>

(* The user is saved as it was read.                                         *)
SavePassword(r) ==
  LET h == handler[r] IN
  /\ Doing(r, {"password"})
  /\ users' = [users EXCEPT ![h.user] = [h.read EXCEPT !.token = 0,
                                                      !.tries = 0]]
  /\ Ends(r)
  /\ UNCHANGED <<access, drive, mails, expired, removing, trouble>>

(* A token is signed for an hour.                                            *)
Expire(mail) ==
  /\ mail \in DOMAIN mails \ expired
  /\ expired' = expired \cup {mail}
  /\ UNCHANGED <<users, access, drive, mails, handler, removing, trouble>>

-------------------------------------------------------------------------------
Stop ==
  /\ GoesWrong("restart")
  /\ handler' = [r \in Requests |-> Idle] /\ removing' = {}
  /\ UNCHANGED <<users, access, drive, mails, expired>>

Begin(r) ==
  \/ \E body \in Bodies : BeginCreate(r, body)
  \/ \E u \in Held, body \in Updates : BeginUpdate(r, u, body)
  \/ \E u \in Held : BeginDelete(r, u) \/ BeginPassword(r, u)
  \/ \E u \in Held, resend \in BOOLEAN :
       Len(mails) < MaxMails /\ BeginRecovery(r, u, resend)

Continue(r) ==
  \/ SaveRow(r) \/ SaveAccess(r) \/ ShareNew(r) \/ Answer(r)
  \/ Clear(r) \/ ChangeRole(r) \/ SaveUpdate(r) \/ UnshareOld(r)
  \/ UnshareInactive(r) \/ Unshare(r) \/ Deactivate(r)
  \/ SendMail(r) \/ SaveToken(r) \/ SavePassword(r)

UsersNext ==
  \/ \E r \in Requests : Begin(r) \/ Continue(r)
  \/ \E u \in Held, places \in SUBSET Existing : DropAccess(u, places)
  \/ \E mail \in 1..MaxMails : Expire(mail)
  \/ \E u \in removing : RemoveRefused(u)
  \/ Stop

UsersSpec == UsersInit /\ [][UsersNext]_usersVars

-------------------------------------------------------------------------------
(***************************************************************************)
(* Properties.                                                             *)
(***************************************************************************)
(* A user answered as created has every access asked for and the permission  *)
(* of its role; one answered as updated has the accesses given, and no other *)
(* of their kind, though each is deleted and saved by itself.                *)
AnsweredAsAsked ==
  \A r \in Requests :
    LET h == handler[r] IN
    /\ Doing(r, {"created"}) =>
         /\ \A k \in Kinds : access[h.user][k] = Range(h.body[k])
         /\ drive[h.body.google] = Permission(h.body.role)
    /\ Doing(r, {"updated"}) =>
         \A k \in h.body.gives : access[h.user][k] = Range(h.body[k])

(* A user that is not active only reads on Drive, though Drive may refuse a  *)
(* share or to take one back (delete and update). Left out are a process     *)
(* stopped between the row and the share, a change that makes the user       *)
(* inactive and gives it another address at once (the new one is shared, the *)
(* old one is taken back), and an address Drive refused to take from that is *)
(* given back to a user.                                                     *)
InactiveOnlyReads ==
  \A u \in Held :
    ~users[u].active /\ Quiet(u) /\ "restart" \notin trouble =>
      drive[users[u].google] # "writer"

(* The token saved for a user is that of the last recovery asked for, unless *)
(* it was used or the process was stopped: the last mail works, if it        *)
(* arrived, and no earlier one does (forgotPassword, resend).                *)
LastLinkKept ==
  \A u \in Held :
    LET asked == {i \in DOMAIN mails : mails[i] = u} IN
    asked # {} /\ Quiet(u) /\ "restart" \notin trouble =>
      users[u].token \in {0, Max(asked)}

(* Users are of their type, and the token kept is the last asked for.        *)
UsersInv == UsersTypeOK /\ LastLinkKept
===============================================================================

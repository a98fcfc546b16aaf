----------------------------- MODULE UsersProofs -----------------------------
(***************************************************************************)
(* What holds of Users for any users, places and addresses, where one      *)
(* request is under way at a time.                                         *)
(***************************************************************************)
EXTENDS Users, TLAPS, SequenceTheorems, FiniteSetTheorems,
        WellFoundedInduction

-------------------------------------------------------------------------------
(***************************************************************************)
(* Sets of numbers and lists.                                              *)
(***************************************************************************)

(* Every set of numbers has a least one.                                     *)
LEMMA LeastOf ==
  ASSUME NEW T \in SUBSET Nat, T # {}
  PROVE  \E x \in T : \A y \in T : x <= y
<1> DEFINE R == OpToRel(<, Nat)
<1>1. IsWellFoundedOn(R, Nat)
  BY NatLessThanWellFounded
<1>2. PICK x \in T : \A y \in T : ~ (<<y, x>> \in R)
  <2> HIDE DEF R
  <2> QED
    BY <1>1, WFMin
<1>3. \A y \in T : ~ (y < x)
  BY <1>2 DEF OpToRel
<1> QED
  BY <1>3

(* A bounded set of numbers has a greatest one, which Max is.                *)
LEMMA MaxOf ==
  ASSUME NEW T \in SUBSET Nat, T # {}, NEW bound \in Nat, \A x \in T : x <= bound
  PROVE  Max(T) \in T /\ \A y \in T : y <= Max(T)
<1> DEFINE D == {d \in 0..bound : bound - d \in T}
<1>1. D \in SUBSET Nat /\ D # {}
  <2>1. PICK x \in T : TRUE
    OBVIOUS
  <2>2. x \in Nat /\ x <= bound
    BY <2>1
  <2>3. bound - x \in 0..bound /\ bound - (bound - x) = x
    BY <2>2
  <2>4. bound - x \in D
    BY <2>1, <2>3
  <2>5. D \subseteq Nat
    OBVIOUS
  <2> QED
    BY <2>4, <2>5
<1>2. PICK d \in D : \A e \in D : d <= e
  BY <1>1, LeastOf
<1>3. ASSUME NEW y \in T
      PROVE  bound - d >= y
  <2>1. bound - y \in 0..bound /\ bound - (bound - y) = y
    OBVIOUS
  <2>2. d <= bound - y
    BY <1>2, <2>1
  <2> QED
    BY <1>2, <2>1, <2>2
<1>4. \E x \in T : \A y \in T : x >= y
  BY <1>2, <1>3
<1>5. Max(T) \in T /\ \A y \in T : Max(T) >= y
  BY <1>4 DEF Max
<1> QED
  BY <1>5

(* The minimum of a set of numbers is in it.                                 *)
LEMMA MinOf ==
  ASSUME NEW T \in SUBSET Nat, T # {}
  PROVE  Min(T) \in T /\ \A y \in T : Min(T) <= y
<1>1. \E x \in T : \A y \in T : x <= y
  BY LeastOf
<1> QED
  BY <1>1 DEF Min

(* A list is its first element and the rest.                                 *)
LEMMA RangeSplits ==
  ASSUME NEW S, NEW s \in Seq(S), s # <<>>
  PROVE  /\ Head(s) \in S /\ Tail(s) \in Seq(S)
         /\ Range(s) = {Head(s)} \cup Range(Tail(s))
<1>1. Head(s) \in S /\ Tail(s) \in Seq(S)
      /\ Len(Tail(s)) = Len(s) - 1
      /\ \A i \in 1 .. Len(Tail(s)) : Tail(s)[i] = s[i + 1]
  BY HeadTailProperties
<1>2. Len(s) \in Nat \ {0} /\ DOMAIN s = 1..Len(s) /\ Head(s) = s[1]
      /\ DOMAIN Tail(s) = 1..Len(Tail(s))
  BY <1>1, EmptySeq, LenProperties DEF Head
<1>3. ASSUME NEW i \in DOMAIN s
      PROVE  s[i] \in {Head(s)} \cup Range(Tail(s))
  <2>1. CASE i = 1
    BY <1>2, <2>1
  <2>2. CASE i # 1
    <3>1. i - 1 \in DOMAIN Tail(s) /\ Tail(s)[i - 1] = s[i]
      BY <1>1, <1>2, <2>2
    <3> QED
      BY <3>1 DEF Range
  <2> QED
    BY <2>1, <2>2
<1>4. ASSUME NEW i \in DOMAIN Tail(s)
      PROVE  i + 1 \in DOMAIN s /\ Tail(s)[i] = s[i + 1]
  BY <1>1, <1>2
<1>5. Range(s) \subseteq {Head(s)} \cup Range(Tail(s))
  BY <1>3 DEF Range
<1>6. Range(Tail(s)) \subseteq Range(s)
  BY <1>4 DEF Range
<1>7. Head(s) \in Range(s)
  BY <1>2 DEF Range
<1> QED
  BY <1>1, <1>5, <1>6, <1>7

(* The elements of a list of one, and of none.                               *)
LEMMA RangeOfFew ==
  /\ \A x : Range(<<x>>) = {x}
  /\ \A x, y : Range(<<x, y>>) = {x, y}
  /\ Range(<<>>) = {}
<1>1. \A x : Range(<<x>>) = {x}
  BY DEF Range
<1>2. ASSUME NEW x, NEW y
      PROVE  Range(<<x, y>>) = {x, y}
  <2> DEFINE s == <<x, y>>
  <2>1. DOMAIN s = {1, 2} /\ s[1] = x /\ s[2] = y
    OBVIOUS
  <2> HIDE DEF s
  <2>2. Range(s) = {x, y}
    BY <2>1 DEF Range
  <2> QED
    BY <2>2 DEF s
<1>3. Range(<<>>) = {}
  BY DEF Range
<1> QED
  BY <1>1, <1>2, <1>3

-------------------------------------------------------------------------------
(* One request is under way at a time.                                      *)
OneRequest == \A r, s \in Requests : r = s

(* A user that has no row has no access.                                     *)
AbsentInv == \A u \in Ids \ Held, k \in Kinds : access[u][k] = {}

(* No two users have the same address.                                       *)
GoogleInv ==
  \A u, v \in Held : users[u].google = users[v].google => u = v

Sent(u) == {i \in DOMAIN mails : mails[i] = u}

(* The mail just sent, whose token is not saved yet.                         *)
Pending(u) == \E r \in Requests : Doing(r, {"token"}) /\ handler[r].user = u

LinkInv ==
  \A u \in Held :
    Sent(u) # {} /\ ~Pending(u) /\ "restart" \notin trouble =>
      users[u].token \in {0, Max(Sent(u))}

(* What the accesses of a creation have come to.                             *)
CreatingInv(h) ==
  /\ h.at = "row" <=> h.user = 0
  /\ h.at = "row" => Own(h.body.google, 0)
  /\ h.at # "row" =>
       /\ users[h.user] \in User
       /\ users[h.user].google = h.body.google /\ users[h.user].active
  /\ h.at = "modules" =>
       /\ access[h.user]["modules"] \cup Range(h.todo) = Range(h.body.modules)
       /\ access[h.user]["careers"] = {}
  /\ h.at \in {"careers", "share", "created"} =>
       access[h.user]["modules"] = Range(h.body.modules)
  /\ h.at = "careers" =>
       access[h.user]["careers"] \cup Range(h.todo) = Range(h.body.careers)
  /\ h.at \in {"share", "created"} =>
       access[h.user]["careers"] = Range(h.body.careers)
  /\ h.at = "created" => drive[h.body.google] = Permission(h.body.role)

(* What the row and the accesses of a change have come to, and that nobody   *)
(* else has an address of its.                                               *)
ChangingInv(h) ==
  /\ users[h.user] =
       IF h.at \in {"email", "inactive", "updated"} THEN Updated(h.read, h.body)
       ELSE h.read
  /\ Own(h.read.google, h.user) /\ Own(h.body.google, h.user)
  /\ h.at \in {"modules", "clear"} => "modules" \in h.body.gives
  /\ h.at \in {"careers", "clearCareers"} => "careers" \in h.body.gives
  /\ h.at = "modules" =>
       access[h.user]["modules"] \cup Range(h.todo) = Range(h.body.modules)
  /\ h.at \notin {"modules", "clear"} /\ "modules" \in h.body.gives =>
       access[h.user]["modules"] = Range(h.body.modules)
  /\ h.at = "careers" =>
       access[h.user]["careers"] \cup Range(h.todo) = Range(h.body.careers)
  /\ h.at \in {"role", "save", "email", "inactive", "updated"}
       /\ "careers" \in h.body.gives =>
       access[h.user]["careers"] = Range(h.body.careers)
  /\ h.at = "save" =>
       (h.todo # <<>> <=> h.body.google \notin {"same", h.read.google})
  /\ h.at = "email" => h.body.google \notin {"same", h.read.google}
  /\ h.at = "inactive" => h.body.active = "no"

(* A row read is the row there is.                                           *)
ReadingInv(h) == users[h.user] = h.read

(* The mail sent is the last.                                                *)
MailingInv(h) ==
  /\ users[h.user] \in User
  /\ h.at = "token" =>
       h.mail = Len(mails) /\ h.mail # 0 /\ mails[h.mail] = h.user

HandlerInv(h) ==
  /\ h \in Creating => CreatingInv(h)
  /\ h \in Changing => ChangingInv(h)
  /\ h \in Reading => ReadingInv(h)
  /\ h \in Mailing => MailingInv(h)

UsersFullInv ==
  /\ UsersTypeOK /\ AbsentInv /\ GoogleInv /\ LinkInv
  /\ \A r \in Requests : HandlerInv(handler[r])

(* A user whose removal is under way has its row, and no handler works on it.*)
RemovingInv ==
  /\ removing \subseteq Held
  /\ \A r \in Requests : ~Free(r) => handler[r].user \notin removing

-------------------------------------------------------------------------------
(* What an inactive user has on Drive is only proved where no change makes   *)
(* it inactive and gives it another address at once,                         *)
AddressesKept == \A b \in Updates : b.active = "no" => b.google = "same"

(* and where Drive does not refuse to take from an old address what it had.  *)
OldRefused == \E r \in Requests : Doing(r, {"email"}) /\ GoesWrong("drive")

(* A permission to write is of an active user,                               *)
OfActive(g) == \E u \in Held : users[u].google = g /\ users[u].active

(* or of an address a change is about to take away or to give to one.        *)
Excused(h, g) ==
  \/ h.at = "save" /\ g = Address(h) /\ (h.read.active \/ h.body.active = "yes")
  \/ h.at = "email" /\ g = h.read.google
  \/ h.at = "inactive" /\ g = h.read.google /\ h.read.active

WritersInv ==
  "restart" \notin trouble =>
    \A g \in Gmails :
      drive[g] = "writer" =>
        OfActive(g) \/ \E r \in Requests : Excused(handler[r], g)

(* What a creation has not shared yet, and what a removal took away.         *)
SharesInv ==
  \A r \in Requests : "restart" \notin trouble =>
    LET h == handler[r] IN
    /\ h \in Creating /\ h.at # "created" => drive[h.body.google] # "writer"
    /\ h \in Reading /\ h.at = "deactivate" => drive[h.read.google] # "writer"

-------------------------------------------------------------------------------
(***************************************************************************)
(* What a handler is, by where it awaits.                                  *)
(***************************************************************************)
(* A body of one kind is not one of the other.                               *)
LEMMA BodiesDiffer ==
  /\ \A h \in Creating : IsCreation(h)
  /\ \A h \in Changing : ~IsCreation(h)
<1>1. \A b \in Body : "outlook" \in DOMAIN b
  BY DEF Body
<1>2. \A b \in Update : "outlook" \notin DOMAIN b
  BY DEF Update
<1> QED
  BY <1>1, <1>2, UsersAssumption DEF Creating, Changing, IsCreation

(* A handler is of one kind.                                                 *)
LEMMA KindsDiffer ==
  /\ \A h \in Creating : h \notin Changing /\ h \notin Reading /\ h \notin Mailing
  /\ \A h \in Changing : h \notin Creating /\ h \notin Reading /\ h \notin Mailing
  /\ \A h \in Reading : h \notin Creating /\ h \notin Changing /\ h \notin Mailing
  /\ \A h \in Mailing : h \notin Creating /\ h \notin Changing /\ h \notin Reading
<1>1. \A h \in Creating : "todo" \in DOMAIN h /\ "read" \notin DOMAIN h
  BY DEF Creating
<1>2. \A h \in Changing : "todo" \in DOMAIN h /\ "read" \in DOMAIN h
  BY DEF Changing
<1>3. \A h \in Reading : "todo" \notin DOMAIN h /\ "read" \in DOMAIN h
  BY DEF Reading
<1>4. \A h \in Mailing : "todo" \notin DOMAIN h /\ "read" \notin DOMAIN h
  BY DEF Mailing
<1> QED
  BY <1>1, <1>2, <1>3, <1>4

(* Where it awaits tells of which kind it is.                                *)
LEMMA WhereItAwaits ==
  ASSUME NEW h \in Handler
  PROVE  /\ h.at \in {"row", "share", "created"} => h \in Creating
         /\ h.at \in Kinds => h \in Creating \/ h \in Changing
         /\ h.at \in {"clear", "clearCareers", "role", "save", "email",
                      "inactive", "updated"} => h \in Changing
         /\ h.at \in {"unshare", "deactivate", "password"} => h \in Reading
         /\ h.at \in {"mail", "token"} => h \in Mailing
         /\ h.at = "idle" => h = Idle
  BY DEF Handler, Creating, Changing, Reading, Mailing, Idle, Kinds

(* A user without a row is not one with a row.                               *)
LEMMA NoUserIsNone == NoUser \notin User
<1>1. \A x \in User : "google" \in DOMAIN x
  BY DEF User
<1>2. "google" \notin DOMAIN NoUser
  BY DEF NoUser
<1> QED
  BY <1>1, <1>2

(* A user held has a row of a user's type.                                   *)
LEMMA HeldTyped ==
  ASSUME UsersTypeOK
  PROVE  \A u \in Ids : u \in Held <=> users[u] \in User
  BY NoUserIsNone DEF UsersTypeOK, Held

(* What Updated makes of a row.                                              *)
LEMMA UpdatedTyped ==
  ASSUME NEW row \in User, NEW body \in Updates
  PROVE  LET new == Updated(row, body) IN
         /\ new \in User /\ new.token = row.token
         /\ new.google = IF body.google = "same" THEN row.google ELSE body.google
         /\ new.active = IF body.active = "same" THEN row.active
                         ELSE body.active = "yes"
<1>1. row # NoUser
  BY NoUserIsNone
<1>2. body \in Update
  BY UsersAssumption
<1>3. PICK google : google = IF body.google = "same" THEN row.google ELSE body.google
  OBVIOUS
<1>4. PICK role : role = IF body.role = "same" THEN row.role ELSE body.role
  OBVIOUS
<1>5. PICK active \in BOOLEAN :
        active = IF body.active = "same" THEN row.active ELSE body.active = "yes"
  BY DEF User
<1>6. Updated(row, body) =
        [row EXCEPT !.google = google, !.role = role, !.active = active]
  BY <1>1, <1>3, <1>4, <1>5 DEF Updated
<1>7. google \in Gmails /\ role \in Roles
  BY <1>2, <1>3, <1>4 DEF User, Update
<1> QED
  BY <1>3, <1>5, <1>6, <1>7 DEF User

-------------------------------------------------------------------------------
(***************************************************************************)
(* What a step has to show.                                                *)
(***************************************************************************)
(* The types of the tables.                                                  *)
TablesTypeOK ==
  /\ users \in [Ids -> User \cup {NoUser}]
  /\ access \in [Ids -> [Kinds -> SUBSET Existing]]
  /\ drive \in [Gmails -> {"none", "reader", "writer"}]
  /\ mails \in Seq(Ids) /\ Len(mails) \in 0..MaxMails
  /\ expired \subseteq 1..MaxMails
  /\ removing \subseteq Ids /\ trouble \subseteq Failures

(* The links of all users but the one whose mail was just sent by h.         *)
LinksBut(h) ==
  \A u \in Held :
    Sent(u) # {} /\ ~(h.at = "token" /\ h.user = u) /\ "restart" \notin trouble =>
      users[u].token \in {0, Max(Sent(u))}

(* With one request, its handler is all there is.                            *)
LEMMA Concludes ==
  ASSUME OneRequest, UsersTypeOK, NEW r \in Requests, NEW g \in Handler,
         handler' = [handler EXCEPT ![r] = g],
         TablesTypeOK', AbsentInv', GoogleInv', LinksBut(g)', HandlerInv(g)'
  PROVE  UsersFullInv'
<1>1. handler \in [Requests -> Handler]
  BY DEF UsersTypeOK
<1>2. handler' \in [Requests -> Handler] /\ handler'[r] = g
  BY <1>1
<1>3. UsersTypeOK'
  BY <1>2 DEF UsersTypeOK, TablesTypeOK
<1>4. \A s \in Requests : s = r
  BY DEF OneRequest
<1>5. \A s \in Requests : HandlerInv(handler[s])'
  BY <1>2, <1>4 DEF HandlerInv, CreatingInv, ChangingInv, ReadingInv, MailingInv
<1>6. LinkInv'
  <2>1. \A u : Pending(u)' <=> g.at = "token" /\ g.user = u
    BY <1>2, <1>4 DEF Pending, Doing
  <2> QED
    BY <2>1 DEF LinksBut, LinkInv
<1> QED
  BY <1>3, <1>5, <1>6 DEF UsersFullInv

(* What holds of the handler of the one request.                             *)
LEMMA HandlerFacts ==
  ASSUME OneRequest, UsersFullInv, NEW r \in Requests
  PROVE  /\ handler[r] \in Handler /\ HandlerInv(handler[r])
         /\ LinksBut(handler[r]) /\ TablesTypeOK
<1>1. \A s \in Requests : s = r
  BY DEF OneRequest
<1>2. LinksBut(handler[r])
  BY <1>1 DEF UsersFullInv, LinkInv, LinksBut, Pending, Doing
<1> QED
  BY <1>2 DEF UsersFullInv, UsersTypeOK, TablesTypeOK

(* A step that leaves the tables alone.                                      *)
LEMMA OnlyHandler ==
  ASSUME OneRequest, UsersFullInv, NEW r \in Requests, NEW g \in Handler,
         handler' = [handler EXCEPT ![r] = g],
         UNCHANGED <<users, access, drive, mails, expired, removing>>,
         trouble' \subseteq Failures,
         "restart" \in trouble => "restart" \in trouble',
         LinksBut(g), HandlerInv(g)
  PROVE  UsersFullInv'
<1>1. TablesTypeOK'
  BY HandlerFacts DEF TablesTypeOK
<1>2. AbsentInv' /\ GoogleInv'
  BY DEF UsersFullInv, AbsentInv, GoogleInv, Held
<1>3. LinksBut(g)'
  BY DEF LinksBut, Held, Sent
<1>4. HandlerInv(g)'
  BY DEF HandlerInv, CreatingInv, ChangingInv, ReadingInv, MailingInv, Own, Held
<1> QED
  BY <1>1, <1>2, <1>3, <1>4, Concludes DEF UsersFullInv

(* A handler that is not about to save a token is one that sent no mail.     *)
LEMMA LinksOf ==
  ASSUME NEW h, NEW g, LinksBut(h), h.at # "token"
  PROVE  LinksBut(g)
  BY DEF LinksBut

(* A handler that ends has nothing left to be kept.                          *)
LEMMA IdleTyped ==
  Idle \in Handler /\ Idle.at = "idle" /\ HandlerInv(Idle) /\ HandlerInv(Idle)'
<1>1. Idle \notin Creating /\ Idle \notin Changing /\ Idle \notin Reading
      /\ Idle \notin Mailing
  BY DEF Idle, Creating, Changing, Reading, Mailing
<1> QED
  BY <1>1 DEF Handler, HandlerInv, Idle

(* A handler that ends, and changes no table.                                *)
LEMMA EndsStep ==
  ASSUME OneRequest, UsersFullInv, NEW r \in Requests, Ends(r),
         handler[r].at # "token",
         UNCHANGED <<users, access, drive, mails, expired, removing>>,
         trouble' \subseteq Failures,
         "restart" \in trouble => "restart" \in trouble'
  PROVE  UsersFullInv'
<1>1. LinksBut(Idle)
  BY HandlerFacts, LinksOf
<1>2. handler' = [handler EXCEPT ![r] = Idle]
  BY DEF Ends, Becomes
<1> QED
  BY <1>1, <1>2, IdleTyped, OnlyHandler

(* What went wrong is among what may, and the process stops once.            *)
LEMMA TroubleTyped ==
  ASSUME UsersFullInv
  PROVE  /\ UNCHANGED trouble =>
              /\ trouble' \subseteq Failures
              /\ "restart" \in trouble => "restart" \in trouble'
         /\ \A what : GoesWrong(what) =>
              /\ trouble' \subseteq Failures
              /\ "restart" \in trouble => "restart" \in trouble'
  BY DEF UsersFullInv, UsersTypeOK, GoesWrong

-------------------------------------------------------------------------------
(***************************************************************************)
(* The beginnings.                                                         *)
(***************************************************************************)
(* A request that begins was free.                                           *)
LEMMA BeginsFree ==
  ASSUME OneRequest, UsersFullInv, NEW r \in Requests, MayBegin(r)
  PROVE  handler[r] = Idle /\ \A g : LinksBut(g)
<1>1. PICK h : h = handler[r]
  OBVIOUS
<1>2. h \in Handler /\ h.at = "idle" /\ LinksBut(h)
  BY <1>1, HandlerFacts DEF MayBegin, Free
<1>3. h = Idle
  BY <1>2, WhereItAwaits
<1> QED
  BY <1>1, <1>2, <1>3, LinksOf

(* POST /users.                                                              *)
LEMMA BeginCreateStep ==
  ASSUME OneRequest, UsersFullInv, NEW r \in Requests, NEW body \in Bodies,
         BeginCreate(r, body)
  PROVE  UsersFullInv'
<1> DEFINE none == <<>>
<1>1. none \in Todo
  BY EmptySeq DEF Todo
<1> HIDE DEF none
<1>2. PICK g : g = [at |-> "row", user |-> 0, body |-> body, todo |-> none]
  OBVIOUS
<1>3. g \in Creating /\ g.at = "row" /\ g.user = 0 /\ g.body = body
  BY <1>1, <1>2 DEF Creating
<1>4. CreatingInv(g)
  BY <1>3 DEF CreatingInv, BeginCreate, Kinds
<1>5. HandlerInv(g) /\ g \in Handler
  BY <1>3, <1>4, KindsDiffer DEF HandlerInv, Handler
<1>6. handler' = [handler EXCEPT ![r] = g]
  BY <1>2 DEF BeginCreate, Becomes, none
<1>7. LinksBut(g)
  BY BeginsFree DEF BeginCreate
<1> QED
  BY <1>5, <1>6, <1>7, OnlyHandler, TroubleTyped DEF BeginCreate

(* PATCH /users/:id.                                                         *)
LEMMA BeginUpdateStep ==
  ASSUME OneRequest, UsersFullInv, NEW r \in Requests, NEW u \in Held,
         NEW body \in Updates, BeginUpdate(r, u, body)
  PROVE  UsersFullInv'
<1> DEFINE none == <<>>
<1>1. none \in Todo
  BY EmptySeq DEF Todo
<1> HIDE DEF none
<1>2. PICK at : at = CASE "modules" \in body.gives -> "clear"
                       [] body.gives = {"careers"} -> "clearCareers"
                       [] OTHER -> "role"
  OBVIOUS
<1>3. body.gives \subseteq {"modules", "careers"}
  BY UsersAssumption DEF Update, Kinds
<1>4. \/ at = "clear" /\ "modules" \in body.gives
      \/ at = "clearCareers" /\ body.gives = {"careers"}
      \/ at = "role" /\ body.gives = {}
  BY <1>2, <1>3
<1>5. PICK row : row = users[u]
  OBVIOUS
<1>6. row \in User /\ u \in Ids
  BY <1>5, HeldTyped DEF UsersFullInv, Held
<1>7. PICK g : g = [user |-> u, body |-> body, todo |-> none, read |-> row,
                    at |-> at]
  OBVIOUS
<1>8. /\ g \in Changing /\ g.at = at /\ g.user = u /\ g.body = body
      /\ g.read = row
  BY <1>1, <1>4, <1>6, <1>7 DEF Changing
<1>9. Own(row.google, u)
  BY <1>5 DEF Own, UsersFullInv, GoogleInv
<1>10. Own(body.google, u)
  BY DEF BeginUpdate
<1>11. ChangingInv(g)
  BY <1>4, <1>5, <1>8, <1>9, <1>10 DEF ChangingInv
<1>12. HandlerInv(g) /\ g \in Handler
  BY <1>8, <1>11, KindsDiffer DEF HandlerInv, Handler
<1>13. handler' = [handler EXCEPT ![r] = g]
  BY <1>2, <1>5, <1>7 DEF BeginUpdate, Becomes, none
<1>14. LinksBut(g)
  BY BeginsFree DEF BeginUpdate, MayBeginOn
<1> QED
  BY <1>12, <1>13, <1>14, OnlyHandler, TroubleTyped DEF BeginUpdate

(* DELETE /users/:id, and a new password: the row is read.                   *)
LEMMA BeginReadingStep ==
  ASSUME OneRequest, UsersFullInv, NEW r \in Requests, NEW u \in Held,
         BeginDelete(r, u) \/ BeginPassword(r, u)
  PROVE  UsersFullInv'
<1>1. PICK row : row = users[u]
  OBVIOUS
<1>2. row \in User /\ u \in Ids
  BY <1>1, HeldTyped DEF UsersFullInv, Held
<1>3. PICK at \in {"unshare", "password"} :
        handler' = [handler EXCEPT ![r] = [at |-> at, user |-> u, read |-> row]]
  BY <1>1 DEF BeginDelete, BeginPassword, Becomes
<1>4. PICK g : g = [at |-> at, user |-> u, read |-> row]
  OBVIOUS
<1>5. g \in Reading /\ g.user = u /\ g.read = row
  BY <1>2, <1>4 DEF Reading
<1>6. HandlerInv(g) /\ g \in Handler
  BY <1>1, <1>5, KindsDiffer DEF HandlerInv, ReadingInv, Handler
<1>7. LinksBut(g)
  BY BeginsFree DEF BeginDelete, BeginPassword, MayBeginOn
<1> QED
  BY <1>3, <1>4, <1>6, <1>7, OnlyHandler, TroubleTyped DEF BeginDelete, BeginPassword

(* A recovery.                                                               *)
LEMMA BeginRecoveryStep ==
  ASSUME OneRequest, UsersFullInv, NEW r \in Requests, NEW u \in Held,
         NEW resend \in BOOLEAN, BeginRecovery(r, u, resend)
  PROVE  UsersFullInv'
<1>1. PICK g : g = [at |-> "mail", user |-> u, mail |-> 0]
  OBVIOUS
<1>2. u \in Ids /\ users[u] \in User
  BY HeldTyped DEF Held, UsersFullInv
<1>3. g \in Mailing /\ g.at = "mail" /\ g.user = u
  BY <1>1, <1>2, UsersAssumption DEF Mailing
<1>4. HandlerInv(g) /\ g \in Handler
  BY <1>2, <1>3, KindsDiffer DEF HandlerInv, MailingInv, Handler
<1>5. LinksBut(g)
  BY BeginsFree DEF BeginRecovery, MayBeginOn
<1>6. handler' = [handler EXCEPT ![r] = g]
  BY <1>1 DEF BeginRecovery, Becomes
<1> QED
  BY <1>4, <1>5, <1>6, OnlyHandler, TroubleTyped DEF BeginRecovery

-------------------------------------------------------------------------------
(***************************************************************************)
(* Steps that save one row, and steps that leave the rows alone.           *)
(***************************************************************************)
(* The row saved is of a user, its address nobody else's, and its token none,*)
(* that of its last mail or the one there was.                               *)
LEMMA RowStep ==
  ASSUME OneRequest, UsersFullInv, NEW r \in Requests, NEW g \in Handler,
         NEW u \in Ids, NEW new \in User,
         users' = [users EXCEPT ![u] = new],
         UNCHANGED <<access, drive, mails, expired, removing>>,
         trouble' \subseteq Failures,
         "restart" \in trouble => "restart" \in trouble',
         handler' = [handler EXCEPT ![r] = g],
         Own(new.google, u),
         handler[r].at = "token" => handler[r].user = u,
         \/ new.token = 0 \/ new.token = Max(Sent(u))
         \/ u \in Held /\ new.token = users[u].token /\ handler[r].at # "token",
         HandlerInv(g)'
  PROVE  UsersFullInv'
<1>1. /\ users \in [Ids -> User \cup {NoUser}]
      /\ new # NoUser
  BY NoUserIsNone DEF UsersFullInv, UsersTypeOK
<1>2. /\ users' \in [Ids -> User \cup {NoUser}]
      /\ users'[u] = new /\ \A v \in Ids \ {u} : users'[v] = users[v]
  BY <1>1
<1>3. Held' = Held \cup {u}
  BY <1>1, <1>2 DEF Held
<1>4. TablesTypeOK'
  BY <1>2 DEF TablesTypeOK, UsersFullInv, UsersTypeOK
<1>5. AbsentInv'
  BY <1>3 DEF AbsentInv, UsersFullInv
<1>6. GoogleInv'
  <2> SUFFICES ASSUME NEW v \in Held', NEW w \in Held',
                      users'[v].google = users'[w].google
               PROVE  v = w
    BY DEF GoogleInv
  <2>1. CASE v = u \/ w = u
    BY <1>2, <1>3, <2>1 DEF Own, Held
  <2>2. CASE v # u /\ w # u
    BY <1>2, <1>3, <2>2 DEF Held, UsersFullInv, GoogleInv
  <2> QED
    BY <2>1, <2>2
<1>7. LinksBut(g)'
  <2> SUFFICES ASSUME NEW v \in Held', Sent(v) # {}, "restart" \notin trouble',
                      ~(g.at = "token" /\ g.user = v)
               PROVE  users'[v].token \in {0, Max(Sent(v))}
    BY DEF LinksBut, Sent
  <2>1. LinksBut(handler[r])
    BY HandlerFacts
  <2>2. CASE v # u
    BY <1>2, <1>3, <2>1, <2>2 DEF LinksBut, Held
  <2>3. CASE v = u
    BY <1>2, <2>1, <2>3 DEF LinksBut
  <2> QED
    BY <2>2, <2>3
<1> QED
  BY <1>4, <1>5, <1>6, <1>7, Concludes DEF UsersFullInv

(* Accesses and permissions change, rows and mails do not.                   *)
LEMMA AroundStep ==
  ASSUME OneRequest, UsersFullInv, NEW r \in Requests, NEW g \in Handler,
         UNCHANGED <<users, mails, expired, removing>>,
         access' \in [Ids -> [Kinds -> SUBSET Existing]], AbsentInv',
         drive' \in [Gmails -> {"none", "reader", "writer"}],
         trouble' \subseteq Failures,
         "restart" \in trouble => "restart" \in trouble',
         handler' = [handler EXCEPT ![r] = g],
         handler[r].at # "token", HandlerInv(g)'
  PROVE  UsersFullInv'
<1>1. TablesTypeOK'
  BY DEF TablesTypeOK, UsersFullInv, UsersTypeOK
<1>2. GoogleInv'
  BY DEF UsersFullInv, GoogleInv, Held
<1>3. LinksBut(g)
  BY HandlerFacts, LinksOf
<1>4. LinksBut(g)'
  BY <1>3 DEF LinksBut, Held, Sent
<1> QED
  BY <1>1, <1>2, <1>4, Concludes DEF UsersFullInv

(* A permission changes.                                                     *)
LEMMA DriveStep ==
  ASSUME OneRequest, UsersFullInv, NEW r \in Requests, NEW g \in Handler,
         NEW google \in Gmails, NEW permission \in {"reader", "writer"},
         Shares(google, permission),
         UNCHANGED <<users, access, mails, expired, removing>>,
         handler' = [handler EXCEPT ![r] = g],
         handler[r].at # "token", HandlerInv(g)'
  PROVE  UsersFullInv'
<1>1. drive \in [Gmails -> {"none", "reader", "writer"}]
      /\ access \in [Ids -> [Kinds -> SUBSET Existing]]
  BY DEF UsersFullInv, UsersTypeOK
<1>2. drive' \in [Gmails -> {"none", "reader", "writer"}]
  BY <1>1 DEF Shares
<1>3. AbsentInv'
  BY DEF UsersFullInv, AbsentInv, Held
<1> QED
  BY <1>1, <1>2, <1>3, AroundStep, TroubleTyped DEF Shares

(* A handler keeps what it must once its kind does.                          *)
LEMMA KindInvs ==
  \A g : /\ g \in Creating /\ CreatingInv(g)' => g \in Handler /\ HandlerInv(g)'
         /\ g \in Changing /\ ChangingInv(g)' => g \in Handler /\ HandlerInv(g)'
         /\ g \in Reading /\ ReadingInv(g)' => g \in Handler /\ HandlerInv(g)'
         /\ g \in Mailing /\ MailingInv(g)' => g \in Handler /\ HandlerInv(g)'
  BY KindsDiffer DEF Handler, HandlerInv

(* A permission is one of the two.                                           *)
LEMMA PermissionTyped == \A role : Permission(role) \in {"reader", "writer"}
  BY DEF Permission

(* The parts of a handler with a body.                                       *)
LEMMA PartsOf ==
  /\ \A h \in Creating : /\ h.user \in Ids \cup {0} /\ h.body \in Bodies
                         /\ h.body \in Body /\ h.todo \in Todo
                         /\ h.body.google \in Gmails
                         /\ h.body.modules \in Seq(STRING)
                         /\ h.body.careers \in Seq(STRING)
  /\ \A h \in Changing : /\ h.user \in Ids /\ h.body \in Updates
                         /\ h.body \in Update /\ h.todo \in Todo
                         /\ h.read \in User /\ h.read.google \in Gmails
                         /\ h.body.modules \in Seq(STRING)
                         /\ h.body.careers \in Seq(STRING)
  /\ \A h \in Reading : /\ h.user \in Ids /\ h.read \in User
                        /\ h.read.google \in Gmails
  /\ \A h \in Mailing : h.user \in Ids /\ h.mail \in 0..MaxMails
<1>1. \A b \in Bodies : /\ b \in Body /\ b.google \in Gmails
                        /\ b.modules \in Seq(STRING) /\ b.careers \in Seq(STRING)
  BY UsersAssumption DEF Body
<1>2. \A b \in Updates : /\ b \in Update
                         /\ b.modules \in Seq(STRING) /\ b.careers \in Seq(STRING)
  BY UsersAssumption DEF Update
<1>3. \A x \in User : x.google \in Gmails
  BY DEF User
<1>4. \A h \in Creating : h.user \in Ids \cup {0} /\ h.body \in Bodies
                          /\ h.todo \in Todo
  BY DEF Creating
<1>5. \A h \in Changing : h.user \in Ids /\ h.body \in Updates
                          /\ h.todo \in Todo /\ h.read \in User
  BY DEF Changing
<1>6. \A h \in Reading : h.user \in Ids /\ h.read \in User
  BY DEF Reading
<1>7. \A h \in Mailing : h.user \in Ids /\ h.mail \in 0..MaxMails
  BY DEF Mailing
<1> QED
  BY <1>1, <1>2, <1>3, <1>4, <1>5, <1>6, <1>7

(* A list of places is something to do.                                      *)
LEMMA TodoOf == \A s \in Seq(STRING) : s \in Todo
  BY DEF Todo

-------------------------------------------------------------------------------
(***************************************************************************)
(* A creation.                                                             *)
(***************************************************************************)
(* Its row.                                                                  *)
LEMMA SaveRowStep ==
  ASSUME OneRequest, UsersFullInv, NEW r \in Requests, SaveRow(r)
  PROVE  UsersFullInv'
<1> DEFINE absent == {x \in Ids : users[x] = NoUser}
<1>1. PICK h : h = handler[r]
  OBVIOUS
<1>2. h \in Handler /\ HandlerInv(h) /\ h.at = "row"
  BY <1>1, HandlerFacts DEF SaveRow, Doing
<1>3. h \in Creating /\ CreatingInv(h)
  BY <1>2, WhereItAwaits DEF HandlerInv
<1>4. /\ h.body \in Bodies /\ h.body \in Body /\ h.body.google \in Gmails
      /\ h.body.modules \in Todo
  BY <1>3, PartsOf, TodoOf
<1>5. PICK u : u = Min(absent)
  OBVIOUS
<1>6. u \in Ids /\ users[u] = NoUser /\ u # 0
  <2>1. absent \in SUBSET Nat /\ absent # {}
    BY UsersAssumption DEF SaveRow
  <2>2. Min(absent) \in absent
    BY <2>1, MinOf
  <2> QED
    BY <1>5, <2>2, UsersAssumption
<1>7. PICK new : new =
        [outlook |-> h.body.outlook, google |-> h.body.google,
         role |-> h.body.role, active |-> TRUE, token |-> 0, tries |-> 0]
  OBVIOUS
<1>8. /\ new \in User /\ new.google = h.body.google /\ new.active
      /\ new.token = 0
  BY <1>4, <1>7, UsersAssumption DEF User, Body
<1>9. users' = [users EXCEPT ![u] = new]
  BY <1>1, <1>5, <1>7 DEF SaveRow
<1>10. PICK g : g = [h EXCEPT !.at = "modules", !.user = u,
                              !.todo = h.body.modules]
  OBVIOUS
<1>11. /\ g \in Creating /\ g.at = "modules" /\ g.user = u /\ g.body = h.body
       /\ g.todo = h.body.modules
  BY <1>3, <1>4, <1>6, <1>10 DEF Creating
<1>12. handler' = [handler EXCEPT ![r] = g]
  BY <1>1, <1>5, <1>10 DEF SaveRow
<1>13. access[u]["modules"] = {} /\ access[u]["careers"] = {}
  BY <1>6 DEF UsersFullInv, AbsentInv, Held, Kinds
<1>14. users'[u] = new
  BY <1>6, <1>9 DEF UsersFullInv, UsersTypeOK
<1>15. CreatingInv(g)'
  BY <1>6, <1>8, <1>11, <1>13, <1>14 DEF CreatingInv, SaveRow
<1>16. HandlerInv(g)' /\ g \in Handler
  BY <1>11, <1>15, KindsDiffer DEF HandlerInv, Handler
<1>17. Own(new.google, u)
  BY <1>2, <1>3, <1>8, UsersAssumption DEF CreatingInv, Own, Held
<1>18. UNCHANGED <<access, drive, mails, expired, removing, trouble>>
  BY DEF SaveRow
<1> QED
  BY <1>1, <1>2, <1>6, <1>8, <1>9, <1>12, <1>16, <1>17, <1>18, RowStep,
     TroubleTyped

(* The accesses of a user after one kind of them is replaced.                *)
LEMMA AccessOf ==
  ASSUME UsersFullInv, NEW u \in Held, NEW k \in Kinds, NEW P \in SUBSET Existing,
         access' = [access EXCEPT ![u][k] = P], UNCHANGED users
  PROVE  /\ access' \in [Ids -> [Kinds -> SUBSET Existing]] /\ AbsentInv'
         /\ access'[u][k] = P
         /\ \A other \in Kinds \ {k} : access'[u][other] = access[u][other]
<1>1. access \in [Ids -> [Kinds -> SUBSET Existing]] /\ u \in Ids
  BY DEF UsersFullInv, UsersTypeOK, Held
<1>2. access' = [access EXCEPT ![u] = [access[u] EXCEPT ![k] = P]]
  OBVIOUS
<1>3. PICK mine : mine = [access[u] EXCEPT ![k] = P]
  OBVIOUS
<1>4. mine \in [Kinds -> SUBSET Existing] /\ mine[k] = P
      /\ \A other \in Kinds \ {k} : mine[other] = access[u][other]
  BY <1>1, <1>3
<1>5. /\ access' \in [Ids -> [Kinds -> SUBSET Existing]] /\ access'[u] = mine
      /\ \A v \in Ids \ {u} : access'[v] = access[v]
  BY <1>1, <1>2, <1>3, <1>4
<1>6. AbsentInv'
  BY <1>5 DEF AbsentInv, UsersFullInv, Held
<1> QED
  BY <1>4, <1>5, <1>6

(* What remains to do once the first of it is done.                          *)
LEMMA TodoSplits ==
  ASSUME NEW todo \in Todo, todo # <<>>
  PROVE  /\ Tail(todo) \in Todo
         /\ Range(todo) = {Head(todo)} \cup Range(Tail(todo))
         /\ Tail(todo) = <<>> => Range(Tail(todo)) = {}
  BY RangeSplits, RangeOfFew DEF Todo

(* The user a handler gives accesses to is held.                             *)
LEMMA SavingFacts ==
  ASSUME OneRequest, UsersFullInv, NEW r \in Requests, Doing(r, Kinds)
  PROVE  /\ handler[r] \in Creating \/ handler[r] \in Changing
         /\ handler[r].user \in Held /\ handler[r].todo \in Todo
         /\ handler[r].at \in Kinds
<1>1. PICK h : h = handler[r]
  OBVIOUS
<1>2. h \in Handler /\ HandlerInv(h) /\ h.at \in Kinds
  BY <1>1, HandlerFacts DEF Doing
<1>3. CASE h \in Creating
  <2>1. CreatingInv(h) /\ h.at # "row"
    BY <1>2, <1>3 DEF HandlerInv, Kinds
  <2>2. h.user \in Ids \cup {0} /\ h.todo \in Todo
    BY <1>3, PartsOf
  <2>3. users[h.user] \in User /\ h.user # 0
    BY <2>1 DEF CreatingInv
  <2> QED
    BY <1>1, <1>2, <1>3, <2>2, <2>3, NoUserIsNone DEF Held
<1>4. CASE h \in Changing
  <2>1. ChangingInv(h) /\ h.at \in {"modules", "careers"}
    BY <1>2, <1>4 DEF HandlerInv, Kinds
  <2>2. h.user \in Ids /\ h.todo \in Todo /\ h.read \in User
    BY <1>4, PartsOf
  <2>3. users[h.user] = h.read
    BY <2>1 DEF ChangingInv
  <2> QED
    BY <1>1, <1>2, <1>4, <2>2, <2>3, NoUserIsNone DEF Held
<1> QED
  BY <1>2, <1>3, <1>4, WhereItAwaits

(* Where a creation goes after an access.                                    *)
LEMMA AfterCreation ==
  ASSUME NEW h \in Creating, h.at \in Kinds, h.todo # <<>>
  PROVE  /\ AfterAccess(h) \in Creating /\ AfterAccess(h).user = h.user
         /\ AfterAccess(h).body = h.body
         /\ \/ /\ Tail(h.todo) # <<>> /\ AfterAccess(h).at = h.at
               /\ AfterAccess(h).todo = Tail(h.todo)
            \/ /\ Tail(h.todo) = <<>> /\ h.at = "modules"
               /\ h.body.careers = <<>> /\ AfterAccess(h).at = "share"
            \/ /\ Tail(h.todo) = <<>> /\ h.at = "modules"
               /\ AfterAccess(h).at = "careers"
               /\ AfterAccess(h).todo = h.body.careers
            \/ /\ Tail(h.todo) = <<>> /\ h.at = "careers"
               /\ AfterAccess(h).at = "share"
<1>1. PICK todo : todo = Tail(h.todo)
  OBVIOUS
<1>2. PICK g : g = AfterAccess(h)
  OBVIOUS
<1>3. h.todo \in Todo /\ h.body.careers \in Todo /\ h.body \in Bodies
  BY PartsOf, TodoOf
<1>4. todo \in Todo
  BY <1>1, <1>3, TodoSplits
<1>5. IsCreation([h EXCEPT !.todo = todo])
  BY <1>3 DEF IsCreation, Creating
<1>6. \/ todo # <<>> /\ g = [h EXCEPT !.todo = todo]
      \/ /\ todo = <<>> /\ h.at = "modules" /\ h.body.careers = <<>>
         /\ g = [h EXCEPT !.todo = todo, !.at = "share"]
      \/ /\ todo = <<>> /\ h.at = "modules"
         /\ g = [h EXCEPT !.at = "careers", !.todo = h.body.careers]
      \/ /\ todo = <<>> /\ h.at = "careers"
         /\ g = [h EXCEPT !.todo = todo, !.at = "share"]
  <2> DEFINE rest == [h EXCEPT !.todo = todo]
  <2>1. rest.todo = todo /\ rest.body = h.body
    BY DEF Creating
  <2>2. CASE todo # <<>>
    BY <1>1, <1>2, <2>1, <2>2 DEF AfterAccess
  <2>3. CASE todo = <<>> /\ h.at = "modules"
    <3>1. g = AfterModules(rest)
      BY <1>1, <1>2, <2>1, <2>3 DEF AfterAccess
    <3>2. CASE h.body.careers = <<>>
      BY <1>5, <2>1, <2>3, <3>1, <3>2 DEF AfterModules
    <3>3. CASE h.body.careers # <<>>
      BY <1>5, <2>1, <2>3, <3>1, <3>3 DEF AfterModules, Creating
    <3> QED
      BY <3>2, <3>3
  <2>4. CASE todo = <<>> /\ h.at = "careers"
    <3>1. g = AfterCareers(rest)
      BY <1>1, <1>2, <2>1, <2>4 DEF AfterAccess
    <3> QED
      BY <1>5, <2>4, <3>1 DEF AfterCareers
  <2> QED
    BY <2>2, <2>3, <2>4 DEF Kinds
<1>7. g \in Creating /\ g.user = h.user /\ g.body = h.body
  BY <1>3, <1>4, <1>6 DEF Creating
<1>8. \/ todo # <<>> /\ g.at = h.at /\ g.todo = todo
      \/ /\ todo = <<>> /\ h.at = "modules" /\ h.body.careers = <<>>
         /\ g.at = "share"
      \/ /\ todo = <<>> /\ h.at = "modules" /\ g.at = "careers"
         /\ g.todo = h.body.careers
      \/ todo = <<>> /\ h.at = "careers" /\ g.at = "share"
  BY <1>6 DEF Creating
<1> QED
  BY <1>1, <1>2, <1>7, <1>8

(* Where a change goes after an access.                                      *)
LEMMA AfterChange ==
  ASSUME NEW h \in Changing, h.at \in Kinds, h.todo # <<>>
  PROVE  /\ AfterAccess(h) \in Changing /\ AfterAccess(h).user = h.user
         /\ AfterAccess(h).body = h.body /\ AfterAccess(h).read = h.read
         /\ \/ /\ Tail(h.todo) # <<>> /\ AfterAccess(h).at = h.at
               /\ AfterAccess(h).todo = Tail(h.todo)
            \/ /\ Tail(h.todo) = <<>>
               /\ AfterAccess(h).at =
                    IF h.at = "modules" /\ "careers" \in h.body.gives
                    THEN "clearCareers" ELSE "role"
<1>1. PICK todo : todo = Tail(h.todo)
  OBVIOUS
<1>2. PICK g : g = AfterAccess(h)
  OBVIOUS
<1>3. h.todo \in Todo
  BY PartsOf
<1>4. todo \in Todo
  BY <1>1, <1>3, TodoSplits
<1>5. ~IsCreation([h EXCEPT !.todo = todo])
  <2>1. [h EXCEPT !.todo = todo] \in Changing
    BY <1>4 DEF Changing
  <2> QED
    BY <2>1, BodiesDiffer
<1>6. PICK next :
        next = IF h.at = "modules" /\ "careers" \in h.body.gives
               THEN "clearCareers" ELSE "role"
  OBVIOUS
<1>7. \/ todo # <<>> /\ g = [h EXCEPT !.todo = todo]
      \/ todo = <<>> /\ g = [h EXCEPT !.todo = todo, !.at = next]
  <2> DEFINE rest == [h EXCEPT !.todo = todo]
  <2>1. rest.todo = todo /\ rest.body = h.body
    BY DEF Changing
  <2>2. CASE todo # <<>>
    BY <1>1, <1>2, <2>1, <2>2 DEF AfterAccess
  <2>3. CASE todo = <<>> /\ h.at = "modules"
    <3>1. g = AfterModules(rest)
      BY <1>1, <1>2, <2>1, <2>3 DEF AfterAccess
    <3> QED
      BY <1>5, <1>6, <2>1, <2>3, <3>1 DEF AfterModules
  <2>4. CASE todo = <<>> /\ h.at = "careers"
    <3>1. g = AfterCareers(rest)
      BY <1>1, <1>2, <2>1, <2>4 DEF AfterAccess
    <3> QED
      BY <1>5, <1>6, <2>4, <3>1 DEF AfterCareers
  <2> QED
    BY <2>2, <2>3, <2>4 DEF Kinds
<1>8. g \in Changing /\ g.user = h.user /\ g.body = h.body /\ g.read = h.read
  BY <1>4, <1>6, <1>7 DEF Changing
<1>9. \/ todo # <<>> /\ g.at = h.at /\ g.todo = todo
      \/ todo = <<>> /\ g.at = next
  BY <1>6, <1>7 DEF Changing
<1> QED
  BY <1>1, <1>2, <1>6, <1>8, <1>9

(* An access of a creation.                                                  *)
LEMMA SaveCreationStep ==
  ASSUME OneRequest, UsersFullInv, NEW r \in Requests, SaveAccess(r),
         CanSave(handler[r]), handler[r] \in Creating,
         access' = [access EXCEPT ![handler[r].user][handler[r].at] =
                                    @ \cup {Head(handler[r].todo)}],
         Becomes(r, AfterAccess(handler[r]))
  PROVE  UsersFullInv'
<1>1. PICK h : h = handler[r]
  OBVIOUS
<1>2. PICK u : u = h.user
  OBVIOUS
<1>3. PICK k : k = h.at
  OBVIOUS
<1>4. h \in Creating /\ u \in Held /\ k \in Kinds /\ h.todo \in Todo
  BY <1>1, <1>2, <1>3, SavingFacts DEF SaveAccess
<1>5. HandlerInv(h)
  BY <1>1, HandlerFacts
<1>6. CreatingInv(h)
  BY <1>4, <1>5 DEF HandlerInv
<1>7. /\ h.user \in Ids \cup {0} /\ h.body \in Bodies /\ h.body \in Body
      /\ h.body.careers \in Todo
  BY <1>4, PartsOf, TodoOf
<1>8. PICK place : place = Head(h.todo)
  OBVIOUS
<1>9. PICK todo : todo = Tail(h.todo)
  OBVIOUS
<1>10. /\ place \in Existing /\ todo \in Todo
       /\ Range(h.todo) = {place} \cup Range(todo)
       /\ todo = <<>> => Range(todo) = {}
  BY <1>1, <1>4, <1>8, <1>9, TodoSplits DEF CanSave
<1>11. PICK P : P = access[u][k] \cup {place}
  OBVIOUS
<1>12. P \in SUBSET Existing
  BY <1>4, <1>10, <1>11 DEF UsersFullInv, UsersTypeOK, Held
<1>13. access' = [access EXCEPT ![u][k] = P]
  BY <1>1, <1>2, <1>3, <1>8, <1>11
<1>14. UNCHANGED <<users, drive, mails, expired, removing, trouble>>
  BY DEF SaveAccess
<1>15. /\ access' \in [Ids -> [Kinds -> SUBSET Existing]] /\ AbsentInv'
       /\ access'[u][k] = P
       /\ \A other \in Kinds \ {k} : access'[u][other] = access[u][other]
  BY <1>4, <1>12, <1>13, <1>14, AccessOf
<1>16. PICK g : g = AfterAccess(h)
  OBVIOUS
<1>17. g \in Creating /\ g.user = u /\ g.body = h.body
  BY <1>2, <1>3, <1>4, <1>10, <1>16, <1>1, AfterCreation DEF SaveAccess, CanSave
<1>18. \/ todo # <<>> /\ g.at = k /\ g.todo = todo
       \/ /\ todo = <<>> /\ k = "modules" /\ h.body.careers = <<>>
          /\ g.at = "share"
       \/ /\ todo = <<>> /\ k = "modules" /\ g.at = "careers"
          /\ g.todo = h.body.careers
       \/ todo = <<>> /\ k = "careers" /\ g.at = "share"
  BY <1>1, <1>3, <1>4, <1>9, <1>16, AfterCreation DEF CanSave
<1>19. Range(<<>>) = {}
  BY RangeOfFew
<1>20. /\ u # 0 /\ users[u] \in User /\ users[u].google = h.body.google
       /\ users[u].active /\ UNCHANGED users
  BY <1>2, <1>3, <1>4, <1>6, <1>14 DEF CreatingInv, Kinds
<1>21. ASSUME k = "modules" PROVE CreatingInv(g)'
  <2>1. /\ access'[u]["modules"] \cup Range(todo) = Range(h.body.modules)
        /\ access'[u]["careers"] = {}
    BY <1>2, <1>3, <1>6, <1>10, <1>11, <1>15, <1>21 DEF CreatingInv, Kinds
  <2> QED
    BY <1>10, <1>17, <1>18, <1>19, <1>20, <1>21, <2>1 DEF CreatingInv
<1>22. ASSUME k = "careers" PROVE CreatingInv(g)'
  <2>1. /\ access'[u]["modules"] = Range(h.body.modules)
        /\ access'[u]["careers"] \cup Range(todo) = Range(h.body.careers)
    BY <1>2, <1>3, <1>6, <1>10, <1>11, <1>15, <1>22 DEF CreatingInv, Kinds
  <2> QED
    BY <1>10, <1>17, <1>18, <1>19, <1>20, <1>22, <2>1 DEF CreatingInv
<1>23. CreatingInv(g)'
  BY <1>4, <1>21, <1>22 DEF Kinds
<1>24. g \in Handler /\ HandlerInv(g)'
  BY <1>17, <1>23, KindInvs
<1>25. handler' = [handler EXCEPT ![r] = g]
  BY <1>1, <1>16 DEF Becomes
<1>26. handler[r].at # "token"
  BY <1>1, <1>3, <1>4 DEF Kinds
<1>27. drive' \in [Gmails -> {"none", "reader", "writer"}]
  BY <1>14 DEF UsersFullInv, UsersTypeOK
<1> QED
  BY <1>14, <1>15, <1>24, <1>25, <1>26, <1>27, AroundStep, TroubleTyped

(* An access of a change.                                                    *)
LEMMA SaveChangeStep ==
  ASSUME OneRequest, UsersFullInv, NEW r \in Requests, SaveAccess(r),
         CanSave(handler[r]), handler[r] \in Changing,
         access' = [access EXCEPT ![handler[r].user][handler[r].at] =
                                    @ \cup {Head(handler[r].todo)}],
         Becomes(r, AfterAccess(handler[r]))
  PROVE  UsersFullInv'
<1>1. PICK h : h = handler[r]
  OBVIOUS
<1>2. PICK u : u = h.user
  OBVIOUS
<1>3. PICK k : k = h.at
  OBVIOUS
<1>4. h \in Changing /\ u \in Held /\ k \in Kinds /\ h.todo \in Todo
  BY <1>1, <1>2, <1>3, SavingFacts DEF SaveAccess
<1>5. HandlerInv(h)
  BY <1>1, HandlerFacts
<1>6. ChangingInv(h)
  BY <1>4, <1>5 DEF HandlerInv
<1>7. h.user \in Ids /\ h.body \in Updates /\ h.read \in User
  BY <1>4, PartsOf
<1>8. PICK place : place = Head(h.todo)
  OBVIOUS
<1>9. PICK todo : todo = Tail(h.todo)
  OBVIOUS
<1>10. /\ place \in Existing /\ todo \in Todo
       /\ Range(h.todo) = {place} \cup Range(todo)
       /\ todo = <<>> => Range(todo) = {}
  BY <1>1, <1>4, <1>8, <1>9, TodoSplits DEF CanSave
<1>11. PICK P : P = access[u][k] \cup {place}
  OBVIOUS
<1>12. P \in SUBSET Existing
  BY <1>4, <1>10, <1>11 DEF UsersFullInv, UsersTypeOK, Held
<1>13. access' = [access EXCEPT ![u][k] = P]
  BY <1>1, <1>2, <1>3, <1>8, <1>11
<1>14. UNCHANGED <<users, drive, mails, expired, removing, trouble>>
  BY DEF SaveAccess
<1>15. /\ access' \in [Ids -> [Kinds -> SUBSET Existing]] /\ AbsentInv'
       /\ access'[u][k] = P
       /\ \A other \in Kinds \ {k} : access'[u][other] = access[u][other]
  BY <1>4, <1>12, <1>13, <1>14, AccessOf
<1>16. PICK g : g = AfterAccess(h)
  OBVIOUS
<1>17. PICK next :
         next = IF k = "modules" /\ "careers" \in h.body.gives
                THEN "clearCareers" ELSE "role"
  OBVIOUS
<1>18. g \in Changing /\ g.user = u /\ g.body = h.body /\ g.read = h.read
  BY <1>1, <1>2, <1>3, <1>4, <1>16, AfterChange DEF CanSave
<1>19. \/ todo # <<>> /\ g.at = k /\ g.todo = todo
       \/ todo = <<>> /\ g.at = next
  BY <1>1, <1>3, <1>4, <1>9, <1>16, <1>17, AfterChange DEF CanSave
<1>20. /\ users'[u] = h.read
       /\ Own(h.read.google, u)' /\ Own(h.body.google, u)'
  BY <1>2, <1>3, <1>4, <1>6, <1>14 DEF ChangingInv, Kinds, Own, Held
<1>21. ASSUME k = "modules" PROVE ChangingInv(g)'
  <2>1. /\ access'[u]["modules"] \cup Range(todo) = Range(h.body.modules)
        /\ "modules" \in h.body.gives
    BY <1>2, <1>3, <1>6, <1>10, <1>11, <1>15, <1>21 DEF ChangingInv, Kinds
  <2> QED
    BY <1>10, <1>17, <1>18, <1>19, <1>20, <1>21, <2>1 DEF ChangingInv
<1>22. ASSUME k = "careers" PROVE ChangingInv(g)'
  <2>1. /\ "modules" \in h.body.gives =>
             access'[u]["modules"] = Range(h.body.modules)
        /\ access'[u]["careers"] \cup Range(todo) = Range(h.body.careers)
        /\ "careers" \in h.body.gives
    BY <1>2, <1>3, <1>6, <1>10, <1>11, <1>15, <1>22 DEF ChangingInv, Kinds
  <2> QED
    BY <1>10, <1>17, <1>18, <1>19, <1>20, <1>22, <2>1 DEF ChangingInv
<1>23. ChangingInv(g)'
  BY <1>4, <1>21, <1>22 DEF Kinds
<1>24. g \in Handler /\ HandlerInv(g)'
  BY <1>18, <1>23, KindInvs
<1>25. handler' = [handler EXCEPT ![r] = g]
  BY <1>1, <1>16 DEF Becomes
<1>26. handler[r].at # "token"
  BY <1>1, <1>3, <1>4 DEF Kinds
<1>27. drive' \in [Gmails -> {"none", "reader", "writer"}]
  BY <1>14 DEF UsersFullInv, UsersTypeOK
<1> QED
  BY <1>14, <1>15, <1>24, <1>25, <1>26, <1>27, AroundStep, TroubleTyped

(* An access, of either, or an error.                                        *)
LEMMA SaveAccessStep ==
  ASSUME OneRequest, UsersFullInv, NEW r \in Requests, SaveAccess(r)
  PROVE  UsersFullInv'
<1>1. UNCHANGED <<users, drive, mails, expired, removing, trouble>>
  BY DEF SaveAccess
<1>2. handler[r].at \in Kinds /\ (handler[r] \in Creating \/ handler[r] \in Changing)
  BY SavingFacts DEF SaveAccess
<1>3. CASE ~CanSave(handler[r]) /\ Ends(r) /\ UNCHANGED access
  BY <1>1, <1>2, <1>3, EndsStep, TroubleTyped DEF Kinds
<1>4. CASE /\ CanSave(handler[r])
           /\ access' = [access EXCEPT ![handler[r].user][handler[r].at] =
                                         @ \cup {Head(handler[r].todo)}]
           /\ Becomes(r, AfterAccess(handler[r]))
  BY <1>2, <1>4, SaveCreationStep, SaveChangeStep
<1> QED
  BY <1>3, <1>4 DEF SaveAccess

(* The share of its address, or its refusal.                                 *)
LEMMA ShareNewStep ==
  ASSUME OneRequest, UsersFullInv, NEW r \in Requests, ShareNew(r)
  PROVE  UsersFullInv'
<1>1. PICK h : h = handler[r]
  OBVIOUS
<1>2. h \in Handler /\ HandlerInv(h) /\ h.at = "share"
  BY <1>1, HandlerFacts DEF ShareNew, Doing
<1>3. h \in Creating /\ CreatingInv(h)
  BY <1>2, WhereItAwaits DEF HandlerInv
<1>4. h.body.google \in Gmails
  BY <1>3, PartsOf
<1>5. UNCHANGED <<users, access, mails, expired>>
  BY DEF ShareNew
<1>6. LET g == [h EXCEPT !.at = "created"] IN
      /\ g \in Creating /\ g.at = "created"
      /\ g.user = h.user /\ g.body = h.body
  BY <1>3 DEF Creating
<1>7. /\ users'[h.user] \in User /\ users'[h.user].google = h.body.google
      /\ users'[h.user].active /\ h.user # 0
      /\ access'[h.user]["modules"] = Range(h.body.modules)
      /\ access'[h.user]["careers"] = Range(h.body.careers)
  BY <1>2, <1>3, <1>5 DEF CreatingInv
<1>8. CASE /\ Shares(h.body.google, Permission(h.body.role))
           /\ Goes(r, "created") /\ UNCHANGED removing
  <2>1. PICK g : g = [h EXCEPT !.at = "created"]
    OBVIOUS
  <2>2. g \in Creating /\ g.at = "created" /\ g.user = h.user /\ g.body = h.body
    BY <1>6, <2>1
  <2>3. drive'[h.body.google] = Permission(h.body.role)
    BY <1>4, <1>8 DEF Shares, UsersFullInv, UsersTypeOK
  <2>4. CreatingInv(g)'
    BY <1>7, <2>2, <2>3 DEF CreatingInv
  <2>5. g \in Handler /\ HandlerInv(g)'
    BY <2>2, <2>4, KindInvs
  <2>6. handler' = [handler EXCEPT ![r] = g]
    BY <1>1, <1>8, <2>1 DEF Goes
  <2> QED
    BY <1>1, <1>2, <1>4, <1>5, <1>8, <2>5, <2>6, DriveStep, PermissionTyped
<1>9. CASE /\ GoesWrong("drive") /\ Ends(r) /\ UNCHANGED drive
           /\ removing' = removing \cup {h.user}
  <2>1. h.user \in Ids
    BY <1>3, <1>7, PartsOf
  <2>2. TablesTypeOK'
    BY <1>5, <1>9, <2>1, TroubleTyped DEF UsersFullInv, UsersTypeOK, TablesTypeOK
  <2>3. AbsentInv' /\ GoogleInv'
    BY <1>5 DEF UsersFullInv, AbsentInv, GoogleInv, Held
  <2>4. LinksBut(Idle)
    BY <1>1, <1>2, HandlerFacts, LinksOf
  <2>5. LinksBut(Idle)'
    BY <1>5, <1>9, <2>4, TroubleTyped DEF LinksBut, Held, Sent
  <2>6. handler' = [handler EXCEPT ![r] = Idle]
    BY <1>9 DEF Ends, Becomes
  <2> QED
    BY <2>2, <2>3, <2>5, <2>6, Concludes, IdleTyped DEF UsersFullInv
<1> QED
  BY <1>1, <1>8, <1>9 DEF ShareNew

(* The removal of one that was refused, on which no handler works.           *)
LEMMA RemoveRefusedStep ==
  ASSUME UsersFullInv, RemovingInv, NEW u \in removing, RemoveRefused(u)
  PROVE  UsersFullInv'
<1>1. u \in Ids
  BY DEF UsersFullInv, UsersTypeOK
<1>2. PICK none : none = [k \in Kinds |-> {}]
  OBVIOUS
<1>3. /\ users' = [users EXCEPT ![u] = NoUser]
      /\ access' = [access EXCEPT ![u] = none]
      /\ removing' = removing \ {u}
      /\ UNCHANGED <<drive, mails, expired, handler, trouble>>
  BY <1>2 DEF RemoveRefused
<1>4. /\ users \in [Ids -> User \cup {NoUser}]
      /\ access \in [Ids -> [Kinds -> SUBSET Existing]]
      /\ none \in [Kinds -> SUBSET Existing] /\ \A k \in Kinds : none[k] = {}
  BY <1>2 DEF UsersFullInv, UsersTypeOK
<1>5. /\ users' \in [Ids -> User \cup {NoUser}]
      /\ access' \in [Ids -> [Kinds -> SUBSET Existing]]
      /\ access'[u] = none /\ \A v \in Ids \ {u} : access'[v] = access[v]
      /\ users'[u] = NoUser /\ \A v \in Ids \ {u} : users'[v] = users[v]
  BY <1>1, <1>3, <1>4
<1>6. Held' = Held \ {u}
  BY <1>5 DEF Held
<1>7. UsersTypeOK'
  BY <1>3, <1>5 DEF UsersFullInv, UsersTypeOK
<1>8. AbsentInv'
  BY <1>4, <1>5, <1>6 DEF AbsentInv, UsersFullInv
<1>9. GoogleInv'
  BY <1>5, <1>6 DEF GoogleInv, UsersFullInv, Held
<1>10. LinkInv'
  <2>1. \A v : Sent(v)' = Sent(v) /\ (Pending(v)' <=> Pending(v))
    BY <1>3 DEF Sent, Pending, Doing
  <2> QED
    BY <1>3, <1>5, <1>6, <2>1 DEF LinkInv, UsersFullInv, Held
<1>11. ASSUME NEW r \in Requests PROVE HandlerInv(handler[r])'
  <2>1. PICK h : h = handler[r]
    OBVIOUS
  <2>2. h \in Handler /\ HandlerInv(h) /\ (h # Idle => h.user # u)
    BY <2>1, WhereItAwaits DEF UsersFullInv, UsersTypeOK, RemovingInv, Free
  <2>3. \A g, v : Own(g, v) => Own(g, v)'
    BY <1>5, <1>6 DEF Own, Held
  <2>4. ASSUME h \in Creating PROVE CreatingInv(h)'
    <3>1. CreatingInv(h) /\ h.user # u /\ h.user \in Ids \cup {0}
      BY <2>2, <2>4, PartsOf, IdleTyped DEF HandlerInv, Idle, Creating
    <3>2. CASE h.at = "row"
      BY <2>3, <3>1, <3>2 DEF CreatingInv
    <3>3. CASE h.at # "row"
      <4>1. h.user \in Ids \ {u}
        BY <3>1, <3>3 DEF CreatingInv
      <4> QED
        BY <1>3, <1>5, <3>1, <3>3, <4>1 DEF CreatingInv
    <3> QED
      BY <3>2, <3>3
  <2>5. ASSUME h \in Changing PROVE ChangingInv(h)'
    <3>1. ChangingInv(h) /\ h.user \in Ids \ {u}
      BY <2>2, <2>5, PartsOf DEF HandlerInv, Idle, Changing
    <3> QED
      BY <1>5, <2>3, <3>1 DEF ChangingInv
  <2>6. ASSUME h \in Reading PROVE ReadingInv(h)'
    <3>1. ReadingInv(h) /\ h.user \in Ids \ {u}
      BY <2>2, <2>6, PartsOf DEF HandlerInv, Idle, Reading
    <3> QED
      BY <1>5, <3>1 DEF ReadingInv
  <2>7. ASSUME h \in Mailing PROVE MailingInv(h)'
    <3>1. MailingInv(h) /\ h.user \in Ids \ {u}
      BY <2>2, <2>7, PartsOf DEF HandlerInv, Idle, Mailing
    <3> QED
      BY <1>3, <1>5, <3>1 DEF MailingInv
  <2>8. HandlerInv(h)' /\ handler'[r] = h
    BY <1>3, <2>1, <2>4, <2>5, <2>6, <2>7 DEF HandlerInv
  <2> QED
    BY <2>8 DEF HandlerInv, CreatingInv, ChangingInv, ReadingInv, MailingInv
<1> QED
  BY <1>7, <1>8, <1>9, <1>10, <1>11 DEF UsersFullInv

(* The answer.                                                               *)
LEMMA AnswerStep ==
  ASSUME OneRequest, UsersFullInv, NEW r \in Requests, Answer(r)
  PROVE  UsersFullInv'
  BY EndsStep, TroubleTyped DEF Answer, Doing

-------------------------------------------------------------------------------
(***************************************************************************)
(* A change.                                                               *)
(***************************************************************************)
(* The user changed is held; its row is as read until it is saved.           *)
LEMMA ChangingFacts ==
  ASSUME OneRequest, UsersFullInv, NEW r \in Requests,
         Doing(r, {"clear", "clearCareers", "role", "save", "email", "inactive"})
  PROVE  LET h == handler[r] IN
         /\ h \in Changing /\ ChangingInv(h) /\ h.at # "token"
         /\ h.user \in Held /\ h.user \in Ids
         /\ h.body \in Updates /\ h.body \in Update
         /\ h.read \in User /\ h.read.google \in Gmails
         /\ users[h.user] \in User /\ users[h.user].token = h.read.token
<1>1. PICK h : h = handler[r]
  OBVIOUS
<1>2. /\ h \in Handler /\ HandlerInv(h)
      /\ h.at \in {"clear", "clearCareers", "role", "save", "email", "inactive"}
  BY <1>1, HandlerFacts DEF Doing
<1>3. h \in Changing /\ ChangingInv(h)
  BY <1>2, WhereItAwaits DEF HandlerInv
<1>4. /\ h.user \in Ids /\ h.body \in Updates /\ h.body \in Update
      /\ h.read \in User /\ h.read.google \in Gmails
  BY <1>3, PartsOf
<1>5. users[h.user] \in {h.read, Updated(h.read, h.body)}
  BY <1>3 DEF ChangingInv
<1>6. users[h.user] \in User /\ users[h.user].token = h.read.token
  BY <1>4, <1>5, UpdatedTyped
<1>7. h.user \in Held
  BY <1>4, <1>6, NoUserIsNone DEF Held
<1> QED
  BY <1>1, <1>2, <1>3, <1>4, <1>6, <1>7

(* Its accesses are deleted.                                                 *)
LEMMA ClearStep ==
  ASSUME OneRequest, UsersFullInv, NEW r \in Requests, Clear(r)
  PROVE  UsersFullInv'
<1>1. PICK h : h = handler[r]
  OBVIOUS
<1>2. /\ h \in Changing /\ ChangingInv(h) /\ h.at # "token"
      /\ h.at \in {"clear", "clearCareers"} /\ h.user \in Held
  BY <1>1, ChangingFacts DEF Clear, Doing
<1>3. PICK kind : kind = IF h.at = "clear" THEN "modules" ELSE "careers"
  OBVIOUS
<1>4. PICK todo : todo = h.body[kind]
  OBVIOUS
<1>5. todo \in Todo /\ kind \in Kinds
  BY <1>2, <1>3, <1>4, PartsOf, TodoOf DEF Kinds
<1>6. PICK g : g = [h EXCEPT !.at = kind, !.todo = todo]
  OBVIOUS
<1>7. /\ g \in Changing /\ g.at = kind /\ g.todo = todo
      /\ g.user = h.user /\ g.body = h.body /\ g.read = h.read
  BY <1>2, <1>3, <1>5, <1>6 DEF Changing
<1>8. /\ access' = [access EXCEPT ![h.user][kind] = {}]
      /\ handler' = [handler EXCEPT ![r] = g]
      /\ UNCHANGED <<users, drive, mails, expired, removing, trouble>>
  BY <1>1, <1>3, <1>4, <1>6 DEF Clear, Becomes
<1>9. /\ access' \in [Ids -> [Kinds -> SUBSET Existing]] /\ AbsentInv'
      /\ access'[h.user][kind] = {}
      /\ \A other \in Kinds \ {kind} :
           access'[h.user][other] = access[h.user][other]
  <2>1. PICK empty \in SUBSET Existing : empty = {}
    OBVIOUS
  <2>2. PICK u \in Held : u = h.user
    BY <1>2
  <2>3. access' = [access EXCEPT ![u][kind] = empty]
    BY <1>8, <2>1, <2>2
  <2> QED
    BY <1>5, <1>8, <2>1, <2>2, <2>3, AccessOf
<1>10. /\ users'[h.user] = h.read
       /\ Own(h.read.google, h.user)' /\ Own(h.body.google, h.user)'
  BY <1>2, <1>8 DEF ChangingInv, Own, Held
<1>11. kind \in h.body.gives
  BY <1>2, <1>3 DEF ChangingInv
<1>12. kind = "careers" /\ "modules" \in h.body.gives =>
         access[h.user]["modules"] = Range(h.body.modules)
  BY <1>2, <1>3 DEF ChangingInv
<1>13. ChangingInv(g)'
  BY <1>4, <1>5, <1>7, <1>9, <1>10, <1>11, <1>12 DEF ChangingInv, Kinds
<1>14. g \in Handler /\ HandlerInv(g)'
  BY <1>7, <1>13, KindInvs
<1>15. drive' \in [Gmails -> {"none", "reader", "writer"}]
  BY <1>8 DEF UsersFullInv, UsersTypeOK
<1> QED
  BY <1>1, <1>2, <1>8, <1>9, <1>14, <1>15, AroundStep, TroubleTyped

(* The accesses of a change that has saved them are as it gave them.         *)
AccessesGiven(h) ==
  /\ "modules" \in h.body.gives =>
       access[h.user]["modules"] = Range(h.body.modules)
  /\ "careers" \in h.body.gives =>
       access[h.user]["careers"] = Range(h.body.careers)

(* Its role.                                                                 *)
LEMMA ChangeRoleStep ==
  ASSUME OneRequest, UsersFullInv, NEW r \in Requests, ChangeRole(r)
  PROVE  UsersFullInv'
<1>1. PICK h : h = handler[r]
  OBVIOUS
<1>2. /\ h \in Changing /\ ChangingInv(h) /\ h.at # "token" /\ h.at = "role"
      /\ h.user \in Held /\ h.user \in Ids /\ h.body \in Update
      /\ h.read \in User /\ h.read.google \in Gmails
  BY <1>1, ChangingFacts DEF ChangeRole, Doing
<1>3. UNCHANGED <<access, mails, expired, removing>>
  BY DEF ChangeRole
<1>4. users[h.user] = h.read /\ AccessesGiven(h)
      /\ Own(h.read.google, h.user) /\ Own(h.body.google, h.user)
  BY <1>2 DEF ChangingInv, AccessesGiven
<1>5. PICK todo : todo =
        IF Address(h) # users[h.user].google THEN <<"email">> ELSE <<>>
  OBVIOUS
<1>6. todo \in Todo
  <2>1. "email" \in STRING \cup {"email"}
    OBVIOUS
  <2>2. \A S : \A x \in S : <<x>> \in Seq(S) /\ <<>> \in Seq(S)
    OBVIOUS
  <2> QED
    BY <1>5, <2>1, <2>2 DEF Todo
<1>7. todo # <<>> <=> h.body.google \notin {"same", h.read.google}
  <2>1. <<"email">> # <<>>
    OBVIOUS
  <2> QED
    BY <1>4, <1>5, <2>1 DEF Address
<1>8. PICK g : g = [h EXCEPT !.at = "save", !.todo = todo]
  OBVIOUS
<1>9. /\ g \in Changing /\ g.at = "save" /\ g.todo = todo
      /\ g.user = h.user /\ g.body = h.body /\ g.read = h.read
  BY <1>2, <1>6, <1>8 DEF Changing
<1>10. ASSUME UNCHANGED users PROVE g \in Handler /\ HandlerInv(g)'
  <2>1. ChangingInv(g)'
    BY <1>3, <1>4, <1>7, <1>9, <1>10 DEF ChangingInv, AccessesGiven, Own, Held
  <2> QED
    BY <1>9, <2>1, KindInvs
<1>11. /\ access' \in [Ids -> [Kinds -> SUBSET Existing]]
       /\ UNCHANGED users => AbsentInv'
       /\ UNCHANGED drive => drive' \in [Gmails -> {"none", "reader", "writer"}]
  BY <1>3 DEF UsersFullInv, UsersTypeOK, AbsentInv, Held
<1>12. CASE Becomes(r, g) /\ UNCHANGED <<users, drive, trouble>>
  <2>1. handler' = [handler EXCEPT ![r] = g] /\ UNCHANGED users
        /\ UNCHANGED trouble /\ UNCHANGED drive
    BY <1>12 DEF Becomes
  <2> QED
    BY <1>1, <1>2, <1>3, <1>10, <1>11, <2>1, AroundStep, TroubleTyped
<1>13. CASE /\ Shares(Address(h), Permission(h.body.role))
            /\ Becomes(r, g) /\ UNCHANGED users
  <2>1. Address(h) \in Gmails
    <3>1. h.body.google # "same" => h.body.google \in Gmails
      BY <1>2 DEF Update
    <3> QED
      BY <1>2, <1>4, <3>1 DEF Address
  <2>2. handler' = [handler EXCEPT ![r] = g]
    BY <1>13 DEF Becomes
  <2> QED
    BY <1>1, <1>2, <1>3, <1>10, <1>13, <2>1, <2>2, DriveStep, PermissionTyped
<1>14. CASE /\ GoesWrong("drive") /\ Ends(r) /\ UNCHANGED drive
            /\ users' \in {users, [users EXCEPT ![h.user] = h.read]}
  <2>1. UNCHANGED users
    BY <1>2, <1>4, <1>14 DEF UsersFullInv, UsersTypeOK
  <2> QED
    BY <1>1, <1>2, <1>3, <1>14, <2>1, EndsStep, TroubleTyped
<1> QED
  <2>1. PICK go : go = [h EXCEPT !.at = "save", !.todo =
          IF Address(h) # users[h.user].google THEN <<"email">> ELSE <<>>]
    OBVIOUS
  <2>2. go = g
    BY <1>5, <1>8, <2>1
  <2>3. \/ Becomes(r, go) /\ UNCHANGED <<users, drive, trouble>>
        \/ /\ Shares(Address(h), Permission(h.body.role))
           /\ Becomes(r, go) /\ UNCHANGED users
        \/ /\ GoesWrong("drive") /\ Ends(r) /\ UNCHANGED drive
           /\ users' \in {users, [users EXCEPT ![h.user] = h.read]}
    BY <1>1, <1>2, <2>1 DEF ChangeRole
  <2> QED
    BY <1>12, <1>13, <1>14, <2>2, <2>3

(* Its row.                                                                  *)
LEMMA SaveUpdateStep ==
  ASSUME OneRequest, UsersFullInv, NEW r \in Requests, SaveUpdate(r)
  PROVE  UsersFullInv'
<1>1. PICK h : h = handler[r]
  OBVIOUS
<1>2. /\ h \in Changing /\ ChangingInv(h) /\ h.at # "token" /\ h.at = "save"
      /\ h.user \in Held /\ h.user \in Ids /\ h.body \in Updates
      /\ h.read \in User /\ users[h.user].token = h.read.token
  BY <1>1, ChangingFacts DEF SaveUpdate, Doing
<1>3. UNCHANGED <<access, drive, mails, expired, removing, trouble>>
  BY DEF SaveUpdate
<1>4. users[h.user] = h.read /\ AccessesGiven(h)
      /\ Own(h.read.google, h.user) /\ Own(h.body.google, h.user)
      /\ (h.todo # <<>> <=> h.body.google \notin {"same", h.read.google})
  BY <1>2 DEF ChangingInv, AccessesGiven
<1>5. PICK new : new = Updated(h.read, h.body)
  OBVIOUS
<1>6. /\ new \in User /\ new.token = h.read.token
      /\ new.google \in {h.read.google, h.body.google}
  BY <1>2, <1>5, UpdatedTyped
<1>7. PICK place : place = AfterSave(h)
  OBVIOUS
<1>8. \/ place = "email" /\ h.todo # <<>>
      \/ place = "inactive" /\ h.todo = <<>> /\ h.body.active = "no"
      \/ place = "updated"
  BY <1>7 DEF AfterSave
<1>9. PICK g : g = [h EXCEPT !.at = place]
  OBVIOUS
<1>10. /\ g \in Changing /\ g.at = place
       /\ g.user = h.user /\ g.body = h.body /\ g.read = h.read
  BY <1>2, <1>8, <1>9 DEF Changing
<1>11. /\ users' = [users EXCEPT ![h.user] = new]
       /\ handler' = [handler EXCEPT ![r] = g]
  BY <1>1, <1>4, <1>5, <1>7, <1>9 DEF SaveUpdate, Becomes
<1>12. /\ users'[h.user] = new
       /\ \A v \in Ids \ {h.user} : users'[v] = users[v]
  BY <1>2, <1>11 DEF UsersFullInv, UsersTypeOK
<1>13. Own(new.google, h.user)
  BY <1>4, <1>6
<1>14. Own(h.read.google, h.user)' /\ Own(h.body.google, h.user)'
  BY <1>4, <1>12 DEF Own, Held
<1>15. ChangingInv(g)'
  BY <1>3, <1>4, <1>5, <1>8, <1>10, <1>12, <1>14 DEF ChangingInv, AccessesGiven
<1>16. g \in Handler /\ HandlerInv(g)'
  BY <1>10, <1>15, KindInvs
<1>17. new.token = users[h.user].token /\ handler[r].at # "token"
  BY <1>1, <1>2, <1>6
<1> QED
  BY <1>2, <1>3, <1>6, <1>11, <1>13, <1>16, <1>17, RowStep, TroubleTyped

(* A row put back, or left, when Drive refuses.                              *)
LEMMA RestoreStep ==
  ASSUME OneRequest, UsersFullInv, NEW r \in Requests,
         Doing(r, {"email", "inactive"}), GoesWrong("drive"), Ends(r),
         UNCHANGED <<access, drive, mails, expired, removing>>,
         users' \in {users, [users EXCEPT ![handler[r].user] = handler[r].read]}
  PROVE  UsersFullInv'
<1>1. PICK h : h = handler[r]
  OBVIOUS
<1>2. /\ h \in Changing /\ ChangingInv(h) /\ h.at # "token"
      /\ h.user \in Held /\ h.user \in Ids
      /\ h.read \in User /\ users[h.user].token = h.read.token
  BY <1>1, ChangingFacts DEF Doing
<1>3. CASE UNCHANGED users
  BY <1>1, <1>2, <1>3, EndsStep, TroubleTyped
<1>4. CASE users' = [users EXCEPT ![h.user] = h.read]
  <2>1. PICK u \in Ids : u = h.user
    BY <1>2
  <2>2. PICK new \in User : new = h.read
    BY <1>2
  <2>3. users' = [users EXCEPT ![u] = new] /\ Own(new.google, u)
        /\ u \in Held /\ new.token = users[u].token /\ handler[r].at # "token"
    BY <1>1, <1>2, <1>4, <2>1, <2>2 DEF ChangingInv
  <2>4. handler' = [handler EXCEPT ![r] = Idle]
    BY DEF Ends, Becomes
  <2> QED
    BY <2>3, <2>4, IdleTyped, RowStep, TroubleTyped
<1> QED
  BY <1>1, <1>3, <1>4

(* What an address loses.                                                    *)
LEMMA LosesStep ==
  ASSUME OneRequest, UsersFullInv, NEW r \in Requests,
         Doing(r, {"email", "inactive"}),
         NEW place \in {"inactive", "updated"}, Goes(r, place),
         place = "inactive" => handler[r].body.active = "no",
         Shares(handler[r].read.google, "reader"),
         UNCHANGED <<users, access, mails, expired, removing>>
  PROVE  UsersFullInv'
<1>1. PICK h : h = handler[r]
  OBVIOUS
<1>2. /\ h \in Changing /\ ChangingInv(h) /\ h.at # "token"
      /\ h.read.google \in Gmails /\ h.at \in {"email", "inactive"}
  BY <1>1, ChangingFacts DEF Doing
<1>3. users[h.user] = Updated(h.read, h.body) /\ AccessesGiven(h)
      /\ Own(h.read.google, h.user) /\ Own(h.body.google, h.user)
  BY <1>2 DEF ChangingInv, AccessesGiven
<1>4. PICK g : g = [h EXCEPT !.at = place]
  OBVIOUS
<1>5. /\ g \in Changing /\ g.at = place
      /\ g.user = h.user /\ g.body = h.body /\ g.read = h.read
  BY <1>2, <1>4 DEF Changing
<1>6. Own(h.read.google, h.user)' /\ Own(h.body.google, h.user)'
  BY <1>3 DEF Own, Held
<1>7. ChangingInv(g)'
  BY <1>1, <1>3, <1>5, <1>6 DEF ChangingInv, AccessesGiven
<1>8. g \in Handler /\ HandlerInv(g)'
  BY <1>5, <1>7, KindInvs
<1>9. handler' = [handler EXCEPT ![r] = g]
  BY <1>1, <1>4 DEF Goes
<1> QED
  BY <1>1, <1>2, <1>8, <1>9, DriveStep

(* What an old address loses.                                               *)
LEMMA UnshareOldStep ==
  ASSUME OneRequest, UsersFullInv, NEW r \in Requests, UnshareOld(r)
  PROVE  UsersFullInv'
<1>1. Doing(r, {"email", "inactive"})
      /\ UNCHANGED <<access, mails, expired, removing>>
  BY DEF UnshareOld, Doing
<1>2. CASE /\ Shares(handler[r].read.google, "reader") /\ UNCHANGED users
           /\ Goes(r, IF handler[r].body.active = "no" THEN "inactive"
                      ELSE "updated")
  <2>1. PICK place : place = IF handler[r].body.active = "no" THEN "inactive"
                             ELSE "updated"
    OBVIOUS
  <2> QED
    BY <1>1, <1>2, <2>1, LosesStep
<1>3. CASE /\ GoesWrong("drive") /\ Ends(r) /\ UNCHANGED drive
           /\ users' \in {users, [users EXCEPT ![handler[r].user] =
                                                 handler[r].read]}
  BY <1>1, <1>3, RestoreStep
<1> QED
  BY <1>2, <1>3 DEF UnshareOld

(* What a user made inactive loses.                                         *)
LEMMA UnshareInactiveStep ==
  ASSUME OneRequest, UsersFullInv, NEW r \in Requests, UnshareInactive(r)
  PROVE  UsersFullInv'
<1>1. Doing(r, {"email", "inactive"})
      /\ UNCHANGED <<access, mails, expired, removing>>
  BY DEF UnshareInactive, Doing
<1>2. CASE /\ Shares(handler[r].read.google, "reader") /\ UNCHANGED users
           /\ Goes(r, "updated")
  BY <1>1, <1>2, LosesStep
<1>3. CASE /\ GoesWrong("drive") /\ Ends(r) /\ UNCHANGED drive
           /\ users' = [users EXCEPT ![handler[r].user] = handler[r].read]
  BY <1>1, <1>3, RestoreStep
<1> QED
  BY <1>2, <1>3 DEF UnshareInactive

-------------------------------------------------------------------------------
(***************************************************************************)
(* A removal, a new password and a recovery.                               *)
(***************************************************************************)
(* The row read is the one there is.                                         *)
LEMMA ReadingFacts ==
  ASSUME OneRequest, UsersFullInv, NEW r \in Requests,
         Doing(r, {"unshare", "deactivate", "password"})
  PROVE  LET h == handler[r] IN
         /\ h \in Reading /\ h.user \in Ids /\ h.read \in User
         /\ h.read.google \in Gmails /\ users[h.user] = h.read
         /\ h.at # "token" /\ h.user \in Held /\ Own(h.read.google, h.user)
<1>1. PICK h : h = handler[r]
  OBVIOUS
<1>2. /\ h \in Handler /\ HandlerInv(h)
      /\ h.at \in {"unshare", "deactivate", "password"}
  BY <1>1, HandlerFacts DEF Doing
<1>3. h \in Reading /\ ReadingInv(h)
  BY <1>2, WhereItAwaits DEF HandlerInv
<1>4. h.user \in Ids /\ h.read \in User /\ h.read.google \in Gmails
  BY <1>3, PartsOf
<1>5. users[h.user] = h.read /\ h.user \in Held
  BY <1>3, <1>4, NoUserIsNone DEF ReadingInv, Held
<1>6. Own(h.read.google, h.user)
  BY <1>5 DEF Own, UsersFullInv, GoogleInv
<1> QED
  BY <1>1, <1>2, <1>3, <1>4, <1>5, <1>6

(* The permission taken away before the user is made inactive.               *)
LEMMA UnshareStep ==
  ASSUME OneRequest, UsersFullInv, NEW r \in Requests, Unshare(r)
  PROVE  UsersFullInv'
<1>1. PICK h : h = handler[r]
  OBVIOUS
<1>2. /\ h \in Reading /\ h.user \in Ids /\ h.read.google \in Gmails
      /\ users[h.user] = h.read /\ h.at # "token"
  BY <1>1, ReadingFacts DEF Unshare, Doing
<1>3. UNCHANGED <<users, access, mails, expired, removing>>
  BY DEF Unshare
<1>4. CASE Shares(h.read.google, "reader") /\ Goes(r, "deactivate")
  <2>1. PICK g : g = [h EXCEPT !.at = "deactivate"]
    OBVIOUS
  <2>2. g \in Reading /\ g.user = h.user /\ g.read = h.read
    BY <1>2, <2>1 DEF Reading
  <2>3. ReadingInv(g)'
    BY <1>2, <1>3, <2>2 DEF ReadingInv
  <2>4. g \in Handler /\ HandlerInv(g)'
    BY <2>2, <2>3, KindInvs
  <2>5. handler' = [handler EXCEPT ![r] = g]
    BY <1>1, <1>4, <2>1 DEF Goes
  <2> QED
    BY <1>1, <1>2, <1>3, <1>4, <2>4, <2>5, DriveStep
<1>5. CASE GoesWrong("drive") /\ Ends(r) /\ UNCHANGED drive
  BY <1>1, <1>2, <1>3, <1>5, EndsStep, TroubleTyped
<1> QED
  BY <1>1, <1>4, <1>5 DEF Unshare

(* The type of a row, its tokens' range by a name.                           *)
LEMMA UserTokens ==
  \E tokens :
    /\ tokens = 0..MaxMails
    /\ User = [outlook : STRING, google : Gmails, role : Roles,
               active : BOOLEAN, token : tokens, tries : Nat]
  BY DEF User

(* The row of a removal, and that of a new password.                         *)
LEMMA SaveReadStep ==
  ASSUME OneRequest, UsersFullInv, NEW r \in Requests,
         Deactivate(r) \/ SavePassword(r)
  PROVE  UsersFullInv'
<1>1. PICK h : h = handler[r]
  OBVIOUS
<1>2. /\ h \in Reading /\ h.user \in Ids /\ h.read \in User
      /\ users[h.user] = h.read /\ h.at # "token" /\ h.user \in Held
      /\ Own(h.read.google, h.user)
  BY <1>1, ReadingFacts DEF Deactivate, SavePassword, Doing
<1>3. PICK new \in User : /\ users' = [users EXCEPT ![h.user] = new]
                          /\ new.google = h.read.google
                          /\ new.token \in {0, h.read.token}
  <2>1. CASE Deactivate(r)
    <3>1. PICK new : new = [h.read EXCEPT !.active = FALSE]
      OBVIOUS
    <3>2. new \in User /\ new.google = h.read.google /\ new.token = h.read.token
      BY <1>2, <3>1 DEF User
    <3>3. users' = [users EXCEPT ![h.user] = new]
      BY <1>1, <1>2, <2>1, <3>1 DEF Deactivate
    <3> QED
      BY <3>2, <3>3
  <2>2. CASE SavePassword(r)
    <3>1. PICK new : new = [h.read EXCEPT !.token = 0, !.tries = 0]
      OBVIOUS
    <3>2. new \in User /\ new.google = h.read.google /\ new.token = 0
      <4>1. PICK tokens :
              /\ tokens = 0..MaxMails
              /\ User = [outlook : STRING, google : Gmails, role : Roles,
                         active : BOOLEAN, token : tokens, tries : Nat]
        BY UserTokens
      <4>2. 0 \in tokens
        BY <4>1, UsersAssumption
      <4>3. User = [outlook : STRING, google : Gmails, role : Roles,
                    active : BOOLEAN, token : tokens, tries : Nat]
        BY <4>1
      <4> QED
        BY <1>2, <3>1, <4>2, <4>3
    <3>3. users' = [users EXCEPT ![h.user] = new]
      BY <1>1, <1>2, <2>2, <3>1 DEF SavePassword
    <3> QED
      BY <3>2, <3>3
  <2> QED
    BY <2>1, <2>2
<1>4. UNCHANGED <<access, drive, mails, expired, removing>> /\ UNCHANGED trouble
      /\ handler' = [handler EXCEPT ![r] = Idle]
  BY DEF Deactivate, SavePassword, Ends, Becomes
<1>5. PICK u \in Held : u = h.user
  BY <1>2
<1>6. /\ u \in Ids /\ users' = [users EXCEPT ![u] = new] /\ Own(new.google, u)
      /\ new.token = 0 \/ new.token = users[u].token
      /\ handler[r].at # "token"
  BY <1>1, <1>2, <1>3, <1>5
<1> QED
  BY <1>4, <1>6, IdleTyped, RowStep, TroubleTyped

(* A recovery's user is held, and the mail it sent is the last.              *)
LEMMA MailingFacts ==
  ASSUME OneRequest, UsersFullInv, NEW r \in Requests,
         Doing(r, {"mail", "token"})
  PROVE  LET h == handler[r] IN
         /\ h \in Mailing /\ MailingInv(h) /\ LinksBut(h)
         /\ h.user \in Ids /\ h.user \in Held /\ h.mail \in 0..MaxMails
         /\ users[h.user] \in User
<1>1. PICK h : h = handler[r]
  OBVIOUS
<1>2. h \in Handler /\ HandlerInv(h) /\ h.at \in {"mail", "token"} /\ LinksBut(h)
  BY <1>1, HandlerFacts DEF Doing
<1>3. h \in Mailing /\ MailingInv(h)
  BY <1>2, WhereItAwaits DEF HandlerInv
<1>4. h.user \in Ids /\ h.mail \in 0..MaxMails
  BY <1>3, PartsOf
<1>5. users[h.user] \in User /\ h.user \in Held
  BY <1>3, <1>4, NoUserIsNone DEF MailingInv, Held
<1> QED
  BY <1>1, <1>2, <1>3, <1>4, <1>5

(* The mails sent: one more, to u.                                           *)
LEMMA MailSent ==
  ASSUME UsersFullInv, NEW u \in Ids, mails' = Append(mails, u)
  PROVE  /\ mails' \in Seq(Ids) /\ Len(mails') = Len(mails) + 1
         /\ Len(mails) \in Nat /\ mails'[Len(mails) + 1] = u
         /\ \A v \in Ids \ {u} : Sent(v)' = Sent(v)
<1>1. mails \in Seq(Ids)
  BY DEF UsersFullInv, UsersTypeOK
<1>2. /\ mails' \in Seq(Ids) /\ Len(mails') = Len(mails) + 1
      /\ \A i \in 1..Len(mails) : mails'[i] = mails[i]
      /\ mails'[Len(mails) + 1] = u
  BY <1>1, AppendProperties
<1>3. /\ Len(mails) \in Nat /\ DOMAIN mails = 1..Len(mails)
      /\ DOMAIN mails' = 1..(Len(mails) + 1)
  BY <1>1, <1>2, LenProperties
<1>4. ASSUME NEW v \in Ids \ {u} PROVE Sent(v)' = Sent(v)
  <2>1. \A i \in 1..(Len(mails) + 1) : i \in 1..Len(mails) \/ i = Len(mails) + 1
    BY <1>3
  <2>2. \A i \in 1..Len(mails) : i \in 1..(Len(mails) + 1)
    BY <1>3
  <2> QED
    BY <1>2, <1>3, <2>1, <2>2 DEF Sent
<1> QED
  BY <1>2, <1>3, <1>4

(* The mail goes, or is refused.                                             *)
LEMMA SendMailStep ==
  ASSUME OneRequest, UsersFullInv, NEW r \in Requests, SendMail(r)
  PROVE  UsersFullInv'
<1>1. PICK h : h = handler[r]
  OBVIOUS
<1>2. PICK u : u = h.user
  OBVIOUS
<1>3. /\ h \in Mailing /\ LinksBut(h) /\ h.at = "mail"
      /\ u \in Ids /\ users[u] \in User
  BY <1>1, <1>2, MailingFacts DEF SendMail, Doing
<1>4. UNCHANGED <<users, access, drive, expired, removing>>
  BY DEF SendMail
<1>5. /\ Len(mails) < MaxMails /\ mails' = Append(mails, u)
      /\ Becomes(r, [h EXCEPT !.at = "token", !.mail = Len(mails) + 1])
      /\ UNCHANGED trouble
  BY <1>1, <1>2 DEF SendMail
<1>6. PICK n : n = Len(mails) + 1
  OBVIOUS
<1>7. /\ mails' \in Seq(Ids) /\ Len(mails') = n /\ mails'[n] = u
      /\ \A v \in Ids \ {u} : Sent(v)' = Sent(v)
      /\ n \in 1..MaxMails
  BY <1>3, <1>5, <1>6, MailSent, UsersAssumption
<1>8. PICK g : g = [h EXCEPT !.at = "token", !.mail = n]
  OBVIOUS
<1>9. g \in Mailing /\ g.at = "token" /\ g.user = u /\ g.mail = n
  <2> DEFINE range == 0..MaxMails
  <2>1. n \in range
    BY <1>7, UsersAssumption
  <2>2. Mailing = [at : {"mail", "token"}, user : Ids, mail : range]
    BY DEF Mailing
  <2> HIDE DEF range
  <2> QED
    BY <1>2, <1>3, <1>8, <2>1, <2>2
<1>10. MailingInv(g)'
  BY <1>3, <1>4, <1>7, <1>9 DEF MailingInv
<1>11. g \in Handler /\ HandlerInv(g)'
  BY <1>9, <1>10, KindInvs
<1>12. handler' = [handler EXCEPT ![r] = g]
  BY <1>5, <1>6, <1>8 DEF Becomes
<1>13. TablesTypeOK'
  BY <1>4, <1>5, <1>7, UsersAssumption
  DEF TablesTypeOK, UsersFullInv, UsersTypeOK
<1>14. AbsentInv' /\ GoogleInv'
  BY <1>4 DEF UsersFullInv, AbsentInv, GoogleInv, Held
<1>15. LinksBut(g)'
  BY <1>3, <1>4, <1>5, <1>7, <1>9 DEF LinksBut, Held
<1> QED
  BY <1>11, <1>12, <1>13, <1>14, <1>15, Concludes DEF UsersFullInv

(* Its token is saved.                                                       *)
LEMMA SaveTokenStep ==
  ASSUME OneRequest, UsersFullInv, NEW r \in Requests, SaveToken(r)
  PROVE  UsersFullInv'
<1>1. PICK h : h = handler[r]
  OBVIOUS
<1>2. PICK u : u = h.user
  OBVIOUS
<1>3. /\ MailingInv(h) /\ h.at = "token" /\ u \in Ids /\ u \in Held
      /\ h.mail \in 0..MaxMails /\ users[u] \in User
  BY <1>1, <1>2, MailingFacts DEF SaveToken, Doing
<1>4. h.mail = Len(mails) /\ h.mail # 0 /\ mails[h.mail] = u
  BY <1>2, <1>3 DEF MailingInv
<1>5. Max(Sent(u)) = h.mail
  <2>1. mails \in Seq(Ids) /\ DOMAIN mails = 1..h.mail /\ h.mail \in Nat
    BY <1>3, <1>4, LenProperties, UsersAssumption DEF UsersFullInv, UsersTypeOK
  <2>2. Sent(u) \in SUBSET Nat /\ h.mail \in Sent(u)
        /\ \A i \in Sent(u) : i <= h.mail
    BY <1>4, <2>1 DEF Sent
  <2>3. Max(Sent(u)) \in Sent(u) /\ \A i \in Sent(u) : i <= Max(Sent(u))
    BY <2>1, <2>2, MaxOf
  <2> QED
    BY <2>1, <2>2, <2>3
<1>6. PICK new : new = [users[u] EXCEPT !.token = h.mail, !.tries = @ + 1]
  OBVIOUS
<1>7. new \in User /\ new.google = users[u].google /\ new.token = h.mail
  <2>1. users[u].tries + 1 \in Nat
    BY <1>3 DEF User
  <2>2. PICK tokens :
          /\ tokens = 0..MaxMails
          /\ User = [outlook : STRING, google : Gmails, role : Roles,
                     active : BOOLEAN, token : tokens, tries : Nat]
    BY UserTokens
  <2>3. h.mail \in tokens
    BY <1>3, <2>2
  <2>4. User = [outlook : STRING, google : Gmails, role : Roles,
                active : BOOLEAN, token : tokens, tries : Nat]
    BY <2>2
  <2> QED
    BY <1>3, <1>6, <2>1, <2>3, <2>4
<1>8. /\ users' = [users EXCEPT ![u] = new]
      /\ handler' = [handler EXCEPT ![r] = Idle]
      /\ UNCHANGED <<access, drive, mails, expired, removing>> /\ UNCHANGED trouble
  BY <1>1, <1>2, <1>3, <1>6 DEF SaveToken, Ends, Becomes, UsersFullInv, UsersTypeOK
<1>9. Own(new.google, u)
  BY <1>3, <1>7 DEF Own, UsersFullInv, GoogleInv
<1> QED
  BY <1>1, <1>2, <1>3, <1>5, <1>7, <1>8, <1>9, IdleTyped, RowStep, TroubleTyped

-------------------------------------------------------------------------------
(***************************************************************************)
(* The other steps, and the theorems.                                      *)
(***************************************************************************)
(* Accesses deleted by themselves, while nothing else is under way.          *)
LEMMA DropAccessStep ==
  ASSUME OneRequest, UsersFullInv, NEW u \in Held, NEW places \in SUBSET Existing,
         DropAccess(u, places)
  PROVE  UsersFullInv'
<1>1. UNCHANGED <<users, drive, mails, expired, handler, removing, trouble>>
  BY DEF DropAccess
<1>2. PICK r \in Requests : handler[r].at = "idle"
  BY DEF DropAccess, Free
<1>3. PICK h : h = handler[r]
  OBVIOUS
<1>4. h = Idle /\ handler \in [Requests -> Handler]
  BY <1>2, <1>3, HandlerFacts, WhereItAwaits DEF UsersFullInv, UsersTypeOK
<1>5. handler' = [handler EXCEPT ![r] = Idle]
  BY <1>1, <1>3, <1>4
<1>6. PICK P : P = access[u]["modules"] \ places
  OBVIOUS
<1>7. "modules" \in Kinds
  BY DEF Kinds
<1>8. P \in SUBSET Existing
  BY <1>6, <1>7 DEF UsersFullInv, UsersTypeOK, Held
<1>9. access' = [access EXCEPT ![u]["modules"] = P]
  BY <1>6 DEF DropAccess
<1>10. access' \in [Ids -> [Kinds -> SUBSET Existing]] /\ AbsentInv'
  BY <1>1, <1>7, <1>8, <1>9, AccessOf
<1>11. drive' \in [Gmails -> {"none", "reader", "writer"}]
  BY <1>1 DEF UsersFullInv, UsersTypeOK
<1> QED
  BY <1>1, <1>2, <1>5, <1>10, <1>11, IdleTyped, AroundStep, TroubleTyped

(* What does not touch the tables leaves to a handler what it had.           *)
LEMMA HandlerKept ==
  ASSUME NEW h, UNCHANGED <<users, access, drive, mails>>, HandlerInv(h)
  PROVE  HandlerInv(h)'
  BY DEF HandlerInv, CreatingInv, ChangingInv, ReadingInv, MailingInv, Own, Held

(* A token that expires.                                                     *)
LEMMA ExpireStep ==
  ASSUME UsersFullInv, NEW mail \in 1..MaxMails, Expire(mail)
  PROVE  UsersFullInv'
<1>1. UNCHANGED <<users, access, drive, mails, handler, removing, trouble>>
      /\ expired' = expired \cup {mail}
  BY DEF Expire
<1>2. UsersTypeOK'
  BY <1>1 DEF UsersFullInv, UsersTypeOK
<1>3. AbsentInv' /\ GoogleInv' /\ LinkInv'
  BY <1>1 DEF UsersFullInv, AbsentInv, GoogleInv, LinkInv, Held, Sent, Pending,
     Doing
<1>4. ASSUME NEW r \in Requests PROVE HandlerInv(handler[r])'
  <2>1. PICK h : h = handler[r]
    OBVIOUS
  <2>2. HandlerInv(h)' /\ handler'[r] = h
    BY <1>1, <2>1, HandlerKept DEF UsersFullInv
  <2> QED
    BY <2>2 DEF HandlerInv, CreatingInv, ChangingInv, ReadingInv, MailingInv
<1> QED
  BY <1>2, <1>3, <1>4 DEF UsersFullInv

(* The process stops.                                                        *)
LEMMA StopStep ==
  ASSUME UsersFullInv, Stop
  PROVE  UsersFullInv'
<1>1. /\ UNCHANGED <<users, access, drive, mails, expired>>
      /\ handler' = [r \in Requests |-> Idle] /\ removing' = {}
      /\ "restart" \in trouble' /\ trouble' \subseteq Failures
  BY DEF Stop, GoesWrong, UsersFullInv, UsersTypeOK
<1>2. UsersTypeOK'
  BY <1>1, IdleTyped DEF UsersFullInv, UsersTypeOK
<1>3. AbsentInv' /\ GoogleInv' /\ LinkInv'
  BY <1>1 DEF UsersFullInv, AbsentInv, GoogleInv, LinkInv, Held
<1>4. \A r \in Requests : HandlerInv(handler[r])'
  BY <1>1, IdleTyped
<1> QED
  BY <1>2, <1>3, <1>4 DEF UsersFullInv

(* Nothing changes.                                                          *)
LEMMA StutterStep ==
  ASSUME UsersFullInv, UNCHANGED usersVars
  PROVE  UsersFullInv'
<1>1. /\ UNCHANGED <<users, access, drive, mails, expired, handler>>
      /\ UNCHANGED <<removing, trouble>>
  BY DEF usersVars
<1>2. UsersTypeOK'
  BY <1>1 DEF UsersFullInv, UsersTypeOK
<1>3. AbsentInv' /\ GoogleInv' /\ LinkInv'
  BY <1>1 DEF UsersFullInv, AbsentInv, GoogleInv, LinkInv, Held, Sent, Pending,
     Doing
<1>4. ASSUME NEW r \in Requests PROVE HandlerInv(handler[r])'
  <2>1. PICK h : h = handler[r]
    OBVIOUS
  <2>2. HandlerInv(h)' /\ handler'[r] = h
    BY <1>1, <2>1, HandlerKept DEF UsersFullInv
  <2> QED
    BY <2>2 DEF HandlerInv, CreatingInv, ChangingInv, ReadingInv, MailingInv
<1> QED
  BY <1>2, <1>3, <1>4 DEF UsersFullInv

(* Before anything is done.                                                  *)
LEMMA UsersStart ==
  ASSUME UsersInit
  PROVE  UsersFullInv /\ RemovingInv
<1>1. Held = {}
  BY DEF UsersInit, Held
<1>2. UsersTypeOK
  <2> DEFINE none == <<>>
  <2>1. none \in Seq(Ids) /\ Len(none) = 0
    BY EmptySeq
  <2>2. mails \in Seq(Ids) /\ Len(mails) \in 0..MaxMails
    BY <2>1, UsersAssumption DEF UsersInit
  <2> HIDE DEF none
  <2>3. users \in [Ids -> User \cup {NoUser}] /\ handler \in [Requests -> Handler]
    BY IdleTyped DEF UsersInit
  <2> QED
    BY <2>2, <2>3 DEF UsersInit, UsersTypeOK
<1>3. AbsentInv
  BY DEF UsersInit, AbsentInv
<1>4. GoogleInv /\ LinkInv
  BY <1>1 DEF GoogleInv, LinkInv
<1>5. \A r \in Requests : HandlerInv(handler[r])
  BY IdleTyped DEF UsersInit
<1>6. RemovingInv
  BY IdleTyped DEF UsersInit, RemovingInv, Free
<1> QED
  BY <1>2, <1>3, <1>4, <1>5, <1>6 DEF UsersFullInv

(* A step of the handler of a request.                                       *)
LEMMA RequestStep ==
  ASSUME OneRequest, UsersFullInv, NEW r \in Requests, Begin(r) \/ Continue(r)
  PROVE  UsersFullInv'
<1>1. CASE Begin(r)
  BY <1>1, BeginCreateStep, BeginUpdateStep, BeginReadingStep, BeginRecoveryStep
  DEF Begin
<1>2. CASE SaveRow(r) \/ SaveAccess(r) \/ ShareNew(r) \/ Answer(r)
  BY <1>2, SaveRowStep, SaveAccessStep, ShareNewStep, AnswerStep
<1>3. CASE Clear(r) \/ ChangeRole(r) \/ SaveUpdate(r) \/ UnshareOld(r)
           \/ UnshareInactive(r)
  BY <1>3, ClearStep, ChangeRoleStep, SaveUpdateStep, UnshareOldStep,
     UnshareInactiveStep
<1>4. CASE Unshare(r) \/ Deactivate(r) \/ SendMail(r) \/ SaveToken(r)
           \/ SavePassword(r)
  BY <1>4, UnshareStep, SaveReadStep, SendMailStep, SaveTokenStep
<1> QED
  BY <1>1, <1>2, <1>3, <1>4 DEF Continue

(* What every step keeps.                                                    *)
LEMMA UsersStep ==
  ASSUME OneRequest, UsersFullInv, RemovingInv, [UsersNext]_usersVars
  PROVE  UsersFullInv'
  BY RequestStep, DropAccessStep, ExpireStep, RemoveRefusedStep, StopStep,
     StutterStep
  DEF UsersNext

-------------------------------------------------------------------------------
(***************************************************************************)
(* The users whose removal is under way.                                   *)
(***************************************************************************)
(* A handler that goes on works on the same user.                            *)
LEMMA SameUser ==
  ASSUME NEW h \in Handler, h.at # "idle"
  PROVE  \A at, x :
           /\ [h EXCEPT !.at = at].user = h.user
           /\ [h EXCEPT !.at = at, !.todo = x].user = h.user
           /\ [h EXCEPT !.at = at, !.mail = x].user = h.user
<1>1. h \in Creating \/ h \in Changing \/ h \in Reading \/ h \in Mailing
  BY DEF Handler, Idle
<1>2. "user" \in DOMAIN h
  BY <1>1 DEF Creating, Changing, Reading, Mailing
<1> QED
  BY <1>2

(* A step that leaves alone the rows of those to be removed, of a handler    *)
(* of another user.                                                          *)
LEMMA RemovingKept ==
  ASSUME OneRequest, UsersFullInv, RemovingInv, NEW r \in Requests, NEW g,
         handler' = [handler EXCEPT ![r] = g], UNCHANGED removing,
         g.at = "idle" \/ g.user \notin removing,
         \A v \in removing : users'[v] = users[v]
  PROVE  RemovingInv'
<1>1. \A s \in Requests : s = r
  BY DEF OneRequest
<1>2. handler'[r] = g
  BY DEF UsersFullInv, UsersTypeOK
<1> QED
  BY <1>1, <1>2 DEF RemovingInv, Free, Held

(* The beginnings.                                                           *)
LEMMA BeginRemoving ==
  ASSUME OneRequest, UsersFullInv, RemovingInv, NEW r \in Requests, Begin(r)
  PROVE  RemovingInv'
<1>1. UNCHANGED users /\ UNCHANGED removing
  BY DEF Begin, BeginCreate, BeginUpdate, BeginDelete, BeginPassword,
     BeginRecovery
<1>2. \A u \in Known : u \notin removing
  BY DEF Known
<1>3. 0 \notin removing
  BY UsersAssumption DEF RemovingInv, Held
<1>4. CASE \E body \in Bodies : BeginCreate(r, body)
  <2>1. PICK body \in Bodies : BeginCreate(r, body)
    BY <1>4
  <2>2. PICK g : g = [at |-> "row", user |-> 0, body |-> body, todo |-> <<>>]
    OBVIOUS
  <2>3. handler' = [handler EXCEPT ![r] = g] /\ g.user = 0
    BY <2>1, <2>2 DEF BeginCreate, Becomes
  <2> QED
    BY <1>1, <1>3, <2>3, RemovingKept
<1>5. CASE \E u \in Held : \E body \in Updates : BeginUpdate(r, u, body)
  <2>1. PICK u \in Held, body \in Updates : BeginUpdate(r, u, body)
    BY <1>5
  <2>2. PICK at : at = CASE "modules" \in body.gives -> "clear"
                         [] body.gives = {"careers"} -> "clearCareers"
                         [] OTHER -> "role"
    OBVIOUS
  <2>3. PICK g : g = [user |-> u, body |-> body, todo |-> <<>>,
                      read |-> users[u], at |-> at]
    OBVIOUS
  <2>4. handler' = [handler EXCEPT ![r] = g] /\ g.user = u /\ u \in Known
    BY <2>1, <2>2, <2>3 DEF BeginUpdate, Becomes, MayBeginOn
  <2> QED
    BY <1>1, <1>2, <2>4, RemovingKept
<1>6. CASE \E u \in Held : BeginDelete(r, u) \/ BeginPassword(r, u)
  <2>1. PICK u \in Held : BeginDelete(r, u) \/ BeginPassword(r, u)
    BY <1>6
  <2>2. PICK at \in {"unshare", "password"} :
          handler' = [handler EXCEPT ![r] =
                        [at |-> at, user |-> u, read |-> users[u]]]
    BY <2>1 DEF BeginDelete, BeginPassword, Becomes
  <2>3. PICK g : g = [at |-> at, user |-> u, read |-> users[u]]
    OBVIOUS
  <2>4. g.user = u /\ u \in Known
    BY <2>1, <2>3 DEF BeginDelete, BeginPassword, MayBeginOn
  <2> QED
    BY <1>1, <1>2, <2>2, <2>3, <2>4, RemovingKept
<1>7. CASE \E u \in Held : \E resend \in BOOLEAN : BeginRecovery(r, u, resend)
  <2>1. PICK u \in Held, resend \in BOOLEAN : BeginRecovery(r, u, resend)
    BY <1>7
  <2>2. PICK g : g = [at |-> "mail", user |-> u, mail |-> 0]
    OBVIOUS
  <2>3. handler' = [handler EXCEPT ![r] = g] /\ g.user = u /\ u \in Known
    BY <2>1, <2>2 DEF BeginRecovery, Becomes, MayBeginOn
  <2> QED
    BY <1>1, <1>2, <2>3, RemovingKept
<1> QED
  BY <1>4, <1>5, <1>6, <1>7 DEF Begin

(* A new row is that of a user who had none.                                 *)
LEMMA SaveRowRemoving ==
  ASSUME OneRequest, UsersFullInv, RemovingInv, NEW r \in Requests, SaveRow(r)
  PROVE  RemovingInv' /\ \A v \in removing : users'[v] = users[v]
<1>1. PICK h : h = handler[r]
  OBVIOUS
<1>2. h \in Handler /\ h.at = "row"
  BY <1>1, HandlerFacts DEF SaveRow, Doing
<1>3. h \in Creating
  BY <1>2, WhereItAwaits
<1>4. PICK u : u = Min({x \in Ids : users[x] = NoUser})
  OBVIOUS
<1>5. u \in Ids /\ users[u] = NoUser
  <2> DEFINE absent == {x \in Ids : users[x] = NoUser}
  <2>1. absent \in SUBSET Nat /\ absent # {}
    BY UsersAssumption DEF SaveRow
  <2>2. Min(absent) \in absent
    BY <2>1, MinOf
  <2> QED
    BY <1>4, <2>2
<1>6. u \notin removing /\ \A v \in removing : users'[v] = users[v]
  BY <1>4, <1>5 DEF SaveRow, RemovingInv, Held, UsersFullInv, UsersTypeOK
<1>7. PICK todo : todo = h.body.modules
  OBVIOUS
<1>8. PICK g : g = [h EXCEPT !.at = "modules", !.user = u, !.todo = todo]
  OBVIOUS
<1>9. g.user = u
  BY <1>3, <1>8 DEF Creating
<1>10. handler' = [handler EXCEPT ![r] = g] /\ UNCHANGED removing
  BY <1>1, <1>4, <1>7, <1>8 DEF SaveRow
<1> QED
  BY <1>6, <1>9, <1>10, RemovingKept

(* The other steps of a handler leave alone the rows of those to be removed. *)
LEMMA RowsLeft ==
  ASSUME OneRequest, UsersFullInv, RemovingInv, NEW r \in Requests,
         \/ SaveAccess(r) \/ Answer(r) \/ Clear(r) \/ ChangeRole(r)
         \/ SaveUpdate(r) \/ UnshareOld(r) \/ UnshareInactive(r)
         \/ Unshare(r) \/ Deactivate(r) \/ SendMail(r) \/ SaveToken(r)
         \/ SavePassword(r)
  PROVE  \A v \in removing : users'[v] = users[v]
<1>1. PICK h : h = handler[r]
  OBVIOUS
<1>2. h \in Handler /\ h.at # "idle"
  BY <1>1, HandlerFacts
  DEF SaveAccess, Answer, Clear, ChangeRole, SaveUpdate, UnshareOld,
      UnshareInactive, Unshare, Deactivate, SendMail, SaveToken, SavePassword,
      Doing, Kinds
<1>3. h.user \notin removing
  BY <1>1, <1>2 DEF RemovingInv, Free
  <1>4. \A v \in removing : \A x :
        v \in Ids /\ [users EXCEPT ![h.user] = x][v] = users[v]
    BY <1>3 DEF UsersFullInv, UsersTypeOK
  <1>5. ASSUME \E x : users' = [users EXCEPT ![h.user] = x]
        PROVE  \A v \in removing : users'[v] = users[v]
    BY <1>4, <1>5
  <1>6. CASE SaveAccess(r) \/ Answer(r) \/ Clear(r) \/ Unshare(r) \/ SendMail(r)
    BY <1>6 DEF SaveAccess, Answer, Clear, Unshare, SendMail
  <1>7. CASE ChangeRole(r) \/ UnshareOld(r) \/ UnshareInactive(r)
    <2>1. UNCHANGED users \/ users' = [users EXCEPT ![h.user] = h.read]
      BY <1>1, <1>7 DEF ChangeRole, UnshareOld, UnshareInactive
    <2> QED
      BY <1>5, <2>1
  <1>8. CASE SaveUpdate(r) \/ Deactivate(r) \/ SaveToken(r) \/ SavePassword(r)
    BY <1>1, <1>5, <1>8 DEF SaveUpdate, Deactivate, SaveToken, SavePassword
  <1> QED
    BY <1>6, <1>7, <1>8

(* The other steps of a handler: its user is not one to be removed.          *)
LEMMA HandlerRemoving ==
  ASSUME OneRequest, UsersFullInv, RemovingInv, NEW r \in Requests,
         \/ SaveAccess(r) \/ Answer(r) \/ Clear(r) \/ ChangeRole(r)
         \/ SaveUpdate(r) \/ UnshareOld(r) \/ UnshareInactive(r)
         \/ Unshare(r) \/ Deactivate(r) \/ SendMail(r) \/ SaveToken(r)
         \/ SavePassword(r)
  PROVE  RemovingInv'
<1>1. PICK h : h = handler[r]
  OBVIOUS
<1>2. h \in Handler /\ h.at # "idle" /\ UNCHANGED removing
  BY <1>1, HandlerFacts
  DEF SaveAccess, Answer, Clear, ChangeRole, SaveUpdate, UnshareOld,
      UnshareInactive, Unshare, Deactivate, SendMail, SaveToken, SavePassword,
      Doing, Kinds
<1>3. h.user \notin removing
  BY <1>1, <1>2 DEF RemovingInv, Free
<1>4. \A v \in removing : users'[v] = users[v]
  BY RowsLeft
<1>5. \E g : /\ handler' = [handler EXCEPT ![r] = g]
             /\ g.at = "idle" \/ g.user = h.user
  <2>1. Idle.at = "idle"
    BY IdleTyped
  <2>2. CASE Ends(r)
    BY <2>1, <2>2 DEF Ends, Becomes
  <2>3. CASE \E at : Goes(r, at)
    <3>1. PICK at : Goes(r, at)
      BY <2>3
    <3>2. PICK g : g = [h EXCEPT !.at = at]
      OBVIOUS
    <3>3. handler' = [handler EXCEPT ![r] = g]
      BY <1>1, <3>1, <3>2 DEF Goes
    <3>4. g.user = h.user
      BY <1>2, <3>2, SameUser
    <3> QED
      BY <3>3, <3>4
  <2>4. CASE \E at, x : Becomes(r, [h EXCEPT !.at = at, !.todo = x])
    <3>1. PICK at, x : Becomes(r, [h EXCEPT !.at = at, !.todo = x])
      BY <2>4
    <3>2. PICK g : g = [h EXCEPT !.at = at, !.todo = x]
      OBVIOUS
    <3>3. handler' = [handler EXCEPT ![r] = g]
      BY <3>1, <3>2 DEF Becomes
    <3>4. g.user = h.user
      BY <1>2, <3>2, SameUser
    <3> QED
      BY <3>3, <3>4
  <2>5. CASE SaveAccess(r) /\ ~Ends(r)
    <3>1. CanSave(h) /\ Becomes(r, AfterAccess(h))
      BY <1>1, <2>5 DEF SaveAccess
    <3>2. h.at \in Kinds /\ (h \in Creating \/ h \in Changing)
      BY <1>1, <2>5, SavingFacts DEF SaveAccess
    <3>3. AfterAccess(h).user = h.user
      BY <3>1, <3>2, AfterCreation, AfterChange DEF CanSave
    <3> QED
      BY <3>1, <3>3 DEF Becomes
  <2>6. CASE Clear(r)
    BY <1>1, <2>4, <2>6 DEF Clear
  <2>7. CASE ChangeRole(r)
    BY <1>1, <2>2, <2>4, <2>7 DEF ChangeRole
  <2>8. CASE SaveUpdate(r)
    <3>1. PICK at : at = AfterSave(h)
      OBVIOUS
    <3>2. PICK g : g = [h EXCEPT !.at = at]
      OBVIOUS
    <3>3. handler' = [handler EXCEPT ![r] = g]
      BY <1>1, <2>8, <3>1, <3>2 DEF SaveUpdate, Becomes
    <3>4. g.user = h.user
      BY <1>2, <3>2, SameUser
    <3> QED
      BY <3>3, <3>4
  <2>9. CASE UnshareOld(r) \/ UnshareInactive(r) \/ Unshare(r)
    BY <2>2, <2>3, <2>9 DEF UnshareOld, UnshareInactive, Unshare
  <2>10. CASE Answer(r) \/ Deactivate(r) \/ SaveToken(r) \/ SavePassword(r)
    BY <2>2, <2>10 DEF Answer, Deactivate, SaveToken, SavePassword
  <2>11. CASE SendMail(r)
    <3>1. PICK g : g = [h EXCEPT !.at = "token", !.mail = Len(mails) + 1]
      OBVIOUS
    <3>2. handler' = [handler EXCEPT ![r] = g]
      BY <1>1, <2>11, <3>1 DEF SendMail, Becomes
    <3>3. g.user = h.user
      BY <1>2, <3>1, SameUser
    <3> QED
      BY <3>2, <3>3
  <2> QED
    BY <2>2, <2>5, <2>6, <2>7, <2>8, <2>9, <2>10, <2>11
<1> QED
  BY <1>2, <1>3, <1>4, <1>5, RemovingKept

(* Every step.                                                               *)
LEMMA RemovingStep ==
  ASSUME OneRequest, UsersFullInv, RemovingInv, [UsersNext]_usersVars
  PROVE  RemovingInv'
<1>1. CASE \E r \in Requests : Begin(r)
  BY <1>1, BeginRemoving
<1>2. ASSUME NEW r \in Requests, Continue(r) PROVE RemovingInv'
  <2>1. CASE ShareNew(r)
    <3>1. PICK h : h = handler[r]
      OBVIOUS
    <3>2. h \in Handler /\ HandlerInv(h) /\ h.at = "share"
      BY <2>1, <3>1, HandlerFacts DEF ShareNew, Doing
    <3>3. h \in Creating /\ h.user \in Held
      BY <3>2, WhereItAwaits, PartsOf, NoUserIsNone, UsersAssumption
      DEF HandlerInv, CreatingInv, Held
    <3>4. h.user \notin removing
      BY <3>1, <3>2 DEF RemovingInv, Free
    <3>5. CASE Goes(r, "created") /\ UNCHANGED removing
      <4>1. PICK g : g = [h EXCEPT !.at = "created"]
        OBVIOUS
      <4>2. g.user = h.user
        BY <3>2, <4>1, SameUser
      <4>3. handler' = [handler EXCEPT ![r] = g]
        BY <3>1, <3>5, <4>1 DEF Goes
      <4> QED
        BY <2>1, <3>4, <3>5, <4>2, <4>3, RemovingKept DEF ShareNew
    <3>6. CASE Ends(r) /\ removing' = removing \cup {h.user}
      <4>1. handler'[r] = Idle /\ \A s \in Requests : s = r
        BY <3>6 DEF Ends, Becomes, OneRequest, UsersFullInv, UsersTypeOK
      <4> QED
        BY <2>1, <3>3, <3>6, <4>1, IdleTyped
        DEF RemovingInv, Free, Held, ShareNew
    <3> QED
      BY <2>1, <3>1, <3>5, <3>6 DEF ShareNew
  <2> QED
    BY <1>2, <2>1, SaveRowRemoving, HandlerRemoving DEF Continue
<1>3. CASE \/ \E u \in Held : \E places \in SUBSET Existing : DropAccess(u, places)
           \/ \E mail \in 1..MaxMails : Expire(mail)
           \/ UNCHANGED usersVars
  BY <1>3 DEF DropAccess, Expire, usersVars, RemovingInv, Held, Free
<1>4. CASE \E u \in removing : RemoveRefused(u)
  <2>1. PICK u \in removing : RemoveRefused(u)
    BY <1>4
  <2>2. \A v \in Ids \ {u} : users'[v] = users[v]
    BY <2>1 DEF RemoveRefused, UsersFullInv, UsersTypeOK
  <2> QED
    BY <2>1, <2>2 DEF RemoveRefused, RemovingInv, Held, Free
<1>5. CASE Stop
  BY <1>5, IdleTyped DEF Stop, RemovingInv, Free
<1> QED
  BY <1>1, <1>2, <1>3, <1>4, <1>5 DEF UsersNext

(* The invariant is kept.                                                    *)
LEMMA UsersFullHolds ==
  ASSUME OneRequest
  PROVE  UsersSpec => [](UsersFullInv /\ RemovingInv)
<1>1. UsersInit => UsersFullInv /\ RemovingInv
  BY UsersStart
<1>2. UsersFullInv /\ RemovingInv /\ [UsersNext]_usersVars
      => UsersFullInv' /\ RemovingInv'
  BY UsersStep, RemovingStep
<1> QED
  BY <1>1, <1>2, PTL DEF UsersSpec

(* With one request under way at a time, rows, accesses, permissions and     *)
(* mails are of their types, and the token saved for a user is that of the   *)
(* last recovery asked for, whose mail may have been refused, unless it was  *)
(* used or the process was stopped (forgotPassword, resendActivationEmail).  *)
THEOREM TheLastLinkIsKept ==
  ASSUME OneRequest
  PROVE  UsersSpec => []UsersInv
<1>1. UsersFullInv => UsersInv
  <2> SUFFICES ASSUME UsersFullInv PROVE LastLinkKept
    BY DEF UsersFullInv, UsersInv
  <2>1. \A u : Quiet(u) => ~Pending(u)
    BY DEF Quiet, On, Pending, Doing, Free
  <2> QED
    BY <2>1 DEF UsersFullInv, LinkInv, LastLinkKept, Sent
<1> QED
  BY <1>1, UsersFullHolds, PTL

(* With one request under way at a time, a user answered as created or as    *)
(* changed has the accesses asked for, and a new one its permission.         *)
THEOREM AnswersAreTrue ==
  ASSUME OneRequest
  PROVE  UsersSpec => []AnsweredAsAsked
<1>1. UsersFullInv => AnsweredAsAsked
  <2> SUFFICES ASSUME UsersFullInv, NEW r \in Requests
               PROVE  LET h == handler[r] IN
                      /\ Doing(r, {"created"}) =>
                           /\ \A k \in Kinds :
                                access[h.user][k] = Range(h.body[k])
                           /\ drive[h.body.google] = Permission(h.body.role)
                      /\ Doing(r, {"updated"}) =>
                           \A k \in h.body.gives :
                             access[h.user][k] = Range(h.body[k])
    BY DEF AnsweredAsAsked
  <2>1. PICK h : h = handler[r]
    OBVIOUS
  <2>2. h \in Handler /\ HandlerInv(h)
    BY <2>1, HandlerFacts
  <2>3. ASSUME h.at = "created"
        PROVE  /\ \A k \in Kinds : access[h.user][k] = Range(h.body[k])
               /\ drive[h.body.google] = Permission(h.body.role)
    <3>1. CreatingInv(h)
      BY <2>2, <2>3, WhereItAwaits DEF HandlerInv
    <3> QED
      BY <2>3, <3>1 DEF CreatingInv, Kinds
  <2>4. ASSUME h.at = "updated"
        PROVE  \A k \in h.body.gives : access[h.user][k] = Range(h.body[k])
    <3>1. h \in Changing /\ ChangingInv(h)
      BY <2>2, <2>4, WhereItAwaits DEF HandlerInv
    <3>2. h.body.gives \subseteq {"modules", "careers"}
      BY <3>1, PartsOf DEF Update, Kinds
    <3> QED
      BY <2>4, <3>1, <3>2 DEF ChangingInv
  <2> QED
    BY <2>1, <2>3, <2>4 DEF Doing
<1> QED
  BY <1>1, UsersFullHolds, PTL

-------------------------------------------------------------------------------
(***************************************************************************)
(* What an inactive user has on Drive.                                     *)
(***************************************************************************)
PermissionsInv == WritersInv /\ SharesInv

(* An address refused, whose user is to be removed, has no permission.       *)
RefusedInv ==
  /\ RemovingInv
  /\ "restart" \notin trouble =>
       \A u \in removing : drive[users[u].google] # "writer"

(* What the handler of the one request leaves to writers,                    *)
Writers(h) ==
  \A g \in Gmails : drive[g] = "writer" => OfActive(g) \/ Excused(h, g)

(* and to the user it is about to add or to remove.                          *)
Withheld(h) ==
  /\ h \in Creating /\ h.at # "created" => drive[h.body.google] # "writer"
  /\ h \in Reading /\ h.at = "deactivate" => drive[h.read.google] # "writer"

(* What a change waits for when it may hold a permission.                    *)
Late == {"save", "email", "inactive"}

(* What holds of the one handler while the process was not stopped.         *)
LEMMA PermissionFacts ==
  ASSUME OneRequest, PermissionsInv, NEW r \in Requests, "restart" \notin trouble
  PROVE  Writers(handler[r]) /\ Withheld(handler[r])
<1>1. \A s \in Requests : s = r
  BY DEF OneRequest
<1> QED
  BY <1>1 DEF PermissionsInv, WritersInv, SharesInv, Writers, Withheld

(* What is to be shown of it after a step.                                  *)
LEMMA PermissionsConclude ==
  ASSUME OneRequest, UsersFullInv, NEW r \in Requests, NEW g,
         handler' = [handler EXCEPT ![r] = g],
         "restart" \notin trouble' => Writers(g)' /\ Withheld(g)'
  PROVE  PermissionsInv'
<1>1. \A s \in Requests : s = r
  BY DEF OneRequest
<1>2. handler'[r] = g
  BY DEF UsersFullInv, UsersTypeOK
<1>3. WritersInv'
  BY <1>2 DEF Writers, WritersInv, Excused
<1>4. SharesInv'
  BY <1>1, <1>2 DEF Withheld, SharesInv
<1> QED
  BY <1>3, <1>4 DEF PermissionsInv

(* A step that leaves rows and permissions alone, of a handler that has      *)
(* nothing to excuse.                                                        *)
LEMMA PermissionsKept ==
  ASSUME OneRequest, UsersFullInv, PermissionsInv, NEW r \in Requests, NEW g,
         handler' = [handler EXCEPT ![r] = g],
         UNCHANGED <<users, drive>>, handler[r].at \notin Late,
         "restart" \in trouble => "restart" \in trouble',
         "restart" \notin trouble => Withheld(g)
  PROVE  PermissionsInv'
<1>1. ASSUME "restart" \notin trouble' PROVE Writers(g)' /\ Withheld(g)'
  <2>1. Writers(handler[r])
    BY <1>1, PermissionFacts
  <2>2. \A x : ~Excused(handler[r], x)
    BY DEF Excused, Late
  <2>3. Writers(g)'
    BY <2>1, <2>2 DEF Writers, OfActive, Held
  <2>4. Withheld(g)'
    BY <1>1 DEF Withheld
  <2> QED
    BY <2>3, <2>4
<1> QED
  BY <1>1, PermissionsConclude

(* A handler with nothing withheld.                                          *)
LEMMA NothingWithheld ==
  /\ Withheld(Idle) /\ Withheld(Idle)'
  /\ \A g \in Changing \cup Mailing : Withheld(g)
  /\ \A g \in Creating : g.at = "created" => Withheld(g)
  /\ \A g \in Reading : g.at # "deactivate" => Withheld(g)
<1>1. Idle \notin Creating /\ Idle \notin Reading
  BY DEF Idle, Creating, Reading
<1> QED
  BY <1>1, KindsDiffer DEF Withheld

(* The end of a handler that has nothing to excuse.                          *)
LEMMA PermissionsAtEnd ==
  ASSUME OneRequest, UsersFullInv, PermissionsInv, NEW r \in Requests, Ends(r),
         UNCHANGED <<users, drive>>, handler[r].at \notin Late,
         "restart" \in trouble => "restart" \in trouble'
  PROVE  PermissionsInv'
<1>1. handler' = [handler EXCEPT ![r] = Idle]
  BY DEF Ends, Becomes
<1> QED
  BY <1>1, NothingWithheld, PermissionsKept

(* The beginnings: a new user's address is nobody's, so nobody's permission. *)
LEMMA BeginPermissions ==
  ASSUME OneRequest, UsersFullInv, PermissionsInv, NEW r \in Requests, Begin(r)
  PROVE  PermissionsInv'
<1>1. MayBegin(r) /\ UNCHANGED <<users, drive>> /\ UNCHANGED trouble
  BY DEF Begin, BeginCreate, BeginUpdate, BeginDelete, BeginPassword,
     BeginRecovery, MayBeginOn
<1>2. handler[r].at = "idle"
  BY <1>1 DEF MayBegin, Free
<1>3. \A x : ~Excused(handler[r], x)
  BY <1>2 DEF Excused
<1>4. handler[r].at \notin Late
  BY <1>2 DEF Late
<1>5. CASE \E body \in Bodies : BeginCreate(r, body)
  <2>1. PICK body \in Bodies : BeginCreate(r, body)
    BY <1>5
  <2>2. PICK g : g = [at |-> "row", user |-> 0, body |-> body, todo |-> <<>>]
    OBVIOUS
  <2>3. g \notin Reading /\ g.body = body
    BY <2>2 DEF Reading
  <2>4. body.google \in Gmails /\ Own(body.google, 0)
    BY <2>1, UsersAssumption DEF BeginCreate, Body
  <2>5. "restart" \notin trouble => drive[body.google] # "writer"
    BY <1>3, <2>4, PermissionFacts, UsersAssumption
    DEF Writers, OfActive, Own, Held
  <2>6. "restart" \notin trouble => Withheld(g)
    BY <2>3, <2>5 DEF Withheld
  <2>7. handler' = [handler EXCEPT ![r] = g]
    BY <2>1, <2>2 DEF BeginCreate, Becomes
  <2> QED
    BY <1>1, <1>4, <2>6, <2>7, PermissionsKept
<1>6. CASE \E u \in Held : \E body \in Updates : BeginUpdate(r, u, body)
  <2>1. PICK u \in Held, body \in Updates : BeginUpdate(r, u, body)
    BY <1>6
  <2>2. PICK at : at = CASE "modules" \in body.gives -> "clear"
                         [] body.gives = {"careers"} -> "clearCareers"
                         [] OTHER -> "role"
    OBVIOUS
  <2>3. PICK g : g = [user |-> u, body |-> body, todo |-> <<>>,
                      read |-> users[u], at |-> at]
    OBVIOUS
  <2>4. "todo" \in DOMAIN g /\ "read" \in DOMAIN g
    BY <2>3
  <2>5. g \notin Creating /\ g \notin Reading
    BY <2>4 DEF Creating, Reading
  <2>6. handler' = [handler EXCEPT ![r] = g]
    BY <2>1, <2>2, <2>3 DEF BeginUpdate, Becomes
  <2> QED
    BY <1>1, <1>4, <2>5, <2>6, PermissionsKept DEF Withheld
<1>7. CASE \E u \in Held : BeginDelete(r, u) \/ BeginPassword(r, u)
  <2>1. PICK u \in Held : BeginDelete(r, u) \/ BeginPassword(r, u)
    BY <1>7
  <2>2. PICK at \in {"unshare", "password"} :
          handler' = [handler EXCEPT ![r] =
                        [at |-> at, user |-> u, read |-> users[u]]]
    BY <2>1 DEF BeginDelete, BeginPassword, Becomes
  <2>3. PICK g : g = [at |-> at, user |-> u, read |-> users[u]]
    OBVIOUS
  <2>4. g \notin Creating /\ g.at # "deactivate"
    BY <2>3 DEF Creating
  <2> QED
    BY <1>1, <1>4, <2>2, <2>3, <2>4, PermissionsKept DEF Withheld
<1>8. CASE \E u \in Held : \E resend \in BOOLEAN : BeginRecovery(r, u, resend)
  <2>1. PICK u \in Held, resend \in BOOLEAN : BeginRecovery(r, u, resend)
    BY <1>8
  <2>2. PICK g : g = [at |-> "mail", user |-> u, mail |-> 0]
    OBVIOUS
  <2>3. "mail" \in DOMAIN g
    BY <2>2
  <2>4. g \notin Creating /\ g \notin Reading
    BY <2>3 DEF Creating, Reading
  <2>5. handler' = [handler EXCEPT ![r] = g]
    BY <2>1, <2>2 DEF BeginRecovery, Becomes
  <2> QED
    BY <1>1, <1>4, <2>4, <2>5, PermissionsKept DEF Withheld
<1> QED
  BY <1>5, <1>6, <1>7, <1>8 DEF Begin

(* The row and the accesses of a creation.                                   *)
LEMMA CreationPermissions ==
  ASSUME OneRequest, UsersFullInv, PermissionsInv, NEW r \in Requests,
         SaveRow(r)
  PROVE  PermissionsInv'
<1>1. PICK h : h = handler[r]
  OBVIOUS
<1>2. h \in Handler /\ h.at = "row"
  BY <1>1, HandlerFacts DEF SaveRow, Doing
<1>3. h \in Creating
  BY <1>2, WhereItAwaits
<1>4. PICK u : u = Min({x \in Ids : users[x] = NoUser})
  OBVIOUS
<1>5. u \in Ids /\ users[u] = NoUser
  <2> DEFINE absent == {x \in Ids : users[x] = NoUser}
  <2>1. absent \in SUBSET Nat /\ absent # {}
    BY UsersAssumption DEF SaveRow
  <2>2. Min(absent) \in absent
    BY <2>1, MinOf
  <2> QED
    BY <1>4, <2>2
<1>6. \A v \in Held : v \in Held' /\ users'[v] = users[v]
  BY <1>4, <1>5 DEF SaveRow, Held, UsersFullInv, UsersTypeOK
<1>7. PICK todo : todo = h.body.modules
  OBVIOUS
<1>8. PICK g : g = [h EXCEPT !.at = "modules", !.user = u, !.todo = todo]
  OBVIOUS
<1>9. g.body = h.body /\ g.at = "modules" /\ "todo" \in DOMAIN g
  BY <1>3, <1>8 DEF Creating
<1>10. g \notin Reading
  BY <1>9 DEF Reading
<1>11. handler' = [handler EXCEPT ![r] = g]
  BY <1>1, <1>4, <1>7, <1>8 DEF SaveRow
<1>12. ASSUME "restart" \notin trouble' PROVE Writers(g)' /\ Withheld(g)'
  <2>1. Writers(h) /\ Withheld(h) /\ UNCHANGED drive
    BY <1>1, <1>12, PermissionFacts DEF SaveRow
  <2>2. \A x : ~Excused(h, x)
    BY <1>2 DEF Excused
  <2>3. Writers(g)'
    BY <1>6, <2>1, <2>2 DEF Writers, OfActive
  <2>4. Withheld(g)'
    BY <1>2, <1>3, <1>9, <1>10, <2>1 DEF Withheld
  <2> QED
    BY <2>3, <2>4
<1> QED
  BY <1>11, <1>12, PermissionsConclude

(* An access of a creation or of a change.                                  *)
LEMMA AccessPermissions ==
  ASSUME OneRequest, UsersFullInv, PermissionsInv, NEW r \in Requests,
         SaveAccess(r)
  PROVE  PermissionsInv'
<1>1. PICK h : h = handler[r]
  OBVIOUS
<1>2. /\ UNCHANGED <<users, drive>> /\ UNCHANGED trouble
      /\ h.at \in Kinds /\ (h \in Creating \/ h \in Changing)
  BY <1>1, SavingFacts DEF SaveAccess
<1>3. h.at \notin Late /\ h.at # "created"
  BY <1>2 DEF Late, Kinds
<1>4. CASE Ends(r)
  BY <1>1, <1>2, <1>3, <1>4, PermissionsAtEnd
<1>5. CASE CanSave(h) /\ Becomes(r, AfterAccess(h))
  <2>1. PICK g : g = AfterAccess(h)
    OBVIOUS
  <2>2. \/ h \in Creating /\ g \in Creating /\ g.body = h.body
        \/ g \in Changing
    BY <1>2, <1>5, <2>1, AfterCreation, AfterChange DEF CanSave
  <2>3. "restart" \notin trouble => Withheld(g)
    BY <1>1, <1>3, <2>2, PermissionFacts, NothingWithheld, KindsDiffer
    DEF Withheld
  <2> QED
    BY <1>1, <1>2, <1>3, <1>5, <2>1, <2>3, PermissionsKept DEF Becomes
<1> QED
  BY <1>1, <1>4, <1>5 DEF SaveAccess

(* Its share, or its refusal.                                                *)
LEMMA SharePermissions ==
  ASSUME OneRequest, UsersFullInv, PermissionsInv, NEW r \in Requests,
         ShareNew(r)
  PROVE  PermissionsInv'
<1>1. PICK h : h = handler[r]
  OBVIOUS
<1>2. h \in Handler /\ HandlerInv(h) /\ h.at = "share"
  BY <1>1, HandlerFacts DEF ShareNew, Doing
<1>3. h \in Creating /\ CreatingInv(h)
  BY <1>2, WhereItAwaits DEF HandlerInv
<1>4. PICK google \in Gmails : google = h.body.google
  BY <1>3, PartsOf
<1>5. UNCHANGED users
  BY DEF ShareNew
<1>6. OfActive(google)
  <2>1. h.user # 0 /\ users[h.user] \in User /\ users[h.user].google = google
        /\ users[h.user].active
    BY <1>2, <1>3, <1>4 DEF CreatingInv
  <2>2. h.user \in Held
    BY <1>3, <2>1, PartsOf, NoUserIsNone DEF Held
  <2> QED
    BY <2>1, <2>2 DEF OfActive
<1>7. LET g == [h EXCEPT !.at = "created"] IN
      g \in Creating /\ g.at = "created" /\ g.body = h.body
  BY <1>3 DEF Creating
<1>8. CASE Shares(h.body.google, Permission(h.body.role)) /\ Goes(r, "created")
  <2>1. PICK g : g = [h EXCEPT !.at = "created"]
    OBVIOUS
  <2>2. g \in Creating /\ g.at = "created"
    BY <1>7, <2>1
  <2>3. handler' = [handler EXCEPT ![r] = g]
    BY <1>1, <1>8, <2>1 DEF Goes
  <2>4. \A x \in Gmails \ {google} : drive'[x] = drive[x]
    BY <1>4, <1>8 DEF Shares, UsersFullInv, UsersTypeOK
  <2>5. ASSUME "restart" \notin trouble' PROVE Writers(g)' /\ Withheld(g)'
    <3>1. Writers(h)
      BY <1>1, <1>8, <2>5, PermissionFacts DEF Shares
    <3>2. \A x : ~Excused(h, x)
      BY <1>2 DEF Excused
    <3>3. Writers(g)'
      BY <1>5, <1>6, <2>4, <3>1, <3>2 DEF Writers, OfActive, Held
    <3>4. Withheld(g)'
      BY <2>2, KindsDiffer DEF Withheld
    <3> QED
      BY <3>3, <3>4
  <2> QED
    BY <2>3, <2>5, PermissionsConclude
<1>9. CASE GoesWrong("drive") /\ Ends(r) /\ UNCHANGED drive
  BY <1>1, <1>2, <1>5, <1>9, PermissionsAtEnd, TroubleTyped DEF Late
<1> QED
  BY <1>1, <1>8, <1>9 DEF ShareNew

(* The removal: the address refused was not given the permission.           *)
LEMMA RemoveRefusedPermissions ==
  ASSUME OneRequest, UsersFullInv, PermissionsInv, RefusedInv,
         NEW u \in removing, RemoveRefused(u)
  PROVE  PermissionsInv'
<1>1. /\ \A v \in Held \ {u} : v \in Held' /\ users'[v] = users[v]
      /\ UNCHANGED <<drive, handler, trouble>>
  <2>1. \A v \in Ids \ {u} : users'[v] = users[v]
    BY DEF RemoveRefused, UsersFullInv, UsersTypeOK
  <2> QED
    BY <2>1 DEF RemoveRefused, Held
<1>2. ASSUME "restart" \notin trouble, NEW x \in Gmails, drive[x] = "writer",
             OfActive(x)
      PROVE  OfActive(x)'
  BY <1>1, <1>2 DEF RefusedInv, OfActive
<1>3. ASSUME "restart" \notin trouble, NEW x, NEW r \in Requests,
             Excused(handler[r], x)
      PROVE  Excused(handler[r], x)'
  <2>1. PICK h : h = handler[r]
    OBVIOUS
  <2>2. h.at \in {"save", "email", "inactive"}
    BY <1>3, <2>1 DEF Excused
  <2>3. h \in Changing /\ h.user \in Ids
    BY <2>1, <2>2, ChangingFacts DEF Doing
  <2>4. h.user # u
    BY <2>1, <2>2 DEF RefusedInv, RemovingInv, Free
  <2>5. users'[h.user] = users[h.user]
    BY <2>3, <2>4 DEF RemoveRefused, UsersFullInv, UsersTypeOK
  <2>6. Excused(h, x)' /\ handler'[r] = h
    BY <1>1, <1>3, <2>1, <2>5 DEF Excused, Address
  <2> QED
    BY <2>6 DEF Excused, Address
<1>4. WritersInv'
  BY <1>1, <1>2, <1>3 DEF PermissionsInv, WritersInv
<1>5. SharesInv'
  BY <1>1 DEF PermissionsInv, SharesInv
<1> QED
  BY <1>4, <1>5 DEF PermissionsInv

(* The accesses deleted by a change.                                         *)
LEMMA ClearPermissions ==
  ASSUME OneRequest, UsersFullInv, PermissionsInv, NEW r \in Requests, Clear(r)
  PROVE  PermissionsInv'
<1>1. PICK h : h = handler[r]
  OBVIOUS
<1>2. h \in Changing /\ h.at \in {"clear", "clearCareers"}
  BY <1>1, ChangingFacts DEF Clear, Doing
<1>3. PICK kind : kind = IF h.at = "clear" THEN "modules" ELSE "careers"
  OBVIOUS
<1>4. PICK todo : todo = h.body[kind]
  OBVIOUS
<1>5. todo \in Todo /\ kind \in Kinds
  BY <1>2, <1>3, <1>4, PartsOf, TodoOf DEF Kinds
<1>6. PICK g : g = [h EXCEPT !.at = kind, !.todo = todo]
  OBVIOUS
<1>7. g \in Changing
  BY <1>2, <1>3, <1>5, <1>6 DEF Changing
<1>8. /\ handler' = [handler EXCEPT ![r] = g]
      /\ UNCHANGED <<users, drive>> /\ UNCHANGED trouble
  BY <1>1, <1>3, <1>4, <1>6 DEF Clear, Becomes
<1>9. Withheld(g) /\ handler[r].at \notin Late
  BY <1>1, <1>2, <1>7, NothingWithheld DEF Late
<1> QED
  BY <1>8, <1>9, PermissionsKept

(* The role of a change: its share is excused until the row is saved.       *)
LEMMA RolePermissions ==
  ASSUME OneRequest, UsersFullInv, PermissionsInv, NEW r \in Requests,
         ChangeRole(r)
  PROVE  PermissionsInv'
<1>1. PICK h : h = handler[r]
  OBVIOUS
<1>2. /\ h \in Changing /\ ChangingInv(h) /\ h.at = "role"
      /\ h.user \in Held /\ h.user \in Ids /\ h.body \in Update
      /\ h.read \in User /\ h.read.google \in Gmails
  BY <1>1, ChangingFacts DEF ChangeRole, Doing
<1>3. users[h.user] = h.read
  BY <1>2 DEF ChangingInv
<1>4. PICK todo : todo =
        IF Address(h) # users[h.user].google THEN <<"email">> ELSE <<>>
  OBVIOUS
<1>5. PICK g : g = [h EXCEPT !.at = "save", !.todo = todo]
  OBVIOUS
<1>6. /\ g.at = "save" /\ g.user = h.user /\ g.body = h.body
      /\ g.read = h.read /\ "todo" \in DOMAIN g /\ "read" \in DOMAIN g
  BY <1>2, <1>5 DEF Changing
<1>7. Withheld(g) /\ Withheld(g)'
  BY <1>6 DEF Withheld, Creating, Reading
<1>8. handler[r].at \notin Late
  BY <1>1, <1>2 DEF Late
<1>9. CASE Becomes(r, g) /\ UNCHANGED <<users, drive, trouble>>
  <2>1. /\ handler' = [handler EXCEPT ![r] = g]
        /\ UNCHANGED <<users, drive>> /\ UNCHANGED trouble
    BY <1>9 DEF Becomes
  <2> QED
    BY <1>7, <1>8, <2>1, PermissionsKept
<1>10. CASE /\ Sharing(h) /\ Shares(Address(h), Permission(h.body.role))
            /\ Becomes(r, g) /\ UNCHANGED users
  <2>1. PICK google \in Gmails : google = Address(h)
    <3>1. h.body.google # "same" => h.body.google \in Gmails
      BY <1>2 DEF Update
    <3> QED
      BY <1>2, <1>3, <3>1 DEF Address
  <2>2. handler' = [handler EXCEPT ![r] = g] /\ UNCHANGED trouble
    BY <1>10 DEF Becomes, Shares
  <2>3. \A x \in Gmails \ {google} : drive'[x] = drive[x]
    BY <1>10, <2>1 DEF Shares, UsersFullInv, UsersTypeOK
  <2>4. Excused(g, google)'
    BY <1>3, <1>6, <1>10, <2>1 DEF Excused, Sharing, Address
  <2>5. ASSUME "restart" \notin trouble' PROVE Writers(g)' /\ Withheld(g)'
    <3>1. Writers(h)
      BY <1>1, <2>2, <2>5, PermissionFacts
    <3>2. \A x : ~Excused(h, x)
      BY <1>2 DEF Excused
    <3>3. Writers(g)'
      BY <1>10, <2>3, <2>4, <3>1, <3>2 DEF Writers, OfActive, Held
    <3> QED
      BY <1>7, <3>3
  <2> QED
    BY <2>2, <2>5, PermissionsConclude
<1>11. CASE /\ GoesWrong("drive") /\ Ends(r) /\ UNCHANGED drive
            /\ users' \in {users, [users EXCEPT ![h.user] = h.read]}
  <2>1. UNCHANGED users
    BY <1>2, <1>3, <1>11 DEF UsersFullInv, UsersTypeOK
  <2> QED
    BY <1>8, <1>11, <2>1, PermissionsAtEnd, TroubleTyped
<1> QED
  <2>1. PICK go : go = [h EXCEPT !.at = "save", !.todo =
          IF Address(h) # users[h.user].google THEN <<"email">> ELSE <<>>]
    OBVIOUS
  <2>2. go = g
    BY <1>4, <1>5, <2>1
  <2>3. \/ Becomes(r, go) /\ UNCHANGED <<users, drive, trouble>>
        \/ /\ Sharing(h) /\ Shares(Address(h), Permission(h.body.role))
           /\ Becomes(r, go) /\ UNCHANGED users
        \/ /\ GoesWrong("drive") /\ Ends(r) /\ UNCHANGED drive
           /\ users' \in {users, [users EXCEPT ![h.user] = h.read]}
    BY <1>1, <1>2, <2>1 DEF ChangeRole
  <2> QED
    BY <1>9, <1>10, <1>11, <2>2, <2>3

(* The row of a change: what it stops accounting for is still to be taken.   *)
LEMMA SavePermissions ==
  ASSUME OneRequest, AddressesKept, UsersFullInv, PermissionsInv,
         NEW r \in Requests, SaveUpdate(r)
  PROVE  PermissionsInv'
<1>1. PICK h : h = handler[r]
  OBVIOUS
<1>2. /\ h \in Changing /\ ChangingInv(h) /\ h.at = "save"
      /\ h.user \in Held /\ h.user \in Ids /\ h.body \in Updates
      /\ h.read \in User
  BY <1>1, ChangingFacts DEF SaveUpdate, Doing
<1>3. users[h.user] = h.read
      /\ (h.todo # <<>> <=> h.body.google \notin {"same", h.read.google})
  BY <1>2 DEF ChangingInv
<1>4. PICK new : new = Updated(h.read, h.body)
  OBVIOUS
<1>5. /\ new \in User
      /\ new.google = IF h.body.google = "same" THEN h.read.google
                      ELSE h.body.google
      /\ new.active = IF h.body.active = "same" THEN h.read.active
                      ELSE h.body.active = "yes"
  BY <1>2, <1>4, UpdatedTyped
<1>6. PICK place : place = AfterSave(h)
  OBVIOUS
<1>7. PICK g : g = [h EXCEPT !.at = place]
  OBVIOUS
<1>8. /\ g.at = place /\ g.user = h.user /\ g.body = h.body
      /\ g.read = h.read /\ "todo" \in DOMAIN g /\ "read" \in DOMAIN g
  BY <1>2, <1>7 DEF Changing
<1>9. /\ h.todo # <<>> => place = "email"
      /\ h.todo = <<>> /\ h.body.active = "no" => place = "inactive"
  BY <1>6 DEF AfterSave
<1>10. /\ users' = [users EXCEPT ![h.user] = new]
       /\ handler' = [handler EXCEPT ![r] = g]
       /\ UNCHANGED drive /\ UNCHANGED trouble
  BY <1>1, <1>3, <1>4, <1>6, <1>7 DEF SaveUpdate, Becomes
<1>11. /\ users'[h.user] = new
       /\ \A v \in Held \ {h.user} : users'[v] = users[v] /\ v \in Held'
       /\ h.user \in Held'
  BY <1>2, <1>5, <1>10, NoUserIsNone DEF UsersFullInv, UsersTypeOK, Held
<1>12. h.body.active = "no" => h.body.google = "same"
  BY <1>2 DEF AddressesKept
<1>13. h.body.active \in {"same", "yes", "no"}
  BY <1>2, UsersAssumption DEF Update
<1>14. ASSUME NEW x \in Gmails, OfActive(x) \/ Excused(h, x)
       PROVE  OfActive(x)' \/ Excused(g, x)'
  <2>1. CASE \E v \in Held \ {h.user} : users[v].google = x /\ users[v].active
    BY <1>11, <2>1 DEF OfActive
  <2>2. ASSUME h.read.google = x, h.read.active
        PROVE  OfActive(x)' \/ Excused(g, x)'
    <3>1. CASE new.google = x /\ new.active
      BY <1>11, <3>1 DEF OfActive
    <3>2. CASE h.todo # <<>>
      BY <1>8, <1>9, <2>2, <3>2 DEF Excused
    <3>3. CASE h.todo = <<>> /\ ~new.active
      <4>1. h.body.active = "no"
        BY <1>5, <1>13, <2>2, <3>3
      <4> QED
        BY <1>8, <1>9, <2>2, <3>3, <4>1 DEF Excused
    <3>4. h.todo = <<>> => new.google = x
      BY <1>3, <1>5, <2>2
    <3> QED
      BY <3>1, <3>2, <3>3, <3>4
  <2>3. ASSUME x = Address(h), h.read.active \/ h.body.active = "yes"
        PROVE  OfActive(x)' \/ Excused(g, x)'
    <3>1. x = new.google
      BY <1>3, <1>5, <2>3 DEF Address
    <3>2. CASE new.active
      BY <1>11, <3>1, <3>2 DEF OfActive
    <3>3. CASE ~new.active
      <4>1. h.body.active = "no" /\ h.read.active
        BY <1>5, <1>13, <2>3, <3>3
      <4>2. h.body.google = "same" /\ x = h.read.google
        BY <1>5, <1>12, <3>1, <4>1
      <4>3. h.todo = <<>>
        BY <1>3, <4>2
      <4> QED
        BY <1>8, <1>9, <4>1, <4>2, <4>3 DEF Excused
    <3> QED
      BY <3>2, <3>3
  <2> QED
    BY <1>2, <1>3, <1>14, <2>1, <2>2, <2>3 DEF OfActive, Excused
<1>15. ASSUME "restart" \notin trouble' PROVE Writers(g)' /\ Withheld(g)'
  <2>1. Writers(h)
    BY <1>1, <1>10, <1>15, PermissionFacts
  <2>2. Writers(g)'
    BY <1>10, <1>14, <2>1 DEF Writers
  <2>3. Withheld(g)'
    BY <1>8 DEF Withheld, Creating, Reading
  <2> QED
    BY <2>2, <2>3
<1> QED
  BY <1>10, <1>15, PermissionsConclude

(* An address that loses its permission needs no excuse.                     *)
LEMMA LosesPermissions ==
  ASSUME OneRequest, UsersFullInv, PermissionsInv, NEW r \in Requests, NEW g,
         NEW google \in Gmails, Shares(google, "reader"), UNCHANGED users,
         handler' = [handler EXCEPT ![r] = g],
         \A x \in Gmails : Excused(handler[r], x) => x = google,
         Withheld(g)'
  PROVE  PermissionsInv'
<1>1. drive'[google] = "reader"
      /\ \A x \in Gmails \ {google} : drive'[x] = drive[x]
  BY DEF Shares, UsersFullInv, UsersTypeOK
<1>2. ASSUME "restart" \notin trouble' PROVE Writers(g)'
  <2>1. Writers(handler[r])
    BY <1>2, PermissionFacts DEF Shares
  <2> QED
    BY <1>1, <2>1 DEF Writers, OfActive, Held
<1> QED
  BY <1>2, PermissionsConclude

(* What an old address, and an inactive user, lose.                          *)
LEMMA UnsharePermissions ==
  ASSUME OneRequest, UsersFullInv, PermissionsInv, NEW r \in Requests,
         (UnshareOld(r) /\ ~OldRefused) \/ UnshareInactive(r)
  PROVE  PermissionsInv'
<1>1. PICK h : h = handler[r]
  OBVIOUS
<1>2. /\ h \in Changing /\ ChangingInv(h) /\ h.at \in {"email", "inactive"}
      /\ h.user \in Held /\ h.user \in Ids /\ h.body \in Updates
      /\ h.read \in User
  BY <1>1, ChangingFacts DEF UnshareOld, UnshareInactive, Doing
<1>3. PICK google \in Gmails : google = h.read.google
  BY <1>2, PartsOf
<1>4. \A x : Excused(handler[r], x) => x = google
  BY <1>1, <1>2, <1>3 DEF Excused
<1>5. CASE /\ Shares(h.read.google, "reader") /\ UNCHANGED users
           /\ \E place \in {"inactive", "updated"} : Goes(r, place)
  <2>1. PICK place \in {"inactive", "updated"} : Goes(r, place)
    BY <1>5
  <2>2. PICK g : g = [h EXCEPT !.at = place]
    OBVIOUS
  <2>3. g \in Changing
    BY <1>2, <2>2 DEF Changing
  <2>4. Withheld(g)'
    BY <2>3, KindsDiffer DEF Withheld
  <2>5. handler' = [handler EXCEPT ![r] = g]
    BY <1>1, <2>1, <2>2 DEF Goes
  <2> QED
    BY <1>3, <1>4, <1>5, <2>4, <2>5, LosesPermissions
<1>6. CASE /\ h.at = "inactive" /\ GoesWrong("drive") /\ Ends(r)
           /\ UNCHANGED drive /\ users' = [users EXCEPT ![h.user] = h.read]
  <2>1. /\ users'[h.user] = h.read
        /\ \A v \in Held \ {h.user} : users'[v] = users[v] /\ v \in Held'
        /\ h.user \in Held'
    BY <1>2, <1>6, NoUserIsNone DEF UsersFullInv, UsersTypeOK, Held
  <2>2. ~users[h.user].active
    <3>1. users[h.user] = Updated(h.read, h.body) /\ h.body.active = "no"
      BY <1>2, <1>6 DEF ChangingInv
    <3> QED
      BY <1>2, <3>1, UpdatedTyped
  <2>3. ASSUME "restart" \notin trouble' PROVE Writers(Idle)' /\ Withheld(Idle)'
    <3>1. Writers(h)
      BY <1>1, <1>6, <2>3, PermissionFacts, TroubleTyped
    <3>2. \A x \in Gmails : Excused(h, x) => x = h.read.google /\ h.read.active
      BY <1>6 DEF Excused
    <3>3. \A x \in Gmails : OfActive(x) => OfActive(x)'
      BY <2>1, <2>2 DEF OfActive
    <3>4. h.read.active => OfActive(h.read.google)'
      BY <2>1 DEF OfActive
    <3>5. Writers(Idle)'
      BY <1>6, <3>1, <3>2, <3>3, <3>4 DEF Writers
    <3> QED
      BY <3>5, NothingWithheld
  <2>4. handler' = [handler EXCEPT ![r] = Idle]
    BY <1>6 DEF Ends, Becomes
  <2> QED
    BY <2>3, <2>4, PermissionsConclude
<1>7. CASE UnshareOld(r) /\ ~OldRefused
  <2>1. ~GoesWrong("drive")
    BY <1>7 DEF UnshareOld, OldRefused
  <2>2. Shares(handler[r].read.google, "reader") /\ UNCHANGED users
    BY <1>7, <2>1 DEF UnshareOld
  <2>3. Goes(r, IF handler[r].body.active = "no" THEN "inactive" ELSE "updated")
    BY <1>7, <2>1 DEF UnshareOld
  <2> QED
    BY <1>1, <1>5, <2>2, <2>3
<1>8. CASE UnshareInactive(r)
  BY <1>1, <1>5, <1>6, <1>8 DEF UnshareInactive, Doing
<1> QED
  BY <1>7, <1>8

(* A removal takes the permission first.                                     *)
LEMMA RemovalPermissions ==
  ASSUME OneRequest, UsersFullInv, PermissionsInv, NEW r \in Requests, Unshare(r)
  PROVE  PermissionsInv'
<1>1. PICK h : h = handler[r]
  OBVIOUS
<1>2. h \in Reading /\ h.read.google \in Gmails /\ h.at = "unshare"
  BY <1>1, ReadingFacts DEF Unshare, Doing
<1>3. \A x : ~Excused(handler[r], x)
  BY <1>1, <1>2 DEF Excused
<1>4. CASE Shares(h.read.google, "reader") /\ Goes(r, "deactivate")
  <2>1. PICK g : g = [h EXCEPT !.at = "deactivate"]
    OBVIOUS
  <2>2. g \in Reading /\ g.read = h.read
    BY <1>2, <2>1 DEF Reading
  <2>3. drive'[h.read.google] = "reader"
    BY <1>2, <1>4 DEF Shares, UsersFullInv, UsersTypeOK
  <2>4. Withheld(g)'
    BY <2>2, <2>3, KindsDiffer DEF Withheld
  <2>5. handler' = [handler EXCEPT ![r] = g] /\ UNCHANGED users
    BY <1>1, <1>4, <2>1 DEF Goes, Unshare
  <2> QED
    BY <1>2, <1>3, <1>4, <2>4, <2>5, LosesPermissions
<1>5. CASE GoesWrong("drive") /\ Ends(r) /\ UNCHANGED drive
  <2>1. handler[r].at \notin Late /\ UNCHANGED users
    BY <1>1, <1>2 DEF Late, Unshare
  <2> QED
    BY <1>5, <2>1, PermissionsAtEnd, TroubleTyped
<1> QED
  BY <1>1, <1>4, <1>5 DEF Unshare

(* The row of a removal; a new password and a token leave the address and    *)
(* the state of their user.                                                  *)
LEMMA RowPermissions ==
  ASSUME OneRequest, UsersFullInv, PermissionsInv, NEW r \in Requests,
         Deactivate(r) \/ SavePassword(r) \/ SaveToken(r)
  PROVE  PermissionsInv'
<1>1. PICK h : h = handler[r]
  OBVIOUS
<1>2. PICK u : u = h.user
  OBVIOUS
<1>3. /\ u \in Ids /\ u \in Held /\ users[u] \in User /\ h.at \notin Late
      /\ h.at \in {"deactivate", "password", "token"}
      /\ h.at \in {"deactivate", "password"} => h \in Reading /\ users[u] = h.read
  BY <1>1, <1>2, ReadingFacts, MailingFacts
  DEF Deactivate, SavePassword, SaveToken, Doing, Late
<1>4. /\ UNCHANGED drive /\ UNCHANGED trouble
      /\ handler' = [handler EXCEPT ![r] = Idle]
  BY DEF Deactivate, SavePassword, SaveToken, Ends, Becomes
<1>5. PICK new : /\ users' = [users EXCEPT ![u] = new]
                 /\ new \in User
                 /\ new.google = users[u].google
                 /\ h.at # "deactivate" => new.active = users[u].active
  <2>1. PICK row \in User : row = users[u]
    BY <1>3
  <2>2. PICK tokens :
          /\ tokens = 0..MaxMails
          /\ User = [outlook : STRING, google : Gmails, role : Roles,
                     active : BOOLEAN, token : tokens, tries : Nat]
    BY UserTokens
  <2>3. User = [outlook : STRING, google : Gmails, role : Roles,
                active : BOOLEAN, token : tokens, tries : Nat]
    BY <2>2
  <2>4. CASE Deactivate(r)
    <3>1. PICK new : new = [row EXCEPT !.active = FALSE]
      OBVIOUS
    <3>2. new \in User /\ new.google = row.google
      BY <2>3, <3>1
    <3>3. users' = [users EXCEPT ![u] = new] /\ h.at = "deactivate"
      BY <1>1, <1>2, <2>1, <2>4, <3>1 DEF Deactivate, Doing
    <3> QED
      BY <2>1, <3>2, <3>3
  <2>5. CASE SavePassword(r)
    <3>1. PICK new : new = [row EXCEPT !.token = 0, !.tries = 0]
      OBVIOUS
    <3>2. 0 \in tokens
      BY <2>2, UsersAssumption
    <3>3. new \in User /\ new.google = row.google /\ new.active = row.active
      BY <2>3, <3>1, <3>2
    <3>4. users[u] = h.read
      BY <1>1, <1>3, <2>5 DEF SavePassword, Doing
    <3>5. users' = [users EXCEPT ![u] = new]
      BY <1>1, <1>2, <2>1, <2>5, <3>1, <3>4 DEF SavePassword
    <3> QED
      BY <2>1, <3>3, <3>5
  <2>6. CASE SaveToken(r)
    <3>1. PICK new : new = [row EXCEPT !.token = h.mail, !.tries = @ + 1]
      OBVIOUS
    <3>2. h.mail \in tokens
      BY <1>1, <2>2, <2>6, MailingFacts DEF SaveToken, Doing
    <3>3. row.tries + 1 \in Nat
      BY <2>3
    <3>4. new \in User /\ new.google = row.google /\ new.active = row.active
      BY <2>3, <3>1, <3>2, <3>3
    <3>5. users' = [users EXCEPT ![u] = new]
      BY <1>1, <1>2, <1>3, <2>1, <2>6, <3>1
      DEF SaveToken, UsersFullInv, UsersTypeOK
    <3> QED
      BY <2>1, <3>4, <3>5
  <2> QED
    BY <2>4, <2>5, <2>6
<1>6. /\ users'[u] = new
      /\ \A v \in Held \ {u} : users'[v] = users[v] /\ v \in Held'
      /\ u \in Held'
  <2>1. users'[u] = new /\ \A v \in Ids \ {u} : users'[v] = users[v]
    BY <1>3, <1>5 DEF UsersFullInv, UsersTypeOK
  <2> QED
    BY <1>3, <1>5, <2>1, NoUserIsNone DEF Held
<1>7. ASSUME "restart" \notin trouble' PROVE Writers(Idle)' /\ Withheld(Idle)'
  <2>1. Writers(h) /\ Withheld(h)
    BY <1>1, <1>4, <1>7, PermissionFacts
  <2>2. \A x : ~Excused(h, x)
    BY <1>3 DEF Excused, Late
  <2>3. h.at = "deactivate" => drive[users[u].google] # "writer"
    BY <1>3, <2>1 DEF Withheld
  <2>4. \A x \in Gmails : OfActive(x) /\ drive[x] = "writer" => OfActive(x)'
    BY <1>5, <1>6, <2>3 DEF OfActive
  <2>5. Writers(Idle)'
    BY <1>4, <2>1, <2>2, <2>4 DEF Writers
  <2> QED
    BY <2>5, NothingWithheld
<1> QED
  BY <1>4, <1>7, PermissionsConclude

(* The mail of a recovery.                                                   *)
LEMMA MailPermissions ==
  ASSUME OneRequest, UsersFullInv, PermissionsInv, NEW r \in Requests, SendMail(r)
  PROVE  PermissionsInv'
<1>1. PICK h : h = handler[r]
  OBVIOUS
<1>2. h \in Mailing /\ h.at = "mail"
  BY <1>1, MailingFacts DEF SendMail, Doing
<1>3. handler[r].at \notin Late /\ UNCHANGED <<users, drive>>
  BY <1>1, <1>2 DEF Late, SendMail
<1>4. /\ Becomes(r, [h EXCEPT !.at = "token", !.mail = Len(mails) + 1])
      /\ UNCHANGED trouble
  BY <1>1 DEF SendMail
<1>5. PICK g : g = [h EXCEPT !.at = "token", !.mail = Len(mails) + 1]
  OBVIOUS
<1>6. "todo" \notin DOMAIN g /\ "read" \notin DOMAIN g
  BY <1>2, <1>5 DEF Mailing
<1>7. Withheld(g)
  BY <1>6 DEF Withheld, Creating, Reading
<1> QED
  BY <1>3, <1>4, <1>5, <1>7, PermissionsKept DEF Becomes

(* The answer.                                                               *)
LEMMA AnswerPermissions ==
  ASSUME OneRequest, UsersFullInv, PermissionsInv, NEW r \in Requests, Answer(r)
  PROVE  PermissionsInv'
  BY PermissionsAtEnd DEF Answer, Doing, Late

(* Steps that leave the handlers alone, and the end of the process.          *)
LEMMA OtherPermissions ==
  ASSUME PermissionsInv,
         \/ UNCHANGED <<users, drive, handler, trouble>>
         \/ "restart" \in trouble'
  PROVE  PermissionsInv'
  BY DEF PermissionsInv, WritersInv, SharesInv, OfActive, Excused, Address, Held

(* Every step but a refusal to take from an old address what it had.        *)
LEMMA PermissionsStep ==
  ASSUME OneRequest, AddressesKept, UsersFullInv, PermissionsInv, RefusedInv,
         [UsersNext]_usersVars, [~OldRefused]_usersVars
  PROVE  PermissionsInv'
<1>1. CASE \E r \in Requests : Begin(r)
  BY <1>1, BeginPermissions
<1>2. ASSUME NEW r \in Requests, Continue(r) PROVE PermissionsInv'
  <2>1. CASE UnshareOld(r)
    <3>1. CASE ~OldRefused
      BY <2>1, <3>1, UnsharePermissions
    <3>2. CASE UNCHANGED usersVars
      BY <3>2, OtherPermissions DEF usersVars
    <3> QED
      BY <3>1, <3>2
  <2>2. CASE SaveRow(r) \/ SaveAccess(r) \/ ShareNew(r) \/ Answer(r)
    BY <2>2, CreationPermissions, AccessPermissions, SharePermissions,
       AnswerPermissions
  <2>3. CASE Clear(r) \/ ChangeRole(r) \/ SaveUpdate(r) \/ UnshareInactive(r)
    BY <2>3, ClearPermissions, RolePermissions, SavePermissions,
       UnsharePermissions
  <2>4. CASE Unshare(r) \/ Deactivate(r) \/ SendMail(r) \/ SaveToken(r)
             \/ SavePassword(r)
    BY <2>4, RemovalPermissions, RowPermissions, MailPermissions
  <2> QED
    BY <1>2, <2>1, <2>2, <2>3, <2>4 DEF Continue
<1>3. CASE \E u \in Held : \E places \in SUBSET Existing : DropAccess(u, places)
  BY <1>3, OtherPermissions DEF DropAccess
<1>4. CASE \E mail \in 1..MaxMails : Expire(mail)
  BY <1>4, OtherPermissions DEF Expire
<1>5. CASE Stop
  BY <1>5, OtherPermissions DEF Stop, GoesWrong
<1>6. CASE UNCHANGED usersVars
  BY <1>6, OtherPermissions DEF usersVars
<1>7. CASE \E u \in removing : RemoveRefused(u)
  BY <1>7, RemoveRefusedPermissions
<1> QED
  BY <1>1, <1>2, <1>3, <1>4, <1>5, <1>6, <1>7 DEF UsersNext

(* A new role gives a permission to an address of its user, nobody else's.   *)
LEMMA RoleRefused ==
  ASSUME OneRequest, UsersFullInv, RefusedInv, NEW r \in Requests,
         ChangeRole(r), "restart" \notin trouble
  PROVE  \A v \in removing : drive'[users[v].google] # "writer"
<1>1. PICK h : h = handler[r]
  OBVIOUS
<1>2. /\ h \in Changing /\ ChangingInv(h) /\ h.at = "role" /\ h.user \in Held
  BY <1>1, ChangingFacts DEF ChangeRole, Doing
<1>3. users[h.user] = h.read
      /\ Own(h.read.google, h.user) /\ Own(h.body.google, h.user)
  BY <1>2 DEF ChangingInv
<1>4. h.user \notin removing
  BY <1>1, <1>2 DEF RefusedInv, RemovingInv, Free
<1>5. \A v \in removing : users[v].google # Address(h)
  BY <1>3, <1>4 DEF Own, Address, RefusedInv, RemovingInv
<1>6. UNCHANGED drive \/ Shares(Address(h), Permission(h.body.role))
  BY <1>1 DEF ChangeRole
<1>7. ASSUME NEW v \in removing PROVE drive'[users[v].google] # "writer"
  <2>1. users[v].google \in Gmails
    BY HeldTyped DEF RefusedInv, RemovingInv, Held, UsersFullInv, User
  <2> QED
    BY <1>5, <1>6, <2>1 DEF Shares, RefusedInv, UsersFullInv, UsersTypeOK
<1> QED
  BY <1>7

(* A share gives it to an address that is not of one to be removed.          *)
LEMMA ShareRefused ==
  ASSUME OneRequest, UsersFullInv, RefusedInv, SharesInv, NEW r \in Requests,
         ShareNew(r), "restart" \notin trouble
  PROVE  \A v \in removing' : drive'[users[v].google] # "writer"
<1>1. PICK h : h = handler[r]
  OBVIOUS
<1>2. h \in Handler /\ HandlerInv(h) /\ h.at = "share"
  BY <1>1, HandlerFacts DEF ShareNew, Doing
<1>3. h \in Creating /\ CreatingInv(h)
  BY <1>2, WhereItAwaits DEF HandlerInv
<1>4. /\ h.user \in Held /\ users[h.user].google = h.body.google
  BY <1>2, <1>3, PartsOf, NoUserIsNone DEF CreatingInv, Held
<1>5. h.user \notin removing
  BY <1>1, <1>2 DEF RefusedInv, RemovingInv, Free
<1>6. drive[h.body.google] # "writer"
  BY <1>1, <1>2, <1>3 DEF SharesInv
<1>7. CASE UNCHANGED drive /\ removing' = removing \cup {h.user}
  BY <1>4, <1>6, <1>7 DEF RefusedInv
<1>8. CASE Shares(h.body.google, Permission(h.body.role)) /\ UNCHANGED removing
  <2>1. ASSUME NEW v \in removing PROVE drive'[users[v].google] # "writer"
    <3>1. users[v].google \in Gmails /\ v \in Held
      BY HeldTyped DEF RefusedInv, RemovingInv, Held, UsersFullInv, User
    <3>2. users[v].google # h.body.google
      BY <1>4, <1>5, <3>1 DEF UsersFullInv, GoogleInv
    <3> QED
      BY <1>8, <3>1, <3>2 DEF Shares, RefusedInv, UsersFullInv, UsersTypeOK
  <2> QED
    BY <1>8, <2>1
<1> QED
  BY <1>1, <1>7, <1>8 DEF ShareNew

(* A reader's permission is not a writer's.                                  *)
LEMMA LessRefused ==
  ASSUME UsersFullInv, RefusedInv, "restart" \notin trouble, NEW google,
         Shares(google, "reader") \/ UNCHANGED drive
  PROVE  \A v \in removing : drive'[users[v].google] # "writer"
<1>1. ASSUME NEW v \in removing PROVE drive'[users[v].google] # "writer"
  <2>1. users[v].google \in Gmails
    BY HeldTyped DEF RefusedInv, RemovingInv, Held, UsersFullInv, User
  <2> QED
    BY <2>1 DEF Shares, RefusedInv, UsersFullInv, UsersTypeOK
<1> QED
  BY <1>1

(* The rows of those to be removed stay as they are until they are.          *)
LEMMA RefusedRows ==
  ASSUME OneRequest, UsersFullInv, RemovingInv, [UsersNext]_usersVars
  PROVE  \A v \in removing : v \in removing' => users'[v] = users[v]
<1>1. CASE \E r \in Requests : Begin(r)
  BY <1>1 DEF Begin, BeginCreate, BeginUpdate, BeginDelete, BeginPassword,
     BeginRecovery
<1>2. CASE \E r \in Requests : Continue(r)
  BY <1>2, SaveRowRemoving, RowsLeft DEF Continue, ShareNew
<1>3. CASE \E u \in removing : RemoveRefused(u)
  <2>1. PICK u \in removing : RemoveRefused(u)
    BY <1>3
  <2> QED
    BY <2>1 DEF RemoveRefused, UsersFullInv, UsersTypeOK
<1>4. CASE \/ \E u \in Held : \E places \in SUBSET Existing : DropAccess(u, places)
           \/ \E mail \in 1..MaxMails : Expire(mail)
           \/ Stop \/ UNCHANGED usersVars
  BY <1>4 DEF DropAccess, Expire, Stop, usersVars
<1> QED
  BY <1>1, <1>2, <1>3, <1>4 DEF UsersNext

(* Every step.                                                               *)
LEMMA RefusedStep ==
  ASSUME OneRequest, UsersFullInv, RefusedInv, SharesInv, [UsersNext]_usersVars
  PROVE  RefusedInv'
<1>1. RemovingInv /\ RemovingInv'
  BY RemovingStep DEF RefusedInv
<1>2. \A v \in removing : v \in removing' => users'[v] = users[v]
  BY <1>1, RefusedRows
<1>3. ASSUME \A v \in removing : drive'[users[v].google] # "writer",
             removing' \subseteq removing
      PROVE  RefusedInv'
  BY <1>1, <1>2, <1>3 DEF RefusedInv
<1>4. ASSUME "restart" \notin trouble, NEW google, removing' \subseteq removing,
             Shares(google, "reader") \/ UNCHANGED drive
      PROVE  RefusedInv'
  BY <1>3, <1>4, LessRefused
<1>5. CASE "restart" \in trouble
  <2>1. "restart" \in trouble'
    <3>1. ASSUME NEW r \in Requests, Begin(r) \/ Continue(r)
          PROVE  UNCHANGED trouble \/ GoesWrong("drive")
      BY <3>1
      DEF Begin, Continue, BeginCreate, BeginUpdate, BeginDelete, BeginPassword,
          BeginRecovery, SaveRow, SaveAccess, ShareNew, Answer, Clear,
          ChangeRole, SaveUpdate, UnshareOld, UnshareInactive, Unshare,
          Deactivate, SendMail, SaveToken, SavePassword, Shares
    <3>2. UNCHANGED trouble \/ \E what : GoesWrong(what)
      BY <3>1 DEF UsersNext, DropAccess, Expire, RemoveRefused, Stop, usersVars
    <3> QED
      BY <1>5, <3>2 DEF GoesWrong
  <2> QED
    BY <1>1, <2>1 DEF RefusedInv
<1>6. ASSUME "restart" \notin trouble, NEW r \in Requests, Begin(r) \/ Continue(r)
      PROVE  RefusedInv'
  <2>1. CASE ShareNew(r)
    <3>1. \A v \in removing' : drive'[users[v].google] # "writer"
      BY <1>6, <2>1, ShareRefused
    <3> QED
      BY <1>1, <2>1, <3>1 DEF RefusedInv, ShareNew
  <2>2. CASE ChangeRole(r)
    BY <1>3, <1>6, <2>2, RoleRefused DEF ChangeRole
  <2>3. CASE UnshareOld(r) \/ UnshareInactive(r) \/ Unshare(r)
    <3>1. Shares(handler[r].read.google, "reader") \/ UNCHANGED drive
      BY <2>3 DEF UnshareOld, UnshareInactive, Unshare
    <3> QED
      BY <1>4, <1>6, <2>3, <3>1 DEF UnshareOld, UnshareInactive, Unshare
  <2>4. CASE Begin(r)
    <3>1. UNCHANGED drive /\ UNCHANGED removing
      BY <2>4 DEF Begin, BeginCreate, BeginUpdate, BeginDelete, BeginPassword,
         BeginRecovery
    <3> QED
      BY <1>4, <1>6, <3>1
  <2>5. CASE SaveRow(r) \/ SaveAccess(r) \/ Answer(r) \/ Clear(r) \/ SaveUpdate(r)
             \/ Deactivate(r) \/ SendMail(r) \/ SaveToken(r) \/ SavePassword(r)
    <3>1. UNCHANGED drive /\ UNCHANGED removing
      BY <2>5 DEF SaveRow, SaveAccess, Answer, Clear, SaveUpdate, Deactivate,
         SendMail, SaveToken, SavePassword
    <3> QED
      BY <1>4, <1>6, <3>1
  <2> QED
    BY <1>6, <2>1, <2>2, <2>3, <2>4, <2>5 DEF Continue
<1>7. ASSUME "restart" \notin trouble,
             \/ \E u \in Held : \E places \in SUBSET Existing : DropAccess(u, places)
             \/ \E mail \in 1..MaxMails : Expire(mail)
             \/ \E u \in removing : RemoveRefused(u)
             \/ UNCHANGED usersVars
      PROVE  RefusedInv'
  <2>1. UNCHANGED drive /\ removing' \subseteq removing
    BY <1>7 DEF DropAccess, Expire, RemoveRefused, usersVars
  <2> QED
    BY <1>4, <1>7, <2>1
<1>8. CASE Stop
  BY <1>1, <1>8 DEF Stop, RefusedInv
<1> QED
  BY <1>5, <1>6, <1>7, <1>8 DEF UsersNext

(* With one request under way at a time, changes that do not take a user's   *)
(* address as they make it inactive, and a Drive that lets go of the address *)
(* a user had, a user that is not active does not write on Drive.            *)
THEOREM InactiveUsersOnlyRead ==
  ASSUME OneRequest, AddressesKept
  PROVE  UsersSpec /\ [][~OldRefused]_usersVars => []InactiveOnlyReads
<1>1. UsersInit => PermissionsInv /\ RefusedInv
  BY UsersStart
  DEF UsersInit, PermissionsInv, WritersInv, SharesInv, RefusedInv, Idle,
      Creating, Reading
<1>2. /\ UsersFullInv /\ PermissionsInv /\ RefusedInv
      /\ [UsersNext]_usersVars /\ [~OldRefused]_usersVars
      => PermissionsInv' /\ RefusedInv'
  BY PermissionsStep, RefusedStep DEF PermissionsInv
<1>3. UsersFullInv /\ PermissionsInv => InactiveOnlyReads
  <2> SUFFICES ASSUME UsersFullInv, PermissionsInv, NEW u \in Held,
                      ~ users[u].active, Quiet(u), "restart" \notin trouble,
                      drive[users[u].google] = "writer"
               PROVE  FALSE
    BY DEF InactiveOnlyReads
  <2>1. users[u] \in User /\ users[u].google \in Gmails
    BY HeldTyped DEF UsersFullInv, User, Held
  <2>2. ~OfActive(users[u].google)
    BY DEF OfActive, UsersFullInv, GoogleInv
  <2>3. PICK r \in Requests : Excused(handler[r], users[u].google)
    BY <2>1, <2>2 DEF PermissionsInv, WritersInv
  <2>4. PICK h : h = handler[r]
    OBVIOUS
  <2>5. /\ h \in Changing /\ ChangingInv(h) /\ h.user \in Held
        /\ h.at \in {"save", "email", "inactive"}
    BY <2>3, <2>4, ChangingFacts DEF Excused, Doing
  <2>6. h.user # u
    BY <2>4, <2>5 DEF Quiet, On, Free
  <2>7. Own(h.read.google, h.user) /\ Own(h.body.google, h.user)
    BY <2>5 DEF ChangingInv
  <2>8. users[u].google # h.read.google /\ users[u].google # h.body.google
    BY <2>6, <2>7 DEF Own
  <2>9. h.at = "save" => users[h.user] = h.read
    BY <2>5 DEF ChangingInv
  <2> QED
    BY <2>3, <2>4, <2>8, <2>9 DEF Excused, Address
<1> QED
  BY <1>1, <1>2, <1>3, UsersFullHolds, PTL DEF UsersSpec
==============================================================================

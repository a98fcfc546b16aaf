--------------------------- MODULE SystemYearProofs ---------------------------
(***************************************************************************)
(* What holds of SystemYear for every set of modules, careers and years,   *)
(* any number of requests, and whatever Drive refuses.                     *)
(***************************************************************************)
EXTENDS SystemYear, TLAPS, SequenceTheorems, FiniteSetTheorems

-------------------------------------------------------------------------------
(***************************************************************************)
(* Lists.                                                                  *)
(***************************************************************************)

(* A list is its first element and the rest.                                 *)
LEMMA RangeSplits ==
  ASSUME NEW S, NEW s \in Seq(S), s # <<>>
  PROVE  /\ Head(s) \in S /\ Tail(s) \in Seq(S)
         /\ Range(s) = {Head(s)} \cup Range(Tail(s))
<1>1. Head(s) \in S /\ Tail(s) \in Seq(S)
      /\ Len(Tail(s)) = Len(s) - 1
      /\ \A i \in 1 .. Len(Tail(s)) : Tail(s)[i] = s[i + 1]
  BY HeadTailProperties
<1>2. Len(s) \in Nat \ {0} /\ DOMAIN s = 1..Len(s) /\ Head(s) = s[1]
      /\ DOMAIN Tail(s) = 1..Len(Tail(s))
  BY <1>1, EmptySeq, LenProperties DEF Head
<1>3. ASSUME NEW i \in DOMAIN s
      PROVE  s[i] \in {Head(s)} \cup Range(Tail(s))
  <2>1. CASE i = 1
    BY <1>2, <2>1
  <2>2. CASE i # 1
    <3>1. i - 1 \in DOMAIN Tail(s) /\ Tail(s)[i - 1] = s[i]
      BY <1>1, <1>2, <2>2
    <3> QED
      BY <3>1 DEF Range
  <2> QED
    BY <2>1, <2>2
<1>4. ASSUME NEW i \in DOMAIN Tail(s)
      PROVE  i + 1 \in DOMAIN s /\ Tail(s)[i] = s[i + 1]
  BY <1>1, <1>2
<1>5. Range(s) \subseteq {Head(s)} \cup Range(Tail(s))
  BY <1>3 DEF Range
<1>6. Range(Tail(s)) \subseteq Range(s)
  BY <1>4 DEF Range
<1>7. Head(s) \in Range(s)
  BY <1>2 DEF Range
<1> QED
  BY <1>1, <1>5, <1>6, <1>7

(* The elements of a list of one, and of none.                               *)
LEMMA RangeOfFew ==
  /\ \A x : Range(<<x>>) = {x}
  /\ \A x, y : Range(<<x, y>>) = {x, y}
  /\ Range(<<>>) = {}
<1>1. \A x : Range(<<x>>) = {x}
  BY DEF Range
<1>2. ASSUME NEW x, NEW y
      PROVE  Range(<<x, y>>) = {x, y}
  <2> DEFINE s == <<x, y>>
  <2>1. DOMAIN s = {1, 2} /\ s[1] = x /\ s[2] = y
    OBVIOUS
  <2> HIDE DEF s
  <2>2. Range(s) = {x, y}
    BY <2>1 DEF Range
  <2> QED
    BY <2>2 DEF s
<1>3. Range(<<>>) = {}
  BY DEF Range
<1> QED
  BY <1>1, <1>2, <1>3

(* The elements of a list after another.                                     *)
LEMMA RangeOfBoth ==
  ASSUME NEW S, NEW s \in Seq(S), NEW t \in Seq(S)
  PROVE  Range(s \o t) = Range(s) \cup Range(t)
<1>1. /\ s \o t \in Seq(S) /\ Len(s \o t) = Len(s) + Len(t)
      /\ \A i \in 1 .. Len(s) + Len(t) :
           (s \o t)[i] = IF i <= Len(s) THEN s[i] ELSE t[i - Len(s)]
  BY ConcatProperties
<1>2. /\ DOMAIN s = 1..Len(s) /\ DOMAIN t = 1..Len(t)
      /\ DOMAIN (s \o t) = 1..(Len(s) + Len(t))
      /\ Len(s) \in Nat /\ Len(t) \in Nat
  BY <1>1, LenProperties
<1> DEFINE u == s \o t
<1> HIDE DEF u
<1>3. ASSUME NEW i \in DOMAIN u
      PROVE  u[i] \in Range(s) \cup Range(t)
  <2>1. CASE i <= Len(s)
    <3>1. i \in DOMAIN s /\ u[i] = s[i]
      BY <1>1, <1>2, <2>1 DEF u
    <3> QED
      BY <3>1 DEF Range
  <2>2. CASE ~(i <= Len(s))
    <3>1. i - Len(s) \in DOMAIN t /\ u[i] = t[i - Len(s)]
      BY <1>1, <1>2, <2>2 DEF u
    <3> QED
      BY <3>1 DEF Range
  <2> QED
    BY <2>1, <2>2
<1>4. ASSUME NEW i \in DOMAIN s
      PROVE  i \in DOMAIN u /\ u[i] = s[i]
  BY <1>1, <1>2 DEF u
<1>5. ASSUME NEW i \in DOMAIN t
      PROVE  i + Len(s) \in DOMAIN u /\ u[i + Len(s)] = t[i]
  BY <1>1, <1>2 DEF u
<1>6. Range(u) \subseteq Range(s) \cup Range(t)
  BY <1>3 DEF Range
<1>7. Range(s) \subseteq Range(u)
  BY <1>4 DEF Range
<1>8. Range(t) \subseteq Range(u)
  <2> SUFFICES ASSUME NEW i \in DOMAIN t PROVE t[i] \in Range(u)
    BY DEF Range
  <2> QED
    BY <1>5 DEF Range
<1> QED
  BY <1>6, <1>7, <1>8 DEF u

(* A list of one after another is the list of the two.                       *)
LEMMA ConcatOfOnes ==
  ASSUME NEW x, NEW y
  PROVE  <<x>> \o <<y>> = <<x, y>>
<1> DEFINE u == <<x>> \o <<y>>
<1>1. <<x>> \in Seq({x, y}) /\ <<y>> \in Seq({x, y})
      /\ Len(<<x>>) = 1 /\ Len(<<y>>) = 1
  OBVIOUS
<1>2. /\ u \in Seq({x, y}) /\ Len(u) = 2
      /\ \A i \in 1..2 : u[i] = IF i <= 1 THEN <<x>>[i] ELSE <<y>>[i - 1]
  BY <1>1, ConcatProperties
<1>3. u[1] = x /\ u[2] = y
  BY <1>2
<1>4. <<x, y>> \in Seq({x, y}) /\ Len(<<x, y>>) = 2
      /\ <<x, y>>[1] = x /\ <<x, y>>[2] = y
  OBVIOUS
<1> HIDE DEF u
<1>5. \A i \in 1..Len(u) : u[i] = <<x, y>>[i]
  BY <1>2, <1>3, <1>4
<1>6. u = <<x, y>>
  BY <1>2, <1>4, <1>5, SeqEqual
<1> QED
  BY <1>6 DEF u

(* An order of a finite set has its elements and no others.                  *)
LEMMA OrderHasAll ==
  ASSUME NEW S, IsFiniteSet(S), NEW order \in SetToSeqs(S)
  PROVE  order \in Seq(S) /\ Range(order) = S /\ (S # {} => order # <<>>)
<1> DEFINE D == 1..Cardinality(S)
<1>1. Cardinality(S) \in Nat
  BY FS_CardinalityType
<1>2. order \in [D -> S] /\ \A i, j \in D : i # j => order[i] # order[j]
  BY DEF SetToSeqs
<1>3. order \in Injection(D, S)
  BY <1>2 DEF Injection, IsInjective
<1>4. IsFiniteSet(D) /\ Cardinality(D) = Cardinality(S)
  BY <1>1, FS_Interval
<1>5. order \in Surjection(D, S)
  BY <1>3, <1>4, FS_Injection
<1>6. \A x \in S : \E i \in D : order[i] = x
  BY <1>5 DEF Surjection
<1>7. order \in Seq(S)
  BY <1>1, <1>2
<1>8. DOMAIN order = D
  BY <1>2
<1>9. Range(order) = S
  BY <1>2, <1>6, <1>8 DEF Range
<1>10. order = <<>> => S = {}
  BY <1>9, RangeOfFew
<1> QED
  BY <1>7, <1>9, <1>10

-------------------------------------------------------------------------------
(* The year modules that r saved.                                            *)
MineOf(r, code, year) ==
  {y \in yearModules : y.module = code /\ y.year = year /\ y.by = r}

(* r saved the year module, and all its submodules.                          *)
Made(r, code, year) ==
  \E y \in MineOf(r, code, year) : Range(Names(code, TRUE)) \subseteq y.names

(* What a handler holds where it awaits: what is left to do is there, and it *)
(* is of its task.                                                           *)
Placed(h) ==
  /\ h.at \in {"validate", "list", "set", "end"} => h.task = "change"
  /\ h.at \in {"save", "templates", "created"} => h.task = "career"
  /\ h.at = "find" => h.task \in {"career", "module"}
  /\ h.at = "folder" => h.task \in {"career", "module", "folders"}
  /\ h.at = "insert" <=> h.task = "work"
  /\ h.at \in {"validate", "sub", "insert"} => h.left # <<>>
  /\ h.at \in {"check", "row", "sub", "folder", "find"} => h.todo # <<>>
  /\ h.at = "sub" => h.left \in Seq(SubNames)
  /\ h.at = "insert" => h.left \in Seq(Range(Work))
  /\ h.at = "validate" => h.left \in Seq(Validations)
  /\ h.task = "career" => h.todo = <<h.body.module>>

(* What it has done so far is in the tables.                                 *)
Recorded(r, h) ==
  /\ h.task = "change" => /\ h.root \in DOMAIN notifications
                          /\ notifications[h.root].year = h.year
  /\ h.task = "change" /\ h.at \in {"check", "row", "sub", "set"} =>
       h.year - 1 \in systemYears
  /\ h.at = "end" /\ h.errors = {} => h.year \in systemYears
  /\ h.task = "career" => h.year \in systemYears
  /\ h.at = "row" => MineOf(r, Head(h.todo), h.year) = {}
  /\ h.at = "sub" =>
       \E y \in MineOf(r, Head(h.todo), h.year) :
         Range(Names(Head(h.todo), TRUE)) \subseteq y.names \cup Range(h.left)
  /\ h.at \in {"templates", "created"} => Made(r, h.body.module, h.year)
  /\ h.at = "created" => modules[h.body.module] = "ready"

HandlersInv ==
  \A r \in Requests : ~Free(r) => Placed(handler[r]) /\ Recorded(r, handler[r])

(* The years are one after another.                                          *)
YearsInv ==
  \E last \in systemYears : last >= FirstYear /\ systemYears = FirstYear..last

(* A request saves the year module of a module once.                         *)
OnceInv ==
  \A y, z \in yearModules :
    y.module = z.module /\ y.year = z.year /\ y.by = z.by => y = z

YearInv ==
  /\ SystemYearTypeOK /\ YearsInv /\ OnceInv /\ CompletedBegan /\ HandlersInv

-------------------------------------------------------------------------------
(* What a change has made so far, where no career or module changes          *)
(* meanwhile: all but the modules left.                                      *)
Preparing(r, h) ==
  h.task = "change" /\ h.at \in {"check", "row", "sub", "set"} =>
    \A code \in OfCareers \cup Range(Fixed) :
      (h.at # "set" /\ code \in Range(h.todo)) \/ Made(r, code, h.year)

PreparingInv == \A r \in Requests : ~Free(r) => Preparing(r, handler[r])

(* A task that waits for the others is under way alone.                      *)
AloneInv ==
  \A r, s \in Requests :
    r # s /\ ~Free(r) /\ ~Free(s) =>
      {handler[r].task, handler[s].task} \cap Patient = {}

(***************************************************************************)
(* What a step of one request leaves to the others.                        *)
(***************************************************************************)
(* The types of the tables.                                                  *)
TablesTypeOK ==
  /\ systemYears \subseteq Years
  /\ modules \in [Codes -> ModuleState]
  /\ careers \subseteq Career
  /\ yearModules \subseteq YearModule
  /\ open \in [Years -> SUBSET Range(Work)]
  /\ notifications \in Seq(Notification)
  /\ trouble \in Failures \cup {"none"}

tables == <<systemYears, modules, careers, yearModules, open, notifications>>

(* Only the year modules of r change, and nothing that was made goes.        *)
Grows(r) ==
  /\ \A i \in DOMAIN notifications :
       i \in DOMAIN notifications' /\ notifications'[i].year = notifications[i].year
  /\ systemYears \subseteq systemYears'
  /\ \A y : y.by # r => (y \in yearModules' <=> y \in yearModules)
  /\ \A code \in Codes : modules[code] = "ready" => modules'[code] = "ready"

(* A handler is not free while it is at something.                           *)
LEMMA HandlerBusy ==
  ASSUME NEW h \in Handler
  PROVE  h # Idle /\ h.body.module \in Codes /\ h.body \in Career
  BY SystemYearAssumption DEF Handler, Idle, Career

(* A handler that is not free is one.                                        *)
LEMMA BusyTyped ==
  ASSUME SystemYearTypeOK, NEW r \in Requests, ~Free(r)
  PROVE  handler[r] \in Handler
  BY DEF SystemYearTypeOK, Free

(* What the others recorded stays true.                                      *)
LEMMA OthersRecorded ==
  ASSUME NEW r \in Requests, Grows(r), NEW s \in Requests \ {r},
         NEW h \in Handler, Recorded(s, h), Placed(h)
  PROVE  Recorded(s, h)'
<1>1. h.body.module \in Codes
  BY HandlerBusy
<1>2. \A code, year : MineOf(s, code, year)' = MineOf(s, code, year)
  BY DEF MineOf, Grows
<1>3. \A code, year : Made(s, code, year)' <=> Made(s, code, year)
  BY <1>2 DEF Made
<1> QED
  BY <1>1, <1>2, <1>3 DEF Recorded, Grows

(* A step of one request keeps the invariant when it keeps the tables and    *)
(* what that request records.                                                *)
LEMMA Concludes ==
  ASSUME YearInv, NEW r \in Requests, Grows(r), TablesTypeOK', YearsInv',
         OnceInv', CompletedBegan', NEW h \in Handler \cup {Idle},
         handler' = [handler EXCEPT ![r] = h],
         h # Idle => Placed(h) /\ Recorded(r, h)'
  PROVE  YearInv'
<1>1. SystemYearTypeOK'
  BY DEF YearInv, SystemYearTypeOK, TablesTypeOK
<1>2. ASSUME NEW s \in Requests, ~Free(s)'
      PROVE  Placed(handler[s])' /\ Recorded(s, handler[s])'
  <2>1. CASE s = r
    <3>1. handler'[s] = h /\ h # Idle
      BY <1>2, <2>1 DEF YearInv, SystemYearTypeOK, Free
    <3> QED
      BY <3>1, <2>1 DEF Placed, Recorded
  <2>2. CASE s # r
    <3>1. handler'[s] = handler[s] /\ ~Free(s)
      BY <1>2, <2>2 DEF YearInv, SystemYearTypeOK, Free
    <3>2. handler[s] \in Handler
      BY <3>1, BusyTyped DEF YearInv
    <3>3. PICK g \in Handler : g = handler[s]
      BY <3>2
    <3>4. Placed(g) /\ Recorded(s, g)
      BY <3>1, <3>3 DEF YearInv, HandlersInv
    <3>5. Recorded(s, g)'
      BY <2>2, <3>4, OthersRecorded
    <3>6. handler'[s] = g
      BY <3>1, <3>3
    <3>7. Placed(handler[s])'
      BY <3>4, <3>6 DEF Placed
    <3>8. Recorded(s, handler[s])'
      BY <3>5, <3>6 DEF Recorded
    <3> QED
      BY <3>7, <3>8
  <2> QED
    BY <2>1, <2>2
<1> QED
  BY <1>1, <1>2 DEF YearInv, HandlersInv

(* A step that leaves the tables alone.                                      *)
LEMMA OnlyHandler ==
  ASSUME YearInv, NEW r \in Requests, UNCHANGED tables,
         trouble' \in Failures \cup {"none"},
         NEW h \in Handler \cup {Idle}, handler' = [handler EXCEPT ![r] = h],
         h # Idle => Placed(h) /\ Recorded(r, h)
  PROVE  YearInv'
<1>1. Grows(r)
  BY DEF Grows, tables
<1>2. TablesTypeOK'
  BY DEF YearInv, SystemYearTypeOK, TablesTypeOK, tables
<1>3. YearsInv' /\ OnceInv' /\ CompletedBegan'
  BY DEF YearInv, YearsInv, OnceInv, CompletedBegan, tables
<1>4. h # Idle => Recorded(r, h)'
  BY DEF Recorded, Made, MineOf, tables
<1> QED
  BY <1>1, <1>2, <1>3, <1>4, Concludes

-------------------------------------------------------------------------------
(***************************************************************************)
(* Lists, names and years.                                                 *)
(***************************************************************************)
(* The submodules of a module are there when it is made by itself too.       *)
LEMMA NamesTyped ==
  ASSUME NEW code, NEW update \in BOOLEAN
  PROVE  /\ Names(code, update) \in Seq(SubNames) /\ Names(code, update) # <<>>
         /\ Range(Names(code, TRUE)) \subseteq Range(Names(code, update))
         /\ Range(Names(code, update)) \subseteq SubNames
<1> DEFINE short == <<"Consejos">>
           both == <<"Procesos", "Consejos">>
           act == <<"Actas de grado">>
<1>1. <<>> \o short = short
  BY ConcatEmptySeq
<1>2. <<"Procesos">> \o short = both
  BY ConcatOfOnes
<1>3. Range(short) = {"Consejos"} /\ Range(act) = {"Actas de grado"}
      /\ Range(both) = {"Procesos", "Consejos"}
  BY RangeOfFew
<1>4. Names(code, update) = IF code = "COMM" THEN act
                            ELSE IF update THEN short ELSE both
  BY <1>1, <1>2 DEF Names
<1>5. Names(code, TRUE) = IF code = "COMM" THEN act ELSE short
  BY <1>1, <1>2 DEF Names
<1>6. short \in Seq(SubNames) /\ act \in Seq(SubNames) /\ both \in Seq(SubNames)
      /\ short # <<>> /\ act # <<>> /\ both # <<>>
  BY DEF SubNames
<1> HIDE DEF short, both, act
<1> QED
  BY <1>3, <1>4, <1>5, <1>6 DEF SubNames

(* A list of names, or of work, is one of what may be left.                  *)
LEMMA NamesMayBeLeft ==
  /\ \A s \in Seq(SubNames) : s \in Seq(SubNames \cup Validations)
  /\ \A s \in Seq(Validations) : s \in Seq(SubNames \cup Validations)
  /\ \A s \in Seq(Range(Work)) : s \in Seq(SubNames \cup Validations)
  BY SeqMonotonic DEF Validations

(* The current year is the last.                                             *)
LEMMA CurrentIsLast ==
  ASSUME SystemYearTypeOK, YearsInv
  PROVE  Current \in systemYears /\ systemYears = FirstYear..Current
         /\ Current \in Nat
<1>1. PICK last \in systemYears : last >= FirstYear
                                  /\ systemYears = FirstYear..last
  BY DEF YearsInv
<1>2. last \in Nat /\ FirstYear \in Nat
  BY SystemYearAssumption DEF SystemYearTypeOK
<1>3. \A y \in systemYears : last >= y
  BY <1>1, <1>2
<1>4. Current = CHOOSE x \in systemYears : \A y \in systemYears : x >= y
  BY DEF Current, Max
<1>5. Current \in systemYears /\ \A y \in systemYears : Current >= y
  BY <1>3, <1>4
<1>6. Current >= last /\ last >= Current
  BY <1>1, <1>3, <1>5
<1> QED
  BY <1>1, <1>2, <1>5, <1>6

-------------------------------------------------------------------------------
(***************************************************************************)
(* The steps of a year module.                                             *)
(***************************************************************************)
(* Where a handler is, it is placed, and what it did is recorded.            *)
LEMMA DoingFacts ==
  ASSUME YearInv, NEW r \in Requests, NEW place, Doing(r, place)
  PROVE  /\ ~Free(r) /\ handler[r] \in Handler /\ handler[r].at = place
         /\ Placed(handler[r]) /\ Recorded(r, handler[r])
  BY BusyTyped DEF YearInv, HandlersInv, Doing

(* A handler that ends.                                                      *)
LEMMA EndsStep ==
  ASSUME YearInv, NEW r \in Requests, Ends(r), UNCHANGED tables,
         trouble' \in Failures \cup {"none"}
  PROVE  YearInv'
<1>1. handler' = [handler EXCEPT ![r] = Idle]
  BY DEF Ends, Becomes
<1> QED
  BY <1>1, OnlyHandler

(* A handler that fails.                                                     *)
LEMMA FailsStep ==
  ASSUME YearInv, NEW r \in Requests, ~Free(r), Fails(r), UNCHANGED tables,
         trouble' \in Failures \cup {"none"}
  PROVE  YearInv'
<1> DEFINE h == handler[r]
           noted == h.errors \cup {"error"}
           g == [h EXCEPT !.errors = noted, !.at = "end"]
<1>1. h \in Handler /\ Placed(h) /\ Recorded(r, h)
  BY BusyTyped DEF YearInv, HandlersInv
<1>2. CASE h.task # "change"
  BY <1>2, EndsStep DEF Fails
<1>3. CASE h.task = "change"
  <2>1. handler' = [handler EXCEPT ![r] = g]
    BY <1>3 DEF Fails
  <2>2. noted \in SUBSET (Validations \cup {"error"}) /\ noted # {}
    BY <1>1 DEF Handler
  <2> HIDE DEF noted
  <2>3. g \in Handler /\ g.at = "end" /\ g.task = h.task /\ g.errors = noted
        /\ g.root = h.root /\ g.year = h.year
    BY <1>1, <2>2 DEF Handler
  <2> HIDE DEF g
  <2>4. Placed(g)
    BY <1>3, <2>3 DEF Placed
  <2>5. Recorded(r, g)
    BY <1>1, <1>3, <2>2, <2>3 DEF Recorded
  <2> QED
    BY <2>1, <2>3, <2>4, <2>5, OnlyHandler
<1> QED
  BY <1>2, <1>3

(* Nothing went wrong but what did.                                          *)
LEMMA TroubleTyped ==
  ASSUME YearInv, UNCHANGED trouble
  PROVE  trouble' \in Failures \cup {"none"}
  BY DEF YearInv, SystemYearTypeOK

(* A handler that goes on is one, with the rest as it was.                   *)
LEMMA GoesOn ==
  ASSUME NEW h \in Handler,
         NEW place \in {"validate", "list", "check", "row", "sub", "set", "end",
                        "save", "find", "folder", "templates", "created",
                        "insert"}
  PROVE  LET g == [h EXCEPT !.at = place] IN
         /\ g \in Handler /\ g.at = place /\ g.task = h.task /\ g.year = h.year
         /\ g.root = h.root /\ g.todo = h.todo /\ g.left = h.left
         /\ g.errors = h.errors /\ g.body = h.body
  BY DEF Handler

(* The year module is looked up.                                             *)
LEMMA CheckYearModuleStep ==
  ASSUME YearInv, NEW r \in Requests, CheckYearModule(r)
  PROVE  YearInv'
<1> DEFINE h == handler[r]
           g == [h EXCEPT !.at = "row"]
<1>1. /\ ~Free(r) /\ h \in Handler /\ h.at = "check"
      /\ Placed(h) /\ Recorded(r, h)
  BY DoingFacts DEF CheckYearModule
<1>2. UNCHANGED tables /\ trouble' \in Failures \cup {"none"}
  BY TroubleTyped DEF CheckYearModule, tables
<1>3. CASE YearModulesOf(Head(h.todo), h.year) # {}
  BY <1>1, <1>2, <1>3, FailsStep DEF CheckYearModule
<1>4. CASE YearModulesOf(Head(h.todo), h.year) = {}
  <2>1. handler' = [handler EXCEPT ![r] = g]
    BY <1>4 DEF CheckYearModule, Goes
  <2>2. /\ g \in Handler /\ g.at = "row" /\ g.task = h.task /\ g.year = h.year
        /\ g.root = h.root /\ g.todo = h.todo /\ g.left = h.left
        /\ g.errors = h.errors /\ g.body = h.body
    BY <1>1, GoesOn
  <2> HIDE DEF g
  <2>3. Placed(g)
    BY <1>1, <2>2 DEF Placed
  <2>4. MineOf(r, Head(h.todo), h.year) = {}
    BY <1>4 DEF MineOf, YearModulesOf
  <2>5. Recorded(r, g)
    BY <1>1, <2>2, <2>4 DEF Recorded
  <2> QED
    BY <1>2, <2>1, <2>2, <2>3, <2>5, OnlyHandler
<1> QED
  BY <1>3, <1>4

(* Its row is saved, with the names of its submodules left.                  *)
LEMMA SaveYearModuleStep ==
  ASSUME YearInv, NEW r \in Requests, SaveYearModule(r)
  PROVE  YearInv'
<1> DEFINE h == handler[r]
           code == Head(h.todo)
           new == [module |-> code, year |-> h.year, by |-> r, names |-> {}]
<1>1. /\ ~Free(r) /\ h \in Handler /\ h.at = "row"
      /\ Placed(h) /\ Recorded(r, h)
  BY DoingFacts DEF SaveYearModule
<1>2. /\ UNCHANGED <<systemYears, modules, careers, open, notifications, trouble>>
      /\ yearModules' = yearModules \cup {new}
      /\ handler' = [handler EXCEPT ![r] =
                       [h EXCEPT !.at = "sub",
                                 !.left = Names(code, h.task = "change")]]
  BY DEF SaveYearModule
<1>3. code \in Codes /\ h.year \in Years
  <2>1. h.todo \in Seq(Codes) /\ h.todo # <<>> /\ h.year \in Years
    BY <1>1 DEF Placed, Handler
  <2> QED
    BY <2>1, HeadTailProperties
<1>4. /\ Names(code, h.task = "change") \in Seq(SubNames)
      /\ Names(code, h.task = "change") # <<>>
      /\ Range(Names(code, TRUE)) \subseteq Range(Names(code, h.task = "change"))
  BY NamesTyped
<1>5. MineOf(r, code, h.year) = {}
  BY <1>1 DEF Recorded
<1>6. Grows(r)
  BY <1>2 DEF Grows
<1>7. TablesTypeOK'
  <2>1. new \in YearModule
    BY <1>3 DEF YearModule
  <2> QED
    BY <1>2, <2>1 DEF YearInv, SystemYearTypeOK, TablesTypeOK
<1>8. YearsInv' /\ CompletedBegan'
  BY <1>2 DEF YearInv, YearsInv, CompletedBegan
<1>9. OnceInv'
  <2>1. \A y \in yearModules :
          ~(y.module = code /\ y.year = h.year /\ y.by = r)
    BY <1>5 DEF MineOf
  <2>2. new.module = code /\ new.year = h.year /\ new.by = r
    OBVIOUS
  <2> HIDE DEF new, code
  <2> QED
    BY <1>2, <2>1, <2>2 DEF YearInv, OnceInv
<1>10. PICK g :
          g = [h EXCEPT !.at = "sub", !.left = Names(code, h.task = "change")]
  OBVIOUS
<1>11. /\ g \in Handler /\ g.at = "sub" /\ g.task = h.task /\ g.year = h.year
       /\ g.root = h.root /\ g.todo = h.todo /\ g.body = h.body
       /\ g.left = Names(code, h.task = "change") /\ g.left \in Seq(SubNames)
  <2>1. Names(code, h.task = "change") \in Seq(SubNames \cup Validations)
    BY <1>4, NamesMayBeLeft
  <2> QED
    BY <1>1, <1>4, <1>10, <2>1 DEF Handler
<1>12. PICK c : c = code
  OBVIOUS
<1>13. PICK y : y = new
  OBVIOUS
<1>14. y \in yearModules' /\ y.module = c /\ y.year = g.year /\ y.by = r
  BY <1>2, <1>11, <1>12, <1>13
<1> HIDE DEF new
<1>15. y \in MineOf(r, c, g.year)'
  BY <1>14 DEF MineOf
<1>16. Placed(g)
  BY <1>1, <1>4, <1>11 DEF Placed
<1>17. Range(Names(c, TRUE)) \subseteq y.names \cup Range(g.left)
  BY <1>4, <1>11, <1>12
<1>18. Recorded(r, g)'
  BY <1>1, <1>2, <1>11, <1>12, <1>15, <1>17 DEF Recorded
<1>19. handler' = [handler EXCEPT ![r] = g]
  BY <1>2, <1>10
<1> QED
  BY <1>6, <1>7, <1>8, <1>9, <1>11, <1>16, <1>18, <1>19, Concludes

(* What follows the submodules of a module, of a handler that has made them. *)
LEMMA AfterPlaced ==
  ASSUME NEW h \in Handler, h.todo # <<>>, h.task # "work",
         h.task = "career" => h.todo = <<h.body.module>>
  PROVE  LET g == After(h) IN
         /\ g \in Handler \cup {Idle}
         /\ g # Idle =>
              /\ g.at \in {"check", "folder", "set", "templates"}
              /\ g.task = h.task /\ g.year = h.year /\ g.root = h.root
              /\ g.errors = h.errors /\ g.body = h.body /\ Placed(g)
              /\ g.at = "check" => g.todo = Tail(h.todo)
              /\ g.at = "set" => Tail(h.todo) = <<>>
<1> DEFINE rest == Tail(h.todo)
<1>1. h.todo \in Seq(Codes) /\ h.todo # <<>>
  BY DEF Handler
<1>2. rest \in Seq(Codes)
  BY <1>1, HeadTailProperties
<1>3. h.task = "career" => rest = <<>>
  <2>1. \A x : Tail(<<x>>) = <<>>
    OBVIOUS
  <2> QED
    BY <2>1
<1> HIDE DEF rest
<1>4. CASE rest # <<>> /\ h.task = "change"
  <2>1. After(h) = [h EXCEPT !.todo = rest, !.at = "check"]
    BY <1>4 DEF After, rest
  <2> DEFINE g == [h EXCEPT !.todo = rest, !.at = "check"]
  <2>2. g \in Handler /\ g.at = "check" /\ g.task = h.task /\ g.year = h.year
        /\ g.root = h.root /\ g.errors = h.errors /\ g.body = h.body
        /\ g.todo = rest /\ g.left = h.left
    BY <1>2 DEF Handler
  <2> HIDE DEF g
  <2>3. Placed(g)
    BY <1>4, <2>2 DEF Placed
  <2> QED
    BY <2>1, <2>2, <2>3 DEF g, rest
<1>5. CASE rest # <<>> /\ h.task = "folders"
  <2>1. After(h) = [h EXCEPT !.todo = rest, !.at = "folder"]
    BY <1>5 DEF After, rest
  <2> DEFINE g == [h EXCEPT !.todo = rest, !.at = "folder"]
  <2>2. g \in Handler /\ g.at = "folder" /\ g.task = h.task /\ g.year = h.year
        /\ g.root = h.root /\ g.errors = h.errors /\ g.body = h.body
        /\ g.todo = rest /\ g.left = h.left
    BY <1>2 DEF Handler
  <2> HIDE DEF g
  <2>3. Placed(g)
    BY <1>5, <2>2 DEF Placed
  <2> QED
    BY <2>1, <2>2, <2>3 DEF g
<1>6. CASE rest = <<>> /\ h.task = "change"
  <2>1. After(h) = [h EXCEPT !.todo = rest, !.at = "set"]
    BY <1>6 DEF After, rest
  <2> DEFINE g == [h EXCEPT !.todo = rest, !.at = "set"]
  <2>2. g \in Handler /\ g.at = "set" /\ g.task = h.task /\ g.year = h.year
        /\ g.root = h.root /\ g.errors = h.errors /\ g.body = h.body
        /\ g.todo = rest /\ g.left = h.left
    BY <1>2 DEF Handler
  <2> HIDE DEF g
  <2>3. Placed(g)
    BY <1>6, <2>2 DEF Placed
  <2> QED
    BY <1>6, <2>1, <2>2, <2>3 DEF g, rest
<1>7. CASE h.task = "career"
  <2>1. After(h) = [h EXCEPT !.at = "templates"]
    BY <1>3, <1>7 DEF After, rest
  <2> DEFINE g == [h EXCEPT !.at = "templates"]
  <2>2. g \in Handler /\ g.at = "templates" /\ g.task = h.task
        /\ g.year = h.year /\ g.root = h.root /\ g.errors = h.errors
        /\ g.body = h.body /\ g.todo = h.todo /\ g.left = h.left
    BY GoesOn
  <2> HIDE DEF g
  <2>3. Placed(g)
    BY <1>7, <2>2 DEF Placed
  <2> QED
    BY <2>1, <2>2, <2>3 DEF g
<1>8. CASE ~(h.task \in {"change", "career"})
           /\ ~(rest # <<>> /\ h.task = "folders")
  <2>1. After(h) = Idle
    BY <1>8 DEF After, rest
  <2> QED
    BY <2>1
<1> QED
  BY <1>4, <1>5, <1>6, <1>7, <1>8

(* What saving the next submodule of h makes of the row that r made.         *)
SavesSubmodule(r, h, code, mine, new) ==
  /\ mine \in MineOf(r, code, h.year) /\ new \in YearModule
  /\ Range(Names(code, TRUE)) \subseteq mine.names \cup Range(h.left)
  /\ new.module = code /\ new.year = h.year /\ new.by = r
  /\ new.names = mine.names \cup {Head(h.left)}
  /\ yearModules' = (yearModules \ {mine}) \cup {new}

(* The next submodule is saved in the one row that r made.                   *)
LEMMA SubmoduleSaved ==
  ASSUME YearInv, NEW r \in Requests, SaveSubmodule(r)
  PROVE  \E mine, new :
           SavesSubmodule(r, handler[r], Head(handler[r].todo), mine, new)
<1>1. PICK h : h = handler[r]
  OBVIOUS
<1>2. PICK code : code = Head(h.todo)
  OBVIOUS
<1>3. h \in Handler /\ Placed(h) /\ Recorded(r, h) /\ h.at = "sub"
  BY <1>1, DoingFacts DEF SaveSubmodule
<1>4. h.left \in Seq(SubNames) /\ h.left # <<>>
  BY <1>3 DEF Placed
<1>5. Head(h.left) \in SubNames
  BY <1>4, HeadTailProperties
<1>6. PICK mine \in MineOf(r, code, h.year) :
        Range(Names(code, TRUE)) \subseteq mine.names \cup Range(h.left)
  BY <1>3, <1>2 DEF Recorded
<1>7. mine \in yearModules /\ mine.module = code /\ mine.year = h.year
      /\ mine.by = r
  BY <1>6 DEF MineOf
<1>8. mine = CHOOSE y \in YearModulesOf(code, h.year) : y.by = r
  <2> DEFINE other == CHOOSE y \in YearModulesOf(code, h.year) : y.by = r
  <2>1. mine \in YearModulesOf(code, h.year)
    BY <1>7 DEF YearModulesOf
  <2>2. other \in YearModulesOf(code, h.year) /\ other.by = r
    BY <1>7, <2>1
  <2>3. other \in yearModules /\ other.module = code /\ other.year = h.year
    BY <2>2 DEF YearModulesOf
  <2> HIDE DEF other
  <2>4. other = mine
    BY <1>7, <2>2, <2>3 DEF YearInv, OnceInv
  <2> QED
    BY <2>4 DEF other
<1>9. PICK new : new = [mine EXCEPT !.names = @ \cup {Head(h.left)}]
  OBVIOUS
<1>10. /\ new \in YearModule /\ new.module = code /\ new.year = h.year
      /\ new.by = r /\ new.names = mine.names \cup {Head(h.left)}
  <2>1. mine \in YearModule
    BY <1>7 DEF YearInv, SystemYearTypeOK
  <2> QED
    BY <1>5, <1>7, <1>9, <2>1 DEF YearModule
<1>11. yearModules' = (yearModules \ {mine}) \cup {new}
  BY <1>8, <1>9, <1>1, <1>2 DEF SaveSubmodule
<1> QED
  BY <1>6, <1>10, <1>11, <1>1, <1>2 DEF SavesSubmodule

(* The next submodule of r's year module.                                    *)
LEMMA SaveSubmoduleStep ==
  ASSUME YearInv, NEW r \in Requests, SaveSubmodule(r)
  PROVE  YearInv'
<1>1. PICK h : h = handler[r]
  OBVIOUS
<1>2. /\ ~Free(r) /\ h \in Handler /\ h.at = "sub"
      /\ Placed(h) /\ Recorded(r, h)
  BY <1>1, DoingFacts DEF SaveSubmodule
<1>3. PICK code : code = Head(h.todo)
  OBVIOUS
<1>4. PICK l : l = [h EXCEPT !.left = Tail(@)]
  OBVIOUS
<1>5. /\ h.left \in Seq(SubNames) /\ h.left # <<>>
      /\ h.todo \in Seq(Codes) /\ h.todo # <<>>
  BY <1>2 DEF Placed, Handler
<1>6. /\ Head(h.left) \in SubNames /\ Tail(h.left) \in Seq(SubNames)
      /\ Range(h.left) = {Head(h.left)} \cup Range(Tail(h.left))
      /\ code \in Codes
  BY <1>3, <1>5, RangeSplits, HeadTailProperties
<1>7. PICK mine, new : SavesSubmodule(r, h, code, mine, new)
  BY <1>1, <1>3, SubmoduleSaved
<1>8. mine \in yearModules /\ mine.module = code /\ mine.year = h.year
      /\ mine.by = r
  BY <1>7 DEF SavesSubmodule, MineOf
<1>9. /\ new \in YearModule /\ new.module = code /\ new.year = h.year
       /\ new.by = r /\ new.names = mine.names \cup {Head(h.left)}
  BY <1>7 DEF SavesSubmodule
<1>10. PICK g : g = IF l.left = <<>> THEN After(l) ELSE l
  OBVIOUS
<1>11. /\ yearModules' = (yearModules \ {mine}) \cup {new}
       /\ handler' = [handler EXCEPT ![r] = g]
       /\ UNCHANGED <<systemYears, modules, careers, open, notifications, trouble>>
  BY <1>1, <1>4, <1>7, <1>10 DEF SaveSubmodule, Becomes, SavesSubmodule
<1>12. /\ l \in Handler /\ l.left = Tail(h.left) /\ l.at = "sub"
       /\ l.task = h.task /\ l.year = h.year /\ l.root = h.root
       /\ l.todo = h.todo /\ l.errors = h.errors /\ l.body = h.body
  <2>1. Tail(h.left) \in Seq(SubNames \cup Validations)
    BY <1>6, NamesMayBeLeft
  <2> QED
    BY <1>2, <1>4, <2>1 DEF Handler
<1>13. Grows(r)
  BY <1>8, <1>9, <1>11 DEF Grows
<1>14. TablesTypeOK'
  BY <1>9, <1>11 DEF YearInv, SystemYearTypeOK, TablesTypeOK
<1>15. YearsInv' /\ CompletedBegan'
  BY <1>11 DEF YearInv, YearsInv, CompletedBegan
<1>16. OnceInv'
  <2>1. \A y \in yearModules :
          y.module = code /\ y.year = h.year /\ y.by = r => y = mine
    BY <1>8 DEF YearInv, OnceInv
  <2> QED
    BY <1>9, <1>11, <2>1 DEF YearInv, OnceInv
<1>17. new \in MineOf(r, code, h.year)'
  BY <1>9, <1>11 DEF MineOf
<1>18. Range(Names(code, TRUE)) \subseteq new.names \cup Range(Tail(h.left))
  BY <1>6, <1>7, <1>9 DEF SavesSubmodule
<1>19. CASE l.left # <<>>
  <2>1. g = l
    BY <1>10, <1>19
  <2>2. Placed(g)
    BY <1>2, <1>6, <1>12, <1>19, <2>1 DEF Placed
  <2>3. \E y \in MineOf(r, code, g.year)' :
          Range(Names(code, TRUE)) \subseteq y.names \cup Range(g.left)
    BY <1>12, <1>17, <1>18, <2>1
  <2>4. Recorded(r, g)'
    BY <1>2, <1>3, <1>11, <1>12, <2>1, <2>3 DEF Recorded
  <2> QED
    BY <1>11, <1>12, <1>13, <1>14, <1>15, <1>16, <2>1, <2>2, <2>4, Concludes
<1>20. CASE l.left = <<>>
  <2>1. l.todo # <<>> /\ l.task # "work"
        /\ (l.task = "career" => l.todo = <<l.body.module>>)
    BY <1>2, <1>12 DEF Placed
  <2>2. g = After(l)
    BY <1>10, <1>20
  <2>3. /\ g \in Handler \cup {Idle}
        /\ g # Idle =>
             /\ g.at \in {"check", "folder", "set", "templates"}
             /\ g.task = h.task /\ g.year = h.year /\ g.root = h.root
             /\ g.errors = h.errors /\ g.body = h.body /\ Placed(g)
    BY <1>12, <2>1, <2>2, AfterPlaced
  <2>4. Range(Names(code, TRUE)) \subseteq new.names
    BY <1>12, <1>18, <1>20, RangeOfFew
  <2>5. Made(r, code, h.year)'
    BY <1>17, <2>4 DEF Made
  <2>6. ASSUME g # Idle
        PROVE  Recorded(r, g)'
    <3>1. g.at = "templates" => code = h.body.module
      <4>1. g.at = "templates" => h.task = "career"
        BY <2>3, <2>6 DEF Placed
      <4>2. h.task = "career" => h.todo = <<h.body.module>>
        BY <1>2 DEF Placed
      <4>3. \A x : Head(<<x>>) = x
        OBVIOUS
      <4> QED
        BY <1>3, <4>1, <4>2, <4>3
    <3>2. g.at = "templates" => Made(r, g.body.module, g.year)'
      BY <2>3, <2>5, <2>6, <3>1
    <3> QED
      BY <1>2, <1>11, <2>3, <2>6, <3>2 DEF Recorded
  <2> QED
    BY <1>11, <1>13, <1>14, <1>15, <1>16, <2>3, <2>6, Concludes
<1> QED
  BY <1>19, <1>20

(* Drive refuses a folder.                                                  *)
LEMMA DriveRefusesStep ==
  ASSUME YearInv, NEW r \in Requests, DriveRefuses(r)
  PROVE  YearInv'
  BY FailsStep DEF DriveRefuses, tables

-------------------------------------------------------------------------------
(***************************************************************************)
(* The beginnings.                                                         *)
(***************************************************************************)
(* What a handler begins with.                                               *)
LEMMA BegunTyped ==
  ASSUME NEW task \in Tasks, NEW year \in Years, NEW body \in Bodies,
         NEW todo \in Seq(Codes),
         NEW place \in {"validate", "check", "folder", "save", "find", "insert"}
  PROVE  LET g == Begun(task, place, year, todo, body) IN
         /\ g \in Handler /\ g.task = task /\ g.at = place /\ g.year = year
         /\ g.root = 0 /\ g.todo = todo /\ g.left = <<>> /\ g.errors = {}
         /\ g.body = body
<1> DEFINE none == <<>>
<1>1. 0 \in 0..MaxChanges
  BY SystemYearAssumption
<1>2. none \in Seq(SubNames \cup Validations)
  BY EmptySeq
<1> HIDE DEF none
<1>3. Begun(task, place, year, todo, body) =
        [task |-> task, at |-> place, year |-> year, root |-> 0, todo |-> todo,
         left |-> none, errors |-> {}, body |-> body]
  BY DEF Begun, none
<1>4. /\ [task |-> task, at |-> place, year |-> year, root |-> 0,
          todo |-> todo, left |-> none, errors |-> {}, body |-> body] \in Handler
  BY <1>1, <1>2 DEF Handler
<1> QED
  BY <1>3, <1>4 DEF none

(* A body there is.                                                          *)
LEMMA SomeBody == AnyBody \in Bodies
  BY SystemYearAssumption DEF AnyBody

(* A request that begins with only its handler.                              *)
LEMMA BeginsStep ==
  ASSUME YearInv, NEW r \in Requests, UNCHANGED <<tables, trouble>>,
         NEW g \in Handler, Becomes(r, g), Placed(g), g.task # "change",
         g.at \in {"check", "folder", "save", "find", "insert"},
         g.task = "career" => g.year \in systemYears
  PROVE  YearInv'
<1>1. trouble' \in Failures \cup {"none"} /\ UNCHANGED tables
  BY TroubleTyped
<1>2. Recorded(r, g)
  BY DEF Recorded
<1>3. handler' = [handler EXCEPT ![r] = g]
  BY DEF Becomes
<1> QED
  BY <1>1, <1>2, <1>3, OnlyHandler

(* POST /year-module.                                                       *)
LEMMA BeginYearModuleStep ==
  ASSUME YearInv, NEW r \in Requests, NEW asked \in Asked,
         BeginYearModule(r, asked)
  PROVE  YearInv'
<1>1. asked[1] \in Codes /\ asked[2] \in Years
  BY SystemYearAssumption
<1> DEFINE todo == <<asked[1]>>
<1>2. todo \in Seq(Codes) /\ todo # <<>>
  BY <1>1
<1> HIDE DEF todo
<1>3. PICK g : g = Begun("yearModule", "check", asked[2], todo, AnyBody)
  OBVIOUS
<1>4. /\ g \in Handler /\ g.task = "yearModule" /\ g.at = "check"
      /\ g.todo = todo
  BY <1>1, <1>2, <1>3, BegunTyped, SomeBody DEF Tasks
<1>5. Placed(g)
  BY <1>2, <1>4 DEF Placed
<1>6. Becomes(r, g) /\ UNCHANGED <<tables, trouble>>
  BY <1>3 DEF BeginYearModule, tables, todo
<1> QED
  BY <1>4, <1>5, <1>6, BeginsStep

(* POST /careers.                                                           *)
LEMMA BeginCareerStep ==
  ASSUME YearInv, NEW r \in Requests, NEW body \in Bodies, BeginCareer(r, body)
  PROVE  YearInv'
<1>1. body.module \in Codes
  BY SystemYearAssumption DEF Career
<1> DEFINE todo == <<body.module>>
<1>2. todo \in Seq(Codes) /\ todo # <<>>
  BY <1>1
<1> HIDE DEF todo
<1>3. Current \in systemYears /\ Current \in Years
  BY CurrentIsLast DEF YearInv, SystemYearTypeOK
<1>4. PICK g : g = Begun("career", "save", Current, todo, body)
  OBVIOUS
<1>5. /\ g \in Handler /\ g.task = "career" /\ g.at = "save"
      /\ g.todo = todo /\ g.year = Current /\ g.body = body
  BY <1>2, <1>3, <1>4, BegunTyped DEF Tasks
<1>6. Placed(g)
  BY <1>2, <1>5 DEF Placed, todo
<1>7. Becomes(r, g) /\ UNCHANGED <<tables, trouble>>
  BY <1>4 DEF BeginCareer, tables, todo
<1> QED
  BY <1>3, <1>5, <1>6, <1>7, BeginsStep

(* POST /modules.                                                           *)
LEMMA BeginModuleStep ==
  ASSUME YearInv, NEW r \in Requests, NEW code \in Documented,
         BeginModule(r, code)
  PROVE  YearInv'
<1>1. code \in Codes
  BY SystemYearAssumption
<1> DEFINE todo == <<code>>
<1>2. todo \in Seq(Codes) /\ todo # <<>>
  BY <1>1
<1> HIDE DEF todo
<1>3. Current \in Years
  BY CurrentIsLast DEF YearInv, SystemYearTypeOK
<1>4. PICK g : g = Begun("module", "find", Current, todo, AnyBody)
  OBVIOUS
<1>5. g \in Handler /\ g.task = "module" /\ g.at = "find" /\ g.todo = todo
  BY <1>2, <1>3, <1>4, BegunTyped, SomeBody DEF Tasks
<1>6. Placed(g)
  BY <1>2, <1>5 DEF Placed
<1>7. Becomes(r, g) /\ UNCHANGED <<tables, trouble>>
  BY <1>4 DEF BeginModule, tables, todo
<1> QED
  BY <1>5, <1>6, <1>7, BeginsStep

(* setFolders.                                                              *)
LEMMA BeginFoldersStep ==
  ASSUME YearInv, NEW r \in Requests, BeginFolders(r)
  PROVE  YearInv'
<1> DEFINE listed == {c \in Documented : modules[c] # "absent"}
<1>1. listed # {} /\ \E order \in SetToSeqs(listed) :
        Becomes(r, Begun("folders", "folder", Current, order, AnyBody))
  BY DEF BeginFolders
<1>2. PICK order \in SetToSeqs(listed) :
        Becomes(r, Begun("folders", "folder", Current, order, AnyBody))
  BY <1>1
<1>3. listed \subseteq Codes /\ IsFiniteSet(listed)
  <2>1. listed \subseteq Codes
    BY SystemYearAssumption
  <2> QED
    BY <2>1, FS_Subset, SystemYearAssumption
<1> HIDE DEF listed
<1>4. order \in Seq(listed) /\ order # <<>>
  BY <1>1, <1>3, OrderHasAll
<1>5. order \in Seq(Codes)
  BY <1>3, <1>4, SeqMonotonic
<1>6. Current \in Years
  BY CurrentIsLast DEF YearInv, SystemYearTypeOK
<1>7. PICK g : g = Begun("folders", "folder", Current, order, AnyBody)
  OBVIOUS
<1>8. g \in Handler /\ g.task = "folders" /\ g.at = "folder" /\ g.todo = order
  BY <1>5, <1>6, <1>7, BegunTyped, SomeBody DEF Tasks
<1>9. Placed(g)
  BY <1>4, <1>8 DEF Placed
<1>10. Becomes(r, g) /\ UNCHANGED <<tables, trouble>>
  BY <1>2, <1>7 DEF BeginFolders, tables
<1> QED
  BY <1>8, <1>9, <1>10, BeginsStep

(* Work is a list of work, and a change validates the year before.           *)
LEMMA WorkListed ==
  /\ Work \in Seq(Range(Work))
  /\ <<"year">> \o Work \in Seq(Validations) /\ <<"year">> \o Work # <<>>
  /\ Range(<<"year">> \o Work) = Validations
<1>1. Work \in Seq({Work[1], Work[2], Work[3], Work[4]}) /\ DOMAIN Work = 1..4
  BY DEF Work
<1>2. Range(Work) = {Work[1], Work[2], Work[3], Work[4]}
  BY <1>1 DEF Range
<1>3. Work \in Seq(Range(Work))
  BY <1>1, <1>2
<1>4. Work \in Seq(Validations)
  BY <1>3, SeqMonotonic DEF Validations
<1> DEFINE first == <<"year">>
<1>5. first \in Seq(Validations) /\ Len(first) = 1 /\ Range(first) = {"year"}
  BY RangeOfFew DEF Validations
<1> HIDE DEF first
<1>6. /\ first \o Work \in Seq(Validations)
      /\ Len(first \o Work) = Len(first) + Len(Work)
      /\ Range(first \o Work) = Range(first) \cup Range(Work)
  BY <1>4, <1>5, ConcatProperties, RangeOfBoth
<1>7. Len(Work) \in Nat
  BY <1>4, LenProperties
<1>8. first \o Work # <<>>
  BY <1>5, <1>6, <1>7, EmptySeq
<1> QED
  BY <1>3, <1>5, <1>6, <1>8 DEF first, Validations

(* Work that begins where its place is in the current year.                 *)
LEMMA BeginWorkStep ==
  ASSUME YearInv, NEW r \in Requests, NEW what \in Opened, BeginWork(r, what)
  PROVE  YearInv'
<1> DEFINE none == <<>>
           some == <<what>>
<1>1. none \in Seq(Codes)
  BY EmptySeq
<1>2. some \in Seq(Range(Work)) /\ some # <<>>
  BY SystemYearAssumption
<1> HIDE DEF none, some
<1>3. Current \in Years
  BY CurrentIsLast DEF YearInv, SystemYearTypeOK
<1>4. PICK b : b = Begun("work", "insert", Current, none, AnyBody)
  OBVIOUS
<1>5. b \in Handler /\ b.task = "work" /\ b.at = "insert"
  BY <1>1, <1>3, <1>4, BegunTyped, SomeBody DEF Tasks
<1>6. PICK g : g = [b EXCEPT !.left = some]
  OBVIOUS
<1>7. some \in Seq(SubNames \cup Validations)
  BY <1>2, NamesMayBeLeft
<1>8. g \in Handler /\ g.task = "work" /\ g.at = "insert" /\ g.left = some
  BY <1>5, <1>6, <1>7 DEF Handler
<1>9. Placed(g)
  BY <1>2, <1>8 DEF Placed
<1>10. Becomes(r, g) /\ UNCHANGED <<tables, trouble>>
  BY <1>4, <1>6 DEF BeginWork, tables, none, some
<1> QED
  BY <1>8, <1>9, <1>10, BeginsStep

(* A change: its notification comes first.                                   *)
LEMMA BeginChangeStep ==
  ASSUME YearInv, NEW r \in Requests, NEW year \in Next, BeginChange(r, year)
  PROVE  YearInv'
<1> DEFINE none == <<>>
           all == <<"year">> \o Work
           note == [year |-> year, status |-> "IN_PROGRESS"]
<1>1. none \in Seq(Codes) /\ all \in Seq(Validations) /\ all # <<>>
      /\ all \in Seq(SubNames \cup Validations) /\ year \in Years
  BY EmptySeq, WorkListed, NamesMayBeLeft, SystemYearAssumption
<1>2. note \in Notification
  BY <1>1 DEF Notification
<1>3. notifications \in Seq(Notification)
  BY DEF YearInv, SystemYearTypeOK
<1>4. PICK n : n = Len(notifications) + 1
  OBVIOUS
<1>5. /\ notifications' = Append(notifications, note)
      /\ Len(notifications) < MaxChanges
      /\ handler' = [handler EXCEPT ![r] =
                       [Begun("change", "validate", year, none, AnyBody)
                          EXCEPT !.left = all, !.root = n]]
      /\ UNCHANGED <<systemYears, modules, careers, yearModules, open, trouble>>
  BY <1>4 DEF BeginChange, Becomes
<1> HIDE DEF none, all
<1>6. /\ notifications' \in Seq(Notification) /\ Len(notifications') = n
      /\ DOMAIN notifications' = 1..n /\ DOMAIN notifications = 1..(n - 1)
      /\ \A i \in 1..(n - 1) : notifications'[i] = notifications[i]
      /\ notifications'[n] = note /\ n \in Nat \ {0}
  BY <1>2, <1>3, <1>4, <1>5, AppendProperties, LenProperties
<1>7. n \in 0..MaxChanges
  BY <1>4, <1>5, <1>6, SystemYearAssumption
<1>8. PICK b : b = Begun("change", "validate", year, none, AnyBody)
  OBVIOUS
<1>9. b \in Handler /\ b.task = "change" /\ b.at = "validate" /\ b.year = year
  BY <1>1, <1>8, BegunTyped, SomeBody DEF Tasks
<1>10. PICK g : g = [b EXCEPT !.left = all, !.root = n]
  OBVIOUS
<1>11. g \in Handler /\ g.task = "change" /\ g.at = "validate"
       /\ g.year = year /\ g.root = n /\ g.left = all
  BY <1>1, <1>7, <1>9, <1>10 DEF Handler
<1>12. Placed(g)
  BY <1>1, <1>11 DEF Placed
<1>13. Recorded(r, g)'
  BY <1>6, <1>11 DEF Recorded
<1>14. Grows(r)
  BY <1>5, <1>6 DEF Grows
<1>15. TablesTypeOK'
  BY <1>5, <1>6 DEF YearInv, SystemYearTypeOK, TablesTypeOK
<1>16. YearsInv' /\ OnceInv'
  BY <1>5 DEF YearInv, YearsInv, OnceInv
<1>17. CompletedBegan'
  <2>1. \A i \in 1..n : i \in 1..(n - 1) \/ i = n
    BY <1>6
  <2>2. note.status # "COMPLETED"
    OBVIOUS
  <2> QED
    BY <1>5, <1>6, <2>1, <2>2 DEF YearInv, CompletedBegan
<1>18. handler' = [handler EXCEPT ![r] = g]
  BY <1>5, <1>8, <1>10
<1> QED
  BY <1>11, <1>12, <1>13, <1>14, <1>15, <1>16, <1>17, <1>18, Concludes

-------------------------------------------------------------------------------
(***************************************************************************)
(* The change of year.                                                     *)
(***************************************************************************)
LEMMA ValidateStep ==
  ASSUME YearInv, NEW r \in Requests, Validate(r)
  PROVE  YearInv'
<1>1. PICK h : h = handler[r]
  OBVIOUS
<1>2. /\ ~Free(r) /\ h \in Handler /\ h.at = "validate"
      /\ Placed(h) /\ Recorded(r, h)
  BY <1>1, DoingFacts DEF Validate
<1>3. /\ h.left \in Seq(Validations) /\ h.left # <<>> /\ h.task = "change"
  BY <1>2 DEF Placed
<1>4. PICK errors : errors = h.errors \cup
        (IF Finds(Head(h.left), h.year) THEN {Head(h.left)} ELSE {})
  OBVIOUS
<1>5. PICK place : place = IF Len(h.left) > 1 THEN "validate"
                           ELSE IF errors = {} THEN "list" ELSE "end"
  OBVIOUS
<1>6. PICK rest : rest = Tail(h.left)
  OBVIOUS
<1>7. PICK g : g = [h EXCEPT !.left = rest, !.errors = errors, !.at = place]
  OBVIOUS
<1>8. handler' = [handler EXCEPT ![r] = g]
  BY <1>1, <1>4, <1>5, <1>6, <1>7 DEF Validate
<1>9. /\ Head(h.left) \in Validations /\ rest \in Seq(Validations)
      /\ Len(rest) = Len(h.left) - 1 /\ Len(h.left) \in Nat \ {0}
  BY <1>3, <1>6, HeadTailProperties, EmptySeq
<1>10. errors \in SUBSET (Validations \cup {"error"})
  BY <1>2, <1>4, <1>9 DEF Handler
<1>11. /\ g \in Handler /\ g.at = place /\ g.left = rest /\ g.errors = errors
       /\ g.task = h.task /\ g.year = h.year /\ g.root = h.root
       /\ place \in {"validate", "list", "end"}
  <2>1. rest \in Seq(SubNames \cup Validations)
    BY <1>9, NamesMayBeLeft
  <2>2. place \in {"validate", "list", "end"}
    BY <1>5
  <2> QED
    BY <1>2, <1>7, <1>10, <2>1, <2>2 DEF Handler
<1>12. place = "validate" => rest # <<>>
  <2>1. place = "validate" => Len(rest) > 0
    BY <1>5, <1>9
  <2> QED
    BY <2>1, EmptySeq
<1>13. Placed(g)
  BY <1>3, <1>9, <1>11, <1>12 DEF Placed
<1>14. place = "end" => errors # {}
  BY <1>5
<1>15. Recorded(r, g)
  BY <1>2, <1>3, <1>11, <1>14 DEF Recorded
<1>16. UNCHANGED tables /\ trouble' \in Failures \cup {"none"}
  BY TroubleTyped DEF Validate, tables
<1> QED
  BY <1>8, <1>11, <1>13, <1>15, <1>16, OnlyHandler

(* The modules of the active careers are a finite set of codes.              *)
LEMMA OfCareersTyped ==
  ASSUME SystemYearTypeOK
  PROVE  OfCareers \subseteq Codes /\ IsFiniteSet(OfCareers)
<1>1. OfCareers \subseteq Codes
  BY DEF SystemYearTypeOK, OfCareers, Active, Career
<1> QED
  BY <1>1, FS_Subset, SystemYearAssumption

(* The modules that a change makes a year module for, of which there is one  *)
(* at least.                                                                 *)
LEMMA ListTyped ==
  ASSUME SystemYearTypeOK, NEW order \in SetToSeqs(OfCareers)
  PROVE  /\ order \o Fixed \in Seq(Codes) /\ order \o Fixed # <<>>
         /\ Range(order \o Fixed) = OfCareers \cup Range(Fixed)
<1>1. order \in Seq(OfCareers) /\ Range(order) = OfCareers
  BY OfCareersTyped, OrderHasAll
<1>2. order \in Seq(Codes)
  BY <1>1, OfCareersTyped, SeqMonotonic
<1>3. Fixed \in Seq(Codes) /\ Fixed # <<>>
  <2>1. PICK S : Fixed \in Seq(S)
    BY SystemYearAssumption
  <2>2. Fixed \in [1..Len(Fixed) -> S] /\ Len(Fixed) \in Nat
        /\ DOMAIN Fixed = 1..Len(Fixed)
    BY <2>1, LenProperties
  <2>3. \A i \in 1..Len(Fixed) : Fixed[i] \in Codes
    BY <2>2, SystemYearAssumption DEF Range
  <2>4. Fixed \in [1..Len(Fixed) -> Codes]
    BY <2>2, <2>3
  <2> QED
    BY <2>2, <2>4, SystemYearAssumption
<1>4. /\ order \o Fixed \in Seq(Codes)
      /\ Len(order \o Fixed) = Len(order) + Len(Fixed)
      /\ Range(order \o Fixed) = Range(order) \cup Range(Fixed)
  BY <1>2, <1>3, ConcatProperties, RangeOfBoth
<1>5. Len(order) \in Nat /\ Len(Fixed) \in Nat \ {0}
  BY <1>2, <1>3, LenProperties, EmptySeq
<1> QED
  BY <1>1, <1>4, <1>5, EmptySeq

(* The modules are listed, and the year follows the last.                   *)
LEMMA ListModulesStep ==
  ASSUME YearInv, NEW r \in Requests, ListModules(r)
  PROVE  YearInv'
<1>1. PICK h : h = handler[r]
  OBVIOUS
<1>2. /\ ~Free(r) /\ h \in Handler /\ h.at = "list"
      /\ Placed(h) /\ Recorded(r, h)
  BY <1>1, DoingFacts DEF ListModules
<1>3. UNCHANGED tables /\ trouble' \in Failures \cup {"none"}
  BY TroubleTyped DEF ListModules, tables
<1>4. CASE Current # h.year - 1
  BY <1>1, <1>2, <1>3, <1>4, FailsStep DEF ListModules
<1>5. CASE Current = h.year - 1
  <2>1. PICK order \in SetToSeqs(OfCareers) :
          handler' = [handler EXCEPT ![r].todo = order \o Fixed,
                                     ![r].at = "check"]
    BY <1>1, <1>5 DEF ListModules
  <2>2. PICK todo : todo = order \o Fixed
    OBVIOUS
  <2>3. todo \in Seq(Codes) /\ todo # <<>>
    BY <2>2, ListTyped DEF YearInv
  <2>4. PICK g : g = [h EXCEPT !.todo = todo, !.at = "check"]
    OBVIOUS
  <2>5. handler' = [handler EXCEPT ![r] = g]
    BY <1>1, <2>1, <2>2, <2>4
  <2>6. /\ g \in Handler /\ g.at = "check" /\ g.todo = todo /\ g.task = h.task
        /\ g.year = h.year /\ g.root = h.root
    BY <1>2, <2>3, <2>4 DEF Handler
  <2>7. Placed(g)
    BY <1>2, <2>3, <2>6 DEF Placed
  <2>8. h.year - 1 \in systemYears
    BY <1>5, CurrentIsLast DEF YearInv
  <2>9. Recorded(r, g)
    BY <1>2, <2>6, <2>7, <2>8 DEF Recorded, Placed
  <2> QED
    BY <1>3, <2>5, <2>6, <2>7, <2>9, OnlyHandler
<1> QED
  BY <1>4, <1>5

(* The year is inserted: it is the one after the last.                       *)
LEMMA SetYearStep ==
  ASSUME YearInv, NEW r \in Requests, SetYear(r)
  PROVE  YearInv'
<1>1. PICK h : h = handler[r]
  OBVIOUS
<1>2. /\ ~Free(r) /\ h \in Handler /\ h.at = "set"
      /\ Placed(h) /\ Recorded(r, h)
  BY <1>1, DoingFacts DEF SetYear
<1>3. /\ UNCHANGED <<modules, careers, yearModules, open, notifications, trouble>>
      /\ trouble' \in Failures \cup {"none"}
  BY TroubleTyped DEF SetYear
<1>4. CASE h.year \in systemYears
  <2>1. Fails(r) /\ UNCHANGED tables
    BY <1>1, <1>3, <1>4 DEF SetYear, tables
  <2> QED
    BY <1>2, <1>3, <2>1, FailsStep
<1>5. CASE h.year \notin systemYears
  <2>1. PICK g : g = [h EXCEPT !.at = "end"]
    OBVIOUS
  <2>2. /\ handler' = [handler EXCEPT ![r] = g]
        /\ systemYears' = systemYears \cup {h.year}
    BY <1>1, <1>5, <2>1 DEF SetYear, Goes
  <2>3. /\ g \in Handler /\ g.at = "end" /\ g.task = h.task /\ g.year = h.year
        /\ g.root = h.root /\ g.errors = h.errors
    BY <1>2, <2>1, GoesOn
  <2>4. h.task = "change" /\ h.year - 1 \in systemYears /\ h.year \in Years
    BY <1>2 DEF Placed, Recorded, Handler
  <2>5. /\ Current \in systemYears /\ systemYears = FirstYear..Current
        /\ Current \in Nat /\ h.year \in Nat /\ FirstYear \in Nat
    BY <2>4, CurrentIsLast, SystemYearAssumption DEF YearInv
  <2>6. h.year = Current + 1 /\ Current >= FirstYear
    BY <1>5, <2>4, <2>5
  <2>7. systemYears' = FirstYear..h.year
    BY <2>2, <2>5, <2>6
  <2>8. YearsInv'
    BY <2>2, <2>5, <2>6, <2>7 DEF YearsInv
  <2>9. Grows(r)
    BY <1>3, <2>2 DEF Grows
  <2>10. TablesTypeOK'
    BY <1>3, <2>2, <2>4 DEF YearInv, SystemYearTypeOK, TablesTypeOK
  <2>11. OnceInv' /\ CompletedBegan'
    BY <1>3, <2>2 DEF YearInv, OnceInv, CompletedBegan
  <2>12. Placed(g)
    BY <2>3, <2>4 DEF Placed
  <2>13. g.year \in systemYears'
    BY <2>2, <2>3
  <2>14. Recorded(r, g)'
    BY <1>2, <1>3, <2>3, <2>4, <2>13 DEF Recorded
  <2> QED
    BY <2>2, <2>3, <2>8, <2>9, <2>10, <2>11, <2>12, <2>14, Concludes
<1> QED
  BY <1>4, <1>5

(* A change that ends without an error has its year.                         *)
LEMMA EndChangeStep ==
  ASSUME YearInv, NEW r \in Requests, EndChange(r)
  PROVE  YearInv'
<1>1. PICK h : h = handler[r]
  OBVIOUS
<1>2. /\ ~Free(r) /\ h \in Handler /\ h.at = "end"
      /\ Placed(h) /\ Recorded(r, h)
  BY <1>1, DoingFacts DEF EndChange
<1>3. PICK status : status = IF h.errors = {} THEN "COMPLETED" ELSE "FAILURE"
  OBVIOUS
<1>4. /\ notifications' = [notifications EXCEPT ![h.root].status = status]
      /\ handler' = [handler EXCEPT ![r] = Idle]
      /\ UNCHANGED <<systemYears, modules, careers, yearModules, open, trouble>>
  BY <1>1, <1>3 DEF EndChange, Ends, Becomes
<1>5. /\ h.root \in DOMAIN notifications /\ notifications[h.root].year = h.year
      /\ h.errors = {} => h.year \in systemYears
  BY <1>2 DEF Recorded, Placed
<1>6. notifications \in Seq(Notification)
  BY DEF YearInv, SystemYearTypeOK
<1>7. PICK n : n = [notifications[h.root] EXCEPT !.status = status]
  OBVIOUS
<1>8. n \in Notification /\ n.year = h.year /\ n.status = status
  <2>1. notifications[h.root] \in Notification
    BY <1>5, <1>6, ElementOfSeq, LenProperties
  <2> QED
    BY <1>3, <1>5, <1>7, <2>1 DEF Notification
<1>9. notifications' = [notifications EXCEPT ![h.root] = n]
  BY <1>4, <1>7
<1>10. /\ notifications' \in Seq(Notification)
       /\ DOMAIN notifications' = DOMAIN notifications
       /\ \A i \in DOMAIN notifications :
            notifications'[i] = IF i = h.root THEN n ELSE notifications[i]
  BY <1>5, <1>6, <1>8, <1>9, ExceptSeq, LenProperties
<1>11. Grows(r)
  BY <1>4, <1>5, <1>8, <1>10 DEF Grows
<1>12. TablesTypeOK'
  BY <1>4, <1>10 DEF YearInv, SystemYearTypeOK, TablesTypeOK
<1>13. YearsInv' /\ OnceInv'
  BY <1>4 DEF YearInv, YearsInv, OnceInv
<1>14. CompletedBegan'
  BY <1>3, <1>4, <1>5, <1>8, <1>10 DEF YearInv, CompletedBegan
<1> QED
  BY <1>4, <1>11, <1>12, <1>13, <1>14, Concludes

-------------------------------------------------------------------------------
(***************************************************************************)
(* Careers, modules and work.                                              *)
(***************************************************************************)
LEMMA SaveCareerStep ==
  ASSUME YearInv, NEW r \in Requests, SaveCareer(r)
  PROVE  YearInv'
<1>1. PICK h : h = handler[r]
  OBVIOUS
<1>2. /\ ~Free(r) /\ h \in Handler /\ h.at = "save"
      /\ Placed(h) /\ Recorded(r, h)
  BY <1>1, DoingFacts DEF SaveCareer
<1>3. PICK g : g = [h EXCEPT !.at = "find"]
  OBVIOUS
<1>4. /\ handler' = [handler EXCEPT ![r] = g]
      /\ careers' = careers \cup {h.body}
      /\ UNCHANGED <<systemYears, modules, yearModules, open, notifications, trouble>>
  BY <1>1, <1>3 DEF SaveCareer, Goes
<1>5. /\ g \in Handler /\ g.at = "find" /\ g.task = h.task /\ g.year = h.year
      /\ g.root = h.root /\ g.todo = h.todo /\ g.left = h.left
      /\ g.errors = h.errors /\ g.body = h.body
  BY <1>2, <1>3, GoesOn
<1>6. Grows(r)
  BY <1>4 DEF Grows
<1>7. TablesTypeOK'
  <2>1. h.body \in Career
    BY <1>2, HandlerBusy
  <2> QED
    BY <1>4, <2>1 DEF YearInv, SystemYearTypeOK, TablesTypeOK
<1>8. YearsInv' /\ OnceInv' /\ CompletedBegan'
  BY <1>4 DEF YearInv, YearsInv, OnceInv, CompletedBegan
<1>9. h.task = "career" /\ h.todo = <<h.body.module>>
  BY <1>2 DEF Placed
<1>10. h.todo # <<>>
  BY <1>9
<1>11. Placed(g)
  BY <1>2, <1>5, <1>9, <1>10 DEF Placed
<1>12. Recorded(r, g)'
  BY <1>2, <1>4, <1>5, <1>9 DEF Recorded
<1> QED
  BY <1>4, <1>5, <1>6, <1>7, <1>8, <1>11, <1>12, Concludes

(* The module is saved, without a folder yet.                               *)
LEMMA SaveModuleStep ==
  ASSUME YearInv, NEW r \in Requests, SaveModule(r)
  PROVE  YearInv'
<1>1. PICK h : h = handler[r]
  OBVIOUS
<1>2. /\ ~Free(r) /\ h \in Handler /\ h.at = "find"
      /\ Placed(h) /\ Recorded(r, h)
  BY <1>1, DoingFacts DEF SaveModule
<1>3. PICK code : code = Head(h.todo)
  OBVIOUS
<1>4. /\ UNCHANGED <<systemYears, careers, yearModules, open, notifications, trouble>>
      /\ trouble' \in Failures \cup {"none"}
  BY TroubleTyped DEF SaveModule
<1>5. CASE modules[code] # "absent"
  <2>1. Fails(r) /\ UNCHANGED tables
    BY <1>1, <1>3, <1>4, <1>5 DEF SaveModule, tables
  <2> QED
    BY <1>2, <1>4, <2>1, FailsStep
<1>6. CASE modules[code] = "absent"
  <2>1. PICK g : g = [h EXCEPT !.at = "folder"]
    OBVIOUS
  <2>2. /\ handler' = [handler EXCEPT ![r] = g]
        /\ modules' = [modules EXCEPT ![code] = "bare"]
    BY <1>1, <1>3, <1>6, <2>1 DEF SaveModule, Goes
  <2>3. /\ g \in Handler /\ g.at = "folder" /\ g.task = h.task
        /\ g.year = h.year /\ g.root = h.root /\ g.todo = h.todo
        /\ g.left = h.left /\ g.errors = h.errors /\ g.body = h.body
    BY <1>2, <2>1, GoesOn
  <2>4. modules \in [Codes -> ModuleState]
    BY DEF YearInv, SystemYearTypeOK
  <2>5. Grows(r)
    BY <1>4, <1>6, <2>2, <2>4 DEF Grows
  <2>6. TablesTypeOK'
    <3>1. modules' \in [Codes -> ModuleState]
      BY <2>2, <2>4 DEF ModuleState
    <3> QED
      BY <1>4, <3>1 DEF YearInv, SystemYearTypeOK, TablesTypeOK
  <2>7. YearsInv' /\ OnceInv' /\ CompletedBegan'
    BY <1>4 DEF YearInv, YearsInv, OnceInv, CompletedBegan
  <2>8. h.task \in {"career", "module"}
    BY <1>2 DEF Placed
  <2>9. Placed(g)
    BY <1>2, <2>3, <2>8 DEF Placed
  <2>10. Recorded(r, g)'
    BY <1>2, <1>4, <2>3, <2>8 DEF Recorded
  <2> QED
    BY <2>2, <2>3, <2>5, <2>6, <2>7, <2>9, <2>10, Concludes
<1> QED
  BY <1>5, <1>6

(* The folder of a module, and the year that is current then.               *)
LEMMA SetFolderStep ==
  ASSUME YearInv, NEW r \in Requests, SetFolder(r)
  PROVE  YearInv'
<1>1. PICK h : h = handler[r]
  OBVIOUS
<1>2. /\ ~Free(r) /\ h \in Handler /\ h.at = "folder"
      /\ Placed(h) /\ Recorded(r, h)
  BY <1>1, DoingFacts DEF SetFolder
<1>3. PICK code : code = Head(h.todo)
  OBVIOUS
<1>4. PICK year : year = Current
  OBVIOUS
<1>5. year \in Years /\ year \in systemYears
  BY <1>4, CurrentIsLast DEF YearInv, SystemYearTypeOK
<1>6. PICK g : g = [h EXCEPT !.at = "check", !.year = year]
  OBVIOUS
<1>7. /\ handler' = [handler EXCEPT ![r] = g]
      /\ modules' = [modules EXCEPT ![code] = IF @ = "bare" THEN "kept" ELSE @]
      /\ UNCHANGED <<systemYears, careers, yearModules, open, notifications, trouble>>
  BY <1>1, <1>3, <1>4, <1>6 DEF SetFolder
<1>8. /\ g \in Handler /\ g.at = "check" /\ g.task = h.task
      /\ g.year = year /\ g.root = h.root /\ g.todo = h.todo
      /\ g.left = h.left /\ g.errors = h.errors /\ g.body = h.body
  BY <1>2, <1>5, <1>6 DEF Handler
<1>9. modules \in [Codes -> ModuleState]
  BY DEF YearInv, SystemYearTypeOK
<1>10. Grows(r)
  BY <1>7, <1>9 DEF Grows
<1>11. TablesTypeOK'
  <2>1. modules' \in [Codes -> ModuleState]
    BY <1>7, <1>9 DEF ModuleState
  <2> QED
    BY <1>7, <2>1 DEF YearInv, SystemYearTypeOK, TablesTypeOK
<1>12. YearsInv' /\ OnceInv' /\ CompletedBegan'
  BY <1>7 DEF YearInv, YearsInv, OnceInv, CompletedBegan
<1>13. h.task \in {"career", "module", "folders"}
  BY <1>2 DEF Placed
<1>14. Placed(g)
  BY <1>2, <1>8, <1>13 DEF Placed
<1>15. Recorded(r, g)'
  BY <1>5, <1>7, <1>8, <1>13 DEF Recorded
<1> QED
  BY <1>7, <1>8, <1>10, <1>11, <1>12, <1>14, <1>15, Concludes

(* The templates make the module ready.                                     *)
LEMMA CopyTemplatesStep ==
  ASSUME YearInv, NEW r \in Requests, CopyTemplates(r)
  PROVE  YearInv'
<1>1. PICK h : h = handler[r]
  OBVIOUS
<1>2. /\ ~Free(r) /\ h \in Handler /\ h.at = "templates"
      /\ Placed(h) /\ Recorded(r, h)
  BY <1>1, DoingFacts DEF CopyTemplates
<1>3. /\ UNCHANGED <<systemYears, careers, yearModules, open, notifications, trouble>>
      /\ trouble' \in Failures \cup {"none"}
  BY TroubleTyped DEF CopyTemplates
<1>4. CASE Ends(r) /\ UNCHANGED modules
  BY <1>3, <1>4, EndsStep DEF tables
<1>5. CASE modules' = [modules EXCEPT ![h.body.module] = "ready"]
           /\ Goes(r, "created")
  <2>1. PICK g : g = [h EXCEPT !.at = "created"]
    OBVIOUS
  <2>2. handler' = [handler EXCEPT ![r] = g]
    BY <1>1, <1>5, <2>1 DEF Goes
  <2>3. /\ g \in Handler /\ g.at = "created" /\ g.task = h.task
        /\ g.year = h.year /\ g.root = h.root /\ g.todo = h.todo
        /\ g.left = h.left /\ g.errors = h.errors /\ g.body = h.body
    BY <1>2, <2>1, GoesOn
  <2>4. modules \in [Codes -> ModuleState] /\ h.body.module \in Codes
    BY <1>2, HandlerBusy DEF YearInv, SystemYearTypeOK
  <2>5. Grows(r)
    BY <1>3, <1>5, <2>4 DEF Grows
  <2>6. TablesTypeOK'
    <3>1. modules' \in [Codes -> ModuleState]
      BY <1>5, <2>4 DEF ModuleState
    <3> QED
      BY <1>3, <3>1 DEF YearInv, SystemYearTypeOK, TablesTypeOK
  <2>7. YearsInv' /\ OnceInv' /\ CompletedBegan'
    BY <1>3 DEF YearInv, YearsInv, OnceInv, CompletedBegan
  <2>8. h.task = "career"
    BY <1>2 DEF Placed
  <2>9. Placed(g)
    BY <1>2, <2>3, <2>8 DEF Placed
  <2>10. Made(r, g.body.module, g.year)'
    BY <1>2, <1>3, <2>3 DEF Recorded, Made, MineOf
  <2>11. modules'[g.body.module] = "ready"
    BY <1>5, <2>3, <2>4
  <2>12. Recorded(r, g)'
    BY <1>2, <1>3, <2>3, <2>8, <2>10, <2>11 DEF Recorded
  <2> QED
    BY <2>2, <2>3, <2>5, <2>6, <2>7, <2>9, <2>12, Concludes
<1> QED
  BY <1>1, <1>4, <1>5 DEF CopyTemplates

(* The answer.                                                              *)
LEMMA AnswerStep ==
  ASSUME YearInv, NEW r \in Requests, Answer(r)
  PROVE  YearInv'
<1>1. UNCHANGED tables /\ trouble' \in Failures \cup {"none"}
  BY TroubleTyped DEF Answer, tables
<1> QED
  BY <1>1, EndsStep DEF Answer

(* Work that is saved, in a year there may be.                               *)
LEMMA SaveWorkStep ==
  ASSUME YearInv, NEW r \in Requests, SaveWork(r)
  PROVE  YearInv'
<1>1. PICK h : h = handler[r]
  OBVIOUS
<1>2. /\ ~Free(r) /\ h \in Handler /\ h.at = "insert" /\ Placed(h)
  BY <1>1, DoingFacts DEF SaveWork
<1>3. /\ open' = [open EXCEPT ![h.year] = @ \cup {Head(h.left)}]
      /\ handler' = [handler EXCEPT ![r] = Idle]
      /\ UNCHANGED <<systemYears, modules, careers, yearModules, notifications, trouble>>
  BY <1>1 DEF SaveWork, Ends, Becomes
<1>4. h.left \in Seq(Range(Work)) /\ h.left # <<>>
  BY <1>2 DEF Placed
<1>5. Head(h.left) \in Range(Work)
  BY <1>4, HeadTailProperties
<1>6. Grows(r)
  BY <1>3 DEF Grows
<1>7. TablesTypeOK'
  BY <1>3, <1>5 DEF YearInv, SystemYearTypeOK, TablesTypeOK
<1>8. YearsInv' /\ OnceInv' /\ CompletedBegan'
  BY <1>3 DEF YearInv, YearsInv, OnceInv, CompletedBegan
<1> QED
  BY <1>3, <1>6, <1>7, <1>8, Concludes

(* A step that leaves the handlers, and all they record, alone.              *)
LEMMA NoHandler ==
  ASSUME YearInv, UNCHANGED <<handler, notifications, systemYears, modules,
                              yearModules, trouble>>,
         careers' \subseteq Career, open' \in [Years -> SUBSET Range(Work)]
  PROVE  YearInv'
<1>1. SystemYearTypeOK'
  BY DEF YearInv, SystemYearTypeOK
<1>2. YearsInv' /\ OnceInv' /\ CompletedBegan'
  BY DEF YearInv, YearsInv, OnceInv, CompletedBegan
<1>3. HandlersInv'
  <2> SUFFICES ASSUME NEW r \in Requests, ~Free(r)'
               PROVE  Placed(handler[r])' /\ Recorded(r, handler[r])'
    BY DEF HandlersInv
  <2>1. PICK h : h = handler[r]
    OBVIOUS
  <2>2. ~Free(r)
    BY DEF Free
  <2>3. Placed(h) /\ Recorded(r, h)
    BY <2>1, <2>2 DEF YearInv, HandlersInv
  <2>4. Recorded(r, h)'
    BY <2>3 DEF Recorded, Made, MineOf
  <2>5. handler'[r] = h
    BY <2>1
  <2>6. Placed(handler[r])'
    BY <2>3, <2>5 DEF Placed
  <2>7. Recorded(r, handler[r])'
    BY <2>4, <2>5 DEF Recorded
  <2> QED
    BY <2>6, <2>7
<1> QED
  BY <1>1, <1>2, <1>3 DEF YearInv

(* PATCH /careers/:id.                                                      *)
LEMMA UpdateCareerStep ==
  ASSUME YearInv, NEW c \in careers, NEW new \in Updates, UpdateCareer(c, new)
  PROVE  YearInv'
<1>1. careers' \subseteq Career
  BY SystemYearAssumption DEF UpdateCareer, YearInv, SystemYearTypeOK
<1>2. open' \in [Years -> SUBSET Range(Work)]
  BY DEF UpdateCareer, YearInv, SystemYearTypeOK
<1> QED
  BY <1>1, <1>2, NoHandler DEF UpdateCareer

(* Work that is closed.                                                     *)
LEMMA CloseWorkStep ==
  ASSUME YearInv, NEW year \in Years, NEW what \in Opened,
         CloseWork(year, what)
  PROVE  YearInv'
<1>1. careers' \subseteq Career
  BY DEF CloseWork, YearInv, SystemYearTypeOK
<1>2. open' \in [Years -> SUBSET Range(Work)]
  BY DEF CloseWork, YearInv, SystemYearTypeOK
<1> QED
  BY <1>1, <1>2, NoHandler DEF CloseWork

(* The process stops: what was being done is forgotten, what was saved stays.*)
LEMMA StopStep ==
  ASSUME YearInv, Stop
  PROVE  YearInv'
<1>1. SystemYearTypeOK'
  BY DEF YearInv, SystemYearTypeOK, Stop
<1>2. YearsInv' /\ OnceInv' /\ CompletedBegan'
  BY DEF YearInv, YearsInv, OnceInv, CompletedBegan, Stop
<1>3. HandlersInv'
  BY DEF HandlersInv, Free, Stop
<1> QED
  BY <1>1, <1>2, <1>3 DEF YearInv

-------------------------------------------------------------------------------
(***************************************************************************)
(* The invariant.                                                          *)
(***************************************************************************)
LEMMA InitHolds ==
  ASSUME SystemYearInit
  PROVE  YearInv
<1>1. SystemYearTypeOK
  <2>1. Migrated \subseteq Codes
    BY SystemYearAssumption DEF Migrated, Career
  <2>2. ASSUME NEW c \in Migrated
        PROVE  [module |-> c, year |-> FirstYear, by |-> 0,
                names |-> Range(Names(c, TRUE))] \in YearModule
    <3>1. PICK names : names = Range(Names(c, TRUE))
      OBVIOUS
    <3>2. names \in SUBSET SubNames
      BY <3>1, NamesTyped
    <3>3. c \in Codes /\ FirstYear \in Years /\ 0 \in Requests \cup {0}
      BY <2>1, SystemYearAssumption
    <3>4. [module |-> c, year |-> FirstYear, by |-> 0, names |-> names]
            \in YearModule
      BY <3>2, <3>3 DEF YearModule
    <3> QED
      BY <3>1, <3>4
  <2>3. FirstYearModules \subseteq YearModule
    BY <2>2 DEF FirstYearModules
  <2>4. notifications \in Seq(Notification)
    BY EmptySeq DEF SystemYearInit
  <2>5. /\ systemYears \subseteq Years /\ careers \subseteq Career
        /\ yearModules \subseteq YearModule
    BY <2>3, SystemYearAssumption DEF SystemYearInit
  <2>6. modules \in [Codes -> ModuleState]
    BY DEF SystemYearInit, ModuleState
  <2> QED
    BY <2>4, <2>5, <2>6 DEF SystemYearInit, SystemYearTypeOK
<1>2. YearsInv
  <2>1. FirstYear \in Nat
    BY SystemYearAssumption
  <2> QED
    BY <2>1 DEF SystemYearInit, YearsInv
<1>3. OnceInv
  <2> SUFFICES ASSUME NEW y \in FirstYearModules, NEW z \in FirstYearModules,
                      y.module = z.module
               PROVE  y = z
    BY DEF SystemYearInit, OnceInv
  <2> DEFINE made(c) == [module |-> c, year |-> FirstYear, by |-> 0,
                         names |-> Range(Names(c, TRUE))]
  <2>1. \A c : made(c).module = c
    OBVIOUS
  <2>2. \E c \in Migrated : y = made(c)
    BY DEF FirstYearModules
  <2>3. \E c \in Migrated : z = made(c)
    BY DEF FirstYearModules
  <2> HIDE DEF made
  <2> QED
    BY <2>1, <2>2, <2>3
<1>4. CompletedBegan
  BY DEF SystemYearInit, CompletedBegan
<1>5. HandlersInv
  BY DEF SystemYearInit, HandlersInv, Free
<1> QED
  BY <1>1, <1>2, <1>3, <1>4, <1>5 DEF YearInv

(* Every step keeps the invariant.                                          *)
LEMMA StepHolds ==
  ASSUME YearInv, [SystemYearNext]_systemYearVars
  PROVE  YearInv'
<1>1. ASSUME NEW r \in Requests, Begin(r)
      PROVE  YearInv'
  BY <1>1, BeginChangeStep, BeginYearModuleStep, BeginCareerStep,
     BeginModuleStep, BeginFoldersStep, BeginWorkStep DEF Begin
<1>2. ASSUME NEW r \in Requests, Continue(r)
      PROVE  YearInv'
  BY <1>2, CheckYearModuleStep, SaveYearModuleStep, SaveSubmoduleStep,
     ValidateStep, ListModulesStep, SetYearStep, EndChangeStep, SaveCareerStep,
     SaveModuleStep, SetFolderStep, CopyTemplatesStep, AnswerStep, SaveWorkStep
  DEF Continue
<1>3. CASE UNCHANGED systemYearVars
  BY <1>3, NoHandler DEF systemYearVars, YearInv, SystemYearTypeOK
<1> QED
  BY <1>1, <1>2, <1>3, DriveRefusesStep, UpdateCareerStep, CloseWorkStep,
     StopStep DEF SystemYearNext

(* The invariant holds of every behaviour.                                   *)
LEMMA AlwaysYearInv == SystemYearSpec => []YearInv
<1>1. SystemYearInit => YearInv
  BY InitHolds
<1>2. YearInv /\ [SystemYearNext]_systemYearVars => YearInv'
  BY StepHolds
<1> QED
  BY <1>1, <1>2, PTL DEF SystemYearSpec

(* The years of the system follow each other without a gap, a change that is *)
(* reported as completed made its year, and a career is answered as created  *)
(* only with its module, ready and in the year.                              *)
THEOREM YearsFollowEachOther == SystemYearSpec => []SystemYearInv
<1>1. YearInv => NoYearSkipped
  BY CurrentIsLast DEF YearInv, NoYearSkipped
<1>2. ASSUME YearInv
      PROVE  CareerHasModule
  <2> SUFFICES ASSUME NEW r \in Requests, Doing(r, "created")
               PROVE  /\ modules[handler[r].body.module] = "ready"
                      /\ \E year \in systemYears :
                           HasYear(handler[r].body.module, year)
    BY DEF CareerHasModule
  <2>1. PICK h : h = handler[r]
    OBVIOUS
  <2>2. h.at = "created" /\ Placed(h) /\ Recorded(r, h)
    BY <1>2, <2>1, DoingFacts
  <2>3. /\ Made(r, h.body.module, h.year) /\ h.year \in systemYears
        /\ modules[h.body.module] = "ready"
    BY <2>2 DEF Placed, Recorded
  <2>4. HasYear(h.body.module, h.year)
    BY <2>3 DEF Made, MineOf, HasYear, YearModulesOf
  <2> QED
    BY <2>1, <2>3, <2>4
<1>3. YearInv => SystemYearInv
  BY <1>1, <1>2 DEF YearInv, SystemYearInv
<1> QED
  BY <1>3, AlwaysYearInv, PTL

-------------------------------------------------------------------------------
(***************************************************************************)
(* Tasks that are under way alone.                                         *)
(***************************************************************************)
(* What a handler that begins is about.                                      *)
LEMMA BegunAt ==
  ASSUME NEW task, NEW place, NEW year, NEW todo, NEW body
  PROVE  LET g == Begun(task, place, year, todo, body) IN
         g.task = task /\ g.at = place /\ g.year = year
<1> DEFINE none == <<>>
<1> HIDE DEF none
<1>1. Begun(task, place, year, todo, body) =
        [task |-> task, at |-> place, year |-> year, root |-> 0, todo |-> todo,
         left |-> none, errors |-> {}, body |-> body]
  BY DEF Begun, none
<1> QED
  BY <1>1

(* How a request begins: with a handler of its task, that has neither        *)
(* validated nor made anything, and no table changed but the notifications.  *)
Begins(r, g) ==
  /\ Free(r) /\ MayBegin(r, g.task)
  /\ handler' = [handler EXCEPT ![r] = g]
  /\ g.task = "change" => g.at = "validate" /\ Range(Work) \subseteq Range(g.left)
  /\ UNCHANGED <<systemYears, modules, careers, yearModules, open>>

(* All the kinds of work are among the validations of a change.              *)
LEMMA AllWorkLeft == Range(Work) \subseteq Range(<<"year">> \o Work)
<1> DEFINE year == <<"year">>
<1>1. year \in Seq(Validations) /\ Work \in Seq(Validations)
  BY DEF Validations, Work, Range
<1>2. Range(year \o Work) = Range(year) \cup Range(Work)
  BY <1>1, RangeOfBoth
<1> QED
  BY <1>2

(* Every request that begins does so.                                        *)
LEMMA HowItBegins ==
  ASSUME NEW r \in Requests, Begin(r)
  PROVE  \E g : Begins(r, g)
<1>1. ASSUME NEW year \in Next, BeginChange(r, year)
      PROVE  \E g : Begins(r, g)
  <2> DEFINE all == <<"year">> \o Work
  <2>1. PICK b : b = Begun("change", "validate", year, <<>>, AnyBody)
    OBVIOUS
  <2>2. PICK g : g = [b EXCEPT !.left = all, !.root = Len(notifications) + 1]
    OBVIOUS
  <2>3. handler' = [handler EXCEPT ![r] = g]
    BY <1>1, <2>1, <2>2 DEF BeginChange, Becomes
  <2>4. Range(Work) \subseteq Range(all)
    BY AllWorkLeft
  <2>5. "left" \in DOMAIN b /\ "root" \in DOMAIN b /\ b.task = "change"
        /\ b.at = "validate"
    <3> DEFINE none == <<>>
    <3> HIDE DEF none
    <3>1. b = [task |-> "change", at |-> "validate", year |-> year, root |-> 0,
               todo |-> none, left |-> none, errors |-> {}, body |-> AnyBody]
      BY <2>1 DEF Begun, none
    <3> QED
      BY <3>1
  <2> HIDE DEF all
  <2>6. g.task = "change" /\ g.at = "validate" /\ g.left = all
    BY <2>2, <2>5
  <2>7. MayBegin(r, g.task) /\ Free(r)
    BY <1>1, <2>6 DEF BeginChange, MayBegin
  <2>8. UNCHANGED <<systemYears, modules, careers, yearModules, open>>
    BY <1>1 DEF BeginChange
  <2>9. Begins(r, g)
    BY <2>3, <2>4, <2>6, <2>7, <2>8 DEF Begins
  <2> QED
    BY <2>9
<1>2. ASSUME NEW task, task # "change", MayBegin(r, task),
             NEW place, NEW year, NEW todo, NEW body,
             Becomes(r, Begun(task, place, year, todo, body)),
             UNCHANGED <<systemYears, modules, careers, yearModules, open>>
      PROVE  \E g : Begins(r, g)
  <2>1. PICK g : g = Begun(task, place, year, todo, body)
    OBVIOUS
  <2>2. g.task = task
    BY <2>1, BegunAt
  <2>3. Begins(r, g)
    BY <1>2, <2>1, <2>2 DEF Begins, Becomes, MayBegin
  <2> QED
    BY <2>3
<1>3. ASSUME NEW asked \in Asked, BeginYearModule(r, asked)
      PROVE  \E g : Begins(r, g)
  <2>1. PICK todo : todo = <<asked[1]>>
    OBVIOUS
  <2>2. Becomes(r, Begun("yearModule", "check", asked[2], todo, AnyBody))
    BY <1>3, <2>1 DEF BeginYearModule
  <2> QED
    BY <1>2, <1>3, <2>2 DEF BeginYearModule
<1>4. ASSUME NEW body \in Bodies, BeginCareer(r, body)
      PROVE  \E g : Begins(r, g)
  <2>1. PICK todo : todo = <<body.module>>
    OBVIOUS
  <2>2. Becomes(r, Begun("career", "save", Current, todo, body))
    BY <1>4, <2>1 DEF BeginCareer
  <2> QED
    BY <1>2, <1>4, <2>2 DEF BeginCareer
<1>5. ASSUME NEW code \in Documented, BeginModule(r, code)
      PROVE  \E g : Begins(r, g)
  <2>1. PICK todo : todo = <<code>>
    OBVIOUS
  <2>2. Becomes(r, Begun("module", "find", Current, todo, AnyBody))
    BY <1>5, <2>1 DEF BeginModule
  <2> QED
    BY <1>2, <1>5, <2>2 DEF BeginModule
<1>6. ASSUME BeginFolders(r)
      PROVE  \E g : Begins(r, g)
  <2>1. PICK todo : Becomes(r, Begun("folders", "folder", Current, todo, AnyBody))
    BY <1>6 DEF BeginFolders
  <2> QED
    BY <1>2, <1>6, <2>1 DEF BeginFolders
<1>7. ASSUME NEW what \in Opened, BeginWork(r, what)
      PROVE  \E g : Begins(r, g)
  <2>1. PICK b : b = Begun("work", "insert", Current, <<>>, AnyBody)
    OBVIOUS
  <2>2. PICK left : left = <<what>>
    OBVIOUS
  <2>3. PICK g : g = [b EXCEPT !.left = left]
    OBVIOUS
  <2>4. handler' = [handler EXCEPT ![r] = g]
    BY <1>7, <2>1, <2>2, <2>3 DEF BeginWork, Becomes
  <2>5. b.task = "work"
    BY <2>1, BegunAt
  <2>6. g.task = "work"
    BY <2>3, <2>5
  <2>7. Begins(r, g)
    BY <1>7, <2>4, <2>6 DEF Begins, BeginWork, MayBegin
  <2> QED
    BY <2>7
<1> QED
  BY <1>1, <1>3, <1>4, <1>5, <1>6, <1>7 DEF Begin

(* A handler goes on with its task, or ends.                                 *)
GoesOnOrEnds(r, g) ==
  /\ ~Free(r) /\ handler' = [handler EXCEPT ![r] = g]
  /\ g = Idle \/ g.task = handler[r].task

(* A handler that fails does.                                                *)
LEMMA HowItFails ==
  ASSUME NEW r \in Requests, ~Free(r), Fails(r)
  PROVE  \E g : GoesOnOrEnds(r, g)
<1>1. PICK g : g = IF handler[r].task = "change"
                   THEN [handler[r] EXCEPT !.errors = @ \cup {"error"},
                                           !.at = "end"]
                   ELSE Idle
  OBVIOUS
<1>2. handler' = [handler EXCEPT ![r] = g]
  BY <1>1 DEF Fails, Ends, Becomes
<1>3. GoesOnOrEnds(r, g)
  BY <1>1, <1>2 DEF GoesOnOrEnds
<1> QED
  BY <1>3

(* A handler that saved a submodule has the rest left.                       *)
LEMMA LeftTyped ==
  ASSUME YearInv, NEW r \in Requests, SaveSubmodule(r)
  PROVE  LET h == handler[r]
             l == [h EXCEPT !.left = Tail(@)]
         IN /\ l \in Handler /\ l.todo # <<>> /\ l.task # "work"
            /\ l.task = "career" => l.todo = <<l.body.module>>
            /\ l.todo = h.todo /\ l.task = h.task /\ l.year = h.year
            /\ l.left = Tail(h.left) /\ l.at = "sub"
<1>1. PICK h : h = handler[r]
  OBVIOUS
<1>2. h \in Handler /\ h.at = "sub" /\ Placed(h)
  BY <1>1, DoingFacts DEF SaveSubmodule
<1>3. PICK rest : rest = Tail(h.left)
  OBVIOUS
<1>4. h.left \in Seq(SubNames) /\ h.left # <<>>
  BY <1>2 DEF Placed
<1>5. rest \in Seq(SubNames \cup Validations)
  BY <1>3, <1>4, HeadTailProperties, NamesMayBeLeft
<1>6. PICK l : l = [h EXCEPT !.left = rest]
  OBVIOUS
<1>7. /\ l \in Handler /\ l.todo = h.todo /\ l.task = h.task
      /\ l.body = h.body /\ l.left = rest /\ l.at = "sub" /\ l.year = h.year
  BY <1>2, <1>5, <1>6 DEF Handler
<1>8. l.todo # <<>> /\ l.task # "work"
      /\ (l.task = "career" => l.todo = <<l.body.module>>)
  BY <1>2, <1>7 DEF Placed
<1> QED
  BY <1>1, <1>3, <1>6, <1>7, <1>8

(* So does every handler that goes on.                                       *)
LEMMA HowItGoesOn ==
  ASSUME YearInv, NEW r \in Requests, Continue(r) \/ DriveRefuses(r)
  PROVE  \E g : GoesOnOrEnds(r, g)
<1> DEFINE h == handler[r]
<1>1. ASSUME ~Free(r), NEW place, Goes(r, place)
      PROVE  \E g : GoesOnOrEnds(r, g)
  <2>1. PICK g : g = [h EXCEPT !.at = place]
    OBVIOUS
  <2>2. GoesOnOrEnds(r, g)
    BY <1>1, <2>1 DEF Goes, GoesOnOrEnds
  <2> QED
    BY <2>2
<1>2. ASSUME ~Free(r), Ends(r)
      PROVE  \E g : GoesOnOrEnds(r, g)
  BY <1>2 DEF Ends, Becomes, GoesOnOrEnds
<1>3. CASE CheckYearModule(r)
  BY <1>1, <1>3, HowItFails DEF CheckYearModule, Doing
<1>4. CASE SaveYearModule(r)
  <2>1. PICK g : g = [h EXCEPT !.at = "sub",
                               !.left = Names(Head(h.todo), h.task = "change")]
    OBVIOUS
  <2>2. handler' = [handler EXCEPT ![r] = g] /\ ~Free(r)
    BY <1>4, <2>1 DEF SaveYearModule, Doing
  <2>3. GoesOnOrEnds(r, g)
    BY <2>1, <2>2 DEF GoesOnOrEnds
  <2> QED
    BY <2>3
<1>5. CASE SaveSubmodule(r)
  <2>1. PICK l : l = [h EXCEPT !.left = Tail(@)]
    OBVIOUS
  <2>2. PICK g : g = IF l.left = <<>> THEN After(l) ELSE l
    OBVIOUS
  <2>3. handler' = [handler EXCEPT ![r] = g] /\ ~Free(r)
    BY <1>5, <2>1, <2>2 DEF SaveSubmodule, Becomes, Doing
  <2>4. l \in Handler /\ l.todo # <<>> /\ l.task = h.task /\ l.task # "work"
        /\ (l.task = "career" => l.todo = <<l.body.module>>)
    BY <1>5, <2>1, LeftTyped
  <2>5. After(l) = Idle \/ After(l).task = l.task
    BY <2>4, AfterPlaced
  <2>6. GoesOnOrEnds(r, g)
    BY <2>2, <2>3, <2>4, <2>5 DEF GoesOnOrEnds
  <2> QED
    BY <2>6
<1>6. CASE Validate(r)
  <2>1. PICK rest, errors, place :
          handler' = [handler EXCEPT ![r].left = rest, ![r].errors = errors,
                                     ![r].at = place]
    BY <1>6 DEF Validate
  <2>2. PICK g : g = [h EXCEPT !.left = rest, !.errors = errors, !.at = place]
    OBVIOUS
  <2>3. handler' = [handler EXCEPT ![r] = g] /\ ~Free(r)
    BY <1>6, <2>1, <2>2 DEF Validate, Doing
  <2>4. GoesOnOrEnds(r, g)
    BY <2>2, <2>3 DEF GoesOnOrEnds
  <2> QED
    BY <2>4
<1>7. CASE ListModules(r)
  <2>1. ~Free(r)
    BY <1>7 DEF ListModules, Doing
  <2>2. CASE Fails(r)
    BY <2>1, <2>2, HowItFails
  <2>3. ASSUME NEW todo, handler' = [handler EXCEPT ![r].todo = todo,
                                                    ![r].at = "check"]
        PROVE  \E g : GoesOnOrEnds(r, g)
    <3>1. PICK g : g = [h EXCEPT !.todo = todo, !.at = "check"]
      OBVIOUS
    <3>2. handler' = [handler EXCEPT ![r] = g]
      BY <2>3, <3>1
    <3>3. GoesOnOrEnds(r, g)
      BY <2>1, <3>1, <3>2 DEF GoesOnOrEnds
    <3> QED
      BY <3>3
  <2> QED
    BY <1>7, <2>2, <2>3 DEF ListModules
<1>8. CASE SetYear(r)
  BY <1>1, <1>8, HowItFails DEF SetYear, Doing
<1>9. CASE EndChange(r) \/ SaveWork(r) \/ Answer(r)
  BY <1>2, <1>9 DEF EndChange, SaveWork, Answer, Doing
<1>10. CASE SaveCareer(r)
  BY <1>1, <1>10 DEF SaveCareer, Doing
<1>11. CASE SaveModule(r)
  BY <1>1, <1>11, HowItFails DEF SaveModule, Doing
<1>12. CASE SetFolder(r)
  <2>1. PICK g : g = [h EXCEPT !.at = "check", !.year = Current]
    OBVIOUS
  <2>2. handler' = [handler EXCEPT ![r] = g] /\ ~Free(r)
    BY <1>12, <2>1 DEF SetFolder, Doing
  <2>3. GoesOnOrEnds(r, g)
    BY <2>1, <2>2 DEF GoesOnOrEnds
  <2> QED
    BY <2>3
<1>13. CASE CopyTemplates(r)
  BY <1>1, <1>2, <1>13 DEF CopyTemplates, Doing
<1>14. CASE DriveRefuses(r)
  BY <1>14, HowItFails DEF DriveRefuses
<1> QED
  BY <1>3, <1>4, <1>5, <1>6, <1>7, <1>8, <1>9, <1>10, <1>11, <1>12, <1>13,
     <1>14 DEF Continue

(* A step is one request's, begun or going on, or no request's.              *)
LEMMA WhoseStep ==
  ASSUME YearInv, [SystemYearNext]_systemYearVars
  PROVE  \/ \E r \in Requests : \E g : Begins(r, g)
         \/ \E r \in Requests : \E g :
              (Continue(r) \/ DriveRefuses(r)) /\ GoesOnOrEnds(r, g)
         \/ \E c \in careers, new \in Updates : UpdateCareer(c, new)
         \/ \E year \in Years, what \in Opened : CloseWork(year, what)
         \/ Stop \/ UNCHANGED systemYearVars
  BY HowItBegins, HowItGoesOn DEF SystemYearNext

(* A task that waits for the others, and that the others wait for, stays     *)
(* alone.                                                                    *)
LEMMA AloneStep ==
  ASSUME YearInv, AloneInv, [SystemYearNext]_systemYearVars
  PROVE  AloneInv'
<1> SUFFICES ASSUME NEW r \in Requests, NEW s \in Requests, r # s,
                    ~Free(r)', ~Free(s)'
             PROVE  {handler'[r].task, handler'[s].task} \cap Patient = {}
  BY DEF AloneInv
<1>1. \A q \in Requests : q \in DOMAIN handler
  BY DEF YearInv, SystemYearTypeOK
<1>2. ASSUME NEW q \in Requests, NEW g, Begins(q, g)
      PROVE  {handler'[r].task, handler'[s].task} \cap Patient = {}
  <2>1. handler'[q] = g /\ \A p \in Requests \ {q} : handler'[p] = handler[p]
    BY <1>1, <1>2 DEF Begins
  <2>2. \A p \in Requests \ {q} :
          ~Free(p) => {g.task, handler[p].task} \cap Patient = {}
    BY <1>2 DEF Begins, MayBegin
  <2>3. CASE q = r
    BY <2>1, <2>2, <2>3 DEF Free
  <2>4. CASE q = s
    BY <2>1, <2>2, <2>4 DEF Free
  <2>5. CASE q # r /\ q # s
    BY <2>1, <2>5 DEF Free, AloneInv
  <2> QED
    BY <2>3, <2>4, <2>5
<1>3. ASSUME NEW q \in Requests, NEW g, GoesOnOrEnds(q, g)
      PROVE  {handler'[r].task, handler'[s].task} \cap Patient = {}
  <2>1. /\ \A p \in Requests : ~Free(p)' => ~Free(p)
        /\ \A p \in Requests : ~Free(p)' => handler'[p].task = handler[p].task
    BY <1>1, <1>3 DEF GoesOnOrEnds, Free
  <2> QED
    BY <2>1 DEF AloneInv
<1>4. CASE UNCHANGED handler
  BY <1>4 DEF AloneInv, Free
<1>5. CASE Stop
  BY <1>5 DEF Stop, Free
<1> QED
  BY <1>2, <1>3, <1>4, <1>5, WhoseStep DEF UpdateCareer, CloseWork, systemYearVars

(* Which request, if any, changes the year.                                  *)
LEMMA YearChanges ==
  ASSUME YearInv, [SystemYearNext]_systemYearVars, systemYears' # systemYears
  PROVE  \E r \in Requests : SetYear(r)
<1>1. ASSUME NEW r \in Requests, Continue(r)
      PROVE  SetYear(r)
  BY <1>1 DEF Continue, CheckYearModule, SaveYearModule, SaveSubmodule, Validate,
     ListModules, EndChange, SaveCareer, SaveModule, SetFolder, CopyTemplates,
     Answer, SaveWork
<1> QED
  BY <1>1, WhoseStep DEF Begins, DriveRefuses, UpdateCareer, CloseWork, Stop,
     systemYearVars

(* The year that begins is the last, and the one after the current.          *)
LEMMA NewYear ==
  ASSUME YearInv, NEW r \in Requests, SetYear(r), systemYears' # systemYears
  PROVE  /\ Max(systemYears') = handler[r].year
         /\ Current = handler[r].year - 1
         /\ ~Free(r) /\ handler[r].task = "change" /\ handler[r].at = "set"
<1>1. PICK h : h = handler[r]
  OBVIOUS
<1>2. /\ ~Free(r) /\ h \in Handler /\ h.at = "set"
      /\ Placed(h) /\ Recorded(r, h)
  BY <1>1, DoingFacts DEF SetYear
<1>3. h.task = "change" /\ h.year - 1 \in systemYears /\ h.year \in Years
  BY <1>2 DEF Placed, Recorded, Handler
<1>4. h.year \notin systemYears /\ systemYears' = systemYears \cup {h.year}
  BY <1>1 DEF SetYear
<1>5. /\ Current \in systemYears /\ systemYears = FirstYear..Current
      /\ Current \in Nat /\ h.year \in Nat /\ FirstYear \in Nat
  BY <1>3, CurrentIsLast, SystemYearAssumption DEF YearInv
<1>6. h.year = Current + 1
  BY <1>3, <1>4, <1>5
<1>7. PICK years : years = systemYears'
  OBVIOUS
<1>8. h.year \in years /\ \A y \in years : y \in Nat /\ h.year >= y
  BY <1>4, <1>5, <1>6, <1>7
<1>9. Max(years) = h.year
  <2>1. Max(years) = CHOOSE x \in years : \A y \in years : x >= y
    BY DEF Max
  <2>2. Max(years) \in years /\ Max(years) >= h.year
    BY <1>8, <2>1
  <2> QED
    BY <1>5, <1>8, <2>2
<1> QED
  BY <1>1, <1>2, <1>3, <1>5, <1>6, <1>7, <1>9

-------------------------------------------------------------------------------
(***************************************************************************)
(* What a change makes before the year begins.                             *)
(***************************************************************************)
(* The modules of the active careers are as they were, and what every other  *)
(* request made is there.                                                    *)
LeavesPrepared(r) ==
  /\ OfCareers' = OfCareers
  /\ \A y : y.by # r => (y \in yearModules' <=> y \in yearModules)

(* Where no career changes and no module appears, the list is the same.      *)
LEMMA SameCareers ==
  ASSUME SystemYearTypeOK, careers' = careers,
         \A code \in Codes : modules'[code] = "absent" <=> modules[code] = "absent"
  PROVE  OfCareers' = OfCareers
<1>1. \A c \in careers : c.module \in Codes
  BY DEF SystemYearTypeOK, Career
<1>2. Active' = Active /\ Active \subseteq careers
  BY DEF Active
<1> QED
  BY <1>1, <1>2 DEF OfCareers

(* Only what is asked of a career or a module changes the list.              *)
LEMMA OthersLeavePrepared ==
  ASSUME YearInv, NEW r \in Requests, Continue(r) \/ DriveRefuses(r),
         handler[r].task \notin {"career", "module"}
  PROVE  LeavesPrepared(r)
<1> USE DEF YearInv
<1>1. ASSUME UNCHANGED <<modules, careers>>
      PROVE  OfCareers' = OfCareers
  BY <1>1, SameCareers
<1>2. CASE CheckYearModule(r) \/ Validate(r) \/ ListModules(r) \/ SetYear(r)
           \/ EndChange(r) \/ Answer(r) \/ SaveWork(r) \/ DriveRefuses(r)
  BY <1>1, <1>2 DEF CheckYearModule, Validate, ListModules, SetYear, EndChange,
     Answer, SaveWork, DriveRefuses, LeavesPrepared
<1>3. CASE SaveYearModule(r)
  <2>1. PICK new : new = [module |-> Head(handler[r].todo),
                          year |-> handler[r].year, by |-> r, names |-> {}]
    OBVIOUS
  <2>2. yearModules' = yearModules \cup {new} /\ new.by = r
        /\ UNCHANGED <<modules, careers>>
    BY <1>3, <2>1 DEF SaveYearModule
  <2> QED
    BY <1>1, <2>2 DEF LeavesPrepared
<1>4. CASE SaveSubmodule(r)
  <2>1. PICK mine, new :
          SavesSubmodule(r, handler[r], Head(handler[r].todo), mine, new)
    BY <1>4, SubmoduleSaved
  <2>2. UNCHANGED <<modules, careers>>
    BY <1>4 DEF SaveSubmodule
  <2>3. mine.by = r /\ new.by = r
        /\ yearModules' = (yearModules \ {mine}) \cup {new}
    BY <2>1 DEF SavesSubmodule, MineOf
  <2> QED
    BY <1>1, <2>2, <2>3 DEF LeavesPrepared
<1>5. CASE SaveCareer(r) \/ SaveModule(r) \/ CopyTemplates(r)
  <2>1. handler[r].task \in {"career", "module"}
    BY <1>5, DoingFacts DEF SaveCareer, SaveModule, CopyTemplates, Placed
  <2> QED
    BY <2>1
<1>6. CASE SetFolder(r)
  <2>1. PICK code : code = Head(handler[r].todo)
    OBVIOUS
  <2>2. /\ modules' = [modules EXCEPT ![code] = IF @ = "bare" THEN "kept" ELSE @]
        /\ UNCHANGED <<careers, yearModules>>
    BY <1>6, <2>1 DEF SetFolder
  <2>3. modules \in [Codes -> ModuleState]
    BY DEF SystemYearTypeOK
  <2>4. \A c \in Codes : modules'[c] = "absent" <=> modules[c] = "absent"
    BY <2>2, <2>3
  <2>5. OfCareers' = OfCareers
    BY <2>2, <2>4, SameCareers
  <2> QED
    BY <2>2, <2>5 DEF LeavesPrepared
<1> QED
  BY <1>2, <1>3, <1>4, <1>5, <1>6 DEF Continue

(* What a change prepared stays so while the others leave it.                *)
LEMMA StaysPrepared ==
  ASSUME NEW r, NEW s, s # r, LeavesPrepared(r), NEW h, Preparing(s, h)
  PROVE  Preparing(s, h)'
<1>1. \A code, year : MineOf(s, code, year)' = MineOf(s, code, year)
  BY DEF MineOf, LeavesPrepared
<1>2. \A code, year : Made(s, code, year)' <=> Made(s, code, year)
  BY <1>1 DEF Made
<1> QED
  BY <1>2 DEF Preparing, LeavesPrepared

(* What the change itself does next leaves nothing out.                      *)
LEMMA ChangePrepares ==
  ASSUME YearInv, NEW r \in Requests, Continue(r) \/ DriveRefuses(r),
         handler[r].task = "change", Preparing(r, handler[r]), ~Free(r)'
  PROVE  Preparing(r, handler[r])'
<1>1. PICK h : h = handler[r]
  OBVIOUS
<1>2. h \in Handler /\ ~Free(r) /\ Placed(h) /\ Recorded(r, h)
      /\ h.task = "change" /\ Preparing(r, h)
  <2>1. ~Free(r)
    BY HowItGoesOn DEF GoesOnOrEnds
  <2> QED
    BY <1>1, <2>1, BusyTyped DEF YearInv, HandlersInv
<1>3. OfCareers' = OfCareers
  BY OthersLeavePrepared DEF LeavesPrepared
<1>4. r \in DOMAIN handler
  BY DEF YearInv, SystemYearTypeOK
<1>5. ASSUME NEW g, handler' = [handler EXCEPT ![r] = g], Preparing(r, g)'
      PROVE  Preparing(r, handler[r])'
  <2>1. handler'[r] = g
    BY <1>4, <1>5
  <2> QED
    BY <1>5, <2>1 DEF Preparing
<1>6. ASSUME NEW g, handler' = [handler EXCEPT ![r] = g],
             g.at \notin {"check", "row", "sub", "set"}
      PROVE  Preparing(r, handler[r])'
  BY <1>5, <1>6 DEF Preparing
<1>7. CASE Fails(r)
  <2>1. PICK g : g = [h EXCEPT !.errors = @ \cup {"error"}, !.at = "end"]
    OBVIOUS
  <2>2. handler' = [handler EXCEPT ![r] = g]
    BY <1>1, <1>2, <1>7, <2>1 DEF Fails
  <2>3. g.at = "end"
    BY <1>2, <2>1 DEF Handler
  <2> QED
    BY <1>6, <2>2, <2>3
<1>8. CASE Goes(r, "row") /\ UNCHANGED yearModules /\ h.at = "check"
  <2>1. PICK g : g = [h EXCEPT !.at = "row"]
    OBVIOUS
  <2>2. handler' = [handler EXCEPT ![r] = g]
    BY <1>1, <1>8, <2>1 DEF Goes
  <2>3. g.at = "row" /\ g.todo = h.todo /\ g.year = h.year
    BY <1>2, <2>1, GoesOn
  <2>4. \A code, year : Made(r, code, year) => Made(r, code, year)'
    BY <1>8 DEF Made, MineOf
  <2>5. Preparing(r, g)'
    BY <1>2, <1>3, <1>8, <2>3, <2>4 DEF Preparing
  <2> QED
    BY <1>5, <2>2, <2>5
<1>9. CASE SaveYearModule(r)
  <2>1. PICK left : left = Names(Head(h.todo), h.task = "change")
    OBVIOUS
  <2>2. PICK g : g = [h EXCEPT !.at = "sub", !.left = left]
    OBVIOUS
  <2>3. handler' = [handler EXCEPT ![r] = g]
    BY <1>1, <1>9, <2>1, <2>2 DEF SaveYearModule
  <2>4. h.at = "row"
    BY <1>1, <1>9 DEF SaveYearModule, Doing
  <2>5. g.at = "sub" /\ g.todo = h.todo /\ g.year = h.year
    BY <1>2, <2>2 DEF Handler
  <2>6. yearModules \subseteq yearModules'
    BY <1>9 DEF SaveYearModule
  <2>7. \A code, year : Made(r, code, year) => Made(r, code, year)'
    BY <2>6 DEF Made, MineOf
  <2>8. Preparing(r, g)'
    BY <1>2, <1>3, <2>4, <2>5, <2>7 DEF Preparing
  <2> QED
    BY <1>5, <2>3, <2>8
<1>10. CASE SaveSubmodule(r)
  <2>1. PICK code : code = Head(h.todo)
    OBVIOUS
  <2>2. PICK mine, new : SavesSubmodule(r, h, code, mine, new)
    BY <1>1, <1>10, <2>1, SubmoduleSaved
  <2>3. /\ mine \in yearModules /\ mine.module = code /\ mine.year = h.year
        /\ mine.by = r /\ new.module = code /\ new.year = h.year /\ new.by = r
        /\ new.names = mine.names \cup {Head(h.left)}
        /\ yearModules' = (yearModules \ {mine}) \cup {new}
        /\ Range(Names(code, TRUE)) \subseteq mine.names \cup Range(h.left)
    BY <2>2 DEF SavesSubmodule, MineOf
  <2>4. ASSUME NEW c, NEW year, Made(r, c, year)
        PROVE  Made(r, c, year)'
    <3>1. PICK y \in MineOf(r, c, year) : Range(Names(c, TRUE)) \subseteq y.names
      BY <2>4 DEF Made
    <3>2. CASE y # mine
      BY <2>3, <3>1, <3>2 DEF MineOf, Made
    <3>3. CASE y = mine
      BY <2>3, <3>1, <3>3 DEF MineOf, Made
    <3> QED
      BY <3>2, <3>3
  <2>5. h.at = "sub"
    BY <1>1, <1>10 DEF SaveSubmodule, Doing
  <2>6. h.left \in Seq(SubNames) /\ h.left # <<>> /\ h.todo # <<>>
        /\ h.todo \in Seq(Codes)
    BY <1>2, <2>5 DEF Placed, Handler
  <2>7. Range(h.left) = {Head(h.left)} \cup Range(Tail(h.left))
        /\ Range(h.todo) = {code} \cup Range(Tail(h.todo))
    BY <2>1, <2>6, RangeSplits
  <2>8. PICK l : l = [h EXCEPT !.left = Tail(@)]
    OBVIOUS
  <2>9. PICK g : g = IF l.left = <<>> THEN After(l) ELSE l
    OBVIOUS
  <2>10. handler' = [handler EXCEPT ![r] = g]
    BY <1>1, <1>10, <2>8, <2>9 DEF SaveSubmodule, Becomes
  <2>11. /\ l \in Handler /\ l.todo # <<>> /\ l.task # "work"
         /\ (l.task = "career" => l.todo = <<l.body.module>>)
         /\ l.todo = h.todo /\ l.task = "change" /\ l.year = h.year
         /\ l.left = Tail(h.left) /\ l.at = "sub"
    BY <1>1, <1>2, <1>10, <2>8, LeftTyped
  <2>12. CASE l.left # <<>>
    <3>1. g = l
      BY <2>9, <2>12
    <3>2. Preparing(r, g)'
      BY <1>2, <1>3, <2>4, <2>5, <2>11, <3>1 DEF Preparing
    <3> QED
      BY <1>5, <2>10, <3>2
  <2>13. CASE l.left = <<>>
    <3>1. Range(Tail(h.left)) = {}
      BY <2>11, <2>13, RangeOfFew
    <3>2. Made(r, code, h.year)'
      BY <2>3, <2>7, <3>1 DEF Made, MineOf
    <3>3. \A c \in OfCareers \cup Range(Fixed) :
            c \in Range(Tail(h.todo)) \/ Made(r, c, h.year)'
      BY <1>2, <2>4, <2>5, <2>7, <3>2 DEF Preparing
    <3>4. g = After(l)
      BY <2>9, <2>13
    <3>5. g = Idle \/ /\ g.at \in {"check", "folder", "set", "templates"}
                      /\ g.year = h.year
                      /\ g.at = "check" => g.todo = Tail(h.todo)
                      /\ g.at = "set" => Tail(h.todo) = <<>>
      BY <2>11, <3>4, AfterPlaced
    <3>6. g # Idle
      <4>1. handler'[r] = g
        BY <1>4, <2>10
      <4> QED
        BY <4>1 DEF Free
    <3>7. Preparing(r, g)'
      <4>1. g.at = "set" => \A c \in OfCareers \cup Range(Fixed) :
                              Made(r, c, h.year)'
        BY <3>3, <3>5, <3>6, RangeOfFew
      <4> QED
        BY <1>3, <3>3, <3>5, <3>6, <4>1 DEF Preparing
    <3> QED
      BY <1>5, <2>10, <3>7
  <2> QED
    BY <2>12, <2>13
<1>11. CASE Validate(r)
  <2>1. PICK rest, errors, place :
          /\ handler' = [handler EXCEPT ![r].left = rest, ![r].errors = errors,
                                        ![r].at = place]
          /\ place \in {"validate", "list", "end"}
    BY <1>11 DEF Validate
  <2>2. PICK g : g = [h EXCEPT !.left = rest, !.errors = errors, !.at = place]
    OBVIOUS
  <2>3. handler' = [handler EXCEPT ![r] = g]
    BY <1>1, <2>1, <2>2
  <2>4. g.at = place
    BY <1>2, <2>2 DEF Handler
  <2> QED
    BY <1>6, <2>1, <2>3, <2>4
<1>12. CASE ListModules(r) /\ ~Fails(r)
  <2>1. PICK order \in SetToSeqs(OfCareers) :
          handler' = [handler EXCEPT ![r].todo = order \o Fixed,
                                     ![r].at = "check"]
    BY <1>12 DEF ListModules
  <2>2. PICK todo : todo = order \o Fixed
    OBVIOUS
  <2>3. Range(todo) = OfCareers \cup Range(Fixed)
    BY <2>2, ListTyped DEF YearInv
  <2>4. PICK g : g = [h EXCEPT !.todo = todo, !.at = "check"]
    OBVIOUS
  <2>5. handler' = [handler EXCEPT ![r] = g]
    BY <1>1, <2>1, <2>2, <2>4
  <2>6. g.at = "check" /\ g.todo = todo
    BY <1>2, <2>4 DEF Handler
  <2>7. Preparing(r, g)'
    BY <1>3, <2>3, <2>6 DEF Preparing
  <2> QED
    BY <1>5, <2>5, <2>7
<1>13. CASE SetYear(r) /\ ~Fails(r)
  <2>1. PICK g : g = [h EXCEPT !.at = "end"]
    OBVIOUS
  <2>2. handler' = [handler EXCEPT ![r] = g]
    BY <1>1, <1>13, <2>1 DEF SetYear, Goes
  <2>3. g.at = "end"
    BY <1>2, <2>1, GoesOn
  <2> QED
    BY <1>6, <2>2, <2>3
<1>14. ~(Ends(r))
  BY <1>4 DEF Ends, Becomes, Free
<1>15. ~(SaveCareer(r) \/ SaveModule(r) \/ SetFolder(r) \/ CopyTemplates(r)
         \/ Answer(r) \/ SaveWork(r))
  BY <1>1, <1>2 DEF SaveCareer, SaveModule, SetFolder, CopyTemplates, Answer,
     SaveWork, Doing, Placed
<1>16. CASE CheckYearModule(r) /\ ~Fails(r)
  BY <1>1, <1>8, <1>16 DEF CheckYearModule, Doing
<1> QED
  BY <1>7, <1>9, <1>10, <1>11, <1>12, <1>13, <1>14, <1>15, <1>16
  DEF Continue, DriveRefuses, EndChange

(* Where careers and modules wait, no step disturbs what a change prepares.  *)
LEMMA PreparingStep ==
  ASSUME {"career", "module"} \subseteq Patient, YearInv, AloneInv,
         PreparingInv, [SystemYearNext]_systemYearVars
  PROVE  PreparingInv'
<1> SUFFICES ASSUME NEW s \in Requests, ~Free(s)'
             PROVE  Preparing(s, handler[s])'
  BY DEF PreparingInv
<1>1. \A q \in Requests : q \in DOMAIN handler
  BY DEF YearInv, SystemYearTypeOK
<1>2. ASSUME handler'[s] = handler[s],
             UNCHANGED OfCareers, UNCHANGED yearModules
      PROVE  Preparing(s, handler[s])'
  <2>1. Preparing(s, handler[s])
    BY <1>2 DEF PreparingInv, Free
  <2>2. \A code, year : Made(s, code, year)' <=> Made(s, code, year)
    BY <1>2 DEF Made, MineOf
  <2> QED
    BY <1>2, <2>1, <2>2 DEF Preparing
<1>3. UNCHANGED <<careers, modules>> => UNCHANGED OfCareers
  BY SameCareers DEF YearInv
<1>4. ASSUME NEW r \in Requests, NEW g, Begins(r, g)
      PROVE  Preparing(s, handler[s])'
  <2>1. CASE s = r
    <3>1. handler'[s] = g
      BY <1>1, <1>4, <2>1 DEF Begins
    <3> QED
      BY <1>4, <3>1 DEF Begins, Preparing
  <2>2. CASE s # r
    <3>1. handler'[s] = handler[s]
      BY <1>1, <1>4, <2>2 DEF Begins
    <3> QED
      BY <1>2, <1>3, <1>4, <3>1 DEF Begins
  <2> QED
    BY <2>1, <2>2
<1>5. ASSUME NEW r \in Requests, NEW g, GoesOnOrEnds(r, g),
             Continue(r) \/ DriveRefuses(r)
      PROVE  Preparing(s, handler[s])'
  <2>1. ~Free(r) /\ ~Free(s)
    BY <1>1, <1>5 DEF GoesOnOrEnds, Free
  <2>2. CASE s = r
    <3>1. handler'[s] = g /\ g.task = handler[r].task
      BY <1>1, <1>5, <2>2 DEF GoesOnOrEnds, Free
    <3>2. CASE g.task # "change"
      BY <3>1, <3>2 DEF Preparing
    <3>3. CASE g.task = "change"
      BY <1>5, <2>1, <2>2, <3>1, <3>3, ChangePrepares DEF PreparingInv
    <3> QED
      BY <3>2, <3>3
  <2>3. CASE s # r
    <3>1. handler'[s] = handler[s]
      BY <1>1, <1>5, <2>3 DEF GoesOnOrEnds
    <3>2. CASE handler[s].task # "change"
      BY <3>1, <3>2 DEF Preparing
    <3>3. CASE handler[s].task = "change"
      <4>1. handler[r].task \notin {"career", "module"}
        BY <2>1, <2>3 DEF AloneInv
      <4>2. LeavesPrepared(r)
        BY <1>5, <4>1, OthersLeavePrepared
      <4>3. PICK h : h = handler[s]
        OBVIOUS
      <4>4. Preparing(s, h)
        BY <2>1, <4>3 DEF PreparingInv
      <4>5. Preparing(s, h)'
        BY <2>3, <4>2, <4>4, StaysPrepared
      <4> QED
        BY <3>1, <4>3, <4>5 DEF Preparing
    <3> QED
      BY <3>2, <3>3
  <2> QED
    BY <2>2, <2>3
<1>6. ASSUME NEW c \in careers, NEW new \in Updates, UpdateCareer(c, new)
      PROVE  Preparing(s, handler[s])'
  <2>1. Free(s)'
    BY <1>6 DEF UpdateCareer, Free
  <2> QED
    BY <2>1
<1>7. CASE UNCHANGED <<handler, careers, modules, yearModules>>
  BY <1>2, <1>3, <1>7
<1>8. CASE Stop
  BY <1>8 DEF Stop, Free
<1> QED
  BY <1>4, <1>5, <1>6, <1>7, <1>8, WhoseStep DEF CloseWork, systemYearVars

(* Where careers and modules are not changed while a year is, the year never *)
(* begins without what its councils and certificates look for.               *)
THEOREM TheYearIsPrepared ==
  ASSUME {"career", "module"} \subseteq Patient
  PROVE  SystemYearSpec => YearPrepared
<1> DEFINE Inv == YearInv /\ AloneInv /\ PreparingInv
           Prepared ==
             systemYears' # systemYears =>
               /\ \A c \in careers :
                    c.active /\ c.upper /\ modules[c.module] # "absent" =>
                      HasYear(c.module, Max(systemYears'))
               /\ \A code \in Range(Fixed) : HasYear(code, Max(systemYears'))
<1>1. SystemYearInit => Inv
  <2>1. SystemYearInit => AloneInv /\ PreparingInv
    BY DEF SystemYearInit, AloneInv, PreparingInv, Free
  <2> QED
    BY <2>1, InitHolds
<1>2. Inv /\ [SystemYearNext]_systemYearVars => Inv'
  BY StepHolds, AloneStep, PreparingStep
<1>3. Inv /\ [SystemYearNext]_systemYearVars => [Prepared]_systemYearVars
  <2> SUFFICES ASSUME Inv, [SystemYearNext]_systemYearVars,
                      systemYears' # systemYears
               PROVE  Prepared
    OBVIOUS
  <2>1. PICK r \in Requests : SetYear(r)
    BY YearChanges
  <2>2. PICK year : year = Max(systemYears')
    OBVIOUS
  <2>3. /\ handler[r].year = year /\ ~Free(r)
        /\ handler[r].task = "change" /\ handler[r].at = "set"
    BY <2>1, <2>2, NewYear
  <2>4. \A code \in OfCareers \cup Range(Fixed) : Made(r, code, year)
    BY <2>3 DEF PreparingInv, Preparing
  <2>5. \A code : Made(r, code, year) => HasYear(code, year)
    BY DEF Made, MineOf, HasYear, YearModulesOf
  <2>6. \A c \in careers :
          c.active /\ c.upper /\ modules[c.module] # "absent" =>
            c.module \in OfCareers
    BY DEF OfCareers, Active
  <2> QED
    BY <2>2, <2>4, <2>5, <2>6
<1> QED
  BY <1>1, <1>2, <1>3, PTL DEF SystemYearSpec, YearPrepared
========================================

--------------------------- MODULE RecopilationProofs --------------------------
(***************************************************************************)
(* What holds of Recopilation for any councils, documents and failures,    *)
(* when recopilations begin one after another.  Of a council at work every *)
(* document is prepared or about to be, by one task of its own             *)
(* (PreparedInv, ReachedInv), and nothing else lies in the directory       *)
(* (OwnInv); the names of what is merged are then the documents in their   *)
(* order, each after its separator.                                        *)
(***************************************************************************)
EXTENDS Recopilation, TLAPS, FiniteSetTheorems, SequenceTheorems,
        WellFoundedInduction

-------------------------------------------------------------------------------
(***************************************************************************)
(* Sets of numbers.                                                        *)
(***************************************************************************)

(* Every set of numbers has a least one.                                     *)
LEMMA LeastOf ==
  ASSUME NEW T \in SUBSET Nat, T # {}
  PROVE  \E x \in T : \A y \in T : x <= y
<1> DEFINE R == OpToRel(<, Nat)
<1>1. IsWellFoundedOn(R, Nat)
  BY NatLessThanWellFounded
<1>2. PICK x \in T : \A y \in T : ~ (<<y, x>> \in R)
  <2> HIDE DEF R
  <2> QED
    BY <1>1, WFMin
<1>3. \A y \in T : ~ (y < x)
  BY <1>2 DEF OpToRel
<1> QED
  BY <1>3

-------------------------------------------------------------------------------
(***************************************************************************)
(* Lists of numbers that grow.                                             *)
(***************************************************************************)

Increasing(s) == \A i, j \in DOMAIN s : i < j => s[i] < s[j]

(* A finite set of numbers has a list in which they grow: if one had none,    *)
(* the smallest such set would be one that lacks its least element.          *)
LEMMA Enumerated ==
  ASSUME NEW S \in SUBSET Nat, IsFiniteSet(S)
  PROVE  \E s \in [1 .. Cardinality(S) -> S] : Increasing(s)
<1> DEFINE Listed(T, n) == \E s \in [1 .. n -> T] : Increasing(s)
           Bad == {n \in Nat : \E T \in SUBSET Nat :
                     IsFiniteSet(T) /\ Cardinality(T) = n /\ ~ Listed(T, n)}
<1>1. SUFFICES ASSUME Bad # {} PROVE FALSE
  <2>1. Cardinality(S) \in Nat
    BY FS_CardinalityType
  <2> QED
    BY <2>1
<1>2. PICK n \in Bad : \A m \in Bad : n <= m
  <2>1. Bad \in SUBSET Nat
    OBVIOUS
  <2> HIDE DEF Bad
  <2> QED
    BY <1>1, <2>1, LeastOf
<1>3. PICK T \in SUBSET Nat : IsFiniteSet(T) /\ Cardinality(T) = n /\ ~ Listed(T, n)
  BY <1>2
<1>4. n \in Nat
  BY <1>2
<1>5. CASE n = 0
  <2>1. [i \in 1 .. 0 |-> i] \in [1 .. n -> T]
    BY <1>5
  <2>2. Increasing([i \in 1 .. 0 |-> i])
    BY DEF Increasing
  <2> QED
    BY <2>1, <2>2, <1>3
<1>6. CASE n # 0
  <2>1. T # {}
    BY <1>6, <1>3, FS_EmptySet
  <2>2. PICK m \in T : \A y \in T : m <= y
    BY <2>1, LeastOf
  <2> DEFINE U == T \ {m}
  <2>3. IsFiniteSet(U) /\ Cardinality(U) = n - 1
    BY <1>3, <2>2, FS_RemoveElement
  <2>4. n - 1 \in Nat /\ n - 1 \notin Bad
    BY <1>2, <1>4, <1>6
  <2>5. PICK e \in [1 .. n - 1 -> U] : Increasing(e)
    BY <2>3, <2>4
  <2> DEFINE s == [i \in 1 .. n |-> IF i = 1 THEN m ELSE e[i - 1]]
  <2>6. s \in [1 .. n -> T]
    <3>1. ASSUME NEW i \in 1 .. n, i # 1 PROVE e[i - 1] \in T
      <4>1. i - 1 \in 1 .. n - 1
        BY <3>1, <1>4
      <4> QED
        BY <4>1, <2>5
    <3> QED
      BY <3>1, <2>2
  <2>7. ASSUME NEW i \in 1 .. n, NEW j \in 1 .. n, i < j PROVE s[i] < s[j]
    <3>1. j - 1 \in 1 .. n - 1 /\ j # 1
      BY <2>7, <1>4
    <3>2. e[j - 1] \in T /\ e[j - 1] # m /\ s[j] = e[j - 1]
      BY <3>1, <2>5
    <3>3. CASE i = 1
      <4>1. m <= e[j - 1] /\ m \in Nat /\ e[j - 1] \in Nat
        BY <2>2, <3>2
      <4> QED
        BY <4>1, <3>2, <3>3
    <3>4. CASE i # 1
      <4>1. i - 1 \in 1 .. n - 1 /\ i - 1 < j - 1
        BY <2>7, <3>4, <1>4
      <4> QED
        BY <4>1, <3>1, <3>2, <3>4, <2>5 DEF Increasing
    <3> QED
      BY <3>3, <3>4
  <2>8. Increasing(s)
    BY <2>6, <2>7 DEF Increasing
  <2> HIDE DEF s
  <2> QED
    BY <2>6, <2>8, <1>3
<1> QED
  BY <1>5, <1>6

(* The list that Sorted is.                                                  *)
LEMMA SortedIs ==
  ASSUME NEW S \in SUBSET Nat, IsFiniteSet(S)
  PROVE  /\ Sorted(S) \in [1 .. Cardinality(S) -> S]
         /\ Increasing(Sorted(S))
         /\ Cardinality(S) \in Nat
<1>1. \E s \in [1 .. Cardinality(S) -> S] :
         \A i, j \in DOMAIN s : i < j => s[i] < s[j]
  BY Enumerated DEF Increasing
<1> QED
  BY <1>1, FS_CardinalityType DEF Sorted, Increasing

-------------------------------------------------------------------------------
(***************************************************************************)
(* The invariant.                                                          *)
(***************************************************************************)

(* A handler that has answered is as it was in the beginning.                *)
RestInv == \A c \in Councils : handler[c].at = "idle" => handler[c] = Idle

(* Only one council is at work, its preparations counted.                    *)
AloneInv == \A c, other \in Councils : Busy(c) /\ Busy(other) => c = other

(* A document is prepared by one task, while its handler awaits it or has    *)
(* answered that another one failed.                                         *)
TasksInv ==
  /\ \A t, u \in tasks : t.doc = u.doc => t = u
  /\ \A t \in tasks : handler[CouncilOf[t.doc]].at \in {"idle", "prepare"}

(* One file of a name; and files, tasks and handlers are about documents of  *)
(* the council that are there.                                               *)
FilesInv ==
  /\ \A c \in Councils : \A f, g \in temp[c] :
       f.doc = g.doc /\ f.kind = g.kind => f = g
  /\ \A c \in Councils : \A f \in temp[c] : f.doc \in DocumentsOf(c)
  /\ \A t \in tasks : t.doc \in documents
  /\ \A c \in Councils : handler[c].docs \subseteq DocumentsOf(c)

(* What a recopilation that is under way finds or prepares is of its own     *)
(* documents.                                                                *)
OwnInv ==
  \A c \in Councils : handler[c].at # "idle" =>
    /\ \A f \in temp[c] : f.doc \in handler[c].docs
    /\ \A t \in TasksOf(c) : t.doc \in handler[c].docs

Ready(c, d, kind) ==
  \E f \in temp[c] : f.doc = d /\ f.kind = kind /\ f.state = "ready"

(* How far the preparation t has come.                                       *)
Reached(t) ==
  /\ t.at = "zip" => t.doc \in extracted
  /\ t.at \in {"copy", "replace"} => Ready(CouncilOf[t.doc], t.doc, "document")

ReachedInv == \A t \in tasks : Reached(t)

Prepared(c, d) ==
  \/ \E t \in tasks : t.doc = d
  \/ Ready(c, d, "document") /\ Ready(c, d, "separator")

Merging == {"append", "write", "rename"}

(* Each document of a handler that awaits or merges them is prepared, or on   *)
(* its way.                                                                   *)
PreparedInv ==
  \A c \in Councils : handler[c].at \in {"prepare"} \cup Merging =>
    \A d \in handler[c].docs : Prepared(c, d)

(* The zip of a merge has the first parts of the directory, and all of them   *)
(* when it is written; the draft that is renamed is its own.                  *)
MergingInv ==
  \A c \in Councils :
    /\ handler[c].at = "append" =>
         \A i \in DOMAIN merging[c] : merging[c][i] = Parts(c)[i]
    /\ handler[c].at = "write" => merging[c] = Parts(c)
    /\ handler[c].at = "rename" => draft = Parts(c)

OrderInv ==
  /\ RestInv /\ AloneInv /\ TasksInv /\ FilesInv /\ OwnInv
  /\ ReachedInv /\ PreparedInv /\ MergingInv /\ MergedInOrder

(* In an instance where recopilations begin one after another.               *)
LEMMA OrderInit ==
  ASSUME RecopilationInit
  PROVE  RecopilationTypeOK /\ OrderInv
<1>1. Idle \in Handler /\ Idle.at = "idle" /\ Idle.docs = {}
  BY DEF Idle, Handler
<1>2. <<>> \in Merged
  BY DEF Merged
<1>3. RecopilationTypeOK
  BY <1>1, <1>2 DEF RecopilationInit, RecopilationTypeOK
<1>4. \A c \in Councils : ~ Busy(c)
  BY DEF RecopilationInit, Busy, TasksOf
<1>5. /\ RestInv /\ AloneInv /\ TasksInv /\ FilesInv /\ OwnInv
      /\ ReachedInv /\ PreparedInv /\ MergingInv
  BY <1>1, <1>4 DEF RecopilationInit, RestInv, AloneInv, TasksInv, FilesInv, OwnInv,
     ReachedInv, PreparedInv, MergingInv, Merging
<1>6. MergedInOrder
  BY <1>1 DEF RecopilationInit, MergedInOrder, InOrder
<1> QED
  BY <1>3, <1>5, <1>6 DEF OrderInv

-------------------------------------------------------------------------------
(***************************************************************************)
(* The preparation of a document.                                          *)
(***************************************************************************)

(* The council's directory changes in the files of the task's document only. *)
Touches(t) ==
  LET c == CouncilOf[t.doc] IN
  /\ temp' \in [Councils -> SUBSET File]
  /\ \A other \in Councils : other # c => temp'[other] = temp[other]
  /\ \A f \in temp'[c] : f.doc = t.doc \/ f \in temp[c]
  /\ \A f \in temp[c] : f.doc = t.doc \/ f \in temp'[c]
  /\ \A f, g \in temp'[c] : f.doc = g.doc /\ f.kind = g.kind => f = g

LEMMA TaskTyped ==
  ASSUME RecopilationTypeOK, NEW t \in tasks
  PROVE  t \in Task /\ t.doc \in Docs /\ CouncilOf[t.doc] \in Councils
<1>1. t \in Task
  BY DEF RecopilationTypeOK
<1>2. t.doc \in Docs
  BY <1>1 DEF Task
<1>3. CouncilOf \in [Docs -> Councils]
  BY RecopilationAssumption
<1> QED
  BY <1>1, <1>2, <1>3

LEMMA TouchesNothing ==
  ASSUME RecopilationTypeOK, OrderInv, NEW t \in tasks, UNCHANGED temp
  PROVE  Touches(t)
BY TaskTyped DEF RecopilationTypeOK, OrderInv, FilesInv, Touches

LEMMA Writes ==
  ASSUME RecopilationTypeOK, OrderInv, NEW t \in tasks, NEW file \in File,
         file.doc = t.doc, Written(CouncilOf[t.doc], file)
  PROVE  /\ Touches(t)
         /\ file \in temp'[CouncilOf[t.doc]]
         /\ \A f \in temp[CouncilOf[t.doc]] :
              f.kind # file.kind => f \in temp'[CouncilOf[t.doc]]
<1> DEFINE c == CouncilOf[t.doc]
           stay == {f \in temp[c] : f.doc # file.doc \/ f.kind # file.kind}
<1>1. c \in Councils
  BY TaskTyped
<1>2. temp \in [Councils -> SUBSET File]
  BY DEF RecopilationTypeOK
<1>3. temp' = [temp EXCEPT ![c] = stay \cup {file}]
  BY DEF Written
<1>4. temp'[c] = stay \cup {file} /\ \A other \in Councils : other # c => temp'[other] = temp[other]
  BY <1>1, <1>2, <1>3
<1>5. stay \subseteq temp[c] /\ stay \subseteq File
  BY <1>1, <1>2
<1>6. temp' \in [Councils -> SUBSET File]
  BY <1>2, <1>3, <1>5
<1>7. \A f, g \in temp[c] : f.doc = g.doc /\ f.kind = g.kind => f = g
  BY <1>1 DEF OrderInv, FilesInv
<1>8. \A f, g \in temp'[c] : f.doc = g.doc /\ f.kind = g.kind => f = g
  BY <1>4, <1>7
<1> QED
  BY <1>4, <1>6, <1>8 DEF Touches

(* Whoever is at work is at work as before.                                  *)
LEMMA SameBusy ==
  ASSUME RecopilationTypeOK, NEW t \in tasks, NEW u \in Task, u.doc = t.doc,
         tasks' = (tasks \ {t}) \cup {u}, UNCHANGED handler
  PROVE  \A c \in Councils : Busy(c)' <=> Busy(c)
BY DEF Busy, TasksOf

(* Nothing but the council at work has tasks.                                *)
LEMMA AtWork ==
  ASSUME RecopilationTypeOK, OrderInv, NEW c \in Councils, handler[c].at # "idle"
  PROVE  tasks = TasksOf(c)
<1>1. Busy(c)
  BY DEF Busy, Idle
<1>2. ASSUME NEW t \in tasks PROVE t \in TasksOf(c)
  <2>1. CouncilOf[t.doc] \in Councils /\ t \in TasksOf(CouncilOf[t.doc])
    BY TaskTyped DEF TasksOf
  <2>2. Busy(CouncilOf[t.doc])
    BY <2>1 DEF Busy
  <2> QED
    BY <1>1, <2>1, <2>2 DEF OrderInv, AloneInv
<1> QED
  BY <1>2 DEF TasksOf

(* While one council is at work no other handler is.                         *)
LEMMA OnlyOne ==
  ASSUME OrderInv, NEW c \in Councils, handler[c].at # "idle",
         NEW other \in Councils, other # c
  PROVE  handler[other].at = "idle"
BY DEF OrderInv, AloneInv, Busy, Idle

(* While a document is being prepared nobody merges.                         *)
LEMMA NobodyMerges ==
  ASSUME RecopilationTypeOK, OrderInv, NEW t \in tasks, NEW c \in Councils
  PROVE  handler[c].at \notin Merging
<1>1. SUFFICES ASSUME handler[c].at \in Merging PROVE FALSE
  OBVIOUS
<1>2. tasks = TasksOf(c)
  BY <1>1, AtWork DEF Merging
<1> QED
  BY <1>1, <1>2 DEF OrderInv, TasksInv, TasksOf, Merging

LEMMA GoesOn ==
  ASSUME RecopilationTypeOK, OrderInv, NEW t \in tasks, NEW u \in Task,
         u.doc = t.doc, tasks' = (tasks \ {t}) \cup {u},
         UNCHANGED <<documents, handler, merging, draft, merged, processed>>,
         extracted \subseteq extracted', extracted' \subseteq Docs,
         Touches(t), Reached(u)'
  PROVE  RecopilationTypeOK' /\ OrderInv'
<1> DEFINE c == CouncilOf[t.doc]
<1>1. c \in Councils /\ t.doc \in Docs
  BY TaskTyped
<1>2. RecopilationTypeOK'
  BY DEF RecopilationTypeOK, Touches
<1>3. RestInv' /\ AloneInv'
  BY SameBusy DEF OrderInv, RestInv, AloneInv
<1>4. \A v \in tasks' : v = u \/ (v \in tasks /\ v.doc # t.doc)
  BY DEF OrderInv, TasksInv
<1>5. TasksInv'
  BY <1>4 DEF OrderInv, TasksInv
<1>6. t.doc \in DocumentsOf(c)
  BY <1>1 DEF OrderInv, FilesInv, DocumentsOf, RecopilationTypeOK
<1>7. \A e \in Councils : \A f \in temp'[e] : f.doc \in DocumentsOf(e)
  BY <1>1, <1>6 DEF OrderInv, FilesInv, Touches
<1>8. FilesInv'
  <2>1. \A e \in Councils : \A f, g \in temp'[e] :
          f.doc = g.doc /\ f.kind = g.kind => f = g
    BY DEF OrderInv, FilesInv, Touches
  <2>2. \A v \in tasks' : v.doc \in documents
    BY <1>4, <1>6 DEF DocumentsOf, OrderInv, FilesInv
  <2> QED
    BY <1>7, <2>1, <2>2 DEF OrderInv, FilesInv, DocumentsOf
<1>9. t \in TasksOf(c)
  BY DEF TasksOf
<1>10. OwnInv'
  <2>1. ASSUME NEW e \in Councils, handler[e].at # "idle"
        PROVE  /\ \A f \in temp'[e] : f.doc \in handler[e].docs
               /\ \A v \in TasksOf(e)' : v.doc \in handler[e].docs
    <3>1. \A v \in TasksOf(e)' : v.doc \in handler[e].docs
      BY <1>4, <1>9, <2>1 DEF OrderInv, OwnInv, TasksOf
    <3>2. \A f \in temp'[e] : f.doc \in handler[e].docs
      BY <1>9, <2>1 DEF OrderInv, OwnInv, Touches
    <3> QED
      BY <3>1, <3>2
  <2> QED
    BY <2>1 DEF OwnInv
<1>11. \A b, d, kind : b \in Councils /\ d # t.doc /\ Ready(b, d, kind)
                      => Ready(b, d, kind)'
  BY <1>1 DEF Ready, Touches
<1>12. ReachedInv'
  <2>1. ASSUME NEW v \in tasks, v.doc # t.doc PROVE Reached(v)'
    <3>1. CouncilOf[v.doc] \in Councils /\ Reached(v)
      BY TaskTyped DEF OrderInv, ReachedInv
    <3> QED
      BY <1>11, <2>1, <3>1 DEF Reached
  <2> QED
    BY <1>4, <2>1 DEF ReachedInv
<1>13. PreparedInv'
  <2>1. ASSUME NEW e \in Councils, handler[e].at \in {"prepare"} \cup Merging,
               NEW d \in handler[e].docs
        PROVE  Prepared(e, d)'
    <3>1. Prepared(e, d)
      BY <2>1 DEF OrderInv, PreparedInv
    <3>2. CASE d = t.doc
      BY <3>2 DEF Prepared
    <3>3. CASE d # t.doc
      BY <1>11, <3>1, <3>3 DEF Prepared
    <3> QED
      BY <3>2, <3>3
  <2> QED
    BY <2>1 DEF PreparedInv
<1>14. MergedInOrder'
  BY DEF OrderInv, MergedInOrder
<1>15. MergingInv'
  BY NobodyMerges DEF MergingInv, Merging
<1> QED
  BY <1>2, <1>3, <1>5, <1>8, <1>10, <1>12, <1>13, <1>14, <1>15 DEF OrderInv

(* A task ends: its document is ready, or nobody waits for it any more.      *)
LEMMA Ends ==
  ASSUME RecopilationTypeOK, OrderInv, NEW t \in tasks, tasks' = tasks \ {t},
         UNCHANGED <<documents, extracted, merging, draft, merged, processed>>,
         Touches(t), NEW c, c = CouncilOf[t.doc],
         \/ UNCHANGED handler /\ Prepared(c, t.doc)'
         \/ handler' = [handler EXCEPT ![c] = Idle]
  PROVE  RecopilationTypeOK' /\ OrderInv'
<1>1. c \in Councils /\ t.doc \in Docs
  BY TaskTyped
<1>2. Idle \in Handler /\ Idle.at = "idle" /\ Idle.docs = {}
  BY DEF Idle, Handler
<1>3. /\ handler' \in [Councils -> Handler]
      /\ \A e \in Councils : handler'[e] = handler[e] \/ handler'[e] = Idle
      /\ handler'[c].at = "prepare" => Prepared(c, t.doc)'
      /\ \A e \in Councils : e # c => handler'[e] = handler[e]
  BY <1>1, <1>2 DEF RecopilationTypeOK
<1>4. RecopilationTypeOK'
  BY <1>3 DEF RecopilationTypeOK, Touches
<1>5. RestInv'
  BY <1>3 DEF OrderInv, RestInv
<1>6. \A e \in Councils : Busy(e)' => Busy(e)
  BY <1>3 DEF Busy, TasksOf
<1>7. AloneInv'
  BY <1>6 DEF OrderInv, AloneInv
<1>8. TasksInv'
  <2>1. \A v \in tasks : CouncilOf[v.doc] \in Councils
    BY TaskTyped
  <2> QED
    BY <1>2, <1>3, <2>1 DEF OrderInv, TasksInv
<1>9. t.doc \in DocumentsOf(c)
  BY <1>1 DEF OrderInv, FilesInv, DocumentsOf, RecopilationTypeOK
<1>10. FilesInv'
  <2>1. \A e \in Councils : \A f, g \in temp'[e] :
          f.doc = g.doc /\ f.kind = g.kind => f = g
    BY DEF OrderInv, FilesInv, Touches
  <2>2. \A e \in Councils : \A f \in temp'[e] : f.doc \in DocumentsOf(e)
    BY <1>1, <1>9 DEF OrderInv, FilesInv, Touches
  <2>3. \A e \in Councils : handler'[e].docs \subseteq DocumentsOf(e)
    BY <1>2, <1>3 DEF OrderInv, FilesInv
  <2> QED
    BY <2>1, <2>2, <2>3 DEF OrderInv, FilesInv, DocumentsOf
<1>11. t \in TasksOf(c)
  BY DEF TasksOf
<1>12. OwnInv'
  <2>1. ASSUME NEW e \in Councils, handler'[e].at # "idle"
        PROVE  /\ \A f \in temp'[e] : f.doc \in handler'[e].docs
               /\ \A v \in TasksOf(e)' : v.doc \in handler'[e].docs
    <3>1. handler'[e] = handler[e]
      BY <1>2, <1>3, <2>1
    <3>2. \A v \in TasksOf(e)' : v.doc \in handler[e].docs
      BY <2>1, <3>1 DEF OrderInv, OwnInv, TasksOf
    <3>3. \A f \in temp'[e] : f.doc \in handler[e].docs
      BY <1>11, <2>1, <3>1 DEF OrderInv, OwnInv, Touches
    <3> QED
      BY <3>1, <3>2, <3>3
  <2> QED
    BY <2>1 DEF OwnInv
<1>13. \A b, d, kind : b \in Councils /\ d # t.doc /\ Ready(b, d, kind)
                      => Ready(b, d, kind)'
  BY <1>1 DEF Ready, Touches
<1>14. ReachedInv'
  <2>1. ASSUME NEW v \in tasks, v.doc # t.doc PROVE Reached(v)'
    <3>1. CouncilOf[v.doc] \in Councils /\ Reached(v)
      BY TaskTyped DEF OrderInv, ReachedInv
    <3> QED
      BY <1>13, <2>1, <3>1 DEF Reached
  <2> QED
    BY <2>1 DEF OrderInv, TasksInv, ReachedInv
<1>15. PreparedInv'
  <2>1. ASSUME NEW e \in Councils, handler'[e].at \in {"prepare"} \cup Merging,
               NEW d \in handler'[e].docs
        PROVE  Prepared(e, d)'
    <3>1. handler'[e] = handler[e] /\ handler'[e].at = "prepare"
      BY <1>2, <1>3, <2>1, NobodyMerges DEF Merging
    <3>2. d \in DocumentsOf(e) /\ Prepared(e, d)
      BY <2>1, <3>1 DEF OrderInv, FilesInv, PreparedInv
    <3>3. CASE d = t.doc
      <4>1. e = c
        BY <3>2, <3>3 DEF DocumentsOf
      <4> QED
        BY <1>3, <3>1, <3>3, <4>1
    <3>4. CASE d # t.doc
      BY <1>13, <3>2, <3>4 DEF Prepared
    <3> QED
      BY <3>3, <3>4
  <2> QED
    BY <2>1 DEF PreparedInv
<1>16. MergedInOrder'
  BY <1>2, <1>3 DEF OrderInv, MergedInOrder
<1>17. MergingInv'
  BY <1>2, <1>3, NobodyMerges DEF MergingInv, Merging
<1> QED
  BY <1>4, <1>5, <1>7, <1>8, <1>10, <1>12, <1>14, <1>15, <1>16, <1>17 DEF OrderInv

LEMMA RunStep ==
  ASSUME RecopilationTypeOK, OrderInv, NEW t \in tasks, Run(t)
  PROVE  RecopilationTypeOK' /\ OrderInv'
<1> DEFINE c == CouncilOf[t.doc]
<1>1. t \in Task /\ t.doc \in Docs /\ c \in Councils
  BY TaskTyped
<1>2. \A to \in {"download", "extract", "read", "zip", "copy", "replace"} :
        [t EXCEPT !.at = to] \in Task /\ [t EXCEPT !.at = to].doc = t.doc
        /\ [t EXCEPT !.at = to].at = to
  BY <1>1 DEF Task
<1>3. ASSUME Fail(t), UNCHANGED <<documents, temp, extracted, merging, draft, merged,
                                   processed>>
      PROVE  RecopilationTypeOK' /\ OrderInv'
  BY <1>3, TouchesNothing, Ends DEF Fail
<1>4. ASSUME NEW to \in {"extract", "read"}, Continue(t, to), Touches(t),
             UNCHANGED <<documents, handler, merging, draft, merged, processed>>,
             extracted \subseteq extracted', extracted' \subseteq Docs
      PROVE  RecopilationTypeOK' /\ OrderInv'
  <2> DEFINE u == [t EXCEPT !.at = to]
  <2>1. u \in Task /\ u.doc = t.doc /\ u.at = to
    BY <1>2
  <2>2. Reached(u)'
    BY <2>1 DEF Reached
  <2>3. tasks' = (tasks \ {t}) \cup {u}
    BY <1>4 DEF Continue
  <2> HIDE DEF u
  <2> QED
    BY <1>4, <2>1, <2>2, <2>3, GoesOn
<1>5. extracted \subseteq Docs
  BY DEF RecopilationTypeOK
<1>6. CASE Download(t)
  <2> DEFINE raw == [doc |-> t.doc, kind |-> "document", state |-> "raw"]
  <2>1. raw \in File /\ raw.doc = t.doc
    BY <1>1 DEF File
  <2> HIDE DEF raw
  <2>2. CASE Written(c, raw) /\ Continue(t, "extract") /\ UNCHANGED handler
    <3>1. Touches(t)
      BY <2>1, <2>2, Writes
    <3> QED
      BY <1>4, <1>5, <1>6, <2>2, <3>1 DEF mergeVars, Download
  <2> QED
    BY <1>3, <1>6, <2>2 DEF mergeVars, Download, raw
<1>7. CASE Extract(t)
  <2>1. Touches(t)
    BY <1>7, TouchesNothing DEF mergeVars, Extract
  <2>2. extracted \subseteq extracted' /\ extracted' \subseteq Docs
    BY <1>1, <1>5, <1>7 DEF mergeVars, Extract
  <2> QED
    BY <1>4, <1>7, <2>1, <2>2 DEF mergeVars, Extract
<1>8. CASE ReadText(t)
  <2>1. CASE t.doc \in extracted
    <3> DEFINE u == [t EXCEPT !.at = "zip"]
    <3>1. u \in Task /\ u.doc = t.doc /\ u.at = "zip"
      BY <1>2
    <3>2. Reached(u)'
      BY <1>8, <2>1, <3>1 DEF Reached, ReadText
    <3>3. tasks' = (tasks \ {t}) \cup {u}
      BY <1>8, <2>1 DEF mergeVars, ReadText, Continue
    <3>4. Touches(t)
      BY <1>8, TouchesNothing DEF mergeVars, ReadText
    <3> HIDE DEF u
    <3> QED
      BY <1>5, <1>8, <2>1, <3>1, <3>2, <3>3, <3>4, GoesOn DEF mergeVars, ReadText
  <2> QED
    BY <1>3, <1>8, <2>1 DEF mergeVars, ReadText
<1>9. CASE ZipText(t)
  <2> DEFINE text == [doc |-> t.doc, kind |-> "document", state |-> "ready"]
             u == [t EXCEPT !.at = "copy"]
  <2>1. text \in File /\ text.doc = t.doc /\ text.kind = "document"
        /\ text.state = "ready"
    BY <1>1 DEF File
  <2>2. u \in Task /\ u.doc = t.doc /\ u.at = "copy"
    BY <1>2
  <2>3. t.doc \in extracted
    BY <1>9 DEF mergeVars, ZipText, OrderInv, ReachedInv, Reached
  <2>4. Written(c, text) /\ tasks' = (tasks \ {t}) \cup {u}
    BY <1>9, <2>3 DEF mergeVars, ZipText, Continue
  <2> HIDE DEF text, u
  <2>5. Touches(t) /\ text \in temp'[c]
    BY <2>1, <2>4, Writes
  <2>6. Reached(u)'
    BY <2>1, <2>2, <2>5 DEF Reached, Ready
  <2> QED
    BY <1>5, <1>9, <2>2, <2>4, <2>5, <2>6, GoesOn DEF mergeVars, ZipText
<1>10. ASSUME t.at \in {"copy", "replace"}, NEW file \in File, file.doc = t.doc,
              file.kind = "separator", Written(c, file)
       PROVE  Touches(t) /\ file \in temp'[c] /\ Ready(c, t.doc, "document")'
  <2>1. PICK f \in temp[c] : f.doc = t.doc /\ f.kind = "document" /\ f.state = "ready"
    BY <1>10 DEF OrderInv, ReachedInv, Reached, Ready
  <2>2. /\ Touches(t) /\ file \in temp'[c]
        /\ \A g \in temp[c] : g.kind # file.kind => g \in temp'[c]
    BY <1>10, Writes
  <2>3. f \in temp'[c]
    BY <1>10, <2>1, <2>2
  <2> QED
    BY <2>1, <2>2, <2>3 DEF Ready
<1>11. CASE CopySeparator(t)
  <2> DEFINE raw == [doc |-> t.doc, kind |-> "separator", state |-> "raw"]
             u == [t EXCEPT !.at = "replace"]
  <2>1. raw \in File /\ raw.doc = t.doc /\ raw.kind = "separator"
    BY <1>1 DEF File
  <2>2. u \in Task /\ u.doc = t.doc /\ u.at = "replace"
    BY <1>2
  <2>3. Written(c, raw) /\ tasks' = (tasks \ {t}) \cup {u} /\ t.at = "copy"
    BY <1>11 DEF mergeVars, CopySeparator, Continue
  <2> HIDE DEF raw, u
  <2>4. Touches(t) /\ Ready(c, t.doc, "document")'
    BY <1>10, <2>1, <2>3
  <2>5. Reached(u)'
    BY <2>2, <2>4 DEF Reached
  <2> QED
    BY <1>5, <1>11, <2>2, <2>3, <2>4, <2>5, GoesOn DEF mergeVars, CopySeparator
<1>12. CASE ReplaceText(t)
  <2> DEFINE made == [doc |-> t.doc, kind |-> "separator", state |-> "ready"]
  <2>1. made \in File /\ made.doc = t.doc /\ made.kind = "separator"
        /\ made.state = "ready"
    BY <1>1 DEF File
  <2> HIDE DEF made
  <2>2. CASE Written(c, made) /\ tasks' = tasks \ {t} /\ UNCHANGED handler
    <3>1. Touches(t) /\ made \in temp'[c] /\ Ready(c, t.doc, "document")'
      BY <1>10, <1>12, <2>1, <2>2 DEF mergeVars, ReplaceText
    <3>2. Prepared(c, t.doc)'
      BY <2>1, <3>1 DEF Prepared, Ready
    <3> QED
      BY <1>12, <2>2, <3>1, <3>2, Ends DEF mergeVars, ReplaceText
  <2> QED
    BY <1>3, <1>12, <2>2 DEF mergeVars, ReplaceText, made
<1> QED
  BY <1>6, <1>7, <1>8, <1>9, <1>11, <1>12 DEF Run

-------------------------------------------------------------------------------
(***************************************************************************)
(* The handler of a council, and the documents.                            *)
(***************************************************************************)

(* Only the handler moves on, and is not awaiting preparations then.         *)
LEMMA Moves ==
  ASSUME RecopilationTypeOK, OrderInv, NEW c \in Councils,
         NEW h \in Handler, handler' = [handler EXCEPT ![c] = h],
         h.at # "prepare", h.at = "idle" => h = Idle, h.docs \subseteq handler[c].docs,
         h.at \in Merging =>
           handler[c].at \in {"prepare"} \cup Merging /\ UNCHANGED temp,
         handler[c].at # "idle",
         TasksOf(c) # {} => h.at = "idle",
         UNCHANGED <<documents, tasks>>, UNCHANGED extracted \/ tasks = {},
         \/ UNCHANGED temp
         \/ TasksOf(c) = {} /\ temp' = [temp EXCEPT ![c] = {}]
  PROVE  /\ handler' \in [Councils -> Handler]
         /\ RestInv' /\ AloneInv' /\ TasksInv' /\ FilesInv'
         /\ ReachedInv' /\ PreparedInv'
<1>1. \A e \in Councils : handler'[e] = IF e = c THEN h ELSE handler[e]
  BY DEF RecopilationTypeOK
<1>2. handler' \in [Councils -> Handler]
  BY DEF RecopilationTypeOK
<1>3. RestInv'
  BY <1>1 DEF OrderInv, RestInv
<1>4. \A e \in Councils : Busy(e)' => Busy(e)
  BY <1>1 DEF Busy, TasksOf, Idle
<1>5. AloneInv'
  BY <1>4 DEF OrderInv, AloneInv
<1>6. TasksInv'
  <2>1. \A t \in tasks : CouncilOf[t.doc] \in Councils
    BY TaskTyped
  <2>2. ASSUME NEW t \in tasks PROVE handler'[CouncilOf[t.doc]].at \in {"idle", "prepare"}
    BY <1>1, <2>1 DEF OrderInv, TasksInv, TasksOf
  <2> QED
    BY <2>2 DEF OrderInv, TasksInv
<1>7. \A e \in Councils :
        temp'[e] = temp[e] \/ (e = c /\ TasksOf(c) = {} /\ temp'[e] = {})
  BY DEF RecopilationTypeOK
<1>8. FilesInv'
  BY <1>1, <1>7 DEF OrderInv, FilesInv, DocumentsOf
<1>9. ReachedInv'
  <2>1. ASSUME NEW t \in tasks PROVE Reached(t)'
    <3>1. CouncilOf[t.doc] \in Councils /\ t \in TasksOf(CouncilOf[t.doc])
      BY TaskTyped DEF TasksOf
    <3>2. temp'[CouncilOf[t.doc]] = temp[CouncilOf[t.doc]] /\ UNCHANGED extracted
      BY <1>7, <3>1
    <3> QED
      BY <3>2 DEF OrderInv, ReachedInv, Reached, Ready
  <2> QED
    BY <2>1 DEF ReachedInv
<1>10. PreparedInv'
  BY <1>1, <1>7 DEF OrderInv, PreparedInv, Prepared, Ready, Merging
<1> QED
  BY <1>2, <1>3, <1>5, <1>6, <1>8, <1>9, <1>10

LEMMA BeginStep ==
  ASSUME Patient, RecopilationTypeOK, OrderInv, NEW c \in Councils, Begin(c)
  PROVE  RecopilationTypeOK' /\ OrderInv'
<1> DEFINE h == [at |-> "separator", docs |-> DocumentsOf(c)]
<1>1. h \in Handler /\ h.at = "separator" /\ h.docs = DocumentsOf(c)
  BY DEF Handler, DocumentsOf, RecopilationTypeOK
<1>2. handler' = [handler EXCEPT ![c] = h]
  BY DEF Begin
<1> HIDE DEF h
<1>3. \A e \in Councils : handler'[e] = IF e = c THEN h ELSE handler[e]
  BY <1>2 DEF RecopilationTypeOK
<1>4. RecopilationTypeOK'
  BY <1>1, <1>2 DEF Begin, mergeVars, RecopilationTypeOK
<1>5. \A e \in Councils : ~ Busy(e)
  BY DEF Begin
<1>6. tasks = {} /\ \A e \in Councils : handler[e].at = "idle"
  BY <1>5, TaskTyped DEF Busy, TasksOf, Idle
<1>7. RestInv' /\ TasksInv' /\ ReachedInv' /\ PreparedInv' /\ MergingInv' /\ MergedInOrder'
  BY <1>1, <1>3, <1>6
     DEF Begin, mergeVars, OrderInv, RestInv, TasksInv, ReachedInv, PreparedInv,
         Prepared, Ready, MergingInv, Merging, MergedInOrder
<1>8. AloneInv'
  BY <1>3, <1>5, <1>6 DEF AloneInv, Busy, TasksOf, Begin
<1>9. FilesInv'
  BY <1>1, <1>3, <1>6 DEF Begin, OrderInv, FilesInv, DocumentsOf
<1>10. OwnInv'
  <2>1. ASSUME NEW e \in Councils, handler'[e].at # "idle"
        PROVE  e = c
    BY <1>3, <1>5, <2>1 DEF Busy, Idle
  <2> QED
    BY <1>1, <1>3, <1>6, <2>1 DEF Begin, OrderInv, FilesInv, OwnInv, TasksOf
<1> QED
  BY <1>4, <1>7, <1>8, <1>9, <1>10 DEF OrderInv

(* The separator is there, and every document begins to be prepared.         *)
LEMMA PrepareStep ==
  ASSUME RecopilationTypeOK, OrderInv, NEW c \in Councils, Prepare(c)
  PROVE  RecopilationTypeOK' /\ OrderInv'
<1>1. handler[c].at = "separator" /\ handler[c] \in Handler
  BY DEF Prepare, RecopilationTypeOK
<1>2. tasks = {}
  <2>1. tasks = TasksOf(c)
    BY <1>1, AtWork
  <2> QED
    BY <1>1, <2>1 DEF OrderInv, TasksInv, TasksOf
<1>3. CASE handler' = [handler EXCEPT ![c] = Idle] /\ UNCHANGED tasks
  <2>1. Idle \in Handler /\ Idle.at = "idle" /\ Idle.docs = {}
    BY DEF Idle, Handler
  <2>2. /\ handler' \in [Councils -> Handler]
        /\ RestInv' /\ AloneInv' /\ TasksInv' /\ FilesInv'
        /\ ReachedInv' /\ PreparedInv'
    <3>1. UNCHANGED <<documents, temp, extracted>>
      BY DEF Prepare
    <3> QED
      BY <1>1, <1>3, <2>1, <3>1, Moves DEF Merging
  <2>3. OwnInv'
    BY <1>3, <2>1 DEF Prepare, OrderInv, OwnInv, TasksOf, RecopilationTypeOK
  <2>4. MergingInv' /\ MergedInOrder'
    <3>1. \A e \in Councils : handler'[e] = IF e = c THEN Idle ELSE handler[e]
      BY <1>3 DEF RecopilationTypeOK
    <3> QED
      BY <1>1, <2>1, <3>1, OnlyOne
         DEF Prepare, mergeVars, OrderInv, MergingInv, MergedInOrder
  <2> QED
    BY <1>3, <2>2, <2>3, <2>4 DEF Prepare, mergeVars, OrderInv, RecopilationTypeOK
<1>4. CASE Goes(c, "prepare") /\ tasks' = tasks \cup
             {[doc |-> d, at |-> "download"] : d \in handler[c].docs}
  <2> DEFINE h == [handler[c] EXCEPT !.at = "prepare"]
  <2>1. h \in Handler /\ h.at = "prepare" /\ h.docs = handler[c].docs
    BY <1>1 DEF Handler
  <2>2. handler' = [handler EXCEPT ![c] = h]
    BY <1>4 DEF Goes
  <2> HIDE DEF h
  <2>3. \A e \in Councils : handler'[e] = IF e = c THEN h ELSE handler[e]
    BY <2>2 DEF RecopilationTypeOK
  <2>4. h.docs \subseteq DocumentsOf(c)
    BY <2>1 DEF OrderInv, FilesInv
  <2>5. tasks' = {[doc |-> d, at |-> "download"] : d \in h.docs}
    BY <1>2, <1>4, <2>1
  <2>6. /\ \A t \in tasks' : t.at = "download" /\ t.doc \in h.docs
        /\ \A t, u \in tasks' : t.doc = u.doc => t = u
        /\ \A d \in h.docs : \E t \in tasks' : t.doc = d
    <3>1. \A t \in tasks' : /\ t.at = "download" /\ t.doc \in h.docs
                           /\ t = [doc |-> t.doc, at |-> "download"]
      BY <2>5
    <3>2. \A t, u \in tasks' : t.doc = u.doc => t = u
      BY <3>1
    <3>3. ASSUME NEW d \in h.docs PROVE \E t \in tasks' : t.doc = d
      <4>1. [doc |-> d, at |-> "download"] \in tasks'
        BY <2>5
      <4> QED
        BY <4>1
    <3> QED
      BY <3>1, <3>2, <3>3
  <2>7. tasks' \subseteq Task
    BY <2>4, <2>5 DEF Task, DocumentsOf, RecopilationTypeOK
  <2>8. RecopilationTypeOK'
    BY <2>1, <2>2, <2>7 DEF Prepare, mergeVars, RecopilationTypeOK
  <2>9. \A t \in tasks' : CouncilOf[t.doc] = c /\ t.doc \in documents
    BY <2>4, <2>6 DEF DocumentsOf
  <2>10. \A e \in Councils : Busy(e)' => Busy(e)
    BY <1>1, <2>3, <2>9 DEF Busy, TasksOf, Idle
  <2>11. RestInv' /\ AloneInv' /\ TasksInv'
    BY <2>1, <2>3, <2>6, <2>9, <2>10 DEF OrderInv, RestInv, AloneInv, TasksInv
  <2>12. FilesInv'
    BY <2>3, <2>4, <2>9 DEF Prepare, OrderInv, FilesInv, DocumentsOf
  <2>13. OwnInv'
    BY <1>1, <1>2, <2>1, <2>3, <2>6, <2>9 DEF Prepare, OrderInv, OwnInv, TasksOf
  <2>14. ReachedInv'
    BY <2>6 DEF ReachedInv, Reached
  <2>15. PreparedInv'
    <3>1. ASSUME NEW e \in Councils, handler'[e].at \in {"prepare"} \cup Merging
          PROVE  e = c
      BY <1>1, <2>3, <3>1, OnlyOne DEF Merging
    <3> QED
      BY <2>3, <2>6, <3>1 DEF PreparedInv, Prepared
  <2>16. MergingInv' /\ MergedInOrder'
    BY <1>1, <2>1, <2>3, OnlyOne
       DEF Prepare, mergeVars, OrderInv, MergingInv, MergedInOrder
  <2> QED
    BY <2>8, <2>11, <2>12, <2>13, <2>14, <2>15, <2>16 DEF OrderInv
<1> QED
  BY <1>3, <1>4 DEF Prepare

(* What is merged: every document, ready, after its own separator.           *)
LEMMA MergedAll ==
  ASSUME RecopilationTypeOK, OrderInv, NEW c \in Councils,
         handler[c].at \in {"prepare"} \cup Merging, TasksOf(c) = {}
  PROVE  Parts(c) \in Merged /\ InOrder(Parts(c)) /\ AllOf(Parts(c), handler[c].docs)
<1> DEFINE docs == handler[c].docs
           names(kind) == {f.doc : f \in {x \in temp[c] : x.kind = kind}}
<1>1. docs \subseteq Docs /\ temp[c] \subseteq File
  BY DEF RecopilationTypeOK, Handler
<1>2. docs \in SUBSET Nat /\ IsFiniteSet(docs)
  <2>1. docs \subseteq 1 .. LastNumber
    BY <1>1, RecopilationAssumption
  <2>2. LastNumber \in Nat
    BY DEF LastNumber
  <2> HIDE DEF docs
  <2>3. docs \in SUBSET Nat /\ \A d \in docs : d <= LastNumber
    BY <2>1, <2>2
  <2> QED
    BY <2>2, <2>3, FS_BoundedSetOfNaturals
<1>3. \A d \in docs : Ready(c, d, "document") /\ Ready(c, d, "separator")
  <2>1. ASSUME NEW d \in docs, NEW t \in tasks, t.doc = d PROVE FALSE
    <3>1. CouncilOf[t.doc] = c
      BY <2>1 DEF OrderInv, FilesInv, DocumentsOf
    <3> QED
      BY <3>1 DEF TasksOf
  <2> QED
    BY <2>1 DEF OrderInv, PreparedInv, Prepared
<1>4. \A f \in temp[c] : f.doc \in docs
  BY DEF OrderInv, OwnInv, Merging
<1>5. ASSUME NEW kind \in {"document", "separator"}
      PROVE  names(kind) = docs /\ Names(c, kind) = Sorted(docs)
  <2>1. names(kind) \subseteq docs
    BY <1>4
  <2>2. ASSUME NEW d \in docs PROVE d \in names(kind)
    <3>1. PICK f \in temp[c] : f.doc = d /\ f.kind = kind
      BY <1>3, <1>5 DEF Ready
    <3> QED
      BY <3>1
  <2>3. names(kind) = docs
    BY <2>1, <2>2
  <2> QED
    BY <2>3 DEF Names
<1>6. ASSUME NEW kind \in {"document", "separator"}, NEW d \in docs
      PROVE  StateOf(c, d, kind) = "ready"
  <2>1. PICK f \in temp[c] : f.doc = d /\ f.kind = kind /\ f.state = "ready"
    BY <1>3, <1>6 DEF Ready
  <2>2. \A g \in temp[c] : g.doc = d /\ g.kind = kind => g = f
    BY <2>1 DEF OrderInv, FilesInv
  <2> QED
    BY <2>1, <2>2 DEF StateOf
<1> DEFINE s == Sorted(docs)
           n == Cardinality(docs)
<1>7. s \in [1 .. n -> docs] /\ Increasing(s) /\ n \in Nat
  BY <1>2, SortedIs
<1>8. DOMAIN s = 1 .. n /\ \A i \in 1 .. n : s[i] \in docs
  BY <1>7
<1> HIDE DEF s, n, docs
<1>9. Parts(c) = [i \in 1 .. n |->
         [separator |-> s[i], document |-> s[i],
          ready |-> /\ StateOf(c, s[i], "separator") = "ready"
                    /\ StateOf(c, s[i], "document") = "ready"]]
  BY <1>5, <1>8 DEF Parts, s
<1>10. ASSUME NEW i \in 1 .. n
       PROVE  /\ Parts(c)[i] = [separator |-> s[i], document |-> s[i], ready |-> TRUE]
              /\ Parts(c)[i] \in Part /\ Parts(c)[i].document = s[i]
  <2>1. Parts(c)[i] = [separator |-> s[i], document |-> s[i], ready |-> TRUE]
    BY <1>6, <1>8, <1>9
  <2> QED
    BY <1>1, <1>8, <2>1 DEF Part, docs
<1>11. Parts(c) \in [1 .. n -> Part]
  BY <1>9, <1>10
<1>12. Parts(c) \in Seq(Part) /\ Len(Parts(c)) = n /\ DOMAIN Parts(c) = 1 .. n
  BY <1>7, <1>11
<1>13. ASSUME NEW i \in 1 .. n, i > 1
       PROVE  Parts(c)[i - 1].document < Parts(c)[i].document
  <2>1. i - 1 \in 1 .. n /\ i - 1 < i
    BY <1>7, <1>13
  <2>2. s[i - 1] < s[i]
    BY <1>7, <1>8, <2>1 DEF Increasing
  <2> QED
    BY <1>10, <2>1, <2>2
<1>14. InOrder(Parts(c))
  BY <1>10, <1>12, <1>13 DEF InOrder
<1>15. AllOf(Parts(c), docs)
  BY <1>8, <1>10, <1>12 DEF AllOf, n
<1> QED
  BY <1>12, <1>14, <1>15 DEF Merged, docs

(* What a directory that does not change would be merged to.                 *)
LEMMA SameParts ==
  ASSUME UNCHANGED temp
  PROVE  \A c : Parts(c)' = Parts(c)
BY DEF Parts, Names, StateOf

(* A merge goes on with the directory as it is.                              *)
LEMMA MergeGoesOn ==
  ASSUME RecopilationTypeOK, OrderInv, NEW c \in Councils,
         handler[c].at \in {"prepare"} \cup Merging, TasksOf(c) = {},
         NEW h \in Handler, handler' = [handler EXCEPT ![c] = h],
         \/ h = Idle
         \/ h.at \in {"flag"} \cup Merging /\ h.docs = handler[c].docs,
         UNCHANGED <<documents, temp, extracted, tasks, processed>>,
         merging' \in [Councils -> Merged], draft' \in Merged,
         merged' \in [Councils -> Merged],
         h.at = "append" =>
           \A i \in DOMAIN merging'[c] : merging'[c][i] = Parts(c)[i],
         h.at = "write" => merging'[c] = Parts(c),
         h.at = "rename" => draft' = Parts(c),
         \A e \in Councils : e # c => merged'[e] = merged[e],
         InOrder(merged'[c]), h.at = "flag" => AllOf(merged'[c], h.docs)
  PROVE  RecopilationTypeOK' /\ OrderInv'
<1>1. Idle.at = "idle" /\ Idle.docs = {}
  BY DEF Idle
<1>2. handler[c].at # "idle" /\ h.at # "prepare" /\ h.docs \subseteq handler[c].docs
  BY <1>1 DEF Merging
<1>3. /\ handler' \in [Councils -> Handler]
      /\ RestInv' /\ AloneInv' /\ TasksInv' /\ FilesInv'
      /\ ReachedInv' /\ PreparedInv'
  BY <1>1, <1>2, Moves DEF Merging
<1>4. \A e \in Councils : handler'[e] = IF e = c THEN h ELSE handler[e]
  BY DEF RecopilationTypeOK
<1>5. OwnInv'
  BY <1>1, <1>2, <1>4 DEF OrderInv, OwnInv, TasksOf
<1>6. Parts(c)' = Parts(c)
  BY SameParts
<1>7. MergingInv'
  BY <1>2, <1>4, <1>6, OnlyOne DEF MergingInv
<1>8. MergedInOrder'
  BY <1>1, <1>4 DEF OrderInv, MergedInOrder, Merging
<1>9. RecopilationTypeOK'
  BY <1>3 DEF RecopilationTypeOK
<1> QED
  BY <1>3, <1>5, <1>7, <1>8, <1>9 DEF OrderInv

(* The handler of c goes on to another step of its merge.                    *)
LEMMA MergeTo ==
  ASSUME RecopilationTypeOK, NEW c \in Councils,
         NEW to \in {"append", "write", "rename", "flag"}, Goes(c, to)
  PROVE  \E h \in Handler : /\ handler' = [handler EXCEPT ![c] = h]
                            /\ h.at = to /\ h.docs = handler[c].docs
<1> DEFINE h == [handler[c] EXCEPT !.at = to]
<1>1. h \in Handler /\ h.at = to /\ h.docs = handler[c].docs
  BY DEF RecopilationTypeOK, Handler
<1>2. handler' = [handler EXCEPT ![c] = h]
  BY DEF Goes
<1> HIDE DEF h
<1> QED
  BY <1>1, <1>2

(* Nothing is being prepared while c merges.                                 *)
LEMMA NoTasks ==
  ASSUME OrderInv, NEW c \in Councils, handler[c].at \in Merging
  PROVE  TasksOf(c) = {}
BY DEF OrderInv, TasksInv, TasksOf, Merging

(* The merged file is but the first separator, and the zip has no part yet.  *)
LEMMA BeginMergeStep ==
  ASSUME RecopilationTypeOK, OrderInv, NEW c \in Councils, BeginMerge(c)
  PROVE  RecopilationTypeOK' /\ OrderInv'
<1>1. /\ handler[c].at = "prepare" /\ TasksOf(c) = {}
      /\ UNCHANGED <<documents, temp, extracted, tasks, draft, processed>>
  BY DEF BeginMerge
<1>2. PICK h \in Handler : /\ handler' = [handler EXCEPT ![c] = h]
                           /\ h.at = "append" /\ h.docs = handler[c].docs
  BY MergeTo DEF BeginMerge
<1>3. <<>> \in Merged /\ InOrder(<<>>)
  BY DEF Merged, InOrder
<1>4. /\ merging' \in [Councils -> Merged] /\ merging'[c] = <<>>
      /\ merged' \in [Councils -> Merged] /\ merged'[c] = <<>>
      /\ \A e \in Councils : e # c => merged'[e] = merged[e]
  BY <1>3 DEF BeginMerge, RecopilationTypeOK
<1>5. draft' \in Merged
  BY <1>1 DEF RecopilationTypeOK
<1> QED
  BY <1>1, <1>2, <1>3, <1>4, <1>5, DOMAIN <<>> = {}, MergeGoesOn DEF Merging

(* The zip has one part more, the next of the directory.                     *)
LEMMA AddPartStep ==
  ASSUME RecopilationTypeOK, OrderInv, NEW c \in Councils, AddPart(c)
  PROVE  RecopilationTypeOK' /\ OrderInv'
<1> DEFINE zip == merging[c]
           next == Len(zip) + 1
           more == Append(zip, Parts(c)[next])
<1>1. /\ handler[c].at = "append" /\ next <= Len(Parts(c))
      /\ merging' = [merging EXCEPT ![c] = more]
      /\ Goes(c, IF next = Len(Parts(c)) THEN "write" ELSE "append")
      /\ UNCHANGED <<documents, temp, extracted, tasks, draft, merged, processed>>
  BY DEF AddPart
<1>2. TasksOf(c) = {}
  BY <1>1, NoTasks DEF Merging
<1>3. Parts(c) \in Seq(Part)
  BY <1>1, <1>2, MergedAll DEF Merging, Merged
<1>4. zip \in Seq(Part) /\ \A i \in DOMAIN zip : zip[i] = Parts(c)[i]
  BY <1>1 DEF RecopilationTypeOK, Merged, OrderInv, MergingInv
<1>5. next \in 1 .. Len(Parts(c)) /\ Parts(c)[next] \in Part
  BY <1>1, <1>3, <1>4
<1>6. more \in Seq(Part) /\ Len(more) = next
      /\ \A i \in 1 .. next : more[i] = Parts(c)[i]
  BY <1>4, <1>5
<1>7. next = Len(Parts(c)) => more = Parts(c)
  BY <1>3, <1>6
<1>8. /\ merging' \in [Councils -> Merged] /\ merging'[c] = more
      /\ draft' \in Merged /\ merged' \in [Councils -> Merged]
      /\ InOrder(merged'[c])
  BY <1>1, <1>6 DEF RecopilationTypeOK, Merged, OrderInv, MergedInOrder
<1>9. PICK to \in {"append", "write"} :
        Goes(c, to) /\ (to = "write" => next = Len(Parts(c)))
  BY <1>1
<1>10. PICK h \in Handler : /\ handler' = [handler EXCEPT ![c] = h]
                            /\ h.at = to /\ h.docs = handler[c].docs
  BY <1>9, MergeTo
<1>11. DOMAIN more = 1 .. next
  BY <1>6
<1> HIDE DEF more, zip
<1> QED
  BY <1>1, <1>2, <1>6, <1>7, <1>8, <1>9, <1>10, <1>11, MergeGoesOn DEF Merging

(* The zip is written: it has every part.                                    *)
LEMMA WriteDraftStep ==
  ASSUME RecopilationTypeOK, OrderInv, NEW c \in Councils, WriteDraft(c)
  PROVE  RecopilationTypeOK' /\ OrderInv'
<1>1. /\ handler[c].at = "write" /\ draft' = merging[c]
      /\ UNCHANGED <<documents, temp, extracted, tasks, merging, merged, processed>>
  BY DEF WriteDraft
<1>2. TasksOf(c) = {}
  BY <1>1, NoTasks DEF Merging
<1>3. PICK h \in Handler : /\ handler' = [handler EXCEPT ![c] = h]
                           /\ h.at = "rename" /\ h.docs = handler[c].docs
  BY MergeTo DEF WriteDraft
<1>4. draft' = Parts(c) /\ draft' \in Merged
  BY <1>1 DEF OrderInv, MergingInv, RecopilationTypeOK
<1>5. /\ merging' \in [Councils -> Merged] /\ merged' \in [Councils -> Merged]
      /\ InOrder(merged'[c])
  BY <1>1 DEF RecopilationTypeOK, OrderInv, MergedInOrder
<1> QED
  BY <1>1, <1>2, <1>3, <1>4, <1>5, MergeGoesOn DEF Merging

(* What was written becomes the merged file.                                 *)
LEMMA RenameStep ==
  ASSUME RecopilationTypeOK, OrderInv, NEW c \in Councils, Rename(c)
  PROVE  RecopilationTypeOK' /\ OrderInv'
<1>1. /\ handler[c].at = "rename"
      /\ merging' = [merging EXCEPT ![c] = <<>>]
      /\ UNCHANGED <<documents, temp, extracted, tasks, processed>>
  BY DEF Rename
<1>2. TasksOf(c) = {}
  BY <1>1, NoTasks DEF Merging
<1>3. draft = Parts(c) /\ InOrder(draft) /\ AllOf(draft, handler[c].docs)
  BY <1>1, <1>2, MergedAll DEF OrderInv, MergingInv, Merging
<1>4. <<>> \in Merged /\ draft \in Merged
  BY DEF Merged, RecopilationTypeOK
<1>5. merging' \in [Councils -> Merged]
  BY <1>1, <1>4 DEF RecopilationTypeOK
<1>6. CASE draft # <<>>
  <2>1. /\ merged' = [merged EXCEPT ![c] = draft] /\ draft' = <<>>
        /\ Goes(c, "flag")
    BY <1>6 DEF Rename
  <2>2. PICK h \in Handler : /\ handler' = [handler EXCEPT ![c] = h]
                             /\ h.at = "flag" /\ h.docs = handler[c].docs
    BY <2>1, MergeTo
  <2>3. /\ merged' \in [Councils -> Merged] /\ merged'[c] = draft
        /\ \A e \in Councils : e # c => merged'[e] = merged[e]
    BY <1>4, <2>1 DEF RecopilationTypeOK
  <2> QED
    BY <1>1, <1>2, <1>3, <1>4, <1>5, <2>1, <2>2, <2>3, MergeGoesOn DEF Merging
<1>7. CASE draft = <<>>
  <2>1. handler' = [handler EXCEPT ![c] = Idle] /\ UNCHANGED <<draft, merged>>
    BY <1>7 DEF Rename
  <2>2. Idle \in Handler /\ Idle.at = "idle"
    BY DEF Idle, Handler
  <2>3. merged' \in [Councils -> Merged] /\ InOrder(merged'[c])
    BY <2>1 DEF RecopilationTypeOK, OrderInv, MergedInOrder
  <2> QED
    BY <1>1, <1>2, <1>4, <1>5, <2>1, <2>2, <2>3, MergeGoesOn DEF Merging
<1> QED
  BY <1>6, <1>7

(* The council is marked, and the directories are cleaned.                   *)
LEMMA CleanStep ==
  ASSUME RecopilationTypeOK, OrderInv, NEW c \in Councils,
         MarkProcessed(c) \/ CleanTemp(c) \/ CleanAll(c)
  PROVE  RecopilationTypeOK' /\ OrderInv'
<1>1. /\ handler[c] \in Handler /\ handler[c].at \in {"flag", "clean", "cleanAll"}
      /\ processed' \subseteq Councils
      /\ UNCHANGED <<documents, tasks, merging, draft, merged>>
  BY DEF MarkProcessed, CleanTemp, CleanAll, mergeVars, RecopilationTypeOK
<1>2. tasks = {} /\ TasksOf(c) = {}
  <2>1. TasksOf(c) = {}
    BY <1>1 DEF OrderInv, TasksInv, TasksOf
  <2> QED
    BY <1>1, <2>1, AtWork
<1>3. Idle \in Handler /\ Idle.at = "idle" /\ Idle.docs = {}
  BY DEF Idle, Handler
<1>4. PICK h \in Handler :
        /\ handler' = [handler EXCEPT ![c] = h]
        /\ h = Idle \/ (h.at \in {"clean", "cleanAll"} /\ h.docs = handler[c].docs)
  <2>1. CASE MarkProcessed(c)
    <3> DEFINE h == [handler[c] EXCEPT !.at = "clean"]
    <3>1. h \in Handler /\ h.at = "clean" /\ h.docs = handler[c].docs
      BY <1>1 DEF Handler
    <3>2. handler' = [handler EXCEPT ![c] = h]
      BY <2>1 DEF MarkProcessed, Goes
    <3> HIDE DEF h
    <3> QED
      BY <3>1, <3>2
  <2>2. CASE CleanTemp(c)
    <3> DEFINE h == [handler[c] EXCEPT !.at = "cleanAll"]
    <3>1. h \in Handler /\ h.at = "cleanAll" /\ h.docs = handler[c].docs
      BY <1>1 DEF Handler
    <3>2. handler' = [handler EXCEPT ![c] = h]
      BY <2>2 DEF CleanTemp, Goes
    <3> HIDE DEF h
    <3> QED
      BY <3>1, <3>2
  <2>3. CASE CleanAll(c)
    BY <1>3, <2>3 DEF CleanAll
  <2> QED
    BY <2>1, <2>2, <2>3
<1>5. UNCHANGED temp \/ temp' = [temp EXCEPT ![c] = {}]
  BY DEF MarkProcessed, CleanTemp, CleanAll
<1>6. /\ handler' \in [Councils -> Handler]
      /\ RestInv' /\ AloneInv' /\ TasksInv' /\ FilesInv'
      /\ ReachedInv' /\ PreparedInv'
  BY <1>1, <1>2, <1>3, <1>4, <1>5, Moves DEF Merging
<1>7. OwnInv'
  BY <1>1, <1>2, <1>3, <1>4, <1>5 DEF OrderInv, OwnInv, TasksOf, RecopilationTypeOK
<1>8. RecopilationTypeOK'
  BY <1>1, <1>6, <1>5
     DEF RecopilationTypeOK, MarkProcessed, CleanTemp, CleanAll
<1>9. MergingInv' /\ MergedInOrder'
  <2>1. \A e \in Councils : handler'[e] = IF e = c THEN h ELSE handler[e]
    BY <1>4 DEF RecopilationTypeOK
  <2> QED
    BY <1>1, <1>3, <1>4, <2>1, OnlyOne DEF OrderInv, MergingInv, MergedInOrder
<1> QED
  BY <1>6, <1>7, <1>8, <1>9 DEF OrderInv

(* A document is made, or removed while nobody works on its council.         *)
LEMMA ChangeStep ==
  ASSUME Patient, RecopilationTypeOK, OrderInv, NEW d \in Changing, ChangeDocument(d)
  PROVE  RecopilationTypeOK' /\ OrderInv'
<1> DEFINE c == CouncilOf[d]
<1>1. d \in Docs
  BY RecopilationAssumption
<1>2. UNCHANGED <<temp, extracted, tasks, handler, merging, draft, merged, processed>>
  BY DEF ChangeDocument, mergeVars
<1>3. RecopilationTypeOK'
  BY <1>1, <1>2 DEF ChangeDocument, RecopilationTypeOK
<1>4. /\ RestInv' /\ AloneInv' /\ TasksInv' /\ OwnInv' /\ ReachedInv' /\ PreparedInv'
      /\ MergingInv' /\ MergedInOrder'
  BY <1>2, SameParts
     DEF OrderInv, RestInv, AloneInv, TasksInv, OwnInv, ReachedInv, PreparedInv,
     MergingInv, MergedInOrder, Busy, TasksOf, Reached, Ready, Prepared
<1>5. FilesInv'
  <2>1. CASE documents' = documents \cup {d}
    BY <1>2, <2>1 DEF OrderInv, FilesInv, DocumentsOf
  <2>2. CASE documents' = documents \ {d} /\ temp[c] = {} /\ ~ Busy(c)
    <3>1. \A f, e : e \in Councils /\ f \in temp[e] => CouncilOf[f.doc] = e
      BY DEF OrderInv, FilesInv, DocumentsOf
    <3>2. ASSUME NEW e \in Councils, NEW f \in temp[e] PROVE f.doc # d
      BY <2>2, <3>1
    <3>3. ASSUME NEW t \in tasks PROVE t.doc # d
      BY <2>2 DEF Busy, TasksOf
    <3>4. ASSUME NEW e \in Councils PROVE d \notin handler[e].docs
      <4>1. ASSUME d \in handler[e].docs PROVE FALSE
        <5>1. e = c
          BY <4>1 DEF OrderInv, FilesInv, DocumentsOf
        <5>2. handler[c] = Idle
          BY <2>2 DEF Busy
        <5> QED
          BY <4>1, <5>1, <5>2 DEF Idle
      <4> QED
        BY <4>1
    <3> QED
      BY <1>2, <2>2, <3>2, <3>3, <3>4 DEF OrderInv, FilesInv, DocumentsOf
  <2> QED
    BY <2>1, <2>2 DEF ChangeDocument
<1> QED
  BY <1>3, <1>4, <1>5 DEF OrderInv

LEMMA StopStep ==
  ASSUME RecopilationTypeOK, OrderInv, Stop
  PROVE  RecopilationTypeOK' /\ OrderInv'
<1>1. Idle \in Handler /\ Idle.at = "idle" /\ Idle.docs = {}
  BY DEF Idle, Handler
<1>2. /\ tasks' = {} /\ handler' = [e \in Councils |-> Idle]
      /\ merging' = [e \in Councils |-> <<>>]
      /\ UNCHANGED <<documents, temp, extracted, draft, merged, processed>>
  BY DEF Stop
<1>3. RecopilationTypeOK'
  <2>1. <<>> \in Merged
    BY DEF Merged
  <2> QED
    BY <1>1, <1>2, <2>1 DEF RecopilationTypeOK
<1>4. \A e \in Councils : ~ Busy(e)'
  BY <1>2 DEF Busy, TasksOf
<1>5. /\ RestInv' /\ AloneInv' /\ TasksInv' /\ OwnInv' /\ ReachedInv' /\ PreparedInv'
      /\ MergingInv'
  BY <1>1, <1>2, <1>4 DEF RestInv, AloneInv, TasksInv, OwnInv, ReachedInv, PreparedInv,
     MergingInv, Merging
<1>6. FilesInv' /\ MergedInOrder'
  BY <1>1, <1>2 DEF OrderInv, FilesInv, MergedInOrder, DocumentsOf
<1> QED
  BY <1>3, <1>5, <1>6 DEF OrderInv

-------------------------------------------------------------------------------
(* Where recopilations begin one after another, for any councils, documents, *)
(* failures and restarts, and whatever documents are made and removed        *)
(* meanwhile: the documents of a merged file are whole, each after its own   *)
(* separator, in the order of their numbers, and all that were asked for are *)
(* there when the request is answered.                                       *)
THEOREM DocumentsAreMergedInOrder ==
  ASSUME Patient
  PROVE  RecopilationSpec => []RecopilationInv
<1> DEFINE Inv == RecopilationTypeOK /\ OrderInv
<1>1. RecopilationInit => Inv
  BY OrderInit
<1>2. Inv /\ [RecopilationNext]_recopilationVars => Inv'
  <2> SUFFICES ASSUME Inv, [RecopilationNext]_recopilationVars PROVE Inv'
    OBVIOUS
  <2>1. ASSUME NEW c \in Councils, Begin(c) PROVE Inv'
    BY <2>1, BeginStep
  <2>2. ASSUME NEW c \in Councils, Handle(c) PROVE Inv'
    BY <2>2, PrepareStep, BeginMergeStep, AddPartStep, WriteDraftStep, RenameStep,
       CleanStep DEF Handle
  <2>3. ASSUME NEW t \in tasks, Run(t) PROVE Inv'
    BY <2>3, RunStep
  <2>4. ASSUME NEW d \in Changing, ChangeDocument(d) PROVE Inv'
    BY <2>4, ChangeStep
  <2>5. CASE Stop
    BY <2>5, StopStep
  <2>6. CASE UNCHANGED recopilationVars
    BY <2>6, SameParts DEF recopilationVars, RecopilationTypeOK, OrderInv, RestInv,
       AloneInv, TasksInv, FilesInv, OwnInv, ReachedInv, PreparedInv, MergingInv,
       MergedInOrder, Busy, TasksOf, DocumentsOf, Reached, Ready, Prepared
  <2> QED
    BY <2>1, <2>2, <2>3, <2>4, <2>5, <2>6 DEF RecopilationNext
<1>3. Inv => RecopilationInv
  BY DEF OrderInv, RecopilationInv
<1> QED
  BY <1>1, <1>2, <1>3, PTL DEF RecopilationSpec
===============================================================================

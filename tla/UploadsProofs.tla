--------------------------- MODULE UploadsProofs ---------------------------
(***************************************************************************)
(* Theorems about Uploads, for any number of requests, PUTs and names.     *)
(***************************************************************************)
EXTENDS Uploads, TLAPS

-----------------------------------------------------------------------------
(* The steps, whichever of the three slots it is. *)

Kinds == {"image", "large", "junk"}

Loads(r) ==
    \/ slot # "icon" /\ Load(r, "presign")
    \/ row.pending # None /\ Load(r, "check")

Refuses(r) == Refuse(r, "new") \/ Refuse(r, "check")

Presigns(r) ==
    \/ slot # "icon" /\ \E k \in Name : PresignCommit(r, k, "presign")
    \/ slot = "icon" /\ PresignCommit(r, r, "new")

Checks(r) == \E kinds \in SUBSET Kinds : Check(r, kinds)

Rejects(r) == slot # "archive" /\ CheckTooLarge(r)

Forgets(r) == slot # "archive" /\ ForgetPending(r)

\* Where a request goes from its commit.
Commits(r) ==
    \/ slot = "archive" /\ old(r) = None /\ Commit(r, "done")
    \/ slot # "avatar" /\ old(r) # None /\ Commit(r, "delete_old")
    \/ slot = "avatar" /\ Commit(r, "enqueue")
    \/ slot = "icon" /\ old(r) = None /\ Commit(r, "enqueue")

Deletes(r) ==
    \/ slot = "archive" /\ DeleteObject(r, old(r), "delete_old", "done")
    \/ slot = "icon" /\ DeleteObject(r, old(r), "delete_old", "delete_thumb")

Cleans(r) ==
    /\ slot = "icon"
    /\ \/ DeleteVariant(r, old(r), "thumb", "delete_thumb", "delete_medium")
       \/ DeleteVariant(r, old(r), "medium", "delete_medium", "enqueue")

Enqueues(r) == slot # "archive" /\ Enqueue(r)

TaskMoves(t) == TaskGet(t) \/ TaskPut(t) \/ TaskFail(t) \/ TaskRedelivered(t)

\* The message it sends.
Ordered(r) == [by |-> r, key |-> new(r), got |-> None, next |-> "thumb"]

LEMMA StepCases ==
    ASSUME [Next]_vars
    PROVE  \/ \E r \in Request :
                \/ Loads(r) \/ Refuses(r) \/ Presigns(r) \/ Checks(r)
                \/ Rejects(r) \/ Forgets(r) \/ Commits(r) \/ Deletes(r)
                \/ Cleans(r) \/ Enqueues(r) \/ Fail(r)
           \/ \E u \in Put, k \in urls, kind \in Kinds : PutObject(u, k, kind)
           \/ \E t \in tasks : TaskMoves(t)
           \/ UNCHANGED vars
<1> USE DEF Loads, Refuses, Presigns, Checks, Rejects, Forgets, Commits,
            Deletes, Cleans, Enqueues, Kinds
<1>1. ASSUME NEW r \in Request,
             PresignAppArchiveUpload(r) \/ PresignAvatarUpload(r)
               \/ PresignIconUpload(r)
      PROVE  Loads(r) \/ Presigns(r)
  BY <1>1 DEF PresignAppArchiveUpload, PresignAvatarUpload, PresignIconUpload
<1>2. ASSUME NEW r \in Request,
             ConfirmLoad(r) \/ CheckMissing(r)
      PROVE  Loads(r) \/ Refuses(r)
  BY <1>2 DEF ConfirmLoad, CheckMissing
<1>3. ASSUME NEW r \in Request, ConfirmAppArchiveUpload(r)
      PROVE  \/ Loads(r) \/ Refuses(r) \/ Checks(r) \/ Commits(r) \/ Deletes(r)
  <2>1. CASE ConfirmLoad(r) \/ CheckMissing(r)
    BY <1>2, <2>1
  <2>2. CASE Check(r, {"image", "large", "junk"})
    BY <2>2
  <2> QED
    BY <1>3, <2>1, <2>2 DEF ConfirmAppArchiveUpload
<1>4. ASSUME NEW r \in Request, ConfirmAvatarUpload(r)
      PROVE  \/ Loads(r) \/ Refuses(r) \/ Checks(r) \/ Rejects(r) \/ Forgets(r)
             \/ Commits(r) \/ Enqueues(r)
  <2>1. CASE ConfirmLoad(r) \/ CheckMissing(r)
    BY <1>2, <2>1
  <2>2. CASE Check(r, {"image", "junk"})
    BY <2>2
  <2> QED
    BY <1>4, <2>1, <2>2 DEF ConfirmAvatarUpload
<1>5. ASSUME NEW r \in Request, ConfirmIconUpload(r)
      PROVE  \/ Loads(r) \/ Refuses(r) \/ Checks(r) \/ Rejects(r) \/ Forgets(r)
             \/ Commits(r) \/ Deletes(r) \/ Cleans(r) \/ Enqueues(r)
  <2>1. CASE ConfirmLoad(r) \/ CheckMissing(r)
    BY <1>2, <2>1
  <2>2. CASE Check(r, {"image", "junk"})
    BY <2>2
  <2> QED
    BY <1>5, <2>1, <2>2 DEF ConfirmIconUpload
<1> HIDE DEF Loads, Refuses, Presigns, Checks, Rejects, Forgets, Commits,
             Deletes, Cleans, Enqueues
<1>6. CASE Next
  BY <1>1, <1>3, <1>4, <1>5, <1>6 DEF Next, Done, TaskMoves
<1> QED
  BY <1>6

\* The step of r: r moves from one await to another, and ends without a session.
LEMMA Moves ==
    ASSUME TypeOK, NEW r \in Request, NEW from, NEW to \in Stage, Goto(r, from, to)
    PROVE  /\ pc' \in [Request -> Stage] /\ held' \in [Request -> Row]
           /\ pc[r] = from /\ pc'[r] = to
           /\ held'[r] = IF to = "done" THEN NoRow ELSE held[r]
           /\ \A q \in Request \ {r} : pc'[q] = pc[q] /\ held'[q] = held[q]
<1>1. NoRow \in Row
  BY DEF NoRow, Row
<1> QED
  BY <1>1 DEF TypeOK, Goto

LEMMA Overtaken ==
    ASSUME TypeOK, NEW r \in Request, Overtakes(r)
    PROVE  /\ missed' \in [Request -> SUBSET Request]
           /\ \A q \in Request : missed[q] \subseteq missed'[q]
           /\ \A q \in Request \ {r} : Open(q) => r \in missed'[q]
           /\ \A q \in Request : missed'[q] \subseteq missed[q] \cup {r}
           /\ missed'[r] = missed[r]
           /\ \A q \in Request : ~ Open(q) => missed'[q] = missed[q]
BY DEF TypeOK, Overtakes

Cleaning == {"delete_thumb", "delete_medium"}

USE DEF Cleaning

Confirming == {"check", "forget", "commit", "delete_old", "enqueue"} \cup Cleaning

\* Where a request stands tells what its session holds, and which slot it is.
Holds ==
    \A r \in Request :
        /\ pc[r] \in Confirming => new(r) \in Key
        /\ pc[r] \in {"delete_old"} \cup Cleaning => old(r) \in Key
        /\ pc[r] \in {"forget", "enqueue"} => slot # "archive"
        /\ pc[r] \in Cleaning => slot = "icon"
        /\ pc[r] = "delete_old" => slot # "avatar"
        /\ pc[r] = "presign" => slot # "icon"
        /\ ~Open(r) => held[r] = NoRow

LEMMA TypeInit ==
    ASSUME Init
    PROVE  TypeOK /\ Holds
<1> USE UploadsAssumption
<1>1. row \in Row
  BY DEF Init, NoRow, Row, Key
<1>2. \A k \in Name : First(k) \in Content
  BY DEF First, Content
<1>3. row.key \in Name \cup {None} /\ row.pending \in Name \cup {None}
  BY DEF Init, NoRow
<1>4. object \in [Key -> Content \cup {None}]
  <2>1. PICK K \in {{row.key}, {row.key, row.pending}} :
          object = [k \in Key |-> IF k \in K THEN First(k) ELSE None]
    BY DEF Init
  <2>2. \A k \in Key : k \in K => k \in Name
    BY <1>3, <2>1 DEF Key
  <2> QED
    BY <1>2, <2>1, <2>2
<1>5. variant \in [Stems -> [Size -> Content \cup {None}]]
  BY <1>2, <1>3 DEF Init
<1>6. urls \subseteq Key
  BY <1>3 DEF Init, Key
<1>7. NoRow \in Row
  BY DEF NoRow, Row
<1> QED
  BY <1>1, <1>4, <1>5, <1>6, <1>7
  DEF Init, TypeOK, Holds, Stage, Confirming, Open, Key

\* What a task becomes.
LEMMA TaskBecomes ==
    ASSUME NEW t \in Task, NEW c \in Content \cup {None}
    PROVE  /\ [t EXCEPT !.got = c] \in Task
           /\ [t EXCEPT !.got = c].key = t.key
           /\ [t EXCEPT !.got = c].got = c
           /\ [t EXCEPT !.got = c].next = t.next
           /\ [t EXCEPT !.got = None, !.next = "thumb"] \in Task
           /\ [t EXCEPT !.got = None, !.next = "thumb"].key = t.key
           /\ [t EXCEPT !.got = None, !.next = "thumb"].got = None
           /\ [t EXCEPT !.got = None, !.next = "thumb"].next = "thumb"
           /\ [t EXCEPT !.next = "medium"] \in Task
           /\ [t EXCEPT !.next = "medium"].key = t.key
           /\ [t EXCEPT !.next = "medium"].got = t.got
BY DEF Task, Size

\* A step of r keeps Holds if it does for r.
LEMMA HoldsOfOthers ==
    ASSUME TypeOK, Holds, NEW r \in Request, NEW from, NEW to \in Stage,
           Goto(r, from, to), slot' = slot,
           to \in Confirming => from \in Confirming,
           to \in {"delete_old"} \cup Cleaning => old(r) \in Key,
           to \in {"forget", "enqueue"} => slot # "archive",
           to \in Cleaning => slot = "icon",
           to = "delete_old" => slot # "avatar",
           to # "presign", to # "new"
    PROVE  Holds'
<1>1. /\ pc[r] = from /\ pc'[r] = to
      /\ held'[r] = IF to = "done" THEN NoRow ELSE held[r]
      /\ \A q \in Request \ {r} : pc'[q] = pc[q] /\ held'[q] = held[q]
  BY Moves
<1>2. Open(r)' <=> to # "done"
  BY <1>1 DEF Open
<1>3. ASSUME NEW q \in Request \ {r} PROVE Open(q)' <=> Open(q)
  BY <1>1 DEF Open
<1> QED
  BY <1>1, <1>2, <1>3 DEF Holds, Confirming, old, new

LEMMA TypeStep ==
    ASSUME TypeOK, Holds, [Next]_vars
    PROVE  TypeOK' /\ Holds'
<1> USE UploadsAssumption
<1>0. /\ Request \subseteq Key /\ Name \subseteq Key /\ NoRow \in Row
      /\ \A k \in Key : Stem(slot, k) \in Stems
  BY DEF Key, NoRow, Row, Stem, Stems
<1>1. ASSUME NEW r \in Request, Loads(r)
      PROVE  TypeOK' /\ Holds'
  <2>1. PICK to \in {"presign", "check"} :
           /\ Load(r, to) /\ (to = "check" => row.pending # None)
           /\ (to = "presign" => slot # "icon")
    BY <1>1 DEF Loads
  <2>2. to = "check" => row.pending \in Key
    BY <2>1 DEF TypeOK, Row
  <2>3. TypeOK'
    BY <2>1 DEF TypeOK, Load, Stage, stores, history
  <2>4. /\ slot' = slot /\ pc'[r] = to /\ held'[r] = row
        /\ \A q \in Request \ {r} : pc'[q] = pc[q] /\ held'[q] = held[q]
    BY <2>1 DEF TypeOK, Load
  <2> QED
    BY <2>1, <2>2, <2>3, <2>4 DEF Holds, Confirming, Open, new, old
<1>2. ASSUME NEW r \in Request, Refuses(r)
      PROVE  TypeOK' /\ Holds'
  <2>1. PICK from : Refuse(r, from)
    BY <1>2 DEF Refuses
  <2>2. Goto(r, from, "done") /\ UNCHANGED <<slot, stores, history>>
    BY <2>1 DEF Refuse
  <2>3. TypeOK'
    BY <2>2, Moves DEF TypeOK, Stage, stores, history
  <2> QED
    BY <2>2, <2>3, HoldsOfOthers DEF Stage, Confirming
<1>3. ASSUME NEW r \in Request, Presigns(r)
      PROVE  TypeOK' /\ Holds'
  <2>1. PICK k \in Key, from \in {"new", "presign"} : PresignCommit(r, k, from)
    BY <1>0, <1>3 DEF Presigns
  <2>2. Goto(r, from, "done") /\ slot' = slot
    BY <2>1 DEF PresignCommit
  <2>3. row' \in Row
    BY <2>1 DEF TypeOK, Row, PresignCommit
  <2>4. TypeOK'
    BY <2>1, <2>2, <2>3, Moves DEF TypeOK, Stage, PresignCommit, history
  <2> QED
    BY <2>2, <2>4, HoldsOfOthers DEF Stage, Confirming
<1>4. ASSUME NEW r \in Request, Checks(r)
      PROVE  TypeOK' /\ Holds'
  <2>1. PICK kinds \in SUBSET Kinds : Check(r, kinds)
    BY <1>4 DEF Checks
  <2>2. new(r) \in Key
    BY <2>1 DEF Check, Holds, Confirming
  <2>3. spoilt' \subseteq Stems
    BY <1>0, <2>1, <2>2 DEF Check, TypeOK
  <2>4. TypeOK'
    BY <2>1, <2>3 DEF TypeOK, Check, Stage, stores
  <2>5. /\ slot' = slot /\ pc[r] = "check" /\ pc'[r] = "commit" /\ held' = held
        /\ \A q \in Request \ {r} : pc'[q] = pc[q]
    BY <2>1 DEF TypeOK, Check
  <2> QED
    BY <2>2, <2>4, <2>5 DEF Holds, Confirming, Open, new, old
<1>5. ASSUME NEW r \in Request, NEW k \in Key, NEW from, NEW to \in Stage,
             DeleteObject(r, k, from, to)
      PROVE  TypeOK'
  <2>1. Goto(r, from, to) /\ Overtakes(r)
    BY <1>5 DEF DeleteObject
  <2>2. pc' \in [Request -> Stage] /\ held' \in [Request -> Row]
    BY <2>1, Moves
  <2>3. missed' \in [Request -> SUBSET Request]
    BY <2>1, Overtaken
  <2> QED
    BY <1>5, <2>2, <2>3 DEF TypeOK, DeleteObject
<1>6. ASSUME NEW r \in Request, Rejects(r)
      PROVE  TypeOK' /\ Holds'
  <2>1. DeleteObject(r, new(r), "check", "forget") /\ slot # "archive"
    BY <1>6 DEF Rejects, CheckTooLarge
  <2>2. Goto(r, "check", "forget") /\ slot' = slot
    BY <2>1 DEF DeleteObject
  <2>3. new(r) \in Key
    BY <2>2 DEF Holds, Confirming, Goto
  <2> QED
    BY <1>5, <2>1, <2>2, <2>3, HoldsOfOthers DEF Stage, Confirming
<1>7. ASSUME NEW r \in Request, Forgets(r)
      PROVE  TypeOK' /\ Holds'
  <2>1. /\ Goto(r, "forget", "done") /\ slot' = slot
        /\ row' = [row EXCEPT !.pending = None]
        /\ UNCHANGED <<object, variant, urls, puts, tasks, history>>
    BY <1>7 DEF Forgets, ForgetPending
  <2>2. TypeOK'
    BY <2>1, Moves DEF TypeOK, Stage, Row, history
  <2> QED
    BY <2>1, <2>2, HoldsOfOthers DEF Stage, Confirming
<1>8. ASSUME NEW r \in Request, Commits(r)
      PROVE  TypeOK' /\ Holds'
  <2>1. PICK to \in {"done", "delete_old", "enqueue"} :
           /\ Commit(r, to)
           /\ to = "delete_old" => slot # "avatar" /\ old(r) # None
           /\ to = "enqueue" => slot # "archive"
    BY <1>8 DEF Commits
  <2>2. Goto(r, "commit", to) /\ slot' = slot /\ Overtakes(r)
    BY <2>1 DEF Commit
  <2>3. new(r) \in Key
    BY <2>2 DEF Holds, Confirming, Goto
  <2>4. old(r) \in Key \cup {None}
    BY DEF TypeOK, Row, old
  <2>5. row' \in Row
    BY <2>1, <2>3 DEF TypeOK, Row, Commit
  <2>6. replacer' \in [Key -> Request \cup {None}]
    BY <2>1 DEF TypeOK, Commit
  <2>7. missed' \in [Request -> SUBSET Request]
    BY <2>2, Overtaken
  <2>8. pc' \in [Request -> Stage] /\ held' \in [Request -> Row]
    BY <2>2, Moves DEF Stage
  <2>9. TypeOK'
    BY <2>1, <2>5, <2>6, <2>7, <2>8 DEF TypeOK, Commit
  <2> QED
    BY <2>1, <2>2, <2>4, <2>9, HoldsOfOthers DEF Stage, Confirming
<1>9. ASSUME NEW r \in Request, Deletes(r)
      PROVE  TypeOK' /\ Holds'
  <2>1. PICK to \in {"done", "delete_thumb"} :
           /\ DeleteObject(r, old(r), "delete_old", to)
           /\ to = "delete_thumb" => slot = "icon"
    BY <1>9 DEF Deletes
  <2>2. Goto(r, "delete_old", to) /\ slot' = slot
    BY <2>1 DEF DeleteObject
  <2>3. old(r) \in Key
    BY <2>2 DEF Holds, Goto
  <2> QED
    BY <1>5, <2>1, <2>2, <2>3, HoldsOfOthers DEF Stage, Confirming
<1>10. ASSUME NEW r \in Request, Cleans(r)
       PROVE  TypeOK' /\ Holds'
  <2>1. PICK z \in Size, from \in Cleaning, to \in {"delete_medium", "enqueue"} :
           DeleteVariant(r, old(r), z, from, to) /\ slot = "icon"
    BY <1>10 DEF Cleans, Size
  <2>2. /\ Goto(r, from, to) /\ slot' = slot
        /\ variant' = [variant EXCEPT ![Stem(slot, old(r))][z] = None]
        /\ UNCHANGED <<row, object, urls, puts, tasks, history>>
    BY <2>1 DEF DeleteVariant
  <2>3. old(r) \in Key
    BY <2>2 DEF Holds, Goto
  <2>4. variant' \in [Stems -> [Size -> Content \cup {None}]]
    BY <2>2 DEF TypeOK
  <2>5. TypeOK'
    BY <2>2, <2>4, Moves DEF TypeOK, Stage, history
  <2> QED
    BY <2>1, <2>2, <2>3, <2>5, HoldsOfOthers DEF Stage, Confirming
<1>11. ASSUME NEW r \in Request, Enqueues(r)
       PROVE  TypeOK' /\ Holds'
  <2>1. /\ Goto(r, "enqueue", "done") /\ slot' = slot
        /\ tasks' = tasks \cup {Ordered(r)}
        /\ UNCHANGED <<row, object, variant, urls, puts, history>>
    BY <1>11 DEF Enqueues, Enqueue, Ordered
  <2>2. new(r) \in Key
    BY <2>1 DEF Holds, Confirming, Goto
  <2>3. TypeOK'
    BY <2>1, <2>2, Moves DEF TypeOK, Stage, Task, history, Ordered, Size
  <2> QED
    BY <2>1, <2>3, HoldsOfOthers DEF Stage, Confirming
<1>12. ASSUME NEW r \in Request, Fail(r)
       PROVE  TypeOK' /\ Holds'
  <2>1. PICK from \in {"forget", "delete_old", "enqueue"} \cup Cleaning :
           Goto(r, from, "done")
    BY <1>12 DEF Fail
  <2>2. new(r) \in Key
    BY <2>1 DEF Holds, Confirming, Goto
  <2>3. spoilt' \subseteq Stems
    BY <1>0, <1>12, <2>2 DEF Fail, TypeOK
  <2>4. slot' = slot
    BY <1>12 DEF Fail
  <2>5. TypeOK'
    BY <1>12, <2>1, <2>3, Moves DEF TypeOK, Stage, Fail, stores
  <2> QED
    BY <2>1, <2>4, <2>5, HoldsOfOthers DEF Stage, Confirming
<1>13. ASSUME NEW u \in Put, NEW k \in urls, NEW kind \in Kinds,
              PutObject(u, k, kind)
       PROVE  TypeOK' /\ Holds'
  <2>1. /\ k \in Key /\ [put |-> u, kind |-> kind] \in Content
    BY DEF TypeOK, Content, Kinds
  <2>2. spoilt' \subseteq Stems /\ late' \subseteq Key
    BY <1>0, <1>13, <2>1 DEF PutObject, TypeOK
  <2>3. TypeOK'
    BY <1>13, <2>1, <2>2 DEF TypeOK, PutObject
  <2>4. UNCHANGED <<slot, pc, held>>
    BY <1>13 DEF PutObject
  <2> QED
    BY <2>3, <2>4 DEF Holds, new, old, Open
<1>14. ASSUME NEW t \in tasks, TaskMoves(t)
       PROVE  TypeOK' /\ Holds'
  <2>1. t \in Task /\ t.key \in Key /\ t.got \in Content \cup {None}
    BY DEF TypeOK, Task
  <2>2. /\ [t EXCEPT !.got = object[t.key]] \in Task
        /\ [t EXCEPT !.got = None, !.next = "thumb"] \in Task
        /\ [t EXCEPT !.next = "medium"] \in Task
        /\ t.next \in Size
    BY <2>1, TaskBecomes DEF TypeOK, Task
  <2>3. UNCHANGED <<slot, pc, held>>
    BY <1>14 DEF TaskMoves, TaskGet, TaskPut, TaskFail, TaskRedelivered
  <2>4. CASE TaskGet(t)
    BY <2>2, <2>3, <2>4 DEF TypeOK, TaskGet, history, Holds, new, old, Open
  <2>5. CASE TaskRedelivered(t)
    BY <2>2, <2>3, <2>5
    DEF TypeOK, TaskRedelivered, history, Holds, new, old, Open
  <2>6. CASE TaskPut(t)
    <3>0. late' \subseteq Key
      BY <2>1, <2>6 DEF TypeOK, TaskPut
    <3>1. variant' \in [Stems -> [Size -> Content \cup {None}]]
      <4>1. PICK m \in Stems, z \in Size :
               \/ variant' = variant
               \/ variant' = [variant EXCEPT ![m][z] = t.got]
        BY <1>0, <2>1, <2>2, <2>6 DEF TaskPut
      <4> QED
        BY <2>1, <4>1 DEF TypeOK
    <3>2. tasks' \subseteq Task
      BY <2>2, <2>6 DEF TypeOK, TaskPut
    <3>3. TypeOK'
      BY <2>3, <2>6, <3>0, <3>1, <3>2 DEF TypeOK, TaskPut
    <3> QED
      BY <2>3, <3>3 DEF Holds, new, old, Open
  <2>7. CASE TaskFail(t)
    <3>1. TypeOK'
      BY <1>0, <2>1, <2>7 DEF TypeOK, TaskFail
    <3> QED
      BY <2>3, <3>1 DEF Holds, new, old, Open
  <2> QED
    BY <1>14, <2>4, <2>5, <2>6, <2>7 DEF TaskMoves
<1>15. CASE UNCHANGED vars
  BY <1>15 DEF TypeOK, Holds, vars, stores, history, new, old, Open
<1> QED
  BY <1>1, <1>2, <1>3, <1>4, <1>6, <1>7, <1>8, <1>9, <1>10, <1>11, <1>12, <1>13,
     <1>14, <1>15, StepCases

\* Every variable keeps its type: what a request commits, deletes and hands to a
\* task is a key its session has loaded, whoever changed the row since.
THEOREM UploadsTypeCorrect == Spec => []TypeOK
<1>1. Init => TypeOK /\ Holds
  BY TypeInit
<1>2. TypeOK /\ Holds /\ [Next]_vars => TypeOK' /\ Holds'
  BY TypeStep
<1> QED
  BY <1>1, <1>2, PTL DEF Spec

-----------------------------------------------------------------------------
(* The key of a row names an object.                                       *)

\* Who set the key of the row is known to whoever holds another one.
KeyLoaded ==
    \A r \in Request :
        pc[r] \in {"presign", "check", "forget", "commit"} /\ row.key # old(r)
          => setter \in missed[r]

\* Likewise after the commit.
KeyCommitted ==
    \A r \in Request :
        pc[r] \in {"delete_old", "enqueue"} \cup Cleaning
          => \/ new(r) = old(r) \/ row.key = new(r)
             \/ setter \in missed[r]

\* What was checked is there, or its remover is known.
ObjectChecked ==
    \A r \in Request :
        pc[r] = "commit" /\ object[new(r)] = None
          => remover[new(r)] \in missed[r]

KeysInv == KeyLoaded /\ KeyCommitted /\ ObjectChecked
             /\ KeyDanglesOnlyByReuseOrOverlap

LEMMA KeysInit ==
    ASSUME Init
    PROVE  KeysInv
<1> USE UploadsAssumption, NoContentAssumption
<1>1. \A k \in Name : First(k) \in Content
  BY DEF First, Content
<1>2. row.key \in Name \cup {None}
  BY DEF Init, NoRow
<1>3. row.key # None => object[row.key] = First(row.key)
  BY <1>2 DEF Init, Key
<1>4. KeyDanglesOnlyByReuseOrOverlap
  BY <1>1, <1>2, <1>3 DEF KeyDanglesOnlyByReuseOrOverlap
<1> QED
  BY <1>4 DEF Init, KeysInv, KeyLoaded, KeyCommitted, ObjectChecked

\* A step that leaves the key of the row, every object that is there and the
\* records of who did what alone keeps the invariant, if the one request that
\* moves comes to no commit.
LEMMA KeysUntouched ==
    ASSUME TypeOK, Holds, KeysInv, NEW r \in Request, NEW from, NEW to \in Stage,
           Goto(r, from, to), row'.key = row.key, object' = object,
           UNCHANGED <<missed, setter, remover, reusers>>,
           to \in {"presign", "check", "forget", "commit"} =>
             from \in {"presign", "check", "forget", "commit"},
           to \in {"enqueue"} \cup Cleaning => from \in {"delete_old"} \cup Cleaning,
           to # "delete_old", to # "commit"
    PROVE  KeysInv'
<1>1. /\ pc[r] = from /\ pc'[r] = to
      /\ held'[r] = IF to = "done" THEN NoRow ELSE held[r]
      /\ \A q \in Request \ {r} : pc'[q] = pc[q] /\ held'[q] = held[q]
  BY Moves
<1>2. KeyLoaded'
  BY <1>1 DEF KeysInv, KeyLoaded, old
<1>3. KeyCommitted'
  BY <1>1 DEF KeysInv, KeyCommitted, old, new
<1>4. ObjectChecked'
  BY <1>1 DEF KeysInv, ObjectChecked, new
<1>5. KeyDanglesOnlyByReuseOrOverlap'
  BY DEF KeysInv, KeyDanglesOnlyByReuseOrOverlap
<1> QED
  BY <1>2, <1>3, <1>4, <1>5 DEF KeysInv

\* Who deletes the key of the row has held it as both, or was overtaken by the
\* one who set it.
LEMMA KeysDeleted ==
    ASSUME TypeOK, Holds, KeysInv, NEW r \in Request, NEW k \in Key, NEW from,
           NEW to, DeleteObject(r, k, from, to),
           \/ k = new(r) /\ from = "check" /\ to = "forget"
           \/ k = old(r) /\ from = "delete_old" /\ to \in {"done", "delete_thumb"}
    PROVE  KeysInv'
<1> USE UploadsAssumption
<1>1. /\ Goto(r, from, to) /\ Overtakes(r) /\ to \in Stage
      /\ object' = [object EXCEPT ![k] = None]
      /\ remover' = [remover EXCEPT ![k] = r]
      /\ reusers' = IF old(r) = new(r) THEN reusers \cup {r} ELSE reusers
      /\ UNCHANGED <<row, setter>>
  BY DEF DeleteObject, Stage
<1>2. /\ pc[r] = from /\ pc'[r] = to
      /\ held'[r] = IF to = "done" THEN NoRow ELSE held[r]
      /\ \A q \in Request \ {r} : pc'[q] = pc[q] /\ held'[q] = held[q]
  BY <1>1, Moves
<1>3. /\ \A q \in Request : missed[q] \subseteq missed'[q]
      /\ \A q \in Request \ {r} : Open(q) => r \in missed'[q]
  BY <1>1, Overtaken
<1>4. /\ \A x \in Key : object'[x] = IF x = k THEN None ELSE object[x]
      /\ \A x \in Key : remover'[x] = IF x = k THEN r ELSE remover[x]
  BY <1>1 DEF TypeOK
<1>5. KeyLoaded'
  BY <1>1, <1>2, <1>3 DEF KeysInv, KeyLoaded, old
<1>6. KeyCommitted'
  BY <1>1, <1>2, <1>3 DEF KeysInv, KeyCommitted, old, new
<1>7. ObjectChecked'
  <2> SUFFICES ASSUME NEW q \in Request, pc'[q] = "commit",
                      object'[new(q)'] = None
               PROVE  remover'[new(q)'] \in missed'[q]
    BY DEF ObjectChecked
  <2>1. q # r /\ pc[q] = "commit" /\ new(q)' = new(q)
    BY <1>2 DEF new
  <2>2. new(q) \in Key /\ Open(q)
    BY <2>1 DEF Holds, Confirming, Open
  <2> QED
    BY <1>3, <1>4, <2>1, <2>2 DEF KeysInv, ObjectChecked
<1>8. KeyDanglesOnlyByReuseOrOverlap'
  <2> SUFFICES ASSUME row.key # None, object'[row.key] = None
               PROVE  LET d == remover'[row.key] IN
                        \/ d \in reusers'
                        \/ d \in Request /\ setter \in missed'[d]
                        \/ setter \in Request /\ d \in missed'[setter]
    BY <1>1 DEF KeyDanglesOnlyByReuseOrOverlap
  <2>0. row.key \in Key
    BY DEF TypeOK, Row
  <2>1. CASE row.key = k
    <3>1. remover'[row.key] = r
      BY <1>4, <2>1
    <3>2. CASE old(r) = new(r)
      BY <1>1, <3>1, <3>2
    <3>3. CASE old(r) # new(r)
      <4>1. setter \in missed[r]
        BY <1>2, <2>1, <3>3 DEF KeysInv, KeyLoaded, KeyCommitted
      <4> QED
        BY <1>3, <3>1, <4>1
    <3> QED
      BY <3>2, <3>3
  <2>2. CASE row.key # k
    <3>1. object[row.key] = None /\ remover'[row.key] = remover[row.key]
      BY <1>4, <2>0, <2>2
    <3>2. remover[row.key] \in Request \cup {Seed}
      BY <2>0 DEF TypeOK
    <3> QED
      BY <1>1, <1>3, <3>1, <3>2 DEF KeysInv, KeyDanglesOnlyByReuseOrOverlap
  <2> QED
    BY <2>1, <2>2
<1> QED
  BY <1>5, <1>6, <1>7, <1>8 DEF KeysInv

\* A commit makes known to all that are open who set the key, and what it sets
\* it to was there when it looked.
LEMMA KeysCommitted ==
    ASSUME TypeOK, Holds, KeysInv, NEW r \in Request, NEW to \in Stage,
           Commit(r, to), to \in {"done", "delete_old", "enqueue"}
    PROVE  KeysInv'
<1> USE UploadsAssumption
<1>1. /\ Goto(r, "commit", to) /\ Overtakes(r)
      /\ row'.key = IF new(r) # old(r) /\ new(r) # row.key THEN new(r) ELSE row.key
      /\ setter' = IF new(r) # old(r) THEN r ELSE setter
      /\ UNCHANGED <<object, remover, reusers>>
  BY DEF Commit
<1>2. /\ pc[r] = "commit" /\ pc'[r] = to
      /\ held'[r] = IF to = "done" THEN NoRow ELSE held[r]
      /\ \A q \in Request \ {r} : pc'[q] = pc[q] /\ held'[q] = held[q]
  BY <1>1, Moves
<1>3. /\ \A q \in Request : missed[q] \subseteq missed'[q]
      /\ \A q \in Request \ {r} : Open(q) => r \in missed'[q]
  BY <1>1, Overtaken
<1>4. KeyLoaded'
  <2> SUFFICES ASSUME NEW q \in Request,
                      pc'[q] \in {"presign", "check", "forget", "commit"},
                      row'.key # old(q)'
               PROVE  setter' \in missed'[q]
    BY DEF KeyLoaded
  <2>1. q # r /\ pc'[q] = pc[q] /\ old(q)' = old(q)
    BY <1>2 DEF old
  <2>2. Open(q)
    BY <2>1 DEF Open
  <2> QED
    BY <1>1, <1>3, <2>1, <2>2 DEF KeysInv, KeyLoaded
<1>5. KeyCommitted'
  <2> SUFFICES ASSUME NEW q \in Request,
                      pc'[q] \in {"delete_old", "enqueue"} \cup Cleaning,
                      new(q)' # old(q)', row'.key # new(q)'
               PROVE  setter' \in missed'[q]
    BY DEF KeyCommitted
  <2>1. q # r
    BY <1>1, <1>2 DEF old, new
  <2>2. pc'[q] = pc[q] /\ old(q)' = old(q) /\ new(q)' = new(q) /\ Open(q)
    BY <1>2, <2>1 DEF old, new, Open
  <2> QED
    BY <1>1, <1>3, <2>1, <2>2 DEF KeysInv, KeyCommitted
<1>6. ObjectChecked'
  BY <1>1, <1>2, <1>3 DEF KeysInv, ObjectChecked, new
<1>7. KeyDanglesOnlyByReuseOrOverlap'
  <2>1. CASE new(r) # old(r)
    <3>1. row'.key = new(r) /\ setter' = r
      BY <1>1, <2>1
    <3>2. object[new(r)] = None => remover[new(r)] \in missed[r]
      BY <1>2 DEF KeysInv, ObjectChecked
    <3> QED
      BY <1>1, <1>3, <3>1, <3>2 DEF KeyDanglesOnlyByReuseOrOverlap
  <2>2. CASE new(r) = old(r)
    BY <1>1, <1>3, <2>2 DEF KeysInv, KeyDanglesOnlyByReuseOrOverlap
  <2> QED
    BY <2>1, <2>2
<1> QED
  BY <1>4, <1>5, <1>6, <1>7 DEF KeysInv

LEMMA KeysStep ==
    ASSUME TypeOK, Holds, KeysInv, [Next]_vars
    PROVE  KeysInv'
<1> USE UploadsAssumption, NoContentAssumption
<1>1. ASSUME NEW r \in Request, Loads(r)
      PROVE  KeysInv'
  <2>1. PICK to \in {"presign", "check"} : Load(r, to)
    BY <1>1 DEF Loads
  <2>2. /\ UNCHANGED <<row, object, missed, setter, remover, reusers>>
        /\ pc'[r] = to /\ held'[r] = row
        /\ \A q \in Request \ {r} : pc'[q] = pc[q] /\ held'[q] = held[q]
    BY <2>1 DEF TypeOK, Load, stores, history
  <2>3. KeyLoaded'
    BY <2>2 DEF KeysInv, KeyLoaded, old
  <2>4. KeyCommitted'
    BY <2>2 DEF KeysInv, KeyCommitted, old, new
  <2>5. ObjectChecked'
    BY <2>2 DEF KeysInv, ObjectChecked, new
  <2> QED
    BY <2>2, <2>3, <2>4, <2>5 DEF KeysInv, KeyDanglesOnlyByReuseOrOverlap
<1>2. ASSUME NEW r \in Request, Refuses(r)
      PROVE  KeysInv'
  <2>1. PICK from : Refuse(r, from)
    BY <1>2 DEF Refuses
  <2> QED
    BY <2>1, KeysUntouched DEF Refuse, stores, history, Stage
<1>3. ASSUME NEW r \in Request, Presigns(r)
      PROVE  KeysInv'
  <2>1. PICK k, from : PresignCommit(r, k, from)
    BY <1>3 DEF Presigns
  <2>2. row'.key = row.key
    BY <2>1 DEF TypeOK, Row, PresignCommit
  <2> QED
    BY <2>1, <2>2, KeysUntouched DEF PresignCommit, history, Stage
<1>4. ASSUME NEW r \in Request, Checks(r)
      PROVE  KeysInv'
  <2>1. PICK kinds \in SUBSET Kinds : Check(r, kinds)
    BY <1>4 DEF Checks
  <2>2. /\ UNCHANGED <<row, object, missed, setter, remover, reusers, held>>
        /\ pc[r] = "check" /\ pc'[r] = "commit" /\ object[new(r)] # None
        /\ \A q \in Request \ {r} : pc'[q] = pc[q]
    BY <2>1 DEF TypeOK, Check, stores
  <2>3. KeyLoaded'
    BY <2>2 DEF KeysInv, KeyLoaded, old
  <2>4. KeyCommitted'
    BY <2>2 DEF KeysInv, KeyCommitted, old, new
  <2>5. ObjectChecked'
    BY <2>2 DEF KeysInv, ObjectChecked, new
  <2> QED
    BY <2>2, <2>3, <2>4, <2>5 DEF KeysInv, KeyDanglesOnlyByReuseOrOverlap
<1>5. ASSUME NEW r \in Request, Rejects(r)
      PROVE  KeysInv'
  <2>1. DeleteObject(r, new(r), "check", "forget")
    BY <1>5 DEF Rejects, CheckTooLarge
  <2>2. new(r) \in Key
    BY <2>1 DEF Holds, Confirming, Goto, DeleteObject
  <2> QED
    BY <2>1, <2>2, KeysDeleted
<1>6. ASSUME NEW r \in Request, Forgets(r)
      PROVE  KeysInv'
  <2>1. ForgetPending(r)
    BY <1>6 DEF Forgets
  <2>2. row'.key = row.key
    BY <2>1 DEF TypeOK, Row, ForgetPending
  <2> QED
    BY <2>1, <2>2, KeysUntouched DEF ForgetPending, history, Stage
<1>7. ASSUME NEW r \in Request, Commits(r)
      PROVE  KeysInv'
  BY <1>7, KeysCommitted DEF Commits, Stage
<1>8. ASSUME NEW r \in Request, Deletes(r)
      PROVE  KeysInv'
  <2>1. PICK to \in {"done", "delete_thumb"} :
           DeleteObject(r, old(r), "delete_old", to)
    BY <1>8 DEF Deletes
  <2>2. old(r) \in Key
    BY <2>1 DEF Holds, Goto, DeleteObject
  <2> QED
    BY <2>1, <2>2, KeysDeleted
<1>9. ASSUME NEW r \in Request, Cleans(r)
      PROVE  KeysInv'
  BY <1>9, KeysUntouched DEF Cleans, DeleteVariant, history, Stage
<1>10. ASSUME NEW r \in Request, Enqueues(r)
       PROVE  KeysInv'
  BY <1>10, KeysUntouched DEF Enqueues, Enqueue, history, Stage
<1>11. ASSUME NEW r \in Request, Fail(r)
       PROVE  KeysInv'
  BY <1>11, KeysUntouched DEF Fail, stores, Stage
<1>12. ASSUME NEW u \in Put, NEW k \in urls, NEW kind \in Kinds,
              PutObject(u, k, kind)
       PROVE  KeysInv'
  <2>1. [put |-> u, kind |-> kind] \in Content
    BY DEF Content, Kinds
  <2>2. \A x \in Key : object'[x] = None => object[x] = None
    BY <1>12, <2>1 DEF TypeOK, PutObject
  <2>3. \A q \in Request : pc[q] = "commit" => new(q) \in Key
    BY DEF Holds, Confirming
  <2>4. row.key # None => row.key \in Key
    BY DEF TypeOK, Row
  <2>5. UNCHANGED <<row, pc, held, missed, setter, remover, reusers>>
    BY <1>12 DEF PutObject
  <2> QED
    BY <2>2, <2>3, <2>4, <2>5
    DEF KeysInv, KeyLoaded, KeyCommitted, ObjectChecked,
        KeyDanglesOnlyByReuseOrOverlap, old, new
<1>13. ASSUME UNCHANGED <<row, object, pc, held, missed, setter, remover, reusers>>
       PROVE  KeysInv'
  BY <1>13 DEF KeysInv, KeyLoaded, KeyCommitted, ObjectChecked,
               KeyDanglesOnlyByReuseOrOverlap, old, new
<1>14. ASSUME NEW t \in tasks, TaskMoves(t)
       PROVE  KeysInv'
  BY <1>13, <1>14 DEF TaskMoves, TaskGet, TaskPut, TaskFail, TaskRedelivered, history
<1>15. CASE UNCHANGED vars
  BY <1>13, <1>15 DEF vars, stores, history
<1> QED
  BY <1>1, <1>2, <1>3, <1>4, <1>5, <1>6, <1>7, <1>8, <1>9, <1>10, <1>11, <1>12,
     <1>14, <1>15, StepCases

\* The row of an app or a user points to an object that is there, unless the one
\* who deleted it took it for old and pending at once or overlapped the one who
\* set the key (app_archive_service.py, media_service.py), for any number of
\* requests in any order.
THEOREM KeysDangleRarely == Spec => []KeyDanglesOnlyByReuseOrOverlap
<1>1. Init => TypeOK /\ Holds /\ KeysInv
  BY TypeInit, KeysInit
<1>2. TypeOK /\ Holds /\ KeysInv /\ [Next]_vars => TypeOK' /\ Holds' /\ KeysInv'
  BY TypeStep, KeysStep
<1>3. KeysInv => KeyDanglesOnlyByReuseOrOverlap
  BY DEF KeysInv
<1> QED
  BY <1>1, <1>2, <1>3, PTL DEF Spec

-----------------------------------------------------------------------------
(* A file that was replaced is gone.                                       *)

Excused(k) ==
    \/ slot = "avatar" \/ k \in late
    \/ replacer[k] \in failed \/ missed[replacer[k]] # {}

\* Who replaced a key is on the way to removing what it names, or has done it.
Removed(k) ==
    LET r == replacer[k] IN
    r # None =>
        \/ Excused(k)
        \/ pc[r] = "delete_old" /\ old(r) = k
        \/ pc[r] = "delete_thumb" /\ old(r) = k /\ object[k] = None
        \/ /\ pc[r] = "delete_medium" /\ old(r) = k /\ object[k] = None
           /\ variant[k]["thumb"] = None
        \/ /\ pc[r] \in {"enqueue", "done"} /\ object[k] = None
           /\ slot = "icon" => \A z \in Size : variant[k][z] = None

AllRemoved == \A k \in Key : Removed(k)

\* A key is no worse for what others do, if they write nothing to it that goes
\* unnoticed.
LEMMA RemovedKept ==
    ASSUME TypeOK, Holds, NEW k \in Key, Removed(k), slot' = slot,
           replacer'[k] = replacer[k],
           replacer[k] # None =>
             /\ k \in late => k \in late'
             /\ replacer[k] \in failed => replacer[k] \in failed'
             /\ missed[replacer[k]] \subseteq missed'[replacer[k]]
             /\ object[k] = None => object'[k] = None \/ k \in late'
             /\ slot = "icon" => \A z \in Size : variant[k][z] = None =>
                  variant'[k][z] = None \/ k \in late'
             /\ \/ pc'[replacer[k]] = pc[replacer[k]]
                \/ pc[replacer[k]] \notin {"delete_old", "enqueue", "done"} \cup Cleaning
                \/ pc[replacer[k]] = "enqueue" /\ pc'[replacer[k]] = "done"
             /\ pc[replacer[k]] \in {"delete_old"} \cup Cleaning =>
                  held'[replacer[k]] = held[replacer[k]]
    PROVE  Removed(k)'
<1>1. SUFFICES ASSUME replacer[k] # None, ~ Excused(k)'
               PROVE  LET r == replacer[k] IN
                      \/ pc'[r] = "delete_old" /\ held'[r].key = k
                      \/ /\ pc'[r] = "delete_thumb" /\ held'[r].key = k
                         /\ object'[k] = None
                      \/ /\ pc'[r] = "delete_medium" /\ held'[r].key = k
                         /\ object'[k] = None /\ variant'[k]["thumb"] = None
                      \/ /\ pc'[r] \in {"enqueue", "done"} /\ object'[k] = None
                         /\ slot = "icon" => \A z \in Size : variant'[k][z] = None
  BY DEF Removed, Excused, old
<1>2. ~ Excused(k) /\ k \notin late'
  BY <1>1 DEF Excused
<1>3. pc[replacer[k]] = "delete_medium" => slot = "icon"
  BY <1>1 DEF TypeOK, Holds
<1>4. "thumb" \in Size
  BY DEF Size
<1> QED
  BY <1>1, <1>2, <1>3, <1>4 DEF Removed, old

LEMMA RemovedInit ==
    ASSUME Init
    PROVE  AllRemoved
BY DEF Init, AllRemoved, Removed

\* A step of r before its commit.
LEMMA RemovedEarly ==
    ASSUME TypeOK, Holds, AllRemoved, NEW r \in Request, NEW to,
           pc[r] \in {"new", "presign", "check", "forget"},
           pc'[r] = to,
           \A q \in Request \ {r} : pc'[q] = pc[q] /\ held'[q] = held[q],
           \A q \in Request : missed[q] \subseteq missed'[q],
           \A k \in Key : object[k] = None => object'[k] = None,
           UNCHANGED <<slot, variant, replacer, late, failed>>
    PROVE  AllRemoved'
<1> SUFFICES ASSUME NEW k \in Key PROVE Removed(k)'
  BY DEF AllRemoved
<1>1. Removed(k) /\ replacer[k] \in Request \cup {None}
  BY DEF AllRemoved, TypeOK
<1>2. replacer[k] = r \/ replacer[k] \in Request \ {r} \/ replacer[k] = None
  BY <1>1
<1> QED
  BY <1>1, <1>2, RemovedKept

LEMMA RemovedStep ==
    ASSUME TypeOK, Holds, KeysInv, AllRemoved, [Next]_vars
    PROVE  AllRemoved'
<1> USE UploadsAssumption
<1>0. \A k \in Key : Removed(k) /\ replacer[k] \in Request \cup {None}
  BY DEF AllRemoved, TypeOK
<1>1. ASSUME NEW r \in Request, Loads(r)
      PROVE  AllRemoved'
  <2>1. PICK to : Load(r, to)
    BY <1>1 DEF Loads
  <2> QED
    BY <2>1, RemovedEarly DEF Load, stores, history, TypeOK
<1>2. ASSUME NEW r \in Request, Refuses(r)
      PROVE  AllRemoved'
  <2>1. PICK from \in {"new", "check"} : Refuse(r, from)
    BY <1>2 DEF Refuses
  <2>2. Goto(r, from, "done") /\ UNCHANGED <<slot, stores, history>>
    BY <2>1 DEF Refuse
  <2> QED
    BY <2>2, Moves, RemovedEarly DEF stores, history, Stage
<1>3. ASSUME NEW r \in Request, Presigns(r)
      PROVE  AllRemoved'
  <2>1. PICK k \in Key, from \in {"new", "presign"} : PresignCommit(r, k, from)
    BY <1>3 DEF Presigns, Key
  <2>2. /\ Goto(r, from, "done")
        /\ UNCHANGED <<slot, object, variant, history>>
    BY <2>1 DEF PresignCommit
  <2> QED
    BY <2>2, Moves, RemovedEarly DEF history, Stage
<1>4. ASSUME NEW r \in Request, Checks(r)
      PROVE  AllRemoved'
  <2>1. PICK kinds : Check(r, kinds)
    BY <1>4 DEF Checks
  <2> QED
    BY <2>1, RemovedEarly DEF Check, stores, TypeOK
<1>5. ASSUME NEW r \in Request, Rejects(r)
      PROVE  AllRemoved'
  <2>1. DeleteObject(r, new(r), "check", "forget")
    BY <1>5 DEF Rejects, CheckTooLarge
  <2>2. /\ Goto(r, "check", "forget") /\ Overtakes(r)
        /\ object' = [object EXCEPT ![new(r)] = None]
        /\ UNCHANGED <<slot, variant, replacer, late, failed>>
    BY <2>1 DEF DeleteObject
  <2>3. \A k \in Key : object[k] = None => object'[k] = None
    BY <2>2 DEF TypeOK
  <2> QED
    BY <2>2, <2>3, Moves, Overtaken, RemovedEarly DEF Stage
<1>6. ASSUME NEW r \in Request, Forgets(r)
      PROVE  AllRemoved'
  <2>1. Goto(r, "forget", "done") /\ UNCHANGED <<slot, object, variant, history>>
    BY <1>6 DEF Forgets, ForgetPending
  <2> QED
    BY <2>1, Moves, RemovedEarly DEF history, Stage
<1>7. ASSUME NEW r \in Request, Commits(r)
      PROVE  AllRemoved'
  <2>1. PICK to \in {"done", "delete_old", "enqueue"} :
           /\ Commit(r, to)
           /\ slot = "avatar" \/ old(r) = None \/ to = "delete_old"
    BY <1>7 DEF Commits
  <2> DEFINE moves == new(r) # old(r) /\ new(r) # row.key
  <2>2. /\ Goto(r, "commit", to) /\ Overtakes(r)
        /\ \A k \in Key : replacer'[k] = IF ~moves THEN replacer[k]
                                         ELSE IF k = row.key THEN r
                                         ELSE IF k = new(r) THEN None
                                         ELSE replacer[k]
        /\ late' = IF moves THEN late \ {row.key} ELSE late
        /\ UNCHANGED <<slot, object, variant, failed>>
    BY <2>1 DEF Commit
  <2>3. /\ pc[r] = "commit" /\ pc'[r] = to
        /\ to # "done" => held'[r] = held[r]
        /\ \A q \in Request \ {r} : pc'[q] = pc[q] /\ held'[q] = held[q]
    BY <2>2, Moves DEF Stage
  <2>4. /\ \A q \in Request : missed[q] \subseteq missed'[q]
        /\ missed'[r] = missed[r]
    BY <2>2, Overtaken
  <2> SUFFICES ASSUME NEW k \in Key PROVE Removed(k)'
    BY DEF AllRemoved
  <2>5. CASE moves /\ k = row.key
    <3>1. replacer'[k] = r
      BY <2>2, <2>5
    <3>2. missed[r] = {} => old(r) = k
      BY <2>3, <2>5 DEF KeysInv, KeyLoaded
    <3>3. old(r) = k /\ slot # "avatar" => to = "delete_old" /\ held'[r] = held[r]
      BY <2>1, <2>3 DEF Key
    <3> QED
      BY <2>2, <2>3, <2>4, <3>1, <3>2, <3>3 DEF Removed, Excused, old
  <2>6. CASE moves /\ k # row.key /\ k = new(r)
    BY <2>2, <2>6 DEF Removed
  <2>7. CASE ~ moves \/ (k # row.key /\ k # new(r))
    <3>1. replacer'[k] = replacer[k] /\ (k \in late => k \in late')
      BY <2>2, <2>7
    <3>2. replacer[k] = r \/ replacer[k] \in Request \ {r} \/ replacer[k] = None
      BY <1>0
    <3> HIDE DEF moves
    <3> QED
      BY <1>0, <2>2, <2>3, <2>4, <3>1, <3>2, RemovedKept
  <2> QED
    BY <2>5, <2>6, <2>7
<1>8. ASSUME NEW r \in Request, Deletes(r)
      PROVE  AllRemoved'
  <2>1. PICK to \in {"done", "delete_thumb"} :
           /\ DeleteObject(r, old(r), "delete_old", to)
           /\ to = "done" => slot = "archive"
    BY <1>8 DEF Deletes
  <2>2. /\ Goto(r, "delete_old", to) /\ Overtakes(r)
        /\ object' = [object EXCEPT ![old(r)] = None]
        /\ UNCHANGED <<slot, variant, replacer, late, failed>>
    BY <2>1 DEF DeleteObject
  <2>3. /\ pc[r] = "delete_old" /\ pc'[r] = to
        /\ to # "done" => held'[r] = held[r]
        /\ \A q \in Request \ {r} : pc'[q] = pc[q] /\ held'[q] = held[q]
    BY <2>2, Moves DEF Stage
  <2>4. \A q \in Request : missed[q] \subseteq missed'[q]
    BY <2>2, Overtaken
  <2>5. \A k \in Key : object'[k] = IF k = old(r) THEN None ELSE object[k]
    BY <2>2 DEF TypeOK
  <2> SUFFICES ASSUME NEW k \in Key PROVE Removed(k)'
    BY DEF AllRemoved
  <2>6. CASE replacer[k] = r
    <3>1. Excused(k) => Excused(k)'
      BY <2>2, <2>4, <2>6 DEF Excused
    <3>2. Excused(k) \/ old(r) = k
      BY <1>0, <2>3, <2>6 DEF Removed
    <3> QED
      BY <2>1, <2>2, <2>3, <2>5, <2>6, <3>1, <3>2 DEF Removed, old
  <2>7. CASE replacer[k] # r
    BY <1>0, <2>2, <2>3, <2>4, <2>5, <2>7, RemovedKept
  <2> QED
    BY <2>6, <2>7
<1>9. ASSUME NEW r \in Request, Cleans(r)
      PROVE  AllRemoved'
  <2>1. PICK z \in Size, from \in Cleaning, to \in {"delete_medium", "enqueue"} :
           /\ DeleteVariant(r, old(r), z, from, to) /\ slot = "icon"
           /\ \/ z = "thumb" /\ from = "delete_thumb" /\ to = "delete_medium"
              \/ z = "medium" /\ from = "delete_medium" /\ to = "enqueue"
    BY <1>9 DEF Cleans, Size
  <2>2. /\ Goto(r, from, to) /\ UNCHANGED <<slot, object, history>>
        /\ variant' = [variant EXCEPT ![Stem(slot, old(r))][z] = None]
    BY <2>1 DEF DeleteVariant
  <2>3. /\ pc[r] = from /\ pc'[r] = to /\ held'[r] = held[r]
        /\ \A q \in Request \ {r} : pc'[q] = pc[q] /\ held'[q] = held[q]
    BY <2>1, <2>2, Moves DEF Stage
  <2>4. \A k \in Key, y \in Size :
          variant'[k][y] = IF k = old(r) /\ y = z THEN None ELSE variant[k][y]
    BY <2>1, <2>2 DEF TypeOK, Stem, Stems
  <2> SUFFICES ASSUME NEW k \in Key PROVE Removed(k)'
    BY DEF AllRemoved
  <2>5. CASE replacer[k] = r
    <3>1. Excused(k) => Excused(k)'
      BY <2>2, <2>5 DEF Excused, history
    <3>2. \/ Excused(k)
          \/ /\ old(r) = k /\ object[k] = None
             /\ z = "medium" => variant[k]["thumb"] = None
      BY <1>0, <2>1, <2>3, <2>5 DEF Removed
    <3>3. ASSUME ~ Excused(k)
          PROVE  /\ old(r)' = k /\ object'[k] = None /\ replacer'[k] = r
                 /\ variant'[k]["thumb"] = None
                 /\ z = "medium" => \A y \in Size : variant'[k][y] = None
      BY <2>1, <2>2, <2>3, <2>4, <2>5, <3>2, <3>3 DEF Size, old, history
    <3> QED
      BY <2>1, <2>3, <3>1, <3>3 DEF Removed
  <2>6. CASE replacer[k] # r
    BY <1>0, <2>2, <2>3, <2>4, <2>6, RemovedKept DEF history
  <2> QED
    BY <2>5, <2>6
<1>10. ASSUME NEW r \in Request, Enqueues(r)
       PROVE  AllRemoved'
  <2>1. Goto(r, "enqueue", "done") /\ UNCHANGED <<slot, object, variant, history>>
    BY <1>10 DEF Enqueues, Enqueue
  <2>2. /\ pc[r] = "enqueue" /\ pc'[r] = "done"
        /\ \A q \in Request \ {r} : pc'[q] = pc[q] /\ held'[q] = held[q]
    BY <2>1, Moves DEF Stage
  <2> SUFFICES ASSUME NEW k \in Key PROVE Removed(k)'
    BY DEF AllRemoved
  <2>3. replacer[k] = r \/ replacer[k] \in Request \ {r} \/ replacer[k] = None
    BY <1>0
  <2> QED
    BY <1>0, <2>1, <2>2, <2>3, RemovedKept DEF history
<1>11. ASSUME NEW r \in Request, Fail(r)
       PROVE  AllRemoved'
  <2>1. PICK from : Goto(r, from, "done")
    BY <1>11 DEF Fail
  <2>2. /\ UNCHANGED <<slot, object, variant, missed, replacer, late>>
        /\ failed' = failed \cup {r}
    BY <1>11 DEF Fail, stores
  <2>3. \A q \in Request \ {r} : pc'[q] = pc[q] /\ held'[q] = held[q]
    BY <2>1, Moves DEF Stage
  <2> SUFFICES ASSUME NEW k \in Key PROVE Removed(k)'
    BY DEF AllRemoved
  <2>4. CASE replacer[k] = r
    BY <2>2, <2>4 DEF Removed, Excused
  <2>5. CASE replacer[k] # r
    BY <1>0, <2>2, <2>3, <2>5, RemovedKept
  <2> QED
    BY <2>4, <2>5
<1>12. ASSUME NEW u \in Put, NEW x \in urls, NEW kind \in Kinds,
              PutObject(u, x, kind)
       PROVE  AllRemoved'
  <2>1. /\ object' = [object EXCEPT ![x] = [put |-> u, kind |-> kind]]
        /\ late' = IF replacer[x] # None THEN late \cup {x} ELSE late
        /\ UNCHANGED <<slot, variant, pc, held, missed, replacer, failed>>
    BY <1>12 DEF PutObject
  <2> SUFFICES ASSUME NEW k \in Key PROVE Removed(k)'
    BY DEF AllRemoved
  <2>2. replacer[k] # None => object'[k] = object[k] \/ k \in late'
    BY <2>1 DEF TypeOK
  <2> QED
    BY <1>0, <2>1, <2>2, RemovedKept
<1>13. ASSUME UNCHANGED <<slot, object, variant, pc, held, missed, replacer, late,
                          failed>>
       PROVE  AllRemoved'
  <2> SUFFICES ASSUME NEW k \in Key PROVE Removed(k)'
    BY DEF AllRemoved
  <2> QED
    BY <1>0, <1>13, RemovedKept
<1>14. ASSUME NEW t \in tasks, TaskPut(t)
       PROVE  AllRemoved'
  <2>1. UNCHANGED <<slot, object, pc, held, missed, replacer, failed>>
    BY <1>14 DEF TaskPut
  <2>2. CASE UNCHANGED <<variant, late>>
    BY <1>13, <2>1, <2>2
  <2>3. CASE /\ variant' = [variant EXCEPT ![Stem(slot, t.key)][t.next] = t.got]
             /\ late' = IF replacer[t.key] # None THEN late \cup {t.key} ELSE late
    <3> SUFFICES ASSUME NEW k \in Key PROVE Removed(k)'
      BY DEF AllRemoved
    <3>1. replacer[k] # None /\ slot = "icon" => variant'[k] = variant[k] \/ k \in late'
      BY <2>3 DEF TypeOK, Stem, Stems
    <3> QED
      BY <1>0, <2>1, <2>3, <3>1, RemovedKept
  <2> QED
    BY <1>14, <2>2, <2>3 DEF TaskPut
<1>15. ASSUME NEW t \in tasks, TaskGet(t) \/ TaskFail(t) \/ TaskRedelivered(t)
       PROVE  AllRemoved'
  BY <1>13, <1>15 DEF TaskGet, TaskFail, TaskRedelivered, history
<1>16. CASE UNCHANGED vars
  BY <1>13, <1>16 DEF vars, stores, history
<1> QED
  BY <1>1, <1>2, <1>3, <1>4, <1>5, <1>6, <1>7, <1>8, <1>9, <1>10, <1>11, <1>12,
     <1>14, <1>15, <1>16, StepCases DEF TaskMoves

\* A replaced archive or icon is gone, with its variants, once no request and no
\* task is under way, unless the request that replaced it failed or was
\* overtaken, or somebody wrote to its key again; only avatars stay, whose
\* deletion is called but not awaited (media_service.py:122).
THEOREM ReplacedFilesGo == Spec => []ReplacedFileGone
<1>1. Init => TypeOK /\ Holds /\ KeysInv /\ AllRemoved
  BY TypeInit, KeysInit, RemovedInit
<1>2. TypeOK /\ Holds /\ KeysInv /\ AllRemoved /\ [Next]_vars =>
        TypeOK' /\ Holds' /\ KeysInv' /\ AllRemoved'
  BY TypeStep, KeysStep, RemovedStep
<1>3. TypeOK /\ AllRemoved => ReplacedFileGone
  BY DEF TypeOK, AllRemoved, Removed, Excused, ReplacedFileGone, AtRest, Open
<1> QED
  BY <1>1, <1>2, <1>3, PTL DEF Spec

-----------------------------------------------------------------------------
(* The variants of an image.  Five kinds of step are told apart by what    *)
(* they do to the row, to who is past the check, and to tasks.             *)

Others(r) == \A q \in Request \ {r} : pc'[q] = pc[q] /\ held'[q] = held[q]

\* r is not past the check, nor will it be.
Prepared(r) ==
    /\ pc[r] \in {"new", "presign", "check", "forget"}
    /\ pc'[r] \in {"presign", "check", "forget", "done"}
    /\ held'[r] \in {NoRow, row, held[r]}
    /\ pc'[r] = "check" => held'[r] = row
    /\ Others(r)
    /\ row'.key = row.key
    /\ \/ row'.pending \in {None, row.pending}
       \/ slot # "icon" /\ row'.pending \in Name
       \/ slot = "icon" /\ row'.pending = r /\ pc[r] = "new" /\ pc'[r] = "done"
    /\ \A k \in Key : object'[k] \in {None, object[k]}
    /\ \A q \in Request : missed[q] \subseteq missed'[q]
    /\ UNCHANGED <<slot, variant, tasks, replacer, spoilt>>

\* r is past the check.
Checked(r) ==
    /\ pc[r] = "check" /\ pc'[r] = "commit"
    /\ Others(r) /\ held' = held
    /\ spoilt' = IF missed[r] # {} \/ Busy(Stem(slot, new(r)))
                THEN spoilt \cup {Stem(slot, new(r))}
                ELSE spoilt \ {Stem(slot, new(r))}
    /\ UNCHANGED <<slot, row, object, variant, tasks, missed, replacer>>

Committed(r) ==
    /\ pc[r] = "commit" /\ pc'[r] \in {"done", "delete_old", "enqueue"}
    /\ pc'[r] = "done" => slot = "archive"
    /\ pc'[r] = "delete_old" => old(r) \in Key
    /\ slot = "avatar" => pc'[r] = "enqueue"
    /\ held'[r] = IF pc'[r] = "done" THEN NoRow ELSE held[r]
    /\ Others(r)
    /\ row'.pending = None
    /\ row'.key = IF new(r) # old(r) /\ new(r) # row.key THEN new(r) ELSE row.key
    /\ \A k \in Key : \/ replacer'[k] = replacer[k]
                      \/ replacer'[k] = r
                      \/ k = new(r) /\ row'.key = new(r)
    /\ row.key \in Key /\ row'.key # row.key => replacer'[row.key] = r
    /\ \A k \in Key : replacer'[k] = replacer[k] \/ k = row.key \/ k = row'.key
    /\ \A q \in Request : missed[q] \subseteq missed'[q]
    /\ \A q \in Request \ {r} : Open(q) => r \in missed'[q]
    /\ UNCHANGED <<slot, object, variant, tasks, spoilt>>

\* r does what is left after the commit, or ends.
Finished(r) ==
    /\ pc[r] \in {"forget", "delete_old", "enqueue"} \cup Cleaning
    /\ \/ pc'[r] = "done" /\ held'[r] = NoRow
       \/ /\ pc[r] \in {"delete_old"} \cup Cleaning /\ slot = "icon"
          /\ pc'[r] \in {"enqueue"} \cup Cleaning
          /\ held'[r] = held[r]
    /\ Others(r)
    /\ \A k \in Key : object'[k] \in {None, object[k]}
    /\ \/ tasks' = tasks
       \/ /\ pc[r] = "enqueue" /\ pc'[r] = "done"
          /\ tasks' = tasks \cup {Ordered(r)}
    /\ pc[r] # "forget" /\ pc'[r] = "done" =>
         \/ Ordered(r) \in tasks'
         \/ Stem(slot, new(r)) \in spoilt'
         \/ slot = "archive"
    /\ \A m \in Stems :
         \/ variant'[m] = variant[m]
         \/ pc[r] \in Cleaning /\ m = old(r)
    /\ spoilt \subseteq spoilt'
    /\ \A q \in Request : missed[q] \subseteq missed'[q]
    /\ UNCHANGED <<slot, row, replacer>>

\* No request goes on.
Aside == UNCHANGED <<slot, row, pc, held, missed, replacer>>

LEMMA PreparedSteps ==
    ASSUME TypeOK, Holds, NEW r \in Request,
           Loads(r) \/ Refuses(r) \/ Presigns(r) \/ Rejects(r) \/ Forgets(r)
    PROVE  Prepared(r)
<1>0. \A q \in Request : missed[q] \subseteq missed[q]
  OBVIOUS
<1>1. CASE Loads(r)
  <2>1. PICK to \in {"presign", "check"} : Load(r, to)
    BY <1>1 DEF Loads
  <2>2. /\ pc[r] = "new" /\ pc'[r] = to /\ held'[r] = row /\ Others(r)
        /\ UNCHANGED <<row, object, missed, slot, variant, tasks, replacer, spoilt>>
    BY <2>1 DEF TypeOK, Load, Others, stores, history
  <2> QED
    BY <2>2 DEF Prepared
<1>2. CASE Refuses(r)
  <2>1. PICK from \in {"new", "check"} : Refuse(r, from)
    BY <1>2 DEF Refuses
  <2>2. Goto(r, from, "done") /\ UNCHANGED <<slot, stores, history>>
    BY <2>1 DEF Refuse
  <2> QED
    BY <2>2, Moves DEF Prepared, Others, stores, history, Stage
<1>3. CASE Presigns(r)
  <2>1. PICK k \in Key, from \in {"new", "presign"} :
           /\ PresignCommit(r, k, from)
           /\ \/ slot # "icon" /\ k \in Name
              \/ slot = "icon" /\ k = r /\ from = "new"
    BY <1>3 DEF Presigns, Key
  <2>2. /\ Goto(r, from, "done")
        /\ row' = [row EXCEPT !.pending = IF k = held[r].pending THEN @ ELSE k]
        /\ UNCHANGED <<slot, object, variant, tasks, history>>
    BY <2>1 DEF PresignCommit
  <2>3. row'.key = row.key /\ row'.pending \in {row.pending, k}
    BY <2>2 DEF TypeOK, Row
  <2> QED
    BY <2>1, <2>2, <2>3, Moves DEF Prepared, Others, history, Stage
<1>4. CASE Rejects(r)
  <2>1. DeleteObject(r, new(r), "check", "forget")
    BY <1>4 DEF Rejects, CheckTooLarge
  <2>2. /\ Goto(r, "check", "forget") /\ Overtakes(r)
        /\ object' = [object EXCEPT ![new(r)] = None]
        /\ UNCHANGED <<slot, row, variant, tasks, replacer, spoilt>>
    BY <2>1 DEF DeleteObject
  <2>3. \A k \in Key : object'[k] \in {None, object[k]}
    BY <2>2 DEF TypeOK
  <2> QED
    BY <2>2, <2>3, Moves, Overtaken DEF Prepared, Others, Stage
<1>5. CASE Forgets(r)
  <2>1. /\ Goto(r, "forget", "done")
        /\ row' = [row EXCEPT !.pending = None]
        /\ UNCHANGED <<slot, object, variant, tasks, history>>
    BY <1>5 DEF Forgets, ForgetPending
  <2>2. row'.key = row.key /\ row'.pending = None
    BY <2>1 DEF TypeOK, Row
  <2> QED
    BY <2>1, <2>2, Moves DEF Prepared, Others, history, Stage
<1> QED
  BY <1>1, <1>2, <1>3, <1>4, <1>5

LEMMA CheckedSteps ==
    ASSUME TypeOK, NEW r \in Request, Checks(r)
    PROVE  Checked(r)
BY DEF TypeOK, Checks, Check, Checked, Others, stores

LEMMA CommittedSteps ==
    ASSUME TypeOK, Holds, NEW r \in Request, Commits(r)
    PROVE  Committed(r)
<1> USE UploadsAssumption
<1>1. PICK to \in {"done", "delete_old", "enqueue"} :
         /\ Commit(r, to)
         /\ to = "done" => slot = "archive"
         /\ to = "delete_old" => old(r) # None
         /\ slot = "avatar" => to = "enqueue"
  BY DEF Commits
<1> DEFINE moves == new(r) # old(r) /\ new(r) # row.key
<1>2. /\ Goto(r, "commit", to) /\ Overtakes(r)
      /\ row' = [key |-> IF moves THEN new(r) ELSE row.key, pending |-> None]
      /\ \A k \in Key : replacer'[k] = IF ~moves THEN replacer[k]
                                       ELSE IF k = row.key THEN r
                                       ELSE IF k = new(r) THEN None
                                       ELSE replacer[k]
      /\ UNCHANGED <<slot, object, variant, tasks, spoilt>>
  BY <1>1 DEF Commit
<1>3. old(r) \in Key \cup {None}
  BY DEF TypeOK, Row, old
<1>4. /\ pc[r] = "commit" /\ pc'[r] = to /\ Others(r)
      /\ held'[r] = IF to = "done" THEN NoRow ELSE held[r]
  BY <1>2, Moves DEF Stage, Others
<1>5. /\ \A q \in Request : missed[q] \subseteq missed'[q]
      /\ \A q \in Request \ {r} : Open(q) => r \in missed'[q]
  BY <1>2, Overtaken
<1> QED
  BY <1>1, <1>2, <1>3, <1>4, <1>5 DEF Committed

LEMMA FinishedSteps ==
    ASSUME TypeOK, Holds, NEW r \in Request,
           Deletes(r) \/ Cleans(r) \/ Enqueues(r) \/ Fail(r)
    PROVE  Finished(r)
<1>1. CASE Deletes(r)
  <2>1. PICK to \in {"done", "delete_thumb"} :
           /\ DeleteObject(r, old(r), "delete_old", to)
           /\ to = "done" => slot = "archive"
           /\ to # "done" => slot = "icon"
    BY <1>1 DEF Deletes
  <2>2. /\ Goto(r, "delete_old", to) /\ Overtakes(r)
        /\ object' = [object EXCEPT ![old(r)] = None]
        /\ UNCHANGED <<slot, row, variant, tasks, replacer, spoilt>>
    BY <2>1 DEF DeleteObject
  <2>3. \A k \in Key : object'[k] \in {None, object[k]}
    BY <2>2 DEF TypeOK
  <2> QED
    BY <2>1, <2>2, <2>3, Moves, Overtaken DEF Finished, Others, Stage
<1>2. CASE Cleans(r)
  <2>1. PICK z \in Size, from \in Cleaning, to \in {"delete_medium", "enqueue"} :
           DeleteVariant(r, old(r), z, from, to) /\ slot = "icon"
    BY <1>2 DEF Cleans, Size
  <2>2. /\ Goto(r, from, to)
        /\ variant' = [variant EXCEPT ![Stem(slot, old(r))][z] = None]
        /\ UNCHANGED <<slot, row, object, tasks, history>>
    BY <2>1 DEF DeleteVariant
  <2>3. \A m \in Stems : variant'[m] = variant[m] \/ m = old(r)
    BY <2>1, <2>2 DEF TypeOK, Stem
  <2>4. /\ pc[r] = from /\ pc'[r] = to /\ held'[r] = held[r] /\ Others(r)
    BY <2>1, <2>2, Moves DEF Others, Stage
  <2> QED
    BY <2>1, <2>2, <2>3, <2>4 DEF Finished, history
<1>3. CASE Enqueues(r)
  <2>1. /\ Goto(r, "enqueue", "done")
        /\ tasks' = tasks \cup {Ordered(r)}
        /\ UNCHANGED <<slot, row, object, variant, history>>
    BY <1>3 DEF Enqueues, Enqueue, Ordered
  <2> QED
    BY <2>1, Moves DEF Finished, Others, Stage, history
<1>4. CASE Fail(r)
  <2>1. PICK from \in {"forget", "delete_old", "enqueue"} \cup Cleaning :
           Goto(r, from, "done")
    BY <1>4 DEF Fail
  <2>2. /\ UNCHANGED <<slot, stores, missed, replacer>>
        /\ spoilt' = IF Past(r) THEN spoilt \cup {Stem(slot, new(r))} ELSE spoilt
    BY <1>4 DEF Fail
  <2>3. from # "forget" => Past(r)
    BY <2>1, Moves DEF Past, Stage
  <2> QED
    BY <2>1, <2>2, <2>3, Moves DEF Finished, Others, Stage, stores
<1> QED
  BY <1>1, <1>2, <1>3, <1>4

LEMMA AsideSteps ==
    ASSUME \/ \E u \in Put, k \in urls, kind \in Kinds : PutObject(u, k, kind)
           \/ \E t \in tasks : TaskMoves(t)
           \/ UNCHANGED vars
    PROVE  Aside /\ spoilt \subseteq spoilt'
BY DEF PutObject, TaskMoves, TaskGet, TaskPut, TaskFail, TaskRedelivered, vars,
       stores, history, Aside

StemOf(k) == Stem(slot, k)

\* The uuid4() of an icon is on nobody's hands before its request is answered.
Known(k) == row.key = k \/ replacer[k] # None

Fresh ==
    \A x \in Request :
        \/ pc[x] = "done"
        \/ /\ ~ Known(x) /\ row.pending # x
           /\ \A q \in Request : old(q) # x /\ new(q) # x

\* Of the uploads to a stem that is not spoilt, one at most is past its check.
Alone ==
    \A m \in Stems \ spoilt :
        /\ \A p, q \in Request :
              Past(p) /\ Past(q) /\ StemOf(new(p)) = m /\ StemOf(new(q)) = m => p = q
        /\ \A s, t \in tasks : StemOf(s.key) = m /\ StemOf(t.key) = m => s = t
        /\ \A q \in Request, t \in tasks :
              ~ (Past(q) /\ StemOf(new(q)) = m /\ StemOf(t.key) = m)

\* Avatars share one stem: what is past the check becomes the key and stays it.
Avatars ==
    slot = "avatar" /\ Seed \notin spoilt =>
        /\ \A q \in Request : pc[q] = "commit" => new(q) = row.key \/ new(q) # old(q)
        /\ \A q \in Request : pc[q] = "enqueue" => row.key = new(q)
        /\ \A t \in tasks : t.key = row.key

\* A task has read the image that is there.
Got ==
    \A t \in tasks :
        \/ t.got = None \/ StemOf(t.key) \in spoilt
        \/ object[t.key] \in {None, t.got}

\* The first variant a task has written to the row's stem is still there.
Wrote ==
    \A t \in tasks : t.next = "medium" =>
        /\ t.got # None
        /\ t.key = row.key /\ StemOf(t.key) \notin spoilt =>
             variant[StemOf(t.key)]["thumb"] = t.got

\* A key once replaced or replacing comes back only to who was overtaken.
KnownOld == \A q \in Request : old(q) # None => Known(old(q))

Icons ==
    slot = "icon" =>
        \A k \in Key : Known(k) =>
            /\ row.pending = k => row.key = k
            /\ \A q \in Request : new(q) = k /\ old(q) # k =>
                 /\ pc[q] = "check" => missed[q] # {}
                 /\ pc[q] = "commit" => k \in spoilt

OldIcons ==
    slot = "icon" =>
        \A r \in Request :
            pc[r] \in {"delete_old"} \cup Cleaning /\ old(r) # new(r) =>
                /\ row.pending # old(r)
                /\ row.key = old(r) => old(r) \in spoilt
                /\ \A q \in Request : new(q) = old(r) =>
                     /\ pc[q] = "check" => missed[q] # {}
                     /\ pc[q] = "commit" /\ old(q) # old(r) => old(r) \in spoilt

\* An image that is the key and not spoilt has its variants, or they are to come.
Variants ==
    slot # "archive" /\ row.key # None /\ object[row.key] # None
      /\ StemOf(row.key) \notin spoilt =>
        \/ object[row.key].kind = "junk"
        \/ \A z \in Size : variant[StemOf(row.key)][z] = object[row.key]
        \/ \E t \in tasks : t.key = row.key
        \/ \E q \in Request :
             \/ pc[q] = "commit" /\ StemOf(new(q)) = StemOf(row.key)
             \/ /\ pc[q] \in {"delete_old", "enqueue"} \cup Cleaning
                /\ new(q) = row.key

ImagesInv ==
    /\ Fresh /\ Alone /\ Avatars /\ Got /\ Wrote
    /\ KnownOld /\ Icons /\ OldIcons /\ Variants

LEMMA ImagesInit ==
    ASSUME Init
    PROVE  ImagesInv
<1> USE UploadsAssumption
<1>1. row.key \in Name \cup {None} /\ row.pending \in Name \cup {None}
  BY DEF Init, NoRow
<1>2. \A q \in Request : pc[q] = "new" /\ held[q] = NoRow /\ replacer[q] = None
  BY DEF Init, Key
<1>3. \A q \in Request : old(q) = None /\ new(q) = None /\ ~ Past(q)
  BY <1>2 DEF old, new, Past, NoRow
<1>4. Fresh
  BY <1>1, <1>2, <1>3 DEF Fresh, Known
<1>5. \A k \in Key : replacer[k] = None
  BY DEF Init
<1>6. Icons
  <2>1. row.pending # None => row.key \in Name
    BY DEF Init, NoRow
  <2>2. \A k \in Key : Known(k) => row.key = k
    BY <1>5 DEF Known
  <2> QED
    BY <1>2, <2>2 DEF Icons
<1>7. Variants
  <2> SUFFICES ASSUME slot # "archive", row.key # None
               PROVE  \A z \in Size : variant[StemOf(row.key)][z] = object[row.key]
    BY DEF Variants
  <2>1. row.key \in Key /\ object[row.key] = First(row.key)
    BY <1>1 DEF Init, Key
  <2>2. StemOf(row.key) \in Stems
    BY <2>1 DEF StemOf, Stem, Stems
  <2> QED
    BY <2>1, <2>2 DEF Init, StemOf
<1>8. Alone /\ Avatars /\ Got /\ Wrote /\ KnownOld /\ OldIcons
  <2>1. tasks = {}
    BY DEF Init
  <2> QED
    BY <1>2, <1>3, <2>1 DEF Alone, Avatars, Got, Wrote, KnownOld, OldIcons
<1> QED
  BY <1>4, <1>6, <1>7, <1>8 DEF ImagesInv

LEMMA StemIs ==
    ASSUME TypeOK, NEW k \in Key
    PROVE  StemOf(k) \in Stems /\ (slot = "icon" => StemOf(k) = k)
             /\ (slot = "avatar" => StemOf(k) = Seed)
BY DEF StemOf, Stem, Stems

\* The task that moves is gone, or has become another one about the same key.
LEMMA TaskSteps ==
    ASSUME TypeOK, NEW t \in tasks, TaskMoves(t)
    PROVE  \/ tasks' = tasks \ {t}
           \/ \E u \in Task :
                /\ tasks' = (tasks \ {t}) \cup {u} /\ u.key = t.key
                /\ \/ TaskGet(t) /\ u.got = object[t.key] /\ u.next = t.next
                   \/ TaskPut(t) /\ u.got = t.got /\ u.next = "medium"
                   \/ TaskRedelivered(t) /\ u.got = None /\ u.next = "thumb"
<1>1. t \in Task /\ t.key \in Key
  BY DEF TypeOK, Task
<1>2. object[t.key] \in Content \cup {None}
  BY <1>1 DEF TypeOK
<1>3. CASE TaskGet(t)
  <2>1. PICK u : u = [t EXCEPT !.got = object[t.key]]
    OBVIOUS
  <2>2. /\ u \in Task /\ u.key = t.key
        /\ u.got = object[t.key] /\ u.next = t.next
    BY <1>1, <1>2, <2>1, TaskBecomes
  <2>3. tasks' = tasks \ {t} \/ tasks' = (tasks \ {t}) \cup {u}
    BY <1>3, <2>1 DEF TaskGet
  <2> QED
    BY <1>3, <2>2, <2>3
<1>4. CASE TaskPut(t)
  <2>1. PICK u : u = [t EXCEPT !.next = "medium"]
    OBVIOUS
  <2>2. /\ u \in Task /\ u.key = t.key /\ u.got = t.got /\ u.next = "medium"
    BY <1>1, <1>2, <2>1, TaskBecomes DEF Task, Size
  <2>3. tasks' = tasks \ {t} \/ tasks' = (tasks \ {t}) \cup {u}
    BY <1>4, <2>1 DEF TaskPut
  <2> QED
    BY <1>4, <2>2, <2>3
<1>5. CASE TaskRedelivered(t)
  <2>1. PICK u : u = [t EXCEPT !.got = None, !.next = "thumb"]
    OBVIOUS
  <2>2. /\ u \in Task /\ u.key = t.key /\ u.got = None /\ u.next = "thumb"
    BY <1>1, <1>2, <2>1, TaskBecomes
  <2>3. tasks' = (tasks \ {t}) \cup {u}
    BY <1>5, <2>1 DEF TaskRedelivered
  <2> QED
    BY <1>5, <2>2, <2>3
<1> QED
  BY <1>3, <1>4, <1>5 DEF TaskMoves, TaskFail

LEMMA FreshStep ==
    ASSUME TypeOK, Holds, Fresh,
           \/ \E r \in Request : Prepared(r) \/ Checked(r) \/ Committed(r) \/ Finished(r)
           \/ Aside
    PROVE  Fresh'
<1> USE UploadsAssumption
<1> SUFFICES ASSUME NEW x \in Request
             PROVE  \/ pc'[x] = "done"
                    \/ /\ ~ Known(x)' /\ row'.pending # x
                       /\ \A q \in Request : held'[q].key # x /\ held'[q].pending # x
  BY DEF Fresh, old, new
<1> DEFINE Goal ==
          \/ pc'[x] = "done"
          \/ /\ ~ Known(x)' /\ row'.pending # x
             /\ \A q \in Request : held'[q].key # x /\ held'[q].pending # x
<1>0. x \in Key /\ x # None
  BY DEF Key
<1>1. \/ pc[x] = "done"
      \/ /\ row.key # x /\ replacer[x] = None /\ row.pending # x
         /\ \A q \in Request : held[q].key # x /\ held[q].pending # x
  BY DEF Fresh, Known, old, new
<1>2. ASSUME NEW r \in Request, Prepared(r)
      PROVE  Goal
  BY <1>0, <1>1, <1>2 DEF Prepared, Others, Known, NoRow
<1>3. ASSUME NEW r \in Request, Checked(r)
      PROVE  Goal
  BY <1>1, <1>3 DEF Checked, Others, Known
<1>4. ASSUME NEW r \in Request, Committed(r)
      PROVE  Goal
  BY <1>0, <1>1, <1>4 DEF Committed, Others, Known, new, NoRow
<1>5. ASSUME NEW r \in Request, Finished(r)
      PROVE  Goal
  BY <1>0, <1>1, <1>5 DEF Finished, Others, Known, NoRow
<1>6. CASE Aside
  BY <1>1, <1>6 DEF Aside, Known
<1> QED
  BY <1>2, <1>3, <1>4, <1>5, <1>6

\* A key that has been in the row is known for good.
LEMMA KnownStays ==
    ASSUME TypeOK, NEW k \in Key, Known(k),
           \/ \E r \in Request : Prepared(r) \/ Checked(r) \/ Committed(r) \/ Finished(r)
           \/ Aside
    PROVE  Known(k)'
<1> USE UploadsAssumption
<1>1. ASSUME NEW r \in Request, Committed(r)
      PROVE  Known(k)'
  BY <1>1 DEF Committed, Known
<1> QED
  BY <1>1 DEF Prepared, Checked, Finished, Aside, Known

LEMMA KnownOldStep ==
    ASSUME TypeOK, KnownOld,
           \/ \E r \in Request : Prepared(r) \/ Checked(r) \/ Committed(r) \/ Finished(r)
           \/ Aside
    PROVE  KnownOld'
<1> SUFFICES ASSUME NEW q \in Request, held'[q].key # None
             PROVE  row'.key = held'[q].key \/ replacer'[held'[q].key] # None
  BY DEF KnownOld, Known, old
<1>1. held'[q] \in {held[q], NoRow, row}
  BY DEF Prepared, Checked, Committed, Finished, Aside, Others
<1>2. held'[q].key \in {old(q), row.key}
  BY <1>1 DEF NoRow, old
<1>3. PICK k : k = held'[q].key
  OBVIOUS
<1>4. k \in Key
  BY <1>2, <1>3 DEF TypeOK, Row, old
<1>5. Known(k)
  BY <1>2, <1>3 DEF KnownOld, Known
<1>6. Known(k)'
  BY <1>4, <1>5, KnownStays
<1> QED
  BY <1>3, <1>6 DEF Known

\* Who is past the check, and what the tasks are about, but for Checked steps.
LEMMA AloneKept ==
    ASSUME TypeOK, Alone, slot' = slot, spoilt \subseteq spoilt',
           \A q \in Request : Past(q)' => Past(q) /\ held'[q] = held[q],
           \A t \in tasks' : \E s \in tasks : s.key = t.key,
           \A s, t \in tasks' : s.key = t.key /\ s # t =>
             \E u, v \in tasks : u.key = s.key /\ v.key = t.key /\ u # v
    PROVE  Alone'
<1> SUFFICES ASSUME NEW m \in Stems \ spoilt
             PROVE
        /\ \A p, q \in Request :
              Past(p)' /\ Past(q)' /\ StemOf(new(p))' = m /\ StemOf(new(q))' = m => p = q
        /\ \A s, t \in tasks' : StemOf(s.key)' = m /\ StemOf(t.key)' = m => s = t
        /\ \A q \in Request, t \in tasks' :
              ~ (Past(q)' /\ StemOf(new(q))' = m /\ StemOf(t.key)' = m)
  BY DEF Alone
<1>1. \A q \in Request : Past(q)' => StemOf(new(q))' = StemOf(new(q))
  BY DEF new, StemOf, Stem
<1>2. \A t : StemOf(t.key)' = StemOf(t.key)
  BY DEF StemOf, Stem
<1>3. ASSUME NEW s \in tasks', NEW t \in tasks', StemOf(s.key)' = m, StemOf(t.key)' = m
      PROVE  s = t
  <2>1. CASE s.key = t.key
    BY <1>2, <1>3, <2>1 DEF Alone
  <2>2. CASE s.key # t.key
    BY <1>2, <1>3, <2>2 DEF Alone
  <2> QED
    BY <2>1, <2>2
<1>4. ASSUME NEW q \in Request, NEW t \in tasks'
      PROVE  ~ (Past(q)' /\ StemOf(new(q))' = m /\ StemOf(t.key)' = m)
  BY <1>1, <1>2 DEF Alone
<1> QED
  BY <1>1, <1>3, <1>4 DEF Alone

LEMMA AloneStep ==
    ASSUME TypeOK, Holds, Alone, [Next]_vars
    PROVE  Alone'
<1>1. ASSUME tasks' = tasks, slot' = slot, spoilt \subseteq spoilt',
             \A q \in Request : Past(q)' => Past(q) /\ held'[q] = held[q]
      PROVE  Alone'
  BY <1>1, AloneKept
<1>2. ASSUME NEW r \in Request, Prepared(r)
      PROVE  Alone'
  BY <1>1, <1>2 DEF Prepared, Others, Past
<1>3. ASSUME NEW r \in Request, Checked(r)
      PROVE  Alone'
  <2>1. PICK M : M = Stem(slot, new(r))
    OBVIOUS
  <2>2. /\ pc[r] = "check" /\ pc'[r] = "commit"
        /\ Others(r) /\ held' = held /\ slot' = slot /\ tasks' = tasks
        /\ spoilt' = IF missed[r] # {} \/ Busy(M) THEN spoilt \cup {M} ELSE spoilt \ {M}
    BY <1>3, <2>1 DEF Checked
  <2>3. \A q \in Request : Past(q)' <=> Past(q) \/ q = r
    BY <2>2 DEF Past, Others
  <2>4. /\ \A q \in Request : StemOf(new(q))' = StemOf(new(q))
        /\ \A t : StemOf(t.key)' = StemOf(t.key)
        /\ StemOf(new(r)) = M
    BY <2>1, <2>2 DEF StemOf, Stem, new
  <2> SUFFICES ASSUME NEW m \in Stems \ spoilt'
               PROVE
        /\ \A p, q \in Request :
              Past(p)' /\ Past(q)' /\ StemOf(new(p))' = m /\ StemOf(new(q))' = m => p = q
        /\ \A s, t \in tasks' : StemOf(s.key)' = m /\ StemOf(t.key)' = m => s = t
        /\ \A q \in Request, t \in tasks' :
              ~ (Past(q)' /\ StemOf(new(q))' = m /\ StemOf(t.key)' = m)
    BY DEF Alone
  <2>5. CASE m = M
    <3>1. ~ Busy(m)
      BY <2>2, <2>5
    <3>2. /\ \A t \in tasks : StemOf(t.key) # m
          /\ \A q \in Request : ~ (Past(q) /\ StemOf(new(q)) = m)
      BY <3>1 DEF Busy, StemOf, new
    <3> QED
      BY <2>2, <2>3, <2>4, <3>2
  <2>6. CASE m # M
    <3>1. m \in Stems \ spoilt
      BY <2>2, <2>6
    <3> QED
      BY <2>2, <2>3, <2>4, <2>6, <3>1 DEF Alone
  <2> QED
    BY <2>5, <2>6
<1>4. ASSUME NEW r \in Request, Committed(r)
      PROVE  Alone'
  <2>1. Past(r) /\ \A q \in Request : Past(q)' => Past(q) /\ held'[q] = held[q]
    BY <1>4 DEF Committed, Others, Past
  <2> QED
    BY <1>1, <1>4, <2>1 DEF Committed
<1>5. ASSUME NEW r \in Request, Finished(r)
      PROVE  Alone'
  <2>1. \A q \in Request : Past(q)' => Past(q) /\ held'[q] = held[q]
    BY <1>5 DEF Finished, Others, Past
  <2>2. CASE tasks' = tasks
    BY <1>1, <1>5, <2>1, <2>2 DEF Finished
  <2>3. CASE /\ pc[r] = "enqueue" /\ pc'[r] = "done"
             /\ tasks' = tasks \cup {Ordered(r)}
    <3>1. PICK u : u = Ordered(r)
      OBVIOUS
    <3>2. Past(r) /\ ~ Past(r)' /\ u.key = new(r) /\ tasks' = tasks \cup {u}
      BY <2>3, <3>1 DEF Past, Ordered
    <3>3. /\ \A q \in Request : Past(q)' => StemOf(new(q))' = StemOf(new(q))
          /\ \A t : StemOf(t.key)' = StemOf(t.key)
      BY <1>5, <2>1 DEF StemOf, Stem, new, Finished
    <3>4. spoilt \subseteq spoilt'
      BY <1>5 DEF Finished
    <3> SUFFICES ASSUME NEW m \in Stems \ spoilt
                 PROVE
        /\ \A p, q \in Request :
              Past(p)' /\ Past(q)' /\ StemOf(new(p))' = m /\ StemOf(new(q))' = m => p = q
        /\ \A s, t \in tasks' : StemOf(s.key)' = m /\ StemOf(t.key)' = m => s = t
        /\ \A q \in Request, t \in tasks' :
              ~ (Past(q)' /\ StemOf(new(q))' = m /\ StemOf(t.key)' = m)
      BY <3>4 DEF Alone
    <3> QED
      BY <2>1, <3>2, <3>3 DEF Alone
  <2> QED
    BY <1>5, <2>2, <2>3 DEF Finished
<1>6. ASSUME NEW u \in Put, NEW k \in urls, NEW kind \in Kinds, PutObject(u, k, kind)
      PROVE  Alone'
  <2>1. UNCHANGED <<slot, pc, held, tasks>> /\ spoilt \subseteq spoilt'
    BY <1>6 DEF PutObject
  <2> QED
    BY <1>1, <2>1 DEF Past
<1>7. ASSUME NEW t \in tasks, TaskMoves(t)
      PROVE  Alone'
  <2>1. UNCHANGED <<slot, pc, held>> /\ spoilt \subseteq spoilt'
    BY <1>7 DEF TaskMoves, TaskGet, TaskPut, TaskFail, TaskRedelivered, history
  <2>2. \E u : /\ u.key = t.key
               /\ tasks' = tasks \ {t} \/ tasks' = (tasks \ {t}) \cup {u}
    BY <1>7, TaskSteps
  <2>3. PICK u : /\ u.key = t.key
                 /\ tasks' = tasks \ {t} \/ tasks' = (tasks \ {t}) \cup {u}
    BY <2>2
  <2>4. \A s \in tasks' : \E v \in tasks : v.key = s.key
    BY <2>3
  <2>5. \A x, y \in tasks' : x.key = y.key /\ x # y =>
           \E v, w \in tasks : v.key = x.key /\ w.key = y.key /\ v # w
    <3> TAKE x, y \in tasks'
    <3>1. CASE x = u /\ y \in tasks \ {t}
      BY <2>3, <3>1
    <3>2. CASE y = u /\ x \in tasks \ {t}
      BY <2>3, <3>2
    <3>3. CASE x \in tasks /\ y \in tasks
      BY <3>3
    <3> QED
      BY <2>3, <3>1, <3>2, <3>3
  <2>6. \A q \in Request : Past(q)' => Past(q) /\ held'[q] = held[q]
    BY <2>1 DEF Past
  <2> QED
    BY <2>1, <2>4, <2>5, <2>6, AloneKept
<1>8. CASE UNCHANGED vars
  BY <1>1, <1>8 DEF vars, stores, history, Past
<1> QED
  BY <1>2, <1>3, <1>4, <1>5, <1>6, <1>7, <1>8, StepCases, PreparedSteps,
     CheckedSteps, CommittedSteps, FinishedSteps

\* The tasks of the next state are about keys tasks were about before, or what
\* Enqueue has added.
LEMMA TaskKeys ==
    ASSUME TypeOK, NEW t \in tasks, TaskMoves(t)
    PROVE  /\ \A v \in tasks' : v.key = t.key \/ v \in tasks
           /\ \A v \in tasks \ {t} : v \in tasks'
BY TaskSteps

LEMMA AvatarsStep ==
    ASSUME TypeOK, Holds, KeysInv, Alone, Avatars, [Next]_vars
    PROVE  Avatars'
<1> USE UploadsAssumption
<1>0. slot' = slot
  BY StepCases, PreparedSteps, CheckedSteps, CommittedSteps, FinishedSteps, AsideSteps
  DEF Prepared, Checked, Committed, Finished, Aside
<1> SUFFICES ASSUME slot = "avatar", Seed \notin spoilt'
             PROVE  /\ \A q \in Request : pc'[q] = "commit" =>
                         held'[q].pending = row'.key \/ held'[q].pending # held'[q].key
                    /\ \A q \in Request : pc'[q] = "enqueue" =>
                         row'.key = held'[q].pending
                    /\ \A t \in tasks' : t.key = row'.key
  BY <1>0 DEF Avatars, old, new
<1> DEFINE Goal ==
          /\ \A q \in Request : pc'[q] = "commit" =>
               held'[q].pending = row'.key \/ held'[q].pending # held'[q].key
          /\ \A q \in Request : pc'[q] = "enqueue" =>
               row'.key = held'[q].pending
          /\ \A t \in tasks' : t.key = row'.key
<1>1. /\ \A q \in Request : Past(q) => StemOf(new(q)) = Seed
      /\ \A t \in tasks : StemOf(t.key) = Seed
      /\ Seed \in Stems
  BY DEF StemOf, Stem, Stems
<1>2. ASSUME Seed \notin spoilt
      PROVE  /\ \A q \in Request : pc[q] = "commit" =>
                  held[q].pending = row.key \/ held[q].pending # held[q].key
             /\ \A q \in Request : pc[q] = "enqueue" => row.key = held[q].pending
             /\ \A t \in tasks : t.key = row.key
  BY <1>2 DEF Avatars, old, new
<1>3. ASSUME NEW r \in Request, Prepared(r)
      PROVE  Goal
  BY <1>2, <1>3 DEF Prepared, Others
<1>4. ASSUME NEW r \in Request, Checked(r)
      PROVE  Goal
  <2>1. missed[r] = {} /\ ~ Busy(Seed)
    BY <1>4 DEF Checked, Stem
  <2>2. tasks = {} /\ \A q \in Request : ~ Past(q)
    BY <2>1 DEF Busy, Stem
  <2>3. row.key = held[r].key
    BY <1>4, <2>1 DEF Checked, KeysInv, KeyLoaded, old
  <2> QED
    BY <1>4, <2>2, <2>3 DEF Checked, Others, Past
<1>5. ASSUME NEW r \in Request, Committed(r)
      PROVE  Goal
  <2>1. Seed \notin spoilt /\ Past(r) /\ tasks' = tasks
    BY <1>5 DEF Committed, Past
  <2>2. tasks = {} /\ \A q \in Request \ {r} : ~ Past(q)
    BY <1>1, <2>1 DEF Alone
  <2>3. \A q \in Request \ {r} : pc'[q] \notin {"commit", "enqueue"}
    BY <1>5, <2>2 DEF Committed, Others, Past
  <2>4. row'.key = held[r].pending
    BY <1>2, <1>5, <2>1 DEF Committed, old, new
  <2> QED
    BY <1>5, <2>1, <2>2, <2>3, <2>4 DEF Committed
<1>6. ASSUME NEW r \in Request, Finished(r)
      PROVE  Goal
  BY <1>2, <1>6 DEF Finished, Others, new, Ordered
<1>7. ASSUME NEW t \in tasks, TaskMoves(t)
      PROVE  Goal
  BY <1>2, <1>7, TaskKeys, AsideSteps DEF Aside
<1>8. ASSUME \/ \E u \in Put, k \in urls, kind \in Kinds : PutObject(u, k, kind)
             \/ UNCHANGED vars
      PROVE  Goal
  <2>1. tasks' = tasks
    BY <1>8 DEF PutObject, vars, stores
  <2> QED
    BY <1>2, <1>8, <2>1, AsideSteps DEF Aside
<1> QED
  BY <1>3, <1>4, <1>5, <1>6, <1>7, <1>8, StepCases, PreparedSteps, CheckedSteps,
     CommittedSteps, FinishedSteps

LEMMA GotStep ==
    ASSUME TypeOK, Holds, Got, [Next]_vars
    PROVE  Got'
<1>0. slot' = slot
  BY StepCases, PreparedSteps, CheckedSteps, CommittedSteps, FinishedSteps, AsideSteps
  DEF Prepared, Checked, Committed, Finished, Aside
<1>1. /\ \A t : StemOf(t.key)' = StemOf(t.key)
      /\ \A t \in tasks : t.key \in Key
  BY <1>0 DEF StemOf, Stem, TypeOK, Task
<1>2. ASSUME spoilt \subseteq spoilt',
             \A t \in tasks' : t \in tasks \/ t.got = None \/ t.got = object'[t.key],
             \A k \in Key : object'[k] \in {None, object[k]}
      PROVE  Got'
  BY <1>1, <1>2 DEF Got
<1>3. ASSUME NEW r \in Request, Prepared(r) \/ Committed(r)
      PROVE  Got'
  BY <1>2, <1>3 DEF Prepared, Committed
<1>4. ASSUME NEW r \in Request, Checked(r)
      PROVE  Got'
  <2>1. PICK M : M = Stem(slot, new(r))
    OBVIOUS
  <2>2. /\ UNCHANGED <<object, tasks>>
        /\ spoilt' = IF missed[r] # {} \/ Busy(M) THEN spoilt \cup {M} ELSE spoilt \ {M}
    BY <1>4, <2>1 DEF Checked
  <2>3. \A t \in tasks : StemOf(t.key) \in spoilt => StemOf(t.key) \in spoilt'
    BY <2>2 DEF Busy, StemOf
  <2> QED
    BY <1>1, <2>2, <2>3 DEF Got
<1>5. ASSUME NEW r \in Request, Finished(r)
      PROVE  Got'
  <2>1. \A t \in tasks' : t \in tasks \/ t.got = None
    BY <1>5 DEF Finished, Ordered
  <2> QED
    BY <1>2, <1>5, <2>1 DEF Finished
<1>6. ASSUME NEW u \in Put, NEW k \in urls, NEW kind \in Kinds, PutObject(u, k, kind)
      PROVE  Got'
  <2>1. /\ tasks' = tasks /\ spoilt \subseteq spoilt'
        /\ \A x \in Key \ {k} : object'[x] = object[x]
        /\ Busy(StemOf(k)) => StemOf(k) \in spoilt'
    BY <1>6 DEF PutObject, TypeOK, StemOf
  <2>2. \A t \in tasks : t.key = k => StemOf(t.key) \in spoilt'
    BY <2>1 DEF Busy, StemOf
  <2> QED
    BY <1>1, <2>1, <2>2 DEF Got
<1>7. ASSUME NEW t \in tasks, TaskMoves(t)
      PROVE  Got'
  <2>1. object' = object /\ spoilt \subseteq spoilt'
    BY <1>7 DEF TaskMoves, TaskGet, TaskPut, TaskFail, TaskRedelivered, history
  <2>2. t \in Task /\ object[t.key] \in Content \cup {None}
    BY DEF TypeOK, Task
  <2>3. \A v \in tasks' :
          \/ v \in tasks \/ v.got = None \/ v.got = object[v.key]
          \/ v.key = t.key /\ v.got = t.got
    BY <1>7, <2>2, TaskSteps
  <2> QED
    BY <1>1, <2>1, <2>3 DEF Got
<1>8. CASE UNCHANGED vars
  BY <1>2, <1>8 DEF vars, stores, history
<1> QED
  BY <1>3, <1>4, <1>5, <1>6, <1>7, <1>8, StepCases, PreparedSteps, CheckedSteps,
     CommittedSteps, FinishedSteps

LEMMA WroteStep ==
    ASSUME TypeOK, Holds, Alone, OldIcons, Wrote, [Next]_vars
    PROVE  Wrote'
<1> USE UploadsAssumption
<1>0. slot' = slot
  BY StepCases, PreparedSteps, CheckedSteps, CommittedSteps, FinishedSteps, AsideSteps
  DEF Prepared, Checked, Committed, Finished, Aside
<1>1. /\ \A t : StemOf(t.key)' = StemOf(t.key)
      /\ \A t \in tasks : t \in Task /\ t.key \in Key /\ StemOf(t.key) \in Stems
  BY <1>0, StemIs DEF StemOf, Stem, TypeOK, Task
\* What others do to the stem of a task that has begun is nothing.
<1>2. ASSUME \A t \in tasks' : t \in tasks \/ t.next = "thumb",
             \A t \in tasks : t.key = row'.key /\ StemOf(t.key) \notin spoilt' =>
               /\ t.key = row.key /\ StemOf(t.key) \notin spoilt
               /\ variant'[StemOf(t.key)] = variant[StemOf(t.key)]
      PROVE  Wrote'
  BY <1>1, <1>2 DEF Wrote
<1>3. ASSUME NEW r \in Request, Prepared(r)
      PROVE  Wrote'
  BY <1>2, <1>3 DEF Prepared
<1>4. ASSUME NEW r \in Request, Checked(r)
      PROVE  Wrote'
  <2>1. PICK M : M = Stem(slot, new(r))
    OBVIOUS
  <2>2. /\ UNCHANGED <<row, variant, tasks>>
        /\ spoilt' = IF missed[r] # {} \/ Busy(M) THEN spoilt \cup {M} ELSE spoilt \ {M}
    BY <1>4, <2>1 DEF Checked
  <2>3. \A t \in tasks : StemOf(t.key) \in spoilt => StemOf(t.key) \in spoilt'
    BY <2>2 DEF Busy, StemOf
  <2> QED
    BY <1>2, <2>2, <2>3
<1>5. ASSUME NEW r \in Request, Committed(r)
      PROVE  Wrote'
  <2>1. Past(r) /\ UNCHANGED <<variant, tasks, spoilt>>
    BY <1>5 DEF Committed, Past
  <2>2. row'.key = row.key \/ row'.key = new(r)
    BY <1>5 DEF Committed
  <2>3. \A t \in tasks : StemOf(t.key) \notin spoilt => t.key # new(r)
    BY <1>1, <2>1 DEF Alone
  <2> QED
    BY <1>2, <2>1, <2>2, <2>3
<1>6. ASSUME NEW r \in Request, Finished(r)
      PROVE  Wrote'
  <2>1. /\ row' = row /\ spoilt \subseteq spoilt'
        /\ \A t \in tasks' : t \in tasks \/ t.next = "thumb"
    BY <1>6 DEF Finished, Ordered
  <2>2. ASSUME NEW t \in tasks, t.key = row.key, StemOf(t.key) \notin spoilt
        PROVE  variant'[StemOf(t.key)] = variant[StemOf(t.key)]
    <3>1. SUFFICES ASSUME pc[r] \in Cleaning, StemOf(t.key) = old(r) PROVE FALSE
      BY <1>1, <1>6 DEF Finished
    <3>2. slot = "icon" /\ Past(r)
      BY <3>1 DEF Holds, Past
    <3>3. old(r) = t.key /\ StemOf(new(r)) = new(r)
      BY <3>1, <3>2 DEF StemOf, Stem
    <3>4. new(r) # old(r)
      BY <1>1, <2>2, <3>1, <3>2, <3>3 DEF Alone
    <3> QED
      BY <2>2, <3>1, <3>2, <3>3, <3>4 DEF OldIcons
  <2> QED
    BY <1>2, <2>1, <2>2
<1>7. ASSUME NEW u \in Put, NEW k \in urls, NEW kind \in Kinds, PutObject(u, k, kind)
      PROVE  Wrote'
  <2>1. UNCHANGED <<row, variant, tasks>> /\ spoilt \subseteq spoilt'
    BY <1>7 DEF PutObject
  <2> QED
    BY <1>2, <2>1
<1>8. ASSUME NEW t \in tasks, TaskGet(t) \/ TaskFail(t) \/ TaskRedelivered(t)
      PROVE  Wrote'
  <2>1. UNCHANGED <<row, variant>> /\ spoilt \subseteq spoilt'
    BY <1>8 DEF TaskGet, TaskFail, TaskRedelivered, history
  <2>2. /\ t \in Task /\ t.next \in Size
        /\ object[t.key] \in Content \cup {None}
    BY DEF TypeOK, Task
  <2>3. \A v \in tasks' : v \in tasks \/ v.next = "thumb"
    <3>1. CASE TaskGet(t)
      <4>1. t.next = "thumb" /\ ~ TaskPut(t)
        BY <2>2, <3>1 DEF Wrote, TaskGet, TaskPut, Size
      <4> QED
        BY <3>1, <4>1, TaskSteps DEF TaskMoves
    <3>2. CASE TaskFail(t)
      BY <3>2 DEF TaskFail
    <3>3. CASE TaskRedelivered(t)
      <4>1. PICK u : u = [t EXCEPT !.got = None, !.next = "thumb"]
        OBVIOUS
      <4>2. u.next = "thumb"
        BY <2>2, <4>1, TaskBecomes
      <4> QED
        BY <3>3, <4>1, <4>2 DEF TaskRedelivered
    <3> QED
      BY <1>8, <3>1, <3>2, <3>3
  <2> QED
    BY <1>2, <2>1, <2>3
<1>9. ASSUME NEW t \in tasks, TaskPut(t)
      PROVE  Wrote'
  <2>1. UNCHANGED <<row, spoilt>> /\ t.got # None /\ t \in Task
    BY <1>9 DEF TaskPut, TypeOK
  <2>2. CASE t.got.kind = "junk"
    BY <1>2, <1>9, <2>1, <2>2 DEF TaskPut
  <2>3. CASE t.got.kind # "junk"
    <3>1. /\ tasks' \subseteq (tasks \ {t}) \cup {[t EXCEPT !.next = "medium"]}
          /\ variant' = [variant EXCEPT ![StemOf(t.key)][t.next] = t.got]
          /\ t.next = "medium" => tasks' = tasks \ {t}
      BY <1>9, <2>3 DEF TaskPut, StemOf
    <3>2. /\ [t EXCEPT !.next = "medium"].key = t.key
          /\ [t EXCEPT !.next = "medium"].got = t.got
      BY <2>1, TaskBecomes
    <3> SUFFICES ASSUME NEW v \in tasks', v.next = "medium"
                 PROVE  /\ v.got # None
                        /\ v.key = row.key /\ StemOf(v.key) \notin spoilt =>
                             variant'[StemOf(v.key)]["thumb"] = v.got
      BY <1>1, <2>1 DEF Wrote
    <3>3. CASE v \in tasks \ {t}
      <4>1. StemOf(v.key) \notin spoilt => StemOf(v.key) # StemOf(t.key)
        BY <1>1, <3>3 DEF Alone
      <4>2. StemOf(v.key) \notin spoilt =>
              variant'[StemOf(v.key)] = variant[StemOf(v.key)]
        BY <1>1, <3>1, <3>3, <4>1 DEF TypeOK
      <4> QED
        BY <3>3, <4>2 DEF Wrote
    <3>4. CASE v \notin tasks \ {t}
      <4>1. v = [t EXCEPT !.next = "medium"] /\ t.next # "medium"
        BY <3>1, <3>4
      <4>2. t.next = "thumb"
        BY <2>1, <4>1 DEF Task, Size
      <4>3. variant'[StemOf(t.key)]["thumb"] = t.got
        BY <1>1, <3>1, <4>2 DEF TypeOK, Size
      <4> QED
        BY <2>1, <3>2, <4>1, <4>3
    <3> QED
      BY <3>3, <3>4
  <2> QED
    BY <2>2, <2>3
<1>10. CASE UNCHANGED vars
  <2>1. UNCHANGED <<row, variant, tasks, spoilt>>
    BY <1>10 DEF vars, stores, history
  <2> QED
    BY <1>2, <2>1
<1> QED
  BY <1>3, <1>4, <1>5, <1>6, <1>7, <1>8, <1>9, <1>10, StepCases, PreparedSteps,
     CheckedSteps, CommittedSteps, FinishedSteps DEF TaskMoves

LEMMA IconsStep ==
    ASSUME TypeOK, Holds, Fresh, Alone, Icons,
           \/ \E r \in Request : Prepared(r) \/ Checked(r) \/ Committed(r) \/ Finished(r)
           \/ Aside /\ spoilt \subseteq spoilt'
    PROVE  Icons'
<1> USE UploadsAssumption
<1>0. slot' = slot
  BY DEF Prepared, Checked, Committed, Finished, Aside
<1> SUFFICES ASSUME slot = "icon", NEW k \in Key, Known(k)'
             PROVE  /\ row'.pending = k => row'.key = k
                    /\ \A q \in Request : held'[q].pending = k /\ held'[q].key # k =>
                         /\ pc'[q] = "check" => missed'[q] # {}
                         /\ pc'[q] = "commit" => k \in spoilt'
  BY <1>0 DEF Icons, old, new
<1> DEFINE Goal ==
          /\ row'.pending = k => row'.key = k
          /\ \A q \in Request : held'[q].pending = k /\ held'[q].key # k =>
               /\ pc'[q] = "check" => missed'[q] # {}
               /\ pc'[q] = "commit" => k \in spoilt'
<1>1. ASSUME Known(k)
      PROVE  /\ row.pending = k => row.key = k
             /\ \A q \in Request : held[q].pending = k /\ held[q].key # k =>
                  /\ pc[q] = "check" => missed[q] # {}
                  /\ pc[q] = "commit" => k \in spoilt
  BY <1>1 DEF Icons, old, new
<1>2. k # None
  BY DEF Key
<1>3. ASSUME NEW r \in Request, Prepared(r)
      PROVE  Goal
  <2>1. Known(k)
    BY <1>3 DEF Prepared, Known
  <2>2. row'.pending = k => row'.key = k
    BY <1>1, <1>2, <1>3, <2>1 DEF Prepared, Fresh
  <2> QED
    BY <1>1, <1>3, <2>1, <2>2 DEF Prepared, Others
<1>4. ASSUME NEW r \in Request, Checked(r)
      PROVE  Goal
  <2>1. Known(k)
    BY <1>4 DEF Checked, Known
  <2>2. /\ Stem(slot, new(r)) = held[r].pending
        /\ \A q \in Request : Stem(slot, held[q].pending) = held[q].pending
    BY DEF Stem, new
  <2>3. \A q \in Request : pc[q] = "commit" /\ held[q].pending = k /\ k \in spoilt
          => k \in spoilt'
    BY <1>4, <2>2 DEF Checked, Busy, Past
  <2>4. held[r].pending = k /\ missed[r] # {} => k \in spoilt'
    BY <1>4, <2>2 DEF Checked
  <2> QED
    BY <1>1, <1>4, <2>1, <2>3, <2>4 DEF Checked, Others
<1>5. ASSUME NEW r \in Request, Committed(r)
      PROVE  Goal
  <2>1. row'.pending # k
    BY <1>2, <1>5 DEF Committed
  <2>2. CASE Known(k)
    BY <1>1, <1>5, <2>1, <2>2 DEF Committed, Others
  <2>3. CASE ~ Known(k)
    <3>1. k = held[r].pending
      BY <1>5, <2>3 DEF Committed, Known, new
    <3>2. ASSUME NEW q \in Request \ {r}, pc[q] = "commit", held[q].pending = k
          PROVE  k \in spoilt
      <4>1. Past(q) /\ Past(r)
        BY <1>5, <3>2 DEF Committed, Past
      <4>2. StemOf(new(q)) = k /\ StemOf(new(r)) = k /\ k \in Stems
        BY <3>1, <3>2, StemIs DEF new
      <4> QED
        BY <4>1, <4>2 DEF Alone
    <3>3. ASSUME NEW q \in Request \ {r}, pc[q] = "check"
          PROVE  missed'[q] # {}
      BY <1>5, <3>3 DEF Committed, Open
    <3> QED
      BY <1>5, <2>1, <3>2, <3>3 DEF Committed, Others
  <2> QED
    BY <2>2, <2>3
<1>6. ASSUME NEW r \in Request, Finished(r)
      PROVE  Goal
  <2>1. Known(k)
    BY <1>6 DEF Finished, Known
  <2> QED
    BY <1>1, <1>6, <2>1 DEF Finished, Others
<1>7. CASE Aside /\ spoilt \subseteq spoilt'
  <2>1. Known(k)
    BY <1>7 DEF Aside, Known
  <2> QED
    BY <1>1, <1>7, <2>1 DEF Aside
<1> QED
  BY <1>3, <1>4, <1>5, <1>6, <1>7

LEMMA OldIconsStep ==
    ASSUME TypeOK, Holds, Fresh, KnownOld, Icons, OldIcons,
           \/ \E r \in Request : Prepared(r) \/ Checked(r) \/ Committed(r) \/ Finished(r)
           \/ Aside /\ spoilt \subseteq spoilt'
    PROVE  OldIcons'
<1> USE UploadsAssumption
<1>0. slot' = slot
  BY DEF Prepared, Checked, Committed, Finished, Aside
<1> SUFFICES ASSUME slot = "icon", NEW x \in Request,
                    pc'[x] \in {"delete_old"} \cup Cleaning,
                    held'[x].key # held'[x].pending
             PROVE  /\ row'.pending # held'[x].key
                    /\ row'.key = held'[x].key => held'[x].key \in spoilt'
                    /\ \A q \in Request : held'[q].pending = held'[x].key =>
                         /\ pc'[q] = "check" => missed'[q] # {}
                         /\ pc'[q] = "commit" /\ held'[q].key # held'[x].key =>
                              held'[x].key \in spoilt'
  BY <1>0 DEF OldIcons, old, new
<1> DEFINE Goal ==
          /\ row'.pending # held'[x].key
          /\ row'.key = held'[x].key => held'[x].key \in spoilt'
          /\ \A q \in Request : held'[q].pending = held'[x].key =>
               /\ pc'[q] = "check" => missed'[q] # {}
               /\ pc'[q] = "commit" /\ held'[q].key # held'[x].key =>
                    held'[x].key \in spoilt'
<1> DEFINE k == held[x].key
<1> DEFINE Was == pc[x] \in {"delete_old"} \cup Cleaning /\ held'[x] = held[x]
<1>1. ASSUME Was
      PROVE  /\ row.pending # k
             /\ row.key = k => k \in spoilt
             /\ \A q \in Request : held[q].pending = k =>
                  /\ pc[q] = "check" => missed[q] # {}
                  /\ pc[q] = "commit" /\ held[q].key # k => k \in spoilt
             /\ k \in Key /\ k # None /\ held'[x].key = k
  BY <1>1 DEF OldIcons, Holds, old, new, Key
<1>2. ASSUME NEW r \in Request, Prepared(r)
      PROVE  Goal
  <2>1. Was /\ x # r
    BY <1>2 DEF Prepared, Others
  <2>2. row'.pending # k
    BY <1>1, <1>2, <2>1 DEF Prepared, Fresh, old
  <2>3. \A q \in Request : held'[q].pending = k /\ pc'[q] = "check" => missed'[q] # {}
    BY <1>1, <1>2, <2>1 DEF Prepared, Others
  <2>4. \A q \in Request : held'[q].pending = k /\ pc'[q] = "commit"
          /\ held'[q].key # k => k \in spoilt'
    BY <1>1, <1>2, <2>1 DEF Prepared, Others
  <2>5. row'.key = k => k \in spoilt'
    BY <1>1, <1>2, <2>1 DEF Prepared
  <2>6. held'[x].key = k
    BY <2>1
  <2> HIDE DEF k
  <2> QED
    BY <2>2, <2>3, <2>4, <2>5, <2>6
<1>3. ASSUME NEW r \in Request, Checked(r)
      PROVE  Goal
  <2>1. Was /\ x # r
    BY <1>3 DEF Checked, Others
  <2>2. Stem(slot, new(r)) = held[r].pending
    BY DEF Stem, new
  <2>3. held[r].pending = k => missed[r] # {}
    BY <1>1, <1>3, <2>1 DEF Checked
  <2>4. (k \in spoilt \/ held[r].pending = k) => k \in spoilt'
    BY <1>3, <2>2, <2>3 DEF Checked
  <2> HIDE DEF k
  <2> QED
    BY <1>1, <1>3, <2>1, <2>4 DEF Checked, Others
<1>4. ASSUME NEW r \in Request, Committed(r)
      PROVE  Goal
  <2>1. /\ row'.pending = None /\ spoilt' = spoilt
        /\ \A q \in Request \ {r} : pc[q] = "check" => missed'[q] # {}
        /\ pc'[r] \notin {"check", "commit"}
    BY <1>4 DEF Committed, Open
  <2>2. CASE x = r
    <3>1. /\ held'[x] = held[x] /\ k \in Key /\ k # None /\ held[x].pending # k
      BY <1>4, <2>2 DEF Committed, old, Key
    <3>2. row'.key # k
      BY <1>4, <2>2, <3>1 DEF Committed, old, new
    <3>3. Known(k)
      BY <3>1 DEF KnownOld, old
    <3>4. \A q \in Request : held[q].pending = k /\ pc[q] = "commit"
            /\ held[q].key # k => k \in spoilt
      BY <3>1, <3>3 DEF Icons, old, new
    <3> HIDE DEF k
    <3>5. held'[x].key = k
      BY <3>1 DEF k
    <3> QED
      BY <1>4, <2>1, <3>1, <3>2, <3>4, <3>5 DEF Committed, Others
  <2>3. CASE x # r
    <3>1. Was
      BY <1>4, <2>3 DEF Committed, Others
    <3>2. row'.key = k => k \in spoilt
      <4>1. CASE row'.key = row.key
        BY <1>1, <3>1, <4>1
      <4>2. CASE row'.key = held[r].pending /\ held[r].pending # held[r].key
        BY <1>1, <1>4, <3>1, <4>2 DEF Committed
      <4> QED
        BY <1>4, <4>1, <4>2 DEF Committed, old, new
    <3>3. \A q \in Request : pc'[q] \in {"check", "commit"} =>
            q # r /\ pc'[q] = pc[q] /\ held'[q] = held[q]
      BY <1>4, <2>1 DEF Committed, Others
    <3>4. /\ held'[x].key = k /\ k # None
          /\ \A q \in Request : held[q].pending = k /\ pc[q] = "commit"
               /\ held[q].key # k => k \in spoilt
      BY <1>1, <3>1
    <3> HIDE DEF k, Was
    <3> QED
      BY <2>1, <3>2, <3>3, <3>4
  <2> QED
    BY <2>2, <2>3
<1>5. ASSUME NEW r \in Request, Finished(r)
      PROVE  Goal
  <2>1. Was
    BY <1>5 DEF Finished, Others
  <2>2. \A q \in Request : pc'[q] \in {"check", "commit"} =>
          pc'[q] = pc[q] /\ held'[q] = held[q]
    BY <1>5 DEF Finished, Others
  <2>3. row' = row /\ spoilt \subseteq spoilt'
          /\ \A q \in Request : missed[q] \subseteq missed'[q]
    BY <1>5 DEF Finished
  <2> HIDE DEF k, Was
  <2> QED
    BY <1>1, <2>1, <2>2, <2>3
<1>6. CASE Aside /\ spoilt \subseteq spoilt'
  <2>1. Was /\ UNCHANGED <<row, pc, held, missed>>
    BY <1>6 DEF Aside
  <2> HIDE DEF k, Was
  <2> QED
    BY <1>1, <1>6, <2>1
<1> QED
  BY <1>2, <1>3, <1>4, <1>5, <1>6

\* The variants of the image under k are made, or there is nothing to make, or
\* somebody will.
Provided(k) ==
    \/ object[k].kind = "junk"
    \/ \A z \in Size : variant[StemOf(k)][z] = object[k]
    \/ \E t \in tasks : t.key = k
    \/ \E q \in Request :
         \/ pc[q] = "commit" /\ StemOf(new(q)) = StemOf(k)
         \/ pc[q] \in {"delete_old", "enqueue"} \cup Cleaning /\ new(q) = k

LEMMA VariantsStep ==
    ASSUME TypeOK, Holds, Alone, Avatars, Got, Wrote, OldIcons, Variants, [Next]_vars
    PROVE  Variants'
<1> USE UploadsAssumption
<1>0. slot' = slot
  BY StepCases, PreparedSteps, CheckedSteps, CommittedSteps, FinishedSteps, AsideSteps
  DEF Prepared, Checked, Committed, Finished, Aside
<1> SUFFICES ASSUME slot # "archive", NEW k, k = row'.key, k # None,
                    object'[k] # None, StemOf(k) \notin spoilt'
             PROVE  \/ object'[k].kind = "junk"
                    \/ \A z \in Size : variant'[StemOf(k)][z] = object'[k]
                    \/ \E t \in tasks' : t.key = k
                    \/ \E q \in Request :
                         \/ pc'[q] = "commit" /\ Stem(slot, held'[q].pending) = StemOf(k)
                         \/ /\ pc'[q] \in {"delete_old", "enqueue"} \cup Cleaning
                            /\ held'[q].pending = k
  BY <1>0 DEF Variants, StemOf, new
<1> DEFINE Goal ==
          \/ object'[k].kind = "junk"
          \/ \A z \in Size : variant'[StemOf(k)][z] = object'[k]
          \/ \E t \in tasks' : t.key = k
          \/ \E q \in Request :
               \/ pc'[q] = "commit" /\ Stem(slot, held'[q].pending) = StemOf(k)
               \/ /\ pc'[q] \in {"delete_old", "enqueue"} \cup Cleaning
                  /\ held'[q].pending = k
<1>1. k \in Key
  BY TypeStep DEF TypeOK, Row
<1>2. StemOf(k) \in Stems
  BY <1>1, StemIs
<1>3. ASSUME row.key = k, object[k] # None, StemOf(k) \notin spoilt
      PROVE  Provided(k)
  BY <1>3 DEF Variants, Provided
\* A step that makes nothing and takes away nothing.
<1>4. ASSUME Provided(k), object'[k] = object[k], variant'[StemOf(k)] = variant[StemOf(k)],
             (\E t \in tasks : t.key = k) => \E t \in tasks' : t.key = k,
             \A q \in Request : Past(q) => pc'[q] = pc[q] /\ held'[q] = held[q]
      PROVE  Goal
  <2>1. CASE \E q \in Request : pc[q] = "commit" /\ StemOf(new(q)) = StemOf(k)
    BY <1>4, <2>1 DEF Past, StemOf, new
  <2>2. CASE \E q \in Request :
               /\ pc[q] \in {"delete_old", "enqueue"} \cup Cleaning
               /\ new(q) = k
    BY <1>4, <2>2 DEF Past, new
  <2> QED
    BY <1>4, <2>1, <2>2 DEF Provided
<1>5. ASSUME NEW r \in Request, Prepared(r)
      PROVE  Goal
  <2>1. /\ row.key = k /\ object'[k] = object[k]
        /\ UNCHANGED <<variant, tasks, spoilt>>
    BY <1>1, <1>5 DEF Prepared
  <2>2. \A q \in Request : Past(q) => pc'[q] = pc[q] /\ held'[q] = held[q]
    BY <1>5 DEF Prepared, Others, Past
  <2> QED
    BY <1>3, <1>4, <2>1, <2>2
<1>6. ASSUME NEW r \in Request, Checked(r)
      PROVE  Goal
  <2>1. /\ row.key = k /\ pc[r] = "check" /\ pc'[r] = "commit" /\ held' = held
        /\ Others(r) /\ UNCHANGED <<object, variant, tasks>>
    BY <1>6 DEF Checked
  <2>2. CASE Stem(slot, new(r)) = StemOf(k)
    BY <2>1, <2>2 DEF new
  <2>3. CASE Stem(slot, new(r)) # StemOf(k)
    <3>1. StemOf(k) \notin spoilt
      BY <1>6, <2>3 DEF Checked
    <3>2. \A q \in Request : Past(q) => pc'[q] = pc[q] /\ held'[q] = held[q]
      BY <2>1 DEF Others, Past
    <3> QED
      BY <1>3, <1>4, <2>1, <3>1, <3>2
  <2> QED
    BY <2>2, <2>3
<1>7. ASSUME NEW r \in Request, Committed(r)
      PROVE  Goal
  <2>1. /\ pc[r] = "commit" /\ pc'[r] \in {"delete_old", "enqueue"}
        /\ held'[r] = held[r] /\ Others(r)
        /\ UNCHANGED <<object, variant, tasks, spoilt>>
    BY <1>7 DEF Committed
  <2>2. CASE held[r].pending = k
    BY <2>1, <2>2
  <2>3. CASE held[r].pending # k
    <3>1. row.key = k
      BY <1>7, <2>3 DEF Committed, new
    <3>2. new(r) = old(r)
      BY <1>7, <2>3, <3>1 DEF Committed, new
    <3>3. Stem(slot, new(r)) # StemOf(k)
      <4>1. CASE slot = "icon"
        BY <2>3, <4>1 DEF Stem, StemOf, new
      <4>2. CASE slot = "avatar"
        BY <1>7, <2>1, <2>3, <3>1, <3>2, <4>2 DEF Avatars, Stem, StemOf, new
      <4> QED
        BY <4>1, <4>2 DEF TypeOK, Slot
    <3>4. Provided(k)
      BY <1>3, <2>1, <3>1
    <3>5. ASSUME NEW q \in Request,
                 \/ pc[q] = "commit" /\ StemOf(new(q)) = StemOf(k)
                 \/ /\ pc[q] \in {"delete_old", "enqueue"} \cup Cleaning
                    /\ new(q) = k
          PROVE  pc'[q] = pc[q] /\ held'[q] = held[q]
      BY <2>1, <3>3, <3>5 DEF Others, StemOf
    <3> QED
      BY <2>1, <3>4, <3>5 DEF Provided, StemOf, new
  <2> QED
    BY <2>2, <2>3
<1>8. ASSUME NEW r \in Request, Finished(r)
      PROVE  Goal
  <2>1. row.key = k /\ object'[k] = object[k] /\ StemOf(k) \notin spoilt
    BY <1>1, <1>8 DEF Finished
  <2>2. Provided(k)
    BY <1>3, <2>1
  <2>3. \A t \in tasks : t \in tasks'
    BY <1>8 DEF Finished
  <2>4. CASE Past(r) /\ new(r) = k
    <3>1. CASE pc'[r] = "done"
      <4>1. Ordered(r) \in tasks'
        BY <1>8, <2>4, <3>1 DEF Finished, Past, StemOf
      <4> QED
        BY <2>4, <4>1 DEF Ordered
    <3>2. CASE pc'[r] # "done"
      BY <1>8, <2>4, <3>2 DEF Finished, new
    <3> QED
      BY <3>1, <3>2
  <2>5. CASE ~ (Past(r) /\ new(r) = k)
    <3>1. variant'[StemOf(k)] = variant[StemOf(k)]
      <4>1. SUFFICES ASSUME pc[r] \in Cleaning, StemOf(k) = old(r) PROVE FALSE
        BY <1>2, <1>8 DEF Finished
      <4>2. slot = "icon" /\ old(r) = k
        BY <4>1 DEF Holds, StemOf, Stem
      <4>3. new(r) # k
        BY <2>5, <4>1 DEF Past
      <4>4. k \in spoilt
        BY <2>1, <4>1, <4>2, <4>3 DEF OldIcons
      <4> QED
        BY <2>1, <4>1, <4>2, <4>4
    <3>2. ASSUME NEW q \in Request,
                 \/ pc[q] = "commit" /\ StemOf(new(q)) = StemOf(k)
                 \/ /\ pc[q] \in {"delete_old", "enqueue"} \cup Cleaning
                    /\ new(q) = k
          PROVE  pc'[q] = pc[q] /\ held'[q] = held[q]
      BY <1>8, <2>5, <3>2 DEF Finished, Others, Past
    <3> QED
      BY <2>1, <2>2, <2>3, <3>1, <3>2 DEF Provided, StemOf, new
  <2> QED
    BY <2>4, <2>5
<1>9. ASSUME NEW u \in Put, NEW x \in urls, NEW kind \in Kinds, PutObject(u, x, kind)
      PROVE  Goal
  <2>1. row.key = k /\ UNCHANGED <<variant, tasks, pc, held>>
    BY <1>9 DEF PutObject
  <2>2. x # k /\ StemOf(k) \notin spoilt
    BY <1>9, <2>1 DEF PutObject, StemOf
  <2>3. object'[k] = object[k]
    BY <1>1, <1>9, <2>2 DEF PutObject, TypeOK
  <2> QED
    BY <1>3, <1>4, <2>1, <2>2, <2>3
<1>10. ASSUME NEW t \in tasks, TaskMoves(t)
       PROVE  Goal
  <2>1. UNCHANGED <<row, object, pc, held>> /\ spoilt \subseteq spoilt'
    BY <1>10 DEF TaskMoves, TaskGet, TaskPut, TaskFail, TaskRedelivered, history
  <2>2. Provided(k) /\ object[k] # None /\ row.key = k /\ StemOf(k) \notin spoilt
    BY <1>3, <2>1
  <2>3. t \in Task
    BY DEF TypeOK
  <2>4. CASE TaskGet(t) \/ TaskRedelivered(t)
    <3>1. variant' = variant
      BY <2>4 DEF TaskGet, TaskRedelivered
    <3>2. t.key = k => \E v \in tasks' : v.key = k
      <4>1. \A c \in Content \cup {None} :
               /\ [t EXCEPT !.got = c].key = t.key
               /\ [t EXCEPT !.got = None, !.next = "thumb"].key = t.key
        BY <2>3, TaskBecomes
      <4>2. object[t.key] \in Content \cup {None}
        BY <2>3 DEF TypeOK, Task
      <4>3. CASE TaskGet(t)
        BY <2>2, <4>1, <4>2, <4>3 DEF TaskGet
      <4>4. CASE TaskRedelivered(t)
        BY <4>1, <4>2, <4>4 DEF TaskRedelivered
      <4> QED
        BY <2>4, <4>3, <4>4
    <3>3. \A v \in tasks \ {t} : v \in tasks'
      BY <1>10, TaskKeys
    <3> QED
      BY <1>4, <2>1, <2>2, <3>1, <3>2, <3>3
  <2>5. CASE TaskPut(t) /\ t.key = k
    <3>1. object[k] = t.got /\ t.next \in Size
      BY <2>2, <2>3, <2>5 DEF Got, TaskPut, Task
    <3>2. CASE t.got.kind = "junk"
      BY <2>1, <3>1, <3>2
    <3>3. CASE t.got.kind # "junk"
      <4>1. variant' = [variant EXCEPT ![StemOf(k)][t.next] = t.got]
        BY <2>5, <3>3 DEF TaskPut, StemOf
      <4>2. CASE t.next = "thumb"
        <5>1. [t EXCEPT !.next = "medium"] \in tasks'
          BY <2>5, <3>3, <4>2 DEF TaskPut
        <5>2. [t EXCEPT !.next = "medium"].key = k
          BY <2>3, <2>5, TaskBecomes
        <5> QED
          BY <5>1, <5>2
      <4>3. CASE t.next = "medium"
        <5>1. variant[StemOf(k)]["thumb"] = t.got
          BY <2>2, <2>5, <4>3 DEF Wrote
        <5>2. \A z \in Size : variant'[StemOf(k)][z] = t.got
          BY <1>2, <4>1, <4>3, <5>1 DEF TypeOK, Size
        <5> QED
          BY <2>1, <3>1, <5>2
      <4> QED
        BY <3>1, <4>2, <4>3 DEF Size
    <3> QED
      BY <3>2, <3>3
  <2>6. CASE TaskPut(t) /\ t.key # k
    <3>1. StemOf(t.key) # StemOf(k)
      <4>1. CASE slot = "icon"
        BY <2>6, <4>1 DEF Stem, StemOf
      <4>2. CASE slot = "avatar"
        BY <2>2, <2>6, <4>2 DEF Avatars, Stem, StemOf
      <4> QED
        BY <4>1, <4>2 DEF TypeOK, Slot
    <3>2. variant'[StemOf(k)] = variant[StemOf(k)]
      BY <1>2, <2>6, <3>1 DEF TaskPut, StemOf, TypeOK
    <3>3. (\E v \in tasks : v.key = k) => \E v \in tasks' : v.key = k
      BY <2>6 DEF TaskPut
    <3> QED
      BY <1>4, <2>1, <2>2, <3>2, <3>3
  <2>7. CASE TaskFail(t)
    <3>1. variant' = variant /\ t.key # k
      BY <1>0, <2>7 DEF TaskFail, StemOf
    <3>2. \A v \in tasks \ {t} : v \in tasks'
      BY <2>7 DEF TaskFail
    <3> QED
      BY <1>4, <2>1, <2>2, <3>1, <3>2
  <2> QED
    BY <1>10, <2>4, <2>5, <2>6, <2>7 DEF TaskMoves
<1>11. CASE UNCHANGED vars
  <2>1. UNCHANGED <<row, object, variant, tasks, pc, held, spoilt>>
    BY <1>11 DEF vars, stores, history
  <2> QED
    BY <1>3, <1>4, <2>1
<1> QED
  BY <1>5, <1>6, <1>7, <1>8, <1>9, <1>10, <1>11, StepCases, PreparedSteps,
     CheckedSteps, CommittedSteps, FinishedSteps

LEMMA ImagesStep ==
    ASSUME TypeOK, Holds, KeysInv, ImagesInv, [Next]_vars
    PROVE  ImagesInv'
<1>1. \/ \E r \in Request : Prepared(r) \/ Checked(r) \/ Committed(r) \/ Finished(r)
      \/ Aside /\ spoilt \subseteq spoilt'
  BY StepCases, PreparedSteps, CheckedSteps, CommittedSteps, FinishedSteps, AsideSteps
<1>2. Fresh' /\ KnownOld'
  BY <1>1, FreshStep, KnownOldStep DEF ImagesInv
<1>3. Alone'
  BY AloneStep DEF ImagesInv
<1>4. Avatars' /\ Got' /\ Wrote'
  BY AvatarsStep, GotStep, WroteStep DEF ImagesInv
<1>5. Icons' /\ OldIcons'
  BY <1>1, IconsStep, OldIconsStep DEF ImagesInv
<1>6. Variants'
  BY VariantsStep DEF ImagesInv
<1> QED
  BY <1>2, <1>3, <1>4, <1>5, <1>6 DEF ImagesInv

\* Once no request and no task is under way, the variants shown for an avatar or
\* an icon are made from the image that is there (media_tasks.py), unless it was
\* written again after its check, two images of one stem were on their way at a
\* time, or the confirmation or its task failed at any await; for any number of
\* uploads.
THEOREM VariantsAreOfTheImage == Spec => []VariantsOfTheImage
<1>1. Init => TypeOK /\ Holds /\ KeysInv /\ ImagesInv
  BY TypeInit, KeysInit, ImagesInit
<1>2. TypeOK /\ Holds /\ KeysInv /\ ImagesInv /\ [Next]_vars =>
        TypeOK' /\ Holds' /\ KeysInv' /\ ImagesInv'
  BY TypeStep, KeysStep, ImagesStep
<1>3. TypeOK /\ ImagesInv => VariantsOfTheImage
  BY DEF TypeOK, Stage, ImagesInv, Variants, VariantsOfTheImage, AtRest, Open, StemOf
<1> QED
  BY <1>1, <1>2, <1>3, PTL DEF Spec
=============================================================================

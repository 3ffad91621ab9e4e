------------------------------ MODULE Uploads ------------------------------
(***************************************************************************)
(* The files a row points to: the archive and the icon of an app, the      *)
(* avatar of a user (services/app_archive_service.py, media_service.py,    *)
(* task_queue/tasks/media_tasks.py).  The three follow one pattern.  A     *)
(* first request stores a key as pending and returns a presigned URL; the  *)
(* client PUTs to it, whenever it likes and as often as it likes; a second *)
(* request looks at the object, makes the pending key the key, and removes *)
(* what the old key named.  A task then writes smaller variants of images. *)
(*                                                                         *)
(* One such slot is modelled, with its row in PostgreSQL, its objects in   *)
(* MinIO and its tasks in Celery.                                          *)
(*                                                                         *)
(* missed, setter and what follows them are history variables.             *)
(***************************************************************************)
EXTENDS Naturals, FiniteSets

CONSTANTS Request,   \* every request ever sent about the slot
          Put,       \* every PUT the client ever makes
          Name,      \* file names, extensions of avatars, icons of the past
          Seed, None

ASSUME UploadsAssumption ==
    /\ Request \cap Name = {}
    /\ Seed \notin Request \cup Name
    /\ None \notin Request \cup Name \cup {Seed}

Slot == {"archive", "avatar", "icon"}

\* apps/{app_id}/{filename} and users/{user_id}.{extension} come back, the
\* uuid4() of an icon is fresh: it is named after the request that draws it.
Key == Name \cup Request

Content == [put : Put \cup Name, kind : {"image", "large", "junk"}]

ASSUME NoContentAssumption == None \notin Content

\* variant_key cuts the extension off: all avatars share their variants.
Stem(s, k) == IF s = "avatar" THEN Seed ELSE k

Stems == Key \cup {Seed}

\* IMAGE_SIZES: the variants of an image, in the order they are made and deleted.
Size == {"thumb", "medium"}

VARIABLES slot,      \* which of the three this is; never changes
          row,       \* *_key and pending_*_key
          object,    \* object[k]: the object under key k
          variant,   \* variant[m][z]: the image variant z was made from
          urls,      \* keys a client holds an upload URL for
          puts,      \* PUTs made
          tasks,     \* tasks not acknowledged
          pc,        \* pc[r]: the await request r stands at
          held,      \* held[r]: the row as r's session holds it
          missed,    \* missed[r]: who changed row or objects while r was open
          setter,    \* who wrote row.key
          remover,   \* remover[k]: who deleted the object under k last
          reusers,   \* requests that deleted a key both old and pending
          replacer,  \* replacer[k]: who took k out of row.key last
          late,      \* keys written to after they were replaced
          spoilt,    \* stems that had two images on their way, or lost a
                     \* request or a task on the way; Check starts anew
          failed     \* requests that ended by an exception

stores == <<row, object, variant, urls, puts, tasks>>
history == <<missed, setter, remover, reusers, replacer, late, spoilt,
             failed>>
vars == <<slot, stores, pc, held, history>>

Row == [key : Key \cup {None}, pending : Key \cup {None}]
NoRow == [key |-> None, pending |-> None]

First(k) == [put |-> k, kind |-> "image"]

\* Nothing yet, or what earlier requests have left: the key names an image with
\* variants, a pending upload has been made or not.
Init ==
    /\ slot \in Slot
    /\ row \in {NoRow} \cup [key : Name, pending : Name \cup {None}]
    /\ \E K \in {{row.key}, {row.key, row.pending}} :
          object = [k \in Key |-> IF k \in K THEN First(k) ELSE None]
    /\ variant = [m \in Stems |-> [z \in Size |->
                    IF row.key # None /\ slot # "archive"
                       /\ m = Stem(slot, row.key) THEN First(row.key) ELSE None]]
    /\ urls = {row.pending} \ {None}
    /\ puts = {} /\ tasks = {}
    /\ pc = [r \in Request |-> "new"]
    /\ held = [r \in Request |-> NoRow]
    /\ missed = [r \in Request |-> {}]
    /\ setter = Seed
    /\ remover = [k \in Key |-> Seed] /\ reusers = {}
    /\ replacer = [k \in Key |-> None]
    /\ late = {} /\ spoilt = {} /\ failed = {}

Open(r) == pc[r] \notin {"new", "done"}

\* r goes on; once it is answered its session is gone.
Goto(r, from, to) ==
    /\ pc[r] = from /\ pc' = [pc EXCEPT ![r] = to]
    /\ held' = IF to = "done" THEN [held EXCEPT ![r] = NoRow] ELSE held

\* r has changed the row or an object under the requests that are open.
Overtakes(r) ==
    missed' = [q \in Request |-> IF q # r /\ Open(q) THEN missed[q] \cup {r}
                                                     ELSE missed[q]]

\* r is answered with an error that costs nothing.
Refuse(r, from) ==
    /\ Goto(r, from, "done")
    /\ UNCHANGED <<slot, stores, history>>

\* The session selects the row.
Load(r, to) ==
    /\ pc[r] = "new" /\ pc' = [pc EXCEPT ![r] = to]
    /\ held' = [held EXCEPT ![r] = row]
    /\ UNCHANGED <<slot, stores, history>>

-----------------------------------------------------------------------------
(* The client. *)

Past(q) == pc[q] \in {"commit", "delete_old", "delete_thumb", "delete_medium",
                      "enqueue"}

\* Somebody is between the check of an upload to stem m and its variants.
Busy(m) ==
    \/ \E t \in tasks : Stem(slot, t.key) = m
    \/ \E q \in Request : Past(q) /\ Stem(slot, held[q].pending) = m

\* PUT to a presigned URL.
PutObject(u, k, kind) ==
    /\ u \notin puts /\ k \in urls
    /\ puts' = puts \cup {u}
    /\ object' = [object EXCEPT ![k] = [put |-> u, kind |-> kind]]
    /\ late' = IF replacer[k] # None THEN late \cup {k} ELSE late
    /\ spoilt' = IF row.key = k \/ Busy(Stem(slot, k))
                THEN spoilt \cup {Stem(slot, k)} ELSE spoilt
    /\ UNCHANGED <<slot, row, variant, urls, tasks, pc, held, missed, setter,
                   remover, reusers, replacer, failed>>

-----------------------------------------------------------------------------
(* First request: the pending key and the URL. *)

\* The pending key is written if it is not the one that was loaded.  The client
\* gets the URL after the commit.
PresignCommit(r, k, from) ==
    /\ Goto(r, from, "done")
    /\ row' = [row EXCEPT !.pending = IF k = held[r].pending THEN @ ELSE k]
    /\ urls' = urls \cup {k}
    /\ UNCHANGED <<slot, object, variant, puts, tasks, history>>

PresignAppArchiveUpload(r) ==
    /\ slot = "archive"
    /\ Load(r, "presign") \/ \E k \in Name : PresignCommit(r, k, "presign")

PresignAvatarUpload(r) ==
    /\ slot = "avatar"
    /\ Load(r, "presign") \/ \E k \in Name : PresignCommit(r, k, "presign")

\* A fresh key is never the one that was loaded: the two steps are one.
PresignIconUpload(r) ==
    /\ slot = "icon"
    /\ PresignCommit(r, r, "new")

-----------------------------------------------------------------------------
(* Second request: the pending key becomes the key. *)

old(r) == held[r].key
new(r) == held[r].pending

ConfirmLoad(r) ==
    \/ row.pending # None /\ Load(r, "check")
    \/ row.pending = None /\ Refuse(r, "new")

\* Mutant: nobody looks whether the upload has happened.
CheckNothing(r, kinds) ==
    /\ pc[r] = "check"
    /\ spoilt' = spoilt
    /\ pc' = [pc EXCEPT ![r] = "commit"]
    /\ UNCHANGED <<slot, stores, held, missed, setter, remover, reusers,
                   replacer, late, failed>>

\* The object is there and, where that matters, small enough.
Check(r, kinds) ==
    /\ pc[r] = "check"
    /\ object[new(r)] # None /\ object[new(r)].kind \in kinds
    /\ spoilt' = IF missed[r] # {} \/ Busy(Stem(slot, new(r)))
                THEN spoilt \cup {Stem(slot, new(r))}
                ELSE spoilt \ {Stem(slot, new(r))}
    /\ pc' = [pc EXCEPT ![r] = "commit"]
    /\ UNCHANGED <<slot, stores, held, missed, setter, remover, reusers,
                   replacer, late, failed>>

CheckMissing(r) ==
    /\ pc[r] = "check"
    /\ object[new(r)] = None
    /\ Refuse(r, "check")

\* DELETE of the object under k.
DeleteObject(r, k, from, to) ==
    /\ Goto(r, from, to)
    /\ object' = [object EXCEPT ![k] = None]
    /\ remover' = [remover EXCEPT ![k] = r]
    /\ reusers' = IF old(r) = new(r) THEN reusers \cup {r} ELSE reusers
    /\ Overtakes(r)
    /\ UNCHANGED <<slot, row, variant, urls, puts, tasks, setter, replacer, late,
                   spoilt, failed>>

\* Too large: the object goes, then the pending key; 413.
CheckTooLarge(r) ==
    /\ pc[r] = "check"
    /\ object[new(r)] # None /\ object[new(r)].kind = "large"
    /\ DeleteObject(r, new(r), "check", "forget")

ForgetPending(r) ==
    /\ Goto(r, "forget", "done")
    /\ row' = [row EXCEPT !.pending = None]
    /\ UNCHANGED <<slot, object, variant, urls, puts, tasks, history>>

\* UPDATE of the columns that are not what was loaded.
Commit(r, to) ==
    LET moves == new(r) # old(r) /\ new(r) # row.key IN
    /\ Goto(r, "commit", to)
    /\ row' = [key |-> IF moves THEN new(r) ELSE row.key, pending |-> None]
    /\ setter' = IF new(r) # old(r) THEN r ELSE setter
    /\ replacer' = [k \in Key |->
                      IF ~moves THEN replacer[k]
                      ELSE IF k = row.key THEN r
                      ELSE IF k = new(r) THEN None ELSE replacer[k]]
    /\ late' = IF moves THEN late \ {row.key} ELSE late
    /\ Overtakes(r)
    /\ UNCHANGED <<slot, object, variant, urls, puts, tasks, remover, reusers,
                   spoilt, failed>>

\* DELETE of variant z of k.
DeleteVariant(r, k, z, from, to) ==
    /\ Goto(r, from, to)
    /\ variant' = [variant EXCEPT ![Stem(slot, k)][z] = None]
    /\ UNCHANGED <<slot, row, object, urls, puts, tasks, history>>

\* generate_image_variants.delay
Enqueue(r) ==
    /\ Goto(r, "enqueue", "done")
    /\ tasks' = tasks \cup
                   {[by |-> r, key |-> new(r), got |-> None, next |-> "thumb"]}
    /\ UNCHANGED <<slot, row, object, variant, urls, puts, history>>

\* What the old key names is deleted, even if it is the new key.
ConfirmAppArchiveUpload(r) ==
    /\ slot = "archive"
    /\ \/ ConfirmLoad(r) \/ CheckMissing(r)
       \/ Check(r, {"image", "large", "junk"})
       \/ old(r) = None /\ Commit(r, "done")
       \/ old(r) # None /\ Commit(r, "delete_old")
       \/ DeleteObject(r, old(r), "delete_old", "done")

\* Mutant: the variants are made only if there was an avatar before.
ConfirmAvatarUploadIndented(r) ==
    /\ slot = "avatar"
    /\ \/ ConfirmLoad(r) \/ CheckMissing(r)
       \/ CheckTooLarge(r) \/ ForgetPending(r)
       \/ Check(r, {"image", "junk"})
       \/ old(r) = None /\ Commit(r, "done")
       \/ old(r) # None /\ Commit(r, "enqueue")
       \/ Enqueue(r)

\* delete_image_variants is called but never awaited: nothing is deleted.
ConfirmAvatarUpload(r) ==
    /\ slot = "avatar"
    /\ \/ ConfirmLoad(r) \/ CheckMissing(r)
       \/ CheckTooLarge(r) \/ ForgetPending(r)
       \/ Check(r, {"image", "junk"})
       \/ Commit(r, "enqueue")
       \/ Enqueue(r)

\* Mutant: as for the avatar, the deletion is not awaited.
ConfirmIconUploadNoAwait(r) ==
    /\ slot = "icon"
    /\ \/ ConfirmLoad(r) \/ CheckMissing(r)
       \/ CheckTooLarge(r) \/ ForgetPending(r)
       \/ Check(r, {"image", "junk"})
       \/ Commit(r, "enqueue")
       \/ Enqueue(r)

ConfirmIconUpload(r) ==
    /\ slot = "icon"
    /\ \/ ConfirmLoad(r) \/ CheckMissing(r)
       \/ CheckTooLarge(r) \/ ForgetPending(r)
       \/ Check(r, {"image", "junk"})
       \/ old(r) = None /\ Commit(r, "enqueue")
       \/ old(r) # None /\ Commit(r, "delete_old")
       \/ DeleteObject(r, old(r), "delete_old", "delete_thumb")
       \/ DeleteVariant(r, old(r), "thumb", "delete_thumb", "delete_medium")
       \/ DeleteVariant(r, old(r), "medium", "delete_medium", "enqueue")
       \/ Enqueue(r)

\* An exception at an await: what is committed or deleted by then stays.  One
\* that fails earlier might as well not have been sent.
Fail(r) ==
    /\ pc[r] \in {"forget", "delete_old", "delete_thumb", "delete_medium", "enqueue"}
    /\ Goto(r, pc[r], "done")
    /\ failed' = failed \cup {r}
    /\ spoilt' = IF Past(r) THEN spoilt \cup {Stem(slot, new(r))} ELSE spoilt
    /\ UNCHANGED <<slot, stores, missed, setter, remover, reusers, replacer,
                   late>>

-----------------------------------------------------------------------------
(* generate_image_variants, run by any worker. *)

\* get_object finds the image, or ends the task because there is none.
TaskGet(t) ==
    /\ t.got = None
    /\ tasks' = (tasks \ {t}) \cup
                  (IF object[t.key] = None THEN {}
                   ELSE {[t EXCEPT !.got = object[t.key]]})
    /\ UNCHANGED <<slot, row, object, variant, urls, puts, pc, held, history>>

\* put_object of the next variant.  What is no image is logged and left.  The
\* message is acknowledged after the last one.
TaskPut(t) ==
    /\ t.got # None
    /\ IF t.got.kind = "junk"
       THEN tasks' = tasks \ {t} /\ UNCHANGED <<variant, late>>
       ELSE /\ tasks' = (tasks \ {t}) \cup
                  (IF t.next = "medium" THEN {} ELSE {[t EXCEPT !.next = "medium"]})
            /\ variant' = [variant EXCEPT ![Stem(slot, t.key)][t.next] = t.got]
            /\ late' = IF replacer[t.key] # None THEN late \cup {t.key} ELSE late
    /\ UNCHANGED <<slot, row, object, urls, puts, pc, held, missed, setter,
                   remover, reusers, replacer, spoilt, failed>>

\* An exception at get_object or read(), where self.requests raises another one
\* before retry, at put_object, or in PIL but for UnidentifiedImageError.  The
\* message is acknowledged all the same: what is written by then is all there is.
TaskFail(t) ==
    /\ tasks' = tasks \ {t}
    /\ spoilt' = spoilt \cup {Stem(slot, t.key)}
    /\ UNCHANGED <<slot, row, object, variant, urls, puts, pc, held, missed, setter,
                   remover, reusers, replacer, late, failed>>

\* task_acks_late: the message of a worker that died is delivered again.
TaskRedelivered(t) ==
    /\ t.got # None
    /\ tasks' = (tasks \ {t}) \cup {[t EXCEPT !.got = None, !.next = "thumb"]}
    /\ UNCHANGED <<slot, row, object, variant, urls, puts, pc, held, history>>

\* No request is being served and every task is acknowledged.
AtRest == (\A r \in Request : ~Open(r)) /\ tasks = {}

Done == AtRest /\ (\A r \in Request : pc[r] = "done") /\ UNCHANGED vars

Next ==
    \/ \E r \in Request :
          \/ PresignAppArchiveUpload(r) \/ ConfirmAppArchiveUpload(r)
          \/ PresignAvatarUpload(r) \/ ConfirmAvatarUpload(r)
          \/ PresignIconUpload(r) \/ ConfirmIconUpload(r)
          \/ Fail(r)
    \/ \E u \in Put, k \in urls, kind \in {"image", "large", "junk"} :
          PutObject(u, k, kind)
    \/ \E t \in tasks :
          TaskGet(t) \/ TaskPut(t) \/ TaskFail(t) \/ TaskRedelivered(t)
    \/ Done

Spec == Init /\ [][Next]_vars

-----------------------------------------------------------------------------
Stage == {"new", "presign", "check", "forget", "commit", "delete_old",
          "delete_thumb", "delete_medium", "enqueue", "done"}

Task == [by : Request, key : Key, got : Content \cup {None}, next : Size]

TypeOK ==
    /\ slot \in Slot
    /\ row \in Row
    /\ object \in [Key -> Content \cup {None}]
    /\ variant \in [Stems -> [Size -> Content \cup {None}]]
    /\ urls \subseteq Key /\ puts \subseteq Put /\ tasks \subseteq Task
    /\ pc \in [Request -> Stage]
    /\ held \in [Request -> Row]
    /\ missed \in [Request -> SUBSET Request]
    /\ setter \in Request \cup {Seed}
    /\ remover \in [Key -> Request \cup {Seed}] /\ reusers \subseteq Request
    /\ replacer \in [Key -> Request \cup {None}]
    /\ late \subseteq Key /\ spoilt \subseteq Stems /\ failed \subseteq Request

\* The key of a row names an object, unless the request that deleted it had
\* loaded that very key as both old and pending (an archive uploaded under its
\* old name, an avatar too large), or overlapped the request that set the key.
KeyDanglesOnlyByReuseOrOverlap ==
    row.key # None /\ object[row.key] = None =>
        LET d == remover[row.key] IN
        \/ d \in reusers
        \/ d \in Request /\ setter \in missed[d]
        \/ setter \in Request /\ d \in missed[setter]

\* A file that was replaced is gone, variants included, once all is at rest,
\* unless the request that replaced it failed or was overtaken, or the file was
\* written anew.  Only avatars stay (media_service.py:122).
ReplacedFileGone ==
    AtRest => \A k \in Key : replacer[k] # None =>
        \/ /\ object[k] = None
           /\ slot = "icon" => \A z \in Size : variant[k][z] = None
        \/ k \in late \/ replacer[k] \in failed \/ missed[replacer[k]] # {}
        \/ slot = "avatar"

\* All variants shown for an image are made from that image once all is at rest,
\* unless it was written again after its size was checked, or two images of one
\* stem were on their way together, or the confirming request or its task failed
\* (nothing of it is retried, media_tasks.py:42).
VariantsOfTheImage ==
    AtRest /\ slot # "archive" /\ row.key # None /\ object[row.key] # None =>
        \/ object[row.key].kind = "junk"
        \/ \A z \in Size : variant[Stem(slot, row.key)][z] = object[row.key]
        \/ Stem(slot, row.key) \in spoilt
=============================================================================

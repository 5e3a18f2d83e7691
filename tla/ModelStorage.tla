---------------------------- MODULE ModelStorage ----------------------------
(***************************************************************************)
(* The imported 3D models of one account (apps/projects): ImportedModel    *)
(* rows, the objects they name in the bucket, and the storage counter that *)
(* signals keep in UserStats.  A model arrives by a multipart upload, by a *)
(* presigned PUT confirmed later, or as a copy made with the duplicate of  *)
(* its project; it leaves alone or with its project.                       *)
(*                                                                         *)
(* Every statement commits on its own, except a delete: one transaction    *)
(* whose signals already erase the objects.  An object stands for a file   *)
(* with its .mtl and has size 1.  A key is numbered when it is first used:  *)
(* a presigned URL and a copy draw a random one, a multipart upload keeps  *)
(* the client's file name whenever the bucket has no such object.          *)
(***************************************************************************)
EXTENDS Integers, FiniteSets

CONSTANTS
    Requests,  \* bound: requests in flight at once
    Placed,    \* models uploaded long ago: rows 1 .. Placed, each with the key of its number
    Limit,     \* storage_limit_bytes, in objects
    MaxRows,   \* bound: ids given to rows
    MaxKeys,   \* bound: keys used
    MaxMishaps \* bound: increments lost and decrements repeated

ASSUME StorageAssumption ==
    /\ {Placed, Limit, MaxRows, MaxKeys, MaxMishaps} \subseteq Nat
    /\ Placed <= Limit /\ Placed <= MaxRows /\ Placed <= MaxKeys

VARIABLES
    project,    \* the project and the one its duplication makes
    live,       \* ids of the rows of the table
    home,       \* the project of each row inserted so far
    file,       \* the key of each row inserted so far
    stored,     \* keys with an object in the bucket
    presigned,  \* keys a presigned URL was given for
    keys,       \* number of keys used so far
    used,       \* UserStats.storage_used_bytes
    pc,         \* progress of each request
    held,       \* what it read: a key, a row, rows, the project it inserts into
    mishaps,    \* history: how many times an increment was lost or a decrement repeated
    crowded,    \* history: a request was admitted while another was not counted yet
    contested,  \* history: keys taken while another request or a row had them
    erased      \* history: rows of the table whose object a delete has erased

bucket == <<stored, presigned, keys>>
table == <<project, live, home, file>>
history == <<mishaps, crowded, contested, erased>>
vars == <<bucket, table, used, pc, held, history>>

Ids == 1 .. MaxRows
Keys == 1 .. MaxKeys
Projects == {"original", "copy"}
Admitted == {"name", "write", "list", "copy", "insert", "count"}
Steps == {"idle", "weigh", "discard", "edit", "erase", "cascade", "commit"} \cup Admitted

Nothing == [key |-> 0, row |-> 0, rows |-> {}, into |-> "original"]

TypeOK ==
    /\ project \in [Projects -> {"none", "open", "deleted"}]
    /\ live \in SUBSET Ids
    /\ home \in [Ids -> Projects]
    /\ file \in [Ids -> 0 .. MaxKeys]
    /\ \A r \in live : file[r] \in 1 .. keys
    /\ stored \in SUBSET (1 .. keys)
    /\ presigned \in SUBSET (1 .. keys)
    /\ keys \in 0 .. MaxKeys
    /\ used \in Int
    /\ pc \in [Requests -> Steps]
    /\ held \in [Requests -> [key : 0 .. MaxKeys, row : 0 .. MaxRows,
                              rows : SUBSET Ids, into : Projects]]
    /\ mishaps \in 0 .. MaxMishaps
    /\ crowded \in BOOLEAN
    /\ contested \in SUBSET Keys
    /\ erased \in SUBSET Ids

Init ==
    /\ project = [p \in Projects |-> IF p = "original" THEN "open" ELSE "none"]
    /\ live = 1 .. Placed
    /\ home = [r \in Ids |-> "original"]
    /\ file = [r \in Ids |-> IF r \in live THEN r ELSE 0]
    /\ stored = 1 .. Placed /\ presigned = {} /\ keys = Placed
    /\ used = Placed
    /\ pc = [q \in Requests |-> "idle"]
    /\ held = [q \in Requests |-> Nothing]
    /\ mishaps = 0 /\ crowded = FALSE /\ contested = {} /\ erased = {}

-----------------------------------------------------------------------------
Goto(q, from, to) ==
    /\ pc[q] = from
    /\ pc' = [pc EXCEPT ![q] = to]

Keeping(q, h) == held' = [held EXCEPT ![q] = h]

\* The request answers, or dies.
End(q, from) == Goto(q, from, "idle") /\ Keeping(q, Nothing)

RowsOf(p) == {r \in live : home[r] = p}

Mishap == mishaps < MaxMishaps /\ mishaps' = mishaps + 1

\* The next id of the table: no row ever had it.
NextRow(r) == r \in Ids /\ file[r] = 0 /\ \A s \in Ids : s < r => file[s] # 0

\* token_urlsafe: a key never used before.
NewKey == keys' = keys + 1 /\ keys < MaxKeys

\* Some other request was admitted and its rows are not all in the counter yet.
Crowd(q) == \E p \in Requests \ {q} : pc[p] \in Admitted

\* The quota test of the four handlers; admitting notes who else is under way.
Fits(n) == used + n <= Limit
Admit(q) == crowded' = (crowded \/ Crowd(q))

\* Request p is about to register, to discard or to erase the object of key k.
Holds(p, k) ==
    \/ pc[p] \in {"weigh", "discard", "write", "insert"} /\ held[p].key = k
    \/ pc[p] \in {"erase", "cascade"} /\ \E r \in held[p].rows : file[r] = k

\* A request takes key k; it is contested when a model or another request has it.
Take(q, k) ==
    contested' = IF (\E r \in live : file[r] = k) \/ (\E p \in Requests \ {q} : Holds(p, k))
                 THEN contested \cup {k} ELSE contested

-----------------------------------------------------------------------------
(* Multipart upload and confirmation. *)

\* ImportedModelListCreateView.post: the project is found and the quota tested ...
AdmitUpload(q) ==
    /\ project["original"] = "open"
    /\ Fits(1)
    /\ Goto(q, "idle", "name")
    /\ Admit(q)
    /\ UNCHANGED <<bucket, table, used, held, mishaps, contested, erased>>

\* ... the storage backend looks for a name without an object (AWS_S3_FILE_OVERWRITE is
\* off): the client's own if it is free, be it that of a file now deleted ...
NameFile(q, k) ==
    /\ k \in (1 .. keys + 1) \ stored
    /\ k <= MaxKeys
    /\ Goto(q, "name", "write")
    /\ keys' = IF k > keys THEN k ELSE keys
    /\ Keeping(q, [held[q] EXCEPT !.key = k])
    /\ Take(q, k)
    /\ UNCHANGED <<stored, presigned, table, used, mishaps, crowded, erased>>

\* ... and the file is written under it, before the INSERT.
WriteFile(q) ==
    /\ Goto(q, "write", "insert")
    /\ stored' = stored \cup {held[q].key}
    /\ UNCHANGED <<presigned, keys, table, used, held, history>>

\* PresignedUploadView: a URL for a new key, if one more object would fit.
SignUrl ==
    /\ project["original"] = "open"
    /\ Fits(1)
    /\ NewKey
    /\ presigned' = presigned \cup {keys + 1}
    /\ UNCHANGED <<stored, table, used, pc, held, history>>

\* The client sends the file straight to the bucket, whatever became of its key meanwhile.
\* The expiry of the URL only removes behaviours.
PutFile(k) ==
    /\ k \in presigned
    /\ stored' = stored \cup {k}
    /\ UNCHANGED <<presigned, keys, table, used, pc, held, history>>

\* head_object: any object of the bucket, whoever put it there.
Found(k) == k \in stored

\* PresignedUploadConfirmView.post: the HEAD finds the object ...
HeadFile(q, k) ==
    /\ project["original"] = "open"
    /\ Found(k)
    /\ Goto(q, "idle", "weigh")
    /\ Keeping(q, [Nothing EXCEPT !.key = k])
    /\ Take(q, k)
    /\ UNCHANGED <<bucket, table, used, mishaps, crowded, erased>>

\* ... the quota is tested again with its real size ...
AdmitFile(q) ==
    /\ Fits(1)
    /\ Goto(q, "weigh", "insert")
    /\ Admit(q)
    /\ UNCHANGED <<bucket, table, used, held, mishaps, contested, erased>>

RefuseFile(q) ==
    /\ ~Fits(1)
    /\ Goto(q, "weigh", "discard")
    /\ UNCHANGED <<bucket, table, used, held, history>>

\* ... and an object that does not fit is deleted.
DiscardFile(q) ==
    /\ End(q, "discard")
    /\ stored' = stored \ {held[q].key}
    /\ UNCHANGED <<presigned, keys, table, used, history>>

-----------------------------------------------------------------------------
(* The row and the counter, for every way in. *)

InsertRow(q, r) ==
    LET p == held[q].into IN
    /\ project[p] = "open"
    /\ NextRow(r)
    /\ Goto(q, "insert", "count")
    /\ live' = live \cup {r}
    /\ home' = [home EXCEPT ![r] = p]
    /\ file' = [file EXCEPT ![r] = held[q].key]
    /\ Keeping(q, [held[q] EXCEPT !.key = 0])
    /\ UNCHANGED <<bucket, project, used, history>>

\* The project is gone: the foreign key refuses the INSERT and the object stays.
InsertRefused(q) ==
    /\ project[held[q].into] = "deleted"
    /\ End(q, "insert")
    /\ UNCHANGED <<bucket, table, used, history>>

\* increment_storage_on_model_save; a duplication goes on to its next model.
CountRow(q) ==
    /\ IF held[q].rows = {} THEN End(q, "count") ELSE Goto(q, "count", "copy") /\ UNCHANGED held
    /\ used' = used + 1
    /\ UNCHANGED <<bucket, table, history>>

-----------------------------------------------------------------------------
(* POST /projects/{id}/duplicate?copy_assets=true. *)

\* Fault: the quota is left to the uploads.
AdmitAnyCopy(q) ==
    /\ project["original"] = "open"
    /\ project["copy"] = "none"
    /\ Goto(q, "idle", "list")
    /\ Keeping(q, [Nothing EXCEPT !.rows = RowsOf("original"), !.into = "copy"])
    /\ project' = [project EXCEPT !["copy"] = "open"]
    /\ Admit(q)
    /\ UNCHANGED <<bucket, live, home, file, used, mishaps, contested, erased>>

\* The size of all the models is tested once, then the project is created ...
AdmitCopy(q) ==
    /\ project["original"] = "open"
    /\ project["copy"] = "none"
    /\ Fits(Cardinality(RowsOf("original")))
    /\ Goto(q, "idle", "list")
    /\ Keeping(q, [Nothing EXCEPT !.rows = RowsOf("original"), !.into = "copy"])
    /\ project' = [project EXCEPT !["copy"] = "open"]
    /\ Admit(q)
    /\ UNCHANGED <<bucket, live, home, file, used, mishaps, contested, erased>>

\* ... and the models are read again, those to copy.
ListModels(q) ==
    LET rows == RowsOf("original") IN
    /\ \/ /\ rows # {}
          /\ Goto(q, "list", "copy")
          /\ Keeping(q, [held[q] EXCEPT !.rows = rows])
       \/ /\ rows = {}
          /\ End(q, "list")
    /\ UNCHANGED <<bucket, table, used, history>>

\* copy_object, to a new key.
CopyObject(q, r) ==
    /\ r \in held[q].rows
    /\ file[r] \in stored
    /\ Goto(q, "copy", "insert")
    /\ NewKey
    /\ stored' = stored \cup {keys + 1}
    /\ Keeping(q, [held[q] EXCEPT !.key = keys + 1, !.rows = @ \ {r}])
    /\ UNCHANGED <<presigned, table, used, history>>

\* The source was erased since: the request answers 500 half-way.
CopyFails(q, r) ==
    /\ r \in held[q].rows
    /\ file[r] \notin stored
    /\ End(q, "copy")
    /\ UNCHANGED <<bucket, table, used, history>>

-----------------------------------------------------------------------------
(* PATCH and DELETE of a model, DELETE of a project. *)

FetchForEdit(q, r) ==
    /\ r \in live
    /\ Goto(q, "idle", "edit")
    /\ Keeping(q, [Nothing EXCEPT !.row = r])
    /\ UNCHANGED <<bucket, table, used, history>>

\* Fault: the signal counts every save.
SaveCountedAgain(q) ==
    /\ held[q].row \in live
    /\ End(q, "edit")
    /\ used' = used + 1
    /\ UNCHANGED <<bucket, table, history>>

\* serializer.save() writes the whole row; name and transforms are not modelled.
SaveEdit(q) ==
    /\ held[q].row \in live
    /\ End(q, "edit")
    /\ UNCHANGED <<bucket, table, used, history>>

\* The row was deleted since: save() inserts it again, and the signal counts it; its key
\* has lost its object, or is another model's by now.
SaveRevives(q) ==
    LET r == held[q].row IN
    /\ Goto(q, "edit", "count")
    /\ r \notin live
    /\ project[home[r]] = "open"
    /\ live' = live \cup {r}
    /\ Keeping(q, Nothing)
    /\ crowded' = TRUE
    /\ contested' = contested \cup {file[r]}
    /\ UNCHANGED <<bucket, project, home, file, used, mishaps, erased>>

SaveRefused(q) ==
    /\ End(q, "edit")
    /\ held[q].row \notin live
    /\ project[home[held[q].row]] = "deleted"
    /\ UNCHANGED <<bucket, table, used, history>>

FetchToDelete(q, r) ==
    /\ r \in live
    /\ Goto(q, "idle", "erase")
    /\ Keeping(q, [Nothing EXCEPT !.row = r, !.rows = {r}])
    /\ UNCHANGED <<bucket, table, used, history>>

\* The collector reads the models of the project with it.  The copy is never deleted as a
\* whole: it would go the same way.
FetchProject(q) ==
    /\ project["original"] = "open"
    /\ Goto(q, "idle", "cascade")
    /\ Keeping(q, [Nothing EXCEPT !.rows = RowsOf("original")])
    /\ UNCHANGED <<bucket, table, used, history>>

\* A request inside a delete holds the UserStats row.
StatsLocked(q) == \E p \in Requests \ {q} : pc[p] = "commit"

\* Fault: the cascade takes every object of the account.
EraseAll(q) ==
    /\ pc[q] \in {"erase", "cascade"}
    /\ ~StatsLocked(q)
    /\ pc' = [pc EXCEPT ![q] = "commit"]
    /\ stored' = {}
    /\ erased' = erased \cup (held[q].rows \cap live)
    /\ UNCHANGED <<presigned, keys, table, used, held, mishaps, crowded, contested>>

\* decrement_storage_on_model_delete, inside the transaction: the objects are erased now.
\* A second cascade over a project that is gone fails in the signal.
EraseFiles(q) ==
    /\ pc[q] \in {"erase", "cascade"}
    /\ ~StatsLocked(q)
    /\ pc[q] = "cascade" => project[held[q].into] = "open"
    /\ pc' = [pc EXCEPT ![q] = "commit"]
    /\ stored' = stored \ {file[r] : r \in held[q].rows}
    /\ erased' = erased \cup (held[q].rows \cap live)
    /\ UNCHANGED <<presigned, keys, table, used, held, mishaps, crowded, contested>>

CascadeFails(q) ==
    /\ project[held[q].into] = "deleted"
    /\ ~StatsLocked(q)
    /\ End(q, "cascade")
    /\ UNCHANGED <<bucket, table, used, history>>

\* The whole project goes, and not only one of its models.
Whole(q) == held[q].row = 0

\* A model was added since the collector read them: the foreign key refuses the commit.
Overlooked(q) == Whole(q) /\ ~(RowsOf(held[q].into) \subseteq held[q].rows)

\* The rows go and the counter moves by all of them, those another delete already took
\* included.
CommitDelete(q) ==
    /\ ~Overlooked(q)
    /\ End(q, "commit")
    /\ live' = live \ held[q].rows
    /\ project' = IF Whole(q) THEN [project EXCEPT ![held[q].into] = "deleted"] ELSE project
    /\ used' = used - Cardinality(held[q].rows)
    /\ IF held[q].rows \subseteq live THEN UNCHANGED mishaps ELSE Mishap
    /\ erased' = erased \ held[q].rows
    /\ UNCHANGED <<bucket, home, file, crowded, contested>>

\* The transaction is rolled back; the objects are not.
RollBack(q) ==
    /\ Overlooked(q)
    /\ End(q, "commit")
    /\ UNCHANGED <<bucket, table, used, history>>

\* The web worker is killed between two steps; a transaction is rolled back.
KillRequest(q) ==
    /\ pc[q] # "idle" /\ End(q, pc[q])
    /\ IF pc[q] = "count" THEN Mishap ELSE UNCHANGED mishaps
    /\ UNCHANGED <<bucket, table, used, crowded, contested, erased>>

-----------------------------------------------------------------------------
Upload(q) ==
    \/ AdmitUpload(q) \/ (\E k \in Keys : NameFile(q, k)) \/ WriteFile(q)
    \/ (\E k \in Keys : HeadFile(q, k)) \/ AdmitFile(q) \/ RefuseFile(q) \/ DiscardFile(q)
    \/ (\E r \in Ids : InsertRow(q, r)) \/ InsertRefused(q) \/ CountRow(q)

Duplicate(q) == AdmitCopy(q) \/ ListModels(q) \/ \E r \in Ids : CopyObject(q, r) \/ CopyFails(q, r)

Edit(q) ==
    \/ \E r \in Ids : FetchForEdit(q, r)
    \/ SaveEdit(q) \/ SaveRevives(q) \/ SaveRefused(q)

Delete(q) ==
    \/ (\E r \in Ids : FetchToDelete(q, r)) \/ FetchProject(q)
    \/ EraseFiles(q) \/ CascadeFails(q) \/ CommitDelete(q) \/ RollBack(q)

Next ==
    \/ \E q \in Requests : Upload(q) \/ Duplicate(q) \/ Edit(q) \/ Delete(q) \/ KillRequest(q)
    \/ SignUrl
    \/ \E k \in Keys : PutFile(k)

Spec == Init /\ [][Next]_vars

-----------------------------------------------------------------------------
(* Properties. *)

\* The signals of apps/projects: the counter is the number of models, less those whose
\* request has not reached its increment, whatever uploads, copies, edits and deletes
\* interleave, unless a killed request lost an increment or two deletes took one row.
StorageCounted ==
    mishaps = 0 =>
        used + Cardinality({q \in Requests : pc[q] = "count"}) = Cardinality(live)

\* 'Quota storage depasse': the account never has more models than its quota, unless two
\* requests were admitted before either was counted, or an edit brought a model back.
QuotaKept == mishaps = 0 /\ ~crowded => Cardinality(live) <= Limit

\* A model of the table can be downloaded, unless its key was confirmed or named while
\* another model or request had it, a late PATCH brought a model back to it, or the
\* object went with a delete under way or rolled back (ImportedModelListCreateView and
\* PresignedUploadConfirmView against the post_delete signal).
RowHasObject ==
    /\ TypeOK
    /\ \A r \in live \ erased : file[r] \in stored \cup contested
=============================================================================

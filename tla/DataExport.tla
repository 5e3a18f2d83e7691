------------------------------ MODULE DataExport ------------------------------
(***************************************************************************)
(* The personal data export of apps/gdpr for one account: POST             *)
(* /me/export-data inserts an ExportRequest and publishes a message, the   *)
(* Celery task build_user_export_zip uploads an archive to the object      *)
(* storage and marks the row ready, cleanup_expired_exports collects       *)
(* archives older than 24 hours, and GET /me/export-data/status shows the  *)
(* latest row.                                                             *)
(*                                                                         *)
(* The storage never overwrites (AWS_S3_FILE_OVERWRITE is False): a second *)
(* upload of an export is stored under an altered name, which no row       *)
(* records.  Deliveries are pairs <<export, copy>>, as in RenderPipeline.  *)
(***************************************************************************)
EXTENDS Naturals, FiniteSets

CONSTANTS
    Exports,          \* bound: the POST requests ever made, numbered as they arrive
    MaxRetries,       \* max_retries of build_user_export_zip
    Redelivered       \* bound: requests whose message the broker may hand out once more

ASSUME ExportAssumption ==
    /\ Exports \subseteq Nat
    /\ MaxRetries \in Nat
    /\ Redelivered \subseteq Exports

VARIABLES
    status,     \* status column of each row, or why there is no row
    past,       \* rows whose expires_at is over
    keyed,      \* rows whose file_key is set
    archives,   \* stored objects: <<export, "key">> and <<export, "altered">>
    latest,     \* the row inserted last, in a set
    post,       \* progress of the POST request that may create each row
    task,       \* progress of each delivery
    retries,    \* request.retries of each delivery
    viewing,    \* rows a status request has read as expired and not saved yet
    listed,     \* rows the running cleanup has read and not finished: row |-> next step
    erased,     \* the account was hard deleted
    crowded     \* history: two POST requests were in flight together

exportVars == <<status, past, keyed, archives, latest, post, task, retries, viewing, listed,
               erased, crowded>>

Deliveries == (Exports \X {0}) \cup (Redelivered \X {1})

Active == {"queued", "processing"}
RowStatus == Active \cup {"ready", "expired", "failed"}
PostSteps == {"create", "enqueue"}
Running == {"build", "publish", "fail"}

Exists(e) == status[e] \in RowStatus

ExportTypeOK ==
    /\ status \in [Exports -> RowStatus \cup {"unborn", "deleted"}]
    /\ past \in SUBSET Exports
    /\ keyed \in SUBSET Exports
    /\ archives \in SUBSET (Exports \X {"key", "altered"})
    /\ latest \in SUBSET Exports
    /\ post \in [Exports -> PostSteps \cup {"none", "over"}]
    /\ task \in [Deliveries -> Running \cup {"none", "queued", "over", "lost"}]
    /\ retries \in [Deliveries -> 0 .. MaxRetries]
    /\ viewing \in SUBSET Exports
    /\ listed \in [Exports -> {"no", "delete", "save"}]
    /\ erased \in BOOLEAN
    /\ crowded \in BOOLEAN

ExportInit ==
    /\ status = [e \in Exports |-> "unborn"]
    /\ past = {}
    /\ keyed = {}
    /\ archives = {}
    /\ latest = {}
    /\ post = [e \in Exports |-> "none"]
    /\ task = [d \in Deliveries |-> "none"]
    /\ retries = [d \in Deliveries |-> 0]
    /\ viewing = {}
    /\ listed = [e \in Exports |-> "no"]
    /\ erased = FALSE
    /\ crowded = FALSE

-----------------------------------------------------------------------------
(* ExportDataView.post *)

Arrives(e) == post[e] = "none" /\ \A x \in Exports : x < e => post[x] # "none"

\* Fault: only queued requests count as running.
AskQueuedOnly(e) ==
    /\ ~erased
    /\ Arrives(e)
    /\ post' = [post EXCEPT ![e] = IF \E x \in Exports : status[x] = "queued"
                                   THEN "over" ELSE "create"]
    /\ crowded' = (crowded \/ \E x \in Exports : post[x] \in PostSteps)
    /\ UNCHANGED <<status, past, keyed, archives, latest, task, retries, viewing, listed, erased>>

\* A queued or processing request is returned instead of a new one.
Ask(e) ==
    /\ ~erased
    /\ Arrives(e)
    /\ post' = [post EXCEPT ![e] = IF \E x \in Exports : status[x] \in Active
                                   THEN "over" ELSE "create"]
    /\ crowded' = (crowded \/ \E x \in Exports : post[x] \in PostSteps)
    /\ UNCHANGED <<status, past, keyed, archives, latest, task, retries, viewing, listed, erased>>

\* The insertion fails when the account is gone.
CreateRow(e) ==
    /\ post[e] = "create"
    /\ IF erased
       THEN /\ post' = [post EXCEPT ![e] = "over"]
            /\ UNCHANGED <<status, latest>>
       ELSE /\ post' = [post EXCEPT ![e] = "enqueue"]
            /\ status' = [status EXCEPT ![e] = "queued"]
            /\ latest' = {e}
    /\ UNCHANGED <<past, keyed, archives, task, retries, viewing, listed, erased, crowded>>

Enqueue(e) ==
    /\ post[e] = "enqueue"
    /\ post' = [post EXCEPT ![e] = "over"]
    /\ task' = [task EXCEPT ![<<e, 0>>] = "queued"]
    /\ UNCHANGED <<status, past, keyed, archives, latest, retries, viewing, listed, erased, crowded>>

\* The broker is unreachable or the worker is killed: the row stays without a message.
AbortPost(e) ==
    /\ post[e] \in PostSteps
    /\ post' = [post EXCEPT ![e] = "over"]
    /\ UNCHANGED <<status, past, keyed, archives, latest, task, retries, viewing, listed,
                   erased, crowded>>

-----------------------------------------------------------------------------
(* The broker. *)

Redeliver(e) ==
    /\ task[<<e, 0>>] = "queued"
    /\ task[<<e, 1>>] = "none"
    /\ task' = [task EXCEPT ![<<e, 1>>] = "queued"]
    /\ retries' = [retries EXCEPT ![<<e, 1>>] = retries[<<e, 0>>]]
    /\ UNCHANGED <<status, past, keyed, archives, latest, post, viewing, listed, erased, crowded>>

\* A message that is over or lost takes its retry count with it.
Finish(d, how) ==
    /\ task' = [task EXCEPT ![d] = how]
    /\ retries' = [retries EXCEPT ![d] = 0]

Lose(d) ==
    /\ task[d] \in Running \cup {"queued"}
    /\ Finish(d, "lost")
    /\ UNCHANGED <<status, past, keyed, archives, latest, post, viewing, listed, erased, crowded>>

-----------------------------------------------------------------------------
(* build_user_export_zip *)

TurnTo(d, next) == task' = [task EXCEPT ![d] = next]

\* The row is marked processing whatever its status is; without a row the task ends.
StartBuild(d) ==
    /\ task[d] = "queued"
    /\ IF Exists(d[1])
       THEN /\ status' = [status EXCEPT ![d[1]] = "processing"]
            /\ TurnTo(d, "build")
            /\ UNCHANGED retries
       ELSE Finish(d, "over") /\ UNCHANGED status
    /\ UNCHANGED <<past, keyed, archives, latest, post, viewing, listed, erased, crowded>>

\* upload_export_archive: the name the storage gives an archive of e.
StoredName(e) == IF <<e, "key">> \in archives THEN "altered" ELSE "key"

\* _serialize_user_data and _build_zip only read; what they made is then uploaded.
Upload(d) ==
    /\ task[d] = "build"
    /\ archives' = archives \cup {<<d[1], StoredName(d[1])>>}
    /\ TurnTo(d, "publish")
    /\ UNCHANGED <<status, past, keyed, latest, post, retries, viewing, listed, erased, crowded>>

\* Fault: an error while sending the e-mail sends the finished export through a retry.
PublishThenRetry(d) ==
    /\ task[d] = "publish"
    /\ Exists(d[1])
    /\ status' = [status EXCEPT ![d[1]] = "ready"]
    /\ keyed' = keyed \cup {d[1]}
    /\ past' = past \ {d[1]}
    /\ \/ Finish(d, "over")
       \/ /\ retries[d] < MaxRetries
          /\ TurnTo(d, "queued")
          /\ retries' = [retries EXCEPT ![d] = @ + 1]
    /\ UNCHANGED <<archives, latest, post, viewing, listed, erased, crowded>>

\* The row is ready for 24 hours; the e-mail that follows never fails the task.
Publish(d) ==
    /\ task[d] = "publish"
    /\ Exists(d[1])
    /\ status' = [status EXCEPT ![d[1]] = "ready"]
    /\ keyed' = keyed \cup {d[1]}
    /\ past' = past \ {d[1]}
    /\ Finish(d, "over")
    /\ UNCHANGED <<archives, latest, post, viewing, listed, erased, crowded>>

\* Fault: the last error is logged and the row keeps its status.
ErrorSwallowed(d) ==
    /\ task[d] \in {"build", "publish"}
    /\ IF retries[d] < MaxRetries
       THEN TurnTo(d, "queued") /\ retries' = [retries EXCEPT ![d] = @ + 1]
       ELSE Finish(d, "over")
    /\ UNCHANGED <<status, past, keyed, archives, latest, post, viewing, listed, erased, crowded>>

\* Serialisation, upload or save raises (the save also when the row is gone): the whole
\* task runs again, or the row is marked failed after the last retry.
BuildError(d) ==
    /\ task[d] \in {"build", "publish"}
    /\ IF retries[d] < MaxRetries
       THEN TurnTo(d, "queued") /\ retries' = [retries EXCEPT ![d] = @ + 1]
       ELSE TurnTo(d, "fail") /\ UNCHANGED retries
    /\ UNCHANGED <<status, past, keyed, archives, latest, post, viewing, listed, erased, crowded>>

MarkFailed(d) ==
    /\ task[d] = "fail"
    /\ status' = IF Exists(d[1]) THEN [status EXCEPT ![d[1]] = "failed"] ELSE status
    /\ Finish(d, "over")
    /\ UNCHANGED <<past, keyed, archives, latest, post, viewing, listed, erased, crowded>>

-----------------------------------------------------------------------------
(* Expiry. *)

\* 24 hours pass after an export was made ready.
TimePasses(e) ==
    /\ status[e] = "ready"
    /\ e \notin past
    /\ past' = past \cup {e}
    /\ UNCHANGED <<status, keyed, archives, latest, post, task, retries, viewing, listed,
                   erased, crowded>>

Collectable(e) == status[e] = "ready" /\ e \in past

\* ExportDataStatusView.get reads the latest row ...
ViewExpired(e) ==
    /\ e \in latest
    /\ Collectable(e)
    /\ viewing' = viewing \cup {e}
    /\ UNCHANGED <<status, past, keyed, archives, latest, post, task, retries, listed,
                   erased, crowded>>

\* ... and marks it expired, without touching file_key or the storage.
SaveViewed(e) ==
    /\ e \in viewing
    /\ status' = IF Exists(e) THEN [status EXCEPT ![e] = "expired"] ELSE status
    /\ viewing' = viewing \ {e}
    /\ UNCHANGED <<past, keyed, archives, latest, post, task, retries, listed, erased, crowded>>

\* Fault: expires_at is not part of the filter.
StartCleanupEarly ==
    /\ \A e \in Exports : listed[e] = "no"
    /\ listed' = [e \in Exports |-> IF status[e] = "ready" THEN "delete" ELSE "no"]
    /\ UNCHANGED <<status, past, keyed, archives, latest, post, task, retries, viewing,
                   erased, crowded>>

\* cleanup_expired_exports reads the expired rows that are still ready.
StartCleanup ==
    /\ \A e \in Exports : listed[e] = "no"
    /\ listed' = [e \in Exports |-> IF Collectable(e) THEN "delete" ELSE "no"]
    /\ UNCHANGED <<status, past, keyed, archives, latest, post, task, retries, viewing,
                   erased, crowded>>

\* delete_export_archive swallows storage errors.
DeleteArchive(e) ==
    /\ listed[e] = "delete"
    /\ \/ archives' = archives \ {<<e, "key">>}
       \/ UNCHANGED archives
    /\ listed' = [listed EXCEPT ![e] = "save"]
    /\ UNCHANGED <<status, past, keyed, latest, post, task, retries, viewing, erased, crowded>>

\* A row that is gone makes the save raise, and the whole cleanup stops.
SaveCollected(e) ==
    /\ listed[e] = "save"
    /\ IF Exists(e)
       THEN /\ status' = [status EXCEPT ![e] = "expired"]
            /\ keyed' = keyed \ {e}
            /\ listed' = [listed EXCEPT ![e] = "no"]
       ELSE /\ listed' = [x \in Exports |-> "no"]
            /\ UNCHANGED <<status, keyed>>
    /\ UNCHANGED <<past, archives, latest, post, task, retries, viewing, erased, crowded>>

\* The worker running the cleanup is killed.
KillCleanup ==
    /\ \E e \in Exports : listed[e] # "no"
    /\ listed' = [e \in Exports |-> "no"]
    /\ UNCHANGED <<status, past, keyed, archives, latest, post, task, retries, viewing,
                   erased, crowded>>

\* cleanup_pending_deletions deletes the account: its rows go, its objects stay.
EraseAccount ==
    /\ ~erased
    /\ erased' = TRUE
    /\ status' = [e \in Exports |-> IF Exists(e) THEN "deleted" ELSE status[e]]
    /\ past' = {}
    /\ keyed' = {}
    /\ latest' = {}
    /\ UNCHANGED <<archives, post, task, retries, viewing, listed, crowded>>

-----------------------------------------------------------------------------
PostStep(e) == Ask(e) \/ CreateRow(e) \/ Enqueue(e) \/ AbortPost(e)

Execute(d) == StartBuild(d) \/ Upload(d) \/ Publish(d) \/ BuildError(d) \/ MarkFailed(d)

Expiry(e) == \/ TimePasses(e) \/ ViewExpired(e) \/ SaveViewed(e)
             \/ DeleteArchive(e) \/ SaveCollected(e)

ExportNext ==
    \/ \E e \in Exports : PostStep(e) \/ Expiry(e)
    \/ \E e \in Redelivered : Redeliver(e)
    \/ \E d \in Deliveries : Execute(d) \/ Lose(d)
    \/ StartCleanup
    \/ KillCleanup
    \/ EraseAccount

ExportSpec == ExportInit /\ [][ExportNext]_exportVars

\* Workers are long-lived: a delivery that stays in the broker is executed.
FairExportSpec == ExportSpec /\ \A d \in Deliveries : WF_exportVars(Execute(d))

-----------------------------------------------------------------------------
(* Properties. *)

\* The message of e was handed out once.
Solo(e) == e \in Redelivered => task[<<e, 1>>] = "none"

\* ExportRequest: "une seule peut etre active": true of requests made one after the
\* other, each of which is executed by one delivery.
OneActive ==
    /\ ExportTypeOK
    /\ ~crowded /\ (\A e \in Exports : Solo(e))
        => Cardinality({e \in Exports : status[e] \in Active}) <= 1

\* ExportRequest.is_ready: what the status view needs to offer a download link.
IsReady(e) == status[e] = "ready" /\ e \notin past

\* A download link that is offered leads to an archive.
LinkLeadsToArchive ==
    \A e \in Exports :
        Solo(e) /\ IsReady(e) => e \in keyed /\ <<e, "key">> \in archives

\* A finished export is not taken back: from ready a row goes to expired, when 24 hours
\* are over, or away with its account.
ReadyUntilExpired ==
    [][\A e \in Exports :
          Solo(e)' /\ status[e] = "ready" /\ status'[e] # "ready"
              => \/ status'[e] = "expired" /\ e \in past
                 \/ status'[e] = "deleted"]_exportVars

\* A published job comes to an end the owner can see, unless its message is lost: until
\* then every new POST is answered with this request.
ExportSettles ==
    \A e \in Exports :
        task[<<e, 0>>] = "queued" ~>
            \/ status[e] \in {"ready", "failed", "expired", "deleted"}
            \/ task[<<e, 0>>] = "lost"
===============================================================================

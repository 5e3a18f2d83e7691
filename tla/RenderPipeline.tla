---------------------------- MODULE RenderPipeline ----------------------------
(***************************************************************************)
(* The asynchronous pipeline of apps/renders for one account: POST         *)
(* /renders checks the monthly quota, inserts a row and publishes a Celery *)
(* message; workers execute generate_render; the owner renames and deletes *)
(* renders meanwhile; a cron command zeroes the monthly counter.           *)
(*                                                                         *)
(* The database runs in autocommit mode (no ATOMIC_REQUESTS and no         *)
(* transaction.atomic), so every ORM statement is a step of its own and    *)
(* two handlers interleave between any two statements.  A delivery is a    *)
(* pair <<render, copy>>: copy 0 is the message the view published, a      *)
(* higher copy is the same message handed out again by the broker (Redis   *)
(* visibility timeout).  A retry reuses the delivery it belongs to.        *)
(***************************************************************************)
EXTENDS Naturals, FiniteSets

CONSTANTS
    Renders,          \* primary keys the account may consume
    RendersLimit,     \* UserStats.renders_limit
    MaxRetries,       \* max_retries of generate_render
    MaxRedeliveries,  \* bound: extra copies the broker may hand out per render
    MaxEdits          \* bound: PATCH requests in flight at once

ASSUME PipelineAssumption ==
    /\ RendersLimit \in Nat
    /\ MaxRetries \in Nat
    /\ MaxRedeliveries \in Nat
    /\ MaxEdits \in Nat

VARIABLES
    status,       \* status column of each row, or why there is no row
    image,        \* renders whose row has a result_image
    used,         \* UserStats.renders_this_month
    post,         \* progress of the POST request that creates each render
    task,         \* progress of each delivery
    retries,      \* request.retries of each delivery
    edits,        \* rows loaded by PATCH requests that have not saved yet
    charged,      \* history: deliveries that incremented the counter
    overwritten   \* history: renders whose row a PATCH changed beyond its title

vars == <<status, image, used, post, task, retries, edits, charged, overwritten>>

Copies == 0 .. MaxRedeliveries
Deliveries == Renders \X Copies

Live == {"pending", "processing"}
Terminal == {"done", "failed"}
RowStatus == Live \cup Terminal
NoRow == {"unborn", "deleted"}

PostSteps == {"insert", "attach", "enqueue"}
Running == {"start", "generate", "store", "charge", "fail"}
TaskStates == {"none", "queued", "over", "lost"} \cup Running

\* A row as a handler holds it in memory after loading it.
Rows == [render : Renders, status : RowStatus, image : BOOLEAN]

Exists(r) == status[r] \in RowStatus

TypeOK ==
    /\ status \in [Renders -> RowStatus \cup NoRow]
    /\ image \in SUBSET Renders
    /\ used \in Nat
    /\ post \in [Renders -> {"none", "over"} \cup PostSteps]
    /\ task \in [Deliveries -> TaskStates]
    /\ retries \in [Deliveries -> 0 .. MaxRetries]
    /\ edits \in SUBSET Rows
    /\ charged \in SUBSET Deliveries
    /\ overwritten \in SUBSET Renders

Init ==
    /\ status = [r \in Renders |-> "unborn"]
    /\ image = {}
    /\ used = 0
    /\ post = [r \in Renders |-> "none"]
    /\ task = [d \in Deliveries |-> "none"]
    /\ retries = [d \in Deliveries |-> 0]
    /\ edits = {}
    /\ charged = {}
    /\ overwritten = {}

-----------------------------------------------------------------------------
(* POST /renders: RenderCreateSerializer.create, then generate_render.delay. *)

\* Quota check: the counter is compared with the limit before anything is written.
Admit(r) ==
    /\ post[r] = "none"
    /\ used < RendersLimit
    /\ post' = [post EXCEPT ![r] = "insert"]
    /\ UNCHANGED <<status, image, used, task, retries, edits, charged, overwritten>>

\* Render.objects.create: a sketch or a screenshot still has its file to attach.
InsertRow(r) ==
    /\ post[r] = "insert"
    /\ status' = [status EXCEPT ![r] = "pending"]
    /\ \E next \in {"attach", "enqueue"} : post' = [post EXCEPT ![r] = next]
    /\ UNCHANGED <<image, used, task, retries, edits, charged, overwritten>>

\* input_image.save writes every column of the row the handler holds.
AttachSketch(r) ==
    /\ post[r] = "attach"
    /\ status' = [status EXCEPT ![r] = "pending"]
    /\ image' = image \ {r}
    /\ post' = [post EXCEPT ![r] = "enqueue"]
    /\ UNCHANGED <<used, task, retries, edits, charged, overwritten>>

Enqueue(r) ==
    /\ post[r] = "enqueue"
    /\ task' = [task EXCEPT ![<<r, 0>>] = "queued"]
    /\ post' = [post EXCEPT ![r] = "over"]
    /\ UNCHANGED <<status, image, used, retries, edits, charged, overwritten>>

\* Invalid base64 (400), storage or broker unavailable (500), worker killed: what
\* the request already wrote stays.
AbortPost(r) ==
    /\ post[r] \in PostSteps
    /\ post' = [post EXCEPT ![r] = "over"]
    /\ UNCHANGED <<status, image, used, task, retries, edits, charged, overwritten>>

-----------------------------------------------------------------------------
(* The broker. *)

\* The message is handed to a second worker while the first still holds it unacknowledged.
Redeliver(r, c) ==
    /\ c + 1 \in Copies
    /\ task[<<r, c>>] = "queued"
    /\ task[<<r, c + 1>>] = "none"
    /\ task' = [task EXCEPT ![<<r, c + 1>>] = "queued"]
    /\ retries' = [retries EXCEPT ![<<r, c + 1>>] = retries[<<r, c>>]]
    /\ UNCHANGED <<status, image, used, post, edits, charged, overwritten>>

\* The message is evicted, or the worker executing it is killed: messages are
\* acknowledged on receipt, so nobody resumes the work.
Lose(d) ==
    /\ task[d] \in Running \cup {"queued"}
    /\ task' = [task EXCEPT ![d] = "lost"]
    /\ UNCHANGED <<status, image, used, post, retries, edits, charged, overwritten>>

-----------------------------------------------------------------------------
(* generate_render: one action per statement that reads or writes shared state. *)

Goto(d, next) == task' = [task EXCEPT ![d] = next]

\* Fault: the is_terminal test is missing.
PickupUnchecked(d) ==
    /\ task[d] = "queued"
    /\ Goto(d, IF Exists(d[1]) THEN "start" ELSE "over")
    /\ UNCHANGED <<status, image, used, post, retries, edits, charged, overwritten>>

\* The row is loaded; an unknown or terminal render ends the delivery at once.
Pickup(d) ==
    /\ task[d] = "queued"
    /\ Goto(d, IF status[d[1]] \in Live THEN "start" ELSE "over")
    /\ UNCHANGED <<status, image, used, post, retries, edits, charged, overwritten>>

\* save(update_fields=...) raises when the row is gone, outside the try block.
MarkProcessing(d) ==
    /\ task[d] = "start"
    /\ \/ /\ Exists(d[1])
          /\ status' = [status EXCEPT ![d[1]] = "processing"]
          /\ Goto(d, "generate")
       \/ /\ ~Exists(d[1])
          /\ Goto(d, "over")
          /\ UNCHANGED status
    /\ UNCHANGED <<image, used, post, retries, edits, charged, overwritten>>

\* Fault: the unit is counted when the provider answers, before the result is stored.
GenerateCounted(d) ==
    /\ task[d] = "generate"
    /\ used' = used + 1
    /\ charged' = charged \cup {d}
    /\ Goto(d, "store")
    /\ UNCHANGED <<status, image, post, retries, edits, overwritten>>

\* provider.generate returns an image.
Generate(d) ==
    /\ task[d] = "generate"
    /\ Goto(d, "store")
    /\ UNCHANGED <<status, image, used, post, retries, edits, charged, overwritten>>

\* The provider raises ProviderError: no retry.
ProviderFails(d) ==
    /\ task[d] = "generate"
    /\ Goto(d, "fail")
    /\ UNCHANGED <<status, image, used, post, retries, edits, charged, overwritten>>

\* Fault: update_fields omits result_image.
StoreStatusOnly(d) ==
    /\ task[d] = "store"
    /\ status' = [status EXCEPT ![d[1]] = "done"]
    /\ Goto(d, "charge")
    /\ UNCHANGED <<image, used, post, retries, edits, charged, overwritten>>

\* render.save() without update_fields: it inserts the row again if it is gone.
StoreResult(d) ==
    /\ task[d] = "store"
    /\ status' = [status EXCEPT ![d[1]] = "done"]
    /\ image' = image \cup {d[1]}
    /\ Goto(d, "charge")
    /\ UNCHANGED <<used, post, retries, edits, charged, overwritten>>

\* Fault: an exception after the increment sends the delivery through another retry.
ChargeThenRetry(d) ==
    /\ task[d] = "charge"
    /\ used' = used + 1
    /\ charged' = charged \cup {d}
    /\ Goto(d, "queued")
    /\ UNCHANGED <<status, image, post, retries, edits, overwritten>>

\* F('renders_this_month') + 1, after the row was saved.
Charge(d) ==
    /\ task[d] = "charge"
    /\ used' = used + 1
    /\ charged' = charged \cup {d}
    /\ Goto(d, "over")
    /\ UNCHANGED <<status, image, post, retries, edits, overwritten>>

\* Fault: the last error is swallowed and the row keeps its status.
ErrorSwallowed(d) ==
    /\ task[d] \in {"generate", "store", "charge"}
    /\ \/ /\ retries[d] < MaxRetries
          /\ retries' = [retries EXCEPT ![d] = @ + 1]
          /\ Goto(d, "queued")
       \/ /\ retries[d] >= MaxRetries
          /\ Goto(d, "over")
          /\ UNCHANGED retries
    /\ UNCHANGED <<status, image, used, post, edits, charged, overwritten>>

\* Fault: the message is published again with its retry count unchanged.
ErrorRetriedForever(d) ==
    /\ task[d] \in {"generate", "store", "charge"}
    /\ Goto(d, "queued")
    /\ UNCHANGED <<status, image, used, post, retries, edits, charged, overwritten>>

\* Any other exception inside the try block: retry while retries < max_retries.
UnexpectedError(d) ==
    /\ task[d] \in {"generate", "store", "charge"}
    /\ \/ /\ retries[d] < MaxRetries
          /\ retries' = [retries EXCEPT ![d] = @ + 1]
          /\ Goto(d, "queued")
       \/ /\ retries[d] >= MaxRetries
          /\ Goto(d, "fail")
          /\ UNCHANGED retries
    /\ UNCHANGED <<status, image, used, post, edits, charged, overwritten>>

\* The row is marked failed; if it is gone the save raises and nothing is written.
MarkFailed(d) ==
    /\ task[d] = "fail"
    /\ \/ /\ Exists(d[1])
          /\ status' = [status EXCEPT ![d[1]] = "failed"]
       \/ /\ ~Exists(d[1])
          /\ UNCHANGED status
    /\ Goto(d, "over")
    /\ UNCHANGED <<image, used, post, retries, edits, charged, overwritten>>

-----------------------------------------------------------------------------
(* RenderDetailView and the monthly reset. *)

DeleteRow(r) ==
    /\ Exists(r)
    /\ status' = [status EXCEPT ![r] = "deleted"]
    /\ image' = image \ {r}
    /\ UNCHANGED <<used, post, task, retries, edits, charged, overwritten>>

\* PATCH /renders/{id}: the whole row is read ...
LoadForRename(r) ==
    /\ Exists(r)
    /\ Cardinality(edits) < MaxEdits
    /\ edits' = edits \cup {[render |-> r, status |-> status[r], image |-> r \in image]}
    /\ UNCHANGED <<status, image, used, post, task, retries, charged, overwritten>>

\* ... and later written back whole, with the new title.
SaveRename(e) ==
    LET r == e.render IN
    /\ status' = [status EXCEPT ![r] = e.status]
    /\ image' = IF e.image THEN image \cup {r} ELSE image \ {r}
    /\ edits' = edits \ {e}
    /\ overwritten' = IF status[r] = e.status /\ (r \in image) = e.image
                      THEN overwritten
                      ELSE overwritten \cup {r}
    /\ UNCHANGED <<used, post, task, retries, charged>>

\* manage.py reset_monthly_counters
ResetMonth ==
    /\ used' = 0
    /\ UNCHANGED <<status, image, post, task, retries, edits, charged, overwritten>>

-----------------------------------------------------------------------------
PostStep(r) == Admit(r) \/ InsertRow(r) \/ AttachSketch(r) \/ Enqueue(r) \/ AbortPost(r)

\* What a live worker does with a delivery it was handed.
Execute(d) ==
    \/ Pickup(d)
    \/ MarkProcessing(d)
    \/ Generate(d)
    \/ ProviderFails(d)
    \/ StoreResult(d)
    \/ Charge(d)
    \/ UnexpectedError(d)
    \/ MarkFailed(d)

Next ==
    \/ \E r \in Renders : PostStep(r)
    \/ \E r \in Renders, c \in Copies : Redeliver(r, c)
    \/ \E d \in Deliveries : Execute(d) \/ Lose(d)
    \/ \E r \in Renders : DeleteRow(r) \/ LoadForRename(r)
    \/ \E e \in edits : SaveRename(e)
    \/ ResetMonth

Spec == Init /\ [][Next]_vars

\* Workers are long-lived: a delivery that stays in the broker is executed.
FairSpec == Spec /\ \A d \in Deliveries : WF_vars(Execute(d))

-----------------------------------------------------------------------------
(* Properties. *)

\* A render shown as done always has its image: RenderSerializer.result_url, the
\* gallery and the SSE stream rely on the pair, while StoreResult, AttachSketch and
\* PATCH each write both columns from their own copy of the row.
DoneHasImage == \A r \in Renders : status[r] = "done" => r \in image

\* r was handed out once and no PATCH changed more than its title.
Solo(r) ==
    /\ r \notin overwritten
    /\ \A c \in Copies \ {0} : task[<<r, c>>] = "none"

\* A unit taken from the quota leaves the owner with a finished image unless they
\* deleted it: no retry and no late failure takes a paid result back (generate_render
\* saves the result, then counts it, and either step may raise).
PaidResultKept ==
    \A r \in Renders :
        Solo(r) /\ <<r, 0>> \in charged => status[r] \in {"done", "deleted"}

\* A published render is never left pending or processing once all its deliveries are
\* over: only a lost delivery or a stale PATCH can strand it.
AbandonedOnlyIfLost ==
    \A r \in Renders :
        (/\ task[<<r, 0>>] = "over"
         /\ r \notin overwritten
         /\ \A c \in Copies : task[<<r, c>>] \in {"none", "over"})
        => status[r] \in Terminal \cup {"deleted"}

\* Without redelivery and stale PATCH a verdict is final: it changes only by deletion,
\* or from done to failed by the last attempt of a delivery that was never charged.
VerdictStable ==
    [][\A r \in Renders :
          (/\ Solo(r)'
           /\ status[r] \in Terminal
           /\ status'[r] \notin {status[r], "deleted"})
          => /\ status[r] = "done" /\ status'[r] = "failed"
             /\ <<r, 0>> \notin charged]_vars

\* Metering: the counter moves as RenderMetering allows, at most once per delivery.
Phase(d) ==
    IF d \in charged THEN "spent"
    ELSE IF task[d] = "none" THEN "unissued"
    ELSE IF task[d] \in {"over", "lost"} THEN "dropped"
    ELSE "open"

Phases == [d \in Deliveries |-> Phase(d)]

Metering == INSTANCE RenderMetering WITH phase <- Phases, meter <- used

MeteredOncePerDelivery == Metering!Spec

\* A published job comes to a verdict: the row ends done, failed or deleted unless the
\* delivery was lost or a stale PATCH rewrote the row.
JobSettles ==
    \A r \in Renders :
        task[<<r, 0>>] = "queued" ~>
            \/ status[r] \in Terminal \cup {"deleted"}
            \/ task[<<r, 0>>] = "lost"
            \/ r \in overwritten
===============================================================================

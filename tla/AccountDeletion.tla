--------------------------- MODULE AccountDeletion ---------------------------
(***************************************************************************)
(* Account erasure in apps/gdpr: POST /me/delete-account schedules it,     *)
(* POST /me/delete-account/cancel takes it back during the grace period,   *)
(* and the Celery task cleanup_pending_deletions deletes the accounts      *)
(* whose grace period is over.                                             *)
(*                                                                         *)
(* Every statement of a view commits on its own, so a call is a sequence   *)
(* of steps that interleaves with the other calls of the same owner (two   *)
(* tabs, a double click) and with the sweep.  A call that creates a        *)
(* deletion request lends its name to the row's primary key.               *)
(***************************************************************************)
EXTENDS Naturals, FiniteSets

CONSTANTS
    Users,
    Calls      \* bound: the HTTP requests that are ever made

VARIABLES
    accounts,   \* users whose row exists
    active,     \* is_active
    tokens,     \* users who hold an unexpired access token
    signedIn,   \* users with a UserSession that is not revoked
    requests,   \* the table DeletionRequest
    step,       \* next statement of each call
    owner,      \* the user each call is made by
    held,       \* primary key of the DeletionRequest a call has read
    batch,      \* users the running sweep has read and not deleted yet
    disturbed,  \* history: users one of whose calls was killed or overlapped another
    readmitted  \* history: users an OAuth sign-in has let in while inactive

vars == <<accounts, active, tokens, signedIn, requests, step, owner, held, batch,
          disturbed, readmitted>>

Row == [id : Calls, user : Users, cancelled : BOOLEAN, due : BOOLEAN]

DeleteSteps == {"check", "discard", "create", "deactivate", "revoke"}
CancelSteps == {"find", "mark", "reactivate"}
InFlight == DeleteSteps \cup CancelSteps \cup {"open"}

TypeOK ==
    /\ accounts \in SUBSET Users
    /\ active \in SUBSET accounts
    /\ tokens \in SUBSET Users
    /\ signedIn \in SUBSET accounts
    /\ requests \in SUBSET Row
    /\ \A r \in requests : r.user \in accounts
    /\ step \in [Calls -> InFlight \cup {"idle", "over"}]
    /\ owner \in [Calls -> Users]
    /\ held \in [Calls -> Calls]
    /\ batch \in SUBSET accounts
    /\ disturbed \in SUBSET Users
    /\ readmitted \in SUBSET Users

Init ==
    /\ accounts = Users
    /\ active = Users
    /\ tokens = {}
    /\ signedIn = {}
    /\ requests = {}
    /\ step = [c \in Calls |-> "idle"]
    /\ owner \in [Calls -> Users]
    /\ held = [c \in Calls |-> c]
    /\ batch = {}
    /\ disturbed = {}
    /\ readmitted = {}

RowsOf(u) == {r \in requests : r.user = u}

\* DeletionRequest.is_pending: completed_at is never written.
Pending(u) == \E r \in RowsOf(u) : ~r.cancelled

PendingAndDue(u) == \E r \in RowsOf(u) : ~r.cancelled /\ r.due

Busy(u) == \E c \in Calls : owner[c] = u /\ step[c] \in InFlight

Goto(c, next) == step' = [step EXCEPT ![c] = next]

\* A call passes authentication; a call that finds another one of its owner in flight
\* is noted as overlapping it.
Enter(c, first) ==
    /\ step[c] = "idle"
    /\ Goto(c, first)
    /\ disturbed' = IF Busy(owner[c]) THEN disturbed \cup {owner[c]} ELSE disturbed
    /\ UNCHANGED <<accounts, active, tokens, signedIn, requests, owner, held, batch>>

-----------------------------------------------------------------------------
(* Signing in: with a password the account must be active when it is checked; the view *)
(* of the OAuth providers looks the account up by its address and tests nothing else.  *)

LogIn(c) ==
    /\ owner[c] \in active
    /\ Enter(c, "open")
    /\ UNCHANGED readmitted

SocialSignIn(c) ==
    /\ owner[c] \in accounts
    /\ Enter(c, "open")
    /\ readmitted' = IF owner[c] \in active THEN readmitted ELSE readmitted \cup {owner[c]}

OpenSession(c) ==
    /\ step[c] = "open"
    /\ \/ /\ owner[c] \in accounts
          /\ signedIn' = signedIn \cup {owner[c]}
          /\ tokens' = tokens \cup {owner[c]}
       \/ /\ owner[c] \notin accounts
          /\ UNCHANGED <<signedIn, tokens>>
    /\ Goto(c, "over")
    /\ UNCHANGED <<accounts, active, requests, owner, held, batch,
                   disturbed, readmitted>>

\* ACCESS_TOKEN_LIFETIME; an inactive account gets another token by an OAuth sign-in only.
TokenExpires(u) ==
    /\ u \in tokens
    /\ tokens' = tokens \ {u}
    /\ UNCHANGED <<accounts, active, signedIn, requests, step, owner, held, batch,
                   disturbed, readmitted>>

-----------------------------------------------------------------------------
(* RequestDeleteAccountView.post *)

AskDeletion(c) ==
    /\ owner[c] \in tokens \cap active
    /\ Enter(c, "check")
    /\ UNCHANGED readmitted

\* A pending request answers 409; a cancelled one is replaced.
CheckExisting(c) ==
    /\ step[c] = "check"
    /\ \/ /\ Pending(owner[c])
          /\ Goto(c, "over")
          /\ UNCHANGED held
       \/ \E r \in RowsOf(owner[c]) :
             /\ r.cancelled
             /\ held' = [held EXCEPT ![c] = r.id]
             /\ Goto(c, "discard")
       \/ /\ RowsOf(owner[c]) = {}
          /\ Goto(c, "create")
          /\ UNCHANGED held
    /\ UNCHANGED <<accounts, active, tokens, signedIn, requests, owner, batch, disturbed, readmitted>>

\* existing.delete() by primary key.
DiscardCancelled(c) ==
    /\ step[c] = "discard"
    /\ requests' = {r \in requests : r.id # held[c]}
    /\ Goto(c, "create")
    /\ UNCHANGED <<accounts, active, tokens, signedIn, owner, held, batch,
                   disturbed, readmitted>>

\* OneToOneField: a second row of the user, or a row of a deleted user, is refused.
CreateRequest(c) ==
    /\ step[c] = "create"
    /\ \/ /\ RowsOf(owner[c]) = {}
          /\ owner[c] \in accounts
          /\ requests' = requests \cup
                {[id |-> c, user |-> owner[c], cancelled |-> FALSE, due |-> FALSE]}
          /\ Goto(c, "deactivate")
       \/ /\ RowsOf(owner[c]) # {} \/ owner[c] \notin accounts
          /\ Goto(c, "over")
          /\ UNCHANGED requests
    /\ UNCHANGED <<accounts, active, tokens, signedIn, owner, held, batch,
                   disturbed, readmitted>>

\* save(update_fields=['is_active']) raises when the user is gone.
Deactivate(c) ==
    /\ step[c] = "deactivate"
    /\ active' = active \ {owner[c]}
    /\ Goto(c, IF owner[c] \in accounts THEN "revoke" ELSE "over")
    /\ UNCHANGED <<accounts, tokens, signedIn, requests, owner, held, batch,
                   disturbed, readmitted>>

\* Fault: only the row is written, sessions stay open.
RevokeNothing(c) ==
    /\ step[c] = "revoke"
    /\ Goto(c, "over")
    /\ UNCHANGED <<accounts, active, tokens, signedIn, requests, owner, held, batch,
                   disturbed, readmitted>>

RevokeSessions(c) ==
    /\ step[c] = "revoke"
    /\ signedIn' = signedIn \ {owner[c]}
    /\ readmitted' = readmitted \ {owner[c]}
    /\ Goto(c, "over")
    /\ UNCHANGED <<accounts, active, tokens, requests, owner, held, batch, disturbed>>

-----------------------------------------------------------------------------
(* CancelDeleteAccountView.post, which also authenticates inactive accounts. *)

AskCancel(c) ==
    /\ owner[c] \in tokens \cap accounts
    /\ Enter(c, "find")
    /\ UNCHANGED readmitted

\* 404 without a request, 200 at once when it is already cancelled.
FindRequest(c) ==
    /\ step[c] = "find"
    /\ \/ \E r \in RowsOf(owner[c]) :
             /\ ~r.cancelled
             /\ held' = [held EXCEPT ![c] = r.id]
             /\ Goto(c, "mark")
       \/ /\ ~Pending(owner[c])
          /\ Goto(c, "over")
          /\ UNCHANGED held
    /\ UNCHANGED <<accounts, active, tokens, signedIn, requests, owner, batch, disturbed, readmitted>>

\* save(update_fields=['cancelled_at']) raises when the row it read is gone.
MarkCancelled(c) ==
    /\ step[c] = "mark"
    /\ requests' = {IF r.id = held[c] THEN [r EXCEPT !.cancelled = TRUE] ELSE r : r \in requests}
    /\ Goto(c, IF \E r \in requests : r.id = held[c] THEN "reactivate" ELSE "over")
    /\ UNCHANGED <<accounts, active, tokens, signedIn, owner, held, batch,
                   disturbed, readmitted>>

\* save(update_fields=['is_active']) raises when the user is gone.
Reactivate(c) ==
    /\ step[c] = "reactivate"
    /\ active' = IF owner[c] \in accounts THEN active \cup {owner[c]} ELSE active
    /\ Goto(c, "over")
    /\ UNCHANGED <<accounts, tokens, signedIn, requests, owner, held, batch,
                   disturbed, readmitted>>

\* The gunicorn worker is killed: what the call wrote stays.
AbortCall(c) ==
    /\ step[c] \in InFlight
    /\ Goto(c, "over")
    /\ disturbed' = disturbed \cup {owner[c]}
    /\ UNCHANGED <<accounts, active, tokens, signedIn, requests, owner, held, batch, readmitted>>

-----------------------------------------------------------------------------
(* cleanup_pending_deletions *)

\* Thirty days pass: no HTTP request made before is still running.
GraceEnds(u) ==
    /\ ~Busy(u)
    /\ \E r \in RowsOf(u) : ~r.due
    /\ requests' = {IF r.user = u THEN [r EXCEPT !.due = TRUE] ELSE r : r \in requests}
    /\ UNCHANGED <<accounts, active, tokens, signedIn, step, owner, held, batch,
                   disturbed, readmitted>>

\* Fault: the filter on scheduled_for is missing.
StartSweepEarly ==
    /\ batch = {}
    /\ batch' = {u \in accounts : Pending(u)}
    /\ UNCHANGED <<accounts, active, tokens, signedIn, requests, step, owner, held, disturbed, readmitted>>

\* Fault: the sweep lists active accounts only.
StartSweepActive ==
    /\ batch = {}
    /\ batch' = {u \in active : PendingAndDue(u)}
    /\ UNCHANGED <<accounts, active, tokens, signedIn, requests, step, owner, held, disturbed, readmitted>>

\* The queryset is evaluated once, before the loop.
StartSweep ==
    /\ batch = {}
    /\ batch' = {u \in accounts : PendingAndDue(u)}
    /\ UNCHANGED <<accounts, active, tokens, signedIn, requests, step, owner, held, disturbed, readmitted>>

\* The row is deleted by primary key, whatever its request says now; the cascade takes
\* the request and the sessions along.
HardDelete(u) ==
    /\ u \in batch
    /\ accounts' = accounts \ {u}
    /\ active' = active \ {u}
    /\ signedIn' = signedIn \ {u}
    /\ requests' = requests \ RowsOf(u)
    /\ batch' = batch \ {u}
    /\ UNCHANGED <<tokens, step, owner, held, disturbed, readmitted>>

\* The delete raises: logged, and tried again by the next sweep.
HardDeleteFails(u) ==
    /\ u \in batch
    /\ batch' = batch \ {u}
    /\ UNCHANGED <<accounts, active, tokens, signedIn, requests, step, owner, held, disturbed, readmitted>>

\* The worker running the sweep is killed.
KillSweep ==
    /\ batch # {}
    /\ batch' = {}
    /\ UNCHANGED <<accounts, active, tokens, signedIn, requests, step, owner, held, disturbed, readmitted>>

-----------------------------------------------------------------------------
Delete(c) == \/ AskDeletion(c) \/ CheckExisting(c) \/ DiscardCancelled(c)
             \/ CreateRequest(c) \/ Deactivate(c) \/ RevokeSessions(c)

Cancel(c) == AskCancel(c) \/ FindRequest(c) \/ MarkCancelled(c) \/ Reactivate(c)

Next ==
    \/ \E c \in Calls : LogIn(c) \/ SocialSignIn(c) \/ OpenSession(c)
    \/ \E c \in Calls : Delete(c) \/ Cancel(c) \/ AbortCall(c)
    \/ \E u \in Users : TokenExpires(u) \/ GraceEnds(u)
    \/ \E u \in Users : HardDelete(u) \/ HardDeleteFails(u)
    \/ StartSweep
    \/ KillSweep

Spec == Init /\ [][Next]_vars

\* The sweep is run every day, and deleting an account does not fail every time.
FairSpec ==
    /\ Spec
    /\ WF_vars(StartSweep)
    /\ \A u \in Users : SF_vars(HardDelete(u))

-----------------------------------------------------------------------------
(* Properties. *)

\* Once the calls of an owner are over, provided none was killed and no two overlapped,
\* the account is inactive exactly while its deletion is pending, and has no open
\* session then but one an OAuth sign-in opened since the account was closed
\* (RequestDeleteAccountView and CancelDeleteAccountView write the two tables in
\* separate statements; OAuthExchangeView does not look at is_active).
Settled ==
    /\ TypeOK
    /\ \A u \in accounts : (u \notin disturbed /\ ~Busy(u)) =>
          /\ Pending(u) <=> u \notin active
          /\ Pending(u) /\ u \in signedIn => u \in readmitted

Stage(u) ==
    IF u \notin accounts THEN "gone"
    ELSE IF u \in batch THEN "condemned"
    ELSE IF PendingAndDue(u) THEN "due"
    ELSE IF Pending(u) THEN "leaving"
    ELSE "kept"

Lifecycle == INSTANCE AccountLifecycle WITH stage <- [u \in Users |-> Stage(u)]

\* No call, crash or replaced request lets an account be deleted that was not asked for,
\* due and listed by a sweep, and no late call brings a deleted account back.
ErasureFollowsLifecycle == Lifecycle!Spec

\* An account whose grace period is over is deleted in the end unless its owner cancels.
DueIsPurged ==
    \A u \in Users : PendingAndDue(u) ~> (u \notin accounts \/ ~PendingAndDue(u))

\* CancelDeleteAccountView: "Tant que la tache cron n'a pas hard-delete l'utilisateur, on
\* peut annuler. Le compte est reactive": an account whose request is cancelled stays.
CancelledIsKept ==
    [][\A u \in Users : u \in accounts /\ u \notin accounts' => Pending(u)]_vars
===============================================================================

----------------------------- MODULE BackOffice -----------------------------
(***************************************************************************)
(* What staff do: they change each other's and users' flags, each change   *)
(* recorded in the audit log (apps/admin_panel), and they answer and       *)
(* manage support tickets (apps/support).  The two meet in is_staff, which *)
(* one administrator changes while another one's request is under way.     *)
(* Like any user, an administrator may close his own account (apps/gdpr).  *)
(*                                                                         *)
(* Every statement commits by itself.  A PATCH reads a row, then saves all *)
(* of it; a message saves the columns it has changed.  E-mails, priorities,*)
(* subjects and pseudonyms are left out; the audit log is reduced to the   *)
(* value its latest entry gives each flag.                                 *)
(***************************************************************************)
EXTENDS Naturals, FiniteSets

CONSTANTS
    Admins,    \* the users who are staff at first, and whose flags change
    Flags,     \* flags of a User an administrator may change
    Requests   \* bound: requests in flight at once

ASSUME BackOfficeAssumption ==
    /\ Admins # {} /\ Admins \cap {"customer", "none", "keep"} = {}
    /\ {"is_staff", "is_active"} \subseteq Flags

VARIABLES
    user,      \* User rows: the flags that are set
    audit,     \* the flags that are set according to the audit log
    deletion,  \* DeletionRequest of each user
    ticket,    \* one SupportTicket row of a customer
    unseen,    \* history: the customer wrote since the ticket was last set aside
    at,        \* next step of each request
    actor,     \* who sends it, while that matters: an administrator or the customer
    target,    \* the user it changes
    held,      \* the row it has read
    overlap,   \* history: two user updates overlapped, or one was killed
    evaded,    \* history: an administrator demoted or deactivated himself with the text of a form
    crossed    \* history: a message and a ticket update overlapped, or a request was killed

accounts == <<user, audit, deletion>>
desk == <<ticket, unseen>>
request == <<at, actor, target, held>>
mishaps == <<overlap, evaded, crossed>>
vars == <<accounts, desk, request, mishaps>>

Customer == "customer"
Rights == SUBSET Flags
Statuses == {"open", "pending", "resolved", "closed"}
Ticket == [status : Statuses, assignee : Admins \cup {"none"}, closed_at : BOOLEAN]
Diff == [before : Rights] \cup [before : Rights, after : Rights]
Columns == [status : Statuses \cup {"keep"}, assignee : Admins \cup {"none", "keep"}]
Nothing == [nothing |-> TRUE]
Steps == {"idle", "save", "compare", "log", "patch", "date", "insert", "transition"}

TypeOK ==
    /\ user \in [Admins -> Rights] /\ audit \in [Admins -> Rights]
    /\ deletion \in [Admins -> {"none", "pending", "cancelled"}]
    /\ ticket \in Ticket /\ unseen \in BOOLEAN
    /\ at \in [Requests -> Steps]
    /\ actor \in [Requests -> Admins \cup {Customer}]
    /\ target \in [Requests -> Admins \cup {Customer}]
    /\ held \in [Requests -> {Nothing} \cup Ticket \cup Diff \cup Columns]
    /\ overlap \in BOOLEAN /\ evaded \in BOOLEAN /\ crossed \in BOOLEAN

\* Everyone is active, nobody is banned; the customer has opened a ticket.
Init ==
    /\ user = [a \in Admins |-> {"is_staff", "is_active"}]
    /\ audit = user
    /\ deletion = [a \in Admins |-> "none"]
    /\ ticket = [status |-> "open", assignee |-> "none", closed_at |-> FALSE]
    /\ unseen = TRUE
    /\ at = [q \in Requests |-> "idle"]
    /\ actor = [q \in Requests |-> Customer]
    /\ target = [q \in Requests |-> Customer]
    /\ held = [q \in Requests |-> Nothing]
    /\ overlap = FALSE /\ evaded = FALSE /\ crossed = FALSE

-----------------------------------------------------------------------------
(* Requests. *)

\* IsAuthenticated and IsAdminUser, tested on the user the token names, once per request.
Staff == {a \in Admins : {"is_staff", "is_active"} \subseteq user[a]}
SentByStaff(q) == actor[q] # Customer

Begin(q, who, whom, step, row) ==
    /\ at[q] = "idle"
    /\ at' = [at EXCEPT ![q] = step]
    /\ actor' = [actor EXCEPT ![q] = who]
    /\ target' = [target EXCEPT ![q] = whom]
    /\ held' = [held EXCEPT ![q] = row]

Goto(q, step, row) ==
    /\ at' = [at EXCEPT ![q] = step]
    /\ held' = [held EXCEPT ![q] = row]
    /\ actor' = [actor EXCEPT ![q] = Customer]
    /\ UNCHANGED target

End(q) ==
    /\ at' = [at EXCEPT ![q] = "idle"]
    /\ actor' = [actor EXCEPT ![q] = Customer]
    /\ target' = [target EXCEPT ![q] = Customer]
    /\ held' = [held EXCEPT ![q] = Nothing]

Updating == {"save", "compare", "log"}
Managing == {"patch", "date"}
Writing == {"insert", "transition"}
Busy(steps) == \E q \in Requests : at[q] \in steps

-----------------------------------------------------------------------------
(* AdminUserDetailView.update. *)

ReadUser(q, a, u) ==
    /\ a \in Staff
    /\ Begin(q, a, u, "save", [before |-> user[u]])
    /\ overlap' = (overlap \/ Busy(Updating))
    /\ UNCHANGED <<accounts, desk, evaded, crossed>>

\* What an administrator takes from himself with these flags.
Renounced(q, rights) ==
    IF actor[q] = target[q]
    THEN (user[target[q]] \cap {"is_staff", "is_active"}) \ rights
    ELSE {}

\* Fault: the guard looks at is_staff only.
SelfGuardStaff(q, rights, text) == text \/ "is_staff" \notin Renounced(q, rights)

\* An administrator may neither demote nor deactivate himself, but the guard asks whether
\* the value sent is true of itself: the text of a form, "false" included, always is.
SelfGuard(q, rights, text) == text \/ Renounced(q, rights) = {}

\* update reads the row again; serializer.save() parses the flags of the request and writes
\* the row as read with these flags.
SaveUser(q, rights, text) ==
    /\ at[q] = "save"
    /\ \/ /\ SelfGuard(q, rights, text)
          /\ user' = [user EXCEPT ![target[q]] = rights]
          /\ evaded' = (evaded \/ (text /\ Renounced(q, rights) # {}))
          /\ Goto(q, "compare", held[q])
       \/ /\ ~SelfGuard(q, rights, text)
          /\ End(q) /\ UNCHANGED <<user, evaded>>
    /\ UNCHANGED <<audit, deletion, desk, overlap, crossed>>

\* refresh_from_db, then the flags before and after are compared.
CompareUser(q) ==
    /\ at[q] = "compare"
    /\ IF user[target[q]] = held[q].before THEN End(q)
       ELSE Goto(q, "log", [before |-> held[q].before, after |-> user[target[q]]])
    /\ UNCHANGED <<accounts, desk, mishaps>>

\* Fault: only flags that were set are recorded.
Granted(before, after) == after \ before

\* The flags log_admin_action is called for.
Changed(before, after) == (before \ after) \cup (after \ before)

\* log_admin_action, once for each flag that differs; a kill comes before any of them.
LogUser(q) ==
    /\ at[q] = "log"
    /\ LET changed == Changed(held[q].before, held[q].after)
       IN  audit' = [audit EXCEPT ![target[q]] = (@ \ changed) \cup (held[q].after \cap changed)]
    /\ End(q)
    /\ UNCHANGED <<user, deletion, desk, mishaps>>

-----------------------------------------------------------------------------
(* RequestDeleteAccountView and CancelDeleteAccountView: each writes is_active alone.     *)

CloseAccount(a) ==
    /\ "is_active" \in user[a] /\ deletion[a] # "pending"
    /\ deletion' = [deletion EXCEPT ![a] = "pending"]
    /\ user' = [user EXCEPT ![a] = @ \ {"is_active"}]
    /\ UNCHANGED <<audit, desk, request, mishaps>>

\* Whoever deactivated the account meanwhile.
ReopenAccount(a) ==
    /\ deletion[a] = "pending"
    /\ deletion' = [deletion EXCEPT ![a] = "cancelled"]
    /\ user' = [user EXCEPT ![a] = @ \cup {"is_active"}]
    /\ UNCHANGED <<audit, desk, request, mishaps>>

-----------------------------------------------------------------------------
(* Support. *)

\* TicketDetailView PATCH, staff only.
ReadTicket(q) ==
    /\ Staff # {}
    /\ Begin(q, Customer, Customer, "patch", ticket)
    /\ crossed' = (crossed \/ Busy(Managing \cup Writing))
    /\ UNCHANGED <<accounts, desk, overlap, evaded>>

\* perform_update: every column is saved as read but those of the request, here the status.
SaveTicket(q, status) ==
    /\ at[q] = "patch"
    /\ ticket' = [held[q] EXCEPT !.status = status]
    /\ unseen' = (unseen /\ status \notin {"resolved", "closed"})
    /\ IF status = "closed" /\ ~held[q].closed_at THEN Goto(q, "date", Nothing) ELSE End(q)
    /\ UNCHANGED <<accounts, mishaps>>

DateClosing(q) ==
    /\ at[q] = "date"
    /\ ticket' = [ticket EXCEPT !.closed_at = TRUE]
    /\ End(q)
    /\ UNCHANGED <<accounts, unseen, mishaps>>

\* TicketMessageCreateView.post: a closed ticket takes no message.
ReadForMessage(q, who) ==
    /\ who \in Staff \cup {Customer}
    /\ ticket.status # "closed"
    /\ Begin(q, who, Customer, "insert", [status |-> ticket.status, assignee |-> ticket.assignee])
    /\ crossed' = (crossed \/ Busy(Managing))
    /\ UNCHANGED <<accounts, desk, overlap, evaded>>

\* Fault: an answer of the customer moves nothing.
TransitionStaff(q, row) ==
    [assignee |-> IF SentByStaff(q) /\ row.assignee = "none" THEN actor[q] ELSE "keep",
     status |-> IF SentByStaff(q) /\ row.status = "open" THEN "pending" ELSE "keep"]

\* The columns a message changes, from the row it has read: staff take the ticket over, and a
\* customer who answers after it was resolved opens it again.
Transition(q, row) ==
    IF SentByStaff(q)
    THEN [assignee |-> IF row.assignee = "none" THEN actor[q] ELSE "keep",
          status |-> IF row.status = "open" THEN "pending" ELSE "keep"]
    ELSE [assignee |-> "keep", status |-> IF row.status = "resolved" THEN "pending" ELSE "keep"]

InsertMessage(q) ==
    /\ at[q] = "insert"
    /\ unseen' = (unseen \/ ~SentByStaff(q))
    /\ LET columns == Transition(q, held[q])
       IN  IF columns = [assignee |-> "keep", status |-> "keep"] THEN End(q)
           ELSE Goto(q, "transition", columns)
    /\ UNCHANGED <<accounts, ticket, mishaps>>

\* save(update_fields=...).
SaveTransition(q) ==
    /\ at[q] = "transition"
    /\ ticket' = [ticket EXCEPT
           !.status = IF held[q].status = "keep" THEN @ ELSE held[q].status,
           !.assignee = IF held[q].assignee = "keep" THEN @ ELSE held[q].assignee]
    /\ End(q)
    /\ UNCHANGED <<accounts, unseen, mishaps>>

\* A worker is killed between two statements.  Bound: only before anything else has gone wrong.
Kill(q) ==
    /\ ~overlap /\ ~crossed
    /\ at[q] \in {"compare", "log", "date", "transition"}
    /\ overlap' = (overlap \/ at[q] \in Updating)
    /\ crossed' = (crossed \/ at[q] \notin Updating)
    /\ End(q)
    /\ UNCHANGED <<accounts, desk, evaded>>

-----------------------------------------------------------------------------
Next ==
    \/ \E q \in Requests :
         \/ \E a, u \in Admins : ReadUser(q, a, u)
         \/ ReadTicket(q)
         \/ \E rights \in Rights, text \in BOOLEAN : SaveUser(q, rights, text)
         \/ CompareUser(q) \/ LogUser(q)
         \/ \E status \in Statuses : SaveTicket(q, status)
         \/ DateClosing(q)
         \/ \E who \in Admins \cup {Customer} : ReadForMessage(q, who)
         \/ InsertMessage(q) \/ SaveTransition(q) \/ Kill(q)
    \/ \E a \in Admins : CloseAccount(a) \/ ReopenAccount(a)

Spec == Init /\ [][Next]_vars

-----------------------------------------------------------------------------
\* Those who have asked for the deletion of their account, whatever came of it.
Leavers == {a \in Admins : deletion[a] # "none"}

\* "sinon plus aucun staff dans l'app potentiellement" (views.py:328): an active administrator
\* remains until one asks for the deletion of his account, unless two user updates overlapped
\* or one evaded the guard.
StaffRemains == ~overlap /\ ~evaded /\ Leavers = {} => Staff # {}

\* The flags the audit log can tell: delete-account and its cancellation write is_active
\* without an entry.
Logged(a) == IF a \in Leavers THEN Flags \ {"is_active"} ELSE Flags

\* Between updates the audit log tells these flags of every user, unless two updates
\* overlapped or one was killed before it was logged.
AuditTells ==
    /\ TypeOK
    /\ ~overlap /\ ~Busy(Updating) =>
          \A a \in Admins : audit[a] \cap Logged(a) = user[a] \cap Logged(a)

\* A ticket is not left resolved under an answer of its customer, nor closed without a date,
\* unless a message and an update, or two updates, overlapped or one was killed.
TicketFollows ==
    ~crossed =>
        /\ ticket.status = "resolved" /\ ~Busy(Writing) => ~unseen
        /\ ticket.status = "closed" /\ ~Busy(Managing) => ticket.closed_at
=============================================================================

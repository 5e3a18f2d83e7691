-------------------------- MODULE OperationsProofs --------------------------
(***************************************************************************)
(* Proofs about what those who run the site do: BackOffice, for any number *)
(* of administrators, flags and requests, and Bootstrap, for any number of *)
(* containers and failures.                                                *)
(*                                                                         *)
(* BackOffice: while no two user updates have overlapped, at most one is   *)
(* under way, what it has read is still so, and the audit log lags behind  *)
(* by that update only, is_active of those who close their accounts apart. *)
(* While nobody has done so or evaded the guard, whoever updates a user is *)
(* still an administrator when the row is saved.  While no message has crossed an update of the     *)
(* ticket, an update works on the ticket as it is, and the status only     *)
(* moves to pending under a message.                                       *)
(*                                                                         *)
(* Bootstrap: a container that runs or releases owns the lock unless it    *)
(* ran out under it; one it ran out under does not own it, whoever has it  *)
(* now.                                                                    *)
(***************************************************************************)
EXTENDS BackOffice, Bootstrap, FiniteSetTheorems, TLAPS

-----------------------------------------------------------------------------
(* BackOffice: updates of users, and a ticket. *)

\* What a request carries at each of its steps.
Carries(q) ==
    /\ at[q] \in Updating => target[q] \in Admins
    /\ at[q] = "save" => actor[q] \in Admins
    /\ at[q] \in {"save", "compare"} => held[q] \in [before : Rights]
    /\ at[q] = "log" => held[q] \in [before : Rights, after : Rights]
    /\ at[q] = "patch" => held[q] \in Ticket
    /\ at[q] = "insert" => held[q] \in [status : Statuses, assignee : Admins \cup {"none"}]
    /\ at[q] = "transition" => held[q] \in Columns

Shaped == TypeOK /\ \A q \in Requests : Carries(q)

OneUpdate == \A p, q \in Requests : at[p] \in Updating /\ at[q] \in Updating => p = q

\* The same flags, of those the log can tell.
Same(a, x, y) == x \cap Logged(a) = y \cap Logged(a)

AuditCaught == \A a \in Admins : Same(a, audit[a], user[a])

\* What the log tells of the other users, and of this one until it is told of the update.
AuditBehind(q) ==
    \A a \in Admins : Same(a, audit[a], IF a = target[q] THEN held[q].before ELSE user[a])

\* The update under way still stands on what it has read, and is all the log has missed.
UpdateStands ==
    \A q \in Requests :
        /\ at[q] \in Updating => AuditBehind(q)
        /\ at[q] = "save" => Same(target[q], held[q].before, user[target[q]])
        /\ at[q] = "log" => Same(target[q], held[q].after, user[target[q]])

\* Whoever updates a user is still an administrator when it is saved.
StaffStands == Staff # {} /\ \A q \in Requests : at[q] = "save" => actor[q] \in Staff

UsersInv ==
    ~overlap => /\ OneUpdate
                /\ UpdateStands
                /\ ~Busy(Updating) => AuditCaught
                /\ ~evaded /\ Leavers = {} => StaffStands

\* An update of the ticket has the desk for itself.
ManagesAlone ==
    \A p, q \in Requests : at[p] \in Managing /\ at[q] \in Managing \cup Writing => p = q

\* What an update or a message has read of the ticket, and what is still owed to it.
TicketStands ==
    /\ \A q \in Requests :
         /\ at[q] = "patch" => held[q] = ticket
         /\ at[q] = "insert" /\ ticket.status = "resolved" => held[q].status = "resolved"
         /\ at[q] = "transition" => held[q].status \in {"keep", "pending"}
    /\ ticket.status = "resolved" /\ unseen =>
         \E q \in Requests : at[q] = "transition" /\ held[q].status = "pending"
    /\ ticket.status = "closed" /\ ~ticket.closed_at => \E q \in Requests : at[q] = "date"

DeskInv == ~crossed => ManagesAlone /\ TicketStands

IInv == Shaped /\ UsersInv /\ DeskInv

-----------------------------------------------------------------------------
\* Recording the flags that differ takes the log from the flags before to those after.
LEMMA LogCatchesUp ==
    ASSUME NEW a, NEW old, NEW before, NEW after, Same(a, old, before)
    PROVE  Same(a, (old \ Changed(before, after)) \cup (after \cap Changed(before, after)), after)
  BY DEF Changed, Same

\* The initial state: nothing is under way, and the log agrees with the users.
LEMMA InitHolds == Init => IInv
<1> SUFFICES ASSUME Init PROVE IInv
  OBVIOUS
<1> USE BackOfficeAssumption
<1>1. Shaped
  <2>1. user \in [Admins -> Rights] /\ audit \in [Admins -> Rights]
    BY DEF Init, Rights
  <2>2. ticket \in Ticket
    BY DEF Init, Ticket, Statuses
  <2>3. held \in [Requests -> {Nothing} \cup Ticket \cup Diff \cup Columns]
    BY DEF Init
  <2>4. TypeOK
    BY <2>1, <2>2, <2>3 DEF Init, TypeOK, Steps
  <2> QED
    BY <2>4 DEF Init, Shaped, Carries, Updating
<1>2. UsersInv
  BY DEF Init, UsersInv, OneUpdate, UpdateStands, StaffStands, AuditCaught, Same, Staff, Busy, Updating
<1>3. DeskInv
  BY DEF Init, DeskInv, ManagesAlone, TicketStands, Managing, Writing
<1> QED
  BY <1>1, <1>2, <1>3 DEF IInv

-----------------------------------------------------------------------------
(* The steps of an update of a user.  None of them touches the desk. *)

\* A request at a step that is neither a message nor an update of the ticket may move
\* within such steps without disturbing the desk.
LEMMA DeskUntouched ==
    ASSUME Shaped, DeskInv, NEW q \in Requests,
           UNCHANGED <<desk, crossed>>,
           at[q] \notin Managing \cup Writing, at'[q] \notin Managing \cup Writing,
           \A p \in Requests \ {q} : at'[p] = at[p] /\ held'[p] = held[p]
    PROVE  DeskInv'
<1> SUFFICES ASSUME ~crossed' PROVE ManagesAlone' /\ TicketStands'
  BY DEF DeskInv
<1>1. ManagesAlone /\ TicketStands
  BY DEF DeskInv
<1>2. ManagesAlone'
  BY <1>1 DEF ManagesAlone
<1>3. TicketStands'
  BY <1>1 DEF TicketStands, Managing, Writing, desk
<1> QED
  BY <1>2, <1>3

\* A request that is not an update of a user leaves the users alone.
LEMMA UsersUntouched ==
    ASSUME Shaped, UsersInv, NEW q \in Requests,
           UNCHANGED <<accounts, overlap, evaded>>,
           at[q] \notin Updating, at'[q] \notin Updating,
           \A p \in Requests \ {q} : /\ at'[p] = at[p] /\ held'[p] = held[p]
                                     /\ actor'[p] = actor[p] /\ target'[p] = target[p]
    PROVE  UsersInv'
<1> SUFFICES ASSUME ~overlap'
             PROVE  /\ OneUpdate' /\ UpdateStands' /\ (~Busy(Updating)' => AuditCaught')
                    /\ ~evaded' /\ Leavers' = {} => StaffStands'
  BY DEF UsersInv
<1>1. /\ OneUpdate /\ UpdateStands /\ (~Busy(Updating) => AuditCaught)
      /\ ~evaded /\ Leavers = {} => StaffStands
  BY DEF UsersInv
<1>2. Staff' = Staff /\ Leavers' = Leavers
  BY DEF Staff, Leavers, accounts
<1>3. OneUpdate'
  BY <1>1 DEF OneUpdate
<1>4. \A p \in Requests : at'[p] \in Updating => p # q /\ AuditBehind(p)'
  BY <1>1 DEF UpdateStands, AuditBehind, Same, Logged, Leavers, accounts
<1>5. UpdateStands'
  <2>1. \A p \in Requests : at'[p] = "save" \/ at'[p] = "log" => p # q
    BY DEF Updating
  <2> QED
    BY <1>1, <1>4, <2>1 DEF UpdateStands, Same, Logged, Leavers, accounts
<1>6. Busy(Updating)' <=> Busy(Updating)
  BY DEF Busy
<1>7. AuditCaught => AuditCaught'
  BY DEF AuditCaught, Same, Logged, Leavers, accounts
<1>8. StaffStands => StaffStands'
  BY <1>2 DEF StaffStands, Updating
<1> QED
  BY <1>1, <1>2, <1>3, <1>5, <1>6, <1>7, <1>8

\* A step of q that changes neither a row nor another request keeps every shape, if the
\* next step of q is one q carries what it needs for.
LEMMA RequestShaped ==
    ASSUME Shaped, NEW q \in Requests,
           NEW to \in Steps, NEW who \in Admins \cup {Customer},
           NEW whom \in Admins \cup {Customer},
           NEW row \in {Nothing} \cup Ticket \cup Diff \cup Columns,
           at' = [at EXCEPT ![q] = to], held' = [held EXCEPT ![q] = row],
           actor' = [actor EXCEPT ![q] = who], target' = [target EXCEPT ![q] = whom],
           user' \in [Admins -> Rights], audit' \in [Admins -> Rights],
           ticket' \in Ticket, unseen' \in BOOLEAN,
           overlap' \in BOOLEAN, evaded' \in BOOLEAN, crossed' \in BOOLEAN, UNCHANGED deletion,
           Carries(q)'
    PROVE  Shaped'
<1>1. TypeOK
  BY DEF Shaped
<1>2. at' \in [Requests -> Steps] /\ held' \in [Requests -> {Nothing} \cup Ticket \cup Diff \cup Columns]
  BY <1>1 DEF TypeOK
<1>3. /\ actor' \in [Requests -> Admins \cup {Customer}]
      /\ target' \in [Requests -> Admins \cup {Customer}]
  BY <1>1 DEF TypeOK
<1>4. TypeOK'
  BY <1>1, <1>2, <1>3 DEF TypeOK
<1>5. \A p \in Requests \ {q} : Carries(p)'
  <2> TAKE p \in Requests \ {q}
  <2>1. /\ at'[p] = at[p] /\ held'[p] = held[p] /\ actor'[p] = actor[p] /\ target'[p] = target[p]
    BY <1>1 DEF TypeOK
  <2>2. Carries(p)
    BY DEF Shaped
  <2> QED
    BY <2>1, <2>2 DEF Carries
<1> QED
  BY <1>4, <1>5 DEF Shaped

\* AdminUserDetailView.update reads the row: nothing else is under way, or the updates
\* overlap.
LEMMA ReadUserKeeps ==
    ASSUME IInv, NEW q \in Requests, NEW a \in Admins, NEW u \in Admins, ReadUser(q, a, u)
    PROVE  IInv'
<1> USE DEF ReadUser, Begin
<1>1. TypeOK
  BY DEF IInv, Shaped
<1>2. /\ at'[q] = "save" /\ held'[q] = [before |-> user[u]]
      /\ actor'[q] = a /\ target'[q] = u
      /\ \A p \in Requests \ {q} : /\ at'[p] = at[p] /\ held'[p] = held[p]
                                   /\ actor'[p] = actor[p] /\ target'[p] = target[p]
  BY <1>1 DEF TypeOK
<1>3. [before |-> user[u]] \in [before : Rights]
  BY <1>1 DEF TypeOK
<1>4. Carries(q)'
  BY <1>2, <1>3 DEF Carries
<1>5. Shaped'
  <2>1. /\ user' \in [Admins -> Rights] /\ audit' \in [Admins -> Rights] /\ ticket' \in Ticket
        /\ unseen' \in BOOLEAN /\ crossed' \in BOOLEAN /\ overlap' \in BOOLEAN
        /\ evaded' \in BOOLEAN /\ deletion' = deletion
    BY <1>1 DEF TypeOK, accounts, desk
  <2>2. "save" \in Steps /\ [before |-> user[u]] \in Diff
    BY <1>3 DEF Steps, Diff
  <2> QED
    BY <1>4, <2>1, <2>2, RequestShaped DEF IInv
<1>6. UsersInv'
  <2> SUFFICES ASSUME ~overlap'
               PROVE  /\ OneUpdate' /\ UpdateStands' /\ (~Busy(Updating)' => AuditCaught')
                      /\ ~evaded' /\ Leavers' = {} => StaffStands'
    BY DEF UsersInv
  <2>1. ~overlap /\ ~Busy(Updating)
    OBVIOUS
  <2>2. OneUpdate /\ AuditCaught /\ (~evaded /\ Leavers = {} => StaffStands)
    BY <2>1 DEF IInv, UsersInv
  <2>3. Staff' = Staff /\ Leavers' = Leavers
    BY DEF Staff, Leavers, accounts
  <2>4. \A p \in Requests \ {q} : at'[p] \notin Updating
    BY <1>2, <2>1 DEF Busy
  <2>5. OneUpdate'
    BY <2>4 DEF OneUpdate
  <2>6. UpdateStands'
    <3>1. AuditBehind(q)'
      BY <1>2, <2>2 DEF AuditBehind, AuditCaught, Same, Logged, Leavers, accounts
    <3>2. held'[q].before = user'[target'[q]]
      BY <1>2 DEF accounts
    <3> QED
      BY <1>2, <2>4, <3>1, <3>2 DEF UpdateStands, Updating, Same
  <2>7. Busy(Updating)'
    BY <1>2 DEF Busy, Updating
  <2>8. StaffStands => StaffStands'
    BY <1>2, <2>3, <2>4 DEF StaffStands, Updating
  <2> QED
    BY <2>2, <2>3, <2>5, <2>6, <2>7, <2>8
<1>7. DeskInv'
  BY <1>2, DeskUntouched DEF IInv, Managing, Writing
<1> QED
  BY <1>5, <1>6, <1>7 DEF IInv

\* The update of q is the only one: what others hold of the users does not matter.
LEMMA OnlyUpdate ==
    ASSUME OneUpdate, NEW q \in Requests, at[q] \in Updating
    PROVE  \A p \in Requests \ {q} : at[p] \notin Updating
  BY DEF OneUpdate

\* serializer.save(): whoever saves is staff still, and is staff afterwards, unless he has
\* evaded the guard that holds him back from himself.
LEMMA SaveUserKeeps ==
    ASSUME IInv, NEW q \in Requests, NEW rights \in Rights, NEW text \in BOOLEAN,
           SaveUser(q, rights, text)
    PROVE  IInv'
<1> USE DEF SaveUser, Goto, End
<1>1. TypeOK /\ Carries(q)
  BY DEF IInv, Shaped
<1>2. \A p \in Requests \ {q} : /\ at'[p] = at[p] /\ held'[p] = held[p]
                                /\ actor'[p] = actor[p] /\ target'[p] = target[p]
  BY <1>1 DEF TypeOK
<1>3. target[q] \in Admins /\ actor[q] \in Admins /\ held[q] \in [before : Rights]
  BY <1>1 DEF Carries, Updating
<1>4. CASE SelfGuard(q, rights, text)
  <2>1. /\ user' = [user EXCEPT ![target[q]] = rights]
        /\ at' = [at EXCEPT ![q] = "compare"] /\ held' = [held EXCEPT ![q] = held[q]]
        /\ actor' = [actor EXCEPT ![q] = Customer] /\ target' = target
    BY <1>4
  <2>2. at'[q] = "compare" /\ held'[q] = held[q] /\ target'[q] = target[q]
    BY <1>1, <2>1 DEF TypeOK
  <2>3. Carries(q)'
    BY <1>3, <2>2 DEF Carries
  <2>4. Shaped'
    <3>1. user' \in [Admins -> Rights]
      BY <1>1, <2>1 DEF TypeOK
    <3>2. /\ audit' \in [Admins -> Rights] /\ ticket' \in Ticket
          /\ unseen' \in BOOLEAN /\ crossed' \in BOOLEAN /\ overlap' \in BOOLEAN
          /\ evaded' \in BOOLEAN /\ deletion' = deletion
      BY <1>1 DEF TypeOK, desk
    <3>3. "compare" \in Steps /\ held[q] \in Diff
      BY <1>3 DEF Steps, Diff
    <3>4. target' = [target EXCEPT ![q] = target[q]]
      BY <1>1, <2>1 DEF TypeOK
    <3> QED
      BY <1>3, <2>1, <2>3, <3>1, <3>2, <3>3, <3>4, RequestShaped DEF IInv
  <2>5. UsersInv'
    <3> SUFFICES ASSUME ~overlap'
                 PROVE  /\ OneUpdate' /\ UpdateStands' /\ (~Busy(Updating)' => AuditCaught')
                        /\ ~evaded' /\ Leavers' = {} => StaffStands'
      BY DEF UsersInv
    <3>1. OneUpdate /\ UpdateStands /\ (~evaded /\ Leavers = {} => StaffStands)
      BY DEF IInv, UsersInv
    <3>2. at[q] = "save" /\ at[q] \in Updating
      BY DEF Updating
    <3>3. \A p \in Requests \ {q} : at'[p] \notin Updating
      BY <1>2, <3>1, <3>2, OnlyUpdate
    <3>4. AuditBehind(q)
      BY <3>1, <3>2 DEF UpdateStands
    <3>5. ASSUME ~evaded', Leavers' = {} PROVE StaffStands'
      <4>1. ~evaded /\ Renounced(q, rights) = {}
        <5>1. evaded' = (evaded \/ (text /\ Renounced(q, rights) # {}))
          BY <1>4
        <5>2. text \/ Renounced(q, rights) = {}
          BY <1>4 DEF SelfGuard
        <5> QED
          BY <3>5, <5>1, <5>2, Zenon
      <4>2. Leavers = {}
        BY <3>5 DEF Leavers
      <4>3. actor[q] \in Staff
        BY <3>1, <3>2, <4>1, <4>2 DEF StaffStands
      <4>4. {"is_staff", "is_active"} \subseteq user'[actor[q]]
        <5>1. CASE actor[q] = target[q]
          <6>1. {"is_staff", "is_active"} \subseteq rights
            BY <4>1, <4>3, <5>1 DEF Renounced, Staff
          <6>2. user'[actor[q]] = rights
            BY <1>1, <1>3, <2>1, <5>1 DEF TypeOK
          <6> QED
            BY <6>1, <6>2
        <5>2. CASE actor[q] # target[q]
          <6>1. user'[actor[q]] = user[actor[q]]
            BY <1>1, <1>3, <2>1, <5>2 DEF TypeOK
          <6> QED
            BY <4>3, <6>1 DEF Staff
        <5> QED
          BY <5>1, <5>2
      <4>5. actor[q] \in Staff'
        BY <1>3, <4>4 DEF Staff
      <4>6. \A p \in Requests : at'[p] # "save"
        BY <2>2, <3>3 DEF Updating
      <4> QED
        BY <4>5, <4>6 DEF StaffStands
    <3>6. OneUpdate'
      BY <3>3 DEF OneUpdate
    <3>7. AuditBehind(q)'
      <4>1. audit' = audit /\ \A a \in Admins : Logged(a)' = Logged(a)
        BY DEF Logged, Leavers
      <4>2. \A a \in Admins : a # target[q] => user'[a] = user[a]
        BY <1>1, <1>3, <2>1 DEF TypeOK
      <4>3. \A a \in Admins :
              audit[a] \cap Logged(a) = (IF a = target[q] THEN held[q].before ELSE user[a]) \cap Logged(a)
        BY <3>4 DEF AuditBehind, Same
      <4> QED
        BY <2>2, <4>1, <4>2, <4>3 DEF AuditBehind, Same
    <3>8. UpdateStands'
      BY <2>2, <3>3, <3>7 DEF UpdateStands, Updating
    <3>9. Busy(Updating)'
      BY <2>2 DEF Busy, Updating
    <3> QED
      BY <3>5, <3>6, <3>8, <3>9
  <2>6. DeskInv'
    BY <1>2, <2>2, DeskUntouched DEF IInv, Managing, Writing
  <2> QED
    BY <2>4, <2>5, <2>6 DEF IInv
<1>5. CASE ~SelfGuard(q, rights, text)
  <2>1. /\ user' = user /\ at' = [at EXCEPT ![q] = "idle"]
        /\ held' = [held EXCEPT ![q] = Nothing]
        /\ actor' = [actor EXCEPT ![q] = Customer] /\ target' = [target EXCEPT ![q] = Customer]
    BY <1>5
  <2>2. at'[q] = "idle"
    BY <1>1, <2>1 DEF TypeOK
  <2>3. Shaped'
    <3>1. Carries(q)'
      BY <2>2 DEF Carries, Updating
    <3>2. /\ user' \in [Admins -> Rights] /\ audit' \in [Admins -> Rights] /\ ticket' \in Ticket
          /\ unseen' \in BOOLEAN /\ crossed' \in BOOLEAN /\ overlap' \in BOOLEAN
          /\ evaded' \in BOOLEAN /\ deletion' = deletion
      BY <1>1, <2>1 DEF TypeOK, desk
    <3>3. "idle" \in Steps
      BY DEF Steps
    <3> QED
      BY <2>1, <3>1, <3>2, <3>3, RequestShaped DEF IInv
  <2>4. UsersInv'
    <3> SUFFICES ASSUME ~overlap'
                 PROVE  /\ OneUpdate' /\ UpdateStands' /\ (~Busy(Updating)' => AuditCaught')
                        /\ ~evaded' /\ Leavers' = {} => StaffStands'
      BY DEF UsersInv
    <3>1. OneUpdate /\ UpdateStands /\ (~evaded /\ Leavers = {} => StaffStands)
      BY DEF IInv, UsersInv
    <3>2. \A p \in Requests : at'[p] \notin Updating
      BY <1>2, <2>2, <3>1, OnlyUpdate DEF Updating
    <3>3. AuditBehind(q) /\ Same(target[q], held[q].before, user[target[q]])
      BY <3>1 DEF UpdateStands, Updating
    <3>4. AuditCaught'
      BY <1>5, <2>1, <3>3 DEF AuditCaught, AuditBehind, Same, Logged, Leavers
    <3>5. ~evaded' /\ Leavers' = {} => StaffStands
      BY <1>5, <3>1 DEF Leavers
    <3>6. StaffStands => StaffStands'
      <4>1. Staff' = Staff
        BY <2>1 DEF Staff
      <4> QED
        BY <3>2, <4>1 DEF StaffStands, Updating
    <3> QED
      BY <3>2, <3>4, <3>5, <3>6 DEF OneUpdate, UpdateStands, Updating
  <2>5. DeskInv'
    BY <1>2, <2>2, DeskUntouched DEF IInv, Managing, Writing
  <2> QED
    BY <2>3, <2>4, <2>5 DEF IInv
<1> QED
  BY <1>4, <1>5

\* The end of a request that has no row left to write is a step every shape survives.
LEMMA EndShaped ==
    ASSUME Shaped, NEW q \in Requests, End(q),
           user' \in [Admins -> Rights], audit' \in [Admins -> Rights],
           ticket' \in Ticket, unseen' \in BOOLEAN,
           overlap' \in BOOLEAN, evaded' \in BOOLEAN, crossed' \in BOOLEAN, UNCHANGED deletion
    PROVE  /\ Shaped' /\ at'[q] = "idle"
           /\ \A p \in Requests \ {q} : /\ at'[p] = at[p] /\ held'[p] = held[p]
                                        /\ actor'[p] = actor[p] /\ target'[p] = target[p]
<1>1. TypeOK
  BY DEF Shaped
<1>2. at'[q] = "idle"
  BY <1>1 DEF TypeOK, End
<1>3. Carries(q)'
  BY <1>2 DEF Carries, Updating
<1>4. "idle" \in Steps
  BY DEF Steps
<1>5. Shaped'
  BY <1>3, <1>4, RequestShaped DEF End
<1> QED
  BY <1>1, <1>2, <1>5 DEF TypeOK, End

\* refresh_from_db: nothing differs and the log agrees, or what differs is kept for it.
LEMMA CompareUserKeeps ==
    ASSUME IInv, NEW q \in Requests, CompareUser(q)
    PROVE  IInv'
<1> USE DEF CompareUser, mishaps
<1>1. TypeOK /\ Carries(q) /\ at[q] = "compare"
  BY DEF IInv, Shaped
<1>2. target[q] \in Admins /\ held[q] \in [before : Rights]
  BY <1>1 DEF Carries, Updating
<1>3. /\ user' \in [Admins -> Rights] /\ audit' \in [Admins -> Rights] /\ ticket' \in Ticket
      /\ unseen' \in BOOLEAN /\ crossed' \in BOOLEAN /\ overlap' \in BOOLEAN
      /\ evaded' \in BOOLEAN /\ deletion' = deletion
  BY <1>1 DEF TypeOK, desk, accounts
<1>4. ASSUME ~overlap
      PROVE  /\ AuditBehind(q) /\ (~evaded /\ Leavers = {} => StaffStands)
             /\ \A p \in Requests \ {q} : at[p] \notin Updating
  <2>1. OneUpdate /\ UpdateStands /\ (~evaded /\ Leavers = {} => StaffStands)
    BY <1>4 DEF IInv, UsersInv
  <2>2. AuditBehind(q)
    BY <1>1, <2>1 DEF UpdateStands, Updating
  <2> QED
    BY <1>1, <2>1, <2>2, OnlyUpdate DEF Updating
<1>5. CASE user[target[q]] = held[q].before
  <2>1. End(q)
    BY <1>5
  <2>2. /\ Shaped' /\ at'[q] = "idle"
        /\ \A p \in Requests \ {q} : /\ at'[p] = at[p] /\ held'[p] = held[p]
                                     /\ actor'[p] = actor[p] /\ target'[p] = target[p]
    BY <1>3, <2>1, EndShaped DEF IInv
  <2>3. UsersInv'
    <3> SUFFICES ASSUME ~overlap
                 PROVE  /\ OneUpdate' /\ UpdateStands' /\ (~Busy(Updating)' => AuditCaught')
                        /\ ~evaded' /\ Leavers' = {} => StaffStands'
      BY DEF UsersInv
    <3>1. AuditCaught'
      BY <1>4, <1>5 DEF AuditCaught, AuditBehind, Same, Logged, Leavers, accounts
    <3>2. \A p \in Requests : at'[p] \notin Updating
      BY <1>4, <2>2 DEF Updating
    <3>3. Staff' = Staff /\ Leavers' = Leavers
      BY DEF Staff, Leavers, accounts
    <3>4. StaffStands => StaffStands'
      BY <3>2, <3>3 DEF StaffStands, Updating
    <3> QED
      BY <1>4, <3>1, <3>2, <3>3, <3>4 DEF OneUpdate, UpdateStands, Updating
  <2>4. DeskInv'
    BY <1>1, <2>2, DeskUntouched DEF IInv, Managing, Writing
  <2> QED
    BY <2>2, <2>3, <2>4 DEF IInv
<1>6. CASE user[target[q]] # held[q].before
  <2> DEFINE diff == [before |-> held[q].before, after |-> user[target[q]]]
  <2>1. Goto(q, "log", diff)
    BY <1>6
  <2>2. /\ at'[q] = "log" /\ held'[q] = diff /\ target' = target
        /\ \A p \in Requests \ {q} : /\ at'[p] = at[p] /\ held'[p] = held[p]
                                     /\ actor'[p] = actor[p] /\ target'[p] = target[p]
    BY <1>1, <2>1 DEF TypeOK, Goto
  <2>3. diff \in [before : Rights, after : Rights]
    BY <1>1, <1>2 DEF TypeOK
  <2>4. Shaped'
    <3>1. Carries(q)'
      BY <1>2, <2>2, <2>3 DEF Carries
    <3>2. target' = [target EXCEPT ![q] = target[q]]
      BY <1>1, <2>2 DEF TypeOK
    <3>3. "log" \in Steps /\ diff \in Diff
      BY <2>3 DEF Steps, Diff
    <3> HIDE DEF diff
    <3> QED
      BY <1>2, <1>3, <2>1, <3>1, <3>2, <3>3, RequestShaped DEF IInv, Goto
  <2>5. UsersInv'
    <3> SUFFICES ASSUME ~overlap
                 PROVE  /\ OneUpdate' /\ UpdateStands' /\ (~Busy(Updating)' => AuditCaught')
                        /\ ~evaded' /\ Leavers' = {} => StaffStands'
      BY DEF UsersInv
    <3>1. \A p \in Requests \ {q} : at'[p] \notin Updating
      BY <1>4, <2>2
    <3>2. Staff' = Staff /\ Leavers' = Leavers
      BY DEF Staff, Leavers, accounts
    <3>3. OneUpdate'
      BY <3>1 DEF OneUpdate
    <3>4. held'[q].before = held[q].before /\ held'[q].after = user'[target'[q]]
      BY <2>2 DEF accounts
    <3>5. AuditBehind(q)'
      BY <1>4, <2>2, <3>4 DEF AuditBehind, Same, Logged, Leavers, accounts
    <3>6. UpdateStands'
      BY <2>2, <3>1, <3>4, <3>5 DEF UpdateStands, Updating, Same
    <3>7. Busy(Updating)'
      BY <2>2 DEF Busy, Updating
    <3>8. StaffStands => StaffStands'
      BY <2>2, <3>1, <3>2 DEF StaffStands, Updating
    <3> QED
      BY <1>4, <3>2, <3>3, <3>6, <3>7, <3>8
  <2>6. DeskInv'
    BY <1>1, <2>2, DeskUntouched DEF IInv, Managing, Writing
  <2> QED
    BY <2>4, <2>5, <2>6 DEF IInv
<1> QED
  BY <1>5, <1>6

\* log_admin_action: the log catches up with the user.
LEMMA LogUserKeeps ==
    ASSUME IInv, NEW q \in Requests, LogUser(q)
    PROVE  IInv'
<1> USE DEF LogUser, mishaps
<1> DEFINE changed == Changed(held[q].before, held[q].after)
<1>1. TypeOK /\ Carries(q) /\ at[q] = "log" /\ End(q)
  BY DEF IInv, Shaped
<1>2. target[q] \in Admins /\ held[q] \in [before : Rights, after : Rights]
  BY <1>1 DEF Carries, Updating
<1>3. audit' = [audit EXCEPT ![target[q]] =
                    (audit[target[q]] \ changed) \cup (held[q].after \cap changed)]
  OBVIOUS
<1> HIDE DEF changed
<1>4. audit' \in [Admins -> Rights]
  <2>1. (audit[target[q]] \ changed) \cup (held[q].after \cap changed) \in Rights
    BY <1>1, <1>2 DEF TypeOK, Rights
  <2> QED
    BY <1>1, <1>3, <2>1 DEF TypeOK
<1>5. /\ Shaped' /\ at'[q] = "idle"
      /\ \A p \in Requests \ {q} : /\ at'[p] = at[p] /\ held'[p] = held[p]
                                   /\ actor'[p] = actor[p] /\ target'[p] = target[p]
  BY <1>1, <1>4, EndShaped DEF IInv, TypeOK, desk
<1>6. UsersInv'
  <2> SUFFICES ASSUME ~overlap
               PROVE  /\ OneUpdate' /\ UpdateStands' /\ (~Busy(Updating)' => AuditCaught')
                      /\ ~evaded' /\ Leavers' = {} => StaffStands'
    BY DEF UsersInv
  <2>1. OneUpdate /\ UpdateStands /\ (~evaded /\ Leavers = {} => StaffStands)
    BY DEF IInv, UsersInv
  <2>2. \A p \in Requests : at'[p] \notin Updating
    BY <1>1, <1>5, <2>1, OnlyUpdate DEF Updating
  <2>3. AuditBehind(q) /\ Same(target[q], held[q].after, user[target[q]])
    BY <1>1, <2>1 DEF UpdateStands, Updating
  <2>4. Same(target[q], audit[target[q]], held[q].before)
    BY <1>2, <2>3 DEF AuditBehind
  <2>5. Same(target[q], (audit[target[q]] \ changed) \cup (held[q].after \cap changed), held[q].after)
    BY <2>4, LogCatchesUp DEF changed
  <2>6. AuditCaught'
    <3> SUFFICES ASSUME NEW a \in Admins PROVE Same(a, audit'[a], user[a])
      BY DEF AuditCaught, Same, Logged, Leavers
    <3>1. CASE a = target[q]
      <4>1. audit'[a] = (audit[target[q]] \ changed) \cup (held[q].after \cap changed)
        BY <1>1, <1>2, <1>3, <3>1 DEF TypeOK
      <4> QED
        BY <2>3, <2>5, <3>1, <4>1 DEF Same
    <3>2. CASE a # target[q]
      <4>1. audit'[a] = audit[a]
        BY <1>1, <1>2, <1>3, <3>2 DEF TypeOK
      <4> QED
        BY <2>3, <3>2, <4>1 DEF AuditBehind
    <3> QED
      BY <3>1, <3>2
  <2>7. Staff' = Staff /\ Leavers' = Leavers
    BY DEF Staff, Leavers
  <2>8. StaffStands => StaffStands'
    BY <2>2, <2>7 DEF StaffStands, Updating
  <2> QED
    BY <2>1, <2>2, <2>6, <2>7, <2>8 DEF OneUpdate, UpdateStands, Updating, mishaps
<1>7. DeskInv'
  BY <1>1, <1>5, DeskUntouched DEF IInv, Managing, Writing
<1> QED
  BY <1>5, <1>6, <1>7 DEF IInv

-----------------------------------------------------------------------------
\* delete-account and its cancellation change is_active alone, of a user of whom the log
\* no longer claims to tell it.
LEMMA AccountKeeps ==
    ASSUME IInv, NEW a \in Admins, CloseAccount(a) \/ ReopenAccount(a)
    PROVE  IInv'
<1>1. TypeOK /\ Shaped
  BY DEF IInv, Shaped
<1>2. UNCHANGED <<audit, desk, request, mishaps>>
  BY DEF CloseAccount, ReopenAccount
<1>3. /\ \A b \in Admins \ {a} : user'[b] = user[b] /\ deletion'[b] = deletion[b]
      /\ user'[a] \ {"is_active"} = user[a] \ {"is_active"} /\ deletion'[a] # "none"
      /\ user' \in [Admins -> Rights]
      /\ deletion' \in [Admins -> {"none", "pending", "cancelled"}]
  BY <1>1, BackOfficeAssumption DEF CloseAccount, ReopenAccount, TypeOK, Rights
<1>4. Shaped'
  BY <1>1, <1>2, <1>3 DEF Shaped, TypeOK, Carries, desk, request, mishaps
<1>5. a \in Leavers'
  BY <1>3 DEF Leavers
<1>6. ASSUME NEW b \in Admins
      PROVE  Logged(b)' \subseteq Logged(b) /\ user'[b] \cap Logged(b)' = user[b] \cap Logged(b)'
  BY <1>3, <1>6 DEF Logged, Leavers
<1>7. UsersInv'
  <2> SUFFICES ASSUME ~overlap'
               PROVE  /\ OneUpdate' /\ UpdateStands' /\ (~Busy(Updating)' => AuditCaught')
                      /\ ~evaded' /\ Leavers' = {} => StaffStands'
    BY DEF UsersInv
  <2>1. OneUpdate /\ UpdateStands /\ (~Busy(Updating) => AuditCaught)
    BY <1>2 DEF IInv, UsersInv, mishaps
  <2>2. \A p \in Requests : at[p] \in Updating => target[p] \in Admins
    BY <1>1 DEF Shaped, Carries
  <2>3. AuditCaught => AuditCaught'
    BY <1>2, <1>6 DEF AuditCaught, Same
  <2>4. \A p \in Requests : AuditBehind(p) => AuditBehind(p)'
    BY <1>2, <1>6 DEF AuditBehind, Same, request
  <2>5. \A p \in Requests, b \in Admins : \A x : Same(b, x, user[b]) => x \cap Logged(b)' = user'[b] \cap Logged(b)'
    BY <1>6 DEF Same
  <2>6. UpdateStands'
    BY <1>2, <2>1, <2>2, <2>4, <2>5 DEF UpdateStands, Same, request, Updating
  <2> QED
    BY <1>2, <1>5, <2>1, <2>3, <2>6 DEF OneUpdate, Busy, request
<1>8. DeskInv'
  BY <1>2 DEF IInv, DeskInv, ManagesAlone, TicketStands, desk, request, mishaps
<1> QED
  BY <1>4, <1>7, <1>8 DEF IInv

-----------------------------------------------------------------------------
(* The steps of an update of the ticket and of a message.  None touches a user. *)

\* TicketDetailView reads the ticket: nobody writes to it, or the requests cross.
LEMMA ReadTicketKeeps ==
    ASSUME IInv, NEW q \in Requests, ReadTicket(q)
    PROVE  IInv'
<1> USE DEF ReadTicket, Begin
<1>1. TypeOK /\ at[q] = "idle"
  BY DEF IInv, Shaped
<1>2. /\ at'[q] = "patch" /\ held'[q] = ticket
      /\ \A p \in Requests \ {q} : /\ at'[p] = at[p] /\ held'[p] = held[p]
                                   /\ actor'[p] = actor[p] /\ target'[p] = target[p]
  BY <1>1 DEF TypeOK
<1>3. Shaped'
  <2>1. Carries(q)'
    BY <1>1, <1>2 DEF Carries, Updating, TypeOK
  <2>2. /\ user' \in [Admins -> Rights] /\ audit' \in [Admins -> Rights] /\ ticket' \in Ticket
        /\ unseen' \in BOOLEAN /\ crossed' \in BOOLEAN /\ overlap' \in BOOLEAN
        /\ evaded' \in BOOLEAN /\ deletion' = deletion
    BY <1>1 DEF TypeOK, desk, accounts
  <2>3. "patch" \in Steps /\ ticket \in Ticket
    BY <1>1 DEF Steps, TypeOK
  <2> QED
    BY <2>1, <2>2, <2>3, RequestShaped DEF IInv
<1>4. UsersInv'
  BY <1>1, <1>2, UsersUntouched DEF IInv, Updating
<1>5. DeskInv'
  <2> SUFFICES ASSUME ~crossed' PROVE ManagesAlone' /\ TicketStands'
    BY DEF DeskInv
  <2>1. ~crossed /\ \A p \in Requests : at[p] \notin Managing \cup Writing
    BY DEF Busy
  <2>2. TicketStands
    BY <2>1 DEF IInv, DeskInv
  <2>3. \A p \in Requests \ {q} : at'[p] \notin Managing \cup Writing
    BY <1>2, <2>1
  <2>4. ManagesAlone'
    BY <2>3 DEF ManagesAlone
  <2>5. ~(ticket.status = "resolved" /\ unseen) /\ ~(ticket.status = "closed" /\ ~ticket.closed_at)
    BY <2>1, <2>2 DEF TicketStands, Managing, Writing
  <2>6. TicketStands'
    BY <1>2, <2>3, <2>5 DEF TicketStands, Managing, Writing, desk
  <2> QED
    BY <2>4, <2>6
<1> QED
  BY <1>3, <1>4, <1>5 DEF IInv

\* perform_update: the copy it saves is the ticket as it is; closing it is dated next, unless
\* it has a date.
LEMMA SaveTicketKeeps ==
    ASSUME IInv, NEW q \in Requests, NEW status \in Statuses, SaveTicket(q, status)
    PROVE  IInv'
<1> USE DEF SaveTicket, mishaps
<1>1. TypeOK /\ at[q] = "patch" /\ held[q] \in Ticket
  BY DEF IInv, Shaped, Carries
<1>2. ticket' = [held[q] EXCEPT !.status = status] /\ ticket' \in Ticket
  BY <1>1 DEF Ticket
<1>3. /\ user' \in [Admins -> Rights] /\ audit' \in [Admins -> Rights]
      /\ unseen' \in BOOLEAN /\ crossed' \in BOOLEAN /\ overlap' \in BOOLEAN
      /\ evaded' \in BOOLEAN /\ deletion' = deletion
  BY <1>1 DEF TypeOK, accounts
<1>4. ticket'.status = status /\ ticket'.closed_at = held[q].closed_at
  BY <1>1, <1>2 DEF Ticket
<1>5. ASSUME ~crossed PROVE /\ \A p \in Requests \ {q} : at[p] \notin Managing \cup Writing
                            /\ held[q] = ticket /\ TicketStands
  <2>1. ManagesAlone /\ TicketStands
    BY <1>5 DEF IInv, DeskInv
  <2> QED
    BY <1>1, <2>1 DEF ManagesAlone, TicketStands, Managing
<1>6. CASE status = "closed" /\ ~held[q].closed_at
  <2>1. Goto(q, "date", Nothing)
    BY <1>6
  <2>2. /\ at'[q] = "date" /\ target' = [target EXCEPT ![q] = target[q]]
        /\ \A p \in Requests \ {q} : /\ at'[p] = at[p] /\ held'[p] = held[p]
                                     /\ actor'[p] = actor[p] /\ target'[p] = target[p]
    BY <1>1, <2>1 DEF TypeOK, Goto
  <2>3. Shaped'
    <3>1. Carries(q)'
      BY <2>2 DEF Carries, Updating
    <3>2. "date" \in Steps /\ target[q] \in Admins \cup {Customer}
      BY <1>1 DEF Steps, TypeOK
    <3> QED
      BY <1>2, <1>3, <2>1, <2>2, <3>1, <3>2, RequestShaped DEF IInv, Goto
  <2>4. UsersInv'
    BY <1>1, <2>2, UsersUntouched DEF IInv, Updating
  <2>5. DeskInv'
    <3> SUFFICES ASSUME ~crossed PROVE ManagesAlone' /\ TicketStands'
      BY DEF DeskInv
    <3>1. \A p \in Requests \ {q} : at'[p] \notin Managing \cup Writing
      BY <1>5, <2>2
    <3> QED
      BY <1>4, <1>6, <2>2, <3>1 DEF ManagesAlone, TicketStands, Managing, Writing
  <2> QED
    BY <2>3, <2>4, <2>5 DEF IInv
<1>7. CASE ~(status = "closed" /\ ~held[q].closed_at)
  <2>1. End(q)
    BY <1>7
  <2>2. /\ Shaped' /\ at'[q] = "idle"
        /\ \A p \in Requests \ {q} : /\ at'[p] = at[p] /\ held'[p] = held[p]
                                     /\ actor'[p] = actor[p] /\ target'[p] = target[p]
    BY <1>2, <1>3, <2>1, EndShaped DEF IInv
  <2>3. UsersInv'
    BY <1>1, <2>2, UsersUntouched DEF IInv, Updating
  <2>4. DeskInv'
    <3> SUFFICES ASSUME ~crossed PROVE ManagesAlone' /\ TicketStands'
      BY DEF DeskInv
    <3>1. \A p \in Requests : at'[p] \notin Managing \cup Writing
      BY <1>5, <2>2 DEF Managing, Writing
    <3> QED
      BY <1>4, <1>7, <3>1 DEF ManagesAlone, TicketStands, Managing, Writing
  <2> QED
    BY <2>2, <2>3, <2>4 DEF IInv
<1> QED
  BY <1>6, <1>7

\* closed_at is written, and the status stays.
LEMMA DateClosingKeeps ==
    ASSUME IInv, NEW q \in Requests, DateClosing(q)
    PROVE  IInv'
<1> USE DEF DateClosing, mishaps
<1>1. TypeOK /\ at[q] = "date" /\ End(q)
  BY DEF IInv, Shaped
<1>2. /\ ticket' \in Ticket /\ ticket'.status = ticket.status /\ ticket'.closed_at
      /\ user' \in [Admins -> Rights] /\ audit' \in [Admins -> Rights]
      /\ unseen' \in BOOLEAN /\ crossed' \in BOOLEAN /\ overlap' \in BOOLEAN
      /\ evaded' \in BOOLEAN /\ deletion' = deletion
  BY <1>1 DEF TypeOK, accounts, Ticket
<1>3. /\ Shaped' /\ at'[q] = "idle"
      /\ \A p \in Requests \ {q} : /\ at'[p] = at[p] /\ held'[p] = held[p]
                                   /\ actor'[p] = actor[p] /\ target'[p] = target[p]
  BY <1>1, <1>2, EndShaped DEF IInv
<1>4. UsersInv'
  BY <1>1, <1>3, UsersUntouched DEF IInv, Updating
<1>5. DeskInv'
  <2> SUFFICES ASSUME ~crossed PROVE ManagesAlone' /\ TicketStands'
    BY DEF DeskInv
  <2>1. ManagesAlone /\ TicketStands
    BY DEF IInv, DeskInv
  <2>2. \A p \in Requests : at'[p] \notin Managing \cup Writing
    BY <1>1, <1>3, <2>1 DEF ManagesAlone, Managing, Writing
  <2>3. ~(ticket.status = "resolved" /\ unseen)
    BY <1>1, <2>1 DEF ManagesAlone, TicketStands, Managing, Writing
  <2> QED
    BY <1>2, <2>2, <2>3 DEF ManagesAlone, TicketStands, Managing, Writing
<1> QED
  BY <1>3, <1>4, <1>5 DEF IInv

\* A message passes the test of the status: no update is under way, or the requests cross.
LEMMA ReadForMessageKeeps ==
    ASSUME IInv, NEW q \in Requests, NEW who \in Admins \cup {Customer}, ReadForMessage(q, who)
    PROVE  IInv'
<1> USE DEF ReadForMessage, Begin
<1> DEFINE columns == [status |-> ticket.status, assignee |-> ticket.assignee]
<1>1. TypeOK /\ at[q] = "idle"
  BY DEF IInv, Shaped
<1>2. /\ at'[q] = "insert" /\ held'[q] = columns
      /\ \A p \in Requests \ {q} : /\ at'[p] = at[p] /\ held'[p] = held[p]
                                   /\ actor'[p] = actor[p] /\ target'[p] = target[p]
  BY <1>1 DEF TypeOK
<1>3. columns \in [status : Statuses, assignee : Admins \cup {"none"}]
  BY <1>1 DEF TypeOK, Ticket
<1>4. columns.status = ticket.status
  OBVIOUS
<1>5. Shaped'
  <2>1. Carries(q)'
    BY <1>2, <1>3 DEF Carries, Updating
  <2>2. /\ user' \in [Admins -> Rights] /\ audit' \in [Admins -> Rights] /\ ticket' \in Ticket
        /\ unseen' \in BOOLEAN /\ crossed' \in BOOLEAN /\ overlap' \in BOOLEAN
        /\ evaded' \in BOOLEAN /\ deletion' = deletion
    BY <1>1 DEF TypeOK, desk, accounts
  <2>3. "insert" \in Steps /\ columns \in Columns
    BY <1>3 DEF Steps, Columns
  <2> QED
    BY <2>1, <2>2, <2>3, RequestShaped DEF IInv
<1>6. UsersInv'
  BY <1>1, <1>2, UsersUntouched DEF IInv, Updating
<1>7. DeskInv'
  <2> SUFFICES ASSUME ~crossed' PROVE ManagesAlone' /\ TicketStands'
    BY DEF DeskInv
  <2>1. ~crossed /\ \A p \in Requests : at[p] \notin Managing
    BY DEF Busy
  <2>2. TicketStands
    BY <2>1 DEF IInv, DeskInv
  <2>3. \A p \in Requests : at'[p] \notin Managing
    BY <1>2, <2>1 DEF Managing
  <2>4. ManagesAlone'
    BY <2>3 DEF ManagesAlone
  <2>5. ticket' = ticket /\ unseen' = unseen
    BY DEF desk
  <2> HIDE DEF columns
  <2>6. TicketStands'
    BY <1>1, <1>2, <1>4, <2>2, <2>5 DEF TicketStands
  <2> QED
    BY <2>4, <2>6
<1> QED
  BY <1>5, <1>6, <1>7 DEF IInv

\* What a message changes: the assignee, or the status to pending, or nothing.  An answer of
\* the customer to a resolved ticket takes it to pending.
LEMMA TransitionColumns ==
    ASSUME Shaped, NEW q \in Requests, NEW row
    PROVE  /\ Transition(q, row) \in Columns
           /\ Transition(q, row).status \in {"keep", "pending"}
           /\ ~SentByStaff(q) /\ row.status = "resolved" => Transition(q, row).status = "pending"
<1>1. SentByStaff(q) => actor[q] \in Admins
  BY DEF Shaped, TypeOK, SentByStaff
<1> QED
  BY <1>1 DEF Transition, Columns, Statuses

\* The message is inserted: an answer to a resolved ticket owes it the transition.
LEMMA InsertMessageKeeps ==
    ASSUME IInv, NEW q \in Requests, InsertMessage(q)
    PROVE  IInv'
<1> USE DEF InsertMessage, mishaps
<1> DEFINE columns == Transition(q, held[q])
<1>1. TypeOK /\ Carries(q) /\ at[q] = "insert"
  BY DEF IInv, Shaped
<1>2. /\ columns \in Columns /\ columns.status \in {"keep", "pending"}
      /\ ~SentByStaff(q) /\ held[q].status = "resolved" => columns.status = "pending"
  BY TransitionColumns DEF IInv
<1>3. /\ unseen' = (unseen \/ ~SentByStaff(q)) /\ ticket' = ticket
      /\ IF columns = [assignee |-> "keep", status |-> "keep"] THEN End(q)
         ELSE Goto(q, "transition", columns)
  OBVIOUS
<1> HIDE DEF columns
<1>4. /\ user' \in [Admins -> Rights] /\ audit' \in [Admins -> Rights] /\ ticket' \in Ticket
      /\ unseen' \in BOOLEAN /\ crossed' \in BOOLEAN /\ overlap' \in BOOLEAN
      /\ evaded' \in BOOLEAN /\ deletion' = deletion
  BY <1>1, <1>3 DEF TypeOK, accounts, SentByStaff
<1>5. CASE columns = [assignee |-> "keep", status |-> "keep"]
  <2>1. /\ Shaped' /\ at'[q] = "idle"
        /\ \A p \in Requests \ {q} : /\ at'[p] = at[p] /\ held'[p] = held[p]
                                     /\ actor'[p] = actor[p] /\ target'[p] = target[p]
    BY <1>3, <1>4, <1>5, EndShaped DEF IInv
  <2>2. UsersInv'
    BY <1>1, <2>1, UsersUntouched DEF IInv, Updating
  <2>3. DeskInv'
    <3> SUFFICES ASSUME ~crossed PROVE ManagesAlone' /\ TicketStands'
      BY DEF DeskInv
    <3>1. ManagesAlone /\ TicketStands
      BY DEF IInv, DeskInv
    <3>2. ManagesAlone'
      BY <2>1, <3>1 DEF ManagesAlone, Managing, Writing
    <3>3. columns.status = "keep"
      BY <1>5
    <3>4. ticket.status = "resolved" => unseen' = unseen
      BY <1>1, <1>2, <1>3, <3>1, <3>3 DEF TicketStands, TypeOK
    <3>5. TicketStands'
      BY <1>1, <1>3, <2>1, <3>1, <3>4 DEF TicketStands
    <3> QED
      BY <3>2, <3>5
  <2> QED
    BY <2>1, <2>2, <2>3 DEF IInv
<1>6. CASE columns # [assignee |-> "keep", status |-> "keep"]
  <2>1. Goto(q, "transition", columns)
    BY <1>3, <1>6
  <2>2. /\ at'[q] = "transition" /\ held'[q] = columns
        /\ target' = [target EXCEPT ![q] = target[q]]
        /\ \A p \in Requests \ {q} : /\ at'[p] = at[p] /\ held'[p] = held[p]
                                     /\ actor'[p] = actor[p] /\ target'[p] = target[p]
    BY <1>1, <2>1 DEF TypeOK, Goto
  <2>3. Shaped'
    <3>1. Carries(q)'
      BY <1>2, <2>2 DEF Carries, Updating
    <3>2. "transition" \in Steps /\ target[q] \in Admins \cup {Customer}
      BY <1>1 DEF Steps, TypeOK
    <3> QED
      BY <1>2, <1>4, <2>1, <2>2, <3>1, <3>2, RequestShaped DEF IInv, Goto
  <2>4. UsersInv'
    BY <1>1, <2>2, UsersUntouched DEF IInv, Updating
  <2>5. DeskInv'
    <3> SUFFICES ASSUME ~crossed PROVE ManagesAlone' /\ TicketStands'
      BY DEF DeskInv
    <3>1. ManagesAlone /\ TicketStands
      BY DEF IInv, DeskInv
    <3>2. ManagesAlone'
      BY <1>1, <2>2, <3>1 DEF ManagesAlone, Managing, Writing
    <3>3. ticket.status = "resolved" /\ unseen' =>
              \E p \in Requests : at'[p] = "transition" /\ held'[p].status = "pending"
      <4> SUFFICES ASSUME ticket.status = "resolved", unseen'
                   PROVE  \E p \in Requests : at'[p] = "transition" /\ held'[p].status = "pending"
        OBVIOUS
      <4>1. CASE unseen
        BY <1>1, <2>2, <3>1, <4>1 DEF TicketStands
      <4>2. CASE ~SentByStaff(q)
        BY <1>1, <1>2, <2>2, <3>1, <4>2 DEF TicketStands
      <4> QED
        BY <1>3, <4>1, <4>2
    <3>4. TicketStands'
      BY <1>1, <1>2, <1>3, <2>2, <3>1, <3>3 DEF TicketStands
    <3> QED
      BY <3>2, <3>4
  <2> QED
    BY <2>3, <2>4, <2>5 DEF IInv
<1> QED
  BY <1>5, <1>6

\* The transition is saved: the status stays or becomes pending, where nothing is owed.
LEMMA SaveTransitionKeeps ==
    ASSUME IInv, NEW q \in Requests, SaveTransition(q)
    PROVE  IInv'
<1> USE DEF SaveTransition, mishaps
<1>1. TypeOK /\ at[q] = "transition" /\ held[q] \in Columns /\ End(q)
  BY DEF IInv, Shaped, Carries
<1>2. /\ ticket' \in Ticket /\ ticket'.closed_at = ticket.closed_at
      /\ ticket'.status = IF held[q].status = "keep" THEN ticket.status ELSE held[q].status
  BY <1>1 DEF TypeOK, Ticket, Columns
<1>3. /\ user' \in [Admins -> Rights] /\ audit' \in [Admins -> Rights]
      /\ unseen' = unseen /\ unseen' \in BOOLEAN /\ crossed' \in BOOLEAN /\ overlap' \in BOOLEAN
      /\ evaded' \in BOOLEAN /\ deletion' = deletion
  BY <1>1 DEF TypeOK, accounts
<1>4. /\ Shaped' /\ at'[q] = "idle"
      /\ \A p \in Requests \ {q} : /\ at'[p] = at[p] /\ held'[p] = held[p]
                                   /\ actor'[p] = actor[p] /\ target'[p] = target[p]
  BY <1>1, <1>2, <1>3, EndShaped DEF IInv
<1>5. UsersInv'
  BY <1>1, <1>4, UsersUntouched DEF IInv, Updating
<1>6. DeskInv'
  <2> SUFFICES ASSUME ~crossed PROVE ManagesAlone' /\ TicketStands'
    BY DEF DeskInv
  <2>1. ManagesAlone /\ TicketStands
    BY DEF IInv, DeskInv
  <2>2. ManagesAlone'
    BY <1>4, <2>1 DEF ManagesAlone, Managing, Writing
  <2>3. \A p \in Requests : at'[p] # "patch"
    BY <1>1, <1>4, <2>1 DEF ManagesAlone, Managing, Writing
  <2>4. held[q].status \in {"keep", "pending"}
    BY <1>1, <2>1 DEF TicketStands
  <2>5. ASSUME held[q].status = "keep" PROVE TicketStands'
    <3>1. ticket'.status = ticket.status
      BY <1>2, <2>5
    <3>2. \A p \in Requests : at[p] = "transition" /\ held[p].status = "pending" => p # q
      BY <2>5
    <3> QED
      BY <1>1, <1>2, <1>3, <1>4, <2>1, <2>3, <3>1, <3>2 DEF TicketStands
  <2>6. ASSUME held[q].status = "pending" PROVE TicketStands'
    <3>1. ticket'.status = "pending"
      BY <1>2, <2>6
    <3> QED
      BY <1>4, <2>1, <2>3, <3>1 DEF TicketStands
  <2> QED
    BY <2>2, <2>4, <2>5, <2>6
<1> QED
  BY <1>4, <1>5, <1>6 DEF IInv

\* A killed request is noted, and what it owed is no longer claimed.
LEMMA KillKeeps ==
    ASSUME IInv, NEW q \in Requests, Kill(q)
    PROVE  IInv'
<1> USE DEF Kill
<1>1. TypeOK /\ at[q] \in {"compare", "log", "date", "transition"} /\ End(q)
  BY DEF IInv, Shaped
<1>2. /\ user' \in [Admins -> Rights] /\ audit' \in [Admins -> Rights] /\ ticket' \in Ticket
      /\ unseen' \in BOOLEAN /\ crossed' \in BOOLEAN /\ overlap' \in BOOLEAN
      /\ evaded' \in BOOLEAN /\ deletion' = deletion
  BY <1>1 DEF TypeOK, accounts, desk
<1>3. /\ Shaped' /\ at'[q] = "idle"
      /\ \A p \in Requests \ {q} : /\ at'[p] = at[p] /\ held'[p] = held[p]
                                   /\ actor'[p] = actor[p] /\ target'[p] = target[p]
  BY <1>1, <1>2, EndShaped DEF IInv
<1>4. CASE at[q] \in Updating
  <2>1. overlap' /\ crossed' = crossed
    BY <1>1, <1>4 DEF TypeOK
  <2>2. UsersInv'
    BY <2>1 DEF UsersInv
  <2>3. DeskInv'
    BY <1>3, <1>4, <2>1, DeskUntouched DEF IInv, Managing, Writing, Updating
  <2> QED
    BY <1>3, <2>2, <2>3 DEF IInv
<1>5. CASE at[q] \notin Updating
  <2>1. crossed' /\ overlap' = overlap
    BY <1>1, <1>5 DEF TypeOK
  <2>2. DeskInv'
    BY <2>1 DEF DeskInv
  <2>3. UsersInv'
    BY <1>3, <1>5, <2>1, UsersUntouched DEF IInv, Updating
  <2> QED
    BY <1>3, <2>2, <2>3 DEF IInv
<1> QED
  BY <1>4, <1>5

-----------------------------------------------------------------------------
\* Every step keeps the invariant.
LEMMA NextKeeps == IInv /\ [Next]_vars => IInv'
<1> SUFFICES ASSUME IInv, [Next]_vars PROVE IInv'
  OBVIOUS
<1>1. CASE UNCHANGED vars
  BY <1>1 DEF vars, accounts, desk, request, IInv, Shaped, TypeOK, Carries, UsersInv, OneUpdate,
              UpdateStands, AuditBehind, AuditCaught, StaffStands, Same, Logged, Leavers, mishaps,
              Staff, Busy, DeskInv, ManagesAlone, TicketStands
<1>2. CASE Next
  BY <1>2, ReadUserKeeps, SaveUserKeeps, CompareUserKeeps, LogUserKeeps, ReadTicketKeeps,
     SaveTicketKeeps, DateClosingKeeps, ReadForMessageKeeps, InsertMessageKeeps,
     SaveTransitionKeeps, KillKeeps, AccountKeeps
  DEF Next
<1> QED
  BY <1>1, <1>2

\* The inductive invariant holds in every reachable state.
THEOREM InvariantHolds == Spec => []IInv
  BY InitHolds, NextKeeps, PTL DEF Spec

\* AdminUserDetailView, "sinon plus aucun staff dans l'app potentiellement": the guard keeps an
\* administrator, for any number of them, as long as nobody evades it with the text of a form,
\* nobody asks for the deletion of his account and no two updates overlap.
THEOREM StaffTheorem == Spec => []StaffRemains
<1>1. IInv => StaffRemains
  BY DEF IInv, UsersInv, StaffStands, StaffRemains
<1> QED
  BY <1>1, InvariantHolds, PTL

\* log_admin_action: between updates the audit log tells the flags of every user, but the
\* is_active of those who asked for the deletion of their account.
THEOREM AuditTheorem == Spec => []AuditTells
<1>1. IInv => AuditTells
  BY DEF IInv, Shaped, UsersInv, AuditCaught, Same, AuditTells
<1> QED
  BY <1>1, InvariantHolds, PTL

\* TicketMessageCreateView and TicketDetailView: a ticket is not left resolved under an answer
\* of its customer, nor closed without a date.
THEOREM TicketTheorem == Spec => []TicketFollows
<1>1. IInv => TicketFollows
  BY DEF IInv, DeskInv, TicketStands, TicketFollows, Busy, Managing, Writing
<1> QED
  BY <1>1, InvariantHolds, PTL

-----------------------------------------------------------------------------
(* Bootstrap: the lock. *)

Owning == {"run", "get", "delete"}

OwnersHold == \A r \in Replicas : phase[r] \in Owning /\ r \notin lapsed /\ ~torn => lock = r

LapsedLost == \A r \in lapsed : phase[r] \in {"run", "get"} /\ lock # r

BootInv == BootTypeOK /\ OwnersHold /\ LapsedLost

\* The steps of the command are a sequence of six names.
LEMMA StepsLength == Len(BootSteps) = 6
  BY DEF BootSteps

\* The initial state: nobody owns the lock and nobody has lost it.
LEMMA BootInitHolds == BootInit => BootInv
<1> SUFFICES ASSUME BootInit PROVE BootInv
  OBVIOUS
<1>1. BootTypeOK
  <2>1. done \subseteq {BootSteps[i] : i \in 1 .. Len(BootSteps)}
    BY DEF BootInit
  <2>2. lapsed \subseteq Replicas /\ torn \in BOOLEAN /\ killed \in BOOLEAN
    BY DEF BootInit
  <2>3. step \in [Replicas -> 0 .. Len(BootSteps)] /\ failures \in 0 .. MaxFailures
    BY BootstrapAssumption, StepsLength DEF BootInit
  <2> QED
    BY <2>1, <2>2, <2>3 DEF BootInit, BootTypeOK
<1>2. OwnersHold /\ LapsedLost
  BY DEF BootInit, OwnersHold, LapsedLost, Owning
<1> QED
  BY <1>1, <1>2 DEF BootInv

\* What a container does keeps every variable in its type.
LEMMA AdvanceTyped ==
    ASSUME BootTypeOK, NEW r \in Replicas, Advance(r)
    PROVE  BootTypeOK'
<1> USE BootstrapAssumption, StepsLength
<1>1. CASE Start(r)
  BY <1>1 DEF BootTypeOK, Start, Move, history
<1>2. CASE AddLock(r)
  BY <1>2 DEF BootTypeOK, AddLock, Move, history
<1>3. CASE WakeUp(r)
  BY <1>3 DEF BootTypeOK, WakeUp, Move, history
<1>4. CASE RunStep(r)
  <2> DEFINE name == BootSteps[step[r] + 1]
  <2>1. step[r] + 1 \in 1 .. Len(BootSteps)
    BY <1>4 DEF BootTypeOK, RunStep
  <2>2. done' \subseteq {BootSteps[i] : i \in 1 .. Len(BootSteps)}
    <3>1. done' \subseteq done \cup {name}
      BY <1>4 DEF RunStep
    <3> HIDE DEF name
    <3>2. name \in {BootSteps[i] : i \in 1 .. Len(BootSteps)}
      BY <2>1 DEF name
    <3> QED
      BY <3>1, <3>2 DEF BootTypeOK
  <2>3. step' \in [Replicas -> 0 .. Len(BootSteps)]
    BY <1>4, <2>1 DEF BootTypeOK, RunStep
  <2> QED
    BY <1>4, <2>2, <2>3 DEF BootTypeOK, RunStep, history
<1>5. CASE FailStep(r)
  BY <1>5 DEF BootTypeOK, FailStep, Move, history
<1>6. CASE EndSteps(r)
  BY <1>6 DEF BootTypeOK, EndSteps, Move, history
<1>7. CASE GetLock(r)
  <2>1. CASE lock = r
    BY <1>7, <2>1 DEF BootTypeOK, GetLock, Move
  <2>2. CASE lock # r
    <3>1. Leave(r) /\ UNCHANGED <<lock, done, failures, torn, killed>>
      BY <1>7, <2>2 DEF GetLock
    <3> QED
      BY <3>1 DEF BootTypeOK, Leave, Move
  <2> QED
    BY <2>1, <2>2
<1>8. CASE DeleteLock(r)
  BY <1>8 DEF BootTypeOK, DeleteLock, Leave, Move
<1> QED
  BY <1>1, <1>2, <1>3, <1>4, <1>5, <1>6, <1>7, <1>8 DEF Advance

\* A container that takes the lock finds it free, so no other one owns it; one that leaves
\* gives up what it owned.
LEMMA AdvanceKeepsOwners ==
    ASSUME BootInv, NEW r \in Replicas, Advance(r)
    PROVE  OwnersHold' /\ LapsedLost'
<1> USE BootstrapAssumption DEF BootInv, BootTypeOK, OwnersHold, LapsedLost, Owning
<1>1. CASE Start(r)
  BY <1>1 DEF Start, Move, history
<1>2. CASE AddLock(r)
  BY <1>2 DEF AddLock, Move, history
<1>3. CASE WakeUp(r)
  BY <1>3 DEF WakeUp, Move, history
<1>4. CASE RunStep(r)
  BY <1>4 DEF RunStep, history
<1>5. CASE FailStep(r)
  BY <1>5 DEF FailStep, Move, history
<1>6. CASE EndSteps(r)
  BY <1>6 DEF EndSteps, Move, history
<1>7. CASE GetLock(r)
  BY <1>7 DEF GetLock, Leave, Move
<1>8. CASE DeleteLock(r)
  BY <1>8 DEF DeleteLock, Leave, Move
<1> QED
  BY <1>1, <1>2, <1>3, <1>4, <1>5, <1>6, <1>7, <1>8 DEF Advance

\* A lock that runs out lapses under its owner, or is noted as torn; a killed container
\* owns nothing, whatever the lock says.
LEMMA MishapsKeep ==
    ASSUME BootInv, (\E r \in Replicas : KillContainer(r)) \/ Expire
    PROVE  BootInv'
<1>1. ASSUME NEW r \in Replicas, KillContainer(r) PROVE BootInv'
  <2>1. BootTypeOK'
    BY <1>1, StepsLength DEF BootInv, BootTypeOK, KillContainer, Move
  <2>2. OwnersHold' /\ LapsedLost'
    BY <1>1 DEF BootInv, BootTypeOK, OwnersHold, LapsedLost, Owning, KillContainer, Move
  <2> QED
    BY <2>1, <2>2 DEF BootInv
<1>2. CASE Expire
  <2>1. BootTypeOK'
    BY <1>2 DEF BootInv, BootTypeOK, Expire, containers
  <2>2. OwnersHold' /\ LapsedLost'
    BY <1>2, BootstrapAssumption
    DEF BootInv, BootTypeOK, OwnersHold, LapsedLost, Owning, Expire, containers
  <2> QED
    BY <2>1, <2>2 DEF BootInv
<1> QED
  BY <1>1, <1>2

\* Every step keeps the invariant.
LEMMA BootNextKeeps == BootInv /\ [BootNext]_bootVars => BootInv'
<1> SUFFICES ASSUME BootInv, [BootNext]_bootVars PROVE BootInv'
  OBVIOUS
<1>1. ASSUME NEW r \in Replicas, Advance(r) PROVE BootInv'
  BY <1>1, AdvanceTyped, AdvanceKeepsOwners DEF BootInv
<1>2. CASE (\E r \in Replicas : KillContainer(r)) \/ Expire
  BY <1>2, MishapsKeep
<1>3. CASE UNCHANGED bootVars
  BY <1>3 DEF BootInv, BootTypeOK, OwnersHold, LapsedLost, bootVars, containers, history
<1> QED
  BY <1>1, <1>2, <1>3 DEF BootNext

\* All who run and have not lost the lock are its one holder.
LEMMA InvariantSuffices == BootInv => OneAtATime
<1> SUFFICES ASSUME BootInv, ~torn
             PROVE  Cardinality({r \in Replicas : phase[r] = "run"} \ lapsed) <= 1
  BY DEF BootInv, OneAtATime
<1> DEFINE running == {r \in Replicas : phase[r] = "run"} \ lapsed
<1>1. running \subseteq {lock}
  BY DEF BootInv, OwnersHold, Owning
<1>2. running = {} \/ running = {lock}
  BY <1>1
<1>3. CASE running = {}
  BY <1>3, FS_EmptySet
<1>4. CASE running = {lock}
  <2>1. Cardinality({lock}) = 1
    BY FS_Singleton
  <2> QED
    BY <1>4, <2>1
<1> QED
  BY <1>2, <1>3, <1>4

\* bootstrap.py:13, "eviter que plusieurs containers paralleles ne tentent les migrations en
\* meme temps": for any number of containers, the steps run in one that still has its lock.
THEOREM OneAtATimeTheorem == BootSpec => []OneAtATime
<1>1. BootSpec => []BootInv
  BY BootInitHolds, BootNextKeeps, PTL DEF BootSpec
<1> QED
  BY <1>1, InvariantSuffices, PTL
=============================================================================

----------------------------- MODULE GdprProofs -----------------------------
(***************************************************************************)
(* The two machines of apps/gdpr, for any number of users, calls, export   *)
(* requests and retries.                                                   *)
(*                                                                         *)
(* The erasure: Settled, and that AccountDeletion implements               *)
(* AccountLifecycle.  An owner none of whose calls overlapped or was       *)
(* killed has one call at a time, and where that call is tells what it     *)
(* has written of the two tables.  The table holds one row per user, and   *)
(* a call that is about to discard a row holds one that stays cancelled.   *)
(*                                                                         *)
(* The export: OneActive, LinkLeadsToArchive and ReadyUntilExpired.  The   *)
(* argument follows one export whose message was handed out once: while    *)
(* its delivery is under way the row is active or gone, and only then can  *)
(* a status request or a cleanup come to hold the row, expired.  A POST    *)
(* that found no active row is the only one, so the row it inserts is the  *)
(* only active one.                                                        *)
(***************************************************************************)
EXTENDS AccountDeletion, DataExport, FiniteSetTheorems, TLAPS

-----------------------------------------------------------------------------
(* The erasure of an account. *)

\* The call is past the INSERT that would give a row its name.
PastCreate(c) == step[c] \in {"deactivate", "revoke", "over"}

\* One row per user, named after a call of that user.
TableInv ==
    /\ \A r \in requests : owner[r.id] = r.user /\ PastCreate(r.id)
    /\ \A r, s \in requests : r.user = s.user => r = s

\* A call holds a row of its owner, and discards only what was cancelled.
HeldInv ==
    \A c \in Calls :
        /\ owner[held[c]] = owner[c]
        /\ step[c] = "discard" =>
              PastCreate(held[c]) /\ \A r \in requests : r.id = held[c] => r.cancelled

Undisturbed(u) == u \in accounts /\ u \notin disturbed

\* An owner who is not disturbed has one call in flight.
AloneInv ==
    \A c, d \in Calls :
        /\ owner[c] = owner[d] /\ Undisturbed(owner[c])
        /\ step[c] \in InFlight /\ step[d] \in InFlight
        => c = d

\* The two tables agree about u, and so do the sessions unless an OAuth sign-in opened one.
Agrees(u) ==
    /\ Pending(u) <=> u \notin active
    /\ Pending(u) /\ u \in signedIn => u \in readmitted

\* What the calls of an owner who is not disturbed have written so far.
Progress(c) ==
    LET u == owner[c] IN
    /\ step[c] = "open" => Agrees(u) /\ (Pending(u) => u \in readmitted)
    /\ step[c] \in {"check", "discard", "create"} => ~Pending(u) /\ u \in active
    /\ step[c] = "deactivate" => Pending(u)
    /\ step[c] = "revoke" => Pending(u) /\ u \notin active
    /\ step[c] = "find" => Agrees(u)
    /\ step[c] = "mark" => /\ Pending(u) /\ Agrees(u)
                           /\ \E r \in RowsOf(u) : r.id = held[c]
    /\ step[c] = "reactivate" => ~Pending(u)

CallsInv == \A c \in Calls : Undisturbed(owner[c]) => Progress(c)

RestInv == \A u \in Users : Undisturbed(u) /\ ~Busy(u) => Agrees(u)

IInv == TypeOK /\ TableInv /\ HeldInv /\ AloneInv /\ CallsInv /\ RestInv

-----------------------------------------------------------------------------
(* What a step leaves alone. *)

\* Whether u is pending, is seen from its rows only.
LEMMA SameRows ==
    ASSUME NEW u, RowsOf(u)' = RowsOf(u)
    PROVE  Pending(u)' = Pending(u) /\ PendingAndDue(u)' = PendingAndDue(u)
  BY DEF Pending, PendingAndDue

\* A step that only concerns one user keeps what is known of the others.
LEMMA OthersKeep ==
    ASSUME CallsInv, RestInv, NEW u \in Users, owner \in [Calls -> Users],
           owner' = owner,
           \A v \in Users \ {u} :
               /\ Undisturbed(v)' => Undisturbed(v)
               /\ RowsOf(v)' = RowsOf(v)
               /\ v \in active' <=> v \in active
               /\ v \in signedIn' <=> v \in signedIn
               /\ v \in readmitted' <=> v \in readmitted,
           \A c \in Calls : owner[c] # u => step'[c] = step[c] /\ held'[c] = held[c]
    PROVE  /\ \A c \in Calls : owner[c] # u /\ Undisturbed(owner[c])' => Progress(c)'
           /\ \A v \in Users \ {u} : Undisturbed(v)' /\ ~Busy(v)' => Agrees(v)'
<1>1. ASSUME NEW c \in Calls, owner[c] # u, Undisturbed(owner[c])'
      PROVE  Progress(c)'
  <2>1. owner[c] \in Users \ {u}
    BY <1>1
  <2>2. Progress(c)
    BY <1>1, <2>1 DEF CallsInv
  <2>3. Pending(owner[c])' = Pending(owner[c])
    BY <2>1, SameRows
  <2> QED
    BY <1>1, <2>1, <2>2, <2>3 DEF Progress, Agrees
<1>2. ASSUME NEW v \in Users \ {u}, Undisturbed(v)', ~Busy(v)'
      PROVE  Agrees(v)'
  <2>1. ~Busy(v)
    BY <1>2 DEF Busy
  <2>2. Agrees(v)
    BY <1>2, <2>1 DEF RestInv
  <2>3. Pending(v)' = Pending(v)
    BY SameRows
  <2> QED
    BY <2>2, <2>3 DEF Agrees
<1> QED
  BY <1>1, <1>2

\* A call in flight takes its next step: its owner has no other.
LEMMA CallKeeps ==
    ASSUME IInv, TypeOK', TableInv', HeldInv', NEW c \in Calls, step[c] \in InFlight,
           UNCHANGED <<owner, accounts, disturbed>>,
           \A d \in Calls \ {c} : step'[d] = step[d] /\ held'[d] = held[d],
           \A v \in Users \ {owner[c]} :
               /\ RowsOf(v)' = RowsOf(v)
               /\ v \in active' <=> v \in active
               /\ v \in signedIn' <=> v \in signedIn
               /\ v \in readmitted' <=> v \in readmitted,
           Undisturbed(owner[c]) =>
               Progress(c)' /\ (step'[c] \notin InFlight => Agrees(owner[c])')
    PROVE  IInv'
<1> USE DEF IInv
<1>1. owner \in [Calls -> Users] /\ owner[c] \in Users
  BY DEF TypeOK
<1>2. \A v \in Users : Undisturbed(v)' = Undisturbed(v)
  BY DEF Undisturbed
<1>3. /\ \A d \in Calls : owner[d] # owner[c] /\ Undisturbed(owner[d])' => Progress(d)'
      /\ \A v \in Users \ {owner[c]} : Undisturbed(v)' /\ ~Busy(v)' => Agrees(v)'
  BY <1>1, <1>2, OthersKeep
<1>4. ASSUME Undisturbed(owner[c]), NEW d \in Calls \ {c}, owner[d] = owner[c]
      PROVE  step'[d] \notin InFlight
  BY <1>4 DEF AloneInv
<1>5. AloneInv'
  <2> SUFFICES ASSUME NEW d \in Calls, NEW e \in Calls, owner[d] = owner[e], d # e,
                      Undisturbed(owner[d])', step'[d] \in InFlight, step'[e] \in InFlight
               PROVE  FALSE
    BY DEF AloneInv
  <2>1. Undisturbed(owner[d])
    BY <1>1, <1>2
  <2>2. step[d] \in InFlight /\ step[e] \in InFlight
    BY <1>4
  <2> QED
    BY <2>1, <2>2 DEF AloneInv
<1>6. CallsInv'
  <2> SUFFICES ASSUME NEW d \in Calls, Undisturbed(owner[d])'
               PROVE  Progress(d)'
    BY DEF CallsInv
  <2>1. CASE d = c
    BY <1>1, <1>2, <2>1
  <2>2. CASE d # c /\ owner[d] = owner[c]
    <3>1. step'[d] \notin InFlight
      BY <1>1, <1>2, <1>4, <2>2
    <3> QED
      BY <3>1 DEF Progress, InFlight, DeleteSteps, CancelSteps
  <2> QED
    BY <1>3, <2>1, <2>2
<1>7. RestInv'
  <2> SUFFICES ASSUME NEW v \in Users, Undisturbed(v)', ~Busy(v)'
               PROVE  Agrees(v)'
    BY DEF RestInv
  <2>1. CASE v = owner[c]
    <3>1. step'[c] \notin InFlight
      BY <2>1 DEF Busy
    <3> QED
      BY <1>2, <2>1, <3>1
  <2> QED
    BY <1>3, <2>1
<1> QED
  BY <1>5, <1>6, <1>7

\* A call enters: if its owner is busy the two have met, and the owner is disturbed.
LEMMA EnterKeeps ==
    ASSUME IInv, NEW c \in Calls, NEW first \in InFlight, Enter(c, first),
           first \notin {"discard", "deactivate", "revoke"},
           readmitted' \in SUBSET Users,
           \A v \in Users \ {owner[c]} : v \in readmitted' <=> v \in readmitted,
           Undisturbed(owner[c]) /\ Agrees(owner[c]) => Progress(c)'
    PROVE  IInv'
<1> USE DEF IInv, Enter, Goto
<1>1. TypeOK'
  BY DEF TypeOK
<1>2. owner[c] \in Users /\ owner \in [Calls -> Users] /\ step \in [Calls -> InFlight \cup {"idle", "over"}]
  BY DEF TypeOK
<1>3. \A d \in Calls : PastCreate(d) => PastCreate(d)'
  BY <1>2 DEF PastCreate
<1>4. TableInv'
  <2>1. \A r \in requests : r.id \in Calls
    BY DEF TypeOK, Row
  <2> QED
    BY <1>3, <2>1 DEF TableInv
<1>5. HeldInv'
  <2>1. \A d \in Calls : held[d] \in Calls
    BY DEF TypeOK
  <2>2. \A d \in Calls : step'[d] = "discard" => step[d] = "discard"
    BY <1>2
  <2> QED
    BY <1>3, <2>1, <2>2 DEF HeldInv
<1>6. \A v \in Users : Undisturbed(v)' => Undisturbed(v)
  BY DEF Undisturbed
<1>7. Undisturbed(owner[c])' => ~Busy(owner[c]) /\ Undisturbed(owner[c])
  BY <1>2, <1>6 DEF Undisturbed
<1>8. AloneInv'
  <2> SUFFICES ASSUME NEW d \in Calls, NEW e \in Calls, owner[d] = owner[e], d # e,
                      Undisturbed(owner[d])', step'[d] \in InFlight, step'[e] \in InFlight
               PROVE  FALSE
    BY DEF AloneInv
  <2>1. CASE d = c \/ e = c
    BY <1>2, <1>7, <2>1 DEF Busy
  <2>2. CASE d # c /\ e # c
    BY <1>2, <1>6, <2>2 DEF AloneInv
  <2> QED
    BY <2>1, <2>2
<1>9. \A v \in Users : RowsOf(v)' = RowsOf(v)
  BY DEF RowsOf
<1>10. /\ \A d \in Calls : owner[d] # owner[c] /\ Undisturbed(owner[d])' => Progress(d)'
       /\ \A v \in Users \ {owner[c]} : Undisturbed(v)' /\ ~Busy(v)' => Agrees(v)'
  BY <1>2, <1>6, <1>9, OthersKeep
<1>11. CallsInv'
  <2> SUFFICES ASSUME NEW d \in Calls, Undisturbed(owner[d])'
               PROVE  Progress(d)'
    BY DEF CallsInv
  <2>1. CASE d = c
    BY <1>2, <1>7, <2>1 DEF RestInv
  <2>2. CASE d # c /\ owner[d] = owner[c]
    <3>1. step'[d] \notin InFlight
      BY <1>2, <1>7, <2>2 DEF Busy
    <3> QED
      BY <3>1 DEF Progress, InFlight, DeleteSteps, CancelSteps
  <2> QED
    BY <1>10, <2>1, <2>2
<1>12. RestInv'
  <2> SUFFICES ASSUME NEW v \in Users, Undisturbed(v)', ~Busy(v)'
               PROVE  Agrees(v)'
    BY DEF RestInv
  <2>1. v # owner[c]
    BY <1>2 DEF Busy
  <2> QED
    BY <1>10, <2>1
<1> QED
  BY <1>1, <1>4, <1>5, <1>8, <1>11, <1>12

-----------------------------------------------------------------------------
(* The steps of a call. *)

\* A call that leaves the table alone, and moves on without coming back to its INSERT.
LEMMA TableKept ==
    ASSUME IInv, NEW c \in Calls, UNCHANGED <<requests, owner>>,
           \A d \in Calls : PastCreate(d) => PastCreate(d)',
           \A d \in Calls : held'[d] = held[d] /\ (step'[d] = "discard" => step[d] = "discard")
    PROVE  /\ TableInv' /\ HeldInv'
           /\ \A v \in Users : RowsOf(v)' = RowsOf(v)
<1>1. \A r \in requests : r.id \in Calls
  BY DEF IInv, TypeOK, Row
<1>2. TableInv'
  BY <1>1 DEF IInv, TableInv
<1>3. HeldInv'
  <2>1. \A d \in Calls : held[d] \in Calls
    BY DEF IInv, TypeOK
  <2> QED
    BY <2>1 DEF IInv, HeldInv
<1>4. \A v \in Users : RowsOf(v)' = RowsOf(v)
  BY DEF RowsOf
<1> QED
  BY <1>2, <1>3, <1>4

LEMMA OpenSessionKeeps ==
    ASSUME IInv, NEW c \in Calls, OpenSession(c)
    PROVE  IInv'
<1> USE DEF OpenSession, Goto
<1>1. TypeOK /\ TypeOK'
  BY DEF IInv, TypeOK
<1>2. \A d \in Calls : PastCreate(d) => PastCreate(d)'
  BY <1>1 DEF TypeOK, PastCreate
<1>3. \A d \in Calls : step'[d] = "discard" => step[d] = "discard"
  BY <1>1 DEF TypeOK
<1>4. /\ TableInv' /\ HeldInv'
      /\ \A v \in Users : RowsOf(v)' = RowsOf(v)
  BY <1>2, <1>3, TableKept
<1>5. Undisturbed(owner[c]) => Progress(c)' /\ Agrees(owner[c])'
  <2>1. Pending(owner[c])' = Pending(owner[c])
    BY <1>1, <1>4, SameRows DEF TypeOK
  <2>2. Undisturbed(owner[c]) => /\ Agrees(owner[c])
                                 /\ Pending(owner[c]) => owner[c] \in readmitted
    BY DEF IInv, CallsInv, Progress
  <2>3. step'[c] = "over"
    BY <1>1 DEF TypeOK
  <2> QED
    BY <2>1, <2>2, <2>3 DEF Progress, Agrees
<1> QED
  BY <1>1, <1>4, <1>5, CallKeeps DEF InFlight, TypeOK

LEMMA CheckExistingKeeps ==
    ASSUME IInv, NEW c \in Calls, CheckExisting(c)
    PROVE  IInv'
<1> USE DEF CheckExisting, Goto
<1>1. TypeOK
  BY DEF IInv
<1>2. /\ step'[c] \in {"over", "discard", "create"}
      /\ \A d \in Calls \ {c} : step'[d] = step[d] /\ held'[d] = held[d]
  BY <1>1 DEF TypeOK
<1>3. \/ step'[c] # "discard" /\ held'[c] = held[c]
      \/ \E r \in RowsOf(owner[c]) : r.cancelled /\ held'[c] = r.id
  BY <1>1 DEF TypeOK
<1>4. TypeOK'
  BY <1>1 DEF TypeOK, RowsOf, Row, InFlight, DeleteSteps
<1>5. \A d \in Calls : PastCreate(d) => PastCreate(d)'
  BY <1>2 DEF PastCreate
<1>6. \A r \in requests : r.id \in Calls
  BY <1>1 DEF TypeOK, Row
<1>7. TableInv'
  BY <1>5, <1>6 DEF IInv, TableInv
<1>8. HeldInv'
  <2>1. CASE step'[c] # "discard" /\ held'[c] = held[c]
    <3>1. \A d \in Calls : held'[d] = held[d] /\ (step'[d] = "discard" => step[d] = "discard")
      BY <1>2, <2>1
    <3>2. \A d \in Calls : held[d] \in Calls
      BY <1>1 DEF TypeOK
    <3> QED
      BY <1>5, <3>1, <3>2 DEF IInv, HeldInv
  <2>2. CASE \E r \in RowsOf(owner[c]) : r.cancelled /\ held'[c] = r.id
    <3> PICK r \in RowsOf(owner[c]) : r.cancelled /\ held'[c] = r.id
      BY <2>2
    <3>1. r \in requests /\ r.user = owner[c] /\ r.id \in Calls
      BY <1>6 DEF RowsOf
    <3>2. owner[r.id] = owner[c] /\ PastCreate(r.id)'
      BY <1>5, <3>1 DEF IInv, TableInv
    <3>3. \A s \in requests : s.id = r.id => s = r
      BY <3>1 DEF IInv, TableInv
    <3>4. \A d \in Calls \ {c} : held'[d] = held[d] /\ step'[d] = step[d] /\ held[d] \in Calls
      BY <1>1, <1>2 DEF TypeOK
    <3> QED
      BY <1>5, <3>2, <3>3, <3>4 DEF IInv, HeldInv
  <2> QED
    BY <1>3, <2>1, <2>2
<1>9. \A v \in Users : RowsOf(v)' = RowsOf(v)
  BY DEF RowsOf
<1>10. Undisturbed(owner[c]) => Progress(c)' /\ Agrees(owner[c])'
  <2>1. Pending(owner[c])' = Pending(owner[c])
    BY <1>1, <1>9, SameRows DEF TypeOK
  <2>2. Undisturbed(owner[c]) => ~Pending(owner[c]) /\ owner[c] \in active
    BY DEF IInv, CallsInv, Progress
  <2> QED
    BY <1>2, <2>1, <2>2 DEF Progress, Agrees
<1> QED
  BY <1>2, <1>4, <1>7, <1>8, <1>9, <1>10, CallKeeps DEF InFlight, DeleteSteps

LEMMA DiscardCancelledKeeps ==
    ASSUME IInv, NEW c \in Calls, DiscardCancelled(c)
    PROVE  IInv'
<1> USE DEF DiscardCancelled, Goto
<1>1. TypeOK
  BY DEF IInv
<1>2. TypeOK'
  BY <1>1 DEF TypeOK, InFlight, DeleteSteps
<1>3. step'[c] = "create" /\ \A d \in Calls \ {c} : step'[d] = step[d]
  BY <1>1 DEF TypeOK
<1>4. \A d \in Calls : PastCreate(d) => PastCreate(d)'
  BY <1>3 DEF PastCreate
<1>5. requests' \subseteq requests /\ \A r \in requests : r.id \in Calls
  BY <1>1 DEF TypeOK, Row
<1>6. TableInv'
  BY <1>4, <1>5 DEF IInv, TableInv
<1>7. HeldInv'
  <2>1. \A d \in Calls : held[d] \in Calls /\ (step'[d] = "discard" => step[d] = "discard")
    BY <1>1, <1>3 DEF TypeOK
  <2> QED
    BY <1>4, <1>5, <2>1 DEF IInv, HeldInv
<1>8. \A v \in Users \ {owner[c]} : RowsOf(v)' = RowsOf(v)
  <2>1. \A r \in requests : r.id = held[c] => r.user = owner[c]
    BY DEF IInv, TableInv, HeldInv
  <2> QED
    BY <2>1 DEF RowsOf
<1>9. Undisturbed(owner[c]) => Progress(c)'
  <2>1. Pending(owner[c])' => Pending(owner[c])
    BY DEF Pending, RowsOf
  <2>2. Undisturbed(owner[c]) => ~Pending(owner[c]) /\ owner[c] \in active
    BY DEF IInv, CallsInv, Progress
  <2> QED
    BY <1>3, <2>1, <2>2 DEF Progress
<1> QED
  BY <1>2, <1>3, <1>6, <1>7, <1>8, <1>9, CallKeeps DEF InFlight, DeleteSteps

LEMMA CreateRequestKeeps ==
    ASSUME IInv, NEW c \in Calls, CreateRequest(c)
    PROVE  IInv'
<1> USE DEF CreateRequest, Goto
<1> DEFINE row == [id |-> c, user |-> owner[c], cancelled |-> FALSE, due |-> FALSE]
<1>1. TypeOK
  BY DEF IInv
<1>2. /\ step'[c] \in {"over", "deactivate"}
      /\ \A d \in Calls \ {c} : step'[d] = step[d]
  BY <1>1 DEF TypeOK
<1>3. row \in Row /\ row.id = c /\ row.user = owner[c] /\ ~row.cancelled
  BY <1>1 DEF TypeOK, Row
<1>4. \/ step'[c] = "over" /\ requests' = requests
      \/ /\ step'[c] = "deactivate" /\ requests' = requests \cup {row}
         /\ RowsOf(owner[c]) = {} /\ owner[c] \in accounts
  BY <1>1 DEF TypeOK
<1> HIDE DEF row
<1>5. TypeOK'
  <2>1. requests' \in SUBSET Row /\ \A r \in requests' : r.user \in accounts
    BY <1>1, <1>3, <1>4 DEF TypeOK
  <2>2. step' \in [Calls -> InFlight \cup {"idle", "over"}]
    BY <1>1 DEF TypeOK, InFlight, DeleteSteps
  <2> QED
    BY <1>1, <2>1, <2>2 DEF TypeOK
<1>6. \A d \in Calls : PastCreate(d) => PastCreate(d)'
  BY <1>2 DEF PastCreate
<1>7. PastCreate(c)' /\ ~PastCreate(c)
  BY <1>2 DEF PastCreate
<1>8. \A r \in requests : r.id \in Calls
  BY <1>1 DEF TypeOK, Row
<1>9. TableInv'
  <2>1. \A r \in requests' : owner[r.id] = r.user /\ PastCreate(r.id)'
    BY <1>3, <1>4, <1>6, <1>7, <1>8 DEF IInv, TableInv
  <2>2. \A r, s \in requests' : r.user = s.user => r = s
    BY <1>3, <1>4 DEF IInv, TableInv, RowsOf
  <2> QED
    BY <2>1, <2>2 DEF TableInv
<1>10. HeldInv'
  <2> SUFFICES ASSUME NEW d \in Calls
               PROVE  /\ owner[held[d]] = owner[d]
                      /\ step'[d] = "discard" =>
                            PastCreate(held[d])' /\ \A r \in requests' : r.id = held[d] => r.cancelled
    BY DEF HeldInv
  <2>1. held[d] \in Calls /\ (step'[d] = "discard" => step[d] = "discard")
    BY <1>1, <1>2 DEF TypeOK
  <2>2. step[d] = "discard" => held[d] # c
    BY <1>7 DEF IInv, HeldInv
  <2> QED
    BY <1>3, <1>4, <1>6, <2>1, <2>2 DEF IInv, HeldInv
<1>11. \A v \in Users \ {owner[c]} : RowsOf(v)' = RowsOf(v)
  BY <1>3, <1>4 DEF RowsOf
<1>12. Undisturbed(owner[c]) => Progress(c)' /\ (step'[c] \notin InFlight => Agrees(owner[c])')
  <2>1. CASE step'[c] = "over" /\ requests' = requests
    <3>1. Pending(owner[c])' = Pending(owner[c])
      BY <2>1 DEF Pending, RowsOf
    <3>2. Undisturbed(owner[c]) => ~Pending(owner[c]) /\ owner[c] \in active
      BY DEF IInv, CallsInv, Progress
    <3> QED
      BY <2>1, <3>1, <3>2 DEF Progress, Agrees
  <2>2. CASE step'[c] = "deactivate" /\ requests' = requests \cup {row}
    <3>1. Pending(owner[c])'
      BY <1>3, <2>2 DEF Pending, RowsOf
    <3> QED
      BY <2>2, <3>1 DEF Progress, InFlight, DeleteSteps
  <2> QED
    BY <1>4, <2>1, <2>2
<1> QED
  BY <1>2, <1>5, <1>9, <1>10, <1>11, <1>12, CallKeeps DEF InFlight, DeleteSteps

LEMMA DeactivateKeeps ==
    ASSUME IInv, NEW c \in Calls, Deactivate(c)
    PROVE  IInv'
<1> USE DEF Deactivate, Goto
<1>1. TypeOK
  BY DEF IInv
<1>2. /\ step'[c] = IF owner[c] \in accounts THEN "revoke" ELSE "over"
      /\ \A d \in Calls \ {c} : step'[d] = step[d]
  BY <1>1 DEF TypeOK
<1>3. TypeOK'
  BY <1>1 DEF TypeOK, InFlight, DeleteSteps
<1>4. \A d \in Calls : PastCreate(d) => PastCreate(d)'
  BY <1>2 DEF PastCreate
<1>5. /\ TableInv' /\ HeldInv'
      /\ \A v \in Users : RowsOf(v)' = RowsOf(v)
  BY <1>2, <1>4, TableKept
<1>6. Undisturbed(owner[c]) => Progress(c)' /\ step'[c] \in InFlight
  <2>1. Pending(owner[c])' = Pending(owner[c])
    BY <1>1, <1>5, SameRows DEF TypeOK
  <2>2. Undisturbed(owner[c]) => Pending(owner[c])
    BY DEF IInv, CallsInv, Progress
  <2> QED
    BY <1>2, <2>1, <2>2 DEF Progress, Undisturbed, InFlight, DeleteSteps
<1> QED
  BY <1>2, <1>3, <1>5, <1>6, CallKeeps DEF InFlight, DeleteSteps

LEMMA RevokeSessionsKeeps ==
    ASSUME IInv, NEW c \in Calls, RevokeSessions(c)
    PROVE  IInv'
<1> USE DEF RevokeSessions, Goto
<1>1. TypeOK /\ TypeOK'
  BY DEF IInv, TypeOK
<1>2. step'[c] = "over" /\ \A d \in Calls \ {c} : step'[d] = step[d]
  BY <1>1 DEF TypeOK
<1>3. \A d \in Calls : PastCreate(d) => PastCreate(d)'
  BY <1>2 DEF PastCreate
<1>4. /\ TableInv' /\ HeldInv'
      /\ \A v \in Users : RowsOf(v)' = RowsOf(v)
  BY <1>2, <1>3, TableKept
<1>5. Undisturbed(owner[c]) => Progress(c)' /\ Agrees(owner[c])'
  <2>1. Pending(owner[c])' = Pending(owner[c])
    BY <1>1, <1>4, SameRows DEF TypeOK
  <2>2. Undisturbed(owner[c]) => Pending(owner[c]) /\ owner[c] \notin active
    BY DEF IInv, CallsInv, Progress
  <2> QED
    BY <1>2, <2>1, <2>2 DEF Progress, Agrees
<1> QED
  BY <1>1, <1>2, <1>4, <1>5, CallKeeps DEF InFlight, DeleteSteps

LEMMA FindRequestKeeps ==
    ASSUME IInv, NEW c \in Calls, FindRequest(c)
    PROVE  IInv'
<1> USE DEF FindRequest, Goto
<1>1. TypeOK
  BY DEF IInv
<1>2. /\ step'[c] \in {"mark", "over"}
      /\ \A d \in Calls \ {c} : step'[d] = step[d] /\ held'[d] = held[d]
  BY <1>1 DEF TypeOK
<1>3. \/ step'[c] = "over" /\ held'[c] = held[c] /\ ~Pending(owner[c])
      \/ \E r \in RowsOf(owner[c]) : ~r.cancelled /\ held'[c] = r.id
  BY <1>1 DEF TypeOK
<1>4. TypeOK'
  BY <1>1 DEF TypeOK, RowsOf, Row, InFlight, CancelSteps
<1>5. \A d \in Calls : PastCreate(d) => PastCreate(d)'
  BY <1>2 DEF PastCreate
<1>6. \A r \in requests : r.id \in Calls
  BY <1>1 DEF TypeOK, Row
<1>7. TableInv'
  BY <1>5, <1>6 DEF IInv, TableInv
<1>8. HeldInv'
  <2>1. \A d \in Calls : owner[held'[d]] = owner[d]
    <3>1. \A r \in RowsOf(owner[c]) : owner[r.id] = owner[c]
      BY DEF IInv, TableInv, RowsOf
    <3> QED
      BY <1>2, <1>3, <3>1 DEF IInv, HeldInv
  <2>2. \A d \in Calls : step'[d] = "discard" => step[d] = "discard" /\ held'[d] = held[d]
    BY <1>2
  <2>3. \A d \in Calls : held[d] \in Calls
    BY <1>1 DEF TypeOK
  <2> QED
    BY <1>5, <2>1, <2>2, <2>3 DEF IInv, HeldInv
<1>9. \A v \in Users : RowsOf(v)' = RowsOf(v)
  BY DEF RowsOf
<1>10. Undisturbed(owner[c]) => Progress(c)' /\ Agrees(owner[c])'
  <2>1. Pending(owner[c])' = Pending(owner[c]) /\ RowsOf(owner[c])' = RowsOf(owner[c])
    BY <1>1, <1>9, SameRows DEF TypeOK
  <2>2. Undisturbed(owner[c]) => Agrees(owner[c])
    BY DEF IInv, CallsInv, Progress
  <2>3. Agrees(owner[c]) => Agrees(owner[c])'
    BY <2>1 DEF Agrees
  <2>4. step'[c] = "mark" => Pending(owner[c]) /\ \E r \in RowsOf(owner[c]) : r.id = held'[c]
    BY <1>3 DEF Pending
  <2> QED
    BY <1>2, <2>1, <2>2, <2>3, <2>4 DEF Progress
<1> QED
  BY <1>2, <1>4, <1>7, <1>8, <1>9, <1>10, CallKeeps DEF InFlight, CancelSteps

\* Rows keep their name, user and place when a column of theirs is written.
LEMMA MarkCancelledKeeps ==
    ASSUME IInv, NEW c \in Calls, MarkCancelled(c)
    PROVE  IInv'
<1> USE DEF MarkCancelled, Goto
<1> DEFINE marked(r) == IF r.id = held[c] THEN [r EXCEPT !.cancelled = TRUE] ELSE r
<1>1. TypeOK
  BY DEF IInv
<1>2. /\ step'[c] = IF \E r \in requests : r.id = held[c] THEN "reactivate" ELSE "over"
      /\ \A d \in Calls \ {c} : step'[d] = step[d]
  BY <1>1 DEF TypeOK
<1>3. \A r \in requests : /\ marked(r) \in Row
                          /\ marked(r).id = r.id /\ marked(r).user = r.user
                          /\ r.cancelled => marked(r).cancelled
                          /\ r.id = held[c] => marked(r).cancelled
                          /\ r.id # held[c] => marked(r) = r
  BY <1>1 DEF TypeOK, Row
<1>4. requests' = {marked(r) : r \in requests}
  OBVIOUS
<1> HIDE DEF marked
<1>5. TypeOK'
  <2>1. requests' \in SUBSET Row /\ \A r \in requests' : r.user \in accounts
    BY <1>1, <1>3, <1>4 DEF TypeOK
  <2>2. step' \in [Calls -> InFlight \cup {"idle", "over"}]
    BY <1>1 DEF TypeOK, InFlight, CancelSteps
  <2> QED
    BY <1>1, <2>1, <2>2 DEF TypeOK
<1>6. \A d \in Calls : PastCreate(d) => PastCreate(d)'
  BY <1>2 DEF PastCreate
<1>7. \A r \in requests : r.id \in Calls
  BY <1>1 DEF TypeOK, Row
<1>8. TableInv'
  BY <1>3, <1>4, <1>6, <1>7 DEF IInv, TableInv
<1>9. HeldInv'
  <2>1. \A d \in Calls : held[d] \in Calls /\ (step'[d] = "discard" => step[d] = "discard")
    BY <1>1, <1>2 DEF TypeOK
  <2> QED
    BY <1>3, <1>4, <1>6, <2>1 DEF IInv, HeldInv
<1>10. \A r \in requests : r.id = held[c] => r.user = owner[c]
  BY DEF IInv, TableInv, HeldInv
<1>11. \A v \in Users \ {owner[c]} : RowsOf(v)' = RowsOf(v)
  BY <1>3, <1>4, <1>10 DEF RowsOf
<1>12. Undisturbed(owner[c]) => Progress(c)' /\ step'[c] \in InFlight
  <2> SUFFICES ASSUME Undisturbed(owner[c])
               PROVE  Progress(c)' /\ step'[c] \in InFlight
    OBVIOUS
  <2>1. \E r \in RowsOf(owner[c]) : r.id = held[c]
    BY DEF IInv, CallsInv, Progress
  <2>2. step'[c] = "reactivate"
    BY <1>2, <2>1 DEF RowsOf
  <2>3. \A r \in RowsOf(owner[c]) : r.id = held[c]
    BY <2>1 DEF IInv, TableInv, RowsOf
  <2>4. ~Pending(owner[c])'
    BY <1>3, <1>4, <2>3 DEF Pending, RowsOf
  <2> QED
    BY <2>2, <2>4 DEF Progress, InFlight, CancelSteps
<1> QED
  BY <1>2, <1>5, <1>8, <1>9, <1>11, <1>12, CallKeeps DEF InFlight, CancelSteps

LEMMA ReactivateKeeps ==
    ASSUME IInv, NEW c \in Calls, Reactivate(c)
    PROVE  IInv'
<1> USE DEF Reactivate, Goto
<1>1. TypeOK
  BY DEF IInv
<1>2. step'[c] = "over" /\ \A d \in Calls \ {c} : step'[d] = step[d]
  BY <1>1 DEF TypeOK
<1>3. TypeOK'
  BY <1>1 DEF TypeOK
<1>4. \A d \in Calls : PastCreate(d) => PastCreate(d)'
  BY <1>2 DEF PastCreate
<1>5. /\ TableInv' /\ HeldInv'
      /\ \A v \in Users : RowsOf(v)' = RowsOf(v)
  BY <1>2, <1>4, TableKept
<1>6. Undisturbed(owner[c]) => Progress(c)' /\ Agrees(owner[c])'
  <2>1. Pending(owner[c])' = Pending(owner[c])
    BY <1>1, <1>5, SameRows DEF TypeOK
  <2>2. Undisturbed(owner[c]) => ~Pending(owner[c]) /\ owner[c] \in active'
    BY DEF IInv, CallsInv, Progress, Undisturbed
  <2> QED
    BY <1>2, <2>1, <2>2 DEF Progress, Agrees
<1> QED
  BY <1>2, <1>3, <1>5, <1>6, CallKeeps DEF InFlight, CancelSteps

-----------------------------------------------------------------------------
(* The first step of a call, and its end. *)

LEMMA LogInKeeps ==
    ASSUME IInv, NEW c \in Calls, LogIn(c)
    PROVE  IInv'
<1>1. /\ Enter(c, "open") /\ owner[c] \in active /\ owner[c] \in Users
      /\ readmitted' = readmitted /\ readmitted' \in SUBSET Users
  BY DEF LogIn, IInv, TypeOK
<1>2. step'[c] = "open"
  BY <1>1 DEF Enter, Goto, IInv, TypeOK
<1>3. Agrees(owner[c]) => Progress(c)'
  <2>1. Pending(owner[c])' = Pending(owner[c])
    BY <1>1 DEF Enter, Pending, RowsOf
  <2> QED
    BY <1>1, <1>2, <2>1 DEF Agrees, Progress, Enter
<1> QED
  BY <1>1, <1>3, EnterKeeps DEF InFlight

\* A pending account that an OAuth sign-in lets in is noted at once.
LEMMA SocialSignInKeeps ==
    ASSUME IInv, NEW c \in Calls, SocialSignIn(c)
    PROVE  IInv'
<1>1. /\ Enter(c, "open") /\ owner[c] \in Users
      /\ readmitted' = IF owner[c] \in active THEN readmitted ELSE readmitted \cup {owner[c]}
  BY DEF SocialSignIn, IInv, TypeOK
<1>2. /\ readmitted' \in SUBSET Users
      /\ \A v \in Users \ {owner[c]} : v \in readmitted' <=> v \in readmitted
      /\ owner[c] \in readmitted => owner[c] \in readmitted'
      /\ owner[c] \notin active => owner[c] \in readmitted'
  BY <1>1 DEF IInv, TypeOK
<1>3. step'[c] = "open"
  BY <1>1 DEF Enter, Goto, IInv, TypeOK
<1>4. Agrees(owner[c]) => Progress(c)'
  <2>1. Pending(owner[c])' = Pending(owner[c])
    BY <1>1 DEF Enter, Pending, RowsOf
  <2> QED
    BY <1>1, <1>2, <1>3, <2>1 DEF Agrees, Progress, Enter
<1> QED
  BY <1>1, <1>2, <1>4, EnterKeeps DEF InFlight

LEMMA AskDeletionKeeps ==
    ASSUME IInv, NEW c \in Calls, AskDeletion(c)
    PROVE  IInv'
<1>1. /\ Enter(c, "check") /\ owner[c] \in active /\ owner[c] \in Users
      /\ readmitted' = readmitted /\ readmitted' \in SUBSET Users
  BY DEF AskDeletion, IInv, TypeOK
<1>2. step'[c] = "check"
  BY <1>1 DEF Enter, Goto, IInv, TypeOK
<1>3. Agrees(owner[c]) => Progress(c)'
  <2>1. Pending(owner[c])' = Pending(owner[c])
    BY <1>1 DEF Enter, Pending, RowsOf
  <2> QED
    BY <1>1, <1>2, <2>1 DEF Agrees, Progress, Enter
<1> QED
  BY <1>1, <1>3, EnterKeeps DEF InFlight, DeleteSteps

LEMMA AskCancelKeeps ==
    ASSUME IInv, NEW c \in Calls, AskCancel(c)
    PROVE  IInv'
<1>1. /\ Enter(c, "find") /\ owner[c] \in Users
      /\ readmitted' = readmitted /\ readmitted' \in SUBSET Users
  BY DEF AskCancel, IInv, TypeOK
<1>2. step'[c] = "find"
  BY <1>1 DEF Enter, Goto, IInv, TypeOK
<1>3. Agrees(owner[c]) => Progress(c)'
  <2>1. Pending(owner[c])' = Pending(owner[c])
    BY <1>1 DEF Enter, Pending, RowsOf
  <2> QED
    BY <1>1, <1>2, <2>1 DEF Agrees, Progress, Enter
<1> QED
  BY <1>1, <1>3, EnterKeeps DEF InFlight, CancelSteps

\* A killed call disturbs its owner, and nothing is claimed of that owner any more.
LEMMA AbortCallKeeps ==
    ASSUME IInv, NEW c \in Calls, AbortCall(c)
    PROVE  IInv'
<1> USE DEF AbortCall, Goto
<1>1. TypeOK /\ TypeOK'
  BY DEF IInv, TypeOK
<1>2. step'[c] = "over" /\ \A d \in Calls \ {c} : step'[d] = step[d]
  BY <1>1 DEF TypeOK
<1>3. \A d \in Calls : PastCreate(d) => PastCreate(d)'
  BY <1>2 DEF PastCreate
<1>4. /\ TableInv' /\ HeldInv'
      /\ \A v \in Users : RowsOf(v)' = RowsOf(v)
  BY <1>2, <1>3, TableKept
<1>5. /\ \A v \in Users : Undisturbed(v)' => Undisturbed(v) /\ v # owner[c]
      /\ owner[c] \in Users /\ owner \in [Calls -> Users]
  BY <1>1 DEF Undisturbed, TypeOK
<1>6. /\ \A d \in Calls : owner[d] # owner[c] /\ Undisturbed(owner[d])' => Progress(d)'
      /\ \A v \in Users \ {owner[c]} : Undisturbed(v)' /\ ~Busy(v)' => Agrees(v)'
  BY <1>2, <1>4, <1>5, OthersKeep DEF IInv
<1>7. AloneInv'
  <2> SUFFICES ASSUME NEW d \in Calls, NEW e \in Calls, owner[d] = owner[e], d # e,
                      Undisturbed(owner[d])', step'[d] \in InFlight, step'[e] \in InFlight
               PROVE  FALSE
    BY DEF AloneInv
  <2>1. d # c /\ e # c
    BY <1>5
  <2> QED
    BY <1>2, <1>5, <2>1 DEF IInv, AloneInv
<1>8. CallsInv'
  BY <1>5, <1>6 DEF CallsInv
<1>9. RestInv'
  BY <1>5, <1>6 DEF RestInv
<1> QED
  BY <1>1, <1>4, <1>7, <1>8, <1>9 DEF IInv

-----------------------------------------------------------------------------
(* Time, and the sweep. *)

\* A step of no call: the rows that are left keep their name and what was cancelled, and
\* so does all that is known of the owners who are still there.
LEMMA WorldKeeps ==
    ASSUME IInv, TypeOK', TableInv', UNCHANGED <<step, owner, held>>,
           \A r \in requests' : \E s \in requests : s.id = r.id /\ s.cancelled = r.cancelled,
           \A v \in Users : Undisturbed(v)' =>
               /\ Undisturbed(v)
               /\ Pending(v)' = Pending(v)
               /\ v \in active' <=> v \in active
               /\ v \in signedIn' <=> v \in signedIn
               /\ v \in readmitted' <=> v \in readmitted
               /\ \A k \in Calls : (\E r \in RowsOf(v) : r.id = k) => \E r \in RowsOf(v)' : r.id = k
    PROVE  IInv'
<1>1. owner \in [Calls -> Users] /\ held \in [Calls -> Calls]
  BY DEF IInv, TypeOK
<1>2. HeldInv'
  BY DEF IInv, HeldInv, PastCreate
<1>3. AloneInv'
  BY <1>1 DEF IInv, AloneInv
<1>4. CallsInv'
  <2> SUFFICES ASSUME NEW c \in Calls, Undisturbed(owner[c])'
               PROVE  Progress(c)'
    BY DEF CallsInv
  <2>1. owner[c] \in Users /\ held[c] \in Calls
    BY <1>1
  <2>2. Progress(c)
    BY <2>1 DEF IInv, CallsInv
  <2>3. Pending(owner[c])' = Pending(owner[c])
    BY <2>1
  <2>4. Agrees(owner[c]) => Agrees(owner[c])'
    BY <2>1, <2>3 DEF Agrees
  <2>5. (\E r \in RowsOf(owner[c]) : r.id = held[c]) => \E r \in RowsOf(owner[c])' : r.id = held[c]
    BY <2>1
  <2> QED
    BY <2>1, <2>2, <2>3, <2>4, <2>5 DEF Progress
<1>5. RestInv'
  BY DEF IInv, RestInv, Busy, Agrees
<1> QED
  BY <1>2, <1>3, <1>4, <1>5 DEF IInv

\* A step that leaves the tables alone.
LEMMA TokenOrSweepKeeps ==
    ASSUME IInv, TypeOK',
           UNCHANGED <<accounts, active, signedIn, requests, step, owner, held, disturbed,
                       readmitted>>
    PROVE  IInv'
<1>1. TableInv'
  BY DEF IInv, TableInv, PastCreate
<1>2. \A v \in Users : RowsOf(v)' = RowsOf(v) /\ Undisturbed(v)' = Undisturbed(v)
  BY DEF RowsOf, Undisturbed
<1>3. \A v \in Users : Pending(v)' = Pending(v)
  BY <1>2, SameRows
<1> QED
  BY <1>1, <1>2, <1>3, WorldKeeps

LEMMA GraceEndsKeeps ==
    ASSUME IInv, NEW u \in Users, GraceEnds(u)
    PROVE  IInv'
<1> USE DEF GraceEnds
<1> DEFINE aged(r) == IF r.user = u THEN [r EXCEPT !.due = TRUE] ELSE r
<1>1. \A r \in requests : /\ aged(r) \in Row /\ aged(r).id = r.id
                          /\ aged(r).user = r.user /\ aged(r).cancelled = r.cancelled
  BY DEF IInv, TypeOK, Row
<1>2. requests' = {aged(r) : r \in requests}
  OBVIOUS
<1> HIDE DEF aged
<1>3. TypeOK'
  <2>1. requests' \in SUBSET Row /\ \A r \in requests' : r.user \in accounts
    BY <1>1, <1>2 DEF IInv, TypeOK
  <2> QED
    BY <2>1 DEF IInv, TypeOK
<1>4. TableInv'
  BY <1>1, <1>2 DEF IInv, TableInv, PastCreate
<1>5. \A r \in requests' : \E s \in requests : s.id = r.id /\ s.cancelled = r.cancelled
  BY <1>1, <1>2
<1>6. ASSUME NEW v \in Users
      PROVE  /\ Pending(v)' = Pending(v)
             /\ \A k \in Calls : (\E r \in RowsOf(v) : r.id = k) => \E r \in RowsOf(v)' : r.id = k
  BY <1>1, <1>2 DEF Pending, RowsOf
<1>7. \A v \in Users : Undisturbed(v)' = Undisturbed(v)
  BY DEF Undisturbed
<1> QED
  BY <1>3, <1>4, <1>5, <1>6, <1>7, WorldKeeps

\* The account goes with its rows: nothing is claimed of it any more.
LEMMA HardDeleteKeeps ==
    ASSUME IInv, NEW u \in Users, HardDelete(u)
    PROVE  IInv'
<1> USE DEF HardDelete
<1>1. TypeOK'
  BY DEF IInv, TypeOK, RowsOf
<1>2. requests' \subseteq requests
  OBVIOUS
<1>3. TableInv'
  BY <1>2 DEF IInv, TableInv, PastCreate
<1>4. \A v \in Users : Undisturbed(v)' => v # u /\ Undisturbed(v)
  BY DEF Undisturbed
<1>5. ASSUME NEW v \in Users, v # u
      PROVE  RowsOf(v)' = RowsOf(v)
  BY <1>5 DEF RowsOf
<1>6. ASSUME NEW v \in Users, v # u
      PROVE  Pending(v)' = Pending(v)
  BY <1>5, <1>6, SameRows
<1> QED
  BY <1>1, <1>2, <1>3, <1>4, <1>5, <1>6, WorldKeeps

-----------------------------------------------------------------------------
LEMMA InitHolds == Init => IInv
<1> SUFFICES ASSUME Init
             PROVE  IInv
  OBVIOUS
<1> USE DEF Init
<1>1. \A c \in Calls : step[c] = "idle" /\ step[c] \notin InFlight
  BY DEF InFlight, DeleteSteps, CancelSteps
<1>2. TypeOK
  BY DEF TypeOK
<1>3. TableInv /\ HeldInv /\ AloneInv
  BY <1>1 DEF TableInv, HeldInv, AloneInv
<1>4. \A u \in Users : ~Pending(u) /\ u \in active
  BY DEF Pending, RowsOf
<1>5. CallsInv
  BY <1>1 DEF CallsInv, Progress
<1>6. RestInv
  BY <1>4 DEF RestInv, Agrees
<1> QED
  BY <1>2, <1>3, <1>5, <1>6 DEF IInv

LEMMA NextKeeps == IInv /\ [Next]_vars => IInv'
<1> SUFFICES ASSUME IInv, [Next]_vars
             PROVE  IInv'
  OBVIOUS
<1>1. ASSUME NEW c \in Calls,
             \/ LogIn(c) \/ SocialSignIn(c) \/ OpenSession(c)
             \/ Delete(c) \/ Cancel(c) \/ AbortCall(c)
      PROVE  IInv'
  BY <1>1, LogInKeeps, SocialSignInKeeps, OpenSessionKeeps, AskDeletionKeeps, CheckExistingKeeps,
     DiscardCancelledKeeps, CreateRequestKeeps, DeactivateKeeps, RevokeSessionsKeeps,
     AskCancelKeeps, FindRequestKeeps, MarkCancelledKeeps, ReactivateKeeps, AbortCallKeeps
     DEF Delete, Cancel
<1>2. ASSUME NEW u \in Users, TokenExpires(u)
      PROVE  IInv'
  BY <1>2, TokenOrSweepKeeps DEF TokenExpires, IInv, TypeOK
<1>3. ASSUME NEW u \in Users, GraceEnds(u)
      PROVE  IInv'
  BY <1>3, GraceEndsKeeps
<1>4. ASSUME NEW u \in Users, HardDelete(u)
      PROVE  IInv'
  BY <1>4, HardDeleteKeeps
<1>5. ASSUME NEW u \in Users, HardDeleteFails(u)
      PROVE  IInv'
  BY <1>5, TokenOrSweepKeeps DEF HardDeleteFails, IInv, TypeOK
<1>6. CASE StartSweep
  BY <1>6, TokenOrSweepKeeps DEF StartSweep, IInv, TypeOK
<1>7. CASE KillSweep
  BY <1>7, TokenOrSweepKeeps DEF KillSweep, IInv, TypeOK
<1>8. CASE UNCHANGED vars
  BY <1>8, TokenOrSweepKeeps DEF vars, IInv, TypeOK
<1> QED
  BY <1>1, <1>2, <1>3, <1>4, <1>5, <1>6, <1>7, <1>8 DEF Next

\* Where a call of the two GDPR views is tells what it has written, as long as it is the only
\* one of its owner; the table keeps one request per account whatever the calls do.
THEOREM InvariantHolds == Spec => []IInv
  BY InitHolds, NextKeeps, PTL DEF Spec

\* RequestDeleteAccountView and CancelDeleteAccountView write the account, its sessions
\* and its request one statement at a time; whenever the calls of an owner are over, and
\* none was killed or overlapped another, the three agree.
THEOREM SettledTheorem == Spec => []Settled
<1>1. IInv => Settled
  BY DEF IInv, Settled, RestInv, Undisturbed, Agrees, TypeOK
<1> QED
  BY <1>1, InvariantHolds, PTL

-----------------------------------------------------------------------------
(* The erasure follows AccountLifecycle. *)

StageOf == [u \in Users |-> Stage(u)]

LEMMA StagesKept ==
    ASSUME UNCHANGED <<accounts, batch>>,
           \A v \in Users : Pending(v)' = Pending(v) /\ PendingAndDue(v)' = PendingAndDue(v)
    PROVE  UNCHANGED StageOf
<1>1. \A v \in Users : Stage(v)' = Stage(v)
  BY DEF Stage
<1> QED
  BY <1>1 DEF StageOf

\* A step that writes neither the accounts, nor the requests, nor the list of the sweep.
LEMMA RowsUntouched ==
    ASSUME UNCHANGED <<accounts, batch, requests>>
    PROVE  UNCHANGED StageOf
<1>1. \A v \in Users : RowsOf(v)' = RowsOf(v)
  BY DEF RowsOf
<1> QED
  BY <1>1, SameRows, StagesKept

\* One account moves.
LEMMA OneStage ==
    ASSUME NEW u \in Users, NEW from, NEW to, Stage(u) \in from, Stage(u)' \in to,
           \A v \in Users \ {u} : Stage(v)' = Stage(v)
    PROVE  Lifecycle!Move(u, from, to)
<1>1. StageOf' = [StageOf EXCEPT ![u] = Stage(u)']
  BY DEF StageOf
<1> QED
  BY <1>1 DEF Lifecycle!Move, StageOf

\* The replaced row was cancelled before.
LEMMA DiscardStep ==
    ASSUME IInv, NEW c \in Calls, DiscardCancelled(c)
    PROVE  UNCHANGED StageOf
<1>1. \A r \in requests : r.id = held[c] => r.cancelled
  BY DEF IInv, HeldInv, DiscardCancelled
<1>2. requests' = {r \in requests : r.id # held[c]} /\ UNCHANGED <<accounts, batch>>
  BY DEF DiscardCancelled
<1>3. \A v \in Users : Pending(v)' = Pending(v) /\ PendingAndDue(v)' = PendingAndDue(v)
  BY <1>1, <1>2 DEF Pending, PendingAndDue, RowsOf
<1> QED
  BY <1>2, <1>3, StagesKept

\* A new request asks for the erasure, unless a sweep has the account already.
LEMMA CreateStep ==
    ASSUME IInv, NEW c \in Calls, NEW u \in Users, u = owner[c], CreateRequest(c)
    PROVE  Lifecycle!Ask(u) \/ UNCHANGED StageOf
<1> DEFINE row == [id |-> c, user |-> owner[c], cancelled |-> FALSE, due |-> FALSE]
<1>1. UNCHANGED <<accounts, batch>>
  BY DEF CreateRequest
<1>2. row.user = u /\ ~row.cancelled /\ ~row.due
  OBVIOUS
<1>3. \/ requests' = requests
      \/ /\ RowsOf(u) = {} /\ u \in accounts
         /\ requests' = requests \cup {row}
  BY DEF CreateRequest
<1> HIDE DEF row
<1>4. CASE requests' = requests
  BY <1>1, <1>4, RowsUntouched
<1>5. CASE /\ RowsOf(u) = {} /\ u \in accounts
           /\ requests' = requests \cup {row}
  <2>1. \A v \in Users \ {u} : RowsOf(v)' = RowsOf(v)
    BY <1>2, <1>5 DEF RowsOf
  <2>2. \A v \in Users \ {u} : Stage(v)' = Stage(v)
    BY <1>1, <2>1, SameRows DEF Stage
  <2>3. ~Pending(u) /\ ~PendingAndDue(u)
    BY <1>5 DEF Pending, PendingAndDue
  <2>4. RowsOf(u)' = {row}
    BY <1>2, <1>5 DEF RowsOf
  <2>5. Pending(u)' /\ ~PendingAndDue(u)'
    BY <1>2, <2>4 DEF Pending, PendingAndDue
  <2>6. CASE u \in batch
    <3>1. \A v \in Users : Stage(v)' = Stage(v)
      BY <1>1, <2>2, <2>6 DEF Stage
    <3> QED
      BY <3>1 DEF StageOf
  <2>7. CASE u \notin batch
    <3>1. Stage(u) = "kept" /\ Stage(u)' = "leaving"
      BY <1>1, <1>5, <2>3, <2>5, <2>7 DEF Stage
    <3> QED
      BY <1>1, <2>2, <3>1, OneStage DEF Lifecycle!Ask
  <2> QED
    BY <2>6, <2>7
<1> QED
  BY <1>3, <1>4, <1>5

\* Cancelling takes the account back, unless a sweep has it already.
LEMMA CancelStep ==
    ASSUME IInv, NEW c \in Calls, NEW u \in Users, u = owner[c], MarkCancelled(c)
    PROVE  Lifecycle!Cancel(u) \/ UNCHANGED StageOf
<1> DEFINE marked(r) == IF r.id = held[c] THEN [r EXCEPT !.cancelled = TRUE] ELSE r
<1>1. UNCHANGED <<accounts, batch>>
  BY DEF MarkCancelled
<1>2. \A r \in requests : /\ marked(r).user = r.user
                          /\ r.id = held[c] => marked(r).cancelled
                          /\ r.id # held[c] => marked(r) = r
  BY DEF IInv, TypeOK, Row
<1>3. requests' = {marked(r) : r \in requests}
  BY DEF MarkCancelled
<1> HIDE DEF marked
<1>4. \A r \in requests : r.id = held[c] => r.user = u
  BY DEF IInv, TableInv, HeldInv
<1>5. \A v \in Users \ {u} : RowsOf(v)' = RowsOf(v)
  BY <1>2, <1>3, <1>4 DEF RowsOf
<1>6. \A v \in Users \ {u} : Stage(v)' = Stage(v)
  BY <1>1, <1>5, SameRows DEF Stage
<1>7. CASE Stage(u)' = Stage(u)
  BY <1>6, <1>7 DEF StageOf
<1>8. CASE Stage(u)' # Stage(u)
  <2>1. \E r \in requests : r.id = held[c]
    <3> SUFFICES ASSUME \A r \in requests : r.id # held[c]
                 PROVE  FALSE
      OBVIOUS
    <3>1. RowsOf(u)' = RowsOf(u)
      BY <1>2, <1>3 DEF RowsOf
    <3> QED
      BY <1>1, <1>8, <3>1, SameRows DEF Stage
  <2>2. \A r \in RowsOf(u) : r.id = held[c]
    BY <1>4, <2>1 DEF RowsOf, IInv, TableInv
  <2>3. ~Pending(u)' /\ ~PendingAndDue(u)'
    BY <1>2, <1>3, <2>2 DEF Pending, PendingAndDue, RowsOf
  <2>4. u \in accounts
    BY <1>4, <2>1 DEF IInv, TypeOK
  <2>5. Stage(u) \in {"leaving", "due"} /\ Stage(u)' = "kept"
    BY <1>1, <1>8, <2>3, <2>4 DEF Stage
  <2> QED
    BY <1>1, <1>6, <2>5, OneStage DEF Lifecycle!Cancel
<1> QED
  BY <1>7, <1>8

LEMMA ElapseStep ==
    ASSUME IInv, NEW u \in Users, GraceEnds(u)
    PROVE  Lifecycle!Elapse(u) \/ UNCHANGED StageOf
<1> DEFINE aged(r) == IF r.user = u THEN [r EXCEPT !.due = TRUE] ELSE r
<1>1. \A r \in requests : /\ aged(r).user = r.user /\ aged(r).cancelled = r.cancelled
                          /\ IF r.user = u THEN aged(r).due ELSE aged(r) = r
  BY DEF IInv, TypeOK, Row
<1>2. requests' = {aged(r) : r \in requests} /\ UNCHANGED <<accounts, batch>>
  BY DEF GraceEnds
<1> HIDE DEF aged
<1>3. \A v \in Users \ {u} : RowsOf(v)' = RowsOf(v)
  BY <1>1, <1>2 DEF RowsOf
<1>4. \A v \in Users \ {u} : Stage(v)' = Stage(v)
  BY <1>2, <1>3, SameRows DEF Stage
<1>5. Pending(u)' = Pending(u) /\ PendingAndDue(u)' = Pending(u)
  BY <1>1, <1>2 DEF Pending, PendingAndDue, RowsOf
<1>6. CASE Stage(u)' = Stage(u)
  BY <1>4, <1>6 DEF StageOf
<1>7. CASE Stage(u)' # Stage(u)
  <2>1. PendingAndDue(u) => Pending(u)
    BY DEF Pending, PendingAndDue
  <2>2. Stage(u) = "leaving" /\ Stage(u)' = "due"
    BY <1>2, <1>5, <1>7, <2>1 DEF Stage
  <2> QED
    BY <1>4, <2>2, OneStage DEF Lifecycle!Elapse
<1> QED
  BY <1>6, <1>7

LEMMA SweepStep ==
    ASSUME IInv, StartSweep
    PROVE  Lifecycle!Sweep
<1>1. \A u \in Users : RowsOf(u)' = RowsOf(u)
  BY DEF StartSweep, RowsOf
<1>2. \A u \in Users : Pending(u)' = Pending(u) /\ PendingAndDue(u)' = PendingAndDue(u)
  BY <1>1, SameRows
<1>3. ASSUME NEW u \in Users
      PROVE  Stage(u)' = IF Stage(u) = "due" THEN "condemned" ELSE Stage(u)
  BY <1>2 DEF StartSweep, Stage
<1> QED
  BY <1>3 DEF Lifecycle!Sweep, StageOf

LEMMA PurgeStep ==
    ASSUME IInv, NEW u \in Users, HardDelete(u)
    PROVE  Lifecycle!Purge(u)
<1>1. Stage(u) = "condemned" /\ Stage(u)' = "gone"
  BY DEF HardDelete, Stage, IInv, TypeOK
<1>2. \A v \in Users \ {u} : RowsOf(v)' = RowsOf(v)
  BY DEF HardDelete, RowsOf
<1>3. \A v \in Users \ {u} : Pending(v)' = Pending(v) /\ PendingAndDue(v)' = PendingAndDue(v)
  BY <1>2, SameRows
<1>4. \A v \in Users \ {u} : Stage(v)' = Stage(v)
  BY <1>3 DEF HardDelete, Stage
<1> QED
  BY <1>1, <1>4, OneStage DEF Lifecycle!Purge

\* The sweep gives up on S, whose accounts are still there.
LEMMA SpareStep ==
    ASSUME IInv, NEW S \in SUBSET batch, batch' = batch \ S, UNCHANGED <<accounts, requests>>
    PROVE  Lifecycle!Spare(S)
<1>1. batch \subseteq accounts /\ accounts \subseteq Users
  BY DEF IInv, TypeOK
<1>2. \A u \in Users : RowsOf(u)' = RowsOf(u)
  BY DEF RowsOf
<1>3. \A u \in Users : Pending(u)' = Pending(u) /\ PendingAndDue(u)' = PendingAndDue(u)
  BY <1>2, SameRows
<1>4. ASSUME NEW u \in Users
      PROVE  IF u \in S THEN Stage(u) = "condemned" /\ Stage(u)' \in {"kept", "leaving", "due"}
                        ELSE Stage(u)' = Stage(u)
  BY <1>1, <1>3 DEF Stage
<1>5. \A u \in Users : Stage(u)' \in Lifecycle!Stages
  BY DEF Stage, Lifecycle!Stages
<1>6. StageOf' = [u \in Users |-> Stage(u)']
  BY DEF StageOf
<1> QED
  BY <1>1, <1>4, <1>5, <1>6 DEF Lifecycle!Spare, StageOf

\* A step of a call asks for the erasure, cancels it, or leaves every stage alone.
LEMMA CallStep ==
    ASSUME IInv, NEW c \in Calls,
           \/ LogIn(c) \/ SocialSignIn(c) \/ OpenSession(c)
           \/ Delete(c) \/ Cancel(c) \/ AbortCall(c)
    PROVE  Lifecycle!Next \/ UNCHANGED StageOf
<1>1. owner[c] \in Users
  BY DEF IInv, TypeOK
<1>2. CASE CreateRequest(c)
  BY <1>1, <1>2, CreateStep DEF Lifecycle!Next
<1>3. CASE MarkCancelled(c)
  BY <1>1, <1>3, CancelStep DEF Lifecycle!Next
<1>4. CASE DiscardCancelled(c)
  BY <1>4, DiscardStep
<1>5. CASE ~CreateRequest(c) /\ ~MarkCancelled(c) /\ ~DiscardCancelled(c)
  <2>1. UNCHANGED <<accounts, batch, requests>>
    BY <1>5 DEF Delete, Cancel, LogIn, SocialSignIn, OpenSession, AskDeletion, CheckExisting, Deactivate,
                RevokeSessions, AskCancel, FindRequest, Reactivate, AbortCall, Enter
  <2> QED
    BY <2>1, RowsUntouched
<1> QED
  BY <1>2, <1>3, <1>4, <1>5

\* Whatever calls are killed, replaced or late, and wherever the sweep fails, an account is
\* gone only after it was asked for, was due and was listed by a sweep.
THEOREM LifecycleTheorem == Spec => ErasureFollowsLifecycle
<1>1. Init => Lifecycle!Init
  BY DEF Init, Lifecycle!Init, Stage, Pending, PendingAndDue, RowsOf
<1>2. IInv /\ [Next]_vars => [Lifecycle!Next]_StageOf
  <2> SUFFICES ASSUME IInv, [Next]_vars
               PROVE  Lifecycle!Next \/ UNCHANGED StageOf
    OBVIOUS
  <2>1. ASSUME NEW c \in Calls,
               \/ LogIn(c) \/ SocialSignIn(c) \/ OpenSession(c)
               \/ Delete(c) \/ Cancel(c) \/ AbortCall(c)
        PROVE  Lifecycle!Next \/ UNCHANGED StageOf
    BY <2>1, CallStep
  <2>2. ASSUME NEW u \in Users, TokenExpires(u)
        PROVE  UNCHANGED StageOf
    BY <2>2, RowsUntouched DEF TokenExpires
  <2>3. ASSUME NEW u \in Users, GraceEnds(u)
        PROVE  Lifecycle!Next \/ UNCHANGED StageOf
    BY <2>3, ElapseStep DEF Lifecycle!Next
  <2>4. ASSUME NEW u \in Users, HardDelete(u)
        PROVE  Lifecycle!Next
    BY <2>4, PurgeStep DEF Lifecycle!Next
  <2>5. ASSUME NEW u \in Users, HardDeleteFails(u)
        PROVE  Lifecycle!Next
    <3>1. {u} \in SUBSET batch /\ {u} \in SUBSET Users
      BY <2>5 DEF HardDeleteFails
    <3>2. Lifecycle!Spare({u})
      BY <2>5, <3>1, SpareStep DEF HardDeleteFails
    <3> QED
      BY <3>1, <3>2 DEF Lifecycle!Next
  <2>6. CASE StartSweep
    BY <2>6, SweepStep DEF Lifecycle!Next
  <2>7. CASE KillSweep
    <3>1. batch \in SUBSET batch /\ batch \in SUBSET Users /\ batch' = batch \ batch
      BY <2>7 DEF KillSweep, IInv, TypeOK
    <3>2. Lifecycle!Spare(batch)
      BY <2>7, <3>1, SpareStep DEF KillSweep
    <3> QED
      BY <3>1, <3>2 DEF Lifecycle!Next
  <2>8. CASE UNCHANGED vars
    BY <2>8, RowsUntouched DEF vars
  <2> QED
    BY <2>1, <2>2, <2>3, <2>4, <2>5, <2>6, <2>7, <2>8 DEF Next
<1> QED
  BY <1>1, <1>2, InvariantHolds, PTL DEF Spec, ErasureFollowsLifecycle, Lifecycle!Spec, StageOf

-----------------------------------------------------------------------------
(* The personal data export. *)

UnderWay(e) == task[<<e, 0>>] \in Running \cup {"queued"}

\* The row is deleted, or its 24 hours were over after its delivery was done.
Spent(e) == status[e] = "deleted" \/ (status[e] \in {"ready", "expired"} /\ e \in past)

\* The course of an export whose message was handed out once: its POST, its delivery, and
\* the status requests and cleanups that hold its row.
Course(e) ==
    /\ post[e] \in {"none", "create"} => status[e] = "unborn"
    /\ post[e] = "enqueue" => status[e] \in {"queued", "deleted"}
    /\ post[e] # "over" => task[<<e, 0>>] = "none"
    /\ task[<<e, 0>>] = "none" => status[e] \in {"unborn", "queued", "deleted"}
    /\ UnderWay(e) => status[e] \in Active \cup {"deleted"}
    /\ task[<<e, 0>>] = "publish" => status[e] = "deleted" \/ <<e, "key">> \in archives
    /\ e \in viewing \/ listed[e] # "no" => Spent(e)
    /\ status[e] = "ready" /\ e \notin past => e \in keyed /\ <<e, "key">> \in archives

SoloInv == \A e \in Exports : Solo(e) => Course(e)

\* One POST in flight.
OnePost ==
    ~crowded => \A e, f \in Exports : post[e] \in PostSteps /\ post[f] \in PostSteps => e = f

AllSolo == \A e \in Exports : Solo(e)

\* One active row, and none while a POST is about to insert another.
OneRow ==
    ~crowded /\ AllSolo =>
        /\ \A e, f \in Exports : status[e] \in Active /\ status[f] \in Active => e = f
        /\ \A e, f \in Exports : post[e] = "create" => status[f] \notin Active

ExportInv == ExportTypeOK /\ SoloInv /\ OnePost /\ OneRow

-----------------------------------------------------------------------------
LEMMA DeliveryOf ==
    ASSUME NEW d \in Deliveries
    PROVE  d[1] \in Exports
<1>1. CASE d \in Exports \X {0}
  BY <1>1
<1>2. CASE d \in Redelivered \X {1}
  BY <1>2, ExportAssumption
<1> QED
  BY <1>1, <1>2 DEF Deliveries

LEMMA ExportTypeKept == ExportTypeOK /\ [ExportNext]_exportVars => ExportTypeOK'
<1> SUFFICES ASSUME ExportTypeOK, [ExportNext]_exportVars
             PROVE  ExportTypeOK'
  OBVIOUS
<1>1. ASSUME NEW e \in Exports, PostStep(e)
      PROVE  ExportTypeOK'
  BY <1>1 DEF ExportTypeOK, PostStep, Ask, CreateRow, Enqueue, AbortPost, RowStatus, Active, PostSteps
<1>2. ASSUME NEW e \in Exports, Expiry(e)
      PROVE  ExportTypeOK'
  BY <1>2 DEF ExportTypeOK, Expiry, TimePasses, ViewExpired, SaveViewed, DeleteArchive, SaveCollected,
              RowStatus
<1>3. ASSUME NEW e \in Redelivered, Redeliver(e)
      PROVE  ExportTypeOK'
  <2>1. <<e, 0>> \in Deliveries /\ <<e, 1>> \in Deliveries
    BY ExportAssumption DEF Deliveries
  <2> QED
    BY <1>3, <2>1 DEF ExportTypeOK, Redeliver
<1>4. ASSUME NEW d \in Deliveries, Execute(d) \/ Lose(d)
      PROVE  ExportTypeOK'
  <2>1. d[1] \in Exports /\ 0 \in 0 .. MaxRetries
    <3>1. 0 \in 0 .. MaxRetries
      BY ExportAssumption
    <3> QED
      BY <3>1, DeliveryOf
  <2>2. UNCHANGED <<latest, post, viewing, listed, erased, crowded>>
    BY <1>4 DEF Execute, StartBuild, Upload, Publish, BuildError, MarkFailed, Lose
  <2>3. status' \in [Exports -> RowStatus \cup {"unborn", "deleted"}]
    BY <1>4, <2>1 DEF ExportTypeOK, Execute, StartBuild, Upload, Publish, BuildError, MarkFailed, Lose,
                      RowStatus, Active
  <2>4. past' \in SUBSET Exports /\ keyed' \in SUBSET Exports
    BY <1>4, <2>1 DEF ExportTypeOK, Execute, StartBuild, Upload, Publish, BuildError, MarkFailed, Lose
  <2>5. archives' \in SUBSET (Exports \X {"key", "altered"})
    BY <1>4, <2>1 DEF ExportTypeOK, Execute, StartBuild, Upload, Publish, BuildError, MarkFailed, Lose,
                      StoredName
  <2>6. task' \in [Deliveries -> Running \cup {"none", "queued", "over", "lost"}]
    BY <1>4 DEF ExportTypeOK, Execute, StartBuild, Upload, Publish, BuildError, MarkFailed, Lose,
                Finish, TurnTo, Running
  <2>7. retries' \in [Deliveries -> 0 .. MaxRetries]
    <3>1. retries[d] < MaxRetries => retries[d] + 1 \in 0 .. MaxRetries
      BY ExportAssumption DEF ExportTypeOK
    <3> QED
      BY <1>4, <2>1, <3>1 DEF ExportTypeOK, Execute, StartBuild, Upload, Publish, BuildError,
                              MarkFailed, Lose, Finish, TurnTo
  <2> QED
    BY <2>2, <2>3, <2>4, <2>5, <2>6, <2>7 DEF ExportTypeOK
<1>5. CASE StartCleanup
  BY <1>5 DEF ExportTypeOK, StartCleanup
<1>6. CASE KillCleanup
  BY <1>6 DEF ExportTypeOK, KillCleanup
<1>7. CASE EraseAccount
  BY <1>7 DEF ExportTypeOK, EraseAccount
<1>8. CASE UNCHANGED exportVars
  BY <1>8 DEF ExportTypeOK, exportVars
<1> QED
  BY <1>1, <1>2, <1>3, <1>4, <1>5, <1>6, <1>7, <1>8 DEF ExportNext

\* A message that was handed out twice stays so.
LEMMA SoloStays ==
    ASSUME ExportTypeOK, [ExportNext]_exportVars, NEW e \in Exports, Solo(e)'
    PROVE  Solo(e)
<1> SUFFICES ASSUME e \in Redelivered, task[<<e, 1>>] # "none", task'[<<e, 1>>] = "none"
             PROVE  FALSE
  BY DEF Solo
<1>1. <<e, 1>> \in Deliveries
  BY DEF Deliveries
<1>2. task \in [Deliveries -> Running \cup {"none", "queued", "over", "lost"}]
  BY DEF ExportTypeOK
<1>3. ASSUME NEW x \in Exports, PostStep(x)
      PROVE  FALSE
  BY <1>1, <1>2, <1>3 DEF PostStep, Ask, CreateRow, Enqueue, AbortPost
<1>4. ASSUME NEW x \in Exports, Expiry(x)
      PROVE  FALSE
  BY <1>4 DEF Expiry, TimePasses, ViewExpired, SaveViewed, DeleteArchive, SaveCollected
<1>5. ASSUME NEW x \in Redelivered, Redeliver(x)
      PROVE  FALSE
  BY <1>1, <1>2, <1>5 DEF Redeliver
<1>6. ASSUME NEW d \in Deliveries, Execute(d) \/ Lose(d)
      PROVE  FALSE
  BY <1>1, <1>2, <1>6 DEF Execute, StartBuild, Upload, Publish, BuildError, MarkFailed, Lose,
                          Finish, TurnTo
<1>7. CASE StartCleanup \/ KillCleanup \/ EraseAccount \/ UNCHANGED exportVars
  BY <1>7 DEF StartCleanup, KillCleanup, EraseAccount, exportVars
<1> QED
  BY <1>3, <1>4, <1>5, <1>6, <1>7 DEF ExportNext

-----------------------------------------------------------------------------
(* The course of one export. *)

\* A step about other exports.
LEMMA CourseFrame ==
    ASSUME NEW e \in Exports, Course(e),
           post'[e] = post[e], task'[<<e, 0>>] = task[<<e, 0>>], status'[e] = status[e],
           e \in past' <=> e \in past, e \in keyed => e \in keyed',
           <<e, "key">> \in archives => <<e, "key">> \in archives',
           e \in viewing' => e \in viewing, listed'[e] # "no" => listed[e] # "no"
    PROVE  Course(e)'
  BY DEF Course, UnderWay, Spent

LEMMA PostCourse ==
    ASSUME ExportTypeOK, NEW e \in Exports, Course(e), NEW x \in Exports, PostStep(x)
    PROVE  Course(e)'
<1> USE DEF PostStep, Ask, CreateRow, Enqueue, AbortPost
<1>1. <<e, 0>> \in Deliveries /\ <<x, 0>> \in Deliveries
  BY DEF Deliveries
<1>2. UNCHANGED <<past, keyed, archives, viewing, listed>>
  OBVIOUS
<1>3. CASE x # e
  <2>1. post'[e] = post[e] /\ task'[<<e, 0>>] = task[<<e, 0>>] /\ status'[e] = status[e]
    BY <1>1, <1>3 DEF ExportTypeOK
  <2> QED
    BY <1>2, <2>1, CourseFrame
<1>4. CASE x = e
  <2>1. CASE Ask(e)
    <3>1. post[e] = "none" /\ post'[e] \in {"over", "create"} /\ UNCHANGED <<task, status>>
      BY <2>1 DEF ExportTypeOK, Arrives
    <3> QED
      BY <1>2, <3>1 DEF Course, UnderWay, Spent
  <2>2. CASE CreateRow(e)
    <3>1. /\ post[e] = "create" /\ UNCHANGED task
          /\ \/ post'[e] = "over" /\ status'[e] = status[e]
             \/ post'[e] = "enqueue" /\ status'[e] = "queued"
      BY <2>2 DEF ExportTypeOK
    <3> QED
      BY <1>2, <3>1 DEF Course, UnderWay, Spent, Running, Active
  <2>3. CASE Enqueue(e)
    <3>1. /\ post[e] = "enqueue" /\ post'[e] = "over" /\ UNCHANGED status
          /\ task'[<<e, 0>>] = "queued"
      BY <1>1, <2>3 DEF ExportTypeOK
    <3> QED
      BY <1>2, <3>1 DEF Course, UnderWay, Spent, Active
  <2>4. CASE AbortPost(e)
    <3>1. post'[e] = "over" /\ UNCHANGED <<task, status>>
      BY <2>4 DEF ExportTypeOK
    <3> QED
      BY <1>2, <3>1 DEF Course, UnderWay, Spent
  <2> QED
    BY <1>4, <2>1, <2>2, <2>3, <2>4
<1> QED
  BY <1>3, <1>4

\* The only delivery of e that is at work is its first.
LEMMA DeliveryCourse ==
    ASSUME ExportTypeOK, NEW e \in Exports, Course(e), Solo(e),
           NEW d \in Deliveries, Execute(d) \/ Lose(d)
    PROVE  Course(e)'
<1> USE DEF Execute, StartBuild, Upload, Publish, BuildError, MarkFailed, Lose, Finish, TurnTo
<1>1. <<e, 0>> \in Deliveries
  BY DEF Deliveries
<1>2. UNCHANGED <<post, viewing, listed>>
  OBVIOUS
<1>3. task[d] \in Running \cup {"queued"}
  BY DEF Running
<1>4. CASE d # <<e, 0>>
  <2>1. d[1] # e
    BY <1>3, <1>4 DEF Deliveries, Solo, Running
  <2>2. task'[<<e, 0>>] = task[<<e, 0>>] /\ status'[e] = status[e]
    BY <1>1, <1>4, <2>1 DEF ExportTypeOK
  <2>3. /\ e \in past' <=> e \in past
        /\ e \in keyed => e \in keyed'
        /\ <<e, "key">> \in archives => <<e, "key">> \in archives'
    BY <2>1
  <2> QED
    BY <1>2, <2>2, <2>3, CourseFrame
<1>5. CASE d = <<e, 0>>
  <2>0. d[1] = e /\ UnderWay(e) /\ post[e] = "over" /\ status[e] \in Active \cup {"deleted"}
    BY <1>3, <1>5 DEF UnderWay, Course, Running
  <2>1. CASE StartBuild(d)
    <3>1. /\ UNCHANGED <<past, keyed, archives>>
          /\ \/ /\ status[e] \in Active /\ status'[e] = "processing"
                /\ task'[<<e, 0>>] = "build"
             \/ status'[e] = status[e] /\ task'[<<e, 0>>] = "over" /\ status[e] = "deleted"
      BY <1>1, <1>5, <2>0, <2>1 DEF ExportTypeOK, Exists, RowStatus, Active
    <3> QED
      BY <1>2, <2>0, <3>1 DEF Course, UnderWay, Spent, Active
  <2>2. CASE Upload(d)
    <3>1. /\ UNCHANGED <<past, keyed, status>> /\ task'[<<e, 0>>] = "publish"
          /\ <<e, "key">> \in archives'
      BY <1>1, <1>5, <2>0, <2>2 DEF ExportTypeOK, StoredName
    <3> QED
      BY <1>2, <2>0, <3>1 DEF Course, UnderWay, Spent, Active
  <2>3. CASE Publish(d)
    <3>1. /\ status[e] # "deleted" /\ status'[e] = "ready" /\ task[<<e, 0>>] = "publish"
          /\ task'[<<e, 0>>] = "over" /\ e \in keyed' /\ UNCHANGED archives
      BY <1>1, <1>5, <2>0, <2>3 DEF ExportTypeOK, Exists, RowStatus, Active
    <3> QED
      BY <1>2, <2>0, <3>1 DEF Course, UnderWay, Spent, Active, Running
  <2>4. CASE BuildError(d)
    <3>1. UNCHANGED <<past, keyed, archives, status>> /\ task'[<<e, 0>>] \in {"queued", "fail"}
      BY <1>1, <1>5, <2>4 DEF ExportTypeOK
    <3> QED
      BY <1>2, <2>0, <3>1 DEF Course, UnderWay, Spent
  <2>5. CASE MarkFailed(d)
    <3>1. /\ UNCHANGED <<past, keyed, archives>> /\ task'[<<e, 0>>] = "over"
          /\ \/ status'[e] = "failed" /\ status[e] # "deleted"
             \/ status'[e] = status[e]
      BY <1>1, <1>5, <2>0, <2>5 DEF ExportTypeOK, Exists, RowStatus, Active
    <3> QED
      BY <1>2, <2>0, <3>1 DEF Course, UnderWay, Spent, Running, Active
  <2>6. CASE Lose(d)
    <3>1. UNCHANGED <<past, keyed, archives, status>> /\ task'[<<e, 0>>] = "lost"
      BY <1>1, <1>5, <2>6 DEF ExportTypeOK
    <3> QED
      BY <1>2, <2>0, <3>1 DEF Course, UnderWay, Spent, Running
  <2> QED
    BY <2>1, <2>2, <2>3, <2>4, <2>5, <2>6
<1> QED
  BY <1>4, <1>5

LEMMA ExpiryCourse ==
    ASSUME ExportTypeOK, NEW e \in Exports, Course(e), NEW x \in Exports, Expiry(x)
    PROVE  Course(e)'
<1> USE DEF Expiry, TimePasses, ViewExpired, SaveViewed, DeleteArchive, SaveCollected
<1>1. UNCHANGED <<post, task>>
  OBVIOUS
<1>2. CASE x # e
  <2>1. status'[e] = status[e] /\ (listed'[e] # "no" => listed[e] # "no")
    BY <1>2 DEF ExportTypeOK
  <2>2. /\ e \in past' <=> e \in past
        /\ e \in keyed => e \in keyed'
        /\ <<e, "key">> \in archives => <<e, "key">> \in archives'
        /\ e \in viewing' => e \in viewing
    BY <1>2
  <2> QED
    BY <1>1, <2>1, <2>2, CourseFrame
<1>3. CASE x = e
  <2>1. CASE TimePasses(e)
    BY <1>1, <2>1 DEF Course, UnderWay, Spent
  <2>2. CASE ViewExpired(e)
    BY <1>1, <2>2 DEF Course, UnderWay, Spent, Collectable
  <2>3. CASE SaveViewed(e)
    <3>1. /\ Spent(e) /\ UNCHANGED <<past, keyed, archives, listed>>
          /\ \/ status'[e] = "expired" /\ status[e] \in {"ready", "expired"}
             \/ status'[e] = status[e]
      BY <2>3 DEF ExportTypeOK, Course, Exists, RowStatus, Active, Spent
    <3>2. Spent(e)'
      BY <3>1 DEF Spent
    <3>3. ~UnderWay(e) \/ status'[e] = "deleted"
      BY <3>1 DEF Course, Spent, Active
    <3> QED
      BY <1>1, <3>1, <3>2, <3>3 DEF Course, UnderWay, Active
  <2>4. CASE DeleteArchive(e)
    <3>1. Spent(e) /\ UNCHANGED <<past, keyed, status, viewing>>
      BY <2>4 DEF Course
    <3>2. Spent(e)'
      BY <3>1 DEF Spent
    <3>3. task[<<e, 0>>] = "publish" => status[e] = "deleted"
      BY <3>1 DEF Course, UnderWay, Spent, Active, Running
    <3> QED
      BY <1>1, <3>1, <3>2, <3>3 DEF Course, UnderWay, Spent
  <2>5. CASE SaveCollected(e)
    <3>1. /\ Spent(e) /\ UNCHANGED <<past, archives, viewing>>
          /\ \/ status'[e] = "expired" /\ status[e] \in {"ready", "expired"}
             \/ status'[e] = status[e] /\ keyed' = keyed /\ status[e] = "deleted"
      BY <2>5 DEF ExportTypeOK, Course, Exists, RowStatus, Active, Spent
    <3>2. Spent(e)'
      BY <3>1 DEF Spent
    <3>3. ~UnderWay(e) \/ status'[e] = "deleted"
      BY <3>1 DEF Course, Spent, Active
    <3> QED
      BY <1>1, <3>1, <3>2, <3>3 DEF Course, UnderWay, Active
  <2> QED
    BY <1>3, <2>1, <2>2, <2>3, <2>4, <2>5
<1> QED
  BY <1>2, <1>3

LEMMA CourseKept ==
    ASSUME ExportTypeOK, [ExportNext]_exportVars, NEW e \in Exports, Course(e), Solo(e), Solo(e)'
    PROVE  Course(e)'
<1>1. ASSUME NEW x \in Exports, PostStep(x)
      PROVE  Course(e)'
  BY <1>1, PostCourse
<1>2. ASSUME NEW x \in Exports, Expiry(x)
      PROVE  Course(e)'
  BY <1>2, ExpiryCourse
<1>3. ASSUME NEW x \in Redelivered, Redeliver(x)
      PROVE  Course(e)'
  <2>1. <<x, 1>> \in Deliveries /\ <<e, 0>> \in Deliveries /\ <<x, 1>> # <<e, 0>>
    BY DEF Deliveries
  <2>2. task'[<<e, 0>>] = task[<<e, 0>>]
    BY <1>3, <2>1 DEF Redeliver, ExportTypeOK
  <2> QED
    BY <1>3, <2>2, CourseFrame DEF Redeliver
<1>4. ASSUME NEW d \in Deliveries, Execute(d) \/ Lose(d)
      PROVE  Course(e)'
  BY <1>4, DeliveryCourse
<1>5. CASE StartCleanup
  BY <1>5 DEF StartCleanup, Course, UnderWay, Spent, Collectable
<1>6. CASE KillCleanup
  BY <1>6, CourseFrame DEF KillCleanup
<1>7. CASE EraseAccount
  <2>1. status'[e] = IF Exists(e) THEN "deleted" ELSE status[e]
    BY <1>7 DEF EraseAccount
  <2>2. \/ status'[e] = "deleted" /\ status[e] \in RowStatus
        \/ status'[e] = status[e] /\ status[e] \in {"unborn", "deleted"}
    BY <2>1 DEF Exists, ExportTypeOK
  <2>3. UNCHANGED <<post, task, archives, viewing, listed>>
    BY <1>7 DEF EraseAccount
  <2> QED
    BY <2>2, <2>3 DEF Course, UnderWay, Spent, RowStatus, Active
<1>8. CASE UNCHANGED exportVars
  BY <1>8, CourseFrame DEF exportVars
<1> QED
  BY <1>1, <1>2, <1>3, <1>4, <1>5, <1>6, <1>7, <1>8 DEF ExportNext

-----------------------------------------------------------------------------
(* One POST, one active row. *)

NobodyAsks == \A x \in Exports : ~Ask(x)

\* Only Ask lets a POST in.
LEMMA PostsFrame ==
    ASSUME ExportTypeOK, [ExportNext]_exportVars, NobodyAsks
    PROVE  /\ crowded' = crowded
           /\ \A e \in Exports : /\ post'[e] \in PostSteps => post[e] \in PostSteps
                                 /\ post'[e] = "create" => post[e] = "create"
<1>1. ASSUME NEW x \in Exports, CreateRow(x) \/ Enqueue(x) \/ AbortPost(x)
      PROVE  /\ crowded' = crowded
             /\ \A e \in Exports : /\ post'[e] \in PostSteps => post[e] \in PostSteps
                                   /\ post'[e] = "create" => post[e] = "create"
  BY <1>1 DEF CreateRow, Enqueue, AbortPost, ExportTypeOK, PostSteps
<1>2. ASSUME UNCHANGED <<post, crowded>>
      PROVE  /\ crowded' = crowded
             /\ \A e \in Exports : /\ post'[e] \in PostSteps => post[e] \in PostSteps
                                   /\ post'[e] = "create" => post[e] = "create"
  BY <1>2
<1>3. ASSUME \A x \in Exports : ~PostStep(x)
      PROVE  UNCHANGED <<post, crowded>>
  BY <1>3 DEF ExportNext, exportVars, Expiry, TimePasses, ViewExpired, SaveViewed, DeleteArchive,
              SaveCollected, Redeliver, Execute, StartBuild, Upload, Publish, BuildError,
              MarkFailed, Lose, StartCleanup, KillCleanup, EraseAccount
<1> QED
  BY <1>1, <1>2, <1>3 DEF PostStep, NobodyAsks

LEMMA OnePostKept ==
    ASSUME ExportTypeOK, OnePost, [ExportNext]_exportVars
    PROVE  OnePost'
<1>1. ASSUME NobodyAsks
      PROVE  OnePost'
  <2>1. /\ crowded' = crowded
        /\ \A e \in Exports : post'[e] \in PostSteps => post[e] \in PostSteps
    BY <1>1, PostsFrame
  <2> QED
    BY <2>1 DEF OnePost
<1>2. ASSUME NEW x \in Exports, Ask(x), ~crowded'
      PROVE  \A e \in Exports : post'[e] \in PostSteps => e = x
  BY <1>2 DEF Ask, ExportTypeOK
<1> QED
  BY <1>1, <1>2 DEF OnePost, NobodyAsks

\* A delivery only takes up a row that is active already.
LEMMA NoRowRevived ==
    ASSUME ExportTypeOK, SoloInv, AllSolo, NEW d \in Deliveries, Execute(d) \/ Lose(d),
           NEW e \in Exports, status'[e] \in Active
    PROVE  status[e] \in Active
<1>1. d[1] \in Exports
  BY DeliveryOf
<1>2. CASE StartBuild(d) /\ e = d[1]
  <2>1. task[d] = "queued" /\ (Exists(e) \/ UNCHANGED status)
    BY <1>2 DEF StartBuild
  <2>2. d = <<e, 0>> \/ (d = <<e, 1>> /\ e \in Redelivered)
    <3>1. CASE d \in Exports \X {0}
      BY <1>2, <3>1
    <3>2. CASE d \in Redelivered \X {1}
      BY <1>2, <3>2
    <3> QED
      BY <3>1, <3>2 DEF Deliveries
  <2>3. task[d] = "queued" => d = <<e, 0>>
    BY <2>2 DEF AllSolo, Solo
  <2>4. task[d] = "queued" => status[e] \in Active \cup {"deleted"}
    BY <2>3 DEF SoloInv, AllSolo, Course, UnderWay
  <2> QED
    BY <2>1, <2>4 DEF Exists, RowStatus, Active
<1>3. CASE ~(StartBuild(d) /\ e = d[1])
  BY <1>1, <1>3 DEF Execute, StartBuild, Upload, Publish, BuildError, MarkFailed, Lose, ExportTypeOK,
                    Active
<1> QED
  BY <1>2, <1>3

LEMMA OneRowKept ==
    ASSUME ExportInv, [ExportNext]_exportVars
    PROVE  OneRow'
<1> SUFFICES ASSUME ~crowded', AllSolo'
             PROVE  /\ \A e, f \in Exports : status'[e] \in Active /\ status'[f] \in Active => e = f
                    /\ \A e, f \in Exports : post'[e] = "create" => status'[f] \notin Active
  BY DEF OneRow
<1>1. AllSolo
  BY SoloStays DEF ExportInv, AllSolo
<1>2. ASSUME NEW x \in Exports, Ask(x)
      PROVE  /\ \A e, f \in Exports : status'[e] \in Active /\ status'[f] \in Active => e = f
             /\ \A e, f \in Exports : post'[e] = "create" => status'[f] \notin Active
  <2>1. ~crowded /\ UNCHANGED status
    BY <1>2 DEF Ask
  <2>2. post'[x] = "create" => \A f \in Exports : status[f] \notin Active
    BY <1>2 DEF Ask, ExportInv, ExportTypeOK
  <2>3. \A e \in Exports : e # x => post'[e] = post[e]
    BY <1>2 DEF Ask, ExportInv, ExportTypeOK
  <2> QED
    BY <1>1, <2>1, <2>2, <2>3 DEF ExportInv, OneRow
<1>3. ASSUME NobodyAsks
      PROVE  ~crowded /\ \A e \in Exports : /\ post'[e] \in PostSteps => post[e] \in PostSteps
                                            /\ post'[e] = "create" => post[e] = "create"
  BY <1>3, PostsFrame DEF ExportInv
<1>4. ASSUME NEW x \in Exports, CreateRow(x)
      PROVE  /\ \A e, f \in Exports : status'[e] \in Active /\ status'[f] \in Active => e = f
             /\ \A e, f \in Exports : post'[e] = "create" => status'[f] \notin Active
  <2>1. /\ ~crowded /\ post[x] = "create" /\ post'[x] # "create"
        /\ \A e \in Exports : e # x => post'[e] = post[e] /\ status'[e] = status[e]
    BY <1>4 DEF CreateRow, ExportInv, ExportTypeOK
  <2>2. \A f \in Exports : status[f] \notin Active
    BY <1>1, <2>1 DEF ExportInv, OneRow
  <2>3. \A e \in Exports : post'[e] # "create"
    BY <2>1 DEF ExportInv, OnePost, PostSteps
  <2> QED
    BY <2>1, <2>2, <2>3
<1>5. ASSUME \A x \in Exports : ~Ask(x) /\ ~CreateRow(x)
      PROVE  /\ \A e, f \in Exports : status'[e] \in Active /\ status'[f] \in Active => e = f
             /\ \A e, f \in Exports : post'[e] = "create" => status'[f] \notin Active
  <2>1. ASSUME NEW e \in Exports, status'[e] \in Active
        PROVE  status[e] \in Active
    <3>1. CASE \E d \in Deliveries : Execute(d) \/ Lose(d)
      BY <1>1, <2>1, <3>1, NoRowRevived DEF ExportInv
    <3>2. CASE \E x \in Exports : Expiry(x)
      BY <2>1, <3>2 DEF Expiry, TimePasses, ViewExpired, SaveViewed, DeleteArchive,
                        SaveCollected, ExportInv, ExportTypeOK, Active
    <3>3. CASE EraseAccount
      BY <2>1, <3>3 DEF EraseAccount, Active
    <3>4. ASSUME NEW x \in Exports, PostStep(x)
          PROVE  UNCHANGED status
      BY <1>5, <3>4 DEF PostStep, Enqueue, AbortPost
    <3>5. CASE (\E x \in Redelivered : Redeliver(x)) \/ StartCleanup \/ KillCleanup
                  \/ UNCHANGED exportVars
      BY <2>1, <3>5 DEF Redeliver, StartCleanup, KillCleanup, exportVars
    <3> QED
      BY <2>1, <3>1, <3>2, <3>3, <3>4, <3>5 DEF ExportNext
  <2>2. ~crowded /\ \A e \in Exports : post'[e] = "create" => post[e] = "create"
    <3>1. NobodyAsks
      BY <1>5 DEF NobodyAsks
    <3> QED
      BY <1>3, <3>1
  <2>3. /\ \A e, f \in Exports : status[e] \in Active /\ status[f] \in Active => e = f
        /\ \A e, f \in Exports : post[e] = "create" => status[f] \notin Active
    BY <1>1, <2>2 DEF ExportInv, OneRow
  <2> QED
    BY <2>1, <2>2, <2>3
<1> QED
  BY <1>2, <1>4, <1>5

-----------------------------------------------------------------------------
LEMMA ExportInitHolds == ExportInit => ExportInv
<1> SUFFICES ASSUME ExportInit
             PROVE  ExportInv
  OBVIOUS
<1> USE DEF ExportInit
<1>1. ExportTypeOK
  <2>1. 0 \in 0 .. MaxRetries
    BY ExportAssumption
  <2> QED
    BY <2>1 DEF ExportTypeOK
<1>2. \A e \in Exports : task[<<e, 0>>] = "none"
  BY DEF Deliveries
<1>3. SoloInv
  BY <1>2 DEF SoloInv, Course, UnderWay, Running
<1>4. OnePost /\ OneRow
  BY DEF OnePost, OneRow, PostSteps, Active
<1> QED
  BY <1>1, <1>3, <1>4 DEF ExportInv

LEMMA ExportNextKeeps == ExportInv /\ [ExportNext]_exportVars => ExportInv'
<1> SUFFICES ASSUME ExportInv, [ExportNext]_exportVars
             PROVE  ExportInv'
  OBVIOUS
<1>1. ExportTypeOK'
  BY ExportTypeKept DEF ExportInv
<1>2. SoloInv'
  BY SoloStays, CourseKept DEF ExportInv, SoloInv
<1>3. OnePost'
  BY OnePostKept DEF ExportInv
<1>4. OneRow'
  BY OneRowKept
<1> QED
  BY <1>1, <1>2, <1>3, <1>4 DEF ExportInv

\* An export whose message was handed out once goes its course: a row that is active or gone
\* while it is being built, an archive under the recorded key before it is ready.
THEOREM ExportInvariantHolds == ExportSpec => []ExportInv
  BY ExportInitHolds, ExportNextKeeps, PTL DEF ExportSpec

\* ExportDataView answers with the request under way instead of making another: one
\* export is built at a time, if no two POST requests met and no message came twice.
THEOREM OneActiveTheorem == ExportSpec => []OneActive
<1>1. ExportInv => OneActive
  <2> SUFFICES ASSUME ExportInv, ~crowded, AllSolo
               PROVE  Cardinality({e \in Exports : status[e] \in Active}) <= 1
    BY DEF ExportInv, OneActive, AllSolo
  <2> DEFINE S == {e \in Exports : status[e] \in Active}
  <2>1. \A e, f \in S : e = f
    BY DEF ExportInv, OneRow
  <2>2. CASE S = {}
    BY <2>2, FS_EmptySet
  <2>3. CASE S # {}
    <3> PICK e \in S : TRUE
      BY <2>3
    <3>1. S = {e}
      BY <2>1
    <3>2. Cardinality({e}) = 1
      BY FS_Singleton
    <3> QED
      BY <3>1, <3>2
  <2> QED
    BY <2>2, <2>3
<1> QED
  BY <1>1, ExportInvariantHolds, PTL

\* A link the owner is offered is not dead: build_user_export_zip records the name it
\* uploaded, and neither expiry path erases an archive whose row is not over.
THEOREM LinkTheorem == ExportSpec => []LinkLeadsToArchive
<1>1. ExportInv => LinkLeadsToArchive
  BY DEF ExportInv, SoloInv, Course, LinkLeadsToArchive, IsReady
<1> QED
  BY <1>1, ExportInvariantHolds, PTL

\* A finished export stays available until its 24 hours are over or its account goes,
\* whatever requests, retries and cleanups run.
THEOREM ReadyTheorem == ExportSpec => ReadyUntilExpired
<1> DEFINE Kept == \A e \in Exports :
          Solo(e)' /\ status[e] = "ready" /\ status'[e] # "ready"
              => \/ status'[e] = "expired" /\ e \in past
                 \/ status'[e] = "deleted"
<1>1. ExportInv /\ [ExportNext]_exportVars => [Kept]_exportVars
  <2> SUFFICES ASSUME ExportInv, [ExportNext]_exportVars, NEW e \in Exports,
                      Solo(e)', status[e] = "ready", status'[e] # "ready"
               PROVE  (status'[e] = "expired" /\ e \in past) \/ status'[e] = "deleted"
    OBVIOUS
  <2>1. ExportTypeOK /\ Solo(e) /\ Course(e)
    BY SoloStays DEF ExportInv, SoloInv
  <2>2. ASSUME NEW x \in Exports, PostStep(x)
        PROVE  FALSE
    BY <2>1, <2>2 DEF PostStep, Ask, CreateRow, Enqueue, AbortPost, Course, ExportTypeOK
  <2>3. ASSUME NEW x \in Exports, Expiry(x)
        PROVE  status'[e] = "expired" /\ e \in past
    <3>1. (e \in viewing \/ listed[e] # "no") /\ status'[e] = "expired"
      BY <2>1, <2>3 DEF Expiry, TimePasses, ViewExpired, SaveViewed, DeleteArchive,
                        SaveCollected, ExportTypeOK
    <3> QED
      BY <2>1, <3>1 DEF Course, Spent
  <2>4. ASSUME NEW d \in Deliveries, Execute(d) \/ Lose(d)
        PROVE  FALSE
    <3>0. d[1] \in Exports
      BY DeliveryOf
    <3>1. task[d] \in Running \cup {"queued"} /\ d[1] = e
      BY <2>1, <2>4, <3>0 DEF Execute, StartBuild, Upload, Publish, BuildError, MarkFailed,
                              Lose, Running, ExportTypeOK
    <3>2. d = <<e, 0>> \/ (d = <<e, 1>> /\ e \in Redelivered)
      <4>1. CASE d \in Exports \X {0}
        BY <3>1, <4>1
      <4>2. CASE d \in Redelivered \X {1}
        BY <3>1, <4>2
      <4> QED
        BY <4>1, <4>2 DEF Deliveries
    <3>3. d = <<e, 0>>
      BY <2>1, <3>1, <3>2 DEF Solo, Running
    <3> QED
      BY <2>1, <3>1, <3>3 DEF Course, UnderWay, Active
  <2>5. CASE EraseAccount
    BY <2>5 DEF EraseAccount
  <2> QED
    BY <2>2, <2>3, <2>4, <2>5 DEF ExportNext, Redeliver, StartCleanup, KillCleanup, exportVars
<1> QED
  BY <1>1, ExportInvariantHolds, PTL DEF ExportSpec, ReadyUntilExpired
=============================================================================

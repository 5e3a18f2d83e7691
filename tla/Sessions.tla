------------------------------ MODULE Sessions ------------------------------
(***************************************************************************)
(* Sign-ins, refresh tokens and sessions of apps/accounts for one account. *)
(* A sign-in inserts a UserSession under the placeholder 'pending', builds *)
(* its first refresh token, then records that token's jti on the row.      *)
(* POST /auth/refresh (simplejwt, rotation and blacklist on) replaces the  *)
(* token and never touches the row.  Logout, DELETE /me/sessions/{id} and  *)
(* a password reset revoke sessions.                                       *)
(*                                                                         *)
(* Every statement commits on its own, so requests interleave between any  *)
(* two of them and a worker killed half-way leaves what it wrote.  A token *)
(* is <<session, n>>, the n-th one issued with the session_id claim of     *)
(* that session; n = 0 is no token, and as a jti the placeholder.          *)
(***************************************************************************)
EXTENDS Naturals

CONSTANTS
    Accesses,   \* sign-ins of the account, each lending its name to the row it inserts
    Requests,   \* bound: refresh, logout and revoke requests in flight at once
    MaxTokens   \* bound: tokens issued per session

ASSUME SessionsAssumption == MaxTokens \in Nat \ {0}

VARIABLES
    row,          \* each UserSession: absent, revoked_at null, or revoked_at set
    jti,          \* refresh_jti column: n for the token <<session, n>>, 0 for 'pending'
    issued,       \* number of OutstandingToken rows of each session
    blacklisted,  \* BlacklistedToken rows
    signIn,       \* progress of each sign-in
    pc,           \* progress of each other request
    held,         \* what the request read: a token, or a session with its jti
    forked,       \* history: sessions one of whose tokens two refreshes held at once
    blind         \* history: sessions revoked without a token to blacklist

vars == <<row, jti, issued, blacklisted, signIn, pc, held, forked, blind>>

Numbers == 0 .. MaxTokens
Tokens == Accesses \X Numbers

RowStates == {"absent", "listed", "revoked"}
SignInSteps == {"build", "name"}
SignInStates == {"idle", "over", "refused", "killed"} \cup SignInSteps
Refreshing == {"retire", "issue"}
RequestStates == {"idle", "bury", "mark", "kill", "close"} \cup Refreshing

TypeOK ==
    /\ row \in [Accesses -> RowStates]
    /\ jti \in [Accesses -> Numbers]
    /\ issued \in [Accesses -> Numbers]
    /\ blacklisted \in SUBSET Tokens
    /\ signIn \in [Accesses -> SignInStates]
    /\ pc \in [Requests -> RequestStates]
    /\ held \in [Requests -> Tokens]
    /\ forked \in SUBSET Accesses
    /\ blind \in SUBSET Accesses

Outstanding(s) == {<<s, n>> : n \in 1 .. issued[s]}

\* Tokens the refresh endpoint still accepts.  Their expiry is not modelled: it only
\* removes some.
LiveTokens(s) == Outstanding(s) \ blacklisted

\* An idle request holds nothing that matters.
Init ==
    /\ row = [s \in Accesses |-> "absent"]
    /\ jti = [s \in Accesses |-> 0]
    /\ issued = [s \in Accesses |-> 0]
    /\ blacklisted = {}
    /\ signIn = [s \in Accesses |-> "idle"]
    /\ pc = [q \in Requests |-> "idle"]
    /\ held \in [Requests -> {<<s, 0>> : s \in Accesses}]
    /\ forked = {}
    /\ blind = {}

-----------------------------------------------------------------------------
(* _issue_tokens_for_user: register, login, second factor and OAuth end in it. *)

\* Some row still carries the placeholder; refresh_jti is unique.
PlaceholderTaken == \E s \in Accesses : row[s] # "absent" /\ jti[s] = 0

InsertSession(s) ==
    /\ signIn[s] = "idle"
    /\ ~PlaceholderTaken
    /\ row' = [row EXCEPT ![s] = "listed"]
    /\ signIn' = [signIn EXCEPT ![s] = "build"]
    /\ UNCHANGED <<jti, issued, blacklisted, pc, held, forked, blind>>

\* The INSERT violates the unique constraint and the request answers 500.
InsertRefused(s) ==
    /\ signIn[s] = "idle"
    /\ PlaceholderTaken
    /\ signIn' = [signIn EXCEPT ![s] = "refused"]
    /\ UNCHANGED <<row, jti, issued, blacklisted, pc, held, forked, blind>>

\* build_token_pair: RefreshToken.for_user inserts the OutstandingToken.
BuildPair(s) ==
    /\ signIn[s] = "build"
    /\ issued' = [issued EXCEPT ![s] = 1]
    /\ signIn' = [signIn EXCEPT ![s] = "name"]
    /\ UNCHANGED <<row, jti, blacklisted, pc, held, forked, blind>>

\* Fault: save(update_fields=['refresh_jti']) is missing.
NameNothing(s) ==
    /\ signIn[s] = "name"
    /\ signIn' = [signIn EXCEPT ![s] = "over"]
    /\ UNCHANGED <<row, jti, issued, blacklisted, pc, held, forked, blind>>

NameSession(s) ==
    /\ signIn[s] = "name"
    /\ jti' = [jti EXCEPT ![s] = 1]
    /\ signIn' = [signIn EXCEPT ![s] = "over"]
    /\ UNCHANGED <<row, issued, blacklisted, pc, held, forked, blind>>

\* The web worker is killed between two statements.
KillSignIn(s) ==
    /\ signIn[s] \in SignInSteps
    /\ signIn' = [signIn EXCEPT ![s] = "killed"]
    /\ UNCHANGED <<row, jti, issued, blacklisted, pc, held, forked, blind>>

-----------------------------------------------------------------------------
(* Requests.  The first step of each reads, the others write. *)

\* The client received token t: sign-in and refresh answer after their last statement.
Received(t) ==
    /\ t[2] \in 1 .. issued[t[1]]
    /\ t[2] = 1 => signIn[t[1]] = "over"

Begin(q, step, t) ==
    /\ pc[q] = "idle"
    /\ pc' = [pc EXCEPT ![q] = step]
    /\ held' = [held EXCEPT ![q] = t]

Proceed(q, from, to) ==
    /\ pc[q] = from
    /\ pc' = [pc EXCEPT ![q] = to]
    /\ UNCHANGED held

\* Two refreshes of token t would be in flight at once.
Shares(q, t) == \E p \in Requests \ {q} : pc[p] = "retire" /\ held[p] = t

\* Fault: the blacklist is not consulted.
VerifySignatureOnly(q, t) ==
    /\ Received(t)
    /\ Begin(q, "retire", t)
    /\ forked' = IF Shares(q, t) THEN forked \cup {t[1]} ELSE forked
    /\ UNCHANGED <<row, jti, issued, blacklisted, signIn, blind>>

\* TokenRefreshSerializer.validate: the token is decoded and not blacklisted.
VerifyRefresh(q, t) ==
    /\ Received(t)
    /\ t \notin blacklisted
    /\ Begin(q, "retire", t)
    /\ forked' = IF Shares(q, t) THEN forked \cup {t[1]} ELSE forked
    /\ UNCHANGED <<row, jti, issued, blacklisted, signIn, blind>>

\* Fault: BLACKLIST_AFTER_ROTATION is off.
RetireNothing(q) ==
    /\ Proceed(q, "retire", "issue")
    /\ UNCHANGED <<row, jti, issued, blacklisted, signIn, forked, blind>>

\* refresh.blacklist(): get_or_create, so a token already blacklisted is no error.
RetireToken(q) ==
    /\ Proceed(q, "retire", "issue")
    /\ blacklisted' = blacklisted \cup {held[q]}
    /\ UNCHANGED <<row, jti, issued, signIn, forked, blind>>

\* set_jti, outstand: the next token of the same session.  UserSession is not updated.
IssueNext(q) ==
    LET s == held[q][1] IN
    /\ issued[s] < MaxTokens
    /\ Proceed(q, "issue", "idle")
    /\ issued' = [issued EXCEPT ![s] = @ + 1]
    /\ UNCHANGED <<row, jti, blacklisted, signIn, forked, blind>>

\* LogoutView: the refresh token of the body is decoded ...
VerifyLogout(q, t) ==
    /\ Received(t)
    /\ t \notin blacklisted
    /\ Begin(q, "bury", t)
    /\ UNCHANGED <<row, jti, issued, blacklisted, signIn, forked, blind>>

\* ... blacklisted ...
BuryToken(q) ==
    /\ Proceed(q, "bury", "mark")
    /\ blacklisted' = blacklisted \cup {held[q]}
    /\ UNCHANGED <<row, jti, issued, signIn, forked, blind>>

\* ... and the session recorded under its jti, if there is one, is revoked.
MarkLoggedOut(q) ==
    LET s == held[q][1] IN
    /\ Proceed(q, "mark", "idle")
    /\ row' = IF jti[s] = held[q][2] THEN [row EXCEPT ![s] = "revoked"] ELSE row
    /\ UNCHANGED <<jti, issued, blacklisted, signIn, forked, blind>>

\* SessionDetailView.delete: an unrevoked session is read ...
FetchSession(q, s) ==
    /\ row[s] = "listed"
    /\ Begin(q, "kill", <<s, jti[s]>>)
    /\ UNCHANGED <<row, jti, issued, blacklisted, signIn, forked, blind>>

\* Fault: the token is looked up among the blacklisted ones and nothing is inserted.
KillNothing(q) ==
    /\ Proceed(q, "kill", "close")
    /\ UNCHANGED <<row, jti, issued, blacklisted, signIn, forked, blind>>

\* ... the outstanding token with its jti is blacklisted ('pending' has none) ...
KillNamedToken(q) ==
    /\ Proceed(q, "kill", "close")
    /\ blacklisted' = IF held[q][2] = 0 THEN blacklisted ELSE blacklisted \cup {held[q]}
    /\ UNCHANGED <<row, jti, issued, signIn, forked, blind>>

\* ... and revoked_at is saved.
CloseSession(q) ==
    LET s == held[q][1] IN
    /\ Proceed(q, "close", "idle")
    /\ row' = [row EXCEPT ![s] = "revoked"]
    /\ blind' = IF held[q][2] = 0 THEN blind \cup {s} ELSE blind
    /\ UNCHANGED <<jti, issued, blacklisted, signIn, forked>>

\* The web worker is killed between two statements.
AbandonRequest(q) ==
    /\ pc[q] # "idle"
    /\ pc' = [pc EXCEPT ![q] = "idle"]
    /\ UNCHANGED <<row, jti, issued, blacklisted, signIn, held, forked, blind>>

\* ResetPasswordView: every listed session is revoked, no token is blacklisted.
ResetPassword ==
    /\ row' = [s \in Accesses |-> IF row[s] = "listed" THEN "revoked" ELSE row[s]]
    /\ blind' = blind \cup {s \in Accesses : row[s] = "listed"}
    /\ UNCHANGED <<jti, issued, blacklisted, signIn, pc, held, forked>>

-----------------------------------------------------------------------------
SignIn(s) == BuildPair(s) \/ NameSession(s)

Access(s) == InsertSession(s) \/ InsertRefused(s) \/ SignIn(s) \/ KillSignIn(s)

Refresh(q) == (\E t \in Tokens : VerifyRefresh(q, t)) \/ RetireToken(q) \/ IssueNext(q)

Logout(q) == (\E t \in Tokens : VerifyLogout(q, t)) \/ BuryToken(q) \/ MarkLoggedOut(q)

Revoke(q) == (\E s \in Accesses : FetchSession(q, s)) \/ KillNamedToken(q) \/ CloseSession(q)

Next ==
    \/ \E s \in Accesses : Access(s)
    \/ \E q \in Requests : Refresh(q) \/ Logout(q) \/ Revoke(q) \/ AbandonRequest(q)
    \/ ResetPassword

Spec == Init /\ [][Next]_vars

\* A web worker that is not killed finishes the sign-in it serves.
FairSpec == Spec /\ \A s \in Accesses : WF_vars(SignIn(s))

-----------------------------------------------------------------------------
(* Properties. *)

\* ROTATE_REFRESH_TOKENS with BLACKLIST_AFTER_ROTATION: whatever mixture of refreshes,
\* logouts, revocations and kills, a session never has two usable refresh tokens, unless
\* two refreshes read the same token before either retired it.
OneLiveToken ==
    \A s \in Accesses \ forked : \A t, u \in LiveTokens(s) : t = u

\* A revocation that had a token to name leaves that token unusable, however the sign-in,
\* other revocations and a password reset fall between its statements.
RevokedTokenIsDead ==
    \A s \in Accesses :
        row[s] = "revoked" /\ s \notin blind => <<s, jti[s]>> \in blacklisted

\* No request in flight still holds a token of s to exchange for another.
Quiet(s) == \A q \in Requests : pc[q] \in Refreshing => held[q][1] # s

\* Every token of s was retired and nothing can bring a new one.
Ended(s) ==
    /\ signIn[s] \in {"over", "killed"}
    /\ Quiet(s)
    /\ LiveTokens(s) = {}

\* A session without a usable token stays so: neither a late refresh, nor the end of its
\* sign-in, nor a revocation revives it.
EndedIsFinal == [][\A s \in Accesses : Ended(s) => Ended(s)']_vars

\* _issue_tokens_for_user, "placeholder, mis a jour ci-dessous": the placeholder, which
\* makes every other sign-in fail, goes unless the sign-in that inserted it was killed.
PlaceholderReplaced ==
    \A s \in Accesses :
        row[s] # "absent" /\ jti[s] = 0 ~> jti[s] # 0 \/ signIn[s] = "killed"
=============================================================================

------------------------------- MODULE SignIn -------------------------------
(***************************************************************************)
(* One e-mail address of apps/accounts: the account that registration or a *)
(* social sign-in creates for it, its second factor (two_factor.py, over   *)
(* django_otp), the two steps of a sign-in that asks for a code, and the   *)
(* preferences whose two_factor_enabled the interface shows.               *)
(*                                                                         *)
(* A code is the TOTP step it was made for.  verify_token saves the whole  *)
(* device it was given whether the code is right (last_t) or wrong         *)
(* (throttling), and a save of a deleted row inserts it again.             *)
(***************************************************************************)
EXTENDS Naturals, FiniteSets

CONSTANTS
    Devices,     \* bound: TOTPDevice rows that exist at once
    Challenges,  \* bound: sign-ins that are given a challenge
    Handlers,    \* bound: requests in flight at once
    MaxTime      \* bound: TOTP steps

\* A challenge is not mistaken for a code.
ASSUME SignInAssumption ==
    /\ MaxTime \in Nat \ {0}
    /\ Challenges \cap (Devices \X (1 .. MaxTime)) = {}

VARIABLES
    account,     \* how far the User row and its UserPreferences and UserStats have come
    flag,        \* UserPreferences.two_factor_enabled
    device,      \* the TOTPDevice rows
    now,         \* the current TOTP step
    challenge,   \* the 2fa_challenge keys of the cache
    at,          \* next step of each request
    on,          \* the device or challenge it is about
    seen,        \* the row it has read
    spent,       \* history: the codes and challenges accepted before requests overlapped
    again,       \* history: one of them was accepted once more
    overlap,     \* history: requests that save a device or its flag overlapped
    byHand,      \* history: before that or a kill, a PATCH asked for another flag
    killed       \* history: a worker was killed

factor == <<flag, device, now, challenge>>
request == <<at, on, seen>>
history == <<spent, again, overlap, byHand, killed>>
signInVars == <<account, factor, request, history>>

Absent == [state |-> "absent", last_t |-> 0]
Device == [state : {"new", "confirmed"}, last_t : 0 .. MaxTime]
Nobody == "nobody"
CodeSteps == {"setup", "disable", "login"}
DeviceSteps == CodeSteps \cup {"wipe", "create", "confirm", "flag on", "remove", "flag off", "patch on", "patch off"}
Accounts == {"none", "bare", "preferences", "complete"}  \* none of its rows, User, and so on
Steps == DeviceSteps \cup {"idle", "insert", "preferences", "stats", "consume", "load"}

SignInTypeOK ==
    /\ account \in Accounts
    /\ flag \in BOOLEAN /\ now \in 1 .. MaxTime
    /\ device \in [Devices -> Device \cup {Absent}]
    /\ challenge \in [Challenges -> {"unused", "issued", "gone"}]
    /\ at \in [Handlers -> Steps]
    /\ on \in [Handlers -> Devices \cup Challenges \cup {Nobody}]
    /\ seen \in [Handlers -> Device \cup {Absent}]
    /\ spent \subseteq Challenges \cup (Devices \X (1 .. MaxTime))

SignInInit ==
    /\ account = "none" /\ flag = FALSE /\ now = 1
    /\ device = [d \in Devices |-> Absent]
    /\ challenge = [c \in Challenges |-> "unused"]
    /\ at = [q \in Handlers |-> "idle"]
    /\ on = [q \in Handlers |-> Nobody]
    /\ seen = [q \in Handlers |-> Absent]
    /\ spent = {} /\ again = FALSE /\ overlap = FALSE /\ byHand = FALSE /\ killed = FALSE

-----------------------------------------------------------------------------
(* Steps of a request. *)

Start(q, step, it, row) ==
    /\ at[q] = "idle"
    /\ at' = [at EXCEPT ![q] = step]
    /\ on' = [on EXCEPT ![q] = it]
    /\ seen' = [seen EXCEPT ![q] = row]

Goto(q, step, it, row) ==
    /\ at' = [at EXCEPT ![q] = step]
    /\ on' = [on EXCEPT ![q] = it]
    /\ seen' = [seen EXCEPT ![q] = row]

End(q) == Goto(q, "idle", Nobody, Absent)

Busy(steps) == \E q \in Handlers : at[q] \in steps

\* user_has_active_2fa, get_user_totp_device.
HasDevice(state) == {d \in Devices : device[d].state = state}

-----------------------------------------------------------------------------
(* The account. *)

\* RegisterSerializer: the e-mail is looked up, case-insensitively, before anything is written.
BeginRegister(q) ==
    /\ account = "none"
    /\ Start(q, "insert", Nobody, Absent)
    /\ UNCHANGED <<account, factor, history>>

\* create_user: one INSERT, refused if the address is taken by then.
InsertUser(q) ==
    /\ at[q] = "insert"
    /\ \/ /\ account = "none" /\ account' = "bare"
          /\ Goto(q, "preferences", Nobody, Absent)
       \/ /\ account # "none" /\ UNCHANGED account
          /\ End(q)
    /\ UNCHANGED <<factor, history>>

\* create_user_relations, the first of its two INSERTs.
InsertPreferences(q) ==
    /\ at[q] = "preferences"
    /\ account' = "preferences"
    /\ Goto(q, "stats", Nobody, Absent)
    /\ UNCHANGED <<factor, history>>

InsertStats(q) ==
    /\ at[q] = "stats"
    /\ account' = "complete"
    /\ End(q)
    /\ UNCHANGED <<factor, history>>

(* Social sign-in, by providers that are configured on the server: what the browser sends, what  *)
(* the provider answers, and whether they make a profile with a verified address.                *)

GooglePayloads == [id_token : BOOLEAN, code : BOOLEAN, redirect_uri : BOOLEAN]
GoogleAnswers == [ok : BOOLEAN, id_token : BOOLEAN, signed : BOOLEAN, email_verified : BOOLEAN]

\* An id_token the browser already has is used as it is, a code is exchanged for one.
GoogleToken(sent, answer) ==
    \/ sent.id_token
    \/ sent.code /\ sent.redirect_uri /\ answer.ok /\ answer.id_token

GoogleVouches(sent, answer) ==
    GoogleToken(sent, answer) /\ answer.signed /\ answer.email_verified

GithubAnswers == [access_token : BOOLEAN, user : {"error", "private", "public"},
                  emails : SUBSET [primary : BOOLEAN, verified : BOOLEAN]]

\* /user gives no address unless it is public, and the list then has to hold a verified primary
\* one; a list that cannot be fetched is as good as an empty one.
GithubAddress(answer) ==
    \/ answer.user = "public"
    \/ answer.user = "private" /\ \E e \in answer.emails : e.primary /\ e.verified

GithubVouches(code, answer) == code /\ answer.access_token /\ GithubAddress(answer)

\* Fault: the row alone is in the transaction.
CreateRowOnly ==
    /\ account = "none"
    /\ account' = "bare"
    /\ UNCHANGED <<factor, request, history>>

\* get_or_create inserts the row and what the signal adds in one transaction.
CreateFromProfile ==
    /\ account = "none"
    /\ account' = "complete"
    /\ UNCHANGED <<factor, request, history>>

\* OAuthExchangeView.post; an address that has its account already only signs in.
ExchangeOAuth ==
    /\ account = "none"
    /\ \/ \E sent \in GooglePayloads, answer \in GoogleAnswers : GoogleVouches(sent, answer)
       \/ \E code \in BOOLEAN, answer \in GithubAnswers : GithubVouches(code, answer)
    /\ CreateFromProfile

-----------------------------------------------------------------------------
(* Setting the second factor up and down. *)

\* A request that will save a device or the flag overlaps another, or the registration.
Meet ==
    /\ overlap' = (overlap \/ Busy(DeviceSteps \cup {"preferences", "stats"}))
    /\ spent' = IF overlap' THEN {} ELSE spent

\* Setup2FAView.post.
BeginSetup(q) ==
    /\ account # "none" /\ HasDevice("confirmed") = {}
    /\ Start(q, "wipe", Nobody, Absent)
    /\ Meet
    /\ UNCHANGED <<account, factor, again, byHand, killed>>

WipeUnconfirmed(q) ==
    /\ at[q] = "wipe"
    /\ device' = [d \in Devices |-> IF device[d].state = "new" THEN Absent ELSE device[d]]
    /\ Goto(q, "create", Nobody, Absent)
    /\ UNCHANGED <<account, flag, now, challenge, history>>

CreateDevice(q, d) ==
    /\ at[q] = "create"
    /\ device[d] = Absent /\ \A p \in Handlers : on[p] # d
    /\ device' = [device EXCEPT ![d] = [state |-> "new", last_t |-> 0]]
    /\ spent' = {x \in spent : x \in Challenges \/ x[1] # d}
    /\ End(q)
    /\ UNCHANGED <<account, flag, now, challenge, again, overlap, byHand, killed>>

\* VerifySetup2FAView.post and Disable2FAView.post read the device first.
BeginCode(q, step, d) ==
    /\ device[d].state = (IF step = "setup" THEN "new" ELSE "confirmed")
    /\ Start(q, step, d, device[d])
    /\ Meet
    /\ UNCHANGED <<account, factor, again, byHand, killed>>

-----------------------------------------------------------------------------
(* Signing in with a code. *)

\* LoginView.post with a right password: a challenge if there is a confirmed device.
Login(c) ==
    /\ HasDevice("confirmed") # {}
    /\ challenge[c] = "unused"
    /\ challenge' = [challenge EXCEPT ![c] = "issued"]
    /\ UNCHANGED <<account, flag, device, now, request, history>>

\* consume_challenge_token: the key is read, then deleted.
ReadChallenge(q, c) ==
    /\ challenge[c] = "issued"
    /\ Start(q, "consume", c, Absent)
    /\ overlap' = (overlap \/ \E p \in Handlers : on[p] = c)
    /\ spent' = IF overlap' THEN {} ELSE spent
    /\ UNCHANGED <<account, factor, again, byHand, killed>>

Accept(x) ==
    /\ spent' = IF overlap THEN {} ELSE spent \cup {x}
    /\ again' = (again \/ x \in spent)

DropChallenge(q) ==
    /\ at[q] = "consume"
    /\ challenge' = [challenge EXCEPT ![on[q]] = "gone"]
    /\ Accept(on[q])
    /\ Goto(q, "load", Nobody, Absent)
    /\ UNCHANGED <<account, flag, device, now, overlap, byHand, killed>>

\* Verify2FALoginView.post.
LoadDevice(q) ==
    /\ at[q] = "load"
    /\ \/ /\ HasDevice("confirmed") = {} /\ UNCHANGED <<overlap, spent>>
          /\ End(q)
       \/ \E d \in HasDevice("confirmed") :
            /\ Goto(q, "login", d, device[d])
            /\ Meet
    /\ UNCHANGED <<account, factor, again, byHand, killed>>

-----------------------------------------------------------------------------
(* verify_token, and what follows a right code. *)

\* Fault: last_t is not looked at.
AnyCode(q) == {t \in {now - 1, now, now + 1} : t > 0}

\* Codes of the steps around the current one, newer than the last one used.
Acceptable(q) == {t \in {now - 1, now, now + 1} : t > seen[q].last_t}

RightCode(q, t) ==
    /\ at[q] \in CodeSteps /\ t \in Acceptable(q)
    /\ LET row == [seen[q] EXCEPT !.last_t = t]
       IN  /\ device' = [device EXCEPT ![on[q]] = row]
           /\ CASE at[q] = "setup" -> Goto(q, "confirm", on[q], row)
                [] at[q] = "disable" -> Goto(q, "remove", on[q], Absent)
                [] at[q] = "login" -> End(q)
    /\ Accept(<<on[q], t>>)
    /\ UNCHANGED <<account, flag, now, challenge, overlap, byHand, killed>>

\* A code that comes while the device is throttled is refused unread, and nothing is saved.
WrongCode(q) ==
    /\ at[q] \in CodeSteps
    /\ device' \in {device, [device EXCEPT ![on[q]] = seen[q]]}
    /\ End(q)
    /\ UNCHANGED <<account, flag, now, challenge, history>>

Confirm(q) ==
    /\ at[q] = "confirm"
    /\ device' = [device EXCEPT ![on[q]] = [seen[q] EXCEPT !.state = "confirmed"]]
    /\ Goto(q, "flag on", Nobody, Absent)
    /\ UNCHANGED <<account, flag, now, challenge, history>>

Remove(q) ==
    /\ at[q] = "remove"
    /\ device' = [device EXCEPT ![on[q]] = Absent]
    /\ Goto(q, "flag off", Nobody, Absent)
    /\ UNCHANGED <<account, flag, now, challenge, history>>

\* Fault: disabling forgets the flag.
SaveFlagOn(q) ==
    /\ at[q] \in {"flag on", "flag off"}
    /\ flag' = (flag \/ at[q] = "flag on")
    /\ End(q)
    /\ UNCHANGED <<account, device, now, challenge, history>>

\* prefs.save(update_fields); an account that has no preferences yet answers with an error.
SaveFlag(q) ==
    /\ at[q] \in {"flag on", "flag off"}
    /\ flag' = (IF account \in {"none", "bare"} THEN flag ELSE at[q] = "flag on")
    /\ End(q)
    /\ UNCHANGED <<account, device, now, challenge, history>>

\* PreferencesView PATCH saves every column: two_factor_enabled as it was read, or as it was asked.
BeginPatch(q, value) ==
    /\ account \in {"preferences", "complete"}
    /\ Start(q, IF value THEN "patch on" ELSE "patch off", Nobody, Absent)
    /\ Meet
    /\ byHand' = (byHand \/ (value # flag /\ ~overlap /\ ~killed))
    /\ UNCHANGED <<account, factor, again, killed>>

SavePreferences(q) ==
    /\ at[q] \in {"patch on", "patch off"}
    /\ flag' = (at[q] = "patch on")
    /\ End(q)
    /\ UNCHANGED <<account, device, now, challenge, history>>

-----------------------------------------------------------------------------
Tick ==
    /\ now < MaxTime
    /\ now' = now + 1
    /\ UNCHANGED <<account, flag, device, challenge, request, history>>

\* A challenge lives 300 seconds.
ExpireChallenge(c) ==
    /\ challenge[c] = "issued"
    /\ challenge' = [challenge EXCEPT ![c] = "gone"]
    /\ UNCHANGED <<account, flag, device, now, request, history>>

\* A worker is killed.  Bound: once, and only before requests have overlapped.
Kill(q) ==
    /\ at[q] # "idle" /\ ~killed /\ ~overlap
    /\ killed' = TRUE
    /\ End(q)
    /\ UNCHANGED <<account, factor, spent, again, overlap, byHand>>

SignInNext ==
    \/ \E q \in Handlers :
        \/ BeginRegister(q) \/ InsertUser(q) \/ InsertPreferences(q) \/ InsertStats(q)
        \/ BeginSetup(q) \/ WipeUnconfirmed(q)
        \/ \E d \in Devices :
            \/ CreateDevice(q, d)
            \/ \E step \in {"setup", "disable"} : BeginCode(q, step, d)
        \/ \E c \in Challenges : ReadChallenge(q, c)
        \/ DropChallenge(q) \/ LoadDevice(q)
        \/ \E t \in 1 .. MaxTime : RightCode(q, t)
        \/ \E value \in BOOLEAN : BeginPatch(q, value)
        \/ WrongCode(q) \/ Confirm(q) \/ Remove(q) \/ SaveFlag(q)
        \/ SavePreferences(q) \/ Kill(q)
    \/ ExchangeOAuth
    \/ Tick
    \/ \E c \in Challenges : Login(c) \/ ExpireChallenge(c)

SignInSpec == SignInInit /\ [][SignInNext]_signInVars

-----------------------------------------------------------------------------
\* Every account has preferences and counters, unless its registration is under way or was killed.
AccountComplete ==
    ~killed /\ ~Busy({"preferences", "stats"}) => account \in {"none", "complete"}

\* The interface shows a second factor if and only if sign-in asks for it, and there is at most
\* one, unless requests that save the device or the preferences overlapped or one was killed.
FlagTells ==
    /\ SignInTypeOK
    /\ ~overlap /\ ~killed => Cardinality(HasDevice("confirmed")) <= 1
    /\ ~overlap /\ ~killed /\ ~byHand /\ ~Busy({"flag on", "flag off"}) /\ account = "complete" =>
           flag = (HasDevice("confirmed") # {})

\* A code and a challenge serve once, unless two verifications overlapped.
ServesOnce == ~overlap => ~again
=============================================================================

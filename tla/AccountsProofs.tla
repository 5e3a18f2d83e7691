--------------------------- MODULE AccountsProofs ---------------------------
(***************************************************************************)
(* Proofs about the two models of apps/accounts: SignIn, for every number  *)
(* of devices, challenges, requests in flight and TOTP steps, and          *)
(* Sessions, for every number of sign-ins, of requests in flight and of    *)
(* tokens per session.                                                     *)
(*                                                                         *)
(* SignIn: while no two requests that save the device or its flag overlap, *)
(* there is one of them, the device is still as it read it, and Ready says *)
(* what it relies on.  So the code it accepts is newer than every code     *)
(* accepted before, and the flag it saves tells what the device has become.*)
(***************************************************************************)
EXTENDS Sessions, SignIn, FiniteSetTheorems, TLAPS

-----------------------------------------------------------------------------
(* SignIn: registration, the second factor and its flag. *)

\* What a request is about, and what it holds.
ShapeInv ==
    \A q \in Handlers :
        /\ at[q] \in CodeSteps \cup {"confirm", "remove"} => on[q] \in Devices
        /\ at[q] \in CodeSteps \cup {"confirm"} => seen[q] \in Device
        /\ at[q] = "consume" => on[q] \in Challenges

Registering == {"preferences", "stats"}

\* An account that is not complete has one registration that will complete it.
RegistrationInv ==
    /\ \A q \in Handlers : /\ at[q] = "preferences" => account = "bare"
                           /\ at[q] = "stats" => account = "preferences"
    /\ \A p, q \in Handlers : at[p] \in Registering /\ at[q] \in Registering => p = q
    /\ ~killed => /\ account = "bare" => Busy({"preferences"})
                  /\ account = "preferences" => Busy({"stats"})

\* One request saves the device or the flag at a time, and the device is as it was read.
AloneInv ==
    ~overlap =>
        /\ \A p, q \in Handlers : at[p] \in DeviceSteps /\ at[q] \in DeviceSteps => p = q
        /\ \A q \in Handlers : at[q] \in CodeSteps \cup {"confirm"} => device[on[q]] = seen[q]

\* A code that was accepted is too old for the device; a challenge is gone, and nobody is
\* about to accept it.
SpentInv ==
    ~overlap =>
        /\ ~again
        /\ \A d \in Devices : \A t \in 1 .. MaxTime :
              <<d, t>> \in spent /\ device[d] # Absent => t <= device[d].last_t
        /\ \A c \in Challenges : c \in spent =>
              challenge[c] = "gone" /\ \A q \in Handlers : at[q] = "consume" => on[q] # c
        /\ \A p, q \in Handlers : at[p] = "consume" /\ at[q] = "consume" /\ on[p] = on[q] => p = q

\* What the request that saves the device or the flag relies on.
Ready(q) ==
    /\ at[q] = "wipe" => HasDevice("confirmed") = {}
    /\ at[q] = "create" => \A d \in Devices : device[d] = Absent
    /\ at[q] \in {"setup", "confirm"} => device[on[q]].state = "new"
    /\ at[q] \in {"disable", "login", "remove"} => device[on[q]].state = "confirmed"
    /\ at[q] = "flag on" => HasDevice("confirmed") # {}
    /\ at[q] = "flag off" => HasDevice("confirmed") = {}
    /\ ~byHand => (at[q] = "patch on" => flag) /\ (at[q] = "patch off" => ~flag)

OrderInv ==
    ~overlap /\ ~killed =>
        /\ \A d, e \in Devices : device[d] # Absent /\ device[e] # Absent => d = e
        /\ account # "complete" =>
              ~flag /\ ~Busy(DeviceSteps) /\ \A d \in Devices : device[d] = Absent
        /\ \A q \in Handlers : Ready(q)
        /\ ~byHand /\ ~Busy({"flag on", "flag off"}) => (flag <=> HasDevice("confirmed") # {})

SignInIInv == SignInTypeOK /\ ShapeInv /\ RegistrationInv /\ AloneInv /\ SpentInv /\ OrderInv

-----------------------------------------------------------------------------
(* What is in a kept, and what a step does to its request. *)

Its == Devices \cup Challenges \cup {Nobody}
Codes == Challenges \cup (Devices \X (1 .. MaxTime))

LEMMA DeviceRow ==
    ASSUME SignInTypeOK, NEW d \in Devices
    PROVE  /\ device[d] # Absent <=> device[d] \in Device
           /\ device[d].state \in {"new", "confirmed"} <=> device[d] \in Device
           /\ device[d] \in Device => device[d].last_t \in 0 .. MaxTime
           /\ device[d] = Absent => device[d].state = "absent"
BY DEF SignInTypeOK, Device, Absent

LEMMA Confirmed ==
    ASSUME NEW state
    PROVE  \A d \in Devices : d \in HasDevice(state) <=> device[d].state = state
BY DEF HasDevice

Others(q) ==
    \A p \in Handlers \ {q} : at'[p] = at[p] /\ on'[p] = on[p] /\ seen'[p] = seen[p]

\* Goto and Start set the request, and keep the types.
LEMMA Moved ==
    ASSUME SignInTypeOK, NEW q \in Handlers, NEW step \in Steps, NEW it \in Its, NEW kept \in Device \cup {Absent},
           Goto(q, step, it, kept) \/ Start(q, step, it, kept)
    PROVE  /\ Others(q)
           /\ at'[q] = step /\ on'[q] = it /\ seen'[q] = kept
           /\ at' \in [Handlers -> Steps] /\ on' \in [Handlers -> Its]
           /\ seen' \in [Handlers -> Device \cup {Absent}]
BY DEF SignInTypeOK, Goto, Start, Others, Its

LEMMA Finished ==
    ASSUME SignInTypeOK, NEW q \in Handlers, End(q)
    PROVE  /\ Others(q)
           /\ at'[q] = "idle" /\ on'[q] = Nobody /\ seen'[q] = Absent
           /\ at' \in [Handlers -> Steps] /\ on' \in [Handlers -> Its]
           /\ seen' \in [Handlers -> Device \cup {Absent}]
<1>1. "idle" \in Steps /\ Nobody \in Its
  BY DEF Steps, Its
<1> QED
  BY <1>1, Moved DEF End

\* The types of a step, given those of what it writes.
LEMMA TypesFrom ==
    ASSUME SignInTypeOK, ShapeInv, NEW q \in Handlers, Others(q),
           at' \in [Handlers -> Steps], on' \in [Handlers -> Its],
           seen' \in [Handlers -> Device \cup {Absent}],
           at'[q] \in CodeSteps \cup {"confirm", "remove"} => on'[q] \in Devices,
           at'[q] \in CodeSteps \cup {"confirm"} => seen'[q] \in Device,
           at'[q] = "consume" => on'[q] \in Challenges,
           account' \in Accounts, flag' \in BOOLEAN, now' = now,
           device' \in [Devices -> Device \cup {Absent}],
           challenge' \in [Challenges -> {"unused", "issued", "gone"}], spent' \subseteq Codes
    PROVE  SignInTypeOK' /\ ShapeInv'
<1>1. SignInTypeOK'
  BY DEF SignInTypeOK, Its, Codes
<1>2. ShapeInv'
  BY DEF ShapeInv, Others
<1> QED
  BY <1>1, <1>2

\* Registration.
AccountStep(q) == BeginRegister(q) \/ InsertUser(q) \/ InsertPreferences(q) \/ InsertStats(q)

\* A request that will save a device or the flag starts.
StartStep(q) ==
    \/ BeginSetup(q)
    \/ \E d \in Devices, step \in {"setup", "disable"} : BeginCode(q, step, d)
    \/ \E value \in BOOLEAN : BeginPatch(q, value)

\* It saves.
DeviceStep(q) ==
    \/ WipeUnconfirmed(q) \/ (\E d \in Devices : CreateDevice(q, d))
    \/ (\E t \in 1 .. MaxTime : RightCode(q, t)) \/ WrongCode(q) \/ Confirm(q) \/ Remove(q)

FlagStep(q) == SaveFlag(q) \/ SavePreferences(q)

ChallengeStep(q) == (\E c \in Challenges : ReadChallenge(q, c)) \/ DropChallenge(q) \/ LoadDevice(q)

LEMMA NextSteps ==
    ASSUME [SignInNext]_signInVars
    PROVE  \/ \E q \in Handlers : \/ AccountStep(q) \/ StartStep(q) \/ DeviceStep(q)
                                  \/ FlagStep(q) \/ ChallengeStep(q) \/ Kill(q)
           \/ CreateFromProfile \/ Tick \/ (\E c \in Challenges : Login(c) \/ ExpireChallenge(c))
           \/ UNCHANGED signInVars
<1>1. ASSUME NEW q \in Handlers,
        \/ BeginRegister(q) \/ InsertUser(q) \/ InsertPreferences(q) \/ InsertStats(q)
        \/ BeginSetup(q) \/ WipeUnconfirmed(q)
        \/ \E d \in Devices :
            \/ CreateDevice(q, d)
            \/ \E step \in {"setup", "disable"} : BeginCode(q, step, d)
        \/ \E c \in Challenges : ReadChallenge(q, c)
        \/ DropChallenge(q) \/ LoadDevice(q)
        \/ \E t \in 1 .. MaxTime : RightCode(q, t)
        \/ \E value \in BOOLEAN : BeginPatch(q, value)
        \/ WrongCode(q) \/ Confirm(q) \/ Remove(q) \/ SaveFlag(q)
        \/ SavePreferences(q) \/ Kill(q)
      PROVE  \/ AccountStep(q) \/ StartStep(q) \/ DeviceStep(q)
             \/ FlagStep(q) \/ ChallengeStep(q) \/ Kill(q)
  BY <1>1 DEF AccountStep, StartStep, DeviceStep, FlagStep, ChallengeStep
<1>2. CASE ExchangeOAuth
  BY <1>2 DEF ExchangeOAuth
<1> QED
  BY <1>1, <1>2 DEF SignInNext

LEMMA AccountTypes ==
    ASSUME SignInTypeOK, ShapeInv, NEW q \in Handlers, AccountStep(q)
    PROVE  SignInTypeOK' /\ ShapeInv' /\ Others(q)
<1>1. UNCHANGED <<flag, device, now, challenge, spent>>
  BY DEF AccountStep, BeginRegister, InsertUser, InsertPreferences, InsertStats, factor, history
<1>2. account' \in Accounts
  BY DEF AccountStep, BeginRegister, InsertUser, InsertPreferences, InsertStats, SignInTypeOK, Accounts
<1>3. \E step \in {"insert", "preferences", "stats", "idle"} :
          Goto(q, step, Nobody, Absent) \/ Start(q, step, Nobody, Absent)
  BY DEF AccountStep, BeginRegister, InsertUser, InsertPreferences, InsertStats, End
<1>4. {"insert", "preferences", "stats", "idle"} \subseteq Steps /\ Nobody \in Its
  BY DEF Steps, Its
<1>5. /\ Others(q) /\ at'[q] \in {"insert", "preferences", "stats", "idle"}
      /\ at' \in [Handlers -> Steps] /\ on' \in [Handlers -> Its]
      /\ seen' \in [Handlers -> Device \cup {Absent}]
  BY <1>3, <1>4, Moved
<1>6. at'[q] \notin CodeSteps \cup {"confirm", "remove", "consume"}
  BY <1>5 DEF CodeSteps
<1> QED
  BY <1>1, <1>2, <1>5, <1>6, TypesFrom DEF SignInTypeOK, Codes

LEMMA StartTypes ==
    ASSUME SignInTypeOK, ShapeInv, NEW q \in Handlers, StartStep(q)
    PROVE  SignInTypeOK' /\ ShapeInv' /\ Others(q)
<1>1. UNCHANGED <<account, flag, device, now, challenge>> /\ spent' \subseteq spent
  BY DEF StartStep, BeginSetup, BeginCode, BeginPatch, factor, Meet
<1>2. \/ \E step \in {"wipe", "patch on", "patch off"} : Start(q, step, Nobody, Absent)
      \/ \E d \in Devices, step \in {"setup", "disable"} :
            Start(q, step, d, device[d]) /\ device[d].state \in {"new", "confirmed"}
  BY DEF StartStep, BeginSetup, BeginCode, BeginPatch
<1>3. CodeSteps \cup {"wipe", "patch on", "patch off"} \subseteq Steps /\ Nobody \in Its /\ Devices \subseteq Its
  BY DEF Steps, DeviceSteps, Its
<1>4. ASSUME NEW step \in {"wipe", "patch on", "patch off"}, Start(q, step, Nobody, Absent)
      PROVE  SignInTypeOK' /\ ShapeInv' /\ Others(q)
  <2>1. /\ Others(q) /\ at'[q] = step
        /\ at' \in [Handlers -> Steps] /\ on' \in [Handlers -> Its]
        /\ seen' \in [Handlers -> Device \cup {Absent}]
    BY <1>3, <1>4, Moved
  <2>2. at'[q] \notin CodeSteps \cup {"confirm", "remove", "consume"}
    BY <2>1 DEF CodeSteps
  <2> QED
    BY <1>1, <2>1, <2>2, TypesFrom DEF SignInTypeOK, Codes
<1>5. ASSUME NEW d \in Devices, NEW step \in {"setup", "disable"}, Start(q, step, d, device[d]),
             device[d].state \in {"new", "confirmed"}
      PROVE  SignInTypeOK' /\ ShapeInv' /\ Others(q)
  <2>1. device[d] \in Device /\ d \in Its /\ step \in Steps
    BY <1>3, <1>5, DeviceRow DEF CodeSteps
  <2>2. /\ Others(q) /\ at'[q] = step /\ on'[q] = d /\ seen'[q] = device[d]
        /\ at' \in [Handlers -> Steps] /\ on' \in [Handlers -> Its]
        /\ seen' \in [Handlers -> Device \cup {Absent}]
    BY <1>5, <2>1, Moved
  <2>3. at'[q] # "consume"
    BY <2>2
  <2> QED
    BY <1>1, <2>1, <2>2, <2>3, TypesFrom DEF SignInTypeOK, Codes
<1> QED
  BY <1>2, <1>4, <1>5

LEMMA DeviceTypes ==
    ASSUME SignInTypeOK, ShapeInv, NEW q \in Handlers, DeviceStep(q)
    PROVE  SignInTypeOK' /\ ShapeInv' /\ Others(q)
<1>1. UNCHANGED <<account, flag, now, challenge>>
  BY DEF DeviceStep, WipeUnconfirmed, CreateDevice, RightCode, WrongCode, Confirm, Remove
<1>2. Absent \in Device \cup {Absent} /\ spent \subseteq Codes
  BY DEF SignInTypeOK, Codes
<1>3. {"create", "idle", "confirm", "remove", "flag on", "flag off"} \subseteq Steps /\ Nobody \in Its /\ Devices \subseteq Its
  BY DEF Steps, DeviceSteps, Its
<1>4. {"create", "idle", "flag on", "flag off"} \cap (CodeSteps \cup {"confirm", "remove", "consume"}) = {}
  BY DEF CodeSteps
<1>5. ASSUME NEW step \in {"create", "idle", "flag on", "flag off"}, Goto(q, step, Nobody, Absent),
             device' \in [Devices -> Device \cup {Absent}], spent' \subseteq spent
      PROVE  SignInTypeOK' /\ ShapeInv' /\ Others(q)
  <2>1. /\ Others(q) /\ at'[q] = step
        /\ at' \in [Handlers -> Steps] /\ on' \in [Handlers -> Its]
        /\ seen' \in [Handlers -> Device \cup {Absent}]
    BY <1>3, <1>5, Moved
  <2>2. at'[q] \notin CodeSteps \cup {"confirm", "remove", "consume"}
    BY <1>4, <2>1
  <2>3. spent' \subseteq Codes
    BY <1>2, <1>5
  <2> QED
    BY <1>1, <1>5, <2>1, <2>2, <2>3, TypesFrom DEF SignInTypeOK
<1>6. CASE WipeUnconfirmed(q)
  BY <1>5, <1>6 DEF WipeUnconfirmed, SignInTypeOK, history
<1>7. ASSUME NEW d \in Devices, CreateDevice(q, d) PROVE SignInTypeOK' /\ ShapeInv' /\ Others(q)
  <2>1. [state |-> "new", last_t |-> 0] \in Device
    BY SignInAssumption DEF Device
  <2>2. device' \in [Devices -> Device \cup {Absent}] /\ spent' \subseteq spent /\ Goto(q, "idle", Nobody, Absent)
    BY <1>7, <2>1 DEF CreateDevice, SignInTypeOK, End
  <2> QED
    BY <1>5, <2>2
<1>8. CASE WrongCode(q)
  <2>1. at[q] \in CodeSteps
    BY <1>8 DEF WrongCode
  <2>2. on[q] \in Devices /\ seen[q] \in Device
    BY <2>1 DEF ShapeInv
  <2>3. device' \in [Devices -> Device \cup {Absent}] /\ spent' = spent /\ Goto(q, "idle", Nobody, Absent)
    BY <1>8, <2>2 DEF WrongCode, SignInTypeOK, End, history
  <2> QED
    BY <1>5, <2>3
<1>9. CASE Confirm(q)
  <2>1. on[q] \in Devices /\ seen[q] \in Device
    BY <1>9 DEF ShapeInv, Confirm
  <2>2. [seen[q] EXCEPT !.state = "confirmed"] \in Device
    BY <2>1 DEF Device
  <2>3. device' \in [Devices -> Device \cup {Absent}] /\ spent' = spent
    BY <1>9, <2>2 DEF Confirm, SignInTypeOK, history
  <2> QED
    BY <1>5, <1>9, <2>3 DEF Confirm
<1>10. CASE Remove(q)
  <2>1. device' \in [Devices -> Device \cup {Absent}] /\ spent' = spent
    BY <1>10 DEF Remove, SignInTypeOK, history
  <2> QED
    BY <1>5, <1>10, <2>1 DEF Remove
<1>11. ASSUME NEW t \in 1 .. MaxTime, RightCode(q, t) PROVE SignInTypeOK' /\ ShapeInv' /\ Others(q)
  <2> DEFINE kept == [seen[q] EXCEPT !.last_t = t]
  <2>1. at[q] \in CodeSteps
    BY <1>11 DEF RightCode
  <2>2. on[q] \in Devices /\ seen[q] \in Device
    BY <2>1 DEF ShapeInv
  <2>3. t \in 0 .. MaxTime
    BY SignInAssumption
  <2>4. kept \in Device
    BY <2>2, <2>3 DEF Device
  <2>5. device' = [device EXCEPT ![on[q]] = kept] /\ spent' \subseteq spent \cup {<<on[q], t>>}
    BY <1>11 DEF RightCode, Accept
  <2>6. /\ at[q] = "setup" => Goto(q, "confirm", on[q], kept)
        /\ at[q] = "disable" => Goto(q, "remove", on[q], Absent)
        /\ at[q] = "login" => End(q)
    BY <1>11 DEF RightCode
  <2> HIDE DEF kept
  <2>7. device' \in [Devices -> Device \cup {Absent}]
    BY <2>4, <2>5 DEF SignInTypeOK
  <2>8. spent' \subseteq Codes
    BY <1>2, <2>2, <2>5 DEF Codes
  <2>9. on[q] \in Its
    BY <1>3, <2>2
  <2>10. /\ Others(q)
         /\ at' \in [Handlers -> Steps] /\ on' \in [Handlers -> Its]
         /\ seen' \in [Handlers -> Device \cup {Absent}]
         /\ \/ at'[q] = "confirm" /\ on'[q] \in Devices /\ seen'[q] \in Device
            \/ at'[q] = "remove" /\ on'[q] \in Devices
            \/ at'[q] = "idle"
    <3>1. CASE at[q] = "setup"
      <4>1. Goto(q, "confirm", on[q], kept) /\ kept \in Device \cup {Absent}
        BY <2>4, <2>6, <3>1
      <4> QED
        BY <1>3, <2>2, <2>4, <2>9, <4>1, Moved
    <3>2. CASE at[q] = "disable"
      <4>1. Goto(q, "remove", on[q], Absent)
        BY <2>6, <3>2
      <4> QED
        BY <1>3, <2>2, <2>9, <4>1, Moved
    <3>3. CASE at[q] = "login"
      BY <2>6, <3>3, Finished
    <3> QED
      BY <2>1, <3>1, <3>2, <3>3 DEF CodeSteps
  <2>11. /\ at'[q] \in CodeSteps \cup {"confirm", "remove"} => on'[q] \in Devices
         /\ at'[q] \in CodeSteps \cup {"confirm"} => seen'[q] \in Device
         /\ at'[q] # "consume"
    BY <2>10 DEF CodeSteps
  <2> QED
    BY <1>1, <2>7, <2>8, <2>10, <2>11, TypesFrom DEF SignInTypeOK
<1> QED
  BY <1>6, <1>7, <1>8, <1>9, <1>10, <1>11 DEF DeviceStep

LEMMA FlagTypes ==
    ASSUME SignInTypeOK, ShapeInv, NEW q \in Handlers, FlagStep(q) \/ Kill(q)
    PROVE  SignInTypeOK' /\ ShapeInv' /\ Others(q) /\ at'[q] = "idle"
<1>1. UNCHANGED <<account, device, now, challenge, spent>> /\ End(q)
  BY DEF FlagStep, SaveFlag, SavePreferences, Kill, factor, history
<1>2. flag' \in BOOLEAN
  BY DEF FlagStep, SaveFlag, SavePreferences, Kill, factor, SignInTypeOK
<1>3. /\ Others(q) /\ at'[q] = "idle"
      /\ at' \in [Handlers -> Steps] /\ on' \in [Handlers -> Its]
      /\ seen' \in [Handlers -> Device \cup {Absent}]
  BY <1>1, Finished
<1>4. at'[q] \notin CodeSteps \cup {"confirm", "remove", "consume"}
  BY <1>3 DEF CodeSteps
<1> QED
  BY <1>1, <1>2, <1>3, <1>4, TypesFrom DEF SignInTypeOK, Codes

LEMMA ChallengeTypes ==
    ASSUME SignInTypeOK, ShapeInv, NEW q \in Handlers, ChallengeStep(q)
    PROVE  SignInTypeOK' /\ ShapeInv' /\ Others(q)
<1>1. UNCHANGED <<account, flag, device, now>>
  BY DEF ChallengeStep, ReadChallenge, DropChallenge, LoadDevice, factor
<1>2. {"consume", "load", "login", "idle"} \subseteq Steps /\ Nobody \in Its /\ Devices \cup Challenges \subseteq Its
  BY DEF Steps, DeviceSteps, CodeSteps, Its
<1>3. spent \subseteq Codes /\ Challenges \subseteq Codes
  BY DEF SignInTypeOK, Codes
<1>4. ASSUME NEW c \in Challenges, ReadChallenge(q, c) PROVE SignInTypeOK' /\ ShapeInv' /\ Others(q)
  <2>1. Start(q, "consume", c, Absent) /\ spent' \subseteq spent /\ challenge' = challenge
    BY <1>4 DEF ReadChallenge, factor
  <2>2. /\ Others(q) /\ at'[q] = "consume" /\ on'[q] = c
        /\ at' \in [Handlers -> Steps] /\ on' \in [Handlers -> Its]
        /\ seen' \in [Handlers -> Device \cup {Absent}]
    BY <1>2, <2>1, Moved
  <2>3. at'[q] \notin CodeSteps \cup {"confirm", "remove"} /\ spent' \subseteq Codes
    BY <1>3, <2>1, <2>2 DEF CodeSteps
  <2> QED
    BY <1>1, <2>1, <2>2, <2>3, TypesFrom DEF SignInTypeOK
<1>5. CASE DropChallenge(q)
  <2>1. /\ at[q] = "consume" /\ Goto(q, "load", Nobody, Absent) /\ spent' \subseteq spent \cup {on[q]}
        /\ challenge' = [challenge EXCEPT ![on[q]] = "gone"]
    BY <1>5 DEF DropChallenge, Accept
  <2>2. on[q] \in Challenges
    BY <2>1 DEF ShapeInv
  <2>3. spent' \subseteq Codes /\ challenge' \in [Challenges -> {"unused", "issued", "gone"}]
    BY <1>3, <2>1, <2>2 DEF SignInTypeOK
  <2>4. /\ Others(q) /\ at'[q] = "load"
        /\ at' \in [Handlers -> Steps] /\ on' \in [Handlers -> Its]
        /\ seen' \in [Handlers -> Device \cup {Absent}]
    BY <1>2, <2>1, Moved
  <2>5. at'[q] \notin CodeSteps \cup {"confirm", "remove", "consume"}
    BY <2>4 DEF CodeSteps
  <2> QED
    BY <1>1, <2>3, <2>4, <2>5, TypesFrom DEF SignInTypeOK
<1>6. CASE LoadDevice(q)
  <2>1. challenge' = challenge /\ spent' \subseteq spent
    BY <1>6 DEF LoadDevice, factor, Meet
  <2>2. spent' \subseteq Codes
    BY <1>3, <2>1
  <2>3. \/ End(q)
        \/ \E d \in HasDevice("confirmed") : Goto(q, "login", d, device[d])
    BY <1>6 DEF LoadDevice
  <2>4. CASE End(q)
    <3>1. /\ Others(q) /\ at'[q] = "idle"
          /\ at' \in [Handlers -> Steps] /\ on' \in [Handlers -> Its]
          /\ seen' \in [Handlers -> Device \cup {Absent}]
      BY <2>4, Finished
    <3>2. at'[q] \notin CodeSteps \cup {"confirm", "remove", "consume"}
      BY <3>1 DEF CodeSteps
    <3> QED
      BY <1>1, <2>1, <2>2, <3>1, <3>2, TypesFrom DEF SignInTypeOK
  <2>5. ASSUME NEW d \in HasDevice("confirmed"), Goto(q, "login", d, device[d])
        PROVE  SignInTypeOK' /\ ShapeInv' /\ Others(q)
    <3>1. d \in Devices /\ device[d] \in Device /\ d \in Its
      BY <1>2, DeviceRow DEF HasDevice
    <3>2. /\ Others(q) /\ at'[q] = "login" /\ on'[q] = d /\ seen'[q] = device[d]
          /\ at' \in [Handlers -> Steps] /\ on' \in [Handlers -> Its]
          /\ seen' \in [Handlers -> Device \cup {Absent}]
      BY <1>2, <2>5, <3>1, Moved
    <3>3. at'[q] # "consume"
      BY <3>2
    <3> QED
      BY <1>1, <2>1, <2>2, <3>1, <3>2, <3>3, TypesFrom DEF SignInTypeOK
  <2> QED
    BY <2>3, <2>4, <2>5
<1> QED
  BY <1>4, <1>5, <1>6 DEF ChallengeStep

LEMMA TypesKept ==
    ASSUME SignInTypeOK, ShapeInv, [SignInNext]_signInVars
    PROVE  SignInTypeOK' /\ ShapeInv'
<1>1. CASE CreateFromProfile
  BY <1>1 DEF CreateFromProfile, factor, request, history, SignInTypeOK, ShapeInv, Accounts
<1>2. CASE Tick
  <2>1. now' \in 1 .. MaxTime
    BY <1>2, SignInAssumption DEF Tick, SignInTypeOK
  <2>2. UNCHANGED <<account, flag, device, challenge, at, on, seen, spent>>
    BY <1>2 DEF Tick, request, history
  <2> QED
    BY <2>1, <2>2 DEF SignInTypeOK, ShapeInv
<1>3. ASSUME NEW c \in Challenges, Login(c) \/ ExpireChallenge(c) PROVE SignInTypeOK' /\ ShapeInv'
  <2>1. UNCHANGED <<account, flag, device, now, at, on, seen, spent>>
    BY <1>3 DEF Login, ExpireChallenge, request, history
  <2>2. challenge' \in [Challenges -> {"unused", "issued", "gone"}]
    BY <1>3 DEF Login, ExpireChallenge, SignInTypeOK
  <2> QED
    BY <2>1, <2>2 DEF SignInTypeOK, ShapeInv
<1>4. CASE UNCHANGED signInVars
  BY <1>4 DEF signInVars, factor, request, history, SignInTypeOK, ShapeInv
<1> QED
  BY <1>1, <1>2, <1>3, <1>4, NextSteps, AccountTypes, StartTypes, DeviceTypes, FlagTypes, ChallengeTypes

-----------------------------------------------------------------------------
(* Registration. *)

LEMMA RegistrationSame ==
    ASSUME RegistrationInv, NEW q \in Handlers, Others(q), at[q] \notin Registering,
           at'[q] \notin Registering, account' = account, killed' = killed
    PROVE  RegistrationInv'
<1>1. \A p \in Handlers : at'[p] \in Registering => p # q /\ at'[p] = at[p]
  BY DEF Others
<1>2. \A p \in Handlers : at[p] \in Registering => at'[p] = at[p]
  BY DEF Others
<1>3. /\ Busy({"preferences"}) => Busy({"preferences"})'
      /\ Busy({"stats"}) => Busy({"stats"})'
  BY <1>2 DEF Busy, Registering
<1>4. \A p \in Handlers : /\ at'[p] = "preferences" => account' = "bare"
                          /\ at'[p] = "stats" => account' = "preferences"
  BY <1>1 DEF RegistrationInv, Registering
<1> QED
  BY <1>1, <1>3, <1>4 DEF RegistrationInv

LEMMA RegistrationKept ==
    ASSUME SignInTypeOK, ShapeInv, RegistrationInv, [SignInNext]_signInVars
    PROVE  RegistrationInv'
<1>1. account = "none" => \A q \in Handlers : at[q] \notin Registering
  BY DEF RegistrationInv, Registering
<1>2. ASSUME NEW q \in Handlers, AccountStep(q) PROVE RegistrationInv'
  <2>1. Others(q) /\ killed' = killed
    BY <1>2, AccountTypes DEF AccountStep, BeginRegister, InsertUser, InsertPreferences, InsertStats, history
  <2>2. CASE BeginRegister(q)
    <3>1. at[q] = "idle" /\ at'[q] = "insert" /\ account' = account
      BY <2>2 DEF BeginRegister, Start, SignInTypeOK
    <3> QED
      BY <2>1, <3>1, RegistrationSame DEF Registering
  <2>3. CASE InsertUser(q) /\ account # "none"
    <3>1. at[q] = "insert" /\ at'[q] = "idle" /\ account' = account
      BY <2>3 DEF InsertUser, End, Goto, SignInTypeOK
    <3> QED
      BY <2>1, <3>1, RegistrationSame DEF Registering
  <2>4. CASE InsertUser(q) /\ account = "none"
    <3>1. at'[q] = "preferences" /\ account' = "bare"
      BY <2>4 DEF InsertUser, Goto, SignInTypeOK
    <3>2. \A p \in Handlers : at'[p] \in Registering => p = q
      BY <1>1, <2>1, <2>4 DEF Others
    <3> QED
      BY <3>1, <3>2 DEF RegistrationInv, Registering, Busy
  <2>5. CASE InsertPreferences(q)
    <3>1. at[q] = "preferences" /\ at'[q] = "stats" /\ account' = "preferences"
      BY <2>5 DEF InsertPreferences, Goto, SignInTypeOK
    <3>2. \A p \in Handlers : at'[p] \in Registering => p = q
      BY <2>1, <3>1 DEF RegistrationInv, Others, Registering
    <3> QED
      BY <3>1, <3>2 DEF RegistrationInv, Registering, Busy
  <2>6. CASE InsertStats(q)
    <3>1. at[q] = "stats" /\ at'[q] = "idle" /\ account' = "complete"
      BY <2>6 DEF InsertStats, End, Goto, SignInTypeOK
    <3>2. \A p \in Handlers : at'[p] \notin Registering
      BY <2>1, <3>1 DEF RegistrationInv, Others, Registering
    <3> QED
      BY <3>1, <3>2 DEF RegistrationInv, Registering
  <2> QED
    BY <1>2, <2>2, <2>3, <2>4, <2>5, <2>6 DEF AccountStep
<1>3. ASSUME NEW q \in Handlers, StartStep(q) \/ DeviceStep(q) \/ FlagStep(q) \/ ChallengeStep(q)
      PROVE  RegistrationInv'
  <2>1. Others(q)
    BY <1>3, StartTypes, DeviceTypes, FlagTypes, ChallengeTypes
  <2>2. account' = account /\ killed' = killed
    <3>1. CASE StartStep(q)
      BY <3>1 DEF StartStep, BeginSetup, BeginCode, BeginPatch
    <3>2. CASE DeviceStep(q)
      BY <3>2 DEF DeviceStep, WipeUnconfirmed, CreateDevice, RightCode, WrongCode, Confirm, Remove, history
    <3>3. CASE FlagStep(q) \/ ChallengeStep(q)
      BY <3>3 DEF FlagStep, SaveFlag, SavePreferences, ChallengeStep, ReadChallenge, DropChallenge, LoadDevice, history
    <3> QED
      BY <1>3, <3>1, <3>2, <3>3
  <2>3. at[q] \notin Registering /\ at'[q] \notin Registering
    <3>1. CASE StartStep(q)
      BY <3>1 DEF StartStep, BeginSetup, BeginCode, BeginPatch, Start, SignInTypeOK, Registering
    <3>2. CASE WipeUnconfirmed(q) \/ \E d \in Devices : CreateDevice(q, d)
      BY <3>2 DEF WipeUnconfirmed, CreateDevice, End, Goto, SignInTypeOK, Registering
    <3>3. ASSUME NEW t \in 1 .. MaxTime, RightCode(q, t)
          PROVE  at[q] \notin Registering /\ at'[q] \notin Registering
      <4>1. at[q] \in CodeSteps
        BY <3>3 DEF RightCode
      <4>2. at'[q] \in {"confirm", "remove", "idle"}
        BY <3>3, <4>1 DEF RightCode, CodeSteps, End, Goto, SignInTypeOK
      <4> QED
        BY <4>1, <4>2 DEF CodeSteps, Registering
    <3>4. CASE WrongCode(q) \/ Confirm(q) \/ Remove(q)
      BY <3>4 DEF WrongCode, Confirm, Remove, CodeSteps, End, Goto, SignInTypeOK, Registering
    <3>5. CASE FlagStep(q)
      BY <3>5, FlagTypes DEF FlagStep, SaveFlag, SavePreferences, Registering
    <3>6. CASE ChallengeStep(q)
      BY <3>6 DEF ChallengeStep, ReadChallenge, DropChallenge, LoadDevice, Start, End, Goto, SignInTypeOK, Registering
    <3> QED
      BY <1>3, <3>1, <3>2, <3>3, <3>4, <3>5, <3>6 DEF DeviceStep
  <2> QED
    BY <2>1, <2>2, <2>3, RegistrationSame
<1>4. ASSUME NEW q \in Handlers, Kill(q) PROVE RegistrationInv'
  <2>1. Others(q) /\ at'[q] = "idle" /\ killed' /\ account' = account
    BY <1>4, FlagTypes DEF Kill
  <2>2. \A p \in Handlers : at'[p] \in Registering => at'[p] = at[p]
    BY <2>1 DEF Others, Registering
  <2>3. \A p \in Handlers : /\ at'[p] = "preferences" => account' = "bare"
                            /\ at'[p] = "stats" => account' = "preferences"
    BY <2>1, <2>2 DEF RegistrationInv, Registering
  <2> QED
    BY <2>1, <2>2, <2>3 DEF RegistrationInv
<1>5. CASE CreateFromProfile
  <2>1. account = "none" /\ account' = "complete" /\ at' = at
    BY <1>5 DEF CreateFromProfile, request
  <2> QED
    BY <1>1, <2>1 DEF RegistrationInv, Registering
<1>6. CASE Tick \/ (\E c \in Challenges : Login(c) \/ ExpireChallenge(c)) \/ UNCHANGED signInVars
  <2>1. at' = at /\ account' = account /\ killed' = killed
    BY <1>6 DEF Tick, Login, ExpireChallenge, signInVars, request, history
  <2> QED
    BY <2>1 DEF RegistrationInv, Busy
<1> QED
  BY <1>2, <1>3, <1>4, <1>5, <1>6, NextSteps

-----------------------------------------------------------------------------
(* One request on the device at a time. *)

LEMMA AloneFrame ==
    ASSUME SignInTypeOK, ShapeInv, AloneInv, NEW q \in Handlers, Others(q), overlap => overlap',
           at'[q] \in DeviceSteps => at[q] \in DeviceSteps \/ overlap' \/ ~Busy(DeviceSteps),
           device' = device \/ at[q] \in DeviceSteps,
           at'[q] \in CodeSteps \cup {"confirm"} => device'[on'[q]] = seen'[q] \/ overlap'
    PROVE  AloneInv'
<1> SUFFICES ASSUME ~overlap'
             PROVE  /\ \A p, r \in Handlers : at'[p] \in DeviceSteps /\ at'[r] \in DeviceSteps => p = r
                    /\ \A p \in Handlers : at'[p] \in CodeSteps \cup {"confirm"} => device'[on'[p]] = seen'[p]
  BY DEF AloneInv
<1>1. /\ \A p, r \in Handlers : at[p] \in DeviceSteps /\ at[r] \in DeviceSteps => p = r
      /\ \A p \in Handlers : at[p] \in CodeSteps \cup {"confirm"} => device[on[p]] = seen[p]
  BY DEF AloneInv
<1>2. \A p, r \in Handlers : at'[p] \in DeviceSteps /\ at'[r] \in DeviceSteps => p = r
  BY <1>1 DEF Others, Busy
<1>3. ASSUME NEW p \in Handlers, p # q, at'[p] \in CodeSteps \cup {"confirm"}
      PROVE  device'[on'[p]] = seen'[p]
  <2>1. at[p] \in CodeSteps \cup {"confirm"} /\ on'[p] = on[p] /\ seen'[p] = seen[p]
    BY <1>3 DEF Others
  <2>2. at[p] \in DeviceSteps
    BY <2>1 DEF DeviceSteps
  <2>3. device' = device
    BY <1>1, <1>3, <2>2
  <2> QED
    BY <1>1, <2>1, <2>3
<1> QED
  BY <1>2, <1>3

\* Meet sees every request that will save a device, the flag or the preferences.
LEMMA MeetSees ==
    ASSUME Meet
    PROVE  /\ overlap => overlap'
           /\ ~overlap' => ~Busy(DeviceSteps) /\ ~Busy(Registering) /\ spent' = spent
BY DEF Meet, Busy, Registering

LEMMA AloneKept ==
    ASSUME SignInTypeOK, ShapeInv, AloneInv, [SignInNext]_signInVars
    PROVE  AloneInv'
<1>1. ASSUME NEW q \in Handlers, AccountStep(q) PROVE AloneInv'
  <2>1. Others(q) /\ device' = device /\ overlap' = overlap
    BY <1>1, AccountTypes DEF AccountStep, BeginRegister, InsertUser, InsertPreferences, InsertStats, factor, history
  <2>2. at'[q] \in {"insert", "preferences", "stats", "idle"}
    BY <1>1 DEF AccountStep, BeginRegister, InsertUser, InsertPreferences, InsertStats, Start, End, Goto, SignInTypeOK
  <2>3. at'[q] \notin DeviceSteps /\ at'[q] \notin CodeSteps \cup {"confirm"}
    BY <2>2 DEF DeviceSteps, CodeSteps
  <2> QED
    BY <2>1, <2>3, AloneFrame
<1>2. ASSUME NEW q \in Handlers, StartStep(q) PROVE AloneInv'
  <2>1. Others(q) /\ device' = device /\ Meet
    BY <1>2, StartTypes DEF StartStep, BeginSetup, BeginCode, BeginPatch, factor
  <2>2. at'[q] \in CodeSteps \cup {"confirm"} => device'[on'[q]] = seen'[q]
    <3>1. CASE BeginSetup(q) \/ \E value \in BOOLEAN : BeginPatch(q, value)
      <4>1. at'[q] \in {"wipe", "patch on", "patch off"}
        BY <3>1 DEF BeginSetup, BeginPatch, Start, SignInTypeOK
      <4> QED
        BY <4>1 DEF CodeSteps
    <3>2. CASE \E d \in Devices, step \in {"setup", "disable"} : BeginCode(q, step, d)
      BY <2>1, <3>2 DEF BeginCode, Start, SignInTypeOK
    <3> QED
      BY <1>2, <3>1, <3>2 DEF StartStep
  <2> QED
    BY <2>1, <2>2, MeetSees, AloneFrame
<1>3. ASSUME NEW q \in Handlers, DeviceStep(q) PROVE AloneInv'
  <2>1. Others(q) /\ overlap' = overlap
    BY <1>3, DeviceTypes DEF DeviceStep, WipeUnconfirmed, CreateDevice, RightCode, WrongCode, Confirm, Remove, history
  <2>2. at[q] \in DeviceSteps
    BY <1>3 DEF DeviceStep, WipeUnconfirmed, CreateDevice, RightCode, WrongCode, Confirm, Remove, DeviceSteps
  <2>3. at'[q] \in CodeSteps \cup {"confirm"} => device'[on'[q]] = seen'[q]
    <3>1. CASE WipeUnconfirmed(q) \/ (\E d \in Devices : CreateDevice(q, d)) \/ WrongCode(q) \/ Confirm(q) \/ Remove(q)
      <4>1. at'[q] \in {"create", "idle", "flag on", "flag off"}
        BY <3>1 DEF WipeUnconfirmed, CreateDevice, WrongCode, Confirm, Remove, End, Goto, SignInTypeOK
      <4> QED
        BY <4>1 DEF CodeSteps
    <3>2. ASSUME NEW t \in 1 .. MaxTime, RightCode(q, t), at'[q] \in CodeSteps \cup {"confirm"}
          PROVE  device'[on'[q]] = seen'[q]
      <4>1. at[q] \in CodeSteps /\ on[q] \in Devices
        BY <3>2 DEF RightCode, ShapeInv
      <4>2. CASE at[q] = "setup"
        <5>1. /\ device' = [device EXCEPT ![on[q]] = [seen[q] EXCEPT !.last_t = t]]
              /\ Goto(q, "confirm", on[q], [seen[q] EXCEPT !.last_t = t])
          BY <3>2, <4>2 DEF RightCode
        <5>2. on'[q] = on[q] /\ seen'[q] = [seen[q] EXCEPT !.last_t = t]
          BY <5>1 DEF Goto, SignInTypeOK
        <5> QED
          BY <4>1, <5>1, <5>2 DEF SignInTypeOK
      <4>3. CASE at[q] # "setup"
        <5>1. at'[q] \in {"remove", "idle"}
          BY <3>2, <4>1, <4>3 DEF RightCode, CodeSteps, End, Goto, SignInTypeOK
        <5> QED
          BY <3>2, <5>1 DEF CodeSteps
      <4> QED
        BY <4>2, <4>3
    <3> QED
      BY <1>3, <3>1, <3>2 DEF DeviceStep
  <2> QED
    BY <2>1, <2>2, <2>3, AloneFrame
<1>4. ASSUME NEW q \in Handlers, FlagStep(q) \/ Kill(q) PROVE AloneInv'
  <2>1. Others(q) /\ at'[q] = "idle" /\ device' = device /\ overlap' = overlap
    BY <1>4, FlagTypes DEF FlagStep, SaveFlag, SavePreferences, Kill, factor, history
  <2>2. at'[q] \notin DeviceSteps /\ at'[q] \notin CodeSteps \cup {"confirm"}
    BY <2>1 DEF DeviceSteps, CodeSteps
  <2> QED
    BY <2>1, <2>2, AloneFrame
<1>5. ASSUME NEW q \in Handlers, ChallengeStep(q) PROVE AloneInv'
  <2>1. Others(q) /\ device' = device /\ (overlap => overlap')
    <3>1. Others(q)
      BY <1>5, ChallengeTypes
    <3>2. CASE \E c \in Challenges : ReadChallenge(q, c)
      BY <3>1, <3>2 DEF ReadChallenge, factor
    <3>4. CASE DropChallenge(q)
      BY <3>1, <3>4 DEF DropChallenge
    <3>3. CASE LoadDevice(q)
      <4>1. Meet \/ overlap' = overlap
        BY <3>3 DEF LoadDevice
      <4>2. device' = device
        BY <3>3 DEF LoadDevice, factor
      <4> QED
        BY <3>1, <4>1, <4>2, MeetSees
    <3> QED
      BY <1>5, <3>2, <3>3, <3>4 DEF ChallengeStep
  <2>2. CASE (\E c \in Challenges : ReadChallenge(q, c)) \/ DropChallenge(q) \/ (LoadDevice(q) /\ End(q))
    <3>1. at'[q] \in {"consume", "load", "idle"}
      BY <2>2 DEF ReadChallenge, DropChallenge, Start, End, Goto, SignInTypeOK
    <3>2. at'[q] \notin DeviceSteps /\ at'[q] \notin CodeSteps \cup {"confirm"}
      BY <3>1 DEF DeviceSteps, CodeSteps
    <3> QED
      BY <2>1, <3>2, AloneFrame
  <2>3. ASSUME NEW d \in HasDevice("confirmed"), Goto(q, "login", d, device[d]), Meet PROVE AloneInv'
    <3>1. on'[q] = d /\ seen'[q] = device[d]
      BY <2>3 DEF Goto, SignInTypeOK
    <3> QED
      BY <2>1, <2>3, <3>1, MeetSees, AloneFrame
  <2> QED
    BY <1>5, <2>2, <2>3 DEF ChallengeStep, LoadDevice
<1>6. CASE CreateFromProfile \/ Tick \/ (\E c \in Challenges : Login(c) \/ ExpireChallenge(c)) \/ UNCHANGED signInVars
  <2>1. UNCHANGED <<at, on, seen, device, overlap>>
    BY <1>6 DEF CreateFromProfile, Tick, Login, ExpireChallenge, signInVars, factor, request, history
  <2> QED
    BY <2>1 DEF AloneInv
<1> QED
  BY <1>1, <1>2, <1>3, <1>4, <1>5, <1>6, NextSteps

-----------------------------------------------------------------------------
(* Codes and challenges. *)

LEMMA CodeNotChallenge ==
    ASSUME NEW d \in Devices, NEW t \in 1 .. MaxTime
    PROVE  <<d, t>> \notin Challenges
BY SignInAssumption

\* A step that accepts nothing and makes no device forget a code.
LEMMA SpentFrame ==
    ASSUME SignInTypeOK, SpentInv, NEW q \in Handlers, Others(q), overlap => overlap',
           at'[q] # "consume" \/ (at'[q] = at[q] /\ on'[q] = on[q]),
           \A c \in Challenges : challenge[c] = "gone" => challenge'[c] = "gone",
           ~overlap' => spent' \subseteq spent /\ again' = again,
           ~overlap' => \A d \in Devices :
               \/ device'[d] = Absent
               \/ \A t \in 1 .. MaxTime : <<d, t>> \notin spent'
               \/ device[d] # Absent /\ device'[d].last_t = device[d].last_t
    PROVE  SpentInv'
<1> SUFFICES ASSUME ~overlap'
             PROVE  /\ ~again'
                    /\ \A d \in Devices : \A t \in 1 .. MaxTime :
                          <<d, t>> \in spent' /\ device'[d] # Absent => t <= device'[d].last_t
                    /\ \A c \in Challenges : c \in spent' =>
                          challenge'[c] = "gone" /\ \A p \in Handlers : at'[p] = "consume" => on'[p] # c
                    /\ \A p, r \in Handlers : at'[p] = "consume" /\ at'[r] = "consume" /\ on'[p] = on'[r] => p = r
  BY DEF SpentInv
<1>1. /\ ~again
      /\ \A d \in Devices : \A t \in 1 .. MaxTime :
            <<d, t>> \in spent /\ device[d] # Absent => t <= device[d].last_t
      /\ \A c \in Challenges : c \in spent =>
            challenge[c] = "gone" /\ \A p \in Handlers : at[p] = "consume" => on[p] # c
      /\ \A p, r \in Handlers : at[p] = "consume" /\ at[r] = "consume" /\ on[p] = on[r] => p = r
  BY DEF SpentInv
<1>2. \A p \in Handlers : at'[p] = "consume" => at[p] = "consume" /\ on'[p] = on[p]
  BY DEF Others
<1>3. \A d \in Devices : \A t \in 1 .. MaxTime :
          <<d, t>> \in spent' /\ device'[d] # Absent => t <= device'[d].last_t
  BY <1>1
<1>4. \A c \in Challenges : c \in spent' =>
          challenge'[c] = "gone" /\ \A p \in Handlers : at'[p] = "consume" => on'[p] # c
  BY <1>1, <1>2
<1> QED
  BY <1>1, <1>2, <1>3, <1>4

LEMMA SpentDevice ==
    ASSUME SignInTypeOK, ShapeInv, AloneInv, SpentInv, NEW q \in Handlers, DeviceStep(q)
    PROVE  SpentInv'
<1>1. Others(q)
  BY DeviceTypes
<1>2. challenge' = challenge /\ overlap' = overlap
  BY DEF DeviceStep, WipeUnconfirmed, CreateDevice, RightCode, WrongCode, Confirm, Remove, history
<1>3. at'[q] # "consume"
  <2>1. ASSUME NEW t \in 1 .. MaxTime, RightCode(q, t) PROVE at'[q] \in {"confirm", "remove", "idle"}
    BY <2>1 DEF RightCode, CodeSteps, End, Goto, SignInTypeOK
  <2> QED
    BY <2>1 DEF DeviceStep, WipeUnconfirmed, CreateDevice, WrongCode, Confirm, Remove, End, Goto, SignInTypeOK
<1>4. CASE WipeUnconfirmed(q)
  <2>1. \A d \in Devices : device'[d] = Absent \/ device'[d] = device[d]
    BY <1>4 DEF WipeUnconfirmed
  <2>2. spent' = spent /\ again' = again
    BY <1>4 DEF WipeUnconfirmed, history
  <2> QED
    BY <1>1, <1>2, <1>3, <2>1, <2>2, SpentFrame
<1>5. ASSUME NEW d \in Devices, CreateDevice(q, d) PROVE SpentInv'
  <2>1. spent' = {x \in spent : x \in Challenges \/ x[1] # d} /\ again' = again
    BY <1>5 DEF CreateDevice
  <2>2. \A t \in 1 .. MaxTime : <<d, t>> \notin spent'
    BY <2>1, CodeNotChallenge
  <2>3. \A e \in Devices : e # d => device'[e] = device[e]
    BY <1>5 DEF CreateDevice, SignInTypeOK
  <2>4. spent' \subseteq spent
    BY <2>1
  <2>5. \A e \in Devices : \/ device'[e] = Absent
                           \/ \A t \in 1 .. MaxTime : <<e, t>> \notin spent'
                           \/ device[e] # Absent /\ device'[e].last_t = device[e].last_t
    BY <2>2, <2>3
  <2> QED
    BY <1>1, <1>2, <1>3, <2>1, <2>4, <2>5, SpentFrame
<1>6. CASE WrongCode(q)
  <2>1. at[q] \in CodeSteps /\ on[q] \in Devices /\ spent' = spent /\ again' = again
    BY <1>6 DEF WrongCode, ShapeInv, history
  <2>2. ~overlap => device[on[q]] = seen[q]
    BY <2>1 DEF AloneInv
  <2>3. ~overlap => \A d \in Devices : device'[d] = device[d]
    BY <1>6, <2>1, <2>2 DEF WrongCode, SignInTypeOK
  <2> QED
    BY <1>1, <1>2, <1>3, <2>1, <2>3, SpentFrame
<1>7. CASE Confirm(q)
  <2>1. on[q] \in Devices /\ seen[q] \in Device /\ spent' = spent /\ again' = again
    BY <1>7 DEF Confirm, ShapeInv, history
  <2>2. ~overlap => device[on[q]] = seen[q]
    BY <1>7 DEF AloneInv, Confirm
  <2>3. device'[on[q]].last_t = seen[q].last_t /\ \A d \in Devices : d # on[q] => device'[d] = device[d]
    <3>1. device' = [device EXCEPT ![on[q]] = [seen[q] EXCEPT !.state = "confirmed"]]
      BY <1>7 DEF Confirm
    <3> QED
      BY <2>1, <3>1 DEF SignInTypeOK, Device
  <2>4. seen[q] # Absent
    BY <2>1 DEF Device, Absent
  <2>5. ~overlap => \A d \in Devices : \/ device'[d] = Absent
                                       \/ device[d] # Absent /\ device'[d].last_t = device[d].last_t
    BY <2>2, <2>3, <2>4
  <2> QED
    BY <1>1, <1>2, <1>3, <2>1, <2>5, SpentFrame
<1>8. CASE Remove(q)
  <2>1. on[q] \in Devices /\ spent' = spent /\ again' = again
    BY <1>8 DEF Remove, ShapeInv, history
  <2>2. \A d \in Devices : device'[d] = Absent \/ device'[d] = device[d]
    BY <1>8, <2>1 DEF Remove, SignInTypeOK
  <2> QED
    BY <1>1, <1>2, <1>3, <2>1, <2>2, SpentFrame
<1>9. ASSUME NEW t \in 1 .. MaxTime, RightCode(q, t) PROVE SpentInv'
  <2> SUFFICES ASSUME ~overlap' PROVE SpentInv'
    BY DEF SpentInv
  <2> DEFINE d == on[q]  kept == [seen[q] EXCEPT !.last_t = t]
  <2>1. at[q] \in CodeSteps /\ d \in Devices /\ seen[q] \in Device
    BY <1>9 DEF RightCode, ShapeInv
  <2>2. ~overlap /\ device[d] = seen[q]
    BY <1>2, <2>1 DEF AloneInv
  <2>3. device[d] # Absent
    BY <2>1, <2>2 DEF Device, Absent
  <2>4. t > seen[q].last_t
    BY <1>9 DEF RightCode, Acceptable
  <2>5. seen[q].last_t \in Nat /\ t \in Nat
    BY <2>1, SignInAssumption DEF Device
  <2>6. <<d, t>> \notin spent
    <3>1. <<d, t>> \in spent => t <= seen[q].last_t
      BY <2>1, <2>2, <2>3 DEF SpentInv
    <3> QED
      BY <2>4, <2>5, <3>1
  <2>7. spent' = spent \cup {<<d, t>>} /\ ~again'
    <3>1. Accept(<<d, t>>)
      BY <1>9 DEF RightCode
    <3>2. ~overlap /\ ~again
      BY <2>2 DEF SpentInv
    <3> QED
      BY <2>6, <3>1, <3>2 DEF Accept
  <2>8. device' = [device EXCEPT ![d] = kept]
    BY <1>9 DEF RightCode
  <2>9. kept.last_t = t
    BY <2>1 DEF Device
  <2> HIDE DEF kept
  <2>10. device'[d].last_t = t /\ \A e \in Devices : e # d => device'[e] = device[e]
    BY <2>1, <2>8, <2>9 DEF SignInTypeOK
  <2> HIDE DEF d
  <2>11. \A e \in Devices : \A u \in 1 .. MaxTime :
            <<e, u>> \in spent' /\ device'[e] # Absent => u <= device'[e].last_t
    <3> SUFFICES ASSUME NEW e \in Devices, NEW u \in 1 .. MaxTime, <<e, u>> \in spent', device'[e] # Absent
                 PROVE  u <= device'[e].last_t
      OBVIOUS
    <3>1. CASE e = d
      <4>1. u = t \/ <<d, u>> \in spent
        BY <2>7, <3>1
      <4>2. <<d, u>> \in spent => u <= seen[q].last_t
        BY <2>1, <2>2, <2>3 DEF SpentInv
      <4>3. u \in Nat
        BY SignInAssumption
      <4>4. u <= t
        BY <2>4, <2>5, <4>1, <4>2, <4>3
      <4> QED
        BY <2>10, <3>1, <4>4
    <3>2. CASE e # d
      <4>1. <<e, u>> \in spent
        BY <2>7, <3>2
      <4> QED
        BY <2>2, <2>10, <3>2, <4>1 DEF SpentInv
    <3> QED
      BY <3>1, <3>2
  <2>12. \A c \in Challenges : c \in spent' => c \in spent
    BY <2>1, <2>7, CodeNotChallenge
  <2>13. \A p \in Handlers : at'[p] = "consume" => at[p] = "consume" /\ on'[p] = on[p]
    BY <1>1, <1>3 DEF Others
  <2>14. /\ ~again'
         /\ \A c \in Challenges : c \in spent' =>
               challenge'[c] = "gone" /\ \A p \in Handlers : at'[p] = "consume" => on'[p] # c
         /\ \A p, r \in Handlers : at'[p] = "consume" /\ at'[r] = "consume" /\ on'[p] = on'[r] => p = r
    BY <1>2, <2>2, <2>7, <2>12, <2>13 DEF SpentInv
  <2> QED
    BY <2>11, <2>14 DEF SpentInv
<1> QED
  BY <1>4, <1>5, <1>6, <1>7, <1>8, <1>9 DEF DeviceStep

LEMMA SpentChallenge ==
    ASSUME SignInTypeOK, ShapeInv, SpentInv, NEW q \in Handlers, ChallengeStep(q)
    PROVE  SpentInv'
<1>1. Others(q) /\ UNCHANGED device
  BY ChallengeTypes DEF ChallengeStep, ReadChallenge, DropChallenge, LoadDevice, factor
<1>2. ASSUME NEW c \in Challenges, ReadChallenge(q, c) PROVE SpentInv'
  <2> SUFFICES ASSUME ~overlap' PROVE SpentInv'
    BY DEF SpentInv
  <2>1. /\ challenge[c] = "issued" /\ UNCHANGED <<challenge, again>>
        /\ ~overlap /\ (\A p \in Handlers : on[p] # c) /\ spent' = spent
    BY <1>2 DEF ReadChallenge, factor
  <2>2. at'[q] = "consume" /\ on'[q] = c
    BY <1>2 DEF ReadChallenge, Start, SignInTypeOK
  <2>3. c \notin spent
    BY <2>1 DEF SpentInv
  <2>4. \A p \in Handlers : p # q /\ at'[p] = "consume" => at[p] = "consume" /\ on'[p] = on[p] /\ on'[p] # c
    BY <1>1, <2>1 DEF Others
  <2>5. \A b \in Challenges : b \in spent' =>
            challenge'[b] = "gone" /\ \A p \in Handlers : at'[p] = "consume" => on'[p] # b
    BY <2>1, <2>2, <2>3, <2>4 DEF SpentInv
  <2>6. \A p, r \in Handlers : at'[p] = "consume" /\ at'[r] = "consume" /\ on'[p] = on'[r] => p = r
    BY <2>1, <2>2, <2>4 DEF SpentInv
  <2> QED
    BY <1>1, <2>1, <2>5, <2>6 DEF SpentInv
<1>3. CASE DropChallenge(q)
  <2> SUFFICES ASSUME ~overlap' PROVE SpentInv'
    BY DEF SpentInv
  <2>1. /\ at[q] = "consume" /\ ~overlap
        /\ challenge' = [challenge EXCEPT ![on[q]] = "gone"]
        /\ spent' = spent \cup {on[q]} /\ again' = (again \/ on[q] \in spent)
    BY <1>3 DEF DropChallenge, Accept
  <2>2. on[q] \in Challenges
    BY <2>1 DEF ShapeInv
  <2>3. on[q] \notin spent
    BY <2>1, <2>2 DEF SpentInv
  <2>4. at'[q] = "load"
    BY <1>3 DEF DropChallenge, Goto, SignInTypeOK
  <2>5. \A p \in Handlers : at'[p] = "consume" => p # q /\ at[p] = "consume" /\ on'[p] = on[p]
    BY <1>1, <2>4 DEF Others
  <2>6. \A p \in Handlers : at'[p] = "consume" => on'[p] # on[q]
    BY <2>1, <2>5 DEF SpentInv
  <2>7. challenge'[on[q]] = "gone" /\ \A c \in Challenges : c # on[q] => challenge'[c] = challenge[c]
    BY <2>1, <2>2 DEF SignInTypeOK
  <2>8. \A c \in Challenges : c \in spent' =>
            challenge'[c] = "gone" /\ \A p \in Handlers : at'[p] = "consume" => on'[p] # c
    BY <2>1, <2>5, <2>6, <2>7 DEF SpentInv
  <2>9. \A d \in Devices : \A t \in 1 .. MaxTime : <<d, t>> \in spent' => <<d, t>> \in spent
    BY <2>1, <2>2, CodeNotChallenge
  <2>10. ~again'
    BY <2>1, <2>3 DEF SpentInv
  <2> QED
    BY <1>1, <2>1, <2>5, <2>8, <2>9, <2>10 DEF SpentInv
<1>4. CASE LoadDevice(q)
  <2>1. challenge' = challenge /\ again' = again /\ (Meet \/ UNCHANGED <<overlap, spent>>)
    BY <1>4 DEF LoadDevice, factor
  <2>2. at'[q] # "consume"
    BY <1>4 DEF LoadDevice, End, Goto, SignInTypeOK
  <2>3. (overlap => overlap') /\ (~overlap' => spent' = spent)
    BY <2>1, MeetSees
  <2> QED
    BY <1>1, <2>1, <2>2, <2>3, SpentFrame
<1> QED
  BY <1>2, <1>3, <1>4 DEF ChallengeStep

LEMMA SpentKept ==
    ASSUME SignInTypeOK, ShapeInv, AloneInv, SpentInv, [SignInNext]_signInVars
    PROVE  SpentInv'
<1>1. ASSUME NEW q \in Handlers, AccountStep(q) PROVE SpentInv'
  <2>1. Others(q) /\ UNCHANGED <<device, challenge, spent, again, overlap>>
    BY <1>1, AccountTypes DEF AccountStep, BeginRegister, InsertUser, InsertPreferences, InsertStats, factor, history
  <2>2. at'[q] # "consume"
    BY <1>1 DEF AccountStep, BeginRegister, InsertUser, InsertPreferences, InsertStats, Start, End, Goto, SignInTypeOK
  <2> QED
    BY <2>1, <2>2, SpentFrame
<1>2. ASSUME NEW q \in Handlers, StartStep(q) PROVE SpentInv'
  <2>1. Others(q) /\ UNCHANGED <<device, challenge, again>> /\ Meet
    BY <1>2, StartTypes DEF StartStep, BeginSetup, BeginCode, BeginPatch, factor
  <2>2. at'[q] # "consume"
    BY <1>2 DEF StartStep, BeginSetup, BeginCode, BeginPatch, Start, SignInTypeOK
  <2> QED
    BY <2>1, <2>2, MeetSees, SpentFrame
<1>3. ASSUME NEW q \in Handlers, FlagStep(q) \/ Kill(q) PROVE SpentInv'
  <2>1. Others(q) /\ at'[q] = "idle" /\ UNCHANGED <<device, challenge, spent, again, overlap>>
    BY <1>3, FlagTypes DEF FlagStep, SaveFlag, SavePreferences, Kill, factor, history
  <2>2. at'[q] # "consume"
    BY <2>1
  <2> QED
    BY <2>1, <2>2, SpentFrame
<1>4. ASSUME NEW c \in Challenges, Login(c) \/ ExpireChallenge(c) PROVE SpentInv'
  <2>1. UNCHANGED <<device, at, on, spent, again, overlap>>
    BY <1>4 DEF Login, ExpireChallenge, request, history
  <2>2. \A b \in Challenges : challenge[b] = "gone" => challenge'[b] = "gone"
    BY <1>4 DEF Login, ExpireChallenge, SignInTypeOK
  <2> QED
    BY <2>1, <2>2 DEF SpentInv
<1>5. CASE CreateFromProfile \/ Tick \/ UNCHANGED signInVars
  <2>1. UNCHANGED <<device, challenge, at, on, spent, again, overlap>>
    BY <1>5 DEF CreateFromProfile, Tick, signInVars, factor, request, history
  <2> QED
    BY <2>1 DEF SpentInv
<1> QED
  BY <1>1, <1>2, <1>3, <1>4, <1>5, SpentDevice, SpentChallenge, NextSteps

-----------------------------------------------------------------------------
(* The flag and the device. *)

\* Nobody in between: what a request relies on moves with what it reads.
LEMMA ReadySame ==
    ASSUME NEW q \in Handlers, Ready(q), UNCHANGED <<flag, device>>, byHand => byHand',
           at'[q] \notin DeviceSteps \/ (at'[q] = at[q] /\ on'[q] = on[q])
    PROVE  Ready(q)'
<1>1. CASE at'[q] \notin DeviceSteps
  BY <1>1 DEF Ready, DeviceSteps, CodeSteps
<1>2. CASE at'[q] = at[q] /\ on'[q] = on[q]
  BY <1>2 DEF Ready, HasDevice
<1> QED
  BY <1>1, <1>2

\* A step that saves nothing and starts nothing.
LEMMA OrderFrame ==
    ASSUME SignInTypeOK, OrderInv, NEW q \in Handlers, Others(q),
           UNCHANGED <<account, flag, device, byHand>>, overlap => overlap', killed => killed',
           at[q] \notin DeviceSteps, at'[q] \notin DeviceSteps
    PROVE  OrderInv'
<1> SUFFICES ASSUME ~overlap', ~killed' PROVE OrderInv'
  BY DEF OrderInv
<1>1. /\ \A d, e \in Devices : device[d] # Absent /\ device[e] # Absent => d = e
      /\ account # "complete" =>
            ~flag /\ ~Busy(DeviceSteps) /\ \A d \in Devices : device[d] = Absent
      /\ \A p \in Handlers : Ready(p)
      /\ ~byHand /\ ~Busy({"flag on", "flag off"}) => (flag <=> HasDevice("confirmed") # {})
  BY DEF OrderInv
<1>2. \A p \in Handlers : at'[p] \in DeviceSteps <=> at[p] \in DeviceSteps
  BY DEF Others
<1>3. \A p \in Handlers : at'[p] \in {"flag on", "flag off"} <=> at[p] \in {"flag on", "flag off"}
  BY DEF Others, DeviceSteps
<1>4. (Busy(DeviceSteps)' <=> Busy(DeviceSteps)) /\ (Busy({"flag on", "flag off"})' <=> Busy({"flag on", "flag off"}))
  BY <1>2, <1>3 DEF Busy
<1>5. ASSUME NEW p \in Handlers PROVE Ready(p)'
  <2>1. at'[p] \notin DeviceSteps \/ (at'[p] = at[p] /\ on'[p] = on[p])
    BY DEF Others
  <2> QED
    BY <1>1, <2>1, ReadySame
<1>6. HasDevice("confirmed")' = HasDevice("confirmed")
  BY DEF HasDevice
<1> QED
  BY <1>1, <1>4, <1>5, <1>6 DEF OrderInv

\* Nobody else relies on anything while a request saves the device or the flag.
LEMMA OthersReady ==
    ASSUME SignInTypeOK, AloneInv, ~overlap, NEW q \in Handlers, Others(q), at[q] \in DeviceSteps
    PROVE  \A p \in Handlers : p # q => at'[p] \notin DeviceSteps /\ Ready(p)'
<1> SUFFICES ASSUME NEW p \in Handlers, p # q PROVE at'[p] \notin DeviceSteps /\ Ready(p)'
  OBVIOUS
<1>1. at'[p] \notin DeviceSteps
  BY DEF AloneInv, Others
<1> QED
  BY <1>1 DEF Ready, DeviceSteps, CodeSteps

\* It is enough to know the device, the request's next step and, when it is done, the flag.
LEMMA OrderFrom ==
    ASSUME SignInTypeOK, AloneInv, ~overlap, NEW q \in Handlers, Others(q), at[q] \in DeviceSteps, account' = "complete",
           \A d, e \in Devices : device'[d] # Absent /\ device'[e] # Absent => d = e,
           Ready(q)',
           ~byHand' /\ at'[q] \notin {"flag on", "flag off"} => (flag' <=> HasDevice("confirmed")' # {})
    PROVE  OrderInv'
<1>1. \A p \in Handlers : Ready(p)'
  BY OthersReady
<1>2. ~Busy({"flag on", "flag off"})' => at'[q] \notin {"flag on", "flag off"}
  BY DEF Busy
<1> QED
  BY <1>1, <1>2 DEF OrderInv

LEMMA OrderStart ==
    ASSUME SignInTypeOK, ShapeInv, RegistrationInv, OrderInv, NEW q \in Handlers, StartStep(q)
    PROVE  OrderInv'
<1> SUFFICES ASSUME ~overlap', ~killed' PROVE OrderInv'
  BY DEF OrderInv
<1>1. Others(q) /\ UNCHANGED <<account, flag, device, killed>> /\ Meet
  BY StartTypes DEF StartStep, BeginSetup, BeginCode, BeginPatch, factor
<1>2. /\ ~overlap /\ ~killed /\ ~Busy(DeviceSteps) /\ ~Busy(Registering)
  BY <1>1, MeetSees
<1>3. /\ \A d, e \in Devices : device[d] # Absent /\ device[e] # Absent => d = e
      /\ account # "complete" => \A d \in Devices : device[d] = Absent
      /\ \A p \in Handlers : Ready(p)
      /\ ~byHand /\ ~Busy({"flag on", "flag off"}) => (flag <=> HasDevice("confirmed") # {})
  BY <1>2 DEF OrderInv
<1>4. account # "none" => account = "complete"
  BY <1>2 DEF RegistrationInv, Registering, Busy, SignInTypeOK, Accounts
<1>5. ~Busy({"flag on", "flag off"}) /\ HasDevice("confirmed")' = HasDevice("confirmed")
  BY <1>1, <1>2 DEF Busy, DeviceSteps, HasDevice
<1>6. account = "complete"
  <2>1. CASE BeginSetup(q) \/ \E value \in BOOLEAN : BeginPatch(q, value)
    BY <1>4, <2>1 DEF BeginSetup, BeginPatch
  <2>2. ASSUME NEW d \in Devices, NEW step \in {"setup", "disable"}, BeginCode(q, step, d) PROVE account = "complete"
    <3>1. device[d].state \in {"new", "confirmed"}
      BY <2>2 DEF BeginCode
    <3>2. device[d] # Absent
      BY <3>1 DEF Absent
    <3> QED
      BY <1>3, <3>2
  <2> QED
    BY <2>1, <2>2 DEF StartStep
<1>7. byHand => byHand'
  BY DEF StartStep, BeginSetup, BeginCode, BeginPatch
<1>8. Ready(q)'
  <2>1. CASE BeginSetup(q)
    <3>1. at'[q] = "wipe" /\ HasDevice("confirmed") = {}
      BY <2>1 DEF BeginSetup, Start, SignInTypeOK
    <3> QED
      BY <1>5, <3>1 DEF Ready
  <2>2. ASSUME NEW d \in Devices, NEW step \in {"setup", "disable"}, BeginCode(q, step, d) PROVE Ready(q)'
    <3>1. /\ at'[q] = step /\ on'[q] = d
          /\ device'[d].state = (IF step = "setup" THEN "new" ELSE "confirmed")
      BY <1>1, <2>2 DEF BeginCode, Start, SignInTypeOK
    <3> QED
      BY <3>1 DEF Ready
  <2>3. ASSUME NEW value \in BOOLEAN, BeginPatch(q, value) PROVE Ready(q)'
    <3>1. at'[q] = (IF value THEN "patch on" ELSE "patch off")
      BY <2>3 DEF BeginPatch, Start, SignInTypeOK
    <3>2. ~byHand' => value = flag
      BY <1>2, <2>3 DEF BeginPatch
    <3>3. ~byHand' => (at'[q] = "patch on" => flag') /\ (at'[q] = "patch off" => ~flag')
      BY <1>1, <3>1, <3>2
    <3>4. at'[q] \in {"patch on", "patch off"}
      BY <3>1
    <3> QED
      BY <3>3, <3>4 DEF Ready
  <2> QED
    BY <2>1, <2>2, <2>3 DEF StartStep
<1>9. ASSUME NEW p \in Handlers, p # q PROVE Ready(p)'
  <2>1. at'[p] = at[p] /\ on'[p] = on[p]
    BY <1>1, <1>9 DEF Others
  <2> QED
    BY <1>1, <1>3, <1>7, <2>1, ReadySame
<1>10. ~byHand' => (flag' <=> HasDevice("confirmed")' # {})
  BY <1>1, <1>3, <1>5, <1>7
<1> QED
  BY <1>1, <1>3, <1>6, <1>8, <1>9, <1>10 DEF OrderInv

LEMMA OrderDevice ==
    ASSUME SignInTypeOK, ShapeInv, AloneInv, OrderInv, NEW q \in Handlers, DeviceStep(q)
    PROVE  OrderInv'
<1> SUFFICES ASSUME ~overlap', ~killed' PROVE OrderInv'
  BY DEF OrderInv
<1>1. Others(q) /\ UNCHANGED <<account, flag, overlap, byHand, killed>>
  BY DeviceTypes DEF DeviceStep, WipeUnconfirmed, CreateDevice, RightCode, WrongCode, Confirm, Remove, history
<1>2. at[q] \in DeviceSteps \ {"flag on", "flag off"}
  BY DEF DeviceStep, WipeUnconfirmed, CreateDevice, RightCode, WrongCode, Confirm, Remove, DeviceSteps, CodeSteps
<1>3. ~overlap /\ ~killed
  BY <1>1
<1>4. /\ \A d, e \in Devices : device[d] # Absent /\ device[e] # Absent => d = e
      /\ account # "complete" => ~Busy(DeviceSteps)
      /\ \A p \in Handlers : Ready(p)
      /\ ~byHand /\ ~Busy({"flag on", "flag off"}) => (flag <=> HasDevice("confirmed") # {})
  BY <1>3 DEF OrderInv
<1>5. account' = "complete"
  BY <1>1, <1>2, <1>4 DEF Busy
<1>6. ~Busy({"flag on", "flag off"})
  <2>1. ASSUME NEW p \in Handlers, at[p] \in {"flag on", "flag off"} PROVE FALSE
    <3>1. at[p] \in DeviceSteps
      BY <2>1 DEF DeviceSteps
    <3>2. p = q
      BY <1>2, <1>3, <3>1 DEF AloneInv
    <3> QED
      BY <1>2, <2>1, <3>2
  <2> QED
    BY <2>1 DEF Busy
<1>7. ~byHand' => (flag' <=> HasDevice("confirmed") # {})
  BY <1>1, <1>4, <1>6
\* The device that the request is about.
<1>8. at[q] \in CodeSteps \cup {"confirm"} =>
          on[q] \in Devices /\ seen[q] \in Device /\ device[on[q]] = seen[q] /\ device[on[q]] # Absent
  BY <1>3 DEF ShapeInv, AloneInv, Device, Absent
<1>9. CASE WipeUnconfirmed(q)
  <2>1. at[q] = "wipe" /\ at'[q] = "create"
    BY <1>9 DEF WipeUnconfirmed, Goto, SignInTypeOK
  <2>2. HasDevice("confirmed") = {}
    BY <1>4, <2>1 DEF Ready
  <2>3. \A d \in Devices : device'[d] = Absent
    <3> SUFFICES ASSUME NEW d \in Devices PROVE device'[d] = Absent
      OBVIOUS
    <3>1. device[d].state # "confirmed"
      BY <2>2 DEF HasDevice
    <3>2. device[d] = Absent \/ device[d].state = "new"
      BY <3>1, DeviceRow DEF Device, SignInTypeOK
    <3> QED
      BY <1>9, <3>2 DEF WipeUnconfirmed
  <2>4. HasDevice("confirmed")' = {}
    BY <2>3 DEF HasDevice, Absent
  <2>5. Ready(q)'
    BY <2>1, <2>3 DEF Ready
  <2> QED
    BY <1>1, <1>2, <1>3, <1>5, <1>7, <2>2, <2>3, <2>4, <2>5, OrderFrom
<1>10. ASSUME NEW d \in Devices, CreateDevice(q, d) PROVE OrderInv'
  <2>1. at[q] = "create" /\ at'[q] = "idle"
    BY <1>10 DEF CreateDevice, End, Goto, SignInTypeOK
  <2>2. \A e \in Devices : device[e] = Absent
    BY <1>4, <2>1 DEF Ready
  <2>3. device'[d].state = "new" /\ \A e \in Devices : e # d => device'[e] = Absent
    BY <1>10, <2>2 DEF CreateDevice, SignInTypeOK
  <2>4. HasDevice("confirmed") = {} /\ HasDevice("confirmed")' = {}
    BY <2>2, <2>3 DEF HasDevice, Absent
  <2>5. Ready(q)'
    BY <2>1 DEF Ready
  <2> QED
    BY <1>1, <1>2, <1>3, <1>5, <1>7, <2>3, <2>4, <2>5, OrderFrom
<1>11. CASE WrongCode(q)
  <2>1. at[q] \in CodeSteps /\ at'[q] = "idle"
    BY <1>11 DEF WrongCode, End, Goto, SignInTypeOK
  <2>2. \A d \in Devices : device'[d] = device[d]
    BY <1>8, <1>11, <2>1 DEF WrongCode, SignInTypeOK
  <2>3. HasDevice("confirmed")' = HasDevice("confirmed")
    BY <2>2 DEF HasDevice
  <2>4. Ready(q)'
    BY <2>1 DEF Ready
  <2>5. \A d, e \in Devices : device'[d] # Absent /\ device'[e] # Absent => d = e
    BY <1>4, <2>2
  <2> QED
    BY <1>1, <1>2, <1>3, <1>5, <1>7, <2>3, <2>4, <2>5, OrderFrom
<1>12. ASSUME NEW t \in 1 .. MaxTime, RightCode(q, t) PROVE OrderInv'
  <2> DEFINE d == on[q]  kept == [seen[q] EXCEPT !.last_t = t]
  <2>1. at[q] \in CodeSteps
    BY <1>12 DEF RightCode
  <2>2. d \in Devices /\ seen[q] \in Device /\ device[d] = seen[q] /\ device[d] # Absent
    BY <1>8, <2>1
  <2>3. device' = [device EXCEPT ![d] = kept]
    BY <1>12 DEF RightCode
  <2>4. kept.state = device[d].state
    BY <2>2 DEF Device
  <2>5. device[d].state = (IF at[q] = "setup" THEN "new" ELSE "confirmed")
    BY <1>4, <2>1 DEF Ready, CodeSteps
  <2>6. \/ at[q] = "setup" /\ at'[q] = "confirm" /\ on'[q] = d
        \/ at[q] = "disable" /\ at'[q] = "remove" /\ on'[q] = d
        \/ at[q] = "login" /\ at'[q] = "idle"
    BY <1>12, <2>1 DEF RightCode, CodeSteps, End, Goto, SignInTypeOK
  <2> HIDE DEF kept
  <2>7. device'[d].state = device[d].state /\ \A e \in Devices : e # d => device'[e] = device[e]
    BY <2>2, <2>3, <2>4 DEF SignInTypeOK
  <2> HIDE DEF d
  <2>8. \A e \in Devices : device'[e].state = device[e].state
    BY <2>7
  <2>9. HasDevice("confirmed")' = HasDevice("confirmed")
    BY <2>8 DEF HasDevice
  <2>10. \A e \in Devices : e # d => device'[e] = Absent
    BY <1>4, <2>2, <2>7
  <2>11. Ready(q)'
    BY <2>5, <2>6, <2>7 DEF Ready
  <2> QED
    BY <1>1, <1>2, <1>3, <1>5, <1>7, <2>9, <2>10, <2>11, OrderFrom
<1>13. CASE Confirm(q)
  <2>1. at[q] = "confirm" /\ at'[q] = "flag on"
    BY <1>13 DEF Confirm, Goto, SignInTypeOK
  <2>2. on[q] \in Devices /\ seen[q] \in Device /\ device[on[q]] # Absent
    BY <1>8, <2>1
  <2>3. device' = [device EXCEPT ![on[q]] = [seen[q] EXCEPT !.state = "confirmed"]]
    BY <1>13 DEF Confirm
  <2>4. device'[on[q]].state = "confirmed" /\ \A d \in Devices : d # on[q] => device'[d] = device[d]
    BY <2>2, <2>3 DEF SignInTypeOK, Device
  <2>5. on[q] \in HasDevice("confirmed")'
    BY <2>2, <2>4 DEF HasDevice
  <2>6. \A d, e \in Devices : device'[d] # Absent /\ device'[e] # Absent => d = e
    BY <1>4, <2>2, <2>4
  <2>7. Ready(q)'
    BY <2>1, <2>5 DEF Ready
  <2> QED
    BY <1>1, <1>2, <1>3, <1>5, <2>1, <2>6, <2>7, OrderFrom
<1>14. CASE Remove(q)
  <2>1. at[q] = "remove" /\ at'[q] = "flag off"
    BY <1>14 DEF Remove, Goto, SignInTypeOK
  <2>2. on[q] \in Devices /\ device[on[q]].state = "confirmed"
    BY <1>4, <2>1 DEF Ready, ShapeInv
  <2>3. device[on[q]] # Absent
    BY <2>2 DEF Absent
  <2>4. device' = [device EXCEPT ![on[q]] = Absent]
    BY <1>14 DEF Remove
  <2>5. \A d \in Devices : device'[d] = Absent
    BY <1>4, <2>2, <2>3, <2>4 DEF SignInTypeOK
  <2>6. HasDevice("confirmed")' = {}
    BY <2>5 DEF HasDevice, Absent
  <2>7. Ready(q)'
    BY <2>1, <2>6 DEF Ready
  <2> QED
    BY <1>1, <1>2, <1>3, <1>5, <2>1, <2>5, <2>7, OrderFrom
<1> QED
  BY <1>9, <1>10, <1>11, <1>12, <1>13, <1>14 DEF DeviceStep

LEMMA OrderFlag ==
    ASSUME SignInTypeOK, ShapeInv, AloneInv, OrderInv, NEW q \in Handlers, FlagStep(q)
    PROVE  OrderInv'
<1> SUFFICES ASSUME ~overlap', ~killed' PROVE OrderInv'
  BY DEF OrderInv
<1>1. Others(q) /\ at'[q] = "idle" /\ UNCHANGED <<account, device, overlap, byHand, killed>>
  BY FlagTypes DEF FlagStep, SaveFlag, SavePreferences, history
<1>2. at[q] \in {"flag on", "flag off", "patch on", "patch off"}
  BY DEF FlagStep, SaveFlag, SavePreferences
<1>3. at[q] \in DeviceSteps /\ ~overlap /\ ~killed
  BY <1>1, <1>2 DEF DeviceSteps
<1>4. /\ \A d, e \in Devices : device[d] # Absent /\ device[e] # Absent => d = e
      /\ account # "complete" => ~Busy(DeviceSteps)
      /\ \A p \in Handlers : Ready(p)
      /\ ~byHand /\ ~Busy({"flag on", "flag off"}) => (flag <=> HasDevice("confirmed") # {})
  BY <1>3 DEF OrderInv
<1>5. account = "complete"
  BY <1>3, <1>4 DEF Busy
<1>6. HasDevice("confirmed")' = HasDevice("confirmed")
  BY <1>1 DEF HasDevice
<1>7. Ready(q)'
  BY <1>1 DEF Ready
<1>8. ~byHand => (flag' <=> HasDevice("confirmed") # {})
  <2>1. CASE SaveFlag(q)
    <3>1. at[q] \in {"flag on", "flag off"} /\ (flag' <=> at[q] = "flag on")
      BY <1>5, <2>1 DEF SaveFlag
    <3> QED
      BY <1>4, <3>1 DEF Ready
  <2>2. CASE SavePreferences(q)
    <3>1. at[q] \in {"patch on", "patch off"} /\ (flag' <=> at[q] = "patch on")
      BY <2>2 DEF SavePreferences
    <3>2. ~byHand => (flag' <=> flag)
      BY <1>4, <3>1 DEF Ready
    <3>3. ~Busy({"flag on", "flag off"})
      <4>1. ASSUME NEW p \in Handlers, at[p] \in {"flag on", "flag off"} PROVE FALSE
        <5>1. at[p] \in DeviceSteps
          BY <4>1 DEF DeviceSteps
        <5>2. p = q
          BY <1>3, <5>1 DEF AloneInv
        <5> QED
          BY <3>1, <4>1, <5>2
      <4> QED
        BY <4>1 DEF Busy
    <3> QED
      BY <1>4, <3>2, <3>3
  <2> QED
    BY <2>1, <2>2 DEF FlagStep
<1> QED
  BY <1>1, <1>3, <1>4, <1>5, <1>6, <1>7, <1>8, OrderFrom

LEMMA OrderKept ==
    ASSUME SignInTypeOK, ShapeInv, RegistrationInv, AloneInv, OrderInv, [SignInNext]_signInVars
    PROVE  OrderInv'
<1>1. ASSUME NEW q \in Handlers, AccountStep(q) PROVE OrderInv'
  <2> SUFFICES ASSUME ~overlap', ~killed' PROVE OrderInv'
    BY DEF OrderInv
  <2>1. Others(q) /\ UNCHANGED <<flag, device, overlap, byHand, killed>>
    BY <1>1, AccountTypes DEF AccountStep, BeginRegister, InsertUser, InsertPreferences, InsertStats, factor, history
  <2>2. at[q] \in {"idle", "insert", "preferences", "stats"} /\ at'[q] \in {"insert", "preferences", "stats", "idle"}
    BY <1>1 DEF AccountStep, BeginRegister, InsertUser, InsertPreferences, InsertStats, Start, End, Goto, SignInTypeOK
  <2>3. at[q] \notin DeviceSteps /\ at'[q] \notin DeviceSteps
    BY <2>2 DEF DeviceSteps, CodeSteps
  <2>4. CASE account' = account
    BY <2>1, <2>3, <2>4, OrderFrame
  <2>5. CASE account # "complete"
    <3>1. /\ ~flag /\ ~Busy(DeviceSteps) /\ \A d \in Devices : device[d] = Absent
          /\ \A p \in Handlers : Ready(p)
      BY <2>1, <2>5 DEF OrderInv
    <3>2. ~Busy(DeviceSteps)'
      BY <2>1, <2>3, <3>1 DEF Busy, Others
    <3>3. \A p \in Handlers : at'[p] \notin DeviceSteps
      BY <3>2 DEF Busy
    <3>4. HasDevice("confirmed")' = {}
      BY <2>1, <3>1 DEF HasDevice, Absent
    <3>5. \A p \in Handlers : Ready(p)'
      BY <3>3 DEF Ready, DeviceSteps, CodeSteps
    <3> QED
      BY <2>1, <3>1, <3>2, <3>4, <3>5 DEF OrderInv
  <2>6. account' = account \/ account # "complete"
    BY <1>1 DEF AccountStep, BeginRegister, InsertUser, InsertPreferences, InsertStats, RegistrationInv
  <2> QED
    BY <2>4, <2>5, <2>6
<1>2. ASSUME NEW q \in Handlers, ChallengeStep(q) PROVE OrderInv'
  <2> SUFFICES ASSUME ~overlap', ~killed' PROVE OrderInv'
    BY DEF OrderInv
  <2>1. Others(q) /\ UNCHANGED <<account, flag, device, byHand, killed>>
    BY <1>2, ChallengeTypes DEF ChallengeStep, ReadChallenge, DropChallenge, LoadDevice, factor
  <2>2. at[q] \in {"idle", "consume", "load"}
    BY <1>2 DEF ChallengeStep, ReadChallenge, DropChallenge, LoadDevice, Start
  <2>3. at[q] \notin DeviceSteps
    BY <2>2 DEF DeviceSteps, CodeSteps
  <2>4. CASE (\E c \in Challenges : ReadChallenge(q, c)) \/ DropChallenge(q) \/ (LoadDevice(q) /\ End(q) /\ UNCHANGED overlap)
    <3>1. at'[q] \in {"consume", "load", "idle"}
      BY <2>4 DEF ReadChallenge, DropChallenge, Start, End, Goto, SignInTypeOK
    <3>2. at'[q] \notin DeviceSteps
      BY <3>1 DEF DeviceSteps, CodeSteps
    <3>3. overlap => overlap'
      BY <2>4 DEF ReadChallenge, DropChallenge
    <3> QED
      BY <2>1, <2>3, <3>2, <3>3, OrderFrame
  <2>5. ASSUME NEW d \in HasDevice("confirmed"), Goto(q, "login", d, device[d]), Meet PROVE OrderInv'
    <3>1. at'[q] = "login" /\ on'[q] = d
      BY <2>5 DEF Goto, SignInTypeOK
    <3>2. ~overlap /\ ~killed /\ ~Busy(DeviceSteps)
      BY <2>1, <2>5, MeetSees
    <3>3. /\ \A a, b \in Devices : device[a] # Absent /\ device[b] # Absent => a = b
          /\ account # "complete" => \A a \in Devices : device[a] = Absent
          /\ \A p \in Handlers : Ready(p)
          /\ ~byHand /\ ~Busy({"flag on", "flag off"}) => (flag <=> HasDevice("confirmed") # {})
      BY <3>2 DEF OrderInv
    <3>4. d \in Devices /\ device[d].state = "confirmed"
      BY <2>5 DEF HasDevice
    <3>5. account = "complete"
      <4>1. device[d] # Absent
        BY <3>4 DEF Absent
      <4> QED
        BY <3>3, <3>4, <4>1
    <3>6. Ready(q)'
      BY <2>1, <3>1, <3>4 DEF Ready
    <3>7. \A p \in Handlers : Ready(p)'
      <4> SUFFICES ASSUME NEW p \in Handlers, p # q PROVE Ready(p)'
        BY <3>6
      <4>1. at'[p] = at[p] /\ on'[p] = on[p]
        BY <2>1 DEF Others
      <4> QED
        BY <2>1, <3>3, <4>1, ReadySame
    <3>8. ~Busy({"flag on", "flag off"}) /\ HasDevice("confirmed")' = HasDevice("confirmed")
      BY <2>1, <3>2 DEF Busy, DeviceSteps, HasDevice
    <3> QED
      BY <2>1, <3>3, <3>5, <3>7, <3>8 DEF OrderInv
  <2> QED
    BY <1>2, <2>4, <2>5 DEF ChallengeStep, LoadDevice
<1>3. ASSUME NEW q \in Handlers, Kill(q) PROVE OrderInv'
  BY <1>3 DEF Kill, OrderInv
<1>4. CASE CreateFromProfile
  <2>1. account = "none" /\ account' = "complete" /\ UNCHANGED <<flag, device, at, on, overlap, byHand, killed>>
    BY <1>4 DEF CreateFromProfile, factor, request, history
  <2> QED
    BY <2>1 DEF OrderInv, Ready, HasDevice, Busy
<1>5. CASE Tick \/ (\E c \in Challenges : Login(c) \/ ExpireChallenge(c)) \/ UNCHANGED signInVars
  <2>1. UNCHANGED <<account, flag, device, at, on, overlap, byHand, killed>>
    BY <1>5 DEF Tick, Login, ExpireChallenge, signInVars, factor, request, history
  <2> QED
    BY <2>1 DEF OrderInv, Ready, HasDevice, Busy
<1> QED
  BY <1>1, <1>2, <1>3, <1>4, <1>5, OrderStart, OrderDevice, OrderFlag, NextSteps

-----------------------------------------------------------------------------
(* The invariant, and what follows from it. *)

LEMMA SignInInitHolds == SignInInit => SignInIInv
<1> SUFFICES ASSUME SignInInit PROVE SignInIInv
  OBVIOUS
<1>1. SignInTypeOK
  <2>1. now \in 1 .. MaxTime
    BY SignInAssumption DEF SignInInit
  <2>2. account \in Accounts /\ flag \in BOOLEAN /\ at \in [Handlers -> Steps] /\ spent = {}
    BY DEF SignInInit, Accounts, Steps
  <2>3. /\ device \in [Devices -> Device \cup {Absent}]
        /\ challenge \in [Challenges -> {"unused", "issued", "gone"}]
        /\ on \in [Handlers -> Devices \cup Challenges \cup {Nobody}]
        /\ seen \in [Handlers -> Device \cup {Absent}]
    BY DEF SignInInit
  <2> QED
    BY <2>1, <2>2, <2>3 DEF SignInTypeOK
<1>2. \A q \in Handlers : at[q] = "idle"
  BY DEF SignInInit
<1>3. "idle" \notin DeviceSteps \cup CodeSteps \cup Registering
  BY DEF DeviceSteps, CodeSteps, Registering
<1>4. ShapeInv
  BY <1>2 DEF ShapeInv, CodeSteps
<1>5. RegistrationInv
  BY <1>2 DEF SignInInit, RegistrationInv, Registering
<1>6. AloneInv
  BY <1>2, <1>3 DEF AloneInv, DeviceSteps
<1>7. SpentInv
  BY <1>2 DEF SignInInit, SpentInv
<1>8. OrderInv
  <2>1. \A q \in Handlers : Ready(q)
    BY <1>2 DEF Ready
  <2>2. ~Busy(DeviceSteps)
    BY <1>2, <1>3 DEF Busy
  <2>3. \A d \in Devices : device[d] = Absent
    BY DEF SignInInit
  <2>4. HasDevice("confirmed") = {}
    BY <2>3 DEF HasDevice, Absent
  <2> QED
    BY <2>1, <2>2, <2>3, <2>4 DEF SignInInit, OrderInv
<1> QED
  BY <1>1, <1>4, <1>5, <1>6, <1>7, <1>8 DEF SignInIInv

LEMMA SignInNextKeeps == SignInIInv /\ [SignInNext]_signInVars => SignInIInv'
BY TypesKept, RegistrationKept, AloneKept, SpentKept, OrderKept DEF SignInIInv

\* SignInIInv holds in every state: what each request of the account views relies on.
THEOREM SignInInvariantHolds == SignInSpec => []SignInIInv
BY SignInInitHolds, SignInNextKeeps, PTL DEF SignInSpec

\* Registration (accounts/serializers.py) and the social sign-in leave no account without its
\* preferences and counters, unless a worker is killed in between.
THEOREM AccountTheorem == SignInSpec => []AccountComplete
<1>1. SignInIInv => AccountComplete
  <2> SUFFICES ASSUME SignInTypeOK, RegistrationInv, ~killed, ~Busy(Registering) PROVE account \in {"none", "complete"}
    BY DEF SignInIInv, AccountComplete, Registering
  <2>1. ~Busy({"preferences"}) /\ ~Busy({"stats"})
    BY DEF Busy, Registering
  <2> QED
    BY <2>1 DEF RegistrationInv, SignInTypeOK, Accounts
<1> QED
  BY <1>1, SignInInvariantHolds, PTL

\* two_factor_enabled is what the sign-in asks for, and there is one confirmed device at most
\* (two_factor.py and the views that use it), while requests follow one another.
THEOREM FlagTheorem == SignInSpec => []FlagTells
<1>1. SignInIInv => FlagTells
  <2> SUFFICES ASSUME SignInTypeOK, OrderInv, ~overlap, ~killed
               PROVE  /\ Cardinality(HasDevice("confirmed")) <= 1
                      /\ ~byHand /\ ~Busy({"flag on", "flag off"}) => flag = (HasDevice("confirmed") # {})
    BY DEF SignInIInv, FlagTells
  <2> DEFINE S == HasDevice("confirmed")
  <2>1. \A d, e \in S : d = e
    <3>1. \A d \in S : d \in Devices /\ device[d].state = "confirmed"
      BY DEF HasDevice
    <3>2. \A d \in S : device[d] # Absent
      BY <3>1 DEF Absent
    <3> QED
      BY <3>1, <3>2 DEF OrderInv
  <2>2. Cardinality(S) <= 1
    <3>1. CASE S = {}
      BY <3>1, FS_EmptySet
    <3>2. ASSUME NEW d \in S PROVE Cardinality(S) <= 1
      <4>1. S = {d}
        BY <2>1
      <4>2. Cardinality({d}) = 1
        BY FS_Singleton
      <4> QED
        BY <4>1, <4>2
    <3> QED
      BY <3>1, <3>2
  <2>3. ~byHand /\ ~Busy({"flag on", "flag off"}) => (flag <=> S # {})
    BY DEF OrderInv
  <2>4. flag \in BOOLEAN
    BY DEF SignInTypeOK
  <2> QED
    BY <2>2, <2>3, <2>4
<1> QED
  BY <1>1, SignInInvariantHolds, PTL

\* A TOTP code (last_t of the device) and a challenge (consume_challenge_token) are accepted
\* once, as long as the requests that use them do not overlap.
THEOREM ServesTheorem == SignInSpec => []ServesOnce
<1>1. SignInIInv => ServesOnce
  BY DEF SignInIInv, SpentInv, ServesOnce
<1> QED
  BY <1>1, SignInInvariantHolds, PTL

-----------------------------------------------------------------------------
(* Sessions: refresh tokens, logout and revocation. *)

USE SessionsAssumption

\* Tokens are pairs.
LEMMA TokenParts ==
    ASSUME NEW t \in Tokens
    PROVE  t[1] \in Accesses /\ t[2] \in Numbers /\ t = <<t[1], t[2]>>
  BY DEF Tokens

LEMMA PairIsToken ==
    ASSUME NEW s \in Accesses, NEW n \in Numbers
    PROVE  <<s, n>> \in Tokens
  BY DEF Tokens

-----------------------------------------------------------------------------
\* Types: every action keeps the variables in their ranges.
LEMMA TypeStep == TypeOK /\ [Next]_vars => TypeOK'
<1> SUFFICES ASSUME TypeOK, [Next]_vars PROVE TypeOK'
  OBVIOUS
<1> USE DEF TypeOK
<1>1. CASE \E s \in Accesses : Access(s)
  <2> PICK s \in Accesses : Access(s)
    BY <1>1
  <2> QED
    BY DEF Access, InsertSession, InsertRefused, SignIn, BuildPair, NameSession,
           KillSignIn, RowStates, SignInStates, SignInSteps, Numbers
<1>2. CASE \E q \in Requests : Refresh(q)
  <2> PICK q \in Requests : Refresh(q)
    BY <1>2 DEF ExchangeOAuth
  <2>1. CASE \E t \in Tokens : VerifyRefresh(q, t)
    BY <2>1, TokenParts DEF VerifyRefresh, Begin, RequestStates, Refreshing
  <2>2. CASE RetireToken(q)
    BY <2>2 DEF RetireToken, Proceed, RequestStates, Refreshing
  <2>3. CASE IssueNext(q)
    BY <2>3, TokenParts DEF IssueNext, Proceed, RequestStates, Numbers
  <2>4. QED
    BY <2>1, <2>2, <2>3 DEF Refresh
<1>3. CASE \E q \in Requests : Logout(q)
  <2> PICK q \in Requests : Logout(q)
    BY <1>3
  <2>1. CASE \E t \in Tokens : VerifyLogout(q, t)
    BY <2>1 DEF VerifyLogout, Begin, RequestStates
  <2>2. CASE BuryToken(q)
    BY <2>2 DEF BuryToken, Proceed, RequestStates
  <2>3. CASE MarkLoggedOut(q)
    BY <2>3 DEF MarkLoggedOut, Proceed, RequestStates, RowStates
  <2>4. QED
    BY <2>1, <2>2, <2>3 DEF Logout
<1>4. CASE \E q \in Requests : Revoke(q)
  <2> PICK q \in Requests : Revoke(q)
    BY <1>4
  <2>1. CASE \E s \in Accesses : FetchSession(q, s)
    BY <2>1, PairIsToken DEF FetchSession, Begin, RequestStates
  <2>2. CASE KillNamedToken(q)
    BY <2>2 DEF KillNamedToken, Proceed, RequestStates
  <2>3. CASE CloseSession(q)
    BY <2>3, TokenParts DEF CloseSession, Proceed, RequestStates, RowStates
  <2>4. QED
    BY <2>1, <2>2, <2>3 DEF Revoke
<1>5. CASE \E q \in Requests : AbandonRequest(q)
  BY <1>5 DEF AbandonRequest, RequestStates
<1>6. CASE ResetPassword
  BY <1>6 DEF ResetPassword, RowStates
<1>7. CASE UNCHANGED vars
  BY <1>7 DEF vars
<1>8. QED
  BY <1>1, <1>2, <1>3, <1>4, <1>5, <1>6, <1>7 DEF Next

\* Types: every reachable state is in the ranges TypeOK names.
THEOREM TypeCorrect == Spec => []TypeOK
<1>1. Init => TypeOK
  BY PairIsToken DEF Init, TypeOK, RowStates, Numbers, SignInStates, RequestStates
<1>2. QED
  BY <1>1, TypeStep, PTL DEF Spec

-----------------------------------------------------------------------------
(* The inductive invariant. *)

Live(s, n) == n \in 1 .. issued[s] /\ <<s, n>> \notin blacklisted

\* The request q exchanges a token of s.
Exchanges(q, s) == pc[q] \in Refreshing /\ held[q][1] = s

\* A sign-in that has not built its pair has no token, one that has not finished no jti.
SignInOrder ==
    \A s \in Accesses :
        /\ signIn[s] \in {"idle", "refused", "build"} => issued[s] = 0
        /\ signIn[s] # "over" => jti[s] = 0

\* What a refresh or a logout holds was issued; once past its blacklisting, it is dead.
HeldIsIssued ==
    \A q \in Requests :
        /\ pc[q] \in Refreshing \cup {"bury", "mark"} => held[q][2] \in 1 .. issued[held[q][1]]
        /\ pc[q] = "mark" => held[q] \in blacklisted

\* A revocation holds the identifier its session still carries, unless it read the placeholder.
HeldIsNamed ==
    \A q \in Requests :
        pc[q] \in {"kill", "close"} /\ held[q][2] # 0 =>
            /\ jti[held[q][1]] = held[q][2]
            /\ pc[q] = "close" => held[q] \in blacklisted

\* A revoked session is blind or its token has a name and is dead.
RevokedIsNamed ==
    \A s \in Accesses :
        row[s] = "revoked" /\ s \notin blind => jti[s] # 0 /\ <<s, jti[s]>> \in blacklisted

\* At most one of: a usable token, or a refresh under way that will bring the next.
OneUsable ==
    \A s \in Accesses \ forked : \A n, m \in Numbers : Live(s, n) /\ Live(s, m) => n = m

OneRefresh ==
    \A s \in Accesses \ forked : \A p, q \in Requests :
        Exchanges(p, s) /\ Exchanges(q, s) => p = q

RefreshHoldsUsable ==
    \A s \in Accesses \ forked : \A q \in Requests, n \in Numbers :
        Exchanges(q, s) /\ Live(s, n) => pc[q] = "retire" /\ held[q][2] = n

IInv ==
    /\ TypeOK
    /\ SignInOrder
    /\ HeldIsIssued
    /\ HeldIsNamed
    /\ RevokedIsNamed
    /\ OneUsable
    /\ OneRefresh
    /\ RefreshHoldsUsable

\* What the parts of the invariant rest on.
Parts ==
    /\ SignInOrder
    /\ HeldIsIssued
    /\ HeldIsNamed
    /\ RevokedIsNamed
    /\ OneUsable
    /\ OneRefresh
    /\ RefreshHoldsUsable

\* A sign-in adds a row, its first token, or its jti.
LEMMA SignInKeeps ==
    ASSUME IInv, TypeOK', NEW s \in Accesses, Access(s)
    PROVE  Parts'
<1> USE DEF IInv, TypeOK, Parts
<1>1. CASE InsertSession(s) \/ InsertRefused(s) \/ KillSignIn(s)
  <2>1. UNCHANGED <<jti, issued, blacklisted, pc, held, forked, blind>>
    BY <1>1 DEF InsertSession, InsertRefused, KillSignIn
  <2>2. SignInOrder'
    BY <1>1, <2>1 DEF InsertSession, InsertRefused, KillSignIn, SignInOrder, SignInSteps
  <2>3. HeldIsIssued' /\ HeldIsNamed'
    BY <2>1 DEF HeldIsIssued, HeldIsNamed
  <2>4. RevokedIsNamed'
    BY <1>1, <2>1 DEF InsertSession, InsertRefused, KillSignIn, RevokedIsNamed
  <2>5. OneUsable' /\ OneRefresh' /\ RefreshHoldsUsable'
    BY <2>1 DEF OneUsable, OneRefresh, RefreshHoldsUsable, Exchanges, Live
  <2>6. QED
    BY <2>2, <2>3, <2>4, <2>5
<1>2. CASE BuildPair(s)
  <2> USE <1>2 DEF BuildPair
  <2>1. issued[s] = 0 /\ issued'[s] = 1 /\ \A u \in Accesses \ {s} : issued'[u] = issued[u]
    BY DEF SignInOrder
  <2>2. SignInOrder' /\ RevokedIsNamed'
    BY DEF SignInOrder, RevokedIsNamed
  <2>3. HeldIsIssued' /\ HeldIsNamed'
    BY <2>1, TokenParts DEF HeldIsIssued, HeldIsNamed
  <2>4. \A q \in Requests : ~Exchanges(q, s)
    BY <2>1, TokenParts DEF HeldIsIssued, Exchanges
  <2>5. OneUsable' /\ OneRefresh' /\ RefreshHoldsUsable'
    BY <2>1, <2>4 DEF OneUsable, OneRefresh, RefreshHoldsUsable, Exchanges, Live
  <2>6. QED
    BY <2>2, <2>3, <2>5
<1>3. CASE NameSession(s)
  <2> USE <1>3 DEF NameSession
  <2>1. jti[s] = 0 /\ jti'[s] = 1 /\ \A u \in Accesses \ {s} : jti'[u] = jti[u]
    BY DEF SignInOrder, Numbers
  <2>2. SignInOrder' /\ RevokedIsNamed'
    BY <2>1 DEF SignInOrder, RevokedIsNamed
  <2>3. HeldIsIssued' /\ HeldIsNamed'
    BY <2>1, TokenParts DEF HeldIsIssued, HeldIsNamed
  <2>4. OneUsable' /\ OneRefresh' /\ RefreshHoldsUsable'
    BY DEF OneUsable, OneRefresh, RefreshHoldsUsable, Exchanges, Live
  <2>5. QED
    BY <2>2, <2>3, <2>4
<1>4. QED
  BY <1>1, <1>2, <1>3 DEF Access, SignIn

\* A refresh reads a usable token, retires it, and issues the next.
LEMMA RefreshKeeps ==
    ASSUME IInv, TypeOK', NEW q \in Requests, Refresh(q)
    PROVE  Parts'
<1> USE DEF IInv, TypeOK, Parts
<1>1. CASE \E t \in Tokens : VerifyRefresh(q, t)
  <2> PICK t \in Tokens : VerifyRefresh(q, t)
    BY <1>1
  <2> USE DEF VerifyRefresh, Begin
  <2>1. t[1] \in Accesses /\ t[2] \in Numbers /\ t = <<t[1], t[2]>> /\ Live(t[1], t[2])
    BY TokenParts DEF Received, Live
  <2>2. SignInOrder' /\ RevokedIsNamed' /\ HeldIsIssued' /\ HeldIsNamed'
    BY <2>1 DEF SignInOrder, RevokedIsNamed, HeldIsIssued, HeldIsNamed, Refreshing, Live
  <2>3. OneUsable'
    BY DEF OneUsable, Live
  <2>4. ASSUME NEW p \in Requests, Exchanges(p, t[1]), t[1] \notin forked
        PROVE  Shares(q, t)
    <3>1. pc[p] = "retire" /\ held[p][2] = t[2]
      BY <2>1, <2>4 DEF RefreshHoldsUsable
    <3>2. held[p] = t
      BY <2>1, <2>4, <3>1, TokenParts DEF Exchanges
    <3>3. QED
      BY <3>1, <3>2 DEF Shares
  <2>5. \A s \in Accesses \ forked' : s \notin forked /\ (s = t[1] => ~Shares(q, t))
    OBVIOUS
  <2>6. OneRefresh'
    BY <2>1, <2>4, <2>5 DEF OneRefresh, Exchanges
  <2>7. RefreshHoldsUsable'
    BY <2>1, <2>5 DEF RefreshHoldsUsable, OneUsable, Exchanges, Live
  <2>8. QED
    BY <2>2, <2>3, <2>6, <2>7
<1>2. CASE RetireToken(q)
  <2> USE <1>2 DEF RetireToken, Proceed
  <2>1. held[q] \in Tokens /\ held[q] = <<held[q][1], held[q][2]>>
    BY TokenParts
  <2>2. SignInOrder' /\ RevokedIsNamed' /\ HeldIsIssued' /\ HeldIsNamed'
    BY DEF SignInOrder, RevokedIsNamed, HeldIsIssued, HeldIsNamed, Refreshing
  <2>3. OneUsable'
    BY DEF OneUsable, Live
  <2>4. OneRefresh'
    BY DEF OneRefresh, Exchanges, Refreshing
  <2>5. RefreshHoldsUsable'
    <3> SUFFICES ASSUME NEW s \in Accesses \ forked, NEW p \in Requests, NEW n \in Numbers,
                        Exchanges(p, s)', Live(s, n)'
                 PROVE  (pc[p] = "retire" /\ held[p][2] = n)'
      BY DEF RefreshHoldsUsable
    <3>1. Exchanges(p, s) /\ Live(s, n)
      BY DEF Exchanges, Live, Refreshing
    <3>2. pc[p] = "retire" /\ held[p][2] = n
      BY <3>1 DEF RefreshHoldsUsable
    <3>3. CASE p = q
      BY <2>1, <3>1, <3>2, <3>3 DEF Exchanges, Live
    <3>4. CASE p # q
      BY <3>2, <3>4
    <3>5. QED
      BY <3>3, <3>4
  <2>6. QED
    BY <2>2, <2>3, <2>4, <2>5
<1>3. CASE IssueNext(q)
  <2> DEFINE s == held[q][1]
  <2> USE <1>3 DEF IssueNext, Proceed
  <2>1. s \in Accesses /\ held[q][2] \in 1 .. issued[s]
    BY TokenParts DEF HeldIsIssued, Refreshing
  <2>2. issued'[s] = issued[s] + 1 /\ \A u \in Accesses \ {s} : issued'[u] = issued[u]
    BY <2>1
  <2>3. SignInOrder' /\ RevokedIsNamed' /\ HeldIsNamed'
    BY <2>1, <2>2 DEF SignInOrder, RevokedIsNamed, HeldIsNamed, Numbers
  <2>4. HeldIsIssued'
    BY <2>1, <2>2, TokenParts DEF HeldIsIssued, Refreshing, Numbers
  <2>5. Exchanges(q, s)
    BY DEF Exchanges, Refreshing
  <2>6. s \notin forked => \A n \in Numbers : ~Live(s, n)
    BY <2>1, <2>5 DEF RefreshHoldsUsable
  <2>7. s \notin forked => \A p \in Requests : ~Exchanges(p, s)'
    BY <2>1, <2>5 DEF OneRefresh, Exchanges, Refreshing
  <2>8. \A u \in Accesses, n \in Numbers : Live(u, n)' => Live(u, n) \/ (u = s /\ n = issued[s] + 1)
    BY <2>1, <2>2 DEF Live, Numbers
  <2>9. OneUsable'
    BY <2>6, <2>8 DEF OneUsable
  <2>10. OneRefresh'
    BY DEF OneRefresh, Exchanges, Refreshing
  <2>11. RefreshHoldsUsable'
    BY <2>7, <2>8 DEF RefreshHoldsUsable, Exchanges, Refreshing
  <2>12. QED
    BY <2>3, <2>4, <2>9, <2>10, <2>11
<1>4. QED
  BY <1>1, <1>2, <1>3 DEF Refresh

\* A logout blacklists what it holds before it looks for the session of that token.
LEMMA LogoutKeeps ==
    ASSUME IInv, TypeOK', NEW q \in Requests, Logout(q)
    PROVE  Parts'
<1> USE DEF IInv, TypeOK, Parts
<1>1. CASE \E t \in Tokens : VerifyLogout(q, t)
  <2> PICK t \in Tokens : VerifyLogout(q, t)
    BY <1>1
  <2> USE DEF VerifyLogout, Begin
  <2>1. SignInOrder' /\ RevokedIsNamed' /\ HeldIsIssued' /\ HeldIsNamed'
    BY TokenParts
       DEF SignInOrder, RevokedIsNamed, HeldIsIssued, HeldIsNamed, Refreshing, Received
  <2>2. OneUsable' /\ OneRefresh' /\ RefreshHoldsUsable'
    BY DEF OneUsable, OneRefresh, RefreshHoldsUsable, Exchanges, Live, Refreshing
  <2>3. QED
    BY <2>1, <2>2
<1>2. CASE BuryToken(q)
  <2> USE <1>2 DEF BuryToken, Proceed
  <2>1. SignInOrder' /\ RevokedIsNamed' /\ HeldIsIssued' /\ HeldIsNamed'
    BY DEF SignInOrder, RevokedIsNamed, HeldIsIssued, HeldIsNamed, Refreshing
  <2>2. OneUsable' /\ OneRefresh' /\ RefreshHoldsUsable'
    BY DEF OneUsable, OneRefresh, RefreshHoldsUsable, Exchanges, Live, Refreshing
  <2>3. QED
    BY <2>1, <2>2
<1>3. CASE MarkLoggedOut(q)
  <2> USE <1>3 DEF MarkLoggedOut, Proceed
  <2>1. SignInOrder' /\ HeldIsIssued' /\ HeldIsNamed'
    BY DEF SignInOrder, HeldIsIssued, HeldIsNamed, Refreshing
  <2>2. held[q] \in blacklisted /\ held[q][2] # 0 /\ held[q] = <<held[q][1], held[q][2]>>
    BY TokenParts DEF HeldIsIssued, Numbers
  <2>3. RevokedIsNamed'
    BY <2>2, TokenParts DEF RevokedIsNamed
  <2>4. OneUsable' /\ OneRefresh' /\ RefreshHoldsUsable'
    BY DEF OneUsable, OneRefresh, RefreshHoldsUsable, Exchanges, Live, Refreshing
  <2>5. QED
    BY <2>1, <2>3, <2>4
<1>4. QED
  BY <1>1, <1>2, <1>3 DEF Logout

\* A revocation blacklists the token it read from the row before it closes the session.
LEMMA RevokeKeeps ==
    ASSUME IInv, TypeOK', NEW q \in Requests, Revoke(q)
    PROVE  Parts'
<1> USE DEF IInv, TypeOK, Parts
<1>1. CASE \E s \in Accesses : FetchSession(q, s)
  <2> PICK s \in Accesses : FetchSession(q, s)
    BY <1>1
  <2> USE DEF FetchSession, Begin
  <2>1. SignInOrder' /\ RevokedIsNamed' /\ HeldIsIssued' /\ HeldIsNamed'
    BY DEF SignInOrder, RevokedIsNamed, HeldIsIssued, HeldIsNamed, Refreshing
  <2>2. OneUsable' /\ OneRefresh' /\ RefreshHoldsUsable'
    BY DEF OneUsable, OneRefresh, RefreshHoldsUsable, Exchanges, Live, Refreshing
  <2>3. QED
    BY <2>1, <2>2
<1>2. CASE KillNamedToken(q)
  <2> USE <1>2 DEF KillNamedToken, Proceed
  <2>1. SignInOrder' /\ RevokedIsNamed' /\ HeldIsIssued' /\ HeldIsNamed'
    BY DEF SignInOrder, RevokedIsNamed, HeldIsIssued, HeldIsNamed, Refreshing
  <2>2. OneUsable' /\ OneRefresh' /\ RefreshHoldsUsable'
    BY DEF OneUsable, OneRefresh, RefreshHoldsUsable, Exchanges, Live, Refreshing
  <2>3. QED
    BY <2>1, <2>2
<1>3. CASE CloseSession(q)
  <2> USE <1>3 DEF CloseSession, Proceed
  <2>1. SignInOrder' /\ HeldIsIssued' /\ HeldIsNamed'
    BY DEF SignInOrder, HeldIsIssued, HeldIsNamed, Refreshing
  <2>2. held[q] = <<held[q][1], held[q][2]>> /\ held[q][1] \in Accesses
    BY TokenParts
  <2>3. held[q][2] # 0 => jti[held[q][1]] = held[q][2] /\ held[q] \in blacklisted
    BY DEF HeldIsNamed
  <2>4. RevokedIsNamed'
    BY <2>2, <2>3 DEF RevokedIsNamed
  <2>5. OneUsable' /\ OneRefresh' /\ RefreshHoldsUsable'
    BY DEF OneUsable, OneRefresh, RefreshHoldsUsable, Exchanges, Live, Refreshing
  <2>6. QED
    BY <2>1, <2>4, <2>5
<1>4. QED
  BY <1>1, <1>2, <1>3 DEF Revoke

\* Kills drop what a request holds; a password reset marks its sessions blind.
LEMMA OtherStepKeeps ==
    ASSUME IInv, \/ \E q \in Requests : AbandonRequest(q)
                 \/ ResetPassword
                 \/ UNCHANGED vars
    PROVE  Parts'
<1> USE DEF IInv, TypeOK, Parts
<1>1. CASE \E q \in Requests : AbandonRequest(q)
  BY <1>1 DEF AbandonRequest, SignInOrder, HeldIsIssued, HeldIsNamed, RevokedIsNamed,
              OneUsable, OneRefresh, RefreshHoldsUsable, Exchanges, Live, Refreshing
<1>2. CASE ResetPassword
  BY <1>2 DEF ResetPassword, SignInOrder, HeldIsIssued, HeldIsNamed, RevokedIsNamed,
              OneUsable, OneRefresh, RefreshHoldsUsable, Exchanges, Live, RowStates
<1>3. CASE UNCHANGED vars
  BY <1>3 DEF vars, SignInOrder, HeldIsIssued, HeldIsNamed, RevokedIsNamed,
              OneUsable, OneRefresh, RefreshHoldsUsable, Exchanges, Live
<1>4. QED
  BY <1>1, <1>2, <1>3

\* The inductive invariant holds in every reachable state.
THEOREM InvariantHolds == Spec => []IInv
<1>1. Init => IInv
  <2> SUFFICES ASSUME Init PROVE IInv
    OBVIOUS
  <2>1. TypeOK
    BY PairIsToken DEF Init, TypeOK, RowStates, Numbers, SignInStates, RequestStates
  <2>2. SignInOrder /\ HeldIsIssued /\ HeldIsNamed /\ RevokedIsNamed
    BY DEF Init, SignInOrder, HeldIsIssued, HeldIsNamed, RevokedIsNamed, Refreshing
  <2>3. OneUsable /\ OneRefresh /\ RefreshHoldsUsable
    BY DEF Init, OneUsable, OneRefresh, RefreshHoldsUsable, Live, Exchanges, Refreshing
  <2>4. QED
    BY <2>1, <2>2, <2>3 DEF IInv
<1>2. IInv /\ [Next]_vars => IInv'
  <2> SUFFICES ASSUME IInv, [Next]_vars PROVE IInv'
    OBVIOUS
  <2>1. TypeOK'
    BY TypeStep DEF IInv
  <2>2. Parts'
    BY <2>1, SignInKeeps, RefreshKeeps, LogoutKeeps, RevokeKeeps, OtherStepKeeps DEF Next
  <2>3. QED
    BY <2>1, <2>2 DEF IInv, Parts
<1>3. QED
  BY <1>1, <1>2, PTL DEF Spec

-----------------------------------------------------------------------------
(* What it implies. *)

\* Rotation leaves a session one usable token, unless two refreshes shared one.
THEOREM OneLiveTokenTheorem == Spec => []OneLiveToken
<1>1. IInv => OneLiveToken
  <2> SUFFICES ASSUME IInv, NEW s \in Accesses \ forked,
                      NEW t \in LiveTokens(s), NEW u \in LiveTokens(s)
               PROVE  t = u
    BY DEF OneLiveToken
  <2>1. issued[s] \in Numbers
    BY DEF IInv, TypeOK
  <2>2. PICK n \in Numbers : t = <<s, n>> /\ Live(s, n)
    BY <2>1 DEF LiveTokens, Outstanding, Live, Numbers
  <2>3. PICK m \in Numbers : u = <<s, m>> /\ Live(s, m)
    BY <2>1 DEF LiveTokens, Outstanding, Live, Numbers
  <2>4. QED
    BY <2>2, <2>3 DEF IInv, OneUsable
<1>2. QED
  BY <1>1, InvariantHolds, PTL

\* A revocation that had a token to name leaves it unusable.
THEOREM RevokedTheorem == Spec => []RevokedTokenIsDead
<1>1. IInv => RevokedTokenIsDead
  BY DEF IInv, RevokedIsNamed, RevokedTokenIsDead
<1>2. QED
  BY <1>1, InvariantHolds, PTL

\* A session whose tokens are all retired, with no refresh under way, never revives.
THEOREM EndedTheorem == Spec => EndedIsFinal
<1>1. TypeOK /\ [Next]_vars => [\A s \in Accesses : Ended(s) => Ended(s)']_vars
  <2> SUFFICES ASSUME TypeOK, Next, NEW s \in Accesses, Ended(s) PROVE Ended(s)'
    OBVIOUS
  <2> USE DEF TypeOK
  <2>0. /\ signIn[s] \in {"over", "killed"}
        /\ \A n \in 1 .. issued[s] : <<s, n>> \in blacklisted
        /\ Quiet(s)
    BY DEF Ended, LiveTokens, Outstanding
  <2>1. /\ signIn'[s] = signIn[s]
        /\ issued'[s] = issued[s]
        /\ blacklisted \subseteq blacklisted'
        /\ Quiet(s)'
    <3>1. CASE \E u \in Accesses : Access(u)
      BY <3>1, <2>0 DEF Access, InsertSession, InsertRefused, SignIn, BuildPair, NameSession,
                        KillSignIn, SignInSteps, Quiet
    <3>2. CASE \E q \in Requests : Refresh(q)
      <4> PICK q \in Requests : Refresh(q)
        BY <3>2
      <4>1. CASE \E t \in Tokens : VerifyRefresh(q, t)
        <5> PICK t \in Tokens : VerifyRefresh(q, t)
          BY <4>1
        <5>1. t[1] # s
          BY <2>0, TokenParts DEF VerifyRefresh, Received
        <5>2. QED
          BY <2>0, <5>1 DEF VerifyRefresh, Begin, Quiet
      <4>2. CASE RetireToken(q)
        BY <2>0, <4>2 DEF RetireToken, Proceed, Quiet, Refreshing
      <4>3. CASE IssueNext(q)
        <5>1. held[q][1] # s
          BY <2>0, <4>3 DEF IssueNext, Proceed, Quiet, Refreshing
        <5>2. QED
          BY <2>0, <4>3, <5>1 DEF IssueNext, Proceed, Quiet, Refreshing
      <4>4. QED
        BY <4>1, <4>2, <4>3 DEF Refresh
    <3>3. CASE \E q \in Requests : Logout(q) \/ Revoke(q) \/ AbandonRequest(q)
      BY <3>3, <2>0 DEF Logout, VerifyLogout, BuryToken, MarkLoggedOut, Revoke, FetchSession,
                        KillNamedToken, CloseSession, AbandonRequest, Begin, Proceed, Quiet,
                        Refreshing
    <3>4. CASE ResetPassword
      BY <3>4, <2>0 DEF ResetPassword, Quiet
    <3>5. QED
      BY <3>1, <3>2, <3>3, <3>4 DEF Next
  <2>2. QED
    BY <2>0, <2>1 DEF Ended, LiveTokens, Outstanding
<1>2. QED
  BY <1>1, TypeCorrect, PTL DEF Spec, EndedIsFinal
=============================================================================

----------------------------- MODULE Bootstrap -----------------------------
(***************************************************************************)
(* The start of the API containers: docker/entrypoint.sh runs              *)
(* `manage.py bootstrap` (apps/core), which takes a lock in the Redis      *)
(* cache, runs its steps in order and gives the lock back; then gunicorn   *)
(* serves.  A container whose command fails exits and is restarted.        *)
(*                                                                         *)
(* There is no clock: the lock may run out (300 seconds, or Redis evicts   *)
(* it) during a step of any length, and a wait (60 seconds) may end before *)
(* the lock is free.  The value of the lock names the container, whose     *)
(* host name and process number are the same after a restart.              *)
(***************************************************************************)
EXTENDS Naturals, FiniteSets, Sequences

CONSTANTS
    Replicas,    \* the containers that start
    MaxFailures  \* bound: steps that raise

Free == "free"

ASSUME BootstrapAssumption ==
    /\ MaxFailures \in Nat
    /\ Free \notin Replicas

VARIABLES
    lock,      \* holder of vizhome:bootstrap:lock
    phase,     \* what each container does next
    step,      \* how many steps its command has run
    failed,    \* whether one of them raised
    done,      \* the steps that have been carried out by some container
    failures,  \* how often a step has raised
    lapsed,    \* history: containers whose lock ran out under them
    torn,      \* history: a lock ran out between the get and the delete that releases it
    killed     \* history: a container was killed

containers == <<phase, step, failed>>
history == <<lapsed, torn, killed>>
bootVars == <<lock, containers, done, failures, history>>

\* handle, Stripe configured.
BootSteps == <<"migrate", "collectstatic", "compilemessages", "seed_forum", "setup_stripe", "setup_webhook">>

\* Their handlers catch what they raise.
Tolerated == {"compilemessages", "seed_forum"}

\* What every container needs and one of them has to do.
Shared == {"migrate", "setup_stripe", "setup_webhook"}

BootTypeOK ==
    /\ lock \in Replicas \cup {Free}
    /\ phase \in [Replicas -> {"off", "try", "sleep", "run", "get", "delete", "serve"}]
    /\ step \in [Replicas -> 0 .. Len(BootSteps)] /\ failed \in [Replicas -> BOOLEAN]
    /\ done \subseteq {BootSteps[i] : i \in 1 .. Len(BootSteps)}
    /\ failures \in 0 .. MaxFailures
    /\ lapsed \subseteq Replicas /\ torn \in BOOLEAN /\ killed \in BOOLEAN

BootInit ==
    /\ lock = Free
    /\ phase = [r \in Replicas |-> "off"]
    /\ step = [r \in Replicas |-> 0]
    /\ failed = [r \in Replicas |-> FALSE]
    /\ done = {} /\ failures = 0
    /\ lapsed = {} /\ torn = FALSE /\ killed = FALSE

Move(r, next) == phase' = [phase EXCEPT ![r] = next]

-----------------------------------------------------------------------------
(* One container. *)

\* Postgres and Redis answer, and the command starts.
Start(r) ==
    /\ phase[r] = "off"
    /\ Move(r, "try")
    /\ UNCHANGED <<lock, step, failed, done, failures, history>>

\* Fault: the lock is set, not added.
SetLock(r) ==
    /\ phase[r] = "try"
    /\ lock' = r
    /\ Move(r, "run")
    /\ UNCHANGED <<step, failed, done, failures, history>>

\* cache.add.
AddLock(r) ==
    /\ phase[r] = "try"
    /\ \/ lock = Free /\ lock' = r /\ Move(r, "run")
       \/ lock # Free /\ UNCHANGED lock /\ Move(r, "sleep")
    /\ UNCHANGED <<step, failed, done, failures, history>>

\* Two seconds later there is another try, or no time left and the steps are skipped.
WakeUp(r) ==
    /\ phase[r] = "sleep"
    /\ Move(r, "try") \/ Move(r, "serve")
    /\ UNCHANGED <<lock, step, failed, done, failures, history>>

RunStep(r) ==
    /\ phase[r] = "run" /\ step[r] < Len(BootSteps)
    /\ step' = [step EXCEPT ![r] = @ + 1]
    /\ LET name == BootSteps[step[r] + 1]
       IN  done' \in {done \cup {name}} \cup (IF name \in Tolerated THEN {done} ELSE {})
    /\ UNCHANGED <<lock, phase, failed, failures, history>>

\* A step that raises ends the command; the lock is released all the same.
FailStep(r) ==
    /\ phase[r] = "run" /\ step[r] < Len(BootSteps)
    /\ BootSteps[step[r] + 1] \notin Tolerated
    /\ failures < MaxFailures
    /\ failures' = failures + 1
    /\ failed' = [failed EXCEPT ![r] = TRUE]
    /\ Move(r, "get")
    /\ UNCHANGED <<lock, step, done, history>>

EndSteps(r) ==
    /\ phase[r] = "run" /\ step[r] = Len(BootSteps)
    /\ Move(r, "get")
    /\ UNCHANGED <<lock, step, failed, done, failures, history>>

\* Fault: the exception of a step ends in the log.
LeaveAnyway(r) ==
    /\ Move(r, "serve")
    /\ step' = [step EXCEPT ![r] = 0]
    /\ failed' = [failed EXCEPT ![r] = FALSE]
    /\ lapsed' = lapsed \ {r}

\* The command ends: gunicorn takes over, or the container exits and is restarted.
Leave(r) ==
    /\ Move(r, IF failed[r] THEN "off" ELSE "serve")
    /\ step' = [step EXCEPT ![r] = 0]
    /\ failed' = [failed EXCEPT ![r] = FALSE]
    /\ lapsed' = lapsed \ {r}

\* _release_lock: a lock that names another container is left alone.
GetLock(r) ==
    /\ phase[r] = "get"
    /\ \/ /\ lock = r
          /\ Move(r, "delete") /\ UNCHANGED <<step, failed, lapsed>>
       \/ /\ lock # r
          /\ Leave(r)
    /\ UNCHANGED <<lock, done, failures, torn, killed>>

DeleteLock(r) ==
    /\ phase[r] = "delete"
    /\ lock' = Free
    /\ Leave(r)
    /\ UNCHANGED <<done, failures, torn, killed>>

-----------------------------------------------------------------------------
(* What may happen to it. *)

\* The time to live is over, or Redis evicts the key.
Expire ==
    /\ lock # Free
    /\ lock' = Free
    /\ lapsed' = IF phase[lock] \in {"run", "get"} THEN lapsed \cup {lock} ELSE lapsed
    /\ torn' = (torn \/ phase[lock] = "delete")
    /\ UNCHANGED <<containers, done, failures, killed>>

\* Bound: one container is killed, once.
KillContainer(r) ==
    /\ ~killed /\ phase[r] # "off"
    /\ killed' = TRUE
    /\ Move(r, "off")
    /\ step' = [step EXCEPT ![r] = 0]
    /\ failed' = [failed EXCEPT ![r] = FALSE]
    /\ lapsed' = lapsed \ {r}
    /\ UNCHANGED <<lock, done, failures, torn>>

-----------------------------------------------------------------------------
Advance(r) ==
    \/ Start(r) \/ AddLock(r) \/ WakeUp(r)
    \/ RunStep(r) \/ FailStep(r) \/ EndSteps(r)
    \/ GetLock(r) \/ DeleteLock(r)

BootNext ==
    \/ \E r \in Replicas : Advance(r) \/ KillContainer(r)
    \/ Expire

BootSpec == BootInit /\ [][BootNext]_bootVars

\* Every container that runs goes on.
FairBootSpec == BootSpec /\ \A r \in Replicas : WF_bootVars(Advance(r))

-----------------------------------------------------------------------------
\* "eviter que plusieurs containers paralleles ne tentent les migrations en meme temps"
\* (bootstrap.py:13): the steps run in one container at a time, but for those whose lock ran out
\* under them, unless a lock ran out just as it was released.
OneAtATime ==
    /\ BootTypeOK
    /\ ~torn => Cardinality({r \in Replicas : phase[r] = "run"} \ lapsed) <= 1

\* Whoever fails, waits in vain or loses the lock, in the end every container serves and every
\* shared step has been done, unless one was killed: its lock outlives its restart.
Deployed == <>(killed \/ (Shared \subseteq done /\ \A r \in Replicas : phase[r] = "serve"))
=============================================================================

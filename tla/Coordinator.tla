----------------------------- MODULE Coordinator -----------------------------
(***************************************************************************)
(* The daemon's lifecycle coordinator (internal/lifecycle) for ONE         *)
(* environment: attach establishments and registrations, idle grace and    *)
(* automatic stop, explicit stop, the reconciliation fence, disposal       *)
(* intents, destructive mutations, the durable journal, and the daemon's   *)
(* shutdown, crash and restart.                                            *)
(*                                                                         *)
(* One action is one critical section of Coordinator.mu.  A handler that   *)
(* gives the mutex up (a stop callback, a mutate callback, the probe of a  *)
(* reconciliation, the releases of Finish) is a chain of actions.          *)
(*                                                                         *)
(* Data abstraction.  A boot identity is a number, 0 being "no boot"; a    *)
(* start generation 0 is "no journal", as in the code.  Stopped and absent *)
(* observations are one: no branch of the coordinator tells them apart.    *)
(* journal.rows are the resources other than the backend root.  The root   *)
(* row exists exactly when journal.inc does, so it is not kept apart, and  *)
(* every other row pins the root.  A call that is refused without a state  *)
(* change is not an action, unless its caller was waiting.                 *)
(***************************************************************************)
EXTENDS Naturals, FiniteSets

CONSTANTS
    Sessions,      \* run sessions that may attach
    NoSession,     \* the owner of a claim that is not an attach claim
    Callers,       \* which clients of the coordinator this instance has
    Enabled,       \* CoordinatorOptions.Enabled: is automatic stop on
    MaxRequests,   \* bound: calls made by clients, and restarts
    MaxFaults,     \* bound: journal writes and removals that fail
    MaxSequence,   \* bound: idle deadlines of one environment
    MaxBoots       \* bound: boots of the backend instance

CallerKinds == {"explicit-stop", "retry", "disposal", "mutation",
                "forget", "close", "crash", "vm-loss"}

ASSUME CallersAssumption == Callers \subseteq CallerKinds
ASSUME EnabledAssumption == Enabled \in BOOLEAN
ASSUME SessionAssumption == NoSession \notin Sessions
ASSUME BoundsAssumption == {MaxRequests, MaxFaults, MaxSequence, MaxBoots} \subseteq Nat

VARIABLES
    mode,      \* the daemon process: "down", "up" or "closing"
    daemon,    \* DaemonInstanceID of the process, fresh at every start
    loaded,    \* is the environment in Coordinator.environments
    env,       \* its registryEnvironment
    disk,      \* the journal file; generation 0 when there is none
    timers,    \* expire callbacks that may still run, stopped ones included
    claims,    \* mutationClaims of the environment key
    phase,     \* where each session is in its attach and its registration
    seen,      \* the backend observation a session took after reserving
    einc,      \* the incarnation a session was prepared or registered with
    stopper,   \* the goroutine that owns the stop callback
    worker,    \* the daemon's reconciliation worker
    disposer,  \* the Manager's removal of the environment
    mutator,   \* the caller of RunDestructiveMutation
    vm,        \* external: boot identity of the running backend, 0 if stopped
    boots,     \* external: boots so far
    faults,    \* journal operations that have failed
    requests   \* client calls so far

backendVars == <<vm, boots>>
sessionVars == <<phase, seen, einc>>
actorVars   == <<stopper, worker, disposer, mutator>>
boundVars   == <<faults, requests>>
vars == <<mode, daemon, loaded, env, disk, timers, claims, sessionVars, actorVars,
          backendVars, boundVars>>

-----------------------------------------------------------------------------
(* The journal and the in-memory environment *)

NoInc      == [gen |-> 0, boot |-> 0]
NoDeadline == [seq |-> 0, inc |-> NoInc]
NoAttempt  == [state |-> "none", mode |-> "none", inc |-> NoInc, daemon |-> 0]
NoDisposal == [state |-> "none", gen |-> 0]
NoObs      == [state |-> "none", boot |-> 0]

newJournal(d) ==
    [gen |-> 0, inc |-> NoInc, rows |-> {}, deadline |-> NoDeadline,
     attempt |-> NoAttempt, disposal |-> NoDisposal,
     recon |-> [daemon |-> d, state |-> "pending", reason |-> "none"]]

NoJournal == newJournal(0)

registryEnvironment(j, isBlocked) ==
    [journal |-> j, obs |-> NoObs, handles |-> {}, committed |-> {}, closing |-> {},
     establishing |-> {}, blocked |-> isBlocked, reconciling |-> FALSE,
     mutation |-> FALSE, stopCancel |-> FALSE, stopDone |-> FALSE,
     deadlineSeq |-> 0, checkpoint |-> FALSE]

blockedReconciliation(d, why) == [daemon |-> d, state |-> "blocked", reason |-> why]
completeReconciliation(d) == [daemon |-> d, state |-> "complete", reason |-> "none"]

(* Journal.Validate: what JournalStore.Write refuses to make durable.      *)
Validate(j) ==
    /\ j.gen # 0
    /\ j.inc # NoInc => j.inc.gen = j.gen
    /\ \A r \in j.rows : r.gen = j.gen
    /\ j.deadline # NoDeadline => j.inc # NoInc /\ j.deadline.inc = j.inc
    /\ j.attempt # NoAttempt => /\ j.attempt.inc.gen = j.gen
                                /\ j.inc # NoInc => j.attempt.inc = j.inc
    /\ j.disposal # NoDisposal => j.disposal.gen = j.gen

(* loadEnvironmentLocked: another daemon's rows are never trusted.         *)
loadEnvironment ==
    IF disk.gen = 0
    THEN registryEnvironment(newJournal(daemon), FALSE)
    ELSE IF disk.recon.daemon # daemon /\ (disk.rows # {} \/ disk.inc # NoInc)
    THEN registryEnvironment([disk EXCEPT !.recon =
             blockedReconciliation(daemon, "prior-daemon-state-unproved")], TRUE)
    ELSE registryEnvironment(disk, FALSE)

current == IF loaded THEN env ELSE loadEnvironment

(* JournalStore.Write and Remove.  ok says whether the call succeeds: an   *)
(* invalid journal is always refused, a valid one may meet an I/O fault,   *)
(* before or after the rename (the sync of the directory comes last).      *)
fault == faults < MaxFaults /\ faults' = faults + 1

persist(j, ok) ==
    IF ok
    THEN Validate(j) /\ disk' = j /\ UNCHANGED faults
    ELSE IF Validate(j)
         THEN fault /\ disk' \in {disk, j}
         ELSE UNCHANGED <<disk, faults>>

remove(ok) ==
    IF ok
    THEN disk' = NoJournal /\ UNCHANGED faults
    ELSE fault /\ disk' \in {disk, NoJournal}

(* A failed removal, and the write of journal j that its caller then tries. *)
removeFailed(j) ==
    /\ fault
    /\ disk' \in {disk, NoJournal} \cup (IF Validate(j) THEN {j} ELSE {})

(* persistNowLocked cancels a pending checkpoint; checkpointLaterLocked    *)
(* leaves one pending.                                                     *)
checkpointNow(e) == [e EXCEPT !.checkpoint = FALSE]
checkpointLater(e) == [e EXCEPT !.checkpoint = TRUE]

(* Wrong variant: the block is not put in the journal.                     *)
blockEnvVolatile(e, why) == [e EXCEPT !.blocked = TRUE]

blockEnv(e, why) == [e EXCEPT !.blocked = TRUE,
                              !.journal.recon = blockedReconciliation(daemon, why)]

observation(boot) == [state |-> IF boot = 0 THEN "stopped" ELSE "running", boot |-> boot]

(* currentIncarnationObservation *)
provesIncarnation(e) == e.obs = [state |-> "running", boot |-> e.journal.inc.boot]

attemptBlocksAttach(a) == a.state \in {"planned", "invoked", "unknown"}

-----------------------------------------------------------------------------
(* Mutation claims on the environment key *)

claim(kind, who) == [kind |-> kind, who |-> who]

(* claimMutationKeysLocked: only attach claims share a key.                *)
claimable(kind) == \A c \in claims : kind = "attach" /\ c.kind = "attach"

(* Wrong variant: every claim of the key goes.                             *)
releaseKey(kind, who) == claims' = {}

release(kind, who) == claims' = claims \ {claim(kind, who)}

(* Wrong variant: registered sessions do not count.                        *)
busyIgnoresHandles(e) ==
    \/ e.establishing # {} \/ e.mutation
    \/ attemptBlocksAttach(e.journal.attempt) \/ e.stopCancel

(* The refusals shared by every operation that wants the environment to    *)
(* itself.                                                                 *)
busy(e) ==
    \/ e.handles # {} \/ e.establishing # {} \/ e.mutation
    \/ attemptBlocksAttach(e.journal.attempt) \/ e.stopCancel

-----------------------------------------------------------------------------
(* Idle grace *)

(* Wrong variant: only the timer is cancelled.                             *)
cancelTimerOnly(e) == [e EXCEPT !.deadlineSeq = @ + 1]

cancelDeadlineForAttach(e) ==
    IF e.journal.deadline = NoDeadline
    THEN e
    ELSE [e EXCEPT !.deadlineSeq = @ + 1, !.journal.deadline = NoDeadline]

(* Wrong variant: the sequence counts down.                                *)
armedBackwards(e) ==
    [e EXCEPT !.deadlineSeq = @ - 1,
              !.journal.deadline = [seq |-> e.deadlineSeq - 1, inc |-> e.journal.inc]]

armed(e) ==
    [e EXCEPT !.deadlineSeq = @ + 1,
              !.journal.deadline = [seq |-> e.deadlineSeq + 1, inc |-> e.journal.inc]]

(* Wrong variant: the deadline is set and its timer is not.                *)
scheduleIfIdleUnarmed(e, ok) ==
    IF e.establishing # {} \/ e.blocked \/ e.journal.inc.boot = 0 \/ e.journal.rows # {}
    THEN env' = e /\ persist(e.journal, ok) /\ UNCHANGED timers
    ELSE ok /\ env' = checkpointLater(armed(e)) /\ UNCHANGED <<timers, disk, faults>>

(* scheduleIfIdleLocked on environment e; ok is its result.                *)
scheduleIfIdle(e, ok) ==
    IF e.establishing # {} \/ e.blocked \/ e.journal.inc.boot = 0
    THEN env' = e /\ persist(e.journal, ok) /\ UNCHANGED timers
    ELSE IF ~provesIncarnation(e)
    THEN LET b == blockEnv(e, "backend-observation-unproved")
         IN  env' = b /\ persist(b.journal, ok) /\ UNCHANGED timers
    ELSE IF e.journal.rows # {}
    THEN env' = e /\ persist(e.journal, ok) /\ UNCHANGED timers
    ELSE /\ ok
         /\ env' = checkpointLater(armed(e))
         /\ timers' = timers \cup {armed(e).journal.deadline}
         /\ UNCHANGED <<disk, faults>>

-----------------------------------------------------------------------------
(* Attach establishment *)

request(kind) ==
    kind \in Callers /\ requests < MaxRequests /\ requests' = requests + 1

(* A session asks when it calls ReserveAttach and whenever the completion  *)
(* it waits for has been closed.                                           *)
asks(s) ==
    /\ mode = "up"
    /\ \/ /\ phase[s] \in {"idle", "turnedAway"}
          /\ requests < MaxRequests
          /\ requests' = requests + 1
       \/ phase[s] = "waitStop" /\ ~current.stopDone /\ UNCHANGED requests
       \/ phase[s] = "waitReconcile" /\ ~current.reconciling /\ UNCHANGED requests

becomes(s, p) == phase' = [phase EXCEPT ![s] = p]

automaticStop(e) == e.stopDone /\ e.journal.attempt.mode = "automatic"

admits(e) ==
    /\ ~e.reconciling /\ ~e.blocked /\ ~automaticStop(e)
    /\ claimable("attach")
    /\ ~e.mutation /\ ~attemptBlocksAttach(e.journal.attempt) /\ ~e.stopCancel

(* reserveAttach, the success path: timer authority is removed in memory   *)
(* only.                                                                   *)
Reserve(s) ==
    /\ asks(s)
    /\ admits(current)
    /\ s \notin current.handles \cup current.establishing
    /\ env' = [cancelDeadlineForAttach(current) EXCEPT !.establishing = @ \cup {s}]
    /\ loaded' = TRUE
    /\ claims' = claims \cup {claim("attach", s)}
    /\ becomes(s, "reserved")
    /\ UNCHANGED <<mode, daemon, disk, timers, seen, einc, actorVars, backendVars, faults>>

(* reserveAttach, the two waits of its loop.                               *)
ReserveWait(s) ==
    /\ asks(s)
    /\ loaded
    /\ \/ env.reconciling /\ becomes(s, "waitReconcile")
       \/ /\ ~env.reconciling /\ ~env.blocked /\ automaticStop(env)
          /\ becomes(s, "waitStop")
    /\ UNCHANGED <<mode, daemon, loaded, env, disk, timers, claims, seen, einc,
                   actorVars, backendVars, faults>>

(* reserveAttach, a waiter that finds the environment blocked or claimed.  *)
ReserveRefused(s) ==
    /\ phase[s] \in {"waitStop", "waitReconcile"}
    /\ asks(s)
    /\ ~current.reconciling
    /\ \/ current.blocked /\ becomes(s, "idle")
       \/ /\ ~current.blocked /\ ~automaticStop(current) /\ ~admits(current)
          /\ becomes(s, "turnedAway")
    /\ UNCHANGED <<mode, daemon, loaded, env, disk, timers, claims, seen, einc,
                   actorVars, backendVars, faults>>

(* The wait ends by its context, by automaticStopAttachWaitLimit, or by    *)
(* the closing of the coordinator.                                         *)
ReserveGivesUp(s) ==
    /\ phase[s] \in {"waitStop", "waitReconcile"}
    /\ becomes(s, "idle")
    /\ UNCHANGED <<mode, daemon, loaded, env, disk, timers, claims, seen, einc,
                   actorVars, backendVars, boundVars>>

(* The run observes the backend after its reservation.                     *)
Observe(s) ==
    /\ phase[s] = "reserved"
    /\ becomes(s, "observed")
    /\ seen' = [seen EXCEPT ![s] = observation(vm)]
    /\ UNCHANGED <<mode, daemon, loaded, env, disk, timers, claims, einc,
                   actorVars, backendVars, boundVars>>

(* The checks Prepare and Promote repeat under the mutex.                  *)
stillAdmitted(s) ==
    /\ mode = "up" /\ loaded /\ s \in env.establishing
    /\ ~env.reconciling /\ ~env.blocked
    /\ ~env.mutation /\ ~attemptBlocksAttach(env.journal.attempt) /\ ~env.stopCancel

(* observationMatchesIncarnation, and the reuse test of selectIncarnation  *)
(* for an instance whose name does not change.                             *)
matches(inc, o) == inc # NoInc /\ inc.boot = o.boot

(* Wrong variant: the attempt of the earlier incarnation survives.         *)
selectIncarnationKeepsAttempt(j, o) ==
    IF matches(j.inc, o)
    THEN j
    ELSE [j EXCEPT !.gen = @ + 1, !.inc = [gen |-> j.gen + 1, boot |-> o.boot],
                   !.rows = {}]

(* selectIncarnationLocked *)
selectIncarnation(j, o) ==
    IF matches(j.inc, o)
    THEN j
    ELSE [j EXCEPT !.gen = @ + 1, !.inc = [gen |-> j.gen + 1, boot |-> o.boot],
                   !.rows = {}, !.attempt = NoAttempt]

Prepare(s) ==
    /\ phase[s] = "observed"
    /\ stillAdmitted(s)
    /\ env.handles # {} => matches(env.journal.inc, seen[s])
    /\ LET j == selectIncarnation(env.journal, seen[s])
       IN  /\ env' = [env EXCEPT !.obs = seen[s], !.journal = j]
           /\ einc' = [einc EXCEPT ![s] = j.inc]
    /\ becomes(s, "prepared")
    /\ seen' = [seen EXCEPT ![s] = NoObs]
    /\ UNCHANGED <<mode, daemon, loaded, disk, timers, claims, actorVars, backendVars,
                   boundVars>>

row(s, g, isOrphan) == [session |-> s, gen |-> g, orphan |-> isOrphan]

(* Promote: addOrJoinResource fails when the root of the session's own     *)
(* generation is gone, or when the row is already there.                   *)
rootPresent(j, g) == j.inc # NoInc /\ j.inc.gen = g

Promote(s) ==
    /\ phase[s] = "prepared"
    /\ stillAdmitted(s)
    /\ s \notin env.handles
    /\ rootPresent(env.journal, einc[s].gen)
    /\ \A r \in env.journal.rows : r.session = s => r.gen # einc[s].gen
    /\ env' = [env EXCEPT !.handles = @ \cup {s},
                          !.establishing = @ \ {s},
                          !.journal.rows = @ \cup {row(s, einc[s].gen, FALSE)},
                          !.journal.recon = completeReconciliation(daemon)]
    /\ release("attach", s)
    /\ becomes(s, "registered")
    /\ UNCHANGED <<mode, daemon, loaded, disk, timers, seen, einc, actorVars, backendVars,
                   boundVars>>

forgetSession(s) ==
    /\ seen' = [seen EXCEPT ![s] = NoObs]
    /\ einc' = [einc EXCEPT ![s] = NoInc]

unload == loaded' = FALSE /\ env' = registryEnvironment(NoJournal, FALSE)

(* Abort.  When scheduleIfIdleLocked fails the code returns before it      *)
(* releases the attach lease.                                              *)
Abort(s) ==
    /\ phase[s] \in {"reserved", "observed", "prepared"}
    /\ becomes(s, "idle")
    /\ forgetSession(s)
    /\ LET e == [env EXCEPT !.establishing = @ \ {s}]
       IN  IF loaded /\ s \in env.establishing
           THEN IF mode = "up" /\ e.establishing = {} /\ e.handles = {}
                THEN IF e.journal.gen = 0 /\ e.journal.inc = NoInc
                     THEN /\ unload
                          /\ release("attach", s)
                          /\ UNCHANGED <<disk, timers, faults>>
                     ELSE \E ok \in BOOLEAN :
                            /\ scheduleIfIdle(e, ok)
                            /\ IF ok THEN release("attach", s) ELSE UNCHANGED claims
                            /\ UNCHANGED loaded
                ELSE /\ env' = e
                     /\ release("attach", s)
                     /\ UNCHANGED <<loaded, disk, timers, faults>>
           ELSE /\ release("attach", s)
                /\ UNCHANGED <<loaded, env, disk, timers, faults>>
    /\ UNCHANGED <<mode, daemon, actorVars, backendVars, requests>>

-----------------------------------------------------------------------------
(* Registrations *)

registered(s) == mode = "up" /\ loaded /\ s \in env.handles

(* Wrong variant: the commit is left to the next checkpoint.               *)
CommitLater(s) ==
    /\ phase[s] = "registered"
    /\ registered(s)
    /\ s \notin env.committed
    /\ env' = [checkpointLater(env) EXCEPT !.committed = @ \cup {s}]
    /\ UNCHANGED <<mode, daemon, loaded, disk, timers, claims, sessionVars, actorVars,
                   backendVars, boundVars>>

(* commitRegistration *)
Commit(s) ==
    /\ phase[s] = "registered"
    /\ registered(s)
    /\ s \notin env.committed
    /\ \E ok \in BOOLEAN :
         /\ persist(env.journal, ok)
         /\ env' = [checkpointNow(env) EXCEPT
                      !.committed = IF ok THEN @ \cup {s} ELSE @]
    /\ UNCHANGED <<mode, daemon, loaded, timers, claims, sessionVars, actorVars,
                   backendVars, requests>>

(* External: a committed run starts the backend when it is not running.    *)
StartBackend(s) ==
    /\ phase[s] = "registered"
    /\ registered(s) /\ s \in env.committed
    /\ vm = 0 /\ boots < MaxBoots
    /\ vm' = boots + 1
    /\ boots' = boots + 1
    /\ UNCHANGED <<mode, daemon, loaded, env, disk, timers, claims, sessionVars,
                   actorVars, boundVars>>

(* bindBoot: a first binding is durable at once, a confirmation later.     *)
BindBoot(s) ==
    /\ phase[s] = "registered"
    /\ registered(s) /\ s \in env.committed
    /\ vm # 0
    /\ env.journal.inc # NoInc
    /\ env.journal.inc.boot \in {0, vm}
    /\ LET e == [env EXCEPT !.journal.inc.boot = vm, !.obs = observation(vm)]
       IN  IF env.journal.inc.boot = 0
           THEN /\ env' = checkpointNow(e)
                /\ \E ok \in BOOLEAN :
                     /\ persist(e.journal, ok)
                     /\ einc' = IF ok THEN [einc EXCEPT ![s] = e.journal.inc] ELSE einc
           ELSE /\ env' = checkpointLater(e)
                /\ einc' = [einc EXCEPT ![s] = e.journal.inc]
                /\ UNCHANGED <<disk, faults>>
    /\ UNCHANGED <<mode, daemon, loaded, timers, claims, phase, seen, actorVars,
                   backendVars, requests>>

dropHandle(e, s) ==
    [e EXCEPT !.handles = @ \ {s}, !.committed = @ \ {s}, !.closing = @ \ {s}]

(* Wrong variant: the row stays.                                           *)
keepRow(e, s) == e

dropRow(e, s) ==
    [e EXCEPT !.journal.rows = {r \in @ : r.session # s}]

orphanRow(e, s) ==
    [e EXCEPT !.journal.rows =
        {IF r.session = s THEN [r EXCEPT !.orphan = TRUE] ELSE r : r \in @}]

(* Finish of an uncommitted registration: abortRegistration.               *)
AbortRegistration(s) ==
    /\ phase[s] = "registered"
    /\ registered(s)
    /\ s \notin env.committed
    /\ LET e == dropHandle(dropRow(env, s), s)
       IN  IF e.handles = {}
           THEN \E ok \in BOOLEAN : scheduleIfIdle(e, ok)
           ELSE env' = e /\ UNCHANGED <<disk, timers, faults>>
    /\ becomes(s, "idle")
    /\ forgetSession(s)
    /\ UNCHANGED <<mode, daemon, loaded, claims, actorVars, backendVars, requests>>

(* Finish of a committed registration, first critical section:             *)
(* beginFinishRegistration seals it.  The cleanup of the run may have      *)
(* failed.                                                                 *)
BeginFinish(s) ==
    /\ phase[s] = "registered"
    /\ registered(s) /\ s \in env.committed
    /\ env' = [env EXCEPT !.closing = @ \cup {s}]
    /\ \E p \in {"sealed", "sealedUnproved"} : becomes(s, p)
    /\ UNCHANGED <<mode, daemon, loaded, disk, timers, claims, seen, einc, actorVars,
                   backendVars, boundVars>>

(* Finish, second: release of the session's row.                           *)
Release(s) ==
    /\ registered(s)
    /\ \/ /\ phase[s] = "sealed"
          /\ env' = checkpointLater(dropRow(env, s))
          /\ becomes(s, "released")
          /\ UNCHANGED <<disk, faults>>
       \/ /\ phase[s] = "sealedUnproved"
          /\ env' = checkpointNow(orphanRow(env, s))
          /\ \E ok \in BOOLEAN : persist(env'.journal, ok)
          /\ becomes(s, "releasedUnproved")
    /\ UNCHANGED <<mode, daemon, loaded, timers, claims, seen, einc, actorVars,
                   backendVars, requests>>

(* Finish, third: finishRegistration.                                      *)
FinishRegistration(s) ==
    /\ registered(s)
    /\ LET e == dropHandle(env, s)
       IN  \/ /\ phase[s] = "releasedUnproved"
              /\ env' = blockEnv(e, "cleanup-unproved")
              /\ \E ok \in BOOLEAN : persist(env'.journal, ok)
              /\ UNCHANGED timers
           \/ /\ phase[s] = "released" /\ e.handles # {}
              /\ env' = checkpointLater(e)
              /\ UNCHANGED <<disk, timers, faults>>
           \/ /\ phase[s] = "released" /\ e.handles = {}
              /\ \E ok \in BOOLEAN : scheduleIfIdle(e, ok)
    /\ becomes(s, "idle")
    /\ forgetSession(s)
    /\ UNCHANGED <<mode, daemon, loaded, claims, actorVars, backendVars, requests>>

-----------------------------------------------------------------------------
(* Automatic and explicit stop *)

attempt(inc, kind, st) == [state |-> st, mode |-> kind, inc |-> inc, daemon |-> daemon]

withAttempt(e, a) == [e EXCEPT !.journal.attempt = a, !.journal.deadline = NoDeadline]

(* Wrong variant: the attempt is only in memory.                           *)
persistNeither(j1, j2) == Validate(j1) /\ UNCHANGED <<disk, faults>>

(* Two writes of one critical section: j1 succeeded, j2 may have failed.   *)
persistTwice(j1, j2) ==
    /\ Validate(j1)
    /\ \/ disk' = j2 /\ UNCHANGED faults
       \/ disk' \in {j1, j2} /\ fault

idleStopper == [pc |-> "none", inc |-> NoInc]

invoked(e, inc, kind) ==
    [withAttempt(e, attempt(inc, kind, "invoked")) EXCEPT !.stopCancel = TRUE,
                                                           !.stopDone = TRUE]

(* Wrong variant: any deadline will do.                                    *)
staleTimerAnyDeadline(t) ==
    \/ ~loaded \/ mode # "up" \/ env.mutation \/ env.establishing # {}
    \/ env.journal.deadline = NoDeadline \/ env.handles # {}

(* expire's first test: the callback is stale.                             *)
staleTimer(t) ==
    \/ ~loaded \/ mode # "up" \/ env.mutation \/ env.establishing # {}
    \/ env.journal.deadline # t \/ env.handles # {}

ExpireStale(t) ==
    /\ staleTimer(t)
    /\ timers' = timers \ {t}
    /\ UNCHANGED <<mode, daemon, loaded, env, disk, claims, sessionVars, actorVars,
                   backendVars, boundVars>>

(* EvaluateAutoStop with the grace expired; provesIncarnation has been     *)
(* checked.                                                                *)
allowed(e) == e.journal.rows = {} /\ e.journal.recon.state = "complete"

(* expire: the observation or the evaluation refuses the stop.  A merely   *)
(* refused evaluation leaves the deadline and clears blocked.              *)
ExpireRefused(t) ==
    /\ ~staleTimer(t)
    /\ \/ /\ ~provesIncarnation(env)
          /\ env' = [blockEnv(env, "backend-observation-unproved") EXCEPT
                       !.journal.deadline = NoDeadline]
       \/ /\ provesIncarnation(env) /\ ~allowed(env)
          /\ env' = [env EXCEPT !.blocked = FALSE]
    /\ \E ok \in BOOLEAN : persist(env'.journal, ok)
    /\ timers' = timers \ {t}
    /\ UNCHANGED <<mode, daemon, loaded, claims, sessionVars, actorVars, backendVars,
                   requests>>

(* expire: the environment key is claimed, so the grace period restarts.   *)
ExpireDeferred(t) ==
    /\ ~staleTimer(t)
    /\ provesIncarnation(env) /\ allowed(env)
    /\ ~claimable("stop")
    /\ env.deadlineSeq < MaxSequence
    /\ env' = checkpointLater(armed(env))
    /\ timers' = (timers \ {t}) \cup {armed(env).journal.deadline}
    /\ UNCHANGED <<mode, daemon, loaded, disk, claims, sessionVars, actorVars,
                   backendVars, boundVars>>

(* Wrong variant: the callback trusts what its timer captured.             *)
ExpireTrustsTimer(t) ==
    /\ ~staleTimerAnyDeadline(t)
    /\ provesIncarnation(env) /\ allowed(env)
    /\ claimable("stop")
    /\ Enabled
    /\ timers' = timers \ {t}
    /\ env' = invoked(env, env.journal.inc, "automatic")
    /\ persist(env'.journal, TRUE)
    /\ claims' = claims \cup {claim("stop", NoSession)}
    /\ stopper' = [pc |-> "invoked", inc |-> t.inc]
    /\ UNCHANGED <<mode, daemon, loaded, sessionVars, worker, disposer, mutator,
                   backendVars, requests>>

(* expire: the stop is planned, made durable, and the callback invoked.    *)
Expire(t) ==
    /\ ~staleTimer(t)
    /\ provesIncarnation(env) /\ allowed(env)
    /\ claimable("stop")
    /\ timers' = timers \ {t}
    /\ LET planned == withAttempt(env, attempt(t.inc, "automatic", "planned"))
           started == invoked(env, t.inc, "automatic")
           skipped == withAttempt(env, NoAttempt)
       IN  \/ /\ persist(planned.journal, FALSE)
              /\ env' = [planned EXCEPT !.blocked = TRUE]
              /\ UNCHANGED <<claims, stopper>>
           \/ /\ ~Enabled
              /\ persistTwice(planned.journal, skipped.journal)
              /\ env' = skipped
              /\ UNCHANGED <<claims, stopper>>
           \/ /\ Enabled
              /\ persistTwice(planned.journal, started.journal)
              /\ env' = started
              /\ claims' = claims \cup {claim("stop", NoSession)}
              /\ stopper' = [pc |-> "invoked", inc |-> t.inc]
    /\ UNCHANGED <<mode, daemon, loaded, sessionVars, worker, disposer, mutator,
                   backendVars, requests>>

(* What every operation that wants the environment to itself does first:   *)
(* cancelDeadlineLocked (durable when there was a deadline), then a write  *)
(* of journal j.                                                           *)
cancelDeadline(e) ==
    IF e.journal.deadline = NoDeadline
    THEN e
    ELSE checkpointNow(cancelDeadlineForAttach(e))

cancelAndPersist(e, j, outcome) ==
    LET had == e.journal.deadline # NoDeadline
        c   == cancelDeadline(e).journal
    IN  \/ outcome = "cancelFailed" /\ had /\ persist(c, FALSE)
        \/ /\ outcome = "writeFailed"
           /\ had => Validate(c)
           /\ LET d == IF had THEN c ELSE disk
              IN  IF Validate(j)
                  THEN fault /\ disk' \in {d, j}
                  ELSE disk' = d /\ UNCHANGED faults
        \/ outcome = "written" /\ (had => Validate(c)) /\ persist(j, TRUE)

(* StopExplicit after its claim: the refusals that keep the lease until    *)
(* the deferred Release.                                                   *)
recoveryBlocked(e) == e.blocked \/ e.journal.recon.state # "complete"

explicitStopRefused(e) ==
    \/ e.journal.inc.boot = 0
    \/ /\ recoveryBlocked(e)
       /\ \/ e.journal.recon.reason \notin {"cleanup-unproved",
                                            "owner-requires-explicit-recovery"}
          \/ e.journal.rows = {}
    \/ \E r \in e.journal.rows : ~r.orphan

(* Wrong variant: a session that is only finishing does not count.         *)
mayStopIgnoresHandles(e) ==
    ~e.reconciling /\ e.establishing = {} /\ ~e.mutation
    /\ ~attemptBlocksAttach(e.journal.attempt)

(* StopExplicit, the refusals that release the lease at once.              *)
mayStop(e) ==
    ~e.reconciling /\ e.handles = {} /\ e.establishing = {} /\ ~e.mutation
    /\ ~attemptBlocksAttach(e.journal.attempt)

returned == [pc |-> "returned", inc |-> NoInc]

StopExplicit ==
    /\ mode = "up"
    /\ request("explicit-stop")
    /\ claimable("stop")
    /\ LET e == current
           c == cancelDeadline(e)
           a == withAttempt(c, attempt(e.journal.inc, "explicit-recovery", "invoked"))
       IN  /\ mayStop(e)
           /\ \/ /\ explicitStopRefused(e)
                 /\ env' = e
                 /\ stopper' = returned
                 /\ UNCHANGED <<disk, faults>>
              \/ /\ ~explicitStopRefused(e)
                 /\ \/ /\ cancelAndPersist(e, a.journal, "cancelFailed")
                       /\ env' = c
                       /\ stopper' = returned
                    \/ /\ cancelAndPersist(e, a.journal, "writeFailed")
                       /\ env' = a
                       /\ stopper' = returned
                    \/ /\ cancelAndPersist(e, a.journal, "written")
                       /\ env' = invoked(c, e.journal.inc, "explicit-recovery")
                       /\ stopper' = [pc |-> "invoked", inc |-> e.journal.inc]
    /\ loaded' = TRUE
    /\ claims' = claims \cup {claim("stop", NoSession)}
    /\ UNCHANGED <<mode, daemon, timers, sessionVars, worker, disposer, mutator,
                   backendVars>>

(* External: the stop callback stops exactly the boot it was asked to stop. *)
BackendStop ==
    /\ stopper.pc = "invoked"
    /\ vm # 0 /\ vm = stopper.inc.boot
    /\ vm' = 0
    /\ UNCHANGED <<mode, daemon, loaded, env, disk, timers, claims, sessionVars,
                   actorVars, boots, boundVars>>

(* commitStopResult.  A stop is proved only of a backend that is stopped;  *)
(* its result may be unknown at any time (error, timeout, cancellation).   *)
StopResults == {"stopped", "unproved", "unknown"}

orphans(rows) == {[r EXCEPT !.orphan = TRUE] : r \in rows}

(* Wrong variant: the completion that waiters select on is not closed.     *)
stopDoneLeftOpen(e) == [e EXCEPT !.stopCancel = FALSE]

(* stopCancel and finishStopLocked *)
stopFinished(e) == [e EXCEPT !.stopCancel = FALSE, !.stopDone = FALSE]

stopCommitted(e, res) ==
    LET f == stopFinished(e)
    IN  IF res = "unknown"
        THEN [f EXCEPT !.obs = [state |-> "unknown", boot |-> 0],
                       !.journal.attempt.state = "unknown", !.blocked = TRUE]
        ELSE [f EXCEPT !.obs = observation(0),
                       !.journal.attempt.state = "committed",
                       !.journal.inc = NoInc,
                       !.journal.rows = IF res = "unproved" THEN orphans(@) ELSE {},
                       !.blocked = (res = "unproved"),
                       !.journal.recon =
                           IF res = "unproved"
                           THEN blockedReconciliation(daemon, "cleanup-unproved")
                           ELSE completeReconciliation(daemon)]

StopReturn(res) ==
    /\ stopper.pc = "invoked" /\ mode # "down"
    /\ res # "unknown" => vm = 0
    /\ IF loaded /\ env.journal.attempt # NoAttempt /\ env.journal.attempt.inc = stopper.inc
       THEN /\ env' = stopCommitted(env, res)
            /\ \E ok \in BOOLEAN : persist(env'.journal, ok)
       ELSE UNCHANGED <<env, disk, faults>>
    /\ stopper' = returned
    /\ UNCHANGED <<mode, daemon, loaded, timers, claims, sessionVars, worker, disposer,
                   mutator, backendVars, requests>>

(* The lease is released in a critical section of its own.                 *)
StopRelease ==
    /\ stopper.pc = "returned" /\ mode # "down"
    /\ stopper' = idleStopper
    /\ release("stop", NoSession)
    /\ UNCHANGED <<mode, daemon, loaded, env, disk, timers, sessionVars, worker,
                   disposer, mutator, backendVars, boundVars>>

(* The callback of checkpointLaterLocked.                                  *)
Checkpoint ==
    /\ mode # "down" /\ loaded /\ env.checkpoint
    /\ \E ok \in BOOLEAN :
         /\ persist(env.journal, ok)
         /\ env' = IF ok
                   THEN checkpointNow(env)
                   ELSE blockEnv(checkpointNow(env), "journal-checkpoint-failed")
    /\ UNCHANGED <<mode, daemon, loaded, timers, claims, sessionVars, actorVars,
                   backendVars, requests>>

-----------------------------------------------------------------------------
(* Reconciliation *)

(* BeginReconciliation on environment e, past its refusals.                *)
fenced(e, d) ==
    [e EXCEPT !.deadlineSeq = @ + 1,
              !.journal.deadline = NoDeadline,
              !.journal.gen = IF @ = 0 THEN 1 ELSE @,
              !.blocked = TRUE,
              !.reconciling = TRUE,
              !.journal.recon = [daemon |-> d, state |-> "pending",
                                 reason |-> "reconciliation-pending"]]

attemptBlocksReconciliation(a) == a.daemon = daemon /\ attemptBlocksAttach(a)

quiet(e) ==
    /\ e.handles = {} /\ e.establishing = {} /\ ~e.mutation /\ ~e.stopCancel
    /\ ~attemptBlocksReconciliation(e.journal.attempt)

(* retryLifecycleReconciliation: BeginReconciliation, then a worker.  A    *)
(* bound: one probe at a time.  An earlier worker may still be about to    *)
(* report its failure.                                                     *)
BeginReconciliation ==
    /\ mode = "up"
    /\ request("retry")
    /\ "probing" \notin worker
    /\ LET e == current
       IN  /\ ~e.reconciling
           /\ ~(e.journal.recon.daemon = daemon /\ e.journal.recon.state = "complete")
           /\ claimable("reconcile")
           /\ quiet(e)
           /\ \/ /\ persist(fenced(e, daemon).journal, TRUE)
                 /\ env' = fenced(e, daemon)
                 /\ claims' = claims \cup {claim("reconcile", NoSession)}
                 /\ worker' = worker \cup {"probing"}
              \/ /\ persist(fenced(e, daemon).journal, FALSE)
                 /\ env' = [fenced(e, daemon) EXCEPT !.reconciling = FALSE]
                 /\ UNCHANGED <<claims, worker>>
    /\ loaded' = TRUE
    /\ UNCHANGED <<mode, daemon, timers, sessionVars, stopper, disposer, mutator,
                   backendVars>>

ownerOrphans(owners, g) == {row(s, g, TRUE) : s \in owners}

(* Reconcile first takes back every timer, attempt and handle of e.        *)
relinquished(e, o) ==
    [e EXCEPT !.journal.deadline = NoDeadline,
              !.journal.attempt = NoAttempt,
              !.journal.gen = IF @ = 0 THEN 1 ELSE @,
              !.obs = o, !.handles = {}, !.committed = {}, !.closing = {},
              !.reconciling = FALSE]

completed(f) == [f EXCEPT !.blocked = FALSE,
                          !.journal.recon = completeReconciliation(daemon)]

(* Then the observation, the stale owner records and the other residue of  *)
(* the restart classify it.                                                *)
classified(f, o, owners, unproved) ==
    LET g == f.journal.gen
    IN  IF o.state = "stopped"
        THEN [completed(f) EXCEPT !.journal.inc = NoInc, !.journal.rows = {}]
        ELSE IF o.state = "unknown"
        THEN [blockEnv(f, "backend-unknown") EXCEPT !.journal.rows = orphans(@)]
        ELSE IF ~matches(f.journal.inc, o)
        THEN [blockEnv(f, "backend-incarnation-changed") EXCEPT
                !.journal.gen = g + 1,
                !.journal.inc = [gen |-> g + 1, boot |-> o.boot],
                !.journal.rows = ownerOrphans(owners, g + 1)]
        ELSE IF unproved
        THEN [blockEnv(f, "provider-state-unproved") EXCEPT
                !.journal.rows = orphans(@) \cup
                    ownerOrphans(owners \ {r.session : r \in @}, g)]
        ELSE IF owners # {}
        THEN [blockEnv(f, "owner-requires-explicit-recovery") EXCEPT
                !.journal.rows = ownerOrphans(owners, g)]
        ELSE armed(checkpointNow([completed(f) EXCEPT !.journal.rows = {}]))

reconciled(e, o, owners, unproved) == classified(relinquished(e, o), o, owners, unproved)

probed == {observation(vm), [state |-> "unknown", boot |-> 0]}

(* The worker's call of Reconcile.  Its fence is normally up; when an      *)
(* earlier worker's failure has lowered it, Reconcile claims the key       *)
(* itself.  A failed write leaves the classification in memory and lowers  *)
(* the fence.                                                              *)
mayReconcile(e) == e.reconciling \/ (claimable("reconcile") /\ quiet(e))

Reconcile ==
    /\ mode = "up" /\ "probing" \in worker
    /\ mayReconcile(current)
    /\ \E o \in probed, owners \in SUBSET Sessions, unproved \in BOOLEAN, ok \in BOOLEAN :
         LET e == reconciled(current, o, owners, unproved)
         IN  /\ env' = e
             /\ timers' = timers \cup ({e.journal.deadline} \ {NoDeadline})
             /\ persist(e.journal, ok)
             /\ worker' = (worker \ {"probing"}) \cup (IF ok THEN {} ELSE {"failed"})
    /\ loaded' = TRUE
    /\ release("reconcile", NoSession)
    /\ UNCHANGED <<mode, daemon, sessionVars, stopper, disposer, mutator, backendVars,
                   requests>>

ReconcileRefused ==
    /\ mode = "up" /\ "probing" \in worker
    /\ ~mayReconcile(current)
    /\ worker' = (worker \ {"probing"}) \cup {"failed"}
    /\ UNCHANGED <<mode, daemon, loaded, env, disk, timers, claims, sessionVars, stopper,
                   disposer, mutator, backendVars, boundVars>>

(* BlockReconciliation: the worker has no provider, or Reconcile failed.   *)
blockedFence(e, why) ==
    [blockEnv(e, why) EXCEPT !.journal.deadline = NoDeadline,
                             !.journal.attempt = NoAttempt,
                             !.reconciling = FALSE]

BlockReconciliation ==
    /\ mode = "up"
    /\ \E w \in worker :
         /\ worker' = worker \ {w}
         /\ env' = blockedFence(current,
                       IF w = "failed" THEN "reconciliation-failed"
                                       ELSE "backend-provider-unavailable")
    /\ loaded' = TRUE
    /\ \E ok \in BOOLEAN : persist(env'.journal, ok)
    /\ IF current.reconciling THEN release("reconcile", NoSession) ELSE UNCHANGED claims
    /\ UNCHANGED <<mode, daemon, timers, sessionVars, stopper, disposer, mutator,
                   backendVars, requests>>

-----------------------------------------------------------------------------
(* Disposal: the Manager's durable removal of the environment *)

(* BeginDisposal's journal and intent, before its writes.                  *)
withIntent(e) ==
    LET f == IF e.journal.gen # 0
             THEN e
             ELSE [e EXCEPT !.journal = [newJournal(daemon) EXCEPT !.gen = 1,
                       !.recon = blockedReconciliation(daemon, "disposal-in-progress")]]
    IN  [f EXCEPT !.journal.disposal =
            IF @.state \in {"none", "blocked"}
            THEN [state |-> "planned", gen |-> f.journal.gen]
            ELSE @]

sameIntent(j) == j.disposal = NoDisposal \/ j.disposal.gen = j.gen

BeginDisposal ==
    /\ mode = "up"
    /\ request("disposal")
    /\ disposer = "none"
    /\ claimable("disposal")
    /\ ~current.reconciling /\ ~busy(current)
    /\ sameIntent(current.journal)
    /\ LET e == withIntent(current)
           c == cancelDeadline(e)
           b == blockEnv(c, "disposal-in-progress")
       IN  \/ /\ cancelAndPersist(e, b.journal, "cancelFailed")
              /\ env' = c
              /\ UNCHANGED <<claims, disposer>>
           \/ /\ cancelAndPersist(e, b.journal, "writeFailed")
              /\ env' = b
              /\ UNCHANGED <<claims, disposer>>
           \/ /\ cancelAndPersist(e, b.journal, "written")
              /\ env' = [b EXCEPT !.mutation = TRUE]
              /\ claims' = claims \cup {claim("disposal", NoSession)}
              /\ disposer' = "active"
    /\ loaded' = TRUE
    /\ UNCHANGED <<mode, daemon, timers, sessionVars, stopper, worker, mutator,
                   backendVars>>

(* External: the provider's Cleanup of the exact instance.                 *)
DisposalCleanup ==
    /\ disposer = "active" /\ env.journal.disposal.state = "planned"
    /\ vm # 0
    /\ vm' = 0
    /\ UNCHANGED <<mode, daemon, loaded, env, disk, timers, claims, sessionVars,
                   actorVars, boots, boundVars>>

activeDisposal ==
    mode = "up" /\ loaded /\ env.mutation /\ env.journal.disposal # NoDisposal

(* ValidateDisposalTransition, as far as AdvanceDisposal's callers use it. *)
nextDisposalState(st) ==
    CASE st = "planned" -> {"backend-absent"}
      [] st = "backend-absent" -> {"metadata-cleaning"}
      [] OTHER -> {}

(* AdvanceDisposal.  The Manager has seen the backend absent twice.        *)
AdvanceDisposal ==
    /\ disposer = "active" /\ activeDisposal
    /\ vm = 0
    /\ \E st \in nextDisposalState(env.journal.disposal.state), ok \in BOOLEAN :
         /\ env' = [env EXCEPT !.journal.disposal.state = st,
                      !.journal.recon = blockedReconciliation(daemon, "disposal-in-progress")]
         /\ persist(env'.journal, ok)
         /\ disposer' = IF ok THEN "active" ELSE "failed"
    /\ UNCHANGED <<mode, daemon, loaded, timers, claims, sessionVars, stopper, worker,
                   mutator, backendVars, requests>>

(* BlockDisposal, after any failed step.  It releases the lease that the   *)
(* environment keeps, whoever set the mutation flag.                       *)
BlockDisposal ==
    /\ mode = "up"
    /\ disposer \in {"active", "failed"}
    /\ disposer' = "none"
    /\ IF current.journal.disposal = NoDisposal
       THEN UNCHANGED <<loaded, env, disk, claims, faults>>
       ELSE /\ env' = [blockEnv(current, "disposal-blocked") EXCEPT
                         !.journal.disposal.state = "blocked", !.mutation = FALSE]
            /\ loaded' = TRUE
            /\ release("disposal", NoSession)
            /\ \E ok \in BOOLEAN : persist(env'.journal, ok)
    /\ UNCHANGED <<mode, daemon, timers, sessionVars, stopper, worker, mutator,
                   backendVars, requests>>

(* CompleteDisposalMetadata.  Only the recovery of a missing record calls  *)
(* BlockDisposal when the removal of the journal fails.                    *)
CompleteDisposalMetadata ==
    /\ disposer = "active" /\ activeDisposal
    /\ env.journal.disposal.state = "metadata-cleaning"
    /\ \/ /\ remove(TRUE)
          /\ unload
          /\ disposer' = "none"
       \/ /\ env' = [blockEnv(env, "journal-removal-failed") EXCEPT !.mutation = FALSE]
          /\ removeFailed(env'.journal)
          /\ disposer' \in {"none", "failed"}
          /\ UNCHANGED loaded
    /\ release("disposal", NoSession)
    /\ UNCHANGED <<mode, daemon, timers, sessionVars, stopper, worker, mutator,
                   backendVars, requests>>

-----------------------------------------------------------------------------
(* Destructive mutations *)

(* RunDestructiveMutation up to the mutate callback.  An environment       *)
(* without a journal has nothing durable to block.                         *)
BeginMutation ==
    /\ mode = "up"
    /\ request("mutation")
    /\ mutator = "none"
    /\ claimable("cleanup")
    /\ ~current.reconciling /\ ~busy(current)
    /\ LET e == current
           c == cancelDeadline(e)
           b == blockEnv(c, "destructive-mutation-in-progress")
       IN  \/ /\ e.journal.gen = 0
              /\ env' = [e EXCEPT !.mutation = TRUE, !.blocked = TRUE]
              /\ mutator' = "running"
              /\ UNCHANGED <<disk, faults>>
           \/ /\ e.journal.gen # 0
              /\ \/ /\ cancelAndPersist(e, b.journal, "cancelFailed")
                    /\ env' = c
                    /\ mutator' = "returned"
                 \/ /\ cancelAndPersist(e, b.journal, "writeFailed")
                    /\ env' = b
                    /\ mutator' = "returned"
                 \/ /\ cancelAndPersist(e, b.journal, "written")
                    /\ env' = [b EXCEPT !.mutation = TRUE]
                    /\ mutator' = "running"
    /\ loaded' = TRUE
    /\ claims' = claims \cup {claim("cleanup", NoSession)}
    /\ UNCHANGED <<mode, daemon, timers, sessionVars, stopper, worker, disposer,
                   backendVars>>

(* External: what the mutate callback does to the backend.                 *)
MutationCleanup ==
    /\ mutator = "running"
    /\ vm # 0
    /\ vm' = 0
    /\ UNCHANGED <<mode, daemon, loaded, env, disk, timers, claims, sessionVars,
                   actorVars, boots, boundVars>>

(* RunDestructiveMutation after the callback, which reports success only   *)
(* when the instance is gone.                                              *)
EndMutation ==
    /\ mutator = "running" /\ mode # "down"
    /\ mutator' = "returned"
    /\ LET e == [env EXCEPT !.mutation = FALSE]
           failed == [e EXCEPT !.journal.recon =
                         blockedReconciliation(daemon, "cleanup-unproved")]
       IN  IF mode = "closing" \/ ~loaded
           THEN UNCHANGED <<loaded, env, disk, faults>>
           ELSE \/ /\ env.journal.gen = 0
                   /\ unload
                   /\ UNCHANGED <<disk, faults>>
                \/ /\ env.journal.gen # 0
                   /\ env' = failed
                   /\ \E ok \in BOOLEAN : persist(failed.journal, ok)
                   /\ UNCHANGED loaded
                \/ /\ env.journal.gen # 0 /\ vm = 0
                   /\ remove(TRUE)
                   /\ unload
                \/ /\ env.journal.gen # 0 /\ vm = 0
                   /\ removeFailed(e.journal)
                   /\ env' = e
                   /\ UNCHANGED loaded
    /\ UNCHANGED <<mode, daemon, timers, claims, sessionVars, stopper, worker, disposer,
                   backendVars, requests>>

(* The deferred lease.Release.                                             *)
MutationRelease ==
    /\ mutator = "returned" /\ mode # "down"
    /\ mutator' = "none"
    /\ release("cleanup", NoSession)
    /\ UNCHANGED <<mode, daemon, loaded, env, disk, timers, sessionVars, stopper, worker,
                   disposer, backendVars, boundVars>>

ForgetEnvironment ==
    /\ mode = "up"
    /\ request("forget")
    /\ claimable("cleanup")
    /\ ~current.reconciling /\ ~busy(current)
    /\ \/ remove(TRUE) /\ unload
       \/ remove(FALSE) /\ env' = current /\ loaded' = TRUE
    /\ UNCHANGED <<mode, daemon, timers, claims, sessionVars, actorVars, backendVars>>

-----------------------------------------------------------------------------
(* The daemon process *)

(* Close, up to its wait for the stop callback.                            *)
Close ==
    /\ mode = "up"
    /\ request("close")
    /\ mode' = "closing"
    /\ claims' = {}
    /\ LET f == [env EXCEPT !.establishing = {}, !.stopCancel = FALSE, !.stopDone = FALSE,
                            !.journal.deadline = NoDeadline]
           e == IF env.reconciling
                THEN [blockEnv(f, "daemon-shutdown") EXCEPT !.reconciling = FALSE]
                ELSE f
       IN  IF loaded /\ env.journal.gen # 0
           THEN /\ env' = checkpointNow(e)
                /\ \E ok \in BOOLEAN : persist(e.journal, ok)
                /\ UNCHANGED loaded
           ELSE unload /\ UNCHANGED <<disk, faults>>
    /\ UNCHANGED <<daemon, timers, sessionVars, actorVars, backendVars>>

(* The process ends: after Close, or by a crash.  The backend lives on.    *)
Exit ==
    /\ \/ mode = "closing" /\ UNCHANGED requests
       \/ mode = "up" /\ request("crash")
    /\ mode' = "down"
    /\ unload
    /\ timers' = {}
    /\ claims' = {}
    /\ phase' = [s \in Sessions |-> "idle"]
    /\ seen' = [s \in Sessions |-> NoObs]
    /\ einc' = [s \in Sessions |-> NoInc]
    /\ stopper' = idleStopper
    /\ worker' = {}
    /\ disposer' = "none"
    /\ mutator' = "none"
    /\ UNCHANGED <<daemon, disk, backendVars, faults>>

(* Startup: the fence of the environment is up before the daemon serves.   *)
(* A journal without an environment record is blocked at once.  A failed   *)
(* write ends the process; Close, which then writes the same journal       *)
(* again, leaves one of the same two files.                                *)
Start ==
    /\ mode = "down"
    /\ daemon' = daemon + 1
    /\ LET l == IF disk.gen = 0
                THEN registryEnvironment(newJournal(daemon + 1), FALSE)
                ELSE registryEnvironment(disk, FALSE)
           f == fenced(l, daemon + 1)
           b == [f EXCEPT !.journal.attempt = NoAttempt, !.reconciling = FALSE,
                   !.journal.recon = blockedReconciliation(daemon + 1,
                                         "environment-record-unavailable")]
       IN  \/ /\ disk.gen = 0
              /\ mode' = "up"
              /\ UNCHANGED <<loaded, env, disk, claims, worker, faults>>
           \/ /\ mode' = "up"
              /\ persist(f.journal, TRUE)
              /\ env' = f
              /\ loaded' = TRUE
              /\ claims' = {claim("reconcile", NoSession)}
              /\ worker' = {"probing"}
           \/ /\ disk.gen # 0
              /\ mode' = "up"
              /\ persist(b.journal, TRUE)
              /\ env' = b
              /\ loaded' = TRUE
              /\ UNCHANGED <<claims, worker>>
           \/ /\ persist(f.journal, FALSE)
              /\ UNCHANGED <<mode, loaded, env, claims, worker>>
    /\ UNCHANGED <<timers, sessionVars, stopper, disposer, mutator, backendVars,
                   requests>>

(* External: the backend is lost under the coordinator.                    *)
VmLost ==
    /\ request("vm-loss")
    /\ vm # 0
    /\ vm' = 0
    /\ UNCHANGED <<mode, daemon, loaded, env, disk, timers, claims, sessionVars,
                   actorVars, boots, faults>>

-----------------------------------------------------------------------------
Init ==
    /\ mode = "down" /\ daemon = 0
    /\ loaded = FALSE /\ env = registryEnvironment(NoJournal, FALSE) /\ disk = NoJournal
    /\ timers = {} /\ claims = {}
    /\ phase = [s \in Sessions |-> "idle"]
    /\ seen = [s \in Sessions |-> NoObs]
    /\ einc = [s \in Sessions |-> NoInc]
    /\ stopper = idleStopper /\ worker = {} /\ disposer = "none" /\ mutator = "none"
    /\ vm = 0 /\ boots = 0 /\ faults = 0 /\ requests = 0

SessionNext(s) ==
    \/ Reserve(s) \/ ReserveWait(s) \/ ReserveRefused(s) \/ ReserveGivesUp(s)
    \/ Observe(s) \/ Prepare(s) \/ Promote(s) \/ Abort(s)
    \/ Commit(s) \/ StartBackend(s) \/ BindBoot(s)
    \/ AbortRegistration(s) \/ BeginFinish(s) \/ Release(s) \/ FinishRegistration(s)

TimerNext(t) ==
    ExpireStale(t) \/ ExpireRefused(t) \/ ExpireDeferred(t) \/ Expire(t)

Next ==
    \/ \E s \in Sessions : SessionNext(s)
    \/ \E t \in timers : TimerNext(t)
    \/ StopExplicit \/ BackendStop \/ (\E res \in StopResults : StopReturn(res))
    \/ StopRelease \/ Checkpoint
    \/ BeginReconciliation \/ Reconcile \/ ReconcileRefused \/ BlockReconciliation
    \/ BeginDisposal \/ DisposalCleanup \/ AdvanceDisposal \/ BlockDisposal
    \/ CompleteDisposalMetadata
    \/ BeginMutation \/ MutationCleanup \/ EndMutation \/ MutationRelease
    \/ ForgetEnvironment
    \/ Close \/ Exit \/ Start \/ VmLost

Spec == Init /\ [][Next]_vars

-----------------------------------------------------------------------------
(* Types *)

Phases == {"idle", "turnedAway", "waitStop", "waitReconcile", "reserved", "observed",
           "prepared", "registered", "sealed", "sealedUnproved", "released",
           "releasedUnproved"}

Reasons == {"none", "prior-daemon-state-unproved", "backend-observation-unproved",
            "cleanup-unproved", "journal-checkpoint-failed", "reconciliation-pending",
            "backend-unknown", "backend-incarnation-changed", "provider-state-unproved",
            "owner-requires-explicit-recovery", "reconciliation-failed",
            "backend-provider-unavailable", "disposal-in-progress", "disposal-blocked",
            "journal-removal-failed", "destructive-mutation-in-progress",
            "daemon-shutdown", "environment-record-unavailable"}

Incarnations == [gen : Nat, boot : Nat]
Deadlines == [seq : Nat, inc : Incarnations]
Observations == [state : {"none", "running", "stopped", "unknown"}, boot : Nat]
Rows == [session : Sessions, gen : Nat, orphan : BOOLEAN]
Attempts == [state : {"none", "planned", "invoked", "committed", "unknown"},
             mode : {"none", "automatic", "explicit-recovery"},
             inc : Incarnations, daemon : Nat]
Disposals == [state : {"none", "planned", "backend-absent", "metadata-cleaning", "blocked"},
              gen : Nat]
Reconciliations == [daemon : Nat, state : {"pending", "complete", "blocked"},
                    reason : Reasons]

Journals == [gen : Nat, inc : Incarnations, rows : SUBSET Rows, deadline : Deadlines,
             attempt : Attempts, disposal : Disposals, recon : Reconciliations]

Environments ==
    [journal : Journals, obs : Observations, handles : SUBSET Sessions,
     committed : SUBSET Sessions, closing : SUBSET Sessions,
     establishing : SUBSET Sessions, blocked : BOOLEAN, reconciling : BOOLEAN,
     mutation : BOOLEAN, stopCancel : BOOLEAN, stopDone : BOOLEAN,
     deadlineSeq : Nat, checkpoint : BOOLEAN]

Claims == [kind : {"attach", "stop", "reconcile", "disposal", "cleanup"},
           who : Sessions \cup {NoSession}]

(* The type invariant: every field of the environment, of the journal file *)
(* and of the actors keeps its type.                                       *)
TypeOK ==
    /\ mode \in {"down", "up", "closing"} /\ daemon \in Nat /\ loaded \in BOOLEAN
    /\ env \in Environments /\ disk \in Journals
    /\ timers \subseteq Deadlines /\ claims \subseteq Claims
    /\ phase \in [Sessions -> Phases]
    /\ seen \in [Sessions -> Observations]
    /\ einc \in [Sessions -> Incarnations]
    /\ stopper \in [pc : {"none", "invoked", "returned"}, inc : Incarnations]
    /\ worker \subseteq {"probing", "failed"}
    /\ disposer \in {"none", "active", "failed"}
    /\ mutator \in {"none", "running", "returned"}
    /\ vm \in Nat /\ boots \in Nat /\ faults \in Nat /\ requests \in Nat

-----------------------------------------------------------------------------
(* Safety *)

establishingPhases == {"reserved", "observed", "prepared"}
registeredPhases == {"registered", "sealed", "sealedUnproved", "released",
                     "releasedUnproved"}
attached(s) == phase[s] \in establishingPhases \cup registeredPhases

(* The actors that may be destroying the backend.                          *)
destroying == {a \in {"stop", "disposal", "mutation"} :
                 \/ a = "stop" /\ stopper.pc = "invoked"
                 \/ a = "disposal" /\ disposer = "active"
                 \/ a = "mutation" /\ mutator = "running"}

(* While a stop callback, a removal or a destructive mutation may be at    *)
(* work on the backend, no session is between its reservation and its      *)
(* Finish (expire, StopExplicit, BeginDisposal and RunDestructiveMutation  *)
(* against reserveAttach, Prepare and Promote).                            *)
DestructionExcludesSessions == destroying # {} => \A s \in Sessions : ~attached(s)

(* At most one of them is at work at a time.                               *)
OneDestroyer == \A a, b \in destroying : a = b

(* The lease discipline behind the two: in a serving daemon an actor       *)
(* that changes or destroys the backend holds the claim of its kind, and a *)
(* claim that is not shared excludes all others (claimMutationKeysLocked   *)
(* against every Release, also the one that BlockDisposal does for others).*)
ClaimDiscipline ==
    mode = "up" =>
        /\ \A c \in claims : c.kind # "attach" => claims = {c}
        /\ \A s \in Sessions : phase[s] \in establishingPhases => claim("attach", s) \in claims
        /\ stopper.pc # "none" => claim("stop", NoSession) \in claims
        /\ mutator # "none" => claim("cleanup", NoSession) \in claims
        /\ disposer = "active" => claim("disposal", NoSession) \in claims
        /\ env.reconciling => claim("reconcile", NoSession) \in claims

(* The registry knows every session that believes it is registered, a      *)
(* fence is up only over an environment that nobody holds, and nothing of  *)
(* a process outlives it.                                                  *)
RegistryAgrees ==
    /\ mode = "up" => \A s \in Sessions : phase[s] \in registeredPhases =>
                                            loaded /\ s \in env.handles
    /\ env.reconciling => env.handles = {} /\ env.establishing = {}
    /\ ~loaded => env.handles = {} /\ ~env.reconciling
    /\ mode = "down" => /\ ~loaded /\ claims = {} /\ destroying = {}
                        /\ stopper.pc = "none" /\ mutator = "none"
                        /\ \A s \in Sessions : ~attached(s)

(* A deadline that a timer can still fire belongs to an environment that   *)
(* nobody holds: reserveAttach removes the timer's authority before the    *)
(* backend observation that a stop must not race with.                     *)
NoDeadlineWhileAttached ==
    env.journal.deadline # NoDeadline => env.handles = {} /\ env.establishing = {}

(* A stop callback in flight was asked to stop the incarnation that the    *)
(* environment has now, never the one an outdated timer was armed for      *)
(* (expire's comparison of sequence and incarnation).                      *)
StopTargetsCurrentIncarnation ==
    stopper.pc = "invoked" => env.journal.inc = stopper.inc

(* An automatic stop starts only with the timer of the deadline that was   *)
(* current: a session that came and went in between gives the environment  *)
(* a whole new grace period, however late the callbacks of the cancelled   *)
(* timers run (expire's comparison of the sequence).                       *)
GraceIsWhole ==
    [][stopper.pc = "none" /\ stopper'.pc = "invoked"
          /\ env'.journal.attempt.mode = "automatic"
       => env.journal.deadline \in timers \ timers']_vars

(* What the coordinator keeps in memory can be made durable: rows,         *)
(* incarnation, deadline and attempt agree on the generation through every *)
(* restart, rebinding and failed write (Journal.Validate).                 *)
JournalAlwaysValid == loaded /\ env.journal.gen # 0 => Validate(env.journal)

(* A committed registration stays on disk until its Finish, so that a      *)
(* restarted daemon finds it (commitRegistration, and every later write).  *)
CommittedIsDurable ==
    \A s \in env.committed : phase[s] = "registered" =>
        \E r \in disk.rows : r.session = s /\ r.gen = env.journal.gen

(* An environment that admits sessions has no row of a session it does not *)
(* hold: what a crash or an unproved cleanup left was classified before    *)
(* (Reconcile, finishRegistration, commitStopResult).                      *)
AdmissionImpliesOwnedRows ==
    mode = "up" /\ loaded /\ ~env.blocked =>
        \A r \in env.journal.rows : r.session \in env.handles

(* A removal or a destructive mutation is at work only after the journal   *)
(* says so: BeginDisposal and RunDestructiveMutation write first, and no   *)
(* later write of another actor takes it back.                             *)
IntentIsDurable ==
    /\ disposer = "active" => /\ disk.disposal = env.journal.disposal
                              /\ disk.disposal # NoDisposal
    /\ mutator = "running" /\ mode = "up" /\ env.journal.gen # 0 =>
          disk.recon.state = "blocked"

(* Without write faults, a stop callback is in flight only while its       *)
(* attempt is on disk (expire and StopExplicit).                           *)
StopIsDurable == stopper.pc = "invoked" => attemptBlocksAttach(disk.attempt)

(* Without write faults, an environment that runs idle, unblocked and      *)
(* unclaimed has a timer that will fire: every path that cancels the       *)
(* deadline (an attach that aborts, a refused or deferred stop) re-arms it.*)
IdleIsScheduled ==
    /\ mode = "up" /\ loaded /\ ~env.blocked /\ env.journal.recon.state = "complete"
    /\ env.handles = {} /\ env.establishing = {} /\ claims = {}
    /\ env.journal.inc.boot # 0 /\ ~attemptBlocksAttach(env.journal.attempt)
    => env.journal.deadline \in timers

-----------------------------------------------------------------------------
(* What comments, tests and documents of the repository say, and the code  *)
(* does not do (see the README).                                           *)

(* mutation.go: callers release the lease on every terminal path.  An      *)
(* attach claim belongs to a session that is still establishing.           *)
LeaseReleasedOnEveryPath ==
    \A s \in Sessions : claim("attach", s) \in claims => phase[s] \in establishingPhases

(* A reservation that waited for an automatic stop is not answered with a  *)
(* conflict with that very stop.                                           *)
WaiterIsNotTurnedAway == \A s \in Sessions : phase[s] # "turnedAway"

(* An environment that refuses attach and stop is listed as blocked by     *)
(* BlockedEnvironmentReconciliations.                                      *)
RefusingIsListed ==
    mode = "up" /\ loaded /\ env.blocked /\ ~env.reconciling /\ ~env.mutation =>
        env.journal.recon.state = "blocked"

(* An environment whose reconciliation is blocked refuses attach.          *)
BlockedRefusesAttach ==
    mode = "up" /\ loaded /\ env.journal.recon.state = "blocked" => env.blocked

(* A pending disposal blocks new attaches.                                 *)
DisposalBlocksAttach ==
    env.journal.disposal # NoDisposal => \A s \in Sessions : ~attached(s)

-----------------------------------------------------------------------------
(* Liveness *)

(* Timers fire, a stop callback returns (stopTransactionTimeout), workers  *)
(* and deferred releases run, and a waiter re-reads the environment when   *)
(* its completion is closed.  Nothing makes a session finish or a client   *)
(* call.                                                                   *)
Fairness ==
    /\ WF_vars(\E t \in timers : TimerNext(t))
    /\ WF_vars(\E res \in StopResults : StopReturn(res))
    /\ WF_vars(StopRelease)
    /\ WF_vars(Reconcile \/ ReconcileRefused \/ BlockReconciliation)
    /\ \A s \in Sessions :
         WF_vars((Reserve(s) \/ ReserveWait(s) \/ ReserveRefused(s))
                 /\ phase[s] \in {"waitStop", "waitReconcile"})

FairSpec == Spec /\ Fairness

(* A reservation that waits for a stop or for a reconciliation is woken.   *)
WaitersAreWoken ==
    \A s \in Sessions : phase[s] \in {"waitStop", "waitReconcile"} ~>
                        phase[s] \notin {"waitStop", "waitReconcile"}

(* An idle grace period ends: in a stop, a cancellation or a block.        *)
GraceEnds == env.journal.deadline # NoDeadline ~> env.journal.deadline = NoDeadline

====

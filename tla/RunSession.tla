----------------------------- MODULE RunSession -----------------------------
(***************************************************************************)
(* Run sessions and stops of one environment, seen from the host: ApplyRun *)
(* (internal/manager/run_apply.go) from the reservation to the last        *)
(* deferred call, the owner records of sessions (internal/session/         *)
(* ownership.go), StopEnvironmentIncarnation (internal/manager/            *)
(* environment_lifecycle.go), and what a restarted daemon does with the    *)
(* files it finds (internal/daemon/lifecycle.go).                          *)
(*                                                                         *)
(* A step of ApplyRun is one call that changes the host or the guest; it   *)
(* may fail, and the daemon may die between any two.  Flocks die with the  *)
(* daemon, files and the virtual machine do not.  What the lifecycle       *)
(* coordinator excludes (Coordinator.tla) is left out, except that attach, *)
(* stop and reconciliation do not overlap: the files alone must do the     *)
(* rest.                                                                   *)
(***************************************************************************)
EXTENDS Naturals, FiniteSets

CONSTANTS Sessions,
          NoSession,          \* no session, no receipt, no lock holder
          MaxBoots,      \* bound: starts of the virtual machine
          MaxRunFaults,     \* bound: failing calls
          MaxRunCrashes,    \* bound: deaths of the daemon
          MaxGlitches    \* bound: wrong samples of the backend inventory

VARIABLES runStep,          \* where ApplyRun of a session is
          unclean,          \* sessions with a lifecycleCleanupErr
          ownerState,       \* state in the owner directory, "opened" without a record
          held,             \* sessions whose owner lock is held
          sessionRuntime,   \* sessions with a runtime directory
          plane,            \* sessions with an open data plane
          bootOf,           \* ExpectedBootID of a session
          guestOf,          \* sessions with a process in the machine
          vmState, bootId,  \* the machine: state and boot identity
          envRecord,        \* status of the environment record
          receipt,          \* activation.json: boot and owner
          services,         \* the services directory has entries
          envLock,          \* holder of the environment lock
          stopper,          \* the stop at work: step, samples of one kind in a row
          daemonState,      \* "up" or "reconciling"
          runSpent          \* faults, crashes and glitches so far

runVars == <<runStep, unclean, ownerState, held, sessionRuntime, plane, bootOf, guestOf,
             vmState, bootId, envRecord, receipt, services, envLock, stopper, daemonState,
             runSpent>>
fileVars == <<envRecord, receipt, services>>
machineVars == <<guestOf, vmState, bootId>>
sessionVars == <<runStep, unclean, ownerState, held, sessionRuntime, plane, bootOf>>

Stopper == "stopper"

\* Neither the absence of a lock holder nor a stop is a session.
ASSUME RunNamesAssumption == Sessions \cap {NoSession, Stopper} = {}

RunInit ==
  /\ runStep = [s \in Sessions |-> "new"] /\ unclean = {}
  /\ ownerState = [s \in Sessions |-> "none"] /\ held = {} /\ sessionRuntime = {} /\ plane = {}
  /\ bootOf = [s \in Sessions |-> 0] /\ guestOf = {} /\ vmState = "stopped" /\ bootId = 0
  /\ envRecord = "stopped" /\ receipt = [boot |-> 0, owner |-> NoSession] /\ services = FALSE
  /\ envLock = NoSession /\ stopper = [at |-> "idle", mode |-> "none", streak |-> 0]
  /\ daemonState = "up" /\ runSpent = [fault |-> 0, crash |-> 0, glitch |-> 0]

spendOn(kind, bound) == runSpent[kind] < bound /\ runSpent' = [runSpent EXCEPT ![kind] = @ + 1]
advance(s, from, to) == runStep[s] = from /\ runStep' = [runStep EXCEPT ![s] = to]
noReceipt == [boot |-> 0, owner |-> NoSession]

\* ProbeOwner: the record says who, the lock says whether they live.
ProbeOwner(s) ==
  CASE ownerState[s] = "none"   -> "none"
    [] ownerState[s] = "opened" -> "unprovable"
    [] OTHER -> IF s \in held THEN "live" ELSE "stale"

ListOwners == {s \in Sessions : ownerState[s] # "none"}
ownersWith(status) == {s \in ListOwners : ProbeOwner(s) = status}

(***************************************************************************)
(* ApplyRun up to the start of the target.                                 *)
(***************************************************************************)
ReserveAttach(s) ==
  /\ daemonState = "up" /\ stopper.at = "idle" /\ advance(s, "new", "reserved")
  /\ UNCHANGED <<unclean, ownerState, held, sessionRuntime, plane, bootOf, machineVars, fileVars,
                 envLock, stopper, daemonState, runSpent>>

\* A mutant of requireAttachableEnvironmentOwners: only live owners are
\* looked at.
requireAttachableLive == \A s \in ownersWith("live") : ownerState[s] \notin {"cleaning", "failed"}

\* An owner that is not known to be live, or that is cleaning up or failed,
\* keeps new sessions out.
requireAttachableEnvironmentOwners ==
  \A s \in ListOwners : ProbeOwner(s) = "live" /\ ownerState[s] \notin {"cleaning", "failed"}

\* LockContext, the reload of the record and Prepare; what is refused
\* unlocks and aborts the establishment.
LockEnvironment(s) ==
  /\ envLock = NoSession /\ requireAttachableEnvironmentOwners
  /\ advance(s, "reserved", "locked") /\ envLock' = s
  /\ UNCHANGED <<unclean, ownerState, held, sessionRuntime, plane, bootOf, machineVars, fileVars,
                 stopper, daemonState, runSpent>>

LockRefused(s) ==
  /\ \/ envLock = NoSession /\ ~requireAttachableEnvironmentOwners /\ UNCHANGED runSpent
     \/ spendOn("fault", MaxRunFaults)
  /\ advance(s, "reserved", "done")
  /\ UNCHANGED <<unclean, ownerState, held, sessionRuntime, plane, bootOf, machineVars, fileVars,
                 envLock, stopper, daemonState>>

\* BeginRunSession: a failure removes what it has prepared.
BeginRunSession(s) ==
  /\ \/ /\ advance(s, "locked", "begun") /\ sessionRuntime' = sessionRuntime \cup {s}
        /\ UNCHANGED <<envLock, runSpent>>
     \/ /\ spendOn("fault", MaxRunFaults) /\ advance(s, "locked", "done") /\ envLock' = NoSession
        /\ UNCHANGED sessionRuntime
  /\ UNCHANGED <<unclean, ownerState, held, plane, bootOf, machineVars, fileVars, stopper, daemonState>>

\* AcquireOwner makes the directory, takes the lock and writes the record.
\* A record that cannot be written leaves the directory behind; the session
\* has no owner then, and its runtime directory is removed.
openOwner(s) ==
  /\ advance(s, "begun", "opened") /\ ownerState' = [ownerState EXCEPT ![s] = "opened"]
  /\ held' = held \cup {s}
  /\ UNCHANGED <<unclean, sessionRuntime, plane, bootOf, machineVars, fileVars, envLock, stopper,
                 daemonState, runSpent>>

\* A mutant of AcquireOwner: the failure forgets the runtime directory.
AcquireOwnerKeepsRuntime(s) ==
  /\ \/ /\ advance(s, "opened", "owned") /\ ownerState' = [ownerState EXCEPT ![s] = "preparing"]
        /\ UNCHANGED <<held, envLock, runSpent>>
     \/ /\ spendOn("fault", MaxRunFaults) /\ advance(s, "opened", "done") /\ UNCHANGED ownerState
        /\ held' = held \ {s} /\ envLock' = NoSession
  /\ UNCHANGED <<unclean, sessionRuntime, plane, bootOf, machineVars, fileVars, stopper, daemonState>>

AcquireOwner(s) ==
  /\ \/ /\ advance(s, "opened", "owned") /\ ownerState' = [ownerState EXCEPT ![s] = "preparing"]
        /\ UNCHANGED <<held, sessionRuntime, envLock, runSpent>>
     \/ /\ spendOn("fault", MaxRunFaults) /\ advance(s, "opened", "done") /\ UNCHANGED ownerState
        /\ held' = held \ {s} /\ sessionRuntime' = sessionRuntime \ {s} /\ envLock' = NoSession
  /\ UNCHANGED <<unclean, plane, bootOf, machineVars, fileVars, stopper, daemonState>>

\* The establishment becomes a registration with the supervisor and the
\* target of the session, and the workspace provider is prepared.
Promote(s) ==
  /\ advance(s, "owned", "promoted")
  /\ UNCHANGED <<unclean, ownerState, held, sessionRuntime, plane, bootOf, machineVars, fileVars,
                 envLock, stopper, daemonState, runSpent>>

\* PrepareRunNetwork and StartRunDataPlane.
StartRunDataPlane(s) ==
  /\ advance(s, "promoted", "served") /\ plane' = plane \cup {s}
  /\ UNCHANGED <<unclean, ownerState, held, sessionRuntime, bootOf, machineVars, fileVars, envLock,
                 stopper, daemonState, runSpent>>

\* The receipt of a live sibling vouches for the boot.
warm(s) == receipt.owner \in ownersWith("live") \ {s}

WarmActivate(s) ==
  /\ ownersWith("unprovable") = {} /\ warm(s) /\ vmState # "absent"
  /\ advance(s, "served", "activated") /\ bootOf' = [bootOf EXCEPT ![s] = receipt.boot]
  /\ UNCHANGED <<unclean, ownerState, held, sessionRuntime, plane, machineVars, fileVars, envLock,
                 stopper, daemonState, runSpent>>

\* Activate starts the machine if it does not run, and leaves a receipt.
Activate(s) ==
  /\ ownersWith("unprovable") = {} /\ ~warm(s) /\ advance(s, "served", "activated")
  /\ \/ vmState = "running" /\ UNCHANGED <<vmState, bootId>>
     \/ vmState # "running" /\ bootId < MaxBoots /\ vmState' = "running" /\ bootId' = bootId + 1
  /\ bootOf' = [bootOf EXCEPT ![s] = bootId']
  /\ receipt' = [boot |-> bootId', owner |-> s]
  /\ UNCHANGED <<unclean, ownerState, held, sessionRuntime, plane, guestOf, envRecord, services,
                 envLock, stopper, daemonState, runSpent>>

\* StartRunNetworkService runs in the boot the session expects.
StartRunNetworkService(s) ==
  /\ vmState = "running" /\ bootId = bootOf[s]
  /\ advance(s, "activated", "networked") /\ services' = TRUE
  /\ UNCHANGED <<unclean, ownerState, held, sessionRuntime, plane, bootOf, machineVars, envRecord,
                 receipt, envLock, stopper, daemonState, runSpent>>

StartRunEnvironment(s) ==
  /\ advance(s, "networked", "started") /\ envRecord' = "running"
  /\ UNCHANGED <<unclean, ownerState, held, sessionRuntime, plane, bootOf, machineVars, receipt,
                 services, envLock, stopper, daemonState, runSpent>>

\* owner.Update(running), the DNS runtime and the end of the transition.
RunTransition(s) ==
  /\ advance(s, "started", "ready") /\ ownerState' = [ownerState EXCEPT ![s] = "running"]
  /\ envLock' = NoSession
  /\ UNCHANGED <<unclean, held, sessionRuntime, plane, bootOf, machineVars, fileVars, stopper,
                 daemonState, runSpent>>

\* RunWithStreams: the supervisor in the guest refuses another boot.
RunWithStreams(s) ==
  /\ vmState = "running" /\ bootId = bootOf[s]
  /\ advance(s, "ready", "running") /\ guestOf' = guestOf \cup {s}
  /\ UNCHANGED <<unclean, ownerState, held, sessionRuntime, plane, bootOf, vmState, bootId, fileVars,
                 envLock, stopper, daemonState, runSpent>>

\* The target ends, or its connection is lost and it may live on.
RunReturns(s) ==
  /\ advance(s, "running", "cleanup")
  /\ UNCHANGED <<unclean, ownerState, held, sessionRuntime, plane, bootOf, machineVars, fileVars,
                 envLock, stopper, daemonState, runSpent>>

Owned == {"owned", "promoted", "served", "activated", "networked", "started", "ready"}

\* An error return of ApplyRun once the session has an owner.
ReturnError(s) ==
  /\ runStep[s] \in Owned /\ runStep' = [runStep EXCEPT ![s] = "cleanup"]
  /\ \/ spendOn("fault", MaxRunFaults)
     \/ /\ \/ runStep[s] = "served" /\ ownersWith("unprovable") # {}
           \/ runStep[s] = "served" /\ warm(s) /\ vmState = "absent"
           \/ runStep[s] \in {"activated", "ready"} /\ (vmState # "running" \/ bootId # bootOf[s])
           \/ runStep[s] = "served" /\ vmState # "running" /\ bootId = MaxBoots
        /\ UNCHANGED runSpent
  /\ UNCHANGED <<unclean, ownerState, held, sessionRuntime, plane, bootOf, machineVars, fileVars,
                 envLock, stopper, daemonState>>

(***************************************************************************)
(* The deferred calls of ApplyRun, last one first.                         *)
(***************************************************************************)
\* Backend.Cleanup of a session that keeps the machine: the guest is asked
\* whether processes of the session are left.
Cleanup(s) ==
  /\ advance(s, "cleanup", "closing")
  /\ unclean' = IF s \in guestOf THEN unclean \cup {s} ELSE unclean
  /\ UNCHANGED <<ownerState, held, sessionRuntime, plane, bootOf, machineVars, fileVars, envLock,
                 stopper, daemonState, runSpent>>

\* CloseRunDataPlane, the release of the workspace view and
\* CloseRunSession; errors are collected.
CloseRunDataPlane(s) ==
  /\ advance(s, "closing", "finish") /\ plane' = plane \ {s}
  /\ \/ UNCHANGED <<unclean, runSpent>>
     \/ spendOn("fault", MaxRunFaults) /\ unclean' = unclean \cup {s}
  /\ UNCHANGED <<ownerState, held, sessionRuntime, bootOf, machineVars, fileVars, envLock, stopper,
                 daemonState>>

\* The stale owners that reconcileStaleOwnersWithCleanup removes with their
\* runtime directories: in the order of their identities it stops at the
\* first one it must not remove.  The order is any.
reconcileStaleOwners(recoverFailed) ==
  LET removable == {s \in ownersWith("stale") : recoverFailed \/ ownerState[s] \notin {"cleaning", "failed"}}
  IN IF ownersWith("unprovable") = {} /\ removable = ownersWith("stale") THEN removable ELSE {}

refusesStale(recoverFailed) ==
  ownersWith("unprovable") # {} \/ reconcileStaleOwners(recoverFailed) # ownersWith("stale")

\* finishConcurrentRunEnvironment cannot take the environment lock in time:
\* the failed record stays.
FinishUnlocked(s) ==
  /\ envLock \notin {s, NoSession} /\ spendOn("fault", MaxRunFaults) /\ advance(s, "finish", "done")
  /\ ownerState' = [ownerState EXCEPT ![s] = "failed"] /\ held' = held \ {s}
  /\ UNCHANGED <<unclean, sessionRuntime, plane, bootOf, machineVars, fileVars, envLock, stopper,
                 daemonState>>

\* finishConcurrentRunEnvironment up to the receipt: the owner is cleaning,
\* its runtime directory goes, and the receipt goes with the last owner.
FinishCleaning(s) ==
  /\ envLock \in {s, NoSession} /\ advance(s, "finish", "finishing") /\ envLock' = s
  /\ LET swept    == reconcileStaleOwners(FALSE) \ {s}
         refused  == refusesStale(FALSE)
         siblings == ownersWith("live") \ {s}
     IN /\ ownerState' = [o \in Sessions |-> CASE o = s -> "cleaning" [] o \in swept -> "none"
                                          [] OTHER -> ownerState[o]]
        /\ sessionRuntime' = sessionRuntime \ (swept \cup {s})
        /\ unclean' = IF refused THEN unclean \cup {s} ELSE unclean
        /\ receipt' = IF ~refused /\ siblings = {} THEN noReceipt ELSE receipt
  /\ UNCHANGED <<held, plane, bootOf, machineVars, envRecord, services, stopper, daemonState, runSpent>>

\* A mutant of finishStatus: siblings are not looked at.
finishStatusAlone(s) == IF s \in unclean THEN "error" ELSE "ready"

finishStatus(s) ==
  IF ownersWith("live") \ {s} # {} THEN "running"
  ELSE IF s \in unclean THEN "error" ELSE "ready"

\* Release keeps the record of a session whose cleanup was not proved,
\* Close removes it.
finishOwner(s) == IF s \in unclean THEN "failed" ELSE "none"

FinishOwner(s) ==
  /\ advance(s, "finishing", "done") /\ ownerState' = [ownerState EXCEPT ![s] = finishOwner(s)]
  /\ held' = held \ {s} /\ envLock' = NoSession
  /\ envRecord' = finishStatus(s)
  /\ UNCHANGED <<unclean, sessionRuntime, plane, bootOf, machineVars, receipt, services,
                 stopper, daemonState, runSpent>>

(***************************************************************************)
(* StopEnvironmentIncarnation.                                             *)
(***************************************************************************)
noRunAtWork == \A s \in Sessions : runStep[s] \in {"new", "done"}

\* What planEnvironmentAction selects for an explicit stop.
stoppable == envRecord \notin {"created", "stopped"}

\* An automatic stop wants no owners, an explicit one only stale owners.
mayStop(mode) ==
  CASE mode = "automatic" -> ListOwners = {}
    [] mode = "explicit-recovery" -> ListOwners = ownersWith("stale")

BeginStop(mode) ==
  /\ daemonState = "up" /\ stopper.at = "idle" /\ envLock = NoSession
  /\ vmState = "running" \/ mode = "explicit-recovery"
  /\ mode = "explicit-recovery" => stoppable
  /\ noRunAtWork /\ mayStop(mode)
  /\ envLock' = Stopper /\ stopper' = [at |-> "observe", mode |-> mode, streak |-> 0]
  /\ UNCHANGED <<sessionVars, machineVars, fileVars, daemonState, runSpent>>

\* A sample of the backend inventory; a glitch shows another state.
inventorySample(state) ==
  \/ state = vmState /\ UNCHANGED runSpent
  \/ state \in {"stopped", "absent", "unknown"} \ {vmState} /\ spendOn("glitch", MaxGlitches)

\* The stop fails: no record is written.
StopFails ==
  /\ stopper' = [at |-> "idle", mode |-> "none", streak |-> 0] /\ envLock' = NoSession

\* observeAndStopEnvironment before the stop: a stopped machine is believed
\* when a second sample agrees, an absent one is an error.
observeInitial ==
  /\ stopper.at = "observe"
  /\ \E state \in {"running", "stopped", "absent", "unknown"} :
       /\ inventorySample(state)
       /\ CASE state = "running" -> stopper' = [stopper EXCEPT !.at = "stop"] /\ UNCHANGED envLock
            [] state = "stopped" /\ stopper.streak = 1 ->
                 stopper' = [stopper EXCEPT !.at = "commit"] /\ UNCHANGED envLock
            [] state = "stopped" /\ stopper.streak = 0 ->
                 stopper' = [stopper EXCEPT !.streak = 1] /\ UNCHANGED envLock
            [] OTHER -> StopFails
  /\ UNCHANGED <<sessionVars, machineVars, fileVars, daemonState>>

\* StopInstance, whose answer may be lost.
StopInstance ==
  /\ stopper.at = "stop"
  /\ \/ /\ vmState' = "stopped" /\ guestOf' = {}
        /\ stopper' = [stopper EXCEPT !.at = "prove", !.streak = 0] /\ UNCHANGED <<envLock, runSpent>>
     \/ /\ spendOn("fault", MaxRunFaults) /\ StopFails
        /\ \/ vmState' = "stopped" /\ guestOf' = {}
           \/ UNCHANGED <<vmState, guestOf>>
     \/ /\ spendOn("fault", MaxRunFaults) /\ UNCHANGED <<vmState, guestOf, envLock>>
        /\ stopper' = [stopper EXCEPT !.at = "prove", !.streak = 0]
  /\ UNCHANGED <<sessionVars, bootId, fileVars, daemonState>>

\* A mutant of stoppedStreak: one sample is proof enough.
stoppedOnce(streak) == streak >= 1

stoppedStreak(streak) == streak >= 2

\* Two stopped samples in a row prove the stop; other samples start over,
\* and the window closes after five seconds.
observeStopped ==
  /\ stopper.at = "prove"
  /\ \/ \E state \in {"running", "stopped", "absent", "unknown"} :
          /\ inventorySample(state)
          /\ LET streak == IF state = "stopped" THEN stopper.streak + 1 ELSE 0
             IN stopper' = [stopper EXCEPT !.streak = streak,
                                           !.at = IF stoppedStreak(streak) THEN "commit" ELSE "prove"]
          /\ UNCHANGED envLock
     \/ StopFails /\ UNCHANGED runSpent
  /\ UNCHANGED <<sessionVars, machineVars, fileVars, daemonState>>

\* commitObservedEnvironmentStop: the record first, the runtime after it.
\* An explicit stop then recovers the stale owners.
commitObservedEnvironmentStop ==
  /\ stopper.at = "commit" /\ envRecord' = "stopped"
  /\ stopper' = [stopper EXCEPT !.at = "invalidate"]
  /\ UNCHANGED <<sessionVars, machineVars, receipt, services, envLock, daemonState, runSpent>>

invalidateStoppedEnvironmentRuntime ==
  /\ stopper.at = "invalidate"
  /\ services' = FALSE /\ receipt' = noReceipt
  /\ stopper' = [stopper EXCEPT !.at = "recover"]
  /\ UNCHANGED <<sessionVars, machineVars, envRecord, envLock, daemonState, runSpent>>

recoverStoppedEnvironmentOwners ==
  /\ stopper.at = "recover" /\ StopFails
  /\ LET swept == IF stopper.mode = "explicit-recovery" THEN reconcileStaleOwners(TRUE) ELSE {}
     IN /\ ownerState' = [s \in Sessions |-> IF s \in swept THEN "none" ELSE ownerState[s]]
        /\ sessionRuntime' = sessionRuntime \ swept
  /\ UNCHANGED <<runStep, unclean, held, plane, bootOf, machineVars, fileVars, daemonState, runSpent>>

(***************************************************************************)
(* The daemon dies and starts again; the machine may stop on its own.      *)
(***************************************************************************)
DaemonDies ==
  /\ spendOn("crash", MaxRunCrashes)
  /\ runStep' = [s \in Sessions |-> IF runStep[s] = "new" THEN "new" ELSE "done"]
  /\ held' = {} /\ plane' = {} /\ envLock' = NoSession
  /\ stopper' = [at |-> "idle", mode |-> "none", streak |-> 0] /\ daemonState' = "reconciling"
  /\ UNCHANGED <<unclean, ownerState, sessionRuntime, bootOf, machineVars, fileVars>>

\* Orphan runtime directories go when the session is proved absent: by the
\* machine, or by a scan of its processes.
proveAbsent(s, observed) == observed \in {"stopped", "absent"} \/ (observed = "running" /\ s \notin guestOf)

reconcileOrphanSessionRuntime(observed) ==
  {s \in sessionRuntime : ownerState[s] # "none" \/ ~proveAbsent(s, observed)}

\* The receipt goes unless its owner may be alive in this boot.
reconcileActivationReceipt(observed) ==
  IF \/ observed \in {"stopped", "absent"}
     \/ /\ observed = "running"
        /\ receipt.boot # bootId \/ receipt.owner = NoSession \/ proveAbsent(receipt.owner, observed)
  THEN noReceipt ELSE receipt

\* reconcileRestartResidue: owners are never removed here.
reconcileRestartResidue(observed) ==
  /\ sessionRuntime' = reconcileOrphanSessionRuntime(observed)
  /\ receipt' = reconcileActivationReceipt(observed)
  /\ services' = (services /\ observed \notin {"stopped", "absent"})

\* reconcileStoppedEnvironmentRecord converges the record of a stopped
\* machine without owners.
reconcileStoppedEnvironmentRecord(observed) ==
  IF observed = "stopped" /\ ListOwners = {} THEN "stopped" ELSE envRecord

\* observeLifecycleForReconciliation takes two samples of a machine that
\* does not run, so that a single glitch is at worst "unknown".
observeLifecycleForReconciliation(observed) ==
  \/ observed = vmState /\ UNCHANGED runSpent
  \/ observed = "unknown" /\ spendOn("glitch", MaxGlitches)

reconcileLifecycleRecord ==
  /\ daemonState = "reconciling" /\ daemonState' = "up"
  /\ \E observed \in {vmState, "unknown"} :
       /\ observeLifecycleForReconciliation(observed)
       /\ reconcileRestartResidue(observed)
       /\ envRecord' = reconcileStoppedEnvironmentRecord(observed)
  /\ UNCHANGED <<runStep, unclean, ownerState, held, plane, bootOf, machineVars, envLock, stopper>>

retryLifecycleReconciliation ==
  /\ daemonState = "up" /\ noRunAtWork /\ stopper.at = "idle" /\ daemonState' = "reconciling"
  /\ UNCHANGED <<sessionVars, machineVars, fileVars, envLock, stopper, runSpent>>

GuestExits(s) ==
  /\ s \in guestOf /\ guestOf' = guestOf \ {s}
  /\ UNCHANGED <<sessionVars, vmState, bootId, fileVars, envLock, stopper, daemonState, runSpent>>

MachineStops ==
  /\ vmState = "running" /\ vmState' = "stopped" /\ guestOf' = {} /\ spendOn("fault", MaxRunFaults)
  /\ UNCHANGED <<sessionVars, bootId, fileVars, envLock, stopper, daemonState>>

Run(s) ==
  \/ ReserveAttach(s) \/ LockEnvironment(s) \/ LockRefused(s) \/ BeginRunSession(s)
  \/ openOwner(s) \/ AcquireOwner(s) \/ Promote(s) \/ StartRunDataPlane(s)
  \/ WarmActivate(s) \/ Activate(s) \/ StartRunNetworkService(s)
  \/ StartRunEnvironment(s) \/ RunTransition(s) \/ RunWithStreams(s) \/ RunReturns(s)
  \/ ReturnError(s) \/ Cleanup(s) \/ CloseRunDataPlane(s)
  \/ FinishUnlocked(s) \/ FinishCleaning(s) \/ FinishOwner(s)

StopSteps ==
  \/ \E mode \in {"automatic", "explicit-recovery"} : BeginStop(mode)
  \/ observeInitial \/ StopInstance \/ observeStopped
  \/ commitObservedEnvironmentStop \/ invalidateStoppedEnvironmentRuntime
  \/ recoverStoppedEnvironmentOwners

RunNext ==
  \/ \E s \in Sessions : Run(s) \/ GuestExits(s)
  \/ StopSteps \/ DaemonDies \/ reconcileLifecycleRecord \/ retryLifecycleReconciliation
  \/ MachineStops

RunSpec == RunInit /\ [][RunNext]_runVars

\* Sessions, stops and reconciliations go on; an operator asks for an
\* explicit stop again and again.
RunFairSpec ==
  /\ RunSpec /\ WF_runVars(StopSteps) /\ SF_runVars(BeginStop("explicit-recovery"))
  /\ WF_runVars(reconcileLifecycleRecord)
  /\ \A s \in Sessions : WF_runVars(Run(s))

(***************************************************************************)
(* Properties.                                                             *)
(***************************************************************************)
\* A process in the guest is never forgotten: the owner record of its
\* session stays on the host until the process or the machine is gone,
\* whatever fails, and whatever siblings, stops and restarted daemons clean
\* up.
GuestIsAccountedFor == \A s \in guestOf : ownerState[s] \notin {"none", "opened"}

\* Every return of ApplyRun, early or late, closes the data plane and gives
\* the owner lock up, and what it leaves on the host is covered by an owner
\* record that says so.
RunLeavesNothing ==
  \A s \in Sessions : runStep[s] = "done" =>
    /\ s \notin plane \cup held
    /\ s \in sessionRuntime /\ runSpent.crash = 0 => ownerState[s] = "failed"

\* The record says stopped only when the machine was not running, however
\* the inventory flickers.
StoppedIsStopped ==
  [][envRecord' = "stopped" /\ envRecord # "stopped" => vmState # "running"]_runVars

\* A record that says ready has no session at work, and one at work finds
\* its environment recorded as running.
RecordFollowsSessions ==
  \A s \in Sessions : runStep[s] \in {"ready", "running"} => envRecord = "running"

\* "an explicit environment stop can prove guest authority absent and
\* recover stale ownership" (internal/recovery/registry.go).
StopRecovers == []<>(ownersWith("stale") = {})

====

----------------------------- MODULE RunLaunch -----------------------------
(***************************************************************************)
(* How ApplyRun launches a target on a Lima environment and takes itself   *)
(* apart again: the reviewed plan, the selection of the environment        *)
(* record, the launch made under the environment's transition lock, the    *)
(* port bridges and previews, the pooled SSH transports, the guarded       *)
(* target, and the deferred clean-ups in the reverse order of their        *)
(* installation.  Runs share the guest, its runtime receipt and the SSH    *)
(* pool with each other and with `hideout runtime verify`.                 *)
(*                                                                         *)
(* One environment is modelled.  A host path is the sequence of its        *)
(* component names; the one symbolic link of the host can be re-pointed.   *)
(***************************************************************************)
EXTENDS Naturals, Sequences, FiniteSets

CONSTANTS
  Launches,        \* the runs
  LaunchRequests,  \* what the command line may ask of a run (see Request)
  LaunchLinks,     \* where the host's symbolic link may point
  MaxLaunchEvents, \* faults, edits, cancellations and crashes, together
  MaxVerifies      \* `runtime verify` commands

VARIABLES
  envRec,    \* the environment record: mode, bound place, status, identity
  hostNow,   \* the profile's current identity and the symbolic link
  launchLock,   \* the environment transition lock: its holder, or "free"
  launchOwner,    \* the durable owner record of every run
  vm,        \* the guest: power, boot, applied boot configuration, processes
  receipts,  \* the runtime receipt and the activation receipt on disk
  launch,    \* every run of ApplyRun
  checker,   \* the one `runtime verify`
  pool,      \* the daemon's SSH client pool
  launchLeft \* the budgets

launchVars == <<envRec, hostNow, launchLock, launchOwner, vm, receipts, launch, checker, pool, launchLeft>>

Nothing == "none"
SshUsers == {"user", "root"}

(***************************************************************************)
(* Host paths                                                              *)
(***************************************************************************)
StoreRoot == <<"home", "store">>
LinkPath == <<"home", "link">>

\* The catalogue's restricted roots, and those that are only a boundary: a
\* workspace may lie inside the home directory but may not contain it.
RestrictedRoots == {<<"home">>, StoreRoot}
HomeBoundary == {<<"home">>}

\* canonicalExistingWorkspace: the link is resolved.
canonicalExistingWorkspace(place) == IF place = LinkPath THEN hostNow.link ELSE place

pathInRoot(path, root) == root \in {SubSeq(path, 1, n) : n \in 0..Len(path)}

\* A workspace must not contain a restricted root nor, unless the root is
\* the home boundary, lie inside one.
ValidateWorkspaceMountSafety(root) ==
  \A r \in RestrictedRoots :
    /\ ~pathInRoot(r, root)
    /\ r \in HomeBoundary \/ ~pathInRoot(root, r)

runtimeReceiptAuthoritySafe(root) ==
  ~pathInRoot(root, StoreRoot) /\ ~pathInRoot(StoreRoot, root)

(***************************************************************************)
(* Requests and plans                                                      *)
(***************************************************************************)
\* A request: the environment it names, its workspace, whether the operator
\* allowed an unsafe workspace, whether its Git metadata leads out of it, and
\* the endpoint it wants previewed.
Request == [env : {"auto", "named"}, place : Seq(STRING), unsafe : BOOLEAN, gitOut : BOOLEAN,
            preview : {"none", "listed", "foreign", "manual", "remote"}]

\* The profile's endpoint candidates, with their owners.
EndpointCandidates == [listed |-> "preview.open", foreign |-> "browser.control"]

\* A manual endpoint must be a loopback address.
normalizePreviewEndpoint(target) == target # "remote"

\* A preview target is a candidate of the profile, which must belong to
\* preview.open, or a manual endpoint.
BuildPreviewOpenOptions(req) ==
  \/ req.preview = "none"
  \/ IF req.preview \in DOMAIN EndpointCandidates THEN EndpointCandidates[req.preview] = "preview.open"
     ELSE normalizePreviewEndpoint(req.preview)

\* The candidates a run may expose: the profile's and its manual one.
runEndpointCandidateRegistry(req) ==
  [c \in DOMAIN EndpointCandidates \cup {"manual"} |->
     IF c = "manual" THEN "preview.open" ELSE EndpointCandidates[c]]

\* resolveHostToGuestExposureRequest: the candidate is known and belongs to
\* the owner that is active in this run.
resolveHostToGuestExposureRequest(req) ==
  LET known == runEndpointCandidateRegistry(req)
  IN  req.preview \in DOMAIN known /\ known[req.preview] = "preview.open"

\* The endpoints a run exposes; the data plane refuses one it cannot resolve.
resolveRunEndpointExposures(req) == req.preview = "none" \/ resolveHostToGuestExposureRequest(req)

\* The workspace's Git directory may not lie outside the workspace.
ValidateAliasWorkspaceMetadata(req) == ~req.gitOut

\* What PlanRun reads of the profile and the workspace.
PlanRun(req) == [machine |-> hostNow.machine, boot |-> hostNow.boot, place |-> req.place]

\* PlanRun refuses an unsafe workspace unless that was allowed.
planAccepted(req) ==
  /\ req.unsafe \/ ValidateWorkspaceMountSafety(canonicalExistingWorkspace(req.place))
  /\ ValidateAliasWorkspaceMetadata(req)
  /\ BuildPreviewOpenOptions(req)

UsesWorkspacePortal(mode) == mode \in {"shared", "dedicated-portal"}

\* The root the data plane may serve: the session's attachment, or the
\* environment's own binding.
workspaceAuthorityForRunSession(l) ==
  IF UsesWorkspacePortal(envRec.mode) THEN l.root ELSE canonicalExistingWorkspace(envRec.bound)

\* It must be the workspace of the plan at the moment the plane starts.
workspaceAuthorityForDataPlane(l) ==
  canonicalExistingWorkspace(l.plan.place) = workspaceAuthorityForRunSession(l)

\* A portal machine takes no static mount, a pinned one exactly its own.
ConfigForMachineSpec(l) ==
  IF UsesWorkspacePortal(envRec.mode) THEN <<>> ELSE workspaceAuthorityForRunSession(l)

\* The specification a record of this mode is compared with, and the axes on
\* which it may have drifted.  A pinned workspace is compared by identity.
runEnvironmentSpecForRecord(mode, plan) ==
  [mode |-> mode, machine |-> plan.machine,
   bound |-> IF UsesWorkspacePortal(mode) THEN <<>> ELSE canonicalExistingWorkspace(plan.place)]

ValidateEnvironmentRecord(plan) ==
  LET spec == runEnvironmentSpecForRecord(envRec.mode, plan)
  IN  /\ envRec.machine = spec.machine
      /\ spec.bound = <<>> \/ canonicalExistingWorkspace(envRec.bound) = spec.bound

(***************************************************************************)
(* Runs                                                                    *)
(***************************************************************************)
NoPlan == [machine |-> 0, boot |-> 0, place |-> <<>>]
NoRunRequest == [env |-> "auto", place |-> <<>>, unsafe |-> FALSE, gitOut |-> FALSE, preview |-> "none"]

\* defers is the stack of deferred clean-ups, the newest first; lease and bridge
\* name the SSH client the run holds (0 when none); proved says that no process of
\* the session was left; preview what became of the endpoint to be opened.
IdleLaunch == [at |-> "idle", req |-> NoRunRequest, plan |-> NoPlan, defers |-> <<>>, root |-> <<>>, mount |-> <<>>,
               failed |-> FALSE, unclean |-> FALSE, reboot |-> FALSE, lease |-> 0, bridge |-> 0, guard |-> Nothing,
               started |-> FALSE, proved |-> FALSE, preview |-> Nothing]

launchOn(r, place) == [launch EXCEPT ![r].at = place]
defer(l, d) == [l EXCEPT !.defers = <<d>> \o @]

\* An error return: only the deferred clean-ups are left to run.
abortRun(r) == launch' = [launch EXCEPT ![r].at = "return", ![r].failed = TRUE]

launchHappens == launchLeft.events > 0
launchSpend == launchLeft' = [launchLeft EXCEPT !.events = @ - 1]
launchQuiet == UNCHANGED launchLeft

\* A step that may fail in the operating system, the guest or the audit log.
mayFail(r) == launchHappens /\ launchSpend /\ abortRun(r)

liveOwnerIDs == {r \in Launches : launchOwner[r] \notin {Nothing, "failed"} /\ launch[r].at # "dead"}

\* An owner record whose process is gone, or that says it failed, refuses
\* every further attach until an explicit stop recovers it.
requireAttachableEnvironmentOwners ==
  \A r \in Launches : launchOwner[r] # Nothing => r \in liveOwnerIDs /\ launchOwner[r] \notin {"cleaning", "failed"}

(***************************************************************************)
(* The SSH pool: one entry for each user, holding a client and the number  *)
(* of leases on it.  A client is numbered by the order of connection.      *)
(***************************************************************************)
NoEntry == [client |-> 0, refs |-> 0]

leasesOn(user, c) ==
  {r \in Launches : c # 0 /\ (IF user = "root" THEN launch[r].lease ELSE launch[r].bridge) = c}

\* acquire: an idle entry is checked first and a dead one is replaced; an
\* entry in use is shared unchecked.
reusable(user) ==
  /\ pool[user].client # 0
  /\ pool[user].refs > 0 \/ pool[user].client \notin pool.dead

acquireLease(user) ==
  IF reusable(user) THEN [pool EXCEPT ![user].refs = @ + 1]
  ELSE [pool EXCEPT ![user] = [client |-> pool.next, refs |-> 1], !.next = @ + 1]

\* acquireSSHClientForUser reads the instance's SSH configuration and dials;
\* a client in use is handed out as it is.
connects(user) == vm.up /\ ~(reusable(user) /\ pool[user].client \in pool.dead)

acquiredClient(user) == IF reusable(user) THEN pool[user].client ELSE pool.next

\* release: an entry that is gone or holds another client is left alone.
releaseLease(p, user, c) ==
  IF c # 0 /\ p[user].client = c THEN [p EXCEPT ![user].refs = @ - 1] ELSE p

\* Invalidate: the client is closed and its entry dropped, whoever uses it.
invalidateClient(p, user, c) ==
  IF c # 0 /\ p[user].client = c THEN [p EXCEPT ![user] = NoEntry, !.dead = @ \cup {c}] ELSE p

\* InvalidateInstance closes every client of the instance.
InvalidateInstance(p) ==
  [p EXCEPT !.user = NoEntry, !.root = NoEntry, !.dead = @ \cup ({p.user.client, p.root.client} \ {0})]

(***************************************************************************)
(* Receipts and status                                                     *)
(***************************************************************************)
NoReceipt == [by |-> Nothing, boot |-> 0]
NoActivation == [owner |-> Nothing, boot |-> 0]

removeReceipt == [receipts EXCEPT !.runtime = NoReceipt]

runtimeEnvironmentRunning == envRec.status \in {"ready", "running"}

\* RuntimeStatus: ready only when the receipt says so and names the boot the
\* instance is observed at.
RuntimeStatus ==
  IF /\ runtimeEnvironmentRunning
     /\ receipts.runtime.by # Nothing
     /\ vm.up /\ receipts.runtime.boot = vm.boot
  THEN "preview-ready" ELSE "unknown"

LaunchInit ==
  /\ envRec = [mode |-> Nothing, named |-> FALSE, bound |-> <<>>, status |-> Nothing, machine |-> 0, boot |-> 0]
  /\ hostNow = [machine |-> 1, boot |-> 1, link |-> <<"home", "p">>]
  /\ launchLock = "free"
  /\ launchOwner = [r \in Launches |-> Nothing]
  /\ vm = [up |-> FALSE, boot |-> 0, applied |-> 0, procs |-> {}, ran |-> FALSE]
  /\ receipts = [runtime |-> NoReceipt, activation |-> NoActivation]
  /\ launch = [r \in Launches |-> IdleLaunch]
  /\ checker = [at |-> "idle", up |-> FALSE]
  /\ pool = [user |-> NoEntry, root |-> NoEntry, dead |-> {}, next |-> 1]
  /\ launchLeft = [events |-> MaxLaunchEvents, verifies |-> MaxVerifies]

(***************************************************************************)
(* Planning and selection                                                  *)
(***************************************************************************)
\* RunService.Prepare: the plan the operator reviews.
PrepareRun(r, req) ==
  /\ launch[r].at = "idle"
  /\ IF req.env = "auto" THEN envRec.mode \in {Nothing, "shared"} ELSE envRec.mode # Nothing
  /\ launch' = [launch EXCEPT ![r] = IF planAccepted(req) THEN [@ EXCEPT !.at = "planned", !.req = req, !.plan = PlanRun(req)]
                                     ELSE [@ EXCEPT !.at = "done", !.failed = TRUE]]
  /\ UNCHANGED <<envRec, hostNow, launchLock, launchOwner, vm, receipts, checker, pool, launchLeft>>

\* RunService.Apply plans again and refuses a plan that changed.
ApplyReviewedRun(r) ==
  /\ launch[r].at = "planned"
  /\ IF planAccepted(launch[r].req) /\ PlanRun(launch[r].req) = launch[r].plan
     THEN launch' = launchOn(r, "select") ELSE abortRun(r)
  /\ UNCHANGED <<envRec, hostNow, launchLock, launchOwner, vm, receipts, checker, pool, launchLeft>>

\* `hideout env create`: a dedicated environment pinned to a workspace.
CreateDedicated(place) ==
  /\ envRec.mode = Nothing /\ \A r \in Launches : launch[r].at \in {"idle", "planned"}
  /\ envRec' = [mode |-> "dedicated", named |-> FALSE, bound |-> place, status |-> "created",
                machine |-> hostNow.machine, boot |-> hostNow.boot]
  /\ UNCHANGED <<hostNow, launchLock, launchOwner, vm, receipts, launch, checker, pool, launchLeft>>

\* The shared slot's lock is held from the lookup to the saved instance name.
slotFree == \A r \in Launches : launch[r].at # "name"

\* selectAutomaticRunEnvironmentForPlatform creates the shared record ...
CreateSharedEnvironment(r) ==
  /\ launch[r].at = "select" /\ launch[r].req.env = "auto" /\ slotFree /\ envRec.mode = Nothing
  /\ envRec' = [mode |-> "shared", named |-> FALSE, bound |-> <<>>, status |-> "created",
                machine |-> launch[r].plan.machine, boot |-> launch[r].plan.boot]
  /\ launch' = launchOn(r, "name")
  /\ UNCHANGED <<hostNow, launchLock, launchOwner, vm, receipts, checker, pool, launchLeft>>

\* ... and saves it again with the name of its instance.
NameInstance(r) ==
  /\ launch[r].at = "name"
  /\ \/ envRec' = [envRec EXCEPT !.named = TRUE] /\ launch' = launchOn(r, "lock") /\ launchQuiet
     \/ mayFail(r) /\ UNCHANGED envRec
  /\ UNCHANGED <<hostNow, launchLock, launchOwner, vm, receipts, checker, pool>>

\* SelectRunEnvironment: an existing record must not have drifted; one whose
\* instance was never named is named now.
SelectRunEnvironment(r) ==
  /\ launch[r].at = "select" /\ slotFree
  /\ IF (envRec.mode = "dedicated" /\ launch[r].req.env = "auto") \/ ~ValidateEnvironmentRecord(launch[r].plan)
     THEN abortRun(r) /\ UNCHANGED envRec
     ELSE launch' = launchOn(r, "lock") /\ envRec' = [envRec EXCEPT !.named = TRUE]
  /\ envRec.mode # Nothing
  /\ UNCHANGED <<hostNow, launchLock, launchOwner, vm, receipts, checker, pool, launchLeft>>

(***************************************************************************)
(* The launch under the transition lock                                    *)
(***************************************************************************)
\* The record is read again under the lock; an unfinished owner refuses.
LockEnvironment(r) ==
  /\ launch[r].at = "lock" /\ launchLock = "free" /\ launchLock' = r
  /\ LET l == defer(launch[r], "unlock")
         ok == ValidateEnvironmentRecord(l.plan) /\ requireAttachableEnvironmentOwners
     IN launch' = [launch EXCEPT ![r] = [l EXCEPT !.at = IF ok THEN "begin" ELSE "return", !.failed = ~ok,
                                                  !.reboot = envRec.boot # l.plan.boot]]
  /\ UNCHANGED <<envRec, hostNow, launchOwner, vm, receipts, checker, pool, launchLeft>>

\* BeginRunSession, with the three clean-ups installed after it.
BeginRunSession(r) ==
  /\ launch[r].at = "begin"
  /\ \/ /\ launch' = [launch EXCEPT ![r] = [defer(defer(@, "finish"), "close") EXCEPT !.at = "attach"]]
        /\ launchQuiet
     \/ mayFail(r)
  /\ UNCHANGED <<envRec, hostNow, launchLock, launchOwner, vm, receipts, checker, pool>>

\* PlanRunWorkspaceAttachmentForIncarnation captures the root of a portal
\* run and checks it again; a pinned record carries its own root.
PlanRunWorkspaceAttachment(r) ==
  LET root == canonicalExistingWorkspace(IF UsesWorkspacePortal(envRec.mode) THEN launch[r].plan.place ELSE envRec.bound)
  IN  /\ launch[r].at = "attach"
      /\ IF UsesWorkspacePortal(envRec.mode) => ValidateWorkspaceMountSafety(root)
         THEN launch' = [launch EXCEPT ![r].root = root, ![r].at = "bind"] ELSE abortRun(r)
      /\ UNCHANGED <<envRec, hostNow, launchLock, launchOwner, vm, receipts, checker, pool, launchLeft>>

\* ApplyRunWorkspaceAttachment captures the root once more; then the session
\* takes its durable owner record.
ApplyRunWorkspaceAttachment(r) ==
  /\ launch[r].at = "bind"
  /\ IF UsesWorkspacePortal(envRec.mode) /\ canonicalExistingWorkspace(launch[r].plan.place) # launch[r].root
     THEN abortRun(r) /\ launchQuiet /\ UNCHANGED launchOwner
     ELSE \/ launch' = launchOn(r, "audit") /\ launchOwner' = [launchOwner EXCEPT ![r] = "starting"] /\ launchQuiet
          \/ mayFail(r) /\ UNCHANGED launchOwner
  /\ UNCHANGED <<envRec, hostNow, launchLock, vm, receipts, checker, pool>>

\* OpenRunSessionAudit and emitRunSetupAudit; a session that fails after this
\* still writes its session.end.
OpenRunSessionAudit(r) ==
  /\ launch[r].at = "audit"
  /\ \/ launch' = [launch EXCEPT ![r] = [defer(@, "end") EXCEPT !.at = "plane"]] /\ launchQuiet
     \/ mayFail(r)
  /\ UNCHANGED <<envRec, hostNow, launchLock, launchOwner, vm, receipts, checker, pool>>

(***************************************************************************)
(* The data plane                                                          *)
(***************************************************************************)
\* StartRunDataPlane up to the broker: the endpoints resolve and the workspace
\* is still the one the authority names.
StartRunDataPlane(r) ==
  /\ launch[r].at = "plane"
  /\ IF resolveRunEndpointExposures(launch[r].req) /\ workspaceAuthorityForDataPlane(launch[r])
     THEN launch' = launchOn(r, IF launch[r].req.preview = "none" THEN "planed" ELSE "bridges")
     ELSE abortRun(r)
  /\ UNCHANGED <<envRec, hostNow, launchLock, launchOwner, vm, receipts, checker, pool, launchLeft>>

\* startRunPortBridges: StartHostToGuestBridge takes a lease on the guest
\* user's client.  The guest must already be up; a client that another run
\* keeps in use is not checked.  On failure the leases taken are closed.
startRunPortBridges(r) ==
  /\ launch[r].at = "bridges"
  /\ IF connects("user")
     THEN /\ pool' = acquireLease("user")
          /\ launch' = [launch EXCEPT ![r].bridge = acquiredClient("user"), ![r].at = "planed"]
     ELSE abortRun(r) /\ UNCHANGED pool
  /\ UNCHANGED <<envRec, hostNow, launchLock, launchOwner, vm, receipts, checker, launchLeft>>

\* The data plane is handed to the run.  attachRuntimeVerification withdraws
\* the receipt before the backend is prepared.
attachRuntimeVerification(r) ==
  /\ launch[r].at = "planed" /\ receipts' = removeReceipt
  /\ launch' = [launch EXCEPT ![r] = [defer(@, "plane") EXCEPT !.at = "prepare"]]
  /\ UNCHANGED <<envRec, hostNow, launchLock, launchOwner, vm, checker, pool, launchLeft>>

\* Backend.Prepare writes the instance's configuration.
PrepareBackend(r) ==
  /\ launch[r].at = "prepare"
  /\ \/ /\ launch' = [launch EXCEPT ![r] = [defer(@, "cleanup") EXCEPT !.at = "activate", !.mount = ConfigForMachineSpec(launch[r])]]
        /\ launchQuiet
     \/ mayFail(r)
  /\ UNCHANGED <<envRec, hostNow, launchLock, launchOwner, vm, receipts, checker, pool>>

(***************************************************************************)
(* Activation                                                              *)
(***************************************************************************)
activationOwnerLive(r) == receipts.activation.owner \in liveOwnerIDs \ {r}

\* WarmActivate: a live sibling activated the guest; its receipt is trusted.
WarmActivate(r) ==
  /\ launch[r].at = "activate" /\ activationOwnerLive(r) /\ launch' = launchOn(r, "start")
  /\ UNCHANGED <<envRec, hostNow, launchLock, launchOwner, vm, receipts, checker, pool, launchLeft>>

powerOn == IF vm.up THEN vm ELSE [vm EXCEPT !.up = TRUE, !.boot = @ + 1, !.procs = {}]

\* Activate, cold: the instance is started, or found started ...
startAndObserveRuntime(r) ==
  /\ launch[r].at = "activate" /\ ~activationOwnerLive(r)
  /\ \/ vm' = powerOn /\ launch' = launchOn(r, "observe") /\ launchQuiet
     \/ mayFail(r) /\ UNCHANGED vm
  /\ UNCHANGED <<envRec, hostNow, launchLock, launchOwner, receipts, checker, pool>>

\* ... its runtime is observed, and a receipt kept unless the workspace could
\* reach the store; what has run in the guest since is of interest only from
\* here on ...
observeRuntime(r) ==
  /\ launch[r].at = "observe"
  /\ \/ /\ receipts' = IF runtimeReceiptAuthoritySafe(launch[r].root)
                       THEN [receipts EXCEPT !.runtime = [by |-> "run", boot |-> vm.boot]] ELSE receipts
        /\ vm' = [vm EXCEPT !.ran = vm.procs # {}]
        /\ launch' = launchOn(r, "receipt") /\ launchQuiet
     \/ mayFail(r) /\ UNCHANGED <<vm, receipts>>
  /\ UNCHANGED <<envRec, hostNow, launchLock, launchOwner, checker, pool>>

\* ... and the activation is recorded for the siblings to come.
WriteActivationReceipt(r) ==
  /\ launch[r].at = "receipt"
  /\ receipts' = [receipts EXCEPT !.activation = [owner |-> r, boot |-> vm.boot]]
  /\ launch' = launchOn(r, "start")
  /\ UNCHANGED <<envRec, hostNow, launchLock, launchOwner, vm, checker, pool, launchLeft>>

\* ReconcileEnvironmentBoot and StartRunEnvironment; the lock is let go with
\* the record saying that the environment runs.
StartRunEnvironment(r) ==
  /\ launch[r].at = "start"
  /\ \/ /\ envRec' = [envRec EXCEPT !.status = "running", !.boot = IF launch[r].reboot THEN launch[r].plan.boot ELSE @]
        /\ vm' = [vm EXCEPT !.applied = IF launch[r].reboot THEN launch[r].plan.boot ELSE @]
        /\ launchOwner' = [launchOwner EXCEPT ![r] = "running"] /\ launchLock' = "free"
        /\ launch' = launchOn(r, "run") /\ launchQuiet
     \/ mayFail(r) /\ UNCHANGED <<envRec, vm, launchOwner, launchLock>>
  /\ UNCHANGED <<hostNow, receipts, checker, pool>>

(***************************************************************************)
(* The guarded target                                                      *)
(***************************************************************************)
\* runIsolatedSession: the root client is leased, the guardian started, and
\* the target in its view.  The guardian knows the target only once the
\* target has written its control file.
runIsolatedSession(r) ==
  /\ launch[r].at = "run"
  /\ IF connects("root")
     THEN /\ pool' = acquireLease("root") /\ vm' = [vm EXCEPT !.procs = @ \cup {r}, !.ran = TRUE]
          /\ launch' = [launch EXCEPT ![r].lease = acquiredClient("root"), ![r].started = TRUE,
                                      ![r].guard = "blind", ![r].at = "target",
                                      ![r].preview = IF launch[r].bridge # 0 THEN "waiting" ELSE Nothing]
     ELSE /\ pool' = IF reusable("root") THEN invalidateClient(pool, "root", pool.root.client) ELSE pool
          /\ launch' = [launch EXCEPT ![r].failed = TRUE, ![r].at = "ended"] /\ UNCHANGED vm
  /\ UNCHANGED <<envRec, hostNow, launchLock, launchOwner, receipts, checker, launchLeft>>

\* startRunPreviews and openRunPreviewEvents: once the target is ready the
\* endpoint is awaited and opened on the host.
openRunPreviewEvents(r) ==
  /\ launch[r].preview = "waiting" /\ r \in vm.procs /\ launch' = [launch EXCEPT ![r].preview = "opened"]
  /\ UNCHANGED <<envRec, hostNow, launchLock, launchOwner, vm, receipts, checker, pool, launchLeft>>

ControlFileAppears(r) ==
  /\ launch[r].guard = "blind" /\ r \in vm.procs /\ launch' = [launch EXCEPT ![r].guard = "watching"]
  /\ UNCHANGED <<envRec, hostNow, launchLock, launchOwner, vm, receipts, checker, pool, launchLeft>>

\* waitGuardedSSHSession, the target ends first: the guardian is told that all
\* is done.  Another process of the session may be left behind.
targetExits(r) ==
  /\ launch[r].at = "target" /\ launch[r].lease \notin pool.dead
  /\ \E left \in BOOLEAN :
       /\ left => launchHappens
       /\ IF left THEN launchSpend /\ UNCHANGED vm ELSE launchQuiet /\ vm' = [vm EXCEPT !.procs = @ \ {r}]
  /\ launch' = [launch EXCEPT ![r].guard = Nothing, ![r].at = "prove"]
  /\ UNCHANGED <<envRec, hostNow, launchLock, launchOwner, receipts, checker, pool>>

\* waitGuardedSSHSession, the caller cancels or the transport is lost: the
\* run returns, and the guardian hears nothing more.
targetAbandoned(r) ==
  /\ launch[r].at = "target"
  /\ IF launch[r].lease \in pool.dead THEN launchQuiet ELSE launchHappens /\ launchSpend
  /\ launch' = [launch EXCEPT ![r].guard = IF @ = "blind" THEN "lost" ELSE "killing", ![r].failed = TRUE, ![r].at = "ended"]
  /\ UNCHANGED <<envRec, hostNow, launchLock, launchOwner, vm, receipts, checker, pool>>

\* SessionGuardianCommand: on the loss of its heartbeat the guardian kills the
\* target it knows; it ends without a kill when no control file turns up.
guardianActs(r) ==
  /\ launch[r].guard \in {"lost", "killing"}
  /\ vm' = [vm EXCEPT !.procs = IF launch[r].guard = "killing" THEN @ \ {r} ELSE @]
  /\ launch' = [launch EXCEPT ![r].guard = Nothing]
  /\ UNCHANGED <<envRec, hostNow, launchLock, launchOwner, receipts, checker, pool, launchLeft>>

\* verifyIsolatedSessionTerminated: no process carries the session's name.
terminated(r) == r \notin vm.procs

\* A mutant of verifyIsolatedSessionTerminated: the exit of the target counts as proof.
exitIsProof(r) ==
  /\ launch[r].at = "prove"
  /\ launch' = [launch EXCEPT ![r].proved = TRUE, ![r].at = "ended"]
  /\ UNCHANGED <<envRec, hostNow, launchLock, launchOwner, vm, receipts, checker, pool, launchLeft>>

verifyIsolatedSessionTerminated(r) ==
  /\ launch[r].at = "prove"
  /\ launch' = [launch EXCEPT ![r].proved = terminated(r), ![r].failed = @ \/ ~terminated(r), ![r].at = "ended"]
  /\ UNCHANGED <<envRec, hostNow, launchLock, launchOwner, vm, receipts, checker, pool, launchLeft>>

\* The run returns from the backend: the lease is closed, the completion sink
\* withdraws the receipt of a run that failed, the previews are cancelled and
\* session.end is written.
finishTarget(r) ==
  /\ launch[r].at = "ended"
  /\ pool' = releaseLease(pool, "root", launch[r].lease)
  /\ receipts' = IF launch[r].failed THEN removeReceipt ELSE receipts
  /\ launch' = [launch EXCEPT ![r].lease = 0, ![r].preview = Nothing, ![r].at = "return"]
  /\ UNCHANGED <<envRec, hostNow, launchLock, launchOwner, vm, checker, launchLeft>>

(***************************************************************************)
(* The deferred clean-ups                                                  *)
(***************************************************************************)
due(r, d) == launch[r].at = "return" /\ launch[r].defers # <<>> /\ Head(launch[r].defers) = d
popped(l) == [l EXCEPT !.defers = Tail(@)]

\* Backend.Cleanup: a session whose end was not proved is asked about again.
CleanupBackend(r) ==
  /\ due(r, "cleanup")
  /\ LET bad == launch[r].started /\ ~launch[r].proved /\ ~(vm.up => terminated(r))
     IN launch' = [launch EXCEPT ![r] = [popped(launch[r]) EXCEPT !.unclean = @ \/ bad, !.failed = @ \/ bad]]
  /\ UNCHANGED <<envRec, hostNow, launchLock, launchOwner, vm, receipts, checker, pool, launchLeft>>

\* CloseRunDataPlane: the bridge closes with the lease it was given.
CloseRunDataPlane(r) ==
  /\ due(r, "plane") /\ pool' = releaseLease(pool, "user", launch[r].bridge)
  /\ launch' = [launch EXCEPT ![r] = [popped(@) EXCEPT !.bridge = 0]]
  /\ UNCHANGED <<envRec, hostNow, launchLock, launchOwner, vm, receipts, checker, launchLeft>>

\* session.end and CloseRunSession; an error of the latter is a clean-up error.
CloseRunSession(r) ==
  /\ due(r, "end") \/ due(r, "close")
  /\ \/ launch' = [launch EXCEPT ![r] = popped(@)] /\ launchQuiet
     \/ /\ due(r, "close") /\ launchHappens /\ launchSpend
        /\ launch' = [launch EXCEPT ![r] = [popped(@) EXCEPT !.unclean = TRUE, !.failed = TRUE]]
  /\ UNCHANGED <<envRec, hostNow, launchLock, launchOwner, vm, receipts, checker, pool>>

\* finishConcurrentRunEnvironment without an owner does nothing ...
FinishWithoutOwner(r) ==
  /\ due(r, "finish") /\ launchOwner[r] = Nothing /\ launch' = [launch EXCEPT ![r] = popped(@)]
  /\ UNCHANGED <<envRec, hostNow, launchLock, launchOwner, vm, receipts, checker, pool, launchLeft>>

\* ... and when the lock does not come free in time the failed owner record is
\* all it leaves ...
FinishWithoutLock(r) ==
  /\ due(r, "finish") /\ launchOwner[r] # Nothing /\ launchLock \notin {r, "free"} /\ launchHappens /\ launchSpend
  /\ launchOwner' = [launchOwner EXCEPT ![r] = "failed"]
  /\ launch' = [launch EXCEPT ![r] = [popped(@) EXCEPT !.failed = TRUE]]
  /\ UNCHANGED <<envRec, hostNow, launchLock, vm, receipts, checker, pool>>

\* A mutant of finishConcurrentRunEnvironment: the receipt is left.
finishKeepingReceipt(r) ==
  /\ due(r, "finish") /\ launchOwner[r] # Nothing /\ launchLock \in {r, "free"} /\ launchLock' = "free"
  /\ launchOwner' = [launchOwner EXCEPT ![r] = IF launch[r].unclean THEN "failed" ELSE Nothing]
  /\ envRec' = [envRec EXCEPT !.status = IF launch[r].unclean THEN "error" ELSE "ready"]
  /\ launch' = [launch EXCEPT ![r] = popped(@)]
  /\ UNCHANGED <<hostNow, vm, receipts, checker, pool, launchLeft>>

\* ... otherwise, under the lock, the runtime receipt goes, stale owners are
\* swept unless one needs recovery, the activation receipt goes with the last
\* owner, and the record says what is left.
finishConcurrentRunEnvironment(r) ==
  /\ due(r, "finish") /\ launchOwner[r] # Nothing /\ launchLock \in {r, "free"} /\ launchLock' = "free"
  /\ LET stale    == {o \in Launches \ {r} : launchOwner[o] # Nothing} \ liveOwnerIDs
         refused  == \E o \in stale : launchOwner[o] \in {"cleaning", "failed"}
         siblings == liveOwnerIDs \ {r}
         bad      == launch[r].unclean \/ refused
     IN /\ receipts' = [runtime |-> NoReceipt,
                        activation |-> IF ~refused /\ siblings = {} THEN NoActivation ELSE receipts.activation]
        /\ launchOwner' = [o \in Launches |-> IF o = r THEN IF bad THEN "failed" ELSE Nothing
                                            ELSE IF o \in stale /\ ~refused THEN Nothing ELSE launchOwner[o]]
        /\ envRec' = [envRec EXCEPT !.status = IF siblings # {} THEN "running" ELSE IF bad THEN "error" ELSE "ready"]
        /\ launch' = [launch EXCEPT ![r] = [popped(launch[r]) EXCEPT !.failed = @ \/ refused]]
  /\ UNCHANGED <<hostNow, vm, checker, pool, launchLeft>>

UnlockEnvironment(r) ==
  /\ due(r, "unlock") /\ launchLock' = IF launchLock = r THEN "free" ELSE launchLock
  /\ launch' = [launch EXCEPT ![r] = popped(@)]
  /\ UNCHANGED <<envRec, hostNow, launchOwner, vm, receipts, checker, pool, launchLeft>>

ReturnFromApply(r) ==
  /\ launch[r].at = "return" /\ launch[r].defers = <<>>
  /\ launch' = [launch EXCEPT ![r] = [IdleLaunch EXCEPT !.at = "done", !.failed = launch[r].failed, !.guard = launch[r].guard]]
  /\ UNCHANGED <<envRec, hostNow, launchLock, launchOwner, vm, receipts, checker, pool, launchLeft>>

(***************************************************************************)
(* runtime verify                                                          *)
(***************************************************************************)
runtimeReceiptAuthoritySafeForEnvironment ==
  UsesWorkspacePortal(envRec.mode) \/ runtimeReceiptAuthoritySafe(canonicalExistingWorkspace(envRec.bound))

\* PlanRuntimeVerify, which ApplyRuntimeVerify repeats: not while a run is on record.
PlanRuntimeVerify ==
  /\ checker.at = "idle" /\ launchLeft.verifies > 0
  /\ envRec.mode # Nothing /\ envRec.named /\ envRec.status # "running"
  /\ runtimeReceiptAuthoritySafeForEnvironment
  /\ checker' = [checker EXCEPT !.at = "planned"]
  /\ launchLeft' = [launchLeft EXCEPT !.verifies = @ - 1]
  /\ UNCHANGED <<envRec, hostNow, launchLock, launchOwner, vm, receipts, launch, pool>>

\* The lock is tried once; the status is not looked at again.
LockForVerify ==
  /\ checker.at = "planned"
  /\ IF launchLock = "free" THEN launchLock' = "verify" /\ receipts' = removeReceipt /\ checker' = [checker EXCEPT !.at = "start"]
     ELSE UNCHANGED <<launchLock, receipts>> /\ checker' = [checker EXCEPT !.at = "idle"]
  /\ UNCHANGED <<envRec, hostNow, launchOwner, vm, launch, pool, launchLeft>>

\* VerifyRuntime starts the guest and observes its runtime.
VerifyRuntime ==
  /\ checker.at = "start" /\ vm' = [powerOn EXCEPT !.ran = powerOn.procs # {}]
  /\ \/ receipts' = [receipts EXCEPT !.runtime = [by |-> "verify", boot |-> powerOn.boot]] /\ launchQuiet
     \/ launchHappens /\ launchSpend /\ receipts' = removeReceipt
  /\ checker' = [checker EXCEPT !.at = "save"]
  /\ UNCHANGED <<envRec, hostNow, launchLock, launchOwner, launch, pool>>

\* With a receipt the record is saved as ready; then the lock is let go.
FinishVerify ==
  /\ checker.at = "save" /\ checker' = [checker EXCEPT !.at = "idle"] /\ launchLock' = "free"
  /\ envRec' = [envRec EXCEPT !.status = IF receipts.runtime.by = "verify" THEN "ready" ELSE @]
  /\ UNCHANGED <<hostNow, launchOwner, vm, receipts, launch, pool, launchLeft>>

(***************************************************************************)
(* The surroundings                                                        *)
(***************************************************************************)
\* An explicit stop: the pool's clients go first, then the guest; what stale
\* owners are left is recovered with the activation receipt.
StopInstance ==
  /\ launchLock = "free" /\ liveOwnerIDs = {} /\ vm.up
  /\ pool' = InvalidateInstance(pool) /\ vm' = [vm EXCEPT !.up = FALSE, !.procs = {}]
  /\ launchOwner' = [r \in Launches |-> Nothing] /\ envRec' = [envRec EXCEPT !.status = "stopped"]
  /\ receipts' = [receipts EXCEPT !.activation = NoActivation]
  /\ launch' = [r \in Launches |-> [launch[r] EXCEPT !.guard = Nothing]]
  /\ UNCHANGED <<hostNow, launchLock, checker, launchLeft>>

\* The operator edits the profile's machine or boot settings.
EditProfile(field) ==
  /\ launchHappens /\ launchSpend /\ hostNow[field] = 1 /\ hostNow' = [hostNow EXCEPT ![field] = 2]
  /\ UNCHANGED <<envRec, launchLock, launchOwner, vm, receipts, launch, checker, pool>>

RepointLink(target) ==
  /\ launchHappens /\ launchSpend /\ target # hostNow.link /\ hostNow' = [hostNow EXCEPT !.link = target]
  /\ UNCHANGED <<envRec, launchLock, launchOwner, vm, receipts, launch, checker, pool>>

\* A pooled transport breaks.
TransportDies(user) ==
  /\ launchHappens /\ launchSpend /\ pool[user].client \notin pool.dead \cup {0}
  /\ pool' = [pool EXCEPT !.dead = @ \cup {pool[user].client}]
  /\ UNCHANGED <<envRec, hostNow, launchLock, launchOwner, vm, receipts, launch, checker>>

\* The daemon dies with its runs; guardians that hear nothing act.
DaemonDiesInRun ==
  /\ launchHappens /\ launchSpend /\ \E r \in Launches : launch[r].at \notin {"idle", "done", "dead"}
  /\ launch' = [r \in Launches |->
       IF launch[r].at \in {"idle", "done", "dead"} THEN launch[r]
       ELSE [IdleLaunch EXCEPT !.at = "dead", !.guard = CASE launch[r].guard = "blind" -> "lost"
                                                          [] launch[r].guard = "watching" -> "killing"
                                                          [] OTHER -> launch[r].guard]]
  /\ pool' = InvalidateInstance(pool)
  /\ launchLock' = IF launchLock = "verify" THEN launchLock ELSE "free"
  /\ UNCHANGED <<envRec, hostNow, launchOwner, vm, receipts, checker>>

LaunchStep(r) ==
  \/ \E req \in LaunchRequests : PrepareRun(r, req)
  \/ ApplyReviewedRun(r) \/ CreateSharedEnvironment(r) \/ NameInstance(r) \/ SelectRunEnvironment(r)
  \/ LockEnvironment(r) \/ BeginRunSession(r) \/ PlanRunWorkspaceAttachment(r) \/ ApplyRunWorkspaceAttachment(r)
  \/ OpenRunSessionAudit(r) \/ StartRunDataPlane(r) \/ startRunPortBridges(r) \/ attachRuntimeVerification(r) \/ PrepareBackend(r)
  \/ WarmActivate(r) \/ startAndObserveRuntime(r) \/ observeRuntime(r) \/ WriteActivationReceipt(r)
  \/ StartRunEnvironment(r) \/ runIsolatedSession(r) \/ openRunPreviewEvents(r) \/ ControlFileAppears(r) \/ targetExits(r)
  \/ targetAbandoned(r) \/ guardianActs(r) \/ verifyIsolatedSessionTerminated(r) \/ finishTarget(r)
  \/ CleanupBackend(r) \/ CloseRunDataPlane(r) \/ CloseRunSession(r) \/ FinishWithoutOwner(r)
  \/ FinishWithoutLock(r) \/ finishConcurrentRunEnvironment(r) \/ UnlockEnvironment(r) \/ ReturnFromApply(r)

LaunchNext ==
  \/ \E r \in Launches : LaunchStep(r)
  \/ \E req \in LaunchRequests : CreateDedicated(req.place)
  \/ PlanRuntimeVerify \/ LockForVerify \/ VerifyRuntime \/ FinishVerify
  \/ StopInstance \/ DaemonDiesInRun
  \/ \E field \in {"machine", "boot"} : EditProfile(field)
  \/ \E target \in LaunchLinks : RepointLink(target)
  \/ \E user \in SshUsers : TransportDies(user)

LaunchSpec == LaunchInit /\ [][LaunchNext]_launchVars

(***************************************************************************)
(* Properties                                                              *)
(***************************************************************************)
\* Once no session owns the environment, "preview-ready" was earned by an
\* explicit `runtime verify` of the very boot, and no target has run in the
\* guest since: the receipt of an ordinary run does not outlive the run
\* (FinishRunEnvironment, finishConcurrentRunEnvironment).
ReadyIsEarned ==
  (\A r \in Launches : launchOwner[r] = Nothing) /\ RuntimeStatus = "preview-ready"
    => receipts.runtime.by = "verify" /\ ~vm.ran

\* A run that returned without an error left no process in the guest
\* (runIsolatedSession, Backend.Cleanup).
EndedIsGone == \A r \in Launches : launch[r].at = "done" /\ ~launch[r].failed => r \notin vm.procs

\* The pool counts exactly the leases that are out on the client it holds,
\* and a lease is on the pooled client unless that client's transport died:
\* stopping the instance never cuts a live run's lease (InvalidateInstance).
LeasesAreCounted ==
  \A user \in SshUsers :
    /\ pool[user].refs = Cardinality(leasesOn(user, pool[user].client))
    /\ \A r \in Launches :
         LET c == IF user = "root" THEN launch[r].lease ELSE launch[r].bridge
         IN c \notin {0, pool[user].client} => c \in pool.dead

=============================================================================

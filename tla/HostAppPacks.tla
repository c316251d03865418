---------------------------- MODULE HostAppPacks ----------------------------
(***************************************************************************)
(* Community host-app packs: the pack store (hostapppack/store.go), the    *)
(* operator's plan/apply commands over it (manager/host_app_packs.go), the *)
(* catalog a run compiles from it (manager/host_app_catalog.go), the       *)
(* per-run decisions and durable trust grants that gate an opening         *)
(* (manager/hostcap_projection.go, manager/trusted_host_app_grant.go) and  *)
(* the opening itself (hostcap).                                           *)
(*                                                                         *)
(* One pack, one profile and one run at a time.  A revision is the source  *)
(* content it was made from; the host application is its identity, which   *)
(* changes when the application is replaced.  Revisions of HapAskRevisions *)
(* request ask-each-run access, the others safe access.  The store is      *)
(* several files written one at a time; the fields of hapStore are those   *)
(* files, and a crash may fall between any two writes.                     *)
(***************************************************************************)
EXTENDS Naturals, FiniteSets

CONSTANTS
    HapOperators,     \* commands that may be in progress at the same time
    HapRevisions,     \* source contents, 1 .. n
    HapAskRevisions,  \* the contents whose bindings ask each run
    HapApps,          \* identities of the host application, 1 .. n
    HapCommands,      \* the commands an operator may give
    MaxHapCommands,   \* bound: commands given
    MaxHapHappens,    \* bound: faults, crashes, replaced sources and apps
    MaxHapOpens       \* bound: opening requests of the guest

VARIABLES
    hapStore,   \* [pack, active, revs, dirs, tests, enablement, trash]
    hapHost,    \* [source, app]: what is on the host now
    hapOp,      \* the command each operator has in progress
    hapLock,    \* [store, profile]: holders of the flock and the mutation lock
    hapTrust,   \* [mode, grants, request]: the projection files of the profile
    hapRun,     \* the run: its compiled binding, its decision and its opening
    hapLaunch,  \* the last launch of the host application
    hapSeen,    \* [reviewed, withdrawn, trusted]: what operators were told
    hapLeft     \* [commands, happens, opens]

hapVars == <<hapStore, hapHost, hapOp, hapLock, hapTrust, hapRun, hapLaunch, hapSeen, hapLeft>>

NoEnablement == [state |-> "absent", rev |-> 0, app |-> 0]
NoCommand == [cmd |-> "none", at |-> "idle", rev |-> 0, app |-> 0, prior |-> 0,
              was |-> NoEnablement, published |-> FALSE]
NoHapRun == [phase |-> "none", rev |-> 0, app |-> 0, resolved |-> 0, decision |-> "none",
             at |-> "idle", stale |-> FALSE, by |-> "none"]
NoLaunch == [rev |-> 0, app |-> 0, stale |-> FALSE, by |-> "none"]
Nobody == 0

\* No command is the free lock's holder, and no revision the absent one.
ASSUME HapAssumption == Nobody \notin HapOperators /\ 0 \notin HapRevisions

-----------------------------------------------------------------------------
(* Reading the store.                                                       *)

\* ResolveRevisionManifest: the pack and the revision are installed and the
\* published snapshot is there with the digest the registry recorded.
resolveRevisionSnapshot(r) ==
    /\ hapStore.pack = "installed"
    /\ r # 0 /\ hapStore.revs[r] = "installed"
    /\ r \in hapStore.dirs

accessOf(r) == IF r \in HapAskRevisions THEN "ask-each-run" ELSE "safe"

\* ValidateEnablement: an enablement carries the identity and the access of an
\* exact revision of the pack.
ValidateEnablement(e) ==
    /\ e.state \in {"enabled", "disabled", "revoked"}
    /\ e.rev \in HapRevisions
    /\ e.app \in HapApps

\* hostAppCatalogSources: an enabled enablement that does not resolve fails the
\* whole catalog.
hostAppCatalogSources ==
    hapStore.enablement.state = "enabled" => resolveRevisionSnapshot(hapStore.enablement.rev)

\* (Mutant.)  The validator compares what the enablement names, not its state.
bindingIsNamed(run) == hapStore.enablement.rev = run.rev /\ hapStore.enablement.app = run.app

\* hostAppBindingLifecycleValidator: the enablement is enabled and still names
\* the revision and the identity the run was compiled with.
bindingIsCurrent(run) ==
    LET e == hapStore.enablement IN
    /\ e.state = "enabled" /\ e.rev = run.rev /\ e.app = run.app
    /\ resolveRevisionSnapshot(run.rev)
    /\ ValidateEnablement(e)

-----------------------------------------------------------------------------
(* Plans.  A plan is what the operator reviews: the revision and identity   *)
(* the command would give authority to and the enablement it replaces.      *)

packPlanned(c, r, prior) ==
    [NoCommand EXCEPT !.cmd = c, !.at = "review", !.rev = r, !.prior = prior,
                      !.app = IF c \in {"add", "update", "enable"} THEN hapHost.app ELSE 0]

\* PlanHostAppPack for a new pack: the source is inspected in a private
\* directory and the registry must not know the pack, tombstones included.
requireNewHostAppPack == hapStore.pack = "none"

PlanAdd(c) ==
    IF c \in {"add", "install"} /\ requireNewHostAppPack
    THEN {packPlanned(c, hapHost.source, 0)} ELSE {}

\* planHostAppUpdate: an enabled enablement whose revision resolves, and a
\* source that holds something else.
planHostAppUpdate(c) ==
    LET e == hapStore.enablement IN
    IF c = "update" /\ e.state = "enabled" /\ resolveRevisionSnapshot(e.rev) /\ hapHost.source # e.rev
    THEN {packPlanned(c, hapHost.source, e.rev)} ELSE {}

\* planHostAppEnable, populateHostAppEnablePlan: the active revision resolves,
\* the other packs of the profile resolve and the application is there.
planHostAppEnable(c) ==
    IF c = "enable" /\ resolveRevisionSnapshot(hapStore.active) /\ hostAppCatalogSources
    THEN {packPlanned(c, hapStore.active, hapStore.enablement.rev)} ELSE {}

\* planHostAppStateChange: disable needs an enablement that is not revoked and
\* whose revision resolves, revoke a revision not yet revoked, remove a pack
\* without a tombstone.
planHostAppStateChange(c) ==
    LET e == hapStore.enablement IN
    CASE c = "disable" ->
           IF e.state \in {"enabled", "disabled"} /\ resolveRevisionSnapshot(e.rev)
           THEN {packPlanned(c, e.rev, e.rev)} ELSE {}
      [] c = "revoke" -> {packPlanned(c, r, 0) : r \in {x \in HapRevisions : hapStore.revs[x] = "installed"}}
      [] c = "remove" ->
           IF hapStore.pack \in {"installed", "revoked"} THEN {packPlanned(c, 0, 0)} ELSE {}
      [] OTHER -> {}

\* ReadProjectionHostAppMode and the pending request: allow needs the trusted
\* mode and an observed request, read before the lock is taken.
planTrust(c) ==
    CASE c \in {"safe", "trusted", "forget"} -> {packPlanned(c, 0, 0)}
      [] c = "allow" ->
           IF hapTrust.mode = "trusted" /\ hapTrust.request.rev # 0
           THEN {[packPlanned(c, hapTrust.request.rev, 0) EXCEPT !.app = hapTrust.request.app]} ELSE {}
      [] OTHER -> {}

planFor(c) ==
    PlanAdd(c) \cup planHostAppUpdate(c) \cup planHostAppEnable(c)
        \cup planHostAppStateChange(c) \cup planTrust(c)

\* sameHostAppAddAuthority, sameHostAppUpdateAuthority, sameHostAppEnableAuthority
\* and sameHostAppStatePlan: the plan made now is the reviewed one.
sameAuthority(p) == [p EXCEPT !.at = "review"] \in planFor(p.cmd)

-----------------------------------------------------------------------------
(* Commands.                                                                *)

hapEnd(o) == hapOp' = [hapOp EXCEPT ![o] = NoCommand]
hapGo(o, at) == hapOp' = [hapOp EXCEPT ![o].at = at]
hapFree(o) == hapLock' = [l \in DOMAIN hapLock |-> IF hapLock[l] = o THEN Nobody ELSE hapLock[l]]
hapHappens == hapLeft.happens > 0 /\ hapLeft' = [hapLeft EXCEPT !.happens = @ - 1]

\* PlanHostAppPack: the command is packPlanned and shown to the operator.
PlanHostAppPack(o, c) ==
    /\ hapOp[o].cmd = "none" /\ hapLeft.commands > 0
    /\ \E p \in planFor(c) : hapOp' = [hapOp EXCEPT ![o] = p]
    /\ hapLeft' = [hapLeft EXCEPT !.commands = @ - 1]
    /\ UNCHANGED <<hapStore, hapHost, hapLock, hapTrust, hapRun, hapLaunch, hapSeen>>

\* ApplyHostAppPack: the operator confirmed, which accepts what the plan gives
\* authority to.  A stale plan is refused.
confirmed(o, cmds, fresh, at) ==
    LET op == hapOp[o] IN
    /\ op.at = "review" /\ op.cmd \in cmds
    /\ hapSeen' = IF op.cmd \in {"add", "update", "enable"}
                  THEN [hapSeen EXCEPT !.reviewed = @ \cup {<<op.rev, op.app>>}] ELSE hapSeen
    /\ IF fresh THEN hapGo(o, at) ELSE hapEnd(o)
    /\ UNCHANGED <<hapStore, hapHost, hapLock, hapTrust, hapRun, hapLaunch, hapLeft>>

\* Add, update, revoke and remove plan again and compare before anything else;
\* installing only takes no profile lock.
applyHostAppAdd(o) ==
    confirmed(o, {"add", "install"}, sameAuthority(hapOp[o]), IF hapOp[o].cmd = "add" THEN "lock" ELSE "acquire")
applyHostAppUpdate(o) == confirmed(o, {"update"}, sameAuthority(hapOp[o]), "lock")
applyHostAppRevoke(o) == confirmed(o, {"revoke"}, sameAuthority(hapOp[o]), "store")
applyHostAppRemove(o) == confirmed(o, {"remove"}, sameAuthority(hapOp[o]), "store")

\* Enable and disable plan again only under the lock.
applyHostAppEnable(o) == confirmed(o, {"enable"}, TRUE, "lock")
applyHostAppDisable(o) == confirmed(o, {"disable"}, TRUE, "lock")
applyTrust(o) == confirmed(o, {"safe", "trusted", "allow", "forget"}, TRUE, "lock")

\* withProfileMutationLock: the lock, and the second plan under it.  Grants check
\* the mode again.
revalidated(op) ==
    CASE op.cmd \in {"add", "update", "enable", "disable"} -> sameAuthority(op)
      [] op.cmd = "allow" -> hapTrust.mode = "trusted"
      [] OTHER -> TRUE

withProfileMutationLock(o) ==
    LET op == hapOp[o] IN
    /\ op.at = "lock" /\ hapLock.profile = Nobody
    /\ IF revalidated(op)
       THEN /\ hapLock' = [hapLock EXCEPT !.profile = o]
            /\ hapGo(o, CASE op.cmd \in {"add", "update"} -> "acquire"
                           [] op.cmd \in {"enable", "disable"} -> "store"
                           [] OTHER -> "mode")
       ELSE hapEnd(o) /\ UNCHANGED hapLock
    /\ UNCHANGED <<hapStore, hapHost, hapTrust, hapRun, hapLaunch, hapSeen, hapLeft>>

\* packsnapshot.Acquire into staging: the snapshot's digest must be the packPlanned one.
Acquire(o) ==
    /\ hapOp[o].at = "acquire"
    /\ IF hapHost.source = hapOp[o].rev THEN hapGo(o, "store") /\ UNCHANGED hapLock
       ELSE hapEnd(o) /\ hapFree(o)
    /\ UNCHANGED <<hapStore, hapHost, hapTrust, hapRun, hapLaunch, hapSeen, hapLeft>>

\* The flock of the store, and what each operation checks under it.
storeAdmits(op) ==
    LET e == hapStore.enablement IN
    CASE op.cmd = "install" -> hapStore.pack # "removed"
      [] op.cmd \in {"add", "update"} -> hapStore.pack # "removed" /\ e.state # "revoked"
      [] op.cmd \in {"enable", "disable"} -> resolveRevisionSnapshot(op.rev) /\ e.state # "revoked"
      [] op.cmd = "revoke" -> hapStore.revs[op.rev] # "none"
      [] op.cmd = "remove" -> hapStore.pack # "none"

firstWrite(op) ==
    CASE op.cmd \in {"add", "update", "install"} -> "publish"
      [] op.cmd \in {"enable", "disable"} -> "enablement"
      [] op.cmd = "revoke" -> "registry"
      [] op.cmd = "remove" -> "trash"

withLock(o) ==
    LET op == hapOp[o] IN
    /\ op.at = "store" /\ hapLock.store = Nobody
    /\ IF storeAdmits(op)
       THEN /\ hapLock' = [hapLock EXCEPT !.store = o]
            /\ hapOp' = [hapOp EXCEPT ![o].at = firstWrite(op), ![o].was = hapStore.enablement]
       ELSE hapEnd(o) /\ hapFree(o)
    /\ UNCHANGED <<hapStore, hapHost, hapTrust, hapRun, hapLaunch, hapSeen, hapLeft>>

-----------------------------------------------------------------------------
(* Writes, one file at a time.                                              *)

\* Saving the registry validates it: an active revision is an installed one.
registered(op) ==
    [hapStore EXCEPT !.pack = "installed", !.active = op.rev,
                     !.revs[op.rev] = IF @ = "none" THEN "installed" ELSE @]
ValidateRegistry(st) == st.active # 0 => st.revs[st.active] = "installed"

\* Install: publish the snapshot, then save the registry; a registry that cannot
\* be saved takes a newly published snapshot away again.
Install(o) ==
    LET op == hapOp[o] IN
    /\ op.cmd = "install"
    /\ \/ /\ op.at = "publish"
          /\ hapStore' = [hapStore EXCEPT !.dirs = @ \cup {op.rev}]
          /\ hapOp' = [hapOp EXCEPT ![o].at = "registry", ![o].published = op.rev \notin hapStore.dirs]
          /\ UNCHANGED <<hapLock, hapLeft>>
       \/ /\ op.at = "registry" /\ ValidateRegistry(registered(op))
          /\ hapStore' = registered(op)
          /\ hapEnd(o) /\ hapFree(o) /\ UNCHANGED hapLeft
       \/ /\ op.at = "registry"
          /\ IF ValidateRegistry(registered(op)) THEN hapHappens ELSE UNCHANGED hapLeft
          /\ hapStore' = [hapStore EXCEPT !.dirs = IF op.published THEN @ \ {op.rev} ELSE @]
          /\ hapEnd(o) /\ hapFree(o)
    /\ UNCHANGED <<hapHost, hapTrust, hapRun, hapLaunch, hapSeen>>

\* restore: the newly published snapshot is deleted, the prior test result and
\* enablement are put back.
restore(op) ==
    [hapStore EXCEPT !.dirs = IF op.published THEN @ \ {op.rev} ELSE @,
                     !.tests = IF op.published THEN @ \ {op.rev} ELSE @,
                     !.enablement = op.was]

\* InstallTestEnable: snapshot, test result, enablement and registry.
InstallTestEnable(o) ==
    LET op == hapOp[o] IN
    /\ op.cmd \in {"add", "update"}
    /\ \/ /\ op.at = "publish"
          /\ hapStore' = [hapStore EXCEPT !.dirs = @ \cup {op.rev}]
          /\ hapOp' = [hapOp EXCEPT ![o].at = "test", ![o].published = op.rev \notin hapStore.dirs]
          /\ UNCHANGED <<hapLock, hapSeen, hapLeft>>
       \/ /\ op.at = "test"
          /\ hapStore' = [hapStore EXCEPT !.tests = @ \cup {op.rev}]
          /\ hapGo(o, "enablement") /\ UNCHANGED <<hapLock, hapSeen, hapLeft>>
       \/ /\ op.at = "enablement"
          /\ hapStore' = [hapStore EXCEPT !.enablement = [state |-> "enabled", rev |-> op.rev, app |-> op.app]]
          /\ hapSeen' = [hapSeen EXCEPT !.withdrawn = @ \ {op.rev}]
          /\ hapGo(o, "registry") /\ UNCHANGED <<hapLock, hapLeft>>
       \/ /\ op.at = "registry" /\ ValidateRegistry(registered(op))
          /\ hapStore' = registered(op)
          /\ hapSeen' = [hapSeen EXCEPT !.withdrawn = (@ \cup ({op.prior} \ {0})) \ {op.rev}]
          /\ IF op.cmd = "update" THEN hapGo(o, "decisions") ELSE hapEnd(o)
          /\ hapFree(o) /\ UNCHANGED hapLeft
       \/ /\ op.at \in {"test", "enablement", "registry"}
          /\ IF op.at = "registry" /\ ~ValidateRegistry(registered(op)) THEN UNCHANGED hapLeft ELSE hapHappens
          /\ hapStore' = restore(op)
          /\ hapEnd(o) /\ hapFree(o) /\ UNCHANGED hapSeen
    /\ UNCHANGED <<hapHost, hapTrust, hapRun, hapLaunch>>

\* SaveEnablementSnapshot, for enable and disable: one atomic file.
enablementOf(op) ==
    IF op.cmd = "enable" THEN [state |-> "enabled", rev |-> op.rev, app |-> op.app]
    ELSE [hapStore.enablement EXCEPT !.state = "disabled"]

SaveEnablementSnapshot(o) ==
    LET op == hapOp[o] IN
    /\ op.at = "enablement" /\ op.cmd \in {"enable", "disable"}
    /\ \/ /\ ValidateEnablement(enablementOf(op))
          /\ hapStore' = [hapStore EXCEPT !.enablement = enablementOf(op)]
          /\ hapSeen' = [hapSeen EXCEPT !.withdrawn = IF op.cmd = "disable" THEN @ \cup {op.rev} ELSE @ \ {op.rev}]
          /\ IF op.cmd = "disable" THEN hapGo(o, "decisions") ELSE hapEnd(o)
          /\ UNCHANGED hapLeft
       \/ hapHappens /\ hapEnd(o) /\ UNCHANGED <<hapStore, hapSeen>>
    /\ hapFree(o)
    /\ UNCHANGED <<hapHost, hapTrust, hapRun, hapLaunch>>

\* revokeEnablementsUnlocked: the enablement of the revoked revision, or of any
\* revision of a removed pack.
revokeEnablementsUnlocked(op) ==
    IF hapStore.enablement.state # "absent" /\ (op.cmd = "remove" \/ hapStore.enablement.rev = op.rev)
    THEN [hapStore EXCEPT !.enablement.state = "revoked"] ELSE hapStore

\* RevokeRevision: the registry, then the enablements.
RevokeRevision(o) ==
    LET op == hapOp[o] IN
    /\ op.cmd = "revoke"
    /\ \/ /\ op.at = "registry"
          /\ hapStore' = [hapStore EXCEPT !.revs[op.rev] = "revoked",
                                          !.pack = IF hapStore.active = op.rev THEN "revoked" ELSE @,
                                          !.active = IF @ = op.rev THEN 0 ELSE @]
          /\ hapSeen' = [hapSeen EXCEPT !.withdrawn = @ \cup {op.rev}]
          /\ hapGo(o, "enablement") /\ UNCHANGED <<hapLock, hapLeft>>
       \/ /\ op.at = "enablement"
          /\ hapStore' = revokeEnablementsUnlocked(op)
          /\ hapGo(o, "decisions") /\ hapFree(o) /\ UNCHANGED <<hapSeen, hapLeft>>
       \/ /\ op.at \in {"registry", "enablement"} /\ hapHappens
          /\ hapEnd(o) /\ hapFree(o) /\ UNCHANGED <<hapStore, hapSeen>>
    /\ UNCHANGED <<hapHost, hapTrust, hapRun, hapLaunch>>

\* RemovePack: the snapshots are moved aside, the tombstone saved (or the
\* snapshots moved back), the enablements revoked and the snapshots deleted.
RemovePack(o) ==
    LET op == hapOp[o] IN
    /\ op.cmd = "remove"
    /\ \/ /\ op.at = "trash"
          /\ hapStore' = [hapStore EXCEPT !.trash = hapStore.dirs, !.dirs = {}]
          /\ hapGo(o, "registry") /\ UNCHANGED <<hapLock, hapSeen, hapLeft>>
       \/ /\ op.at = "registry"
          /\ hapStore' = [hapStore EXCEPT !.pack = "removed", !.active = 0]
          /\ hapSeen' = [hapSeen EXCEPT !.withdrawn = HapRevisions]
          /\ hapGo(o, "enablement") /\ UNCHANGED <<hapLock, hapLeft>>
       \/ /\ op.at = "registry" /\ hapHappens
          /\ hapStore' = [hapStore EXCEPT !.trash = {}, !.dirs = hapStore.trash]
          /\ hapEnd(o) /\ hapFree(o) /\ UNCHANGED hapSeen
       \/ /\ op.at = "enablement"
          /\ hapStore' = revokeEnablementsUnlocked(op)
          /\ hapGo(o, "delete") /\ UNCHANGED <<hapLock, hapSeen, hapLeft>>
       \/ /\ op.at = "delete"
          /\ hapStore' = [hapStore EXCEPT !.trash = {}]
          /\ hapGo(o, "decisions") /\ hapFree(o) /\ UNCHANGED <<hapSeen, hapLeft>>
    /\ UNCHANGED <<hapHost, hapTrust, hapRun, hapLaunch>>

\* invalidateHostAppDecisions: after the locks are gone, the decision of a run
\* bound to the withdrawn revision becomes stale.
invalidated(op, run) ==
    LET r == IF op.cmd = "update" THEN op.prior ELSE op.rev IN
    IF run.decision \in {"pending", "approved"} /\ (op.cmd = "remove" \/ run.rev = r)
    THEN [run EXCEPT !.decision = "stale"] ELSE run

invalidateHostAppDecisions(o) ==
    /\ hapOp[o].at = "decisions" /\ hapOp[o].cmd # "safe"
    /\ \/ hapRun' = invalidated(hapOp[o], hapRun) /\ UNCHANGED hapLeft
       \/ hapHappens /\ UNCHANGED hapRun
    /\ hapEnd(o)
    /\ UNCHANGED <<hapStore, hapHost, hapLock, hapTrust, hapLaunch, hapSeen>>

-----------------------------------------------------------------------------
(* Host-app mode and durable trust grants, under the profile lock.          *)

NoRequested == [rev |-> 0, app |-> 0]

\* SetProjectionHostAppMode: the mode is written first; safe then invalidates the
\* decisions of the profile and drops its grants and its recorded requests.
SetProjectionHostAppMode(o) ==
    LET op == hapOp[o] IN
    /\ op.cmd \in {"safe", "trusted"}
    /\ \/ /\ op.at = "mode"
          /\ hapTrust' = [hapTrust EXCEPT !.mode = op.cmd]
          /\ IF op.cmd = "safe" THEN hapGo(o, "decisions") /\ UNCHANGED hapLock
             ELSE hapEnd(o) /\ hapFree(o)
          /\ UNCHANGED <<hapRun, hapSeen, hapLeft>>
       \/ /\ op.at = "decisions"
          /\ hapRun' = IF hapRun.decision \in {"pending", "approved"}
                       THEN [hapRun EXCEPT !.decision = "stale"] ELSE hapRun
          /\ hapGo(o, "grants") /\ UNCHANGED <<hapLock, hapTrust, hapSeen, hapLeft>>
       \/ /\ op.at = "grants"
          /\ hapTrust' = [hapTrust EXCEPT !.grants = {}]
          /\ hapGo(o, "requests") /\ UNCHANGED <<hapLock, hapRun, hapSeen, hapLeft>>
       \/ /\ op.at = "requests"
          /\ hapTrust' = [hapTrust EXCEPT !.request = NoRequested]
          /\ hapSeen' = [hapSeen EXCEPT !.trusted = {}]
          /\ hapEnd(o) /\ hapFree(o) /\ UNCHANGED <<hapRun, hapLeft>>
       \/ /\ op.at \in {"mode", "decisions", "grants", "requests"} /\ hapHappens
          /\ hapEnd(o) /\ hapFree(o) /\ UNCHANGED <<hapRun, hapTrust, hapSeen>>
    /\ UNCHANGED <<hapStore, hapHost, hapLaunch>>

\* GrantHostAppTrust: the request read before the lock becomes a grant.
GrantHostAppTrust(o) ==
    LET g == [rev |-> hapOp[o].rev, app |-> hapOp[o].app] IN
    /\ hapOp[o].cmd = "allow" /\ hapOp[o].at = "mode"
    /\ \/ /\ hapTrust' = [hapTrust EXCEPT !.grants = @ \cup {g}]
          /\ hapSeen' = [hapSeen EXCEPT !.trusted = @ \cup {g}]
          /\ UNCHANGED hapLeft
       \/ hapHappens /\ UNCHANGED <<hapTrust, hapSeen>>
    /\ hapEnd(o) /\ hapFree(o)
    /\ UNCHANGED <<hapStore, hapHost, hapRun, hapLaunch>>

\* RevokeHostAppTrust: every grant of the workspace goes.
RevokeHostAppTrust(o) ==
    /\ hapOp[o].cmd = "forget" /\ hapOp[o].at = "mode"
    /\ hapTrust' = [hapTrust EXCEPT !.grants = {}]
    /\ hapSeen' = [hapSeen EXCEPT !.trusted = {}]
    /\ hapEnd(o) /\ hapFree(o)
    /\ UNCHANGED <<hapStore, hapHost, hapRun, hapLaunch, hapLeft>>

\* The operator's process dies; its locks go with it.
CommandDies(o) ==
    /\ hapOp[o].at \notin {"idle", "review"} /\ hapHappens
    /\ hapEnd(o) /\ hapFree(o)
    /\ UNCHANGED <<hapStore, hapHost, hapTrust, hapRun, hapLaunch, hapSeen>>

\* The source directory or the host application is replaced.
HostChanges ==
    /\ hapHappens
    /\ \/ \E c \in HapRevisions \ {hapHost.source} : hapHost' = [hapHost EXCEPT !.source = c]
       \/ \E a \in HapApps \ {hapHost.app} : hapHost' = [hapHost EXCEPT !.app = a]
    /\ UNCHANGED <<hapStore, hapOp, hapLock, hapTrust, hapRun, hapLaunch, hapSeen>>

-----------------------------------------------------------------------------
(* A run.                                                                   *)

\* resolveManifestIdentitiesContext and the identity digest: the application on
\* the host is the one the enablement was reviewed with.
identityMatches(a) == hapHost.app = a

\* CompileHostAppCatalog: without an enabled pack the run has no binding; an
\* ask-each-run binding resolves its application now, a safe one on first use.
compiles ==
    LET e == hapStore.enablement IN
    /\ hostAppCatalogSources
    /\ e.state = "enabled" =>
         /\ ValidateEnablement(e)
         /\ accessOf(e.rev) = "ask-each-run" => identityMatches(e.app)

CompileHostAppCatalog ==
    LET e == hapStore.enablement IN
    [NoHapRun EXCEPT !.phase = "starting",
                     !.rev = IF e.state = "enabled" THEN e.rev ELSE 0,
                     !.app = IF e.state = "enabled" THEN e.app ELSE 0,
                     !.resolved = IF e.state = "enabled" /\ accessOf(e.rev) = "ask-each-run" THEN e.app ELSE 0]

StartRunDataPlane ==
    /\ hapRun.phase = "none" /\ compiles /\ hapStore.enablement.state = "enabled"
    /\ hapRun' = CompileHostAppCatalog
    /\ UNCHANGED <<hapStore, hapHost, hapOp, hapLock, hapTrust, hapLaunch, hapSeen, hapLeft>>

\* ensureRunProjectionDecision: an ask-each-run binding gets a pending decision of
\* this run.
ensureRunProjectionDecision ==
    /\ hapRun.phase = "starting"
    /\ hapRun' = [hapRun EXCEPT !.phase = "running",
                                !.decision = IF accessOf(hapRun.rev) = "ask-each-run" THEN "pending" ELSE "none"]
    /\ UNCHANGED <<hapStore, hapHost, hapOp, hapLock, hapTrust, hapLaunch, hapSeen, hapLeft>>

\* The operator approves the pending decision of the run.
ApproveOpen ==
    /\ hapRun.phase = "running" /\ hapRun.decision = "pending"
    /\ hapRun' = [hapRun EXCEPT !.decision = "approved"]
    /\ UNCHANGED <<hapStore, hapHost, hapOp, hapLock, hapTrust, hapLaunch, hapSeen, hapLeft>>

\* CloseRunDataPlane: the decisions of the run end with it.
CloseRunDataPlane ==
    /\ hapRun.phase = "running" /\ hapRun.at = "idle"
    /\ hapRun' = NoHapRun
    /\ UNCHANGED <<hapStore, hapHost, hapOp, hapLock, hapTrust, hapLaunch, hapSeen, hapLeft>>

-----------------------------------------------------------------------------
(* An opening.                                                              *)

openRefused == [hapRun EXCEPT !.at = "idle", !.stale = FALSE, !.by = "none"]

\* The guest's projected command asks to open a resource.
GuestOpens ==
    /\ hapRun.phase = "running" /\ hapRun.at = "idle" /\ hapLeft.opens > 0
    /\ hapRun' = [hapRun EXCEPT !.at = "command", !.stale = hapRun.rev \in hapSeen.withdrawn]
    /\ hapLeft' = [hapLeft EXCEPT !.opens = @ - 1]
    /\ UNCHANGED <<hapStore, hapHost, hapOp, hapLock, hapTrust, hapLaunch, hapSeen>>

\* resolveDeferredHostAppBindingContext: the pack and revision are still enabled
\* and the application is the reviewed one.
resolveDeferredHostAppBindingContext ==
    /\ hostAppCatalogSources
    /\ hapStore.enablement.state = "enabled" /\ hapStore.enablement.rev = hapRun.rev
    /\ hapStore.enablement.app = hapRun.app
    /\ identityMatches(hapRun.app)

\* OpenCommand: the lifecycle of the binding, then its identity, remembered for
\* the rest of the run.
OpenCommand ==
    /\ hapRun.at = "command"
    /\ hapRun' = IF bindingIsCurrent(hapRun) /\ (hapRun.resolved = 0 => resolveDeferredHostAppBindingContext)
                 THEN [hapRun EXCEPT !.at = IF accessOf(hapRun.rev) = "safe" THEN "guard" ELSE "grant",
                                     !.by = IF accessOf(hapRun.rev) = "safe" THEN "safe" ELSE "none",
                                     !.resolved = hapRun.app]
                 ELSE openRefused
    /\ UNCHANGED <<hapStore, hapHost, hapOp, hapLock, hapTrust, hapLaunch, hapSeen, hapLeft>>

\* trustedHostAppGrantMatches: trusted mode and a grant for the exact binding.
trustedHostAppGrantMatches == hapTrust.mode = "trusted" /\ [rev |-> hapRun.rev, app |-> hapRun.app] \in hapTrust.grants

\* TrustedGrantActive: a durable grant, or a hint for the operator and the
\* decision of this run.
TrustedGrantActive ==
    /\ hapRun.at = "grant"
    /\ hapRun' = IF trustedHostAppGrantMatches
                 THEN [hapRun EXCEPT !.at = "guard",
                                     !.by = IF [rev |-> hapRun.rev, app |-> hapRun.app] \in hapSeen.trusted
                                            THEN "grant" ELSE "lapsed grant"]
                 ELSE [hapRun EXCEPT !.at = IF hapTrust.mode = "trusted" THEN "hint" ELSE "decision"]
    /\ UNCHANGED <<hapStore, hapHost, hapOp, hapLock, hapTrust, hapLaunch, hapSeen, hapLeft>>

\* maybeRecordTrustedHostAppRequest: written without the profile lock, after the
\* mode was read.
maybeRecordTrustedHostAppRequest ==
    /\ hapRun.at = "hint"
    /\ hapTrust' = [hapTrust EXCEPT !.request = [rev |-> hapRun.rev, app |-> hapRun.app]]
    /\ hapRun' = [hapRun EXCEPT !.at = "decision"]
    /\ UNCHANGED <<hapStore, hapHost, hapOp, hapLock, hapLaunch, hapSeen, hapLeft>>

RawDecision ==
    /\ hapRun.at = "decision"
    /\ hapRun' = IF hapRun.decision = "approved" THEN [hapRun EXCEPT !.at = "guard", !.by = "decision"] ELSE openRefused
    /\ UNCHANGED <<hapStore, hapHost, hapOp, hapLock, hapTrust, hapLaunch, hapSeen, hapLeft>>

\* OpenBoundResource: the launcher runs the guard (lifecycle, identity) and then
\* starts the application.
OpenBoundResource ==
    /\ hapRun.at = "guard"
    /\ hapLaunch' = IF bindingIsCurrent(hapRun) /\ identityMatches(hapRun.resolved)
                    THEN [rev |-> hapRun.rev, app |-> hapHost.app, by |-> hapRun.by,
                          stale |-> hapRun.stale /\ hapRun.rev \in hapSeen.withdrawn]
                    ELSE hapLaunch
    /\ hapRun' = openRefused
    /\ UNCHANGED <<hapStore, hapHost, hapOp, hapLock, hapTrust, hapSeen, hapLeft>>

-----------------------------------------------------------------------------
HapInit ==
    /\ hapStore = [pack |-> "none", active |-> 0, revs |-> [r \in HapRevisions |-> "none"], dirs |-> {},
                   tests |-> {}, enablement |-> NoEnablement, trash |-> {}]
    /\ hapHost = [source |-> 1, app |-> 1]
    /\ hapOp = [o \in HapOperators |-> NoCommand]
    /\ hapLock = [store |-> Nobody, profile |-> Nobody]
    /\ hapTrust = [mode |-> "safe", grants |-> {}, request |-> NoRequested]
    /\ hapRun = NoHapRun /\ hapLaunch = NoLaunch
    /\ hapSeen = [reviewed |-> {}, withdrawn |-> {}, trusted |-> {}]
    /\ hapLeft = [commands |-> MaxHapCommands, happens |-> MaxHapHappens, opens |-> MaxHapOpens]

HapCommand(o) ==
    \/ \E c \in HapCommands : PlanHostAppPack(o, c)
    \/ applyHostAppAdd(o) \/ applyHostAppUpdate(o) \/ applyHostAppRevoke(o) \/ applyHostAppRemove(o)
    \/ applyHostAppEnable(o) \/ applyHostAppDisable(o) \/ applyTrust(o)
    \/ withProfileMutationLock(o) \/ Acquire(o) \/ withLock(o)
    \/ Install(o) \/ InstallTestEnable(o) \/ SaveEnablementSnapshot(o)
    \/ RevokeRevision(o) \/ RemovePack(o) \/ invalidateHostAppDecisions(o)
    \/ SetProjectionHostAppMode(o) \/ GrantHostAppTrust(o) \/ RevokeHostAppTrust(o)
    \/ CommandDies(o)

HapRun ==
    \/ StartRunDataPlane \/ ensureRunProjectionDecision \/ ApproveOpen \/ CloseRunDataPlane
    \/ GuestOpens \/ OpenCommand \/ TrustedGrantActive \/ maybeRecordTrustedHostAppRequest
    \/ RawDecision \/ OpenBoundResource

HapNext == (\E o \in HapOperators : HapCommand(o)) \/ HapRun \/ HostChanges

HapSpec == HapInit /\ [][HapNext]_hapVars

\* OnlyReviewedAppsOpen: whatever the host launches for a guest is an exact
\* revision and application identity an operator confirmed, the opening did not
\* begin after that revision was withdrawn by an update, disable, revoke or
\* removal (unless a confirmed command has since written an enablement for it),
\* and a launch under a durable grant rests on one that was given and not
\* taken back: for every interleaving of commands, replaced sources and
\* applications, failed writes and commands that die between two files.
OnlyReviewedAppsOpen ==
    hapLaunch.rev # 0 =>
        /\ <<hapLaunch.rev, hapLaunch.app>> \in hapSeen.reviewed
        /\ ~hapLaunch.stale /\ hapLaunch.by # "lapsed grant"
=============================================================================

----------------------------- MODULE NetworkBatch -----------------------------
(***************************************************************************)
(* The live half of a configuration or secret operation: the gateway of    *)
(* every planned environment is staged, probed, activated, proved and      *)
(* drained, one phase over all environments before the next, each effect   *)
(* bracketed by a checkpoint in the operation ledger; then the whole set   *)
(* commits or the whole set is rolled back, and the results are written to *)
(* the ledger (manager/profile_network_transition.go,                      *)
(* network_transition.go, network_gateway_transition.go,                   *)
(* network/gateway.go).                                                    *)
(*                                                                         *)
(* A gateway is memory of the daemon: it is lost with the process.  It has *)
(* the route new connections take and, while a change is open, the         *)
(* candidate that holds the entry's switch lock.  A route is told apart by *)
(* what installed it: the reviewed base ("from"), this operation           *)
(* ("desired") or a run that prepared its own network ("run"); "none" is   *)
(* an entry without a route and "closed" an environment without an entry.  *)
(***************************************************************************)
EXTENDS OperationLedger

CONSTANTS
  RouteEnvs,             \* how many environments have a live gateway
  MaxTransitionFaults,   \* provider calls and ledger writes that fail
  MaxTransitionCrashes,  \* crashes of the daemon
  MaxRouteChanges        \* runs that switch a route, environments that stop

\* A live transition has an environment.
ASSUME RoutesAssumption == RouteEnvs \in Nat \ {0}

VARIABLES
  ledger,    \* the durable operation record
  gateway,   \* environment -> [route, candidate, previous]
  apply,     \* the apply call in progress
  budget     \* what the bounds still allow

batchVars == <<ledger, gateway, apply, budget>>

PlannedEnvs == 1..RouteEnvs
EffectPhases == <<"stage", "probe", "activate", "prove", "drain">>

\* The effect of the owner of the operation: the profile write or the
\* secret provider call.  The others are named by environment and phase.
OwnerEffect == <<0, "owner">>
networkEffects == PlannedEnvs \X {EffectPhases[k] : k \in 1..5}

noOperation == [reserved({}) EXCEPT !.phase = "none"]
closedGateway == [route |-> "closed", candidate |-> "none", previous |-> "none"]
idleApply == [at |-> "idle", boot |-> FALSE, phase |-> 1, env |-> 1, outcome |-> "none",
              result |-> [f \in networkEffects |-> "pending"]]

BatchInit ==
  /\ ledger = noOperation
  /\ gateway = [e \in PlannedEnvs |-> [closedGateway EXCEPT !.route = "from"]]
  /\ apply = idleApply
  /\ budget = [faults |-> MaxTransitionFaults, crashes |-> MaxTransitionCrashes,
               changes |-> MaxRouteChanges]

fail == budget.faults > 0 /\ budget' = [budget EXCEPT !.faults = @ - 1]
sound == UNCHANGED budget

goApply(at) == apply' = [apply EXCEPT !.at = at]

\* RequireRecovery of the owner's service: the operation waits for an operator.
requireRecovery(op) ==
  IF ~Terminal(op) /\ operationTransitionAllowed(op.phase, "recovery-required")
  THEN updateRecovery(op, "provider", TRUE) ELSE op

\* The call returns; a reconciliation at startup is then recorded.
applyReturns == goApply(IF apply.boot THEN "started" ELSE "idle")

currentEffect == <<apply.env, EffectPhases[apply.phase]>>

-----------------------------------------------------------------------------
\* Apply: every gateway must still have the reviewed route.
ObserveRoutes ==
  /\ apply.at = "observe"
  /\ LET current == \A e \in PlannedEnvs : gateway[e].route = "from"
     IN  \/ current /\ goApply("before")
         \/ ~current /\ apply' = [apply EXCEPT !.at = "sync", !.outcome = "stale"]
  /\ sound /\ UNCHANGED <<ledger, gateway>>

\* The phase the ledger moves to before an effect of this phase starts.
checkpointPhase(op, phase) ==
  CASE phase = "activate" /\ op.phase = "staging" -> transitioned(op, "activating")
    [] phase = "prove" /\ op.phase \in {"staging", "activating"} -> transitioned(op, "proving")
    [] OTHER -> op

\* BeforeNetworkTransitionEffect: only a pending effect may be executed.
BeforeNetworkTransitionEffect ==
  /\ apply.at = "before"
  /\ LET moved == checkpointPhase(ledger, EffectPhases[apply.phase])
     IN  \/ /\ executes(moved, currentEffect) /\ sound
            /\ ledger' = begun(moved, currentEffect) /\ goApply("run")
         \/ /\ ~executes(moved, currentEffect) /\ sound
            /\ ledger' = moved /\ goApply("rollback")
         \/ fail /\ ledger' \in {ledger, moved} /\ goApply("rollback")
  /\ UNCHANGED gateway

\* stageRoute creates a missing entry and keeps the switch lock; Activate
\* makes the candidate the route of connections accepted from now on.
gatewayAfter(e, phase) ==
  CASE phase = "stage" ->
         [gateway EXCEPT ![e] = [route |-> IF @.route = "closed" THEN "none" ELSE @.route,
                                 candidate |-> "staged",
                                 previous |-> IF @.route = "closed" THEN "none" ELSE @.route]]
    [] phase = "activate" /\ gateway[e].route # "closed" ->
         [gateway EXCEPT ![e].route = "desired", ![e].candidate = "active"]
    [] phase = "activate" /\ gateway[e].route = "closed" ->
         [gateway EXCEPT ![e].candidate = "active"]
    [] OTHER -> gateway

\* candidateProof: an active candidate is proved from the entry the registry
\* holds for the environment.
candidateProved(e, phase, after) ==
  phase \in {"stage", "probe"} \/ after[e].route = "desired"

\* The next effect: the same phase of the next environment, or the first of
\* the next phase; after the last one the owner's hook and the commit.
advance(result) ==
  apply' = [apply EXCEPT
    !.result = result,
    !.at = IF apply.env = RouteEnvs /\ apply.phase = 5 THEN "hook" ELSE "before",
    !.env = IF @ < RouteEnvs THEN @ + 1 ELSE 1,
    !.phase = IF apply.env = RouteEnvs /\ @ < 5 THEN @ + 1 ELSE @]

\* One effect: the provider call, its proof, and the checkpoint after it.
RunNetworkEffect ==
  /\ apply.at = "run"
  /\ LET f == currentEffect
         e == apply.env
         phase == EffectPhases[apply.phase]
         after == gatewayAfter(e, phase)
         proved == [apply.result EXCEPT ![f] = "succeeded"]
         broken == [apply EXCEPT !.at = "rollback", !.result[f] = "failed"]
     IN  \/ /\ candidateProved(e, phase, after) /\ gateway' = after
            /\ \/ sound /\ ledger' = finished(ledger, f, "succeeded") /\ advance(proved)
               \/ /\ fail /\ UNCHANGED ledger
                  /\ apply' = [apply EXCEPT !.at = "rollback", !.result = proved]
         \/ /\ ~candidateProved(e, phase, after) /\ gateway' = after /\ sound
            /\ ledger' = finished(ledger, f, "failed") /\ apply' = broken
         \/ /\ fail
            /\ gateway' \in IF phase = "activate" THEN {gateway, after} ELSE {gateway}
            /\ ledger' \in {ledger, finished(ledger, f, "failed")} /\ apply' = broken

\* CommitGatewayChanges validates the whole set, then releases every lock.
CommitNetworkCandidates ==
  /\ apply.at = "commit"
  /\ gateway' = [e \in PlannedEnvs |-> [gateway[e] EXCEPT !.candidate = "none"]]
  /\ apply' = [apply EXCEPT !.at = "sync", !.outcome = "succeeded"]
  /\ sound /\ UNCHANGED ledger

\* RollbackGatewayChanges restores the route each candidate replaced.
restored(g) ==
  [g EXCEPT !.route = IF g.candidate = "active" /\ @ # "closed" THEN g.previous ELSE @,
            !.candidate = "none"]

withdrawn(result, status) ==
  [f \in networkEffects |-> IF result[f] = "succeeded" THEN status ELSE result[f]]

\* rollbackProfileNetworkTransitionBatch: the set is rolled back when every
\* environment is then observed on the reviewed route, unproved otherwise.
RollbackNetworkCandidates ==
  /\ apply.at = "rollback"
  /\ gateway' = [e \in PlannedEnvs |-> restored(gateway[e])]
  /\ LET back == \A e \in PlannedEnvs : gateway'[e].route = "from"
         outcome(o) == apply' = [apply EXCEPT
           !.at = "sync", !.outcome = o,
           !.result = withdrawn(@, IF o = "rolled-back" THEN o ELSE "unproved")]
     IN  \/ back /\ sound /\ outcome("rolled-back")
         \/ ~back /\ sound /\ outcome("rollback-unproved")
         \/ back /\ fail /\ outcome("rollback-unproved")
  /\ UNCHANGED ledger

\* syncProfileNetworkTransitionResult, one environment after the other; an
\* effect whose status the ledger has already is left alone.
synced(F) ==
  [ledger EXCEPT
     !.effect = [f \in DOMAIN @ |->
                   IF f \in F /\ apply.result[f] # "pending" THEN apply.result[f] ELSE @[f]],
     !.evidence = [f \in DOMAIN @ |-> @[f] \/ (f \in F /\ apply.result[f] # "pending")]]

SyncResults(at, failedAt) ==
  /\ apply.at = "sync"
  /\ \/ sound /\ ledger' = synced(networkEffects) /\ goApply(at)
     \/ /\ fail
        /\ \E n \in 0..(RouteEnvs - 1) :
             ledger' = synced({f \in networkEffects : f[1] <= n})
        /\ goApply(failedAt)
  /\ UNCHANGED gateway

-----------------------------------------------------------------------------
\* A run of another session stages, activates and commits its own route, or
\* the environment stops and its entry leaves the registry at once although
\* an open change still holds the lock.
RunSwitchesRoute(e) ==
  /\ budget.changes > 0 /\ gateway[e].candidate = "none" /\ gateway[e].route # "closed"
  /\ gateway' = [gateway EXCEPT ![e].route = "run"]
  /\ budget' = [budget EXCEPT !.changes = @ - 1]
  /\ UNCHANGED <<ledger, apply>>

CloseEnvironment(e) ==
  /\ budget.changes > 0 /\ gateway[e].route # "closed"
  /\ gateway' = [gateway EXCEPT ![e].route = "closed"]
  /\ budget' = [budget EXCEPT !.changes = @ - 1]
  /\ UNCHANGED <<ledger, apply>>

\* The process dies: the gateways go with it, the ledger stays, and the next
\* daemon reconciles accepted operations before it serves anything.
DaemonRestarts(at) ==
  /\ budget.crashes > 0 /\ budget' = [budget EXCEPT !.crashes = @ - 1]
  /\ gateway' = [e \in PlannedEnvs |-> closedGateway]
  /\ apply' = [idleApply EXCEPT !.at = at, !.boot = TRUE]
  /\ UNCHANGED ledger

\* reconcileOne: what the reconciliation left open gets a recovery hint.
RecordStartupRecovery ==
  /\ apply.at = "started" /\ apply' = idleApply
  /\ ledger' = IF \/ ledger.phase \in {"none", "planned", "recovery-required"}
                  \/ Terminal(ledger) \/ hasProviderRecovery(ledger)
               THEN ledger
               ELSE IF operationEffectStatusPresent(ledger, "running")
                    THEN updateRecovery(ledger, "startup", TRUE)
                    ELSE updateRecovery(ledger, "startup", FALSE)
  /\ sound /\ UNCHANGED gateway

LiveNetworkSteps ==
  \/ ObserveRoutes \/ BeforeNetworkTransitionEffect \/ RunNetworkEffect
  \/ CommitNetworkCandidates \/ RollbackNetworkCandidates

RouteChanges == \E e \in PlannedEnvs : RunSwitchesRoute(e) \/ CloseEnvironment(e)

\* The route this operation installed is gone from every gateway.
noRouteOfOperation == \A e \in PlannedEnvs : gateway[e].route # "desired"

\* Every gateway has the reviewed route, or a later run or stop replaced it.
routesOfOperation ==
  \A e \in PlannedEnvs : gateway[e].route \in {"desired", "run", "closed"}

noOpenChange == \A e \in PlannedEnvs : gateway[e].candidate = "none"

====

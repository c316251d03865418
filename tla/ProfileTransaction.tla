-------------------------- MODULE ProfileTransaction --------------------------
(***************************************************************************)
(* A reviewed change of a profile: planned, confirmed, persisted, and, when *)
(* environments of the profile are live, carried to their gateways         *)
(* (manager/profile_transaction.go, profile_projection.go,                 *)
(* profile/profile.go, daemon/operation_recovery.go).                      *)
(*                                                                         *)
(* The profile file has the reviewed base, the reviewed target, or content *)
(* of another writer ("edited"); "partial" is the target with the network  *)
(* of the base, which is what a rollback of a change of more than the      *)
(* network leaves.  The revision sidecar names the content it was last     *)
(* advanced for.  The commands that rotate or reset an identity load and   *)
(* save the file without the profile mutation lock.                        *)
(***************************************************************************)
EXTENDS NetworkBatch

VARIABLES
  profile,    \* [file, revision, known]: the file and the sidecar
  planned,    \* the private plan record
  writer      \* what the identity command loaded, or "none"

profileVars == <<profile, planned, writer>>
profileTxVars == <<batchVars, profileVars>>

noPlanRecord == [exists |-> FALSE, revision |-> 0, network |-> FALSE, mixed |-> FALSE]

ProfileTxInit ==
  /\ BatchInit
  /\ profile = [file |-> "base", revision |-> 1, known |-> "base"]
  /\ planned = noPlanRecord
  /\ writer = "none"

\* loadOrAdvanceRevision: content the sidecar does not know is a new revision.
loadOrAdvanceRevision(p) ==
  IF p.known = p.file THEN p
  ELSE [p EXCEPT !.revision = @ + 1, !.known = p.file]

\* cancelPlannedOperation takes the private record with it.
cancelPlannedOperation ==
  IF ledger.phase = "planned"
  THEN ledger' = transitioned(ledger, "cancelled") /\ planned' = noPlanRecord
  ELSE UNCHANGED <<ledger, planned>>

-----------------------------------------------------------------------------
\* Plan: the record is written before the operation is reserved.  A change
\* of the network has one transition for each live environment.
PlanProfile ==
  /\ apply.at = "idle" /\ ledger.phase = "none"
  /\ profile.file = "base"
  /\ \E network, mixed \in BOOLEAN :
       /\ network => \A e \in PlannedEnvs : gateway[e].route = "from"
       /\ mixed => network
       /\ LET p == loadOrAdvanceRevision(profile)
          IN  /\ profile' = p
              /\ planned' = [exists |-> TRUE, revision |-> p.revision,
                             network |-> network, mixed |-> mixed]
  /\ goApply("reserve") /\ sound
  /\ UNCHANGED <<ledger, gateway, writer>>

plannedEffects == {OwnerEffect} \cup (IF planned.network THEN networkEffects ELSE {})

ReservePlan ==
  /\ apply.at = "reserve" /\ goApply("idle")
  /\ \/ sound /\ ledger' = reserved(plannedEffects) /\ UNCHANGED planned
     \/ fail /\ planned' = noPlanRecord /\ UNCHANGED ledger
  /\ UNCHANGED <<gateway, profile, writer>>

\* Apply of a confirmed request; an expired plan that nobody applied yet is
\* cancelled.
ApplyProfile ==
  /\ apply.at = "idle" /\ ledger.phase # "none" /\ ~Terminal(ledger) /\ planned.exists
  /\ \/ apply' = [idleApply EXCEPT !.at = "classify"] /\ UNCHANGED <<ledger, planned>>
     \/ ledger.phase = "planned" /\ cancelPlannedOperation /\ UNCHANGED apply
  /\ sound /\ UNCHANGED <<gateway, profile, writer>>

\* The daemon reconciles an accepted operation before it serves.
ReconcileProfile ==
  /\ apply.at = "startup"
  /\ IF ledger.phase \in {"none", "planned"} \/ Terminal(ledger) \/ ~planned.exists
     THEN applyReturns ELSE goApply("classify")
  /\ sound /\ UNCHANGED <<ledger, gateway, profileVars>>

RecordProfileStartup == RecordStartupRecovery /\ UNCHANGED profileVars

baseCurrent(p) == p.revision = planned.revision /\ p.file = "base"
targetCommitted(p) == p.revision = planned.revision + 1 /\ p.file = "target"

\* What the review would say now: a network plan is built from the live
\* gateways, so it is stale as soon as one of them has another route.
replanMatches ==
  planned.network => \A e \in PlannedEnvs : gateway[e].route = "from"

\* applyUnderProfileLock up to the persistence effect.
ClassifyProfile ==
  /\ apply.at = "classify"
  /\ LET p == loadOrAdvanceRevision(profile)
         owned == \/ ledger.phase \in {"staging", "activating", "proving"}
                  \/ ledger.phase = "recovery-required" /\ planned.network
     IN  /\ profile' = p
         /\ \/ baseCurrent(p) /\ replanMatches /\ goApply("begin")
               /\ UNCHANGED <<ledger, planned>>
            \/ baseCurrent(p) /\ ~replanMatches /\ cancelPlannedOperation /\ applyReturns
            \/ /\ targetCommitted(p) /\ ledger.phase # "planned" /\ owned
               /\ goApply("begin") /\ UNCHANGED <<ledger, planned>>
            \/ /\ ledger.phase = "planned" /\ ~baseCurrent(p)
               /\ cancelPlannedOperation /\ applyReturns
            \/ /\ ledger.phase # "planned" /\ ~baseCurrent(p)
               /\ ~(targetCommitted(p) /\ owned)
               /\ ledger' = requireRecovery(ledger) /\ applyReturns
               /\ UNCHANGED planned
  /\ sound /\ UNCHANGED <<gateway, writer>>

\* ensureConfigurationOperationStaging.
staged(op) == IF op.phase \in {"planned", "claimed"} THEN transitioned(op, "staging") ELSE op

\* The persistence effect starts once; a repeated apply that finds the target
\* finishes it, one that finds the base cannot know what happened.
BeginPersist ==
  /\ apply.at = "begin"
  /\ LET op == staged(ledger)
     IN  \/ fail /\ ledger' \in {ledger, transitioned(ledger, "claimed"), op}
            /\ operationTransitionAllowed(ledger.phase, ledger'.phase)
            /\ applyReturns
         \/ /\ sound /\ executes(op, OwnerEffect)
            /\ ledger' = begun(op, OwnerEffect) /\ goApply("save")
         \/ /\ sound /\ ~executes(op, OwnerEffect) /\ profile.file = "target"
            /\ \/ /\ op.effect[OwnerEffect] = "running"
                  /\ ledger' = finished(op, OwnerEffect, "succeeded") /\ goApply("prove")
               \/ /\ op.effect[OwnerEffect] = "succeeded"
                  /\ ledger' = op /\ goApply("prove")
               \/ /\ op.effect[OwnerEffect] \notin {"running", "succeeded"}
                  /\ ledger' = op /\ applyReturns
         \/ /\ sound /\ ~executes(op, OwnerEffect) /\ profile.file # "target"
            /\ ledger' = requireRecovery(op) /\ applyReturns
  /\ UNCHANGED <<gateway, profileVars>>

\* Save replaces the file by a rename or leaves it.
PersistProfile ==
  /\ apply.at = "save"
  /\ \/ sound /\ profile' = [profile EXCEPT !.file = "target"] /\ goApply("saved")
        /\ UNCHANGED ledger
     \/ fail /\ ledger' = finished(ledger, OwnerEffect, "failed") /\ goApply("fail")
        /\ UNCHANGED profile
  /\ UNCHANGED <<gateway, planned, writer>>

FinishPersist ==
  /\ apply.at = "saved"
  /\ \/ sound /\ ledger' = finished(ledger, OwnerEffect, "succeeded") /\ goApply("prove")
     \/ fail /\ UNCHANGED ledger /\ applyReturns
  /\ UNCHANGED <<gateway, profileVars>>

\* The persisted profile is projected again and must be the reviewed target.
ProvePersisted ==
  /\ apply.at = "prove"
  /\ LET op == IF ledger.phase = "staging" THEN transitioned(ledger, "proving") ELSE ledger
         p == loadOrAdvanceRevision(profile)
     IN  /\ profile' = p
         /\ IF targetCommitted(p)
            THEN ledger' = op /\ goApply(IF planned.network THEN "network" ELSE "succeed")
            ELSE ledger' = requireRecovery(op) /\ applyReturns
  /\ sound /\ UNCHANGED <<gateway, planned, writer>>

\* The transition starts only when no effect of it was ever started; effects
\* all proved are accepted when every gateway still has the desired route.
\* Routes interrupted half-way have no recovery provider.
StartTransitions ==
  /\ apply.at = "network"
  /\ LET status == {ledger.effect[f] : f \in networkEffects}
         effective == \A e \in PlannedEnvs : gateway[e].route = "desired"
     IN  \/ status = {"pending"} /\ goApply("observe") /\ UNCHANGED ledger
         \/ status = {"succeeded"} /\ effective /\ goApply("succeed") /\ UNCHANGED ledger
         \/ /\ status # {"pending"} /\ ~(status = {"succeeded"} /\ effective)
            /\ ledger' = requireRecovery(ledger) /\ applyReturns
  /\ sound /\ UNCHANGED <<gateway, profileVars>>

\* No owner step lies between the drained routes and their commit.
ProfileHook ==
  /\ apply.at = "hook" /\ goApply("commit")
  /\ sound /\ UNCHANGED <<ledger, gateway, profileVars>>

\* A proved transition whose results cannot be recorded needs recovery; every
\* other failure restores the profile.
SyncTransitions ==
  /\ SyncResults(IF apply.outcome = "succeeded" THEN "succeed" ELSE "restore",
                 IF apply.outcome = "succeeded" THEN "unsynced" ELSE "restore")
  /\ UNCHANGED profileVars

UnsyncedTransitions ==
  /\ apply.at = "unsynced" /\ applyReturns
  /\ ledger' = requireRecovery(ledger)
  /\ sound /\ UNCHANGED <<gateway, profileVars>>

\* rollbackProfileAfterNetworkFailure: the base network is put back in the
\* profile as it is now.
RestoreProfile ==
  /\ apply.at = "restore"
  /\ LET back == IF profile.file = "target"
                 THEN IF planned.mixed THEN "partial" ELSE "base" ELSE "edited"
     IN  \/ /\ sound /\ profile' = loadOrAdvanceRevision([profile EXCEPT !.file = back])
            /\ goApply(IF back = "base" THEN "restored" ELSE "unrestored")
         \/ fail /\ UNCHANGED profile /\ goApply("unrestored")
  /\ UNCHANGED <<ledger, gateway, planned, writer>>

\* Mutant: the rollback is recorded without asking whether it restored.
CheckpointAnyRestore ==
  /\ apply.at \in {"restored", "unrestored"}
  /\ LET status == "rolled-back"
         op == finished(ledger, OwnerEffect, status)
     IN  \/ /\ sound /\ mayFinish(ledger, OwnerEffect, status)
            /\ operationTransitionAllowed(op.phase, "rolling-back")
            /\ ledger' = transitioned(op, "rolling-back")
            /\ goApply("roll-back")
         \/ fail /\ ledger' \in {requireRecovery(ledger), requireRecovery(op)} /\ applyReturns
  /\ UNCHANGED <<gateway, profileVars>>

\* Both records of the rollback, then its terminal phase.
CheckpointRestore ==
  /\ apply.at \in {"restored", "unrestored"}
  /\ LET status == IF apply.at = "restored" THEN "rolled-back" ELSE "unproved"
         op == finished(ledger, OwnerEffect, status)
     IN  \/ /\ sound /\ mayFinish(ledger, OwnerEffect, status)
            /\ operationTransitionAllowed(op.phase, "rolling-back")
            /\ ledger' = transitioned(op, "rolling-back")
            /\ goApply(IF apply.at = "restored" /\ apply.outcome # "rollback-unproved"
                       THEN "roll-back" ELSE "unproved")
         \/ fail /\ ledger' \in {requireRecovery(ledger), requireRecovery(op)} /\ applyReturns
  /\ UNCHANGED <<gateway, profileVars>>

\* Terminal phase, then the private record goes.
TerminateProfile ==
  /\ apply.at \in {"succeed", "fail", "roll-back", "unproved"}
  /\ LET phase == CASE apply.at = "succeed" -> "succeeded" [] apply.at = "fail" -> "failed"
                    [] apply.at = "roll-back" -> "rolled-back" [] OTHER -> "rollback-unproved"
     IN  \/ sound /\ mayTerminate(ledger, phase) /\ ledger' = transitioned(ledger, phase)
            /\ goApply("forget")
         \/ /\ sound /\ ~mayTerminate(ledger, phase)
            /\ ledger' = IF apply.at \in {"succeed", "fail"} THEN ledger ELSE requireRecovery(ledger)
            /\ applyReturns
         \/ /\ fail
            /\ ledger' = IF apply.at \in {"succeed", "fail"} THEN ledger ELSE requireRecovery(ledger)
            /\ applyReturns
  /\ UNCHANGED <<gateway, profileVars>>

ForgetPlan ==
  /\ apply.at = "forget" /\ planned' = noPlanRecord /\ applyReturns
  /\ sound /\ UNCHANGED <<ledger, gateway, profile, writer>>

-----------------------------------------------------------------------------
\* RotateIdentity, ResetIdentity and SetWorkspacePathMode of the command line.
IdentityCommandLoads ==
  /\ budget.changes > 0 /\ writer = "none"
  /\ writer' = profile.file /\ budget' = [budget EXCEPT !.changes = @ - 1]
  /\ UNCHANGED <<ledger, gateway, apply, profile, planned>>

IdentityCommandSaves ==
  /\ writer # "none" /\ writer' = "none"
  /\ profile' = [profile EXCEPT !.file = "edited"]
  /\ UNCHANGED <<batchVars, planned>>

LiveStep == LiveNetworkSteps /\ UNCHANGED profileVars
RouteChange == RouteChanges /\ UNCHANGED profileVars
CrashProfile == DaemonRestarts("startup") /\ UNCHANGED profileVars

ProfileTxNext ==
  \/ PlanProfile \/ ReservePlan \/ ApplyProfile \/ ReconcileProfile \/ RecordProfileStartup
  \/ ClassifyProfile \/ BeginPersist \/ PersistProfile \/ FinishPersist \/ ProvePersisted
  \/ StartTransitions \/ ProfileHook \/ SyncTransitions \/ UnsyncedTransitions
  \/ RestoreProfile \/ CheckpointRestore \/ TerminateProfile \/ ForgetPlan
  \/ IdentityCommandLoads \/ IdentityCommandSaves
  \/ LiveStep \/ RouteChange \/ CrashProfile

ProfileTxSpec == ProfileTxInit /\ [][ProfileTxNext]_profileTxVars

-----------------------------------------------------------------------------
\* What the terminal record of a configuration operation says is so at the
\* moment it is written: after "succeeded" the profile is the target (or a
\* concurrent identity command replaced it) and every planned gateway took
\* the reviewed route; after "rolled-back" the base is back, and after that,
\* "failed" or "cancelled" no gateway has a route of the operation; and no
\* terminal record leaves a gateway locked by an open change
\* (applyUnderProfileLock, rollbackProfileAfterNetworkFailure).
ConfigurationOutcomeIsTrue ==
  [][(Terminal(ledger') /\ ~Terminal(ledger)) =>
       /\ noOpenChange
       /\ ledger'.phase = "succeeded" =>
            /\ profile.file \in {"target", "edited"}
            /\ planned.network => routesOfOperation
       /\ ledger'.phase = "rolled-back" => profile.file \in {"base", "edited"}
       /\ ledger'.phase \in {"rolled-back", "failed", "cancelled"} => noRouteOfOperation
    ]_profileTxVars
====

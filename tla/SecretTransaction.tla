-------------------------- MODULE SecretTransaction --------------------------
(***************************************************************************)
(* A reviewed change of a secret: set, rotated or deleted in the keychain, *)
(* and, for a rotation, carried to the live gateways that use it.  The     *)
(* keychain is written after the new routes are drained and before they    *)
(* commit (manager/secret_service.go, secret_network_transition.go,        *)
(* secret_network_transition_recovery.go, secrets/keychain.go,             *)
(* daemon/secret_service.go).                                              *)
(*                                                                         *)
(* The keychain has the reviewed base generation, the next generation      *)
(* written by this operation, or a generation of somebody else ("other").  *)
(* The value never rests on disk: a call that lacks it cannot write.       *)
(***************************************************************************)
EXTENDS NetworkBatch

VARIABLES
  keychain,     \* "base", "next" or "other"
  secretPlan    \* the private plan record

secretVars == <<keychain, secretPlan>>
secretTxVars == <<batchVars, secretVars>>

noSecretPlan == [exists |-> FALSE, action |-> "none", live |-> FALSE]

SecretTxInit == BatchInit /\ keychain = "base" /\ secretPlan = noSecretPlan

secretEffect == ledger.effect[OwnerEffect]
needsValue == secretPlan.action # "delete"
rotating == secretPlan.live /\ secretPlan.action = "rotate"

end(phase) == apply' = [apply EXCEPT !.at = "terminate", !.outcome = phase]

-----------------------------------------------------------------------------
\* planSecretNetworkTransitions: a rotation has a transition for every live
\* gateway on the reviewed generation; deleting a secret in use is blocked.
liveRoutes == \A e \in PlannedEnvs : gateway[e].route = "from"

PlanSecret ==
  /\ apply.at = "idle" /\ ledger.phase = "none" /\ keychain = "base"
  /\ \E action \in {"set", "rotate", "delete"} :
       secretPlan' = [exists |-> TRUE, action |-> action, live |-> action # "set" /\ liveRoutes]
  /\ goApply("reserve") /\ sound /\ UNCHANGED <<ledger, gateway, keychain>>

secretEffects ==
  {OwnerEffect} \cup
  (IF rotating THEN networkEffects ELSE {})

ReserveSecret ==
  /\ apply.at = "reserve" /\ goApply("idle")
  /\ \/ sound /\ ledger' = reserved(secretEffects) /\ UNCHANGED secretPlan
     \/ fail /\ secretPlan' = noSecretPlan /\ UNCHANGED ledger
  /\ UNCHANGED <<gateway, keychain>>

cancelSecretPlan ==
  ledger' = transitioned(ledger, "cancelled") /\ secretPlan' = noSecretPlan

\* applyLocked: an expired plan that nobody applied yet is cancelled.
ApplySecret ==
  /\ apply.at = "idle" /\ ledger.phase # "none" /\ ~Terminal(ledger) /\ secretPlan.exists
  /\ \/ /\ \E value \in BOOLEAN :
             apply' = [idleApply EXCEPT !.at = IF value THEN "with-value" ELSE "no-value"]
        /\ UNCHANGED <<ledger, secretPlan>>
     \/ ledger.phase = "planned" /\ cancelSecretPlan /\ UNCHANGED apply
  /\ sound /\ UNCHANGED <<gateway, keychain>>

\* The replanned review differs when the gateways do, a blocked plan is
\* cancelled, and a plan that lacks the value waits for it.
ClassifySecret ==
  /\ apply.at \in {"with-value", "no-value"} /\ ledger.phase = "planned"
  /\ LET stale == \/ keychain # "base"
                  \/ secretPlan.action # "set" /\ secretPlan.live # liveRoutes
         blocked == secretPlan.action = "delete" /\ secretPlan.live
     IN  \/ (stale \/ blocked) /\ cancelSecretPlan /\ applyReturns
         \/ /\ ~stale /\ ~blocked /\ needsValue /\ apply.at = "no-value"
            /\ applyReturns /\ UNCHANGED <<ledger, secretPlan>>
         \/ /\ ~stale /\ ~blocked /\ (needsValue => apply.at = "with-value")
            /\ ledger' = transitioned(ledger, "claimed") /\ UNCHANGED <<secretPlan, apply>>
  /\ sound /\ UNCHANGED <<gateway, keychain>>

\* ensureStaging, then the live or the plain way.
EnterStaging ==
  /\ apply.at \in {"with-value", "no-value"} /\ ledger.phase # "planned"
  /\ LET op == IF ledger.phase = "claimed" THEN transitioned(ledger, "staging") ELSE ledger
         refused == op.phase \notin {"staging", "proving", "recovery-required"}
         wanting == needsValue /\ apply.at = "no-value"
     IN  /\ ledger' = op
         /\ \/ (refused \/ (wanting /\ (secretEffect = "pending" \/ rotating))) /\ applyReturns
            \/ ~refused /\ rotating /\ ~wanting /\ goApply("observe")
            \/ /\ ~refused /\ ~rotating /\ ~(wanting /\ secretEffect = "pending")
               /\ goApply(IF wanting THEN "plain-no-value" ELSE "plain")
  /\ sound /\ UNCHANGED <<gateway, secretVars>>

-----------------------------------------------------------------------------
\* Set and Delete of the keychain: the generation must be the expected one
\* unless this operation wrote the envelope already.  A failing call may have
\* written.
mayWriteKeychain == keychain \in {"base", "next"}

\* The plain way: no live route depends on the secret.
BeginProvider ==
  /\ apply.at \in {"plain", "plain-no-value"}
  /\ \/ /\ sound /\ executes(ledger, OwnerEffect)
        /\ ledger' = begun(ledger, OwnerEffect) /\ goApply("execute")
     \/ /\ sound /\ secretEffect = "running" /\ UNCHANGED ledger
        /\ goApply(IF apply.at = "plain" THEN "reconcile" ELSE "reconcile-no-value")
     \/ sound /\ secretEffect = "succeeded" /\ UNCHANGED ledger /\ goApply("prove")
     \/ fail /\ UNCHANGED ledger /\ applyReturns
  /\ UNCHANGED <<gateway, secretVars>>

ExecuteProvider ==
  /\ apply.at = "execute"
  /\ \/ /\ sound /\ mayWriteKeychain /\ keychain' = "next"
        /\ ledger' = finished(ledger, OwnerEffect, "succeeded") /\ goApply("prove")
     \/ /\ sound /\ ~mayWriteKeychain /\ UNCHANGED <<keychain, ledger>> /\ applyReturns
     \/ /\ fail /\ keychain' \in {keychain} \cup (IF mayWriteKeychain THEN {"next"} ELSE {})
        /\ UNCHANGED ledger /\ applyReturns
  /\ UNCHANGED <<gateway, secretPlan>>

\* Reconcile of the keychain: committed when the envelope is this operation's,
\* uncommitted when the base generation is untouched.
ReconcileRunningEffect ==
  /\ apply.at \in {"reconcile", "reconcile-no-value"}
  /\ \/ fail /\ UNCHANGED ledger /\ applyReturns
     \/ /\ sound /\ keychain = "next"
        /\ ledger' = finished(ledger, OwnerEffect, "succeeded") /\ goApply("prove")
     \/ /\ sound /\ keychain = "other"
        /\ ledger' = requireRecovery(ledger) /\ applyReturns
     \/ /\ sound /\ keychain = "base" /\ UNCHANGED ledger
        /\ IF apply.at = "reconcile-no-value" /\ needsValue
           THEN applyReturns ELSE goApply("execute")
  /\ UNCHANGED <<gateway, secretVars>>

\* The reviewed generation must be there before the operation succeeds.
ProveGeneration ==
  /\ apply.at = "prove"
  /\ LET op == IF ledger.phase \in {"staging", "recovery-required"}
               THEN transitioned(ledger, "proving") ELSE ledger
     IN  IF keychain = "next" THEN ledger' = op /\ end("succeeded")
         ELSE ledger' = requireRecovery(op) /\ applyReturns
  /\ sound /\ UNCHANGED <<gateway, secretVars>>

-----------------------------------------------------------------------------
\* The live way: beforeCommit runs between the drained routes and the commit.
SecretHook ==
  /\ apply.at = "hook"
  /\ \/ /\ sound /\ executes(ledger, OwnerEffect)
        /\ ledger' = begun(ledger, OwnerEffect) /\ goApply("provider")
     \/ fail /\ UNCHANGED ledger /\ goApply("rollback")
  /\ UNCHANGED <<gateway, secretVars>>

CommitSecret ==
  /\ apply.at = "provider"
  /\ \/ /\ mayWriteKeychain /\ keychain' = "next"
        /\ \/ sound /\ ledger' = finished(ledger, OwnerEffect, "succeeded") /\ goApply("commit")
           \/ fail /\ UNCHANGED ledger /\ goApply("rollback")
     \/ sound /\ ~mayWriteKeychain /\ goApply("provider-failed") /\ UNCHANGED <<keychain, ledger>>
     \/ /\ fail /\ keychain' \in {keychain} \cup (IF mayWriteKeychain THEN {"next"} ELSE {})
        /\ goApply("provider-failed") /\ UNCHANGED ledger
  /\ UNCHANGED <<gateway, secretPlan>>

\* reconcileLiveSecretProviderFailure.
ReconcileProviderFailure ==
  /\ apply.at = "provider-failed"
  /\ \/ fail /\ UNCHANGED ledger /\ goApply("rollback")
     \/ /\ sound /\ keychain = "next"
        /\ ledger' = finished(ledger, OwnerEffect, "succeeded") /\ goApply("commit")
     \/ /\ sound /\ keychain = "base"
        /\ ledger' = finished(ledger, OwnerEffect, "rolled-back") /\ goApply("rollback")
     \/ sound /\ keychain = "other" /\ UNCHANGED ledger /\ goApply("rollback")
  /\ UNCHANGED <<gateway, secretVars>>

SyncSecretRoutes ==
  /\ SyncResults(IF apply.outcome = "succeeded" THEN "proved" ELSE "failed", "unsynced")
  /\ UNCHANGED secretVars

UnsyncedSecretRoutes ==
  /\ apply.at = "unsynced" /\ ledger' = requireRecovery(ledger) /\ applyReturns
  /\ sound /\ UNCHANGED <<gateway, secretVars>>

ProveLiveSecret ==
  /\ apply.at = "proved"
  /\ IF keychain = "next" /\ secretEffect = "succeeded"
     THEN end("succeeded") /\ UNCHANGED ledger
     ELSE ledger' = requireRecovery(ledger) /\ applyReturns
  /\ sound /\ UNCHANGED <<gateway, secretVars>>

\* Mutant: only a recorded keychain write counts as one.
FinishUnlessRecorded ==
  /\ apply.at = "failed"
  /\ LET has(status) == operationEffectStatusPresent(ledger, status)
         phase == IF has("unproved") THEN "rollback-unproved"
                  ELSE IF has("rolled-back") THEN "rolled-back" ELSE "failed"
         op == IF phase = "failed" THEN ledger ELSE transitioned(ledger, "rolling-back")
     IN  \/ /\ secretEffect = "succeeded" /\ sound
            /\ ledger' = requireRecovery(ledger) /\ applyReturns
         \/ /\ secretEffect # "succeeded" /\ sound
            /\ ledger' = op /\ end(phase)
         \/ fail /\ UNCHANGED ledger /\ applyReturns
  /\ UNCHANGED <<gateway, secretVars>>

\* finishFailedLiveSecretTransition: a keychain that may have been written
\* needs recovery; otherwise the effects say how it ended.
FinishFailedSecret ==
  /\ apply.at = "failed"
  /\ LET has(status) == operationEffectStatusPresent(ledger, status)
         phase == IF has("unproved") THEN "rollback-unproved"
                  ELSE IF has("rolled-back") THEN "rolled-back" ELSE "failed"
         op == IF phase = "failed" THEN ledger ELSE transitioned(ledger, "rolling-back")
     IN  \/ /\ secretEffect \in {"succeeded", "running"} /\ sound
            /\ ledger' = requireRecovery(ledger) /\ applyReturns
         \/ /\ secretEffect \notin {"succeeded", "running"} /\ sound
            /\ ledger' = op /\ end(phase)
         \/ fail /\ UNCHANGED ledger /\ applyReturns
  /\ UNCHANGED <<gateway, secretVars>>

\* Terminal refuses a phase the effects do not bear out.
TerminateSecret ==
  /\ apply.at = "terminate"
  /\ \/ /\ sound /\ mayTerminate(ledger, apply.outcome)
        /\ ledger' = transitioned(ledger, apply.outcome)
        /\ IF apply.outcome = "rollback-unproved" THEN applyReturns ELSE goApply("forget")
     \/ sound /\ ~mayTerminate(ledger, apply.outcome) /\ UNCHANGED ledger /\ applyReturns
     \/ fail /\ UNCHANGED ledger /\ applyReturns
  /\ UNCHANGED <<gateway, secretVars>>

ForgetSecretPlan ==
  /\ apply.at = "forget" /\ secretPlan' = noSecretPlan /\ applyReturns
  /\ sound /\ UNCHANGED <<ledger, gateway, keychain>>
-----------------------------------------------------------------------------
\* reconcileOperation at startup: the gateways of the previous daemon are gone.
\* A rotation that touched them is settled by the keychain alone; a value that
\* was not written has to be given again.
ReconcileSecret ==
  /\ apply.at = "startup"
  /\ LET idle == \/ ledger.phase \in {"none", "planned"} \/ Terminal(ledger)
                 \/ ~secretPlan.exists
         started == \E f \in DOMAIN ledger.effect : ledger.effect[f] # "pending"
     IN  /\ \/ idle /\ UNCHANGED ledger /\ applyReturns
            \/ ~idle /\ rotating /\ started /\ UNCHANGED ledger /\ goApply("reset")
            \/ /\ ~idle /\ ~(rotating /\ started) /\ needsValue /\ secretEffect = "pending"
               /\ ledger' = updateRecovery(ledger, "provider", FALSE) /\ applyReturns
            \/ /\ ~idle /\ ~(rotating /\ started) /\ (needsValue => secretEffect # "pending")
               /\ UNCHANGED ledger /\ goApply("no-value")
  /\ sound /\ UNCHANGED <<gateway, secretVars>>

RecordSecretStartup == RecordStartupRecovery /\ UNCHANGED secretVars

\* reconcileSecretGenerationAfterNetworkAuthorityReset.
ReconcileReset ==
  /\ apply.at = "reset"
  /\ \/ fail /\ UNCHANGED ledger /\ applyReturns
     \/ /\ sound /\ keychain = "next" /\ secretEffect \in {"running", "succeeded"}
        /\ ledger' = IF secretEffect = "running" THEN finished(ledger, OwnerEffect, "succeeded")
                     ELSE ledger
        /\ goApply("reset-committed")
     \/ /\ sound /\ keychain = "base" /\ secretEffect \in {"pending", "running", "rolled-back"}
        /\ ledger' = IF secretEffect = "running" THEN finished(ledger, OwnerEffect, "rolled-back")
                     ELSE ledger
        /\ goApply("reset-uncommitted")
     \/ /\ sound
        /\ ~(keychain = "next" /\ secretEffect \in {"running", "succeeded"})
        /\ ~(keychain = "base" /\ secretEffect \in {"pending", "running", "rolled-back"})
        /\ ledger' = requireRecovery(ledger) /\ applyReturns
  /\ UNCHANGED <<gateway, secretVars>>

\* finishCommittedSecretAfterNetworkAuthorityReset: every route must have been
\* proved before the keychain was written.
FinishCommittedReset ==
  /\ apply.at = "reset-committed"
  /\ LET proved == \A f \in networkEffects : ledger.effect[f] = "succeeded"
     IN  \/ ~proved /\ sound /\ ledger' = requireRecovery(ledger) /\ applyReturns
         \/ /\ proved /\ sound /\ end("succeeded")
            /\ ledger' = IF ledger.phase = "proving" THEN ledger
                         ELSE transitioned(ledger, "proving")
         \/ fail /\ UNCHANGED ledger /\ applyReturns
  /\ UNCHANGED <<gateway, secretVars>>

\* finishUncommittedSecretAfterNetworkAuthorityReset: the routes are rolled
\* back with the process that held them, and a provider call that was never
\* made is recorded as failed.
FinishUncommittedReset ==
  /\ apply.at = "reset-uncommitted"
  /\ LET gone == [ledger EXCEPT !.effect = [f \in DOMAIN @ |->
                    IF f # OwnerEffect /\ @[f] \in {"running", "succeeded"}
                    THEN "rolled-back" ELSE @[f]]]
         called == finished(begun(gone, OwnerEffect), OwnerEffect, "failed")
     IN  \/ /\ sound /\ secretEffect = "pending" /\ ledger' = called /\ end("failed")
         \/ /\ sound /\ secretEffect = "rolled-back" /\ end("rolled-back")
            /\ ledger' = IF gone.phase = "rolling-back" THEN gone
                         ELSE transitioned(gone, "rolling-back")
         \/ fail /\ ledger' \in {ledger, gone} /\ applyReturns
  /\ UNCHANGED <<gateway, secretVars>>

-----------------------------------------------------------------------------
\* Another operation or another program changes the same keychain item; the
\* operations of this daemon take turns (acquireSecretMutation).
OtherWriter ==
  /\ budget.changes > 0 /\ apply.at = "idle" /\ keychain' = "other"
  /\ budget' = [budget EXCEPT !.changes = @ - 1]
  /\ UNCHANGED <<ledger, gateway, apply, secretPlan>>

LiveSecretStep == LiveNetworkSteps /\ UNCHANGED secretVars
SecretRouteChange == RouteChanges /\ UNCHANGED secretVars
CrashSecret == DaemonRestarts("startup") /\ UNCHANGED secretVars

SecretTxNext ==
  \/ PlanSecret \/ ReserveSecret \/ ApplySecret \/ ClassifySecret \/ EnterStaging
  \/ BeginProvider \/ ExecuteProvider \/ ReconcileRunningEffect \/ ProveGeneration
  \/ SecretHook \/ CommitSecret \/ ReconcileProviderFailure \/ SyncSecretRoutes
  \/ UnsyncedSecretRoutes \/ ProveLiveSecret \/ FinishFailedSecret \/ TerminateSecret
  \/ ForgetSecretPlan \/ ReconcileSecret \/ RecordSecretStartup \/ ReconcileReset
  \/ FinishCommittedReset \/ FinishUncommittedReset
  \/ OtherWriter \/ LiveSecretStep \/ SecretRouteChange \/ CrashSecret

SecretTxSpec == SecretTxInit /\ [][SecretTxNext]_secretTxVars

-----------------------------------------------------------------------------
\* What the terminal record of a secret operation says is so when it is
\* written: "succeeded" means that the keychain has the reviewed generation and
\* every gateway that was to follow it did; any other end means that this
\* operation did not write the keychain, and, unless the rollback is recorded
\* as unproved, that no gateway has its route.  No gateway stays locked
\* (applyWithLiveNetworkTransitions, finishFailedLiveSecretTransition and the
\* recovery after a restart).
SecretOutcomeIsTrue ==
  [][(Terminal(ledger') /\ ~Terminal(ledger)) =>
       /\ noOpenChange
       /\ ledger'.phase = "succeeded" =>
            keychain = "next" /\ (rotating /\ ~apply.boot => routesOfOperation)
       /\ ledger'.phase # "succeeded" => keychain # "next"
       /\ ledger'.phase \in {"rolled-back", "failed", "cancelled"} => noRouteOfOperation
    ]_secretTxVars
====

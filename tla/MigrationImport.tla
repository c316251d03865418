--------------------------- MODULE MigrationImport ---------------------------
(* One portable import: the durable operation and its worker                  *)
(* (manager/migration_import*.go, migration_materialize.go,                   *)
(* migration_secret_import.go, migration_config_only.go), the Lima provider's *)
(* stage, adoption, activation and cleanup (backend/lima/migration_stage.go,  *)
(* migration_adopt.go, migration_verify.go, migration_activate.go,            *)
(* migration_cleanup.go) and the daemon that starts, cancels, resumes and     *)
(* restarts workers (daemon/migration.go).  The import carries one            *)
(* environment with a root and an attached disk, its profile state and one    *)
(* secret value.  A write of the operation record, a file the provider        *)
(* commits to, or a secret-store call is one action; between two of them the  *)
(* worker may fail, the operator may cancel and the daemon may crash.         *)
EXTENDS MigrationLedger

CONSTANTS
    MaxImportFaults,    \* provider, store and guest failures
    MaxImportCrashes,   \* daemon crashes
    ImportCancels,      \* whether the operator may cancel
    NameTaken           \* whether someone may take the destination name meanwhile

ImportEffects == {"stage", "prepare", "adopt", "verify", "activate"}
DestinationDisks == 2
DestinationObjects == 2   \* the attached disk, then the instance
NoImporter == [run |-> "none", at |-> "idle", failed |-> FALSE, interrupted |-> FALSE]

VARIABLES
    importOp,     \* the durable operation record
    dest,         \* the provider's stage directory and the objects promoted from it
    imported,     \* profile-state stage, secret value, published batch, the name
    importer,     \* the worker goroutine
    importSpent   \* faults and crashes used

importVars == <<importOp, dest, imported, importer, importSpent>>

ImportInit ==
    /\ importOp = [phase |-> "none", effect |-> [e \in ImportEffects |-> "pending"],
                   decision |-> "none", cancelled |-> FALSE, claims |-> "pending",
                   stage |-> FALSE, secrets |-> FALSE, config |-> FALSE]
    /\ dest = [stage |-> "none", disks |-> 0, control |-> "none", adopted |-> FALSE,
               evidence |-> FALSE, intent |-> FALSE, promoted |-> 0, done |-> FALSE]
    /\ imported = [profiles |-> FALSE, secret |-> "absent", published |-> FALSE, name |-> "free"]
    /\ importer = NoImporter
    /\ importSpent = [faults |-> 0, crashes |-> 0]

-----------------------------------------------------------------------------
(* Control. *)

importerAt(step) == importer.at = step
importerGoes(step) == importer' = [importer EXCEPT !.at = step]

importerReturns(failed) ==
    importer' = [importer EXCEPT !.failed = failed,
                                 !.at = IF importer.run = "after" THEN "tail" ELSE "returned"]
importerFails == importerReturns(TRUE)

noImportFault == UNCHANGED importSpent
importFault ==
    /\ importSpent.faults < MaxImportFaults
    /\ importSpent' = [importSpent EXCEPT !.faults = @ + 1]
importMayFail == (importer.interrupted /\ noImportFault) \/ importFault

effectOf(e) == importOp.effect[e]
succeeded(e) == effectOf(e) = "succeeded"
inPhase(phase) == [importOp EXCEPT !.phase = phase]
effectIs(e, status) == [importOp EXCEPT !.effect[e] = status]

(* TransitionPhase, then the next step; a refused transition is an error. *)
importPhase(to, step) ==
    IF phaseRefused("import", importOp.phase, to)
    THEN importerFails /\ UNCHANGED importOp
    ELSE importOp' = inPhase(to) /\ importerGoes(step)

(* The import*Failure helpers record the failure if the ledger allows it. *)
importFailure ==
    importOp' = inPhase(phaseAttempt("import", importOp.phase, "recoverable")) /\ importerFails

(* A step of the provider: it succeeds, or it fails and is recorded. *)
orImportFailure(success) ==
    (success /\ noImportFault) \/ (importMayFail /\ importFailure /\ UNCHANGED <<dest, imported>>)

beginImportEffect(e) == effectIs(e, effectBegun(effectOf(e)))

-----------------------------------------------------------------------------
(* Planning and applying. *)

(* A plan is made of an inspected bundle for names that are free; the client *)
(* holds it ("planned") until it is applied.                                 *)
PlanImport ==
    /\ importOp.phase = "none" /\ imported.name = "free"
    /\ \E config \in BOOLEAN : importOp' = [inPhase("planned") EXCEPT !.config = config]
    /\ UNCHANGED <<dest, imported, importer, importSpent>>

revalidateImportDestination == imported.name = "free"

(* A plan that still holds becomes a reserved operation with its worker. *)
ApplyImport ==
    /\ importOp.phase = "planned" /\ revalidateImportDestination
    /\ importOp' = inPhase("claiming")
    /\ importer' = [NoImporter EXCEPT !.run = "import", !.at = "start"]
    /\ UNCHANGED <<dest, imported, importSpent>>

(* Nothing outside the migration code consults a migration claim. *)
SomeoneTakesName ==
    /\ NameTaken /\ imported.name = "free" /\ ~imported.published
    /\ imported' = [imported EXCEPT !.name = "taken"]
    /\ UNCHANGED <<importOp, dest, importer, importSpent>>

-----------------------------------------------------------------------------
(* MaterializeImportDestination. *)

runImport ==
    /\ importerAt("start") /\ importer.run # "noop"
    /\ importerGoes(
         CASE importer.run = "commit" \/ importOp.decision = "commit" -> "commit"
           [] importer.run = "rollback" \/ importOp.decision = "rollback" -> "rollback"
           [] ~importOp.stage \/ importOp.phase \in {"claiming", "materializing", "recoverable"}
              \/ (importOp.phase = "preparing-secrets" /\ ~importOp.secrets) -> "materialize"
           [] OTHER -> "adopt")
    /\ UNCHANGED <<importOp, dest, imported, importSpent>>

(* A finished stage is not made again. *)
MaterializeImportDestination ==
    /\ importerAt("materialize")
    /\ CASE succeeded("stage") /\ ~succeeded("prepare") ->
              importerGoes("prepare") /\ UNCHANGED importOp
         [] succeeded("stage") ->
              IF importOp.phase = "materializing" THEN importPhase("preparing-secrets", "adopt")
              ELSE importerGoes("adopt") /\ UNCHANGED importOp
         [] importOp.phase = "claiming" -> importerGoes("claim") /\ UNCHANGED importOp
         [] importOp.phase \in {"recoverable", "materializing"} ->
              importPhase("materializing", "revalidate")
         [] OTHER -> importerFails /\ UNCHANGED importOp
    /\ UNCHANGED <<dest, imported, importSpent>>

AcquireImportClaims ==
    /\ importerAt("claim")
    /\ \/ /\ importOp' = [importOp EXCEPT !.claims = "held"]
          /\ importerGoes("materialized") /\ noImportFault
       \/ importFault /\ importerFails /\ UNCHANGED importOp
    /\ UNCHANGED <<dest, imported>>

EnterMaterializing ==
    /\ importerAt("materialized")
    /\ importPhase("materializing", "revalidate")
    /\ UNCHANGED <<dest, imported, importSpent>>

(* Before the first attempt the destination must be the planned one, later   *)
(* the claims must be held; the names must be free either way.  A stage      *)
(* effect that is neither pending nor running ends the attempt.              *)
revalidateImportOperationDestination ==
    /\ importerAt("revalidate")
    /\ IF imported.name = "taken" \/ (effectOf("stage") # "pending" /\ importOp.claims # "held")
       THEN importFailure /\ noImportFault
       ELSE \/ /\ importOp' = beginImportEffect("stage") /\ noImportFault
               /\ IF effectOf("stage") \in {"pending", "running"}
                  THEN importerGoes("secretEffect") ELSE importerFails
            \/ importMayFail /\ importFailure
    /\ UNCHANGED <<dest, imported>>

BeginSecretEffect ==
    /\ importerAt("secretEffect")
    /\ importOp' = beginImportEffect("prepare")
    /\ importerGoes(IF importOp.config THEN "secrets" ELSE "profiles")
    /\ UNCHANGED <<dest, imported, importSpent>>

(* A profile-state stage of an earlier attempt is replaced. *)
newMigrationProfileStateMaterializer ==
    /\ importerAt("profiles")
    /\ orImportFailure(/\ imported' = [imported EXCEPT !.profiles = TRUE]
                       /\ importerGoes("own") /\ UNCHANGED <<importOp, dest>>)

(* A failed attempt removes the profile-state stage it made. *)
materializationFails ==
    importFailure /\ imported' = [imported EXCEPT !.profiles = FALSE]

-----------------------------------------------------------------------------
(* The provider's stage. *)

orMaterializationFails(success) ==
    \/ success /\ noImportFault
    \/ importMayFail /\ materializationFails /\ UNCHANGED dest

(* An existing stage directory is this operation's only if it says so. *)
prepareMigrationStageOwner ==
    /\ importerAt("own")
    /\ IF dest.stage = "bare"
       THEN materializationFails /\ noImportFault /\ UNCHANGED dest
       ELSE orMaterializationFails(
              /\ dest' = [dest EXCEPT !.stage = IF @ = "none" THEN "bare" ELSE @]
              /\ importerGoes(IF dest.stage = "none" THEN "ownerFile" ELSE "secrets")
              /\ UNCHANGED <<importOp, imported>>)

writeMigrationStageOwner ==
    /\ importerAt("ownerFile")
    /\ orMaterializationFails(/\ dest' = [dest EXCEPT !.stage = "owned"]
                              /\ importerGoes("secrets") /\ UNCHANGED <<importOp, imported>>)

(* The secret components precede the disks in the bundle; setting a value    *)
(* again under the same operation id is a replay.                            *)
ConsumeSecretComponent ==
    /\ importerAt("secrets")
    /\ orMaterializationFails(
         /\ imported' = [imported EXCEPT !.secret = "set"]
         /\ importerGoes(IF importOp.config THEN "staged" ELSE "disks")
         /\ UNCHANGED <<importOp, dest>>)

(* A checkpointed disk is kept; the completion file follows the last one. *)
materializeMigrationStageEntry ==
    /\ importerAt("disks")
    /\ orMaterializationFails(
         /\ IF dest.stage = "complete" \/ dest.disks = DestinationDisks
            THEN dest' = [dest EXCEPT !.stage = "complete"] /\ importerGoes("staged")
            ELSE dest' = [dest EXCEPT !.disks = @ + 1] /\ UNCHANGED importer
         /\ UNCHANGED <<importOp, imported>>)

FinishDestinationStage ==
    /\ importerAt("staged")
    /\ importOp' = [effectIs("stage", "succeeded") EXCEPT !.stage = TRUE]
    /\ importerGoes("secretsSet")
    /\ UNCHANGED <<dest, imported, importSpent>>

FinishPreparedSecrets ==
    /\ importerAt("secretsSet") \/ importerAt("secretsRead")
    /\ importOp' = [effectIs("prepare", "succeeded") EXCEPT !.secrets = TRUE]
    /\ importerGoes(IF importerAt("secretsRead") THEN "adopt" ELSE "enterPreparing")
    /\ UNCHANGED <<dest, imported, importSpent>>

EnterPreparingSecrets ==
    /\ importerAt("enterPreparing")
    /\ importPhase("preparing-secrets", "adopt")
    /\ UNCHANGED <<dest, imported, importSpent>>

(* PrepareImportSecrets, when the stage was recorded but the secrets were    *)
(* not: the bundle is read once more for them.                               *)
PrepareImportSecrets ==
    /\ importerAt("prepare")
    /\ IF importOp.phase = "preparing-secrets"
       THEN importOp' = beginImportEffect("prepare") /\ importerGoes("readSecrets")
       ELSE IF importOp.phase \in {"recoverable", "materializing"}
       THEN importPhase("preparing-secrets", "prepare")
       ELSE importerFails /\ UNCHANGED importOp
    /\ UNCHANGED <<dest, imported, importSpent>>

readImportSecretValues ==
    /\ importerAt("readSecrets")
    /\ orImportFailure(
         /\ imported' = [imported EXCEPT !.secret = "set"]
         /\ importerGoes("secretsRead")
         /\ UNCHANGED <<importOp, dest>>)

-----------------------------------------------------------------------------
(* AdoptImportDestination and the provider's adoption. *)

AdoptImportDestination ==
    /\ importerAt("adopt")
    /\ CASE ~(importOp.stage /\ succeeded("stage") /\ succeeded("prepare")) ->
              importerFails /\ UNCHANGED importOp
         [] succeeded("adopt") ->
              IF importOp.phase = "adopting" THEN importPhase("verifying", "verify")
              ELSE importerGoes("verify") /\ UNCHANGED importOp
         [] importOp.phase \in {"preparing-secrets", "recoverable", "adopting"} ->
              importPhase("adopting", "adoptEffect")
         [] OTHER -> importerFails /\ UNCHANGED importOp
    /\ UNCHANGED <<dest, imported, importSpent>>

(* A capability that changed since the plan fails the import here. *)
BeginAdoptEffect ==
    /\ importerAt("adoptEffect")
    /\ orImportFailure(/\ importOp' = beginImportEffect("adopt")
                       /\ importerGoes(IF importOp.config THEN "adopted" ELSE "provideAdoption")
                       /\ UNCHANGED <<dest, imported>>)

recoverableControl == dest.control = "done"

(* Evidence is replayed; a control directory is recovered if the executor    *)
(* answered; otherwise the stage must still be the checkpointed one, which a *)
(* guest that ran has changed.                                               *)
AdoptMigrationDestination ==
    /\ importerAt("provideAdoption")
    /\ CASE dest.evidence -> importerGoes("adopted") /\ UNCHANGED <<importOp, dest>>
         [] ~dest.evidence /\ recoverableControl ->
              importerGoes("finalize") /\ UNCHANGED <<importOp, dest>>
         [] ~dest.evidence /\ dest.control # "done" /\ (dest.control # "none" \/ dest.adopted) ->
              importFailure /\ UNCHANGED dest
         [] OTHER -> /\ dest' = [dest EXCEPT !.control = "open"]
                     /\ importerGoes("execute") /\ UNCHANGED importOp
    /\ UNCHANGED <<imported, importSpent>>

(* The executor boots the guest on the root disk; it may be lost, or the     *)
(* guest may report that it could not be adopted.                            *)
runMigrationAdoptionExecutor ==
    /\ importerAt("execute")
    /\ \/ /\ dest' = [dest EXCEPT !.adopted = TRUE, !.control = "done"]
          /\ importerGoes("finalize") /\ noImportFault /\ UNCHANGED importOp
       \/ /\ importMayFail /\ importFailure
          /\ \E answer \in {"open", "refused"}, changed \in BOOLEAN :
               dest' = [dest EXCEPT !.adopted = changed, !.control = answer]
    /\ UNCHANGED imported

(* The control directory goes file by file, the executor's answer among the  *)
(* first, before the evidence is written.                                    *)
removeMigrationAdoptionControl ==
    /\ importerAt("finalize")
    /\ \/ /\ dest' = [dest EXCEPT !.control = "none"]
          /\ importerGoes("evidence") /\ noImportFault /\ UNCHANGED importOp
       \/ /\ importMayFail /\ importFailure
          /\ dest' \in {dest, [dest EXCEPT !.control = "open"]}
    /\ UNCHANGED imported

finalizeMigrationAdoption ==
    /\ importerAt("evidence")
    /\ orImportFailure(/\ dest' = [dest EXCEPT !.evidence = TRUE]
                       /\ importerGoes("adopted") /\ UNCHANGED <<importOp, imported>>)

FinishDestinationAdoption ==
    /\ importerAt("adopted")
    /\ importOp' = effectIs("adopt", "succeeded")
    /\ importerGoes("enterVerifying")
    /\ UNCHANGED <<dest, imported, importSpent>>

EnterVerifying ==
    /\ importerAt("enterVerifying")
    /\ importPhase("verifying", "verify")
    /\ UNCHANGED <<dest, imported, importSpent>>

-----------------------------------------------------------------------------
(* VerifyImportDestination. *)

(* A verification that succeeded leaves the phase as it is. *)
VerifyImportDestination ==
    /\ importerAt("verify")
    /\ CASE ~succeeded("adopt") -> importerFails /\ UNCHANGED importOp
         [] succeeded("verify") -> importerGoes("commit") /\ UNCHANGED importOp
         [] importOp.phase \in {"recoverable", "verifying"} ->
              importPhase("verifying", "verifyEffect")
         [] OTHER -> importerFails /\ UNCHANGED importOp
    /\ UNCHANGED <<dest, imported, importSpent>>

BeginVerifyEffect ==
    /\ importerAt("verifyEffect")
    /\ orImportFailure(/\ importOp' = beginImportEffect("verify") /\ importerGoes("provideProof")
                       /\ UNCHANGED <<dest, imported>>)

VerifyMigrationDestination ==
    dest.stage = "complete" /\ dest.evidence /\ dest.control = "none"

FinishVerifyEffect ==
    /\ importerAt("provideProof")
    /\ IF importOp.config \/ VerifyMigrationDestination
       THEN orImportFailure(/\ importOp' = effectIs("verify", "succeeded")
                            /\ importerGoes("commit") /\ UNCHANGED <<dest, imported>>)
       ELSE importFailure /\ noImportFault /\ UNCHANGED <<dest, imported>>

-----------------------------------------------------------------------------
(* CommitImportDestination and the provider's activation. *)

(* A plausible slip: an import is committed from whatever phase it is in. *)
CommitAnyway ==
    /\ importerAt("commit")
    /\ importOp' = [inPhase("committing") EXCEPT !.decision = "commit"]
    /\ importerGoes("activate") /\ noImportFault
    /\ UNCHANGED <<dest, imported>>

(* The decision is durable before anything of the import becomes live.  The  *)
(* batch is tried first; a batch that cannot be published is no failure the  *)
(* operation records.                                                        *)
CommitImportDestination ==
    /\ importerAt("commit")
    /\ \/ /\ succeeded("verify") /\ importOp.decision = "none" /\ importOp.phase = "verifying"
          /\ \/ /\ imported.name = "free" /\ noImportFault
                /\ importOp' = [inPhase("committing") EXCEPT !.decision = "commit"]
                /\ importerGoes("activate")
             \/ /\ (imported.name = "taken" /\ noImportFault) \/ importMayFail
                /\ importerFails /\ UNCHANGED importOp
       \/ /\ succeeded("verify") /\ importOp.decision = "commit" /\ noImportFault
          /\ importOp.phase \in {"recoverable", "committing"}
          /\ importPhase("committing", "activate")
       \/ /\ noImportFault /\ importerFails /\ UNCHANGED importOp
          /\ \/ ~succeeded("verify") \/ importOp.decision = "rollback"
             \/ importOp.decision = "none" /\ importOp.phase # "verifying"
             \/ importOp.decision = "commit" /\ importOp.phase \notin {"recoverable", "committing"}
    /\ UNCHANGED <<dest, imported>>

BeginActivateEffect ==
    /\ importerAt("activate")
    /\ importOp' = beginImportEffect("activate")
    /\ importerGoes(IF importOp.config \/ succeeded("activate") THEN "publish" ELSE "intend")
    /\ UNCHANGED <<dest, imported, importSpent>>

(* The intent is written once, after a fresh verification. *)
ActivateMigrationDestination ==
    /\ importerAt("intend")
    /\ IF dest.intent \/ VerifyMigrationDestination
       THEN orImportFailure(/\ dest' = [dest EXCEPT !.intent = TRUE]
                            /\ importerGoes("promote") /\ UNCHANGED <<importOp, imported>>)
       ELSE importFailure /\ noImportFault /\ UNCHANGED <<dest, imported>>

(* Each object is renamed into place without replacing anything; one that an *)
(* earlier attempt renamed is verified where it is.                          *)
promoteMigrationActivationObjects ==
    /\ importerAt("promote")
    /\ orImportFailure(
         /\ IF dest.done \/ dest.promoted = DestinationObjects
            THEN dest' = [dest EXCEPT !.done = TRUE] /\ importerGoes("publish")
            ELSE dest' = [dest EXCEPT !.promoted = @ + 1] /\ UNCHANGED importer
         /\ UNCHANGED <<importOp, imported>>)

(* The workspace paths are looked at again, then the profiles and records    *)
(* become visible together.                                                  *)
publishMigrationImportBatch ==
    /\ importerAt("publish")
    /\ IF imported.name = "taken"
       THEN importFailure /\ noImportFault /\ UNCHANGED <<dest, imported>>
       ELSE orImportFailure(/\ imported' = [imported EXCEPT !.published = TRUE, !.profiles = FALSE,
                                                            !.name = "mine"]
                            /\ importerGoes("activated") /\ UNCHANGED <<importOp, dest>>)

FinishActivateEffect ==
    /\ importerAt("activated")
    /\ importOp' = effectIs("activate", "succeeded")
    /\ importerGoes("complete")
    /\ UNCHANGED <<dest, imported, importSpent>>

CompleteImport ==
    /\ importerAt("complete")
    /\ importPhase("complete", "releaseClaims")
    /\ UNCHANGED <<dest, imported, importSpent>>

ReleaseImportClaims ==
    /\ importerAt("releaseClaims")
    /\ importOp' = [importOp EXCEPT !.claims = "released"]
    /\ IF importOp.phase = "complete" THEN importerReturns(FALSE) ELSE importerGoes("rolledBack")
    /\ UNCHANGED <<dest, imported, importSpent>>

-----------------------------------------------------------------------------
(* RollbackImportDestination: verification, secrets, then the provider's     *)
(* state, each compensation begun in the ledger before its work.                     *)

RollbackImportDestination ==
    /\ importerAt("rollback")
    /\ CASE importOp.phase = "rolled-back" -> importerReturns(FALSE) /\ UNCHANGED importOp
         [] importOp.decision = "none"
              /\ importOp.phase \in {"claiming", "materializing", "preparing-secrets", "adopting",
                                     "verifying", "cancelling", "recoverable"} ->
              /\ importOp' = [inPhase("rolling-back") EXCEPT !.decision = "rollback"]
              /\ importerGoes("undoVerify")
         [] importOp.decision = "rollback" /\ importOp.phase \in {"recoverable", "rolling-back"} ->
              importPhase("rolling-back", "undoVerify")
         [] OTHER -> importerFails /\ UNCHANGED importOp
    /\ UNCHANGED <<dest, imported, importSpent>>

settledEffect(e) == effectOf(e) \in {"pending", "compensated"}

compensateImportVerification ==
    /\ importerAt("undoVerify")
    /\ IF settledEffect("verify") THEN importerGoes("undoSecrets") /\ UNCHANGED importOp
       ELSE /\ importOp' = effectIs("verify", IF effectOf("verify") = "compensating"
                                              THEN "compensated" ELSE "compensating")
            /\ UNCHANGED importer
    /\ UNCHANGED <<dest, imported, importSpent>>

(* A plausible slip: only the secrets that the ledger lists are deleted. *)
compensateRecordedSecrets ==
    /\ importerAt("undoSecrets")
    /\ IF settledEffect("prepare")
       THEN importerGoes("undoProvider") /\ UNCHANGED <<importOp, imported>>
       ELSE /\ importOp' = effectIs("prepare", "compensating")
            /\ imported' = [imported EXCEPT !.secret = IF importOp.secrets THEN "deleted" ELSE @]
            /\ importerGoes("secretsUndone")
    /\ UNCHANGED <<dest, importSpent>>

(* Without a record of what was prepared, the secret store is asked what the *)
(* operation's own ids committed.                                            *)
compensateImportSecrets ==
    /\ importerAt("undoSecrets")
    /\ \/ /\ settledEffect("prepare") /\ noImportFault
          /\ importerGoes("undoProvider") /\ UNCHANGED <<importOp, imported>>
       \/ /\ ~settledEffect("prepare") /\ effectOf("prepare") # "compensating" /\ noImportFault
          /\ importOp' = effectIs("prepare", "compensating") /\ UNCHANGED <<importer, imported>>
       \/ /\ effectOf("prepare") = "compensating" /\ noImportFault
          /\ imported' = [imported EXCEPT !.secret = IF @ = "set" THEN "deleted" ELSE @]
          /\ importerGoes("secretsUndone") /\ UNCHANGED importOp
       \/ /\ effectOf("prepare") = "compensating" /\ importMayFail
          /\ importFailure /\ UNCHANGED imported
    /\ UNCHANGED dest

FinishPreparedSecretCompensation ==
    /\ importerAt("secretsUndone")
    /\ importOp' = effectIs("prepare", "compensated")
    /\ importerGoes("undoProvider")
    /\ UNCHANGED <<dest, imported, importSpent>>

compensateImportProviderState ==
    /\ importerAt("undoProvider")
    /\ \/ \E e \in {"adopt", "stage"} :
            /\ ~settledEffect(e) /\ effectOf(e) # "compensating"
            /\ e = "stage" => settledEffect("adopt") \/ effectOf("adopt") = "compensating"
            /\ importOp' = effectIs(e, "compensating") /\ UNCHANGED importer
       \/ /\ \A e \in {"adopt", "stage"} : settledEffect(e) \/ effectOf(e) = "compensating"
          /\ UNCHANGED importOp
          /\ importerGoes(IF settledEffect("adopt") /\ settledEffect("stage") THEN "releaseClaims"
                          ELSE IF importOp.config THEN "providerUndone" ELSE "cleanup")
    /\ UNCHANGED <<dest, imported, importSpent>>

(* Cleanup needs an owner record that names this operation and finds only    *)
(* the files it lists; an adoption control directory is not among them.      *)
inspectMigrationStageCleanupTree == dest.stage # "bare" /\ dest.control = "none"

RollbackMigrationDestination ==
    /\ importerAt("cleanup")
    /\ CASE dest.stage = "none" -> importerGoes("removeProfiles") /\ UNCHANGED <<importOp, dest>>
                                   /\ noImportFault
         [] dest.stage # "none" /\ ~inspectMigrationStageCleanupTree ->
              importFailure /\ UNCHANGED dest /\ noImportFault
         [] OTHER -> \/ /\ dest' = [dest EXCEPT !.stage = "bare", !.disks = 0, !.evidence = FALSE,
                                                !.adopted = FALSE]
                        /\ importerGoes("removeDirectories") /\ noImportFault /\ UNCHANGED importOp
                     \/ /\ importMayFail /\ importFailure
                        /\ dest' = [dest EXCEPT !.stage = "owned", !.disks = 0, !.evidence = FALSE]
    /\ UNCHANGED imported

(* The files go first, owner.json last of them, then the directories. *)
removeMigrationCleanupTree ==
    /\ importerAt("removeDirectories")
    /\ orImportFailure(/\ dest' = [dest EXCEPT !.stage = "none"]
                       /\ importerGoes("removeProfiles") /\ UNCHANGED <<importOp, imported>>)

removeMigrationMaterializedProfileStates ==
    /\ importerAt("removeProfiles")
    /\ orImportFailure(/\ imported' = [imported EXCEPT !.profiles = FALSE]
                       /\ importerGoes("providerUndone") /\ UNCHANGED <<importOp, dest>>)

FinishProviderCompensation ==
    /\ importerAt("providerUndone")
    /\ \E e \in {"adopt", "stage"} :
         /\ effectOf(e) = "compensating"
         /\ e = "stage" => settledEffect("adopt")
         /\ importOp' = effectIs(e, "compensated")
    /\ importerGoes(IF effectOf("adopt") = "compensating" /\ effectOf("stage") = "compensating"
                    THEN "providerUndone" ELSE "releaseClaims")
    /\ UNCHANGED <<dest, imported, importSpent>>

FinishImportRollback ==
    /\ importerAt("rolledBack")
    /\ importOp' = inPhase("rolled-back")
    /\ importerReturns(FALSE)
    /\ UNCHANGED <<dest, imported, importSpent>>

-----------------------------------------------------------------------------
(* The daemon. *)

workerIdle == importer.run = "none"
startWorker(run) == importer' = [NoImporter EXCEPT !.run = run, !.at = "start"]

noopRun ==
    /\ importerAt("start") /\ importer.run = "noop"
    /\ importerReturns(FALSE)
    /\ UNCHANGED <<importOp, dest, imported, importSpent>>

(* A cancelled operation that is cancelling or recoverable is rolled back by *)
(* the worker that ends.                                                     *)
WorkerReturns ==
    /\ importerAt("returned")
    /\ importer' = IF importOp.cancelled /\ importOp.phase \in {"cancelling", "recoverable"}
                   THEN [importer EXCEPT !.run = "after", !.at = "rollback", !.failed = FALSE,
                                         !.interrupted = FALSE]
                   ELSE [importer EXCEPT !.at = "tail"]
    /\ UNCHANGED <<importOp, dest, imported, importSpent>>

markImportRecoverable ==
    /\ importerAt("tail")
    /\ importOp' = IF importer.failed /\ importOp.phase \notin migrationPhaseTerminal
                   THEN inPhase(phaseAttempt("import", importOp.phase, "recoverable"))
                   ELSE importOp
    /\ importerGoes("exit")
    /\ UNCHANGED <<dest, imported, importSpent>>

WorkerExits ==
    /\ importerAt("exit")
    /\ importer' = NoImporter
    /\ UNCHANGED <<importOp, dest, imported, importSpent>>

(* Cancel: the decision is durable, then the running worker is interrupted   *)
(* or a new one started for the cleanup.                                     *)
RequestImportCancellation ==
    /\ ImportCancels /\ importer.run # "down"
    /\ ~importOp.cancelled /\ importOp.decision # "commit"
    /\ migrationPhaseTransitionAllowed("import", importOp.phase, "cancelling")
    /\ importOp' = [inPhase("cancelling") EXCEPT !.cancelled = TRUE]
    /\ IF workerIdle THEN startWorker("noop")
       ELSE importer' = [importer EXCEPT !.interrupted = TRUE]
    /\ UNCHANGED <<dest, imported, importSpent>>

importRecovery ==
    migrationRecoveryForState("import", importOp.phase, importOp.decision, importOp.cancelled, FALSE)

(* Resume and Recover run what the record advertises. *)
RecoverImport ==
    /\ workerIdle
    /\ \/ importRecovery = "resume" /\ startWorker("import")
       \/ importRecovery = "finish" /\ startWorker("commit")
       \/ importRecovery = "rollback" /\ startWorker("rollback")
    /\ UNCHANGED <<importOp, dest, imported, importSpent>>

CrashImport ==
    /\ importer.run # "down" /\ importOp.phase \notin {"none", "planned"}
    /\ importSpent.crashes < MaxImportCrashes
    /\ importSpent' = [importSpent EXCEPT !.crashes = @ + 1]
    /\ importer' = [NoImporter EXCEPT !.run = "down"]
    /\ UNCHANGED <<importOp, dest, imported>>

ReconcileImportStartup ==
    /\ importer.run = "down"
    /\ CASE importOp.phase \in migrationPhaseTerminal ->
              importer' = NoImporter /\ UNCHANGED importOp
         [] importOp.phase \notin migrationPhaseTerminal /\ importOp.cancelled ->
              startWorker("noop") /\ UNCHANGED importOp
         [] ~importOp.cancelled /\ importOp.phase = "recoverable" ->
              importer' = NoImporter /\ UNCHANGED importOp
         [] ~importOp.cancelled /\ importOp.phase \notin migrationPhaseTerminal \cup {"recoverable"}
              /\ importOp.stage /\ importOp.secrets ->
              startWorker("import") /\ UNCHANGED importOp
         [] OTHER -> /\ importer' = NoImporter
                     /\ importOp' = inPhase(phaseAttempt("import", importOp.phase, "recoverable"))
    /\ UNCHANGED <<dest, imported, importSpent>>

ImportWork ==
    \/ runImport \/ MaterializeImportDestination \/ AcquireImportClaims \/ EnterMaterializing
    \/ revalidateImportOperationDestination \/ BeginSecretEffect
    \/ newMigrationProfileStateMaterializer \/ prepareMigrationStageOwner
    \/ writeMigrationStageOwner \/ ConsumeSecretComponent \/ materializeMigrationStageEntry
    \/ FinishDestinationStage \/ FinishPreparedSecrets \/ EnterPreparingSecrets
    \/ PrepareImportSecrets \/ readImportSecretValues \/ AdoptImportDestination
    \/ BeginAdoptEffect \/ AdoptMigrationDestination \/ runMigrationAdoptionExecutor
    \/ removeMigrationAdoptionControl \/ finalizeMigrationAdoption \/ FinishDestinationAdoption
    \/ EnterVerifying \/ VerifyImportDestination \/ BeginVerifyEffect \/ FinishVerifyEffect
    \/ CommitImportDestination \/ BeginActivateEffect \/ ActivateMigrationDestination
    \/ promoteMigrationActivationObjects \/ publishMigrationImportBatch \/ FinishActivateEffect
    \/ CompleteImport \/ ReleaseImportClaims \/ RollbackImportDestination
    \/ compensateImportVerification \/ compensateImportSecrets
    \/ FinishPreparedSecretCompensation \/ compensateImportProviderState
    \/ RollbackMigrationDestination \/ removeMigrationCleanupTree
    \/ removeMigrationMaterializedProfileStates \/ FinishProviderCompensation
    \/ FinishImportRollback \/ noopRun \/ WorkerReturns \/ markImportRecoverable \/ WorkerExits

ImportNext ==
    \/ PlanImport \/ ApplyImport \/ SomeoneTakesName \/ ImportWork
    \/ RequestImportCancellation \/ RecoverImport \/ CrashImport \/ ReconcileImportStartup

ImportSpec == ImportInit /\ [][ImportNext]_importVars

(* A worker runs until it ends, a daemon that went down is started again,    *)
(* and the operator takes the recovery the record advertises.                *)
ImportFairSpec ==
    ImportSpec /\ WF_importVars(ImportWork) /\ WF_importVars(ReconcileImportStartup)
               /\ WF_importVars(RecoverImport)

-----------------------------------------------------------------------------
(* Properties. *)

(* What Operation.Validate demands of an import record: the phase has the    *)
(* effects it rests on, and the decision and the cancellation fit it.        *)
effectsBehind(phase) ==
    CASE phase = "preparing-secrets" -> {"stage"}
      [] phase = "adopting" -> {"stage", "prepare"}
      [] phase = "verifying" -> {"stage", "prepare", "adopt"}
      [] phase \in {"committing", "complete"} -> {"stage", "prepare", "adopt", "verify"}
      [] OTHER -> {}

validateImportEffectProgression ==
    /\ \A e \in effectsBehind(importOp.phase) : succeeded(e)
    /\ importOp.phase = "rolled-back" => \A e \in ImportEffects : settledEffect(e)

validateDecision ==
    importOp.phase \in
      CASE importOp.decision = "commit" -> {"committing", "recoverable", "complete"}
        [] importOp.decision = "rollback" -> {"rolling-back", "recoverable", "rolled-back"}
        [] OTHER -> {"none", "planned", "claiming", "materializing", "preparing-secrets", "adopting",
                     "verifying", "recoverable", "cancelling"}

validateCancellation ==
    IF importOp.cancelled
    THEN importOp.phase \in {"cancelling", "rolling-back", "recoverable", "rolled-back"}
    ELSE importOp.phase # "cancelling"

(* Whatever the worker, the operator and the daemon write, in any order, is  *)
(* a record that its own validator accepts, so no step of an import is lost  *)
(* to a refused write (MigrationOperation.Validate).                         *)
ImportRecordIsValid ==
    validateImportEffectProgression /\ validateDecision /\ validateCancellation

(* An import ends in one of two ways.  Complete: every object is in place,   *)
(* the batch is visible and the secret is set.  Rolled back: no stage, no    *)
(* profile-state stage, no secret value and no claim is left, and nothing    *)
(* was ever published.  Nothing becomes live before the commit decision is   *)
(* durable (CommitImportDestination, RollbackImportDestination).             *)
ImportOutcomeIsTrue ==
    /\ importOp.phase = "complete" =>
         /\ imported.published /\ imported.secret = "set"
         /\ importOp.config \/ (dest.promoted = DestinationObjects /\ dest.done)
    /\ importOp.phase = "rolled-back" =>
         /\ dest.stage = "none" /\ dest.control = "none" /\ ~imported.profiles
         /\ imported.secret # "set" /\ ~imported.published /\ importOp.claims # "held"
    /\ imported.published \/ dest.promoted > 0 => importOp.decision = "commit"

(* "A crash at any cut safely replays the provider's idempotent exact-handle *)
(* cleanup" (compensateImportProviderState): an import that was to be rolled *)
(* back is, in the end, rolled back.                                         *)
RollbackConverges ==
    importOp.decision = "rollback" ~> importOp.phase = "rolled-back"
=============================================================================

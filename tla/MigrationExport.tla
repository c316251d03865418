--------------------------- MODULE MigrationExport ---------------------------
(* One portable export: its plan, durable operation and source claim          *)
(* (manager/migration_export.go, migration_store.go), the worker that writes, *)
(* seals and publishes the bundle (migration_export_worker.go), the Lima      *)
(* provider's snapshot of the source (backend/lima/migration_snapshot.go),    *)
(* the cancellation (migration_cancel.go) and the daemon that starts,         *)
(* cancels, resumes and restarts workers (daemon/migration.go).  A write of   *)
(* the operation record is atomic, so it is one action; between two of them   *)
(* the worker may fail, the operator may cancel, the source may change and    *)
(* the daemon may crash.                                                      *)
EXTENDS MigrationLedger, Sequences

CONSTANTS
    MaxExportFaults,    \* file, provider and source failures
    MaxExportCrashes,   \* daemon crashes
    MaxSourceChanges,   \* changes of the source after it was planned
    CancelRequests      \* whether the operator may cancel

ExportComponents == <<"secret", "profile", "profile-state", "disk">>
ExportEffects == {"snapshot", "write", "seal"}
NoExporter == [run |-> "none", at |-> "idle", purpose |-> "none", failed |-> FALSE]

VARIABLES
    liveSource,       \* the revision of the source environments and their disks
    plannedSource,    \* the revision the operator confirmed
    exportPhase,      \* the operation's phase, "none" before it is reserved
    exportEffect,     \* the status of each effect
    exportCancel,     \* "none", or the durable choice "retain" or "remove"
    retainedPartial,  \* the ledger says a cancelled partial was kept
    ledgerCheckpoint, \* the component count of the ledger's checkpoint
    exportClaims,     \* the ledger's claim state: "pending", "held" or "released"
    sourceClaim,      \* the claim file of the source: "none", "torn", "mine" or "rival"
    rivalClaims,      \* another operation's ledger claim on the same source
    partialFile,      \* "none", "empty", "open" or "sealed"
    appended,         \* components in the partial file
    flushed,          \* how many of them were synced
    outputFile,       \* the published bundle exists
    sourceSnapshot,   \* the provider's snapshot: "none", "bare", "owned" or "complete"
    clones,           \* the revision its disk clones, once made, were taken from
    createHandle,     \* the passphrase handle of the first request is alive
    exporter,         \* the worker goroutine
    exportInterrupted,\* its context was cancelled
    exportSpent       \* faults and crashes used

exportLedger == <<exportPhase, exportEffect, exportCancel, retainedPartial,
                  ledgerCheckpoint, exportClaims>>
bundleFiles == <<partialFile, appended, flushed, outputFile>>
sourceVars == <<liveSource, plannedSource>>
snapshotVars == <<sourceSnapshot, clones>>
exportVars == <<sourceVars, exportLedger, sourceClaim, rivalClaims, bundleFiles, snapshotVars,
                createHandle, exporter, exportInterrupted, exportSpent>>

ExportInit ==
    /\ liveSource = 0 /\ plannedSource = 0
    /\ exportPhase = "none"
    /\ exportEffect = [e \in ExportEffects |-> "pending"]
    /\ exportCancel = "none" /\ retainedPartial = FALSE /\ ledgerCheckpoint = 0
    /\ exportClaims = "pending" /\ sourceClaim = "none" /\ rivalClaims = "pending"
    /\ partialFile = "none" /\ appended = 0 /\ flushed = 0 /\ outputFile = FALSE
    /\ sourceSnapshot = "none" /\ clones = {}
    /\ createHandle = TRUE
    /\ exporter = NoExporter /\ exportInterrupted = FALSE
    /\ exportSpent = [faults |-> 0, crashes |-> 0]

-----------------------------------------------------------------------------
(* Control. *)

exporterAt(step) == exporter.at = step
exporterGoes(step) == exporter' = [exporter EXCEPT !.at = step]

(* The run function returns to the worker at "returned"; the cancellation    *)
(* that the worker may run after it returns at "tail".                       *)
exporterReturns(failed) ==
    exporter' = [exporter EXCEPT !.failed = failed,
                                 !.at = IF exporter.run = "after" THEN "tail" ELSE "returned"]
exporterFails == exporterReturns(TRUE)

noExportFault == UNCHANGED exportSpent
exportFault ==
    /\ exportSpent.faults < MaxExportFaults
    /\ exportSpent' = [exportSpent EXCEPT !.faults = @ + 1]

(* A call may fail by itself; with a cancelled context it may fail for free. *)
exportMayFail == (exportInterrupted /\ noExportFault) \/ exportFault

exportRefused(to) == phaseRefused("export", exportPhase, to)

(* A write of the operation that changes its phase, or one of its effects. *)
toPhase(to) ==
    /\ exportPhase' = to
    /\ UNCHANGED <<exportEffect, exportCancel, retainedPartial, ledgerCheckpoint, exportClaims>>

withEffect(e, status) ==
    /\ exportEffect' = [exportEffect EXCEPT ![e] = status]
    /\ UNCHANGED <<exportPhase, exportCancel, retainedPartial, ledgerCheckpoint, exportClaims>>

(* The phase WriteAndSealExportBundle leaves behind when it fails. *)
markMigrationExportRecoverable ==
    toPhase(IF exportPhase \in migrationPhaseTerminal \cup {"cancelling"}
            THEN exportPhase ELSE "recoverable")

-----------------------------------------------------------------------------
(* Planning and applying. *)

(* Nothing outside the migration code consults a migration claim. *)
SourceChanges ==
    /\ liveSource < MaxSourceChanges
    /\ liveSource' = liveSource + 1
    /\ UNCHANGED <<plannedSource, exportLedger, sourceClaim, rivalClaims, bundleFiles,
                   snapshotVars, createHandle, exporter, exportInterrupted, exportSpent>>

PlanExport ==
    /\ exportPhase = "none"
    /\ plannedSource' = liveSource
    /\ UNCHANGED <<liveSource, exportLedger, sourceClaim, rivalClaims, bundleFiles,
                   snapshotVars, createHandle, exporter, exportInterrupted, exportSpent>>

revalidateExportPlan == plannedSource = liveSource

(* The record is reserved while the handle that names its bundle is alive. *)
ApplyExport ==
    /\ exportPhase = "none" /\ createHandle /\ revalidateExportPlan
    /\ toPhase("claiming")
    /\ UNCHANGED <<sourceVars, sourceClaim, rivalClaims, bundleFiles, snapshotVars,
                   createHandle, exporter, exportInterrupted, exportSpent>>

-----------------------------------------------------------------------------
(* Claims.  One store lock orders the operations, but not their crashes: the *)
(* claim file is made before the ledger says "held", and the ledger says     *)
(* "released" before the file goes.                                          *)

unreadableClaim == sourceClaim = "torn"

claimConflict ==
    sourceClaim = "torn" \/ (sourceClaim = "rival" /\ rivalClaims # "released")

writeClaimExclusive ==
    /\ exporterAt("claim") /\ exportPhase = "claiming"
    /\ ~claimConflict /\ sourceClaim # "mine"
    /\ \/ sourceClaim' = "mine" /\ noExportFault /\ UNCHANGED exporter
       \/ sourceClaim' = "none" /\ exportFault /\ exporterFails
    /\ UNCHANGED <<sourceVars, exportLedger, rivalClaims, bundleFiles, snapshotVars, createHandle,
                   exportInterrupted>>

AcquireClaims ==
    /\ exporterAt("claim") /\ exportPhase = "claiming" /\ sourceClaim = "mine"
    /\ exportClaims' = "held"
    /\ exporterGoes("enter") /\ noExportFault
    /\ UNCHANGED <<sourceVars, exportPhase, exportEffect, exportCancel, retainedPartial, ledgerCheckpoint,
                   sourceClaim, rivalClaims, bundleFiles, snapshotVars, createHandle,
                   exportInterrupted>>

(* Only an operation that is still claiming takes the claim; a recoverable,  *)
(* snapshotting or writing one goes on without asking.                       *)
SkipClaims ==
    /\ exporterAt("claim") /\ (exportPhase # "claiming" \/ claimConflict)
    /\ IF exportPhase \in {"recoverable", "snapshotting", "writing"}
       THEN exporterGoes("enter") ELSE exporterFails
    /\ noExportFault
    /\ UNCHANGED <<sourceVars, exportLedger, sourceClaim, rivalClaims, bundleFiles, snapshotVars,
                   createHandle, exportInterrupted>>

(* The other operation, which claims the same source. *)
RivalAcquires ==
    /\ rivalClaims = "pending"
    /\ sourceClaim = "none" \/ (sourceClaim = "mine" /\ exportClaims = "released")
    /\ rivalClaims' = "held" /\ sourceClaim' = "rival"
    /\ UNCHANGED <<sourceVars, exportLedger, bundleFiles, snapshotVars, createHandle, exporter,
                   exportInterrupted, exportSpent>>

RivalReleases ==
    /\ rivalClaims = "held"
    /\ rivalClaims' = "released"
    /\ sourceClaim' \in {"none", sourceClaim}
    /\ UNCHANGED <<sourceVars, exportLedger, bundleFiles, snapshotVars, createHandle, exporter,
                   exportInterrupted, exportSpent>>

-----------------------------------------------------------------------------
(* SnapshotExportSource. *)

failSnapshotting ==
    exporterFails /\ toPhase(phaseAttempt("export", exportPhase, "recoverable"))

EnterSnapshotting ==
    /\ exporterAt("enter")
    /\ IF exportPhase = "writing"
       THEN exporterGoes("revalidate") /\ UNCHANGED exportLedger
       ELSE IF exportRefused("snapshotting")
       THEN exporterFails /\ UNCHANGED exportLedger
       ELSE toPhase("snapshotting") /\ exporterGoes("revalidate")
    /\ noExportFault
    /\ UNCHANGED <<sourceVars, sourceClaim, rivalClaims, bundleFiles, snapshotVars, createHandle,
                   exportInterrupted>>

(* The source must still be the planned one before the effect begins. *)
revalidateExportOperation ==
    /\ exporterAt("revalidate")
    /\ \/ /\ liveSource = plannedSource
          /\ withEffect("snapshot", effectBegun(exportEffect["snapshot"]))
          /\ exporterGoes("provide") /\ noExportFault
       \/ /\ (liveSource # plannedSource /\ noExportFault) \/ exportMayFail
          /\ failSnapshotting
    /\ UNCHANGED <<sourceVars, sourceClaim, rivalClaims, bundleFiles, snapshotVars,
                   createHandle, exportInterrupted>>

(* The provider inspects the source again and makes the snapshot directory.  *)
(* A complete snapshot is returned as it is; a directory that has no owner   *)
(* record is nobody's.                                                       *)
SnapshotMigrationSource ==
    /\ exporterAt("provide")
    /\ \/ /\ liveSource = plannedSource /\ sourceSnapshot # "bare" /\ noExportFault
          /\ sourceSnapshot' = IF sourceSnapshot = "none" THEN "bare" ELSE sourceSnapshot
          /\ exporterGoes(CASE sourceSnapshot = "none" -> "own"
                            [] sourceSnapshot = "owned" -> "clone"
                            [] OTHER -> "proved")
          /\ UNCHANGED exportLedger
       \/ /\ \/ (liveSource # plannedSource \/ sourceSnapshot = "bare") /\ noExportFault
             \/ exportMayFail
          /\ failSnapshotting /\ UNCHANGED sourceSnapshot
    /\ UNCHANGED <<sourceVars, sourceClaim, rivalClaims, bundleFiles, clones, createHandle,
                   exportInterrupted>>

prepareMigrationSnapshotOwner ==
    /\ exporterAt("own")
    /\ \/ /\ sourceSnapshot' = "owned" /\ exporterGoes("clone")
          /\ noExportFault /\ UNCHANGED exportLedger
       \/ exportFault /\ failSnapshotting /\ UNCHANGED sourceSnapshot
    /\ UNCHANGED <<sourceVars, sourceClaim, rivalClaims, bundleFiles, clones, createHandle,
                   exportInterrupted>>

(* Clones that an earlier attempt left are kept. *)
materializeMigrationSnapshotEntry ==
    /\ exporterAt("clone")
    /\ \/ /\ clones' = IF clones = {} THEN {liveSource} ELSE clones
          /\ exporterGoes("attest") /\ noExportFault /\ UNCHANGED exportLedger
       \/ exportMayFail /\ failSnapshotting /\ UNCHANGED clones
    /\ UNCHANGED <<sourceVars, sourceClaim, rivalClaims, bundleFiles, sourceSnapshot,
                   createHandle, exportInterrupted>>

(* A plausible slip: the source is not inspected again. *)
attestUnseen ==
    /\ exporterAt("attest")
    /\ sourceSnapshot' = "complete" /\ exporterGoes("proved") /\ noExportFault
    /\ UNCHANGED <<sourceVars, exportLedger, sourceClaim, rivalClaims, bundleFiles, clones,
                   createHandle, exportInterrupted>>

(* The snapshot is complete only if the source is what it was before. *)
attestSnapshot ==
    /\ exporterAt("attest")
    /\ \/ /\ liveSource = plannedSource /\ noExportFault
          /\ sourceSnapshot' = "complete" /\ exporterGoes("proved") /\ UNCHANGED exportLedger
       \/ /\ (liveSource # plannedSource /\ noExportFault) \/ exportMayFail
          /\ failSnapshotting /\ UNCHANGED sourceSnapshot
    /\ UNCHANGED <<sourceVars, sourceClaim, rivalClaims, bundleFiles, clones, createHandle,
                   exportInterrupted>>

(* Releasing a snapshot that is gone succeeds. *)
releaseSnapshot == sourceSnapshot' = "none" /\ clones' = {}

FinishSnapshotEffect ==
    /\ exporterAt("proved") /\ exportEffect["snapshot"] = "running"
    /\ withEffect("snapshot", "succeeded") /\ noExportFault
    /\ UNCHANGED <<sourceVars, sourceClaim, rivalClaims, bundleFiles, snapshotVars, createHandle,
                   exporter, exportInterrupted>>

EnterWriting ==
    /\ exporterAt("proved") /\ exportEffect["snapshot"] = "succeeded"
    /\ IF exportPhase \in {"snapshotting", "writing"}
       THEN toPhase("writing") /\ exporterGoes("prepare")
       ELSE exporterFails /\ UNCHANGED exportLedger
    /\ noExportFault
    /\ UNCHANGED <<sourceVars, sourceClaim, rivalClaims, bundleFiles, snapshotVars,
                   createHandle, exportInterrupted>>

-----------------------------------------------------------------------------
(* WriteAndSealExportBundle.  The phase it decides by is the one that         *)
(* prepareMigrationExport read, which after SnapshotExportSource is always    *)
(* "writing".                                                                 *)

failWriting == markMigrationExportRecoverable /\ exporterFails

(* The source is compared with the plan for the last time; a failure here    *)
(* is left to the daemon to record.                                          *)
prepareMigrationExport ==
    /\ exporterAt("prepare")
    /\ \/ /\ exportPhase = "writing" /\ liveSource = plannedSource
          /\ exporterGoes("inspect") /\ noExportFault
       \/ /\ exportPhase # "writing" \/ liveSource # plannedSource
          /\ exporterFails /\ noExportFault
       \/ exportMayFail /\ exporterFails
    /\ UNCHANGED <<sourceVars, exportLedger, sourceClaim, rivalClaims, bundleFiles,
                   snapshotVars, createHandle, exportInterrupted>>

recoveryAttempt == outputFile \/ partialFile # "none"

(* An existing output is a conflict in phase "writing"; an artifact needs a   *)
(* passphrase handle bound to it, and a bundle header to bind to.             *)
inspectMigrationExportArtifactPaths ==
    /\ exporterAt("inspect")
    /\ IF outputFile \/ partialFile = "empty" \/ recoveryAttempt # (exporter.purpose = "resume")
       THEN failWriting
       ELSE withEffect("write", effectBegun(exportEffect["write"])) /\ exporterGoes("consume")
    /\ noExportFault
    /\ UNCHANGED <<sourceVars, sourceClaim, rivalClaims, bundleFiles, snapshotVars, createHandle,
                   exportInterrupted>>

(* A handle is used once; the one of the first request dies with the daemon. *)
ConsumeSecretInput ==
    /\ exporterAt("consume")
    /\ IF exporter.purpose = "create" /\ ~createHandle
       THEN failWriting
       ELSE /\ exporterGoes(IF partialFile = "none" THEN "create"
                            ELSE IF partialFile = "sealed" THEN "publish" ELSE "resume")
            /\ UNCHANGED exportLedger
    /\ createHandle' = (createHandle /\ exporter.purpose = "resume")
    /\ noExportFault
    /\ UNCHANGED <<sourceVars, sourceClaim, rivalClaims, bundleFiles, snapshotVars, exportInterrupted>>

(* The partial is made exclusively, then its header is written and synced. *)
writeFreshMigrationExport ==
    /\ exporterAt("create")
    /\ \/ /\ partialFile' = (IF partialFile = "none" THEN "empty" ELSE "open")
          /\ exporterGoes(IF partialFile = "none" THEN "create" ELSE "components")
          /\ noExportFault /\ UNCHANGED exportLedger
       \/ exportFault /\ failWriting /\ UNCHANGED partialFile
    /\ UNCHANGED <<sourceVars, sourceClaim, rivalClaims, appended, flushed, outputFile, snapshotVars,
                   createHandle, exportInterrupted>>

(* An unsealed partial is cut back to its last checkpoint, which must not be  *)
(* behind the ledger's.                                                       *)
resumeMigrationExport ==
    /\ exporterAt("resume")
    /\ IF exportPhase # "writing" \/ appended < ledgerCheckpoint
       THEN failWriting
       ELSE exporterGoes("components") /\ UNCHANGED exportLedger
    /\ noExportFault
    /\ UNCHANGED <<sourceVars, sourceClaim, rivalClaims, bundleFiles, snapshotVars, createHandle,
                   exportInterrupted>>

(* A component: its records and checkpoint, the sync, the ledger's progress.  *)
(* Secrets and profile state are read from the live source and must be what   *)
(* was planned; profiles were read when the export was prepared, disks are    *)
(* read from the snapshot.                                                    *)
appendComponent(kind, intact) ==
    /\ exporterAt("components") /\ appended < Len(ExportComponents)
    /\ ExportComponents[appended + 1] = kind
    /\ \/ /\ intact /\ appended' = appended + 1
          /\ exporterGoes("sync") /\ noExportFault /\ UNCHANGED exportLedger
       \/ /\ (~intact /\ noExportFault) \/ exportMayFail
          /\ failWriting /\ UNCHANGED appended
    /\ UNCHANGED <<sourceVars, sourceClaim, rivalClaims, partialFile, flushed, outputFile,
                   snapshotVars, createHandle, exportInterrupted>>

writeMigrationExportSecret == appendComponent("secret", liveSource = plannedSource)
writeMigrationExportProfileState == appendComponent("profile-state", liveSource = plannedSource)
writeExportProfile == appendComponent("profile", TRUE)
writeMigrationExportDisk == appendComponent("disk", sourceSnapshot = "complete")

syncComponent ==
    /\ exporterAt("sync")
    /\ \/ /\ flushed' = appended
          /\ exporterGoes("progress") /\ noExportFault /\ UNCHANGED exportLedger
       \/ exportFault /\ failWriting /\ UNCHANGED flushed
    /\ UNCHANGED <<sourceVars, sourceClaim, rivalClaims, partialFile, appended, outputFile, snapshotVars,
                   createHandle, exportInterrupted>>

updateMigrationExportProgress ==
    /\ exporterAt("progress")
    /\ ledgerCheckpoint' = appended
    /\ exporterGoes("components") /\ noExportFault
    /\ UNCHANGED <<sourceVars, exportPhase, exportEffect, exportCancel, retainedPartial, exportClaims,
                   sourceClaim, rivalClaims, bundleFiles, snapshotVars, createHandle,
                   exportInterrupted>>

FinishWriteEffect ==
    /\ exporterAt("components") /\ appended = Len(ExportComponents)
    /\ exportEffect["write"] = "running"
    /\ withEffect("write", "succeeded") /\ noExportFault
    /\ UNCHANGED <<sourceVars, sourceClaim, rivalClaims, bundleFiles, snapshotVars, createHandle,
                   exporter, exportInterrupted>>

EnterSealing ==
    /\ exporterAt("components") /\ appended = Len(ExportComponents)
    /\ exportEffect["write"] = "succeeded"
    /\ IF exportRefused("sealing") THEN failWriting
       ELSE toPhase("sealing") /\ exporterGoes("seal")
    /\ noExportFault
    /\ UNCHANGED <<sourceVars, sourceClaim, rivalClaims, bundleFiles, snapshotVars, createHandle,
                   exportInterrupted>>

(* Begin the effect; write manifest and trailer, sync, and read it all back. *)
SealBundle ==
    /\ exporterAt("seal")
    /\ \/ /\ exportEffect["seal"] = "pending"
          /\ withEffect("seal", "running") /\ noExportFault /\ UNCHANGED <<sourceVars, exporter, bundleFiles>>
       \/ /\ exportEffect["seal"] # "pending"
          /\ partialFile' = "sealed" /\ flushed' = appended
          /\ UNCHANGED <<appended, outputFile>>
          /\ \/ exporterGoes("publish") /\ noExportFault /\ UNCHANGED exportLedger
             \/ exportFault /\ failWriting
       \/ /\ exportEffect["seal"] # "pending"
          /\ exportFault /\ failWriting /\ UNCHANGED bundleFiles
    /\ UNCHANGED <<sourceVars, sourceClaim, rivalClaims, snapshotVars, createHandle, exportInterrupted>>

(* Link the partial to the output, exclusively, then unlink the partial. *)
publishMigrationExportFile ==
    /\ exporterAt("publish")
    /\ \/ /\ ~outputFile /\ outputFile' = TRUE
          /\ noExportFault /\ UNCHANGED <<partialFile, exporter, exportLedger>>
       \/ /\ outputFile /\ partialFile' = "none"
          /\ exporterGoes("ensure") /\ noExportFault /\ UNCHANGED <<outputFile, exportLedger>>
       \/ exportFault /\ failWriting /\ UNCHANGED <<partialFile, outputFile>>
    /\ UNCHANGED <<sourceVars, sourceClaim, rivalClaims, appended, flushed, snapshotVars, createHandle,
                   exportInterrupted>>

ensureMigrationExportSealPhase ==
    /\ exporterAt("ensure")
    /\ IF exportPhase = "sealing" /\ exportEffect["write"] = "succeeded"
       THEN /\ withEffect("seal", effectBegun(exportEffect["seal"]))
            /\ exporterGoes("release")
       ELSE failWriting
    /\ noExportFault
    /\ UNCHANGED <<sourceVars, sourceClaim, rivalClaims, bundleFiles, snapshotVars, createHandle,
                   exportInterrupted>>

ReleaseMigrationSnapshot ==
    /\ exporterAt("release")
    /\ \/ /\ releaseSnapshot
          /\ exporterGoes("finish") /\ noExportFault /\ UNCHANGED exportLedger
       \/ exportFault /\ failWriting /\ UNCHANGED snapshotVars
    /\ UNCHANGED <<sourceVars, sourceClaim, rivalClaims, bundleFiles, createHandle,
                   exportInterrupted>>

FinishExportSeal ==
    /\ exporterAt("finish")
    /\ exportPhase' = "complete"
    /\ exportEffect' = [exportEffect EXCEPT !["seal"] = "succeeded"]
    /\ exporterGoes("drop") /\ noExportFault
    /\ UNCHANGED <<sourceVars, exportCancel, retainedPartial, ledgerCheckpoint, exportClaims, sourceClaim,
                   rivalClaims, bundleFiles, snapshotVars, createHandle, exportInterrupted>>

(* ReleaseClaims, of a finished ("drop") and of a cancelled ("yield") export. *)
ReleaseClaims ==
    /\ exporterAt("drop") \/ exporterAt("yield")
    /\ exportClaims # "released"
    /\ exportClaims' = "released" /\ noExportFault
    /\ UNCHANGED <<sourceVars, exportPhase, exportEffect, exportCancel, retainedPartial, ledgerCheckpoint,
                   sourceClaim, rivalClaims, bundleFiles, snapshotVars, createHandle,
                   exporter, exportInterrupted>>

RemoveClaimFile ==
    /\ exporterAt("drop") \/ exporterAt("yield")
    /\ exportClaims = "released"
    /\ \/ /\ sourceClaim \in {"none", "mine"}
          /\ sourceClaim' = "none" /\ noExportFault
          /\ IF exporterAt("drop") THEN exporterReturns(FALSE) ELSE exporterGoes("cancelled")
       \/ /\ sourceClaim \in {"torn", "rival"} /\ exporterFails
          /\ noExportFault /\ UNCHANGED sourceClaim
       \/ exportFault /\ exporterFails /\ UNCHANGED sourceClaim
    /\ UNCHANGED <<sourceVars, exportLedger, rivalClaims, bundleFiles, snapshotVars, createHandle,
                   exportInterrupted>>

-----------------------------------------------------------------------------
(* FinalizeExportCancellation and RemoveRetainedExportPartial. *)

(* A plausible slip: a published bundle does not stop the cancellation. *)
FinalizePublished ==
    /\ exporterAt("finalize")
    /\ \/ exportPhase = "cancelled" /\ exporterReturns(FALSE) /\ UNCHANGED exportLedger
       \/ exportPhase = "recoverable" /\ toPhase("cancelling") /\ UNCHANGED exporter
       \/ exportPhase = "cancelling" /\ exporterGoes("scrap") /\ UNCHANGED exportLedger
    /\ noExportFault
    /\ UNCHANGED <<sourceVars, sourceClaim, rivalClaims, bundleFiles, snapshotVars,
                   createHandle, exportInterrupted>>

FinalizeExportCancellation ==
    /\ exporterAt("finalize")
    /\ \/ exportPhase = "cancelled" /\ exporterReturns(FALSE) /\ UNCHANGED exportLedger
       \/ exportPhase = "recoverable" /\ toPhase("cancelling") /\ UNCHANGED exporter
       \/ /\ exportPhase = "cancelling" /\ UNCHANGED exportLedger
          /\ IF outputFile THEN exporterFails ELSE exporterGoes("scrap")
    /\ noExportFault
    /\ UNCHANGED <<sourceVars, sourceClaim, rivalClaims, bundleFiles, snapshotVars, createHandle,
                   exportInterrupted>>

(* A partial without a header is refused, whatever the operator chose. *)
cancelMigrationExportPartial ==
    /\ exporterAt("scrap") \/ exporterAt("remove")
    /\ LET retain == exporterAt("scrap") /\ exportCancel = "retain"
       IN \/ /\ partialFile # "empty"
             /\ partialFile' = (IF retain THEN partialFile ELSE "none")
             /\ exporterGoes(IF exporterAt("scrap") THEN "unfreeze" ELSE "retire")
             /\ noExportFault
          \/ partialFile = "empty" /\ exporterFails /\ noExportFault /\ UNCHANGED partialFile
          \/ exportFault /\ exporterFails /\ UNCHANGED partialFile
    /\ UNCHANGED <<sourceVars, exportLedger, sourceClaim, rivalClaims, appended, flushed, outputFile,
                   snapshotVars, createHandle, exportInterrupted>>

(* A snapshot that was begun and never proved has no handle to release. *)
releaseCancelledMigrationSnapshot ==
    /\ exporterAt("unfreeze")
    /\ \/ /\ exportEffect["snapshot"] = "pending"
          /\ exporterGoes("yield") /\ noExportFault /\ UNCHANGED snapshotVars
       \/ /\ exportEffect["snapshot"] = "running"
          /\ exporterFails /\ noExportFault /\ UNCHANGED snapshotVars
       \/ /\ exportEffect["snapshot"] = "succeeded"
          /\ \/ releaseSnapshot /\ exporterGoes("yield") /\ noExportFault
             \/ exportFault /\ exporterFails /\ UNCHANGED snapshotVars
    /\ UNCHANGED <<sourceVars, exportLedger, sourceClaim, rivalClaims, bundleFiles, createHandle,
                   exportInterrupted>>

(* The retained bytes are recorded, then the phase. *)
RecordRetainedPartial ==
    /\ exporterAt("cancelled")
    /\ retainedPartial' = (partialFile # "none")
    /\ exporterGoes("conclude") /\ noExportFault
    /\ UNCHANGED <<sourceVars, exportPhase, exportEffect, exportCancel, ledgerCheckpoint, exportClaims,
                   sourceClaim, rivalClaims, bundleFiles, snapshotVars, createHandle,
                   exportInterrupted>>

ConcludeCancellation ==
    /\ exporterAt("conclude")
    /\ toPhase("cancelled") /\ exporterReturns(FALSE) /\ noExportFault
    /\ UNCHANGED <<sourceVars, sourceClaim, rivalClaims, bundleFiles, snapshotVars, createHandle,
                   exportInterrupted>>

CompleteRetainedExportPartialRemoval ==
    /\ exporterAt("retire")
    /\ retainedPartial' = FALSE
    /\ exporterReturns(FALSE) /\ noExportFault
    /\ UNCHANGED <<sourceVars, exportPhase, exportEffect, exportCancel, ledgerCheckpoint, exportClaims,
                   sourceClaim, rivalClaims, bundleFiles, snapshotVars, createHandle,
                   exportInterrupted>>

-----------------------------------------------------------------------------
(* The daemon's worker set. *)

exportRunning == exporter.run # "none"

startExporter(run, step, purpose) ==
    exporter' = [run |-> run, at |-> step, purpose |-> purpose, failed |-> FALSE]

(* After the run function: finish a cancellation that arrived meanwhile. *)
AfterExportRun ==
    /\ exporterAt("returned")
    /\ IF exportCancel # "none" /\ exportPhase \in {"cancelling", "recoverable"}
       THEN startExporter("after", "finalize", exporter.purpose)
       ELSE exporterGoes("tail")
    /\ noExportFault
    /\ UNCHANGED <<sourceVars, exportLedger, sourceClaim, rivalClaims, bundleFiles, snapshotVars,
                   createHandle, exportInterrupted>>

(* Publish the terminal evidence; a failure leaves the operation recoverable *)
(* unless it is terminal.                                                     *)
markRecoverable ==
    /\ exporterAt("tail")
    /\ \/ noExportFault /\ IF exporter.failed
                           THEN toPhase(phaseAttempt("export", exportPhase, "recoverable"))
                           ELSE UNCHANGED exportLedger
       \/ exportFault /\ toPhase(phaseAttempt("export", exportPhase, "recoverable"))
    /\ exporterGoes("exit")
    /\ UNCHANGED <<sourceVars, sourceClaim, rivalClaims, bundleFiles, snapshotVars, createHandle,
                   exportInterrupted>>

ExitExporter ==
    /\ exporterAt("exit")
    /\ exporter' = NoExporter /\ exportInterrupted' = FALSE
    /\ UNCHANGED <<sourceVars, exportLedger, sourceClaim, rivalClaims, bundleFiles, snapshotVars,
                   createHandle, exportSpent>>

exportRecovery ==
    migrationRecoveryForState("export", exportPhase, "none", exportCancel # "none",
                              retainedPartial)

(* The apply request, and each replay of it. *)
StartExport ==
    /\ ~exportRunning /\ exportPhase \notin migrationPhaseTerminal \cup {"none"}
    /\ startExporter("export", "claim", "create")
    /\ UNCHANGED <<sourceVars, exportLedger, sourceClaim, rivalClaims, bundleFiles, snapshotVars,
                   createHandle, exportInterrupted, exportSpent>>

(* A resume needs a handle bound to the output or to a partial with a header. *)
ResumeExport ==
    /\ ~exportRunning /\ exportRecovery = "resume"
    /\ outputFile \/ partialFile \in {"open", "sealed"}
    /\ startExporter("export", "claim", "resume")
    /\ UNCHANGED <<sourceVars, exportLedger, sourceClaim, rivalClaims, bundleFiles, snapshotVars,
                   createHandle, exportInterrupted, exportSpent>>

(* RequestCancellation, then the running worker's context or a worker whose  *)
(* run function does nothing.                                                *)
CancelExport ==
    /\ CancelRequests
    /\ exportCancel = "none"
    /\ migrationPhaseTransitionAllowed("export", exportPhase, "cancelling")
    /\ exportCancel' \in {"retain", "remove"}
    /\ exportPhase' = "cancelling"
    /\ IF exportRunning THEN exportInterrupted' = TRUE /\ UNCHANGED exporter
       ELSE startExporter("none-to-do", "returned", "none") /\ UNCHANGED exportInterrupted
    /\ UNCHANGED <<sourceVars, exportEffect, retainedPartial, ledgerCheckpoint, exportClaims, sourceClaim,
                   rivalClaims, bundleFiles, snapshotVars, createHandle, exportSpent>>

RecoverExport ==
    /\ ~exportRunning /\ exportRecovery = "remove-partial"
    /\ startExporter("recover", IF exportPhase = "cancelled" THEN "remove" ELSE "finalize",
                     "none")
    /\ UNCHANGED <<sourceVars, exportLedger, sourceClaim, rivalClaims, bundleFiles, snapshotVars,
                   createHandle, exportInterrupted, exportSpent>>

(* A crash keeps the synced part of the files, may tear what is being        *)
(* written, and ends every memory-only handle; ReconcileStartup finishes a   *)
(* cancellation, lets a recoverable operation be and makes the others so.    *)
ReconcileStartup ==
    /\ exportSpent.crashes < MaxExportCrashes
    /\ exportSpent' = [exportSpent EXCEPT !.crashes = @ + 1]
    /\ createHandle' = FALSE /\ exportInterrupted' = FALSE
    /\ appended' \in flushed..appended
    /\ sourceClaim' \in IF exporterAt("claim") /\ exportPhase = "claiming" /\ ~claimConflict
                        THEN {sourceClaim, "torn"} ELSE {sourceClaim}
    /\ LET cancelling == exportPhase \notin migrationPhaseTerminal /\ exportCancel # "none"
       IN /\ IF cancelling THEN startExporter("none-to-do", "returned", "none")
             ELSE exporter' = NoExporter
          /\ toPhase(IF cancelling THEN exportPhase
                     ELSE phaseAttempt("export", exportPhase, "recoverable"))
    /\ UNCHANGED <<sourceVars, rivalClaims, partialFile, flushed, outputFile, snapshotVars>>

-----------------------------------------------------------------------------

ExporterStep ==
    \/ writeClaimExclusive \/ AcquireClaims \/ SkipClaims
    \/ EnterSnapshotting \/ revalidateExportOperation \/ SnapshotMigrationSource
    \/ prepareMigrationSnapshotOwner \/ materializeMigrationSnapshotEntry \/ attestSnapshot
    \/ FinishSnapshotEffect \/ EnterWriting \/ prepareMigrationExport
    \/ inspectMigrationExportArtifactPaths \/ ConsumeSecretInput
    \/ writeFreshMigrationExport \/ resumeMigrationExport
    \/ writeMigrationExportSecret \/ writeMigrationExportProfileState
    \/ writeExportProfile \/ writeMigrationExportDisk \/ syncComponent \/ updateMigrationExportProgress
    \/ FinishWriteEffect \/ EnterSealing \/ SealBundle \/ publishMigrationExportFile
    \/ ensureMigrationExportSealPhase \/ ReleaseMigrationSnapshot \/ FinishExportSeal
    \/ ReleaseClaims \/ RemoveClaimFile
    \/ FinalizeExportCancellation \/ cancelMigrationExportPartial
    \/ releaseCancelledMigrationSnapshot \/ RecordRetainedPartial \/ ConcludeCancellation
    \/ CompleteRetainedExportPartialRemoval
    \/ AfterExportRun \/ markRecoverable \/ ExitExporter

ExportNext ==
    \/ SourceChanges \/ PlanExport \/ ApplyExport
    \/ ExporterStep
    \/ RivalAcquires \/ RivalReleases
    \/ StartExport \/ ResumeExport \/ CancelExport \/ RecoverExport
    \/ ReconcileStartup

ExportSpec == ExportInit /\ [][ExportNext]_exportVars

(* The worker goroutine runs on, and an operator who is told to resume does. *)
ExportFairSpec ==
    ExportSpec /\ WF_exportVars(ExporterStep) /\ SF_exportVars(ResumeExport)

-----------------------------------------------------------------------------

(* A terminal export says what happened: a complete one left a published     *)
(* bundle, no provider snapshot and every effect succeeded; a cancelled one  *)
(* left no bundle, no snapshot and no claim, and a partial only while its    *)
(* record offers to remove one.                                              *)
ExportOutcomeIsTrue ==
    /\ exportPhase = "complete" =>
          /\ outputFile /\ sourceSnapshot = "none"
          /\ \A e \in ExportEffects : exportEffect[e] = "succeeded"
    /\ exportPhase = "cancelled" =>
          /\ ~outputFile /\ sourceSnapshot = "none" /\ exportClaims = "released"
          /\ partialFile # "none" => retainedPartial

(* A resume can go on where the ledger says: the checkpoint it records is on *)
(* disk in the partial, and until the bundle is published or given up the    *)
(* provider keeps a snapshot, taken from the source the operator confirmed.  *)
ResumePointIsDurable ==
    /\ ledgerCheckpoint <= flushed
    /\ exportEffect["snapshot"] = "succeeded" /\ ~outputFile /\ exportCancel = "none"
          => sourceSnapshot = "complete" /\ clones = {plannedSource}

(* Two operations never hold the same source in their ledgers. *)
OneDurableHolder == ~(exportClaims = "held" /\ rivalClaims = "held")

(* A published bundle's operation completes: "a replay may authenticate the  *)
(* exclusive output and converge on the same binding".                       *)
PublishedExportConverges == outputFile ~> exportPhase = "complete"
=============================================================================

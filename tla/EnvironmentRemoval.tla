------------------------- MODULE EnvironmentRemoval -------------------------
(* The removal of one environment: `hideout clean`, `hideout env delete`, the *)
(* end of a --rm run, and their recovery after a daemon restart               *)
(* (manager/disposable_recovery.go, daemon/disposable_recovery.go,            *)
(* daemon/lifecycle.go and the disposal operations of the coordinator).       *)
(* Every step that writes a file, calls the backend or changes the intent is  *)
(* an action; the daemon may crash between any two of them, any of them may   *)
(* fail, and a backend observation may be wrong.                              *)
EXTENDS Naturals

CONSTANTS
    MaxRemovalFaults,    \* file, backend and gateway operations that fail
    MaxRemovalCrashes,   \* daemon crashes
    MaxRemovalGlitches   \* observations that differ from the instance

\* A bound, which is spent one observation at a time.
ASSUME RemovalAssumption == MaxRemovalGlitches \in Nat

Residue == {"owners", "runtime", "gateway", "activity"}
NoIntent == [authority |-> "none", state |-> "none"]
NoWorker == [kind |-> "none", at |-> "idle", phase |-> "none"]

VARIABLES
    recordFile,     \* the environment record: a status, or "gone"
    disposable,     \* the record's --rm mark
    intent,         \* the disposal intent in the coordinator's memory
    intentFile,     \* the disposal intent in the lifecycle journal
    instance,       \* the machine: "running", "stopped" or "absent"
    residue,        \* what the environment still owns beside record and machine
    attached,       \* a session's live owner and lifecycle handle
    remover,        \* the worker that holds the environment lock or the lease
    serving,        \* the daemon: "up", "starting" (not yet recovered) or "down"
    removalSpent    \* faults, crashes and glitches used

removalVars == <<recordFile, disposable, intent, intentFile, instance, residue,
                 attached, remover, serving, removalSpent>>

RemovalInit ==
    /\ recordFile \in {"ready", "running"}
    /\ disposable \in BOOLEAN
    /\ attached = (recordFile = "running")
    /\ intent = NoIntent /\ intentFile = NoIntent
    /\ instance = IF attached THEN "running" ELSE "stopped"
    /\ residue = Residue
    /\ remover = NoWorker
    /\ serving = "up"
    /\ removalSpent = [faults |-> 0, crashes |-> 0, glitches |-> 0]

spendRemoval(what, bound) ==
    /\ removalSpent[what] < bound
    /\ removalSpent' = [removalSpent EXCEPT ![what] = @ + 1]

removalFault == spendRemoval("faults", MaxRemovalFaults)
freely == UNCHANGED removalSpent

at(step) == serving # "down" /\ remover.at = step
goTo(step) == remover' = [remover EXCEPT !.at = step]
missing == remover.kind = "missing"

-----------------------------------------------------------------------------
(* The coordinator's part. *)

(* A failure records the blocked intent, in memory always and in the journal *)
(* unless that write fails too, and gives the mutation lease back.           *)
BlockDisposal ==
    /\ intent' = [intent EXCEPT !.state = "blocked"]
    /\ intentFile' \in {intent', intentFile}
    /\ remover' = NoWorker

authorityOf(kind) ==
    CASE kind = "missing" -> intentFile.authority
      [] kind = "ordinary" -> "run-rm"
      [] OTHER -> kind

(* A new intent is planned; one with the same identity resumes where it was, *)
(* a blocked one from the start.                                             *)
removalBegun(authority) ==
    [authority |-> authority,
     state |-> IF intent.state \in {"none", "blocked"} THEN "planned" ELSE intent.state]

(* A removal that goes on when its intent was not written. *)
ForgetfulBeginDisposal ==
    LET authority == authorityOf(remover.kind)
        refused == attached \/ intent.authority \notin {"none", authority}
    IN  /\ at("begin")
        /\ \/ refused /\ freely /\ remover' = NoWorker /\ UNCHANGED <<intent, intentFile>>
           \/ /\ ~refused
              /\ intent' = removalBegun(authority)
              /\ \/ freely /\ intentFile' = removalBegun(authority)
                 \/ removalFault /\ UNCHANGED intentFile
              /\ remover' = [remover EXCEPT !.at = IF missing THEN "sample1" ELSE "mark",
                                            !.phase = removalBegun(authority).state]
        /\ UNCHANGED <<recordFile, disposable, instance, residue, attached, serving>>

(* proveRemovalOwnersNotLive and BeginDisposal.  Both refuse without a trace; *)
(* a journal write that fails leaves the intent in memory only.               *)
BeginDisposal ==
    LET authority == authorityOf(remover.kind)
        refused == attached \/ intent.authority \notin {"none", authority}
    IN  /\ at("begin")
        /\ \/ refused /\ freely /\ remover' = NoWorker /\ UNCHANGED <<intent, intentFile>>
           \/ /\ ~refused /\ freely
              /\ intent' = removalBegun(authority) /\ intentFile' = removalBegun(authority)
              /\ remover' = [remover EXCEPT !.at = IF missing THEN "sample1" ELSE "mark",
                                            !.phase = removalBegun(authority).state]
           \/ /\ ~refused /\ removalFault
              /\ intent' = removalBegun(authority) /\ UNCHANGED intentFile
              /\ remover' = NoWorker
        /\ UNCHANGED <<recordFile, disposable, instance, residue, attached, serving>>

(* The state advances in memory before it is written, and a failed write     *)
(* blocks the removal.                                                       *)
AdvanceDisposal(from, state, next) ==
    /\ \/ /\ remover.phase # from /\ freely
          /\ goTo(next) /\ UNCHANGED <<intent, intentFile>>
       \/ /\ remover.phase = from /\ freely
          /\ intent' = [intent EXCEPT !.state = state]
          /\ intentFile' = intent'
          /\ remover' = [remover EXCEPT !.at = next, !.phase = state]
       \/ remover.phase = from /\ removalFault /\ BlockDisposal
    /\ UNCHANGED <<recordFile, disposable, instance, residue, attached, serving>>

-----------------------------------------------------------------------------
(* The worker's steps, in the order of recoverEnvironmentRemovalLocked.  The *)
(* recovery of an intent whose record is gone takes the same ones, except    *)
(* that it never marks, cleans up or removes.                                *)

(* The record is marked as an error before anything is destroyed. *)
MarkRecord ==
    /\ at("mark")
    /\ \/ freely /\ recordFile' = "error" /\ goTo("observe") /\ UNCHANGED <<intent, intentFile>>
       \/ removalFault /\ BlockDisposal /\ UNCHANGED recordFile
    /\ UNCHANGED <<disposable, instance, residue, attached, serving>>

(* A sample of the backend inventory, which may be wrong or unusable. *)
sampled(seen) ==
    \/ seen = instance /\ freely
    \/ seen \in {"absent", "unknown"} \ {instance}
       /\ spendRemoval("glitches", MaxRemovalGlitches)

ObserveInstance ==
    /\ at("observe")
    /\ \E seen \in {"running", "stopped", "absent", "unknown"} :
        /\ sampled(seen)
        /\ \/ seen = "absent" /\ goTo("sample1") /\ UNCHANGED <<intent, intentFile>>
           \/ /\ seen \in {"running", "stopped"} /\ remover.phase = "planned"
              /\ goTo("cleanup") /\ UNCHANGED <<intent, intentFile>>
           \/ /\ seen = "unknown" \/ (seen # "absent" /\ remover.phase # "planned")
              /\ BlockDisposal
    /\ UNCHANGED <<recordFile, disposable, instance, residue, attached, serving>>

(* Backend.Cleanup destroys the instance; when it fails, or returns early,   *)
(* the instance is in any state.                                             *)
CleanupInstance ==
    /\ at("cleanup")
    /\ \/ freely /\ instance' = "absent" /\ goTo("sample1") /\ UNCHANGED <<intent, intentFile>>
       \/ /\ removalFault /\ instance' \in {instance, "stopped", "absent"}
          /\ \/ goTo("sample1") /\ UNCHANGED <<intent, intentFile>>
             \/ BlockDisposal
    /\ UNCHANGED <<recordFile, disposable, residue, attached, serving>>

observeAbsence(next) ==
    /\ \E seen \in {"running", "stopped", "absent", "unknown"} :
        /\ sampled(seen)
        /\ \/ seen = "absent" /\ goTo(next) /\ UNCHANGED <<intent, intentFile>>
           \/ seen # "absent" /\ BlockDisposal
    /\ UNCHANGED <<recordFile, disposable, instance, residue, attached, serving>>

observeAbsenceOnce ==
    at("sample1") /\ observeAbsence("absent")

observeDisposableAbsenceTwice ==
    \/ at("sample1") /\ observeAbsence("sample2")
    \/ at("sample2") /\ observeAbsence("absent")

RecordBackendAbsent ==
    at("absent") /\ AdvanceDisposal("planned", "backend-absent", "owners")

(* One clean-up: what it removes, and what follows it. *)
clean(what, next) ==
    /\ \/ freely /\ residue' = residue \ {what} /\ goTo(next) /\ UNCHANGED <<intent, intentFile>>
       \/ removalFault /\ residue' \in {residue, residue \ {what}} /\ BlockDisposal
    /\ UNCHANGED <<recordFile, disposable, instance, attached, serving>>

ClearOwners == at("owners") /\ clean("owners", "runtime")
ClearRuntime == at("runtime") /\ clean("runtime", "gateway")
closeDisposableGateway == at("gateway") /\ clean("gateway", "activity")

(* The ordinary end of a --rm run passes no activity clean-up: the session's *)
(* worker removes that activity when it finishes (FinishSession).            *)
cleanupEnvironmentRemovalActivity ==
    /\ at("activity")
    /\ \/ remover.kind # "ordinary" /\ clean("activity", "metadata")
       \/ /\ remover.kind = "ordinary" /\ freely /\ goTo("metadata")
          /\ UNCHANGED <<recordFile, disposable, intent, intentFile, instance, residue,
                         attached, serving>>

RecordMetadataCleaning ==
    /\ at("metadata")
    /\ AdvanceDisposal("backend-absent", "metadata-cleaning",
                       IF missing THEN "complete" ELSE "remove")

(* The record goes before the intent that authorises its removal. *)
RemoveRecord ==
    /\ at("remove")
    /\ \/ freely /\ recordFile' = "gone" /\ goTo("complete") /\ UNCHANGED <<intent, intentFile>>
       \/ removalFault /\ recordFile' \in {recordFile, "gone"} /\ BlockDisposal
    /\ UNCHANGED <<disposable, instance, residue, attached, serving>>

(* The journal goes last.  When that fails the record's remover leaves the   *)
(* intent as it was and a missing record's recovery blocks it.               *)
CompleteDisposalMetadata ==
    /\ at("complete")
    /\ \/ /\ freely /\ intent' = NoIntent /\ intentFile' = NoIntent
          /\ remover' = IF remover.kind = "ordinary"
                        THEN [NoWorker EXCEPT !.kind = "session", !.at = "finish"]
                        ELSE NoWorker
       \/ removalFault /\ ~missing /\ remover' = NoWorker /\ UNCHANGED <<intent, intentFile>>
       \/ removalFault /\ missing /\ BlockDisposal
    /\ UNCHANGED <<recordFile, disposable, instance, residue, attached, serving>>

(* sessionRegistry.finish removes the activity of a disposable session; an   *)
(* error is only reported.                                                   *)
FinishSession ==
    /\ at("finish")
    /\ \/ freely /\ residue' = residue \ {"activity"}
       \/ removalFault /\ UNCHANGED residue
    /\ remover' = NoWorker
    /\ UNCHANGED <<recordFile, disposable, intent, intentFile, instance, attached, serving>>

-----------------------------------------------------------------------------
(* What starts a removal. *)

idleRemover == serving = "up" /\ remover = NoWorker
start(kind) == remover' = [NoWorker EXCEPT !.kind = kind, !.at = "begin"]

(* `hideout clean`: the plan's target must still match the record. *)
applyEnvironmentCleanPlan ==
    /\ idleRemover /\ recordFile # "gone" /\ freely
    /\ start("environment-clean")
    /\ UNCHANGED <<recordFile, disposable, intent, intentFile, instance, residue, attached,
                   serving>>

(* `hideout env delete`: a running environment only by force, which cancels  *)
(* the sessions and stops the machine first.                                 *)
applyEnvironmentDeletePlan ==
    /\ idleRemover /\ recordFile # "gone" /\ freely
    /\ \E force \in BOOLEAN :
        /\ recordFile = "running" => force
        /\ attached' = (attached /\ ~force)
        /\ instance' = IF force /\ recordFile = "running" /\ instance = "running"
                       THEN "stopped" ELSE instance
        /\ recordFile' = IF force /\ recordFile = "running" THEN "stopped" ELSE recordFile
    /\ start("environment-delete")
    /\ UNCHANGED <<disposable, intent, intentFile, residue, serving>>

(* The session ends: a reusable environment is ready again, a disposable one *)
(* is removed by the run that made it.                                       *)
finishConcurrentRunEnvironment ==
    /\ idleRemover /\ attached /\ freely
    /\ attached' = FALSE
    /\ \/ disposable /\ start("ordinary") /\ UNCHANGED recordFile
       \/ ~disposable /\ recordFile' = "ready" /\ UNCHANGED remover
    /\ UNCHANGED <<disposable, intent, intentFile, instance, residue, serving>>

(* The daemon dies: gateways and sessions end with it, files and the machine *)
(* stay.                                                                     *)
CrashDaemon ==
    /\ serving # "down" /\ spendRemoval("crashes", MaxRemovalCrashes)
    /\ serving' = "down"
    /\ attached' = FALSE /\ remover' = NoWorker /\ intent' = NoIntent
    /\ residue' = residue \ {"gateway"}
    /\ UNCHANGED <<recordFile, disposable, intentFile, instance>>

StartDaemon ==
    /\ serving = "down" /\ freely
    /\ serving' = "starting" /\ intent' = intentFile
    /\ UNCHANGED <<recordFile, disposable, intentFile, instance, residue, attached, remover>>

(* recoverPendingEnvironmentRemoval: the intent's authority decides who      *)
(* removes, and a disposable record without an intent is removed as well.    *)
recoverPendingEnvironmentRemoval ==
    /\ serving = "starting" /\ remover = NoWorker /\ freely
    /\ serving' = "up"
    /\ recordFile # "gone"
    /\ \/ intentFile.authority \in {"environment-clean", "environment-delete"}
          /\ start(intentFile.authority)
       \/ intentFile.authority \in {"run-rm", "none"} /\ disposable /\ start("run-rm")
       \/ intentFile = NoIntent /\ ~disposable /\ UNCHANGED remover
    /\ UNCHANGED <<recordFile, disposable, intent, intentFile, instance, residue, attached>>

(* A journal without a record: its intent authorises convergence only. *)
recoverMissingDisposableIntent ==
    /\ serving = "starting" /\ remover = NoWorker /\ freely
    /\ serving' = "up"
    /\ recordFile = "gone"
    /\ \/ intentFile # NoIntent /\ start("missing")
       \/ intentFile = NoIntent /\ UNCHANGED remover
    /\ UNCHANGED <<recordFile, disposable, intent, intentFile, instance, residue, attached>>

RemovalNext ==
    \/ BeginDisposal \/ MarkRecord \/ ObserveInstance \/ CleanupInstance
    \/ observeDisposableAbsenceTwice \/ RecordBackendAbsent
    \/ ClearOwners \/ ClearRuntime \/ closeDisposableGateway
    \/ cleanupEnvironmentRemovalActivity \/ RecordMetadataCleaning
    \/ RemoveRecord \/ CompleteDisposalMetadata \/ FinishSession
    \/ applyEnvironmentCleanPlan \/ applyEnvironmentDeletePlan
    \/ finishConcurrentRunEnvironment
    \/ CrashDaemon \/ StartDaemon
    \/ recoverPendingEnvironmentRemoval \/ recoverMissingDisposableIntent

RemovalSpec == RemovalInit /\ [][RemovalNext]_removalVars
-----------------------------------------------------------------------------
(* Once an environment's record and its disposal intent are both gone,       *)
(* nothing can find what it owned any more; so by then the machine, the      *)
(* owners and the runtime files are gone, and so is the activity unless the  *)
(* run that made a disposable environment still has to remove it.            *)
NothingIsOrphaned ==
    (recordFile = "gone" /\ intentFile = NoIntent)
        => /\ instance = "absent"
           /\ residue \subseteq IF disposable THEN {"activity"} ELSE {}

(* A machine is destroyed only under an intent that is already in the        *)
(* journal and still planned: a crash at any point leaves the authority by   *)
(* which the restart goes on.                                                *)
DestructionIsAuthorized ==
    [][(instance' = "absent" /\ instance # "absent")
        => intentFile # NoIntent /\ intentFile.state = "planned"]_removalVars
=============================================================================

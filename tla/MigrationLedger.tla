--------------------------- MODULE MigrationLedger ---------------------------
(* The rules of the durable migration operation that exports and imports      *)
(* share: which phase may follow which, which effect statuses may follow      *)
(* which, and what recovery the record advertises                             *)
(* (manager/migration_operation.go, migration_store.go).                      *)
EXTENDS Naturals

migrationExecutionExit == {"cancelling", "recoverable", "failed"}

migrationPhaseTerminal == {"complete", "cancelled", "failed", "rolled-back"}

exportPhases == {"snapshotting", "writing", "sealing"}
importPhases == {"materializing", "preparing-secrets", "adopting", "verifying",
                 "committing", "rolling-back"}

(* The phases an operation of this kind may enter from a phase. *)
migrationPhaseTransitionAllowed(kind, from, to) ==
    to \in CASE from = "claiming" ->
                  {IF kind = "export" THEN "snapshotting" ELSE "materializing"}
                    \cup migrationExecutionExit
             [] from = "snapshotting" -> {"writing"} \cup migrationExecutionExit
             [] from = "writing" -> {"sealing"} \cup migrationExecutionExit
             [] from = "sealing" -> {"complete", "recoverable", "failed"}
             [] from = "materializing" -> {"preparing-secrets"} \cup migrationExecutionExit
             [] from = "preparing-secrets" -> {"adopting"} \cup migrationExecutionExit
             [] from = "adopting" -> {"verifying"} \cup migrationExecutionExit
             [] from = "verifying" ->
                  {"committing", "rolling-back"} \cup migrationExecutionExit
             [] from = "committing" -> {"complete", "recoverable", "failed"}
             [] from = "cancelling" ->
                  {IF kind = "export" THEN "cancelled" ELSE "rolling-back", "recoverable"}
             [] from = "rolling-back" -> {"rolled-back", "recoverable", "failed"}
             [] from = "recoverable" ->
                  {"failed", "cancelling"}
                    \cup (IF kind = "export" THEN exportPhases ELSE importPhases)
             [] OTHER -> {}

(* TransitionPhase refuses everything but the current phase and a successor. *)
phaseRefused(kind, from, to) ==
    from # to /\ ~migrationPhaseTransitionAllowed(kind, from, to)

(* The phase after a transition whose error is dropped. *)
phaseAttempt(kind, from, to) == IF phaseRefused(kind, from, to) THEN from ELSE to

migrationRecoveryForState(kind, phase, decision, cancelled, retained) ==
    CASE phase = "cancelled" /\ retained -> "remove-partial"
      [] phase # "recoverable" -> "none"
      [] kind = "export" /\ cancelled -> "remove-partial"
      [] kind = "import" /\ decision = "commit" -> "finish"
      [] kind = "import" /\ (cancelled \/ decision = "rollback") -> "rollback"
      [] OTHER -> "resume"

(* BeginEffect starts a pending effect, BeginEffectCompensation undoes one  *)
(* that was started; both leave every other status alone.                   *)
effectBegun(status) == IF status = "pending" THEN "running" ELSE status

compensationBegun(status) ==
    IF status \in {"running", "succeeded", "failed", "unproved"} THEN "compensating" ELSE status

migrationEffectTransitionAllowed(from, to) ==
    \/ from = "running" /\ to \in {"succeeded", "failed", "unproved"}
    \/ from = "compensating" /\ to \in {"compensated", "unproved"}
=============================================================================

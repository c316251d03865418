--------------------------- MODULE OperationLedger ---------------------------
(***************************************************************************)
(* One record of the Manager's operation ledger and what the calls of      *)
(* OperationStore and OperationService do to it                            *)
(* (internal/manager/operation.go, operation_store.go and                  *)
(* operation_service.go).  A record has a phase, the status of every       *)
(* effect, whether the effect has evidence, and the code of its recovery   *)
(* hint.  Every call loads the record, decides and replaces the file under *)
(* the lock of the operation, so each is one step of the modules that use  *)
(* these operators.                                                        *)
(***************************************************************************)
EXTENDS Naturals, FiniteSets

TerminalPhases == {"succeeded", "failed", "cancelled", "rolled-back", "rollback-unproved"}

Phases == TerminalPhases \cup
  {"planned", "claimed", "staging", "activating", "proving", "rolling-back", "recovery-required"}

EffectStatus == {"pending", "running", "succeeded", "failed", "rolled-back", "unproved"}

RecoveryCodes == {"retry-operation", "provider", "startup", "operation-terminal"}

Terminal(op) == op.phase \in TerminalPhases

\* The phases that may follow a phase.
successors(from) ==
  CASE from = "planned" -> {"claimed", "cancelled"}
    [] from = "claimed" -> {"staging", "activating", "failed", "cancelled", "recovery-required"}
    [] from = "staging" ->
         {"activating", "proving", "succeeded", "rolling-back", "failed", "recovery-required"}
    [] from = "activating" ->
         {"proving", "succeeded", "rolling-back", "failed", "recovery-required"}
    [] from = "proving" -> {"succeeded", "rolling-back", "failed", "recovery-required"}
    [] from = "rolling-back" -> {"rolled-back", "rollback-unproved", "recovery-required"}
    [] from = "recovery-required" -> {"proving", "rolling-back", "failed", "cancelled"}
    [] OTHER -> {}

operationTransitionAllowed(from, to) == from = to \/ to \in successors(from)

\* Reserve: a record with every effect pending.
reserved(effects) ==
  [phase |-> "planned", effect |-> [e \in effects |-> "pending"],
   evidence |-> [e \in effects |-> FALSE], recovery |-> "retry-operation"]

\* TransitionIfChanged to an allowed phase.
transitioned(op, next) ==
  IF op.phase = next THEN op
  ELSE [op EXCEPT !.phase = next,
                  !.recovery = IF next \in TerminalPhases THEN "operation-terminal" ELSE @]

\* updateRecovery: a terminal record stays as it is.
updateRecovery(op, code, require) ==
  IF Terminal(op) THEN op
  ELSE [op EXCEPT !.recovery = code, !.phase = IF require THEN "recovery-required" ELSE @]

mayUpdateRecovery(op, require) ==
  Terminal(op) \/ ~require \/ operationTransitionAllowed(op.phase, "recovery-required")

\* BeginEffect answers execute only for a pending effect.
executes(op, e) == ~Terminal(op) /\ op.effect[e] = "pending"

begun(op, e) == IF executes(op, e) THEN [op EXCEPT !.effect[e] = "running"] ELSE op

operationEffectTransitionAllowed(from, to) ==
  from = "running" \/ (from = "succeeded" /\ to \in {"rolled-back", "unproved"})

mayFinish(op, e, status) == operationEffectTransitionAllowed(op.effect[e], status)

\* FinishEffect with evidence.
finished(op, e, status) ==
  [op EXCEPT !.effect[e] = status, !.evidence[e] = TRUE]

\* What Terminal wants of the effects before it changes the phase.
validateOperationTerminalEvidence(op, phase) ==
  LET some(status) == \E e \in DOMAIN op.effect : op.effect[e] = status /\ op.evidence[e]
  IN  \/ phase = "cancelled"
      \/ /\ phase = "succeeded" /\ DOMAIN op.effect # {}
         /\ \A e \in DOMAIN op.effect : op.effect[e] = "succeeded" /\ op.evidence[e]
      \/ phase = "failed" /\ some("failed")
      \/ phase = "rolled-back" /\ some("rolled-back")
      \/ phase = "rollback-unproved" /\ some("unproved")

\* A terminal phase is set when the evidence and the phase allow it.
mayTerminate(op, phase) ==
  /\ Terminal(op) \/ validateOperationTerminalEvidence(op, phase)
  /\ operationTransitionAllowed(op.phase, phase)

operationEffectStatusPresent(op, status) == \E e \in DOMAIN op.effect : op.effect[e] = status

hasProviderRecovery(op) == op.recovery # "retry-operation"

====

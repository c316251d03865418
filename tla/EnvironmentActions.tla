------------------------- MODULE EnvironmentActions -------------------------
(***************************************************************************)
(* Stop, clean and delete of environments as durable operations: Prepare   *)
(* and Apply of EnvironmentActionService                                   *)
(* (internal/manager/environment_operation.go) over the operation ledger,  *)
(* the executors and the prover of the daemon                              *)
(* (internal/daemon/lifecycle.go), the retention of the ledger             *)
(* (pruneUnlocked), and the recovery of accepted operations when the       *)
(* daemon starts (internal/daemon/operation_recovery.go).                  *)
(*                                                                         *)
(* Apply and ReconcileOperation hold the apply lock of their operation, so *)
(* there is one actor per operation; pc is where it is.  Every call of the *)
(* ledger is one step and may fail; the daemon may stop between any two.   *)
(***************************************************************************)
EXTENDS OperationLedger, Sequences, Functions

CONSTANTS Envs,        \* environments, numbered in the order of a plan
          Ids,         \* operation identities, numbered in the order of their names
          MaxRecords,  \* retention limit of the ledger
          MaxCrashes,  \* bound: stops of the daemon
          MaxStarts,   \* bound: starts of an environment by a run
          Faults       \* which outcomes may happen: a subset of AllFaults

AllFaults == {"store", "executor", "prover", "owner"}

ASSUME EnvironmentActionsAssumption ==
  /\ Envs \subseteq Nat /\ IsFiniteSet(Envs) /\ Ids \subseteq Nat
  /\ MaxRecords \in Nat \ {0} /\ Faults \subseteq AllFaults

VARIABLES ops,       \* the ledger: a record for some identities
          age,       \* the identities of the ledger by UpdatedAt
          plans,     \* plan records: action, targets, skipped, written, result
          pc, todo,  \* the actor of an operation and the effects ahead of it
          exec,      \* executeTargets
          unproved,  \* proofFailed
          vm,        \* backend state of an environment
          meta,      \* status of the environment record
          boot,      \* what the starting daemon has yet to reconcile
          crashes, starts,
          ran,       \* history: executor calls per operation and target
          touched,   \* history: targets an operation changed
          accepted   \* history: operations that left the planned phase

vars == <<ops, age, plans, pc, todo, exec, unproved, vm, meta, boot, crashes, starts,
          ran, touched, accepted>>
actor == <<pc, todo, exec, unproved>>
world == <<vm, meta, starts>>
history == <<ran, touched>>

up == boot.todo = {}

Init ==
  /\ ops = <<>> /\ age = <<>> /\ plans = <<>>
  /\ pc = [o \in Ids |-> "idle"] /\ todo = [o \in Ids |-> {}]
  /\ exec = [o \in Ids |-> {}] /\ unproved = [o \in Ids |-> FALSE]
  /\ meta \in [Envs -> {"running", "stopped"}] /\ vm = meta
  /\ boot = [todo |-> {}, tried |-> FALSE] /\ crashes = 0 /\ starts = 0
  /\ ran = [o \in Ids |-> [e \in Envs |-> 0]] /\ touched = [o \in Ids |-> {}]
  /\ accepted = {}

with(f, o, value) == [x \in DOMAIN f \cup {o} |-> IF x = o THEN value ELSE f[x]]

\* Replacing the file of an operation renews its UpdatedAt.
write(o, record) ==
  /\ ops' = with(ops, o, record)
  /\ age' = IF o \in DOMAIN ops /\ record = ops[o] THEN age
            ELSE Append(SelectSeq(age, LAMBDA x : x # o), o)
  /\ accepted' = IF record.phase \in {"planned", "cancelled"} THEN accepted ELSE accepted \cup {o}

step(o, next) == pc' = [pc EXCEPT ![o] = next]

\* The terminal operations that were written before one.
olderTerminals(o) ==
  {x \in Range(age) : /\ Terminal(ops[x])
                      /\ \E i, j \in DOMAIN age : i < j /\ age[i] = x /\ age[j] = o}

\* A mutant of pruned: the oldest operations go, whatever their phase.
prunedByAge(keep) ==
  LET excess == IF Len(age) > keep THEN Len(age) - keep ELSE 0
  IN  Range(SubSeq(age, 1, excess))

\* pruneUnlocked removes the oldest terminal operations above the limit.
pruned(keep) ==
  {o \in Range(age) : Terminal(ops[o]) /\ Cardinality(olderTerminals(o)) < Len(age) - keep}

\* A mutant of room: the limit is passed by one.
roomForOne(kept) == Cardinality(kept) <= MaxRecords

\* Otherwise the store is full of nonterminal operations.
room(kept) == Cardinality(kept) < MaxRecords

\* planEnvironmentAction: what a selection of environments comes to.
planOf(action, selected) ==
  [action  |-> action,
   targets |-> IF action = "stop" THEN {e \in selected : meta[e] = "running"} ELSE selected,
   skipped |-> IF action = "stop" THEN {e \in selected : meta[e] # "running"} ELSE {},
   kept    |-> FALSE, result |-> FALSE]

effectsOf(plan) == plan.targets \cup plan.skipped

\* Prepare reserves the operation; the ledger must not be full of operations
\* that are not terminal.
Reserve(o) ==
  /\ up /\ o \notin DOMAIN ops /\ o \notin DOMAIN plans /\ pc[o] = "idle"
  /\ \A x \in Ids : x < o => x \in DOMAIN plans
  /\ \E action \in {"stop", "clean"}, selected \in (SUBSET {e \in Envs : meta[e] # "removed"}) \ {{}} :
       LET plan == planOf(action, selected)
           gone == pruned(MaxRecords - 1)
           kept == DOMAIN ops \ gone
       IN  /\ room(kept)
           /\ ops' = [x \in kept \cup {o} |-> IF x = o THEN reserved(effectsOf(plan)) ELSE ops[x]]
           /\ age' = Append(SelectSeq(age, LAMBDA x : x \in kept), o)
           /\ plans' = with(plans, o, plan)
  /\ step(o, "write")
  /\ UNCHANGED <<todo, exec, unproved, world, boot, crashes, history, accepted>>

\* writePlanRecord; when it fails the operation is cancelled.
writePlanRecord(o) ==
  /\ pc[o] = "write" /\ step(o, "idle")
  /\ \/ plans' = [plans EXCEPT ![o].kept = TRUE] /\ UNCHANGED <<ops, age, accepted>>
     \/ /\ "store" \in Faults /\ mayTerminate(ops[o], "cancelled")
        /\ write(o, transitioned(ops[o], "cancelled")) /\ UNCHANGED plans
  /\ UNCHANGED <<todo, exec, unproved, world, boot, crashes, history>>

\* Apply of the reviewed plan: a terminal operation answers what it came to.
Apply(o) ==
  /\ up /\ pc[o] = "idle" /\ o \in DOMAIN ops /\ plans[o].kept /\ ~Terminal(ops[o])
  /\ step(o, "advance")
  /\ UNCHANGED <<ops, age, plans, todo, exec, unproved, world, boot, crashes, history, accepted>>

\* ReconcileOperation: effects that are all unstarted or done are applied,
\* others are only proved.
reconcileTo(op) ==
  IF operationEffectStatusPresent(op, "pending") /\ ~operationEffectStatusPresent(op, "running")
  THEN "advance" ELSE "proveAccepted"

\* ReconcilePending, after the lifecycle of an environment was reconciled.
ReconcileOperation(o) ==
  /\ up /\ pc[o] = "idle" /\ o \in DOMAIN ops
  /\ ~Terminal(ops[o]) /\ ops[o].phase # "planned"
  /\ step(o, reconcileTo(ops[o]))
  /\ UNCHANGED <<ops, age, plans, todo, exec, unproved, world, boot, crashes, history, accepted>>

nextPhase(phase) ==
  CASE phase = "planned" -> "claimed" [] phase = "claimed" -> "staging"
    [] phase = "recovery-required" -> "proving" [] OTHER -> phase

\* The transitions at the head of applyAccepted.
acceptPhase(o) ==
  /\ pc[o] = "advance"
  /\ IF ops[o].phase \in {"staging", "proving"}
     THEN /\ step(o, "begin") /\ todo' = [todo EXCEPT ![o] = DOMAIN ops[o].effect]
          /\ exec' = [exec EXCEPT ![o] = {}]
          /\ UNCHANGED <<ops, age, accepted>>
     ELSE write(o, transitioned(ops[o], nextPhase(ops[o].phase))) /\ UNCHANGED <<pc, todo, exec>>
  /\ UNCHANGED <<plans, unproved, world, boot, crashes, history>>

first(s) == CHOOSE e \in s : \A d \in s : e <= d

\* A mutant of applyAccepted: an effect left running is executed again.
beginEffectAgain(o) ==
  /\ pc[o] = "begin" /\ todo[o] # {}
  /\ LET e == first(todo[o])
         op == ops[o]
     IN  /\ todo' = [todo EXCEPT ![o] = @ \ {e}]
         /\ write(o, begun(op, e))
         /\ exec' = IF e \in plans[o].targets /\ op.effect[e] # "succeeded"
                    THEN [exec EXCEPT ![o] = @ \cup {e}] ELSE exec
         /\ step(o, IF e \in plans[o].skipped /\ executes(op, e) THEN "skip" ELSE "begin")
  /\ UNCHANGED <<plans, unproved, world, boot, crashes, history>>

\* The loop of applyAccepted over the effects: each is begun once, a skipped
\* one is finished at once, the others are executed together.
beginEffect(o) ==
  /\ pc[o] = "begin" /\ todo[o] # {}
  /\ LET e == first(todo[o])
         op == ops[o]
     IN  /\ todo' = [todo EXCEPT ![o] = @ \ {e}]
         /\ write(o, begun(op, e))
         /\ exec' = IF e \in plans[o].targets /\ executes(op, e)
                    THEN [exec EXCEPT ![o] = @ \cup {e}] ELSE exec
         /\ IF e \in plans[o].skipped /\ executes(op, e)
            THEN pc' = [pc EXCEPT ![o] = "skip"] ELSE UNCHANGED pc
  /\ UNCHANGED <<plans, unproved, world, boot, crashes, history>>

\* FinishEffect of the skipped effect that was begun last.
finishSkipped(o) ==
  /\ pc[o] = "skip"
  /\ LET e == CHOOSE d \in plans[o].skipped \ todo[o] : ops[o].effect[d] = "running"
     IN  mayFinish(ops[o], e, "succeeded") /\ write(o, finished(ops[o], e, "succeeded"))
  /\ step(o, "begin")
  /\ UNCHANGED <<plans, todo, exec, unproved, world, boot, crashes, history>>

beginDone(o) ==
  /\ pc[o] = "begin" /\ todo[o] = {}
  /\ todo' = [todo EXCEPT ![o] = exec[o]]
  /\ step(o, IF exec[o] = {} THEN "toProve" ELSE "execute")
  /\ UNCHANGED <<ops, age, plans, exec, unproved, world, boot, crashes, history, accepted>>

\* The executor brings one target to its end (applyEnvironmentStopPlan,
\* applyEnvironmentCleanPlan, applyEnvironmentDeletePlan).
execute(o) ==
  /\ pc[o] = "execute" /\ todo[o] # {}
  /\ LET e == first(todo[o]) IN
       /\ meta[e] # "removed"
       /\ vm' = [vm EXCEPT ![e] = IF plans[o].action = "stop" THEN "stopped" ELSE "absent"]
       /\ meta' = [meta EXCEPT ![e] = IF plans[o].action = "stop" THEN "stopped" ELSE "removed"]
       /\ todo' = [todo EXCEPT ![o] = @ \ {e}]
       /\ ran' = [ran EXCEPT ![o][e] = @ + 1]
       /\ touched' = [touched EXCEPT ![o] = @ \cup {e}]
       /\ step(o, IF todo[o] = {e} THEN "toProve" ELSE "execute")
  /\ UNCHANGED <<ops, age, plans, exec, unproved, starts, boot, crashes, accepted>>

\* The executor ends with an error: the record is gone, or the backend
\* failed, before or after the instance changed.
executeFails(o) ==
  /\ pc[o] = "execute" /\ todo[o] # {}
  /\ LET e == first(todo[o]) IN
       /\ "executor" \in Faults \/ meta[e] = "removed"
       /\ ran' = [ran EXCEPT ![o][e] = @ + 1]
       /\ \/ UNCHANGED <<vm, touched>>
          \/ /\ vm[e] = "running" /\ vm' = [vm EXCEPT ![e] = "stopped"]
             /\ touched' = [touched EXCEPT ![o] = @ \cup {e}]
  /\ step(o, "toProve")
  /\ UNCHANGED <<ops, age, plans, todo, exec, unproved, meta, starts, boot, crashes, accepted>>

\* A mutant of refusalIsFinal: a refusal of any target ends the operation.
anyRefusalIsFinal(o) == TRUE

\* finishRefused is taken for a single newly executed target.
refusalIsFinal(o) == Cardinality(exec[o]) = 1

\* The executor refuses a target because a session owns the environment: an
\* EnvironmentOwnerError, before anything was done to this target.
executeRefused(o) ==
  /\ "owner" \in Faults /\ pc[o] = "execute" /\ todo[o] # {}
  /\ ran' = [ran EXCEPT ![o][first(todo[o])] = @ + 1]
  /\ step(o, IF refusalIsFinal(o) THEN "refused" ELSE "toProve")
  /\ UNCHANGED <<ops, age, plans, todo, exec, unproved, world, boot, crashes, touched, accepted>>

\* finishRefused, first call: the effect failed.
finishRefused(o) ==
  /\ pc[o] = "refused"
  /\ LET e == first(todo[o])
     IN  mayFinish(ops[o], e, "failed") /\ write(o, finished(ops[o], e, "failed"))
  /\ step(o, "failed")
  /\ UNCHANGED <<plans, todo, exec, unproved, world, boot, crashes, history>>

\* finishRefused, second call: the operation failed.
terminalFailed(o) ==
  /\ pc[o] = "failed" /\ mayTerminate(ops[o], "failed")
  /\ write(o, transitioned(ops[o], "failed")) /\ step(o, "idle")
  /\ UNCHANGED <<plans, todo, exec, unproved, world, boot, crashes, history>>

\* Staging ends; finishProof goes over the targets.
toProving(o) ==
  /\ pc[o] = "toProve"
  /\ operationTransitionAllowed(ops[o].phase, "proving")
  /\ write(o, transitioned(ops[o], "proving"))
  /\ step(o, "prove") /\ todo' = [todo EXCEPT ![o] = plans[o].targets]
  /\ unproved' = [unproved EXCEPT ![o] = FALSE]
  /\ UNCHANGED <<plans, exec, world, boot, crashes, history>>

\* proveAccepted: only an operation that asks for recovery changes its phase.
proveAccepted(o) ==
  /\ pc[o] = "proveAccepted"
  /\ write(o, IF ops[o].phase = "recovery-required" THEN transitioned(ops[o], "proving") ELSE ops[o])
  /\ step(o, "prove") /\ todo' = [todo EXCEPT ![o] = plans[o].targets]
  /\ unproved' = [unproved EXCEPT ![o] = FALSE]
  /\ UNCHANGED <<plans, exec, world, boot, crashes, history>>

\* proveEnvironmentAction: a stable observation of the backend and the record
\* of the environment.
proveEnvironmentAction(action, e) ==
  IF action = "stop" THEN vm[e] = "stopped" /\ meta[e] = "stopped"
  ELSE vm[e] = "absent" /\ meta[e] = "removed"

\* finishProof, one target: one that was begun is proved and finished.
proveTarget(o) ==
  /\ pc[o] = "prove" /\ todo[o] # {}
  /\ LET e == first(todo[o]) IN
       /\ todo' = [todo EXCEPT ![o] = @ \ {e}]
       /\ \/ ops[o].effect[e] = "succeeded" /\ UNCHANGED <<ops, age, accepted, unproved>>
          \/ /\ ops[o].effect[e] = "running" /\ proveEnvironmentAction(plans[o].action, e)
             /\ write(o, finished(ops[o], e, "succeeded")) /\ UNCHANGED unproved
          \/ /\ ops[o].effect[e] # "succeeded"
             /\ \/ ops[o].effect[e] # "running" \/ "prover" \in Faults
                \/ ~proveEnvironmentAction(plans[o].action, e)
             /\ unproved' = [unproved EXCEPT ![o] = TRUE] /\ UNCHANGED <<ops, age, accepted>>
  /\ UNCHANGED <<pc, plans, exec, world, boot, crashes, history>>

requireActionRecovery(o) ==
  /\ pc[o] = "prove" /\ todo[o] = {} /\ unproved[o] /\ mayUpdateRecovery(ops[o], TRUE)
  /\ write(o, updateRecovery(ops[o], "provider", TRUE)) /\ step(o, "idle")
  /\ UNCHANGED <<plans, todo, exec, unproved, world, boot, crashes, history>>

\* A mutant of storeResult: the result is kept after the operation is closed.
storeResultLater(o) ==
  /\ pc[o] = "prove" /\ todo[o] = {} /\ ~unproved[o] /\ step(o, "succeeded")
  /\ UNCHANGED <<ops, age, plans, todo, exec, unproved, world, boot, crashes, history, accepted>>

storeResult(o) ==
  /\ pc[o] = "prove" /\ todo[o] = {} /\ ~unproved[o]
  /\ plans' = [plans EXCEPT ![o].result = TRUE] /\ step(o, "succeeded")
  /\ UNCHANGED <<ops, age, todo, exec, unproved, world, boot, crashes, history, accepted>>

\* Terminal(succeeded); without the evidence of every effect it is an error.
terminalSucceeded(o) ==
  /\ pc[o] = "succeeded" /\ step(o, "idle")
  /\ IF mayTerminate(ops[o], "succeeded") THEN write(o, transitioned(ops[o], "succeeded"))
     ELSE UNCHANGED <<ops, age, accepted>>
  /\ UNCHANGED <<plans, todo, exec, unproved, world, boot, crashes, history>>

\* A call of the ledger or of the plan store fails: the caller returns.
storeFails(o) ==
  /\ "store" \in Faults /\ pc[o] \notin {"idle", "write", "execute"} /\ step(o, "idle")
  /\ UNCHANGED <<ops, age, plans, todo, exec, unproved, world, boot, crashes, history, accepted>>

\* The daemon stops and starts: its actors are gone, and every accepted
\* operation that is not terminal is to be reconciled before it serves.
Crash ==
  /\ crashes < MaxCrashes /\ crashes' = crashes + 1
  /\ pc' = [o \in Ids |-> "idle"] /\ todo' = [o \in Ids |-> {}]
  /\ exec' = [o \in Ids |-> {}] /\ unproved' = [o \in Ids |-> FALSE]
  /\ boot' = [todo |-> {o \in DOMAIN ops : ~Terminal(ops[o]) /\ ops[o].phase # "planned"},
               tried |-> FALSE]
  /\ UNCHANGED <<ops, age, plans, world, history, accepted>>

\* Run of startupOperationRecovery takes the operations one after the other,
\* the oldest first; reconcileOne calls ReconcileOperation ...
reconcileOne(o) ==
  /\ ~up /\ o = first(boot.todo) /\ pc[o] = "idle" /\ ~boot.tried
  /\ step(o, reconcileTo(ops[o])) /\ boot' = [boot EXCEPT !.tried = TRUE]
  /\ UNCHANGED <<ops, age, plans, todo, exec, unproved, world, crashes, history, accepted>>

\* A mutant of settled: only an effect left running is made known.
settledRunning(op) ==
  IF ~Terminal(op) /\ ~hasProviderRecovery(op) /\ operationEffectStatusPresent(op, "running")
  THEN updateRecovery(op, "startup", TRUE) ELSE op

\* ... and leaves a hint in an operation that is still not terminal.
settled(op) ==
  IF Terminal(op) \/ op.phase = "recovery-required" \/ hasProviderRecovery(op) THEN op
  ELSE updateRecovery(op, "startup", operationEffectStatusPresent(op, "running"))

reconcileOneEnds(o) ==
  /\ ~up /\ o = first(boot.todo) /\ pc[o] = "idle" /\ boot.tried
  /\ write(o, settled(ops[o]))
  /\ boot' = [todo |-> boot.todo \ {o}, tried |-> FALSE]
  /\ UNCHANGED <<plans, actor, world, crashes, history>>

\* A run starts a stopped environment again.
StartEnvironment(e) ==
  /\ starts < MaxStarts /\ starts' = starts + 1
  /\ vm[e] = "stopped" /\ meta[e] = "stopped"
  /\ vm' = [vm EXCEPT ![e] = "running"] /\ meta' = [meta EXCEPT ![e] = "running"]
  /\ UNCHANGED <<ops, age, plans, actor, boot, crashes, history, accepted>>

Client(o) == Reserve(o) \/ Apply(o) \/ ReconcileOperation(o)

\* The steps of an actor on its way through Prepare, Apply or a
\* reconciliation.
Act(o) ==
  \/ writePlanRecord(o) \/ acceptPhase(o) \/ beginEffect(o) \/ finishSkipped(o)
  \/ beginDone(o) \/ execute(o) \/ executeFails(o) \/ executeRefused(o)
  \/ finishRefused(o) \/ terminalFailed(o) \/ toProving(o) \/ proveAccepted(o)
  \/ proveTarget(o) \/ requireActionRecovery(o) \/ storeResult(o) \/ terminalSucceeded(o)
  \/ reconcileOne(o) \/ reconcileOneEnds(o)

Next ==
  \/ \E o \in Ids : Client(o) \/ Act(o) \/ storeFails(o)
  \/ \E e \in Envs : StartEnvironment(e)
  \/ Crash

Spec == Init /\ [][Next]_vars

\* An actor goes on, and the client repeats Apply with the operation ID for
\* as long as the operation is not terminal.
Fairness == \A o \in Ids : WF_vars(Act(o)) /\ SF_vars(Apply(o))

FairSpec == Spec /\ Fairness

(***************************************************************************)
(* Properties.                                                             *)
(***************************************************************************)
TypeOK ==
  /\ DOMAIN ops = Range(age) /\ Len(age) <= MaxRecords
  /\ \A o \in DOMAIN ops : ops[o].phase \in Phases /\ ops[o].recovery \in RecoveryCodes
  /\ boot.todo \subseteq DOMAIN ops

\* The executor is called at most once for a target of an operation, however
\* often the operation is applied again, reconciled or interrupted: "a
\* running effect after response loss or restart must be reconciled"
\* (BeginEffect).
ExecutedOnce == \A o \in Ids, e \in Envs : ran[o][e] <= 1

\* An operation that ends as failed, "safely refused before its destructive
\* effect began" (finishRefused), changed no environment.
RefusedIsUntouched ==
  \A o \in DOMAIN ops : ops[o].phase = "failed" => touched[o] = {}

\* The answer of a succeeded operation is on disk before the operation is
\* closed, so that a repeated Apply can give it
\* (terminalEnvironmentActionResult).
SucceededHasResult ==
  \A o \in DOMAIN ops : ops[o].phase = "succeeded" => plans[o].result

\* An accepted operation leaves the ledger only after it was closed: the
\* retention limit costs no operation that has yet to be reconciled.
AcceptedIsKept ==
  [][\A o \in accepted : o \in DOMAIN ops /\ o \notin DOMAIN ops' => Terminal(ops[o])]_vars

\* When the daemon begins to serve, every accepted operation is closed or
\* carries a recovery hint of the provider or of the startup
\* (startupOperationRecovery).
StartupLeavesHints ==
  [][(~up /\ up') => \A o \in accepted' \cap DOMAIN ops' :
        Terminal(ops'[o]) \/ hasProviderRecovery(ops'[o])]_vars

\* An accepted operation that is applied again and again is closed in the
\* end: the recovery hint asks the operator to "Retry the same operation ID
\* after backend inventory is available." (finishProof).
RetryFinishes ==
  \A o \in Ids : (o \in accepted) ~> (o \notin DOMAIN ops \/ Terminal(ops[o]))

\* Once every target of an operation has its proof, applying the operation
\* again closes it.
ProvedIsClosed ==
  \A o \in Ids :
    (o \in DOMAIN ops /\ o \in accepted
       /\ \A e \in plans[o].targets : ops[o].effect[e] = "succeeded")
      ~> (o \notin DOMAIN ops \/ Terminal(ops[o]))

====

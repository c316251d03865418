-------------------------- MODULE EnvironmentProofs ---------------------------
(***************************************************************************)
(* Stop, clean and delete as durable operations, for any environments, any *)
(* operation identities, any faults of the store, the executor and the     *)
(* prover, and any number of stops of the daemon; and the host application *)
(* packs, for any operators and any revisions.                             *)
(***************************************************************************)
EXTENDS EnvironmentActions, HostAppPacks, FiniteSetTheorems, WellFoundedInduction, NaturalsInduction,
TLAPS

(* The default prover; SMT where a leaf needs arithmetic or cases.  The    *)
(* limits are wall-clock seconds, wide enough for a busy machine.          *)
USE ZenonT(60)

\* The steps of an actor, and the fields of an operation and of a plan.
ActorSteps == {"idle", "write", "advance", "begin", "skip", "execute", "refused", "failed",
               "toProve", "proveAccepted", "prove", "succeeded"}

OpShape(op) == DOMAIN op = {"phase", "effect", "evidence", "recovery"}
PlanShape(plan) ==
  /\ DOMAIN plan = {"action", "targets", "skipped", "kept", "result"}
  /\ plan.targets \subseteq Envs /\ plan.skipped \subseteq Envs

Pending(o) == {e \in DOMAIN ops[o].effect : ops[o].effect[e] = "pending"}

\* An operation has a plan, its effects are those of the plan, and an actor
\* works on an operation that is not terminal.
ActorTypes(o) ==
  /\ pc[o] \in ActorSteps
  /\ todo[o] \subseteq Envs /\ exec[o] \subseteq Envs /\ touched[o] \subseteq Envs
  /\ o \in DOMAIN plans => PlanShape(plans[o])
  /\ o \in DOMAIN ops => /\ o \in DOMAIN plans /\ OpShape(ops[o])
                         /\ DOMAIN ops[o].effect = effectsOf(plans[o])
  /\ pc[o] # "idle" => o \in DOMAIN ops /\ ~Terminal(ops[o])

\* The executor is called for targets that were pending when their effect was
\* begun in this very pass, and they are not pending again.
RanOnce(o) ==
  /\ \A e \in Envs : ran[o][e] \in {0, 1}
  /\ o \notin DOMAIN plans => \A e \in Envs : ran[o][e] = 0
  /\ o \in DOMAIN ops => \A e \in Pending(o) : ran[o][e] = 0
  /\ pc[o] \in {"begin", "skip"} =>
       \A e \in exec[o] : e \in DOMAIN ops[o].effect \ Pending(o) /\ ran[o][e] = 0
  /\ pc[o] = "execute" =>
       \A e \in todo[o] : e \in DOMAIN ops[o].effect \ Pending(o) /\ ran[o][e] = 0

\* All effects are begun before the first target is touched, so a pass with
\* one new target that is refused follows no pass that touched another.
Untouched(o) ==
  /\ o \notin DOMAIN plans => touched[o] = {}
  /\ o \in DOMAIN ops /\ touched[o] # {} => Pending(o) = {}
  /\ pc[o] \in {"begin", "skip"} => Pending(o) \subseteq todo[o] /\ (touched[o] # {} => exec[o] = {})
  /\ pc[o] = "execute" => /\ Pending(o) = {} /\ todo[o] \subseteq exec[o]
                          /\ touched[o] = {} \/ todo[o] # exec[o]
  /\ pc[o] \in {"refused", "failed"} => touched[o] = {}
  /\ o \in DOMAIN ops /\ ops[o].phase = "failed" => touched[o] = {}

\* The result of an operation is written before the operation is closed.
ResultKept(o) ==
  /\ pc[o] = "succeeded" => plans[o].result
  /\ o \in DOMAIN ops /\ ops[o].phase = "succeeded" => plans[o].result

OperationAt(o) == ActorTypes(o) /\ RanOnce(o) /\ Untouched(o) /\ ResultKept(o)

\* While the daemon starts, one operation at a time has an actor.
BootAt ==
  /\ DOMAIN boot = {"todo", "tried"}
  /\ boot.todo \subseteq DOMAIN ops
  /\ \A o \in boot.todo : Terminal(ops[o]) => o = first(boot.todo) /\ boot.tried
  /\ ~up => \A o \in Ids : pc[o] # "idle" => o = first(boot.todo) /\ boot.tried

\* What the variables range over.
ActionTypes ==
  /\ DOMAIN ops \subseteq Ids /\ DOMAIN plans \subseteq Ids
  /\ DOMAIN pc = Ids /\ DOMAIN todo = Ids /\ DOMAIN exec = Ids /\ DOMAIN unproved = Ids
  /\ ran \in [Ids -> [Envs -> Nat]] /\ DOMAIN touched = Ids

\* The inductive invariant.
ActionAccount == ActionTypes /\ BootAt /\ \A o \in Ids : OperationAt(o)

\* What a step of one operation leaves alone; retention may drop others that
\* are terminal.
Others(o) ==
  \A x \in Ids \ {o} :
    /\ pc'[x] = pc[x] /\ todo'[x] = todo[x] /\ exec'[x] = exec[x]
    /\ ran'[x] = ran[x] /\ touched'[x] = touched[x]
    /\ x \in DOMAIN plans' <=> x \in DOMAIN plans
    /\ x \in DOMAIN plans => plans'[x] = plans[x]
    /\ x \in DOMAIN ops' => x \in DOMAIN ops /\ ops'[x] = ops[x]
    /\ x \in DOMAIN ops => x \in DOMAIN ops' \/ Terminal(ops[x])

\* The least of some numbers is one of them.
LEMMA FirstIsIn ==
  ASSUME NEW s \in SUBSET Nat, s # {}
  PROVE  first(s) \in s
<1>1. PICK x \in s : \A y \in s : ~(<<y, x>> \in OpToRel(<, Nat))
  BY NatLessThanWellFounded, WFMin
<1>2. \A y \in s : x <= y
  <2> SUFFICES ASSUME NEW y \in s PROVE x <= y
    OBVIOUS
  <2>1. <<y, x>> \in Nat \X Nat
    OBVIOUS
  <2>2. ~(<<y, x>>[1] < <<y, x>>[2])
    BY <1>1, <2>1 DEF OpToRel
  <2>3. ~(y < x)
    BY <2>2
  <2> QED BY SMTT(60), <2>3
<1> QED BY <1>2 DEF first

\* An operation that a step leaves alone keeps its account.
LEMMA OthersKeep ==
  ASSUME NEW o, NEW x \in Ids \ {o}, Others(o), OperationAt(x)
  PROVE  OperationAt(x)'
<1>1. /\ pc'[x] = pc[x] /\ todo'[x] = todo[x] /\ exec'[x] = exec[x]
      /\ ran'[x] = ran[x] /\ touched'[x] = touched[x]
      /\ x \in DOMAIN plans' <=> x \in DOMAIN plans
      /\ x \in DOMAIN plans => plans'[x] = plans[x]
      /\ x \in DOMAIN ops' => x \in DOMAIN ops /\ ops'[x] = ops[x]
      /\ x \in DOMAIN ops => x \in DOMAIN ops' \/ Terminal(ops[x])
  BY DEF Others
<1>2. pc[x] # "idle" => x \in DOMAIN ops'
  BY <1>1 DEF OperationAt, ActorTypes
<1>3. ActorTypes(x)'
  BY <1>1, <1>2 DEF OperationAt, ActorTypes, PlanShape, OpShape, Terminal, effectsOf
<1>4. x \in DOMAIN ops' => Pending(x)' = Pending(x)
  BY <1>1 DEF Pending
<1>5. RanOnce(x)'
  BY <1>1, <1>2, <1>4 DEF OperationAt, RanOnce
<1>6. Untouched(x)'
  BY <1>1, <1>2, <1>4 DEF OperationAt, Untouched
<1>7. ResultKept(x)'
  BY <1>1, <1>2 DEF OperationAt, ActorTypes, ResultKept
<1> QED BY <1>3, <1>5, <1>6, <1>7 DEF OperationAt

\* A step of one operation is judged by that operation.
LEMMA ActsAlone ==
  ASSUME ActionAccount, NEW o \in Ids, Others(o), ActionTypes', OperationAt(o)',
         UNCHANGED boot, pc[o] # "idle" \/ up, up \/ DOMAIN ops \subseteq DOMAIN ops'
  PROVE  ActionAccount'
<1>1. \A x \in Ids : OperationAt(x)'
  BY OthersKeep DEF ActionAccount
<1>2. BootAt'
  <2>1. CASE up
    BY <2>1 DEF ActionAccount, BootAt, up
  <2>2. CASE ~up
    <3>1. o = first(boot.todo) /\ boot.tried
      BY <2>2 DEF ActionAccount, BootAt
    <3>2. boot.todo \subseteq DOMAIN ops'
      BY <2>2 DEF ActionAccount, BootAt
    <3>3. \A x \in boot.todo : x # o => ~Terminal(ops'[x])
      BY <3>1, <3>2 DEF ActionAccount, BootAt, Others, ActionTypes
    <3>4. \A x \in Ids : x # o => pc'[x] = "idle"
      BY <2>2, <3>1 DEF ActionAccount, BootAt, Others
    <3> QED BY <3>1, <3>2, <3>3, <3>4 DEF ActionAccount, BootAt, up
  <2> QED BY <2>1, <2>2
<1> QED BY <1>1, <1>2 DEF ActionAccount

\* What a write of a record does to the ledger.
LEMMA WriteSets ==
  ASSUME NEW o, NEW record, write(o, record)
  PROVE  /\ DOMAIN ops' = DOMAIN ops \cup {o} /\ ops'[o] = record
         /\ \A x \in DOMAIN ops \ {o} : ops'[x] = ops[x]
BY DEF write, with

\* What the calls of the ledger make of a record.
LEMMA TransitionedIs ==
  ASSUME NEW op, OpShape(op), NEW next
  PROVE  LET new == transitioned(op, next)
         IN  OpShape(new) /\ new.phase = next /\ new.effect = op.effect
BY SMTT(60) DEF transitioned, OpShape

LEMMA UpdatedIs ==
  ASSUME NEW op, OpShape(op), NEW code, NEW require
  PROVE  LET new == updateRecovery(op, code, require)
         IN  /\ OpShape(new) /\ new.effect = op.effect
             /\ new.phase = op.phase \/ new.phase = "recovery-required"
BY SMTT(60) DEF updateRecovery, OpShape

LEMMA BegunIs ==
  ASSUME NEW op, OpShape(op), NEW e, ~Terminal(op)
  PROVE  LET new == begun(op, e)
         IN  /\ OpShape(new) /\ new.phase = op.phase
             /\ DOMAIN new.effect = DOMAIN op.effect
             /\ e \in DOMAIN op.effect => new.effect[e] # "pending"
             /\ \A d \in DOMAIN op.effect \ {e} : new.effect[d] = op.effect[d]
BY SMTT(60) DEF begun, executes, OpShape

LEMMA FinishedIs ==
  ASSUME NEW op, OpShape(op), NEW e, NEW status \in {"succeeded", "failed"}
  PROVE  LET new == finished(op, e, status)
         IN  /\ OpShape(new) /\ new.phase = op.phase
             /\ DOMAIN new.effect = DOMAIN op.effect
             /\ \A d \in DOMAIN op.effect : new.effect[d] = op.effect[d] \/ new.effect[d] = status
BY SMTT(60) DEF finished, OpShape

\* A step that writes only what belongs to one operation.
LEMMA StepsAlone ==
  ASSUME ActionTypes, NEW o \in Ids,
         UNCHANGED ops \/ \E new : write(o, new),
         UNCHANGED pc \/ \E next : step(o, next),
         UNCHANGED todo \/ \E t : todo' = [todo EXCEPT ![o] = t],
         UNCHANGED exec \/ \E t : exec' = [exec EXCEPT ![o] = t],
         UNCHANGED unproved \/ \E t : unproved' = [unproved EXCEPT ![o] = t],
         UNCHANGED touched \/ \E t : touched' = [touched EXCEPT ![o] = t],
         UNCHANGED ran \/ \E e \in Envs : ran' = [ran EXCEPT ![o][e] = @ + 1],
         DOMAIN plans' = DOMAIN plans,
         \A x \in DOMAIN plans \ {o} : plans'[x] = plans[x]
  PROVE  Others(o) /\ ActionTypes'
<1>1. /\ DOMAIN ops' \subseteq DOMAIN ops \cup {o} /\ DOMAIN ops \subseteq DOMAIN ops'
      /\ \A x \in DOMAIN ops \ {o} : ops'[x] = ops[x]
  BY WriteSets
<1>2. /\ DOMAIN pc' = Ids /\ \A x \in Ids \ {o} : pc'[x] = pc[x]
  BY DEF ActionTypes, step
<1>3. /\ DOMAIN todo' = Ids /\ \A x \in Ids \ {o} : todo'[x] = todo[x]
  BY DEF ActionTypes
<1>4. /\ DOMAIN exec' = Ids /\ \A x \in Ids \ {o} : exec'[x] = exec[x]
  BY DEF ActionTypes
<1>5. /\ DOMAIN touched' = Ids /\ \A x \in Ids \ {o} : touched'[x] = touched[x]
  BY DEF ActionTypes
<1>6. DOMAIN unproved' = Ids
  BY DEF ActionTypes
<1>7. ran' \in [Ids -> [Envs -> Nat]] /\ \A x \in Ids \ {o} : ran'[x] = ran[x]
  <2>1. CASE UNCHANGED ran
    BY <2>1 DEF ActionTypes
  <2>2. ASSUME NEW e \in Envs, ran' = [ran EXCEPT ![o][e] = @ + 1]
        PROVE  ran' \in [Ids -> [Envs -> Nat]] /\ \A x \in Ids \ {o} : ran'[x] = ran[x]
    <3>1. ran \in [Ids -> [Envs -> Nat]] /\ ran[o][e] + 1 \in Nat
      BY SMTT(60) DEF ActionTypes
    <3> QED BY <2>2, <3>1
  <2> QED BY <2>1, <2>2
<1>8. Others(o)
  BY <1>1, <1>2, <1>3, <1>4, <1>5, <1>7 DEF Others
<1> QED BY <1>1, <1>2, <1>3, <1>4, <1>5, <1>6, <1>7, <1>8 DEF ActionTypes

\* A record that may follow one when its actor goes on.
Follows(o, new, next) ==
  /\ OpShape(new) /\ DOMAIN new.effect = DOMAIN ops[o].effect
  /\ \A e \in DOMAIN new.effect : new.effect[e] = "pending" => ops[o].effect[e] = "pending"
  /\ next # "idle" => ~Terminal(new)
  /\ new.phase = "failed" => touched[o] = {}
  /\ new.phase = "succeeded" => plans[o].result

\* A step of an actor that writes at most such a record, and moves on to a step
\* at which nothing is being executed.
RestSteps == {"idle", "advance", "toProve", "proveAccepted", "prove", "refused", "failed", "succeeded"}

Rests(o, next) ==
  /\ step(o, next) \/ (UNCHANGED pc /\ pc[o] = next)
  /\ UNCHANGED ops \/ \E new : write(o, new) /\ Follows(o, new, next)
  /\ UNCHANGED todo \/ \E t \in SUBSET Envs : todo' = [todo EXCEPT ![o] = t]
  /\ UNCHANGED unproved \/ \E t : unproved' = [unproved EXCEPT ![o] = t]
  /\ UNCHANGED <<ran, touched, exec, boot>>
  /\ next \in {"refused", "failed"} => touched[o] = {}
  /\ next = "succeeded" => plans'[o].result

PlanStays(o) ==
  /\ DOMAIN plans' = DOMAIN plans /\ \A x \in DOMAIN plans \ {o} : plans'[x] = plans[x]
  /\ PlanShape(plans'[o]) /\ effectsOf(plans'[o]) = effectsOf(plans[o])
  /\ plans[o].result => plans'[o].result

\* Such a step keeps the account.
LEMMA ActorRests ==
  ASSUME ActionAccount, NEW o \in Ids, NEW next \in RestSteps, Rests(o, next), PlanStays(o),
         pc[o] # "idle" \/ (up /\ o \in DOMAIN ops /\ ~Terminal(ops[o]))
  PROVE  ActionAccount'
<1>a. ActionTypes /\ OperationAt(o)
  BY DEF ActionAccount
<1>b. /\ o \in DOMAIN ops /\ ~Terminal(ops[o]) /\ o \in DOMAIN plans
      /\ OpShape(ops[o]) /\ DOMAIN ops[o].effect = effectsOf(plans[o])
  BY <1>a DEF OperationAt, ActorTypes
<1>c. next \in ActorSteps \ {"begin", "skip", "execute"}
  BY DEF RestSteps, ActorSteps
<1>1. Others(o) /\ ActionTypes'
  <2>1. UNCHANGED todo \/ \E t : todo' = [todo EXCEPT ![o] = t]
    BY DEF Rests
  <2>2. UNCHANGED ops \/ \E new : write(o, new)
    BY DEF Rests
  <2>3. UNCHANGED pc \/ \E n : step(o, n)
    BY DEF Rests
  <2>4. UNCHANGED unproved \/ \E u : unproved' = [unproved EXCEPT ![o] = u]
    BY DEF Rests
  <2>5. UNCHANGED <<ran, touched, exec>>
    BY DEF Rests
  <2>6. DOMAIN plans' = DOMAIN plans /\ \A x \in DOMAIN plans \ {o} : plans'[x] = plans[x]
    BY DEF PlanStays
  <2> QED BY <1>a, <2>1, <2>2, <2>3, <2>4, <2>5, <2>6, StepsAlone
<1>2. /\ DOMAIN ops' = DOMAIN ops /\ OpShape(ops'[o])
      /\ DOMAIN ops'[o].effect = DOMAIN ops[o].effect
      /\ \A e \in DOMAIN ops[o].effect :
           ops'[o].effect[e] = "pending" => ops[o].effect[e] = "pending"
      /\ next # "idle" => ~Terminal(ops'[o])
      /\ ops'[o].phase = "failed" => touched[o] = {}
      /\ ops'[o].phase = "succeeded" => plans[o].result
  <2>1. CASE UNCHANGED ops
    BY <1>a, <1>b, <2>1 DEF OperationAt, Untouched, ResultKept
  <2>2. CASE \E new : write(o, new) /\ Follows(o, new, next)
    <3>1. PICK new : write(o, new) /\ Follows(o, new, next)
      BY <2>2
    <3>2. DOMAIN ops' = DOMAIN ops \cup {o} /\ ops'[o] = new
      BY <3>1, WriteSets
    <3>3. DOMAIN ops' = DOMAIN ops
      BY <1>b, <3>2
    <3> QED BY <3>1, <3>2, <3>3 DEF Follows
  <2> QED BY <2>1, <2>2 DEF Rests
<1>3. pc'[o] = next
  BY <1>a DEF Rests, ActionTypes, step
<1>4. todo'[o] \subseteq Envs
  BY <1>a DEF Rests, ActionTypes, OperationAt, ActorTypes
<1>5. Pending(o)' \subseteq Pending(o)
  BY <1>2 DEF Pending
<1>6. ActorTypes(o)'
  BY <1>c, <1>a, <1>b, <1>2, <1>3, <1>4 DEF OperationAt, ActorTypes, Rests, PlanStays
<1>7. RanOnce(o)'
  BY <1>c, <1>a, <1>b, <1>2, <1>3, <1>5 DEF OperationAt, RanOnce, Rests, PlanStays
<1>8. Untouched(o)'
  BY <1>c, <1>a, <1>b, <1>2, <1>3, <1>5 DEF OperationAt, Untouched, Rests, PlanStays
<1>9. ResultKept(o)'
  BY <1>c, <1>2, <1>3 DEF ResultKept, Rests, PlanStays
<1> QED BY <1>1, <1>2, <1>6, <1>7, <1>8, <1>9, ActsAlone DEF OperationAt, Rests

\* The record and the plan of an operation at work, as the actions use them.
LEMMA OwnRecord ==
  ASSUME ActionAccount, NEW o \in Ids, pc[o] # "idle" \/ o \in DOMAIN ops
  PROVE  /\ o \in DOMAIN ops /\ o \in DOMAIN plans /\ OpShape(ops[o]) /\ PlanShape(plans[o])
         /\ DOMAIN ops[o].effect = effectsOf(plans[o])
         /\ DOMAIN ops[o].effect \subseteq Envs
         /\ pc[o] # "idle" => ~Terminal(ops[o])
BY DEF ActionAccount, OperationAt, ActorTypes, PlanShape, effectsOf

\* The records that may follow one.
LEMMA TransitionFollows ==
  ASSUME NEW o, OpShape(ops[o]), NEW phase, NEW next,
         phase \in TerminalPhases => next = "idle",
         phase = "failed" => touched[o] = {}, phase = "succeeded" => plans[o].result
  PROVE  Follows(o, transitioned(ops[o], phase), next)
BY TransitionedIs DEF Follows, Terminal

LEMMA FinishFollows ==
  ASSUME NEW o, OpShape(ops[o]), ~Terminal(ops[o]), NEW e,
         NEW status \in {"succeeded", "failed"}, NEW next
  PROVE  Follows(o, finished(ops[o], e, status), next)
<1>1. LET new == finished(ops[o], e, status)
      IN  /\ OpShape(new) /\ new.phase = ops[o].phase
          /\ DOMAIN new.effect = DOMAIN ops[o].effect
          /\ \A d \in DOMAIN ops[o].effect :
               new.effect[d] = ops[o].effect[d] \/ new.effect[d] = status
  BY SMTT(60), FinishedIs
<1>2. ops[o].phase \notin {"failed", "succeeded"}
  BY DEF Terminal, TerminalPhases
<1> QED BY SMTT(60), <1>1, <1>2 DEF Follows, Terminal

\* A plan that is not written stays.
LEMMA PlanUnchanged ==
  ASSUME ActionAccount, NEW o \in Ids, o \in DOMAIN plans, UNCHANGED plans
  PROVE  PlanStays(o)
BY DEF ActionAccount, OperationAt, ActorTypes, PlanStays

\* The steps around the execution: planning, proving, and the end.
LEMMA RestingSteps ==
  ASSUME ActionAccount, NEW o \in Ids,
         \/ writePlanRecord(o) \/ Apply(o) \/ ReconcileOperation(o)
         \/ finishRefused(o) \/ terminalFailed(o) \/ toProving(o) \/ proveAccepted(o)
         \/ proveTarget(o) \/ requireActionRecovery(o) \/ storeResult(o)
         \/ terminalSucceeded(o) \/ storeFails(o)
  PROVE  ActionAccount'
<1>s. \A next \in {"idle", "advance", "proveAccepted", "prove", "failed", "succeeded"} :
        next \in RestSteps
  BY DEF RestSteps
<1>1. CASE writePlanRecord(o)
  <2>1. /\ o \in DOMAIN ops /\ o \in DOMAIN plans /\ OpShape(ops[o]) /\ PlanShape(plans[o])
        /\ pc[o] # "idle" /\ step(o, "idle")
        /\ UNCHANGED <<todo, exec, unproved, boot, ran, touched>>
    BY <1>1, OwnRecord DEF writePlanRecord, history
  <2>2. CASE plans' = [plans EXCEPT ![o].kept = TRUE] /\ UNCHANGED <<ops, age, accepted>>
    <3>1. /\ DOMAIN plans' = DOMAIN plans /\ \A x \in DOMAIN plans \ {o} : plans'[x] = plans[x]
          /\ plans'[o] = [plans[o] EXCEPT !.kept = TRUE]
      BY <2>1, <2>2
    <3>2. /\ PlanShape(plans'[o]) /\ effectsOf(plans'[o]) = effectsOf(plans[o])
          /\ plans[o].result => plans'[o].result
      BY SMTT(60), <2>1, <3>1 DEF PlanShape, effectsOf
    <3>r. Rests(o, "idle")
      BY <2>1, <2>2, <3>1, <3>2 DEF Rests
    <3>p. PlanStays(o)
      BY <2>1, <2>2, <3>1, <3>2 DEF PlanStays
    <3> QED BY <1>s, <2>1, <3>r, <3>p, ActorRests
  <2>3. CASE write(o, transitioned(ops[o], "cancelled")) /\ UNCHANGED plans
    <3>1. Follows(o, transitioned(ops[o], "cancelled"), "idle")
      BY <2>1, TransitionFollows
    <3>r. Rests(o, "idle")
      BY <2>1, <2>3, <3>1 DEF Rests
    <3>p. PlanStays(o)
      BY <2>1, <2>3, <3>1, PlanUnchanged
    <3> QED BY <1>s, <2>1, <3>r, <3>p, ActorRests
  <2> QED BY <1>1, <2>2, <2>3 DEF writePlanRecord
<1>2. CASE Apply(o)
  <2>1. /\ up /\ o \in DOMAIN ops /\ ~Terminal(ops[o]) /\ step(o, "advance") /\ o \in DOMAIN plans
        /\ UNCHANGED <<ops, plans, todo, exec, unproved, boot, ran, touched>>
    BY <1>2, OwnRecord DEF Apply, history
  <2>r. Rests(o, "advance")
    BY <2>1 DEF Rests
  <2>p. PlanStays(o)
    BY <2>1, PlanUnchanged
  <2> QED BY <1>s, <2>1, <2>r, <2>p, ActorRests
<1>3. CASE ReconcileOperation(o)
  <2>1. /\ up /\ o \in DOMAIN ops /\ ~Terminal(ops[o]) /\ o \in DOMAIN plans
        /\ UNCHANGED <<ops, plans, todo, exec, unproved, boot, ran, touched>>
    BY <1>3, OwnRecord DEF ReconcileOperation, history
  <2>2. PICK next \in {"advance", "proveAccepted"} : step(o, next)
    BY <1>3 DEF ReconcileOperation, reconcileTo
  <2>r. Rests(o, next)
    BY <2>1, <2>2 DEF Rests
  <2>p. PlanStays(o)
    BY <2>1, <2>2, PlanUnchanged
  <2> QED BY <1>s, <2>1, <2>2, <2>r, <2>p, ActorRests
<1>4. CASE finishRefused(o)
  <2>1. /\ pc[o] = "refused" /\ step(o, "failed") /\ o \in DOMAIN plans
        /\ OpShape(ops[o]) /\ ~Terminal(ops[o])
        /\ UNCHANGED <<plans, todo, exec, unproved, boot, ran, touched>>
    BY <1>4, OwnRecord DEF finishRefused, history
  <2>2. PICK e : write(o, finished(ops[o], e, "failed"))
    BY <1>4 DEF finishRefused
  <2>3. touched[o] = {}
    BY <2>1 DEF ActionAccount, OperationAt, Untouched
  <2>4. Follows(o, finished(ops[o], e, "failed"), "failed")
    BY <2>1, FinishFollows
  <2>r. Rests(o, "failed")
    BY <2>1, <2>2, <2>3, <2>4 DEF Rests
  <2>p. PlanStays(o)
    BY <2>1, <2>2, <2>3, <2>4, PlanUnchanged
  <2> QED BY <1>s, <2>1, <2>r, <2>p, ActorRests
<1>5. CASE terminalFailed(o)
  <2>1. /\ pc[o] = "failed" /\ step(o, "idle") /\ o \in DOMAIN plans /\ OpShape(ops[o])
        /\ write(o, transitioned(ops[o], "failed"))
        /\ UNCHANGED <<plans, todo, exec, unproved, boot, ran, touched>>
    BY <1>5, OwnRecord DEF terminalFailed, history
  <2>2. touched[o] = {}
    BY <2>1 DEF ActionAccount, OperationAt, Untouched
  <2>3. Follows(o, transitioned(ops[o], "failed"), "idle")
    BY <2>1, <2>2, TransitionFollows
  <2>r. Rests(o, "idle")
    BY <2>1, <2>3 DEF Rests
  <2>p. PlanStays(o)
    BY <2>1, <2>3, PlanUnchanged
  <2> QED BY <1>s, <2>1, <2>r, <2>p, ActorRests
<1>6. CASE toProving(o)
  <2>1. /\ pc[o] # "idle" /\ step(o, "prove") /\ o \in DOMAIN plans /\ OpShape(ops[o])
        /\ write(o, transitioned(ops[o], "proving"))
        /\ todo' = [todo EXCEPT ![o] = plans[o].targets] /\ plans[o].targets \subseteq Envs
        /\ unproved' = [unproved EXCEPT ![o] = FALSE]
        /\ UNCHANGED <<plans, exec, boot, ran, touched>>
    BY <1>6, OwnRecord DEF toProving, history, PlanShape
  <2>2. Follows(o, transitioned(ops[o], "proving"), "prove")
    BY <2>1, TransitionFollows DEF TerminalPhases
  <2>r. Rests(o, "prove")
    BY <2>1, <2>2 DEF Rests
  <2>p. PlanStays(o)
    BY <2>1, <2>2, PlanUnchanged
  <2> QED BY <1>s, <2>1, <2>r, <2>p, ActorRests
<1>7. CASE proveAccepted(o)
  <2>1. /\ pc[o] # "idle" /\ step(o, "prove") /\ o \in DOMAIN plans /\ OpShape(ops[o])
        /\ ~Terminal(ops[o])
        /\ todo' = [todo EXCEPT ![o] = plans[o].targets] /\ plans[o].targets \subseteq Envs
        /\ unproved' = [unproved EXCEPT ![o] = FALSE]
        /\ UNCHANGED <<plans, exec, boot, ran, touched>>
    BY <1>7, OwnRecord DEF proveAccepted, history, PlanShape
  <2>2. CASE write(o, transitioned(ops[o], "proving"))
    <3>1. Follows(o, transitioned(ops[o], "proving"), "prove")
      BY <2>1, TransitionFollows DEF TerminalPhases
    <3>r. Rests(o, "prove")
      BY <2>1, <2>2, <3>1 DEF Rests
    <3>p. PlanStays(o)
      BY <2>1, <2>2, <3>1, PlanUnchanged
    <3> QED BY <1>s, <2>1, <3>r, <3>p, ActorRests
  <2>3. CASE write(o, ops[o])
    <3>1. Follows(o, ops[o], "prove")
      BY <2>1 DEF Follows, Terminal, TerminalPhases
    <3>r. Rests(o, "prove")
      BY <2>1, <2>3, <3>1 DEF Rests
    <3>p. PlanStays(o)
      BY <2>1, <2>3, <3>1, PlanUnchanged
    <3> QED BY <1>s, <2>1, <3>r, <3>p, ActorRests
  <2> QED BY <1>7, <2>2, <2>3 DEF proveAccepted
<1>8. CASE proveTarget(o)
  <2>1. /\ pc[o] = "prove" /\ UNCHANGED pc /\ o \in DOMAIN plans /\ OpShape(ops[o])
        /\ ~Terminal(ops[o])
        /\ UNCHANGED <<plans, exec, boot, ran, touched>>
    BY <1>8, OwnRecord DEF proveTarget, history
  <2>2. \E t \in SUBSET Envs : todo' = [todo EXCEPT ![o] = t]
    BY <1>8 DEF proveTarget, ActionAccount, OperationAt, ActorTypes
  <2>3. UNCHANGED unproved \/ \E t : unproved' = [unproved EXCEPT ![o] = t]
    BY <1>8 DEF proveTarget
  <2>4. UNCHANGED ops \/ \E e : write(o, finished(ops[o], e, "succeeded"))
    BY <1>8 DEF proveTarget
  <2>5. \A e : Follows(o, finished(ops[o], e, "succeeded"), "prove")
    BY <2>1, FinishFollows
  <2>6. UNCHANGED ops \/ \E new : write(o, new) /\ Follows(o, new, "prove")
    BY <2>4, <2>5
  <2>r. Rests(o, "prove")
    BY <2>1, <2>2, <2>3, <2>6 DEF Rests
  <2>p. PlanStays(o)
    BY <2>1, <2>2, <2>3, <2>6, PlanUnchanged
  <2> QED BY <1>s, <2>1, <2>r, <2>p, ActorRests
<1>9. CASE requireActionRecovery(o)
  <2>1. /\ pc[o] # "idle" /\ step(o, "idle") /\ o \in DOMAIN plans /\ OpShape(ops[o])
        /\ ~Terminal(ops[o]) /\ write(o, updateRecovery(ops[o], "provider", TRUE))
        /\ UNCHANGED <<plans, todo, exec, unproved, boot, ran, touched>>
    BY <1>9, OwnRecord DEF requireActionRecovery, history
  <2>2. Follows(o, updateRecovery(ops[o], "provider", TRUE), "idle")
    <3>1. LET new == updateRecovery(ops[o], "provider", TRUE)
          IN  /\ OpShape(new) /\ new.effect = ops[o].effect
              /\ new.phase = ops[o].phase \/ new.phase = "recovery-required"
      BY <2>1, UpdatedIs
    <3>2. ops[o].phase \notin {"failed", "succeeded"}
      BY <2>1 DEF Terminal, TerminalPhases
    <3> QED BY <3>1, <3>2 DEF Follows
  <2>r. Rests(o, "idle")
    BY <2>1, <2>2 DEF Rests
  <2>p. PlanStays(o)
    BY <2>1, <2>2, PlanUnchanged
  <2> QED BY <1>s, <2>1, <2>r, <2>p, ActorRests
<1>10. CASE storeResult(o)
  <2>1. /\ pc[o] # "idle" /\ step(o, "succeeded") /\ o \in DOMAIN plans /\ PlanShape(plans[o])
        /\ plans' = [plans EXCEPT ![o].result = TRUE]
        /\ UNCHANGED <<ops, todo, exec, unproved, boot, ran, touched>>
    BY <1>10, OwnRecord DEF storeResult, history
  <2>2. /\ DOMAIN plans' = DOMAIN plans /\ \A x \in DOMAIN plans \ {o} : plans'[x] = plans[x]
        /\ plans'[o] = [plans[o] EXCEPT !.result = TRUE]
    BY <2>1
  <2>3. /\ PlanShape(plans'[o]) /\ effectsOf(plans'[o]) = effectsOf(plans[o])
        /\ plans'[o].result
    BY SMTT(60), <2>1, <2>2 DEF PlanShape, effectsOf
  <2>r. Rests(o, "succeeded")
    BY <2>1, <2>2, <2>3 DEF Rests
  <2>p. PlanStays(o)
    BY <2>1, <2>2, <2>3 DEF PlanStays
  <2> QED BY <1>s, <2>1, <2>r, <2>p, ActorRests
<1>11. CASE terminalSucceeded(o)
  <2>1. /\ pc[o] = "succeeded" /\ step(o, "idle") /\ o \in DOMAIN plans /\ OpShape(ops[o])
        /\ UNCHANGED ops \/ write(o, transitioned(ops[o], "succeeded"))
        /\ UNCHANGED <<plans, todo, exec, unproved, boot, ran, touched>>
    BY <1>11, OwnRecord DEF terminalSucceeded, history
  <2>2. plans[o].result
    BY <2>1 DEF ActionAccount, OperationAt, ResultKept
  <2>3. Follows(o, transitioned(ops[o], "succeeded"), "idle")
    BY <2>1, <2>2, TransitionFollows
  <2>r. Rests(o, "idle")
    BY <2>1, <2>3 DEF Rests
  <2>p. PlanStays(o)
    BY <2>1, <2>3, PlanUnchanged
  <2> QED BY <1>s, <2>1, <2>r, <2>p, ActorRests
<1>12. CASE storeFails(o)
  <2>1. /\ pc[o] # "idle" /\ step(o, "idle") /\ o \in DOMAIN plans
        /\ UNCHANGED <<ops, plans, todo, exec, unproved, boot, ran, touched>>
    BY <1>12, OwnRecord DEF storeFails, history
  <2>r. Rests(o, "idle")
    BY <2>1 DEF Rests
  <2>p. PlanStays(o)
    BY <2>1, PlanUnchanged
  <2> QED BY <1>s, <2>1, <2>r, <2>p, ActorRests
<1> QED BY <1>1, <1>2, <1>3, <1>4, <1>5, <1>6, <1>7, <1>8, <1>9, <1>10, <1>11, <1>12

\* What a step of an actor that is executing targets leaves as it was.
Executes(o) ==
  /\ Others(o) /\ ActionTypes' /\ UNCHANGED <<plans, boot>>
  /\ DOMAIN ops' = DOMAIN ops /\ OpShape(ops'[o]) /\ ops'[o].phase = ops[o].phase
  /\ DOMAIN ops'[o].effect = DOMAIN ops[o].effect
  /\ Pending(o)' \subseteq Pending(o)
  /\ todo'[o] \subseteq Envs /\ exec'[o] \subseteq Envs /\ touched'[o] \subseteq Envs
  /\ pc'[o] \in {"begin", "skip", "execute", "toProve", "refused"}

\* A step in the execution is judged by what it says of executor calls and
\* of touched targets.
LEMMA ActorExecutes ==
  ASSUME ActionAccount, NEW o \in Ids, pc[o] # "idle", Executes(o), RanOnce(o)', Untouched(o)'
  PROVE  ActionAccount'
<1>1. OperationAt(o)
  BY DEF ActionAccount
<1>2. ActorTypes(o)'
  BY <1>1 DEF OperationAt, ActorTypes, Executes, ActorSteps, Terminal
<1>3. ResultKept(o)'
  BY <1>1 DEF OperationAt, ResultKept, Executes
<1> QED BY <1>2, <1>3, ActsAlone DEF OperationAt, Executes

\* The next target is one of those ahead.
LEMMA NextTarget ==
  ASSUME ActionAccount, NEW o \in Ids, todo[o] # {}
  PROVE  first(todo[o]) \in todo[o] /\ first(todo[o]) \in Envs
<1>1. todo[o] \subseteq Envs
  BY DEF ActionAccount, OperationAt, ActorTypes
<1>2. todo[o] \in SUBSET Nat
  BY <1>1, EnvironmentActionsAssumption
<1> QED BY <1>1, <1>2, FirstIsIn

\* BeginEffect: an effect that is pending becomes a target of this pass.
LEMMA BeginsEffect ==
  ASSUME ActionAccount, NEW o \in Ids, beginEffect(o)
  PROVE  ActionAccount'
<1> DEFINE e == first(todo[o])
<1> DEFINE op == ops[o]
<1>1. /\ pc[o] = "begin" /\ todo[o] # {} /\ todo' = [todo EXCEPT ![o] = @ \ {e}]
      /\ write(o, begun(op, e))
      /\ exec' = IF e \in plans[o].targets /\ executes(op, e)
                 THEN [exec EXCEPT ![o] = @ \cup {e}] ELSE exec
      /\ pc' = [pc EXCEPT ![o] = "skip"] \/ UNCHANGED pc
      /\ UNCHANGED <<plans, unproved, boot, ran, touched>>
  BY DEF beginEffect, history
<1>2. /\ o \in DOMAIN ops /\ o \in DOMAIN plans /\ OpShape(op) /\ PlanShape(plans[o])
      /\ DOMAIN op.effect = effectsOf(plans[o]) /\ ~Terminal(op)
  BY <1>1, OwnRecord
<1>3. e \in todo[o] /\ e \in Envs
  BY <1>1, NextTarget
<1>4. ActionTypes /\ ActorTypes(o) /\ RanOnce(o) /\ Untouched(o)
  BY DEF ActionAccount, OperationAt
<1>5. LET new == begun(op, e)
      IN  /\ OpShape(new) /\ new.phase = op.phase
          /\ DOMAIN new.effect = DOMAIN op.effect
          /\ e \in DOMAIN op.effect => new.effect[e] # "pending"
          /\ \A d \in DOMAIN op.effect \ {e} : new.effect[d] = op.effect[d]
  BY SMTT(60), <1>2, BegunIs
<1>6. DOMAIN ops' = DOMAIN ops /\ ops'[o] = begun(op, e)
  <2>1. DOMAIN ops' = DOMAIN ops \cup {o} /\ ops'[o] = begun(op, e)
    BY <1>1, WriteSets
  <2> QED BY <1>2, <2>1
<1> HIDE DEF e, op
<1>7. Pending(o)' = Pending(o) \ {e}
  BY <1>5, <1>6 DEF Pending, op
<1>8. todo'[o] = todo[o] \ {e} /\ pc'[o] \in {"begin", "skip"}
  BY <1>1, <1>4 DEF ActionTypes
<1>9. exec'[o] = exec[o] \/ (exec'[o] = exec[o] \cup {e} /\ e \in Pending(o))
  <2>1. CASE e \in plans[o].targets /\ executes(op, e)
    <3>1. e \in DOMAIN op.effect /\ op.effect[e] = "pending"
      BY <1>2, <2>1 DEF effectsOf, executes
    <3>2. exec'[o] = exec[o] \cup {e}
      BY <1>1, <1>4, <2>1 DEF ActionTypes
    <3> QED BY <3>1, <3>2 DEF Pending, op
  <2>2. CASE ~(e \in plans[o].targets /\ executes(op, e))
    BY <1>1, <2>2
  <2> QED BY <2>1, <2>2
<1>10. Others(o) /\ ActionTypes'
  <2>1. UNCHANGED ops \/ \E new : write(o, new)
    BY <1>1
  <2>2. UNCHANGED exec \/ \E t : exec' = [exec EXCEPT ![o] = t]
    BY <1>1
  <2>3. UNCHANGED todo \/ \E t : todo' = [todo EXCEPT ![o] = t]
    BY <1>1
  <2>4. UNCHANGED pc \/ \E next : step(o, next)
    BY <1>1 DEF step
  <2> QED BY <1>1, <1>4, <2>1, <2>2, <2>3, <2>4, StepsAlone
<1>11. Executes(o)
  BY <1>1, <1>3, <1>4, <1>5, <1>6, <1>7, <1>8, <1>9, <1>10 DEF Executes, ActorTypes, op
<1>12. RanOnce(o)'
  <2>1. \A x \in exec'[o] : x \in DOMAIN ops'[o].effect \ Pending(o)' /\ ran'[o][x] = 0
    BY <1>1, <1>2, <1>4, <1>5, <1>6, <1>7, <1>9 DEF RanOnce, Pending, op
  <2> QED BY <1>1, <1>2, <1>4, <1>6, <1>7, <1>8, <2>1 DEF RanOnce
<1>13. Untouched(o)'
  BY <1>1, <1>2, <1>4, <1>5, <1>6, <1>7, <1>8, <1>9 DEF Untouched, op
<1> QED BY <1>1, <1>11, <1>12, <1>13, ActorExecutes

\* The transitions at the head of applyAccepted.
LEMMA AcceptsPhase ==
  ASSUME ActionAccount, NEW o \in Ids, acceptPhase(o)
  PROVE  ActionAccount'
<1>1. /\ pc[o] = "advance" /\ UNCHANGED <<plans, unproved, boot, ran, touched>>
  BY DEF acceptPhase, history
<1>2. /\ o \in DOMAIN ops /\ o \in DOMAIN plans /\ OpShape(ops[o])
      /\ DOMAIN ops[o].effect \subseteq Envs /\ ~Terminal(ops[o])
  BY <1>1, OwnRecord
<1>3. ActionTypes /\ ActorTypes(o) /\ RanOnce(o) /\ Untouched(o)
  BY DEF ActionAccount, OperationAt
<1>4. CASE ops[o].phase \in {"staging", "proving"}
  <2>1. /\ step(o, "begin") /\ todo' = [todo EXCEPT ![o] = DOMAIN ops[o].effect]
        /\ exec' = [exec EXCEPT ![o] = {}] /\ UNCHANGED ops
    BY <1>4 DEF acceptPhase
  <2>2. pc'[o] = "begin" /\ todo'[o] = DOMAIN ops[o].effect /\ exec'[o] = {}
    BY <1>3, <2>1 DEF ActionTypes, step
  <2>3. Others(o) /\ ActionTypes'
    BY <1>1, <1>3, <2>1, StepsAlone
  <2>4. Pending(o)' = Pending(o) /\ Pending(o) \subseteq DOMAIN ops[o].effect
    BY <2>1 DEF Pending
  <2>5. Executes(o)
    BY <1>1, <1>2, <1>3, <2>1, <2>2, <2>3, <2>4 DEF Executes, ActorTypes
  <2>6. RanOnce(o)'
    BY <1>1, <1>3, <2>1, <2>2, <2>4 DEF RanOnce
  <2>7. Untouched(o)'
    BY <1>1, <1>3, <2>1, <2>2, <2>4 DEF Untouched
  <2> QED BY <1>1, <2>5, <2>6, <2>7, ActorExecutes
<1>5. CASE ops[o].phase \notin {"staging", "proving"}
  <2>1. write(o, transitioned(ops[o], nextPhase(ops[o].phase))) /\ UNCHANGED <<pc, todo, exec>>
    BY <1>5 DEF acceptPhase
  <2>2. nextPhase(ops[o].phase) \notin TerminalPhases
    BY <1>2 DEF nextPhase, Terminal, TerminalPhases
  <2>3. nextPhase(ops[o].phase) # "failed" /\ nextPhase(ops[o].phase) # "succeeded"
    BY <2>2 DEF TerminalPhases
  <2>4. Follows(o, transitioned(ops[o], nextPhase(ops[o].phase)), "advance")
    BY <1>2, <2>2, <2>3, TransitionFollows
  <2>5. Rests(o, "advance")
    BY <1>1, <2>1, <2>4 DEF Rests
  <2>6. PlanStays(o) /\ "advance" \in RestSteps
    BY <1>1, <1>2, PlanUnchanged DEF RestSteps
  <2> QED BY <1>1, <2>5, <2>6, ActorRests
<1> QED BY <1>4, <1>5

\* FinishEffect of a skipped target.
LEMMA FinishesSkipped ==
  ASSUME ActionAccount, NEW o \in Ids, finishSkipped(o)
  PROVE  ActionAccount'
<1>1. /\ pc[o] = "skip" /\ step(o, "begin")
      /\ UNCHANGED <<plans, todo, exec, unproved, boot, ran, touched>>
  BY DEF finishSkipped, history
<1>2. /\ o \in DOMAIN ops /\ OpShape(ops[o]) /\ ~Terminal(ops[o])
  BY <1>1, OwnRecord
<1>3. ActionTypes /\ ActorTypes(o) /\ RanOnce(o) /\ Untouched(o)
  BY DEF ActionAccount, OperationAt
<1>4. PICK e : write(o, finished(ops[o], e, "succeeded"))
  BY DEF finishSkipped
<1>5. LET new == finished(ops[o], e, "succeeded")
      IN  /\ OpShape(new) /\ new.phase = ops[o].phase
          /\ DOMAIN new.effect = DOMAIN ops[o].effect
          /\ \A d \in DOMAIN ops[o].effect :
               new.effect[d] = ops[o].effect[d] \/ new.effect[d] = "succeeded"
  BY SMTT(60), <1>2, FinishedIs
<1>6. DOMAIN ops' = DOMAIN ops /\ ops'[o] = finished(ops[o], e, "succeeded")
  <2>1. DOMAIN ops' = DOMAIN ops \cup {o} /\ ops'[o] = finished(ops[o], e, "succeeded")
    BY <1>4, WriteSets
  <2> QED BY <1>2, <2>1
<1>7. Pending(o)' \subseteq Pending(o)
  BY <1>5, <1>6 DEF Pending
<1>8. pc'[o] = "begin"
  BY <1>1, <1>3 DEF ActionTypes, step
<1>9. Others(o) /\ ActionTypes'
  BY <1>1, <1>3, <1>4, StepsAlone
<1>10. Executes(o)
  BY <1>1, <1>3, <1>5, <1>6, <1>7, <1>8, <1>9 DEF Executes, ActorTypes
<1>11. RanOnce(o)'
  BY <1>1, <1>2, <1>3, <1>5, <1>6, <1>7, <1>8 DEF RanOnce
<1>12. Untouched(o)'
  BY <1>1, <1>2, <1>3, <1>5, <1>6, <1>7, <1>8 DEF Untouched
<1> QED BY <1>1, <1>10, <1>11, <1>12, ActorExecutes

\* All effects are begun: the executor is called for the new ones.
LEMMA BeginsDone ==
  ASSUME ActionAccount, NEW o \in Ids, beginDone(o)
  PROVE  ActionAccount'
<1>1. /\ pc[o] = "begin" /\ todo[o] = {} /\ todo' = [todo EXCEPT ![o] = exec[o]]
      /\ step(o, IF exec[o] = {} THEN "toProve" ELSE "execute")
      /\ UNCHANGED <<ops, plans, exec, unproved, boot, ran, touched>>
  BY DEF beginDone, history
<1>2. /\ o \in DOMAIN ops /\ OpShape(ops[o])
  BY <1>1, OwnRecord
<1>3. ActionTypes /\ ActorTypes(o) /\ RanOnce(o) /\ Untouched(o)
  BY DEF ActionAccount, OperationAt
<1>4. /\ todo'[o] = exec[o] /\ pc'[o] \in {"toProve", "execute"}
      /\ pc'[o] = "execute" => exec[o] # {}
  BY <1>1, <1>3 DEF ActionTypes, step
<1>5. Others(o) /\ ActionTypes'
  BY <1>1, <1>3, StepsAlone
<1>6. Pending(o)' = {} /\ Pending(o) = {}
  BY <1>1, <1>3 DEF Untouched, Pending
<1>7. Executes(o)
  BY <1>1, <1>2, <1>3, <1>4, <1>5, <1>6 DEF Executes, ActorTypes
<1>8. RanOnce(o)'
  BY <1>1, <1>3, <1>4, <1>6 DEF RanOnce
<1>9. Untouched(o)'
  BY <1>1, <1>3, <1>4, <1>6 DEF Untouched
<1> QED BY <1>1, <1>7, <1>8, <1>9, ActorExecutes

\* A call of the executor for the next target, whatever its outcome.
Runs(o, next) ==
  /\ pc[o] = "execute" /\ todo[o] # {} /\ step(o, next)
  /\ ran' = [ran EXCEPT ![o][first(todo[o])] = @ + 1]
  /\ UNCHANGED touched \/ touched' = [touched EXCEPT ![o] = @ \cup {first(todo[o])}]
  /\ UNCHANGED todo \/ todo' = [todo EXCEPT ![o] = @ \ {first(todo[o])}]
  /\ next = "execute" => todo' = [todo EXCEPT ![o] = @ \ {first(todo[o])}]
  /\ next = "refused" => UNCHANGED touched /\ touched[o] = {}
  /\ UNCHANGED <<ops, plans, exec, unproved, boot>>

\* A call of the executor is the first for its target.
LEMMA TargetRuns ==
  ASSUME ActionAccount, NEW o \in Ids, NEW next \in {"execute", "toProve", "refused"}, Runs(o, next)
  PROVE  ActionAccount'
<1> DEFINE e == first(todo[o])
<1>1. /\ pc[o] = "execute" /\ ran' = [ran EXCEPT ![o][e] = @ + 1] /\ step(o, next)
      /\ UNCHANGED <<ops, plans, exec, unproved, boot>>
  BY DEF Runs
<1>2. o \in DOMAIN ops /\ o \in DOMAIN plans /\ OpShape(ops[o])
  BY <1>1, OwnRecord
<1>3. ActionTypes /\ ActorTypes(o) /\ RanOnce(o) /\ Untouched(o)
  BY DEF ActionAccount, OperationAt
<1>4. e \in todo[o] /\ e \in Envs
  BY NextTarget DEF Runs
<1>5. /\ UNCHANGED touched \/ touched' = [touched EXCEPT ![o] = @ \cup {e}]
      /\ UNCHANGED todo \/ todo' = [todo EXCEPT ![o] = @ \ {e}]
      /\ next = "execute" => todo' = [todo EXCEPT ![o] = @ \ {e}]
      /\ next = "refused" => UNCHANGED touched /\ touched[o] = {}
  BY DEF Runs
<1> HIDE DEF e
<1>6. /\ pc'[o] = next /\ todo'[o] \subseteq todo[o]
      /\ next = "execute" => todo'[o] = todo[o] \ {e}
      /\ touched'[o] = touched[o] \/ touched'[o] = touched[o] \cup {e}
      /\ next = "refused" => touched'[o] = {}
  BY <1>1, <1>3, <1>5 DEF ActionTypes, step
<1>7. ran[o][e] = 0 /\ ran'[o][e] = 1 /\ \A d \in Envs \ {e} : ran'[o][d] = ran[o][d]
  <2>1. ran[o][e] = 0
    BY <1>1, <1>3, <1>4 DEF RanOnce
  <2>2. ran'[o] = [ran[o] EXCEPT ![e] = @ + 1] /\ DOMAIN ran[o] = Envs
    BY <1>1, <1>3 DEF ActionTypes
  <2> QED BY SMTT(60), <1>4, <2>1, <2>2
<1>8. Others(o) /\ ActionTypes'
  <2>1. UNCHANGED touched \/ \E t : touched' = [touched EXCEPT ![o] = t]
    BY <1>5
  <2>2. UNCHANGED todo \/ \E t : todo' = [todo EXCEPT ![o] = t]
    BY <1>5
  <2> QED BY <1>1, <1>3, <1>4, <2>1, <2>2, StepsAlone
<1>9. Pending(o)' = {} /\ Pending(o) = {}
  BY <1>1, <1>3 DEF Untouched, Pending
<1>10. Executes(o)
  BY <1>1, <1>2, <1>3, <1>4, <1>6, <1>8, <1>9 DEF Executes, ActorTypes
<1>11. RanOnce(o)'
  <2>1. \A d \in Envs : ran'[o][d] \in {0, 1}
    BY <1>3, <1>7 DEF RanOnce
  <2>2. next = "execute" =>
          \A d \in todo'[o] : d \in DOMAIN ops'[o].effect \ Pending(o)' /\ ran'[o][d] = 0
    BY <1>1, <1>3, <1>6, <1>7, <1>9 DEF RanOnce, ActorTypes
  <2> QED BY <1>1, <1>2, <1>6, <1>9, <2>1, <2>2 DEF RanOnce
<1>12. Untouched(o)'
  <2>1. next = "execute" => todo'[o] \subseteq exec'[o] /\ todo'[o] # exec'[o]
    BY <1>1, <1>3, <1>4, <1>6 DEF Untouched
  <2>2. ops'[o].phase = "failed" => touched'[o] = {}
    <3>1. ~Terminal(ops[o])
      BY <1>1, OwnRecord
    <3> QED BY <1>1, <3>1 DEF Terminal, TerminalPhases
  <2> QED BY <1>1, <1>2, <1>6, <1>9, <2>1, <2>2 DEF Untouched
<1> QED BY <1>1, <1>10, <1>11, <1>12, ActorExecutes

\* The executor succeeds, fails or refuses.
LEMMA ExecutorCalls ==
  ASSUME ActionAccount, NEW o \in Ids, execute(o) \/ executeFails(o) \/ executeRefused(o)
  PROVE  ActionAccount'
<1>1. CASE execute(o)
  <2>1. PICK next \in {"execute", "toProve"} : step(o, next)
    BY <1>1 DEF execute
  <2>2. Runs(o, next)
    BY <1>1, <2>1 DEF execute, Runs
  <2> QED BY <2>1, <2>2, TargetRuns
<1>2. CASE executeFails(o)
  <2>1. Runs(o, "toProve")
    BY <1>2 DEF executeFails, Runs
  <2> QED BY <2>1, TargetRuns
<1>3. CASE executeRefused(o)
  <2>1. /\ pc[o] = "execute" /\ todo[o] # {}
        /\ ran' = [ran EXCEPT ![o][first(todo[o])] = @ + 1]
        /\ UNCHANGED <<ops, plans, todo, exec, unproved, boot, touched>>
    BY <1>3 DEF executeRefused
  <2>2. PICK next \in {"refused", "toProve"} :
          step(o, next) /\ (next = "refused" => Cardinality(exec[o]) = 1)
    BY <1>3 DEF executeRefused, refusalIsFinal
  <2>3. next = "refused" => touched[o] = {}
    <3> SUFFICES ASSUME next = "refused" PROVE touched[o] = {}
      OBVIOUS
    <3>1. exec[o] \subseteq Envs /\ todo[o] \subseteq exec[o]
          /\ (touched[o] = {} \/ todo[o] # exec[o])
      BY <2>1 DEF ActionAccount, OperationAt, ActorTypes, Untouched
    <3>2. IsFiniteSet(exec[o])
      BY <3>1, EnvironmentActionsAssumption, FS_Subset
    <3>3. \E x : exec[o] = {x}
      BY <2>2, <3>2, FS_Singleton
    <3> QED BY <2>1, <3>1, <3>3
  <2>4. Runs(o, next)
    BY <2>1, <2>2, <2>3 DEF Runs
  <2> QED BY <2>2, <2>4, TargetRuns
<1> QED BY <1>1, <1>2, <1>3

\* Prepare of a new operation, and the retention of the ledger.
LEMMA Reserves ==
  ASSUME ActionAccount, NEW o \in Ids, Reserve(o)
  PROVE  ActionAccount'
<1>1. /\ up /\ o \notin DOMAIN ops /\ o \notin DOMAIN plans /\ step(o, "write")
      /\ UNCHANGED <<todo, exec, unproved, boot, ran, touched>>
  BY DEF Reserve, history
<1>2. PICK action \in {"stop", "clean"}, selected \in SUBSET Envs :
        LET plan == planOf(action, selected)
            kept == DOMAIN ops \ pruned(MaxRecords - 1)
        IN  /\ ops' = [x \in kept \cup {o} |-> IF x = o THEN reserved(effectsOf(plan)) ELSE ops[x]]
            /\ plans' = with(plans, o, plan)
  BY DEF Reserve
<1> DEFINE plan == planOf(action, selected)
<1> DEFINE kept == DOMAIN ops \ pruned(MaxRecords - 1)
<1>3. /\ DOMAIN ops' = kept \cup {o} /\ ops'[o] = reserved(effectsOf(plan))
      /\ \A x \in kept \ {o} : ops'[x] = ops[x]
  BY <1>2
<1>4. /\ DOMAIN plans' = DOMAIN plans \cup {o} /\ plans'[o] = plan
      /\ \A x \in DOMAIN plans \ {o} : plans'[x] = plans[x]
  BY <1>2 DEF with
<1>5. PlanShape(plan)
  BY SMTT(60) DEF planOf, PlanShape
<1>6. \A x \in DOMAIN ops \ kept : Terminal(ops[x])
  BY DEF pruned
<1>7. /\ OpShape(ops'[o]) /\ DOMAIN ops'[o].effect = effectsOf(plan)
      /\ ops'[o].phase = "planned"
  BY SMTT(60), <1>3 DEF OpShape, reserved
<1> HIDE DEF plan, kept
<1>8. ActionTypes /\ OperationAt(o)
  BY DEF ActionAccount
<1>9. pc'[o] = "write" /\ DOMAIN pc' = Ids /\ \A x \in Ids \ {o} : pc'[x] = pc[x]
  BY <1>1, <1>8 DEF ActionTypes, step
<1>10. ActionTypes'
  BY <1>1, <1>3, <1>4, <1>8, <1>9 DEF ActionTypes, kept
<1>11. Others(o)
  BY <1>1, <1>3, <1>4, <1>6, <1>9 DEF Others, kept
<1>12. ActorTypes(o)'
  BY <1>1, <1>3, <1>4, <1>5, <1>7, <1>8, <1>9
     DEF OperationAt, ActorTypes, ActorSteps, Terminal, TerminalPhases
<1>13. RanOnce(o)' /\ Untouched(o)' /\ ResultKept(o)'
  <2>1. Pending(o)' \subseteq Envs
    BY <1>5, <1>7 DEF Pending, PlanShape, effectsOf
  <2>2. touched[o] = {} /\ \A e \in Envs : ran[o][e] = 0
    BY <1>1, <1>8 DEF OperationAt, RanOnce, Untouched
  <2>3. RanOnce(o)'
    BY <1>1, <1>9, <2>1, <2>2 DEF RanOnce
  <2> QED BY <1>1, <1>7, <1>9, <2>2, <2>3 DEF Untouched, ResultKept
<1> QED BY <1>1, <1>10, <1>11, <1>12, <1>13, ActsAlone DEF OperationAt

\* The daemon stops.
LEMMA Crashes ==
  ASSUME ActionAccount, Crash
  PROVE  ActionAccount'
<1>1. /\ pc' = [o \in Ids |-> "idle"] /\ todo' = [o \in Ids |-> {}]
      /\ exec' = [o \in Ids |-> {}] /\ unproved' = [o \in Ids |-> FALSE]
      /\ UNCHANGED <<ops, plans, ran, touched>>
  BY DEF Crash, history
<1>2. DOMAIN boot' = {"todo", "tried"} /\ boot'.todo \subseteq DOMAIN ops
      /\ \A o \in boot'.todo : ~Terminal(ops[o])
  BY DEF Crash
<1>3. ActionTypes'
  BY <1>1 DEF ActionAccount, ActionTypes
<1>4. BootAt'
  BY <1>1, <1>2 DEF BootAt
<1>5. ASSUME NEW o \in Ids PROVE OperationAt(o)'
  <2>1. OperationAt(o) /\ pc'[o] = "idle" /\ todo'[o] = {} /\ exec'[o] = {}
    BY <1>1 DEF ActionAccount
  <2>2. Pending(o)' = Pending(o)
    BY <1>1 DEF Pending
  <2>3. ActorTypes(o)'
    BY <1>1, <2>1 DEF OperationAt, ActorTypes, ActorSteps
  <2>4. RanOnce(o)' /\ Untouched(o)' /\ ResultKept(o)'
    BY <1>1, <2>1, <2>2 DEF OperationAt, RanOnce, Untouched, ResultKept
  <2> QED BY <2>3, <2>4 DEF OperationAt
<1> QED BY <1>3, <1>4, <1>5 DEF ActionAccount

\* The operation the starting daemon is at.
LEMMA BootOperation ==
  ASSUME ActionAccount, ~up
  PROVE  first(boot.todo) \in boot.todo /\ first(boot.todo) \in DOMAIN ops
<1>1. boot.todo \subseteq DOMAIN ops /\ boot.todo # {}
  BY DEF ActionAccount, BootAt, up
<1>2. boot.todo \in SUBSET Nat
  BY <1>1, EnvironmentActionsAssumption DEF ActionAccount, ActionTypes
<1> QED BY <1>1, <1>2, FirstIsIn

\* The starting daemon takes up an operation ...
LEMMA BootReconciles ==
  ASSUME ActionAccount, NEW o \in Ids, reconcileOne(o)
  PROVE  ActionAccount'
<1>1. /\ ~up /\ o = first(boot.todo) /\ pc[o] = "idle" /\ ~boot.tried
      /\ boot' = [boot EXCEPT !.tried = TRUE]
      /\ UNCHANGED <<ops, plans, todo, exec, unproved, ran, touched>>
  BY DEF reconcileOne, history
<1>2. PICK next \in {"advance", "proveAccepted"} : step(o, next)
  BY DEF reconcileOne, reconcileTo
<1>3. o \in boot.todo /\ o \in DOMAIN ops
  BY <1>1, BootOperation
<1>4. ~Terminal(ops[o])
  BY <1>1, <1>3 DEF ActionAccount, BootAt
<1>5. Others(o) /\ ActionTypes'
  BY <1>1, <1>2, StepsAlone DEF ActionAccount
<1>6. OperationAt(o) /\ pc'[o] = next /\ Pending(o)' = Pending(o)
  BY <1>1, <1>2 DEF ActionAccount, ActionTypes, step, Pending
<1>7. OperationAt(o)'
  <2>1. ActorTypes(o)'
    BY <1>1, <1>2, <1>3, <1>4, <1>6 DEF OperationAt, ActorTypes, ActorSteps
  <2>2. RanOnce(o)' /\ Untouched(o)' /\ ResultKept(o)'
    BY <1>1, <1>2, <1>6 DEF OperationAt, RanOnce, Untouched, ResultKept
  <2> QED BY <2>1, <2>2 DEF OperationAt
<1>8. DOMAIN boot' = {"todo", "tried"} /\ boot'.todo = boot.todo /\ boot'.tried
  BY <1>1 DEF ActionAccount, BootAt
<1>9. \A x \in Ids \ {o} : pc'[x] = "idle"
  BY <1>1, <1>5 DEF ActionAccount, BootAt, Others
<1>10. BootAt'
  BY <1>1, <1>8, <1>9 DEF ActionAccount, BootAt
<1> QED BY <1>5, <1>7, <1>10, OthersKeep DEF ActionAccount

\* ... and leaves it.
LEMMA BootSettles ==
  ASSUME ActionAccount, NEW o \in Ids, reconcileOneEnds(o)
  PROVE  ActionAccount'
<1>1. /\ ~up /\ o = first(boot.todo) /\ pc[o] = "idle" /\ boot.tried
      /\ boot' = [todo |-> boot.todo \ {o}, tried |-> FALSE]
      /\ write(o, settled(ops[o]))
      /\ UNCHANGED <<plans, pc, todo, exec, unproved, ran, touched>>
  BY DEF reconcileOneEnds, actor, history
<1>2. o \in boot.todo /\ o \in DOMAIN ops
  BY <1>1, BootOperation
<1>3. OperationAt(o) /\ OpShape(ops[o])
  BY <1>2 DEF ActionAccount, OperationAt, ActorTypes
<1>4. /\ OpShape(settled(ops[o])) /\ settled(ops[o]).effect = ops[o].effect
      /\ settled(ops[o]).phase = ops[o].phase \/ settled(ops[o]).phase = "recovery-required"
  BY SMTT(60), <1>3, UpdatedIs DEF settled
<1>5. DOMAIN ops' = DOMAIN ops /\ ops'[o] = settled(ops[o])
  <2>1. DOMAIN ops' = DOMAIN ops \cup {o} /\ ops'[o] = settled(ops[o])
    BY <1>1, WriteSets
  <2> QED BY <1>2, <2>1
<1>6. Others(o) /\ ActionTypes'
  BY <1>1, StepsAlone DEF ActionAccount
<1>7. Pending(o)' = Pending(o)
  BY <1>4, <1>5 DEF Pending
<1>8. OperationAt(o)'
  <2>1. ActorTypes(o)'
    BY <1>1, <1>2, <1>3, <1>4, <1>5 DEF OperationAt, ActorTypes
  <2>2. RanOnce(o)' /\ Untouched(o)' /\ ResultKept(o)'
    BY <1>1, <1>2, <1>3, <1>4, <1>5, <1>7 DEF OperationAt, RanOnce, Untouched,
       ResultKept
  <2> QED BY <2>1, <2>2 DEF OperationAt
<1>9. /\ DOMAIN boot' = {"todo", "tried"} /\ boot'.todo = boot.todo \ {o}
  BY <1>1
<1>10. \A x \in boot'.todo : x \in DOMAIN ops' /\ ~Terminal(ops'[x])
  <2>1. \A x \in boot.todo \ {o} : x \in Ids /\ x \in DOMAIN ops /\ ~Terminal(ops[x])
    BY <1>1 DEF ActionAccount, BootAt, ActionTypes
  <2> QED BY <1>5, <1>6, <1>9, <2>1 DEF Others
<1>11. \A x \in Ids : pc'[x] = "idle"
  BY <1>1 DEF ActionAccount, BootAt
<1>12. BootAt'
  BY <1>9, <1>10, <1>11 DEF BootAt
<1> QED BY <1>6, <1>8, <1>12, OthersKeep DEF ActionAccount

\* The ledger is empty at first.
LEMMA ActionAccountInit == Init => ActionAccount
<1> SUFFICES ASSUME Init PROVE ActionAccount
  OBVIOUS
<1>1. /\ DOMAIN ops = {} /\ DOMAIN plans = {}
      /\ pc = [o \in Ids |-> "idle"] /\ todo = [o \in Ids |-> {}]
      /\ exec = [o \in Ids |-> {}] /\ unproved = [o \in Ids |-> FALSE]
      /\ boot = [todo |-> {}, tried |-> FALSE]
      /\ ran = [o \in Ids |-> [e \in Envs |-> 0]] /\ touched = [o \in Ids |-> {}]
  BY SMTT(60) DEF Init
<1>2. ActionTypes
  BY SMTT(60), <1>1 DEF ActionTypes
<1>3. BootAt
  BY <1>1 DEF BootAt, up
<1>4. ASSUME NEW o \in Ids PROVE OperationAt(o)
  BY <1>1 DEF OperationAt, ActorTypes, ActorSteps, RanOnce, Untouched, ResultKept
<1> QED BY <1>2, <1>3, <1>4 DEF ActionAccount

\* Every step keeps the account.
LEMMA ActionAccountSteps == ActionAccount /\ [Next]_vars => ActionAccount'
<1> SUFFICES ASSUME ActionAccount, [Next]_vars PROVE ActionAccount'
  OBVIOUS
<1>1. ASSUME NEW o \in Ids, Client(o) \/ Act(o) \/ storeFails(o)
      PROVE  ActionAccount'
  BY <1>1, RestingSteps, AcceptsPhase, BeginsEffect, FinishesSkipped, BeginsDone,
     ExecutorCalls, Reserves, BootReconciles, BootSettles DEF Client, Act
<1>2. ASSUME UNCHANGED <<ops, plans, pc, todo, exec, unproved, ran, touched, boot>>
      PROVE  ActionAccount'
  <2>1. ActionTypes' /\ BootAt'
    BY <1>2 DEF ActionAccount, ActionTypes, BootAt, up
  <2>2. ASSUME NEW o \in Ids PROVE OperationAt(o)'
    <3>1. OperationAt(o) /\ Pending(o)' = Pending(o)
      BY <1>2 DEF ActionAccount, Pending
    <3>2. ActorTypes(o)'
      BY <1>2, <3>1 DEF OperationAt, ActorTypes
    <3>3. RanOnce(o)' /\ Untouched(o)' /\ ResultKept(o)'
      BY <1>2, <3>1 DEF OperationAt, RanOnce, Untouched, ResultKept
    <3> QED BY <3>2, <3>3 DEF OperationAt
  <2> QED BY <2>1, <2>2 DEF ActionAccount
<1>3. ASSUME NEW e \in Envs, StartEnvironment(e)
      PROVE  UNCHANGED <<ops, plans, pc, todo, exec, unproved, ran, touched, boot>>
  BY <1>3 DEF StartEnvironment, actor, history
<1>4. CASE UNCHANGED vars
  BY <1>2, <1>4 DEF vars
<1> QED BY <1>1, <1>2, <1>3, <1>4, Crashes DEF Next

\* What the starting daemon has yet to say of an accepted operation.
HintAt(o) ==
  /\ o \in accepted => o \in DOMAIN plans
  /\ o \in DOMAIN ops /\ o \in accepted => ops[o].phase # "planned"
  /\ o \in DOMAIN ops /\ ops[o].phase = "recovery-required" => hasProviderRecovery(ops[o])
  /\ o \in DOMAIN ops /\ o \in accepted /\ ~up /\ o \notin boot.todo =>
       Terminal(ops[o]) \/ hasProviderRecovery(ops[o])

\* The second inductive invariant.
Hinted == \A o \in Ids : HintAt(o)

\* A record that may follow one without losing its hint.
KeepsHint(o, new) ==
  /\ new.phase = "planned" => ops[o].phase = "planned"
  /\ new.phase = "recovery-required" => new.recovery # "retry-operation"

\* A step that loses no hint.
HintStep(o) ==
  /\ UNCHANGED <<ops, accepted>> \/ \E new : write(o, new) /\ KeepsHint(o, new)
  /\ DOMAIN plans \subseteq DOMAIN plans' /\ UNCHANGED boot

\* Such a step keeps the hints.
LEMMA HintsKept ==
  ASSUME ActionAccount, Hinted, NEW o \in Ids, HintStep(o),
         pc[o] # "idle" \/ (up /\ o \in DOMAIN ops)
  PROVE  Hinted'
<1>1. o \in DOMAIN ops /\ o \in DOMAIN plans
  BY OwnRecord
<1>2. CASE UNCHANGED <<ops, accepted>>
  BY <1>2 DEF HintStep, Hinted, HintAt, up
<1>3. ASSUME NEW new, write(o, new), KeepsHint(o, new)
      PROVE  Hinted'
  <2>1. /\ DOMAIN ops' = DOMAIN ops \cup {o} /\ ops'[o] = new
        /\ \A x \in DOMAIN ops \ {o} : ops'[x] = ops[x]
    BY <1>3, WriteSets
  <2>2. /\ accepted' \subseteq accepted \cup {o} /\ accepted \subseteq accepted'
        /\ new.phase = "planned" => accepted' = accepted
    BY <1>3 DEF write
  <2>3. ASSUME NEW x \in Ids \ {o} PROVE HintAt(x)'
    BY <2>1, <2>2 DEF HintStep, Hinted, HintAt, up
  <2>4. HintAt(o)'
    <3>1. ~up => o \in boot.todo
      BY BootOperation DEF ActionAccount, BootAt
    <3> QED BY <1>1, <1>3, <2>1, <2>2, <3>1
            DEF HintStep, Hinted, HintAt, KeepsHint, hasProviderRecovery, up
  <2> QED BY <2>3, <2>4 DEF Hinted
<1> QED BY <1>2, <1>3 DEF HintStep

\* The calls of the ledger lose no hint.
LEMMA TransitionKeepsHint ==
  ASSUME NEW o, OpShape(ops[o]), HintAt(o), o \in DOMAIN ops, NEW phase,
         phase \notin {"planned", "recovery-required"}
  PROVE  KeepsHint(o, transitioned(ops[o], phase))
BY SMTT(60) DEF transitioned, KeepsHint, OpShape

LEMMA EffectKeepsHint ==
  ASSUME NEW o, OpShape(ops[o]), HintAt(o), o \in DOMAIN ops, NEW e
  PROVE  /\ KeepsHint(o, ops[o]) /\ KeepsHint(o, begun(ops[o], e))
         /\ \A status : KeepsHint(o, finished(ops[o], e, status))
<1>1. KeepsHint(o, ops[o])
  BY DEF HintAt, KeepsHint, hasProviderRecovery
<1>2. KeepsHint(o, begun(ops[o], e))
  BY SMTT(60), <1>1 DEF begun, KeepsHint, OpShape
<1>3. ASSUME NEW status PROVE KeepsHint(o, finished(ops[o], e, status))
  BY SMTT(60), <1>1 DEF finished, KeepsHint, OpShape
<1> QED BY <1>1, <1>2, <1>3

LEMMA RecoveryKeepsHint ==
  ASSUME NEW o, OpShape(ops[o]), ~Terminal(ops[o]), NEW code, code # "retry-operation", NEW require
  PROVE  /\ KeepsHint(o, updateRecovery(ops[o], code, require))
         /\ hasProviderRecovery(updateRecovery(ops[o], code, require))
BY SMTT(60) DEF updateRecovery, KeepsHint, OpShape, hasProviderRecovery

\* Nor do the steps of an actor.
LEMMA ActorsKeepHints ==
  ASSUME ActionAccount, Hinted, NEW o \in Ids,
         Client(o) \/ Act(o) \/ storeFails(o), UNCHANGED boot, ~Reserve(o)
  PROVE  HintStep(o) /\ (pc[o] # "idle" \/ (up /\ o \in DOMAIN ops))
<1>o. pc[o] # "idle" => /\ o \in DOMAIN ops /\ OpShape(ops[o]) /\ ~Terminal(ops[o])
                        /\ o \in DOMAIN plans
  BY OwnRecord
<1>h. HintAt(o)
  BY DEF Hinted
<1>t. pc[o] # "idle" =>
        \A phase \in {"cancelled", "failed", "succeeded", "proving"} :
          KeepsHint(o, transitioned(ops[o], phase))
  BY <1>o, <1>h, TransitionKeepsHint
<1>e. pc[o] # "idle" =>
        /\ KeepsHint(o, ops[o])
        /\ \A e : KeepsHint(o, begun(ops[o], e))
        /\ \A e, status : KeepsHint(o, finished(ops[o], e, status))
  BY <1>o, <1>h, EffectKeepsHint
<1>b. ~reconcileOne(o) /\ ~reconcileOneEnds(o)
  <2>1. ~up => first(boot.todo) \in boot.todo
    BY BootOperation
  <2>2. DOMAIN boot = {"todo", "tried"}
    BY DEF ActionAccount, BootAt
  <2>3. ASSUME reconcileOne(o) PROVE FALSE
    BY SMTT(60), <2>2, <2>3 DEF reconcileOne
  <2>4. ASSUME reconcileOneEnds(o) PROVE FALSE
    BY SMTT(60), <2>1, <2>4 DEF reconcileOneEnds
  <2> QED BY <2>3, <2>4
<1>1. CASE Apply(o) \/ ReconcileOperation(o)
  BY <1>1 DEF Apply, ReconcileOperation, HintStep
<1>2. CASE writePlanRecord(o)
  <2>1. DOMAIN plans' = DOMAIN plans /\ pc[o] # "idle"
    BY <1>2 DEF writePlanRecord
  <2> QED BY <1>2, <1>t, <2>1 DEF writePlanRecord, HintStep
<1>3. CASE acceptPhase(o)
  <2>1. pc[o] # "idle" /\ UNCHANGED plans
    BY <1>3 DEF acceptPhase
  <2>2. CASE ops[o].phase \in {"staging", "proving"}
    BY <1>3, <2>1, <2>2 DEF acceptPhase, HintStep
  <2>3. CASE ops[o].phase \notin {"staging", "proving"}
    <3>1. nextPhase(ops[o].phase) \notin {"planned", "recovery-required"}
      BY DEF nextPhase
    <3>2. KeepsHint(o, transitioned(ops[o], nextPhase(ops[o].phase)))
      BY <1>o, <1>h, <2>1, <3>1, TransitionKeepsHint
    <3> QED BY <1>3, <2>1, <2>3, <3>2 DEF acceptPhase, HintStep
  <2> QED BY <2>2, <2>3
<1>4. CASE beginEffect(o)
  BY <1>4, <1>e DEF beginEffect, HintStep
<1>5. CASE finishSkipped(o) \/ finishRefused(o) \/ proveTarget(o) \/ proveAccepted(o)
  BY <1>5, <1>e, <1>t DEF finishSkipped, finishRefused, proveTarget, proveAccepted,
     HintStep
<1>6. CASE \/ beginDone(o) \/ execute(o) \/ executeFails(o) \/ executeRefused(o)
           \/ storeFails(o)
  BY <1>6 DEF beginDone, execute, executeFails, executeRefused, storeFails, HintStep
<1>7. CASE terminalFailed(o) \/ toProving(o) \/ terminalSucceeded(o)
  BY <1>7, <1>t DEF terminalFailed, toProving, terminalSucceeded, HintStep
<1>8. CASE requireActionRecovery(o)
  <2>1. pc[o] # "idle"
    BY <1>8 DEF requireActionRecovery
  <2>2. KeepsHint(o, updateRecovery(ops[o], "provider", TRUE))
    BY <1>o, <2>1, RecoveryKeepsHint
  <2> QED BY <1>8, <2>1, <2>2 DEF requireActionRecovery, HintStep
<1>9. CASE storeResult(o)
  BY <1>9 DEF storeResult, HintStep
<1> QED BY <1>b, <1>1, <1>2, <1>3, <1>4, <1>5, <1>6, <1>7, <1>8, <1>9 DEF Client, Act

\* Only the starting daemon and a stop of it change what is to be reconciled.
LEMMA BootStays ==
  ASSUME NEW o, Client(o) \/ Act(o) \/ storeFails(o), ~reconcileOne(o), ~reconcileOneEnds(o)
  PROVE  UNCHANGED boot
<1>1. CASE Client(o) \/ storeFails(o)
  BY <1>1 DEF Client, Reserve, Apply, ReconcileOperation, storeFails
<1>2. CASE \/ writePlanRecord(o) \/ acceptPhase(o) \/ beginEffect(o) \/ finishSkipped(o)
           \/ beginDone(o) \/ execute(o) \/ executeFails(o) \/ executeRefused(o)
  BY <1>2 DEF writePlanRecord, acceptPhase, beginEffect, finishSkipped, beginDone,
     execute,
              executeFails, executeRefused
<1>3. CASE \/ finishRefused(o) \/ terminalFailed(o) \/ toProving(o) \/ proveAccepted(o)
           \/ proveTarget(o) \/ requireActionRecovery(o) \/ storeResult(o)
           \/ terminalSucceeded(o)
  BY <1>3 DEF finishRefused, terminalFailed, toProving, proveAccepted, proveTarget,
              requireActionRecovery, storeResult, terminalSucceeded
<1> QED BY <1>1, <1>2, <1>3 DEF Act

\* What the last step of a reconciliation leaves in the record.
LEMMA SettledIsHinted ==
  ASSUME ActionAccount, Hinted, NEW o \in Ids, o \in DOMAIN ops
  PROVE  /\ KeepsHint(o, settled(ops[o]))
         /\ Terminal(settled(ops[o])) \/ hasProviderRecovery(settled(ops[o]))
<1>1. HintAt(o) /\ OpShape(ops[o])
  BY OwnRecord DEF Hinted
<1>2. CASE Terminal(ops[o]) \/ ops[o].phase = "recovery-required" \/ hasProviderRecovery(ops[o])
  <2>1. settled(ops[o]) = ops[o] /\ (Terminal(ops[o]) \/ hasProviderRecovery(ops[o]))
    BY <1>1, <1>2 DEF settled, HintAt
  <2> QED BY <1>1, <2>1, EffectKeepsHint
<1>3. CASE ~(Terminal(ops[o]) \/ ops[o].phase = "recovery-required" \/ hasProviderRecovery(ops[o]))
  <2>1. PICK require : settled(ops[o]) = updateRecovery(ops[o], "startup", require)
    BY <1>3 DEF settled
  <2> QED BY <1>1, <1>3, <2>1, RecoveryKeepsHint
<1> QED BY <1>2, <1>3

\* Every step keeps the hints.
LEMMA HintedSteps == ActionAccount /\ Hinted /\ [Next]_vars => Hinted'
<1> SUFFICES ASSUME ActionAccount, Hinted, [Next]_vars PROVE Hinted'
  OBVIOUS
<1>1. ASSUME NEW o \in Ids, Reserve(o) PROVE Hinted'
  <2>1. PICK plan, gone :
          /\ ops' = [x \in (DOMAIN ops \ gone) \cup {o} |->
                      IF x = o THEN reserved(effectsOf(plan)) ELSE ops[x]]
          /\ plans' = with(plans, o, plan)
    BY <1>1 DEF Reserve
  <2>2. up /\ o \notin DOMAIN plans /\ UNCHANGED <<boot, accepted>>
    BY <1>1 DEF Reserve
  <2>3. /\ DOMAIN ops' = (DOMAIN ops \ gone) \cup {o} /\ ops'[o].phase = "planned"
        /\ \A x \in DOMAIN ops \ (gone \cup {o}) : ops'[x] = ops[x]
    BY <2>1 DEF reserved
  <2>4. DOMAIN plans' = DOMAIN plans \cup {o}
    BY <2>1 DEF with
  <2>5. o \notin accepted
    BY <2>2 DEF Hinted, HintAt
  <2> QED BY <2>2, <2>3, <2>4, <2>5 DEF Hinted, HintAt, up
<1>2. ASSUME NEW o \in Ids, reconcileOne(o) PROVE Hinted'
  <2>1. UNCHANGED <<ops, plans, accepted>> /\ boot' = [boot EXCEPT !.tried = TRUE]
    BY <1>2 DEF reconcileOne
  <2>2. boot'.todo = boot.todo
    BY <2>1 DEF ActionAccount, BootAt
  <2> QED BY <2>1, <2>2 DEF Hinted, HintAt, up
<1>3. ASSUME NEW o \in Ids, reconcileOneEnds(o) PROVE Hinted'
  <2>1. /\ ~up /\ o = first(boot.todo) /\ write(o, settled(ops[o])) /\ UNCHANGED plans
        /\ boot'.todo = boot.todo \ {o}
    BY <1>3 DEF reconcileOneEnds
  <2>2. o \in DOMAIN ops /\ o \in DOMAIN plans
    BY <2>1, BootOperation, OwnRecord
  <2>3. /\ KeepsHint(o, settled(ops[o]))
        /\ Terminal(settled(ops[o])) \/ hasProviderRecovery(settled(ops[o]))
    BY <2>2, SettledIsHinted
  <2>4. /\ DOMAIN ops' = DOMAIN ops \cup {o} /\ ops'[o] = settled(ops[o])
        /\ \A x \in DOMAIN ops \ {o} : ops'[x] = ops[x]
    BY <2>1, WriteSets
  <2>5. /\ accepted' \subseteq accepted \cup {o} /\ accepted \subseteq accepted'
        /\ settled(ops[o]).phase = "planned" => accepted' = accepted
    BY <2>1 DEF write
  <2>6. ASSUME NEW x \in Ids \ {o} PROVE HintAt(x)'
    BY <2>1, <2>4, <2>5 DEF Hinted, HintAt, up
  <2>7. HintAt(o)'
    BY <2>1, <2>2, <2>3, <2>4, <2>5 DEF Hinted, HintAt, KeepsHint, hasProviderRecovery
  <2> QED BY <2>6, <2>7 DEF Hinted
<1>4. CASE Crash
  <2>1. /\ UNCHANGED <<ops, plans, accepted>>
        /\ boot'.todo = {o \in DOMAIN ops : ~Terminal(ops[o]) /\ ops[o].phase # "planned"}
    BY <1>4 DEF Crash
  <2> QED BY <2>1 DEF Hinted, HintAt
<1>5. ASSUME UNCHANGED <<ops, plans, accepted, boot>> PROVE Hinted'
  BY <1>5 DEF Hinted, HintAt, up
<1>6. ASSUME NEW e \in Envs, StartEnvironment(e) PROVE Hinted'
  BY <1>5, <1>6 DEF StartEnvironment
<1>7. CASE UNCHANGED vars
  BY <1>5, <1>7 DEF vars
<1>8. ASSUME NEW o \in Ids, Client(o) \/ Act(o) \/ storeFails(o) PROVE Hinted'
  BY <1>1, <1>2, <1>3, <1>8, BootStays, ActorsKeepHints, HintsKept
<1> QED BY <1>4, <1>6, <1>7, <1>8 DEF Next

\* Operations, plans, actors and the executor agree in every state, for any
\* operations and environments, any faults and any stops of the daemon.
THEOREM ActionAccountHolds == Spec => []ActionAccount
<1> QED BY ActionAccountInit, ActionAccountSteps, PTL DEF Spec

\* The executor is called at most once for a target of an operation, however
\* often it is applied, reconciled or interrupted (BeginEffect,
\* applyAccepted).
THEOREM ExecutionsAreSingle == Spec => []ExecutedOnce
<1>1. ActionAccount => ExecutedOnce
  BY SMTT(60) DEF ActionAccount, OperationAt, RanOnce, ExecutedOnce
<1> QED BY <1>1, ActionAccountHolds, PTL

\* An operation that ends as failed changed no environment (finishRefused):
\* all effects are begun before the first target is touched.
THEOREM RefusalsTouchNothing == Spec => []RefusedIsUntouched
<1>1. ActionAccount => RefusedIsUntouched
  BY DEF ActionAccount, ActionTypes, OperationAt, Untouched, RefusedIsUntouched
<1> QED BY <1>1, ActionAccountHolds, PTL

\* A succeeded operation has its result on disk (storeResult before
\* Terminal).
THEOREM ResultsArriveFirst == Spec => []SucceededHasResult
<1>1. ActionAccount => SucceededHasResult
  BY DEF ActionAccount, ActionTypes, OperationAt, ResultKept, SucceededHasResult
<1> QED BY <1>1, ActionAccountHolds, PTL

\* The startup of the daemon goes through every accepted operation.
THEOREM HintsHold == Spec => [](ActionAccount /\ Hinted)
<1>1. Init => Hinted
  <2> SUFFICES ASSUME Init PROVE Hinted
    OBVIOUS
  <2>1. accepted = {} /\ DOMAIN ops = {}
    BY SMTT(60) DEF Init
  <2> QED BY <2>1 DEF Hinted, HintAt
<1> QED BY <1>1, ActionAccountHolds, HintedSteps, PTL DEF Spec

\* When the daemon begins to serve, every accepted operation is closed or
\* carries a recovery hint (startupOperationRecovery).
THEOREM StartupHints == Spec => StartupLeavesHints
<1> DEFINE Served ==
      (~up /\ up') => \A o \in accepted' \cap DOMAIN ops' :
                        Terminal(ops'[o]) \/ hasProviderRecovery(ops'[o])
<1>1. ActionAccount /\ Hinted /\ [Next]_vars => [Served]_vars
  <2> SUFFICES ASSUME ActionAccount, Hinted, Next, ~up, up'
               PROVE  \A o \in accepted' \cap DOMAIN ops' :
                        Terminal(ops'[o]) \/ hasProviderRecovery(ops'[o])
    OBVIOUS
  <2>0. DOMAIN ops \subseteq Ids
    BY DEF ActionAccount, ActionTypes
  <2>1. CASE Crash
    <3>1. /\ UNCHANGED <<ops, accepted>>
          /\ boot'.todo = {o \in DOMAIN ops : ~Terminal(ops[o]) /\ ops[o].phase # "planned"}
      BY <2>1 DEF Crash
    <3> QED BY <2>0, <3>1 DEF up, Hinted, HintAt
  <2>2. ASSUME NEW o \in Ids, reconcileOneEnds(o)
        PROVE  \A x \in accepted' \cap DOMAIN ops' :
                 Terminal(ops'[x]) \/ hasProviderRecovery(ops'[x])
    <3>1. /\ o = first(boot.todo) /\ write(o, settled(ops[o])) /\ boot'.todo = boot.todo \ {o}
      BY <2>2 DEF reconcileOneEnds
    <3>2. o \in DOMAIN ops
      BY <3>1, BootOperation
    <3>3. Terminal(settled(ops[o])) \/ hasProviderRecovery(settled(ops[o]))
      BY <3>2, SettledIsHinted
    <3>4. /\ DOMAIN ops' = DOMAIN ops \cup {o} /\ ops'[o] = settled(ops[o])
          /\ \A x \in DOMAIN ops \ {o} : ops'[x] = ops[x]
      BY <3>1, WriteSets
    <3>5. accepted' \subseteq accepted \cup {o} /\ boot.todo \subseteq {o}
      BY <3>1 DEF write, up
    <3> QED BY <2>0, <3>3, <3>4, <3>5 DEF Hinted, HintAt
  <2>3. ASSUME NEW o \in Ids, reconcileOne(o) PROVE FALSE
    <3>1. boot' = [boot EXCEPT !.tried = TRUE] /\ DOMAIN boot = {"todo", "tried"}
      BY <2>3 DEF reconcileOne, ActionAccount, BootAt
    <3>2. boot'.todo = boot.todo
      BY <3>1
    <3> QED BY <3>2 DEF up
  <2>4. UNCHANGED boot => FALSE
    BY DEF up
  <2>5. ASSUME NEW e \in Envs, StartEnvironment(e) PROVE UNCHANGED boot
    BY <2>5 DEF StartEnvironment
  <2> QED BY <2>1, <2>2, <2>3, <2>4, <2>5, BootStays DEF Next
<1> QED BY <1>1, HintsHold, PTL DEF Spec, StartupLeavesHints

\* Retention drops no accepted operation that has yet to be closed
\* (pruneUnlocked).
THEOREM AcceptedStaysKept == Spec => AcceptedIsKept
<1> DEFINE Kept == \A o \in accepted : o \in DOMAIN ops /\ o \notin DOMAIN ops' => Terminal(ops[o])
<1>1. ActionAccount /\ Hinted /\ [Next]_vars => [Kept]_vars
  <2> SUFFICES ASSUME ActionAccount, Hinted, Next PROVE Kept
    OBVIOUS
  <2>1. ASSUME NEW o \in Ids, Reserve(o) PROVE Kept
    <3>1. PICK plan :
            LET kept == DOMAIN ops \ pruned(MaxRecords - 1)
            IN  ops' = [x \in kept \cup {o} |->
                          IF x = o THEN reserved(effectsOf(plan)) ELSE ops[x]]
      BY <2>1 DEF Reserve
    <3>2. \A x \in DOMAIN ops : x \notin DOMAIN ops' => x \in pruned(MaxRecords - 1)
      BY <3>1
    <3> QED BY <3>2 DEF pruned
  <2>2. ASSUME DOMAIN ops \subseteq DOMAIN ops' PROVE Kept
    BY <2>2
  <2>3. ASSUME NEW o \in Ids, HintStep(o) PROVE DOMAIN ops \subseteq DOMAIN ops'
    BY <2>3, WriteSets DEF HintStep
  <2>4. ASSUME NEW o \in Ids, reconcileOne(o) \/ reconcileOneEnds(o)
        PROVE  DOMAIN ops \subseteq DOMAIN ops'
    BY <2>4, WriteSets DEF reconcileOne, reconcileOneEnds
  <2>5. Crash \/ (\E e \in Envs : StartEnvironment(e)) => UNCHANGED ops
    BY DEF Crash, StartEnvironment
  <2> QED BY <2>1, <2>2, <2>3, <2>4, <2>5, BootStays, ActorsKeepHints DEF Next
<1> QED BY <1>1, HintsHold, PTL DEF Spec, AcceptedIsKept


-----------------------------------------------------------------------------
(* Host application packs.  The commands hold the store lock or the        *)
(* profile lock while they write, an enablement is written only for what   *)
(* its operator confirmed, and a revision an operator withdrew is revoked, *)
(* removed or no longer named by the enablement (HapAccount).              *)

HapFields == {"cmd", "at", "rev", "app", "prior", "was", "published"}
RunFields == {"phase", "rev", "app", "resolved", "decision", "at", "stale", "by"}
StoreFields == {"pack", "active", "revs", "dirs", "tests", "enablement", "trash"}

StoreSteps == {"publish", "test", "enablement", "registry", "trash", "delete"}
TrustSteps == {"mode", "decisions", "grants", "requests"}
TrustCommands == {"safe", "trusted", "allow", "forget"}
Granting == {"add", "update", "enable"}
Replacing == {"add", "update"}
Installing == {"add", "update", "install"}
StoreCommands == {"add", "update", "install", "enable", "disable", "revoke", "remove"}

HapShape ==
  /\ DOMAIN hapStore = StoreFields /\ DOMAIN hapStore.revs = HapRevisions
  /\ DOMAIN hapStore.enablement = {"state", "rev", "app"}
  /\ DOMAIN hapOp = HapOperators
  /\ \A o \in HapOperators : DOMAIN hapOp[o] = HapFields /\ DOMAIN hapOp[o].was = {"state", "rev", "app"}
  /\ DOMAIN hapLock = {"store", "profile"} /\ DOMAIN hapTrust = {"mode", "grants", "request"}
  /\ DOMAIN hapRun = RunFields /\ DOMAIN hapSeen = {"reviewed", "withdrawn", "trusted"}

\* An enablement names what an operator confirmed ...
Confirmed(e) == e.state = "enabled" => <<e.rev, e.app>> \in hapSeen.reviewed
\* ... and what was withdrawn can no longer be resolved, or is no longer named.
Resolves(e) ==
  e.state = "enabled" /\ e.rev \in HapRevisions \cap hapSeen.withdrawn =>
    hapStore.revs[e.rev] = "revoked" \/ hapStore.pack = "removed"

OpFits(o, cmd, at, rev, app, was) ==
  /\ at \in {"acquire", "store"} => cmd \in StoreCommands
  /\ at \in StoreSteps => hapLock.store = o
  /\ cmd \in TrustCommands /\ at \in TrustSteps => hapLock.profile = o
  /\ cmd \in Granting /\ at \notin {"idle", "review"} => <<rev, app>> \in hapSeen.reviewed
  /\ Confirmed(was)
  /\ at \in StoreSteps /\ cmd \in Replacing => Resolves(was)
  /\ at \in StoreSteps /\ cmd \in Installing => hapStore.pack # "removed"
  /\ at = "registry" /\ cmd \in Replacing => hapStore.enablement.rev = rev
  /\ cmd = "revoke" => rev \in HapRevisions
  /\ at = "requests" /\ cmd \in TrustCommands => hapTrust.grants = {}

OpsFit ==
  \A o \in HapOperators : OpFits(o, hapOp[o].cmd, hapOp[o].at, hapOp[o].rev, hapOp[o].app, hapOp[o].was)

EnablementFits ==
  /\ Confirmed(hapStore.enablement) /\ Resolves(hapStore.enablement)
  /\ hapStore.pack = "removed" => hapStore.active = 0

RunFits ==
  /\ hapRun.at \in {"grant", "hint", "decision", "guard"} => hapRun.resolved = hapRun.app
  /\ hapRun.by # "lapsed grant"

HapAccount ==
  /\ HapShape /\ OpsFit /\ EnablementFits /\ RunFits
  /\ hapTrust.grants \subseteq hapSeen.trusted
  /\ OnlyReviewedAppsOpen

\* A step of command o: its command afterwards, the others as they were ...
Becomes(o, cmd, at, rev, app, was) ==
  /\ DOMAIN hapOp' = HapOperators /\ DOMAIN hapOp'[o] = HapFields
       /\ DOMAIN hapOp'[o].was = {"state", "rev", "app"}
  /\ \A q \in HapOperators \ {o} : hapOp'[q] = hapOp[q]
  /\ hapOp'[o].cmd = cmd /\ hapOp'[o].at = at /\ hapOp'[o].rev = rev /\ hapOp'[o].app = app
       /\ hapOp'[o].was = was

\* ... no lock taken from another ...
LocksKept(o) ==
  /\ DOMAIN hapLock' = {"store", "profile"}
  /\ hapLock'.store = hapLock.store \/ hapLock.store \in {o, Nobody}
  /\ hapLock'.profile = hapLock.profile \/ hapLock.profile \in {o, Nobody}

\* ... the store changed by the holder of its lock ...
StoreKept(o) ==
  /\ DOMAIN hapStore' = StoreFields /\ DOMAIN hapStore'.revs = HapRevisions
  /\ DOMAIN hapStore'.enablement = {"state", "rev", "app"}
  /\ \/ hapLock.store = o
     \/ /\ hapStore'.revs = hapStore.revs /\ hapStore'.pack = hapStore.pack
        /\ hapStore'.enablement = hapStore.enablement /\ hapSeen'.withdrawn = hapSeen.withdrawn

\* ... the grants by the holder of the profile's, and no confirmation forgotten.
TrustKept(o) ==
  /\ DOMAIN hapTrust' = {"mode", "grants", "request"}
       /\ DOMAIN hapSeen' = {"reviewed", "withdrawn", "trusted"}
  /\ hapLock.profile = o \/ hapTrust'.grants = hapTrust.grants
  /\ hapSeen.reviewed \subseteq hapSeen'.reviewed
  /\ hapTrust'.grants \subseteq hapSeen'.trusted

RunKept == DOMAIN hapRun' = RunFields /\ RunFits' /\ UNCHANGED hapLaunch

LEMMA OthersFit ==
  ASSUME NEW o \in HapOperators, NEW q \in HapOperators, q # o,
         NEW cmd, NEW at, NEW rev, NEW app, NEW was, OpFits(q, cmd, at, rev, app, was),
         LocksKept(o), StoreKept(o), TrustKept(o)
  PROVE  OpFits(q, cmd, at, rev, app, was)'
<1>0. q # Nobody
  BY HapAssumption
<1>00. at \in {"acquire", "store"} => cmd \in StoreCommands
  BY DEF OpFits
<1>1. at \in StoreSteps => hapLock'.store = q
  BY <1>0 DEF OpFits, LocksKept
<1>2. cmd \in TrustCommands /\ at \in TrustSteps => hapLock'.profile = q
  BY <1>0 DEF OpFits, LocksKept
<1>3. at \in StoreSteps =>
        /\ hapStore'.revs = hapStore.revs /\ hapStore'.pack = hapStore.pack
        /\ hapStore'.enablement = hapStore.enablement /\ hapSeen'.withdrawn = hapSeen.withdrawn
  BY <1>0 DEF OpFits, StoreKept
<1>4. cmd \in TrustCommands /\ at \in TrustSteps => hapTrust'.grants = hapTrust.grants
  BY <1>0 DEF OpFits, TrustKept
<1>5. cmd \in Granting /\ at \notin {"idle", "review"} => <<rev, app>> \in hapSeen'.reviewed
  BY DEF OpFits, TrustKept
<1>6. Confirmed(was)'
  BY DEF OpFits, TrustKept, Confirmed
<1>7. at \in StoreSteps /\ cmd \in Replacing => Resolves(was)'
  BY <1>3 DEF OpFits, Resolves
<1>8. at \in StoreSteps /\ cmd \in Installing => hapStore'.pack # "removed"
  BY <1>3 DEF OpFits
<1>9. at = "registry" /\ cmd \in Replacing => hapStore'.enablement.rev = rev
  BY <1>3 DEF OpFits, StoreSteps
<1>10. at = "requests" /\ cmd \in TrustCommands => hapTrust'.grants = {}
  BY <1>4 DEF OpFits, TrustSteps
<1> QED BY <1>00, <1>1, <1>2, <1>5, <1>6, <1>7, <1>8, <1>9, <1>10 DEF OpFits

LEMMA CommandKeeps ==
  ASSUME HapAccount, NEW o \in HapOperators, NEW cmd, NEW at, NEW rev, NEW app, NEW was,
         Becomes(o, cmd, at, rev, app, was), LocksKept(o), StoreKept(o), TrustKept(o), RunKept,
         OpFits(o, cmd, at, rev, app, was)', EnablementFits'
  PROVE  HapAccount'
<1>1. HapShape'
  BY DEF HapAccount, HapShape, Becomes, LocksKept, StoreKept, TrustKept, RunKept
<1>2. OpsFit'
  <2> SUFFICES ASSUME NEW q \in HapOperators
               PROVE  OpFits(q, hapOp[q].cmd, hapOp[q].at, hapOp[q].rev, hapOp[q].app, hapOp[q].was)'
    BY DEF OpsFit
  <2>1. CASE q = o
    BY ZenonT(60), <2>1 DEF Becomes, OpFits, Confirmed, Resolves
  <2>2. CASE q # o
    <3>1. hapOp'[q] = hapOp[q]
      BY <2>2 DEF Becomes
    <3>2. PICK cc, aa, vv, pp, ww :
            /\ cc = hapOp[q].cmd /\ aa = hapOp[q].at /\ vv = hapOp[q].rev
            /\ pp = hapOp[q].app /\ ww = hapOp[q].was
      OBVIOUS
    <3>3. OpFits(q, cc, aa, vv, pp, ww)
      BY <3>2 DEF HapAccount, OpsFit
    <3>4. OpFits(q, cc, aa, vv, pp, ww)'
      BY <2>2, <3>3, OthersFit
    <3>5. /\ cc = hapOp'[q].cmd /\ aa = hapOp'[q].at /\ vv = hapOp'[q].rev
          /\ pp = hapOp'[q].app /\ ww = hapOp'[q].was
      BY <3>1, <3>2
    <3> QED BY ONLY SMTT(60), <3>4, <3>5 DEF OpFits, Confirmed, Resolves
  <2> QED BY <2>1, <2>2
<1>3. (hapTrust.grants \subseteq hapSeen.trusted)'
  BY DEF TrustKept
<1>4. OnlyReviewedAppsOpen'
  BY DEF HapAccount, OnlyReviewedAppsOpen, RunKept, TrustKept
<1> QED BY <1>1, <1>2, <1>3, <1>4 DEF HapAccount, RunKept

At(o, cmd, at, rev, app, was) ==
  hapOp[o].cmd = cmd /\ hapOp[o].at = at /\ hapOp[o].rev = rev /\ hapOp[o].app = app /\ hapOp[o].was = was

LEMMA CommandFits ==
  ASSUME HapAccount, NEW o \in HapOperators, NEW cmd, NEW at, NEW rev, NEW app, NEW was,
         At(o, cmd, at, rev, app, was)
  PROVE  OpFits(o, cmd, at, rev, app, was)
  BY DEF HapAccount, OpsFit, At

LEMMA Goes ==
  ASSUME HapAccount, NEW o \in HapOperators, NEW cmd, NEW at, NEW rev, NEW app, NEW was,
         At(o, cmd, at, rev, app, was),
         NEW to, hapGo(o, to)
  PROVE  Becomes(o, cmd, to, rev, app, was)
<1>1. DOMAIN hapOp = HapOperators /\ DOMAIN hapOp[o] = HapFields
        /\ DOMAIN hapOp[o].was = {"state", "rev", "app"}
  BY DEF HapAccount, HapShape
<1>2. hapOp' = [hapOp EXCEPT ![o] = [hapOp[o] EXCEPT !.at = to]]
  BY SMTT(60), <1>1 DEF hapGo
<1>3. DOMAIN hapOp' = HapOperators /\ hapOp'[o] = [hapOp[o] EXCEPT !.at = to]
        /\ \A q \in HapOperators \ {o} : hapOp'[q] = hapOp[q]
  BY <1>1, <1>2
<1> QED BY SMTT(60), <1>1, <1>3 DEF Becomes, At, HapFields

LEMMA Ends ==
  ASSUME HapAccount, NEW o \in HapOperators, hapEnd(o)
  PROVE  Becomes(o, "none", "idle", 0, 0, NoEnablement) /\ OpFits(o, "none", "idle", 0, 0, NoEnablement)'
<1>1. DOMAIN hapOp = HapOperators
  BY DEF HapAccount, HapShape
<1>2. DOMAIN hapOp' = HapOperators /\ hapOp'[o] = NoCommand
        /\ \A q \in HapOperators \ {o} : hapOp'[q] = hapOp[q]
  BY <1>1 DEF hapEnd
<1>3. Becomes(o, "none", "idle", 0, 0, NoEnablement)
  BY SMTT(60), <1>2 DEF Becomes, NoCommand, NoEnablement, HapFields
<1>4. OpFits(o, "none", "idle", 0, 0, NoEnablement)'
  <2>1. "idle" \notin StoreSteps /\ "none" \notin TrustCommands /\ "none" \notin Granting
    BY DEF StoreSteps, TrustCommands, Granting
  <2>2. Confirmed(NoEnablement)'
    BY SMTT(60) DEF Confirmed, NoEnablement
  <2> QED BY <2>1, <2>2 DEF OpFits
<1> QED BY <1>3, <1>4

LEMMA Frees ==
  ASSUME HapAccount, NEW o \in HapOperators, hapFree(o)
  PROVE  LocksKept(o)
<1>1. DOMAIN hapLock = {"store", "profile"}
  BY DEF HapAccount, HapShape
<1>2. DOMAIN hapLock' = {"store", "profile"}
  BY <1>1 DEF hapFree
<1>3. hapLock'.store = IF hapLock.store = o THEN Nobody ELSE hapLock.store
  BY <1>1 DEF hapFree
<1>4. hapLock'.profile = IF hapLock.profile = o THEN Nobody ELSE hapLock.profile
  BY <1>1 DEF hapFree
<1> QED BY <1>2, <1>3, <1>4 DEF LocksKept

LEMMA Same ==
  ASSUME HapAccount, NEW o \in HapOperators
  PROVE  /\ UNCHANGED hapLock => LocksKept(o)
         /\ UNCHANGED <<hapStore, hapSeen>> => StoreKept(o) /\ EnablementFits'
         /\ UNCHANGED <<hapTrust, hapSeen>> => TrustKept(o)
         /\ UNCHANGED hapTrust /\ hapSeen'.trusted = hapSeen.trusted
              /\ hapSeen.reviewed \subseteq hapSeen'.reviewed
            /\ DOMAIN hapSeen' = DOMAIN hapSeen => TrustKept(o)
         /\ UNCHANGED <<hapRun, hapLaunch>> => RunKept
<1>1. UNCHANGED hapLock => LocksKept(o)
  BY DEF HapAccount, HapShape, LocksKept
<1>2. UNCHANGED <<hapStore, hapSeen>> => StoreKept(o)
  BY DEF HapAccount, HapShape, StoreKept
<1>3. UNCHANGED <<hapStore, hapSeen>> => EnablementFits'
  BY DEF HapAccount, EnablementFits, Confirmed, Resolves
<1>4. UNCHANGED <<hapTrust, hapSeen>> => TrustKept(o)
  BY DEF HapAccount, HapShape, TrustKept
<1>5. UNCHANGED hapTrust /\ hapSeen'.trusted = hapSeen.trusted
        /\ hapSeen.reviewed \subseteq hapSeen'.reviewed
      /\ DOMAIN hapSeen' = DOMAIN hapSeen => TrustKept(o)
  BY DEF HapAccount, HapShape, TrustKept
<1>6. UNCHANGED <<hapRun, hapLaunch>> => RunKept
  BY DEF HapAccount, HapShape, RunKept, RunFits
<1> QED BY <1>1, <1>2, <1>3, <1>4, <1>5, <1>6

LEMMA EndKeeps ==
  ASSUME HapAccount, NEW o \in HapOperators, hapEnd(o),
         LocksKept(o), StoreKept(o), TrustKept(o), RunKept, EnablementFits'
  PROVE  HapAccount'
  BY Ends, CommandKeeps

LEMMA GoKeeps ==
  ASSUME HapAccount, NEW o \in HapOperators, NEW cmd, NEW at, NEW rev, NEW app, NEW was,
         At(o, cmd, at, rev, app, was),
         NEW to, hapGo(o, to), LocksKept(o), StoreKept(o), TrustKept(o), RunKept,
         OpFits(o, cmd, to, rev, app, was)', EnablementFits'
  PROVE  HapAccount'
  BY Goes, CommandKeeps

LEMMA Planned ==
  ASSUME NEW c, NEW p \in planFor(c)
  PROVE  DOMAIN p = HapFields /\ p.at = "review" /\ p.was = NoEnablement /\ p.cmd = c
           /\ (c = "revoke" => p.rev \in HapRevisions)
<1>1. ASSUME NEW v, NEW prior, p = packPlanned(c, v, prior), c = "revoke" => v \in HapRevisions
      PROVE  DOMAIN p = HapFields /\ p.at = "review" /\ p.was = NoEnablement /\ p.cmd = c
               /\ (c = "revoke" => p.rev \in HapRevisions)
  BY SMTT(60), <1>1 DEF packPlanned, NoCommand, HapFields
<1>2. CASE p \in PlanAdd(c)
  <2>1. p = packPlanned(c, hapHost.source, 0) /\ c # "revoke"
    BY <1>2 DEF PlanAdd
  <2> QED BY <1>1, <2>1
<1>3. CASE p \in planHostAppUpdate(c)
  <2>1. p = packPlanned(c, hapHost.source, hapStore.enablement.rev) /\ c # "revoke"
    BY <1>3 DEF planHostAppUpdate
  <2> QED BY <1>1, <2>1
<1>4. CASE p \in planHostAppEnable(c)
  <2>1. p = packPlanned(c, hapStore.active, hapStore.enablement.rev) /\ c # "revoke"
    BY <1>4 DEF planHostAppEnable
  <2> QED BY <1>1, <2>1
<1>5. CASE p \in planHostAppStateChange(c)
  <2>2. CASE c = "disable"
    <3>1. p = packPlanned(c, hapStore.enablement.rev, hapStore.enablement.rev)
      BY <1>5, <2>2 DEF planHostAppStateChange
    <3> QED BY <1>1, <2>2, <3>1
  <2>3. CASE c = "revoke"
    <3>1. PICK x \in HapRevisions : p = packPlanned(c, x, 0)
      BY <1>5, <2>3 DEF planHostAppStateChange
    <3> QED BY <1>1, <3>1
  <2>4. CASE c = "remove"
    <3>1. p = packPlanned(c, 0, 0)
      BY <1>5, <2>4 DEF planHostAppStateChange
    <3> QED BY <1>1, <2>4, <3>1
  <2> QED BY <1>5, <2>2, <2>3, <2>4 DEF planHostAppStateChange
<1>6. CASE p \in planTrust(c)
  <2>2. CASE c = "allow"
    <3>1. p = [packPlanned(c, hapTrust.request.rev, 0) EXCEPT !.app = hapTrust.request.app]
      BY <1>6, <2>2 DEF planTrust
    <3> QED BY SMTT(60), <2>2, <3>1 DEF packPlanned, NoCommand, HapFields
  <2>3. CASE c \in {"safe", "trusted", "forget"}
    <3>1. p = packPlanned(c, 0, 0) /\ c # "revoke"
      BY <1>6, <2>3 DEF planTrust
    <3> QED BY <1>1, <3>1
  <2> QED BY <1>6, <2>2, <2>3 DEF planTrust
<1> QED BY <1>2, <1>3, <1>4, <1>5, <1>6 DEF planFor

LEMMA PlanKeeps ==
  ASSUME HapAccount, NEW o \in HapOperators, NEW c, PlanHostAppPack(o, c)
  PROVE  HapAccount'
<1>1. PICK p \in planFor(c) : hapOp' = [hapOp EXCEPT ![o] = p]
  BY DEF PlanHostAppPack
<1>2. DOMAIN p = HapFields /\ p.at = "review" /\ p.was = NoEnablement /\ p.cmd = c
        /\ (c = "revoke" => p.rev \in HapRevisions)
  BY Planned
<1>3. DOMAIN hapOp' = HapOperators /\ hapOp'[o] = p /\ \A q \in HapOperators \ {o} : hapOp'[q] = hapOp[q]
  BY <1>1 DEF HapAccount, HapShape
<1>4. DOMAIN NoEnablement = {"state", "rev", "app"} /\ NoEnablement.state # "enabled"
  BY SMTT(60) DEF NoEnablement
<1>5. Becomes(o, c, "review", p.rev, p.app, NoEnablement)
  BY <1>2, <1>3, <1>4 DEF Becomes
<1>6. PICK v, a : v = p.rev /\ a = p.app
  OBVIOUS
<1>7. OpFits(o, c, "review", v, a, NoEnablement)'
  <2>1. "review" \notin StoreSteps /\ "review" \notin TrustSteps
    BY DEF StoreSteps, TrustSteps
  <2>2. Confirmed(NoEnablement)'
    BY SMTT(60) DEF Confirmed, NoEnablement
  <2> QED BY <1>2, <1>6, <2>1, <2>2 DEF OpFits
<1>8. UNCHANGED <<hapStore, hapLock, hapTrust, hapRun, hapLaunch, hapSeen>>
  BY DEF PlanHostAppPack
<1>9. LocksKept(o) /\ StoreKept(o) /\ TrustKept(o) /\ RunKept /\ EnablementFits'
  BY <1>8, Same
<1> QED BY <1>5, <1>6, <1>7, <1>9, CommandKeeps

LEMMA ConfirmedKeeps ==
  ASSUME HapAccount, NEW o \in HapOperators, NEW cmd, NEW at, NEW rev, NEW app, NEW was,
         At(o, cmd, at, rev, app, was),
         hapOp[o].at = "review", NEW to \in {"lock", "acquire", "store"}, to = "lock"
           \/ cmd \in StoreCommands,
         hapSeen' = IF hapOp[o].cmd \in {"add", "update", "enable"}
                    THEN [hapSeen EXCEPT !.reviewed = @ \cup {<<hapOp[o].rev, hapOp[o].app>>}] ELSE hapSeen,
         hapGo(o, to) \/ hapEnd(o),
         UNCHANGED <<hapStore, hapHost, hapLock, hapTrust, hapRun, hapLaunch, hapLeft>>
  PROVE  HapAccount'
<1>0. DOMAIN hapSeen = {"reviewed", "withdrawn", "trusted"}
  BY DEF HapAccount, HapShape
<1>1. /\ DOMAIN hapSeen' = DOMAIN hapSeen /\ hapSeen'.trusted = hapSeen.trusted
           /\ hapSeen'.withdrawn = hapSeen.withdrawn
      /\ hapSeen.reviewed \subseteq hapSeen'.reviewed
      /\ cmd \in Granting => <<rev, app>> \in hapSeen'.reviewed
  BY SMTT(60), <1>0 DEF At, Granting
<1>2. LocksKept(o) /\ TrustKept(o) /\ RunKept
  BY <1>1, Same
<1>3. StoreKept(o)
  BY <1>1 DEF StoreKept, HapAccount, HapShape
<1>4. EnablementFits'
  BY <1>1 DEF EnablementFits, HapAccount, Confirmed, Resolves
<1>5. OpFits(o, cmd, to, rev, app, was)'
  <2>1. to \notin StoreSteps /\ to \notin TrustSteps
    BY DEF StoreSteps, TrustSteps
  <2>2. OpFits(o, cmd, at, rev, app, was)
    BY CommandFits
  <2>3. Confirmed(was)'
    BY <1>1, <2>2 DEF OpFits, Confirmed
  <2>4. to # "registry" /\ to # "requests"
    OBVIOUS
  <2> QED BY <1>1, <2>1, <2>2, <2>3, <2>4 DEF OpFits
<1> QED BY <1>2, <1>3, <1>4, <1>5, EndKeeps, GoKeeps

LEMMA ApplyKeeps ==
  ASSUME HapAccount, NEW o \in HapOperators, NEW cmd, NEW at, NEW rev, NEW app, NEW was,
         At(o, cmd, at, rev, app, was),
         \/ applyHostAppAdd(o) \/ applyHostAppUpdate(o) \/ applyHostAppRevoke(o) \/ applyHostAppRemove(o)
         \/ applyHostAppEnable(o) \/ applyHostAppDisable(o) \/ applyTrust(o)
  PROVE  HapAccount'
<1>1. CASE applyHostAppAdd(o)
  <2>1. cmd \in StoreCommands
    BY <1>1 DEF applyHostAppAdd, confirmed, At, StoreCommands
  <2>2. hapGo(o, "lock") \/ hapGo(o, "acquire") \/ hapEnd(o)
    BY <1>1 DEF applyHostAppAdd, confirmed
  <2> QED BY <1>1, <2>1, <2>2, ConfirmedKeeps DEF applyHostAppAdd, confirmed
<1>2. CASE applyHostAppUpdate(o)
  BY <1>2, ConfirmedKeeps DEF applyHostAppUpdate, confirmed
<1>3. CASE applyHostAppRevoke(o)
  <2>1. cmd \in StoreCommands
    BY <1>3 DEF applyHostAppRevoke, confirmed, At, StoreCommands
  <2> QED BY <1>3, <2>1, ConfirmedKeeps DEF applyHostAppRevoke, confirmed
<1>4. CASE applyHostAppRemove(o)
  <2>1. cmd \in StoreCommands
    BY <1>4 DEF applyHostAppRemove, confirmed, At, StoreCommands
  <2> QED BY <1>4, <2>1, ConfirmedKeeps DEF applyHostAppRemove, confirmed
<1>5. CASE applyHostAppEnable(o)
  BY <1>5, ConfirmedKeeps DEF applyHostAppEnable, confirmed
<1>6. CASE applyHostAppDisable(o)
  BY <1>6, ConfirmedKeeps DEF applyHostAppDisable, confirmed
<1>7. CASE applyTrust(o)
  BY <1>7, ConfirmedKeeps DEF applyTrust, confirmed
<1> QED BY <1>1, <1>2, <1>3, <1>4, <1>5, <1>6, <1>7

LEMMA LockKeeps ==
  ASSUME HapAccount, NEW o \in HapOperators, NEW cmd, NEW at, NEW rev, NEW app, NEW was,
         At(o, cmd, at, rev, app, was),
         withProfileMutationLock(o)
  PROVE  HapAccount'
<1>1. StoreKept(o) /\ TrustKept(o) /\ RunKept /\ EnablementFits'
  BY Same DEF withProfileMutationLock
<1>2. CASE hapEnd(o) /\ UNCHANGED hapLock
  BY <1>1, <1>2, Same, EndKeeps
<1>3. ASSUME NEW to, hapGo(o, to), to \in {"acquire", "store", "mode"},
             to \in {"acquire", "store"} => cmd \in StoreCommands,
             hapLock' = [hapLock EXCEPT !.profile = o]
      PROVE  HapAccount'
  <2>1. DOMAIN hapLock = {"store", "profile"} /\ hapLock.profile = Nobody
    BY DEF HapAccount, HapShape, withProfileMutationLock
  <2>2. DOMAIN hapLock' = {"store", "profile"} /\ hapLock'.profile = o /\ hapLock'.store = hapLock.store
    BY SMTT(60), <1>3, <2>1
  <2>3. LocksKept(o)
    BY <2>1, <2>2 DEF LocksKept
  <2>4. OpFits(o, cmd, at, rev, app, was) /\ at = "lock"
    BY CommandFits DEF withProfileMutationLock, At
  <2>5. OpFits(o, cmd, to, rev, app, was)'
    <3>1. to \notin StoreSteps /\ to # "registry" /\ to # "requests"
      BY <1>3 DEF StoreSteps
    <3>2. Confirmed(was)'
      BY <2>4 DEF OpFits, Confirmed, withProfileMutationLock
    <3>3. hapSeen' = hapSeen
      BY DEF withProfileMutationLock
    <3>4. at \notin {"idle", "review"}
      BY <2>4
    <3> QED BY <1>3, <2>2, <2>4, <3>1, <3>2, <3>3, <3>4 DEF OpFits
  <2> QED BY <1>1, <1>3, <2>3, <2>5, GoKeeps
<1>5. CASE cmd \in {"add", "update"} /\ revalidated(hapOp[o])
  <2>1. hapGo(o, "acquire") /\ hapLock' = [hapLock EXCEPT !.profile = o]
    BY <1>5 DEF withProfileMutationLock, At
  <2> QED BY <1>3, <1>5, <2>1 DEF StoreCommands
<1>6. CASE cmd \in {"enable", "disable"} /\ revalidated(hapOp[o])
  <2>1. hapGo(o, "store") /\ hapLock' = [hapLock EXCEPT !.profile = o]
    BY <1>6 DEF withProfileMutationLock, At
  <2> QED BY <1>3, <1>6, <2>1 DEF StoreCommands
<1>7. CASE cmd \notin {"add", "update", "enable", "disable"} /\ revalidated(hapOp[o])
  <2>1. hapGo(o, "mode") /\ hapLock' = [hapLock EXCEPT !.profile = o]
    BY <1>7 DEF withProfileMutationLock, At
  <2> QED BY <1>3, <2>1
<1> QED BY <1>2, <1>5, <1>6, <1>7 DEF withProfileMutationLock

LEMMA AcquireKeeps ==
  ASSUME HapAccount, NEW o \in HapOperators, NEW cmd, NEW at, NEW rev, NEW app, NEW was,
         At(o, cmd, at, rev, app, was),
         Acquire(o)
  PROVE  HapAccount'
<1>1. StoreKept(o) /\ TrustKept(o) /\ RunKept /\ EnablementFits'
  BY Same DEF Acquire
<1>2. CASE hapEnd(o) /\ hapFree(o)
  BY <1>1, <1>2, Frees, EndKeeps
<1>3. CASE hapGo(o, "store") /\ UNCHANGED hapLock
  <2>1. OpFits(o, cmd, at, rev, app, was) /\ at = "acquire"
    BY CommandFits DEF Acquire, At
  <2>2. "store" \notin StoreSteps /\ "store" \notin TrustSteps
    BY DEF StoreSteps, TrustSteps
  <2>3. OpFits(o, cmd, "store", rev, app, was)'
    BY <2>1, <2>2 DEF OpFits, Confirmed, Acquire
  <2> QED BY <1>1, <1>3, <2>3, GoKeeps, Same
<1> QED BY <1>2, <1>3 DEF Acquire

LEMMA StoreLockKeeps ==
  ASSUME HapAccount, NEW o \in HapOperators, NEW cmd, NEW at, NEW rev, NEW app, NEW was,
         At(o, cmd, at, rev, app, was),
         withLock(o)
  PROVE  HapAccount'
<1>1. StoreKept(o) /\ TrustKept(o) /\ RunKept /\ EnablementFits'
  BY Same DEF withLock
<1>2. CASE hapEnd(o) /\ hapFree(o)
  BY <1>1, <1>2, Frees, EndKeeps
<1>3. CASE /\ storeAdmits(hapOp[o]) /\ hapLock' = [hapLock EXCEPT !.store = o]
           /\ hapOp' = [hapOp EXCEPT ![o].at = firstWrite(hapOp[o]), ![o].was = hapStore.enablement]
  <2>1. DOMAIN hapLock = {"store", "profile"} /\ hapLock.store = Nobody
    BY DEF HapAccount, HapShape, withLock
  <2>2. DOMAIN hapLock' = {"store", "profile"} /\ hapLock'.store = o /\ hapLock'.profile = hapLock.profile
    BY SMTT(60), <1>3, <2>1
  <2>3. LocksKept(o)
    BY <2>1, <2>2 DEF LocksKept
  <2>4. OpFits(o, cmd, at, rev, app, was) /\ at = "store"
    BY CommandFits DEF withLock, At
  <2>5. PICK to, e : to = firstWrite(hapOp[o]) /\ e = hapStore.enablement
    OBVIOUS
  <2>6. DOMAIN hapOp = HapOperators /\ DOMAIN hapOp[o] = HapFields /\ DOMAIN e = {"state", "rev", "app"}
    BY <2>5 DEF HapAccount, HapShape
  <2>7. DOMAIN hapOp' = HapOperators /\ hapOp'[o] = [hapOp[o] EXCEPT !.at = to, !.was = e]
          /\ \A q \in HapOperators \ {o} : hapOp'[q] = hapOp[q]
    BY SMTT(60), <1>3, <2>5, <2>6
  <2>8. Becomes(o, cmd, to, rev, app, e)
    BY SMTT(60), <2>6, <2>7 DEF Becomes, At, HapFields
  <2>9. cmd \in StoreCommands
    BY <2>4 DEF OpFits
  <2>10. to \in {"publish", "enablement", "registry", "trash"} /\ (cmd \in Installing => to = "publish")
    BY <2>5, <2>9 DEF firstWrite, At, StoreCommands, Installing
  <2>11. cmd \in Installing => hapStore.pack # "removed"
    BY <1>3 DEF storeAdmits, Installing, At
  <2>12. OpFits(o, cmd, to, rev, app, e)'
    <3>1. to \in StoreSteps /\ to \notin TrustSteps /\ to # "requests" /\ to \notin {"acquire", "store"}
      BY <2>10 DEF StoreSteps, TrustSteps
    <3>2. Confirmed(e)' /\ Resolves(e)'
      BY <2>5 DEF HapAccount, EnablementFits, Confirmed, Resolves, withLock
    <3>3. hapSeen' = hapSeen /\ hapStore' = hapStore
      BY DEF withLock
    <3>4. at \notin {"idle", "review"}
      BY <2>4
    <3>5. to = "registry" => cmd \notin Replacing
      BY <2>10 DEF Replacing, Installing
    <3> QED BY <2>2, <2>4, <2>11, <3>1, <3>2, <3>3, <3>4, <3>5 DEF OpFits
  <2> QED BY <1>1, <2>3, <2>8, <2>12, CommandKeeps
<1> QED BY <1>2, <1>3 DEF withLock

LEMMA RegisteredStore ==
  ASSUME HapAccount, NEW op, hapStore' = registered(op)
  PROVE  /\ DOMAIN hapStore' = StoreFields /\ DOMAIN hapStore'.revs = HapRevisions
         /\ hapStore'.pack = "installed" /\ hapStore'.enablement = hapStore.enablement
         /\ \A r \in HapRevisions : hapStore.revs[r] = "revoked" => hapStore'.revs[r] = "revoked"
<1>1. DOMAIN hapStore = StoreFields /\ DOMAIN hapStore.revs = HapRevisions
  BY DEF HapAccount, HapShape
<1> QED BY SMTT(60), <1>1 DEF registered, StoreFields

\* A write of the lock's holder that leaves what the other files say.
LEMMA StoreWritten ==
  ASSUME HapAccount, NEW o \in HapOperators, hapLock.store = o,
         DOMAIN hapStore' = StoreFields, DOMAIN hapStore'.revs = HapRevisions,
         DOMAIN hapStore'.enablement = {"state", "rev", "app"}
  PROVE  StoreKept(o)
  BY DEF StoreKept

LEMMA StoreSays ==
  ASSUME HapAccount, hapSeen'.withdrawn \subseteq hapSeen.withdrawn,
         hapSeen.reviewed \subseteq hapSeen'.reviewed,
         hapStore'.revs = hapStore.revs, hapStore'.enablement = hapStore.enablement,
         hapStore'.pack = hapStore.pack, hapStore'.active = hapStore.active
  PROVE  EnablementFits'
<1>1. Confirmed(hapStore.enablement)'
  BY DEF HapAccount, EnablementFits, Confirmed
<1>2. Resolves(hapStore.enablement)'
  BY DEF HapAccount, EnablementFits, Resolves
<1> QED BY <1>1, <1>2 DEF HapAccount, EnablementFits

LEMMA InstallKeeps ==
  ASSUME HapAccount, NEW o \in HapOperators, NEW cmd, NEW at, NEW rev, NEW app, NEW was,
         At(o, cmd, at, rev, app, was),
         Install(o)
  PROVE  HapAccount'
<1>0. OpFits(o, cmd, at, rev, app, was) /\ cmd = "install"
  BY CommandFits DEF Install, At
<1>1. TrustKept(o) /\ RunKept /\ hapSeen' = hapSeen
  BY Same DEF Install
<1>2. DOMAIN hapStore = StoreFields /\ DOMAIN hapStore.revs = HapRevisions
        /\ DOMAIN hapStore.enablement = {"state", "rev", "app"}
  BY DEF HapAccount, HapShape
<1>3. at \in {"publish", "registry"}
  BY DEF Install, At
<1>4. hapLock.store = o /\ hapStore.pack # "removed"
  BY <1>0, <1>3 DEF OpFits, StoreSteps, Installing
<1>5. CASE /\ hapStore' = [hapStore EXCEPT !.dirs = @ \cup {hapOp[o].rev}]
           /\ hapOp' = [hapOp EXCEPT ![o].at = "registry",
                ![o].published = hapOp[o].rev \notin hapStore.dirs]
           /\ UNCHANGED hapLock
  <2>1. DOMAIN hapStore' = StoreFields /\ hapStore'.revs = hapStore.revs
          /\ hapStore'.enablement = hapStore.enablement
        /\ hapStore'.pack = hapStore.pack /\ hapStore'.active = hapStore.active
    BY SMTT(60), <1>2, <1>5 DEF StoreFields
  <2>2. StoreKept(o) /\ LocksKept(o)
    BY <1>2, <1>4, <1>5, <2>1, Same, StoreWritten
  <2>3. EnablementFits'
    BY <1>1, <2>1, StoreSays
  <2>4. Becomes(o, cmd, "registry", rev, app, was)
    <3>1. DOMAIN hapOp = HapOperators /\ DOMAIN hapOp[o] = HapFields
            /\ DOMAIN was = {"state", "rev", "app"}
      BY DEF HapAccount, HapShape, At
    <3>2. PICK b : b = (hapOp[o].rev \notin hapStore.dirs)
      OBVIOUS
    <3>3. DOMAIN hapOp' = HapOperators
            /\ hapOp'[o] = [hapOp[o] EXCEPT !.at = "registry", !.published = b]
                 /\ \A q \in HapOperators \ {o} : hapOp'[q] = hapOp[q]
      BY SMTT(60), <1>5, <3>1, <3>2
    <3> QED BY SMTT(60), <3>1, <3>3 DEF Becomes, At, HapFields
  <2>5. OpFits(o, cmd, "registry", rev, app, was)'
    <3>1. "registry" \in StoreSteps /\ cmd \notin TrustCommands /\ cmd \notin Granting
            /\ cmd \notin Replacing
      BY <1>0 DEF StoreSteps, TrustCommands, Granting, Replacing
    <3> QED BY <1>0, <1>1, <1>4, <1>5, <2>1, <3>1 DEF OpFits, Confirmed
  <2> QED BY <1>1, <2>2, <2>3, <2>4, <2>5, CommandKeeps
<1>6. CASE hapStore' = registered(hapOp[o]) /\ hapEnd(o) /\ hapFree(o)
  <2>1. /\ DOMAIN hapStore' = StoreFields /\ DOMAIN hapStore'.revs = HapRevisions
        /\ hapStore'.pack = "installed" /\ hapStore'.enablement = hapStore.enablement
        /\ \A r \in HapRevisions : hapStore.revs[r] = "revoked" => hapStore'.revs[r] = "revoked"
    BY <1>6, RegisteredStore
  <2>2. Confirmed(hapStore.enablement)'
    BY <1>1, <2>1 DEF HapAccount, EnablementFits, Confirmed
  <2>3. Resolves(hapStore.enablement)'
    BY <1>1, <1>4, <2>1 DEF HapAccount, EnablementFits, Resolves
  <2>4. EnablementFits'
    BY <2>1, <2>2, <2>3 DEF EnablementFits
  <2> QED BY <1>1, <1>2, <1>4, <1>6, <2>1, <2>4, StoreWritten, Frees, EndKeeps
<1>7. CASE /\ hapStore' = [hapStore EXCEPT !.dirs = IF hapOp[o].published THEN @ \ {hapOp[o].rev} ELSE @]
           /\ hapEnd(o) /\ hapFree(o)
  <2>1. DOMAIN hapStore' = StoreFields /\ hapStore'.revs = hapStore.revs
          /\ hapStore'.enablement = hapStore.enablement
        /\ hapStore'.pack = hapStore.pack /\ hapStore'.active = hapStore.active
    <3>1. PICK d : hapStore' = [hapStore EXCEPT !.dirs = d]
      BY <1>7
    <3> QED BY SMTT(60), <1>2, <3>1 DEF StoreFields
  <2>2. EnablementFits'
    BY <1>1, <2>1, StoreSays
  <2> QED BY <1>1, <1>2, <1>4, <1>7, <2>1, <2>2, StoreWritten, Frees, EndKeeps
<1> QED BY <1>5, <1>6, <1>7 DEF Install

LEMMA NextWrite ==
  ASSUME NEW o \in HapOperators, NEW cmd, NEW at, NEW rev, NEW app, NEW was,
         OpFits(o, cmd, at, rev, app, was),
         at \in StoreSteps, NEW to \in StoreSteps, UNCHANGED hapLock,
         hapSeen'.withdrawn \subseteq hapSeen.withdrawn, hapSeen.reviewed \subseteq hapSeen'.reviewed,
         hapStore'.revs = hapStore.revs, hapStore'.pack = hapStore.pack,
         to = "registry" /\ cmd \in Replacing => hapStore'.enablement.rev = rev
  PROVE  OpFits(o, cmd, to, rev, app, was)'
<1>1. at \notin {"idle", "review"} /\ to \notin TrustSteps /\ to \notin {"acquire", "store"}
        /\ to # "requests"
  BY DEF StoreSteps, TrustSteps
<1>2. Confirmed(was)'
  BY DEF OpFits, Confirmed
<1>3. cmd \in Replacing => Resolves(was)'
  BY DEF OpFits, Resolves
<1> QED BY <1>1, <1>2, <1>3 DEF OpFits

LEMMA LastWrite ==
  ASSUME NEW o \in HapOperators, NEW cmd, NEW at, NEW rev, NEW app, NEW was,
         OpFits(o, cmd, at, rev, app, was),
         at \in StoreSteps, cmd \notin TrustCommands, hapSeen.reviewed \subseteq hapSeen'.reviewed
  PROVE  OpFits(o, cmd, "decisions", rev, app, was)'
<1>1. at \notin {"idle", "review"} /\ "decisions" \notin StoreSteps
  BY DEF StoreSteps
<1>2. Confirmed(was)'
  BY DEF OpFits, Confirmed
<1> QED BY <1>1, <1>2 DEF OpFits

LEMMA EnableWriteKeeps ==
  ASSUME HapAccount, NEW o \in HapOperators, NEW cmd, NEW at, NEW rev, NEW app, NEW was,
         At(o, cmd, at, rev, app, was),
         InstallTestEnable(o)
  PROVE  HapAccount'
<1>0. OpFits(o, cmd, at, rev, app, was) /\ cmd \in {"add", "update"}
  BY CommandFits DEF InstallTestEnable, At
<1>1. RunKept
  BY Same DEF InstallTestEnable
<1>2. DOMAIN hapStore = StoreFields /\ DOMAIN hapStore.revs = HapRevisions
        /\ DOMAIN hapStore.enablement = {"state", "rev", "app"}
      /\ DOMAIN hapSeen = {"reviewed", "withdrawn", "trusted"} /\ DOMAIN was = {"state", "rev", "app"}
  BY DEF HapAccount, HapShape, At
<1>3. at \in {"publish", "test", "enablement", "registry"}
  BY DEF InstallTestEnable, At
<1>4. /\ at \in StoreSteps /\ cmd \in Replacing /\ cmd \in Installing /\ cmd \in Granting
           /\ cmd \notin TrustCommands
      /\ at \notin {"idle", "review"}
  BY <1>0, <1>3 DEF StoreSteps, Replacing, Installing, Granting, TrustCommands
<1>5. hapLock.store = o /\ hapStore.pack # "removed" /\ Confirmed(was) /\ Resolves(was)
        /\ <<rev, app>> \in hapSeen.reviewed
  BY <1>0, <1>4 DEF OpFits
<1>6. ASSUME NEW f \in {"dirs", "tests"}, NEW d, hapStore' = [hapStore EXCEPT ![f] = d]
      PROVE  DOMAIN hapStore' = StoreFields /\ hapStore'.revs = hapStore.revs
               /\ hapStore'.enablement = hapStore.enablement
             /\ hapStore'.pack = hapStore.pack /\ hapStore'.active = hapStore.active
  BY SMTT(60), <1>2, <1>6 DEF StoreFields
<1>7. CASE /\ hapStore' = [hapStore EXCEPT !.dirs = @ \cup {hapOp[o].rev}]
           /\ hapOp' = [hapOp EXCEPT ![o].at = "test", ![o].published = hapOp[o].rev \notin hapStore.dirs]
           /\ UNCHANGED <<hapLock, hapSeen, hapLeft>>
  <2>1. DOMAIN hapStore' = StoreFields /\ hapStore'.revs = hapStore.revs
          /\ hapStore'.enablement = hapStore.enablement
        /\ hapStore'.pack = hapStore.pack /\ hapStore'.active = hapStore.active
    BY <1>6, <1>7
  <2>2. StoreKept(o) /\ LocksKept(o)
    BY <1>2, <1>5, <1>7, <2>1, Same, StoreWritten
  <2>3. EnablementFits'
    BY <1>7, <2>1, StoreSays
  <2>4. Becomes(o, cmd, "test", rev, app, was)
    <3>1. DOMAIN hapOp = HapOperators /\ DOMAIN hapOp[o] = HapFields
      BY DEF HapAccount, HapShape, At
    <3>2. PICK b : b = (hapOp[o].rev \notin hapStore.dirs)
      OBVIOUS
    <3>3. DOMAIN hapOp' = HapOperators /\ hapOp'[o] = [hapOp[o] EXCEPT !.at = "test", !.published = b]
            /\ \A q \in HapOperators \ {o} : hapOp'[q] = hapOp[q]
      BY SMTT(60), <1>7, <3>1, <3>2
    <3> QED BY SMTT(60), <1>2, <3>1, <3>3 DEF Becomes, At, HapFields
  <2>5. OpFits(o, cmd, "test", rev, app, was)'
    BY <1>0, <1>4, <1>7, <2>1, NextWrite DEF StoreSteps
  <2>6. TrustKept(o)
    BY <1>7, Same DEF InstallTestEnable
  <2> QED BY <1>1, <2>2, <2>3, <2>4, <2>5, <2>6, CommandKeeps
<1>8. CASE /\ hapStore' = [hapStore EXCEPT !.tests = @ \cup {hapOp[o].rev}]
           /\ hapGo(o, "enablement") /\ UNCHANGED <<hapLock, hapSeen, hapLeft>>
  <2>1. DOMAIN hapStore' = StoreFields /\ hapStore'.revs = hapStore.revs
          /\ hapStore'.enablement = hapStore.enablement
        /\ hapStore'.pack = hapStore.pack /\ hapStore'.active = hapStore.active
    BY <1>6, <1>8
  <2>2. StoreKept(o) /\ LocksKept(o)
    BY <1>2, <1>5, <1>8, <2>1, Same, StoreWritten
  <2>3. EnablementFits'
    BY <1>8, <2>1, StoreSays
  <2>5. OpFits(o, cmd, "enablement", rev, app, was)'
    BY <1>0, <1>4, <1>8, <2>1, NextWrite DEF StoreSteps
  <2>6. TrustKept(o)
    BY <1>8, Same DEF InstallTestEnable
  <2> QED BY <1>1, <1>8, <2>2, <2>3, <2>5, <2>6, GoKeeps
<1>9. CASE /\ hapStore' = [hapStore EXCEPT !.enablement = [state |-> "enabled", rev |-> hapOp[o].rev,
                app |-> hapOp[o].app]]
           /\ hapSeen' = [hapSeen EXCEPT !.withdrawn = @ \ {hapOp[o].rev}]
           /\ hapGo(o, "registry") /\ UNCHANGED <<hapLock, hapLeft>>
  <2>1. DOMAIN hapStore' = StoreFields /\ hapStore'.revs = hapStore.revs
        /\ hapStore'.pack = hapStore.pack /\ hapStore'.active = hapStore.active
    BY SMTT(60), <1>2, <1>9 DEF StoreFields
  <2>2. hapStore'.enablement = [state |-> "enabled", rev |-> rev, app |-> app]
    BY SMTT(60), <1>2, <1>9 DEF StoreFields, At
  <2>3. DOMAIN hapStore'.enablement = {"state", "rev", "app"} /\ hapStore'.enablement.rev = rev
          /\ hapStore'.enablement.app = app
    BY SMTT(60), <2>2
  <2>4. DOMAIN hapSeen' = DOMAIN hapSeen /\ hapSeen'.trusted = hapSeen.trusted
          /\ hapSeen'.reviewed = hapSeen.reviewed
        /\ hapSeen'.withdrawn = hapSeen.withdrawn \ {rev}
    BY SMTT(60), <1>2, <1>9 DEF At
  <2>5. StoreKept(o) /\ LocksKept(o)
    BY <1>2, <1>5, <1>9, <2>1, <2>3, Same, StoreWritten
  <2>6. EnablementFits'
    <3>1. Confirmed(hapStore.enablement)'
      BY <1>5, <2>3, <2>4 DEF Confirmed
    <3>2. Resolves(hapStore.enablement)'
      BY <2>3, <2>4 DEF Resolves
    <3> QED BY <2>1, <3>1, <3>2 DEF HapAccount, EnablementFits
  <2>7. OpFits(o, cmd, "registry", rev, app, was)'
    <3>1. "registry" \in StoreSteps /\ UNCHANGED hapLock
      BY <1>9 DEF StoreSteps
    <3>2. hapSeen'.withdrawn \subseteq hapSeen.withdrawn /\ hapSeen.reviewed \subseteq hapSeen'.reviewed
      BY <2>4
    <3> QED BY <1>0, <1>4, <2>1, <2>3, <3>1, <3>2, NextWrite
  <2>8. TrustKept(o)
    BY <2>4, Same DEF InstallTestEnable
  <2> QED BY <1>1, <1>9, <2>5, <2>6, <2>7, <2>8, GoKeeps
<1>10. CASE /\ at = "registry" /\ hapStore' = registered(hapOp[o])
            /\ hapSeen' = [hapSeen EXCEPT !.withdrawn = (@ \cup ({hapOp[o].prior} \ {0})) \ {hapOp[o].rev}]
            /\ hapGo(o, "decisions") \/ hapEnd(o)
            /\ hapFree(o)
  <2>1. /\ DOMAIN hapStore' = StoreFields /\ DOMAIN hapStore'.revs = HapRevisions
        /\ hapStore'.pack = "installed" /\ hapStore'.enablement = hapStore.enablement
        /\ \A r \in HapRevisions : hapStore.revs[r] = "revoked" => hapStore'.revs[r] = "revoked"
    BY <1>10, RegisteredStore
  <2>2. hapStore.enablement.rev = rev
    BY <1>0, <1>4, <1>10 DEF OpFits
  <2>4. DOMAIN hapSeen' = DOMAIN hapSeen /\ hapSeen'.trusted = hapSeen.trusted
          /\ hapSeen'.reviewed = hapSeen.reviewed
        /\ rev \notin hapSeen'.withdrawn
    BY SMTT(60), <1>2, <1>10 DEF At
  <2>5. StoreKept(o) /\ LocksKept(o)
    BY <1>2, <1>5, <1>10, <2>1, Frees, StoreWritten
  <2>6. EnablementFits'
    <3>1. Confirmed(hapStore.enablement)'
      BY <2>1, <2>4 DEF Confirmed, HapAccount, EnablementFits
    <3>2. Resolves(hapStore.enablement)'
      BY <2>1, <2>2, <2>4 DEF Resolves
    <3> QED BY <2>1, <3>1, <3>2 DEF EnablementFits
  <2>7. OpFits(o, cmd, "decisions", rev, app, was)'
    BY <1>0, <1>4, <2>4, LastWrite
  <2>8. TrustKept(o)
    BY <2>4, Same DEF InstallTestEnable
  <2> QED BY <1>1, <1>10, <2>5, <2>6, <2>7, <2>8, GoKeeps, EndKeeps
<1>11. CASE hapStore' = restore(hapOp[o]) /\ hapEnd(o) /\ hapFree(o) /\ UNCHANGED hapSeen
  <2> DEFINE d == IF hapOp[o].published THEN hapStore.dirs \ {hapOp[o].rev} ELSE hapStore.dirs
             t == IF hapOp[o].published THEN hapStore.tests \ {hapOp[o].rev} ELSE hapStore.tests
  <2>1. hapStore' = [hapStore EXCEPT !.dirs = d, !.tests = t, !.enablement = was]
    BY <1>11 DEF restore, At
  <2> HIDE DEF d, t
  <2>2. DOMAIN hapStore' = StoreFields /\ hapStore'.revs = hapStore.revs /\ hapStore'.enablement = was
        /\ hapStore'.pack = hapStore.pack /\ hapStore'.active = hapStore.active
    BY SMTT(60), <1>2, <2>1 DEF StoreFields
  <2>3. EnablementFits'
    <3>1. Confirmed(hapStore.enablement)'
      BY <1>5, <1>11, <2>2 DEF Confirmed
    <3>2. Resolves(hapStore.enablement)'
      BY <1>5, <1>11, <2>2 DEF Resolves
    <3> QED BY <2>2, <3>1, <3>2 DEF HapAccount, EnablementFits
  <2>4. StoreKept(o) /\ LocksKept(o)
    BY <1>2, <1>5, <1>11, <2>2, Frees, StoreWritten
  <2>5. TrustKept(o)
    BY <1>11, Same DEF InstallTestEnable
  <2> QED BY <1>1, <1>11, <2>3, <2>4, <2>5, EndKeeps
<1> QED BY <1>7, <1>8, <1>9, <1>10, <1>11 DEF InstallTestEnable, At

LEMMA SaveKeeps ==
  ASSUME HapAccount, NEW o \in HapOperators, NEW cmd, NEW at, NEW rev, NEW app, NEW was,
         At(o, cmd, at, rev, app, was),
         SaveEnablementSnapshot(o)
  PROVE  HapAccount'
<1>0. OpFits(o, cmd, at, rev, app, was) /\ cmd \in {"enable", "disable"} /\ at = "enablement"
  BY CommandFits DEF SaveEnablementSnapshot, At
<1>1. RunKept /\ LocksKept(o)
  BY Same, Frees DEF SaveEnablementSnapshot
<1>2. DOMAIN hapStore = StoreFields /\ DOMAIN hapStore.revs = HapRevisions
        /\ DOMAIN hapStore.enablement = {"state", "rev", "app"}
      /\ DOMAIN hapSeen = {"reviewed", "withdrawn", "trusted"}
  BY DEF HapAccount, HapShape
<1>3. at \in StoreSteps /\ cmd \notin TrustCommands /\ at \notin {"idle", "review"}
        /\ (cmd = "enable" => cmd \in Granting)
  BY <1>0 DEF StoreSteps, TrustCommands, Granting
<1>4. hapLock.store = o
  BY <1>0, <1>3 DEF OpFits
<1>5. CASE hapEnd(o) /\ UNCHANGED <<hapStore, hapSeen>>
  BY <1>1, <1>5, Same, EndKeeps DEF SaveEnablementSnapshot
<1>6. CASE /\ hapStore' = [hapStore EXCEPT !.enablement = enablementOf(hapOp[o])]
           /\ hapSeen' = [hapSeen EXCEPT !.withdrawn = IF hapOp[o].cmd = "disable" THEN @ \cup {hapOp[o].rev} ELSE @ \ {hapOp[o].rev}]
           /\ hapGo(o, "decisions") \/ hapEnd(o)
  <2>1. PICK e : e = enablementOf(hapOp[o])
    OBVIOUS
  <2>2. DOMAIN hapStore' = StoreFields /\ hapStore'.revs = hapStore.revs /\ hapStore'.enablement = e
        /\ hapStore'.pack = hapStore.pack /\ hapStore'.active = hapStore.active
    BY SMTT(60), <1>2, <1>6, <2>1 DEF StoreFields
  <2>3. DOMAIN e = {"state", "rev", "app"}
          /\ (e.state = "enabled" => cmd = "enable" /\ e.rev = rev /\ e.app = app)
    <3>1. CASE cmd = "enable"
      <4>1. e = [state |-> "enabled", rev |-> rev, app |-> app]
        BY <2>1, <3>1 DEF enablementOf, At
      <4> QED BY SMTT(60), <3>1, <4>1
    <3>2. CASE cmd # "enable"
      <4>1. e = [hapStore.enablement EXCEPT !.state = "disabled"]
        BY <2>1, <3>2 DEF enablementOf, At
      <4> QED BY SMTT(60), <1>2, <4>1
    <3> QED BY <3>1, <3>2
  <2>4. DOMAIN hapSeen' = DOMAIN hapSeen /\ hapSeen'.trusted = hapSeen.trusted
          /\ hapSeen'.reviewed = hapSeen.reviewed
        /\ (cmd = "enable" => rev \notin hapSeen'.withdrawn)
    BY SMTT(60), <1>2, <1>6 DEF At
  <2>5. EnablementFits'
    <3>1. Confirmed(hapStore.enablement)'
      BY <1>0, <1>3, <2>2, <2>3, <2>4 DEF Confirmed, OpFits
    <3>2. Resolves(hapStore.enablement)'
      BY <2>2, <2>3, <2>4 DEF Resolves
    <3> QED BY <2>2, <3>1, <3>2 DEF HapAccount, EnablementFits
  <2>6. StoreKept(o)
    BY <1>2, <1>4, <2>2, <2>3, StoreWritten
  <2>7. TrustKept(o)
    BY <2>4, Same DEF SaveEnablementSnapshot
  <2>8. OpFits(o, cmd, "decisions", rev, app, was)'
    BY <1>0, <1>3, <2>4, LastWrite
  <2> QED BY <1>1, <1>6, <2>5, <2>6, <2>7, <2>8, GoKeeps, EndKeeps
<1> QED BY <1>5, <1>6 DEF SaveEnablementSnapshot

LEMMA RevokedEnablement ==
  ASSUME HapAccount, NEW op, hapStore' = revokeEnablementsUnlocked(op), UNCHANGED hapSeen
  PROVE  /\ DOMAIN hapStore' = StoreFields /\ hapStore'.revs = hapStore.revs
         /\ DOMAIN hapStore'.enablement = {"state", "rev", "app"} /\ hapStore'.pack = hapStore.pack
         /\ EnablementFits'
<1>1. DOMAIN hapStore = StoreFields /\ DOMAIN hapStore.enablement = {"state", "rev", "app"}
  BY DEF HapAccount, HapShape
<1>2. CASE hapStore' = hapStore
  BY <1>1, <1>2, StoreSays
<1>3. CASE hapStore' = [hapStore EXCEPT !.enablement.state = "revoked"]
  <2>1. DOMAIN hapStore' = StoreFields /\ hapStore'.revs = hapStore.revs /\ hapStore'.pack = hapStore.pack
        /\ hapStore'.active = hapStore.active
             /\ hapStore'.enablement = [hapStore.enablement EXCEPT !.state = "revoked"]
    BY SMTT(60), <1>1, <1>3 DEF StoreFields
  <2>2. DOMAIN hapStore'.enablement = {"state", "rev", "app"} /\ hapStore'.enablement.state # "enabled"
    BY SMTT(60), <1>1, <2>1
  <2> QED BY <2>1, <2>2 DEF HapAccount, EnablementFits, Confirmed, Resolves
<1> QED BY <1>2, <1>3 DEF revokeEnablementsUnlocked

LEMMA RevokeKeeps ==
  ASSUME HapAccount, NEW o \in HapOperators, NEW cmd, NEW at, NEW rev, NEW app, NEW was,
         At(o, cmd, at, rev, app, was),
         RevokeRevision(o)
  PROVE  HapAccount'
<1>0. OpFits(o, cmd, at, rev, app, was) /\ cmd = "revoke" /\ at \in {"registry", "enablement"}
  BY CommandFits DEF RevokeRevision, At
<1>1. RunKept
  BY Same DEF RevokeRevision
<1>2. DOMAIN hapStore = StoreFields /\ DOMAIN hapStore.revs = HapRevisions
        /\ DOMAIN hapStore.enablement = {"state", "rev", "app"}
      /\ DOMAIN hapSeen = {"reviewed", "withdrawn", "trusted"}
  BY DEF HapAccount, HapShape
<1>3. /\ at \in StoreSteps /\ at \notin {"idle", "review"}
      /\ cmd \notin TrustCommands /\ cmd \notin Granting /\ cmd \notin Replacing /\ cmd \notin Installing
  BY <1>0 DEF StoreSteps, TrustCommands, Granting, Replacing, Installing
<1>4. hapLock.store = o /\ rev \in HapRevisions /\ rev # 0
  BY <1>0, <1>3, HapAssumption DEF OpFits
<1>5. CASE hapEnd(o) /\ hapFree(o) /\ UNCHANGED <<hapStore, hapSeen>>
  BY <1>1, <1>5, Same, Frees, EndKeeps DEF RevokeRevision
<1>6. CASE hapStore' = revokeEnablementsUnlocked(hapOp[o]) /\ hapGo(o, "decisions") /\ hapFree(o)
             /\ UNCHANGED hapSeen
  <2>1. StoreKept(o) /\ EnablementFits'
    BY <1>2, <1>4, <1>6, RevokedEnablement, StoreWritten
  <2>2. TrustKept(o) /\ LocksKept(o)
    BY <1>6, Same, Frees DEF RevokeRevision
  <2>3. OpFits(o, cmd, "decisions", rev, app, was)'
    BY <1>0, <1>3, <1>6, LastWrite
  <2> QED BY <1>1, <1>6, <2>1, <2>2, <2>3, GoKeeps
<1>7. CASE /\ hapStore' = [hapStore EXCEPT !.revs[hapOp[o].rev] = "revoked",
                                          !.pack = IF hapStore.active = hapOp[o].rev THEN "revoked" ELSE @,
                                          !.active = IF @ = hapOp[o].rev THEN 0 ELSE @]
           /\ hapSeen' = [hapSeen EXCEPT !.withdrawn = @ \cup {hapOp[o].rev}]
           /\ hapGo(o, "enablement") /\ UNCHANGED <<hapLock, hapLeft>>
  <2>1. /\ DOMAIN hapStore' = StoreFields /\ hapStore'.revs = [hapStore.revs EXCEPT ![rev] = "revoked"]
        /\ hapStore'.enablement = hapStore.enablement
        /\ hapStore'.pack = IF hapStore.active = rev THEN "revoked" ELSE hapStore.pack
        /\ hapStore'.active = IF hapStore.active = rev THEN 0 ELSE hapStore.active
    BY SMTT(60), <1>2, <1>7 DEF StoreFields, At
  <2>2. /\ DOMAIN hapStore'.revs = HapRevisions /\ hapStore'.revs[rev] = "revoked"
        /\ \A r \in HapRevisions : r # rev => hapStore'.revs[r] = hapStore.revs[r]
    BY <1>2, <1>4, <2>1
  <2>3. DOMAIN hapSeen' = DOMAIN hapSeen /\ hapSeen'.trusted = hapSeen.trusted
          /\ hapSeen'.reviewed = hapSeen.reviewed
        /\ hapSeen'.withdrawn = hapSeen.withdrawn \cup {rev}
    BY SMTT(60), <1>2, <1>7 DEF At
  <2>4. hapStore.pack = "removed" => hapStore'.pack = "removed"
    BY <1>4, <2>1 DEF HapAccount, EnablementFits
  <2>5. EnablementFits'
    <3>1. Confirmed(hapStore.enablement)'
      BY <2>1, <2>3 DEF Confirmed, HapAccount, EnablementFits
    <3>2. Resolves(hapStore.enablement)'
      BY <2>1, <2>2, <2>3, <2>4 DEF Resolves, HapAccount, EnablementFits
    <3>3. hapStore'.pack = "removed" => hapStore'.active = 0
      BY <1>4, <2>1 DEF HapAccount, EnablementFits
    <3> QED BY <3>1, <3>2, <3>3 DEF EnablementFits
  <2>6. StoreKept(o) /\ LocksKept(o) /\ TrustKept(o)
    BY <1>2, <1>4, <1>7, <2>1, <2>2, <2>3, Same, StoreWritten DEF RevokeRevision
  <2>7. OpFits(o, cmd, "enablement", rev, app, was)'
    <3>1. Confirmed(was)'
      BY <1>0, <2>3 DEF OpFits, Confirmed
    <3>2. "enablement" \notin {"acquire", "store"} /\ hapLock'.store = o
      BY <1>4, <1>7
    <3> QED BY <1>3, <1>4, <3>1, <3>2 DEF OpFits
  <2> QED BY <1>1, <1>7, <2>5, <2>6, <2>7, GoKeeps
<1> QED BY <1>5, <1>6, <1>7 DEF RevokeRevision

LEMMA RemoveKeeps ==
  ASSUME HapAccount, NEW o \in HapOperators, NEW cmd, NEW at, NEW rev, NEW app, NEW was,
         At(o, cmd, at, rev, app, was),
         RemovePack(o)
  PROVE  HapAccount'
<1>0. OpFits(o, cmd, at, rev, app, was) /\ cmd = "remove"
        /\ at \in {"trash", "registry", "enablement", "delete"}
  BY CommandFits DEF RemovePack, At
<1>1. RunKept
  BY Same DEF RemovePack
<1>2. DOMAIN hapStore = StoreFields /\ DOMAIN hapStore.revs = HapRevisions
        /\ DOMAIN hapStore.enablement = {"state", "rev", "app"}
      /\ DOMAIN hapSeen = {"reviewed", "withdrawn", "trusted"}
  BY DEF HapAccount, HapShape
<1>3. /\ at \in StoreSteps /\ at \notin {"idle", "review"}
      /\ cmd \notin TrustCommands /\ cmd \notin Granting /\ cmd \notin Replacing /\ cmd \notin Installing
  BY <1>0 DEF StoreSteps, TrustCommands, Granting, Replacing, Installing
<1>4. hapLock.store = o
  BY <1>0, <1>3 DEF OpFits
<1>5. ASSUME NEW to \in {"registry", "enablement", "delete"}, UNCHANGED hapLock,
             hapSeen'.reviewed = hapSeen.reviewed
      PROVE  OpFits(o, cmd, to, rev, app, was)'
  <2>1. Confirmed(was)'
    BY <1>0, <1>5 DEF OpFits, Confirmed
  <2>2. to \notin {"acquire", "store"} /\ hapLock'.store = o /\ cmd # "revoke"
    BY <1>0, <1>4, <1>5
  <2> QED BY <1>3, <2>1, <2>2 DEF OpFits
<1>6. ASSUME NEW d, NEW t, hapStore' = [hapStore EXCEPT !.trash = t, !.dirs = d]
               \/ hapStore' = [hapStore EXCEPT !.trash = t],
             UNCHANGED hapSeen
      PROVE  StoreKept(o) /\ EnablementFits'
  <2>1. DOMAIN hapStore' = StoreFields /\ hapStore'.revs = hapStore.revs
          /\ hapStore'.enablement = hapStore.enablement
        /\ hapStore'.pack = hapStore.pack /\ hapStore'.active = hapStore.active
    <3>1. CASE hapStore' = [hapStore EXCEPT !.trash = t, !.dirs = d]
      BY SMTT(60), <1>2, <3>1 DEF StoreFields
    <3>2. CASE hapStore' = [hapStore EXCEPT !.trash = t]
      BY SMTT(60), <1>2, <3>2 DEF StoreFields
    <3> QED BY <1>6, <3>1, <3>2
  <2>2. EnablementFits'
    BY <1>6, <2>1, StoreSays
  <2>3. StoreKept(o)
    BY <1>2, <1>4, <2>1, StoreWritten
  <2> QED BY <2>2, <2>3
<1>7. UNCHANGED hapSeen => TrustKept(o)
  BY Same DEF RemovePack
<1>8. CASE /\ hapStore' = [hapStore EXCEPT !.trash = hapStore.dirs, !.dirs = {}]
           /\ hapGo(o, "registry") /\ UNCHANGED <<hapLock, hapSeen, hapLeft>>
  BY <1>1, <1>5, <1>6, <1>7, <1>8, Same, GoKeeps
<1>9. CASE /\ hapStore' = [hapStore EXCEPT !.pack = "removed", !.active = 0]
           /\ hapSeen' = [hapSeen EXCEPT !.withdrawn = HapRevisions]
           /\ hapGo(o, "enablement") /\ UNCHANGED <<hapLock, hapLeft>>
  <2>1. DOMAIN hapStore' = StoreFields /\ hapStore'.revs = hapStore.revs
          /\ hapStore'.enablement = hapStore.enablement
        /\ hapStore'.pack = "removed" /\ hapStore'.active = 0
    BY SMTT(60), <1>2, <1>9 DEF StoreFields
  <2>2. DOMAIN hapSeen' = DOMAIN hapSeen /\ hapSeen'.trusted = hapSeen.trusted
          /\ hapSeen'.reviewed = hapSeen.reviewed
    BY SMTT(60), <1>2, <1>9
  <2>3. EnablementFits'
    BY <2>1, <2>2 DEF HapAccount, EnablementFits, Confirmed, Resolves
  <2>4. StoreKept(o) /\ LocksKept(o) /\ TrustKept(o)
    BY <1>2, <1>4, <1>9, <2>1, <2>2, Same, StoreWritten DEF RemovePack
  <2> QED BY <1>1, <1>5, <1>9, <2>2, <2>3, <2>4, GoKeeps
<1>10. CASE /\ hapStore' = [hapStore EXCEPT !.trash = {}, !.dirs = hapStore.trash]
            /\ hapEnd(o) /\ hapFree(o) /\ UNCHANGED hapSeen
  BY <1>1, <1>6, <1>7, <1>10, Frees, EndKeeps
<1>11. CASE /\ hapStore' = revokeEnablementsUnlocked(hapOp[o])
            /\ hapGo(o, "delete") /\ UNCHANGED <<hapLock, hapSeen, hapLeft>>
  <2>1. StoreKept(o) /\ EnablementFits'
    BY <1>2, <1>4, <1>11, RevokedEnablement, StoreWritten
  <2> QED BY <1>1, <1>5, <1>7, <1>11, <2>1, Same, GoKeeps
<1>12. CASE /\ hapStore' = [hapStore EXCEPT !.trash = {}]
            /\ hapGo(o, "decisions") /\ hapFree(o) /\ UNCHANGED <<hapSeen, hapLeft>>
  <2>1. OpFits(o, cmd, "decisions", rev, app, was)'
    BY <1>0, <1>3, <1>12, LastWrite
  <2> QED BY <1>1, <1>6, <1>7, <1>12, <2>1, Frees, GoKeeps
<1> QED BY <1>8, <1>9, <1>10, <1>11, <1>12 DEF RemovePack

LEMMA DecisionKeeps ==
  ASSUME HapAccount, UNCHANGED hapLaunch, UNCHANGED hapRun
           \/ hapRun' = [hapRun EXCEPT !.decision = "stale"]
  PROVE  RunKept
<1>1. DOMAIN hapRun = RunFields
  BY DEF HapAccount, HapShape
<1>2. DOMAIN hapRun' = RunFields /\ hapRun'.at = hapRun.at /\ hapRun'.resolved = hapRun.resolved
        /\ hapRun'.app = hapRun.app
      /\ hapRun'.by = hapRun.by
  BY SMTT(60), <1>1 DEF RunFields
<1> QED BY <1>2 DEF HapAccount, RunFits, RunKept

LEMMA InvalidateKeeps ==
  ASSUME HapAccount, NEW o \in HapOperators, invalidateHostAppDecisions(o)
  PROVE  HapAccount'
<1>1. RunKept
  BY DecisionKeeps DEF invalidateHostAppDecisions, invalidated
<1>2. LocksKept(o) /\ StoreKept(o) /\ EnablementFits' /\ TrustKept(o)
  BY Same DEF invalidateHostAppDecisions
<1> QED BY <1>1, <1>2, EndKeeps DEF invalidateHostAppDecisions

LEMMA TrustWritten ==
  ASSUME HapAccount, NEW o \in HapOperators, NEW f \in {"mode", "request"}, NEW x,
         hapTrust' = [hapTrust EXCEPT ![f] = x]
  PROVE  DOMAIN hapTrust' = {"mode", "grants", "request"} /\ hapTrust'.grants = hapTrust.grants
<1>1. DOMAIN hapTrust = {"mode", "grants", "request"}
  BY DEF HapAccount, HapShape
<1> QED BY SMTT(60), <1>1

LEMMA ModeKeeps ==
  ASSUME HapAccount, NEW o \in HapOperators, NEW cmd, NEW at, NEW rev, NEW app, NEW was,
         At(o, cmd, at, rev, app, was),
         SetProjectionHostAppMode(o)
  PROVE  HapAccount'
<1>0. OpFits(o, cmd, at, rev, app, was) /\ cmd \in {"safe", "trusted"}
        /\ at \in {"mode", "decisions", "grants", "requests"}
  BY CommandFits DEF SetProjectionHostAppMode, At
<1>1. DOMAIN hapTrust = {"mode", "grants", "request"}
        /\ DOMAIN hapSeen = {"reviewed", "withdrawn", "trusted"}
  BY DEF HapAccount, HapShape
<1>2. cmd \in TrustCommands /\ at \in TrustSteps /\ cmd \notin Granting /\ cmd # "revoke"
  BY <1>0 DEF TrustCommands, TrustSteps, Granting
<1>3. hapLock.profile = o
  BY <1>0, <1>2 DEF OpFits
<1>4. ASSUME NEW to \in {"decisions", "grants", "requests"}, UNCHANGED <<hapLock, hapSeen>>,
             to = "requests" => hapTrust'.grants = {}
      PROVE  OpFits(o, cmd, to, rev, app, was)'
  <2>1. to \notin StoreSteps /\ to \notin {"acquire", "store"} /\ to # "registry"
    BY DEF StoreSteps
  <2>2. Confirmed(was)'
    BY <1>0, <1>4 DEF OpFits, Confirmed
  <2> QED BY <1>2, <1>3, <1>4, <2>1, <2>2 DEF OpFits
<1>5. UNCHANGED <<hapStore, hapSeen>> => StoreKept(o) /\ EnablementFits'
  BY Same
<1>6. UNCHANGED hapRun => RunKept
  BY DecisionKeeps DEF SetProjectionHostAppMode
<1>7. CASE /\ hapTrust' = [hapTrust EXCEPT !.mode = hapOp[o].cmd] /\ UNCHANGED <<hapRun, hapSeen>>
           /\ (hapGo(o, "decisions") /\ UNCHANGED hapLock) \/ (hapEnd(o) /\ hapFree(o))
  <2>1. DOMAIN hapTrust' = {"mode", "grants", "request"} /\ hapTrust'.grants = hapTrust.grants
    BY <1>7, TrustWritten
  <2>2. TrustKept(o) /\ UNCHANGED hapStore
    BY <1>1, <1>7, <2>1 DEF TrustKept, HapAccount, SetProjectionHostAppMode
  <2>3. LocksKept(o)
    BY <1>7, Same, Frees
  <2> QED BY <1>4, <1>5, <1>6, <1>7, <2>2, <2>3, GoKeeps, EndKeeps
<1>8. CASE /\ hapRun' = IF hapRun.decision \in {"pending", "approved"}
                        THEN [hapRun EXCEPT !.decision = "stale"] ELSE hapRun
           /\ hapGo(o, "grants") /\ UNCHANGED <<hapLock, hapTrust, hapSeen, hapLeft>>
  <2>1. RunKept /\ UNCHANGED hapStore
    BY <1>8, DecisionKeeps DEF SetProjectionHostAppMode
  <2>2. LocksKept(o) /\ TrustKept(o)
    BY <1>8, Same
  <2> QED BY <1>4, <1>5, <1>8, <2>1, <2>2, GoKeeps
<1>9. CASE /\ hapTrust' = [hapTrust EXCEPT !.grants = {}]
           /\ hapGo(o, "requests") /\ UNCHANGED <<hapLock, hapRun, hapSeen, hapLeft>>
  <2>1. DOMAIN hapTrust' = {"mode", "grants", "request"} /\ hapTrust'.grants = {}
    BY SMTT(60), <1>1, <1>9
  <2>2. TrustKept(o) /\ UNCHANGED hapStore
    BY <1>1, <1>3, <1>9, <2>1 DEF TrustKept, SetProjectionHostAppMode
  <2> QED BY <1>4, <1>5, <1>6, <1>9, <2>1, <2>2, Same, GoKeeps
<1>10. CASE /\ at = "requests" /\ hapTrust' = [hapTrust EXCEPT !.request = NoRequested]
            /\ hapSeen' = [hapSeen EXCEPT !.trusted = {}]
            /\ hapEnd(o) /\ hapFree(o) /\ UNCHANGED <<hapRun, hapLeft>>
  <2>1. DOMAIN hapTrust' = {"mode", "grants", "request"} /\ hapTrust'.grants = hapTrust.grants
    BY <1>10, TrustWritten
  <2>2. hapTrust.grants = {}
    BY <1>0, <1>2, <1>10 DEF OpFits
  <2>3. DOMAIN hapSeen' = DOMAIN hapSeen /\ hapSeen'.withdrawn = hapSeen.withdrawn
          /\ hapSeen'.reviewed = hapSeen.reviewed
    BY SMTT(60), <1>1, <1>10
  <2>4. TrustKept(o)
    BY <1>1, <2>1, <2>2, <2>3 DEF TrustKept
  <2>5. UNCHANGED hapStore
    BY DEF SetProjectionHostAppMode
  <2>6. EnablementFits' /\ StoreKept(o)
    <3>1. EnablementFits'
      BY <2>3, <2>5, StoreSays
    <3>2. StoreKept(o)
      BY <2>3, <2>5 DEF StoreKept, HapAccount, HapShape
    <3> QED BY <3>1, <3>2
  <2> QED BY <1>6, <1>10, <2>4, <2>6, Frees, EndKeeps
<1>11. CASE hapEnd(o) /\ hapFree(o) /\ UNCHANGED <<hapRun, hapTrust, hapSeen>>
  <2>1. UNCHANGED hapStore
    BY DEF SetProjectionHostAppMode
  <2>2. TrustKept(o)
    BY <1>11, Same
  <2> QED BY <1>5, <1>6, <1>11, <2>1, <2>2, Frees, EndKeeps
<1> QED BY <1>7, <1>8, <1>9, <1>10, <1>11 DEF SetProjectionHostAppMode, At

LEMMA GrantKeeps ==
  ASSUME HapAccount, NEW o \in HapOperators, NEW cmd, NEW at, NEW rev, NEW app, NEW was,
         At(o, cmd, at, rev, app, was),
         GrantHostAppTrust(o) \/ RevokeHostAppTrust(o)
  PROVE  HapAccount'
<1>0. OpFits(o, cmd, at, rev, app, was) /\ cmd \in {"allow", "forget"} /\ at = "mode"
  BY CommandFits DEF GrantHostAppTrust, RevokeHostAppTrust, At
<1>1. DOMAIN hapTrust = {"mode", "grants", "request"}
        /\ DOMAIN hapSeen = {"reviewed", "withdrawn", "trusted"}
      /\ hapTrust.grants \subseteq hapSeen.trusted
  BY DEF HapAccount, HapShape
<1>2. cmd \in TrustCommands /\ at \in TrustSteps
  BY <1>0 DEF TrustCommands, TrustSteps
<1>3. hapLock.profile = o
  BY <1>0, <1>2 DEF OpFits
<1>4. hapEnd(o) /\ LocksKept(o) /\ RunKept /\ UNCHANGED hapStore
  BY Frees, Same DEF GrantHostAppTrust, RevokeHostAppTrust
<1>5. ASSUME DOMAIN hapTrust' = DOMAIN hapTrust, DOMAIN hapSeen' = DOMAIN hapSeen,
             hapSeen'.withdrawn = hapSeen.withdrawn,
             hapSeen'.reviewed = hapSeen.reviewed, hapTrust'.grants \subseteq hapSeen'.trusted
      PROVE  HapAccount'
  <2>1. EnablementFits'
    BY <1>4, <1>5, StoreSays
  <2>2. StoreKept(o)
    BY <1>4, <1>5 DEF StoreKept, HapAccount, HapShape
  <2>3. TrustKept(o)
    BY <1>1, <1>3, <1>5 DEF TrustKept
  <2> QED BY <1>4, <2>1, <2>2, <2>3, EndKeeps
<1>6. CASE UNCHANGED <<hapTrust, hapSeen>>
  BY <1>1, <1>5, <1>6
<1>7. ASSUME NEW g, hapTrust' = [hapTrust EXCEPT !.grants = @ \cup {g}],
             hapSeen' = [hapSeen EXCEPT !.trusted = @ \cup {g}]
      PROVE  HapAccount'
  <2>1. DOMAIN hapTrust' = DOMAIN hapTrust /\ DOMAIN hapSeen' = DOMAIN hapSeen
          /\ hapSeen'.withdrawn = hapSeen.withdrawn
        /\ hapSeen'.reviewed = hapSeen.reviewed /\ hapTrust'.grants = hapTrust.grants \cup {g}
        /\ hapSeen'.trusted = hapSeen.trusted \cup {g}
    BY SMTT(60), <1>1, <1>7
  <2> QED BY <1>1, <1>5, <2>1
<1>8. CASE hapTrust' = [hapTrust EXCEPT !.grants = {}] /\ hapSeen' = [hapSeen EXCEPT !.trusted = {}]
  <2>1. DOMAIN hapTrust' = DOMAIN hapTrust /\ DOMAIN hapSeen' = DOMAIN hapSeen
          /\ hapSeen'.withdrawn = hapSeen.withdrawn
        /\ hapSeen'.reviewed = hapSeen.reviewed /\ hapTrust'.grants = {}
    BY SMTT(60), <1>1, <1>8
  <2> QED BY <1>5, <2>1
<1> QED BY <1>6, <1>7, <1>8 DEF GrantHostAppTrust, RevokeHostAppTrust

LEMMA DiesKeeps ==
  ASSUME HapAccount, NEW o \in HapOperators, CommandDies(o)
  PROVE  HapAccount'
  BY Same, Frees, EndKeeps DEF CommandDies

LEMMA RunKeeps ==
  ASSUME HapAccount, UNCHANGED <<hapStore, hapOp, hapLock, hapSeen>>,
         DOMAIN hapTrust' = DOMAIN hapTrust, hapTrust'.grants = hapTrust.grants,
         DOMAIN hapRun' = RunFields, RunFits', OnlyReviewedAppsOpen'
  PROVE  HapAccount'
<1>1. HapShape'
  BY DEF HapAccount, HapShape
<1>2. OpsFit'
  BY SMTT(60) DEF HapAccount, OpsFit, OpFits, Confirmed, Resolves
<1>3. EnablementFits'
  BY StoreSays
<1> QED BY <1>1, <1>2, <1>3 DEF HapAccount

LEMMA OpeningKeeps ==
  ASSUME HapAccount, HapRun
  PROVE  HapAccount'
<1>0. DOMAIN hapRun = RunFields /\ RunFits /\ OnlyReviewedAppsOpen
        /\ DOMAIN hapTrust = {"mode", "grants", "request"}
      /\ hapTrust.grants \subseteq hapSeen.trusted /\ EnablementFits
  BY DEF HapAccount, HapShape
<1>1. UNCHANGED <<hapStore, hapOp, hapLock, hapSeen>>
  BY DEF HapRun, StartRunDataPlane, ensureRunProjectionDecision, ApproveOpen, CloseRunDataPlane,
     GuestOpens, OpenCommand,
         TrustedGrantActive, maybeRecordTrustedHostAppRequest, RawDecision, OpenBoundResource
<1>2. UNCHANGED <<hapLaunch>> => OnlyReviewedAppsOpen'
  BY <1>0, <1>1 DEF OnlyReviewedAppsOpen
<1>3. CASE StartRunDataPlane
  <2>1. DOMAIN hapRun' = RunFields /\ hapRun'.at = "idle" /\ hapRun'.by = "none"
    BY SMTT(60), <1>3 DEF StartRunDataPlane, CompileHostAppCatalog, NoHapRun, RunFields
  <2> QED BY <1>1, <1>2, <1>3, <2>1, RunKeeps DEF StartRunDataPlane, RunFits
<1>4. CASE ensureRunProjectionDecision
  <2>1. DOMAIN hapRun' = RunFields /\ hapRun'.at = hapRun.at /\ hapRun'.by = hapRun.by
          /\ hapRun'.resolved = hapRun.resolved
        /\ hapRun'.app = hapRun.app
    BY SMTT(60), <1>0, <1>4 DEF ensureRunProjectionDecision, RunFields
  <2> QED BY <1>0, <1>1, <1>2, <1>4, <2>1, RunKeeps DEF ensureRunProjectionDecision, RunFits
<1>5. CASE ApproveOpen
  <2>1. DOMAIN hapRun' = RunFields /\ hapRun'.at = hapRun.at /\ hapRun'.by = hapRun.by
          /\ hapRun'.resolved = hapRun.resolved
        /\ hapRun'.app = hapRun.app
    BY SMTT(60), <1>0, <1>5 DEF ApproveOpen, RunFields
  <2> QED BY <1>0, <1>1, <1>2, <1>5, <2>1, RunKeeps DEF ApproveOpen, RunFits
<1>6. CASE CloseRunDataPlane
  <2>1. DOMAIN hapRun' = RunFields /\ hapRun'.at = "idle" /\ hapRun'.by = "none"
    BY SMTT(60), <1>6 DEF CloseRunDataPlane, NoHapRun, RunFields
  <2> QED BY <1>1, <1>2, <1>6, <2>1, RunKeeps DEF CloseRunDataPlane, RunFits
<1>7. CASE GuestOpens
  <2>1. PICK b : b = (hapRun.rev \in hapSeen.withdrawn)
    OBVIOUS
  <2>2. hapRun' = [hapRun EXCEPT !.at = "command", !.stale = b]
    BY <1>7, <2>1 DEF GuestOpens
  <2>3. DOMAIN hapRun' = RunFields /\ hapRun'.at = "command" /\ hapRun'.by = hapRun.by
    BY SMTT(60), <1>0, <2>2 DEF RunFields
  <2> QED BY <1>0, <1>1, <1>2, <1>7, <2>3, RunKeeps DEF GuestOpens, RunFits
<1>r. ASSUME hapRun' = openRefused
      PROVE  DOMAIN hapRun' = RunFields /\ RunFits'
  <2>1. DOMAIN hapRun' = RunFields /\ hapRun'.at = "idle" /\ hapRun'.by = "none"
    BY SMTT(60), <1>0, <1>r DEF openRefused, RunFields
  <2> QED BY <2>1 DEF RunFits
<1>8. CASE OpenCommand
  <2>1. CASE hapRun' = openRefused
    BY <1>1, <1>2, <1>8, <1>r, <2>1, RunKeeps DEF OpenCommand
  <2>2. CASE hapRun' = [hapRun EXCEPT !.at = IF accessOf(hapRun.rev) = "safe" THEN "guard" ELSE "grant",
                                      !.by = IF accessOf(hapRun.rev) = "safe" THEN "safe" ELSE "none",
                                      !.resolved = hapRun.app]
    <3>1. DOMAIN hapRun' = RunFields /\ hapRun'.by \in {"safe", "none"} /\ hapRun'.resolved = hapRun.app
            /\ hapRun'.app = hapRun.app
      BY SMTT(60), <1>0, <2>2 DEF RunFields
    <3> QED BY <1>1, <1>2, <1>8, <3>1, RunKeeps DEF OpenCommand, RunFits
  <2> QED BY <1>8, <2>1, <2>2 DEF OpenCommand
<1>9. CASE TrustedGrantActive
  <2>1. \E x \in {"guard", "hint", "decision"} : hapRun' = [hapRun EXCEPT !.at = x, !.by = "grant"]
          \/ hapRun' = [hapRun EXCEPT !.at = x]
    BY <1>0, <1>9 DEF TrustedGrantActive, trustedHostAppGrantMatches
  <2>2. DOMAIN hapRun' = RunFields /\ hapRun'.by \in {"grant", hapRun.by}
          /\ hapRun'.resolved = hapRun.resolved /\ hapRun'.app = hapRun.app
    <3>1. PICK x \in {"guard", "hint", "decision"} : hapRun' = [hapRun EXCEPT !.at = x, !.by = "grant"]
                 \/ hapRun' = [hapRun EXCEPT !.at = x]
      BY <2>1
    <3>2. CASE hapRun' = [hapRun EXCEPT !.at = x, !.by = "grant"]
      BY SMTT(60), <1>0, <3>2 DEF RunFields
    <3>3. CASE hapRun' = [hapRun EXCEPT !.at = x]
      BY SMTT(60), <1>0, <3>3 DEF RunFields
    <3> QED BY <3>1, <3>2, <3>3
  <2>3. hapRun.at = "grant"
    BY <1>9 DEF TrustedGrantActive
  <2> QED BY <1>0, <1>1, <1>2, <1>9, <2>2, <2>3, RunKeeps DEF TrustedGrantActive, RunFits
<1>10. CASE maybeRecordTrustedHostAppRequest
  <2>1. DOMAIN hapRun' = RunFields /\ hapRun'.by = hapRun.by /\ hapRun'.resolved = hapRun.resolved
          /\ hapRun'.app = hapRun.app
        /\ hapRun.at = "hint"
    BY SMTT(60), <1>0, <1>10 DEF maybeRecordTrustedHostAppRequest, RunFields
  <2>2. DOMAIN hapTrust' = DOMAIN hapTrust /\ hapTrust'.grants = hapTrust.grants
    <3>1. PICK x : x = [rev |-> hapRun.rev, app |-> hapRun.app]
      OBVIOUS
    <3>2. hapTrust' = [hapTrust EXCEPT !.request = x]
      BY <1>10, <3>1 DEF maybeRecordTrustedHostAppRequest
    <3> QED BY SMTT(60), <1>0, <3>2
  <2> QED BY <1>0, <1>1, <1>2, <1>10, <2>1, <2>2, RunKeeps DEF maybeRecordTrustedHostAppRequest, RunFits
<1>11. CASE RawDecision
  <2>1. CASE hapRun' = openRefused
    BY <1>1, <1>2, <1>11, <1>r, <2>1, RunKeeps DEF RawDecision
  <2>2. CASE hapRun' = [hapRun EXCEPT !.at = "guard", !.by = "decision"]
    <3>1. DOMAIN hapRun' = RunFields /\ hapRun'.by = "decision" /\ hapRun'.resolved = hapRun.resolved
            /\ hapRun'.app = hapRun.app
      BY SMTT(60), <1>0, <2>2 DEF RunFields
    <3>2. hapRun.at = "decision"
      BY <1>11 DEF RawDecision
    <3> QED BY <1>0, <1>1, <1>2, <1>11, <3>1, <3>2, RunKeeps DEF RawDecision, RunFits
  <2> QED BY <1>11, <2>1, <2>2 DEF RawDecision
<1>12. CASE OpenBoundResource
  <2>1. OnlyReviewedAppsOpen'
    <3>1. CASE UNCHANGED hapLaunch
      BY <1>2, <3>1
    <3>2. CASE /\ bindingIsCurrent(hapRun) /\ identityMatches(hapRun.resolved)
               /\ hapLaunch' = [rev |-> hapRun.rev, app |-> hapHost.app, by |-> hapRun.by,
                                stale |-> hapRun.stale /\ hapRun.rev \in hapSeen.withdrawn]
      <4>1. /\ hapStore.enablement.state = "enabled" /\ hapStore.enablement.rev = hapRun.rev
            /\ hapStore.enablement.app = hapRun.app /\ hapStore.enablement.rev \in HapRevisions
            /\ hapStore.pack = "installed" /\ hapStore.revs[hapRun.rev] = "installed"
        BY <3>2 DEF bindingIsCurrent, ValidateEnablement, resolveRevisionSnapshot
      <4>2. hapHost.app = hapRun.app /\ hapRun.by # "lapsed grant"
        BY <1>0, <1>12, <3>2 DEF identityMatches, RunFits, OpenBoundResource
      <4>3. <<hapRun.rev, hapRun.app>> \in hapSeen.reviewed
        BY <1>0, <4>1 DEF EnablementFits, Confirmed
      <4>4. hapRun.rev \notin hapSeen.withdrawn
        BY <1>0, <4>1 DEF EnablementFits, Resolves
      <4>5. PICK b : b = (hapRun.stale /\ hapRun.rev \in hapSeen.withdrawn)
        OBVIOUS
      <4>6. ~b
        BY <4>4, <4>5
      <4>7. hapLaunch' = [rev |-> hapRun.rev, app |-> hapHost.app, by |-> hapRun.by, stale |-> b]
        BY <3>2, <4>5
      <4>8. hapLaunch'.rev = hapRun.rev /\ hapLaunch'.app = hapHost.app /\ hapLaunch'.by = hapRun.by
              /\ hapLaunch'.stale = b
        BY SMTT(60), <4>7
      <4> QED BY <1>1, <4>2, <4>3, <4>6, <4>8 DEF OnlyReviewedAppsOpen
    <3> QED BY <1>12, <3>1, <3>2 DEF OpenBoundResource
  <2> QED BY <1>1, <1>12, <1>r, <2>1, RunKeeps DEF OpenBoundResource
<1> QED BY <1>3, <1>4, <1>5, <1>6, <1>7, <1>8, <1>9, <1>10, <1>11, <1>12 DEF HapRun

\* HapAccount is inductive: it holds before any command, and every step of a
\* command, a run or the host keeps it.
THEOREM HapAccountHolds == HapSpec => []HapAccount
<1>1. HapInit => HapAccount
  <2> SUFFICES ASSUME HapInit PROVE HapAccount
    OBVIOUS
  <2>1. HapShape
    BY SMTT(60) DEF HapInit, HapShape, NoCommand, NoEnablement, NoHapRun, HapFields, RunFields, StoreFields
  <2>2. OpsFit
    <3> SUFFICES ASSUME NEW o \in HapOperators
                 PROVE  OpFits(o, hapOp[o].cmd, hapOp[o].at, hapOp[o].rev, hapOp[o].app, hapOp[o].was)
      BY DEF OpsFit
    <3>1. hapOp[o] = NoCommand
      BY DEF HapInit
    <3>2. hapOp[o].cmd = "none" /\ hapOp[o].at = "idle" /\ hapOp[o].was.state = "absent"
      BY SMTT(60), <3>1 DEF NoCommand, NoEnablement
    <3>3. "idle" \notin StoreSteps /\ "none" \notin TrustCommands /\ "none" \notin Granting
      BY DEF StoreSteps, TrustCommands, Granting
    <3> QED BY <3>2, <3>3 DEF OpFits, Confirmed
  <2>3. hapStore.enablement.state = "absent" /\ hapStore.pack = "none" /\ hapRun.at = "idle"
          /\ hapRun.by = "none"
        /\ hapTrust.grants = {} /\ hapLaunch.rev = 0
    BY SMTT(60) DEF HapInit, NoEnablement, NoHapRun, NoLaunch
  <2>4. EnablementFits
    BY <2>3 DEF EnablementFits, Confirmed, Resolves
  <2>5. RunFits
    BY <2>3 DEF RunFits
  <2>6. OnlyReviewedAppsOpen /\ hapTrust.grants \subseteq hapSeen.trusted
    BY <2>3 DEF OnlyReviewedAppsOpen
  <2> QED BY ZenonT(60), <2>1, <2>2, <2>4, <2>5, <2>6 DEF HapAccount
<1>2. HapAccount /\ [HapNext]_hapVars => HapAccount'
  <2> SUFFICES ASSUME HapAccount, [HapNext]_hapVars PROVE HapAccount'
    OBVIOUS
  <2>1. ASSUME NEW o \in HapOperators, HapCommand(o) PROVE HapAccount'
    <3>1. PICK cmd, at, rev, app, was : At(o, cmd, at, rev, app, was)
      BY DEF At
    <3>2. CASE \E c \in HapCommands : PlanHostAppPack(o, c)
      BY <3>2, PlanKeeps
    <3>3. CASE \/ applyHostAppAdd(o) \/ applyHostAppUpdate(o) \/ applyHostAppRevoke(o)
                    \/ applyHostAppRemove(o)
               \/ applyHostAppEnable(o) \/ applyHostAppDisable(o) \/ applyTrust(o)
      BY <3>1, <3>3, ApplyKeeps
    <3>4. CASE withProfileMutationLock(o)
      BY <3>1, <3>4, LockKeeps
    <3>5. CASE Acquire(o)
      BY <3>1, <3>5, AcquireKeeps
    <3>6. CASE withLock(o)
      BY <3>1, <3>6, StoreLockKeeps
    <3>7. CASE Install(o)
      BY <3>1, <3>7, InstallKeeps
    <3>8. CASE InstallTestEnable(o)
      BY <3>1, <3>8, EnableWriteKeeps
    <3>9. CASE SaveEnablementSnapshot(o)
      BY <3>1, <3>9, SaveKeeps
    <3>10. CASE RevokeRevision(o)
      BY <3>1, <3>10, RevokeKeeps
    <3>11. CASE RemovePack(o)
      BY <3>1, <3>11, RemoveKeeps
    <3>12. CASE invalidateHostAppDecisions(o)
      BY ZenonT(60), <3>12, InvalidateKeeps
    <3>13. CASE SetProjectionHostAppMode(o)
      BY <3>1, <3>13, ModeKeeps
    <3>14. CASE GrantHostAppTrust(o) \/ RevokeHostAppTrust(o)
      BY <3>1, <3>14, GrantKeeps
    <3>15. CASE CommandDies(o)
      BY <3>15, DiesKeeps
    <3> QED BY <2>1, <3>2, <3>3, <3>4, <3>5, <3>6, <3>7, <3>8, <3>9, <3>10, <3>11, <3>12, <3>13, <3>14,
               <3>15 DEF HapCommand
  <2>2. CASE HapRun
    BY <2>2, OpeningKeeps
  <2>3. CASE HostChanges \/ UNCHANGED hapVars
    <3>1. UNCHANGED <<hapStore, hapOp, hapLock, hapTrust, hapRun, hapLaunch, hapSeen>>
      BY <2>3 DEF HostChanges, hapVars
    <3>2. DOMAIN hapRun' = RunFields /\ RunFits' /\ OnlyReviewedAppsOpen'
      BY <3>1 DEF HapAccount, HapShape, RunFits, OnlyReviewedAppsOpen
    <3> QED BY <3>1, <3>2, RunKeeps
  <2> QED BY <2>1, <2>2, <2>3 DEF HapNext
<1> QED BY <1>1, <1>2, PTL DEF HapSpec

\* The host launches for a guest only what an operator confirmed and has not
\* withdrawn, for any number of commands in progress, revisions and
\* applications, and however many commands fail or die between two files.
THEOREM OnlyReviewedAppsEverOpen == HapSpec => []OnlyReviewedAppsOpen
<1>1. HapAccount => OnlyReviewedAppsOpen
  BY DEF HapAccount
<1> QED BY <1>1, HapAccountHolds, PTL
====

---------------------------- MODULE BatchProofs ----------------------------
(***************************************************************************)
(* What the secret and the profile operations keep true for any number of  *)
(* live environments, faults, crashes and concurrent writers.              *)
(*                                                                         *)
(* The outcome of an operation rests on the shape of the gateways by the   *)
(* position of the current effect (GatesFit), which both operations share, *)
(* and on an account of the owner's own state by the step of the call:     *)
(* SecretAccount for the keychain, ProfileAccount for the profile file.    *)
(***************************************************************************)
EXTENDS SecretTransaction, ProfileTransaction, TLAPS

USE ZenonT(60)

-----------------------------------------------------------------------------
(* The batch of live network effects.  The fields of its records, and the  *)
(* steps of the call inside the batch.                                     *)

LedgerFields == {"phase", "effect", "evidence", "recovery"}
ApplyFields == {"at", "boot", "phase", "env", "outcome", "result"}
GateFields == {"route", "candidate", "previous"}
OpenPhases == {"claimed", "staging", "activating", "proving", "rolling-back", "recovery-required"}

ReadySteps == {"hook", "provider", "provider-failed", "commit"}
LiveSteps == ReadySteps \cup {"before", "run", "rollback"}

\* The steps before the batch of a call.
FreshSteps == {"startup", "with-value", "no-value", "plain", "plain-no-value", "execute", "reconcile",
               "reconcile-no-value", "classify", "begin", "save", "saved", "prove", "network", "observe"}

BatchShape ==
  /\ DOMAIN ledger = LedgerFields
  /\ DOMAIN gateway = PlannedEnvs /\ \A e \in PlannedEnvs : DOMAIN gateway[e] = GateFields
  /\ DOMAIN apply = ApplyFields /\ apply.env \in PlannedEnvs /\ apply.phase \in 1..5
  /\ apply.at \in FreshSteps => apply.phase = 1 /\ apply.env = 1

\* The effects before that of env in this phase are done: e has its candidate,
\* its candidate is active.
Staged(phase, env, e) == phase > 1 \/ e < env
Passed(phase, env, e) == phase > 3 \/ (phase = 3 /\ e < env)

\* What a gateway looks like at a step of the apply call: nothing of the
\* operation outside the batch, a candidate from its stage on, the operation's
\* route from its activation on, and always the way back.
GateFits(at, phase, env, e, route, candidate, previous) ==
  /\ at \in {"before", "run"} =>
       /\ Staged(phase, env, e) => candidate # "none"
       /\ Passed(phase, env, e) => candidate = "active" /\ route \in {"desired", "closed"}
       /\ route = "desired" => Passed(phase, env, e)
  /\ at \in ReadySteps => candidate = "active" /\ route \in {"desired", "closed"}
  /\ at = "rollback" /\ route = "desired" => candidate = "active"
  /\ at \in LiveSteps /\ candidate # "none" => previous # "desired"
  /\ at \notin LiveSteps => candidate = "none"

GatesFit ==
  \A e \in PlannedEnvs : GateFits(apply.at, apply.phase, apply.env, e,
                                  gateway[e].route, gateway[e].candidate, gateway[e].previous)

-----------------------------------------------------------------------------
(* The operators of the ledger.                                             *)

LEMMA TransitionedRecord ==
  ASSUME NEW op, DOMAIN op = LedgerFields, NEW next
  PROVE  LET t == transitioned(op, next) IN
         DOMAIN t = LedgerFields /\ t.phase = next /\ t.effect = op.effect
<1>1. CASE op.phase = next
  BY <1>1 DEF transitioned
<1>2. CASE op.phase # next
  <2>1. PICK r : transitioned(op, next) = [op EXCEPT !.phase = next, !.recovery = r]
    BY <1>2 DEF transitioned
  <2> QED BY SMTT(60), <2>1 DEF LedgerFields
<1> QED BY <1>1, <1>2

LEMMA RecoveryRecord ==
  ASSUME NEW op, DOMAIN op = LedgerFields, NEW code, NEW require
  PROVE  LET t == updateRecovery(op, code, require) IN
         DOMAIN t = LedgerFields /\ t.phase \in {op.phase, "recovery-required"} /\ t.effect = op.effect
<1>1. CASE Terminal(op)
  BY <1>1 DEF updateRecovery
<1>2. CASE ~Terminal(op)
  <2>1. PICK x : x \in {op.phase, "recovery-required"}
               /\ updateRecovery(op, code, require) = [op EXCEPT !.recovery = code, !.phase = x]
    BY <1>2 DEF updateRecovery
  <2> QED BY SMTT(60), <2>1 DEF LedgerFields
<1> QED BY <1>1, <1>2

LEMMA RequiredRecord ==
  ASSUME NEW op, DOMAIN op = LedgerFields
  PROVE  LET t == requireRecovery(op) IN
         DOMAIN t = LedgerFields /\ t.phase \in {op.phase, "recovery-required"} /\ t.effect = op.effect
  BY RecoveryRecord DEF requireRecovery

LEMMA BegunRecord ==
  ASSUME NEW op, DOMAIN op = LedgerFields, NEW f, executes(op, f)
  PROVE  LET t == begun(op, f) IN
         DOMAIN t = LedgerFields /\ t.phase = op.phase /\ t.effect = [op.effect EXCEPT ![f] = "running"]
<1>1. begun(op, f) = [op EXCEPT !.effect[f] = "running"]
  BY DEF begun
<1> QED BY SMTT(60), <1>1 DEF LedgerFields

LEMMA FinishedRecord ==
  ASSUME NEW op, DOMAIN op = LedgerFields, NEW f, NEW status
  PROVE  LET t == finished(op, f, status) IN
         DOMAIN t = LedgerFields /\ t.phase = op.phase /\ t.effect = [op.effect EXCEPT ![f] = status]
  BY SMTT(60) DEF finished, LedgerFields

LEMMA CheckpointRecord ==
  ASSUME NEW op, DOMAIN op = LedgerFields, NEW phase
  PROVE  LET t == checkpointPhase(op, phase) IN
         DOMAIN t = LedgerFields /\ t.phase \in {op.phase, "activating", "proving"}
           /\ t.effect = op.effect
<1>1. checkpointPhase(op, phase) \in {op, transitioned(op, "activating"), transitioned(op, "proving")}
  BY DEF checkpointPhase
<1>2. ASSUME NEW next \in {"activating", "proving"}
      PROVE  DOMAIN transitioned(op, next) = LedgerFields /\ transitioned(op, next).phase = next
             /\ transitioned(op, next).effect = op.effect
  BY TransitionedRecord
<1>3. CASE checkpointPhase(op, phase) = op
  BY <1>3
<1>4. CASE checkpointPhase(op, phase) = transitioned(op, "activating")
  BY <1>2, <1>4
<1>5. CASE checkpointPhase(op, phase) = transitioned(op, "proving")
  BY <1>2, <1>5
<1> QED BY <1>1, <1>3, <1>4, <1>5

LEMMA SyncedRecord ==
  ASSUME DOMAIN ledger = LedgerFields, NEW F
  PROVE  LET t == synced(F) IN
         /\ DOMAIN t = LedgerFields /\ t.phase = ledger.phase
         /\ t.effect = [f \in DOMAIN ledger.effect |->
                          IF f \in F /\ apply.result[f] # "pending" THEN apply.result[f] ELSE ledger.effect[f]]
<1> DEFINE x == [f \in DOMAIN ledger.effect |->
                   IF f \in F /\ apply.result[f] # "pending" THEN apply.result[f] ELSE ledger.effect[f]]
           y == [f \in DOMAIN ledger.evidence |-> ledger.evidence[f]
             \/ (f \in F /\ apply.result[f] # "pending")]
<1>1. synced(F) = [ledger EXCEPT !.effect = x, !.evidence = y]
  BY DEF synced
<1> HIDE DEF x, y
<1>2. LET t == synced(F) IN DOMAIN t = LedgerFields /\ t.phase = ledger.phase /\ t.effect = x
  BY SMTT(60), <1>1 DEF LedgerFields
<1> QED BY <1>2 DEF x

-----------------------------------------------------------------------------
(* The batch.                                                               *)

ApplyAt(to, out) ==
  /\ DOMAIN apply' = ApplyFields /\ apply'.at = to /\ apply'.outcome = out
  /\ apply'.boot = apply.boot /\ apply'.phase = apply.phase /\ apply'.env = apply.env

\* The steps of the apply call that leave the gateways alone.
MayMove(from, to) ==
  \/ from \notin LiveSteps /\ to \notin LiveSteps /\ (to \in FreshSteps => from \in FreshSteps)
  \/ from \in ReadySteps /\ to \in ReadySteps \cup {"rollback"}

LEMMA Steps ==
  /\ RouteEnvs \in Nat /\ 1 \in PlannedEnvs
  /\ \A e \in PlannedEnvs : e \in Nat /\ 1 <= e /\ e <= RouteEnvs
  BY SMTT(60), RoutesAssumption DEF PlannedEnvs

LEMMA Goes ==
  ASSUME BatchShape, NEW to, goApply(to)
  PROVE  ApplyAt(to, apply.outcome) /\ apply'.result = apply.result
<1>1. DOMAIN apply = ApplyFields
  BY DEF BatchShape
<1> QED BY SMTT(60), <1>1 DEF goApply, ApplyAt, ApplyFields

LEMMA Returns ==
  ASSUME BatchShape, applyReturns
  PROVE  ApplyAt("started", apply.outcome) \/ ApplyAt("idle", apply.outcome)
<1>1. goApply("started") \/ goApply("idle")
  BY DEF applyReturns
<1> QED BY <1>1, Goes

LEMMA Ended ==
  ASSUME BatchShape, NEW phase, end(phase)
  PROVE  ApplyAt("terminate", phase)
<1>1. DOMAIN apply = ApplyFields
  BY DEF BatchShape
<1> QED BY SMTT(60), <1>1 DEF end, ApplyAt, ApplyFields

LEMMA GatesMove ==
  ASSUME BatchShape, GatesFit, NEW to, NEW out, ApplyAt(to, out), UNCHANGED gateway, MayMove(apply.at, to)
  PROVE  GatesFit' /\ (DOMAIN ledger' = LedgerFields => BatchShape')
<1>s. DOMAIN ledger' = LedgerFields => BatchShape'
  <2>1. to \in FreshSteps => apply.at \in FreshSteps
    BY DEF MayMove, ReadySteps, FreshSteps
  <2> QED BY <2>1 DEF BatchShape, ApplyAt
<1>g. SUFFICES ASSUME NEW e \in PlannedEnvs
             PROVE  GateFits(apply'.at, apply'.phase, apply'.env, e, gateway'[e].route,
                      gateway'[e].candidate, gateway'[e].previous)
  BY <1>s DEF GatesFit, GateFits
<1>1. GateFits(apply.at, apply.phase, apply.env, e, gateway[e].route, gateway[e].candidate,
        gateway[e].previous)
  BY DEF GatesFit
<1>2. CASE apply.at \notin LiveSteps /\ to \notin LiveSteps
  <2>1. to \notin {"before", "run"} /\ to \notin ReadySteps /\ to # "rollback"
    BY <1>2 DEF LiveSteps
  <2> QED BY <1>1, <1>2, <2>1 DEF GateFits, ApplyAt
<1>3. CASE apply.at \in ReadySteps /\ to \in ReadySteps \cup {"rollback"}
  <2>1. to \notin {"before", "run"} /\ to \in LiveSteps /\ apply.at \in LiveSteps
    BY <1>3 DEF LiveSteps, ReadySteps
  <2> QED BY <1>1, <1>3, <2>1 DEF GateFits, ApplyAt
<1> QED BY <1>2, <1>3 DEF MayMove

LedgerKept ==
  /\ DOMAIN ledger' = LedgerFields /\ DOMAIN ledger'.effect = DOMAIN ledger.effect
  /\ ledger'.effect[OwnerEffect] = ledger.effect[OwnerEffect]
  /\ \A f \in DOMAIN ledger.effect : ledger'.effect[f] = "pending" => ledger.effect[f] = "pending"
  /\ ledger'.phase \in {ledger.phase} \cup OpenPhases

LEMMA EffectsApart ==
  ASSUME BatchShape
  PROVE  currentEffect # OwnerEffect /\ \A f \in networkEffects : f # OwnerEffect
<1>1. currentEffect # OwnerEffect
  <2>1. apply.env # 0
    BY SMTT(60), Steps DEF BatchShape
  <2> QED BY SMTT(60), <2>1 DEF currentEffect, OwnerEffect
<1>2. ASSUME NEW f \in networkEffects PROVE f # OwnerEffect
  <2>1. PICK e \in PlannedEnvs, p \in {EffectPhases[k] : k \in 1..5} : f = <<e, p>>
    BY SMTT(60) DEF networkEffects
  <2>2. e # 0
    BY SMTT(60), Steps
  <2> QED BY SMTT(60), <2>1, <2>2 DEF OwnerEffect
<1> QED BY <1>1, <1>2

LEMMA ObserveFacts ==
  ASSUME BatchShape, GatesFit, ObserveRoutes
  PROVE  /\ apply.at = "observe" /\ UNCHANGED <<ledger, gateway>>
         /\ \/ ApplyAt("before", apply.outcome) /\ \A e \in PlannedEnvs : gateway[e].route = "from"
            \/ ApplyAt("sync", "stale")
<1>1. DOMAIN apply = ApplyFields
  BY DEF BatchShape
<1>2. apply' = [apply EXCEPT !.at = "sync", !.outcome = "stale"] => ApplyAt("sync", "stale")
  BY SMTT(60), <1>1 DEF ApplyAt, ApplyFields
<1> QED BY <1>2, Goes DEF ObserveRoutes

LEMMA ObserveKeeps ==
  ASSUME BatchShape, GatesFit, ObserveRoutes
  PROVE  GatesFit' /\ BatchShape'
<1>1. apply.at = "observe" /\ UNCHANGED <<ledger, gateway>>
  BY ObserveFacts
<1>2. DOMAIN ledger' = LedgerFields
  BY <1>1 DEF BatchShape
<1>3. CASE ApplyAt("sync", "stale")
  <2>1. MayMove(apply.at, "sync")
    BY <1>1 DEF MayMove, LiveSteps, ReadySteps, FreshSteps
  <2> QED BY <1>1, <1>2, <1>3, <2>1, GatesMove
<1>4. CASE ApplyAt("before", apply.outcome) /\ \A e \in PlannedEnvs : gateway[e].route = "from"
  <2>1. apply.phase = 1 /\ apply.env = 1 /\ "before" \notin FreshSteps /\ "before" \notin ReadySteps
          /\ apply.at \notin LiveSteps
    BY <1>1 DEF BatchShape, FreshSteps, ReadySteps, LiveSteps
  <2>2. BatchShape'
    BY <1>1, <1>2, <1>4, <2>1 DEF BatchShape, ApplyAt
  <2>3. ASSUME NEW e \in PlannedEnvs
        PROVE  GateFits(apply'.at, apply'.phase, apply'.env, e, gateway'[e].route, gateway'[e].candidate,
                 gateway'[e].previous)
    <3>1. GateFits(apply.at, apply.phase, apply.env, e, gateway[e].route, gateway[e].candidate,
            gateway[e].previous)
      BY DEF GatesFit
    <3>2. gateway'[e].candidate = "none" /\ gateway'[e].route = "from"
      BY <1>1, <1>4, <2>1, <3>1 DEF GateFits
    <3>3. ~Staged(apply'.phase, apply'.env, e) /\ ~Passed(apply'.phase, apply'.env, e)
      BY SMTT(60), <1>4, <2>1, Steps DEF Staged, Passed, ApplyAt
    <3>4. apply'.at = "before"
      BY <1>4 DEF ApplyAt
    <3> QED BY <2>1, <3>2, <3>3, <3>4 DEF GateFits, LiveSteps
  <2>4. GatesFit'
    BY <2>3 DEF GatesFit, GateFits
  <2> QED BY <2>2, <2>4
<1> QED BY <1>3, <1>4, ObserveFacts

LEMMA BeforeFacts ==
  ASSUME BatchShape, OwnerEffect \in DOMAIN ledger.effect, BeforeNetworkTransitionEffect
  PROVE  /\ apply.at = "before" /\ UNCHANGED gateway /\ LedgerKept
         /\ \/ ApplyAt("run", apply.outcome)
                 /\ ledger'.effect = [ledger.effect EXCEPT ![currentEffect] = "running"]
            \/ ApplyAt("rollback", apply.outcome) /\ ledger'.effect = ledger.effect
<1> DEFINE moved == checkpointPhase(ledger, EffectPhases[apply.phase])
<1>0. DOMAIN ledger = LedgerFields
  BY DEF BatchShape
<1>1. DOMAIN moved = LedgerFields /\ moved.phase \in {ledger.phase, "activating", "proving"}
        /\ moved.effect = ledger.effect
  BY <1>0, CheckpointRecord
<1>2. apply.at = "before" /\ UNCHANGED gateway
  BY DEF BeforeNetworkTransitionEffect
<1>3. \/ executes(moved, currentEffect) /\ ledger' = begun(moved, currentEffect) /\ goApply("run")
      \/ ledger' \in {ledger, moved} /\ goApply("rollback")
  BY DEF BeforeNetworkTransitionEffect
<1> HIDE DEF moved
<1>4. CASE executes(moved, currentEffect) /\ ledger' = begun(moved, currentEffect) /\ goApply("run")
  <2>1. DOMAIN ledger' = LedgerFields /\ ledger'.phase = moved.phase
          /\ ledger'.effect = [moved.effect EXCEPT ![currentEffect] = "running"]
    BY <1>1, <1>4, BegunRecord
  <2>2. /\ ledger'.effect[OwnerEffect] = ledger.effect[OwnerEffect]
             /\ DOMAIN ledger'.effect = DOMAIN ledger.effect
        /\ \A f \in DOMAIN ledger.effect : ledger'.effect[f] = "pending" => ledger.effect[f] = "pending"
    BY <1>1, <2>1, EffectsApart
  <2>3. LedgerKept
    BY <1>1, <2>1, <2>2 DEF LedgerKept, OpenPhases
  <2> QED BY <1>1, <1>2, <1>4, <2>1, <2>3, Goes
<1>5. CASE ledger' \in {ledger, moved} /\ goApply("rollback")
  <2>1. DOMAIN ledger' = LedgerFields /\ ledger'.phase \in {ledger.phase, "activating", "proving"}
          /\ ledger'.effect = ledger.effect
    BY <1>0, <1>1, <1>5
  <2>2. LedgerKept
    BY <2>1 DEF LedgerKept, OpenPhases
  <2> QED BY <1>2, <1>5, <2>1, <2>2, Goes
<1> QED BY <1>3, <1>4, <1>5

LEMMA BeforeKeeps ==
  ASSUME BatchShape, GatesFit, OwnerEffect \in DOMAIN ledger.effect, BeforeNetworkTransitionEffect
  PROVE  GatesFit' /\ BatchShape'
<1>1. /\ apply.at = "before" /\ UNCHANGED gateway /\ DOMAIN ledger' = LedgerFields
      /\ ApplyAt("run", apply.outcome) \/ ApplyAt("rollback", apply.outcome)
  BY BeforeFacts DEF LedgerKept
<1>2. apply'.at \in {"run", "rollback"} /\ apply'.phase = apply.phase /\ apply'.env = apply.env
        /\ DOMAIN apply' = ApplyFields
  BY <1>1 DEF ApplyAt
<1>3. apply'.at \notin FreshSteps /\ apply'.at \in LiveSteps /\ apply.at \in LiveSteps
        /\ apply'.at \notin ReadySteps
  BY <1>1, <1>2 DEF FreshSteps, LiveSteps, ReadySteps
<1>4. BatchShape'
  BY <1>1, <1>2, <1>3 DEF BatchShape
<1>5. ASSUME NEW e \in PlannedEnvs
      PROVE  GateFits(apply'.at, apply'.phase, apply'.env, e, gateway'[e].route, gateway'[e].candidate,
               gateway'[e].previous)
  <2>1. GateFits(apply.at, apply.phase, apply.env, e, gateway[e].route, gateway[e].candidate,
          gateway[e].previous)
    BY DEF GatesFit
  <2> QED BY <1>1, <1>2, <1>3, <2>1 DEF GateFits
<1>6. GatesFit'
  BY <1>5 DEF GatesFit, GateFits
<1> QED BY <1>4, <1>6

\* One effect done: the same phase of the next environment, or the next phase.
NextEnv(env) == IF env < RouteEnvs THEN env + 1 ELSE 1
NextPhase(phase, env) == IF env = RouteEnvs /\ phase < 5 THEN phase + 1 ELSE phase

LEMMA NextEffect ==
  ASSUME NEW phase \in 1..5, NEW env \in PlannedEnvs, NEW e \in PlannedEnvs
  PROVE  LET env2 == NextEnv(env)
             phase2 == NextPhase(phase, env)
         IN
         /\ phase2 \in 1..5 /\ env2 \in PlannedEnvs
         /\ ~(env = RouteEnvs /\ phase = 5) =>
              /\ Staged(phase2, env2, e) => Staged(phase, env, e) \/ (phase = 1 /\ e = env)
              /\ Passed(phase2, env2, e) => Passed(phase, env, e) \/ (phase = 3 /\ e = env)
              /\ Passed(phase, env, e) \/ (phase = 3 /\ e = env) => Passed(phase2, env2, e)
         /\ env = RouteEnvs /\ phase = 5 => Passed(phase, env, e)
         /\ Passed(phase, env, e) => Staged(phase, env, e)
         /\ phase = 1 => ~Passed(phase, env, e)
         /\ phase = 3 => Staged(phase, env, e)
<1>1. RouteEnvs \in Nat /\ e \in Nat /\ env \in Nat /\ 1 <= e /\ e <= RouteEnvs /\ 1 <= env
        /\ env <= RouteEnvs
  BY Steps
<1>2. NextEnv(env) \in PlannedEnvs /\ NextPhase(phase, env) \in 1..5
  BY SMTT(60), <1>1 DEF PlannedEnvs, NextEnv, NextPhase
<1> QED BY SMTT(60), <1>1, <1>2 DEF Staged, Passed, NextEnv, NextPhase

LEMMA AdvanceFacts ==
  ASSUME BatchShape, NEW result, advance(result)
  PROVE  /\ DOMAIN apply' = ApplyFields /\ apply'.boot = apply.boot /\ apply'.outcome = apply.outcome
         /\ apply'.at = IF apply.env = RouteEnvs /\ apply.phase = 5 THEN "hook" ELSE "before"
         /\ apply'.env = NextEnv(apply.env) /\ apply'.phase = NextPhase(apply.phase, apply.env)
<1>1. DOMAIN apply = ApplyFields
  BY DEF BatchShape
<1>2. PICK at2, env2, phase2 :
        /\ at2 = IF apply.env = RouteEnvs /\ apply.phase = 5 THEN "hook" ELSE "before"
        /\ env2 = NextEnv(apply.env) /\ phase2 = NextPhase(apply.phase, apply.env)
        /\ apply' = [apply EXCEPT !.result = result, !.at = at2, !.env = env2, !.phase = phase2]
  BY DEF advance, NextEnv, NextPhase
<1>3. /\ DOMAIN apply' = ApplyFields /\ apply'.boot = apply.boot /\ apply'.outcome = apply.outcome
      /\ apply'.at = at2 /\ apply'.env = env2 /\ apply'.phase = phase2
  BY SMTT(60), <1>1, <1>2 DEF ApplyFields
<1> QED BY <1>2, <1>3

LEMMA PhaseNames ==
  ASSUME NEW k \in 1..5
  PROVE  /\ EffectPhases[k] = "stage" <=> k = 1
         /\ EffectPhases[k] = "activate" <=> k = 3
  BY SMTT(60) DEF EffectPhases

\* What one effect does to the gateways.
GateStep(after, e, phase) ==
  /\ DOMAIN after = PlannedEnvs /\ \A x \in PlannedEnvs : DOMAIN after[x] = GateFields
  /\ \A x \in PlannedEnvs \ {e} : after[x] = gateway[x]
  /\ phase = 1 => /\ after[e].candidate = "staged" /\ after[e].previous = after[e].route
                  /\ after[e].route \in {"none", gateway[e].route}
  /\ phase = 3 => /\ after[e].candidate = "active" /\ after[e].previous = gateway[e].previous
                  /\ after[e].route \in {"desired", "closed"}
  /\ phase \notin {1, 3} => after = gateway

LEMMA AfterGate ==
  ASSUME BatchShape
  PROVE  GateStep(gatewayAfter(apply.env, EffectPhases[apply.phase]), apply.env, apply.phase)
<1> DEFINE e == apply.env
           after == gatewayAfter(apply.env, EffectPhases[apply.phase])
<1> SUFFICES GateStep(after, e, apply.phase)
  OBVIOUS
<1>d. after = gatewayAfter(e, EffectPhases[apply.phase])
  OBVIOUS
<1> HIDE DEF after
<1>1. /\ DOMAIN gateway = PlannedEnvs /\ (\A x \in PlannedEnvs : DOMAIN gateway[x] = GateFields)
      /\ e \in PlannedEnvs /\ apply.phase \in 1..5
  BY DEF BatchShape
<1>2. CASE apply.phase = 1
  <2>1. EffectPhases[apply.phase] = "stage"
    BY <1>1, <1>2, PhaseNames
  <2>2. PICK r : r \in {"none", gateway[e].route}
               /\ after = [gateway EXCEPT ![e] = [route |-> r, candidate |-> "staged", previous |-> r]]
    BY <1>d, <2>1 DEF gatewayAfter
  <2>3. /\ DOMAIN after = PlannedEnvs /\ after[e] = [route |-> r, candidate |-> "staged", previous |-> r]
        /\ \A x \in PlannedEnvs \ {e} : after[x] = gateway[x]
    BY <1>1, <2>2
  <2>4. DOMAIN after[e] = GateFields /\ after[e].route = r /\ after[e].candidate = "staged"
          /\ after[e].previous = r
    BY SMTT(60), <2>3 DEF GateFields
  <2>5. apply.phase # 3
    BY SMTT(60), <1>2
  <2> QED BY <1>1, <1>2, <2>2, <2>3, <2>4, <2>5 DEF GateStep
<1>3. CASE apply.phase = 3
  <2>1. EffectPhases[apply.phase] = "activate" /\ EffectPhases[apply.phase] # "stage"
    BY SMTT(60), <1>3 DEF EffectPhases
  <2> DEFINE Active == /\ DOMAIN after = PlannedEnvs /\ DOMAIN after[e] = GateFields
                            /\ after[e].route \in {"desired", "closed"}
                       /\ after[e].candidate = "active" /\ after[e].previous = gateway[e].previous
                       /\ \A x \in PlannedEnvs \ {e} : after[x] = gateway[x]
  <2>2. ASSUME gateway[e].route # "closed" PROVE Active
    <3>1. after = [gateway EXCEPT ![e].route = "desired", ![e].candidate = "active"]
      BY <1>d, <2>1, <2>2 DEF gatewayAfter
    <3>2. DOMAIN after = PlannedEnvs /\ \A x \in PlannedEnvs \ {e} : after[x] = gateway[x]
      BY SMTT(60), <1>1, <3>1
    <3>3. DOMAIN after[e] = DOMAIN gateway[e] /\ after[e].route = "desired"
            /\ after[e].candidate = "active" /\ after[e].previous = gateway[e].previous
      BY SMTT(60), <1>1, <3>1 DEF GateFields
    <3> QED BY <1>1, <3>2, <3>3
  <2>3. ASSUME gateway[e].route = "closed" PROVE Active
    <3>1. after = [gateway EXCEPT ![e].candidate = "active"]
      BY <1>d, <2>1, <2>3 DEF gatewayAfter
    <3>2. DOMAIN after = PlannedEnvs /\ \A x \in PlannedEnvs \ {e} : after[x] = gateway[x]
      BY SMTT(60), <1>1, <3>1
    <3>3. DOMAIN after[e] = DOMAIN gateway[e] /\ after[e].route = gateway[e].route
            /\ after[e].candidate = "active" /\ after[e].previous = gateway[e].previous
      BY SMTT(60), <1>1, <3>1 DEF GateFields
    <3> QED BY <1>1, <2>3, <3>2, <3>3
  <2>4. Active
    BY <2>2, <2>3
  <2>5. apply.phase # 1
    BY SMTT(60), <1>3
  <2> QED BY <1>1, <1>3, <2>4, <2>5 DEF GateStep
<1>4. CASE apply.phase \notin {1, 3}
  <2>1. EffectPhases[apply.phase] \notin {"stage", "activate"}
    BY <1>1, <1>4, PhaseNames
  <2>2. after = gateway
    BY <1>d, <2>1 DEF gatewayAfter
  <2> QED BY <1>1, <1>4, <2>2 DEF GateStep
<1> QED BY <1>2, <1>3, <1>4

LEMMA RunFacts ==
  ASSUME BatchShape, OwnerEffect \in DOMAIN ledger.effect, RunNetworkEffect
  PROVE  /\ apply.at = "run" /\ LedgerKept /\ ledger'.phase = ledger.phase
         /\ \/ ledger'.effect = ledger.effect
            \/ \E status \in {"succeeded",
                 "failed"} : ledger'.effect = [ledger.effect EXCEPT ![currentEffect] = status]
         /\ \/ /\ gateway' = gatewayAfter(apply.env, EffectPhases[apply.phase])
               /\ \E result : advance(result)
            \/ /\ gateway' \in {gateway, gatewayAfter(apply.env, EffectPhases[apply.phase])}
               /\ ApplyAt("rollback", apply.outcome)
<1>0. DOMAIN ledger = LedgerFields /\ DOMAIN apply = ApplyFields
  BY DEF BatchShape
<1>1. apply.at = "run"
  BY DEF RunNetworkEffect
<1>2. PICK f : f = currentEffect
  OBVIOUS
<1>3. ledger' \in {ledger, finished(ledger, f, "succeeded"), finished(ledger, f, "failed")}
  BY <1>2 DEF RunNetworkEffect
<1>4. /\ DOMAIN ledger' = LedgerFields /\ ledger'.phase = ledger.phase
      /\ \/ ledger'.effect = ledger.effect
         \/ \E status \in {"succeeded", "failed"} : ledger'.effect = [ledger.effect EXCEPT ![f] = status]
  <2>1. ASSUME NEW status \in {"succeeded", "failed"}, ledger' = finished(ledger, f, status)
        PROVE  DOMAIN ledger' = LedgerFields /\ ledger'.phase = ledger.phase
                 /\ ledger'.effect = [ledger.effect EXCEPT ![f] = status]
    <3>1. /\ DOMAIN finished(ledger, f, status) = LedgerFields
               /\ finished(ledger, f, status).phase = ledger.phase
          /\ finished(ledger, f, status).effect = [ledger.effect EXCEPT ![f] = status]
      BY SMTT(60), <1>0 DEF finished, LedgerFields
    <3> QED BY <2>1, <3>1
  <2> QED BY <1>0, <1>3, <2>1
<1>5. f # OwnerEffect
  BY <1>2, EffectsApart
<1>6. /\ DOMAIN ledger'.effect = DOMAIN ledger.effect
           /\ ledger'.effect[OwnerEffect] = ledger.effect[OwnerEffect]
      /\ \A x \in DOMAIN ledger.effect : ledger'.effect[x] = "pending" => ledger.effect[x] = "pending"
  <2>1. CASE ledger'.effect = ledger.effect
    BY <2>1
  <2>2. ASSUME NEW status \in {"succeeded", "failed"},
               ledger'.effect = [ledger.effect EXCEPT ![f] = status]
        PROVE  /\ DOMAIN ledger'.effect = DOMAIN ledger.effect
                    /\ ledger'.effect[OwnerEffect] = ledger.effect[OwnerEffect]
               /\ \A x \in DOMAIN ledger.effect : ledger'.effect[x] = "pending" => ledger.effect[x] = "pending"
    BY <1>5, <2>2
  <2> QED BY <1>4, <2>1, <2>2
<1>7. LedgerKept
  BY <1>4, <1>6 DEF LedgerKept
<1>8. ASSUME NEW result PROVE apply' = [apply EXCEPT !.at = "rollback", !.result = result] => ApplyAt("rollback", apply.outcome)
  BY SMTT(60), <1>0 DEF ApplyAt, ApplyFields
<1>9. apply' = [apply EXCEPT !.at = "rollback", !.result[f] = "failed"] => ApplyAt("rollback",
        apply.outcome)
  BY SMTT(60), <1>0 DEF ApplyAt, ApplyFields
<1>10. \/ /\ gateway' = gatewayAfter(apply.env, EffectPhases[apply.phase])
          /\ \E result : advance(result)
       \/ /\ gateway' \in {gateway, gatewayAfter(apply.env, EffectPhases[apply.phase])}
          /\ \/ \E result : apply' = [apply EXCEPT !.at = "rollback", !.result = result]
             \/ apply' = [apply EXCEPT !.at = "rollback", !.result[f] = "failed"]
  BY <1>2 DEF RunNetworkEffect
<1> QED BY <1>1, <1>2, <1>4, <1>7, <1>8, <1>9, <1>10

LEMMA EffectKeeps ==
  ASSUME BatchShape, GatesFit, OwnerEffect \in DOMAIN ledger.effect, RunNetworkEffect
  PROVE  GatesFit' /\ BatchShape'
<1>a. PICK after : after = gatewayAfter(apply.env, EffectPhases[apply.phase])
  OBVIOUS
<1>e. PICK env : env = apply.env
  OBVIOUS
<1>p. PICK phase : phase = apply.phase
  OBVIOUS
<1>1. DOMAIN ledger' = LedgerFields /\ env \in PlannedEnvs /\ phase \in 1..5 /\ apply.at = "run"
  BY <1>e, <1>p, RunFacts DEF LedgerKept, BatchShape
<1>2. /\ DOMAIN after = PlannedEnvs /\ \A x \in PlannedEnvs : DOMAIN after[x] = GateFields
      /\ \A x \in PlannedEnvs \ {env} : after[x] = gateway[x]
      /\ phase = 1 => /\ after[env].candidate = "staged" /\ after[env].previous = after[env].route
                      /\ after[env].route \in {"none", gateway[env].route}
      /\ phase = 3 => /\ after[env].candidate = "active" /\ after[env].previous = gateway[env].previous
                      /\ after[env].route \in {"desired", "closed"}
      /\ phase \notin {1, 3} => after = gateway
  <2>1. GateStep(after, env, phase)
    BY <1>a, <1>e, <1>p, AfterGate
  <2> QED BY <2>1 DEF GateStep
<1>3. ASSUME NEW e \in PlannedEnvs
      PROVE  /\ Staged(phase, env, e) => gateway[e].candidate # "none"
             /\ Passed(phase, env, e) => gateway[e].candidate = "active"
                  /\ gateway[e].route \in {"desired", "closed"}
             /\ gateway[e].route = "desired" => Passed(phase, env, e)
             /\ gateway[e].candidate # "none" => gateway[e].previous # "desired"
  <2>1. GateFits("run", phase, env, e, gateway[e].route, gateway[e].candidate, gateway[e].previous)
    BY <1>1, <1>e, <1>p DEF GatesFit
  <2>2. "run" \in LiveSteps
    BY DEF LiveSteps
  <2> QED BY <2>1, <2>2 DEF GateFits
<1>4. ASSUME NEW e \in PlannedEnvs
      PROVE  /\ Staged(phase, env, e) \/ (phase = 1 /\ e = env) => after[e].candidate # "none"
             /\ Passed(phase, env, e) \/ (phase = 3 /\ e = env) =>
                  after[e].candidate = "active" /\ after[e].route \in {"desired", "closed"}
             /\ after[e].route = "desired" => Passed(phase, env, e) \/ (phase = 3 /\ e = env)
             /\ after[e].candidate # "none" => after[e].previous # "desired"
  <2>1. /\ phase = 1 => ~Passed(phase, env, e)
        /\ phase = 3 => Staged(phase, env, e)
    BY <1>1, NextEffect
  <2>2. CASE e # env
    BY <1>2, <1>3, <2>2
  <2>3. CASE e = env /\ phase = 1
    <3>1. phase # 3
      BY SMTT(60), <2>3
    <3> QED BY <1>2, <1>3, <2>1, <2>3, <3>1
  <2>4. CASE e = env /\ phase = 3
    <3>1. phase # 1
      BY SMTT(60), <2>4
    <3> QED BY <1>2, <1>3, <2>1, <2>4, <3>1
  <2>5. CASE e = env /\ phase \notin {1, 3}
    BY <1>2, <1>3, <2>5
  <2> QED BY <2>2, <2>3, <2>4, <2>5
<1>5. CASE gateway' \in {gateway, after} /\ ApplyAt("rollback", apply.outcome)
  <2>1. "rollback" \in LiveSteps /\ "rollback" \notin ReadySteps /\ "rollback" \notin FreshSteps
    BY DEF LiveSteps, ReadySteps, FreshSteps
  <2>2. BatchShape'
    <3>1. DOMAIN gateway' = PlannedEnvs /\ \A x \in PlannedEnvs : DOMAIN gateway'[x] = GateFields
      BY <1>2, <1>5 DEF BatchShape
    <3> QED BY <1>1, <1>5, <2>1, <3>1 DEF BatchShape, ApplyAt
  <2>3. ASSUME NEW e \in PlannedEnvs
        PROVE  /\ gateway'[e].route = "desired" => gateway'[e].candidate = "active"
               /\ gateway'[e].candidate # "none" => gateway'[e].previous # "desired"
    BY <1>3, <1>4, <1>5
  <2>4. ASSUME NEW e \in PlannedEnvs
        PROVE  GateFits(apply'.at, apply'.phase, apply'.env, e, gateway'[e].route, gateway'[e].candidate,
                 gateway'[e].previous)
    BY <1>5, <2>1, <2>3 DEF GateFits, ApplyAt
  <2>5. GatesFit'
    BY <2>4 DEF GatesFit, GateFits
  <2> QED BY <2>2, <2>5
<1>6. CASE gateway' = after /\ \E result : advance(result)
  <2> DEFINE env2 == NextEnv(env)
             phase2 == NextPhase(phase, env)
  <2>1. /\ DOMAIN apply' = ApplyFields /\ apply'.env = env2 /\ apply'.phase = phase2
        /\ apply'.at = IF env = RouteEnvs /\ phase = 5 THEN "hook" ELSE "before"
    BY <1>6, <1>e, <1>p, AdvanceFacts
  <2>2. phase2 \in 1..5 /\ env2 \in PlannedEnvs
    BY <1>1, NextEffect
  <2>3. /\ "hook" \in ReadySteps /\ "before" \notin ReadySteps /\ {"hook", "before"} \subseteq LiveSteps
        /\ "hook" \notin FreshSteps /\ "before" \notin FreshSteps
    BY DEF LiveSteps, ReadySteps, FreshSteps
  <2>4. BatchShape'
    BY <1>1, <1>2, <1>6, <2>1, <2>2, <2>3 DEF BatchShape
  <2>5. ASSUME NEW e \in PlannedEnvs
        PROVE  GateFits(apply'.at, apply'.phase, apply'.env, e, gateway'[e].route, gateway'[e].candidate,
                 gateway'[e].previous)
    <3>1. CASE env = RouteEnvs /\ phase = 5
      <4>1. Passed(phase, env, e)
        BY <1>1, <3>1, NextEffect
      <4> QED BY <1>4, <1>6, <2>1, <2>3, <3>1, <4>1 DEF GateFits
    <3>2. CASE ~(env = RouteEnvs /\ phase = 5)
      <4>1. /\ Staged(phase2, env2, e) => Staged(phase, env, e) \/ (phase = 1 /\ e = env)
            /\ Passed(phase2, env2, e) => Passed(phase, env, e) \/ (phase = 3 /\ e = env)
            /\ Passed(phase, env, e) \/ (phase = 3 /\ e = env) => Passed(phase2, env2, e)
        BY <1>1, <3>2, NextEffect
      <4>2. apply'.at = "before"
        BY <2>1, <3>2
      <4> QED BY <1>4, <1>6, <2>1, <2>3, <4>1, <4>2 DEF GateFits
    <3> QED BY <3>1, <3>2
  <2>6. GatesFit'
    BY <2>5 DEF GatesFit, GateFits
  <2> QED BY <2>4, <2>6
<1> QED BY <1>5, <1>6, <1>a, RunFacts

LEMMA CommitFacts ==
  ASSUME BatchShape, GatesFit, CommitNetworkCandidates
  PROVE  /\ apply.at = "commit" /\ UNCHANGED ledger /\ ApplyAt("sync", "succeeded")
         /\ GatesFit' /\ BatchShape' /\ routesOfOperation'
<1>1. /\ DOMAIN apply = ApplyFields /\ DOMAIN ledger = LedgerFields
      /\ \A e \in PlannedEnvs : DOMAIN gateway[e] = GateFields
  BY DEF BatchShape
<1>2. apply.at = "commit" /\ UNCHANGED ledger
        /\ apply' = [apply EXCEPT !.at = "sync", !.outcome = "succeeded"]
  BY DEF CommitNetworkCandidates
<1>3. ApplyAt("sync", "succeeded")
  BY SMTT(60), <1>1, <1>2 DEF ApplyAt, ApplyFields
<1>4. gateway' = [e \in PlannedEnvs |-> [gateway[e] EXCEPT !.candidate = "none"]]
  BY DEF CommitNetworkCandidates
<1>5. /\ DOMAIN gateway' = PlannedEnvs
      /\ \A e \in PlannedEnvs : /\ DOMAIN gateway'[e] = GateFields /\ gateway'[e].candidate = "none"
                                /\ gateway'[e].route = gateway[e].route
  BY SMTT(60), <1>1, <1>4 DEF GateFields
<1>6. /\ "commit" \in ReadySteps /\ "sync" \notin LiveSteps /\ "sync" \notin FreshSteps
      /\ "sync" \notin ReadySteps /\ "sync" \notin {"before", "run", "rollback"}
  BY DEF ReadySteps, LiveSteps, FreshSteps
<1>7. BatchShape'
  BY <1>1, <1>2, <1>3, <1>5, <1>6 DEF BatchShape, ApplyAt
<1>8. apply'.at = "sync"
  BY <1>3 DEF ApplyAt
<1>9. GatesFit'
  BY <1>5, <1>6, <1>8 DEF GatesFit, GateFits
<1>10. ASSUME NEW e \in PlannedEnvs PROVE gateway'[e].route \in {"desired", "run", "closed"}
  <2>1. GateFits(apply.at, apply.phase, apply.env, e, gateway[e].route, gateway[e].candidate,
          gateway[e].previous)
    BY DEF GatesFit
  <2> QED BY <1>2, <1>5, <1>6, <2>1 DEF GateFits
<1> QED BY <1>2, <1>3, <1>7, <1>9, <1>10 DEF routesOfOperation

LEMMA RollbackFacts ==
  ASSUME BatchShape, GatesFit, RollbackNetworkCandidates
  PROVE  /\ apply.at = "rollback" /\ UNCHANGED ledger
         /\ ApplyAt("sync", "rolled-back") \/ ApplyAt("sync", "rollback-unproved")
         /\ GatesFit' /\ BatchShape' /\ noRouteOfOperation'
<1>1. /\ DOMAIN apply = ApplyFields /\ DOMAIN ledger = LedgerFields
      /\ \A e \in PlannedEnvs : DOMAIN gateway[e] = GateFields
  BY DEF BatchShape
<1>2. /\ apply.at = "rollback" /\ UNCHANGED ledger
      /\ \E o \in {"rolled-back", "rollback-unproved"} : \E result :
            apply' = [apply EXCEPT !.at = "sync", !.outcome = o, !.result = result]
  BY DEF RollbackNetworkCandidates
<1>3. PICK o \in {"rolled-back", "rollback-unproved"} : ApplyAt("sync", o)
  <2>1. PICK o \in {"rolled-back", "rollback-unproved"} : \E result :
            apply' = [apply EXCEPT !.at = "sync", !.outcome = o, !.result = result]
    BY <1>2
  <2>2. ApplyAt("sync", o)
    BY SMTT(60), <1>1, <2>1 DEF ApplyAt, ApplyFields
  <2> QED BY <2>2
<1>4. gateway' = [e \in PlannedEnvs |-> restored(gateway[e])]
  BY DEF RollbackNetworkCandidates
<1>5. ASSUME NEW e \in PlannedEnvs
      PROVE  /\ DOMAIN gateway'[e] = GateFields /\ gateway'[e].candidate = "none"
             /\ gateway'[e].route = IF gateway[e].candidate = "active" /\ gateway[e].route # "closed"
                                    THEN gateway[e].previous ELSE gateway[e].route
  <2> PICK r : r = IF gateway[e].candidate = "active" /\ gateway[e].route # "closed"
                   THEN gateway[e].previous ELSE gateway[e].route
    OBVIOUS
  <2>1. gateway'[e] = [gateway[e] EXCEPT !.route = r, !.candidate = "none"]
    BY <1>4 DEF restored
  <2>2. DOMAIN gateway'[e] = GateFields /\ gateway'[e].candidate = "none" /\ gateway'[e].route = r
    BY SMTT(60), <1>1, <2>1 DEF GateFields
  <2> QED BY <2>2
<1>6. /\ "rollback" \in LiveSteps /\ "sync" \notin LiveSteps /\ "sync" \notin FreshSteps
      /\ "sync" \notin ReadySteps /\ "sync" \notin {"before", "run", "rollback"}
  BY DEF ReadySteps, LiveSteps, FreshSteps
<1>7. DOMAIN gateway' = PlannedEnvs
  BY <1>4
<1>8. BatchShape'
  BY <1>1, <1>2, <1>3, <1>5, <1>6, <1>7 DEF BatchShape, ApplyAt
<1>9. apply'.at = "sync"
  BY <1>3 DEF ApplyAt
<1>10. GatesFit'
  BY <1>5, <1>6, <1>9 DEF GatesFit, GateFits
<1>11. ASSUME NEW e \in PlannedEnvs PROVE gateway'[e].route # "desired"
  <2>1. GateFits(apply.at, apply.phase, apply.env, e, gateway[e].route, gateway[e].candidate,
          gateway[e].previous)
    BY DEF GatesFit
  <2>2. /\ gateway[e].route = "desired" => gateway[e].candidate = "active"
        /\ gateway[e].candidate # "none" => gateway[e].previous # "desired"
    BY <1>2, <1>6, <2>1 DEF GateFits
  <2> QED BY <1>5, <2>2
<1> QED BY <1>2, <1>3, <1>8, <1>10, <1>11 DEF noRouteOfOperation

LEMMA SyncFacts ==
  ASSUME BatchShape, OwnerEffect \in DOMAIN ledger.effect, NEW at, NEW failedAt, SyncResults(at, failedAt)
  PROVE  /\ apply.at = "sync" /\ UNCHANGED gateway /\ LedgerKept /\ ledger'.phase = ledger.phase
         /\ ApplyAt(at, apply.outcome) \/ ApplyAt(failedAt, apply.outcome)
<1>1. DOMAIN ledger = LedgerFields
  BY DEF BatchShape
<1>2. apply.at = "sync" /\ UNCHANGED gateway
  BY DEF SyncResults
<1>3. PICK F : F \subseteq networkEffects /\ ledger' = synced(F)
  <2>1. ledger' = synced(networkEffects)
          \/ \E n \in 0..(RouteEnvs - 1) : ledger' = synced({f \in networkEffects : f[1] <= n})
    BY DEF SyncResults
  <2>2. \A n \in 0..(RouteEnvs - 1) : {f \in networkEffects : f[1] <= n} \subseteq networkEffects
    OBVIOUS
  <2> QED BY <2>1, <2>2
<1>4. /\ DOMAIN ledger' = LedgerFields /\ ledger'.phase = ledger.phase
      /\ ledger'.effect = [f \in DOMAIN ledger.effect |->
                             IF f \in F /\ apply.result[f] # "pending" THEN apply.result[f] ELSE ledger.effect[f]]
  BY <1>1, <1>3, SyncedRecord
<1>5. OwnerEffect \notin F
  BY <1>3, EffectsApart
<1>6. LedgerKept
  BY <1>4, <1>5 DEF LedgerKept
<1>7. goApply(at) \/ goApply(failedAt)
  BY DEF SyncResults
<1> QED BY <1>2, <1>4, <1>6, <1>7, Goes

\* A run that switches its route finds no candidate, an environment that stops
\* has no route: neither brings a route of the operation or takes one back.
LEMMA RouteFacts ==
  ASSUME BatchShape, GatesFit, RouteChanges
  PROVE  /\ UNCHANGED <<ledger, apply>> /\ GatesFit' /\ BatchShape'
         /\ noRouteOfOperation => noRouteOfOperation'
         /\ routesOfOperation => routesOfOperation'
<1>1. PICK e \in PlannedEnvs : RunSwitchesRoute(e) \/ CloseEnvironment(e)
  BY DEF RouteChanges
<1>2. UNCHANGED <<ledger, apply>>
  BY <1>1 DEF RunSwitchesRoute, CloseEnvironment
<1>3. PICK r : /\ r = "closed" \/ (r = "run" /\ gateway[e].candidate = "none")
               /\ gateway' = [gateway EXCEPT ![e].route = r]
  BY <1>1 DEF RunSwitchesRoute, CloseEnvironment
<1>4. DOMAIN gateway = PlannedEnvs /\ \A x \in PlannedEnvs : DOMAIN gateway[x] = GateFields
  BY DEF BatchShape
<1>5. /\ DOMAIN gateway' = PlannedEnvs /\ gateway'[e].route = r
      /\ \A x \in PlannedEnvs : /\ DOMAIN gateway'[x] = GateFields /\ gateway'[x].candidate = gateway[x].candidate
                                /\ gateway'[x].previous = gateway[x].previous
                                /\ x # e => gateway'[x].route = gateway[x].route
  BY SMTT(60), <1>3, <1>4 DEF GateFields
<1>6. BatchShape'
  BY <1>2, <1>5 DEF BatchShape
<1>7. ASSUME NEW x \in PlannedEnvs
      PROVE  GateFits(apply'.at, apply'.phase, apply'.env, x, gateway'[x].route, gateway'[x].candidate,
               gateway'[x].previous)
  <2>1. GateFits(apply.at, apply.phase, apply.env, x, gateway[x].route, gateway[x].candidate,
          gateway[x].previous)
    BY DEF GatesFit
  <2>2. Passed(apply.phase, apply.env, x) => Staged(apply.phase, apply.env, x)
    BY NextEffect DEF BatchShape
  <2>3. CASE x # e
    BY <1>2, <1>5, <2>1, <2>3
  <2>4. CASE x = e /\ r = "closed"
    BY <1>2, <1>5, <2>1, <2>4 DEF GateFits
  <2>5. CASE x = e /\ r = "run" /\ gateway[e].candidate = "none"
    BY <1>2, <1>5, <2>1, <2>2, <2>5 DEF GateFits
  <2> QED BY <1>3, <2>3, <2>4, <2>5
<1>8. GatesFit'
  BY <1>7 DEF GatesFit, GateFits
<1>9. \A x \in PlannedEnvs : gateway'[x].route \in {gateway[x].route, "run", "closed"}
  BY <1>3, <1>5
<1> QED BY <1>2, <1>6, <1>8, <1>9 DEF noRouteOfOperation, routesOfOperation

LEMMA RestartFacts ==
  ASSUME BatchShape, NEW at, at \notin LiveSteps, DaemonRestarts(at)
  PROVE  /\ UNCHANGED ledger /\ apply'.at = at /\ apply'.boot = TRUE /\ apply'.outcome = "none"
         /\ GatesFit' /\ BatchShape' /\ noRouteOfOperation' /\ routesOfOperation'
<1>1. UNCHANGED ledger /\ apply' = [idleApply EXCEPT !.at = at, !.boot = TRUE]
  BY DEF DaemonRestarts
<1>2. /\ DOMAIN apply' = ApplyFields /\ apply'.at = at /\ apply'.boot = TRUE /\ apply'.outcome = "none"
      /\ apply'.phase = 1 /\ apply'.env = 1
  BY SMTT(60), <1>1 DEF idleApply, ApplyFields
<1>3. gateway' = [e \in PlannedEnvs |-> closedGateway]
  BY DEF DaemonRestarts
<1>4. DOMAIN closedGateway = GateFields /\ closedGateway.route = "closed"
        /\ closedGateway.candidate = "none"
  BY SMTT(60) DEF closedGateway, GateFields
<1>5. DOMAIN gateway' = PlannedEnvs /\ \A e \in PlannedEnvs : gateway'[e] = closedGateway
  BY <1>3
<1>6. 1 \in 1..5
  BY SMTT(60)
<1>7. BatchShape'
  BY <1>1, <1>2, <1>4, <1>5, <1>6, Steps DEF BatchShape
<1>8. at \notin ReadySteps /\ at \notin {"before", "run", "rollback"}
  BY DEF LiveSteps
<1>9. GatesFit'
  BY <1>2, <1>4, <1>5, <1>8 DEF GatesFit, GateFits
<1> QED BY <1>1, <1>2, <1>4, <1>5, <1>7, <1>9 DEF noRouteOfOperation, routesOfOperation

LEMMA StartupFacts ==
  ASSUME BatchShape, GatesFit, RecordStartupRecovery
  PROVE  /\ apply.at = "started" /\ apply' = idleApply /\ UNCHANGED gateway
         /\ DOMAIN ledger' = LedgerFields /\ ledger'.effect = ledger.effect
         /\ ledger'.phase \in {ledger.phase, "recovery-required"}
         /\ ledger.phase \in {"none", "planned"} \/ Terminal(ledger) => UNCHANGED ledger
         /\ GatesFit' /\ BatchShape'
<1>1. apply.at = "started" /\ apply' = idleApply /\ UNCHANGED gateway
  BY DEF RecordStartupRecovery
<1>2. DOMAIN ledger = LedgerFields
  BY DEF BatchShape
<1>3. ledger' = ledger \/ \E require \in BOOLEAN : ledger' = updateRecovery(ledger, "startup", require)
  BY DEF RecordStartupRecovery
<1>4. ASSUME NEW require \in BOOLEAN, ledger' = updateRecovery(ledger, "startup", require)
      PROVE  /\ DOMAIN ledger' = LedgerFields /\ ledger'.effect = ledger.effect
             /\ ledger'.phase \in {ledger.phase, "recovery-required"}
  <2>1. LET t == updateRecovery(ledger, "startup", require) IN
        DOMAIN t = LedgerFields /\ t.phase \in {ledger.phase, "recovery-required"}
          /\ t.effect = ledger.effect
    BY <1>2, RecoveryRecord
  <2> QED BY <1>4, <2>1
<1>5. /\ DOMAIN ledger' = LedgerFields /\ ledger'.effect = ledger.effect
      /\ ledger'.phase \in {ledger.phase, "recovery-required"}
  BY <1>2, <1>3, <1>4
<1>6. ledger.phase \in {"none", "planned"} \/ Terminal(ledger) => UNCHANGED ledger
  BY DEF RecordStartupRecovery
<1>7. DOMAIN apply' = ApplyFields /\ apply'.at = "idle" /\ apply'.phase = 1 /\ apply'.env = 1
  BY SMTT(60), <1>1 DEF idleApply, ApplyFields
<1>8. 1 \in 1..5
  BY SMTT(60)
<1>9. BatchShape'
  BY <1>1, <1>5, <1>7, <1>8, Steps DEF BatchShape
<1>10. /\ "started" \notin LiveSteps /\ "idle" \notin LiveSteps /\ "idle" \notin ReadySteps
       /\ "idle" \notin {"before", "run", "rollback"}
  BY DEF LiveSteps, ReadySteps
<1>11. GatesFit'
  BY <1>1, <1>7, <1>10 DEF GatesFit, GateFits
<1> QED BY <1>1, <1>5, <1>6, <1>9, <1>11

-----------------------------------------------------------------------------
(* What the services of the owner do to the record.                         *)

\* A later version of the record: still open if it was, the same effects, none
\* that was started is pending again, and that of the owner has this status.
Follows(op, owner) ==
  /\ DOMAIN op = LedgerFields /\ DOMAIN op.effect = DOMAIN ledger.effect
  /\ op.effect[OwnerEffect] = owner
  /\ \A f \in DOMAIN ledger.effect : op.effect[f] = "pending" => ledger.effect[f] = "pending"
  /\ op.phase \in {ledger.phase} \cup OpenPhases

LEMMA FollowsItself ==
  ASSUME BatchShape
  PROVE  Follows(ledger, ledger.effect[OwnerEffect])
  BY DEF Follows, BatchShape

LEMMA FollowsTransition ==
  ASSUME NEW op, NEW owner, Follows(op, owner), NEW next \in OpenPhases
  PROVE  Follows(transitioned(op, next), owner)
<1>1. DOMAIN op = LedgerFields
  BY DEF Follows
<1>2. DOMAIN transitioned(op, next) = LedgerFields /\ transitioned(op, next).phase = next
        /\ transitioned(op, next).effect = op.effect
  BY <1>1, TransitionedRecord
<1> QED BY <1>2 DEF Follows

LEMMA FollowsRecovery ==
  ASSUME NEW op, NEW owner, Follows(op, owner), NEW code, NEW require
  PROVE  Follows(updateRecovery(op, code, require), owner)
<1> DEFINE t == updateRecovery(op, code, require)
<1>1. DOMAIN op = LedgerFields
  BY DEF Follows
<1>2. DOMAIN t = LedgerFields /\ t.phase \in {op.phase, "recovery-required"} /\ t.effect = op.effect
  BY <1>1, RecoveryRecord
<1>3. "recovery-required" \in OpenPhases
  BY DEF OpenPhases
<1> QED BY <1>2, <1>3 DEF Follows

LEMMA FollowsRequired ==
  ASSUME NEW op, NEW owner, Follows(op, owner)
  PROVE  Follows(requireRecovery(op), owner)
<1>1. Follows(updateRecovery(op, "provider", TRUE), owner)
  BY FollowsRecovery
<1> QED BY <1>1 DEF requireRecovery

LEMMA FollowsBegun ==
  ASSUME NEW op, NEW owner, Follows(op, owner), OwnerEffect \in DOMAIN ledger.effect,
         executes(op, OwnerEffect)
  PROVE  Follows(begun(op, OwnerEffect), "running")
<1>1. DOMAIN op = LedgerFields
  BY DEF Follows
<1>2. /\ DOMAIN begun(op, OwnerEffect) = LedgerFields /\ begun(op, OwnerEffect).phase = op.phase
      /\ begun(op, OwnerEffect).effect = [op.effect EXCEPT ![OwnerEffect] = "running"]
  BY <1>1, BegunRecord
<1> QED BY <1>2 DEF Follows

LEMMA FollowsFinished ==
  ASSUME NEW op, NEW owner, Follows(op, owner), OwnerEffect \in DOMAIN ledger.effect,
         NEW status \in {"succeeded", "failed", "rolled-back", "unproved"}
  PROVE  Follows(finished(op, OwnerEffect, status), status)
<1>1. DOMAIN op = LedgerFields
  BY DEF Follows
<1>2. /\ DOMAIN finished(op, OwnerEffect, status) = LedgerFields
           /\ finished(op, OwnerEffect, status).phase = op.phase
      /\ finished(op, OwnerEffect, status).effect = [op.effect EXCEPT ![OwnerEffect] = status]
  BY SMTT(60), <1>1 DEF finished, LedgerFields
<1> QED BY <1>2 DEF Follows

-----------------------------------------------------------------------------
(* The secret.                                                              *)

SecretOutside == {"idle", "reserve", "with-value", "no-value", "startup", "started"}
ProviderSteps == {"execute", "reconcile", "reconcile-no-value", "provider", "provider-failed"}
PlainSteps == {"plain", "plain-no-value", "execute", "reconcile", "reconcile-no-value", "prove"}
ResetSteps == {"startup", "reset", "reset-committed", "reset-uncommitted"}

\* What the record and the keychain are at a step of the apply call: nothing is
\* written before the call of the provider is recorded, and what was written
\* is never recorded as undone.
SecretFits(at, phase, owner, key) ==
  /\ at \notin SecretOutside => phase \notin {"none", "planned"}
  /\ at \in {"with-value", "no-value"} => phase # "none"
  /\ at = "reserve" => phase = "none"
  /\ phase = "planned" => owner = "pending"
  /\ key = "next" => phase \notin {"none", "planned"} /\ owner \in {"running", "succeeded"}
  /\ at \in ProviderSteps => owner = "running"
  /\ at = "commit" => owner = "succeeded"
  /\ at = "reset-committed" => key = "next"
  /\ at = "reset-uncommitted" => key = "base"

\* What the gateways are then.
RoutesFit ==
  /\ apply.at \notin LiveSteps => noRouteOfOperation
       \/ (ledger.phase # "none" /\ secretEffect = "succeeded")
  /\ apply.at \in PlainSteps => ~rotating
  /\ apply.at \in ResetSteps => apply.boot
  /\ apply.at = "sync" /\ apply.outcome = "succeeded" => routesOfOperation
  /\ apply.at = "proved" => routesOfOperation
  /\ apply.at = "terminate" /\ apply.outcome = "succeeded" =>
       keychain = "next" /\ (rotating /\ ~apply.boot => routesOfOperation)
  /\ apply.at = "terminate" /\ apply.outcome # "succeeded" => secretEffect \notin {"running", "succeeded"}

SecretAccount ==
  /\ BatchShape /\ GatesFit
  /\ DOMAIN secretPlan = {"exists", "action", "live"}
  /\ ledger.phase # "none" => OwnerEffect \in DOMAIN ledger.effect
  /\ SecretFits(apply.at, ledger.phase, secretEffect, keychain)
  /\ RoutesFit

\* What SecretOutcomeIsTrue says of one step.
SecretTrue ==
  Terminal(ledger') /\ ~Terminal(ledger) =>
    /\ noOpenChange
    /\ ledger'.phase = "succeeded" =>
         keychain = "next" /\ (rotating /\ ~apply.boot => routesOfOperation)
    /\ ledger'.phase # "succeeded" => keychain # "next"
    /\ ledger'.phase \in {"rolled-back", "failed", "cancelled"} => noRouteOfOperation

LEMMA StaysOpen ==
  ASSUME NEW owner, Follows(ledger', owner)
  PROVE  SecretTrue
  BY DEF Follows, OpenPhases, Terminal, TerminalPhases, SecretTrue

\* A later version of a claimed record, open or not.
Later(op, owner) ==
  /\ DOMAIN op = LedgerFields /\ DOMAIN op.effect = DOMAIN ledger.effect
  /\ op.effect[OwnerEffect] = owner
  /\ op.phase \notin {"none", "planned"}

\* A step of a claimed operation outside the batch.
LEMMA SecretKept ==
  ASSUME SecretAccount, ledger.phase \notin {"none", "planned"},
         NEW to, NEW out, ApplyAt(to, out), MayMove(apply.at, to), UNCHANGED <<gateway, secretPlan>>,
         NEW owner, Later(ledger', owner), NEW key, keychain' = key,
         secretEffect = "succeeded" => owner = "succeeded",
         key = "next" => owner \in {"running", "succeeded"},
         to \in ProviderSteps => owner = "running",
         to = "commit" => owner = "succeeded",
         to = "reset-committed" => key = "next",
         to = "reset-uncommitted" => key = "base",
         to \notin {"reserve", "sync"},
         to \in PlainSteps => ~rotating,
         to \in ResetSteps => apply.boot,
         to = "proved" => routesOfOperation,
         to = "terminate" /\ out = "succeeded" => key = "next"
           /\ (rotating /\ ~apply.boot => routesOfOperation),
         to = "terminate" /\ out # "succeeded" => owner \notin {"running", "succeeded"}
  PROVE  SecretAccount'
<1>2. /\ BatchShape /\ GatesFit /\ DOMAIN secretPlan = {"exists", "action", "live"} /\ RoutesFit
      /\ OwnerEffect \in DOMAIN ledger.effect
  BY DEF SecretAccount
<1>3. DOMAIN ledger' = LedgerFields /\ OwnerEffect \in DOMAIN ledger'.effect
        /\ ledger'.effect[OwnerEffect] = owner
  BY <1>2 DEF Later
<1>4. ledger'.phase \notin {"none", "planned"}
  BY DEF Later
<1>5. GatesFit' /\ BatchShape'
  BY <1>2, <1>3, GatesMove
<1>6. apply'.at = to /\ apply'.outcome = out /\ apply'.boot = apply.boot
  BY DEF ApplyAt
<1>7. SecretFits(apply'.at, ledger'.phase, secretEffect', keychain')
  BY <1>3, <1>4, <1>6 DEF SecretFits, secretEffect
<1>8. (noRouteOfOperation => noRouteOfOperation') /\ (routesOfOperation => routesOfOperation')
        /\ (rotating' <=> rotating)
  BY DEF noRouteOfOperation, routesOfOperation, rotating
<1>9. to \notin LiveSteps => apply.at \notin LiveSteps \/ secretEffect = "succeeded"
        \/ owner = "succeeded" \/ noRouteOfOperation
  BY DEF MayMove, LiveSteps, ReadySteps
<1>10. to \notin LiveSteps => noRouteOfOperation' \/ owner = "succeeded"
  BY <1>2, <1>8, <1>9 DEF RoutesFit
<1>11. RoutesFit'
  BY <1>3, <1>4, <1>6, <1>8, <1>10 DEF RoutesFit, secretEffect
<1> QED BY <1>2, <1>3, <1>5, <1>7, <1>11 DEF SecretAccount, SecretFits

LEMMA SecretMoves ==
  ASSUME SecretAccount, ledger.phase \notin {"none", "planned"},
         NEW to, NEW out, ApplyAt(to, out), MayMove(apply.at, to), UNCHANGED <<gateway, secretPlan>>,
         NEW owner, Follows(ledger', owner), NEW key, keychain' = key,
         secretEffect = "succeeded" => owner = "succeeded",
         key = "next" => owner \in {"running", "succeeded"},
         to \in ProviderSteps => owner = "running",
         to = "commit" => owner = "succeeded",
         to = "reset-committed" => key = "next",
         to = "reset-uncommitted" => key = "base",
         to \notin {"reserve", "sync"},
         to \in PlainSteps => ~rotating,
         to \in ResetSteps => apply.boot,
         to = "proved" => routesOfOperation,
         to = "terminate" /\ out = "succeeded" => key = "next"
           /\ (rotating /\ ~apply.boot => routesOfOperation),
         to = "terminate" /\ out # "succeeded" => owner \notin {"running", "succeeded"}
  PROVE  SecretAccount' /\ SecretTrue
<1>1. SecretTrue
  BY StaysOpen
<1>2. Later(ledger', owner)
  BY DEF Later, Follows, OpenPhases
<1> QED BY <1>1, <1>2, SecretKept

\* The call returns with the record at most waiting for an operator.
LEMMA SecretReturns ==
  ASSUME SecretAccount, ledger.phase \notin {"none", "planned"}, apply.at \notin LiveSteps, applyReturns,
         UNCHANGED <<gateway, secretPlan>>, NEW owner, Follows(ledger', owner),
         secretEffect = "succeeded" => owner = "succeeded",
         keychain' = "next" => owner \in {"running", "succeeded"}
  PROVE  SecretAccount' /\ SecretTrue
<1>1. PICK to \in {"started", "idle"} : ApplyAt(to, apply.outcome)
  BY Returns DEF SecretAccount
<1>2. MayMove(apply.at, to)
  BY DEF MayMove, LiveSteps, ReadySteps, FreshSteps
<1>3. /\ to \notin ProviderSteps /\ to \notin PlainSteps /\ to \notin ResetSteps
      /\ to \notin {"commit", "reset-committed", "reset-uncommitted", "reserve", "sync", "proved",
           "terminate"}
  BY DEF ProviderSteps, PlainSteps, ResetSteps
<1>4. PICK key : keychain' = key
  OBVIOUS
<1> QED BY <1>1, <1>2, <1>3, <1>4, SecretMoves

\* The call has found how the operation ended.
LEMMA SecretEnds ==
  ASSUME SecretAccount, ledger.phase \notin {"none", "planned"}, apply.at \notin LiveSteps,
         NEW out, ApplyAt("terminate", out), UNCHANGED <<gateway, secretPlan, keychain>>,
         NEW owner, Follows(ledger', owner),
         secretEffect = "succeeded" => owner = "succeeded",
         keychain = "next" => owner \in {"running", "succeeded"},
         out = "succeeded" => keychain = "next" /\ (rotating /\ ~apply.boot => routesOfOperation),
         out # "succeeded" => owner \notin {"running", "succeeded"}
  PROVE  SecretAccount' /\ SecretTrue
<1>1. PICK to : to = "terminate"
  OBVIOUS
<1>2. MayMove(apply.at, to)
  BY <1>1 DEF MayMove, LiveSteps, ReadySteps, FreshSteps
<1>3. /\ to \notin ProviderSteps /\ to \notin PlainSteps /\ to \notin ResetSteps
      /\ to \notin {"commit", "reset-committed", "reset-uncommitted", "reserve", "sync", "proved"}
  BY <1>1 DEF ProviderSteps, PlainSteps, ResetSteps
<1>4. PICK key : keychain' = key
  OBVIOUS
<1>5. ApplyAt(to, out)
  BY <1>1
<1> QED BY <1>2, <1>3, <1>4, <1>5, SecretMoves

LEMMA SecretHere ==
  ASSUME SecretAccount, apply.at \notin SecretOutside \/ ledger.phase \notin {"none", "planned"}
  PROVE  /\ ledger.phase \notin {"none", "planned"} /\ OwnerEffect \in DOMAIN ledger.effect /\ BatchShape
         /\ Follows(ledger, secretEffect)
         /\ keychain = "next" => secretEffect \in {"running", "succeeded"}
  BY FollowsItself DEF SecretAccount, SecretFits, secretEffect

LEMMA EnterStagingKeeps ==
  ASSUME SecretAccount, EnterStaging
  PROVE  SecretAccount' /\ SecretTrue
<1> DEFINE op == IF ledger.phase = "claimed" THEN transitioned(ledger, "staging") ELSE ledger
<1>1. apply.at \in {"with-value", "no-value"} /\ ledger.phase # "planned" /\ ledger' = op
        /\ UNCHANGED <<gateway, secretPlan, keychain>>
  BY DEF EnterStaging, secretVars
<1>2. ledger.phase # "none"
  BY <1>1 DEF SecretAccount, SecretFits
<1>3. /\ Follows(ledger, secretEffect) /\ BatchShape
      /\ keychain = "next" => secretEffect \in {"running", "succeeded"}
  BY <1>1, <1>2, SecretHere
<1>4. Follows(ledger', secretEffect)
  <2>1. "staging" \in OpenPhases
    BY DEF OpenPhases
  <2> QED BY <1>1, <1>3, <2>1, FollowsTransition
<1>5. \/ applyReturns \/ (goApply("observe") /\ rotating)
      \/ ~rotating /\ (goApply("plain") \/ goApply("plain-no-value"))
  BY DEF EnterStaging
<1>6. apply.at \notin LiveSteps /\ apply.at \in FreshSteps
  BY <1>1 DEF LiveSteps, ReadySteps, FreshSteps
<1>7. CASE applyReturns
  BY <1>1, <1>2, <1>3, <1>4, <1>6, <1>7, SecretReturns
<1>8. ASSUME NEW to \in {"observe", "plain", "plain-no-value"}, goApply(to), to = "observe" \/ ~rotating
      PROVE  SecretAccount' /\ SecretTrue
  <2>1. ApplyAt(to, apply.outcome)
    BY <1>3, <1>8, Goes
  <2>2. MayMove(apply.at, to)
    BY <1>6 DEF MayMove, LiveSteps, ReadySteps, FreshSteps
  <2>3. /\ to \notin ProviderSteps /\ to \notin ResetSteps /\ "observe" \notin PlainSteps
        /\ to \notin {"commit", "reset-committed", "reset-uncommitted", "reserve", "sync", "proved",
             "terminate"}
    BY DEF ProviderSteps, PlainSteps, ResetSteps
  <2> QED BY <1>1, <1>2, <1>3, <1>4, <1>8, <2>1, <2>2, <2>3, SecretMoves
<1> QED BY <1>5, <1>7, <1>8

LEMMA BeginProviderKeeps ==
  ASSUME SecretAccount, BeginProvider
  PROVE  SecretAccount' /\ SecretTrue
<1>1. apply.at \in {"plain", "plain-no-value"} /\ UNCHANGED <<gateway, secretPlan, keychain>>
  BY DEF BeginProvider, secretVars
<1>2. /\ apply.at \notin SecretOutside /\ apply.at \notin LiveSteps /\ apply.at \in FreshSteps
           /\ apply.at \in PlainSteps
  BY <1>1 DEF SecretOutside, LiveSteps, ReadySteps, FreshSteps, PlainSteps
<1>3. /\ ledger.phase \notin {"none", "planned"} /\ OwnerEffect \in DOMAIN ledger.effect /\ BatchShape
      /\ Follows(ledger, secretEffect)
      /\ keychain = "next" => secretEffect \in {"running", "succeeded"}
  BY <1>2, SecretHere
<1>4. ~rotating
  BY <1>2 DEF SecretAccount, RoutesFit
<1>5. \/ executes(ledger, OwnerEffect) /\ ledger' = begun(ledger, OwnerEffect) /\ goApply("execute")
      \/ secretEffect = "running" /\ UNCHANGED ledger /\ goApply("reconcile")
      \/ secretEffect = "running" /\ UNCHANGED ledger /\ goApply("reconcile-no-value")
      \/ secretEffect = "succeeded" /\ UNCHANGED ledger /\ goApply("prove")
      \/ UNCHANGED ledger /\ applyReturns
  BY DEF BeginProvider
<1>6. ASSUME NEW to \in {"execute", "reconcile", "reconcile-no-value", "prove"}, goApply(to),
             NEW owner, Follows(ledger', owner), to # "prove" => owner = "running",
             secretEffect = "succeeded" => owner = "succeeded",
             keychain = "next" => owner \in {"running", "succeeded"}
      PROVE  SecretAccount' /\ SecretTrue
  <2>1. ApplyAt(to, apply.outcome)
    BY <1>3, <1>6, Goes
  <2>2. MayMove(apply.at, to)
    BY <1>2 DEF MayMove, LiveSteps, ReadySteps, FreshSteps
  <2>3. /\ to \in ProviderSteps => to # "prove"
        /\ to \notin ResetSteps
        /\ to \notin {"commit", "reset-committed", "reset-uncommitted", "reserve", "sync", "proved",
             "terminate"}
    BY DEF ProviderSteps, ResetSteps
  <2> QED BY <1>1, <1>3, <1>4, <1>6, <2>1, <2>2, <2>3, SecretMoves
<1>7. CASE executes(ledger, OwnerEffect) /\ ledger' = begun(ledger, OwnerEffect) /\ goApply("execute")
  <2>1. Follows(ledger', "running")
    BY <1>3, <1>7, FollowsBegun
  <2>2. secretEffect = "pending"
    BY <1>7 DEF executes, secretEffect
  <2> QED BY <1>6, <1>7, <2>1, <2>2
<1>8. CASE UNCHANGED ledger /\ applyReturns
  BY <1>1, <1>2, <1>3, <1>8, SecretReturns
<1> QED BY <1>3, <1>5, <1>6, <1>7, <1>8

LEMMA ExecuteProviderKeeps ==
  ASSUME SecretAccount, ExecuteProvider
  PROVE  SecretAccount' /\ SecretTrue
<1>1. apply.at = "execute" /\ UNCHANGED <<gateway, secretPlan>>
  BY DEF ExecuteProvider
<1>2. /\ apply.at \notin SecretOutside /\ apply.at \notin LiveSteps /\ apply.at \in FreshSteps
           /\ apply.at \in PlainSteps
      /\ apply.at \in ProviderSteps
  BY <1>1 DEF SecretOutside, LiveSteps, ReadySteps, FreshSteps, PlainSteps, ProviderSteps
<1>3. /\ ledger.phase \notin {"none", "planned"} /\ OwnerEffect \in DOMAIN ledger.effect /\ BatchShape
      /\ Follows(ledger, secretEffect)
  BY <1>2, SecretHere
<1>4. ~rotating /\ secretEffect = "running"
  BY <1>2 DEF SecretAccount, RoutesFit, SecretFits
<1>5. CASE ledger' = finished(ledger, OwnerEffect, "succeeded") /\ goApply("prove")
  <2>1. Follows(ledger', "succeeded")
    BY <1>3, <1>5, FollowsFinished
  <2>2. ApplyAt("prove", apply.outcome)
    BY <1>3, <1>5, Goes
  <2>3. MayMove(apply.at, "prove")
    BY <1>2 DEF MayMove, LiveSteps, ReadySteps, FreshSteps
  <2>4. PICK to : to = "prove"
    OBVIOUS
  <2>5. /\ to \notin ProviderSteps /\ to \notin ResetSteps
        /\ to \notin {"commit", "reset-committed", "reset-uncommitted", "reserve", "sync", "proved",
             "terminate"}
    BY <2>4 DEF ProviderSteps, ResetSteps
  <2>6. PICK key : keychain' = key
    OBVIOUS
  <2>7. ApplyAt(to, apply.outcome) /\ MayMove(apply.at, to)
    BY <2>2, <2>3, <2>4
  <2> QED BY <1>1, <1>3, <1>4, <2>1, <2>5, <2>6, <2>7, SecretMoves
<1>6. CASE UNCHANGED ledger /\ applyReturns
  BY <1>1, <1>2, <1>3, <1>4, <1>6, SecretReturns
<1> QED BY <1>5, <1>6 DEF ExecuteProvider

LEMMA ReconcileRunningKeeps ==
  ASSUME SecretAccount, ReconcileRunningEffect
  PROVE  SecretAccount' /\ SecretTrue
<1>1. apply.at \in {"reconcile", "reconcile-no-value"} /\ UNCHANGED <<gateway, secretPlan, keychain>>
  BY DEF ReconcileRunningEffect, secretVars
<1>2. /\ apply.at \notin SecretOutside /\ apply.at \notin LiveSteps /\ apply.at \in FreshSteps
           /\ apply.at \in PlainSteps
      /\ apply.at \in ProviderSteps
  BY <1>1 DEF SecretOutside, LiveSteps, ReadySteps, FreshSteps, PlainSteps, ProviderSteps
<1>3. /\ ledger.phase \notin {"none", "planned"} /\ OwnerEffect \in DOMAIN ledger.effect /\ BatchShape
      /\ Follows(ledger, secretEffect)
  BY <1>2, SecretHere
<1>4. ~rotating /\ secretEffect = "running"
  BY <1>2 DEF SecretAccount, RoutesFit, SecretFits
<1>5. ASSUME NEW to \in {"prove", "execute"}, goApply(to), NEW owner \in {"running", "succeeded"},
             Follows(ledger', owner),
             to = "execute" => owner = "running"
      PROVE  SecretAccount' /\ SecretTrue
  <2>2. ApplyAt(to, apply.outcome)
    BY <1>3, <1>5, Goes
  <2>3. MayMove(apply.at, to)
    BY <1>2 DEF MayMove, LiveSteps, ReadySteps, FreshSteps
  <2>4. /\ "prove" \notin ProviderSteps /\ to \notin ResetSteps
        /\ to \notin {"commit", "reset-committed", "reset-uncommitted", "reserve", "sync", "proved",
             "terminate"}
    BY DEF ProviderSteps, ResetSteps
  <2> QED BY <1>1, <1>3, <1>4, <1>5, <2>2, <2>3, <2>4, SecretMoves
<1>6. CASE ledger' = finished(ledger, OwnerEffect, "succeeded") /\ goApply("prove")
  BY <1>3, <1>5, <1>6, FollowsFinished
<1>7. CASE UNCHANGED ledger /\ goApply("execute")
  BY <1>3, <1>4, <1>5, <1>7
<1>8. CASE ledger' \in {ledger, requireRecovery(ledger)} /\ applyReturns
  <2>1. Follows(ledger', secretEffect)
    BY <1>3, <1>8, FollowsRequired
  <2> QED BY <1>1, <1>2, <1>3, <1>4, <1>8, <2>1, SecretReturns
<1> QED BY <1>6, <1>7, <1>8 DEF ReconcileRunningEffect

LEMMA ProveGenerationKeeps ==
  ASSUME SecretAccount, ProveGeneration
  PROVE  SecretAccount' /\ SecretTrue
<1> DEFINE op == IF ledger.phase \in {"staging", "recovery-required"} THEN transitioned(ledger, "proving") ELSE ledger
<1>1. apply.at = "prove" /\ UNCHANGED <<gateway, secretPlan, keychain>>
  BY DEF ProveGeneration, secretVars
<1>2. apply.at \notin SecretOutside /\ apply.at \notin LiveSteps /\ apply.at \in PlainSteps
  BY <1>1 DEF SecretOutside, LiveSteps, ReadySteps, PlainSteps
<1>3. /\ ledger.phase \notin {"none", "planned"} /\ OwnerEffect \in DOMAIN ledger.effect /\ BatchShape
      /\ Follows(ledger, secretEffect)
      /\ keychain = "next" => secretEffect \in {"running", "succeeded"}
  BY <1>2, SecretHere
<1>4. ~rotating
  BY <1>2 DEF SecretAccount, RoutesFit
<1>5. Follows(op, secretEffect)
  <2>1. "proving" \in OpenPhases
    BY DEF OpenPhases
  <2> QED BY <1>3, <2>1, FollowsTransition
<1>6. CASE keychain = "next"
  <2>1. ledger' = op /\ end("succeeded")
    BY <1>6 DEF ProveGeneration
  <2>2. ApplyAt("terminate", "succeeded")
    BY <1>3, <2>1, Ended
  <2>3. MayMove(apply.at, "terminate")
    BY <1>2 DEF MayMove, LiveSteps, ReadySteps, FreshSteps
  <2>4. Follows(ledger', secretEffect)
    BY <1>5, <2>1
  <2> QED BY <1>1, <1>2, <1>3, <1>4, <1>6, <2>2, <2>4, SecretEnds
<1>7. CASE keychain # "next"
  <2>1. ledger' = requireRecovery(op) /\ applyReturns
    BY <1>7 DEF ProveGeneration
  <2>2. Follows(ledger', secretEffect)
    BY <1>5, <2>1, FollowsRequired
  <2> QED BY <1>1, <1>2, <1>3, <2>1, <2>2, SecretReturns
<1> QED BY <1>6, <1>7

\* The steps of the hook between the drained routes and the commit.
LEMMA SecretHookMoves ==
  ASSUME SecretAccount, apply.at \in {"hook", "provider", "provider-failed"},
         NEW to \in {"provider", "provider-failed", "commit", "rollback"}, goApply(to),
         UNCHANGED <<gateway, secretPlan>>, NEW owner, Follows(ledger', owner), NEW key, keychain' = key,
         secretEffect = "succeeded" => owner = "succeeded",
         key = "next" => owner \in {"running", "succeeded"},
         to \in {"provider", "provider-failed"} => owner = "running",
         to = "commit" => owner = "succeeded"
  PROVE  SecretAccount' /\ SecretTrue
<1>1. apply.at \notin SecretOutside /\ apply.at \in ReadySteps /\ to \in ReadySteps \cup {"rollback"}
  BY DEF SecretOutside, ReadySteps
<1>2. ledger.phase \notin {"none", "planned"} /\ BatchShape
  BY <1>1, SecretHere
<1>3. ApplyAt(to, apply.outcome) /\ MayMove(apply.at, to)
  BY <1>1, <1>2, Goes DEF MayMove
<1>4. /\ to \in ProviderSteps => to \in {"provider", "provider-failed"}
      /\ to \notin PlainSteps /\ to \notin ResetSteps
      /\ to \notin {"reset-committed", "reset-uncommitted", "reserve", "sync", "proved", "terminate"}
  BY DEF ProviderSteps, PlainSteps, ResetSteps
<1> QED BY <1>2, <1>3, <1>4, SecretMoves

LEMMA SecretHookKeeps ==
  ASSUME SecretAccount, SecretHook
  PROVE  SecretAccount' /\ SecretTrue
<1>1. apply.at = "hook" /\ UNCHANGED <<gateway, secretPlan, keychain>>
  BY DEF SecretHook, secretVars
<1>2. apply.at \notin SecretOutside
  BY <1>1 DEF SecretOutside
<1>3. /\ OwnerEffect \in DOMAIN ledger.effect /\ Follows(ledger, secretEffect)
      /\ keychain = "next" => secretEffect \in {"running", "succeeded"}
  BY <1>2, SecretHere
<1>4. CASE executes(ledger, OwnerEffect) /\ ledger' = begun(ledger, OwnerEffect) /\ goApply("provider")
  <2>1. Follows(ledger', "running")
    BY <1>3, <1>4, FollowsBegun
  <2>2. secretEffect = "pending"
    BY <1>4 DEF executes, secretEffect
  <2> QED BY <1>1, <1>4, <2>1, <2>2, SecretHookMoves
<1>5. CASE UNCHANGED ledger /\ goApply("rollback")
  BY <1>1, <1>3, <1>5, SecretHookMoves
<1> QED BY <1>4, <1>5 DEF SecretHook

LEMMA CommitSecretKeeps ==
  ASSUME SecretAccount, CommitSecret
  PROVE  SecretAccount' /\ SecretTrue
<1>1. apply.at = "provider" /\ UNCHANGED <<gateway, secretPlan>>
  BY DEF CommitSecret
<1>2. apply.at \notin SecretOutside /\ apply.at \in ProviderSteps
  BY <1>1 DEF SecretOutside, ProviderSteps
<1>3. OwnerEffect \in DOMAIN ledger.effect /\ Follows(ledger, secretEffect)
  BY <1>2, SecretHere
<1>4. secretEffect = "running"
  BY <1>2 DEF SecretAccount, SecretFits
<1>k. PICK key : keychain' = key
  OBVIOUS
<1>5. CASE ledger' = finished(ledger, OwnerEffect, "succeeded") /\ goApply("commit")
  <2>1. Follows(ledger', "succeeded")
    BY <1>3, <1>5, FollowsFinished
  <2> QED BY <1>1, <1>4, <1>5, <1>k, <2>1, SecretHookMoves
<1>6. CASE UNCHANGED ledger /\ (goApply("rollback") \/ goApply("provider-failed"))
  BY <1>1, <1>3, <1>4, <1>6, <1>k, SecretHookMoves
<1> QED BY <1>5, <1>6 DEF CommitSecret

LEMMA ReconcileProviderKeeps ==
  ASSUME SecretAccount, ReconcileProviderFailure
  PROVE  SecretAccount' /\ SecretTrue
<1>1. apply.at = "provider-failed" /\ UNCHANGED <<gateway, secretPlan, keychain>>
  BY DEF ReconcileProviderFailure, secretVars
<1>2. apply.at \notin SecretOutside /\ apply.at \in ProviderSteps
  BY <1>1 DEF SecretOutside, ProviderSteps
<1>3. OwnerEffect \in DOMAIN ledger.effect /\ Follows(ledger, secretEffect)
  BY <1>2, SecretHere
<1>4. secretEffect = "running"
  BY <1>2 DEF SecretAccount, SecretFits
<1>5. CASE ledger' = finished(ledger, OwnerEffect, "succeeded") /\ goApply("commit")
  <2>1. Follows(ledger', "succeeded")
    BY <1>3, <1>5, FollowsFinished
  <2> QED BY <1>1, <1>4, <1>5, <2>1, SecretHookMoves
<1>6. CASE keychain = "base" /\ ledger' = finished(ledger, OwnerEffect, "rolled-back")
             /\ goApply("rollback")
  <2>1. Follows(ledger', "rolled-back")
    BY <1>3, <1>6, FollowsFinished
  <2>2. keychain # "next"
    BY <1>6
  <2> QED BY <1>1, <1>4, <1>6, <2>1, <2>2, SecretHookMoves
<1>7. CASE UNCHANGED ledger /\ goApply("rollback")
  BY <1>1, <1>3, <1>4, <1>7, SecretHookMoves
<1> QED BY <1>5, <1>6, <1>7 DEF ReconcileProviderFailure

LEMMA SyncSecretKeeps ==
  ASSUME SecretAccount, SyncSecretRoutes
  PROVE  SecretAccount' /\ SecretTrue
<1>1. PICK at : /\ (at = "proved" /\ apply.outcome = "succeeded") \/ at = "failed"
                /\ SyncResults(at, "unsynced")
  BY DEF SyncSecretRoutes
<1>2. UNCHANGED <<secretPlan, keychain>>
  BY DEF SyncSecretRoutes, secretVars
<1>3. apply.at = "sync"
  BY <1>1 DEF SyncResults
<1>4. apply.at \notin SecretOutside /\ apply.at \notin LiveSteps
  BY <1>3 DEF SecretOutside, LiveSteps, ReadySteps
<1>5. /\ ledger.phase \notin {"none", "planned"} /\ OwnerEffect \in DOMAIN ledger.effect /\ BatchShape
      /\ keychain = "next" => secretEffect \in {"running", "succeeded"}
  BY <1>4, SecretHere
<1>6. UNCHANGED gateway /\ LedgerKept
        /\ (ApplyAt(at, apply.outcome) \/ ApplyAt("unsynced", apply.outcome))
  BY <1>1, <1>5, SyncFacts
<1>7. Follows(ledger', secretEffect)
  BY <1>6 DEF LedgerKept, Follows, secretEffect
<1>8. apply.outcome = "succeeded" => routesOfOperation
  BY <1>3 DEF SecretAccount, RoutesFit
<1>9. PICK to \in {at, "unsynced"} : ApplyAt(to, apply.outcome)
  BY <1>6
<1>10. to \in {"proved", "failed", "unsynced"} /\ (to = "proved" => routesOfOperation)
  BY <1>1, <1>8
<1>11. MayMove(apply.at, to)
  BY <1>4, <1>10 DEF MayMove, LiveSteps, ReadySteps, FreshSteps
<1>12. /\ to \notin ProviderSteps /\ to \notin PlainSteps /\ to \notin ResetSteps
       /\ to \notin {"commit", "reset-committed", "reset-uncommitted", "reserve", "sync", "terminate"}
  BY <1>10 DEF ProviderSteps, PlainSteps, ResetSteps
<1> QED BY <1>2, <1>5, <1>6, <1>7, <1>9, <1>10, <1>11, <1>12, SecretMoves

LEMMA UnsyncedSecretKeeps ==
  ASSUME SecretAccount, UnsyncedSecretRoutes
  PROVE  SecretAccount' /\ SecretTrue
<1>1. apply.at = "unsynced" /\ ledger' = requireRecovery(ledger) /\ applyReturns
        /\ UNCHANGED <<gateway, secretPlan, keychain>>
  BY DEF UnsyncedSecretRoutes, secretVars
<1>2. apply.at \notin SecretOutside /\ apply.at \notin LiveSteps
  BY <1>1 DEF SecretOutside, LiveSteps, ReadySteps
<1>3. /\ ledger.phase \notin {"none", "planned"} /\ Follows(ledger, secretEffect)
      /\ keychain = "next" => secretEffect \in {"running", "succeeded"}
  BY <1>2, SecretHere
<1>4. Follows(ledger', secretEffect)
  BY <1>1, <1>3, FollowsRequired
<1> QED BY <1>1, <1>2, <1>3, <1>4, SecretReturns

LEMMA ProveLiveKeeps ==
  ASSUME SecretAccount, ProveLiveSecret
  PROVE  SecretAccount' /\ SecretTrue
<1>1. apply.at = "proved" /\ UNCHANGED <<gateway, secretPlan, keychain>>
  BY DEF ProveLiveSecret, secretVars
<1>2. apply.at \notin SecretOutside /\ apply.at \notin LiveSteps
  BY <1>1 DEF SecretOutside, LiveSteps, ReadySteps
<1>3. /\ ledger.phase \notin {"none", "planned"} /\ BatchShape /\ Follows(ledger, secretEffect)
      /\ keychain = "next" => secretEffect \in {"running", "succeeded"}
  BY <1>2, SecretHere
<1>4. routesOfOperation
  BY <1>1 DEF SecretAccount, RoutesFit
<1>5. CASE keychain = "next" /\ end("succeeded") /\ UNCHANGED ledger
  <2>1. ApplyAt("terminate", "succeeded")
    BY <1>3, <1>5, Ended
  <2> QED BY <1>1, <1>2, <1>3, <1>4, <1>5, <2>1, SecretEnds
<1>6. CASE ledger' = requireRecovery(ledger) /\ applyReturns
  <2>1. Follows(ledger', secretEffect)
    BY <1>3, <1>6, FollowsRequired
  <2> QED BY <1>1, <1>2, <1>3, <1>6, <2>1, SecretReturns
<1> QED BY <1>5, <1>6 DEF ProveLiveSecret

LEMMA FinishFailedKeeps ==
  ASSUME SecretAccount, FinishFailedSecret
  PROVE  SecretAccount' /\ SecretTrue
<1>1. apply.at = "failed" /\ UNCHANGED <<gateway, secretPlan, keychain>>
  BY DEF FinishFailedSecret, secretVars
<1>2. apply.at \notin SecretOutside /\ apply.at \notin LiveSteps
  BY <1>1 DEF SecretOutside, LiveSteps, ReadySteps
<1>3. /\ ledger.phase \notin {"none", "planned"} /\ BatchShape /\ Follows(ledger, secretEffect)
      /\ keychain = "next" => secretEffect \in {"running", "succeeded"}
  BY <1>2, SecretHere
<1>4. CASE ledger' \in {ledger, requireRecovery(ledger)} /\ applyReturns
  <2>1. Follows(ledger', secretEffect)
    BY <1>3, <1>4, FollowsRequired
  <2> QED BY <1>1, <1>2, <1>3, <1>4, <2>1, SecretReturns
<1>5. CASE /\ secretEffect \notin {"succeeded", "running"}
           /\ ledger' \in {ledger, transitioned(ledger, "rolling-back")}
           /\ \E phase \in {"rollback-unproved", "rolled-back", "failed"} : end(phase)
  <2>1. PICK phase \in {"rollback-unproved", "rolled-back", "failed"} : end(phase)
    BY <1>5
  <2>2. ApplyAt("terminate", phase)
    BY <1>3, <2>1, Ended
  <2>3. Follows(ledger', secretEffect)
    <3>1. "rolling-back" \in OpenPhases
      BY DEF OpenPhases
    <3> QED BY <1>3, <1>5, <3>1, FollowsTransition
  <2>4. phase # "succeeded" /\ keychain # "next"
    BY <1>3, <1>5, <2>1
  <2> QED BY <1>1, <1>2, <1>3, <1>5, <2>2, <2>3, <2>4, SecretEnds
<1> QED BY <1>4, <1>5 DEF FinishFailedSecret

LEMMA TerminalOutcome ==
  ASSUME NEW op, NEW phase, mayTerminate(op, phase)
  PROVE  phase \in TerminalPhases
<1>1. CASE Terminal(op)
  <2>1. op.phase = phase \/ phase \in successors(op.phase)
    BY DEF mayTerminate, operationTransitionAllowed
  <2>2. successors(op.phase) = {}
    BY <1>1 DEF Terminal, TerminalPhases, successors
  <2> QED BY <1>1, <2>1, <2>2 DEF Terminal
<1>2. CASE validateOperationTerminalEvidence(op, phase)
  BY <1>2 DEF validateOperationTerminalEvidence, TerminalPhases
<1> QED BY <1>1, <1>2 DEF mayTerminate

LEMMA NoneOpen ==
  ASSUME BatchShape, GatesFit, apply.at \notin LiveSteps
  PROVE  noOpenChange
  BY DEF GatesFit, GateFits, noOpenChange

LEMMA TerminateSecretKeeps ==
  ASSUME SecretAccount, TerminateSecret
  PROVE  SecretAccount' /\ SecretTrue
<1>1. apply.at = "terminate" /\ UNCHANGED <<gateway, secretPlan, keychain>>
  BY DEF TerminateSecret, secretVars
<1>2. apply.at \notin SecretOutside /\ apply.at \notin LiveSteps
  BY <1>1 DEF SecretOutside, LiveSteps, ReadySteps
<1>3. /\ ledger.phase \notin {"none", "planned"} /\ BatchShape /\ Follows(ledger, secretEffect)
      /\ keychain = "next" => secretEffect \in {"running", "succeeded"}
  BY <1>2, SecretHere
<1>4. CASE UNCHANGED ledger /\ applyReturns
  BY <1>1, <1>2, <1>3, <1>4, SecretReturns
<1>5. CASE /\ mayTerminate(ledger, apply.outcome) /\ ledger' = transitioned(ledger, apply.outcome)
           /\ applyReturns \/ goApply("forget")
  <2>1. apply.outcome \in TerminalPhases
    BY <1>5, TerminalOutcome
  <2>2. DOMAIN ledger' = LedgerFields /\ ledger'.phase = apply.outcome /\ ledger'.effect = ledger.effect
    BY <1>3, <1>5, TransitionedRecord DEF BatchShape
  <2>3. Later(ledger', secretEffect)
    BY <2>1, <2>2 DEF Later, secretEffect, TerminalPhases
  <2>4. PICK to \in {"started", "idle", "forget"} : ApplyAt(to, apply.outcome)
    BY <1>3, <1>5, Returns, Goes
  <2>5. MayMove(apply.at, to)
    BY <1>2 DEF MayMove, LiveSteps, ReadySteps, FreshSteps
  <2>6. /\ to \notin ProviderSteps /\ to \notin PlainSteps /\ to \notin ResetSteps
        /\ to \notin {"commit", "reset-committed", "reset-uncommitted", "reserve", "sync", "proved",
             "terminate"}
    BY DEF ProviderSteps, PlainSteps, ResetSteps
  <2>7. SecretAccount'
    BY <1>1, <1>3, <2>3, <2>4, <2>5, <2>6, SecretKept
  <2>8. noOpenChange
    BY <1>2, <1>3, NoneOpen DEF SecretAccount
  <2>9. /\ apply.outcome = "succeeded" => keychain = "next"
             /\ (rotating /\ ~apply.boot => routesOfOperation)
        /\ apply.outcome # "succeeded" => secretEffect \notin {"running", "succeeded"}
        /\ noRouteOfOperation \/ secretEffect = "succeeded"
    BY <1>1, <1>2 DEF SecretAccount, RoutesFit
  <2>10. SecretTrue
    BY <1>3, <2>2, <2>8, <2>9 DEF SecretTrue
  <2> QED BY <2>7, <2>10
<1> QED BY <1>4, <1>5 DEF TerminateSecret

\* The steps outside the call, and those that enter it.
LEMMA SecretRests ==
  ASSUME apply'.at \in SecretOutside, BatchShape', GatesFit',
         DOMAIN secretPlan' = {"exists", "action", "live"},
         ledger'.phase # "none" => OwnerEffect \in DOMAIN ledger'.effect,
         ledger'.phase = "planned" => ledger'.effect[OwnerEffect] = "pending",
         keychain' = "next" => /\ ledger'.phase \notin {"none", "planned"}
                               /\ ledger'.effect[OwnerEffect] \in {"running", "succeeded"},
         noRouteOfOperation' \/ (ledger'.phase # "none" /\ ledger'.effect[OwnerEffect] = "succeeded"),
         apply'.at \in {"with-value", "no-value"} => ledger'.phase # "none",
         apply'.at = "reserve" => ledger'.phase = "none",
         apply'.at = "startup" => apply'.boot
  PROVE  SecretAccount'
<1>1. /\ apply'.at \notin ProviderSteps /\ apply'.at \notin PlainSteps
      /\ apply'.at \notin {"commit", "reset-committed", "reset-uncommitted", "sync", "proved",
           "terminate"}
      /\ apply'.at \in ResetSteps => apply'.at = "startup"
  BY DEF SecretOutside, ProviderSteps, PlainSteps, ResetSteps
<1>2. SecretFits(apply'.at, ledger'.phase, secretEffect', keychain')
  BY <1>1 DEF SecretFits, secretEffect
<1>3. RoutesFit'
  BY <1>1 DEF RoutesFit, secretEffect
<1> QED BY <1>2, <1>3 DEF SecretAccount, SecretFits

LEMMA NoSecretPlan ==
  DOMAIN noSecretPlan = {"exists", "action", "live"}
  BY SMTT(60) DEF noSecretPlan

LEMMA SecretUntouched ==
  ASSUME UNCHANGED ledger
  PROVE  SecretTrue
  BY DEF SecretTrue

LEMMA SecretStands ==
  ASSUME SecretAccount, apply.at \notin LiveSteps
  PROVE  /\ BatchShape /\ GatesFit /\ DOMAIN secretPlan = {"exists", "action", "live"}
         /\ ledger.phase # "none" => OwnerEffect \in DOMAIN ledger.effect
         /\ ledger.phase = "planned" => ledger.effect[OwnerEffect] = "pending"
         /\ keychain = "next" => /\ ledger.phase \notin {"none", "planned"}
                                 /\ ledger.effect[OwnerEffect] \in {"running", "succeeded"}
         /\ noRouteOfOperation \/ (ledger.phase # "none" /\ ledger.effect[OwnerEffect] = "succeeded")
  BY DEF SecretAccount, SecretFits, RoutesFit, secretEffect

LEMMA ForgetSecretKeeps ==
  ASSUME SecretAccount, ForgetSecretPlan
  PROVE  SecretAccount' /\ SecretTrue
<1>1. apply.at = "forget" /\ applyReturns /\ secretPlan' = noSecretPlan
        /\ UNCHANGED <<ledger, gateway, keychain>>
  BY DEF ForgetSecretPlan
<1>2. apply.at \notin LiveSteps
  BY <1>1 DEF LiveSteps, ReadySteps
<1>3. PICK to \in {"started", "idle"} : ApplyAt(to, apply.outcome)
  BY <1>1, <1>2, SecretStands, Returns
<1>4. MayMove(apply.at, to)
  BY <1>2 DEF MayMove, LiveSteps, ReadySteps, FreshSteps
<1>5. GatesFit' /\ BatchShape'
  BY <1>1, <1>2, <1>3, <1>4, SecretStands, GatesMove DEF BatchShape
<1>6. apply'.at \in {"started", "idle"} /\ apply'.at \in SecretOutside
  BY <1>3 DEF ApplyAt, SecretOutside
<1>7. DOMAIN secretPlan' = {"exists", "action", "live"}
  BY <1>1, NoSecretPlan
<1>8. noRouteOfOperation => noRouteOfOperation'
  BY <1>1 DEF noRouteOfOperation
<1> QED BY <1>1, <1>2, <1>5, <1>6, <1>7, <1>8, SecretStands, SecretRests, SecretUntouched

LEMMA ReconcileSecretKeeps ==
  ASSUME SecretAccount, ReconcileSecret
  PROVE  SecretAccount' /\ SecretTrue
<1>1. apply.at = "startup" /\ UNCHANGED <<gateway, secretPlan, keychain>>
  BY DEF ReconcileSecret, secretVars
<1>2. apply.at \notin LiveSteps /\ apply.at \in ResetSteps /\ apply.at \in FreshSteps
  BY <1>1 DEF LiveSteps, ReadySteps, ResetSteps, FreshSteps
<1>3. apply.boot
  BY <1>2 DEF SecretAccount, RoutesFit
<1>4. CASE UNCHANGED ledger /\ applyReturns
  <2>3. PICK to \in {"started", "idle"} : ApplyAt(to, apply.outcome)
    BY <1>2, <1>4, SecretStands, Returns
  <2>4. MayMove(apply.at, to)
    BY <1>2 DEF MayMove, LiveSteps, ReadySteps, FreshSteps
  <2>5. GatesFit' /\ BatchShape'
    BY <1>1, <1>2, <1>4, <2>3, <2>4, SecretStands, GatesMove DEF BatchShape
  <2>6. apply'.at \in {"started", "idle"} /\ apply'.at \in SecretOutside
    BY <2>3 DEF ApplyAt, SecretOutside
  <2>7. noRouteOfOperation => noRouteOfOperation'
    BY <1>1 DEF noRouteOfOperation
  <2> QED BY <1>1, <1>2, <1>4, <2>5, <2>6, <2>7, SecretStands, SecretRests, SecretUntouched
<1>5. CASE /\ ledger.phase \notin {"none", "planned"}
           /\ \/ UNCHANGED ledger /\ (goApply("reset") \/ goApply("no-value"))
              \/ ledger' = updateRecovery(ledger, "provider", FALSE) /\ applyReturns
  <2>1. /\ BatchShape /\ Follows(ledger, secretEffect)
        /\ keychain = "next" => secretEffect \in {"running", "succeeded"}
    BY <1>5, SecretHere
  <2>2. CASE ledger' = updateRecovery(ledger, "provider", FALSE) /\ applyReturns
    <3>1. Follows(ledger', secretEffect)
      BY <2>1, <2>2, FollowsRecovery
    <3> QED BY <1>1, <1>2, <1>5, <2>1, <2>2, <3>1, SecretReturns
  <2>3. ASSUME NEW to \in {"reset", "no-value"}, UNCHANGED ledger, goApply(to)
        PROVE  SecretAccount' /\ SecretTrue
    <3>1. ApplyAt(to, apply.outcome)
      BY <2>1, <2>3, Goes
    <3>2. MayMove(apply.at, to)
      BY <1>2 DEF MayMove, LiveSteps, ReadySteps, FreshSteps
    <3>3. /\ to \notin ProviderSteps /\ to \notin PlainSteps
          /\ to \notin {"commit", "reset-committed", "reset-uncommitted", "reserve", "sync", "proved",
               "terminate"}
      BY DEF ProviderSteps, PlainSteps
    <3>4. Follows(ledger', secretEffect)
      BY <2>1, <2>3
    <3> QED BY <1>1, <1>3, <1>5, <2>1, <3>1, <3>2, <3>3, <3>4, SecretMoves
  <2> QED BY <1>5, <2>2, <2>3
<1> QED BY <1>4, <1>5 DEF ReconcileSecret

LEMMA StartupSecretKeeps ==
  ASSUME SecretAccount, RecordSecretStartup
  PROVE  SecretAccount' /\ SecretTrue
<1>1. RecordStartupRecovery /\ UNCHANGED <<keychain, secretPlan>>
  BY DEF RecordSecretStartup, secretVars
<1>2. apply.at = "started"
  BY <1>1 DEF RecordStartupRecovery
<1>3. apply.at \notin LiveSteps
  BY <1>2 DEF LiveSteps, ReadySteps
<1>4. /\ apply' = idleApply /\ UNCHANGED gateway
      /\ DOMAIN ledger' = LedgerFields /\ ledger'.effect = ledger.effect
      /\ ledger'.phase \in {ledger.phase, "recovery-required"}
      /\ ledger.phase \in {"none", "planned"} \/ Terminal(ledger) => UNCHANGED ledger
      /\ GatesFit' /\ BatchShape'
  BY <1>1, <1>3, StartupFacts, SecretStands
<1>5. apply'.at = "idle" /\ apply'.at \in SecretOutside
  <2>1. apply'.at = "idle"
    BY SMTT(60), <1>4 DEF idleApply
  <2> QED BY <2>1 DEF SecretOutside
<1>6. Follows(ledger', secretEffect)
  BY <1>4 DEF Follows, OpenPhases, secretEffect
<1>7. (noRouteOfOperation => noRouteOfOperation') /\ (ledger.phase # "none" => ledger'.phase # "none")
  BY <1>4 DEF noRouteOfOperation
<1>8. ledger'.phase \in {"none", "planned"} => ledger'.phase = ledger.phase
  BY <1>4
<1>9. ledger'.phase # "none" => ledger.phase # "none"
  BY <1>4
<1> QED BY <1>1, <1>3, <1>4, <1>5, <1>6, <1>7, <1>8, <1>9, SecretStands, SecretRests, StaysOpen

LEMMA ReconcileResetKeeps ==
  ASSUME SecretAccount, ReconcileReset
  PROVE  SecretAccount' /\ SecretTrue
<1>1. apply.at = "reset" /\ UNCHANGED <<gateway, secretPlan, keychain>>
  BY DEF ReconcileReset, secretVars
<1>2. apply.at \notin LiveSteps /\ apply.at \in ResetSteps /\ apply.at \notin SecretOutside
  BY <1>1 DEF LiveSteps, ReadySteps, ResetSteps, SecretOutside
<1>3. apply.boot
  BY <1>2 DEF SecretAccount, RoutesFit
<1>4. /\ ledger.phase \notin {"none", "planned"} /\ BatchShape /\ Follows(ledger, secretEffect)
      /\ OwnerEffect \in DOMAIN ledger.effect
      /\ keychain = "next" => secretEffect \in {"running", "succeeded"}
  BY <1>2, SecretHere
<1>5. CASE ledger' \in {ledger, requireRecovery(ledger)} /\ applyReturns
  <2>1. Follows(ledger', secretEffect)
    BY <1>4, <1>5, FollowsRequired
  <2> QED BY <1>1, <1>2, <1>4, <1>5, <2>1, SecretReturns
<1>6. ASSUME NEW to \in {"reset-committed", "reset-uncommitted"}, goApply(to), NEW owner,
             Follows(ledger', owner),
             secretEffect = "succeeded" => owner = "succeeded",
             keychain = "next" => owner \in {"running", "succeeded"},
             to = "reset-committed" => keychain = "next",
             to = "reset-uncommitted" => keychain = "base"
      PROVE  SecretAccount' /\ SecretTrue
  <2>1. ApplyAt(to, apply.outcome)
    BY <1>4, <1>6, Goes
  <2>2. MayMove(apply.at, to)
    BY <1>2 DEF MayMove, LiveSteps, ReadySteps, FreshSteps
  <2>3. /\ to \notin ProviderSteps /\ to \notin PlainSteps
        /\ to \notin {"commit", "reserve", "sync", "proved", "terminate"}
    BY DEF ProviderSteps, PlainSteps
  <2> QED BY <1>1, <1>3, <1>4, <1>6, <2>1, <2>2, <2>3, SecretMoves
<1>7. CASE /\ keychain = "next" /\ goApply("reset-committed") /\ secretEffect \in {"running", "succeeded"}
           /\ ledger' = IF secretEffect = "running" THEN finished(ledger, OwnerEffect, "succeeded") ELSE ledger
  <2>1. Follows(ledger', "succeeded")
    BY <1>4, <1>7, FollowsFinished
  <2> QED BY <1>6, <1>7, <2>1
<1>8. CASE /\ keychain = "base" /\ goApply("reset-uncommitted")
                /\ secretEffect \in {"pending", "running", "rolled-back"}
           /\ ledger' = IF secretEffect = "running" THEN finished(ledger, OwnerEffect, "rolled-back") ELSE ledger
  <2>1. keychain # "next" /\ secretEffect # "succeeded"
    BY <1>8
  <2>2. \E owner : Follows(ledger', owner)
    BY <1>4, <1>8, FollowsFinished
  <2> QED BY <1>6, <1>8, <2>1, <2>2
<1> QED BY <1>5, <1>7, <1>8 DEF ReconcileReset

LEMMA CommittedResetKeeps ==
  ASSUME SecretAccount, FinishCommittedReset
  PROVE  SecretAccount' /\ SecretTrue
<1>1. apply.at = "reset-committed" /\ UNCHANGED <<gateway, secretPlan, keychain>>
  BY DEF FinishCommittedReset, secretVars
<1>2. apply.at \notin LiveSteps /\ apply.at \in ResetSteps /\ apply.at \notin SecretOutside
  BY <1>1 DEF LiveSteps, ReadySteps, ResetSteps, SecretOutside
<1>3. apply.boot /\ keychain = "next"
  BY <1>1, <1>2 DEF SecretAccount, RoutesFit, SecretFits
<1>4. /\ ledger.phase \notin {"none", "planned"} /\ BatchShape /\ Follows(ledger, secretEffect)
      /\ keychain = "next" => secretEffect \in {"running", "succeeded"}
  BY <1>2, SecretHere
<1>5. CASE ledger' \in {ledger, requireRecovery(ledger)} /\ applyReturns
  <2>1. Follows(ledger', secretEffect)
    BY <1>4, <1>5, FollowsRequired
  <2> QED BY <1>1, <1>2, <1>4, <1>5, <2>1, SecretReturns
<1>6. CASE end("succeeded") /\ ledger' \in {ledger, transitioned(ledger, "proving")}
  <2>1. Follows(ledger', secretEffect)
    <3>1. "proving" \in OpenPhases
      BY DEF OpenPhases
    <3> QED BY <1>4, <1>6, <3>1, FollowsTransition
  <2>2. ApplyAt("terminate", "succeeded")
    BY <1>4, <1>6, Ended
  <2> QED BY <1>1, <1>2, <1>3, <1>4, <2>1, <2>2, SecretEnds
<1> QED BY <1>5, <1>6 DEF FinishCommittedReset

LEMMA UncommittedResetKeeps ==
  ASSUME SecretAccount, FinishUncommittedReset
  PROVE  SecretAccount' /\ SecretTrue
<1> DEFINE kept == [f \in DOMAIN ledger.effect |->
                      IF f # OwnerEffect /\ ledger.effect[f] \in {"running", "succeeded"}
                      THEN "rolled-back" ELSE ledger.effect[f]]
           gone == [ledger EXCEPT !.effect = kept]
<1>1. apply.at = "reset-uncommitted" /\ UNCHANGED <<gateway, secretPlan, keychain>>
  BY DEF FinishUncommittedReset, secretVars
<1>2. apply.at \notin LiveSteps /\ apply.at \in ResetSteps /\ apply.at \notin SecretOutside
  BY <1>1 DEF LiveSteps, ReadySteps, ResetSteps, SecretOutside
<1>3. keychain = "base"
  BY <1>1 DEF SecretAccount, SecretFits
<1>4. /\ ledger.phase \notin {"none", "planned"} /\ BatchShape /\ Follows(ledger, secretEffect)
      /\ OwnerEffect \in DOMAIN ledger.effect
  BY <1>2, SecretHere
<1>5. Follows(gone, secretEffect)
  <2>1. /\ DOMAIN kept = DOMAIN ledger.effect /\ kept[OwnerEffect] = secretEffect
        /\ \A f \in DOMAIN ledger.effect : kept[f] = "pending" => ledger.effect[f] = "pending"
    BY <1>4 DEF secretEffect
  <2> HIDE DEF kept
  <2>2. DOMAIN ledger = LedgerFields
    BY <1>4 DEF BatchShape
  <2>3. DOMAIN gone = LedgerFields /\ gone.effect = kept /\ gone.phase = ledger.phase
    BY SMTT(60), <2>2 DEF LedgerFields
  <2> QED BY <2>1, <2>3 DEF Follows
<1>6. \/ secretEffect = "pending" /\ ledger' = finished(begun(gone, OwnerEffect), OwnerEffect, "failed")
           /\ end("failed")
      \/ secretEffect = "rolled-back" /\ end("rolled-back")
           /\ ledger' \in {gone, transitioned(gone, "rolling-back")}
      \/ ledger' \in {ledger, gone} /\ applyReturns
  BY DEF FinishUncommittedReset
<1> HIDE DEF gone
<1>7. keychain # "next"
  BY <1>3
<1>8. CASE secretEffect = "pending" /\ ledger' = finished(begun(gone, OwnerEffect), OwnerEffect,
             "failed") /\ end("failed")
  <2>1. \E owner : Follows(begun(gone, OwnerEffect), owner)
    <3>1. CASE executes(gone, OwnerEffect)
      BY <1>4, <1>5, <3>1, FollowsBegun
    <3>2. CASE ~executes(gone, OwnerEffect)
      BY <1>5, <3>2 DEF begun
    <3> QED BY <3>1, <3>2
  <2>2. Follows(ledger', "failed")
    BY <1>4, <1>8, <2>1, FollowsFinished
  <2>3. ApplyAt("terminate", "failed")
    BY <1>4, <1>8, Ended
  <2> QED BY <1>1, <1>2, <1>4, <1>7, <1>8, <2>2, <2>3, SecretEnds
<1>9. CASE secretEffect = "rolled-back" /\ end("rolled-back")
             /\ ledger' \in {gone, transitioned(gone, "rolling-back")}
  <2>1. Follows(ledger', secretEffect)
    <3>1. "rolling-back" \in OpenPhases
      BY DEF OpenPhases
    <3> QED BY <1>5, <1>9, <3>1, FollowsTransition
  <2>2. ApplyAt("terminate", "rolled-back")
    BY <1>4, <1>9, Ended
  <2>3. secretEffect \notin {"running", "succeeded"} /\ "rolled-back" # "succeeded"
    BY <1>9
  <2> QED BY <1>1, <1>2, <1>4, <1>7, <2>1, <2>2, <2>3, SecretEnds
<1>10. CASE ledger' \in {ledger, gone} /\ applyReturns
  BY <1>1, <1>2, <1>4, <1>5, <1>7, <1>10, SecretReturns
<1> QED BY <1>6, <1>8, <1>9, <1>10

\* The batch leaves the keychain and the effect of the provider alone.
LEMMA SecretLive ==
  ASSUME SecretAccount, apply.at \notin SecretOutside, BatchShape', GatesFit',
         UNCHANGED <<secretPlan, keychain>>,
         Follows(ledger', secretEffect),
         apply'.at \in {"before", "run", "hook", "rollback", "sync"},
         apply'.at = "sync" => /\ noRouteOfOperation' \/ secretEffect = "succeeded"
                               /\ apply'.outcome = "succeeded" => routesOfOperation'
  PROVE  SecretAccount' /\ SecretTrue
<1>1. /\ ledger.phase \notin {"none", "planned"} /\ OwnerEffect \in DOMAIN ledger.effect
      /\ keychain = "next" => secretEffect \in {"running", "succeeded"}
  BY SecretHere
<1>2. /\ ledger'.phase \notin {"none", "planned"} /\ OwnerEffect \in DOMAIN ledger'.effect
      /\ ledger'.effect[OwnerEffect] = secretEffect
  BY <1>1 DEF Follows, OpenPhases
<1>3. /\ apply'.at \notin ProviderSteps /\ apply'.at \notin PlainSteps /\ apply'.at \notin ResetSteps
      /\ apply'.at \notin {"with-value", "no-value", "reserve", "commit", "reset-committed",
           "reset-uncommitted", "proved", "terminate"}
      /\ apply'.at \notin LiveSteps => apply'.at = "sync"
  BY DEF ProviderSteps, PlainSteps, ResetSteps, LiveSteps, ReadySteps
<1>4. SecretFits(apply'.at, ledger'.phase, secretEffect', keychain')
  BY <1>1, <1>2, <1>3 DEF SecretFits, secretEffect
<1>5. RoutesFit'
  BY <1>2, <1>3 DEF RoutesFit, secretEffect
<1>6. DOMAIN secretPlan' = {"exists", "action", "live"}
  BY DEF SecretAccount
<1> QED BY <1>2, <1>4, <1>5, <1>6, StaysOpen DEF SecretAccount, SecretFits

LEMMA LiveSecretKeeps ==
  ASSUME SecretAccount, LiveSecretStep
  PROVE  SecretAccount' /\ SecretTrue
<1>1. LiveNetworkSteps /\ UNCHANGED <<secretPlan, keychain>>
  BY DEF LiveSecretStep, secretVars
<1>2. BatchShape /\ GatesFit
  BY DEF SecretAccount
<1>3. apply.at \in {"observe", "before", "run", "commit", "rollback"}
  BY <1>1 DEF LiveNetworkSteps, ObserveRoutes, BeforeNetworkTransitionEffect, RunNetworkEffect,
              CommitNetworkCandidates, RollbackNetworkCandidates
<1>4. apply.at \notin SecretOutside
  BY <1>3 DEF SecretOutside
<1>5. /\ OwnerEffect \in DOMAIN ledger.effect /\ Follows(ledger, secretEffect)
      /\ ledger.phase \notin {"none", "planned"}
  BY <1>4, SecretHere
<1>6. LedgerKept => Follows(ledger', secretEffect)
  BY DEF LedgerKept, Follows, secretEffect
<1>7. CASE ObserveRoutes
  <2>1. /\ UNCHANGED <<ledger, gateway>> /\ apply.at = "observe"
        /\ \/ ApplyAt("before", apply.outcome)
           \/ ApplyAt("sync", "stale")
    BY <1>2, <1>7, ObserveFacts
  <2>2. apply'.at = "before" \/ (apply'.at = "sync" /\ apply'.outcome = "stale")
    BY <2>1 DEF ApplyAt
  <2>3. apply.at \notin LiveSteps
    BY <2>1 DEF LiveSteps, ReadySteps
  <2>4. noRouteOfOperation \/ secretEffect = "succeeded"
    BY <2>3 DEF SecretAccount, RoutesFit
  <2>5. noRouteOfOperation' \/ secretEffect = "succeeded"
    BY <2>1, <2>4 DEF noRouteOfOperation
  <2> QED BY <1>1, <1>2, <1>4, <1>5, <1>7, <2>1, <2>2, <2>5, ObserveKeeps, SecretLive
<1>8. CASE BeforeNetworkTransitionEffect
  <2>1. LedgerKept /\ apply'.at \in {"run", "rollback"}
    BY <1>2, <1>5, <1>8, BeforeFacts DEF ApplyAt
  <2>2. BatchShape' /\ GatesFit'
    BY <1>2, <1>5, <1>8, BeforeKeeps
  <2> QED BY <1>1, <1>4, <1>6, <2>1, <2>2, SecretLive
<1>9. CASE RunNetworkEffect
  <2>1. LedgerKept /\ (ApplyAt("rollback", apply.outcome) \/ \E result : advance(result))
    BY <1>2, <1>5, <1>9, RunFacts
  <2>2. apply'.at \in {"rollback", "hook", "before"}
    BY <1>2, <2>1, AdvanceFacts DEF ApplyAt
  <2>3. BatchShape' /\ GatesFit'
    BY <1>2, <1>5, <1>9, EffectKeeps
  <2> QED BY <1>1, <1>4, <1>6, <2>1, <2>2, <2>3, SecretLive
<1>10. CASE CommitNetworkCandidates
  <2>1. /\ apply.at = "commit" /\ UNCHANGED ledger /\ ApplyAt("sync", "succeeded")
        /\ GatesFit' /\ BatchShape' /\ routesOfOperation'
    BY <1>2, <1>10, CommitFacts
  <2>2. apply'.at = "sync"
    BY <2>1 DEF ApplyAt
  <2>3. secretEffect = "succeeded"
    BY <2>1 DEF SecretAccount, SecretFits
  <2> QED BY <1>1, <1>4, <1>5, <2>1, <2>2, <2>3, SecretLive
<1>11. CASE RollbackNetworkCandidates
  <2>1. /\ UNCHANGED ledger /\ (ApplyAt("sync", "rolled-back") \/ ApplyAt("sync", "rollback-unproved"))
        /\ GatesFit' /\ BatchShape' /\ noRouteOfOperation'
    BY <1>2, <1>11, RollbackFacts
  <2>2. apply'.at = "sync" /\ apply'.outcome # "succeeded"
    BY <2>1 DEF ApplyAt
  <2> QED BY <1>1, <1>4, <1>5, <2>1, <2>2, SecretLive
<1> QED BY <1>1, <1>7, <1>8, <1>9, <1>10, <1>11 DEF LiveNetworkSteps

LEMMA RouteSecretKeeps ==
  ASSUME SecretAccount, SecretRouteChange
  PROVE  SecretAccount' /\ SecretTrue
<1>1. RouteChanges /\ UNCHANGED <<secretPlan, keychain>>
  BY DEF SecretRouteChange, secretVars
<1>2. /\ UNCHANGED <<ledger, apply>> /\ GatesFit' /\ BatchShape'
      /\ noRouteOfOperation => noRouteOfOperation'
      /\ routesOfOperation => routesOfOperation'
  BY <1>1, RouteFacts DEF SecretAccount
<1>3. RoutesFit'
  BY <1>1, <1>2 DEF SecretAccount, RoutesFit, secretEffect, rotating
<1>4. SecretFits(apply'.at, ledger'.phase, secretEffect', keychain')
  BY <1>1, <1>2 DEF SecretAccount, secretEffect
<1> QED BY <1>1, <1>2, <1>3, <1>4, SecretUntouched DEF SecretAccount, SecretFits

LEMMA CrashSecretKeeps ==
  ASSUME SecretAccount, CrashSecret
  PROVE  SecretAccount' /\ SecretTrue
<1>1. DaemonRestarts("startup") /\ UNCHANGED <<secretPlan, keychain>>
  BY DEF CrashSecret, secretVars
<1>2. "startup" \notin LiveSteps /\ "startup" \in SecretOutside
  BY DEF LiveSteps, ReadySteps, SecretOutside
<1>3. /\ UNCHANGED ledger /\ apply'.at = "startup" /\ apply'.boot = TRUE
      /\ GatesFit' /\ BatchShape' /\ noRouteOfOperation'
  BY <1>1, <1>2, RestartFacts DEF SecretAccount
<1>4. /\ DOMAIN secretPlan = {"exists", "action", "live"}
      /\ ledger.phase # "none" => OwnerEffect \in DOMAIN ledger.effect
      /\ ledger.phase = "planned" => ledger.effect[OwnerEffect] = "pending"
      /\ keychain = "next" => /\ ledger.phase \notin {"none", "planned"}
                              /\ ledger.effect[OwnerEffect] \in {"running", "succeeded"}
  BY DEF SecretAccount, SecretFits, secretEffect
<1>5. apply'.at \notin {"with-value", "no-value", "reserve"} /\ apply'.boot
  BY <1>3
<1> QED BY <1>1, <1>2, <1>3, <1>4, <1>5, SecretRests, SecretUntouched

LEMMA OtherWriterKeeps ==
  ASSUME SecretAccount, OtherWriter
  PROVE  SecretAccount' /\ SecretTrue
<1>1. apply.at = "idle" /\ keychain' = "other" /\ UNCHANGED <<ledger, gateway, apply, secretPlan>>
  BY DEF OtherWriter
<1>2. apply.at \notin LiveSteps /\ apply.at \in SecretOutside
  BY <1>1 DEF LiveSteps, ReadySteps, SecretOutside
<1>3. BatchShape' /\ GatesFit' /\ (noRouteOfOperation => noRouteOfOperation')
  BY <1>1, <1>2, SecretStands DEF BatchShape, GatesFit, GateFits, noRouteOfOperation
<1>4. keychain' # "next" /\ apply'.at \notin {"with-value", "no-value", "reserve", "startup"}
        /\ apply'.at \in SecretOutside
  BY <1>1, <1>2
<1> QED BY <1>1, <1>2, <1>3, <1>4, SecretStands, SecretRests, SecretUntouched

LEMMA PlanSecretKeeps ==
  ASSUME SecretAccount, PlanSecret
  PROVE  SecretAccount' /\ SecretTrue
<1>1. /\ apply.at = "idle" /\ ledger.phase = "none" /\ keychain = "base" /\ goApply("reserve")
      /\ UNCHANGED <<ledger, gateway, keychain>>
  BY DEF PlanSecret
<1>2. DOMAIN secretPlan' = {"exists", "action", "live"}
  <2>1. PICK action, live : secretPlan' = [exists |-> TRUE, action |-> action, live |-> live]
    BY DEF PlanSecret
  <2> QED BY SMTT(60), <2>1
<1>3. apply.at \notin LiveSteps
  BY <1>1 DEF LiveSteps, ReadySteps
<1>4. ApplyAt("reserve", apply.outcome)
  BY <1>1, <1>3, SecretStands, Goes
<1>5. MayMove(apply.at, "reserve") /\ "reserve" \in SecretOutside
  BY <1>1 DEF MayMove, LiveSteps, ReadySteps, FreshSteps, SecretOutside
<1>6. BatchShape' /\ GatesFit'
  BY <1>1, <1>3, <1>4, <1>5, SecretStands, GatesMove DEF BatchShape
<1>7. noRouteOfOperation => noRouteOfOperation'
  BY <1>1 DEF noRouteOfOperation
<1>8. apply'.at = "reserve" /\ keychain' # "next"
  BY <1>1, <1>4 DEF ApplyAt
<1> QED BY <1>1, <1>2, <1>3, <1>5, <1>6, <1>7, <1>8, SecretStands, SecretRests, SecretUntouched

LEMMA Reserved ==
  ASSUME NEW F
  PROVE  /\ DOMAIN reserved(F) = LedgerFields /\ reserved(F).phase = "planned"
         /\ reserved(F).effect = [f \in F |-> "pending"]
<1>1. PICK x, y : x = [f \in F |-> "pending"] /\ y = [f \in F |-> FALSE]
  OBVIOUS
<1>2. reserved(F) = [phase |-> "planned", effect |-> x, evidence |-> y, recovery |-> "retry-operation"]
  BY <1>1 DEF reserved
<1>3. DOMAIN reserved(F) = LedgerFields /\ reserved(F).phase = "planned" /\ reserved(F).effect = x
  BY SMTT(60), <1>2 DEF LedgerFields
<1> QED BY <1>1, <1>3

LEMMA ReserveSecretKeeps ==
  ASSUME SecretAccount, ReserveSecret
  PROVE  SecretAccount' /\ SecretTrue
<1>1. apply.at = "reserve" /\ goApply("idle") /\ UNCHANGED <<gateway, keychain>>
  BY DEF ReserveSecret
<1>2. apply.at \notin LiveSteps
  BY <1>1 DEF LiveSteps, ReadySteps
<1>3. ledger.phase = "none"
  BY <1>1 DEF SecretAccount, SecretFits
<1>4. keychain # "next" /\ noRouteOfOperation
  BY <1>2, <1>3, SecretStands
<1>5. ApplyAt("idle", apply.outcome)
  BY <1>1, <1>2, SecretStands, Goes
<1>6. MayMove(apply.at, "idle") /\ "idle" \in SecretOutside
  BY <1>1 DEF MayMove, LiveSteps, ReadySteps, FreshSteps, SecretOutside
<1>7. GatesFit' /\ (DOMAIN ledger' = LedgerFields => BatchShape')
  BY <1>1, <1>2, <1>5, <1>6, SecretStands, GatesMove
<1>8. noRouteOfOperation' /\ keychain' # "next"
  BY <1>1, <1>4 DEF noRouteOfOperation
<1>9. apply'.at = "idle"
  BY <1>5 DEF ApplyAt
<1>10. CASE ledger' = reserved(secretEffects) /\ UNCHANGED secretPlan
  <2>1. OwnerEffect \in secretEffects
    BY DEF secretEffects
  <2>2. /\ DOMAIN ledger' = LedgerFields /\ ledger'.phase = "planned"
        /\ ledger'.effect = [f \in secretEffects |-> "pending"]
    BY <1>10, Reserved
  <2>3. OwnerEffect \in DOMAIN ledger'.effect /\ ledger'.effect[OwnerEffect] = "pending"
    BY <2>1, <2>2
  <2>4. SecretTrue
    BY <2>2 DEF SecretTrue, Terminal, TerminalPhases
  <2> QED BY <1>2, <1>6, <1>7, <1>8, <1>9, <1>10, <2>2, <2>3, <2>4, SecretStands, SecretRests
<1>11. CASE secretPlan' = noSecretPlan /\ UNCHANGED ledger
  <2>1. DOMAIN ledger' = LedgerFields
    BY <1>2, <1>11, SecretStands DEF BatchShape
  <2> QED BY <1>3, <1>6, <1>7, <1>8, <1>9, <1>11, <2>1, NoSecretPlan, SecretRests, SecretUntouched
<1> QED BY <1>10, <1>11 DEF ReserveSecret

\* A plan that nobody applied leaves nothing behind.
LEMMA CancelSecretKeeps ==
  ASSUME SecretAccount, apply.at \notin LiveSteps, ledger.phase = "planned", cancelSecretPlan,
         UNCHANGED <<gateway, keychain>>, NEW to \in {"idle", "started"}, ApplyAt(to, apply.outcome)
  PROVE  SecretAccount' /\ SecretTrue
<1>1. ledger' = transitioned(ledger, "cancelled") /\ secretPlan' = noSecretPlan
  BY DEF cancelSecretPlan
<1>2. /\ BatchShape /\ GatesFit /\ keychain # "next" /\ noRouteOfOperation
           /\ OwnerEffect \in DOMAIN ledger.effect
  BY SecretStands
<1>3. DOMAIN ledger' = LedgerFields /\ ledger'.phase = "cancelled" /\ ledger'.effect = ledger.effect
  BY <1>1, <1>2, TransitionedRecord DEF BatchShape
<1>4. MayMove(apply.at, to) /\ to \in SecretOutside
  BY DEF MayMove, LiveSteps, ReadySteps, FreshSteps, SecretOutside
<1>5. BatchShape' /\ GatesFit'
  BY <1>2, <1>3, <1>4, GatesMove
<1>6. noRouteOfOperation' /\ keychain' # "next"
  BY <1>2 DEF noRouteOfOperation
<1>7. apply'.at = to
  BY DEF ApplyAt
<1>8. noOpenChange
  BY <1>2, NoneOpen
<1>9. SecretTrue
  BY <1>2, <1>3, <1>8 DEF SecretTrue
<1> QED BY <1>1, <1>2, <1>3, <1>4, <1>5, <1>6, <1>7, <1>9, NoSecretPlan, SecretRests

LEMMA ApplySecretKeeps ==
  ASSUME SecretAccount, ApplySecret
  PROVE  SecretAccount' /\ SecretTrue
<1>1. apply.at = "idle" /\ ledger.phase # "none" /\ UNCHANGED <<gateway, keychain>>
  BY DEF ApplySecret
<1>2. apply.at \notin LiveSteps
  BY <1>1 DEF LiveSteps, ReadySteps
<1>3. CASE ledger.phase = "planned" /\ cancelSecretPlan /\ UNCHANGED apply
  <2>1. ApplyAt("idle", apply.outcome)
    BY <1>1, <1>2, <1>3, SecretStands DEF ApplyAt, BatchShape
  <2> QED BY <1>1, <1>2, <1>3, <2>1, CancelSecretKeeps
<1>4. CASE /\ \E at \in {"with-value", "no-value"} : apply' = [idleApply EXCEPT !.at = at]
           /\ UNCHANGED <<ledger, secretPlan>>
  <2>1. PICK at \in {"with-value", "no-value"} : apply' = [idleApply EXCEPT !.at = at]
    BY <1>4
  <2>2. DOMAIN apply' = ApplyFields /\ apply'.at = at /\ apply'.phase = 1 /\ apply'.env = 1
    BY SMTT(60), <2>1 DEF idleApply, ApplyFields
  <2>3. 1 \in 1..5
    BY SMTT(60)
  <2>4. BatchShape'
    BY <1>1, <1>2, <1>4, <2>2, <2>3, SecretStands, Steps DEF BatchShape
  <2>5. at \notin LiveSteps /\ at \notin ReadySteps
          /\ at \notin {"before", "run", "rollback", "reserve", "startup"} /\ at \in SecretOutside
    BY DEF LiveSteps, ReadySteps, SecretOutside
  <2>6. GatesFit'
    BY <1>1, <1>2, <2>2, <2>5, SecretStands DEF GatesFit, GateFits
  <2>7. noRouteOfOperation => noRouteOfOperation'
    BY <1>1 DEF noRouteOfOperation
  <2> QED BY <1>1, <1>2, <1>4, <2>2, <2>4, <2>5, <2>6, <2>7, SecretStands, SecretRests, SecretUntouched
<1> QED BY <1>3, <1>4 DEF ApplySecret

LEMMA ClassifySecretKeeps ==
  ASSUME SecretAccount, ClassifySecret
  PROVE  SecretAccount' /\ SecretTrue
<1>1. apply.at \in {"with-value", "no-value"} /\ ledger.phase = "planned"
        /\ UNCHANGED <<gateway, keychain>>
  BY DEF ClassifySecret
<1>2. apply.at \notin LiveSteps
  BY <1>1 DEF LiveSteps, ReadySteps
<1>3. CASE cancelSecretPlan /\ applyReturns
  <2>1. PICK to \in {"started", "idle"} : ApplyAt(to, apply.outcome)
    BY <1>2, <1>3, SecretStands, Returns
  <2> QED BY <1>1, <1>2, <1>3, <2>1, CancelSecretKeeps
<1>4. CASE applyReturns /\ UNCHANGED <<ledger, secretPlan>>
  <2>3. PICK to \in {"started", "idle"} : ApplyAt(to, apply.outcome)
    BY <1>2, <1>4, SecretStands, Returns
  <2>4. MayMove(apply.at, to)
    BY <1>2 DEF MayMove, LiveSteps, ReadySteps, FreshSteps
  <2>5. GatesFit' /\ BatchShape'
    BY <1>1, <1>2, <1>4, <2>3, <2>4, SecretStands, GatesMove DEF BatchShape
  <2>6. apply'.at \in {"started", "idle"} /\ apply'.at \in SecretOutside
    BY <2>3 DEF ApplyAt, SecretOutside
  <2>7. noRouteOfOperation => noRouteOfOperation'
    BY <1>1 DEF noRouteOfOperation
  <2> QED BY <1>1, <1>2, <1>4, <2>5, <2>6, <2>7, SecretStands, SecretRests, SecretUntouched
<1>5. CASE ledger' = transitioned(ledger, "claimed") /\ UNCHANGED <<secretPlan, apply>>
  <2>1. DOMAIN ledger' = LedgerFields /\ ledger'.phase = "claimed" /\ ledger'.effect = ledger.effect
    BY ZenonT(60), <1>2, <1>5, SecretStands, TransitionedRecord DEF BatchShape
  <2>2. BatchShape' /\ GatesFit' /\ (noRouteOfOperation => noRouteOfOperation')
    BY <1>1, <1>2, <1>5, <2>1, SecretStands DEF BatchShape, GatesFit, GateFits, noRouteOfOperation
  <2>3. apply'.at \in SecretOutside /\ apply'.at \notin {"reserve", "startup"}
    BY <1>1, <1>5 DEF SecretOutside
  <2>4. SecretTrue
    BY <2>1 DEF SecretTrue, Terminal, TerminalPhases
  <2>5. keychain' # "next" /\ noRouteOfOperation /\ OwnerEffect \in DOMAIN ledger'.effect
    BY <1>1, <1>2, <2>1, SecretStands
  <2> QED BY <1>1, <1>2, <1>5, <2>1, <2>2, <2>3, <2>4, <2>5, SecretStands, SecretRests
<1> QED BY <1>3, <1>4, <1>5 DEF ClassifySecret

LEMMA SecretStep ==
  ASSUME SecretAccount, [SecretTxNext]_secretTxVars
  PROVE  SecretAccount' /\ (SecretTrue \/ UNCHANGED secretTxVars)
<1>1. CASE UNCHANGED secretTxVars
  <2>1. UNCHANGED <<ledger, gateway, apply, keychain, secretPlan>>
    BY <1>1 DEF secretTxVars, batchVars, secretVars
  <2>2. BatchShape' /\ GatesFit'
    BY <2>1 DEF SecretAccount, BatchShape, GatesFit, GateFits
  <2>3. SecretFits(apply'.at, ledger'.phase, secretEffect', keychain')
    BY <2>1 DEF SecretAccount, secretEffect
  <2>4. RoutesFit'
    BY <2>1 DEF SecretAccount, RoutesFit, secretEffect, rotating, noRouteOfOperation, routesOfOperation
  <2> QED BY <1>1, <2>1, <2>2, <2>3, <2>4 DEF SecretAccount, SecretFits
<1>2. CASE SecretTxNext
  BY <1>2, PlanSecretKeeps, ReserveSecretKeeps, ApplySecretKeeps, ClassifySecretKeeps, EnterStagingKeeps,
     BeginProviderKeeps, ExecuteProviderKeeps, ReconcileRunningKeeps, ProveGenerationKeeps,
     SecretHookKeeps,
     CommitSecretKeeps, ReconcileProviderKeeps, SyncSecretKeeps, UnsyncedSecretKeeps, ProveLiveKeeps,
     FinishFailedKeeps, TerminateSecretKeeps, ForgetSecretKeeps, ReconcileSecretKeeps, StartupSecretKeeps,
     ReconcileResetKeeps, CommittedResetKeeps, UncommittedResetKeeps, OtherWriterKeeps, LiveSecretKeeps,
     RouteSecretKeeps, CrashSecretKeeps DEF SecretTxNext
<1> QED BY <1>1, <1>2

LEMMA BatchStarts ==
  ASSUME BatchInit
  PROVE  /\ BatchShape /\ GatesFit /\ noRouteOfOperation /\ apply.at = "idle" /\ ledger.phase = "none"
<1>1. ledger = [reserved({}) EXCEPT !.phase = "none"]
  BY DEF BatchInit, noOperation
<1>2. DOMAIN reserved({}) = LedgerFields
  BY Reserved
<1>3. DOMAIN ledger = LedgerFields /\ ledger.phase = "none"
  BY SMTT(60), <1>1, <1>2 DEF LedgerFields
<1>4. apply = idleApply
  BY DEF BatchInit
<1>5. DOMAIN apply = ApplyFields /\ apply.at = "idle" /\ apply.phase = 1 /\ apply.env = 1
  BY SMTT(60), <1>4 DEF idleApply, ApplyFields
<1>6. gateway = [e \in PlannedEnvs |-> [closedGateway EXCEPT !.route = "from"]]
  BY DEF BatchInit
<1>7. PICK g : g = [closedGateway EXCEPT !.route = "from"]
  OBVIOUS
<1>8. DOMAIN g = GateFields /\ g.route = "from" /\ g.candidate = "none"
  BY SMTT(60), <1>7 DEF closedGateway, GateFields
<1>9. DOMAIN gateway = PlannedEnvs /\ \A e \in PlannedEnvs : gateway[e] = g
  BY <1>6, <1>7
<1>10. 1 \in 1..5
  BY SMTT(60)
<1>11. BatchShape
  BY <1>3, <1>5, <1>8, <1>9, <1>10, Steps DEF BatchShape
<1>12. "idle" \notin ReadySteps /\ "idle" \notin LiveSteps
  BY DEF ReadySteps, LiveSteps
<1>13. GatesFit
  BY <1>5, <1>8, <1>9, <1>12 DEF GatesFit, GateFits
<1> QED BY <1>3, <1>5, <1>8, <1>9, <1>11, <1>13 DEF noRouteOfOperation

LEMMA SecretStarts ==
  ASSUME SecretTxInit
  PROVE  SecretAccount
<1>1. BatchShape /\ GatesFit /\ noRouteOfOperation /\ apply.at = "idle" /\ ledger.phase = "none"
  BY BatchStarts DEF SecretTxInit
<1>2. keychain = "base" /\ DOMAIN secretPlan = {"exists", "action", "live"}
  BY NoSecretPlan DEF SecretTxInit
<1>3. "idle" \notin ProviderSteps /\ "idle" \notin PlainSteps /\ "idle" \notin ResetSteps
        /\ "idle" \in SecretOutside
  BY DEF ProviderSteps, PlainSteps, ResetSteps, SecretOutside
<1> QED BY <1>1, <1>2, <1>3 DEF SecretAccount, SecretFits, RoutesFit

\* The account of a secret operation holds: the keychain has the operation's
\* generation only while its provider call is recorded as running or done, and
\* a gateway has its route only inside the batch or after the provider call
\* succeeded (applyWithLiveNetworkTransitions).
THEOREM SecretAccountHolds == SecretTxSpec => []SecretAccount
<1>1. SecretTxInit => SecretAccount
  BY SecretStarts
<1>2. SecretAccount /\ [SecretTxNext]_secretTxVars => SecretAccount'
  BY SecretStep
<1> QED BY <1>1, <1>2, PTL DEF SecretTxSpec

\* What the terminal record of a secret operation says is so when it is written,
\* for any number of environments, faults, crashes and concurrent changes
\* (finishFailedLiveSecretTransition, Terminal and the recovery after a restart).
THEOREM SecretOutcomesStayTrue == SecretTxSpec => SecretOutcomeIsTrue
<1>1. SecretTxInit => SecretAccount
  BY SecretStarts
<1>2. SecretAccount /\ [SecretTxNext]_secretTxVars => SecretAccount'
  BY SecretStep
<1>3. SecretAccount /\ [SecretTxNext]_secretTxVars => [SecretTrue]_secretTxVars
  BY SecretStep
<1>4. SecretTxSpec => [][SecretTrue]_secretTxVars
  BY <1>1, <1>2, <1>3, PTL DEF SecretTxSpec
<1> QED BY <1>4, PTL DEF SecretOutcomeIsTrue, SecretTrue

-----------------------------------------------------------------------------
(* The profile.                                                             *)

\* The first effect of the batch.
FirstEffect == <<1, "stage">>
persistEffect == ledger.effect[OwnerEffect]

ProfileOutside == {"idle", "reserve", "startup", "started"}
ProfileEarly == ProfileOutside \cup {"classify", "begin"}
BatchEntry == {"network", "observe", "sync"} \cup LiveSteps
Withdrawing == {"observe", "restore", "restored", "unrestored", "roll-back", "unproved", "fail"}

\* What the record and the file are at a step of the apply call.
ProfileFits(at, phase, owner, file) ==
  /\ at \notin ProfileOutside => phase # "none"
  /\ at \notin ProfileEarly => phase # "planned"
  /\ at = "reserve" => phase = "none"
  /\ phase = "planned" => owner = "pending"
  /\ at = "save" => owner = "running"
  /\ at \in {"prove", "network", "observe"} \cup LiveSteps => owner = "succeeded"
  /\ at \in BatchEntry \cup {"succeed"} => file \in {"target", "edited"}
  /\ at \in {"restored", "roll-back"} => file \in {"base", "edited"}

\* The batch has started its first effect.
BatchStarted ==
  /\ ledger.phase # "none" /\ persistEffect = "succeeded"
  /\ FirstEffect \in DOMAIN ledger.effect /\ ledger.effect[FirstEffect] # "pending"

\* What the gateways are then.
TransitionsFit ==
  /\ apply.at \notin LiveSteps => noRouteOfOperation \/ BatchStarted
  /\ apply.at \in Withdrawing => noRouteOfOperation
  /\ apply.at = "sync" /\ apply.outcome # "succeeded" => noRouteOfOperation
  /\ apply.at = "sync" /\ apply.outcome = "succeeded" => routesOfOperation
  /\ apply.at = "succeed" /\ planned.network => routesOfOperation
  /\ apply.at \in BatchEntry => FirstEffect \in DOMAIN ledger.effect
  /\ apply.at \in ReadySteps \cup {"run"} => ledger.effect[FirstEffect] # "pending"
  /\ apply.at = "before" /\ (apply.phase > 1 \/ apply.env > 1) => ledger.effect[FirstEffect] # "pending"

ProfileAccount ==
  /\ BatchShape /\ GatesFit
  /\ DOMAIN profile = {"file", "revision", "known"}
  /\ ledger.phase # "none" => OwnerEffect \in DOMAIN ledger.effect
  /\ ledger.phase # "none" /\ planned.network => FirstEffect \in DOMAIN ledger.effect
  /\ ProfileFits(apply.at, ledger.phase, persistEffect, profile.file)
  /\ TransitionsFit

ProfileFields == {"file", "revision", "known"}

\* What ConfigurationOutcomeIsTrue says of one step.
ProfileTrue ==
  Terminal(ledger') /\ ~Terminal(ledger) =>
    /\ noOpenChange
    /\ ledger'.phase = "succeeded" =>
         /\ profile.file \in {"target", "edited"}
         /\ planned.network => routesOfOperation
    /\ ledger'.phase = "rolled-back" => profile.file \in {"base", "edited"}
    /\ ledger'.phase \in {"rolled-back", "failed", "cancelled"} => noRouteOfOperation

LEMMA ProfileStaysOpen ==
  ASSUME NEW owner, Follows(ledger', owner)
  PROVE  ProfileTrue
  BY DEF Follows, OpenPhases, Terminal, TerminalPhases, ProfileTrue

LEMMA ProfileUntouched ==
  ASSUME UNCHANGED ledger
  PROVE  ProfileTrue
  BY DEF ProfileTrue

LEMMA Loaded ==
  ASSUME NEW p, DOMAIN p = ProfileFields
  PROVE  DOMAIN loadOrAdvanceRevision(p) = ProfileFields /\ loadOrAdvanceRevision(p).file = p.file
<1>1. PICK r, k : loadOrAdvanceRevision(p) \in {p, [p EXCEPT !.revision = r, !.known = k]}
  BY DEF loadOrAdvanceRevision
<1>2. DOMAIN [p EXCEPT !.revision = r, !.known = k] = ProfileFields
        /\ [p EXCEPT !.revision = r, !.known = k].file = p.file
  BY SMTT(60) DEF ProfileFields
<1> QED BY <1>1, <1>2

LEMMA NoRecord ==
  noPlanRecord.network = FALSE
  BY SMTT(60) DEF noPlanRecord

LEMMA FirstApart ==
  /\ FirstEffect \in networkEffects /\ FirstEffect # OwnerEffect
  /\ BatchShape => (currentEffect = FirstEffect \/ apply.phase > 1 \/ apply.env > 1)
<1>1. FirstEffect # OwnerEffect
  BY SMTT(60) DEF FirstEffect, OwnerEffect
<1>2. FirstEffect \in networkEffects
  <2>1. 1 \in PlannedEnvs
    BY Steps
  <2>2. "stage" \in {EffectPhases[k] : k \in 1..5}
    <3>1. 1 \in 1..5 /\ EffectPhases[1] = "stage"
      BY SMTT(60) DEF EffectPhases
    <3> QED BY <3>1
  <2> QED BY SMTT(60), <2>1, <2>2 DEF FirstEffect, networkEffects
<1>3. ASSUME BatchShape PROVE currentEffect = FirstEffect \/ apply.phase > 1 \/ apply.env > 1
  <2>1. apply.env \in Nat /\ 1 <= apply.env /\ apply.phase \in 1..5
    BY <1>3, Steps DEF BatchShape
  <2>2. CASE apply.env = 1 /\ apply.phase = 1
    BY SMTT(60), <2>2 DEF currentEffect, FirstEffect, EffectPhases
  <2>3. CASE ~(apply.env = 1 /\ apply.phase = 1)
    BY SMTT(60), <2>1, <2>3
  <2> QED BY <2>2, <2>3
<1> QED BY <1>1, <1>2, <1>3

\* A later version of a reserved record, open or not.
Heir(op, owner) ==
  /\ DOMAIN op = LedgerFields /\ DOMAIN op.effect = DOMAIN ledger.effect
  /\ op.effect[OwnerEffect] = owner
  /\ \A f \in DOMAIN ledger.effect : op.effect[f] = "pending" => ledger.effect[f] = "pending"
  /\ op.phase # "none"

\* A step of a reserved operation outside the batch.
LEMMA ProfileKept ==
  ASSUME ProfileAccount, ledger.phase # "none",
         NEW to, NEW out, ApplyAt(to, out), MayMove(apply.at, to), UNCHANGED gateway,
         planned' \in {planned, noPlanRecord}, DOMAIN profile' = ProfileFields,
         NEW owner, Heir(ledger', owner), NEW file, profile'.file = file,
         ledger'.phase = "planned" => owner = "pending" /\ to \in ProfileEarly,
         persistEffect = "succeeded" => owner = "succeeded" \/ noRouteOfOperation,
         to \notin {"reserve", "sync"},
         to = "save" => owner = "running",
         to \in {"prove", "network", "observe"} \cup LiveSteps => owner = "succeeded",
         to \in BatchEntry \cup {"succeed"} => file \in {"target", "edited"},
         to \in {"restored", "roll-back"} => file \in {"base", "edited"},
         to \in Withdrawing => noRouteOfOperation,
         to = "succeed" /\ planned.network => routesOfOperation,
         to \in BatchEntry => FirstEffect \in DOMAIN ledger.effect
  PROVE  ProfileAccount'
<1>1. /\ BatchShape /\ GatesFit /\ TransitionsFit /\ OwnerEffect \in DOMAIN ledger.effect
      /\ planned.network => FirstEffect \in DOMAIN ledger.effect
  BY DEF ProfileAccount
<1>2. /\ DOMAIN ledger' = LedgerFields /\ DOMAIN ledger'.effect = DOMAIN ledger.effect
           /\ ledger'.phase # "none"
      /\ ledger'.effect[OwnerEffect] = owner
      /\ FirstEffect \in DOMAIN ledger.effect
           /\ ledger.effect[FirstEffect] # "pending" => ledger'.effect[FirstEffect] # "pending"
  BY DEF Heir
<1>3. GatesFit' /\ BatchShape'
  BY <1>1, <1>2, GatesMove
<1>4. apply'.at = to /\ apply'.outcome = out
  BY DEF ApplyAt
<1>5. planned'.network => planned.network
  BY NoRecord
<1>6. (noRouteOfOperation => noRouteOfOperation') /\ (routesOfOperation => routesOfOperation')
  BY DEF noRouteOfOperation, routesOfOperation
<1>7. ProfileFits(apply'.at, ledger'.phase, persistEffect', profile'.file)
  BY <1>2, <1>4 DEF ProfileFits, persistEffect
<1>8. to \notin {"before", "run"} /\ (to \notin LiveSteps => apply.at \notin LiveSteps)
      /\ (to \in ReadySteps => apply.at \in ReadySteps /\ apply.at \in BatchEntry)
  BY DEF MayMove, LiveSteps, ReadySteps, BatchEntry
<1>9. to \in ReadySteps => ledger'.effect[FirstEffect] # "pending"
  BY <1>1, <1>2, <1>8 DEF TransitionsFit
<1>10. to \notin LiveSteps => noRouteOfOperation' \/ BatchStarted'
  BY <1>1, <1>2, <1>6, <1>8 DEF TransitionsFit, BatchStarted, persistEffect
<1>11. TransitionsFit'
  BY <1>2, <1>4, <1>5, <1>6, <1>8, <1>9, <1>10 DEF TransitionsFit
<1> QED BY <1>1, <1>2, <1>3, <1>5, <1>7, <1>11 DEF ProfileAccount, ProfileFits, ProfileFields

LEMMA ProfileMoves ==
  ASSUME ProfileAccount, ledger.phase # "none",
         NEW to, goApply(to), MayMove(apply.at, to), UNCHANGED gateway,
         planned' \in {planned, noPlanRecord}, DOMAIN profile' = ProfileFields,
         NEW owner, Follows(ledger', owner), NEW file, profile'.file = file,
         ledger'.phase = "planned" => owner = "pending" /\ to \in ProfileEarly,
         persistEffect = "succeeded" => owner = "succeeded" \/ noRouteOfOperation,
         to \notin {"reserve", "sync"},
         to = "save" => owner = "running",
         to \in {"prove", "network", "observe"} \cup LiveSteps => owner = "succeeded",
         to \in BatchEntry \cup {"succeed"} => file \in {"target", "edited"},
         to \in {"restored", "roll-back"} => file \in {"base", "edited"},
         to \in Withdrawing => noRouteOfOperation,
         to = "succeed" /\ planned.network => routesOfOperation,
         to \in BatchEntry => FirstEffect \in DOMAIN ledger.effect
  PROVE  ProfileAccount' /\ ProfileTrue
<1>1. Heir(ledger', owner)
  BY DEF Heir, Follows, OpenPhases
<1>2. ApplyAt(to, apply.outcome)
  BY Goes DEF ProfileAccount
<1> QED BY <1>1, <1>2, ProfileKept, ProfileStaysOpen

\* The call returns.
LEMMA ProfileReturns ==
  ASSUME ProfileAccount, ledger.phase # "none", apply.at \notin LiveSteps, applyReturns,
         UNCHANGED gateway,
         planned' \in {planned, noPlanRecord}, DOMAIN profile' = ProfileFields,
         NEW owner, Follows(ledger', owner),
         ledger'.phase = "planned" => owner = "pending",
         persistEffect = "succeeded" => owner = "succeeded" \/ noRouteOfOperation
  PROVE  ProfileAccount' /\ ProfileTrue
<1>1. PICK to \in {"started", "idle"} : goApply(to)
  BY DEF applyReturns
<1>2. MayMove(apply.at, to)
  BY DEF MayMove, LiveSteps, ReadySteps, FreshSteps
<1>3. /\ to \notin {"reserve", "sync", "save", "succeed", "restored", "roll-back"}
      /\ to \notin {"prove", "network", "observe"} \cup LiveSteps /\ to \notin BatchEntry \cup {"succeed"}
      /\ to \notin Withdrawing /\ to \in ProfileEarly /\ to \notin BatchEntry
  BY DEF LiveSteps, ReadySteps, BatchEntry, Withdrawing, ProfileEarly, ProfileOutside
<1>4. PICK file : profile'.file = file
  OBVIOUS
<1> QED BY <1>1, <1>2, <1>3, <1>4, ProfileMoves

LEMMA ProfileHere ==
  ASSUME ProfileAccount, apply.at \notin ProfileOutside
  PROVE  /\ ledger.phase # "none" /\ OwnerEffect \in DOMAIN ledger.effect /\ BatchShape /\ GatesFit
         /\ DOMAIN profile = ProfileFields /\ Follows(ledger, persistEffect)
         /\ ledger.phase = "planned" => persistEffect = "pending"
         /\ apply.at \notin ProfileEarly => ledger.phase # "planned"
         /\ apply.at \notin LiveSteps /\ persistEffect # "succeeded" => noRouteOfOperation
         /\ planned.network => FirstEffect \in DOMAIN ledger.effect
  BY FollowsItself DEF ProfileAccount, ProfileFits, TransitionsFit, BatchStarted, persistEffect,
     ProfileFields

LEMMA NotPlanned ==
  ASSUME NEW op, NEW owner, Follows(op, owner), ledger.phase # "planned"
  PROVE  op.phase # "planned"
  BY DEF Follows, OpenPhases

LEMMA PlannedItself ==
  ASSUME ProfileAccount, NEW op, NEW owner, Follows(op, owner), op.phase = "planned"
  PROVE  persistEffect = "pending" /\ ledger.phase = "planned"
<1>1. ledger.phase = "planned"
  BY NotPlanned
<1> QED BY <1>1 DEF ProfileAccount, ProfileFits

LEMMA CancelProfileKeeps ==
  ASSUME ProfileAccount, apply.at \notin LiveSteps, ledger.phase = "planned",
         ledger' = transitioned(ledger, "cancelled"), planned' = noPlanRecord,
         DOMAIN profile' = ProfileFields,
         UNCHANGED gateway, NEW to \in {"idle", "started"}, ApplyAt(to, apply.outcome)
  PROVE  ProfileAccount' /\ ProfileTrue
<1>1. /\ BatchShape /\ GatesFit /\ persistEffect = "pending" /\ OwnerEffect \in DOMAIN ledger.effect
           /\ noRouteOfOperation
  BY DEF ProfileAccount, ProfileFits, TransitionsFit, BatchStarted
<1>2. DOMAIN ledger' = LedgerFields /\ ledger'.phase = "cancelled" /\ ledger'.effect = ledger.effect
  BY <1>1, TransitionedRecord DEF BatchShape
<1>3. Heir(ledger', "pending")
  BY <1>1, <1>2 DEF Heir, persistEffect
<1>4. MayMove(apply.at, to)
  BY DEF MayMove, LiveSteps, ReadySteps, FreshSteps
<1>5. /\ to \notin {"reserve", "sync", "save", "succeed", "restored", "roll-back"}
      /\ to \notin {"prove", "network", "observe"} \cup LiveSteps /\ to \notin BatchEntry \cup {"succeed"}
      /\ to \notin Withdrawing /\ to \notin BatchEntry
  BY DEF LiveSteps, ReadySteps, BatchEntry, Withdrawing
<1>6. PICK file : profile'.file = file
  OBVIOUS
<1>7. ledger.phase # "none" /\ ledger'.phase # "planned" /\ persistEffect # "succeeded"
  BY <1>1, <1>2
<1>8. ProfileAccount'
  BY <1>3, <1>4, <1>5, <1>6, <1>7, ProfileKept
<1>9. noOpenChange
  BY <1>1, NoneOpen
<1>10. ProfileTrue
  BY <1>1, <1>2, <1>9 DEF ProfileTrue
<1> QED BY <1>8, <1>10

LEMMA ClassifyProfileKeeps ==
  ASSUME ProfileAccount, ClassifyProfile
  PROVE  ProfileAccount' /\ ProfileTrue
<1>1. apply.at = "classify" /\ profile' = loadOrAdvanceRevision(profile) /\ UNCHANGED gateway
  BY DEF ClassifyProfile
<1>2. apply.at \notin LiveSteps /\ apply.at \notin ProfileOutside
  BY <1>1 DEF LiveSteps, ReadySteps, ProfileOutside
<1>3. /\ ledger.phase # "none" /\ BatchShape /\ DOMAIN profile = ProfileFields
           /\ Follows(ledger, persistEffect)
      /\ ledger.phase = "planned" => persistEffect = "pending"
  BY <1>2, ProfileHere
<1>4. DOMAIN profile' = ProfileFields
  BY <1>1, <1>3, Loaded
<1>5. CASE goApply("begin") /\ UNCHANGED <<ledger, planned>>
  <2>1. PICK to : to = "begin"
    OBVIOUS
  <2>2. MayMove(apply.at, to)
    BY <1>1, <2>1 DEF MayMove, LiveSteps, ReadySteps, FreshSteps
  <2>3. /\ to \notin {"reserve", "sync", "save", "succeed", "restored", "roll-back"}
        /\ to \notin {"prove", "network", "observe"} \cup LiveSteps
             /\ to \notin BatchEntry \cup {"succeed"}
        /\ to \notin Withdrawing /\ to \in ProfileEarly /\ to \notin BatchEntry
    BY <2>1 DEF LiveSteps, ReadySteps, BatchEntry, Withdrawing, ProfileEarly, ProfileOutside
  <2>4. PICK file : profile'.file = file
    OBVIOUS
  <2>5. goApply(to) /\ Follows(ledger', persistEffect) /\ planned' \in {planned, noPlanRecord}
    BY <1>3, <1>5, <2>1
  <2> QED BY <1>1, <1>3, <1>4, <1>5, <2>2, <2>3, <2>4, <2>5, ProfileMoves
<1>6. CASE cancelPlannedOperation /\ applyReturns
  <2>1. CASE ledger.phase = "planned"
    <3>1. ledger' = transitioned(ledger, "cancelled") /\ planned' = noPlanRecord
      BY <1>6, <2>1 DEF cancelPlannedOperation
    <3>2. PICK to \in {"started", "idle"} : ApplyAt(to, apply.outcome)
      BY <1>3, <1>6, Returns
    <3> QED BY <1>1, <1>2, <1>4, <2>1, <3>1, <3>2, CancelProfileKeeps
  <2>2. CASE ledger.phase # "planned"
    <3>1. UNCHANGED <<ledger, planned>>
      BY <1>6, <2>2 DEF cancelPlannedOperation
    <3> QED BY <1>1, <1>2, <1>3, <1>4, <1>6, <3>1, ProfileReturns
  <2> QED BY <2>1, <2>2
<1>7. CASE ledger' = requireRecovery(ledger) /\ applyReturns /\ UNCHANGED planned
  <2>1. Follows(ledger', persistEffect)
    BY <1>3, <1>7, FollowsRequired
  <2>2. ledger'.phase = "planned" => persistEffect = "pending"
    BY <2>1, PlannedItself
  <2> QED BY <1>1, <1>2, <1>3, <1>4, <1>7, <2>1, <2>2, ProfileReturns
<1> QED BY <1>5, <1>6, <1>7 DEF ClassifyProfile

LEMMA BeginPersistKeeps ==
  ASSUME ProfileAccount, BeginPersist
  PROVE  ProfileAccount' /\ ProfileTrue
<1>o. PICK op : op = staged(ledger)
  OBVIOUS
<1>1. apply.at = "begin" /\ UNCHANGED <<gateway, profile, planned>>
  BY DEF BeginPersist, profileVars
<1>2. apply.at \notin LiveSteps /\ apply.at \notin ProfileOutside
  BY <1>1 DEF LiveSteps, ReadySteps, ProfileOutside
<1>3. /\ ledger.phase # "none" /\ BatchShape /\ DOMAIN profile' = ProfileFields
           /\ Follows(ledger, persistEffect)
      /\ OwnerEffect \in DOMAIN ledger.effect /\ planned' \in {planned, noPlanRecord}
  BY <1>1, <1>2, ProfileHere
<1>4. Follows(op, persistEffect) /\ op.phase # "planned"
        /\ Follows(transitioned(ledger, "claimed"), persistEffect)
  <2>1. {"staging", "claimed"} \subseteq OpenPhases
    BY DEF OpenPhases
  <2>2. /\ Follows(transitioned(ledger, "staging"), persistEffect)
        /\ Follows(transitioned(ledger, "claimed"), persistEffect)
    BY <1>3, <2>1, FollowsTransition
  <2>3. transitioned(ledger, "staging").phase = "staging"
    BY <1>3, TransitionedRecord DEF BatchShape
  <2> QED BY <1>3, <1>o, <2>2, <2>3 DEF staged
<1>5. op.effect[OwnerEffect] = persistEffect /\ DOMAIN op = LedgerFields
  BY <1>4 DEF Follows
<1>6. ASSUME Follows(ledger', persistEffect), applyReturns
      PROVE  ProfileAccount' /\ ProfileTrue
  <2>1. ledger'.phase = "planned" => persistEffect = "pending"
    BY <1>6, PlannedItself
  <2> QED BY <1>1, <1>2, <1>3, <1>6, <2>1, ProfileReturns
<1>7. ASSUME NEW to \in {"save", "prove"}, goApply(to), NEW owner, Follows(ledger', owner),
             ledger'.phase # "planned",
             to = "save" => owner = "running" /\ persistEffect = "pending",
             to = "prove" => owner = "succeeded"
      PROVE  ProfileAccount' /\ ProfileTrue
  <2>1. MayMove(apply.at, to)
    BY <1>1 DEF MayMove, LiveSteps, ReadySteps, FreshSteps
  <2>2. /\ to \notin {"reserve", "sync", "succeed", "restored", "roll-back"}
        /\ "save" \notin {"prove", "network", "observe"} \cup LiveSteps
             /\ to \notin BatchEntry \cup {"succeed"}
        /\ to \notin Withdrawing /\ to \notin BatchEntry
    BY DEF LiveSteps, ReadySteps, BatchEntry, Withdrawing
  <2>3. PICK file : profile'.file = file
    OBVIOUS
  <2>4. persistEffect = "succeeded" => owner = "succeeded"
    BY <1>7
  <2>5. to \in {"prove", "network", "observe"} \cup LiveSteps => owner = "succeeded"
    BY <1>7, <2>2
  <2> QED BY <1>1, <1>3, <1>7, <2>1, <2>2, <2>3, <2>4, <2>5, ProfileMoves
<1>8. CASE ledger' \in {ledger, transitioned(ledger, "claimed"), op} /\ applyReturns
  BY <1>3, <1>4, <1>6, <1>8
<1>9. CASE executes(op, OwnerEffect) /\ ledger' = begun(op, OwnerEffect) /\ goApply("save")
  <2>1. Follows(ledger', "running")
    BY <1>3, <1>4, <1>9, FollowsBegun
  <2>2. ledger'.phase # "planned"
    BY <1>4, <1>5, <1>9, BegunRecord
  <2>3. persistEffect = "pending"
    BY <1>5, <1>9 DEF executes
  <2> QED BY <1>7, <1>9, <2>1, <2>2, <2>3
<1>10. CASE ledger' = finished(op, OwnerEffect, "succeeded") /\ goApply("prove")
  <2>1. Follows(ledger', "succeeded")
    BY <1>3, <1>4, <1>10, FollowsFinished
  <2>2. ledger'.phase # "planned"
    BY SMTT(60), <1>4, <1>5, <1>10 DEF finished, LedgerFields
  <2> QED BY <1>7, <1>10, <2>1, <2>2
<1>11. CASE op.effect[OwnerEffect] = "succeeded" /\ ledger' = op /\ goApply("prove")
  BY <1>4, <1>5, <1>7, <1>11
<1>12. CASE ledger' = requireRecovery(op) /\ applyReturns
  BY <1>4, <1>6, <1>12, FollowsRequired
<1> QED BY <1>8, <1>9, <1>10, <1>11, <1>12, <1>o DEF BeginPersist

LEMMA PersistProfileKeeps ==
  ASSUME ProfileAccount, PersistProfile
  PROVE  ProfileAccount' /\ ProfileTrue
<1>1. apply.at = "save" /\ UNCHANGED <<gateway, planned>>
  BY DEF PersistProfile
<1>2. apply.at \notin LiveSteps /\ apply.at \notin ProfileOutside /\ apply.at \notin ProfileEarly
  BY <1>1 DEF LiveSteps, ReadySteps, ProfileOutside, ProfileEarly
<1>3. /\ ledger.phase # "none" /\ BatchShape /\ DOMAIN profile = ProfileFields
           /\ Follows(ledger, persistEffect)
      /\ OwnerEffect \in DOMAIN ledger.effect /\ planned' \in {planned, noPlanRecord}
           /\ ledger.phase # "planned"
  BY <1>1, <1>2, ProfileHere
<1>4. persistEffect = "running"
  BY <1>1 DEF ProfileAccount, ProfileFits
<1>5. noRouteOfOperation
  BY <1>2, <1>4, ProfileHere
<1>6. ASSUME NEW to \in {"saved", "fail"}, goApply(to), NEW owner, Follows(ledger', owner),
             DOMAIN profile' = ProfileFields
      PROVE  ProfileAccount' /\ ProfileTrue
  <2>1. MayMove(apply.at, to)
    BY <1>1 DEF MayMove, LiveSteps, ReadySteps, FreshSteps
  <2>2. /\ to \notin {"reserve", "sync", "save", "succeed", "restored", "roll-back"}
        /\ to \notin {"prove", "network", "observe"} \cup LiveSteps
             /\ to \notin BatchEntry \cup {"succeed"}
        /\ to \notin BatchEntry
    BY DEF LiveSteps, ReadySteps, BatchEntry
  <2>3. PICK file : profile'.file = file
    OBVIOUS
  <2>4. ledger'.phase # "planned"
    BY <1>3, <1>6, NotPlanned
  <2> QED BY <1>1, <1>3, <1>5, <1>6, <2>1, <2>2, <2>3, <2>4, ProfileMoves
<1>7. CASE profile' = [profile EXCEPT !.file = "target"] /\ goApply("saved") /\ UNCHANGED ledger
  <2>1. DOMAIN profile' = ProfileFields
    BY <1>3, <1>7
  <2> QED BY <1>3, <1>6, <1>7, <2>1
<1>8. CASE ledger' = finished(ledger, OwnerEffect, "failed") /\ goApply("fail") /\ UNCHANGED profile
  <2>1. Follows(ledger', "failed")
    BY <1>3, <1>8, FollowsFinished
  <2> QED BY <1>3, <1>6, <1>8, <2>1
<1> QED BY <1>7, <1>8 DEF PersistProfile

LEMMA FinishPersistKeeps ==
  ASSUME ProfileAccount, FinishPersist
  PROVE  ProfileAccount' /\ ProfileTrue
<1>1. apply.at = "saved" /\ UNCHANGED <<gateway, profile, planned>>
  BY DEF FinishPersist, profileVars
<1>2. apply.at \notin LiveSteps /\ apply.at \notin ProfileOutside /\ apply.at \notin ProfileEarly
  BY <1>1 DEF LiveSteps, ReadySteps, ProfileOutside, ProfileEarly
<1>3. /\ ledger.phase # "none" /\ DOMAIN profile' = ProfileFields /\ Follows(ledger, persistEffect)
      /\ OwnerEffect \in DOMAIN ledger.effect /\ planned' \in {planned, noPlanRecord}
           /\ ledger.phase # "planned"
  BY <1>1, <1>2, ProfileHere
<1>4. CASE UNCHANGED ledger /\ applyReturns
  BY <1>1, <1>2, <1>3, <1>4, ProfileReturns
<1>5. CASE ledger' = finished(ledger, OwnerEffect, "succeeded") /\ goApply("prove")
  <2>1. PICK to : to = "prove"
    OBVIOUS
  <2>2. MayMove(apply.at, to)
    BY <1>1, <2>1 DEF MayMove, LiveSteps, ReadySteps, FreshSteps
  <2>3. /\ to \notin {"reserve", "sync", "save", "succeed", "restored", "roll-back"}
        /\ to \notin BatchEntry \cup {"succeed"} /\ to \notin BatchEntry /\ to \notin Withdrawing
    BY <2>1 DEF LiveSteps, ReadySteps, BatchEntry, Withdrawing
  <2>4. PICK file : profile'.file = file
    OBVIOUS
  <2>5. Follows(ledger', "succeeded")
    BY <1>3, <1>5, FollowsFinished
  <2>6. ledger'.phase # "planned"
    BY <1>3, <2>5, NotPlanned
  <2>7. goApply(to)
    BY <1>5, <2>1
  <2> QED BY <1>1, <1>3, <2>2, <2>3, <2>4, <2>5, <2>6, <2>7, ProfileMoves
<1> QED BY <1>4, <1>5 DEF FinishPersist

LEMMA ProvePersistedKeeps ==
  ASSUME ProfileAccount, ProvePersisted
  PROVE  ProfileAccount' /\ ProfileTrue
<1>o. PICK op : op = IF ledger.phase = "staging" THEN transitioned(ledger, "proving") ELSE ledger
  OBVIOUS
<1>p. PICK p : p = loadOrAdvanceRevision(profile)
  OBVIOUS
<1>1. apply.at = "prove" /\ UNCHANGED <<gateway, planned>> /\ profile' = p
  BY <1>p DEF ProvePersisted
<1>2. apply.at \notin LiveSteps /\ apply.at \notin ProfileOutside /\ apply.at \notin ProfileEarly
  BY <1>1 DEF LiveSteps, ReadySteps, ProfileOutside, ProfileEarly
<1>3. /\ ledger.phase # "none" /\ DOMAIN profile = ProfileFields /\ Follows(ledger, persistEffect)
      /\ planned' \in {planned, noPlanRecord} /\ ledger.phase # "planned"
      /\ planned.network => FirstEffect \in DOMAIN ledger.effect
  BY <1>1, <1>2, ProfileHere
<1>4. DOMAIN profile' = ProfileFields
  BY <1>1, <1>3, <1>p, Loaded
<1>5. persistEffect = "succeeded"
  BY <1>1 DEF ProfileAccount, ProfileFits
<1>6. Follows(op, "succeeded")
  <2>1. "proving" \in OpenPhases
    BY DEF OpenPhases
  <2> QED BY <1>3, <1>5, <1>o, <2>1, FollowsTransition
<1>7. CASE targetCommitted(p) /\ ledger' = op /\ goApply(IF planned.network THEN "network" ELSE "succeed")
  <2>1. PICK to : to = IF planned.network THEN "network" ELSE "succeed"
    OBVIOUS
  <2>2. to \in {"network", "succeed"} /\ (to = "network" => planned.network)
          /\ (to = "succeed" => ~planned.network)
    BY <2>1
  <2>3. MayMove(apply.at, to)
    BY <1>1, <2>2 DEF MayMove, LiveSteps, ReadySteps, FreshSteps
  <2>4. /\ to \notin {"reserve", "sync", "save", "restored", "roll-back"} /\ to \notin Withdrawing
        /\ to \in BatchEntry => to = "network"
    BY <2>2 DEF LiveSteps, ReadySteps, BatchEntry, Withdrawing
  <2>5. profile'.file = "target"
    BY <1>1, <1>7 DEF targetCommitted
  <2>6. ledger'.phase # "planned" /\ Follows(ledger', "succeeded")
    BY <1>3, <1>6, <1>7, NotPlanned
  <2>7. goApply(to)
    BY <1>7, <2>1
  <2> QED BY <1>1, <1>3, <1>4, <2>2, <2>3, <2>4, <2>5, <2>6, <2>7, ProfileMoves
<1>8. CASE ledger' = requireRecovery(op) /\ applyReturns
  <2>1. Follows(ledger', "succeeded")
    BY <1>6, <1>8, FollowsRequired
  <2>2. ledger'.phase # "planned"
    BY <1>3, <2>1, NotPlanned
  <2> QED BY <1>1, <1>2, <1>3, <1>4, <1>8, <2>1, <2>2, ProfileReturns
<1> QED BY <1>7, <1>8, <1>o, <1>p DEF ProvePersisted

LEMMA StartTransitionsKeeps ==
  ASSUME ProfileAccount, StartTransitions
  PROVE  ProfileAccount' /\ ProfileTrue
<1>s. PICK status : status = {ledger.effect[f] : f \in networkEffects}
  OBVIOUS
<1>1. apply.at = "network" /\ UNCHANGED <<gateway, profile, planned>>
  BY DEF StartTransitions, profileVars
<1>2. /\ apply.at \notin LiveSteps /\ apply.at \notin ProfileOutside /\ apply.at \notin ProfileEarly
      /\ apply.at \in BatchEntry
  BY <1>1 DEF LiveSteps, ReadySteps, ProfileOutside, ProfileEarly, BatchEntry
<1>3. /\ ledger.phase # "none" /\ DOMAIN profile' = ProfileFields /\ Follows(ledger, persistEffect)
      /\ planned' \in {planned, noPlanRecord} /\ ledger.phase # "planned"
  BY <1>1, <1>2, ProfileHere
<1>4. persistEffect = "succeeded" /\ profile'.file \in {"target", "edited"}
        /\ FirstEffect \in DOMAIN ledger.effect
  BY <1>1, <1>2 DEF ProfileAccount, ProfileFits, TransitionsFit
<1>5. status = {"pending"} => noRouteOfOperation
  <2>1. ledger.effect[FirstEffect] \in status
    BY <1>s, FirstApart
  <2> QED BY <1>2, <2>1 DEF ProfileAccount, TransitionsFit, BatchStarted
<1>6. ASSUME NEW to \in {"observe", "succeed"}, goApply(to), UNCHANGED ledger,
             to = "observe" => noRouteOfOperation, to = "succeed" => routesOfOperation
      PROVE  ProfileAccount' /\ ProfileTrue
  <2>1. MayMove(apply.at, to)
    BY <1>1 DEF MayMove, LiveSteps, ReadySteps, FreshSteps
  <2>2. /\ to \notin {"reserve", "sync", "save", "restored", "roll-back"}
        /\ to \in Withdrawing => to = "observe"
    BY DEF Withdrawing
  <2>3. PICK file \in {"target", "edited"} : profile'.file = file
    BY <1>4
  <2>4. Follows(ledger', "succeeded") /\ ledger'.phase # "planned"
    BY <1>3, <1>4, <1>6
  <2> QED BY <1>1, <1>3, <1>4, <1>6, <2>1, <2>2, <2>3, <2>4, ProfileMoves
<1>7. CASE status = {"pending"} /\ goApply("observe") /\ UNCHANGED ledger
  BY <1>5, <1>6, <1>7
<1>8. CASE (\A e \in PlannedEnvs : gateway[e].route = "desired") /\ goApply("succeed") /\ UNCHANGED ledger
  <2>1. routesOfOperation
    BY <1>8 DEF routesOfOperation
  <2> QED BY <1>6, <1>8, <2>1
<1>9. CASE ledger' = requireRecovery(ledger) /\ applyReturns
  <2>1. Follows(ledger', persistEffect)
    BY <1>3, <1>9, FollowsRequired
  <2>2. ledger'.phase # "planned"
    BY <1>3, <2>1, NotPlanned
  <2> QED BY <1>1, <1>2, <1>3, <1>9, <2>1, <2>2, ProfileReturns
<1> QED BY <1>7, <1>8, <1>9, <1>s DEF StartTransitions

LEMMA ProfileHookKeeps ==
  ASSUME ProfileAccount, ProfileHook
  PROVE  ProfileAccount' /\ ProfileTrue
<1>1. apply.at = "hook" /\ goApply("commit") /\ UNCHANGED <<ledger, gateway, profile, planned>>
  BY DEF ProfileHook, profileVars
<1>2. /\ apply.at \in LiveSteps /\ apply.at \notin ProfileOutside /\ apply.at \notin ProfileEarly
      /\ apply.at \in BatchEntry
  BY <1>1 DEF LiveSteps, ReadySteps, ProfileOutside, ProfileEarly, BatchEntry
<1>3. /\ ledger.phase # "none" /\ DOMAIN profile' = ProfileFields /\ Follows(ledger, persistEffect)
      /\ planned' \in {planned, noPlanRecord} /\ ledger.phase # "planned"
  BY <1>1, <1>2, ProfileHere
<1>4. persistEffect = "succeeded" /\ profile'.file \in {"target", "edited"}
        /\ FirstEffect \in DOMAIN ledger.effect
  BY <1>1, <1>2 DEF ProfileAccount, ProfileFits, TransitionsFit
<1>5. PICK to : to = "commit"
  OBVIOUS
<1>6. MayMove(apply.at, to)
  BY <1>1, <1>5 DEF MayMove, LiveSteps, ReadySteps, FreshSteps
<1>7. to \notin {"reserve", "sync", "save", "succeed", "restored", "roll-back"} /\ to \notin Withdrawing
  BY <1>5 DEF Withdrawing
<1>8. PICK file \in {"target", "edited"} : profile'.file = file
  BY <1>4
<1>9. Follows(ledger', "succeeded") /\ ledger'.phase # "planned" /\ goApply(to)
  BY <1>1, <1>3, <1>4, <1>5
<1> QED BY <1>1, <1>3, <1>4, <1>6, <1>7, <1>8, <1>9, ProfileMoves

LEMMA SyncTransitionsKeeps ==
  ASSUME ProfileAccount, SyncTransitions
  PROVE  ProfileAccount' /\ ProfileTrue
<1>1. PICK at, failedAt :
        /\ \/ at = "succeed" /\ failedAt = "unsynced" /\ apply.outcome = "succeeded"
           \/ at = "restore" /\ failedAt = "restore" /\ apply.outcome # "succeeded"
        /\ SyncResults(at, failedAt)
  BY DEF SyncTransitions
<1>2. UNCHANGED <<profile, planned>> /\ apply.at = "sync"
  BY <1>1 DEF SyncTransitions, profileVars, SyncResults
<1>3. /\ apply.at \notin LiveSteps /\ apply.at \notin ProfileOutside /\ apply.at \notin ProfileEarly
      /\ apply.at \in BatchEntry
  BY <1>2 DEF LiveSteps, ReadySteps, ProfileOutside, ProfileEarly, BatchEntry
<1>4. /\ ledger.phase # "none" /\ DOMAIN profile' = ProfileFields /\ BatchShape
           /\ OwnerEffect \in DOMAIN ledger.effect
      /\ planned' \in {planned, noPlanRecord} /\ ledger.phase # "planned"
  BY <1>2, <1>3, ProfileHere
<1>5. /\ UNCHANGED gateway /\ LedgerKept
      /\ ApplyAt(at, apply.outcome) \/ ApplyAt(failedAt, apply.outcome)
  BY <1>1, <1>4, SyncFacts
<1>6. Follows(ledger', persistEffect)
  BY <1>5 DEF LedgerKept, Follows, persistEffect
<1>7. Heir(ledger', persistEffect)
  BY <1>4, <1>6 DEF Heir, Follows, OpenPhases
<1>8. profile'.file \in {"target", "edited"}
  BY <1>2, <1>3 DEF ProfileAccount, ProfileFits
<1>9. IF apply.outcome = "succeeded" THEN routesOfOperation ELSE noRouteOfOperation
  BY <1>2 DEF ProfileAccount, TransitionsFit
<1>10. PICK to : ApplyAt(to, apply.outcome) /\ to \in {at, failedAt}
  BY <1>5
<1>11. /\ to \in {"succeed", "unsynced", "restore"} /\ (to = "succeed" => routesOfOperation)
       /\ to = "restore" => noRouteOfOperation
  BY <1>1, <1>9, <1>10
<1>12. MayMove(apply.at, to)
  BY <1>2, <1>11 DEF MayMove, LiveSteps, ReadySteps, FreshSteps
<1>13. /\ to \notin {"reserve", "sync", "save", "restored", "roll-back"}
       /\ to \notin {"prove", "network", "observe"} \cup LiveSteps /\ to \notin BatchEntry
       /\ to \in Withdrawing => to = "restore"
  BY <1>11 DEF Withdrawing, BatchEntry, LiveSteps, ReadySteps
<1>14. PICK file \in {"target", "edited"} : profile'.file = file
  BY <1>8
<1>15. ledger'.phase # "planned"
  BY <1>4, <1>6, NotPlanned
<1>16. ProfileAccount'
  BY <1>4, <1>5, <1>7, <1>10, <1>11, <1>12, <1>13, <1>14, <1>15, ProfileKept
<1> QED BY <1>6, <1>16, ProfileStaysOpen

LEMMA UnsyncedTransitionsKeeps ==
  ASSUME ProfileAccount, UnsyncedTransitions
  PROVE  ProfileAccount' /\ ProfileTrue
<1>1. apply.at = "unsynced" /\ applyReturns /\ ledger' = requireRecovery(ledger)
        /\ UNCHANGED <<gateway, profile, planned>>
  BY DEF UnsyncedTransitions, profileVars
<1>2. apply.at \notin LiveSteps /\ apply.at \notin ProfileOutside /\ apply.at \notin ProfileEarly
  BY <1>1 DEF LiveSteps, ReadySteps, ProfileOutside, ProfileEarly
<1>3. /\ ledger.phase # "none" /\ DOMAIN profile' = ProfileFields /\ Follows(ledger, persistEffect)
      /\ planned' \in {planned, noPlanRecord} /\ ledger.phase # "planned"
  BY <1>1, <1>2, ProfileHere
<1>4. Follows(ledger', persistEffect)
  BY <1>1, <1>3, FollowsRequired
<1>5. ledger'.phase # "planned"
  BY <1>3, <1>4, NotPlanned
<1> QED BY <1>1, <1>2, <1>3, <1>4, <1>5, ProfileReturns

LEMMA RestoreProfileKeeps ==
  ASSUME ProfileAccount, RestoreProfile
  PROVE  ProfileAccount' /\ ProfileTrue
<1>1. apply.at = "restore" /\ UNCHANGED <<ledger, gateway, planned>>
  BY DEF RestoreProfile
<1>2. apply.at \notin LiveSteps /\ apply.at \notin ProfileOutside /\ apply.at \notin ProfileEarly
        /\ apply.at \in Withdrawing
  BY <1>1 DEF LiveSteps, ReadySteps, ProfileOutside, ProfileEarly, Withdrawing
<1>3. /\ ledger.phase # "none" /\ DOMAIN profile = ProfileFields /\ Follows(ledger, persistEffect)
      /\ planned' \in {planned, noPlanRecord} /\ ledger.phase # "planned"
  BY <1>1, <1>2, ProfileHere
<1>4. noRouteOfOperation
  BY <1>2 DEF ProfileAccount, TransitionsFit
<1>5. PICK to \in {"restored", "unrestored"} :
        goApply(to) /\ DOMAIN profile' = ProfileFields /\ (to = "restored" => profile'.file = "base")
  <2>1. PICK back : back = IF profile.file = "target" THEN IF planned.mixed THEN "partial" ELSE "base" ELSE "edited"
    OBVIOUS
  <2>2. CASE /\ profile' = loadOrAdvanceRevision([profile EXCEPT !.file = back])
             /\ goApply(IF back = "base" THEN "restored" ELSE "unrestored")
    <3>1. PICK p : p = [profile EXCEPT !.file = back]
      OBVIOUS
    <3>2. DOMAIN p = ProfileFields /\ p.file = back
      BY <1>3, <3>1 DEF ProfileFields
    <3>3. DOMAIN profile' = ProfileFields /\ profile'.file = back
      BY <2>2, <3>1, <3>2, Loaded
    <3>4. CASE back = "base"
      BY <2>2, <3>3, <3>4
    <3>5. CASE back # "base"
      BY <2>2, <3>3, <3>5
    <3> QED BY <3>4, <3>5
  <2>3. CASE UNCHANGED profile /\ goApply("unrestored")
    BY <1>3, <2>3
  <2> QED BY <2>1, <2>2, <2>3 DEF RestoreProfile
<1>6. MayMove(apply.at, to)
  BY <1>1 DEF MayMove, LiveSteps, ReadySteps, FreshSteps
<1>7. /\ to \notin {"reserve", "sync", "save", "succeed", "roll-back"}
      /\ to \notin {"prove", "network", "observe"} \cup LiveSteps /\ to \notin BatchEntry \cup {"succeed"}
      /\ to \notin BatchEntry
  BY DEF LiveSteps, ReadySteps, BatchEntry
<1>8. PICK file : profile'.file = file
  OBVIOUS
<1>9. Follows(ledger', persistEffect) /\ ledger'.phase # "planned" /\ (to = "restored" => file = "base")
  BY <1>1, <1>3, <1>5, <1>8
<1> QED BY <1>1, <1>3, <1>4, <1>5, <1>6, <1>7, <1>8, <1>9, ProfileMoves

LEMMA CheckpointRestoreKeeps ==
  ASSUME ProfileAccount, CheckpointRestore
  PROVE  ProfileAccount' /\ ProfileTrue
<1>s. PICK status : status = IF apply.at = "restored" THEN "rolled-back" ELSE "unproved"
  OBVIOUS
<1>o. PICK op : op = finished(ledger, OwnerEffect, status)
  OBVIOUS
<1>1. apply.at \in {"restored", "unrestored"} /\ UNCHANGED <<gateway, profile, planned>>
  BY DEF CheckpointRestore, profileVars
<1>2. apply.at \notin LiveSteps /\ apply.at \notin ProfileOutside /\ apply.at \notin ProfileEarly
        /\ apply.at \in Withdrawing
  BY <1>1 DEF LiveSteps, ReadySteps, ProfileOutside, ProfileEarly, Withdrawing
<1>3. /\ ledger.phase # "none" /\ DOMAIN profile' = ProfileFields /\ Follows(ledger, persistEffect)
      /\ OwnerEffect \in DOMAIN ledger.effect /\ planned' \in {planned, noPlanRecord}
           /\ ledger.phase # "planned"
  BY <1>1, <1>2, ProfileHere
<1>4. noRouteOfOperation
  BY <1>2 DEF ProfileAccount, TransitionsFit
<1>5. Follows(op, status)
  <2>1. status \in {"succeeded", "failed", "rolled-back", "unproved"}
    BY <1>s
  <2> QED BY <1>3, <1>o, <2>1, FollowsFinished
<1>6. CASE /\ ledger' = transitioned(op, "rolling-back")
           /\ goApply(IF apply.at = "restored" /\ apply.outcome # "rollback-unproved"
                      THEN "roll-back" ELSE "unproved")
  <2>1. PICK to : to = IF apply.at = "restored" /\ apply.outcome # "rollback-unproved" THEN "roll-back" ELSE "unproved"
    OBVIOUS
  <2>2. to \in {"roll-back", "unproved"} /\ (to = "roll-back" => apply.at = "restored")
    BY <2>1
  <2>3. MayMove(apply.at, to)
    BY <1>1, <2>2 DEF MayMove, LiveSteps, ReadySteps, FreshSteps
  <2>4. /\ to \notin {"reserve", "sync", "save", "succeed", "restored"}
        /\ to \notin {"prove", "network", "observe"} \cup LiveSteps
             /\ to \notin BatchEntry \cup {"succeed"}
        /\ to \notin BatchEntry
    BY <2>2 DEF LiveSteps, ReadySteps, BatchEntry
  <2>5. "rolling-back" \in OpenPhases
    BY DEF OpenPhases
  <2>6. Follows(ledger', status)
    BY <1>5, <1>6, <2>5, FollowsTransition
  <2>7. ledger'.phase # "planned"
    BY <1>3, <2>6, NotPlanned
  <2>8. PICK file : profile'.file = file
    OBVIOUS
  <2>9. apply.at = "restored" => file \in {"base", "edited"}
    BY <1>1, <2>8 DEF ProfileAccount, ProfileFits
  <2>10. goApply(to)
    BY <1>6, <2>1
  <2> QED BY <1>1, <1>3, <1>4, <2>2, <2>3, <2>4, <2>6, <2>7, <2>8, <2>9, <2>10, ProfileMoves
<1>7. CASE ledger' \in {requireRecovery(ledger), requireRecovery(op)} /\ applyReturns
  <2>1. PICK owner : Follows(ledger', owner)
    BY <1>3, <1>5, <1>7, FollowsRequired
  <2>2. ledger'.phase # "planned"
    BY <1>3, <2>1, NotPlanned
  <2> QED BY <1>1, <1>2, <1>3, <1>4, <1>7, <2>1, <2>2, ProfileReturns
<1> QED BY <1>6, <1>7, <1>s, <1>o DEF CheckpointRestore

LEMMA TerminateProfileKeeps ==
  ASSUME ProfileAccount, TerminateProfile
  PROVE  ProfileAccount' /\ ProfileTrue
<1>1. apply.at \in {"succeed", "fail", "roll-back", "unproved"} /\ UNCHANGED <<gateway, profile, planned>>
  BY DEF TerminateProfile, profileVars
<1>2. apply.at \notin LiveSteps /\ apply.at \notin ProfileOutside /\ apply.at \notin ProfileEarly
  BY <1>1 DEF LiveSteps, ReadySteps, ProfileOutside, ProfileEarly
<1>3. /\ ledger.phase # "none" /\ DOMAIN profile' = ProfileFields /\ Follows(ledger, persistEffect)
      /\ BatchShape /\ GatesFit /\ planned' \in {planned, noPlanRecord} /\ ledger.phase # "planned"
  BY <1>1, <1>2, ProfileHere
<1>p. PICK phase : phase = CASE apply.at = "succeed" -> "succeeded" [] apply.at = "fail" -> "failed"
                    [] apply.at = "roll-back" -> "rolled-back" [] OTHER -> "rollback-unproved"
  OBVIOUS
<1>4. \/ apply.at = "succeed" /\ phase = "succeeded"
      \/ apply.at = "fail" /\ phase = "failed"
      \/ apply.at = "roll-back" /\ phase = "rolled-back"
      \/ apply.at = "unproved" /\ phase = "rollback-unproved"
  BY SMTT(60), <1>1, <1>p
<1>5. CASE applyReturns /\ ledger' \in {ledger, requireRecovery(ledger)}
  <2>1. Follows(ledger', persistEffect)
    BY <1>3, <1>5, FollowsRequired
  <2>2. ledger'.phase # "planned"
    BY <1>3, <2>1, NotPlanned
  <2> QED BY <1>1, <1>2, <1>3, <1>5, <2>1, <2>2, ProfileReturns
<1>6. CASE ledger' = transitioned(ledger, phase) /\ goApply("forget")
  <2>1. DOMAIN ledger' = LedgerFields /\ ledger'.phase = phase /\ ledger'.effect = ledger.effect
    BY <1>3, <1>6, TransitionedRecord DEF BatchShape
  <2>2. phase \notin {"none", "planned", "cancelled"}
    BY <1>4
  <2>3. Heir(ledger', persistEffect)
    BY <2>1, <2>2 DEF Heir, persistEffect
  <2>4. PICK to : to = "forget"
    OBVIOUS
  <2>5. MayMove(apply.at, to)
    BY <1>1, <2>4 DEF MayMove, LiveSteps, ReadySteps, FreshSteps
  <2>6. /\ to \notin {"reserve", "sync", "save", "succeed", "restored", "roll-back"}
        /\ to \notin {"prove", "network", "observe"} \cup LiveSteps
             /\ to \notin BatchEntry \cup {"succeed"}
        /\ to \notin Withdrawing /\ to \notin BatchEntry
    BY <2>4 DEF LiveSteps, ReadySteps, BatchEntry, Withdrawing
  <2>7. PICK file : profile'.file = file
    OBVIOUS
  <2>8. ApplyAt(to, apply.outcome)
    BY <1>3, <1>6, <2>4, Goes
  <2>9. ledger'.phase # "planned"
    BY <2>1, <2>2
  <2>10. ProfileAccount'
    BY <1>1, <1>3, <2>3, <2>5, <2>6, <2>7, <2>8, <2>9, ProfileKept
  <2>11. noOpenChange
    BY <1>2, <1>3, NoneOpen
  <2>12. /\ apply.at = "succeed" => profile.file \in {"target", "edited"}
              /\ (planned.network => routesOfOperation)
         /\ apply.at = "roll-back" => profile.file \in {"base", "edited"}
    BY DEF ProfileAccount, ProfileFits, TransitionsFit
  <2>13. apply.at \in {"fail", "roll-back"} => noRouteOfOperation
    BY DEF ProfileAccount, TransitionsFit, Withdrawing
  <2>14. ProfileTrue
    BY <1>4, <2>1, <2>2, <2>11, <2>12, <2>13 DEF ProfileTrue
  <2> QED BY <2>10, <2>14
<1> QED BY <1>5, <1>6, <1>p DEF TerminateProfile

LEMMA ForgetPlanKeeps ==
  ASSUME ProfileAccount, ForgetPlan
  PROVE  ProfileAccount' /\ ProfileTrue
<1>1. apply.at = "forget" /\ planned' = noPlanRecord /\ applyReturns
        /\ UNCHANGED <<ledger, gateway, profile>>
  BY DEF ForgetPlan
<1>2. apply.at \notin LiveSteps /\ apply.at \notin ProfileOutside /\ apply.at \notin ProfileEarly
  BY <1>1 DEF LiveSteps, ReadySteps, ProfileOutside, ProfileEarly
<1>3. /\ ledger.phase # "none" /\ DOMAIN profile' = ProfileFields /\ Follows(ledger', persistEffect)
      /\ planned' \in {planned, noPlanRecord} /\ ledger'.phase # "planned"
  BY <1>1, <1>2, ProfileHere
<1> QED BY <1>1, <1>2, <1>3, ProfileReturns

\* The steps outside the call, and those that enter it.
LEMMA ProfileRests ==
  ASSUME apply'.at \in ProfileOutside \cup {"classify"}, BatchShape', GatesFit',
         DOMAIN profile' = ProfileFields,
         ledger'.phase # "none" => OwnerEffect \in DOMAIN ledger'.effect,
         ledger'.phase # "none" /\ planned'.network => FirstEffect \in DOMAIN ledger'.effect,
         ledger'.phase = "planned" => ledger'.effect[OwnerEffect] = "pending",
         noRouteOfOperation' \/ BatchStarted',
         apply'.at = "classify" => ledger'.phase # "none",
         apply'.at = "reserve" => ledger'.phase = "none"
  PROVE  ProfileAccount'
<1>1. /\ apply'.at \notin {"save", "succeed", "restored", "roll-back", "sync", "before"}
      /\ apply'.at \notin {"prove", "network", "observe"} \cup LiveSteps
           /\ apply'.at \notin BatchEntry \cup {"succeed"}
      /\ apply'.at \notin Withdrawing /\ apply'.at \notin ReadySteps \cup {"run"}
           /\ apply'.at \in ProfileEarly
  BY DEF ProfileOutside, ProfileEarly, LiveSteps, ReadySteps, BatchEntry, Withdrawing
<1>2. apply'.at \notin BatchEntry
  BY <1>1
<1>3. apply'.at \notin ProfileOutside => ledger'.phase # "none"
  OBVIOUS
<1>4. ProfileFits(apply'.at, ledger'.phase, persistEffect', profile'.file)
  BY <1>1, <1>3 DEF ProfileFits, persistEffect
<1>5. TransitionsFit'
  BY <1>1, <1>2 DEF TransitionsFit
<1> QED BY <1>4, <1>5 DEF ProfileAccount, ProfileFits, ProfileFields

LEMMA ProfileStands ==
  ASSUME ProfileAccount, apply.at \notin LiveSteps
  PROVE  /\ BatchShape /\ GatesFit /\ DOMAIN profile = ProfileFields
         /\ ledger.phase # "none" => OwnerEffect \in DOMAIN ledger.effect
         /\ ledger.phase # "none" /\ planned.network => FirstEffect \in DOMAIN ledger.effect
         /\ ledger.phase = "planned" => ledger.effect[OwnerEffect] = "pending"
         /\ noRouteOfOperation \/ BatchStarted
  BY DEF ProfileAccount, ProfileFits, TransitionsFit, ProfileFields, persistEffect

LEMMA ReconcileProfileKeeps ==
  ASSUME ProfileAccount, ReconcileProfile
  PROVE  ProfileAccount' /\ ProfileTrue
<1>1. apply.at = "startup" /\ UNCHANGED <<ledger, gateway, profile, planned>>
  BY DEF ReconcileProfile, profileVars
<1>2. apply.at \notin LiveSteps
  BY <1>1 DEF LiveSteps, ReadySteps
<1>3. BatchShape
  BY <1>2, ProfileStands
<1>4. PICK to \in {"started", "idle", "classify"} : ApplyAt(to, apply.outcome)
             /\ (to = "classify" => ledger.phase # "none")
  <2>1. CASE applyReturns
    BY <1>3, <2>1, Returns
  <2>2. CASE goApply("classify") /\ ledger.phase # "none"
    BY <1>3, <2>2, Goes
  <2> QED BY <2>1, <2>2 DEF ReconcileProfile
<1>5. MayMove(apply.at, to)
  BY <1>1 DEF MayMove, LiveSteps, ReadySteps, FreshSteps
<1>6. GatesFit' /\ BatchShape'
  BY <1>1, <1>2, <1>4, <1>5, ProfileStands, GatesMove DEF BatchShape
<1>7. apply'.at \in ProfileOutside \cup {"classify"} /\ apply'.at # "reserve"
        /\ (apply'.at = "classify" => ledger.phase # "none")
  BY <1>4 DEF ApplyAt, ProfileOutside
<1>8. noRouteOfOperation' \/ BatchStarted'
  BY <1>1, <1>2, ProfileStands DEF noRouteOfOperation, BatchStarted, persistEffect
<1> QED BY <1>1, <1>2, <1>6, <1>7, <1>8, ProfileStands, ProfileRests, ProfileUntouched

LEMMA StartupProfileKeeps ==
  ASSUME ProfileAccount, RecordProfileStartup
  PROVE  ProfileAccount' /\ ProfileTrue
<1>1. RecordStartupRecovery /\ UNCHANGED <<profile, planned>>
  BY DEF RecordProfileStartup, profileVars
<1>2. apply.at = "started"
  BY <1>1 DEF RecordStartupRecovery
<1>3. apply.at \notin LiveSteps
  BY <1>2 DEF LiveSteps, ReadySteps
<1>4. /\ apply' = idleApply /\ UNCHANGED gateway
      /\ DOMAIN ledger' = LedgerFields /\ ledger'.effect = ledger.effect
      /\ ledger'.phase \in {ledger.phase, "recovery-required"}
      /\ ledger.phase \in {"none", "planned"} \/ Terminal(ledger) => UNCHANGED ledger
      /\ GatesFit' /\ BatchShape'
  BY <1>1, <1>3, StartupFacts, ProfileStands
<1>5. apply'.at = "idle" /\ apply'.at \in ProfileOutside \cup {"classify"}
  <2>1. apply'.at = "idle"
    BY SMTT(60), <1>4 DEF idleApply
  <2> QED BY <2>1 DEF ProfileOutside
<1>6. Follows(ledger', persistEffect)
  BY <1>4 DEF Follows, OpenPhases, persistEffect
<1>7. (ledger'.phase # "none") = (ledger.phase # "none")
  BY <1>4
<1>8. ledger'.phase = "planned" => ledger.phase = "planned"
  BY <1>4
<1>9. noRouteOfOperation' \/ BatchStarted'
  BY <1>3, <1>4, <1>7, ProfileStands DEF noRouteOfOperation, BatchStarted, persistEffect
<1> QED BY <1>1, <1>3, <1>4, <1>5, <1>6, <1>7, <1>8, <1>9, ProfileStands, ProfileRests, ProfileStaysOpen

LEMMA PlanProfileKeeps ==
  ASSUME ProfileAccount, PlanProfile
  PROVE  ProfileAccount' /\ ProfileTrue
<1>1. /\ apply.at = "idle" /\ ledger.phase = "none" /\ goApply("reserve") /\ UNCHANGED <<ledger, gateway>>
      /\ profile' = loadOrAdvanceRevision(profile)
  BY DEF PlanProfile
<1>2. apply.at \notin LiveSteps
  BY <1>1 DEF LiveSteps, ReadySteps
<1>3. DOMAIN profile' = ProfileFields
  BY <1>1, <1>2, ProfileStands, Loaded
<1>4. ApplyAt("reserve", apply.outcome)
  BY <1>1, <1>2, ProfileStands, Goes
<1>5. MayMove(apply.at, "reserve") /\ "reserve" \in ProfileOutside \cup {"classify"}
  BY <1>1 DEF MayMove, LiveSteps, ReadySteps, FreshSteps, ProfileOutside
<1>6. BatchShape' /\ GatesFit'
  BY <1>1, <1>2, <1>4, <1>5, ProfileStands, GatesMove DEF BatchShape
<1>7. noRouteOfOperation'
  BY <1>1, <1>2, ProfileStands DEF noRouteOfOperation, BatchStarted
<1>8. apply'.at = "reserve" /\ ledger'.phase = "none"
  BY <1>1, <1>4 DEF ApplyAt
<1> QED BY <1>1, <1>3, <1>5, <1>6, <1>7, <1>8, ProfileRests, ProfileUntouched

LEMMA ReservePlanKeeps ==
  ASSUME ProfileAccount, ReservePlan
  PROVE  ProfileAccount' /\ ProfileTrue
<1>1. apply.at = "reserve" /\ goApply("idle") /\ UNCHANGED <<gateway, profile>>
  BY DEF ReservePlan
<1>2. apply.at \notin LiveSteps
  BY <1>1 DEF LiveSteps, ReadySteps
<1>3. ledger.phase = "none"
  BY <1>1 DEF ProfileAccount, ProfileFits
<1>4. noRouteOfOperation
  BY <1>2, <1>3, ProfileStands DEF BatchStarted
<1>5. ApplyAt("idle", apply.outcome)
  BY <1>1, <1>2, ProfileStands, Goes
<1>6. MayMove(apply.at, "idle") /\ "idle" \in ProfileOutside \cup {"classify"}
  BY <1>1 DEF MayMove, LiveSteps, ReadySteps, FreshSteps, ProfileOutside
<1>7. GatesFit' /\ (DOMAIN ledger' = LedgerFields => BatchShape')
  BY <1>1, <1>2, <1>5, <1>6, ProfileStands, GatesMove
<1>8. noRouteOfOperation' /\ DOMAIN profile' = ProfileFields
  BY <1>1, <1>2, <1>4, ProfileStands DEF noRouteOfOperation
<1>9. apply'.at = "idle"
  BY <1>5 DEF ApplyAt
<1>10. CASE ledger' = reserved(plannedEffects) /\ UNCHANGED planned
  <2>1. OwnerEffect \in plannedEffects /\ (planned.network => FirstEffect \in plannedEffects)
    BY FirstApart DEF plannedEffects
  <2>2. /\ DOMAIN ledger' = LedgerFields /\ ledger'.phase = "planned"
        /\ ledger'.effect = [f \in plannedEffects |-> "pending"]
    BY <1>10, Reserved
  <2>3. /\ OwnerEffect \in DOMAIN ledger'.effect /\ ledger'.effect[OwnerEffect] = "pending"
        /\ planned'.network => FirstEffect \in DOMAIN ledger'.effect
    BY <1>10, <2>1, <2>2
  <2>4. ProfileTrue
    BY <2>2 DEF ProfileTrue, Terminal, TerminalPhases
  <2> QED BY <1>6, <1>7, <1>8, <1>9, <2>2, <2>3, <2>4, ProfileRests
<1>11. CASE planned' = noPlanRecord /\ UNCHANGED ledger
  <2>1. DOMAIN ledger' = LedgerFields
    BY <1>2, <1>11, ProfileStands DEF BatchShape
  <2> QED BY <1>3, <1>6, <1>7, <1>8, <1>9, <1>11, <2>1, ProfileRests, ProfileUntouched
<1> QED BY <1>10, <1>11 DEF ReservePlan

LEMMA ApplyProfileKeeps ==
  ASSUME ProfileAccount, ApplyProfile
  PROVE  ProfileAccount' /\ ProfileTrue
<1>1. apply.at = "idle" /\ ledger.phase # "none" /\ UNCHANGED <<gateway, profile>>
  BY DEF ApplyProfile
<1>2. apply.at \notin LiveSteps
  BY <1>1 DEF LiveSteps, ReadySteps
<1>3. CASE ledger.phase = "planned" /\ cancelPlannedOperation /\ UNCHANGED apply
  <2>1. ApplyAt("idle", apply.outcome)
    BY <1>1, <1>2, <1>3, ProfileStands DEF ApplyAt, BatchShape
  <2>2. ledger' = transitioned(ledger, "cancelled") /\ planned' = noPlanRecord
    BY <1>3 DEF cancelPlannedOperation
  <2>3. DOMAIN profile' = ProfileFields
    BY <1>1, <1>2, ProfileStands
  <2> QED BY <1>1, <1>2, <1>3, <2>1, <2>2, <2>3, CancelProfileKeeps
<1>4. CASE apply' = [idleApply EXCEPT !.at = "classify"] /\ UNCHANGED <<ledger, planned>>
  <2>2. DOMAIN apply' = ApplyFields /\ apply'.at = "classify" /\ apply'.phase = 1 /\ apply'.env = 1
    BY SMTT(60), <1>4 DEF idleApply, ApplyFields
  <2>3. 1 \in 1..5
    BY SMTT(60)
  <2>4. BatchShape'
    BY <1>1, <1>2, <1>4, <2>2, <2>3, ProfileStands, Steps DEF BatchShape
  <2>5. "classify" \notin LiveSteps /\ "classify" \notin ReadySteps
          /\ "classify" \in ProfileOutside \cup {"classify"}
    BY DEF LiveSteps, ReadySteps
  <2>6. GatesFit'
    BY <1>1, <1>2, <2>2, <2>5, ProfileStands DEF GatesFit, GateFits
  <2>7. noRouteOfOperation' \/ BatchStarted'
    BY <1>1, <1>2, <1>4, ProfileStands DEF noRouteOfOperation, BatchStarted, persistEffect
  <2> QED BY <1>1, <1>2, <1>4, <2>2, <2>4, <2>5, <2>6, <2>7, ProfileStands, ProfileRests, ProfileUntouched
<1> QED BY <1>3, <1>4 DEF ApplyProfile

LEMMA CrashProfileKeeps ==
  ASSUME ProfileAccount, CrashProfile
  PROVE  ProfileAccount' /\ ProfileTrue
<1>1. DaemonRestarts("startup") /\ UNCHANGED <<profile, planned>>
  BY DEF CrashProfile, profileVars
<1>2. "startup" \notin LiveSteps /\ "startup" \in ProfileOutside \cup {"classify"}
  BY DEF LiveSteps, ReadySteps, ProfileOutside
<1>3. UNCHANGED ledger /\ apply'.at = "startup" /\ GatesFit' /\ BatchShape' /\ noRouteOfOperation'
  BY <1>1, <1>2, RestartFacts DEF ProfileAccount
<1>4. /\ DOMAIN profile = ProfileFields
      /\ ledger.phase # "none" => OwnerEffect \in DOMAIN ledger.effect
      /\ ledger.phase # "none" /\ planned.network => FirstEffect \in DOMAIN ledger.effect
      /\ ledger.phase = "planned" => ledger.effect[OwnerEffect] = "pending"
  BY DEF ProfileAccount, ProfileFits, persistEffect, ProfileFields
<1> QED BY <1>1, <1>2, <1>3, <1>4, ProfileRests, ProfileUntouched

LEMMA ProfileLive ==
  ASSUME ProfileAccount, apply.at \in {"observe"} \cup LiveSteps, BatchShape', GatesFit',
         UNCHANGED <<profile, planned>>,
         Follows(ledger', persistEffect),
         apply'.at \in {"before", "run", "hook", "rollback", "sync"},
         apply'.at \in {"run", "hook"} => ledger'.effect[FirstEffect] # "pending",
         apply'.at = "before" /\ (apply'.phase > 1
           \/ apply'.env > 1) => ledger'.effect[FirstEffect] # "pending",
         apply'.at = "sync" => /\ noRouteOfOperation' \/ ledger'.effect[FirstEffect] # "pending"
                               /\ IF apply'.outcome = "succeeded" THEN routesOfOperation' ELSE noRouteOfOperation'
  PROVE  ProfileAccount' /\ ProfileTrue
<1>1. apply.at \notin ProfileOutside /\ apply.at \notin ProfileEarly /\ apply.at \in BatchEntry
  BY DEF ProfileOutside, ProfileEarly, BatchEntry, LiveSteps, ReadySteps
<1>2. /\ ledger.phase # "none" /\ DOMAIN profile' = ProfileFields
           /\ OwnerEffect \in DOMAIN ledger.effect /\ ledger.phase # "planned"
  BY <1>1, ProfileHere
<1>3. persistEffect = "succeeded" /\ profile'.file \in {"target", "edited"}
        /\ FirstEffect \in DOMAIN ledger.effect
  BY <1>1 DEF ProfileAccount, ProfileFits, TransitionsFit
<1>4. ledger'.phase # "planned"
  BY <1>2, NotPlanned
<1>5. /\ ledger'.phase # "none" /\ OwnerEffect \in DOMAIN ledger'.effect /\ persistEffect' = "succeeded"
      /\ FirstEffect \in DOMAIN ledger'.effect
  BY <1>2, <1>3 DEF Follows, OpenPhases, persistEffect
<1>6. /\ apply'.at \notin {"reserve", "save", "succeed", "restored", "roll-back"}
           /\ apply'.at \notin Withdrawing
      /\ apply'.at \notin LiveSteps => apply'.at = "sync"
      /\ apply'.at \in ReadySteps \cup {"run"} => apply'.at \in {"run", "hook"}
  BY DEF Withdrawing, LiveSteps, ReadySteps
<1>7. ProfileFits(apply'.at, ledger'.phase, persistEffect', profile'.file)
  BY <1>3, <1>4, <1>5, <1>6 DEF ProfileFits
<1>8. apply'.at \notin LiveSteps => noRouteOfOperation' \/ BatchStarted'
  BY <1>5, <1>6 DEF BatchStarted
<1>9. TransitionsFit'
  BY <1>5, <1>6, <1>8 DEF TransitionsFit
<1> QED BY <1>2, <1>5, <1>7, <1>9, ProfileStaysOpen DEF ProfileAccount, ProfileFits, ProfileFields

LEMMA LiveStepKeeps ==
  ASSUME ProfileAccount, LiveStep
  PROVE  ProfileAccount' /\ ProfileTrue
<1>1. LiveNetworkSteps /\ UNCHANGED <<profile, planned>>
  BY DEF LiveStep, profileVars
<1>2. BatchShape /\ GatesFit
  BY DEF ProfileAccount
<1>3. apply.at \in {"observe", "before", "run", "commit", "rollback"}
  BY <1>1 DEF LiveNetworkSteps, ObserveRoutes, BeforeNetworkTransitionEffect, RunNetworkEffect,
              CommitNetworkCandidates, RollbackNetworkCandidates
<1>4. apply.at \notin ProfileOutside /\ apply.at \in {"observe"} \cup LiveSteps /\ apply.at \in BatchEntry
  BY <1>3 DEF ProfileOutside, LiveSteps, ReadySteps, BatchEntry
<1>5. OwnerEffect \in DOMAIN ledger.effect /\ Follows(ledger, persistEffect)
        /\ FirstEffect \in DOMAIN ledger.effect
  BY <1>4, ProfileHere DEF ProfileAccount, TransitionsFit
<1>6. /\ LedgerKept => Follows(ledger', persistEffect)
      /\ LedgerKept /\ ledger.effect[FirstEffect] # "pending" => ledger'.effect[FirstEffect] # "pending"
  BY <1>5 DEF LedgerKept, Follows, persistEffect
<1>7. CASE ObserveRoutes
  <2>1. /\ UNCHANGED <<ledger, gateway>> /\ apply.at = "observe"
        /\ \/ ApplyAt("before", apply.outcome)
           \/ ApplyAt("sync", "stale")
    BY <1>2, <1>7, ObserveFacts
  <2>2. apply'.at = "before" \/ (apply'.at = "sync" /\ apply'.outcome = "stale")
    BY <2>1 DEF ApplyAt
  <2>3. apply.at \in FreshSteps
    BY <2>1 DEF FreshSteps
  <2>4. apply'.phase = 1 /\ apply'.env = 1
    BY <1>2, <2>1, <2>3 DEF BatchShape, ApplyAt
  <2>5. ~(1 > 1)
    BY SMTT(60)
  <2>6. noRouteOfOperation'
    BY <2>1 DEF ProfileAccount, TransitionsFit, Withdrawing, noRouteOfOperation
  <2>7. apply'.outcome = "succeeded" => apply'.at # "sync"
    BY <2>2
  <2> QED BY <1>1, <1>2, <1>4, <1>5, <1>7, <2>1, <2>2, <2>4, <2>5, <2>6, <2>7, ObserveKeeps, ProfileLive
<1>8. CASE BeforeNetworkTransitionEffect
  <2>1. /\ apply.at = "before" /\ LedgerKept
        /\ \/ ApplyAt("run", apply.outcome)
                /\ ledger'.effect = [ledger.effect EXCEPT ![currentEffect] = "running"]
           \/ ApplyAt("rollback", apply.outcome)
    BY <1>2, <1>5, <1>8, BeforeFacts
  <2>2. BatchShape' /\ GatesFit'
    BY <1>2, <1>5, <1>8, BeforeKeeps
  <2>3. apply'.at \in {"run", "rollback"}
    BY <2>1 DEF ApplyAt
  <2>4. apply'.at = "run" => ledger'.effect[FirstEffect] # "pending"
    <3>1. CASE currentEffect = FirstEffect
      <4>1. apply'.at = "run" => ledger'.effect = [ledger.effect EXCEPT ![currentEffect] = "running"]
        BY <2>1 DEF ApplyAt
      <4> QED BY <1>5, <3>1, <4>1
    <3>2. CASE apply.phase > 1 \/ apply.env > 1
      BY <1>6, <2>1, <3>2 DEF ProfileAccount, TransitionsFit
    <3> QED BY <1>2, <3>1, <3>2, FirstApart
  <2> QED BY <1>1, <1>4, <1>6, <2>1, <2>2, <2>3, <2>4, ProfileLive
<1>9. CASE RunNetworkEffect
  <2>1. apply.at = "run" /\ LedgerKept
          /\ (ApplyAt("rollback", apply.outcome) \/ \E result : advance(result))
    BY <1>2, <1>5, <1>9, RunFacts
  <2>2. apply'.at \in {"rollback", "hook", "before"}
    BY <1>2, <2>1, AdvanceFacts DEF ApplyAt
  <2>3. BatchShape' /\ GatesFit'
    BY <1>2, <1>5, <1>9, EffectKeeps
  <2>4. ledger'.effect[FirstEffect] # "pending"
    BY <1>6, <2>1 DEF ProfileAccount, TransitionsFit
  <2> QED BY <1>1, <1>4, <1>6, <2>1, <2>2, <2>3, <2>4, ProfileLive
<1>10. CASE CommitNetworkCandidates
  <2>1. /\ apply.at = "commit" /\ UNCHANGED ledger /\ ApplyAt("sync", "succeeded")
        /\ GatesFit' /\ BatchShape' /\ routesOfOperation'
    BY <1>2, <1>10, CommitFacts
  <2>2. apply'.at = "sync" /\ apply'.outcome = "succeeded"
    BY <2>1 DEF ApplyAt
  <2>3. ledger'.effect[FirstEffect] # "pending"
    BY <2>1 DEF ProfileAccount, TransitionsFit, ReadySteps
  <2> QED BY <1>1, <1>4, <1>5, <2>1, <2>2, <2>3, ProfileLive
<1>11. CASE RollbackNetworkCandidates
  <2>1. /\ UNCHANGED ledger /\ (ApplyAt("sync", "rolled-back") \/ ApplyAt("sync", "rollback-unproved"))
        /\ GatesFit' /\ BatchShape' /\ noRouteOfOperation'
    BY <1>2, <1>11, RollbackFacts
  <2>2. apply'.at = "sync" /\ apply'.outcome # "succeeded"
    BY <2>1 DEF ApplyAt
  <2> QED BY <1>1, <1>4, <1>5, <2>1, <2>2, ProfileLive
<1> QED BY <1>1, <1>7, <1>8, <1>9, <1>10, <1>11 DEF LiveNetworkSteps

LEMMA RouteChangeKeeps ==
  ASSUME ProfileAccount, RouteChange
  PROVE  ProfileAccount' /\ ProfileTrue
<1>1. RouteChanges /\ UNCHANGED <<profile, planned>>
  BY DEF RouteChange, profileVars
<1>2. /\ UNCHANGED <<ledger, apply>> /\ GatesFit' /\ BatchShape'
      /\ noRouteOfOperation => noRouteOfOperation'
      /\ routesOfOperation => routesOfOperation'
  BY <1>1, RouteFacts DEF ProfileAccount
<1>3. TransitionsFit'
  BY <1>1, <1>2 DEF ProfileAccount, TransitionsFit, BatchStarted, persistEffect
<1>4. ProfileFits(apply'.at, ledger'.phase, persistEffect', profile'.file)
  BY <1>1, <1>2 DEF ProfileAccount, persistEffect
<1> QED BY <1>1, <1>2, <1>3, <1>4, ProfileUntouched DEF ProfileAccount, ProfileFits

\* A step that leaves the record, the gateways and the call alone.
LEMMA ProfileElsewhere ==
  ASSUME ProfileAccount, UNCHANGED <<ledger, gateway, apply, planned>>,
         DOMAIN profile' = ProfileFields, profile'.file \in {profile.file, "edited"}
  PROVE  ProfileAccount' /\ ProfileTrue
<1>1. BatchShape' /\ GatesFit'
  BY DEF ProfileAccount, BatchShape, GatesFit, GateFits
<1>2. ProfileFits(apply'.at, ledger'.phase, persistEffect', profile'.file)
  BY DEF ProfileAccount, ProfileFits, persistEffect
<1>3. TransitionsFit'
  BY DEF ProfileAccount, TransitionsFit, BatchStarted, persistEffect, noRouteOfOperation,
     routesOfOperation
<1> QED BY <1>1, <1>2, <1>3, ProfileUntouched DEF ProfileAccount, ProfileFits, ProfileFields

LEMMA IdentityKeeps ==
  ASSUME ProfileAccount, IdentityCommandLoads \/ IdentityCommandSaves
  PROVE  ProfileAccount' /\ ProfileTrue
<1>1. CASE IdentityCommandLoads
  <2>1. UNCHANGED <<ledger, gateway, apply, profile, planned>>
    BY <1>1 DEF IdentityCommandLoads
  <2> QED BY <2>1, ProfileElsewhere DEF ProfileAccount, ProfileFields
<1>2. CASE IdentityCommandSaves
  <2>1. UNCHANGED <<ledger, gateway, apply, planned>> /\ profile' = [profile EXCEPT !.file = "edited"]
    BY <1>2 DEF IdentityCommandSaves, batchVars
  <2>2. DOMAIN profile = ProfileFields
    BY DEF ProfileAccount, ProfileFields
  <2>3. DOMAIN profile' = ProfileFields /\ profile'.file = "edited"
    BY <2>1, <2>2 DEF ProfileFields
  <2> QED BY <2>1, <2>3, ProfileElsewhere
<1> QED BY <1>1, <1>2

LEMMA ProfileStep ==
  ASSUME ProfileAccount, [ProfileTxNext]_profileTxVars
  PROVE  ProfileAccount' /\ (ProfileTrue \/ UNCHANGED profileTxVars)
<1>1. CASE UNCHANGED profileTxVars
  <2>1. UNCHANGED <<ledger, gateway, apply, profile, planned>>
    BY <1>1 DEF profileTxVars, batchVars, profileVars
  <2> QED BY <1>1, <2>1, ProfileElsewhere DEF ProfileAccount, ProfileFields
<1>2. CASE ProfileTxNext
  BY <1>2, PlanProfileKeeps, ReservePlanKeeps, ApplyProfileKeeps, ReconcileProfileKeeps,
     StartupProfileKeeps,
     ClassifyProfileKeeps, BeginPersistKeeps, PersistProfileKeeps, FinishPersistKeeps,
     ProvePersistedKeeps,
     StartTransitionsKeeps, ProfileHookKeeps, SyncTransitionsKeeps, UnsyncedTransitionsKeeps,
     RestoreProfileKeeps,
     CheckpointRestoreKeeps, TerminateProfileKeeps, ForgetPlanKeeps, IdentityKeeps, LiveStepKeeps,
     RouteChangeKeeps,
     CrashProfileKeeps DEF ProfileTxNext
<1> QED BY <1>1, <1>2

LEMMA ProfileStarts ==
  ASSUME ProfileTxInit
  PROVE  ProfileAccount
<1>1. BatchShape /\ GatesFit /\ noRouteOfOperation /\ apply.at = "idle" /\ ledger.phase = "none"
  BY BatchStarts DEF ProfileTxInit
<1>2. DOMAIN profile = {"file", "revision", "known"}
  BY SMTT(60) DEF ProfileTxInit
<1>3. /\ "idle" \in ProfileOutside /\ "idle" \in ProfileEarly
           /\ "idle" \notin {"prove", "network", "observe"} \cup LiveSteps
      /\ "idle" \notin BatchEntry \cup {"succeed"} /\ "idle" \notin Withdrawing
           /\ "idle" \notin ReadySteps \cup {"run"}
  BY DEF ProfileOutside, ProfileEarly, LiveSteps, ReadySteps, BatchEntry, Withdrawing
<1> QED BY <1>1, <1>2, <1>3 DEF ProfileAccount, ProfileFits, TransitionsFit

\* The account of a configuration operation holds: a gateway has the
\* operation's route only inside the batch, or after the profile write
\* succeeded and the batch started; the file is the target, or another
\* writer's, from its proof to the end of the batch, and every step that gives
\* up finds the routes withdrawn (applyUnderProfileLock,
\* rollbackProfileAfterNetworkFailure).
THEOREM ProfileAccountHolds == ProfileTxSpec => []ProfileAccount
<1>1. ProfileTxInit => ProfileAccount
  BY ProfileStarts
<1>2. ProfileAccount /\ [ProfileTxNext]_profileTxVars => ProfileAccount'
  BY ProfileStep
<1> QED BY <1>1, <1>2, PTL DEF ProfileTxSpec

\* What the terminal record of a configuration operation says is so when it is
\* written, for any number of environments, faults, crashes and concurrent
\* writers (applyUnderProfileLock, rollbackProfileAfterNetworkFailure and the
\* reconciliation after a restart).
THEOREM ConfigurationOutcomesStayTrue == ProfileTxSpec => ConfigurationOutcomeIsTrue
<1>1. ProfileTxInit => ProfileAccount
  BY ProfileStarts
<1>2. ProfileAccount /\ [ProfileTxNext]_profileTxVars => ProfileAccount'
  BY ProfileStep
<1>3. ProfileAccount /\ [ProfileTxNext]_profileTxVars => [ProfileTrue]_profileTxVars
  BY ProfileStep
<1>4. ProfileTxSpec => [][ProfileTrue]_profileTxVars
  BY <1>1, <1>2, <1>3, PTL DEF ProfileTxSpec
<1> QED BY <1>4, PTL DEF ConfigurationOutcomeIsTrue, ProfileTrue
====

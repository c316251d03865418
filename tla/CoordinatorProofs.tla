-------------------------- MODULE CoordinatorProofs --------------------------
(***************************************************************************)
(* Theorems about the coordinator, for every set of sessions, every set of *)
(* clients and every bound: its types, and that destruction excludes       *)
(* sessions.                                                               *)
(***************************************************************************)
EXTENDS Coordinator, TLAPS

(* The default prover; SMT where a leaf needs arithmetic or cases.  The    *)
(* limits are wall-clock seconds, wide enough for a busy machine.          *)
USE ZenonT(60)

-----------------------------------------------------------------------------
(* Types of the records and of the operators that build them *)

LEMMA ConstantTypes ==
    /\ NoInc \in Incarnations /\ NoDeadline \in Deadlines /\ NoAttempt \in Attempts
    /\ NoDisposal \in Disposals /\ NoObs \in Observations
BY DEF NoInc, NoDeadline, NoAttempt, NoDisposal, NoObs,
       Incarnations, Deadlines, Attempts, Disposals, Observations

LEMMA ReconciliationTypes ==
    ASSUME NEW d \in Nat
    PROVE  /\ completeReconciliation(d) \in Reconciliations
           /\ \A why \in Reasons : blockedReconciliation(d, why) \in Reconciliations
           /\ [daemon |-> d, state |-> "pending", reason |-> "none"] \in Reconciliations
           /\ [daemon |-> d, state |-> "pending", reason |-> "reconciliation-pending"]
                 \in Reconciliations
BY DEF completeReconciliation, blockedReconciliation, Reconciliations, Reasons

LEMMA JournalType ==
    ASSUME NEW d \in Nat
    PROVE  newJournal(d) \in Journals
BY ConstantTypes, ReconciliationTypes DEF newJournal, Journals

LEMMA NoJournalType == NoJournal \in Journals
BY JournalType DEF NoJournal

LEMMA EnvironmentType ==
    ASSUME NEW j \in Journals, NEW b \in BOOLEAN
    PROVE  registryEnvironment(j, b) \in Environments
BY ConstantTypes DEF registryEnvironment, Environments

LEMMA ObservationType ==
    ASSUME NEW b \in Nat
    PROVE  /\ observation(b) \in Observations
           /\ [state |-> "unknown", boot |-> 0] \in Observations
BY DEF observation, Observations

(* The fields of an environment and of a journal. *)
LEMMA EnvironmentFields ==
    ASSUME NEW e \in Environments
    PROVE  /\ e.journal \in Journals /\ e.obs \in Observations
           /\ e.handles \subseteq Sessions /\ e.committed \subseteq Sessions
           /\ e.closing \subseteq Sessions /\ e.establishing \subseteq Sessions
           /\ e.blocked \in BOOLEAN /\ e.reconciling \in BOOLEAN
           /\ e.mutation \in BOOLEAN /\ e.deadlineSeq \in Nat
BY DEF Environments

LEMMA JournalFields ==
    ASSUME NEW j \in Journals
    PROVE  /\ j.gen \in Nat /\ j.inc \in Incarnations /\ j.rows \subseteq Rows
           /\ j.deadline \in Deadlines /\ j.attempt \in Attempts
           /\ j.disposal \in Disposals /\ j.recon \in Reconciliations
BY DEF Journals

LEMMA CheckpointTypes ==
    ASSUME NEW e \in Environments
    PROVE  checkpointNow(e) \in Environments /\ checkpointLater(e) \in Environments
BY DEF checkpointNow, checkpointLater, Environments

LEMMA BlockType ==
    ASSUME daemon \in Nat, NEW e \in Environments, NEW why \in Reasons
    PROVE  blockEnv(e, why) \in Environments
BY ReconciliationTypes DEF blockEnv, Environments, Journals

LEMMA SequenceAndDeadlineType ==
    ASSUME NEW e \in Environments, NEW n \in Nat, NEW d \in Deadlines
    PROVE  [e EXCEPT !.deadlineSeq = n, !.journal.deadline = d] \in Environments
BY DEF Environments, Journals

LEMMA ArmedType ==
    ASSUME NEW e \in Environments
    PROVE  /\ armed(e) \in Environments
           /\ armed(e).journal.deadline \in Deadlines
<1>1. e.deadlineSeq + 1 \in Nat /\ e.journal.inc \in Incarnations
  BY SMTT(60), EnvironmentFields, JournalFields
<1>2. [seq |-> e.deadlineSeq + 1, inc |-> e.journal.inc] \in Deadlines
  BY <1>1 DEF Deadlines
<1>3. armed(e) \in Environments
  BY <1>1, <1>2, SequenceAndDeadlineType DEF armed
<1>4. armed(e).journal.deadline \in Deadlines
  BY <1>3, EnvironmentFields, JournalFields
<1> QED BY <1>3, <1>4

LEMMA CancelType ==
    ASSUME NEW e \in Environments
    PROVE  cancelDeadlineForAttach(e) \in Environments /\ cancelDeadline(e) \in Environments
<1>1. e.deadlineSeq + 1 \in Nat
  BY SMTT(60), EnvironmentFields
<1>2. cancelDeadlineForAttach(e) \in Environments
  BY <1>1, ConstantTypes, SequenceAndDeadlineType DEF cancelDeadlineForAttach
<1> QED BY <1>2, CheckpointTypes DEF cancelDeadline

LEMMA LoadType ==
    ASSUME TypeOK
    PROVE  loadEnvironment \in Environments /\ current \in Environments
<1>1. registryEnvironment(newJournal(daemon), FALSE) \in Environments
  BY JournalType, EnvironmentType DEF TypeOK
<1>2. registryEnvironment(disk, FALSE) \in Environments
  BY EnvironmentType DEF TypeOK
<1>3. [disk EXCEPT !.recon = blockedReconciliation(daemon, "prior-daemon-state-unproved")]
         \in Journals
  <2>1. blockedReconciliation(daemon, "prior-daemon-state-unproved") \in Reconciliations
    BY ReconciliationTypes DEF TypeOK, Reasons
  <2> QED BY <2>1 DEF TypeOK, Journals
<1>4. loadEnvironment \in Environments
  BY <1>1, <1>2, <1>3, EnvironmentType DEF loadEnvironment
<1> QED BY <1>4 DEF current, TypeOK

LEMMA PersistType ==
    ASSUME TypeOK, NEW j \in Journals, NEW ok \in BOOLEAN, persist(j, ok)
    PROVE  disk' \in Journals /\ faults' \in Nat
BY SMTT(60) DEF TypeOK, persist, fault

LEMMA PersistTwiceType ==
    ASSUME TypeOK, NEW j1 \in Journals, NEW j2 \in Journals, persistTwice(j1, j2)
    PROVE  disk' \in Journals /\ faults' \in Nat
BY SMTT(60) DEF TypeOK, persistTwice, fault

LEMMA RemoveType ==
    ASSUME TypeOK, NEW ok \in BOOLEAN, remove(ok)
    PROVE  disk' \in Journals /\ faults' \in Nat
BY SMTT(60), NoJournalType DEF TypeOK, remove, fault

LEMMA RemoveFailedType ==
    ASSUME TypeOK, NEW j \in Journals, removeFailed(j)
    PROVE  disk' \in Journals /\ faults' \in Nat
BY SMTT(60), NoJournalType DEF TypeOK, removeFailed, fault

LEMMA CancelAndPersistType ==
    ASSUME TypeOK, NEW e \in Environments, NEW j \in Journals,
           NEW outcome, cancelAndPersist(e, j, outcome)
    PROVE  disk' \in Journals /\ faults' \in Nat
<1>1. cancelDeadline(e).journal \in Journals
  BY CancelType, EnvironmentFields
<1> QED BY SMTT(60), <1>1 DEF TypeOK, cancelAndPersist, persist, fault

LEMMA ScheduleType ==
    ASSUME TypeOK, NEW e \in Environments, NEW ok \in BOOLEAN, scheduleIfIdle(e, ok)
    PROVE  /\ env' \in Environments /\ disk' \in Journals
           /\ timers' \subseteq Deadlines /\ faults' \in Nat
<1>. DEFINE b == blockEnv(e, "backend-observation-unproved")
<1>1. b \in Environments
  BY BlockType DEF TypeOK, Reasons
<1>2. e.journal \in Journals /\ b.journal \in Journals
  BY <1>1, EnvironmentFields
<1>3. CASE env' = e /\ persist(e.journal, ok) /\ UNCHANGED timers
  BY <1>2, <1>3, PersistType DEF TypeOK
<1>4. CASE env' = b /\ persist(b.journal, ok) /\ UNCHANGED timers
  <2> HIDE DEF b
  <2> QED BY <1>1, <1>2, <1>4, PersistType DEF TypeOK
<1>5. CASE /\ env' = checkpointLater(armed(e))
           /\ timers' = timers \cup {armed(e).journal.deadline}
           /\ UNCHANGED <<disk, faults>>
  BY <1>5, ArmedType, CheckpointTypes DEF TypeOK
<1> QED BY <1>3, <1>4, <1>5 DEF scheduleIfIdle

LEMMA RowTypes ==
    ASSUME NEW e \in Environments, NEW s \in Sessions
    PROVE  /\ dropRow(e, s) \in Environments
           /\ dropHandle(e, s) \in Environments
           /\ orphanRow(e, s) \in Environments
           /\ \A R \in SUBSET Rows : orphans(R) \subseteq Rows
<1>. DEFINE R == {IF r.session = s THEN [r EXCEPT !.orphan = TRUE] ELSE r : r \in e.journal.rows}
            D == {r \in e.journal.rows : r.session # s}
<1>1. e.journal.rows \subseteq Rows
  BY EnvironmentFields, JournalFields
<1>2. R \subseteq Rows /\ D \subseteq Rows
  BY <1>1 DEF Rows
<1>3. orphanRow(e, s) \in Environments
  <2>1. orphanRow(e, s) = [e EXCEPT !.journal.rows = R]
    BY DEF orphanRow
  <2> HIDE DEF R
  <2> QED BY ZenonT(60), <1>2, <2>1 DEF Environments, Journals
<1>4. dropRow(e, s) \in Environments
  <2>1. dropRow(e, s) = [e EXCEPT !.journal.rows = D]
    BY DEF dropRow
  <2> HIDE DEF D
  <2> QED BY ZenonT(60), <1>2, <2>1 DEF Environments, Journals
<1>5. dropHandle(e, s) \in Environments
  BY DEF dropHandle, Environments
<1>6. \A X \in SUBSET Rows : orphans(X) \subseteq Rows
  BY DEF orphans, Rows
<1> QED BY <1>3, <1>4, <1>5, <1>6

LEMMA OwnerOrphansType ==
    ASSUME NEW owners \in SUBSET Sessions, NEW g \in Nat
    PROVE  ownerOrphans(owners, g) \subseteq Rows
<1>1. ASSUME NEW s \in owners
      PROVE  row(s, g, TRUE) \in Rows
  BY <1>1 DEF row, Rows
<1> QED BY <1>1 DEF ownerOrphans

LEMMA AttemptTypes ==
    ASSUME daemon \in Nat, NEW inc \in Incarnations, NEW e \in Environments,
           NEW kind \in {"automatic", "explicit-recovery"}
    PROVE  /\ \A st \in {"planned", "invoked"} :
                 withAttempt(e, attempt(inc, kind, st)) \in Environments
           /\ withAttempt(e, NoAttempt) \in Environments
           /\ invoked(e, inc, kind) \in Environments
<1>1. ASSUME NEW a \in Attempts
      PROVE  withAttempt(e, a) \in Environments
  BY <1>1, ConstantTypes DEF withAttempt, Environments, Journals
<1>2. \A st \in {"planned", "invoked"} : attempt(inc, kind, st) \in Attempts
  BY DEF attempt, Attempts
<1>3. ASSUME NEW f \in Environments
      PROVE  [f EXCEPT !.stopCancel = TRUE, !.stopDone = TRUE] \in Environments
  BY <1>3 DEF Environments
<1>4. invoked(e, inc, kind) \in Environments
  BY <1>1, <1>2, <1>3 DEF invoked
<1> QED BY <1>1, <1>2, <1>4, ConstantTypes

LEMMA StopCommittedType ==
    ASSUME TypeOK, NEW e \in Environments, NEW res \in StopResults
    PROVE  stopCommitted(e, res) \in Environments
<1>. DEFINE f == stopFinished(e)
            R == IF res = "unproved" THEN orphans(f.journal.rows) ELSE {}
            c == IF res = "unproved"
                 THEN blockedReconciliation(daemon, "cleanup-unproved")
                 ELSE completeReconciliation(daemon)
<1>1. f \in Environments
  BY DEF stopFinished, Environments
<1>2. f.journal.rows \subseteq Rows
  BY <1>1, EnvironmentFields, JournalFields
<1>3. R \subseteq Rows
  BY <1>2 DEF orphans, Rows
<1>4. c \in Reconciliations
  BY ReconciliationTypes DEF TypeOK, Reasons
<1>5. ASSUME NEW g \in Environments, NEW st \in {"unknown", "committed"}
      PROVE  [g EXCEPT !.journal.attempt.state = st] \in Environments
  BY <1>5 DEF Environments, Journals, Attempts
<1>6. CASE res = "unknown"
  <2>1. [f EXCEPT !.obs = [state |-> "unknown", boot |-> 0], !.journal.attempt.state = "unknown",
                  !.blocked = TRUE] \in Environments
    <3> HIDE DEF f
    <3> QED BY <1>1, ObservationType DEF Environments, Journals, Attempts
  <2> QED BY <1>6, <2>1 DEF stopCommitted
<1>7. CASE res # "unknown"
  <2>. DEFINE b == (res = "unproved")
  <2>1. [f EXCEPT !.obs = observation(0), !.journal.attempt.state = "committed",
                  !.journal.inc = NoInc, !.journal.rows = R, !.blocked = b,
                  !.journal.recon = c] \in Environments
    <3>. DEFINE j == [f.journal EXCEPT !.attempt.state = "committed", !.inc = NoInc,
                                       !.rows = R, !.recon = c]
    <3>1. b \in BOOLEAN /\ observation(0) \in Observations
      BY ObservationType
    <3> HIDE DEF f, R, c, b
    <3>2. j \in Journals
      <4>1. f.journal \in Journals
        BY <1>1, EnvironmentFields
      <4> QED BY <1>3, <1>4, <4>1, ConstantTypes DEF Journals, Attempts
    <3>3. [f EXCEPT !.obs = observation(0), !.journal.attempt.state = "committed",
                    !.journal.inc = NoInc, !.journal.rows = R, !.blocked = b,
                    !.journal.recon = c]
            = [f EXCEPT !.obs = observation(0), !.blocked = b, !.journal = j]
      BY <1>1 DEF Environments, Journals
    <3> HIDE DEF j
    <3>4. [f EXCEPT !.obs = observation(0), !.blocked = b, !.journal = j] \in Environments
      BY <1>1, <3>1, <3>2 DEF Environments
    <3> QED BY <3>3, <3>4
  <2> QED BY <1>7, <2>1 DEF stopCommitted
<1> QED BY <1>6, <1>7

LEMMA FencedType ==
    ASSUME NEW e \in Environments, NEW d \in Nat
    PROVE  fenced(e, d) \in Environments
<1>. DEFINE n == e.deadlineSeq + 1
            g == IF e.journal.gen = 0 THEN 1 ELSE e.journal.gen
            c == [daemon |-> d, state |-> "pending", reason |-> "reconciliation-pending"]
<1>1. n \in Nat /\ g \in Nat
  BY SMTT(60), EnvironmentFields, JournalFields
<1>2. c \in Reconciliations
  BY ReconciliationTypes
<1>3. fenced(e, d) = [e EXCEPT !.deadlineSeq = n, !.journal.deadline = NoDeadline,
                               !.journal.gen = g, !.blocked = TRUE, !.reconciling = TRUE,
                               !.journal.recon = c]
  BY DEF fenced
<1>4. [e EXCEPT !.deadlineSeq = n, !.journal.deadline = NoDeadline,
                !.journal.gen = g, !.blocked = TRUE, !.reconciling = TRUE,
                !.journal.recon = c] \in Environments
  <2> HIDE DEF n, g, c
  <2> QED BY <1>1, <1>2, ConstantTypes DEF Environments, Journals
<1> QED BY <1>3, <1>4

LEMMA BlockedFenceType ==
    ASSUME daemon \in Nat, NEW e \in Environments, NEW why \in Reasons
    PROVE  blockedFence(e, why) \in Environments
<1>1. ASSUME NEW f \in Environments
      PROVE  [f EXCEPT !.journal.deadline = NoDeadline, !.journal.attempt = NoAttempt,
                       !.reconciling = FALSE] \in Environments
  BY <1>1, ConstantTypes DEF Environments, Journals
<1> QED BY <1>1, BlockType DEF blockedFence

LEMMA WithIntentType ==
    ASSUME daemon \in Nat, NEW e \in Environments
    PROVE  withIntent(e) \in Environments
<1>. DEFINE j == [newJournal(daemon) EXCEPT !.gen = 1,
                    !.recon = blockedReconciliation(daemon, "disposal-in-progress")]
            f == IF e.journal.gen # 0 THEN e ELSE [e EXCEPT !.journal = j]
            d == IF f.journal.disposal.state \in {"none", "blocked"}
                 THEN [state |-> "planned", gen |-> f.journal.gen]
                 ELSE f.journal.disposal
<1>1. j \in Journals
  <2>1. newJournal(daemon) \in Journals
    BY JournalType
  <2>2. blockedReconciliation(daemon, "disposal-in-progress") \in Reconciliations
    BY ReconciliationTypes DEF Reasons
  <2> QED BY <2>1, <2>2 DEF Journals
<1>2. f \in Environments
  <2> HIDE DEF j
  <2> QED BY <1>1 DEF Environments
<1>3. d \in Disposals
  <2>1. f.journal.gen \in Nat /\ f.journal.disposal \in Disposals
    BY <1>2, EnvironmentFields, JournalFields
  <2> HIDE DEF f
  <2> QED BY <2>1 DEF Disposals
<1>4. withIntent(e) = [f EXCEPT !.journal.disposal = d]
  BY DEF withIntent
<1> HIDE DEF f, d
<1> QED BY ZenonT(60), <1>2, <1>3, <1>4 DEF Environments, Journals

LEMMA SelectIncarnationType ==
    ASSUME NEW j \in Journals, NEW o \in Observations
    PROVE  selectIncarnation(j, o) \in Journals
<1>. DEFINE g == j.gen + 1
            i == [gen |-> g, boot |-> o.boot]
<1>1. g \in Nat /\ i \in Incarnations
  BY SMTT(60), JournalFields DEF Observations, Incarnations
<1>2. [j EXCEPT !.gen = g, !.inc = i, !.rows = {}, !.attempt = NoAttempt] \in Journals
  <2> HIDE DEF g, i
  <2> QED BY <1>1, ConstantTypes DEF Journals
<1> QED BY <1>2 DEF selectIncarnation

LEMMA RelinquishedType ==
    ASSUME NEW e \in Environments, NEW o \in Observations
    PROVE  relinquished(e, o) \in Environments
BY ZenonT(60), ConstantTypes DEF relinquished, Environments, Journals

LEMMA CompletedType ==
    ASSUME daemon \in Nat, NEW f \in Environments
    PROVE  completed(f) \in Environments
BY ReconciliationTypes DEF completed, Environments, Journals

LEMMA ClassifiedType ==
    ASSUME TypeOK, NEW f \in Environments, NEW o \in Observations,
           NEW owners \in SUBSET Sessions, NEW unproved \in BOOLEAN
    PROVE  classified(f, o, owners, unproved) \in Environments
<1>. DEFINE g == f.journal.gen
            i == [gen |-> g + 1, boot |-> o.boot]
<1>1. g \in Nat /\ g + 1 \in Nat /\ f.journal.rows \subseteq Rows
  BY SMTT(60), EnvironmentFields, JournalFields
<1>2. i \in Incarnations
  BY <1>1 DEF Observations, Incarnations
<1>3. completed(f) \in Environments
  BY CompletedType DEF TypeOK
<1>4. ASSUME NEW h \in Environments, NEW R \in SUBSET Rows
      PROVE  /\ [h EXCEPT !.journal.rows = R] \in Environments
             /\ [h EXCEPT !.journal.inc = NoInc, !.journal.rows = R] \in Environments
             /\ [h EXCEPT !.journal.gen = g + 1, !.journal.inc = i, !.journal.rows = R]
                   \in Environments
  <2> HIDE DEF g, i
  <2> QED BY <1>1, <1>2, <1>4, ConstantTypes DEF Environments, Journals
<1>5. \A why \in Reasons : /\ blockEnv(f, why) \in Environments
                           /\ blockEnv(f, why).journal.rows = f.journal.rows
  <2>1. \A why \in Reasons : blockEnv(f, why) \in Environments
    BY BlockType DEF TypeOK
  <2>2. \A why : blockEnv(f, why).journal.rows = f.journal.rows
    BY DEF blockEnv, Environments, Journals
  <2> QED BY <2>1, <2>2
<1>6. \A X \in SUBSET Rows : orphans(X) \subseteq Rows
  BY DEF orphans, Rows
<1>7. /\ \A X \in SUBSET owners : ownerOrphans(X, g) \subseteq Rows
      /\ ownerOrphans(owners, g + 1) \subseteq Rows
  <2> HIDE DEF g
  <2> QED BY <1>1, OwnerOrphansType
<1>8. CASE o.state = "stopped"
  BY <1>3, <1>4, <1>8 DEF classified
<1>9. CASE o.state = "unknown"
  <2>1. "backend-unknown" \in Reasons /\ orphans(f.journal.rows) \subseteq Rows
    BY <1>1, <1>6 DEF Reasons
  <2> QED BY <1>4, <1>5, <1>9, <2>1 DEF classified
<1>10. CASE o.state \notin {"stopped", "unknown"} /\ ~matches(f.journal.inc, o)
  <2>1. "backend-incarnation-changed" \in Reasons
    BY DEF Reasons
  <2> QED BY <1>4, <1>5, <1>7, <1>10, <2>1 DEF classified
<1>11. CASE o.state \notin {"stopped", "unknown"} /\ matches(f.journal.inc, o) /\ unproved
  <2>. DEFINE b == blockEnv(f, "provider-state-unproved")
              R == orphans(b.journal.rows) \cup
                     ownerOrphans(owners \ {r.session : r \in b.journal.rows}, g)
  <2>1. b \in Environments /\ b.journal.rows = f.journal.rows
    BY <1>5 DEF Reasons
  <2>2. R \in SUBSET Rows
    <3> HIDE DEF b, g
    <3> QED BY <1>1, <1>6, <1>7, <2>1
  <2>3. classified(f, o, owners, unproved) = [b EXCEPT !.journal.rows = R]
    BY <1>11 DEF classified
  <2> HIDE DEF b, R
  <2> QED BY <1>4, <2>1, <2>2, <2>3
<1>12. CASE /\ o.state \notin {"stopped", "unknown"} /\ matches(f.journal.inc, o)
            /\ ~unproved /\ owners # {}
  <2>1. "owner-requires-explicit-recovery" \in Reasons /\ ownerOrphans(owners, g) \subseteq Rows
    BY <1>7 DEF Reasons
  <2> QED BY <1>4, <1>5, <1>12, <2>1 DEF classified
<1>13. CASE /\ o.state \notin {"stopped", "unknown"} /\ matches(f.journal.inc, o)
            /\ ~unproved /\ owners = {}
  BY <1>3, <1>4, <1>13, CheckpointTypes, ArmedType DEF classified
<1> QED BY <1>8, <1>9, <1>10, <1>11, <1>12, <1>13

LEMMA ReconciledType ==
    ASSUME TypeOK, NEW e \in Environments, NEW o \in Observations,
           NEW owners \in SUBSET Sessions, NEW unproved \in BOOLEAN
    PROVE  reconciled(e, o, owners, unproved) \in Environments
BY RelinquishedType, ClassifiedType DEF reconciled

-----------------------------------------------------------------------------
(* The type invariant *)

LEMMA TypeInit == Init => TypeOK
<1> SUFFICES ASSUME Init
             PROVE  TypeOK
  OBVIOUS
<1>1. env \in Environments /\ disk \in Journals
  BY NoJournalType, EnvironmentType DEF Init
<1>2. stopper \in [pc : {"none", "invoked", "returned"}, inc : Incarnations]
  BY ConstantTypes DEF Init, idleStopper
<1>3. /\ phase \in [Sessions -> Phases] /\ seen \in [Sessions -> Observations]
      /\ einc \in [Sessions -> Incarnations]
  BY ConstantTypes DEF Init, Phases
<1> QED BY <1>1, <1>2, <1>3 DEF Init, TypeOK

(* A session's phase changes to a phase.                                   *)
LEMMA BecomesType ==
    ASSUME TypeOK, NEW s \in Sessions, NEW p \in Phases, becomes(s, p)
    PROVE  phase' \in [Sessions -> Phases]
BY DEF TypeOK, becomes

LEMMA ForgetSessionType ==
    ASSUME TypeOK, NEW s \in Sessions, forgetSession(s)
    PROVE  seen' \in [Sessions -> Observations] /\ einc' \in [Sessions -> Incarnations]
BY ConstantTypes DEF TypeOK, forgetSession

LEMMA UnloadType ==
    ASSUME unload
    PROVE  loaded' \in BOOLEAN /\ env' \in Environments
BY NoJournalType, EnvironmentType DEF unload

LEMMA ReleaseType ==
    ASSUME TypeOK, NEW kind, NEW who, release(kind, who)
    PROVE  claims' \subseteq Claims
BY DEF TypeOK, release

LEMMA ClaimTypes ==
    /\ \A s \in Sessions : claim("attach", s) \in Claims
    /\ \A k \in {"stop", "reconcile", "disposal", "cleanup"} : claim(k, NoSession) \in Claims
BY DEF claim, Claims

LEMMA SessionTypeStep ==
    ASSUME TypeOK, NEW s \in Sessions, SessionNext(s)
    PROVE  TypeOK'
<1>. USE DEF sessionVars, actorVars, backendVars, boundVars
<1>1. current \in Environments /\ env \in Environments
  BY LoadType DEF TypeOK
<1>2. CASE Reserve(s)
  <2>. DEFINE c == cancelDeadlineForAttach(current)
  <2>1. c \in Environments
    BY <1>1, CancelType
  <2>2. env' = [c EXCEPT !.establishing = @ \cup {s}]
    BY <1>2 DEF Reserve
  <2>3. env' \in Environments
    <3> HIDE DEF c
    <3> QED BY <2>1, <2>2 DEF Environments
  <2>4. phase' \in [Sessions -> Phases]
    BY <1>2, BecomesType DEF Reserve, Phases
  <2> QED BY SMTT(60), <1>2, <2>3, <2>4, ClaimTypes DEF Reserve, asks, TypeOK
<1>3. CASE ReserveWait(s)
  <2>1. phase' \in [Sessions -> Phases]
    BY <1>3, BecomesType DEF ReserveWait, Phases
  <2> QED BY SMTT(60), <1>3, <2>1 DEF ReserveWait, asks, TypeOK
<1>4. CASE ReserveRefused(s)
  <2>1. phase' \in [Sessions -> Phases]
    BY <1>4, BecomesType DEF ReserveRefused, Phases
  <2> QED BY <1>4, <2>1 DEF ReserveRefused, asks, TypeOK
<1>5. CASE ReserveGivesUp(s)
  <2>1. phase' \in [Sessions -> Phases]
    BY <1>5, BecomesType DEF ReserveGivesUp, Phases
  <2> QED BY <1>5, <2>1 DEF ReserveGivesUp, TypeOK
<1>6. CASE Observe(s)
  <2>1. phase' \in [Sessions -> Phases]
    BY <1>6, BecomesType DEF Observe, Phases
  <2>2. observation(vm) \in Observations
    BY ObservationType DEF TypeOK
  <2> QED BY <1>6, <2>1, <2>2 DEF Observe, TypeOK
<1>7. CASE Prepare(s)
  <2>. DEFINE j == selectIncarnation(env.journal, seen[s])
  <2>1. phase' \in [Sessions -> Phases]
    BY <1>7, BecomesType DEF Prepare, Phases
  <2>2. seen[s] \in Observations /\ j \in Journals
    BY <1>1, EnvironmentFields, SelectIncarnationType DEF TypeOK
  <2>3. j.inc \in Incarnations
    BY <2>2, JournalFields
  <2>4. env' = [env EXCEPT !.obs = seen[s], !.journal = j] /\ einc' = [einc EXCEPT ![s] = j.inc]
    BY <1>7 DEF Prepare
  <2>5. env' \in Environments
    <3> HIDE DEF j
    <3> QED BY <1>1, <2>2, <2>4 DEF Environments
  <2>6. einc' \in [Sessions -> Incarnations]
    <3> HIDE DEF j
    <3> QED BY <2>3, <2>4 DEF TypeOK
  <2> QED BY <1>7, <2>1, <2>5, <2>6, ConstantTypes DEF Prepare, TypeOK
<1>8. CASE Promote(s)
  <2>. DEFINE r == row(s, einc[s].gen, FALSE)
              c == completeReconciliation(daemon)
  <2>1. phase' \in [Sessions -> Phases]
    BY <1>8, BecomesType DEF Promote, Phases
  <2>2. r \in Rows
    BY DEF TypeOK, Incarnations, row, Rows
  <2>3. c \in Reconciliations
    BY ReconciliationTypes DEF TypeOK
  <2>4. env' = [env EXCEPT !.handles = @ \cup {s}, !.establishing = @ \ {s},
                           !.journal.rows = @ \cup {r}, !.journal.recon = c]
    BY <1>8 DEF Promote
  <2>5. env' \in Environments
    <3> HIDE DEF r, c
    <3> QED BY ZenonT(60), <1>1, <2>2, <2>3, <2>4 DEF Environments, Journals
  <2> QED BY <1>8, <2>1, <2>5, ReleaseType DEF Promote, TypeOK
<1>9. CASE Abort(s)
  <2>. DEFINE e == [env EXCEPT !.establishing = @ \ {s}]
  <2>1. phase' \in [Sessions -> Phases]
    BY <1>9, BecomesType DEF Abort, Phases
  <2>2. seen' \in [Sessions -> Observations] /\ einc' \in [Sessions -> Incarnations]
    BY <1>9, ForgetSessionType DEF Abort
  <2>3. e \in Environments
    BY <1>1 DEF Environments
  <2>4. /\ loaded' \in BOOLEAN /\ env' \in Environments /\ claims' \subseteq Claims
        /\ disk' \in Journals /\ timers' \subseteq Deadlines /\ faults' \in Nat
    <3>1. CASE loaded /\ s \in env.establishing /\ mode = "up" /\ e.establishing = {} /\ e.handles = {}
      <4>1. CASE e.journal.gen = 0 /\ e.journal.inc = NoInc
        <5>1. unload /\ release("attach", s) /\ UNCHANGED <<disk, timers, faults>>
          BY <1>9, <3>1, <4>1 DEF Abort
        <5> QED BY <5>1, UnloadType, ReleaseType DEF TypeOK
      <4>2. CASE ~(e.journal.gen = 0 /\ e.journal.inc = NoInc)
        <5>1. PICK ok \in BOOLEAN :
                /\ scheduleIfIdle(e, ok)
                /\ IF ok THEN release("attach", s) ELSE UNCHANGED claims
                /\ UNCHANGED loaded
          BY <1>9, <3>1, <4>2 DEF Abort
        <5> HIDE DEF e
        <5>2. claims' \subseteq Claims
          BY <5>1, ReleaseType DEF TypeOK
        <5>3. /\ env' \in Environments /\ disk' \in Journals
              /\ timers' \subseteq Deadlines /\ faults' \in Nat
          BY <2>3, <5>1, ScheduleType
        <5> QED BY <5>1, <5>2, <5>3 DEF TypeOK
      <4> QED BY <4>1, <4>2
    <3>2. CASE ~(loaded /\ s \in env.establishing /\ mode = "up" /\ e.establishing = {} /\ e.handles = {})
      <4>1. /\ env' \in {e, env} /\ release("attach", s)
            /\ UNCHANGED <<loaded, disk, timers, faults>>
        BY <1>9, <3>2 DEF Abort
      <4> QED BY <1>1, <2>3, <4>1, ReleaseType DEF TypeOK
    <3> QED BY <3>1, <3>2
  <2> QED BY <1>9, <2>1, <2>2, <2>4 DEF Abort, TypeOK
<1>10. CASE Commit(s)
  <2>1. PICK ok \in BOOLEAN :
          /\ persist(env.journal, ok)
          /\ env' = [checkpointNow(env) EXCEPT !.committed = IF ok THEN @ \cup {s} ELSE @]
    BY <1>10 DEF Commit
  <2>2. disk' \in Journals /\ faults' \in Nat
    BY <1>1, <2>1, EnvironmentFields, PersistType
  <2>3. checkpointNow(env) \in Environments
    BY <1>1, CheckpointTypes
  <2>4. env' \in Environments
    BY <2>1, <2>3 DEF Environments
  <2> QED BY <1>10, <2>2, <2>4 DEF Commit, TypeOK
<1>11. CASE StartBackend(s)
  BY SMTT(60), <1>11 DEF StartBackend, TypeOK
<1>12. CASE BindBoot(s)
  <2>. DEFINE e == [env EXCEPT !.journal.inc.boot = vm, !.obs = observation(vm)]
  <2>1. observation(vm) \in Observations
    BY ObservationType DEF TypeOK
  <2>2. e \in Environments
    BY <1>1, <2>1 DEF TypeOK, Environments, Journals, Incarnations
  <2>3. e.journal \in Journals
    BY <2>2, EnvironmentFields
  <2>4. env' \in Environments /\ disk' \in Journals /\ faults' \in Nat
    <3>1. CASE env.journal.inc.boot = 0
      <4>1. PICK ok \in BOOLEAN : persist(e.journal, ok) /\ env' = checkpointNow(e)
        BY <1>12, <3>1 DEF BindBoot
      <4> HIDE DEF e
      <4> QED BY <2>2, <2>3, <4>1, PersistType, CheckpointTypes
    <3>2. CASE env.journal.inc.boot # 0
      <4>1. env' = checkpointLater(e) /\ UNCHANGED <<disk, faults>>
        BY <1>12, <3>2 DEF BindBoot
      <4> HIDE DEF e
      <4> QED BY <2>2, <4>1, CheckpointTypes DEF TypeOK
    <3> QED BY <3>1, <3>2
  <2>5. einc' \in [Sessions -> Incarnations]
    <3>1. e.journal.inc \in Incarnations
      BY <2>3, JournalFields
    <3>2. einc' = [einc EXCEPT ![s] = e.journal.inc] \/ einc' = einc
      BY <1>12 DEF BindBoot
    <3> HIDE DEF e
    <3> QED BY <3>1, <3>2 DEF TypeOK
  <2> QED BY <1>12, <2>4, <2>5 DEF BindBoot, TypeOK
<1>13. CASE AbortRegistration(s)
  <2>. DEFINE e == dropHandle(dropRow(env, s), s)
  <2>1. e \in Environments
    BY <1>1, RowTypes
  <2>2. /\ env' \in Environments /\ disk' \in Journals
        /\ timers' \subseteq Deadlines /\ faults' \in Nat
    <3>1. CASE e.handles = {}
      <4>1. PICK ok \in BOOLEAN : scheduleIfIdle(e, ok)
        BY <1>13, <3>1 DEF AbortRegistration
      <4> HIDE DEF e
      <4> QED BY <2>1, <4>1, ScheduleType
    <3>2. CASE e.handles # {}
      BY <1>13, <2>1, <3>2 DEF AbortRegistration, TypeOK
    <3> QED BY <3>1, <3>2
  <2>3. /\ phase' \in [Sessions -> Phases]
        /\ seen' \in [Sessions -> Observations] /\ einc' \in [Sessions -> Incarnations]
    BY <1>13, BecomesType, ForgetSessionType DEF AbortRegistration, Phases
  <2> QED BY <1>13, <2>2, <2>3 DEF AbortRegistration, TypeOK
<1>14. CASE BeginFinish(s)
  <2>1. phase' \in [Sessions -> Phases]
    BY <1>14, BecomesType DEF BeginFinish, Phases
  <2>2. env' \in Environments
    BY <1>1, <1>14 DEF BeginFinish, Environments
  <2> QED BY <1>14, <2>1, <2>2 DEF BeginFinish, TypeOK
<1>15. CASE Release(s)
  <2>1. phase' \in [Sessions -> Phases]
    BY <1>15, BecomesType DEF Release, Phases
  <2>2. env' \in Environments
    BY <1>1, <1>15, RowTypes, CheckpointTypes DEF Release
  <2>3. env'.journal \in Journals
    BY <2>2, EnvironmentFields
  <2>4. disk' \in Journals /\ faults' \in Nat
    BY <1>15, <2>3, PersistType DEF Release, TypeOK
  <2> QED BY <1>15, <2>1, <2>2, <2>4 DEF Release, TypeOK
<1>16. CASE FinishRegistration(s)
  <2>. DEFINE e == dropHandle(env, s)
  <2>1. e \in Environments /\ blockEnv(e, "cleanup-unproved") \in Environments
    BY <1>1, RowTypes, BlockType DEF TypeOK, Reasons
  <2>2. /\ env' \in Environments /\ disk' \in Journals
        /\ timers' \subseteq Deadlines /\ faults' \in Nat
    <3>1. CASE /\ env' = blockEnv(e, "cleanup-unproved")
               /\ \E ok \in BOOLEAN : persist(env'.journal, ok)
               /\ UNCHANGED timers
      <4>1. env'.journal \in Journals
        BY <2>1, <3>1, EnvironmentFields
      <4> QED BY <2>1, <3>1, <4>1, PersistType DEF TypeOK
    <3>2. CASE env' = checkpointLater(e) /\ UNCHANGED <<disk, timers, faults>>
      BY <2>1, <3>2, CheckpointTypes DEF TypeOK
    <3>3. CASE \E ok \in BOOLEAN : scheduleIfIdle(e, ok)
      <4> HIDE DEF e
      <4> QED BY <2>1, <3>3, ScheduleType
    <3> QED BY <1>16, <3>1, <3>2, <3>3 DEF FinishRegistration
  <2>3. /\ phase' \in [Sessions -> Phases]
        /\ seen' \in [Sessions -> Observations] /\ einc' \in [Sessions -> Incarnations]
    BY <1>16, BecomesType, ForgetSessionType DEF FinishRegistration, Phases
  <2> QED BY <1>16, <2>2, <2>3 DEF FinishRegistration, TypeOK
<1> QED BY <1>2, <1>3, <1>4, <1>5, <1>6, <1>7, <1>8, <1>9, <1>10, <1>11, <1>12, <1>13,
           <1>14, <1>15, <1>16 DEF SessionNext

LEMMA TimerTypeStep ==
    ASSUME TypeOK, NEW t \in timers, TimerNext(t)
    PROVE  TypeOK'
<1>. USE DEF sessionVars, actorVars, backendVars, boundVars
<1>1. env \in Environments /\ t \in Deadlines /\ t.inc \in Incarnations /\ daemon \in Nat
  BY DEF TypeOK, Deadlines
<1>2. CASE ExpireStale(t)
  BY <1>2 DEF ExpireStale, TypeOK
<1>3. CASE ExpireRefused(t)
  <2>1. env' \in Environments
    <3>1. ASSUME NEW e \in Environments
          PROVE  /\ [e EXCEPT !.journal.deadline = NoDeadline] \in Environments
                 /\ [e EXCEPT !.blocked = FALSE] \in Environments
      BY <3>1, ConstantTypes DEF Environments, Journals
    <3>2. blockEnv(env, "backend-observation-unproved") \in Environments
      BY <1>1, BlockType DEF Reasons
    <3> QED BY <1>1, <1>3, <3>1, <3>2 DEF ExpireRefused
  <2>2. env'.journal \in Journals
    BY <2>1, EnvironmentFields
  <2>3. disk' \in Journals /\ faults' \in Nat
    BY <1>3, <2>2, PersistType DEF ExpireRefused
  <2> QED BY <1>3, <2>1, <2>3 DEF ExpireRefused, TypeOK
<1>4. CASE ExpireDeferred(t)
  <2>1. env' \in Environments /\ timers' \subseteq Deadlines
    BY <1>1, <1>4, ArmedType, CheckpointTypes DEF ExpireDeferred, TypeOK
  <2> QED BY <1>4, <2>1 DEF ExpireDeferred, TypeOK
<1>5. CASE Expire(t)
  <2>. DEFINE planned == withAttempt(env, attempt(t.inc, "automatic", "planned"))
              started == invoked(env, t.inc, "automatic")
              skipped == withAttempt(env, NoAttempt)
  <2>1. /\ planned \in Environments /\ started \in Environments /\ skipped \in Environments
        /\ [planned EXCEPT !.blocked = TRUE] \in Environments
    <3>1. planned \in Environments /\ started \in Environments /\ skipped \in Environments
      BY <1>1, AttemptTypes
    <3> HIDE DEF planned, started, skipped
    <3> QED BY <3>1 DEF Environments
  <2>2. planned.journal \in Journals /\ started.journal \in Journals /\ skipped.journal \in Journals
    BY <2>1, EnvironmentFields
  <2>3. /\ env' \in Environments /\ disk' \in Journals /\ faults' \in Nat
        /\ claims' \subseteq Claims
        /\ stopper' \in [pc : {"none", "invoked", "returned"}, inc : Incarnations]
    <3>1. CASE /\ persist(planned.journal, FALSE)
               /\ env' = [planned EXCEPT !.blocked = TRUE]
               /\ UNCHANGED <<claims, stopper>>
      <4> HIDE DEF planned
      <4> QED BY <2>1, <2>2, <3>1, PersistType DEF TypeOK
    <3>2. CASE /\ persistTwice(planned.journal, skipped.journal)
               /\ env' = skipped
               /\ UNCHANGED <<claims, stopper>>
      <4> HIDE DEF planned, skipped
      <4> QED BY <2>1, <2>2, <3>2, PersistTwiceType DEF TypeOK
    <3>3. CASE /\ persistTwice(planned.journal, started.journal)
               /\ env' = started
               /\ claims' = claims \cup {claim("stop", NoSession)}
               /\ stopper' = [pc |-> "invoked", inc |-> t.inc]
      <4> HIDE DEF planned, started
      <4>1. disk' \in Journals /\ faults' \in Nat
        BY <2>2, <3>3, PersistTwiceType
      <4> QED BY <1>1, <2>1, <3>3, <4>1, ClaimTypes DEF TypeOK
    <3> QED BY <1>5, <3>1, <3>2, <3>3 DEF Expire
  <2> QED BY <1>5, <2>3 DEF Expire, TypeOK
<1> QED BY <1>2, <1>3, <1>4, <1>5 DEF TimerNext

LEMMA StopTypeStep ==
    ASSUME TypeOK, \/ StopExplicit \/ BackendStop \/ (\E res \in StopResults : StopReturn(res))
                   \/ StopRelease \/ Checkpoint
    PROVE  TypeOK'
<1>. USE DEF sessionVars, actorVars, backendVars, boundVars
<1>1. env \in Environments /\ current \in Environments /\ daemon \in Nat
  BY LoadType DEF TypeOK
<1>2. returned \in [pc : {"none", "invoked", "returned"}, inc : Incarnations]
  BY ConstantTypes DEF returned
<1>3. CASE StopExplicit
  <2>. DEFINE e == current
              c == cancelDeadline(e)
              a == withAttempt(c, attempt(e.journal.inc, "explicit-recovery", "invoked"))
              v == invoked(c, e.journal.inc, "explicit-recovery")
  <2>1. e.journal.inc \in Incarnations
    BY <1>1, EnvironmentFields, JournalFields
  <2>2. c \in Environments
    BY <1>1, CancelType
  <2>3. a \in Environments /\ v \in Environments
    <3> HIDE DEF c
    <3> QED BY <1>1, <2>1, <2>2, AttemptTypes
  <2>4. a.journal \in Journals
    BY <2>3, EnvironmentFields
  <2>5. /\ env' \in Environments /\ disk' \in Journals /\ faults' \in Nat
        /\ stopper' \in [pc : {"none", "invoked", "returned"}, inc : Incarnations]
    <3>1. CASE env' = e /\ stopper' = returned /\ UNCHANGED <<disk, faults>>
      BY <1>1, <1>2, <3>1 DEF TypeOK
    <3>2. CASE /\ \E o \in {"cancelFailed", "writeFailed", "written"} : cancelAndPersist(e, a.journal, o)
               /\ env' \in {c, a, v}
               /\ stopper' \in {returned, [pc |-> "invoked", inc |-> e.journal.inc]}
      <4>1. disk' \in Journals /\ faults' \in Nat
        <5> HIDE DEF a, e
        <5> QED BY <1>1, <2>4, <3>2, CancelAndPersistType DEF e
      <4> HIDE DEF a, c, v
      <4> QED BY SMTT(60), <1>2, <2>1, <2>2, <2>3, <3>2, <4>1
    <3> QED BY <1>3, <3>1, <3>2 DEF StopExplicit
  <2>6. requests' \in Nat
    BY SMTT(60), <1>3 DEF StopExplicit, request, TypeOK
  <2> QED BY <1>3, <2>5, <2>6, ClaimTypes DEF StopExplicit, TypeOK
<1>4. CASE BackendStop
  BY <1>4 DEF BackendStop, TypeOK
<1>5. ASSUME NEW res \in StopResults, StopReturn(res)
      PROVE  TypeOK'
  <2>1. env' \in Environments
    BY <1>1, <1>5, StopCommittedType DEF StopReturn
  <2>2. env'.journal \in Journals
    BY <2>1, EnvironmentFields
  <2>3. disk' \in Journals /\ faults' \in Nat
    BY <1>5, <2>2, PersistType DEF StopReturn, TypeOK
  <2> QED BY <1>2, <1>5, <2>1, <2>3 DEF StopReturn, TypeOK
<1>6. CASE StopRelease
  <2>1. idleStopper \in [pc : {"none", "invoked", "returned"}, inc : Incarnations]
    BY ConstantTypes DEF idleStopper
  <2> QED BY <1>6, <2>1, ReleaseType DEF StopRelease, TypeOK
<1>7. CASE Checkpoint
  <2>1. checkpointNow(env) \in Environments
    BY <1>1, CheckpointTypes
  <2>2. blockEnv(checkpointNow(env), "journal-checkpoint-failed") \in Environments
    BY <1>1, <2>1, BlockType DEF Reasons
  <2>3. disk' \in Journals /\ faults' \in Nat
    BY <1>1, <1>7, EnvironmentFields, PersistType DEF Checkpoint
  <2> QED BY <1>7, <2>1, <2>2, <2>3 DEF Checkpoint, TypeOK
<1> QED BY <1>3, <1>4, <1>5, <1>6, <1>7

LEMMA ReconciliationTypeStep ==
    ASSUME TypeOK, \/ BeginReconciliation \/ Reconcile \/ ReconcileRefused
                   \/ BlockReconciliation
    PROVE  TypeOK'
<1>. USE DEF sessionVars, actorVars, backendVars, boundVars
<1>1. env \in Environments /\ current \in Environments /\ daemon \in Nat
  BY LoadType DEF TypeOK
<1>2. CASE BeginReconciliation
  <2>. DEFINE f == fenced(current, daemon)
  <2>1. f \in Environments
    BY <1>1, FencedType
  <2>2. f.journal \in Journals /\ [f EXCEPT !.reconciling = FALSE] \in Environments
    <3> HIDE DEF f
    <3> QED BY <2>1 DEF Environments
  <2>3. \E ok \in BOOLEAN : persist(f.journal, ok)
    BY <1>2 DEF BeginReconciliation
  <2>4. disk' \in Journals /\ faults' \in Nat
    <3> HIDE DEF f
    <3> QED BY <2>2, <2>3, PersistType
  <2>5. env' \in Environments /\ claims' \subseteq Claims /\ worker' \subseteq {"probing", "failed"}
    BY <1>2, <2>1, <2>2, ClaimTypes DEF BeginReconciliation, TypeOK
  <2>6. requests' \in Nat
    BY SMTT(60), <1>2 DEF BeginReconciliation, request, TypeOK
  <2> QED BY <1>2, <2>4, <2>5, <2>6 DEF BeginReconciliation, TypeOK
<1>3. CASE Reconcile
  <2>1. PICK o \in probed, owners \in SUBSET Sessions, unproved \in BOOLEAN, ok \in BOOLEAN :
          /\ env' = reconciled(current, o, owners, unproved)
          /\ timers' = timers \cup ({env'.journal.deadline} \ {NoDeadline})
          /\ persist(env'.journal, ok)
          /\ worker' = (worker \ {"probing"}) \cup (IF ok THEN {} ELSE {"failed"})
    BY <1>3 DEF Reconcile
  <2>2. o \in Observations
    BY ObservationType DEF probed, TypeOK
  <2>3. env' \in Environments
    BY <1>1, <2>1, <2>2, ReconciledType
  <2>4. env'.journal \in Journals /\ env'.journal.deadline \in Deadlines
    BY <2>3, EnvironmentFields, JournalFields
  <2>5. disk' \in Journals /\ faults' \in Nat
    BY <2>1, <2>4, PersistType
  <2>6. timers' \subseteq Deadlines /\ worker' \subseteq {"probing", "failed"}
    BY <2>1, <2>4 DEF TypeOK
  <2>7. claims' \subseteq Claims /\ loaded' \in BOOLEAN
    BY <1>3, ReleaseType DEF Reconcile
  <2> QED BY <1>3, <2>3, <2>5, <2>6, <2>7 DEF Reconcile, TypeOK
<1>4. CASE ReconcileRefused
  BY <1>4 DEF ReconcileRefused, TypeOK
<1>5. CASE BlockReconciliation
  <2>1. env' \in Environments /\ worker' \subseteq {"probing", "failed"}
    <3>1. PICK w \in worker :
            /\ worker' = worker \ {w}
            /\ env' = blockedFence(current,
                          IF w = "failed" THEN "reconciliation-failed"
                                          ELSE "backend-provider-unavailable")
      BY <1>5 DEF BlockReconciliation
    <3>2. \A why \in Reasons : blockedFence(current, why) \in Environments
      BY <1>1, BlockedFenceType
    <3> QED BY <3>1, <3>2 DEF TypeOK, Reasons
  <2>2. env'.journal \in Journals
    BY <2>1, EnvironmentFields
  <2>3. disk' \in Journals /\ faults' \in Nat
    BY <1>5, <2>2, PersistType DEF BlockReconciliation
  <2>4. claims' \subseteq Claims /\ loaded' \in BOOLEAN
    BY <1>5, ReleaseType DEF BlockReconciliation, TypeOK
  <2> QED BY <1>5, <2>1, <2>3, <2>4 DEF BlockReconciliation, TypeOK
<1> QED BY <1>2, <1>3, <1>4, <1>5

LEMMA RemovalTypeStep ==
    ASSUME TypeOK, \/ BeginDisposal \/ DisposalCleanup \/ AdvanceDisposal \/ BlockDisposal
                   \/ CompleteDisposalMetadata
                   \/ BeginMutation \/ MutationCleanup \/ EndMutation \/ MutationRelease
                   \/ ForgetEnvironment
    PROVE  TypeOK'
<1>. USE DEF sessionVars, actorVars, backendVars, boundVars
<1>1. env \in Environments /\ current \in Environments /\ daemon \in Nat
  BY LoadType DEF TypeOK
<1>2. ASSUME NEW e \in Environments
      PROVE  /\ \A b \in BOOLEAN : [e EXCEPT !.mutation = b] \in Environments
             /\ [e EXCEPT !.mutation = TRUE, !.blocked = TRUE] \in Environments
             /\ \A c \in Reconciliations : [e EXCEPT !.journal.recon = c] \in Environments
             /\ [e EXCEPT !.journal.disposal.state = "blocked", !.mutation = FALSE]
                   \in Environments
             /\ \A st \in {"backend-absent", "metadata-cleaning"}, c \in Reconciliations :
                  [e EXCEPT !.journal.disposal.state = st, !.journal.recon = c] \in Environments
  BY ZenonT(60), <1>2 DEF Environments, Journals, Disposals
<1>3. \A why \in Reasons : blockedReconciliation(daemon, why) \in Reconciliations
  BY <1>1, ReconciliationTypes
<1>4. CASE BeginDisposal
  <2>. DEFINE e == withIntent(current)
              c == cancelDeadline(e)
              b == blockEnv(c, "disposal-in-progress")
  <2>1. e \in Environments /\ c \in Environments
    BY <1>1, WithIntentType, CancelType
  <2>2. b \in Environments
    <3> HIDE DEF c
    <3> QED BY <1>1, <2>1, BlockType DEF Reasons
  <2>3. b.journal \in Journals
    BY <2>2, EnvironmentFields
  <2>4. disk' \in Journals /\ faults' \in Nat
    <3>1. \E o \in {"cancelFailed", "writeFailed", "written"} : cancelAndPersist(e, b.journal, o)
      BY <1>4 DEF BeginDisposal
    <3> HIDE DEF e, b
    <3> QED BY <2>1, <2>3, <3>1, CancelAndPersistType
  <2>5. env' \in {c, b, [b EXCEPT !.mutation = TRUE]}
    BY <1>4 DEF BeginDisposal
  <2>6. env' \in Environments
    <3> HIDE DEF b, c
    <3> QED BY <1>2, <2>1, <2>2, <2>5
  <2>7. claims' \subseteq Claims /\ disposer' \in {"none", "active", "failed"} /\ requests' \in Nat
    BY SMTT(60), <1>4, ClaimTypes DEF BeginDisposal, request, TypeOK
  <2> QED BY <1>4, <2>4, <2>6, <2>7 DEF BeginDisposal, TypeOK
<1>5. CASE DisposalCleanup
  BY <1>5 DEF DisposalCleanup, TypeOK
<1>6. CASE AdvanceDisposal
  <2>1. PICK st \in nextDisposalState(env.journal.disposal.state), ok \in BOOLEAN :
          /\ env' = [env EXCEPT !.journal.disposal.state = st,
                       !.journal.recon = blockedReconciliation(daemon, "disposal-in-progress")]
          /\ persist(env'.journal, ok)
          /\ disposer' = IF ok THEN "active" ELSE "failed"
    BY <1>6 DEF AdvanceDisposal
  <2>2. st \in {"backend-absent", "metadata-cleaning"}
    BY DEF nextDisposalState
  <2>3. env' \in Environments
    BY <1>1, <1>2, <1>3, <2>1, <2>2 DEF Reasons
  <2>4. env'.journal \in Journals
    BY <2>3, EnvironmentFields
  <2>5. disk' \in Journals /\ faults' \in Nat
    BY <2>1, <2>4, PersistType
  <2> QED BY <1>6, <2>1, <2>3, <2>5 DEF AdvanceDisposal, TypeOK
<1>7. CASE BlockDisposal
  <2>1. blockEnv(current, "disposal-blocked") \in Environments
    BY <1>1, BlockType DEF Reasons
  <2>2. env' \in Environments
    BY <1>1, <1>2, <1>7, <2>1 DEF BlockDisposal
  <2>3. env'.journal \in Journals
    BY <2>2, EnvironmentFields
  <2>4. disk' \in Journals /\ faults' \in Nat
    BY <1>7, <2>3, PersistType DEF BlockDisposal, TypeOK
  <2>5. claims' \subseteq Claims /\ loaded' \in BOOLEAN
    BY <1>7, ReleaseType DEF BlockDisposal, TypeOK
  <2> QED BY <1>7, <2>2, <2>4, <2>5 DEF BlockDisposal, TypeOK
<1>8. CASE CompleteDisposalMetadata
  <2>1. blockEnv(env, "journal-removal-failed") \in Environments
    BY <1>1, BlockType DEF Reasons
  <2>2. env' \in Environments /\ loaded' \in BOOLEAN
    BY <1>2, <1>8, <2>1, UnloadType DEF CompleteDisposalMetadata, TypeOK
  <2>3. env'.journal \in Journals
    BY <2>2, EnvironmentFields
  <2>4. disk' \in Journals /\ faults' \in Nat
    BY <1>8, <2>3, RemoveType, RemoveFailedType DEF CompleteDisposalMetadata
  <2>5. claims' \subseteq Claims /\ disposer' \in {"none", "active", "failed"}
    BY <1>8, ReleaseType DEF CompleteDisposalMetadata
  <2> QED BY <1>8, <2>2, <2>4, <2>5 DEF CompleteDisposalMetadata, TypeOK
<1>9. CASE BeginMutation
  <2>. DEFINE c == cancelDeadline(current)
              b == blockEnv(c, "destructive-mutation-in-progress")
  <2>1. c \in Environments
    BY <1>1, CancelType
  <2>2. b \in Environments
    <3> HIDE DEF c
    <3> QED BY <1>1, <2>1, BlockType DEF Reasons
  <2>3. b.journal \in Journals
    BY <2>2, EnvironmentFields
  <2>4. disk' \in Journals /\ faults' \in Nat
    <3>1. \/ UNCHANGED <<disk, faults>>
          \/ \E o \in {"cancelFailed", "writeFailed", "written"} :
               cancelAndPersist(current, b.journal, o)
      BY <1>9 DEF BeginMutation
    <3> HIDE DEF b
    <3> QED BY <1>1, <2>3, <3>1, CancelAndPersistType DEF TypeOK
  <2>5. env' \in {c, b, [b EXCEPT !.mutation = TRUE],
                  [current EXCEPT !.mutation = TRUE, !.blocked = TRUE]}
    BY <1>9 DEF BeginMutation
  <2>6. env' \in Environments
    <3> HIDE DEF b, c
    <3> QED BY <1>1, <1>2, <2>1, <2>2, <2>5
  <2>7. claims' \subseteq Claims /\ mutator' \in {"none", "running", "returned"} /\ requests' \in Nat
    BY SMTT(60), <1>9, ClaimTypes DEF BeginMutation, request, TypeOK
  <2> QED BY <1>9, <2>4, <2>6, <2>7 DEF BeginMutation, TypeOK
<1>10. CASE MutationCleanup
  BY <1>10 DEF MutationCleanup, TypeOK
<1>11. CASE EndMutation
  <2>. DEFINE e == [env EXCEPT !.mutation = FALSE]
              failed == [e EXCEPT !.journal.recon =
                            blockedReconciliation(daemon, "cleanup-unproved")]
  <2>1. e \in Environments
    BY <1>1, <1>2
  <2>2. failed \in Environments
    <3> HIDE DEF e
    <3> QED BY <1>2, <1>3, <2>1 DEF Reasons
  <2>3. e.journal \in Journals /\ failed.journal \in Journals
    BY <2>1, <2>2, EnvironmentFields
  <2>4. /\ loaded' \in BOOLEAN /\ env' \in Environments /\ disk' \in Journals
        /\ faults' \in Nat
    <3>1. CASE UNCHANGED <<loaded, env, disk, faults>>
      BY <3>1 DEF TypeOK
    <3>2. CASE unload /\ UNCHANGED <<disk, faults>>
      BY <3>2, UnloadType DEF TypeOK
    <3>3. CASE env' = failed /\ (\E ok \in BOOLEAN : persist(failed.journal, ok)) /\ UNCHANGED loaded
      <4> HIDE DEF failed
      <4> QED BY <2>2, <2>3, <3>3, PersistType DEF TypeOK
    <3>4. CASE remove(TRUE) /\ unload
      BY <3>4, RemoveType, UnloadType
    <3>5. CASE removeFailed(e.journal) /\ env' = e /\ UNCHANGED loaded
      <4> HIDE DEF e
      <4> QED BY <2>1, <2>3, <3>5, RemoveFailedType DEF TypeOK
    <3> QED BY <1>11, <3>1, <3>2, <3>3, <3>4, <3>5 DEF EndMutation
  <2> QED BY <1>11, <2>4 DEF EndMutation, TypeOK
<1>12. CASE MutationRelease
  BY <1>12, ReleaseType DEF MutationRelease, TypeOK
<1>13. CASE ForgetEnvironment
  <2>1. disk' \in Journals /\ faults' \in Nat /\ env' \in Environments /\ loaded' \in BOOLEAN
    BY <1>1, <1>13, RemoveType, UnloadType DEF ForgetEnvironment
  <2>2. requests' \in Nat
    BY SMTT(60), <1>13 DEF ForgetEnvironment, request, TypeOK
  <2> QED BY <1>13, <2>1, <2>2 DEF ForgetEnvironment, TypeOK
<1> QED BY <1>4, <1>5, <1>6, <1>7, <1>8, <1>9, <1>10, <1>11, <1>12, <1>13

LEMMA DaemonTypeStep ==
    ASSUME TypeOK, Close \/ Exit \/ Start \/ VmLost
    PROVE  TypeOK'
<1>. USE DEF sessionVars, actorVars, backendVars, boundVars
<1>1. env \in Environments /\ disk \in Journals /\ daemon \in Nat /\ daemon + 1 \in Nat
  BY SMTT(60) DEF TypeOK
<1>2. CASE Close
  <2>. DEFINE f == [env EXCEPT !.establishing = {}, !.stopCancel = FALSE,
                               !.stopDone = FALSE, !.journal.deadline = NoDeadline]
              b == [blockEnv(f, "daemon-shutdown") EXCEPT !.reconciling = FALSE]
              e == IF env.reconciling THEN b ELSE f
  <2>1. f \in Environments
    BY <1>1, ConstantTypes DEF Environments, Journals
  <2>2. b \in Environments
    <3>1. blockEnv(f, "daemon-shutdown") \in Environments
      <4> HIDE DEF f
      <4> QED BY <1>1, <2>1, BlockType DEF Reasons
    <3> HIDE DEF f
    <3> QED BY <3>1 DEF Environments
  <2>3. e \in Environments
    <3> HIDE DEF f, b
    <3> QED BY <2>1, <2>2
  <2>4. e.journal \in Journals /\ checkpointNow(e) \in Environments
    BY <2>3, EnvironmentFields, CheckpointTypes
  <2>5. loaded' \in BOOLEAN /\ env' \in Environments /\ disk' \in Journals /\ faults' \in Nat
    <3>1. CASE loaded /\ env.journal.gen # 0
      <4>1. env' = checkpointNow(e) /\ (\E ok \in BOOLEAN : persist(e.journal, ok)) /\ UNCHANGED loaded
        BY <1>2, <3>1 DEF Close
      <4> HIDE DEF e
      <4> QED BY <2>4, <4>1, PersistType DEF TypeOK
    <3>2. CASE ~(loaded /\ env.journal.gen # 0)
      <4>1. unload /\ UNCHANGED <<disk, faults>>
        BY <1>2, <3>2 DEF Close
      <4> QED BY <4>1, UnloadType DEF TypeOK
    <3> QED BY <3>1, <3>2
  <2>6. requests' \in Nat
    BY SMTT(60), <1>2 DEF Close, request, TypeOK
  <2> QED BY <1>2, <2>5, <2>6 DEF Close, TypeOK
<1>3. CASE Exit
  <2>1. loaded' \in BOOLEAN /\ env' \in Environments
    BY <1>3, UnloadType DEF Exit
  <2>2. stopper' \in [pc : {"none", "invoked", "returned"}, inc : Incarnations]
    BY <1>3, ConstantTypes DEF Exit, idleStopper
  <2>3. /\ phase' \in [Sessions -> Phases] /\ seen' \in [Sessions -> Observations]
        /\ einc' \in [Sessions -> Incarnations]
    BY <1>3, ConstantTypes DEF Exit, Phases
  <2>4. requests' \in Nat
    BY SMTT(60), <1>3 DEF Exit, request, TypeOK
  <2> QED BY <1>3, <2>1, <2>2, <2>3, <2>4 DEF Exit, TypeOK
<1>4. CASE Start
  <2>. DEFINE l == IF disk.gen = 0
                   THEN registryEnvironment(newJournal(daemon + 1), FALSE)
                   ELSE registryEnvironment(disk, FALSE)
              f == fenced(l, daemon + 1)
              r == blockedReconciliation(daemon + 1, "environment-record-unavailable")
              b == [f EXCEPT !.journal.attempt = NoAttempt, !.reconciling = FALSE,
                             !.journal.recon = r]
  <2>1. l \in Environments
    BY <1>1, JournalType, EnvironmentType
  <2>2. f \in Environments
    <3> HIDE DEF l
    <3> QED BY <1>1, <2>1, FencedType
  <2>3. b \in Environments
    <3>1. r \in Reconciliations
      BY <1>1, ReconciliationTypes DEF Reasons
    <3> HIDE DEF f, r
    <3> QED BY <2>2, <3>1, ConstantTypes DEF Environments, Journals
  <2>4. f.journal \in Journals /\ b.journal \in Journals
    BY <2>2, <2>3, EnvironmentFields
  <2>5. /\ mode' \in {"down", "up", "closing"} /\ loaded' \in BOOLEAN
        /\ env' \in Environments /\ disk' \in Journals /\ faults' \in Nat
        /\ claims' \subseteq Claims /\ worker' \subseteq {"probing", "failed"}
    <3>1. CASE mode' = "up" /\ UNCHANGED <<loaded, env, disk, claims, worker, faults>>
      BY <3>1 DEF TypeOK
    <3>2. CASE /\ mode' = "up" /\ persist(f.journal, TRUE) /\ env' = f /\ loaded' = TRUE
               /\ claims' = {claim("reconcile", NoSession)} /\ worker' = {"probing"}
      <4> HIDE DEF f
      <4> QED BY <2>2, <2>4, <3>2, PersistType, ClaimTypes
    <3>3. CASE /\ mode' = "up" /\ persist(b.journal, TRUE) /\ env' = b /\ loaded' = TRUE
               /\ UNCHANGED <<claims, worker>>
      <4> HIDE DEF b
      <4> QED BY <2>3, <2>4, <3>3, PersistType DEF TypeOK
    <3>4. CASE persist(f.journal, FALSE) /\ UNCHANGED <<mode, loaded, env, claims, worker>>
      <4> HIDE DEF f
      <4> QED BY <2>4, <3>4, PersistType DEF TypeOK
    <3> QED BY <1>4, <3>1, <3>2, <3>3, <3>4 DEF Start
  <2>6. daemon' \in Nat
    BY <1>1, <1>4 DEF Start
  <2> QED BY <1>4, <2>5, <2>6 DEF Start, TypeOK
<1>5. CASE VmLost
  BY SMTT(60), <1>5 DEF VmLost, request, TypeOK
<1> QED BY <1>2, <1>3, <1>4, <1>5

LEMMA TypeStep == TypeOK /\ [Next]_vars => TypeOK'
<1> SUFFICES ASSUME TypeOK, [Next]_vars
             PROVE  TypeOK'
  OBVIOUS
<1>1. CASE UNCHANGED vars
  BY <1>1 DEF vars, sessionVars, actorVars, backendVars, boundVars, TypeOK
<1>2. CASE Next
  BY <1>2, SessionTypeStep, TimerTypeStep, StopTypeStep, ReconciliationTypeStep,
     RemovalTypeStep, DaemonTypeStep DEF Next
<1> QED BY <1>1, <1>2

(* Every field of the environment, of the journal file and of the actors   *)
(* keeps its type, whatever the clients, the faults and the restarts.      *)
THEOREM TypeCorrect == Spec => []TypeOK
BY TypeInit, TypeStep, PTL DEF Spec

(***************************************************************************)
(* Destruction excludes sessions: the lease discipline, the registry's     *)
(* agreement with the sessions and mutual exclusion form one inductive     *)
(* invariant.                                                              *)
(***************************************************************************)

(* The inductive invariant.                                                *)
Exclusion ==
    /\ TypeOK
    /\ ClaimDiscipline
    /\ RegistryAgrees
    /\ DestructionExcludesSessions
    /\ OneDestroyer

-----------------------------------------------------------------------------
(* Who holds an environment *)

(* The fields that exclusion depends on.                                   *)
SameHolders(f, e) ==
    /\ f.handles = e.handles
    /\ f.establishing = e.establishing
    /\ f.reconciling = e.reconciling

LEMMA UpdatesKeepHolders ==
    ASSUME NEW e \in Environments
    PROVE  /\ SameHolders(checkpointNow(e), e)
           /\ SameHolders(checkpointLater(e), e)
           /\ \A why : SameHolders(blockEnv(e, why), e)
           /\ SameHolders(armed(e), e)
           /\ SameHolders(cancelDeadlineForAttach(e), e)
           /\ SameHolders(cancelDeadline(e), e)
           /\ \A a : SameHolders(withAttempt(e, a), e)
<1>1. SameHolders(checkpointNow(e), e) /\ SameHolders(checkpointLater(e), e)
  BY DEF checkpointNow, checkpointLater, SameHolders, Environments
<1>2. \A why : SameHolders(blockEnv(e, why), e)
  BY DEF blockEnv, SameHolders, Environments
<1>3. SameHolders(armed(e), e) /\ SameHolders(cancelDeadlineForAttach(e), e)
  BY DEF armed, cancelDeadlineForAttach, SameHolders, Environments
<1>4. SameHolders(cancelDeadline(e), e)
  <2>1. cancelDeadlineForAttach(e) \in Environments
    BY CancelType
  <2>2. SameHolders(checkpointNow(cancelDeadlineForAttach(e)), cancelDeadlineForAttach(e))
    BY <2>1 DEF checkpointNow, SameHolders, Environments
  <2> QED BY <1>3, <2>2 DEF cancelDeadline, SameHolders
<1>5. \A a : SameHolders(withAttempt(e, a), e)
  BY DEF withAttempt, SameHolders, Environments
<1> QED BY <1>1, <1>2, <1>3, <1>4, <1>5

LEMMA HoldersTransitive ==
    ASSUME NEW e, NEW f, NEW g, SameHolders(g, f), SameHolders(f, e)
    PROVE  SameHolders(g, e)
BY DEF SameHolders

LEMMA InvokedKeepsHolders ==
    ASSUME daemon \in Nat, NEW e \in Environments, NEW inc \in Incarnations,
           NEW kind \in {"automatic", "explicit-recovery"}
    PROVE  SameHolders(invoked(e, inc, kind), e)
<1>1. withAttempt(e, attempt(inc, kind, "invoked")) \in Environments
  BY AttemptTypes
<1> QED BY <1>1, UpdatesKeepHolders DEF invoked, SameHolders, Environments

LEMMA StopCommittedKeepsHolders ==
    ASSUME NEW e \in Environments, NEW res
    PROVE  SameHolders(stopCommitted(e, res), e)
<1>1. stopFinished(e) \in Environments /\ SameHolders(stopFinished(e), e)
  BY DEF stopFinished, SameHolders, Environments
<1>2. SameHolders(stopCommitted(e, res), stopFinished(e))
  <2>. DEFINE f == stopFinished(e)
  <2> HIDE DEF f
  <2>1. f \in Environments
    BY <1>1 DEF f
  <2>2. SameHolders(stopCommitted(e, res), f)
    BY <2>1 DEF stopCommitted, f, SameHolders, Environments
  <2> QED BY <2>2 DEF f
<1> QED BY <1>1, <1>2 DEF SameHolders

LEMMA WithIntentKeepsHolders ==
    ASSUME NEW e \in Environments
    PROVE  SameHolders(withIntent(e), e)
BY DEF withIntent, SameHolders, Environments

LEMMA ScheduleKeepsHolders ==
    ASSUME NEW e \in Environments, NEW ok \in BOOLEAN, scheduleIfIdle(e, ok)
    PROVE  SameHolders(env', e)
<1>1. SameHolders(e, e)
  BY DEF SameHolders
<1>2. SameHolders(checkpointLater(armed(e)), e)
  BY ZenonT(60), ArmedType, UpdatesKeepHolders DEF SameHolders
<1> QED BY <1>1, <1>2, UpdatesKeepHolders DEF scheduleIfIdle

(* What the fence and the reconciliation do to the holders.                *)
LEMMA FenceHolders ==
    ASSUME NEW e \in Environments, NEW d
    PROVE  /\ fenced(e, d).handles = e.handles
           /\ fenced(e, d).establishing = e.establishing
           /\ fenced(e, d).reconciling = TRUE
BY DEF fenced, Environments

LEMMA BlockedFenceHolders ==
    ASSUME daemon \in Nat, NEW e \in Environments, NEW why \in Reasons
    PROVE  /\ blockedFence(e, why).handles = e.handles
           /\ blockedFence(e, why).establishing = e.establishing
           /\ blockedFence(e, why).reconciling = FALSE
<1>1. blockEnv(e, why) \in Environments /\ SameHolders(blockEnv(e, why), e)
  BY BlockType, UpdatesKeepHolders
<1> QED BY <1>1 DEF blockedFence, SameHolders, Environments

LEMMA LoadHolders ==
    ASSUME TypeOK, RegistryAgrees
    PROVE  /\ current.handles = env.handles \/ ~loaded
           /\ current.reconciling = env.reconciling
           /\ ~loaded => current.handles = {} /\ current.establishing = {}
           /\ loaded => current = env
<1>1. ~loaded => /\ loadEnvironment.handles = {} /\ loadEnvironment.establishing = {}
                 /\ ~loadEnvironment.reconciling /\ loadEnvironment.reconciling = FALSE
  BY DEF loadEnvironment, registryEnvironment
<1>2. env.reconciling \in BOOLEAN
  BY EnvironmentFields DEF TypeOK
<1> QED BY <1>1, <1>2 DEF current, RegistryAgrees

LEMMA ReconciledHolders ==
    ASSUME TypeOK, NEW e \in Environments, NEW o \in Observations,
           NEW owners \in SUBSET Sessions, NEW unproved \in BOOLEAN
    PROVE  /\ reconciled(e, o, owners, unproved).handles = {}
           /\ reconciled(e, o, owners, unproved).establishing = e.establishing
           /\ reconciled(e, o, owners, unproved).reconciling = FALSE
<1>. DEFINE f == relinquished(e, o)
<1>1. f.handles = {} /\ f.establishing = e.establishing /\ f.reconciling = FALSE
  BY DEF relinquished, Environments
<1>2. f \in Environments
  BY RelinquishedType
<1>3. SameHolders(classified(f, o, owners, unproved), f)
  <2> HIDE DEF f
  <2>1. completed(f) \in Environments /\ SameHolders(completed(f), f)
    BY <1>2, CompletedType DEF TypeOK, completed, SameHolders, Environments
  <2>2. \A why \in Reasons : blockEnv(f, why) \in Environments /\ SameHolders(blockEnv(f, why), f)
    BY <1>2, BlockType, UpdatesKeepHolders DEF TypeOK
  <2>3. ASSUME NEW h \in Environments, NEW g, NEW i, NEW R
        PROVE  /\ SameHolders([h EXCEPT !.journal.rows = R], h)
               /\ SameHolders([h EXCEPT !.journal.inc = i, !.journal.rows = R], h)
               /\ SameHolders([h EXCEPT !.journal.gen = g, !.journal.inc = i,
                                        !.journal.rows = R], h)
    BY <2>3 DEF SameHolders, Environments
  <2>4. CASE o.state = "stopped"
    BY SMTT(60), <2>1, <2>3, <2>4 DEF classified, SameHolders
  <2>5. CASE o.state = "unknown"
    <3>1. "backend-unknown" \in Reasons
      BY DEF Reasons
    <3> QED BY ZenonT(60), <2>2, <2>3, <2>5, <3>1 DEF classified, SameHolders
  <2>6. CASE o.state \notin {"stopped", "unknown"} /\ ~matches(f.journal.inc, o)
    <3>1. "backend-incarnation-changed" \in Reasons
      BY DEF Reasons
    <3> QED BY SMTT(60), <2>2, <2>3, <2>6, <3>1 DEF classified, SameHolders
  <2>7. CASE o.state \notin {"stopped", "unknown"} /\ matches(f.journal.inc, o) /\ unproved
    <3>. DEFINE b == blockEnv(f, "provider-state-unproved")
                R == orphans(b.journal.rows) \cup
                       ownerOrphans(owners \ {r.session : r \in b.journal.rows}, f.journal.gen)
    <3>1. b \in Environments /\ SameHolders(b, f)
      BY <2>2 DEF Reasons
    <3>2. classified(f, o, owners, unproved) = [b EXCEPT !.journal.rows = R]
      BY <2>7 DEF classified
    <3> HIDE DEF b, R
    <3> QED BY SMTT(60), <2>3, <3>1, <3>2 DEF SameHolders
  <2>8. CASE /\ o.state \notin {"stopped", "unknown"} /\ matches(f.journal.inc, o)
             /\ ~unproved /\ owners # {}
    <3>1. "owner-requires-explicit-recovery" \in Reasons
      BY DEF Reasons
    <3> QED BY ZenonT(60), <2>2, <2>3, <2>8, <3>1 DEF classified, SameHolders
  <2>9. CASE /\ o.state \notin {"stopped", "unknown"} /\ matches(f.journal.inc, o)
             /\ ~unproved /\ owners = {}
    <3>. DEFINE k == [completed(f) EXCEPT !.journal.rows = {}]
    <3>1. k \in Environments /\ SameHolders(k, f)
      <4>1. SameHolders(k, f)
        BY <2>1, <2>3 DEF SameHolders
      <4>2. k \in Environments
        BY <2>1 DEF Environments, Journals
      <4> QED BY <4>1, <4>2
    <3>2. classified(f, o, owners, unproved) = armed(checkpointNow(k))
      BY <2>9 DEF classified
    <3> HIDE DEF k
    <3>3. checkpointNow(k) \in Environments /\ SameHolders(checkpointNow(k), k)
      BY <3>1, CheckpointTypes, UpdatesKeepHolders
    <3>4. SameHolders(armed(checkpointNow(k)), checkpointNow(k))
      BY <3>3, UpdatesKeepHolders
    <3> QED BY <3>1, <3>2, <3>3, <3>4, HoldersTransitive
  <2> QED BY <2>4, <2>5, <2>6, <2>7, <2>8, <2>9
<1> QED BY <1>1, <1>3 DEF reconciled, SameHolders

-----------------------------------------------------------------------------
(* The invariant is inductive *)

LEMMA ExclusionInit == Init => Exclusion
<1> SUFFICES ASSUME Init
             PROVE  Exclusion
  OBVIOUS
<1>1. /\ mode = "down" /\ ~loaded /\ claims = {} /\ stopper.pc = "none"
      /\ mutator = "none" /\ disposer = "none" /\ env.handles = {} /\ ~env.reconciling
      /\ phase = [s \in Sessions |-> "idle"]
  BY DEF Init, idleStopper, registryEnvironment
<1>2. destroying = {} /\ \A s \in Sessions : ~attached(s)
  BY <1>1 DEF destroying, attached, establishingPhases, registeredPhases
<1> QED BY <1>1, <1>2, TypeInit DEF Exclusion, ClaimDiscipline, RegistryAgrees,
           DestructionExcludesSessions, OneDestroyer

(* Steps that change neither claims nor actors nor phases of sessions in   *)
(* a way that exclusion could notice.                                      *)
LEMMA QuietStep ==
    ASSUME Exclusion, TypeOK', SameHolders(env', env),
           UNCHANGED <<mode, loaded, claims, phase, stopper, disposer, mutator>>
    PROVE  Exclusion'
<1>1. destroying' = destroying /\ \A s \in Sessions : attached(s)' = attached(s)
  BY DEF destroying, attached
<1>2. ClaimDiscipline'
  BY DEF Exclusion, ClaimDiscipline, SameHolders, claim
<1>3. RegistryAgrees'
  BY <1>1 DEF Exclusion, RegistryAgrees, SameHolders
<1>4. DestructionExcludesSessions' /\ OneDestroyer'
  BY <1>1 DEF Exclusion, DestructionExcludesSessions, OneDestroyer
<1> QED BY <1>2, <1>3, <1>4 DEF Exclusion

(* A session moves inside its class: outside, establishing or registered.  *)
LEMMA PhaseStep ==
    ASSUME Exclusion, TypeOK', SameHolders(env', env), NEW s \in Sessions, NEW p,
           becomes(s, p),
           p \in establishingPhases <=> phase[s] \in establishingPhases,
           p \in registeredPhases <=> phase[s] \in registeredPhases,
           UNCHANGED <<mode, loaded, claims, stopper, disposer, mutator>>
    PROVE  Exclusion'
<1>1. \A q \in Sessions : /\ phase'[q] \in establishingPhases <=> phase[q] \in establishingPhases
                          /\ phase'[q] \in registeredPhases <=> phase[q] \in registeredPhases
  BY DEF becomes, Exclusion, TypeOK
<1>2. destroying' = destroying /\ \A q \in Sessions : attached(q)' <=> attached(q)
  BY <1>1 DEF destroying, attached
<1>3. ClaimDiscipline'
  BY <1>1 DEF Exclusion, ClaimDiscipline, SameHolders, claim
<1>4. RegistryAgrees'
  BY <1>1, <1>2 DEF Exclusion, RegistryAgrees, SameHolders
<1>5. DestructionExcludesSessions' /\ OneDestroyer'
  BY <1>2 DEF Exclusion, DestructionExcludesSessions, OneDestroyer
<1> QED BY <1>3, <1>4, <1>5 DEF Exclusion

(* A session leaves, by Abort or by the last part of its Finish.           *)
LEMMA DetachStep ==
    ASSUME Exclusion, TypeOK', mode # "down", NEW s \in Sessions, becomes(s, "idle"),
           claims' \in {claims, claims \ {claim("attach", s)}},
           mode = "up" => \A q \in Sessions \ {s} :
               phase[q] \in registeredPhases => loaded' /\ q \in env'.handles,
           env'.reconciling => env.reconciling /\ env'.handles = {} /\ env'.establishing = {},
           ~loaded' => env'.handles = {} /\ ~env'.reconciling,
           UNCHANGED <<mode, stopper, disposer, mutator>>
    PROVE  Exclusion'
<1>1. phase'[s] = "idle" /\ \A q \in Sessions \ {s} : phase'[q] = phase[q]
  BY DEF becomes, Exclusion, TypeOK
<1>2. /\ destroying' = destroying
      /\ \A q \in Sessions : attached(q)' => attached(q)
  BY <1>1 DEF destroying, attached, establishingPhases, registeredPhases
<1>3. ClaimDiscipline'
  <2> SUFFICES ASSUME mode = "up"
               PROVE  /\ \A c \in claims' : c.kind # "attach" => claims' = {c}
                      /\ \A q \in Sessions : phase'[q] \in establishingPhases =>
                                                claim("attach", q) \in claims'
                      /\ stopper.pc # "none" => claim("stop", NoSession) \in claims'
                      /\ mutator # "none" => claim("cleanup", NoSession) \in claims'
                      /\ disposer = "active" => claim("disposal", NoSession) \in claims'
                      /\ env'.reconciling => claim("reconcile", NoSession) \in claims'
    BY DEF ClaimDiscipline, claim
  <2>1. \A k \in {"stop", "cleanup", "disposal", "reconcile"} :
           claim(k, NoSession) # claim("attach", s)
    BY DEF claim
  <2>2. \A q \in Sessions \ {s} : claim("attach", q) # claim("attach", s)
    BY DEF claim
  <2>3. \A c \in claims' : c.kind # "attach" => claims' = {c}
    BY DEF Exclusion, ClaimDiscipline
  <2>4. \A q \in Sessions : phase'[q] \in establishingPhases => claim("attach", q) \in claims'
    BY SMTT(60), <1>1, <2>2 DEF Exclusion, ClaimDiscipline, establishingPhases
  <2> QED BY <2>1, <2>3, <2>4 DEF Exclusion, ClaimDiscipline
<1>4. RegistryAgrees'
  BY <1>1 DEF RegistryAgrees, registeredPhases
<1>5. DestructionExcludesSessions' /\ OneDestroyer'
  BY <1>2 DEF Exclusion, DestructionExcludesSessions, OneDestroyer
<1> QED BY <1>3, <1>4, <1>5 DEF Exclusion

LEMMA SessionExclusionStep ==
    ASSUME Exclusion, TypeOK', NEW s \in Sessions, SessionNext(s)
    PROVE  Exclusion'
<1>. USE DEF sessionVars, actorVars, backendVars, boundVars
<1>1. /\ TypeOK /\ ClaimDiscipline /\ RegistryAgrees
      /\ env \in Environments /\ current \in Environments /\ SameHolders(env, env)
  BY LoadType DEF Exclusion, TypeOK, SameHolders
<1>2. attached(s) => mode # "down"
  BY <1>1 DEF RegistryAgrees
<1>3. CASE Reserve(s)
  <2>1. /\ mode = "up" /\ mode' = "up" /\ loaded' = TRUE
        /\ \A c \in claims : c.kind = "attach"
        /\ ~current.reconciling
        /\ claims' = claims \cup {claim("attach", s)}
        /\ phase' = [phase EXCEPT ![s] = "reserved"]
        /\ UNCHANGED <<stopper, disposer, mutator>>
    BY <1>3 DEF Reserve, asks, admits, claimable, becomes
  <2>2. env'.handles = current.handles /\ env'.reconciling = current.reconciling
    <3>1. /\ cancelDeadlineForAttach(current) \in Environments
          /\ SameHolders(cancelDeadlineForAttach(current), current)
      BY <1>1, CancelType, UpdatesKeepHolders
    <3>2. env' = [cancelDeadlineForAttach(current) EXCEPT !.establishing = @ \cup {s}]
      BY <1>3 DEF Reserve
    <3> QED BY <3>1, <3>2 DEF SameHolders, Environments
  <2>3. /\ stopper.pc = "none" /\ mutator = "none" /\ disposer # "active" /\ destroying' = {}
    BY <1>1, <2>1 DEF ClaimDiscipline, claim, destroying
  <2>4. phase'[s] = "reserved" /\ \A q \in Sessions \ {s} : phase'[q] = phase[q]
    BY <1>1, <2>1 DEF TypeOK
  <2>5. ClaimDiscipline'
    BY SMTT(60), <1>1, <2>1, <2>2, <2>3, <2>4 DEF ClaimDiscipline, claim
  <2>6. RegistryAgrees'
    BY <1>1, <2>1, <2>2, <2>4, LoadHolders DEF RegistryAgrees, registeredPhases
  <2> QED BY <2>3, <2>5, <2>6 DEF Exclusion, DestructionExcludesSessions, OneDestroyer
<1>4. CASE ReserveWait(s) \/ ReserveRefused(s) \/ ReserveGivesUp(s)
  <2>1. \E p \in {"waitStop", "waitReconcile", "idle", "turnedAway"} : becomes(s, p)
    BY <1>4 DEF ReserveWait, ReserveRefused, ReserveGivesUp
  <2>2. phase[s] \in {"idle", "turnedAway", "waitStop", "waitReconcile"}
    BY <1>4 DEF ReserveWait, ReserveRefused, ReserveGivesUp, asks
  <2>3. UNCHANGED <<mode, loaded, env, claims, stopper, disposer, mutator>>
    BY <1>4 DEF ReserveWait, ReserveRefused, ReserveGivesUp
  <2> QED BY <1>1, <2>1, <2>2, <2>3, PhaseStep DEF establishingPhases, registeredPhases
<1>5. CASE Observe(s)
  <2>1. /\ becomes(s, "observed") /\ phase[s] = "reserved"
        /\ UNCHANGED <<mode, loaded, env, claims, stopper, disposer, mutator>>
    BY <1>5 DEF Observe
  <2> QED BY <1>1, <2>1, PhaseStep DEF establishingPhases, registeredPhases
<1>6. CASE Prepare(s)
  <2>1. /\ becomes(s, "prepared") /\ phase[s] = "observed"
        /\ UNCHANGED <<mode, loaded, claims, stopper, disposer, mutator>>
    BY <1>6 DEF Prepare
  <2>2. SameHolders(env', env)
    BY <1>1, <1>6 DEF Prepare, SameHolders, Environments
  <2> QED BY <2>1, <2>2, PhaseStep DEF establishingPhases, registeredPhases
<1>7. CASE Promote(s)
  <2>1. /\ mode = "up" /\ mode' = "up" /\ loaded /\ loaded' /\ s \in env.establishing
        /\ phase[s] = "prepared" /\ ~env.reconciling
        /\ claims' = claims \ {claim("attach", s)}
        /\ phase' = [phase EXCEPT ![s] = "registered"]
        /\ UNCHANGED <<stopper, disposer, mutator>>
    BY <1>7 DEF Promote, stillAdmitted, release, becomes
  <2>2. env'.handles = env.handles \cup {s} /\ env'.reconciling = env.reconciling
    BY <1>1, <1>7 DEF Promote, Environments
  <2>3. phase'[s] = "registered" /\ \A q \in Sessions \ {s} : phase'[q] = phase[q]
    BY <1>1, <2>1 DEF TypeOK
  <2>4. claim("attach", s) \in claims /\ \A c \in claims : c.kind = "attach"
    <3>1. claim("attach", s) \in claims
      BY <1>1, <2>1 DEF ClaimDiscipline, establishingPhases
    <3> QED BY SMTT(60), <1>1, <2>1, <3>1 DEF ClaimDiscipline, claim
  <2>5. stopper.pc = "none" /\ mutator = "none" /\ disposer # "active" /\ destroying' = {}
    BY <1>1, <2>1, <2>4 DEF ClaimDiscipline, claim, destroying
  <2>6. ClaimDiscipline'
    <3>1. \A q \in Sessions \ {s} : claim("attach", q) # claim("attach", s)
      BY DEF claim
    <3> QED BY <1>1, <2>1, <2>2, <2>3, <2>4, <2>5, <3>1
            DEF ClaimDiscipline, claim, establishingPhases
  <2>7. RegistryAgrees'
    BY <1>1, <2>1, <2>2, <2>3 DEF RegistryAgrees
  <2> QED BY <2>5, <2>6, <2>7 DEF Exclusion, DestructionExcludesSessions, OneDestroyer
<1>8. CASE Abort(s)
  <2>. DEFINE e == [env EXCEPT !.establishing = @ \ {s}]
              last == loaded /\ s \in env.establishing /\ mode = "up"
                      /\ e.establishing = {} /\ e.handles = {}
  <2>1. /\ becomes(s, "idle") /\ attached(s) /\ mode # "down"
        /\ UNCHANGED <<mode, stopper, disposer, mutator>>
    BY <1>2, <1>8 DEF Abort, attached, establishingPhases
  <2>2. claims' \in {claims, claims \ {claim("attach", s)}}
    BY <1>8 DEF Abort, release
  <2>3. /\ e \in Environments /\ e.handles = env.handles /\ e.reconciling = env.reconciling
        /\ e.establishing = env.establishing \ {s}
    BY <1>1 DEF Environments
  <2>4. CASE last
    <3>1. \A q \in Sessions : phase[q] \notin registeredPhases
      BY <1>1, <2>3, <2>4 DEF RegistryAgrees
    <3>2. ~env.reconciling
      BY <1>1, <2>4 DEF RegistryAgrees
    <3>3. CASE e.journal.gen = 0 /\ e.journal.inc = NoInc
      <4>1. unload
        BY <1>8, <2>4, <3>3 DEF Abort
      <4>2. ~loaded' /\ env'.handles = {} /\ ~env'.reconciling
        BY <4>1 DEF unload, registryEnvironment
      <4> QED BY <2>1, <2>2, <3>1, <4>2, DetachStep
    <3>4. CASE ~(e.journal.gen = 0 /\ e.journal.inc = NoInc)
      <4>1. PICK ok \in BOOLEAN : scheduleIfIdle(e, ok) /\ UNCHANGED loaded
        BY <1>8, <2>4, <3>4 DEF Abort
      <4>2. env'.handles = {} /\ ~env'.reconciling
        <5> HIDE DEF e
        <5>1. SameHolders(env', e)
          BY <2>3, <4>1, ScheduleKeepsHolders
        <5> QED BY <2>3, <2>4, <3>2, <5>1 DEF SameHolders
      <4> QED BY <2>1, <2>2, <3>1, <4>1, <4>2, DetachStep
    <3> QED BY <3>3, <3>4
  <2>5. CASE ~last
    <3>1. env' \in {e, env} /\ UNCHANGED loaded
      BY <1>8, <2>5 DEF Abort
    <3>2. env'.handles = env.handles /\ env'.reconciling = env.reconciling
          /\ env'.establishing \subseteq env.establishing
      <4> HIDE DEF e
      <4> QED BY <2>3, <3>1
    <3> QED BY <1>1, <2>1, <2>2, <3>1, <3>2, DetachStep DEF RegistryAgrees
  <2> QED BY <2>4, <2>5
<1>9. CASE Commit(s)
  <2>1. UNCHANGED <<mode, loaded, claims, phase, stopper, disposer, mutator>>
    BY <1>9 DEF Commit
  <2>2. SameHolders(env', env)
    <3>1. checkpointNow(env) \in Environments /\ SameHolders(checkpointNow(env), env)
      BY <1>1, CheckpointTypes, UpdatesKeepHolders
    <3>2. \E X : env' = [checkpointNow(env) EXCEPT !.committed = X]
      BY <1>9 DEF Commit
    <3> QED BY <3>1, <3>2 DEF SameHolders, Environments
  <2> QED BY <2>1, <2>2, QuietStep
<1>10. CASE StartBackend(s)
  BY <1>1, <1>10, QuietStep DEF StartBackend
<1>11. CASE BindBoot(s)
  <2>. DEFINE e == [env EXCEPT !.journal.inc.boot = vm, !.obs = observation(vm)]
  <2>1. UNCHANGED <<mode, loaded, claims, phase, stopper, disposer, mutator>>
    BY <1>11 DEF BindBoot
  <2>2. observation(vm) \in Observations
    BY <1>1, ObservationType DEF TypeOK
  <2>3. e \in Environments /\ SameHolders(e, env)
    BY <1>1, <2>2 DEF TypeOK, Environments, Journals, Incarnations, SameHolders
  <2>4. env' \in {checkpointNow(e), checkpointLater(e)}
    BY <1>11 DEF BindBoot
  <2>5. SameHolders(env', env)
    <3> HIDE DEF e
    <3> QED BY <2>3, <2>4, UpdatesKeepHolders DEF SameHolders
  <2> QED BY <2>1, <2>5, QuietStep
<1>12. CASE BeginFinish(s)
  <2>1. /\ \E p \in {"sealed", "sealedUnproved"} : becomes(s, p)
        /\ phase[s] = "registered"
        /\ UNCHANGED <<mode, loaded, claims, stopper, disposer, mutator>>
    BY <1>12 DEF BeginFinish
  <2>2. SameHolders(env', env)
    BY <1>1, <1>12 DEF BeginFinish, SameHolders, Environments
  <2> QED BY <2>1, <2>2, PhaseStep DEF establishingPhases, registeredPhases
<1>13. ASSUME NEW e \in Environments
       PROVE  /\ SameHolders(dropRow(e, s), e) /\ SameHolders(orphanRow(e, s), e)
              /\ dropHandle(e, s).handles = e.handles \ {s}
              /\ dropHandle(e, s).establishing = e.establishing
              /\ dropHandle(e, s).reconciling = e.reconciling
  BY <1>13 DEF dropRow, orphanRow, dropHandle, SameHolders, Environments
<1>14. CASE Release(s)
  <2>1. /\ \E p \in {"released", "releasedUnproved"} : becomes(s, p)
        /\ phase[s] \in {"sealed", "sealedUnproved"}
        /\ env' \in {checkpointLater(dropRow(env, s)), checkpointNow(orphanRow(env, s))}
        /\ UNCHANGED <<mode, loaded, claims, stopper, disposer, mutator>>
    BY <1>14 DEF Release
  <2>2. SameHolders(env', env)
    <3>1. dropRow(env, s) \in Environments /\ orphanRow(env, s) \in Environments
      BY <1>1, RowTypes
    <3>2. CASE env' = checkpointLater(dropRow(env, s))
      BY <1>1, <1>13, <3>1, <3>2, UpdatesKeepHolders, HoldersTransitive
    <3>3. CASE env' = checkpointNow(orphanRow(env, s))
      BY <1>1, <1>13, <3>1, <3>3, UpdatesKeepHolders, HoldersTransitive
    <3> QED BY <2>1, <3>2, <3>3
  <2> QED BY <2>1, <2>2, PhaseStep DEF establishingPhases, registeredPhases
<1>15. CASE AbortRegistration(s)
  <2>. DEFINE e == dropHandle(dropRow(env, s), s)
  <2>1. /\ becomes(s, "idle") /\ mode = "up" /\ loaded
        /\ s \in env.handles
        /\ UNCHANGED <<mode, loaded, claims, stopper, disposer, mutator>>
    BY <1>15 DEF AbortRegistration, registered
  <2>2. /\ e \in Environments /\ e.handles = env.handles \ {s}
        /\ e.reconciling = env.reconciling
    BY ZenonT(60), <1>1, <1>13, RowTypes DEF SameHolders
  <2>3. env' = e \/ \E ok \in BOOLEAN : scheduleIfIdle(e, ok)
    BY <1>15 DEF AbortRegistration
  <2>4. env'.handles = env.handles \ {s} /\ env'.reconciling = env.reconciling
    <3> HIDE DEF e
    <3> QED BY <2>2, <2>3, ScheduleKeepsHolders DEF SameHolders
  <2> QED BY <1>1, <2>1, <2>4, DetachStep DEF RegistryAgrees
<1>16. CASE FinishRegistration(s)
  <2>. DEFINE e == dropHandle(env, s)
  <2>1. /\ becomes(s, "idle") /\ mode = "up" /\ loaded
        /\ s \in env.handles
        /\ UNCHANGED <<mode, loaded, claims, stopper, disposer, mutator>>
    BY <1>16 DEF FinishRegistration, registered
  <2>2. /\ e \in Environments /\ e.handles = env.handles \ {s}
        /\ e.reconciling = env.reconciling
    BY <1>1, <1>13, RowTypes
  <2>3. \/ env' \in {blockEnv(e, "cleanup-unproved"), checkpointLater(e)}
        \/ \E ok \in BOOLEAN : scheduleIfIdle(e, ok)
    BY <1>16 DEF FinishRegistration
  <2>4. env'.handles = env.handles \ {s} /\ env'.reconciling = env.reconciling
    <3> HIDE DEF e
    <3>1. SameHolders(env', e)
      <4>1. SameHolders(blockEnv(e, "cleanup-unproved"), e) /\ SameHolders(checkpointLater(e), e)
        BY <2>2, UpdatesKeepHolders
      <4> QED BY <2>2, <2>3, <4>1, ScheduleKeepsHolders
    <3> QED BY <2>2, <3>1 DEF SameHolders
  <2> QED BY <1>1, <2>1, <2>4, DetachStep DEF RegistryAgrees
<1> QED BY <1>3, <1>4, <1>5, <1>6, <1>7, <1>8, <1>9, <1>10, <1>11, <1>12, <1>14, <1>15,
           <1>16 DEF SessionNext

(* An environment that nobody claims and nobody holds is nobody's.         *)
LEMMA Alone ==
    ASSUME Exclusion, mode = "up", claims = {}, current.handles = {}
    PROVE  /\ \A s \in Sessions : ~attached(s)
           /\ stopper.pc = "none" /\ mutator = "none" /\ disposer # "active"
           /\ ~env.reconciling /\ ~current.reconciling
<1>1. TypeOK /\ ClaimDiscipline /\ RegistryAgrees
  BY DEF Exclusion
<1>2. \A s \in Sessions : phase[s] \notin registeredPhases
  BY <1>1, LoadHolders DEF RegistryAgrees
<1>3. \A s \in Sessions : phase[s] \notin establishingPhases
  BY <1>1 DEF ClaimDiscipline
<1>4. ~env.reconciling /\ current.reconciling = env.reconciling
  BY <1>1, LoadHolders DEF ClaimDiscipline
<1> QED BY <1>1, <1>2, <1>3, <1>4 DEF ClaimDiscipline, attached

(* An operation takes the whole environment, or tries and fails.           *)
LEMMA ClaimStep ==
    ASSUME Exclusion, TypeOK', mode = "up", claims = {}, current.handles = {},
           env'.handles = {}, ~env'.reconciling, UNCHANGED <<mode, phase>>,
           NEW k \in {"stop", "disposal", "cleanup"},
           claims' = {claim(k, NoSession)},
           k # "stop" => UNCHANGED stopper,
           k # "disposal" => UNCHANGED disposer,
           k # "cleanup" => UNCHANGED mutator
    PROVE  Exclusion'
<1>1. /\ \A s \in Sessions : ~attached(s)
      /\ stopper.pc = "none" /\ mutator = "none" /\ disposer # "active"
  BY Alone
<1>2. /\ k # "stop" => stopper'.pc = "none"
      /\ k # "disposal" => disposer' # "active"
      /\ k # "cleanup" => mutator' = "none"
  BY <1>1
<1>3. \A s \in Sessions : ~attached(s)'
  BY <1>1 DEF attached
<1>4. ClaimDiscipline'
  BY <1>2, <1>3 DEF ClaimDiscipline, attached
<1>5. RegistryAgrees'
  BY <1>3 DEF RegistryAgrees, attached
<1>6. OneDestroyer'
  BY <1>2 DEF OneDestroyer, destroying
<1> QED BY <1>3, <1>4, <1>5, <1>6 DEF Exclusion, DestructionExcludesSessions

LEMMA UnclaimedStep ==
    ASSUME Exclusion, TypeOK', mode = "up", claims = {}, current.handles = {},
           env'.handles = {}, ~env'.reconciling,
           UNCHANGED <<mode, phase, claims, stopper, disposer, mutator>>
    PROVE  Exclusion'
<1>1. /\ \A s \in Sessions : ~attached(s)
      /\ stopper.pc = "none" /\ mutator = "none" /\ disposer # "active"
  BY Alone
<1>2. (\A s \in Sessions : ~attached(s)') /\ destroying' = destroying
  BY <1>1 DEF attached, destroying
<1>3. ClaimDiscipline'
  BY <1>1, <1>2 DEF ClaimDiscipline, attached
<1>4. RegistryAgrees'
  BY <1>2 DEF RegistryAgrees, attached
<1> QED BY <1>2, <1>3, <1>4 DEF Exclusion, DestructionExcludesSessions, OneDestroyer

LEMMA TimerExclusionStep ==
    ASSUME Exclusion, TypeOK', NEW t \in timers, TimerNext(t)
    PROVE  Exclusion'
<1>. USE DEF sessionVars, actorVars, backendVars, boundVars
<1>1. /\ TypeOK /\ env \in Environments /\ SameHolders(env, env) /\ daemon \in Nat
      /\ t.inc \in Incarnations
  BY DEF Exclusion, TypeOK, SameHolders, Deadlines
<1>2. CASE ExpireStale(t)
  BY <1>1, <1>2, QuietStep DEF ExpireStale
<1>3. CASE ExpireRefused(t)
  <2>1. UNCHANGED <<mode, loaded, claims, phase, stopper, disposer, mutator>>
    BY <1>3 DEF ExpireRefused
  <2>2. SameHolders(env', env)
    <3>1. /\ blockEnv(env, "backend-observation-unproved") \in Environments
          /\ SameHolders(blockEnv(env, "backend-observation-unproved"), env)
      BY <1>1, BlockType, UpdatesKeepHolders DEF Reasons
    <3>2. \/ env' = [blockEnv(env, "backend-observation-unproved") EXCEPT
                        !.journal.deadline = NoDeadline]
          \/ env' = [env EXCEPT !.blocked = FALSE]
      BY <1>3 DEF ExpireRefused
    <3> QED BY <1>1, <3>1, <3>2 DEF SameHolders, Environments
  <2> QED BY <2>1, <2>2, QuietStep
<1>4. CASE ExpireDeferred(t)
  <2>1. /\ env' = checkpointLater(armed(env))
        /\ UNCHANGED <<mode, loaded, claims, phase, stopper, disposer, mutator>>
    BY <1>4 DEF ExpireDeferred
  <2>2. SameHolders(env', env)
    BY ZenonT(60), <1>1, <2>1, ArmedType, UpdatesKeepHolders DEF SameHolders
  <2> QED BY <2>1, <2>2, QuietStep
<1>5. CASE Expire(t)
  <2>. DEFINE planned == withAttempt(env, attempt(t.inc, "automatic", "planned"))
              started == invoked(env, t.inc, "automatic")
              skipped == withAttempt(env, NoAttempt)
  <2>1. /\ loaded /\ mode = "up" /\ env.handles = {} /\ claims = {}
        /\ UNCHANGED <<mode, loaded, phase, disposer, mutator>>
    BY <1>5 DEF Expire, staleTimer, claimable
  <2>2. /\ planned \in Environments
        /\ SameHolders(planned, env) /\ SameHolders(started, env) /\ SameHolders(skipped, env)
    BY <1>1, AttemptTypes, UpdatesKeepHolders, InvokedKeepsHolders
  <2>3. \/ /\ env' = [planned EXCEPT !.blocked = TRUE] \/ env' = skipped
           /\ UNCHANGED <<claims, stopper>>
        \/ /\ env' = started
           /\ claims' = claims \cup {claim("stop", NoSession)}
    BY <1>5 DEF Expire
  <2>4. SameHolders(env', env)
    <3> HIDE DEF planned, started, skipped
    <3> QED BY <2>2, <2>3 DEF SameHolders, Environments
  <2>5. CASE UNCHANGED <<claims, stopper>>
    BY <2>1, <2>4, <2>5, QuietStep
  <2>6. CASE claims' = claims \cup {claim("stop", NoSession)}
    <3>1. current.handles = {} /\ ~env.reconciling
      BY <2>1, Alone DEF current
    <3>2. env'.handles = {} /\ ~env'.reconciling
      BY <2>1, <2>4, <3>1 DEF SameHolders
    <3> QED BY <2>1, <2>6, <3>1, <3>2, ClaimStep
  <2> QED BY <2>3, <2>5, <2>6
<1> QED BY <1>2, <1>3, <1>4, <1>5 DEF TimerNext

LEMMA StopExclusionStep ==
    ASSUME Exclusion, TypeOK',
           \/ StopExplicit \/ BackendStop \/ (\E res \in StopResults : StopReturn(res))
           \/ StopRelease \/ Checkpoint
    PROVE  Exclusion'
<1>. USE DEF sessionVars, actorVars, backendVars, boundVars
<1>1. /\ TypeOK /\ ClaimDiscipline /\ RegistryAgrees /\ daemon \in Nat
      /\ env \in Environments /\ current \in Environments /\ SameHolders(env, env)
  BY LoadType DEF Exclusion, TypeOK, SameHolders
<1>2. CASE StopExplicit
  <2>. DEFINE c == cancelDeadline(current)
              i == current.journal.inc
              a == withAttempt(c, attempt(i, "explicit-recovery", "invoked"))
              v == invoked(c, i, "explicit-recovery")
  <2>1. /\ mode = "up" /\ current.handles = {} /\ ~current.reconciling /\ claims = {}
        /\ claims' = {claim("stop", NoSession)}
        /\ UNCHANGED <<mode, phase, disposer, mutator>>
    BY <1>2 DEF StopExplicit, mayStop, claimable
  <2>2. env' \in {current, c, a, v}
    BY <1>2 DEF StopExplicit
  <2>3. c \in Environments /\ SameHolders(c, current) /\ i \in Incarnations
    BY <1>1, CancelType, UpdatesKeepHolders, EnvironmentFields, JournalFields
  <2>4. SameHolders(a, c) /\ SameHolders(v, c)
    <3> HIDE DEF c, i
    <3> QED BY <1>1, <2>3, UpdatesKeepHolders, InvokedKeepsHolders
  <2>5. env'.handles = {} /\ ~env'.reconciling
    <3> HIDE DEF a, c, v
    <3> QED BY <2>1, <2>2, <2>3, <2>4 DEF SameHolders
  <2> QED BY <2>1, <2>5, ClaimStep
<1>3. CASE BackendStop
  BY <1>1, <1>3, QuietStep DEF BackendStop
<1>4. ASSUME NEW stopper1, stopper' = stopper1, stopper1.pc \in {"none", "returned"},
             mode # "down",
             stopper.pc \in {"invoked", "returned"},
             claims' = claims \/ (stopper1.pc = "none" /\ claims' = claims \ {claim("stop", NoSession)}),
             SameHolders(env', env), UNCHANGED <<mode, loaded, phase, disposer, mutator>>
      PROVE  Exclusion'
  <2>1. destroying' \subseteq destroying /\ \A s \in Sessions : attached(s)' = attached(s)
    BY <1>4 DEF destroying, attached
  <2>2. ClaimDiscipline'
    BY <1>1, <1>4 DEF ClaimDiscipline, SameHolders, claim
  <2>3. RegistryAgrees'
    BY <1>1, <1>4, <2>1 DEF RegistryAgrees, SameHolders
  <2> QED BY <2>1, <2>2, <2>3 DEF Exclusion, DestructionExcludesSessions, OneDestroyer
<1>5. ASSUME NEW res \in StopResults, StopReturn(res)
      PROVE  Exclusion'
  <2>1. SameHolders(env', env)
    BY <1>1, <1>5, StopCommittedKeepsHolders DEF StopReturn
  <2>2. /\ stopper' = returned /\ returned.pc = "returned" /\ stopper.pc = "invoked"
        /\ mode # "down"
        /\ UNCHANGED <<mode, loaded, phase, claims, disposer, mutator>>
    BY <1>5 DEF StopReturn, returned
  <2> QED BY <1>4, <2>1, <2>2
<1>6. CASE StopRelease
  <2>1. /\ stopper' = idleStopper /\ idleStopper.pc = "none" /\ stopper.pc = "returned"
        /\ mode # "down"
        /\ claims' = claims \ {claim("stop", NoSession)}
        /\ UNCHANGED <<mode, loaded, env, phase, disposer, mutator>>
    BY <1>6 DEF StopRelease, idleStopper, release
  <2> QED BY <1>1, <1>4, <2>1
<1>7. CASE Checkpoint
  <2>1. checkpointNow(env) \in Environments
    BY <1>1, CheckpointTypes
  <2>2. SameHolders(env', env)
    <3>1. env' \in {checkpointNow(env), blockEnv(checkpointNow(env), "journal-checkpoint-failed")}
      BY <1>7 DEF Checkpoint
    <3>2. SameHolders(checkpointNow(env), env)
      BY <1>1, UpdatesKeepHolders
    <3>3. SameHolders(blockEnv(checkpointNow(env), "journal-checkpoint-failed"), checkpointNow(env))
      BY <2>1, UpdatesKeepHolders
    <3> QED BY SMTT(60), <3>1, <3>2, <3>3, HoldersTransitive
  <2> QED BY <1>7, <2>2, QuietStep DEF Checkpoint
<1> QED BY <1>2, <1>3, <1>5, <1>6, <1>7

(* A fence comes down: its claim is released, the others stay.             *)
LEMMA UnfenceStep ==
    ASSUME Exclusion, TypeOK', mode = "up", ~env'.reconciling, loaded' = TRUE,
           claims' \in {claims, claims \ {claim("reconcile", NoSession)}},
           \A s \in Sessions : phase[s] \in registeredPhases => s \in env'.handles,
           UNCHANGED <<mode, phase, stopper, disposer, mutator>>
    PROVE  Exclusion'
<1>1. destroying' = destroying /\ \A s \in Sessions : attached(s)' = attached(s)
  BY DEF destroying, attached
<1>2. ClaimDiscipline'
  BY SMTT(60) DEF Exclusion, ClaimDiscipline, claim
<1>3. RegistryAgrees'
  BY DEF RegistryAgrees
<1> QED BY <1>1, <1>2, <1>3 DEF Exclusion, DestructionExcludesSessions, OneDestroyer

LEMMA ReconciliationExclusionStep ==
    ASSUME Exclusion, TypeOK', \/ BeginReconciliation \/ Reconcile \/ ReconcileRefused
                               \/ BlockReconciliation
    PROVE  Exclusion'
<1>. USE DEF sessionVars, actorVars, backendVars, boundVars
<1>1. /\ TypeOK /\ ClaimDiscipline /\ RegistryAgrees /\ daemon \in Nat
      /\ env \in Environments /\ current \in Environments /\ SameHolders(env, env)
  BY LoadType DEF Exclusion, TypeOK, SameHolders
<1>2. CASE BeginReconciliation
  <2>. DEFINE f == fenced(current, daemon)
  <2>1. /\ mode = "up" /\ claims = {} /\ current.handles = {} /\ current.establishing = {}
        /\ UNCHANGED <<mode, phase, stopper, disposer, mutator>> /\ loaded' = TRUE
    BY <1>2 DEF BeginReconciliation, claimable, quiet
  <2>2. f \in Environments /\ f.handles = {} /\ f.establishing = {} /\ f.reconciling = TRUE
    BY <1>1, <2>1, FencedType, FenceHolders
  <2>3. \/ env' = f /\ claims' = {claim("reconcile", NoSession)}
        \/ env' = [f EXCEPT !.reconciling = FALSE] /\ UNCHANGED claims
    BY <1>2, <2>1 DEF BeginReconciliation
  <2> HIDE DEF f
  <2>4. CASE env' = f /\ claims' = {claim("reconcile", NoSession)}
    <3>1. /\ \A s \in Sessions : ~attached(s)
          /\ stopper.pc = "none" /\ mutator = "none" /\ disposer # "active"
      BY <2>1, Alone
    <3>2. (\A s \in Sessions : ~attached(s)') /\ destroying' = {}
      BY <2>1, <3>1 DEF attached, destroying
    <3>3. ClaimDiscipline'
      BY <2>1, <2>4, <3>1, <3>2 DEF ClaimDiscipline, attached
    <3>4. RegistryAgrees'
      BY <2>1, <2>2, <2>4, <3>2 DEF RegistryAgrees, attached
    <3> QED BY <3>2, <3>3, <3>4 DEF Exclusion, DestructionExcludesSessions, OneDestroyer
  <2>5. CASE env' = [f EXCEPT !.reconciling = FALSE] /\ UNCHANGED claims
    <3>1. env'.handles = {} /\ ~env'.reconciling
      BY <2>2, <2>5 DEF Environments
    <3> QED BY <2>1, <2>5, <3>1, UnclaimedStep
  <2> QED BY <2>3, <2>4, <2>5
<1>3. CASE Reconcile
  <2>1. PICK o \in probed, owners \in SUBSET Sessions, unproved \in BOOLEAN :
          env' = reconciled(current, o, owners, unproved)
    BY <1>3 DEF Reconcile
  <2>2. o \in Observations
    BY SMTT(60), <1>1, ObservationType DEF probed, TypeOK
  <2>3. env'.handles = {} /\ ~env'.reconciling
    BY <1>1, <2>1, <2>2, ReconciledHolders
  <2>4. /\ mode = "up" /\ loaded' = TRUE /\ claims' = claims \ {claim("reconcile", NoSession)}
        /\ UNCHANGED <<mode, phase, stopper, disposer, mutator>>
    BY <1>3 DEF Reconcile, release
  <2>5. current.reconciling \/ current.handles = {}
    BY <1>3 DEF Reconcile, mayReconcile, quiet
  <2>6. \A s \in Sessions : phase[s] \notin registeredPhases
    BY <1>1, <2>4, <2>5, LoadHolders DEF RegistryAgrees
  <2> QED BY <2>3, <2>4, <2>6, UnfenceStep
<1>4. CASE ReconcileRefused
  BY <1>1, <1>4, QuietStep DEF ReconcileRefused
<1>5. CASE BlockReconciliation
  <2>1. \E why \in Reasons : env' = blockedFence(current, why)
    BY <1>5 DEF BlockReconciliation, Reasons
  <2>2. env'.handles = current.handles /\ ~env'.reconciling
    BY <1>1, <2>1, BlockedFenceHolders
  <2>3. /\ mode = "up" /\ loaded' = TRUE
        /\ claims' \in {claims, claims \ {claim("reconcile", NoSession)}}
        /\ UNCHANGED <<mode, phase, stopper, disposer, mutator>>
    BY <1>5 DEF BlockReconciliation, release
  <2>4. \A s \in Sessions : phase[s] \in registeredPhases => s \in env'.handles
    BY <1>1, <2>2, <2>3, LoadHolders DEF RegistryAgrees
  <2> QED BY <2>2, <2>3, <2>4, UnfenceStep
<1> QED BY <1>2, <1>3, <1>4, <1>5

(* A removal or a mutation ends, or the environment under it is unloaded.  *)
LEMMA DestroyerEndsStep ==
    ASSUME Exclusion, TypeOK', mode # "down", NEW k \in {"disposal", "cleanup"},
           claims' \in {claims, claims \ {claim(k, NoSession)}},
           destroying' \subseteq destroying,
           mode = "up" /\ k = "disposal" => disposer' # "active" \/ claims' = claims,
           mode = "up" /\ k = "cleanup" => mutator' = "none" \/ claims' = claims,
           disposer' = "active" => disposer = "active",
           mutator' # "none" => mutator # "none",
           env'.reconciling => env.reconciling /\ env'.handles = {} /\ env'.establishing = {},
           mode = "up" => \A s \in Sessions : phase[s] \in registeredPhases =>
                                                loaded' /\ s \in env'.handles,
           ~loaded' => env'.handles = {} /\ ~env'.reconciling,
           UNCHANGED <<mode, phase, stopper>>
    PROVE  Exclusion'
<1>1. \A s \in Sessions : attached(s)' = attached(s)
  BY DEF attached
<1>2. ClaimDiscipline'
  BY SMTT(60) DEF Exclusion, ClaimDiscipline, claim
<1>3. RegistryAgrees'
  BY DEF RegistryAgrees
<1> QED BY <1>1, <1>2, <1>3 DEF Exclusion, DestructionExcludesSessions, OneDestroyer

LEMMA RemovalExclusionStep ==
    ASSUME Exclusion, TypeOK',
           \/ BeginDisposal \/ DisposalCleanup \/ AdvanceDisposal \/ BlockDisposal
           \/ CompleteDisposalMetadata
           \/ BeginMutation \/ MutationCleanup \/ EndMutation \/ MutationRelease
           \/ ForgetEnvironment
    PROVE  Exclusion'
<1>. USE DEF sessionVars, actorVars, backendVars, boundVars
<1>1. /\ TypeOK /\ ClaimDiscipline /\ RegistryAgrees /\ daemon \in Nat
      /\ env \in Environments /\ current \in Environments /\ SameHolders(env, env)
  BY LoadType DEF Exclusion, TypeOK, SameHolders
<1>2. disposer = "active" \/ mutator = "running" =>
        mode # "down" /\ \A s \in Sessions : phase[s] \notin registeredPhases
  BY <1>1 DEF Exclusion, DestructionExcludesSessions, RegistryAgrees, destroying, attached
<1>3. unload => ~loaded' /\ env'.handles = {} /\ ~env'.reconciling
  BY SMTT(60) DEF unload, registryEnvironment
<1>4. ASSUME NEW e \in Environments
      PROVE  /\ \A b \in BOOLEAN : SameHolders([e EXCEPT !.mutation = b], e)
             /\ SameHolders([e EXCEPT !.mutation = TRUE, !.blocked = TRUE], e)
             /\ SameHolders([e EXCEPT !.journal.disposal.state = "blocked", !.mutation = FALSE], e)
  BY <1>4 DEF SameHolders, Environments
<1>5. CASE BeginDisposal
  <2>. DEFINE e == withIntent(current)
              c == cancelDeadline(e)
              b == blockEnv(c, "disposal-in-progress")
  <2>1. /\ mode = "up" /\ claims = {} /\ current.handles = {} /\ ~current.reconciling
        /\ UNCHANGED <<mode, phase, stopper, mutator>>
    BY <1>5 DEF BeginDisposal, claimable, busy
  <2>2. e \in Environments /\ SameHolders(e, current)
    BY <1>1, WithIntentType, WithIntentKeepsHolders
  <2>3. c \in Environments /\ SameHolders(c, current)
    <3> HIDE DEF e
    <3> QED BY <2>2, CancelType, UpdatesKeepHolders DEF SameHolders
  <2>4. b \in Environments /\ SameHolders(b, current)
    <3> HIDE DEF c
    <3>1. "disposal-in-progress" \in Reasons
      BY DEF Reasons
    <3>2. b \in Environments /\ SameHolders(b, c)
      BY <1>1, <2>3, <3>1, BlockType, UpdatesKeepHolders
    <3> QED BY <2>3, <3>2, HoldersTransitive
  <2>5. /\ env' \in {c, b, [b EXCEPT !.mutation = TRUE]}
        /\ \/ UNCHANGED <<claims, disposer>>
           \/ claims' = {claim("disposal", NoSession)}
    BY <1>5, <2>1 DEF BeginDisposal
  <2>6. env'.handles = {} /\ ~env'.reconciling
    <3> HIDE DEF b, c
    <3> QED BY <1>4, <2>1, <2>3, <2>4, <2>5 DEF SameHolders
  <2> QED BY <2>1, <2>5, <2>6, ClaimStep, UnclaimedStep
<1>6. CASE DisposalCleanup \/ MutationCleanup
  BY <1>1, <1>6, QuietStep DEF DisposalCleanup, MutationCleanup
<1>7. CASE AdvanceDisposal
  <2>1. SameHolders(env', env)
    BY <1>1, <1>7 DEF AdvanceDisposal, SameHolders, Environments
  <2>2. /\ disposer = "active" /\ mode = "up" /\ disposer' \in {"active", "failed"}
        /\ UNCHANGED <<mode, loaded, claims, phase, stopper, mutator>>
    BY <1>7 DEF AdvanceDisposal, activeDisposal
  <2>3. destroying' \subseteq destroying
    BY <2>2 DEF destroying
  <2> QED BY <1>1, <1>2, <2>1, <2>2, <2>3, DestroyerEndsStep DEF RegistryAgrees, SameHolders
<1>8. CASE BlockDisposal
  <2>. DEFINE b == blockEnv(current, "disposal-blocked")
  <2>1. b \in Environments /\ SameHolders(b, current)
    BY <1>1, BlockType, UpdatesKeepHolders DEF Reasons
  <2>2. /\ mode = "up" /\ disposer' = "none"
        /\ claims' \in {claims, claims \ {claim("disposal", NoSession)}}
        /\ UNCHANGED <<mode, phase, stopper, mutator>>
    BY <1>8 DEF BlockDisposal, release
  <2>3. destroying' \subseteq destroying
    BY <2>2 DEF destroying
  <2>4. \/ UNCHANGED <<loaded, env>>
        \/ /\ loaded' = TRUE
           /\ env' = [b EXCEPT !.journal.disposal.state = "blocked", !.mutation = FALSE]
    BY <1>8 DEF BlockDisposal
  <2>5. \/ UNCHANGED <<loaded, env>>
        \/ loaded' = TRUE /\ SameHolders(env', current)
    <3> HIDE DEF b
    <3> QED BY <1>4, <2>1, <2>4 DEF SameHolders
  <2>6. CASE UNCHANGED <<loaded, env>>
    BY <1>1, <2>2, <2>3, <2>6, DestroyerEndsStep DEF RegistryAgrees
  <2>7. CASE loaded' = TRUE /\ SameHolders(env', current)
    BY <1>1, <2>2, <2>3, <2>7, LoadHolders, DestroyerEndsStep DEF RegistryAgrees, SameHolders
  <2> QED BY <2>5, <2>6, <2>7
<1>9. CASE CompleteDisposalMetadata
  <2>. DEFINE b == blockEnv(env, "journal-removal-failed")
  <2>1. b \in Environments /\ SameHolders(b, env)
    BY <1>1, BlockType, UpdatesKeepHolders DEF Reasons
  <2>2. /\ disposer = "active" /\ mode = "up" /\ disposer' \in {"none", "failed"}
        /\ claims' = claims \ {claim("disposal", NoSession)}
        /\ UNCHANGED <<mode, phase, stopper, mutator>>
    BY <1>9 DEF CompleteDisposalMetadata, activeDisposal, release
  <2>3. destroying' \subseteq destroying
    BY <2>2 DEF destroying
  <2>4. unload \/ (env' = [b EXCEPT !.mutation = FALSE] /\ UNCHANGED loaded)
    BY <1>9 DEF CompleteDisposalMetadata
  <2>5. unload \/ (SameHolders(env', env) /\ UNCHANGED loaded)
    <3> HIDE DEF b
    <3> QED BY <1>4, <2>1, <2>4 DEF SameHolders
  <2> QED BY <1>1, <1>2, <1>3, <2>2, <2>3, <2>5, DestroyerEndsStep DEF RegistryAgrees, SameHolders
<1>10. CASE BeginMutation
  <2>. DEFINE c == cancelDeadline(current)
              b == blockEnv(c, "destructive-mutation-in-progress")
              m == [current EXCEPT !.mutation = TRUE, !.blocked = TRUE]
  <2>1. /\ mode = "up" /\ claims = {} /\ current.handles = {} /\ ~current.reconciling
        /\ claims' = {claim("cleanup", NoSession)}
        /\ UNCHANGED <<mode, phase, stopper, disposer>>
    BY <1>10 DEF BeginMutation, claimable, busy
  <2>2. c \in Environments /\ SameHolders(c, current)
    BY <1>1, CancelType, UpdatesKeepHolders
  <2>3. b \in Environments /\ SameHolders(b, current)
    <3> HIDE DEF c
    <3>1. "destructive-mutation-in-progress" \in Reasons
      BY DEF Reasons
    <3>2. b \in Environments /\ SameHolders(b, c)
      BY <1>1, <2>2, <3>1, BlockType, UpdatesKeepHolders
    <3> QED BY <2>2, <3>2, HoldersTransitive
  <2>4. env' \in {m, c, b, [b EXCEPT !.mutation = TRUE]} /\ SameHolders(m, current)
    BY <1>1, <1>4, <1>10 DEF BeginMutation
  <2>5. env'.handles = {} /\ ~env'.reconciling
    <3> HIDE DEF b, c, m
    <3> QED BY <1>4, <2>1, <2>2, <2>3, <2>4 DEF SameHolders
  <2> QED BY <2>1, <2>5, ClaimStep
<1>11. CASE EndMutation
  <2>. DEFINE e == [env EXCEPT !.mutation = FALSE]
              f == [e EXCEPT !.journal.recon = blockedReconciliation(daemon, "cleanup-unproved")]
  <2>1. e \in Environments /\ SameHolders(e, env)
    BY <1>1 DEF Environments, SameHolders
  <2>2. SameHolders(f, env)
    <3> HIDE DEF e
    <3> QED BY <2>1 DEF SameHolders, Environments
  <2>3. /\ mutator = "running" /\ mode # "down" /\ mutator' = "returned"
        /\ UNCHANGED <<mode, claims, phase, stopper, disposer>>
    BY <1>11 DEF EndMutation
  <2>4. destroying' \subseteq destroying
    BY <2>3 DEF destroying
  <2>5. unload \/ (UNCHANGED loaded /\ env' \in {env, e, f})
    BY <1>11 DEF EndMutation
  <2>6. unload \/ (UNCHANGED loaded /\ SameHolders(env', env))
    <3> HIDE DEF e, f
    <3> QED BY <1>1, <2>1, <2>2, <2>5
  <2> QED BY <1>1, <1>2, <1>3, <2>3, <2>4, <2>6, DestroyerEndsStep DEF RegistryAgrees, SameHolders
<1>12. CASE MutationRelease
  <2>1. /\ mode # "down" /\ mutator' = "none"
        /\ claims' = claims \ {claim("cleanup", NoSession)}
        /\ UNCHANGED <<mode, loaded, env, phase, stopper, disposer>>
    BY <1>12 DEF MutationRelease, release
  <2>2. destroying' \subseteq destroying
    BY <2>1 DEF destroying
  <2> QED BY <1>1, <2>1, <2>2, DestroyerEndsStep DEF RegistryAgrees
<1>13. CASE ForgetEnvironment
  <2>1. /\ mode = "up" /\ claims = {} /\ current.handles = {} /\ ~current.reconciling
        /\ UNCHANGED <<mode, phase, claims, stopper, disposer, mutator>>
        /\ unload \/ env' = current
    BY <1>13 DEF ForgetEnvironment, claimable, busy
  <2> QED BY <1>3, <2>1, UnclaimedStep
<1> QED BY <1>5, <1>6, <1>7, <1>8, <1>9, <1>10, <1>11, <1>12, <1>13

LEMMA DaemonExclusionStep ==
    ASSUME Exclusion, TypeOK', Close \/ Exit \/ Start \/ VmLost
    PROVE  Exclusion'
<1>. USE DEF sessionVars, actorVars, backendVars, boundVars
<1>1. /\ TypeOK /\ ClaimDiscipline /\ RegistryAgrees /\ daemon + 1 \in Nat /\ daemon \in Nat
      /\ env \in Environments /\ disk \in Journals /\ SameHolders(env, env)
  BY SMTT(60) DEF Exclusion, TypeOK, SameHolders
<1>2. CASE Close
  <2>1. /\ mode' = "closing" /\ UNCHANGED <<phase, stopper, disposer, mutator>>
    BY <1>2 DEF Close
  <2>2. destroying' = destroying /\ \A s \in Sessions : attached(s)' = attached(s)
    BY <2>1 DEF destroying, attached
  <2>3. ~env'.reconciling /\ (~loaded' => env'.handles = {})
    <3>. DEFINE f == [env EXCEPT !.establishing = {}, !.stopCancel = FALSE,
                                 !.stopDone = FALSE, !.journal.deadline = NoDeadline]
                b == [blockEnv(f, "daemon-shutdown") EXCEPT !.reconciling = FALSE]
                e == IF env.reconciling THEN b ELSE f
    <3>1. f \in Environments /\ f.reconciling = env.reconciling
      BY <1>1, ConstantTypes DEF Environments, Journals
    <3>2. b \in Environments /\ ~b.reconciling
      <4> HIDE DEF f
      <4>1. blockEnv(f, "daemon-shutdown") \in Environments
        BY <1>1, <3>1, BlockType DEF Reasons
      <4> QED BY <4>1 DEF Environments
    <3>3. e \in Environments /\ ~e.reconciling
      <4> HIDE DEF f, b
      <4> QED BY <3>1, <3>2
    <3>4. ~checkpointNow(e).reconciling
      <4> HIDE DEF e
      <4> QED BY <3>3, UpdatesKeepHolders DEF SameHolders
    <3>5. unload \/ (loaded' /\ env' = checkpointNow(e))
      BY <1>2 DEF Close
    <3> QED BY SMTT(60), <3>4, <3>5 DEF unload, registryEnvironment
  <2> QED BY <2>1, <2>2, <2>3 DEF Exclusion, ClaimDiscipline, RegistryAgrees,
             DestructionExcludesSessions, OneDestroyer
<1>3. CASE Exit
  <2>1. /\ mode' = "down" /\ ~loaded' /\ claims' = {} /\ stopper'.pc = "none"
        /\ mutator' = "none" /\ disposer' = "none" /\ env'.handles = {} /\ ~env'.reconciling
        /\ phase' = [s \in Sessions |-> "idle"]
    BY <1>3 DEF Exit, unload, idleStopper, registryEnvironment
  <2>2. destroying' = {} /\ \A s \in Sessions : ~attached(s)'
    BY <2>1 DEF destroying, attached, establishingPhases, registeredPhases
  <2> QED BY <2>1, <2>2 DEF Exclusion, ClaimDiscipline, RegistryAgrees,
             DestructionExcludesSessions, OneDestroyer
<1>4. CASE Start
  <2>. DEFINE l == IF disk.gen = 0
                   THEN registryEnvironment(newJournal(daemon + 1), FALSE)
                   ELSE registryEnvironment(disk, FALSE)
              f == fenced(l, daemon + 1)
              b == [f EXCEPT !.journal.attempt = NoAttempt, !.reconciling = FALSE,
                             !.journal.recon = blockedReconciliation(daemon + 1,
                                                  "environment-record-unavailable")]
  <2>1. /\ ~loaded /\ claims = {} /\ destroying = {} /\ stopper.pc = "none"
        /\ mutator = "none" /\ disposer # "active" /\ env.handles = {} /\ ~env.reconciling
        /\ \A s \in Sessions : ~attached(s)
    BY <1>1, <1>4 DEF Start, RegistryAgrees, destroying
  <2>2. UNCHANGED <<phase, stopper, disposer, mutator>>
    BY <1>4 DEF Start
  <2>3. destroying' = {} /\ \A s \in Sessions : ~attached(s)'
    BY <2>1, <2>2 DEF destroying, attached
  <2>4. l \in Environments /\ l.handles = {} /\ l.establishing = {}
    <3>1. l \in Environments
      BY <1>1, JournalType, EnvironmentType
    <3>2. l.handles = {} /\ l.establishing = {}
      BY DEF registryEnvironment
    <3> QED BY <3>1, <3>2
  <2>5. f \in Environments /\ f.handles = {} /\ f.establishing = {}
    <3> HIDE DEF l
    <3> QED BY <1>1, <2>4, FencedType, FenceHolders
  <2>6. b.handles = {} /\ ~b.reconciling
    <3> HIDE DEF f
    <3> QED BY <2>5 DEF Environments
  <2>7. \/ mode' = "up" /\ UNCHANGED <<loaded, env, claims>>
        \/ mode' = "up" /\ env' = f /\ loaded' = TRUE /\ claims' = {claim("reconcile", NoSession)}
        \/ mode' = "up" /\ env' = b /\ loaded' = TRUE /\ UNCHANGED claims
        \/ UNCHANGED <<mode, loaded, env, claims>>
    BY <1>4 DEF Start
  <2> HIDE DEF f, b
  <2>8. ClaimDiscipline'
    BY <1>1, <2>1, <2>2, <2>3, <2>5, <2>6, <2>7 DEF ClaimDiscipline, attached
  <2>9. RegistryAgrees'
    BY SMTT(60), <1>1, <2>1, <2>2, <2>3, <2>5, <2>6, <2>7 DEF RegistryAgrees, attached
  <2> QED BY <2>3, <2>8, <2>9 DEF Exclusion, DestructionExcludesSessions, OneDestroyer
<1>5. CASE VmLost
  BY <1>1, <1>5, QuietStep DEF VmLost
<1> QED BY <1>2, <1>3, <1>4, <1>5

LEMMA ExclusionStep == Exclusion /\ [Next]_vars => Exclusion'
<1> SUFFICES ASSUME Exclusion, [Next]_vars
             PROVE  Exclusion'
  OBVIOUS
<1>1. TypeOK'
  BY TypeStep DEF Exclusion
<1>2. CASE UNCHANGED vars
  BY <1>1, <1>2, QuietStep DEF vars, sessionVars, actorVars, SameHolders
<1>3. CASE Next
  BY <1>1, <1>3, SessionExclusionStep, TimerExclusionStep, StopExclusionStep,
     ReconciliationExclusionStep, RemovalExclusionStep, DaemonExclusionStep DEF Next
<1> QED BY <1>2, <1>3

(* While a stop callback, a removal or a destructive mutation may be at    *)
(* work on the backend, no session is between its reservation and its      *)
(* Finish: for any number of sessions, through crashes, restarts, failed   *)
(* writes and every interleaving of the critical sections.                 *)
THEOREM DestructionIsExclusive == Spec => []DestructionExcludesSessions
<1>1. Exclusion => DestructionExcludesSessions
  BY DEF Exclusion
<1> QED BY <1>1, ExclusionInit, ExclusionStep, PTL DEF Spec

(* No two of a stop callback, a removal and a destructive mutation are at  *)
(* work at once.                                                           *)
THEOREM DestroyerIsUnique == Spec => []OneDestroyer
<1>1. Exclusion => OneDestroyer
  BY DEF Exclusion
<1> QED BY <1>1, ExclusionInit, ExclusionStep, PTL DEF Spec

(* In a serving daemon every actor holds the claim of its kind, and a      *)
(* claim that is not shared excludes all others.                           *)
THEOREM ClaimsAreDisciplined == Spec => []ClaimDiscipline
<1>1. Exclusion => ClaimDiscipline
  BY DEF Exclusion
<1> QED BY <1>1, ExclusionInit, ExclusionStep, PTL DEF Spec

====

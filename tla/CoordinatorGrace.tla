-------------------------- MODULE CoordinatorGrace --------------------------
(***************************************************************************)
(* The idle grace and the stop of the environment.  An automatic stop      *)
(* needs the timer of the current deadline.  What the coordinator keeps in *)
(* memory is valid as long as no removal is asked for; then, without write *)
(* faults, a stop in flight is on disk and an idle environment has its     *)
(* timer.                                                                  *)
(***************************************************************************)
EXTENDS CoordinatorDurability

(* The default prover; SMT where a leaf needs arithmetic or cases.  The    *)
(* limits are wall-clock seconds, wide enough for a busy machine.          *)
USE ZenonT(60)

-----------------------------------------------------------------------------
(* The inductive invariants *)

(* No caller asks for a removal; and, further, no write fails.             *)
NoRemovals == "disposal" \notin Callers
FaultFree == NoRemovals /\ MaxFaults = 0

(* Nobody asks for a removal, so no journal has an intent.                 *)
NoIntents ==
    /\ disposer = "none"
    /\ env.journal.disposal = NoDisposal /\ disk.disposal = NoDisposal

(* Without write faults a reconciliation worker is behind the fence that   *)
(* it was started for, a destructive mutation blocks the environment, and  *)
(* the attempt of a stop callback is in memory and on disk.                *)
ActorsAreRecorded ==
    /\ "failed" \notin worker /\ (mode = "down" => worker = {})
    /\ mode = "up" =>
         /\ "probing" \in worker => loaded /\ env.reconciling
         /\ env.mutation => mutator = "running"
         /\ mutator = "running" => loaded /\ env.mutation /\ env.blocked
    /\ stopper.pc = "invoked" => /\ attemptBlocksAttach(env.journal.attempt)
                                 /\ attemptBlocksAttach(disk.attempt)

(* An environment that may be stopped when its grace period ends.          *)
stoppable(e) ==
    /\ ~e.blocked /\ e.journal.recon.state = "complete"
    /\ e.handles = {} /\ e.establishing = {}
    /\ e.journal.inc.boot # 0 /\ ~attemptBlocksAttach(e.journal.attempt)

(* The deadline of an environment that may be stopped has its timer.       *)
IdleHasTimer ==
    mode = "up" /\ loaded /\ stoppable(env) => env.journal.deadline \in timers

-----------------------------------------------------------------------------
(* Flags and intents *)

(* The environment keeps its fence, its mutation flag and its intent.      *)
KeepsFlags(f, e) ==
    /\ f.reconciling = e.reconciling /\ f.mutation = e.mutation
    /\ f.journal.disposal = e.journal.disposal

(* What the journal helpers leave alone: checkpoints, fences and timers.   *)
LEMMA FlagViews ==
    ASSUME NEW e \in Environments
    PROVE  /\ KeepsFlags(checkpointNow(e), e) /\ KeepsFlags(checkpointLater(e), e)
           /\ \A why : KeepsFlags(blockEnv(e, why), e)
           /\ KeepsFlags(cancelDeadlineForAttach(e), e) /\ KeepsFlags(cancelDeadline(e), e)
           /\ KeepsFlags(armed(e), e)
<1>1. KeepsFlags(checkpointNow(e), e) /\ KeepsFlags(checkpointLater(e), e)
  BY DEF KeepsFlags, checkpointNow, checkpointLater, Environments
<1>2. ASSUME NEW why PROVE KeepsFlags(blockEnv(e, why), e)
  BY DEF KeepsFlags, blockEnv, Environments, Journals
<1>3. KeepsFlags(cancelDeadlineForAttach(e), e)
  BY DEF KeepsFlags, cancelDeadlineForAttach, Environments, Journals
<1>4. KeepsFlags(cancelDeadline(e), e)
  <2>1. cancelDeadlineForAttach(e) \in Environments
    BY CancelType
  <2>2. KeepsFlags(checkpointNow(cancelDeadlineForAttach(e)), cancelDeadlineForAttach(e))
    BY <2>1 DEF KeepsFlags, checkpointNow, Environments
  <2> QED BY <1>3, <2>2 DEF KeepsFlags, cancelDeadline
<1>5. KeepsFlags(armed(e), e)
  BY DEF KeepsFlags, armed, Environments, Journals
<1> QED BY <1>1, <1>2, <1>3, <1>4, <1>5

(* So do the helpers that change the rows and the handles.                 *)
LEMMA RowFlagViews ==
    ASSUME NEW e \in Environments, NEW s \in Sessions
    PROVE  /\ KeepsFlags(dropRow(e, s), e) /\ KeepsFlags(orphanRow(e, s), e)
           /\ KeepsFlags(dropHandle(e, s), e)
<1>1. KeepsFlags(dropRow(e, s), e)
  BY DEF KeepsFlags, dropRow, Environments, Journals
<1>2. KeepsFlags(orphanRow(e, s), e)
  BY DEF KeepsFlags, orphanRow, Environments, Journals
<1>3. KeepsFlags(dropHandle(e, s), e)
  BY DEF KeepsFlags, dropHandle, Environments
<1> QED BY <1>1, <1>2, <1>3

(* So do the steps of a stop.                                              *)
LEMMA StopFlagViews ==
    ASSUME NEW e \in Environments
    PROVE  /\ \A a : KeepsFlags(withAttempt(e, a), e)
           /\ \A inc, kind : KeepsFlags(invoked(e, inc, kind), e)
           /\ \A res : KeepsFlags(stopCommitted(e, res), e)
<1>1. ASSUME NEW a PROVE KeepsFlags(withAttempt(e, a), e)
  BY DEF KeepsFlags, withAttempt, Environments, Journals
<1>2. ASSUME NEW inc, NEW kind PROVE KeepsFlags(invoked(e, inc, kind), e)
  BY DEF KeepsFlags, invoked, withAttempt, Environments, Journals
<1>3. ASSUME NEW res PROVE KeepsFlags(stopCommitted(e, res), e)
  <2>1. CASE res = "unknown"
    BY <2>1 DEF KeepsFlags, stopCommitted, stopFinished, Environments, Journals
  <2>2. CASE res # "unknown"
    BY ZenonT(60), <2>2 DEF KeepsFlags, stopCommitted, stopFinished, Environments, Journals
  <2> QED BY <2>1, <2>2
<1> QED BY <1>1, <1>2, <1>3

(* A fence goes up in fenced and comes down in Reconcile and in            *)
(* BlockReconciliation; the rest stays.                                    *)
LEMMA FenceFlagViews ==
    ASSUME NEW e \in Environments
    PROVE  /\ \A d : /\ fenced(e, d).reconciling /\ fenced(e, d).mutation = e.mutation
                     /\ fenced(e, d).journal.disposal = e.journal.disposal
           /\ \A why : /\ blockedFence(e, why).mutation = e.mutation
                       /\ blockedFence(e, why).journal.disposal = e.journal.disposal
           /\ \A o : /\ relinquished(e, o).mutation = e.mutation
                     /\ relinquished(e, o).journal.disposal = e.journal.disposal
<1>1. ASSUME NEW d
      PROVE  /\ fenced(e, d).reconciling /\ fenced(e, d).mutation = e.mutation
             /\ fenced(e, d).journal.disposal = e.journal.disposal
  BY DEF fenced, Environments, Journals
<1>2. ASSUME NEW why
      PROVE  /\ blockedFence(e, why).mutation = e.mutation
             /\ blockedFence(e, why).journal.disposal = e.journal.disposal
  BY DEF blockedFence, blockEnv, Environments, Journals
<1>3. ASSUME NEW o
      PROVE  /\ relinquished(e, o).mutation = e.mutation
             /\ relinquished(e, o).journal.disposal = e.journal.disposal
  BY DEF relinquished, Environments, Journals
<1> QED BY <1>1, <1>2, <1>3

(* Reconcile keeps the intent and the flag, and an environment that it     *)
(* leaves open and running has a new deadline.                             *)
LEMMA ReconciledViews ==
    ASSUME TypeOK, NEW e \in Environments, NEW o \in probed,
           NEW owners \in SUBSET Sessions, NEW unproved \in BOOLEAN
    PROVE  LET h == reconciled(e, o, owners, unproved)
           IN  /\ h.mutation = e.mutation /\ h.journal.disposal = e.journal.disposal
               /\ \/ h.blocked
                  \/ h.journal.inc.boot = 0
                  \/ h.journal.deadline # NoDeadline
<1>. DEFINE f == relinquished(e, o)
            h == classified(f, o, owners, unproved)
<1>1. f \in Environments /\ o \in Observations /\ daemon \in Nat
  BY ObservationType, RelinquishedType DEF probed, TypeOK, Observations
<1>2. f.mutation = e.mutation /\ f.journal.disposal = e.journal.disposal
  BY FenceFlagViews
<1>. HIDE DEF f
<1>3. ASSUME NEW why \in Reasons, NEW R
      PROVE  LET k == [blockEnv(f, why) EXCEPT !.journal.rows = R]
             IN  /\ k.mutation = f.mutation /\ k.journal.disposal = f.journal.disposal
                 /\ k.blocked
  BY <1>1 DEF blockEnv, Environments, Journals
<1>4. CASE o.state = "stopped"
  <2>1. /\ h.mutation = f.mutation /\ h.journal.disposal = f.journal.disposal
        /\ h.journal.inc.boot = 0
    BY <1>1, <1>4 DEF classified, completed, NoInc, Environments, Journals
  <2> QED BY <1>2, <2>1 DEF f, reconciled
<1>5. CASE o.state = "unknown"
  <2>1. PICK R : h = [blockEnv(f, "backend-unknown") EXCEPT !.journal.rows = R]
    BY <1>5 DEF classified
  <2>2. /\ h.mutation = f.mutation /\ h.journal.disposal = f.journal.disposal /\ h.blocked
    <3> HIDE DEF h
    <3> QED BY <1>3, <2>1 DEF Reasons
  <2> QED BY <1>2, <2>2 DEF f, reconciled
<1>6. CASE o.state \notin {"stopped", "unknown"} /\ ~matches(f.journal.inc, o)
  <2>1. /\ h.mutation = f.mutation /\ h.journal.disposal = f.journal.disposal /\ h.blocked
    BY <1>1, <1>6 DEF classified, blockEnv, Environments, Journals
  <2> QED BY <1>2, <2>1 DEF f, reconciled
<1>7. CASE o.state \notin {"stopped", "unknown"} /\ matches(f.journal.inc, o) /\ unproved
  <2>1. PICK R : h = [blockEnv(f, "provider-state-unproved") EXCEPT !.journal.rows = R]
    BY <1>7 DEF classified
  <2>2. /\ h.mutation = f.mutation /\ h.journal.disposal = f.journal.disposal /\ h.blocked
    <3> HIDE DEF h
    <3> QED BY <1>3, <2>1 DEF Reasons
  <2> QED BY <1>2, <2>2 DEF f, reconciled
<1>8. CASE /\ o.state \notin {"stopped", "unknown"} /\ matches(f.journal.inc, o)
           /\ ~unproved /\ owners # {}
  <2>1. PICK R : h = [blockEnv(f, "owner-requires-explicit-recovery") EXCEPT !.journal.rows = R]
    BY <1>8 DEF classified
  <2>2. /\ h.mutation = f.mutation /\ h.journal.disposal = f.journal.disposal /\ h.blocked
    <3> HIDE DEF h
    <3> QED BY <1>3, <2>1 DEF Reasons
  <2> QED BY <1>2, <2>2 DEF f, reconciled
<1>9. CASE /\ o.state \notin {"stopped", "unknown"} /\ matches(f.journal.inc, o)
           /\ ~unproved /\ owners = {}
  <2>. DEFINE k == checkpointNow([completed(f) EXCEPT !.journal.rows = {}])
  <2>1. k \in Environments /\ k.mutation = f.mutation /\ k.journal.disposal = f.journal.disposal
    <3>1. completed(f) \in Environments
      BY <1>1, CompletedType
    <3>2. [completed(f) EXCEPT !.journal.rows = {}] \in Environments
      BY <3>1 DEF Environments, Journals
    <3>3. k.mutation = f.mutation /\ k.journal.disposal = f.journal.disposal
      BY <1>1 DEF completed, checkpointNow, Environments, Journals
    <3> QED BY <3>2, <3>3, CheckpointTypes
  <2>2. h = armed(k)
    BY <1>9 DEF classified
  <2>. HIDE DEF k
  <2> QED BY <1>2, <2>1, <2>2, ArmedViews, FlagViews DEF KeepsFlags, f, reconciled
<1> QED BY <1>4, <1>5, <1>6, <1>7, <1>8, <1>9

-----------------------------------------------------------------------------
(* Without removals no journal has an intent *)

(* A write keeps the disk free of intents when what it writes is.          *)
LEMMA IntentWrites ==
    ASSUME disk.disposal = NoDisposal
    PROVE  /\ \A j, ok : persist(j, ok) /\ j.disposal = NoDisposal => disk'.disposal = NoDisposal
           /\ \A ok : remove(ok) => disk'.disposal = NoDisposal
           /\ \A j : removeFailed(j) /\ j.disposal = NoDisposal => disk'.disposal = NoDisposal
           /\ \A i, j : persistTwice(i, j) /\ i.disposal = NoDisposal /\ j.disposal = NoDisposal
                          => disk'.disposal = NoDisposal
<1>1. NoJournal.disposal = NoDisposal
  BY DEF NoJournal, newJournal
<1>2. \A j, ok : persist(j, ok) /\ j.disposal = NoDisposal => disk'.disposal = NoDisposal
  BY Persisted
<1>3. \A ok : remove(ok) => disk'.disposal = NoDisposal
  BY <1>1 DEF remove
<1>4. \A j : removeFailed(j) /\ j.disposal = NoDisposal => disk'.disposal = NoDisposal
  BY <1>1 DEF removeFailed
<1>5. \A i, j : persistTwice(i, j) /\ i.disposal = NoDisposal /\ j.disposal = NoDisposal
                  => disk'.disposal = NoDisposal
  BY DEF persistTwice
<1> QED BY <1>2, <1>3, <1>4, <1>5

(* Cancelling the deadline writes no intent.                               *)
LEMMA CancelIntent ==
    ASSUME NEW e \in Environments, NEW j, NEW outcome, cancelAndPersist(e, j, outcome),
           disk.disposal = NoDisposal, e.journal.disposal = NoDisposal,
           j.disposal = NoDisposal
    PROVE  disk'.disposal = NoDisposal
BY CancelWrites DEF TameJournal

(* scheduleIfIdle writes no intent.                                        *)
LEMMA ScheduleIntent ==
    ASSUME NEW e \in Environments, NEW ok, scheduleIfIdle(e, ok),
           disk.disposal = NoDisposal, e.journal.disposal = NoDisposal, daemon \in Nat
    PROVE  /\ env'.journal.disposal = NoDisposal /\ disk'.disposal = NoDisposal
           /\ env'.mutation = e.mutation
<1>. DEFINE b == blockEnv(e, "backend-observation-unproved")
            a == armed(e)
<1>1. /\ b.journal.disposal = NoDisposal /\ b.mutation = e.mutation
      /\ a \in Environments /\ a.journal.disposal = NoDisposal /\ a.mutation = e.mutation
  BY SMTT(60), FlagViews, ArmedType DEF KeepsFlags
<1>2. /\ checkpointLater(a).journal.disposal = NoDisposal
      /\ checkpointLater(a).mutation = e.mutation
  <2> HIDE DEF a
  <2> QED BY <1>1, FlagViews DEF KeepsFlags
<1>3. \/ env' = e /\ persist(e.journal, ok)
      \/ env' = b /\ persist(b.journal, ok)
      \/ env' = checkpointLater(a) /\ disk' = disk
  BY DEF scheduleIfIdle
<1> HIDE DEF a, b
<1> QED BY <1>1, <1>2, <1>3, IntentWrites

(* The environment that an operation finds has no intent of its own.       *)
LEMMA CurrentIntent ==
    ASSUME Durability, NoIntents, mode = "up"
    PROVE  /\ current \in Environments /\ current.journal.disposal = NoDisposal
           /\ current.mutation => env.mutation
BY SMTT(60), CurrentRows DEF NoIntents, registryEnvironment, newJournal

(* A step of a session writes no intent.                                   *)
LEMMA SessionIntentStep ==
    ASSUME Durability, NoIntents, NEW s \in Sessions, SessionNext(s)
    PROVE  NoIntents' /\ (env'.mutation => env.mutation)
<1>. USE DEF sessionVars, actorVars, backendVars, boundVars
<1>1. /\ TypeOK /\ env \in Environments /\ daemon \in Nat
      /\ env.journal.disposal = NoDisposal /\ disk.disposal = NoDisposal
  BY DEF Durability, Exclusion, TypeOK, NoIntents
<1>2. disposer' = "none"
  BY DEF NoIntents, SessionNext, Reserve, ReserveWait, ReserveRefused, ReserveGivesUp, Observe,
         Prepare, Promote, Abort, Commit, StartBackend, BindBoot, AbortRegistration,
         BeginFinish, Release, FinishRegistration
<1>3. SUFFICES /\ env'.journal.disposal = NoDisposal /\ disk'.disposal = NoDisposal
               /\ env'.mutation => env.mutation
  BY <1>2 DEF NoIntents
<1>4. CASE Reserve(s)
  <2>. DEFINE c == cancelDeadlineForAttach(current)
  <2>1. /\ disk' = disk /\ mode = "up"
        /\ env' = [c EXCEPT !.establishing = @ \cup {s}]
    BY <1>4 DEF Reserve, asks
  <2>2. c \in Environments /\ c.journal.disposal = NoDisposal /\ (c.mutation => env.mutation)
    BY <2>1, CurrentIntent, CancelType, FlagViews DEF KeepsFlags
  <2> HIDE DEF c
  <2> QED BY <1>1, <2>1, <2>2 DEF Environments
<1>5. CASE \/ ReserveWait(s) \/ ReserveRefused(s) \/ ReserveGivesUp(s) \/ Observe(s)
           \/ StartBackend(s)
  BY <1>1, <1>5 DEF ReserveWait, ReserveRefused, ReserveGivesUp, Observe, StartBackend
<1>6. CASE Prepare(s)
  <2>1. PICK o : env' = [env EXCEPT !.obs = o, !.journal = selectIncarnation(env.journal, o)]
    BY <1>6 DEF Prepare
  <2>2. selectIncarnation(env.journal, o).disposal = NoDisposal
    BY <1>1 DEF selectIncarnation, Environments, Journals
  <2> QED BY <1>1, <1>6, <2>1, <2>2 DEF Prepare, Environments
<1>7. CASE Promote(s)
  BY <1>1, <1>7 DEF Promote, Environments, Journals
<1>8. CASE Abort(s)
  <2>. DEFINE e == [env EXCEPT !.establishing = @ \ {s}]
  <2>1. e \in Environments /\ e.journal.disposal = NoDisposal /\ e.mutation = env.mutation
    BY <1>1 DEF Environments
  <2>2. \/ env' = e /\ disk' = disk
        \/ env' = env /\ disk' = disk
        \/ unload /\ disk' = disk
        \/ \E ok \in BOOLEAN : scheduleIfIdle(e, ok)
    BY <1>8 DEF Abort
  <2>3. /\ registryEnvironment(NoJournal, FALSE).journal.disposal = NoDisposal
        /\ ~registryEnvironment(NoJournal, FALSE).mutation
    BY DEF registryEnvironment, NoJournal, newJournal
  <2> HIDE DEF e
  <2> QED BY <1>1, <2>1, <2>2, <2>3, ScheduleIntent DEF unload
<1>9. CASE Commit(s)
  <2>1. PICK ok \in BOOLEAN :
          /\ persist(env.journal, ok)
          /\ env' = [checkpointNow(env) EXCEPT !.committed = IF ok THEN @ \cup {s} ELSE @]
    BY <1>9 DEF Commit
  <2>2. /\ checkpointNow(env) \in Environments
        /\ checkpointNow(env).journal.disposal = NoDisposal
        /\ checkpointNow(env).mutation = env.mutation
    BY <1>1, CheckpointTypes, FlagViews DEF KeepsFlags
  <2> QED BY <1>1, <2>1, <2>2, IntentWrites DEF Environments
<1>10. CASE BindBoot(s)
  <2>. DEFINE e == [env EXCEPT !.journal.inc.boot = vm, !.obs = observation(vm)]
  <2>1. e \in Environments /\ e.journal.disposal = NoDisposal /\ e.mutation = env.mutation
    <3>1. vm \in Nat /\ observation(vm) \in Observations
      BY <1>1, ObservationType DEF TypeOK
    <3> QED BY <1>1, <3>1 DEF Environments, Journals, Incarnations
  <2>2. \/ env' = checkpointNow(e) /\ \E ok \in BOOLEAN : persist(e.journal, ok)
        \/ env' = checkpointLater(e) /\ disk' = disk
    BY <1>10 DEF BindBoot
  <2> HIDE DEF e
  <2>3. /\ checkpointNow(e).journal.disposal = NoDisposal
        /\ checkpointLater(e).journal.disposal = NoDisposal
        /\ checkpointNow(e).mutation = env.mutation /\ checkpointLater(e).mutation = env.mutation
    BY <2>1, FlagViews DEF KeepsFlags
  <2> QED BY <1>1, <2>1, <2>2, <2>3, IntentWrites
<1>11. CASE AbortRegistration(s)
  <2>. DEFINE d == dropRow(env, s)
              e == dropHandle(d, s)
  <2>1. d \in Environments /\ d.journal.disposal = NoDisposal /\ d.mutation = env.mutation
    BY <1>1, RowTypes, RowFlagViews DEF KeepsFlags
  <2>2. e \in Environments /\ e.journal.disposal = NoDisposal /\ e.mutation = env.mutation
    <3> HIDE DEF d
    <3> QED BY <2>1, RowTypes, RowFlagViews DEF KeepsFlags
  <2>3. \/ env' = e /\ disk' = disk
        \/ \E ok \in BOOLEAN : scheduleIfIdle(e, ok)
    BY <1>11 DEF AbortRegistration
  <2> HIDE DEF e
  <2> QED BY <1>1, <2>2, <2>3, ScheduleIntent
<1>12. CASE BeginFinish(s)
  BY <1>1, <1>12 DEF BeginFinish, Environments
<1>13. CASE Release(s)
  <2>. DEFINE d == dropRow(env, s)
              o == orphanRow(env, s)
  <2>1. /\ d \in Environments /\ d.journal.disposal = NoDisposal /\ d.mutation = env.mutation
        /\ o \in Environments /\ o.journal.disposal = NoDisposal /\ o.mutation = env.mutation
    BY <1>1, RowTypes, RowFlagViews DEF KeepsFlags
  <2>2. \/ env' = checkpointLater(d) /\ disk' = disk
        \/ env' = checkpointNow(o) /\ \E ok \in BOOLEAN : persist(env'.journal, ok)
    BY <1>13 DEF Release
  <2> HIDE DEF d, o
  <2>3. env'.journal.disposal = NoDisposal /\ env'.mutation = env.mutation
    BY ZenonT(60), <2>1, <2>2, FlagViews DEF KeepsFlags
  <2> QED BY <1>1, <2>2, <2>3, IntentWrites
<1>14. CASE FinishRegistration(s)
  <2>. DEFINE e == dropHandle(env, s)
  <2>1. e \in Environments /\ e.journal.disposal = NoDisposal /\ e.mutation = env.mutation
    BY <1>1, RowTypes, RowFlagViews DEF KeepsFlags
  <2>2. \/ /\ env' = blockEnv(e, "cleanup-unproved")
           /\ \E ok \in BOOLEAN : persist(env'.journal, ok)
        \/ env' = checkpointLater(e) /\ disk' = disk
        \/ \E ok \in BOOLEAN : scheduleIfIdle(e, ok)
    BY <1>14 DEF FinishRegistration
  <2> HIDE DEF e
  <2>3. /\ blockEnv(e, "cleanup-unproved").journal.disposal = NoDisposal
        /\ checkpointLater(e).journal.disposal = NoDisposal
        /\ blockEnv(e, "cleanup-unproved").mutation = env.mutation
        /\ checkpointLater(e).mutation = env.mutation
    BY ZenonT(60), <2>1, FlagViews DEF KeepsFlags
  <2> QED BY <1>1, <2>1, <2>2, <2>3, IntentWrites, ScheduleIntent
<1> QED BY ZenonT(60), <1>4, <1>5, <1>6, <1>7, <1>8, <1>9, <1>10, <1>11, <1>12, <1>13, <1>14
    DEF SessionNext

(* A step of a stop or of its timer writes no intent.                      *)
LEMMA StopIntentStep ==
    ASSUME Durability, NoIntents,
           \/ (\E t \in timers : TimerNext(t))
           \/ StopExplicit \/ BackendStop \/ (\E res \in StopResults : StopReturn(res))
           \/ StopRelease \/ Checkpoint
    PROVE  NoIntents'
<1>. USE DEF sessionVars, actorVars, backendVars, boundVars
<1>1. /\ TypeOK /\ env \in Environments /\ daemon \in Nat
      /\ env.journal.disposal = NoDisposal /\ disk.disposal = NoDisposal
  BY DEF Durability, Exclusion, TypeOK, NoIntents
<1>2. disposer' = "none"
  BY DEF NoIntents, TimerNext, ExpireStale, ExpireRefused, ExpireDeferred, Expire,
         StopExplicit, BackendStop, StopReturn, StopRelease, Checkpoint
<1>3. SUFFICES env'.journal.disposal = NoDisposal /\ disk'.disposal = NoDisposal
  BY <1>2 DEF NoIntents
<1>4. CASE (\E t \in timers : ExpireStale(t)) \/ BackendStop \/ StopRelease
  BY <1>1, <1>4 DEF ExpireStale, BackendStop, StopRelease
<1>5. CASE \E t \in timers : ExpireRefused(t)
  <2>. DEFINE b == blockEnv(env, "backend-observation-unproved")
  <2>1. b \in Environments /\ b.journal.disposal = NoDisposal
    BY SMTT(60), <1>1, BlockType, FlagViews DEF KeepsFlags, Reasons
  <2>2. \/ env' = [b EXCEPT !.journal.deadline = NoDeadline]
        \/ env' = [env EXCEPT !.blocked = FALSE]
    BY <1>5 DEF ExpireRefused
  <2> HIDE DEF b
  <2>3. env'.journal.disposal = NoDisposal
    BY ZenonT(60), <1>1, <2>1, <2>2 DEF Environments, Journals
  <2> QED BY <1>1, <1>5, <2>3, IntentWrites DEF ExpireRefused
<1>6. CASE \E t \in timers : ExpireDeferred(t)
  <2>1. armed(env) \in Environments /\ armed(env).journal.disposal = NoDisposal
    BY <1>1, ArmedType, FlagViews DEF KeepsFlags
  <2>2. checkpointLater(armed(env)).journal.disposal = NoDisposal
    BY <2>1, FlagViews DEF KeepsFlags
  <2> QED BY <1>1, <1>6, <2>2 DEF ExpireDeferred
<1>7. CASE \E t \in timers : Expire(t)
  <2>1. PICK t \in timers : Expire(t)
    BY <1>7
  <2>. DEFINE planned == withAttempt(env, attempt(t.inc, "automatic", "planned"))
              started == invoked(env, t.inc, "automatic")
              skipped == withAttempt(env, NoAttempt)
  <2>2. /\ planned.journal.disposal = NoDisposal /\ started.journal.disposal = NoDisposal
        /\ skipped.journal.disposal = NoDisposal
    BY SMTT(60), <1>1, StopFlagViews DEF KeepsFlags
  <2>3. [planned EXCEPT !.blocked = TRUE].journal.disposal = NoDisposal
    BY <1>1, <2>2 DEF withAttempt, Environments
  <2>4. \/ env' = [planned EXCEPT !.blocked = TRUE] /\ persist(planned.journal, FALSE)
        \/ env' = skipped /\ persistTwice(planned.journal, skipped.journal)
        \/ env' = started /\ persistTwice(planned.journal, started.journal)
    BY ZenonT(60), <2>1 DEF Expire
  <2> HIDE DEF planned, started, skipped
  <2> QED BY <1>1, <2>2, <2>3, <2>4, IntentWrites
<1>8. CASE StopExplicit
  <2>. DEFINE e == current
              c == cancelDeadline(e)
              a == withAttempt(c, attempt(e.journal.inc, "explicit-recovery", "invoked"))
              i == invoked(c, e.journal.inc, "explicit-recovery")
  <2>1. e \in Environments /\ e.journal.disposal = NoDisposal
    BY <1>8, CurrentIntent DEF StopExplicit
  <2>2. c \in Environments /\ c.journal.disposal = NoDisposal
    <3> HIDE DEF e
    <3> QED BY <2>1, CancelType, FlagViews DEF KeepsFlags
  <2>3. a.journal.disposal = NoDisposal /\ i.journal.disposal = NoDisposal
    <3> HIDE DEF c, e
    <3> QED BY SMTT(60), <2>2, StopFlagViews DEF KeepsFlags
  <2>4. \/ env' = e /\ disk' = disk
        \/ cancelAndPersist(e, a.journal, "cancelFailed") /\ env' = c
        \/ cancelAndPersist(e, a.journal, "writeFailed") /\ env' = a
        \/ cancelAndPersist(e, a.journal, "written") /\ env' = i
    BY <1>8 DEF StopExplicit
  <2> HIDE DEF e, c, a, i
  <2> QED BY <1>1, <2>1, <2>2, <2>3, <2>4, CancelIntent
<1>9. CASE \E res \in StopResults : StopReturn(res)
  <2>1. \/ UNCHANGED <<env, disk>>
        \/ \E res : env' = stopCommitted(env, res) /\ \E ok \in BOOLEAN : persist(env'.journal, ok)
    BY <1>9 DEF StopReturn
  <2>2. \A res : stopCommitted(env, res).journal.disposal = NoDisposal
    BY <1>1, StopFlagViews DEF KeepsFlags
  <2> QED BY <1>1, <2>1, <2>2, IntentWrites
<1>10. CASE Checkpoint
  <2>1. /\ \E ok \in BOOLEAN : persist(env.journal, ok)
        /\ \/ env' = checkpointNow(env)
           \/ env' = blockEnv(checkpointNow(env), "journal-checkpoint-failed")
    BY <1>10 DEF Checkpoint
  <2>2. checkpointNow(env) \in Environments /\ checkpointNow(env).journal.disposal = NoDisposal
    BY <1>1, CheckpointTypes, FlagViews DEF KeepsFlags
  <2>3. env'.journal.disposal = NoDisposal
    BY SMTT(60), <2>1, <2>2, FlagViews DEF KeepsFlags
  <2> QED BY <1>1, <2>1, <2>3, IntentWrites
<1> QED BY <1>4, <1>5, <1>6, <1>7, <1>8, <1>9, <1>10 DEF TimerNext

(* A step of a reconciliation writes no intent.                            *)
LEMMA ReconciliationIntentStep ==
    ASSUME Durability, NoIntents,
           BeginReconciliation \/ Reconcile \/ ReconcileRefused \/ BlockReconciliation
    PROVE  NoIntents'
<1>. USE DEF sessionVars, actorVars, backendVars, boundVars
<1>1. /\ TypeOK /\ env \in Environments /\ daemon \in Nat /\ mode = "up"
      /\ env.journal.disposal = NoDisposal /\ disk.disposal = NoDisposal
  BY DEF Durability, Exclusion, TypeOK, NoIntents, BeginReconciliation, Reconcile,
         ReconcileRefused, BlockReconciliation
<1>2. current \in Environments /\ current.journal.disposal = NoDisposal
  BY <1>1, CurrentIntent
<1>3. disposer' = "none"
  BY DEF NoIntents, BeginReconciliation, Reconcile, ReconcileRefused, BlockReconciliation
<1>4. SUFFICES env'.journal.disposal = NoDisposal /\ disk'.disposal = NoDisposal
  BY <1>3 DEF NoIntents
<1>5. CASE BeginReconciliation
  <2>. DEFINE f == fenced(current, daemon)
  <2>1. f \in Environments /\ f.journal.disposal = NoDisposal
    BY <1>1, <1>2, FencedType, FenceFlagViews
  <2>2. /\ persist(f.journal, TRUE) \/ persist(f.journal, FALSE)
        /\ env' = f \/ env' = [f EXCEPT !.reconciling = FALSE]
    BY <1>5 DEF BeginReconciliation
  <2> HIDE DEF f
  <2>3. env'.journal.disposal = NoDisposal
    BY <2>1, <2>2 DEF Environments
  <2> QED BY <1>1, <2>1, <2>2, <2>3, IntentWrites
<1>6. CASE Reconcile
  <2>1. PICK o \in probed, owners \in SUBSET Sessions, unproved \in BOOLEAN, ok \in BOOLEAN :
          /\ env' = reconciled(current, o, owners, unproved)
          /\ persist(reconciled(current, o, owners, unproved).journal, ok)
    BY <1>6 DEF Reconcile
  <2>2. reconciled(current, o, owners, unproved).journal.disposal = NoDisposal
    BY <1>1, <1>2, ReconciledViews
  <2> QED BY <1>1, <2>1, <2>2, IntentWrites
<1>7. CASE ReconcileRefused
  BY <1>1, <1>7 DEF ReconcileRefused
<1>8. CASE BlockReconciliation
  <2>1. /\ \E why : env' = blockedFence(current, why)
        /\ \E ok \in BOOLEAN : persist(env'.journal, ok)
    BY <1>8 DEF BlockReconciliation
  <2> QED BY SMTT(60), <1>1, <1>2, <2>1, FenceFlagViews, IntentWrites
<1> QED BY <1>5, <1>6, <1>7, <1>8

(* Without removals no step of a mutation writes an intent.                *)
LEMMA RemovalIntentStep ==
    ASSUME Durability, NoIntents, NoRemovals,
           \/ BeginDisposal \/ DisposalCleanup \/ AdvanceDisposal \/ BlockDisposal
           \/ CompleteDisposalMetadata
           \/ BeginMutation \/ MutationCleanup \/ EndMutation \/ MutationRelease
           \/ ForgetEnvironment
    PROVE  NoIntents'
<1>. USE DEF sessionVars, actorVars, backendVars, boundVars
<1>1. /\ TypeOK /\ env \in Environments /\ daemon \in Nat
      /\ env.journal.disposal = NoDisposal /\ disk.disposal = NoDisposal
  BY DEF Durability, Exclusion, TypeOK, NoIntents
<1>2. registryEnvironment(NoJournal, FALSE).journal.disposal = NoDisposal
  BY DEF registryEnvironment, NoJournal, newJournal
<1>3. ~BeginDisposal
  BY DEF BeginDisposal, request, NoRemovals
<1>4. ~(DisposalCleanup \/ AdvanceDisposal \/ BlockDisposal \/ CompleteDisposalMetadata)
  BY DEF NoIntents, DisposalCleanup, AdvanceDisposal, BlockDisposal, CompleteDisposalMetadata
<1>5. CASE BeginMutation
  <2>. DEFINE e == current
              c == cancelDeadline(e)
              b == blockEnv(c, "destructive-mutation-in-progress")
  <2>1. e \in Environments /\ e.journal.disposal = NoDisposal
    BY <1>5, CurrentIntent DEF BeginMutation
  <2>2. c \in Environments /\ c.journal.disposal = NoDisposal
    <3> HIDE DEF e
    <3> QED BY <2>1, CancelType, FlagViews DEF KeepsFlags
  <2>3. b \in Environments /\ b.journal.disposal = NoDisposal
    <3> HIDE DEF c
    <3> QED BY SMTT(60), <1>1, <2>2, BlockType, FlagViews DEF KeepsFlags, Reasons
  <2>4. \/ env' = [e EXCEPT !.mutation = TRUE, !.blocked = TRUE] /\ disk' = disk
        \/ cancelAndPersist(e, b.journal, "cancelFailed") /\ env' = c
        \/ cancelAndPersist(e, b.journal, "writeFailed") /\ env' = b
        \/ cancelAndPersist(e, b.journal, "written") /\ env' = [b EXCEPT !.mutation = TRUE]
    BY <1>5 DEF BeginMutation
  <2>5. disposer' = "none"
    BY <1>5 DEF BeginMutation, NoIntents
  <2> HIDE DEF e, c, b
  <2>6. env'.journal.disposal = NoDisposal
    BY <2>1, <2>2, <2>3, <2>4 DEF Environments
  <2>7. disk'.disposal = NoDisposal
    BY <1>1, <2>1, <2>3, <2>4, CancelIntent
  <2> QED BY <2>5, <2>6, <2>7 DEF NoIntents
<1>6. CASE MutationCleanup \/ MutationRelease
  BY <1>6 DEF MutationCleanup, MutationRelease, NoIntents
<1>7. CASE EndMutation
  <2>. DEFINE e == [env EXCEPT !.mutation = FALSE]
              f == [e EXCEPT !.journal.recon = blockedReconciliation(daemon, "cleanup-unproved")]
  <2>1. e.journal.disposal = NoDisposal /\ f.journal.disposal = NoDisposal
    BY <1>1 DEF Environments, Journals
  <2>2. \/ UNCHANGED <<env, disk>>
        \/ unload /\ disk' = disk
        \/ env' = f /\ \E ok \in BOOLEAN : persist(f.journal, ok)
        \/ unload /\ remove(TRUE)
        \/ env' = e /\ removeFailed(e.journal)
    BY <1>7 DEF EndMutation
  <2>3. disposer' = "none"
    BY <1>7 DEF EndMutation, NoIntents
  <2> HIDE DEF e, f
  <2> QED BY <1>1, <1>2, <2>1, <2>2, <2>3, IntentWrites DEF NoIntents, unload
<1>8. CASE ForgetEnvironment
  <2>1. current.journal.disposal = NoDisposal
    BY <1>8, CurrentIntent DEF ForgetEnvironment
  <2>2. /\ (remove(TRUE) /\ unload) \/ (remove(FALSE) /\ env' = current)
        /\ disposer' = "none"
    BY <1>8 DEF ForgetEnvironment, NoIntents
  <2> QED BY <1>1, <1>2, <2>1, <2>2, IntentWrites DEF NoIntents, unload
<1> QED BY <1>3, <1>4, <1>5, <1>6, <1>7, <1>8

(* A start, a shutdown or a crash of the daemon brings no intent.          *)
LEMMA DaemonIntentStep ==
    ASSUME Durability, NoIntents, Close \/ Exit \/ Start \/ VmLost
    PROVE  NoIntents'
<1>. USE DEF sessionVars, actorVars, backendVars, boundVars
<1>1. /\ TypeOK /\ env \in Environments /\ daemon \in Nat /\ disk \in Journals
      /\ env.journal.disposal = NoDisposal /\ disk.disposal = NoDisposal
  BY DEF Durability, Exclusion, TypeOK, NoIntents
<1>2. \A j : registryEnvironment(j, FALSE).journal = j
  BY DEF registryEnvironment
<1>3. NoJournal.disposal = NoDisposal /\ \A d : newJournal(d).disposal = NoDisposal
  BY DEF NoJournal, newJournal
<1>4. disposer' = "none"
  BY DEF Close, Exit, Start, VmLost, NoIntents
<1>5. CASE Close
  <2>. DEFINE f == [env EXCEPT !.establishing = {}, !.stopCancel = FALSE, !.stopDone = FALSE,
                               !.journal.deadline = NoDeadline]
              b == blockEnv(f, "daemon-shutdown")
              e == IF env.reconciling THEN [b EXCEPT !.reconciling = FALSE] ELSE f
  <2>1. f \in Environments /\ f.journal.disposal = NoDisposal
    BY ZenonT(60), <1>1, ConstantTypes DEF Environments, Journals
  <2>2. b \in Environments /\ b.journal.disposal = NoDisposal
    <3> HIDE DEF f
    <3> QED BY SMTT(60), <1>1, <2>1, BlockType, FlagViews DEF KeepsFlags, Reasons
  <2>3. e \in Environments /\ e.journal.disposal = NoDisposal
    <3> HIDE DEF f, b
    <3> QED BY <2>1, <2>2 DEF Environments
  <2>4. \/ env' = checkpointNow(e) /\ \E ok \in BOOLEAN : persist(e.journal, ok)
        \/ unload /\ disk' = disk
    BY <1>5 DEF Close
  <2> HIDE DEF e
  <2>5. checkpointNow(e).journal.disposal = NoDisposal
    BY <2>3, FlagViews DEF KeepsFlags
  <2> QED BY <1>1, <1>2, <1>3, <1>4, <2>3, <2>4, <2>5, IntentWrites DEF NoIntents, unload
<1>6. CASE Exit
  BY <1>1, <1>2, <1>3, <1>6 DEF Exit, NoIntents, unload
<1>7. CASE Start
  <2>. DEFINE l == IF disk.gen = 0
                   THEN registryEnvironment(newJournal(daemon + 1), FALSE)
                   ELSE registryEnvironment(disk, FALSE)
              f == fenced(l, daemon + 1)
              k == blockedReconciliation(daemon + 1, "environment-record-unavailable")
              b == [f EXCEPT !.journal.attempt = NoAttempt, !.reconciling = FALSE,
                             !.journal.recon = k]
  <2>1. l \in Environments /\ l.journal.disposal = NoDisposal
    <3>1. newJournal(daemon + 1) \in Journals
      BY SMTT(60), <1>1, JournalType
    <3> QED BY <1>1, <1>2, <1>3, <3>1, EnvironmentType
  <2>2. f \in Environments /\ f.journal.disposal = NoDisposal
    <3> HIDE DEF l
    <3> QED BY SMTT(60), <1>1, <2>1, FencedType, FenceFlagViews
  <2>3. b.journal.disposal = NoDisposal
    <3> HIDE DEF f
    <3> QED BY <2>2 DEF Environments, Journals
  <2>4. \/ UNCHANGED <<env, disk>>
        \/ persist(f.journal, TRUE) /\ env' = f
        \/ persist(b.journal, TRUE) /\ env' = b
        \/ persist(f.journal, FALSE) /\ env' = env
    BY <1>7 DEF Start
  <2> HIDE DEF f, b
  <2> QED BY <1>1, <1>4, <2>2, <2>3, <2>4, IntentWrites DEF NoIntents
<1>8. CASE VmLost
  BY <1>8 DEF VmLost, NoIntents
<1> QED BY <1>5, <1>6, <1>7, <1>8

(* The invariant behind the validity of the journal.                       *)
Unintended == Durability /\ NoIntents

(* Unintended holds initially and is kept when nobody asks for a removal.  *)
LEMMA UnintendedInit == Init => Unintended
BY SMTT(60), DurabilityInit DEF Init, Unintended, NoIntents, registryEnvironment, NoJournal, newJournal

LEMMA UnintendedStep == NoRemovals => (Unintended /\ [Next]_vars => Unintended')
<1> SUFFICES ASSUME NoRemovals, Unintended, [Next]_vars PROVE Unintended'
  OBVIOUS
<1>1. Durability' /\ Durability /\ NoIntents
  BY DurabilityStep DEF Unintended
<1>2. CASE UNCHANGED vars
  BY <1>1, <1>2 DEF vars, actorVars, Unintended, NoIntents
<1>3. CASE Next
  BY <1>1, <1>3, SessionIntentStep, StopIntentStep, ReconciliationIntentStep,
     RemovalIntentStep, DaemonIntentStep DEF Next, Unintended
<1> QED BY <1>2, <1>3

(* A sound journal without an intent passes Validate.                      *)
LEMMA SoundIsValid ==
    ASSUME NEW j, SoundJournal(j), j.gen # 0, j.disposal = NoDisposal
    PROVE  Validate(j)
BY SMTT(60) DEF SoundJournal, Validate, NoInc

(* As long as nobody asks for a removal, what the coordinator has in       *)
(* memory passes Journal.Validate: no write is refused for what earlier    *)
(* steps put together, through restarts, rebindings and failed writes.     *)
THEOREM JournalStaysValid == NoRemovals => (Spec => []JournalAlwaysValid)
<1>1. Unintended => JournalAlwaysValid
  BY SoundIsValid DEF Unintended, Durability, NoIntents, RowsAreOwned, JournalAlwaysValid
<1> SUFFICES ASSUME NoRemovals PROVE Spec => []JournalAlwaysValid
  OBVIOUS
<1>2. Unintended /\ [Next]_vars => Unintended'
  BY UnintendedStep
<1> QED BY <1>1, <1>2, UnintendedInit, PTL DEF Spec

-----------------------------------------------------------------------------
(* An automatic stop has a whole grace period *)

(* The step in which an automatic stop starts is the callback of the       *)
(* deadline that the environment has.                                      *)
LEMMA GraceStep ==
    ASSUME TypeOK, [Next]_vars, stopper.pc = "none", stopper'.pc = "invoked",
           env'.journal.attempt.mode = "automatic"
    PROVE  env.journal.deadline \in timers \ timers'
<1>. USE DEF sessionVars, actorVars, backendVars, boundVars
<1>1. ~(UNCHANGED stopper) /\ env \in Environments /\ daemon \in Nat
  BY DEF TypeOK
<1>2. ~\E s \in Sessions : SessionNext(s)
  BY ZenonT(60), <1>1 DEF SessionNext, Reserve, ReserveWait, ReserveRefused, ReserveGivesUp, Observe,
         Prepare, Promote, Abort, Commit, StartBackend, BindBoot, AbortRegistration,
         BeginFinish, Release, FinishRegistration
<1>3. ~(\/ BackendStop \/ (\E res \in StopResults : StopReturn(res)) \/ StopRelease \/ Checkpoint)
  BY <1>1 DEF BackendStop, StopReturn, StopRelease, Checkpoint, idleStopper
<1>4. ~(BeginReconciliation \/ Reconcile \/ ReconcileRefused \/ BlockReconciliation)
  BY <1>1 DEF BeginReconciliation, Reconcile, ReconcileRefused, BlockReconciliation
<1>5. ~(\/ BeginDisposal \/ DisposalCleanup \/ AdvanceDisposal \/ BlockDisposal
        \/ CompleteDisposalMetadata)
  BY <1>1 DEF BeginDisposal, DisposalCleanup, AdvanceDisposal, BlockDisposal,
         CompleteDisposalMetadata
<1>6. ~(\/ BeginMutation \/ MutationCleanup \/ EndMutation \/ MutationRelease
        \/ ForgetEnvironment)
  BY <1>1 DEF BeginMutation, MutationCleanup, EndMutation, MutationRelease, ForgetEnvironment
<1>7. ~(Close \/ Exit \/ Start \/ VmLost)
  <2>1. Close \/ Start \/ VmLost => UNCHANGED stopper
    BY DEF Close, Start, VmLost
  <2>2. Exit => stopper'.pc = "none"
    BY SMTT(60) DEF Exit, idleStopper
  <2> QED BY <1>1, <2>1, <2>2
<1>8. ~StopExplicit
  <2> SUFFICES ASSUME StopExplicit PROVE FALSE
    OBVIOUS
  <2>. DEFINE c == cancelDeadline(current)
              i == invoked(c, current.journal.inc, "explicit-recovery")
  <2>1. current \in Environments
    BY LoadType DEF current, TypeOK
  <2>2. c \in Environments /\ current.journal.inc \in Incarnations
    BY <2>1, CancelType, EnvironmentFields, JournalFields
  <2>3. env' = i
    BY SMTT(60) DEF StopExplicit, returned
  <2>. HIDE DEF c
  <2>4. i.journal.attempt.mode = "explicit-recovery"
    BY <2>2 DEF invoked, withAttempt, attempt, Environments, Journals
  <2> QED BY <2>3, <2>4
<1>9. ~UNCHANGED vars
  BY <1>1 DEF vars
<1>10. PICK t \in timers : TimerNext(t)
  BY <1>2, <1>3, <1>4, <1>5, <1>6, <1>7, <1>8, <1>9 DEF Next
<1>11. Expire(t)
  BY <1>1, <1>10 DEF TimerNext, ExpireStale, ExpireRefused, ExpireDeferred
<1>12. env.journal.deadline = t /\ timers' = timers \ {t}
  BY <1>11 DEF Expire, staleTimer
<1> QED BY <1>12

(* An automatic stop starts only in the callback of the current deadline,  *)
(* however many cancelled timers still have their callback ahead.          *)
THEOREM GraceStaysWhole == Spec => GraceIsWhole
<1>1. TypeOK /\ [Next]_vars =>
        [stopper.pc = "none" /\ stopper'.pc = "invoked"
            /\ env'.journal.attempt.mode = "automatic"
         => env.journal.deadline \in timers \ timers']_vars
  BY GraceStep
<1> QED BY <1>1, TypeCorrect, PTL DEF Spec, GraceIsWhole

-----------------------------------------------------------------------------
(* Without write faults the actors are recorded *)

(* An actor has the environment to itself.                                 *)
Occupied ==
    \/ mode = "up" /\ ("probing" \in worker \/ mutator = "running")
    \/ stopper.pc = "invoked"

(* What an actor at work keeps others from.                                *)
LEMMA OccupiedExcludes ==
    ASSUME Unintended, ActorsAreRecorded, Occupied
    PROVE  /\ mode # "down" /\ \A s \in Sessions : ~attached(s)
           /\ mode = "up" => /\ loaded /\ \A kind : ~claimable(kind)
                             /\ "probing" \in worker => stopper.pc = "none" /\ mutator = "none"
                             /\ "probing" \notin worker => worker = {} /\ ~env.reconciling
                             /\ mutator = "running" => stopper.pc = "none"
<1>1. /\ TypeOK /\ ClaimDiscipline /\ RegistryAgrees /\ DestructionExcludesSessions
      /\ ActorsAreBacked /\ worker \subseteq {"probing"}
  BY DEF Unintended, Durability, Exclusion, TypeOK, ActorsAreRecorded
<1>2. stopper.pc = "invoked" \/ mutator = "running" => destroying # {}
  BY DEF destroying
<1>3. mode # "down"
  BY <1>1, <1>2 DEF Occupied, RegistryAgrees
<1>4. CASE mode # "up"
  BY <1>1, <1>2, <1>3, <1>4 DEF Occupied, DestructionExcludesSessions
<1>5. CASE mode = "up"
  <2>1. PICK c \in claims : c.kind # "attach" /\ claims = {c}
          /\ ("probing" \in worker => c = claim("reconcile", NoSession))
          /\ (stopper.pc # "none" => c = claim("stop", NoSession))
          /\ (mutator # "none" => c = claim("cleanup", NoSession))
          /\ (env.reconciling => c = claim("reconcile", NoSession))
    <3>1. CASE "probing" \in worker
      <4>1. claim("reconcile", NoSession) \in claims
        BY <1>1, <1>5, <3>1 DEF ActorsAreRecorded, ClaimDiscipline
      <4>2. claims = {claim("reconcile", NoSession)}
        BY <1>1, <1>5, <4>1 DEF ClaimDiscipline, claim
      <4> QED BY <1>1, <1>5, <4>2 DEF ClaimDiscipline, claim
    <3>2. CASE "probing" \notin worker /\ mutator = "running"
      <4>1. claim("cleanup", NoSession) \in claims
        BY <1>1, <1>5, <3>2 DEF ClaimDiscipline
      <4>2. claims = {claim("cleanup", NoSession)}
        BY <1>1, <1>5, <4>1 DEF ClaimDiscipline, claim
      <4> QED BY <1>1, <1>5, <3>2, <4>2 DEF ClaimDiscipline, claim
    <3>3. CASE "probing" \notin worker /\ stopper.pc = "invoked"
      <4>1. claim("stop", NoSession) \in claims
        BY <1>1, <1>5, <3>3 DEF ClaimDiscipline
      <4>2. claims = {claim("stop", NoSession)}
        BY <1>1, <1>5, <4>1 DEF ClaimDiscipline, claim
      <4> QED BY <1>1, <1>5, <3>3, <4>2 DEF ClaimDiscipline, claim
    <3> QED BY <1>5, <3>1, <3>2, <3>3 DEF Occupied
  <2>2. \A kind : ~claimable(kind)
    BY <2>1 DEF claimable
  <2>3. loaded
    BY <1>1, <1>5 DEF Occupied, ActorsAreRecorded, ActorsAreBacked
  <2>4. \A s \in Sessions : ~attached(s)
    <3>1. CASE "probing" \in worker
      <4>1. env.handles = {}
        BY <1>1, <1>5, <3>1 DEF ActorsAreRecorded, RegistryAgrees
      <4>2. \A s \in Sessions : phase[s] \notin registeredPhases
        BY <1>1, <1>5, <4>1 DEF RegistryAgrees
      <4>3. \A s \in Sessions : claim("attach", s) \notin claims
        BY SMTT(60), <2>1 DEF claim
      <4> QED BY <1>1, <1>5, <4>2, <4>3 DEF ClaimDiscipline, attached
    <3>2. CASE "probing" \notin worker
      BY <1>1, <1>2, <1>5, <3>2 DEF Occupied, DestructionExcludesSessions
    <3> QED BY <3>1, <3>2
  <2>5. "probing" \in worker => stopper.pc = "none" /\ mutator = "none"
    BY SMTT(60), <2>1 DEF claim
  <2>6. mutator = "running" => stopper.pc = "none"
    BY SMTT(60), <2>1 DEF claim
  <2>7. "probing" \notin worker => worker = {} /\ ~env.reconciling
    BY SMTT(60), <1>1, <1>5, <2>1 DEF Occupied, claim
  <2> QED BY <1>3, <2>2, <2>3, <2>4, <2>5, <2>6, <2>7
<1> QED BY <1>4, <1>5

(* The mutation flag is up only while the mutation runs.                   *)
LEMMA Unmutated ==
    ASSUME Unintended, ActorsAreRecorded, mode = "up", mutator # "running"
    PROVE  ~env.mutation /\ ~current.mutation
<1>1. ~env.mutation
  BY DEF ActorsAreRecorded
<1> QED BY <1>1, CurrentIntent DEF Unintended

(* Steps beside which no actor is at work, and steps that leave the        *)
(* environment alone.                                                      *)
LEMMA FreeStep ==
    ASSUME ActorsAreRecorded, ~Occupied, mode' = mode,
           stopper' = stopper \/ stopper'.pc # "invoked",
           mutator' = mutator \/ mutator' # "running",
           worker' = worker, mode' = "up" => ~env'.mutation
    PROVE  ActorsAreRecorded'
BY DEF ActorsAreRecorded, Occupied

(* A step that leaves the environment and the actors alone.                *)
LEMMA AloneStep ==
    ASSUME ActorsAreRecorded, UNCHANGED <<mode, loaded, env, disk, worker>>,
           mutator' = mutator \/ "running" \notin {mutator, mutator'},
           stopper' = stopper \/ stopper'.pc # "invoked"
    PROVE  ActorsAreRecorded'
BY DEF ActorsAreRecorded

(* A step of a session keeps the actors recorded.                          *)
LEMMA SessionRecordedStep ==
    ASSUME Unintended, ActorsAreRecorded, NEW s \in Sessions, SessionNext(s)
    PROVE  ActorsAreRecorded'
<1>. USE DEF sessionVars, actorVars, backendVars, boundVars
<1>1. mode' = mode /\ UNCHANGED <<worker, stopper, mutator>>
  BY DEF SessionNext, Reserve, ReserveWait, ReserveRefused, ReserveGivesUp, Observe,
         Prepare, Promote, Abort, Commit, StartBackend, BindBoot, AbortRegistration,
         BeginFinish, Release, FinishRegistration
<1>2. env'.mutation => env.mutation
  BY SessionIntentStep DEF Unintended
<1>3. CASE \/ ReserveWait(s) \/ ReserveRefused(s) \/ ReserveGivesUp(s) \/ Observe(s)
           \/ StartBackend(s)
  <2>1. UNCHANGED <<loaded, env, disk>>
    BY <1>3 DEF ReserveWait, ReserveRefused, ReserveGivesUp, Observe, StartBackend
  <2> QED BY <1>1, <2>1, AloneStep
<1>4. CASE Reserve(s)
  <2>1. mode = "up" /\ claimable("attach")
    BY <1>4 DEF Reserve, asks, admits
  <2>2. ~Occupied
    BY <2>1, OccupiedExcludes
  <2> QED BY <1>1, <1>2, <2>1, <2>2, Unmutated, FreeStep DEF Occupied
<1>5. CASE \/ Prepare(s) \/ Promote(s) \/ Abort(s) \/ Commit(s) \/ BindBoot(s)
           \/ AbortRegistration(s) \/ BeginFinish(s) \/ Release(s) \/ FinishRegistration(s)
  <2>1. attached(s)
    BY <1>5 DEF Prepare, Promote, Abort, Commit, BindBoot, AbortRegistration, BeginFinish,
           Release, FinishRegistration, attached, establishingPhases, registeredPhases
  <2>2. ~Occupied
    BY <2>1, OccupiedExcludes
  <2> QED BY <1>1, <1>2, <2>2, Unmutated, FreeStep DEF Occupied
<1> QED BY <1>3, <1>4, <1>5 DEF SessionNext

(* Without write faults a valid journal reaches the disk.                  *)
LEMMA ValidWrite ==
    ASSUME TypeOK, FaultFree
    PROVE  /\ ~fault
           /\ \A j : \A ok \in BOOLEAN : persist(j, ok) /\ Validate(j) => ok /\ disk' = j
<1>1. ~fault
  BY SMTT(60) DEF fault, FaultFree, TypeOK
<1> QED BY <1>1 DEF persist

(* A timer that fires keeps the actors recorded.                           *)
LEMMA TimerRecordedStep ==
    ASSUME Unintended, ActorsAreRecorded, NEW t \in timers, TimerNext(t)
    PROVE  ActorsAreRecorded'
<1>. USE DEF sessionVars, actorVars, backendVars, boundVars
<1>1. /\ TypeOK /\ env \in Environments /\ daemon \in Nat /\ ActorsAreBacked
      /\ t \in Deadlines /\ t.inc \in Incarnations
  BY DEF Unintended, Durability, Exclusion, TypeOK, Deadlines
<1>2. UNCHANGED <<mode, loaded, worker, mutator>>
  BY DEF TimerNext, ExpireStale, ExpireRefused, ExpireDeferred, Expire
<1>3. CASE ExpireStale(t)
  BY <1>2, <1>3, AloneStep DEF ExpireStale
<1>4. ASSUME ~staleTimer(t)
      PROVE  /\ mode = "up" /\ loaded /\ ~env.mutation /\ mutator # "running"
             /\ stopper.pc # "invoked"
  <2>1. mode = "up" /\ loaded /\ ~env.mutation /\ env.journal.deadline # NoDeadline
    BY <1>1, <1>4 DEF staleTimer, ActorsAreBacked
  <2> QED BY <1>1, <2>1 DEF ActorsAreBacked, ActorsAreRecorded
<1>5. CASE ExpireRefused(t) \/ ExpireDeferred(t)
  <2>. DEFINE b == blockEnv(env, "backend-observation-unproved")
  <2>1. b \in Environments /\ KeepsFlags(b, env)
    BY <1>1, BlockType, FlagViews DEF Reasons
  <2>2. armed(env) \in Environments /\ KeepsFlags(armed(env), env)
    BY <1>1, ArmedType, FlagViews
  <2>3. KeepsFlags(checkpointLater(armed(env)), armed(env))
    BY <2>2, FlagViews
  <2>4. \/ env' = [b EXCEPT !.journal.deadline = NoDeadline]
        \/ env' = [env EXCEPT !.blocked = FALSE]
        \/ env' = checkpointLater(armed(env))
    BY <1>5 DEF ExpireRefused, ExpireDeferred
  <2> HIDE DEF b
  <2>5. env'.reconciling = env.reconciling /\ env'.mutation = env.mutation
    <3>1. CASE env' = [b EXCEPT !.journal.deadline = NoDeadline]
      BY <2>1, <3>1 DEF KeepsFlags, Environments
    <3>2. CASE env' = [env EXCEPT !.blocked = FALSE]
      BY <1>1, <3>2 DEF Environments
    <3>3. CASE env' = checkpointLater(armed(env))
      BY <2>2, <2>3, <3>3 DEF KeepsFlags
    <3> QED BY <2>4, <3>1, <3>2, <3>3
  <2>6. ~staleTimer(t) /\ UNCHANGED stopper
    BY <1>5 DEF ExpireRefused, ExpireDeferred
  <2> QED BY <1>2, <1>4, <2>5, <2>6 DEF ActorsAreRecorded
<1>6. CASE Expire(t)
  <2>1. ~staleTimer(t) /\ claimable("stop")
    BY <1>6 DEF Expire
  <2>2. mode = "up" /\ ~Occupied /\ ~env.mutation
    BY <1>4, <2>1, OccupiedExcludes
  <2>. DEFINE planned == withAttempt(env, attempt(t.inc, "automatic", "planned"))
              started == invoked(env, t.inc, "automatic")
              skipped == withAttempt(env, NoAttempt)
  <2>3. ~planned.mutation /\ ~started.mutation /\ ~skipped.mutation
    BY SMTT(60), <1>1, <2>2, StopFlagViews DEF KeepsFlags
  <2>4. ~[planned EXCEPT !.blocked = TRUE].mutation
    BY <1>1, <2>2 DEF withAttempt, Environments
  <2>5. /\ attemptBlocksAttach(planned.journal.attempt)
        /\ attemptBlocksAttach(started.journal.attempt)
    BY <1>1 DEF withAttempt, invoked, attempt, attemptBlocksAttach, Environments, Journals
  <2>6. \/ env' = [planned EXCEPT !.blocked = TRUE] /\ UNCHANGED stopper
        \/ env' = skipped /\ UNCHANGED stopper
        \/ env' = started /\ disk' \in {planned.journal, started.journal}
    BY <1>6 DEF Expire, persistTwice
  <2> HIDE DEF planned, started, skipped
  <2>7. CASE UNCHANGED stopper
    BY ZenonT(60), <1>2, <2>2, <2>3, <2>4, <2>6, <2>7, FreeStep DEF Occupied
  <2>8. CASE env' = started /\ disk' \in {planned.journal, started.journal}
    BY <1>2, <2>2, <2>3, <2>5, <2>8 DEF ActorsAreRecorded, Occupied
  <2> QED BY <2>6, <2>7, <2>8
<1> QED BY <1>3, <1>5, <1>6 DEF TimerNext

(* A step of a stop keeps the actors recorded.                             *)
LEMMA StopRecordedStep ==
    ASSUME Unintended, ActorsAreRecorded,
           \/ StopExplicit \/ BackendStop \/ (\E res \in StopResults : StopReturn(res))
           \/ StopRelease \/ Checkpoint
    PROVE  ActorsAreRecorded'
<1>. USE DEF sessionVars, actorVars, backendVars, boundVars
<1>1. /\ TypeOK /\ env \in Environments /\ daemon \in Nat
  BY DEF Unintended, Durability, Exclusion, TypeOK
<1>2. UNCHANGED <<mode, worker, mutator>>
  BY DEF StopExplicit, BackendStop, StopReturn, StopRelease, Checkpoint
<1>3. CASE BackendStop \/ StopRelease
  <2>1. UNCHANGED <<loaded, env, disk>> /\ (stopper' = stopper \/ stopper'.pc # "invoked")
    BY SMTT(60), <1>3 DEF BackendStop, StopRelease, idleStopper
  <2> QED BY <1>2, <2>1, AloneStep
<1>4. CASE StopExplicit
  <2>. DEFINE e == current
              c == cancelDeadline(e)
              a == withAttempt(c, attempt(e.journal.inc, "explicit-recovery", "invoked"))
              i == invoked(c, e.journal.inc, "explicit-recovery")
  <2>1. mode = "up" /\ claimable("stop")
    BY <1>4 DEF StopExplicit
  <2>2. ~Occupied
    BY <2>1, OccupiedExcludes
  <2>3. e \in Environments /\ ~e.mutation
    BY <2>1, <2>2, Unmutated, CurrentIntent DEF Occupied, Unintended
  <2>4. c \in Environments /\ ~c.mutation
    <3> HIDE DEF e
    <3> QED BY <2>3, CancelType, FlagViews DEF KeepsFlags
  <2>5. ~a.mutation /\ ~i.mutation
    <3> HIDE DEF c, e
    <3> QED BY SMTT(60), <2>4, StopFlagViews DEF KeepsFlags
  <2>6. attemptBlocksAttach(a.journal.attempt) /\ attemptBlocksAttach(i.journal.attempt)
    <3> HIDE DEF c, e
    <3> QED BY ZenonT(60), <2>4 DEF withAttempt, invoked, attempt, attemptBlocksAttach, Environments,
                        Journals
  <2>7. \/ env' \in {e, c, a} /\ stopper'.pc # "invoked"
        \/ cancelAndPersist(e, a.journal, "written") /\ env' = i
    BY SMTT(60), <1>4 DEF StopExplicit, returned
  <2> HIDE DEF e, c, a, i
  <2>8. CASE env' \in {e, c, a} /\ stopper'.pc # "invoked"
    BY <1>2, <2>1, <2>2, <2>3, <2>4, <2>5, <2>8, FreeStep
  <2>9. CASE cancelAndPersist(e, a.journal, "written") /\ env' = i
    <3>1. disk' = a.journal
      BY <2>9, CancelPersisted
    <3> QED BY <1>2, <2>1, <2>2, <2>5, <2>6, <2>9, <3>1 DEF ActorsAreRecorded, Occupied
  <2> QED BY <2>7, <2>8, <2>9
<1>5. CASE \E res \in StopResults : StopReturn(res)
  <2>1. /\ stopper.pc = "invoked" /\ stopper'.pc # "invoked"
        /\ env' = env \/ \E res : env' = stopCommitted(env, res)
    BY SMTT(60), <1>5 DEF StopReturn, returned
  <2>2. Occupied
    BY <2>1 DEF Occupied
  <2>3. env'.mutation = env.mutation
    BY SMTT(60), <1>1, <2>1, StopFlagViews DEF KeepsFlags
  <2>4. mode = "up" => "probing" \notin worker /\ mutator # "running"
    BY <2>1, <2>2, OccupiedExcludes
  <2> QED BY ZenonT(60), <1>2, <2>1, <2>3, <2>4 DEF ActorsAreRecorded
<1>6. CASE Checkpoint
  <2>. DEFINE c == checkpointNow(env)
  <2>1. /\ UNCHANGED <<loaded, stopper>>
        /\ disk' = disk \/ disk' = env.journal
        /\ env' = c \/ env' = blockEnv(c, "journal-checkpoint-failed")
    BY <1>6, Persisted DEF Checkpoint
  <2>2. /\ c \in Environments /\ KeepsFlags(c, env) /\ c.journal = env.journal
        /\ c.blocked = env.blocked
    BY <1>1, CheckpointTypes, FlagViews DEF checkpointNow, Environments
  <2> HIDE DEF c
  <2>3. /\ KeepsFlags(blockEnv(c, "journal-checkpoint-failed"), c)
        /\ blockEnv(c, "journal-checkpoint-failed").blocked
        /\ blockEnv(c, "journal-checkpoint-failed").journal.attempt = c.journal.attempt
    BY <2>2, FlagViews DEF blockEnv, Environments, Journals
  <2>4. /\ env'.reconciling = env.reconciling /\ env'.mutation = env.mutation
        /\ env.blocked => env'.blocked
        /\ env'.journal.attempt = env.journal.attempt
    BY <2>1, <2>2, <2>3 DEF KeepsFlags
  <2> QED BY <1>2, <2>1, <2>4 DEF ActorsAreRecorded
<1> QED BY <1>3, <1>4, <1>5, <1>6

(* A step of a reconciliation keeps the actors recorded.                   *)
LEMMA ReconciliationRecordedStep ==
    ASSUME Unintended, Unintended', ActorsAreRecorded, FaultFree,
           BeginReconciliation \/ Reconcile \/ ReconcileRefused \/ BlockReconciliation
    PROVE  ActorsAreRecorded'
<1>. USE DEF sessionVars, actorVars, backendVars, boundVars
<1>1. /\ TypeOK /\ env \in Environments /\ daemon \in Nat /\ mode = "up"
      /\ current \in Environments
  BY CurrentIntent DEF Unintended, Durability, Exclusion, TypeOK, BeginReconciliation,
     Reconcile, ReconcileRefused, BlockReconciliation
<1>2. UNCHANGED <<mode, stopper, mutator>>
  BY DEF BeginReconciliation, Reconcile, ReconcileRefused, BlockReconciliation
<1>3. CASE BeginReconciliation
  <2>. DEFINE f == fenced(current, daemon)
  <2>1. claimable("reconcile")
    BY <1>3 DEF BeginReconciliation
  <2>2. ~Occupied
    BY <1>1, <2>1, OccupiedExcludes
  <2>3. ~current.mutation
    BY <1>1, <2>2, Unmutated DEF Occupied
  <2>4. f \in Environments /\ f.reconciling /\ ~f.mutation
    BY SMTT(60), <1>1, <2>3, FencedType, FenceFlagViews
  <2>5. /\ loaded'
        /\ \/ env' = f /\ worker' = worker \cup {"probing"}
           \/ env' = [f EXCEPT !.reconciling = FALSE] /\ UNCHANGED worker
    BY <1>3 DEF BeginReconciliation
  <2> HIDE DEF f
  <2>6. ~env'.mutation
    BY <2>4, <2>5 DEF Environments
  <2>7. CASE env' = f /\ worker' = worker \cup {"probing"}
    BY <1>1, <1>2, <2>2, <2>4, <2>5, <2>7 DEF ActorsAreRecorded, Occupied
  <2>8. CASE UNCHANGED worker
    BY <1>2, <2>2, <2>6, <2>8, FreeStep
  <2> QED BY <2>5, <2>7, <2>8
<1>4. ASSUME "probing" \in worker
      PROVE  /\ stopper.pc = "none" /\ mutator = "none" /\ ~current.mutation
             /\ current = env /\ env.reconciling
  <2>1. Occupied
    BY <1>1, <1>4 DEF Occupied
  <2>2. loaded /\ stopper.pc = "none" /\ mutator = "none" /\ env.reconciling
    BY <1>1, <1>4, <2>1, OccupiedExcludes DEF ActorsAreRecorded
  <2> QED BY <1>1, <2>2, Unmutated DEF current
<1>5. CASE Reconcile
  <2>1. PICK o \in probed, owners \in SUBSET Sessions, unproved \in BOOLEAN, ok \in BOOLEAN :
          /\ env' = reconciled(current, o, owners, unproved)
          /\ persist(reconciled(current, o, owners, unproved).journal, ok)
          /\ worker' = (worker \ {"probing"}) \cup (IF ok THEN {} ELSE {"failed"})
    BY <1>5 DEF Reconcile
  <2>2. stopper.pc = "none" /\ mutator = "none" /\ ~current.mutation
    BY <1>4, <1>5 DEF Reconcile
  <2>3. ~env'.mutation
    BY ZenonT(60), <1>1, <2>1, <2>2, ReconciledViews
  <2>4. env'.journal.gen # 0
    <3>1. SoundJournal(current.journal)
      BY <1>1, CurrentRows DEF Unintended, RowsAreOwned
    <3> QED BY <1>1, <2>1, <3>1, ReconciledSound
  <2>5. Validate(env'.journal)
    <3>1. loaded' /\ SoundJournal(env'.journal) /\ env'.journal.disposal = NoDisposal
      BY <1>5 DEF Reconcile, Unintended, Durability, RowsAreOwned, NoIntents
    <3> QED BY <2>4, <3>1, SoundIsValid
  <2>6. ok
    BY <1>1, <2>1, <2>5, ValidWrite
  <2> QED BY <1>2, <2>1, <2>2, <2>3, <2>6 DEF ActorsAreRecorded
<1>6. CASE ReconcileRefused
  BY <1>4, <1>6 DEF ReconcileRefused, mayReconcile
<1>7. CASE BlockReconciliation
  <2>1. /\ "probing" \in worker /\ worker' \subseteq worker \ {"probing"}
        /\ \E why : env' = blockedFence(current, why)
    BY <1>1, <1>7 DEF BlockReconciliation, ActorsAreRecorded, TypeOK
  <2>2. ~env'.mutation
    BY SMTT(60), <1>1, <1>4, <2>1, FenceFlagViews
  <2> QED BY <1>2, <1>4, <2>1, <2>2 DEF ActorsAreRecorded
<1> QED BY <1>3, <1>5, <1>6, <1>7

(* A step of a mutation keeps the actors recorded.                         *)
LEMMA MutationRecordedStep ==
    ASSUME Unintended, ActorsAreRecorded,
           \/ BeginMutation \/ MutationCleanup \/ EndMutation \/ MutationRelease
           \/ ForgetEnvironment
    PROVE  ActorsAreRecorded'
<1>. USE DEF sessionVars, actorVars, backendVars, boundVars
<1>1. /\ TypeOK /\ env \in Environments /\ daemon \in Nat
  BY DEF Unintended, Durability, Exclusion, TypeOK
<1>2. UNCHANGED <<mode, worker, stopper>>
  BY DEF BeginMutation, MutationCleanup, EndMutation, MutationRelease, ForgetEnvironment
<1>3. ~registryEnvironment(NoJournal, FALSE).mutation
  BY DEF registryEnvironment
<1>4. CASE BeginMutation
  <2>. DEFINE e == current
              c == cancelDeadline(e)
              b == blockEnv(c, "destructive-mutation-in-progress")
  <2>1. mode = "up" /\ loaded' /\ claimable("cleanup")
    BY <1>4 DEF BeginMutation
  <2>2. ~Occupied
    BY <2>1, OccupiedExcludes
  <2>3. e \in Environments /\ ~e.mutation
    BY <2>1, <2>2, Unmutated, CurrentIntent DEF Occupied, Unintended
  <2>4. c \in Environments /\ ~c.mutation
    <3> HIDE DEF e
    <3> QED BY <2>3, CancelType, FlagViews DEF KeepsFlags
  <2>5. b \in Environments /\ ~b.mutation /\ b.blocked
    <3>1. b \in Environments /\ ~b.mutation
      <4> HIDE DEF c
      <4> QED BY SMTT(60), <1>1, <2>4, BlockType, FlagViews DEF KeepsFlags, Reasons
    <3>2. b.blocked
      <4> HIDE DEF c
      <4> QED BY <2>4 DEF blockEnv, Environments
    <3> QED BY <3>1, <3>2
  <2>6. \/ env' = [e EXCEPT !.mutation = TRUE, !.blocked = TRUE] /\ mutator' = "running"
        \/ env' \in {c, b} /\ mutator' = "returned"
        \/ env' = [b EXCEPT !.mutation = TRUE] /\ mutator' = "running"
    BY <1>4 DEF BeginMutation
  <2> HIDE DEF e, c, b
  <2>7. CASE env' \in {c, b} /\ mutator' = "returned"
    BY <1>2, <2>2, <2>4, <2>5, <2>7, FreeStep
  <2>8. CASE mutator' = "running" /\ env'.mutation /\ env'.blocked
    BY <1>2, <2>1, <2>2, <2>8 DEF ActorsAreRecorded, Occupied
  <2>9. CASE env' = [e EXCEPT !.mutation = TRUE, !.blocked = TRUE] /\ mutator' = "running"
    <3>1. env'.mutation /\ env'.blocked
      BY <2>3, <2>9 DEF Environments
    <3> QED BY <2>8, <2>9, <3>1
  <2>10. CASE env' = [b EXCEPT !.mutation = TRUE] /\ mutator' = "running"
    <3>1. env'.mutation /\ env'.blocked
      BY <2>5, <2>10 DEF Environments
    <3> QED BY <2>8, <2>10, <3>1
  <2> QED BY <2>6, <2>7, <2>9, <2>10
<1>5. CASE MutationCleanup \/ MutationRelease
  <2>1. /\ UNCHANGED <<loaded, env, disk>>
        /\ mutator' = mutator \/ "running" \notin {mutator, mutator'}
    BY <1>5 DEF MutationCleanup, MutationRelease
  <2> QED BY <1>2, <2>1, AloneStep
<1>6. CASE EndMutation
  <2>1. mutator = "running" /\ mutator' = "returned"
    BY <1>6 DEF EndMutation
  <2>2. CASE mode # "up"
    <3>1. UNCHANGED <<loaded, env, disk>>
      BY <1>1, <1>6, <2>2 DEF EndMutation, TypeOK
    <3> QED BY <1>2, <2>2, <3>1 DEF ActorsAreRecorded
  <2>3. CASE mode = "up"
    <3>1. Occupied
      BY <2>1, <2>3 DEF Occupied
    <3>2. loaded /\ "probing" \notin worker /\ stopper.pc = "none"
      BY <2>1, <2>3, <3>1, OccupiedExcludes
    <3>. DEFINE e == [env EXCEPT !.mutation = FALSE]
                k == blockedReconciliation(daemon, "cleanup-unproved")
                f == [e EXCEPT !.journal.recon = k]
    <3>3. ~e.mutation /\ ~f.mutation
      <4> HIDE DEF k
      <4> QED BY <1>1 DEF Environments
    <3>4. env' \in {e, f} \/ unload
      BY <1>6, <2>3, <3>2 DEF EndMutation
    <3> HIDE DEF e, f
    <3> QED BY <1>2, <1>3, <2>1, <2>3, <3>2, <3>3, <3>4 DEF ActorsAreRecorded, unload
  <2> QED BY <2>2, <2>3
<1>7. CASE ForgetEnvironment
  <2>1. /\ mode = "up" /\ claimable("cleanup") /\ mutator' = mutator
        /\ unload \/ env' = current
    BY <1>7 DEF ForgetEnvironment
  <2>2. ~Occupied
    BY <2>1, OccupiedExcludes
  <2>3. ~env'.mutation
    BY <1>3, <2>1, <2>2, Unmutated DEF Occupied, unload
  <2> QED BY <1>2, <2>1, <2>2, <2>3, FreeStep
<1> QED BY <1>4, <1>5, <1>6, <1>7

(* A step of the daemon keeps the actors recorded.                         *)
LEMMA DaemonRecordedStep ==
    ASSUME Unintended, ActorsAreRecorded, Close \/ Exit \/ Start \/ VmLost
    PROVE  ActorsAreRecorded'
<1>. USE DEF sessionVars, actorVars, backendVars, boundVars
<1>1. /\ TypeOK /\ env \in Environments /\ daemon \in Nat /\ disk \in Journals
      /\ RegistryAgrees /\ ActorsAreBacked
  BY DEF Unintended, Durability, Exclusion, TypeOK
<1>2. CASE Close
  <2>1. mode' = "closing" /\ UNCHANGED <<worker, stopper, mutator>>
    BY <1>2 DEF Close
  <2>2. SUFFICES ASSUME stopper.pc = "invoked"
                 PROVE  /\ attemptBlocksAttach(env'.journal.attempt)
                        /\ attemptBlocksAttach(disk'.attempt)
    BY <2>1 DEF ActorsAreRecorded
  <2>3. /\ attemptBlocksAttach(env.journal.attempt) /\ attemptBlocksAttach(disk.attempt)
        /\ loaded /\ env.journal.inc.boot # 0
    BY <1>1, <2>2 DEF ActorsAreRecorded, ActorsAreBacked
  <2>4. env.journal.gen # 0
    BY SMTT(60), <2>3 DEF Unintended, Durability, RowsAreOwned, SoundJournal, NoInc
  <2>. DEFINE f == [env EXCEPT !.establishing = {}, !.stopCancel = FALSE, !.stopDone = FALSE,
                               !.journal.deadline = NoDeadline]
              b == blockEnv(f, "daemon-shutdown")
              e == IF env.reconciling THEN [b EXCEPT !.reconciling = FALSE] ELSE f
  <2>5. f \in Environments /\ f.journal.attempt = env.journal.attempt
    BY <1>1, ConstantTypes DEF Environments, Journals
  <2>6. e.journal.attempt = env.journal.attempt /\ e \in Environments
    <3> HIDE DEF f
    <3>1. b \in Environments
      BY <1>1, <2>5, BlockType DEF Reasons
    <3>2. b.journal.attempt = f.journal.attempt
      BY <2>5 DEF blockEnv, Environments, Journals
    <3> HIDE DEF b
    <3>3. /\ [b EXCEPT !.reconciling = FALSE] \in Environments
          /\ [b EXCEPT !.reconciling = FALSE].journal = b.journal
      BY <3>1 DEF Environments
    <3> QED BY <2>5, <3>2, <3>3
  <2>7. env' = checkpointNow(e) /\ (disk' = disk \/ disk' = e.journal)
    BY SMTT(60), <1>2, <2>3, <2>4, Persisted DEF Close
  <2> HIDE DEF e
  <2>8. checkpointNow(e).journal = e.journal
    BY <2>6 DEF checkpointNow, Environments
  <2> QED BY <2>3, <2>6, <2>7, <2>8
<1>3. CASE Exit
  BY <1>3 DEF Exit, idleStopper, ActorsAreRecorded
<1>4. CASE Start
  <2>1. /\ mode = "down" /\ ~loaded /\ worker = {} /\ stopper.pc = "none" /\ mutator = "none"
        /\ UNCHANGED <<stopper, mutator>>
    BY <1>1, <1>4 DEF Start, RegistryAgrees, ActorsAreRecorded
  <2>2. ~env.mutation
    BY SMTT(60), <2>1 DEF Unintended, Durability, LoadingAgrees, registryEnvironment
  <2>. DEFINE l == IF disk.gen = 0
                   THEN registryEnvironment(newJournal(daemon + 1), FALSE)
                   ELSE registryEnvironment(disk, FALSE)
              f == fenced(l, daemon + 1)
              k == blockedReconciliation(daemon + 1, "environment-record-unavailable")
              b == [f EXCEPT !.journal.attempt = NoAttempt, !.reconciling = FALSE,
                             !.journal.recon = k]
  <2>3. l \in Environments /\ ~l.mutation
    <3>1. newJournal(daemon + 1) \in Journals
      BY SMTT(60), <1>1, JournalType
    <3>2. \A j : ~registryEnvironment(j, FALSE).mutation
      BY DEF registryEnvironment
    <3> QED BY <1>1, <3>1, <3>2, EnvironmentType
  <2>4. f \in Environments /\ f.reconciling /\ ~f.mutation
    <3> HIDE DEF l
    <3> QED BY SMTT(60), <1>1, <2>3, FencedType, FenceFlagViews
  <2>5. ~b.mutation
    <3> HIDE DEF f, k
    <3> QED BY <2>4 DEF Environments
  <2>6. \/ UNCHANGED <<env, worker>> /\ mode' = "up"
        \/ env' = f /\ loaded' /\ worker' = {"probing"} /\ mode' = "up"
        \/ env' = b /\ UNCHANGED worker /\ mode' = "up"
        \/ UNCHANGED <<mode, env, worker>>
    BY <1>4 DEF Start
  <2> HIDE DEF f, b
  <2> QED BY <2>1, <2>2, <2>4, <2>5, <2>6 DEF ActorsAreRecorded
<1>5. CASE VmLost
  BY <1>5, AloneStep DEF VmLost
<1> QED BY <1>2, <1>3, <1>4, <1>5

-----------------------------------------------------------------------------
(* Without write faults an idle environment has its timer *)

(* A step that changes neither the environment nor the timers.             *)
LEMMA KeptTimer ==
    ASSUME IdleHasTimer, UNCHANGED <<mode, loaded, env, timers>>
    PROVE  IdleHasTimer'
BY DEF IdleHasTimer, stoppable, attemptBlocksAttach

(* scheduleIfIdle leaves an idle environment with its timer.               *)
LEMMA ScheduleArms ==
    ASSUME NEW e \in Environments, NEW ok, scheduleIfIdle(e, ok),
           e.blocked \/ e.journal.rows = {}
    PROVE  IdleHasTimer'
<1>. DEFINE b == blockEnv(e, "backend-observation-unproved")
<1>1. b.blocked
  BY DEF blockEnv, Environments
<1>2. /\ checkpointLater(armed(e)).journal = armed(e).journal
  BY ArmedType DEF checkpointLater, Environments
<1>3. \/ env' = e /\ (e.establishing # {} \/ e.blocked \/ e.journal.inc.boot = 0)
      \/ env' = b
      \/ /\ env' = checkpointLater(armed(e))
         /\ timers' = timers \cup {armed(e).journal.deadline}
  BY DEF scheduleIfIdle
<1> HIDE DEF b
<1> QED BY <1>1, <1>2, <1>3 DEF IdleHasTimer, stoppable

(* What the scheduler reads of an environment whose handle, or whose row,  *)
(* was dropped.                                                            *)
LEMMA DropHandleView ==
    ASSUME NEW e \in Environments, NEW s \in Sessions
    PROVE  /\ dropHandle(e, s) \in Environments /\ dropHandle(e, s).journal = e.journal
           /\ dropHandle(e, s).handles = e.handles \ {s}
           /\ dropHandle(e, s).blocked = e.blocked
BY DEF dropHandle, Environments

LEMMA DropRowView ==
    ASSUME NEW e \in Environments, NEW s \in Sessions
    PROVE  /\ dropRow(e, s) \in Environments
           /\ dropRow(e, s).journal.rows = {r \in e.journal.rows : r.session # s}
           /\ dropRow(e, s).handles = e.handles
           /\ dropRow(e, s).blocked = e.blocked
<1>1. dropRow(e, s) \in Environments
  BY RowTypes
<1> QED BY <1>1 DEF dropRow, Environments, Journals

(* A step of a session leaves an idle environment its timer.               *)
LEMMA SessionTimerStep ==
    ASSUME Unintended, IdleHasTimer, NEW s \in Sessions, SessionNext(s)
    PROVE  IdleHasTimer'
<1>. USE DEF sessionVars, actorVars, backendVars, boundVars
<1>1. TypeOK /\ env \in Environments /\ daemon \in Nat /\ (loaded => RowsAreOwned(env, disk))
  BY DEF Unintended, Durability, Exclusion, TypeOK
<1>2. CASE \/ ReserveWait(s) \/ ReserveRefused(s) \/ ReserveGivesUp(s) \/ Observe(s)
           \/ StartBackend(s)
  <2>1. UNCHANGED <<mode, loaded, env, timers>>
    BY <1>2 DEF ReserveWait, ReserveRefused, ReserveGivesUp, Observe, StartBackend
  <2> QED BY <2>1, KeptTimer
<1>3. CASE Reserve(s)
  <2>. DEFINE c == cancelDeadlineForAttach(current)
  <2>1. mode = "up" /\ env' = [c EXCEPT !.establishing = @ \cup {s}]
    BY <1>3 DEF Reserve, asks
  <2>2. c \in Environments
    BY <2>1, CurrentIntent, CancelType DEF Unintended
  <2> HIDE DEF c
  <2>3. s \in env'.establishing
    BY <2>1, <2>2 DEF Environments
  <2> QED BY <2>3 DEF IdleHasTimer, stoppable
<1>4. CASE Prepare(s) \/ Promote(s)
  <2>1. s \in env'.establishing \cup env'.handles
    <3>1. CASE Prepare(s)
      <4>1. PICK o, j : env' = [env EXCEPT !.obs = o, !.journal = j]
        BY <3>1 DEF Prepare
      <4> QED BY <1>1, <3>1, <4>1 DEF Prepare, stillAdmitted, Environments
    <3>2. CASE Promote(s)
      <4>1. PICK j : env' = [[[env EXCEPT !.handles = @ \cup {s}] EXCEPT
                                 !.establishing = @ \ {s}] EXCEPT !.journal = j]
        BY ZenonT(60), <1>1, <3>2 DEF Promote, Environments
      <4> QED BY <1>1, <4>1 DEF Environments
    <3> QED BY <1>4, <3>1, <3>2
  <2> QED BY <2>1 DEF IdleHasTimer, stoppable
<1>5. CASE Commit(s) \/ BindBoot(s) \/ BeginFinish(s) \/ Release(s)
  <2>1. s \in env.handles
    BY <1>5 DEF Commit, BindBoot, BeginFinish, Release, registered
  <2>2. env'.handles = env.handles
    <3>1. CASE Commit(s)
      BY <1>1, <3>1 DEF Commit, checkpointNow, Environments
    <3>2. CASE BindBoot(s)
      BY <1>1, <3>2 DEF BindBoot, checkpointNow, checkpointLater, Environments
    <3>3. CASE BeginFinish(s)
      BY <1>1, <3>3 DEF BeginFinish, Environments
    <3>4. CASE Release(s)
      <4>1. /\ dropRow(env, s) \in Environments /\ dropRow(env, s).handles = env.handles
            /\ orphanRow(env, s) \in Environments /\ orphanRow(env, s).handles = env.handles
        BY <1>1, RowTypes, RowViews
      <4>2. \/ env' = checkpointLater(dropRow(env, s))
            \/ env' = checkpointNow(orphanRow(env, s))
        BY <3>4 DEF Release
      <4> QED BY <4>1, <4>2 DEF checkpointNow, checkpointLater, Environments
    <3> QED BY <1>5, <3>1, <3>2, <3>3, <3>4
  <2> QED BY <2>1, <2>2 DEF IdleHasTimer, stoppable
<1>6. CASE Abort(s)
  <2>. DEFINE e == [env EXCEPT !.establishing = @ \ {s}]
  <2>1. /\ e \in Environments /\ e.journal = env.journal /\ e.handles = env.handles
        /\ e.blocked = env.blocked
    BY <1>1 DEF Environments
  <2>2. mode' = mode
    BY <1>6 DEF Abort
  <2>3. \/ UNCHANGED <<loaded, env, timers>>
        \/ env' = e /\ ~(mode = "up" /\ e.establishing = {} /\ e.handles = {})
        \/ unload
        \/ /\ \E ok \in BOOLEAN : scheduleIfIdle(e, ok)
           /\ loaded /\ mode = "up" /\ e.handles = {}
    BY <1>6 DEF Abort
  <2> HIDE DEF e
  <2>4. CASE \E ok \in BOOLEAN : scheduleIfIdle(e, ok) /\ loaded /\ mode = "up" /\ e.handles = {}
    <3>1. e.blocked \/ e.journal.rows = {}
      BY <1>1, <2>1, <2>4 DEF RowsAreOwned
    <3> QED BY <2>1, <2>4, <3>1, ScheduleArms
  <2>5. CASE env' = e /\ ~(mode = "up" /\ e.establishing = {} /\ e.handles = {})
    BY <2>2, <2>5 DEF IdleHasTimer, stoppable
  <2>6. CASE unload
    BY <2>6 DEF unload, IdleHasTimer
  <2>7. CASE UNCHANGED <<loaded, env, timers>>
    BY <2>2, <2>7, KeptTimer
  <2> QED BY <2>3, <2>4, <2>5, <2>6, <2>7
<1>7. CASE AbortRegistration(s)
  <2>. DEFINE d == dropRow(env, s)
              e == dropHandle(d, s)
  <2>1. mode = "up" /\ loaded
    BY <1>7 DEF AbortRegistration, registered
  <2>2. /\ d \in Environments /\ d.journal.rows = {r \in env.journal.rows : r.session # s}
        /\ d.handles = env.handles /\ (env.blocked => d.blocked)
    BY <1>1, DropRowView
  <2>3. /\ e \in Environments /\ e.journal = d.journal /\ e.handles = d.handles \ {s}
        /\ d.blocked => e.blocked
    <3> HIDE DEF d
    <3> QED BY <2>2, DropHandleView
  <2>4. \/ env' = e /\ e.handles # {}
        \/ \E ok \in BOOLEAN : scheduleIfIdle(e, ok) /\ e.handles = {}
    BY <1>7 DEF AbortRegistration
  <2> HIDE DEF d, e
  <2>5. e.handles = {} => e.blocked \/ e.journal.rows = {}
    BY ZenonT(60), <1>1, <2>1, <2>2, <2>3 DEF RowsAreOwned
  <2>6. CASE env' = e /\ e.handles # {}
    BY <2>6 DEF IdleHasTimer, stoppable
  <2> QED BY <2>3, <2>4, <2>5, <2>6, ScheduleArms
<1>8. CASE FinishRegistration(s)
  <2>. DEFINE e == dropHandle(env, s)
              b == blockEnv(e, "cleanup-unproved")
  <2>1. mode = "up" /\ loaded
    BY <1>8 DEF FinishRegistration, registered
  <2>2. /\ e \in Environments /\ e.journal = env.journal /\ e.handles = env.handles \ {s}
        /\ env.blocked => e.blocked
    BY <1>1, DropHandleView
  <2>3. \/ env' = b
        \/ env' = checkpointLater(e) /\ e.handles # {}
        \/ \E ok \in BOOLEAN : scheduleIfIdle(e, ok) /\ e.handles = {} /\ phase[s] = "released"
    BY <1>8 DEF FinishRegistration
  <2>4. b.blocked /\ checkpointLater(e).handles = e.handles
    <3> HIDE DEF e
    <3> QED BY <2>2 DEF blockEnv, checkpointLater, Environments
  <2> HIDE DEF e, b
  <2>5. e.handles = {} /\ phase[s] = "released" => e.blocked \/ e.journal.rows = {}
    BY SMTT(60), <1>1, <2>1, <2>2 DEF RowsAreOwned
  <2>6. CASE env' = b
    BY <2>4, <2>6 DEF IdleHasTimer, stoppable
  <2>7. CASE env' = checkpointLater(e) /\ e.handles # {}
    BY <2>4, <2>7 DEF IdleHasTimer, stoppable
  <2> QED BY <2>2, <2>3, <2>5, <2>6, <2>7, ScheduleArms
<1> QED BY <1>2, <1>3, <1>4, <1>5, <1>6, <1>7, <1>8 DEF SessionNext

(* A timer that fires stops the environment, or is not the current one.    *)
LEMMA ExpiryTimerStep ==
    ASSUME Unintended, ActorsAreRecorded, IdleHasTimer, Enabled, NEW t \in timers, TimerNext(t)
    PROVE  IdleHasTimer'
<1>. USE DEF sessionVars, actorVars, backendVars, boundVars
<1>1. /\ TypeOK /\ env \in Environments /\ daemon \in Nat /\ (loaded => RowsAreOwned(env, disk))
      /\ NoDeadline \notin timers
  BY DEF Unintended, Durability, Exclusion, TypeOK, ActorsAreBacked
<1>2. CASE ExpireStale(t)
  <2>1. UNCHANGED <<mode, loaded, env>> /\ timers' = timers \ {t} /\ staleTimer(t)
    BY <1>2 DEF ExpireStale
  <2>2. mode = "up" /\ loaded /\ stoppable(env) => env.journal.deadline # t
    BY <2>1 DEF staleTimer, stoppable, ActorsAreRecorded
  <2>3. stoppable(env)' <=> stoppable(env)
    BY <2>1 DEF stoppable, attemptBlocksAttach
  <2> QED BY <2>1, <2>2, <2>3 DEF IdleHasTimer
<1>3. CASE ExpireRefused(t)
  <2>. DEFINE b == blockEnv(env, "backend-observation-unproved")
  <2>1. loaded /\ env.journal.deadline = t
    BY <1>3 DEF ExpireRefused, staleTimer
  <2>2. env.journal.rows = {}
    BY <1>1, <2>1 DEF RowsAreOwned, SoundJournal
  <2>3. CASE env' = [b EXCEPT !.journal.deadline = NoDeadline]
    <3>1. b \in Environments
      BY <1>1, BlockType DEF Reasons
    <3>2. b.blocked
      BY <1>1 DEF blockEnv, Environments
    <3> HIDE DEF b
    <3>3. env'.blocked
      BY <2>3, <3>1, <3>2 DEF Environments
    <3> QED BY <3>3 DEF IdleHasTimer, stoppable
  <2>4. CASE ~allowed(env) /\ env' = [env EXCEPT !.blocked = FALSE]
    <3>1. env'.journal.recon.state # "complete"
      BY <1>1, <2>2, <2>4 DEF allowed, Environments
    <3> QED BY <3>1 DEF IdleHasTimer, stoppable
  <2> QED BY <1>3, <2>3, <2>4 DEF ExpireRefused
<1>4. CASE ExpireDeferred(t)
  <2>1. /\ env' = checkpointLater(armed(env))
        /\ armed(env).journal.deadline \in timers'
    BY <1>4 DEF ExpireDeferred
  <2>2. checkpointLater(armed(env)).journal = armed(env).journal
    BY <1>1, ArmedType DEF checkpointLater, Environments
  <2> QED BY <2>1, <2>2 DEF IdleHasTimer
<1>5. CASE Expire(t)
  <2>. DEFINE planned == withAttempt(env, attempt(t.inc, "automatic", "planned"))
              started == invoked(env, t.inc, "automatic")
  <2>1. env' = [planned EXCEPT !.blocked = TRUE] \/ env' = started
    BY <1>5 DEF Expire
  <2>2. [planned EXCEPT !.blocked = TRUE].blocked
    BY <1>1 DEF withAttempt, Environments
  <2>3. attemptBlocksAttach(started.journal.attempt)
    BY <1>1 DEF withAttempt, invoked, attempt, attemptBlocksAttach, Environments, Journals
  <2> HIDE DEF planned, started
  <2> QED BY <2>1, <2>2, <2>3 DEF IdleHasTimer, stoppable, attemptBlocksAttach
<1> QED BY <1>2, <1>3, <1>4, <1>5 DEF TimerNext

(* A cancelled deadline is made durable or nothing changes.                *)
LEMMA CancelSucceeds ==
    ASSUME Unintended, FaultFree, mode = "up", NEW j,
           cancelAndPersist(current, j, "cancelFailed")
    PROVE  FALSE
<1>. DEFINE e == current
            c == cancelDeadline(e)
<1>1. /\ TypeOK /\ e \in Environments /\ e.journal.disposal = NoDisposal
      /\ SoundJournal(e.journal)
  BY CurrentIntent, CurrentRows DEF Unintended, Durability, Exclusion, RowsAreOwned
<1>2. e.journal.deadline # NoDeadline /\ persist(c.journal, FALSE)
  BY ZenonT(60) DEF cancelAndPersist
<1> HIDE DEF e
<1>3. e.journal.gen # 0
  BY SMTT(60), <1>1, <1>2 DEF SoundJournal, NoInc
<1>4. TameJournal(c.journal, e.journal)
  BY <1>1, TameUpdates DEF Tame
<1> HIDE DEF c
<1>5. Validate(c.journal)
  BY <1>1, <1>3, <1>4, TameSound, SoundIsValid DEF TameJournal
<1> QED BY ZenonT(60), <1>1, <1>2, <1>5, ValidWrite

(* The environment that an operation finds has its timer, or is new.       *)
LEMMA CurrentTimer ==
    ASSUME Unintended, IdleHasTimer, mode = "up", mode' = mode, loaded', env' = current,
           timers' = timers
    PROVE  IdleHasTimer'
<1>1. CASE loaded
  BY <1>1, KeptTimer, CurrentRows DEF Unintended, IdleHasTimer, stoppable, attemptBlocksAttach
<1>2. CASE ~loaded
  <2>1. current.journal.inc.boot = 0
    BY SMTT(60), <1>2, CurrentRows DEF Unintended, registryEnvironment, newJournal, NoInc
  <2> QED BY <2>1 DEF IdleHasTimer, stoppable
<1> QED BY <1>1, <1>2

(* A step of a stop leaves an idle environment its timer.                  *)
LEMMA StopTimerStep ==
    ASSUME Unintended, FaultFree, IdleHasTimer,
           \/ StopExplicit \/ BackendStop \/ (\E res \in StopResults : StopReturn(res))
           \/ StopRelease \/ Checkpoint
    PROVE  IdleHasTimer'
<1>. USE DEF sessionVars, actorVars, backendVars, boundVars
<1>1. /\ TypeOK /\ env \in Environments /\ daemon \in Nat
  BY DEF Unintended, Durability, Exclusion, TypeOK
<1>2. UNCHANGED <<mode, timers>>
  BY DEF StopExplicit, BackendStop, StopReturn, StopRelease, Checkpoint
<1>3. CASE BackendStop \/ StopRelease
  BY <1>2, <1>3, KeptTimer DEF BackendStop, StopRelease
<1>4. CASE StopExplicit
  <2>. DEFINE e == current
              c == cancelDeadline(e)
              a == withAttempt(c, attempt(e.journal.inc, "explicit-recovery", "invoked"))
              i == invoked(c, e.journal.inc, "explicit-recovery")
  <2>1. mode = "up" /\ loaded'
    BY <1>4 DEF StopExplicit
  <2>2. c \in Environments
    BY <2>1, CurrentIntent, CancelType DEF Unintended
  <2>3. attemptBlocksAttach(a.journal.attempt) /\ attemptBlocksAttach(i.journal.attempt)
    <3> HIDE DEF c, e
    <3> QED BY <2>2 DEF withAttempt, invoked, attempt, attemptBlocksAttach, Environments,
                        Journals
  <2>4. ~cancelAndPersist(e, a.journal, "cancelFailed")
    BY <2>1, CancelSucceeds
  <2>5. env' = e \/ env' \in {a, i}
    BY <1>4, <2>4 DEF StopExplicit
  <2>6. CASE env' = e
    BY <1>2, <2>1, <2>6, CurrentTimer
  <2>7. CASE env' \in {a, i}
    <3> HIDE DEF a, i
    <3> QED BY <2>3, <2>7 DEF IdleHasTimer, stoppable, attemptBlocksAttach
  <2> QED BY <2>5, <2>6, <2>7
<1>5. CASE \E res \in StopResults : StopReturn(res)
  <2>1. /\ UNCHANGED loaded
        /\ env' = env \/ \E res : env' = stopCommitted(env, res)
    BY <1>5 DEF StopReturn
  <2>2. CASE env' = env
    BY <1>2, <2>1, <2>2, KeptTimer
  <2>3. ASSUME NEW res, env' = stopCommitted(env, res) PROVE IdleHasTimer'
    <3>1. CASE res = "unknown"
      <4>1. env'.blocked
        BY <1>1, <2>3, <3>1 DEF stopCommitted, stopFinished, Environments
      <4> QED BY <4>1 DEF IdleHasTimer, stoppable
    <3>2. CASE res # "unknown"
      <4>1. env'.journal.inc.boot = 0
        BY SMTT(60), <1>1, <2>3, <3>2, StopCommittedViews DEF NoInc
      <4> QED BY <4>1 DEF IdleHasTimer, stoppable
    <3> QED BY <3>1, <3>2
  <2> QED BY <2>1, <2>2, <2>3
<1>6. CASE Checkpoint
  <2>. DEFINE c == checkpointNow(env)
              b == blockEnv(c, "journal-checkpoint-failed")
  <2>1. loaded' = loaded /\ (env' = c \/ env' = b)
    BY <1>6 DEF Checkpoint
  <2>2. /\ c \in Environments /\ c.journal = env.journal /\ c.handles = env.handles
        /\ c.establishing = env.establishing /\ c.blocked = env.blocked
    BY <1>1, CheckpointTypes DEF checkpointNow, Environments
  <2>3. b.blocked
    <3> HIDE DEF c
    <3> QED BY <2>2 DEF blockEnv, Environments
  <2> HIDE DEF c, b
  <2> QED BY <1>2, <2>1, <2>2, <2>3 DEF IdleHasTimer, stoppable, attemptBlocksAttach
<1> QED BY <1>3, <1>4, <1>5, <1>6

(* A step of a reconciliation leaves an idle environment its timer.        *)
LEMMA ReconciliationTimerStep ==
    ASSUME Unintended, IdleHasTimer,
           BeginReconciliation \/ Reconcile \/ ReconcileRefused \/ BlockReconciliation
    PROVE  IdleHasTimer'
<1>. USE DEF sessionVars, actorVars, backendVars, boundVars
<1>1. /\ TypeOK /\ daemon \in Nat /\ mode = "up" /\ current \in Environments
  BY CurrentIntent DEF Unintended, Durability, Exclusion, TypeOK, BeginReconciliation,
     Reconcile, ReconcileRefused, BlockReconciliation
<1>2. CASE BeginReconciliation
  <2>. DEFINE f == fenced(current, daemon)
  <2>1. f \in Environments /\ f.blocked
    BY <1>1, FencedType, FencedViews
  <2>2. env' = f \/ env' = [f EXCEPT !.reconciling = FALSE]
    BY <1>2 DEF BeginReconciliation
  <2> HIDE DEF f
  <2>3. env'.blocked
    BY <2>1, <2>2 DEF Environments
  <2> QED BY <2>3 DEF IdleHasTimer, stoppable
<1>3. CASE Reconcile
  <2>1. PICK o \in probed, owners \in SUBSET Sessions, unproved \in BOOLEAN :
          /\ env' = reconciled(current, o, owners, unproved)
          /\ timers' = timers \cup ({env'.journal.deadline} \ {NoDeadline})
    BY <1>3 DEF Reconcile
  <2>2. env'.blocked \/ env'.journal.inc.boot = 0 \/ env'.journal.deadline # NoDeadline
    BY <1>1, <2>1, ReconciledViews
  <2> QED BY <2>1, <2>2 DEF IdleHasTimer, stoppable
<1>4. CASE ReconcileRefused
  BY <1>4, KeptTimer DEF ReconcileRefused
<1>5. CASE BlockReconciliation
  <2>1. PICK why : env' = blockedFence(current, why)
    BY <1>5 DEF BlockReconciliation
  <2>2. env'.blocked
    BY <1>1, <2>1 DEF blockedFence, blockEnv, Environments
  <2> QED BY <2>2 DEF IdleHasTimer, stoppable
<1> QED BY <1>2, <1>3, <1>4, <1>5

(* A step of a mutation leaves an idle environment its timer.              *)
LEMMA MutationTimerStep ==
    ASSUME Unintended, FaultFree, ActorsAreRecorded, IdleHasTimer,
           \/ BeginMutation \/ MutationCleanup \/ EndMutation \/ MutationRelease
           \/ ForgetEnvironment
    PROVE  IdleHasTimer'
<1>. USE DEF sessionVars, actorVars, backendVars, boundVars
<1>1. /\ TypeOK /\ env \in Environments /\ daemon \in Nat
  BY DEF Unintended, Durability, Exclusion, TypeOK
<1>2. UNCHANGED <<mode, timers>>
  BY DEF BeginMutation, MutationCleanup, EndMutation, MutationRelease, ForgetEnvironment
<1>3. CASE BeginMutation
  <2>. DEFINE e == current
              c == cancelDeadline(e)
              b == blockEnv(c, "destructive-mutation-in-progress")
  <2>1. mode = "up"
    BY <1>3 DEF BeginMutation
  <2>2. e \in Environments /\ c \in Environments
    BY <2>1, CurrentIntent, CancelType DEF Unintended
  <2>3. b \in Environments /\ b.blocked
    <3> HIDE DEF c
    <3>1. b \in Environments
      BY <1>1, <2>2, BlockType DEF Reasons
    <3>2. b.blocked
      BY <2>2 DEF blockEnv, Environments
    <3> QED BY <3>1, <3>2
  <2>4. ~cancelAndPersist(e, b.journal, "cancelFailed")
    BY <2>1, CancelSucceeds
  <2>5. \/ env' = [e EXCEPT !.mutation = TRUE, !.blocked = TRUE]
        \/ env' = b
        \/ env' = [b EXCEPT !.mutation = TRUE]
    BY <1>3, <2>4 DEF BeginMutation
  <2> HIDE DEF e, c, b
  <2>6. env'.blocked
    BY <2>2, <2>3, <2>5 DEF Environments
  <2> QED BY <2>6 DEF IdleHasTimer, stoppable
<1>4. CASE MutationCleanup \/ MutationRelease
  BY <1>2, <1>4, KeptTimer DEF MutationCleanup, MutationRelease
<1>5. CASE EndMutation
  <2>1. CASE mode # "up"
    BY <1>2, <2>1 DEF IdleHasTimer
  <2>2. CASE mode = "up"
    <3>1. env.blocked /\ loaded
      BY <1>5, <2>2 DEF EndMutation, ActorsAreRecorded
    <3>. DEFINE e == [env EXCEPT !.mutation = FALSE]
                k == blockedReconciliation(daemon, "cleanup-unproved")
                f == [e EXCEPT !.journal.recon = k]
    <3>2. e.blocked /\ f.blocked
      <4> HIDE DEF k
      <4> QED BY <1>1, <3>1 DEF Environments
    <3>3. env' \in {e, f} \/ unload
      BY <1>5, <2>2, <3>1 DEF EndMutation
    <3> HIDE DEF e, f
    <3> QED BY <3>2, <3>3 DEF IdleHasTimer, stoppable, unload
  <2> QED BY <2>1, <2>2
<1>6. CASE ForgetEnvironment
  <2>1. mode = "up" /\ (unload \/ (env' = current /\ loaded'))
    BY <1>6 DEF ForgetEnvironment
  <2>2. CASE unload
    BY <2>2 DEF unload, IdleHasTimer
  <2>3. CASE env' = current /\ loaded'
    BY <1>2, <2>1, <2>3, CurrentTimer
  <2> QED BY <2>1, <2>2, <2>3
<1> QED BY <1>3, <1>4, <1>5, <1>6

(* A step of the daemon leaves an idle environment its timer.              *)
LEMMA DaemonTimerStep ==
    ASSUME Unintended, IdleHasTimer, Close \/ Exit \/ Start \/ VmLost
    PROVE  IdleHasTimer'
<1>. USE DEF sessionVars, actorVars, backendVars, boundVars
<1>1. CASE Close \/ Exit
  BY <1>1 DEF Close, Exit, IdleHasTimer
<1>2. CASE VmLost
  BY <1>2, KeptTimer DEF VmLost
<1>3. CASE Start
  <2>1. daemon \in Nat /\ disk \in Journals /\ mode = "down" /\ ~loaded
    BY <1>3 DEF Start, Unintended, Durability, Exclusion, TypeOK, RegistryAgrees
  <2>. DEFINE l == IF disk.gen = 0
                   THEN registryEnvironment(newJournal(daemon + 1), FALSE)
                   ELSE registryEnvironment(disk, FALSE)
              f == fenced(l, daemon + 1)
              k == blockedReconciliation(daemon + 1, "environment-record-unavailable")
              b == [f EXCEPT !.journal.attempt = NoAttempt, !.reconciling = FALSE,
                             !.journal.recon = k]
  <2>2. l \in Environments
    <3>1. newJournal(daemon + 1) \in Journals
      BY SMTT(60), <2>1, JournalType
    <3> QED BY <2>1, <3>1, EnvironmentType
  <2>3. f \in Environments /\ f.blocked
    <3> HIDE DEF l
    <3> QED BY SMTT(60), <2>1, <2>2, FencedType, FencedViews
  <2>4. b.blocked
    <3> HIDE DEF f, k
    <3> QED BY <2>3 DEF Environments
  <2>5. loaded' = loaded \/ env' \in {f, b}
    BY <1>3 DEF Start
  <2> HIDE DEF f, b
  <2> QED BY <2>1, <2>3, <2>4, <2>5 DEF IdleHasTimer, stoppable
<1> QED BY <1>1, <1>2, <1>3

-----------------------------------------------------------------------------
(* The inductions, and what they show *)

(* The inductive invariants without removals and without write faults.     *)
Recorded == Unintended /\ ActorsAreRecorded
Scheduled == Recorded /\ IdleHasTimer

(* Scheduled holds initially.                                              *)
LEMMA ScheduledInit == Init => Scheduled
<1> SUFFICES ASSUME Init PROVE Scheduled
  OBVIOUS
<1>1. Unintended
  BY UnintendedInit
<1>2. ActorsAreRecorded
  BY DEF Init, ActorsAreRecorded, idleStopper
<1>3. IdleHasTimer
  BY DEF Init, IdleHasTimer
<1> QED BY <1>1, <1>2, <1>3 DEF Scheduled, Recorded

(* Without removals these steps are never taken.                           *)
LEMMA NoRemovalSteps ==
    ASSUME NoRemovals, NoIntents
    PROVE  ~(\/ BeginDisposal \/ DisposalCleanup \/ AdvanceDisposal \/ BlockDisposal
             \/ CompleteDisposalMetadata)
<1>1. ~BeginDisposal
  BY DEF BeginDisposal, request, NoRemovals
<1>2. ~(DisposalCleanup \/ AdvanceDisposal \/ BlockDisposal \/ CompleteDisposalMetadata)
  BY DEF NoIntents, DisposalCleanup, AdvanceDisposal, BlockDisposal, CompleteDisposalMetadata
<1> QED BY <1>1, <1>2

(* Recorded is inductive without write faults.                             *)
LEMMA RecordedStep == FaultFree => (Recorded /\ [Next]_vars => Recorded')
<1> SUFFICES ASSUME FaultFree, Recorded, [Next]_vars PROVE Recorded'
  OBVIOUS
<1>1. Unintended /\ Unintended' /\ ActorsAreRecorded
  BY UnintendedStep DEF FaultFree, Recorded
<1>2. CASE UNCHANGED vars
  <2>1. ActorsAreRecorded'
    BY <1>1, <1>2, AloneStep DEF vars, actorVars
  <2> QED BY <1>1, <2>1 DEF Recorded
<1>3. CASE Next
  <2>1. ~(\/ BeginDisposal \/ DisposalCleanup \/ AdvanceDisposal \/ BlockDisposal
          \/ CompleteDisposalMetadata)
    BY <1>1, NoRemovalSteps DEF FaultFree, Unintended
  <2>2. ActorsAreRecorded'
    BY ZenonT(60), <1>1, <1>3, <2>1, SessionRecordedStep, TimerRecordedStep, StopRecordedStep,
       ReconciliationRecordedStep, MutationRecordedStep, DaemonRecordedStep DEF Next
  <2> QED BY <1>1, <2>2 DEF Recorded
<1> QED BY <1>2, <1>3

(* Scheduled is inductive when, besides, automatic stops are enabled.      *)
LEMMA ScheduledStep == FaultFree /\ Enabled => (Scheduled /\ [Next]_vars => Scheduled')
<1> SUFFICES ASSUME FaultFree, Enabled, Scheduled, [Next]_vars PROVE Scheduled'
  OBVIOUS
<1>1. Recorded' /\ Unintended /\ ActorsAreRecorded /\ IdleHasTimer
  BY RecordedStep DEF Scheduled, Recorded
<1>2. CASE UNCHANGED vars
  BY <1>1, <1>2, KeptTimer DEF vars, Scheduled
<1>3. CASE Next
  <2>1. ~(\/ BeginDisposal \/ DisposalCleanup \/ AdvanceDisposal \/ BlockDisposal
          \/ CompleteDisposalMetadata)
    BY <1>1, NoRemovalSteps DEF FaultFree, Unintended
  <2>2. IdleHasTimer'
    BY ZenonT(60), <1>1, <1>3, <2>1, SessionTimerStep, ExpiryTimerStep, StopTimerStep,
       ReconciliationTimerStep, MutationTimerStep, DaemonTimerStep DEF Next
  <2> QED BY <1>1, <2>2 DEF Scheduled
<1> QED BY <1>2, <1>3

(* As long as no write fails and nobody asks for a removal, a stop         *)
(* callback is in flight only while its attempt is on disk: no later write *)
(* (a checkpoint, the shutdown, the worker of a reconciliation) takes it   *)
(* back before the callback has returned.                                  *)
THEOREM StopStaysDurable == FaultFree => (Spec => []StopIsDurable)
<1>1. Recorded => StopIsDurable
  BY DEF Recorded, ActorsAreRecorded, StopIsDurable
<1>2. Init => Recorded
  BY ScheduledInit DEF Scheduled
<1> SUFFICES ASSUME FaultFree PROVE Spec => []StopIsDurable
  OBVIOUS
<1>3. Recorded /\ [Next]_vars => Recorded'
  BY RecordedStep
<1> QED BY <1>1, <1>2, <1>3, PTL DEF Spec

(* Under the same conditions, with automatic stop on, an environment that  *)
(* runs idle, unblocked and unclaimed has a timer that will fire: whatever *)
(* cancelled its deadline has armed a new one.                             *)
THEOREM IdleStaysScheduled == FaultFree /\ Enabled => (Spec => []IdleIsScheduled)
<1>1. Scheduled => IdleIsScheduled
  BY DEF Scheduled, IdleHasTimer, stoppable, IdleIsScheduled
<1> SUFFICES ASSUME FaultFree, Enabled PROVE Spec => []IdleIsScheduled
  OBVIOUS
<1>2. Scheduled /\ [Next]_vars => Scheduled'
  BY ScheduledStep
<1> QED BY <1>1, <1>2, ScheduledInit, PTL DEF Spec

====

------------------------------ MODULE RunProofs -------------------------------
(***************************************************************************)
(* A run of a session, for any sessions, faults and crashes: what it leaves *)
(* on the host and in the guest; the broker of its data plane, for any     *)
(* connections and any goroutines that close it; and the network service   *)
(* it starts in, for any runs, resolvers, faults, crashes and rotations of *)
(* the secret.                                                             *)
(***************************************************************************)
EXTENDS RunSession, Broker, RunNetwork, FiniteSetTheorems, TLAPS

(* The default prover; SMT where a leaf needs arithmetic or cases.  The    *)
(* limits are wall-clock seconds, wide enough for a busy machine.          *)
USE ZenonT(60)

(***************************************************************************)
(* A run and the stop of its environment.                                  *)
(***************************************************************************)

\* How far a run is: before it has an owner directory, before it has given
\* the environment lock up, and with a process it may have left in the guest.
Early == {"new", "reserved", "locked", "begun"}
Locking == {"locked", "begun", "opened", "owned", "promoted", "served", "activated",
            "networked", "started"}
Serving == {"served", "activated", "networked", "started", "ready", "running", "cleanup",
            "closing"}
Ending == {"running", "cleanup", "closing", "finish", "finishing", "done"}
RunSteps == Early \cup Locking \cup Serving \cup Ending
AtRest == {"new", "reserved", "done"}
Quiet == {"new", "done"}

\* The stop of an environment, and the states of an owner record.
StopperSteps == {"idle", "observe", "stop", "prove", "commit", "invalidate", "recover"}
Stoppers == [at : StopperSteps, mode : {"none", "automatic", "explicit-recovery"}, streak : Nat]
OwnerStates == {"none", "opened", "preparing", "running", "cleaning", "failed"}

\* The types of the variables.
RunTypes ==
  /\ runStep \in [Sessions -> RunSteps]
  /\ ownerState \in [Sessions -> OwnerStates]
  /\ held \subseteq Sessions /\ guestOf \subseteq Sessions
  /\ sessionRuntime \subseteq Sessions /\ plane \subseteq Sessions
  /\ vmState \in {"running", "stopped"}
  /\ envLock \in Sessions \cup {NoSession, Stopper}
  /\ stopper \in Stoppers
  /\ daemonState \in {"up", "reconciling"}
  /\ runSpent \in [fault : Nat, crash : Nat, glitch : Nat]
  /\ runSpent.glitch <= MaxGlitches

\* What a session at a step of ApplyRun has and has not got.
SessionAt(s) ==
  /\ runStep[s] \in Early => ownerState[s] = "none" /\ s \notin held
  /\ runStep[s] = "opened" => ownerState[s] = "opened"
  /\ runStep[s] \notin Early \cup {"done"} => s \in held
  /\ runStep[s] = "done" => s \notin held
  /\ runStep[s] \notin Early \cup {"opened", "done"} => ownerState[s] \notin {"none", "opened"}
  /\ runStep[s] \in {"ready", "running"} => ownerState[s] = "running"
  /\ runStep[s] \in Locking \cup {"finishing"} => envLock = s
  /\ s \in plane => runStep[s] \in Serving
  /\ s \in sessionRuntime => runStep[s] \notin {"new", "reserved", "locked", "finishing"}

\* A process in the guest has a run that started it, a record, and, once the
\* run has looked for it, the mark that keeps the record.
GuestAt(s) ==
  /\ ownerState[s] \notin {"none", "opened"}
  /\ runStep[s] \in Ending
  /\ runStep[s] \in {"closing", "finish", "finishing"} => s \in unclean

\* An owner without a lock whose record does not tell of a failure was left by
\* a dead daemon, and keeps every other session out.
StaleKeepsOut ==
  \A s \in Sessions :
    s \notin held /\ ownerState[s] \notin {"none", "opened", "cleaning", "failed"}
      => \A t \in Sessions : runStep[t] \in AtRest

\* What a stop has established: it is alone, and what it takes for a stopped
\* machine is one, or the inventory was wrong once for every sample.
StopAt ==
  /\ stopper.at # "idle" \/ daemonState = "reconciling" =>
       \A s \in Sessions : runStep[s] \in Quiet
  /\ stopper.at # "idle" => envLock = Stopper
  /\ stopper.at \in {"observe", "prove"} =>
       stopper.streak \in {0, 1} /\ (stopper.streak = 1 => vmState = "stopped" \/ runSpent.glitch >= 1)
  /\ stopper.at \in {"commit", "invalidate", "recover"} =>
       vmState = "stopped" \/ runSpent.glitch >= 2

\* The inductive invariant.
RunAccount ==
  /\ RunTypes
  /\ \A s \in Sessions : SessionAt(s)
  /\ \A s \in guestOf : GuestAt(s)
  /\ guestOf # {} => vmState = "running"
  /\ StaleKeepsOut
  /\ StopAt
  /\ \A s \in Sessions : runStep[s] \in {"started", "ready", "running"} => envRecord = "running"
  /\ \A s \in sessionRuntime :
       runStep[s] = "done" /\ runSpent.crash = 0 => ownerState[s] = "failed"
  /\ runSpent.crash = 0 =>
       \A s \in Sessions : runStep[s] = "done" => ownerState[s] \in {"none", "opened", "failed"}

\* The stop at work, one step on.
LEMMA StopperMoves ==
  ASSUME stopper \in Stoppers, NEW t \in StopperSteps, NEW n \in Nat
  PROVE  /\ [stopper EXCEPT !.streak = n, !.at = t] \in Stoppers
         /\ [stopper EXCEPT !.streak = n, !.at = t].at = t
         /\ [stopper EXCEPT !.streak = n, !.at = t].streak = n
BY DEF Stoppers

\* A stop that ends or has not begun.
LEMMA StopperRests ==
  ASSUME NEW t \in StopperSteps, NEW m \in {"none", "automatic", "explicit-recovery"}
  PROVE  [at |-> t, mode |-> m, streak |-> 0] \in Stoppers
BY SMTT(60) DEF Stoppers

\* Nothing runs at first.
LEMMA RunAccountInit == MaxGlitches \in Nat /\ RunInit => RunAccount
<1> SUFFICES ASSUME MaxGlitches \in Nat, RunInit PROVE RunAccount
  OBVIOUS
<1>1. stopper \in Stoppers /\ stopper.at = "idle"
  BY StopperRests DEF RunInit, StopperSteps
<1> QED BY SMTT(60), <1>1, RunNamesAssumption
        DEF RunInit, RunAccount, RunTypes, SessionAt, GuestAt, StaleKeepsOut, StopAt,
        Early, Locking,
            Serving, Ending, RunSteps, AtRest, Quiet, OwnerStates, Stopper

\* ApplyRun up to its last deferred call, and a process that exits.
LEMMA RunAccountRuns ==
  ASSUME RunAccount, MaxGlitches \in {0, 1}, NEW r \in Sessions, Run(r) \/ GuestExits(r)
  PROVE  RunAccount'
<1> USE DEF RunAccount, RunTypes, SessionAt, GuestAt, StaleKeepsOut, StopAt,
      Early, Locking, Serving, Ending, RunSteps, AtRest,
      Quiet, OwnerStates, machineVars, fileVars, sessionVars
<1>1. ASSUME NEW s \in Sessions, ReserveAttach(s) PROVE RunAccount'
  BY SMTT(60), <1>1, RunNamesAssumption DEF ReserveAttach, advance
<1>2. ASSUME NEW s \in Sessions, LockEnvironment(s) PROVE RunAccount'
  BY SMTT(60), <1>2, RunNamesAssumption DEF LockEnvironment, advance,
     requireAttachableEnvironmentOwners, ProbeOwner, ListOwners
<1>3. ASSUME NEW s \in Sessions, LockRefused(s) PROVE RunAccount'
  BY SMTT(60), <1>3, RunNamesAssumption DEF LockRefused, advance, spendOn
<1>4. ASSUME NEW s \in Sessions, BeginRunSession(s) PROVE RunAccount'
  BY SMTT(60), <1>4, RunNamesAssumption DEF BeginRunSession, advance, spendOn
<1>5. ASSUME NEW s \in Sessions, openOwner(s) PROVE RunAccount'
  BY SMTT(60), <1>5, RunNamesAssumption DEF openOwner, advance
<1>6. ASSUME NEW s \in Sessions, AcquireOwner(s) PROVE RunAccount'
  BY SMTT(60), <1>6, RunNamesAssumption DEF AcquireOwner, advance, spendOn
<1>7. ASSUME NEW s \in Sessions, Promote(s) PROVE RunAccount'
  BY SMTT(60), <1>7, RunNamesAssumption DEF Promote, advance
<1>8. ASSUME NEW s \in Sessions, StartRunDataPlane(s) PROVE RunAccount'
  BY SMTT(60), <1>8, RunNamesAssumption DEF StartRunDataPlane, advance
<1>9. ASSUME NEW s \in Sessions, WarmActivate(s) PROVE RunAccount'
  BY SMTT(60), <1>9, RunNamesAssumption DEF WarmActivate, advance
<1>10. ASSUME NEW s \in Sessions, Activate(s) PROVE RunAccount'
  BY SMTT(60), <1>10, RunNamesAssumption DEF Activate, advance
<1>11. ASSUME NEW s \in Sessions, StartRunNetworkService(s) PROVE RunAccount'
  BY SMTT(60), <1>11, RunNamesAssumption DEF StartRunNetworkService, advance
<1>12. ASSUME NEW s \in Sessions, StartRunEnvironment(s) PROVE RunAccount'
  BY SMTT(60), <1>12, RunNamesAssumption DEF StartRunEnvironment, advance
<1>13. ASSUME NEW s \in Sessions, RunTransition(s) PROVE RunAccount'
  BY SMTT(60), <1>13, RunNamesAssumption DEF RunTransition, advance
<1>14. ASSUME NEW s \in Sessions, RunWithStreams(s) PROVE RunAccount'
  BY SMTT(60), <1>14, RunNamesAssumption DEF RunWithStreams, advance
<1>15. ASSUME NEW s \in Sessions, RunReturns(s) PROVE RunAccount'
  BY SMTT(60), <1>15, RunNamesAssumption DEF RunReturns, advance
<1>16. ASSUME NEW s \in Sessions, ReturnError(s) PROVE RunAccount'
  BY SMTT(60), <1>16, RunNamesAssumption DEF ReturnError, Owned, spendOn
<1>17. ASSUME NEW s \in Sessions, Cleanup(s) PROVE RunAccount'
  BY SMTT(60), <1>17, RunNamesAssumption DEF Cleanup, advance
<1>18. ASSUME NEW s \in Sessions, CloseRunDataPlane(s) PROVE RunAccount'
  BY SMTT(60), <1>18, RunNamesAssumption DEF CloseRunDataPlane, advance, spendOn
<1>19. ASSUME NEW s \in Sessions, FinishUnlocked(s) PROVE RunAccount'
  BY SMTT(60), <1>19, RunNamesAssumption DEF FinishUnlocked, advance, spendOn
<1>20. ASSUME NEW s \in Sessions, GuestExits(s) PROVE RunAccount'
  BY SMTT(60), <1>20, RunNamesAssumption DEF GuestExits
<1>21. ASSUME NEW s \in Sessions, FinishCleaning(s) PROVE RunAccount'
  <2>1. reconcileStaleOwners(FALSE) \ {s} = {}
    BY SMTT(60), <1>21 DEF FinishCleaning, reconcileStaleOwners, ownersWith, ProbeOwner,
       ListOwners, advance
  <2>2. \A o \in Sessions : ownerState'[o] = IF o = s THEN "cleaning" ELSE ownerState[o]
    BY <1>21, <2>1 DEF FinishCleaning
  <2>3. ownerState' = [o \in Sessions |-> ownerState'[o]]
    BY <1>21 DEF FinishCleaning
  <2>4. sessionRuntime' \subseteq sessionRuntime \ {s} /\ unclean \subseteq unclean'
    BY <1>21 DEF FinishCleaning
  <2>5. /\ envLock \in {s, NoSession} /\ envLock' = s
        /\ runStep[s] = "finish" /\ runStep' = [runStep EXCEPT ![s] = "finishing"]
        /\ UNCHANGED <<held, plane, guestOf, vmState, envRecord, stopper, daemonState, runSpent>>
    BY <1>21 DEF FinishCleaning, advance
  <2>6. ownerState' = [ownerState EXCEPT ![s] = "cleaning"]
    BY SMTT(60), <2>2, <2>3
  <2> QED BY SMTT(60), <2>4, <2>5, <2>6, RunNamesAssumption
<1>22. ASSUME NEW s \in Sessions, FinishOwner(s) PROVE RunAccount'
  <2>1. \A o \in Sessions \ {s} :
          runStep[o] \in {"started", "ready", "running"} => envRecord' = "running"
    <3> SUFFICES ASSUME NEW o \in Sessions \ {s}, runStep[o] \in {"started", "ready", "running"}
                 PROVE  envRecord' = "running"
      OBVIOUS
    <3>1. runStep[s] = "finishing" /\ envLock = s /\ envLock # o
      BY SMTT(60), <1>22 DEF FinishOwner, advance
    <3>2. ownerState[o] = "running" /\ o \in held
      BY SMTT(60), <3>1
    <3>3. o \in ownersWith("live")
      BY SMTT(60), <3>2 DEF ownersWith, ProbeOwner, ListOwners
    <3>4. ownersWith("live") \ {s} # {}
      BY <3>3
    <3> QED BY <1>22, <3>4 DEF FinishOwner, finishStatus
  <2> QED BY SMTT(60), <1>22, <2>1, RunNamesAssumption DEF FinishOwner, finishOwner, advance
<1> QED BY <1>1, <1>2, <1>3, <1>4, <1>5, <1>6, <1>7, <1>8, <1>9, <1>10, <1>11, <1>12,
        <1>13, <1>14, <1>15, <1>16, <1>17, <1>18, <1>19, <1>20, <1>21, <1>22 DEF Run

\* StopEnvironmentIncarnation, for an inventory that is wrong at most once.
LEMMA RunAccountStops ==
  ASSUME RunAccount, StopSteps, MaxGlitches \in {0, 1}
  PROVE  RunAccount'
<1> USE DEF RunAccount, RunTypes, SessionAt, GuestAt, StaleKeepsOut, StopAt,
      Early, Locking, Serving, Ending, RunSteps, AtRest,
      Quiet, OwnerStates, machineVars, fileVars, sessionVars
<1> DEFINE idle == [at |-> "idle", mode |-> "none", streak |-> 0]
<1>0. /\ idle \in Stoppers /\ idle.at = "idle"
  BY StopperRests DEF StopperSteps
<1>1. ASSUME NEW mode \in {"automatic", "explicit-recovery"}, BeginStop(mode) PROVE RunAccount'
  <2>1. stopper' \in Stoppers /\ stopper'.at = "observe" /\ stopper'.streak = 0
    BY <1>1, StopperRests DEF BeginStop, StopperSteps
  <2> QED BY SMTT(60), <1>1, <2>1, RunNamesAssumption DEF BeginStop, noRunAtWork, Stopper
<1>2. CASE observeInitial
  <2>1. stopper.at = "observe" /\ UNCHANGED <<sessionVars, machineVars, fileVars, daemonState>>
    BY <1>2 DEF observeInitial
  <2> QED BY SMTT(60), <1>2, RunNamesAssumption DEF observeInitial, inventorySample,
          spendOn, StopFails, Stoppers, StopperSteps
<1>3. CASE StopInstance
  <2>1. /\ stopper.at = "stop" /\ UNCHANGED <<sessionVars, bootId, fileVars, daemonState>>
        /\ \/ vmState' = "stopped" /\ guestOf' = {}
           \/ UNCHANGED <<vmState, guestOf>>
        /\ runSpent' \in [fault : Nat, crash : Nat, glitch : Nat]
        /\ runSpent'.crash = runSpent.crash /\ runSpent'.glitch = runSpent.glitch
    BY SMTT(60), <1>3 DEF StopInstance, spendOn
  <2>2. CASE stopper' = [stopper EXCEPT !.at = "prove", !.streak = 0] /\ UNCHANGED envLock
    <3>1. stopper' \in Stoppers /\ stopper'.at = "prove" /\ stopper'.streak = 0
      <4>1. stopper \in Stoppers /\ "prove" \in StopperSteps /\ 0 \in Nat
        BY SMTT(60) DEF StopperSteps
      <4> QED BY ONLY ZenonT(60), <2>2, <4>1 DEF Stoppers
    <3> QED BY SMTT(60), <2>1, <2>2, <3>1, RunNamesAssumption
  <2>3. CASE StopFails
    <3>1. stopper' \in Stoppers /\ stopper'.at = "idle"
      BY <1>0, <2>3 DEF StopFails
    <3> QED BY SMTT(60), <2>1, <2>3, <3>1, RunNamesAssumption DEF StopFails
  <2> QED BY <1>3, <2>2, <2>3 DEF StopInstance
<1>4. CASE observeStopped
  <2>1. stopper.at = "prove" /\ UNCHANGED <<sessionVars, machineVars, fileVars, daemonState>>
    BY <1>4 DEF observeStopped
  <2>2. CASE StopFails /\ UNCHANGED runSpent
    <3>1. stopper' \in Stoppers /\ stopper'.at = "idle"
      BY <1>0, <2>2 DEF StopFails
    <3> QED BY SMTT(60), <2>1, <2>2, <3>1, RunNamesAssumption DEF StopFails
  <2>3. ASSUME NEW state \in {"running", "stopped", "absent", "unknown"}, inventorySample(state),
               NEW streak, streak = (IF state = "stopped" THEN stopper.streak + 1 ELSE 0),
               stopper' = [stopper EXCEPT !.streak = streak,
                                          !.at = IF stoppedStreak(streak) THEN "commit" ELSE "prove"],
               UNCHANGED envLock
        PROVE  RunAccount'
    <3>1. /\ runSpent' \in [fault : Nat, crash : Nat, glitch : Nat]
          /\ runSpent'.crash = runSpent.crash /\ runSpent'.glitch <= MaxGlitches
          /\ \/ state = vmState /\ runSpent'.glitch = runSpent.glitch
             \/ runSpent'.glitch = runSpent.glitch + 1
      BY SMTT(60), <2>3 DEF inventorySample, spendOn
    <3>2. streak \in {0, 1, 2} /\ (streak # 0 => state = "stopped" /\ streak = stopper.streak + 1)
      BY SMTT(60), <2>1, <2>3
    <3>3. /\ stopper' \in Stoppers /\ stopper'.streak = streak
          /\ stopper'.at = IF streak = 2 THEN "commit" ELSE "prove"
      <4>1. stoppedStreak(streak) <=> streak = 2
        BY SMTT(60), <3>2 DEF stoppedStreak
      <4>2. (IF stoppedStreak(streak) THEN "commit" ELSE "prove") \in StopperSteps /\ streak \in Nat
        BY SMTT(60), <3>2 DEF StopperSteps
      <4>3. stopper \in Stoppers
        OBVIOUS
      <4>4. PICK t \in StopperSteps : t = IF stoppedStreak(streak) THEN "commit" ELSE "prove"
        BY <4>2
      <4>5. stopper' = [stopper EXCEPT !.streak = streak, !.at = t]
        BY ONLY ZenonT(60), <2>3, <4>4
      <4>6. stopper' \in Stoppers /\ stopper'.streak = streak /\ stopper'.at = t
        BY ONLY ZenonT(60), StopperMoves, <4>2, <4>3, <4>5
      <4> QED BY ONLY ZenonT(60), <4>1, <4>4, <4>6
    <3> QED BY SMTT(60), <2>1, <3>1, <3>2, <3>3, <2>3, RunNamesAssumption
  <2>4. CASE \E state \in {"running", "stopped", "absent", "unknown"} :
               /\ inventorySample(state)
               /\ LET streak == IF state = "stopped" THEN stopper.streak + 1 ELSE 0
                  IN stopper' = [stopper EXCEPT !.streak = streak,
                                   !.at = IF stoppedStreak(streak) THEN "commit" ELSE "prove"]
               /\ UNCHANGED envLock
    <3> HIDE DEF RunAccount
    <3> QED BY <2>3, <2>4
  <2> QED BY <1>4, <2>2, <2>4 DEF observeStopped
<1>5. CASE commitObservedEnvironmentStop
  BY SMTT(60), <1>5, RunNamesAssumption DEF commitObservedEnvironmentStop, Stoppers,
     StopperSteps
<1>6. CASE invalidateStoppedEnvironmentRuntime
  BY SMTT(60), <1>6, RunNamesAssumption DEF invalidateStoppedEnvironmentRuntime, Stoppers,
     StopperSteps
<1>7. CASE recoverStoppedEnvironmentOwners
  <2>1. vmState = "stopped" /\ guestOf = {} /\ \A s \in Sessions : runStep[s] \in Quiet
    BY SMTT(60), <1>7 DEF recoverStoppedEnvironmentOwners
  <2>2. PICK swept \in SUBSET Sessions :
          /\ ownerState' = [s \in Sessions |-> IF s \in swept THEN "none" ELSE ownerState[s]]
          /\ sessionRuntime' = sessionRuntime \ swept
    <3>1. {} \in SUBSET Sessions /\ reconcileStaleOwners(TRUE) \in SUBSET Sessions
      BY DEF reconcileStaleOwners, ownersWith, ListOwners
    <3> QED BY ZenonT(60), <1>7, <3>1 DEF recoverStoppedEnvironmentOwners
  <2>3. stopper' \in Stoppers /\ stopper'.at = "idle" /\ envLock' = NoSession
    BY <1>0, <1>7 DEF recoverStoppedEnvironmentOwners, StopFails
  <2>4. UNCHANGED <<runStep, unclean, held, plane, bootOf, machineVars, fileVars, daemonState, runSpent>>
    BY <1>7 DEF recoverStoppedEnvironmentOwners
  <2> QED BY SMTT(60), <2>1, <2>2, <2>3, <2>4, RunNamesAssumption
<1> QED BY <1>1, <1>2, <1>3, <1>4, <1>5, <1>6, <1>7 DEF StopSteps

\* Crashes, the reconciliation of a restarted daemon, and the machine.
LEMMA RunAccountRestarts ==
  ASSUME RunAccount, MaxGlitches \in {0, 1},
         DaemonDies \/ reconcileLifecycleRecord \/ retryLifecycleReconciliation \/ MachineStops
  PROVE  RunAccount'
<1> USE DEF RunAccount, RunTypes, SessionAt, GuestAt, StaleKeepsOut, StopAt,
      Early, Locking, Serving, Ending, RunSteps, AtRest,
      Quiet, OwnerStates, machineVars, fileVars, sessionVars
<1>1. CASE DaemonDies
  <2>1. stopper' \in Stoppers /\ stopper'.at = "idle"
    BY <1>1, StopperRests DEF DaemonDies, StopperSteps
  <2> QED BY SMTT(60), <1>1, <2>1, RunNamesAssumption DEF DaemonDies, spendOn
<1>2. CASE reconcileLifecycleRecord
  <2>1. sessionRuntime' \subseteq sessionRuntime
    BY SMTT(60), <1>2 DEF reconcileLifecycleRecord, reconcileRestartResidue,
       reconcileOrphanSessionRuntime
  <2> QED BY SMTT(60), <1>2, <2>1, RunNamesAssumption DEF reconcileLifecycleRecord,
          observeLifecycleForReconciliation, spendOn
<1>3. CASE retryLifecycleReconciliation
  BY SMTT(60), <1>3, RunNamesAssumption DEF retryLifecycleReconciliation, noRunAtWork
<1>4. CASE MachineStops
  BY SMTT(60), <1>4, RunNamesAssumption DEF MachineStops, spendOn
<1> QED BY <1>1, <1>2, <1>3, <1>4

\* What the sessions, their owner records, the machine and a stop have agrees
\* in every state, for an inventory that is wrong at most once: a stop
\* samples it twice.
THEOREM RunAccountHolds == MaxGlitches \in {0, 1} => (RunSpec => []RunAccount)
<1> SUFFICES ASSUME MaxGlitches \in {0, 1} PROVE RunSpec => []RunAccount
  OBVIOUS
<1>1. RunAccount /\ [RunNext]_runVars => RunAccount'
  <2> SUFFICES ASSUME RunAccount, [RunNext]_runVars PROVE RunAccount'
    OBVIOUS
  <2>1. CASE RunNext
    BY <2>1, RunAccountRuns, RunAccountStops, RunAccountRestarts DEF RunNext
  <2>2. CASE UNCHANGED runVars
    BY <2>2 DEF runVars, RunAccount, RunTypes, SessionAt, GuestAt, StaleKeepsOut, StopAt
  <2> QED BY <2>1, <2>2
<1>2. RunInit => RunAccount
  BY SMTT(60), RunAccountInit
<1> QED BY <1>1, <1>2, PTL DEF RunSpec

\* A process in the guest keeps the owner record of its session, whatever
\* siblings, stops and restarted daemons clean up (ApplyRun, finishOwner,
\* recoverStoppedEnvironmentOwners).
THEOREM GuestStaysAccountedFor == MaxGlitches \in {0, 1} => (RunSpec => []GuestIsAccountedFor)
<1>1. RunAccount => GuestIsAccountedFor
  BY DEF RunAccount, GuestAt, GuestIsAccountedFor
<1> QED BY <1>1, RunAccountHolds, PTL

\* A run that has returned has closed its data plane and given its lock up,
\* and an owner record tells of what it left (the deferred calls of ApplyRun).
THEOREM RunsLeaveNothing == MaxGlitches \in {0, 1} => (RunSpec => []RunLeavesNothing)
<1>1. RunAccount => RunLeavesNothing
  BY SMTT(60) DEF RunAccount, RunTypes, SessionAt, RunLeavesNothing, Early, Serving
<1> QED BY <1>1, RunAccountHolds, PTL

\* A session at work finds its environment recorded as running
\* (StartRunEnvironment, finishConcurrentRunEnvironment).
THEOREM RecordsFollowSessions == MaxGlitches \in {0, 1} => (RunSpec => []RecordFollowsSessions)
<1>1. RunAccount => RecordFollowsSessions
  BY DEF RunAccount, RecordFollowsSessions
<1> QED BY <1>1, RunAccountHolds, PTL

\* A record is set to stopped only when the machine is not running
\* (commitObservedEnvironmentStop, reconcileStoppedEnvironmentRecord).
THEOREM StoppedMeansStopped == MaxGlitches \in {0, 1} => (RunSpec => StoppedIsStopped)
<1> SUFFICES ASSUME MaxGlitches \in {0, 1} PROVE RunSpec => StoppedIsStopped
  OBVIOUS
<1>1. RunAccount /\ [RunNext]_runVars
        => [envRecord' = "stopped" /\ envRecord # "stopped" => vmState # "running"]_runVars
  <2> SUFFICES ASSUME RunAccount, RunNext, envRecord' = "stopped", envRecord # "stopped"
               PROVE  vmState # "running"
    OBVIOUS
  <2>1. ASSUME NEW s \in Sessions, Run(s) \/ GuestExits(s)
        PROVE  envRecord' \in {envRecord, "running", "error", "ready"}
    <3>1. CASE StartRunEnvironment(s) \/ FinishOwner(s)
      BY SMTT(60), <3>1 DEF StartRunEnvironment, FinishOwner, finishStatus, finishStatusAlone
    <3>2. CASE \/ WarmActivate(s) \/ Activate(s) \/ StartRunNetworkService(s) \/ RunTransition(s)
               \/ RunWithStreams(s) \/ RunReturns(s) \/ ReturnError(s) \/ Cleanup(s)
               \/ CloseRunDataPlane(s) \/ FinishUnlocked(s) \/ FinishCleaning(s)
      BY <3>2 DEF WarmActivate, Activate, StartRunNetworkService, RunTransition,
         RunWithStreams,
           RunReturns, ReturnError, Cleanup, CloseRunDataPlane, FinishUnlocked, FinishCleaning, fileVars
    <3>3. CASE \/ ReserveAttach(s) \/ LockEnvironment(s) \/ LockRefused(s) \/ BeginRunSession(s)
               \/ openOwner(s) \/ AcquireOwner(s) \/ Promote(s) \/ StartRunDataPlane(s)
               \/ GuestExits(s)
      BY <3>3 DEF GuestExits, ReserveAttach, LockEnvironment, LockRefused,
         BeginRunSession, openOwner,
           AcquireOwner, Promote, StartRunDataPlane, fileVars
    <3> QED BY <2>1, <3>1, <3>2, <3>3 DEF Run
  <2>2. CASE StopSteps
    <3>1. commitObservedEnvironmentStop
      BY <2>2 DEF StopSteps, BeginStop, observeInitial, StopInstance, observeStopped,
           invalidateStoppedEnvironmentRuntime, recoverStoppedEnvironmentOwners, fileVars
    <3> QED BY SMTT(60), <3>1 DEF commitObservedEnvironmentStop, RunAccount, RunTypes, StopAt
  <2>3. CASE reconcileLifecycleRecord
    BY <2>3 DEF reconcileLifecycleRecord, reconcileStoppedEnvironmentRecord,
       observeLifecycleForReconciliation
  <2>4. CASE DaemonDies \/ retryLifecycleReconciliation \/ MachineStops
    BY <2>4 DEF DaemonDies, retryLifecycleReconciliation, MachineStops, fileVars
  <2> QED BY <2>1, <2>2, <2>3, <2>4 DEF RunNext
<1> QED BY <1>1, RunAccountHolds, PTL DEF RunSpec, StoppedIsStopped

(***************************************************************************)
(* The broker.                                                             *)
(***************************************************************************)

\* The connections a handler works on, which the wait group of the broker
\* counts, and the closers that have seen it at zero.
HandlerSteps == {"handling", "acting", "auditing", "answering"}
ConnSteps == {"idle", "dialled", "accepted", "dropped", "done"} \cup HandlerSteps
Handled == {c \in BrokerConns : brokerConn[c].at \in HandlerSteps}
Waited == {k \in BrokerClosers : brokerCloser[k] \in {"flushing", "writing", "closed"}}

\* The types of the variables.
BrokerTypes ==
  /\ DOMAIN brokerConn = BrokerConns
  /\ \A c \in BrokerConns : DOMAIN brokerConn[c] = {"action", "failing", "at", "status"}
  /\ \A c \in BrokerConns : brokerConn[c].at \in ConnSteps
  /\ brokerCloser \in [BrokerClosers -> {"running", "waiting", "flushing", "writing", "closed"}]
  /\ DOMAIN brokerSrv = {"closed", "listening", "serving", "handlers"}
  /\ DOMAIN brokerAudit = {"log", "counted", "drained", "lost"}
  /\ brokerEffects \subseteq BrokerConns

\* The wait group counts the handlers; a closer that got past it finds the
\* broker closed for good; and a count that was taken and not yet written is
\* in the hands of one closer.
BrokerAccount ==
  /\ BrokerTypes
  /\ brokerSrv.handlers = Cardinality(Handled)
  /\ \A k \in BrokerClosers : brokerCloser[k] # "running" => brokerSrv.closed
  /\ Waited # {} => Handled = {}
  /\ \A k \in BrokerClosers : brokerCloser[k] \in {"writing", "closed"} => brokerAudit.counted = {}
  /\ brokerAudit.drained # {} => \E k \in BrokerClosers : brokerCloser[k] = "writing"
  /\ \A k, l \in BrokerClosers : brokerCloser[k] = "writing" /\ brokerCloser[l] = "writing" => k = l
  /\ \A c \in brokerEffects :
       \/ c \in brokerAudit.log \cup brokerAudit.lost \cup brokerAudit.counted \cup brokerAudit.drained
       \/ brokerConn[c].at = "auditing" /\ c \in BrokerConns

\* A connection that goes on to a step leaves the others where they are.
LEMMA ConnMoves ==
  ASSUME BrokerTypes, NEW c \in BrokerConns, NEW step,
         \/ connTo(c, step)
         \/ \E status : answerWithStatus(c, step, status)
  PROVE  /\ DOMAIN brokerConn' = BrokerConns
         /\ \A d \in BrokerConns : DOMAIN brokerConn'[d] = {"action", "failing", "at", "status"}
         /\ brokerConn'[c].at = step
         /\ \A d \in BrokerConns \ {c} : brokerConn'[d] = brokerConn[d]
<1>1. CASE connTo(c, step)
  <2>1. /\ DOMAIN brokerConn = BrokerConns
        /\ \A d \in BrokerConns : DOMAIN brokerConn[d] = {"action", "failing", "at", "status"}
    BY DEF BrokerTypes
  <2>2. brokerConn' = [brokerConn EXCEPT ![c].at = step]
    BY <1>1 DEF connTo
  <2> QED BY SMTT(60), <2>1, <2>2
<1>2. CASE \E status : answerWithStatus(c, step, status)
  <2>1. /\ DOMAIN brokerConn = BrokerConns
        /\ \A d \in BrokerConns : DOMAIN brokerConn[d] = {"action", "failing", "at", "status"}
    BY DEF BrokerTypes
  <2>2. PICK status : brokerConn' = [brokerConn EXCEPT ![c].at = step, ![c].status = status]
    BY <1>2 DEF answerWithStatus
  <2> QED BY SMTT(60), <2>1, <2>2
<1> QED BY <1>1, <1>2

\* What a connection that goes on does to the set the wait group counts.
LEMMA HandledMoves ==
  ASSUME NEW c \in BrokerConns,
         \A d \in BrokerConns \ {c} : brokerConn'[d] = brokerConn[d]
  PROVE  /\ (brokerConn[c].at \in HandlerSteps <=> brokerConn'[c].at \in HandlerSteps)
               => Handled' = Handled
         /\ brokerConn[c].at \notin HandlerSteps /\ brokerConn'[c].at \in HandlerSteps
               => Handled' = Handled \cup {c} /\ c \notin Handled
         /\ brokerConn[c].at \in HandlerSteps /\ brokerConn'[c].at \notin HandlerSteps
               => Handled' = Handled \ {c} /\ c \in Handled
BY SMTT(60) DEF Handled

\* The handlers can be counted.
LEMMA HandledIsFinite == IsFiniteSet(Handled) /\ Cardinality(Handled) \in Nat
<1>1. IsFiniteSet(Handled)
  BY BrokerAssumption, FS_Subset DEF Handled
<1> QED BY <1>1, FS_CardinalityType

\* The broker begins with no connection.
LEMMA BrokerAccountInit == BrokerInit => BrokerAccount
<1> SUFFICES ASSUME BrokerInit PROVE BrokerAccount
  OBVIOUS
<1>1. BrokerTypes
  BY SMTT(60) DEF BrokerInit, BrokerTypes, NoRequest, ConnSteps
<1>2. Handled = {} /\ Waited = {}
  BY SMTT(60) DEF BrokerInit, Handled, Waited, HandlerSteps, NoRequest
<1>3. Cardinality(Handled) = 0
  BY <1>2, FS_EmptySet
<1> QED BY SMTT(60), <1>1, <1>2, <1>3 DEF BrokerInit, BrokerAccount

\* The steps of the connections and of the serve loop.
LEMMA BrokerAccountHandles ==
  ASSUME BrokerAccount, NEW c \in BrokerConns,
         \/ \E a \in BrokerActions : Dial(c, a)
         \/ Accept(c) \/ AdmitConn(c) \/ HandleChecks(c)
         \/ HandleEffect(c) \/ HandleAudit(c) \/ HandleAnswer(c)
  PROVE  BrokerAccount'
<1> USE DEF BrokerAccount
<1>t. BrokerTypes
  OBVIOUS
<1>f. IsFiniteSet(Handled) /\ Cardinality(Handled) \in Nat
  BY HandledIsFinite
<1>1. CASE \E a \in BrokerActions : Dial(c, a)
  <2>1. PICK a, failing :
          /\ connAt(c, "idle")
          /\ brokerConn' = [brokerConn EXCEPT ![c] =
               [action |-> a, failing |-> failing, at |-> "dialled", status |-> "none"]]
          /\ UNCHANGED <<brokerSrv, brokerCloser, brokerAudit, brokerEffects, brokerFaults>>
    BY <1>1 DEF Dial
  <2>2. /\ \A d \in BrokerConns \ {c} : brokerConn'[d] = brokerConn[d]
        /\ brokerConn'[c].at = "dialled" /\ brokerConn[c].at = "idle"
        /\ BrokerTypes'
    BY SMTT(60), <2>1 DEF connAt, BrokerTypes, ConnSteps
  <2>3. Handled' = Handled
    BY SMTT(60), <2>2, HandledMoves DEF HandlerSteps
  <2> QED BY SMTT(60), <2>1, <2>2, <2>3 DEF Waited
<1>2. CASE Accept(c)
  <2>1. /\ brokerConn[c].at = "dialled" /\ brokerConn'[c].at = "accepted"
        /\ \A d \in BrokerConns \ {c} : brokerConn'[d] = brokerConn[d]
        /\ DOMAIN brokerConn' = BrokerConns
        /\ \A d \in BrokerConns : DOMAIN brokerConn'[d] = {"action", "failing", "at", "status"}
    BY ZenonT(60), <1>2, ConnMoves DEF Accept, connAt
  <2>2. Handled' = Handled
    BY SMTT(60), <2>1, HandledMoves DEF HandlerSteps
  <2> QED BY SMTT(60), <1>2, <2>1, <2>2 DEF Accept, Waited, BrokerTypes, ConnSteps,
          HandlerSteps
<1>3. CASE AdmitConn(c)
  <2>1. CASE ~brokerSrv.closed
    <3>1. /\ brokerConn[c].at = "accepted" /\ connTo(c, "handling")
          /\ brokerSrv' = [brokerSrv EXCEPT !.handlers = @ + 1]
          /\ UNCHANGED <<brokerCloser, brokerAudit, brokerEffects, brokerFaults>>
      BY <1>3, <2>1 DEF AdmitConn, connAt
    <3>2. /\ brokerConn'[c].at = "handling"
          /\ \A d \in BrokerConns \ {c} : brokerConn'[d] = brokerConn[d]
          /\ DOMAIN brokerConn' = BrokerConns
          /\ \A d \in BrokerConns : DOMAIN brokerConn'[d] = {"action", "failing", "at", "status"}
      BY <3>1, ConnMoves
    <3>3. BrokerTypes' /\ brokerSrv'.handlers = brokerSrv.handlers + 1
          /\ brokerSrv'.closed = brokerSrv.closed
      BY SMTT(60), <3>1, <3>2 DEF BrokerTypes, ConnSteps, HandlerSteps
    <3>4. Handled' = Handled \cup {c} /\ c \notin Handled
      BY SMTT(60), <3>1, <3>2, HandledMoves DEF HandlerSteps
    <3>5. Cardinality(Handled') = Cardinality(Handled) + 1
      BY <3>4, <1>f, FS_AddElement
    <3>6. Waited = {} /\ Waited' = {}
      BY SMTT(60), <2>1, <3>1 DEF Waited
    <3> QED BY SMTT(60), <3>1, <3>2, <3>3, <3>5, <3>6
  <2>2. CASE brokerSrv.closed
    <3>1. /\ brokerConn[c].at = "accepted" /\ connTo(c, "dropped")
          /\ brokerSrv' = [brokerSrv EXCEPT !.serving = FALSE]
          /\ UNCHANGED <<brokerCloser, brokerAudit, brokerEffects, brokerFaults>>
      BY <1>3, <2>2 DEF AdmitConn, connAt
    <3>2. /\ brokerConn'[c].at = "dropped"
          /\ \A d \in BrokerConns \ {c} : brokerConn'[d] = brokerConn[d]
          /\ DOMAIN brokerConn' = BrokerConns
          /\ \A d \in BrokerConns : DOMAIN brokerConn'[d] = {"action", "failing", "at", "status"}
      BY <3>1, ConnMoves
    <3>3. BrokerTypes' /\ brokerSrv'.handlers = brokerSrv.handlers
          /\ brokerSrv'.closed = brokerSrv.closed
      BY SMTT(60), <3>1, <3>2 DEF BrokerTypes, ConnSteps, HandlerSteps
    <3>4. Handled' = Handled
      BY SMTT(60), <3>1, <3>2, HandledMoves DEF HandlerSteps
    <3> QED BY SMTT(60), <3>1, <3>2, <3>3, <3>4 DEF Waited
  <2> QED BY <2>1, <2>2
<1>4. CASE HandleChecks(c)
  <2>1. /\ brokerConn[c].at = "handling"
        /\ \E step \in {"answering", "auditing", "acting"} :
             connTo(c, step) \/ \E status : answerWithStatus(c, step, status)
        /\ UNCHANGED <<brokerSrv, brokerCloser, brokerAudit, brokerEffects, brokerFaults>>
    BY <1>4 DEF HandleChecks, connAt
  <2>2. PICK step \in {"answering", "auditing", "acting"} :
          connTo(c, step) \/ \E status : answerWithStatus(c, step, status)
    BY <2>1
  <2>3. /\ brokerConn'[c].at = step
        /\ \A d \in BrokerConns \ {c} : brokerConn'[d] = brokerConn[d]
        /\ DOMAIN brokerConn' = BrokerConns
        /\ \A d \in BrokerConns : DOMAIN brokerConn'[d] = {"action", "failing", "at", "status"}
    BY <2>2, ConnMoves
  <2>4. Handled' = Handled
    BY SMTT(60), <2>1, <2>2, <2>3, HandledMoves DEF HandlerSteps
  <2> QED BY SMTT(60), <2>1, <2>3, <2>4 DEF Waited, BrokerTypes, ConnSteps, HandlerSteps
<1>5. CASE HandleEffect(c)
  <2>1. /\ brokerConn[c].at = "acting" /\ brokerEffects' = brokerEffects \cup {c}
        /\ answerWithStatus(c, "auditing", "ok")
        /\ UNCHANGED <<brokerSrv, brokerCloser, brokerAudit, brokerFaults>>
    BY <1>5 DEF HandleEffect, connAt
  <2>2. /\ brokerConn'[c].at = "auditing"
        /\ \A d \in BrokerConns \ {c} : brokerConn'[d] = brokerConn[d]
        /\ DOMAIN brokerConn' = BrokerConns
        /\ \A d \in BrokerConns : DOMAIN brokerConn'[d] = {"action", "failing", "at", "status"}
    BY ZenonT(60), <2>1, ConnMoves
  <2>3. Handled' = Handled
    BY SMTT(60), <2>1, <2>2, HandledMoves DEF HandlerSteps
  <2> QED BY SMTT(60), <2>1, <2>2, <2>3 DEF Waited, BrokerTypes, ConnSteps, HandlerSteps
<1>6. CASE HandleAudit(c)
  <2>1. /\ brokerConn[c].at = "auditing" /\ connTo(c, "answering")
        /\ \/ brokerAudit' = [brokerAudit EXCEPT !.counted = @ \cup {c}]
           \/ brokerAudit' = [brokerAudit EXCEPT !.log = @ \cup {c}]
           \/ brokerAudit' = [brokerAudit EXCEPT !.lost = @ \cup {c}]
        /\ UNCHANGED <<brokerSrv, brokerCloser, brokerEffects>>
    BY <1>6 DEF HandleAudit, connAt
  <2>2. /\ brokerConn'[c].at = "answering"
        /\ \A d \in BrokerConns \ {c} : brokerConn'[d] = brokerConn[d]
        /\ DOMAIN brokerConn' = BrokerConns
        /\ \A d \in BrokerConns : DOMAIN brokerConn'[d] = {"action", "failing", "at", "status"}
    BY <2>1, ConnMoves
  <2>3. Handled' = Handled /\ c \in Handled
    BY SMTT(60), <2>1, <2>2, HandledMoves DEF HandlerSteps, Handled
  <2>4. Waited = {} /\ Waited' = {}
    BY SMTT(60), <2>1, <2>3 DEF Waited
  <2>5. BrokerTypes' /\ brokerAudit'.drained = brokerAudit.drained
        /\ brokerAudit.log \subseteq brokerAudit'.log
        /\ brokerAudit.lost \subseteq brokerAudit'.lost
        /\ brokerAudit.counted \subseteq brokerAudit'.counted
        /\ c \in brokerAudit'.log \cup brokerAudit'.lost \cup brokerAudit'.counted
    BY SMTT(60), <2>1, <2>2 DEF BrokerTypes, ConnSteps, HandlerSteps
  <2> QED BY SMTT(60), <2>1, <2>2, <2>3, <2>4, <2>5 DEF Waited
<1>7. CASE HandleAnswer(c)
  <2>1. /\ brokerConn[c].at = "answering" /\ connTo(c, "done")
        /\ brokerSrv' = [brokerSrv EXCEPT !.handlers = @ - 1]
        /\ UNCHANGED <<brokerCloser, brokerAudit, brokerEffects, brokerFaults>>
    BY <1>7 DEF HandleAnswer, connAt
  <2>2. /\ brokerConn'[c].at = "done"
        /\ \A d \in BrokerConns \ {c} : brokerConn'[d] = brokerConn[d]
        /\ DOMAIN brokerConn' = BrokerConns
        /\ \A d \in BrokerConns : DOMAIN brokerConn'[d] = {"action", "failing", "at", "status"}
    BY <2>1, ConnMoves
  <2>3. BrokerTypes' /\ brokerSrv'.handlers = brokerSrv.handlers - 1
        /\ brokerSrv'.closed = brokerSrv.closed
    BY SMTT(60), <2>1, <2>2 DEF BrokerTypes, ConnSteps, HandlerSteps
  <2>4. Handled' = Handled \ {c} /\ c \in Handled
    BY SMTT(60), <2>1, <2>2, HandledMoves DEF HandlerSteps
  <2>5. Cardinality(Handled') = Cardinality(Handled) - 1
    BY <2>4, <1>f, FS_RemoveElement
  <2> QED BY SMTT(60), <2>1, <2>2, <2>3, <2>4, <2>5 DEF Waited
<1> QED BY <1>1, <1>2, <1>3, <1>4, <1>5, <1>6, <1>7

\* The steps of the closers.
LEMMA BrokerAccountCloses ==
  ASSUME BrokerAccount,
         \/ AcceptFails
         \/ \E k \in BrokerClosers : CloseOnce(k) \/ CloseWaits(k) \/ CloseDrains(k) \/ CloseFlushes(k)
  PROVE  BrokerAccount'
<1> USE DEF BrokerAccount
<1>f. IsFiniteSet(Handled) /\ Cardinality(Handled) \in Nat
  BY HandledIsFinite
<1>1. CASE AcceptFails
  BY SMTT(60), <1>1 DEF AcceptFails, BrokerTypes, Handled, Waited
<1>2. ASSUME NEW k \in BrokerClosers, CloseOnce(k)
      PROVE  BrokerAccount'
  <2>1. /\ BrokerTypes'
        /\ \A c \in BrokerConns : \/ brokerConn'[c] = brokerConn[c]
                                 \/ /\ brokerConn[c].at = "dialled"
                                    /\ brokerConn'[c].at = "dropped"
        /\ brokerSrv'.closed /\ brokerSrv'.handlers = brokerSrv.handlers
    BY SMTT(60), <1>2 DEF CloseOnce, connAt, BrokerTypes, ConnSteps
  <2>2. Handled' = Handled
    BY SMTT(60), <2>1 DEF Handled, HandlerSteps
  <2>3. Waited' = Waited
    BY SMTT(60), <1>2 DEF CloseOnce, Waited, BrokerTypes
  <2> QED BY SMTT(60), <1>2, <2>1, <2>2, <2>3 DEF CloseOnce, BrokerTypes
<1>3. ASSUME NEW k \in BrokerClosers, CloseWaits(k)
      PROVE  BrokerAccount'
  <2>1. Handled = {}
    BY <1>3, <1>f, FS_EmptySet DEF CloseWaits
  <2>2. Handled' = Handled
    BY <1>3 DEF CloseWaits, Handled
  <2>3. /\ brokerCloser[k] = "waiting"
        /\ brokerCloser' = [brokerCloser EXCEPT ![k] = "flushing"]
        /\ UNCHANGED <<brokerSrv, brokerConn, brokerAudit, brokerEffects>>
    BY <1>3 DEF CloseWaits
  <2>4. \A l \in BrokerClosers : IF l = k THEN brokerCloser'[l] = "flushing"
                                         ELSE brokerCloser'[l] = brokerCloser[l]
    BY SMTT(60), <2>3 DEF BrokerTypes
  <2>5. BrokerTypes'
    BY SMTT(60), <2>3 DEF BrokerTypes
  <2>6. brokerAudit.drained # {} => \E l \in BrokerClosers : brokerCloser'[l] = "writing"
    BY SMTT(60), <2>3, <2>4
  <2> QED BY SMTT(60), <2>1, <2>2, <2>3, <2>4, <2>5, <2>6
<1>4. ASSUME NEW k \in BrokerClosers, CloseDrains(k)
      PROVE  BrokerAccount'
  <2>1. Handled' = Handled /\ Handled = {}
    BY SMTT(60), <1>4 DEF CloseDrains, Handled, Waited
  <2>2. CASE brokerAudit.counted # {}
    <3>1. /\ BrokerTypes' /\ brokerAudit'.counted = {}
          /\ brokerAudit'.drained = brokerAudit.counted
          /\ brokerAudit'.log = brokerAudit.log /\ brokerAudit'.lost = brokerAudit.lost
          /\ brokerCloser' = [brokerCloser EXCEPT ![k] = "writing"]
      BY SMTT(60), <1>4, <2>2 DEF CloseDrains, BrokerTypes
    <3>2. brokerAudit.drained = {}
      BY SMTT(60), <2>2
    <3>3. \A l \in BrokerClosers : brokerCloser[l] # "writing"
      BY SMTT(60), <2>2
    <3> QED BY SMTT(60), <1>4, <2>1, <2>2, <3>1, <3>2, <3>3 DEF CloseDrains, BrokerTypes
  <2>3. CASE brokerAudit.counted = {}
    <3>1. /\ BrokerTypes' /\ brokerAudit'.counted = {}
          /\ brokerAudit'.drained = brokerAudit.drained
          /\ brokerAudit'.log = brokerAudit.log /\ brokerAudit'.lost = brokerAudit.lost
          /\ brokerCloser' = [brokerCloser EXCEPT ![k] = "closed"]
      BY SMTT(60), <1>4, <2>3 DEF CloseDrains, BrokerTypes
    <3> QED BY SMTT(60), <1>4, <2>1, <2>3, <3>1 DEF CloseDrains, BrokerTypes
  <2> QED BY <2>2, <2>3
<1>5. ASSUME NEW k \in BrokerClosers, CloseFlushes(k)
      PROVE  BrokerAccount'
  <2>1. /\ brokerCloser[k] = "writing"
        /\ brokerCloser' = [brokerCloser EXCEPT ![k] = "closed"]
        /\ UNCHANGED <<brokerSrv, brokerConn, brokerEffects>>
    BY <1>5 DEF CloseFlushes
  <2>2. PICK rest \in SUBSET brokerAudit.drained :
          brokerAudit' = [brokerAudit EXCEPT !.drained = {}, !.lost = @ \cup rest,
                                             !.log = @ \cup (brokerAudit.drained \ rest)]
    BY <1>5 DEF CloseFlushes
  <2>3. Handled' = Handled /\ Handled = {}
    BY SMTT(60), <2>1 DEF Handled, Waited
  <2>4. DOMAIN brokerAudit = {"log", "counted", "drained", "lost"}
    BY DEF BrokerTypes
  <2>5. /\ DOMAIN brokerAudit' = {"log", "counted", "drained", "lost"}
        /\ brokerAudit'.drained = {} /\ brokerAudit'.counted = brokerAudit.counted
        /\ brokerAudit'.log = brokerAudit.log \cup (brokerAudit.drained \ rest)
        /\ brokerAudit'.lost = brokerAudit.lost \cup rest
    BY ONLY SMTT(60), <2>2, <2>4
  <2>6. BrokerTypes'
    BY SMTT(60), <2>1, <2>5 DEF BrokerTypes
  <2>7. \A l \in BrokerClosers : IF l = k THEN brokerCloser'[l] = "closed"
                                         ELSE brokerCloser'[l] = brokerCloser[l]
    BY SMTT(60), <2>1 DEF BrokerTypes
  <2>8. \A c \in brokerEffects :
          \/ c \in brokerAudit'.log \cup brokerAudit'.lost \cup brokerAudit'.counted
          \/ brokerConn[c].at = "auditing" /\ c \in BrokerConns
    BY SMTT(60), <2>5
  <2> QED BY SMTT(60), <2>1, <2>3, <2>5, <2>6, <2>7, <2>8
<1> QED BY <1>1, <1>2, <1>3, <1>4, <1>5

\* The wait group counts the handlers, and a closer past it finds none left
\* (Close of the broker).
THEOREM BrokerAccountHolds == BrokerSpec => []BrokerAccount
<1>1. BrokerAccount /\ [BrokerNext]_brokerVars => BrokerAccount'
  <2> SUFFICES ASSUME BrokerAccount, [BrokerNext]_brokerVars PROVE BrokerAccount'
    OBVIOUS
  <2>1. CASE UNCHANGED brokerVars
    BY <2>1 DEF brokerVars, BrokerAccount, BrokerTypes, Handled, Waited
  <2>2. CASE BrokerNext
    BY <2>2, BrokerAccountHandles, BrokerAccountCloses DEF BrokerNext
  <2> QED BY <2>1, <2>2
<1> QED BY BrokerAccountInit, <1>1, PTL DEF BrokerSpec

\* A broker that is closed has no handler at work, and once every closer has
\* returned the audit log tells of every effect, or its loss was met with an
\* error (Close, flushAudit).
THEOREM ClosedStaysQuiet == BrokerSpec => []ClosedIsQuiet
<1>1. BrokerAccount => ClosedIsQuiet
  <2> SUFFICES ASSUME BrokerAccount PROVE ClosedIsQuiet
    OBVIOUS
  <2>1. ASSUME NEW k \in BrokerClosers, brokerCloser[k] = "closed", NEW c \in BrokerConns
        PROVE  brokerConn[c].at \in {"idle", "dialled", "accepted", "dropped", "done"}
    <3>1. brokerConn[c].at \in ConnSteps /\ c \notin Handled
      BY <2>1 DEF BrokerAccount, BrokerTypes, Waited
    <3> QED BY <3>1 DEF ConnSteps, Handled
  <2>2. ASSUME \A k \in BrokerClosers : brokerCloser[k] = "closed"
        PROVE  brokerEffects \subseteq brokerAudit.log \cup brokerAudit.lost
    <3>1. PICK k \in BrokerClosers : brokerCloser[k] = "closed"
      BY <2>2, BrokerAssumption
    <3>2. Handled = {} /\ brokerAudit.counted = {} /\ brokerAudit.drained = {}
      BY SMTT(60), <2>2, <3>1 DEF BrokerAccount, Waited
    <3> QED BY SMTT(60), <3>2 DEF BrokerAccount, Handled, HandlerSteps
  <2> QED BY <2>1, <2>2 DEF ClosedIsQuiet
<1> QED BY BrokerAccountHolds, <1>1, PTL

(***************************************************************************)
(* The network service.  RunStartsMediated rests on an account of the      *)
(* start in progress by its step (StepFits) and of the service that        *)
(* state.json records (Carries, Answers).                                  *)
(***************************************************************************)
ServiceFields == {"status", "plan", "gateway", "boot"}
GuestFields == {"boot", "device", "proxy", "route", "resolv", "stub", "blocked", "pids", "saved"}
GatewayFields == {"id", "route", "lock", "ids"}
SetupFields == {"run", "at", "plan", "route", "action", "previous", "discards", "activated", "keeps",
                "before", "next", "attempts"}
PlanFields == {"mode", "resolver", "secret"}

IsPlan(p) == DOMAIN p = PlanFields /\ (p = direct \/ (p.mode = "tun2socks" /\ p.resolver # 0))

\* A recorded service names a gateway of this daemon or of an earlier one.
IsService(s, ids) ==
  /\ DOMAIN s = ServiceFields /\ IsPlan(s.plan) /\ s.gateway \in Nat /\ s.gateway <= ids
  /\ s.status = "ready" => s.gateway # 0

NetShape ==
  /\ DOMAIN netGuest = GuestFields /\ DOMAIN netGateway = GatewayFields /\ DOMAIN setup = SetupFields
  /\ DOMAIN runner = NetRuns
  /\ \A r \in NetRuns : DOMAIN runner[r] = {"at", "plan"} /\ IsPlan(runner[r].plan)
  /\ IsPlan(netGateway.route) /\ IsPlan(setup.plan) /\ IsPlan(setup.route) /\ IsPlan(setup.before)
  /\ netGateway.ids \in Nat /\ netGateway.id \in Nat /\ netGateway.id <= netGateway.ids
  /\ IsService(service, netGateway.ids) /\ IsService(setup.previous, netGateway.ids)

\* A service that is ready with the proxy has a route of the gateway that is
\* not direct, when it is the gateway it names ...
Carries(s, id, route) ==
  s.status = "ready" /\ s.plan.mode = "tun2socks" /\ s.gateway = id => route.mode = "tun2socks"
\* ... and the stub, when it runs, asks its resolver.
Answers(s, stub) ==
  s.status = "ready" /\ s.plan.mode = "tun2socks" => stub \in {0, s.plan.resolver}

\* The start in progress: it holds the lock of a gateway that is there, and
\* the route is the one before or, once activated, that of the plan.
Holds ==
  /\ setup.run \in NetRuns /\ netGateway.lock = setup.run /\ netGateway.id # 0
  /\ runner[setup.run].at = "preparing"
  /\ setup.route.mode = setup.plan.mode
  /\ setup.activated # TRUE => netGateway.route = setup.before
  /\ setup.activated = TRUE => netGateway.route.mode = setup.plan.mode
  /\ setup.keeps => setup.action = "disable-proxy"
  /\ Carries(service, netGateway.id, setup.before)

Rebuilding == {"start", "enable-proxy", "disable-proxy", "switch-dns", "restart-proxy"}
NetActions == {"reuse", "switch-gateway"} \cup Rebuilding

\* What the chosen action says about the service that was found.
ActionFits ==
  /\ setup.action \in {"none"} \cup NetActions
  /\ setup.action = "switch-gateway" =>
       /\ Carries(setup.previous, netGateway.id, setup.before) /\ Answers(setup.previous, netGuest.stub)
       /\ setup.previous.plan.mode = setup.plan.mode
       /\ setup.previous.plan.resolver = setup.plan.resolver
  /\ setup.action \in NetActions \ {"start"} => setup.previous.status = "ready"
  /\ setup.action \in Rebuilding => setup.discards = TRUE
  /\ setup.action = "start" => service.status = "starting" /\ setup.previous.status = "none"
  /\ setup.action = "reuse" =>
       /\ service.status = "ready" /\ service.gateway = netGateway.id
       /\ service.plan.mode = setup.plan.mode /\ service.plan.resolver = setup.plan.resolver
  /\ setup.action \in {"switch-dns", "restart-proxy", "enable-proxy"} => setup.plan.mode = "tun2socks"
  /\ setup.action = "disable-proxy" => setup.plan.mode # "tun2socks"

BootSteps == {"boot-heal", "boot-heal-device", "boot-device", "boot-route", "boot-dns"}
Failures == {"failed", "broken", "restored"}

\* The guest a run may start in.
Provides(mode, resolver, g) ==
  /\ mode = "tun2socks" => /\ g.device /\ g.route = "tun" /\ g.proxy
                           /\ g.stub = resolver /\ g.resolv = "stub"
  /\ mode # "tun2socks" => ~g.device /\ g.route = "direct"

\* Where the start stands.
StepFits(at, action, mode, resolver, activated, status, g) ==
  /\ at = "plan" => action = "none" /\ activated # TRUE
  /\ at \notin {"plan"} \cup Failures => action \in NetActions
  /\ at = "start" => activated # TRUE
  /\ action = "switch-gateway" => at \in {"start", "verify", "activate-last", "finish", "failed",
       "broken"}
  /\ action \in NetActions \ {"reuse", "start"} => at \in {"start", "failed"} \/ status = "switching"
  /\ at = "verify" => action \in {"reuse", "switch-gateway", "start", "switch-dns"}
  /\ at = "verify" /\ action = "start" => mode # "tun2socks"
  /\ at = "verify" /\ action = "switch-dns" => g.stub = resolver
  /\ at = "reconfigure" => action = "switch-dns"
  /\ at = "restored" => action = "switch-dns"
  /\ at = "activate" => /\ action \in {"reuse"} \cup Rebuilding
                        /\ action # "disable-proxy" => mode = "tun2socks"
  /\ at \in {"stop", "verify-direct"} \cup BootSteps => activated = TRUE
  /\ at = "stop" => action \in {"disable-proxy", "restart-proxy"}
  /\ at = "verify-direct" => action = "disable-proxy"
  /\ at \in BootSteps => mode = "tun2socks"
  /\ at \in {"boot-route", "boot-dns"} => g.device /\ g.proxy
  /\ at = "boot-dns" => g.route = "tun"
  /\ at \in {"activate-last", "finish"} => Provides(mode, resolver, g)

stepFits ==
  StepFits(setup.at, setup.action, setup.plan.mode, setup.plan.resolver, setup.activated, service.status,
    netGuest)

NetAccount ==
  /\ NetShape
  /\ Carries(service, netGateway.id, netGateway.route) /\ Answers(service, netGuest.stub)
  /\ setup.at # "none" => Holds /\ ActionFits /\ stepFits
  /\ setup.at = "finish" /\ setup.plan.mode = "tun2socks" => netGateway.route.mode = "tun2socks"

-----------------------------------------------------------------------------
LEMMA PlanFacts ==
  /\ IsPlan(direct) /\ direct.mode # "tun2socks"
  /\ \A p : IsPlan(p) => (p = direct <=> p.mode # "tun2socks")
  /\ \A p : IsPlan(p) /\ p.mode = "tun2socks" => p.resolver # 0
<1>1. DOMAIN direct = PlanFields /\ direct.mode = "direct"
  BY SMTT(60) DEF direct, PlanFields
<1> QED BY <1>1 DEF IsPlan

LEMMA ServiceFacts ==
  ASSUME NEW ids \in Nat
  PROVE  IsService(noService, ids) /\ noService.status = "none"
<1>1. /\ DOMAIN noService = ServiceFields /\ noService.plan = direct /\ noService.status = "none"
      /\ noService.gateway \in Nat /\ noService.gateway <= ids
  BY SMTT(60) DEF noService, ServiceFields
<1> QED BY <1>1, PlanFacts DEF IsService

\* Every field of the start but the step.
SetupElse ==
  /\ DOMAIN setup' = SetupFields /\ setup'.run = setup.run /\ setup'.plan = setup.plan
       /\ setup'.route = setup.route
  /\ setup'.action = setup.action /\ setup'.previous = setup.previous /\ setup'.discards = setup.discards
  /\ setup'.activated = setup.activated /\ setup'.keeps = setup.keeps /\ setup'.before = setup.before

LEMMA Stepped ==
  ASSUME NetShape, NEW to, setupAt(to)
  PROVE  SetupElse /\ setup'.at = to
<1>1. DOMAIN setup = SetupFields /\ setup' = [setup EXCEPT !.at = to]
  BY DEF NetShape, setupAt
<1> QED BY SMTT(60), <1>1 DEF SetupElse, SetupFields

LEMMA NetStands ==
  ASSUME NetAccount
  PROVE  /\ NetShape /\ Carries(service, netGateway.id, netGateway.route)
              /\ Answers(service, netGuest.stub)
         /\ setup.at # "none" =>
              /\ Holds /\ ActionFits
              /\ StepFits(setup.at, setup.action, setup.plan.mode, setup.plan.resolver, setup.activated,
                          service.status, netGuest)
         /\ setup.at = "finish" /\ setup.plan.mode = "tun2socks" => netGateway.route.mode = "tun2socks"
  BY DEF NetAccount, stepFits

\* A step of the start that changes at most the guest.
LEMMA Onward ==
  ASSUME NetAccount, setup.at # "none", NEW to, SetupElse, setup'.at = to, to # "none",
         UNCHANGED <<service, netGateway, runner>>, NEW g, netGuest' = g, DOMAIN g = GuestFields,
         Answers(service, g.stub),
         setup.action = "switch-gateway" => Answers(setup.previous, g.stub),
         StepFits(to, setup.action, setup.plan.mode, setup.plan.resolver, setup.activated,
           service.status, g),
         to = "finish" /\ setup.plan.mode = "tun2socks" => netGateway.route.mode = "tun2socks"
  PROVE  NetAccount'
<1>1. NetShape /\ Holds /\ ActionFits /\ Carries(service, netGateway.id, netGateway.route)
  BY NetStands
<1>2. NetShape'
  BY <1>1 DEF NetShape, SetupElse
<1>3. Holds'
  BY <1>1 DEF Holds, SetupElse, Carries
<1>4. ActionFits'
  BY ZenonT(60), <1>1 DEF ActionFits, SetupElse, Carries, Answers
<1>5. stepFits'
  BY DEF stepFits, SetupElse
<1>6. Carries(service, netGateway.id, netGateway.route)' /\ Answers(service, netGuest.stub)'
  BY <1>1 DEF Carries, Answers
<1>7. setup'.at = "finish" /\ setup'.plan.mode = "tun2socks" => netGateway'.route.mode = "tun2socks"
  BY DEF SetupElse
<1> QED BY <1>2, <1>3, <1>4, <1>5, <1>6, <1>7 DEF NetAccount

\* A step that leaves the guest alone.
LEMMA OnwardOnly ==
  ASSUME NetAccount, setup.at # "none", NEW to, setupAt(to), to # "none",
         UNCHANGED <<service, netGuest, netGateway, runner>>,
         StepFits(to, setup.action, setup.plan.mode, setup.plan.resolver, setup.activated,
           service.status, netGuest),
         to = "finish" /\ setup.plan.mode = "tun2socks" => netGateway.route.mode = "tun2socks"
  PROVE  NetAccount'
<1>1. NetShape /\ ActionFits /\ Answers(service, netGuest.stub)
  BY NetStands
<1>2. SetupElse /\ setup'.at = to
  BY <1>1, Stepped
<1>3. DOMAIN netGuest = GuestFields
        /\ (setup.action = "switch-gateway" => Answers(setup.previous, netGuest.stub))
  BY <1>1 DEF NetShape, ActionFits
<1> QED BY <1>1, <1>2, <1>3, Onward

\* Once a transition of the service is recorded it is not ready.
LEMMA Recorded ==
  ASSUME NetAccount, setup.at \notin {"none", "plan", "start"} \cup Failures, setup.action # "reuse"
  PROVE  service.status # "ready"
<1>1. ActionFits
  BY NetStands
<1>2. StepFits(setup.at, setup.action, setup.plan.mode, setup.plan.resolver, setup.activated,
        service.status, netGuest)
  BY NetStands
<1>3. setup.action \in NetActions /\ setup.at # "failed"
  BY <1>2 DEF StepFits, Failures
<1>4. CASE setup.action = "start"
  BY <1>1, <1>4 DEF ActionFits
<1>5. CASE setup.action # "start"
  BY <1>2, <1>3, <1>5 DEF StepFits
<1> QED BY <1>4, <1>5

\* Which fields of the guest the scripts write.
LEMMA Cleanings ==
  ASSUME NEW g, DOMAIN g = GuestFields
  PROVE  /\ DOMAIN dnsCleaned(g) = GuestFields /\ dnsCleaned(g).stub \in {0, g.stub}
         /\ DOMAIN deviceCleaned(g) = GuestFields /\ deviceCleaned(g).stub = g.stub
<1>1. DOMAIN dnsCleaned(g) = GuestFields /\ dnsCleaned(g).stub = IF g.pids THEN 0 ELSE g.stub
  BY SMTT(60) DEF dnsCleaned, GuestFields
<1>2. DOMAIN deviceCleaned(g) = GuestFields /\ deviceCleaned(g).stub = g.stub
  BY SMTT(60) DEF deviceCleaned, GuestFields
<1> QED BY <1>1, <1>2

LEMMA Fewer ==
  ASSUME NEW s, NEW stub, NEW after \in {0, stub}, Answers(s, stub)
  PROVE  Answers(s, after)
  BY DEF Answers

\* A step of the start inside the guest, which leaves the service and what
\* the start found alone; the stub is stopped, kept or asks the resolver of
\* the plan.
LEMMA GuestStep ==
  ASSUME NetAccount, setup.at # "none", NEW to, setupAt(to), to # "none",
         UNCHANGED <<service, netGateway, runner>>, NEW g, netGuest' = g, DOMAIN g = GuestFields,
         setup.at \notin {"plan", "start"} \cup Failures,
         setup.action # "switch-gateway",
         \/ g.stub \in {0, netGuest.stub}
         \/ setup.action = "reuse" => g.stub = setup.plan.resolver,
         StepFits(to, setup.action, setup.plan.mode, setup.plan.resolver, setup.activated,
           service.status, g),
         to = "finish" /\ setup.plan.mode = "tun2socks" => netGateway.route.mode = "tun2socks"
  PROVE  NetAccount'
<1>1. NetShape /\ ActionFits /\ Answers(service, netGuest.stub)
  BY NetStands
<1>2. SetupElse /\ setup'.at = to
  BY <1>1, Stepped
<1>3. Answers(service, g.stub)
  <2>1. CASE g.stub \in {0, netGuest.stub}
    BY <1>1, <2>1, Fewer
  <2>2. CASE setup.action # "reuse"
    <3>1. service.status # "ready"
      BY <2>2, Recorded
    <3> QED BY <3>1 DEF Answers
  <2>3. CASE setup.action = "reuse" /\ g.stub = setup.plan.resolver
    BY <1>1, <2>3 DEF ActionFits, Answers
  <2> QED BY <2>1, <2>2, <2>3
<1> QED BY <1>2, <1>3, Onward

\* What holds at a step of the guest scripts.
LEMMA Booting ==
  ASSUME NetAccount, setup.at \in BootSteps
  PROVE  /\ setup.at # "none" /\ setup.at \notin {"plan", "start"} \cup Failures
         /\ setup.action \in NetActions /\ setup.action # "switch-gateway" /\ setup.activated = TRUE
         /\ setup.plan.mode = "tun2socks" /\ netGateway.route.mode = "tun2socks"
         /\ setup.action \in NetActions \ {"reuse", "start"} => service.status = "switching"
         /\ DOMAIN netGuest = GuestFields
<1>1. setup.at \notin {"none", "plan", "start"} \cup Failures
  BY DEF BootSteps, Failures
<1>2. /\ NetShape /\ Holds
      /\ StepFits(setup.at, setup.action, setup.plan.mode, setup.plan.resolver, setup.activated,
           service.status, netGuest)
  BY <1>1, NetStands
<1>3. setup.action \in NetActions /\ setup.activated = TRUE /\ setup.plan.mode = "tun2socks"
  BY <1>1, <1>2 DEF StepFits
<1>4. setup.action # "switch-gateway"
  BY <1>2 DEF StepFits, BootSteps
<1>5. setup.action \in NetActions \ {"reuse", "start"} => service.status = "switching"
  BY <1>1, <1>2 DEF StepFits, Failures
<1>6. netGateway.route.mode = "tun2socks"
  BY <1>2, <1>3 DEF Holds
<1> QED BY <1>1, <1>2, <1>3, <1>4, <1>5, <1>6 DEF NetShape

LEMMA BootFits ==
  ASSUME NEW action \in NetActions, NEW mode, mode = "tun2socks", NEW resolver, NEW status, NEW g,
         action # "switch-gateway",
         action \in NetActions \ {"reuse", "start"} => status = "switching"
  PROVE  /\ StepFits("boot-heal", action, mode, resolver, TRUE, status, g)
         /\ StepFits("boot-heal-device", action, mode, resolver, TRUE, status, g)
         /\ StepFits("boot-device", action, mode, resolver, TRUE, status, g)
         /\ StepFits("broken", action, mode, resolver, TRUE, status, g)
         /\ g.device /\ g.proxy => StepFits("boot-route", action, mode, resolver, TRUE, status, g)
         /\ g.device /\ g.proxy /\ g.route = "tun" =>
              StepFits("boot-dns", action, mode, resolver, TRUE, status, g)
         /\ Provides(mode, resolver, g) => StepFits("finish", action, mode, resolver, TRUE, status, g)
<1>1. StepFits("boot-heal", action, mode, resolver, TRUE, status, g)
  BY DEF StepFits, BootSteps, Failures
<1>2. StepFits("boot-heal-device", action, mode, resolver, TRUE, status, g)
  BY DEF StepFits, BootSteps, Failures
<1>3. StepFits("boot-device", action, mode, resolver, TRUE, status, g)
  BY DEF StepFits, BootSteps, Failures
<1>4. StepFits("broken", action, mode, resolver, TRUE, status, g)
  BY DEF StepFits, BootSteps, Failures
<1>5. g.device /\ g.proxy => StepFits("boot-route", action, mode, resolver, TRUE, status, g)
  BY DEF StepFits, BootSteps, Failures
<1>6. g.device /\ g.proxy /\ g.route = "tun" => StepFits("boot-dns", action, mode, resolver, TRUE,
        status, g)
  BY DEF StepFits, BootSteps, Failures
<1>7. Provides(mode, resolver, g) => StepFits("finish", action, mode, resolver, TRUE, status, g)
  BY DEF StepFits, BootSteps, Failures
<1> QED BY <1>1, <1>2, <1>3, <1>4, <1>5, <1>6, <1>7

LEMMA BootStep ==
  ASSUME NetAccount, setup.at \in BootSteps, UNCHANGED <<service, netGateway, runner>>,
         NEW g, netGuest' = g, DOMAIN g = GuestFields, g.stub \in {0, netGuest.stub, setup.plan.resolver},
         \/ setupAt("boot-heal-device") \/ setupAt("boot-device") \/ setupAt("broken")
         \/ setupAt("boot-route") /\ g.device /\ g.proxy
         \/ setupAt("boot-dns") /\ g.device /\ g.proxy /\ g.route = "tun"
         \/ setupAt("finish") /\ Provides(setup.plan.mode, setup.plan.resolver, g)
  PROVE  NetAccount'
<1>1. /\ setup.at # "none" /\ setup.at \notin {"plan", "start"} \cup Failures
      /\ setup.action \in NetActions /\ setup.action # "switch-gateway" /\ setup.activated = TRUE
      /\ setup.plan.mode = "tun2socks" /\ netGateway.route.mode = "tun2socks"
      /\ setup.action \in NetActions \ {"reuse", "start"} => service.status = "switching"
  BY Booting
<1>2. ASSUME NEW to, setupAt(to), to # "none",
             StepFits(to, setup.action, setup.plan.mode, setup.plan.resolver, TRUE, service.status, g)
      PROVE  NetAccount'
  <2>1. StepFits(to, setup.action, setup.plan.mode, setup.plan.resolver, setup.activated, service.status,
          g)
    BY <1>1, <1>2
  <2> QED BY <1>1, <1>2, <2>1, GuestStep
<1>3. CASE setupAt("boot-heal-device")
  BY <1>1, <1>2, <1>3, BootFits
<1>4. CASE setupAt("boot-device")
  BY <1>1, <1>2, <1>4, BootFits
<1>5. CASE setupAt("broken")
  BY <1>1, <1>2, <1>5, BootFits
<1>6. CASE setupAt("boot-route") /\ g.device /\ g.proxy
  BY <1>1, <1>2, <1>6, BootFits
<1>7. CASE setupAt("boot-dns") /\ g.device /\ g.proxy /\ g.route = "tun"
  BY <1>1, <1>2, <1>7, BootFits
<1>8. CASE setupAt("finish") /\ Provides(setup.plan.mode, setup.plan.resolver, g)
  BY <1>1, <1>2, <1>8, BootFits
<1> QED BY <1>3, <1>4, <1>5, <1>6, <1>7, <1>8

-----------------------------------------------------------------------------
LEMMA HealGuestKeeps ==
  ASSUME NetAccount, HealGuest
  PROVE  NetAccount'
<1>1. setup.at \in BootSteps /\ UNCHANGED <<service, netGateway, runner>>
  BY DEF HealGuest, BootSteps
<1>2. DOMAIN netGuest = GuestFields
  BY <1>1, Booting
<1>3. CASE netGuest.device
  <2>1. netGuest' = dnsCleaned(netGuest) /\ setupAt("boot-heal-device")
    BY <1>3 DEF HealGuest
  <2> QED BY <1>1, <1>2, <2>1, Cleanings, BootStep
<1>4. CASE ~netGuest.device
  <2>1. netGuest' = netGuest /\ setupAt("boot-device")
    BY <1>4 DEF HealGuest
  <2> QED BY <1>1, <1>2, <2>1, BootStep
<1> QED BY <1>3, <1>4

LEMMA HealDeviceKeeps ==
  ASSUME NetAccount, HealDevice
  PROVE  NetAccount'
<1>1. setup.at \in BootSteps /\ UNCHANGED <<service, netGateway, runner>>
  BY DEF HealDevice, BootSteps
<1>2. DOMAIN netGuest = GuestFields
  BY <1>1, Booting
<1>3. netGuest' = deviceCleaned(netGuest) /\ setupAt("boot-device")
  BY DEF HealDevice
<1> QED BY <1>1, <1>2, <1>3, Cleanings, BootStep

LEMMA CreateDeviceKeeps ==
  ASSUME NetAccount, CreateDevice
  PROVE  NetAccount'
<1>1. setup.at \in BootSteps /\ UNCHANGED <<service, netGateway, runner>>
  BY DEF CreateDevice, BootSteps
<1>2. DOMAIN netGuest = GuestFields
  BY <1>1, Booting
<1> DEFINE up == [netGuest EXCEPT !.device = TRUE]
           served == [up EXCEPT !.proxy = TRUE]
<1>3. /\ DOMAIN up = GuestFields /\ up.stub = netGuest.stub
      /\ DOMAIN served = GuestFields /\ served.stub = netGuest.stub /\ served.device = TRUE
           /\ served.proxy = TRUE
  BY SMTT(60), <1>2 DEF GuestFields
<1>4. \/ setupAt("boot-route") /\ netGuest' = served
      \/ setupAt("broken") /\ netGuest' \in {netGuest, up, served}
  BY DEF CreateDevice
<1> HIDE DEF up, served
<1>5. CASE setupAt("boot-route") /\ netGuest' = served
  BY <1>1, <1>3, <1>5, BootStep
<1>6. CASE setupAt("broken") /\ netGuest' \in {netGuest, up, served}
  BY <1>1, <1>2, <1>3, <1>6, BootStep
<1> QED BY <1>4, <1>5, <1>6

LEMMA RouteThroughDeviceKeeps ==
  ASSUME NetAccount, RouteThroughDevice
  PROVE  NetAccount'
<1>1. setup.at \in BootSteps /\ setup.at = "boot-route" /\ UNCHANGED <<service, netGateway, runner>>
  BY DEF RouteThroughDevice, BootSteps
<1>2. DOMAIN netGuest = GuestFields /\ setup.at # "none"
  BY <1>1, Booting
<1>3. netGuest.device /\ netGuest.proxy
  BY <1>1, <1>2, NetStands DEF StepFits
<1> DEFINE routed == [netGuest EXCEPT !.route = "tun"]
<1>4. /\ DOMAIN routed = GuestFields /\ routed.stub = netGuest.stub /\ routed.route = "tun"
      /\ routed.device = netGuest.device /\ routed.proxy = netGuest.proxy
  BY SMTT(60), <1>2 DEF GuestFields
<1>5. \/ setupAt("boot-dns") /\ netGuest' = routed
      \/ setupAt("broken") /\ netGuest' = netGuest
  BY DEF RouteThroughDevice
<1> HIDE DEF routed
<1>6. CASE setupAt("boot-dns") /\ netGuest' = routed
  BY <1>1, <1>3, <1>4, <1>6, BootStep
<1>7. CASE setupAt("broken") /\ netGuest' = netGuest
  BY <1>1, <1>2, <1>7, BootStep
<1> QED BY <1>5, <1>6, <1>7

LEMMA MediateDnsKeeps ==
  ASSUME NetAccount, MediateDns
  PROVE  NetAccount'
<1>1. setup.at \in BootSteps /\ setup.at = "boot-dns" /\ UNCHANGED <<service, netGateway, runner>>
  BY DEF MediateDns, BootSteps
<1>2. DOMAIN netGuest = GuestFields /\ setup.at # "none" /\ setup.plan.mode = "tun2socks"
  BY <1>1, Booting
<1>3. netGuest.device /\ netGuest.proxy /\ netGuest.route = "tun"
  BY <1>1, <1>2, NetStands DEF StepFits
<1> DEFINE stubbed == [netGuest EXCEPT !.stub = setup.plan.resolver, !.pids = TRUE]
           pointed == [stubbed EXCEPT !.saved = netGuest.resolv, !.resolv = "stub"]
           blocked == [pointed EXCEPT !.blocked = TRUE]
<1>4. /\ DOMAIN stubbed = GuestFields /\ stubbed.stub = setup.plan.resolver
      /\ DOMAIN pointed = GuestFields /\ pointed.stub = setup.plan.resolver
      /\ DOMAIN blocked = GuestFields /\ blocked.stub = setup.plan.resolver /\ blocked.resolv = "stub"
      /\ blocked.device = netGuest.device /\ blocked.proxy = netGuest.proxy
           /\ blocked.route = netGuest.route
  BY SMTT(60), <1>2 DEF GuestFields
<1>5. \/ setupAt("finish") /\ netGuest' = blocked
      \/ setupAt("broken") /\ netGuest' \in {netGuest, stubbed, pointed}
  BY DEF MediateDns
<1> HIDE DEF stubbed, pointed, blocked
<1>6. Provides(setup.plan.mode, setup.plan.resolver, blocked)
  BY <1>2, <1>3, <1>4 DEF Provides
<1>7. CASE setupAt("finish") /\ netGuest' = blocked
  BY <1>1, <1>4, <1>6, <1>7, BootStep
<1>8. CASE setupAt("broken") /\ netGuest' \in {netGuest, stubbed, pointed}
  BY <1>1, <1>2, <1>4, <1>8, BootStep
<1> QED BY <1>5, <1>7, <1>8

LEMMA StopFits ==
  ASSUME NEW action \in {"disable-proxy", "restart-proxy"}, NEW mode, NEW resolver, NEW status, NEW g,
         status = "switching"
  PROVE  /\ StepFits("broken", action, mode, resolver, TRUE, status, g)
         /\ action = "disable-proxy" => StepFits("verify-direct", action, mode, resolver, TRUE, status, g)
         /\ mode = "tun2socks" => StepFits("boot-heal", action, mode, resolver, TRUE, status, g)
<1>1. action \in NetActions /\ action \notin {"none", "switch-gateway", "reuse", "start", "switch-dns"}
  BY DEF NetActions, Rebuilding
<1>2. StepFits("broken", action, mode, resolver, TRUE, status, g)
  BY <1>1 DEF StepFits, BootSteps, Failures
<1>3. action = "disable-proxy" => StepFits("verify-direct", action, mode, resolver, TRUE, status, g)
  BY <1>1 DEF StepFits, BootSteps, Failures
<1>4. mode = "tun2socks" => StepFits("boot-heal", action, mode, resolver, TRUE, status, g)
  BY <1>1 DEF StepFits, BootSteps, Failures
<1> QED BY <1>2, <1>3, <1>4

LEMMA StopServiceKeeps ==
  ASSUME NetAccount, StopService
  PROVE  NetAccount'
<1>1. setup.at = "stop" /\ UNCHANGED <<service, netGateway, runner>>
  BY DEF StopService
<1>2. /\ NetShape /\ ActionFits /\ Holds
      /\ StepFits(setup.at, setup.action, setup.plan.mode, setup.plan.resolver, setup.activated,
           service.status, netGuest)
  BY <1>1, NetStands
<1>3. setup.action \in {"disable-proxy", "restart-proxy"} /\ setup.activated = TRUE
  BY <1>1, <1>2 DEF StepFits
<1>4. service.status = "switching"
  BY <1>1, <1>2, <1>3 DEF StepFits, NetActions, Rebuilding
<1>5. setup.action = "restart-proxy" => setup.plan.mode = "tun2socks"
  BY <1>2 DEF ActionFits
<1>6. setup.at \notin {"plan", "start"} \cup Failures /\ setup.at # "none"
  BY <1>1 DEF Failures
<1> DEFINE stopped == dnsCleaned(netGuest)
           clean == deviceCleaned(dnsCleaned(netGuest))
<1>7. /\ DOMAIN netGuest = GuestFields
      /\ DOMAIN stopped = GuestFields /\ stopped.stub \in {0, netGuest.stub}
      /\ DOMAIN clean = GuestFields /\ clean.stub \in {0, netGuest.stub}
  BY <1>2, Cleanings DEF NetShape
<1>8. \/ setup.action = "disable-proxy" /\ setupAt("verify-direct") /\ netGuest' = clean
      \/ setup.action = "restart-proxy" /\ setupAt("boot-heal") /\ netGuest' = clean
      \/ setupAt("broken") /\ netGuest' \in {netGuest, stopped, clean}
  BY <1>3 DEF StopService
<1> HIDE DEF stopped, clean
<1>e. setup.action # "switch-gateway"
  BY <1>3
<1>s. ASSUME NEW to, setupAt(to), to \notin {"none", "finish"}, NEW g, netGuest' = g,
             DOMAIN g = GuestFields,
             g.stub \in {0, netGuest.stub},
             StepFits(to, setup.action, setup.plan.mode, setup.plan.resolver, TRUE, service.status, g)
      PROVE  NetAccount'
  <2>1. StepFits(to, setup.action, setup.plan.mode, setup.plan.resolver, setup.activated, service.status,
          g)
    BY <1>3, <1>s
  <2>2. to # "none" /\ (to = "finish"
          /\ setup.plan.mode = "tun2socks" => netGateway.route.mode = "tun2socks")
    BY <1>s
  <2> QED BY <1>1, <1>6, <1>e, <1>s, <2>1, <2>2, GuestStep
<1>9. CASE setup.action = "disable-proxy" /\ setupAt("verify-direct") /\ netGuest' = clean
  <2>1. StepFits("verify-direct", setup.action, setup.plan.mode, setup.plan.resolver, TRUE,
          service.status, clean)
    BY <1>3, <1>4, <1>9, StopFits
  <2> QED BY <1>7, <1>9, <1>s, <2>1
<1>10. CASE setup.action = "restart-proxy" /\ setupAt("boot-heal") /\ netGuest' = clean
  <2>1. StepFits("boot-heal", setup.action, setup.plan.mode, setup.plan.resolver, TRUE, service.status,
          clean)
    BY <1>3, <1>4, <1>5, <1>10, StopFits
  <2> QED BY <1>7, <1>10, <1>s, <2>1
<1>11. CASE setupAt("broken") /\ netGuest' \in {netGuest, stopped, clean}
  <2>1. StepFits("broken", setup.action, setup.plan.mode, setup.plan.resolver, TRUE, service.status,
          netGuest')
    BY <1>3, <1>4, StopFits
  <2> QED BY <1>7, <1>11, <1>s, <2>1
<1> QED BY <1>8, <1>9, <1>10, <1>11

\* A start that broke; the service is recorded as switching unless it is
\* reused or was not there.
LEMMA BrokenFits ==
  ASSUME NEW action \in NetActions, NEW mode, NEW resolver, NEW activated, NEW status, NEW g,
         action \in NetActions \ {"reuse", "start"} => status = "switching"
  PROVE  /\ StepFits("broken", action, mode, resolver, activated, status, g)
         /\ action = "switch-dns" => StepFits("restored", action, mode, resolver, activated, status, g)
<1>1. StepFits("broken", action, mode, resolver, activated, status, g)
  BY DEF StepFits, BootSteps, Failures
<1>2. action = "switch-dns" => StepFits("restored", action, mode, resolver, activated, status, g)
  BY DEF StepFits, BootSteps, Failures
<1> QED BY <1>1, <1>2

LEMMA Driving ==
  ASSUME NetAccount, setup.at \notin {"none", "plan", "start"} \cup Failures
  PROVE  /\ NetShape /\ Holds /\ ActionFits /\ setup.action \in NetActions
         /\ StepFits(setup.at, setup.action, setup.plan.mode, setup.plan.resolver, setup.activated,
              service.status, netGuest)
         /\ setup.action \in NetActions \ {"reuse", "start"} => service.status = "switching"
<1>1. /\ NetShape /\ Holds /\ ActionFits
      /\ StepFits(setup.at, setup.action, setup.plan.mode, setup.plan.resolver, setup.activated,
           service.status, netGuest)
  BY NetStands
<1>2. setup.action \in NetActions
  BY <1>1 DEF StepFits
<1>3. setup.action \in NetActions \ {"reuse", "start"} => service.status = "switching"
  BY <1>1 DEF StepFits, Failures
<1> QED BY <1>1, <1>2, <1>3

\* The start breaks and nothing else changes.
LEMMA Breaks ==
  ASSUME NetAccount, setup.at \notin {"none", "plan", "start"} \cup Failures, setupAt("broken"),
         UNCHANGED <<service, netGuest, netGateway, runner>>
  PROVE  NetAccount'
<1>1. StepFits("broken", setup.action, setup.plan.mode, setup.plan.resolver, setup.activated,
        service.status, netGuest)
  BY Driving, BrokenFits
<1> PICK to : to = "broken"
  OBVIOUS
<1>2. to # "none" /\ to # "finish" /\ setup.at # "none" /\ setupAt(to)
  OBVIOUS
<1> QED BY <1>1, <1>2, OnwardOnly

LEMMA VerifyDisabledKeeps ==
  ASSUME NetAccount, VerifyDisabled
  PROVE  NetAccount'
<1>1. setup.at = "verify-direct" /\ UNCHANGED <<service, netGuest, netGateway, runner>>
  BY DEF VerifyDisabled
<1>2. setup.at \notin {"none", "plan", "start"} \cup Failures
  BY <1>1 DEF Failures
<1>3. /\ ActionFits
      /\ StepFits(setup.at, setup.action, setup.plan.mode, setup.plan.resolver, setup.activated,
           service.status, netGuest)
      /\ setup.action \in NetActions \ {"reuse", "start"} => service.status = "switching"
  BY <1>2, Driving
<1>4. setup.action = "disable-proxy" /\ setup.activated = TRUE
  BY <1>1, <1>3 DEF StepFits
<1>5. setup.plan.mode # "tun2socks" /\ service.status = "switching" /\ setup.action \in NetActions
  BY <1>3, <1>4 DEF ActionFits, NetActions, Rebuilding
<1>6. CASE setupAt("broken")
  BY <1>1, <1>2, <1>6, Breaks
<1>7. CASE guestDirect /\ setupAt("finish")
  <2>1. Provides(setup.plan.mode, setup.plan.resolver, netGuest)
    BY <1>5, <1>7 DEF guestDirect, Provides
  <2>2. StepFits("finish", setup.action, setup.plan.mode, setup.plan.resolver, setup.activated,
          service.status, netGuest)
    BY <1>4, <1>5, <2>1 DEF StepFits, BootSteps, Failures
  <2>3. "finish" # "none" /\ setup.at # "none"
    BY <1>2
  <2> QED BY <1>1, <1>5, <1>7, <2>2, <2>3, OnwardOnly
<1> QED BY <1>6, <1>7 DEF VerifyDisabled

LEMMA ReconfigureDnsKeeps ==
  ASSUME NetAccount, ReconfigureDns
  PROVE  NetAccount'
<1>1. setup.at = "reconfigure" /\ UNCHANGED <<service, netGateway, runner>>
  BY DEF ReconfigureDns
<1>2. setup.at \notin {"none", "plan", "start"} \cup Failures
  BY <1>1 DEF Failures
<1>3. /\ NetShape /\ ActionFits
      /\ StepFits(setup.at, setup.action, setup.plan.mode, setup.plan.resolver, setup.activated,
           service.status, netGuest)
      /\ setup.action \in NetActions \ {"reuse", "start"} => service.status = "switching"
  BY <1>2, Driving
<1>4. setup.action = "switch-dns"
  BY <1>1, <1>3 DEF StepFits
<1>5. service.status = "switching" /\ setup.action \in NetActions
  BY <1>3, <1>4 DEF NetActions, Rebuilding
<1> DEFINE asks(resolver) == [netGuest EXCEPT !.stub = resolver]
<1>6. \A resolver : DOMAIN asks(resolver) = GuestFields /\ asks(resolver).stub = resolver
  BY SMTT(60), <1>3 DEF NetShape, GuestFields
<1>7. \/ setupAt("verify") /\ netGuest' = asks(setup.plan.resolver)
      \/ setupAt("broken") /\ netGuest' = netGuest
      \/ setupAt("broken") /\ netGuest' = asks(0)
      \/ setupAt("restored") /\ netGuest' = asks(setup.previous.plan.resolver)
  BY DEF ReconfigureDns
<1> HIDE DEF asks
<1>s. ASSUME NEW to, setupAt(to), to \notin {"none", "finish"}, NEW g, netGuest' = g,
             DOMAIN g = GuestFields,
             StepFits(to, setup.action, setup.plan.mode, setup.plan.resolver, setup.activated,
               service.status, g)
      PROVE  NetAccount'
  <2>1. /\ to # "none" /\ (to = "finish"
             /\ setup.plan.mode = "tun2socks" => netGateway.route.mode = "tun2socks")
        /\ setup.at # "none" /\ setup.at \notin {"plan", "start"} \cup Failures
        /\ setup.action # "switch-gateway" /\ setup.action # "reuse"
    BY <1>2, <1>4, <1>s
  <2> QED BY <1>1, <1>s, <2>1, GuestStep
<1>8. CASE setupAt("verify") /\ netGuest' = asks(setup.plan.resolver)
  <2>1. StepFits("verify", setup.action, setup.plan.mode, setup.plan.resolver, setup.activated,
                 service.status, netGuest')
    BY <1>4, <1>5, <1>6, <1>8 DEF StepFits, BootSteps, Failures
  <2> QED BY <1>6, <1>8, <1>s, <2>1
<1>9. CASE setupAt("broken") /\ netGuest' = netGuest
  BY <1>1, <1>2, <1>9, Breaks
<1>10. CASE setupAt("broken") /\ netGuest' = asks(0)
  BY <1>5, <1>6, <1>10, <1>s, BrokenFits
<1>11. CASE setupAt("restored") /\ netGuest' = asks(setup.previous.plan.resolver)
  BY <1>4, <1>5, <1>6, <1>11, <1>s, BrokenFits
<1> QED BY <1>7, <1>8, <1>9, <1>10, <1>11

-----------------------------------------------------------------------------
\* What a verification that succeeds has seen is the network of the plan: the
\* stub that runs is the one of the service that is reused or switched, or was
\* started by this run.
LEMMA VerifiedProvides ==
  ASSUME NetAccount, setup.at = "verify", IF setup.plan = direct THEN guestDirect ELSE guestMediated
  PROVE  Provides(setup.plan.mode, setup.plan.resolver, netGuest)
<1>1. setup.at \notin {"none", "plan", "start"} \cup Failures
  BY DEF Failures
<1>2. /\ NetShape /\ ActionFits /\ Answers(service, netGuest.stub)
      /\ StepFits(setup.at, setup.action, setup.plan.mode, setup.plan.resolver, setup.activated,
           service.status, netGuest)
  BY <1>1, Driving, NetStands
<1>3. setup.plan = direct <=> setup.plan.mode # "tun2socks"
  BY <1>2, PlanFacts DEF NetShape
<1>4. CASE setup.plan.mode # "tun2socks"
  BY <1>3, <1>4 DEF guestDirect, Provides
<1>5. CASE setup.plan.mode = "tun2socks"
  <2>1. guestMediated
    BY <1>3, <1>5
  <2>2. setup.action \in {"reuse", "switch-gateway", "switch-dns"}
    BY <1>2, <1>5 DEF StepFits
  <2>3. netGuest.stub = setup.plan.resolver
    <3>1. CASE setup.action = "reuse"
      BY <1>2, <1>5, <2>1, <3>1 DEF ActionFits, Answers, guestMediated
    <3>2. CASE setup.action = "switch-gateway"
      <4>1. setup.previous.status = "ready" /\ setup.previous.plan.mode = "tun2socks"
        BY <1>2, <1>5, <3>2 DEF ActionFits, NetActions, Rebuilding
      <4> QED BY <1>2, <2>1, <3>2, <4>1 DEF ActionFits, Answers, guestMediated
    <3>3. CASE setup.action = "switch-dns"
      BY <1>2, <3>3 DEF StepFits
    <3> QED BY <2>2, <3>1, <3>2, <3>3
  <2> QED BY <1>5, <2>1, <2>3 DEF guestMediated, Provides
<1> QED BY <1>4, <1>5

LEMMA AfterVerify ==
  /\ setup.action = "reuse" => afterVerify = "finish"
  /\ setup.action \in {"switch-gateway", "start", "switch-dns"} => afterVerify = "activate-last"
  BY DEF afterVerify

LEMMA VerifiedKeeps ==
  ASSUME NetAccount, setup.at = "verify", Provides(setup.plan.mode, setup.plan.resolver, netGuest),
         setupAt(afterVerify), UNCHANGED <<service, netGuest, netGateway, runner>>
  PROVE  NetAccount'
<1>1. setup.at \notin {"none", "plan", "start"} \cup Failures
  BY DEF Failures
<1>2. /\ NetShape /\ ActionFits /\ Carries(service, netGateway.id, netGateway.route)
      /\ StepFits(setup.at, setup.action, setup.plan.mode, setup.plan.resolver, setup.activated,
           service.status, netGuest)
      /\ setup.action \in NetActions
      /\ setup.action \in NetActions \ {"reuse", "start"} => service.status = "switching"
  BY <1>1, Driving, NetStands
<1>3. setup.action \in {"reuse", "switch-gateway", "start", "switch-dns"}
  BY <1>2 DEF StepFits
<1>4. CASE setup.action = "reuse"
  <2>1. StepFits("finish", setup.action, setup.plan.mode, setup.plan.resolver, setup.activated,
          service.status, netGuest)
    BY <1>2, <1>4 DEF StepFits, BootSteps, Failures
  <2>2. setup.plan.mode = "tun2socks" => netGateway.route.mode = "tun2socks"
    BY <1>2, <1>4 DEF ActionFits, Carries
  <2>3. setup.at # "none" /\ "finish" # "none" /\ setupAt("finish")
    BY <1>1, <1>4, AfterVerify
  <2> QED BY <2>1, <2>2, <2>3, OnwardOnly
<1>5. CASE setup.action # "reuse"
  <2> PICK to : to = "activate-last"
    OBVIOUS
  <2>1. StepFits(to, setup.action, setup.plan.mode, setup.plan.resolver, setup.activated, service.status,
          netGuest)
    BY <1>2, <1>5 DEF StepFits, BootSteps, Failures
  <2>2. setup.at # "none" /\ to # "none" /\ to # "finish" /\ setupAt(to)
    BY <1>1, <1>3, <1>5, AfterVerify
  <2> QED BY <2>1, <2>2, OnwardOnly
<1> QED BY <1>4, <1>5

\* The service is rebuilt with the secret as it is now.
LEMMA HealingKeeps ==
  ASSUME NetAccount, setup.at = "verify", setup.action = "reuse", setup.plan # direct,
         setup' = [setup EXCEPT !.at = "activate", !.plan.secret = proxySecret],
         UNCHANGED <<service, netGuest, netGateway, runner>>
  PROVE  NetAccount'
<1>1. setup.at \notin {"none", "plan", "start"} \cup Failures
  BY DEF Failures
<1>2. /\ NetShape /\ Holds /\ ActionFits /\ Carries(service, netGateway.id, netGateway.route)
      /\ Answers(service, netGuest.stub) /\ setup.action \in NetActions
  BY <1>1, Driving, NetStands
<1>3. setup.plan.mode = "tun2socks" /\ setup.plan.resolver # 0 /\ DOMAIN setup.plan = PlanFields
      /\ DOMAIN setup = SetupFields
  BY <1>2, PlanFacts DEF NetShape, IsPlan
<1> PICK plan : plan = [setup.plan EXCEPT !.secret = proxySecret]
  OBVIOUS
<1>4. DOMAIN plan = PlanFields /\ plan.mode = setup.plan.mode /\ plan.resolver = setup.plan.resolver
  BY SMTT(60), <1>3 DEF PlanFields
<1>5. /\ DOMAIN setup' = SetupFields /\ setup'.at = "activate" /\ setup'.plan = plan
      /\ setup'.run = setup.run /\ setup'.route = setup.route /\ setup'.action = setup.action
      /\ setup'.previous = setup.previous /\ setup'.discards = setup.discards
      /\ setup'.activated = setup.activated /\ setup'.keeps = setup.keeps /\ setup'.before = setup.before
  BY SMTT(60), <1>3 DEF SetupFields
<1>6. IsPlan(plan)
  BY <1>3, <1>4 DEF IsPlan
<1>7. NetShape'
  BY <1>2, <1>5, <1>6 DEF NetShape
<1>m. setup'.plan.mode = setup.plan.mode
  BY <1>4, <1>5
<1>8. Holds'
  BY <1>2, <1>5, <1>m DEF Holds, Carries
<1>9. ActionFits'
  BY <1>2, <1>3, <1>4, <1>5 DEF ActionFits, Carries, Answers
<1>10. StepFits("activate", setup.action, "tun2socks", setup.plan.resolver, setup.activated,
         service.status, netGuest)
  BY <1>2 DEF StepFits, BootSteps, Failures
<1>11. stepFits'
  BY <1>3, <1>4, <1>5, <1>10 DEF stepFits
<1> QED BY <1>2, <1>5, <1>7, <1>8, <1>9, <1>11 DEF NetAccount, Carries, Answers

LEMMA VerifyServiceKeeps ==
  ASSUME NetAccount, VerifyService
  PROVE  NetAccount'
<1>1. setup.at = "verify" /\ UNCHANGED <<service, netGuest, netGateway, runner>>
  BY DEF VerifyService
<1>2. setup.at \notin {"none", "plan", "start"} \cup Failures /\ setup.at # "none" /\ setup.at # "finish"
  BY <1>1 DEF Failures
<1>3. \/ (IF setup.plan = direct THEN guestDirect ELSE guestMediated) /\ setupAt(afterVerify)
      \/ /\ setup.action = "reuse" /\ setup.plan # direct
         /\ setup' = [setup EXCEPT !.at = "activate", !.plan.secret = proxySecret]
      \/ setup' = [setup EXCEPT !.attempts = @ + 1]
      \/ setupAt("broken")
  BY DEF VerifyService
<1>4. CASE (IF setup.plan = direct THEN guestDirect ELSE guestMediated) /\ setupAt(afterVerify)
  BY <1>1, <1>4, VerifiedProvides, VerifiedKeeps
<1>5. CASE /\ setup.action = "reuse" /\ setup.plan # direct
           /\ setup' = [setup EXCEPT !.at = "activate", !.plan.secret = proxySecret]
  BY <1>1, <1>5, HealingKeeps
<1>6. CASE setup' = [setup EXCEPT !.attempts = @ + 1]
  <2>1. NetShape /\ ActionFits /\ Answers(service, netGuest.stub)
    BY <1>2, NetStands
  <2>2. StepFits(setup.at, setup.action, setup.plan.mode, setup.plan.resolver, setup.activated,
          service.status, netGuest)
    BY <1>2, NetStands
  <2>3. DOMAIN setup = SetupFields /\ DOMAIN netGuest = GuestFields
    BY <2>1 DEF NetShape
  <2>4. SetupElse /\ setup'.at = setup.at
    BY SMTT(60), <1>6, <2>3 DEF SetupElse, SetupFields
  <2>5. setup.action = "switch-gateway" => Answers(setup.previous, netGuest.stub)
    BY <2>1 DEF ActionFits
  <2> QED BY <1>1, <1>2, <2>1, <2>2, <2>3, <2>4, <2>5, Onward
<1>7. CASE setupAt("broken")
  BY <1>1, <1>2, <1>7, Breaks
<1> QED BY <1>3, <1>4, <1>5, <1>6, <1>7

-----------------------------------------------------------------------------
LEMMA ActionKept ==
  ASSUME ActionFits, service' = service, netGuest' = netGuest, netGateway'.id = netGateway.id,
         setup'.plan = setup.plan, setup'.action = setup.action, setup'.previous = setup.previous,
         setup'.discards = setup.discards, setup'.before = setup.before
  PROVE  ActionFits'
  BY DEF ActionFits

LEMMA ActivateRouteKeeps ==
  ASSUME NetAccount, ActivateRoute
  PROVE  NetAccount'
<1>1. /\ setup.at \in {"activate", "activate-last"} /\ UNCHANGED <<service, netGuest, runner>>
      /\ netGateway' = [netGateway EXCEPT !.route = setup.route]
  BY DEF ActivateRoute
<1>2. setup.at \notin {"none", "plan", "start"} \cup Failures
  BY <1>1 DEF Failures
<1>3. /\ NetShape /\ Holds /\ ActionFits /\ setup.action \in NetActions /\ Answers(service, netGuest.stub)
      /\ StepFits(setup.at, setup.action, setup.plan.mode, setup.plan.resolver, setup.activated,
           service.status, netGuest)
      /\ setup.action \in NetActions \ {"reuse", "start"} => service.status = "switching"
  BY <1>2, Driving, NetStands
<1>4. DOMAIN netGateway = GatewayFields /\ DOMAIN setup = SetupFields
  BY <1>3 DEF NetShape
<1>5. /\ DOMAIN netGateway' = GatewayFields /\ netGateway'.route = setup.route
           /\ netGateway'.id = netGateway.id
      /\ netGateway'.ids = netGateway.ids /\ netGateway'.lock = netGateway.lock
  BY SMTT(60), <1>1, <1>4 DEF GatewayFields
<1>e. PICK to, keeps :
        /\ setup' = [setup EXCEPT !.activated = TRUE, !.keeps = keeps, !.at = to]
        /\ keeps = (setup.action = "disable-proxy")
        /\ to = IF setup.at = "activate-last" THEN "finish"
                ELSE IF setup.action \in {"disable-proxy", "restart-proxy"} THEN "stop" ELSE "boot-heal"
  BY DEF ActivateRoute
<1>6. /\ DOMAIN setup' = SetupFields /\ setup'.at = to /\ setup'.activated = TRUE /\ setup'.keeps = keeps
      /\ setup'.run = setup.run /\ setup'.plan = setup.plan /\ setup'.route = setup.route
      /\ setup'.action = setup.action /\ setup'.previous = setup.previous
           /\ setup'.discards = setup.discards
      /\ setup'.before = setup.before
  BY SMTT(60), <1>e, <1>4 DEF SetupFields
<1>7. keeps => setup.action = "disable-proxy"
  BY <1>e
<1>8. NetShape'
  BY <1>1, <1>3, <1>5, <1>6 DEF NetShape
<1>9. Holds'
  BY <1>1, <1>3, <1>5, <1>6, <1>7 DEF Holds, Carries
<1>10. ActionFits'
  BY <1>1, <1>3, <1>5, <1>6, ActionKept
<1>11. setup.route.mode = setup.plan.mode
  BY <1>3 DEF Holds
<1>12. Carries(service, netGateway'.id, netGateway'.route)
  <2>1. CASE setup.action = "reuse"
    BY <1>3, <1>5, <1>11, <2>1 DEF ActionFits, Carries
  <2>2. CASE setup.action # "reuse"
    <3>1. service.status # "ready"
      BY <1>2, <2>2, Recorded
    <3> QED BY <3>1 DEF Carries
  <2> QED BY <2>1, <2>2
<1>13. to # "none" /\ StepFits(to, setup.action, setup.plan.mode, setup.plan.resolver, TRUE,
         service.status, netGuest)
  <2>1. CASE setup.at = "activate-last"
    <3>1. to = "finish" /\ Provides(setup.plan.mode, setup.plan.resolver, netGuest)
      BY <1>e, <1>3, <2>1 DEF StepFits
    <3> QED BY <1>3, <3>1 DEF StepFits, BootSteps, Failures
  <2>2. CASE setup.at = "activate"
    <3>1. /\ setup.action \in {"reuse"} \cup Rebuilding
          /\ setup.action # "disable-proxy" => setup.plan.mode = "tun2socks"
      BY <1>3, <2>2 DEF StepFits
    <3>2. setup.action # "switch-gateway"
      BY <3>1 DEF Rebuilding
    <3>3. CASE setup.action \in {"disable-proxy", "restart-proxy"}
      <4>1. to = "stop"
        BY <1>e, <2>2, <3>3
      <4> QED BY <1>3, <3>2, <3>3, <4>1 DEF StepFits, BootSteps, Failures
    <3>4. CASE setup.action \notin {"disable-proxy", "restart-proxy"}
      <4>1. to = "boot-heal" /\ setup.plan.mode = "tun2socks"
        BY <1>e, <2>2, <3>1, <3>4
      <4> QED BY <1>3, <3>2, <4>1 DEF StepFits, BootSteps, Failures
    <3> QED BY <3>3, <3>4
  <2> QED BY <1>1, <2>1, <2>2
<1>14. stepFits'
  BY <1>1, <1>6, <1>13 DEF stepFits
<1>15. Carries(service, netGateway.id, netGateway.route)' /\ Answers(service, netGuest.stub)'
  BY <1>1, <1>3, <1>12 DEF Carries, Answers
<1>16. setup'.plan.mode = "tun2socks" => netGateway'.route.mode = "tun2socks"
  BY <1>5, <1>6, <1>11
<1> QED BY <1>8, <1>9, <1>10, <1>14, <1>15, <1>16 DEF NetAccount

LEMMA BeginServiceKeeps ==
  ASSUME NetAccount, BeginService
  PROVE  NetAccount'
<1>1. setup.at = "start" /\ setup.at # "none" /\ UNCHANGED <<netGuest, netGateway, runner>>
  BY DEF BeginService
<1>2. /\ NetShape /\ Holds /\ ActionFits
      /\ StepFits(setup.at, setup.action, setup.plan.mode, setup.plan.resolver, setup.activated,
           service.status, netGuest)
  BY <1>1, NetStands
<1>3. setup.action \in NetActions /\ setup.activated # TRUE
  BY <1>1, <1>2 DEF StepFits, Failures
<1>4. setup.plan = direct <=> setup.plan.mode # "tun2socks"
  BY <1>2, PlanFacts DEF NetShape
<1>5. CASE setupAt("failed") /\ service' = service
  <2> PICK to : to = "failed"
    OBVIOUS
  <2>1. StepFits(to, setup.action, setup.plan.mode, setup.plan.resolver, setup.activated, service.status,
          netGuest)
    BY <1>3 DEF StepFits, BootSteps, Failures
  <2>2. to # "none" /\ to # "finish" /\ setupAt(to)
    BY <1>5
  <2> QED BY <1>1, <1>5, <2>1, <2>2, OnwardOnly
<1> DEFINE script == CASE setup.action \in {"reuse", "switch-gateway"} -> "verify"
                       [] setup.action \in {"start", "enable-proxy"} /\ setup.plan # direct -> "activate"
                       [] setup.action \in {"start", "enable-proxy"} /\ setup.plan = direct -> "verify"
                       [] setup.action = "switch-dns" -> "reconfigure"
                       [] OTHER -> "activate"
           switching == [status |-> "switching", plan |-> setup.plan,
                         gateway |-> netGateway.id, boot |-> netGuest.boot]
<1>6. \/ setup.action \in {"reuse", "switch-gateway"} /\ script = "verify"
      \/ setup.action = "start" /\ setup.plan = direct /\ script = "verify"
      \/ setup.action = "switch-dns" /\ script = "reconfigure"
      \/ /\ setup.action \in {"start", "enable-proxy", "disable-proxy", "restart-proxy"}
              /\ script = "activate"
         /\ setup.action # "disable-proxy" => setup.plan.mode = "tun2socks"
  <2>1. setup.action = "enable-proxy" => setup.plan # direct
    BY <1>2, <1>4 DEF ActionFits
  <2>2. setup.action = "restart-proxy" => setup.plan.mode = "tun2socks"
    BY <1>2 DEF ActionFits
  <2> QED BY <1>3, <1>4, <2>1, <2>2 DEF NetActions, Rebuilding
<1> PICK to : to = script
  OBVIOUS
<1> HIDE DEF script
<1>7. ASSUME NEW status, setup.action \in NetActions \ {"reuse", "start"} => status = "switching"
      PROVE  /\ to # "none" /\ to # "finish"
             /\ StepFits(to, setup.action, setup.plan.mode, setup.plan.resolver, setup.activated, status,
                  netGuest)
  <2>1. CASE setup.action \in {"reuse", "switch-gateway"} /\ to = "verify"
    BY <1>3, <1>7, <2>1 DEF StepFits, BootSteps, Failures
  <2>2. CASE setup.action = "start" /\ setup.plan = direct /\ to = "verify"
    BY <1>3, <1>4, <1>7, <2>2 DEF StepFits, BootSteps, Failures
  <2>3. CASE setup.action = "switch-dns" /\ to = "reconfigure"
    BY <1>3, <1>7, <2>3 DEF StepFits, BootSteps, Failures
  <2>4. CASE /\ setup.action \in {"start", "enable-proxy", "disable-proxy", "restart-proxy"}
                  /\ to = "activate"
             /\ setup.action # "disable-proxy" => setup.plan.mode = "tun2socks"
    BY <1>3, <1>7, <2>4 DEF StepFits, BootSteps, Failures, Rebuilding
  <2> QED BY <1>6, <2>1, <2>2, <2>3, <2>4
<1>8. CASE setupAt(script) /\ service' = service /\ setup.action \in {"start", "reuse"}
  <2>1. setup.action \in NetActions \ {"reuse", "start"} => service.status = "switching"
    BY <1>8
  <2> QED BY <1>1, <1>7, <1>8, <2>1, OnwardOnly
<1>9. CASE setupAt(script) /\ service' = switching /\ setup.action \notin {"start", "reuse"}
  <2>1. SetupElse /\ setup'.at = to
    BY <1>2, <1>9, Stepped
  <2>2. /\ DOMAIN switching = ServiceFields /\ switching.status = "switching"
             /\ switching.plan = setup.plan
        /\ switching.gateway = netGateway.id
    BY SMTT(60) DEF ServiceFields
  <2> PICK s : s = switching
    OBVIOUS
  <2> HIDE DEF switching
  <2>3. IsService(s, netGateway.ids)
    BY <1>2, <2>2 DEF IsService, NetShape
  <2>4. NetShape'
    BY <1>1, <1>2, <1>9, <2>1, <2>3 DEF NetShape, SetupElse
  <2>5. service'.status = "switching"
    BY <1>9, <2>2
  <2>6. Holds'
    BY <1>1, <1>2, <2>1, <2>5 DEF Holds, SetupElse, Carries
  <2>7. ActionFits'
    BY <1>1, <1>2, <1>9, <2>1, <2>5 DEF ActionFits, SetupElse, Carries, Answers
  <2>8. stepFits'
    BY <1>1, <1>7, <2>1, <2>5 DEF stepFits, SetupElse
  <2> QED BY <1>7, <2>1, <2>4, <2>5, <2>6, <2>7, <2>8 DEF NetAccount, Carries, Answers
<1>10. \/ setupAt("failed") /\ service' = service
       \/ /\ setupAt(script)
          /\ service' = IF setup.previous.status = "none" \/ setup.action = "reuse" THEN service ELSE switching
  BY DEF BeginService, script
<1>11. /\ setup.action = "start" => setup.previous.status = "none"
       /\ setup.action # "start" => setup.previous.status = "ready"
  BY <1>2, <1>3 DEF ActionFits
<1> HIDE DEF switching
<1> QED BY <1>5, <1>8, <1>9, <1>10, <1>11

-----------------------------------------------------------------------------
\* What prepareEnvironmentNetworkService picks, from a service that is ready.
Picked(action, s, plan, id) ==
  /\ action \in NetActions \ {"start"}
  /\ action = "switch-gateway" => s.plan.mode = plan.mode /\ s.plan.resolver = plan.resolver
  /\ action = "reuse" => s.plan = plan /\ s.gateway = id
  /\ action \in {"switch-dns", "restart-proxy", "enable-proxy"} => plan.mode = "tun2socks"
  /\ action = "disable-proxy" => plan.mode # "tun2socks"

LEMMA PickedAction ==
  ASSUME NEW s, NEW plan, NEW id, IsPlan(s.plan), IsPlan(plan), s.status = "ready",
         NEW action, action = serviceAction(s, plan, id)
  PROVE  Picked(action, s, plan, id)
<1>1. (plan = direct <=> plan.mode # "tun2socks") /\ (s.plan = direct <=> s.plan.mode # "tun2socks")
  BY PlanFacts
<1>2. \/ s.plan = plan /\ s.gateway = id /\ action = "reuse"
      \/ s.plan = direct /\ plan = direct /\ action = "switch-gateway"
      \/ /\ s.plan.mode = "tun2socks" /\ plan.mode = "tun2socks" /\ s.plan.resolver = plan.resolver
         /\ action = "switch-gateway"
      \/ plan.mode = "tun2socks" /\ action = "enable-proxy"
      \/ plan = direct /\ action = "disable-proxy"
      \/ /\ ~(s.plan = direct /\ plan = direct) /\ ~(s.plan.mode = "tun2socks" /\ plan = direct)
         /\ action \in {"switch-dns", "restart-proxy"}
  BY DEF serviceAction
<1> QED BY <1>1, <1>2 DEF Picked, NetActions, Rebuilding

LEMMA StartPicked ==
  ASSUME NEW s, NEW plan, NEW id, s.status = "none"
  PROVE  serviceAction(s, plan, id) = "start"
  BY DEF serviceAction

\* The start fails before it has chosen what to do.
LEMMA Refused ==
  ASSUME NetAccount, setup.at = "plan", NEW discards,
         setup' = [setup EXCEPT !.at = "failed", !.discards = discards],
         UNCHANGED <<service, netGuest, netGateway, runner>>
  PROVE  NetAccount'
<1>1. setup.at # "none"
  OBVIOUS
<1>2. /\ NetShape /\ Holds /\ ActionFits /\ Carries(service, netGateway.id, netGateway.route)
      /\ Answers(service, netGuest.stub)
      /\ StepFits(setup.at, setup.action, setup.plan.mode, setup.plan.resolver, setup.activated,
           service.status, netGuest)
  BY <1>1, NetStands
<1>3. setup.action = "none" /\ setup.activated # TRUE /\ DOMAIN setup = SetupFields
  BY <1>2 DEF StepFits, NetShape
<1>4. /\ DOMAIN setup' = SetupFields /\ setup'.at = "failed" /\ setup'.discards = discards
      /\ setup'.run = setup.run /\ setup'.plan = setup.plan /\ setup'.route = setup.route
      /\ setup'.action = setup.action /\ setup'.previous = setup.previous
      /\ setup'.activated = setup.activated /\ setup'.keeps = setup.keeps /\ setup'.before = setup.before
  BY SMTT(60), <1>3 DEF SetupFields
<1>5. NetShape'
  BY <1>2, <1>4 DEF NetShape
<1>6. Holds'
  BY <1>2, <1>4 DEF Holds, Carries
<1>7. setup'.action = "none"
  BY <1>3, <1>4
<1>8. ActionFits'
  BY <1>7 DEF ActionFits, NetActions, Rebuilding
<1>9. "none" \notin NetActions
  BY DEF NetActions, Rebuilding
<1>10. stepFits'
  BY <1>4, <1>7, <1>9 DEF stepFits, StepFits, BootSteps, Failures
<1> QED BY <1>2, <1>4, <1>5, <1>6, <1>8, <1>10 DEF NetAccount, Carries, Answers

LEMMA ChooseActionKeeps ==
  ASSUME NetAccount, ChooseAction
  PROVE  NetAccount'
<1>1. setup.at = "plan" /\ setup.at # "none" /\ UNCHANGED <<netGuest, netGateway, runner>>
  BY DEF ChooseAction
<1> PICK action : action = serviceAction(service, setup.plan, netGateway.id)
  OBVIOUS
<1> DEFINE fresh == [status |-> "starting", plan |-> setup.plan, gateway |-> netGateway.id, boot |-> 0]
<1>2. \/ \E d : setup' = [setup EXCEPT !.at = "failed", !.discards = d] /\ service' = service
      \/ /\ service.status \in {"none", "ready"}
         /\ setup' = [setup EXCEPT !.at = "start", !.action = action, !.previous = service,
                                   !.discards = action \notin {"reuse", "switch-gateway"}]
         /\ service' = IF action = "start" THEN fresh ELSE service
  BY DEF ChooseAction
<1>3. CASE \E d : setup' = [setup EXCEPT !.at = "failed", !.discards = d] /\ service' = service
  BY <1>1, <1>3, Refused
<1>4. CASE /\ service.status \in {"none", "ready"}
           /\ setup' = [setup EXCEPT !.at = "start", !.action = action, !.previous = service,
                                     !.discards = action \notin {"reuse", "switch-gateway"}]
           /\ service' = IF action = "start" THEN fresh ELSE service
  <2>1. /\ NetShape /\ Holds /\ ActionFits /\ Carries(service, netGateway.id, netGateway.route)
        /\ Answers(service, netGuest.stub)
        /\ StepFits(setup.at, setup.action, setup.plan.mode, setup.plan.resolver, setup.activated,
             service.status, netGuest)
    BY <1>1, NetStands
  <2>2. setup.action = "none" /\ setup.activated # TRUE /\ DOMAIN setup = SetupFields
    BY <1>1, <2>1 DEF StepFits, NetShape
  <2>e. PICK discards : /\ discards = (action \notin {"reuse", "switch-gateway"})
                        /\ setup' = [setup EXCEPT !.at = "start", !.action = action, !.previous = service,
                                                  !.discards = discards]
    BY <1>4
  <2>3. /\ DOMAIN setup' = SetupFields /\ setup'.at = "start" /\ setup'.discards = discards
        /\ setup'.run = setup.run /\ setup'.plan = setup.plan /\ setup'.route = setup.route
        /\ setup'.action = action /\ setup'.previous = service
        /\ setup'.activated = setup.activated /\ setup'.keeps = setup.keeps
             /\ setup'.before = setup.before
    BY SMTT(60), <2>2, <2>e DEF SetupFields
  <2>4. action \in Rebuilding => discards = TRUE
    BY <2>e DEF Rebuilding
  <2>5. ~setup.keeps
    BY <2>1, <2>2 DEF Holds
  <2>6. IsPlan(service.plan) /\ IsPlan(setup.plan) /\ IsService(service, netGateway.ids)
    BY <2>1 DEF NetShape, IsService
  <2>s. ASSUME IsService(service', netGateway.ids), ActionFits',
               Carries(service, netGateway.id, netGateway.route)', Answers(service, netGuest.stub)',
               Carries(service', netGateway.id, setup.before), action \in NetActions
        PROVE  NetAccount'
    <3>1. NetShape'
      BY <1>1, <2>1, <2>3, <2>6, <2>s DEF NetShape
    <3>2. Holds'
      BY <1>1, <2>1, <2>2, <2>3, <2>5, <2>s DEF Holds
    <3>3. stepFits'
      BY <2>2, <2>3, <2>s DEF stepFits, StepFits, BootSteps, Failures
    <3> QED BY <2>3, <2>s, <3>1, <3>2, <3>3 DEF NetAccount
  <2>7. CASE service.status = "none"
    <3>1. action = "start" /\ service' = fresh
      BY <1>4, <2>7, StartPicked
    <3>2. /\ DOMAIN fresh = ServiceFields /\ fresh.status = "starting" /\ fresh.plan = setup.plan
          /\ fresh.gateway = netGateway.id
      BY SMTT(60) DEF ServiceFields
    <3> HIDE DEF fresh
    <3>3. IsService(service', netGateway.ids)
      BY <2>1, <2>6, <3>1, <3>2 DEF IsService, NetShape
    <3>4. service'.status = "starting"
      BY <3>1, <3>2
    <3>5. ActionFits'
      BY <2>3, <2>4, <2>7, <3>1, <3>4 DEF ActionFits, NetActions, Rebuilding
    <3> QED BY <2>s, <3>1, <3>3, <3>4, <3>5 DEF Carries, Answers, NetActions, Rebuilding
  <2>8. CASE service.status = "ready"
    <3>1. /\ action \in NetActions \ {"start"}
          /\ action = "switch-gateway" =>
               service.plan.mode = setup.plan.mode /\ service.plan.resolver = setup.plan.resolver
          /\ action = "reuse" => service.plan = setup.plan /\ service.gateway = netGateway.id
          /\ action \in {"switch-dns", "restart-proxy", "enable-proxy"} => setup.plan.mode = "tun2socks"
          /\ action = "disable-proxy" => setup.plan.mode # "tun2socks"
      <4>1. Picked(action, service, setup.plan, netGateway.id)
        BY <2>6, <2>8, PickedAction
      <4> QED BY <4>1 DEF Picked
    <3>2. service' = service
      BY <1>4, <3>1
    <3>3. Carries(service, netGateway.id, setup.before)
      BY <2>1 DEF Holds
    <3>4. ActionFits'
      <4>1. action = "switch-gateway" => /\ Carries(setup'.previous, netGateway'.id, setup'.before)
                                         /\ Answers(setup'.previous, netGuest'.stub)
        BY <1>1, <2>1, <2>3, <3>3
      <4>2. action \in {"none"} \cup NetActions /\ action # "start"
        BY <3>1
      <4>3. action = "reuse" => /\ service'.status = "ready" /\ service'.gateway = netGateway'.id
                                /\ service'.plan.mode = setup'.plan.mode
                                /\ service'.plan.resolver = setup'.plan.resolver
        BY <1>1, <2>3, <2>8, <3>1, <3>2
      <4> QED BY <2>3, <2>4, <2>8, <3>1, <4>1, <4>2, <4>3 DEF ActionFits
    <3> QED BY <1>1, <2>1, <2>6, <2>s, <3>1, <3>2, <3>3, <3>4 DEF Carries, Answers
  <2> QED BY <1>4, <2>7, <2>8
<1> QED BY <1>2, <1>3, <1>4

-----------------------------------------------------------------------------
RunnerShape(f) ==
  DOMAIN f = NetRuns /\ \A r \in NetRuns : DOMAIN f[r] = {"at", "plan"} /\ IsPlan(f[r].plan)

LEMMA RunnerMoves ==
  ASSUME RunnerShape(runner), NEW r \in NetRuns, NEW to, NEW plan, IsPlan(plan),
         runner' = [runner EXCEPT ![r] = [at |-> to, plan |-> plan]]
  PROVE  /\ RunnerShape(runner') /\ \A q \in NetRuns \ {r} : runner'[q] = runner[q]
         /\ runner'[r].at = to /\ runner'[r].plan = plan
<1>e. PICK entry : entry = [at |-> to, plan |-> plan]
  OBVIOUS
<1>1. DOMAIN entry = {"at", "plan"} /\ entry.plan = plan /\ entry.at = to
  BY SMTT(60), <1>e
<1>2. runner' = [runner EXCEPT ![r] = entry]
  BY <1>e
<1>3. IsPlan(entry.plan)
  BY <1>1
<1>4. DOMAIN runner = NetRuns
  BY DEF RunnerShape
<1>5. runner'[r] = entry /\ DOMAIN runner' = NetRuns /\ \A q \in NetRuns \ {r} : runner'[q] = runner[q]
  BY <1>2, <1>4
<1>6. RunnerShape(runner')
  BY <1>1, <1>3, <1>5 DEF RunnerShape
<1> QED BY <1>1, <1>5, <1>6

LEMMA RunnerOut ==
  ASSUME RunnerShape(runner), NEW r \in NetRuns, NEW to, runner' = [runner EXCEPT ![r].at = to]
  PROVE  /\ RunnerShape(runner') /\ \A q \in NetRuns \ {r} : runner'[q] = runner[q]
         /\ runner'[r].at = to
<1>e. PICK entry : entry = [runner[r] EXCEPT !.at = to]
  OBVIOUS
<1>0. DOMAIN runner[r] = {"at", "plan"} /\ IsPlan(runner[r].plan)
  BY DEF RunnerShape
<1>1. DOMAIN entry = {"at", "plan"} /\ entry.plan = runner[r].plan /\ entry.at = to
  BY SMTT(60), <1>0, <1>e
<1>2. runner' = [runner EXCEPT ![r] = entry]
  BY <1>e
<1>3. IsPlan(entry.plan)
  BY <1>0, <1>1
<1>4. DOMAIN runner = NetRuns
  BY DEF RunnerShape
<1>5. runner'[r] = entry /\ DOMAIN runner' = NetRuns /\ \A q \in NetRuns \ {r} : runner'[q] = runner[q]
  BY <1>2, <1>4
<1>6. RunnerShape(runner')
  BY <1>1, <1>3, <1>5 DEF RunnerShape
<1> QED BY <1>1, <1>5, <1>6

LEMMA RunnerShaped ==
  ASSUME NetAccount
  PROVE  RunnerShape(runner)
  BY NetStands DEF NetShape, RunnerShape

LEMMA NoSetup ==
  /\ noSetup.at = "none" /\ DOMAIN noSetup = SetupFields /\ noSetup.plan = direct
       /\ noSetup.route = direct
  /\ noSetup.before = direct /\ noSetup.previous = noService /\ noSetup.action = "none"
  /\ noSetup.activated = FALSE /\ noSetup.keeps = FALSE
  BY SMTT(60) DEF noSetup, SetupFields

\* No start is in progress afterwards.
LEMMA Idle ==
  ASSUME setup' = noSetup, DOMAIN netGuest' = GuestFields, DOMAIN netGateway' = GatewayFields,
         RunnerShape(runner'), IsPlan(netGateway'.route), netGateway'.ids \in Nat, netGateway'.id \in Nat,
         netGateway'.id <= netGateway'.ids, IsService(service', netGateway'.ids),
         Carries(service', netGateway'.id, netGateway'.route), Answers(service', netGuest'.stub)
  PROVE  NetAccount'
<1>1. IsService(noService, netGateway'.ids)
  BY ServiceFacts
<1>2. NetShape'
  BY <1>1, NoSetup, PlanFacts DEF NetShape, RunnerShape
<1>3. setup'.at = "none"
  BY NoSetup
<1> QED BY <1>2, <1>3 DEF NetAccount

\* Only the runs move, and not the one that starts the service.
LEMMA RunnersMove ==
  ASSUME NetAccount, UNCHANGED <<service, netGuest, netGateway, setup>>, RunnerShape(runner'),
         setup.at # "none" => runner'[setup.run].at = "preparing"
  PROVE  NetAccount'
<1>1. NetShape'
  BY NetStands DEF NetShape, RunnerShape
<1>2. setup.at # "none" => Holds' /\ ActionFits' /\ stepFits'
  <2>1. setup.at # "none" => Holds'
    BY NetStands DEF Holds, Carries
  <2>2. setup.at # "none" => ActionFits'
    BY NetStands DEF ActionFits, Carries, Answers
  <2>3. setup.at # "none" => stepFits'
    BY NetStands DEF stepFits
  <2> QED BY <2>1, <2>2, <2>3
<1> QED BY <1>1, <1>2, NetStands DEF NetAccount, Carries, Answers

LEMMA ResolvePlanKeeps ==
  ASSUME NetAccount, NEW r \in NetRuns, ResolvePlan(r)
  PROVE  NetAccount'
<1>1. runner[r].at = "out" /\ UNCHANGED <<service, netGuest, netGateway, setup>>
  BY DEF ResolvePlan
<1>2. PICK plan \in {direct} \cup {tun(d, proxySecret) : d \in NetResolvers} :
        runner' = [runner EXCEPT ![r] = [at |-> "waiting", plan |-> plan]]
  BY DEF ResolvePlan
<1>3. IsPlan(plan)
  <2>1. CASE plan = direct
    BY <2>1, PlanFacts
  <2>2. ASSUME NEW d \in NetResolvers, plan = tun(d, proxySecret)
        PROVE  IsPlan(plan)
    <3>1. DOMAIN plan = PlanFields /\ plan.mode = "tun2socks" /\ plan.resolver = d
      BY SMTT(60), <2>2 DEF tun, PlanFields
    <3> QED BY <2>2, <3>1, NetNamesAssumption DEF IsPlan
  <2> QED BY <1>2, <2>1, <2>2
<1>4. RunnerShape(runner') /\ \A q \in NetRuns \ {r} : runner'[q] = runner[q]
  BY <1>2, <1>3, RunnerShaped, RunnerMoves
<1>5. setup.at # "none" => runner'[setup.run].at = "preparing"
  BY <1>1, <1>4, NetStands DEF Holds
<1> QED BY <1>1, <1>4, <1>5, RunnersMove

LEMMA StageTimesOutKeeps ==
  ASSUME NetAccount, NEW r \in NetRuns, StageTimesOut(r)
  PROVE  NetAccount'
<1>1. /\ runner[r].at = "waiting" /\ UNCHANGED <<service, netGuest, netGateway, setup>>
      /\ runner' = [runner EXCEPT ![r].at = "out"]
  BY DEF StageTimesOut
<1>2. RunnerShape(runner') /\ \A q \in NetRuns \ {r} : runner'[q] = runner[q]
  BY <1>1, RunnerShaped, RunnerOut
<1>3. setup.at # "none" => runner'[setup.run].at = "preparing"
  BY <1>1, <1>2, NetStands DEF Holds
<1> QED BY <1>1, <1>2, <1>3, RunnersMove

LEMMA EndRunKeeps ==
  ASSUME NetAccount, NEW r \in NetRuns, EndRun(r)
  PROVE  NetAccount'
<1>1. /\ runner[r].at = "running" /\ UNCHANGED <<service, netGuest, netGateway, setup>>
      /\ runner' = [runner EXCEPT ![r] = [at |-> "out", plan |-> direct]]
  BY DEF EndRun
<1>2. RunnerShape(runner') /\ \A q \in NetRuns \ {r} : runner'[q] = runner[q]
  BY <1>1, RunnerShaped, RunnerMoves, PlanFacts
<1>3. setup.at # "none" => runner'[setup.run].at = "preparing"
  BY <1>1, <1>2, NetStands DEF Holds
<1> QED BY <1>1, <1>2, <1>3, RunnersMove

\* A new gateway has an identity no recorded service names.
LEMMA StageRunRouteKeeps ==
  ASSUME NetAccount, NEW r \in NetRuns, StageRunRoute(r)
  PROVE  NetAccount'
<1>1. /\ runner[r].at = "waiting" /\ netGateway.lock = 0 /\ UNCHANGED <<service, netGuest>>
  BY DEF StageRunRoute
<1>2. NetShape /\ Carries(service, netGateway.id, netGateway.route) /\ Answers(service, netGuest.stub)
  BY NetStands
<1>3. IsPlan(runner[r].plan) /\ IsPlan(netGateway.route) /\ IsService(service, netGateway.ids)
  BY <1>2 DEF NetShape
<1>e. PICK id, ids, before, plan :
        /\ netGateway' = [id |-> id, ids |-> ids, route |-> before, lock |-> r]
        /\ setup' = [noSetup EXCEPT !.run = r, !.at = "plan", !.plan = plan, !.route = runner[r].plan,
                                    !.before = before]
        /\ runner' = [runner EXCEPT ![r] = [at |-> "preparing", plan |-> plan]]
        /\ id = (IF netGateway.id = 0 THEN netGateway.ids + 1 ELSE netGateway.id)
        /\ ids = (IF netGateway.id = 0 THEN netGateway.ids + 1 ELSE netGateway.ids)
        /\ before = (IF netGateway.id = 0 THEN direct ELSE netGateway.route)
        /\ plan = (IF runner[r].plan.mode = "direct" THEN direct ELSE tun(runner[r].plan.resolver, proxySecret))
  BY DEF StageRunRoute
<1>4. /\ DOMAIN netGateway' = GatewayFields /\ netGateway'.id = id /\ netGateway'.ids = ids
      /\ netGateway'.route = before /\ netGateway'.lock = r
  BY SMTT(60), <1>e DEF GatewayFields
<1>5. /\ DOMAIN setup' = SetupFields /\ setup'.run = r /\ setup'.at = "plan" /\ setup'.plan = plan
      /\ setup'.route = runner[r].plan /\ setup'.before = before /\ setup'.action = "none"
      /\ setup'.previous = noService /\ setup'.activated = FALSE /\ setup'.keeps = FALSE
  BY SMTT(60), <1>e, NoSetup DEF SetupFields
<1>6. IsPlan(plan) /\ runner[r].plan.mode = plan.mode
  <2>1. DOMAIN direct = PlanFields /\ direct.mode = "direct"
    BY SMTT(60) DEF direct, PlanFields
  <2>2. CASE runner[r].plan = direct
    BY <1>e, <2>1, <2>2, PlanFacts
  <2>3. CASE runner[r].plan # direct
    <3>1. runner[r].plan.mode = "tun2socks" /\ runner[r].plan.resolver # 0
      BY <1>3, <2>3 DEF IsPlan
    <3>2. plan = tun(runner[r].plan.resolver, proxySecret)
      BY <1>e, <3>1
    <3>3. DOMAIN plan = PlanFields /\ plan.mode = "tun2socks" /\ plan.resolver = runner[r].plan.resolver
      BY SMTT(60), <3>2 DEF tun, PlanFields
    <3> QED BY <3>1, <3>3 DEF IsPlan
  <2> QED BY <2>2, <2>3
<1>7. IsPlan(before)
  BY <1>e, <1>3, PlanFacts
<1>8. /\ ids \in Nat /\ id \in Nat /\ id <= ids /\ id # 0 /\ netGateway.ids <= ids
      /\ id = netGateway.id \/ id > netGateway.ids
  <2>1. netGateway.ids \in Nat /\ netGateway.id \in Nat /\ netGateway.id <= netGateway.ids
    BY <1>2 DEF NetShape
  <2>2. /\ id = (IF netGateway.id = 0 THEN netGateway.ids + 1 ELSE netGateway.id)
        /\ ids = (IF netGateway.id = 0 THEN netGateway.ids + 1 ELSE netGateway.ids)
    BY <1>e
  <2> QED BY SMTT(60), <2>1, <2>2
<1>9. Carries(service, id, before)
  <2>1. CASE netGateway.id # 0
    BY <1>e, <1>2, <2>1 DEF Carries
  <2>2. CASE netGateway.id = 0
    <3>1. service.gateway \in Nat /\ service.gateway <= netGateway.ids /\ netGateway.ids \in Nat
      BY <1>2 DEF NetShape, IsService
    <3>2. id = netGateway.ids + 1
      BY <1>e, <2>2
    <3>3. service.gateway # id
      BY SMTT(60), <3>1, <3>2
    <3> QED BY <3>3 DEF Carries
  <2> QED BY <2>1, <2>2
<1>10. IsService(service, ids) /\ IsService(noService, ids)
  <2>1. service.gateway <= ids
    <3>1. service.gateway \in Nat /\ service.gateway <= netGateway.ids /\ netGateway.ids \in Nat
      BY <1>2 DEF NetShape, IsService
    <3> QED BY SMTT(60), <1>8, <3>1
  <2> QED BY <1>3, <1>8, <2>1, ServiceFacts DEF IsService
<1>11. RunnerShape(runner') /\ runner'[r].at = "preparing"
  <2>1. runner' = [runner EXCEPT ![r] = [at |-> "preparing", plan |-> plan]]
    BY <1>e
  <2> QED BY <1>6, <2>1, RunnerShaped, RunnerMoves
<1>12. NetShape'
  BY <1>1, <1>2, <1>3, <1>4, <1>5, <1>6, <1>7, <1>8, <1>10, <1>11 DEF NetShape, RunnerShape
<1>13. Holds'
  BY <1>1, <1>4, <1>5, <1>6, <1>8, <1>9, <1>11 DEF Holds
<1>14. "none" \notin NetActions
  BY DEF NetActions, Rebuilding
<1>15. ActionFits'
  BY <1>5, <1>14 DEF ActionFits, Rebuilding
<1>16. stepFits'
  BY <1>5, <1>14 DEF stepFits, StepFits, BootSteps, Failures
<1>17. Carries(service, netGateway.id, netGateway.route)' /\ Answers(service, netGuest.stub)'
  BY <1>1, <1>2, <1>4, <1>9
<1> QED BY <1>5, <1>12, <1>13, <1>15, <1>16, <1>17 DEF NetAccount

LEMMA FinishServiceKeeps ==
  ASSUME NetAccount, FinishService
  PROVE  NetAccount'
<1>1. setup.at = "finish" /\ setup.at # "none" /\ netGuest' = netGuest
  BY DEF FinishService
<1>2. /\ NetShape /\ Holds /\ ActionFits /\ Carries(service, netGateway.id, netGateway.route)
      /\ StepFits(setup.at, setup.action, setup.plan.mode, setup.plan.resolver, setup.activated,
           service.status, netGuest)
      /\ setup.plan.mode = "tun2socks" => netGateway.route.mode = "tun2socks"
  BY <1>1, NetStands
<1>3. CASE setupAt("failed") /\ UNCHANGED <<service, runner, netGateway>>
  <2> PICK to : to = "failed"
    OBVIOUS
  <2>0. setup.action \in NetActions
    BY <1>1, <1>2 DEF StepFits, Failures
  <2>1. StepFits(to, setup.action, setup.plan.mode, setup.plan.resolver, setup.activated, service.status,
          netGuest)
    BY <2>0 DEF StepFits, BootSteps, Failures
  <2>2. to # "none" /\ to # "finish" /\ setupAt(to)
    BY <1>3
  <2> QED BY <1>1, <1>3, <2>1, <2>2, OnwardOnly
<1>4. CASE /\ service' = [status |-> "ready", plan |-> setup.plan, gateway |-> netGateway.id,
                          boot |-> netGuest.boot]
           /\ runner' = [runner EXCEPT ![setup.run] = [at |-> "running", plan |-> setup.plan]]
           /\ release(setup.run, netGateway.route)
  <2>1. /\ DOMAIN service' = ServiceFields /\ service'.status = "ready" /\ service'.plan = setup.plan
        /\ service'.gateway = netGateway.id
    BY SMTT(60), <1>4 DEF ServiceFields
  <2>2. /\ DOMAIN netGuest = GuestFields /\ DOMAIN netGateway = GatewayFields /\ IsPlan(netGateway.route)
        /\ IsPlan(setup.plan) /\ netGateway.ids \in Nat /\ netGateway.id \in Nat
        /\ netGateway.id <= netGateway.ids
    BY <1>2 DEF NetShape
  <2>3. setup.run \in NetRuns /\ netGateway.id # 0
    BY <1>2 DEF Holds
  <2>4. RunnerShape(runner')
    BY <1>4, <2>2, <2>3, RunnerShaped, RunnerMoves
  <2>5. setup' = noSetup /\ netGateway' = [netGateway EXCEPT !.lock = 0, !.route = netGateway.route]
    BY <1>4 DEF release
  <2>6. /\ DOMAIN netGateway' = GatewayFields /\ netGateway'.route = netGateway.route
        /\ netGateway'.id = netGateway.id /\ netGateway'.ids = netGateway.ids
    BY SMTT(60), <2>2, <2>5 DEF GatewayFields
  <2>7. IsService(service', netGateway'.ids)
    BY <2>1, <2>2, <2>3, <2>6 DEF IsService
  <2>8. Carries(service', netGateway'.id, netGateway'.route)
    BY <1>2, <2>1, <2>6 DEF Carries
  <2>9. Answers(service', netGuest'.stub)
    BY <1>1, <1>2, <2>1 DEF Answers, StepFits, Provides
  <2> QED BY <1>1, <2>2, <2>4, <2>5, <2>6, <2>7, <2>8, <2>9, Idle
<1> QED BY <1>3, <1>4 DEF FinishService

LEMMA FailServiceKeeps ==
  ASSUME NetAccount, FailService
  PROVE  NetAccount'
<1>1. setup.at \in Failures /\ setup.at # "none"
  BY DEF FailService, Failures
<1>2. /\ NetShape /\ Holds /\ ActionFits /\ Answers(service, netGuest.stub)
      /\ StepFits(setup.at, setup.action, setup.plan.mode, setup.plan.resolver, setup.activated,
           service.status, netGuest)
  BY <1>1, NetStands
<1>3. /\ DOMAIN netGuest = GuestFields /\ DOMAIN netGateway = GatewayFields /\ IsPlan(netGateway.route)
      /\ IsPlan(setup.before) /\ IsPlan(setup.plan) /\ netGateway.ids \in Nat /\ netGateway.id \in Nat
      /\ netGateway.id <= netGateway.ids
      /\ IsService(service, netGateway.ids) /\ IsService(setup.previous, netGateway.ids)
  BY <1>2 DEF NetShape
<1>4. /\ setup.run \in NetRuns /\ (setup.keeps => setup.action = "disable-proxy")
      /\ Carries(service, netGateway.id, setup.before)
  BY <1>2 DEF Holds
<1> DEFINE failed == [status |-> "failed", plan |-> setup.plan, gateway |-> netGateway.id,
                       boot |-> netGuest.boot]
           written == IF setup.at = "failed" THEN service
                      ELSE IF setup.at = "restored" \/ setup.action = "switch-gateway" THEN setup.previous
                      ELSE failed
<1>e. PICK route :
        /\ netGateway' = [netGateway EXCEPT !.lock = 0, !.route = route] /\ setup' = noSetup
        /\ route = (IF setup.keeps /\ setup.activated THEN netGateway.route ELSE setup.before)
        /\ service' = IF setup.discards THEN noService ELSE written
        /\ netGuest' = IF setup.discards THEN cleared(netGuest) ELSE netGuest
        /\ runner' = [runner EXCEPT ![setup.run].at = "out"]
  BY DEF FailService, release
<1>5. /\ DOMAIN failed = ServiceFields /\ failed.status = "failed" /\ failed.plan = setup.plan
      /\ failed.gateway = netGateway.id
  BY SMTT(60) DEF ServiceFields
<1> HIDE DEF failed
<1>6. DOMAIN cleared(netGuest) = GuestFields /\ cleared(netGuest).stub = netGuest.stub
  BY SMTT(60), <1>3 DEF cleared, GuestFields
<1>7. IsPlan(route)
  BY <1>e, <1>3
<1>8. /\ DOMAIN netGateway' = GatewayFields /\ netGateway'.route = route
      /\ netGateway'.id = netGateway.id /\ netGateway'.ids = netGateway.ids
  BY SMTT(60), <1>e, <1>3 DEF GatewayFields
<1>9. RunnerShape(runner')
  BY <1>e, <1>4, RunnerShaped, RunnerOut
<1>10. DOMAIN netGuest' = GuestFields /\ netGuest'.stub = netGuest.stub
  BY <1>e, <1>3, <1>6
<1>11. /\ IsService(service', netGateway.ids) /\ Carries(service', netGateway.id, route)
       /\ Answers(service', netGuest.stub)
  <2>1. CASE setup.discards
    <3>1. service' = noService
      BY <1>e, <2>1
    <3> QED BY <1>3, <3>1, ServiceFacts DEF Carries, Answers
  <2>2. CASE ~setup.discards
    <3>1. service' = written
      BY <1>e, <2>2
    <3>2. setup.action \notin Rebuilding
      BY <1>2, <2>2 DEF ActionFits
    <3>3. setup.at # "restored" /\ ~setup.keeps
      BY <1>2, <1>4, <3>2 DEF StepFits, Rebuilding
    <3>4. route = setup.before
      BY <1>e, <3>3
    <3>5. CASE setup.at = "failed"
      BY <1>2, <1>3, <1>4, <3>1, <3>4, <3>5
    <3>6. CASE setup.at # "failed" /\ setup.action = "switch-gateway"
      <4>1. service' = setup.previous
        BY <3>1, <3>6
      <4>2. Carries(setup.previous, netGateway.id, setup.before) /\ Answers(setup.previous, netGuest.stub)
        BY <1>2, <3>6 DEF ActionFits
      <4> QED BY <1>3, <3>4, <4>1, <4>2
    <3>7. CASE setup.at # "failed" /\ setup.action # "switch-gateway"
      <4>1. service' = failed
        BY <3>1, <3>3, <3>7
      <4>2. service'.status = "failed"
        BY <1>5, <4>1
      <4>3. IsService(service', netGateway.ids)
        BY <1>3, <1>5, <4>1 DEF IsService
      <4> QED BY <4>2, <4>3 DEF Carries, Answers
    <3> QED BY <3>5, <3>6, <3>7
  <2> QED BY <2>1, <2>2
<1>12. setup' = noSetup
  BY <1>e
<1> QED BY <1>3, <1>7, <1>8, <1>9, <1>10, <1>11, <1>12, Idle

LEMMA RotateProxySecretKeeps ==
  ASSUME NetAccount, RotateProxySecret
  PROVE  NetAccount'
<1>1. UNCHANGED <<service, netGuest, runner, setup>>
  BY DEF RotateProxySecret
<1>2. /\ NetShape /\ Carries(service, netGateway.id, netGateway.route) /\ Answers(service, netGuest.stub)
      /\ setup.at # "none" => netGateway.lock # 0
  BY NetStands, NetNamesAssumption DEF Holds
<1>3. CASE netGateway' = netGateway
  <2>1. RunnerShape(runner')
    BY <1>1, RunnerShaped
  <2>2. setup.at # "none" => runner'[setup.run].at = "preparing"
    BY <1>1, NetStands DEF Holds
  <2> QED BY <1>1, <1>3, <2>1, <2>2, RunnersMove
<1>4. CASE /\ netGateway.route.mode = "tun2socks" /\ netGateway.lock = 0
           /\ netGateway' = [netGateway EXCEPT !.route.secret = proxySecret + 1]
  <2>1. setup'.at = "none"
    BY <1>1, <1>2, <1>4
  <2>e. PICK route : route = [netGateway.route EXCEPT !.secret = proxySecret + 1]
    OBVIOUS
  <2>2. DOMAIN netGateway = GatewayFields /\ IsPlan(netGateway.route)
    BY <1>2 DEF NetShape
  <2>3. DOMAIN netGateway.route = PlanFields /\ netGateway.route.resolver # 0
    BY <1>4, <2>2, PlanFacts DEF IsPlan
  <2>4. DOMAIN route = PlanFields /\ route.mode = "tun2socks" /\ route.resolver # 0
    BY SMTT(60), <1>4, <2>e, <2>3 DEF PlanFields
  <2>5. /\ DOMAIN netGateway' = GatewayFields /\ netGateway'.route = route
        /\ netGateway'.id = netGateway.id /\ netGateway'.ids = netGateway.ids
    BY SMTT(60), <1>4, <2>e, <2>2 DEF GatewayFields
  <2>6. IsPlan(route)
    BY <2>4 DEF IsPlan
  <2>7. NetShape'
    BY <1>1, <1>2, <2>5, <2>6 DEF NetShape
  <2>8. Carries(service, netGateway.id, netGateway.route)' /\ Answers(service, netGuest.stub)'
    BY <1>1, <1>2, <2>4, <2>5 DEF Carries, Answers
  <2> QED BY <2>1, <2>7, <2>8 DEF NetAccount
<1> QED BY <1>3, <1>4 DEF RotateProxySecret

LEMMA Booted ==
  ASSUME NEW n, NEW resolv
  PROVE  DOMAIN bootedGuest(n, resolv) = GuestFields /\ bootedGuest(n, resolv).stub = 0
  BY SMTT(60) DEF bootedGuest, GuestFields

LEMMA StopGuestKeeps ==
  ASSUME NetAccount, StopGuest
  PROVE  NetAccount'
<1>1. /\ \A r \in NetRuns : runner[r].at = "out"
      /\ service' = noService /\ UNCHANGED <<runner, setup>>
      /\ netGateway' = [netGateway EXCEPT !.id = 0, !.route = direct]
      /\ \E resolv : netGuest' = bootedGuest(netGuest.boot + 1, resolv)
  BY DEF StopGuest
<1>2. NetShape /\ setup.at = "none"
  BY <1>1, NetStands DEF Holds
<1>3. DOMAIN netGuest' = GuestFields /\ netGuest'.stub = 0
  BY <1>1, Booted
<1>4. DOMAIN netGateway = GatewayFields /\ netGateway.ids \in Nat
  BY <1>2 DEF NetShape
<1>5. /\ DOMAIN netGateway' = GatewayFields /\ netGateway'.route = direct /\ netGateway'.id = 0
      /\ netGateway'.ids = netGateway.ids
  BY SMTT(60), <1>1, <1>4 DEF GatewayFields
<1>6. netGateway'.id \in Nat /\ netGateway'.id <= netGateway'.ids
  BY SMTT(60), <1>4, <1>5
<1>7. IsService(noService, netGateway.ids) /\ noService.status = "none"
  BY <1>4, ServiceFacts
<1>8. NetShape'
  BY <1>1, <1>2, <1>3, <1>5, <1>6, <1>7, PlanFacts DEF NetShape
<1> QED BY <1>1, <1>2, <1>7, <1>8 DEF NetAccount, Carries, Answers

LEMMA GuestRebootsKeeps ==
  ASSUME NetAccount, GuestReboots
  PROVE  NetAccount'
<1>1. /\ setup' = noSetup /\ UNCHANGED <<service, netGateway>>
      /\ runner' = [r \in NetRuns |-> IF runner[r].at = "running" THEN [at |-> "out", plan |-> direct]
                                      ELSE runner[r]]
  BY DEF GuestReboots
<1>2. PICK g : /\ DOMAIN g = GuestFields /\ g.stub = 0
               /\ netGuest' = [g EXCEPT !.pids = netGuest.pids, !.saved = netGuest.saved]
  BY Booted DEF GuestReboots
<1>3. DOMAIN netGuest' = GuestFields /\ netGuest'.stub = 0
  BY SMTT(60), <1>2 DEF GuestFields
<1>4. RunnerShape(runner')
  <2>e. PICK entry : entry = [at |-> "out", plan |-> direct]
    OBVIOUS
  <2>1. DOMAIN entry = {"at", "plan"} /\ entry.plan = direct
    BY SMTT(60), <2>e
  <2>2. runner' = [r \in NetRuns |-> IF runner[r].at = "running" THEN entry ELSE runner[r]]
    BY <1>1, <2>e
  <2> QED BY <2>1, <2>2, RunnerShaped, PlanFacts DEF RunnerShape
<1>5. NetShape /\ Carries(service, netGateway.id, netGateway.route)
  BY NetStands
<1>6. Answers(service', netGuest'.stub)
  BY <1>3 DEF Answers
<1> QED BY <1>1, <1>3, <1>4, <1>5, <1>6, Idle DEF NetShape

LEMMA DaemonCrashesKeeps ==
  ASSUME NetAccount, DaemonCrashes
  PROVE  NetAccount'
<1>1. /\ setup' = noSetup /\ UNCHANGED <<service, netGuest>>
      /\ netGateway' = [netGateway EXCEPT !.id = 0, !.route = direct, !.lock = 0]
      /\ runner' = [r \in NetRuns |-> [at |-> "out", plan |-> direct]]
  BY DEF DaemonCrashes
<1>2. NetShape /\ Answers(service, netGuest.stub)
  BY NetStands
<1>3. /\ DOMAIN netGateway = GatewayFields /\ netGateway.ids \in Nat /\ DOMAIN netGuest = GuestFields
      /\ IsService(service, netGateway.ids)
  BY <1>2 DEF NetShape
<1>4. /\ DOMAIN netGateway' = GatewayFields /\ netGateway'.route = direct /\ netGateway'.id = 0
      /\ netGateway'.ids = netGateway.ids
  BY SMTT(60), <1>1, <1>3 DEF GatewayFields
<1>5. netGateway'.id \in Nat /\ netGateway'.id <= netGateway'.ids
  BY SMTT(60), <1>3, <1>4
<1>6. RunnerShape(runner')
  <2>e. PICK entry : entry = [at |-> "out", plan |-> direct]
    OBVIOUS
  <2>1. DOMAIN entry = {"at", "plan"} /\ entry.plan = direct
    BY SMTT(60), <2>e
  <2>2. runner' = [r \in NetRuns |-> entry]
    BY <1>1, <2>e
  <2> QED BY <2>1, <2>2, PlanFacts DEF RunnerShape
<1>7. Carries(service', netGateway'.id, netGateway'.route)
  BY <1>1, <1>3, <1>4 DEF Carries, IsService
<1> QED BY <1>1, <1>2, <1>3, <1>4, <1>5, <1>6, <1>7, PlanFacts, Idle

LEMMA NetInit ==
  RunNetInit => NetAccount
<1> SUFFICES ASSUME RunNetInit PROVE NetAccount
  OBVIOUS
<1>1. /\ service = noService /\ setup = noSetup /\ netGuest = bootedGuest(1, "original")
      /\ netGateway = [id |-> 0, route |-> direct, lock |-> 0, ids |-> 0]
      /\ runner = [r \in NetRuns |-> [at |-> "out", plan |-> direct]]
  BY DEF RunNetInit
<1>2. DOMAIN netGuest = GuestFields
  BY <1>1, Booted
<1>3. /\ DOMAIN netGateway = GatewayFields /\ netGateway.route = direct /\ netGateway.id = 0
           /\ netGateway.ids = 0
  BY SMTT(60), <1>1 DEF GatewayFields
<1>4. netGateway.id \in Nat /\ netGateway.ids \in Nat /\ netGateway.id <= netGateway.ids
  BY SMTT(60), <1>3
<1>5. IsService(noService, netGateway.ids) /\ noService.status = "none"
  BY <1>4, ServiceFacts
<1>6. DOMAIN runner = NetRuns /\ \A r \in NetRuns : DOMAIN runner[r] = {"at", "plan"}
        /\ IsPlan(runner[r].plan)
  <2>e. PICK entry : entry = [at |-> "out", plan |-> direct]
    OBVIOUS
  <2>1. DOMAIN entry = {"at", "plan"} /\ entry.plan = direct
    BY SMTT(60), <2>e
  <2>2. runner = [r \in NetRuns |-> entry]
    BY <1>1, <2>e
  <2> QED BY <2>1, <2>2, PlanFacts
<1>7. NetShape
  BY <1>1, <1>2, <1>3, <1>4, <1>5, <1>6, NoSetup, PlanFacts DEF NetShape
<1>8. setup.at = "none"
  BY <1>1, NoSetup
<1> QED BY <1>1, <1>5, <1>7, <1>8 DEF NetAccount, Carries, Answers

LEMMA NetStep ==
  NetAccount /\ [RunNetNext]_netVars => NetAccount'
<1> SUFFICES ASSUME NetAccount, [RunNetNext]_netVars PROVE NetAccount'
  OBVIOUS
<1>1. CASE UNCHANGED netVars
  <2>1. UNCHANGED <<service, netGuest, netGateway, setup>> /\ runner' = runner
    BY <1>1 DEF netVars
  <2>2. RunnerShape(runner') /\ (setup.at # "none" => runner'[setup.run].at = "preparing")
    BY <2>1, RunnerShaped, NetStands DEF Holds
  <2> QED BY <2>1, <2>2, RunnersMove
<1>2. ASSUME NEW r \in NetRuns, ResolvePlan(r) \/ StageRunRoute(r) \/ StageTimesOut(r) \/ EndRun(r)
      PROVE  NetAccount'
  BY <1>2, ResolvePlanKeeps, StageRunRouteKeeps, StageTimesOutKeeps, EndRunKeeps
<1> QED BY <1>1, <1>2, ChooseActionKeeps, BeginServiceKeeps, VerifyServiceKeeps, ActivateRouteKeeps,
           HealGuestKeeps, HealDeviceKeeps, CreateDeviceKeeps, RouteThroughDeviceKeeps, MediateDnsKeeps,
           StopServiceKeeps, VerifyDisabledKeeps, ReconfigureDnsKeeps, FinishServiceKeeps,
           FailServiceKeeps,
           RotateProxySecretKeeps, StopGuestKeeps, GuestRebootsKeeps, DaemonCrashesKeeps DEF RunNetNext

\* The account of the service and of the start in progress: a service recorded
\* as ready is carried by its gateway and answered by its resolver, and the
\* guest is at every step of a start what the scripts have made of it.
THEOREM NetAccountHolds == RunNetSpec => []NetAccount
  BY NetInit, NetStep, PTL DEF RunNetSpec

\* Only FinishService lets a run start, with the plan of the start in progress.
LEMMA StartedByFinish ==
  ASSUME NetAccount, [RunNetNext]_netVars, NEW r \in NetRuns,
         runner[r].at # "running", runner'[r].at = "running"
  PROVE  FinishService
<1>1. RunnerShape(runner)
  BY RunnerShaped
<1>2. ASSUME runner' = runner PROVE FALSE
  BY <1>2
<1>3. ASSUME NEW q \in NetRuns, NEW to, to # "running", runner' = [runner EXCEPT ![q].at = to] PROVE FALSE
  BY <1>1, <1>3, RunnerOut
<1>4. ASSUME NEW q \in NetRuns, NEW to, to # "running", NEW plan,
             runner' = [runner EXCEPT ![q] = [at |-> to, plan |-> plan]]
      PROVE  FALSE
  <2>e. PICK entry : entry = [at |-> to, plan |-> plan]
    OBVIOUS
  <2>1. entry.at = to
    BY SMTT(60), <2>e
  <2>2. DOMAIN runner = NetRuns /\ runner' = [runner EXCEPT ![q] = entry]
    BY <1>1, <1>4, <2>e DEF RunnerShape
  <2>3. runner'[q] = entry /\ \A p \in NetRuns \ {q} : runner'[p] = runner[p]
    BY <2>2
  <2> QED BY <1>4, <2>1, <2>3
<1>5. CASE UNCHANGED netVars
  BY <1>2, <1>5 DEF netVars
<1>6. CASE \/ ChooseAction \/ BeginService \/ VerifyService \/ ActivateRoute \/ StopGuest
                \/ RotateProxySecret
  BY <1>2, <1>6 DEF ChooseAction, BeginService, VerifyService, ActivateRoute, StopGuest, RotateProxySecret
<1>7. CASE \/ HealGuest \/ HealDevice \/ CreateDevice \/ RouteThroughDevice \/ MediateDns
           \/ StopService \/ VerifyDisabled \/ ReconfigureDns
  BY <1>2, <1>7 DEF HealGuest, HealDevice, CreateDevice, RouteThroughDevice, MediateDns, StopService,
     VerifyDisabled, ReconfigureDns
<1>8. ASSUME NEW q \in NetRuns, ResolvePlan(q) PROVE FALSE
  <2>1. \E plan : runner' = [runner EXCEPT ![q] = [at |-> "waiting", plan |-> plan]]
    BY <1>8 DEF ResolvePlan
  <2> QED BY <1>4, <2>1
<1>9. ASSUME NEW q \in NetRuns, StageRunRoute(q) PROVE FALSE
  <2>1. \E plan : runner' = [runner EXCEPT ![q] = [at |-> "preparing", plan |-> plan]]
    BY <1>9 DEF StageRunRoute
  <2> QED BY <1>4, <2>1
<1>10. ASSUME NEW q \in NetRuns, StageTimesOut(q) PROVE FALSE
  <2>1. runner' = [runner EXCEPT ![q].at = "out"]
    BY <1>10 DEF StageTimesOut
  <2> QED BY <1>3, <2>1
<1>11. ASSUME NEW q \in NetRuns, EndRun(q) PROVE FALSE
  <2>1. runner' = [runner EXCEPT ![q] = [at |-> "out", plan |-> direct]]
    BY <1>11 DEF EndRun
  <2> QED BY <1>4, <2>1
<1>12. CASE FailService
  <2>1. setup.at # "none" /\ runner' = [runner EXCEPT ![setup.run].at = "out"]
    BY <1>12 DEF FailService
  <2>2. setup.run \in NetRuns
    BY <2>1, NetStands DEF Holds
  <2> QED BY <1>3, <2>1, <2>2
<1>13. CASE GuestReboots
  <2>e. PICK entry : entry = [at |-> "out", plan |-> direct]
    OBVIOUS
  <2>1. entry.at = "out"
    BY SMTT(60), <2>e
  <2>2. runner' = [q \in NetRuns |-> IF runner[q].at = "running" THEN entry ELSE runner[q]]
    BY <1>13, <2>e DEF GuestReboots
  <2> QED BY <2>1, <2>2
<1>14. CASE DaemonCrashes
  <2>e. PICK entry : entry = [at |-> "out", plan |-> direct]
    OBVIOUS
  <2>1. entry.at = "out"
    BY SMTT(60), <2>e
  <2>2. runner' = [q \in NetRuns |-> entry]
    BY <1>14, <2>e DEF DaemonCrashes
  <2> QED BY <2>1, <2>2
<1> QED BY <1>5, <1>6, <1>7, <1>8, <1>9, <1>10, <1>11, <1>12, <1>13, <1>14 DEF RunNetNext

\* A run that starts has the network of its plan, whatever earlier runs left
\* behind, however often the service was rebuilt, rebooted or half cleaned
\* (StartRunNetworkService, BootstrapScript, verifyReusedEnvironmentNetwork).
THEOREM RunsStartMediated == RunNetSpec => RunStartsMediated
<1> DEFINE Starts ==
      \A r \in NetRuns :
        runner[r].at # "running" /\ runner'[r].at = "running" =>
          IF runner'[r].plan = direct THEN ~netGuest.device /\ netGuest.route = "direct"
          ELSE /\ netGuest.device /\ netGuest.route = "tun" /\ netGuest.proxy
               /\ netGuest.stub = runner'[r].plan.resolver /\ netGuest.resolv = "stub"
               /\ netGateway'.route.mode = "tun2socks"
<1>1. NetAccount /\ [RunNetNext]_netVars => [Starts]_netVars
  <2> SUFFICES ASSUME NetAccount, [RunNetNext]_netVars, NEW r \in NetRuns,
                      runner[r].at # "running", runner'[r].at = "running"
               PROVE  IF runner'[r].plan = direct THEN ~netGuest.device /\ netGuest.route = "direct"
                      ELSE /\ netGuest.device /\ netGuest.route = "tun" /\ netGuest.proxy
                           /\ netGuest.stub = runner'[r].plan.resolver /\ netGuest.resolv = "stub"
                           /\ netGateway'.route.mode = "tun2socks"
    OBVIOUS
  <2>1. FinishService
    BY StartedByFinish
  <2>2. setup.at = "finish" /\ setup.at # "none"
    BY <2>1 DEF FinishService
  <2>3. /\ NetShape /\ Holds
        /\ StepFits(setup.at, setup.action, setup.plan.mode, setup.plan.resolver, setup.activated,
             service.status, netGuest)
        /\ setup.plan.mode = "tun2socks" => netGateway.route.mode = "tun2socks"
    BY <2>2, NetStands
  <2>4. Provides(setup.plan.mode, setup.plan.resolver, netGuest)
    BY <2>2, <2>3 DEF StepFits
  <2>5. /\ runner' = [runner EXCEPT ![setup.run] = [at |-> "running", plan |-> setup.plan]]
        /\ netGateway' = [netGateway EXCEPT !.lock = 0, !.route = netGateway.route]
    BY <2>1 DEF FinishService, release
  <2>6. IsPlan(setup.plan) /\ DOMAIN netGateway = GatewayFields /\ setup.run \in NetRuns
    BY <2>3 DEF NetShape, Holds
  <2>7. runner'[r].plan = setup.plan
    <3>1. runner'[setup.run].plan = setup.plan /\ \A q \in NetRuns \ {setup.run} : runner'[q] = runner[q]
      BY ZenonT(60), <2>5, <2>6, RunnerShaped, RunnerMoves
    <3> QED BY <3>1
  <2>8. netGateway'.route = netGateway.route
    BY SMTT(60), <2>5, <2>6 DEF GatewayFields
  <2>9. setup.plan = direct <=> setup.plan.mode # "tun2socks"
    BY <2>6, PlanFacts
  <2> QED BY <2>3, <2>4, <2>7, <2>8, <2>9 DEF Provides
<1> QED BY <1>1, NetAccountHolds, PTL DEF RunNetSpec, RunStartsMediated
====

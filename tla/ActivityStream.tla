--------------------------- MODULE ActivityStream ---------------------------
(* One run's activity observation: the observer helper in the guest writes   *)
(* events and cumulative drop counters to the session supervisor, whose      *)
(* reader moves them to a bounded relay queue; the relay writes them to the  *)
(* backend's stream; the pump hands batches to the daemon's activity service *)
(* which checks, redacts and stores them and keeps the host's coverage       *)
(* timelines.  Secret changes replace the redaction snapshots of live        *)
(* sessions meanwhile.                                                       *)
EXTENDS Integers, Sequences, FiniteSets, SequencesExt

CONSTANTS Subsystems, MaxObserved, RelayQueue, MaxStreamFaults,
          MaxSecretChanges, MaxRestarts

VARIABLES helper, stdout, supervisor, relay, conn, pump, activity, kept,
          secretStore, streamBudget

streamVars == <<helper, stdout, supervisor, relay, conn, pump, activity, kept,
                secretStore, streamBudget>>

NoneLost == [s \in Subsystems |-> 0]

StreamInit ==
    /\ helper = [run |-> "off", seq |-> 0, drops |-> NoneLost,
                 told |-> NoneLost]
    /\ stdout = <<>>
    /\ supervisor = [phase |-> "off", reader |-> "on", dropped |-> 0,
                     proved |-> TRUE]
    /\ relay = [queue |-> <<>>, state |-> "open"]
    /\ conn = [frames |-> <<>>, open |-> TRUE, done |-> FALSE]
    /\ pump = [phase |-> "off", result |-> "none"]
    /\ activity = [phase |-> "none", next |-> 1, drops |-> NoneLost,
                   final |-> FALSE, spoiled |-> FALSE, goodbye |-> FALSE,
                   transport |-> FALSE, observer |-> "open", snapshot |-> 0,
                   state |-> [s \in Subsystems |-> "none"],
                   lost |-> NoneLost, reason |-> "none"]
    /\ kept = {}
    /\ secretStore = [generation |-> 1, writer |-> "idle"]
    /\ streamBudget = [events |-> MaxObserved, faults |-> MaxStreamFaults,
                       secrets |-> MaxSecretChanges, restarts |-> MaxRestarts,
                       spent |-> [s \in Subsystems |-> 0]]

----------------------------------------------------------------------------
(* Coverage timelines.  A mark that is made is persisted with it.          *)

live(a) == a.phase = "ready" /\ a.observer = "open"

\* Timeline.Transition for one subsystem: loss keeps Unavailable, and makes
\* anything else Partial
lossOf(a, s, n) ==
    [a EXCEPT !.lost[s] = @ + n,
              !.state[s] = IF @ = "unavailable" THEN @ ELSE "partial"]

\* markSubsystemLossLocked
markSubsystemLoss(a, s, n) == IF n = 0 THEN a ELSE lossOf(a, s, n)

\* markAllLossLocked
markAllLoss(a, n) ==
    [a EXCEPT !.lost = [s \in Subsystems |-> @[s] + n],
              !.state = [s \in Subsystems |->
                            IF @[s] = "unavailable" THEN @[s] ELSE "partial"]]

\* markAllStateLocked(Unavailable, reason, 0)
markAllUnavailable(a, reason) ==
    [a EXCEPT !.state = [s \in Subsystems |-> "unavailable"],
              !.reason = reason]

\* rejectInvalidLocked
rejectInvalid(a) ==
    markAllLoss([a EXCEPT !.spoiled = @ \/ a.final], 1)

\* exactFinalReceiptLocked
exactFinalReceipt(a) == a.final /\ ~a.spoiled

----------------------------------------------------------------------------
(* Preparation.                                                            *)

\* activityService.Prepare under the read side of the redaction lock; a
\* snapshot that cannot be built leaves the session failing closed
PrepareActivity ==
    /\ activity.phase = "none"
    /\ secretStore.writer = "idle"
    /\ \/ /\ activity' = [activity EXCEPT !.phase = "prepared",
                             !.snapshot = secretStore.generation]
          /\ UNCHANGED streamBudget
       \/ /\ streamBudget.faults > 0
          /\ streamBudget' = [streamBudget EXCEPT !.faults = @ - 1]
          /\ activity' = [activity EXCEPT !.phase = "prepared"]
    /\ UNCHANGED <<helper, stdout, supervisor, relay, conn, pump, kept,
                   secretStore>>

\* prepareObserverSession: the helper is launched and its first heartbeat is
\* read; a failure aborts the run before the target starts
StartObserver ==
    /\ activity.phase = "prepared"
    /\ supervisor.phase = "off"
    /\ \/ /\ supervisor' = [supervisor EXCEPT !.phase = "running"]
          /\ helper' = [helper EXCEPT !.run = "on", !.seq = 1]
          /\ stdout' = <<[kind |-> "beat", seq |-> 1, drops |-> NoneLost]>>
          /\ UNCHANGED <<streamBudget, activity>>
       \/ /\ streamBudget.faults > 0
          /\ streamBudget' = [streamBudget EXCEPT !.faults = @ - 1]
          /\ supervisor' = [supervisor EXCEPT !.phase = "aborted"]
          /\ activity' = [activity EXCEPT !.phase = "closed"]
          /\ UNCHANGED <<helper, stdout>>
    /\ UNCHANGED <<relay, conn, pump, kept, secretStore>>

\* registerBoundary: the timelines start from the supervisor's summary, and
\* a session without a snapshot starts with a redaction loss
RegisterBoundary ==
    LET a == [activity EXCEPT !.phase = "ready",
                 !.state = [s \in Subsystems |-> "available"],
                 !.lost = [s \in Subsystems |-> supervisor.dropped]]
        b == IF supervisor.dropped = 0 THEN a
             ELSE [a EXCEPT !.state = [s \in Subsystems |-> "partial"]]
    IN  /\ activity.phase = "prepared"
        /\ supervisor.phase = "running"
        /\ pump.phase = "off"
        /\ activity' = IF activity.snapshot = 0 THEN markAllLoss(b, 1) ELSE b
        /\ pump' = [pump EXCEPT !.phase = "reading"]
        /\ UNCHANGED <<helper, stdout, supervisor, relay, conn, kept,
                       secretStore, streamBudget>>

----------------------------------------------------------------------------
(* The observer helper (cmd/hideout-observer).                             *)

helperStep == UNCHANGED <<supervisor, relay, conn, pump, activity, kept,
                          secretStore>>

emit(envelope) ==
    /\ stdout' = Append(stdout, envelope)
    /\ helper' = [helper EXCEPT !.seq = @ + 1]

\* emitter.record: an event of a subsystem, numbered within it
EmitEvent(s) ==
    /\ helper.run = "on"
    /\ streamBudget.events > 0
    /\ streamBudget' = [streamBudget EXCEPT !.events = @ - 1,
                           !.spent[s] = @ + 1]
    /\ emit([kind |-> "event", seq |-> helper.seq + 1, sub |-> s,
             id |-> streamBudget.spent[s] + 1])
    /\ helperStep

\* noteDrop and the kernel's counters: an event that is only counted
DropEvent(s) ==
    /\ helper.run = "on"
    /\ streamBudget.events > 0
    /\ streamBudget' = [streamBudget EXCEPT !.events = @ - 1,
                           !.spent[s] = @ + 1]
    /\ helper' = [helper EXCEPT !.drops[s] = @ + 1]
    /\ UNCHANGED stdout /\ helperStep

\* the periodic heartbeat carries the cumulative counters
EmitHeartbeat ==
    /\ helper.run = "on"
    /\ supervisor.phase = "running"
    /\ helper.drops # helper.told
    /\ stdout' = Append(stdout, [kind |-> "beat", seq |-> helper.seq + 1,
                                 drops |-> helper.drops])
    /\ helper' = [helper EXCEPT !.seq = @ + 1, !.told = helper.drops]
    /\ UNCHANGED streamBudget /\ helperStep

\* runObserver's shutdown: the collectors stop and the final heartbeat is
\* written even when stopping them failed; then the exit status says which
StopHelper ==
    /\ helper.run = "on"
    /\ supervisor.phase = "stopping"
    /\ stdout' = Append(stdout, [kind |-> "final", seq |-> helper.seq + 1,
                                 drops |-> helper.drops])
    /\ \/ /\ helper' = [helper EXCEPT !.run = "exited", !.seq = @ + 1]
          /\ UNCHANGED streamBudget
       \/ /\ streamBudget.faults > 0
          /\ streamBudget' = [streamBudget EXCEPT !.faults = @ - 1]
          /\ helper' = [helper EXCEPT !.run = "failed", !.seq = @ + 1]
    /\ helperStep

\* the helper dies; what it collected and did not write is gone with it
KillHelper ==
    \E s \in Subsystems :
        /\ helper.run = "on"
        /\ streamBudget.faults > 0
        /\ streamBudget' = [streamBudget EXCEPT !.faults = @ - 1,
                               !.spent[s] = @ + 1]
        /\ helper' = [helper EXCEPT !.run = "failed"]
        /\ UNCHANGED stdout /\ helperStep
----------------------------------------------------------------------------
(* The session supervisor (cmd/hideout-session-supervisor).                *)

supervisorStep == UNCHANGED <<helper, pump, activity, kept, secretStore>>

\* degradeCoverage
degraded(sup) == [sup EXCEPT !.dropped = @ + 1]

whileRunning(sup) == IF supervisor.phase = "running" THEN degraded(sup) ELSE sup

\* readObservations: EnqueueWait waits for room.  A relay whose stream ended
\* still takes frames until its queue is full.
ReadObservation ==
    /\ supervisor.reader = "on"
    /\ stdout # <<>>
    /\ Len(relay.queue) < RelayQueue
    /\ relay.state \in {"open", "ended"}
    /\ stdout' = Tail(stdout)
    /\ relay' = [relay EXCEPT !.queue = Append(@, Head(stdout))]
    /\ UNCHANGED <<conn, supervisor, streamBudget>> /\ supervisorStep

\* readObservations' exits: the end of the helper's output, a relay that is
\* closed, or a frame that cannot be read
ReaderEnds ==
    /\ supervisor.reader = "on"
    /\ supervisor.phase \in {"running", "stopping", "closing"}
    /\ \/ /\ stdout = <<>> /\ helper.run \in {"exited", "failed"}
          /\ supervisor' = [whileRunning(supervisor) EXCEPT !.reader = "off"]
          /\ UNCHANGED streamBudget
       \/ /\ stdout # <<>>
          /\ \/ relay.state = "closed"
             \/ relay.state = "ended" /\ Len(relay.queue) = RelayQueue
          /\ supervisor' = [whileRunning(supervisor) EXCEPT !.reader = "off"]
          /\ UNCHANGED streamBudget
       \/ /\ stdout # <<>> /\ streamBudget.faults > 0
          /\ streamBudget' = [streamBudget EXCEPT !.faults = @ - 1]
          /\ supervisor' = [degraded(supervisor) EXCEPT !.reader = "off"]
    /\ UNCHANGED <<stdout, relay, conn>> /\ supervisorStep

\* observerRelay.stream: the next admitted frame
RelayFrame ==
    /\ relay.state \in {"open", "draining"}
    /\ supervisor.phase # "off" /\ pump.phase # "off"
    /\ relay.queue # <<>>
    /\ relay' = [relay EXCEPT !.queue = Tail(@)]
    /\ conn' = [conn EXCEPT !.frames = Append(@, Head(relay.queue))]
    /\ UNCHANGED <<stdout, supervisor, streamBudget>> /\ supervisorStep

\* the connection fails with frames under way; watchRelay degrades the
\* coverage unless the supervisor is already stopping
RelayBreaks ==
    /\ relay.state \in {"open", "draining"}
    /\ pump.phase = "reading"
    /\ streamBudget.faults > 0
    /\ streamBudget' = [streamBudget EXCEPT !.faults = @ - 1]
    /\ relay' = [relay EXCEPT !.state = "ended"]
    /\ \E n \in 0..Len(conn.frames) :
          conn' = [frames |-> SubSeq(conn.frames, 1, n), open |-> FALSE,
                   done |-> TRUE]
    /\ supervisor' = whileRunning(supervisor)
    /\ UNCHANGED stdout /\ supervisorStep

\* The target exits: Stop closes the helper's input.
TargetExits ==
    /\ supervisor.phase = "running"
    /\ pump.phase # "off"
    /\ supervisor' = [supervisor EXCEPT !.phase = "stopping"]
    /\ UNCHANGED <<stdout, relay, conn, streamBudget>> /\ supervisorStep

\* Stop, the helper gone and its output read: only a clean exit lets the
\* relay drain; otherwise it is closed with what it still holds
StopObserver ==
    /\ supervisor.phase = "stopping"
    /\ helper.run \in {"exited", "failed"}
    /\ supervisor.reader = "off"
    /\ supervisor' = [supervisor EXCEPT !.phase = "closing"]
    /\ IF helper.run = "exited" /\ relay.state = "open"
       THEN /\ relay' = [relay EXCEPT !.state = "draining"]
            /\ UNCHANGED conn
       ELSE /\ relay' = [queue |-> <<>>, state |-> "closed"]
            /\ conn' = [conn EXCEPT !.open = FALSE, !.done = TRUE]
    /\ UNCHANGED <<stdout, streamBudget>> /\ supervisorStep

\* Stop, the helper or its reader not finished within the bound: the helper
\* is killed and both transports are closed
StopTimesOut ==
    /\ supervisor.phase = "stopping"
    /\ helper.run = "on" \/ supervisor.reader = "on"
    /\ \/ /\ streamBudget.faults > 0
          /\ streamBudget' = [streamBudget EXCEPT !.faults = @ - 1]
       \/ /\ supervisor.reader = "off" \/ relay.state = "ended"
          /\ UNCHANGED streamBudget
    /\ supervisor' = [supervisor EXCEPT !.phase = "closing",
                         !.reader = "off"]
    /\ helper' = [helper EXCEPT !.run = "failed"]
    /\ relay' = [queue |-> <<>>, state |-> "closed"]
    /\ conn' = [conn EXCEPT !.open = FALSE, !.done = TRUE]
    /\ UNCHANGED <<stdout, pump, activity, kept, secretStore>>

\* writeGoodbye, once everything admitted has been written
RelayGoodbye ==
    /\ relay.state = "draining"
    /\ relay.queue = <<>>
    /\ relay' = [relay EXCEPT !.state = "drained"]
    /\ conn' = [frames |-> Append(conn.frames, [kind |-> "goodbye", seq |-> 0]),
                open |-> FALSE, done |-> TRUE]
    /\ UNCHANGED <<stdout, supervisor, streamBudget>> /\ supervisorStep

\* DrainAndClose's bound passes: the destructive close
DrainTimesOut ==
    /\ relay.state = "draining"
    /\ streamBudget.faults > 0
    /\ streamBudget' = [streamBudget EXCEPT !.faults = @ - 1]
    /\ relay' = [queue |-> <<>>, state |-> "closed"]
    /\ conn' = [conn EXCEPT !.open = FALSE, !.done = TRUE]
    /\ UNCHANGED <<stdout, supervisor>> /\ supervisorStep

\* Stop returns and the completion is written: it carries the supervisor's
\* own count, and says whether the cleanup (the drain included) was proved
SendCompletion ==
    LET clean == relay.state = "drained" /\ helper.run = "exited"
    IN  /\ supervisor.phase = "closing"
        /\ relay.state \in {"drained", "closed", "ended"}
        /\ supervisor' = [IF clean THEN supervisor ELSE degraded(supervisor)
                             EXCEPT !.phase = "completed", !.proved = clean]
        /\ UNCHANGED <<stdout, relay, conn, streamBudget>> /\ supervisorStep
----------------------------------------------------------------------------
(* The daemon: batches from the backend's stream.                          *)

\* Mutant of ingestHeartbeat: the counters are recorded, the loss is not.
ingestHeartbeatQuietly(a, e) ==
    [a EXCEPT !.drops = e.drops, !.final = e.kind = "final"]

\* ingestHeartbeatLocked: the growth of each subsystem's counter is its loss
ingestHeartbeat(a, e) ==
    LET grown(b, s) == markSubsystemLoss(b, s, e.drops[s] - a.drops[s])
    IN  [FoldLeft(grown, a, SetToSeq(Subsystems)) EXCEPT
            !.drops = e.drops, !.final = e.kind = "final"]

\* prepareEnvelopeLocked, for one envelope of a batch
prepareEnvelope(acc, e) ==
    LET a == acc.a
        late == a.final /\ e.kind # "goodbye"
        seen == IF e.kind = "goodbye" THEN a
                ELSE IF e.seq > a.next
                THEN [markAllLoss(a, e.seq - a.next) EXCEPT !.next = e.seq + 1]
                ELSE [a EXCEPT !.next = e.seq + 1]
        invalid == [acc EXCEPT !.a = rejectInvalid(a), !.err = "invalid"]
    IN  IF acc.err # "none" THEN acc
        ELSE IF ~live(a) THEN [acc EXCEPT !.err = "error"]
        ELSE IF a.goodbye \/ late THEN invalid
        ELSE IF e.kind = "goodbye"
        THEN IF exactFinalReceipt(a) THEN [acc EXCEPT !.a.goodbye = TRUE]
             ELSE invalid
        ELSE IF e.seq < a.next THEN acc
        ELSE IF e.kind \in {"beat", "final"}
        THEN [acc EXCEPT !.a = ingestHeartbeat(seen, e)]
        ELSE IF seen.snapshot = 0
        THEN [acc EXCEPT !.a = markSubsystemLoss(seen, e.sub, 1)]
        ELSE [acc EXCEPT !.a = seen,
                 !.out = @ \cup {[sub |-> e.sub, id |-> e.id,
                                  snapshot |-> seen.snapshot,
                                  secrets |-> secretStore.generation]}]

\* IngestBatch under the read side of the redaction lock; what was prepared
\* before an invalid envelope is persisted.  pumpLimaObserverStream ends at
\* the first error, and after goodbye and the end of the stream.
PumpBatch ==
    /\ pump.phase = "reading"
    /\ secretStore.writer = "idle"
    /\ \E n \in 1..Len(conn.frames) :
          LET acc == FoldLeft(prepareEnvelope,
                              [a |-> activity, out |-> {}, err |-> "none"],
                              SubSeq(conn.frames, 1, n))
          IN  /\ activity' = acc.a
              /\ conn' = [conn EXCEPT !.frames = SubSeq(@, n + 1, Len(@))]
              /\ \/ /\ kept' = kept \cup acc.out
                    /\ pump' = IF acc.err # "none"
                               THEN [phase |-> "ended", result |-> acc.err]
                               ELSE IF acc.a.goodbye
                               THEN [phase |-> "ended", result |-> "nil"]
                               ELSE pump
                    /\ UNCHANGED streamBudget
                 \/ /\ acc.out # {}
                    /\ streamBudget.faults > 0
                    /\ streamBudget' = [streamBudget EXCEPT !.faults = @ - 1]
                    /\ pump' = [phase |-> "ended", result |-> "error"]
                    /\ UNCHANGED kept
    /\ UNCHANGED <<helper, stdout, supervisor, relay, secretStore>>

\* the stream ends, or is cut, without goodbye
PumpEnds ==
    /\ pump.phase = "reading"
    /\ conn.frames = <<>> /\ conn.done
    /\ pump' = [phase |-> "ended", result |-> "error"]
    /\ UNCHANGED <<helper, stdout, supervisor, relay, conn, activity, kept,
                   secretStore, streamBudget>>

\* observerExited: only goodbye with an exact final receipt is a clean end.
\* An invalid observation was accounted when it was rejected (observerExitLoss).
observerExited(a, cause) ==
    LET clean == cause = "nil" /\ a.goodbye /\ exactFinalReceipt(a)
        b == IF cause = "nil" /\ ~clean THEN rejectInvalid(a) ELSE a
        c == [b EXCEPT !.observer = "closed", !.snapshot = 0,
                       !.transport = clean]
        d == IF cause = "error" THEN markAllLoss(c, 1) ELSE c
    IN  IF a.observer = "closed" THEN a
        ELSE IF a.phase # "ready"
        THEN [a EXCEPT !.observer = "closed", !.snapshot = 0]
        ELSE markAllUnavailable(d, IF clean THEN "target-exited"
                                   ELSE "daemon-disconnected")

\* reconcileCompletionLocked: loss that only the supervisor saw
reconcileCompletion(a, dropped) ==
    LET raise(b, s) == IF dropped > b.lost[s]
                       THEN lossOf(b, s, dropped - b.lost[s]) ELSE b
    IN  FoldLeft(raise, a, SetToSeq(Subsystems))

\* sessionExited with the supervisor's completion, the observer being closed
sessionExited(a, dropped, proved) ==
    LET b == [a EXCEPT !.phase = "closed", !.snapshot = 0]
        c == reconcileCompletion(b, dropped)
        receipt == a.goodbye /\ a.transport /\ exactFinalReceipt(a)
    IN  IF a.phase # "ready" THEN b
        ELSE IF proved /\ receipt THEN markAllUnavailable(c, "target-exited")
        ELSE markAllUnavailable(IF proved THEN rejectInvalid(c) ELSE c,
                                "cleanup-unproved")

daemonStep == UNCHANGED <<helper, stdout, supervisor, relay, conn, kept,
                          secretStore>>

\* runSupervisorProtocol, the pump's result before the completion
ObserverResult ==
    /\ pump.phase = "ended"
    /\ activity.phase = "ready" /\ activity.observer = "open"
    /\ activity' = observerExited(activity, pump.result)
    /\ UNCHANGED <<pump, streamBudget>> /\ daemonStep

\* runSupervisorProtocol, the completion: it waits for the pump within a
\* bound, closes the observer with its result and then the session
CompletionArrives ==
    /\ supervisor.phase = "completed"
    /\ activity.phase = "ready"
    /\ \/ /\ pump.phase = "ended"
          /\ activity' = sessionExited(observerExited(activity, pump.result),
                             supervisor.dropped, supervisor.proved)
          /\ UNCHANGED <<pump, streamBudget>>
       \/ /\ pump.phase = "reading"
          /\ streamBudget.faults > 0
          /\ streamBudget' = [streamBudget EXCEPT !.faults = @ - 1]
          /\ pump' = [phase |-> "ended", result |-> "error"]
          /\ activity' = sessionExited(observerExited(activity, "error"),
                             supervisor.dropped, supervisor.proved)
    /\ daemonStep

\* the control connection is lost: the session is closed without a completion
SessionLost ==
    /\ activity.phase = "ready"
    /\ streamBudget.faults > 0
    /\ streamBudget' = [streamBudget EXCEPT !.faults = @ - 1]
    /\ activity' = markAllUnavailable(
                       [IF activity.observer = "open"
                        THEN markAllLoss(activity, 1) ELSE activity
                        EXCEPT !.phase = "closed", !.observer = "closed",
                               !.snapshot = 0], "cleanup-unproved")
    /\ pump' = [phase |-> "ended", result |-> "error"]
    /\ daemonStep

----------------------------------------------------------------------------
(* Secret changes (beginSecretMutation and its release).                   *)

secretStep == UNCHANGED <<helper, stdout, supervisor, relay, conn, pump, kept>>

\* Mutant of BeginSecretMutation: live snapshots stay in use.
BeginSecretMutationOnly ==
    /\ secretStore.writer = "idle"
    /\ streamBudget.secrets > 0
    /\ streamBudget' = [streamBudget EXCEPT !.secrets = @ - 1]
    /\ secretStore' = [secretStore EXCEPT !.writer = "mutating"]
    /\ UNCHANGED activity /\ secretStep

\* the write side of the lock: live snapshots are destroyed first
BeginSecretMutation ==
    LET cleared == [activity EXCEPT !.snapshot = 0]
    IN  /\ secretStore.writer = "idle"
        /\ streamBudget.secrets > 0
        /\ streamBudget' = [streamBudget EXCEPT !.secrets = @ - 1]
        /\ secretStore' = [secretStore EXCEPT !.writer = "mutating"]
        /\ activity' = IF activity.snapshot # 0 /\ live(activity)
                       THEN markAllLoss(cleared, 1) ELSE cleared
        /\ secretStep

CommitSecretChange ==
    /\ secretStore.writer = "mutating"
    /\ secretStore' = [generation |-> secretStore.generation + 1,
                       writer |-> "committed"]
    /\ UNCHANGED <<activity, streamBudget>> /\ secretStep

\* refreshRedactionSnapshots: open sessions get a snapshot of the state the
\* keychain is in now, or stay without one
refresh(a, generation) ==
    IF a.phase \in {"prepared", "ready"} /\ a.observer = "open"
       /\ a.snapshot = 0
    THEN [a EXCEPT !.snapshot = generation] ELSE a

ReleaseSecretMutation ==
    /\ secretStore.writer \in {"mutating", "committed"}
    /\ secretStore' = [secretStore EXCEPT !.writer = "idle"]
    /\ \/ /\ activity' = refresh(activity, secretStore.generation)
          /\ UNCHANGED streamBudget
       \/ /\ streamBudget.faults > 0
          /\ streamBudget' = [streamBudget EXCEPT !.faults = @ - 1]
          /\ UNCHANGED activity
    /\ secretStep

\* The daemon goes down: the timelines stay as they were persisted, and no
\* later daemon touches this session's.
DaemonStops ==
    /\ streamBudget.restarts > 0
    /\ activity.phase \in {"prepared", "ready"}
    /\ streamBudget' = [streamBudget EXCEPT !.restarts = @ - 1]
    /\ activity' = [activity EXCEPT !.phase = "orphaned", !.observer = "closed",
                                    !.snapshot = 0]
    /\ pump' = [phase |-> "ended", result |-> "error"]
    /\ conn' = [frames |-> <<>>, open |-> FALSE, done |-> TRUE]
    /\ relay' = [relay EXCEPT !.state = IF @ \in {"open", "draining"}
                                        THEN "ended" ELSE @]
    /\ supervisor' = whileRunning(supervisor)
    /\ secretStore' = [secretStore EXCEPT !.writer = "idle"]
    /\ UNCHANGED <<helper, stdout, kept>>

StreamNext ==
    \/ PrepareActivity \/ StartObserver \/ RegisterBoundary
    \/ \E s \in Subsystems : EmitEvent(s) \/ DropEvent(s)
    \/ EmitHeartbeat \/ StopHelper \/ KillHelper
    \/ ReadObservation \/ ReaderEnds \/ RelayFrame \/ RelayBreaks
    \/ TargetExits \/ StopObserver \/ StopTimesOut \/ RelayGoodbye
    \/ DrainTimesOut \/ SendCompletion
    \/ PumpBatch \/ PumpEnds \/ ObserverResult \/ CompletionArrives
    \/ SessionLost
    \/ BeginSecretMutation \/ CommitSecretChange \/ ReleaseSecretMutation
    \/ DaemonStops

StreamSpec == StreamInit /\ [][StreamNext]_streamVars

----------------------------------------------------------------------------
(* Properties.                                                             *)

missed(s) == streamBudget.spent[s] - Cardinality({k \in kept : k.sub = s})

\* When the daemon has closed a session, a subsystem whose timeline shows no
\* loss has every event it produced in the store, whatever the helper, the
\* reader, the relay, the connection, the pump or a secret change dropped on
\* the way (sessionExited, observerExited, ingestHeartbeatLocked).
LossIsAccounted ==
    activity.phase = "closed" =>
        \A s \in Subsystems : activity.state[s] = "unavailable" =>
            missed(s) = 0 \/ activity.lost[s] > 0

\* A record is stored only after redaction with a snapshot of the secrets as
\* they were at that moment (beginSecretMutation's lock and refresh).
RedactionIsCurrent == \A k \in kept : k.snapshot = k.secrets

\* The stored coverage of a session whose daemon stopped does not vouch for a
\* subsystem that has lost events.
CoverageSurvivesRestart ==
    activity.phase = "orphaned" /\ helper.run # "on" =>
        \A s \in Subsystems : activity.state[s] = "available" => missed(s) = 0
============================================================================

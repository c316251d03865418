---------------------------- MODULE DnsTransition ----------------------------
(***************************************************************************)
(* A live change of the resolver of a running environment: the candidate   *)
(* that drives the guest, its journal transition.json, state.json, and the *)
(* observation a restarted daemon makes                                    *)
(* (manager/live_network_transition.go, live_network_transition_recovery.go,*)
(* network_transition.go, network_runtime.go, daemon/sessions.go,          *)
(* daemon/network_recovery_runtime.go, backend/lima/lima.go).              *)
(*                                                                         *)
(* The guest has one stub, on the old ("from") or the new ("desired")      *)
(* resolver, or none.  A command of the guest is over when its call        *)
(* returns.                                                                *)
(***************************************************************************)
EXTENDS Integers

CONSTANTS
  MaxDnsFaults,     \* commands and writes that fail
  MaxDnsCrashes,    \* crashes of the daemon
  MaxDnsChanges     \* transitions started

VARIABLES
  dnsState,    \* state.json: [status, resolver]
  dnsJournal,  \* transition.json: [phase, done]
  dnsGuest,    \* the resolver of the guest, "none" when the stub is down
  candidate,   \* the candidate in memory
  runtime,     \* [live: a session can reach the guest, leased: its use is held]
  dnsBudget

dnsVars == <<dnsState, dnsJournal, dnsGuest, candidate, runtime, dnsBudget>>

\* "from" and "desired" swap roles when a new change is reviewed.
noCandidate == [at |-> "none", staged |-> FALSE, attempted |-> FALSE, activated |-> FALSE,
                restored |-> FALSE, proved |-> FALSE, result |-> "none", to |-> "b"]
noJournal == [phase |-> "none", done |-> 0, to |-> "b"]
otherResolver(r) == IF r = "a" THEN "b" ELSE "a"
desired == candidate.to
from == otherResolver(candidate.to)

DnsInit ==
  /\ dnsState = [status |-> "ready", resolver |-> "a"]
  /\ dnsJournal = noJournal
  /\ dnsGuest = "a"
  /\ candidate = noCandidate
  /\ runtime = [live |-> TRUE, leased |-> FALSE]
  /\ dnsBudget = [faults |-> MaxDnsFaults, crashes |-> MaxDnsCrashes, changes |-> MaxDnsChanges]

dnsFault == dnsBudget.faults > 0 /\ dnsBudget' = [dnsBudget EXCEPT !.faults = @ - 1]
dnsFine == UNCHANGED dnsBudget
dnsStep(fields) == candidate' = [f \in DOMAIN candidate |->
                                IF f \in DOMAIN fields THEN fields[f] ELSE candidate[f]]
turnBack == dnsStep([at |-> "rollback"])
journaled(phase, done) == dnsJournal' = [phase |-> phase, done |-> done, to |-> candidate.to]
\* Validate: the phase goes with the effects that are done.
validDnsJournal(j) ==
  CASE j.phase = "staged" -> j.done = 1
    [] j.phase = "probed" -> j.done = 2
    [] j.phase = "activated" -> j.done = 3
    [] j.phase = "proved" -> j.done = 4
    [] j.phase \in {"drained", "committed"} -> j.done = 5
    [] OTHER -> j.phase = "rolled-back" /\ j.done \in 1..5
openJournal == dnsJournal.phase \notin {"none", "committed", "rolled-back"}

-----------------------------------------------------------------------------
\* Apply observes the route again and acquires the runtime of a session; the
\* channel of the registry admits one transition at a time.
AcquireRuntime ==
  /\ candidate.at = "none" /\ runtime.live /\ ~runtime.leased
  /\ dnsBudget.changes > 0 /\ dnsBudget' = [dnsBudget EXCEPT !.changes = @ - 1]
  /\ candidate' = [noCandidate EXCEPT !.at = "stage", !.to = otherResolver(dnsState.resolver)]
  /\ runtime' = [runtime EXCEPT !.leased = TRUE]
  /\ UNCHANGED <<dnsState, dnsJournal, dnsGuest>>

\* stage: only on a ready service, and never over a journal that is open.
StageDns ==
  /\ candidate.at = "stage"
  /\ LET refused == dnsState # [status |-> "ready", resolver |-> from] \/ openJournal
                    \/ (dnsJournal.phase # "none" /\ ~validDnsJournal(dnsJournal))
     IN  \/ refused /\ dnsFine /\ turnBack /\ UNCHANGED dnsJournal
         \/ ~refused /\ dnsFine /\ journaled("staged", 1) /\ dnsStep([at |-> "probe", staged |-> TRUE])
         \/ ~refused /\ dnsFault /\ dnsStep([at |-> "rollback", staged |-> TRUE])
            /\ UNCHANGED dnsJournal
  /\ UNCHANGED <<dnsState, dnsGuest, runtime>>

ProbeDns ==
  /\ candidate.at = "probe"
  /\ \/ dnsGuest = from /\ dnsFine /\ journaled("probed", 2) /\ dnsStep([at |-> "activate"])
     \/ dnsGuest # from /\ dnsFine /\ turnBack /\ UNCHANGED dnsJournal
     \/ dnsFault /\ turnBack /\ UNCHANGED dnsJournal
  /\ UNCHANGED <<dnsState, dnsGuest, runtime>>

\* ReconfigureEnvironmentNetworkDNS: it worked; it failed and the old stub is
\* proved; or nobody knows (the stub is down, or the proof did not come).
reconfigured(old, new) ==
  \/ dnsFine /\ dnsGuest' = new /\ dnsStep([at |-> "reconfigured"])
  \/ dnsFault /\ dnsGuest' = old /\ dnsStep([at |-> "reverted"])
  \/ dnsFault /\ dnsGuest' \in {"none", old, new} /\ dnsStep([at |-> "unknown"])

\* ActivateNetworkCandidate: state.json says switching before the guest is
\* touched.
ActivateDns ==
  /\ candidate.at = "activate"
  /\ \/ /\ dnsFine /\ dnsState' = [dnsState EXCEPT !.status = "switching"]
        /\ dnsStep([at |-> "reconfigure", attempted |-> TRUE])
     \/ dnsFault /\ turnBack /\ UNCHANGED dnsState
  /\ UNCHANGED <<dnsJournal, dnsGuest, runtime>>

ReconfigureForward ==
  /\ candidate.at = "reconfigure" /\ reconfigured(from, desired)
  /\ UNCHANGED <<dnsState, dnsJournal, runtime>>

\* What the candidate records of the outcome.
RecordActivation ==
  /\ candidate.at \in {"reconfigured", "reverted", "unknown"}
  /\ LET ready == [status |-> "ready", resolver |-> from]
     IN  CASE candidate.at = "reconfigured" ->
                /\ UNCHANGED dnsState
                /\ \/ dnsFine /\ journaled("activated", 3)
                      /\ dnsStep([at |-> "prove", activated |-> TRUE])
                   \/ dnsFault /\ dnsStep([at |-> "rollback", activated |-> TRUE])
                      /\ UNCHANGED dnsJournal
           [] candidate.at = "reverted" ->
                /\ UNCHANGED dnsJournal
                /\ \/ dnsFine /\ dnsState' = ready /\ dnsStep([at |-> "rollback", restored |-> TRUE])
                   \/ dnsFault /\ turnBack /\ UNCHANGED dnsState
           [] OTHER ->
                /\ turnBack /\ UNCHANGED dnsJournal
                /\ \/ dnsFine /\ dnsState' = [dnsState EXCEPT !.status = "failed"]
                   \/ dnsFault /\ UNCHANGED dnsState
  /\ UNCHANGED <<dnsGuest, runtime>>

ProveDns ==
  /\ candidate.at = "prove"
  /\ \/ /\ dnsGuest = desired /\ dnsFine /\ journaled("proved", 4)
        /\ dnsStep([at |-> "drain", proved |-> TRUE])
     \/ ((dnsGuest # desired /\ dnsFine) \/ dnsFault) /\ turnBack /\ UNCHANGED dnsJournal
  /\ UNCHANGED <<dnsState, dnsGuest, runtime>>

DrainDns ==
  /\ candidate.at = "drain"
  /\ \/ dnsFine /\ journaled("drained", 5) /\ dnsStep([at |-> "commit"])
     \/ dnsFault /\ turnBack /\ UNCHANGED dnsJournal
  /\ UNCHANGED <<dnsState, dnsGuest, runtime>>

\* CommitNetworkCandidate: state.json, then the journal, then the lease.
CommitDns ==
  /\ candidate.at = "commit"
  /\ \/ /\ dnsFine /\ dnsState' = [status |-> "ready", resolver |-> desired]
        /\ dnsStep([at |-> "commit-journal"])
     \/ dnsFault /\ turnBack /\ UNCHANGED dnsState
  /\ UNCHANGED <<dnsJournal, dnsGuest, runtime>>

CommitJournal ==
  /\ candidate.at = "commit-journal"
  /\ \/ /\ dnsFine /\ journaled("committed", 5) /\ dnsStep([at |-> "none", result |-> "succeeded"])
        /\ runtime' = [runtime EXCEPT !.leased = FALSE]
     \/ dnsFault /\ turnBack /\ UNCHANGED <<dnsJournal, runtime>>
  /\ UNCHANGED <<dnsState, dnsGuest>>

-----------------------------------------------------------------------------
\* RollbackNetworkCandidate gives the lease back on every path.
rolled(result) == /\ dnsStep([at |-> "none", result |-> result])
                  /\ runtime' = [runtime EXCEPT !.leased = FALSE]

RollbackDns ==
  /\ candidate.at = "rollback"
  /\ LET untouched == ~candidate.staged
         unproved == candidate.attempted /\ ~candidate.activated /\ ~candidate.restored
     IN  \/ untouched /\ dnsFine /\ rolled("rolled-back") /\ UNCHANGED dnsGuest
         \/ ~untouched /\ unproved /\ dnsFine /\ rolled("unproved") /\ UNCHANGED dnsGuest
         \/ /\ ~untouched /\ ~unproved /\ ~candidate.activated /\ dnsFine
            /\ dnsStep([at |-> "verify-from"]) /\ UNCHANGED <<dnsGuest, runtime>>
         \/ /\ ~untouched /\ ~unproved /\ candidate.activated /\ dnsFine /\ dnsGuest' = from
            /\ dnsStep([at |-> "verify-from"]) /\ UNCHANGED runtime
         \/ /\ ~untouched /\ ~unproved /\ candidate.activated /\ dnsFault
            /\ dnsGuest' \in {"none", from, desired} /\ rolled("unproved")
  /\ UNCHANGED <<dnsState, dnsJournal>>

FinishRollback ==
  /\ candidate.at = "verify-from"
  /\ LET restored == [status |-> "ready", resolver |-> from]
     IN  \/ /\ dnsGuest = from /\ dnsFine /\ dnsState' = restored
            /\ journaled("rolled-back", dnsJournal.done) /\ rolled("rolled-back")
         \/ /\ dnsGuest = from /\ dnsFault /\ dnsState' \in {dnsState, restored}
            /\ rolled("unproved") /\ UNCHANGED dnsJournal
         \/ /\ dnsGuest # from /\ dnsFine /\ rolled("unproved")
            /\ UNCHANGED <<dnsState, dnsJournal>>
  /\ UNCHANGED dnsGuest

-----------------------------------------------------------------------------
\* ReconcileNetworkTransition of a restarted daemon: the journal has to be of
\* this change; state.json, then the journal, say what was seen.
recordSeen(seen) ==
  /\ candidate.at = "crashed" /\ runtime.live
  /\ LET matches == validDnsJournal(dnsJournal) /\ dnsJournal.to = candidate.to
         ready == [status |-> "ready", resolver |-> IF seen = "committed" THEN desired ELSE from]
         done(outcome) == dnsStep([at |-> "none", staged |-> TRUE, result |-> outcome])
     IN  \/ (~matches \/ seen = "unproved") /\ dnsFine /\ done("unproved")
            /\ UNCHANGED <<dnsState, dnsJournal>>
         \/ /\ matches /\ seen # "unproved" /\ dnsFine /\ dnsState' = ready
            /\ dnsJournal' = [dnsJournal EXCEPT !.phase = seen,
                                                !.done = IF seen = "committed" THEN 5 ELSE @]
            /\ done(IF seen = "committed" THEN "succeeded" ELSE "rolled-back")
         \/ /\ matches /\ seen # "unproved" /\ dnsFault /\ done("unproved")
            /\ dnsState' \in {dnsState, ready} /\ UNCHANGED dnsJournal
  /\ UNCHANGED <<dnsGuest, runtime>>

\* Mutant of ReconcileDns: the journal is believed.
ReconcileByJournal ==
  recordSeen(IF dnsJournal.phase \in {"activated", "proved", "drained", "committed"}
             THEN "committed" ELSE "rolled-back")

\* It asks the guest, first for the new resolver; it never drives it.
ReconcileDns ==
  recordSeen(CASE dnsGuest = desired -> "committed"
               [] dnsGuest = from -> "rolled-back"
               [] OTHER -> "unproved")

\* An operation that needs recovery is reconciled again when it is asked to.
AskAgain ==
  /\ candidate.at = "none" /\ candidate.result = "unproved" /\ dnsStep([at |-> "crashed"])
  /\ dnsFine /\ UNCHANGED <<dnsState, dnsJournal, dnsGuest, runtime>>

DaemonCrash ==
  /\ dnsBudget.crashes > 0 /\ dnsBudget' = [dnsBudget EXCEPT !.crashes = @ - 1]
  /\ candidate' = [noCandidate EXCEPT !.to = candidate.to, !.result = candidate.result,
                     !.at = IF candidate.at = "none" THEN "none" ELSE "crashed"]
  /\ runtime' = [live |-> TRUE, leased |-> FALSE]
  /\ UNCHANGED <<dnsState, dnsJournal, dnsGuest>>

\* The release function of a session waits for the transition that runs on it.
SessionEnds ==
  /\ runtime.live /\ ~runtime.leased
  /\ runtime' = [runtime EXCEPT !.live = FALSE]
  /\ dnsFine /\ UNCHANGED <<dnsState, dnsJournal, dnsGuest, candidate>>

SessionStarts ==
  /\ ~runtime.live /\ runtime' = [runtime EXCEPT !.live = TRUE]
  /\ dnsFine /\ UNCHANGED <<dnsState, dnsJournal, dnsGuest, candidate>>

DnsNext ==
  \/ AcquireRuntime \/ StageDns \/ ProbeDns \/ ActivateDns \/ ReconfigureForward
  \/ RecordActivation \/ ProveDns \/ DrainDns \/ CommitDns \/ CommitJournal
  \/ RollbackDns \/ FinishRollback \/ ReconcileDns \/ AskAgain
  \/ DaemonCrash \/ SessionEnds \/ SessionStarts

DnsSpec == DnsInit /\ [][DnsNext]_dnsVars

-----------------------------------------------------------------------------
\* What is reported of a change of the resolver is what the guest does: a
\* change that succeeded or was rolled back leaves the guest, state.json and
\* the journal on that resolver, whatever failed or crashed on the way.
DnsOutcomeIsTrue ==
  candidate.at = "none" =>
    /\ candidate.result = "succeeded" =>
         dnsGuest = desired /\ dnsState = [status |-> "ready", resolver |-> desired]
    /\ candidate.result = "rolled-back" /\ candidate.staged =>
         dnsGuest = from /\ dnsState = [status |-> "ready", resolver |-> from] /\ ~openJournal

====

--------------------------- MODULE DaemonProcess ---------------------------
(***************************************************************************)
(* The daemon process of one store: how it takes the runtime directory     *)
(* (daemon.go Start, transport.go, session_transport.go, token.go), how    *)
(* clients find it, start it and replace one of another build              *)
(* (autostart.go, client.go), the ordered shutdown (Stop), and what a      *)
(* crash, a second start or the loss of the runtime directory leaves to    *)
(* the next process.                                                       *)
(***************************************************************************)
EXTENDS Integers, FiniteSets

CONSTANTS DaemonIds,      \* daemon processes, each started at most once
          DaemonClients,  \* EnsureStarted and StopRunning callers
          DaemonBuilds,   \* build identities
          LimaHomes,      \* what LIMA_HOME resolves to
          MaxDaemonFaults \* failing calls, timeouts, crashes and removals

VARIABLES runtimeDir,   \* the daemon directory under the store
          daemon,       \* the daemon processes
          dclient,      \* the client processes
          accepted,     \* an accepted operation of the durable ledger
          daemonFaults  \* faults still to come

daemonVars == <<runtimeDir, daemon, dclient, accepted, daemonFaults>>

Nobody == "nobody"

(* Locks tell their holders apart: processes have identities of their own.  *)
(* Every process has a build and a Lima home.                               *)
ASSUME ProcessAssumption ==
  /\ Nobody \notin DaemonIds \cup DaemonClients
  /\ DaemonIds \cap DaemonClients = {}
  /\ DaemonBuilds # {} /\ LimaHomes # {}

(* A directory just made: no file in it, no inode locked.                   *)
emptyDir(n) ==
  [n |-> n, exists |-> FALSE, lock |-> Nobody, autostart |-> Nobody, bind |-> Nobody,
   socket |-> Nobody, session |-> Nobody, token |-> Nobody]

DaemonInit ==
  /\ runtimeDir = emptyDir(0)
  /\ daemon = [d \in DaemonIds |->
       [pc |-> "none", build |-> CHOOSE b \in DaemonBuilds : TRUE,
        home |-> CHOOSE h \in LimaHomes : TRUE, dir |-> 0, open |-> {},
        token |-> "valid", sessions |-> FALSE, background |-> "none", request |-> FALSE,
        bounded |-> FALSE, stoppedBy |-> Nobody]]
  /\ dclient \in [DaemonClients ->
       [pc : {"ensure", "stop"}, build : DaemonBuilds, home : LimaHomes, seen : {Nobody},
        receipt : {Nobody}, replacing : {FALSE}, result : {"none"}]]
  /\ accepted = "none"
  /\ daemonFaults = MaxDaemonFaults

mayFail == daemonFaults > 0
failing == daemonFaults' = daemonFaults - 1
sound == UNCHANGED daemonFaults

-----------------------------------------------------------------------------
(* Files, locks and sockets.                                                *)

(* ensurePlacement: the private directory exists afterwards.                *)
ensurePlacement(r) == [r EXCEPT !.exists = TRUE]

(* acquireLock: flock on the file now at that path.                         *)
canLock(r, file) == r.exists /\ r[file] = Nobody

(* releaseLock: only the inode the process opened; the file stays.          *)
releaseLock(r, file, p) == IF r[file] = p THEN [r EXCEPT ![file] = Nobody] ELSE r

(* probeSocket: a process accepts on the socket now at that path.           *)
answers(r, file) == r[file] # Nobody /\ file \in daemon[r[file]].open

(* removeOwnedDaemonSocket and removeOwnedSessionSocket: the path is        *)
(* unlinked only while it names the inode this process bound.               *)
removeAnySocket(r, file, d) == [r EXCEPT ![file] = Nobody]

removeOwnedSocket(r, file, d) == IF r[file] = d THEN [r EXCEPT ![file] = Nobody] ELSE r

(* ownedSocketListener.Close and SessionListener.Close.                     *)
closeSocket(r, file, d) ==
  IF file \notin daemon[d].open THEN r
  ELSE LET s == removeOwnedSocket(r, file, d)
       IN IF file = "session" THEN releaseLock(s, "bind", d) ELSE s

(* FetchStatus: the token file and the socket lead to one daemon, which     *)
(* calls Serve by now and still accepts that token.                         *)
reached(r) ==
  IF /\ answers(r, "socket") /\ r.token = r.socket
     /\ daemon[r.socket].pc \in {"serving", "stopping", "draining", "closing"}
     /\ daemon[r.socket].token = "valid"
  THEN r.socket ELSE Nobody

(* daemonStatusServing.                                                     *)
servingDaemons(d) == d # Nobody /\ daemon[d].pc = "serving"

-----------------------------------------------------------------------------
(* daemon.Start.                                                            *)

go(d, pc) == daemon' = [daemon EXCEPT ![d].pc = pc]
starting(d) == daemon[d].pc \in {"launched", "probed", "locked", "credential", "listening", "session"}

Launch(d, b, h) ==
  /\ daemon[d].pc = "none"
  /\ daemon' = [daemon EXCEPT ![d].pc = "launched", ![d].build = b, ![d].home = h]

(* `hideout daemon start` in the foreground, or the hidden daemon role.     *)
DaemonStart(d) ==
  /\ \E b \in DaemonBuilds, h \in LimaHomes : Launch(d, b, h)
  /\ mayFail /\ failing
  /\ UNCHANGED <<runtimeDir, dclient, accepted>>

(* A failing start closes what it opened, in reverse, and exits.            *)
abandonStart(d) ==
  /\ runtimeDir' = releaseLock(closeSocket(closeSocket(runtimeDir, "session", d), "socket", d),
                               "lock", d)
  /\ daemon' = [daemon EXCEPT ![d].pc = "exited", ![d].open = {}]

StartFails(d) ==
  /\ daemon[d].pc \in {"locked", "credential", "listening", "session"}
  /\ abandonStart(d) /\ mayFail /\ failing
  /\ UNCHANGED <<dclient, accepted>>

StartProbe(d) ==
  /\ daemon[d].pc = "launched"
  /\ runtimeDir' = ensurePlacement(runtimeDir)
  /\ go(d, IF answers(runtimeDir, "socket") THEN "exited" ELSE "probed")
  /\ sound /\ UNCHANGED <<dclient, accepted>>

StartLock(d) ==
  /\ daemon[d].pc = "probed"
  /\ IF canLock(runtimeDir, "lock")
     THEN /\ runtimeDir' = [runtimeDir EXCEPT !.lock = d]
          /\ daemon' = [daemon EXCEPT ![d].pc = "locked", ![d].dir = runtimeDir.n]
     ELSE go(d, "exited") /\ UNCHANGED runtimeDir
  /\ sound /\ UNCHANGED <<dclient, accepted>>

(* The lock is held: a socket file from a crash is reclaimed, and           *)
(* newCredentialManager publishes a fresh token.                            *)
StartCredential(d) ==
  /\ daemon[d].pc = "locked"
  /\ runtimeDir' = [runtimeDir EXCEPT !.socket = Nobody, !.token = d]
  /\ go(d, "credential")
  /\ sound /\ UNCHANGED <<dclient, accepted>>

(* listenSocket: the kernel refuses a path that exists.                     *)
listenSocket(d) ==
  /\ daemon[d].pc = "credential"
  /\ runtimeDir.socket = Nobody
  /\ runtimeDir' = [runtimeDir EXCEPT !.socket = d]
  /\ daemon' = [daemon EXCEPT ![d].pc = "listening", ![d].open = {"socket"}]
  /\ sound /\ UNCHANGED <<dclient, accepted>>

(* ListenSession: the bind lock, then prepareSessionSocket, which unlinks   *)
(* a dead socket and refuses a live one.                                    *)
ListenSession(d) ==
  /\ daemon[d].pc = "listening"
  /\ IF canLock(runtimeDir, "bind") /\ ~answers(runtimeDir, "session")
     THEN /\ runtimeDir' = [runtimeDir EXCEPT !.bind = d, !.session = d]
          /\ daemon' = [daemon EXCEPT ![d].pc = "session", ![d].open = @ \cup {"session"}]
     ELSE abandonStart(d)
  /\ sound /\ UNCHANGED <<dclient, accepted>>

(* startupOperationRecovery.reconcileOne: whatever its provider answered,   *)
(* an accepted operation leaves startup finished or marked for recovery.    *)
reconcileOne(after) ==
  IF accepted \notin {"running", "retry"} THEN accepted
  ELSE IF after # "unproved" THEN after
  ELSE IF accepted = "running" THEN "recovery-required" ELSE "retry"

(* The operations are reconciled before Serve is called on the listeners.   *)
StartServing(d) ==
  /\ daemon[d].pc = "session"
  /\ \E after \in {"finished", "recovery-required", "unproved"} : accepted' = reconcileOne(after)
  /\ go(d, "serving")
  /\ sound /\ UNCHANGED <<runtimeDir, dclient>>

-----------------------------------------------------------------------------
(* What a serving daemon does.                                              *)

(* A client it answered attaches a session.                                 *)
OpenSession(d) ==
  /\ daemon[d].pc = "serving" /\ ~daemon[d].sessions
  /\ \E c \in DaemonClients : dclient[c].result = "ready" /\ dclient[c].seen = d
  /\ daemon' = [daemon EXCEPT ![d].sessions = TRUE]
  /\ sound /\ UNCHANGED <<runtimeDir, dclient, accepted>>

EndSession(d) ==
  /\ daemon[d].pc = "serving" /\ daemon[d].sessions
  /\ daemon' = [daemon EXCEPT ![d].sessions = FALSE]
  /\ sound /\ UNCHANGED <<runtimeDir, dclient, accepted>>

(* bgRegistry.submit: refused once drain has closed the registry.           *)
SubmitBackground(d) ==
  /\ daemon[d].pc = "serving" /\ daemon[d].background = "none"
  /\ daemon' = [daemon EXCEPT ![d].background = "running"]
  /\ sound /\ UNCHANGED <<runtimeDir, dclient, accepted>>

BackgroundEnds(d) ==
  /\ daemon[d].background \in {"running", "abandoned"} /\ daemon[d].pc # "exited"
  /\ daemon' = [daemon EXCEPT ![d].background = "ended"]
  /\ sound /\ UNCHANGED <<runtimeDir, dclient, accepted>>

(* An accepted operation runs inside an API request.                        *)
AcceptRequest(d) ==
  /\ daemon[d].pc = "serving" /\ accepted = "none"
  /\ accepted' = "running"
  /\ daemon' = [daemon EXCEPT ![d].request = TRUE]
  /\ sound /\ UNCHANGED <<runtimeDir, dclient>>

RequestEnds(d) ==
  /\ daemon[d].request /\ daemon[d].pc # "exited"
  /\ \/ accepted' = "finished" /\ sound
     \/ accepted' \in {"retry", "recovery-required"} /\ mayFail /\ failing
  /\ daemon' = [daemon EXCEPT ![d].request = FALSE]
  /\ UNCHANGED <<runtimeDir, dclient>>

runtimeDirectoryAvailable(d) == runtimeDir.exists /\ daemon[d].dir = runtimeDir.n

(* The rotation worker: RotateIfDue writes the token file before it changes *)
(* what it accepts; when the write keeps failing the old token expires.     *)
RotateCredential(d) ==
  /\ daemon[d].pc = "serving" /\ runtimeDirectoryAvailable(d)
  /\ \/ /\ daemon[d].token = "valid" /\ mayFail /\ failing
        /\ daemon' = [daemon EXCEPT ![d].token = "expired"]
        /\ UNCHANGED runtimeDir
     \/ /\ daemon[d].token = "expired" /\ sound
        /\ daemon' = [daemon EXCEPT ![d].token = "valid"]
        /\ runtimeDir' = [runtimeDir EXCEPT !.token = d]
  /\ UNCHANGED <<dclient, accepted>>

-----------------------------------------------------------------------------
(* Daemon.Stop.                                                             *)

beginStop(d, by, bounded) ==
  IF daemon[d].pc # "serving" THEN daemon
  ELSE [daemon EXCEPT ![d].pc = "stopping", ![d].stoppedBy = by, ![d].bounded = bounded]

(* A signal: the foreground command waits without bound, the hidden role    *)
(* for daemonShutdownTimeout.                                               *)
SignalStop(d) ==
  /\ daemon[d].pc = "serving" /\ mayFail /\ failing
  /\ \E bounded \in BOOLEAN : daemon' = beginStop(d, "signal", bounded)
  /\ UNCHANGED <<runtimeDir, dclient, accepted>>

(* stopAfterCredentialRuntimeLoss: the directory is gone or is another one. *)
RuntimeLossStop(d) ==
  /\ daemon[d].pc = "serving" /\ ~runtimeDirectoryAvailable(d)
  /\ daemon' = beginStop(d, "runtime-loss", TRUE)
  /\ sound /\ UNCHANGED <<runtimeDir, dclient, accepted>>

(* Reconciliation is cancelled and awaited for a while, then the session    *)
(* socket closes.                                                           *)
StopSessions(d) ==
  /\ daemon[d].pc = "stopping"
  /\ runtimeDir' = closeSocket(runtimeDir, "session", d)
  /\ daemon' = [daemon EXCEPT ![d].pc = "draining", ![d].open = @ \ {"session"}]
  /\ sound /\ UNCHANGED <<dclient, accepted>>

(* sessionRegistry.drain and bgRegistry.drain: what does not end in time is *)
(* cancelled and left behind.                                               *)
StopDrain(d) ==
  /\ daemon[d].pc = "draining"
  /\ \/ daemon[d].background # "running" /\ sound
     \/ daemon[d].background = "running" /\ mayFail /\ failing
  /\ daemon' = [daemon EXCEPT ![d].pc = "closing", ![d].sessions = FALSE,
                  ![d].background = IF @ = "running" THEN "abandoned" ELSE @]
  /\ UNCHANGED <<runtimeDir, dclient, accepted>>

(* closeAll ends the event streams; server.Shutdown closes the listener and *)
(* waits for requests in flight, unless the caller's context ends first.    *)
StopServer(d) ==
  /\ daemon[d].pc = "closing"
  /\ runtimeDir' = closeSocket(runtimeDir, "socket", d)
  /\ daemon' = [daemon EXCEPT ![d].pc = "waiting", ![d].open = {}]
  /\ sound /\ UNCHANGED <<dclient, accepted>>

StopRelease(d) ==
  /\ daemon[d].pc = "waiting"
  /\ \/ ~daemon[d].request /\ sound
     \/ daemon[d].request /\ daemon[d].bounded /\ mayFail /\ failing
  /\ runtimeDir' = releaseLock(runtimeDir, "lock", d)
  /\ go(d, "stopped")
  /\ UNCHANGED <<dclient, accepted>>

(* The command returns from Done; what still ran ends with the process.     *)
Exit(d) ==
  /\ daemon[d].pc = "stopped"
  /\ daemon' = [daemon EXCEPT ![d].pc = "exited", ![d].request = FALSE]
  /\ sound /\ UNCHANGED <<runtimeDir, dclient, accepted>>

(* The process dies: the kernel drops its locks and listeners, and the      *)
(* socket and token files stay.                                             *)
ProcessDies(d) ==
  /\ daemon[d].pc \notin {"none", "exited"} /\ mayFail /\ failing
  /\ runtimeDir' = releaseLock(releaseLock(runtimeDir, "lock", d), "bind", d)
  /\ daemon' = [daemon EXCEPT ![d].pc = "exited", ![d].open = {}, ![d].sessions = FALSE,
                  ![d].request = FALSE]
  /\ UNCHANGED <<dclient, accepted>>

(* The directory is removed under running daemons, never in the middle of   *)
(* a start or of a client's look at the lock.                               *)
RemoveRuntimeDir ==
  /\ runtimeDir.exists /\ runtimeDir.n = 0 /\ mayFail /\ failing
  /\ \A d \in DaemonIds : ~starting(d)
  /\ runtimeDir.lock \notin DaemonClients
  /\ runtimeDir' = emptyDir(1)
  /\ UNCHANGED <<daemon, dclient, accepted>>

-----------------------------------------------------------------------------
(* EnsureStarted and StopRunning.                                           *)

to(c, pc) == dclient' = [dclient EXCEPT ![c].pc = pc]

(* Returning releases the autostart lock.                                   *)
returns(c, r, result, d) ==
  /\ dclient' = [dclient EXCEPT ![c].pc = "done", ![c].result = result, ![c].seen = d]
  /\ runtimeDir' = releaseLock(r, "autostart", c)

(* One probe of EnsureStarted, before and again under the autostart lock:   *)
(* a serving daemon of this build ends the call, an idle one of another     *)
(* build is replaced, no answer goes on to start one.                       *)
probeOnce(c, r, d, otherwise) ==
  IF ~servingDaemons(d) THEN to(c, otherwise) /\ runtimeDir' = r
  ELSE IF daemon[d].build = dclient[c].build
  THEN returns(c, r, IF daemon[d].home = dclient[c].home THEN "ready" ELSE "home-mismatch", d)
  ELSE IF daemon[d].sessions THEN returns(c, r, "build-mismatch", d)
  ELSE /\ dclient' = [dclient EXCEPT ![c].pc = "stop", ![c].replacing = TRUE, ![c].seen = d]
       /\ runtimeDir' = r

EnsureProbe(c) ==
  /\ dclient[c].pc = "ensure"
  /\ \E d \in {reached(runtimeDir), Nobody} :
       /\ IF d = reached(runtimeDir) THEN sound ELSE mayFail /\ failing
       /\ probeOnce(c, ensurePlacement(runtimeDir), d, "autostart")
  /\ UNCHANGED <<daemon, accepted>>

AutostartLock(c) ==
  /\ dclient[c].pc = "autostart"
  /\ IF runtimeDir.exists
     THEN IF canLock(runtimeDir, "autostart")
          THEN to(c, "reprobe") /\ runtimeDir' = [runtimeDir EXCEPT !.autostart = c]
          ELSE to(c, "ready") /\ UNCHANGED runtimeDir
     ELSE returns(c, runtimeDir, "failed", Nobody)
  /\ sound /\ UNCHANGED <<daemon, accepted>>

EnsureReprobe(c) ==
  /\ dclient[c].pc = "reprobe"
  /\ probeOnce(c, runtimeDir, reached(runtimeDir), "inspect")
  /\ sound /\ UNCHANGED <<daemon, accepted>>

(* The instance lock is taken for a moment, to see that nobody owns it.     *)
InspectLock(c) ==
  /\ dclient[c].pc = "inspect"
  /\ IF canLock(runtimeDir, "lock")
     THEN to(c, "inspected") /\ runtimeDir' = [runtimeDir EXCEPT !.lock = c]
     ELSE IF runtimeDir.exists THEN to(c, "ready") /\ UNCHANGED runtimeDir
     ELSE returns(c, runtimeDir, "failed", Nobody)
  /\ sound /\ UNCHANGED <<daemon, accepted>>

InspectRelease(c) ==
  /\ dclient[c].pc = "inspected"
  /\ runtimeDir' = releaseLock(runtimeDir, "lock", c)
  /\ to(c, "spawn")
  /\ sound /\ UNCHANGED <<daemon, accepted>>

(* startDetachedDaemon.                                                     *)
Spawn(c) ==
  /\ dclient[c].pc = "spawn"
  /\ \/ /\ \E d \in DaemonIds : Launch(d, dclient[c].build, dclient[c].home)
        /\ to(c, "ready") /\ UNCHANGED runtimeDir /\ sound
     \/ returns(c, runtimeDir, "failed", Nobody) /\ mayFail /\ failing /\ UNCHANGED daemon
  /\ UNCHANGED accepted

(* waitForDaemonReady.                                                      *)
WaitReady(c) ==
  /\ dclient[c].pc = "ready"
  /\ LET d == reached(runtimeDir) IN
       \/ /\ servingDaemons(d) /\ sound
          /\ returns(c, runtimeDir,
                     IF daemon[d].build # dclient[c].build THEN "build-mismatch"
                     ELSE IF daemon[d].home = dclient[c].home THEN "ready" ELSE "home-mismatch", d)
       \/ ~servingDaemons(d) /\ mayFail /\ failing /\ returns(c, runtimeDir, "timeout", Nobody)
  /\ UNCHANGED <<daemon, accepted>>

(* serveStop answers with the instance that will stop, whoever the caller   *)
(* had in mind.                                                             *)
RequestStop(c) ==
  /\ dclient[c].pc = "stop"
  /\ LET d == reached(runtimeDir) IN
       IF d = Nobody THEN returns(c, runtimeDir, "failed", Nobody) /\ UNCHANGED daemon
       ELSE /\ daemon' = beginStop(d, IF dclient[c].replacing THEN "replacement" ELSE "operator", FALSE)
            /\ dclient' = [dclient EXCEPT ![c].pc = "stopped?", ![c].receipt = d]
            /\ UNCHANGED runtimeDir
  /\ sound /\ UNCHANGED accepted

stopReturned(c, r) ==
  IF dclient[c].replacing
  THEN /\ dclient' = [dclient EXCEPT ![c].replacing = FALSE, ![c].result = "none",
                        ![c].pc = IF r.autostart = c THEN "inspect" ELSE "autostart"]
       /\ runtimeDir' = r
  ELSE returns(c, r, "stopped", Nobody)

(* waitForStoppedInstance: another instance answers, or nothing answers and *)
(* the instance lock is free.                                               *)
stoppedWhenSilent(c) ==
  LET d == reached(runtimeDir) IN
  /\ d # dclient[c].receipt
  /\ stopReturned(c, runtimeDir)

waitForStoppedInstance(c) ==
  LET d == reached(runtimeDir) IN
  \/ d \notin {Nobody, dclient[c].receipt} /\ stopReturned(c, runtimeDir)
  \/ /\ d = Nobody
     /\ IF canLock(runtimeDir, "lock")
        THEN to(c, "lock seen") /\ runtimeDir' = [runtimeDir EXCEPT !.lock = c]
        ELSE ~runtimeDir.exists /\ returns(c, runtimeDir, "failed", Nobody)

WaitStopped(c) ==
  /\ dclient[c].pc = "stopped?"
  /\ waitForStoppedInstance(c)
  /\ sound /\ UNCHANGED <<daemon, accepted>>

(* daemonInstanceLockReleased lets the lock go again.                       *)
LockSeenFree(c) ==
  /\ dclient[c].pc = "lock seen"
  /\ stopReturned(c, releaseLock(runtimeDir, "lock", c))
  /\ sound /\ UNCHANGED <<daemon, accepted>>

StopTimesOut(c) ==
  /\ dclient[c].pc = "stopped?" /\ mayFail /\ failing
  /\ returns(c, runtimeDir, "timeout", Nobody)
  /\ UNCHANGED <<daemon, accepted>>

-----------------------------------------------------------------------------
DaemonStep(d) ==
  \/ DaemonStart(d) \/ StartFails(d) \/ StartProbe(d) \/ StartLock(d) \/ StartCredential(d)
  \/ listenSocket(d) \/ ListenSession(d) \/ StartServing(d) \/ OpenSession(d) \/ EndSession(d)
  \/ SubmitBackground(d) \/ BackgroundEnds(d) \/ AcceptRequest(d) \/ RequestEnds(d)
  \/ RotateCredential(d) \/ SignalStop(d) \/ RuntimeLossStop(d) \/ StopSessions(d)
  \/ StopDrain(d) \/ StopServer(d) \/ StopRelease(d) \/ Exit(d) \/ ProcessDies(d)

ClientStep(c) ==
  \/ EnsureProbe(c) \/ AutostartLock(c) \/ EnsureReprobe(c) \/ InspectLock(c)
  \/ InspectRelease(c) \/ Spawn(c) \/ WaitReady(c) \/ RequestStop(c) \/ WaitStopped(c)
  \/ LockSeenFree(c) \/ StopTimesOut(c)

DaemonNext ==
  \/ \E d \in DaemonIds : DaemonStep(d)
  \/ \E c \in DaemonClients : ClientStep(c)
  \/ RemoveRuntimeDir

DaemonSpec == DaemonInit /\ [][DaemonNext]_daemonVars

-----------------------------------------------------------------------------
(* The process that holds the instance lock of the runtime directory and    *)
(* serves is the one both socket paths name: no second start, no late       *)
(* shutdown of an older process and no client unlinks or takes over the     *)
(* sockets of a live daemon.                                                *)
OwnerIsReachable ==
  \A d \in DaemonIds :
    servingDaemons(d) /\ runtimeDir.lock = d => runtimeDir.socket = d /\ runtimeDir.session = d

(* StopRunning returns only after the instance named by the receipt has     *)
(* given the store up: it neither holds the lock nor answers any more.      *)
StopIsProved ==
  \A c \in DaemonClients :
    LET d == dclient[c].receipt IN
    d # Nobody /\ (dclient[c].result = "stopped" \/ dclient[c].pc \in {"autostart", "inspect", "spawn"})
      => runtimeDir.lock # d /\ ~(answers(runtimeDir, "socket") /\ runtimeDir.socket = d)

(* An automatic replacement never ends a live session: a daemon with live   *)
(* sessions is never stopped automatically (replaceStaleBuildDaemon).       *)
ReplacementSparesSessions ==
  \A d \in DaemonIds : daemon[d].pc = "draining" /\ daemon[d].sessions => daemon[d].stoppedBy # "replacement"

(* A completed stop permits an immediate restart without racing the old     *)
(* owner: nothing of a daemon that gave up the store is still running when  *)
(* another one serves.                                                      *)
OwnerWorksAlone ==
  \A d, e \in DaemonIds :
    servingDaemons(d) /\ runtimeDir.lock = d /\ daemon[e].pc = "stopped"
      => daemon[e].background # "abandoned" /\ ~daemon[e].request
====

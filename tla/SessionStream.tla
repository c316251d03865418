--------------------------- MODULE SessionStream ---------------------------
(***************************************************************************)
(* One run, seen from the operator's terminal to the target: the client,   *)
(* the daemon's session connection (session_server.go), the protocol loop  *)
(* of the Lima backend (session_stream.go) and the supervisor in the guest *)
(* (cmd/hideout-session-supervisor), joined by two ordered channels that   *)
(* may break at any moment.  The session lives under a lease that the      *)
(* client renews with a rotating credential.                               *)
(***************************************************************************)
EXTENDS Integers, Sequences

CONSTANTS MaxChunks,         \* chunks the target writes
          OutputDepth,       \* outputQueueDepth of the supervisor
          InputDepth,        \* sessionStreamQueueDepth of the daemon
          MaxSessionFaults,  \* bound on faults, interruptions and token rotations
          MaxSends           \* stdin chunks and renewals of the client

VARIABLES sesClient,  \* RunSessionClient
          sesToken,   \* credentialManager and the token file it publishes
          sesConn,    \* serveConn and the goroutines it starts
          sesLoop,    \* runSupervisorProtocol
          sesGuard,   \* the supervisor
          sesTarget,  \* the process tree it supervises
          sesWire,    \* the four directions and the two connections
          sesLeft     \* what may still happen to the session

sessionStreamVars == <<sesClient, sesToken, sesConn, sesLoop, sesGuard, sesTarget, sesWire, sesLeft>>

-----------------------------------------------------------------------------
(* Frames.                                                                  *)

allowed(type) ==
  CASE type \in {"hello", "run-request", "renew"} -> {"c2d"}
    [] type \in {"hello-accepted", "review", "started", "error"} -> {"d2c"}
    [] type \in {"supervisor-start", "supervisor-commit"} -> {"d2s"}
    [] type \in {"supervisor-ready", "supervisor-error"} -> {"s2d"}
    [] type \in {"stdin", "cancel"} -> {"c2d", "d2s"}
    [] type \in {"stdout", "completion"} -> {"d2c", "s2d"}

(* A completion that Completion.Validate lets onto the wire.                *)
completionValid(c) ==
  /\ c.kind \in {"exit", "signal", "cancelled", "protocol-error", "cleanup-error"}
  /\ (c.kind = "signal") = c.signalled

lineOf(dir) == IF dir \in {"c2d", "d2c"} THEN "conn" ELSE "ssh"

(* WriteFrame: nothing of a frame that the direction or its validator       *)
(* refuses reaches the wire, and nothing reaches a broken one.              *)
WriteFrame(w, dir, type, payload) ==
  IF /\ w[lineOf(dir)]
     /\ dir \in allowed(type)
     /\ type = "completion" => completionValid(payload)
  THEN [w EXCEPT ![dir] = Append(@, [type |-> type, payload |-> payload])]
  ELSE w

write(dir, type, payload) == WriteFrame(sesWire, dir, type, payload)
hasFrame(dir, type) == sesWire[dir] # <<>> /\ sesWire[dir][1].type = type
payloadOf(dir) == sesWire[dir][1].payload
read(dir) == [sesWire EXCEPT ![dir] = Tail(@)]
ended(dir) == sesWire[dir] = <<>> /\ ~sesWire[lineOf(dir)]

(* ValidateGeneration: the generation of a token that is current, or the    *)
(* one before it while its grace lasts; 0 for any other.                    *)
ValidateGeneration(token) ==
  IF \/ token = sesToken.generation /\ sesToken.current
     \/ token = sesToken.generation - 1 /\ sesToken.previous
  THEN token ELSE 0

NoCompletion == [kind |-> "none", signalled |-> FALSE, own |-> FALSE, cleanup |-> FALSE]
completionOf(kind, own, cleanup) ==
  [kind |-> kind, signalled |-> kind = "signal", own |-> own, cleanup |-> cleanup]

SessionInit ==
  /\ sesClient = [at |-> "start", token |-> 0, hint |-> 0, got |-> 0, told |-> NoCompletion]
  /\ sesToken = [generation |-> 1, current |-> TRUE, previous |-> FALSE]
  /\ sesConn = [at |-> "hello", accepted |-> 0, cancelled |-> FALSE, reading |-> FALSE,
                queue |-> 0, inputErr |-> FALSE, ready |-> FALSE, worker |-> "none",
                stopping |-> FALSE, refusedValid |-> FALSE]
  /\ sesLoop = [at |-> "none", ctxSeen |-> FALSE, cancelSent |-> FALSE, failed |-> FALSE,
                frames |-> TRUE, wait |-> TRUE, result |-> NoCompletion,
                runErr |-> NoCompletion, proved |-> FALSE]
  /\ sesGuard = [at |-> "none", queue |-> 0, outErr |-> FALSE, why |-> "none",
                 result |-> NoCompletion]
  /\ sesTarget = [tree |-> {}, ended |-> "no", wrote |-> 0, term |-> FALSE]
  /\ sesWire = [c2d |-> <<>>, d2c |-> <<>>, d2s |-> <<>>, s2d |-> <<>>,
                conn |-> TRUE, ssh |-> TRUE]
  /\ sesLeft = [faults |-> MaxSessionFaults, sends |-> MaxSends]

happens == sesLeft.faults > 0 /\ sesLeft' = [sesLeft EXCEPT !.faults = @ - 1]

-----------------------------------------------------------------------------
(* The client.                                                              *)

clientOnly == UNCHANGED <<sesToken, sesConn, sesLoop, sesGuard, sesTarget>>
goneFrom(w) == [w EXCEPT !.conn = FALSE, !.d2c = <<>>]

(* RunSessionClient up to the run request.                                  *)
ClientHello ==
  /\ sesClient.at = "start"
  /\ sesClient' = [sesClient EXCEPT !.at = "hello", !.token = sesToken.generation]
  /\ sesWire' = write("c2d", "hello", sesToken.generation)
  /\ UNCHANGED sesLeft /\ clientOnly

ClientAccepted ==
  /\ sesClient.at = "hello" /\ hasFrame("d2c", "hello-accepted")
  /\ sesClient' = [sesClient EXCEPT !.at = "requested", !.hint = payloadOf("d2c")]
  /\ sesWire' = WriteFrame(read("d2c"), "c2d", "run-request", 0)
  /\ UNCHANGED sesLeft /\ clientOnly

(* The client's frame loop: a frame out of order ends the session.          *)
clientExpects(type) ==
  CASE type = "review" -> sesClient.at = "requested"
    [] type = "started" -> sesClient.at = "reviewed"
    [] type \in {"stdout", "completion"} -> sesClient.at = "started"
    [] OTHER -> FALSE

ClientFrame ==
  /\ sesClient.at \in {"hello", "requested", "reviewed", "started"} /\ sesWire.d2c # <<>>
  /\ ~hasFrame("d2c", "hello-accepted")
  /\ LET type == sesWire.d2c[1].type IN
     IF ~clientExpects(type)
     THEN /\ sesClient' = [sesClient EXCEPT !.at = "failed"]
          /\ sesWire' = goneFrom(sesWire)
     ELSE /\ sesClient' =
               CASE type = "review" -> [sesClient EXCEPT !.at = "reviewed"]
                 [] type = "started" -> [sesClient EXCEPT !.at = "started"]
                 [] type = "stdout" -> [sesClient EXCEPT !.got = @ + 1]
                 [] type = "completion" -> [sesClient EXCEPT !.at = "told",
                                                             !.told = payloadOf("d2c")]
          /\ sesWire' = IF type = "completion" THEN goneFrom(sesWire) ELSE read("d2c")
  /\ UNCHANGED sesLeft /\ clientOnly

(* The generation counted at every tick, rotation or not.                   *)
renewAndCount ==
  /\ sesClient.at \in {"reviewed", "started"} /\ sesLeft.sends > 0
  /\ sesClient' = [sesClient EXCEPT !.token = sesToken.generation, !.hint = @ + 1]
  /\ sesWire' = write("c2d", "renew", [token |-> sesToken.generation,
                                       generation |-> sesClient.hint + 1])
  /\ sesLeft' = [sesLeft EXCEPT !.sends = @ - 1]
  /\ clientOnly

(* One tick of renewSessionCredential.                                      *)
renewSessionCredential ==
  /\ sesClient.at \in {"reviewed", "started"} /\ sesLeft.sends > 0
  /\ LET current == sesToken.generation
         hint == IF current # sesClient.token THEN sesClient.hint + 1 ELSE sesClient.hint
     IN /\ sesClient' = [sesClient EXCEPT !.token = current, !.hint = hint]
        /\ sesWire' = write("c2d", "renew", [token |-> current, generation |-> hint])
  /\ sesLeft' = [sesLeft EXCEPT !.sends = @ - 1]
  /\ clientOnly

pumpClientStdin ==
  /\ sesClient.at = "started" /\ sesLeft.sends > 0
  /\ sesWire' = write("c2d", "stdin", 0)
  /\ sesLeft' = [sesLeft EXCEPT !.sends = @ - 1]
  /\ UNCHANGED sesClient /\ clientOnly

(* The operator interrupts: one cancel frame, no more input, and two        *)
(* seconds for the answer.                                                  *)
ClientCancels ==
  /\ sesClient.at \in {"requested", "reviewed", "started"} /\ happens
  /\ sesWire' = write("c2d", "cancel", 0)
  /\ UNCHANGED sesClient /\ clientOnly

ClientGoes ==
  /\ sesClient.at \notin {"start", "told", "failed"} /\ happens
  /\ sesClient' = [sesClient EXCEPT !.at = "failed"]
  /\ sesWire' = goneFrom(sesWire)
  /\ clientOnly

ClientReadEnds ==
  /\ sesClient.at \notin {"start", "told", "failed"} /\ ended("d2c")
  /\ sesClient' = [sesClient EXCEPT !.at = "failed"]
  /\ UNCHANGED <<sesWire, sesLeft>> /\ clientOnly

-----------------------------------------------------------------------------
(* The operator credential.                                                 *)

tokenOnly == UNCHANGED <<sesClient, sesConn, sesLoop, sesGuard, sesTarget, sesWire>>

(* The rotation time passes before the daemon's ticker has rotated.         *)
TokenDue ==
  /\ sesToken.current /\ sesToken' = [sesToken EXCEPT !.current = FALSE]
  /\ happens /\ tokenOnly

(* rotateLocked: the old token keeps the grace that is left of it.          *)
RotateIfDue ==
  /\ ~sesToken.current
  /\ \E grace \in BOOLEAN : sesToken' = [generation |-> sesToken.generation + 1,
                                         current |-> TRUE, previous |-> grace]
  /\ UNCHANGED sesLeft /\ tokenOnly

GraceEnds ==
  /\ sesToken.previous /\ sesToken' = [sesToken EXCEPT !.previous = FALSE]
  /\ UNCHANGED sesLeft /\ tokenOnly

-----------------------------------------------------------------------------
(* The daemon's side of the connection.                                     *)

connOnly == UNCHANGED <<sesClient, sesToken, sesGuard, sesTarget>>
streamClosing(w) == [w EXCEPT !.conn = FALSE, !.c2d = <<>>]
refuse(w) ==
  /\ sesConn' = [sesConn EXCEPT !.at = "done", !.reading = FALSE]
  /\ sesWire' = streamClosing(WriteFrame(w, "d2c", "error", 0))

readHello ==
  /\ sesConn.at = "hello" /\ hasFrame("c2d", "hello")
  /\ LET generation == ValidateGeneration(payloadOf("c2d")) IN
     IF generation = 0
     THEN refuse(read("c2d"))
     ELSE /\ sesConn' = [sesConn EXCEPT !.at = "request", !.accepted = generation]
          /\ sesWire' = WriteFrame(read("c2d"), "d2c", "hello-accepted", generation)
  /\ UNCHANGED <<sesLoop, sesLeft>> /\ connOnly

(* The registry of the daemon's sessions.  A stopping daemon registers no   *)
(* more of them; a stop of the environment reaches only the ones that have  *)
(* reported their environment.                                              *)
register(c) == [c EXCEPT !.worker = "preparing", !.at = "apply", !.reading = TRUE]
markStarted(c) == [c EXCEPT !.worker = "running", !.ready = TRUE]
finish(c) == [c EXCEPT !.worker = "finished", !.at = "done", !.reading = FALSE,
                       !.cancelled = TRUE]
registered(c) == c.worker \in {"preparing", "running"}

beginStop ==
  /\ ~sesConn.stopping /\ happens
  /\ sesConn' = [sesConn EXCEPT !.stopping = TRUE, !.cancelled = @ \/ registered(sesConn)]
  /\ UNCHANGED <<sesLoop, sesWire>> /\ connOnly

cancelEnvironment ==
  /\ sesConn.worker = "running" /\ ~sesConn.cancelled /\ happens
  /\ sesConn' = [sesConn EXCEPT !.cancelled = TRUE]
  /\ UNCHANGED <<sesLoop, sesWire>> /\ connOnly

(* readSessionRunRequest, Prepare and the review, then the registration     *)
(* that a full or a stopping registry refuses.                              *)
PrepareRun ==
  /\ sesConn.at = "request" /\ hasFrame("c2d", "run-request")
  /\ \/ /\ happens /\ refuse(read("c2d"))
     \/ /\ UNCHANGED sesLeft
        /\ LET reviewed == WriteFrame(read("c2d"), "d2c", "review", 0) IN
           IF sesConn.stopping THEN refuse(reviewed)
           ELSE sesConn' = register(sesConn) /\ sesWire' = reviewed
  /\ UNCHANGED sesLoop /\ connOnly

(* The ssh command builds the session view, a process namespace whose first *)
(* process will be the supervisor.                                          *)
openView(g) == [g EXCEPT !.at = "view"]

(* RunService.Apply prepares again and goes on with the same plan only.     *)
ApplyRun ==
  /\ sesConn.at = "apply" /\ sesLoop.at = "none"
  /\ \/ /\ happens /\ UNCHANGED <<sesWire, sesGuard>>
        /\ sesLoop' = [sesLoop EXCEPT !.at = "done", !.proved = TRUE,
                                      !.runErr = completionOf("protocol-error", FALSE, FALSE)]
     \/ /\ UNCHANGED sesLeft
        /\ sesLoop' = [sesLoop EXCEPT !.at = "loop"]
        /\ sesWire' = write("d2s", "supervisor-start", 0)
        /\ sesGuard' = openView(sesGuard)
  /\ UNCHANGED <<sesClient, sesToken, sesConn, sesTarget>>

ConnectionEnds ==
  /\ sesConn.at \in {"hello", "request"} /\ ended("c2d")
  /\ sesConn' = [sesConn EXCEPT !.at = "done"]
  /\ UNCHANGED <<sesLoop, sesWire, sesLeft>> /\ connOnly

cancelRun(c) == [c EXCEPT !.cancelled = TRUE, !.reading = FALSE]

(* A renewal is refused when its token is unknown, older than the one       *)
(* accepted last, or announced with a generation from the future.           *)
renewalRefused(renew) ==
  LET generation == ValidateGeneration(renew.token)
  IN generation = 0 \/ generation < sesConn.accepted \/ renew.generation > generation

readSessionInput ==
  /\ sesConn.reading
  /\ \/ /\ hasFrame("c2d", "stdin")
        /\ sesConn' = IF sesConn.queue < InputDepth
                      THEN [sesConn EXCEPT !.queue = @ + 1]
                      ELSE [cancelRun(sesConn) EXCEPT !.inputErr = TRUE]
     \/ /\ hasFrame("c2d", "cancel")
        /\ sesConn' = cancelRun(sesConn)
     \/ /\ hasFrame("c2d", "renew")
        /\ LET renew == payloadOf("c2d") IN
           sesConn' = IF renewalRefused(renew)
                      THEN [cancelRun(sesConn) EXCEPT
                              !.refusedValid = ValidateGeneration(renew.token) # 0]
                      ELSE [sesConn EXCEPT !.accepted = ValidateGeneration(renew.token)]
  /\ sesWire' = read("c2d")
  /\ UNCHANGED <<sesLoop, sesLeft>> /\ connOnly

InputEnds ==
  /\ sesConn.reading /\ ended("c2d")
  /\ sesConn' = cancelRun(sesConn)
  /\ UNCHANGED <<sesLoop, sesWire, sesLeft>> /\ connOnly

(* watchSessionLease: no accepted renewal reached the daemon in time.       *)
watchSessionLease ==
  /\ registered(sesConn) /\ ~sesConn.cancelled /\ happens
  /\ sesConn' = [sesConn EXCEPT !.cancelled = TRUE]
  /\ UNCHANGED <<sesLoop, sesWire>> /\ connOnly

-----------------------------------------------------------------------------
(* The protocol loop of the backend.                                        *)

loopOnly == UNCHANGED <<sesClient, sesToken, sesTarget, sesLeft>>

cancelForProtocolError(loop) ==
  [loop EXCEPT !.failed = TRUE,
               !.cancelSent = @ \/ loop.result.kind = "none"]
cancelsNow(loop) == ~loop.cancelSent /\ loop.result.kind = "none"

(* The loop returns: the error it ends with, and the ssh session closed.    *)
ending(loop, kind) ==
  [loop EXCEPT !.at = "prove", !.runErr = completionOf(kind, FALSE, FALSE)]
hungUp(w) == [w EXCEPT !.ssh = FALSE, !.s2d = <<>>]

(* streams.Ready: the worker is marked started and the client told, and     *)
(* only then may the target start.                                          *)
SupervisorReady ==
  /\ hasFrame("s2d", "supervisor-ready")
  /\ IF sesWire.conn
     THEN /\ sesConn' = markStarted(sesConn)
          /\ sesWire' = WriteFrame(WriteFrame(read("s2d"), "d2c", "started", 0),
                                   "d2s", "supervisor-commit", 0)
          /\ UNCHANGED sesLoop
     ELSE /\ sesLoop' = ending(sesLoop, "protocol-error")
          /\ sesWire' = hungUp(sesWire)
          /\ UNCHANGED sesConn

SupervisorOutput ==
  /\ hasFrame("s2d", "stdout") /\ UNCHANGED sesConn
  /\ IF sesWire.conn
     THEN UNCHANGED sesLoop /\ sesWire' = WriteFrame(read("s2d"), "d2c", "stdout", 0)
     ELSE /\ sesLoop' = cancelForProtocolError(sesLoop)
          /\ sesWire' = IF cancelsNow(sesLoop)
                        THEN WriteFrame(read("s2d"), "d2s", "cancel", 0) ELSE read("s2d")

SupervisorError ==
  /\ hasFrame("s2d", "supervisor-error") /\ UNCHANGED sesConn
  /\ sesLoop' = cancelForProtocolError(sesLoop)
  /\ sesWire' = IF cancelsNow(sesLoop)
                THEN WriteFrame(read("s2d"), "d2s", "cancel", 0) ELSE read("s2d")

SupervisorCompletion ==
  /\ hasFrame("s2d", "completion") /\ UNCHANGED sesConn
  /\ sesLoop' = [sesLoop EXCEPT !.result = payloadOf("s2d")]
  /\ sesWire' = read("s2d")

readSupervisorFrames ==
  /\ sesLoop.at = "loop" /\ sesLoop.frames
  /\ SupervisorReady \/ SupervisorOutput \/ SupervisorError \/ SupervisorCompletion
  /\ UNCHANGED sesGuard /\ loopOnly

supervisorLeft == sesGuard.at = "gone" \/ ~sesWire.ssh

FramesEnd ==
  /\ sesLoop.at = "loop" /\ sesLoop.frames /\ sesWire.s2d = <<>> /\ supervisorLeft
  /\ sesLoop' = IF sesLoop.result.kind = "none"
                THEN [cancelForProtocolError(sesLoop) EXCEPT !.frames = FALSE]
                ELSE [sesLoop EXCEPT !.frames = FALSE]
  /\ UNCHANGED <<sesConn, sesGuard, sesWire>> /\ loopOnly

SshWaitReturns ==
  /\ sesLoop.at = "loop" /\ sesLoop.wait /\ supervisorLeft
  /\ sesLoop' = [sesLoop EXCEPT !.wait = FALSE]
  /\ UNCHANGED <<sesConn, sesGuard, sesWire>> /\ loopOnly

writeSupervisorInput ==
  /\ sesLoop.at = "loop" /\ sesConn.ready /\ sesLoop.result.kind = "none" /\ sesConn.queue > 0
  /\ sesConn' = [sesConn EXCEPT !.queue = @ - 1]
  /\ sesWire' = write("d2s", "stdin", 0)
  /\ sesLoop' = IF sesWire.ssh THEN sesLoop ELSE cancelForProtocolError(sesLoop)
  /\ UNCHANGED sesGuard /\ loopOnly

(* The run was cancelled: before the commit the ssh session is killed,      *)
(* after it the supervisor is asked to stop and given a bound.              *)
ContextDone ==
  /\ sesLoop.at = "loop" /\ sesConn.cancelled /\ ~sesLoop.ctxSeen
  /\ IF ~sesConn.ready /\ sesLoop.result.kind = "none"
     THEN /\ sesLoop' = ending(sesLoop, "cancelled")
          /\ sesWire' = hungUp(sesWire)
     ELSE /\ sesLoop' = [sesLoop EXCEPT !.ctxSeen = TRUE,
                                        !.cancelSent = @ \/ cancelsNow(sesLoop)]
          /\ sesWire' = IF cancelsNow(sesLoop) THEN write("d2s", "cancel", 0) ELSE sesWire
  /\ UNCHANGED <<sesConn, sesGuard>> /\ loopOnly

CancelBoundPasses ==
  /\ sesLoop.at = "loop" /\ sesLoop.cancelSent
  /\ sesLoop' = ending(sesLoop, IF sesConn.cancelled THEN "cancelled" ELSE "protocol-error")
  /\ sesWire' = hungUp(sesWire)
  /\ UNCHANGED <<sesConn, sesGuard>> /\ loopOnly

(* What the loop makes of a completion: an error with the exit code or the  *)
(* signal in it, or none.  Codes the supervisor made up are not the         *)
(* target's own.                                                            *)
completionError(c) ==
  IF c.kind \in {"exit", "signal"} THEN c ELSE completionOf("exit", FALSE, c.cleanup)

LoopReturns ==
  /\ sesLoop.at = "loop" /\ ~sesLoop.frames /\ ~sesLoop.wait
  /\ sesLoop' = CASE sesLoop.failed \/ sesLoop.result.kind = "none" ->
                       ending(sesLoop, "protocol-error")
                  [] sesLoop.cancelSent /\ sesConn.cancelled -> ending(sesLoop, "cancelled")
                  [] OTHER -> [sesLoop EXCEPT !.at = "prove",
                                              !.runErr = completionError(sesLoop.result)]
  /\ sesWire' = hungUp(sesWire)
  /\ UNCHANGED <<sesConn, sesGuard>> /\ loopOnly

-----------------------------------------------------------------------------
(* The supervisor.                                                          *)

guardOnly == UNCHANGED <<sesClient, sesToken, sesConn, sesLoop>>

(* The supervisor's exit ends its process namespace, and with it every      *)
(* process of the session (the session view runs it as the first process).  *)
exited(t) == [t EXCEPT !.tree = {}, !.ended = IF "main" \in t.tree THEN "killed" ELSE @]

failInitially(w) ==
  /\ sesGuard' = [sesGuard EXCEPT !.at = "gone"]
  /\ sesWire' = WriteFrame(w, "s2d", "supervisor-error", 0)
  /\ UNCHANGED sesTarget

(* ReadStart, validateStart, the context and the activity boundary, then    *)
(* WriteReady.                                                              *)
GuardStarts ==
  /\ sesGuard.at = "view" /\ hasFrame("d2s", "supervisor-start")
  /\ \/ happens /\ failInitially(read("d2s"))
     \/ /\ UNCHANGED <<sesLeft, sesTarget>>
        /\ sesGuard' = [sesGuard EXCEPT !.at = IF sesWire.ssh THEN "ready" ELSE "gone"]
        /\ sesWire' = WriteFrame(read("d2s"), "s2d", "supervisor-ready", 0)
  /\ guardOnly

startTarget(t) == [t EXCEPT !.tree = {"main"}]

(* ReadCommit: anything but a commit ends the supervisor without a frame.   *)
GuardCommits ==
  /\ sesGuard.at = "ready" /\ (sesWire.d2s # <<>> \/ ended("d2s"))
  /\ IF hasFrame("d2s", "supervisor-commit")
     THEN \/ happens /\ failInitially(read("d2s"))
          \/ /\ sesGuard' = [sesGuard EXCEPT !.at = "run"]
             /\ sesTarget' = startTarget(sesTarget)
             /\ sesWire' = read("d2s") /\ UNCHANGED sesLeft
     ELSE /\ sesGuard' = [sesGuard EXCEPT !.at = "gone"]
          /\ UNCHANGED <<sesTarget, sesWire, sesLeft>>
  /\ guardOnly

supervising == sesGuard.at \in {"run", "blocked", "stop", "finish"}

(* ProveEmptyAndRemove within the grace: the session's cgroup has no        *)
(* process left.                                                            *)
cgroupEmptied(t) == t.tree = {}

completionFromWait(t) ==
  {completionOf(kind, TRUE, cgroupEmptied(t)) : kind \in {"exit", "signal"}}
    \cup {completionOf("protocol-error", FALSE, FALSE) : p \in t.tree}

(* The goroutine that waits for the target: it reports when the main        *)
(* process is gone, and says whether the session's cgroup emptied in time.  *)
(* A child that keeps the pipes open makes the wait itself fail.            *)
TargetReaped ==
  /\ supervising /\ sesGuard.result.kind = "none"
  /\ sesTarget.ended # "no" /\ "main" \notin sesTarget.tree
  /\ \E result \in completionFromWait(sesTarget) :
       sesGuard' = [sesGuard EXCEPT !.result = result]
  /\ UNCHANGED <<sesTarget, sesWire, sesLeft>> /\ guardOnly

(* The branches of superviseTarget's select.                                *)
stopFor(why) == [sesGuard EXCEPT !.at = "stop", !.why = why]
terminated == [sesTarget EXCEPT !.term = TRUE]

GuardWaitReturns ==
  /\ sesGuard.at = "run" /\ sesGuard.result.kind # "none"
  /\ sesGuard' = [sesGuard EXCEPT !.at = "finish", !.why = "own"]
  /\ UNCHANGED <<sesTarget, sesWire, sesLeft>> /\ guardOnly

GuardOutputFails ==
  /\ sesGuard.at = "run" /\ sesGuard.outErr
  /\ sesGuard' = stopFor("output") /\ sesTarget' = terminated
  /\ UNCHANGED <<sesWire, sesLeft>> /\ guardOnly

GuardHeartbeatExpires ==
  /\ sesGuard.at = "run" /\ happens
  /\ sesGuard' = stopFor("heartbeat") /\ sesTarget' = terminated
  /\ UNCHANGED sesWire /\ guardOnly

(* applyControl.  Input for a target that is gone fails; input that the     *)
(* target does not read holds the whole loop in the write.                  *)
applyControl ==
  /\ sesGuard.at = "run" /\ sesWire.d2s # <<>> /\ sesWire' = read("d2s")
  /\ CASE hasFrame("d2s", "cancel") -> sesGuard' = stopFor("cancel") /\ sesTarget' = terminated
       [] hasFrame("d2s", "stdin") /\ "main" \notin sesTarget.tree ->
            sesGuard' = stopFor("control") /\ sesTarget' = terminated
       [] hasFrame("d2s", "stdin") /\ "main" \in sesTarget.tree ->
            /\ UNCHANGED sesTarget
            /\ \E at \in {"run", "blocked"} : sesGuard' = [sesGuard EXCEPT !.at = at]
  /\ UNCHANGED sesLeft /\ guardOnly

GuardUnblocks ==
  /\ sesGuard.at = "blocked"
  /\ IF "main" \in sesTarget.tree
     THEN sesGuard' = [sesGuard EXCEPT !.at = "run"] /\ UNCHANGED sesTarget
     ELSE sesGuard' = stopFor("control") /\ sesTarget' = terminated
  /\ UNCHANGED <<sesWire, sesLeft>> /\ guardOnly

ControlsEnd ==
  /\ sesGuard.at = "run" /\ ended("d2s")
  /\ sesGuard' = stopFor("eof") /\ sesTarget' = terminated
  /\ UNCHANGED <<sesWire, sesLeft>> /\ guardOnly

(* terminateAndWait: SIGTERM was sent; after the grace the cgroup is        *)
(* killed, and a target that is not even reaped then is given up.           *)
terminateAndWait ==
  /\ sesGuard.at = "stop"
  /\ \/ /\ sesGuard.result.kind # "none"
        /\ sesGuard' = [sesGuard EXCEPT !.at = "finish"]
        /\ UNCHANGED <<sesTarget, sesLeft>>
     \/ /\ sesGuard.result.kind = "none" /\ sesTarget.tree # {}
        /\ sesTarget' = exited(sesTarget)
        /\ UNCHANGED <<sesGuard, sesLeft>>
     \/ /\ sesGuard.result.kind = "none" /\ happens
        /\ sesGuard' = [sesGuard EXCEPT !.at = "finish",
                          !.result = completionOf("protocol-error", FALSE, FALSE)]
        /\ UNCHANGED sesTarget
  /\ UNCHANGED sesWire /\ guardOnly

(* The output goroutine.                                                    *)
pumpOutput ==
  /\ supervising /\ sesGuard.queue > 0
  /\ sesGuard' = IF sesWire.ssh THEN [sesGuard EXCEPT !.queue = @ - 1]
                 ELSE [sesGuard EXCEPT !.queue = 0, !.outErr = TRUE]
  /\ sesWire' = write("s2d", "stdout", 0)
  /\ UNCHANGED <<sesTarget, sesLeft>> /\ guardOnly

finishProtocolFailure(result) ==
  WriteFrame(write("s2d", "supervisor-error", 0), "s2d", "completion",
             completionOf(IF result.cleanup THEN "protocol-error" ELSE "cleanup-error",
                          FALSE, result.cleanup))

(* The wait branch without its look at the output's failure.                *)
lastWordsOfWait(g) ==
  IF g.why = "own" /\ g.result.cleanup THEN write("s2d", "completion", g.result)
  ELSE finishProtocolFailure(g.result)

(* What superviseTarget says at its end, for the reason it ended.           *)
lastWords(g) ==
  LET result == g.result IN
  CASE g.why = "own" /\ (g.outErr \/ ~result.cleanup) -> finishProtocolFailure(result)
    [] g.why = "own" /\ ~g.outErr /\ result.cleanup -> write("s2d", "completion", result)
    [] g.why = "cancel" /\ g.outErr -> sesWire
    [] g.why = "cancel" /\ ~g.outErr /\ ~result.cleanup -> finishProtocolFailure(result)
    [] g.why = "cancel" /\ ~g.outErr /\ result.cleanup ->
         write("s2d", "completion", completionOf("cancelled", FALSE, TRUE))
    [] g.why = "eof" -> sesWire
    [] OTHER -> finishProtocolFailure(result)

superviseTarget ==
  /\ sesGuard.at = "finish"
  /\ sesGuard.queue = 0
  /\ sesWire' = lastWords(sesGuard)
  /\ sesGuard' = [sesGuard EXCEPT !.at = "gone", !.result = NoCompletion]
  /\ sesTarget' = exited(sesTarget)
  /\ UNCHANGED sesLeft /\ guardOnly

-----------------------------------------------------------------------------
(* The target.                                                              *)

targetOnly == UNCHANGED <<sesClient, sesToken, sesConn, sesLoop, sesWire, sesLeft>>

(* outputQueue.write never waits: a full queue fails the session and the    *)
(* copy loop terminates the target.                                         *)
TargetWrites ==
  /\ "main" \in sesTarget.tree /\ sesTarget.wrote < MaxChunks /\ ~sesGuard.outErr
  /\ IF sesGuard.queue < OutputDepth
     THEN /\ sesGuard' = [sesGuard EXCEPT !.queue = @ + 1]
          /\ sesTarget' = [sesTarget EXCEPT !.wrote = @ + 1]
     ELSE /\ sesGuard' = [sesGuard EXCEPT !.outErr = TRUE]
          /\ sesTarget' = [sesTarget EXCEPT !.wrote = @ + 1, !.term = TRUE]
  /\ targetOnly

TargetForks ==
  /\ sesTarget.tree = {"main"} /\ ~sesTarget.term
  /\ sesTarget' = [sesTarget EXCEPT !.tree = {"main", "child"}]
  /\ UNCHANGED sesGuard /\ targetOnly

TargetExits ==
  /\ \E p \in sesTarget.tree :
       sesTarget' = [sesTarget EXCEPT !.tree = @ \ {p},
                       !.ended = CASE p = "child" -> @
                                   [] p = "main" /\ sesTarget.term -> "killed"
                                   [] OTHER -> "itself"]
  /\ UNCHANGED sesGuard /\ targetOnly

-----------------------------------------------------------------------------
(* The end of the run.                                                      *)

(* sessionTerminationProofCommand looks for processes that carry the        *)
(* session's identity; a view that is still being set up carries none.      *)
terminationProved == sesTarget.tree = {} /\ sesGuard.at \in {"none", "view", "gone"}

(* proveIsolatedSessionTerminatedWithClient after the loop: an exit code    *)
(* the loop returned survives a failed proof, an empty error does not.      *)
ProveTerminated ==
  /\ sesLoop.at = "prove"
  /\ \/ /\ terminationProved
        /\ sesLoop' = [sesLoop EXCEPT !.at = "done", !.proved = TRUE]
     \/ /\ ~terminationProved
        /\ \E err \in {sesLoop.runErr, completionOf("protocol-error", FALSE, FALSE)} :
             sesLoop' = [sesLoop EXCEPT !.at = "done", !.runErr = err]
  /\ UNCHANGED <<sesClient, sesToken, sesConn, sesGuard, sesTarget, sesWire, sesLeft>>

(* Cleanup of the backend proves again what the run could not prove, and    *)
(* the workspace attachment is released: either may leave a cleanup error.  *)
(* completionForRun then decides what the client is told.                   *)
completionForRun(cleanupErr, runErr) ==
  IF cleanupErr THEN completionOf("cleanup-error", FALSE, FALSE)
  ELSE [runErr EXCEPT !.cleanup = TRUE]

CompleteRun ==
  /\ sesConn.at = "apply" /\ sesLoop.at = "done"
  /\ sesConn' = finish(sesConn)
  /\ \E released \in BOOLEAN :
       /\ released => UNCHANGED sesLeft
       /\ ~released => happens
       /\ LET cleanupErr == ~released \/ (~sesLoop.proved /\ ~terminationProved)
              runErr == IF sesConn.inputErr /\ sesLoop.runErr.kind = "exit"
                        THEN completionOf("protocol-error", FALSE, FALSE) ELSE sesLoop.runErr
          IN sesWire' = streamClosing(IF sesConn.ready
                                THEN write("d2c", "completion", completionForRun(cleanupErr, runErr))
                                ELSE write("d2c", "error", 0))
  /\ UNCHANGED sesLoop /\ connOnly

(* Either connection breaks.                                                *)
ConnectionBreaks ==
  /\ happens
  /\ sesWire' \in {[sesWire EXCEPT !.conn = FALSE], [sesWire EXCEPT !.ssh = FALSE]}
  /\ sesWire' # sesWire
  /\ UNCHANGED <<sesClient, sesToken, sesConn, sesLoop, sesGuard, sesTarget>>

SessionNext ==
  \/ ClientHello \/ ClientAccepted \/ ClientFrame \/ renewSessionCredential
  \/ pumpClientStdin \/ ClientCancels \/ ClientGoes \/ ClientReadEnds
  \/ TokenDue \/ RotateIfDue \/ GraceEnds
  \/ readHello \/ PrepareRun \/ ApplyRun \/ ConnectionEnds \/ readSessionInput
  \/ InputEnds \/ watchSessionLease \/ beginStop \/ cancelEnvironment
  \/ readSupervisorFrames \/ FramesEnd \/ SshWaitReturns \/ writeSupervisorInput
  \/ ContextDone \/ CancelBoundPasses \/ LoopReturns
  \/ GuardStarts \/ GuardCommits \/ TargetReaped \/ GuardWaitReturns
  \/ GuardOutputFails \/ GuardHeartbeatExpires \/ applyControl \/ GuardUnblocks
  \/ ControlsEnd \/ terminateAndWait \/ pumpOutput \/ superviseTarget
  \/ TargetWrites \/ TargetForks \/ TargetExits
  \/ ProveTerminated \/ CompleteRun \/ ConnectionBreaks

SessionSpec == SessionInit /\ [][SessionNext]_sessionStreamVars

-----------------------------------------------------------------------------

(* What the client is told is true.  An exit status or a signal that is     *)
(* reported as the target's own is the target's: it ended by itself, and    *)
(* every chunk it wrote is on the client's side (no chunk dropped by the    *)
(* supervisor's queue, the ssh stream or the daemon is passed over in       *)
(* silence).  A completion that says the cleanup is complete means that no  *)
(* process of the session is left.                                          *)
CompletionIsTrue ==
  LET told == sesClient.told IN
  /\ told.own => sesTarget.ended = "itself" /\ sesClient.got = sesTarget.wrote
  /\ told.cleanup => sesTarget.tree = {}

(* The daemon never refuses a renewal whose token is one it still accepts:  *)
(* the generation the client counts on its own (renewSessionCredential)     *)
(* stays between the generation accepted last and the token's true one,     *)
(* however many rotations it missed.                                        *)
RenewalIsHonoured == ~sesConn.refusedValid
=============================================================================

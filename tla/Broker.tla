------------------------------- MODULE Broker -------------------------------
(***************************************************************************)
(* The broker of a run: the host end of everything a guest asks of the     *)
(* host.  It accepts one request per connection, takes it through a ladder *)
(* of checks that depends on its action, has the effect the action stands  *)
(* for, and leaves an audit record; discovery requests are only counted    *)
(* and recorded in one aggregate when the broker closes.  The session may  *)
(* close the broker at any moment, from two goroutines at once.            *)
(***************************************************************************)
EXTENDS Integers, Sequences, Functions, FiniteSets

CONSTANTS BrokerConns,     \* connections the guest opens
          BrokerActions,   \* the actions it asks for
          BrokerClosers,   \* goroutines that close the broker
          MaxAuditFaults   \* bound on audit records that cannot be written

\* The guest opens finitely many connections, and some goroutine closes the
\* broker in the end.
ASSUME BrokerAssumption == IsFiniteSet(BrokerConns) /\ BrokerClosers # {}

VARIABLES brokerSrv,      \* the listener: open or closed, and the serve loop
          brokerConn,     \* connection -> its request and how far it got
          brokerCloser,   \* closer -> how far it got
          brokerAudit,    \* what the audit log holds, and what is only counted
          brokerEffects,  \* connections whose effect on the host has happened
          brokerFaults    \* audit faults left

brokerVars == <<brokerSrv, brokerConn, brokerCloser, brokerAudit, brokerEffects, brokerFaults>>

-----------------------------------------------------------------------------
(* Requests.                                                                *)

DiscoveryActions == {"host.fs.stat", "host.fs.list"}
HostFSActions == DiscoveryActions \cup {"host.fs.read"} \cup
  {"host.fs.write", "host.fs.write.create", "host.fs.write.mkdir", "host.fs.write.delete",
   "host.fs.write.rename", "host.fs.write.chmod", "host.fs.write.chown"}

(* The arguments each HostFS action takes and needs.                        *)
WriteArgs == {"destinationPath", "dataBase64", "truncate", "mode", "uid", "gid"}
HostFSArgs == {"path", "offset", "size"} \cup WriteArgs

validateHostFSActionArgs(verb, args) ==
  CASE verb \in DiscoveryActions -> args \cap (WriteArgs \cup {"offset", "size"}) = {}
    [] verb = "host.fs.read" -> args \cap WriteArgs = {}
    [] verb = "host.fs.write.create" -> "dataBase64" \in args
    [] verb = "host.fs.write.mkdir" -> args \cap {"dataBase64", "destinationPath"} = {}
    [] verb = "host.fs.write.delete" -> args \cap (WriteArgs \ {"truncate"}) = {}
    [] verb = "host.fs.write.rename" -> "destinationPath" \in args
    [] verb = "host.fs.write.chmod" -> "mode" \in args
    [] verb = "host.fs.write.chown" -> args \cap {"uid", "gid"} # {}
    [] OTHER -> TRUE

validateHostFSRequestEnvelope(verb, args) ==
  args \subseteq HostFSArgs /\ "path" \in args /\ validateHostFSActionArgs(verb, args)

(* An open request names a command registered for the run, with the target  *)
(* it was called with.                                                      *)
validateRegisteredCommand(req) ==
  /\ req.registry # {} => req.command # "none" /\ req.argv[1] = req.command
  /\ req.command # "none" => req.command \in req.registry
validateOpenCommandArgv(req) ==
  req.command # "none" => Len(req.argv) = 2 /\ req.argv[2] = req.target
validateBrokerRequestEnvelope(req) ==
  validateRegisteredCommand(req) /\ req.target # "none" /\ validateOpenCommandArgv(req)

(* A guest path leads to the host only from below the workspace root, and   *)
(* only when it also resolves to something below it.                        *)
resolveGuestWorkspacePath(target) == target \in {"inside", "link-out"}
mapGuestPath(target) == resolveGuestWorkspacePath(target) /\ target # "link-out"

(* The scripts of the profile are asked in turn; the first that proposes    *)
(* anything but to allow this very action ends the request.                 *)
ValidateCommandScriptProposal(p) == p # "other-action"
evaluateCommandScripts(proposals) ==
  \A i \in DOMAIN proposals :
     ValidateCommandScriptProposal(proposals[i]) /\ proposals[i] = "allow"

(* The checks of each action, in the order they are made.                   *)
hostFSChecks == <<"route", "envelope", "policy">>
commandAdapterChecks == <<"envelope", "outcome">>
hostAppChecks == <<"route", "envelope", "intent", "binding", "resource">>
hostOpenChecks ==
  <<"route", "envelope", "cwd", "target", "script", "policy", "redaction", "opener">>

ladder(action) ==
  <<"authorized">> \o
  CASE action \in HostFSActions -> hostFSChecks
    [] action = "command.adapter" -> <<"registered">> \o commandAdapterChecks
    [] action = "host.app.open" -> <<"registered">> \o hostAppChecks
    [] action = "host.open" -> <<"registered">> \o hostOpenChecks
    [] OTHER -> <<"envelope">>

passes(check, action, req) ==
  CASE check = "envelope" /\ action \in HostFSActions ->
         validateHostFSRequestEnvelope(action, req.args)
    [] check = "envelope" /\ action = "host.open" -> validateBrokerRequestEnvelope(req)
    [] check = "target" -> req.target = "url" \/ mapGuestPath(req.target)
    [] check = "script" -> evaluateCommandScripts(req.scripts)
    [] OTHER -> check # req.fails

(* The first check a request fails, or "none".                              *)
firstFailing(action, req) ==
  LET failing == SelectSeq(ladder(action), LAMBDA g : ~passes(g, action, req))
  IN IF failing = <<>> THEN "none" ELSE failing[1]

(* Requests that tell the checks apart.                                     *)
BrokerRequests(action) ==
  [args : IF action \in HostFSActions THEN {{"path"}, {"size"}, {"path", "mode"}} ELSE {{}},
   registry : {{"open"}}, command : {"open"}, target : {"inside", "link-out", "outside", "url"},
   argv : {<<"open", "inside">>, <<"open", "link-out">>, <<"open", "outside">>, <<"open", "url">>},
   scripts : {<<>>, <<"allow", "allow">>, <<"allow", "ask">>, <<"other-action">>},
   fails : {"none"} \cup Range(ladder(action))]

(* What the first failing check answers.                                    *)
refusal(check) ==
  CASE check \in {"envelope", "cwd"} -> "bad-request"
    [] check = "opener" -> "error"
    [] OTHER -> "denied"

(* Whether an action touches the host once its checks are passed.           *)
hasEffect(action) == action \in HostFSActions \cup {"host.app.open", "host.open"}

-----------------------------------------------------------------------------

NoRequest == [action |-> "none", failing |-> "none", at |-> "idle", status |-> "none"]

BrokerInit ==
  /\ brokerSrv = [closed |-> FALSE, listening |-> TRUE, serving |-> TRUE, handlers |-> 0]
  /\ brokerConn = [c \in BrokerConns |-> NoRequest]
  /\ brokerCloser = [k \in BrokerClosers |-> "running"]
  /\ brokerAudit = [log |-> {}, counted |-> {}, drained |-> {}, lost |-> {}]
  /\ brokerEffects = {}
  /\ brokerFaults = MaxAuditFaults

connAt(c, step) == brokerConn[c].at = step
connTo(c, step) == brokerConn' = [brokerConn EXCEPT ![c].at = step]
answerWithStatus(c, step, status) ==
  brokerConn' = [brokerConn EXCEPT ![c].at = step, ![c].status = status]

(* A client connects with a request.                                        *)
Dial(c, action) ==
  /\ connAt(c, "idle") /\ brokerSrv.listening
  /\ \E failing \in {firstFailing(action, req) : req \in BrokerRequests(action)} :
        brokerConn' = [brokerConn EXCEPT
          ![c] = [action |-> action, failing |-> failing, at |-> "dialled", status |-> "none"]]
  /\ UNCHANGED <<brokerSrv, brokerCloser, brokerAudit, brokerEffects, brokerFaults>>

(* serve: Accept takes a connection off the listener.                       *)
Accept(c) ==
  /\ connAt(c, "dialled") /\ brokerSrv.listening /\ brokerSrv.serving
  /\ \A d \in BrokerConns : ~connAt(d, "accepted")
  /\ connTo(c, "accepted")
  /\ UNCHANGED <<brokerSrv, brokerCloser, brokerAudit, brokerEffects, brokerFaults>>

(* Taking the connection on without looking whether the broker closed.      *)
AdmitAlways(c) ==
  /\ connAt(c, "accepted")
  /\ connTo(c, "handling")
  /\ brokerSrv' = [brokerSrv EXCEPT !.handlers = @ + 1]
  /\ UNCHANGED <<brokerCloser, brokerAudit, brokerEffects, brokerFaults>>

(* serve, under the lock: a handler starts unless the broker has closed     *)
(* since, which also ends the loop.                                         *)
AdmitConn(c) ==
  /\ connAt(c, "accepted")
  /\ \/ /\ ~brokerSrv.closed
        /\ connTo(c, "handling")
        /\ brokerSrv' = [brokerSrv EXCEPT !.handlers = @ + 1]
     \/ /\ brokerSrv.closed
        /\ connTo(c, "dropped")
        /\ brokerSrv' = [brokerSrv EXCEPT !.serving = FALSE]
  /\ UNCHANGED <<brokerCloser, brokerAudit, brokerEffects, brokerFaults>>

AcceptFails ==
  /\ ~brokerSrv.listening /\ brokerSrv.serving
  /\ \A c \in BrokerConns : ~connAt(c, "accepted")
  /\ brokerSrv' = [brokerSrv EXCEPT !.serving = FALSE]
  /\ UNCHANGED <<brokerConn, brokerCloser, brokerAudit, brokerEffects, brokerFaults>>

(* Handle: the checks.  A request that cannot be parsed is answered without *)
(* a record; one that fails a check leaves a record and nothing else.       *)
HandleChecks(c) ==
  LET r == brokerConn[c]
  IN /\ connAt(c, "handling")
     /\ \/ answerWithStatus(c, "answering", "malformed")
        \/ /\ r.failing # "none"
           /\ answerWithStatus(c, "auditing", refusal(r.failing))
        \/ /\ r.failing = "none"
           /\ IF hasEffect(r.action) THEN connTo(c, "acting")
                                     ELSE answerWithStatus(c, "auditing", "ok")
     /\ UNCHANGED <<brokerSrv, brokerCloser, brokerAudit, brokerEffects, brokerFaults>>

HandleEffect(c) ==
  /\ connAt(c, "acting")
  /\ brokerEffects' = brokerEffects \cup {c}
  /\ answerWithStatus(c, "auditing", "ok")
  /\ UNCHANGED <<brokerSrv, brokerCloser, brokerAudit, brokerFaults>>

(* emit; recordHostFSDiscoveryAudit for discovery.  A record that cannot be *)
(* written changes no answer.                                               *)
HandleAudit(c) ==
  /\ connAt(c, "auditing")
  /\ connTo(c, "answering")
  /\ \/ /\ brokerConn[c].action \in DiscoveryActions
        /\ brokerAudit' = [brokerAudit EXCEPT !.counted = @ \cup {c}]
        /\ UNCHANGED brokerFaults
     \/ /\ brokerConn[c].action \notin DiscoveryActions
        /\ brokerAudit' = [brokerAudit EXCEPT !.log = @ \cup {c}]
        /\ UNCHANGED brokerFaults
     \/ /\ brokerConn[c].action \notin DiscoveryActions /\ brokerFaults > 0
        /\ brokerAudit' = [brokerAudit EXCEPT !.lost = @ \cup {c}]
        /\ brokerFaults' = brokerFaults - 1
  /\ UNCHANGED <<brokerSrv, brokerCloser, brokerEffects>>

HandleAnswer(c) ==
  /\ connAt(c, "answering")
  /\ connTo(c, "done")
  /\ brokerSrv' = [brokerSrv EXCEPT !.handlers = @ - 1]
  /\ UNCHANGED <<brokerCloser, brokerAudit, brokerEffects, brokerFaults>>

-----------------------------------------------------------------------------
(* Close: the first caller closes the listener under the lock; every caller *)
(* then waits for the handlers and writes the counts.                       *)

CloseOnce(k) ==
  /\ brokerCloser[k] = "running"
  /\ brokerSrv' = [brokerSrv EXCEPT !.closed = TRUE, !.listening = FALSE]
  /\ brokerCloser' = [brokerCloser EXCEPT ![k] = "waiting"]
  /\ brokerConn' = [c \in BrokerConns |->
       IF connAt(c, "dialled") /\ brokerSrv.listening THEN [brokerConn[c] EXCEPT !.at = "dropped"]
                                                      ELSE brokerConn[c]]
  /\ UNCHANGED <<brokerAudit, brokerEffects, brokerFaults>>

CloseWaits(k) ==
  /\ brokerCloser[k] = "waiting" /\ brokerSrv.handlers = 0
  /\ brokerCloser' = [brokerCloser EXCEPT ![k] = "flushing"]
  /\ UNCHANGED <<brokerSrv, brokerConn, brokerAudit, brokerEffects, brokerFaults>>

(* flushHostFSDiscoveryAudit drains the counts before it writes them: rows  *)
(* behind one that fails are gone, and a second caller finds nothing to     *)
(* write while the first is still writing.                                  *)
CloseDrains(k) ==
  /\ brokerCloser[k] = "flushing"
  /\ LET mine == brokerAudit.counted # {}
     IN /\ brokerCloser' = [brokerCloser EXCEPT ![k] = IF mine THEN "writing" ELSE "closed"]
        /\ brokerAudit' = [brokerAudit EXCEPT !.counted = {},
                             !.drained = IF mine THEN brokerAudit.counted ELSE @]
  /\ UNCHANGED <<brokerSrv, brokerConn, brokerEffects, brokerFaults>>

CloseFlushes(k) ==
  /\ brokerCloser[k] = "writing"
  /\ brokerCloser' = [brokerCloser EXCEPT ![k] = "closed"]
  /\ \E rest \in SUBSET brokerAudit.drained :
        /\ rest # {} => brokerFaults > 0
        /\ brokerFaults' = IF rest = {} THEN brokerFaults ELSE brokerFaults - 1
        /\ brokerAudit' = [brokerAudit EXCEPT !.drained = {}, !.lost = @ \cup rest,
                                              !.log = @ \cup (brokerAudit.drained \ rest)]
  /\ UNCHANGED <<brokerSrv, brokerConn, brokerEffects>>

BrokerNext ==
  \/ \E c \in BrokerConns, a \in BrokerActions : Dial(c, a)
  \/ \E c \in BrokerConns : \/ Accept(c) \/ AdmitConn(c) \/ HandleChecks(c)
                            \/ HandleEffect(c) \/ HandleAudit(c) \/ HandleAnswer(c)
  \/ AcceptFails
  \/ \E k \in BrokerClosers : CloseOnce(k) \/ CloseWaits(k) \/ CloseDrains(k) \/ CloseFlushes(k)

BrokerSpec == BrokerInit /\ [][BrokerNext]_brokerVars

(* Once Close has returned to any of its callers the broker is quiet: no    *)
(* request is being handled and none can have an effect on the host any     *)
(* more.  Once it has returned to all of them, each request that had an     *)
(* effect is in the audit log, be it through the aggregate that Close       *)
(* writes, unless its record could not be written (broker.go serve, handle, *)
(* Close; hostfs_audit.go).                                                 *)
ClosedIsQuiet ==
  /\ (\E k \in BrokerClosers : brokerCloser[k] = "closed") =>
        \A c \in BrokerConns :
           brokerConn[c].at \in {"idle", "dialled", "accepted", "dropped", "done"}
  /\ (\A k \in BrokerClosers : brokerCloser[k] = "closed") =>
        brokerEffects \subseteq brokerAudit.log \cup brokerAudit.lost
=============================================================================

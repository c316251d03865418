--------------------------- MODULE DecisionCenter ---------------------------
(***************************************************************************)
(* The operator decision center: the durable decision store every manager  *)
(* process opens for itself, the HostFS write overlay whose own decision   *)
(* record the store mirrors, and the HostFS read provider whose manifest   *)
(* is what the guest is finally let through by.                            *)
(*                                                                         *)
(* One decision is followed, of the kind `focus` names.  Each element of   *)
(* Operators is a manager client with one request in flight at a time; a   *)
(* request is a sequence of steps, one per lock region or file write, so   *)
(* requests of several processes interleave as the code lets them: the     *)
(* decision store serializes each call with its lock file, the read        *)
(* provider with provider.lock, the overlay with nothing (every request    *)
(* opens an overlay.Store, and so a mutex, of its own).                    *)
(*                                                                         *)
(* Time is a counter; leases and timeouts are LeaseTicks and TimeoutTicks  *)
(* long.  A claim token is named by the revision of the claim that issued  *)
(* it, which no other claim of the decision can have.                      *)
(***************************************************************************)
EXTENDS Integers, FiniteSets

CONSTANTS Operators,         \* manager clients with a request in flight
          DecisionKinds,     \* the kinds of decision a behaviour may follow
          LeaseTicks,        \* length of a claim lease
          TimeoutTicks,      \* a decision times out this long after creation
          MaxTicks,          \* bound on time
          MaxCalls,          \* bound on the requests of a behaviour
          MaxCenterFaults,   \* bound on failing writes
          MaxCenterCrashes   \* bound on crashes of the manager process

VARIABLES focus,       \* the kind of the one decision
          center,      \* the decision store's record of it
          overlay,     \* the overlay's operation, decision and content object
          hostFile,    \* the host file below the overlay
          grants,      \* the read provider: its record, manifest, lock, resource
          sessionLive, \* the session's owner lock is held
          call,        \* the request each operator has in flight
          mine,        \* what each operator was last told
          clock,
          centerBudget

centerVars == <<focus, center, overlay, hostFile, grants, sessionLive, call,
                mine, clock, centerBudget>>

NoClaim == [token |-> 0, until |-> 0]
NoDecision == [state |-> "none", rev |-> 0, claim |-> NoClaim, timeout |-> 0]
NoCall == [verb |-> "none", at |-> "idle"]
Guest == 0            \* the session's own side, asking and staging
Unlocked == -1

DecisionTerminal(state) ==
  state \in {"approved", "applied", "denied", "timed-out", "failed", "stale",
             "discarded"}

-----------------------------------------------------------------------------
(* The decision store: each call is one region under the lock file.  An    *)
(* outcome is the record it leaves and whether the caller is told it did   *)
(* what was asked.                                                         *)

expiredDecision(d) ==
  /\ d.state # "none"
  /\ ~DecisionTerminal(d.state)
  /\ clock >= d.timeout

moveTo(d, state) ==
  [d EXCEPT !.state = state, !.claim = NoClaim, !.rev = @ + 1]

timeoutDecision(d) == moveTo(d, "timed-out")

refuse(d) == [ok |-> FALSE, d |-> d]
accept(d) == [ok |-> TRUE, d |-> d]

validateClaimToken(claim, token) == token # 0 /\ claim.token = token

validateClaim(d, token) ==
  /\ d.state = "claimed"
  /\ validateClaimToken(d.claim, token)
  /\ clock < d.claim.until

(* A pending decision is claimed outright; one whose lease has lapsed only  *)
(* by an explicit takeover naming the current revision.                     *)
ClaimDecisionWithOptions(d, takeover, expected) ==
  LET claimed == [d EXCEPT !.state = "claimed", !.rev = @ + 1,
                           !.claim = [token |-> d.rev + 1,
                                      until |-> clock + LeaseTicks]]
  IN CASE d.state = "none" -> refuse(d)
       [] takeover /\ d.rev # expected -> refuse(d)
       [] expiredDecision(d) -> refuse(timeoutDecision(d))
       [] d.state = "pending" /\ ~takeover -> accept(claimed)
       [] d.state = "claimed" /\ clock >= d.claim.until /\ takeover -> accept(claimed)
       [] OTHER -> refuse(d)

ReleaseStoredClaim(d, token) ==
  CASE expiredDecision(d) -> refuse(timeoutDecision(d))
    [] d.state = "claimed" /\ validateClaimToken(d.claim, token) ->
         accept(moveTo(d, "pending"))
    [] OTHER -> refuse(d)

ReleaseExpiredClaims(d, now) ==
  IF d.state = "claimed" /\ now >= d.claim.until /\ now < d.timeout
  THEN accept(moveTo(d, "pending")) ELSE refuse(d)

ResolveDecision(d, token, state) ==
  CASE expiredDecision(d) -> refuse(timeoutDecision(d))
    [] validateClaim(d, token) -> accept(moveTo(d, state))
    [] OTHER -> refuse(d)

ValidateDecisionClaim(d, token) ==
  CASE expiredDecision(d) -> refuse(timeoutDecision(d))
    [] validateClaim(d, token) -> accept(d)
    [] OTHER -> refuse(d)

RevokeGrantedDecision(d) ==
  IF d.state = "approved" THEN accept(moveTo(d, "denied")) ELSE refuse(d)

InvalidateProviderDecision(d) ==
  IF d.state \in {"pending", "claimed", "approved"}
  THEN accept(moveTo(d, "stale")) ELSE refuse(d)

ReopenProviderDecision(d) ==
  IF d.state \in {"denied", "timed-out"}
  THEN accept([moveTo(d, "pending") EXCEPT !.timeout = clock + TimeoutTicks])
  ELSE refuse(d)

FailAppliedProviderDecision(d) ==
  IF d.state = "applied" THEN accept(moveTo(d, "failed")) ELSE refuse(d)

TimeoutExpiredDecisions(d) ==
  IF expiredDecision(d) THEN accept(timeoutDecision(d)) ELSE refuse(d)

(* CreateOrUpdateDecision keeps the revision moving forward whatever the    *)
(* record it is given says.                                                 *)
CreateOrUpdateDecision(d, projected) == [projected EXCEPT !.rev = d.rev + 1]

-----------------------------------------------------------------------------
(* The overlay, and the projection of its decision into the store.          *)

hostFSDecisionState(state) ==
  CASE state \in {"pending", "claimed", "applied", "discarded"} -> state
    [] state = "expired" -> "timed-out"
    [] state \in {"conflict", "failed"} -> "failed"
    [] OTHER -> "stale"

projection(ref) ==
  LET state == hostFSDecisionState(ref.state)
  IN [state |-> state, rev |-> 0, timeout |-> ref.timeout,
      claim |-> IF state = "claimed" THEN ref.claim ELSE NoClaim]

sameHostFSWriteDecisionProjection(d, p) == [d EXCEPT !.rev = 0] = p

hostFSWriteDecisionVisible(state) == state \in {"pending", "claimed"}

validateHostFSWriteClaim(ref, token) ==
  /\ ref.state = "claimed"
  /\ validateClaimToken(ref.claim, token)
  /\ clock < ref.claim.until

-----------------------------------------------------------------------------
(* How a request moves: to its next step, or to its answer.                 *)

Callers == Operators \cup {Guest}

inFlight(o, step) == call[o].at = step
goOn(o, c) == call' = [call EXCEPT ![o] = c] /\ UNCHANGED mine
toStep(o, step) == goOn(o, [call[o] EXCEPT !.at = step])

(* The request ends with its answer; a claim's answer carries the token.    *)
answerWith(o, ok, claim) ==
  /\ call' = [call EXCEPT ![o] = NoCall]
  /\ mine' = [mine EXCEPT ![o] =
       [@ EXCEPT !.verb = call[o].verb, !.ok = ok, !.resolved = call[o].resolved,
                 !.claim = IF claim = NoClaim THEN @ ELSE claim]]
answer(o, ok) == answerWith(o, ok, NoClaim)

faulted ==
  /\ centerBudget.faults < MaxCenterFaults
  /\ centerBudget' = [centerBudget EXCEPT !.faults = @ + 1]
fine == UNCHANGED centerBudget

still == UNCHANGED <<focus, hostFile, sessionLive, clock>>
storeOnly == still /\ UNCHANGED <<overlay, grants>>
overlayOnly == still /\ UNCHANGED <<center, grants>>
grantsOnly == still /\ UNCHANGED <<center, overlay>>
noneTouched == still /\ UNCHANGED <<center, overlay, grants>>

(* A call of the decision store: the record it leaves is durable whether or *)
(* not it did what was asked; a failing write leaves it as it was.          *)
storeCall(o, outcome, accepted, refused) ==
  /\ storeOnly
  /\ \/ fine /\ center' = outcome.d /\ outcome.ok /\ accepted
     \/ fine /\ center' = outcome.d /\ ~outcome.ok /\ refused
     \/ faulted /\ UNCHANGED center /\ answer(o, FALSE)

(* The last store call of a request, and its audit record: when only the    *)
(* audit fails the caller is told of an error although the store changed.   *)
lastStoreCall(o, outcome) ==
  \/ storeCall(o, outcome, answerWith(o, TRUE, outcome.d.claim), answer(o, FALSE))
  \/ /\ storeOnly /\ faulted /\ outcome.ok
     /\ center' = outcome.d /\ answer(o, FALSE)

-----------------------------------------------------------------------------
(* What every request on one decision does first: mirror the overlay into   *)
(* the store, time out what is due, and read the record.                    *)

staged == overlay.state # "none"
NoRef == [state |-> "none", claim |-> NoClaim, timeout |-> 0]
overlayRef == [state |-> overlay.state, claim |-> overlay.claim,
               timeout |-> overlay.timeout]


Begin(o, v) ==
  /\ inFlight(o, "idle")
  /\ centerBudget.calls < MaxCalls
  /\ centerBudget' = [centerBudget EXCEPT !.calls = @ + 1]
  /\ goOn(o, [verb |-> v, now |-> IF v = "list" THEN clock ELSE 0,
              ref |-> NoRef, d |-> NoDecision, resolved |-> FALSE, ok |-> FALSE,
              token |-> IF v \in {"approve", "deny", "release"}
                        THEN mine[o].claim.token ELSE 0,
              plan |-> "sync", at |-> CASE v = "list" -> "expireWrites"
                                     [] v = "invalidate" -> "invalidate"
                                     [] OTHER -> "sync"])
  /\ noneTouched

(* What follows a step several operations share, by the operation.          *)
after(step) ==
  CASE step = "saveDecision" ->
         [claim |-> "resync", expire |-> "saveOperation", discard |-> "saveOperation",
          release |-> "releaseStored", lapse |-> "upsert", apply |-> "cleanup"]
    [] step = "saveOperation" ->
         [expire |-> "upsert", discard |-> "upsert", apply |-> "saveDecision"]
    [] step = "upsert" ->
         [sync |-> "expire", claim |-> "storeClaim", expire |-> "cleanup",
          discard |-> "cleanup", lapse |-> "sync", apply |-> "resync",
          end |-> "answer"]
    [] step = "cleanup" ->
         [expire |-> "expired", discard |-> "resync", apply |-> "upsert"]

next(o) ==
  LET c == [call[o] EXCEPT !.at = after(call[o].at)[call[o].plan]]
  IN goOn(o, IF c.at \in {"expire", "answer", "sync", "resync"} THEN [c EXCEPT !.ref = NoRef] ELSE c)

(* syncHostFSWriteDecisions: read the overlay's record, then mirror it.     *)
SyncHostFSWrites(o) ==
  /\ inFlight(o, "sync")
  /\ IF staged THEN goOn(o, [call[o] EXCEPT !.ref = overlayRef, !.at = "upsert",
                                            !.plan = "sync"])
               ELSE toStep(o, "expire")
  /\ noneTouched /\ fine

(* upsertHostFSWriteDecision: the comparison reads the record before the    *)
(* store is locked, so a write may follow even when they agree by then.     *)
UpsertHostFSWriteDecision(o) ==
  LET p == projection(call[o].ref)
  IN /\ inFlight(o, "upsert")
     /\ storeOnly
     /\ \/ fine /\ sameHostFSWriteDecisionProjection(center, p) /\ UNCHANGED center /\ next(o)
        \/ fine /\ center' = CreateOrUpdateDecision(center, p) /\ next(o)
        \/ /\ faulted /\ UNCHANGED center
           /\ CASE call[o].plan = "end" -> next(o)
                [] call[o].plan \in {"apply", "discard"} ->
                     goOn(o, [call[o] EXCEPT !.at = "resync", !.ok = FALSE])
                [] OTHER -> answer(o, FALSE)

(* The synchronization after an operation on a staged write, whose errors   *)
(* are ignored, and then the answer.                                        *)
SyncAgain(o) ==
  /\ inFlight(o, "resync")
  /\ goOn(o, [call[o] EXCEPT !.ref = overlayRef, !.at = "upsert", !.plan = "end"])
  /\ noneTouched /\ fine

Answer(o) ==
  /\ inFlight(o, "answer")
  /\ answerWith(o, call[o].ok,
       IF call[o].verb \in {"claim", "takeover"} /\ call[o].ok THEN call[o].d.claim ELSE NoClaim)
  /\ noneTouched /\ fine

ExpireDecisionTimeouts(o) ==
  LET out == TimeoutExpiredDecisions(center)
      then == IF call[o].verb = "list" THEN "releaseExpired" ELSE "inspect"
  IN /\ inFlight(o, "expire")
     /\ storeCall(o, out,
          IF focus = "read"
          THEN goOn(o, [call[o] EXCEPT !.at = "syncRead", !.d = out.d, !.plan = then])
          ELSE toStep(o, then),
          toStep(o, then))

(* syncHostFSReadDecision: the provider's record follows the decision,      *)
(* unless the session is gone.                                              *)
SyncHostFSReadDecision(o) ==
  LET done == IF call[o].plan = "end" THEN answer(o, TRUE)
              ELSE goOn(o, [call[o] EXCEPT !.at = call[o].plan, !.d = NoDecision, !.plan = "sync"])
  IN /\ inFlight(o, "syncRead")
     /\ grantsOnly
     /\ \/ ~sessionLive /\ UNCHANGED grants /\ fine /\ done
        \/ /\ sessionLive /\ grants.lock = Unlocked
           /\ \/ fine /\ done
                 /\ grants' = [grants EXCEPT !.state = call[o].d.state]
              \/ faulted /\ UNCHANGED grants /\ answer(o, FALSE)

(* What the request does once the record is read: its kind's handler.       *)
handlerOf(v) ==
  CASE focus = "write" /\ v \in {"claim", "takeover"} -> "findToClaim"
    [] focus = "write" /\ v = "approve" -> "findToApply"
    [] focus = "write" /\ v = "deny" -> "findToDiscard"
    [] focus = "write" /\ v = "release" -> "findToRelease"
    [] focus = "read" /\ v \in {"claim", "takeover"} -> "claimRead"
    [] focus = "read" /\ v = "approve" -> "registerGrant"
    [] focus = "read" /\ v = "deny" -> "denyRead"
    [] focus = "read" /\ v = "reopen" -> "reopenRead"
    [] focus \in {"app", "share"} /\ v \in {"claim", "takeover"} -> "claimPlain"
    [] focus = "app" /\ v = "approve" -> "approveApp"
    [] focus = "share" /\ v = "approve" -> "validateShare"
    [] focus \in {"app", "share"} /\ v = "deny" -> "denyPlain"
    [] focus # "write" /\ v = "release" -> "releasePlain"
    [] focus = "app" /\ v = "revoke" -> "revoke"
    [] OTHER -> "none"

InspectDecision(o) ==
  LET at == handlerOf(call[o].verb)
  IN /\ inFlight(o, "inspect")
     /\ IF \/ center.state = "none"
           \/ at = "none"
           \/ DecisionTerminal(center.state) /\ call[o].verb \notin {"reopen", "revoke"}
        THEN answer(o, FALSE)
        ELSE goOn(o, [call[o] EXCEPT !.at = at,
                                     !.d = IF at = "findToRelease" THEN center ELSE NoDecision])
     /\ noneTouched /\ fine

-----------------------------------------------------------------------------
(* Staged HostFS writes.  The handlers work on the overlay record they read *)
(* when they began; a file they save replaces whatever is there by then.    *)

takeover(o) == call[o].verb = "takeover"
changed(o, state, plan) ==
  [call[o] EXCEPT !.ref = [overlayRef EXCEPT !.state = state, !.claim = NoClaim],
                  !.plan = plan, !.at = "saveDecision"]

(* ClaimHostFSWrite: a write past its timeout is expired instead.           *)
FindToClaim(o) ==
  /\ inFlight(o, "findToClaim")
  /\ IF hostFSWriteDecisionVisible(overlay.state) /\ clock >= overlay.timeout
     THEN goOn(o, changed(o, "expired", "expire"))
     ELSE goOn(o, [call[o] EXCEPT !.ref = overlayRef, !.plan = "claim", !.at = "upsert"])
  /\ noneTouched /\ fine

StoreClaim(o) ==
  LET out == ClaimDecisionWithOptions(center, takeover(o), mine[o].seen)
  IN /\ inFlight(o, "storeClaim")
     /\ storeCall(o, out,
          goOn(o, [call[o] EXCEPT !.d = out.d, !.at = "saveDecision", !.ok = TRUE,
                                  !.ref = [@ EXCEPT !.state = "claimed", !.claim = out.d.claim]]),
          answer(o, FALSE))

(* The mirror of the claim could not be saved: give the claim back.         *)
UndoClaim(o) ==
  /\ inFlight(o, "undoClaim")
  /\ storeCall(o, ReleaseStoredClaim(center, call[o].d.claim.token),
               answer(o, FALSE), answer(o, FALSE))

FindToApply(o) ==
  /\ inFlight(o, "findToApply")
  /\ toStep(o, IF validateHostFSWriteClaim(overlayRef, call[o].token) THEN "checkApply" ELSE "resync")
  /\ noneTouched /\ fine

FindToDiscard(o) ==
  /\ inFlight(o, "findToDiscard")
  /\ IF validateHostFSWriteClaim(overlayRef, call[o].token)
     THEN goOn(o, [changed(o, "discarded", "discard") EXCEPT !.ok = TRUE])
     ELSE toStep(o, "resync")
  /\ noneTouched /\ fine

(* releaseHostFSWriteDecisionClaim: the token is checked against both       *)
(* records; the lease may have lapsed.                                      *)
FindToRelease(o) ==
  LET d == call[o].d
  IN /\ inFlight(o, "findToRelease")
     /\ IF /\ d.state = "claimed" /\ validateClaimToken(d.claim, call[o].token)
           /\ overlay.state = "claimed" /\ validateClaimToken(overlay.claim, call[o].token)
        THEN goOn(o, changed(o, "pending", "release"))
        ELSE answer(o, FALSE)
     /\ noneTouched /\ fine

ReleaseStored(o) ==
  /\ inFlight(o, "releaseStored")
  /\ lastStoreCall(o, ReleaseStoredClaim(center, call[o].token))

(* overlay.Store.Apply reads both files again and compares the host with    *)
(* the base it recorded.                                                    *)
CheckApply(o) ==
  /\ inFlight(o, "checkApply")
  /\ goOn(o, CASE overlay.state # "claimed" ->
                    [call[o] EXCEPT !.ref = overlayRef, !.plan = "apply", !.at = "upsert"]
               [] overlay.state = "claimed" /\ hostFile # "base" ->
                    [changed(o, "conflict", "apply") EXCEPT !.at = "saveOperation"]
               [] OTHER -> [call[o] EXCEPT !.ref = overlayRef, !.at = "applyOperation"])
  /\ noneTouched /\ fine

ApplyOperation(o) ==
  LET become(state) ==
        [call[o] EXCEPT !.ref = [@ EXCEPT !.state = state, !.claim = NoClaim],
                        !.plan = "apply", !.at = "saveOperation", !.ok = state = "applied"]
  IN /\ inFlight(o, "applyOperation")
     /\ UNCHANGED <<focus, center, grants, sessionLive, clock>>
     /\ \/ /\ overlay.obj /\ fine /\ goOn(o, become("applied"))
           /\ hostFile' = "staged"
           /\ overlay' = [overlay EXCEPT !.written = TRUE]
        \/ /\ ~overlay.obj \/ centerBudget.faults < MaxCenterFaults
           /\ IF overlay.obj THEN faulted ELSE fine
           /\ goOn(o, become("failed"))
           /\ UNCHANGED <<overlay, hostFile>>

(* What a failing save leads to: a claim is given back, and what the apply  *)
(* found is mirrored from memory all the same.                              *)
saveFails(o) ==
  CASE call[o].plan = "claim" -> toStep(o, "undoClaim")
    [] call[o].plan = "apply" -> goOn(o, [call[o] EXCEPT !.at = "upsert", !.ok = FALSE])
    [] call[o].plan = "discard" -> goOn(o, [call[o] EXCEPT !.at = "resync", !.ok = FALSE])
    [] OTHER -> answer(o, FALSE)

SaveDecision(o) ==
  /\ inFlight(o, "saveDecision")
  /\ overlayOnly
  /\ \/ /\ fine /\ next(o)
        /\ overlay' = [overlay EXCEPT !.state = call[o].ref.state, !.claim = call[o].ref.claim,
                                      !.timeout = call[o].ref.timeout]
     \/ faulted /\ UNCHANGED overlay /\ saveFails(o)

SaveOperation(o) ==
  /\ inFlight(o, "saveOperation")
  /\ overlayOnly
  /\ \/ fine /\ next(o) /\ overlay' = [overlay EXCEPT !.op = call[o].ref.state]
     \/ faulted /\ UNCHANGED overlay /\ saveFails(o)

(* CleanupArtifacts: an error is ignored and leaves the object behind.      *)
CleanupArtifacts(o) ==
  /\ inFlight(o, "cleanup")
  /\ overlayOnly /\ next(o)
  /\ \/ fine /\ overlay' = [overlay EXCEPT !.obj = FALSE]
     \/ faulted /\ UNCHANGED overlay

(* An expired write ends a claim with an error; a listing goes on.          *)
ExpiredWrite(o) ==
  /\ inFlight(o, "expired")
  /\ IF call[o].verb = "list" THEN toStep(o, "releaseWrites") ELSE answer(o, FALSE)
  /\ noneTouched /\ fine

-----------------------------------------------------------------------------
(* maintainDecisionCenter, by the time at which the listing began.          *)

ExpireHostFSWriteTimeouts(o) ==
  /\ inFlight(o, "expireWrites")
  /\ IF hostFSWriteDecisionVisible(overlay.state) /\ call[o].now >= overlay.timeout
     THEN goOn(o, changed(o, "expired", "expire"))
     ELSE toStep(o, "releaseWrites")
  /\ noneTouched /\ fine

ReleaseExpiredHostFSWriteClaims(o) ==
  /\ inFlight(o, "releaseWrites")
  /\ IF overlay.state = "claimed" /\ call[o].now >= overlay.claim.until
     THEN goOn(o, changed(o, "pending", "lapse"))
     ELSE toStep(o, "sync")
  /\ noneTouched /\ fine

MaintainDecisionCenter(o) ==
  LET out == ReleaseExpiredClaims(center, call[o].now)
  IN /\ inFlight(o, "releaseExpired")
     /\ storeCall(o, out,
          IF focus = "read"
          THEN goOn(o, [call[o] EXCEPT !.at = "syncRead", !.d = out.d, !.plan = "listed"])
          ELSE toStep(o, "listed"),
          toStep(o, "listed"))

Listed(o) ==
  /\ inFlight(o, "listed")
  /\ call' = [call EXCEPT ![o] = NoCall]
  /\ mine' = [mine EXCEPT ![o] = [@ EXCEPT !.verb = "list", !.ok = TRUE, !.seen = center.rev]]
  /\ noneTouched /\ fine

-----------------------------------------------------------------------------
(* HostFS reads.  A handler holds provider.lock from its first step to its  *)
(* answer, across its calls of the decision store.                          *)

lockFor(o) == sessionLive /\ grants.lock = Unlocked
notLive(o) == ~sessionLive /\ answer(o, FALSE) /\ noneTouched /\ fine
unlocked(g) == [g EXCEPT !.lock = Unlocked]
saveState(state) == unlocked([grants EXCEPT !.state = state])

(* A region that changes the store and keeps the lock for what follows.     *)
lockedStoreCall(o, mayStart, outcome, then) ==
  /\ still /\ UNCHANGED overlay
  /\ lockFor(o)
  /\ IF mayStart
     THEN \/ /\ fine /\ center' = outcome.d
             /\ IF outcome.ok
                THEN grants' = [grants EXCEPT !.lock = o]
                     /\ goOn(o, [call[o] EXCEPT !.at = then, !.d = outcome.d,
                                                !.resolved = outcome.d.state = "applied"])
                ELSE UNCHANGED grants /\ answer(o, FALSE)
          \/ faulted /\ UNCHANGED <<center, grants>> /\ answer(o, FALSE)
     ELSE fine /\ UNCHANGED <<center, grants>> /\ answer(o, FALSE)

ClaimHostFSRead(o) ==
  /\ inFlight(o, "claimRead")
  /\ \/ notLive(o)
     \/ lockedStoreCall(o, grants.state \in {"pending", "claimed"},
          ClaimDecisionWithOptions(center, takeover(o), mine[o].seen), "saveClaim")

DenyHostFSRead(o) ==
  /\ inFlight(o, "denyRead")
  /\ \/ notLive(o)
     \/ lockedStoreCall(o, grants.state # "none",
          ResolveDecision(center, call[o].token, "denied"), "saveRead")

ReopenDecision(o) ==
  /\ inFlight(o, "reopenRead")
  /\ \/ notLive(o)
     \/ lockedStoreCall(o, grants.state \in {"denied", "timed-out"},
          ReopenProviderDecision(center), "saveRead")

SaveReadState(o) ==
  /\ call[o].at \in {"saveClaim", "saveRead"}
  /\ grantsOnly
  /\ \/ /\ fine /\ grants' = saveState(call[o].d.state)
        /\ answerWith(o, TRUE, call[o].d.claim)
     \/ faulted /\ grants' = unlocked(grants) /\ answer(o, FALSE)

(* approveHostFSRead: a lifecycle resource first, released again unless the *)
(* grant was committed.  Two approvals of one decision share the resource   *)
(* while it is starting; an active one refuses the second registration.     *)
RegisterGrant(o) ==
  /\ inFlight(o, "registerGrant")
  /\ grantsOnly
  /\ \/ /\ ~sessionLive \/ grants.resource = "active"
        /\ UNCHANGED grants /\ fine /\ answer(o, FALSE)
     \/ /\ sessionLive /\ grants.resource # "active"
        /\ fine /\ toStep(o, "resolveRead")
        /\ grants' = [grants EXCEPT !.resource = "starting"]
     \/ sessionLive /\ UNCHANGED grants /\ faulted /\ answer(o, FALSE)

released(g) == [g EXCEPT !.resource = "none"]

(* The claim is validated and the decision resolved as applied, under the   *)
(* lock; the record and the policy it was asked under must still agree,     *)
(* which is where a drifted file or profile refuses.                        *)
ApproveHostFSRead(o) ==
  LET out == ResolveDecision(center, call[o].token, "applied")
  IN /\ inFlight(o, "resolveRead")
     /\ grants.lock = Unlocked
     /\ still /\ UNCHANGED overlay
     /\ \/ /\ fine /\ grants.state = "claimed" /\ out.ok
           /\ center' = out.d /\ grants' = [grants EXCEPT !.lock = o]
           /\ goOn(o, [call[o] EXCEPT !.at = "saveApplied", !.d = out.d, !.resolved = TRUE])
        \/ /\ fine /\ ~(grants.state = "claimed" /\ out.ok)
           /\ center' = IF grants.state = "claimed" THEN out.d ELSE center
           /\ grants' = released(grants) /\ answer(o, FALSE)
        \/ /\ faulted /\ UNCHANGED center
           /\ grants' = released(grants) /\ answer(o, FALSE)

SaveAppliedRecord(o) ==
  /\ inFlight(o, "saveApplied")
  /\ grantsOnly
  /\ \/ fine /\ grants' = [grants EXCEPT !.state = "applied"] /\ toStep(o, "saveManifest")
     \/ faulted /\ UNCHANGED grants /\ toStep(o, "failActivation")

SaveManifestClaimed(o) ==
  /\ inFlight(o, "saveManifest")
  /\ grantsOnly
  /\ \/ /\ fine /\ toStep(o, "activate")
        /\ grants' = [grants EXCEPT !.manifest = call[o].token]
     \/ faulted /\ UNCHANGED grants /\ toStep(o, "failActivation")

SaveManifest(o) ==
  /\ inFlight(o, "saveManifest")
  /\ grantsOnly
  /\ \/ /\ fine /\ toStep(o, "activate")
        /\ grants' = [grants EXCEPT !.manifest = call[o].d.rev]
     \/ faulted /\ UNCHANGED grants /\ toStep(o, "failActivation")

(* The transition of the resource and the audit record: either failing has  *)
(* the manifest put back first.                                             *)
ActivateGrant(o) ==
  /\ inFlight(o, "activate")
  /\ grantsOnly
  /\ \/ /\ grants.resource = "starting" /\ fine /\ answer(o, TRUE)
        /\ grants' = unlocked([grants EXCEPT !.resource = "active"])
     \/ grants.resource # "starting" /\ fine /\ UNCHANGED grants /\ toStep(o, "restoreManifest")
     \/ faulted /\ UNCHANGED grants /\ toStep(o, "restoreManifest")

RestoreHostFSReadManifest(o) ==
  /\ inFlight(o, "restoreManifest")
  /\ grantsOnly /\ toStep(o, "failActivation")
  /\ \/ fine /\ grants' = [grants EXCEPT !.manifest = 0]
     \/ faulted /\ UNCHANGED grants

FailHostFSReadActivation(o) ==
  LET out == FailAppliedProviderDecision(center)
  IN /\ inFlight(o, "failActivation")
     /\ still /\ UNCHANGED overlay
     /\ \/ /\ fine /\ center' = out.d
           /\ IF out.ok THEN UNCHANGED grants /\ toStep(o, "saveFailed")
                        ELSE grants' = released(unlocked(grants)) /\ answer(o, FALSE)
        \/ /\ faulted /\ UNCHANGED center
           /\ grants' = released(unlocked(grants)) /\ answer(o, FALSE)

SaveFailedRecord(o) ==
  /\ inFlight(o, "saveFailed")
  /\ grantsOnly /\ answer(o, FALSE)
  /\ \/ fine /\ grants' = released(saveState("failed"))
     \/ faulted /\ grants' = released(unlocked(grants))

-----------------------------------------------------------------------------
(* The kinds without a provider of their own.                               *)

ClaimDecision(o) ==
  /\ inFlight(o, "claimPlain")
  /\ lastStoreCall(o, ClaimDecisionWithOptions(center, takeover(o), mine[o].seen))

ReleaseDecisionClaim(o) ==
  LET out == ReleaseStoredClaim(center, call[o].token)
  IN /\ inFlight(o, "releasePlain")
     /\ IF focus = "read"
        THEN storeCall(o, out, goOn(o, [call[o] EXCEPT !.at = "syncRead", !.d = out.d,
                                                       !.plan = "end"]), answer(o, FALSE))
        ELSE lastStoreCall(o, out)

ApproveHostApp(o) ==
  /\ inFlight(o, "approveApp")
  /\ lastStoreCall(o, ResolveDecision(center, call[o].token, "approved"))

DenyDecision(o) ==
  /\ inFlight(o, "denyPlain")
  /\ lastStoreCall(o, ResolveDecision(center, call[o].token, "denied"))

RevokeDecision(o) ==
  /\ inFlight(o, "revoke")
  /\ lastStoreCall(o, RevokeGrantedDecision(center))

(* invalidateHostAppDecisions: no synchronization and no claim.             *)
InvalidateHostAppDecisions(o) ==
  /\ inFlight(o, "invalidate")
  /\ LET out == InvalidateProviderDecision(center)
     IN storeCall(o, out, answer(o, TRUE), answer(o, TRUE))

(* approveEvidenceShareDecision: the claim is validated, the artifact       *)
(* exported, and only then the decision resolved.                           *)
ValidateShare(o) ==
  /\ inFlight(o, "validateShare")
  /\ storeCall(o, ValidateDecisionClaim(center, call[o].token),
               toStep(o, "exportShare"), answer(o, FALSE))

ExportShare(o) ==
  /\ inFlight(o, "exportShare")
  /\ overlayOnly
  /\ \/ fine /\ overlay' = [overlay EXCEPT !.written = TRUE] /\ toStep(o, "resolveShare")
     \/ faulted /\ UNCHANGED overlay /\ answer(o, FALSE)

ApproveEvidenceShare(o) ==
  /\ inFlight(o, "resolveShare")
  /\ lastStoreCall(o, ResolveDecision(center, call[o].token, "applied"))

-----------------------------------------------------------------------------
(* The session's side.                                                      *)

newDecision == [state |-> "pending", rev |-> 0, claim |-> NoClaim,
                timeout |-> clock + TimeoutTicks]
guestAt(step) == call[Guest].at = step
guestTo(step) ==
  /\ call' = [call EXCEPT ![Guest] = [verb |-> "ask", at |-> step]]
  /\ UNCHANGED mine
guestDone == call' = [call EXCEPT ![Guest] = NoCall] /\ UNCHANGED mine

AskDecision ==
  /\ focus \in {"app", "share"} /\ guestAt("idle") /\ sessionLive
  /\ center.state = "none"
  /\ center' = CreateOrUpdateDecision(center, newDecision)
  /\ storeOnly /\ fine /\ UNCHANGED <<call, mine>>

(* overlay.Store.Stage: the content object and the operation, then the      *)
(* decision; without the last the operation is seen by no listing.          *)
StageWrite ==
  /\ focus = "write" /\ guestAt("idle") /\ sessionLive
  /\ overlay.op = "none"
  /\ overlay' = [overlay EXCEPT !.op = "pending", !.obj = TRUE]
  /\ overlayOnly /\ fine /\ guestTo("stageDecision")

StageDecision ==
  /\ guestAt("stageDecision")
  /\ overlayOnly /\ guestDone
  /\ \/ fine /\ overlay' = [overlay EXCEPT !.state = "pending", !.timeout = clock + TimeoutTicks]
     \/ faulted /\ UNCHANGED overlay

(* ProposeHostFSRead: a request known to the provider only takes over the   *)
(* decision's state; a new one is recorded before its decision is created.  *)
ProposeHostFSRead ==
  /\ focus = "read" /\ guestAt("idle")
  /\ sessionLive /\ grants.lock = Unlocked
  /\ grantsOnly
  /\ \/ /\ grants.state # "none" /\ center.state # "none" /\ guestDone /\ fine
        /\ grants' = [grants EXCEPT !.state = center.state]
     \/ /\ grants.state = "none" /\ fine /\ guestTo("createDecision")
        /\ grants' = [grants EXCEPT !.state = "pending", !.lock = Guest]

CreateReadDecision ==
  /\ guestAt("createDecision")
  /\ still /\ UNCHANGED overlay /\ guestDone
  /\ \/ /\ fine /\ grants' = unlocked(grants)
        /\ center' = CreateOrUpdateDecision(center, newDecision)
     \/ faulted /\ grants' = saveState("failed") /\ UNCHANGED center

(* AllowsRead: what lets a guest's read of the file through.                *)
AllowsRead ==
  /\ sessionLive
  /\ grants.manifest # 0
  /\ center.state = "applied"
  /\ grants.manifest = center.rev

-----------------------------------------------------------------------------

SessionEnds ==
  /\ sessionLive /\ guestAt("idle")
  /\ sessionLive' = FALSE
  /\ UNCHANGED <<focus, center, overlay, hostFile, grants, call, mine, clock, centerBudget>>

HostEdit ==
  /\ focus = "write" /\ hostFile = "base"
  /\ hostFile' = "foreign"
  /\ UNCHANGED <<focus, center, overlay, grants, sessionLive, call, mine, clock, centerBudget>>

Tick ==
  /\ clock < MaxTicks
  /\ clock' = clock + 1
  /\ UNCHANGED <<focus, center, overlay, hostFile, grants, sessionLive, call, mine, centerBudget>>

(* A manager process dies: its requests go unanswered, its locks are freed. *)
ManagerCrash ==
  /\ centerBudget.crashes < MaxCenterCrashes
  /\ \E o \in Callers :
       /\ call[o].at # "idle"
       /\ call' = [call EXCEPT ![o] = NoCall]
       /\ grants' = IF grants.lock = o THEN unlocked(grants) ELSE grants
       /\ mine' = IF o = Guest THEN mine
                  ELSE [mine EXCEPT ![o].verb = "none", ![o].ok = FALSE]
  /\ centerBudget' = [centerBudget EXCEPT !.crashes = @ + 1]
  /\ UNCHANGED <<focus, center, overlay, hostFile, sessionLive, clock>>

CenterInit ==
  /\ focus \in DecisionKinds
  /\ center = NoDecision
  /\ overlay = [op |-> "none", state |-> "none", claim |-> NoClaim, timeout |-> 0,
                obj |-> FALSE, written |-> FALSE]
  /\ hostFile = "base"
  /\ grants = [state |-> "none", manifest |-> 0, lock |-> Unlocked, resource |-> "none"]
  /\ sessionLive = TRUE
  /\ call = [o \in Callers |-> NoCall]
  /\ mine = [o \in Operators |-> [verb |-> "none", ok |-> FALSE, claim |-> NoClaim,
                                  seen |-> 0, resolved |-> FALSE]]
  /\ clock = 0
  /\ centerBudget = [calls |-> 0, faults |-> 0, crashes |-> 0]

CommonStep(o) ==
  \/ SyncHostFSWrites(o) \/ UpsertHostFSWriteDecision(o) \/ SyncAgain(o) \/ Answer(o)
  \/ ExpireDecisionTimeouts(o) \/ SyncHostFSReadDecision(o) \/ InspectDecision(o)
  \/ ExpireHostFSWriteTimeouts(o) \/ ReleaseExpiredHostFSWriteClaims(o)
  \/ MaintainDecisionCenter(o) \/ Listed(o)

WriteStep(o) ==
  \/ FindToClaim(o) \/ StoreClaim(o) \/ UndoClaim(o) \/ FindToApply(o) \/ FindToDiscard(o)
  \/ FindToRelease(o) \/ ReleaseStored(o) \/ CheckApply(o) \/ ApplyOperation(o)
  \/ SaveDecision(o) \/ SaveOperation(o) \/ CleanupArtifacts(o) \/ ExpiredWrite(o)

ReadStep(o) ==
  \/ ClaimHostFSRead(o) \/ DenyHostFSRead(o) \/ ReopenDecision(o) \/ SaveReadState(o)
  \/ RegisterGrant(o) \/ ApproveHostFSRead(o) \/ SaveAppliedRecord(o) \/ SaveManifest(o)
  \/ ActivateGrant(o) \/ RestoreHostFSReadManifest(o) \/ FailHostFSReadActivation(o)
  \/ SaveFailedRecord(o)

PlainStep(o) ==
  \/ ClaimDecision(o) \/ ReleaseDecisionClaim(o) \/ ApproveHostApp(o) \/ DenyDecision(o)
  \/ RevokeDecision(o) \/ InvalidateHostAppDecisions(o) \/ ValidateShare(o)
  \/ ExportShare(o) \/ ApproveEvidenceShare(o)

Verbs == {"list", "claim", "takeover", "approve", "deny", "release"}
         \cup (IF focus = "read" THEN {"reopen"} ELSE {})
         \cup (IF focus = "app" THEN {"revoke", "invalidate"} ELSE {})

CenterNext ==
  \/ \E o \in Operators :
       \/ \E v \in Verbs : Begin(o, v)
       \/ CommonStep(o) \/ WriteStep(o) \/ ReadStep(o) \/ PlainStep(o)
  \/ AskDecision \/ StageWrite \/ StageDecision
  \/ ProposeHostFSRead \/ CreateReadDecision
  \/ SessionEnds \/ HostEdit \/ Tick \/ ManagerCrash

CenterSpec == CenterInit /\ [][CenterNext]_centerVars

-----------------------------------------------------------------------------
(* What an operator is told about an approval is what the host and the      *)
(* guest see.  An approved read is let through by the manifest under the    *)
(* very revision the store holds; an approval that was resolved but         *)
(* answered with an error lets nothing through, whichever one of its later  *)
(* writes failed; and a staged write or share the store calls applied, or   *)
(* whose approval succeeded, has reached the host.                          *)
ApprovalsAreTrue ==
  /\ focus = "read" =>
       \A o \in Operators : mine[o].verb = "approve" /\ call[o].at = "idle" =>
         /\ mine[o].ok => /\ center.state = "applied"
                          /\ grants.manifest = center.rev
         /\ ~mine[o].ok /\ mine[o].resolved => ~AllowsRead
  /\ focus \in {"write", "share"} =>
       /\ center.state = "applied" => overlay.written
       /\ \A o \in Operators : mine[o].verb = "approve" /\ mine[o].ok => overlay.written

(* A claim is exclusive: no two operators were both told that the decision  *)
(* is claimed for them under leases that still run.                         *)
ClaimIsExclusive ==
  \A o, p \in Operators :
    /\ mine[o].verb \in {"claim", "takeover"} /\ mine[o].ok /\ clock < mine[o].claim.until
    /\ mine[p].verb \in {"claim", "takeover"} /\ mine[p].ok /\ clock < mine[p].claim.until
    => o = p
=============================================================================

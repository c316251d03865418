------------------------------ MODULE Registry ------------------------------
(***************************************************************************)
(* The resource registry of one environment (internal/lifecycle/           *)
(* registry.go).  Each run session holds a handle and registers what it    *)
(* uses: its session row, a workspace provider that it shares with its     *)
(* siblings, its own view of that provider, and grants that the Manager    *)
(* registers for it from other call stacks.  A row is removed when its     *)
(* last user releases it, and stays as an orphan when its cleanup was not  *)
(* proved.                                                                 *)
(*                                                                         *)
(* One action is one critical section of Coordinator.mu.  The root row is  *)
(* always there (Coordinator.tla) and left out; the backend is observed    *)
(* running.  Journal rows are one value per resource; the contract of a    *)
(* resource (owner, persistence, policy) is a function of its reference.   *)
(***************************************************************************)
EXTENDS Naturals, Sequences, FiniteSets, Functions

CONSTANTS Handles,       \* sessions
          Shared,        \* shared providers
          Setups,        \* bound: what a behaviour may contain (see setup)
          MaxFacts,      \* maxJournalFacts
          MaxFaults,     \* bound: failing journal writes
          MaxAcks,       \* bound: recorded facts
          ReleaseOrder(_, _, _) \* releaseOrderForHandleLocked (MCRegistry)

VARIABLES rows,       \* journal.Resources: state by reference, "none" if absent
          users,      \* resourceUsers
          order,      \* resourceOrder
          terminal,   \* the terminal map
          handle,     \* handles, committed and closing of a session
          pending,    \* what Finish has still to release
          unproved,   \* the cleanup error Finish carries
          blocked, dirty, checkpoint,
          facts,      \* journal.Facts
          disk,       \* the journal file
          acked,      \* ghost: facts whose recording was acknowledged
          faults,
          setup       \* bound: which of failing "writes", "transitions" of a
                      \* provider, "unproved" cleanups and "facts" may happen

vars == <<rows, users, order, terminal, handle, pending, unproved, blocked,
          dirty, checkpoint, facts, disk, acked, faults, setup>>

Session(h) == <<"session", h>>
View(h)    == <<"view", h>>
Grant(h)   == <<"grant", h>>
Provider(p) == <<"provider", p>>

Providers == {Provider(p) : p \in Shared}

\* What a session registers or shares.
ResourcesOf(h) == {Session(h), View(h), Grant(h)} \cup Providers

Refs == {Session(h) : h \in Handles} \cup {View(h) : h \in Handles}
        \cup {Grant(h) : h \in Handles} \cup Providers

\* Dependencies other than the root, as the catalog fixes them.
Dependencies(r) ==
  CASE r[1] = "view"  -> {Session(r[2])} \cup Providers
    [] r[1] = "grant" -> {Session(r[2])}
    [] OTHER          -> {}

\* What resourceOrder may hold: resources of the handle, none twice.
Registrations(h) ==
  UNION {Injection(1..n, ResourcesOf(h)) : n \in 0..Cardinality(ResourcesOf(h))}

\* No resource comes after one that it depends on.
DependentsFirst(q) ==
  \A i, j \in 1..Len(q) : i < j => q[i] \notin Dependencies(q[j])

\* What Finish relies on: the order has every resource the handle uses and no
\* other, dependents first if all of them have rows.
ASSUME ReleaseOrderAssumption ==
  \A h \in Handles : \A q \in Registrations(h) :
    \A owned \in SUBSET Range(q), known \in SUBSET ResourcesOf(h) :
      LET p == ReleaseOrder(q, owned, known) IN
      /\ p \in Seq(owned) /\ Range(p) = owned
      /\ owned \subseteq known => DependentsFirst(p)

\* A failed recordFact never displaces the last one.
ASSUME RegistryAssumption ==
  /\ IsFiniteSet(Shared) /\ Shared # {}
  /\ MaxFacts \in Nat /\ MaxFacts > 1 /\ MaxFaults \in Nat /\ MaxAcks \in Nat

Live == {"planned", "starting", "active", "orphaned"}
Handle == {"none", "attached", "committed", "closing", "gone"}

present(rs) == {r \in Refs : rs[r] # "none"}

\* ValidateGraph: every dependency of a row is a row.
ValidateGraph(rs) == \A r \in present(rs) : Dependencies(r) \subseteq present(rs)

ValidateTransition(from, to) ==
  \/ from = to
  \/ <<from, to>> \in {<<"planned", "starting">>, <<"starting", "active">>}

attached(h) == handle[h] \in {"attached", "committed", "closing"}

\* A mutant of open: a closing handle still registers.
openWhileClosing(h) == attached(h)

open(h) == handle[h] \in {"attached", "committed"}

(***************************************************************************)
(* Persistence.                                                            *)
(***************************************************************************)
\* JournalStore.Write: refuses an invalid graph; a failing write may have
\* replaced the file or not.
persistLocked(rs, fs, ok) ==
  LET new == [rows |-> rs, facts |-> fs] IN
  \/ ok /\ ValidateGraph(rs) /\ disk' = new /\ UNCHANGED faults
  \/ ~ok /\ ~ValidateGraph(rs) /\ UNCHANGED <<disk, faults>>
  \/ /\ ~ok /\ ValidateGraph(rs) /\ "writes" \in setup /\ faults < MaxFaults
     /\ faults' = faults + 1 /\ disk' \in {disk, new}

\* A mutant of persistNow: the write is left to the next checkpoint.
persistLater(rs, fs, ok) ==
  ok /\ checkpoint' = TRUE /\ dirty' = TRUE /\ UNCHANGED <<disk, faults>>

persistNow(rs, fs, ok) ==
  /\ persistLocked(rs, fs, ok)
  /\ checkpoint' = FALSE
  /\ dirty' = (dirty /\ ~ok)

checkpointLater == checkpoint' = TRUE /\ dirty' = TRUE /\ UNCHANGED <<disk, faults>>

Init ==
  /\ rows = [r \in Refs |-> "none"]
  /\ users = [r \in Refs |-> {}]
  /\ order = [h \in Handles |-> <<>>]
  /\ terminal = [r \in Refs |-> FALSE]
  /\ handle = [h \in Handles |-> "none"]
  /\ pending = [h \in Handles |-> <<>>]
  /\ unproved = [h \in Handles |-> FALSE]
  /\ blocked = FALSE /\ dirty = FALSE /\ checkpoint = FALSE
  /\ facts = <<>>
  /\ disk = [rows |-> rows, facts |-> facts]
  /\ acked = 0 /\ faults = 0 /\ setup \in Setups

(***************************************************************************)
(* Registration.                                                           *)
(***************************************************************************)
\* resourcesJoinCompatible: a planned declaration joins a row that is not
\* an orphan.
resourcesJoinCompatible(r) == rows[r] \in {"planned", "starting", "active"}

\* addOrJoinResource, where it succeeds: the row is added or joined.
joined(r, s) == IF rows[r] = "none" THEN [rows EXCEPT ![r] = s] ELSE rows

ordered(h, r) ==
  IF r \in Range(order[h]) THEN order ELSE [order EXCEPT ![h] = Append(@, r)]

addable(r, s) ==
  IF rows[r] = "none" THEN ValidateGraph(joined(r, s)) ELSE resourcesJoinCompatible(r)

\* removeResourceUser: the row goes with its last user.
removedUser(us, h, r) == [us EXCEPT ![r] = @ \ {h}]
removedRow(rs, us, h, r) == IF us[r] \ {h} = {} THEN [rs EXCEPT ![r] = "none"] ELSE rs

\* Promote adds the session row and the handle.
Promote(h) ==
  /\ handle[h] = "none" /\ ~blocked
  /\ addable(Session(h), "planned")
  /\ handle' = [handle EXCEPT ![h] = "attached"]
  /\ rows' = joined(Session(h), "planned")
  /\ users' = [users EXCEPT ![Session(h)] = @ \cup {h}]
  /\ order' = ordered(h, Session(h))
  /\ UNCHANGED <<terminal, pending, unproved, blocked, dirty, checkpoint, facts,
                 disk, acked, faults>>

\* register, of what the handle has not registered before; a handle that is
\* committed writes the journal, and takes the registration back, out of the
\* order as well, when that fails.
register(h, r, s) ==
  /\ open(h) /\ r \notin Range(order[h]) /\ addable(r, s)
  /\ LET us == [users EXCEPT ![r] = @ \cup {h}] IN
     \/ /\ handle[h] = "attached"
        /\ rows' = joined(r, s) /\ users' = us /\ order' = ordered(h, r)
        /\ UNCHANGED <<dirty, checkpoint, disk, faults>>
     \/ /\ handle[h] # "attached"
        /\ \E ok \in BOOLEAN :
             /\ persistNow(joined(r, s), facts, ok)
             /\ IF ok
                THEN rows' = joined(r, s) /\ users' = us /\ order' = ordered(h, r)
                ELSE /\ rows' = removedRow(joined(r, s), us, h, r)
                     /\ users' = removedUser(us, h, r)
                     /\ UNCHANGED order
  /\ UNCHANGED <<terminal, handle, pending, unproved, blocked, facts, acked>>

\* The run registers its provider and its view, in that order.
Register(h) ==
  \E r \in Providers \cup {View(h)} :
    /\ r = View(h) => \A p \in Shared : h \in users[Provider(p)]
    /\ register(h, r, "planned")

\* RegisterSessionResource: the lookup found the session committed, gave the
\* mutex up, and register tests again that it is not closing.
RegisterSessionResource(h) ==
  /\ handle[h] \in {"committed", "closing"}
  /\ register(h, Grant(h), "starting")

Commit(h) ==
  /\ handle[h] = "attached"
  /\ \E ok \in BOOLEAN :
       /\ persistNow(rows, facts, ok)
       /\ handle' = IF ok THEN [handle EXCEPT ![h] = "committed"] ELSE handle
  /\ UNCHANGED <<rows, users, order, terminal, pending, unproved, blocked, facts, acked>>

\* transition, for the targets clients pass.  A resource whose registration
\* is not active answers an error and changes nothing.
Transition(h, r, to) ==
  /\ handle[h] \in {"committed", "closing"} /\ h \in users[r] /\ rows[r] # "none"
  /\ rows[r] # to /\ ValidateTransition(rows[r], to)
  /\ rows' = [rows EXCEPT ![r] = to]
  /\ checkpointLater
  /\ UNCHANGED <<users, order, terminal, handle, pending, unproved, blocked, facts, acked>>

RecordFact(h) ==
  /\ handle[h] = "committed" /\ "facts" \in setup /\ acked < MaxAcks
  /\ LET all == Append(facts, acked + 1)
         fs  == SubSeq(all, IF Len(all) > MaxFacts THEN Len(all) - MaxFacts + 1 ELSE 1, Len(all))
     IN \E ok \in BOOLEAN :
          /\ persistNow(rows, fs, ok)
          /\ facts' = IF ok THEN fs ELSE facts
          /\ acked' = IF ok THEN acked + 1 ELSE acked
  /\ UNCHANGED <<rows, users, order, terminal, handle, pending, unproved, blocked>>

(***************************************************************************)
(* Release.                                                                *)
(***************************************************************************)
\* Mutants of releasedRow: siblings are forgotten; a released row is kept.
releasedRowForAll(h, r, err) == [rows EXCEPT ![r] = IF err THEN "orphaned" ELSE "none"]
releasedRowKept(h, r, err) == [rows EXCEPT ![r] = IF err THEN "orphaned" ELSE "released"]

\* What one call of release does to the rows: the last user's release
\* removes the row, or keeps it as an orphan when cleanup is unproved.
releasedRow(h, r, err) ==
  IF users[r] \ {h} # {} THEN rows
  ELSE [rows EXCEPT ![r] = IF err THEN "orphaned" ELSE "none"]

releasable(h, r) == h \in users[r] /\ rows[r] # "none"

\* A call of release; failed is what it returns.
release(h, r, err, failed) ==
  \/ /\ ~releasable(h, r)
     /\ failed = (h \in users[r] /\ ~terminal[r])
     /\ UNCHANGED <<rows, users, terminal, dirty, checkpoint, disk, faults>>
  \/ /\ releasable(h, r)
     /\ users' = [users EXCEPT ![r] = @ \ {h}]
     /\ rows' = releasedRow(h, r, err)
     /\ \/ /\ users[r] # {h}
           /\ ~failed /\ UNCHANGED <<terminal, dirty, checkpoint, disk, faults>>
        \/ /\ users[r] = {h} /\ err
           /\ persistNow(rows', facts, ~failed) /\ UNCHANGED terminal
        \/ /\ users[r] = {h} /\ ~err
           /\ ~failed /\ checkpointLater
           /\ terminal' = [terminal EXCEPT ![r] = TRUE]

\* releaseRunWorkspaceLifecycle: the run releases its view, then its
\* provider with the same cleanup error, which Finish gets as well.
Release(h) ==
  /\ handle[h] = "committed"
  /\ \E r \in {View(h)} \cup Providers, err \in BOOLEAN,
        failed \in BOOLEAN :
       /\ err => "unproved" \in setup
       /\ h \in users[r]
       /\ r # View(h) => h \notin users[View(h)] /\ (err <=> rows[View(h)] = "orphaned")
       /\ release(h, r, err, failed)
       /\ unproved' = [unproved EXCEPT ![h] = @ \/ err \/ failed]
  /\ UNCHANGED <<order, handle, pending, blocked, facts, acked>>

\* ReleaseSessionResource: the Manager gives a grant back that it could not
\* activate; its error is not the run's.
ReleaseSessionResource(h) ==
  /\ handle[h] \in {"committed", "closing"} /\ h \in users[Grant(h)]
  /\ \E err \in BOOLEAN, failed \in BOOLEAN :
       (err => "unproved" \in setup) /\ release(h, Grant(h), err, failed)
  /\ UNCHANGED <<order, handle, pending, unproved, blocked, facts, acked>>

\* beginFinishRegistration seals the handle, then takes the snapshot.
sealed(h) == [handle EXCEPT ![h] = "closing"]

Finish(h) ==
  /\ handle[h] = "committed" /\ pending[h] = <<>>
  /\ handle' = sealed(h)
  /\ pending' = [pending EXCEPT ![h] =
                   ReleaseOrder(order[h], {r \in Range(order[h]) : h \in users[r]},
                                present(rows) \cap ResourcesOf(h))]
  /\ \E err \in BOOLEAN :
       /\ err => "unproved" \in setup
       /\ unproved' = [unproved EXCEPT ![h] = @ \/ err]
  /\ UNCHANGED <<rows, users, order, terminal, blocked, dirty, checkpoint, facts,
                 disk, acked, faults>>

FinishRelease(h) ==
  /\ attached(h) /\ pending[h] # <<>>
  /\ \E failed \in BOOLEAN :
       /\ release(h, Head(pending[h]), unproved[h], failed)
       /\ unproved' = [unproved EXCEPT ![h] = @ \/ failed]
  /\ pending' = [pending EXCEPT ![h] = Tail(@)]
  /\ UNCHANGED <<order, handle, blocked, facts, acked>>

dropped(h) ==
  /\ handle' = [handle EXCEPT ![h] = "gone"]
  /\ order' = [order EXCEPT ![h] = <<>>]

last(h) == \A g \in Handles \ {h} : ~attached(g)

\* scheduleIfIdleLocked with the rows rs: an idle environment arms its
\* deadline and writes later, anything else is written now.
scheduleIfIdle(rs) ==
  IF ~blocked /\ present(rs) = {}
  THEN checkpointLater /\ UNCHANGED blocked
  ELSE /\ \E ok \in BOOLEAN : persistLocked(rs, facts, ok)
       /\ blocked' = (blocked \/ ~ValidateGraph(rs))
       /\ UNCHANGED <<dirty, checkpoint>>

\* The end of Finish.
finishRegistration(h) ==
  /\ handle[h] = "closing" /\ pending[h] = <<>>
  /\ dropped(h)
  /\ CASE unproved[h] ->
            /\ blocked' = TRUE
            /\ \E ok \in BOOLEAN : persistLocked(rows, facts, ok)
            /\ UNCHANGED <<dirty, checkpoint>>
       [] ~unproved[h] /\ ~last(h) -> checkpointLater /\ UNCHANGED blocked
       [] ~unproved[h] /\ last(h)  -> scheduleIfIdle(rows)
  /\ UNCHANGED <<rows, users, terminal, pending, unproved, facts, acked>>

\* Finish of a registration that was never committed.
abortRegistration(h) ==
  /\ handle[h] = "attached"
  /\ dropped(h)
  /\ LET mine == {r \in Range(order[h]) : h \in users[r]}
         rs   == [r \in Refs |-> IF r \in mine /\ users[r] = {h} THEN "none" ELSE rows[r]]
     IN /\ rows' = rs
        /\ users' = [r \in Refs |-> IF r \in mine THEN users[r] \ {h} ELSE users[r]]
        /\ IF last(h) THEN scheduleIfIdle(rs)
           ELSE UNCHANGED <<blocked, dirty, checkpoint, disk, faults>>
  /\ UNCHANGED <<terminal, pending, unproved, facts, acked>>

\* The delayed checkpoint.
Checkpoint ==
  /\ checkpoint
  /\ checkpoint' = FALSE
  /\ IF ~dirty THEN UNCHANGED <<blocked, dirty, disk, faults>>
     ELSE \E ok \in BOOLEAN :
            /\ persistLocked(rows, facts, ok)
            /\ blocked' = (blocked \/ ~ok)
            /\ dirty' = ~ok
  /\ UNCHANGED <<rows, users, order, terminal, handle, pending, unproved, facts, acked>>

Move ==
  \/ \E h \in Handles :
       \/ Promote(h) \/ Register(h) \/ RegisterSessionResource(h) \/ Commit(h)
       \/ RecordFact(h) \/ Release(h) \/ ReleaseSessionResource(h) \/ Finish(h) \/ FinishRelease(h)
       \/ finishRegistration(h) \/ abortRegistration(h)
       \/ \E r \in Providers, to \in {"starting", "active"} :
            "transitions" \in setup /\ Transition(h, r, to)
  \/ Checkpoint

Next == Move /\ UNCHANGED setup

Spec == Init /\ [][Next]_vars

(***************************************************************************)
(* Properties.                                                             *)
(***************************************************************************)
TypeOK ==
  /\ rows \in [Refs -> Live \cup {"none"}]
  /\ users \in [Refs -> SUBSET Handles]
  /\ \A h \in Handles : Range(order[h]) \subseteq Refs /\ Range(pending[h]) \subseteq Refs
  /\ terminal \in [Refs -> BOOLEAN]
  /\ handle \in [Handles -> Handle]
  /\ unproved \in [Handles -> BOOLEAN]
  /\ {blocked, dirty, checkpoint} \subseteq BOOLEAN
  /\ Len(facts) <= MaxFacts /\ Len(disk.facts) <= MaxFacts
  /\ disk.rows \in [Refs -> Live \cup {"none"}]

\* A shared resource lives as long as somebody uses it: a release, an abort
\* or a failed registration of one handle never takes a row away from its
\* siblings (release, removeResourceUser).
UsedRowsExist == \A r \in Refs : users[r] # {} => rows[r] # "none"

\* Nothing is left behind: a row is an orphan or is used by a handle that is
\* still registered, so the last Finish leaves no live row, whatever dynamic
\* registrations raced with it (beginFinishRegistration).
NoRowOutlivesItsUsers ==
  \A r \in present(rows) : rows[r] = "orphaned"
                           \/ \E h \in users[r] : attached(h)

\* The restart envelope: the file has a row for every effect that may be in
\* use, so a restarted daemon never overlooks one (Commit, register).
EffectsAreJournaled ==
  \A r \in Refs : rows[r] \in {"starting", "active", "orphaned"} =>
    disk.rows[r] # "none"

\* Every row finds its dependencies, so that the journal can be written
\* (ValidateGraph).
DependenciesExist == ValidateGraph(rows)

\* Releases come dependents first: unless a cleanup failed and left an
\* orphan, every row finds its dependencies (releaseOrderForHandleLocked).
ReleasesAreOrdered == (\A r \in Refs : rows[r] # "orphaned") => DependenciesExist

\* The last fact whose recording was acknowledged is in the file
\* (recordFact).
LastFactIsDurable == acked > 0 => acked \in Range(disk.facts)

====

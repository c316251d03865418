--------------------------- MODULE StopEvaluation ---------------------------
(***************************************************************************)
(* The stop predicate (internal/lifecycle/reducer.go): given the rows of   *)
(* the journal, EvaluateAutoStop says which of them pin the backend, which *)
(* must drain first, and whether the backend may be stopped.  The catalog  *)
(* fixes what each kind of resource depends on; an orphan may have lost    *)
(* some of its edges.  Initial states are the rows that ValidateGraph      *)
(* accepts, one per kind; the only step evaluates them.                    *)
(***************************************************************************)
EXTENDS Naturals, FiniteSets, FiniteSetsExt

CONSTANTS MaxRows    \* bound: rows besides the root

VARIABLES rowDeps,        \* the dependencies of each row, {} if the row is absent
          rowState,       \* "none", "active" or "orphaned", by kind
          obstacles,   \* what else stands in the way of a stop
          evaluation

evaluationVars == <<rowDeps, rowState, obstacles, evaluation>>

BackendRoot == "backend.incarnation"

\* productionCatalog: the stop mode of the edges of each implemented kind.
Modes ==
  [k \in {"run.session", "guest.supervisor", "guest.target", "broker.listener",
          "hostfs.read-provider", "hostfs.live-read-grant", "workspace.host-provider",
          "workspace.guest-view", "network.environment-service", "endpoint.run-bridge"} |->
     CASE k = "run.session" -> <<{BackendRoot}, {}>>
       [] k = "guest.supervisor" -> <<{}, {BackendRoot, "run.session"}>>
       [] k = "guest.target" -> <<{}, {"guest.supervisor"}>>
       [] k \in {"broker.listener", "hostfs.read-provider"} -> <<{}, {"run.session"}>>
       [] k = "hostfs.live-read-grant" -> <<{}, {"hostfs.read-provider", "run.session"}>>
       [] k = "workspace.guest-view" ->
            <<{}, {BackendRoot, "run.session", "workspace.host-provider"}>>
       [] k = "endpoint.run-bridge" -> <<{BackendRoot}, {"run.session"}>>
       [] OTHER -> <<{}, {BackendRoot}>>]

RowKinds == DOMAIN Modes
requiredDeps(k) == Modes[k][1] \cup Modes[k][2]
edgeStopMode(k, d) == IF d \in Modes[k][1] THEN "pin" ELSE "drain"

liveRows == {k \in RowKinds : rowState[k] # "none"}

\* validateResource and ValidateGraph: a row that is not an orphan has every
\* edge of its kind, and every dependency is a row.  The catalog has no
\* cycle.
ValidateRows ==
  \A k \in liveRows : /\ rowState[k] # "orphaned" => rowDeps[k] = requiredDeps(k)
                  /\ rowDeps[k] \subseteq liveRows \cup {BackendRoot}

\* The conditions that do not depend on the rows.
Conditions == {"backend-incarnation-not-observed-running", "lifecycle-transition-in-flight",
               "idle-grace-not-expired", "reconciliation-incomplete", "stop-attempt-not-owned"}

NotEvaluated == [done |-> FALSE, allowed |-> FALSE, pins |-> {}, drains |-> {}]

EvaluationInit ==
  /\ \E present \in UNION {kSubset(n, RowKinds) : n \in 0..MaxRows} :
     \E orphans \in SUBSET present :
     \E lost \in SUBSET {<<k, d>> \in orphans \X (present \cup {BackendRoot}) : d \in requiredDeps(k)} :
       /\ rowState = [k \in RowKinds |-> CASE k \in orphans -> "orphaned"
                                   [] k \in present \ orphans -> "active"
                                   [] OTHER -> "none"]
       /\ rowDeps = [k \in RowKinds |-> IF k \notin present THEN {}
                                  ELSE {d \in requiredDeps(k) : <<k, d>> \notin lost}]
  /\ ValidateRows
  /\ obstacles \in {{}} \cup {{c} : c \in Conditions}
  /\ evaluation = NotEvaluated

(***************************************************************************)
(* pathMode: a depth-first search for the root that prefers a path with a  *)
(* pin and returns at the first one.  It answers "none" if there is no     *)
(* path.                                                                   *)
(***************************************************************************)
\* A mutant of edgeMode: the mode of the first edge decides.
edgeModeOfFirst(k, d, below) ==
  CASE d = BackendRoot -> edgeStopMode(k, d)
    [] below = "none" -> "none"
    [] OTHER -> edgeStopMode(k, d)

\* The mode of a path that starts with the edge from k to d, where below is
\* what the search found from d.
edgeMode(k, d, below) ==
  CASE d = BackendRoot -> edgeStopMode(k, d)
    [] below = "none" -> "none"
    [] below = "pin" -> "pin"
    [] OTHER -> edgeStopMode(k, d)

RECURSIVE pathMode(_, _)
pathMode(k, seen) ==
  IF k \in seen THEN "none"
  ELSE LET below(d) == IF d = BackendRoot THEN "none" ELSE pathMode(d, seen \cup {k})
           found == {edgeMode(k, d, below(d)) : d \in rowDeps[k]} IN
       CASE "pin" \in found -> "pin" [] "drain" \in found -> "drain" [] OTHER -> "none"

\* A mutant of pinned: an orphan counts by its edges alone.
pinnedByPath(k) == pathMode(k, {}) = "pin" \/ (rowState[k] = "orphaned" /\ pathMode(k, {}) # "none")

\* Every row that is registered sets PossibleVMDependency, so an orphan
\* pins whatever edges it has left.
pinned(k) == rowState[k] = "orphaned" \/ pathMode(k, {}) = "pin"

drained(k) == ~pinned(k) /\ pathMode(k, {}) = "drain"

EvaluateAutoStop ==
  /\ ~evaluation.done
  /\ LET pins    == {k \in liveRows : pinned(k)}
         drains  == {k \in liveRows : drained(k)}
         reasons == obstacles
                    \cup (IF pins # {} THEN {"vm-dependency-live-or-unproved"} ELSE {})
                    \cup (IF drains # {} THEN {"pre-stop-drain-live-or-unproved"} ELSE {})
     IN evaluation' = [done |-> TRUE, allowed |-> reasons = {}, pins |-> pins, drains |-> drains]
  /\ UNCHANGED <<rowDeps, rowState, obstacles>>

EvaluationNext == EvaluateAutoStop
EvaluationSpec == EvaluationInit /\ [][EvaluationNext]_evaluationVars

(***************************************************************************)
(* Properties.                                                             *)
(***************************************************************************)
Edges == {<<k, d>> \in RowKinds \X (RowKinds \cup {BackendRoot}) : d \in rowDeps[k]}

\* Whether some path leads from k to l: l is in every set of rows that has
\* k and that the edges do not leave.
leads(k, l) ==
  \A C \in SUBSET (liveRows \cup {BackendRoot}) :
    k \in C /\ (\A e \in Edges : e[1] \in C => e[2] \in C) => l \in C

\* What pathMode computes, said of paths: a row pins if a path from it to
\* the root has a pin edge anywhere, drains if it only has other paths.
EvaluationIsExact ==
  evaluation.done =>
    \A k \in liveRows :
      LET pin == \E e \in Edges :
                   edgeStopMode(e[1], e[2]) = "pin" /\ leads(k, e[1]) /\ leads(e[2], BackendRoot)
      IN /\ k \in evaluation.pins <=> (pin \/ rowState[k] = "orphaned")
         /\ k \in evaluation.drains <=> (leads(k, BackendRoot) /\ k \notin evaluation.pins)

\* No VM-dependent effect drops out of the stop closure: the backend may be
\* stopped only when the root is the last row, although orphans may lack
\* the edges that lead to it, and those of their dependents with them.
StopNeedsNothingLive ==
  evaluation.done => (evaluation.allowed <=> (liveRows = {} /\ obstacles = {}))

====

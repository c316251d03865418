---------------------------- MODULE AtomicJournal ----------------------------
(***************************************************************************)
(* What the lifecycle coordinator relies on when it writes or removes a    *)
(* journal: whatever fails and whenever the machine stops, a reader finds  *)
(* the old journal or the new one, and once an operation has succeeded it  *)
(* finds nothing else.  JournalStore implements it on a file system.       *)
(***************************************************************************)
CONSTANTS Journals, Absent

VARIABLES visible,    \* what a reader finds
          possible,   \* what a reader may find after the machine has stopped
          busy, request,
          outcome     \* of the last operation

vars == <<visible, possible, busy, request, outcome>>

Init ==
  /\ visible = Absent /\ possible = {Absent}
  /\ busy = FALSE /\ request = Absent /\ outcome = "none"

Begin ==
  /\ ~busy /\ busy' = TRUE /\ outcome' = "none"
  /\ request' \in Journals \cup {Absent}
  /\ UNCHANGED <<visible, possible>>

Replace ==
  /\ busy /\ visible' = request /\ possible' = possible \cup {request}
  /\ UNCHANGED <<busy, request, outcome>>

\* An operation succeeds only with everything else ruled out.
Succeed ==
  /\ busy /\ visible = request /\ possible' = {request}
  /\ busy' = FALSE /\ outcome' = "ok"
  /\ UNCHANGED <<visible, request>>

Fail ==
  /\ busy /\ busy' = FALSE /\ outcome' = "error"
  /\ UNCHANGED <<visible, possible, request>>

Crash ==
  /\ visible' \in possible /\ possible' = {visible'}
  /\ busy' = FALSE
  /\ outcome' = IF busy THEN "none" ELSE outcome
  /\ UNCHANGED request

Next == Begin \/ Replace \/ Succeed \/ Fail \/ Crash

Spec == Init /\ [][Next]_vars

====

---------------------------- MODULE JournalStore ----------------------------
(***************************************************************************)
(* The file protocol of one environment's journal                          *)
(* (internal/lifecycle/journal.go).  Write makes the directory, writes and *)
(* syncs a temporary file, renames it over journal.json and syncs the      *)
(* directory; Remove deletes stale temporary files, journal.json and the   *)
(* directory, and syncs the parent.  Every system call is a step, may      *)
(* fail, and may be the last one before the machine stops.                 *)
(*                                                                         *)
(* File system (external): a directory entry that was not synced may be    *)
(* back or gone after a crash, a file that was not synced may be torn, and *)
(* a directory's sync keeps its own entry.  Coordinator.mu serialises the  *)
(* operations; what is written has passed Validate.                        *)
(***************************************************************************)
EXTENDS Naturals

CONSTANTS Journals,   \* valid journals
          Absent,     \* no file
          Torn,       \* a file whose data was lost
          MaxStale    \* bound: stale temporary files

ASSUME JournalStoreAssumption ==
  /\ Absent \notin Journals /\ Torn \notin Journals /\ Absent # Torn
  /\ MaxStale \in Nat

VARIABLES dir,       \* the environment's directory exists
          target,    \* journal.json: its value and whether its data is synced
          stable,    \* the directory entries that may survive a crash
          stale,     \* temporary files left behind
          temp,      \* the temporary file of the Write at work
          pc, journal,
          outcome,   \* of the last operation
          removed    \* ghost: Remove answered nil and nothing was written since

journalVars == <<dir, target, stable, stale, temp, pc, journal, outcome, removed>>

File == [val : Journals \cup {Absent, Torn}, synced : BOOLEAN]
none == [val |-> Absent, synced |-> TRUE]

\* What a file may hold after a crash.
image(f) == IF f.synced THEN {f.val} ELSE {f.val, Torn}

JournalInit ==
  /\ dir = FALSE /\ target = none /\ stable = {none} /\ stale = 0 /\ temp = none
  /\ pc = "idle" /\ journal = Absent /\ outcome = "none" /\ removed = FALSE

goto(from, to) == pc = from /\ pc' = to

return(result) == pc' = "idle" /\ outcome' = result

(***************************************************************************)
(* Write.                                                                  *)
(***************************************************************************)
Write ==
  /\ goto("idle", "mkdir") /\ journal' \in Journals /\ outcome' = "none"
  /\ removed' = FALSE
  /\ UNCHANGED <<dir, target, stable, stale, temp>>

ensureJournalDir ==
  /\ goto("mkdir", "create") /\ dir' = TRUE
  /\ UNCHANGED <<target, stable, stale, temp, journal, outcome, removed>>

CreateTemp ==
  /\ goto("create", "write") /\ stale < MaxStale
  /\ temp' = [val |-> Torn, synced |-> FALSE]
  /\ UNCHANGED <<dir, target, stable, stale, journal, outcome, removed>>

\* Chmod and Write.
WriteTemp ==
  /\ goto("write", "sync")
  /\ temp' = [val |-> journal, synced |-> FALSE]
  /\ UNCHANGED <<dir, target, stable, stale, journal, outcome, removed>>

\* Sync and Close.
SyncTemp ==
  /\ goto("sync", "rename")
  /\ temp' = [temp EXCEPT !.synced = TRUE]
  /\ UNCHANGED <<dir, target, stable, stale, journal, outcome, removed>>

\* A mutant of Rename: the data is written over the old journal.
CopyOver ==
  /\ goto("rename", "syncdir")
  /\ target' = [temp EXCEPT !.synced = FALSE] /\ stable' = stable \cup {target'}
  /\ temp' = none
  /\ UNCHANGED <<dir, stale, journal, outcome, removed>>

Rename ==
  /\ goto("rename", "syncdir")
  /\ target' = temp /\ stable' = stable \cup {temp} /\ temp' = none
  /\ UNCHANGED <<dir, stale, journal, outcome, removed>>

\* A mutant of syncDir: the directory is not synced.
skipSyncDir ==
  /\ pc = "syncdir" /\ return("ok")
  /\ UNCHANGED <<dir, target, stable, stale, temp, journal, removed>>

syncDir ==
  /\ pc = "syncdir" /\ return("ok")
  /\ stable' = {target}
  /\ UNCHANGED <<dir, target, stale, temp, journal, removed>>

\* A call fails; before the rename the deferred function removes the
\* temporary file, which may fail as well.
FailWrite ==
  /\ pc \in {"mkdir", "create", "write", "sync", "rename", "syncdir"}
  /\ return("error")
  /\ stale' \in IF temp = none THEN {stale} ELSE {stale, stale + 1}
  /\ temp' = none
  /\ UNCHANGED <<dir, target, stable, journal, removed>>

(***************************************************************************)
(* Remove.                                                                 *)
(***************************************************************************)
\* A directory that is not there is removed already.
RemoveNothing ==
  /\ pc = "idle" /\ ~dir /\ removed' = TRUE
  /\ UNCHANGED <<dir, target, stable, stale, temp, pc, journal, outcome>>

RemoveJournal ==
  /\ goto("idle", "temps") /\ dir /\ journal' = Absent /\ outcome' = "none"
  /\ UNCHANGED <<dir, target, stable, stale, temp, removed>>

\* It fails after any number of files.
removeStaleJournalTemps ==
  /\ pc = "temps"
  /\ \/ goto("temps", "file") /\ stale' = 0 /\ UNCHANGED outcome
     \/ stale' \in 1..stale /\ return("error")
  /\ UNCHANGED <<dir, target, stable, temp, journal, removed>>

\* A mutant of RemoveFile: its error is ignored.
RemoveFileTried ==
  /\ goto("file", "dir")
  /\ UNCHANGED <<dir, target, stable, stale, temp, journal, outcome, removed>>

RemoveFile ==
  /\ goto("file", "dir")
  /\ target' = none /\ stable' = stable \cup {none}
  /\ UNCHANGED <<dir, stale, temp, journal, outcome, removed>>

RemoveDir ==
  /\ goto("dir", "parent") /\ stale = 0
  /\ dir' = FALSE
  /\ UNCHANGED <<target, stable, stale, temp, journal, outcome, removed>>

SyncParent ==
  /\ pc = "parent" /\ return("ok")
  /\ stable' = {none} /\ removed' = TRUE
  /\ UNCHANGED <<dir, target, stale, temp, journal>>

FailRemove ==
  /\ pc \in {"temps", "file", "dir", "parent"}
  /\ return("error")
  /\ UNCHANGED <<dir, target, stable, stale, temp, journal, removed>>

(***************************************************************************)
(* The machine stops.                                                      *)
(***************************************************************************)
Crash ==
  /\ \E f \in stable, v \in Journals \cup {Absent, Torn} :
       /\ v \in image(f)
       /\ target' = [val |-> v, synced |-> TRUE] /\ stable' = {target'}
       /\ IF v = Absent
          THEN \E d \in BOOLEAN : (d => dir \/ \E g \in stable : g.val # Absent) /\ dir' = d
          ELSE dir' = TRUE
  /\ stale' \in IF dir' THEN 0..(IF temp = none THEN stale ELSE stale + 1) ELSE {0}
  /\ temp' = none /\ pc' = "idle"
  /\ outcome' = IF pc = "idle" THEN outcome ELSE "none"
  /\ UNCHANGED <<journal, removed>>

JournalNext ==
  \/ Write \/ ensureJournalDir \/ CreateTemp \/ WriteTemp \/ SyncTemp \/ Rename
  \/ syncDir \/ FailWrite
  \/ RemoveNothing \/ RemoveJournal \/ removeStaleJournalTemps \/ RemoveFile \/ RemoveDir
  \/ SyncParent \/ FailRemove
  \/ Crash

JournalSpec == JournalInit /\ [][JournalNext]_journalVars

(***************************************************************************)
(* Properties.                                                             *)
(***************************************************************************)
JournalTypeOK ==
  /\ dir \in BOOLEAN /\ target \in File /\ temp \in File
  /\ stable \subseteq File /\ stable # {}
  /\ stale \in Nat /\ journal \in Journals \cup {Absent}
  /\ pc \in {"idle", "mkdir", "create", "write", "sync", "rename", "syncdir",
             "temps", "file", "dir", "parent"}
  /\ outcome \in {"none", "ok", "error"} /\ removed \in BOOLEAN

\* A torn file never gets the name of the journal: whatever may survive a
\* crash was synced before it was renamed (Write).
NeverTorn == \A f \in stable \cup {target} : f.synced /\ f.val # Torn

Writing  == {"mkdir", "create", "write", "sync", "rename", "syncdir"}
Removing == {"temps", "file", "dir", "parent"}

\* Each step of Write and Remove finds what the steps before it have done.
JournalInv ==
  /\ JournalTypeOK /\ NeverTorn
  /\ target \in stable
  /\ pc = "rename" => temp = [val |-> journal, synced |-> TRUE]
  /\ pc = "sync" => temp.val = journal
  /\ pc \in Writing => journal \in Journals
  /\ pc \in Removing => journal = Absent
  /\ pc = "syncdir" => target.val = journal
  /\ pc \in {"dir", "parent"} => target = none

\* Write and Remove replace the journal atomically and durably, as
\* AtomicJournal promises: a removal that finds no directory is no
\* operation.
Atomic == INSTANCE AtomicJournal WITH
  visible  <- target.val,
  possible <- UNION {image(f) : f \in stable},
  busy     <- pc # "idle",
  request  <- journal
AtomicSpec == Atomic!Spec

\* A removed environment leaves no identity behind: once Remove has
\* answered nil a restarted daemon does not list the environment.
RemovedStaysRemoved == removed => ~dir

====

---------------------------- MODULE ActivityStore ----------------------------
(* The durable activity store of the daemon (internal/workloadobs/store):    *)
(* one private directory per owner with an active segment, sealed segments   *)
(* (each a segment, an index and a manifest file), a state file of coverage  *)
(* gaps, and a "deleting" area.  One mutex serialises the operations, so one *)
(* job runs at a time; it is a sequence of steps still to do, each one       *)
(* durable change, and a fault or a crash may end it between any two.        *)
EXTENDS Integers, FiniteSets, Sequences, SequencesExt, FiniteSetsExt

CONSTANTS ActOwners, ActSessions, SegmentFrames, OwnerFrames, GlobalFrames,
          MaxGaps, MaxEntries, MaxStoreFaults, MaxStoreCrashes, MaxRot,
          MaxReads, MaxDeletes

VARIABLES ownerDir, deletingDir, storeJob, storeRole, ackedEntries, lastRead, aging,
          storeBudget

storeVars == <<ownerDir, deletingDir, storeJob, storeRole, ackedEntries, lastRead,
               aging, storeBudget>>

\* A frame is one entry (its number is also its time); the torn one is the
\* prefix that a failed write left behind.
TornFrame == [n |-> 0, s |-> 0]

\* loadStateLocked of a missing state file
EmptyState == [gaps |-> {}, pruned |-> FALSE, corrupt |-> FALSE,
               pending |-> {}]

NoOwner == [made |-> FALSE, meta |-> FALSE, hasActive |-> FALSE,
            active |-> <<>>, sealed |-> <<>>, pruning |-> {},
            state |-> EmptyState]

SegmentFiles == {"segment", "manifest", "index"}

NoJob == [kind |-> "none", owner |-> 0, todo |-> <<>>, entry |-> TornFrame,
          segment |-> 0]

NoRead == [owner |-> 0, entries |-> {}, gaps |-> {}, pruned |-> FALSE,
           corrupt |-> FALSE]

StoreInit ==
    /\ ownerDir = [o \in ActOwners |-> NoOwner]
    /\ deletingDir = [o \in ActOwners |-> "none"]
    /\ storeJob = NoJob
    /\ storeRole = "down"
    /\ ackedEntries = [o \in ActOwners |-> {}]
    /\ lastRead = NoRead
    /\ aging = 0
    /\ storeBudget = [faults |-> MaxStoreFaults, crashes |-> MaxStoreCrashes,
                      rot |-> MaxRot, reads |-> MaxReads,
                      deletes |-> MaxDeletes, entry |-> 1, segment |-> 1]

----------------------------------------------------------------------------
(* What a scan of a file finds.                                            *)

\* scanSegment: the entries before the first frame that does not decode
scanSegment(frames) ==
    LET bad == {i \in 1..Len(frames) : frames[i] = TornFrame}
    IN  IF bad = {} THEN frames ELSE SubSeq(frames, 1, Min(bad) - 1)

isTorn(frames) == TornFrame \in ToSet(frames)

\* buildSegmentScopes: per session, the span of its entries
buildSegmentScopes(entries) ==
    LET times(s) == {e.n : e \in {f \in ToSet(entries) : f.s = s}}
    IN  {[s |-> s, from |-> Min(times(s)), to |-> Max(times(s))] :
            s \in {e.s : e \in ToSet(entries)}}

\* extendSegmentScopesThrough(now)
extendSegmentScopesThrough(scopes, now) ==
    {[scope EXCEPT !.to = now] : scope \in scopes}

\* mergeCoverageGap: widen a gap of the same session and reason, if there is
\* one; otherwise the new gap is not recorded
mergeCoverageGap(gaps, next) ==
    LET same == {g \in gaps : g.s = next.s /\ g.why = next.why}
    IN  IF same = {} THEN gaps
        ELSE LET g == CHOOSE g \in same : \A h \in same : g.from <= h.from
             IN  (gaps \ {g}) \cup
                 {[g EXCEPT !.from = Min({g.from, next.from}),
                            !.to = Max({g.to, next.to})]}

\* addCoverageGaps: the identifier of a gap is its segment, reason and
\* session, and a gap that is already there is left as it was
addCoverageGaps(state, segment, why, scopes) ==
    LET add(gaps, scope) ==
            LET gap == [segment |-> segment, why |-> why, s |-> scope.s,
                        from |-> scope.from, to |-> scope.to]
            IN  IF \E g \in gaps : /\ g.segment = segment
                                   /\ g.why = why
                                   /\ g.s = scope.s
                THEN gaps
                ELSE IF Cardinality(gaps) >= MaxGaps
                THEN mergeCoverageGap(gaps, gap)
                ELSE gaps \cup {gap}
    IN  [state EXCEPT !.gaps =
            FoldLeft(add, state.gaps, SetToSortSeq(scopes,
                        LAMBDA x, y : x.s < y.s)),
            !.pruned = @ \/ why = "pruned",
            !.corrupt = @ \/ why = "corrupt"]

\* validateOwnerState's limits, which the writer above must respect
validateOwnerState(state) == Cardinality(state.gaps) <= MaxGaps

\* listManifestsLocked: the segments with a manifest, oldest first
listManifests(o) ==
    SetToSortSeq({i \in DOMAIN ownerDir[o].sealed :
                     "manifest" \in ownerDir[o].sealed[i].files},
                 LAMBDA i, j : i < j)

\* ownerStatsLocked: the bytes of an owner, in frames
ownerStats(o) ==
    Len(ownerDir[o].active) +
    MapThenSumSet(LAMBDA i : Len(ownerDir[o].sealed[i].frames),
                  {i \in DOMAIN ownerDir[o].sealed :
                      "segment" \in ownerDir[o].sealed[i].files})

statsUsed == MapThenSumSet(ownerStats, ActOwners)

listOwners == {o \in ActOwners : ownerDir[o].made}

----------------------------------------------------------------------------
(* Jobs.                                                                   *)

do(name, o) == [do |-> name, o |-> o, i |-> 0]
doTo(name, o, i) == [do |-> name, o |-> o, i |-> i]

current == Head(storeJob.todo)
at(name) == storeJob.todo # <<>> /\ current.do = name

begin(kind, o, entry, todo) ==
    storeJob' = [NoJob EXCEPT !.kind = kind, !.owner = o, !.entry = entry,
                              !.todo = todo]

\* the step is done and these steps come before the rest of the job
push(steps) ==
    LET todo == steps \o Tail(storeJob.todo)
    IN  /\ storeJob' = IF todo = <<>> THEN NoJob
                       ELSE [storeJob EXCEPT !.todo = todo]
        /\ storeRole' = IF todo = <<>> /\ storeJob.kind = "open"
                        THEN "up" ELSE storeRole

done == push(<<>>)

\* the operation returns an error; Open's ends the start of the daemon
returnError(role) ==
    /\ storeJob' = NoJob
    /\ storeRole' = IF storeJob.kind = "open" THEN role ELSE storeRole

setDir(o, dir) == ownerDir' = [ownerDir EXCEPT ![o] = dir]

dropFiles(dir, i, files) ==
    LET left == dir.sealed[i].files \ files
    IN  [dir EXCEPT !.sealed =
            IF left = {} THEN [j \in DOMAIN @ \ {i} |-> @[j]]
            ELSE [@ EXCEPT ![i].files = left]]

idle == storeRole = "up" /\ storeJob = NoJob

when(needed, steps) == IF needed THEN steps ELSE <<>>

\* ensureOwnerWithRetentionLocked: whatever is missing, in this order
ensureOwner(o) ==
    when(~ownerDir[o].made, <<do("mkdir", o)>>) \o
    when(~ownerDir[o].meta, <<do("metadata", o)>>) \o
    when(~ownerDir[o].hasActive, <<do("active", o)>>)

\* recoverOwnerLocked: whatever an interrupted operation left, in this order
recoverOwner(o) ==
    LET dir == ownerDir[o]
    IN  <<do("load", o)>> \o
        when(dir.state.pending # {} \/ dir.pruning # {},
             <<do("finishPrunes", o)>>) \o
        when(~dir.hasActive, <<do("active", o)>>) \o
        when(isTorn(dir.active), <<do("repair", o)>>) \o
        when(\E i \in DOMAIN dir.sealed :
                dir.sealed[i].bad # 0 \/ dir.sealed[i].files # SegmentFiles,
             <<do("sealed", o), do("orphans", o)>>)

\* sealLocked
sealActive(o) ==
    when(isTorn(ownerDir[o].active), <<do("repair", o)>>) \o
    <<do("rename", o), do("index", o), do("manifest", o),
      do("active", o), do("retain", o)>>

\* pruneSegmentLocked
pruneSegment(o, i) ==
    <<doTo("markPrune", o, i), doTo("movePrune", o, i),
      doTo("removePrune", o, i), doTo("unmarkPrune", o, i)>>

\* quarantineSegmentLocked
quarantineSegment(o, i) ==
    <<doTo("markCorrupt", o, i), doTo("quarantine", o, i)>>

\* removePrivateTree deletes by name: active.seg and indexes, then
\* owner.json, then the rest
removeTree(o) == <<do("removeFirst", o), do("removeMeta", o),
                   do("removeRest", o)>>
----------------------------------------------------------------------------
(* Operations: each takes the mutex and lays out its steps.                *)

\* appendEntries with one entry of a session
AppendEntry(o, s) ==
    LET entry == [n |-> storeBudget.entry, s |-> s]
    IN  /\ idle
        /\ storeBudget.entry <= MaxEntries
        /\ storeBudget' = [storeBudget EXCEPT !.entry = @ + 1]
        /\ begin("append", o, entry, ensureOwner(o) \o
                 <<do("room", o), do("write", o), do("sync", o)>>)
        /\ lastRead' = NoRead
        /\ UNCHANGED <<ownerDir, deletingDir, storeRole, ackedEntries, aging>>

\* Seal
SealOwner(o) ==
    /\ idle
    /\ ownerDir[o].meta
    /\ ownerDir[o].active # <<>>
    /\ begin("seal", o, TornFrame, sealActive(o))
    /\ lastRead' = NoRead
    /\ UNCHANGED <<ownerDir, deletingDir, storeRole, ackedEntries, aging,
                   storeBudget>>

\* Snapshot: recover the owner, enforce retention, read everything
SnapshotOwner(o) ==
    /\ idle
    /\ ownerDir[o].made
    /\ storeBudget.reads > 0
    /\ storeBudget' = [storeBudget EXCEPT !.reads = @ - 1]
    /\ begin("snapshot", o, TornFrame,
             recoverOwner(o) \o
             <<do("retain", o), do("read", o)>>)
    /\ lastRead' = NoRead
    /\ UNCHANGED <<ownerDir, deletingDir, storeRole, ackedEntries, aging>>

\* DeleteOwner: rename into the deleting area, then remove the tree there;
\* a tree left there by an earlier attempt is removed first
DeleteOwner(o) ==
    LET source == ownerDir[o].made
        pending == deletingDir[o] # "none"
    IN  /\ idle
        /\ storeBudget.deletes > 0
        /\ source \/ pending
        /\ storeBudget' = [storeBudget EXCEPT !.deletes = @ - 1]
        /\ \/ /\ source /\ ~pending /\ ownerDir[o].meta
              /\ begin("delete", o, TornFrame,
                       <<do("renameOwner", o)>> \o removeTree(o))
           \/ /\ ~source /\ deletingDir[o] \in {"whole", "started"}
              /\ begin("delete", o, TornFrame, removeTree(o))
           \/ /\ \/ source /\ pending
                 \/ source /\ ~ownerDir[o].meta
                 \/ ~source /\ deletingDir[o] = "bare"
              /\ UNCHANGED storeJob
        /\ lastRead' = NoRead
        /\ UNCHANGED <<ownerDir, deletingDir, storeRole, ackedEntries, aging>>

\* Open: pending deletions, then every owner, then retention.  An owner or a
\* pending deletion without its metadata file makes it fail.
OpenStore ==
    LET order == SetToSortSeq(ActOwners, LAMBDA x, y : x < y)
        removals == [k \in 1..Len(order) |->
                        IF deletingDir[order[k]] = "none" THEN <<>>
                        ELSE <<do("pending", order[k])>>]
        owners == [k \in 1..Len(order) |->
                      IF ownerDir[order[k]].made
                      THEN recoverOwner(order[k]) ELSE <<>>]
    IN  /\ storeRole = "down"
        /\ storeRole' = "opening"
        /\ begin("open", 0, TornFrame, FlattenSeq(removals) \o
                 FlattenSeq(owners) \o <<do("retain", 0)>>)
        /\ lastRead' = NoRead
        /\ UNCHANGED <<ownerDir, deletingDir, ackedEntries, aging, storeBudget>>

----------------------------------------------------------------------------
(* Steps.                                                                  *)

retained == UNCHANGED <<deletingDir, ackedEntries, lastRead, aging, storeBudget>>

MakeOwner ==
    LET o == current.o
    IN  /\ at("mkdir")
        /\ setDir(o, [ownerDir[o] EXCEPT !.made = TRUE])
        /\ done /\ retained

WriteMetadata ==
    LET o == current.o
    IN  /\ at("metadata")
        /\ setDir(o, [ownerDir[o] EXCEPT !.meta = TRUE])
        /\ done /\ retained

CreateActive ==
    LET o == current.o
    IN  /\ at("active")
        /\ setDir(o, [ownerDir[o] EXCEPT !.hasActive = TRUE])
        /\ done /\ retained

\* loadOwnerLocked and readOwnerMetadataLocked
LoadOwner ==
    /\ at("load")
    /\ IF ownerDir[current.o].meta THEN done ELSE returnError("refused")
    /\ UNCHANGED ownerDir /\ retained

\* appendEntries: a full active segment is sealed first
MakeRoom ==
    LET o == current.o
    IN  /\ at("room")
        /\ IF Len(ownerDir[o].active) + 1 > SegmentFrames
           THEN push(sealActive(o) \o <<do("room", o)>>) ELSE done
        /\ UNCHANGED ownerDir /\ retained

\* writeAll at the end of the file
WriteFrame ==
    LET o == current.o
    IN  /\ at("write")
        /\ setDir(o, [ownerDir[o] EXCEPT !.active =
                         Append(@, storeJob.entry)])
        /\ done /\ retained

\* the batch is durable and the append returns nil
SyncActive ==
    LET o == current.o
    IN  /\ at("sync")
        /\ ackedEntries' = [ackedEntries EXCEPT ![o] = @ \cup {storeJob.entry}]
        /\ done
        /\ UNCHANGED <<ownerDir, deletingDir, lastRead, aging, storeBudget>>

\* repairActiveLocked: the gap is saved, then the tail is cut off
RepairActive ==
    LET o == current.o
        dir == ownerDir[o]
    IN  /\ at("repair")
        /\ IF isTorn(dir.active)
           THEN /\ setDir(o, [dir EXCEPT !.state =
                       addCoverageGaps(@, 0, "corrupt",
                           extendSegmentScopesThrough(
                               buildSegmentScopes(scanSegment(dir.active)),
                               storeBudget.entry))])
                /\ push(<<do("truncate", o)>>)
           ELSE done /\ UNCHANGED ownerDir
        /\ retained

TruncateActive ==
    LET o == current.o
    IN  /\ at("truncate")
        /\ setDir(o, [ownerDir[o] EXCEPT !.active = scanSegment(@)])
        /\ done /\ retained

\* sealLocked: an empty segment is an error; otherwise the file moves
RenameActive ==
    LET o == current.o
        dir == ownerDir[o]
        i == storeBudget.segment
    IN  /\ at("rename")
        /\ IF dir.active = <<>>
           THEN returnError("refused") /\ UNCHANGED ownerDir /\ retained
           ELSE /\ setDir(o, [dir EXCEPT
                       !.active = <<>>, !.hasActive = FALSE,
                       !.sealed = [j \in DOMAIN @ \cup {i} |->
                           IF j = i THEN [frames |-> dir.active, bad |-> 0,
                                          files |-> {"segment"}]
                           ELSE @[j]]])
                /\ storeBudget' = [storeBudget EXCEPT !.segment = @ + 1]
                /\ done
                /\ UNCHANGED <<deletingDir, ackedEntries, lastRead, aging>>

\* the index of the newest segment, then its manifest
WriteSegmentFile(file) ==
    LET o == current.o
        i == IF current.i = 0 THEN Max(DOMAIN ownerDir[o].sealed) ELSE current.i
    IN  /\ at(file)
        /\ setDir(o, [ownerDir[o] EXCEPT !.sealed[i].files = @ \cup {file}])
        /\ done /\ retained
\* enforceRetentionLocked: the next segment to prune is an expired one, then
\* the oldest of an owner above its limit, then the oldest of all when the
\* store is above its own; the active segment is never pruned
expired(o) ==
    {i \in ToSet(listManifests(o)) :
        \A k \in 1..Len(ownerDir[o].sealed[i].frames) :
            ownerDir[o].sealed[i].frames[k].n <= aging}

overLimit(o) == IF ownerStats(o) > OwnerFrames THEN ToSet(listManifests(o))
                ELSE {}

ownerVictims == {<<o, i>> \in listOwners \X (1..storeBudget.segment) :
                    IF expired(o) # {} THEN i = Min(expired(o))
                    ELSE overLimit(o) # {} /\ i = Min(overLimit(o))}

globalVictims ==
    LET all == {<<o, i>> \in listOwners \X (1..storeBudget.segment) :
                   i \in ToSet(listManifests(o))}
    IN  IF statsUsed <= GlobalFrames THEN {}
        ELSE {v \in all : \A w \in all : v[2] <= w[2]}

EnforceRetention ==
    LET victims == IF ownerVictims # {} THEN ownerVictims ELSE globalVictims
        v == CHOOSE v \in victims : \A w \in victims : v[1] <= w[1]
    IN  /\ at("retain")
        /\ IF \E o \in listOwners : ~ownerDir[o].meta
           THEN returnError("refused")
           ELSE IF victims = {} THEN done
           ELSE push(pruneSegment(v[1], v[2]) \o <<current>>)
        /\ UNCHANGED ownerDir /\ retained

\* Mutant of MarkPrune: only the intent is saved, not the gap.
MarkPruneIntent ==
    LET o == current.o
    IN  /\ at("markPrune")
        /\ setDir(o, [ownerDir[o] EXCEPT !.state.pending = @ \cup {current.i}])
        /\ done /\ retained

\* pruneSegmentLocked: the gap and the intent are durable first
MarkPrune ==
    LET o == current.o
        i == current.i
        dir == ownerDir[o]
    IN  /\ at("markPrune")
        /\ setDir(o, [dir EXCEPT !.state =
               [addCoverageGaps(@, i, "pruned",
                    buildSegmentScopes(dir.sealed[i].frames))
                EXCEPT !.pending = @ \cup {i}]])
        /\ done /\ retained

\* movePruneFilesLocked: segment, manifest, index, one rename each
nextFile(files) ==
    CHOOSE f \in files : \/ f = "segment"
                         \/ f = "manifest" /\ "segment" \notin files
                         \/ files = {"index"}

MovePruneFile ==
    LET o == current.o
        i == current.i
        dir == ownerDir[o]
        file == nextFile(dir.sealed[i].files)
    IN  /\ at("movePrune")
        /\ IF i \notin DOMAIN dir.sealed
           THEN done /\ UNCHANGED ownerDir
           ELSE /\ setDir(o, [dropFiles(dir, i, {file}) EXCEPT
                                 !.pruning = @ \cup {<<i, file>>}])
                /\ push(<<current>>)
        /\ retained

\* removePruningFilesLocked
RemovePruneFiles ==
    LET o == current.o
        mine == {f[2] : f \in {g \in ownerDir[o].pruning : g[1] = current.i}}
    IN  /\ at("removePrune")
        /\ IF mine = {}
           THEN done /\ UNCHANGED ownerDir
           ELSE /\ setDir(o, [ownerDir[o] EXCEPT
                                 !.pruning = @ \ {<<current.i, nextFile(mine)>>}])
                /\ push(<<current>>)
        /\ retained

UnmarkPrune ==
    LET o == current.o
    IN  /\ at("unmarkPrune")
        /\ setDir(o, [ownerDir[o] EXCEPT !.state.pending = @ \ {current.i}])
        /\ done /\ retained

\* finishPendingPrunesLocked and removeOrphanPruningFilesLocked
FinishPrunes ==
    LET o == current.o
        dir == ownerDir[o]
        i == Min(dir.state.pending)
    IN  /\ at("finishPrunes")
        /\ IF dir.state.pending # {}
           THEN push(<<doTo("movePrune", o, i), doTo("removePrune", o, i),
                       doTo("unmarkPrune", o, i), current>>)
           ELSE IF dir.pruning # {} THEN returnError("refused") ELSE done
        /\ UNCHANGED ownerDir /\ retained

\* recoverSealedLocked: the first segment that needs something
RecoverSealed ==
    LET o == current.o
        sealed == ownerDir[o].sealed
        bad == {i \in DOMAIN sealed :
                   /\ "segment" \in sealed[i].files => sealed[i].bad # 0
                   /\ sealed[i].files # {"index"}}
        orphan == {i \in DOMAIN sealed : "segment" \in sealed[i].files
                                      /\ "manifest" \notin sealed[i].files}
        noIndex == {i \in DOMAIN sealed : "segment" \in sealed[i].files
                                       /\ "index" \notin sealed[i].files}
    IN  /\ at("sealed")
        /\ IF bad # {} THEN push(quarantineSegment(o, Min(bad)) \o <<current>>)
           ELSE IF orphan # {}
           THEN push(<<doTo("index", o, Min(orphan)),
                       doTo("manifest", o, Min(orphan)), current>>)
           ELSE IF noIndex # {}
           THEN push(<<doTo("index", o, Min(noIndex)), current>>)
           ELSE done
        /\ UNCHANGED ownerDir /\ retained

\* quarantineSegmentLocked: the gap, from the manifest or from the entries
\* that still decode
MarkCorrupt ==
    LET o == current.o
        i == current.i
        dir == ownerDir[o]
        seg == dir.sealed[i]
        scopes == IF "segment" \notin seg.files THEN {}
                  ELSE IF "manifest" \in seg.files
                  THEN buildSegmentScopes(seg.frames)
                  ELSE buildSegmentScopes(SubSeq(seg.frames, 1, seg.bad - 1))
    IN  /\ at("markCorrupt")
        /\ setDir(o, [dir EXCEPT !.state =
                         addCoverageGaps(@, i, "corrupt", scopes)])
        /\ done /\ retained

QuarantineFile ==
    LET o == current.o
        i == current.i
        dir == ownerDir[o]
    IN  /\ at("quarantine")
        /\ IF i \notin DOMAIN dir.sealed
           THEN done /\ UNCHANGED ownerDir
           ELSE /\ setDir(o, dropFiles(dir, i, {nextFile(dir.sealed[i].files)}))
                /\ push(<<current>>)
        /\ retained

\* recoverOrphanIndexesLocked
QuarantineIndexes ==
    LET o == current.o
        sealed == ownerDir[o].sealed
        keep == {i \in DOMAIN sealed : "segment" \in sealed[i].files}
    IN  /\ at("orphans")
        /\ setDir(o, [ownerDir[o] EXCEPT !.sealed = [i \in keep |-> @[i]]])
        /\ done /\ retained

\* readOwnerEntriesLocked and the gaps of the state file
ReadOwner ==
    LET o == current.o
        dir == ownerDir[o]
        entries == ToSet(dir.active) \cup
                   UNION {ToSet(dir.sealed[i].frames) :
                             i \in ToSet(listManifests(o))}
    IN  /\ at("read")
        /\ IF \E i \in ToSet(listManifests(o)) : dir.sealed[i].bad # 0
           THEN lastRead' = NoRead /\ returnError("refused")
           ELSE /\ lastRead' = [owner |-> o, entries |-> entries,
                                gaps |-> dir.state.gaps,
                                pruned |-> dir.state.pruned,
                                corrupt |-> dir.state.corrupt]
                /\ done
        /\ UNCHANGED <<ownerDir, deletingDir, ackedEntries, aging, storeBudget>>
\* DeleteOwner: the rename withdraws the owner and its history
RenameOwner ==
    LET o == current.o
    IN  /\ at("renameOwner")
        /\ setDir(o, NoOwner)
        /\ deletingDir' = [deletingDir EXCEPT ![o] = "whole"]
        /\ ackedEntries' = [ackedEntries EXCEPT ![o] = {}]
        /\ done
        /\ UNCHANGED <<lastRead, aging, storeBudget>>

\* removePrivateTree
RemoveTreeStep(name, left) ==
    /\ at(name)
    /\ deletingDir' = [deletingDir EXCEPT ![current.o] = left]
    /\ done
    /\ UNCHANGED <<ownerDir, ackedEntries, lastRead, aging, storeBudget>>

RemoveTree == \/ RemoveTreeStep("removeFirst", "started")
              \/ RemoveTreeStep("removeMeta", "bare")
              \/ RemoveTreeStep("removeRest", "none")

\* recoverPendingDeletionsLocked
RecoverDeletion ==
    /\ at("pending")
    /\ IF deletingDir[current.o] = "bare" THEN returnError("refused")
       ELSE push(removeTree(current.o))
    /\ UNCHANGED ownerDir /\ retained

----------------------------------------------------------------------------
(* The environment of the store.                                           *)

\* A system call of the step fails: the operation returns the error.  A write
\* may have put part of the frame into the file.
StoreFault ==
    LET o == current.o
    IN  /\ storeJob.todo # <<>>
        /\ storeBudget.faults > 0
        /\ storeBudget' = [storeBudget EXCEPT !.faults = @ - 1]
        /\ returnError("down")
        /\ \/ UNCHANGED ownerDir
           \/ /\ at("write")
              /\ setDir(o, [ownerDir[o] EXCEPT !.active =
                               Append(@, TornFrame)])
        /\ UNCHANGED <<deletingDir, ackedEntries, lastRead, aging>>

\* The host goes down: a frame that was not synced may be torn or gone.
StoreCrash ==
    LET o == current.o
        last == Len(ownerDir[o].active)
    IN  /\ storeRole \in {"up", "opening"}
        /\ storeBudget.crashes > 0
        /\ storeBudget' = [storeBudget EXCEPT !.crashes = @ - 1]
        /\ storeJob' = NoJob
        /\ storeRole' = "down"
        /\ \/ UNCHANGED ownerDir
           \/ /\ at("sync")
              /\ \/ setDir(o, [ownerDir[o] EXCEPT !.active = Front(@)])
                 \/ setDir(o, [ownerDir[o] EXCEPT !.active[last] = TornFrame])
        /\ lastRead' = NoRead
        /\ UNCHANGED <<deletingDir, ackedEntries, aging>>

\* a sealed segment no longer decodes from some frame on
SegmentRots ==
    /\ storeBudget.rot > 0
    /\ storeJob = NoJob
    /\ \E o \in ActOwners : \E i \in DOMAIN ownerDir[o].sealed :
          /\ "segment" \in ownerDir[o].sealed[i].files
          /\ ownerDir[o].sealed[i].bad = 0
          /\ \E k \in 1..Len(ownerDir[o].sealed[i].frames) :
                setDir(o, [ownerDir[o] EXCEPT !.sealed[i].bad = k])
    /\ storeBudget' = [storeBudget EXCEPT !.rot = @ - 1]
    /\ lastRead' = NoRead
    /\ UNCHANGED <<deletingDir, storeJob, storeRole, ackedEntries, aging>>

\* everything stored so far passes the maximum age
EntriesAge ==
    /\ storeJob = NoJob
    /\ aging = 0 /\ storeBudget.entry > 2
    /\ aging' = storeBudget.entry - 2
    /\ lastRead' = NoRead
    /\ UNCHANGED <<ownerDir, deletingDir, storeJob, storeRole, ackedEntries,
                   storeBudget>>

StoreStep ==
    \/ MakeOwner \/ WriteMetadata \/ CreateActive \/ LoadOwner \/ MakeRoom
    \/ WriteFrame \/ SyncActive \/ RepairActive \/ TruncateActive
    \/ RenameActive \/ WriteSegmentFile("index") \/ WriteSegmentFile("manifest")
    \/ EnforceRetention \/ MarkPrune \/ MovePruneFile \/ RemovePruneFiles
    \/ UnmarkPrune \/ FinishPrunes \/ RecoverSealed \/ MarkCorrupt
    \/ QuarantineFile \/ QuarantineIndexes \/ ReadOwner \/ RenameOwner
    \/ RemoveTree \/ RecoverDeletion

StoreNext ==
    \/ OpenStore
    \/ \E o \in ActOwners :
          \/ \E s \in ActSessions : AppendEntry(o, s)
          \/ SealOwner(o) \/ SnapshotOwner(o) \/ DeleteOwner(o)
    \/ StoreStep
    \/ StoreFault \/ StoreCrash \/ SegmentRots \/ EntriesAge

StoreSpec == StoreInit /\ [][StoreNext]_storeVars

----------------------------------------------------------------------------
(* Properties.                                                             *)

\* A snapshot of an owner never silently lacks an entry whose append
\* returned nil: the entry is in it, or the snapshot says that the store was
\* corrupt, or it says that segments were pruned and one of its gaps spans
\* the entry in its session (unless the list of gaps is full).
SnapshotIsExplained ==
    lastRead.owner # 0 =>
        /\ validateOwnerState(lastRead)
        /\ \A e \in ackedEntries[lastRead.owner] \ lastRead.entries :
              \/ lastRead.corrupt
              \/ /\ lastRead.pruned
                 /\ \/ Cardinality(lastRead.gaps) = MaxGaps
                    \/ \E g \in lastRead.gaps :
                          g.s = e.s /\ g.from <= e.n /\ e.n <= g.to

\* The store opens again after any crash (Open in the daemon's start): no
\* interrupted operation leaves a directory that recovery refuses.
StoreReopens == storeRole # "refused"
============================================================================

--------------------------- MODULE MigrationBundle ---------------------------
(* The bundle file of an export: the writer that appends a chain of           *)
(* authenticated records, checkpoints and a seal (migration/writer.go), the   *)
(* resume that cuts a torn file back to a checkpoint (resume.go) and the      *)
(* reader that accepts only a whole bundle (reader.go, inspect.go).           *)
(* A frame's digest is a fresh number; cryptography is not modelled.          *)
EXTENDS Naturals, Sequences, FiniteSets

CONSTANTS
    DiskExtents,        \* extents of the disk component
    MaxBundleFailures,  \* failed writes and crashes
    MaxFrames           \* frames ever written

(* The components in bundle order, and the records each consists of. *)
BundleComponents == <<"profile", "disk">>
extents(c) == IF BundleComponents[c] = "disk" THEN DiskExtents ELSE 1

VARIABLES
    frames,        \* the complete frames of the file
    tornTail,      \* a partly written frame follows them
    trailer,       \* the digest of the completion frame in the trailer, or 0
    durableFrames, \* how many frames a crash keeps
    bundleWriter,  \* the writer's memory
    recorded,      \* the digest of the ledger's checkpoint, or 0
    digests,       \* frames written so far
    bundleFailures

bundleVars == <<frames, tornTail, trailer, durableFrames, bundleWriter, recorded, digests,
                bundleFailures>>

NoBundleWriter ==
    [at |-> "closed", previous |-> 0, ordinal |-> <<0, 0>>, offset |-> <<0, 0>>, last |-> 0]

BundleInit ==
    /\ frames = <<>> /\ tornTail = FALSE /\ trailer = 0 /\ durableFrames = 0
    /\ bundleWriter = [NoBundleWriter EXCEPT !.at = "payload"]
    /\ recorded = 0 /\ digests = 0 /\ bundleFailures = 0

-----------------------------------------------------------------------------
(* What a frame must satisfy where it stands. *)

sameComponent(file, i) == {j \in 1..(i - 1) : file[j].component = file[i].component}
payloadsBefore(file, i) == {j \in sameComponent(file, i) : file[j].type = "payload"}
payloadsOf(file, n, c) == {j \in 1..n : file[j].component = c /\ file[j].type = "payload"}

chained(file, i) ==
    file[i].previous = (IF i = 1 THEN 0 ELSE file[i - 1].digest)

(* Ordinals and extents are sequential within the component. *)
validateRecordOrder(file, i) ==
    /\ file[i].ordinal = Cardinality(sameComponent(file, i))
    /\ file[i].type = "payload" => file[i].offset = Cardinality(payloadsBefore(file, i))

(* A resume also needs the components in their planned order. *)
validateResumeRecordOrder(file, i) ==
    /\ validateRecordOrder(file, i)
    /\ file[i].component \in (IF i = 1 THEN {1}
                              ELSE {file[i - 1].component, file[i - 1].component + 1})
    /\ file[i].type = "checkpoint" => sameComponent(file, i) # {}

(* A checkpoint names the components completed before it. *)
decodeAndValidateResumeCheckpoint(file, i) ==
    LET whole(c) == Cardinality(payloadsOf(file, i - 1, c)) = extents(c)
        current == file[i].component
    IN /\ \A c \in 1..file[i].completed : whole(c)
       /\ current \in {file[i].completed, file[i].completed + 1}

scanResumeFrame(file, i) ==
    /\ file[i].type \in {"payload", "checkpoint"}
    /\ chained(file, i)
    /\ validateResumeRecordOrder(file, i)
    /\ file[i].type = "checkpoint" => decodeAndValidateResumeCheckpoint(file, i)

(* The frames a resume scan gets through, and the newest checkpoint in them. *)
scanned(file) == {n \in 1..Len(file) : \A i \in 1..n : scanResumeFrame(file, i)}
checkpoints(file) == {n \in scanned(file) : file[n].type = "checkpoint"}
newest(S) == IF S = {} THEN 0 ELSE CHOOSE n \in S : \A m \in S : m <= n

(* What the reader and InspectSealedBundle accept: one chain that ends in    *)
(* the manifest and the completion the trailer names, and whose manifest     *)
(* indexes the records that are there.                                       *)
validateManifestRecordIndex(file) ==
    LET n == Len(file) - 2 IN
    \A c \in 1..Len(BundleComponents) :
        file[n + 1].index[c] = Cardinality({j \in 1..n : file[j].component = c})

InspectSealedBundle(file, end) ==
    LET n == Len(file) - 2 IN
    /\ n > 0 /\ end # 0
    /\ \A i \in 1..Len(file) : chained(file, i)
    /\ \A i \in 1..n : file[i].type \in {"payload", "checkpoint"} /\ validateRecordOrder(file, i)
    /\ file[n + 1].type = "manifest"
    /\ file[n + 2].type = "completion" /\ file[n + 2].digest = end
    /\ validateManifestRecordIndex(file)

-----------------------------------------------------------------------------
(* The writer. *)

writerAt(step) == bundleWriter.at = step

(* The component being written: the first that misses an extent. *)
current ==
    CHOOSE c \in 1..Len(BundleComponents) :
        /\ bundleWriter.offset[c] < extents(c)
        /\ \A d \in 1..(c - 1) : bundleWriter.offset[d] = extents(d)

written == \A c \in 1..Len(BundleComponents) : bundleWriter.offset[c] = extents(c)

(* appendPrepared: a frame on the file's end.  A write that fails part-way    *)
(* tears the tail and leaves a writer that refuses everything.                *)
appendPrepared(frame, after) ==
    /\ digests < MaxFrames
    /\ digests' = digests + 1
    /\ \/ /\ frames' = Append(frames, frame)
          /\ bundleWriter' = after
          /\ UNCHANGED <<tornTail, bundleFailures>>
       \/ /\ bundleFailures < MaxBundleFailures /\ bundleFailures' = bundleFailures + 1
          /\ tornTail' = TRUE
          /\ bundleWriter' = NoBundleWriter
          /\ UNCHANGED frames
    /\ UNCHANGED <<trailer, durableFrames, recorded>>

frame(type, c) ==
    [type |-> type, component |-> c, digest |-> digests + 1,
     previous |-> bundleWriter.previous,
     ordinal |-> IF c = 0 THEN 0 ELSE bundleWriter.ordinal[c],
     offset |-> IF c = 0 THEN 0 ELSE bundleWriter.offset[c],
     completed |-> Cardinality({d \in 1..Len(BundleComponents) :
                                   bundleWriter.offset[d] = extents(d)}),
     index |-> bundleWriter.ordinal]

advanced(c, step) ==
    [bundleWriter EXCEPT !.at = step, !.previous = digests + 1, !.ordinal[c] = @ + 1]

AppendPayload ==
    /\ writerAt("payload") /\ ~written
    /\ LET after == [advanced(current, "checkpoint") EXCEPT !.offset[current] = @ + 1,
                                                            !.last = current]
       IN appendPrepared(frame("payload", current), after)

(* Each component part is closed by a checkpoint of the same component. *)
AppendCheckpoint ==
    /\ writerAt("checkpoint")
    /\ LET c == bundleWriter.last
       IN appendPrepared(frame("checkpoint", c), advanced(c, "sync"))

SyncBundle ==
    /\ writerAt("sync")
    /\ durableFrames' = Len(frames)
    /\ bundleWriter' = [bundleWriter EXCEPT !.at = "record"]
    /\ UNCHANGED <<frames, tornTail, trailer, recorded, digests, bundleFailures>>

(* The export's ledger keeps the checkpoint's digest. *)
RecordCheckpoint ==
    /\ writerAt("record")
    /\ recorded' = bundleWriter.previous
    /\ bundleWriter' = [bundleWriter EXCEPT !.at = "payload"]
    /\ UNCHANGED <<frames, tornTail, trailer, durableFrames, digests, bundleFailures>>

(* Seal: the manifest, the completion, the trailer. *)
SealManifest ==
    /\ writerAt("payload") /\ written
    /\ appendPrepared(frame("manifest", 0),
                      [bundleWriter EXCEPT !.at = "completion", !.previous = digests + 1])

SealCompletion ==
    /\ writerAt("completion")
    /\ appendPrepared(frame("completion", 0),
                      [bundleWriter EXCEPT !.at = "trailer", !.previous = digests + 1])

SealTrailer ==
    /\ writerAt("trailer")
    /\ trailer' = bundleWriter.previous
    /\ durableFrames' = Len(frames)
    /\ bundleWriter' = NoBundleWriter
    /\ UNCHANGED <<frames, tornTail, recorded, digests, bundleFailures>>

(* The process or the machine stops: what was not synced may be lost, and the *)
(* cut may fall inside a frame.                                               *)
LoseWriter ==
    /\ ~writerAt("closed")
    /\ bundleFailures < MaxBundleFailures /\ bundleFailures' = bundleFailures + 1
    /\ bundleWriter' = NoBundleWriter
    /\ \E n \in durableFrames..Len(frames) : frames' = SubSeq(frames, 1, n)
    /\ tornTail' \in BOOLEAN
    /\ UNCHANGED <<trailer, durableFrames, recorded, digests>>

-----------------------------------------------------------------------------
(* ResumeWriter: refuse a sealed file and one that lost the ledger's          *)
(* checkpoint, cut back to the newest checkpoint, and continue from there.    *)

resumable ==
    recorded = 0 \/ \E n \in checkpoints(frames) : frames[n].digest = recorded

(* The memory that a scan of the first n frames leaves. *)
resumedWriter(n) ==
    [NoBundleWriter EXCEPT
        !.at = "payload",
        !.previous = IF n = 0 THEN 0 ELSE frames[n].digest,
        !.ordinal = [c \in 1..Len(BundleComponents) |->
                        Cardinality({j \in 1..n : frames[j].component = c})],
        !.offset = [c \in 1..Len(BundleComponents) |->
                        Cardinality(payloadsOf(frames, n, c))]]

(* A plausible slip: the file is cut back, the scan's state is not. *)
ResumeFromScan ==
    /\ writerAt("closed") /\ trailer = 0 /\ resumable
    /\ frames' = SubSeq(frames, 1, newest(checkpoints(frames)))
    /\ tornTail' = FALSE
    /\ durableFrames' = newest(checkpoints(frames))
    /\ bundleWriter' = resumedWriter(newest(scanned(frames)))
    /\ UNCHANGED <<trailer, recorded, digests, bundleFailures>>

ResumeWriter ==
    /\ writerAt("closed") /\ trailer = 0 /\ resumable
    /\ LET n == newest(checkpoints(frames))
       IN /\ frames' = SubSeq(frames, 1, n)
          /\ durableFrames' = n
          /\ bundleWriter' = resumedWriter(n)
    /\ tornTail' = FALSE
    /\ UNCHANGED <<trailer, recorded, digests, bundleFailures>>

BundleNext ==
    \/ AppendPayload \/ AppendCheckpoint \/ SyncBundle \/ RecordCheckpoint
    \/ SealManifest \/ SealCompletion \/ SealTrailer
    \/ LoseWriter \/ ResumeWriter

BundleSpec == BundleInit /\ [][BundleNext]_bundleVars

-----------------------------------------------------------------------------

(* A bundle that was sealed, after any number of torn writes and resumes, is *)
(* one the reader accepts, with every extent of every component once and in  *)
(* order; and until it is sealed a resume finds the checkpoint the ledger    *)
(* recorded, so "authenticated checkpoints survive".                         *)
BundleIsWholeOrResumable ==
    IF trailer # 0
    THEN /\ InspectSealedBundle(frames, trailer)
         /\ \A c \in 1..Len(BundleComponents) :
                Cardinality(payloadsOf(frames, Len(frames), c)) = extents(c)
    ELSE resumable
=============================================================================

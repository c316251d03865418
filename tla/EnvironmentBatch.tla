-------------------------- MODULE EnvironmentBatch --------------------------
(* The publication of an imported batch: environment records and the profiles *)
(* they use appear together, at the rename of one activation marker           *)
(* (environment/batch.go, environment/environment.go and profile/batch.go).   *)
(* The publisher holds the environment catalog exclusively, and may crash or  *)
(* fail after any file operation; between its attempts, other processes list, *)
(* create, save and remove records and edit profiles.                         *)
EXTENDS Naturals, FiniteSets

CONSTANTS
    BatchRecords,       \* the environment records of the batch
    BatchProfiles,      \* the profiles of the participant, each with a staged state
    MaxBatchFailures,   \* publications that crash or fail
    ProfileEdits        \* profiles are edited while the batch is being published

\* An empty batch is refused (validateBatch and PublishBatch).
ASSUME BatchAssumption == BatchRecords # {}

VARIABLES
    entryOf,       \* record -> its directory: absent, pending, final, or changed by a save
    profileOf,     \* profile -> its directory: absent, pending, final or edited
    staged,        \* the profiles whose imported state is still in its stage
    activation,    \* the activation marker
    namesake,      \* another environment took the name of a record of the batch
    publisher,     \* what the publisher does next, "idle" when it does not run
    publicationRecorded, \* the import journal holds the publication: it is not retried
    reading,       \* the profile whose pending marker a reader has seen
    lastRead,      \* what the last read of a profile returned
    committed,     \* the activation marker was renamed in at some time
    dropped,       \* the records removed by a user since the last activation
    batchFailures

batchVars == <<entryOf, profileOf, staged, activation, namesake, publisher, publicationRecorded,
               reading, lastRead, committed, dropped, batchFailures>>

NoProfile == "no-profile"

BatchInit ==
    /\ entryOf = [r \in BatchRecords |-> "absent"]
    /\ profileOf = [p \in BatchProfiles |-> "absent"]
    /\ staged = BatchProfiles
    /\ activation = FALSE /\ namesake = FALSE
    /\ publisher = "idle" /\ publicationRecorded = FALSE
    /\ reading = NoProfile /\ lastRead = "none"
    /\ committed = FALSE /\ dropped = {}
    /\ batchFailures = 0

catalogFree == publisher = "idle"
UnchangedUsers == UNCHANGED <<namesake, publicationRecorded, reading, lastRead, dropped>>

-----------------------------------------------------------------------------
(* What a reader of the two stores makes of the files. *)

(* The closure of an activation: every record still has its exact bytes. *)
validateActiveBatchClosure ==
    activation => \A r \in BatchRecords : entryOf[r] \in {"pending", "final"}

(* A reader that takes a pending record for a published one. *)
PendingIsVisible(r) ==
    entryOf[r] # "absent"

batchRecordVisible(r) ==
    \/ entryOf[r] \in {"final", "changed"}
    \/ entryOf[r] = "pending" /\ activation

(* The records of the batch in a listing; none when the closure fails, since *)
(* the whole listing is then refused.                                        *)
listed == {r \in BatchRecords : validateActiveBatchClosure /\ batchRecordVisible(r)}

BatchPublicationVisible == activation /\ validateActiveBatchClosure

readableProfiles ==
    {p \in BatchProfiles : \/ profileOf[p] \in {"final", "edited"}
                           \/ profileOf[p] = "pending" /\ BatchPublicationVisible}

-----------------------------------------------------------------------------
(* The publisher. *)

(* An existing record must carry the batch's marker, with its exact bytes    *)
(* while pending and its immutable fields afterwards; names must be free.    *)
preflightBatch == ~namesake

(* An existing profile must be byte for byte the prepared one, and a missing *)
(* one must still have its stage.                                            *)
preflightProfiles ==
    \A p \in BatchProfiles :
        IF profileOf[p] = "absent" THEN p \in staged ELSE profileOf[p] # "edited"

BeginPublish ==
    /\ catalogFree /\ ~publicationRecorded
    /\ preflightBatch /\ preflightProfiles
    /\ publisher' = "profiles"
    /\ UNCHANGED <<entryOf, profileOf, staged, activation, committed, batchFailures>>
    /\ UnchangedUsers

prepareBatchProfile ==
    /\ publisher = "profiles"
    /\ \/ \E p \in BatchProfiles :
            /\ profileOf[p] = "absent" /\ p \in staged
            /\ profileOf' = [profileOf EXCEPT ![p] = "pending"]
            /\ staged' = staged \ {p} /\ UNCHANGED publisher
       \/ /\ \A p \in BatchProfiles : profileOf[p] # "absent"
          /\ publisher' = "records" /\ UNCHANGED <<profileOf, staged>>
    /\ UNCHANGED <<entryOf, activation, committed, batchFailures>>
    /\ UnchangedUsers

prepareBatchRecord ==
    /\ publisher = "records"
    /\ \/ \E r \in BatchRecords :
            /\ entryOf[r] = "absent"
            /\ entryOf' = [entryOf EXCEPT ![r] = "pending"] /\ UNCHANGED publisher
       \/ /\ \A r \in BatchRecords : entryOf[r] # "absent"
          /\ publisher' = IF \A r \in BatchRecords : entryOf[r] # "pending"
                          THEN "again" ELSE "activate"
          /\ UNCHANGED entryOf
    /\ UNCHANGED <<profileOf, staged, activation, committed, batchFailures>>
    /\ UnchangedUsers

(* The commit point. *)
publishActivation ==
    /\ publisher = "activate"
    /\ activation' = TRUE /\ committed' = TRUE /\ dropped' = {}
    /\ publisher' = "finalize"
    /\ UNCHANGED <<entryOf, profileOf, staged, batchFailures>>
    /\ UNCHANGED <<namesake, publicationRecorded, reading, lastRead>>

(* Finalize removes the profiles' pending markers, one by one, in a first    *)
(* publication ("finalize") and in one that finds every record final.        *)
FinalizeProfiles ==
    /\ publisher \in {"finalize", "again"}
    /\ \/ \E p \in BatchProfiles :
            /\ profileOf[p] = "pending"
            /\ profileOf' = [profileOf EXCEPT ![p] = "final"] /\ UNCHANGED publisher
       \/ /\ \A p \in BatchProfiles : profileOf[p] # "pending"
          /\ publisher' = IF publisher = "again" THEN "retire" ELSE "markers"
          /\ UNCHANGED profileOf
    /\ UNCHANGED <<entryOf, staged, activation, committed, batchFailures>>
    /\ UnchangedUsers

FinalizeRecords ==
    /\ publisher = "markers"
    /\ \/ \E r \in BatchRecords :
            /\ entryOf[r] = "pending"
            /\ entryOf' = [entryOf EXCEPT ![r] = "final"] /\ UNCHANGED publisher
       \/ /\ \A r \in BatchRecords : entryOf[r] # "pending"
          /\ publisher' = "retire" /\ UNCHANGED entryOf
    /\ UNCHANGED <<profileOf, staged, activation, committed, batchFailures>>
    /\ UnchangedUsers

removeActivationIfExact ==
    /\ publisher = "retire"
    /\ activation' = FALSE
    /\ publisher' = "done"
    /\ UNCHANGED <<entryOf, profileOf, staged, committed, batchFailures>>
    /\ UnchangedUsers

(* The caller notes the publication in its journal, or dies before. *)
RecordPublication ==
    /\ publisher = "done"
    /\ publisher' = "idle" /\ publicationRecorded' = TRUE
    /\ UNCHANGED <<entryOf, profileOf, staged, activation, committed, batchFailures>>
    /\ UNCHANGED <<namesake, reading, lastRead, dropped>>

(* A crash leaves the files as they are; an error during Prepare also removes *)
(* the stage of the profile at hand.                                          *)
PublishStops ==
    /\ publisher # "idle" /\ batchFailures < MaxBatchFailures
    /\ batchFailures' = batchFailures + 1
    /\ publisher' = "idle"
    /\ \/ UNCHANGED staged
       \/ publisher = "profiles" /\ \E p \in staged : staged' = staged \ {p}
    /\ UNCHANGED <<entryOf, profileOf, activation, committed>>
    /\ UnchangedUsers

-----------------------------------------------------------------------------
(* Other processes, between two publications. *)

UnchangedPublisher == UNCHANGED <<staged, activation, publisher, publicationRecorded, committed,
                                  batchFailures>>

(* A pending record, or a final one whose batch is still active, is not to be *)
(* changed.                                                                   *)
pendingBatchMutationCheck(r) ==
    entryOf[r] # "pending" /\ ~(entryOf[r] # "absent" /\ activation)

SaveRecord(r) ==
    /\ catalogFree /\ r \in listed /\ pendingBatchMutationCheck(r)
    /\ entryOf' = [entryOf EXCEPT ![r] = "changed"]
    /\ UNCHANGED <<profileOf, namesake, reading, lastRead, dropped>>
    /\ UnchangedPublisher

RemoveBatchRecord(r) ==
    /\ catalogFree /\ r \in listed /\ pendingBatchMutationCheck(r)
    /\ entryOf' = [entryOf EXCEPT ![r] = "absent"]
    /\ dropped' = dropped \cup {r}
    /\ UNCHANGED <<profileOf, namesake, reading, lastRead>>
    /\ UnchangedPublisher

(* Create looks for its name among the visible records only. *)
CreateRecord ==
    /\ catalogFree /\ validateActiveBatchClosure /\ ~namesake
    /\ \E r \in BatchRecords : ~batchRecordVisible(r)
    /\ namesake' = TRUE
    /\ UNCHANGED <<entryOf, profileOf, reading, lastRead, dropped>>
    /\ UnchangedPublisher

(* A profile is saved unless its pending marker is there: the activation is  *)
(* not consulted.                                                            *)
SaveProfile(p) ==
    /\ ProfileEdits
    /\ publisher \notin {"profiles", "finalize", "again"}
    /\ profileOf[p] = "final"
    /\ profileOf' = [profileOf EXCEPT ![p] = "edited"]
    /\ UNCHANGED <<entryOf, namesake, reading, lastRead, dropped>>
    /\ UnchangedPublisher

(* readProfileData: the file and its marker under the profile catalog lock,  *)
(* and, for a pending one, the activation under the environment's.           *)
ReadProfile(p) ==
    /\ reading = NoProfile
    /\ publisher \notin {"profiles", "finalize", "again"}
    /\ \/ profileOf[p] = "pending" /\ reading' = p /\ UNCHANGED lastRead
       \/ profileOf[p] \in {"final", "edited"} /\ lastRead' = "data" /\ UNCHANGED reading
       \/ profileOf[p] = "absent" /\ lastRead' = "missing" /\ UNCHANGED reading
    /\ UNCHANGED <<entryOf, profileOf, namesake, dropped>>
    /\ UnchangedPublisher

ReadActivation ==
    /\ reading # NoProfile /\ catalogFree
    /\ lastRead' = IF BatchPublicationVisible THEN "data" ELSE "missing"
    /\ reading' = NoProfile
    /\ UNCHANGED <<entryOf, profileOf, namesake, dropped>>
    /\ UnchangedPublisher

BatchNext ==
    \/ BeginPublish \/ prepareBatchProfile \/ prepareBatchRecord \/ publishActivation
    \/ FinalizeProfiles \/ FinalizeRecords \/ removeActivationIfExact
    \/ RecordPublication \/ PublishStops
    \/ \E r \in BatchRecords : SaveRecord(r) \/ RemoveBatchRecord(r)
    \/ CreateRecord
    \/ \E p \in BatchProfiles : SaveProfile(p) \/ ReadProfile(p)
    \/ ReadActivation

BatchSpec == BatchInit /\ [][BatchNext]_batchVars
-----------------------------------------------------------------------------
(* Whatever the publisher was doing when it stopped, a listing shows none of *)
(* the batch or all of it but what a user removed, the profiles appear with  *)
(* the records, and no read returned a profile before the commit point.      *)
OneVisibilityPoint ==
    /\ catalogFree =>
        \/ listed = {}
        \/ listed = BatchRecords \ dropped
    /\ (catalogFree /\ listed # {}) => readableProfiles = BatchProfiles
    /\ (readableProfiles # {} \/ listed # {} \/ lastRead = "data") => committed

(* Cleaning up the markers converges: as long as the activation marker is    *)
(* there, publishing again passes its preflight and can finish.              *)
ActivationCanFinish ==
    (catalogFree /\ activation) => preflightBatch /\ preflightProfiles
=============================================================================

--------------------------- MODULE FoundationProofs ---------------------------
(***************************************************************************)
(* What the daemon and the coordinator stand on, for any clients, keys,    *)
(* journals, records and faults: the mutation keys (MutationKeys implements *)
(* MutationLocks), the journal's file protocol (JournalStore implements    *)
(* AtomicJournal), the publication of a batch, the change of a resolver,   *)
(* the removal of an environment, and the owner of the runtime directory.  *)
(***************************************************************************)
EXTENDS MutationKeys, JournalStore, EnvironmentBatch, DnsTransition, EnvironmentRemoval,
        DaemonProcess, FiniteSetTheorems, TLAPS

(* The default prover; SMT where a leaf needs arithmetic or cases.  The    *)
(* limits are wall-clock seconds, wide enough for a busy machine.          *)
USE ZenonT(60)

(***************************************************************************)
(* Mutation keys.                                                          *)
(***************************************************************************)

\* Claims of one request are numbered apart, above every earlier claim
\* (claimMutationKeysLocked).
LEMMA ClaimNumbers ==
  ASSUME NEW ks \in SUBSET Keys, NEW k \in Kinds, mutationSequence \in Nat
  PROVE  /\ claimed(ks, k) \subseteq Claim
         /\ \A m \in claimed(ks, k) :
              m.id > mutationSequence /\ m.id <= mutationSequence + Cardinality(ks)
         /\ \A m, n \in claimed(ks, k) : m.id = n.id => m = n
         /\ Cardinality(ks) \in Nat
<1> DEFINE upto(x) == {j \in ks : j <= x}
<1>1. IsFiniteSet(ks) /\ Cardinality(ks) \in Nat
  BY MutationKeysAssumption, FS_Subset, FS_CardinalityType
<1>2. \A x \in ks : /\ IsFiniteSet(upto(x))
                    /\ Cardinality(upto(x)) \in Nat
                    /\ Cardinality(upto(x)) <= Cardinality(ks)
                    /\ Cardinality(upto(x)) > 0
  <2> TAKE x \in ks
  <2>1. upto(x) \subseteq ks
    OBVIOUS
  <2>2. IsFiniteSet(upto(x)) /\ Cardinality(upto(x)) <= Cardinality(ks)
    BY <1>1, <2>1, FS_Subset
  <2>3. Cardinality(upto(x)) \in Nat
    BY <2>2, FS_CardinalityType
  <2>4. x \in upto(x)
    BY SMTT(60), MutationKeysAssumption
  <2>5. Cardinality(upto(x)) # 0
    BY <2>2, <2>4, FS_EmptySet
  <2> QED BY SMTT(60), <2>2, <2>3, <2>5
<1>3. \A x, y \in ks : x < y => Cardinality(upto(x)) # Cardinality(upto(y))
  <2> TAKE x, y \in ks
  <2> HAVE x < y
  <2>1. upto(x) \subseteq upto(y)
    <3>1. \A j \in ks : j \in Nat /\ x \in Nat /\ y \in Nat
      BY MutationKeysAssumption
    <3>2. \A j \in ks : j <= x => j <= y
      BY SMTT(60), <3>1
    <3> QED BY <3>2
  <2>2. y \in upto(y) /\ y \notin upto(x)
    BY SMTT(60), MutationKeysAssumption
  <2> QED BY <1>2, <2>1, <2>2, FS_Subset
<1>4. \A x, y \in ks : Cardinality(upto(x)) = Cardinality(upto(y)) => x = y
  BY SMTT(60), <1>3, MutationKeysAssumption
<1>5. claimed(ks, k) =
        {[id |-> mutationSequence + Cardinality(upto(x)), key |-> x, owner |-> k] : x \in ks}
  BY DEF claimed
<1> HIDE DEF upto
<1>6. claimed(ks, k) \subseteq Claim
  BY SMTT(60), <1>2, <1>5 DEF Claim
<1>7. \A m \in claimed(ks, k) :
        m.id > mutationSequence /\ m.id <= mutationSequence + Cardinality(ks)
  BY SMTT(60), <1>1, <1>2, <1>5
<1>8. \A m, n \in claimed(ks, k) : m.id = n.id => m = n
  <2> TAKE m, n \in claimed(ks, k)
  <2> HAVE m.id = n.id
  <2>1. PICK x \in ks :
          m = [id |-> mutationSequence + Cardinality(upto(x)), key |-> x, owner |-> k]
    BY <1>5
  <2>2. PICK y \in ks :
          n = [id |-> mutationSequence + Cardinality(upto(y)), key |-> y, owner |-> k]
    BY <1>5
  <2>3. Cardinality(upto(x)) = Cardinality(upto(y))
    BY SMTT(60), <1>2, <2>1, <2>2
  <2> QED BY <1>4, <2>1, <2>2, <2>3
<1> QED BY <1>1, <1>6, <1>7, <1>8

\* The claims of a request are those of its keys, for the kind it names.
LEMMA ClaimKeys ==
  ASSUME NEW ks, NEW k
  PROVE  /\ {m.key : m \in claimed(ks, k)} = ks
         /\ \A m \in claimed(ks, k) : m.owner = k
         /\ claimed(ks, k) = {} => ks = {}
<1> DEFINE rec(x) == [id |-> mutationSequence + Cardinality({j \in ks : j <= x}),
                      key |-> x, owner |-> k]
<1>1. claimed(ks, k) = {rec(x) : x \in ks}
  BY DEF claimed
<1>2. \A x : rec(x).key = x /\ rec(x).owner = k
  OBVIOUS
<1> HIDE DEF rec
<1> QED BY SMTT(60), <1>1, <1>2

\* IInv holds initially and is kept by every step.
LEMMA IInvInit == Init => IInv
<1> SUFFICES ASSUME Init PROVE IInv
  OBVIOUS
<1>1. ClaimsAreLeased
  BY DEF Init, ClaimsAreLeased
<1> QED BY <1>1, MutationKeysAssumption DEF Init, IInv, TypeOK, IdsAreUnique,
        LeasesMatch

LEMMA IInvNext == IInv /\ [Next]_vars => IInv'
<1> SUFFICES ASSUME IInv, [Next]_vars PROVE IInv'
  OBVIOUS
<1> USE DEF IInv
<1>1. ASSUME NEW c \in Clients, AcquireMutation(c) PROVE IInv'
  <2>1. PICK ks \in (SUBSET Keys) \ {{}}, k \in Kinds :
          /\ blockers(ks, k) = {}
          /\ mutationClaims' = mutationClaims \cup claimed(ks, k)
          /\ leases' = [leases EXCEPT ![c] = claimed(ks, k)]
          /\ kind' = [kind EXCEPT ![c] = k]
          /\ mutationSequence' = mutationSequence + Cardinality(ks)
    BY <1>1 DEF AcquireMutation
  <2>2. leases[c] = {} /\ closing' = closing
    BY <1>1 DEF AcquireMutation
  <2> DEFINE new == claimed(ks, k)
  <2>3. /\ new \subseteq Claim /\ Cardinality(ks) \in Nat
        /\ \A m \in new : m.id > mutationSequence /\ m.id <= mutationSequence + Cardinality(ks)
        /\ \A m, n \in new : m.id = n.id => m = n
    BY ClaimNumbers DEF TypeOK
  <2>4. new # {} /\ \A m \in new : m.owner = k
    BY ClaimKeys
  <2> HIDE DEF new
  <2>5. TypeOK'
    BY SMTT(60), <2>1, <2>2, <2>3 DEF TypeOK, new
  <2>6. ClaimsAreLeased'
    BY <2>1, <2>2 DEF ClaimsAreLeased, TypeOK, new
  <2>7. IdsAreUnique'
    BY SMTT(60), <2>1, <2>3 DEF IdsAreUnique, TypeOK, new, Claim
  <2>8. LeasesMatch'
    <3>1. \A d \in Clients : new \cap leases[d] = {}
      <4> SUFFICES ASSUME NEW d \in Clients, NEW m \in new, m \in leases[d] PROVE FALSE
        OBVIOUS
      <4>1. m \in mutationClaims
        BY DEF ClaimsAreLeased
      <4>2. m.id <= mutationSequence /\ m.id \in Nat /\ mutationSequence \in Nat
        BY <4>1 DEF IdsAreUnique, TypeOK, Claim
      <4> QED BY SMTT(60), <2>3, <4>2
    <3>2. k # "none"
      BY MutationKeysAssumption
    <3> QED BY <2>1, <2>4, <3>1, <3>2 DEF LeasesMatch, TypeOK, new
  <2> QED BY <2>5, <2>6, <2>7, <2>8
<1>2. ASSUME NEW c \in Clients, Release(c) PROVE IInv'
  <2>1. unclaimed(c) = mutationClaims \ leases[c]
    <3>1. leases[c] \subseteq mutationClaims
      BY DEF ClaimsAreLeased
    <3> QED BY <3>1 DEF unclaimed, IdsAreUnique
  <2>2. TypeOK'
    BY <1>2, <2>1 DEF Release, TypeOK
  <2>3. ClaimsAreLeased'
    <3>1. \A d \in Clients : d # c => leases[d] \cap leases[c] = {} /\ leases'[d] = leases[d]
      BY <1>2 DEF LeasesMatch, Release, TypeOK
    <3>2. leases'[c] = {}
      BY <1>2 DEF Release, TypeOK
    <3>3. mutationClaims' = mutationClaims \ leases[c]
      BY <1>2, <2>1 DEF Release
    <3> QED BY <3>1, <3>2, <3>3 DEF ClaimsAreLeased
  <2>4. IdsAreUnique'
    BY <1>2, <2>1 DEF Release, IdsAreUnique
  <2>5. LeasesMatch'
    BY <1>2 DEF Release, LeasesMatch, TypeOK
  <2> QED BY <2>2, <2>3, <2>4, <2>5
<1>3. CASE Close
  BY SMTT(60), <1>3 DEF Close, TypeOK, ClaimsAreLeased, IdsAreUnique, LeasesMatch
<1>4. CASE UNCHANGED vars
  BY SMTT(60), <1>4 DEF vars, TypeOK, ClaimsAreLeased, IdsAreUnique, LeasesMatch
<1> QED BY <1>1, <1>2, <1>3, <1>4 DEF Next

\* The table of claims is consistent, whatever the clients do: every claim
\* is held by exactly one lease (claimMutationKeysLocked, releaseLocked).
THEOREM TableIsConsistent == Spec => []IInv
<1>1. Init => IInv
  BY IInvInit
<1>2. IInv /\ [Next]_vars => IInv'
  BY IInvNext
<1> QED BY <1>1, <1>2, PTL DEF Spec

\* AcquireMutation and Release are one step each of the lock table, for any
\* number of clients and keys.
THEOREM ImplementsLocks == Spec => LocksSpec
<1> DEFINE held == [c \in Clients |-> {l.key : l \in leases[c]}]
<1>1. Init => Locks!Init
  BY DEF Init, Locks!Init
<1>2. IInv /\ [Next]_vars => [Locks!Next]_(Locks!vars)
  <2> SUFFICES ASSUME IInv, [Next]_vars PROVE [Locks!Next]_(Locks!vars)
    OBVIOUS
  <2> USE DEF IInv
  <2>1. ASSUME NEW c \in Clients, AcquireMutation(c) PROVE Locks!Acquire(c)
    <3>1. PICK ks \in (SUBSET Keys) \ {{}}, k \in Kinds :
            /\ blockers(ks, k) = {}
            /\ leases' = [leases EXCEPT ![c] = claimed(ks, k)]
            /\ kind' = [kind EXCEPT ![c] = k]
      BY <2>1 DEF AcquireMutation
    <3>2. held[c] = {}
      BY <2>1 DEF AcquireMutation
    <3>3. ASSUME NEW d \in Clients, held[d] \cap ks # {}
          PROVE  k = "attach" /\ kind[d] = "attach"
      <4>1. PICK l \in leases[d] : l.key \in ks
        BY <3>3
      <4>2. l \in mutationClaims /\ l.owner = kind[d]
        BY DEF ClaimsAreLeased, LeasesMatch
      <4> QED BY <3>1, <4>1, <4>2 DEF blockers, compatibleMutationOwners
    <3>4. held' = [held EXCEPT ![c] = ks]
      <4>1. {l.key : l \in claimed(ks, k)} = ks
        BY ClaimKeys
      <4>2. \A d \in Clients : leases'[d] = IF d = c THEN claimed(ks, k) ELSE leases[d]
        BY <3>1 DEF TypeOK
      <4> QED BY <4>1, <4>2
    <3> QED BY <3>1, <3>2, <3>3, <3>4 DEF Locks!Acquire
  <2>2. ASSUME NEW c \in Clients, Release(c) PROVE Locks!Release(c)
    <3>1. held[c] # {}
      BY <2>2 DEF Release
    <3>2. held' = [held EXCEPT ![c] = {}]
      BY <2>2 DEF Release, TypeOK
    <3> QED BY <2>2, <3>1, <3>2 DEF Release, Locks!Release
  <2>3. CASE Close \/ UNCHANGED vars
    BY <2>3 DEF Close, vars, Locks!vars
  <2> QED BY <2>1, <2>2, <2>3 DEF Next, Locks!Next
<1>3. Spec => []IInv
  BY TableIsConsistent
<1> QED BY <1>1, <1>2, <1>3, PTL DEF Spec, LocksSpec, Locks!Spec

\* Two clients that hold one key are both attaching.
THEOREM KeysAreExclusive == Spec => []Exclusive
<1>1. Init => Exclusive
  BY DEF Init, Exclusive, Locks!Exclusive
<1>2. IInv /\ IInv' /\ Exclusive /\ [Next]_vars => Exclusive'
  <2> SUFFICES ASSUME IInv, IInv', Exclusive, [Next]_vars PROVE Exclusive'
    OBVIOUS
  <2>1. ASSUME NEW c \in Clients, AcquireMutation(c) PROVE Exclusive'
    <3>1. PICK ks \in (SUBSET Keys) \ {{}}, k \in Kinds :
            /\ blockers(ks, k) = {}
            /\ leases' = [leases EXCEPT ![c] = claimed(ks, k)]
            /\ kind' = [kind EXCEPT ![c] = k]
      BY <2>1 DEF AcquireMutation
    <3>2. {l.key : l \in claimed(ks, k)} = ks
      BY ClaimKeys
    <3>3. \A d \in Clients : {l.key : l \in leases[d]} \cap ks # {} =>
            k = "attach" /\ kind[d] = "attach"
      BY SMTT(60), <3>1 DEF IInv, ClaimsAreLeased, LeasesMatch, blockers,
         compatibleMutationOwners
    <3>4. \A d \in Clients : {l.key : l \in leases'[d]} =
            IF d = c THEN ks ELSE {l.key : l \in leases[d]}
      BY <3>1, <3>2 DEF IInv, TypeOK
    <3> QED BY <3>1, <3>3, <3>4 DEF IInv, TypeOK, Exclusive, Locks!Exclusive
  <2>2. ASSUME NEW c \in Clients, Release(c) PROVE Exclusive'
    BY SMTT(60), <2>2 DEF Release, IInv, TypeOK, Exclusive, Locks!Exclusive
  <2>3. CASE Close \/ UNCHANGED vars
    BY <2>3 DEF Close, vars, Exclusive, Locks!Exclusive
  <2> QED BY <2>1, <2>2, <2>3 DEF Next
<1>3. Spec => []IInv
  BY TableIsConsistent
<1> QED BY <1>1, <1>2, <1>3, PTL DEF Spec

(***************************************************************************)
(* The journal file.                                                       *)
(***************************************************************************)

\* What a synced file that is not torn may hold is what it holds.
LEMMA SyncedImage ==
  ASSUME NEW S, \A f \in S : f.synced /\ f.val # Torn
  PROVE  /\ UNION {image(f) : f \in S} = {f.val : f \in S}
         /\ \A f \in S : image(f) = {f.val}
BY DEF image

LEMMA NoneIsFile == none \in File /\ none.synced /\ none.val = Absent /\ none.val # Torn
BY JournalStoreAssumption DEF none, File

LEMMA JournalInvInit == JournalInit => JournalInv
<1> SUFFICES ASSUME JournalInit PROVE JournalInv
  OBVIOUS
<1>1. JournalTypeOK
  BY NoneIsFile DEF JournalInit, JournalTypeOK
<1>2. NeverTorn /\ target \in stable
  BY NoneIsFile DEF JournalInit, NeverTorn
<1>3. pc = "idle"
  BY DEF JournalInit
<1> QED BY <1>1, <1>2, <1>3 DEF JournalInv, Writing, Removing

LEMMA JournalInvNext == JournalInv /\ [JournalNext]_journalVars => JournalInv'
<1> SUFFICES ASSUME JournalInv, [JournalNext]_journalVars PROVE JournalInv'
  OBVIOUS
<1> USE JournalStoreAssumption, NoneIsFile DEF JournalInv, JournalTypeOK, NeverTorn, Writing, Removing
<1>1. CASE Write
  BY <1>1 DEF Write, goto
<1>2. CASE ensureJournalDir
  BY <1>2 DEF ensureJournalDir, goto
<1>3. CASE CreateTemp
  BY <1>3 DEF CreateTemp, goto, File
<1>4. CASE WriteTemp
  BY <1>4 DEF WriteTemp, goto, File
<1>5. CASE SyncTemp
  BY <1>5 DEF SyncTemp, goto, File
<1>6. CASE Rename
  BY SMTT(60), <1>6 DEF Rename, goto, File
<1>7. CASE syncDir
  BY <1>7 DEF syncDir, return
<1>8. CASE FailWrite
  BY SMTT(60), <1>8 DEF FailWrite, return
<1>9. CASE RemoveNothing \/ RemoveJournal
  BY <1>9 DEF RemoveNothing, RemoveJournal, goto
<1>10. CASE removeStaleJournalTemps
  BY SMTT(60), <1>10 DEF removeStaleJournalTemps, goto, return
<1>11. CASE RemoveFile
  BY <1>11 DEF RemoveFile, goto
<1>12. CASE RemoveDir
  BY <1>12 DEF RemoveDir, goto
<1>13. CASE SyncParent
  BY <1>13 DEF SyncParent, return
<1>14. CASE FailRemove
  BY <1>14 DEF FailRemove, return
<1>15. CASE Crash
  <2>1. PICK f \in stable, v \in Journals \cup {Absent, Torn} :
          /\ v \in image(f)
          /\ target' = [val |-> v, synced |-> TRUE] /\ stable' = {target'}
          /\ dir' \in BOOLEAN
    BY <1>15 DEF Crash
  <2>2. v # Torn
    BY <2>1 DEF image
  <2>3. target' \in File /\ target'.synced /\ target'.val = v
    BY <2>1 DEF File
  <2>4. /\ temp' = none /\ pc' = "idle" /\ journal' = journal /\ removed' = removed
        /\ outcome' \in {"none", "ok", "error"} /\ stale' \in Nat
    BY SMTT(60), <1>15 DEF Crash
  <2> QED BY <2>1, <2>2, <2>3, <2>4
<1>16. CASE UNCHANGED journalVars
  BY <1>16 DEF journalVars
<1> QED BY <1>1, <1>2, <1>3, <1>4, <1>5, <1>6, <1>7, <1>8, <1>9, <1>10, <1>11, <1>12,
            <1>13, <1>14, <1>15, <1>16 DEF JournalNext

\* The protocol's steps find what the earlier ones have done.
THEOREM ProtocolIsKept == JournalSpec => []JournalInv
BY JournalInvInit, JournalInvNext, PTL DEF JournalSpec

\* No crash and no failing call leaves a torn journal behind.
THEOREM NoTornJournal == JournalSpec => []NeverTorn
<1>1. JournalInv => NeverTorn
  BY DEF JournalInv
<1> QED BY <1>1, ProtocolIsKept, PTL

\* Write and Remove replace the journal atomically and durably, through any
\* number of failures and crashes.
THEOREM ImplementsAtomicJournal == JournalSpec => AtomicSpec
<1> DEFINE may == UNION {image(f) : f \in stable}
<1>1. JournalInit => Atomic!Init
  BY SMTT(60), JournalStoreAssumption DEF JournalInit, Atomic!Init, none, image
<1>2. JournalInv /\ JournalInv' /\ [JournalNext]_journalVars => [Atomic!Next]_(Atomic!vars)
  <2> SUFFICES ASSUME JournalInv, JournalInv', [JournalNext]_journalVars PROVE [Atomic!Next]_(Atomic!vars)
    OBVIOUS
  <2>1. may = {f.val : f \in stable} /\ may' = {f.val : f \in stable'}
    BY SyncedImage DEF JournalInv, NeverTorn, image
  <2>2. target.val \in may
    BY <2>1 DEF JournalInv
  <2> HIDE DEF may
  <2> USE DEF Atomic!Next, Atomic!vars
  <2>3. CASE Write
    BY <2>3 DEF Write, goto, Atomic!Begin, may
  <2>4. CASE ensureJournalDir \/ CreateTemp \/ WriteTemp \/ SyncTemp
    BY <2>4 DEF ensureJournalDir, CreateTemp, WriteTemp, SyncTemp, goto, may
  <2>5. CASE Rename
    <3>1. target'.val = journal /\ temp.val = journal
      BY <2>5 DEF Rename, goto, JournalInv
    <3>2. may' = may \cup {journal}
      BY <2>1, <2>5, <3>1 DEF Rename
    <3> QED BY <2>5, <3>1, <3>2 DEF Rename, goto, Atomic!Replace, may
  <2>6. CASE syncDir
    <3>1. may' = {journal} /\ target.val = journal
      BY <2>1, <2>6 DEF syncDir, JournalInv
    <3> QED BY <2>6, <3>1 DEF syncDir, return, Atomic!Succeed, may
  <2>7. CASE FailWrite \/ FailRemove
    BY <2>7 DEF FailWrite, FailRemove, return, Atomic!Fail, may
  <2>8. CASE RemoveNothing
    BY <2>8 DEF RemoveNothing, may
  <2>9. CASE RemoveJournal
    BY <2>9 DEF RemoveJournal, goto, Atomic!Begin, may
  <2>10. CASE removeStaleJournalTemps
    BY <2>10 DEF removeStaleJournalTemps, goto, return, Atomic!Fail, may
  <2>11. CASE RemoveFile
    <3>1. target'.val = Absent /\ journal = Absent
      BY <2>11, NoneIsFile DEF RemoveFile, goto, JournalInv, Removing
    <3>2. may' = may \cup {Absent}
      BY <2>1, <2>11, NoneIsFile DEF RemoveFile
    <3> QED BY <2>11, <3>1, <3>2 DEF RemoveFile, goto, Atomic!Replace, may
  <2>12. CASE RemoveDir
    BY <2>12 DEF RemoveDir, goto, may
  <2>13. CASE SyncParent
    <3>1. journal = Absent /\ target.val = Absent /\ may' = {Absent}
      BY <2>1, <2>13, NoneIsFile DEF SyncParent, JournalInv, Removing
    <3> QED BY <2>13, <3>1 DEF SyncParent, return, Atomic!Succeed, may
  <2>14. CASE Crash
    <3>1. PICK f \in stable, v \in Journals \cup {Absent, Torn} :
            /\ v \in image(f)
            /\ target' = [val |-> v, synced |-> TRUE] /\ stable' = {target'}
      BY <2>14 DEF Crash
    <3>2. v \in may
      BY <3>1 DEF may
    <3>3. target'.val = v /\ may' = {v}
      BY SMTT(60), <2>1, <3>1
    <3> QED BY <2>14, <3>2, <3>3 DEF Crash, Atomic!Crash, may
  <2>15. CASE UNCHANGED journalVars
    BY <2>15 DEF journalVars, may
  <2> QED BY <2>3, <2>4, <2>5, <2>6, <2>7, <2>8, <2>9, <2>10, <2>11, <2>12, <2>13,
          <2>14,
              <2>15 DEF JournalNext
<1>3. QED
  BY <1>1, <1>2, ProtocolIsKept, PTL DEF JournalSpec, AtomicSpec, Atomic!Spec

(***************************************************************************)
(* The publication of a batch.                                             *)
(***************************************************************************)

\* The steps of the publisher, each with those that come after it.
PastRecords == {"again", "activate", "finalize", "markers", "retire", "done"}
PastProfiles == {"records"} \cup PastRecords

\* The states of the files and of the publisher.
BatchTypes ==
  /\ entryOf \in [BatchRecords -> {"absent", "pending", "final", "changed"}]
  /\ profileOf \in [BatchProfiles -> {"absent", "pending", "final", "edited"}]
  /\ publisher \in {"idle", "profiles"} \cup PastProfiles
  /\ dropped \subseteq BatchRecords

\* What the publisher has behind it is in the files.
PublisherAt ==
  /\ publisher \in PastProfiles => \A p \in BatchProfiles : profileOf[p] # "absent"
  /\ publisher \in PastRecords => \A r \in BatchRecords : entryOf[r] # "absent"
  /\ publisher \in {"again", "retire"} => \A r \in BatchRecords : entryOf[r] # "pending"
  /\ publisher \in {"markers", "retire"} => \A p \in BatchProfiles : profileOf[p] # "pending"
  /\ publisher \in {"finalize", "markers"} => activation

\* Before the commit point nothing is more than pending; under the activation
\* nothing is missing; and once it is retired what is not final was dropped.
CommitAt ==
  /\ ~committed =>
       /\ ~activation /\ lastRead # "data"
       /\ \A r \in BatchRecords : entryOf[r] \in {"absent", "pending"}
       /\ \A p \in BatchProfiles : profileOf[p] \in {"absent", "pending"}
  /\ activation => dropped = {} /\ \A r \in BatchRecords : entryOf[r] # "absent"
  /\ committed => \A p \in BatchProfiles : profileOf[p] # "absent"
  /\ committed /\ ~activation =>
       /\ \A r \in BatchRecords : r \in dropped <=> entryOf[r] \in {"absent", "pending"}
       /\ \A p \in BatchProfiles : profileOf[p] # "pending"

\* The inductive invariant of a publication.
BatchAccount == BatchTypes /\ PublisherAt /\ CommitAt

LEMMA BatchAccountInit == BatchInit => BatchAccount
BY SMTT(60) DEF BatchInit, BatchAccount, BatchTypes, PublisherAt, CommitAt, PastProfiles,
   PastRecords

LEMMA BatchAccountSteps == BatchAccount /\ BatchNext => BatchAccount'
<1> SUFFICES ASSUME BatchAccount, BatchNext PROVE BatchAccount'
  OBVIOUS
<1> USE BatchAssumption
    DEF BatchAccount, BatchTypes, PublisherAt, CommitAt, PastProfiles, PastRecords,
    UnchangedUsers,
        UnchangedPublisher, catalogFree
<1>1. CASE BeginPublish
  BY SMTT(60), <1>1 DEF BeginPublish
<1>2. CASE prepareBatchProfile
  BY SMTT(60), <1>2 DEF prepareBatchProfile
<1>3. CASE prepareBatchRecord
  BY SMTT(60), <1>3 DEF prepareBatchRecord
<1>4. CASE publishActivation
  BY SMTT(60), <1>4 DEF publishActivation
<1>5. CASE FinalizeProfiles
  BY SMTT(60), <1>5 DEF FinalizeProfiles
<1>6. CASE FinalizeRecords
  BY SMTT(60), <1>6 DEF FinalizeRecords
<1>7. CASE removeActivationIfExact
  BY SMTT(60), <1>7 DEF removeActivationIfExact
<1>8. CASE RecordPublication
  BY SMTT(60), <1>8 DEF RecordPublication
<1>9. CASE PublishStops
  BY SMTT(60), <1>9 DEF PublishStops
<1>10. ASSUME NEW r \in BatchRecords, SaveRecord(r) PROVE BatchAccount'
  BY SMTT(60), <1>10 DEF SaveRecord, listed, batchRecordVisible, pendingBatchMutationCheck
<1>11. ASSUME NEW r \in BatchRecords, RemoveBatchRecord(r) PROVE BatchAccount'
  BY SMTT(60), <1>11 DEF RemoveBatchRecord, listed, batchRecordVisible,
     pendingBatchMutationCheck
<1>12. ASSUME NEW p \in BatchProfiles, SaveProfile(p) PROVE BatchAccount'
  BY SMTT(60), <1>12 DEF SaveProfile
<1>13. ASSUME NEW p \in BatchProfiles, ReadProfile(p) PROVE BatchAccount'
  BY SMTT(60), <1>13 DEF ReadProfile
<1>14. CASE CreateRecord
  BY SMTT(60), <1>14 DEF CreateRecord
<1>15. CASE ReadActivation
  BY SMTT(60), <1>15 DEF ReadActivation, BatchPublicationVisible
<1> QED BY <1>1, <1>2, <1>3, <1>4, <1>5, <1>6, <1>7, <1>8, <1>9, <1>10, <1>11, <1>12,
        <1>13, <1>14, <1>15 DEF BatchNext

\* What the publisher has done and what is committed agree with the files,
\* however often the publication stops and is taken up again (PublishBatch).
THEOREM BatchAccountHolds == BatchSpec => []BatchAccount
<1>1. BatchAccount /\ [BatchNext]_batchVars => BatchAccount'
  <2> SUFFICES ASSUME BatchAccount, [BatchNext]_batchVars PROVE BatchAccount'
    OBVIOUS
  <2>1. CASE BatchNext
    BY <2>1, BatchAccountSteps
  <2>2. CASE UNCHANGED batchVars
    BY <2>2 DEF batchVars, BatchAccount, BatchTypes, PublisherAt, CommitAt
  <2> QED BY <2>1, <2>2
<1> QED BY BatchAccountInit, <1>1, PTL DEF BatchSpec

\* The records of a batch become visible together, at the activation, and
\* nothing of it is readable before (publishActivation, batchRecordVisible).
THEOREM OneVisibilityPointHolds == BatchSpec => []OneVisibilityPoint
<1>1. BatchAccount => OneVisibilityPoint
  BY SMTT(60), BatchAssumption
     DEF BatchAccount, BatchTypes, PublisherAt, CommitAt, PastProfiles, PastRecords,
         OneVisibilityPoint, listed, batchRecordVisible, validateActiveBatchClosure,
         BatchPublicationVisible, readableProfiles, catalogFree
<1> QED BY BatchAccountHolds, <1>1, PTL

\* While the batch is being published no environment takes one of its names,
\* and without edits the profiles stay as they were prepared.
NamesAreKept ==
  /\ publisher # "idle" \/ activation => ~namesake
  /\ ~ProfileEdits => \A p \in BatchProfiles : profileOf[p] # "edited"

\* An activation that was left behind can be finished by the next publication
\* if no profile of the batch is edited meanwhile (preflightBatch).  With
\* edits it cannot: FinalizeProfiles finds another profile and refuses.
THEOREM ActivationsCanFinish == ~ProfileEdits => (BatchSpec => []ActivationCanFinish)
<1> SUFFICES ASSUME ~ProfileEdits PROVE BatchSpec => []ActivationCanFinish
  OBVIOUS
<1>1. BatchInit => NamesAreKept
  BY SMTT(60) DEF BatchInit, NamesAreKept
<1>2. BatchAccount /\ NamesAreKept /\ [BatchNext]_batchVars => NamesAreKept'
  <2> SUFFICES ASSUME BatchAccount, NamesAreKept, [BatchNext]_batchVars PROVE NamesAreKept'
    OBVIOUS
  <2> USE DEF BatchAccount, BatchTypes, PublisherAt, CommitAt, PastProfiles, PastRecords,
              NamesAreKept, UnchangedUsers, UnchangedPublisher, catalogFree
  <2>1. CASE BeginPublish
    BY SMTT(60), <2>1 DEF BeginPublish, preflightBatch
  <2>2. CASE prepareBatchProfile \/ prepareBatchRecord
    BY SMTT(60), <2>2 DEF prepareBatchProfile, prepareBatchRecord
  <2>3. CASE publishActivation \/ FinalizeProfiles \/ FinalizeRecords \/ removeActivationIfExact
    BY SMTT(60), <2>3
       DEF publishActivation, FinalizeProfiles, FinalizeRecords, removeActivationIfExact
  <2>4. CASE RecordPublication \/ PublishStops
    BY SMTT(60), <2>4 DEF RecordPublication, PublishStops
  <2>5. CASE \E r \in BatchRecords : SaveRecord(r) \/ RemoveBatchRecord(r)
    BY SMTT(60), <2>5 DEF SaveRecord, RemoveBatchRecord
  <2>6. CASE CreateRecord
    BY SMTT(60), <2>6 DEF CreateRecord, validateActiveBatchClosure, batchRecordVisible
  <2>7. CASE (\E p \in BatchProfiles : SaveProfile(p) \/ ReadProfile(p)) \/ ReadActivation
    BY SMTT(60), <2>7 DEF SaveProfile, ReadProfile, ReadActivation
  <2>8. CASE UNCHANGED batchVars
    BY <2>8 DEF batchVars
  <2> QED BY <2>1, <2>2, <2>3, <2>4, <2>5, <2>6, <2>7, <2>8 DEF BatchNext
<1>3. BatchAccount /\ NamesAreKept => ActivationCanFinish
  BY SMTT(60) DEF BatchAccount, CommitAt, NamesAreKept, ActivationCanFinish, preflightBatch,
             preflightProfiles
<1> QED BY BatchAccountHolds, <1>1, <1>2, <1>3, PTL DEF BatchSpec

(***************************************************************************)
(* The change of a resolver.                                               *)
(***************************************************************************)

\* The fields of a change under way.
CandidateFields == {"at", "staged", "attempted", "activated", "restored", "proved", "result", "to"}

\* A change that has been proved keeps the guest on the new resolver until its
\* outcome is written, and nothing is reported before that.
DnsAccount ==
  /\ DOMAIN candidate = CandidateFields /\ DOMAIN dnsJournal = {"phase", "done", "to"}
  /\ candidate.at # "none" => candidate.result \in {"none", "unproved"}
  /\ candidate.at \in {"drain", "commit", "commit-journal"} => dnsGuest = desired
  /\ candidate.at = "commit-journal" => dnsState = [status |-> "ready", resolver |-> desired]
  /\ DnsOutcomeIsTrue

\* Nothing is under way at first.
LEMMA DnsAccountInit == DnsInit => DnsAccount
BY SMTT(60) DEF DnsInit, DnsAccount, DnsOutcomeIsTrue, CandidateFields, noCandidate,
   noJournal

\* Every step of a transition, of its recovery and of a session keeps the
\* account.
LEMMA DnsAccountSteps == DnsAccount /\ DnsNext => DnsAccount'
<1> SUFFICES ASSUME DnsAccount, DnsNext PROVE DnsAccount'
  OBVIOUS
<1> USE DEF DnsAccount, DnsOutcomeIsTrue, CandidateFields, desired, from, openJournal
<1>1. CASE AcquireRuntime
  BY SMTT(60), <1>1 DEF AcquireRuntime, noCandidate, otherResolver
<1>2. CASE StageDns
  BY SMTT(60), <1>2 DEF StageDns, dnsFine, dnsFault, dnsStep, turnBack, journaled
<1>3. CASE ProbeDns
  BY SMTT(60), <1>3 DEF ProbeDns, dnsFine, dnsFault, dnsStep, turnBack, journaled
<1>4. CASE ActivateDns
  BY SMTT(60), <1>4 DEF ActivateDns, dnsFine, dnsFault, dnsStep, turnBack, journaled
<1>5. CASE ReconfigureForward
  BY SMTT(60), <1>5 DEF ReconfigureForward, dnsFine, dnsFault, dnsStep, turnBack, journaled,
     reconfigured
<1>6. CASE RecordActivation
  BY SMTT(60), <1>6 DEF RecordActivation, dnsFine, dnsFault, dnsStep, turnBack, journaled
<1>7. CASE ProveDns
  BY SMTT(60), <1>7 DEF ProveDns, dnsFine, dnsFault, dnsStep, turnBack, journaled
<1>8. CASE DrainDns
  BY SMTT(60), <1>8 DEF DrainDns, dnsFine, dnsFault, dnsStep, turnBack, journaled
<1>9. CASE CommitDns
  BY SMTT(60), <1>9 DEF CommitDns, dnsFine, dnsFault, dnsStep, turnBack, journaled
<1>10. CASE CommitJournal
  BY SMTT(60), <1>10 DEF CommitJournal, dnsFine, dnsFault, dnsStep, turnBack, journaled
<1>11. CASE RollbackDns
  BY SMTT(60), <1>11 DEF RollbackDns, dnsFine, dnsFault, dnsStep, turnBack, journaled, rolled
<1>12. CASE FinishRollback
  BY SMTT(60), <1>12 DEF FinishRollback, dnsFine, dnsFault, dnsStep, turnBack, journaled,
     rolled
<1>13. CASE ReconcileDns
  <2>1. desired # from
    BY DEF otherResolver
  <2>2. PICK seen : /\ recordSeen(seen)
                    /\ seen = "committed" => dnsGuest = desired
                    /\ seen \notin {"committed", "unproved"} => seen = "rolled-back" /\ dnsGuest = from
    BY SMTT(60), <1>13, <2>1 DEF ReconcileDns
  <2>3. /\ candidate.at = "crashed" /\ UNCHANGED dnsGuest
        /\ \E ended \in {"unproved", "succeeded", "rolled-back"} :
             /\ dnsStep([at |-> "none", staged |-> TRUE, result |-> ended])
             /\ ended = "succeeded" =>
                  dnsGuest = desired /\ dnsState' = [status |-> "ready", resolver |-> desired]
             /\ ended = "rolled-back" =>
                  /\ dnsGuest = from /\ dnsState' = [status |-> "ready", resolver |-> from]
                  /\ dnsJournal'.phase = "rolled-back"
    <3>1. CASE seen = "unproved" \/ ~(validDnsJournal(dnsJournal) /\ dnsJournal.to = candidate.to)
      BY <2>2, <3>1 DEF recordSeen
    <3>2. CASE seen = "committed"
      BY <2>2, <3>2 DEF recordSeen
    <3>3. CASE seen = "rolled-back"
      <4>1. CASE dnsJournal' = [dnsJournal EXCEPT !.phase = seen, !.done = IF seen = "committed" THEN 5 ELSE @]
        <5>1. dnsJournal'.phase = "rolled-back"
          BY SMTT(60), <3>3, <4>1
        <5> QED BY <2>2, <3>3, <5>1 DEF recordSeen
      <4>2. CASE dnsStep([at |-> "none", staged |-> TRUE, result |-> "unproved"])
        BY <2>2, <4>2 DEF recordSeen
      <4> QED BY <2>2, <3>3, <4>1, <4>2 DEF recordSeen
    <3> QED BY <2>2, <3>1, <3>2, <3>3
  <2>4. PICK ended \in {"unproved", "succeeded", "rolled-back"} :
             /\ dnsStep([at |-> "none", staged |-> TRUE, result |-> ended])
             /\ ended = "succeeded" =>
                  dnsGuest = desired /\ dnsState' = [status |-> "ready", resolver |-> desired]
             /\ ended = "rolled-back" =>
                  /\ dnsGuest = from /\ dnsState' = [status |-> "ready", resolver |-> from]
                  /\ dnsJournal'.phase = "rolled-back"
    BY <2>3
  <2>5. DOMAIN dnsJournal' = {"phase", "done", "to"}
    <3>1. CASE UNCHANGED dnsJournal
      BY <3>1
    <3>2. CASE dnsJournal' = [dnsJournal EXCEPT !.phase = seen, !.done = IF seen = "committed" THEN 5 ELSE @]
      BY SMTT(60), <3>2
    <3> QED BY <2>2, <3>1, <3>2 DEF recordSeen
  <2> QED BY SMTT(60), <2>3, <2>4, <2>5 DEF dnsStep
<1>14. CASE AskAgain
  BY SMTT(60), <1>14 DEF AskAgain, dnsFine, dnsFault, dnsStep, turnBack, journaled
<1>15. CASE DaemonCrash
  BY SMTT(60), <1>15 DEF DaemonCrash, noCandidate
<1>16. CASE SessionEnds
  BY SMTT(60), <1>16 DEF SessionEnds, dnsFine, dnsFault, dnsStep, turnBack, journaled
<1>17. CASE SessionStarts
  BY SMTT(60), <1>17 DEF SessionStarts, dnsFine, dnsFault, dnsStep, turnBack, journaled
<1> QED BY <1>1, <1>2, <1>3, <1>4, <1>5, <1>6, <1>7, <1>8, <1>9, <1>10, <1>11, <1>12,
        <1>13, <1>14, <1>15, <1>16, <1>17 DEF DnsNext

\* A resolver that is reported as committed, rolled back or restored is the
\* one the guest has, whatever failed on the way and wherever the daemon
\* stopped (the DNS transition and ReconcileDns).
THEOREM DnsOutcomesStayTrue == DnsSpec => []DnsOutcomeIsTrue
<1>1. DnsAccount /\ [DnsNext]_dnsVars => DnsAccount'
  <2> SUFFICES ASSUME DnsAccount, [DnsNext]_dnsVars PROVE DnsAccount'
    OBVIOUS
  <2>1. CASE DnsNext
    BY <2>1, DnsAccountSteps
  <2>2. CASE UNCHANGED dnsVars
    BY <2>2 DEF dnsVars, DnsAccount, DnsOutcomeIsTrue, desired, from, openJournal
  <2> QED BY <2>1, <2>2
<1>2. DnsAccount => DnsOutcomeIsTrue
  BY DEF DnsAccount
<1> QED BY DnsAccountInit, <1>1, <1>2, PTL DEF DnsSpec

(***************************************************************************)
(* The removal of an environment.                                          *)
(***************************************************************************)

\* Who may ask for a removal, and how far the journal says it got.
RemovalAuthorities == {"none", "environment-clean", "environment-delete", "run-rm"}
RemovalStates == {"none", "planned", "backend-absent", "metadata-cleaning", "blocked"}
Intents == [authority : RemovalAuthorities, state : RemovalStates]
Removals == {"environment-clean", "environment-delete", "run-rm", "ordinary", "missing"}
RemovalKinds == Removals \cup {"none", "session"}

\* The steps of a removal, each with those that come after it.
Finished == {"metadata", "remove", "complete", "finish"}
PastGateway == {"activity"} \cup Finished
PastRuntime == {"gateway"} \cup PastGateway
PastOwners == {"runtime"} \cup PastRuntime
PastSamples == {"absent", "owners"} \cup PastOwners
Authorized == ({"mark", "observe", "cleanup", "sample1", "sample2"} \cup PastSamples) \ {"finish"}
RemovalSteps == {"idle", "begin", "finish"} \cup Authorized

Workers == [kind : RemovalKinds, at : RemovalSteps, phase : RemovalStates]

\* The record, the intent in memory and on disk, and the worker.
RemovalTypes ==
  /\ recordFile \in {"ready", "running", "stopped", "error", "gone"}
  /\ disposable \in BOOLEAN
  /\ intent \in Intents /\ intentFile \in Intents
  /\ remover \in Workers
  /\ removalSpent \in [faults : Nat, crashes : Nat, glitches : Nat]
  /\ removalSpent.glitches <= MaxRemovalGlitches
  /\ residue \subseteq Residue

\* Two samples that agree are wrong only when the backend was wrong twice.
InstanceIsGone == instance = "absent" \/ removalSpent.glitches > 1

\* How far the removal got is what is already gone, in the order the steps are
\* taken; the worker of an intent works under the phase the journal has.
RemovalAccount ==
  /\ RemovalTypes
  /\ remover.at \in PastSamples => InstanceIsGone
  /\ remover.at = "sample2" => instance = "absent" \/ removalSpent.glitches >= 1
  /\ remover.at \in PastOwners => "owners" \notin residue
  /\ remover.at \in PastRuntime => "runtime" \notin residue
  /\ remover.at \in PastGateway => "gateway" \notin residue
  /\ remover.at \in Finished => "activity" \notin residue \/ disposable
  /\ remover.at = "begin" => remover.kind \in Removals
  /\ remover.kind = "ordinary" => disposable
  /\ remover.at \in Authorized => intentFile.state = remover.phase
  /\ remover.at = "cleanup" => remover.phase = "planned" /\ instance # "absent"
  /\ recordFile = "gone" =>
       /\ InstanceIsGone
       /\ residue \subseteq IF disposable THEN {"activity"} ELSE {}

\* A worker that goes on with a new phase.
LEMMA WorkerMoves ==
  ASSUME NEW r \in Workers, NEW step \in RemovalSteps, NEW state \in RemovalStates
  PROVE  LET w == [r EXCEPT !.at = step, !.phase = state]
         IN  w \in Workers /\ w.kind = r.kind /\ w.at = step /\ w.phase = state
BY DEF Workers

\* A worker that begins.
LEMMA WorkerStarts ==
  ASSUME NEW sort \in RemovalKinds, NEW step \in RemovalSteps
  PROVE  LET w == [NoWorker EXCEPT !.kind = sort, !.at = step]
         IN  w \in Workers /\ w.kind = sort /\ w.at = step /\ w.phase = "none"
BY DEF Workers, NoWorker, RemovalKinds, RemovalStates

\* Nothing is being removed at first.
LEMMA RemovalAccountInit ==
  RemovalInit => RemovalAccount
BY SMTT(60), RemovalAssumption DEF InstanceIsGone, RemovalInit, NoWorker, NoIntent,
   RemovalAccount, RemovalTypes, Intents, RemovalAuthorities, RemovalStates, RemovalKinds, Removals,
         RemovalSteps, Authorized, PastSamples, PastOwners, PastRuntime, PastGateway, Finished, Residue, Workers

\* A worker that starts has nothing behind it yet.
LEMMA RemovalAccountStarts ==
  ASSUME RemovalAccount, NEW sort \in Removals, start(sort),
         sort = "ordinary" => disposable, freely,
         UNCHANGED <<disposable, intent, intentFile, residue>>,
         instance' = instance \/ (instance = "running" /\ instance' = "stopped"),
         recordFile' = recordFile \/ (recordFile # "gone" /\ recordFile' = "stopped")
  PROVE  RemovalAccount'
<1>1. sort \in RemovalKinds /\ "begin" \in RemovalSteps
  BY DEF RemovalKinds, RemovalSteps
<1>2. /\ remover' \in Workers /\ remover'.kind = sort /\ remover'.at = "begin"
  BY <1>1, WorkerStarts DEF start
<1>3. remover'.at \notin PastSamples \cup Authorized \cup {"sample2"}
  BY <1>2 DEF PastSamples, PastOwners, PastRuntime, PastGateway, Finished, Authorized
<1>4. RemovalTypes'
  BY SMTT(60), <1>2 DEF RemovalAccount, RemovalTypes, freely
<1> QED
  BY SMTT(60), <1>2, <1>3, <1>4
     DEF RemovalAccount, InstanceIsGone, PastSamples, PastOwners, PastRuntime,
     PastGateway, freely

\* A phase that is written, was written before, or cannot be written.
LEMMA RemovalAccountAdvances ==
  ASSUME RemovalAccount, NEW before, NEW state \in RemovalStates,
         NEW next \in PastOwners \cup {"owners"}, remover.at \in Authorized \cap PastSamples,
         AdvanceDisposal(before, state, next),
         next # "owners" => remover.at \in Finished,
         next # "finish"
  PROVE  RemovalAccount'
<1>t. remover \in Workers /\ next \in RemovalSteps /\ state \in RemovalStates
  BY DEF RemovalAccount, RemovalTypes, RemovalSteps, Authorized, PastSamples
<1>m. \A step \in RemovalSteps, phase \in RemovalStates :
        LET w == [remover EXCEPT !.at = step, !.phase = phase]
        IN  w \in Workers /\ w.kind = remover.kind /\ w.at = step /\ w.phase = phase
  BY <1>t, WorkerMoves
<1> USE DEF RemovalAccount, InstanceIsGone, RemovalTypes, RemovalSteps, Authorized, PastSamples, PastOwners,
            PastRuntime, PastGateway, Finished
<1>1. CASE remover.phase # before /\ freely /\ goTo(next) /\ UNCHANGED <<intent, intentFile>>
  BY SMTT(60), <1>1 DEF AdvanceDisposal, freely, goTo, Workers
<1>2. CASE /\ remover.phase = before /\ freely
           /\ intent' = [intent EXCEPT !.state = state] /\ intentFile' = intent'
           /\ remover' = [remover EXCEPT !.at = next, !.phase = state]
  <2>1. /\ remover' \in Workers /\ remover'.kind = remover.kind
        /\ remover'.at = next /\ remover'.phase = state
    BY ONLY ZenonT(60), <1>2, <1>m, <1>t
  <2>2. intent' \in Intents /\ intentFile' \in Intents /\ intentFile'.state = state
    BY SMTT(60), <1>2 DEF Intents
  <2> QED BY SMTT(60), <1>2, <2>1, <2>2 DEF AdvanceDisposal, freely
<1>3. CASE removalFault /\ BlockDisposal
  BY SMTT(60), <1>3
     DEF AdvanceDisposal, removalFault, spendRemoval, BlockDisposal, NoWorker, Workers,
     Intents,
         RemovalStates, RemovalKinds
<1> QED BY <1>1, <1>2, <1>3 DEF AdvanceDisposal

\* Every step of a removal, of a session and of the daemon keeps the account.
LEMMA RemovalAccountSteps ==
  RemovalAccount /\ RemovalNext => RemovalAccount'
<1> SUFFICES ASSUME RemovalAccount, RemovalNext PROVE RemovalAccount'
  OBVIOUS
<1>15. CASE applyEnvironmentCleanPlan
  BY <1>15, RemovalAccountStarts DEF applyEnvironmentCleanPlan, Removals
<1>16. CASE applyEnvironmentDeletePlan
  BY <1>16, RemovalAccountStarts DEF applyEnvironmentDeletePlan, Removals
<1>17. CASE finishConcurrentRunEnvironment
  <2>1. CASE disposable /\ start("ordinary") /\ UNCHANGED recordFile
    BY <1>17, <2>1, RemovalAccountStarts
       DEF finishConcurrentRunEnvironment, Removals
  <2>2. CASE recordFile' = "ready" /\ UNCHANGED remover
    BY SMTT(60), <1>17, <2>2 DEF finishConcurrentRunEnvironment, idleRemover, freely,
       RemovalAccount,
                            RemovalTypes, InstanceIsGone
  <2> QED BY <1>17, <2>1, <2>2 DEF finishConcurrentRunEnvironment
<1>20. CASE recoverPendingEnvironmentRemoval
  <2>1. ASSUME NEW sort \in {"environment-clean", "environment-delete", "run-rm"}, start(sort)
        PROVE  RemovalAccount'
    BY <1>20, <2>1, RemovalAccountStarts
       DEF Removals, recoverPendingEnvironmentRemoval
  <2>2. CASE UNCHANGED remover
    BY SMTT(60), <1>20, <2>2 DEF recoverPendingEnvironmentRemoval, freely, RemovalAccount,
       RemovalTypes,
                            InstanceIsGone
  <2> QED BY <1>20, <2>1, <2>2 DEF recoverPendingEnvironmentRemoval
<1>21. CASE recoverMissingDisposableIntent
  <2>1. CASE start("missing")
    BY <1>21, <2>1, RemovalAccountStarts
       DEF Removals, recoverMissingDisposableIntent
  <2>2. CASE UNCHANGED remover
    BY SMTT(60), <1>21, <2>2 DEF recoverMissingDisposableIntent, freely, RemovalAccount,
       RemovalTypes,
                            InstanceIsGone
  <2> QED BY <1>21, <2>1, <2>2 DEF recoverMissingDisposableIntent
<1>a. MaxRemovalGlitches \in Nat
  BY RemovalAssumption
<1>m. \A step \in RemovalSteps, state \in RemovalStates :
        LET w == [remover EXCEPT !.at = step, !.phase = state]
        IN  w \in Workers /\ w.kind = remover.kind /\ w.at = step /\ w.phase = state
  BY WorkerMoves DEF RemovalAccount, RemovalTypes
<1>s. LET w == [NoWorker EXCEPT !.kind = "session", !.at = "finish"]
      IN  w \in Workers /\ w.kind = "session" /\ w.at = "finish" /\ w.phase = "none"
  BY WorkerStarts DEF RemovalKinds, RemovalSteps
<1> USE DEF RemovalAccount, InstanceIsGone, RemovalTypes, Intents, RemovalAuthorities, RemovalStates,
            RemovalKinds, Removals, RemovalSteps, Authorized, PastSamples, PastOwners, PastRuntime,
            PastGateway, Finished, Residue, Workers, at, goTo, freely, removalFault, spendRemoval,
            missing, NoWorker, NoIntent, BlockDisposal
<1>1. CASE BeginDisposal
  <2> DEFINE authority == authorityOf(remover.kind)
             begun == removalBegun(authority)
  <2>1. authority \in RemovalAuthorities
    BY SMTT(60), <1>1 DEF BeginDisposal, authorityOf
  <2>2. begun \in Intents
    BY SMTT(60), <2>1 DEF removalBegun
  <2>3. CASE freely /\ remover' = NoWorker /\ UNCHANGED <<intent, intentFile>>
    BY SMTT(60), <1>1, <2>3 DEF BeginDisposal
  <2>4. CASE /\ freely /\ intent' = begun /\ intentFile' = begun
             /\ remover' = [remover EXCEPT !.at = IF missing THEN "sample1" ELSE "mark",
                                           !.phase = begun.state]
    <3>1. PICK step \in {"sample1", "mark"} :
            remover' = [remover EXCEPT !.at = step, !.phase = begun.state]
      BY <2>4
    <3> HIDE DEF begun
    <3>2. /\ remover' \in Workers /\ remover'.kind = remover.kind
          /\ remover'.at = step /\ remover'.phase = begun.state
      BY ZenonT(60), <1>m, <2>2, <3>1
    <3> QED BY SMTT(60), <1>1, <2>2, <2>4, <3>1, <3>2 DEF BeginDisposal
  <2>5. CASE removalFault /\ intent' = begun /\ UNCHANGED intentFile /\ remover' = NoWorker
    <3> HIDE DEF begun
    <3> QED BY SMTT(60), <1>1, <2>2, <2>5 DEF BeginDisposal
  <2> QED BY <1>1, <2>3, <2>4, <2>5 DEF BeginDisposal
<1>2. CASE MarkRecord
  BY SMTT(60), <1>a, <1>2 DEF MarkRecord
<1>3. CASE ObserveInstance
  BY SMTT(60), <1>a, <1>3 DEF ObserveInstance, sampled
<1>4. CASE CleanupInstance
  <2>1. /\ remover.at = "cleanup"
        /\ recordFile = "gone" => removalSpent.glitches > 1
        /\ UNCHANGED <<recordFile, disposable, residue>>
    BY SMTT(60), <1>4 DEF CleanupInstance
  <2>2. /\ removalSpent' \in [faults : Nat, crashes : Nat, glitches : Nat]
        /\ removalSpent'.glitches = removalSpent.glitches
    BY SMTT(60), <1>4 DEF CleanupInstance
  <2>3. CASE goTo("sample1") /\ UNCHANGED <<intent, intentFile>>
    BY SMTT(60), <2>1, <2>2, <2>3
  <2>4. CASE BlockDisposal
    BY SMTT(60), <2>1, <2>2, <2>4
  <2> QED BY <1>4, <2>3, <2>4 DEF CleanupInstance
<1>5. CASE observeDisposableAbsenceTwice
  BY SMTT(60), <1>a, <1>5 DEF observeDisposableAbsenceTwice, observeAbsence, sampled
<1>6. CASE RecordBackendAbsent
  <2> QED BY <1>6, RemovalAccountAdvances DEF RecordBackendAbsent
<1>7. CASE ClearOwners
  BY SMTT(60), <1>a, <1>7 DEF ClearOwners, clean
<1>8. CASE ClearRuntime
  BY SMTT(60), <1>a, <1>8 DEF ClearRuntime, clean
<1>9. CASE closeDisposableGateway
  BY SMTT(60), <1>a, <1>9 DEF closeDisposableGateway, clean
<1>10. CASE cleanupEnvironmentRemovalActivity
  BY SMTT(60), <1>a, <1>10 DEF cleanupEnvironmentRemovalActivity, clean
<1>11. CASE RecordMetadataCleaning
  <2>1. PICK next \in {"complete", "remove"} :
          AdvanceDisposal("backend-absent", "metadata-cleaning", next)
    BY <1>11 DEF RecordMetadataCleaning
  <2> QED BY <1>11, <2>1, RemovalAccountAdvances DEF RecordMetadataCleaning
<1>12. CASE RemoveRecord
  BY SMTT(60), <1>a, <1>12 DEF RemoveRecord
<1>13. CASE CompleteDisposalMetadata
  <2>1. CASE remover' = NoWorker
    BY SMTT(60), <1>13, <2>1 DEF CompleteDisposalMetadata
  <2>2. CASE /\ freely /\ intent' = NoIntent /\ intentFile' = NoIntent
             /\ remover.kind = "ordinary"
             /\ remover' = [NoWorker EXCEPT !.kind = "session", !.at = "finish"]
    <3>1. /\ remover' \in Workers /\ remover'.kind = "session" /\ remover'.at = "finish"
      BY ZenonT(60), <2>2, <1>s
    <3> QED BY SMTT(60), <1>13, <2>2, <3>1 DEF CompleteDisposalMetadata
  <2> QED BY <1>13, <2>1, <2>2 DEF CompleteDisposalMetadata
<1>14. CASE FinishSession
  <2>1. /\ remover' = NoWorker /\ residue' \subseteq residue
        /\ UNCHANGED <<recordFile, disposable, intent, intentFile, instance>>
    BY <1>14 DEF FinishSession
  <2>2. RemovalTypes'
    BY SMTT(60), <1>a, <1>14, <2>1 DEF FinishSession
  <2> QED BY SMTT(60), <1>14, <2>1, <2>2 DEF FinishSession
<1>18. CASE CrashDaemon
  BY SMTT(60), <1>a, <1>18 DEF CrashDaemon
<1>19. CASE StartDaemon
  BY SMTT(60), <1>a, <1>19 DEF StartDaemon
<1> QED BY <1>1, <1>2, <1>3, <1>4, <1>5, <1>6, <1>7, <1>8, <1>9, <1>10, <1>11, <1>12,
        <1>13, <1>14, <1>15, <1>16, <1>17, <1>18, <1>19, <1>20, <1>21 DEF RemovalNext

\* A removal removes in the order of its steps, under the phase the journal
\* has, across faults and restarts (the disposal journal and the workers
\* that resume it).
THEOREM RemovalAccountHolds ==
  RemovalSpec => []RemovalAccount
<1>1. RemovalInit => RemovalAccount
  BY RemovalAccountInit
<1>2. RemovalAccount /\ [RemovalNext]_removalVars => RemovalAccount'
  <2> SUFFICES ASSUME RemovalAccount, [RemovalNext]_removalVars PROVE RemovalAccount'
    OBVIOUS
  <2>1. CASE RemovalNext
    BY <2>1, RemovalAccountSteps
  <2>2. CASE UNCHANGED removalVars
    BY SMTT(60), <2>2 DEF removalVars, RemovalAccount, RemovalTypes, InstanceIsGone
  <2> QED BY <2>1, <2>2
<1> QED BY <1>1, <1>2, PTL DEF RemovalSpec

\* When the record of an environment is gone, its instance and its residue
\* are gone too, as long as the backend misreports at most one observation:
\* absence is observed twice (observeDisposableAbsenceTwice), and a backend
\* that is wrong both times defeats it.
THEOREM NothingStaysOrphaned ==
  MaxRemovalGlitches \in {0, 1} => (RemovalSpec => []NothingIsOrphaned)
<1> SUFFICES ASSUME MaxRemovalGlitches \in {0, 1} PROVE RemovalSpec => []NothingIsOrphaned
  OBVIOUS
<1>1. RemovalAccount => NothingIsOrphaned
  <2> SUFFICES ASSUME RemovalAccount PROVE NothingIsOrphaned
    OBVIOUS
  <2>1. ~(removalSpent.glitches > 1)
    BY SMTT(60) DEF RemovalAccount, RemovalTypes
  <2> QED BY <2>1 DEF RemovalAccount, NothingIsOrphaned, InstanceIsGone
<1> QED BY RemovalAccountHolds, <1>1, PTL

\* An instance is destroyed only under an intent that is on disk and still
\* planned (CleanupInstance after BeginDisposal).
THEOREM DestructionStaysAuthorized ==
  RemovalSpec => DestructionIsAuthorized
<1> DEFINE authorized == (instance' = "absent" /\ instance # "absent")
                           => intentFile # NoIntent /\ intentFile.state = "planned"
<1>1. RemovalAccount /\ [RemovalNext]_removalVars => [authorized]_removalVars
  <2> SUFFICES ASSUME RemovalAccount, RemovalNext, instance' = "absent", instance # "absent"
               PROVE  intentFile # NoIntent /\ intentFile.state = "planned"
    OBVIOUS
  <2>1. CleanupInstance
    <3>1. instance' # instance
      OBVIOUS
    <3>2. ~applyEnvironmentDeletePlan
      BY DEF applyEnvironmentDeletePlan
    <3> QED
      BY <3>1, <3>2
         DEF RemovalNext, BeginDisposal, MarkRecord, ObserveInstance,
             observeDisposableAbsenceTwice, observeAbsence, RecordBackendAbsent, AdvanceDisposal,
             ClearOwners, ClearRuntime, closeDisposableGateway, clean,
             cleanupEnvironmentRemovalActivity, RecordMetadataCleaning, RemoveRecord,
             CompleteDisposalMetadata, FinishSession, applyEnvironmentCleanPlan,
             finishConcurrentRunEnvironment, CrashDaemon, StartDaemon,
             recoverPendingEnvironmentRemoval, recoverMissingDisposableIntent
  <2>2. remover.at = "cleanup" /\ remover.phase = "planned"
    BY <2>1 DEF CleanupInstance, at, RemovalAccount
  <2>3. intentFile.state = "planned"
    BY <2>2 DEF RemovalAccount, Authorized
  <2>4. NoIntent.state = "none"
    BY DEF NoIntent
  <2> QED BY <2>3, <2>4
<1> QED BY RemovalAccountHolds, <1>1, PTL DEF RemovalSpec, DestructionIsAuthorized

(***************************************************************************)
(* The owner of the runtime directory: the instance lock, the two socket   *)
(* paths and the receipts of a stop agree, for any number of daemons,      *)
(* clients and faults.                                                     *)
(***************************************************************************)

-----------------------------------------------------------------------------
(* The inductive invariant *)

Pcs == {"none", "launched", "probed", "locked", "credential", "listening", "session",
        "serving", "stopping", "draining", "closing", "waiting", "stopped", "exited"}

(* The daemon has taken the instance lock and has not given it back.        *)
owning == {"locked", "credential", "listening", "session", "serving", "stopping",
           "draining", "closing", "waiting"}

(* It has bound, and not yet closed, its sockets.                           *)
listening == {"listening", "session", "serving", "stopping", "draining", "closing"}
attachable == {"session", "serving", "stopping"}

(* It has been asked to stop, or is gone.                                   *)
leaving == {"stopping", "draining", "closing", "waiting", "stopped", "exited"}

Holders == DaemonIds \cup DaemonClients \cup {Nobody}
Daemons == [pc : Pcs, build : DaemonBuilds, home : LimaHomes, dir : {0, 1},
            open : SUBSET {"socket", "session"}, token : {"valid", "expired"},
            sessions : BOOLEAN, background : {"none", "running", "abandoned", "ended"},
            request : BOOLEAN, bounded : BOOLEAN,
            stoppedBy : {Nobody, "signal", "runtime-loss", "replacement", "operator"}]
DaemonCallers == [pc : {"ensure", "stop", "autostart", "reprobe", "inspect", "inspected",
                        "spawn", "ready", "stopped?", "lock seen", "done"},
                  build : DaemonBuilds, home : LimaHomes, seen : DaemonIds \cup {Nobody},
                  receipt : DaemonIds \cup {Nobody}, replacing : BOOLEAN,
                  result : {"none", "ready", "home-mismatch", "build-mismatch", "failed",
                            "timeout", "stopped"}]

Directories == [n : {0, 1}, exists : BOOLEAN, lock : Holders, autostart : Holders,
                bind : Holders, socket : DaemonIds \cup {Nobody},
                session : DaemonIds \cup {Nobody}, token : DaemonIds \cup {Nobody}]

DaemonTypeOK ==
  /\ runtimeDir \in Directories
  /\ daemon \in [DaemonIds -> Daemons]
  /\ dclient \in [DaemonClients -> DaemonCallers]

(* The lock of the directory belongs to a daemon that owns it; a daemon     *)
(* that is still starting owns the directory that is there now.             *)
LockIsHeld ==
  \A d \in DaemonIds :
    /\ runtimeDir.lock = d => daemon[d].pc \in owning
    /\ starting(d) /\ daemon[d].pc \in owning => runtimeDir.lock = d

(* An open listener is one of a listening daemon; the path of the owner     *)
(* names the owner, and a path that answers names the owner.                *)
SocketsAreOwned ==
  \A d \in DaemonIds :
    /\ "socket" \in daemon[d].open => daemon[d].pc \in listening
    /\ runtimeDir.lock = d /\ daemon[d].pc \in listening => runtimeDir.socket = d
    /\ runtimeDir.lock = d /\ daemon[d].pc \in attachable => runtimeDir.session = d
    /\ runtimeDir.socket = d /\ "socket" \in daemon[d].open => runtimeDir.lock = d

(* A client that has a receipt and has left StopRunning.                    *)
confirmed(c) ==
  /\ dclient[c].receipt # Nobody
  /\ \/ dclient[c].result = "stopped"
     \/ dclient[c].pc \in {"autostart", "reprobe", "inspect", "inspected", "spawn"}

ReceiptsAreKept ==
  \A c \in DaemonClients :
    /\ dclient[c].receipt # Nobody => daemon[dclient[c].receipt].pc \in leaving
    /\ dclient[c].pc = "ensure" => dclient[c].receipt = Nobody
    /\ dclient[c].result = "stopped" => dclient[c].pc = "done"
    /\ dclient[c].pc \in {"inspected", "lock seen"} => runtimeDir.lock = c
    /\ confirmed(c) => runtimeDir.lock # dclient[c].receipt

DaemonInv == DaemonTypeOK /\ LockIsHeld /\ SocketsAreOwned /\ ReceiptsAreKept

-----------------------------------------------------------------------------
(* Types *)

(* What the steps on the directory leave of it: the lock, the socket paths  *)
(* and everything else apart.                                               *)
LEMMA ReleaseLock ==
  ASSUME NEW r \in Directories, NEW p \in Holders
  PROVE  LET q == releaseLock(r, "lock", p) IN
         /\ q \in Directories
         /\ q.lock = IF r.lock = p THEN Nobody ELSE r.lock
         /\ q.socket = r.socket /\ q.session = r.session
BY DEF Directories, releaseLock, Holders

LEMMA ReleaseOther ==
  ASSUME NEW r \in Directories, NEW p \in Holders
  PROVE  /\ LET q == releaseLock(r, "autostart", p) IN
            /\ q \in Directories
            /\ q.lock = r.lock /\ q.socket = r.socket /\ q.session = r.session
         /\ LET q == releaseLock(r, "bind", p) IN
            /\ q \in Directories
            /\ q.lock = r.lock /\ q.socket = r.socket /\ q.session = r.session
BY DEF Directories, releaseLock, Holders

LEMMA CloseSocket ==
  ASSUME NEW r \in Directories, NEW d \in DaemonIds
  PROVE  LET q == closeSocket(r, "socket", d) IN
         /\ q \in Directories
         /\ q.lock = r.lock /\ q.session = r.session
         /\ q.socket \in {r.socket, Nobody} /\ (q.socket # r.socket => r.socket = d)
BY DEF Directories, closeSocket, removeOwnedSocket, Holders

LEMMA CloseSession ==
  ASSUME NEW r \in Directories, NEW d \in DaemonIds
  PROVE  LET q == closeSocket(r, "session", d) IN
         /\ q \in Directories
         /\ q.lock = r.lock /\ q.socket = r.socket
         /\ q.session \in {r.session, Nobody} /\ (q.session # r.session => r.session = d)
<1>1. removeOwnedSocket(r, "session", d) \in Directories
  BY DEF Directories, removeOwnedSocket, Holders
<1>2. LET q == removeOwnedSocket(r, "session", d) IN
      /\ q.lock = r.lock /\ q.socket = r.socket
      /\ q.session \in {r.session, Nobody} /\ (q.session # r.session => r.session = d)
  BY DEF Directories, removeOwnedSocket, Holders
<1>3. d \in Holders
  BY DEF Holders
<1>. QED
  BY <1>1, <1>2, <1>3, ReleaseOther DEF closeSocket

(* A daemon step, seen from the invariant: where it leaves the daemon and   *)
(* its listeners, and every other daemon as it was.                         *)
moves(d, next, open) ==
  /\ daemon' \in [DaemonIds -> Daemons]
  /\ daemon'[d].pc = next /\ daemon'[d].open = open
  /\ \A e \in DaemonIds \ {d} : daemon'[e] = daemon[e]

(* What a step leaves of the lock and of the socket paths.                  *)
paths(lock, socket, session) ==
  /\ runtimeDir' \in Directories
  /\ runtimeDir'.lock = lock /\ runtimeDir'.socket = socket /\ runtimeDir'.session = session

LEMMA Moves ==
  ASSUME DaemonTypeOK, NEW d \in DaemonIds, NEW r \in Daemons, daemon' = [daemon EXCEPT ![d] = r]
  PROVE  moves(d, r.pc, r.open)
BY DEF DaemonTypeOK, moves

LEMMA DaemonFields ==
  ASSUME DaemonTypeOK, NEW d \in DaemonIds
  PROVE  daemon[d] \in Daemons /\ daemon[d].pc \in Pcs /\ daemon[d].open \in SUBSET {"socket", "session"}
BY DEF DaemonTypeOK, Daemons

LEMMA SamePaths ==
  ASSUME DaemonTypeOK, UNCHANGED runtimeDir
  PROVE  paths(runtimeDir.lock, runtimeDir.socket, runtimeDir.session)
BY DEF DaemonTypeOK, paths

(* A step of daemon d, from (was, runtimeDir) to (next, open, lock, socket,   *)
(* session), that keeps the invariant: d takes the lock only while it is    *)
(* free and before it serves, gives back only its own, and unlinks or binds *)
(* a path only if the path is its own or it holds the lock.                 *)
allowed(d, next, open, lock, socket, session) ==
  /\ lock = d => next \in owning
  /\ next \in owning \cap {"locked", "credential", "listening", "session"} => lock = d
  /\ "socket" \in open => next \in listening
  /\ lock = d /\ next \in listening => socket = d
  /\ lock = d /\ next \in attachable => session = d
  /\ socket = d /\ "socket" \in open => lock = d
  /\ lock # runtimeDir.lock => runtimeDir.lock \in {d, Nobody} /\ lock \in {d, Nobody}
  /\ socket # runtimeDir.socket => d \in {runtimeDir.lock, runtimeDir.socket} /\ socket \in {d, Nobody}
  /\ session # runtimeDir.session => d \in {runtimeDir.lock, runtimeDir.session}
  /\ daemon[d].pc \in leaving => next \in leaving /\ (lock = d => runtimeDir.lock = d)

LEMMA AllowedStep ==
  ASSUME DaemonInv, NEW d \in DaemonIds, UNCHANGED dclient,
         NEW next, NEW open, NEW lock, NEW socket, NEW session,
         moves(d, next, open), paths(lock, socket, session),
         allowed(d, next, open, lock, socket, session)
  PROVE  DaemonInv'
<1>. USE ProcessAssumption DEF DaemonInv
<1>1. DaemonTypeOK'
  BY DEF DaemonTypeOK, moves, paths
<1>2. LockIsHeld'
  BY ZenonT(60) DEF LockIsHeld, moves, paths, allowed, starting, owning
<1>3. SocketsAreOwned'
  <2>. SUFFICES ASSUME NEW e \in DaemonIds
                PROVE  /\ "socket" \in daemon'[e].open => daemon'[e].pc \in listening
                       /\ lock = e /\ daemon'[e].pc \in listening => socket = e
                       /\ lock = e /\ daemon'[e].pc \in attachable => session = e
                       /\ socket = e /\ "socket" \in daemon'[e].open => lock = e
    BY DEF SocketsAreOwned, paths
  <2>1. CASE e = d
    BY <2>1 DEF moves, allowed
  <2>2. CASE e # d
    <3>1. /\ daemon'[e] = daemon[e] /\ d # Nobody /\ e # Nobody
          /\ "socket" \in daemon[e].open => daemon[e].pc \in listening
          /\ runtimeDir.lock = e /\ daemon[e].pc \in listening => runtimeDir.socket = e
          /\ runtimeDir.lock = e /\ daemon[e].pc \in attachable => runtimeDir.session = e
          /\ runtimeDir.socket = e /\ "socket" \in daemon[e].open => runtimeDir.lock = e
      BY <2>2 DEF moves, SocketsAreOwned
    <3>2. /\ lock # runtimeDir.lock => runtimeDir.lock \in {d, Nobody} /\ lock \in {d, Nobody}
          /\ socket # runtimeDir.socket => d \in {runtimeDir.lock, runtimeDir.socket} /\ socket \in {d, Nobody}
          /\ session # runtimeDir.session => d \in {runtimeDir.lock, runtimeDir.session}
      BY DEF allowed
    <3>. QED BY <2>2, <3>1, <3>2
  <2>. QED BY <2>1, <2>2
<1>4. ReceiptsAreKept'
  <2>. SUFFICES ASSUME NEW c \in DaemonClients
                PROVE  /\ dclient[c].receipt # Nobody => daemon'[dclient[c].receipt].pc \in leaving
                       /\ dclient[c].pc \in {"inspected", "lock seen"} => runtimeDir'.lock = c
                       /\ confirmed(c) => runtimeDir'.lock # dclient[c].receipt
    BY DEF ReceiptsAreKept, confirmed
  <2>1. dclient[c].receipt \in DaemonIds \cup {Nobody}
    BY DEF DaemonTypeOK, DaemonCallers
  <2>2. dclient[c].receipt # Nobody => daemon'[dclient[c].receipt].pc \in leaving
    BY <2>1 DEF ReceiptsAreKept, moves, allowed
  <2>3. dclient[c].pc \in {"inspected", "lock seen"} => runtimeDir'.lock = c
    BY DEF ReceiptsAreKept, paths, allowed
  <2>4. confirmed(c) => runtimeDir'.lock # dclient[c].receipt
    BY <2>1 DEF ReceiptsAreKept, confirmed, paths, allowed
  <2>. QED
    BY <2>2, <2>3, <2>4
<1>. QED
  BY <1>1, <1>2, <1>3, <1>4

(* Every step of a daemon is allowed.                                       *)
LEMMA DaemonInvStep ==
  ASSUME DaemonInv, NEW d \in DaemonIds, DaemonStep(d)
  PROVE  DaemonInv'
<1>. USE ProcessAssumption
<1>. DEFINE r == daemon[d]
<1>0. /\ DaemonTypeOK /\ r \in Daemons /\ runtimeDir \in Directories /\ d \in Holders
      /\ r.pc \in Pcs /\ r.open \in SUBSET {"socket", "session"}
  BY DaemonFields DEF DaemonInv, DaemonTypeOK, Holders
<1>h. /\ runtimeDir.lock = d => r.pc \in owning
      /\ r.pc \in {"locked", "credential", "listening", "session"} => runtimeDir.lock = d
      /\ "socket" \in r.open => r.pc \in listening
      /\ runtimeDir.lock = d /\ r.pc \in listening => runtimeDir.socket = d
      /\ runtimeDir.lock = d /\ r.pc \in attachable => runtimeDir.session = d
      /\ runtimeDir.socket = d /\ "socket" \in r.open => runtimeDir.lock = d
  BY DEF DaemonInv, LockIsHeld, SocketsAreOwned, starting, owning
<1>1. CASE DaemonStart(d)
  <2>1. PICK b \in DaemonBuilds, h \in LimaHomes : Launch(d, b, h)
    BY <1>1 DEF DaemonStart
  <2>. DEFINE q == [r EXCEPT !.pc = "launched", !.build = b, !.home = h]
  <2>2. q \in Daemons /\ q.pc = "launched" /\ q.open = r.open
    BY <1>0 DEF Daemons, Pcs
  <2>3. daemon' = [daemon EXCEPT ![d] = q] /\ r.pc = "none" /\ UNCHANGED <<dclient, runtimeDir>>
    BY <1>1, <2>1 DEF DaemonStart, Launch
  <2>. HIDE DEF q
  <2>4. moves(d, "launched", r.open)
    BY <1>0, <2>2, <2>3, Moves
  <2>5. paths(runtimeDir.lock, runtimeDir.socket, runtimeDir.session)
    BY <1>0, <2>3, SamePaths
  <2>6. allowed(d, "launched", r.open, runtimeDir.lock, runtimeDir.socket, runtimeDir.session)
    BY <1>0, <1>h, <2>3 DEF allowed, owning, listening, attachable, leaving
  <2>. QED
    BY <2>3, <2>4, <2>5, <2>6, AllowedStep
<1>a. ASSUME r.pc \in {"locked", "credential", "listening", "session"}, abandonStart(d),
             UNCHANGED dclient
      PROVE  DaemonInv'
  <2>. DEFINE q == [r EXCEPT !.pc = "exited", !.open = {}]
              s == closeSocket(runtimeDir, "session", d)
              t == closeSocket(s, "socket", d)
  <2>1. q \in Daemons /\ q.pc = "exited" /\ q.open = {}
    BY <1>0 DEF Daemons, Pcs
  <2>2. daemon' = [daemon EXCEPT ![d] = q] /\ runtimeDir' = releaseLock(t, "lock", d)
    BY <1>a DEF abandonStart
  <2>3. /\ s \in Directories /\ s.lock = runtimeDir.lock /\ s.socket = runtimeDir.socket
        /\ s.session # runtimeDir.session => d = runtimeDir.session
    BY <1>0, CloseSession
  <2>. HIDE DEF q, s
  <2>4. /\ t \in Directories /\ t.lock = s.lock /\ t.session = s.session
        /\ t.socket # s.socket => d = s.socket /\ t.socket = Nobody
    BY <2>3, CloseSocket
  <2>. HIDE DEF t
  <2>5. paths(IF t.lock = d THEN Nobody ELSE t.lock, t.socket, t.session)
    BY <1>0, <2>2, <2>4, ReleaseLock DEF paths
  <2>6. moves(d, "exited", {})
    BY <1>0, <2>1, <2>2, Moves
  <2>7. allowed(d, "exited", {}, IF t.lock = d THEN Nobody ELSE t.lock, t.socket, t.session)
    BY <1>0, <1>h, <1>a, <2>3, <2>4 DEF allowed, owning, listening, attachable, leaving
  <2>. QED
    BY <1>a, <2>5, <2>6, <2>7, AllowedStep
<1>2. CASE StartFails(d)
  BY <1>a, <1>2 DEF StartFails
<1>3. CASE StartProbe(d)
  <2>. DEFINE q == [r EXCEPT !.pc = IF answers(runtimeDir, "socket") THEN "exited" ELSE "probed"]
  <2>1. q \in Daemons /\ q.pc = (IF answers(runtimeDir, "socket") THEN "exited" ELSE "probed") /\ q.open = r.open
    BY <1>0, <1>3 DEF Daemons, Pcs
  <2>2. daemon' = [daemon EXCEPT ![d] = q] /\ UNCHANGED dclient
    BY <1>3 DEF StartProbe, go, ensurePlacement
  <2>. HIDE DEF q
  <2>3. moves(d, q.pc, q.open)
    BY <1>0, <2>1, <2>2, Moves
  <2>4. paths(runtimeDir.lock, runtimeDir.socket, runtimeDir.session)
    BY <1>0, <1>3 DEF StartProbe, go, ensurePlacement, paths, Directories
  <2>5. allowed(d, q.pc, q.open, runtimeDir.lock, runtimeDir.socket, runtimeDir.session)
    BY <1>0, <1>h, <1>3, <2>1
       DEF StartProbe, go, ensurePlacement, allowed, owning, listening, attachable,
       leaving, Directories
  <2>. QED
    BY <2>2, <2>3, <2>4, <2>5, AllowedStep
<1>4. CASE StartLock(d) /\ canLock(runtimeDir, "lock")
  <2>. DEFINE q == [r EXCEPT !.pc = "locked", !.dir = runtimeDir.n]
  <2>1. q \in Daemons /\ q.pc = "locked" /\ q.open = r.open
    BY <1>0, <1>4 DEF Daemons, Pcs, Directories
  <2>2. daemon' = [daemon EXCEPT ![d] = q] /\ UNCHANGED dclient
    BY <1>4 DEF StartLock, canLock
  <2>. HIDE DEF q
  <2>3. moves(d, q.pc, q.open)
    BY <1>0, <2>1, <2>2, Moves
  <2>4. paths(d, runtimeDir.socket, runtimeDir.session)
    BY ZenonT(60), <1>0, <1>4 DEF StartLock, canLock, paths, Directories
  <2>5. allowed(d, q.pc, q.open, d, runtimeDir.socket, runtimeDir.session)
    BY <1>0, <1>h, <1>4, <2>1
       DEF StartLock, canLock, allowed, owning, listening, attachable, leaving,
       Directories
  <2>. QED
    BY <2>2, <2>3, <2>4, <2>5, AllowedStep
<1>5. CASE StartLock(d) /\ ~canLock(runtimeDir, "lock")
  <2>. DEFINE q == [r EXCEPT !.pc = "exited"]
  <2>1. q \in Daemons /\ q.pc = "exited" /\ q.open = r.open
    BY <1>0, <1>5 DEF Daemons, Pcs
  <2>2. daemon' = [daemon EXCEPT ![d] = q] /\ UNCHANGED dclient
    BY <1>5 DEF StartLock, go
  <2>. HIDE DEF q
  <2>3. moves(d, q.pc, q.open)
    BY <1>0, <2>1, <2>2, Moves
  <2>4. paths(runtimeDir.lock, runtimeDir.socket, runtimeDir.session)
    BY <1>0, <1>5, SamePaths DEF StartLock, go
  <2>5. allowed(d, q.pc, q.open, runtimeDir.lock, runtimeDir.socket, runtimeDir.session)
    BY <1>0, <1>h, <1>5, <2>1 DEF StartLock, go, allowed, owning, listening,
       attachable, leaving
  <2>. QED
    BY <2>2, <2>3, <2>4, <2>5, AllowedStep
<1>6. CASE StartCredential(d)
  <2>. DEFINE q == [r EXCEPT !.pc = "credential"]
  <2>1. q \in Daemons /\ q.pc = "credential" /\ q.open = r.open
    BY <1>0, <1>6 DEF Daemons, Pcs
  <2>2. daemon' = [daemon EXCEPT ![d] = q] /\ UNCHANGED dclient
    BY <1>6 DEF StartCredential, go
  <2>. HIDE DEF q
  <2>3. moves(d, q.pc, q.open)
    BY <1>0, <2>1, <2>2, Moves
  <2>4. paths(runtimeDir.lock, Nobody, runtimeDir.session)
    BY <1>0, <1>6 DEF StartCredential, go, paths, Directories
  <2>5. allowed(d, q.pc, q.open, runtimeDir.lock, Nobody, runtimeDir.session)
    BY <1>0, <1>h, <1>6, <2>1
       DEF StartCredential, go, allowed, owning, listening, attachable, leaving,
       Directories
  <2>. QED
    BY <2>2, <2>3, <2>4, <2>5, AllowedStep
<1>7. CASE listenSocket(d)
  <2>. DEFINE q == [r EXCEPT !.pc = "listening", !.open = {"socket"}]
  <2>1. q \in Daemons /\ q.pc = "listening" /\ q.open = {"socket"}
    BY <1>0, <1>7 DEF Daemons, Pcs
  <2>2. daemon' = [daemon EXCEPT ![d] = q] /\ UNCHANGED dclient
    BY <1>7 DEF listenSocket
  <2>. HIDE DEF q
  <2>3. moves(d, q.pc, q.open)
    BY <1>0, <2>1, <2>2, Moves
  <2>4. paths(runtimeDir.lock, d, runtimeDir.session)
    BY <1>0, <1>7 DEF listenSocket, paths, Directories
  <2>5. allowed(d, q.pc, q.open, runtimeDir.lock, d, runtimeDir.session)
    BY <1>0, <1>h, <1>7, <2>1
       DEF listenSocket, allowed, owning, listening, attachable, leaving, Directories
  <2>. QED
    BY <2>2, <2>3, <2>4, <2>5, AllowedStep
<1>8. CASE ListenSession(d) /\ ~abandonStart(d)
  <2>. DEFINE q == [r EXCEPT !.pc = "session", !.open = @ \cup {"session"}]
  <2>1. q \in Daemons /\ q.pc = "session" /\ q.open = r.open \cup {"session"}
    BY <1>0, <1>8 DEF Daemons, Pcs
  <2>2. daemon' = [daemon EXCEPT ![d] = q] /\ UNCHANGED dclient
    BY <1>8 DEF ListenSession
  <2>. HIDE DEF q
  <2>3. moves(d, q.pc, q.open)
    BY <1>0, <2>1, <2>2, Moves
  <2>4. paths(runtimeDir.lock, runtimeDir.socket, d)
    BY ZenonT(60), <1>0, <1>8 DEF ListenSession, paths, Directories
  <2>5. allowed(d, q.pc, q.open, runtimeDir.lock, runtimeDir.socket, d)
    BY <1>0, <1>h, <1>8, <2>1
       DEF ListenSession, allowed, owning, listening, attachable, leaving, Directories
  <2>. QED
    BY <2>2, <2>3, <2>4, <2>5, AllowedStep
<1>9. CASE ListenSession(d) /\ abandonStart(d)
  BY <1>a, <1>9 DEF ListenSession
<1>10. CASE StartServing(d)
  <2>. DEFINE q == [r EXCEPT !.pc = "serving"]
  <2>1. q \in Daemons /\ q.pc = "serving" /\ q.open = r.open
    BY <1>0, <1>10 DEF Daemons, Pcs
  <2>2. daemon' = [daemon EXCEPT ![d] = q] /\ UNCHANGED dclient
    BY <1>10 DEF StartServing, go
  <2>. HIDE DEF q
  <2>3. moves(d, q.pc, q.open)
    BY <1>0, <2>1, <2>2, Moves
  <2>4. paths(runtimeDir.lock, runtimeDir.socket, runtimeDir.session)
    BY <1>0, <1>10, SamePaths DEF StartServing, go
  <2>5. allowed(d, q.pc, q.open, runtimeDir.lock, runtimeDir.socket, runtimeDir.session)
    BY <1>0, <1>h, <1>10, <2>1
       DEF StartServing, go, allowed, owning, listening, attachable, leaving
  <2>. QED
    BY <2>2, <2>3, <2>4, <2>5, AllowedStep
<1>11. CASE OpenSession(d)
  <2>. DEFINE q == [r EXCEPT !.sessions = TRUE]
  <2>1. q \in Daemons /\ q.pc = r.pc /\ q.open = r.open
    BY <1>0, <1>11 DEF Daemons, Pcs
  <2>2. daemon' = [daemon EXCEPT ![d] = q] /\ UNCHANGED dclient
    BY <1>11 DEF OpenSession
  <2>. HIDE DEF q
  <2>3. moves(d, q.pc, q.open)
    BY <1>0, <2>1, <2>2, Moves
  <2>4. paths(runtimeDir.lock, runtimeDir.socket, runtimeDir.session)
    BY <1>0, <1>11, SamePaths DEF OpenSession
  <2>5. allowed(d, q.pc, q.open, runtimeDir.lock, runtimeDir.socket, runtimeDir.session)
    BY <1>0, <1>h, <1>11, <2>1 DEF OpenSession, allowed, owning, listening, attachable,
       leaving
  <2>. QED
    BY <2>2, <2>3, <2>4, <2>5, AllowedStep
<1>12. CASE EndSession(d)
  <2>. DEFINE q == [r EXCEPT !.sessions = FALSE]
  <2>1. q \in Daemons /\ q.pc = r.pc /\ q.open = r.open
    BY <1>0, <1>12 DEF Daemons, Pcs
  <2>2. daemon' = [daemon EXCEPT ![d] = q] /\ UNCHANGED dclient
    BY <1>12 DEF EndSession
  <2>. HIDE DEF q
  <2>3. moves(d, q.pc, q.open)
    BY <1>0, <2>1, <2>2, Moves
  <2>4. paths(runtimeDir.lock, runtimeDir.socket, runtimeDir.session)
    BY <1>0, <1>12, SamePaths DEF EndSession
  <2>5. allowed(d, q.pc, q.open, runtimeDir.lock, runtimeDir.socket, runtimeDir.session)
    BY <1>0, <1>h, <1>12, <2>1 DEF EndSession, allowed, owning, listening, attachable,
       leaving
  <2>. QED
    BY <2>2, <2>3, <2>4, <2>5, AllowedStep
<1>13. CASE SubmitBackground(d)
  <2>. DEFINE q == [r EXCEPT !.background = "running"]
  <2>1. q \in Daemons /\ q.pc = r.pc /\ q.open = r.open
    BY <1>0, <1>13 DEF Daemons, Pcs
  <2>2. daemon' = [daemon EXCEPT ![d] = q] /\ UNCHANGED dclient
    BY <1>13 DEF SubmitBackground
  <2>. HIDE DEF q
  <2>3. moves(d, q.pc, q.open)
    BY <1>0, <2>1, <2>2, Moves
  <2>4. paths(runtimeDir.lock, runtimeDir.socket, runtimeDir.session)
    BY <1>0, <1>13, SamePaths DEF SubmitBackground
  <2>5. allowed(d, q.pc, q.open, runtimeDir.lock, runtimeDir.socket, runtimeDir.session)
    BY <1>0, <1>h, <1>13, <2>1
       DEF SubmitBackground, allowed, owning, listening, attachable, leaving
  <2>. QED
    BY <2>2, <2>3, <2>4, <2>5, AllowedStep
<1>14. CASE BackgroundEnds(d)
  <2>. DEFINE q == [r EXCEPT !.background = "ended"]
  <2>1. q \in Daemons /\ q.pc = r.pc /\ q.open = r.open
    BY <1>0, <1>14 DEF Daemons, Pcs
  <2>2. daemon' = [daemon EXCEPT ![d] = q] /\ UNCHANGED dclient
    BY <1>14 DEF BackgroundEnds
  <2>. HIDE DEF q
  <2>3. moves(d, q.pc, q.open)
    BY <1>0, <2>1, <2>2, Moves
  <2>4. paths(runtimeDir.lock, runtimeDir.socket, runtimeDir.session)
    BY <1>0, <1>14, SamePaths DEF BackgroundEnds
  <2>5. allowed(d, q.pc, q.open, runtimeDir.lock, runtimeDir.socket, runtimeDir.session)
    BY <1>0, <1>h, <1>14, <2>1
       DEF BackgroundEnds, allowed, owning, listening, attachable, leaving
  <2>. QED
    BY <2>2, <2>3, <2>4, <2>5, AllowedStep
<1>15. CASE AcceptRequest(d)
  <2>. DEFINE q == [r EXCEPT !.request = TRUE]
  <2>1. q \in Daemons /\ q.pc = r.pc /\ q.open = r.open
    BY <1>0, <1>15 DEF Daemons, Pcs
  <2>2. daemon' = [daemon EXCEPT ![d] = q] /\ UNCHANGED dclient
    BY <1>15 DEF AcceptRequest
  <2>. HIDE DEF q
  <2>3. moves(d, q.pc, q.open)
    BY <1>0, <2>1, <2>2, Moves
  <2>4. paths(runtimeDir.lock, runtimeDir.socket, runtimeDir.session)
    BY <1>0, <1>15, SamePaths DEF AcceptRequest
  <2>5. allowed(d, q.pc, q.open, runtimeDir.lock, runtimeDir.socket, runtimeDir.session)
    BY <1>0, <1>h, <1>15, <2>1
       DEF AcceptRequest, allowed, owning, listening, attachable, leaving
  <2>. QED
    BY <2>2, <2>3, <2>4, <2>5, AllowedStep
<1>16. CASE RequestEnds(d)
  <2>. DEFINE q == [r EXCEPT !.request = FALSE]
  <2>1. q \in Daemons /\ q.pc = r.pc /\ q.open = r.open
    BY <1>0, <1>16 DEF Daemons, Pcs
  <2>2. daemon' = [daemon EXCEPT ![d] = q] /\ UNCHANGED dclient
    BY <1>16 DEF RequestEnds
  <2>. HIDE DEF q
  <2>3. moves(d, q.pc, q.open)
    BY <1>0, <2>1, <2>2, Moves
  <2>4. paths(runtimeDir.lock, runtimeDir.socket, runtimeDir.session)
    BY <1>0, <1>16, SamePaths DEF RequestEnds
  <2>5. allowed(d, q.pc, q.open, runtimeDir.lock, runtimeDir.socket, runtimeDir.session)
    BY <1>0, <1>h, <1>16, <2>1 DEF RequestEnds, allowed, owning, listening, attachable,
       leaving
  <2>. QED
    BY <2>2, <2>3, <2>4, <2>5, AllowedStep
<1>17. CASE RotateCredential(d)
  <2>. DEFINE q == [r EXCEPT !.token = IF r.token = "valid" THEN "expired" ELSE "valid"]
  <2>1. q \in Daemons /\ q.pc = r.pc /\ q.open = r.open
    BY <1>0, <1>17 DEF Daemons, Pcs
  <2>2. daemon' = [daemon EXCEPT ![d] = q] /\ UNCHANGED dclient
    BY <1>17 DEF RotateCredential
  <2>. HIDE DEF q
  <2>3. moves(d, q.pc, q.open)
    BY <1>0, <2>1, <2>2, Moves
  <2>4. paths(runtimeDir.lock, runtimeDir.socket, runtimeDir.session)
    BY <1>0, <1>17 DEF RotateCredential, paths, Directories
  <2>5. allowed(d, q.pc, q.open, runtimeDir.lock, runtimeDir.socket, runtimeDir.session)
    BY <1>0, <1>h, <1>17, <2>1
       DEF RotateCredential, allowed, owning, listening, attachable, leaving,
       Directories
  <2>. QED
    BY <2>2, <2>3, <2>4, <2>5, AllowedStep
<1>18. CASE StopSessions(d)
  <2>. DEFINE q == [r EXCEPT !.pc = "draining", !.open = @ \ {"session"}]
  <2>1. q \in Daemons /\ q.pc = "draining" /\ q.open = r.open \ {"session"}
    BY <1>0, <1>18 DEF Daemons, Pcs
  <2>2. daemon' = [daemon EXCEPT ![d] = q] /\ UNCHANGED dclient
    BY <1>18 DEF StopSessions
  <2>. HIDE DEF q
  <2>3. moves(d, q.pc, q.open)
    BY <1>0, <2>1, <2>2, Moves
  <2>4. paths(runtimeDir.lock, runtimeDir.socket, closeSocket(runtimeDir, "session", d).session)
    BY <1>0, <1>18, CloseSession DEF StopSessions, paths
  <2>5. allowed(d, q.pc, q.open, runtimeDir.lock, runtimeDir.socket, closeSocket(runtimeDir, "session", d).session)
    BY <1>0, <1>h, <1>18, <2>1, CloseSession
       DEF StopSessions, allowed, owning, listening, attachable, leaving
  <2>. QED
    BY <2>2, <2>3, <2>4, <2>5, AllowedStep
<1>19. CASE StopDrain(d)
  <2>. DEFINE q == [r EXCEPT !.pc = "closing", !.sessions = FALSE,
                  !.background = IF @ = "running" THEN "abandoned" ELSE @]
  <2>1. q \in Daemons /\ q.pc = "closing" /\ q.open = r.open
    BY <1>0, <1>19 DEF Daemons, Pcs
  <2>2. daemon' = [daemon EXCEPT ![d] = q] /\ UNCHANGED dclient
    BY <1>19 DEF StopDrain
  <2>. HIDE DEF q
  <2>3. moves(d, q.pc, q.open)
    BY <1>0, <2>1, <2>2, Moves
  <2>4. paths(runtimeDir.lock, runtimeDir.socket, runtimeDir.session)
    BY <1>0, <1>19, SamePaths DEF StopDrain
  <2>5. allowed(d, q.pc, q.open, runtimeDir.lock, runtimeDir.socket, runtimeDir.session)
    BY <1>0, <1>h, <1>19, <2>1 DEF StopDrain, allowed, owning, listening, attachable,
       leaving
  <2>. QED
    BY <2>2, <2>3, <2>4, <2>5, AllowedStep
<1>20. CASE StopServer(d)
  <2>. DEFINE q == [r EXCEPT !.pc = "waiting", !.open = {}]
  <2>1. q \in Daemons /\ q.pc = "waiting" /\ q.open = {}
    BY <1>0, <1>20 DEF Daemons, Pcs
  <2>2. daemon' = [daemon EXCEPT ![d] = q] /\ UNCHANGED dclient
    BY <1>20 DEF StopServer
  <2>. HIDE DEF q
  <2>3. moves(d, q.pc, q.open)
    BY <1>0, <2>1, <2>2, Moves
  <2>4. paths(runtimeDir.lock, closeSocket(runtimeDir, "socket", d).socket, runtimeDir.session)
    BY <1>0, <1>20, CloseSocket DEF StopServer, paths
  <2>5. allowed(d, q.pc, q.open, runtimeDir.lock, closeSocket(runtimeDir, "socket", d).socket, runtimeDir.session)
    BY <1>0, <1>h, <1>20, <2>1, CloseSocket
       DEF StopServer, allowed, owning, listening, attachable, leaving
  <2>. QED
    BY <2>2, <2>3, <2>4, <2>5, AllowedStep
<1>21. CASE StopRelease(d)
  <2>. DEFINE q == [r EXCEPT !.pc = "stopped"]
  <2>1. q \in Daemons /\ q.pc = "stopped" /\ q.open = r.open
    BY <1>0, <1>21 DEF Daemons, Pcs
  <2>2. daemon' = [daemon EXCEPT ![d] = q] /\ UNCHANGED dclient
    BY <1>21 DEF StopRelease, go
  <2>. HIDE DEF q
  <2>3. moves(d, q.pc, q.open)
    BY <1>0, <2>1, <2>2, Moves
  <2>4. paths(IF runtimeDir.lock = d THEN Nobody ELSE runtimeDir.lock, runtimeDir.socket, runtimeDir.session)
    BY <1>0, <1>21, ReleaseLock DEF StopRelease, go, paths
  <2>5. allowed(d, q.pc, q.open, IF runtimeDir.lock = d THEN Nobody ELSE runtimeDir.lock, runtimeDir.socket, runtimeDir.session)
    BY <1>0, <1>h, <1>21, <2>1, ReleaseLock
       DEF StopRelease, go, allowed, owning, listening, attachable, leaving
  <2>. QED
    BY <2>2, <2>3, <2>4, <2>5, AllowedStep
<1>22. CASE Exit(d)
  <2>. DEFINE q == [r EXCEPT !.pc = "exited", !.request = FALSE]
  <2>1. q \in Daemons /\ q.pc = "exited" /\ q.open = r.open
    BY <1>0, <1>22 DEF Daemons, Pcs
  <2>2. daemon' = [daemon EXCEPT ![d] = q] /\ UNCHANGED dclient
    BY <1>22 DEF Exit
  <2>. HIDE DEF q
  <2>3. moves(d, q.pc, q.open)
    BY <1>0, <2>1, <2>2, Moves
  <2>4. paths(runtimeDir.lock, runtimeDir.socket, runtimeDir.session)
    BY <1>0, <1>22, SamePaths DEF Exit
  <2>5. allowed(d, q.pc, q.open, runtimeDir.lock, runtimeDir.socket, runtimeDir.session)
    BY <1>0, <1>h, <1>22, <2>1 DEF Exit, allowed, owning, listening, attachable, leaving
  <2>. QED
    BY <2>2, <2>3, <2>4, <2>5, AllowedStep
<1>23. CASE ProcessDies(d)
  <2>. DEFINE q == [r EXCEPT !.pc = "exited", !.open = {}, !.sessions = FALSE, !.request = FALSE]
  <2>1. q \in Daemons /\ q.pc = "exited" /\ q.open = {}
    BY <1>0, <1>23 DEF Daemons, Pcs
  <2>2. daemon' = [daemon EXCEPT ![d] = q] /\ UNCHANGED dclient
    BY <1>23 DEF ProcessDies
  <2>. HIDE DEF q
  <2>3. moves(d, q.pc, q.open)
    BY <1>0, <2>1, <2>2, Moves
  <2>4. paths(IF runtimeDir.lock = d THEN Nobody ELSE runtimeDir.lock, runtimeDir.socket, runtimeDir.session)
    BY SMTT(60), <1>0, <1>23, ReleaseLock, ReleaseOther DEF ProcessDies, paths
  <2>5. allowed(d, q.pc, q.open, IF runtimeDir.lock = d THEN Nobody ELSE runtimeDir.lock, runtimeDir.socket, runtimeDir.session)
    BY <1>0, <1>h, <1>23, <2>1, ReleaseLock, ReleaseOther
       DEF ProcessDies, allowed, owning, listening, attachable, leaving
  <2>. QED
    BY <2>2, <2>3, <2>4, <2>5, AllowedStep
<1>24. CASE SignalStop(d) \/ RuntimeLossStop(d)
  <2>1. PICK by \in {"signal", "runtime-loss"}, b \in BOOLEAN : daemon' = beginStop(d, by, b)
    BY <1>24 DEF SignalStop, RuntimeLossStop
  <2>. DEFINE q == [r EXCEPT !.pc = "stopping", !.stoppedBy = by, !.bounded = b]
  <2>2. q \in Daemons /\ q.pc = "stopping" /\ q.open = r.open
    BY <1>0 DEF Daemons, Pcs
  <2>3. daemon' = [daemon EXCEPT ![d] = q] /\ r.pc = "serving" /\ UNCHANGED <<dclient, runtimeDir>>
    BY <1>24, <2>1 DEF SignalStop, RuntimeLossStop, beginStop
  <2>. HIDE DEF q
  <2>4. moves(d, "stopping", r.open)
    BY <1>0, <2>2, <2>3, Moves
  <2>5. paths(runtimeDir.lock, runtimeDir.socket, runtimeDir.session)
    BY <1>0, <2>3, SamePaths
  <2>6. allowed(d, "stopping", r.open, runtimeDir.lock, runtimeDir.socket, runtimeDir.session)
    BY <1>0, <1>h, <2>3 DEF allowed, owning, listening, attachable, leaving
  <2>. QED
    BY <2>3, <2>4, <2>5, <2>6, AllowedStep
<1>. QED
  BY <1>1, <1>2, <1>3, <1>4, <1>5, <1>6, <1>7, <1>8, <1>9, <1>10, <1>11, <1>12, <1>13,
     <1>14, <1>15, <1>16, <1>17, <1>18, <1>19, <1>20, <1>21, <1>22, <1>23, <1>24 DEF DaemonStep

-----------------------------------------------------------------------------
(* The steps of the clients *)

(* A client step, seen from the invariant.                                  *)
callerMoves(c, q) ==
  /\ dclient' \in [DaemonClients -> DaemonCallers]
  /\ dclient'[c] = q
  /\ \A e \in DaemonClients \ {c} : dclient'[e] = dclient[e]

LEMMA CallerMoves ==
  ASSUME DaemonTypeOK, NEW c \in DaemonClients, NEW q \in DaemonCallers,
         dclient' = [dclient EXCEPT ![c] = q]
  PROVE  callerMoves(c, q)
BY DEF DaemonTypeOK, callerMoves

(* What a client does to the daemons: it launches one, or asks one to stop. *)
nudged ==
  /\ daemon' \in [DaemonIds -> Daemons]
  /\ \A d \in DaemonIds :
       /\ daemon'[d].open = daemon[d].open
       /\ \/ daemon'[d].pc = daemon[d].pc
          \/ daemon[d].pc = "none" /\ daemon'[d].pc = "launched"
          \/ daemon[d].pc = "serving" /\ daemon'[d].pc = "stopping"

(* A client step that keeps the invariant: the lock is taken only while it  *)
(* is free, and a receipt is believed only when its daemon has lost it.     *)
permitted(c, q, lock) ==
  /\ lock # runtimeDir.lock => runtimeDir.lock \in {c, Nobody} /\ lock \in {c, Nobody}
  /\ q.receipt # Nobody => daemon'[q.receipt].pc \in leaving
  /\ q.pc = "ensure" => q.receipt = Nobody
  /\ q.result = "stopped" => q.pc = "done"
  /\ q.pc \in {"inspected", "lock seen"} => lock = c
  /\ /\ q.receipt # Nobody
     /\ \/ q.result = "stopped"
        \/ q.pc \in {"autostart", "reprobe", "inspect", "inspected", "spawn"}
     => lock # q.receipt

LEMMA PermittedStep ==
  ASSUME DaemonInv, NEW c \in DaemonClients, NEW q, NEW lock, nudged, callerMoves(c, q),
         paths(lock, runtimeDir.socket, runtimeDir.session), permitted(c, q, lock)
  PROVE  DaemonInv'
<1>. USE ProcessAssumption DEF DaemonInv
<1>1. DaemonTypeOK'
  BY DEF DaemonTypeOK, nudged, callerMoves, paths
<1>2. LockIsHeld'
  <2>. SUFFICES ASSUME NEW d \in DaemonIds
                PROVE  /\ runtimeDir'.lock = d => daemon'[d].pc \in owning
                       /\ daemon'[d].pc \in {"locked", "credential", "listening", "session"}
                          => runtimeDir'.lock = d
    BY DEF LockIsHeld, starting, owning
  <2>1. runtimeDir'.lock = d <=> runtimeDir.lock = d
    BY DEF paths, permitted
  <2>2. daemon[d].pc \in owning => daemon'[d].pc \in owning
    BY DEF nudged, owning
  <2>3. daemon'[d].pc \in {"locked", "credential", "listening", "session"} => daemon'[d].pc = daemon[d].pc
    BY DEF nudged
  <2>. QED
    BY <2>1, <2>2, <2>3 DEF LockIsHeld, starting, owning
<1>3. SocketsAreOwned'
  <2>. SUFFICES ASSUME NEW d \in DaemonIds
                PROVE  /\ "socket" \in daemon'[d].open => daemon'[d].pc \in listening
                       /\ runtimeDir'.lock = d /\ daemon'[d].pc \in listening => runtimeDir'.socket = d
                       /\ runtimeDir'.lock = d /\ daemon'[d].pc \in attachable => runtimeDir'.session = d
                       /\ runtimeDir'.socket = d /\ "socket" \in daemon'[d].open => runtimeDir'.lock = d
    BY DEF SocketsAreOwned
  <2>1. runtimeDir'.lock = d <=> runtimeDir.lock = d
    BY DEF paths, permitted
  <2>2. daemon'[d].pc \in listening <=> daemon[d].pc \in listening
    BY DEF nudged, listening
  <2>3. daemon'[d].pc \in attachable <=> daemon[d].pc \in attachable
    BY DEF nudged, attachable
  <2>. QED
    BY <2>1, <2>2, <2>3 DEF SocketsAreOwned, nudged, paths
<1>4. ReceiptsAreKept'
  <2>. SUFFICES ASSUME NEW e \in DaemonClients \ {c}
                PROVE  /\ dclient[e].receipt # Nobody => daemon'[dclient[e].receipt].pc \in leaving
                       /\ dclient[e].pc \in {"inspected", "lock seen"} => lock = e
                       /\ confirmed(e) => lock # dclient[e].receipt
    BY ZenonT(60) DEF ReceiptsAreKept, confirmed, callerMoves, paths, permitted
  <2>1. dclient[e].receipt \in DaemonIds \cup {Nobody}
    BY DEF DaemonTypeOK, DaemonCallers
  <2>2. dclient[e].receipt # Nobody => daemon'[dclient[e].receipt].pc \in leaving
    BY <2>1 DEF ReceiptsAreKept, nudged, leaving
  <2>3. dclient[e].pc \in {"inspected", "lock seen"} => lock = e
    BY DEF ReceiptsAreKept, permitted
  <2>4. confirmed(e) => lock # dclient[e].receipt
    BY <2>1 DEF ReceiptsAreKept, confirmed, permitted
  <2>. QED
    BY <2>2, <2>3, <2>4
<1>. QED
  BY <1>1, <1>2, <1>3, <1>4

(* A daemon that FetchStatus reaches holds the lock.                        *)
LEMMA ReachedOwns ==
  ASSUME DaemonInv
  PROVE  LET d == reached(runtimeDir) IN
         /\ d \in DaemonIds \cup {Nobody}
         /\ d # Nobody => /\ runtimeDir.lock = d
                          /\ daemon[d].pc \in {"serving", "stopping", "draining", "closing"}
<1>1. runtimeDir.socket \in DaemonIds \cup {Nobody}
  BY DEF DaemonInv, DaemonTypeOK, Directories
<1>. QED
  BY <1>1 DEF reached, answers, DaemonInv, SocketsAreOwned

LEMMA UntouchedDaemons ==
  ASSUME DaemonTypeOK, UNCHANGED daemon
  PROVE  nudged
BY DEF DaemonTypeOK, nudged

CallerResults == {"none", "ready", "home-mismatch", "build-mismatch", "failed", "timeout", "stopped"}

(* Returning, and going on, leave the lock and the socket paths alone.      *)
LEMMA ReturnStep ==
  ASSUME DaemonInv, NEW c \in DaemonClients, NEW r \in Directories, NEW result \in CallerResults,
         NEW d \in DaemonIds \cup {Nobody}, returns(c, r, result, d), UNCHANGED daemon,
         r.socket = runtimeDir.socket, r.session = runtimeDir.session,
         r.lock # runtimeDir.lock => runtimeDir.lock = c /\ r.lock = Nobody,
         result = "stopped" => dclient[c].receipt = Nobody \/ r.lock # dclient[c].receipt
  PROVE  DaemonInv'
<1>. DEFINE q == [dclient[c] EXCEPT !.pc = "done", !.result = result, !.seen = d]
<1>0. DaemonTypeOK /\ c \in Holders /\ dclient[c] \in DaemonCallers
  BY DEF DaemonInv, DaemonTypeOK, Holders
<1>1. /\ q \in DaemonCallers /\ q.pc = "done" /\ q.result = result
      /\ q.receipt = dclient[c].receipt
  BY <1>0 DEF DaemonCallers, CallerResults
<1>2. dclient' = [dclient EXCEPT ![c] = q] /\ runtimeDir' = releaseLock(r, "autostart", c)
  BY DEF returns
<1>. HIDE DEF q
<1>3. callerMoves(c, q)
  BY <1>0, <1>1, <1>2, CallerMoves
<1>4. paths(r.lock, runtimeDir.socket, runtimeDir.session)
  BY <1>0, <1>2, ReleaseOther DEF paths
<1>5. permitted(c, q, r.lock)
  BY <1>1 DEF permitted, DaemonInv, ReceiptsAreKept
<1>. QED
  BY <1>0, <1>3, <1>4, <1>5, UntouchedDaemons, PermittedStep

LEMMA GoStep ==
  ASSUME DaemonInv, NEW c \in DaemonClients, NEW r \in Directories,
         NEW next \in {"autostart", "reprobe", "inspect", "inspected", "spawn", "ready", "lock seen"},
         to(c, next), runtimeDir' = r, nudged, dclient[c].pc # "done",
         r.socket = runtimeDir.socket, r.session = runtimeDir.session,
         r.lock # runtimeDir.lock => runtimeDir.lock \in {c, Nobody} /\ r.lock \in {c, Nobody},
         next \in {"inspected", "lock seen"} => r.lock = c,
         next \in {"autostart", "reprobe", "inspect", "inspected", "spawn"}
           => dclient[c].receipt = Nobody \/ confirmed(c)
  PROVE  DaemonInv'
<1>. DEFINE q == [dclient[c] EXCEPT !.pc = next]
<1>0. DaemonTypeOK /\ c \in Holders /\ dclient[c] \in DaemonCallers
  BY DEF DaemonInv, DaemonTypeOK, Holders
<1>1. /\ q \in DaemonCallers /\ q.pc = next /\ q.result = dclient[c].result
      /\ q.receipt = dclient[c].receipt /\ q.receipt \in DaemonIds \cup {Nobody}
  BY <1>0 DEF DaemonCallers
<1>2. dclient' = [dclient EXCEPT ![c] = q]
  BY DEF to
<1>. HIDE DEF q
<1>3. callerMoves(c, q)
  BY <1>0, <1>1, <1>2, CallerMoves
<1>4. paths(r.lock, runtimeDir.socket, runtimeDir.session)
  BY <1>2 DEF paths
<1>5. q.receipt # Nobody => daemon'[q.receipt].pc \in leaving
  <2>1. q.receipt # Nobody => q.receipt \in DaemonIds /\ daemon[q.receipt].pc \in leaving
    BY <1>1 DEF DaemonInv, ReceiptsAreKept
  <2>. QED
    BY <2>1 DEF nudged, leaving
<1>6. q.result # "stopped"
  BY <1>1 DEF DaemonInv, ReceiptsAreKept
<1>7. confirmed(c) => r.lock # q.receipt
  <2>1. confirmed(c) => runtimeDir.lock # q.receipt /\ q.receipt \in DaemonIds
    BY <1>1 DEF DaemonInv, ReceiptsAreKept, confirmed
  <2>. QED
    BY <2>1, ProcessAssumption
<1>8. permitted(c, q, r.lock)
  BY <1>1, <1>5, <1>6, <1>7 DEF permitted
<1>. QED
  BY <1>3, <1>4, <1>8, PermittedStep

LEMMA ProbeStep ==
  ASSUME DaemonInv, NEW c \in DaemonClients, NEW r \in Directories,
         NEW d \in {reached(runtimeDir), Nobody}, NEW next \in {"autostart", "inspect"},
         probeOnce(c, r, d, next), UNCHANGED daemon, dclient[c].pc \in {"ensure", "reprobe"},
         r.lock = runtimeDir.lock, r.socket = runtimeDir.socket, r.session = runtimeDir.session
  PROVE  DaemonInv'
<1>0. /\ DaemonTypeOK /\ dclient[c] \in DaemonCallers /\ nudged
      /\ dclient[c].receipt = Nobody \/ confirmed(c)
      /\ d \in DaemonIds \cup {Nobody}
  BY UntouchedDaemons, ReachedOwns DEF DaemonInv, DaemonTypeOK, ReceiptsAreKept,
     confirmed
<1>1. CASE to(c, next) /\ runtimeDir' = r
  BY <1>0, <1>1, GoStep
<1>2. ASSUME NEW result \in {"ready", "home-mismatch", "build-mismatch"}, returns(c, r, result, d)
      PROVE  DaemonInv'
  BY <1>0, <1>2, ReturnStep DEF CallerResults
<1>3. ASSUME dclient' = [dclient EXCEPT ![c].pc = "stop", ![c].replacing = TRUE, ![c].seen = d],
             runtimeDir' = r
      PROVE  DaemonInv'
  <2>. DEFINE q == [dclient[c] EXCEPT !.pc = "stop", !.replacing = TRUE, !.seen = d]
  <2>1. /\ q \in DaemonCallers /\ q.pc = "stop" /\ q.result = dclient[c].result
        /\ q.receipt = dclient[c].receipt
    BY <1>0 DEF DaemonCallers
  <2>2. dclient' = [dclient EXCEPT ![c] = q]
    BY <1>3
  <2>. HIDE DEF q
  <2>3. callerMoves(c, q)
    BY <1>0, <2>1, <2>2, CallerMoves
  <2>4. paths(runtimeDir.lock, runtimeDir.socket, runtimeDir.session)
    BY <1>3 DEF paths
  <2>5. permitted(c, q, runtimeDir.lock)
    BY <2>1 DEF permitted, DaemonInv, ReceiptsAreKept
  <2>. QED
    BY <1>0, <2>3, <2>4, <2>5, PermittedStep
<1>. QED
  BY <1>1, <1>2, <1>3 DEF probeOnce

(* StopRunning has seen that the receipt's daemon lost the lock.            *)
LEMMA StopReturnedStep ==
  ASSUME DaemonInv, NEW c \in DaemonClients, NEW r \in Directories, stopReturned(c, r),
         UNCHANGED daemon, dclient[c].pc \in {"stopped?", "lock seen"},
         r.socket = runtimeDir.socket, r.session = runtimeDir.session,
         r.lock # runtimeDir.lock => runtimeDir.lock = c /\ r.lock = Nobody,
         r.lock # dclient[c].receipt \/ dclient[c].receipt = Nobody
  PROVE  DaemonInv'
<1>0. DaemonTypeOK /\ dclient[c] \in DaemonCallers /\ nudged
  BY UntouchedDaemons DEF DaemonInv, DaemonTypeOK
<1>1. CASE dclient[c].replacing
  <2>. DEFINE q == [dclient[c] EXCEPT !.replacing = FALSE, !.result = "none",
                      !.pc = IF r.autostart = c THEN "inspect" ELSE "autostart"]
  <2>1. /\ q \in DaemonCallers /\ q.pc \in {"inspect", "autostart"} /\ q.result = "none"
        /\ q.receipt = dclient[c].receipt
    BY <1>0 DEF DaemonCallers
  <2>2. dclient' = [dclient EXCEPT ![c] = q] /\ runtimeDir' = r
    BY <1>1 DEF stopReturned
  <2>. HIDE DEF q
  <2>3. callerMoves(c, q)
    BY <1>0, <2>1, <2>2, CallerMoves
  <2>4. paths(r.lock, runtimeDir.socket, runtimeDir.session)
    BY <2>2 DEF paths
  <2>5. permitted(c, q, r.lock)
    BY <2>1 DEF permitted, DaemonInv, ReceiptsAreKept
  <2>. QED
    BY <1>0, <2>3, <2>4, <2>5, PermittedStep
<1>2. CASE ~dclient[c].replacing
  BY <1>2, ReturnStep DEF stopReturned, CallerResults
<1>. QED
  BY <1>1, <1>2

LEMMA ClientInvStep ==
  ASSUME DaemonInv, NEW c \in DaemonClients, ClientStep(c)
  PROVE  DaemonInv'
<1>. USE ProcessAssumption
<1>. DEFINE k == dclient[c]
<1>0. /\ DaemonTypeOK /\ k \in DaemonCallers /\ runtimeDir \in Directories
      /\ c \in Holders /\ Nobody \in Holders
  BY DEF DaemonInv, DaemonTypeOK, Holders
<1>h. /\ k.pc = "ensure" => k.receipt = Nobody
      /\ k.pc \in {"inspected", "lock seen"} => runtimeDir.lock = c
      /\ k.receipt \in DaemonIds \cup {Nobody}
      /\ k.pc \in {"autostart", "reprobe", "inspect", "inspected", "spawn"}
         => k.receipt = Nobody \/ confirmed(c)
  BY <1>0 DEF DaemonInv, ReceiptsAreKept, confirmed, DaemonCallers
<1>1. CASE EnsureProbe(c)
  <2>. DEFINE r == ensurePlacement(runtimeDir)
  <2>1. /\ r \in Directories /\ r.lock = runtimeDir.lock /\ r.socket = runtimeDir.socket
        /\ r.session = runtimeDir.session
    BY <1>0 DEF ensurePlacement, Directories
  <2>2. PICK d \in {reached(runtimeDir), Nobody} : probeOnce(c, r, d, "autostart")
    BY <1>1 DEF EnsureProbe
  <2>. HIDE DEF r
  <2>. QED
    BY <1>1, <2>1, <2>2, ProbeStep DEF EnsureProbe
<1>2. CASE EnsureReprobe(c)
  BY <1>0, <1>2, ProbeStep DEF EnsureReprobe
<1>3. CASE AutostartLock(c)
  <2>0. nudged /\ k.pc = "autostart" /\ UNCHANGED daemon
    BY <1>0, <1>3, UntouchedDaemons DEF AutostartLock
  <2>. DEFINE r == [runtimeDir EXCEPT !.autostart = c]
  <2>1. /\ r \in Directories /\ r.lock = runtimeDir.lock /\ r.socket = runtimeDir.socket
        /\ r.session = runtimeDir.session
    BY <1>0 DEF Directories
  <2>2. \/ to(c, "reprobe") /\ runtimeDir' = r
        \/ to(c, "ready") /\ UNCHANGED runtimeDir
        \/ returns(c, runtimeDir, "failed", Nobody)
    BY <1>3 DEF AutostartLock
  <2>. HIDE DEF r
  <2>3. CASE to(c, "reprobe") /\ runtimeDir' = r
    BY <1>h, <2>0, <2>1, <2>3, GoStep
  <2>4. CASE to(c, "ready") /\ UNCHANGED runtimeDir
    BY <1>0, <2>0, <2>4, GoStep
  <2>5. CASE returns(c, runtimeDir, "failed", Nobody)
    BY <1>0, <2>0, <2>5, ReturnStep DEF CallerResults
  <2>. QED
    BY <2>2, <2>3, <2>4, <2>5
<1>4. ASSUME k.pc \in {"inspect", "stopped?"}, runtimeDir.lock = Nobody, UNCHANGED daemon,
             NEW next \in {"inspected", "lock seen"}, next = "inspected" => k.pc = "inspect",
             to(c, next), runtimeDir' = [runtimeDir EXCEPT !.lock = c]
      PROVE  DaemonInv'
  <2>. DEFINE r == [runtimeDir EXCEPT !.lock = c]
  <2>1. /\ r \in Directories /\ r.lock = c /\ r.socket = runtimeDir.socket
        /\ r.session = runtimeDir.session
    BY <1>0 DEF Directories
  <2>2. nudged
    BY <1>0, <1>4, UntouchedDaemons
  <2>3. runtimeDir' = r
    BY <1>4
  <2>. HIDE DEF r
  <2>. QED
    BY <1>4, <1>h, <2>1, <2>2, <2>3, GoStep
<1>5. CASE InspectLock(c)
  <2>0. nudged /\ k.pc = "inspect" /\ UNCHANGED daemon
    BY <1>0, <1>5, UntouchedDaemons DEF InspectLock
  <2>1. \/ /\ to(c, "inspected") /\ runtimeDir' = [runtimeDir EXCEPT !.lock = c]
           /\ runtimeDir.lock = Nobody
        \/ to(c, "ready") /\ UNCHANGED runtimeDir
        \/ returns(c, runtimeDir, "failed", Nobody)
    BY <1>5 DEF InspectLock, canLock
  <2>2. CASE /\ to(c, "inspected") /\ runtimeDir' = [runtimeDir EXCEPT !.lock = c]
             /\ runtimeDir.lock = Nobody
    BY <1>4, <2>0, <2>2
  <2>3. CASE to(c, "ready") /\ UNCHANGED runtimeDir
    BY <1>0, <2>0, <2>3, GoStep
  <2>4. CASE returns(c, runtimeDir, "failed", Nobody)
    BY <1>0, <2>0, <2>4, ReturnStep DEF CallerResults
  <2>. QED
    BY <2>1, <2>2, <2>3, <2>4
<1>6. ASSUME k.pc \in {"inspected", "lock seen"}
      PROVE  LET r == releaseLock(runtimeDir, "lock", c) IN
             /\ r \in Directories /\ r.lock = Nobody /\ runtimeDir.lock = c
             /\ r.socket = runtimeDir.socket /\ r.session = runtimeDir.session
  BY <1>0, <1>h, <1>6, ReleaseLock
<1>7. CASE InspectRelease(c)
  <2>. DEFINE r == releaseLock(runtimeDir, "lock", c)
  <2>1. /\ nudged /\ k.pc = "inspected" /\ to(c, "spawn") /\ runtimeDir' = r
    BY <1>0, <1>7, UntouchedDaemons DEF InspectRelease
  <2>2. /\ r \in Directories /\ r.lock = Nobody /\ runtimeDir.lock = c
        /\ r.socket = runtimeDir.socket /\ r.session = runtimeDir.session
    BY <1>6, <2>1
  <2>. HIDE DEF r
  <2>. QED
    BY <1>h, <2>1, <2>2, GoStep
<1>8. CASE Spawn(c)
  <2>1. k.pc = "spawn"
    BY <1>8 DEF Spawn
  <2>2. CASE returns(c, runtimeDir, "failed", Nobody) /\ UNCHANGED daemon
    BY <1>0, <2>2, ReturnStep DEF CallerResults
  <2>3. ASSUME NEW d \in DaemonIds, Launch(d, k.build, k.home), to(c, "ready"), UNCHANGED runtimeDir
        PROVE  DaemonInv'
    <3>. DEFINE q == [daemon[d] EXCEPT !.pc = "launched", !.build = k.build, !.home = k.home]
    <3>0. daemon[d] \in Daemons /\ k.build \in DaemonBuilds /\ k.home \in LimaHomes
      BY <1>0, DaemonFields DEF DaemonCallers
    <3>1. q \in Daemons /\ q.pc = "launched" /\ q.open = daemon[d].open
      BY <3>0 DEF Daemons, Pcs
    <3>2. daemon' = [daemon EXCEPT ![d] = q] /\ daemon[d].pc = "none"
      BY <2>3 DEF Launch
    <3>. HIDE DEF q
    <3>3. moves(d, "launched", daemon[d].open)
      BY <1>0, <3>1, <3>2, Moves
    <3>4. nudged
      BY <3>2, <3>3 DEF moves, nudged
    <3>. QED
      BY <1>0, <2>1, <2>3, <3>4, GoStep
  <2>. QED
    BY <1>8, <2>2, <2>3 DEF Spawn
<1>9. CASE WaitReady(c)
  <2>. DEFINE d == reached(runtimeDir)
  <2>1. d \in DaemonIds \cup {Nobody} /\ Nobody \in DaemonIds \cup {Nobody}
    BY ReachedOwns
  <2>2. UNCHANGED daemon /\ \/ \E result \in {"build-mismatch", "ready", "home-mismatch"} :
                                 returns(c, runtimeDir, result, d)
                            \/ returns(c, runtimeDir, "timeout", Nobody)
    BY <1>9 DEF WaitReady
  <2>. HIDE DEF d
  <2>. QED
    BY <1>0, <2>1, <2>2, ReturnStep DEF CallerResults
<1>10. CASE RequestStop(c)
  <2>. DEFINE d == reached(runtimeDir)
              by == IF k.replacing THEN "replacement" ELSE "operator"
  <2>1. /\ d \in DaemonIds \cup {Nobody} /\ k.pc = "stop"
        /\ d # Nobody => daemon[d].pc \in {"serving", "stopping", "draining", "closing"}
    BY <1>10, ReachedOwns DEF RequestStop
  <2>2. CASE d = Nobody
    BY <1>0, <1>10, <2>2, ReturnStep DEF RequestStop, CallerResults
  <2>3. CASE d # Nobody
    <3>. DEFINE q == [k EXCEPT !.pc = "stopped?", !.receipt = d]
                u == [daemon[d] EXCEPT !.pc = "stopping", !.stoppedBy = by, !.bounded = FALSE]
    <3>1. /\ daemon' = beginStop(d, by, FALSE) /\ UNCHANGED runtimeDir
          /\ dclient' = [dclient EXCEPT ![c] = q]
      BY <1>10, <2>3 DEF RequestStop
    <3>2. /\ q \in DaemonCallers /\ q.pc = "stopped?" /\ q.receipt = d /\ q.result = k.result
      BY <1>0, <2>1 DEF DaemonCallers
    <3>3. nudged /\ daemon'[d].pc \in leaving
      <4>1. CASE daemon[d].pc # "serving"
        BY <1>0, <2>1, <2>3, <3>1, <4>1, UntouchedDaemons DEF beginStop, leaving
      <4>2. CASE daemon[d].pc = "serving"
        <5>1. daemon[d] \in Daemons /\ by \in {"replacement", "operator"}
          BY <1>0, <2>1, <2>3, DaemonFields
        <5>2. u \in Daemons /\ u.pc = "stopping" /\ u.open = daemon[d].open
          BY <5>1 DEF Daemons, Pcs
        <5>3. daemon' = [daemon EXCEPT ![d] = u]
          BY <3>1, <4>2 DEF beginStop
        <5>. HIDE DEF u, d
        <5>4. moves(d, "stopping", daemon[d].open)
          BY <1>0, <2>1, <2>3, <5>2, <5>3, Moves
        <5>. QED
          BY <2>1, <2>3, <4>2, <5>4 DEF moves, nudged, leaving
      <4>. QED
        BY <4>1, <4>2
    <3>. HIDE DEF q, d
    <3>4. callerMoves(c, q)
      BY <1>0, <3>1, <3>2, CallerMoves
    <3>5. paths(runtimeDir.lock, runtimeDir.socket, runtimeDir.session)
      BY <1>0, <3>1, SamePaths
    <3>6. permitted(c, q, runtimeDir.lock)
      BY <2>1, <3>2, <3>3 DEF permitted, DaemonInv, ReceiptsAreKept
    <3>. QED
      BY <3>3, <3>4, <3>5, <3>6, PermittedStep
  <2>. QED
    BY <2>2, <2>3
<1>11. CASE WaitStopped(c)
  <2>. DEFINE d == reached(runtimeDir)
  <2>1. k.pc = "stopped?" /\ UNCHANGED daemon /\ waitForStoppedInstance(c)
    BY <1>11 DEF WaitStopped
  <2>2. d # Nobody => runtimeDir.lock = d
    BY ReachedOwns
  <2>3. CASE d \notin {Nobody, k.receipt} /\ stopReturned(c, runtimeDir)
    BY <1>0, <2>1, <2>2, <2>3, StopReturnedStep
  <2>4. CASE canLock(runtimeDir, "lock") /\ to(c, "lock seen") /\ runtimeDir' = [runtimeDir EXCEPT !.lock = c]
    BY <1>4, <2>1, <2>4 DEF canLock
  <2>5. CASE returns(c, runtimeDir, "failed", Nobody)
    BY <1>0, <2>1, <2>5, ReturnStep DEF CallerResults
  <2>. QED
    BY <2>1, <2>3, <2>4, <2>5 DEF waitForStoppedInstance
<1>12. CASE LockSeenFree(c)
  <2>. DEFINE r == releaseLock(runtimeDir, "lock", c)
  <2>1. k.pc = "lock seen" /\ UNCHANGED daemon /\ stopReturned(c, r)
    BY <1>12 DEF LockSeenFree
  <2>2. /\ r \in Directories /\ r.lock = Nobody /\ runtimeDir.lock = c
        /\ r.socket = runtimeDir.socket /\ r.session = runtimeDir.session
    BY <1>6, <2>1
  <2>. HIDE DEF r
  <2>. QED
    BY <2>1, <2>2, StopReturnedStep
<1>13. CASE StopTimesOut(c)
  BY <1>0, <1>13, ReturnStep DEF StopTimesOut, CallerResults
<1>. QED
  BY <1>1, <1>2, <1>3, <1>5, <1>7, <1>8, <1>9, <1>10, <1>11, <1>12, <1>13 DEF ClientStep

-----------------------------------------------------------------------------
(* The theorems *)

(* The directory is removed under running daemons: the new one has no lock  *)
(* to hold and no path to answer.                                           *)
LEMMA RemovalStep ==
  ASSUME DaemonInv, RemoveRuntimeDir
  PROVE  DaemonInv'
<1>. USE ProcessAssumption DEF RemoveRuntimeDir, emptyDir
<1>1. DaemonTypeOK'
  BY DEF DaemonInv, DaemonTypeOK, Directories, Holders
<1>2. LockIsHeld'
  BY DEF DaemonInv, LockIsHeld, starting
<1>3. SocketsAreOwned'
  BY DEF DaemonInv, SocketsAreOwned
<1>4. ReceiptsAreKept'
  BY DEF DaemonInv, ReceiptsAreKept, confirmed
<1>. QED
  BY <1>1, <1>2, <1>3, <1>4 DEF DaemonInv

LEMMA DaemonInvInit ==
  DaemonInit => DaemonInv
<1>. SUFFICES ASSUME DaemonInit PROVE DaemonInv
  OBVIOUS
<1>1. (CHOOSE b \in DaemonBuilds : TRUE) \in DaemonBuilds /\ (CHOOSE h \in LimaHomes : TRUE) \in LimaHomes
  BY ProcessAssumption
<1>2. DaemonTypeOK
  BY <1>1
     DEF DaemonInit, DaemonTypeOK, emptyDir, Directories, Holders, Daemons, Pcs,
     DaemonCallers
<1>3. LockIsHeld /\ SocketsAreOwned
  BY ProcessAssumption DEF DaemonInit, emptyDir, LockIsHeld, SocketsAreOwned, starting,
     owning
<1>4. ReceiptsAreKept
  BY DEF DaemonInit, ReceiptsAreKept, confirmed
<1>. QED
  BY <1>2, <1>3, <1>4 DEF DaemonInv

LEMMA DaemonInvNext ==
  DaemonInv /\ [DaemonNext]_daemonVars => DaemonInv'
<1>. SUFFICES ASSUME DaemonInv, [DaemonNext]_daemonVars PROVE DaemonInv'
  OBVIOUS
<1>1. CASE UNCHANGED daemonVars
  BY <1>1 DEF daemonVars, DaemonInv, DaemonTypeOK, LockIsHeld, SocketsAreOwned,
     ReceiptsAreKept,
              starting, confirmed
<1>. QED
  BY <1>1, DaemonInvStep, ClientInvStep, RemovalStep DEF DaemonNext

(* For any number of processes and faults, a daemon that serves under the   *)
(* instance lock is the one both socket paths name: a second start, a late  *)
(* shutdown of an older process or a client never unlinks or takes over the *)
(* sockets of the owner (listenSocket, removeOwnedDaemonSocket).            *)
THEOREM OwnerReached == DaemonSpec => []OwnerIsReachable
<1>1. DaemonInv => OwnerIsReachable
  BY DEF DaemonInv, SocketsAreOwned, OwnerIsReachable, servingDaemons, listening,
     attachable
<1>. QED
  BY <1>1, DaemonInvInit, DaemonInvNext, PTL DEF DaemonSpec

(* For any number of processes and faults, StopRunning returns only after   *)
(* the instance its receipt names has given up the lock and stopped         *)
(* answering (waitForStoppedInstance).                                      *)
THEOREM StopProved == DaemonSpec => []StopIsProved
<1>1. DaemonInv => StopIsProved
  <2>. SUFFICES ASSUME DaemonInv, NEW c \in DaemonClients, dclient[c].receipt # Nobody,
                       \/ dclient[c].result = "stopped"
                       \/ dclient[c].pc \in {"autostart", "inspect", "spawn"}
                PROVE  /\ runtimeDir.lock # dclient[c].receipt
                       /\ ~(answers(runtimeDir, "socket") /\ runtimeDir.socket = dclient[c].receipt)
    BY DEF StopIsProved
  <2>1. dclient[c].receipt \in DaemonIds
    BY DEF DaemonInv, DaemonTypeOK, DaemonCallers
  <2>2. runtimeDir.lock # dclient[c].receipt
    BY DEF DaemonInv, ReceiptsAreKept, confirmed
  <2>. QED
    BY <2>1, <2>2 DEF answers, DaemonInv, SocketsAreOwned
<1>. QED
  BY <1>1, DaemonInvInit, DaemonInvNext, PTL DEF DaemonSpec

===============================================================================

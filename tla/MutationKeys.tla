---------------------------- MODULE MutationKeys ----------------------------
(***************************************************************************)
(* The mutation keys of the daemon (internal/lifecycle/mutation.go):       *)
(* Manager operations, attaches, stops and reconciliations claim the       *)
(* environment and profile keys they are about to change.  mutationClaims  *)
(* is one map for all keys, filled and emptied claim by claim; a lease     *)
(* remembers the identities of its claims.  Keys are numbered in the order *)
(* in which they are sorted.                                               *)
(***************************************************************************)
EXTENDS Naturals, FiniteSets

CONSTANTS Clients,    \* callers of AcquireMutation
          Keys,       \* mutation keys, in sorted order
          Kinds,      \* owner kinds
          MaxClaims   \* bound: claims ever made

ASSUME MutationKeysAssumption ==
  /\ Keys \subseteq Nat /\ IsFiniteSet(Keys)
  /\ "attach" \in Kinds /\ "none" \notin Kinds
  /\ MaxClaims \in Nat

VARIABLES mutationClaims,    \* claims of all keys
          mutationSequence,
          leases,            \* the claims of the lease a client holds
          kind,              \* the owner kind the client asked for
          closing            \* the coordinator is being closed

vars == <<mutationClaims, mutationSequence, leases, kind, closing>>

Claim == [id : Nat, key : Keys, owner : Kinds]

Init ==
  /\ mutationClaims = {}
  /\ mutationSequence = 0
  /\ leases = [c \in Clients |-> {}]
  /\ kind = [c \in Clients |-> "none"]
  /\ closing = FALSE

compatibleMutationOwners(requested, blocking) ==
  requested = "attach" /\ blocking = "attach"

\* A mutant of blockers: only the first key is tested.
blockersOfFirst(ks, k) ==
  {m \in mutationClaims : /\ m.key \in ks /\ \A j \in ks : m.key <= j
                          /\ ~compatibleMutationOwners(k, m.owner)}

\* The claims that make claimMutationKeysLocked answer a conflict.
blockers(ks, k) ==
  {m \in mutationClaims : m.key \in ks /\ ~compatibleMutationOwners(k, m.owner)}

\* A mutant of claimed: the sequence counts requests.
claimedTogether(ks, k) ==
  {[id |-> mutationSequence + 1, key |-> key, owner |-> k] : key \in ks}

\* One claim per key, numbered in the order of the keys.
claimed(ks, k) ==
  {[id |-> mutationSequence + Cardinality({j \in ks : j <= key}), key |-> key, owner |-> k]
     : key \in ks}

\* A request for at least one key.  A conflict changes nothing.
AcquireMutation(c) ==
  /\ leases[c] = {} /\ ~closing
  /\ \E ks \in (SUBSET Keys) \ {{}}, k \in Kinds :
       /\ blockers(ks, k) = {}
       /\ mutationSequence + Cardinality(ks) <= MaxClaims
       /\ mutationClaims' = mutationClaims \cup claimed(ks, k)
       /\ leases' = [leases EXCEPT ![c] = claimed(ks, k)]
       /\ kind' = [kind EXCEPT ![c] = k]
       /\ mutationSequence' = mutationSequence + Cardinality(ks)
  /\ UNCHANGED closing

\* A mutant of unclaimed: every claim of the owner's kind goes.
unclaimedByOwner(c) ==
  {m \in mutationClaims : \A l \in leases[c] : l.key # m.key \/ l.owner # m.owner}

\* releaseLocked deletes by claim identity.
unclaimed(c) ==
  {m \in mutationClaims : \A l \in leases[c] : l.key # m.key \/ l.id # m.id}

\* A mutant of Release: the keys of a lease are given up one at a time.
ReleaseOneKey(c) ==
  \E l \in leases[c] :
    /\ mutationClaims' = mutationClaims \ {l}
    /\ leases' = [leases EXCEPT ![c] = @ \ {l}]
    /\ kind' = IF leases[c] = {l} THEN [kind EXCEPT ![c] = "none"] ELSE kind
    /\ UNCHANGED <<mutationSequence, closing>>

\* Release of a lease, once.
Release(c) ==
  /\ leases[c] # {}
  /\ mutationClaims' = unclaimed(c)
  /\ leases' = [leases EXCEPT ![c] = {}]
  /\ kind' = [kind EXCEPT ![c] = "none"]
  /\ UNCHANGED <<mutationSequence, closing>>

\* Close of the coordinator: nothing is claimed any more.
Close ==
  /\ ~closing /\ closing' = TRUE
  /\ UNCHANGED <<mutationClaims, mutationSequence, leases, kind>>

Next == Close \/ \E c \in Clients : AcquireMutation(c) \/ Release(c)

Spec == Init /\ [][Next]_vars

(***************************************************************************)
(* Properties.                                                             *)
(***************************************************************************)
TypeOK ==
  /\ mutationClaims \subseteq Claim
  /\ mutationSequence \in Nat
  /\ leases \in [Clients -> SUBSET Claim]
  /\ kind \in [Clients -> Kinds \cup {"none"}]
  /\ closing \in BOOLEAN

\* The map holds the claims of the leases and nothing else: no release
\* takes a claim of another lease away, and none leaves a claim behind that
\* would block its key until the daemon restarts (releaseLocked).
ClaimsAreLeased == mutationClaims = UNION {leases[c] : c \in Clients}

\* Identities tell claims apart, so that two attaches that share a key
\* release their own claim.
IdsAreUnique ==
  /\ \A m \in mutationClaims : m.id <= mutationSequence
  /\ \A m, n \in mutationClaims : m.id = n.id => m = n

\* All of a request's keys are held for the kind that was asked for, a lease
\* is not empty, and no two leases have a claim in common.
LeasesMatch ==
  \A c \in Clients :
    /\ leases[c] = {} <=> kind[c] = "none"
    /\ \A l \in leases[c] : l.owner = kind[c]
    /\ \A d \in Clients \ {c} : leases[c] \cap leases[d] = {}

\* The table is consistent claim by claim.
IInv == TypeOK /\ ClaimsAreLeased /\ IdsAreUnique /\ LeasesMatch

\* The claims are the lock table of MutationLocks: requests take all their
\* keys in one step or none, and only attaches share.
Locks == INSTANCE MutationLocks WITH
  holds <- [c \in Clients |-> {l.key : l \in leases[c]}]
LocksSpec == Locks!Spec

\* A key that somebody holds exclusively has one holder.
Exclusive == Locks!Exclusive

====

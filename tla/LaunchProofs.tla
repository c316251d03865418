---------------------------- MODULE LaunchProofs ----------------------------
(***************************************************************************)
(* What a run acquires and gives back.  Registry, for any number of        *)
(* sessions, shared providers, facts and failing writes, and for every     *)
(* release order that satisfies ReleaseOrderAssumption; and RunLaunch, for *)
(* any number of runs, faults, cancellations, crashes and `runtime verify` *)
(* commands.                                                               *)
(***************************************************************************)
EXTENDS Registry, RunLaunch, FiniteSetTheorems, TLAPS

(* The default prover; SMT where a leaf needs arithmetic or cases.  The    *)
(* limits are wall-clock seconds, wide enough for a busy machine.          *)
USE ZenonT(60)

(***************************************************************************)
(* The registry.                                                           *)
(***************************************************************************)
Kept == {"committed", "closing"}
Usable == {"planned", "starting", "active"}

UseTypes ==
  /\ rows \in [Refs -> Live \cup {"none"}]
  /\ users \in [Refs -> SUBSET Handles]
  /\ order \in [Handles -> Seq(Refs)]
  /\ pending \in [Handles -> Seq(Refs)]
  /\ handle \in [Handles -> Handle]

JournalTypes ==
  /\ facts \in Seq(Nat) /\ acked \in Nat
  /\ disk \in [rows : [Refs -> Live \cup {"none"}], facts : Seq(Nat)]

\* A row is used exactly while it is no orphan, by handles that are attached
\* and have it in their order (addOrJoinResource, removeResourceUser).
UsesAreListed ==
  /\ \A r \in Refs : users[r] # {} <=> rows[r] \in Usable
  /\ \A r \in Refs : \A h \in users[r] : attached(h) /\ r \in Range(order[h])
  /\ \A h \in Handles : order[h] \in Registrations(h)

\* Who uses a row uses what it depends on, and an open handle its session.
UsesAreClosed ==
  /\ \A h \in Handles : open(h) => h \in users[Session(h)]
  /\ \A r \in Refs : \A h \in users[r] : \A d \in Dependencies(r) : h \in users[d]

\* The snapshot of Finish still has everything that a closing handle uses,
\* dependents first (beginFinishRegistration).
SnapshotCovers ==
  \A h \in Handles :
    /\ handle[h] # "closing" => pending[h] = <<>>
    /\ DependentsFirst(pending[h])
    /\ \A r \in Refs : handle[h] = "closing" /\ h \in users[r] => r \in Range(pending[h])

\* The journal has a row for every effect and for everything that a
\* committed or closing handle uses (Commit, register).
JournalCovers ==
  /\ EffectsAreJournaled
  /\ \A r \in Refs : \A h \in users[r] : handle[h] \in Kept => disk.rows[r] # "none"

\* The last acknowledged fact is the last one in memory, and in the file.
FactsCover ==
  acked > 0 => /\ facts # <<>> /\ facts[Len(facts)] = acked
               /\ acked \in Range(disk.facts)

Uses == UseTypes /\ UsesAreListed /\ UsesAreClosed /\ SnapshotCovers
RegistryInv == Uses /\ JournalTypes /\ JournalCovers /\ FactsCover

-----------------------------------------------------------------------------
(* References and registration orders *)

LEMMA RefFacts ==
  ASSUME NEW h \in Handles
  PROVE  /\ Session(h) \in Refs /\ View(h) \in Refs /\ Grant(h) \in Refs
         /\ ResourcesOf(h) \subseteq Refs /\ Providers \subseteq Refs
         /\ Dependencies(Session(h)) = {} /\ Dependencies(Grant(h)) = {Session(h)}
         /\ Dependencies(View(h)) = {Session(h)} \cup Providers
         /\ \A r \in Providers : Dependencies(r) = {} /\ r # Session(h) /\ r # View(h)
         /\ View(h) # Session(h) /\ Grant(h) # Session(h)
<1>1. Providers \subseteq Refs /\ Session(h) \in Refs /\ View(h) \in Refs /\ Grant(h) \in Refs
  BY DEF Refs
<1>2. ResourcesOf(h) \subseteq Refs
  BY <1>1 DEF ResourcesOf
<1>3. /\ Dependencies(Session(h)) = {} /\ Dependencies(Grant(h)) = {Session(h)}
      /\ Dependencies(View(h)) = {Session(h)} \cup Providers
  BY DEF Dependencies, Session, View, Grant
<1>4. \A r \in Providers : Dependencies(r) = {} /\ r # Session(h) /\ r # View(h)
  BY SMTT(60) DEF Providers, Provider, Dependencies, Session, View
<1>5. View(h) # Session(h) /\ Grant(h) # Session(h)
  BY DEF Session, View, Grant
<1> QED BY <1>1, <1>2, <1>3, <1>4, <1>5

LEMMA RefCases ==
  ASSUME NEW r \in Refs
  PROVE  r \in Providers \/ \E h \in Handles : r \in {Session(h), View(h), Grant(h)}
BY DEF Refs

LEMMA DependencyRefs ==
  ASSUME NEW r \in Refs
  PROVE  Dependencies(r) \subseteq Refs
<1>1. CASE r \in Providers
  BY SMTT(60), <1>1 DEF Providers, Provider, Dependencies
<1>2. ASSUME NEW h \in Handles, r \in {Session(h), View(h), Grant(h)}
      PROVE  Dependencies(r) \subseteq Refs
  BY <1>2, RefFacts
<1> QED BY <1>1, <1>2, RefCases

\* Nothing depends on a view or a grant, and only a view depends on a
\* provider.
LEMMA Dependents ==
  ASSUME NEW r \in Refs, NEW h \in Handles
  PROVE  /\ View(h) \notin Dependencies(r) /\ Grant(h) \notin Dependencies(r)
         /\ \A p \in Providers : p \in Dependencies(r) => \E g \in Handles : r = View(g)
<1>1. CASE r \in Providers
  BY SMTT(60), <1>1 DEF Providers, Provider, Dependencies
<1>2. ASSUME NEW g \in Handles, r \in {Session(g), View(g), Grant(g)}
      PROVE  /\ View(h) \notin Dependencies(r) /\ Grant(h) \notin Dependencies(r)
             /\ \A p \in Providers : p \in Dependencies(r) => r = View(g)
  BY SMTT(60), <1>2 DEF Providers, Provider, Dependencies, Session, View, Grant
<1> QED BY <1>1, <1>2, RefCases

LEMMA OwnView ==
  ASSUME NEW h \in Handles, NEW g \in Handles, View(g) \in ResourcesOf(h)
  PROVE  g = h
BY DEF ResourcesOf, Providers, Session, View, Grant, Provider

LEMMA FiniteResources ==
  ASSUME NEW h \in Handles
  PROVE  /\ IsFiniteSet(ResourcesOf(h))
         /\ Cardinality(ResourcesOf(h)) \in Nat
<1>1. IsFiniteSet(Shared)
  BY RegistryAssumption
<1>2. IsFiniteSet(Providers)
  <2>. DEFINE f == [p \in Shared |-> Provider(p)]
  <2>1. f \in Surjection(Shared, Providers)
    BY DEF Providers, Provider, Surjection
  <2> QED BY <1>1, <2>1, FS_Surjection
<1>3. IsFiniteSet({Session(h), View(h), Grant(h)})
  <2>1. IsFiniteSet({})
    BY FS_EmptySet
  <2>2. IsFiniteSet({} \cup {Session(h)})
    BY <2>1, FS_AddElement
  <2>3. IsFiniteSet(({} \cup {Session(h)}) \cup {View(h)})
    BY <2>2, FS_AddElement
  <2>4. IsFiniteSet((({} \cup {Session(h)}) \cup {View(h)}) \cup {Grant(h)})
    BY <2>3, FS_AddElement
  <2>5. (({} \cup {Session(h)}) \cup {View(h)}) \cup {Grant(h)}
          = {Session(h), View(h), Grant(h)}
    OBVIOUS
  <2> QED BY <2>4, <2>5
<1>4. IsFiniteSet(ResourcesOf(h))
  BY <1>2, <1>3, FS_Union DEF ResourcesOf
<1> QED BY <1>4, FS_CardinalityType

LEMMA RegistrationFacts ==
  ASSUME NEW h \in Handles, NEW q \in Registrations(h)
  PROVE  /\ q \in Seq(ResourcesOf(h)) /\ Len(q) \in Nat /\ DOMAIN q = 1..Len(q)
         /\ Range(q) \subseteq ResourcesOf(h) /\ Range(q) \subseteq Refs
         /\ \A i, j \in 1..Len(q) : q[i] = q[j] => i = j
<1>1. PICK n \in 0..Cardinality(ResourcesOf(h)) : q \in Injection(1..n, ResourcesOf(h))
  BY DEF Registrations
<1>2. n \in Nat
  BY SMTT(60), <1>1, FiniteResources
<1>3. q \in [1..n -> ResourcesOf(h)] /\ \A i, j \in 1..n : q[i] = q[j] => i = j
  BY <1>1 DEF Injection, IsInjective
<1>4. q \in Seq(ResourcesOf(h)) /\ Len(q) = n /\ DOMAIN q = 1..n
  BY SMTT(60), <1>2, <1>3
<1>5. Range(q) \subseteq ResourcesOf(h)
  BY SMTT(60), <1>3, <1>4 DEF Range
<1> QED BY <1>2, <1>3, <1>4, <1>5, RefFacts

\* An injective sequence of a handle's resources is short enough.
LEMMA InjectiveRegistration ==
  ASSUME NEW h \in Handles, NEW q \in Seq(ResourcesOf(h)),
         \A i, j \in 1..Len(q) : q[i] = q[j] => i = j
  PROVE  q \in Registrations(h)
<1>1. Len(q) \in Nat /\ q \in [1..Len(q) -> ResourcesOf(h)]
  BY SMTT(60)
<1>2. q \in Injection(1..Len(q), ResourcesOf(h))
  BY <1>1 DEF Injection, IsInjective
<1>3. Cardinality(1..Len(q)) <= Cardinality(ResourcesOf(h))
  BY <1>2, FiniteResources, FS_Injection
<1>4. Cardinality(1..Len(q)) = Len(q)
  BY SMTT(60), <1>1, FS_Interval
<1>5. Len(q) \in 0..Cardinality(ResourcesOf(h))
  BY SMTT(60), <1>1, <1>3, <1>4, FiniteResources
<1> QED BY <1>2, <1>5 DEF Registrations

LEMMA EmptyRegistration ==
  ASSUME NEW h \in Handles
  PROVE  <<>> \in Registrations(h)
<1>1. <<>> \in Seq(ResourcesOf(h)) /\ \A i, j \in 1..Len(<<>>) : <<>>[i] = <<>>[j] => i = j
  BY SMTT(60)
<1> QED BY <1>1, InjectiveRegistration

LEMMA AppendRegistration ==
  ASSUME NEW h \in Handles, NEW q \in Registrations(h), NEW r \in ResourcesOf(h),
         r \notin Range(q)
  PROVE  /\ Append(q, r) \in Registrations(h)
         /\ Range(Append(q, r)) = Range(q) \cup {r}
<1>1. /\ q \in Seq(ResourcesOf(h)) /\ Len(q) \in Nat
      /\ \A i, j \in 1..Len(q) : q[i] = q[j] => i = j
      /\ \A i \in 1..Len(q) : q[i] # r
  BY RegistrationFacts DEF Range
<1>. DEFINE a == Append(q, r)
<1>2. /\ a \in Seq(ResourcesOf(h)) /\ Len(a) = Len(q) + 1 /\ a[Len(q) + 1] = r
      /\ \A i \in 1..Len(q) : a[i] = q[i]
  BY SMTT(60), <1>1
<1> HIDE DEF a
<1>3. Range(a) = Range(q) \cup {r}
  <2>1. DOMAIN a = 1..(Len(q) + 1) /\ DOMAIN q = 1..Len(q)
    BY SMTT(60), <1>1, <1>2
  <2> QED BY SMTT(60), <1>1, <1>2, <2>1 DEF Range
<1>4. \A i, j \in 1..Len(a) : a[i] = a[j] => i = j
  BY SMTT(60), <1>1, <1>2
<1> QED BY <1>2, <1>3, <1>4, InjectiveRegistration DEF a

LEMMA TailFacts ==
  ASSUME NEW q \in Seq(Refs), q # <<>>, DependentsFirst(q)
  PROVE  /\ Tail(q) \in Seq(Refs) /\ DependentsFirst(Tail(q)) /\ Head(q) \in Refs
         /\ \A r \in Range(q) : r = Head(q) \/ r \in Range(Tail(q))
         /\ \A r \in Range(q) : r # Head(q) => Head(q) \notin Dependencies(r)
<1>1. /\ Len(q) \in Nat /\ Len(q) > 0 /\ DOMAIN q = 1..Len(q) /\ Head(q) = q[1]
      /\ Tail(q) \in Seq(Refs) /\ Len(Tail(q)) = Len(q) - 1
      /\ \A i \in 1..(Len(q) - 1) : Tail(q)[i] = q[i + 1]
  BY SMTT(60)
<1>2. DOMAIN Tail(q) = 1..(Len(q) - 1)
  BY SMTT(60), <1>1
<1>3. DependentsFirst(Tail(q))
  BY SMTT(60), <1>1 DEF DependentsFirst
<1>4. ASSUME NEW r \in Range(q)
      PROVE  /\ r = Head(q) \/ r \in Range(Tail(q))
             /\ r # Head(q) => Head(q) \notin Dependencies(r)
  <2>1. PICK i \in 1..Len(q) : r = q[i]
    BY <1>1, <1>4 DEF Range
  <2>2. CASE i = 1
    BY <1>1, <2>1, <2>2
  <2>3. CASE i # 1
    <3>1. i - 1 \in 1..(Len(q) - 1) /\ Tail(q)[i - 1] = r
      BY SMTT(60), <1>1, <2>1, <2>3
    <3>2. Head(q) \notin Dependencies(r)
      BY SMTT(60), <1>1, <2>1, <2>3 DEF DependentsFirst
    <3> QED BY <1>2, <3>1, <3>2 DEF Range
  <2> QED BY <2>2, <2>3
<1> QED BY SMTT(60), <1>1, <1>3, <1>4

-----------------------------------------------------------------------------
(* Uses *)

LEMMA Added ==
  ASSUME Uses, NEW h \in Handles, NEW r \in ResourcesOf(h), NEW s \in Usable,
         addable(r, s), handle[h] # "closing",
         rows' = joined(r, s), users' = [users EXCEPT ![r] = @ \cup {h}],
         order' = ordered(h, r), pending' = pending,
         handle' \in [Handles -> Handle], handle'[h] \in {"attached", "committed"},
         \A g \in Handles \ {h} : handle'[g] = handle[g],
         \A d \in Dependencies(r) : h \in users[d],
         r = Session(h) \/ h \in users[Session(h)]
  PROVE  Uses'
<1>1. r \in Refs /\ r \notin Dependencies(r)
  <2>1. r \in Refs
    BY RefFacts
  <2>2. r \in Providers \/ r \in {Session(h), View(h), Grant(h)}
    BY DEF ResourcesOf
  <2>3. r \notin Dependencies(r)
    BY <2>1, <2>2, RefFacts
  <2> QED BY <2>1, <2>3
<1>2. rows[r] \in Usable \cup {"none"}
  BY <1>1 DEF addable, resourcesJoinCompatible, Usable, Uses, UseTypes
<1>3. /\ rows' \in [Refs -> Live \cup {"none"}] /\ rows'[r] \in Usable
      /\ \A x \in Refs \ {r} : rows'[x] = rows[x]
  BY <1>1, <1>2 DEF joined, Uses, UseTypes, Usable, Live
<1>4. /\ users' \in [Refs -> SUBSET Handles] /\ users'[r] = users[r] \cup {h}
      /\ \A x \in Refs \ {r} : users'[x] = users[x]
  BY <1>1 DEF Uses, UseTypes
<1>5. /\ order' \in [Handles -> Seq(Refs)] /\ order'[h] \in Registrations(h)
      /\ Range(order'[h]) = Range(order[h]) \cup {r}
      /\ \A g \in Handles \ {h} : order'[g] = order[g]
  <2>1. order \in [Handles -> Seq(Refs)] /\ order[h] \in Registrations(h)
    BY DEF Uses, UseTypes, UsesAreListed
  <2>2. CASE r \in Range(order[h])
    BY <2>1, <2>2 DEF ordered
  <2>3. CASE r \notin Range(order[h])
    <3>1. /\ Append(order[h], r) \in Registrations(h)
          /\ Range(Append(order[h], r)) = Range(order[h]) \cup {r}
      BY SMTT(60), <2>1, <2>3, AppendRegistration
    <3>2. Append(order[h], r) \in Seq(Refs)
      BY SMTT(60), <1>1, <2>1
    <3> QED BY <2>1, <2>3, <3>1, <3>2 DEF ordered
  <2> QED BY <2>2, <2>3
<1>6. UseTypes'
  BY <1>3, <1>4, <1>5 DEF Uses, UseTypes
<1>7. UsesAreListed'
  <2>1. \A x \in Refs : users'[x] # {} <=> rows'[x] \in Usable
    BY <1>1, <1>3, <1>4 DEF Uses, UsesAreListed
  <2>2. \A x \in Refs : \A g \in users'[x] : attached(g)' /\ x \in Range(order'[g])
    BY ZenonT(60), <1>1, <1>4, <1>5 DEF Uses, UseTypes, UsesAreListed, attached
  <2>3. \A g \in Handles : order'[g] \in Registrations(g)
    BY <1>5 DEF Uses, UsesAreListed
  <2> QED BY <2>1, <2>2, <2>3 DEF UsesAreListed
<1>8. UsesAreClosed'
  <2>1. \A g \in Handles : open(g)' => g \in users'[Session(g)]
    BY <1>1, <1>4, RefFacts DEF Uses, UsesAreClosed, open
  <2>2. ASSUME NEW x \in Refs, NEW g \in users'[x], NEW d \in Dependencies(x)
        PROVE  g \in users'[d]
    <3>1. d \in Refs
      BY <2>2, DependencyRefs
    <3>2. CASE x = r /\ g = h
      BY <1>4, <2>2, <3>1, <3>2
    <3>3. CASE g \in users[x]
      BY ZenonT(60), <1>4, <2>2, <3>1, <3>3 DEF Uses, UsesAreClosed
    <3> QED BY <1>4, <2>2, <3>2, <3>3
  <2> QED BY <2>1, <2>2 DEF UsesAreClosed
<1>9. SnapshotCovers'
  BY <1>1, <1>4 DEF Uses, SnapshotCovers
<1> QED BY <1>6, <1>7, <1>8, <1>9 DEF Uses

\* A handle stops using a row.
LEMMA Dropped ==
  ASSUME Uses, NEW h \in Handles, NEW r \in Refs, h \in users[r],
         users' = [users EXCEPT ![r] = @ \ {h}], order' = order, handle' = handle,
         users[r] # {h} => rows' = rows,
         users[r] = {h} => \E x \in {"orphaned", "none"} : rows' = [rows EXCEPT ![r] = x],
         \A x \in Refs : h \in users[x] => r \notin Dependencies(x),
         open(h) => r # Session(h),
         pending' \in [Handles -> Seq(Refs)],
         \A g \in Handles : /\ handle[g] # "closing" => pending'[g] = <<>>
                            /\ DependentsFirst(pending'[g])
                            /\ \A x \in Range(pending[g]) :
                                 x \in Range(pending'[g]) \/ (g = h /\ x = r)
  PROVE  Uses'
<1>1. /\ rows' \in [Refs -> Live \cup {"none"}]
      /\ users[r] # {h} => rows'[r] = rows[r]
      /\ users[r] = {h} => rows'[r] \in {"orphaned", "none"}
      /\ \A x \in Refs \ {r} : rows'[x] = rows[x]
  BY DEF Uses, UseTypes, Live
<1>2. /\ users' \in [Refs -> SUBSET Handles] /\ users'[r] = users[r] \ {h}
      /\ \A x \in Refs \ {r} : users'[x] = users[x]
  BY DEF Uses, UseTypes
<1>3. UseTypes'
  BY <1>1, <1>2 DEF Uses, UseTypes
<1>4. UsesAreListed'
  <2>1. \A x \in Refs : users'[x] # {} <=> rows'[x] \in Usable
    BY ZenonT(60), <1>1, <1>2 DEF Uses, UsesAreListed, Usable
  <2>2. \A x \in Refs : \A g \in users'[x] : attached(g)' /\ x \in Range(order'[g])
    BY <1>2 DEF Uses, UsesAreListed, attached
  <2> QED BY <2>1, <2>2 DEF Uses, UsesAreListed
<1>5. UsesAreClosed'
  <2>1. \A g \in Handles : open(g)' => g \in users'[Session(g)]
    BY <1>2, RefFacts DEF Uses, UsesAreClosed, open
  <2>2. ASSUME NEW x \in Refs, NEW g \in users'[x], NEW d \in Dependencies(x)
        PROVE  g \in users'[d]
    <3>1. d \in Refs /\ g \in users[x] /\ g \in users[d]
      BY <1>2, <2>2, DependencyRefs DEF Uses, UsesAreClosed
    <3>2. ~(d = r /\ g = h)
      BY <2>2, <3>1
    <3> QED BY <1>2, <3>1, <3>2
  <2> QED BY <2>1, <2>2 DEF UsesAreClosed
<1>6. SnapshotCovers'
  BY <1>2 DEF Uses, SnapshotCovers
<1> QED BY <1>3, <1>4, <1>5, <1>6 DEF Uses

LEMMA UsesKept ==
  ASSUME Uses, UNCHANGED <<rows, users, order, pending, handle>>
  PROVE  Uses'
BY DEF Uses, UseTypes, UsesAreListed, UsesAreClosed, SnapshotCovers, attached, open

\* What a handle uses is among its own resources.
LEMMA OwnUses ==
  ASSUME Uses, NEW h \in Handles, NEW r \in Refs, h \in users[r]
  PROVE  r \in ResourcesOf(h) /\ r \in Range(order[h]) /\ attached(h)
BY RegistrationFacts DEF Uses, UsesAreListed

LEMMA PromoteUses ==
  ASSUME Uses, NEW h \in Handles, Promote(h)
  PROVE  Uses'
<1>1. /\ handle' \in [Handles -> Handle] /\ handle'[h] = "attached" /\ handle[h] = "none"
      /\ \A g \in Handles \ {h} : handle'[g] = handle[g]
  BY DEF Promote, Uses, UseTypes, Handle
<1>2. /\ Session(h) \in ResourcesOf(h) /\ Dependencies(Session(h)) = {}
      /\ "planned" \in Usable
  BY RefFacts DEF ResourcesOf, Usable
<1>3. /\ addable(Session(h), "planned") /\ rows' = joined(Session(h), "planned")
      /\ users' = [users EXCEPT ![Session(h)] = @ \cup {h}]
      /\ order' = ordered(h, Session(h)) /\ pending' = pending
  BY DEF Promote
<1> QED BY <1>1, <1>2, <1>3, Added

\* A registration adds the row and its user, or leaves everything as it was.
LEMMA RegisterUses ==
  ASSUME Uses, NEW h \in Handles, NEW r \in ResourcesOf(h), NEW s \in Usable,
         register(h, r, s), \A d \in Dependencies(r) : h \in users[d]
  PROVE  /\ Uses'
         /\ \/ /\ rows' = joined(r, s) /\ users' = [users EXCEPT ![r] = @ \cup {h}]
            \/ UNCHANGED <<rows, users>>
<1>1. /\ open(h) /\ r \notin Range(order[h]) /\ addable(r, s) /\ r \in Refs
      /\ UNCHANGED <<handle, pending>>
  BY RefFacts DEF register
<1>2. h \notin users[r] /\ handle[h] \in {"attached", "committed"}
  BY <1>1 DEF Uses, UsesAreListed, open
<1>3. CASE /\ rows' = joined(r, s) /\ users' = [users EXCEPT ![r] = @ \cup {h}]
           /\ order' = ordered(h, r)
  <2>1. h \in users[Session(h)] /\ handle \in [Handles -> Handle]
    BY <1>1 DEF Uses, UsesAreClosed, UseTypes
  <2> QED BY <1>1, <1>2, <1>3, <2>1, Added
<1>4. ASSUME NEW us, us = [users EXCEPT ![r] = @ \cup {h}],
             rows' = removedRow(joined(r, s), us, h, r),
             users' = removedUser(us, h, r), order' = order
      PROVE  Uses' /\ UNCHANGED <<rows, users>>
  <2>1. users \in [Refs -> SUBSET Handles] /\ rows \in [Refs -> Live \cup {"none"}]
    BY DEF Uses, UseTypes
  <2>2. us[r] \ {h} = users[r] /\ users' = users
    BY <1>1, <1>2, <1>4, <2>1 DEF removedUser
  <2>3. rows' = rows
    <3>1. CASE rows[r] = "none"
      BY <1>1, <1>4, <2>1, <2>2, <3>1 DEF removedRow, joined, Uses, UsesAreListed, Usable
    <3>2. CASE rows[r] # "none"
      BY <1>1, <1>4, <2>1, <2>2, <3>2
      DEF removedRow, joined, addable, resourcesJoinCompatible, Uses, UsesAreListed, Usable
    <3> QED BY <3>1, <3>2
  <2> QED BY <1>1, <1>4, <2>2, <2>3, UsesKept
<1> QED BY <1>3, <1>4 DEF register

LEMMA CommitUses ==
  ASSUME Uses, NEW h \in Handles, Commit(h)
  PROVE  Uses'
<1>1. /\ UNCHANGED <<rows, users, order, pending>> /\ handle[h] = "attached"
      /\ handle' = handle \/ handle' = [handle EXCEPT ![h] = "committed"]
  BY DEF Commit
<1>2. CASE handle' = handle
  BY <1>1, <1>2, UsesKept
<1>3. CASE handle' = [handle EXCEPT ![h] = "committed"]
  <2>1. /\ handle' \in [Handles -> Handle] /\ handle'[h] = "committed"
        /\ \A g \in Handles \ {h} : handle'[g] = handle[g]
    BY <1>3 DEF Uses, UseTypes, Handle
  <2>2. UseTypes'
    BY <1>1, <2>1 DEF Uses, UseTypes
  <2>3. UsesAreListed'
    BY <1>1, <2>1 DEF Uses, UseTypes, UsesAreListed, attached
  <2>4. UsesAreClosed'
    BY <1>1, <2>1 DEF Uses, UsesAreClosed, open
  <2>5. SnapshotCovers'
    BY <1>1, <2>1 DEF Uses, SnapshotCovers
  <2> QED BY <2>2, <2>3, <2>4, <2>5 DEF Uses
<1> QED BY <1>1, <1>2, <1>3

LEMMA TransitionUses ==
  ASSUME Uses, NEW h \in Handles, NEW r \in Refs, NEW to \in {"starting", "active"},
         Transition(h, r, to)
  PROVE  Uses'
<1>1. /\ UNCHANGED <<users, order, pending, handle>> /\ h \in users[r]
      /\ rows' = [rows EXCEPT ![r] = to]
  BY DEF Transition
<1>2. /\ rows' \in [Refs -> Live \cup {"none"}] /\ rows'[r] = to
      /\ \A x \in Refs \ {r} : rows'[x] = rows[x]
  BY <1>1 DEF Uses, UseTypes, Live
<1>3. UsesAreListed'
  BY <1>1, <1>2 DEF Uses, UsesAreListed, Usable, attached
<1>4. UseTypes' /\ UsesAreClosed' /\ SnapshotCovers'
  BY <1>1, <1>2 DEF Uses, UseTypes, UsesAreClosed, SnapshotCovers, open
<1> QED BY <1>3, <1>4 DEF Uses

\* What a call of release leaves of the rows.
LEMMA ReleaseEffect ==
  ASSUME Uses, NEW h \in Handles, NEW r \in Refs, NEW err, NEW failed,
         release(h, r, err, failed)
  PROVE  \/ h \notin users[r] /\ UNCHANGED <<rows, users, disk>>
         \/ /\ h \in users[r] /\ users' = [users EXCEPT ![r] = @ \ {h}]
            /\ users[r] # {h} => rows' = rows
            /\ users[r] = {h} =>
                 \E x \in {"orphaned", "none"} : rows' = [rows EXCEPT ![r] = x]
<1>1. h \in users[r] => rows[r] # "none"
  BY DEF Uses, UsesAreListed, Usable
<1>2. CASE ~releasable(h, r)
  BY <1>1, <1>2 DEF release, releasable
<1>3. CASE releasable(h, r)
  <2>1. /\ h \in users[r] /\ users' = [users EXCEPT ![r] = @ \ {h}]
        /\ rows' = releasedRow(h, r, err)
    BY <1>3 DEF release, releasable
  <2>2. users[r] \ {h} # {} <=> users[r] # {h}
    BY <2>1
  <2> QED BY <2>1, <2>2 DEF releasedRow
<1> QED BY <1>2, <1>3

LEMMA ReleaseUses ==
  ASSUME Uses, NEW h \in Handles, NEW r \in Refs, NEW err, NEW failed,
         release(h, r, err, failed), UNCHANGED <<order, handle, pending>>,
         \A x \in Refs : h \in users[x] => r \notin Dependencies(x),
         r # Session(h)
  PROVE  Uses'
<1>1. CASE h \notin users[r]
  BY <1>1, ReleaseEffect, UsesKept
<1>2. CASE h \in users[r]
  <2>1. /\ pending' \in [Handles -> Seq(Refs)]
        /\ \A g \in Handles : /\ handle[g] # "closing" => pending'[g] = <<>>
                              /\ DependentsFirst(pending'[g])
                              /\ Range(pending'[g]) = Range(pending[g])
    BY DEF Uses, UseTypes, SnapshotCovers
  <2>2. /\ users' = [users EXCEPT ![r] = @ \ {h}]
        /\ users[r] # {h} => rows' = rows
        /\ users[r] = {h} =>
             \E x \in {"orphaned", "none"} : rows' = [rows EXCEPT ![r] = x]
    BY <1>2, ReleaseEffect
  <2> QED BY <1>2, <2>1, <2>2, Dropped
<1> QED BY <1>1, <1>2

LEMMA RunReleaseUses ==
  ASSUME Uses, NEW h \in Handles, Release(h)
  PROVE  Uses'
<1>1. PICK r \in {View(h)} \cup Providers, err \in BOOLEAN, failed \in BOOLEAN :
        /\ r # View(h) => h \notin users[View(h)]
        /\ release(h, r, err, failed)
  BY DEF Release
<1>2. UNCHANGED <<order, handle, pending>> /\ r \in Refs /\ r # Session(h)
  BY <1>1, RefFacts DEF Release
<1>3. ASSUME NEW x \in Refs, h \in users[x] PROVE r \notin Dependencies(x)
  <2>1. CASE r = View(h)
    BY <1>3, <2>1, Dependents
  <2>2. CASE r # View(h)
    <3>1. SUFFICES ASSUME r \in Dependencies(x) PROVE FALSE
      OBVIOUS
    <3>2. PICK g \in Handles : x = View(g)
      BY <1>1, <1>3, <2>2, <3>1, Dependents
    <3>3. g = h
      BY <1>3, <3>2, OwnUses, OwnView
    <3> QED BY <1>1, <1>3, <2>2, <3>2, <3>3
  <2> QED BY <2>1, <2>2
<1> QED BY <1>1, <1>2, <1>3, ReleaseUses

LEMMA SessionReleaseUses ==
  ASSUME Uses, NEW h \in Handles, ReleaseSessionResource(h)
  PROVE  Uses'
<1>1. PICK err \in BOOLEAN, failed \in BOOLEAN : release(h, Grant(h), err, failed)
  BY DEF ReleaseSessionResource
<1>2. /\ UNCHANGED <<order, handle, pending>> /\ Grant(h) \in Refs /\ Grant(h) # Session(h)
      /\ \A x \in Refs : Grant(h) \notin Dependencies(x)
  BY RefFacts, Dependents DEF ReleaseSessionResource
<1> QED BY <1>1, <1>2, ReleaseUses

\* Finish seals the handle: nothing registers any more, and the snapshot has
\* all that the handle uses, dependents first.
LEMMA FinishUses ==
  ASSUME Uses, NEW h \in Handles, Finish(h)
  PROVE  Uses'
<1>. DEFINE owned == {r \in Range(order[h]) : h \in users[r]}
            known == present(rows) \cap ResourcesOf(h)
            q == ReleaseOrder(order[h], owned, known)
<1>1. /\ UNCHANGED <<rows, users, order>> /\ handle[h] = "committed"
      /\ handle' = [handle EXCEPT ![h] = "closing"]
      /\ pending' = [pending EXCEPT ![h] = q]
  BY DEF Finish, sealed
<1>2. order[h] \in Registrations(h) /\ Range(order[h]) \subseteq ResourcesOf(h)
      /\ Range(order[h]) \subseteq Refs
  BY RegistrationFacts DEF Uses, UsesAreListed
<1>3. owned \subseteq Refs /\ owned \in SUBSET Range(order[h])
      /\ known \in SUBSET ResourcesOf(h)
  BY <1>2
<1>4. owned \subseteq known
  BY ZenonT(60), <1>2, <1>3 DEF present, Uses, UseTypes, UsesAreListed, Usable
<1>5. q \in Seq(owned) /\ Range(q) = owned /\ DependentsFirst(q)
  <2> HIDE DEF owned, known
  <2> QED BY ZenonT(60), <1>2, <1>3, <1>4, ReleaseOrderAssumption
<1>6. \A r \in Refs : h \in users[r] => r \in owned
  BY DEF Uses, UsesAreListed
<1> HIDE DEF q, owned, known
<1>7. q \in Seq(Refs)
  BY SMTT(60), <1>3, <1>5
<1>8. /\ handle' \in [Handles -> Handle] /\ handle'[h] = "closing"
      /\ \A g \in Handles \ {h} : handle'[g] = handle[g]
  BY <1>1 DEF Uses, UseTypes, Handle
<1>9. /\ pending' \in [Handles -> Seq(Refs)] /\ pending'[h] = q
      /\ \A g \in Handles \ {h} : pending'[g] = pending[g]
  BY <1>1, <1>7 DEF Uses, UseTypes
<1>10. UseTypes'
  BY <1>1, <1>8, <1>9 DEF Uses, UseTypes
<1>11. UsesAreListed'
  BY <1>1, <1>8 DEF Uses, UseTypes, UsesAreListed, attached
<1>12. UsesAreClosed'
  BY <1>1, <1>8 DEF Uses, UsesAreClosed, open
<1>13. SnapshotCovers'
  BY <1>1, <1>5, <1>6, <1>8, <1>9 DEF Uses, SnapshotCovers
<1> QED BY <1>10, <1>11, <1>12, <1>13 DEF Uses

LEMMA FinishReleaseUses ==
  ASSUME Uses, NEW h \in Handles, FinishRelease(h)
  PROVE  Uses'
<1>. DEFINE r == Head(pending[h])
<1>1. PICK failed \in BOOLEAN : release(h, r, unproved[h], failed)
  BY DEF FinishRelease
<1>2. /\ UNCHANGED <<order, handle>> /\ pending[h] # <<>> /\ pending[h] \in Seq(Refs)
      /\ pending' = [pending EXCEPT ![h] = Tail(@)] /\ DependentsFirst(pending[h])
      /\ handle[h] = "closing"
  BY DEF FinishRelease, Uses, UseTypes, SnapshotCovers
<1>3. /\ Tail(pending[h]) \in Seq(Refs) /\ DependentsFirst(Tail(pending[h])) /\ r \in Refs
      /\ \A x \in Range(pending[h]) : x = r \/ x \in Range(Tail(pending[h]))
      /\ \A x \in Range(pending[h]) : x # r => r \notin Dependencies(x)
  BY <1>2, TailFacts
<1> HIDE DEF r
<1>4. /\ pending' \in [Handles -> Seq(Refs)] /\ pending'[h] = Tail(pending[h])
      /\ \A g \in Handles \ {h} : pending'[g] = pending[g]
  BY <1>2, <1>3 DEF Uses, UseTypes
<1>5. \A g \in Handles : /\ handle[g] # "closing" => pending'[g] = <<>>
                         /\ DependentsFirst(pending'[g])
                         /\ \A x \in Range(pending[g]) :
                              x \in Range(pending'[g]) \/ (g = h /\ x = r)
  BY <1>2, <1>3, <1>4 DEF Uses, SnapshotCovers
<1>6. CASE h \in users[r]
  <2>1. r \notin Dependencies(r)
    BY SMTT(60), <1>3, RefCases, RefFacts
  <2>2. \A x \in Refs : h \in users[x] => r \notin Dependencies(x)
    BY <1>2, <1>3, <2>1 DEF Uses, SnapshotCovers
  <2>3. /\ users' = [users EXCEPT ![r] = @ \ {h}]
        /\ users[r] # {h} => rows' = rows
        /\ users[r] = {h} =>
             \E x \in {"orphaned", "none"} : rows' = [rows EXCEPT ![r] = x]
    BY <1>1, <1>3, <1>6, ReleaseEffect
  <2>4. ~open(h)
    BY <1>2 DEF open
  <2> QED BY ZenonT(60), <1>2, <1>3, <1>4, <1>5, <1>6, <2>2, <2>3, <2>4, Dropped
<1>7. CASE h \notin users[r]
  <2>1. UNCHANGED <<rows, users>>
    BY <1>1, <1>3, <1>7, ReleaseEffect
  <2>2. UseTypes' /\ UsesAreListed' /\ UsesAreClosed'
    BY <1>2, <1>4, <2>1 DEF Uses, UseTypes, UsesAreListed, UsesAreClosed, attached, open
  <2>3. SnapshotCovers'
    BY <1>2, <1>5, <1>7, <2>1 DEF Uses, SnapshotCovers
  <2> QED BY <2>2, <2>3 DEF Uses
<1> QED BY <1>6, <1>7

\* A handle that uses nothing goes, by the end of Finish or by an abort.
LEMMA Gone ==
  ASSUME Uses, NEW h \in Handles, dropped(h), pending' = pending,
         pending[h] = <<>>,
         rows' \in [Refs -> Live \cup {"none"}], users' \in [Refs -> SUBSET Handles],
         \A r \in Refs : /\ users'[r] = users[r] \ {h}
                         /\ users[r] = {h} => rows'[r] \in {"none", "orphaned"}
                         /\ users[r] # {h} => rows'[r] = rows[r]
  PROVE  Uses'
<1>1. /\ handle' \in [Handles -> Handle] /\ handle'[h] = "gone"
      /\ \A g \in Handles \ {h} : handle'[g] = handle[g]
  BY DEF dropped, Uses, UseTypes, Handle
<1>2. /\ order' \in [Handles -> Seq(Refs)] /\ order'[h] = <<>>
      /\ \A g \in Handles \ {h} : order'[g] = order[g]
  BY DEF dropped, Uses, UseTypes
<1>3. UseTypes'
  BY <1>1, <1>2 DEF Uses, UseTypes
<1>4. UsesAreListed'
  <2>1. \A r \in Refs : users'[r] # {} <=> rows'[r] \in Usable
    BY SMTT(60) DEF Uses, UsesAreListed, Usable
  <2>2. \A r \in Refs : \A g \in users'[r] : attached(g)' /\ r \in Range(order'[g])
    BY ZenonT(60), <1>1, <1>2 DEF Uses, UseTypes, UsesAreListed, attached
  <2>3. \A g \in Handles : order'[g] \in Registrations(g)
    BY <1>2, EmptyRegistration DEF Uses, UsesAreListed
  <2> QED BY <2>1, <2>2, <2>3 DEF UsesAreListed
<1>5. UsesAreClosed'
  <2>1. \A g \in Handles : open(g)' => g \in users'[Session(g)]
    BY <1>1, RefFacts DEF Uses, UsesAreClosed, open
  <2>2. \A r \in Refs : \A g \in users'[r] : \A d \in Dependencies(r) : g \in users'[d]
    BY DependencyRefs DEF Uses, UsesAreClosed
  <2> QED BY <2>1, <2>2 DEF UsesAreClosed
<1>6. SnapshotCovers'
  BY <1>1 DEF Uses, SnapshotCovers
<1> QED BY <1>3, <1>4, <1>5, <1>6 DEF Uses

LEMMA FinishedUses ==
  ASSUME Uses, NEW h \in Handles, finishRegistration(h)
  PROVE  Uses'
<1>1. /\ handle[h] = "closing" /\ pending[h] = <<>> /\ dropped(h)
      /\ UNCHANGED <<rows, users, pending>>
  BY DEF finishRegistration
<1>2. Range(<<>>) = {}
  BY SMTT(60) DEF Range
<1>3. \A r \in Refs : h \notin users[r]
  BY <1>1, <1>2 DEF Uses, SnapshotCovers
<1>4. /\ rows' \in [Refs -> Live \cup {"none"}] /\ users' \in [Refs -> SUBSET Handles]
      /\ \A r \in Refs : users'[r] = users[r] \ {h} /\ users[r] # {h} /\ rows'[r] = rows[r]
  BY <1>1, <1>3 DEF Uses, UseTypes
<1> QED BY <1>1, <1>4, Gone

LEMMA AbortUses ==
  ASSUME Uses, NEW h \in Handles, abortRegistration(h)
  PROVE  Uses' /\ \A r \in Refs : rows'[r] \in {rows[r], "none"}
<1>. DEFINE mine == {r \in Range(order[h]) : h \in users[r]}
            rs == [r \in Refs |-> IF r \in mine /\ users[r] = {h} THEN "none" ELSE rows[r]]
            us == [r \in Refs |-> IF r \in mine THEN users[r] \ {h} ELSE users[r]]
<1>1. /\ handle[h] = "attached" /\ dropped(h) /\ pending' = pending
      /\ rows' = rs /\ users' = us
  BY DEF abortRegistration
<1>2. \A r \in Refs : r \in mine <=> h \in users[r]
  BY DEF Uses, UsesAreListed
<1> HIDE DEF mine
<1>3. /\ rs \in [Refs -> Live \cup {"none"}] /\ us \in [Refs -> SUBSET Handles]
      /\ \A r \in Refs : /\ us[r] = users[r] \ {h}
                         /\ users[r] = {h} => rs[r] = "none"
                         /\ users[r] # {h} => rs[r] = rows[r]
  BY <1>2 DEF Uses, UseTypes
<1> HIDE DEF rs, us
<1>4. pending[h] = <<>>
  BY <1>1 DEF Uses, SnapshotCovers
<1>5. Uses'
  BY <1>1, <1>3, <1>4, Gone
<1> QED BY <1>1, <1>3, <1>5

-----------------------------------------------------------------------------
(* The journal *)

LEMMA Written ==
  ASSUME NEW rs, NEW fs, NEW ok \in BOOLEAN, persistLocked(rs, fs, ok)
  PROVE  /\ disk' = disk \/ disk' = [rows |-> rs, facts |-> fs]
         /\ ok => disk' = [rows |-> rs, facts |-> fs]
BY DEF persistLocked

\* A step may only begin an effect on a row that the file has, and only a
\* write that has all rows may change the file.
LEMMA JournalKept ==
  ASSUME Uses, Uses', JournalCovers,
         \/ disk'.rows = disk.rows
         \/ \A r \in Refs : rows'[r] # "none" => disk'.rows[r] # "none",
         \A r \in Refs : \/ rows'[r] \in {rows[r], "none", "planned"}
                         \/ \E h \in users[r] : handle[h] \in Kept
                         \/ disk'.rows[r] # "none",
         \A r \in Refs : \A h \in users'[r] :
            handle'[h] \in Kept => \/ h \in users[r] /\ handle[h] \in Kept
                                   \/ disk'.rows[r] # "none"
  PROVE  JournalCovers'
<1>1. EffectsAreJournaled'
  BY DEF JournalCovers, EffectsAreJournaled, Uses, UseTypes
<1>2. \A r \in Refs : \A h \in users'[r] : handle'[h] \in Kept => disk'.rows[r] # "none"
  BY DEF JournalCovers, Uses, UsesAreListed, Usable
<1> QED BY <1>1, <1>2 DEF JournalCovers

Journal == JournalTypes /\ JournalCovers /\ FactsCover

LEMMA SameFacts ==
  ASSUME JournalTypes, FactsCover, facts' = facts, acked' = acked,
         \/ disk' = disk
         \/ \E rs \in [Refs -> Live \cup {"none"}] : disk' = [rows |-> rs, facts |-> facts]
  PROVE  JournalTypes' /\ FactsCover'
<1>1. CASE disk' = disk
  BY <1>1 DEF JournalTypes, FactsCover
<1>2. ASSUME NEW rs \in [Refs -> Live \cup {"none"}], disk' = [rows |-> rs, facts |-> facts]
      PROVE  JournalTypes' /\ FactsCover'
  <2>1. JournalTypes'
    BY <1>2 DEF JournalTypes
  <2>2. disk'.facts = facts
    BY <1>2
  <2>3. acked > 0 => acked \in Range(facts)
    <3>1. SUFFICES ASSUME acked > 0 PROVE acked \in Range(facts)
      OBVIOUS
    <3>2. facts \in Seq(Nat) /\ facts # <<>> /\ facts[Len(facts)] = acked
      BY <3>1 DEF JournalTypes, FactsCover
    <3>3. Len(facts) \in DOMAIN facts
      BY SMTT(60), <3>2
    <3> QED BY <3>2, <3>3 DEF Range
  <2> QED BY <2>1, <2>2, <2>3 DEF FactsCover
<1> QED BY <1>1, <1>2

\* A write of the rows that the step leaves, or of more.
LEMMA WriteKept ==
  ASSUME Uses, Uses', Journal, NEW rs \in [Refs -> Live \cup {"none"}],
         facts' = facts, acked' = acked,
         disk' = disk \/ disk' = [rows |-> rs, facts |-> facts],
         \A r \in Refs : rows'[r] # "none" => rs[r] # "none",
         \A r \in Refs : \/ rows'[r] \in {rows[r], "none", "planned"}
                         \/ \E h \in users[r] : handle[h] \in Kept
                         \/ disk'.rows[r] # "none",
         \A r \in Refs : \A h \in users'[r] :
            handle'[h] \in Kept => \/ h \in users[r] /\ handle[h] \in Kept
                                   \/ disk'.rows[r] # "none"
  PROVE  Journal'
<1>1. JournalTypes' /\ FactsCover'
  BY SameFacts DEF Journal
<1>2. \/ disk'.rows = disk.rows
      \/ \A r \in Refs : rows'[r] # "none" => disk'.rows[r] # "none"
  BY SMTT(60)
<1>3. JournalCovers'
  BY <1>2, JournalKept DEF Journal
<1> QED BY <1>1, <1>3 DEF Journal

\* A step that adds no use and begins no effect.
LEMMA QuietKept ==
  ASSUME Uses, Uses', Journal, facts' = facts, acked' = acked,
         disk' = disk \/ disk' = [rows |-> rows', facts |-> facts],
         \A r \in Refs : rows'[r] \in {rows[r], "none", "planned"},
         \A r \in Refs : users'[r] \subseteq users[r],
         \A h \in Handles : handle'[h] \in Kept => handle[h] \in Kept
  PROVE  Journal'
<1>1. /\ rows' \in [Refs -> Live \cup {"none"}]
      /\ \A r \in Refs : users[r] \subseteq Handles
  BY DEF Uses, UseTypes
<1> QED BY <1>1, WriteKept

LEMMA PromoteJournal ==
  ASSUME Uses, Uses', Journal, NEW h \in Handles, Promote(h)
  PROVE  Journal'
<1>1. /\ facts' = facts /\ acked' = acked /\ disk' = disk
      /\ handle' = [handle EXCEPT ![h] = "attached"] /\ handle[h] = "none"
      /\ rows' = joined(Session(h), "planned")
      /\ users' = [users EXCEPT ![Session(h)] = @ \cup {h}]
  BY DEF Promote
<1>2. Session(h) \in Refs
  BY RefFacts
<1>3. /\ \A r \in Refs : rows'[r] \in {rows[r], "planned"}
      /\ \A r \in Refs : \A g \in users'[r] :
            handle'[g] \in Kept => g \in users[r] /\ handle[g] \in Kept
  BY <1>1, <1>2 DEF joined, Uses, UseTypes, Kept
<1>4. JournalCovers'
  BY <1>1, <1>3, JournalKept DEF Journal
<1> QED BY <1>1, <1>4, SameFacts DEF Journal

LEMMA RegisterJournal ==
  ASSUME Uses, Uses', Journal, NEW h \in Handles, NEW r \in ResourcesOf(h), NEW s \in Usable,
         register(h, r, s), s = "planned" \/ handle[h] # "attached",
         \/ /\ rows' = joined(r, s) /\ users' = [users EXCEPT ![r] = @ \cup {h}]
         \/ UNCHANGED <<rows, users>>
  PROVE  Journal'
<1>1. /\ r \in Refs /\ UNCHANGED <<handle, facts, acked>>
      /\ rows \in [Refs -> Live \cup {"none"}] /\ users \in [Refs -> SUBSET Handles]
  BY RefFacts DEF register, Uses, UseTypes
<1>. DEFINE j == joined(r, s)
<1>2. /\ j \in [Refs -> Live \cup {"none"}]
      /\ \A x \in Refs : rows[x] # "none" => j[x] = rows[x]
      /\ \A x \in Refs \ {r} : j[x] = rows[x]
      /\ j[r] # "none" /\ j[r] \in {rows[r], s}
  BY <1>1 DEF joined, Usable, Live
<1>3. CASE UNCHANGED <<rows, users>>
  <2>1. disk' = disk \/ disk' = [rows |-> j, facts |-> facts]
    BY Written DEF register, persistNow
  <2> HIDE DEF j
  <2>2. \A x \in Refs : \A g \in users'[x] :
          handle'[g] \in Kept => g \in users[x] /\ handle[g] \in Kept
    BY <1>1, <1>3
  <2>3. \A x \in Refs : rows'[x] = rows[x] /\ (rows'[x] # "none" => j[x] # "none")
    BY <1>2, <1>3
  <2> QED BY <1>1, <1>2, <2>1, <2>2, <2>3, WriteKept
<1>4. CASE /\ rows' = j /\ users' = [users EXCEPT ![r] = @ \cup {h}]
           /\ rows' # rows \/ users' # users
  <2>1. \/ handle[h] = "attached" /\ disk' = disk
        \/ handle[h] # "attached" /\ disk' = [rows |-> j, facts |-> facts]
    <3>1. CASE handle[h] = "attached"
      BY <3>1 DEF register
    <3>2. CASE handle[h] # "attached"
      <4>1. PICK ok \in BOOLEAN :
              /\ persistNow(j, facts, ok)
              /\ ~ok => /\ rows' = removedRow(j, [users EXCEPT ![r] = @ \cup {h}], h, r)
                        /\ users' = removedUser([users EXCEPT ![r] = @ \cup {h}], h, r)
        BY <3>2 DEF register
      <4>2. CASE ok
        BY <3>2, <4>1, <4>2, Written DEF persistNow
      <4>3. CASE ~ok
        <5>1. users'[r] = (users[r] \cup {h}) \ {h} /\ users'[r] = users[r] \cup {h}
          BY <1>1, <1>4, <4>1, <4>3 DEF removedUser
        <5> QED BY <5>1
      <4> QED BY <4>2, <4>3
    <3> QED BY <3>1, <3>2
  <2> HIDE DEF j
  <2>2. CASE handle[h] = "attached"
    <3>1. disk' = disk /\ s = "planned"
      BY <2>1, <2>2
    <3>2. \A x \in Refs : \A g \in users'[x] :
            handle'[g] \in Kept => g \in users[x] /\ handle[g] \in Kept
      BY <1>1, <1>4, <2>2 DEF Kept
    <3>3. \A x \in Refs : rows'[x] \in {rows[x], "planned"}
      BY <1>2, <1>4, <3>1
    <3>4. \A x \in Refs : rows'[x] # "none" => j[x] # "none"
      BY <1>4
    <3> QED BY ZenonT(60), <1>1, <1>2, <3>1, <3>2, <3>3, <3>4, WriteKept
  <2>3. CASE handle[h] # "attached"
    <3>1. disk' = [rows |-> j, facts |-> facts] /\ disk'.rows = j /\ rows' = j
      BY SMTT(60), <1>4, <2>1, <2>3
    <3>2. \A x \in Refs : rows'[x] = "none" \/ disk'.rows[x] # "none"
      BY <3>1
    <3>3. \A x \in Refs : \A g \in users'[x] : disk'.rows[x] # "none"
      BY <3>1 DEF Uses, UsesAreListed, Usable
    <3>4. \A x \in Refs : rows'[x] # "none" => j[x] # "none"
      BY <3>1
    <3> QED BY ZenonT(60), <1>1, <1>2, <3>1, <3>2, <3>3, <3>4, WriteKept
  <2> QED BY <2>2, <2>3
<1> QED BY <1>3, <1>4

LEMMA CommitJournal ==
  ASSUME Uses, Uses', Journal, NEW h \in Handles, Commit(h)
  PROVE  Journal'
<1>1. PICK ok \in BOOLEAN :
        /\ persistNow(rows, facts, ok)
        /\ handle' = IF ok THEN [handle EXCEPT ![h] = "committed"] ELSE handle
  BY DEF Commit
<1>2. /\ UNCHANGED <<rows, users, facts, acked>> /\ handle \in [Handles -> Handle]
      /\ rows \in [Refs -> Live \cup {"none"}] /\ users \in [Refs -> SUBSET Handles]
  BY DEF Commit, Uses, UseTypes
<1>3. /\ disk' = disk \/ disk' = [rows |-> rows, facts |-> facts]
      /\ ok => disk'.rows = rows
  BY SMTT(60), <1>1, Written DEF persistNow
<1>4. CASE ok
  <2>1. \A r \in Refs : \A g \in users'[r] : disk'.rows[r] # "none"
    BY <1>2, <1>3, <1>4 DEF Uses, UsesAreListed, Usable
  <2> QED BY <1>2, <1>3, <2>1, WriteKept
<1>5. CASE ~ok
  <2>1. handle' = handle
    BY <1>1, <1>5
  <2> QED BY <1>2, <1>3, <2>1, QuietKept
<1> QED BY <1>4, <1>5

LEMMA TransitionJournal ==
  ASSUME Uses, Uses', Journal, NEW h \in Handles, NEW r \in Refs,
         NEW to \in {"starting", "active"}, Transition(h, r, to)
  PROVE  Journal'
<1>1. /\ UNCHANGED <<users, handle, facts, acked, disk>> /\ h \in users[r]
      /\ handle[h] \in Kept /\ rows' = [rows EXCEPT ![r] = to]
  BY DEF Transition, checkpointLater, Kept
<1>2. \A x \in Refs : rows'[x] = rows[x] \/ \E g \in users[x] : handle[g] \in Kept
  BY <1>1 DEF Uses, UseTypes
<1>3. JournalCovers'
  BY <1>1, <1>2, JournalKept DEF Journal
<1> QED BY <1>1, <1>3, SameFacts DEF Journal

\* The journal keeps the newest facts, the new one and the one before it
\* among them.
LEMMA NewestFacts ==
  ASSUME JournalTypes
  PROVE  LET all == Append(facts, acked + 1)
             fs  == SubSeq(all, IF Len(all) > MaxFacts THEN Len(all) - MaxFacts + 1 ELSE 1,
                           Len(all))
         IN  /\ fs \in Seq(Nat) /\ fs # <<>> /\ fs[Len(fs)] = acked + 1
             /\ acked + 1 \in Range(fs)
             /\ facts # <<>> => facts[Len(facts)] \in Range(fs)
<1>. DEFINE all == Append(facts, acked + 1)
            m == IF Len(all) > MaxFacts THEN Len(all) - MaxFacts + 1 ELSE 1
            fs == SubSeq(all, m, Len(all))
<1>1. /\ facts \in Seq(Nat) /\ acked \in Nat /\ Len(facts) \in Nat
      /\ MaxFacts \in Nat /\ MaxFacts > 1
  BY SMTT(60), RegistryAssumption DEF JournalTypes
<1>2. /\ all \in Seq(Nat) /\ Len(all) = Len(facts) + 1 /\ all[Len(facts) + 1] = acked + 1
      /\ \A i \in 1..Len(facts) : all[i] = facts[i]
  BY SMTT(60), <1>1
<1> HIDE DEF all
<1>3. /\ m \in Nat /\ m > 0 /\ m <= Len(all) /\ (Len(facts) > 0 => m <= Len(facts))
  BY SMTT(60), <1>1, <1>2
<1> HIDE DEF m
<1>4. /\ fs \in Seq(Nat) /\ Len(fs) = Len(all) - m + 1
      /\ \A i \in 1..(Len(all) - m + 1) : fs[i] = all[m + i - 1]
  <2>1. Len(all) \in Nat /\ m \in 1..Len(all)
    BY SMTT(60), <1>1, <1>2, <1>3
  <2>2. \A i \in m..Len(all) : all[i] \in Nat
    BY SMTT(60), <1>2, <2>1
  <2>3. fs \in Seq(Nat)
    BY SMTT(60), <1>2, <2>1, <2>2
  <2>4. Len(fs) = Len(all) - m + 1
    BY SMTT(60), <1>2, <2>1
  <2>5. \A i \in 1..(Len(all) - m + 1) : fs[i] = all[m + i - 1]
    BY SMTT(60), <1>2, <2>1
  <2> QED BY <2>3, <2>4, <2>5
<1> HIDE DEF fs
<1>5. DOMAIN fs = 1..(Len(all) - m + 1)
  BY SMTT(60), <1>4
<1>6. fs # <<>> /\ fs[Len(fs)] = acked + 1 /\ acked + 1 \in Range(fs)
  <2>1. Len(all) - m + 1 \in 1..(Len(all) - m + 1) /\ m + (Len(all) - m + 1) - 1 = Len(all)
    BY SMTT(60), <1>1, <1>2, <1>3
  <2>2. fs[Len(all) - m + 1] = acked + 1
    <3>1. fs[Len(all) - m + 1] = all[m + (Len(all) - m + 1) - 1]
      BY <1>4, <2>1
    <3> QED BY <1>2, <2>1, <3>1
  <2> QED BY SMTT(60), <1>4, <1>5, <2>1, <2>2 DEF Range
<1>7. ASSUME facts # <<>> PROVE facts[Len(facts)] \in Range(fs)
  <2>1. Len(facts) > 0
    BY SMTT(60), <1>1, <1>7
  <2>2. /\ Len(all) - m \in 1..(Len(all) - m + 1) /\ m + (Len(all) - m) - 1 = Len(facts)
        /\ Len(facts) \in 1..Len(facts)
    BY SMTT(60), <1>1, <1>2, <1>3, <2>1
  <2>3. fs[Len(all) - m] = facts[Len(facts)]
    BY <1>2, <1>4, <2>2
  <2> QED BY <1>5, <2>2, <2>3 DEF Range
<1> QED BY <1>4, <1>6, <1>7 DEF fs, m, all

LEMMA RecordJournal ==
  ASSUME Uses, Uses', Journal, NEW h \in Handles, RecordFact(h)
  PROVE  Journal'
<1>. DEFINE all == Append(facts, acked + 1)
            fs == SubSeq(all, IF Len(all) > MaxFacts THEN Len(all) - MaxFacts + 1 ELSE 1,
                         Len(all))
<1>1. PICK ok \in BOOLEAN : /\ persistNow(rows, fs, ok)
                            /\ facts' = IF ok THEN fs ELSE facts
                            /\ acked' = IF ok THEN acked + 1 ELSE acked
  BY DEF RecordFact
<1>2. /\ fs \in Seq(Nat) /\ fs # <<>> /\ fs[Len(fs)] = acked + 1 /\ acked + 1 \in Range(fs)
      /\ facts # <<>> => facts[Len(facts)] \in Range(fs)
  BY NewestFacts DEF Journal
<1> HIDE DEF fs
<1>3. /\ UNCHANGED <<rows, users, handle>> /\ rows \in [Refs -> Live \cup {"none"}]
  BY DEF RecordFact, Uses, UseTypes
<1>4. /\ disk' = disk \/ disk' = [rows |-> rows, facts |-> fs]
      /\ ok => disk' = [rows |-> rows, facts |-> fs]
  BY <1>1, Written DEF persistNow
<1>5. JournalTypes'
  BY SMTT(60), <1>1, <1>2, <1>3, <1>4 DEF Journal, JournalTypes
<1>6. JournalCovers'
  <2>1. \/ disk'.rows = disk.rows
        \/ \A r \in Refs : rows'[r] # "none" => disk'.rows[r] # "none"
    BY SMTT(60), <1>3, <1>4
  <2> QED BY <1>3, <2>1, JournalKept DEF Journal
<1>7. FactsCover'
  <2>1. CASE ok
    BY SMTT(60), <1>1, <1>2, <1>4, <2>1 DEF FactsCover
  <2>2. CASE ~ok
    BY SMTT(60), <1>1, <1>2, <1>4, <2>2 DEF Journal, FactsCover
  <2> QED BY <2>1, <2>2
<1> QED BY <1>5, <1>6, <1>7 DEF Journal

LEMMA ReleaseJournal ==
  ASSUME Uses, Uses', Journal, NEW h \in Handles, NEW r \in Refs, NEW err,
         NEW failed \in BOOLEAN, release(h, r, err, failed), handle[h] \in Kept,
         UNCHANGED <<handle, facts, acked>>
  PROVE  Journal'
<1>1. /\ rows \in [Refs -> Live \cup {"none"}] /\ users \in [Refs -> SUBSET Handles]
      /\ rows' \in [Refs -> Live \cup {"none"}]
  BY DEF Uses, UseTypes
<1>2. disk' = disk \/ disk' = [rows |-> rows', facts |-> facts]
  <2>1. CASE UNCHANGED disk
    BY <2>1
  <2>2. CASE persistNow(rows', facts, ~failed)
    <3>1. (~failed) \in BOOLEAN
      OBVIOUS
    <3> QED BY <2>2, <3>1, Written DEF persistNow
  <2> QED BY <2>1, <2>2 DEF release, checkpointLater
<1>3. CASE h \notin users[r]
  BY <1>1, <1>2, <1>3, ReleaseEffect, QuietKept
<1>4. CASE h \in users[r]
  <2>1. /\ users' = [users EXCEPT ![r] = @ \ {h}]
        /\ rows' = rows \/ \E x \in {"orphaned", "none"} : rows' = [rows EXCEPT ![r] = x]
    BY <1>4, ReleaseEffect
  <2>2. \A x \in Refs : rows'[x] = rows[x] \/ \E g \in users[x] : handle[g] \in Kept
    BY <1>1, <1>4, <2>1
  <2>3. \A x \in Refs : \A g \in users'[x] :
          handle'[g] \in Kept => g \in users[x] /\ handle[g] \in Kept
    BY <1>1, <2>1
  <2> QED BY <1>1, <1>2, <2>2, <2>3, WriteKept
<1> QED BY <1>3, <1>4

\* A handle goes, with the rows that only it used.
LEMMA GoneJournal ==
  ASSUME Uses, Uses', Journal, NEW h \in Handles, dropped(h),
         UNCHANGED <<facts, acked>>, \A r \in Refs : rows'[r] \in {rows[r], "none"},
         \A r \in Refs : users'[r] \subseteq users[r],
         disk' = disk \/ disk' = [rows |-> rows', facts |-> facts]
  PROVE  Journal'
<1>1. \A g \in Handles : handle'[g] \in Kept => handle[g] \in Kept
  BY DEF dropped, Uses, UseTypes, Kept
<1> QED BY <1>1, QuietKept

LEMMA FinishedJournal ==
  ASSUME Uses, Uses', Journal, NEW h \in Handles, finishRegistration(h)
  PROVE  Journal'
<1>1. dropped(h) /\ UNCHANGED <<rows, users, facts, acked>>
  BY DEF finishRegistration
<1>2. disk' = disk \/ disk' = [rows |-> rows, facts |-> facts]
  <2>1. CASE \E ok \in BOOLEAN : persistLocked(rows, facts, ok)
    BY <2>1, Written
  <2> QED BY <2>1 DEF finishRegistration, scheduleIfIdle, checkpointLater
<1> QED BY <1>1, <1>2, GoneJournal

LEMMA AbortJournal ==
  ASSUME Uses, Uses', Journal, NEW h \in Handles, abortRegistration(h)
  PROVE  Journal'
<1>1. dropped(h) /\ UNCHANGED <<facts, acked>>
  BY DEF abortRegistration
<1>2. \A r \in Refs : rows'[r] \in {rows[r], "none"}
  BY AbortUses
<1>3. \A r \in Refs : users'[r] \subseteq users[r]
  BY DEF abortRegistration, Uses, UseTypes
<1>4. disk' = disk \/ disk' = [rows |-> rows', facts |-> facts]
  <2>1. disk' = disk \/ scheduleIfIdle(rows')
    BY DEF abortRegistration
  <2>2. CASE \E ok \in BOOLEAN : persistLocked(rows', facts, ok)
    BY <2>2, Written
  <2> QED BY <2>1, <2>2 DEF scheduleIfIdle, checkpointLater
<1> QED BY <1>1, <1>2, <1>3, <1>4, GoneJournal

LEMMA CheckpointJournal ==
  ASSUME Uses, Uses', Journal, Checkpoint
  PROVE  Journal'
<1>1. UNCHANGED <<rows, users, handle, facts, acked>>
  BY DEF Checkpoint
<1>2. disk' = disk \/ disk' = [rows |-> rows, facts |-> facts]
  <2>1. CASE \E ok \in BOOLEAN : persistLocked(rows, facts, ok)
    BY <2>1, Written
  <2> QED BY <2>1 DEF Checkpoint
<1> QED BY <1>1, <1>2, QuietKept

-----------------------------------------------------------------------------
(* The induction, one step per action *)

LEMMA RegistryStart ==
  ASSUME Init
  PROVE  RegistryInv
<1>1. \A h \in Handles : <<>> \in Registrations(h)
  BY EmptyRegistration
<1>2. UseTypes /\ JournalTypes
  BY SMTT(60) DEF Init, UseTypes, JournalTypes, Live, Handle
<1>3. UsesAreListed
  BY <1>1 DEF Init, UsesAreListed, Usable
<1>4. UsesAreClosed
  BY DEF Init, UsesAreClosed, open
<1>5. SnapshotCovers
  BY SMTT(60) DEF Init, SnapshotCovers, DependentsFirst
<1>6. JournalCovers /\ FactsCover
  BY SMTT(60) DEF Init, JournalCovers, FactsCover, EffectsAreJournaled
<1> QED BY <1>2, <1>3, <1>4, <1>5, <1>6 DEF RegistryInv, Uses

LEMMA SameUses ==
  ASSUME Uses, UNCHANGED <<rows, users, order, pending, handle>>
  PROVE  Uses'
BY DEF Uses, UseTypes, UsesAreListed, UsesAreClosed, SnapshotCovers, attached, open

LEMMA AnyRegister ==
  ASSUME Uses, Journal, NEW h \in Handles, NEW r \in ResourcesOf(h), NEW s \in Usable,
         register(h, r, s), \A d \in Dependencies(r) : h \in users[d],
         s = "planned" \/ handle[h] # "attached"
  PROVE  Uses' /\ Journal'
<1>1. /\ Uses'
      /\ \/ /\ rows' = joined(r, s) /\ users' = [users EXCEPT ![r] = @ \cup {h}]
         \/ UNCHANGED <<rows, users>>
  BY RegisterUses
<1>2. Journal'
  BY <1>1, RegisterJournal
<1> QED BY <1>1, <1>2

LEMMA RegisterStep ==
  ASSUME Uses, Journal, NEW h \in Handles, Register(h) \/ RegisterSessionResource(h)
  PROVE  Uses' /\ Journal'
<1>1. CASE Register(h)
  <2>1. PICK r \in Providers \cup {View(h)} :
          /\ r = View(h) => \A p \in Shared : h \in users[Provider(p)]
          /\ register(h, r, "planned")
    BY <1>1 DEF Register
  <2>2. r \in ResourcesOf(h) /\ "planned" \in Usable
    BY <2>1 DEF ResourcesOf, Usable
  <2>3. h \in users[Session(h)]
    BY <2>1 DEF register, Uses, UsesAreClosed
  <2>4. \A d \in Dependencies(r) : h \in users[d]
    BY SMTT(60), <2>1, <2>3, RefFacts DEF Providers
  <2> QED BY <2>1, <2>2, <2>4, AnyRegister
<1>2. CASE RegisterSessionResource(h)
  <2>1. register(h, Grant(h), "starting") /\ handle[h] # "attached"
    BY <1>2 DEF RegisterSessionResource
  <2>2. Grant(h) \in ResourcesOf(h) /\ "starting" \in Usable
    BY DEF ResourcesOf, Usable
  <2>3. \A d \in Dependencies(Grant(h)) : h \in users[d]
    BY <2>1, RefFacts DEF register, Uses, UsesAreClosed
  <2> QED BY <2>1, <2>2, <2>3, AnyRegister
<1> QED BY <1>1, <1>2

LEMMA ReleaseStep ==
  ASSUME Uses, Journal, NEW h \in Handles,
         Release(h) \/ ReleaseSessionResource(h) \/ FinishRelease(h)
  PROVE  Uses' /\ Journal'
<1>1. CASE Release(h)
  <2>1. Uses'
    BY <1>1, RunReleaseUses
  <2>2. PICK r \in {View(h)} \cup Providers, err \in BOOLEAN, failed \in BOOLEAN :
          release(h, r, err, failed)
    BY <1>1 DEF Release
  <2>3. r \in Refs
    BY <2>2, RefFacts DEF ResourcesOf
  <2>4. handle[h] \in Kept /\ UNCHANGED <<handle, facts, acked>>
    BY <1>1 DEF Release, Kept
  <2> QED BY <2>1, <2>2, <2>3, <2>4, ReleaseJournal
<1>2. CASE ReleaseSessionResource(h)
  <2>1. Uses'
    BY <1>2, SessionReleaseUses
  <2>2. PICK err \in BOOLEAN, failed \in BOOLEAN : release(h, Grant(h), err, failed)
    BY <1>2 DEF ReleaseSessionResource
  <2>3. Grant(h) \in Refs
    BY RefFacts DEF ResourcesOf
  <2>4. handle[h] \in Kept /\ UNCHANGED <<handle, facts, acked>>
    BY <1>2 DEF ReleaseSessionResource, Kept
  <2> QED BY ZenonT(60), <2>1, <2>2, <2>3, <2>4, ReleaseJournal
<1>3. CASE FinishRelease(h)
  <2>1. Uses'
    BY <1>3, FinishReleaseUses
  <2>2. PICK failed \in BOOLEAN : release(h, Head(pending[h]), unproved[h], failed)
    BY <1>3 DEF FinishRelease
  <2>3. Head(pending[h]) \in Refs
    BY SMTT(60), <1>3 DEF FinishRelease, Uses, UseTypes
  <2>4. handle[h] \in Kept /\ UNCHANGED <<handle, facts, acked>>
    BY <1>3 DEF FinishRelease, Uses, SnapshotCovers, Kept
  <2> QED BY <2>1, <2>2, <2>3, <2>4, ReleaseJournal
<1> QED BY <1>1, <1>2, <1>3

LEMMA RegistryStep ==
  ASSUME Uses, Journal, [Next]_vars
  PROVE  Uses' /\ Journal'
<1>1. ASSUME NEW h \in Handles, Promote(h) PROVE Uses' /\ Journal'
  BY <1>1, PromoteUses, PromoteJournal
<1>2. ASSUME NEW h \in Handles, Register(h) \/ RegisterSessionResource(h)
      PROVE  Uses' /\ Journal'
  BY <1>2, RegisterStep
<1>3. ASSUME NEW h \in Handles, Commit(h) PROVE Uses' /\ Journal'
  BY <1>3, CommitUses, CommitJournal
<1>4. ASSUME NEW h \in Handles, RecordFact(h) PROVE Uses' /\ Journal'
  <2>1. Uses'
    BY <1>4, SameUses DEF RecordFact
  <2> QED BY <1>4, <2>1, RecordJournal
<1>5. ASSUME NEW h \in Handles,
             Release(h) \/ ReleaseSessionResource(h) \/ FinishRelease(h)
      PROVE  Uses' /\ Journal'
  BY <1>5, ReleaseStep
<1>6. ASSUME NEW h \in Handles, Finish(h) PROVE Uses' /\ Journal'
  <2>1. Uses'
    BY <1>6, FinishUses
  <2>2. /\ UNCHANGED <<rows, users, facts, acked, disk>> /\ handle[h] = "committed"
        /\ handle' = [handle EXCEPT ![h] = "closing"]
    BY <1>6 DEF Finish, sealed
  <2>3. \A g \in Handles : handle'[g] \in Kept => handle[g] \in Kept
    BY <2>2 DEF Uses, UseTypes, Kept
  <2> QED BY <2>1, <2>2, <2>3, QuietKept
<1>7. ASSUME NEW h \in Handles, finishRegistration(h) PROVE Uses' /\ Journal'
  BY <1>7, FinishedUses, FinishedJournal
<1>8. ASSUME NEW h \in Handles, abortRegistration(h) PROVE Uses' /\ Journal'
  BY <1>8, AbortUses, AbortJournal
<1>9. ASSUME NEW h \in Handles, NEW r \in Providers, NEW to \in {"starting", "active"},
             Transition(h, r, to)
      PROVE  Uses' /\ Journal'
  <2>1. r \in Refs
    BY DEF Refs
  <2> QED BY <1>9, <2>1, TransitionUses, TransitionJournal
<1>10. CASE Checkpoint
  <2>1. Uses'
    BY <1>10, SameUses DEF Checkpoint
  <2> QED BY <1>10, <2>1, CheckpointJournal
<1>11. CASE UNCHANGED vars
  <2>1. Uses'
    BY <1>11, SameUses DEF vars
  <2>2. UNCHANGED <<rows, users, handle, facts, acked, disk>>
    BY <1>11 DEF vars
  <2> QED BY <2>1, <2>2, QuietKept
<1> QED BY <1>1, <1>2, <1>3, <1>4, <1>5, <1>6, <1>7, <1>8, <1>9, <1>10, <1>11
        DEF Next, Move

\* The inductive invariant of the registry.
THEOREM RegistryStays == Spec => []RegistryInv
<1>1. RegistryInv /\ [Next]_vars => RegistryInv'
  BY RegistryStep DEF RegistryInv, Journal
<1> QED BY <1>1, RegistryStart, PTL DEF Spec

\* EffectsAreJournaled: whatever fails, the journal file has a row for every
\* effect that may be in use (Commit, register).
THEOREM EffectsStayJournaled == Spec => []EffectsAreJournaled
<1>1. RegistryInv => EffectsAreJournaled
  BY DEF RegistryInv, JournalCovers
<1> QED BY <1>1, RegistryStays, PTL

\* NoRowOutlivesItsUsers: a row that is no orphan has an attached user
\* (beginFinishRegistration, removeResourceUser).
THEOREM NoRowIsLeft == Spec => []NoRowOutlivesItsUsers
<1>1. RegistryInv => NoRowOutlivesItsUsers
  BY DEF RegistryInv, Uses, UseTypes, UsesAreListed, NoRowOutlivesItsUsers, present, Live, Usable
<1> QED BY <1>1, RegistryStays, PTL

\* UsedRowsExist: no release, abort or failed registration of one handle takes
\* a row from its siblings (release, removeResourceUser).
THEOREM UsedRowsStay == Spec => []UsedRowsExist
<1>1. RegistryInv => UsedRowsExist
  BY DEF RegistryInv, Uses, UsesAreListed, UsedRowsExist, Usable
<1> QED BY <1>1, RegistryStays, PTL

\* ReleasesAreOrdered: while there is no orphan, ValidateGraph accepts the
\* rows, so every journal write is possible (releaseOrderForHandleLocked).
THEOREM ReleasesStayOrdered == Spec => []ReleasesAreOrdered
<1>1. ASSUME RegistryInv, \A r \in Refs : rows[r] # "orphaned",
             NEW r \in present(rows), NEW d \in Dependencies(r)
      PROVE  d \in present(rows)
  <2>1. r \in Refs /\ users[r] # {} /\ users[r] \subseteq Handles
    BY <1>1 DEF RegistryInv, Uses, UseTypes, UsesAreListed, present, Live, Usable
  <2>2. PICK h \in Handles : h \in users[r]
    BY <2>1
  <2>3. d \in Refs
    BY <1>1, <2>1, DependencyRefs
  <2>4. h \in users[d]
    BY <1>1, <2>1, <2>2 DEF RegistryInv, Uses, UsesAreClosed
  <2> QED BY <1>1, <2>3, <2>4 DEF RegistryInv, Uses, UsesAreListed, present, Usable
<1>2. RegistryInv => ReleasesAreOrdered
  BY <1>1 DEF ReleasesAreOrdered, DependenciesExist, ValidateGraph
<1> QED BY <1>2, RegistryStays, PTL

\* LastFactIsDurable: the last acknowledged fact is in the journal file, also
\* after writes that failed (recordFact).
THEOREM LastFactStaysDurable == Spec => []LastFactIsDurable
<1>1. RegistryInv => LastFactIsDurable
  BY DEF RegistryInv, FactsCover, LastFactIsDurable
<1> QED BY <1>1, RegistryStays, PTL

(***************************************************************************)
(* The launch of a run.  Neither ReadyIsEarned nor EndedIsGone is          *)
(* inductive.  Both rest on the stack of deferred clean-ups: where a run   *)
(* stands fixes what it has deferred, hence what its return still undoes,  *)
(* which owner record it holds and whether a process of its target may be  *)
(* left (AtStep).  An owner record of a dead run refuses every run after   *)
(* it (DeadRefuse), so the sweep at a run's end takes no record of a run   *)
(* that still has a process in the guest; and a receipt of the present     *)
(* boot that a run left or a target outdated always has an owner record    *)
(* beside it (Earned).                                                     *)
(***************************************************************************)

\* The fields of a run.
LaunchFields == {"at", "req", "plan", "defers", "root", "mount", "failed", "unclean", "reboot", "lease",
                 "bridge", "guard", "started", "proved", "preview"}

\* The stack of deferred clean-ups as it grows.
Deferred == {"unlock", "finish", "close", "end", "plane", "cleanup"}
push(d, s) == <<d>> \o s
Unlocks == push("unlock", << >>)
Finishes == push("finish", Unlocks)
Closes == push("close", Finishes)
Ends == push("end", Closes)
Planes == push("plane", Ends)
Cleanups == push("cleanup", Planes)

LEMMA Pushed ==
  ASSUME NEW S, NEW d \in S, NEW s \in Seq(S)
  PROVE  /\ push(d, s) \in Seq(S) /\ push(d, s) # << >>
         /\ Head(push(d, s)) = d /\ Tail(push(d, s)) = s
BY SMTT(60) DEF push

LEMMA Stacked ==
  /\ Unlocks # << >> /\ Head(Unlocks) = "unlock" /\ Tail(Unlocks) = << >>
  /\ Finishes # << >> /\ Head(Finishes) = "finish" /\ Tail(Finishes) = Unlocks
  /\ Closes # << >> /\ Head(Closes) = "close" /\ Tail(Closes) = Finishes
  /\ Ends # << >> /\ Head(Ends) = "end" /\ Tail(Ends) = Closes
  /\ Planes # << >> /\ Head(Planes) = "plane" /\ Tail(Planes) = Ends
  /\ Cleanups # << >> /\ Head(Cleanups) = "cleanup" /\ Tail(Cleanups) = Planes
<1>0. << >> \in Seq(Deferred)
  BY SMTT(60)
<1>d. /\ "unlock" \in Deferred /\ "finish" \in Deferred /\ "close" \in Deferred
      /\ "end" \in Deferred /\ "plane" \in Deferred /\ "cleanup" \in Deferred
  BY DEF Deferred
<1>1. Unlocks \in Seq(Deferred) /\ Unlocks # << >> /\ Head(Unlocks) = "unlock" /\ Tail(Unlocks) = << >>
  BY <1>0, <1>d, Pushed DEF Unlocks
<1>2. Finishes \in Seq(Deferred) /\ Finishes # << >> /\ Head(Finishes) = "finish"
        /\ Tail(Finishes) = Unlocks
  BY SMTT(60), <1>0, <1>1, <1>d, Pushed DEF Finishes
<1>3. Closes \in Seq(Deferred) /\ Closes # << >> /\ Head(Closes) = "close" /\ Tail(Closes) = Finishes
  BY SMTT(60), <1>0, <1>2, <1>d, Pushed DEF Closes
<1>4. Ends \in Seq(Deferred) /\ Ends # << >> /\ Head(Ends) = "end" /\ Tail(Ends) = Closes
  BY SMTT(60), <1>0, <1>3, <1>d, Pushed DEF Ends
<1>5. Planes \in Seq(Deferred) /\ Planes # << >> /\ Head(Planes) = "plane" /\ Tail(Planes) = Ends
  BY SMTT(60), <1>0, <1>4, <1>d, Pushed DEF Planes
<1>6. Cleanups # << >> /\ Head(Cleanups) = "cleanup" /\ Tail(Cleanups) = Planes
  BY SMTT(60), <1>0, <1>5, <1>d, Pushed DEF Cleanups
<1> QED BY <1>1, <1>2, <1>3, <1>4, <1>5, <1>6

LEMMA IdleFields == DOMAIN IdleLaunch = LaunchFields
BY SMTT(60) DEF IdleLaunch, LaunchFields

LaunchShape ==
  /\ DOMAIN launch = Launches /\ \A r \in Launches : DOMAIN launch[r] = LaunchFields
  /\ DOMAIN launchOwner = Launches
  /\ \A r \in Launches : launchOwner[r] \in {Nothing, "starting", "running", "failed"}
  /\ DOMAIN vm = {"up", "boot", "applied", "procs", "ran"} /\ vm.boot \in Nat
       /\ vm.procs \subseteq Launches
  /\ DOMAIN receipts = {"runtime", "activation"} /\ receipts.runtime.boot \in Nat

\* What a run has deferred, which owner record it has, and whether the process
\* of its target may be in the guest, by the step it is at.
Early == {"idle", "planned", "select", "name", "lock"}
Binding == {"attach", "bind"}
Planing == {"plane", "bridges", "planed"}
Activating == {"activate", "observe", "receipt", "start"}
Targeted == {"target", "prove", "ended"}
Opened == {Planes, Ends, Closes, Finishes}
Shut == {Unlocks, << >>}

AtStep(at, defers, own, left, started, proved, unclean, failed) ==
  /\ at \in Early => defers = << >> /\ own = Nothing /\ ~proved
  /\ at = "begin" => defers = Unlocks /\ own = Nothing /\ ~proved
  /\ at \in Binding => defers = Closes /\ own = Nothing /\ ~proved
  /\ at = "audit" => defers = Closes /\ own = "starting" /\ ~proved
  /\ at \in Planing => defers = Ends /\ own = "starting" /\ ~proved
  /\ at = "prepare" => defers = Planes /\ own = "starting" /\ ~proved
  /\ at \in Activating => defers = Cleanups /\ own = "starting" /\ ~proved
  /\ at \in {"run"} \cup Targeted => defers = Cleanups /\ own = "running" /\ (at # "ended" => ~proved)
  /\ at = "return" =>
       \/ defers = Cleanups /\ own \in {"starting", "running"} /\ (left => started /\ ~proved)
       \/ defers \in Opened /\ own \in {Nothing, "starting", "running"} /\ (left => unclean /\ failed)
       \/ defers \in Shut /\ own \in {Nothing, "failed"} /\ (left => failed)
  /\ at \in {"done", "dead"} => defers = << >>
  /\ at = "done" => own \in {Nothing, "failed"} /\ (left => failed)
  /\ left => own # Nothing /\ at \in Targeted \cup {"return", "done", "dead"}
  /\ left /\ at \in Targeted => started /\ ~proved

LaunchAt(r) ==
  AtStep(launch[r].at, launch[r].defers, launchOwner[r], r \in vm.procs,
         launch[r].started, launch[r].proved, launch[r].unclean, launch[r].failed)

\* A run between the lock and the release of its owner record.
Owning(at, defers) ==
  /\ at \notin Early \cup {"done", "dead"}
  /\ ~(at = "return" /\ defers \in Shut)

NoDeadOwner == \A o \in Launches : launch[o].at = "dead" => launchOwner[o] = Nothing

RunsAccounted == \A r \in Launches : LaunchAt(r)
DeadRefuse == NoDeadOwner \/ \A r \in Launches : ~Owning(launch[r].at, launch[r].defers)
Earned ==
  /\ receipts.runtime.boot <= vm.boot
  /\ vm.up \/ vm.procs = {}
  /\ (/\ vm.up /\ receipts.runtime.by # Nothing /\ receipts.runtime.boot = vm.boot
      /\ receipts.runtime.by # "verify" \/ vm.ran)
     => \E r \in Launches : launchOwner[r] # Nothing

LaunchAccount == LaunchShape /\ RunsAccounted /\ DeadRefuse /\ Earned

\* A step of run r leaves the run there, with that much deferred ...
Leaves(r, at, defers, started, proved, unclean, failed) ==
  /\ DOMAIN launch' = Launches /\ DOMAIN launch'[r] = LaunchFields
  /\ \A o \in Launches \ {r} : launch'[o] = launch[o]
  /\ launch'[r].at = at /\ launch'[r].defers = defers /\ launch'[r].started = started
  /\ launch'[r].proved = proved /\ launch'[r].unclean = unclean /\ launch'[r].failed = failed

\* ... which fits the step ...
Fits(r, at, defers, started, proved, unclean, failed) ==
  /\ AtStep(at, defers, launchOwner'[r], r \in vm'.procs, started, proved, unclean, failed)
  /\ launch[r].at # "dead" /\ at # "dead"
  /\ Owning(at, defers) => Owning(launch[r].at, launch[r].defers) \/ NoDeadOwner

\* ... and the other runs keep their owner records and processes.
OthersKeep(r) ==
  /\ DOMAIN launchOwner' = Launches
  /\ launchOwner'[r] \in {Nothing, "starting", "running", "failed"}
  /\ DOMAIN vm' = {"up", "boot", "applied", "procs", "ran"} /\ vm'.boot \in Nat
  /\ vm'.procs \ {r} = vm.procs \ {r}
  /\ \A o \in Launches \ {r} : launchOwner'[o] = launchOwner[o]

ReceiptShape == DOMAIN receipts = {"runtime", "activation"} /\ receipts.runtime.boot \in Nat

LEMMA StepKeeps ==
  ASSUME LaunchAccount, NEW r \in Launches, NEW at, NEW defers, NEW started, NEW proved, NEW unclean,
         NEW failed,
         Leaves(r, at, defers, started, proved, unclean, failed),
         Fits(r, at, defers, started, proved, unclean, failed),
         OthersKeep(r), ReceiptShape', Earned'
  PROVE  LaunchAccount'
<1>1. LaunchShape'
  BY SMTT(60) DEF LaunchAccount, LaunchShape, Leaves, OthersKeep, ReceiptShape
<1>2. RunsAccounted'
  <2> SUFFICES ASSUME NEW o \in Launches PROVE LaunchAt(o)'
    BY DEF RunsAccounted
  <2>1. CASE o = r
    BY ZenonT(60), <2>1 DEF Leaves, Fits, LaunchAt
  <2>2. CASE o # r
    <3>1. launch'[o] = launch[o] /\ launchOwner'[o] = launchOwner[o]
            /\ (o \in vm'.procs <=> o \in vm.procs)
      BY <2>2 DEF Leaves, OthersKeep
    <3>2. LaunchAt(o)
      BY DEF LaunchAccount, RunsAccounted
    <3> QED BY ONLY ZenonT(60), <3>1, <3>2 DEF LaunchAt, AtStep
  <2> QED BY <2>1, <2>2
<1>3. DeadRefuse'
  <2>1. CASE NoDeadOwner
    <3>1. NoDeadOwner'
      BY <2>1 DEF NoDeadOwner, Leaves, Fits, OthersKeep
    <3> QED BY <3>1 DEF DeadRefuse
  <2>2. CASE ~NoDeadOwner
    <3>1. \A o \in Launches : ~Owning(launch[o].at, launch[o].defers)
      BY <2>2 DEF LaunchAccount, DeadRefuse
    <3>2. \A o \in Launches : ~Owning(launch'[o].at, launch'[o].defers)
      BY <2>2, <3>1 DEF Leaves, Fits
    <3> QED BY <3>2 DEF DeadRefuse, Owning
  <2> QED BY <2>1, <2>2
<1> QED BY <1>1, <1>2, <1>3 DEF LaunchAccount

\* A step that changes the run alone.
LEMMA OwnSteps ==
  ASSUME LaunchAccount, NEW r \in Launches, NEW at, NEW defers, NEW started, NEW proved, NEW unclean,
         NEW failed,
         Leaves(r, at, defers, started, proved, unclean, failed),
         Fits(r, at, defers, started, proved, unclean, failed),
         UNCHANGED <<launchOwner, vm, receipts>>
  PROVE  LaunchAccount'
<1>1. OthersKeep(r) /\ ReceiptShape' /\ Earned'
  BY DEF LaunchAccount, LaunchShape, OthersKeep, ReceiptShape, Earned
<1> QED BY <1>1, StepKeeps

\* The steps of the launch after which it can fail.
Failing == {"planned", "select", "name", "begin", "audit",
  "prepare"} \cup Binding \cup Planing \cup Activating

LEMMA AbortKeeps ==
  ASSUME LaunchAccount, NEW r \in Launches, launch[r].at \in Failing, abortRun(r),
         UNCHANGED <<launchOwner, vm, receipts>>
  PROVE  LaunchAccount'
<1>1. Leaves(r, "return", launch[r].defers, launch[r].started, launch[r].proved, launch[r].unclean, TRUE)
  BY SMTT(60) DEF LaunchAccount, LaunchShape, abortRun, LaunchFields, Leaves
<1>2. LaunchAt(r)
  BY DEF LaunchAccount, RunsAccounted
<1>3. Fits(r, "return", launch[r].defers, launch[r].started, launch[r].proved, launch[r].unclean, TRUE)
  BY SMTT(60), Stacked, <1>2 DEF Fits, LaunchAt, AtStep, Owning, Failing, Early, Binding, Planing, Activating,
     Targeted, Opened, Shut, Nothing
<1> QED BY <1>1, <1>3, OwnSteps

LEMMA GoesOn ==
  ASSUME LaunchAccount, NEW r \in Launches, NEW at, launch' = launchOn(r, at)
  PROVE  Leaves(r, at, launch[r].defers, launch[r].started, launch[r].proved, launch[r].unclean,
           launch[r].failed)
BY SMTT(60) DEF LaunchAccount, LaunchShape, launchOn, LaunchFields, Leaves

LEMMA GoesOnKeeps ==
  ASSUME LaunchAccount, NEW r \in Launches, NEW at, launch' = launchOn(r, at),
         Fits(r, at, launch[r].defers, launch[r].started, launch[r].proved, launch[r].unclean,
           launch[r].failed),
         UNCHANGED <<launchOwner, vm, receipts>>
  PROVE  LaunchAccount'
BY GoesOn, OwnSteps

LEMMA EarlyFits ==
  ASSUME LaunchAccount, NEW r \in Launches, launch[r].at \in Early, NEW at \in Early \cup {"done"},
         UNCHANGED <<launchOwner, vm>>, NEW failed
  PROVE  Fits(r, at, launch[r].defers, launch[r].started, launch[r].proved, launch[r].unclean, failed)
<1>1. LaunchAt(r)
  BY DEF LaunchAccount, RunsAccounted
<1> QED
  BY SMTT(60), Stacked, <1>1 DEF Fits, LaunchAt, AtStep, Owning, Early, Binding, Planing, Activating,
     Targeted, Opened, Shut, Nothing

LEMMA PrepareRunKeeps ==
  ASSUME LaunchAccount, NEW r \in Launches, NEW req, PrepareRun(r, req)
  PROVE  LaunchAccount'
<1>0. launch[r].at \in Early /\ UNCHANGED <<launchOwner, vm, receipts>>
  BY DEF PrepareRun, Early
<1>1. CASE planAccepted(req)
  <2>1. launch' = [launch EXCEPT ![r] = [launch[r] EXCEPT !.at = "planned", !.req = req,
          !.plan = PlanRun(req)]]
    BY <1>1 DEF PrepareRun
  <2>2. Leaves(r, "planned", launch[r].defers, launch[r].started, launch[r].proved, launch[r].unclean,
          launch[r].failed)
    BY SMTT(60), <2>1 DEF LaunchAccount, LaunchShape, LaunchFields, Leaves
  <2>3. Fits(r, "planned", launch[r].defers, launch[r].started, launch[r].proved, launch[r].unclean,
          launch[r].failed)
    BY <1>0, EarlyFits DEF Early
  <2> QED BY <1>0, <2>2, <2>3, OwnSteps
<1>2. CASE ~planAccepted(req)
  <2>1. launch' = [launch EXCEPT ![r] = [launch[r] EXCEPT !.at = "done", !.failed = TRUE]]
    BY <1>2 DEF PrepareRun
  <2>2. Leaves(r, "done", launch[r].defers, launch[r].started, launch[r].proved, launch[r].unclean, TRUE)
    BY SMTT(60), <2>1 DEF LaunchAccount, LaunchShape, LaunchFields, Leaves
  <2>3. Fits(r, "done", launch[r].defers, launch[r].started, launch[r].proved, launch[r].unclean, TRUE)
    BY <1>0, EarlyFits DEF Early
  <2> QED BY <1>0, <2>2, <2>3, OwnSteps
<1> QED BY <1>1, <1>2

LEMMA EarlyKeeps ==
  ASSUME LaunchAccount, NEW r \in Launches, NEW at \in Early, launch[r].at \in Early,
         launch' = launchOn(r, at),
         UNCHANGED <<launchOwner, vm, receipts>>
  PROVE  LaunchAccount'
BY EarlyFits, GoesOnKeeps

\* What the steps up to the lock leave behind.
LEMMA SelectionKeeps ==
  ASSUME LaunchAccount, NEW r \in Launches,
         ApplyReviewedRun(r) \/ CreateSharedEnvironment(r) \/ NameInstance(r) \/ SelectRunEnvironment(r)
  PROVE  LaunchAccount'
<1>0. "select" \in Early /\ "name" \in Early /\ "lock" \in Early /\ "planned" \in Early
  BY DEF Early
<1>2. CASE ApplyReviewedRun(r)
  <2>1. CASE launch' = launchOn(r, "select")
    BY <1>0, <1>2, <2>1, EarlyKeeps DEF ApplyReviewedRun
  <2>2. CASE abortRun(r)
    BY <1>2, <2>2, AbortKeeps DEF ApplyReviewedRun, Failing
  <2> QED BY <1>2, <2>1, <2>2 DEF ApplyReviewedRun
<1>3. CASE CreateSharedEnvironment(r)
  BY <1>0, <1>3, EarlyKeeps DEF CreateSharedEnvironment
<1>4. CASE NameInstance(r)
  <2>1. CASE launch' = launchOn(r, "lock")
    BY <1>0, <1>4, <2>1, EarlyKeeps DEF NameInstance
  <2>2. CASE abortRun(r)
    BY <1>4, <2>2, AbortKeeps DEF NameInstance, Failing
  <2> QED BY <1>4, <2>1, <2>2 DEF NameInstance, mayFail
<1>5. CASE SelectRunEnvironment(r)
  <2>1. CASE launch' = launchOn(r, "lock")
    BY <1>0, <1>5, <2>1, EarlyKeeps DEF SelectRunEnvironment
  <2>2. CASE abortRun(r)
    BY <1>5, <2>2, AbortKeeps DEF SelectRunEnvironment, Failing
  <2> QED BY <1>5, <2>1, <2>2 DEF SelectRunEnvironment
<1> QED BY <1>2, <1>3, <1>4, <1>5

LEMMA LockKeeps ==
  ASSUME LaunchAccount, NEW r \in Launches, LockEnvironment(r)
  PROVE  LaunchAccount'
<1> DEFINE ok == ValidateEnvironmentRecord(launch[r].plan) /\ requireAttachableEnvironmentOwners
           step == IF ok THEN "begin" ELSE "return"
<1>0. launch[r].at = "lock" /\ UNCHANGED <<launchOwner, vm, receipts>>
  BY DEF LockEnvironment
<1>1. LaunchAt(r)
  BY DEF LaunchAccount, RunsAccounted
<1>2. launch[r].defers = << >>
  BY <1>0, <1>1 DEF LaunchAt, AtStep, Early
<1>3. Leaves(r, step, Unlocks, launch[r].started, launch[r].proved, launch[r].unclean, ~ok)
  <2>1. \E b : launch' = [launch EXCEPT ![r] = [[launch[r] EXCEPT !.defers = Unlocks] EXCEPT !.at = step,
          !.failed = ~ok, !.reboot = b]]
    <3>1. defer(launch[r], "unlock") = [launch[r] EXCEPT !.defers = Unlocks]
      BY <1>2 DEF defer, Unlocks, push
    <3>2. defer(launch[r], "unlock").plan = launch[r].plan
      BY SMTT(60), <3>1 DEF LaunchAccount, LaunchShape, LaunchFields
    <3> QED BY <3>1, <3>2 DEF LockEnvironment
  <2> HIDE DEF ok, step
  <2> QED BY SMTT(60), <2>1 DEF LaunchAccount, LaunchShape, LaunchFields, Leaves
<1>4. ok => NoDeadOwner
  BY DEF requireAttachableEnvironmentOwners, liveOwnerIDs, NoDeadOwner
<1>5. Fits(r, step, Unlocks, launch[r].started, launch[r].proved, launch[r].unclean, ~ok)
  <2> HIDE DEF ok
  <2> QED BY SMTT(60), Stacked, <1>0, <1>1, <1>4
             DEF Fits, LaunchAt, AtStep, Owning, Early, Binding, Planing, Activating,
     Targeted, Opened, Shut, Nothing
<1> QED BY <1>0, <1>3, <1>5, OwnSteps

\* l has deferred something that k has not.
SameBut(l, k) ==
  /\ DOMAIN l = LaunchFields /\ l.started = k.started /\ l.proved = k.proved
  /\ l.unclean = k.unclean /\ l.failed = k.failed

LEMMA Deferral ==
  ASSUME NEW l, NEW d, DOMAIN l = LaunchFields
  PROVE  SameBut(defer(l, d), l) /\ defer(l, d).defers = push(d, l.defers)
BY SMTT(60) DEF defer, push, LaunchFields, SameBut

\* The steps from the lock to the data plane.
LEMMA BeginKeeps ==
  ASSUME LaunchAccount, NEW r \in Launches, BeginRunSession(r)
  PROVE  LaunchAccount'
<1>0. launch[r].at = "begin" /\ UNCHANGED <<launchOwner, vm, receipts>> /\ LaunchAt(r)
  BY DEF BeginRunSession, LaunchAccount, RunsAccounted
<1>1. CASE launch' = [launch EXCEPT ![r] = [defer(defer(launch[r], "finish"),
             "close") EXCEPT !.at = "attach"]]
  <2> DEFINE l == defer(defer(launch[r], "finish"), "close")
  <2>1. launch[r].defers = Unlocks /\ DOMAIN launch[r] = LaunchFields
    BY <1>0 DEF LaunchAt, AtStep, LaunchAccount, LaunchShape
  <2>2. SameBut(defer(launch[r], "finish"), launch[r]) /\ defer(launch[r], "finish").defers = Finishes
    BY <2>1, Deferral DEF Finishes
  <2>3. SameBut(l, defer(launch[r], "finish")) /\ l.defers = Closes
    BY <2>2, Deferral DEF Closes, SameBut
  <2>4. Leaves(r, "attach", Closes, launch[r].started, launch[r].proved, launch[r].unclean,
          launch[r].failed)
    <3>1. launch' = [launch EXCEPT ![r] = [l EXCEPT !.at = "attach"]]
      BY <1>1
    <3> HIDE DEF l
    <3> QED BY SMTT(60), <2>2, <2>3, <3>1 DEF LaunchAccount, LaunchShape, LaunchFields, Leaves, SameBut
  <2>5. Fits(r, "attach", Closes, launch[r].started, launch[r].proved, launch[r].unclean,
          launch[r].failed)
    BY SMTT(60), Stacked, <1>0 DEF Fits, LaunchAt, AtStep, Owning, Early, Binding, Planing, Activating,
       Targeted, Opened, Shut, Nothing
  <2> QED BY <1>0, <2>4, <2>5, OwnSteps
<1>2. CASE mayFail(r)
  BY <1>0, <1>2, AbortKeeps DEF mayFail, Failing
<1> QED BY <1>1, <1>2 DEF BeginRunSession

\* A step within a group of steps that have deferred the same.
LEMMA WithinKeeps ==
  ASSUME LaunchAccount, NEW r \in Launches, NEW at, launch' = launchOn(r, at),
         \/ launch[r].at \in Binding /\ at \in Binding
         \/ launch[r].at \in Planing /\ at \in Planing
         \/ launch[r].at \in Activating /\ at \in Activating,
         UNCHANGED <<launchOwner, vm, receipts>>
  PROVE  LaunchAccount'
<1>1. LaunchAt(r)
  BY DEF LaunchAccount, RunsAccounted
<1>2. Fits(r, at, launch[r].defers, launch[r].started, launch[r].proved, launch[r].unclean,
        launch[r].failed)
  BY SMTT(60), Stacked, <1>1 DEF Fits, LaunchAt, AtStep, Owning, Early, Binding, Planing, Activating,
     Targeted, Opened, Shut, Nothing
<1> QED BY <1>2, GoesOnKeeps

LEMMA AttachmentKeeps ==
  ASSUME LaunchAccount, NEW r \in Launches, PlanRunWorkspaceAttachment(r)
  PROVE  LaunchAccount'
<1>0. launch[r].at = "attach" /\ UNCHANGED <<launchOwner, vm, receipts>> /\ LaunchAt(r)
  BY DEF PlanRunWorkspaceAttachment, LaunchAccount, RunsAccounted
<1>1. ASSUME NEW root, launch' = [launch EXCEPT ![r].root = root, ![r].at = "bind"]
      PROVE  LaunchAccount'
  <2>1. Leaves(r, "bind", launch[r].defers, launch[r].started, launch[r].proved, launch[r].unclean,
          launch[r].failed)
    BY SMTT(60), <1>1 DEF LaunchAccount, LaunchShape, LaunchFields, Leaves
  <2>2. Fits(r, "bind", launch[r].defers, launch[r].started, launch[r].proved, launch[r].unclean,
          launch[r].failed)
    BY SMTT(60), Stacked, <1>0 DEF Fits, LaunchAt, AtStep, Owning, Early, Binding, Planing, Activating,
       Targeted, Opened, Shut, Nothing
  <2> QED BY <1>0, <2>1, <2>2, OwnSteps
<1>2. CASE abortRun(r)
  BY <1>0, <1>2, AbortKeeps DEF Failing, Binding
<1> QED BY <1>1, <1>2 DEF PlanRunWorkspaceAttachment

LEMMA OwnerKeeps ==
  ASSUME LaunchAccount, NEW r \in Launches, ApplyRunWorkspaceAttachment(r)
  PROVE  LaunchAccount'
<1>0. launch[r].at = "bind" /\ UNCHANGED <<vm, receipts>> /\ LaunchAt(r)
  BY DEF ApplyRunWorkspaceAttachment, LaunchAccount, RunsAccounted
<1>1. CASE launch' = launchOn(r, "audit") /\ launchOwner' = [launchOwner EXCEPT ![r] = "starting"]
  <2>1. OthersKeep(r) /\ launchOwner'[r] = "starting" /\ ReceiptShape' /\ Earned'
    BY SMTT(60), <1>0, <1>1 DEF LaunchAccount, LaunchShape, OthersKeep, ReceiptShape, Earned, Nothing
  <2>2. Fits(r, "audit", launch[r].defers, launch[r].started, launch[r].proved, launch[r].unclean,
          launch[r].failed)
    BY SMTT(60), Stacked, <1>0, <2>1 DEF Fits, LaunchAt, AtStep, Owning, Early, Binding, Planing, Activating,
       Targeted, Opened, Shut, Nothing
  <2> QED BY ZenonT(60), <1>1, <2>1, <2>2, GoesOn, StepKeeps
<1>2. CASE abortRun(r) /\ UNCHANGED launchOwner
  BY <1>0, <1>2, AbortKeeps DEF Failing, Binding
<1> QED BY <1>1, <1>2 DEF ApplyRunWorkspaceAttachment, mayFail

LEMMA AuditKeeps ==
  ASSUME LaunchAccount, NEW r \in Launches, OpenRunSessionAudit(r)
  PROVE  LaunchAccount'
<1>0. launch[r].at = "audit" /\ UNCHANGED <<launchOwner, vm, receipts>> /\ LaunchAt(r)
  BY DEF OpenRunSessionAudit, LaunchAccount, RunsAccounted
<1>1. CASE launch' = [launch EXCEPT ![r] = [defer(launch[r], "end") EXCEPT !.at = "plane"]]
  <2>1. defer(launch[r], "end") = [launch[r] EXCEPT !.defers = Ends]
    BY <1>0 DEF defer, Ends, push, LaunchAt, AtStep
  <2>2. Leaves(r, "plane", Ends, launch[r].started, launch[r].proved, launch[r].unclean, launch[r].failed)
    BY SMTT(60), <1>1, <2>1 DEF LaunchAccount, LaunchShape, LaunchFields, Leaves
  <2>3. Fits(r, "plane", Ends, launch[r].started, launch[r].proved, launch[r].unclean, launch[r].failed)
    BY SMTT(60), Stacked, <1>0 DEF Fits, LaunchAt, AtStep, Owning, Early, Binding, Planing, Activating,
       Targeted, Opened, Shut, Nothing
  <2> QED BY <1>0, <2>2, <2>3, OwnSteps
<1>2. CASE mayFail(r)
  BY <1>0, <1>2, AbortKeeps DEF mayFail, Failing
<1> QED BY <1>1, <1>2 DEF OpenRunSessionAudit

\* The data plane and the preparation of the backend.
LEMMA PlaneKeeps ==
  ASSUME LaunchAccount, NEW r \in Launches, StartRunDataPlane(r) \/ startRunPortBridges(r)
  PROVE  LaunchAccount'
<1>0. launch[r].at \in Planing /\ UNCHANGED <<launchOwner, vm, receipts>> /\ LaunchAt(r)
  BY DEF StartRunDataPlane, startRunPortBridges, LaunchAccount, RunsAccounted, Planing
<1>1. CASE abortRun(r)
  BY <1>0, <1>1, AbortKeeps DEF Failing
<1>2. CASE StartRunDataPlane(r)
  <2>1. CASE launch' = launchOn(r, "planed")
    BY <1>0, <2>1, WithinKeeps DEF Planing
  <2>2. CASE launch' = launchOn(r, "bridges")
    BY <1>0, <2>2, WithinKeeps DEF Planing
  <2> QED BY <1>1, <1>2, <2>1, <2>2 DEF StartRunDataPlane
<1>3. ASSUME NEW c, launch' = [launch EXCEPT ![r].bridge = c, ![r].at = "planed"]
      PROVE  LaunchAccount'
  <2>1. Leaves(r, "planed", launch[r].defers, launch[r].started, launch[r].proved, launch[r].unclean,
          launch[r].failed)
    BY SMTT(60), <1>3 DEF LaunchAccount, LaunchShape, LaunchFields, Leaves
  <2>2. Fits(r, "planed", launch[r].defers, launch[r].started, launch[r].proved, launch[r].unclean,
          launch[r].failed)
    BY SMTT(60), Stacked, <1>0 DEF Fits, LaunchAt, AtStep, Owning, Early, Binding, Planing, Activating,
       Targeted, Opened, Shut, Nothing
  <2> QED BY <1>0, <2>1, <2>2, OwnSteps
<1> QED BY <1>1, <1>2, <1>3 DEF startRunPortBridges

LEMMA VerificationKeeps ==
  ASSUME LaunchAccount, NEW r \in Launches, attachRuntimeVerification(r)
  PROVE  LaunchAccount'
<1>0. /\ launch[r].at = "planed" /\ UNCHANGED <<launchOwner, vm>> /\ receipts' = removeReceipt
           /\ LaunchAt(r)
      /\ launch' = [launch EXCEPT ![r] = [defer(launch[r], "plane") EXCEPT !.at = "prepare"]]
  BY DEF attachRuntimeVerification, LaunchAccount, RunsAccounted
<1>1. defer(launch[r], "plane") = [launch[r] EXCEPT !.defers = Planes]
  BY <1>0 DEF defer, Planes, push, LaunchAt, AtStep, Planing
<1>2. Leaves(r, "prepare", Planes, launch[r].started, launch[r].proved, launch[r].unclean,
        launch[r].failed)
  BY SMTT(60), <1>0, <1>1 DEF LaunchAccount, LaunchShape, LaunchFields, Leaves
<1>3. Fits(r, "prepare", Planes, launch[r].started, launch[r].proved, launch[r].unclean, launch[r].failed)
  BY SMTT(60), Stacked, <1>0 DEF Fits, LaunchAt, AtStep, Owning, Early, Binding, Planing, Activating,
     Targeted, Opened, Shut, Nothing
<1>4. OthersKeep(r) /\ ReceiptShape' /\ Earned'
  BY SMTT(60), <1>0 DEF LaunchAccount, LaunchShape, OthersKeep, ReceiptShape, Earned, removeReceipt,
     NoReceipt, Nothing
<1> QED BY <1>2, <1>3, <1>4, StepKeeps

LEMMA PrepareKeeps ==
  ASSUME LaunchAccount, NEW r \in Launches, PrepareBackend(r)
  PROVE  LaunchAccount'
<1>0. launch[r].at = "prepare" /\ UNCHANGED <<launchOwner, vm, receipts>> /\ LaunchAt(r)
  BY DEF PrepareBackend, LaunchAccount, RunsAccounted
<1>1. ASSUME NEW m, launch' = [launch EXCEPT ![r] = [defer(launch[r],
               "cleanup") EXCEPT !.at = "activate", !.mount = m]]
      PROVE  LaunchAccount'
  <2>1. defer(launch[r], "cleanup") = [launch[r] EXCEPT !.defers = Cleanups]
    BY <1>0 DEF defer, Cleanups, push, LaunchAt, AtStep
  <2>2. Leaves(r, "activate", Cleanups, launch[r].started, launch[r].proved, launch[r].unclean,
          launch[r].failed)
    BY SMTT(60), <1>1, <2>1 DEF LaunchAccount, LaunchShape, LaunchFields, Leaves
  <2>3. Fits(r, "activate", Cleanups, launch[r].started, launch[r].proved, launch[r].unclean,
          launch[r].failed)
    BY SMTT(60), Stacked, <1>0 DEF Fits, LaunchAt, AtStep, Owning, Early, Binding, Planing, Activating,
       Targeted, Opened, Shut, Nothing
  <2> QED BY <1>0, <2>2, <2>3, OwnSteps
<1>2. CASE mayFail(r)
  BY <1>0, <1>2, AbortKeeps DEF mayFail, Failing
<1> QED BY <1>1, <1>2 DEF PrepareBackend

\* Turning the instance on makes every receipt one of an earlier boot.
LEMMA PowerOn ==
  ASSUME LaunchAccount
  PROVE  /\ DOMAIN powerOn = DOMAIN vm /\ powerOn.boot \in Nat /\ powerOn.procs = vm.procs
         /\ powerOn.up /\ receipts.runtime.boot <= powerOn.boot
         /\ receipts.runtime.boot = powerOn.boot => vm.up /\ powerOn = vm
BY SMTT(60) DEF LaunchAccount, LaunchShape, Earned, powerOn

LEMMA ActivationKeeps ==
  ASSUME LaunchAccount, NEW r \in Launches, startAndObserveRuntime(r)
  PROVE  LaunchAccount'
<1>0. launch[r].at = "activate" /\ UNCHANGED <<launchOwner, receipts>> /\ LaunchAt(r)
  BY DEF startAndObserveRuntime, LaunchAccount, RunsAccounted
<1>1. CASE vm' = powerOn /\ launch' = launchOn(r, "observe")
  <2>1. OthersKeep(r) /\ ReceiptShape' /\ Earned' /\ vm'.procs = vm.procs
    BY SMTT(60), <1>0, <1>1, PowerOn DEF LaunchAccount, LaunchShape, OthersKeep, ReceiptShape, Earned
  <2>2. Fits(r, "observe", launch[r].defers, launch[r].started, launch[r].proved, launch[r].unclean,
          launch[r].failed)
    BY SMTT(60), Stacked, <1>0, <2>1 DEF Fits, LaunchAt, AtStep, Owning, Early, Binding, Planing, Activating,
       Targeted, Opened, Shut, Nothing
  <2> QED BY <1>1, <2>1, <2>2, GoesOn, StepKeeps
<1>2. CASE mayFail(r) /\ UNCHANGED vm
  BY <1>0, <1>2, AbortKeeps DEF mayFail, Failing, Activating
<1> QED BY <1>1, <1>2 DEF startAndObserveRuntime

LEMMA ObservationKeeps ==
  ASSUME LaunchAccount, NEW r \in Launches, observeRuntime(r)
  PROVE  LaunchAccount'
<1>0. launch[r].at = "observe" /\ UNCHANGED launchOwner /\ LaunchAt(r)
  BY DEF observeRuntime, LaunchAccount, RunsAccounted
<1>1. ASSUME receipts' \in {receipts, [receipts EXCEPT !.runtime = [by |-> "run", boot |-> vm.boot]]},
             vm' = [vm EXCEPT !.ran = vm.procs # {}], launch' = launchOn(r, "receipt")
      PROVE  LaunchAccount'
  <2>0. launchOwner[r] # Nothing
    BY SMTT(60), <1>0 DEF LaunchAt, AtStep, Activating, Nothing
  <2>1. OthersKeep(r) /\ vm'.procs = vm.procs
    BY SMTT(60), <1>0, <1>1 DEF LaunchAccount, LaunchShape, OthersKeep
  <2>2. ReceiptShape' /\ Earned'
    BY SMTT(60), <1>0, <1>1, <2>0 DEF LaunchAccount, LaunchShape, ReceiptShape, Earned
  <2>3. Fits(r, "receipt", launch[r].defers, launch[r].started, launch[r].proved, launch[r].unclean,
          launch[r].failed)
    BY SMTT(60), Stacked, <1>0, <2>1 DEF Fits, LaunchAt, AtStep, Owning, Early, Binding, Planing, Activating,
       Targeted, Opened, Shut, Nothing
  <2> QED BY <1>1, <2>1, <2>2, <2>3, GoesOn, StepKeeps
<1>2. CASE mayFail(r) /\ UNCHANGED <<vm, receipts>>
  BY <1>0, <1>2, AbortKeeps DEF mayFail, Failing, Activating
<1> QED BY <1>1, <1>2 DEF observeRuntime

LEMMA ReceiptKeeps ==
  ASSUME LaunchAccount, NEW r \in Launches, WriteActivationReceipt(r)
  PROVE  LaunchAccount'
<1>0. /\ launch[r].at = "receipt" /\ UNCHANGED <<launchOwner, vm>> /\ LaunchAt(r)
      /\ launch' = launchOn(r, "start")
      /\ receipts' = [receipts EXCEPT !.activation = [owner |-> r, boot |-> vm.boot]]
  BY DEF WriteActivationReceipt, LaunchAccount, RunsAccounted
<1>1. OthersKeep(r) /\ ReceiptShape' /\ Earned'
  BY SMTT(60), <1>0 DEF LaunchAccount, LaunchShape, OthersKeep, ReceiptShape, Earned
<1>2. Fits(r, "start", launch[r].defers, launch[r].started, launch[r].proved, launch[r].unclean,
        launch[r].failed)
  BY SMTT(60), Stacked, <1>0, <1>1 DEF Fits, LaunchAt, AtStep, Owning, Early, Binding, Planing, Activating,
     Targeted, Opened, Shut, Nothing
<1> QED BY <1>0, <1>1, <1>2, GoesOn, StepKeeps

LEMMA StartKeeps ==
  ASSUME LaunchAccount, NEW r \in Launches, StartRunEnvironment(r)
  PROVE  LaunchAccount'
<1>0. launch[r].at = "start" /\ UNCHANGED receipts /\ LaunchAt(r)
  BY DEF StartRunEnvironment, LaunchAccount, RunsAccounted
<1>1. ASSUME NEW b, vm' = [vm EXCEPT !.applied = b], launchOwner' = [launchOwner EXCEPT ![r] = "running"],
             launch' = launchOn(r, "run")
      PROVE  LaunchAccount'
  <2>1. OthersKeep(r) /\ vm'.procs = vm.procs /\ launchOwner'[r] = "running"
    BY SMTT(60), <1>0, <1>1 DEF LaunchAccount, LaunchShape, OthersKeep
  <2>2. ReceiptShape' /\ Earned'
    BY SMTT(60), <1>0, <1>1, <2>1 DEF LaunchAccount, LaunchShape, ReceiptShape, Earned, Nothing
  <2>3. Fits(r, "run", launch[r].defers, launch[r].started, launch[r].proved, launch[r].unclean,
          launch[r].failed)
    BY SMTT(60), Stacked, <1>0, <2>1 DEF Fits, LaunchAt, AtStep, Owning, Early, Binding, Planing, Activating,
       Targeted, Opened, Shut, Nothing
  <2> QED BY <1>1, <2>1, <2>2, <2>3, GoesOn, StepKeeps
<1>2. CASE mayFail(r) /\ UNCHANGED <<vm, launchOwner>>
  BY <1>0, <1>2, AbortKeeps DEF mayFail, Failing, Activating
<1> QED BY <1>1, <1>2 DEF StartRunEnvironment

\* The target and its end.
LEMMA TargetKeeps ==
  ASSUME LaunchAccount, NEW r \in Launches, runIsolatedSession(r)
  PROVE  LaunchAccount'
<1>0. launch[r].at = "run" /\ UNCHANGED <<launchOwner, receipts>> /\ LaunchAt(r)
        /\ launchOwner[r] # Nothing
      /\ DOMAIN launchOwner = Launches
  BY DEF runIsolatedSession, LaunchAccount, RunsAccounted, LaunchAt, AtStep, Nothing, LaunchShape
<1>1. ASSUME NEW c, NEW p, vm.up, vm' = [vm EXCEPT !.procs = @ \cup {r}, !.ran = TRUE],
             launch' = [launch EXCEPT ![r].lease = c, ![r].started = TRUE, ![r].guard = "blind",
                                      ![r].at = "target", ![r].preview = p]
      PROVE  LaunchAccount'
  <2>1. OthersKeep(r) /\ vm'.procs = vm.procs \cup {r}
    BY SMTT(60), <1>0, <1>1 DEF LaunchAccount, LaunchShape, OthersKeep
  <2>2. ReceiptShape' /\ Earned'
    BY SMTT(60), <1>0, <1>1, <2>1 DEF LaunchAccount, LaunchShape, ReceiptShape, Earned
  <2>3. Leaves(r, "target", launch[r].defers, TRUE, launch[r].proved, launch[r].unclean, launch[r].failed)
    BY SMTT(60), <1>1 DEF LaunchAccount, LaunchShape, LaunchFields, Leaves
  <2>4. Fits(r, "target", launch[r].defers, TRUE, launch[r].proved, launch[r].unclean, launch[r].failed)
    BY SMTT(60), Stacked, <1>0, <2>1 DEF Fits, LaunchAt, AtStep, Owning, Early, Binding, Planing, Activating,
       Targeted, Opened, Shut, Nothing
  <2> QED BY <2>1, <2>2, <2>3, <2>4, StepKeeps
<1>2. ASSUME launch' = [launch EXCEPT ![r].failed = TRUE, ![r].at = "ended"], UNCHANGED vm
      PROVE  LaunchAccount'
  <2>1. Leaves(r, "ended", launch[r].defers, launch[r].started, launch[r].proved, launch[r].unclean, TRUE)
    BY SMTT(60), <1>2 DEF LaunchAccount, LaunchShape, LaunchFields, Leaves
  <2>2. Fits(r, "ended", launch[r].defers, launch[r].started, launch[r].proved, launch[r].unclean, TRUE)
    BY SMTT(60), Stacked, <1>0, <1>2 DEF Fits, LaunchAt, AtStep, Owning, Early, Binding, Planing, Activating,
       Targeted, Opened, Shut, Nothing
  <2> QED BY <1>0, <1>2, <2>1, <2>2, OwnSteps
<1>3. CASE connects("root")
  <2>1. vm.up
    BY <1>3 DEF connects
  <2> DEFINE c == acquiredClient("root")
             p == IF launch[r].bridge # 0 THEN "waiting" ELSE Nothing
  <2>2. launch' = [launch EXCEPT ![r].lease = c, ![r].started = TRUE, ![r].guard = "blind",
                                 ![r].at = "target", ![r].preview = p]
    BY <1>3 DEF runIsolatedSession
  <2>3. vm' = [vm EXCEPT !.procs = @ \cup {r}, !.ran = TRUE]
    BY <1>3 DEF runIsolatedSession
  <2> HIDE DEF c, p
  <2> QED BY <1>1, <2>1, <2>2, <2>3
<1>4. CASE ~connects("root")
  BY <1>2, <1>4 DEF runIsolatedSession
<1> QED BY <1>3, <1>4

LEMMA ExitKeeps ==
  ASSUME LaunchAccount, NEW r \in Launches, targetExits(r)
  PROVE  LaunchAccount'
<1>0. /\ launch[r].at = "target" /\ UNCHANGED <<launchOwner, receipts>> /\ LaunchAt(r)
      /\ launch' = [launch EXCEPT ![r].guard = Nothing, ![r].at = "prove"]
      /\ vm' = vm \/ vm' = [vm EXCEPT !.procs = @ \ {r}]
  BY DEF targetExits, LaunchAccount, RunsAccounted
<1>1. OthersKeep(r) /\ (r \in vm'.procs => r \in vm.procs)
  BY SMTT(60), <1>0 DEF LaunchAccount, LaunchShape, OthersKeep
<1>2. ReceiptShape' /\ Earned'
  BY SMTT(60), <1>0, <1>1 DEF LaunchAccount, LaunchShape, ReceiptShape, Earned
<1>3. Leaves(r, "prove", launch[r].defers, launch[r].started, launch[r].proved, launch[r].unclean,
        launch[r].failed)
  BY SMTT(60), <1>0 DEF LaunchAccount, LaunchShape, LaunchFields, Leaves
<1>4. Fits(r, "prove", launch[r].defers, launch[r].started, launch[r].proved, launch[r].unclean,
        launch[r].failed)
  BY SMTT(60), Stacked, <1>0, <1>1
     DEF Fits, LaunchAt, AtStep, Owning, Early, Binding, Planing, Activating,
     Targeted, Opened, Shut, Nothing
<1> QED BY <1>1, <1>2, <1>3, <1>4, StepKeeps

LEMMA AbandonedKeeps ==
  ASSUME LaunchAccount, NEW r \in Launches, targetAbandoned(r)
  PROVE  LaunchAccount'
<1>0. launch[r].at = "target" /\ UNCHANGED <<launchOwner, vm, receipts>> /\ LaunchAt(r)
  BY DEF targetAbandoned, LaunchAccount, RunsAccounted
<1>1. Leaves(r, "ended", launch[r].defers, launch[r].started, launch[r].proved, launch[r].unclean, TRUE)
  <2>1. PICK g : launch' = [launch EXCEPT ![r].guard = g, ![r].failed = TRUE, ![r].at = "ended"]
    BY ZenonT(60) DEF targetAbandoned
  <2> QED BY SMTT(60), <2>1 DEF LaunchAccount, LaunchShape, LaunchFields, Leaves
<1>2. Fits(r, "ended", launch[r].defers, launch[r].started, launch[r].proved, launch[r].unclean, TRUE)
  BY SMTT(60), Stacked, <1>0, <1>1
     DEF Fits, LaunchAt, AtStep, Owning, Early, Binding, Planing, Activating,
     Targeted, Opened, Shut, Nothing
<1> QED BY <1>0, <1>1, <1>2, OwnSteps

LEMMA ProofKeeps ==
  ASSUME LaunchAccount, NEW r \in Launches, verifyIsolatedSessionTerminated(r)
  PROVE  LaunchAccount'
<1> DEFINE failed == launch[r].failed \/ ~terminated(r)
<1>0. /\ launch[r].at = "prove" /\ UNCHANGED <<launchOwner, vm, receipts>> /\ LaunchAt(r)
      /\ launch' = [launch EXCEPT ![r].proved = terminated(r), ![r].failed = failed, ![r].at = "ended"]
  BY DEF verifyIsolatedSessionTerminated, LaunchAccount, RunsAccounted
<1> HIDE DEF failed
<1>1. Leaves(r, "ended", launch[r].defers, launch[r].started, terminated(r), launch[r].unclean, failed)
  BY SMTT(60), <1>0 DEF LaunchAccount, LaunchShape, LaunchFields, Leaves
<1>2. Fits(r, "ended", launch[r].defers, launch[r].started, terminated(r), launch[r].unclean, failed)
  BY SMTT(60), Stacked, <1>0, <1>1
     DEF Fits, LaunchAt, AtStep, Owning, Early, Binding, Planing, Activating,
     Targeted, Opened, Shut, Nothing, terminated
<1> QED BY <1>0, <1>1, <1>2, OwnSteps

LEMMA FinishTargetKeeps ==
  ASSUME LaunchAccount, NEW r \in Launches, finishTarget(r)
  PROVE  LaunchAccount'
<1>0. /\ launch[r].at = "ended" /\ UNCHANGED <<launchOwner, vm>> /\ LaunchAt(r)
      /\ launch' = [launch EXCEPT ![r].lease = 0, ![r].preview = Nothing, ![r].at = "return"]
      /\ receipts' = receipts \/ receipts' = removeReceipt
  BY DEF finishTarget, LaunchAccount, RunsAccounted
<1>1. Leaves(r, "return", launch[r].defers, launch[r].started, launch[r].proved, launch[r].unclean,
        launch[r].failed)
  BY SMTT(60), <1>0 DEF LaunchAccount, LaunchShape, LaunchFields, Leaves
<1>2. Fits(r, "return", launch[r].defers, launch[r].started, launch[r].proved, launch[r].unclean,
        launch[r].failed)
  BY SMTT(60), Stacked, <1>0, <1>1
     DEF Fits, LaunchAt, AtStep, Owning, Early, Binding, Planing, Activating,
     Targeted, Opened, Shut, Nothing
<1>3. OthersKeep(r) /\ ReceiptShape' /\ Earned'
  BY SMTT(60), <1>0 DEF LaunchAccount, LaunchShape, OthersKeep, ReceiptShape, Earned, removeReceipt,
     NoReceipt, Nothing
<1> QED BY <1>1, <1>2, <1>3, StepKeeps

\* A step that changes no run's progress and no owner record.
RunsStand ==
  /\ DOMAIN launch' = Launches /\ UNCHANGED launchOwner
  /\ \A o \in Launches :
       /\ DOMAIN launch'[o] = LaunchFields /\ launch'[o].at = launch[o].at
            /\ launch'[o].defers = launch[o].defers
       /\ launch'[o].started = launch[o].started /\ launch'[o].proved = launch[o].proved
       /\ launch'[o].unclean = launch[o].unclean /\ launch'[o].failed = launch[o].failed

GuestStands ==
  /\ DOMAIN vm' = {"up", "boot", "applied", "procs", "ran"} /\ vm'.boot \in Nat
       /\ vm'.procs \subseteq vm.procs

LEMMA StandKeeps ==
  ASSUME LaunchAccount, RunsStand, GuestStands, ReceiptShape', Earned'
  PROVE  LaunchAccount'
<1>1. LaunchShape'
  BY DEF LaunchAccount, LaunchShape, RunsStand, GuestStands, ReceiptShape
<1>2. RunsAccounted'
  <2> SUFFICES ASSUME NEW o \in Launches PROVE LaunchAt(o)'
    BY DEF RunsAccounted
  <2>1. LaunchAt(o)
    BY ZenonT(60) DEF LaunchAccount, RunsAccounted
  <2>2. AtStep(launch[o].at, launch[o].defers, launchOwner[o], o \in vm'.procs,
               launch[o].started, launch[o].proved, launch[o].unclean, launch[o].failed)
    BY SMTT(60), <2>1 DEF LaunchAt, AtStep, GuestStands
  <2> QED BY <2>2 DEF LaunchAt, RunsStand
<1>3. DeadRefuse'
  BY DEF LaunchAccount, DeadRefuse, NoDeadOwner, RunsStand
<1> QED BY <1>1, <1>2, <1>3 DEF LaunchAccount

LEMMA SideKeeps ==
  ASSUME LaunchAccount, NEW r \in Launches, openRunPreviewEvents(r) \/ ControlFileAppears(r)
           \/ guardianActs(r)
  PROVE  LaunchAccount'
<1>1. ASSUME NEW p, launch' = [launch EXCEPT ![r].preview = p], UNCHANGED <<launchOwner, vm, receipts>>
      PROVE  LaunchAccount'
  <2>1. RunsStand
    BY SMTT(60), <1>1 DEF LaunchAccount, LaunchShape, LaunchFields, RunsStand
  <2>2. GuestStands /\ ReceiptShape' /\ Earned'
    BY <1>1 DEF LaunchAccount, LaunchShape, GuestStands, ReceiptShape, Earned
  <2> QED BY <2>1, <2>2, StandKeeps
<1>2. ASSUME NEW g, launch' = [launch EXCEPT ![r].guard = g], UNCHANGED <<launchOwner, receipts>>,
             vm' = vm \/ vm' = [vm EXCEPT !.procs = @ \ {r}]
      PROVE  LaunchAccount'
  <2>1. RunsStand
    BY SMTT(60), <1>2 DEF LaunchAccount, LaunchShape, LaunchFields, RunsStand
  <2>2. GuestStands /\ ReceiptShape' /\ Earned'
    BY SMTT(60), <1>2 DEF LaunchAccount, LaunchShape, GuestStands, ReceiptShape, Earned
  <2> QED BY <2>1, <2>2, StandKeeps
<1>3. CASE openRunPreviewEvents(r)
  BY <1>1, <1>3 DEF openRunPreviewEvents
<1>4. CASE ControlFileAppears(r)
  <2>1. vm' = vm /\ UNCHANGED <<launchOwner, receipts>>
          /\ launch' = [launch EXCEPT ![r].guard = "watching"]
    BY <1>4 DEF ControlFileAppears
  <2> QED BY <1>2, <2>1
<1>5. CASE guardianActs(r)
  <2>1. UNCHANGED <<launchOwner, receipts>> /\ launch' = [launch EXCEPT ![r].guard = Nothing]
    BY <1>5 DEF guardianActs
  <2>2. CASE launch[r].guard = "killing"
    BY <1>2, <1>5, <2>1, <2>2 DEF guardianActs
  <2>3. CASE launch[r].guard # "killing"
    <3>1. vm' = [vm EXCEPT !.procs = @]
      BY <1>5, <2>3 DEF guardianActs
    <3>2. RunsStand
      BY SMTT(60), <2>1 DEF LaunchAccount, LaunchShape, LaunchFields, RunsStand
    <3>3. GuestStands /\ ReceiptShape' /\ Earned'
      BY SMTT(60), <2>1, <3>1 DEF LaunchAccount, LaunchShape, GuestStands, ReceiptShape, Earned
    <3> QED BY <3>2, <3>3, StandKeeps
  <2> QED BY <2>2, <2>3
<1> QED BY <1>3, <1>4, <1>5

\* The deferred clean-ups, each of them due in one state of the stack.
LEMMA Due ==
  ASSUME LaunchAccount, NEW r \in Launches, NEW d, due(r, d)
  PROVE  /\ launch[r].at = "return" /\ DOMAIN launch[r] = LaunchFields
         /\ \/ /\ d = "cleanup" /\ launch[r].defers = Cleanups
                    /\ launchOwner[r] \in {"starting", "running"}
               /\ r \in vm.procs => launch[r].started /\ ~launch[r].proved
            \/ /\ \/ d = "plane" /\ launch[r].defers = Planes
                  \/ d = "end" /\ launch[r].defers = Ends
                  \/ d = "close" /\ launch[r].defers = Closes
                  \/ d = "finish" /\ launch[r].defers = Finishes
               /\ launchOwner[r] \in {Nothing, "starting", "running"}
               /\ r \in vm.procs => launch[r].unclean /\ launch[r].failed /\ launchOwner[r] # Nothing
            \/ /\ d = "unlock" /\ launch[r].defers = Unlocks /\ launchOwner[r] \in {Nothing, "failed"}
               /\ r \in vm.procs => launch[r].failed /\ launchOwner[r] # Nothing
<1>1. LaunchAt(r) /\ DOMAIN launch[r] = LaunchFields
  BY DEF LaunchAccount, RunsAccounted, LaunchShape
<1> QED BY Stacked, <1>1 DEF LaunchAt, AtStep, due, Opened, Shut

LEMMA Popped ==
  ASSUME NEW l, DOMAIN l = LaunchFields
  PROVE  SameBut(popped(l), l) /\ popped(l).defers = Tail(l.defers) /\ popped(l).at = l.at
BY SMTT(60) DEF popped, LaunchFields, SameBut

LEMMA AtReturn ==
  ASSUME NEW defers, NEW own, NEW left, NEW started, NEW proved, NEW unclean, NEW failed,
         left => own # Nothing,
         \/ defers \in Opened /\ own \in {Nothing, "starting", "running"} /\ (left => unclean /\ failed)
         \/ defers \in Shut /\ own \in {Nothing, "failed"} /\ (left => failed)
  PROVE  AtStep("return", defers, own, left, started, proved, unclean, failed)
BY DEF AtStep, Early, Binding, Planing, Activating, Targeted

LEMMA CleanupKeeps ==
  ASSUME LaunchAccount, NEW r \in Launches, CleanupBackend(r)
  PROVE  LaunchAccount'
<1> DEFINE bad == launch[r].started /\ ~launch[r].proved /\ ~(vm.up => terminated(r))
           unclean == launch[r].unclean \/ bad
           failed == launch[r].failed \/ bad
           l == popped(launch[r])
<1>0. due(r, "cleanup") /\ UNCHANGED <<launchOwner, vm, receipts>>
  BY DEF CleanupBackend
<1>a. launch' = [launch EXCEPT ![r] = [l EXCEPT !.unclean = l.unclean \/ bad, !.failed = l.failed \/ bad]]
  BY SMTT(60) DEF CleanupBackend
<1>1. /\ launch[r].at = "return" /\ DOMAIN launch[r] = LaunchFields /\ launch[r].defers = Cleanups
      /\ launchOwner[r] \in {"starting", "running"}
      /\ r \in vm.procs => launch[r].started /\ ~launch[r].proved
  <2> HIDE DEF bad, unclean, failed, l
  <2> QED BY SMTT(60), <1>0, Due
<1>2. SameBut(l, launch[r]) /\ l.defers = Planes /\ l.at = "return"
  BY <1>1, Popped, Stacked
<1>3. r \in vm.procs => bad
  BY <1>1 DEF LaunchAccount, Earned, terminated
<1>4. launch' = [launch EXCEPT ![r] = [l EXCEPT !.unclean = unclean, !.failed = failed]]
  BY <1>a, <1>2 DEF SameBut
<1> HIDE DEF bad, l
<1>5. (r \in vm.procs => unclean /\ failed)
  BY <1>3
<1> HIDE DEF unclean, failed
<1>6. Leaves(r, "return", Planes, launch[r].started, launch[r].proved, unclean, failed)
  BY SMTT(60), <1>2, <1>4 DEF LaunchAccount, LaunchShape, LaunchFields, Leaves, SameBut
<1>7. Fits(r, "return", Planes, launch[r].started, launch[r].proved, unclean, failed)
  <2>1. AtStep("return", Planes, launchOwner[r], r \in vm.procs, launch[r].started, launch[r].proved,
          unclean, failed)
    BY <1>1, <1>5, AtReturn DEF Opened, Nothing
  <2>2. Owning(launch[r].at, launch[r].defers)
    BY <1>1, Stacked DEF Owning, Shut, Early
  <2> QED BY <1>0, <1>1, <2>1, <2>2 DEF Fits
<1> QED BY <1>0, <1>6, <1>7, OwnSteps

\* A clean-up in the open part of the stack, which may fail the run.
LEMMA OpenedFits ==
  ASSUME LaunchAccount, NEW r \in Launches, due(r, "plane") \/ due(r, "end") \/ due(r, "close")
           \/ due(r, "finish"),
         UNCHANGED <<launchOwner, vm>>, NEW unclean, NEW failed,
         r \in vm.procs => (launch[r].unclean => unclean) /\ (launch[r].failed => failed),
         due(r, "finish") => launchOwner[r] = Nothing
  PROVE  Fits(r, "return", Tail(launch[r].defers), launch[r].started, launch[r].proved, unclean, failed)
<1>1. /\ launch[r].at = "return" /\ launch[r].defers \in Opened
      /\ launchOwner[r] \in {Nothing, "starting", "running"}
      /\ r \in vm.procs => launch[r].unclean /\ launch[r].failed /\ launchOwner[r] # Nothing
      /\ \/ Tail(launch[r].defers) \in Opened
         \/ due(r, "finish") /\ Tail(launch[r].defers) \in Shut
  <2>1. CASE due(r, "plane")
    BY <2>1, Due, Stacked DEF Opened, Shut
  <2>2. CASE due(r, "end")
    BY <2>2, Due, Stacked DEF Opened, Shut
  <2>3. CASE due(r, "close")
    BY <2>3, Due, Stacked DEF Opened, Shut
  <2>4. CASE due(r, "finish")
    BY <2>4, Due, Stacked DEF Opened, Shut
  <2> QED BY <2>1, <2>2, <2>3, <2>4
<1>2. AtStep("return", Tail(launch[r].defers), launchOwner[r], r \in vm.procs, launch[r].started,
        launch[r].proved, unclean, failed)
  BY <1>1, AtReturn
<1>3. Owning(launch[r].at, launch[r].defers)
  BY <1>1, Stacked DEF Owning, Shut, Early, Opened
<1> QED BY <1>1, <1>2, <1>3 DEF Fits

LEMMA PlaneClosed ==
  ASSUME LaunchAccount, NEW r \in Launches, CloseRunDataPlane(r)
  PROVE  LaunchAccount'
<1> DEFINE l == popped(launch[r])
<1>0. /\ due(r, "plane") /\ UNCHANGED <<launchOwner, vm, receipts>>
      /\ launch' = [launch EXCEPT ![r] = [l EXCEPT !.bridge = 0]]
  BY DEF CloseRunDataPlane
<1>1. SameBut(l, launch[r]) /\ l.defers = Tail(launch[r].defers) /\ l.at = "return"
  BY <1>0, Due, Popped
<1> HIDE DEF l
<1>2. Leaves(r, "return", Tail(launch[r].defers), launch[r].started, launch[r].proved, launch[r].unclean,
        launch[r].failed)
  BY SMTT(60), <1>0, <1>1 DEF LaunchAccount, LaunchShape, LaunchFields, Leaves, SameBut
<1>3. Fits(r, "return", Tail(launch[r].defers), launch[r].started, launch[r].proved, launch[r].unclean,
        launch[r].failed)
  <2>1. ~due(r, "finish")
    BY <1>0 DEF due
  <2> QED BY <1>0, <2>1, OpenedFits
<1> QED BY <1>0, <1>2, <1>3, OwnSteps

LEMMA PopLeaves ==
  ASSUME LaunchAccount, NEW r \in Launches, NEW d, due(r, d),
         launch' = [launch EXCEPT ![r] = popped(launch[r])]
  PROVE  Leaves(r, "return", Tail(launch[r].defers), launch[r].started, launch[r].proved,
           launch[r].unclean, launch[r].failed)
<1> DEFINE l == popped(launch[r])
<1>1. SameBut(l, launch[r]) /\ l.defers = Tail(launch[r].defers) /\ l.at = "return"
  BY Due, Popped
<1>2. launch' = [launch EXCEPT ![r] = l]
  OBVIOUS
<1> HIDE DEF l
<1> QED BY SMTT(60), <1>1, <1>2 DEF LaunchAccount, LaunchShape, Leaves, SameBut

LEMMA SessionClosed ==
  ASSUME LaunchAccount, NEW r \in Launches, CloseRunSession(r) \/ FinishWithoutOwner(r)
  PROVE  LaunchAccount'
<1>0. UNCHANGED <<launchOwner, vm, receipts>>
  BY DEF CloseRunSession, FinishWithoutOwner
<1>1. /\ due(r, "end") \/ due(r, "close") \/ due(r, "finish")
      /\ due(r, "finish") => launchOwner[r] = Nothing
  BY DEF CloseRunSession, FinishWithoutOwner, due
<1>2. CASE launch' = [launch EXCEPT ![r] = popped(launch[r])]
  <2>1. Fits(r, "return", Tail(launch[r].defers), launch[r].started, launch[r].proved, launch[r].unclean,
          launch[r].failed)
    BY <1>0, <1>1, OpenedFits
  <2> QED BY <1>0, <1>1, <1>2, <2>1, PopLeaves, OwnSteps
<1>3. CASE launch' = [launch EXCEPT ![r] = [popped(launch[r]) EXCEPT !.unclean = TRUE, !.failed = TRUE]]
  <2> DEFINE l == popped(launch[r])
  <2>1. SameBut(l, launch[r]) /\ l.defers = Tail(launch[r].defers) /\ l.at = "return"
    BY <1>1, Due, Popped
  <2>2. launch' = [launch EXCEPT ![r] = [l EXCEPT !.unclean = TRUE, !.failed = TRUE]]
    BY <1>3
  <2> HIDE DEF l
  <2>3. Leaves(r, "return", Tail(launch[r].defers), launch[r].started, launch[r].proved, TRUE, TRUE)
    BY SMTT(60), <2>1, <2>2 DEF LaunchAccount, LaunchShape, LaunchFields, Leaves, SameBut
  <2>4. Fits(r, "return", Tail(launch[r].defers), launch[r].started, launch[r].proved, TRUE, TRUE)
    BY <1>0, <1>1, OpenedFits
  <2> QED BY <1>0, <2>3, <2>4, OwnSteps
<1> QED BY <1>2, <1>3 DEF CloseRunSession, FinishWithoutOwner

\* The owner record goes, or stays behind as failed.
LEMMA Finishing ==
  ASSUME LaunchAccount, NEW r \in Launches, due(r, "finish")
  PROVE  /\ SameBut(popped(launch[r]), launch[r]) /\ popped(launch[r]).defers = Unlocks
              /\ popped(launch[r]).at = "return"
         /\ r \in vm.procs => launch[r].unclean /\ launch[r].failed
         /\ NoDeadOwner /\ launch[r].at = "return" /\ ~Owning("return", Unlocks)
<1>1. /\ launch[r].at = "return" /\ DOMAIN launch[r] = LaunchFields /\ launch[r].defers = Finishes
      /\ r \in vm.procs => launch[r].unclean /\ launch[r].failed
  BY SMTT(60), Due
<1>2. Owning(launch[r].at, launch[r].defers)
  BY <1>1, Stacked DEF Owning, Shut, Early
<1>3. ~Owning("return", Unlocks)
  BY DEF Owning, Shut
<1> QED BY ZenonT(60), <1>1, <1>2, <1>3, Popped, Stacked DEF LaunchAccount, DeadRefuse

LEMMA LateFinishKeeps ==
  ASSUME LaunchAccount, NEW r \in Launches, FinishWithoutLock(r)
  PROVE  LaunchAccount'
<1> DEFINE l == popped(launch[r])
<1>0. /\ due(r, "finish") /\ UNCHANGED <<vm, receipts>>
           /\ launchOwner' = [launchOwner EXCEPT ![r] = "failed"]
      /\ launch' = [launch EXCEPT ![r] = [l EXCEPT !.failed = TRUE]]
  BY DEF FinishWithoutLock
<1>1. SameBut(l, launch[r]) /\ l.defers = Unlocks /\ l.at = "return"
  BY <1>0, Finishing
<1> HIDE DEF l
<1>2. Leaves(r, "return", Unlocks, launch[r].started, launch[r].proved, launch[r].unclean, TRUE)
  BY SMTT(60), <1>0, <1>1 DEF LaunchAccount, LaunchShape, LaunchFields, Leaves, SameBut
<1>3. OthersKeep(r) /\ launchOwner'[r] = "failed" /\ ReceiptShape' /\ Earned'
  BY SMTT(60), <1>0 DEF LaunchAccount, LaunchShape, OthersKeep, ReceiptShape, Earned, Nothing
<1>4. Fits(r, "return", Unlocks, launch[r].started, launch[r].proved, launch[r].unclean, TRUE)
  <2>1. AtStep("return", Unlocks, launchOwner'[r], r \in vm'.procs, launch[r].started, launch[r].proved,
          launch[r].unclean, TRUE)
    BY <1>3, AtReturn DEF Shut, Nothing
  <2> QED BY <1>0, <2>1, Finishing DEF Fits
<1> QED BY <1>2, <1>3, <1>4, StepKeeps

LEMMA FinishKeeps ==
  ASSUME LaunchAccount, NEW r \in Launches, finishConcurrentRunEnvironment(r)
  PROVE  LaunchAccount'
<1> DEFINE stale == {o \in Launches \ {r} : launchOwner[o] # Nothing} \ liveOwnerIDs
           refused == \E o \in stale : launchOwner[o] \in {"cleaning", "failed"}
           bad == launch[r].unclean \/ refused
           failed == launch[r].failed \/ refused
           l == popped(launch[r])
<1>0. due(r, "finish") /\ vm' = vm
  BY DEF finishConcurrentRunEnvironment
<1>1. launchOwner' = [o \in Launches |-> IF o = r THEN IF bad THEN "failed" ELSE Nothing
                                         ELSE IF o \in stale /\ ~refused THEN Nothing ELSE launchOwner[o]]
  BY DEF finishConcurrentRunEnvironment
<1>2. \E a : receipts' = [runtime |-> NoReceipt, activation |-> a]
  BY DEF finishConcurrentRunEnvironment
<1>3. launch' = [launch EXCEPT ![r] = [l EXCEPT !.failed = l.failed \/ refused]]
  BY DEF finishConcurrentRunEnvironment
<1>4. /\ SameBut(l, launch[r]) /\ l.defers = Unlocks /\ l.at = "return"
      /\ r \in vm.procs => launch[r].unclean /\ launch[r].failed
      /\ NoDeadOwner
  BY <1>0, Finishing
<1>5. launch' = [launch EXCEPT ![r] = [l EXCEPT !.failed = failed]]
  BY <1>3, <1>4 DEF SameBut
<1>6. ASSUME NEW o \in Launches, o # r
      PROVE  launchOwner'[o] = launchOwner[o]
  <2>1. o \in stale => launch[o].at = "dead" \/ launchOwner[o] = "failed"
    BY DEF liveOwnerIDs
  <2>2. o \in stale => launchOwner[o] # Nothing
    OBVIOUS
  <2>3. o \in stale => refused
    BY <1>4, <2>1, <2>2 DEF NoDeadOwner
  <2> HIDE DEF stale, refused
  <2> QED BY <1>1, <1>6, <2>3
<1>7. /\ launchOwner'[r] \in {Nothing, "failed"}
      /\ r \in vm.procs => launchOwner'[r] = "failed" /\ failed
      /\ DOMAIN launchOwner' = Launches
  <2> HIDE DEF stale, refused
  <2> QED BY <1>1, <1>4
<1> HIDE DEF stale, refused, bad, failed, l
<1>8. Leaves(r, "return", Unlocks, launch[r].started, launch[r].proved, launch[r].unclean, failed)
  BY SMTT(60), <1>4, <1>5 DEF LaunchAccount, LaunchShape, LaunchFields, Leaves, SameBut
<1>9. Fits(r, "return", Unlocks, launch[r].started, launch[r].proved, launch[r].unclean, failed)
  <2>1. AtStep("return", Unlocks, launchOwner'[r], r \in vm'.procs, launch[r].started, launch[r].proved,
          launch[r].unclean, failed)
    BY <1>0, <1>7, AtReturn DEF Shut, Nothing
  <2> QED BY <1>0, <2>1, Finishing DEF Fits
<1>10. OthersKeep(r)
  BY <1>0, <1>6, <1>7 DEF LaunchAccount, LaunchShape, OthersKeep
<1>11. ReceiptShape' /\ Earned'
  BY SMTT(60), <1>0, <1>2 DEF LaunchAccount, LaunchShape, ReceiptShape, Earned, NoReceipt, Nothing
<1> QED BY <1>8, <1>9, <1>10, <1>11, StepKeeps

LEMMA UnlockKeeps ==
  ASSUME LaunchAccount, NEW r \in Launches, UnlockEnvironment(r)
  PROVE  LaunchAccount'
<1>0. /\ due(r, "unlock") /\ UNCHANGED <<launchOwner, vm, receipts>>
      /\ launch' = [launch EXCEPT ![r] = popped(launch[r])]
  BY DEF UnlockEnvironment
<1>1. /\ launch[r].at = "return" /\ launch[r].defers = Unlocks /\ launchOwner[r] \in {Nothing, "failed"}
      /\ r \in vm.procs => launch[r].failed /\ launchOwner[r] # Nothing
  BY SMTT(60), <1>0, Due
<1>2. Leaves(r, "return", << >>, launch[r].started, launch[r].proved, launch[r].unclean, launch[r].failed)
  BY <1>0, <1>1, PopLeaves, Stacked
<1>3. Fits(r, "return", << >>, launch[r].started, launch[r].proved, launch[r].unclean, launch[r].failed)
  <2>1. AtStep("return", << >>, launchOwner[r], r \in vm.procs, launch[r].started, launch[r].proved,
          launch[r].unclean, launch[r].failed)
    BY <1>1, AtReturn DEF Shut
  <2>2. ~Owning("return", << >>)
    BY DEF Owning, Shut
  <2> QED BY <1>0, <1>1, <2>1, <2>2 DEF Fits
<1> QED BY <1>0, <1>2, <1>3, OwnSteps

LEMMA ReturnKeeps ==
  ASSUME LaunchAccount, NEW r \in Launches, ReturnFromApply(r)
  PROVE  LaunchAccount'
<1>0. launch[r].at = "return" /\ launch[r].defers = << >> /\ UNCHANGED <<launchOwner, vm, receipts>>
        /\ LaunchAt(r)
  BY DEF ReturnFromApply, LaunchAccount, RunsAccounted
<1>1. launchOwner[r] \in {Nothing, "failed"}
        /\ (r \in vm.procs => launch[r].failed /\ launchOwner[r] # Nothing)
  BY Stacked, <1>0 DEF LaunchAt, AtStep, Opened, Shut
<1>2. Leaves(r, "done", << >>, FALSE, FALSE, FALSE, launch[r].failed)
  <2>1. PICK f, g : /\ f = launch[r].failed
                    /\ launch' = [launch EXCEPT ![r] = [IdleLaunch EXCEPT !.at = "done", !.failed = f,
                         !.guard = g]]
    BY DEF ReturnFromApply
  <2>2. /\ IdleLaunch.defers = << >> /\ IdleLaunch.started = FALSE /\ IdleLaunch.proved = FALSE
        /\ IdleLaunch.unclean = FALSE
    BY DEF IdleLaunch
  <2> QED BY SMTT(60), <2>1, <2>2, IdleFields DEF LaunchAccount, LaunchShape, LaunchFields, Leaves
<1>3. Fits(r, "done", << >>, FALSE, FALSE, FALSE, launch[r].failed)
  BY <1>0, <1>1 DEF Fits, AtStep, Owning, Early, Binding, Planing, Activating, Targeted
<1> QED BY <1>0, <1>2, <1>3, OwnSteps

LEMMA WarmKeeps ==
  ASSUME LaunchAccount, NEW r \in Launches, WarmActivate(r)
  PROVE  LaunchAccount'
BY WithinKeeps DEF WarmActivate, Activating

\* The steps that are not a run's.
LEMMA SurroundingsKeep ==
  ASSUME LaunchAccount, UNCHANGED <<launch, launchOwner, vm, receipts>>
  PROVE  LaunchAccount'
<1>1. RunsStand /\ GuestStands /\ ReceiptShape' /\ Earned'
  BY DEF LaunchAccount, LaunchShape, RunsStand, GuestStands, ReceiptShape, Earned
<1> QED BY <1>1, StandKeeps

LEMMA VerifyLockKeeps ==
  ASSUME LaunchAccount, LockForVerify
  PROVE  LaunchAccount'
<1>0. UNCHANGED <<launch, launchOwner, vm>> /\ (receipts' = receipts \/ receipts' = removeReceipt)
  BY DEF LockForVerify
<1>1. RunsStand /\ GuestStands
  BY <1>0 DEF LaunchAccount, LaunchShape, RunsStand, GuestStands
<1>2. ReceiptShape' /\ Earned'
  BY SMTT(60), <1>0 DEF LaunchAccount, LaunchShape, ReceiptShape, Earned, removeReceipt, NoReceipt, Nothing
<1> QED BY <1>1, <1>2, StandKeeps

LEMMA VerifyKeeps ==
  ASSUME LaunchAccount, VerifyRuntime
  PROVE  LaunchAccount'
<1>0. /\ UNCHANGED <<launch, launchOwner>> /\ vm' = [powerOn EXCEPT !.ran = powerOn.procs # {}]
      /\ \/ receipts' = [receipts EXCEPT !.runtime = [by |-> "verify", boot |-> powerOn.boot]]
         \/ receipts' = removeReceipt
  BY DEF VerifyRuntime
<1>1. /\ DOMAIN powerOn = {"up", "boot", "applied", "procs", "ran"} /\ powerOn.boot \in Nat
           /\ powerOn.procs = vm.procs
      /\ powerOn.up
  BY PowerOn DEF LaunchAccount, LaunchShape
<1>2. /\ DOMAIN vm' = {"up", "boot", "applied", "procs", "ran"} /\ vm'.boot = powerOn.boot
           /\ vm'.procs = vm.procs
      /\ vm'.up /\ vm'.ran = (vm.procs # {})
  <2> DEFINE ran == powerOn.procs # {}
  <2>1. vm' = [powerOn EXCEPT !.ran = ran] /\ ran = (vm.procs # {})
    BY <1>0, <1>1
  <2> HIDE DEF ran
  <2> QED BY SMTT(60), <1>1, <2>1
<1>3. vm.procs # {} => \E r \in Launches : launchOwner[r] # Nothing
  <2>1. ASSUME NEW r \in Launches, r \in vm.procs PROVE launchOwner[r] # Nothing
    BY <2>1 DEF LaunchAccount, RunsAccounted, LaunchAt, AtStep
  <2> QED BY <2>1 DEF LaunchAccount, LaunchShape
<1>4. RunsStand /\ GuestStands
  BY <1>0, <1>1, <1>2 DEF LaunchAccount, LaunchShape, RunsStand, GuestStands
<1>5. ReceiptShape' /\ Earned'
  <2>1. CASE receipts' = removeReceipt
    BY SMTT(60), <1>0, <1>1, <1>2, <2>1
       DEF LaunchAccount, LaunchShape, ReceiptShape, Earned, removeReceipt, NoReceipt, Nothing
  <2>2. CASE receipts' = [receipts EXCEPT !.runtime = [by |-> "verify", boot |-> powerOn.boot]]
    <3>1. /\ DOMAIN receipts' = {"runtime", "activation"} /\ receipts'.runtime.boot = powerOn.boot
          /\ receipts'.runtime.by = "verify"
      BY SMTT(60), <2>2 DEF LaunchAccount, LaunchShape
    <3>2. receipts'.runtime.boot = vm'.boot /\ vm'.boot \in Nat
      BY <1>1, <1>2, <3>1
    <3>3. receipts'.runtime.boot <= vm'.boot
      BY SMTT(60), <3>2
    <3> QED BY <1>0, <1>2, <1>3, <3>1, <3>2, <3>3 DEF ReceiptShape, Earned
  <2> QED BY <1>0, <2>1, <2>2
<1> QED BY <1>4, <1>5, StandKeeps

\* A stop finds no run that needs its owner record.
LEMMA StopKeeps ==
  ASSUME LaunchAccount, StopInstance
  PROVE  LaunchAccount'
<1>0. /\ liveOwnerIDs = {} /\ vm' = [vm EXCEPT !.up = FALSE, !.procs = {}]
      /\ launchOwner' = [r \in Launches |-> Nothing]
      /\ receipts' = [receipts EXCEPT !.activation = NoActivation]
      /\ launch' = [r \in Launches |-> [launch[r] EXCEPT !.guard = Nothing]]
  BY DEF StopInstance
<1>1. /\ DOMAIN launch' = Launches
      /\ \A o \in Launches :
           /\ DOMAIN launch'[o] = LaunchFields /\ launch'[o].at = launch[o].at
                /\ launch'[o].defers = launch[o].defers
           /\ launch'[o].started = launch[o].started /\ launch'[o].proved = launch[o].proved
           /\ launch'[o].unclean = launch[o].unclean /\ launch'[o].failed = launch[o].failed
  BY SMTT(60), <1>0 DEF LaunchAccount, LaunchShape, LaunchFields
<1>2. /\ DOMAIN vm' = {"up", "boot", "applied", "procs", "ran"} /\ vm'.boot = vm.boot /\ vm'.procs = {}
           /\ ~vm'.up
  BY SMTT(60), <1>0 DEF LaunchAccount, LaunchShape
<1>3. DOMAIN launchOwner' = Launches /\ \A o \in Launches : launchOwner'[o] = Nothing
  BY <1>0
<1>4. DOMAIN receipts' = {"runtime", "activation"} /\ receipts'.runtime = receipts.runtime
  BY SMTT(60), <1>0 DEF LaunchAccount, LaunchShape
<1>5. LaunchShape'
  BY <1>1, <1>2, <1>3, <1>4 DEF LaunchAccount, LaunchShape
<1>6. RunsAccounted'
  <2> SUFFICES ASSUME NEW o \in Launches PROVE LaunchAt(o)'
    BY DEF RunsAccounted
  <2>1. LaunchAt(o)
    BY DEF LaunchAccount, RunsAccounted
  <2>2. launchOwner[o] \in {Nothing, "failed"} \/ launch[o].at = "dead"
    BY ZenonT(60), <1>0 DEF liveOwnerIDs
  <2>3. AtStep(launch[o].at, launch[o].defers, Nothing, o \in vm'.procs,
               launch[o].started, launch[o].proved, launch[o].unclean, launch[o].failed)
    BY SMTT(60), <1>2, <2>1, <2>2
       DEF LaunchAt, AtStep, Early, Binding, Planing, Activating, Targeted, Nothing
  <2> QED BY <1>1, <1>3, <2>3 DEF LaunchAt
<1>7. DeadRefuse' /\ Earned'
  BY <1>2, <1>3, <1>4 DEF LaunchAccount, DeadRefuse, NoDeadOwner, Earned
<1> QED BY <1>5, <1>6, <1>7 DEF LaunchAccount

\* The runs that were on their way are dead, their owner records stay.
LEMMA CrashKeeps ==
  ASSUME LaunchAccount, DaemonDiesInRun
  PROVE  LaunchAccount'
<1>0. UNCHANGED <<launchOwner, vm, receipts>> /\ DOMAIN launch' = Launches
  BY DEF DaemonDiesInRun
<1>1. ASSUME NEW o \in Launches
      PROVE  \/ launch'[o] = launch[o] /\ launch[o].at \in {"idle", "done", "dead"}
             \/ DOMAIN launch'[o] = LaunchFields /\ launch'[o].at = "dead" /\ launch'[o].defers = << >>
  <2>1. CASE launch[o].at \in {"idle", "done", "dead"}
    BY <2>1 DEF DaemonDiesInRun
  <2>2. CASE launch[o].at \notin {"idle", "done", "dead"}
    <3>1. \E g : launch'[o] = [IdleLaunch EXCEPT !.at = "dead", !.guard = g]
      BY <2>2 DEF DaemonDiesInRun
    <3>2. IdleLaunch.defers = << >>
      BY DEF IdleLaunch
    <3> QED BY SMTT(60), <3>1, <3>2, IdleFields DEF LaunchFields
  <2> QED BY <2>1, <2>2
<1>2. LaunchShape'
  BY <1>0, <1>1 DEF LaunchAccount, LaunchShape
<1>3. RunsAccounted'
  <2> SUFFICES ASSUME NEW o \in Launches PROVE LaunchAt(o)'
    BY DEF RunsAccounted
  <2>1. LaunchAt(o)
    BY DEF LaunchAccount, RunsAccounted
  <2>2. CASE launch'[o] = launch[o]
    BY <1>0, <2>1, <2>2 DEF LaunchAt
  <2>3. CASE launch'[o].at = "dead" /\ launch'[o].defers = << >>
    <3>1. o \in vm.procs => launchOwner[o] # Nothing
      BY <2>1 DEF LaunchAt, AtStep
    <3> QED BY <1>0, <2>3, <3>1 DEF LaunchAt, AtStep, Early, Binding, Planing, Activating, Targeted
  <2> QED BY <1>1, <2>2, <2>3
<1>4. DeadRefuse'
  <2>1. \A o \in Launches : launch'[o].at \in {"idle", "done", "dead"}
    BY <1>1
  <2> QED BY <2>1 DEF DeadRefuse, Owning, Early
<1>5. Earned'
  BY <1>0 DEF LaunchAccount, Earned
<1> QED BY <1>2, <1>3, <1>4, <1>5 DEF LaunchAccount

LEMMA LaunchBegins == LaunchInit => LaunchAccount
<1> SUFFICES ASSUME LaunchInit PROVE LaunchAccount
  OBVIOUS
<1>1. /\ launch = [r \in Launches |-> IdleLaunch] /\ launchOwner = [r \in Launches |-> Nothing]
      /\ vm = [up |-> FALSE, boot |-> 0, applied |-> 0, procs |-> {}, ran |-> FALSE]
      /\ receipts = [runtime |-> NoReceipt, activation |-> NoActivation]
  BY DEF LaunchInit
<1>2. IdleLaunch.at = "idle" /\ IdleLaunch.defers = << >> /\ IdleLaunch.proved = FALSE
  BY DEF IdleLaunch
<1>3. LaunchShape
  BY SMTT(60), <1>1, IdleFields DEF LaunchShape, NoReceipt
<1>4. RunsAccounted
  BY <1>1, <1>2 DEF RunsAccounted, LaunchAt, AtStep, Early, Binding, Planing, Activating, Targeted
<1>5. DeadRefuse
  BY <1>1, <1>2 DEF DeadRefuse, Owning, Early
<1>6. Earned
  BY SMTT(60), <1>1 DEF Earned, NoReceipt
<1> QED BY <1>3, <1>4, <1>5, <1>6 DEF LaunchAccount

LEMMA RunKeeps ==
  ASSUME LaunchAccount, NEW r \in Launches, LaunchStep(r)
  PROVE  LaunchAccount'
<1>1. ASSUME NEW req \in LaunchRequests, PrepareRun(r, req) PROVE LaunchAccount'
  BY <1>1, PrepareRunKeeps
<1>2. CASE ApplyReviewedRun(r) \/ CreateSharedEnvironment(r) \/ NameInstance(r) \/ SelectRunEnvironment(r)
  BY <1>2, SelectionKeeps
<1>3. CASE LockEnvironment(r) \/ BeginRunSession(r) \/ PlanRunWorkspaceAttachment(r)
             \/ ApplyRunWorkspaceAttachment(r)
  BY <1>3, LockKeeps, BeginKeeps, AttachmentKeeps, OwnerKeeps
<1>4. CASE OpenRunSessionAudit(r) \/ StartRunDataPlane(r) \/ startRunPortBridges(r)
             \/ attachRuntimeVerification(r) \/ PrepareBackend(r)
  BY <1>4, AuditKeeps, PlaneKeeps, VerificationKeeps, PrepareKeeps
<1>5. CASE WarmActivate(r) \/ startAndObserveRuntime(r) \/ observeRuntime(r) \/ WriteActivationReceipt(r)
  BY <1>5, WarmKeeps, ActivationKeeps, ObservationKeeps, ReceiptKeeps
<1>6. CASE \/ StartRunEnvironment(r) \/ runIsolatedSession(r) \/ openRunPreviewEvents(r)
                \/ ControlFileAppears(r) \/ targetExits(r)
           \/ targetAbandoned(r) \/ guardianActs(r) \/ verifyIsolatedSessionTerminated(r)
                \/ finishTarget(r)
  BY <1>6, StartKeeps, TargetKeeps, SideKeeps, ExitKeeps, AbandonedKeeps, ProofKeeps, FinishTargetKeeps
<1>7. CASE \/ CleanupBackend(r) \/ CloseRunDataPlane(r) \/ CloseRunSession(r) \/ FinishWithoutOwner(r)
           \/ FinishWithoutLock(r) \/ finishConcurrentRunEnvironment(r) \/ UnlockEnvironment(r)
                \/ ReturnFromApply(r)
  BY <1>7, CleanupKeeps, PlaneClosed, SessionClosed, LateFinishKeeps, FinishKeeps, UnlockKeeps,
     ReturnKeeps
<1> QED BY <1>1, <1>2, <1>3, <1>4, <1>5, <1>6, <1>7 DEF LaunchStep

LEMMA LaunchSteps == LaunchAccount /\ [LaunchNext]_launchVars => LaunchAccount'
<1> SUFFICES ASSUME LaunchAccount, [LaunchNext]_launchVars PROVE LaunchAccount'
  OBVIOUS
<1>1. ASSUME NEW r \in Launches, LaunchStep(r) PROVE LaunchAccount'
  BY <1>1, RunKeeps
<1>2. ASSUME NEW req \in LaunchRequests, CreateDedicated(req.place) PROVE LaunchAccount'
  BY <1>2, SurroundingsKeep DEF CreateDedicated
<1>3. CASE PlanRuntimeVerify \/ FinishVerify
  BY <1>3, SurroundingsKeep DEF PlanRuntimeVerify, FinishVerify
<1>4. CASE LockForVerify \/ VerifyRuntime \/ StopInstance \/ DaemonDiesInRun
  BY <1>4, VerifyLockKeeps, VerifyKeeps, StopKeeps, CrashKeeps
<1>5. ASSUME NEW field \in {"machine", "boot"}, EditProfile(field) PROVE LaunchAccount'
  BY <1>5, SurroundingsKeep DEF EditProfile
<1>6. ASSUME NEW target \in LaunchLinks, RepointLink(target) PROVE LaunchAccount'
  BY <1>6, SurroundingsKeep DEF RepointLink
<1>7. ASSUME NEW user \in SshUsers, TransportDies(user) PROVE LaunchAccount'
  BY <1>7, SurroundingsKeep DEF TransportDies
<1>8. CASE UNCHANGED launchVars
  BY <1>8, SurroundingsKeep DEF launchVars
<1> QED BY <1>1, <1>2, <1>3, <1>4, <1>5, <1>6, <1>7, <1>8 DEF LaunchNext

\* Every run's owner record, processes and deferred clean-ups fit the step it is
\* at, whatever the other runs, the checker and the operator do meanwhile.
THEOREM LaunchAccountHolds == LaunchSpec => []LaunchAccount
<1> QED BY LaunchBegins, LaunchSteps, PTL DEF LaunchSpec

\* `hideout runtime status` says "preview-ready" of an environment without owner
\* only when an explicit verification of this very boot earned it and no target
\* ran since (finishConcurrentRunEnvironment, ApplyRuntimeVerify, RuntimeStatus).
THEOREM ReadyStaysEarned == LaunchSpec => []ReadyIsEarned
<1>1. LaunchAccount => ReadyIsEarned
  BY DEF LaunchAccount, Earned, ReadyIsEarned, RuntimeStatus
<1> QED BY <1>1, LaunchAccountHolds, PTL

\* A run that returned without an error left no process of its target in the
\* guest (runIsolatedSession, Backend.Cleanup).
THEOREM EndedStaysGone == LaunchSpec => []EndedIsGone
<1>1. LaunchAccount => EndedIsGone
  BY DEF LaunchAccount, RunsAccounted, LaunchAt, AtStep, EndedIsGone
<1> QED BY <1>1, LaunchAccountHolds, PTL

====

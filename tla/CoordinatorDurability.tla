------------------------ MODULE CoordinatorDurability ------------------------
(***************************************************************************)
(* What the journal promises about the environment in memory, for any set  *)
(* of sessions and callers and any number of requests, write faults, boots *)
(* and restarts: committed registrations and destructive intents are on    *)
(* disk, an environment that admits sessions owns all its rows, and a stop *)
(* callback is about the incarnation that the environment has.             *)
(***************************************************************************)
EXTENDS CoordinatorProofs

(* The default prover; SMT where a leaf needs arithmetic or cases.  The    *)
(* limits are wall-clock seconds, wide enough for a busy machine.          *)
USE ZenonT(60)

(***************************************************************************)
(* How the journal file and the environment in memory agree: the inductive *)
(* invariant, and that the steps of sessions, timers and stops preserve it. *)
(***************************************************************************)

-----------------------------------------------------------------------------
(* The inductive invariant *)

(* Journal.Validate without its clause on the disposal, which a blocked    *)
(* removal followed by a new incarnation breaks, and with what validity    *)
(* needs to survive the next step.                                         *)
SoundJournal(j) ==
    /\ j.inc # NoInc => j.gen # 0 /\ j.inc.gen = j.gen
    /\ \A r \in j.rows : r.gen = j.gen
    /\ j.deadline # NoDeadline => j.inc.boot # 0 /\ j.deadline.inc = j.inc /\ j.rows = {}
    /\ j.attempt # NoAttempt => /\ j.attempt.inc.gen = j.gen /\ j.attempt.inc.boot # 0
                                /\ j.inc # NoInc => j.attempt.inc = j.inc
    /\ j.gen = 0 => j.rows = {} /\ j.attempt = NoAttempt /\ j.disposal = NoDisposal

ownsRow(j, s) == \E r \in j.rows : r.session = s /\ r.gen = j.gen

(* Which rows the registered sessions of environment e have, in memory and *)
(* in journal file d.                                                      *)
RowsAreOwned(e, d) ==
    /\ SoundJournal(e.journal) /\ SoundJournal(d)
    /\ e.journal.gen = 0 => d.gen = 0
    /\ e.committed \subseteq e.handles
    /\ e.journal.deadline # NoDeadline => e.handles = {} /\ e.establishing = {}
    /\ \A s \in e.handles :
         phase[s] \in registeredPhases \ {"released"} => ownsRow(e.journal, s)
    /\ \A s \in Sessions : phase[s] = "released" => \A r \in e.journal.rows : r.session # s
    /\ mode = "up" /\ ~e.blocked => \A r \in e.journal.rows : r.session \in e.handles
    /\ \A s \in e.committed : phase[s] = "registered" =>
         \E r \in d.rows : r.session = s /\ r.gen = e.journal.gen

(* A serving daemon has loaded every journal file that exists.             *)
LoadingAgrees ==
    /\ mode = "up" /\ ~loaded => disk.gen = 0
    /\ ~loaded => env = registryEnvironment(NoJournal, FALSE)

(* What the environment keeps for an actor at work on the backend.         *)
ActorsAreBacked ==
    /\ stopper.pc = "invoked" => /\ loaded /\ env.journal.inc = stopper.inc
                                 /\ stopper.inc.boot # 0 /\ env.journal.deadline = NoDeadline
    /\ disposer = "active" => /\ loaded /\ disk.disposal = env.journal.disposal
                              /\ disk.disposal # NoDisposal
    /\ mutator = "running" /\ mode = "up" =>
         /\ loaded
         /\ env.journal.gen # 0 => /\ env.journal.recon.state = "blocked"
                                   /\ disk.recon.state = "blocked"
    /\ NoDeadline \notin timers

Durability ==
    /\ Exclusion
    /\ loaded => RowsAreOwned(env, disk)
    /\ ~loaded => SoundJournal(disk)
    /\ LoadingAgrees
    /\ ActorsAreBacked

-----------------------------------------------------------------------------
(* Updates that give up authority *)

(* The environment is the same apart from a deadline or an attempt given   *)
(* up, or a block.                                                         *)
TameJournal(k, j) ==
    /\ k.gen = j.gen /\ k.inc = j.inc /\ k.rows = j.rows /\ k.disposal = j.disposal
    /\ k.deadline \in {j.deadline, NoDeadline}
    /\ k.attempt \in {j.attempt, NoAttempt}
    /\ k.recon.state \in {j.recon.state, "blocked"}

Tame(f, e) ==
    /\ f.handles = e.handles /\ f.committed = e.committed
    /\ f.establishing \subseteq e.establishing \/ f.journal.deadline = NoDeadline
    /\ e.blocked => f.blocked
    /\ TameJournal(f.journal, e.journal)

LEMMA TameReflexive ==
    ASSUME NEW e
    PROVE  Tame(e, e) /\ TameJournal(e.journal, e.journal)
BY DEF Tame, TameJournal

LEMMA TameTransitive ==
    ASSUME NEW e, NEW f, NEW g, Tame(g, f), Tame(f, e)
    PROVE  Tame(g, e)
BY DEF Tame, TameJournal

LEMMA TameSound ==
    ASSUME NEW j, NEW k, SoundJournal(j), TameJournal(k, j)
    PROVE  SoundJournal(k)
BY DEF SoundJournal, TameJournal

LEMMA TameUpdates ==
    ASSUME NEW e \in Environments
    PROVE  /\ Tame(checkpointNow(e), e) /\ Tame(checkpointLater(e), e)
           /\ \A why : Tame(blockEnv(e, why), e)
           /\ Tame(cancelDeadlineForAttach(e), e) /\ Tame(cancelDeadline(e), e)
           /\ \A why : Tame(blockedFence(e, why), e)
           /\ \A b : Tame([e EXCEPT !.mutation = b], e)
           /\ Tame([e EXCEPT !.blocked = TRUE], e)
<1>. USE DEF TameJournal
<1>1. Tame(checkpointNow(e), e) /\ Tame(checkpointLater(e), e)
  BY DEF checkpointNow, checkpointLater, Tame, Environments
<1>2. \A why : Tame(blockEnv(e, why), e)
  BY DEF blockEnv, blockedReconciliation, Tame, Environments, Journals
<1>3. Tame(cancelDeadlineForAttach(e), e)
  BY DEF cancelDeadlineForAttach, Tame, Environments, Journals
<1>4. Tame(cancelDeadline(e), e)
  <2>1. Tame(checkpointNow(cancelDeadlineForAttach(e)), cancelDeadlineForAttach(e))
    BY CancelType DEF checkpointNow, Tame, Environments
  <2> QED BY <1>3, <2>1, TameReflexive, TameTransitive DEF cancelDeadline
<1>5. \A why : Tame(blockedFence(e, why), e)
  BY ZenonT(60) DEF blockedFence, blockEnv, blockedReconciliation, Tame, Environments, Journals
<1>6. \A b : Tame([e EXCEPT !.mutation = b], e)
  BY DEF Tame, Environments
<1>7. Tame([e EXCEPT !.blocked = TRUE], e)
  BY DEF Tame, Environments
<1> QED BY <1>1, <1>2, <1>3, <1>4, <1>5, <1>6, <1>7

LEMMA Persisted ==
    ASSUME NEW j, NEW ok, persist(j, ok)
    PROVE  /\ disk' = disk \/ disk' = j
           /\ ok => disk' = j
BY DEF persist

LEMMA CancelPersisted ==
    ASSUME NEW e, NEW j, NEW outcome, cancelAndPersist(e, j, outcome)
    PROVE  /\ disk' = disk \/ disk' = cancelDeadline(e).journal \/ disk' = j
           /\ outcome = "cancelFailed" => disk' = disk \/ disk' = cancelDeadline(e).journal
           /\ outcome = "written" => disk' = j
BY DEF cancelAndPersist, persist

-----------------------------------------------------------------------------
(* Steps that keep the invariant *)

(* No session gets into a registration, or back from its Finish.           *)
PhasesKept ==
    \A s \in Sessions :
        \/ phase'[s] = phase[s]
        \/ phase'[s] \notin registeredPhases
        \/ phase[s] = "registered" /\ phase'[s] \in {"sealed", "sealedUnproved"}

(* No actor begins to work on the backend, and no timer is armed.          *)
ActorsKept ==
    /\ stopper' = stopper \/ stopper'.pc # "invoked"
    /\ disposer' = disposer \/ disposer' # "active"
    /\ mutator' = mutator \/ mutator' # "running"
    /\ timers' \subseteq timers

(* The environment that the step starts from.                              *)
StartsFrom(e) == (loaded /\ e = env) \/ (~loaded /\ mode = "up" /\ e = current)

LEMMA CurrentRows ==
    ASSUME Durability, mode = "up"
    PROVE  /\ RowsAreOwned(current, disk) /\ current \in Environments
           /\ ~loaded => /\ current = registryEnvironment(newJournal(daemon), FALSE)
                         /\ disk.gen = 0
           /\ loaded => current = env
           /\ StartsFrom(current)
<1>1. current \in Environments
  BY LoadType DEF current, Durability, Exclusion, TypeOK
<1>2. CASE loaded
  BY <1>1, <1>2 DEF current, Durability, StartsFrom
<1>3. CASE ~loaded
  <2>1. disk.gen = 0 /\ current = registryEnvironment(newJournal(daemon), FALSE)
    BY <1>3 DEF Durability, LoadingAgrees, current, loadEnvironment
  <2>2. SoundJournal(newJournal(daemon)) /\ SoundJournal(disk)
    BY <1>3 DEF Durability, SoundJournal, newJournal, NoInc, NoDeadline, NoAttempt, NoDisposal
  <2>3. RowsAreOwned(current, disk)
    BY <2>1, <2>2 DEF RowsAreOwned, registryEnvironment, newJournal
  <2> QED BY <1>1, <1>3, <2>1, <2>3 DEF StartsFrom
<1> QED BY <1>2, <1>3

LEMMA FromRows ==
    ASSUME Durability, NEW e, StartsFrom(e)
    PROVE  RowsAreOwned(e, disk) /\ e \in Environments
BY CurrentRows DEF StartsFrom, Durability, Exclusion, TypeOK

LEMMA TameRows ==
    ASSUME NEW e, e.handles \subseteq Sessions, RowsAreOwned(e, disk), Tame(env', e),
           PhasesKept, mode' = mode \/ mode' # "up",
           \/ disk' = disk
           \/ TameJournal(disk', e.journal)
    PROVE  RowsAreOwned(env, disk)'
<1>1. SoundJournal(env'.journal) /\ SoundJournal(disk')
  BY TameSound DEF RowsAreOwned, Tame
<1>2. \A s \in env'.handles :
        phase'[s] \in registeredPhases \ {"released"} => ownsRow(env'.journal, s)
  <2>1. \A s \in env'.handles : phase'[s] \in registeredPhases \ {"released"} =>
          ownsRow(e.journal, s)
    BY DEF RowsAreOwned, Tame, PhasesKept, registeredPhases
  <2> QED BY SMTT(60), <2>1 DEF Tame, TameJournal, ownsRow
<1>3. \A s \in env'.committed : phase'[s] = "registered" =>
        \E r \in disk'.rows : r.session = s /\ r.gen = env'.journal.gen
  <2>. SUFFICES ASSUME NEW s \in env'.committed, phase'[s] = "registered"
                PROVE  \E r \in disk'.rows : r.session = s /\ r.gen = env'.journal.gen
    OBVIOUS
  <2>1. s \in Sessions /\ s \in e.committed /\ s \in e.handles /\ phase[s] = "registered"
    BY DEF RowsAreOwned, Tame, PhasesKept, registeredPhases
  <2>2. CASE disk' = disk
    BY SMTT(60), <2>1, <2>2 DEF RowsAreOwned, Tame, TameJournal
  <2>3. CASE TameJournal(disk', e.journal)
    BY SMTT(60), <2>1, <2>3 DEF RowsAreOwned, Tame, TameJournal, ownsRow, registeredPhases
  <2> QED BY <2>2, <2>3
<1>4. \A s \in Sessions : phase'[s] = "released" => \A r \in env'.journal.rows : r.session # s
  BY SMTT(60) DEF RowsAreOwned, Tame, TameJournal, PhasesKept, registeredPhases
<1>5. env'.journal.gen = 0 => disk'.gen = 0
  BY DEF RowsAreOwned, Tame, TameJournal
<1>6. env'.journal.deadline # NoDeadline => env'.handles = {} /\ env'.establishing = {}
  BY DEF RowsAreOwned, Tame, TameJournal
<1>7. env'.committed \subseteq env'.handles
  BY DEF RowsAreOwned, Tame
<1>8. mode' = "up" /\ ~env'.blocked => \A r \in env'.journal.rows : r.session \in env'.handles
  BY DEF RowsAreOwned, Tame, TameJournal
<1> QED BY <1>1, <1>2, <1>3, <1>4, <1>5, <1>6, <1>7, <1>8 DEF RowsAreOwned

LEMMA TameActors ==
    ASSUME Durability, NEW e, StartsFrom(e), loaded', Tame(env', e), ActorsKept,
           mode' = mode \/ mode' # "up",
           \/ disk' = disk
           \/ TameJournal(disk', e.journal)
    PROVE  ActorsAreBacked'
<1>1. loaded => e = env
  BY DEF StartsFrom
<1>2. stopper'.pc = "invoked" =>
        /\ loaded' /\ env'.journal.inc = stopper'.inc
        /\ stopper'.inc.boot # 0 /\ env'.journal.deadline = NoDeadline
  BY <1>1 DEF Durability, ActorsAreBacked, ActorsKept, Tame, TameJournal
<1>3. disposer' = "active" => /\ loaded' /\ disk'.disposal = env'.journal.disposal
                              /\ disk'.disposal # NoDisposal
  BY <1>1 DEF Durability, ActorsAreBacked, ActorsKept, Tame, TameJournal
<1>4. mutator' = "running" /\ mode' = "up" =>
        /\ loaded'
        /\ env'.journal.gen # 0 => /\ env'.journal.recon.state = "blocked"
                                   /\ disk'.recon.state = "blocked"
  BY <1>1 DEF Durability, ActorsAreBacked, ActorsKept, Tame, TameJournal
<1> QED BY <1>2, <1>3, <1>4 DEF Durability, ActorsAreBacked, ActorsKept

LEMMA TameStep ==
    ASSUME Durability, Exclusion', NEW e, StartsFrom(e), loaded', Tame(env', e),
           PhasesKept, ActorsKept, mode' = mode \/ mode' # "up",
           \/ disk' = disk
           \/ TameJournal(disk', e.journal)
    PROVE  Durability'
<1>1. RowsAreOwned(e, disk) /\ e.handles \subseteq Sessions
  BY SMTT(60), FromRows DEF Environments
<1>2. RowsAreOwned(env, disk)'
  BY <1>1, TameRows
<1>3. ActorsAreBacked'
  BY TameActors
<1> QED BY <1>2, <1>3 DEF Durability, LoadingAgrees

(* The environment and its journal file stay as they are.                  *)
LEMMA IdleStep ==
    ASSUME Durability, Exclusion', PhasesKept, ActorsKept,
           UNCHANGED <<mode, loaded, env, disk>>
    PROVE  Durability'
<1>1. CASE loaded
  <2>1. StartsFrom(env) /\ loaded' /\ env' = env /\ mode' = mode /\ disk' = disk
    BY <1>1 DEF StartsFrom
  <2>2. Tame(env', env)
    BY <2>1, TameReflexive
  <2> QED BY <2>1, <2>2, TameStep
<1>2. CASE ~loaded
  BY <1>2 DEF Durability, LoadingAgrees, ActorsAreBacked, ActorsKept
<1> QED BY <1>1, <1>2

LEMMA UnloadStep ==
    ASSUME Durability, Exclusion', unload, SoundJournal(disk'), mode' = "up" => disk'.gen = 0,
           stopper'.pc # "invoked", disposer' # "active",
           mode' = "up" => mutator' # "running", timers' \subseteq timers
    PROVE  Durability'
BY DEF Durability, LoadingAgrees, ActorsAreBacked, unload

(* What is left to show of a step while no session is registered.          *)
LEMMA DetachedRows ==
    ASSUME \A s \in Sessions : phase'[s] \notin registeredPhases,
           env'.handles \subseteq Sessions, env'.committed \subseteq env'.handles,
           SoundJournal(env'.journal), SoundJournal(disk'),
           env'.journal.gen = 0 => disk'.gen = 0,
           env'.journal.deadline # NoDeadline => env'.handles = {} /\ env'.establishing = {},
           mode' = "up" /\ ~env'.blocked =>
               \A r \in env'.journal.rows : r.session \in env'.handles
    PROVE  RowsAreOwned(env, disk)'
BY DEF RowsAreOwned, registeredPhases

-----------------------------------------------------------------------------
(* Sessions *)

LEMMA AttachedAlone ==
    ASSUME Durability, NEW s \in Sessions, attached(s)
    PROVE  stopper.pc # "invoked" /\ disposer # "active" /\ mutator # "running"
<1>1. destroying = {}
  BY DEF Durability, Exclusion, DestructionExcludesSessions
<1> QED BY <1>1 DEF destroying

(* Session s leaves: its handle goes, or its row changes, or both.         *)
LEMMA LeaveRows ==
    ASSUME Durability, mode = "up", loaded, NEW s \in Sessions, s \in env.handles, NEW p,
           env'.handles \in {env.handles, env.handles \ {s}},
           env'.committed \in {env.committed, env.committed \ {s}},
           env'.committed \subseteq env'.handles,
           env'.journal.gen = env.journal.gen, env'.journal.inc = env.journal.inc,
           env'.journal.deadline = env.journal.deadline,
           env'.journal.attempt = env.journal.attempt,
           env'.journal.disposal = env.journal.disposal,
           \A r \in env'.journal.rows : \E q \in env.journal.rows :
               q.session = r.session /\ q.gen = r.gen,
           \A t \in Sessions \ {s} : ownsRow(env.journal, t) => ownsRow(env'.journal, t),
           becomes(s, p),
           \/ p = "idle"
           \/ p = "released" /\ \A r \in env'.journal.rows : r.session # s
           \/ p = "releasedUnproved" /\ ownsRow(env'.journal, s),
           env.blocked => env'.blocked,
           \/ env'.handles = env.handles
           \/ env'.blocked
           \/ \A r \in env'.journal.rows : r.session # s,
           mode' = mode,
           disk' = disk \/ disk' = env'.journal
    PROVE  RowsAreOwned(env, disk)'
<1>1. RowsAreOwned(env, disk) /\ env.handles \subseteq Sessions /\ phase \in [Sessions -> Phases]
  BY FromRows DEF StartsFrom, Environments, Durability, Exclusion, TypeOK
<1>2. env'.journal.deadline = NoDeadline
  BY <1>1 DEF RowsAreOwned
<1>3. SoundJournal(env'.journal) /\ SoundJournal(disk')
  BY SMTT(60), <1>1, <1>2 DEF RowsAreOwned, SoundJournal
<1>4. phase'[s] = p /\ \A t \in Sessions \ {s} : phase'[t] = phase[t]
  BY <1>1 DEF becomes
<1>5. \A t \in env'.handles :
        phase'[t] \in registeredPhases \ {"released"} => ownsRow(env'.journal, t)
  BY SMTT(60), <1>1, <1>4 DEF RowsAreOwned, registeredPhases
<1>6. \A t \in Sessions : phase'[t] = "released" =>
        \A r \in env'.journal.rows : r.session # t
  BY SMTT(60), <1>1, <1>4 DEF RowsAreOwned
<1>7. mode' = "up" /\ ~env'.blocked => \A r \in env'.journal.rows : r.session \in env'.handles
  BY SMTT(60), <1>1 DEF RowsAreOwned
<1>8. \A t \in env'.committed : phase'[t] = "registered" =>
        \E r \in disk'.rows : r.session = t /\ r.gen = env'.journal.gen
  <2>. SUFFICES ASSUME NEW t \in env'.committed, phase'[t] = "registered"
                PROVE  \E r \in disk'.rows : r.session = t /\ r.gen = env'.journal.gen
    OBVIOUS
  <2>1. t \in Sessions \ {s} /\ t \in env.committed /\ phase[t] = "registered"
    BY <1>1, <1>4 DEF RowsAreOwned
  <2>2. ownsRow(env'.journal, t)
    BY <1>1, <1>4, <1>5, <2>1 DEF registeredPhases
  <2> QED BY SMTT(60), <1>1, <2>1, <2>2 DEF RowsAreOwned, ownsRow
<1> QED BY <1>1, <1>2, <1>3, <1>5, <1>6, <1>7, <1>8 DEF RowsAreOwned

(* scheduleIfIdleLocked on environment e, which nobody holds.              *)
LEMMA ScheduleRows ==
    ASSUME NEW e \in Environments, NEW ok \in BOOLEAN, scheduleIfIdle(e, ok),
           daemon \in Nat,
           e.handles = {}, e.committed = {}, e.establishing = {},
           SoundJournal(e.journal), SoundJournal(disk), e.journal.gen = 0 => disk.gen = 0,
           ~e.blocked => e.journal.rows = {},
           \A s \in Sessions : phase'[s] \notin registeredPhases
    PROVE  RowsAreOwned(env, disk)' /\ (NoDeadline \notin timers => NoDeadline \notin timers')
<1>1. armed(e).journal.deadline # NoDeadline
  BY SMTT(60) DEF armed, NoDeadline, Environments, Journals
<1>2. NoDeadline \notin timers => NoDeadline \notin timers'
  BY <1>1 DEF scheduleIfIdle
<1>3. CASE env' = e /\ persist(e.journal, ok)
  <2>1. disk' = disk \/ disk' = e.journal
    BY <1>3, Persisted
  <2> QED BY <1>2, <1>3, <2>1, DetachedRows
<1>4. CASE /\ env' = blockEnv(e, "backend-observation-unproved")
           /\ persist(blockEnv(e, "backend-observation-unproved").journal, ok)
  <2>1. Tame(env', e)
    BY <1>4, TameUpdates
  <2>2. disk' = disk \/ disk' = env'.journal
    BY <1>4, Persisted
  <2>3. SoundJournal(env'.journal) /\ SoundJournal(disk')
    BY <2>1, <2>2, TameSound DEF Tame
  <2>4. env'.handles = {} /\ env'.committed = {} /\ env'.establishing = {} /\ env'.blocked
    BY <1>4 DEF blockEnv, Environments
  <2> QED BY <1>2, <2>1, <2>2, <2>3, <2>4, DetachedRows DEF Tame, TameJournal
<1>5. CASE /\ env' = checkpointLater(armed(e)) /\ UNCHANGED disk
           /\ ~e.blocked /\ e.journal.inc.boot # 0 /\ e.journal.rows = {}
  <2>. DEFINE j == env'.journal
  <2>1. /\ env'.handles = {} /\ env'.committed = {} /\ env'.establishing = {}
        /\ j.gen = e.journal.gen /\ j.inc = e.journal.inc /\ j.rows = {}
        /\ j.attempt = e.journal.attempt /\ j.disposal = e.journal.disposal
        /\ j.deadline.inc = j.inc
    BY <1>5 DEF checkpointLater, armed, Environments, Journals
  <2>2. SoundJournal(env'.journal)
    BY <1>5, <2>1 DEF SoundJournal
  <2> QED BY <1>2, <1>5, <2>1, <2>2, DetachedRows
<1> QED BY <1>3, <1>4, <1>5 DEF scheduleIfIdle

LEMMA LoadedStep ==
    ASSUME Exclusion', loaded', RowsAreOwned(env, disk)', ActorsAreBacked'
    PROVE  Durability'
BY DEF Durability, LoadingAgrees

LEMMA BecomesKept ==
    ASSUME Durability, NEW s \in Sessions, NEW p, becomes(s, p),
           \/ p \notin registeredPhases
           \/ phase[s] = "registered" /\ p \in {"sealed", "sealedUnproved"}
    PROVE  PhasesKept
<1>1. phase \in [Sessions -> Phases]
  BY DEF Durability, Exclusion, TypeOK
<1> QED BY <1>1 DEF becomes, PhasesKept

(* A step of an attached session: nobody is at work on the backend.        *)
LEMMA AttachedActors ==
    ASSUME Durability, NEW s \in Sessions, attached(s), UNCHANGED <<stopper, disposer, mutator>>,
           NoDeadline \notin timers'
    PROVE  ActorsAreBacked'
BY AttachedAlone DEF ActorsAreBacked

LEMMA EstablishingStep ==
    ASSUME Durability, Exclusion', NEW s \in Sessions,
           \/ Reserve(s) \/ ReserveWait(s) \/ ReserveRefused(s) \/ ReserveGivesUp(s)
           \/ Observe(s) \/ Prepare(s) \/ Promote(s)
    PROVE  Durability'
<1>. USE DEF sessionVars, actorVars, backendVars, boundVars
<1>1. /\ TypeOK /\ RegistryAgrees /\ ActorsAreBacked
      /\ env \in Environments /\ phase \in [Sessions -> Phases]
  BY DEF Durability, Exclusion, TypeOK
<1>2. CASE Reserve(s)
  <2>. DEFINE c == cancelDeadlineForAttach(current)
  <2>1. mode = "up" /\ mode' = mode /\ loaded' /\ disk' = disk /\ becomes(s, "reserved")
    BY <1>2 DEF Reserve, asks
  <2>2. StartsFrom(current) /\ current \in Environments
    BY <2>1, CurrentRows
  <2>3. c \in Environments /\ Tame(c, current) /\ c.journal.deadline = NoDeadline
    BY <2>2, CancelType, TameUpdates DEF cancelDeadlineForAttach, Environments, Journals
  <2>4. env' = [c EXCEPT !.establishing = @ \cup {s}]
    BY <1>2 DEF Reserve
  <2>5. Tame(env', c)
    <3> HIDE DEF c
    <3> QED BY <2>3, <2>4 DEF Tame, TameJournal, Environments
  <2>6. Tame(env', current)
    <3> HIDE DEF c
    <3> QED BY <2>3, <2>5, TameTransitive
  <2>7. PhasesKept
    BY <2>1, BecomesKept DEF registeredPhases
  <2>8. ActorsKept
    BY <1>2 DEF Reserve, ActorsKept
  <2> QED BY <2>1, <2>2, <2>6, <2>7, <2>8, TameStep
<1>3. CASE ReserveWait(s) \/ ReserveRefused(s) \/ ReserveGivesUp(s) \/ Observe(s)
  <2>1. \E p \in Phases \ registeredPhases : becomes(s, p)
    BY <1>3 DEF ReserveWait, ReserveRefused, ReserveGivesUp, Observe, Phases, registeredPhases
  <2>2. UNCHANGED <<mode, loaded, env, disk, timers, stopper, disposer, mutator>>
    BY <1>3 DEF ReserveWait, ReserveRefused, ReserveGivesUp, Observe
  <2>3. PhasesKept /\ ActorsKept
    BY <2>1, <2>2, BecomesKept DEF ActorsKept
  <2> QED BY <2>2, <2>3, IdleStep
<1>4. CASE Prepare(s)
  <2>. DEFINE j == selectIncarnation(env.journal, seen[s])
  <2>1. /\ mode = "up" /\ mode' = mode /\ loaded /\ loaded' = loaded /\ disk' = disk
        /\ timers' = timers /\ UNCHANGED <<stopper, disposer, mutator>>
        /\ becomes(s, "prepared") /\ phase[s] = "observed" /\ s \in env.establishing
        /\ env.handles # {} => matches(env.journal.inc, seen[s])
    BY <1>4 DEF Prepare, stillAdmitted
  <2>2. RowsAreOwned(env, disk) /\ StartsFrom(env)
    BY <2>1 DEF Durability, StartsFrom
  <2>3. env.journal.deadline = NoDeadline
    BY <2>1, <2>2 DEF RowsAreOwned
  <2>4. j \in Journals
    BY <1>1, EnvironmentFields, SelectIncarnationType DEF TypeOK
  <2>5. /\ env'.journal = j /\ env'.handles = env.handles /\ env'.committed = env.committed
        /\ env'.establishing = env.establishing /\ env'.blocked = env.blocked
    <3>1. env' = [env EXCEPT !.obs = seen[s], !.journal = j]
      BY <1>4 DEF Prepare
    <3> HIDE DEF j
    <3> QED BY <1>1, <3>1 DEF Environments
  <2>6. CASE matches(env.journal.inc, seen[s])
    <3>1. j = env.journal
      BY <2>6 DEF selectIncarnation
    <3>2. Tame(env', env)
      BY <2>5, <3>1 DEF Tame, TameJournal
    <3>3. PhasesKept /\ ActorsKept
      BY <2>1, BecomesKept DEF registeredPhases, ActorsKept
    <3> QED BY <2>1, <2>2, <3>2, <3>3, TameStep
  <2>7. CASE ~matches(env.journal.inc, seen[s])
    <3>1. /\ j.gen = env.journal.gen + 1 /\ j.inc.gen = j.gen /\ j.rows = {}
          /\ j.attempt = NoAttempt /\ j.deadline = NoDeadline
      BY <1>1, <2>3, <2>7, EnvironmentFields DEF selectIncarnation, Journals
    <3>2. j.gen # 0
      BY SMTT(60), <1>1, <3>1, EnvironmentFields, JournalFields
    <3>3. SoundJournal(j)
      BY <3>1, <3>2 DEF SoundJournal
    <3>4. env.handles = {}
      BY <2>1, <2>7
    <3>5. \A t \in Sessions : phase'[t] \notin registeredPhases
      BY <1>1, <2>1, <3>4 DEF RegistryAgrees, becomes, registeredPhases
    <3>6. RowsAreOwned(env, disk)'
      <4> HIDE DEF j
      <4> QED BY <2>1, <2>2, <2>5, <3>1, <3>2, <3>3, <3>4, <3>5, DetachedRows DEF RowsAreOwned
    <3>7. ActorsAreBacked'
      BY <1>1, <2>1, AttachedActors DEF attached, establishingPhases, ActorsAreBacked
    <3> QED BY <2>1, <3>6, <3>7, LoadedStep
  <2> QED BY <2>6, <2>7
<1>5. CASE Promote(s)
  <2>. DEFINE r == row(s, einc[s].gen, FALSE)
  <2>1. /\ mode = "up" /\ mode' = mode /\ loaded /\ loaded' = loaded /\ disk' = disk
        /\ timers' = timers /\ UNCHANGED <<stopper, disposer, mutator>>
        /\ becomes(s, "registered") /\ phase[s] = "prepared" /\ s \in env.establishing
        /\ ~env.blocked /\ s \notin env.handles
        /\ env.journal.inc # NoInc /\ env.journal.inc.gen = einc[s].gen
    BY <1>5 DEF Promote, stillAdmitted, rootPresent
  <2>2. RowsAreOwned(env, disk)
    BY <2>1 DEF Durability
  <2>3. env.journal.deadline = NoDeadline /\ einc[s].gen = env.journal.gen /\ env.journal.gen # 0
    BY <2>1, <2>2 DEF RowsAreOwned, SoundJournal
  <2>4. r.session = s /\ r.gen = env.journal.gen
    BY <2>3 DEF row
  <2>5. /\ env'.handles = env.handles \cup {s} /\ env'.committed = env.committed
        /\ env'.blocked = env.blocked
        /\ env'.journal.rows = env.journal.rows \cup {r}
        /\ env'.journal.gen = env.journal.gen /\ env'.journal.inc = env.journal.inc
        /\ env'.journal.deadline = NoDeadline
        /\ env'.journal.attempt = env.journal.attempt
        /\ env'.journal.disposal = env.journal.disposal
    <3>1. env' = [env EXCEPT !.handles = @ \cup {s}, !.establishing = @ \ {s},
                             !.journal.rows = @ \cup {r},
                             !.journal.recon = completeReconciliation(daemon)]
      BY <1>5 DEF Promote
    <3> HIDE DEF r
    <3> QED BY <1>1, <2>3, <3>1 DEF Environments, Journals
  <2>6. phase'[s] = "registered" /\ \A t \in Sessions \ {s} : phase'[t] = phase[t]
    BY <1>1, <2>1 DEF becomes
  <2>7. env.handles \subseteq Sessions
    BY <1>1, EnvironmentFields
  <2>. HIDE DEF r
  <2>8. SoundJournal(env'.journal)
    BY <2>2, <2>3, <2>4, <2>5 DEF RowsAreOwned, SoundJournal
  <2>9. \A t \in env'.handles :
          phase'[t] \in registeredPhases \ {"released"} => ownsRow(env'.journal, t)
    BY SMTT(60), <2>2, <2>4, <2>5, <2>6, <2>7 DEF RowsAreOwned, ownsRow
  <2>10. \A t \in Sessions : phase'[t] = "released" => \A q \in env'.journal.rows : q.session # t
    BY ZenonT(60), <2>2, <2>4, <2>5, <2>6 DEF RowsAreOwned
  <2>11. \A t \in env'.committed : phase'[t] = "registered" =>
           \E q \in disk'.rows : q.session = t /\ q.gen = env'.journal.gen
    BY SMTT(60), <2>1, <2>2, <2>5, <2>6, <2>7 DEF RowsAreOwned
  <2>12. RowsAreOwned(env, disk)'
    BY <2>1, <2>2, <2>3, <2>4, <2>5, <2>8, <2>9, <2>10, <2>11 DEF RowsAreOwned
  <2>13. ActorsAreBacked'
    BY <1>1, <2>1, AttachedActors DEF attached, establishingPhases, ActorsAreBacked
  <2> QED BY <2>1, <2>12, <2>13, LoadedStep
<1> QED BY <1>2, <1>3, <1>4, <1>5

LEMMA AbortStep ==
    ASSUME Durability, Exclusion', NEW s \in Sessions, Abort(s)
    PROVE  Durability'
<1>. USE DEF sessionVars, actorVars, backendVars, boundVars
<1>. DEFINE e == [env EXCEPT !.establishing = @ \ {s}]
<1>1. /\ TypeOK /\ RegistryAgrees /\ ActorsAreBacked
      /\ env \in Environments /\ phase \in [Sessions -> Phases] /\ daemon \in Nat
  BY DEF Durability, Exclusion, TypeOK
<1>2. /\ mode' = mode /\ UNCHANGED <<stopper, disposer, mutator>> /\ becomes(s, "idle")
      /\ attached(s)
  BY DEF Abort, attached, establishingPhases
<1>3. PhasesKept /\ phase' = [phase EXCEPT ![s] = "idle"]
  BY <1>2, BecomesKept DEF registeredPhases, becomes
<1>4. e \in Environments /\ e.journal = env.journal /\ e.handles = env.handles
      /\ e.committed = env.committed /\ e.blocked = env.blocked /\ Tame(e, env)
  BY <1>1 DEF Environments, Tame, TameJournal
<1>5. CASE loaded /\ s \in env.establishing
  <2>1. RowsAreOwned(env, disk) /\ StartsFrom(env)
    BY <1>5 DEF Durability, StartsFrom
  <2>2. CASE mode = "up" /\ e.establishing = {} /\ e.handles = {}
    <3>1. CASE e.journal.gen = 0 /\ e.journal.inc = NoInc
      <4>1. unload /\ UNCHANGED <<disk, timers>>
        BY <1>5, <2>2, <3>1 DEF Abort
      <4>2. SoundJournal(disk') /\ disk'.gen = 0
        BY <1>4, <2>1, <3>1, <4>1 DEF RowsAreOwned
      <4> QED BY <1>2, <4>1, <4>2, AttachedAlone, UnloadStep
    <3>2. CASE ~(e.journal.gen = 0 /\ e.journal.inc = NoInc)
      <4>1. PICK ok \in BOOLEAN : scheduleIfIdle(e, ok) /\ loaded' = loaded
        BY <1>5, <2>2, <3>2 DEF Abort
      <4>. HIDE DEF e
      <4>2. \A t \in Sessions : phase'[t] \notin registeredPhases
        BY <1>1, <1>3, <1>4, <2>2 DEF RegistryAgrees, registeredPhases
      <4>3. /\ e.committed = {} /\ SoundJournal(e.journal) /\ SoundJournal(disk)
            /\ e.journal.gen = 0 => disk.gen = 0
            /\ ~e.blocked => e.journal.rows = {}
        BY <1>4, <2>1, <2>2 DEF RowsAreOwned
      <4>4. RowsAreOwned(env, disk)' /\ NoDeadline \notin timers'
        BY <1>1, <1>4, <2>2, <4>1, <4>2, <4>3, ScheduleRows DEF ActorsAreBacked
      <4>5. ActorsAreBacked'
        BY <1>2, <4>4, AttachedActors
      <4> QED BY <1>5, <4>1, <4>4, <4>5, LoadedStep
    <3> QED BY <3>1, <3>2
  <2>3. CASE ~(mode = "up" /\ e.establishing = {} /\ e.handles = {})
    <3>1. env' = e /\ loaded' = loaded /\ disk' = disk /\ timers' = timers
      BY <1>5, <2>3 DEF Abort
    <3>2. ActorsKept
      BY <1>2, <3>1 DEF ActorsKept
    <3> HIDE DEF e
    <3> QED BY <1>2, <1>3, <1>4, <1>5, <2>1, <3>1, <3>2, TameStep
  <2> QED BY <2>2, <2>3
<1>6. CASE ~(loaded /\ s \in env.establishing)
  <2>1. UNCHANGED <<loaded, env, disk, timers>>
    BY <1>6 DEF Abort
  <2> QED BY <1>2, <1>3, <2>1, IdleStep DEF ActorsKept
<1> QED BY <1>5, <1>6

LEMMA CommitStep ==
    ASSUME Durability, Exclusion', NEW s \in Sessions,
           Commit(s) \/ StartBackend(s) \/ BindBoot(s) \/ BeginFinish(s)
    PROVE  Durability'
<1>. USE DEF sessionVars, actorVars, backendVars, boundVars
<1>1. /\ TypeOK /\ RegistryAgrees /\ ActorsAreBacked
      /\ env \in Environments /\ phase \in [Sessions -> Phases]
  BY DEF Durability, Exclusion, TypeOK
<1>2. /\ mode = "up" /\ mode' = mode /\ loaded /\ loaded' = loaded /\ phase[s] = "registered"
      /\ s \in env.handles /\ UNCHANGED <<stopper, disposer, mutator, timers>>
      /\ attached(s)
  BY DEF Commit, StartBackend, BindBoot, BeginFinish, registered, attached, registeredPhases
<1>3. RowsAreOwned(env, disk) /\ StartsFrom(env) /\ ActorsKept
  BY <1>2 DEF Durability, StartsFrom, ActorsKept
<1>4. env.journal.deadline = NoDeadline
  BY <1>2, <1>3 DEF RowsAreOwned
<1>5. ActorsAreBacked'
  BY <1>1, <1>2, AttachedActors DEF ActorsAreBacked
<1>6. CASE Commit(s)
  <2>1. PICK ok \in BOOLEAN : /\ persist(env.journal, ok)
                              /\ env' = [checkpointNow(env) EXCEPT
                                           !.committed = IF ok THEN @ \cup {s} ELSE @]
    BY <1>6 DEF Commit
  <2>2. /\ env'.journal = env.journal /\ env'.handles = env.handles
        /\ env'.establishing = env.establishing /\ env'.blocked = env.blocked
        /\ env'.committed = IF ok THEN env.committed \cup {s} ELSE env.committed
    BY <1>1, <2>1 DEF checkpointNow, Environments
  <2>3. disk' = disk \/ disk' = env.journal
    BY <2>1, Persisted
  <2>4. phase' = phase
    BY <1>6 DEF Commit
  <2>5. CASE ~ok
    <3>1. Tame(env', env) /\ PhasesKept
      BY <2>2, <2>4, <2>5 DEF Tame, TameJournal, PhasesKept
    <3>2. disk' = disk \/ TameJournal(disk', env.journal)
      BY <2>3, TameReflexive
    <3> QED BY <1>2, <1>3, <3>1, <3>2, TameStep
  <2>6. CASE ok
    <3>1. disk' = env.journal
      BY <2>1, <2>6, Persisted
    <3>2. \A t \in env'.committed : phase'[t] = "registered" =>
            \E r \in disk'.rows : r.session = t /\ r.gen = env'.journal.gen
      BY SMTT(60), <1>2, <1>3, <2>2, <2>4, <2>6, <3>1 DEF RowsAreOwned, ownsRow, registeredPhases
    <3>3. RowsAreOwned(env, disk)'
      BY SMTT(60), <1>2, <1>3, <2>2, <2>4, <2>6, <3>1, <3>2 DEF RowsAreOwned
    <3> QED BY <1>2, <1>5, <3>3, LoadedStep
  <2> QED BY <2>5, <2>6
<1>7. CASE StartBackend(s)
  <2>1. UNCHANGED <<env, disk, phase>>
    BY <1>7 DEF StartBackend
  <2> QED BY <1>2, <1>3, <2>1, IdleStep DEF PhasesKept
<1>8. CASE BindBoot(s)
  <2>1. /\ vm # 0 /\ env.journal.inc # NoInc /\ phase' = phase
        /\ env.journal.inc.boot \in {0, vm}
    BY <1>8 DEF BindBoot
  <2>. DEFINE e == [env EXCEPT !.journal.inc.boot = vm, !.obs = observation(vm)]
              i == [env.journal.inc EXCEPT !.boot = vm]
  <2>2. env.journal \in Journals /\ env.journal.inc \in Incarnations /\ vm \in Nat
    BY <1>1, EnvironmentFields, JournalFields DEF TypeOK
  <2>3. i \in Incarnations /\ i.gen = env.journal.inc.gen /\ i.boot = vm
    BY <2>2 DEF Incarnations
  <2>4. (env' = checkpointNow(e) \/ env' = checkpointLater(e)) /\ e.journal.inc = i
    BY <1>1, <1>8, <2>2 DEF BindBoot, Environments, Journals
  <2>5. /\ e.handles = env.handles /\ e.committed = env.committed
        /\ e.establishing = env.establishing /\ e.blocked = env.blocked
        /\ e.journal.rows = env.journal.rows /\ e.journal.gen = env.journal.gen
        /\ e.journal.deadline = env.journal.deadline
        /\ e.journal.attempt = env.journal.attempt
        /\ e.journal.disposal = env.journal.disposal
        /\ e.journal.recon = env.journal.recon
        /\ checkpointNow(e).journal = e.journal /\ checkpointLater(e).journal = e.journal
    BY <1>1, <2>2 DEF Environments, Journals, checkpointNow, checkpointLater
  <2>6. /\ env'.handles = env.handles /\ env'.committed = env.committed
        /\ env'.establishing = env.establishing /\ env'.blocked = env.blocked
        /\ env'.journal = e.journal
    BY <1>1, <2>4 DEF checkpointNow, checkpointLater, Environments
  <2>7. disk' = disk \/ disk' = e.journal
    BY <1>8, Persisted DEF BindBoot
  <2>. HIDE DEF e, i
  <2>8. CASE env.journal.inc.boot = vm
    <3>1. i = env.journal.inc
      BY <2>2, <2>8 DEF i, Incarnations
    <3>2. Tame(env', env) /\ TameJournal(e.journal, env.journal) /\ PhasesKept
      BY <2>1, <2>4, <2>5, <2>6, <3>1 DEF Tame, TameJournal, PhasesKept
    <3> QED BY <1>2, <1>3, <2>7, <3>2, TameStep
  <2>9. CASE env.journal.inc.boot = 0
    <3>1. env.journal.attempt = NoAttempt
      BY <1>3, <2>1, <2>9 DEF RowsAreOwned, SoundJournal
    <3>2. SoundJournal(e.journal)
      BY <1>3, <1>4, <2>1, <2>3, <2>4, <2>5, <3>1 DEF RowsAreOwned, SoundJournal
    <3>3. \A t \in env'.handles :
            phase'[t] \in registeredPhases \ {"released"} => ownsRow(env'.journal, t)
      BY SMTT(60), <1>3, <2>1, <2>5, <2>6 DEF RowsAreOwned, ownsRow
    <3>4. \A t \in env'.committed : phase'[t] = "registered" =>
            \E r \in disk'.rows : r.session = t /\ r.gen = env'.journal.gen
      BY SMTT(60), <1>3, <2>1, <2>5, <2>6, <2>7, <3>3 DEF RowsAreOwned, ownsRow, registeredPhases
    <3>5. RowsAreOwned(env, disk)'
      BY SMTT(60), <1>2, <1>3, <1>4, <2>1, <2>5, <2>6, <2>7, <3>2, <3>3, <3>4 DEF RowsAreOwned
    <3> QED BY <1>2, <1>5, <3>5, LoadedStep
  <2> QED BY <2>1, <2>8, <2>9
<1>9. CASE BeginFinish(s)
  <2>1. /\ disk' = disk
        /\ env' = [env EXCEPT !.closing = @ \cup {s}]
        /\ \E p \in {"sealed", "sealedUnproved"} : becomes(s, p)
    BY <1>9 DEF BeginFinish
  <2>2. Tame(env', env)
    BY <1>1, <2>1 DEF Tame, TameJournal, Environments
  <2>3. PhasesKept
    BY <1>2, <2>1, BecomesKept
  <2> QED BY <1>2, <1>3, <2>1, <2>2, <2>3, TameStep
<1> QED BY <1>6, <1>7, <1>8, <1>9

(* The environment keeps everything but rows and holders.                  *)
SameBacking(f, e) ==
    /\ f.journal.gen = e.journal.gen /\ f.journal.inc = e.journal.inc
    /\ f.journal.deadline = e.journal.deadline
    /\ f.journal.attempt = e.journal.attempt
    /\ f.journal.disposal = e.journal.disposal
    /\ f.establishing = e.establishing
    /\ e.blocked => f.blocked

LEMMA RowViews ==
    ASSUME NEW e \in Environments, NEW s \in Sessions
    PROVE  /\ SameBacking(dropRow(e, s), e)
           /\ dropRow(e, s).handles = e.handles /\ dropRow(e, s).committed = e.committed
           /\ dropRow(e, s).journal.rows = {r \in e.journal.rows : r.session # s}
           /\ SameBacking(orphanRow(e, s), e)
           /\ orphanRow(e, s).handles = e.handles /\ orphanRow(e, s).committed = e.committed
           /\ \A r \in orphanRow(e, s).journal.rows : \E q \in e.journal.rows :
                q.session = r.session /\ q.gen = r.gen
           /\ \A q \in e.journal.rows : \E r \in orphanRow(e, s).journal.rows :
                q.session = r.session /\ q.gen = r.gen
           /\ SameBacking(dropHandle(e, s), e)
           /\ dropHandle(e, s).handles = e.handles \ {s}
           /\ dropHandle(e, s).committed = e.committed \ {s}
           /\ dropHandle(e, s).journal = e.journal
<1>. DEFINE R == {IF r.session = s THEN [r EXCEPT !.orphan = TRUE] ELSE r : r \in e.journal.rows}
<1>1. /\ SameBacking(dropRow(e, s), e)
      /\ dropRow(e, s).handles = e.handles /\ dropRow(e, s).committed = e.committed
      /\ dropRow(e, s).journal.rows = {r \in e.journal.rows : r.session # s}
  BY DEF dropRow, SameBacking, Environments, Journals
<1>2. /\ SameBacking(dropHandle(e, s), e)
      /\ dropHandle(e, s).handles = e.handles \ {s}
      /\ dropHandle(e, s).committed = e.committed \ {s}
      /\ dropHandle(e, s).journal = e.journal
  BY DEF dropHandle, SameBacking, Environments, Journals
<1>3. /\ SameBacking(orphanRow(e, s), e)
      /\ orphanRow(e, s).handles = e.handles /\ orphanRow(e, s).committed = e.committed
      /\ orphanRow(e, s).journal.rows = R
  <2>1. orphanRow(e, s) = [e EXCEPT !.journal.rows = R]
    BY DEF orphanRow
  <2> HIDE DEF R
  <2> QED BY ZenonT(60), <2>1 DEF SameBacking, Environments, Journals
<1>4. e.journal.rows \subseteq Rows
  BY EnvironmentFields, JournalFields
<1>5. ASSUME NEW q \in e.journal.rows
      PROVE  LET r == IF q.session = s THEN [q EXCEPT !.orphan = TRUE] ELSE q
             IN  r \in R /\ q.session = r.session /\ q.gen = r.gen
  BY <1>4 DEF Rows
<1>6. \A r \in R : \E q \in e.journal.rows : q.session = r.session /\ q.gen = r.gen
  BY <1>4 DEF Rows
<1>7. \A q \in e.journal.rows : \E r \in R : q.session = r.session /\ q.gen = r.gen
  BY <1>5
<1> HIDE DEF R
<1> QED BY <1>1, <1>2, <1>3, <1>6, <1>7

LEMMA FinishStep ==
    ASSUME Durability, Exclusion', NEW s \in Sessions,
           AbortRegistration(s) \/ Release(s) \/ FinishRegistration(s)
    PROVE  Durability'
<1>. USE DEF sessionVars, actorVars, backendVars, boundVars
<1>1. /\ TypeOK /\ RegistryAgrees /\ ActorsAreBacked
      /\ env \in Environments /\ phase \in [Sessions -> Phases] /\ daemon \in Nat
  BY DEF Durability, Exclusion, TypeOK
<1>2. /\ mode = "up" /\ mode' = mode /\ loaded /\ loaded' = loaded
      /\ s \in env.handles /\ UNCHANGED <<stopper, disposer, mutator>>
      /\ attached(s)
  BY DEF AbortRegistration, Release, FinishRegistration, registered, attached, registeredPhases
<1>3. RowsAreOwned(env, disk) /\ env.handles \subseteq Sessions
  BY <1>1, <1>2, EnvironmentFields DEF Durability
<1>4. ASSUME RowsAreOwned(env, disk)', NoDeadline \notin timers'
      PROVE  Durability'
  BY <1>2, <1>4, AttachedActors, LoadedStep
<1>5. NoDeadline \notin timers
  BY <1>1 DEF ActorsAreBacked
<1>6. ASSUME NEW e \in Environments, NEW ok \in BOOLEAN, scheduleIfIdle(e, ok),
             SameBacking(e, env), e.handles = env.handles \ {s}, e.handles = {},
             e.committed = env.committed \ {s}, e.journal.rows \subseteq env.journal.rows,
             \A r \in e.journal.rows : r.session # s,
             becomes(s, "idle")
      PROVE  Durability'
  <2>1. \A t \in Sessions : phase'[t] \notin registeredPhases
    BY <1>1, <1>2, <1>6 DEF RegistryAgrees, registeredPhases, becomes
  <2>2. /\ e.committed = {} /\ SoundJournal(disk)
        /\ ~e.blocked => e.journal.rows = {}
        /\ e.journal.gen = 0 => disk.gen = 0
    BY ZenonT(60), <1>2, <1>3, <1>6 DEF RowsAreOwned, SameBacking
  <2>3. env.journal.deadline = NoDeadline /\ SoundJournal(e.journal)
    BY <1>2, <1>3, <1>6 DEF RowsAreOwned, SoundJournal, SameBacking
  <2>4. CASE e.establishing = {}
    <3>1. RowsAreOwned(env, disk)' /\ NoDeadline \notin timers'
      BY <1>1, <1>5, <1>6, <2>1, <2>2, <2>3, <2>4, ScheduleRows
    <3> QED BY <1>4, <3>1
  <2>5. CASE e.establishing # {}
    <3>1. env' = e /\ persist(e.journal, ok) /\ timers' = timers
      BY <1>6, <2>5 DEF scheduleIfIdle
    <3>2. disk' = disk \/ disk' = e.journal
      BY <3>1, Persisted
    <3>3. RowsAreOwned(env, disk)'
      BY <1>2, <1>6, <2>1, <2>2, <2>3, <3>1, <3>2, DetachedRows DEF SameBacking
    <3> QED BY <1>4, <1>5, <3>1, <3>3
  <2> QED BY <2>4, <2>5
<1>7. CASE AbortRegistration(s)
  <2>. DEFINE d == dropRow(env, s)
              e == dropHandle(d, s)
  <2>1. d \in Environments /\ e \in Environments
    BY <1>1, RowTypes
  <2>2. /\ SameBacking(e, env) /\ e.handles = env.handles \ {s}
        /\ e.committed = env.committed \ {s}
        /\ e.journal.rows = {r \in env.journal.rows : r.session # s}
    <3>1. /\ SameBacking(d, env) /\ d.handles = env.handles /\ d.committed = env.committed
          /\ d.journal.rows = {r \in env.journal.rows : r.session # s}
      BY <1>1, RowViews
    <3> HIDE DEF d
    <3>2. /\ SameBacking(e, d) /\ e.handles = d.handles \ {s}
          /\ e.committed = d.committed \ {s} /\ e.journal = d.journal
      BY <2>1, RowViews
    <3> QED BY <3>1, <3>2 DEF SameBacking
  <2>3. becomes(s, "idle")
    BY <1>7 DEF AbortRegistration
  <2>4. CASE e.handles = {}
    <3>1. PICK ok \in BOOLEAN : scheduleIfIdle(e, ok)
      BY <1>7, <2>4 DEF AbortRegistration
    <3> HIDE DEF e
    <3> QED BY <1>6, <2>1, <2>2, <2>3, <2>4, <3>1
  <2>5. CASE e.handles # {}
    <3>1. env' = e /\ disk' = disk /\ timers' = timers
      BY <1>7, <2>5 DEF AbortRegistration
    <3> HIDE DEF e
    <3>2. \A t \in Sessions \ {s} : ownsRow(env.journal, t) => ownsRow(env'.journal, t)
      BY <2>2, <3>1 DEF ownsRow, SameBacking
    <3>3. \A r \in env'.journal.rows : \E q \in env.journal.rows :
               q.session = r.session /\ q.gen = r.gen
      BY <2>2, <3>1
    <3>4. env'.committed \subseteq env'.handles
      BY <1>3, <2>2, <3>1 DEF RowsAreOwned
    <3>5. RowsAreOwned(env, disk)'
      BY SMTT(60), <1>2, <2>2, <2>3, <3>1, <3>2, <3>3, <3>4, LeaveRows DEF SameBacking
    <3> QED BY <1>4, <1>5, <3>1, <3>5
  <2> QED BY <2>4, <2>5
<1>8. CASE Release(s)
  <2>1. timers' = timers
    BY <1>8 DEF Release
  <2>2. CASE /\ phase[s] = "sealed"
             /\ env' = checkpointLater(dropRow(env, s))
             /\ becomes(s, "released")
             /\ disk' = disk
    <3>. DEFINE d == dropRow(env, s)
    <3>1. d \in Environments /\ SameBacking(d, env) /\ d.handles = env.handles
          /\ d.committed = env.committed
          /\ d.journal.rows = {r \in env.journal.rows : r.session # s}
      BY <1>1, RowTypes, RowViews
    <3>2. /\ env'.journal = d.journal /\ env'.handles = d.handles
          /\ env'.committed = d.committed /\ env'.blocked = d.blocked
      <4>1. env' = checkpointLater(d)
        BY <2>2
      <4> HIDE DEF d
      <4> QED BY <3>1, <4>1 DEF checkpointLater, Environments
    <3> HIDE DEF d
    <3>3. \A t \in Sessions \ {s} : ownsRow(env.journal, t) => ownsRow(env'.journal, t)
      BY <3>1, <3>2 DEF ownsRow, SameBacking
    <3>4. \A r \in env'.journal.rows : \E q \in env.journal.rows :
               q.session = r.session /\ q.gen = r.gen
      BY <3>1, <3>2
    <3>5. env'.committed \subseteq env'.handles
      BY <1>3, <3>1, <3>2 DEF RowsAreOwned
    <3>6. RowsAreOwned(env, disk)'
      BY SMTT(60), <1>2, <2>2, <3>1, <3>2, <3>3, <3>4, <3>5, LeaveRows DEF SameBacking
    <3> QED BY <1>4, <1>5, <2>1, <3>6
  <2>3. CASE /\ phase[s] = "sealedUnproved"
             /\ env' = checkpointNow(orphanRow(env, s))
             /\ \E ok \in BOOLEAN : persist(env'.journal, ok)
             /\ becomes(s, "releasedUnproved")
    <3>. DEFINE d == orphanRow(env, s)
    <3>1. /\ d \in Environments /\ SameBacking(d, env) /\ d.handles = env.handles
          /\ d.committed = env.committed
          /\ \A r \in d.journal.rows : \E q \in env.journal.rows :
                q.session = r.session /\ q.gen = r.gen
          /\ \A q \in env.journal.rows : \E r \in d.journal.rows :
                q.session = r.session /\ q.gen = r.gen
      <4>1. d \in Environments
        BY <1>1, RowTypes
      <4> QED BY ZenonT(60), <1>1, <4>1, RowViews
    <3>2. /\ env'.journal = d.journal /\ env'.handles = d.handles
          /\ env'.committed = d.committed /\ env'.blocked = d.blocked
      <4>1. env' = checkpointNow(d)
        BY <2>3
      <4> HIDE DEF d
      <4> QED BY <3>1, <4>1 DEF checkpointNow, Environments
    <3> HIDE DEF d
    <3>3. ASSUME NEW t \in Sessions, ownsRow(env.journal, t)
          PROVE  ownsRow(env'.journal, t)
      <4>1. PICK q \in env.journal.rows : q.session = t /\ q.gen = env.journal.gen
        BY <3>3 DEF ownsRow
      <4>2. PICK r \in d.journal.rows : q.session = r.session /\ q.gen = r.gen
        BY <3>1
      <4>3. r \in env'.journal.rows /\ env'.journal.gen = env.journal.gen
        BY <3>1, <3>2 DEF SameBacking
      <4> QED BY <4>1, <4>2, <4>3 DEF ownsRow
    <3>4. ownsRow(env'.journal, s)
      BY <1>2, <1>3, <2>3, <3>3 DEF RowsAreOwned, registeredPhases
    <3>5. env'.committed \subseteq env'.handles
      BY <1>3, <3>1, <3>2 DEF RowsAreOwned
    <3>6. disk' = disk \/ disk' = env'.journal
      BY <2>3, Persisted
    <3>7. RowsAreOwned(env, disk)'
      BY SMTT(60), <1>2, <2>3, <3>1, <3>2, <3>3, <3>4, <3>5, <3>6, LeaveRows DEF SameBacking
    <3> QED BY <1>4, <1>5, <2>1, <3>7
  <2> QED BY <1>8, <2>2, <2>3 DEF Release
<1>9. CASE FinishRegistration(s)
  <2>. DEFINE e == dropHandle(env, s)
  <2>1. /\ e \in Environments /\ SameBacking(e, env) /\ e.handles = env.handles \ {s}
        /\ e.committed = env.committed \ {s} /\ e.journal = env.journal
    BY ZenonT(60), <1>1, RowTypes, RowViews
  <2>2. becomes(s, "idle")
    BY <1>9 DEF FinishRegistration
  <2>3. \A t \in Sessions \ {s} : ownsRow(env.journal, t) => ownsRow(e.journal, t)
    BY <2>1 DEF ownsRow
  <2>4. e.committed \subseteq e.handles
    BY <1>3, <2>1 DEF RowsAreOwned
  <2>5. CASE /\ phase[s] = "releasedUnproved"
             /\ env' = blockEnv(e, "cleanup-unproved")
             /\ \E ok \in BOOLEAN : persist(env'.journal, ok)
             /\ timers' = timers
    <3> HIDE DEF e
    <3>1. /\ env'.handles = e.handles /\ env'.committed = e.committed /\ env'.blocked
          /\ env'.journal.gen = e.journal.gen /\ env'.journal.inc = e.journal.inc
          /\ env'.journal.rows = e.journal.rows /\ env'.journal.deadline = e.journal.deadline
          /\ env'.journal.attempt = e.journal.attempt
          /\ env'.journal.disposal = e.journal.disposal
      BY <2>1, <2>5 DEF blockEnv, Environments, Journals
    <3>2. disk' = disk \/ disk' = env'.journal
      BY <2>5, Persisted
    <3>3. \A t \in Sessions \ {s} : ownsRow(env.journal, t) => ownsRow(env'.journal, t)
      BY <2>1, <3>1 DEF ownsRow
    <3>4. \A r \in env'.journal.rows : \E q \in env.journal.rows :
               q.session = r.session /\ q.gen = r.gen
      BY <2>1, <3>1
    <3>5. RowsAreOwned(env, disk)'
      BY SMTT(60), <1>2, <2>1, <2>2, <2>4, <3>1, <3>2, <3>3, <3>4, LeaveRows
    <3> QED BY <1>4, <1>5, <2>5, <3>5
  <2>6. CASE /\ phase[s] = "released" /\ e.handles # {}
             /\ env' = checkpointLater(e)
             /\ disk' = disk /\ timers' = timers
    <3> HIDE DEF e
    <3>1. /\ env'.handles = e.handles /\ env'.committed = e.committed
          /\ env'.blocked = e.blocked /\ env'.journal = e.journal
      BY <2>1, <2>6 DEF checkpointLater, Environments
    <3>2. \A r \in env'.journal.rows : r.session # s
      BY SMTT(60), <1>3, <2>1, <2>6, <3>1 DEF RowsAreOwned
    <3>3. RowsAreOwned(env, disk)'
      BY SMTT(60), <1>2, <2>1, <2>2, <2>3, <2>4, <2>6, <3>1, <3>2, LeaveRows DEF SameBacking
    <3> QED BY <1>4, <1>5, <2>6, <3>3
  <2>7. CASE /\ phase[s] = "released" /\ e.handles = {}
             /\ \E ok \in BOOLEAN : scheduleIfIdle(e, ok)
    <3>1. \A r \in e.journal.rows : r.session # s
      BY <1>3, <2>1, <2>7 DEF RowsAreOwned
    <3> HIDE DEF e
    <3> QED BY <1>6, <2>1, <2>2, <2>7, <3>1
  <2> QED BY <1>9, <2>5, <2>6, <2>7 DEF FinishRegistration
<1> QED BY <1>7, <1>8, <1>9

-----------------------------------------------------------------------------
(* Timers and stops *)

(* Nobody else is at work when the key could be claimed.                   *)
LEMMA UnclaimedAlone ==
    ASSUME Durability, mode = "up", NEW kind, kind # "attach", claimable(kind)
    PROVE  stopper.pc = "none" /\ disposer # "active" /\ mutator = "none"
<1>1. claims = {}
  BY DEF claimable
<1> QED BY <1>1 DEF Durability, Exclusion, ClaimDiscipline

(* An environment without handles has no registered session.               *)
LEMMA Unregistered ==
    ASSUME Durability, mode = "up", current.handles = {}, phase' = phase
    PROVE  \A s \in Sessions : phase'[s] \notin registeredPhases
BY CurrentRows DEF Durability, Exclusion, RegistryAgrees

LEMMA ArmedViews ==
    ASSUME NEW e \in Environments
    PROVE  /\ armed(e).journal.deadline.inc = e.journal.inc
           /\ armed(e).journal.deadline # NoDeadline
           /\ armed(e).journal.gen = e.journal.gen /\ armed(e).journal.inc = e.journal.inc
           /\ armed(e).journal.rows = e.journal.rows
           /\ armed(e).journal.attempt = e.journal.attempt
           /\ armed(e).journal.disposal = e.journal.disposal
           /\ armed(e).journal.recon = e.journal.recon
           /\ armed(e).handles = e.handles /\ armed(e).committed = e.committed
           /\ armed(e).establishing = e.establishing /\ armed(e).blocked = e.blocked
BY SMTT(60) DEF armed, NoDeadline, Environments, Journals

LEMMA AttemptViews ==
    ASSUME NEW e \in Environments, NEW a \in Attempts
    PROVE  /\ withAttempt(e, a).journal.attempt = a
           /\ withAttempt(e, a).journal.deadline = NoDeadline
           /\ withAttempt(e, a).journal.gen = e.journal.gen
           /\ withAttempt(e, a).journal.inc = e.journal.inc
           /\ withAttempt(e, a).journal.rows = e.journal.rows
           /\ withAttempt(e, a).journal.disposal = e.journal.disposal
           /\ withAttempt(e, a).journal.recon = e.journal.recon
           /\ withAttempt(e, a).handles = e.handles
           /\ withAttempt(e, a).committed = e.committed
           /\ withAttempt(e, a).establishing = e.establishing
           /\ withAttempt(e, a).blocked = e.blocked
BY DEF withAttempt, Environments, Journals

LEMMA AttemptSound ==
    ASSUME NEW e \in Environments, NEW a \in Attempts, SoundJournal(e.journal),
           a # NoAttempt => e.journal.inc.boot # 0 /\ a.inc = e.journal.inc
    PROVE  SoundJournal(withAttempt(e, a).journal)
<1>1. e.journal.inc.boot # 0 => e.journal.inc # NoInc
  BY SMTT(60) DEF NoInc
<1> QED BY SMTT(60), <1>1, AttemptViews DEF SoundJournal

LEMMA InvokedViews ==
    ASSUME daemon \in Nat, NEW e \in Environments, NEW inc \in Incarnations,
           NEW kind \in {"automatic", "explicit-recovery"}
    PROVE  LET f == invoked(e, inc, kind)
               w == withAttempt(e, attempt(inc, kind, "invoked"))
           IN  /\ f.journal = w.journal /\ f.handles = w.handles
               /\ f.committed = w.committed /\ f.establishing = w.establishing
               /\ f.blocked = w.blocked
<1>1. withAttempt(e, attempt(inc, kind, "invoked")) \in Environments
  BY AttemptTypes
<1> QED BY <1>1 DEF invoked, Environments

(* Environment f takes over from e, which nobody holds, with an attempt on *)
(* its own incarnation.                                                    *)
LEMMA AttemptRows ==
    ASSUME Durability, mode = "up", mode' = mode, phase' = phase,
           NEW a \in Attempts, NEW e \in Environments,
           Tame(e, current), current.handles = {},
           a # NoAttempt => e.journal.inc.boot # 0 /\ a.inc = e.journal.inc,
           env'.journal = withAttempt(e, a).journal, env'.handles = e.handles,
           env'.committed = e.committed, e.blocked => env'.blocked,
           disk' = disk \/ (SoundJournal(disk') /\ disk'.gen = env'.journal.gen)
    PROVE  RowsAreOwned(env, disk)'
<1>1. RowsAreOwned(current, disk)
  BY CurrentRows
<1>2. SoundJournal(e.journal) /\ e.handles = {} /\ e.committed = {}
  BY <1>1, TameSound DEF RowsAreOwned, Tame
<1>3. SoundJournal(env'.journal) /\ SoundJournal(disk')
  BY <1>1, <1>2, AttemptSound DEF RowsAreOwned
<1>4. /\ env'.journal.deadline = NoDeadline /\ env'.journal.gen = current.journal.gen
      /\ env'.journal.rows = current.journal.rows
  BY SMTT(60), AttemptViews DEF Tame, TameJournal
<1>5. env'.journal.gen = 0 => disk'.gen = 0
  BY <1>1, <1>4 DEF RowsAreOwned
<1>6. ~env'.blocked => env'.journal.rows = {}
  BY <1>1, <1>4 DEF RowsAreOwned, Tame
<1> QED BY <1>2, <1>3, <1>4, <1>5, <1>6, DetachedRows, Unregistered

LEMMA TimerStep ==
    ASSUME Durability, Exclusion', NEW t \in timers, TimerNext(t)
    PROVE  Durability'
<1>. USE DEF sessionVars, actorVars, backendVars, boundVars
<1>1. /\ TypeOK /\ RegistryAgrees /\ ActorsAreBacked
      /\ env \in Environments /\ daemon \in Nat /\ t # NoDeadline
  BY DEF Durability, Exclusion, TypeOK, ActorsAreBacked
<1>2. CASE ExpireStale(t)
  <2>1. UNCHANGED <<mode, loaded, env, disk, phase, stopper, disposer, mutator>>
        /\ timers' \subseteq timers
    BY <1>2 DEF ExpireStale
  <2> QED BY <2>1, IdleStep DEF PhasesKept, ActorsKept
<1>3. CASE ~ExpireStale(t)
  <2>1. /\ ~staleTimer(t) /\ mode' = mode /\ loaded' = loaded /\ phase' = phase
        /\ UNCHANGED <<disposer, mutator>>
    BY <1>3 DEF TimerNext, ExpireRefused, ExpireDeferred, Expire
  <2>2. /\ mode = "up" /\ loaded /\ env.establishing = {} /\ env.handles = {}
        /\ env.journal.deadline = t /\ current = env
    BY <2>1 DEF staleTimer, current
  <2>3. /\ RowsAreOwned(env, disk) /\ StartsFrom(env) /\ Tame(env, env)
        /\ SoundJournal(env.journal) /\ SoundJournal(disk)
    BY <2>2, TameReflexive DEF Durability, StartsFrom, RowsAreOwned
  <2>4. /\ env.journal.inc.boot # 0 /\ t.inc = env.journal.inc /\ env.journal.rows = {}
        /\ env.journal.gen # 0
    BY SMTT(60), <1>1, <2>2, <2>3 DEF RowsAreOwned, SoundJournal, NoInc
  <2>5. \A s \in Sessions : phase'[s] \notin registeredPhases
    BY <2>1, <2>2, Unregistered
  <2>6. CASE ExpireRefused(t)
    <3>1. /\ timers' \subseteq timers /\ stopper' = stopper
          /\ disk' = disk \/ disk' = env'.journal
      BY <2>6, Persisted DEF ExpireRefused
    <3>2. ActorsKept
      BY <2>1, <3>1 DEF ActorsKept
    <3>3. CASE env' = [blockEnv(env, "backend-observation-unproved") EXCEPT
                         !.journal.deadline = NoDeadline]
      <4>1. Tame(env', env)
        BY <1>1, <3>3 DEF blockEnv, blockedReconciliation, Tame, TameJournal, Environments, Journals
      <4>2. disk' = disk \/ TameJournal(disk', env.journal)
        BY <3>1, <4>1 DEF Tame
      <4> QED BY <2>1, <2>2, <2>3, <3>2, <4>1, <4>2, TameStep DEF PhasesKept
    <3>4. CASE env' = [env EXCEPT !.blocked = FALSE]
      <4>1. /\ env'.journal = env.journal /\ env'.handles = {} /\ env'.establishing = {}
            /\ env'.committed = env.committed
        BY <1>1, <2>2, <3>4 DEF Environments
      <4>2. RowsAreOwned(env, disk)'
        BY <2>1, <2>2, <2>3, <2>4, <2>5, <3>1, <4>1, DetachedRows DEF RowsAreOwned
      <4>3. TameJournal(env'.journal, env.journal)
        BY <4>1, TameReflexive
      <4>4. ActorsAreBacked'
        BY <1>1, <2>1, <2>2, <3>1, <4>1 DEF ActorsAreBacked
      <4> QED BY <2>1, <2>2, <4>2, <4>4, LoadedStep
    <3> QED BY <2>6, <3>3, <3>4 DEF ExpireRefused
  <2>7. CASE ExpireDeferred(t)
    <3>. DEFINE a == armed(env)
    <3>1. /\ disk' = disk /\ stopper' = stopper
          /\ env' = checkpointLater(a)
          /\ timers' = (timers \ {t}) \cup {a.journal.deadline}
      BY <2>7 DEF ExpireDeferred
    <3>2. /\ a \in Environments /\ a.journal.deadline.inc = env.journal.inc
          /\ a.journal.deadline # NoDeadline
          /\ a.journal.gen = env.journal.gen /\ a.journal.inc = env.journal.inc
          /\ a.journal.rows = env.journal.rows /\ a.journal.attempt = env.journal.attempt
          /\ a.journal.disposal = env.journal.disposal
          /\ a.journal.recon = env.journal.recon
          /\ a.handles = env.handles /\ a.committed = env.committed
          /\ a.establishing = env.establishing /\ a.blocked = env.blocked
      <4>1. a \in Environments
        BY <1>1, ArmedType
      <4> QED BY <1>1, <4>1, ArmedViews
    <3> HIDE DEF a
    <3>3. /\ env'.journal = a.journal /\ env'.handles = {} /\ env'.establishing = {}
          /\ env'.committed = env.committed
      BY <2>2, <3>1, <3>2 DEF checkpointLater, Environments
    <3>4. SoundJournal(a.journal)
      BY <2>3, <2>4, <3>2 DEF SoundJournal
    <3>5. RowsAreOwned(env, disk)'
      BY <2>1, <2>2, <2>3, <2>4, <2>5, <3>1, <3>2, <3>3, <3>4, DetachedRows DEF RowsAreOwned
    <3>6. NoDeadline \notin timers' /\ stopper.pc # "invoked"
      BY <1>1, <2>2, <3>1, <3>2 DEF ActorsAreBacked
    <3>7. ActorsAreBacked'
      BY <1>1, <2>1, <2>2, <3>1, <3>2, <3>3, <3>6 DEF ActorsAreBacked
    <3> QED BY <2>1, <2>2, <3>5, <3>7, LoadedStep
  <2>8. CASE Expire(t)
    <3>. DEFINE p == attempt(t.inc, "automatic", "planned")
                i == attempt(t.inc, "automatic", "invoked")
    <3>1. /\ stopper.pc = "none" /\ disposer # "active" /\ mutator = "none"
          /\ timers' \subseteq timers
      BY <2>2, <2>8, UnclaimedAlone DEF Expire
    <3>2. /\ t.inc \in Incarnations /\ p \in Attempts /\ i \in Attempts /\ NoAttempt \in Attempts
          /\ p.inc = t.inc /\ i.inc = t.inc
      BY <1>1, ConstantTypes DEF TypeOK, Deadlines, attempt, Attempts
    <3>3. /\ SoundJournal(withAttempt(env, p).journal)
          /\ SoundJournal(withAttempt(env, i).journal)
          /\ SoundJournal(withAttempt(env, NoAttempt).journal)
      <4> HIDE DEF p, i
      <4> QED BY <1>1, <2>3, <2>4, <3>2, AttemptSound
    <3>4. CASE /\ persist(withAttempt(env, p).journal, FALSE)
               /\ env' = [withAttempt(env, p) EXCEPT !.blocked = TRUE]
               /\ stopper' = stopper
      <4>1. disk' = disk \/ disk' = withAttempt(env, p).journal
        BY <3>4, Persisted
      <4>2. withAttempt(env, p) \in Environments
        BY <1>1, <3>2, AttemptTypes
      <4>3. /\ env'.journal = withAttempt(env, p).journal /\ env'.handles = env.handles
            /\ env'.committed = env.committed /\ env'.blocked
        <5> HIDE DEF p
        <5> QED BY <1>1, <3>2, <3>4, <4>2, AttemptViews DEF Environments
      <4>4. RowsAreOwned(env, disk)'
        <5> HIDE DEF p
        <5> QED BY <1>1, <2>1, <2>2, <2>3, <2>4, <3>2, <3>3, <4>1, <4>3, AttemptRows
      <4>5. ActorsAreBacked'
        BY <1>1, <2>1, <3>1, <3>4 DEF ActorsAreBacked
      <4> QED BY <2>1, <2>2, <4>4, <4>5, LoadedStep
    <3>5. CASE /\ persistTwice(withAttempt(env, p).journal, withAttempt(env, NoAttempt).journal)
               /\ env' = withAttempt(env, NoAttempt)
               /\ stopper' = stopper
      <4>1. disk' \in {withAttempt(env, p).journal, withAttempt(env, NoAttempt).journal}
        BY <3>5 DEF persistTwice
      <4>2. SoundJournal(disk') /\ disk'.gen = env'.journal.gen
        <5> HIDE DEF p
        <5> QED BY ZenonT(60), <1>1, <3>2, <3>3, <3>5, <4>1, AttemptViews
      <4>3. RowsAreOwned(env, disk)'
        BY ZenonT(60), <1>1, <2>1, <2>2, <2>3, <3>2, <3>5, <4>2, AttemptRows, AttemptViews
      <4>4. ActorsAreBacked'
        BY <1>1, <2>1, <3>1, <3>5 DEF ActorsAreBacked
      <4> QED BY <2>1, <2>2, <4>3, <4>4, LoadedStep
    <3>6. CASE /\ persistTwice(withAttempt(env, p).journal,
                               invoked(env, t.inc, "automatic").journal)
               /\ env' = invoked(env, t.inc, "automatic")
               /\ stopper' = [pc |-> "invoked", inc |-> t.inc]
      <4>1. disk' \in {withAttempt(env, p).journal, invoked(env, t.inc, "automatic").journal}
        BY <3>6 DEF persistTwice
      <4>2. LET w == withAttempt(env, i)
            IN  /\ env'.journal = w.journal /\ env'.handles = w.handles
                /\ env'.committed = w.committed /\ env'.establishing = w.establishing
                /\ env'.blocked = w.blocked
        BY <1>1, <3>2, <3>6, InvokedViews
      <4>3. SoundJournal(disk') /\ disk'.gen = env'.journal.gen
        <5>1. withAttempt(env, p).journal.gen = env.journal.gen
          BY <1>1, <3>2, AttemptViews
        <5>2. withAttempt(env, i).journal.gen = env.journal.gen
          BY <1>1, <3>2, AttemptViews
        <5> HIDE DEF p, i
        <5> QED BY <3>3, <3>6, <4>1, <4>2, <5>1, <5>2
      <4>4. /\ env'.handles = env.handles /\ env'.committed = env.committed
            /\ env'.blocked = env.blocked
            /\ env'.journal.inc = env.journal.inc /\ env'.journal.deadline = NoDeadline
        <5> HIDE DEF i
        <5> QED BY SMTT(60), <1>1, <3>2, <4>2, AttemptViews
      <4>5. RowsAreOwned(env, disk)'
        <5> HIDE DEF p, i
        <5> QED BY <1>1, <2>1, <2>2, <2>3, <2>4, <3>2, <4>2, <4>3, <4>4, AttemptRows
      <4>6. ActorsAreBacked'
        BY <1>1, <2>1, <2>2, <2>4, <3>1, <3>6, <4>4 DEF ActorsAreBacked
      <4> QED BY <2>1, <2>2, <4>5, <4>6, LoadedStep
    <3> QED BY <2>8, <3>4, <3>5, <3>6 DEF Expire
  <2> QED BY <1>3, <2>6, <2>7, <2>8 DEF TimerNext
<1> QED BY <1>2, <1>3

(* What is left of a step that writes e's journal, or one tamed from it.   *)
LEMMA CancelWrites ==
    ASSUME NEW e \in Environments, NEW j, NEW outcome, cancelAndPersist(e, j, outcome)
    PROVE  disk' = disk \/ TameJournal(disk', e.journal) \/ disk' = j
BY ZenonT(60), CancelPersisted, TameUpdates DEF Tame

LEMMA StopExplicitStep ==
    ASSUME Durability, Exclusion', StopExplicit
    PROVE  Durability'
<1>. USE DEF sessionVars, actorVars, backendVars, boundVars
<1>. DEFINE e == current
            c == cancelDeadline(e)
            i == attempt(e.journal.inc, "explicit-recovery", "invoked")
            w == withAttempt(c, i)
<1>1. /\ mode = "up" /\ mode' = mode /\ loaded' /\ phase' = phase /\ timers' = timers
      /\ UNCHANGED <<disposer, mutator>> /\ claimable("stop") /\ mayStop(e)
  BY DEF StopExplicit
<1>2. /\ e \in Environments /\ RowsAreOwned(e, disk) /\ StartsFrom(e) /\ daemon \in Nat
      /\ ActorsAreBacked
  BY <1>1, CurrentRows DEF Durability, Exclusion, TypeOK
<1>3. e.handles = {} /\ e.establishing = {}
  BY <1>1 DEF mayStop
<1>4. stopper.pc = "none" /\ disposer # "active" /\ mutator = "none"
  BY <1>1, UnclaimedAlone
<1>5. c \in Environments /\ Tame(c, e) /\ TameJournal(c.journal, e.journal)
  BY <1>2, CancelType, TameUpdates DEF Tame
<1>6. e.journal.inc \in Incarnations /\ i \in Attempts /\ i.inc = e.journal.inc
      /\ c.journal.inc = e.journal.inc
  BY <1>2, <1>5, EnvironmentFields, JournalFields DEF attempt, Attempts, TameJournal
<1>7. CASE env' = e /\ stopper' = returned /\ disk' = disk
  <2>1. Tame(env', e)
    BY <1>7, TameReflexive
  <2>2. ActorsKept /\ PhasesKept
    BY <1>1, <1>7 DEF ActorsKept, PhasesKept, returned
  <2> HIDE DEF e
  <2> QED BY <1>1, <1>2, <1>7, <2>1, <2>2, TameStep
<1>8. CASE env' = c /\ stopper' = returned /\ cancelAndPersist(e, w.journal, "cancelFailed")
  <2>1. disk' = disk \/ disk' = c.journal
    BY <1>8, CancelPersisted
  <2>2. ActorsKept /\ PhasesKept
    BY <1>1, <1>8 DEF ActorsKept, PhasesKept, returned
  <2> HIDE DEF e, c
  <2> QED BY <1>1, <1>2, <1>5, <1>8, <2>1, <2>2, TameStep
<1>9. ASSUME NEW outcome, cancelAndPersist(e, w.journal, outcome), ~explicitStopRefused(e),
             env'.journal = w.journal, env'.handles = w.handles,
             env'.committed = w.committed, env'.blocked = w.blocked,
             stopper'.pc = "invoked" => stopper'.inc = e.journal.inc
      PROVE  Durability'
  <2>1. e.journal.inc.boot # 0
    BY <1>9 DEF explicitStopRefused
  <2>. HIDE DEF i
  <2>2. /\ w.handles = c.handles /\ w.committed = c.committed /\ w.blocked = c.blocked
        /\ w.journal.gen = c.journal.gen /\ w.journal.inc = c.journal.inc
        /\ w.journal.deadline = NoDeadline
    BY <1>5, <1>6, AttemptViews
  <2>3. SoundJournal(e.journal) /\ SoundJournal(c.journal)
    BY <1>2, <1>5, TameSound DEF RowsAreOwned
  <2>4. SoundJournal(w.journal)
    BY <1>5, <1>6, <2>1, <2>3, AttemptSound
  <2>5. disk' = disk \/ (SoundJournal(disk') /\ disk'.gen = env'.journal.gen)
    <3>1. disk' = disk \/ disk' = c.journal \/ disk' = w.journal
      BY <1>9, CancelPersisted
    <3> HIDE DEF e, c, w
    <3> QED BY <1>9, <2>2, <2>3, <2>4, <3>1
  <2>6. RowsAreOwned(env, disk)'
    <3> HIDE DEF c
    <3> QED BY <1>1, <1>3, <1>5, <1>6, <1>9, <2>1, <2>2, <2>5, AttemptRows
  <2>7. ActorsAreBacked'
    <3> HIDE DEF e, c, w
    <3> QED BY <1>1, <1>2, <1>4, <1>6, <1>9, <2>1, <2>2 DEF ActorsAreBacked
  <2> QED BY <1>1, <2>6, <2>7, LoadedStep
<1>10. CASE /\ cancelAndPersist(e, w.journal, "writeFailed") /\ ~explicitStopRefused(e)
            /\ env' = w /\ stopper' = returned
  <2>1. stopper'.pc # "invoked"
    BY <1>10 DEF returned
  <2> HIDE DEF e, c, w
  <2> QED BY <1>9, <1>10, <2>1
<1>11. CASE /\ cancelAndPersist(e, w.journal, "written") /\ ~explicitStopRefused(e)
            /\ env' = invoked(c, e.journal.inc, "explicit-recovery")
            /\ stopper' = [pc |-> "invoked", inc |-> e.journal.inc]
  <2>1. /\ env'.journal = w.journal /\ env'.handles = w.handles
        /\ env'.committed = w.committed /\ env'.blocked = w.blocked
    BY <1>2, <1>5, <1>6, <1>11, InvokedViews
  <2> HIDE DEF e, c, w
  <2> QED BY <1>9, <1>11, <2>1
<1> QED BY <1>7, <1>8, <1>10, <1>11 DEF StopExplicit

LEMMA StopCommittedViews ==
    ASSUME NEW e \in Environments, NEW res
    PROVE  LET f == stopCommitted(e, res)
           IN  /\ f.handles = e.handles /\ f.committed = e.committed
               /\ f.journal.gen = e.journal.gen /\ f.journal.deadline = e.journal.deadline
               /\ f.journal.disposal = e.journal.disposal
               /\ f.journal.attempt.inc = e.journal.attempt.inc
               /\ f.journal.inc = IF res = "unknown" THEN e.journal.inc ELSE NoInc
               /\ f.journal.rows = IF res = "unknown" THEN e.journal.rows
                                   ELSE IF res = "unproved" THEN orphans(e.journal.rows) ELSE {}
               /\ ~f.blocked => f.journal.rows = {}
<1>. DEFINE g == stopFinished(e)
<1>1. g \in Environments /\ g.journal = e.journal
      /\ g.handles = e.handles /\ g.committed = e.committed
  BY DEF stopFinished, Environments
<1>2. g.journal \in Journals /\ g.journal.attempt \in Attempts
  BY <1>1, EnvironmentFields, JournalFields
<1>. DEFINE a == [g.journal.attempt EXCEPT !.state = "unknown"]
            b == [g.journal.attempt EXCEPT !.state = "committed"]
            R == IF res = "unproved" THEN orphans(g.journal.rows) ELSE {}
            k == IF res = "unproved"
                 THEN blockedReconciliation(daemon, "cleanup-unproved")
                 ELSE completeReconciliation(daemon)
            j1 == [g.journal EXCEPT !.attempt = a]
            j2 == [g.journal EXCEPT !.attempt = b, !.inc = NoInc, !.rows = R, !.recon = k]
<1>3. a.inc = e.journal.attempt.inc /\ b.inc = e.journal.attempt.inc
  BY <1>1, <1>2 DEF Attempts
<1>4. CASE res = "unknown"
  <2>1. stopCommitted(e, res) =
          [g EXCEPT !.obs = [state |-> "unknown", boot |-> 0], !.journal = j1, !.blocked = TRUE]
    BY <1>1, <1>2, <1>4 DEF stopCommitted, Environments, Journals
  <2>2. /\ j1.gen = g.journal.gen /\ j1.inc = g.journal.inc /\ j1.rows = g.journal.rows
        /\ j1.deadline = g.journal.deadline /\ j1.disposal = g.journal.disposal
        /\ j1.attempt = a
    <3> HIDE DEF a, g
    <3> QED BY <1>2 DEF Journals
  <2> HIDE DEF j1, a, g
  <2>3. /\ stopCommitted(e, res).journal = j1 /\ stopCommitted(e, res).blocked
        /\ stopCommitted(e, res).handles = g.handles
        /\ stopCommitted(e, res).committed = g.committed
    BY <1>1, <2>1 DEF Environments
  <2> QED BY <1>1, <1>3, <1>4, <2>2, <2>3
<1>5. CASE res # "unknown"
  <2>1. stopCommitted(e, res) =
          [g EXCEPT !.obs = observation(0), !.journal = j2, !.blocked = (res = "unproved")]
    BY ZenonT(60), <1>1, <1>2, <1>5 DEF stopCommitted, Environments, Journals
  <2>2. /\ j2.gen = g.journal.gen /\ j2.inc = NoInc /\ j2.rows = R
        /\ j2.deadline = g.journal.deadline /\ j2.disposal = g.journal.disposal
        /\ j2.attempt = b
    <3> HIDE DEF b, g, R, k
    <3> QED BY <1>2 DEF Journals
  <2> HIDE DEF j2, b, g, k
  <2>3. /\ stopCommitted(e, res).journal = j2
        /\ stopCommitted(e, res).blocked = (res = "unproved")
        /\ stopCommitted(e, res).handles = g.handles
        /\ stopCommitted(e, res).committed = g.committed
    BY <1>1, <2>1 DEF Environments
  <2> QED BY <1>1, <1>3, <1>5, <2>2, <2>3
<1> QED BY <1>4, <1>5

(* Whoever is at work on the backend is there alone.                       *)
LEMMA DestroyerAlone ==
    ASSUME Durability, destroying # {}, phase' = phase
    PROVE  /\ \A s \in Sessions : phase'[s] \notin registeredPhases
           /\ stopper.pc = "invoked" => disposer # "active" /\ mutator # "running"
           /\ disposer = "active" => stopper.pc # "invoked" /\ mutator # "running"
           /\ mutator = "running" => stopper.pc # "invoked" /\ disposer # "active"
<1>1. \A s \in Sessions : phase[s] \notin registeredPhases
  BY DEF Durability, Exclusion, DestructionExcludesSessions, attached
<1>2. \A a, b \in destroying : a = b
  BY DEF Durability, Exclusion, OneDestroyer
<1>3. /\ "stop" \in destroying <=> stopper.pc = "invoked"
      /\ "disposal" \in destroying <=> disposer = "active"
      /\ "mutation" \in destroying <=> mutator = "running"
  BY DEF destroying
<1> QED BY <1>1, <1>2, <1>3

LEMMA StopStep ==
    ASSUME Durability, Exclusion',
           \/ BackendStop \/ (\E res \in StopResults : StopReturn(res))
           \/ StopRelease \/ Checkpoint
    PROVE  Durability'
<1>. USE DEF sessionVars, actorVars, backendVars, boundVars
<1>1. /\ TypeOK /\ ActorsAreBacked /\ env \in Environments
  BY DEF Durability, Exclusion, TypeOK
<1>2. mode' = mode /\ loaded' = loaded /\ phase' = phase /\ UNCHANGED <<timers, disposer, mutator>>
  BY DEF BackendStop, StopReturn, StopRelease, Checkpoint
<1>3. PhasesKept
  BY <1>2 DEF PhasesKept
<1>4. CASE BackendStop \/ StopRelease
  <2>1. env' = env /\ disk' = disk
    BY <1>4 DEF BackendStop, StopRelease
  <2>2. stopper' = stopper \/ stopper'.pc # "invoked"
    BY SMTT(60), <1>4 DEF BackendStop, StopRelease, idleStopper
  <2> QED BY <1>2, <1>3, <2>1, <2>2, IdleStep DEF ActorsKept
<1>5. ASSUME NEW res \in StopResults, StopReturn(res)
      PROVE  Durability'
  <2>1. stopper.pc = "invoked" /\ stopper' = returned
    BY <1>5 DEF StopReturn
  <2>2. stopper'.pc # "invoked" /\ destroying # {}
    BY <2>1 DEF returned, destroying
  <2>3. CASE /\ loaded /\ env.journal.attempt # NoAttempt
             /\ env.journal.attempt.inc = stopper.inc
    <3>. DEFINE f == stopCommitted(env, res)
    <3>1. env' = f /\ \E ok \in BOOLEAN : persist(f.journal, ok)
      BY <1>5, <2>3 DEF StopReturn
    <3>2. RowsAreOwned(env, disk)
      BY <2>3 DEF Durability
    <3>3. /\ f.handles = env.handles /\ f.committed = env.committed
          /\ f.journal.gen = env.journal.gen /\ f.journal.deadline = env.journal.deadline
          /\ f.journal.disposal = env.journal.disposal
          /\ f.journal.attempt.inc = env.journal.attempt.inc
          /\ f.journal.inc = IF res = "unknown" THEN env.journal.inc ELSE NoInc
          /\ f.journal.rows = IF res = "unknown" THEN env.journal.rows
                              ELSE IF res = "unproved" THEN orphans(env.journal.rows) ELSE {}
          /\ ~f.blocked => f.journal.rows = {}
      BY <1>1, StopCommittedViews
    <3> HIDE DEF f
    <3>4. /\ env.journal.deadline = NoDeadline /\ env.journal.gen # 0
          /\ env.journal.attempt.inc.gen = env.journal.gen
          /\ env.journal.attempt.inc.boot # 0
          /\ env.journal.inc # NoInc => env.journal.inc.gen = env.journal.gen
                                        /\ env.journal.attempt.inc = env.journal.inc
      BY <1>1, <2>1, <2>3, <3>2 DEF ActorsAreBacked, RowsAreOwned, SoundJournal
    <3>5. \A r \in f.journal.rows : r.gen = f.journal.gen
      <4>1. \A r \in env.journal.rows : r \in Rows /\ r.gen = env.journal.gen
        BY <1>1, <3>2, EnvironmentFields, JournalFields DEF RowsAreOwned, SoundJournal
      <4>2. \A r \in orphans(env.journal.rows) : r.gen = env.journal.gen
        BY <4>1 DEF orphans, Rows
      <4> QED BY <3>3, <4>1, <4>2
    <3>6. SoundJournal(f.journal)
      BY <3>3, <3>4, <3>5 DEF SoundJournal
    <3>7. disk' = disk \/ disk' = f.journal
      BY <3>1, Persisted
    <3>8. RowsAreOwned(env, disk)'
      <4>1. env.handles \subseteq Sessions /\ env.committed \subseteq env.handles
            /\ SoundJournal(disk)
        BY <1>1, <3>2, EnvironmentFields DEF RowsAreOwned
      <4> QED BY <1>2, <2>2, <3>1, <3>3, <3>4, <3>6, <3>7, <4>1, DestroyerAlone, DetachedRows
    <3>9. ActorsAreBacked'
      BY <1>1, <1>2, <2>1, <2>2, DestroyerAlone DEF ActorsAreBacked
    <3> QED BY <1>2, <2>3, <3>8, <3>9, LoadedStep
  <2>4. CASE ~(/\ loaded /\ env.journal.attempt # NoAttempt
               /\ env.journal.attempt.inc = stopper.inc)
    <3>1. env' = env /\ disk' = disk
      BY <1>5, <2>4 DEF StopReturn
    <3> QED BY <1>2, <1>3, <2>2, <3>1, IdleStep DEF ActorsKept
  <2> QED BY <2>3, <2>4
<1>6. CASE Checkpoint
  <2>1. loaded /\ stopper' = stopper
    BY <1>6 DEF Checkpoint
  <2>2. PICK ok \in BOOLEAN :
          /\ persist(env.journal, ok)
          /\ env' = IF ok THEN checkpointNow(env)
                          ELSE blockEnv(checkpointNow(env), "journal-checkpoint-failed")
    BY <1>6 DEF Checkpoint
  <2>3. Tame(checkpointNow(env), env)
    BY <1>1, TameUpdates
  <2>4. Tame(blockEnv(checkpointNow(env), "journal-checkpoint-failed"), checkpointNow(env))
    BY <1>1, CheckpointTypes, TameUpdates
  <2>5. Tame(env', env)
    BY <2>2, <2>3, <2>4, TameTransitive
  <2>6. disk' = disk \/ TameJournal(disk', env.journal)
    BY SMTT(60), <2>2, Persisted, TameReflexive
  <2>7. StartsFrom(env) /\ ActorsKept
    BY <1>2, <2>1 DEF StartsFrom, ActorsKept
  <2> QED BY <1>2, <1>3, <2>1, <2>5, <2>6, <2>7, TameStep
<1> QED BY <1>4, <1>5, <1>6

(***************************************************************************)
(* The steps of restarts and removals, and what the invariant gives.       *)
(***************************************************************************)

-----------------------------------------------------------------------------
(* Reconciliation *)

LEMMA FencedViews ==
    ASSUME NEW e \in Environments, NEW d
    PROVE  LET f == fenced(e, d)
           IN  /\ f.handles = e.handles /\ f.committed = e.committed
               /\ f.establishing = e.establishing /\ f.blocked
               /\ f.journal.gen = (IF e.journal.gen = 0 THEN 1 ELSE e.journal.gen)
               /\ f.journal.inc = e.journal.inc /\ f.journal.rows = e.journal.rows
               /\ f.journal.deadline = NoDeadline /\ f.journal.attempt = e.journal.attempt
               /\ f.journal.disposal = e.journal.disposal
BY DEF fenced, Environments, Journals

LEMMA FencedSound ==
    ASSUME NEW e \in Environments, NEW d, SoundJournal(e.journal)
    PROVE  SoundJournal(fenced(e, d).journal) /\ fenced(e, d).journal.gen # 0
<1>1. e.journal.gen = 0 => e.journal.inc = NoInc /\ e.journal.rows = {}
                           /\ e.journal.attempt = NoAttempt
  BY DEF SoundJournal
<1> QED BY SMTT(60), <1>1, FencedViews DEF SoundJournal

LEMMA RelinquishedViews ==
    ASSUME NEW e \in Environments, NEW o, SoundJournal(e.journal)
    PROVE  LET f == relinquished(e, o)
           IN  /\ SoundJournal(f.journal) /\ f.journal.gen # 0
               /\ f.journal.deadline = NoDeadline /\ f.journal.attempt = NoAttempt
               /\ f.committed = {}
<1>. DEFINE f == relinquished(e, o)
<1>1. /\ f.journal.gen = (IF e.journal.gen = 0 THEN 1 ELSE e.journal.gen)
      /\ f.journal.inc = e.journal.inc /\ f.journal.rows = e.journal.rows
      /\ f.journal.deadline = NoDeadline /\ f.journal.attempt = NoAttempt
      /\ f.journal.disposal = e.journal.disposal /\ f.committed = {}
  BY DEF relinquished, Environments, Journals
<1> HIDE DEF f
<1>2. SoundJournal(f.journal)
  BY <1>1 DEF SoundJournal
<1> QED BY SMTT(60), <1>1, <1>2 DEF f

LEMMA ReconciledSound ==
    ASSUME TypeOK, NEW e \in Environments, NEW o \in probed,
           NEW owners \in SUBSET Sessions, NEW unproved \in BOOLEAN, SoundJournal(e.journal)
    PROVE  LET h == reconciled(e, o, owners, unproved)
           IN  /\ SoundJournal(h.journal) /\ h.journal.gen # 0 /\ h.committed = {}
               /\ ~h.blocked => h.journal.rows = {}
<1>. DEFINE f == relinquished(e, o)
            g == f.journal.gen
            h == classified(f, o, owners, unproved)
<1>1. /\ o \in Observations /\ f \in Environments
      /\ o.state = "running" => o.boot # 0
      /\ o.state \in {"running", "stopped", "unknown"}
  <2>1. o \in Observations
    BY ObservationType DEF probed, TypeOK, Observations
  <2>2. /\ o.state = "running" => o.boot # 0
        /\ o.state \in {"running", "stopped", "unknown"}
    BY SMTT(60) DEF probed, observation
  <2> QED BY <2>1, <2>2, RelinquishedType
<1>2. /\ SoundJournal(f.journal) /\ g # 0 /\ f.committed = {}
      /\ f.journal.deadline = NoDeadline /\ f.journal.attempt = NoAttempt
  BY RelinquishedViews
<1>3. f.journal \in Journals /\ g \in Nat /\ f.journal.rows \subseteq Rows
  BY <1>1, EnvironmentFields, JournalFields
<1>. HIDE DEF f
<1>4. /\ \A r \in f.journal.rows : r.gen = g
      /\ f.journal.inc # NoInc => f.journal.inc.gen = g
  BY <1>2 DEF SoundJournal
<1>5. ASSUME NEW k, k.gen # 0, k.deadline = NoDeadline, k.attempt = NoAttempt,
             k.inc # NoInc => k.inc.gen = k.gen, \A r \in k.rows : r.gen = k.gen
      PROVE  SoundJournal(k)
  BY <1>5 DEF SoundJournal
<1>6. \A r \in orphans(f.journal.rows) : r.gen = g
  BY <1>3, <1>4 DEF orphans, Rows
<1>7. \A X, n : \A r \in ownerOrphans(X, n) : r.gen = n
  BY SMTT(60) DEF ownerOrphans, row
<1>8. ASSUME NEW why
      PROVE  LET b == blockEnv(f, why)
             IN  /\ b.journal.gen = g /\ b.journal.inc = f.journal.inc
                 /\ b.journal.rows = f.journal.rows
                 /\ b.journal.deadline = NoDeadline /\ b.journal.attempt = NoAttempt
                 /\ b.committed = {} /\ b.blocked
  BY <1>1, <1>2 DEF blockEnv, Environments, Journals
<1>9. ASSUME NEW b \in Environments, NEW R
      PROVE  LET k == [b EXCEPT !.journal.rows = R]
             IN  /\ k.journal.gen = b.journal.gen /\ k.journal.inc = b.journal.inc
                 /\ k.journal.rows = R /\ k.journal.deadline = b.journal.deadline
                 /\ k.journal.attempt = b.journal.attempt
                 /\ k.committed = b.committed /\ k.blocked = b.blocked
  BY <1>9 DEF Environments, Journals
<1>10. \A why \in Reasons : blockEnv(f, why) \in Environments
  BY <1>1, BlockType DEF TypeOK
<1>11. CASE o.state = "stopped"
  <2>1. /\ h.journal.gen = g /\ h.journal.inc = NoInc /\ h.journal.rows = {}
        /\ h.journal.deadline = NoDeadline /\ h.journal.attempt = NoAttempt
        /\ h.committed = {}
    BY <1>1, <1>2, <1>11 DEF classified, completed, Environments, Journals
  <2>2. SoundJournal(h.journal)
    <3> HIDE DEF h, g
    <3> QED BY <1>2, <1>5, <2>1
  <2> QED BY <1>2, <2>1, <2>2 DEF f, reconciled
<1>12. CASE o.state = "unknown"
  <2>. DEFINE b == blockEnv(f, "backend-unknown")
  <2>1. b \in Environments /\ b.journal.rows = f.journal.rows
    BY <1>8, <1>10 DEF Reasons
  <2>2. h = [b EXCEPT !.journal.rows = orphans(f.journal.rows)]
    BY <1>12, <2>1 DEF classified
  <2>3. /\ h.journal.gen = g /\ h.journal.inc = f.journal.inc
        /\ h.journal.rows = orphans(f.journal.rows) /\ h.committed = {} /\ h.blocked
        /\ h.journal.deadline = NoDeadline /\ h.journal.attempt = NoAttempt
    <3>1. /\ b.journal.gen = g /\ b.journal.inc = f.journal.inc
          /\ b.journal.deadline = NoDeadline /\ b.journal.attempt = NoAttempt
          /\ b.committed = {} /\ b.blocked
      BY <1>8
    <3> HIDE DEF b, h, g
    <3> QED BY ZenonT(60), <1>9, <2>1, <2>2, <3>1
  <2>4. SoundJournal(h.journal)
    <3> HIDE DEF h, g
    <3> QED BY <1>2, <1>4, <1>5, <1>6, <2>3
  <2> QED BY <1>2, <2>3, <2>4 DEF f, reconciled
<1>13. CASE o.state = "running" /\ ~matches(f.journal.inc, o)
  <2>. DEFINE b == blockEnv(f, "backend-incarnation-changed")
              R == ownerOrphans(owners, g + 1)
              i == [gen |-> g + 1, boot |-> o.boot]
  <2>1. /\ b \in Environments
        /\ b.journal.deadline = NoDeadline /\ b.journal.attempt = NoAttempt
        /\ b.committed = {} /\ b.blocked
    BY <1>8, <1>10 DEF Reasons
  <2>2. h = [b EXCEPT !.journal.gen = g + 1, !.journal.inc = i, !.journal.rows = R]
    BY <1>13 DEF classified
  <2>3. i.gen = g + 1 /\ g + 1 # 0 /\ \A r \in R : r.gen = g + 1
    BY SMTT(60), <1>3, <1>7
  <2>4. /\ h.journal.gen = g + 1 /\ h.journal.inc = i
        /\ h.journal.rows = R /\ h.committed = {} /\ h.blocked
        /\ h.journal.deadline = NoDeadline /\ h.journal.attempt = NoAttempt
    <3> HIDE DEF b, R, i, g, h
    <3> QED BY <2>1, <2>2 DEF Environments, Journals
  <2>5. SoundJournal(h.journal)
    <3> HIDE DEF h, g, i, R
    <3> QED BY <1>5, <2>3, <2>4
  <2> QED BY <2>3, <2>4, <2>5 DEF f, reconciled
<1>14. CASE o.state = "running" /\ matches(f.journal.inc, o) /\ unproved
  <2>. DEFINE b == blockEnv(f, "provider-state-unproved")
              R == orphans(b.journal.rows) \cup
                     ownerOrphans(owners \ {r.session : r \in b.journal.rows}, g)
  <2>1. /\ b \in Environments /\ b.journal.rows = f.journal.rows
        /\ b.journal.gen = g /\ b.journal.inc = f.journal.inc
        /\ b.journal.deadline = NoDeadline /\ b.journal.attempt = NoAttempt
        /\ b.committed = {} /\ b.blocked
    BY <1>8, <1>10 DEF Reasons
  <2>2. h = [b EXCEPT !.journal.rows = R]
    BY <1>14 DEF classified
  <2>3. \A r \in R : r.gen = g
    <3> HIDE DEF b, g
    <3> QED BY SMTT(60), <1>6, <1>7, <2>1
  <2>4. /\ h.journal.gen = g /\ h.journal.inc = f.journal.inc
        /\ h.journal.rows = R /\ h.committed = {} /\ h.blocked
        /\ h.journal.deadline = NoDeadline /\ h.journal.attempt = NoAttempt
    <3> HIDE DEF b, h, g, R
    <3> QED BY SMTT(60), <1>9, <2>1, <2>2
  <2>5. SoundJournal(h.journal)
    <3> HIDE DEF h, g, R
    <3> QED BY <1>2, <1>4, <1>5, <2>3, <2>4
  <2> QED BY <1>2, <2>4, <2>5 DEF f, reconciled
<1>15. CASE o.state = "running" /\ matches(f.journal.inc, o) /\ ~unproved /\ owners # {}
  <2>. DEFINE b == blockEnv(f, "owner-requires-explicit-recovery")
              R == ownerOrphans(owners, g)
  <2>1. /\ b \in Environments
        /\ b.journal.gen = g /\ b.journal.inc = f.journal.inc
        /\ b.journal.deadline = NoDeadline /\ b.journal.attempt = NoAttempt
        /\ b.committed = {} /\ b.blocked
    BY <1>8, <1>10 DEF Reasons
  <2>2. h = [b EXCEPT !.journal.rows = R] /\ \A r \in R : r.gen = g
    BY <1>7, <1>15 DEF classified
  <2>3. /\ h.journal.gen = g /\ h.journal.inc = f.journal.inc
        /\ h.journal.rows = R /\ h.committed = {} /\ h.blocked
        /\ h.journal.deadline = NoDeadline /\ h.journal.attempt = NoAttempt
    <3> HIDE DEF b, h, g, R
    <3> QED BY ZenonT(60), <1>9, <2>1, <2>2
  <2>4. SoundJournal(h.journal)
    <3> HIDE DEF h, g, R
    <3> QED BY <1>2, <1>4, <1>5, <2>2, <2>3
  <2> QED BY <1>2, <2>3, <2>4 DEF f, reconciled
<1>16. CASE o.state = "running" /\ matches(f.journal.inc, o) /\ ~unproved /\ owners = {}
  <2>. DEFINE k == checkpointNow([completed(f) EXCEPT !.journal.rows = {}])
  <2>1. k \in Environments
    <3>1. completed(f) \in Environments
      BY <1>1, CompletedType DEF TypeOK
    <3>2. [completed(f) EXCEPT !.journal.rows = {}] \in Environments
      BY <3>1 DEF Environments, Journals
    <3> QED BY <3>2, CheckpointTypes
  <2>2. /\ k.journal.gen = g /\ k.journal.inc = f.journal.inc /\ k.journal.rows = {}
        /\ k.journal.attempt = NoAttempt /\ k.committed = {}
    BY <1>1, <1>2 DEF completed, checkpointNow, Environments, Journals
  <2>3. h = armed(k)
    BY <1>16 DEF classified
  <2> HIDE DEF k, h, g
  <2>4. /\ h.journal.gen = g /\ h.journal.inc = f.journal.inc /\ h.journal.rows = {}
        /\ h.journal.attempt = NoAttempt /\ h.committed = {}
        /\ h.journal.deadline.inc = h.journal.inc
    BY <2>1, <2>2, <2>3, ArmedViews
  <2>5. f.journal.inc.boot # 0 /\ f.journal.inc # NoInc
    BY <1>1, <1>16 DEF matches
  <2>6. SoundJournal(h.journal)
    BY <1>2, <1>4, <2>4, <2>5 DEF SoundJournal
  <2> QED BY <1>2, <2>4, <2>6 DEF f, h, reconciled
<1> QED BY <1>1, <1>11, <1>12, <1>13, <1>14, <1>15, <1>16

(* A step of a serving daemon from an environment that nobody holds and    *)
(* nobody is at work on.                                                   *)
LEMMA UnheldStep ==
    ASSUME Durability, Exclusion', mode = "up", mode' = mode, phase' = phase, loaded',
           current.handles = {}, env'.handles = {}, env'.committed = {},
           env'.establishing = {},
           SoundJournal(env'.journal), SoundJournal(disk'),
           env'.journal.gen = 0 => disk'.gen = 0,
           ~env'.blocked => env'.journal.rows = {},
           ActorsAreBacked'
    PROVE  Durability'
<1>1. RowsAreOwned(env, disk)'
  BY Unregistered, DetachedRows
<1> QED BY <1>1, LoadedStep

LEMMA ReconciliationStep ==
    ASSUME Durability, Exclusion',
           BeginReconciliation \/ Reconcile \/ ReconcileRefused \/ BlockReconciliation
    PROVE  Durability'
<1>. USE DEF sessionVars, actorVars, backendVars, boundVars
<1>1. mode = "up" /\ mode' = mode /\ phase' = phase /\ UNCHANGED <<stopper, disposer, mutator>>
  BY DEF BeginReconciliation, Reconcile, ReconcileRefused, BlockReconciliation
<1>2. /\ TypeOK /\ ActorsAreBacked /\ ClaimDiscipline /\ RegistryAgrees
      /\ current \in Environments /\ daemon \in Nat
      /\ RowsAreOwned(current, disk) /\ StartsFrom(current)
      /\ SoundJournal(current.journal) /\ SoundJournal(disk)
  BY ZenonT(60), <1>1, CurrentRows DEF Durability, Exclusion, TypeOK, RowsAreOwned
<1>3. PhasesKept
  BY <1>1 DEF PhasesKept
<1>4. CASE BeginReconciliation
  <2>. DEFINE f == fenced(current, daemon)
  <2>1. /\ claimable("reconcile") /\ current.handles = {} /\ current.establishing = {}
        /\ loaded' /\ timers' = timers
    BY <1>4 DEF BeginReconciliation, quiet
  <2>2. /\ f.handles = {} /\ f.committed = {} /\ f.establishing = {} /\ f.blocked
        /\ SoundJournal(f.journal) /\ f.journal.gen # 0
    BY SMTT(60), <1>2, <2>1, FencedViews, FencedSound DEF RowsAreOwned
  <2>3. /\ env'.journal = f.journal /\ env'.handles = f.handles
        /\ env'.committed = f.committed /\ env'.establishing = f.establishing
        /\ env'.blocked = f.blocked
    <3>1. f \in Environments
      BY <1>2, FencedType
    <3>2. env' = f \/ env' = [f EXCEPT !.reconciling = FALSE]
      BY <1>4 DEF BeginReconciliation
    <3> HIDE DEF f
    <3> QED BY <3>1, <3>2 DEF Environments
  <2>4. disk' = disk \/ disk' = f.journal
    BY <1>4, Persisted DEF BeginReconciliation
  <2>5. ActorsAreBacked'
    BY <1>1, <1>2, <2>1, UnclaimedAlone DEF ActorsAreBacked
  <2> HIDE DEF f
  <2> QED BY <1>1, <1>2, <2>1, <2>2, <2>3, <2>4, <2>5, UnheldStep
<1>5. CASE Reconcile
  <2>1. PICK o \in probed, owners \in SUBSET Sessions, unproved \in BOOLEAN, ok \in BOOLEAN :
          LET e == reconciled(current, o, owners, unproved)
          IN  /\ env' = e
              /\ timers' = timers \cup ({e.journal.deadline} \ {NoDeadline})
              /\ persist(e.journal, ok)
    BY <1>5 DEF Reconcile
  <2>. DEFINE h == reconciled(current, o, owners, unproved)
  <2>2. /\ current.handles = {} /\ current.establishing = {}
        /\ stopper.pc = "none" /\ disposer # "active" /\ mutator = "none"
    <3>1. mayReconcile(current)
      BY <1>5 DEF Reconcile
    <3>2. CASE current.reconciling
      <4>1. env.reconciling /\ loaded /\ current = env
        BY <1>2, <3>2, LoadHolders DEF RegistryAgrees
      <4>2. claims = {claim("reconcile", NoSession)}
        BY <1>1, <1>2, <4>1 DEF ClaimDiscipline, claim
      <4> QED BY <1>1, <1>2, <4>1, <4>2 DEF ClaimDiscipline, RegistryAgrees, claim
    <3>3. CASE claimable("reconcile") /\ quiet(current)
      BY <1>1, <3>3, UnclaimedAlone DEF quiet
    <3> QED BY <3>1, <3>2, <3>3 DEF mayReconcile
  <2>3. o \in Observations
    BY <1>2, ObservationType DEF probed, TypeOK, Observations
  <2>4. /\ h.handles = {} /\ h.establishing = {} /\ h.committed = {}
        /\ SoundJournal(h.journal) /\ h.journal.gen # 0
        /\ ~h.blocked => h.journal.rows = {}
    <3>1. h.handles = {} /\ h.establishing = {}
      <4>1. TypeOK /\ current \in Environments
        BY <1>2
      <4>2. h.handles = {} /\ h.establishing = current.establishing
        BY ZenonT(40), <2>3, <4>1, ReconciledHolders
      <4> QED BY <2>2, <4>2
    <3>2. /\ SoundJournal(h.journal) /\ h.journal.gen # 0 /\ h.committed = {}
          /\ ~h.blocked => h.journal.rows = {}
      BY <1>2, ReconciledSound
    <3> QED BY <3>1, <3>2
  <2>5. env' = h /\ (disk' = disk \/ disk' = h.journal) /\ loaded'
    BY <1>5, <2>1, Persisted DEF Reconcile
  <2>6. NoDeadline \notin timers'
    BY <1>2, <2>1 DEF ActorsAreBacked
  <2>7. ActorsAreBacked'
    BY <1>1, <1>2, <2>2, <2>6 DEF ActorsAreBacked
  <2> HIDE DEF h
  <2> QED BY <1>1, <1>2, <2>2, <2>4, <2>5, <2>7, UnheldStep
<1>6. CASE ReconcileRefused
  <2>1. UNCHANGED <<loaded, env, disk, timers>>
    BY <1>6 DEF ReconcileRefused
  <2> QED BY <1>1, <1>3, <2>1, IdleStep DEF ActorsKept
<1>7. CASE BlockReconciliation
  <2>1. PICK why : env' = blockedFence(current, why)
    BY <1>7 DEF BlockReconciliation
  <2>2. loaded' /\ timers' = timers /\ (disk' = disk \/ disk' = env'.journal)
    BY <1>7, Persisted DEF BlockReconciliation
  <2>3. Tame(env', current)
    BY <1>2, <2>1, TameUpdates
  <2>4. disk' = disk \/ TameJournal(disk', current.journal)
    BY <2>2, <2>3 DEF Tame
  <2>5. ActorsKept
    BY <1>1, <2>2 DEF ActorsKept
  <2> QED BY <1>1, <1>2, <1>3, <2>2, <2>3, <2>4, <2>5, TameStep
<1> QED BY <1>4, <1>5, <1>6, <1>7

-----------------------------------------------------------------------------
(* Disposal *)

LEMMA WithIntentViews ==
    ASSUME daemon \in Nat, NEW e \in Environments, SoundJournal(e.journal)
    PROVE  LET f == withIntent(e)
           IN  /\ f.handles = e.handles /\ f.committed = e.committed
               /\ f.establishing = e.establishing /\ f.blocked = e.blocked
               /\ SoundJournal(f.journal) /\ f.journal.gen # 0
               /\ f.journal.rows = e.journal.rows
               /\ f.journal.disposal # NoDisposal
<1>. DEFINE n == [newJournal(daemon) EXCEPT !.gen = 1,
                    !.recon = blockedReconciliation(daemon, "disposal-in-progress")]
            f == IF e.journal.gen # 0 THEN e ELSE [e EXCEPT !.journal = n]
            d == IF f.journal.disposal.state \in {"none", "blocked"}
                 THEN [state |-> "planned", gen |-> f.journal.gen]
                 ELSE f.journal.disposal
            w == withIntent(e)
<1>1. /\ n.gen = 1 /\ n.inc = NoInc /\ n.rows = {} /\ n.deadline = NoDeadline
      /\ n.attempt = NoAttempt
  BY DEF newJournal
<1>2. d # NoDisposal
  BY SMTT(60) DEF NoDisposal
<1>3. w = [f EXCEPT !.journal.disposal = d]
  BY DEF withIntent
<1>4. CASE e.journal.gen # 0
  <2>1. f = e
    BY <1>4
  <2> HIDE DEF f, d, n, w
  <2>2. /\ w.handles = e.handles /\ w.committed = e.committed
        /\ w.establishing = e.establishing /\ w.blocked = e.blocked
        /\ w.journal.gen = e.journal.gen /\ w.journal.inc = e.journal.inc
        /\ w.journal.rows = e.journal.rows /\ w.journal.deadline = e.journal.deadline
        /\ w.journal.attempt = e.journal.attempt /\ w.journal.disposal = d
    BY <1>3, <2>1 DEF Environments, Journals
  <2>3. SoundJournal(w.journal)
    BY <1>4, <2>2 DEF SoundJournal
  <2> QED BY <1>2, <1>4, <2>2, <2>3 DEF w
<1>5. CASE e.journal.gen = 0
  <2>1. f = [e EXCEPT !.journal = n]
    BY <1>5
  <2>2. n \in Journals
    <3>1. newJournal(daemon) \in Journals
      BY JournalType
    <3>2. blockedReconciliation(daemon, "disposal-in-progress") \in Reconciliations
      BY ReconciliationTypes DEF Reasons
    <3> QED BY <3>1, <3>2 DEF Journals
  <2> HIDE DEF f, d, n, w
  <2>3. /\ w.handles = e.handles /\ w.committed = e.committed
        /\ w.establishing = e.establishing /\ w.blocked = e.blocked
        /\ w.journal.gen = 1 /\ w.journal.inc = NoInc
        /\ w.journal.rows = {} /\ w.journal.deadline = NoDeadline
        /\ w.journal.attempt = NoAttempt /\ w.journal.disposal = d
    BY <1>1, <1>3, <2>1, <2>2 DEF Environments, Journals
  <2>4. SoundJournal(w.journal) /\ e.journal.rows = {}
    BY SMTT(60), <1>5, <2>3 DEF SoundJournal
  <2> QED BY SMTT(60), <1>2, <2>3, <2>4 DEF w
<1> QED BY <1>4, <1>5

LEMMA BeginDisposalStep ==
    ASSUME Durability, Exclusion', BeginDisposal
    PROVE  Durability'
<1>. USE DEF sessionVars, actorVars, backendVars, boundVars
<1>. DEFINE e == withIntent(current)
            c == cancelDeadline(e)
            b == blockEnv(c, "disposal-in-progress")
<1>1. /\ mode = "up" /\ mode' = mode /\ phase' = phase /\ UNCHANGED <<stopper, mutator, timers>>
      /\ loaded' /\ claimable("disposal") /\ ~busy(current)
  BY DEF BeginDisposal
<1>2. /\ TypeOK /\ ActorsAreBacked /\ current \in Environments /\ daemon \in Nat
      /\ RowsAreOwned(current, disk) /\ SoundJournal(current.journal) /\ SoundJournal(disk)
  BY <1>1, CurrentRows DEF Durability, Exclusion, TypeOK, RowsAreOwned
<1>3. current.handles = {} /\ current.establishing = {}
  BY <1>1 DEF busy
<1>4. stopper.pc = "none" /\ disposer # "active" /\ mutator = "none"
  BY <1>1, UnclaimedAlone
<1>5. /\ e \in Environments
      /\ e.handles = {} /\ e.committed = {} /\ e.establishing = {}
      /\ SoundJournal(e.journal) /\ e.journal.gen # 0
      /\ ~e.blocked => e.journal.rows = {}
      /\ e.journal.disposal # NoDisposal
  <2>1. e \in Environments
    BY <1>2, WithIntentType DEF TypeOK
  <2>2. /\ e.handles = {} /\ e.committed = current.committed /\ e.establishing = {}
        /\ SoundJournal(e.journal) /\ e.journal.gen # 0 /\ e.blocked = current.blocked
        /\ e.journal.rows = current.journal.rows /\ e.journal.disposal # NoDisposal
    BY <1>2, <1>3, WithIntentViews
  <2> QED BY <1>1, <1>2, <1>3, <2>1, <2>2 DEF RowsAreOwned
<1>. HIDE DEF e
<1>6. /\ c \in Environments /\ Tame(c, e) /\ c.establishing = {}
  BY <1>2, <1>5, CancelType, TameUpdates, UpdatesKeepHolders DEF SameHolders
<1>. HIDE DEF c
<1>7. b \in Environments /\ Tame(b, c) /\ Tame(b, e) /\ b.establishing = {}
  <2>1. b \in Environments /\ Tame(b, c) /\ b.establishing = {}
    BY ZenonT(60), <1>2, <1>6, BlockType, TameUpdates, UpdatesKeepHolders DEF SameHolders, Reasons
  <2> QED BY <1>6, <2>1, TameTransitive
<1>. HIDE DEF b
<1>8. ASSUME NEW f, f \in {c, b}, env'.journal = f.journal, env'.handles = f.handles,
             env'.committed = f.committed, env'.establishing = f.establishing,
             env'.blocked = f.blocked,
             disk' = disk \/ disk' = c.journal \/ disk' = b.journal,
             disposer' = disposer \/ (disposer' = "active" /\ disk' = env'.journal)
      PROVE  Durability'
  <2>1. Tame(f, e) /\ f.establishing = {}
    BY <1>6, <1>7, <1>8
  <2>2. SoundJournal(c.journal) /\ SoundJournal(b.journal) /\ SoundJournal(f.journal)
    BY <1>5, <1>6, <1>7, <1>8, TameSound DEF Tame
  <2>3. /\ f.handles = {} /\ f.committed = {} /\ f.journal.gen # 0
        /\ ~f.blocked => f.journal.rows = {}
        /\ f.journal.disposal # NoDisposal
    BY <1>5, <2>1 DEF Tame, TameJournal
  <2>4. ActorsAreBacked'
    BY <1>1, <1>2, <1>4, <1>8, <2>3 DEF ActorsAreBacked
  <2> QED BY <1>1, <1>2, <1>3, <1>8, <2>1, <2>2, <2>3, <2>4, UnheldStep
<1>9. CASE cancelAndPersist(e, b.journal, "cancelFailed") /\ env' = c /\ disposer' = disposer
  <2>1. disk' = disk \/ disk' = c.journal
    BY <1>9, CancelPersisted DEF c
  <2> QED BY <1>8, <1>9, <2>1
<1>10. CASE cancelAndPersist(e, b.journal, "writeFailed") /\ env' = b /\ disposer' = disposer
  <2>1. disk' = disk \/ disk' = c.journal \/ disk' = b.journal
    BY <1>10, CancelPersisted DEF c
  <2> QED BY <1>8, <1>10, <2>1
<1>11. CASE /\ cancelAndPersist(e, b.journal, "written")
            /\ env' = [b EXCEPT !.mutation = TRUE] /\ disposer' = "active"
  <2>1. disk' = b.journal
    BY <1>11, CancelPersisted
  <2>2. /\ env'.journal = b.journal /\ env'.handles = b.handles
        /\ env'.committed = b.committed /\ env'.establishing = b.establishing
        /\ env'.blocked = b.blocked
    BY <1>7, <1>11 DEF Environments
  <2> QED BY <1>8, <1>11, <2>1, <2>2
<1> QED BY <1>9, <1>10, <1>11 DEF BeginDisposal, e, c, b

(* Only the disposal and the reconciliation of the journal change.         *)
LEMMA DisposalRows ==
    ASSUME NEW e, RowsAreOwned(e, disk), phase' = phase, mode' = mode,
           env'.handles = e.handles, env'.committed = e.committed,
           env'.establishing = e.establishing, e.blocked => env'.blocked,
           env'.journal.gen = e.journal.gen, env'.journal.inc = e.journal.inc,
           env'.journal.rows = e.journal.rows, env'.journal.deadline = e.journal.deadline,
           env'.journal.attempt = e.journal.attempt, e.journal.disposal # NoDisposal,
           disk' = disk \/ disk' = env'.journal
    PROVE  RowsAreOwned(env, disk)'
<1>1. SoundJournal(env'.journal) /\ SoundJournal(disk')
  BY SMTT(60) DEF RowsAreOwned, SoundJournal
<1>2. \A s \in env'.handles :
        phase'[s] \in registeredPhases \ {"released"} => ownsRow(env'.journal, s)
  BY SMTT(60) DEF RowsAreOwned, ownsRow
<1>3. \A s \in env'.committed : phase'[s] = "registered" =>
        \E r \in disk'.rows : r.session = s /\ r.gen = env'.journal.gen
  BY SMTT(60), <1>2 DEF RowsAreOwned, ownsRow, registeredPhases
<1> QED BY <1>1, <1>2, <1>3 DEF RowsAreOwned

LEMMA DisposalStep ==
    ASSUME Durability, Exclusion',
           \/ DisposalCleanup \/ AdvanceDisposal \/ BlockDisposal \/ CompleteDisposalMetadata
    PROVE  Durability'
<1>. USE DEF sessionVars, actorVars, backendVars, boundVars
<1>1. /\ TypeOK /\ ActorsAreBacked /\ env \in Environments /\ daemon \in Nat
  BY DEF Durability, Exclusion, TypeOK
<1>2. /\ mode' = mode /\ phase' = phase /\ UNCHANGED <<stopper, mutator, timers>>
  BY DEF DisposalCleanup, AdvanceDisposal, BlockDisposal, CompleteDisposalMetadata
<1>3. PhasesKept
  BY <1>2 DEF PhasesKept
<1>4. disposer = "active" => /\ stopper.pc # "invoked" /\ mutator # "running"
                             /\ \A s \in Sessions : phase'[s] \notin registeredPhases
  BY <1>2, DestroyerAlone DEF destroying
<1>5. CASE DisposalCleanup
  <2>1. UNCHANGED <<loaded, env, disk, disposer>>
    BY <1>5 DEF DisposalCleanup
  <2> QED BY <1>2, <1>3, <2>1, IdleStep DEF ActorsKept
<1>6. CASE AdvanceDisposal
  <2>1. disposer = "active" /\ loaded /\ loaded' = loaded /\ env.journal.disposal # NoDisposal
    BY <1>6 DEF AdvanceDisposal, activeDisposal
  <2>2. RowsAreOwned(env, disk)
    BY <2>1 DEF Durability
  <2>3. PICK st \in nextDisposalState(env.journal.disposal.state), ok \in BOOLEAN :
          /\ env' = [env EXCEPT !.journal.disposal.state = st,
                       !.journal.recon = blockedReconciliation(daemon, "disposal-in-progress")]
          /\ persist(env'.journal, ok)
          /\ disposer' = IF ok THEN "active" ELSE "failed"
    BY <1>6 DEF AdvanceDisposal
  <2>. DEFINE d == [env.journal.disposal EXCEPT !.state = st]
  <2>4. /\ env'.handles = env.handles /\ env'.committed = env.committed
        /\ env'.establishing = env.establishing /\ env'.blocked = env.blocked
        /\ env'.journal.gen = env.journal.gen /\ env'.journal.inc = env.journal.inc
        /\ env'.journal.rows = env.journal.rows
        /\ env'.journal.deadline = env.journal.deadline
        /\ env'.journal.attempt = env.journal.attempt /\ env'.journal.disposal = d
    BY <1>1, <2>3 DEF Environments, Journals
  <2>5. d # NoDisposal
    <3>1. env.journal.disposal \in Disposals
      BY <1>1, EnvironmentFields, JournalFields
    <3>2. st # "none"
      BY <2>3 DEF nextDisposalState
    <3> QED BY <3>1, <3>2 DEF Disposals, NoDisposal
  <2>. HIDE DEF d
  <2>6. (disk' = disk \/ disk' = env'.journal) /\ (ok => disk' = env'.journal)
    BY <2>3, Persisted
  <2>7. RowsAreOwned(env, disk)'
    BY <1>2, <2>1, <2>2, <2>4, <2>6, DisposalRows
  <2>8. ActorsAreBacked'
    BY <1>1, <1>2, <1>4, <2>1, <2>3, <2>4, <2>5, <2>6 DEF ActorsAreBacked
  <2> QED BY <2>1, <2>7, <2>8, LoadedStep
<1>7. CASE BlockDisposal
  <2>1. mode = "up" /\ disposer' = "none"
    BY <1>7 DEF BlockDisposal
  <2>2. current \in Environments /\ RowsAreOwned(current, disk) /\ (loaded => current = env)
        /\ StartsFrom(current)
    BY <2>1, CurrentRows
  <2>3. CASE current.journal.disposal = NoDisposal
    <3>1. UNCHANGED <<loaded, env, disk>>
      BY <1>7, <2>3 DEF BlockDisposal
    <3> QED BY <1>2, <1>3, <2>1, <3>1, IdleStep DEF ActorsKept
  <2>4. CASE current.journal.disposal # NoDisposal
    <3>. DEFINE b == blockEnv(current, "disposal-blocked")
    <3>1. /\ env' = [b EXCEPT !.journal.disposal.state = "blocked", !.mutation = FALSE]
          /\ loaded' /\ (disk' = disk \/ disk' = env'.journal)
      BY <1>7, <2>4, Persisted DEF BlockDisposal
    <3>2. b \in Environments /\ b.journal.recon.state = "blocked" /\ b.blocked
          /\ b.handles = current.handles /\ b.committed = current.committed
          /\ b.establishing = current.establishing
          /\ b.journal.gen = current.journal.gen /\ b.journal.inc = current.journal.inc
          /\ b.journal.rows = current.journal.rows
          /\ b.journal.deadline = current.journal.deadline
          /\ b.journal.attempt = current.journal.attempt
      <4>1. b \in Environments
        BY <1>1, <2>2, BlockType DEF Reasons
      <4> QED BY <2>2, <4>1 DEF blockEnv, blockedReconciliation, Environments, Journals
    <3>. HIDE DEF b
    <3>3. /\ env'.handles = b.handles /\ env'.committed = b.committed
          /\ env'.establishing = b.establishing /\ env'.blocked = b.blocked
          /\ env'.journal.gen = b.journal.gen /\ env'.journal.inc = b.journal.inc
          /\ env'.journal.rows = b.journal.rows /\ env'.journal.deadline = b.journal.deadline
          /\ env'.journal.attempt = b.journal.attempt /\ env'.journal.recon = b.journal.recon
      BY <3>1, <3>2 DEF Environments, Journals
    <3>4. RowsAreOwned(env, disk)'
      BY ZenonT(60), <1>2, <2>2, <2>4, <3>1, <3>2, <3>3, DisposalRows
    <3>5. ActorsAreBacked'
      BY ZenonT(60), <1>1, <1>2, <2>1, <2>2, <3>1, <3>2, <3>3 DEF ActorsAreBacked
    <3> QED BY <3>1, <3>4, <3>5, LoadedStep
  <2> QED BY <2>3, <2>4
<1>8. CASE CompleteDisposalMetadata
  <2>1. disposer = "active" /\ loaded /\ mode = "up" /\ disposer' # "active"
    BY <1>8 DEF CompleteDisposalMetadata, activeDisposal
  <2>2. SoundJournal(NoJournal) /\ NoJournal.gen = 0
    BY DEF SoundJournal, NoJournal, newJournal, NoInc, NoDeadline, NoAttempt, NoDisposal
  <2>3. CASE remove(TRUE) /\ unload
    <3>1. disk' = NoJournal
      BY <2>3 DEF remove
    <3> QED BY <1>2, <1>4, <2>1, <2>2, <2>3, <3>1, UnloadStep
  <2>4. CASE /\ env' = [blockEnv(env, "journal-removal-failed") EXCEPT !.mutation = FALSE]
             /\ removeFailed(env'.journal) /\ loaded' = loaded
    <3>. DEFINE b == blockEnv(env, "journal-removal-failed")
    <3>1. b \in Environments /\ Tame(b, env) /\ b.blocked /\ b.establishing = env.establishing
      <4>1. b \in Environments
        BY <1>1, BlockType DEF Reasons
      <4>2. b.blocked /\ b.establishing = env.establishing
        BY <1>1 DEF blockEnv, Environments
      <4> QED BY <1>1, <4>1, <4>2, TameUpdates
    <3>2. env' = [b EXCEPT !.mutation = FALSE]
      BY <2>4
    <3>. HIDE DEF b
    <3>3. /\ env'.journal = b.journal /\ env'.handles = b.handles
          /\ env'.committed = b.committed /\ env'.blocked /\ env'.establishing = env.establishing
      BY <3>1, <3>2 DEF Environments
    <3>4. disk' = disk \/ disk' = NoJournal \/ disk' = env'.journal
      BY <2>4 DEF removeFailed
    <3>5. /\ RowsAreOwned(env, disk) /\ SoundJournal(env.journal) /\ SoundJournal(disk)
          /\ env.handles \subseteq Sessions
      BY <1>1, <2>1, EnvironmentFields DEF Durability, RowsAreOwned
    <3>6. SoundJournal(env'.journal) /\ SoundJournal(disk')
      BY <2>2, <3>1, <3>3, <3>4, <3>5, TameSound DEF Tame
    <3>7. RowsAreOwned(env, disk)'
      <4>1. env'.journal.gen = 0 => disk'.gen = 0
        BY <2>2, <3>1, <3>3, <3>4, <3>5 DEF RowsAreOwned, Tame, TameJournal
      <4>2. env'.journal.deadline # NoDeadline => env'.handles = {} /\ env'.establishing = {}
        BY <3>1, <3>3, <3>5 DEF RowsAreOwned, Tame, TameJournal
      <4>3. env'.handles \subseteq Sessions /\ env'.committed \subseteq env'.handles
        BY <3>1, <3>3, <3>5 DEF RowsAreOwned, Tame
      <4> QED BY <1>4, <2>1, <3>3, <3>6, <4>1, <4>2, <4>3, DetachedRows
    <3>8. ActorsAreBacked'
      BY <1>1, <1>2, <1>4, <2>1 DEF ActorsAreBacked
    <3> QED BY <2>1, <2>4, <3>7, <3>8, LoadedStep
  <2> QED BY <1>8, <2>3, <2>4 DEF CompleteDisposalMetadata
<1> QED BY <1>5, <1>6, <1>7, <1>8

-----------------------------------------------------------------------------
(* Destructive mutations *)

LEMMA BeginMutationStep ==
    ASSUME Durability, Exclusion', BeginMutation
    PROVE  Durability'
<1>. USE DEF sessionVars, actorVars, backendVars, boundVars
<1>. DEFINE e == current
            c == cancelDeadline(e)
            b == blockEnv(c, "destructive-mutation-in-progress")
<1>1. /\ mode = "up" /\ mode' = mode /\ phase' = phase /\ UNCHANGED <<stopper, disposer, timers>>
      /\ loaded' /\ claimable("cleanup") /\ ~busy(e)
  BY DEF BeginMutation
<1>2. /\ TypeOK /\ ActorsAreBacked /\ e \in Environments /\ daemon \in Nat
      /\ RowsAreOwned(e, disk) /\ e.handles \subseteq Sessions
  BY <1>1, CurrentRows, EnvironmentFields DEF Durability, Exclusion, TypeOK
<1>3. stopper.pc = "none" /\ disposer # "active" /\ mutator = "none" /\ PhasesKept
  BY <1>1, UnclaimedAlone DEF PhasesKept
<1>. HIDE DEF e
<1>4. c \in Environments /\ Tame(c, e) /\ TameJournal(c.journal, e.journal)
  BY <1>2, CancelType, TameUpdates DEF Tame
<1>. HIDE DEF c
<1>5. /\ b \in Environments /\ Tame(b, e) /\ TameJournal(b.journal, e.journal)
      /\ b.journal.recon.state = "blocked"
  <2>1. b \in Environments /\ Tame(b, c)
    BY <1>2, <1>4, BlockType, TameUpdates DEF Reasons
  <2>2. b.journal.recon.state = "blocked"
    BY <1>4 DEF blockEnv, blockedReconciliation, Environments, Journals
  <2> QED BY <1>4, <2>1, <2>2, TameTransitive DEF Tame
<1>. HIDE DEF b
<1>6. ASSUME Tame(env', e), disk' = disk \/ TameJournal(disk', e.journal),
             \/ mutator' # "running"
             \/ env'.journal.gen = 0
             \/ env'.journal.recon.state = "blocked" /\ disk'.recon.state = "blocked"
      PROVE  Durability'
  <2>1. RowsAreOwned(env, disk)'
    BY <1>1, <1>2, <1>3, <1>6, TameRows
  <2>2. ActorsAreBacked'
    BY <1>1, <1>2, <1>3, <1>6 DEF ActorsAreBacked
  <2> QED BY <1>1, <2>1, <2>2, LoadedStep
<1>7. CASE /\ e.journal.gen = 0 /\ env' = [e EXCEPT !.mutation = TRUE, !.blocked = TRUE]
           /\ disk' = disk
  <2>1. Tame(env', e) /\ env'.journal.gen = 0
    BY <1>2, <1>7 DEF Tame, TameJournal, Environments
  <2> QED BY <1>6, <1>7, <2>1
<1>8. CASE /\ cancelAndPersist(e, b.journal, "cancelFailed") /\ env' = c
           /\ mutator' = "returned"
  <2>1. disk' = disk \/ disk' = c.journal
    BY <1>8, CancelPersisted DEF c
  <2> QED BY <1>4, <1>6, <1>8, <2>1
<1>9. CASE /\ cancelAndPersist(e, b.journal, "writeFailed") /\ env' = b
           /\ mutator' = "returned"
  <2>1. disk' = disk \/ disk' = c.journal \/ disk' = b.journal
    BY <1>9, CancelPersisted DEF c
  <2> QED BY <1>4, <1>5, <1>6, <1>9, <2>1
<1>10. CASE /\ cancelAndPersist(e, b.journal, "written")
            /\ env' = [b EXCEPT !.mutation = TRUE]
  <2>1. disk' = b.journal
    BY <1>10, CancelPersisted
  <2>2. Tame(env', b) /\ env'.journal = b.journal
    BY <1>5, <1>10, TameUpdates DEF Environments
  <2>3. Tame(env', e)
    BY <1>5, <2>2, TameTransitive
  <2> QED BY <1>5, <1>6, <2>1, <2>2, <2>3
<1> QED BY <1>7, <1>8, <1>9, <1>10 DEF BeginMutation, e, c, b

LEMMA NoJournalSound == SoundJournal(NoJournal) /\ NoJournal.gen = 0
BY DEF SoundJournal, NoJournal, newJournal, NoInc, NoDeadline, NoAttempt, NoDisposal

LEMMA MutationStep ==
    ASSUME Durability, Exclusion',
           MutationCleanup \/ EndMutation \/ MutationRelease \/ ForgetEnvironment
    PROVE  Durability'
<1>. USE DEF sessionVars, actorVars, backendVars, boundVars
<1>1. /\ TypeOK /\ ActorsAreBacked /\ env \in Environments /\ daemon \in Nat
  BY DEF Durability, Exclusion, TypeOK
<1>2. /\ mode' = mode /\ phase' = phase /\ UNCHANGED <<stopper, disposer, timers>> /\ PhasesKept
  BY DEF MutationCleanup, EndMutation, MutationRelease, ForgetEnvironment, PhasesKept
<1>3. CASE MutationCleanup \/ MutationRelease
  <2>1. /\ UNCHANGED <<loaded, env, disk>>
        /\ mutator' = mutator \/ mutator' # "running"
    BY <1>3 DEF MutationCleanup, MutationRelease
  <2> QED BY <1>2, <2>1, IdleStep DEF ActorsKept
<1>4. CASE EndMutation
  <2>1. mutator = "running" /\ mode # "down" /\ mutator' = "returned"
    BY <1>4 DEF EndMutation
  <2>2. /\ stopper.pc # "invoked" /\ disposer # "active"
        /\ \A s \in Sessions : phase'[s] \notin registeredPhases
    BY <1>2, <2>1, DestroyerAlone DEF destroying
  <2>3. CASE mode = "closing" \/ ~loaded
    <3>1. UNCHANGED <<loaded, env, disk>>
      BY <1>4, <2>3 DEF EndMutation
    <3> QED BY <1>2, <2>1, <3>1, IdleStep DEF ActorsKept
  <2>4. CASE ~(mode = "closing" \/ ~loaded)
    <3>1. mode = "up" /\ loaded /\ RowsAreOwned(env, disk) /\ StartsFrom(env)
      BY <1>1, <2>1, <2>4 DEF TypeOK, Durability, StartsFrom
    <3>. DEFINE e == [env EXCEPT !.mutation = FALSE]
                k == blockedReconciliation(daemon, "cleanup-unproved")
                f == [e EXCEPT !.journal.recon = k]
    <3>2. CASE env.journal.gen = 0 /\ unload /\ disk' = disk
      BY <1>2, <2>1, <2>2, <3>1, <3>2, UnloadStep DEF RowsAreOwned
    <3>3. CASE env' = f /\ (\E ok \in BOOLEAN : persist(f.journal, ok)) /\ loaded' = loaded
      <4>1. k.state = "blocked"
        BY DEF blockedReconciliation
      <4>2. Tame(f, env)
        <5> HIDE DEF k
        <5> QED BY <1>1, <4>1 DEF Tame, TameJournal, Environments, Journals
      <4>3. disk' = disk \/ TameJournal(disk', env.journal)
        BY SMTT(60), <3>3, <4>2, Persisted DEF Tame
      <4>4. ActorsKept
        BY <1>2, <2>1 DEF ActorsKept
      <4> HIDE DEF f
      <4> QED BY <1>2, <3>1, <3>3, <4>2, <4>3, <4>4, TameStep
    <3>4. CASE remove(TRUE) /\ unload
      <4>1. disk' = NoJournal
        BY <3>4 DEF remove
      <4> QED BY <1>2, <2>1, <2>2, <3>4, <4>1, NoJournalSound, UnloadStep
    <3>5. CASE removeFailed(e.journal) /\ env' = e /\ loaded' = loaded
      <4>1. /\ e.journal = env.journal /\ e.handles = env.handles /\ e.committed = env.committed
            /\ e.establishing = env.establishing /\ e.blocked = env.blocked
        BY <1>1 DEF Environments
      <4>2. disk' = disk \/ disk' = NoJournal \/ disk' = e.journal
        BY <3>5 DEF removeFailed
      <4>3. env.handles \subseteq Sessions
        BY <1>1, EnvironmentFields
      <4>4. RowsAreOwned(env, disk)'
        <5> HIDE DEF e
        <5>1. SoundJournal(disk') /\ (e.journal.gen = 0 => disk'.gen = 0)
          BY <3>1, <4>1, <4>2, NoJournalSound DEF RowsAreOwned
        <5> QED BY <1>2, <2>2, <3>1, <3>5, <4>1, <4>3, <5>1, DetachedRows DEF RowsAreOwned
      <4>5. ActorsAreBacked'
        BY <1>1, <1>2, <2>1, <2>2 DEF ActorsAreBacked
      <4> QED BY <3>1, <3>5, <4>4, <4>5, LoadedStep
    <3> QED BY <1>4, <2>4, <3>2, <3>3, <3>4, <3>5 DEF EndMutation
  <2> QED BY <2>3, <2>4
<1>5. CASE ForgetEnvironment
  <2>1. /\ mode = "up" /\ mutator' = mutator /\ claimable("cleanup") /\ ~busy(current)
    BY <1>5 DEF ForgetEnvironment
  <2>2. stopper.pc = "none" /\ disposer # "active" /\ mutator = "none"
    BY <2>1, UnclaimedAlone
  <2>3. CASE remove(TRUE) /\ unload
    <3>1. disk' = NoJournal
      BY <2>3 DEF remove
    <3> QED BY <1>2, <2>1, <2>2, <2>3, <3>1, NoJournalSound, UnloadStep
  <2>4. CASE remove(FALSE) /\ env' = current /\ loaded'
    <3>1. disk' = disk \/ disk' = NoJournal
      BY <2>4 DEF remove
    <3>2. RowsAreOwned(current, disk) /\ current.handles = {} /\ current.establishing = {}
      BY <2>1, CurrentRows DEF busy
    <3>3. /\ SoundJournal(current.journal) /\ SoundJournal(disk') /\ current.committed = {}
          /\ current.journal.gen = 0 => disk'.gen = 0
          /\ ~current.blocked => current.journal.rows = {}
      BY <2>1, <3>1, <3>2, NoJournalSound DEF RowsAreOwned
    <3>4. ActorsAreBacked'
      BY <1>1, <1>2, <2>1, <2>2 DEF ActorsAreBacked
    <3> QED BY <1>2, <2>1, <2>4, <3>2, <3>3, <3>4, UnheldStep
  <2> QED BY <1>5, <2>3, <2>4 DEF ForgetEnvironment
<1> QED BY <1>3, <1>4, <1>5

-----------------------------------------------------------------------------
(* The daemon process *)

LEMMA DaemonStep ==
    ASSUME Durability, Exclusion', Close \/ Exit \/ Start \/ VmLost
    PROVE  Durability'
<1>. USE DEF sessionVars, actorVars, backendVars, boundVars
<1>1. /\ TypeOK /\ ActorsAreBacked /\ env \in Environments /\ daemon \in Nat /\ disk \in Journals
      /\ RegistryAgrees
  BY DEF Durability, Exclusion, TypeOK
<1>2. SoundJournal(disk)
  BY DEF Durability, RowsAreOwned
<1>3. CASE Close
  <2>1. mode' = "closing" /\ UNCHANGED <<phase, stopper, disposer, mutator, timers>>
    BY <1>3 DEF Close
  <2>2. PhasesKept /\ ActorsKept
    BY <2>1 DEF PhasesKept, ActorsKept
  <2>3. CASE loaded /\ env.journal.gen # 0
    <3>. DEFINE f == [env EXCEPT !.establishing = {}, !.stopCancel = FALSE, !.stopDone = FALSE,
                                 !.journal.deadline = NoDeadline]
                e == IF env.reconciling
                     THEN [blockEnv(f, "daemon-shutdown") EXCEPT !.reconciling = FALSE]
                     ELSE f
    <3>1. f \in Environments /\ Tame(f, env)
      BY <1>1, ConstantTypes DEF Tame, TameJournal, Environments, Journals
    <3>2. Tame(e, f)
      <4>. HIDE DEF f
      <4>1. Tame(f, f)
        BY TameReflexive
      <4>2. Tame([blockEnv(f, "daemon-shutdown") EXCEPT !.reconciling = FALSE], f)
        BY <3>1 DEF blockEnv, blockedReconciliation, Tame, TameJournal, Environments, Journals
      <4> QED BY <4>1, <4>2
    <3>3. Tame(e, env) /\ e \in Environments
      <4>1. Tame(e, env)
        BY <3>1, <3>2, TameTransitive
      <4>2. e \in Environments
        <5>. HIDE DEF f
        <5>1. blockEnv(f, "daemon-shutdown") \in Environments
          BY <1>1, <3>1, BlockType DEF Reasons
        <5>2. [blockEnv(f, "daemon-shutdown") EXCEPT !.reconciling = FALSE] \in Environments
          BY <5>1 DEF Environments
        <5> QED BY <3>1, <5>2
      <4> QED BY <4>1, <4>2
    <3>4. env' = checkpointNow(e) /\ (disk' = disk \/ disk' = e.journal) /\ loaded' = loaded
      BY SMTT(60), <1>3, <2>3, Persisted DEF Close
    <3>. HIDE DEF e
    <3>5. Tame(env', env)
      BY <3>3, <3>4, TameUpdates, TameTransitive
    <3>6. disk' = disk \/ TameJournal(disk', env.journal)
      BY <3>3, <3>4 DEF Tame
    <3>7. StartsFrom(env)
      BY <2>3 DEF StartsFrom
    <3> QED BY <2>1, <2>2, <2>3, <3>4, <3>5, <3>6, <3>7, TameStep
  <2>4. CASE ~(loaded /\ env.journal.gen # 0)
    <3>1. unload /\ disk' = disk
      BY <1>3, <2>4 DEF Close
    <3>2. stopper.pc # "invoked" /\ disposer # "active"
      <4>1. CASE ~loaded
        BY <1>1, <4>1 DEF ActorsAreBacked
      <4>2. CASE loaded
        <5>1. SoundJournal(env.journal) /\ env.journal.gen = 0
          BY <2>4, <4>2 DEF Durability, RowsAreOwned
        <5>2. env.journal.inc = NoInc /\ env.journal.disposal = NoDisposal
          BY <5>1 DEF SoundJournal
        <5> QED BY SMTT(60), <1>1, <5>2 DEF ActorsAreBacked, NoInc
      <4> QED BY <4>1, <4>2
    <3> QED BY <1>2, <2>1, <3>1, <3>2, UnloadStep
  <2> QED BY <2>3, <2>4
<1>4. CASE Exit
  <2>1. /\ mode' = "down" /\ unload /\ timers' = {} /\ stopper'.pc # "invoked"
        /\ disposer' = "none" /\ disk' = disk
    BY <1>4 DEF Exit, idleStopper
  <2> QED BY <1>2, <2>1, UnloadStep
<1>5. CASE Start
  <2>1. mode = "down" /\ UNCHANGED <<phase, stopper, disposer, mutator, timers>>
    BY <1>5 DEF Start
  <2>2. /\ ~loaded /\ stopper.pc = "none" /\ mutator = "none" /\ disposer # "active"
        /\ \A s \in Sessions : phase'[s] \notin registeredPhases
    BY <1>1, <2>1 DEF RegistryAgrees, destroying, attached
  <2>3. NoDeadline \notin timers /\ env = registryEnvironment(NoJournal, FALSE)
    BY <1>1, <2>2 DEF ActorsAreBacked, Durability, LoadingAgrees
  <2>. DEFINE l == IF disk.gen = 0
                   THEN registryEnvironment(newJournal(daemon + 1), FALSE)
                   ELSE registryEnvironment(disk, FALSE)
              f == fenced(l, daemon + 1)
              k == blockedReconciliation(daemon + 1, "environment-record-unavailable")
              b == [f EXCEPT !.journal.attempt = NoAttempt, !.reconciling = FALSE,
                             !.journal.recon = k]
  <2>4. /\ l \in Environments /\ SoundJournal(l.journal)
        /\ l.handles = {} /\ l.committed = {} /\ l.establishing = {}
    <3>1. newJournal(daemon + 1) \in Journals /\ SoundJournal(newJournal(daemon + 1))
      BY SMTT(60), <1>1, JournalType
         DEF SoundJournal, newJournal, NoInc, NoDeadline, NoAttempt, NoDisposal
    <3>2. \A j \in Journals : registryEnvironment(j, FALSE) \in Environments
      BY EnvironmentType
    <3>3. \A j : /\ registryEnvironment(j, FALSE).journal = j
                 /\ registryEnvironment(j, FALSE).handles = {}
                 /\ registryEnvironment(j, FALSE).committed = {}
                 /\ registryEnvironment(j, FALSE).establishing = {}
      BY DEF registryEnvironment
    <3> QED BY <1>1, <1>2, <3>1, <3>2, <3>3
  <2>. HIDE DEF l
  <2>5. /\ f \in Environments /\ SoundJournal(f.journal) /\ f.journal.gen # 0 /\ f.blocked
        /\ f.handles = {} /\ f.committed = {} /\ f.establishing = {}
        /\ f.journal.deadline = NoDeadline
    <3>1. f \in Environments
      BY SMTT(60), <1>1, <2>4, FencedType
    <3> QED BY SMTT(60), <2>4, <3>1, FencedViews, FencedSound
  <2>. HIDE DEF f
  <2>6. /\ SoundJournal(b.journal) /\ b.journal.gen # 0 /\ b.blocked
        /\ b.handles = {} /\ b.committed = {} /\ b.establishing = {}
        /\ b.journal.deadline = NoDeadline
    <3>. HIDE DEF k
    <3>1. /\ b.journal.gen = f.journal.gen /\ b.journal.inc = f.journal.inc
          /\ b.journal.rows = f.journal.rows /\ b.journal.deadline = f.journal.deadline
          /\ b.journal.attempt = NoAttempt /\ b.journal.disposal = f.journal.disposal
          /\ b.handles = f.handles /\ b.committed = f.committed
          /\ b.establishing = f.establishing /\ b.blocked = f.blocked
      BY <2>5 DEF Environments, Journals
    <3>. HIDE DEF b
    <3>2. SoundJournal(b.journal)
      BY <2>5, <3>1 DEF SoundJournal
    <3> QED BY <2>5, <3>1, <3>2
  <2>. HIDE DEF b
  <2>7. ASSUME NEW g, env' = g, g \in {f, b}, disk' = g.journal, loaded'
        PROVE  Durability'
    <3>1. /\ SoundJournal(g.journal) /\ g.journal.gen # 0 /\ g.blocked
          /\ g.handles = {} /\ g.committed = {} /\ g.establishing = {}
      BY <2>5, <2>6, <2>7
    <3>2. RowsAreOwned(env, disk)'
      BY <2>2, <2>7, <3>1, DetachedRows
    <3>3. ActorsAreBacked'
      BY <2>1, <2>2, <2>3 DEF ActorsAreBacked
    <3> QED BY <2>7, <3>2, <3>3, LoadedStep
  <2>8. CASE disk.gen = 0 /\ mode' = "up" /\ UNCHANGED <<loaded, env, disk>>
    BY <1>2, <2>1, <2>2, <2>3, <2>8 DEF Durability, LoadingAgrees, ActorsAreBacked
  <2>9. CASE persist(f.journal, TRUE) /\ env' = f /\ loaded'
    BY <2>7, <2>9, Persisted
  <2>10. CASE persist(b.journal, TRUE) /\ env' = b /\ loaded'
    BY <2>7, <2>10, Persisted
  <2>11. CASE persist(f.journal, FALSE) /\ UNCHANGED <<mode, loaded, env>>
    <3>1. SoundJournal(disk')
      BY <1>2, <2>5, <2>11, Persisted
    <3> QED BY <2>1, <2>2, <2>3, <2>11, <3>1 DEF Durability, LoadingAgrees, ActorsAreBacked
  <2> QED BY <1>5, <2>8, <2>9, <2>10, <2>11 DEF Start, l, f, b
<1>6. CASE VmLost
  <2>1. UNCHANGED <<mode, loaded, env, disk, timers, phase, stopper, disposer, mutator>>
    BY <1>6 DEF VmLost
  <2> QED BY <2>1, IdleStep DEF PhasesKept, ActorsKept
<1> QED BY <1>3, <1>4, <1>5, <1>6

-----------------------------------------------------------------------------
(* The induction, and what it shows *)

LEMMA DurabilityInit == Init => Durability
<1> SUFFICES ASSUME Init PROVE Durability
  OBVIOUS
<1>1. Exclusion
  BY ExclusionInit
<1>2. ~loaded /\ SoundJournal(disk) /\ LoadingAgrees
  BY NoJournalSound DEF Init, LoadingAgrees
<1>3. ActorsAreBacked
  BY DEF Init, ActorsAreBacked, idleStopper
<1> QED BY <1>1, <1>2, <1>3 DEF Durability

LEMMA DurabilityStep == Durability /\ [Next]_vars => Durability'
<1> SUFFICES ASSUME Durability, [Next]_vars
             PROVE  Durability'
  OBVIOUS
<1>1. Exclusion'
  BY ExclusionStep DEF Durability
<1>2. CASE UNCHANGED vars
  BY <1>1, <1>2, IdleStep DEF vars, sessionVars, actorVars, PhasesKept, ActorsKept
<1>3. ASSUME NEW s \in Sessions, SessionNext(s) PROVE Durability'
  BY <1>1, <1>3, EstablishingStep, AbortStep, CommitStep, FinishStep DEF SessionNext
<1>4. ASSUME NEW t \in timers, TimerNext(t) PROVE Durability'
  BY <1>1, <1>4, TimerStep
<1>5. ASSUME \/ StopExplicit \/ BackendStop \/ (\E res \in StopResults : StopReturn(res))
             \/ StopRelease \/ Checkpoint
      PROVE  Durability'
  BY <1>1, <1>5, StopExplicitStep, StopStep
<1>6. ASSUME BeginReconciliation \/ Reconcile \/ ReconcileRefused \/ BlockReconciliation
      PROVE  Durability'
  BY <1>1, <1>6, ReconciliationStep
<1>7. ASSUME \/ BeginDisposal \/ DisposalCleanup \/ AdvanceDisposal \/ BlockDisposal
             \/ CompleteDisposalMetadata
      PROVE  Durability'
  BY <1>1, <1>7, BeginDisposalStep, DisposalStep
<1>8. ASSUME \/ BeginMutation \/ MutationCleanup \/ EndMutation \/ MutationRelease
             \/ ForgetEnvironment
      PROVE  Durability'
  BY <1>1, <1>8, BeginMutationStep, MutationStep
<1>9. ASSUME Close \/ Exit \/ Start \/ VmLost PROVE Durability'
  BY <1>1, <1>9, DaemonStep
<1> QED BY <1>2, <1>3, <1>4, <1>5, <1>6, <1>7, <1>8, <1>9 DEF Next

LEMMA UnloadedIsEmpty ==
    ASSUME Durability, ~loaded
    PROVE  /\ env.committed = {} /\ env.journal.deadline = NoDeadline /\ env.journal.gen = 0
BY SMTT(60) DEF Durability, LoadingAgrees, registryEnvironment, NoJournal, newJournal

(* A committed registration is in the journal file from Commit to its      *)
(* Finish: no write of another session, of a stop, a reconciliation, a     *)
(* removal or a restart drops the row or moves it to another generation,   *)
(* and a write that fails leaves a file that has it.                       *)
THEOREM CommittedStaysDurable == Spec => []CommittedIsDurable
<1>1. Durability => CommittedIsDurable
  BY UnloadedIsEmpty DEF Durability, RowsAreOwned, CommittedIsDurable
<1> QED BY <1>1, DurabilityInit, DurabilityStep, PTL DEF Spec

(* An environment that admits sessions holds the session of each of its    *)
(* rows: what a crash, a refused removal or an unproved cleanup left       *)
(* behind keeps it blocked until a reconciliation classified it.           *)
THEOREM AdmissionOwnsRows == Spec => []AdmissionImpliesOwnedRows
<1>1. Durability => AdmissionImpliesOwnedRows
  BY DEF Durability, RowsAreOwned, AdmissionImpliesOwnedRows
<1> QED BY <1>1, DurabilityInit, DurabilityStep, PTL DEF Spec

(* A removal or a destructive mutation is at work on the backend only with *)
(* its intent in the journal file, whatever the other actors write after   *)
(* it.                                                                     *)
THEOREM IntentStaysDurable == Spec => []IntentIsDurable
<1>1. Durability => IntentIsDurable
  BY DEF Durability, ActorsAreBacked, IntentIsDurable
<1> QED BY <1>1, DurabilityInit, DurabilityStep, PTL DEF Spec

(* A stop callback in flight is about the incarnation that the environment *)
(* has, however long ago its timer was armed.                              *)
THEOREM StopTargetIsCurrent == Spec => []StopTargetsCurrentIncarnation
<1>1. Durability => StopTargetsCurrentIncarnation
  BY DEF Durability, ActorsAreBacked, StopTargetsCurrentIncarnation
<1> QED BY <1>1, DurabilityInit, DurabilityStep, PTL DEF Spec

(* An environment that a session holds, or is about to hold, has no        *)
(* deadline that a timer could fire.                                       *)
THEOREM AttachedHasNoDeadline == Spec => []NoDeadlineWhileAttached
<1>1. Durability => NoDeadlineWhileAttached
  BY UnloadedIsEmpty DEF Durability, RowsAreOwned, NoDeadlineWhileAttached
<1> QED BY <1>1, DurabilityInit, DurabilityStep, PTL DEF Spec

====

---------------------------- MODULE MCFoundations ----------------------------
(* What the daemon rests on: mutation locks, the journal file, the stop     *)
(* evaluation, batch publication, bundle files, DNS transitions, the daemon *)
(* process and environment removal. Each part moves on an instance of its   *)
(* own: the first state chooses the part and the others stay as they began, *)
(* so that one run covers all of them and multiplies none.                  *)
EXTENDS MutationKeys, JournalStore, StopEvaluation, EnvironmentBatch,
        MigrationBundle, DnsTransition, DaemonProcess, EnvironmentRemoval, TLC

VARIABLES part

partsVars == <<part, vars, journalVars, evaluationVars, batchVars, bundleVars,
                dnsVars, daemonVars, removalVars>>

PartsInit ==
  /\ part \in {"keys", "journal", "evaluation", "batch", "bundle", "dns",
                "daemon", "removal"}
  /\ Init
  /\ JournalInit
  /\ IF part = "evaluation" THEN EvaluationInit
     ELSE rowDeps = <<>> /\ rowState = <<>> /\ obstacles = {} /\ evaluation = NotEvaluated
  /\ BatchInit
  /\ BundleInit
  /\ DnsInit
  /\ IF part = "daemon" THEN DaemonInit
     ELSE DaemonInit /\ \A c \in DaemonClients : dclient[c].pc = "ensure" /\ dclient[c].build = "b1"
  /\ IF part = "removal" THEN RemovalInit
     ELSE RemovalInit /\ recordFile = "ready" /\ disposable

PartsNext ==
  \/ part = "keys" /\ Next
     /\ UNCHANGED <<part, journalVars, evaluationVars, batchVars, bundleVars,
                     dnsVars, daemonVars, removalVars>>
  \/ part = "journal" /\ JournalNext
     /\ UNCHANGED <<part, vars, evaluationVars, batchVars, bundleVars,
                     dnsVars, daemonVars, removalVars>>
  \/ part = "evaluation" /\ EvaluationNext
     /\ UNCHANGED <<part, vars, journalVars, batchVars, bundleVars, dnsVars,
                     daemonVars, removalVars>>
  \/ part = "batch" /\ BatchNext
     /\ UNCHANGED <<part, vars, journalVars, evaluationVars, bundleVars,
                     dnsVars, daemonVars, removalVars>>
  \/ part = "bundle" /\ BundleNext
     /\ UNCHANGED <<part, vars, journalVars, evaluationVars, batchVars,
                     dnsVars, daemonVars, removalVars>>
  \/ part = "dns" /\ DnsNext
     /\ UNCHANGED <<part, vars, journalVars, evaluationVars, batchVars,
                     bundleVars, daemonVars, removalVars>>
  \/ part = "daemon" /\ DaemonNext
     /\ UNCHANGED <<part, vars, journalVars, evaluationVars, batchVars,
                     bundleVars, dnsVars, removalVars>>
  \/ part = "removal" /\ RemovalNext
     /\ UNCHANGED <<part, vars, journalVars, evaluationVars, batchVars,
                     bundleVars, dnsVars, daemonVars>>

PartsSpec == PartsInit /\ [][PartsNext]_partsVars

Symmetry == Permutations(DaemonIds) \cup Permutations(DaemonClients)

==============================================================================

--------------------------- MODULE MCEnvironments ----------------------------
(* What changes an environment: lifecycle actions, profile transactions, its *)
(* network, exports and imports, host-app packs. Each part moves on an      *)
(* instance of its own: the first state chooses the part and the others stay *)
(* as they began, so that one run covers all of them and multiplies none.   *)
EXTENDS EnvironmentActions, ProfileTransaction, RunNetwork, MigrationExport,
        MigrationImport, HostAppPacks, TLC

VARIABLES part

partsVars == <<part, vars, batchVars, profileVars, netVars, exportVars,
                importVars, hapVars>>

PartsInit ==
  /\ part \in {"actions", "profile", "network", "export", "import", "packs"}
  /\ IF part = "actions" THEN Init
     ELSE Init /\ meta = [e \in Envs |-> "stopped"]
  /\ ProfileTxInit
  /\ RunNetInit
  /\ ExportInit
  /\ ImportInit
  /\ HapInit

PartsNext ==
  \/ part = "actions" /\ Next
     /\ UNCHANGED <<part, batchVars, profileVars, netVars, exportVars,
                     importVars, hapVars>>
  \/ part = "profile" /\ ProfileTxNext
     /\ UNCHANGED <<part, vars, netVars, exportVars, importVars, hapVars>>
  \/ part = "network" /\ RunNetNext
     /\ UNCHANGED <<part, vars, batchVars, profileVars, exportVars,
                     importVars, hapVars>>
  \/ part = "export" /\ ExportNext
     /\ UNCHANGED <<part, vars, batchVars, profileVars, netVars, importVars,
                     hapVars>>
  \/ part = "import" /\ ImportNext
     /\ UNCHANGED <<part, vars, batchVars, profileVars, netVars, exportVars,
                     hapVars>>
  \/ part = "packs" /\ HapNext
     /\ UNCHANGED <<part, vars, batchVars, profileVars, netVars, exportVars,
                     importVars>>

PartsSpec == PartsInit /\ [][PartsNext]_partsVars

==============================================================================

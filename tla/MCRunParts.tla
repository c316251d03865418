----------------------------- MODULE MCRunParts ------------------------------
(* The parts of a session: run and owner records, the attached stream, the  *)
(* broker and the host-file policy. Each part moves on an instance of its   *)
(* own: the first state chooses the part and the others stay as they began, *)
(* so that one run covers all of them and multiplies none.                  *)
EXTENDS RunSession, SessionStream, Broker, HostFSPolicy, TLC

VARIABLES part

partsVars == <<part, runVars, sessionStreamVars, brokerVars, hfsVars>>

RulePaths == {<<"d">>, <<"d", "g">>}
LinkTargets == {<<"d", "f">>, <<"d", ".h">>}

PartsInit ==
  /\ part \in {"session", "stream", "broker", "hostfs"}
  /\ RunInit
  /\ SessionInit
  /\ BrokerInit
  /\ HfsInit

PartsNext ==
  \/ part = "session" /\ RunNext
     /\ UNCHANGED <<part, sessionStreamVars, brokerVars, hfsVars>>
  \/ part = "stream" /\ SessionNext
     /\ UNCHANGED <<part, runVars, brokerVars, hfsVars>>
  \/ part = "broker" /\ BrokerNext
     /\ UNCHANGED <<part, runVars, sessionStreamVars, hfsVars>>
  \/ part = "hostfs" /\ HfsNext
     /\ UNCHANGED <<part, runVars, sessionStreamVars, brokerVars>>

PartsSpec == PartsInit /\ [][PartsNext]_partsVars

Symmetry == Permutations(Sessions)

==============================================================================

------------------------------- MODULE MCGuest -------------------------------
(* What a run does in its guest and what is decided and recorded about it:  *)
(* launch, decisions, secrets, the activity stream and the activity store.  *)
(* Each part moves on an instance of its own: the first state chooses the   *)
(* part and the others stay as they began, so that one run covers all of    *)
(* them and multiplies none.                                                *)
EXTENDS RunLaunch, DecisionCenter, SecretTransaction, ActivityStore,
        ActivityStream, TLC

VARIABLES part

partsVars == <<part, launchVars, centerVars, batchVars, secretVars, storeVars,
                streamVars>>

launchRequest(env, place, preview) ==
  [env |-> env, place |-> place, unsafe |-> FALSE, gitOut |-> FALSE, preview |-> preview]
LaunchSet == {launchRequest("named", <<"home", "link">>, "none"),
              launchRequest("auto", <<"home", "p">>, "listed"),
              launchRequest("auto", <<"home", "p">>, "foreign")}
Links == {<<"home", "p">>, StoreRoot}

PartsInit ==
  /\ part \in {"launch", "decisions", "secret", "store", "stream"}
  /\ LaunchInit
  /\ IF part = "decisions" THEN CenterInit
     ELSE CenterInit /\ focus = "write"
  /\ SecretTxInit
  /\ StoreInit
  /\ StreamInit

PartsNext ==
  \/ part = "launch" /\ LaunchNext
     /\ UNCHANGED <<part, centerVars, batchVars, secretVars, storeVars,
                     streamVars>>
  \/ part = "decisions" /\ CenterNext
     /\ UNCHANGED <<part, launchVars, batchVars, secretVars, storeVars,
                     streamVars>>
  \/ part = "secret" /\ SecretTxNext
     /\ UNCHANGED <<part, launchVars, centerVars, storeVars, streamVars>>
  \/ part = "store" /\ StoreNext
     /\ UNCHANGED <<part, launchVars, centerVars, batchVars, secretVars,
                     streamVars>>
  \/ part = "stream" /\ StreamNext
     /\ UNCHANGED <<part, launchVars, centerVars, batchVars, secretVars,
                     storeVars>>

PartsSpec == PartsInit /\ [][PartsNext]_partsVars

Symmetry == Permutations(Launches)

==============================================================================

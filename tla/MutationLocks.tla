---------------------------- MODULE MutationLocks ----------------------------
(***************************************************************************)
(* What AcquireMutation promises its callers: a lock table in which one    *)
(* step takes all the keys of a request or none of them, and in which only *)
(* attach requests share a key.  MutationKeys implements it.               *)
(***************************************************************************)
CONSTANTS Clients, Keys, Kinds

VARIABLES holds,   \* the keys a client holds
          kind     \* what it holds them for

vars == <<holds, kind>>

Init ==
  /\ holds = [c \in Clients |-> {}]
  /\ kind = [c \in Clients |-> "none"]

Acquire(c) ==
  /\ holds[c] = {}
  /\ \E ks \in (SUBSET Keys) \ {{}}, k \in Kinds :
       /\ \A d \in Clients : holds[d] \cap ks # {} => k = "attach" /\ kind[d] = "attach"
       /\ holds' = [holds EXCEPT ![c] = ks]
       /\ kind' = [kind EXCEPT ![c] = k]

Release(c) ==
  /\ holds[c] # {}
  /\ holds' = [holds EXCEPT ![c] = {}]
  /\ kind' = [kind EXCEPT ![c] = "none"]

Next == \E c \in Clients : Acquire(c) \/ Release(c)

Spec == Init /\ [][Next]_vars

\* Two holders of one key are both attaching.
Exclusive ==
  \A c, d \in Clients : c # d /\ holds[c] \cap holds[d] # {} =>
    kind[c] = "attach" /\ kind[d] = "attach"

====

----------------------------- MODULE KeyClaims -----------------------------
(***************************************************************************)
(* What an Idempotency-Key promises: all requests that carry a key agree   *)
(* on one payment.  The key gets an owner once, nothing but the owner is   *)
(* ever run for it or named to a client, and the answer stored for it      *)
(* stays.                                                                  *)
(***************************************************************************)
CONSTANTS Keys, Requests, Nobody

VARIABLES
    owner,     \* the request whose payment stands for the key
    started,   \* the requests whose pipeline was started for the key
    named,     \* the requests whose payments clients were told of
    stored     \* the keys whose final answer is stored

vars == <<owner, started, named, stored>>

Init ==
    /\ owner = [k \in Keys |-> Nobody]
    /\ started = [k \in Keys |-> {}]
    /\ named = [k \in Keys |-> {}]
    /\ stored = {}

(* The key is claimed; the winner's pipeline starts if the winner learns   *)
(* that it has won.                                                        *)
Claim(k, r) ==
    /\ owner[k] = Nobody
    /\ owner' = [owner EXCEPT ![k] = r]
    /\ started' \in {started, [started EXCEPT ![k] = {r}]}
    /\ UNCHANGED <<named, stored>>

Name(k) ==
    /\ owner[k] # Nobody
    /\ named' = [named EXCEPT ![k] = {owner[k]}]
    /\ UNCHANGED <<owner, started>>

(* Storing the answer may coincide with telling it.                        *)
Store(k) ==
    /\ started[k] # {}
    /\ stored' = stored \cup {k}

Next ==
    \E k \in Keys :
       \/ \E r \in Requests : Claim(k, r)
       \/ Name(k) /\ (Store(k) \/ UNCHANGED stored)
       \/ Store(k) /\ UNCHANGED <<owner, started, named>>

Spec == Init /\ [][Next]_vars
=============================================================================

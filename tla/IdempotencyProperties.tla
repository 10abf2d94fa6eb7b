----------------------- MODULE IdempotencyProperties -----------------------
(***************************************************************************)
(* What the Idempotency-Key of POST /payments gives its clients, what      *)
(* comments and tests say that it does not, and the inductive invariant.   *)
(***************************************************************************)
EXTENDS Idempotency

Started(k) == {r \in Requests : req[r].key = k /\ pipeline[r] # "none"}
Named(k)   == {reply[r].payment : r \in {s \in Requests : req[s].key = k}} \ {Nobody}

KeysClaimed ==
    INSTANCE KeyClaims WITH
        owner   <- [k \in Keys |-> keys[k].owner],
        started <- [k \in Keys |-> Started(k)],
        named   <- [k \in Keys |-> Named(k)],
        stored  <- {k \in Keys : keys[k].answered}

(* Refinement: through races, expiry, rejected calls and crashes all       *)
(* requests with a key agree on one payment, and its answer stays stored.  *)
ClaimsAreFinal == KeysClaimed!Spec

(* No two requests with the same key ever run a payment, however they race *)
(* and even when the record of the first has expired.                      *)
OneExecutionPerKey ==
    \A r, s \in Requests :
        (/\ req[r].key = req[s].key /\ req[r].key # NoKey
         /\ pipeline[r] # "none" /\ pipeline[s] # "none")
        => r = s

(* 201 is only ever said of a payment whose pipeline run has returned.     *)
CreatedMeansReturned ==
    \A r \in Requests :
        reply[r].code = 201 => /\ reply[r].payment \in Requests
                               /\ pipeline[reply[r].payment] = "returned"

(* 409 is only said to a request whose key was claimed by another body.    *)
ConflictsAreReal ==
    \A r \in Requests :
        reply[r].code = 409 => /\ req[r].key \in Keys
                               /\ Claimed(req[r].key)
                               /\ keys[req[r].key].hash # req[r].body

(* 200 names the payment that holds the key, or none once its record has   *)
(* expired.  That payment has been started, unless a rejected tryInsert    *)
(* has left a claim without one.                                           *)
ReplaysNameOwner ==
    \A r \in Requests :
        LET k == req[r].key
        IN  reply[r].code = 200 =>
                /\ k \in Keys /\ Claimed(k)
                /\ IF reply[r].payment = Nobody
                   THEN k \in expired
                   ELSE /\ reply[r].payment = keys[k].owner
                        /\ dbErrors = 0 => pipeline[keys[k].owner] # "none"

(* What 201, 409 and 200 say of a payment, a key or its owner is true,     *)
(* also when the request that holds the key has failed, died or expired    *)
(* (payments.ts:33-84).  The status 'QUEUED' of a 200 is not meant: it is  *)
(* a default of the code and may be false (payments.ts:43, 60).            *)
RepliesAreTrue == CreatedMeansReturned /\ ConflictsAreReal /\ ReplaysNameOwner

(* A claimed key stays without an answer only while its owner is at work,  *)
(* or when the owner's client was told of a failure, or when the process   *)
(* has died with it: nobody who was told 201 finds the key empty           *)
(* (payments.ts:47-76).                                                    *)
UnansweredKeysExplained ==
    \A k \in Keys :
        Claimed(k) /\ ~keys[k].answered =>
            \/ req[keys[k].owner].step \in {"execute", "store", "lost"}
            \/ reply[keys[k].owner].code = 500

(* Every request is answered unless the process dies, whoever else died or *)
(* failed while holding the key.                                           *)
EveryRequestIsAnswered ==
    \A r \in Requests :
        req[r].step # "idle" ~> req[r].step \in {"answered", "lost"}

-----------------------------------------------------------------------------
(* What comments and tests say and the code does not keep.                 *)

(* payments.ts:32-39 and, of the middleware, test_8.md:32: a key that      *)
(* exists with a different hash leads to 409 IDEMPOTENCY_CONFLICT.  No     *)
(* client is told of a payment with another body than its own.             *)
OtherBodiesConflict ==
    \A r \in Requests :
        req[r].key # NoKey /\ reply[r].payment # Nobody
            => keys[req[r].key].hash = req[r].body

-----------------------------------------------------------------------------
(* The inductive invariant.                                                *)

RequestInv(r) ==
    /\ req[r].step \in {"find", "claim", "lookup", "store"} => req[r].key # NoKey
    /\ req[r].step \in {"idle", "find", "claim", "lookup"} => pipeline[r] = "none"
    /\ req[r].step = "execute" => pipeline[r] = "running"
    /\ req[r].step = "store" => pipeline[r] = "returned"
    /\ req[r].step \in {"lookup", "store"} => Claimed(req[r].key)
    /\ req[r].step \notin {"answered", "lost"} => reply[r] = Unanswered
    /\ req[r].key # NoKey /\ pipeline[r] # "none" => keys[req[r].key].owner = r
    /\ IF req[r].step = "idle" THEN req[r].key = NoKey ELSE req[r].body \in Bodies

ReplyInv(r) ==
    req[r].key # NoKey /\ reply[r].payment # Nobody
        => keys[req[r].key].owner = reply[r].payment

KeyInv(k) ==
    /\ Claimed(k) => keys[k].owner # Nobody
    /\ k \in expired => Claimed(k)
    /\ keys[k].answered => pipeline[keys[k].owner] = "returned"
                           /\ req[keys[k].owner].key = k

IInv ==
    /\ TypeOK
    /\ \A r \in Requests : RequestInv(r) /\ ReplyInv(r)
    /\ \A k \in Keys : KeyInv(k)
    /\ CreatedMeansReturned
    /\ ConflictsAreReal

(* Behind ReplaysNameOwner, and inductive beside IInv.                     *)
ReplayInv ==
    /\ \A r \in Requests :
          reply[r].code = 200 => /\ req[r].key \in Keys
                                 /\ Claimed(req[r].key)
                                 /\ reply[r].payment = Nobody => req[r].key \in expired
    /\ dbErrors = 0 => \A k \in Keys : Claimed(k) => pipeline[keys[k].owner] # "none"

(* Behind UnansweredKeysExplained, and inductive beside IInv: the owner of  *)
(* a key asks for that very key, and has not been answered otherwise.       *)
Explained(k) ==
    LET owner == keys[k].owner
    IN  /\ req[owner].key = k
        /\ \/ keys[k].answered
           \/ req[owner].step \in {"execute", "store", "lost"}
           \/ req[owner].step = "answered" /\ reply[owner].code = 500

OwnerInv == \A k \in Keys : Claimed(k) => Explained(k)
=============================================================================

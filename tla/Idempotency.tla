---------------------------- MODULE Idempotency ----------------------------
(***************************************************************************)
(* POST /payments with and without an Idempotency-Key: the route handler   *)
(* of src/api/routes/payments.ts over the idempotency_keys table.  Every   *)
(* request is an async function; an action is one of its awaits with the   *)
(* synchronous code that follows.  The pipeline a request starts is seen   *)
(* from outside: it is running, and then returns or throws (Payments shows *)
(* its inside).  A payment id is a ULID made by the request that may run   *)
(* the payment, so the request stands for the id.  The body stands for its *)
(* own SHA-256 hash.                                                       *)
(***************************************************************************)
EXTENDS Naturals

CONSTANTS
    Requests,      \* HTTP requests
    Nobody,        \* no request, no payment
    Keys,          \* values of the Idempotency-Key header
    NoKey,         \* the header is absent
    Bodies,        \* request bodies
    MaxDbErrors,   \* bound on rejected database calls
    MaxCrashes     \* bound on crashes of the process

ASSUME IdempotencyAssumption ==
    /\ Nobody \notin Requests
    /\ NoKey \notin Keys
    /\ MaxDbErrors \in Nat
    /\ MaxCrashes \in Nat

VARIABLES
    keys,       \* the idempotency_keys table
    expired,    \* the keys whose expires_at has passed
    req,        \* where each request stands and what it asks for
    reply,      \* what each client was answered
    pipeline,   \* PaymentPipeline.execute for the payment of each request
    dbErrors,   \* rejected database calls so far
    crashes     \* crashes so far

vars == <<keys, expired, req, reply, pipeline, dbErrors, crashes>>

-----------------------------------------------------------------------------
(* 500 stands for whatever errorHandler makes of an exception.             *)
Codes == {200, 201, 409, 500}
Steps == {"idle", "find", "claim", "lookup", "execute", "store", "answered",
          "lost"}

(* A row: the claim, and response_status 201 with the response body once   *)
(* they are stored.                                                        *)
KeyRow == [owner : Requests, hash : Bodies, answered : BOOLEAN]
NoRow  == [owner |-> Nobody, hash |-> Nobody, answered |-> FALSE]

Unanswered == [code |-> 0, payment |-> Nobody]

TypeOK ==
    /\ keys \in [Keys -> KeyRow \cup {NoRow}]
    /\ expired \subseteq Keys
    /\ req \in [Requests -> [step : Steps, key : Keys \cup {NoKey},
                             body : Bodies \cup {Nobody}]]
    /\ reply \in [Requests -> [code    : Codes \cup {0},
                               payment : Requests \cup {Nobody}]]
    /\ pipeline \in [Requests -> {"none", "running", "returned", "threw", "lost"}]
    /\ dbErrors \in 0..MaxDbErrors
    /\ crashes \in 0..MaxCrashes

Init ==
    /\ keys = [k \in Keys |-> NoRow]
    /\ expired = {}
    /\ req = [r \in Requests |-> [step |-> "idle", key |-> NoKey, body |-> Nobody]]
    /\ reply = [r \in Requests |-> Unanswered]
    /\ pipeline = [r \in Requests |-> "none"]
    /\ dbErrors = 0
    /\ crashes = 0

-----------------------------------------------------------------------------
Claimed(k) == keys[k] # NoRow
Visible(k) == Claimed(k) /\ k \notin expired   \* found by findByKey

Goto(r, step) == req' = [req EXCEPT ![r].step = step] /\ UNCHANGED reply

Answer(r, code, payment) ==
    /\ req' = [req EXCEPT ![r].step = "answered"]
    /\ reply' = [reply EXCEPT ![r] = [code |-> code, payment |-> payment]]

(* A database call rejects, and the request fails with it.                 *)
Rejected(r) ==
    /\ dbErrors < MaxDbErrors
    /\ dbErrors' = dbErrors + 1
    /\ Answer(r, 500, Nobody)

(* The stored answer, or the default one for a claim without an answer.    *)
Replay(r, k) ==
    Answer(r, IF keys[k].answered THEN 201 ELSE 200, keys[k].owner)

(* The body parses.  Without a key the pipeline starts at once.            *)
Arrive(r, k, b) ==
    /\ req[r].step = "idle"
    /\ req' = [req EXCEPT ![r] = [step |-> IF k = NoKey THEN "execute" ELSE "find",
                                  key  |-> k, body |-> b]]
    /\ pipeline' = [pipeline EXCEPT ![r] = IF k = NoKey THEN "running" ELSE @]
    /\ UNCHANGED <<keys, expired, reply, dbErrors, crashes>>

(* findByKey: replay the answer, refuse another body, or claim the key.    *)
Find(r) ==
    /\ req[r].step = "find"
    /\ LET k == req[r].key
       IN  \/ /\ Visible(k)
              /\ IF keys[k].hash # req[r].body
                 THEN Answer(r, 409, Nobody)
                 ELSE Replay(r, k)
              /\ UNCHANGED dbErrors
           \/ ~Visible(k) /\ Goto(r, "claim") /\ UNCHANGED dbErrors
           \/ Rejected(r)
    /\ UNCHANGED <<keys, expired, pipeline, crashes>>

Insert(k, r) ==
    keys' = [keys EXCEPT ![k] = [owner |-> r, hash |-> req[r].body,
                                 answered |-> FALSE]]

(* Wrong variants: a plain upsert; a record inserted with its response.    *)
WrongClaim(r) ==
    /\ req[r].step = "claim"
    /\ LET k == req[r].key
       IN  /\ Insert(k, r)
           /\ Goto(r, "execute")
           /\ pipeline' = [pipeline EXCEPT ![r] = "running"]
           /\ UNCHANGED dbErrors
    /\ UNCHANGED <<expired, crashes>>

EagerClaim(r) ==
    /\ req[r].step = "claim"
    /\ LET k == req[r].key
       IN  \/ /\ ~Claimed(k)
              /\ keys' = [keys EXCEPT ![k] = [owner |-> r, hash |-> req[r].body,
                                              answered |-> TRUE]]
              /\ Goto(r, "execute")
              /\ pipeline' = [pipeline EXCEPT ![r] = "running"]
              /\ UNCHANGED dbErrors
           \/ /\ Claimed(k)
              /\ Goto(r, "lookup")
              /\ UNCHANGED <<keys, pipeline, dbErrors>>
    /\ UNCHANGED <<expired, crashes>>

(* INSERT ... ON CONFLICT DO NOTHING: an expired row still conflicts.  The *)
(* winner goes straight on to the pipeline.  When the call rejects the     *)
(* claim may stand all the same, without a pipeline.                       *)
Claim(r) ==
    /\ req[r].step = "claim"
    /\ LET k == req[r].key
       IN  \/ /\ ~Claimed(k)
              /\ Insert(k, r)
              /\ Goto(r, "execute")
              /\ pipeline' = [pipeline EXCEPT ![r] = "running"]
              /\ UNCHANGED dbErrors
           \/ /\ Claimed(k)
              /\ Goto(r, "lookup")
              /\ UNCHANGED <<keys, pipeline, dbErrors>>
           \/ /\ Rejected(r)
              /\ UNCHANGED keys \/ (~Claimed(k) /\ Insert(k, r))
              /\ UNCHANGED pipeline
    /\ UNCHANGED <<expired, crashes>>

(* Wrong variants: the loser polls until the winner has an answer; the     *)
(* loser runs its own payment when the winner's record has expired.        *)
PatientLookup(r) ==
    /\ req[r].step = "lookup"
    /\ LET k == req[r].key
       IN  IF keys[k].answered THEN Replay(r, k) ELSE UNCHANGED <<req, reply>>
    /\ UNCHANGED <<keys, expired, pipeline, dbErrors, crashes>>

WrongLookup(r) ==
    /\ req[r].step = "lookup"
    /\ LET k == req[r].key
       IN  \/ Visible(k) /\ Replay(r, k) /\ UNCHANGED pipeline
           \/ /\ ~Visible(k)
              /\ Goto(r, "execute")
              /\ pipeline' = [pipeline EXCEPT ![r] = "running"]
    /\ UNCHANGED <<keys, expired, dbErrors, crashes>>

(* The loser of the race answers with the winner's record, whatever the    *)
(* winner's body was; once that has expired there is no id to name.        *)
Lookup(r) ==
    /\ req[r].step = "lookup"
    /\ LET k == req[r].key
       IN  \/ Visible(k) /\ Replay(r, k) /\ UNCHANGED dbErrors
           \/ ~Visible(k) /\ Answer(r, 200, Nobody) /\ UNCHANGED dbErrors
           \/ Rejected(r)
    /\ UNCHANGED <<keys, expired, pipeline, crashes>>

(* pipeline.execute resolves: answer, after storing the answer of a key.   *)
PipelineReturns(r) ==
    /\ req[r].step = "execute"
    /\ pipeline' = [pipeline EXCEPT ![r] = "returned"]
    /\ IF req[r].key = NoKey THEN Answer(r, 201, r) ELSE Goto(r, "store")
    /\ UNCHANGED <<keys, expired, dbErrors, crashes>>

(* pipeline.execute rejects: nothing is written about the key.             *)
PipelineThrows(r) ==
    /\ req[r].step = "execute"
    /\ pipeline' = [pipeline EXCEPT ![r] = "threw"]
    /\ Answer(r, 500, Nobody)
    /\ UNCHANGED <<keys, expired, dbErrors, crashes>>

Record(k) == keys' = [keys EXCEPT ![k].answered = TRUE]

(* Wrong variant: the answer is sent and never stored.                     *)
WrongStore(r) ==
    /\ req[r].step = "store"
    /\ Answer(r, 201, r)
    /\ UNCHANGED <<keys, expired, pipeline, dbErrors, crashes>>

(* updateResponse, then the reply.                                         *)
Store(r) ==
    /\ req[r].step = "store"
    /\ LET k == req[r].key
       IN  \/ Record(k) /\ Answer(r, 201, r) /\ UNCHANGED dbErrors
           \/ Rejected(r) /\ (Record(k) \/ UNCHANGED keys)
    /\ UNCHANGED <<expired, pipeline, crashes>>

Handle(r) ==
    \/ Find(r) \/ Claim(r) \/ Lookup(r)
    \/ PipelineReturns(r) \/ PipelineThrows(r) \/ Store(r)

(* NOW() passes expires_at.  No code of this repository deletes the row.   *)
Expire(k) ==
    /\ Visible(k)
    /\ expired' = expired \cup {k}
    /\ UNCHANGED <<keys, req, reply, pipeline, dbErrors, crashes>>

(* The process dies with everything it was doing.                          *)
Crash ==
    /\ crashes < MaxCrashes
    /\ crashes' = crashes + 1
    /\ req' = [r \in Requests |->
                 IF req[r].step \in {"idle", "answered"} THEN req[r]
                 ELSE [req[r] EXCEPT !.step = "lost"]]
    /\ pipeline' = [r \in Requests |->
                      IF pipeline[r] = "running" THEN "lost" ELSE pipeline[r]]
    /\ UNCHANGED <<keys, expired, reply, dbErrors>>

Next ==
    \/ \E r \in Requests :
          \/ \E k \in Keys \cup {NoKey}, b \in Bodies : Arrive(r, k, b)
          \/ Handle(r)
    \/ \E k \in Keys : Expire(k)
    \/ Crash

Spec == Init /\ [][Next]_vars

(* The event loop takes up every answer of the database, and a pipeline    *)
(* comes to an end (HandlersEnd of Payments).                              *)
FairSpec == Spec /\ \A r \in Requests : WF_vars(Handle(r))
=============================================================================

------------------------- MODULE IdempotencyProofs -------------------------
(***************************************************************************)
(* Idempotency-Key, for every number of requests, keys and bodies: what    *)
(* the safety runs of Idempotency check, and that the handler implements   *)
(* KeyClaims.                                                              *)
(***************************************************************************)
EXTENDS IdempotencyProperties, TLAPS

USE IdempotencyAssumption

(* Every key is free at the start and no request is under way.             *)
LEMMA InitIInv == Init => IInv
  BY DEF Init, IInv, TypeOK, NoRow, Unanswered, Steps, Codes, RequestInv,
         ReplyInv, KeyInv, Claimed, CreatedMeansReturned, ConflictsAreReal

(* A request that moves on keeps the types of its records.                 *)
LEMMA StepTyped ==
  ASSUME TypeOK, NEW r \in Requests, NEW step \in Steps,
         req' = [req EXCEPT ![r].step = step]
  PROVE  req' \in [Requests -> [step : Steps, key : Keys \cup {NoKey},
                              body : Bodies \cup {Nobody}]]
  BY DEF TypeOK

-----------------------------------------------------------------------------
(* One lemma for each action: it preserves the inductive invariant.        *)

LEMMA ArriveKeeps ==
  ASSUME IInv, NEW r \in Requests, NEW k \in Keys \cup {NoKey}, NEW b \in Bodies,
         Arrive(r, k, b)
  PROVE  IInv'
<1>. USE DEF IInv
<1>1. TypeOK'
  BY DEF Arrive, TypeOK, Steps
<1>2. ASSUME NEW s \in Requests PROVE RequestInv(s)' /\ ReplyInv(s)'
  BY DEF Arrive, TypeOK, RequestInv, ReplyInv, Claimed, Unanswered
<1>3. ASSUME NEW l \in Keys PROVE KeyInv(l)'
  <2>1. KeyInv(l)
    OBVIOUS
  <2>2. keys[l].answered => keys[l].owner # r
    BY DEF Arrive, RequestInv, KeyInv
  <2>. QED
    BY <2>1, <2>2 DEF Arrive, TypeOK, KeyInv, Claimed, KeyRow, NoRow
<1>4. CreatedMeansReturned'
  BY DEF Arrive, TypeOK, CreatedMeansReturned, RequestInv
<1>5. ConflictsAreReal'
  BY DEF Arrive, TypeOK, ConflictsAreReal, RequestInv, Claimed, Unanswered
<1>. QED
  BY <1>1, <1>2, <1>3, <1>4, <1>5

(* A claimed row is a whole one.                                           *)
LEMMA ClaimedRow ==
  ASSUME TypeOK, NEW k \in Keys, Claimed(k)
  PROVE  keys[k] \in KeyRow
  BY DEF TypeOK, Claimed

(* A handler that answers before any pipeline of its own says something    *)
(* true of the row of its key.                                             *)
LEMMA AnswerKeeps ==
  ASSUME IInv, NEW r \in Requests, req[r].step \in {"find", "claim", "lookup"},
         NEW code \in Codes, NEW payment \in Requests \cup {Nobody},
         Answer(r, code, payment),
         UNCHANGED <<keys, expired, pipeline, crashes>>,
         dbErrors' \in 0..MaxDbErrors,
         payment # Nobody => keys[req[r].key].owner = payment,
         code = 201 => payment \in Requests /\ pipeline[payment] = "returned",
         code = 409 => /\ req[r].key \in Keys /\ Claimed(req[r].key)
                       /\ keys[req[r].key].hash # req[r].body
  PROVE  IInv'
<1>. USE DEF IInv, Answer
<1>1. TypeOK'
  BY DEF TypeOK, Steps
<1>2. ASSUME NEW s \in Requests PROVE RequestInv(s)' /\ ReplyInv(s)'
  BY DEF TypeOK, RequestInv, ReplyInv, Claimed
<1>3. ASSUME NEW l \in Keys PROVE KeyInv(l)'
  BY DEF TypeOK, KeyInv, Claimed, KeyRow
<1>4. CreatedMeansReturned'
  BY DEF TypeOK, CreatedMeansReturned
<1>5. ConflictsAreReal'
  BY DEF TypeOK, ConflictsAreReal, Claimed
<1>. QED
  BY <1>1, <1>2, <1>3, <1>4, <1>5

(* Going on to the next await of the handler changes no answer.            *)
LEMMA GotoKeeps ==
  ASSUME IInv, NEW r \in Requests, NEW step,
         \/ req[r].step = "find" /\ step = "claim"
         \/ req[r].step = "claim" /\ step = "lookup" /\ Claimed(req[r].key),
         Goto(r, step),
         UNCHANGED <<keys, expired, pipeline, dbErrors, crashes>>
  PROVE  IInv'
<1>. USE DEF IInv, Goto
<1>1. TypeOK'
  BY DEF TypeOK, Steps
<1>2. ASSUME NEW s \in Requests PROVE RequestInv(s)' /\ ReplyInv(s)'
  BY DEF TypeOK, RequestInv, ReplyInv, Claimed, Unanswered
<1>3. ASSUME NEW l \in Keys PROVE KeyInv(l)'
  BY DEF TypeOK, KeyInv, Claimed, KeyRow
<1>4. CreatedMeansReturned'
  BY DEF TypeOK, CreatedMeansReturned
<1>5. ConflictsAreReal'
  BY DEF TypeOK, ConflictsAreReal, Claimed
<1>. QED
  BY <1>1, <1>2, <1>3, <1>4, <1>5

(* Replay tells the stored answer of the key or names its owner.           *)
LEMMA ReplayKeeps ==
  ASSUME IInv, NEW r \in Requests, req[r].step \in {"find", "lookup"},
         Visible(req[r].key), Replay(r, req[r].key),
         UNCHANGED <<keys, expired, pipeline, dbErrors, crashes>>
  PROVE  IInv'
<1>1. req[r].key \in Keys
  BY DEF IInv, TypeOK, RequestInv
<1>2. keys[req[r].key] \in KeyRow
  BY <1>1, ClaimedRow DEF IInv, Visible
<1>3. keys[req[r].key].answered => pipeline[keys[req[r].key].owner] = "returned"
  BY <1>1 DEF IInv, KeyInv
<1>4. dbErrors' \in 0..MaxDbErrors
  BY DEF IInv, TypeOK
<1>5. CASE keys[req[r].key].answered
  BY <1>2, <1>3, <1>4, <1>5, AnswerKeeps DEF Replay, KeyRow, Codes
<1>6. CASE ~keys[req[r].key].answered
  BY <1>2, <1>4, <1>6, AnswerKeeps DEF Replay, KeyRow, Codes
<1>. QED
  BY <1>5, <1>6

LEMMA RejectedKeeps ==
  ASSUME IInv, NEW r \in Requests, req[r].step \in {"find", "claim", "lookup"},
         Rejected(r), UNCHANGED <<keys, expired, pipeline, crashes>>
  PROVE  IInv'
<1>1. dbErrors' \in 0..MaxDbErrors
  BY DEF IInv, TypeOK, Rejected
<1>. QED
  BY <1>1, AnswerKeeps DEF Rejected, Codes

LEMMA FindKeeps ==
  ASSUME IInv, NEW r \in Requests, Find(r)
  PROVE  IInv'
<1>. DEFINE k == req[r].key
<1>1. CASE Visible(k) /\ keys[k].hash # req[r].body /\ Answer(r, 409, Nobody)
           /\ UNCHANGED dbErrors
  BY <1>1, AnswerKeeps DEF Find, Visible, Codes, IInv, TypeOK, RequestInv
<1>2. CASE Visible(k) /\ Replay(r, k) /\ UNCHANGED dbErrors
  BY <1>2, ReplayKeeps DEF Find
<1>3. CASE Goto(r, "claim") /\ UNCHANGED dbErrors
  BY <1>3, GotoKeeps DEF Find
<1>4. CASE Rejected(r)
  BY <1>4, RejectedKeeps DEF Find
<1>. QED
  BY <1>1, <1>2, <1>3, <1>4 DEF Find

LEMMA LookupKeeps ==
  ASSUME IInv, NEW r \in Requests, Lookup(r)
  PROVE  IInv'
<1>. DEFINE k == req[r].key
<1>1. CASE Visible(k) /\ Replay(r, k) /\ UNCHANGED dbErrors
  BY <1>1, ReplayKeeps DEF Lookup
<1>2. CASE Answer(r, 200, Nobody) /\ UNCHANGED dbErrors
  BY <1>2, AnswerKeeps DEF Lookup, Codes, IInv, TypeOK
<1>3. CASE Rejected(r)
  BY <1>3, RejectedKeeps DEF Lookup
<1>. QED
  BY <1>1, <1>2, <1>3 DEF Lookup

(* What an unclaimed key cannot have: a payment, an answer, a conflict.    *)
LEMMA FreeKey ==
  ASSUME IInv, NEW k \in Keys, ~Claimed(k), NEW s \in Requests, req[s].key = k
  PROVE  /\ pipeline[s] = "none"
         /\ reply[s].payment = Nobody
         /\ reply[s].code # 409
         /\ req[s].step \notin {"lookup", "store"}
<1>1. keys[k].owner = Nobody /\ k # NoKey
  BY DEF Claimed, NoRow
<1>. QED
  BY <1>1 DEF IInv, TypeOK, RequestInv, ReplyInv, ConflictsAreReal

(* The row of a free key is written, whatever becomes of the handler.      *)
LEMMA InsertKeeps ==
  ASSUME IInv, NEW r \in Requests, req[r].step = "claim",
         NEW k \in Keys, k = req[r].key, ~Claimed(k), Insert(k, r),
         \/ /\ Goto(r, "execute")
            /\ pipeline' = [pipeline EXCEPT ![r] = "running"]
            /\ UNCHANGED dbErrors
         \/ Rejected(r) /\ UNCHANGED pipeline,
         UNCHANGED <<expired, crashes>>
  PROVE  IInv'
<1>. USE DEF IInv
<1>1. /\ pipeline[r] = "none" /\ reply[r] = Unanswered /\ req[r].body \in Bodies
  BY DEF TypeOK, RequestInv
<1>2. ASSUME NEW l \in Keys
      PROVE  /\ l # k => keys'[l] = keys[l]
             /\ keys'[k].owner = r
             /\ keys'[k].answered = FALSE
             /\ Claimed(k)'
             /\ Claimed(l) => Claimed(l)' /\ l # k
  BY DEF Insert, TypeOK, Claimed, NoRow
<1>3. TypeOK'
  <2>1. keys' \in [Keys -> KeyRow \cup {NoRow}]
    BY <1>1 DEF TypeOK, Insert, KeyRow
  <2>2. reply' \in [Requests -> [code : Codes \cup {0}, payment : Requests \cup {Nobody}]]
    BY DEF TypeOK, Goto, Rejected, Answer, Codes
  <2>3. req' \in [Requests -> [step : Steps, key : Keys \cup {NoKey},
                             body : Bodies \cup {Nobody}]]
    BY StepTyped DEF Goto, Rejected, Answer, Steps
  <2>. QED
    BY <2>1, <2>2, <2>3 DEF TypeOK, Goto, Rejected
<1>4. /\ req'[r].key = k /\ req'[r].step \in {"execute", "answered"}
      /\ req'[r].body \in Bodies
      /\ reply'[r].payment = Nobody /\ reply'[r].code \notin {201, 409}
      /\ req'[r].step = "execute" => reply'[r] = Unanswered /\ pipeline'[r] = "running"
  BY <1>1 DEF TypeOK, Goto, Rejected, Answer, Unanswered
<1>5. ASSUME NEW s \in Requests, s # r
      PROVE  req'[s] = req[s] /\ reply'[s] = reply[s] /\ pipeline'[s] = pipeline[s]
  BY <1>5 DEF TypeOK, Goto, Rejected, Answer
<1>6. ASSUME NEW s \in Requests PROVE RequestInv(s)' /\ ReplyInv(s)'
  <2>1. CASE s = r
    <3>1. keys'[k].owner = r /\ k # NoKey
      BY <1>2
    <3>2. RequestInv(r)'
      BY <1>4, <3>1 DEF RequestInv
    <3>3. ReplyInv(r)'
      BY <1>4 DEF ReplyInv
    <3>. QED
      BY <2>1, <3>2, <3>3
  <2>2. CASE s # r /\ req[s].key = k
    BY <1>5, <2>2, FreeKey DEF TypeOK, RequestInv, ReplyInv
  <2>3. CASE s # r /\ req[s].key # k
    <3>1. req[s].key \in Keys => keys'[req[s].key] = keys[req[s].key]
      BY <1>2, <2>3
    <3>2. RequestInv(s) /\ ReplyInv(s) /\ req[s].key \in Keys \cup {NoKey}
      BY DEF TypeOK
    <3>. QED
      BY <1>5, <2>3, <3>1, <3>2 DEF RequestInv, ReplyInv, Claimed
  <2>. QED
    BY <2>1, <2>2, <2>3
<1>7. ASSUME NEW l \in Keys PROVE KeyInv(l)'
  <2>1. CASE l = k
    <3>1. keys'[k].owner = r /\ ~keys'[k].answered /\ Claimed(k)'
      BY <1>2
    <3>2. r # Nobody
      BY IdempotencyAssumption
    <3>. QED
      BY <2>1, <3>1, <3>2 DEF KeyInv
  <2>2. CASE l # k
    <3>1. keys'[l] = keys[l] /\ (Claimed(l) => Claimed(l)')
      BY <1>2, <2>2
    <3>2. keys[l].answered => keys[l].owner \in Requests /\ keys[l].owner # r
      BY <1>1 DEF KeyInv, TypeOK, KeyRow, NoRow
    <3>. QED
      BY <1>5, <3>1, <3>2 DEF KeyInv, Claimed
  <2>. QED
    BY <2>1, <2>2
<1>8. CreatedMeansReturned'
  BY <1>1, <1>4, <1>5 DEF TypeOK, CreatedMeansReturned
<1>9. ASSUME NEW s \in Requests, reply'[s].code = 409
      PROVE  req'[s].key \in Keys /\ Claimed(req[s].key)' /\ keys'[req'[s].key].hash # req'[s].body
  <2>1. s # r
    BY <1>4, <1>9
  <2>2. req'[s] = req[s] /\ reply'[s] = reply[s]
    BY <1>5, <2>1
  <2>3. /\ req[s].key \in Keys /\ Claimed(req[s].key)
        /\ keys[req[s].key].hash # req[s].body
    BY <1>9, <2>2 DEF ConflictsAreReal
  <2>4. req[s].key # k
    BY <2>3
  <2>5. keys'[req[s].key] = keys[req[s].key]
    BY <2>4 DEF Insert, TypeOK
  <2>. QED
    BY <2>2, <2>3, <2>5 DEF Claimed
<1>10. ConflictsAreReal'
  BY <1>9 DEF ConflictsAreReal
<1>. QED
  BY <1>3, <1>6, <1>7, <1>8, <1>10

LEMMA ClaimKeeps ==
  ASSUME IInv, NEW r \in Requests, Claim(r)
  PROVE  IInv'
<1>1. req[r].key \in Keys
  BY DEF IInv, TypeOK, RequestInv, Claim
<1>2. CASE Claimed(req[r].key) /\ Goto(r, "lookup") /\ UNCHANGED <<keys, pipeline, dbErrors>>
  BY <1>2, GotoKeeps DEF Claim
<1>3. CASE Rejected(r) /\ UNCHANGED <<keys, pipeline>>
  BY <1>3, RejectedKeeps DEF Claim
<1>4. CASE /\ ~Claimed(req[r].key) /\ Insert(req[r].key, r)
           /\ \/ /\ Goto(r, "execute")
                 /\ pipeline' = [pipeline EXCEPT ![r] = "running"]
                 /\ UNCHANGED dbErrors
              \/ Rejected(r) /\ UNCHANGED pipeline
  BY <1>1, <1>4, InsertKeeps DEF Claim
<1>. QED
  BY <1>2, <1>3, <1>4 DEF Claim

(* The pipeline run of a request has ended one way or the other.           *)
LEMMA PipelineEndKeeps ==
  ASSUME IInv, NEW r \in Requests, PipelineReturns(r) \/ PipelineThrows(r)
  PROVE  IInv'
<1>. USE DEF IInv
<1>1. /\ pipeline[r] = "running" /\ reply[r] = Unanswered
      /\ req[r].key # NoKey => Claimed(req[r].key) /\ keys[req[r].key].owner = r
  BY DEF TypeOK, RequestInv, PipelineReturns, PipelineThrows, Claimed, NoRow
<1>2. /\ UNCHANGED <<keys, expired, dbErrors, crashes>>
      /\ req'[r].key = req[r].key /\ req'[r].body = req[r].body
      /\ \/ /\ req[r].key # NoKey /\ req'[r].step = "store"
            /\ pipeline'[r] = "returned" /\ reply'[r] = Unanswered
         \/ /\ req[r].key = NoKey /\ req'[r].step = "answered"
            /\ pipeline'[r] = "returned" /\ reply'[r] = [code |-> 201, payment |-> r]
         \/ /\ req'[r].step = "answered" /\ pipeline'[r] = "threw"
            /\ reply'[r] = [code |-> 500, payment |-> Nobody]
  BY <1>1 DEF PipelineReturns, PipelineThrows, Goto, Answer, TypeOK
<1>3. ASSUME NEW s \in Requests, s # r
      PROVE  req'[s] = req[s] /\ reply'[s] = reply[s] /\ pipeline'[s] = pipeline[s]
  BY <1>3 DEF PipelineReturns, PipelineThrows, Goto, Answer, TypeOK
<1>4. TypeOK'
  <2>1. pipeline' \in [Requests -> {"none", "running", "returned", "threw", "lost"}]
    BY DEF TypeOK, PipelineReturns, PipelineThrows
  <2>2. req' \in [Requests -> [step : Steps, key : Keys \cup {NoKey},
                             body : Bodies \cup {Nobody}]]
    BY StepTyped DEF Goto, Answer, Steps, PipelineReturns, PipelineThrows
  <2>3. reply' \in [Requests -> [code : Codes \cup {0}, payment : Requests \cup {Nobody}]]
    BY DEF TypeOK, Goto, Answer, Codes, PipelineReturns, PipelineThrows
  <2>. QED
    BY <1>2, <2>1, <2>2, <2>3 DEF TypeOK
<1>5. ASSUME NEW s \in Requests PROVE RequestInv(s)' /\ ReplyInv(s)'
  <2>1. CASE s = r
    <3>1. RequestInv(r) /\ ReplyInv(r) /\ req[r].step = "execute"
      BY DEF PipelineReturns, PipelineThrows
    <3>. QED
      BY <1>1, <1>2, <2>1, <3>1 DEF RequestInv, ReplyInv, Claimed, Unanswered
  <2>2. CASE s # r
    BY <1>2, <1>3, <2>2 DEF RequestInv, ReplyInv, Claimed
  <2>. QED
    BY <2>1, <2>2
<1>6. ASSUME NEW l \in Keys PROVE KeyInv(l)'
  <2>1. keys[l].answered => keys[l].owner \in Requests
    BY DEF TypeOK, KeyRow, NoRow
  <2>2. KeyInv(l)
    OBVIOUS
  <2>. QED
    BY <1>1, <1>2, <1>3, <2>1, <2>2 DEF KeyInv, Claimed
<1>7. CreatedMeansReturned'
  <2>1. ASSUME NEW s \in Requests, pipeline[s] = "returned"
        PROVE  pipeline'[s] = "returned"
    BY <1>1, <1>3, <2>1
  <2>. QED
    BY <1>2, <1>3, <2>1 DEF CreatedMeansReturned, Unanswered
<1>8. ConflictsAreReal'
  BY <1>2, <1>3 DEF ConflictsAreReal, Claimed, Unanswered
<1>. QED
  BY <1>4, <1>5, <1>6, <1>7, <1>8

(* The answer of a key is stored or lost, and the owner has its reply.     *)
LEMMA StoreKeeps ==
  ASSUME IInv, NEW r \in Requests, Store(r)
  PROVE  IInv'
<1>. USE DEF IInv
<1>1. /\ req[r].key \in Keys /\ pipeline[r] = "returned"
      /\ Claimed(req[r].key) /\ keys[req[r].key].owner = r
  BY DEF TypeOK, RequestInv, Store
<1>2. PICK k \in Keys : k = req[r].key
  BY <1>1
<1>3. keys[k] \in KeyRow
  BY <1>1, <1>2, ClaimedRow
<1>4. /\ UNCHANGED <<expired, pipeline, crashes>>
      /\ req' = [req EXCEPT ![r].step = "answered"]
      /\ \/ reply' = [reply EXCEPT ![r] = [code |-> 201, payment |-> r]]
         \/ reply' = [reply EXCEPT ![r] = [code |-> 500, payment |-> Nobody]]
      /\ dbErrors' \in 0..MaxDbErrors
      /\ Record(k) \/ UNCHANGED keys
  <2>1. dbErrors \in 0..MaxDbErrors
    BY DEF TypeOK
  <2>. QED
    BY <1>2, <2>1 DEF Store, Answer, Rejected
<1>5. keys' \in [Keys -> KeyRow \cup {NoRow}]
  <2>1. [keys[k] EXCEPT !.answered = TRUE] \in KeyRow
    BY <1>3 DEF KeyRow
  <2>2. keys \in [Keys -> KeyRow \cup {NoRow}]
    BY DEF TypeOK
  <2>3. CASE keys' = [keys EXCEPT ![k] = [keys[k] EXCEPT !.answered = TRUE]]
    BY <2>1, <2>2, <2>3
  <2>. QED
    BY <1>4, <2>2, <2>3 DEF Record
<1>6. TypeOK'
  <2>1. req' \in [Requests -> [step : Steps, key : Keys \cup {NoKey},
                             body : Bodies \cup {Nobody}]]
    BY <1>4, StepTyped DEF Steps
  <2>2. reply' \in [Requests -> [code : Codes \cup {0}, payment : Requests \cup {Nobody}]]
    BY <1>4 DEF TypeOK, Codes
  <2>. QED
    BY <1>4, <1>5, <2>1, <2>2 DEF TypeOK
<1>7. ASSUME NEW l \in Keys
      PROVE  /\ keys'[l].owner = keys[l].owner /\ keys'[l].hash = keys[l].hash
             /\ Claimed(l)' <=> Claimed(l)
             /\ keys'[l].answered => keys[l].answered \/ l = k
  <2>1. CASE l # k
    BY <1>4, <2>1 DEF TypeOK, Record, Claimed
  <2>2. CASE l = k
    BY <1>1, <1>2, <1>3, <1>4, <2>2 DEF TypeOK, Record, Claimed, KeyRow, NoRow
  <2>. QED
    BY <2>1, <2>2
<1>8. /\ req'[r].step = "answered" /\ req'[r].key = k /\ req'[r].body = req[r].body
      /\ reply'[r] \in {[code |-> 201, payment |-> r], [code |-> 500, payment |-> Nobody]}
  BY <1>2, <1>4 DEF TypeOK
<1>9. ASSUME NEW s \in Requests, s # r
      PROVE  req'[s] = req[s] /\ reply'[s] = reply[s]
  BY <1>4, <1>9 DEF TypeOK
<1>10. ASSUME NEW s \in Requests PROVE RequestInv(s)' /\ ReplyInv(s)'
  <2>1. RequestInv(s) /\ ReplyInv(s) /\ req[s].key \in Keys \cup {NoKey}
    BY DEF TypeOK
  <2>2. CASE s = r
    <3>1. RequestInv(s)'
      BY <1>1, <1>2, <1>4, <1>7, <1>8, <2>1, <2>2 DEF RequestInv, Store
    <3>2. ReplyInv(s)'
      BY <1>1, <1>2, <1>7, <1>8, <2>2 DEF ReplyInv
    <3>. QED
      BY <3>1, <3>2
  <2>3. CASE s # r
    <3>1. req[s].step \in {"lookup", "store"} => Claimed(req[s].key)'
      BY <1>7, <1>9, <2>1, <2>3 DEF RequestInv, Claimed
    <3>. QED
      BY <1>4, <1>7, <1>9, <2>1, <2>3, <3>1 DEF RequestInv, ReplyInv, Claimed
  <2>. QED
    BY <2>2, <2>3
<1>11. ASSUME NEW l \in Keys PROVE KeyInv(l)'
  <2>1. KeyInv(l) /\ (Claimed(l) => keys[l].owner \in Requests)
    BY ClaimedRow DEF KeyRow
  <2>2. CASE l = k
    BY <1>1, <1>2, <1>4, <1>7, <1>8, <2>1, <2>2 DEF KeyInv
  <2>3. CASE l # k
    <3>1. keys[l].answered => keys[l].owner # r
      BY <1>2, <2>1, <2>3 DEF KeyInv
    <3>2. keys[l].answered => keys[l].owner \in Requests
      BY DEF TypeOK, KeyRow, NoRow
    <3>. QED
      BY <1>4, <1>7, <1>9, <2>1, <2>3, <3>1, <3>2 DEF KeyInv
  <2>. QED
    BY <2>2, <2>3
<1>12. CreatedMeansReturned'
  BY <1>1, <1>4, <1>8, <1>9 DEF CreatedMeansReturned
<1>13. ASSUME NEW s \in Requests, reply'[s].code = 409
       PROVE  req'[s].key \in Keys /\ Claimed(req[s].key)' /\ keys'[req'[s].key].hash # req'[s].body
  <2>1. s # r
    BY <1>8, <1>13
  <2>2. req'[s] = req[s] /\ reply'[s] = reply[s]
    BY <1>9, <2>1
  <2>3. /\ Claimed(req[s].key) /\ keys[req[s].key].hash # req[s].body
        /\ req[s].key \in Keys
    BY <1>13, <2>2 DEF ConflictsAreReal
  <2>. QED
    BY <1>7, <2>2, <2>3 DEF Claimed
<1>14. ConflictsAreReal'
  BY <1>13 DEF ConflictsAreReal
<1>. QED
  BY <1>6, <1>10, <1>11, <1>12, <1>14

LEMMA ExpireKeeps ==
  ASSUME IInv, NEW k \in Keys, Expire(k)
  PROVE  IInv'
  BY DEF IInv, TypeOK, Expire, Visible, RequestInv, ReplyInv, KeyInv, Claimed,
         CreatedMeansReturned, ConflictsAreReal

(* What a crash leaves: every row, every answer, every finished pipeline.  *)
LEMMA CrashKeeps ==
  ASSUME IInv, Crash
  PROVE  IInv'
<1>. USE DEF IInv
<1>1. ASSUME NEW r \in Requests
      PROVE  /\ req'[r].key = req[r].key /\ req'[r].body = req[r].body
             /\ req'[r].step = req[r].step \/ req'[r].step = "lost"
             /\ req'[r].step \in {"idle", "answered", "lost"}
             /\ req'[r].step = "idle" <=> req[r].step = "idle"
             /\ req'[r] \in [step : Steps, key : Keys \cup {NoKey},
                             body : Bodies \cup {Nobody}]
             /\ \/ pipeline'[r] = pipeline[r]
                \/ pipeline[r] = "running" /\ pipeline'[r] = "lost"
  <2>1. req[r] \in [step : Steps, key : Keys \cup {NoKey}, body : Bodies \cup {Nobody}]
    BY DEF TypeOK
  <2>2. req'[r] = IF req[r].step \in {"idle", "answered"} THEN req[r]
                  ELSE [req[r] EXCEPT !.step = "lost"]
    BY DEF Crash
  <2>3. pipeline'[r] = IF pipeline[r] = "running" THEN "lost" ELSE pipeline[r]
    BY DEF Crash
  <2>4. CASE req[r].step \in {"idle", "answered"}
    BY <2>1, <2>2, <2>3, <2>4
  <2>5. CASE req[r].step \notin {"idle", "answered"}
    <3>1. req'[r] = [step |-> "lost", key |-> req[r].key, body |-> req[r].body]
      BY <2>1, <2>2, <2>5
    <3>. QED
      BY <2>1, <2>3, <2>5, <3>1 DEF Steps
  <2>. QED
    BY <2>4, <2>5
<1>2. TypeOK'
  <2>1. req' = [r \in Requests |-> req'[r]] /\ pipeline' = [r \in Requests |-> pipeline'[r]]
    BY DEF Crash
  <2>. QED
    BY <1>1, <2>1 DEF TypeOK, Crash
<1>3. ASSUME NEW r \in Requests PROVE RequestInv(r)' /\ ReplyInv(r)'
  <2>1. RequestInv(r) /\ ReplyInv(r) /\ keys' = keys /\ reply' = reply
    BY DEF Crash
  <2>. QED
    BY <1>1, <2>1 DEF RequestInv, ReplyInv
<1>4. ASSUME NEW k \in Keys PROVE KeyInv(k)'
  <2>1. keys[k].answered => keys[k].owner \in Requests
    BY DEF TypeOK, KeyRow, NoRow
  <2>2. KeyInv(k) /\ keys' = keys /\ expired' = expired
    BY DEF Crash
  <2>. QED
    BY <1>1, <2>1, <2>2 DEF KeyInv, Claimed
<1>5. CreatedMeansReturned'
  BY <1>1 DEF CreatedMeansReturned, Crash
<1>6. ConflictsAreReal'
  BY <1>1 DEF ConflictsAreReal, Claimed, Crash
<1>. QED
  BY <1>2, <1>3, <1>4, <1>5, <1>6

LEMMA StutterKeeps == IInv /\ UNCHANGED vars => IInv'
  BY DEF vars, IInv, TypeOK, RequestInv, ReplyInv, KeyInv, Claimed,
         CreatedMeansReturned, ConflictsAreReal

LEMMA NextKeeps == IInv /\ [Next]_vars => IInv'
<1>. SUFFICES ASSUME IInv, [Next]_vars PROVE IInv'
  OBVIOUS
<1>1. ASSUME NEW r \in Requests, NEW k \in Keys \cup {NoKey}, NEW b \in Bodies,
             Arrive(r, k, b)
      PROVE  IInv'
  BY <1>1, ArriveKeeps
<1>2. ASSUME NEW r \in Requests, Handle(r) PROVE IInv'
  BY <1>2, FindKeeps, ClaimKeeps, LookupKeeps, PipelineEndKeeps, StoreKeeps DEF Handle
<1>3. ASSUME NEW k \in Keys, Expire(k) PROVE IInv'
  BY <1>3, ExpireKeeps
<1>4. CASE Crash
  BY <1>4, CrashKeeps
<1>5. CASE UNCHANGED vars
  BY <1>5, StutterKeeps
<1>. QED
  BY <1>1, <1>2, <1>3, <1>4, <1>5 DEF Next

-----------------------------------------------------------------------------
(* The theorems.                                                           *)

(* The inductive invariant holds in every state the handlers reach.        *)
THEOREM Invariance == Spec => []IInv
  BY InitIInv, NextKeeps, PTL DEF Spec

(* No two requests with one Idempotency-Key run a payment: of all handlers *)
(* that race through findByKey and tryInsert one calls pipeline.execute.   *)
THEOREM AtMostOnce == Spec => []OneExecutionPerKey
<1>1. IInv => OneExecutionPerKey
  BY DEF IInv, RequestInv, OneExecutionPerKey
<1>. QED
  BY <1>1, Invariance, PTL

(* No step takes a claim, an owner or an expiry back.                      *)
LEMMA ClaimsStay ==
  ASSUME IInv, [Next]_vars
  PROVE  /\ expired \subseteq expired'
         /\ \A k \in Keys : Claimed(k) => Claimed(k)' /\ keys'[k].owner = keys[k].owner
<1>t. TypeOK
  BY DEF IInv
<1>1. ASSUME NEW r \in Requests, Claim(r)
      PROVE  /\ UNCHANGED expired
             /\ UNCHANGED keys \/ (~Claimed(req[r].key) /\ Insert(req[r].key, r))
  BY <1>1 DEF Claim
<1>2. ASSUME NEW r \in Requests, ~Claimed(req[r].key), Insert(req[r].key, r),
             NEW k \in Keys, Claimed(k)
      PROVE  keys'[k] = keys[k]
  BY <1>t, <1>2 DEF Insert, TypeOK
<1>3. ASSUME NEW r \in Requests, Store(r)
      PROVE  /\ UNCHANGED expired
             /\ UNCHANGED keys \/ Record(req[r].key)
  BY <1>3 DEF Store
<1>4. ASSUME NEW l, Record(l), NEW k \in Keys, Claimed(k)
      PROVE  Claimed(k)' /\ keys'[k].owner = keys[k].owner
  <2>1. keys[k] \in KeyRow
    BY <1>t, <1>4, ClaimedRow
  <2>2. keys'[k] = keys[k] \/ keys'[k] = [keys[k] EXCEPT !.answered = TRUE]
    BY <1>t, <1>4 DEF Record, TypeOK
  <2>. QED
    BY <1>4, <2>1, <2>2 DEF Claimed, KeyRow, NoRow
<1>5. \/ UNCHANGED keys /\ expired \subseteq expired'
      \/ \E r \in Requests : Claim(r) \/ Store(r)
  BY DEF Next, vars, Arrive, Handle, Find, Lookup, PipelineReturns, PipelineThrows,
         Expire, Crash
<1>. QED
  BY <1>1, <1>2, <1>3, <1>4, <1>5 DEF Claimed

(* A 200 comes from Replay of a row, or from a Lookup that finds none.     *)
LEMMA RepliesStep ==
  ASSUME IInv, ReplayInv, [Next]_vars, NEW r \in Requests, reply'[r].code = 200
  PROVE  /\ req'[r].key \in Keys
         /\ Claimed(req[r].key)'
         /\ reply'[r].payment = Nobody => req'[r].key \in expired'
<1>t. TypeOK /\ RequestInv(r)
  BY DEF IInv
<1>c. ASSUME NEW k, k \in Keys, Claimed(k), req'[r].key = k
      PROVE  req'[r].key \in Keys /\ Claimed(req[r].key)'
  BY <1>c, ClaimsStay DEF Claimed
<1>1. CASE reply'[r] = reply[r] /\ req'[r].key = req[r].key
  <2>1. /\ req[r].key \in Keys /\ Claimed(req[r].key)
        /\ reply[r].payment = Nobody => req[r].key \in expired
    BY <1>1 DEF ReplayInv
  <2>. QED
    BY <1>c, <1>1, <2>1, ClaimsStay
<1>2. ASSUME reply'[r] # reply[r] \/ req'[r].key # req[r].key
      PROVE  Find(r) \/ Lookup(r)
  <2>1. ASSUME NEW q \in Requests, NEW k \in Keys \cup {NoKey}, NEW b \in Bodies,
               Arrive(q, k, b)
        PROVE  FALSE
    BY <1>2, <1>t, <2>1 DEF Arrive, RequestInv, Unanswered, TypeOK
  <2>2. ASSUME NEW q \in Requests, q # r, Handle(q)
        PROVE  FALSE
    <3>1. reply'[r] = reply[r] /\ req'[r] = req[r]
      BY <1>t, <2>2 DEF Handle, Find, Claim, Lookup, PipelineReturns, PipelineThrows,
            Store, Replay, Rejected, Answer, Goto, TypeOK
    <3>. QED
      BY <1>2, <3>1
  <2>3. CASE UNCHANGED vars \/ Crash \/ \E k \in Keys : Expire(k)
    BY <1>2, <1>t, <2>3 DEF vars, Crash, Expire, TypeOK
  <2>4. ASSUME Claim(r) \/ PipelineReturns(r) \/ PipelineThrows(r) \/ Store(r)
        PROVE  FALSE
    <3>1. \/ Answer(r, 500, Nobody) \/ Answer(r, 201, r)
          \/ \E step \in Steps : Goto(r, step)
      BY <2>4 DEF Claim, PipelineReturns, PipelineThrows, Store, Rejected, Steps
    <3>. QED
      BY <1>2, <1>t, <3>1 DEF Answer, Goto, TypeOK
  <2>. QED
    BY <2>1, <2>2, <2>3, <2>4 DEF Next, Handle
<1>3. ASSUME Find(r) \/ Lookup(r)
      PROVE  /\ req'[r].key = req[r].key /\ req[r].key \in Keys
             /\ Claimed(req[r].key)
             /\ reply'[r].payment = Nobody => req[r].key \in expired
  <2>1. req[r].key \in Keys
    BY <1>t, <1>3 DEF Find, Lookup, RequestInv, TypeOK
  <2>2. CASE Visible(req[r].key) /\ Replay(r, req[r].key)
    <3>1. Claimed(req[r].key) /\ keys[req[r].key].owner # Nobody
      BY <2>1, <2>2 DEF Visible, IInv, KeyInv
    <3>. QED
      BY <1>t, <2>1, <2>2, <3>1 DEF Replay, Answer, TypeOK
  <2>3. CASE Lookup(r) /\ ~Visible(req[r].key) /\ Answer(r, 200, Nobody)
    BY <1>t, <2>1, <2>3 DEF Lookup, RequestInv, Visible, Answer, TypeOK
  <2>4. CASE Goto(r, "claim") \/ Answer(r, 409, Nobody) \/ Answer(r, 500, Nobody)
    <3>1. Goto(r, "claim") /\ reply[r] = Unanswered
      BY <1>t, <1>3, <2>4 DEF Find, Lookup, RequestInv, Answer, TypeOK
    <3>. QED
      BY <3>1 DEF Goto, Unanswered
  <2>. QED
    BY <1>3, <2>2, <2>3, <2>4 DEF Find, Lookup, Rejected
<1>. QED
  BY <1>c, <1>1, <1>2, <1>3, ClaimsStay

(* Only a rejected tryInsert leaves a claim without a payment.             *)
LEMMA OwnersStart ==
  ASSUME IInv, ReplayInv, [Next]_vars, dbErrors' = 0, NEW k \in Keys, Claimed(k)'
  PROVE  pipeline'[keys'[k].owner] # "none"
<1>t. TypeOK
  BY DEF IInv
<1>1. dbErrors = 0 /\ \A r \in Requests : ~Rejected(r)
  BY <1>t DEF TypeOK, Next, vars, Arrive, Handle, Find, Claim, Lookup, PipelineReturns,
              PipelineThrows, Store, Expire, Crash, Rejected
<1>2. \A r \in Requests : pipeline[r] # "none" => pipeline'[r] # "none"
  BY <1>t DEF TypeOK, Next, vars, Arrive, Handle, Find, Claim, Lookup, PipelineReturns,
              PipelineThrows, Store, Expire, Crash
<1>3. CASE Claimed(k)
  <2>1. keys[k].owner \in Requests /\ pipeline[keys[k].owner] # "none"
    BY <1>1, <1>3, <1>t, ClaimedRow DEF ReplayInv, KeyRow
  <2>2. keys'[k].owner = keys[k].owner
    BY <1>3, ClaimsStay
  <2>. QED
    BY <1>2, <2>1, <2>2
<1>4. CASE ~Claimed(k)
  <2>1. keys'[k] # keys[k]
    BY <1>4 DEF Claimed
  <2>2. PICK r \in Requests : Claim(r) \/ Store(r)
    BY <2>1 DEF Next, vars, Arrive, Handle, Find, Lookup, PipelineReturns,
                PipelineThrows, Expire, Crash
  <2>3. ~Store(r)
    BY <1>1, <1>4, <1>t, <2>1 DEF Store, Record, IInv, RequestInv, TypeOK
  <2>4. /\ Insert(req[r].key, r) /\ req[r].key = k
        /\ pipeline' = [pipeline EXCEPT ![r] = "running"]
    BY <1>1, <1>t, <2>1, <2>2, <2>3 DEF Claim, Insert, TypeOK
  <2>. QED
    BY <1>t, <2>4 DEF Insert, TypeOK
<1>. QED
  BY <1>3, <1>4

(* A 201 of POST /payments is about a payment whose pipeline returned, a   *)
(* 409 about a key that another body has claimed, and a 200 about the      *)
(* payment that holds the key.                                             *)
THEOREM AnswersAreTrue == Spec => []RepliesAreTrue
<1>1. Init => ReplayInv
  BY DEF Init, ReplayInv, Unanswered, Claimed
<1>2. IInv /\ ReplayInv /\ [Next]_vars => ReplayInv'
  <2>1. ASSUME IInv, ReplayInv, [Next]_vars PROVE ReplayInv'
    <3>1. ASSUME NEW r \in Requests, reply'[r].code = 200
          PROVE  /\ req'[r].key \in Keys
                 /\ Claimed(req[r].key)'
                 /\ reply'[r].payment = Nobody => req'[r].key \in expired'
      BY <2>1, <3>1, RepliesStep
    <3>2. ASSUME dbErrors' = 0, NEW k \in Keys, Claimed(k)'
          PROVE  pipeline'[keys'[k].owner] # "none"
      BY <2>1, <3>2, OwnersStart
    <3>. QED
      BY <3>1, <3>2 DEF ReplayInv, Claimed
  <2>. QED
    BY <2>1
<1>3. IInv /\ ReplayInv => RepliesAreTrue
  <2>1. ASSUME IInv, ReplayInv PROVE ReplaysNameOwner
    <3>. SUFFICES ASSUME NEW r \in Requests, reply[r].code = 200
                  PROVE  LET k == req[r].key
                         IN  /\ k \in Keys /\ Claimed(k)
                             /\ IF reply[r].payment = Nobody
                                THEN k \in expired
                                ELSE /\ reply[r].payment = keys[k].owner
                                     /\ dbErrors = 0 => pipeline[keys[k].owner] # "none"
      BY DEF ReplaysNameOwner
    <3>1. req[r].key # NoKey
      BY <2>1, IdempotencyAssumption DEF ReplayInv
    <3>. QED
      BY <2>1, <3>1 DEF ReplayInv, IInv, ReplyInv
  <2>. QED
    BY <2>1 DEF IInv, RepliesAreTrue
<1>. QED
  BY <1>1, <1>2, <1>3, Invariance, PTL DEF Spec

-----------------------------------------------------------------------------
(* The handler implements KeyClaims.                                       *)

(* Nothing that KeyClaims sees has changed.                                *)
LEMMA Unseen ==
  ASSUME \A k \in Keys : /\ keys'[k].owner = keys[k].owner
                         /\ keys'[k].answered = keys[k].answered,
         \A r \in Requests, k \in Keys :
            /\ (req'[r].key = k /\ pipeline'[r] # "none")
                  <=> (req[r].key = k /\ pipeline[r] # "none")
            /\ (req'[r].key = k /\ reply'[r].payment # Nobody)
                  <=> (req[r].key = k /\ reply[r].payment # Nobody)
            /\ req[r].key = k /\ reply[r].payment # Nobody
                  => reply'[r].payment = reply[r].payment
  PROVE  UNCHANGED KeysClaimed!vars
<1>1. ASSUME NEW k \in Keys PROVE Started(k)' = Started(k)
  BY DEF Started
<1>2. ASSUME NEW k \in Keys PROVE Named(k)' = Named(k)
  <2>1. ASSUME NEW x PROVE x \in Named(k)' <=> x \in Named(k)
    <3>1. x \in Named(k)' <=> /\ x # Nobody
                              /\ \E r \in Requests : req'[r].key = k /\ x = reply'[r].payment
      BY DEF Named
    <3>2. x \in Named(k) <=> /\ x # Nobody
                             /\ \E r \in Requests : req[r].key = k /\ x = reply[r].payment
      BY DEF Named
    <3>. QED
      BY <3>1, <3>2
  <2>. QED
    BY <2>1
<1>3. [k \in Keys |-> keys[k].owner]' = [k \in Keys |-> keys[k].owner]
  OBVIOUS
<1>4. [k \in Keys |-> Started(k)]' = [k \in Keys |-> Started(k)]
  BY <1>1
<1>5. [k \in Keys |-> Named(k)]' = [k \in Keys |-> Named(k)]
  BY <1>2
<1>6. {k \in Keys : keys[k].answered}' = {k \in Keys : keys[k].answered}
  OBVIOUS
<1>. QED
  BY <1>3, <1>4, <1>5, <1>6 DEF KeysClaimed!vars

(* A client of key k is told of the payment that owns it.                  *)
LEMMA Told ==
  ASSUME TypeOK, \A s \in Requests : ReplyInv(s),
         NEW r \in Requests, NEW k \in Keys, req[r].key = k, NEW code,
         keys[k].owner \in Requests,
         Answer(r, code, keys[k].owner), UNCHANGED pipeline,
         \A l \in Keys : keys'[l].owner = keys[l].owner
  PROVE  /\ [l \in Keys |-> keys[l].owner]' = [l \in Keys |-> keys[l].owner]
         /\ [l \in Keys |-> Started(l)]' = [l \in Keys |-> Started(l)]
         /\ [l \in Keys |-> Named(l)]' = [[l \in Keys |-> Named(l)] EXCEPT ![k] = {keys[k].owner}]
<1>1. ASSUME NEW s \in Requests
      PROVE  /\ req'[s].key = req[s].key
             /\ reply'[s].payment = IF s = r THEN keys[k].owner ELSE reply[s].payment
  BY DEF Answer, TypeOK
<1>2. ASSUME NEW l \in Keys PROVE Started(l)' = Started(l)
  BY <1>1 DEF Started
<1>3. ASSUME NEW l \in Keys, l # k PROVE Named(l)' = Named(l)
  <2>1. ASSUME NEW s \in Requests, req[s].key = l
        PROVE  reply'[s].payment = reply[s].payment
    BY <1>1, <1>3, <2>1
  <2>. QED
    BY <1>1, <2>1 DEF Named
<1>4. Named(k)' = {keys[k].owner}
  <2>1. ASSUME NEW s \in Requests, req[s].key = k
        PROVE  reply'[s].payment \in {Nobody, keys[k].owner}
    BY <1>1, <2>1 DEF ReplyInv
  <2>2. reply'[r].payment = keys[k].owner /\ keys[k].owner # Nobody
    BY <1>1
  <2>3. ASSUME NEW x PROVE x \in Named(k)' <=> x = keys[k].owner
    <3>1. x \in Named(k)' <=> /\ x # Nobody
                              /\ \E s \in Requests : req'[s].key = k /\ x = reply'[s].payment
      BY DEF Named
    <3>. QED
      BY <1>1, <2>1, <2>2, <3>1
  <2>. QED
    BY <2>3
<1>. QED
  BY <1>2, <1>3, <1>4

LEMMA GotoUnseen ==
  ASSUME TypeOK, NEW r \in Requests, NEW step, Goto(r, step), UNCHANGED <<keys, pipeline>>
  PROVE  UNCHANGED KeysClaimed!vars
<1>1. \A s \in Requests : req'[s].key = req[s].key /\ reply'[s] = reply[s]
  BY DEF Goto, TypeOK
<1>. QED
  BY <1>1, Unseen

LEMMA UntoldUnseen ==
  ASSUME TypeOK, NEW r \in Requests, reply[r] = Unanswered, NEW code,
         Answer(r, code, Nobody), UNCHANGED <<keys, pipeline>>
  PROVE  UNCHANGED KeysClaimed!vars
<1>1. \A s \in Requests :
         req'[s].key = req[s].key /\ reply'[s].payment = reply[s].payment
  BY DEF Answer, TypeOK, Unanswered
<1>. QED
  BY <1>1, Unseen

(* findByKey of a key that is claimed and not expired.                     *)
LEMMA ReplayNames ==
  ASSUME IInv, NEW r \in Requests, req[r].step \in {"find", "lookup"},
         Visible(req[r].key), Replay(r, req[r].key), UNCHANGED <<keys, pipeline>>
  PROVE  KeysClaimed!Next
<1>1. PICK k \in Keys : k = req[r].key
  BY DEF IInv, TypeOK, RequestInv
<1>2. keys[k].owner \in Requests
  BY <1>1, ClaimedRow DEF IInv, Visible, KeyRow
<1>3. PICK code : Answer(r, code, keys[k].owner)
  BY <1>1 DEF Replay
<1>4. TypeOK /\ \A s \in Requests : ReplyInv(s)
  BY DEF IInv
<1>5. keys' = keys /\ pipeline' = pipeline
  OBVIOUS
<1>6. /\ [l \in Keys |-> keys[l].owner]' = [l \in Keys |-> keys[l].owner]
      /\ [l \in Keys |-> Started(l)]' = [l \in Keys |-> Started(l)]
      /\ [l \in Keys |-> Named(l)]' = [[l \in Keys |-> Named(l)] EXCEPT ![k] = {keys[k].owner}]
  BY <1>1, <1>2, <1>3, <1>4, <1>5, Told
<1>7. {l \in Keys : keys[l].answered}' = {l \in Keys : keys[l].answered}
  BY <1>5
<1>8. [l \in Keys |-> keys[l].owner][k] = keys[k].owner /\ keys[k].owner # Nobody
  BY <1>2
<1>. QED
  BY <1>6, <1>7, <1>8 DEF KeysClaimed!Next, KeysClaimed!Name

LEMMA FindSteps ==
  ASSUME IInv, NEW r \in Requests, Find(r)
  PROVE  KeysClaimed!Next \/ UNCHANGED KeysClaimed!vars
<1>1. reply[r] = Unanswered /\ TypeOK
  BY DEF IInv, RequestInv, Find
<1>2. CASE Visible(req[r].key) /\ Replay(r, req[r].key)
  BY <1>2, ReplayNames DEF Find
<1>3. CASE Goto(r, "claim")
  BY <1>1, <1>3, GotoUnseen DEF Find
<1>4. CASE Answer(r, 409, Nobody) \/ Rejected(r)
  BY <1>1, <1>4, UntoldUnseen DEF Find, Rejected
<1>. QED
  BY <1>2, <1>3, <1>4 DEF Find

LEMMA LookupSteps ==
  ASSUME IInv, NEW r \in Requests, Lookup(r)
  PROVE  KeysClaimed!Next \/ UNCHANGED KeysClaimed!vars
<1>1. reply[r] = Unanswered /\ TypeOK
  BY DEF IInv, RequestInv, Lookup
<1>2. CASE Visible(req[r].key) /\ Replay(r, req[r].key)
  BY <1>2, ReplayNames DEF Lookup
<1>3. CASE Answer(r, 200, Nobody) \/ Rejected(r)
  BY <1>1, <1>3, UntoldUnseen DEF Lookup, Rejected
<1>. QED
  BY <1>2, <1>3 DEF Lookup

(* INSERT ... ON CONFLICT DO NOTHING claims a free key or does nothing.    *)
LEMMA ClaimSteps ==
  ASSUME IInv, NEW r \in Requests, Claim(r)
  PROVE  KeysClaimed!Next \/ UNCHANGED KeysClaimed!vars
<1>1. PICK k \in Keys : k = req[r].key
  BY DEF IInv, TypeOK, RequestInv, Claim
<1>2. reply[r] = Unanswered /\ TypeOK /\ pipeline[r] = "none"
  BY DEF IInv, RequestInv, Claim
<1>3. CASE Goto(r, "lookup") /\ UNCHANGED <<keys, pipeline>>
  BY <1>2, <1>3, GotoUnseen
<1>4. CASE Rejected(r) /\ UNCHANGED <<keys, pipeline>>
  BY <1>2, <1>4, UntoldUnseen DEF Rejected
<1>5. CASE /\ ~Claimed(k) /\ Insert(k, r)
           /\ \/ Goto(r, "execute") /\ pipeline' = [pipeline EXCEPT ![r] = "running"]
              \/ Rejected(r) /\ UNCHANGED pipeline
  <2>1. ASSUME NEW s \in Requests
        PROVE  /\ req'[s].key = req[s].key /\ reply'[s].payment = reply[s].payment
               /\ s # r => pipeline'[s] = pipeline[s]
    BY <1>2, <1>5 DEF TypeOK, Goto, Rejected, Answer, Unanswered
  <2>2. keys[k].owner = Nobody
    BY <1>5 DEF Claimed, NoRow
  <2>3. keys'[k].owner = r /\ keys'[k].answered = FALSE /\ keys[k].answered = FALSE
    BY <1>5 DEF Insert, Claimed, NoRow, IInv, TypeOK
  <2>4. ASSUME NEW l \in Keys, l # k
        PROVE  keys'[l] = keys[l] /\ Started(l)' = Started(l)
    <3>1. keys'[l] = keys[l]
      BY <1>5, <2>4 DEF Insert, IInv, TypeOK
    <3>2. Started(l)' = Started(l)
      BY <1>1, <2>1, <2>4 DEF Started
    <3>. QED
      BY <3>1, <3>2
  <2>5. ASSUME NEW l \in Keys PROVE Named(l)' = Named(l)
    BY <2>1 DEF Named
  <2>6. Started(k) = {}
    BY <1>5, FreeKey DEF Started
  <2>7. Started(k)' = {} \/ Started(k)' = {r}
    <3>1. Started(k)' \subseteq {r}
      <4>1. ASSUME NEW s \in Requests, s # r PROVE s \notin Started(k)'
        BY <2>1, <2>6, <4>1 DEF Started
      <4>. QED
        BY <4>1 DEF Started
    <3>. QED
      BY <3>1
  <2>8. [l \in Keys |-> keys[l].owner]' = [[l \in Keys |-> keys[l].owner] EXCEPT ![k] = r]
    BY <2>3, <2>4
  <2>9. \/ [l \in Keys |-> Started(l)]' = [l \in Keys |-> Started(l)]
        \/ [l \in Keys |-> Started(l)]' = [[l \in Keys |-> Started(l)] EXCEPT ![k] = {r}]
    BY <2>4, <2>6, <2>7
  <2>10. [l \in Keys |-> Named(l)]' = [l \in Keys |-> Named(l)]
    BY <2>5
  <2>11. {l \in Keys : keys[l].answered}' = {l \in Keys : keys[l].answered}
    BY <2>3, <2>4
  <2>12. [l \in Keys |-> keys[l].owner][k] = Nobody
    BY <2>2
  <2>. QED
    BY <2>8, <2>9, <2>10, <2>11, <2>12 DEF KeysClaimed!Next, KeysClaimed!Claim
<1>. QED
  BY <1>1, <1>3, <1>4, <1>5 DEF Claim

(* updateResponse stores the answer, and the owner may be told.            *)
LEMMA StoreSteps ==
  ASSUME IInv, NEW r \in Requests, Store(r)
  PROVE  KeysClaimed!Next \/ UNCHANGED KeysClaimed!vars
<1>1. PICK k \in Keys : k = req[r].key
  BY DEF IInv, TypeOK, RequestInv, Store
<1>2. reply[r] = Unanswered /\ TypeOK /\ pipeline[r] = "returned" /\ keys[k].owner = r
  BY <1>1 DEF IInv, RequestInv, Store
<1>3. CASE Rejected(r) /\ UNCHANGED keys
  BY <1>2, <1>3, UntoldUnseen DEF Store, Rejected
<1>4. CASE Record(k)
  <2>1. ASSUME NEW l \in Keys
        PROVE  /\ keys'[l].owner = keys[l].owner
               /\ keys'[l].answered <=> keys[l].answered \/ l = k
    <3>1. CASE l # k
      BY <1>4, <2>1, <3>1 DEF Record, IInv, TypeOK
    <3>2. CASE l = k
      <4>1. keys[k] \in KeyRow
        BY <1>1, ClaimedRow DEF IInv, RequestInv, Store
      <4>2. keys'[k] = [keys[k] EXCEPT !.answered = TRUE]
        BY <1>4 DEF Record, IInv, TypeOK
      <4>. QED
        BY <3>2, <4>1, <4>2 DEF KeyRow
    <3>. QED
      BY <3>1, <3>2
  <2>2. {l \in Keys : keys[l].answered}' = {l \in Keys : keys[l].answered} \cup {k}
    BY <2>1
  <2>3. r \in Started(k) /\ [l \in Keys |-> Started(l)][k] = Started(k)
    BY <1>1, <1>2 DEF Started
  <2>4. KeysClaimed!Store(k)
    BY <2>2, <2>3 DEF KeysClaimed!Store
  <2>5. CASE Answer(r, 201, r)
    <3>1. pipeline' = pipeline /\ \A s \in Requests : ReplyInv(s)
      BY DEF Store, IInv
    <3>2. /\ [l \in Keys |-> keys[l].owner]' = [l \in Keys |-> keys[l].owner]
          /\ [l \in Keys |-> Started(l)]' = [l \in Keys |-> Started(l)]
          /\ [l \in Keys |-> Named(l)]'
                = [[l \in Keys |-> Named(l)] EXCEPT ![k] = {keys[k].owner}]
      <4>1. Answer(r, 201, keys[k].owner) /\ keys[k].owner \in Requests /\ req[r].key = k
        BY <1>1, <1>2, <2>5
      <4>2. \A l \in Keys : keys'[l].owner = keys[l].owner
        BY <2>1
      <4>. QED
        BY <1>2, <3>1, <4>1, <4>2, Told
    <3>3. [l \in Keys |-> keys[l].owner][k] = keys[k].owner /\ keys[k].owner # Nobody
      BY <1>2
    <3>. QED
      BY <2>4, <3>2, <3>3 DEF KeysClaimed!Next, KeysClaimed!Name
  <2>6. CASE Rejected(r)
    <3>1. ASSUME NEW s \in Requests
          PROVE  req'[s].key = req[s].key /\ reply'[s].payment = reply[s].payment
      BY <1>2, <2>6 DEF Rejected, Answer, TypeOK, Unanswered
    <3>2. ASSUME NEW l \in Keys PROVE Started(l)' = Started(l) /\ Named(l)' = Named(l)
      BY <3>1 DEF Started, Named, Store
    <3>3. /\ [l \in Keys |-> keys[l].owner]' = [l \in Keys |-> keys[l].owner]
          /\ [l \in Keys |-> Started(l)]' = [l \in Keys |-> Started(l)]
          /\ [l \in Keys |-> Named(l)]' = [l \in Keys |-> Named(l)]
      BY <2>1, <3>2
    <3>. QED
      BY <2>4, <3>3 DEF KeysClaimed!Next
  <2>. QED
    BY <2>5, <2>6 DEF Store
<1>. QED
  BY <1>1, <1>3, <1>4 DEF Store

LEMMA OthersUnseen ==
  ASSUME IInv,
         \/ \E r \in Requests, k \in Keys \cup {NoKey}, b \in Bodies : Arrive(r, k, b)
         \/ \E r \in Requests : PipelineReturns(r) \/ PipelineThrows(r)
         \/ \E k \in Keys : Expire(k)
         \/ Crash
  PROVE  UNCHANGED KeysClaimed!vars
<1>1. ASSUME NEW r \in Requests, NEW k \in Keys \cup {NoKey}, NEW b \in Bodies,
             Arrive(r, k, b)
      PROVE  UNCHANGED KeysClaimed!vars
  <2>1. /\ reply[r] = Unanswered /\ pipeline[r] = "none" /\ req[r].key = NoKey
        /\ k = NoKey => req'[r].key = NoKey
        /\ k # NoKey => pipeline'[r] = "none"
        /\ UNCHANGED <<keys, reply>>
        /\ \A s \in Requests : s # r => req'[s] = req[s] /\ pipeline'[s] = pipeline[s]
    BY <1>1 DEF IInv, TypeOK, RequestInv, Arrive
  <2>. QED
    BY <2>1, Unseen DEF Unanswered
<1>2. ASSUME NEW r \in Requests, PipelineReturns(r) \/ PipelineThrows(r)
      PROVE  UNCHANGED KeysClaimed!vars
  <2>1. /\ reply[r] = Unanswered /\ pipeline[r] = "running"
        /\ req'[r].key = req[r].key /\ pipeline'[r] # "none"
        /\ req[r].key # NoKey => reply'[r].payment = Nobody
        /\ UNCHANGED keys
    BY <1>2 DEF IInv, TypeOK, RequestInv, PipelineReturns, PipelineThrows, Goto,
                Answer, Unanswered
  <2>2. ASSUME NEW s \in Requests, s # r
        PROVE  req'[s] = req[s] /\ reply'[s] = reply[s] /\ pipeline'[s] = pipeline[s]
    BY <1>2, <2>2 DEF IInv, TypeOK, PipelineReturns, PipelineThrows, Goto, Answer
  <2>. QED
    BY <2>1, <2>2, Unseen DEF Unanswered
<1>3. ASSUME NEW k \in Keys, Expire(k) PROVE UNCHANGED KeysClaimed!vars
  BY <1>3, Unseen DEF Expire
<1>4. CASE Crash
  <2>1. ASSUME NEW s \in Requests
        PROVE  /\ req'[s].key = req[s].key
               /\ pipeline'[s] = "none" <=> pipeline[s] = "none"
    BY <1>4 DEF IInv, TypeOK, Crash
  <2>. QED
    BY <1>4, <2>1, Unseen DEF Crash
<1>. QED
  BY <1>1, <1>2, <1>3, <1>4

(* Refinement: through every race of findByKey and tryInsert, through      *)
(* expiry, rejected database calls and crashes, the handler of             *)
(* POST /payments does nothing that KeyClaims does not allow.              *)
THEOREM ClaimOnce == Spec => ClaimsAreFinal
<1>1. Init => KeysClaimed!Init
  <2>1. Init => \A k \in Keys : Started(k) = {} /\ Named(k) = {}
    BY DEF Init, Started, Named, Unanswered
  <2>. QED
    BY <2>1 DEF Init, NoRow, KeysClaimed!Init
<1>2. ASSUME IInv, [Next]_vars PROVE [KeysClaimed!Next]_(KeysClaimed!vars)
  <2>1. CASE UNCHANGED vars
    BY <2>1, Unseen DEF vars
  <2>2. ASSUME NEW r \in Requests, Handle(r)
        PROVE  KeysClaimed!Next \/ UNCHANGED KeysClaimed!vars
    BY <1>2, <2>2, FindSteps, LookupSteps, ClaimSteps, StoreSteps, OthersUnseen DEF Handle
  <2>. QED
    BY <1>2, <2>1, <2>2, OthersUnseen DEF Next
<1>. QED
  BY <1>1, <1>2, Invariance, PTL DEF Spec, ClaimsAreFinal, KeysClaimed!Spec

-----------------------------------------------------------------------------
(* A key is answered, or what has become of its owner explains why not.    *)

(* What a key waits for is left alone by a step of another request.        *)
LEMMA StillExplained ==
  ASSUME IInv, NEW k \in Keys, Claimed(k), Explained(k), NEW r \in Requests,
         keys[k].owner # r, keys'[k] = keys[k],
         \A s \in Requests : s # r => req'[s] = req[s] /\ reply'[s] = reply[s]
  PROVE  Explained(k)'
<1>1. keys[k].owner \in Requests
  BY ClaimedRow DEF IInv, KeyRow
<1>. QED
  BY <1>1 DEF Explained

(* The owner of a key is past the steps that come before its pipeline.     *)
LEMMA OwnerIsPast ==
  ASSUME IInv, OwnerInv, NEW k \in Keys, Claimed(k)
  PROVE  /\ keys[k].owner \in Requests
         /\ req[keys[k].owner].step \in {"execute", "store", "lost", "answered"}
<1>1. keys[k].owner \in Requests
  BY ClaimedRow DEF IInv, KeyRow
<1>2. Explained(k)
  BY DEF OwnerInv
<1>3. CASE keys[k].answered
  <2>1. pipeline[keys[k].owner] = "returned"
    BY <1>3 DEF IInv, KeyInv
  <2>2. req[keys[k].owner].step \in Steps \ {"idle", "find", "claim", "lookup"}
    BY <1>1, <2>1 DEF IInv, RequestInv, TypeOK
  <2>. QED
    BY <1>1, <2>2 DEF Steps
<1>4. CASE ~keys[k].answered
  BY <1>1, <1>2, <1>4 DEF Explained
<1>. QED
  BY <1>1, <1>3, <1>4

LEMMA OwnerStep ==
  ASSUME IInv, OwnerInv, [Next]_vars
  PROVE  OwnerInv'
<1>1. SUFFICES ASSUME NEW k \in Keys, Claimed(k)'
               PROVE  Explained(k)'
  BY DEF OwnerInv
<1>t. TypeOK /\ k # NoKey
  BY DEF IInv
<1>2. Claimed(k) => Explained(k)
  BY DEF OwnerInv
<1>3. ASSUME NEW r \in Requests, req[r].step \in {"idle", "find", "claim", "lookup"},
             keys'[k] = keys[k],
             \A s \in Requests : s # r => req'[s] = req[s] /\ reply'[s] = reply[s]
      PROVE  Explained(k)'
  <2>1. Claimed(k) /\ keys[k].owner # r
    BY <1>1, <1>3, OwnerIsPast DEF Claimed
  <2>. QED
    BY <1>2, <1>3, <2>1, StillExplained
<1>4. ASSUME NEW r \in Requests, NEW l \in Keys \cup {NoKey}, NEW b \in Bodies,
             Arrive(r, l, b)
      PROVE  Explained(k)'
  BY <1>3, <1>4, <1>t DEF Arrive, TypeOK
<1>5. ASSUME NEW r \in Requests, Find(r) \/ Lookup(r)
      PROVE  Explained(k)'
  BY <1>3, <1>5, <1>t DEF Find, Lookup, Rejected, Replay, Answer, Goto, TypeOK
<1>6. ASSUME NEW r \in Requests, Claim(r)
      PROVE  Explained(k)'
  <2>1. /\ req[r].step = "claim"
        /\ \A s \in Requests : s # r => req'[s] = req[s] /\ reply'[s] = reply[s]
    BY <1>6, <1>t DEF Claim, Rejected, Answer, Goto, TypeOK
  <2>2. CASE keys'[k] = keys[k]
    BY <1>3, <2>1, <2>2
  <2>3. CASE keys'[k] # keys[k]
    <3>1. Insert(req[r].key, r) /\ (Goto(r, "execute") \/ Rejected(r))
      BY <1>6, <2>3 DEF Claim
    <3>2. req[r].key = k /\ keys'[k].owner = r
      BY <1>t, <2>3, <3>1 DEF Insert, TypeOK
    <3>3. /\ req'[r].key = k
          /\ \/ req'[r].step = "execute"
             \/ req'[r].step = "answered" /\ reply'[r].code = 500
      BY <1>t, <3>1, <3>2 DEF Goto, Rejected, Answer, TypeOK
    <3>. QED
      BY <3>2, <3>3 DEF Explained
  <2>. QED
    BY <2>2, <2>3
<1>7. ASSUME NEW r \in Requests, PipelineReturns(r) \/ PipelineThrows(r)
      PROVE  Explained(k)'
  <2>1. /\ UNCHANGED keys
        /\ \A s \in Requests : s # r => req'[s] = req[s] /\ reply'[s] = reply[s]
    BY <1>7, <1>t DEF PipelineReturns, PipelineThrows, Answer, Goto, TypeOK
  <2>2. Claimed(k) /\ Explained(k)
    BY <1>1, <1>2, <2>1 DEF Claimed
  <2>3. CASE keys[k].owner = r
    <3>1. req[r].key = k
      BY <2>2, <2>3 DEF Explained
    <3>2. /\ req'[r].key = k
          /\ \/ req'[r].step = "store"
             \/ req'[r].step = "answered" /\ reply'[r].code = 500
      BY <1>7, <1>t, <3>1 DEF PipelineReturns, PipelineThrows, Answer, Goto, TypeOK
    <3>. QED
      BY <2>1, <2>3, <3>2 DEF Explained
  <2>4. CASE keys[k].owner # r
    BY <2>1, <2>2, <2>4, StillExplained
  <2>. QED
    BY <2>3, <2>4
<1>8. ASSUME NEW r \in Requests, Store(r)
      PROVE  Explained(k)'
  <2>1. /\ req[r].key \in Keys /\ Claimed(req[r].key) /\ keys[req[r].key].owner = r
        /\ req'[r].key = req[r].key
        /\ \A s \in Requests : s # r => req'[s] = req[s] /\ reply'[s] = reply[s]
    BY <1>8, <1>t DEF Store, Rejected, Answer, TypeOK, IInv, RequestInv
  <2>2. CASE req[r].key = k
    <3>1. keys[k] \in KeyRow /\ keys[k].owner = r
      BY <1>t, <2>1, <2>2, ClaimedRow
    <3>2. \/ keys'[k] = [keys[k] EXCEPT !.answered = TRUE]
          \/ keys' = keys /\ Rejected(r)
      BY <1>8, <1>t, <2>2 DEF Store, Record, TypeOK
    <3>3. CASE keys'[k] = [keys[k] EXCEPT !.answered = TRUE]
      BY <2>1, <2>2, <3>1, <3>3 DEF Explained, KeyRow
    <3>4. CASE keys' = keys /\ Rejected(r)
      BY <1>t, <2>1, <2>2, <3>1, <3>4 DEF Explained, Rejected, Answer, TypeOK
    <3>. QED
      BY <3>2, <3>3, <3>4
  <2>3. CASE req[r].key # k
    <3>1. keys'[k] = keys[k]
      BY <1>8, <1>t, <2>3 DEF Store, Record, TypeOK
    <3>2. Claimed(k) /\ Explained(k) /\ keys[k].owner # r
      BY <1>1, <1>2, <2>3, <3>1 DEF Claimed, Explained
    <3>. QED
      BY <2>1, <3>1, <3>2, StillExplained
  <2>. QED
    BY <2>2, <2>3
<1>9. CASE Crash
  <2>1. Claimed(k) /\ Explained(k) /\ keys' = keys /\ reply' = reply
    BY <1>1, <1>2, <1>9 DEF Crash, Claimed
  <2>2. keys[k].owner \in Requests
    BY <2>1, OwnerIsPast
  <2>3. /\ req'[keys[k].owner].key = req[keys[k].owner].key
        /\ req'[keys[k].owner].step =
               IF req[keys[k].owner].step \in {"idle", "answered"}
               THEN req[keys[k].owner].step ELSE "lost"
    BY <1>9, <1>t, <2>2 DEF Crash, TypeOK
  <2>. QED
    BY <2>1, <2>3 DEF Explained
<1>10. CASE UNCHANGED vars \/ \E l \in Keys : Expire(l)
  <2>1. UNCHANGED <<keys, req, reply>>
    BY <1>10 DEF vars, Expire
  <2>. QED
    BY <1>1, <1>2, <2>1 DEF Explained, Claimed
<1>. QED
  BY <1>4, <1>5, <1>6, <1>7, <1>8, <1>9, <1>10 DEF Next, Handle

(* A key stays without an answer only while its owner is at work, or with  *)
(* an owner whose client was told of a failure or that has died: no client *)
(* is told 201 before the answer of its key is stored (payments.ts:73-76). *)
THEOREM UnansweredExplained == Spec => []UnansweredKeysExplained
<1>1. Init => OwnerInv
  BY DEF Init, OwnerInv, Claimed
<1>2. IInv /\ OwnerInv /\ [Next]_vars => OwnerInv'
  BY OwnerStep
<1>3. OwnerInv => UnansweredKeysExplained
  BY DEF OwnerInv, Explained, UnansweredKeysExplained
<1>. QED
  BY <1>1, <1>2, <1>3, Invariance, PTL DEF Spec
=============================================================================

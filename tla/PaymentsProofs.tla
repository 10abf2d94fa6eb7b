--------------------------- MODULE PaymentsProofs ---------------------------
(***************************************************************************)
(* Proofs about Payments for every set of payments, rails, callers and ACK *)
(* messages and every number of database errors and crashes.               *)
(***************************************************************************)
EXTENDS PaymentsProperties, TLAPS

-----------------------------------------------------------------------------
(* The UPDATE statements keep rows well-typed.                             *)

LEMMA RowTypes ==
    ASSUME NEW r \in Row
    PROVE  /\ NoRow \in Row
           /\ InsertPayment \in Row
           /\ \A s \in Status : UpdateStatus(r, s) \in Row
           /\ UpdateCanonical(r) \in Row
           /\ \A d \in Rails : UpdateRoute(r, d) \in Row
           /\ UpdateTranslated(r) \in Row
           /\ \A v \in Verdict : UpdateRailAck(r, v) \in Row
BY DEF Row, NoRow, InsertPayment, UpdateStatus, UpdateCanonical, UpdateRoute,
       UpdateTranslated, UpdateRailAck, FinalStatus, Status, Intermediate,
       Compensable, StatusStamps, Stamps, Verdict
-----------------------------------------------------------------------------
(* What each write adds to the history of a payment.                       *)

LEMMA FactsMembers ==
    ASSUME NEW r, NEW a, NEW w, NEW k, NEW d, NEW x
    PROVE  x \in FactsOf(r, a, w, k, d) <=>
              \/ x \in r.at
              \/ x \in a /\ x # "DEAD_LETTER"
              \/ x = "DEAD_LETTER_LOGGED" /\ "DEAD_LETTER" \in a
              \/ x = "RECEIVED" /\ r.status # "ABSENT"
              \/ x = "TRANSLATED" /\ r.translated
              \/ x = "PUBLISHED" /\ w # "none"
              \/ x = "RAIL_ACCEPTED" /\ RailSaid(k, "ACCEPTED")
              \/ x = "RAIL_REJECTED" /\ RailSaid(k, "REJECTED")
              \/ x = "RAIL_ERRED" /\ RailSaid(k, "ERROR")
              \/ x = "RAIL_GAVE_UP" /\ d # "none"
BY DEF FactsOf, FactIf

EventFact(e) == IF e = "DEAD_LETTER" THEN "DEAD_LETTER_LOGGED" ELSE e

LEMMA LogAdds ==
    ASSUME NEW r, NEW a, NEW w, NEW k, NEW d, NEW e
    PROVE  FactsOf(r, a \cup {e}, w, k, d)
              = FactsOf(r, a, w, k, d) \cup {EventFact(e)}
BY FactsMembers DEF EventFact

LEMMA InsertAdds ==
    ASSUME NEW a, NEW w, NEW k, NEW d
    PROVE  FactsOf(InsertPayment, a, w, k, d)
              = FactsOf(NoRow, a, w, k, d) \cup {"RECEIVED"}
<1>1. /\ InsertPayment.status = "RECEIVED"
      /\ InsertPayment.at = NoRow.at
      /\ InsertPayment.translated = NoRow.translated
      /\ NoRow.status = "ABSENT"
  BY DEF InsertPayment, NoRow
<1>2. QED
  BY <1>1, FactsMembers

LEMMA StatusAdds ==
    ASSUME NEW r \in Row, NEW s \in Status, NEW a, NEW w, NEW k, NEW d
    PROVE  FactsOf(UpdateStatus(r, s), a, w, k, d)
              = FactsOf(r, a, w, k, d) \cup {"RECEIVED"}
                                      \cup ({s} \cap StatusStamps)
<1>1. /\ UpdateStatus(r, s).status # "ABSENT"
      /\ UpdateStatus(r, s).at = r.at \cup ({s} \cap StatusStamps)
      /\ UpdateStatus(r, s).translated = r.translated
  BY DEF UpdateStatus, Row, Status, Intermediate, Compensable
<1>2. QED
  BY <1>1, FactsMembers

LEMMA CanonicalAdds ==
    ASSUME NEW r \in Row, NEW a, NEW w, NEW k, NEW d
    PROVE  FactsOf(UpdateCanonical(r), a, w, k, d)
              = FactsOf(r, a, w, k, d) \cup {"RECEIVED", "CANONICALIZED"}
<1>1. /\ UpdateCanonical(r).status # "ABSENT"
      /\ UpdateCanonical(r).at = r.at \cup {"CANONICALIZED"}
      /\ UpdateCanonical(r).translated = r.translated
  BY DEF UpdateCanonical, Row
<1>2. QED
  BY <1>1, FactsMembers

LEMMA RouteAdds ==
    ASSUME NEW r \in Row, NEW g \in Rails, NEW a, NEW w, NEW k, NEW d
    PROVE  FactsOf(UpdateRoute(r, g), a, w, k, d)
              = FactsOf(r, a, w, k, d) \cup {"RECEIVED", "ROUTED"}
<1>1. /\ UpdateRoute(r, g).status # "ABSENT"
      /\ UpdateRoute(r, g).at = r.at \cup {"ROUTED"}
      /\ UpdateRoute(r, g).translated = r.translated
  BY DEF UpdateRoute, Row
<1>2. QED
  BY <1>1, FactsMembers

LEMMA TranslatedAdds ==
    ASSUME NEW r \in Row, NEW a, NEW w, NEW k, NEW d
    PROVE  FactsOf(UpdateTranslated(r), a, w, k, d)
              = FactsOf(r, a, w, k, d) \cup {"TRANSLATED"}
<1>1. /\ UpdateTranslated(r).status = r.status
      /\ UpdateTranslated(r).at = r.at
      /\ UpdateTranslated(r).translated = TRUE
  BY DEF UpdateTranslated, Row
<1>2. QED
  BY <1>1, FactsMembers

LEMMA AckAdds ==
    ASSUME NEW r \in Row, NEW v \in Verdict, NEW a, NEW w, NEW k, NEW d
    PROVE  FactsOf(UpdateRailAck(r, v), a, w, k, d)
              = FactsOf(r, a, w, k, d)
                \cup {"RECEIVED", "ACKED"}
                \cup FactIf("COMPLETED", v = "ACCEPTED")
<1>1. /\ UpdateRailAck(r, v).status # "ABSENT"
      /\ UpdateRailAck(r, v).at
            = r.at \cup {"ACKED"} \cup FactIf("COMPLETED", v = "ACCEPTED")
      /\ UpdateRailAck(r, v).translated = r.translated
  BY DEF UpdateRailAck, FinalStatus, FactIf, Row, Verdict
<1>2. QED
  BY <1>1, FactsMembers
-----------------------------------------------------------------------------
(* Type correctness, one action at a time.                                 *)

LEMMA WriteTypes ==
    ASSUME TypeOK, NEW p \in Payments, NEW r \in Row,
           NEW a \in SUBSET AuditEvent,
           Write(p, r, a) \/ UNCHANGED dbVars
    PROVE  row' \in [Payments -> Row] /\ audit' \in [Payments -> SUBSET AuditEvent]
BY DEF TypeOK, Write, dbVars

LEMMA RejectedTypes ==
    ASSUME TypeOK, Rejected \/ UNCHANGED dbErrors
    PROVE  dbErrors' \in 0..MaxDbErrors
BY PaymentsAssumption DEF TypeOK, Rejected

LEMMA RowAndTrail ==
    ASSUME TypeOK, NEW p \in Payments
    PROVE  /\ row[p] \in Row
           /\ audit[p] \in SUBSET AuditEvent
           /\ \A e \in AuditEvent : Logged(p, e) \in SUBSET AuditEvent
BY DEF TypeOK, Logged

LEMMA GotoTypes ==
    ASSUME TypeOK, NEW p \in Payments, NEW step \in Running \cup Ended,
           Goto(p, step)
    PROVE  pc' \in [Payments -> Running \cup Ended \cup {"idle"}]
BY DEF Goto, TypeOK

LEMMA StepTypes ==
    ASSUME TypeOK, NEW p \in Payments, NEW here, NEW r \in Row,
           NEW a \in SUBSET AuditEvent, NEW next \in Running,
           Step(p, here, r, a, next)
    PROVE  TypeOK'
<1>1. /\ row' \in [Payments -> Row]
      /\ audit' \in [Payments -> SUBSET AuditEvent]
      /\ dbErrors' \in 0..MaxDbErrors
  BY WriteTypes, RejectedTypes DEF Step, Await
<1>2. pc' \in [Payments -> Running \cup Ended \cup {"idle"}]
  BY DEF Step, Await, Goto, TypeOK, Running
<1>3. QED
  BY <1>1, <1>2 DEF Step, TypeOK, railVars, compVars, noteVars
LEMMA LogStepTypes ==
    ASSUME TypeOK, NEW p \in Payments, NEW here, NEW e \in AuditEvent,
           NEW next \in Running, LogStep(p, here, e, next)
    PROVE  TypeOK'
BY RowAndTrail, StepTypes DEF LogStep

LEMMA PipelineTypes ==
    ASSUME TypeOK, NEW p \in Payments,
           RefuseAlias(p) \/ Create(p) \/ Pipeline(p)
    PROVE  TypeOK'
<1>. /\ row[p] \in Row
     /\ audit[p] \in SUBSET AuditEvent
     /\ \A e \in AuditEvent : Logged(p, e) \in SUBSET AuditEvent
  BY RowAndTrail
<1>1. CASE RefuseAlias(p) \/ Throw(p)
  <2>1. pc' \in [Payments -> Running \cup Ended \cup {"idle"}]
    BY <1>1, GotoTypes DEF RefuseAlias, Throw, Running, Ended
  <2>2. QED
    BY <1>1, <2>1 DEF RefuseAlias, Throw, TypeOK, dbVars, railVars, compVars,
                      noteVars
<1>2. CASE Create(p)
  BY <1>2, RowTypes, StepTypes DEF Create, Running
<1>3. CASE AuditReceived(p) \/ AuditValidated(p) \/ AuditCanonical(p)
             \/ Normalize(p) \/ AuditRouted(p)
  BY <1>3, LogStepTypes
     DEF AuditReceived, AuditValidated, AuditCanonical, Normalize, AuditRouted,
         AuditEvent, Running
<1>4. CASE Validate(p) \/ Queue(p)
  <2>1. {"VALIDATED", "QUEUED"} \subseteq Status
    BY DEF Status, Intermediate
  <2>2. QED
    BY <1>4, <2>1, RowTypes, StepTypes DEF Validate, Queue, Running
<1>5. CASE Canonicalize(p) \/ Translate(p)
  BY <1>5, RowTypes, StepTypes DEF Canonicalize, Translate, Running
<1>6. CASE Route(p)
  BY <1>6, RowTypes, StepTypes DEF Route, Running
<1>7. CASE Publish(p)
  BY <1>7 DEF Publish, Goto, TypeOK, Running, dbVars, compVars, noteVars
<1>8. CASE AuditQueued(p)
  <2>1. /\ row' \in [Payments -> Row]
        /\ audit' \in [Payments -> SUBSET AuditEvent]
        /\ dbErrors' \in 0..MaxDbErrors
    BY <1>8, WriteTypes, RejectedTypes DEF AuditQueued, Await, AuditEvent
  <2>2. /\ pc' \in [Payments -> Running \cup Ended \cup {"idle"}]
        /\ shown' \in [Payments -> Status \cup {"none"}]
    <3>1. {"done", "mark_failed"} \subseteq Running \cup Ended
      BY DEF Running, Ended
    <3>2. pc' \in [Payments -> Running \cup Ended \cup {"idle"}]
      BY <1>8, <3>1, GotoTypes DEF AuditQueued, Await
    <3>3. shown' \in [Payments -> Status \cup {"none"}]
      BY <1>8 DEF AuditQueued, Await, TypeOK, Status
    <3>4. QED
      BY <3>2, <3>3
  <2>3. QED
    BY <1>8, <2>1, <2>2 DEF AuditQueued, TypeOK, railVars, compVars
<1>9. CASE MarkFailed(p) \/ AuditError(p)
  <2>1. UpdateStatus(row[p], "FAILED") \in Row
    BY RowTypes DEF Status, Compensable
  <2>2. /\ row' \in [Payments -> Row]
        /\ audit' \in [Payments -> SUBSET AuditEvent]
        /\ dbErrors' \in 0..MaxDbErrors
    BY <1>9, <2>1, WriteTypes, RejectedTypes
       DEF MarkFailed, AuditError, Await, AuditEvent
  <2>3. pc' \in [Payments -> Running \cup Ended \cup {"idle"}]
    <3>1. {"failed", "audit_error"} \subseteq Running \cup Ended
      BY DEF Running, Ended
    <3>2. QED
      BY <1>9, <3>1, GotoTypes DEF MarkFailed, AuditError, Await
  <2>4. QED
    BY <1>9, <2>2, <2>3
       DEF MarkFailed, AuditError, TypeOK, railVars, compVars, noteVars
<1>10. QED
  BY <1>1, <1>2, <1>3, <1>4, <1>5, <1>6, <1>7, <1>8, <1>9 DEF Pipeline

LEMMA RailTypes ==
    ASSUME TypeOK, NEW p \in Payments, Flush(p) \/ Rail(p)
    PROVE  TypeOK'
<1>1. CASE Flush(p)
  BY <1>1 DEF Flush, TypeOK, dbVars, compVars, noteVars
<1>2. ASSUME NEW n \in AckIds, NEW v \in Verdict \cup {"MALFORMED"},
             RailAnswers(p, n, v)
      PROVE  TypeOK'
  <2>1. acks' \in [Payments -> [AckIds -> [stage : AckStage,
                                  verdict : Verdict \cup {"MALFORMED"}]]]
    BY <1>2 DEF RailAnswers, TypeOK, AckStage
  <2>2. wire' \in [Payments -> {"none", "buffered", "queued", "gone", "lost"}]
    BY <1>2 DEF RailAnswers, TypeOK
  <2>3. QED
    BY <1>2, <2>1, <2>2 DEF RailAnswers, TypeOK, dbVars, compVars, noteVars
<1>3. CASE RailRetries(p)
  BY <1>3, PaymentsAssumption
     DEF RailRetries, TypeOK, dbVars, compVars, noteVars
<1>4. CASE RailGivesUp(p)
  BY <1>4 DEF RailGivesUp, TypeOK, dbVars, compVars, noteVars
<1>5. QED
  BY <1>1, <1>2, <1>3, <1>4 DEF Rail

LEMMA AckGoesTypes ==
    ASSUME TypeOK, NEW p \in Payments, NEW n \in AckIds, NEW st \in AckStage,
           AckGoes(p, n, st)
    PROVE  acks' \in [Payments -> [AckIds -> [stage : AckStage,
                                    verdict : Verdict \cup {"MALFORMED"}]]]
<1>. DEFINE Ack == [stage : AckStage, verdict : Verdict \cup {"MALFORMED"}]
<1>1. acks \in [Payments -> [AckIds -> Ack]]
  BY DEF TypeOK
<1>2. [acks[p][n] EXCEPT !.stage = st] \in Ack
  BY <1>1
<1>3. acks' = [acks EXCEPT ![p] = [acks[p] EXCEPT
                                     ![n] = [acks[p][n] EXCEPT !.stage = st]]]
  BY DEF AckGoes
<1>. HIDE DEF Ack
<1>4. acks' \in [Payments -> [AckIds -> Ack]]
  BY <1>1, <1>2, <1>3
<1>5. QED
  BY <1>4 DEF Ack

LEMMA AckTypes ==
    ASSUME TypeOK, NEW p \in Payments, AckConsumer(p)
    PROVE  TypeOK'
<1>. /\ row[p] \in Row
     /\ audit[p] \in SUBSET AuditEvent
     /\ \A e \in AuditEvent : Logged(p, e) \in SUBSET AuditEvent
  BY RowAndTrail
<1>. {"updated", "acked", "dropped"} \subseteq AckStage
  BY DEF AckStage
<1>1. PICK n \in AckIds : AckDiscard(p, n) \/ AckUpdate(p, n) \/ AckAudit(p, n)
  BY DEF AckConsumer
<1>2. CASE AckDiscard(p, n)
  BY <1>2, AckGoesTypes
     DEF AckDiscard, TypeOK, dbVars, railVars, compVars, noteVars
<1>3. CASE AckUpdate(p, n)
  <2>1. UpdateRailAck(row[p], acks[p][n].verdict) \in Row
    BY <1>3, RowTypes DEF AckUpdate
  <2>2. /\ row' \in [Payments -> Row]
        /\ audit' \in [Payments -> SUBSET AuditEvent]
        /\ dbErrors' \in 0..MaxDbErrors
    BY <1>3, <2>1, WriteTypes, RejectedTypes DEF AckUpdate, Await
  <2>3. acks' \in [Payments -> [AckIds -> [stage : AckStage,
                                  verdict : Verdict \cup {"MALFORMED"}]]]
    BY <1>3, AckGoesTypes DEF AckUpdate, Await
  <2>4. QED
    BY <1>3, <2>2, <2>3 DEF AckUpdate, TypeOK, railVars, compVars, noteVars
<1>4. CASE AckAudit(p, n)
  <2>1. FinalStatus(acks[p][n].verdict) \in Status
    BY DEF FinalStatus, Status, Compensable
  <2>2. /\ row' \in [Payments -> Row]
        /\ audit' \in [Payments -> SUBSET AuditEvent]
        /\ dbErrors' \in 0..MaxDbErrors
    BY <1>4, WriteTypes, RejectedTypes DEF AckAudit, Await, AuditEvent
  <2>3. acks' \in [Payments -> [AckIds -> [stage : AckStage,
                                  verdict : Verdict \cup {"MALFORMED"}]]]
    BY <1>4, AckGoesTypes DEF AckAudit, Await
  <2>4. /\ shown' \in [Payments -> Status \cup {"none"}]
        /\ fired' \in [Payments -> SUBSET Status]
    <3>. DEFINE final == FinalStatus(acks[p][n].verdict)
    <3>1. \/ shown' = [shown EXCEPT ![p] = final]
             /\ fired' = [fired EXCEPT ![p] = @ \cup {final}]
          \/ UNCHANGED noteVars
      BY <1>4 DEF AckAudit, Await
    <3>. HIDE DEF final
    <3>2. final \in Status
      BY <2>1 DEF final
    <3>3. /\ shown \in [Payments -> Status \cup {"none"}]
          /\ fired \in [Payments -> SUBSET Status]
      BY DEF TypeOK
    <3>4. CASE UNCHANGED noteVars
      BY <3>3, <3>4 DEF noteVars
    <3>5. CASE /\ shown' = [shown EXCEPT ![p] = final]
               /\ fired' = [fired EXCEPT ![p] = @ \cup {final}]
      BY <3>2, <3>3, <3>5
    <3>6. QED
      BY <3>1, <3>4, <3>5
  <2>5. QED
    BY <1>4, <2>2, <2>3, <2>4 DEF AckAudit, TypeOK, railVars, compVars
<1>5. QED
  BY <1>1, <1>2, <1>3, <1>4

LEMMA DlqTypes ==
    ASSUME TypeOK, NEW p \in Payments, DlqHandler(p)
    PROVE  TypeOK'
<1>1. UpdateStatus(row[p], "DEAD_LETTER") \in Row
  BY RowAndTrail, RowTypes DEF Status, Compensable
<1>2. /\ row' \in [Payments -> Row]
      /\ audit' \in [Payments -> SUBSET AuditEvent]
      /\ dbErrors' \in 0..MaxDbErrors
  BY <1>1, RowAndTrail, WriteTypes, RejectedTypes
     DEF DlqHandler, DlqMark, DlqAudit, Await, AuditEvent
<1>3. dlq' \in [Payments -> {"none", "queued", "marked", "gone"}]
  BY DEF DlqHandler, DlqMark, DlqAudit, Await, DlqGoes, TypeOK
<1>4. QED
  BY <1>2, <1>3
     DEF DlqHandler, DlqMark, DlqAudit, TypeOK, railVars, compVars, noteVars

LEMMA CompGoesTypes ==
    ASSUME TypeOK, NEW c \in Callers, NEW step \in CompStep,
           CompGoes(c, step) \/ CompReturns(c) \/ CompThrows(c)
    PROVE  /\ comp' \in [Callers -> [step    : CompStep,
                                     payment : Payments \cup {NoPayment},
                                     acked   : BOOLEAN]]
           /\ todo' \in [Callers -> SUBSET Payments]
<1>. DEFINE Call == [step : CompStep, payment : Payments \cup {NoPayment},
                     acked : BOOLEAN]
<1>1. comp \in [Callers -> Call] /\ todo \in [Callers -> SUBSET Payments]
  BY DEF TypeOK
<1>2. NoCall \in Call /\ [comp[c] EXCEPT !.step = step] \in Call
  BY <1>1 DEF NoCall, CompStep
<1>3. \/ comp' = [comp EXCEPT ![c] = [comp[c] EXCEPT !.step = step]]
      \/ comp' = [comp EXCEPT ![c] = NoCall]
  BY DEF CompGoes, CompReturns, CompThrows
<1>4. todo' = todo \/ todo' = [todo EXCEPT ![c] = {}]
  BY DEF CompGoes, CompReturns, CompThrows
<1>. HIDE DEF Call
<1>5. comp' \in [Callers -> Call]
  BY <1>1, <1>2, <1>3
<1>6. QED
  BY <1>1, <1>4, <1>5 DEF Call

(* A call in progress works on a payment (part of CompInv).                *)
CallsName ==
    \A c \in Callers : comp[c].step # "idle" => comp[c].payment \in Payments

LEMMA CompTypes ==
    ASSUME TypeOK, CallsName, NEW c \in Callers,
           \/ CompensateBatch(c)
           \/ Compensate(c)
           \/ \E p \in Payments : Find(c, p)
    PROVE  TypeOK'
<1>1. CASE CompensateBatch(c)
  BY <1>1 DEF CompensateBatch, TypeOK, dbVars, railVars, noteVars
<1>2. CASE Compensate(c)
  <2>. DEFINE p == comp[c].payment
  <2>1. p \in Payments
    BY <1>2 DEF CallsName, Compensate, Start, AuditStarted, AuditReversal,
                Complete, AuditCompleted, AuditFailed, CompCall
  <2>2. /\ row[p] \in Row
        /\ audit[p] \in SUBSET AuditEvent
        /\ \A e \in AuditEvent : Logged(p, e) \in SUBSET AuditEvent
        /\ UpdateStatus(row[p], "COMPENSATING") \in Row
        /\ UpdateStatus(row[p], "COMPENSATED") \in Row
    BY <2>1, RowAndTrail, RowTypes DEF Status
  <2>3. /\ row' \in [Payments -> Row]
        /\ audit' \in [Payments -> SUBSET AuditEvent]
        /\ dbErrors' \in 0..MaxDbErrors
    BY <1>2, <2>1, <2>2, WriteTypes, RejectedTypes
       DEF Compensate, Start, AuditStarted, AuditReversal, Complete,
           AuditCompleted, AuditFailed, CompCall, Await, AuditEvent
  <2>4. /\ comp' \in [Callers -> [step    : CompStep,
                                  payment : Payments \cup {NoPayment},
                                  acked   : BOOLEAN]]
        /\ todo' \in [Callers -> SUBSET Payments]
    BY <1>2, CompGoesTypes
       DEF Compensate, Start, AuditStarted, AuditReversal, Complete,
           AuditCompleted, AuditFailed, CompCall, Await, CompStep
  <2>5. UNCHANGED <<pc, railVars, acks, dlq, noteVars, crashes>>
    BY <1>2 DEF Compensate, Start, AuditStarted, AuditReversal, Complete,
                AuditCompleted, AuditFailed, CompCall
  <2>6. QED
    BY <2>3, <2>4, <2>5 DEF TypeOK, railVars, noteVars
<1>3. ASSUME NEW p \in Payments, Find(c, p)
      PROVE  TypeOK'
  <2>. DEFINE Call == [step : CompStep, payment : Payments \cup {NoPayment},
                       acked : BOOLEAN]
  <2>1. [step |-> "start", payment |-> p, acked |-> row[p].ack # "none"] \in Call
    BY DEF CompStep
  <2>2. NoCall \in Call
    BY DEF NoCall, CompStep
  <2>. HIDE DEF Call
  <2>3. comp \in [Callers -> Call] /\ todo \in [Callers -> SUBSET Payments]
    BY DEF TypeOK, Call
  <2>4. comp' \in [Callers -> Call] /\ todo' \in [Callers -> SUBSET Payments]
    BY <1>3, <2>1, <2>2, <2>3 DEF Find, CompThrows
  <2>5. dbErrors' \in 0..MaxDbErrors
    BY <1>3, RejectedTypes DEF Find
  <2>6. QED
    BY <1>3, <2>4, <2>5 DEF Find, TypeOK, Call, dbVars, railVars, noteVars
<1>4. QED
  BY <1>1, <1>2, <1>3

LEMMA CrashTypes ==
    ASSUME TypeOK, Crash
    PROVE  TypeOK'
<1>1. crashes' \in 0..MaxCrashes
  BY PaymentsAssumption DEF Crash, TypeOK
<1>2. pc' \in [Payments -> Running \cup Ended \cup {"idle"}]
  BY DEF Crash, TypeOK, Ended
<1>3. /\ wire' \in [Payments -> {"none", "buffered", "queued", "gone", "lost"}]
      /\ dlq' \in [Payments -> {"none", "queued", "marked", "gone"}]
  BY DEF Crash, TypeOK
<1>4. acks' \in [Payments -> [AckIds -> [stage : AckStage,
                                verdict : Verdict \cup {"MALFORMED"}]]]
  <2>. DEFINE Ack == [stage : AckStage, verdict : Verdict \cup {"MALFORMED"}]
              Redelivered(k) == IF k.stage = "updated"
                                THEN [k EXCEPT !.stage = "queued"] ELSE k
  <2>1. acks \in [Payments -> [AckIds -> Ack]]
    BY DEF TypeOK
  <2>2. \A k \in Ack : Redelivered(k) \in Ack
    BY DEF AckStage
  <2>3. acks' = [p \in Payments |->
                   [n \in AckIds |-> Redelivered(acks[p][n])]]
    BY DEF Crash
  <2>. HIDE DEF Ack, Redelivered
  <2>4. acks' \in [Payments -> [AckIds -> Ack]]
    BY <2>1, <2>2, <2>3
  <2>5. QED
    BY <2>4 DEF Ack
<1>5. /\ comp' \in [Callers -> [step    : CompStep,
                                payment : Payments \cup {NoPayment},
                                acked   : BOOLEAN]]
      /\ todo' \in [Callers -> SUBSET Payments]
  BY DEF Crash, NoCall, CompStep
<1>6. QED
  BY <1>1, <1>2, <1>3, <1>4, <1>5 DEF Crash, TypeOK, dbVars, noteVars

-----------------------------------------------------------------------------
(* The inductive step.  Histories only grow, so what a handler knows stays *)
(* true while others work; it is enough to look at the payment a step is   *)
(* about.                                                                  *)

OnlyAt(p) ==
    \A q \in Payments :
        q # p => /\ row'[q] = row[q] /\ audit'[q] = audit[q]
                 /\ wire'[q] = wire[q] /\ acks'[q] = acks[q]
                 /\ dlq'[q] = dlq[q] /\ pc'[q] = pc[q]

PaymentInv(p) ==
    /\ Ledger!CausallyClosed(Facts(p))
    /\ PipelineInv(p)
    /\ RowInv(p)
    /\ ConsumerInv(p)

LEMMA Elsewhere ==
    ASSUME NEW p \in Payments, NEW q \in Payments, q # p, OnlyAt(p),
           PaymentInv(q)
    PROVE  Facts(q)' = Facts(q) /\ PaymentInv(q)'
<1>1. /\ row'[q] = row[q] /\ audit'[q] = audit[q]
      /\ wire'[q] = wire[q] /\ acks'[q] = acks[q]
      /\ dlq'[q] = dlq[q] /\ pc'[q] = pc[q]
  BY DEF OnlyAt
<1>2. Facts(q)' = Facts(q)
  BY <1>1 DEF Facts
<1>3. QED
  BY <1>1, <1>2 DEF PaymentInv, PipelineInv, RowInv, ConsumerInv

LEMMA CompKept ==
    ASSUME \A q \in Payments : Facts(q) \subseteq Facts(q)',
           NEW c \in Callers, CompInv(c), comp'[c] = comp[c]
    PROVE  CompInv(c)'
BY DEF CompInv, StartedWith, HasFailed

(* A step of the refinement: at most one payment's history changes, and it *)
(* only grows.                                                             *)
HistoryGrows ==
    \/ \A p \in Payments : Facts(p)' = Facts(p)
    \/ \E p \in Payments :
          /\ Facts(p) \subseteq Facts(p)'
          /\ \A q \in Payments : q # p => Facts(q)' = Facts(q)

SoundStep == IInv' /\ HistoryGrows

LEMMA OneStep ==
    ASSUME IInv, TypeOK', NEW p \in Payments, OnlyAt(p), comp' = comp,
           Facts(p) \subseteq Facts(p)', PaymentInv(p)'
    PROVE  SoundStep
<1>1. \A q \in Payments : PaymentInv(q)
  BY DEF IInv, CausalOrder, PaymentInv
<1>2. \A q \in Payments : Facts(q) \subseteq Facts(q)' /\ PaymentInv(q)'
  BY <1>1, Elsewhere
<1>3. \A c \in Callers : CompInv(c)'
  BY <1>2, CompKept DEF IInv
<1>4. HistoryGrows
  BY <1>1, Elsewhere DEF HistoryGrows
<1>5. QED
  BY <1>2, <1>3, <1>4 DEF SoundStep, IInv, CausalOrder, PaymentInv

(* The history of p if its row were r and its audit trail a.               *)
With(p, r, a) == FactsOf(r, a, wire[p], acks[p], dlq[p])

(* A write that adds facts with their causes, and leaves a row the other   *)
(* handlers can trust.                                                     *)
SoundWrite(p, r, a) ==
    /\ Facts(p) \subseteq With(p, r, a)
    /\ Ledger!CausallyClosed(With(p, r, a))
    /\ r.status \in Compensable => HasFailed(With(p, r, a))
    /\ r.ack # "none" => "ACKED" \in With(p, r, a)

(* A database call of the pipeline: it goes on to next, or gives up.       *)
PipelineCall(p, r, a, next) ==
    /\ UNCHANGED <<wire, acks, dlq, comp>>
    /\ \E step \in {next, "mark_failed", "failed"} :
          /\ pc' = [pc EXCEPT ![p] = step]
          /\ \/ Write(p, r, a)
             \/ UNCHANGED dbVars /\ step \in {"mark_failed", "failed"}

LEMMA CallInv ==
    ASSUME IInv, TypeOK', NEW p \in Payments, NEW r, NEW a, NEW next,
           PipelineCall(p, r, a, next), SoundWrite(p, r, a),
           KnownAt(next, With(p, r, a))
    PROVE  SoundStep
<1>1. PICK step \in {next, "mark_failed", "failed"} :
          /\ pc' = [pc EXCEPT ![p] = step]
          /\ \/ Write(p, r, a)
             \/ UNCHANGED dbVars /\ step \in {"mark_failed", "failed"}
  BY DEF PipelineCall
<1>. UNCHANGED <<wire, acks, dlq, comp>>
  BY DEF PipelineCall
<1>2. /\ pc \in [Payments -> Running \cup Ended \cup {"idle"}]
      /\ row \in [Payments -> Row] /\ audit \in [Payments -> SUBSET AuditEvent]
  BY DEF IInv, TypeOK
<1>3. OnlyAt(p)
  BY <1>1, <1>2 DEF OnlyAt, Write, dbVars
<1>4. PaymentInv(p)
  BY DEF IInv, CausalOrder, PaymentInv
<1>5. /\ \A n \in AckIds :
            /\ acks[p][n].stage = "none" => acks[p][n].verdict = "MALFORMED"
            /\ acks[p][n].stage = "updated" => "ACKED" \in Facts(p)
      /\ dlq[p] = "marked" => "DEAD_LETTER" \in Facts(p)
  BY <1>4 DEF PaymentInv, ConsumerInv
<1>6. CASE Write(p, r, a)
  <2>1. row'[p] = r /\ audit'[p] = a
    BY <1>2, <1>6 DEF Write
  <2>2. Facts(p)' = With(p, r, a)
    BY <1>1, <2>1 DEF Facts, With
  <2>3. KnownAt(pc'[p], With(p, r, a))
    BY <1>1, <1>2 DEF KnownAt
  <2>4. PaymentInv(p)'
    BY <1>1, <1>5, <2>1, <2>2, <2>3
       DEF PaymentInv, PipelineInv, RowInv, ConsumerInv, SoundWrite
  <2>5. QED
    BY <1>1, <1>3, <2>2, <2>4, OneStep DEF SoundWrite
<1>7. CASE UNCHANGED dbVars /\ step \in {"mark_failed", "failed"}
  <2>1. Facts(p)' = Facts(p)
    BY <1>1, <1>7 DEF Facts, dbVars
  <2>2. KnownAt(pc'[p], Facts(p))
    BY <1>1, <1>2, <1>7 DEF KnownAt
  <2>3. PaymentInv(p)'
    BY <1>1, <1>4, <1>7, <2>1, <2>2
       DEF PaymentInv, PipelineInv, RowInv, ConsumerInv, dbVars
  <2>4. QED
    BY <1>1, <1>3, <2>1, <2>3, OneStep
<1>8. QED
  BY <1>1, <1>6, <1>7

LEMMA SoundLog ==
    ASSUME IInv, NEW p \in Payments, NEW e,
           Ledger!CausallyClosed(Facts(p) \cup {EventFact(e)})
    PROVE  /\ SoundWrite(p, row[p], Logged(p, e))
           /\ With(p, row[p], Logged(p, e)) = Facts(p) \cup {EventFact(e)}
<1>1. With(p, row[p], Logged(p, e)) = Facts(p) \cup {EventFact(e)}
  BY LogAdds DEF With, Logged, Facts
<1>2. RowInv(p)
  BY DEF IInv
<1>3. QED
  BY <1>1, <1>2 DEF SoundWrite, RowInv, HasFailed

LEMMA SoundUpdate ==
    ASSUME NEW p \in Payments, NEW r, NEW N,
           With(p, r, audit[p]) = Facts(p) \cup N,
           Ledger!CausallyClosed(Facts(p) \cup N),
           r.status \in Compensable => HasFailed(Facts(p) \cup N),
           r.ack # "none" => "ACKED" \in Facts(p) \cup N
    PROVE  SoundWrite(p, r, audit[p])
BY DEF SoundWrite

LEMMA PipelineLogs ==
    ASSUME IInv, TypeOK', NEW p \in Payments,
           \/ AuditReceived(p) \/ AuditValidated(p) \/ AuditCanonical(p)
           \/ Normalize(p) \/ AuditRouted(p) \/ AuditQueued(p) \/ AuditError(p)
    PROVE  SoundStep
<1>. DEFINE F == Facts(p)
<1>1. Ledger!CausallyClosed(F) /\ KnownAt(pc[p], F)
  BY DEF IInv, CausalOrder, PipelineInv
<1>2. ASSUME NEW e, NEW next, e # "DEAD_LETTER",
             PipelineCall(p, row[p], Logged(p, e), next),
             Ledger!CausallyClosed(F \cup {e}), KnownAt(next, F \cup {e})
      PROVE  SoundStep
  <2>1. EventFact(e) = e
    BY <1>2 DEF EventFact
  <2>2. QED
    BY <1>2, <2>1, SoundLog, CallInv
<1>3. CASE AuditReceived(p)
  <2>1. PipelineCall(p, row[p], Logged(p, "PAYMENT_RECEIVED"), "validate")
    BY <1>3 DEF AuditReceived, LogStep, Step, Await, Goto, PipelineCall,
                railVars, compVars
  <2>2. Ledger!CausallyClosed(F \cup {"PAYMENT_RECEIVED"})
    BY <1>1, <1>3 DEF AuditReceived, LogStep, Step, KnownAt, Ledger!CausallyClosed
  <2>3. KnownAt("validate", F \cup {"PAYMENT_RECEIVED"})
    BY DEF KnownAt
  <2>4. QED
    BY <1>2, <2>1, <2>2, <2>3
<1>4. CASE AuditValidated(p)
  <2>1. PipelineCall(p, row[p], Logged(p, "PAYMENT_VALIDATED"), "canonicalize")
    BY <1>4 DEF AuditValidated, LogStep, Step, Await, Goto, PipelineCall,
                railVars, compVars
  <2>2. Ledger!CausallyClosed(F \cup {"PAYMENT_VALIDATED"})
    BY <1>1, <1>4 DEF AuditValidated, LogStep, Step, KnownAt, Ledger!CausallyClosed
  <2>3. KnownAt("canonicalize", F \cup {"PAYMENT_VALIDATED"})
    BY DEF KnownAt
  <2>4. QED
    BY <1>2, <2>1, <2>2, <2>3
<1>5. CASE AuditCanonical(p)
  <2>1. PipelineCall(p, row[p], Logged(p, "CANONICAL_UPDATED"), "normalize")
    BY <1>5 DEF AuditCanonical, LogStep, Step, Await, Goto, PipelineCall,
                railVars, compVars
  <2>2. Ledger!CausallyClosed(F \cup {"CANONICAL_UPDATED"})
    BY <1>1, <1>5 DEF AuditCanonical, LogStep, Step, KnownAt, Ledger!CausallyClosed
  <2>3. KnownAt("normalize", F \cup {"CANONICAL_UPDATED"})
    BY DEF KnownAt
  <2>4. QED
    BY <1>2, <2>1, <2>2, <2>3
<1>6. CASE Normalize(p)
  <2>1. PipelineCall(p, row[p], Logged(p, "NORMALIZATION_COMPLETE"), "route")
    BY <1>6 DEF Normalize, LogStep, Step, Await, Goto, PipelineCall,
                railVars, compVars
  <2>2. Ledger!CausallyClosed(F \cup {"NORMALIZATION_COMPLETE"})
    BY <1>1, <1>6 DEF Normalize, LogStep, Step, KnownAt, Ledger!CausallyClosed
  <2>3. KnownAt("route", F \cup {"NORMALIZATION_COMPLETE"})
    BY DEF KnownAt
  <2>4. QED
    BY <1>2, <2>1, <2>2, <2>3
<1>7. CASE AuditRouted(p)
  <2>1. PipelineCall(p, row[p], Logged(p, "ROUTING_DECISION"), "translate")
    BY <1>7 DEF AuditRouted, LogStep, Step, Await, Goto, PipelineCall,
                railVars, compVars
  <2>2. Ledger!CausallyClosed(F \cup {"ROUTING_DECISION"})
    BY <1>1, <1>7 DEF AuditRouted, LogStep, Step, KnownAt, Ledger!CausallyClosed
  <2>3. KnownAt("translate", F \cup {"ROUTING_DECISION"})
    BY DEF KnownAt
  <2>4. QED
    BY <1>2, <2>1, <2>2, <2>3
<1>8. CASE AuditQueued(p)
  <2>1. PipelineCall(p, row[p], Logged(p, "STATUS_CHANGE"), "done")
    BY <1>8 DEF AuditQueued, Await, Goto, PipelineCall,
                railVars, compVars
  <2>2. Ledger!CausallyClosed(F \cup {"STATUS_CHANGE"})
    BY <1>1, <1>8 DEF AuditQueued, KnownAt, Ledger!CausallyClosed
  <2>3. KnownAt("done", F \cup {"STATUS_CHANGE"})
    BY DEF KnownAt
  <2>4. QED
    BY <1>2, <2>1, <2>2, <2>3
<1>9. CASE AuditError(p)
  <2>1. PipelineCall(p, row[p], Logged(p, "PIPELINE_ERROR"), "failed")
    BY <1>9 DEF AuditError, Await, Goto, PipelineCall,
                railVars, compVars
  <2>2. Ledger!CausallyClosed(F \cup {"PIPELINE_ERROR"})
    BY <1>1, <1>9 DEF AuditError, KnownAt, Ledger!CausallyClosed
  <2>3. KnownAt("failed", F \cup {"PIPELINE_ERROR"})
    BY DEF KnownAt
  <2>4. QED
    BY <1>2, <2>1, <2>2, <2>3
<1>10. QED
  BY <1>3, <1>4, <1>5, <1>6, <1>7, <1>8, <1>9
LEMMA PipelineUpdates ==
    ASSUME IInv, TypeOK', NEW p \in Payments,
           \/ Create(p) \/ Validate(p) \/ Canonicalize(p) \/ Route(p)
           \/ Translate(p) \/ Queue(p) \/ MarkFailed(p)
    PROVE  SoundStep
<1>. DEFINE F == Facts(p)
<1>1. /\ Ledger!CausallyClosed(F) /\ KnownAt(pc[p], F) /\ RowInv(p)
      /\ row[p] \in Row
  BY RowAndTrail DEF IInv, CausalOrder, PipelineInv
<1>2. ASSUME NEW r, NEW N, NEW next, r.ack = row[p].ack,
             PipelineCall(p, r, audit[p], next),
             With(p, r, audit[p]) = F \cup N,
             Ledger!CausallyClosed(F \cup N), KnownAt(next, F \cup N),
             r.status \in Compensable => HasFailed(F \cup N)
      PROVE  SoundStep
  <2>1. SoundWrite(p, r, audit[p])
    BY <1>1, <1>2, SoundUpdate DEF RowInv
  <2>2. QED
    BY <1>2, <2>1, CallInv
<1>3. ASSUME NEW s \in Status, NEW here, NEW next,
             Step(p, here, UpdateStatus(row[p], s), audit[p], next)
      PROVE  /\ PipelineCall(p, UpdateStatus(row[p], s), audit[p], next)
             /\ UpdateStatus(row[p], s).ack = row[p].ack
             /\ UpdateStatus(row[p], s).status = s
             /\ With(p, UpdateStatus(row[p], s), audit[p])
                   = F \cup ({"RECEIVED"} \cup ({s} \cap StatusStamps))
  <2>1. PipelineCall(p, UpdateStatus(row[p], s), audit[p], next)
    BY <1>3 DEF Step, Await, Goto, PipelineCall, railVars, compVars
  <2>2. /\ UpdateStatus(row[p], s).ack = row[p].ack
        /\ UpdateStatus(row[p], s).status = s
    BY <1>1 DEF UpdateStatus, Row
  <2>3. With(p, UpdateStatus(row[p], s), audit[p])
           = F \cup ({"RECEIVED"} \cup ({s} \cap StatusStamps))
    BY <1>1, StatusAdds DEF With, Facts
  <2>4. QED
    BY <2>1, <2>2, <2>3
<1>4. CASE Create(p)
  <2>1. F = {} /\ pc[p] = "idle"
    BY <1>1, <1>4 DEF Create, Step, KnownAt
  <2>2. /\ ~(row[p].status # "ABSENT") /\ row[p].at = {} /\ row[p].translated = FALSE
        /\ row[p].ack = "none"
    <3>1. row[p].ack # "none" => "ACKED" \in F
      BY <1>1 DEF RowInv
    <3>2. /\ row[p].status # "ABSENT" => "RECEIVED" \in F
          /\ row[p].at \subseteq F
          /\ row[p].translated => "TRANSLATED" \in F
      BY FactsMembers DEF Facts
    <3>3. QED
      BY <1>1, <2>1, <3>1, <3>2 DEF Row
  <2>3. /\ InsertPayment.status = "RECEIVED" /\ InsertPayment.at = {}
        /\ InsertPayment.translated = FALSE /\ InsertPayment.ack = "none"
    BY DEF InsertPayment, NoRow
  <2>4. With(p, InsertPayment, audit[p]) = F \cup {"RECEIVED"}
    BY <2>2, <2>3, FactsMembers DEF With, Facts
  <2>5. PipelineCall(p, InsertPayment, audit[p], "audit_received")
    BY <1>4 DEF Create, Step, Await, Goto, PipelineCall, railVars, compVars
  <2>6. /\ Ledger!CausallyClosed(F \cup {"RECEIVED"})
        /\ KnownAt("audit_received", F \cup {"RECEIVED"})
        /\ InsertPayment.status \notin Compensable
    BY <2>1, <2>3 DEF KnownAt, Ledger!CausallyClosed, Compensable
  <2>7. QED
    BY <1>2, <2>2, <2>3, <2>4, <2>5, <2>6
<1>5. CASE Validate(p)
  <2>. DEFINE N == {"RECEIVED", "VALIDATED"}
  <2>1. /\ PipelineCall(p, UpdateStatus(row[p], "VALIDATED"), audit[p],
                        "audit_validated")
        /\ UpdateStatus(row[p], "VALIDATED").ack = row[p].ack
        /\ UpdateStatus(row[p], "VALIDATED").status \notin Compensable
        /\ With(p, UpdateStatus(row[p], "VALIDATED"), audit[p]) = F \cup N
    <3>1. /\ "VALIDATED" \in Status \ Compensable
          /\ N = {"RECEIVED"} \cup ({"VALIDATED"} \cap StatusStamps)
      BY DEF Status, Intermediate, Compensable, StatusStamps
    <3>2. QED
      BY <1>3, <1>5, <3>1 DEF Validate
  <2>2. /\ Ledger!CausallyClosed(F \cup N)
        /\ KnownAt("audit_validated", F \cup N)
    BY <1>1, <1>5 DEF Validate, Step, KnownAt, Ledger!CausallyClosed
  <2>3. QED
    BY <1>2, <2>1, <2>2
<1>6. CASE Queue(p)
  <2>. DEFINE N == {"RECEIVED", "QUEUED"}
  <2>1. /\ PipelineCall(p, UpdateStatus(row[p], "QUEUED"), audit[p],
                        "audit_queued")
        /\ UpdateStatus(row[p], "QUEUED").ack = row[p].ack
        /\ UpdateStatus(row[p], "QUEUED").status \notin Compensable
        /\ With(p, UpdateStatus(row[p], "QUEUED"), audit[p]) = F \cup N
    <3>1. /\ "QUEUED" \in Status \ Compensable
          /\ N = {"RECEIVED"} \cup ({"QUEUED"} \cap StatusStamps)
      BY DEF Status, Intermediate, Compensable, StatusStamps
    <3>2. QED
      BY <1>3, <1>6, <3>1 DEF Queue
  <2>2. /\ Ledger!CausallyClosed(F \cup N)
        /\ KnownAt("audit_queued", F \cup N)
    BY <1>1, <1>6 DEF Queue, Step, KnownAt, Ledger!CausallyClosed
  <2>3. QED
    BY <1>2, <2>1, <2>2
<1>7. CASE Canonicalize(p)
  <2>. DEFINE N == {"RECEIVED", "CANONICALIZED"}
              r == UpdateCanonical(row[p])
  <2>1. /\ PipelineCall(p, r, audit[p], "audit_canonical")
        /\ r.ack = row[p].ack
        /\ r.status \notin Compensable
    BY <1>1, <1>7 DEF Canonicalize, Step, Await, Goto, PipelineCall, railVars,
                      compVars, UpdateCanonical, Row, Compensable
  <2>2. With(p, r, audit[p]) = F \cup N
    BY <1>1, CanonicalAdds DEF With, Facts
  <2>3. /\ Ledger!CausallyClosed(F \cup N)
        /\ KnownAt("audit_canonical", F \cup N)
    BY <1>1, <1>7 DEF Canonicalize, Step, KnownAt, Ledger!CausallyClosed
  <2>. HIDE DEF r
  <2>4. QED
    BY <1>2, <2>1, <2>2, <2>3
<1>8. CASE Route(p)
  <2>1. PICK d \in Rails : Step(p, "route", UpdateRoute(row[p], d), audit[p],
                                "audit_routed")
    BY <1>8 DEF Route
  <2>. DEFINE N == {"RECEIVED", "ROUTED"}
              r == UpdateRoute(row[p], d)
  <2>2. /\ PipelineCall(p, r, audit[p], "audit_routed")
        /\ r.ack = row[p].ack
        /\ r.status \notin Compensable
    BY <1>1, <2>1 DEF Step, Await, Goto, PipelineCall, railVars,
                      compVars, UpdateRoute, Row, Compensable
  <2>3. With(p, r, audit[p]) = F \cup N
    BY <1>1, RouteAdds DEF With, Facts
  <2>4. /\ Ledger!CausallyClosed(F \cup N)
        /\ KnownAt("audit_routed", F \cup N)
    BY <1>1, <2>1 DEF Step, KnownAt, Ledger!CausallyClosed
  <2>. HIDE DEF r
  <2>5. QED
    BY <1>2, <2>2, <2>3, <2>4
<1>9. CASE Translate(p)
  <2>. DEFINE N == {"TRANSLATED"}
              r == UpdateTranslated(row[p])
  <2>1. /\ PipelineCall(p, r, audit[p], "publish")
        /\ r.ack = row[p].ack
        /\ r.status = row[p].status
    BY <1>1, <1>9 DEF Translate, Step, Await, Goto, PipelineCall, railVars,
                      compVars, UpdateTranslated, Row
  <2>2. With(p, r, audit[p]) = F \cup N
    BY <1>1, TranslatedAdds DEF With, Facts
  <2>3. /\ Ledger!CausallyClosed(F \cup N)
        /\ KnownAt("publish", F \cup N)
    BY <1>1, <1>9 DEF Translate, Step, KnownAt, Ledger!CausallyClosed
  <2>4. r.status \in Compensable => HasFailed(F \cup N)
    BY <1>1, <2>1 DEF RowInv, HasFailed
  <2>. HIDE DEF r
  <2>5. QED
    BY <1>2, <2>1, <2>2, <2>3, <2>4
<1>10. CASE MarkFailed(p)
  <2>. DEFINE N == {"RECEIVED", "FAILED"}
              r == UpdateStatus(row[p], "FAILED")
  <2>1. \/ /\ UNCHANGED dbVars
           /\ Goto(p, "failed")
        \/ Await(p, r, audit[p], Goto(p, "audit_error"), Goto(p, "failed"))
    BY <1>10 DEF MarkFailed
  <2>2. PipelineCall(p, r, audit[p], "audit_error")
    <3>1. UNCHANGED <<wire, acks, dlq, comp>>
      BY <1>10 DEF MarkFailed, railVars, compVars
    <3>. HIDE DEF r
    <3>2. QED
      BY <2>1, <3>1 DEF PipelineCall, Await, Goto
  <2>3. r.ack = row[p].ack
    BY <1>1 DEF UpdateStatus, Row
  <2>4. With(p, r, audit[p]) = F \cup N
    <3>1. /\ "FAILED" \in Status
          /\ N = {"RECEIVED"} \cup ({"FAILED"} \cap StatusStamps)
      BY DEF Status, Compensable, StatusStamps
    <3>2. QED
      BY <1>1, <3>1, StatusAdds DEF With, Facts
  <2>5. /\ Ledger!CausallyClosed(F \cup N)
        /\ KnownAt("audit_error", F \cup N)
        /\ HasFailed(F \cup N)
    BY <1>1 DEF KnownAt, HasFailed, Ledger!CausallyClosed
  <2>. HIDE DEF r
  <2>6. QED
    BY <1>2, <2>2, <2>3, <2>4, <2>5
<1>11. QED
  BY <1>4, <1>5, <1>6, <1>7, <1>8, <1>9, <1>10
(* The pipeline steps without a database call.                             *)
LEMMA PipelineSteps ==
    ASSUME IInv, TypeOK', NEW p \in Payments,
           RefuseAlias(p) \/ Throw(p) \/ Publish(p)
    PROVE  SoundStep
<1>1. PaymentInv(p)
  BY DEF IInv, CausalOrder, PaymentInv
<1>2. /\ pc \in [Payments -> Running \cup Ended \cup {"idle"}]
      /\ wire \in [Payments -> {"none", "buffered", "queued", "gone", "lost"}]
  BY DEF IInv, TypeOK
<1>3. PICK step \in {"refused", "mark_failed", "queue"} : Goto(p, step)
  BY DEF RefuseAlias, Throw, Publish
<1>4. UNCHANGED <<row, audit, acks, dlq, comp>>
  BY DEF RefuseAlias, Throw, Publish, dbVars, compVars
<1>5. OnlyAt(p) /\ pc'[p] = step
  BY <1>2, <1>3, <1>4 DEF OnlyAt, Goto, RefuseAlias, Throw, Publish, railVars
<1>6. CASE ~(Publish(p) /\ row[p].rail \in AdapterRails)
  <2>1. Facts(p)' = Facts(p)
    BY <1>4, <1>6 DEF Facts, RefuseAlias, Throw, Publish, railVars
  <2>2. KnownAt(pc'[p], Facts(p))
    <3>1. \/ pc'[p] = "mark_failed"
          \/ pc[p] = "idle" /\ pc'[p] = "refused"
      BY <1>2, <1>6 DEF RefuseAlias, Throw, Publish, Goto
    <3>2. QED
      BY <1>1, <3>1 DEF PaymentInv, PipelineInv, KnownAt
  <2>3. PaymentInv(p)'
    BY <1>1, <1>4, <2>1, <2>2
       DEF PaymentInv, PipelineInv, RowInv, ConsumerInv
  <2>4. QED
    BY <1>4, <1>5, <2>1, <2>3, OneStep
<1>7. CASE Publish(p) /\ row[p].rail \in AdapterRails
  <2>1. /\ pc[p] = "publish" /\ pc'[p] = "queue" /\ wire'[p] = "buffered"
    BY <1>2, <1>7 DEF Publish, Goto
  <2>2. Facts(p)' = Facts(p) \cup {"PUBLISHED"}
    BY <1>4, <2>1, FactsMembers DEF Facts
  <2>3. PaymentInv(p)'
    <3>1. /\ Ledger!CausallyClosed(Facts(p) \cup {"PUBLISHED"})
          /\ KnownAt(pc'[p], Facts(p) \cup {"PUBLISHED"})
      BY <1>1, <2>1
         DEF PaymentInv, PipelineInv, KnownAt, Ledger!CausallyClosed
    <3>2. QED
      BY <1>1, <1>4, <2>2, <3>1
         DEF PaymentInv, PipelineInv, RowInv, ConsumerInv, HasFailed
  <2>4. QED
    BY <1>4, <1>5, <2>2, <2>3, OneStep
<1>8. QED
  BY <1>6, <1>7

(* The broker and the adapters add to the history what the rail said.      *)
LEMMA RailSteps ==
    ASSUME IInv, TypeOK', NEW p \in Payments, Flush(p) \/ Rail(p)
    PROVE  SoundStep
<1>1. PaymentInv(p)
  BY DEF IInv, CausalOrder, PaymentInv
<1>2. /\ wire \in [Payments -> {"none", "buffered", "queued", "gone", "lost"}]
      /\ dlq \in [Payments -> {"none", "queued", "marked", "gone"}]
      /\ acks \in [Payments -> [AckIds -> [stage   : AckStage,
                                          verdict : Verdict \cup {"MALFORMED"}]]]
  BY DEF IInv, TypeOK
<1>3. UNCHANGED <<row, audit, pc, comp>>
  BY DEF Flush, Rail, RailAnswers, RailRetries, RailGivesUp, dbVars, compVars
<1>4. /\ wire[p] # "none" /\ wire'[p] # "none"
      /\ "PUBLISHED" \in Facts(p)
  <2>1. wire[p] # "none" /\ wire'[p] # "none"
    BY <1>2 DEF Flush, Rail, RailAnswers, RailRetries, RailGivesUp
  <2>2. QED
    BY <2>1, FactsMembers DEF Facts
<1>5. ASSUME NEW N, N \subseteq {"RAIL_ACCEPTED", "RAIL_REJECTED", "RAIL_ERRED",
                                "RAIL_GAVE_UP"},
             Facts(p)' = Facts(p) \cup N
      PROVE  /\ Facts(p) \subseteq Facts(p)'
             /\ Ledger!CausallyClosed(Facts(p)')
             /\ PipelineInv(p)' /\ RowInv(p)'
  <2>1. Ledger!CausallyClosed(Facts(p) \cup N)
    BY <1>1, <1>4, <1>5 DEF PaymentInv, Ledger!CausallyClosed
  <2>2. KnownAt(pc[p], Facts(p) \cup N)
    BY <1>1, <1>4 DEF PaymentInv, PipelineInv, KnownAt
  <2>3. PipelineInv(p)'
    BY <1>3, <1>5, <2>2 DEF PipelineInv
  <2>4. RowInv(p)'
    BY <1>1, <1>3, <1>5 DEF PaymentInv, RowInv, HasFailed
  <2>5. QED
    BY <1>5, <2>1, <2>3, <2>4
<1>6. CASE Flush(p) \/ RailRetries(p)
  <2>1. UNCHANGED <<acks, dlq>> /\ OnlyAt(p)
    BY <1>2, <1>3, <1>6 DEF Flush, RailRetries, OnlyAt
  <2>2. Facts(p)' = Facts(p) \cup {}
    BY <1>3, <1>4, <2>1 DEF Facts, FactsOf, FactIf
  <2>3. PaymentInv(p)'
    BY <1>1, <1>5, <2>1, <2>2 DEF PaymentInv, ConsumerInv
  <2>4. QED
    BY <1>3, <1>5, <2>1, <2>2, <2>3, OneStep
<1>7. CASE RailGivesUp(p)
  <2>1. /\ UNCHANGED acks /\ OnlyAt(p) /\ dlq'[p] = "queued"
    BY <1>2, <1>3, <1>7 DEF RailGivesUp, OnlyAt
  <2>2. Facts(p)' = Facts(p) \cup {"RAIL_GAVE_UP"}
    BY <1>3, <1>4, <2>1, FactsMembers DEF Facts
  <2>3. PaymentInv(p)'
    BY <1>1, <1>5, <2>1, <2>2 DEF PaymentInv, ConsumerInv
  <2>4. QED
    BY <1>3, <1>5, <2>1, <2>2, <2>3, OneStep
<1>8. ASSUME NEW n \in AckIds, NEW v \in Verdict \cup {"MALFORMED"},
             RailAnswers(p, n, v)
      PROVE  SoundStep
  <2>1. /\ UNCHANGED dlq
        /\ acks'[p] = [acks[p] EXCEPT ![n] = [stage |-> "queued", verdict |-> v]]
        /\ OnlyAt(p)
    BY <1>2, <1>3, <1>8 DEF RailAnswers, OnlyAt
  <2>2. \A m \in AckIds : /\ m # n => acks'[p][m] = acks[p][m]
                          /\ acks'[p][n].stage = "queued"
                          /\ acks'[p][n].verdict = v
    BY <1>2, <2>1
  <2>3. acks[p][n].verdict = "MALFORMED"
    BY <1>1, <1>8 DEF RailAnswers, PaymentInv, ConsumerInv
  <2>4. \A u \in Verdict : RailSaid(acks'[p], u) <=> RailSaid(acks[p], u) \/ u = v
    BY <2>2, <2>3 DEF RailSaid, Verdict
  <2>. DEFINE N == FactIf("RAIL_ACCEPTED", v = "ACCEPTED")
                   \cup FactIf("RAIL_REJECTED", v = "REJECTED")
                   \cup FactIf("RAIL_ERRED", v = "ERROR")
  <2>5. N \subseteq {"RAIL_ACCEPTED", "RAIL_REJECTED", "RAIL_ERRED",
                     "RAIL_GAVE_UP"}
    BY DEF FactIf
  <2>6. Facts(p)' = Facts(p) \cup N
    BY <1>3, <1>4, <2>1, <2>4, FactsMembers DEF Facts, FactIf, Verdict
  <2>. HIDE DEF N
  <2>7. ConsumerInv(p)'
    BY <1>1, <1>5, <2>1, <2>2, <2>5, <2>6 DEF PaymentInv, ConsumerInv
  <2>8. QED
    BY <1>3, <1>5, <2>1, <2>5, <2>6, <2>7, OneStep DEF PaymentInv
<1>9. QED
  BY <1>6, <1>7, <1>8 DEF Rail
(* A database call of a consumer or of the compensation service.           *)
HandlerCall(p, r, a) ==
    /\ UNCHANGED <<pc, wire>>
    /\ Write(p, r, a) \/ UNCHANGED dbVars
    /\ \A q \in Payments : q # p => acks'[q] = acks[q] /\ dlq'[q] = dlq[q]
    /\ \A v \in Verdict : RailSaid(acks'[p], v) <=> RailSaid(acks[p], v)
    /\ dlq'[p] = "none" <=> dlq[p] = "none"

LEMMA HandlerFacts ==
    ASSUME IInv, NEW p \in Payments, NEW r, NEW a,
           HandlerCall(p, r, a), SoundWrite(p, r, a)
    PROVE  /\ OnlyAt(p)
           /\ Facts(p) \subseteq Facts(p)'
           /\ \A q \in Payments : Facts(q) \subseteq Facts(q)'
           /\ \/ Write(p, r, a) /\ Facts(p)' = With(p, r, a)
                                /\ row'[p] = r
              \/ UNCHANGED dbVars /\ Facts(p)' = Facts(p)
<1>1. row \in [Payments -> Row] /\ audit \in [Payments -> SUBSET AuditEvent]
  BY DEF IInv, TypeOK
<1>2. OnlyAt(p)
  BY <1>1 DEF HandlerCall, OnlyAt, Write, dbVars
<1>3. \A q \in Payments : q # p => Facts(q)' = Facts(q)
  BY <1>2 DEF OnlyAt, Facts
<1>4. \A rr, aa : FactsOf(rr, aa, wire'[p], acks'[p], dlq'[p]) = With(p, rr, aa)
  <2>1. /\ FactIf("RAIL_ACCEPTED", RailSaid(acks'[p], "ACCEPTED"))
              = FactIf("RAIL_ACCEPTED", RailSaid(acks[p], "ACCEPTED"))
        /\ FactIf("RAIL_REJECTED", RailSaid(acks'[p], "REJECTED"))
              = FactIf("RAIL_REJECTED", RailSaid(acks[p], "REJECTED"))
        /\ FactIf("RAIL_ERRED", RailSaid(acks'[p], "ERROR"))
              = FactIf("RAIL_ERRED", RailSaid(acks[p], "ERROR"))
        /\ FactIf("RAIL_GAVE_UP", dlq'[p] # "none")
              = FactIf("RAIL_GAVE_UP", dlq[p] # "none")
        /\ wire' = wire
    BY DEF HandlerCall, FactIf, Verdict
  <2>2. QED
    BY <2>1 DEF FactsOf, With
<1>5. \/ Write(p, r, a) /\ Facts(p)' = With(p, r, a) /\ row'[p] = r
      \/ UNCHANGED dbVars /\ Facts(p)' = Facts(p)
  <2>1. CASE Write(p, r, a)
    BY <1>1, <1>4, <2>1 DEF Write, Facts
  <2>2. CASE UNCHANGED dbVars
    BY <1>4, <2>2 DEF dbVars, Facts, With
  <2>3. QED
    BY <2>1, <2>2 DEF HandlerCall
<1>6. Facts(p) \subseteq Facts(p)'
  BY <1>5 DEF SoundWrite
<1>7. QED
  BY <1>2, <1>3, <1>5, <1>6

LEMMA HandlerInv ==
    ASSUME IInv, TypeOK', NEW p \in Payments, NEW r, NEW a,
           HandlerCall(p, r, a), SoundWrite(p, r, a),
           Facts(p) # {} \/ With(p, r, a) = Facts(p),
           ConsumerInv(p)', \A c \in Callers : CompInv(c)'
    PROVE  SoundStep
<1>1. \A q \in Payments : PaymentInv(q)
  BY DEF IInv, CausalOrder, PaymentInv
<1>2. /\ OnlyAt(p)
      /\ Facts(p) \subseteq Facts(p)'
      /\ \/ Write(p, r, a) /\ Facts(p)' = With(p, r, a) /\ row'[p] = r
         \/ UNCHANGED dbVars /\ Facts(p)' = Facts(p)
  BY HandlerFacts
<1>3. PipelineInv(p)'
  <2>1. pc' = pc
    BY DEF HandlerCall
  <2>2. KnownAt(pc[p], Facts(p)')
    BY <1>1, <1>2 DEF PaymentInv, PipelineInv, KnownAt
  <2>3. QED
    BY <2>1, <2>2 DEF PipelineInv
<1>4. RowInv(p)' /\ Ledger!CausallyClosed(Facts(p))'
  BY <1>1, <1>2 DEF RowInv, PaymentInv, SoundWrite, dbVars
<1>5. PaymentInv(p)'
  BY <1>3, <1>4 DEF PaymentInv
<1>6. \A q \in Payments : PaymentInv(q)'
  BY <1>1, <1>2, <1>5, Elsewhere
<1>7. HistoryGrows
  BY <1>1, <1>2, Elsewhere DEF HistoryGrows
<1>8. QED
  BY <1>6, <1>7 DEF SoundStep, IInv, CausalOrder, PaymentInv

(* A consumer leaves compensations alone.                                  *)
LEMMA ConsumerStep ==
    ASSUME IInv, TypeOK', NEW p \in Payments, NEW r, NEW a,
           HandlerCall(p, r, a), SoundWrite(p, r, a),
           Facts(p) # {} \/ With(p, r, a) = Facts(p),
           ConsumerInv(p)', comp' = comp
    PROVE  SoundStep
<1>1. \A q \in Payments : Facts(q) \subseteq Facts(q)'
  BY HandlerFacts
<1>2. \A c \in Callers : CompInv(c)'
  BY <1>1, CompKept DEF IInv
<1>3. QED
  BY <1>2, HandlerInv

LEMMA AckGoesKeeps ==
    ASSUME TypeOK, NEW p \in Payments, NEW n \in AckIds, NEW st,
           AckGoes(p, n, st)
    PROVE  /\ \A q \in Payments : q # p => acks'[q] = acks[q]
           /\ \A v \in Verdict : RailSaid(acks'[p], v) <=> RailSaid(acks[p], v)
           /\ \A m \in AckIds : /\ acks'[p][m].verdict = acks[p][m].verdict
                                /\ m # n => acks'[p][m] = acks[p][m]
           /\ acks'[p][n].stage = st
<1>1. /\ acks \in [Payments -> [AckIds -> [stage   : AckStage,
                                          verdict : Verdict \cup {"MALFORMED"}]]]
      /\ acks' = [acks EXCEPT ![p] = [acks[p] EXCEPT
                                     ![n] = [acks[p][n] EXCEPT !.stage = st]]]
  BY DEF TypeOK, AckGoes
<1>2. /\ \A q \in Payments : q # p => acks'[q] = acks[q]
      /\ acks'[p] = [acks[p] EXCEPT ![n] = [acks[p][n] EXCEPT !.stage = st]]
  BY <1>1
<1>3. /\ \A m \in AckIds : m # n => acks'[p][m] = acks[p][m]
      /\ acks'[p][n] = [acks[p][n] EXCEPT !.stage = st]
  BY <1>1, <1>2
<1>4. /\ acks'[p][n].verdict = acks[p][n].verdict
      /\ acks'[p][n].stage = st
  BY <1>1, <1>3
<1>5. \A m \in AckIds : acks'[p][m].verdict = acks[p][m].verdict
  BY <1>3, <1>4
<1>6. QED
  BY <1>2, <1>3, <1>4, <1>5 DEF RailSaid

LEMMA AckSteps ==
    ASSUME IInv, TypeOK', NEW p \in Payments, AckConsumer(p)
    PROVE  SoundStep
<1>. DEFINE F == Facts(p)
<1>1. /\ Ledger!CausallyClosed(F) /\ RowInv(p) /\ ConsumerInv(p)
      /\ row[p] \in Row /\ TypeOK
  BY RowAndTrail DEF IInv, CausalOrder
<1>2. PICK n \in AckIds : AckDiscard(p, n) \/ AckUpdate(p, n) \/ AckAudit(p, n)
  BY DEF AckConsumer
<1>3. UNCHANGED <<pc, wire, dlq, comp>>
  BY <1>2 DEF AckDiscard, AckUpdate, AckAudit, railVars, compVars
<1>4. ASSUME NEW st \in {"updated", "acked", "dropped"}, AckGoes(p, n, st),
             NEW r, NEW a, Write(p, r, a) \/ UNCHANGED dbVars,
             SoundWrite(p, r, a), F # {} \/ With(p, r, a) = F,
             st = "updated" => /\ "ACKED" \in With(p, r, a)
                               /\ Write(p, r, a)
      PROVE  SoundStep
  <2>1. HandlerCall(p, r, a)
    BY <1>1, <1>3, <1>4, AckGoesKeeps DEF HandlerCall
  <2>2. /\ F \subseteq Facts(p)'
        /\ Write(p, r, a) \/ UNCHANGED dbVars
        /\ \/ Facts(p)' = With(p, r, a)
           \/ UNCHANGED dbVars /\ Facts(p)' = F
    BY <1>4, <2>1, HandlerFacts
  <2>3. st = "updated" => "ACKED" \in Facts(p)'
    <3>1. SUFFICES ASSUME st = "updated" PROVE "ACKED" \in Facts(p)'
      OBVIOUS
    <3>2. Write(p, r, a)
      BY <1>4, <3>1
    <3>3. row' = [row EXCEPT ![p] = r] /\ audit' = [audit EXCEPT ![p] = a]
      BY <3>2 DEF Write
    <3>4. UNCHANGED dbVars => r = row[p] /\ a = audit[p]
      BY <1>1, <3>3 DEF dbVars, TypeOK
    <3>5. QED
      BY <1>4, <2>2, <3>1, <3>4 DEF With, Facts
  <2>4. ConsumerInv(p)'
    BY <1>1, <1>3, <1>4, <2>2, <2>3, AckGoesKeeps DEF ConsumerInv
  <2>5. QED
    BY <1>3, <1>4, <2>1, <2>4, ConsumerStep
<1>5. CASE AckDiscard(p, n)
  <2>1. With(p, row[p], audit[p]) = F
    BY DEF With, Facts
  <2>2. SoundWrite(p, row[p], audit[p])
    BY <1>1, <2>1 DEF SoundWrite, RowInv
  <2>3. AckGoes(p, n, "dropped") /\ UNCHANGED dbVars
    BY <1>5 DEF AckDiscard
  <2>4. QED
    BY <1>4, <2>1, <2>2, <2>3
<1>6. CASE AckUpdate(p, n)
  <2>. DEFINE v == acks[p][n].verdict
              r == UpdateRailAck(row[p], v)
              N == {"RECEIVED", "ACKED"} \cup FactIf("COMPLETED", v = "ACCEPTED")
  <2>1. v \in Verdict
    BY <1>6 DEF AckUpdate
  <2>2. /\ v = "ACCEPTED" => "RAIL_ACCEPTED" \in F
        /\ v = "REJECTED" => "RAIL_REJECTED" \in F
        /\ v = "ERROR" => "RAIL_ERRED" \in F
    BY <2>1, FactsMembers DEF Facts, RailSaid, Verdict
  <2>. HIDE DEF v
  <2>3. /\ r.ack = v
        /\ r.status \in Compensable => v = "ERROR"
    BY <1>1, <2>1 DEF UpdateRailAck, FinalStatus, Row, Compensable, Verdict
  <2>4. With(p, r, audit[p]) = F \cup N
    BY <1>1, <2>1, AckAdds DEF With, Facts
  <2>5. Ledger!CausallyClosed(F \cup N)
    BY <1>1, <2>1, <2>2 DEF Ledger!CausallyClosed, FactIf, Verdict
  <2>6. v = "ERROR" => HasFailed(F \cup N)
    BY <2>2 DEF HasFailed
  <2>7. SoundWrite(p, r, audit[p])
    <3>. HIDE DEF r
    <3>1. r.status \in Compensable => HasFailed(F \cup N)
      BY <2>3, <2>6
    <3>2. QED
      BY <2>4, <2>5, <3>1, SoundUpdate
  <2>8. /\ Write(p, r, audit[p]) \/ UNCHANGED dbVars
        /\ \/ AckGoes(p, n, "updated") /\ Write(p, r, audit[p])
           \/ AckGoes(p, n, "dropped")
    BY <1>6 DEF AckUpdate, Await, v
  <2>9. F # {}
    BY <2>1, <2>2 DEF Verdict
  <2>10. "ACKED" \in With(p, r, audit[p])
    BY <2>4
  <2>. HIDE DEF r, N, F
  <2>11. CASE AckGoes(p, n, "updated") /\ Write(p, r, audit[p])
    BY <1>4, <2>7, <2>9, <2>10, <2>11 DEF F
  <2>12. CASE AckGoes(p, n, "dropped")
    BY <1>4, <2>7, <2>8, <2>9, <2>12 DEF F
  <2>13. QED
    BY <2>8, <2>11, <2>12
<1>7. CASE AckAudit(p, n)
  <2>1. "ACKED" \in F
    BY <1>1, <1>7 DEF AckAudit, ConsumerInv
  <2>2. Ledger!CausallyClosed(F \cup {EventFact("ACK_RECEIVED")})
    BY <1>1, <2>1 DEF Ledger!CausallyClosed, EventFact
  <2>3. SoundWrite(p, row[p], Logged(p, "ACK_RECEIVED"))
    BY <2>2, SoundLog
  <2>4. /\ AckGoes(p, n, "acked") \/ AckGoes(p, n, "dropped")
        /\ Write(p, row[p], Logged(p, "ACK_RECEIVED")) \/ UNCHANGED dbVars
    BY <1>7 DEF AckAudit, Await
  <2>5. QED
    BY <1>4, <2>1, <2>3, <2>4
<1>8. QED
  BY <1>2, <1>5, <1>6, <1>7

LEMMA DlqSteps ==
    ASSUME IInv, TypeOK', NEW p \in Payments, DlqHandler(p)
    PROVE  SoundStep
<1>. DEFINE F == Facts(p)
<1>1. /\ Ledger!CausallyClosed(F) /\ RowInv(p) /\ ConsumerInv(p)
      /\ row[p] \in Row
      /\ dlq \in [Payments -> {"none", "queued", "marked", "gone"}]
  BY RowAndTrail DEF IInv, CausalOrder, TypeOK
<1>2. UNCHANGED <<pc, wire, acks, comp>>
  BY DEF DlqHandler, DlqMark, DlqAudit, railVars, compVars
<1>3. "RAIL_GAVE_UP" \in F
  <2>1. dlq[p] # "none"
    BY DEF DlqHandler, DlqMark, DlqAudit
  <2>2. QED
    BY <2>1, FactsMembers DEF Facts
<1>4. ASSUME NEW st \in {"queued", "marked", "gone"}, DlqGoes(p, st),
             NEW r, NEW a, Write(p, r, a) \/ UNCHANGED dbVars,
             SoundWrite(p, r, a),
             st = "marked" => Write(p, r, a) /\ "DEAD_LETTER" \in With(p, r, a)
      PROVE  SoundStep
  <2>1. /\ \A q \in Payments : q # p => dlq'[q] = dlq[q]
        /\ dlq'[p] = st /\ dlq[p] # "none"
    BY <1>1, <1>4 DEF DlqGoes, DlqHandler, DlqMark, DlqAudit
  <2>2. HandlerCall(p, r, a)
    BY <1>2, <1>4, <2>1 DEF HandlerCall
  <2>3. /\ F \subseteq Facts(p)'
        /\ \/ Facts(p)' = With(p, r, a)
           \/ UNCHANGED dbVars /\ Facts(p)' = F
    BY <2>2, <1>4, HandlerFacts
  <2>4. st = "marked" => "DEAD_LETTER" \in Facts(p)'
    <3>1. SUFFICES ASSUME st = "marked" PROVE "DEAD_LETTER" \in Facts(p)'
      OBVIOUS
    <3>2. row' = [row EXCEPT ![p] = r] /\ audit' = [audit EXCEPT ![p] = a]
      BY <1>4, <3>1 DEF Write
    <3>3. UNCHANGED dbVars => r = row[p] /\ a = audit[p]
      BY <3>2 DEF dbVars, IInv, TypeOK
    <3>4. QED
      BY <1>4, <2>3, <3>1, <3>3 DEF With, Facts
  <2>5. ConsumerInv(p)'
    BY <1>1, <1>2, <2>1, <2>3, <2>4 DEF ConsumerInv
  <2>6. QED
    BY <1>2, <1>3, <1>4, <2>2, <2>5, ConsumerStep
<1>5. CASE DlqMark(p)
  <2>. DEFINE N == {"RECEIVED", "DEAD_LETTER"}
              r == UpdateStatus(row[p], "DEAD_LETTER")
  <2>1. With(p, r, audit[p]) = F \cup N
    <3>1. /\ "DEAD_LETTER" \in Status
          /\ N = {"RECEIVED"} \cup ({"DEAD_LETTER"} \cap StatusStamps)
      BY DEF Status, Compensable, StatusStamps
    <3>2. QED
      BY <1>1, <3>1, StatusAdds DEF With, Facts
  <2>2. r.ack = row[p].ack
    BY <1>1 DEF UpdateStatus, Row
  <2>3. Ledger!CausallyClosed(F \cup N) /\ HasFailed(F \cup N)
    BY <1>1, <1>3 DEF Ledger!CausallyClosed, HasFailed
  <2>. HIDE DEF r
  <2>4. SoundWrite(p, r, audit[p])
    BY <1>1, <2>1, <2>2, <2>3, SoundUpdate DEF RowInv
  <2>5. \/ DlqGoes(p, "marked") /\ Write(p, r, audit[p])
        \/ DlqGoes(p, "queued") /\ (Write(p, r, audit[p]) \/ UNCHANGED dbVars)
    BY <1>5 DEF DlqMark, Await, r
  <2>6. QED
    BY <1>4, <2>1, <2>4, <2>5
<1>6. CASE DlqAudit(p)
  <2>1. "DEAD_LETTER" \in F
    BY <1>1, <1>6 DEF DlqAudit, ConsumerInv
  <2>2. Ledger!CausallyClosed(F \cup {EventFact("DEAD_LETTER")})
    BY <1>1, <2>1 DEF Ledger!CausallyClosed, EventFact
  <2>3. SoundWrite(p, row[p], Logged(p, "DEAD_LETTER"))
    BY <2>2, SoundLog
  <2>4. /\ DlqGoes(p, "gone") \/ DlqGoes(p, "queued")
        /\ Write(p, row[p], Logged(p, "DEAD_LETTER")) \/ UNCHANGED dbVars
    BY <1>6 DEF DlqAudit, Await
  <2>5. QED
    BY <1>4, <2>3, <2>4
<1>7. QED
  BY <1>5, <1>6 DEF DlqHandler
(* One caller goes on; the others know no less than before.                *)
LEMMA CallStep ==
    ASSUME IInv, TypeOK', NEW c \in Callers, NEW p \in Payments, NEW r, NEW a,
           UNCHANGED <<pc, wire, acks, dlq>>,
           Write(p, r, a) \/ UNCHANGED dbVars, SoundWrite(p, r, a),
           HasFailed(Facts(p)),
           \A b \in Callers : b # c => comp'[b] = comp[b],
           CompInv(c)'
    PROVE  SoundStep
<1>1. HandlerCall(p, r, a)
  BY DEF HandlerCall
<1>2. \A q \in Payments : Facts(q) \subseteq Facts(q)'
  BY <1>1, HandlerFacts
<1>3. \A b \in Callers : CompInv(b)'
  BY <1>2, CompKept DEF IInv
<1>4. ConsumerInv(p)'
  BY <1>2 DEF IInv, ConsumerInv
<1>5. Facts(p) # {}
  BY DEF HasFailed
<1>6. QED
  BY <1>1, <1>3, <1>4, <1>5, HandlerInv

(* The calls of compensate() on the payment it has found.                  *)
LEMMA CompensateSteps ==
    ASSUME IInv, TypeOK', NEW c \in Callers, Compensate(c)
    PROVE  SoundStep
<1>1. /\ comp[c].step # "idle"
      /\ UNCHANGED <<pc, wire, acks, dlq>>
  BY DEF Compensate, Start, AuditStarted, AuditReversal, Complete,
         AuditCompleted, AuditFailed, CompCall, railVars
<1>2. PICK p \in Payments : p = comp[c].payment
  BY <1>1 DEF IInv, CompInv
<1>. DEFINE F == Facts(p)
<1>3. /\ Ledger!CausallyClosed(F) /\ RowInv(p) /\ row[p] \in Row
      /\ StartedWith(comp[c], F)
      /\ HasFailed(F) /\ "RECEIVED" \in F
  <2>1. Ledger!CausallyClosed(F) /\ RowInv(p) /\ row[p] \in Row
    BY RowAndTrail DEF IInv, CausalOrder
  <2>2. StartedWith(comp[c], F) /\ HasFailed(F)
    BY <1>1, <1>2 DEF IInv, CompInv, StartedWith
  <2>3. QED
    BY <2>1, <2>2 DEF HasFailed, Ledger!CausallyClosed
<1>4. comp \in [Callers -> [step : CompStep, payment : Payments \cup {NoPayment},
                           acked : BOOLEAN]]
  BY DEF IInv, TypeOK
\* what the write added, and where the call stands after it
<1>5. ASSUME NEW r, NEW a, NEW next, SoundWrite(p, r, a),
             \/ CompGoes(c, next) /\ Write(p, r, a)
                                  /\ StartedWith([comp[c] EXCEPT !.step = next],
                                                 With(p, r, a))
             \/ /\ Write(p, r, a) \/ UNCHANGED dbVars
                /\ \/ CompReturns(c) \/ CompThrows(c)
                   \/ CompGoes(c, "audit_failed") /\ "COMPENSATION_STARTED" \in F
      PROVE  SoundStep
  <2>1. \A b \in Callers : b # c => comp'[b] = comp[b]
    BY <1>4, <1>5 DEF CompGoes, CompReturns, CompThrows
  <2>2. HandlerCall(p, r, a)
    BY <1>1, <1>5 DEF HandlerCall
  <2>3. /\ F \subseteq Facts(p)'
        /\ \/ Facts(p)' = With(p, r, a)
           \/ UNCHANGED dbVars /\ Facts(p)' = F
    BY <1>2, <1>5, <2>2, HandlerFacts
  <2>4. CASE comp'[c] = NoCall
    <3>1. CompInv(c)'
      BY <2>4 DEF CompInv, NoCall
    <3>2. QED
      BY <1>1, <1>2, <1>3, <1>5, <2>1, <3>1, CallStep
  <2>5. CASE CompGoes(c, next) /\ Write(p, r, a)
                /\ StartedWith([comp[c] EXCEPT !.step = next], With(p, r, a))
    <3>1. comp'[c] = [comp[c] EXCEPT !.step = next] /\ comp'[c].payment = p
      BY <1>2, <1>4, <2>5 DEF CompGoes
    <3>2. Facts(p)' = With(p, r, a)
      <4>1. row' = [row EXCEPT ![p] = r] /\ audit' = [audit EXCEPT ![p] = a]
        BY <2>5 DEF Write
      <4>2. UNCHANGED dbVars => r = row[p] /\ a = audit[p]
        BY <4>1 DEF dbVars, IInv, TypeOK
      <4>3. QED
        BY <2>3, <4>2 DEF With, Facts
    <3>3. CompInv(c)'
      BY <1>2, <2>5, <3>1, <3>2 DEF CompInv
    <3>4. QED
      BY <1>1, <1>2, <1>3, <1>5, <2>1, <3>3, CallStep
  <2>6. CASE CompGoes(c, "audit_failed") /\ "COMPENSATION_STARTED" \in F
    <3>1. comp'[c] = [comp[c] EXCEPT !.step = "audit_failed"]
          /\ comp'[c].payment = p
      BY <1>2, <1>4, <2>6 DEF CompGoes
    <3>2. StartedWith(comp'[c], Facts(p)')
      <4>1. /\ comp'[c].step = "audit_failed" /\ comp'[c].acked = comp[c].acked
            /\ F \subseteq Facts(p)'
        BY <1>4, <2>3, <3>1
      <4>2. QED
        BY <1>3, <2>6, <4>1 DEF StartedWith, HasFailed
    <3>3. CompInv(c)'
      BY <1>2, <3>1, <3>2 DEF CompInv
    <3>4. QED
      BY <1>1, <1>2, <1>3, <1>5, <2>1, <3>3, CallStep
  <2>7. QED
    <3>1. CompReturns(c) \/ CompThrows(c) => comp'[c] = NoCall
      BY <1>4 DEF CompReturns, CompThrows
    <3>2. QED
      BY <1>5, <2>4, <2>5, <2>6, <3>1
<1>6. ASSUME NEW s \in Status
      PROVE  /\ With(p, UpdateStatus(row[p], s), audit[p])
                   = F \cup ({"RECEIVED"} \cup ({s} \cap StatusStamps))
             /\ UpdateStatus(row[p], s).ack = row[p].ack
             /\ UpdateStatus(row[p], s).status = s
  <2>1. With(p, UpdateStatus(row[p], s), audit[p])
           = F \cup ({"RECEIVED"} \cup ({s} \cap StatusStamps))
    BY <1>3, StatusAdds DEF With, Facts
  <2>2. /\ UpdateStatus(row[p], s).ack = row[p].ack
        /\ UpdateStatus(row[p], s).status = s
    BY <1>3 DEF UpdateStatus, Row
  <2>3. QED
    BY <2>1, <2>2
<1>7. comp[c].step \notin {"start", "audit_started", "idle"}
         => "COMPENSATION_STARTED" \in F
  BY <1>3 DEF StartedWith
<1>8. CASE Start(c)
  <2>. DEFINE r == UpdateStatus(row[p], "COMPENSATING")
              next == "audit_started"
  <2>1. /\ "COMPENSATING" \in Status
        /\ {"RECEIVED"} \cup ({"COMPENSATING"} \cap StatusStamps) = {"RECEIVED"}
    BY DEF Status, StatusStamps
  <2>2. With(p, r, audit[p]) = F
    <3>1. With(p, r, audit[p]) = F \cup {"RECEIVED"}
      BY <1>6, <2>1
    <3>2. QED
      BY <1>3, <3>1
  <2>3. /\ r.ack = row[p].ack /\ r.status \notin Compensable
    BY <1>6, <2>1 DEF Compensable
  <2>. HIDE DEF r
  <2>4. SoundWrite(p, r, audit[p])
    BY <1>3, <2>2, <2>3 DEF SoundWrite, RowInv
  <2>5. StartedWith([comp[c] EXCEPT !.step = next], With(p, r, audit[p]))
    BY <1>3, <1>4, <2>2 DEF StartedWith
  <2>6. \/ CompGoes(c, next) /\ Write(p, r, audit[p])
        \/ CompThrows(c) /\ (Write(p, r, audit[p]) \/ UNCHANGED dbVars)
    BY <1>2, <1>8 DEF Start, CompCall, Await, r
  <2>7. QED
    BY <1>5, <2>4, <2>5, <2>6
<1>9. CASE AuditStarted(c)
  <2>. DEFINE a == Logged(p, "COMPENSATION_STARTED")
              next == IF comp[c].acked THEN "reverse" ELSE "complete"
  <2>1. Ledger!CausallyClosed(F \cup {EventFact("COMPENSATION_STARTED")})
    BY <1>3 DEF Ledger!CausallyClosed, EventFact, HasFailed
  <2>2. /\ SoundWrite(p, row[p], a)
        /\ With(p, row[p], a) = F \cup {"COMPENSATION_STARTED"}
    BY <2>1, SoundLog DEF EventFact
  <2>3. StartedWith([comp[c] EXCEPT !.step = next], With(p, row[p], a))
    BY <1>3, <1>4, <2>2 DEF StartedWith, HasFailed
  <2>4. \/ CompGoes(c, next) /\ Write(p, row[p], a)
        \/ CompThrows(c) /\ (Write(p, row[p], a) \/ UNCHANGED dbVars)
    BY <1>2, <1>9 DEF AuditStarted, CompCall, Await
  <2>. HIDE DEF a, next
  <2>5. QED
    BY <1>5, <2>2, <2>3, <2>4
<1>10. CASE AuditReversal(c)
  <2>. DEFINE a == Logged(p, "COMPENSATION_REVERSAL_REQUIRED")
              next == "complete"
  <2>1. {"COMPENSATION_STARTED", "ACKED"} \subseteq F
    BY <1>3, <1>7, <1>10 DEF AuditReversal, CompCall, StartedWith
  <2>2. Ledger!CausallyClosed(
           F \cup {EventFact("COMPENSATION_REVERSAL_REQUIRED")})
    BY <1>3, <2>1 DEF Ledger!CausallyClosed, EventFact
  <2>3. /\ SoundWrite(p, row[p], a)
        /\ With(p, row[p], a) = F \cup {"COMPENSATION_REVERSAL_REQUIRED"}
    BY <2>2, SoundLog DEF EventFact
  <2>4. StartedWith([comp[c] EXCEPT !.step = next], With(p, row[p], a))
    BY <1>3, <1>4, <2>1, <2>3 DEF StartedWith, HasFailed
  <2>5. \/ CompGoes(c, next) /\ Write(p, row[p], a)
        \/ /\ CompGoes(c, "audit_failed")
           /\ Write(p, row[p], a) \/ UNCHANGED dbVars
    BY <1>2, <1>10 DEF AuditReversal, CompCall, Await
  <2>. HIDE DEF a, next
  <2>6. QED
    BY <1>5, <2>1, <2>3, <2>4, <2>5
<1>11. CASE Complete(c)
  <2>. DEFINE r == UpdateStatus(row[p], "COMPENSATED")
              N == {"RECEIVED", "COMPENSATED"}
              next == "audit_completed"
  <2>1. /\ "COMPENSATED" \in Status
        /\ {"RECEIVED"} \cup ({"COMPENSATED"} \cap StatusStamps) = N
    BY DEF Status, StatusStamps
  <2>2. With(p, r, audit[p]) = F \cup N
    BY <1>6, <2>1
  <2>3. r.ack = row[p].ack /\ r.status \notin Compensable
    BY <1>6, <2>1 DEF Compensable
  <2>4. "COMPENSATION_STARTED" \in F
    BY <1>7, <1>11 DEF Complete, CompCall
  <2>5. Ledger!CausallyClosed(F \cup N)
    BY <1>3, <2>4 DEF Ledger!CausallyClosed
  <2>. HIDE DEF r
  <2>6. SoundWrite(p, r, audit[p])
    BY <1>3, <2>2, <2>3, <2>5 DEF SoundWrite, RowInv
  <2>7. StartedWith([comp[c] EXCEPT !.step = next], With(p, r, audit[p]))
    BY <1>3, <1>4, <2>2, <2>4 DEF StartedWith, HasFailed
  <2>8. \/ CompGoes(c, next) /\ Write(p, r, audit[p])
        \/ /\ CompGoes(c, "audit_failed")
           /\ Write(p, r, audit[p]) \/ UNCHANGED dbVars
    BY <1>2, <1>11 DEF Complete, CompCall, Await, r
  <2>9. QED
    BY <1>5, <2>4, <2>6, <2>7, <2>8
<1>12. CASE AuditCompleted(c) \/ AuditFailed(c)
  <2>1. PICK e \in {"COMPENSATION_COMPLETED", "COMPENSATION_FAILED"} :
           /\ Write(p, row[p], Logged(p, e)) \/ UNCHANGED dbVars
           /\ \/ CompReturns(c) \/ CompThrows(c) \/ CompGoes(c, "audit_failed")
           /\ e = "COMPENSATION_COMPLETED" => comp[c].step = "audit_completed"
           /\ comp[c].step \notin {"start", "audit_started", "idle"}
    BY <1>2, <1>12 DEF AuditCompleted, AuditFailed, CompCall, Await
  <2>2. /\ "COMPENSATION_STARTED" \in F
        /\ e = "COMPENSATION_COMPLETED" => "COMPENSATED" \in F
    BY <1>3, <1>7, <2>1 DEF StartedWith
  <2>3. Ledger!CausallyClosed(F \cup {EventFact(e)})
    BY <1>3, <2>2 DEF Ledger!CausallyClosed, EventFact
  <2>4. SoundWrite(p, row[p], Logged(p, e))
    BY <2>3, SoundLog
  <2>5. QED
    BY <1>5, <2>1, <2>2, <2>4
<1>13. QED
  BY <1>8, <1>9, <1>10, <1>11, <1>12 DEF Compensate
(* Choosing what to compensate writes nothing about a payment.             *)
LEMMA FindSteps ==
    ASSUME IInv, TypeOK', NEW c \in Callers,
           CompensateBatch(c) \/ \E p \in Payments : Find(c, p)
    PROVE  SoundStep
<1>1. UNCHANGED <<row, audit, pc, wire, acks, dlq>>
  BY DEF CompensateBatch, Find, dbVars, railVars
<1>2. \A p \in Payments : Facts(p)' = Facts(p)
  BY <1>1 DEF Facts
<1>3. CausalOrder' /\ \A p \in Payments : (PipelineInv(p) /\ RowInv(p) /\ ConsumerInv(p))'
  BY <1>1, <1>2 DEF IInv, CausalOrder, PipelineInv, RowInv, ConsumerInv
<1>4. ASSUME NEW b \in Callers PROVE CompInv(b)'
  <2>1. CASE comp'[b] = comp[b]
    BY <1>2, <2>1, CompKept DEF IInv
  <2>2. CASE comp'[b] = NoCall
    BY <2>2 DEF CompInv, NoCall
  <2>3. ASSUME NEW p \in Payments, row[p].status \in Compensable,
               comp'[b] = [step |-> "start", payment |-> p,
                           acked |-> row[p].ack # "none"]
        PROVE  CompInv(b)'
    <3>1. RowInv(p) /\ Facts(p)' = Facts(p)
      BY <1>2 DEF IInv
    <3>2. /\ comp'[b].payment = p /\ comp'[b].step = "start"
          /\ comp'[b].acked = (row[p].ack # "none")
      BY <2>3
    <3>3. StartedWith(comp'[b], Facts(p)')
      BY <2>3, <3>1, <3>2 DEF RowInv, StartedWith
    <3>4. QED
      BY <3>2, <3>3 DEF CompInv
  <2>4. \/ comp'[b] = comp[b]
        \/ comp'[b] = NoCall
        \/ \E p \in Payments : /\ row[p].status \in Compensable
                              /\ comp'[b] = [step |-> "start", payment |-> p,
                                             acked |-> row[p].ack # "none"]
    BY DEF CompensateBatch, Find, CompThrows, IInv, TypeOK
  <2>5. QED
    BY <2>1, <2>2, <2>3, <2>4
<1>5. QED
  BY <1>2, <1>3, <1>4 DEF SoundStep, HistoryGrows, IInv

(* A crash loses handlers, not history.                                    *)
LEMMA CrashStep ==
    ASSUME IInv, TypeOK', Crash
    PROVE  SoundStep
<1>1. /\ acks \in [Payments -> [AckIds -> [stage   : AckStage,
                                          verdict : Verdict \cup {"MALFORMED"}]]]
      /\ UNCHANGED <<row, audit>>
  BY DEF IInv, TypeOK, Crash, dbVars
<1>2. ASSUME NEW p \in Payments
      PROVE  Facts(p)' = Facts(p) /\ (PipelineInv(p) /\ RowInv(p) /\ ConsumerInv(p))'
  <2>1. /\ pc'[p] = IF pc[p] \in Running THEN "lost" ELSE pc[p]
        /\ wire'[p] = IF wire[p] = "buffered" THEN "lost" ELSE wire[p]
        /\ dlq'[p] = IF dlq[p] = "marked" THEN "queued" ELSE dlq[p]
    BY DEF Crash
  <2>2. \A n \in AckIds :
           /\ acks'[p][n].verdict = acks[p][n].verdict
           /\ acks'[p][n].stage \in {acks[p][n].stage, "queued"}
           /\ acks'[p][n].stage = "queued" => acks[p][n].stage # "none"
           /\ acks'[p][n].stage # "updated"
    <3>1. TAKE n \in AckIds
    <3>2. acks'[p][n] = IF acks[p][n].stage = "updated"
                        THEN [acks[p][n] EXCEPT !.stage = "queued"]
                        ELSE acks[p][n]
      BY DEF Crash
    <3>3. acks[p][n] \in [stage : AckStage, verdict : Verdict \cup {"MALFORMED"}]
      BY <1>1
    <3>4. CASE acks[p][n].stage = "updated"
      BY <3>2, <3>3, <3>4
    <3>5. CASE acks[p][n].stage # "updated"
      BY <3>2, <3>5
    <3>6. QED
      BY <3>4, <3>5
  <2>3. \A v \in Verdict : RailSaid(acks'[p], v) <=> RailSaid(acks[p], v)
    BY <2>2 DEF RailSaid
  <2>4. Facts(p)' = Facts(p)
    BY <1>1, <2>1, <2>3 DEF Facts, FactsOf, FactIf, Verdict
  <2>5. PipelineInv(p)'
    <3>1. KnownAt(pc'[p], Facts(p))
      BY <2>1 DEF IInv, PipelineInv, KnownAt
    <3>2. QED
      BY <2>4, <3>1 DEF PipelineInv
  <2>6. RowInv(p)' /\ ConsumerInv(p)'
    BY <1>1, <2>1, <2>2, <2>4 DEF IInv, RowInv, ConsumerInv
  <2>7. QED
    BY <2>4, <2>5, <2>6
<1>3. CausalOrder'
  BY <1>2 DEF IInv, CausalOrder
<1>4. \A c \in Callers : CompInv(c)'
  BY DEF Crash, CompInv, NoCall
<1>5. QED
  BY <1>2, <1>3, <1>4 DEF SoundStep, HistoryGrows, IInv
-----------------------------------------------------------------------------
(* The inductive invariant, and what follows from it.                      *)

LEMMA StutterStep ==
    ASSUME IInv, UNCHANGED vars
    PROVE  SoundStep
<1>1. /\ row' = row /\ audit' = audit /\ pc' = pc /\ wire' = wire
      /\ retries' = retries /\ acks' = acks /\ dlq' = dlq /\ comp' = comp
      /\ todo' = todo /\ shown' = shown /\ fired' = fired
      /\ dbErrors' = dbErrors /\ crashes' = crashes
  BY DEF vars
<1>2. \A p \in Payments : Facts(p)' = Facts(p)
  BY <1>1 DEF Facts
<1>3. TypeOK'
  BY <1>1 DEF IInv, TypeOK
<1>4. CausalOrder' /\ \A p \in Payments : (PipelineInv(p) /\ RowInv(p) /\ ConsumerInv(p))'
  BY <1>1, <1>2 DEF IInv, CausalOrder, PipelineInv, RowInv, ConsumerInv
<1>5. \A c \in Callers : CompInv(c)'
  BY <1>1, <1>2, CompKept DEF IInv
<1>6. QED
  BY <1>2, <1>3, <1>4, <1>5 DEF SoundStep, HistoryGrows, IInv

LEMMA TypeStep ==
    ASSUME IInv, Next
    PROVE  TypeOK'
<1>1. TypeOK /\ CallsName
  BY DEF IInv, CompInv, CallsName
<1>2. QED
  BY <1>1, PipelineTypes, RailTypes, AckTypes, DlqTypes, CompTypes, CrashTypes
     DEF Next

LEMMA NextStep ==
    ASSUME IInv, [Next]_vars
    PROVE  SoundStep
<1>1. CASE Next
  <2>1. TypeOK'
    BY <1>1, TypeStep
  <2>2. ASSUME NEW p \in Payments, RefuseAlias(p) \/ Create(p) \/ Pipeline(p)
        PROVE  SoundStep
    BY <2>1, <2>2, PipelineLogs, PipelineUpdates, PipelineSteps DEF Pipeline
  <2>3. ASSUME NEW p \in Payments,
               Flush(p) \/ Rail(p) \/ AckConsumer(p) \/ DlqHandler(p)
        PROVE  SoundStep
    BY <2>1, <2>3, RailSteps, AckSteps, DlqSteps
  <2>4. ASSUME NEW c \in Callers,
               \/ CompensateBatch(c) \/ Compensate(c)
               \/ \E p \in Payments : Find(c, p)
        PROVE  SoundStep
    BY <2>1, <2>4, CompensateSteps, FindSteps
  <2>5. CASE Crash
    BY <2>1, <2>5, CrashStep
  <2>6. QED
    BY <1>1, <2>2, <2>3, <2>4, <2>5 DEF Next
<1>2. CASE UNCHANGED vars
  BY <1>2, StutterStep
<1>3. QED
  BY <1>1, <1>2

LEMMA InitFacts ==
    ASSUME Init, NEW p \in Payments
    PROVE  Facts(p) = {}
<1>1. /\ row[p] = NoRow /\ audit[p] = {} /\ wire[p] = "none" /\ dlq[p] = "none"
      /\ \A n \in AckIds : acks[p][n].verdict = "MALFORMED"
  BY DEF Init, NoAck
<1>2. ~RailSaid(acks[p], "ACCEPTED") /\ ~RailSaid(acks[p], "REJECTED")
      /\ ~RailSaid(acks[p], "ERROR")
  BY <1>1 DEF RailSaid
<1>3. NoRow.status = "ABSENT" /\ NoRow.at = {} /\ NoRow.translated = FALSE
  BY DEF NoRow
<1>4. QED
  BY <1>1, <1>2, <1>3, FactsMembers DEF Facts

LEMMA InitTypes ==
    ASSUME Init
    PROVE  TypeOK
<1>1. NoRow \in Row
  BY DEF NoRow, Row
<1>2. NoAck \in [stage : AckStage, verdict : Verdict \cup {"MALFORMED"}]
  BY DEF NoAck, AckStage
<1>3. NoCall \in [step : CompStep, payment : Payments \cup {NoPayment},
                  acked : BOOLEAN]
  BY DEF NoCall, CompStep
<1>4. 0 \in 0..MaxRetries /\ 0 \in 0..MaxDbErrors /\ 0 \in 0..MaxCrashes
  BY PaymentsAssumption
<1>5. QED
  BY <1>1, <1>2, <1>3, <1>4 DEF Init, TypeOK

LEMMA InitInv ==
    ASSUME Init
    PROVE  IInv
<1>1. ASSUME NEW p \in Payments
      PROVE  /\ Ledger!CausallyClosed(Facts(p))
             /\ PipelineInv(p) /\ RowInv(p) /\ ConsumerInv(p)
  <2>1. Facts(p) = {}
    BY InitFacts
  <2>2. /\ pc[p] = "idle" /\ row[p] = NoRow /\ dlq[p] = "none"
        /\ \A n \in AckIds : acks[p][n] = NoAck
    BY DEF Init
  <2>3. PipelineInv(p) /\ Ledger!CausallyClosed(Facts(p))
    BY <2>1, <2>2 DEF PipelineInv, KnownAt, Ledger!CausallyClosed
  <2>4. RowInv(p) /\ ConsumerInv(p)
    BY <2>2 DEF RowInv, ConsumerInv, NoRow, NoAck, Compensable
  <2>5. QED
    BY <2>3, <2>4
<1>2. \A c \in Callers : CompInv(c)
  BY DEF Init, CompInv, NoCall
<1>3. QED
  BY <1>1, <1>2, InitTypes DEF IInv, CausalOrder

LEMMA Invariance == Spec => []IInv
<1>1. IInv /\ [Next]_vars => IInv'
  BY NextStep DEF SoundStep
<1>2. QED
  BY <1>1, InitInv, PTL DEF Spec

(* Every variable keeps its type: rows only ever hold statuses and columns *)
(* the schema has, and no counter of retries passes DLQ_MAX_RETRIES.       *)
THEOREM TypeCorrect == Spec => []TypeOK
<1>1. IInv => TypeOK
  BY DEF IInv
<1>2. QED
  BY <1>1, Invariance, PTL

(* However the handlers overlap, fail and crash, no column, audit event or *)
(* message of a payment is there without those that must precede it.       *)
THEOREM CausalOrderHolds == Spec => []CausalOrder
<1>1. IInv => CausalOrder
  BY DEF IInv
<1>2. QED
  BY <1>1, Invariance, PTL
LEMMA FactsAreFacts ==
    ASSUME NEW r \in Row, NEW a \in SUBSET AuditEvent, NEW w, NEW k, NEW d
    PROVE  FactsOf(r, a, w, k, d) \subseteq Ledger!Fact
<1>1. r.at \subseteq Stamps /\ a \subseteq AuditEvent
  BY DEF Row
<1>2. Stamps \subseteq Ledger!Fact
  BY DEF Stamps, StatusStamps, Ledger!Fact
<1>3. AuditEvent \ {"DEAD_LETTER"} \subseteq Ledger!Fact
  BY DEF AuditEvent, Ledger!Fact
<1>4. {"DEAD_LETTER_LOGGED", "RECEIVED", "TRANSLATED", "PUBLISHED",
       "RAIL_ACCEPTED", "RAIL_REJECTED", "RAIL_ERRED", "RAIL_GAVE_UP"}
         \subseteq Ledger!Fact
  BY DEF Ledger!Fact
<1>5. QED
  BY <1>1, <1>2, <1>3, <1>4, FactsMembers

LEMMA LedgerStep ==
    ASSUME IInv', HistoryGrows
    PROVE  [Ledger!Next]_([p \in Payments |-> Facts(p)])
<1>1. \A p \in Payments : /\ Facts(p)' \subseteq Ledger!Fact
                         /\ Ledger!CausallyClosed(Facts(p)')
  <2>1. TypeOK' /\ CausalOrder'
    BY DEF IInv
  <2>2. \A p \in Payments : Facts(p)' \subseteq Ledger!Fact
    BY <2>1, FactsAreFacts DEF TypeOK, Facts
  <2>3. QED
    BY <2>1, <2>2 DEF CausalOrder
<1>2. CASE \A p \in Payments : Facts(p)' = Facts(p)
  BY <1>2
<1>3. ASSUME NEW p \in Payments, Facts(p) \subseteq Facts(p)',
             \A q \in Payments : q # p => Facts(q)' = Facts(q)
      PROVE  Ledger!Next
  <2>1. Ledger!Learn(p, Facts(p)')
    BY <1>1, <1>3 DEF Ledger!Learn
  <2>2. QED
    BY <2>1 DEF Ledger!Next
<1>4. QED
  BY <1>2, <1>3 DEF HistoryGrows

(* Payments implements PaymentLedger: every step of every handler, broker, *)
(* rail and crash either leaves the histories alone or adds to one of them *)
(* facts whose causes are there.                                           *)
THEOREM Refinement == Spec => HistoryIsCausal
<1>1. Init => Ledger!Init
  BY InitFacts DEF Ledger!Init
<1>2. IInv /\ [Next]_vars => IInv' /\ [Ledger!Next]_([p \in Payments |-> Facts(p)])
  BY NextStep, LedgerStep DEF SoundStep
<1>3. QED
  BY <1>1, <1>2, Invariance, PTL DEF Spec, HistoryIsCausal, Ledger!Spec
=============================================================================

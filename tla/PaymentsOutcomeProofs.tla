------------------------ MODULE PaymentsOutcomeProofs ------------------------
(***************************************************************************)
(* Proofs about the outcome of payments, for every set of payments, rails, *)
(* callers and ACK messages and every number of faults: answers of a rail  *)
(* are kept and announced, preparation only advances, and only faults      *)
(* strand a payment.  They rest on the invariant of PaymentsProofs.        *)
(***************************************************************************)
EXTENDS PaymentsProofs

-----------------------------------------------------------------------------
(* What the UPDATE statements do to the columns the invariant looks at.    *)

LEMMA RowFields ==
    ASSUME NEW r \in Row
    PROVE  /\ /\ InsertPayment.status = "RECEIVED"
              /\ InsertPayment.ack = "none" /\ InsertPayment.at = {}
           /\ NoRow.status = "ABSENT" /\ NoRow.ack = "none" /\ NoRow.at = {}
           /\ \A s \in Status : /\ UpdateStatus(r, s).status = s
                                /\ UpdateStatus(r, s).ack = r.ack
                                /\ UpdateStatus(r, s).at = r.at \cup ({s} \cap StatusStamps)
           /\ /\ UpdateCanonical(r).status = "CANONICALIZED"
              /\ UpdateCanonical(r).ack = r.ack
              /\ UpdateCanonical(r).at = r.at \cup {"CANONICALIZED"}
           /\ \A d \in Rails : /\ UpdateRoute(r, d).status = "ROUTED"
                               /\ UpdateRoute(r, d).ack = r.ack
                               /\ UpdateRoute(r, d).at = r.at \cup {"ROUTED"}
           /\ /\ UpdateTranslated(r).status = r.status
              /\ UpdateTranslated(r).ack = r.ack
              /\ UpdateTranslated(r).at = r.at
           /\ \A v \in Verdict : /\ UpdateRailAck(r, v).status = FinalStatus(v)
                                 /\ UpdateRailAck(r, v).ack = v
BY DEF Row, InsertPayment, NoRow, UpdateStatus, UpdateCanonical, UpdateRoute,
       UpdateTranslated, UpdateRailAck

LEMMA StatusKinds ==
    /\ Intermediate \subseteq Status /\ Compensable \subseteq Status
    /\ {"QUEUED", "COMPLETED", "REJECTED", "COMPENSATING", "COMPENSATED",
        "DEAD_LETTER", "FAILED"} \subseteq Status \ Intermediate
    /\ \A v : FinalStatus(v) \in Status \ (Intermediate \cup {"COMPENSATING"})
BY DEF Status, Intermediate, Compensable, FinalStatus

-----------------------------------------------------------------------------
(* A step is about one payment; the others see nothing of it.              *)

OutcomeAt(p) == AnswerInv(p) /\ PreparationInv(p) /\ FaultFreeInv(p)

Untouched(q) ==
    /\ row'[q] = row[q] /\ acks'[q] = acks[q] /\ pc'[q] = pc[q]
    /\ wire'[q] = wire[q] /\ fired'[q] = fired[q] /\ shown'[q] = shown[q]

(* Faults are never forgotten.                                             *)
FaultsCount == (dbErrors' = 0 => dbErrors = 0) /\ (crashes' = 0 => crashes = 0)

LEMMA OutcomeElsewhere ==
    ASSUME NEW q \in Payments, OutcomeAt(q), Untouched(q), FaultsCount,
           UnderCompensation(q) => UnderCompensation(q)'
    PROVE  OutcomeAt(q)'
<1>1. AnswerInv(q)'
  BY DEF OutcomeAt, AnswerInv, Untouched, FaultsCount, RailSaid
<1>2. PreparationInv(q)'
  BY DEF OutcomeAt, PreparationInv, Untouched
<1>3. FaultFreeInv(q)'
  BY DEF OutcomeAt, FaultFreeInv, Untouched, FaultsCount
<1>4. QED
  BY <1>1, <1>2, <1>3 DEF OutcomeAt

LEMMA OutcomeOneStep ==
    ASSUME OutcomeInv, NEW p \in Payments, FaultsCount, comp' = comp,
           \A q \in Payments : q # p => Untouched(q), OutcomeAt(p)'
    PROVE  OutcomeInv'
<1>1. \A q \in Payments : UnderCompensation(q) => UnderCompensation(q)'
  BY DEF UnderCompensation
<1>2. QED
  BY <1>1, OutcomeElsewhere DEF OutcomeInv, OutcomeAt

LEMMA RejectedCounts ==
    ASSUME TypeOK, Rejected
    PROVE  dbErrors' # 0
BY PaymentsAssumption DEF TypeOK, Rejected

LEMMA ErrorsCount ==
    ASSUME TypeOK, Rejected \/ UNCHANGED dbErrors, UNCHANGED crashes
    PROVE  FaultsCount
BY RejectedCounts DEF FaultsCount

-----------------------------------------------------------------------------
(* The pipeline: it writes row r and goes on to next, or fails to.         *)

Settled == {"audit_queued", "done", "audit_error", "failed"}

PipelineWrite(p, r, next) ==
    /\ UNCHANGED <<acks, comp, fired, crashes>>
    /\ wire' = wire \/ (wire' = [wire EXCEPT ![p] = "buffered"] /\ next \notin Preparing)
    /\ shown' = shown \/ shown' = [shown EXCEPT ![p] = "QUEUED"]
    /\ \/ /\ row' = [row EXCEPT ![p] = r] /\ Goto(p, next) /\ UNCHANGED dbErrors
       \/ /\ row' = [row EXCEPT ![p] = r] \/ row' = row
          /\ Goto(p, "mark_failed") \/ Goto(p, "failed")
          /\ Rejected

(* A row the invariant holds of where the pipeline goes on.                *)
GoodRow(p, r, next) ==
    /\ r.ack = row[p].ack
    /\ next \in Preparing => /\ r.status = PreparedStatus(next)
                             /\ wire[p] = "none"
                             /\ "FAILED" \notin r.at
    /\ dbErrors = 0 /\ crashes = 0 =>
          /\ next # "lost"
          /\ next \in Settled => r.status \notin Intermediate
          /\ r.status = "COMPENSATING" => row[p].status = "COMPENSATING"

LEMMA PipelineOutcome ==
    ASSUME TypeOK, OutcomeInv, NEW p \in Payments, NEW r \in Row, NEW next,
           PipelineWrite(p, r, next), GoodRow(p, r, next)
    PROVE  OutcomeInv'
<1>1. /\ row \in [Payments -> Row]
      /\ pc \in [Payments -> Running \cup Ended \cup {"idle"}]
      /\ wire \in [Payments -> {"none", "buffered", "queued", "gone", "lost"}]
      /\ shown \in [Payments -> Status \cup {"none"}]
  BY DEF TypeOK
<1>2. FaultsCount
  BY ErrorsCount DEF PipelineWrite
<1>3. \A q \in Payments : q # p => Untouched(q)
  BY <1>1 DEF PipelineWrite, Goto, Untouched
<1>4. OutcomeAt(p)
  BY DEF OutcomeInv, OutcomeAt
<1>5. /\ row'[p] \in {r, row[p]} /\ acks'[p] = acks[p] /\ fired'[p] = fired[p]
      /\ shown'[p] \in {shown[p], "QUEUED"}
  BY <1>1 DEF PipelineWrite
<1>6. AnswerInv(p)'
  <2>1. row'[p].ack = row[p].ack
    BY <1>5 DEF GoodRow
  <2>2. QED
    BY <1>2, <1>4, <1>5, <2>1 DEF OutcomeAt, AnswerInv, FaultsCount, RailSaid
<1>7. CASE Goto(p, next) /\ row' = [row EXCEPT ![p] = r] /\ UNCHANGED dbErrors
  <2>1. pc'[p] = next /\ row'[p] = r
    BY <1>1, <1>7 DEF Goto
  <2>2. PreparationInv(p)'
    <3>1. next \in Preparing => wire' = wire
      BY DEF PipelineWrite
    <3>2. QED
      BY <2>1, <3>1 DEF PreparationInv, GoodRow
  <2>3. FaultFreeInv(p)'
    <3>1. UnderCompensation(p)' = UnderCompensation(p)
      BY DEF UnderCompensation, PipelineWrite
    <3>2. crashes' = crashes
      BY DEF PipelineWrite
    <3>3. QED
      BY <1>4, <1>7, <2>1, <3>1, <3>2 DEF OutcomeAt, FaultFreeInv, GoodRow, Settled
  <2>4. QED
    BY <1>2, <1>3, <1>6, <2>2, <2>3, OutcomeOneStep DEF OutcomeAt, PipelineWrite
<1>8. CASE Rejected /\ (Goto(p, "mark_failed") \/ Goto(p, "failed"))
  <2>1. pc'[p] \notin Preparing /\ dbErrors' # 0
    BY <1>1, <1>8, RejectedCounts DEF Goto, Preparing
  <2>2. PreparationInv(p)' /\ FaultFreeInv(p)'
    BY <2>1 DEF PreparationInv, FaultFreeInv
  <2>3. QED
    BY <1>2, <1>3, <1>6, <2>2, OutcomeOneStep DEF OutcomeAt, PipelineWrite
<1>9. QED
  BY <1>7, <1>8 DEF PipelineWrite

(* Nothing has failed at a payment that is just received.                  *)
LEMMA Fresh ==
    ASSUME IInv, NEW p \in Payments, pc[p] = "idle"
    PROVE  row[p].status = "ABSENT" /\ row[p].ack = "none" /\ wire[p] = "none"
<1>1. Facts(p) = {} /\ RowInv(p)
  BY DEF IInv, PipelineInv, KnownAt
<1>2. row[p].status = "ABSENT" /\ wire[p] = "none"
  BY <1>1, FactsMembers DEF Facts
<1>3. row[p].ack = "none"
  BY <1>1 DEF RowInv
<1>4. QED
  BY <1>2, <1>3

LEMMA StepWrites ==
    ASSUME NEW p \in Payments, NEW here, NEW r, NEW a, NEW next,
           Step(p, here, r, a, next)
    PROVE  PipelineWrite(p, r, next) /\ pc[p] = here
BY DEF Step, Await, Write, dbVars, railVars, compVars, noteVars, PipelineWrite

LEMMA PipelineOutcomes ==
    ASSUME IInv, OutcomeInv, NEW p \in Payments,
           RefuseAlias(p) \/ Create(p) \/ Pipeline(p)
    PROVE  OutcomeInv'
<1>1. TypeOK /\ row[p] \in Row
  BY DEF IInv, TypeOK
<1>2. PreparationInv(p) /\ FaultFreeInv(p)
  BY DEF OutcomeInv
<1>3. ASSUME NEW here, NEW e, NEW next, LogStep(p, here, e, next),
             here \in Preparing, next \in Preparing,
             PreparedStatus(here) = PreparedStatus(next)
      PROVE  OutcomeInv'
  <2>1. PipelineWrite(p, row[p], next) /\ pc[p] = here
    BY <1>3, StepWrites DEF LogStep
  <2>2. GoodRow(p, row[p], next)
    BY <1>2, <1>3, <2>1 DEF GoodRow, PreparationInv, Settled, Preparing
  <2>3. QED
    BY <1>1, <2>1, <2>2, PipelineOutcome
<1>4. ASSUME NEW here \in Preparing, NEW r \in Row, NEW next \in Preparing,
             Step(p, here, r, audit[p], next),
             r.status = PreparedStatus(next), r.ack = row[p].ack,
             "FAILED" \in r.at => "FAILED" \in row[p].at
      PROVE  OutcomeInv'
  <2>1. PipelineWrite(p, r, next) /\ pc[p] = here
    BY <1>4, StepWrites
  <2>2. GoodRow(p, r, next)
    BY <1>2, <1>4, <2>1 DEF GoodRow, PreparationInv, PreparedStatus, Settled, Preparing
  <2>3. QED
    BY <1>1, <1>4, <2>1, <2>2, PipelineOutcome
<1>5. CASE RefuseAlias(p)
  <2>1. PipelineWrite(p, row[p], "refused")
    BY <1>1, <1>5
       DEF RefuseAlias, PipelineWrite, TypeOK, dbVars, railVars, compVars, noteVars
  <2>2. GoodRow(p, row[p], "refused")
    BY DEF GoodRow, Preparing, Settled
  <2>3. QED
    BY <1>1, <2>1, <2>2, PipelineOutcome
<1>6. CASE Create(p)
  <2>1. PipelineWrite(p, InsertPayment, "audit_received") /\ pc[p] = "idle"
    BY <1>6, StepWrites DEF Create
  <2>2. GoodRow(p, InsertPayment, "audit_received")
    BY <1>1, <2>1, Fresh, RowFields DEF GoodRow, Preparing, PreparedStatus, Settled
  <2>3. QED
    BY <1>1, <2>1, <2>2, RowTypes, PipelineOutcome
<1>7. CASE AuditReceived(p) \/ AuditValidated(p) \/ AuditCanonical(p)
             \/ Normalize(p) \/ AuditRouted(p)
  BY <1>3, <1>7
     DEF AuditReceived, AuditValidated, AuditCanonical, Normalize, AuditRouted,
         Preparing, PreparedStatus
<1>8. CASE Validate(p)
  <2>. DEFINE r == UpdateStatus(row[p], "VALIDATED")
  <2>0. "VALIDATED" \in Status
    BY DEF Status, Intermediate
  <2>1. /\ r.status = "VALIDATED" /\ r.ack = row[p].ack
        /\ r.at = row[p].at \cup ({"VALIDATED"} \cap StatusStamps) /\ r \in Row
    BY <1>1, <2>0, RowFields, RowTypes
  <2>2. Step(p, "validate", r, audit[p], "audit_validated")
    BY <1>8 DEF Validate
  <2>. HIDE DEF r
  <2>3. PreparedStatus("audit_validated") = "VALIDATED"
    BY DEF PreparedStatus
  <2>4. QED
    BY <1>4, <2>1, <2>2, <2>3 DEF r, Preparing
<1>9. CASE Canonicalize(p)
  BY <1>1, <1>4, <1>9, RowFields, RowTypes DEF Canonicalize, Preparing, PreparedStatus
<1>10. CASE Route(p)
  <2>1. PICK d \in Rails :
           Step(p, "route", UpdateRoute(row[p], d), audit[p], "audit_routed")
    BY <1>10 DEF Route
  <2>. DEFINE r == UpdateRoute(row[p], d)
  <2>2. /\ r.status = "ROUTED" /\ r.ack = row[p].ack
        /\ r.at = row[p].at \cup {"ROUTED"} /\ r \in Row
    BY <1>1, RowFields, RowTypes
  <2>. HIDE DEF r
  <2>3. PreparedStatus("audit_routed") = "ROUTED"
    BY DEF PreparedStatus
  <2>4. QED
    BY <1>4, <2>1, <2>2, <2>3 DEF r, Preparing
<1>11. CASE Translate(p)
  <2>1. pc[p] = "translate"
    BY <1>11 DEF Translate, Step
  <2>2. row[p].status = "ROUTED"
    BY <1>2, <2>1 DEF PreparationInv, Preparing, PreparedStatus
  <2>3. QED
    BY <1>1, <1>4, <1>11, <2>2, RowFields, RowTypes
       DEF Translate, Preparing, PreparedStatus
<1>12. CASE Throw(p)
  <2>1. PipelineWrite(p, row[p], "mark_failed")
    BY <1>1, <1>12
       DEF Throw, PipelineWrite, TypeOK, dbVars, railVars, compVars, noteVars
  <2>2. GoodRow(p, row[p], "mark_failed")
    BY DEF GoodRow, Preparing, Settled
  <2>3. QED
    BY <1>1, <2>1, <2>2, PipelineOutcome
<1>13. CASE Publish(p)
  <2>1. PICK next \in {"queue", "mark_failed"} : PipelineWrite(p, row[p], next)
    BY <1>1, <1>13
       DEF Publish, PipelineWrite, TypeOK, Preparing, dbVars, compVars, noteVars
  <2>2. GoodRow(p, row[p], next)
    BY DEF GoodRow, Preparing, Settled
  <2>3. QED
    BY <1>1, <2>1, <2>2, PipelineOutcome
<1>14. CASE Queue(p)
  <2>1. PipelineWrite(p, UpdateStatus(row[p], "QUEUED"), "audit_queued")
    BY <1>14, StepWrites DEF Queue
  <2>2. GoodRow(p, UpdateStatus(row[p], "QUEUED"), "audit_queued")
    BY <1>1, RowFields, StatusKinds DEF GoodRow, Preparing
  <2>3. QED
    BY <1>1, <2>1, <2>2, RowTypes, StatusKinds, PipelineOutcome
<1>15. CASE AuditQueued(p)
  <2>1. PipelineWrite(p, row[p], "done") /\ pc[p] = "audit_queued"
    BY <1>15
       DEF AuditQueued, Await, Write, PipelineWrite, dbVars, railVars, compVars
  <2>2. GoodRow(p, row[p], "done")
    BY <1>2, <2>1 DEF GoodRow, FaultFreeInv, Preparing
  <2>3. QED
    BY <1>1, <2>1, <2>2, PipelineOutcome
<1>16. CASE MarkFailed(p) /\ row[p].status = "ABSENT"
  <2>1. PipelineWrite(p, row[p], "failed")
    BY <1>1, <1>16
       DEF MarkFailed, PipelineWrite, TypeOK, dbVars, railVars, compVars, noteVars
  <2>2. GoodRow(p, row[p], "failed")
    BY <1>16 DEF GoodRow, Preparing, Intermediate
  <2>3. QED
    BY <1>1, <2>1, <2>2, PipelineOutcome
<1>17. CASE MarkFailed(p) /\ row[p].status # "ABSENT"
  <2>1. PipelineWrite(p, UpdateStatus(row[p], "FAILED"), "audit_error")
    BY <1>17
       DEF MarkFailed, Await, Write, PipelineWrite, dbVars, railVars, compVars, noteVars
  <2>2. GoodRow(p, UpdateStatus(row[p], "FAILED"), "audit_error")
    BY <1>1, RowFields, StatusKinds DEF GoodRow, Preparing
  <2>3. QED
    BY <1>1, <2>1, <2>2, RowTypes, StatusKinds, PipelineOutcome
<1>18. CASE AuditError(p)
  <2>1. PipelineWrite(p, row[p], "failed") /\ pc[p] = "audit_error"
    BY <1>18
       DEF AuditError, Await, Write, PipelineWrite, dbVars, railVars, compVars, noteVars
  <2>2. GoodRow(p, row[p], "failed")
    BY <1>2, <2>1 DEF GoodRow, FaultFreeInv, Preparing
  <2>3. QED
    BY <1>1, <2>1, <2>2, PipelineOutcome
<1>19. QED
  BY <1>5, <1>6, <1>7, <1>8, <1>9, <1>10, <1>11, <1>12, <1>13, <1>14, <1>15,
     <1>16, <1>17, <1>18 DEF Pipeline

-----------------------------------------------------------------------------
(* The other handlers find nothing to do while a payment is prepared.      *)

LEMMA NothingToHandle ==
    ASSUME IInv, OutcomeInv, NEW p \in Payments, pc[p] \in Preparing
    PROVE  /\ wire[p] = "none"
           /\ dlq[p] = "none"
           /\ \A n \in AckIds : /\ acks[p][n].stage # "updated"
                                /\ acks[p][n].verdict \notin Verdict
           /\ \A c \in Callers : comp[c].step # "idle" => comp[c].payment # p
<1>1. /\ Ledger!CausallyClosed(Facts(p)) /\ ConsumerInv(p)
      /\ \A c \in Callers : CompInv(c)
  BY DEF IInv, CausalOrder
<1>2. wire[p] = "none" /\ "FAILED" \notin row[p].at
  BY DEF OutcomeInv, PreparationInv
<1>3. row[p].at \subseteq Stamps /\ audit[p] \subseteq AuditEvent
  BY RowAndTrail DEF IInv, Row
<1>4. {"FAILED", "PUBLISHED"} \cap audit[p] = {} /\ "PUBLISHED" \notin row[p].at
  BY <1>3 DEF Stamps, StatusStamps, AuditEvent
<1>5. "PUBLISHED" \notin Facts(p) /\ "FAILED" \notin Facts(p)
  BY <1>2, <1>4, FactsMembers DEF Facts
<1>6. Facts(p) \cap {"RAIL_ACCEPTED", "RAIL_REJECTED", "RAIL_ERRED", "RAIL_GAVE_UP",
                     "ACKED", "DEAD_LETTER"} = {}
  BY <1>1, <1>5 DEF Ledger!CausallyClosed
<1>7. dlq[p] = "none"
  BY <1>6, FactsMembers DEF Facts
<1>8. \A n \in AckIds : acks[p][n].stage # "updated" /\ acks[p][n].verdict \notin Verdict
  <2>1. \A v \in Verdict : ~RailSaid(acks[p], v)
    BY <1>6, FactsMembers DEF Facts, Verdict
  <2>2. QED
    BY <1>1, <1>6, <2>1 DEF ConsumerInv, RailSaid
<1>9. \A c \in Callers : comp[c].step # "idle" => comp[c].payment # p
  <2>1. ~HasFailed(Facts(p))
    BY <1>5, <1>6 DEF HasFailed
  <2>2. QED
    BY <1>1, <2>1 DEF CompInv, StartedWith
<1>10. QED
  BY <1>2, <1>7, <1>8, <1>9

LEMMA RailOutcomes ==
    ASSUME IInv, OutcomeInv, NEW p \in Payments, Flush(p) \/ Rail(p)
    PROVE  OutcomeInv'
<1>1. OutcomeAt(p) /\ ConsumerInv(p)
  BY DEF OutcomeInv, OutcomeAt, IInv
<1>2. /\ wire \in [Payments -> {"none", "buffered", "queued", "gone", "lost"}]
      /\ acks \in [Payments -> [AckIds -> [stage   : AckStage,
                                          verdict : Verdict \cup {"MALFORMED"}]]]
  BY DEF IInv, TypeOK
<1>3. /\ UNCHANGED <<row, pc, comp, fired, shown, dbErrors, crashes>>
      /\ wire[p] # "none"
  BY DEF Flush, Rail, RailAnswers, RailRetries, RailGivesUp, dbVars, compVars, noteVars
<1>4. FaultsCount /\ (UnderCompensation(p) => UnderCompensation(p)')
  BY <1>3 DEF FaultsCount, UnderCompensation
<1>5. \A q \in Payments : q # p => Untouched(q)
  <2>1. \A q \in Payments : q # p => wire'[q] = wire[q] /\ acks'[q] = acks[q]
    <3>1. CASE \E n \in AckIds, v \in Verdict \cup {"MALFORMED"} : RailAnswers(p, n, v)
      BY <1>2, <3>1 DEF RailAnswers
    <3>2. CASE Flush(p) \/ RailRetries(p) \/ RailGivesUp(p)
      BY <1>2, <3>2 DEF Flush, RailRetries, RailGivesUp
    <3>3. QED
      BY <3>1, <3>2 DEF Rail
  <2>2. QED
    BY <1>3, <2>1 DEF Untouched
<1>6. PreparationInv(p)' /\ FaultFreeInv(p)'
  <2>1. PreparationInv(p)'
    BY <1>1, <1>3 DEF OutcomeAt, PreparationInv
  <2>2. FaultFreeInv(p)'
    BY <1>1, <1>3, <1>4 DEF OutcomeAt, FaultFreeInv
  <2>3. QED
    BY <2>1, <2>2
<1>7. AnswerInv(p)'
  <2>1. CASE acks' = acks
    BY <1>1, <1>3, <2>1 DEF OutcomeAt, AnswerInv
  <2>2. ASSUME NEW n \in AckIds, NEW v \in Verdict \cup {"MALFORMED"}, RailAnswers(p, n, v)
        PROVE  AnswerInv(p)'
    <3>1. /\ acks[p][n].stage = "none" /\ acks[p][n].verdict = "MALFORMED"
          /\ acks'[p][n].stage = "queued"
          /\ \A m \in AckIds : m # n => acks'[p][m] = acks[p][m]
      BY <1>1, <1>2, <2>2 DEF RailAnswers, ConsumerInv
    <3>2. \A u \in Verdict : RailSaid(acks[p], u) => RailSaid(acks'[p], u)
      BY <3>1 DEF RailSaid, Verdict
    <3>3. row[p].ack # "none" => row[p].ack \in Verdict
      BY DEF IInv, TypeOK, Row
    <3>4. QED
      BY <1>1, <1>3, <3>1, <3>2, <3>3 DEF OutcomeAt, AnswerInv
  <2>3. QED
    BY <2>1, <2>2 DEF Flush, Rail, RailRetries, RailGivesUp
<1>8. QED
  BY <1>3, <1>4, <1>5, <1>6, <1>7, OutcomeOneStep DEF OutcomeAt

-----------------------------------------------------------------------------
(* A database call of a consumer or of the compensation service.           *)

HandlerWrite(p, r) ==
    /\ row' = [row EXCEPT ![p] = r] \/ row' = row
    /\ UNCHANGED <<pc, wire, crashes>>
    /\ \/ UNCHANGED dbErrors /\ row' = [row EXCEPT ![p] = r]
       \/ Rejected
    /\ \A q \in Payments : q # p => /\ acks'[q] = acks[q] /\ fired'[q] = fired[q]
                                    /\ shown'[q] = shown[q]

(* The compensation calls about payments other than p go on.               *)
OthersGoOn(p) ==
    \A q \in Payments : q # p => (UnderCompensation(q) => UnderCompensation(q)')

LEMMA HandlerOutcome ==
    ASSUME IInv, OutcomeInv, NEW p \in Payments, NEW r \in Row, HandlerWrite(p, r),
           pc[p] \notin Preparing, OthersGoOn(p), AnswerInv(p)',
           r.status \notin Intermediate \/ r.status = row[p].status,
           \/ r.status # "COMPENSATING" /\ dbErrors' = dbErrors
           \/ UnderCompensation(p)'
           \/ dbErrors' # 0
           \/ r.status = row[p].status /\ (UnderCompensation(p) => UnderCompensation(p)')
    PROVE  OutcomeInv'
<1>1. OutcomeAt(p) /\ \A q \in Payments : OutcomeAt(q)
  BY DEF OutcomeInv, OutcomeAt
<1>2. row \in [Payments -> Row] /\ TypeOK
  BY DEF IInv, TypeOK
<1>3. FaultsCount
  BY <1>2, ErrorsCount DEF HandlerWrite
<1>4. /\ row'[p] = r \/ row'[p] = row[p]
      /\ pc' = pc /\ wire' = wire /\ crashes' = crashes
      /\ dbErrors' = 0 => row'[p] = r
  BY <1>2, RejectedCounts DEF HandlerWrite
<1>5. PreparationInv(p)'
  BY <1>4 DEF PreparationInv
<1>6. FaultFreeInv(p)'
  BY <1>1, <1>3, <1>4 DEF OutcomeAt, FaultFreeInv, FaultsCount
<1>7. ASSUME NEW q \in Payments, q # p PROVE OutcomeAt(q)'
  <2>1. Untouched(q)
    BY <1>2, <1>7 DEF HandlerWrite, Untouched
  <2>2. UnderCompensation(q) => UnderCompensation(q)'
    BY <1>7 DEF OthersGoOn
  <2>3. QED
    BY <1>1, <1>3, <1>7, <2>1, <2>2, OutcomeElsewhere
<1>8. QED
  BY <1>5, <1>6, <1>7 DEF OutcomeInv, OutcomeAt

LEMMA AckOutcomes ==
    ASSUME IInv, OutcomeInv, NEW p \in Payments, AckConsumer(p)
    PROVE  OutcomeInv'
<1>1. PICK n \in AckIds : AckDiscard(p, n) \/ AckUpdate(p, n) \/ AckAudit(p, n)
  BY DEF AckConsumer
<1>2. /\ TypeOK /\ AnswerInv(p) /\ ConsumerInv(p)
      /\ row \in [Payments -> Row] /\ row[p] \in Row
      /\ fired \in [Payments -> SUBSET Status]
      /\ shown \in [Payments -> Status \cup {"none"}]
  BY DEF IInv, TypeOK, OutcomeInv
<1>3. /\ pc' = pc /\ wire' = wire /\ crashes' = crashes /\ comp' = comp
      /\ UNCHANGED dbErrors \/ Rejected
      /\ dbErrors' = 0 => dbErrors = 0
  <2>1. /\ pc' = pc /\ wire' = wire /\ crashes' = crashes /\ comp' = comp
        /\ UNCHANGED dbErrors \/ Rejected
    BY <1>1 DEF AckDiscard, AckUpdate, AckAudit, Await, railVars, compVars
  <2>2. QED
    BY <1>2, <2>1, RejectedCounts
<1>4. PICK st \in AckStage : AckGoes(p, n, st)
  BY <1>1 DEF AckDiscard, AckUpdate, AckAudit, Await, AckStage
<1>5. /\ \A q \in Payments : q # p => acks'[q] = acks[q]
      /\ \A v : RailSaid(acks'[p], v) <=> RailSaid(acks[p], v)
      /\ \A m \in AckIds : /\ acks'[p][m].verdict = acks[p][m].verdict
                           /\ m # n => acks'[p][m] = acks[p][m]
      /\ acks'[p][n].stage = st
  BY <1>2, <1>4, AckGoesKeeps DEF RailSaid
<1>6. OthersGoOn(p) /\ (UnderCompensation(p) => UnderCompensation(p)')
  BY <1>3 DEF OthersGoOn, UnderCompensation
<1>7. CASE AckDiscard(p, n)
  <2>1. /\ row' = row /\ fired' = fired /\ shown' = shown /\ dbErrors' = dbErrors
        /\ st = "dropped" /\ acks[p][n].verdict = "MALFORMED"
    BY <1>5, <1>7, AckGoesKeeps, <1>2 DEF AckDiscard, dbVars, noteVars
  <2>2. AnswerInv(p)'
    BY <1>2, <1>5, <2>1 DEF AnswerInv
  <2>3. OutcomeAt(p)'
    BY <1>3, <1>6, <2>1, <2>2 DEF OutcomeInv, OutcomeAt, PreparationInv, FaultFreeInv
  <2>4. FaultsCount /\ \A q \in Payments : q # p => Untouched(q)
    BY <1>3, <1>5, <2>1 DEF FaultsCount, Untouched
  <2>5. QED
    BY <1>3, <2>3, <2>4, OutcomeOneStep
<1>8. CASE AckUpdate(p, n)
  <2>. DEFINE v == acks[p][n].verdict
              r == UpdateRailAck(row[p], v)
  <2>1. /\ v \in Verdict /\ fired' = fired /\ shown' = shown
        /\ UNCHANGED <<pc, wire, crashes>>
        /\ \/ row' = [row EXCEPT ![p] = r] /\ UNCHANGED dbErrors /\ AckGoes(p, n, "updated")
           \/ /\ row' = [row EXCEPT ![p] = r] \/ row' = row
              /\ Rejected /\ AckGoes(p, n, "dropped")
    BY <1>8 DEF AckUpdate, Await, Write, dbVars, railVars, noteVars
  <2>2. r \in Row /\ r.ack = v /\ r.status = FinalStatus(v)
    <3>1. v \in Verdict /\ row[p] \in Row
      BY <1>2, <2>1
    <3>. HIDE DEF v
    <3>2. QED
      BY <3>1, RowFields, RowTypes
  <2>3. pc[p] \notin Preparing
    BY <2>1, NothingToHandle
  <2>4. r.status \notin Intermediate /\ r.status # "COMPENSATING"
    BY <2>2, StatusKinds
  <2>5. \/ acks'[p][n].stage = "updated"
        \/ acks'[p][n].stage = "dropped" /\ dbErrors' # 0
    <3>1. CASE AckGoes(p, n, "updated")
      BY <1>2, <3>1, AckGoesKeeps
    <3>2. CASE AckGoes(p, n, "dropped") /\ Rejected
      BY <1>2, <3>2, AckGoesKeeps, RejectedCounts
    <3>3. QED
      BY <2>1, <3>1, <3>2
  <2>6. RailSaid(acks[p], v)
    BY DEF RailSaid
  <2>. HIDE DEF r, v
  <2>7. row'[p] = r \/ row'[p] = row[p]
    BY <1>2, <2>1
  <2>8. acks'[p][n].verdict = v
    BY <1>5 DEF v
  <2>9. AnswerInv(p)'
    <3>1. row'[p].ack # "none" => RailSaid(acks'[p], row'[p].ack)
      BY <1>2, <1>5, <2>2, <2>6, <2>7 DEF AnswerInv
    <3>2. QED
      BY <1>2, <1>3, <1>5, <2>1, <2>5, <2>8, <3>1 DEF AnswerInv
  <2>10. HandlerWrite(p, r)
    BY <1>5, <2>1 DEF HandlerWrite
  <2>11. dbErrors' = dbErrors \/ dbErrors' # 0
    BY <1>2, <1>3, RejectedCounts
  <2>12. QED
    BY <1>6, <2>2, <2>3, <2>4, <2>9, <2>10, <2>11, HandlerOutcome
<1>9. CASE AckAudit(p, n)
  <2>. DEFINE v == acks[p][n].verdict
              final == FinalStatus(v)
  <2>1. /\ acks[p][n].stage = "updated"
        /\ UNCHANGED <<pc, wire, crashes>>
        /\ \/ /\ row' = [row EXCEPT ![p] = row[p]] /\ UNCHANGED dbErrors
              /\ AckGoes(p, n, "acked")
              /\ shown' = [shown EXCEPT ![p] = final]
              /\ fired' = [fired EXCEPT ![p] = @ \cup {final}]
           \/ /\ row' = [row EXCEPT ![p] = row[p]] \/ row' = row
              /\ Rejected /\ AckGoes(p, n, "dropped")
              /\ shown' = shown /\ fired' = fired
    BY <1>9 DEF AckAudit, Await, Write, dbVars, railVars, noteVars
  <2>2. v \in Verdict /\ RailSaid(acks[p], v)
    BY <1>2, <2>1 DEF AnswerInv, RailSaid
  <2>3. pc[p] \notin Preparing
    BY <2>1, NothingToHandle
  <2>4. row'[p] = row[p]
    BY <1>2, <2>1
  <2>5. \/ /\ acks'[p][n].stage = "acked"
           /\ fired'[p] = fired[p] \cup {final} /\ shown'[p] = final
        \/ /\ acks'[p][n].stage = "dropped" /\ dbErrors' # 0
           /\ fired'[p] = fired[p] /\ shown'[p] = shown[p]
    BY <1>2, <2>1, AckGoesKeeps, RejectedCounts DEF AckStage
  <2>6. acks'[p][n].verdict = v
    BY <1>5
  <2>7. \A q \in Payments : q # p => fired'[q] = fired[q] /\ shown'[q] = shown[q]
    BY <1>2, <2>1
  <2>8. AnswerInv(p)'
    <3>1. \A s \in fired'[p] : \E u \in Verdict : RailSaid(acks'[p], u) /\ FinalStatus(u) = s
      BY <1>2, <1>5, <2>2, <2>5 DEF AnswerInv
    <3>2. shown'[p] \in fired'[p] \cup {"none", "QUEUED"}
      BY <1>2, <2>5 DEF AnswerInv
    <3>3. row'[p].ack # "none" => RailSaid(acks'[p], row'[p].ack)
      BY <1>2, <1>5, <2>4 DEF AnswerInv
    <3>. HIDE DEF v
    <3>4. QED
      BY <1>2, <1>3, <1>5, <2>5, <2>6, <3>1, <3>2, <3>3 DEF AnswerInv
  <2>9. HandlerWrite(p, row[p])
    BY <1>5, <2>1, <2>7 DEF HandlerWrite
  <2>10. QED
    BY <1>2, <1>6, <2>3, <2>8, <2>9, HandlerOutcome
<1>10. QED
  BY <1>1, <1>7, <1>8, <1>9

(* The other handlers tell nobody and keep the rail_ack column.            *)
LEMMA QuietAnswers ==
    ASSUME IInv, OutcomeInv, NEW p \in Payments, NEW r, r.ack = row[p].ack,
           row' = [row EXCEPT ![p] = r] \/ row' = row,
           UNCHANGED <<acks, fired, shown>>, UNCHANGED dbErrors \/ Rejected
    PROVE  AnswerInv(p)'
<1>1. AnswerInv(p) /\ TypeOK /\ row \in [Payments -> Row]
  BY DEF OutcomeInv, IInv, TypeOK
<1>2. row'[p].ack = row[p].ack
  BY <1>1
<1>3. dbErrors' = 0 => dbErrors = 0
  BY <1>1, RejectedCounts
<1>4. QED
  BY <1>1, <1>2, <1>3 DEF AnswerInv, RailSaid

LEMMA DlqOutcomes ==
    ASSUME IInv, OutcomeInv, NEW p \in Payments, DlqHandler(p)
    PROVE  OutcomeInv'
<1>1. TypeOK /\ row[p] \in Row
  BY DEF IInv, TypeOK
<1>2. /\ UNCHANGED <<pc, wire, acks, comp, shown, fired, crashes>>
      /\ dlq[p] # "none" /\ (UNCHANGED dbErrors \/ Rejected)
  BY DEF DlqHandler, DlqMark, DlqAudit, Await, railVars, compVars, noteVars
<1>3. OthersGoOn(p) /\ (UnderCompensation(p) => UnderCompensation(p)')
  BY <1>2 DEF OthersGoOn, UnderCompensation
<1>4. pc[p] \notin Preparing
  BY <1>2, NothingToHandle
<1>5. dbErrors' = dbErrors \/ dbErrors' # 0
  BY <1>1, <1>2, RejectedCounts
<1>6. CASE DlqMark(p)
  <2>. DEFINE r == UpdateStatus(row[p], "DEAD_LETTER")
  <2>1. r \in Row /\ r.ack = row[p].ack /\ r.status = "DEAD_LETTER"
    <3>1. "DEAD_LETTER" \in Status
      BY StatusKinds
    <3>2. QED
      BY <1>1, <3>1, RowFields, RowTypes
  <2>2. \/ row' = [row EXCEPT ![p] = r] /\ UNCHANGED dbErrors
        \/ Rejected /\ (row' = [row EXCEPT ![p] = r] \/ row' = row)
    BY <1>6 DEF DlqMark, Await, Write, dbVars
  <2>. HIDE DEF r
  <2>3. AnswerInv(p)' /\ HandlerWrite(p, r)
    BY <1>2, <2>1, <2>2, QuietAnswers DEF HandlerWrite
  <2>4. r.status \notin Intermediate /\ r.status # "COMPENSATING"
    BY <2>1, StatusKinds
  <2>5. QED
    BY <1>3, <1>4, <1>5, <2>1, <2>3, <2>4, HandlerOutcome
<1>7. CASE DlqAudit(p)
  <2>1. \/ row' = [row EXCEPT ![p] = row[p]] /\ UNCHANGED dbErrors
        \/ Rejected /\ (row' = [row EXCEPT ![p] = row[p]] \/ row' = row)
    BY <1>7 DEF DlqAudit, Await, Write, dbVars
  <2>2. AnswerInv(p)' /\ HandlerWrite(p, row[p])
    BY <1>2, <2>1, QuietAnswers DEF HandlerWrite
  <2>3. QED
    BY <1>1, <1>3, <1>4, <2>2, HandlerOutcome
<1>8. QED
  BY <1>6, <1>7 DEF DlqHandler

(* Caller c writes row r of payment p and goes on with its call.           *)
CallWrite(c, p, r) ==
    /\ comp[c].step # "idle" /\ p = comp[c].payment
    /\ pc' = pc /\ wire' = wire /\ acks' = acks /\ shown' = shown
    /\ fired' = fired /\ crashes' = crashes
    /\ \/ row' = [row EXCEPT ![p] = r] /\ UNCHANGED dbErrors
       \/ Rejected /\ (row' = [row EXCEPT ![p] = r] \/ row' = row)
    /\ \A b \in Callers : b # c => comp'[b] = comp[b]

LEMMA CallOutcome ==
    ASSUME IInv, OutcomeInv, NEW c \in Callers, NEW p, NEW r \in Row,
           CallWrite(c, p, r), r.ack = row[p].ack,
           r.status \notin Intermediate \/ r.status = row[p].status,
           \/ r.status # "COMPENSATING"
           \/ UnderCompensation(p)'
           \/ dbErrors' # 0
           \/ /\ r.status = row[p].status
              /\ comp[c].step \notin {"audit_started", "reverse", "complete"}
    PROVE  OutcomeInv'
<1>1. p \in Payments /\ TypeOK
  BY DEF IInv, CompInv, CallWrite
<1>2. OthersGoOn(p)
  BY DEF OthersGoOn, UnderCompensation, CallWrite
<1>3. comp[c].step \notin {"audit_started", "reverse", "complete"}
         => (UnderCompensation(p) => UnderCompensation(p)')
  BY DEF UnderCompensation, CallWrite
<1>4. pc[p] \notin Preparing
  BY <1>1, NothingToHandle DEF CallWrite
<1>5. AnswerInv(p)' /\ HandlerWrite(p, r)
  BY <1>1, QuietAnswers DEF HandlerWrite, CallWrite
<1>6. dbErrors' = dbErrors \/ dbErrors' # 0
  BY <1>1, RejectedCounts DEF CallWrite
<1>7. QED
  BY <1>1, <1>2, <1>3, <1>4, <1>5, <1>6, HandlerOutcome

LEMMA CompensateOutcomes ==
    ASSUME IInv, OutcomeInv, NEW c \in Callers, Compensate(c)
    PROVE  OutcomeInv'
<1>1. /\ comp[c].step # "idle" /\ (UNCHANGED dbErrors \/ Rejected)
      /\ UNCHANGED <<pc, wire, acks, shown, fired, crashes>>
      /\ \/ CompReturns(c) \/ CompThrows(c)
         \/ \E step \in CompStep : CompGoes(c, step)
  BY DEF Compensate, Start, AuditStarted, AuditReversal, Complete, AuditCompleted,
         AuditFailed, CompCall, Await, CompStep, railVars, noteVars
<1>2. PICK p \in Payments : p = comp[c].payment
  BY <1>1 DEF IInv, CompInv
<1>. TypeOK
  BY DEF IInv
<1>3. comp \in [Callers -> [step : CompStep, payment : Payments \cup {NoPayment},
                            acked : BOOLEAN]]
  BY DEF TypeOK
<1>4. row[p] \in Row /\ (dbErrors' = dbErrors \/ dbErrors' # 0)
  BY <1>1, <1>2, RejectedCounts DEF TypeOK
<1>5. \A b \in Callers : b # c => comp'[b] = comp[b]
  BY <1>1, <1>3 DEF CompReturns, CompThrows, CompGoes
<1>6. ASSUME NEW step \in {"audit_started", "reverse", "complete"}, CompGoes(c, step)
      PROVE  UnderCompensation(p)'
  <2>1. comp'[c].step = step /\ comp'[c].payment = p
    BY <1>2, <1>3, <1>6 DEF CompGoes
  <2>2. QED
    BY <2>1 DEF UnderCompensation
<1>7. CASE Start(c)
  <2>. DEFINE r == UpdateStatus(row[p], "COMPENSATING")
  <2>1. r \in Row /\ r.ack = row[p].ack /\ r.status = "COMPENSATING"
    <3>1. "COMPENSATING" \in Status
      BY StatusKinds
    <3>2. QED
      BY <1>4, <3>1, RowFields, RowTypes
  <2>2. \/ /\ row' = [row EXCEPT ![p] = r] /\ UNCHANGED dbErrors
           /\ CompGoes(c, "audit_started")
        \/ Rejected /\ (row' = [row EXCEPT ![p] = r] \/ row' = row)
    BY <1>2, <1>7 DEF Start, CompCall, Await, Write, dbVars
  <2>. HIDE DEF r
  <2>3. UnderCompensation(p)' \/ dbErrors' # 0
    BY <1>2, <1>6, <2>2, RejectedCounts
  <2>4. r.status \notin Intermediate
    BY <2>1, StatusKinds
  <2>5. CallWrite(c, p, r)
    BY <1>1, <1>2, <1>5, <2>2 DEF CallWrite
  <2>6. QED
    BY <2>1, <2>3, <2>4, <2>5, CallOutcome
<1>8. CASE AuditStarted(c) \/ AuditReversal(c)
  <2>1. \/ /\ row' = [row EXCEPT ![p] = row[p]] /\ UNCHANGED dbErrors
           /\ CompGoes(c, "reverse") \/ CompGoes(c, "complete")
        \/ Rejected /\ (row' = [row EXCEPT ![p] = row[p]] \/ row' = row)
    BY <1>2, <1>8 DEF AuditStarted, AuditReversal, CompCall, Await, Write, dbVars
  <2>2. UnderCompensation(p)' \/ dbErrors' # 0
    BY <1>2, <1>6, <2>1, RejectedCounts
  <2>3. CallWrite(c, p, row[p])
    BY <1>1, <1>2, <1>5, <2>1 DEF CallWrite
  <2>4. QED
    BY <1>4, <2>2, <2>3, CallOutcome
<1>9. CASE Complete(c)
  <2>. DEFINE r == UpdateStatus(row[p], "COMPENSATED")
  <2>1. r \in Row /\ r.ack = row[p].ack /\ r.status = "COMPENSATED"
    <3>1. "COMPENSATED" \in Status
      BY StatusKinds
    <3>2. QED
      BY <1>4, <3>1, RowFields, RowTypes
  <2>2. \/ row' = [row EXCEPT ![p] = r] /\ UNCHANGED dbErrors
        \/ Rejected /\ (row' = [row EXCEPT ![p] = r] \/ row' = row)
    BY <1>2, <1>9 DEF Complete, CompCall, Await, Write, dbVars
  <2>. HIDE DEF r
  <2>3. r.status \notin Intermediate /\ r.status # "COMPENSATING"
    BY <2>1, StatusKinds
  <2>4. CallWrite(c, p, r)
    BY <1>1, <1>2, <1>5, <2>2 DEF CallWrite
  <2>5. QED
    BY <2>1, <2>3, <2>4, CallOutcome
<1>10. CASE AuditCompleted(c) \/ AuditFailed(c)
  <2>1. /\ \/ row' = [row EXCEPT ![p] = row[p]] /\ UNCHANGED dbErrors
           \/ Rejected /\ (row' = [row EXCEPT ![p] = row[p]] \/ row' = row)
        /\ comp[c].step \notin {"audit_started", "reverse", "complete"}
    BY <1>2, <1>10 DEF AuditCompleted, AuditFailed, CompCall, Await, Write, dbVars
  <2>2. CallWrite(c, p, row[p])
    BY <1>1, <1>2, <1>5, <2>1 DEF CallWrite
  <2>3. QED
    BY <1>4, <2>1, <2>2, CallOutcome
<1>11. QED
  BY <1>7, <1>8, <1>9, <1>10 DEF Compensate

(* A caller that chooses a payment was compensating none.                  *)
LEMMA FindOutcomes ==
    ASSUME IInv, OutcomeInv, NEW c \in Callers,
           CompensateBatch(c) \/ \E p \in Payments : Find(c, p)
    PROVE  OutcomeInv'
<1>1. /\ UNCHANGED <<row, pc, wire, acks, shown, fired, crashes>>
      /\ UNCHANGED dbErrors \/ Rejected
      /\ comp[c].step = "idle" /\ TypeOK
  BY DEF CompensateBatch, Find, dbVars, railVars, noteVars, IInv
<1>2. \A b \in Callers : b # c => comp'[b] = comp[b]
  BY <1>1 DEF CompensateBatch, Find, CompThrows, TypeOK
<1>3. FaultsCount
  BY <1>1, RejectedCounts DEF FaultsCount
<1>4. \A q \in Payments : Untouched(q) /\ (UnderCompensation(q) => UnderCompensation(q)')
  BY <1>1, <1>2 DEF Untouched, UnderCompensation
<1>5. QED
  BY <1>3, <1>4, OutcomeElsewhere DEF OutcomeInv, OutcomeAt

(* A crash forgets how far an ACK was taken, and leaves no run preparing.  *)
LEMMA CrashOutcomes ==
    ASSUME IInv, OutcomeInv, Crash
    PROVE  OutcomeInv'
<1>1. /\ acks \in [Payments -> [AckIds -> [stage   : AckStage,
                                          verdict : Verdict \cup {"MALFORMED"}]]]
      /\ UNCHANGED <<row, shown, fired, dbErrors>>
  BY DEF IInv, TypeOK, Crash, dbVars, noteVars
<1>2. crashes' # 0
  BY PaymentsAssumption DEF Crash, IInv, TypeOK
<1>3. ASSUME NEW p \in Payments
      PROVE  AnswerInv(p)' /\ PreparationInv(p)' /\ FaultFreeInv(p)'
  <2>1. \A n \in AckIds :
           /\ acks'[p][n].verdict = acks[p][n].verdict
           /\ acks'[p][n].stage # acks[p][n].stage => acks'[p][n].stage = "queued"
    <3>1. TAKE n \in AckIds
    <3>2. acks'[p][n] = IF acks[p][n].stage = "updated"
                        THEN [acks[p][n] EXCEPT !.stage = "queued"]
                        ELSE acks[p][n]
      BY DEF Crash
    <3>3. acks[p][n] \in [stage : AckStage, verdict : Verdict \cup {"MALFORMED"}]
      BY <1>1
    <3>4. QED
      BY <3>2, <3>3
  <2>2. AnswerInv(p)'
    <3>1. AnswerInv(p) /\ row' = row /\ shown' = shown /\ fired' = fired
          /\ dbErrors' = dbErrors
      BY <1>1 DEF OutcomeInv
    <3>2. \A v : RailSaid(acks'[p], v) <=> RailSaid(acks[p], v)
      BY <2>1 DEF RailSaid
    <3>3. QED
      BY <2>1, <3>1, <3>2 DEF AnswerInv
  <2>3. pc'[p] \notin Preparing
    BY DEF Crash, Running, Preparing
  <2>4. QED
    BY <1>2, <2>2, <2>3 DEF PreparationInv, FaultFreeInv
<1>4. QED
  BY <1>3 DEF OutcomeInv

LEMMA StutterOutcome ==
    ASSUME OutcomeInv, UNCHANGED vars
    PROVE  OutcomeInv'
<1>1. /\ row' = row /\ pc' = pc /\ wire' = wire /\ acks' = acks /\ comp' = comp
      /\ shown' = shown /\ fired' = fired /\ dbErrors' = dbErrors
      /\ crashes' = crashes
  BY DEF vars
<1>2. FaultsCount /\ \A q \in Payments :
                        Untouched(q) /\ (UnderCompensation(q) => UnderCompensation(q)')
  BY <1>1 DEF FaultsCount, Untouched, UnderCompensation
<1>3. QED
  BY <1>2, OutcomeElsewhere DEF OutcomeInv, OutcomeAt

-----------------------------------------------------------------------------
(* The invariant, and what follows from it.                                *)

LEMMA InitOutcome ==
    ASSUME Init
    PROVE  OutcomeInv
<1>1. SUFFICES ASSUME NEW p \in Payments
               PROVE  AnswerInv(p) /\ PreparationInv(p) /\ FaultFreeInv(p)
  BY DEF OutcomeInv
<1>2. /\ row[p].ack = "none" /\ row[p].status = "ABSENT"
      /\ pc[p] = "idle" /\ fired[p] = {} /\ shown[p] = "none"
      /\ \A n \in AckIds : acks[p][n] = NoAck
  BY DEF Init, NoRow
<1>3. AnswerInv(p)
  BY <1>2 DEF AnswerInv, NoAck
<1>4. PreparationInv(p) /\ FaultFreeInv(p)
  BY <1>2 DEF PreparationInv, FaultFreeInv, Preparing
<1>5. QED
  BY <1>3, <1>4

LEMMA OutcomeStep ==
    ASSUME IInv, OutcomeInv, [Next]_vars
    PROVE  OutcomeInv'
BY PipelineOutcomes, RailOutcomes, AckOutcomes, DlqOutcomes, CompensateOutcomes,
   FindOutcomes, CrashOutcomes, StutterOutcome DEF Next

LEMMA OutcomeInvariance == Spec => []OutcomeInv
<1>1. IInv /\ OutcomeInv /\ [Next]_vars => OutcomeInv'
  BY OutcomeStep
<1>2. QED
  BY <1>1, InitOutcome, Invariance, PTL DEF Spec

(* The ACK column shows an answer the rail gave, and without a rejected    *)
(* database call the ACK consumer throws no well-formed answer away.       *)
THEOREM AcksKept == Spec => []AcksAreKept
<1>1. OutcomeInv => AcksAreKept
  BY DEF OutcomeInv, AnswerInv, AcksAreKept
<1>2. QED
  BY <1>1, OutcomeInvariance, PTL

(* Whatever overlaps and crashes, an acknowledged ACK was announced, and   *)
(* no webhook or SSE client is told of an outcome no rail answer implies.  *)
THEOREM AnswersAnnounced == Spec => []AnswersAreAnnounced
<1>1. OutcomeInv => AnswersAreAnnounced
  BY DEF OutcomeInv, AnswerInv, AnswersAreAnnounced
<1>2. QED
  BY <1>1, OutcomeInvariance, PTL

(* Without a crash or a rejected database call every payment on which all  *)
(* handlers have ended shows a final status: the catch block, the ACK and  *)
(* DLQ consumers and the compensation service leave none half way.         *)
THEOREM OnlyFaultsStrand == Spec => []StrandedOnlyByFaults
<1>1. ASSUME IInv, OutcomeInv, crashes = 0, dbErrors = 0,
             NEW p \in Payments, AtRest(p)
      PROVE  row[p].status \notin Intermediate \cup {"COMPENSATING"}
  <2>1. PipelineInv(p) /\ FaultFreeInv(p)
    BY <1>1 DEF IInv, OutcomeInv
  <2>2. pc[p] \in {"done", "failed", "refused"}
    BY <1>1, <2>1 DEF AtRest, Ended, FaultFreeInv
  <2>3. CASE pc[p] = "refused"
    <3>1. row[p].status = "ABSENT"
      BY <2>1, <2>3, FactsMembers DEF PipelineInv, KnownAt, Facts
    <3>2. QED
      BY <3>1 DEF Intermediate
  <2>4. CASE pc[p] \in {"done", "failed"}
    BY <1>1, <2>1, <2>4 DEF FaultFreeInv, AtRest, UnderCompensation
  <2>5. QED
    BY <2>2, <2>3, <2>4
<1>2. IInv /\ OutcomeInv => StrandedOnlyByFaults
  BY <1>1 DEF StrandedOnlyByFaults
<1>3. QED
  BY <1>2, Invariance, OutcomeInvariance, PTL

-----------------------------------------------------------------------------
(* Every write of a status leaves preparation or takes it one stage on.    *)

Advances(s, t) == t # s /\ StageOf(t) < 5 => StageOf(t) = StageOf(s) + 1

RowsAdvance == \A q \in Payments : Advances(row[q].status, row'[q].status)

LEMMA WriteAdvances ==
    ASSUME TypeOK, NEW p \in Payments, NEW r, NEW a,
           Write(p, r, a) \/ UNCHANGED dbVars, Advances(row[p].status, r.status)
    PROVE  RowsAdvance
<1>1. row \in [Payments -> Row]
  BY DEF TypeOK
<1>2. \A q \in Payments : row'[q] = row[q] \/ (q = p /\ row'[q] = r)
  BY <1>1 DEF Write, dbVars
<1>3. QED
  BY <1>2 DEF RowsAdvance, Advances

LEMMA StageOrder ==
    /\ \A s : Advances(s, s)
    /\ Advances("ABSENT", "RECEIVED") /\ Advances("RECEIVED", "VALIDATED")
    /\ Advances("VALIDATED", "CANONICALIZED") /\ Advances("CANONICALIZED", "ROUTED")
    /\ \A s, t : t \in Status \ Intermediate => Advances(s, t)
<1>1. /\ StageOf("ABSENT") = 0 /\ StageOf("RECEIVED") = 1 /\ StageOf("VALIDATED") = 2
      /\ StageOf("CANONICALIZED") = 3 /\ StageOf("ROUTED") = 4
  BY DEF StageOf
<1>2. \A t \in Status \ Intermediate : StageOf(t) = 5
  BY DEF StageOf, Status, Intermediate, Compensable
<1>3. QED
  BY <1>1, <1>2 DEF Advances

LEMMA PipelineAdvances ==
    ASSUME IInv, OutcomeInv, NEW p \in Payments,
           RefuseAlias(p) \/ Create(p) \/ Pipeline(p)
    PROVE  RowsAdvance
<1>1. TypeOK /\ row[p] \in Row /\ PreparationInv(p)
  BY DEF IInv, TypeOK, OutcomeInv
<1>2. ASSUME NEW here, NEW r, NEW a, NEW next, Step(p, here, r, a, next),
             Advances(row[p].status, r.status)
      PROVE  RowsAdvance
  BY <1>1, <1>2, WriteAdvances DEF Step, Await
<1>3. CASE RefuseAlias(p) \/ Throw(p) \/ Publish(p)
  BY <1>1, <1>3, WriteAdvances, StageOrder DEF RefuseAlias, Throw, Publish
<1>4. CASE Create(p)
  <2>1. row[p].status = "ABSENT"
    BY <1>4, Fresh DEF Create, Step
  <2>2. QED
    BY <1>1, <1>2, <1>4, <2>1, RowFields, StageOrder DEF Create
<1>5. CASE AuditReceived(p) \/ AuditValidated(p) \/ AuditCanonical(p)
             \/ Normalize(p) \/ AuditRouted(p)
  BY <1>2, <1>5, StageOrder
     DEF AuditReceived, AuditValidated, AuditCanonical, Normalize, AuditRouted, LogStep
<1>6. CASE Validate(p)
  <2>1. row[p].status = "RECEIVED"
    BY <1>1, <1>6 DEF Validate, Step, PreparationInv, Preparing, PreparedStatus
  <2>2. UpdateStatus(row[p], "VALIDATED").status = "VALIDATED"
    BY <1>1, RowFields DEF Status, Intermediate
  <2>3. QED
    BY <1>2, <1>6, <2>1, <2>2, StageOrder DEF Validate
<1>7. CASE Canonicalize(p)
  <2>1. row[p].status = "VALIDATED"
    BY <1>1, <1>7 DEF Canonicalize, Step, PreparationInv, Preparing, PreparedStatus
  <2>2. QED
    BY <1>1, <1>2, <1>7, <2>1, RowFields, StageOrder DEF Canonicalize
<1>8. CASE Route(p)
  <2>1. PICK d \in Rails :
           Step(p, "route", UpdateRoute(row[p], d), audit[p], "audit_routed")
    BY <1>8 DEF Route
  <2>2. row[p].status = "CANONICALIZED"
    BY <1>1, <2>1 DEF Step, PreparationInv, Preparing, PreparedStatus
  <2>3. UpdateRoute(row[p], d).status = "ROUTED"
    BY <1>1, RowFields
  <2>4. QED
    BY <1>2, <2>1, <2>2, <2>3, StageOrder
<1>9. CASE Translate(p)
  BY <1>1, <1>2, <1>9, RowFields, StageOrder DEF Translate
<1>10. CASE Queue(p)
  <2>1. UpdateStatus(row[p], "QUEUED").status \in Status \ Intermediate
    BY <1>1, RowFields, StatusKinds
  <2>2. QED
    BY <1>2, <1>10, <2>1, StageOrder DEF Queue
<1>11. CASE AuditQueued(p) \/ AuditError(p)
  <2>1. PICK a : Write(p, row[p], a) \/ UNCHANGED dbVars
    BY <1>11 DEF AuditQueued, AuditError, Await
  <2>2. QED
    BY <1>1, <2>1, WriteAdvances, StageOrder
<1>12. CASE MarkFailed(p)
  <2>1. UpdateStatus(row[p], "FAILED").status \in Status \ Intermediate
    BY <1>1, RowFields, StatusKinds
  <2>2. Write(p, UpdateStatus(row[p], "FAILED"), audit[p]) \/ UNCHANGED dbVars
    BY <1>12 DEF MarkFailed, Await
  <2>3. QED
    BY <1>1, <2>1, <2>2, WriteAdvances, StageOrder
<1>13. QED
  BY <1>3, <1>4, <1>5, <1>6, <1>7, <1>8, <1>9, <1>10, <1>11, <1>12 DEF Pipeline

LEMMA HandlersAdvance ==
    ASSUME IInv, NEW p \in Payments,
           Flush(p) \/ Rail(p) \/ AckConsumer(p) \/ DlqHandler(p)
    PROVE  RowsAdvance
<1>1. TypeOK /\ row[p] \in Row
  BY DEF IInv, TypeOK
<1>2. UpdateStatus(row[p], "DEAD_LETTER").status \in Status \ Intermediate
  BY <1>1, RowFields, StatusKinds
<1>3. \A v \in Verdict : UpdateRailAck(row[p], v).status \in Status \ Intermediate
  BY <1>1, RowFields, StatusKinds
<1>4. PICK r, a : /\ Write(p, r, a) \/ UNCHANGED dbVars
                  /\ r = row[p] \/ r.status \in Status \ Intermediate
  <2>1. CASE Flush(p) \/ Rail(p)
    BY <2>1 DEF Flush, Rail, RailAnswers, RailRetries, RailGivesUp
  <2>2. CASE AckConsumer(p)
    BY <1>3, <2>2 DEF AckConsumer, AckDiscard, AckUpdate, AckAudit, Await
  <2>3. CASE DlqHandler(p)
    BY <1>2, <2>3 DEF DlqHandler, DlqMark, DlqAudit, Await
  <2>4. QED
    BY <2>1, <2>2, <2>3
<1>5. QED
  BY <1>1, <1>4, WriteAdvances, StageOrder

LEMMA CompensateAdvances ==
    ASSUME IInv, NEW c \in Callers, Compensate(c)
    PROVE  RowsAdvance
<1>1. comp[c].step # "idle"
  BY DEF Compensate, Start, AuditStarted, AuditReversal, Complete, AuditCompleted,
         AuditFailed, CompCall
<1>2. PICK p \in Payments : p = comp[c].payment
  BY <1>1 DEF IInv, CompInv
<1>3. TypeOK /\ row[p] \in Row
  BY DEF IInv, TypeOK
<1>4. \A s \in {"COMPENSATING", "COMPENSATED"} :
         UpdateStatus(row[p], s).status \in Status \ Intermediate
  BY <1>3, RowFields, StatusKinds
<1>5. PICK r, a : /\ Write(p, r, a) \/ UNCHANGED dbVars
                  /\ r = row[p] \/ r.status \in Status \ Intermediate
  BY <1>2, <1>4 DEF Compensate, Start, AuditStarted, AuditReversal, Complete,
                    AuditCompleted, AuditFailed, CompCall, Await
<1>6. QED
  BY <1>3, <1>5, WriteAdvances, StageOrder

LEMMA NextAdvances ==
    ASSUME IInv, OutcomeInv, [Next]_vars
    PROVE  RowsAdvance
<1>1. CASE row' = row
  BY <1>1, StageOrder DEF RowsAdvance
<1>2. CASE UNCHANGED vars \/ Crash \/ \E c \in Callers :
              CompensateBatch(c) \/ \E p \in Payments : Find(c, p)
  BY <1>1, <1>2 DEF vars, Crash, CompensateBatch, Find, dbVars
<1>3. QED
  BY <1>2, PipelineAdvances, HandlersAdvance, CompensateAdvances DEF Next

(* The statuses before publication are written in order, once each, by the *)
(* pipeline alone: no late ACK, dead letter or compensation is followed by *)
(* a return to one of them.                                                *)
THEOREM PreparationAdvances == Spec => PreparationOnlyAdvances
<1>1. IInv /\ OutcomeInv /\ [Next]_vars =>
         [\A p \in Payments :
             row'[p].status # row[p].status /\ StageOf(row'[p].status) < 5
                => StageOf(row'[p].status) = StageOf(row[p].status) + 1]_vars
  BY NextAdvances DEF RowsAdvance, Advances
<1>2. QED
  BY <1>1, Invariance, OutcomeInvariance, PTL DEF Spec, PreparationOnlyAdvances
=============================================================================

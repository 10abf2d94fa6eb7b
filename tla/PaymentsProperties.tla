------------------------- MODULE PaymentsProperties -------------------------
(***************************************************************************)
(* What the handlers of Payments keep true of a payment, what comments of  *)
(* the code say that they do not, and the inductive invariant the proofs   *)
(* use.                                                                    *)
(***************************************************************************)
EXTENDS Payments

(* The history of a payment as PaymentLedger sees it, from its row r, its  *)
(* audit trail a, its message w, its ACKs k and its dead letter d.         *)
FactIf(f, cond) == IF cond THEN {f} ELSE {}

RailSaid(k, v) == \E n \in AckIds : k[n].verdict = v

FactsOf(r, a, w, k, d) ==
    r.at \cup (a \ {"DEAD_LETTER"})
    \cup FactIf("DEAD_LETTER_LOGGED", "DEAD_LETTER" \in a)
    \cup FactIf("RECEIVED", r.status # "ABSENT")
    \cup FactIf("TRANSLATED", r.translated)
    \cup FactIf("PUBLISHED", w # "none")
    \cup FactIf("RAIL_ACCEPTED", RailSaid(k, "ACCEPTED"))
    \cup FactIf("RAIL_REJECTED", RailSaid(k, "REJECTED"))
    \cup FactIf("RAIL_ERRED", RailSaid(k, "ERROR"))
    \cup FactIf("RAIL_GAVE_UP", d # "none")

Facts(p) == FactsOf(row[p], audit[p], wire[p], acks[p], dlq[p])

Ledger == INSTANCE PaymentLedger WITH facts <- [p \in Payments |-> Facts(p)]

(* Refinement: whatever fails, crashes or overlaps, the durable history of *)
(* every payment only grows and never shows an effect before its cause.    *)
HistoryIsCausal == Ledger!Spec

(* The same as an invariant of the state alone: no column, audit event or  *)
(* message of a payment is there without those that must precede it.       *)
CausalOrder == \A p \in Payments : Ledger!CausallyClosed(Facts(p))

-----------------------------------------------------------------------------
(* Properties the handlers have.                                           *)

(* Nothing is at work on payment p any more.                               *)
AtRest(p) ==
    /\ pc[p] \in Ended
    /\ wire[p] \notin {"buffered", "queued"}
    /\ \A n \in AckIds : acks[p][n].stage \notin {"queued", "updated"}
    /\ dlq[p] \notin {"queued", "marked"}
    /\ \A c \in Callers : comp[c].payment # p

(* Only a crash or a rejected database call leaves a payment at rest in a  *)
(* status that promises further work: the catch block of the pipeline and  *)
(* the three consumers always bring it to a status an operator looks for.  *)
(* QUEUED is not among these statuses: it waits for the rail, and a payment*)
(* may rest in it without a fault although the rail has answered           *)
(* (QueuedMeansUnanswered).                                                *)
StrandedOnlyByFaults ==
    crashes = 0 /\ dbErrors = 0 =>
        \A p \in Payments :
            AtRest(p) => row[p].status \notin Intermediate \cup {"COMPENSATING"}

(* The ACK column shows an answer the rail gave and core took up; and when *)
(* no database call was rejected, no well-formed answer was thrown away.   *)
AcksAreKept ==
    \A p \in Payments :
        /\ row[p].ack # "none" => RailSaid(acks[p], row[p].ack)
        /\ dbErrors = 0 =>
              \A n \in AckIds :
                  acks[p][n].stage = "dropped" => acks[p][n].verdict = "MALFORMED"

(* An ACK that core has acknowledged was announced to the webhooks, and    *)
(* neither they nor the SSE stream ever tell of an outcome that the rail's *)
(* answers do not imply.                                                   *)
AnswersAreAnnounced ==
    \A p \in Payments :
        /\ \A n \in AckIds : acks[p][n].stage = "acked"
                                => FinalStatus(acks[p][n].verdict) \in fired[p]
        /\ \A s \in fired[p] : \E v \in Verdict :
                                RailSaid(acks[p], v) /\ FinalStatus(v) = s
        /\ shown[p] \in fired[p] \cup {"none", "QUEUED"}

(* The statuses before publication are written in order, once each, by the *)
(* pipeline alone: no late ACK, dead letter or compensation can be         *)
(* followed by a return to one of them.                                    *)
StageOf(s) ==
    CASE s = "ABSENT"        -> 0
      [] s = "RECEIVED"      -> 1
      [] s = "VALIDATED"     -> 2
      [] s = "CANONICALIZED" -> 3
      [] s = "ROUTED"        -> 4
      [] OTHER               -> 5

PreparationOnlyAdvances ==
    [][\A p \in Payments :
          row'[p].status # row[p].status /\ StageOf(row'[p].status) < 5
             => StageOf(row'[p].status) = StageOf(row[p].status) + 1]_vars

(* Every pipeline run and every batch compensation comes to an end: a run  *)
(* returns, throws or dies with the process, whatever its own catch block  *)
(* meets (payment-pipeline.ts:176-193); a batch gets through its list,     *)
(* though the payments on it change under it (compensation-service.ts:133). *)
HandlersEnd ==
    /\ \A p \in Payments : pc[p] \in Running ~> pc[p] \in Ended
    /\ \A c \in Callers : todo[c] # {} ~> todo[c] = {}

(* A message the broker holds leads to an ACK or a dead letter on the row, *)
(* across crashes between the update and channel.ack, unless the adapter   *)
(* answers with a message without a status or a database call is rejected. *)
RailIsHeard ==
    \A p \in Payments :
        wire[p] = "queued"
          ~> \/ row[p].at \cap {"ACKED", "DEAD_LETTER"} # {}
             \/ \E n \in AckIds : /\ acks[p][n].stage # "none"
                                  /\ acks[p][n].verdict = "MALFORMED"
             \/ dbErrors > 0

(* The DLQ handler puts a failed message back, so every dead letter is     *)
(* recorded and audited in the end, whatever fails on the way.             *)
DeadLettersAreRecorded ==
    \A p \in Payments :
        dlq[p] = "queued" ~> dlq[p] = "gone" /\ "DEAD_LETTER" \in audit[p]

(* A rail without a routing key makes the publisher throw, so a payment    *)
(* routed to it ends up FAILED, not waiting for an answer for ever.        *)
UnreachableRailFails ==
    \A p \in Payments :
        row[p].rail \in Rails \ AdapterRails
            ~> "FAILED" \in row[p].at \/ dbErrors > 0 \/ crashes > 0

-----------------------------------------------------------------------------
(* What comments of the code say and the handlers do not keep.             *)

(* reconciliation-service.ts:5: "Payments stuck in QUEUED (no ACK after    *)
(* timeout)".  QUEUED is taken to mean that the rail has not answered.     *)
QueuedMeansUnanswered ==
    \A p \in Payments : row[p].status = "QUEUED" => row[p].ack = "none"

(* compensation-service.ts:69-70: no reversal is needed "if the payment    *)
(* was never ACKed by the rail"; "if it was ACKed, a refund/reversal       *)
(* message would be sent".                                                 *)
CompensatedAcksAreReversed ==
    \A p \in Payments :
        row[p].status = "COMPENSATED" /\ row[p].ack # "none"
            => "COMPENSATION_REVERSAL_REQUIRED" \in audit[p]

-----------------------------------------------------------------------------
(* The inductive invariant behind CausalOrder: where a handler stands      *)
(* tells which facts are already on record.  All but the first clause of   *)
(* KnownAt stay true when facts are added.                                 *)

KnownAt(step, F) ==
    /\ step \in {"idle", "refused"} => F = {}
    /\ step = "audit_received"  => "RECEIVED" \in F
    /\ step = "validate"        => "PAYMENT_RECEIVED" \in F
    /\ step = "audit_validated" => "VALIDATED" \in F
    /\ step = "canonicalize"    => "PAYMENT_VALIDATED" \in F
    /\ step = "audit_canonical" => "CANONICALIZED" \in F
    /\ step = "normalize"       => "CANONICAL_UPDATED" \in F
    /\ step = "route"           => "NORMALIZATION_COMPLETE" \in F
    /\ step = "audit_routed"    => "ROUTED" \in F
    /\ step = "translate"       => "ROUTING_DECISION" \in F
    /\ step = "publish"         => "TRANSLATED" \in F
    /\ step = "queue"           => "PUBLISHED" \in F
    /\ step = "audit_queued"    => "QUEUED" \in F
    /\ step = "audit_error"     => "FAILED" \in F

PipelineInv(p) == KnownAt(pc[p], Facts(p))

(* What a failure status, and a filled rail_ack column, prove to the       *)
(* compensation service that reads them.                                   *)
HasFailed(F) == \/ "FAILED" \in F
                \/ "DEAD_LETTER" \in F
                \/ {"ACKED", "RAIL_ERRED"} \subseteq F

RowInv(p) ==
    /\ row[p].status \in Compensable => HasFailed(Facts(p))
    /\ row[p].ack # "none" => "ACKED" \in Facts(p)

ConsumerInv(p) ==
    /\ \A n \in AckIds :
          /\ acks[p][n].stage = "none" => acks[p][n].verdict = "MALFORMED"
          /\ acks[p][n].stage = "updated" => "ACKED" \in Facts(p)
    /\ dlq[p] = "marked" => "DEAD_LETTER" \in Facts(p)

StartedWith(call, F) ==
    /\ HasFailed(F)
    /\ call.acked => "ACKED" \in F
    /\ call.step \notin {"start", "audit_started"} => "COMPENSATION_STARTED" \in F
    /\ call.step = "reverse" => call.acked
    /\ call.step = "audit_completed" => "COMPENSATED" \in F

CompInv(c) ==
    comp[c].step # "idle" => /\ comp[c].payment \in Payments
                             /\ StartedWith(comp[c], Facts(comp[c].payment))

IInv ==
    /\ TypeOK
    /\ CausalOrder
    /\ \A p \in Payments : PipelineInv(p) /\ RowInv(p) /\ ConsumerInv(p)
    /\ \A c \in Callers : CompInv(c)

-----------------------------------------------------------------------------
(* The invariant behind AcksAreKept, AnswersAreAnnounced, Preparation-     *)
(* OnlyAdvances and StrandedOnlyByFaults; it is inductive beside IInv.     *)

(* What the consumer has done with each ACK, told by the ACK's stage.      *)
AnswerInv(p) ==
    /\ row[p].ack # "none" => RailSaid(acks[p], row[p].ack)
    /\ \A n \in AckIds :
          LET ack == acks[p][n]
          IN  /\ ack.stage = "updated" => ack.verdict \in Verdict
              /\ ack.stage = "acked" => FinalStatus(ack.verdict) \in fired[p]
              /\ dbErrors = 0 /\ ack.stage = "dropped" => ack.verdict = "MALFORMED"
    /\ \A s \in fired[p] : \E v \in Verdict : RailSaid(acks[p], v) /\ FinalStatus(v) = s
    /\ shown[p] \in fired[p] \cup {"none", "QUEUED"}

(* Until it publishes, the pipeline alone writes the row: there is nothing *)
(* yet that the other handlers could react to.                             *)
Preparing == {"audit_received", "validate", "audit_validated", "canonicalize",
              "audit_canonical", "normalize", "route", "audit_routed",
              "translate", "publish"}

PreparedStatus(step) ==
    CASE step \in {"audit_received", "validate"}          -> "RECEIVED"
      [] step \in {"audit_validated", "canonicalize"}     -> "VALIDATED"
      [] step \in {"audit_canonical", "normalize", "route"} -> "CANONICALIZED"
      [] OTHER                                            -> "ROUTED"

PreparationInv(p) ==
    pc[p] \in Preparing => /\ row[p].status = PreparedStatus(pc[p])
                           /\ wire[p] = "none"
                           /\ "FAILED" \notin row[p].at

(* As long as nothing fails, a run that has ended has left the statuses of *)
(* preparation, and COMPENSATING has a call that will replace it.          *)
UnderCompensation(p) ==
    \E c \in Callers : /\ comp[c].payment = p
                       /\ comp[c].step \in {"audit_started", "reverse", "complete"}

FaultFreeInv(p) ==
    dbErrors = 0 /\ crashes = 0 =>
        /\ pc[p] # "lost"
        /\ pc[p] \in {"audit_queued", "done", "audit_error", "failed"}
              => row[p].status \notin Intermediate
        /\ row[p].status = "COMPENSATING" => UnderCompensation(p)

OutcomeInv == \A p \in Payments : AnswerInv(p) /\ PreparationInv(p) /\ FaultFreeInv(p)
=============================================================================

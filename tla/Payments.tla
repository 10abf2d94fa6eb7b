------------------------------ MODULE Payments ------------------------------
(***************************************************************************)
(* The life of a payment inside mipit-core: the pipeline of POST /payments *)
(* (src/pipeline), the two RabbitMQ consumers (src/messaging) and the      *)
(* compensation service (src/compensation), all of them async functions of *)
(* one Node process that meet only in the rows of the payments and         *)
(* audit_events tables.  An action is the code between two awaits: one     *)
(* database call with the synchronous code that follows it.  Between two   *)
(* actions of one handler any step of any other handler may happen.        *)
(*                                                                         *)
(* The rail adapters are other programs.  They appear as the environment:  *)
(* they consume the message core publishes, answer with an ACK (perhaps    *)
(* more than once, because deliveries repeat), or give the message up to   *)
(* the dead-letter queue.                                                  *)
(***************************************************************************)
EXTENDS Naturals, FiniteSets

CONSTANTS
    Payments,      \* the ULIDs handed out to payment requests
    NoPayment,     \* "no payment", for an idle compensation call
    Rails,         \* destinations the route engine may pick
    AdapterRails,  \* those with a routing key in Publisher.railKeyMap
    NoRail,        \* destination_rail IS NULL
    AckIds,        \* one per ACK message an adapter may send for a payment
    Callers,       \* concurrent requests on the /compensate routes
    MaxRetries,    \* DLQ_MAX_RETRIES
    MaxDbErrors,   \* bound on rejected database calls
    MaxCrashes     \* bound on crashes of the process

ASSUME PaymentsAssumption ==
    /\ NoPayment \notin Payments
    /\ NoRail \notin Rails
    /\ AdapterRails \subseteq Rails
    /\ MaxRetries \in Nat
    /\ MaxDbErrors \in Nat
    /\ MaxCrashes \in Nat

VARIABLES
    row,       \* the payments table
    audit,     \* the event types recorded in audit_events for each payment
    pc,        \* where PaymentPipeline.execute stands for each payment
    wire,      \* the message published for the payment on its way to the adapter
    retries,   \* the x-retry-count header of that message
    acks,      \* the ACK messages about the payment and how far core took them
    dlq,       \* the payment's message in payments.dlq and how far core took it
    comp,      \* the compensate() call each caller is in
    todo,      \* what compensateBatch() still has to go through
    shown,     \* the last status broadcast over SSE
    fired,     \* the statuses webhooks were fired for
    dbErrors,  \* rejected database calls so far
    crashes    \* crashes so far

dbVars   == <<row, audit>>
railVars == <<wire, retries>>
compVars == <<comp, todo>>
noteVars == <<shown, fired>>
vars == <<row, audit, pc, wire, retries, acks, dlq, comp, todo, shown, fired,
          dbErrors, crashes>>

-----------------------------------------------------------------------------
(* Statuses, columns and messages.                                         *)

Intermediate == {"RECEIVED", "VALIDATED", "CANONICALIZED", "ROUTED"}
Compensable  == {"DEAD_LETTER", "FAILED"}
Status == Intermediate \cup Compensable \cup
          {"QUEUED", "COMPLETED", "REJECTED", "COMPENSATING", "COMPENSATED"}

(* The *_at columns: those UPDATE_PAYMENT_STATUS_WITH_MILESTONE_TIMESTAMPS *)
(* sets (StatusStamps) and those the other UPDATEs set.                    *)
StatusStamps == {"VALIDATED", "QUEUED", "COMPLETED", "FAILED", "COMPENSATED",
                 "DEAD_LETTER"}
Stamps == StatusStamps \cup {"CANONICALIZED", "ROUTED", "ACKED"}

(* rail_ack.status of an ACK; a message without it is MALFORMED.           *)
Verdict == {"ACCEPTED", "REJECTED", "ERROR"}

Row == [status     : Status \cup {"ABSENT"},
        at         : SUBSET Stamps,
        rail       : Rails \cup {NoRail},
        translated : BOOLEAN,
        ack        : Verdict \cup {"none"}]

AuditEvent == {"PAYMENT_RECEIVED", "PAYMENT_VALIDATED", "CANONICAL_UPDATED",
               "NORMALIZATION_COMPLETE", "ROUTING_DECISION", "STATUS_CHANGE",
               "PIPELINE_ERROR", "ACK_RECEIVED", "DEAD_LETTER",
               "COMPENSATION_STARTED", "COMPENSATION_REVERSAL_REQUIRED",
               "COMPENSATION_COMPLETED", "COMPENSATION_FAILED"}

Running == {"audit_received", "validate", "audit_validated", "canonicalize",
            "audit_canonical", "normalize", "route", "audit_routed",
            "translate", "publish", "queue", "audit_queued",
            "mark_failed", "audit_error"}
Ended   == {"done", "failed", "refused", "lost"}

CompStep == {"idle", "start", "audit_started", "reverse", "complete",
             "audit_completed", "audit_failed"}

AckStage == {"none", "queued", "updated", "acked", "dropped"}

TypeOK ==
    /\ row \in [Payments -> Row]
    /\ audit \in [Payments -> SUBSET AuditEvent]
    /\ pc \in [Payments -> Running \cup Ended \cup {"idle"}]
    /\ wire \in [Payments -> {"none", "buffered", "queued", "gone", "lost"}]
    /\ retries \in [Payments -> 0..MaxRetries]
    /\ acks \in [Payments -> [AckIds -> [stage   : AckStage,
                                         verdict : Verdict \cup {"MALFORMED"}]]]
    /\ dlq \in [Payments -> {"none", "queued", "marked", "gone"}]
    /\ comp \in [Callers -> [step    : CompStep,
                             payment : Payments \cup {NoPayment},
                             acked   : BOOLEAN]]
    /\ todo \in [Callers -> SUBSET Payments]
    /\ shown \in [Payments -> Status \cup {"none"}]
    /\ fired \in [Payments -> SUBSET Status]
    /\ dbErrors \in 0..MaxDbErrors
    /\ crashes \in 0..MaxCrashes

NoRow  == [status |-> "ABSENT", at |-> {}, rail |-> NoRail,
           translated |-> FALSE, ack |-> "none"]
NoAck  == [stage |-> "none", verdict |-> "MALFORMED"]
NoCall == [step |-> "idle", payment |-> NoPayment, acked |-> FALSE]

Init ==
    /\ row = [p \in Payments |-> NoRow]
    /\ audit = [p \in Payments |-> {}]
    /\ pc = [p \in Payments |-> "idle"]
    /\ wire = [p \in Payments |-> "none"]
    /\ retries = [p \in Payments |-> 0]
    /\ acks = [p \in Payments |-> [n \in AckIds |-> NoAck]]
    /\ dlq = [p \in Payments |-> "none"]
    /\ comp = [c \in Callers |-> NoCall]
    /\ todo = [c \in Callers |-> {}]
    /\ shown = [p \in Payments |-> "none"]
    /\ fired = [p \in Payments |-> {}]
    /\ dbErrors = 0
    /\ crashes = 0

-----------------------------------------------------------------------------
(* The statements of src/persistence/queries.  None of the UPDATEs looks   *)
(* at the status it replaces.                                              *)

InsertPayment == [NoRow EXCEPT !.status = "RECEIVED"]

UpdateStatus(r, s) ==
    [r EXCEPT !.status = s, !.at = @ \cup ({s} \cap StatusStamps)]

UpdateCanonical(r) ==
    [r EXCEPT !.status = "CANONICALIZED", !.at = @ \cup {"CANONICALIZED"}]

UpdateRoute(r, d) ==
    [r EXCEPT !.status = "ROUTED", !.rail = d, !.at = @ \cup {"ROUTED"}]

UpdateTranslated(r) == [r EXCEPT !.translated = TRUE]

FinalStatus(v) ==
    CASE v = "ACCEPTED" -> "COMPLETED"
      [] v = "REJECTED" -> "REJECTED"
      [] OTHER          -> "FAILED"

UpdateRailAck(r, v) ==
    [r EXCEPT !.ack = v, !.status = FinalStatus(v),
              !.at = @ \cup {"ACKED"} \cup ({FinalStatus(v)} \cap {"COMPLETED"})]

(* An awaited database call about payment p that writes row r and audit    *)
(* trail a, and what its caller does next: ok when it resolves, err when   *)
(* it rejects.  A call whose connection is lost rejects although           *)
(* PostgreSQL may have committed it.                                       *)
Write(p, r, a) ==
    /\ row' = [row EXCEPT ![p] = r]
    /\ audit' = [audit EXCEPT ![p] = a]

Rejected == dbErrors < MaxDbErrors /\ dbErrors' = dbErrors + 1

Await(p, r, a, ok, err) ==
    \/ Write(p, r, a) /\ UNCHANGED dbErrors /\ ok
    \/ Rejected /\ (Write(p, r, a) \/ UNCHANGED dbVars) /\ err

Logged(p, event) == audit[p] \cup {event}

-----------------------------------------------------------------------------
(* PaymentPipeline.execute.  A rejected call, or an exception of the       *)
(* translator, the normalizer or the route engine, leads to the catch      *)
(* block (mark_failed).                                                    *)

Goto(p, step) == pc' = [pc EXCEPT ![p] = step]

Step(p, here, r, a, next) ==
    /\ pc[p] = here
    /\ Await(p, r, a, Goto(p, next), Goto(p, "mark_failed"))
    /\ UNCHANGED <<railVars, acks, dlq, compVars, noteVars, crashes>>

LogStep(p, here, event, next) == Step(p, here, row[p], Logged(p, event), next)

(* inferRail runs before the try block: its exception leaves no row.       *)
RefuseAlias(p) ==
    /\ pc[p] = "idle"
    /\ Goto(p, "refused")
    /\ UNCHANGED <<dbVars, railVars, acks, dlq, compVars, noteVars, dbErrors,
                   crashes>>

Create(p)         == Step(p, "idle", InsertPayment, audit[p], "audit_received")
AuditReceived(p)  == LogStep(p, "audit_received", "PAYMENT_RECEIVED", "validate")
Validate(p)       == Step(p, "validate", UpdateStatus(row[p], "VALIDATED"),
                          audit[p], "audit_validated")
AuditValidated(p) == LogStep(p, "audit_validated", "PAYMENT_VALIDATED",
                             "canonicalize")
Canonicalize(p)   == Step(p, "canonicalize", UpdateCanonical(row[p]), audit[p],
                          "audit_canonical")
AuditCanonical(p) == LogStep(p, "audit_canonical", "CANONICAL_UPDATED",
                             "normalize")
Normalize(p)      == LogStep(p, "normalize", "NORMALIZATION_COMPLETE", "route")
Route(p)          == \E d \in Rails :
                        Step(p, "route", UpdateRoute(row[p], d), audit[p],
                             "audit_routed")
(* Wrong variant: the translated payload is not stored before publishing.  *)
WrongAuditRouted(p) == LogStep(p, "audit_routed", "ROUTING_DECISION", "publish")

AuditRouted(p)    == LogStep(p, "audit_routed", "ROUTING_DECISION", "translate")
Translate(p)      == Step(p, "translate", UpdateTranslated(row[p]), audit[p],
                          "publish")

(* toCanonical, normalize, resolve or fromCanonical throws, before the     *)
(* database call of the same step.                                         *)
Throw(p) ==
    /\ pc[p] \in {"canonicalize", "normalize", "route", "translate"}
    /\ Goto(p, "mark_failed")
    /\ UNCHANGED <<dbVars, railVars, acks, dlq, compVars, noteVars, dbErrors,
                   crashes>>

(* Wrong variant: an unknown rail falls back to some routing key.          *)
WrongPublish(p) ==
    /\ pc[p] = "publish"
    /\ wire' = [wire EXCEPT ![p] = "buffered"] /\ Goto(p, "queue")
    /\ UNCHANGED <<dbVars, retries, acks, dlq, compVars, noteVars, dbErrors,
                   crashes>>

(* publishToAdapter throws for a rail without a routing key; otherwise     *)
(* channel.publish only fills a socket buffer and confirms nothing.        *)
Publish(p) ==
    /\ pc[p] = "publish"
    /\ IF row[p].rail \in AdapterRails
       THEN wire' = [wire EXCEPT ![p] = "buffered"] /\ Goto(p, "queue")
       ELSE UNCHANGED wire /\ Goto(p, "mark_failed")
    /\ UNCHANGED <<dbVars, retries, acks, dlq, compVars, noteVars, dbErrors,
                   crashes>>

Queue(p) == Step(p, "queue", UpdateStatus(row[p], "QUEUED"), audit[p],
                 "audit_queued")

(* The SSE broadcast and the return follow the last audit call at once.    *)
AuditQueued(p) ==
    /\ pc[p] = "audit_queued"
    /\ Await(p, row[p], Logged(p, "STATUS_CHANGE"),
             Goto(p, "done") /\ shown' = [shown EXCEPT ![p] = "QUEUED"],
             Goto(p, "mark_failed") /\ UNCHANGED shown)
    /\ UNCHANGED <<railVars, acks, dlq, compVars, fired, crashes>>

(* Wrong variant of the catch block: it only writes the audit event.       *)
SilentMarkFailed(p) ==
    /\ pc[p] = "mark_failed"
    /\ Goto(p, "audit_error")
    /\ UNCHANGED <<dbVars, railVars, acks, dlq, compVars, noteVars, dbErrors,
                   crashes>>

(* The catch block.  Its own exceptions end it: updateStatus throws when   *)
(* create() never inserted the row.                                        *)
MarkFailed(p) ==
    /\ pc[p] = "mark_failed"
    /\ IF row[p].status = "ABSENT"
       THEN Goto(p, "failed") /\ UNCHANGED <<dbVars, dbErrors>>
       ELSE Await(p, UpdateStatus(row[p], "FAILED"), audit[p],
                  Goto(p, "audit_error"), Goto(p, "failed"))
    /\ UNCHANGED <<railVars, acks, dlq, compVars, noteVars, crashes>>

(* Wrong variant: the failed pipeline starts over.                         *)
RetryAfterError(p) ==
    /\ pc[p] = "audit_error"
    /\ Await(p, row[p], Logged(p, "PIPELINE_ERROR"), Goto(p, "validate"),
             Goto(p, "failed"))
    /\ UNCHANGED <<railVars, acks, dlq, compVars, noteVars, crashes>>

AuditError(p) ==
    /\ pc[p] = "audit_error"
    /\ Await(p, row[p], Logged(p, "PIPELINE_ERROR"), Goto(p, "failed"),
             Goto(p, "failed"))
    /\ UNCHANGED <<railVars, acks, dlq, compVars, noteVars, crashes>>

Pipeline(p) ==
    \/ AuditReceived(p) \/ Validate(p) \/ AuditValidated(p)
    \/ Canonicalize(p) \/ AuditCanonical(p) \/ Normalize(p)
    \/ Route(p) \/ AuditRouted(p) \/ Translate(p) \/ Throw(p)
    \/ Publish(p) \/ Queue(p) \/ AuditQueued(p)
    \/ MarkFailed(p) \/ AuditError(p)

-----------------------------------------------------------------------------
(* The broker and the rail adapters (outside this repository).             *)

(* The socket buffer reaches the broker.                                   *)
Flush(p) ==
    /\ wire[p] = "buffered"
    /\ wire' = [wire EXCEPT ![p] = "queued"]
    /\ UNCHANGED <<dbVars, pc, retries, acks, dlq, compVars, noteVars,
                   dbErrors, crashes>>

(* An adapter answers; if it stops before confirming the delivery it will  *)
(* see the message again and may answer again.                             *)
RailAnswers(p, n, v) ==
    /\ wire[p] = "queued"
    /\ acks[p][n].stage = "none"
    /\ acks' = [acks EXCEPT ![p][n] = [stage |-> "queued", verdict |-> v]]
    /\ wire' \in {wire, [wire EXCEPT ![p] = "gone"]}
    /\ UNCHANGED <<dbVars, pc, retries, dlq, compVars, noteVars, dbErrors,
                   crashes>>

(* handleFailedMessage, the helper the adapters call when a delivery       *)
(* fails: republish with the count raised, or dead-letter.                 *)
(* (Wrong variant first: one retry too many.)                              *)
WrongRailRetries(p) ==
    /\ wire[p] = "queued"
    /\ retries[p] <= MaxRetries
    /\ retries' = [retries EXCEPT ![p] = @ + 1]
    /\ UNCHANGED <<dbVars, pc, wire, acks, dlq, compVars, noteVars, dbErrors,
                   crashes>>

RailRetries(p) ==
    /\ wire[p] = "queued"
    /\ retries[p] < MaxRetries
    /\ retries' = [retries EXCEPT ![p] = @ + 1]
    /\ UNCHANGED <<dbVars, pc, wire, acks, dlq, compVars, noteVars, dbErrors,
                   crashes>>

RailGivesUp(p) ==
    /\ wire[p] = "queued"
    /\ retries[p] >= MaxRetries
    /\ wire' = [wire EXCEPT ![p] = "gone"]
    /\ dlq' = [dlq EXCEPT ![p] = "queued"]
    /\ UNCHANGED <<dbVars, pc, retries, acks, compVars, noteVars, dbErrors,
                   crashes>>

Rail(p) ==
    \/ \E n \in AckIds, v \in Verdict \cup {"MALFORMED"} : RailAnswers(p, n, v)
    \/ RailRetries(p)
    \/ RailGivesUp(p)

-----------------------------------------------------------------------------
(* AckConsumer.  Deliveries are not serialised: every queued message may   *)
(* be in its handler at once.  A failure nacks without requeue, and        *)
(* payments.ack has no dead-letter exchange: the message is dropped.       *)

AckGoes(p, n, stage) == acks' = [acks EXCEPT ![p][n].stage = stage]

AckDiscard(p, n) ==
    /\ acks[p][n].stage = "queued"
    /\ acks[p][n].verdict = "MALFORMED"
    /\ AckGoes(p, n, "dropped")
    /\ UNCHANGED <<dbVars, pc, railVars, dlq, compVars, noteVars, dbErrors,
                   crashes>>

(* Wrong variant: the message is acknowledged as soon as the row is        *)
(* updated, before the audit call, the broadcast and the webhooks.         *)
EagerAckUpdate(p, n) ==
    /\ acks[p][n].stage = "queued"
    /\ acks[p][n].verdict \in Verdict
    /\ Await(p, UpdateRailAck(row[p], acks[p][n].verdict), audit[p],
             AckGoes(p, n, "acked"), AckGoes(p, n, "dropped"))
    /\ UNCHANGED <<pc, railVars, dlq, compVars, noteVars, crashes>>

AckUpdate(p, n) ==
    /\ acks[p][n].stage = "queued"
    /\ acks[p][n].verdict \in Verdict
    /\ Await(p, UpdateRailAck(row[p], acks[p][n].verdict), audit[p],
             AckGoes(p, n, "updated"), AckGoes(p, n, "dropped"))
    /\ UNCHANGED <<pc, railVars, dlq, compVars, noteVars, crashes>>

(* The broadcast, the webhooks and channel.ack follow the audit call.      *)
AckAudit(p, n) ==
    /\ acks[p][n].stage = "updated"
    /\ LET final == FinalStatus(acks[p][n].verdict)
       IN  Await(p, row[p], Logged(p, "ACK_RECEIVED"),
                 /\ AckGoes(p, n, "acked")
                 /\ shown' = [shown EXCEPT ![p] = final]
                 /\ fired' = [fired EXCEPT ![p] = @ \cup {final}],
                 AckGoes(p, n, "dropped") /\ UNCHANGED noteVars)
    /\ UNCHANGED <<pc, railVars, dlq, compVars, crashes>>

AckConsumer(p) ==
    \E n \in AckIds : AckDiscard(p, n) \/ AckUpdate(p, n) \/ AckAudit(p, n)

-----------------------------------------------------------------------------
(* DlqHandler: a failure nacks with requeue.                               *)

DlqGoes(p, stage) == dlq' = [dlq EXCEPT ![p] = stage]

(* Wrong variant: nack without requeue, as AckConsumer does.               *)
WrongDlqMark(p) ==
    /\ dlq[p] = "queued"
    /\ Await(p, UpdateStatus(row[p], "DEAD_LETTER"), audit[p],
             DlqGoes(p, "marked"), DlqGoes(p, "gone"))
    /\ UNCHANGED <<pc, railVars, acks, compVars, noteVars, crashes>>

DlqMark(p) ==
    /\ dlq[p] = "queued"
    /\ Await(p, UpdateStatus(row[p], "DEAD_LETTER"), audit[p],
             DlqGoes(p, "marked"), DlqGoes(p, "queued"))
    /\ UNCHANGED <<pc, railVars, acks, compVars, noteVars, crashes>>

DlqAudit(p) ==
    /\ dlq[p] = "marked"
    /\ Await(p, row[p], Logged(p, "DEAD_LETTER"),
             DlqGoes(p, "gone"), DlqGoes(p, "queued"))
    /\ UNCHANGED <<pc, railVars, acks, compVars, noteVars, crashes>>

DlqHandler(p) == DlqMark(p) \/ DlqAudit(p)

-----------------------------------------------------------------------------
(* CompensationService.  compensate() works on the row it read first; a    *)
(* call outside its try block that rejects ends the whole HTTP request,    *)
(* a batch included.                                                       *)

CompGoes(c, step) == comp' = [comp EXCEPT ![c].step = step] /\ UNCHANGED todo
CompReturns(c)    == comp' = [comp EXCEPT ![c] = NoCall] /\ UNCHANGED todo
CompThrows(c)     == /\ comp' = [comp EXCEPT ![c] = NoCall]
                     /\ todo' = [todo EXCEPT ![c] = {}]

CompensateBatch(c) ==
    /\ comp[c].step = "idle"
    /\ todo[c] = {}
    /\ todo' = [todo EXCEPT ![c] = {p \in Payments : row[p].status \in Compensable}]
    /\ UNCHANGED <<dbVars, pc, railVars, acks, dlq, comp, noteVars, dbErrors,
                   crashes>>

(* Wrong variant: a batch comes back to the payments it refuses.           *)
WrongFind(c, p) ==
    /\ comp[c].step = "idle"
    /\ p \in todo[c] \/ todo[c] = {}
    /\ \/ /\ row[p].status \in Compensable
          /\ comp' = [comp EXCEPT ![c] = [step |-> "start", payment |-> p,
                                          acked |-> row[p].ack # "none"]]
          /\ UNCHANGED <<todo, dbErrors>>
       \/ Rejected /\ CompThrows(c)
    /\ UNCHANGED <<dbVars, pc, railVars, acks, dlq, noteVars, crashes>>

(* findById and the status check: the next payment of the batch, or the    *)
(* one the request names.  wasAcked is later taken from this snapshot.     *)
Find(c, p) ==
    /\ comp[c].step = "idle"
    /\ p \in todo[c] \/ todo[c] = {}
    /\ \/ /\ row[p].status \in Compensable
          /\ comp' = [comp EXCEPT ![c] = [step |-> "start", payment |-> p,
                                          acked |-> row[p].ack # "none"]]
          /\ todo' = [todo EXCEPT ![c] = @ \ {p}]
          /\ UNCHANGED dbErrors
       \/ /\ row[p].status \notin Compensable
          /\ todo' = [todo EXCEPT ![c] = @ \ {p}]
          /\ UNCHANGED <<comp, dbErrors>>
       \/ Rejected /\ CompThrows(c)
    /\ UNCHANGED <<dbVars, pc, railVars, acks, dlq, noteVars, crashes>>

CompCall(c, here, r, a, ok, err) ==
    /\ comp[c].step = here
    /\ Await(comp[c].payment, r, a, ok, err)
    /\ UNCHANGED <<pc, railVars, acks, dlq, noteVars, crashes>>

Start(c) ==
    CompCall(c, "start",
             UpdateStatus(row[comp[c].payment], "COMPENSATING"),
             audit[comp[c].payment],
             CompGoes(c, "audit_started"), CompThrows(c))

AuditStarted(c) ==
    CompCall(c, "audit_started", row[comp[c].payment],
             Logged(comp[c].payment, "COMPENSATION_STARTED"),
             CompGoes(c, IF comp[c].acked THEN "reverse" ELSE "complete"),
             CompThrows(c))

AuditReversal(c) ==
    CompCall(c, "reverse", row[comp[c].payment],
             Logged(comp[c].payment, "COMPENSATION_REVERSAL_REQUIRED"),
             CompGoes(c, "complete"), CompGoes(c, "audit_failed"))

Complete(c) ==
    CompCall(c, "complete",
             UpdateStatus(row[comp[c].payment], "COMPENSATED"),
             audit[comp[c].payment],
             CompGoes(c, "audit_completed"), CompGoes(c, "audit_failed"))

AuditCompleted(c) ==
    CompCall(c, "audit_completed", row[comp[c].payment],
             Logged(comp[c].payment, "COMPENSATION_COMPLETED"),
             CompReturns(c), CompGoes(c, "audit_failed"))

AuditFailed(c) ==
    CompCall(c, "audit_failed", row[comp[c].payment],
             Logged(comp[c].payment, "COMPENSATION_FAILED"),
             CompReturns(c), CompThrows(c))

Compensate(c) ==
    \/ Start(c) \/ AuditStarted(c) \/ AuditReversal(c)
    \/ Complete(c) \/ AuditCompleted(c) \/ AuditFailed(c)

-----------------------------------------------------------------------------
(* Wrong variants: consuming with noAck, so that the broker forgets what   *)
(* was being handled, or all it had pushed to the process.                 *)
Restart(Loses) ==
    /\ crashes < MaxCrashes
    /\ crashes' = crashes + 1
    /\ pc' = [p \in Payments |-> IF pc[p] \in Running THEN "lost" ELSE pc[p]]
    /\ wire' = [p \in Payments |->
                    IF wire[p] = "buffered" THEN "lost" ELSE wire[p]]
    /\ acks' = [p \in Payments |-> [n \in AckIds |->
                    IF acks[p][n].stage \in Loses
                    THEN [acks[p][n] EXCEPT !.stage = "dropped"]
                    ELSE acks[p][n]]]
    /\ dlq' = [p \in Payments |->
                    IF dlq[p] = "marked" THEN "queued" ELSE dlq[p]]
    /\ comp' = [c \in Callers |-> NoCall]
    /\ todo' = [c \in Callers |-> {}]
    /\ UNCHANGED <<dbVars, retries, noteVars, dbErrors>>
CrashLosesHandled == Restart({"updated"})
CrashLosesPushed  == Restart({"queued", "updated"})

(* The process dies and is started again.  Handlers and the socket buffer  *)
(* are gone; the broker redelivers what was not acknowledged.              *)
Crash ==
    /\ crashes < MaxCrashes
    /\ crashes' = crashes + 1
    /\ pc' = [p \in Payments |-> IF pc[p] \in Running THEN "lost" ELSE pc[p]]
    /\ wire' = [p \in Payments |->
                    IF wire[p] = "buffered" THEN "lost" ELSE wire[p]]
    /\ acks' = [p \in Payments |-> [n \in AckIds |->
                    IF acks[p][n].stage = "updated"
                    THEN [acks[p][n] EXCEPT !.stage = "queued"]
                    ELSE acks[p][n]]]
    /\ dlq' = [p \in Payments |->
                    IF dlq[p] = "marked" THEN "queued" ELSE dlq[p]]
    /\ comp' = [c \in Callers |-> NoCall]
    /\ todo' = [c \in Callers |-> {}]
    /\ UNCHANGED <<dbVars, retries, noteVars, dbErrors>>

Next ==
    \/ \E p \in Payments :
          \/ RefuseAlias(p) \/ Create(p) \/ Pipeline(p) \/ Flush(p)
          \/ Rail(p) \/ AckConsumer(p) \/ DlqHandler(p)
    \/ \E c \in Callers :
          \/ CompensateBatch(c) \/ Compensate(c)
          \/ \E p \in Payments : Find(c, p)
    \/ Crash

Spec == Init /\ [][Next]_vars

(* The event loop runs every callback that is ready, the broker delivers   *)
(* what is queued, an adapter deals with what it is delivered, and a       *)
(* batch goes on to its end.  Requests need not come.                      *)
Fairness ==
    /\ \A p \in Payments :
          /\ WF_vars(Pipeline(p))
          /\ WF_vars(Flush(p))
          /\ WF_vars(Rail(p))
          /\ WF_vars(AckConsumer(p))
          /\ WF_vars(DlqHandler(p))
    /\ \A c \in Callers :
          /\ WF_vars(Compensate(c))
          /\ WF_vars(\E p \in todo[c] : Find(c, p))

FairSpec == Spec /\ Fairness
=============================================================================

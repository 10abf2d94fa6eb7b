---------------------------- MODULE Reconciliation ----------------------------
(* The reconciliation that the process runs every half hour (index.ts,     *)
(* reconciliation/reconciliation-service.ts), and one payment it should    *)
(* notice when it gets stuck. Payments are judged one by one. Time goes in *)
(* ticks; the payment's own steps are those of Payments, from outside.     *)
EXTENDS Integers

CONSTANTS
    Never,       \* a time stamp that is not set; a run that is not under way
    Period,      \* ticks between two runs
    Lookback,    \* windowHours: how old a payment is looked at
    Threshold,   \* stuckThresholdMinutes
    MaxQuery,    \* ticks findSince takes at most
    MaxMissed    \* bound: runs that fail, and restarts of the process

ASSUME Times == {Period, Lookback, Threshold, MaxQuery, MaxMissed} \subseteq Nat

Preparing == {"RECEIVED", "VALIDATED", "CANONICALIZED", "ROUTED"}
Statuses == Preparing \cup {"absent", "answered early", "QUEUED", "ended"}
Unseen == "unseen"
Seen == Statuses \cup {Unseen, "not found"}

ASSUME NeverIsNoTime == Never \notin Nat \cup [row : Seen, elapsed : Nat]
ASSUME QueriesAreShort == MaxQuery < Threshold /\ MaxQuery < Period /\ Threshold <= Lookback

VARIABLES
    status,    \* payments.status; "absent" before it is created
    created,   \* ticks since created_at
    still,     \* history: ticks since the status changed
    queued,    \* ticks since queued_at, or Never
    answered,  \* history: the value of queued when the payment left the queue
    timer,     \* ticks until the interval fires
    run,       \* the run under way: the status its query saw, and its age
    reports,   \* history: how reports have listed the payment
    missed     \* runs that failed or were put off so far

reconVars == <<status, created, still, queued, answered, timer, run, reports, missed>>
rowVars == <<status, created, still, queued, answered>>

(* Older payments are not looked at, and none of the ages matters then.    *)
Horizon == Lookback + 2 * Period + MaxQuery

After(s) == CASE s = "RECEIVED" -> "VALIDATED" [] s = "VALIDATED" -> "CANONICALIZED"
              [] s = "CANONICALIZED" -> "ROUTED" [] s = "ROUTED" -> "QUEUED"

ReconInit ==
    /\ status = "absent" /\ created = 0 /\ still = 0
    /\ queued = Never /\ answered = Never
    /\ timer = Period /\ run = Never
    /\ reports = {} /\ missed = 0

Create ==
    /\ status = "absent" /\ status' = "RECEIVED"
    /\ UNCHANGED <<created, still, queued, answered, timer, run, reports, missed>>

(* The pipeline takes the payment a step further. It may also stop for     *)
(* good anywhere, for want of fairness.                                    *)
Advance ==
    /\ status \in Preparing
    /\ status' = After(status) /\ still' = 0
    /\ queued' = IF After(status) = "QUEUED" THEN 0 ELSE queued
    /\ UNCHANGED <<created, answered, timer, run, reports, missed>>

(* An ACK, a dead letter or a failure of the pipeline.                     *)
End ==
    /\ status \in Preparing \cup {"QUEUED"}
    /\ status' = "ended" /\ still' = 0
    /\ answered' = queued
    /\ UNCHANGED <<created, queued, timer, run, reports, missed>>

(* The rail answers before the pipeline has written QUEUED, which is then  *)
(* written over the answer.                                                *)
EarlyAck ==
    /\ status = "ROUTED" /\ status' = "answered early" /\ still' = 0
    /\ UNCHANGED <<created, queued, answered, timer, run, reports, missed>>

LateQueued ==
    /\ status = "answered early" /\ status' = "QUEUED" /\ still' = 0
    /\ queued' = 0
    /\ UNCHANGED <<created, answered, timer, run, reports, missed>>
-----------------------------------------------------------------------------
(* The interval fires. The run computes its cutoff and asks the database.  *)
RunStarts ==
    /\ timer = 0 /\ timer' = Period
    /\ run' = [row |-> Unseen, elapsed |-> 0]
    /\ UNCHANGED <<rowVars, reports, missed>>

(* Wrong variant: created_at > cutoff.                                     *)
LaterThanCutoff == status # "absent" /\ created - run.elapsed < Lookback

(* findSince: created_at >= cutoff.                                        *)
SinceCutoff == status # "absent" /\ created - run.elapsed <= Lookback

QueryAnswered ==
    /\ run # Never /\ run.row = Unseen
    /\ run' = [run EXCEPT !.row = IF SinceCutoff THEN status ELSE "not found"]
    /\ UNCHANGED <<rowVars, timer, reports, missed>>

(* Wrong variant: the age of the payment instead of its time in the queue. *)
StuckSinceCreation == run.row = "QUEUED" /\ created > Threshold

(* The payment is listed under stuck_payments.                             *)
Stuck == run.row \in {"QUEUED", "SENT_TO_DESTINATION"} /\ queued > Threshold

(* The payment is listed under anomalies, as STALLED_PIPELINE.             *)
Stalled == run.row \in {"CANONICALIZED", "ROUTED"} /\ created > Threshold

(* The report, with the clock read behind the await.                       *)
RunReports ==
    /\ run # Never /\ run.row # Unseen
    /\ reports' = reports \cup (IF Stuck THEN {"stuck"} ELSE {})
                          \cup (IF Stalled THEN {"stalled"} ELSE {})
    /\ run' = Never
    /\ UNCHANGED <<rowVars, timer, missed>>

(* The query rejects, and the run with it: logged, and that is all.        *)
RunFails ==
    /\ run # Never /\ run.row = Unseen
    /\ missed < MaxMissed /\ missed' = missed + 1
    /\ run' = Never
    /\ UNCHANGED <<rowVars, timer, reports>>

(* The process starts anew, and with it the interval.                      *)
ReconRestart ==
    /\ missed < MaxMissed /\ missed' = missed + 1
    /\ timer' = Period /\ run' = Never
    /\ UNCHANGED <<rowVars, reports>>

(* The interval fires in time and a query answers in time.                 *)
ReconTick ==
    /\ timer > 0 /\ timer' = timer - 1
    /\ run # Never => run.elapsed < MaxQuery
    /\ run' = IF run = Never THEN run ELSE [run EXCEPT !.elapsed = @ + 1]
    /\ LET ages == status # "absent" /\ created < Horizon
       IN  /\ created' = IF ages THEN created + 1 ELSE created
           /\ still' = IF ages THEN still + 1 ELSE still
           /\ queued' = IF ages /\ queued # Never THEN queued + 1 ELSE queued
    /\ UNCHANGED <<status, answered, reports, missed>>

ReconNext == \/ Create \/ Advance \/ End \/ EarlyAck \/ LateQueued
             \/ RunStarts \/ QueryAnswered \/ RunReports \/ RunFails
             \/ ReconRestart \/ ReconTick

ReconSpec == ReconInit /\ [][ReconNext]_reconVars
-----------------------------------------------------------------------------
(* The longest time without a completed run. A restart strikes when a      *)
(* query is as good as answered, and the interval starts again.            *)
Gap == Period + missed * (Period + MaxQuery)

(* A payment that has waited for its rail longer than the threshold and    *)
(* the time between two runs has been reported, provided it was queued     *)
(* soon enough after its creation: a run looks back windowHours from the   *)
(* creation, not from the queue, so that a payment may leave the window    *)
(* before it counts as stuck (index.ts:115, payment.repository.ts:253).    *)
WaitingIsReported ==
    /\ status = "QUEUED" /\ queued > Threshold + Gap + MaxQuery
    /\ created - queued + Threshold + Gap <= Lookback
    => "stuck" \in reports

(* The same for a pipeline that has stopped between its canonical form and *)
(* the publication, counted from when the payment got there and from when  *)
(* it is old enough to be an anomaly (reconciliation-service.ts:161-173).  *)
StalledIsReported ==
    LET arrived == created - still
        due == IF arrived < Threshold THEN Threshold ELSE arrived
    IN  (/\ status \in {"CANONICALIZED", "ROUTED"} /\ created > due + Gap + MaxQuery
         /\ due + Gap <= Lookback)
        => "stalled" \in reports

(* No run that fails or is put off, and no row that is just out of reach,  *)
(* hides a payment for longer than that.                                   *)
StuckIsReported == WaitingIsReported /\ StalledIsReported

(* No payment is reported as stuck that left the queue before the          *)
(* threshold, by the margin of one query: the report judges with a clock   *)
(* that is younger than the row (reconciliation-service.ts:82-125). One    *)
(* whose answer QUEUED has overwritten is reported as never answered.      *)
PromptPaymentsAreNotStuck ==
    "stuck" \in reports /\ answered # Never => answered + MaxQuery > Threshold
=============================================================================

------------------------------ MODULE Webhooks ------------------------------
(* The notifications of one payment: subscriptions made by clients         *)
(* (POST /payments/:paymentId/webhook), the ACK consumer that fires them   *)
(* for each ACK of the rail it has handled, and their deliveries           *)
(* (webhooks/webhook.service.ts). Firing is not awaited: the message is    *)
(* acknowledged while the deliveries are under way. Each ACK makes a final *)
(* status of its own; what else happens to the payment is in Payments.     *)
EXTENDS Integers, FiniteSets

CONSTANTS
    Acks,          \* ACK messages of the rail; more than one if it repeats itself
    Subscriptions, \* rows that clients may add to webhook_subscriptions
    StatusOf,      \* the final status an ACK leads to
    EventChoices,  \* sets of statuses a subscription may ask for
    MaxLost,       \* bound: rejected database calls
    MaxRestarts    \* bound: crashes of the process

ASSUME AcksAreFinal == StatusOf \in [Acks -> {"COMPLETED", "REJECTED", "FAILED"}]
ASSUME FaultsAreBounded == MaxLost \in Nat /\ MaxRestarts \in Nat

VARIABLES
    subs,       \* webhook_subscriptions: events, delivery_attempts, before which ACKs
    message,    \* where each ACK message and its handler stand
    firing,     \* fireForPayment of each ACK: its await, or not running
    delivery,   \* deliver of each ACK and subscription: its await
    posted,     \* history: requests sent to each subscriber, by ACK
    lost,       \* rejected database calls so far
    restarts    \* crashes so far

hookVars == <<subs, message, firing, delivery, posted, lost, restarts>>

NoSubscription == [events |-> {}, attempts |-> 0, before |-> {}]

HookInit ==
    /\ subs = [s \in Subscriptions |-> NoSubscription]
    /\ message = [a \in Acks |-> "queued"]
    /\ firing = [a \in Acks |-> "no"]
    /\ delivery = [a \in Acks |-> [s \in Subscriptions |-> "no"]]
    /\ posted = [s \in Subscriptions |-> [a \in Acks |-> 0]]
    /\ lost = 0
    /\ restarts = 0

LoseCall == lost < MaxLost /\ lost' = lost + 1

(* The subscription counts for the ACKs that have not updated the row yet. *)
Subscribe(s) ==
    /\ subs[s] = NoSubscription
    /\ \E events \in EventChoices :
          subs' = [subs EXCEPT ![s] =
              [events |-> events, attempts |-> 0,
               before |-> {a \in Acks : message[a] = "queued"}]]
    /\ UNCHANGED <<message, firing, delivery, posted, lost, restarts>>

(* The ACK consumer: updateRailAck, then the audit event. If either call   *)
(* rejects the message is dropped (nack without requeue).                  *)
UpdateRow(a) ==
    /\ message[a] = "queued"
    /\ \/ message' = [message EXCEPT ![a] = "updated"] /\ UNCHANGED lost
       \/ message' = [message EXCEPT ![a] = "dropped"] /\ LoseCall
    /\ UNCHANGED <<subs, firing, delivery, posted, restarts>>

(* Behind the audit event: fireForPayment starts, the message is           *)
(* acknowledged.                                                           *)
Audited(a) ==
    /\ message[a] = "updated"
    /\ \/ /\ message' = [message EXCEPT ![a] = "acked"]
          /\ firing' = [firing EXCEPT ![a] = "find_pending"]
          /\ UNCHANGED lost
       \/ message' = [message EXCEPT ![a] = "dropped"] /\ LoseCall /\ UNCHANGED firing
    /\ UNCHANGED <<subs, delivery, posted, restarts>>

(* Wrong variant: only subscriptions that have not been fired yet.         *)
UnfiredPending(a) ==
    {s \in Subscriptions : StatusOf[a] \in subs[s].events /\ subs[s].attempts = 0}

(* findPending: the subscriptions to this status, fired before or not.     *)
Pending(a) == {s \in Subscriptions : StatusOf[a] \in subs[s].events}

FindPending(a) ==
    /\ firing[a] = "find_pending"
    /\ firing' = [firing EXCEPT ![a] = "no"]
    /\ \/ /\ delivery' = [delivery EXCEPT ![a] = [s \in Subscriptions |->
                IF s \in Pending(a) THEN "post" ELSE @[s]]]
          /\ posted' = [s \in Subscriptions |->
                [posted[s] EXCEPT ![a] = IF s \in Pending(a) THEN @ + 1 ELSE @]]
          /\ UNCHANGED lost
       \/ LoseCall /\ UNCHANGED <<delivery, posted>>
    /\ UNCHANGED <<subs, message, restarts>>

(* Wrong variant: a request that failed is sent again.                     *)
RetriedAnswered(a, s) ==
    /\ delivery[a][s] = "post"
    /\ \/ delivery' = [delivery EXCEPT ![a][s] = "record"] /\ UNCHANGED posted
       \/ posted' = [posted EXCEPT ![s][a] = @ + 1] /\ posted[s][a] < 3 /\ UNCHANGED delivery
    /\ UNCHANGED <<subs, message, firing, lost, restarts>>

(* The subscriber has answered, refused, or not answered for ten seconds:  *)
(* whatever it was is recorded.                                            *)
Answered(a, s) ==
    /\ delivery[a][s] = "post"
    /\ delivery' = [delivery EXCEPT ![a][s] = "record"]
    /\ UNCHANGED <<subs, message, firing, posted, lost, restarts>>

(* Wrong variant: the attempt is written from the row read by findPending. *)
OverwritingRecord(a, s) ==
    /\ delivery[a][s] = "record"
    /\ delivery' = [delivery EXCEPT ![a][s] = "no"]
    /\ \/ subs' = [subs EXCEPT ![s].attempts = 1] /\ UNCHANGED lost
       \/ LoseCall /\ UNCHANGED subs
    /\ UNCHANGED <<message, firing, posted, restarts>>

(* recordDelivery: one statement that counts the attempt.                  *)
RecordDelivery(a, s) ==
    /\ delivery[a][s] = "record"
    /\ delivery' = [delivery EXCEPT ![a][s] = "no"]
    /\ \/ subs' = [subs EXCEPT ![s].attempts = @ + 1] /\ UNCHANGED lost
       \/ LoseCall /\ UNCHANGED subs
    /\ UNCHANGED <<message, firing, posted, restarts>>

(* The acknowledgement, positive or negative, reaches the broker.          *)
Settle(a) ==
    /\ message[a] \in {"acked", "dropped"}
    /\ message' = [message EXCEPT ![a] = "settled"]
    /\ UNCHANGED <<subs, firing, delivery, posted, lost, restarts>>

(* A crash ends all handlers and deliveries. A message whose               *)
(* acknowledgement has not reached the broker is delivered again.          *)
Restart ==
    /\ restarts < MaxRestarts /\ restarts' = restarts + 1
    /\ message' = [a \in Acks |-> IF message[a] = "settled" THEN "settled" ELSE "queued"]
    /\ firing' = [a \in Acks |-> "no"]
    /\ delivery' = [a \in Acks |-> [s \in Subscriptions |-> "no"]]
    /\ UNCHANGED <<subs, posted, lost>>

HookStep(a) ==
    \/ UpdateRow(a) \/ Audited(a) \/ Settle(a) \/ FindPending(a)
    \/ \E s \in Subscriptions : Answered(a, s) \/ RecordDelivery(a, s)

HookNext == Restart \/ (\E s \in Subscriptions : Subscribe(s)) \/ \E a \in Acks : HookStep(a)

(* Messages are delivered, calls return and requests are answered or       *)
(* aborted; nobody has to subscribe or to crash.                           *)
HookFairness == \A a \in Acks :
    /\ WF_hookVars(UpdateRow(a)) /\ WF_hookVars(Audited(a)) /\ WF_hookVars(Settle(a))
    /\ WF_hookVars(FindPending(a))
    /\ \A s \in Subscriptions : WF_hookVars(Answered(a, s)) /\ WF_hookVars(RecordDelivery(a, s))

HookSpec == HookInit /\ [][HookNext]_hookVars /\ HookFairness
-----------------------------------------------------------------------------
(* A subscriber gets at most one request for an ACK, however it answers,   *)
(* and one more for each crash that makes the broker repeat the message    *)
(* (webhook.service.ts:83-90, consumer.ts:100-107).                        *)
OneRequestPerAck ==
    \A s \in Subscriptions, a \in Acks : posted[s][a] <= 1 + restarts

(* The requests sent to a subscriber, numbered for each ACK, and the ACKs  *)
(* of whose delivery to him something is still to come.                    *)
Requests(s) == UNION {{<<a, i>> : i \in 1 .. posted[s][a]} : a \in Acks}
UnderWay(s) == {a \in Acks : delivery[a][s] # "no"}

Counted(s) ==
    LET told == Cardinality(Requests(s))
        accounted == subs[s].attempts + Cardinality(UnderWay(s))
    IN  accounted <= told /\ told <= accounted + lost

(* delivery_attempts accounts for all requests but those still under way   *)
(* and those whose record was lost, also when several ACKs are told at the *)
(* same time (webhook.repository.ts:65-73).                                *)
AttemptsAreCounted == restarts = 0 => \A s \in Subscriptions : Counted(s)

(* Who subscribes to a status before the ACK that leads to it is handled   *)
(* is told of it, whatever he was told before, unless a database call      *)
(* fails or the process dies (webhook.service.ts:31-42).                   *)
SubscribersAreTold ==
    \A s \in Subscriptions, a \in Acks :
        a \in subs[s].before /\ StatusOf[a] \in subs[s].events ~>
            posted[s][a] > 0 \/ lost > 0 \/ restarts > 0
=============================================================================

---------------------------- MODULE ServicesProofs ----------------------------
(* Theorems about services beside the payment pipeline, for any number of  *)
(* messages, rules and runs. The services share no state, so each has its  *)
(* own specification and its own invariant.                                *)
EXTENDS HttpRateLimit, RailRateLimit, Webhooks, Reconciliation, RouteEngine, EventStream,
        FiniteSetTheorems, SequenceTheorems, WellFoundedInduction, TLAPS

(***************************************************************************)
(* Webhooks                                                                *)
(***************************************************************************)

HookTypeOK ==
    /\ message \in [Acks -> {"queued", "updated", "acked", "dropped", "settled"}]
    /\ firing \in [Acks -> {"no", "find_pending"}]
    /\ posted \in [Subscriptions -> [Acks -> Nat]]
    /\ restarts \in Nat

(* An ACK whose handler has not fired, or whose firing has not found its   *)
(* subscriptions, still owes the request of this life of the process.      *)
Owing(a) == message[a] \in {"queued", "updated"} \/ firing[a] = "find_pending"

RequestsOf(s, a) ==
    /\ message[a] \in {"queued", "updated"} => firing[a] = "no"
    /\ posted[s][a] <= IF Owing(a) THEN restarts ELSE restarts + 1

HookInv == HookTypeOK /\ \A s \in Subscriptions, a \in Acks : RequestsOf(s, a)

LEMMA HookInitially == HookInit => HookInv
BY DEF HookInit, HookInv, HookTypeOK, RequestsOf, Owing

(* The steps of a handler that send nothing.                               *)
LEMMA HandlingPreserves ==
  ASSUME HookInv, NEW a \in Acks, UpdateRow(a) \/ Audited(a) \/ Settle(a)
  PROVE  HookInv'
<1> USE DEF HookInv, HookTypeOK
<1>1. HookTypeOK' /\ posted' = posted /\ restarts' = restarts
  BY DEF UpdateRow, Audited, Settle
<1>2. ASSUME NEW s \in Subscriptions, NEW b \in Acks PROVE RequestsOf(s, b)'
  <2>1. RequestsOf(s, b) /\ posted[s][b] \in Nat
    OBVIOUS
  <2>2. CASE b # a
    <3>1. message'[b] = message[b] /\ firing'[b] = firing[b]
      BY <2>2 DEF UpdateRow, Audited, Settle
    <3> QED
      BY <1>1, <2>1, <3>1 DEF RequestsOf, Owing
  <2>3. CASE b = a
    BY <1>1, <2>1, <2>3 DEF RequestsOf, Owing, UpdateRow, Audited, Settle
  <2> QED
    BY <2>2, <2>3
<1> QED
  BY <1>1, <1>2

(* The request is sent, and no longer owed.                                *)
LEMMA FindPendingPreserves ==
  ASSUME HookInv, NEW a \in Acks, FindPending(a)
  PROVE  HookInv'
<1> USE DEF HookInv, HookTypeOK
<1>1. /\ message' = message /\ restarts' = restarts
      /\ firing[a] = "find_pending" /\ firing' = [firing EXCEPT ![a] = "no"]
  BY DEF FindPending
<1>2. ASSUME NEW s \in Subscriptions
      PROVE  /\ posted'[s] \in [Acks -> Nat]
             /\ posted'[s][a] <= posted[s][a] + 1
             /\ \A b \in Acks \ {a} : posted'[s][b] = posted[s][b]
  BY DEF FindPending
<1>3. HookTypeOK'
  <2>1. posted' = posted \/ posted' = [s \in Subscriptions |-> posted'[s]]
    BY DEF FindPending
  <2> QED
    BY <1>1, <1>2, <2>1
<1>4. ASSUME NEW s \in Subscriptions, NEW b \in Acks PROVE RequestsOf(s, b)'
  <2>1. RequestsOf(s, b) /\ posted[s][b] \in Nat /\ posted'[s][b] \in Nat
    BY <1>2
  <2>2. CASE b = a
    BY <1>1, <1>2, <2>1, <2>2 DEF RequestsOf, Owing
  <2>3. CASE b # a
    BY <1>1, <1>2, <2>1, <2>3 DEF RequestsOf, Owing
  <2> QED
    BY <2>2, <2>3
<1> QED
  BY <1>3, <1>4

(* With every crash all messages not settled may be told once more.        *)
LEMMA RestartPreserves == ASSUME HookInv, Restart PROVE HookInv'
BY DEF HookInv, HookTypeOK, Restart, RequestsOf, Owing

LEMMA HookInvariance == HookSpec => []HookInv
<1>1. HookInv /\ [HookNext]_hookVars => HookInv'
  <2> SUFFICES ASSUME HookInv, [HookNext]_hookVars PROVE HookInv'
    OBVIOUS
  <2>1. CASE Restart
    BY <2>1, RestartPreserves
  <2>2. ASSUME NEW a \in Acks, HookStep(a) PROVE HookInv'
    <3>1. CASE UpdateRow(a) \/ Audited(a) \/ Settle(a)
      BY <3>1, HandlingPreserves
    <3>2. CASE FindPending(a)
      BY <3>2, FindPendingPreserves
    <3>3. ASSUME NEW s \in Subscriptions, Answered(a, s) \/ RecordDelivery(a, s) PROVE HookInv'
      BY <3>3 DEF Answered, RecordDelivery, HookInv, HookTypeOK, RequestsOf, Owing
    <3> QED
      BY <2>2, <3>1, <3>2, <3>3 DEF HookStep
  <2>3. CASE (\E s \in Subscriptions : Subscribe(s)) \/ UNCHANGED hookVars
    BY <2>3 DEF Subscribe, hookVars, HookInv, HookTypeOK, RequestsOf, Owing
  <2> QED
    BY <2>1, <2>2, <2>3 DEF HookNext
<1> QED
  BY <1>1, HookInitially, PTL DEF HookSpec

(***************************************************************************)
(* A subscriber gets at most one request for an ACK, and one more for each *)
(* crash that makes the broker repeat the message (webhook.service.ts,     *)
(* lines 31-42 and 83-90).                                                 *)
(***************************************************************************)
THEOREM OneRequest == HookSpec => []OneRequestPerAck
<1>1. HookInv => OneRequestPerAck
  <2> SUFFICES ASSUME HookInv, NEW s \in Subscriptions, NEW a \in Acks
               PROVE  posted[s][a] <= 1 + restarts
    BY DEF OneRequestPerAck
  <2> QED
    BY DEF HookInv, HookTypeOK, RequestsOf
<1> QED
  BY <1>1, HookInvariance, PTL

(***************************************************************************)
(* Counting requests. The ACK consumer, the requests and their records     *)
(* overlap; every request is under way until its attempt is recorded or    *)
(* the record is lost.                                                     *)
(***************************************************************************)
CountTypeOK ==
    /\ subs \in [Subscriptions ->
                [events : EventChoices \cup {{}}, attempts : Nat, before : SUBSET Acks]]
    /\ delivery \in [Acks -> [Subscriptions -> {"no", "post", "record"}]]
    /\ lost \in Nat

(* Whose subscriptions are still to be found has no delivery under way.    *)
NoneUnderWay == \A s \in Subscriptions, a \in Acks : Owing(a) => delivery[a][s] = "no"

CountedRequests ==
    restarts = 0 => \A s \in Subscriptions :
        IsFiniteSet(Requests(s)) /\ IsFiniteSet(UnderWay(s)) /\ Counted(s)

CountInv == CountTypeOK /\ NoneUnderWay /\ CountedRequests

LEMMA CountInitially == HookInit => CountInv
<1> SUFFICES ASSUME HookInit PROVE CountInv
  OBVIOUS
<1>1. CountTypeOK /\ NoneUnderWay
  BY FaultsAreBounded DEF HookInit, CountTypeOK, NoSubscription, NoneUnderWay
<1>2. ASSUME NEW s \in Subscriptions
      PROVE  Requests(s) = {} /\ UnderWay(s) = {} /\ subs[s].attempts = 0 /\ lost = 0
  BY DEF HookInit, Requests, UnderWay, NoSubscription
<1>3. CountedRequests
  BY <1>2, FS_EmptySet DEF CountedRequests, Counted
<1> QED
  BY <1>1, <1>3 DEF CountInv

(* A subscriber to whom a step sends nothing, and of whom it records       *)
(* nothing, keeps his count, also when it loses another call.              *)
LEMMA CountKept ==
  ASSUME CountInv, CountTypeOK', restarts = 0, NEW s \in Subscriptions,
         posted'[s] = posted[s], UnderWay(s)' = UnderWay(s),
         subs'[s].attempts = subs[s].attempts, lost' >= lost
  PROVE  IsFiniteSet(Requests(s)') /\ IsFiniteSet(UnderWay(s)') /\ Counted(s)'
<1>1. Requests(s)' = Requests(s)
  BY DEF Requests
<1>2. IsFiniteSet(Requests(s)) /\ IsFiniteSet(UnderWay(s)) /\ Counted(s)
  BY DEF CountInv, CountedRequests
<1>3. /\ Cardinality(Requests(s)) \in Nat /\ Cardinality(UnderWay(s)) \in Nat
      /\ subs[s].attempts \in Nat /\ lost \in Nat /\ lost' \in Nat
  BY <1>2, FS_CardinalityType DEF CountInv, CountTypeOK
<1>4. Cardinality(Requests(s)) <= subs[s].attempts + Cardinality(UnderWay(s)) + lost'
  <2>1. PICK l \in Nat : lost' = l
    BY <1>3
  <2> QED
    BY <1>2, <1>3, <2>1 DEF Counted
<1> QED
  BY <1>1, <1>2, <1>4 DEF Counted

LEMMA SubscribeCounts ==
  ASSUME CountInv, NEW s \in Subscriptions, Subscribe(s)
  PROVE  CountInv'
<1>1. /\ UNCHANGED <<message, firing, delivery, posted, lost, restarts>>
      /\ \A t \in Subscriptions : subs'[t].attempts = subs[t].attempts
  BY DEF Subscribe, NoSubscription, CountInv, CountTypeOK
<1>2. CountTypeOK'
  BY DEF Subscribe, CountInv, CountTypeOK
<1>3. NoneUnderWay'
  BY <1>1 DEF CountInv, NoneUnderWay, Owing
<1>4. \A t \in Subscriptions : UnderWay(t)' = UnderWay(t)
  BY <1>1 DEF UnderWay
<1>5. lost \in Nat
  BY DEF CountInv, CountTypeOK
<1>6. CountedRequests'
  BY <1>1, <1>2, <1>4, <1>5, CountKept DEF CountedRequests
<1> QED
  BY <1>2, <1>3, <1>6 DEF CountInv

LEMMA HandlingCounts ==
  ASSUME HookInv, CountInv, NEW a \in Acks, UpdateRow(a) \/ Audited(a) \/ Settle(a)
  PROVE  CountInv'
<1>1. UNCHANGED <<subs, delivery, posted, restarts>> /\ (lost' = lost \/ lost' = lost + 1)
  BY DEF UpdateRow, Audited, Settle, LoseCall
<1>2. CountTypeOK' /\ lost' >= lost
  BY <1>1 DEF CountInv, CountTypeOK
<1>3. \A b \in Acks : Owing(b)' => Owing(b)
  BY DEF HookInv, HookTypeOK, UpdateRow, Audited, Settle, Owing
<1>4. NoneUnderWay'
  BY <1>1, <1>3 DEF CountInv, NoneUnderWay
<1>5. \A t \in Subscriptions : UnderWay(t)' = UnderWay(t)
  BY <1>1 DEF UnderWay
<1>6. CountedRequests'
  BY <1>1, <1>2, <1>5, CountKept DEF CountedRequests
<1> QED
  BY <1>2, <1>4, <1>6 DEF CountInv

(* A request more is a delivery more that is under way.                    *)
LEMMA FindPendingCounts ==
  ASSUME HookInv, CountInv, NEW a \in Acks, FindPending(a)
  PROVE  CountInv'
<1>1. /\ firing[a] = "find_pending" /\ firing' = [firing EXCEPT ![a] = "no"]
      /\ UNCHANGED <<subs, message, restarts>>
  BY DEF FindPending
<1>2. /\ delivery \in [Acks -> [Subscriptions -> {"no", "post", "record"}]] /\ lost \in Nat
      /\ posted \in [Subscriptions -> [Acks -> Nat]] /\ firing \in [Acks -> {"no", "find_pending"}]
  BY DEF HookInv, HookTypeOK, CountInv, CountTypeOK
<1>3. \A b \in Acks : (Owing(b)' => Owing(b)) /\ (b = a => Owing(b))
  BY <1>1, <1>2 DEF Owing
<1>4. ASSUME NEW s \in Subscriptions PROVE ~Owing(a)'
  <2>1. message[a] \notin {"queued", "updated"}
    BY <1>1 DEF HookInv, RequestsOf
  <2> QED
    BY <1>1, <1>2, <2>1 DEF Owing
<1>5. \A s \in Subscriptions : delivery[a][s] = "no"
  BY <1>3 DEF CountInv, NoneUnderWay
<1>6. CASE LoseCall /\ UNCHANGED <<delivery, posted>>
  <2>1. lost' = lost + 1 /\ lost' >= lost
    BY <1>2, <1>6 DEF LoseCall
  <2>2. CountTypeOK'
    BY <1>1, <1>2, <1>6, <2>1 DEF CountInv, CountTypeOK
  <2>3. NoneUnderWay'
    BY <1>3, <1>6 DEF CountInv, NoneUnderWay
  <2>4. \A t \in Subscriptions : UnderWay(t)' = UnderWay(t)
    BY <1>6 DEF UnderWay
  <2>5. CountedRequests'
    BY <1>1, <1>6, <2>1, <2>2, <2>4, CountKept DEF CountedRequests
  <2> QED
    BY <2>2, <2>3, <2>5 DEF CountInv
<1>7. CASE /\ delivery' = [delivery EXCEPT ![a] = [s \in Subscriptions |->
                 IF s \in Pending(a) THEN "post" ELSE @[s]]]
           /\ posted' = [s \in Subscriptions |->
                 [posted[s] EXCEPT ![a] = IF s \in Pending(a) THEN @ + 1 ELSE @]]
           /\ UNCHANGED lost
  <2>1. ASSUME NEW s \in Subscriptions
        PROVE  /\ delivery'[a][s] = IF s \in Pending(a) THEN "post" ELSE delivery[a][s]
               /\ \A b \in Acks \ {a} : delivery'[b][s] = delivery[b][s]
    BY <1>2, <1>7
  <2>2. ASSUME NEW s \in Subscriptions
        PROVE  /\ posted'[s][a] = IF s \in Pending(a) THEN posted[s][a] + 1 ELSE posted[s][a]
               /\ \A b \in Acks \ {a} : posted'[s][b] = posted[s][b]
               /\ posted'[s] = [posted[s] EXCEPT ![a] = posted'[s][a]]
    BY <1>2, <1>7
  <2>3. CountTypeOK'
    <3>1. [s \in Subscriptions |-> IF s \in Pending(a) THEN "post" ELSE delivery[a][s]]
              \in [Subscriptions -> {"no", "post", "record"}]
      BY <1>2
    <3>2. delivery' \in [Acks -> [Subscriptions -> {"no", "post", "record"}]]
      BY <1>2, <1>7, <3>1
    <3> QED
      BY <1>1, <1>2, <1>7, <3>2 DEF CountInv, CountTypeOK
  <2>4. NoneUnderWay'
    <3> SUFFICES ASSUME NEW s \in Subscriptions, NEW b \in Acks, Owing(b)'
                 PROVE  delivery'[b][s] = "no"
      BY DEF NoneUnderWay
    <3>1. b # a /\ Owing(b)
      BY <1>3, <1>4
    <3> QED
      BY <2>1, <3>1 DEF CountInv, NoneUnderWay
  <2>5. ASSUME restarts = 0, NEW s \in Subscriptions
        PROVE  IsFiniteSet(Requests(s)') /\ IsFiniteSet(UnderWay(s)') /\ Counted(s)'
    <3>1. CASE s \notin Pending(a)
      <4>1. posted'[s] = posted[s]
        <5>1. posted'[s][a] = posted[s][a] /\ posted[s] \in [Acks -> Nat]
          BY <1>2, <2>2, <3>1
        <5>2. posted'[s] = [posted[s] EXCEPT ![a] = posted'[s][a]]
          BY <2>2
        <5> QED
          BY <5>1, <5>2
      <4>2. UnderWay(s)' = UnderWay(s)
        BY <2>1, <3>1 DEF UnderWay
      <4>3. subs'[s].attempts = subs[s].attempts /\ lost' >= lost
        BY <1>1, <1>2, <1>7
      <4> QED
        BY <2>3, <2>5, <4>1, <4>2, <4>3, CountKept
    <3>2. CASE s \in Pending(a)
      <4> DEFINE n == posted[s][a]
      <4>1. n \in Nat /\ posted'[s][a] = n + 1
        BY <1>2, <2>2, <3>2
      <4>2. IsFiniteSet(Requests(s)) /\ IsFiniteSet(UnderWay(s)) /\ Counted(s)
        BY <2>5 DEF CountInv, CountedRequests
      <4>3. Requests(s)' = Requests(s) \cup {<<a, n + 1>>} /\ <<a, n + 1>> \notin Requests(s)
        <5>1. 1 .. posted'[s][a] = (1 .. n) \cup {n + 1}
          BY <4>1
        <5>2. \A x : x \in Requests(s)' <=>
                  \E b \in Acks : \E i \in 1 .. posted'[s][b] : x = <<b, i>>
          BY DEF Requests
        <5>3. \A x : x \in Requests(s) <=>
                  \E b \in Acks : \E i \in 1 .. posted[s][b] : x = <<b, i>>
          BY DEF Requests
        <5>4. \A x : x \in Requests(s)' <=> x \in Requests(s) \/ x = <<a, n + 1>>
          BY <2>2, <5>1, <5>2, <5>3
        <5>5. n + 1 \notin 1 .. n
          BY <4>1
        <5> QED
          BY <5>3, <5>4, <5>5
      <4>4. UnderWay(s)' = UnderWay(s) \cup {a} /\ a \notin UnderWay(s)
        BY <1>5, <2>1, <3>2 DEF UnderWay
      <4>5. /\ IsFiniteSet(Requests(s)')
            /\ Cardinality(Requests(s)') = Cardinality(Requests(s)) + 1
        <5> HIDE DEF n
        <5> QED
          BY <4>2, <4>3, FS_AddElement
      <4>6. /\ IsFiniteSet(UnderWay(s)')
            /\ Cardinality(UnderWay(s)') = Cardinality(UnderWay(s)) + 1
        BY <4>2, <4>4, FS_AddElement
      <4>7. /\ Cardinality(Requests(s)) \in Nat /\ Cardinality(UnderWay(s)) \in Nat
            /\ subs'[s].attempts = subs[s].attempts /\ lost' = lost
            /\ subs[s].attempts \in Nat
        BY <1>1, <1>7, <4>2, FS_CardinalityType DEF CountInv, CountTypeOK
      <4>8. Counted(s)'
        BY <1>2, <4>2, <4>5, <4>6, <4>7 DEF Counted
      <4> QED
        BY <4>5, <4>6, <4>8
    <3> QED
      BY <3>1, <3>2
  <2>6. CountedRequests'
    BY <1>1, <2>5 DEF CountedRequests
  <2> QED
    BY <2>3, <2>4, <2>6 DEF CountInv
<1> QED
  BY <1>6, <1>7 DEF FindPending

LEMMA AnsweredCounts ==
  ASSUME HookInv, CountInv, NEW a \in Acks, NEW r \in Subscriptions, Answered(a, r)
  PROVE  CountInv'
<1>1. /\ delivery[a][r] = "post" /\ delivery' = [delivery EXCEPT ![a][r] = "record"]
      /\ UNCHANGED <<subs, message, firing, posted, lost, restarts>>
  BY DEF Answered
<1>2. CountTypeOK'
  BY <1>1 DEF CountInv, CountTypeOK
<1>3. \A b \in Acks, s \in Subscriptions : delivery'[b][s] = "no" <=> delivery[b][s] = "no"
  BY <1>1 DEF CountInv, CountTypeOK
<1>4. NoneUnderWay'
  BY <1>1, <1>3 DEF CountInv, NoneUnderWay, Owing
<1>5. \A s \in Subscriptions : UnderWay(s)' = UnderWay(s)
  BY <1>3 DEF UnderWay
<1>6. lost' >= lost
  BY <1>1 DEF CountInv, CountTypeOK
<1>7. CountedRequests'
  BY <1>1, <1>2, <1>5, <1>6, CountKept DEF CountedRequests
<1> QED
  BY <1>2, <1>4, <1>7 DEF CountInv

(* A delivery ends with an attempt on the row or a lost call.              *)
LEMMA RecordDeliveryCounts ==
  ASSUME HookInv, CountInv, NEW a \in Acks, NEW r \in Subscriptions, RecordDelivery(a, r)
  PROVE  CountInv'
<1>1. /\ delivery[a][r] = "record" /\ delivery' = [delivery EXCEPT ![a][r] = "no"]
      /\ UNCHANGED <<message, firing, posted, restarts>>
      /\ \/ subs' = [subs EXCEPT ![r].attempts = @ + 1] /\ lost' = lost
         \/ subs' = subs /\ lost' = lost + 1
  BY DEF RecordDelivery, LoseCall
<1>2. /\ subs \in [Subscriptions ->
             [events : EventChoices \cup {{}}, attempts : Nat, before : SUBSET Acks]]
      /\ delivery \in [Acks -> [Subscriptions -> {"no", "post", "record"}]]
      /\ lost \in Nat
  BY DEF CountInv, CountTypeOK
<1>3. lost' \in Nat /\ lost' >= lost
  BY <1>1, <1>2
<1>4. CountTypeOK'
  <2>1. delivery' \in [Acks -> [Subscriptions -> {"no", "post", "record"}]]
    <3>1. [delivery[a] EXCEPT ![r] = "no"] \in [Subscriptions -> {"no", "post", "record"}]
      BY <1>2
    <3> QED
      BY <1>1, <1>2, <3>1
  <2>2. subs' \in [Subscriptions ->
            [events : EventChoices \cup {{}}, attempts : Nat, before : SUBSET Acks]]
    <3>1. /\ subs[r].attempts + 1 \in Nat
          /\ subs[r] \in [events : EventChoices \cup {{}}, attempts : Nat, before : SUBSET Acks]
      BY <1>2
    <3>2. [subs[r] EXCEPT !.attempts = @ + 1]
              \in [events : EventChoices \cup {{}}, attempts : Nat, before : SUBSET Acks]
      BY <3>1
    <3> QED
      BY <1>1, <1>2, <3>2
  <2> QED
    BY <1>3, <2>1, <2>2 DEF CountTypeOK
<1>5. /\ \A b \in Acks, s \in Subscriptions :
             delivery'[b][s] = IF b = a /\ s = r THEN "no" ELSE delivery[b][s]
      /\ \A s \in Subscriptions : s # r => subs'[s].attempts = subs[s].attempts
  BY <1>1, <1>2
<1>6. NoneUnderWay'
  BY <1>1, <1>5 DEF CountInv, NoneUnderWay, Owing
<1>7. ASSUME restarts = 0, NEW s \in Subscriptions
      PROVE  IsFiniteSet(Requests(s)') /\ IsFiniteSet(UnderWay(s)') /\ Counted(s)'
  <2>1. CASE s # r
    <3>1. UnderWay(s)' = UnderWay(s)
      BY <1>5, <2>1 DEF UnderWay
    <3> QED
      BY <1>1, <1>3, <1>4, <1>5, <1>7, <2>1, <3>1, CountKept
  <2>2. CASE s = r
    <3>1. IsFiniteSet(Requests(s)) /\ IsFiniteSet(UnderWay(s)) /\ Counted(s)
      BY <1>7 DEF CountInv, CountedRequests
    <3>2. Requests(s)' = Requests(s)
      BY <1>1 DEF Requests
    <3>3. UnderWay(s)' = UnderWay(s) \ {a} /\ a \in UnderWay(s)
      BY <1>1, <1>5, <2>2 DEF UnderWay
    <3>4. /\ IsFiniteSet(UnderWay(s)')
          /\ Cardinality(UnderWay(s)') = Cardinality(UnderWay(s)) - 1
      BY <3>1, <3>3, FS_RemoveElement
    <3>5. /\ Cardinality(Requests(s)) \in Nat /\ Cardinality(UnderWay(s)) \in Nat
          /\ subs[s].attempts \in Nat
      BY <1>2, <3>1, FS_CardinalityType
    <3>6. \/ subs'[s].attempts = subs[s].attempts + 1 /\ lost' = lost
          \/ subs'[s].attempts = subs[s].attempts /\ lost' = lost + 1
      BY <1>1, <1>2, <2>2
    <3>7. Counted(s)'
      BY <1>2, <3>1, <3>2, <3>4, <3>5, <3>6 DEF Counted
    <3> QED
      BY <3>1, <3>2, <3>4, <3>7
  <2> QED
    BY <2>1, <2>2
<1>8. CountedRequests'
  BY <1>1, <1>7 DEF CountedRequests
<1> QED
  BY <1>4, <1>6, <1>8 DEF CountInv

LEMMA RestartCounts == ASSUME HookInv, CountInv, Restart PROVE CountInv'
<1>1. CountTypeOK' /\ NoneUnderWay'
  BY DEF Restart, CountInv, CountTypeOK, NoneUnderWay
<1>2. restarts' # 0
  BY DEF Restart, HookInv, HookTypeOK
<1> QED
  BY <1>1, <1>2 DEF CountInv, CountedRequests

(***************************************************************************)
(* delivery_attempts accounts for every request, but for those under way   *)
(* and those whose record was lost, however the deliveries of several ACKs *)
(* overlap (webhook.repository.ts, lines 65-73).                           *)
(***************************************************************************)
THEOREM AttemptsAccountForRequests == HookSpec => []AttemptsAreCounted
<1>1. HookInv /\ CountInv /\ [HookNext]_hookVars => CountInv'
  <2> SUFFICES ASSUME HookInv, CountInv, [HookNext]_hookVars PROVE CountInv'
    OBVIOUS
  <2>1. CASE Restart
    BY <2>1, RestartCounts
  <2>2. ASSUME NEW a \in Acks, HookStep(a) PROVE CountInv'
    BY <2>2, HandlingCounts, FindPendingCounts, AnsweredCounts, RecordDeliveryCounts DEF HookStep
  <2>3. ASSUME NEW s \in Subscriptions, Subscribe(s) PROVE CountInv'
    BY <2>3, SubscribeCounts
  <2>4. CASE UNCHANGED hookVars
    <3>1. CountTypeOK' /\ NoneUnderWay'
      BY <2>4 DEF hookVars, CountInv, CountTypeOK, NoneUnderWay, Owing
    <3>2. ASSUME NEW s \in Subscriptions
          PROVE  Requests(s)' = Requests(s) /\ UnderWay(s)' = UnderWay(s) /\ Counted(s)' = Counted(s)
      BY <2>4 DEF hookVars, Requests, UnderWay, Counted
    <3>3. restarts' = restarts
      BY <2>4 DEF hookVars
    <3> QED
      BY <3>1, <3>2, <3>3 DEF CountInv, CountedRequests
  <2> QED
    BY <2>1, <2>2, <2>3, <2>4 DEF HookNext
<1>2. CountInv => AttemptsAreCounted
  BY DEF CountInv, CountedRequests, AttemptsAreCounted
<1> QED
  BY <1>1, <1>2, CountInitially, HookInvariance, PTL DEF HookSpec

-----------------------------------------------------------------------------
(***************************************************************************)
(* Reconciliation                                                          *)
(***************************************************************************)

ReconTypeOK ==
    /\ status \in Statuses
    /\ created \in Nat /\ still \in Nat
    /\ queued \in Nat \cup {Never}
    /\ answered \in Nat \cup {Never}
    /\ timer \in 0 .. Period
    /\ run \in [row : Seen, elapsed : 0 .. MaxQuery] \cup {Never}
    /\ reports \subseteq {"stuck", "stalled"}
    /\ missed \in Nat

(* The stamps of the row, by its status. Only an answer the payment gets   *)
(* in the queue is stamped.                                                *)
Stamped ==
    /\ status \in Preparing \cup {"absent", "answered early"} =>
           queued = Never /\ answered = Never
    /\ status = "QUEUED" => queued # Never /\ answered = Never
    /\ status = "ended" =>
           /\ answered = Never <=> queued = Never
           /\ answered # Never => answered <= queued

(* The interval and the run it has started keep time, and what the query   *)
(* saw is older than the run at most.                                      *)
RunKeepsTime ==
    run # Never =>
        /\ run.elapsed + timer = Period
        /\ run.row = "QUEUED" =>
               /\ queued # Never
               /\ answered # Never => queued <= answered + run.elapsed

JudgedByThreshold ==
    "stuck" \in reports =>
        /\ queued # Never /\ queued > Threshold
        /\ answered # Never => answered + MaxQuery > Threshold

(* A payment that waits and is not reported yet is met in time: by the     *)
(* next run, or by the one that is under way.                              *)
WaitingIsMet ==
    (/\ status = "QUEUED" /\ "stuck" \notin reports
     /\ created - queued + Threshold + Gap <= Lookback)
    => \/ queued + timer <= Threshold + Gap
       \/ /\ run # Never /\ run.row \in {Unseen, "QUEUED"}
          /\ queued - run.elapsed <= Threshold + Gap

(* When a pipeline that stopped where it stands is old enough.             *)
Due == IF created - still < Threshold THEN Threshold ELSE created - still

StalledIsMet ==
    (/\ status \in {"CANONICALIZED", "ROUTED"} /\ "stalled" \notin reports
     /\ Due + Gap <= Lookback)
    => \/ created + timer <= Due + Gap
       \/ /\ run # Never /\ run.row \in {Unseen, "CANONICALIZED", "ROUTED"}
          /\ created - run.elapsed <= Due + Gap

ReconInv ==
    /\ ReconTypeOK
    /\ Stamped
    /\ RunKeepsTime
    /\ JudgedByThreshold
    /\ WaitingIsMet
    /\ StalledIsMet

LEMMA Sizes ==
  /\ Period \in Nat /\ Lookback \in Nat /\ Threshold \in Nat /\ MaxQuery \in Nat
  /\ MaxMissed \in Nat /\ MaxQuery < Threshold /\ MaxQuery < Period
BY Times, QueriesAreShort

LEMMA GapGrows ==
  ASSUME missed \in Nat
  PROVE  /\ Gap \in Nat /\ Gap >= Period
         /\ missed' = missed => Gap' = Gap
         /\ missed' = missed + 1 => Gap' = Gap + Period + MaxQuery
<1>1. missed * (Period + MaxQuery) \in Nat
  BY Sizes
<1>2. (missed + 1) * (Period + MaxQuery) = missed * (Period + MaxQuery) + Period + MaxQuery
  BY Sizes
<1> QED
  BY <1>1, <1>2, Sizes DEF Gap

LEMMA DueFacts ==
  ASSUME created \in Nat, still \in Nat
  PROVE  Due \in Int /\ Due >= Threshold /\ Due >= created - still
BY Sizes DEF Due

(* Which fields of a run under way are what.                               *)
LEMMA RunFields ==
  ASSUME ReconTypeOK, run # Never
  PROVE  run.row \in Seen /\ run.elapsed \in 0 .. MaxQuery /\ run.elapsed \in Nat
BY Sizes DEF ReconTypeOK

LEMMA ReconInitially == ReconInit => ReconInv
BY Sizes DEF ReconInit, ReconInv, ReconTypeOK, Stamped, RunKeepsTime, JudgedByThreshold,
   WaitingIsMet, StalledIsMet, Statuses, Preparing

LEMMA AfterFacts ==
  ASSUME NEW s \in Preparing
  PROVE  /\ After(s) \in {"VALIDATED", "CANONICALIZED", "ROUTED", "QUEUED"}
         /\ After(s) = "QUEUED" <=> s = "ROUTED"
BY DEF Preparing, After

LEMMA StampsAreTimes == \A n \in Nat : n # Never
BY NeverIsNoTime

(* The payment's own steps: no clock moves and no report is written.       *)
LEMMA PaymentStepPreserves ==
  ASSUME ReconInv, Create \/ Advance \/ End \/ EarlyAck \/ LateQueued
  PROVE  ReconInv'
<1> USE DEF ReconInv, Preparing, Statuses
<1>1. UNCHANGED <<created, timer, run, reports, missed>>
  BY DEF Create, Advance, End, EarlyAck, LateQueued
<1>2. Gap' = Gap /\ Gap \in Nat /\ Gap >= Period
  BY <1>1, GapGrows DEF ReconTypeOK
<1>3. ReconTypeOK'
  <2>1. /\ created' \in Nat /\ timer' \in 0 .. Period /\ missed' \in Nat
        /\ run' \in [row : Seen, elapsed : 0 .. MaxQuery] \cup {Never}
        /\ reports' \subseteq {"stuck", "stalled"}
    BY <1>1 DEF ReconTypeOK
  <2>2. status' \in Statuses
    BY AfterFacts DEF ReconTypeOK, Create, Advance, End, EarlyAck, LateQueued
  <2>3. still' \in Nat /\ queued' \in Nat \cup {Never} /\ answered' \in Nat \cup {Never}
    <3>1. /\ still' = still \/ still' = 0
          /\ queued' = queued \/ queued' = 0
          /\ answered' = answered \/ answered' = queued
      <4>1. CASE Create \/ EarlyAck \/ LateQueued
        BY <4>1 DEF Create, EarlyAck, LateQueued
      <4>2. CASE Advance
        BY <4>2 DEF Advance
      <4>3. CASE End
        BY <4>3 DEF End
      <4> QED
        BY <4>1, <4>2, <4>3
    <3>2. still \in Nat /\ queued \in Nat \cup {Never} /\ answered \in Nat \cup {Never}
      BY DEF ReconTypeOK
    <3> QED
      BY <3>1, <3>2
  <2> QED
    BY <2>1, <2>2, <2>3 DEF ReconTypeOK
<1>4. Stamped'
  <2>0. 0 # Never
    BY StampsAreTimes
  <2>1. CASE Create \/ EarlyAck \/ LateQueued
    BY <2>0, <2>1 DEF Stamped, Create, EarlyAck, LateQueued
  <2>2. CASE Advance
    <3>1. queued = Never /\ answered = Never /\ answered' = answered
      BY <2>2 DEF Stamped, Advance
    <3>2. /\ status' \in {"VALIDATED", "CANONICALIZED", "ROUTED", "QUEUED"}
          /\ queued' = IF status' = "QUEUED" THEN 0 ELSE queued
      BY <2>2, AfterFacts DEF Advance
    <3> QED
      BY <2>0, <3>1, <3>2 DEF Stamped
  <2>3. CASE End
    <3>1. status' = "ended" /\ answered' = queued /\ queued' = queued
      BY <2>3 DEF End
    <3>2. queued \in Nat => queued <= queued
      OBVIOUS
    <3> QED
      BY <3>1, <3>2 DEF Stamped, ReconTypeOK
  <2> QED
    BY <2>1, <2>2, <2>3
(* Once it is stamped, a time in the queue stays what it is.               *)
<1>5. /\ queued # Never => queued' = queued
      /\ answered # Never => answered' = answered
      /\ answered' = answered \/ answered' = queued
  BY DEF Stamped, Create, Advance, End, EarlyAck, LateQueued
<1>6. queued' \in Nat \cup {Never} /\ (queued # Never => queued' # Never)
  BY <1>3, <1>5 DEF ReconTypeOK
<1>7. RunKeepsTime'
  <2> SUFFICES ASSUME run # Never, run.row = "QUEUED"
               PROVE  queued' # Never /\ (answered' # Never => queued' <= answered' + run.elapsed)
    BY <1>1 DEF RunKeepsTime
  <2>1. queued # Never /\ queued' = queued /\ queued \in Nat
    BY <1>5 DEF RunKeepsTime, ReconTypeOK
  <2>2. run.elapsed \in Nat
    BY RunFields
  <2> QED
    BY <1>5, <2>1, <2>2 DEF RunKeepsTime
<1>8. JudgedByThreshold'
  <2> SUFFICES ASSUME "stuck" \in reports
               PROVE  /\ queued' # Never /\ queued' > Threshold
                      /\ answered' # Never => answered' + MaxQuery > Threshold
    BY <1>1 DEF JudgedByThreshold
  <2>1. queued # Never /\ queued \in Nat /\ queued' = queued /\ queued > Threshold
    BY <1>5 DEF JudgedByThreshold, ReconTypeOK
  <2> QED
    BY <1>5, <2>1, Sizes DEF JudgedByThreshold
(* Who has just been queued is met by the next run at the latest.          *)
<1>9. WaitingIsMet'
  <2>1. CASE status' = "QUEUED" /\ status # "QUEUED"
    <3>1. queued' = 0
      BY <2>1 DEF Create, Advance, End, EarlyAck, LateQueued, After
    <3>2. timer \in 0 .. Period
      BY DEF ReconTypeOK
    <3>3. queued' + timer' <= Threshold + Gap'
      BY <1>1, <1>2, <3>1, <3>2, Sizes
    <3> QED
      BY <3>3 DEF WaitingIsMet
  <2>2. CASE status' = "QUEUED" /\ status = "QUEUED"
    BY <2>2 DEF Create, Advance, End, EarlyAck, LateQueued
  <2> QED
    BY <2>1, <2>2 DEF WaitingIsMet
(* Nor does it take longer to meet a pipeline that has just moved.         *)
<1>10. StalledIsMet'
  <2>1. CASE status' \in {"CANONICALIZED", "ROUTED"}
    <3>1. still' = 0 /\ created' = created /\ timer' = timer
      BY <1>1, <2>1 DEF Create, Advance, End, EarlyAck, LateQueued, After
    <3>2. created \in Nat /\ timer \in 0 .. Period
      BY DEF ReconTypeOK
    <3>3. Due' = IF created < Threshold THEN Threshold ELSE created
      BY <3>1, <3>2, Sizes DEF Due
    <3>5. created' + timer' <= Due' + Gap'
      BY <1>2, <3>1, <3>2, <3>3, Sizes
    <3> QED
      BY <3>5 DEF StalledIsMet
  <2> QED
    BY <2>1 DEF StalledIsMet
<1> QED
  BY <1>3, <1>4, <1>7, <1>8, <1>9, <1>10

(* The clock of the row rests in all steps of a run but a tick.            *)
LEMMA RowFacts ==
  ASSUME ReconInv, UNCHANGED rowVars
  PROVE  /\ status' \in Statuses /\ created' \in Nat /\ still' \in Nat
         /\ queued' \in Nat \cup {Never} /\ answered' \in Nat \cup {Never}
         /\ Due' = Due
         /\ Stamped'
BY DEF ReconInv, ReconTypeOK, Stamped, rowVars, Due

(* The interval fires only when no run is under way, for a query is        *)
(* answered within a period.                                               *)
LEMMA RunStartsPreserves == ASSUME ReconInv, RunStarts PROVE ReconInv'
<1>1. /\ timer = 0 /\ timer' = Period /\ UNCHANGED <<rowVars, reports, missed>>
      /\ run' = [row |-> Unseen, elapsed |-> 0]
  BY DEF RunStarts
<1>2. ReconTypeOK /\ missed \in Nat /\ Gap \in Nat
  BY GapGrows DEF ReconInv, ReconTypeOK
<1>3. run = Never
  <2> SUFFICES ASSUME run # Never PROVE FALSE
    OBVIOUS
  <2>1. run.elapsed + timer = Period /\ run.elapsed \in 0 .. MaxQuery
    BY <1>2, RunFields DEF ReconInv, RunKeepsTime
  <2> QED
    BY <1>1, <2>1, Sizes
<1>4. run' \in [row : Seen, elapsed : 0 .. MaxQuery] /\ run'.row = Unseen /\ run'.elapsed = 0
  BY <1>1, Sizes DEF Seen
<1>5. run' # Never
  <2>1. run' \in [row : Seen, elapsed : Nat]
    BY <1>1 DEF Seen
  <2> QED
    BY <2>1, NeverIsNoTime
<1>6. /\ UNCHANGED <<status, created, queued, answered>> /\ reports' = reports
      /\ Gap' = Gap /\ Due' = Due
  BY <1>1, <1>2, GapGrows, RowFacts DEF rowVars
<1>7. ReconTypeOK' /\ Stamped'
  BY <1>1, <1>2, <1>4, RowFacts, Sizes DEF ReconTypeOK
<1>8. RunKeepsTime'
  <2>1. run'.row # "QUEUED" /\ run'.elapsed + timer' = Period
    BY <1>1, <1>4, Sizes DEF Unseen
  <2> QED
    BY <2>1 DEF RunKeepsTime
<1>9. JudgedByThreshold'
  BY <1>6 DEF ReconInv, JudgedByThreshold
<1>10. WaitingIsMet'
  <2> SUFFICES ASSUME status = "QUEUED", "stuck" \notin reports,
                      created - queued + Threshold + Gap <= Lookback
               PROVE  queued - run'.elapsed <= Threshold + Gap
    BY <1>4, <1>5, <1>6 DEF WaitingIsMet
  <2>1. queued \in Nat
    BY <1>2 DEF ReconInv, ReconTypeOK, Stamped
  <2>2. queued + timer <= Threshold + Gap
    BY <1>3 DEF ReconInv, WaitingIsMet
  <2> QED
    BY <1>1, <1>2, <1>4, <2>1, <2>2, Sizes
<1>11. StalledIsMet'
  <2> SUFFICES ASSUME status \in {"CANONICALIZED", "ROUTED"}, "stalled" \notin reports,
                      Due + Gap <= Lookback
               PROVE  created - run'.elapsed <= Due + Gap
    BY <1>4, <1>5, <1>6 DEF StalledIsMet
  <2>1. created \in Nat /\ Due \in Int
    BY <1>2, DueFacts DEF ReconTypeOK
  <2>2. created + timer <= Due + Gap
    BY <1>3 DEF ReconInv, StalledIsMet
  <2> QED
    BY <1>1, <1>2, <1>4, <2>1, <2>2, Sizes
<1> QED
  BY <1>7, <1>8, <1>9, <1>10, <1>11 DEF ReconInv

(* Whoever is to be met by this run is within its window: the cutoff is    *)
(* that of the start of the run.                                           *)
LEMMA QueryAnsweredPreserves == ASSUME ReconInv, QueryAnswered PROVE ReconInv'
<1>1. /\ UNCHANGED <<rowVars, timer, reports, missed>>
      /\ run # Never /\ run.row = Unseen
      /\ run' = [run EXCEPT !.row = IF SinceCutoff THEN status ELSE "not found"]
  BY DEF QueryAnswered
<1>2. ReconTypeOK /\ missed \in Nat /\ Gap \in Nat
  BY GapGrows DEF ReconInv, ReconTypeOK
<1>3. /\ run \in [row : Seen, elapsed : 0 .. MaxQuery] /\ run.elapsed \in Nat
      /\ run.elapsed \in 0 .. MaxQuery
  BY <1>1, <1>2, RunFields DEF ReconTypeOK
<1>4. /\ run'.elapsed = run.elapsed
      /\ run'.row = IF SinceCutoff THEN status ELSE "not found"
  BY <1>1, <1>3
<1>5. run' \in [row : Seen, elapsed : 0 .. MaxQuery] /\ run' # Never
  <2>1. status \in Seen /\ "not found" \in Seen
    BY <1>2 DEF ReconTypeOK, Seen
  <2>2. run' \in [row : Seen, elapsed : 0 .. MaxQuery]
    BY <1>1, <1>3, <2>1
  <2>3. run' \in [row : Seen, elapsed : Nat]
    BY <2>2, Sizes
  <2> QED
    BY <2>2, <2>3, NeverIsNoTime
<1>6. /\ UNCHANGED <<status, created, queued, answered, timer>> /\ reports' = reports
      /\ Gap' = Gap /\ Due' = Due
  BY <1>1, <1>2, GapGrows, RowFacts DEF rowVars
<1>7. ReconTypeOK' /\ Stamped'
  BY <1>1, <1>2, <1>5, RowFacts DEF ReconTypeOK
<1>8. RunKeepsTime'
  <2>1. run.elapsed + timer = Period
    BY <1>1 DEF ReconInv, RunKeepsTime
  <2>2. run'.row = "QUEUED" => status = "QUEUED"
    BY <1>4
  <2> QED
    BY <1>4, <1>6, <2>1, <2>2 DEF ReconInv, RunKeepsTime, Stamped
<1>9. JudgedByThreshold'
  BY <1>6 DEF ReconInv, JudgedByThreshold
<1>10. WaitingIsMet'
  <2> SUFFICES ASSUME status = "QUEUED", "stuck" \notin reports,
                      created - queued + Threshold + Gap <= Lookback,
                      queued - run.elapsed <= Threshold + Gap
               PROVE  run'.row = "QUEUED"
    BY <1>1, <1>4, <1>5, <1>6 DEF ReconInv, WaitingIsMet
  <2>1. queued \in Nat /\ created \in Nat
    BY <1>2 DEF ReconInv, ReconTypeOK, Stamped
  <2>2. created - run.elapsed <= Lookback
    BY <1>2, <1>3, <2>1, Sizes
  <2> QED
    BY <1>4, <2>2 DEF SinceCutoff
<1>11. StalledIsMet'
  <2> SUFFICES ASSUME status \in {"CANONICALIZED", "ROUTED"}, "stalled" \notin reports,
                      Due + Gap <= Lookback, created - run.elapsed <= Due + Gap
               PROVE  run'.row = status
    BY <1>1, <1>4, <1>5, <1>6 DEF ReconInv, StalledIsMet
  <2>1. created \in Nat /\ Due \in Int
    BY <1>2, DueFacts DEF ReconTypeOK
  <2>2. created - run.elapsed <= Lookback
    BY <1>2, <1>3, <2>1, Sizes
  <2> QED
    BY <1>4, <2>2 DEF SinceCutoff
<1> QED
  BY <1>7, <1>8, <1>9, <1>10, <1>11 DEF ReconInv

(* A run that has seen the payment either reports it or finds it too young *)
(* to be reported, and then the next run comes within a period.            *)
LEMMA RunReportsPreserves == ASSUME ReconInv, RunReports PROVE ReconInv'
<1>1. /\ UNCHANGED <<rowVars, timer, missed>>
      /\ run # Never /\ run.row # Unseen /\ run' = Never
      /\ reports' = reports \cup (IF Stuck THEN {"stuck"} ELSE {})
                            \cup (IF Stalled THEN {"stalled"} ELSE {})
  BY DEF RunReports
<1>2. /\ ReconTypeOK /\ missed \in Nat /\ Gap \in Nat /\ Gap >= Period
      /\ timer \in 0 .. Period
  BY GapGrows DEF ReconInv, ReconTypeOK
<1>3. run.row \in Seen /\ run.elapsed \in 0 .. MaxQuery /\ run.elapsed + timer = Period
  BY <1>1, <1>2, RunFields DEF ReconInv, RunKeepsTime
<1>4. /\ UNCHANGED <<status, created, queued, answered, timer>>
      /\ Gap' = Gap /\ Due' = Due
  BY <1>1, <1>2, GapGrows, RowFacts DEF rowVars
<1>5. ReconTypeOK' /\ Stamped'
  BY <1>1, <1>2, RowFacts DEF ReconTypeOK
<1>6. RunKeepsTime'
  BY <1>1 DEF RunKeepsTime
<1>7. JudgedByThreshold'
  <2>1. CASE "stuck" \in reports
    BY <1>4, <2>1 DEF ReconInv, JudgedByThreshold
  <2>2. CASE Stuck
    <3>1. run.row = "QUEUED" /\ queued > Threshold
      BY <1>3, <2>2 DEF Stuck, Seen, Statuses, Preparing, Unseen
    <3>2. queued # Never /\ (answered # Never => queued <= answered + run.elapsed)
      BY <1>1, <3>1 DEF ReconInv, RunKeepsTime
    <3>3. queued \in Nat /\ (answered # Never => answered \in Nat)
      BY <1>2, <3>2 DEF ReconTypeOK
    <3>4. answered # Never => answered + MaxQuery > Threshold
      BY <1>3, <3>1, <3>2, <3>3, Sizes
    <3> QED
      BY <1>4, <3>1, <3>2, <3>4 DEF JudgedByThreshold
  <2>3. CASE "stuck" \notin reports'
    BY <2>3 DEF JudgedByThreshold
  <2> QED
    BY <1>1, <2>1, <2>2, <2>3
<1>8. WaitingIsMet'
  <2> SUFFICES ASSUME status = "QUEUED", "stuck" \notin reports', "stuck" \notin reports,
                      run.row = "QUEUED"
               PROVE  queued + timer <= Threshold + Gap
    BY <1>1, <1>4 DEF ReconInv, WaitingIsMet
  <2>1. queued \in Nat /\ ~(queued > Threshold)
    BY <1>1, <1>2 DEF ReconInv, ReconTypeOK, Stamped, Stuck
  <2> QED
    BY <1>2, <2>1, Sizes
<1>9. StalledIsMet'
  <2> SUFFICES ASSUME status \in {"CANONICALIZED", "ROUTED"}, "stalled" \notin reports',
                      run.row \in {"CANONICALIZED", "ROUTED"}
               PROVE  created + timer <= Due + Gap
    BY <1>1, <1>4 DEF ReconInv, StalledIsMet
  <2>1. ~(created > Threshold)
    BY <1>1 DEF Stalled
  <2>2. created \in Nat /\ Due \in Int /\ Due >= Threshold
    BY <1>2, DueFacts DEF ReconTypeOK
  <2> QED
    BY <1>2, <2>1, <2>2, Sizes
<1> QED
  BY <1>5, <1>6, <1>7, <1>8, <1>9 DEF ReconInv

(* What fails costs a period and the time the run had taken.               *)
LEMMA MissPreserves == ASSUME ReconInv, RunFails \/ ReconRestart PROVE ReconInv'
<1>1. /\ UNCHANGED <<rowVars, reports>> /\ run' = Never /\ missed' = missed + 1
      /\ timer' = timer \/ timer' = Period
  BY DEF RunFails, ReconRestart
<1>2. /\ ReconTypeOK /\ missed \in Nat /\ Gap \in Nat
      /\ timer \in 0 .. Period /\ timer' \in 0 .. Period
  BY <1>1, GapGrows, Sizes DEF ReconInv, ReconTypeOK
<1>3. run # Never => run.elapsed \in 0 .. MaxQuery
  BY <1>2, RunFields
<1>4. /\ UNCHANGED <<status, created, queued, answered>> /\ reports' = reports
      /\ Gap' = Gap + Period + MaxQuery /\ Due' = Due
  BY <1>1, <1>2, GapGrows, RowFacts DEF rowVars
<1>t. PICK t \in 0 .. Period : timer' = t
  BY <1>2
<1>5. ReconTypeOK' /\ Stamped'
  BY <1>1, <1>2, RowFacts DEF ReconTypeOK
<1>6. RunKeepsTime'
  BY <1>1 DEF RunKeepsTime
<1>7. JudgedByThreshold'
  BY <1>4 DEF ReconInv, JudgedByThreshold
<1>8. WaitingIsMet'
  <2> SUFFICES ASSUME status = "QUEUED", "stuck" \notin reports,
                      created - queued + Threshold + Gap' <= Lookback
               PROVE  queued + timer' <= Threshold + Gap'
    BY <1>4 DEF WaitingIsMet
  <2>1. queued \in Nat /\ created \in Nat
    BY <1>2 DEF ReconInv, ReconTypeOK, Stamped
  <2>2. created - queued + Threshold + Gap <= Lookback
    BY <1>2, <1>4, <2>1, Sizes
  <2>3. \/ queued + timer <= Threshold + Gap
        \/ run # Never /\ queued - run.elapsed <= Threshold + Gap
    BY <2>2 DEF ReconInv, WaitingIsMet
  <2>4. queued <= Threshold + Gap + MaxQuery
    BY <1>2, <1>3, <2>1, <2>3, Sizes
  <2> QED
    BY <1>2, <1>4, <1>t, <2>1, <2>4, Sizes
<1>9. StalledIsMet'
  <2> SUFFICES ASSUME status \in {"CANONICALIZED", "ROUTED"}, "stalled" \notin reports,
                      Due + Gap' <= Lookback
               PROVE  created + timer' <= Due + Gap'
    BY <1>4 DEF StalledIsMet
  <2>1. created \in Nat /\ Due \in Int
    BY <1>2, DueFacts DEF ReconTypeOK
  <2>2. Due + Gap <= Lookback
    BY <1>2, <1>4, <2>1, Sizes
  <2>3. \/ created + timer <= Due + Gap
        \/ run # Never /\ created - run.elapsed <= Due + Gap
    BY <2>2 DEF ReconInv, StalledIsMet
  <2>4. created <= Due + Gap + MaxQuery
    BY <1>2, <1>3, <2>1, <2>3, Sizes
  <2> QED
    BY <1>2, <1>4, <1>t, <2>1, <2>4, Sizes
<1> QED
  BY <1>5, <1>6, <1>7, <1>8, <1>9 DEF ReconInv

(* All ages grow together or, beyond the horizon, not at all.              *)
LEMMA ReconTickPreserves == ASSUME ReconInv, ReconTick PROVE ReconInv'
<1>1. /\ timer > 0 /\ timer' = timer - 1 /\ UNCHANGED <<status, answered, reports, missed>>
      /\ run # Never => run.elapsed < MaxQuery
      /\ run' = IF run = Never THEN run ELSE [run EXCEPT !.elapsed = @ + 1]
  BY DEF ReconTick
<1>2. /\ ReconTypeOK /\ missed \in Nat /\ Gap \in Nat /\ Gap' = Gap
      /\ timer \in 0 .. Period
  BY <1>1, GapGrows DEF ReconInv, ReconTypeOK
<1>3. PICK d \in {0, 1} : /\ created' = created + d /\ still' = still + d
                          /\ queued' = IF queued # Never THEN queued + d ELSE Never
  <2>1. created = created + 0 /\ still = still + 0 /\ (queued # Never => queued = queued + 0)
    BY <1>2 DEF ReconTypeOK
  <2> QED
    BY <2>1 DEF ReconTick
<1>4. created \in Nat /\ still \in Nat /\ queued \in Nat \cup {Never}
  BY <1>2 DEF ReconTypeOK
<1>5. /\ run' = Never <=> run = Never
      /\ run # Never => /\ run'.row = run.row
                        /\ run.elapsed \in Nat
                        /\ run'.elapsed = run.elapsed + 1
                        /\ run' \in [row : Seen, elapsed : 0 .. MaxQuery]
  <2>1. CASE run = Never
    BY <1>1, <2>1
  <2>2. CASE run # Never
    <3>1. run \in [row : Seen, elapsed : 0 .. MaxQuery] /\ run.elapsed \in 0 .. MaxQuery
      BY <1>2, <2>2, RunFields DEF ReconTypeOK
    <3>2. run.elapsed + 1 \in 0 .. MaxQuery /\ run.elapsed \in Nat
      BY <1>1, <2>2, <3>1, Sizes
    <3>3. /\ run' \in [row : Seen, elapsed : 0 .. MaxQuery]
          /\ run'.row = run.row /\ run'.elapsed = run.elapsed + 1
      BY <1>1, <2>2, <3>1, <3>2
    <3>4. run' \in [row : Seen, elapsed : Nat]
      BY <3>3, Sizes
    <3> QED
      BY <2>2, <3>2, <3>3, <3>4, NeverIsNoTime
  <2> QED
    BY <2>1, <2>2
<1>6. queued # Never => queued \in Nat /\ queued' = queued + d /\ queued' # Never
  <2>1. queued # Never => queued + d \in Nat
    BY <1>4
  <2> QED
    BY <1>3, <1>4, <2>1, StampsAreTimes
<1>7. ReconTypeOK'
  <2>1. created' \in Nat /\ still' \in Nat /\ timer' \in 0 .. Period
    BY <1>1, <1>2, <1>3, <1>4, Sizes
  <2>2. queued' \in Nat \cup {Never}
    BY <1>3, <1>4
  <2>3. run' \in [row : Seen, elapsed : 0 .. MaxQuery] \cup {Never}
    BY <1>5
  <2> QED
    BY <1>1, <1>2, <2>1, <2>2, <2>3 DEF ReconTypeOK
<1>8. Stamped'
  <2>1. queued' = Never <=> queued = Never
    BY <1>3, <1>6
  <2>2. ASSUME status = "ended", answered # Never PROVE answered <= queued'
    <3>1. queued # Never /\ answered \in Nat /\ answered <= queued
      BY <1>2, <2>2 DEF ReconInv, Stamped, ReconTypeOK
    <3> QED
      BY <1>6, <3>1
  <2> QED
    BY <1>1, <2>1, <2>2 DEF ReconInv, Stamped
<1>9. RunKeepsTime'
  <2> SUFFICES ASSUME run # Never
               PROVE  /\ run'.elapsed + timer' = Period
                      /\ run.row = "QUEUED" =>
                             /\ queued' # Never
                             /\ answered # Never => queued' <= answered + run'.elapsed
    BY <1>1, <1>5 DEF RunKeepsTime
  <2>1. run'.elapsed + timer' = Period
    BY <1>1, <1>2, <1>5, Sizes DEF ReconInv, RunKeepsTime
  <2>2. ASSUME run.row = "QUEUED", answered # Never PROVE queued' <= answered + run'.elapsed
    <3>1. queued # Never /\ queued <= answered + run.elapsed /\ answered \in Nat
      BY <1>2, <2>2 DEF ReconInv, RunKeepsTime, ReconTypeOK
    <3>2. queued + d <= answered + (run.elapsed + 1)
      BY <1>5, <1>6, <3>1
    <3> QED
      BY <1>5, <1>6, <3>1, <3>2
  <2> QED
    BY <1>6, <2>1, <2>2 DEF ReconInv, RunKeepsTime
<1>10. JudgedByThreshold'
  <2> SUFFICES ASSUME "stuck" \in reports PROVE queued' # Never /\ queued' > Threshold
    BY <1>1 DEF ReconInv, JudgedByThreshold
  <2>1. queued # Never /\ queued > Threshold
    BY DEF ReconInv, JudgedByThreshold
  <2>2. queued + d > Threshold
    BY <1>6, <2>1, Sizes
  <2> QED
    BY <1>6, <2>1, <2>2
<1>11. WaitingIsMet'
  <2> SUFFICES ASSUME status = "QUEUED", "stuck" \notin reports,
                      created' - queued' + Threshold + Gap <= Lookback
               PROVE  \/ queued' + timer' <= Threshold + Gap
                      \/ /\ run' # Never /\ run'.row \in {Unseen, "QUEUED"}
                         /\ queued' - run'.elapsed <= Threshold + Gap
    BY <1>1, <1>2 DEF WaitingIsMet
  <2>1. queued # Never /\ queued \in Nat /\ queued' = queued + d
    BY <1>6 DEF ReconInv, Stamped
  <2>2. created - queued + Threshold + Gap <= Lookback
    BY <1>2, <1>3, <1>4, <2>1, Sizes
  <2>3. CASE queued + timer <= Threshold + Gap
    <3>1. queued + d + (timer - 1) <= Threshold + Gap
      BY <1>2, <2>1, <2>3, Sizes
    <3> QED
      BY <1>1, <2>1, <3>1
  <2>4. CASE /\ run # Never /\ run.row \in {Unseen, "QUEUED"}
             /\ queued - run.elapsed <= Threshold + Gap
    <3>1. queued + d - (run.elapsed + 1) <= Threshold + Gap
      BY <1>2, <1>5, <2>1, <2>4, Sizes
    <3> QED
      BY <1>5, <2>1, <2>4, <3>1
  <2> QED
    BY <2>2, <2>3, <2>4 DEF ReconInv, WaitingIsMet
<1>12. StalledIsMet'
  <2>1. Due' = Due
    <3>1. created' - still' = created - still
      BY <1>3, <1>4
    <3> QED
      BY <3>1 DEF Due
  <2> SUFFICES ASSUME status \in {"CANONICALIZED", "ROUTED"}, "stalled" \notin reports,
                      Due + Gap <= Lookback
               PROVE  \/ created' + timer' <= Due + Gap
                      \/ /\ run' # Never /\ run'.row \in {Unseen, "CANONICALIZED", "ROUTED"}
                         /\ created' - run'.elapsed <= Due + Gap
    BY <1>1, <1>2, <2>1 DEF StalledIsMet
  <2>2. Due \in Int
    BY <1>4, DueFacts
  <2>3. CASE created + timer <= Due + Gap
    <3>1. created + d + (timer - 1) <= Due + Gap
      BY <1>2, <1>4, <2>2, <2>3, Sizes
    <3> QED
      BY <1>1, <1>3, <3>1
  <2>4. CASE /\ run # Never /\ run.row \in {Unseen, "CANONICALIZED", "ROUTED"}
             /\ created - run.elapsed <= Due + Gap
    <3>1. created + d - (run.elapsed + 1) <= Due + Gap
      BY <1>2, <1>4, <1>5, <2>2, <2>4, Sizes
    <3>2. created' = created + d
      BY <1>3
    <3> QED
      BY <1>4, <1>5, <2>4, <3>1, <3>2
  <2> QED
    BY <2>3, <2>4 DEF ReconInv, StalledIsMet
<1> QED
  BY <1>7, <1>8, <1>9, <1>10, <1>11, <1>12 DEF ReconInv

LEMMA ReconInvariance == ReconSpec => []ReconInv
<1>1. ReconInv /\ [ReconNext]_reconVars => ReconInv'
  <2> SUFFICES ASSUME ReconInv, [ReconNext]_reconVars PROVE ReconInv'
    OBVIOUS
  <2>1. CASE Create \/ Advance \/ End \/ EarlyAck \/ LateQueued
    BY <2>1, PaymentStepPreserves
  <2>2. CASE RunStarts \/ QueryAnswered \/ RunReports \/ RunFails \/ ReconRestart
    BY <2>2, RunStartsPreserves, QueryAnsweredPreserves, RunReportsPreserves, MissPreserves
  <2>3. CASE ReconTick
    BY <2>3, ReconTickPreserves
  <2>4. CASE UNCHANGED reconVars
    BY <2>4 DEF reconVars, ReconInv, ReconTypeOK, Stamped, RunKeepsTime, JudgedByThreshold,
       WaitingIsMet, StalledIsMet, Gap, Due
  <2> QED
    BY <2>1, <2>2, <2>3, <2>4 DEF ReconNext
<1> QED
  BY <1>1, ReconInitially, PTL DEF ReconSpec

(***************************************************************************)
(* A payment that waits for its rail, or whose pipeline has stopped, is    *)
(* reported within the threshold, the time between two runs, what runs     *)
(* that failed and restarts have cost, and one query, as long as it is in  *)
(* the window by then (reconciliation-service.ts, lines 72-208, and        *)
(* index.ts, lines 112-122).                                               *)
(***************************************************************************)
THEOREM StuckPaymentsAreReported == ReconSpec => []StuckIsReported
<1>1. ReconInv => StuckIsReported
  <2> SUFFICES ASSUME ReconInv PROVE StuckIsReported
    OBVIOUS
  <2>1. /\ ReconTypeOK /\ Gap \in Nat /\ timer \in 0 .. Period
        /\ created \in Nat /\ still \in Nat /\ Due \in Int
    BY GapGrows, DueFacts DEF ReconInv, ReconTypeOK
  <2>2. run # Never => run.elapsed \in 0 .. MaxQuery
    BY <2>1, RunFields
  <2>3. WaitingIsReported
    <3> SUFFICES ASSUME status = "QUEUED", queued > Threshold + Gap + MaxQuery,
                        created - queued + Threshold + Gap <= Lookback, "stuck" \notin reports
                 PROVE  FALSE
      BY DEF WaitingIsReported
    <3>1. queued \in Nat
      BY <2>1 DEF ReconInv, ReconTypeOK, Stamped
    <3>2. \/ queued + timer <= Threshold + Gap
          \/ run # Never /\ queued - run.elapsed <= Threshold + Gap
      BY DEF ReconInv, WaitingIsMet
    <3> QED
      BY <2>1, <2>2, <3>1, <3>2, Sizes
  <2>4. StalledIsReported
    <3> SUFFICES ASSUME status \in {"CANONICALIZED", "ROUTED"}, created > Due + Gap + MaxQuery,
                        Due + Gap <= Lookback, "stalled" \notin reports
                 PROVE  FALSE
      BY DEF StalledIsReported, Due
    <3>1. \/ created + timer <= Due + Gap
          \/ run # Never /\ created - run.elapsed <= Due + Gap
      BY DEF ReconInv, StalledIsMet
    <3> QED
      BY <2>1, <2>2, <3>1, Sizes
  <2> QED
    BY <2>3, <2>4 DEF StuckIsReported
<1> QED
  BY <1>1, ReconInvariance, PTL

(***************************************************************************)
(* No payment is reported as stuck that its rail answered in time, by the  *)
(* margin of one query (reconciliation-service.ts, lines 82-125).          *)
(***************************************************************************)
THEOREM PromptPaymentsPass == ReconSpec => []PromptPaymentsAreNotStuck
<1>1. ReconInv => PromptPaymentsAreNotStuck
  BY DEF ReconInv, JudgedByThreshold, PromptPaymentsAreNotStuck
<1> QED
  BY <1>1, ReconInvariance, PTL

(***************************************************************************)
(* Route engine                                                            *)
(***************************************************************************)

\* The place of the first rule that matches exists.
LEMMA LeastNat ==
    ASSUME NEW T, T \subseteq Nat, T # {}
    PROVE  \E x \in T : \A y \in T : x <= y
<1>1. PICK x \in T : \A y \in T : ~(<<y, x>> \in OpToRel(<, Nat))
  BY NatLessThanWellFounded, WFMin
<1>2. \A y \in T : ~(y < x)
  BY <1>1 DEF OpToRel
<1> QED
  BY <1>2

\* What stands before a rule, and how many that is.
Preceding(table, i) == {j \in DOMAIN table : Before(table, j, i)}

LEMMA RankInRange ==
    ASSUME NEW table, IsRuleTable(table), NEW i \in DOMAIN table
    PROVE  /\ IsFiniteSet(Preceding(table, i))
           /\ Rank(table, i) = Cardinality(Preceding(table, i))
           /\ Rank(table, i) \in DOMAIN table
<1>1. IsFiniteSet(1 .. Len(table)) /\ Cardinality(1 .. Len(table)) = Len(table)
  <2>1. Len(table) \in Nat
    BY DEF IsRuleTable
  <2> DEFINE n == Len(table)
  <2> HIDE DEF n
  <2>2. /\ IsFiniteSet(1 .. n)
        /\ Cardinality(1 .. n) = IF 1 > n THEN 0 ELSE n - 1 + 1
    BY <2>1, FS_Interval DEF n
  <2>3. IF 1 > n THEN n = 0 ELSE n - 1 + 1 = n
    BY <2>1 DEF n
  <2> QED
    BY <2>2, <2>3 DEF n
<1>2. Preceding(table, i) \in SUBSET (1 .. Len(table))
  BY DEF Preceding, IsRuleTable
<1>3. /\ IsFiniteSet(Preceding(table, i))
      /\ Cardinality(Preceding(table, i)) <= Len(table)
  BY <1>1, <1>2, FS_Subset
<1>4. i \in Preceding(table, i)
  BY DEF Preceding, Before, IsRuleTable
<1>5. Cardinality(Preceding(table, i)) \in Nat /\ Cardinality(Preceding(table, i)) # 0
  BY <1>3, <1>4, FS_CardinalityType, FS_EmptySet
<1>6. Rank(table, i) = Cardinality(Preceding(table, i))
  BY DEF Rank, Preceding
<1> QED
  BY <1>3, <1>5, <1>6 DEF IsRuleTable

\* Of two rules, the one before the other has the smaller rank.
LEMMA RankFollowsOrder ==
    ASSUME NEW table, IsRuleTable(table),
           NEW i \in DOMAIN table, NEW j \in DOMAIN table, i # j, Before(table, i, j)
    PROVE  Rank(table, i) < Rank(table, j)
<1>1. /\ i \in Int /\ j \in Int
      /\ \A k \in DOMAIN table : k \in Int /\ table[k].priority \in Int
  BY DEF IsRuleTable
<1>2. Preceding(table, i) \in SUBSET Preceding(table, j)
  BY <1>1 DEF Preceding, Before
<1>3. j \in Preceding(table, j) /\ j \notin Preceding(table, i)
  BY <1>1 DEF Preceding, Before
<1>4. IsFiniteSet(Preceding(table, j))
  BY RankInRange
<1>5. /\ Cardinality(Preceding(table, i)) <= Cardinality(Preceding(table, j))
      /\ Cardinality(Preceding(table, i)) # Cardinality(Preceding(table, j))
  BY <1>2, <1>3, <1>4, FS_Subset
<1>6. /\ Rank(table, i) = Cardinality(Preceding(table, i)) /\ Rank(table, i) \in Int
      /\ Rank(table, j) = Cardinality(Preceding(table, j)) /\ Rank(table, j) \in Int
  BY <1>1, RankInRange
<1> QED
  BY <1>5, <1>6

\* Every place is the rank of one rule: the sort is a permutation.
LEMMA EveryPlaceIsTaken ==
    ASSUME NEW table, IsRuleTable(table), NEW k \in DOMAIN table
    PROVE  \E i \in DOMAIN table : Rank(table, i) = k
<1> DEFINE places == DOMAIN table
           rank == [i \in places |-> Rank(table, i)]
<1>1. IsFiniteSet(places)
  <2>1. Len(table) \in Nat /\ places = 1 .. Len(table)
    BY DEF IsRuleTable
  <2> QED
    BY <2>1, FS_Interval
<1>2. rank \in [places -> places]
  BY RankInRange
<1>3. ASSUME NEW i \in places, NEW j \in places, i # j PROVE rank[i] # rank[j]
  <2>1. Before(table, i, j) \/ Before(table, j, i)
    BY DEF Before, IsRuleTable
  <2>2. rank[i] \in places /\ rank[j] \in places
    BY <1>2
  <2>3. rank[i] \in Int /\ rank[j] \in Int
    BY <2>2 DEF IsRuleTable
  <2> QED
    BY <1>3, <2>1, <2>3, RankFollowsOrder
<1>4. rank \in Injection(places, places)
  <2> HIDE DEF places, rank
  <2> QED
    BY <1>2, <1>3 DEF Injection, IsInjective
<1>5. rank \in Surjection(places, places)
  <2> HIDE DEF places, rank
  <2> QED
    BY <1>1, <1>4, FS_Injection
<1>6. \E i \in places : rank[i] = k
  <2> HIDE DEF rank
  <2> QED
    BY <1>5 DEF Surjection
<1> QED
  BY <1>6

\* rules.sort keeps the rules, and orders them by priority.
LEMMA SortedByPriority ==
    ASSUME NEW table, IsRuleTable(table)
    PROVE  /\ DOMAIN ByPriority(table) = DOMAIN table
           /\ Range(ByPriority(table)) = Range(table)
           /\ \A k, l \in DOMAIN table :
                 k < l => ByPriority(table)[k].priority <= ByPriority(table)[l].priority
<1> DEFINE places == DOMAIN table
           at(k) == CHOOSE i \in DOMAIN table : Rank(table, i) = k
<1>1. ASSUME NEW k \in places PROVE at(k) \in places /\ Rank(table, at(k)) = k
  BY EveryPlaceIsTaken
<1>2. ByPriority(table) = [k \in places |-> table[at(k)]]
  BY DEF ByPriority
<1>3. ASSUME NEW i \in places PROVE Rank(table, i) \in places /\ at(Rank(table, i)) = i
  <2>1. Rank(table, i) \in places
    BY RankInRange
  <2>2. at(Rank(table, i)) \in places /\ Rank(table, at(Rank(table, i))) = Rank(table, i)
    BY <1>1, <2>1
  <2> DEFINE m == at(Rank(table, i))
  <2> HIDE DEF at
  <2>3. Before(table, i, m) \/ Before(table, m, i)
    BY <2>2 DEF Before, IsRuleTable
  <2>4. Rank(table, i) \in Int
    BY <2>1 DEF IsRuleTable
  <2>5. m = i
    BY <2>2, <2>3, <2>4, RankFollowsOrder
  <2> QED
    BY <2>1, <2>5
<1>4. ASSUME NEW k \in places, NEW l \in places, k < l
      PROVE  table[at(k)].priority <= table[at(l)].priority
  <2> HIDE DEF at
  <2>1. /\ at(k) \in places /\ at(l) \in places
        /\ Rank(table, at(k)) = k /\ Rank(table, at(l)) = l
        /\ k \in Int /\ l \in Int
    BY <1>1 DEF IsRuleTable
  <2>2. table[at(k)].priority \in Int /\ table[at(l)].priority \in Int
    BY <2>1 DEF IsRuleTable
  <2>3. ~Before(table, at(l), at(k))
    <3>1. SUFFICES ASSUME Before(table, at(l), at(k)) PROVE FALSE
      OBVIOUS
    <3>2. at(l) # at(k)
      BY <1>4, <2>1
    <3>3. l < k
      BY <2>1, <3>1, <3>2, RankFollowsOrder
    <3> QED
      BY <1>4, <2>1, <3>3
  <2> QED
    BY <2>2, <2>3 DEF Before
<1> HIDE DEF at
<1>5. Range(ByPriority(table)) = Range(table)
  BY <1>1, <1>2, <1>3 DEF Range
<1> QED
  BY <1>2, <1>4, <1>5

LEMMA SortedTable ==
    ASSUME NEW table, IsRuleTable(table)
    PROVE  IsRuleTable(ByPriority(table))
<1> DEFINE sorted == ByPriority(table)
<1>1. DOMAIN sorted = 1 .. Len(table) /\ Len(table) \in Nat
  BY SortedByPriority DEF IsRuleTable
<1>2. sorted \in Seq(Range(table))
  <2>1. \A k \in 1 .. Len(table) : sorted[k] \in Range(sorted)
    BY <1>1 DEF Range
  <2>2. sorted = [k \in 1 .. Len(table) |-> sorted[k]]
    BY <1>1 DEF ByPriority
  <2>3. Range(sorted) = Range(table)
    BY SortedByPriority
  <2> HIDE DEF sorted
  <2> QED
    BY <1>1, <2>1, <2>2, <2>3
<1>3. Len(sorted) = Len(table)
  <2> HIDE DEF sorted
  <2> QED
    BY <1>1, <1>2
<1>4. \A k \in DOMAIN sorted : sorted[k] \in Range(table)
  <2> HIDE DEF sorted
  <2> QED
    BY <1>1, <1>2
<1>5. \A rule \in Range(table) : rule.priority \in Int /\ rule # NoRoute
  BY DEF Range, IsRuleTable
<1> HIDE DEF sorted
<1>6. IsRuleTable(sorted)
  BY <1>1, <1>3, <1>4, <1>5 DEF IsRuleTable
<1> QED
  BY <1>6 DEF sorted

\* The first rule of the sorted table that matches has the smallest
\* priority of all that do.
LEMMA ResolveTakesTheBest ==
    ASSUME NEW table, IsRuleTable(table), NEW payment, NEW minute
    PROVE  LET met == {rule \in Range(ByPriority(table)) : Matches(rule, payment, minute)}
               chosen == Resolve(table, payment, minute)
           IN  IF met = {} THEN chosen = NoRoute
               ELSE chosen \in met /\ \A rule \in met : chosen.priority <= rule.priority
<1> DEFINE sorted == ByPriority(table)
           met == {rule \in Range(sorted) : Matches(rule, payment, minute)}
           chosen == Resolve(table, payment, minute)
           places == Matching(sorted, payment, minute)
           first == Min(places)
<1>1. /\ DOMAIN sorted = DOMAIN table
      /\ \A k, l \in DOMAIN sorted : k < l => sorted[k].priority <= sorted[l].priority
      /\ \A k \in DOMAIN sorted : k \in Nat /\ sorted[k].priority \in Int
  BY SortedByPriority, SortedTable DEF IsRuleTable
<1>2. chosen = IF places = {} THEN NoRoute ELSE sorted[first]
  BY DEF Resolve
<1> HIDE DEF sorted, chosen
<1>3. places = {k \in DOMAIN sorted : Matches(sorted[k], payment, minute)}
  BY DEF Matching
<1>4. met = {sorted[k] : k \in places}
  BY <1>3 DEF Range
<1> DEFINE best == IF met = {} THEN chosen = NoRoute
                   ELSE chosen \in met /\ \A rule \in met : chosen.priority <= rule.priority
<1>5. ASSUME places = {} PROVE best
  <2>1. met = {} /\ chosen = NoRoute
    BY <1>2, <1>4, <1>5
  <2> QED
    BY <2>1
<1>6. ASSUME places # {} PROVE best
  <2>1. places \subseteq Nat
    BY <1>1, <1>3
  <2>2. first \in places /\ \A k \in places : first <= k
    <3> HIDE DEF places
    <3>1. \E k \in places : \A l \in places : k <= l
      BY <1>6, <2>1, LeastNat
    <3> QED
      BY <3>1 DEF Min
  <2>3. \A k \in places : sorted[first].priority <= sorted[k].priority
    <3> SUFFICES ASSUME NEW k \in places PROVE sorted[first].priority <= sorted[k].priority
      OBVIOUS
    <3>1. k = first \/ first < k
      BY <2>1, <2>2
    <3> QED
      BY <1>1, <1>3, <2>2, <3>1
  <2>4. chosen = sorted[first] /\ sorted[first] \in met
    BY <1>2, <1>4, <1>6, <2>2
  <2>5. \A rule \in met : chosen.priority <= rule.priority
    BY <1>4, <2>3, <2>4
  <2> HIDE DEF met
  <2> QED
    BY <2>4, <2>5
<1>7. best
  BY <1>5, <1>6
<1> QED
  BY <1>7 DEF sorted, chosen

\* The minutes of the week, and of the day, wrap around.
LEMMA WrapAround ==
    ASSUME NEW x \in Int
    PROVE  /\ 0 <= x /\ x < 10080 => x % (7 * MinutesOfDay) = x
           /\ -10080 <= x /\ x < 0 => x % (7 * MinutesOfDay) = x + 10080
           /\ 10080 <= x /\ x < 20160 => x % (7 * MinutesOfDay) = x - 10080
           /\ x % MinutesOfDay \in Int /\ x \div MinutesOfDay \in Int
           /\ (x \div MinutesOfDay) * MinutesOfDay + (x % MinutesOfDay) = x
<1>1. MinutesOfDay = 1440 /\ 7 * MinutesOfDay = 10080
  BY DEF MinutesOfDay
<1>2. /\ 0 <= x /\ x < 10080 => x % 10080 = x
      /\ -10080 <= x /\ x < 0 => x % 10080 = x + 10080
      /\ 10080 <= x /\ x < 20160 => x % 10080 = x - 10080
  OBVIOUS
<1>3. x % 1440 \in Int /\ x \div 1440 \in Int /\ (x \div 1440) * 1440 + (x % 1440) = x
  OBVIOUS
<1> QED
  BY <1>1, <1>2, <1>3

LEMMA InOpenMinutes ==
    ASSUME NEW hours, NEW minute,
           \E day \in hours.days, time \in hours.start .. hours.end :
              minute = (day * MinutesOfDay + time - hours.tz) % (7 * MinutesOfDay)
    PROVE  minute \in OpenMinutes(hours)
BY DEF OpenMinutes

\* What the code computes from a minute in UTC is undone by going back.
LEMMA RailClock ==
    ASSUME NEW minute \in 0 .. 7 * 24 * 60 - 1, NEW rail \in DOMAIN OperatingHours,
           IsRailOpen(rail, minute)
    PROVE  minute \in OpenMinutes(OperatingHours[rail])
<1> DEFINE hours == OperatingHours[rail]
           tz == hours.tz
           local == (minute + tz) % (7 * MinutesOfDay)
           day == local \div MinutesOfDay
           time == local % MinutesOfDay
<1>1. tz \in {-180, -360, -300} /\ hours.start \in Int /\ hours.end \in Int
  BY DEF OperatingHours
<1>2. day \in hours.days /\ hours.start <= time /\ time <= hours.end
  BY DEF IsRailOpen
<1>3. minute \in Int /\ 0 <= minute /\ minute < 10080
  OBVIOUS
<1> HIDE DEF tz
<1>4. /\ minute + tz >= 0 => local = minute + tz
      /\ minute + tz < 0 => local = minute + tz + 10080
  BY <1>1, <1>3, WrapAround
<1> HIDE DEF local
<1>5. local \in Int /\ (local - tz = minute \/ local - tz = minute + 10080)
  BY <1>1, <1>3, <1>4
<1>6. (local - tz) % (7 * MinutesOfDay) = minute
  <2>1. CASE local - tz = minute
    BY <1>3, <2>1, WrapAround
  <2>2. CASE local - tz = minute + 10080
    <3>1. (minute + 10080) % (7 * MinutesOfDay) = minute
      BY <1>3, WrapAround
    <3> QED
      BY <2>2, <3>1
  <2> QED
    BY <1>5, <2>1, <2>2
<1>7. time \in Int /\ day \in Int /\ day * MinutesOfDay + time = local
  BY <1>5, WrapAround
<1> HIDE DEF day, time, hours
<1>8. time \in hours.start .. hours.end
  BY <1>1, <1>2, <1>7
<1>9. (day * MinutesOfDay + time - hours.tz) % (7 * MinutesOfDay) = minute
  <2>1. day * MinutesOfDay + time - hours.tz = local - tz
    BY <1>1, <1>5, <1>7 DEF tz, MinutesOfDay
  <2> QED
    BY <1>6, <2>1
<1>10. \E d \in hours.days, t \in hours.start .. hours.end :
          minute = (d * MinutesOfDay + t - hours.tz) % (7 * MinutesOfDay)
  BY <1>2, <1>8, <1>9, Zenon
<1>11. minute \in OpenMinutes(hours)
  BY <1>10, InOpenMinutes
<1> QED
  BY <1>11, Zenon DEF hours

(* The cache holds a table, whatever the sort did to it; what is true of   *)
(* the last routing is made true again by each, from that alone.           *)
RouteInv == IsRuleTable(rules) /\ RoutedByBestRule /\ ClosedRailsAreAvoided

LEMMA RouteInitially == RouteInit => RouteInv
BY RulesAreOrdered DEF RouteInit, RouteInv, RoutedByBestRule, ClosedRailsAreAvoided

LEMMA RoutingPreserves ==
    ASSUME IsRuleTable(rules), RouteOne
    PROVE  RouteInv'
<1>1. PICK payment \in RoutePayments, minute \in Minutes :
         routing' = [payment |-> payment, minute |-> minute,
                     rule |-> Resolve(rules, payment, minute)]
  BY DEF RouteOne
<1>2. rules' = ByPriority(rules)
  BY DEF RouteOne
<1>3. Candidates' = {rule \in Range(ByPriority(rules)) : Matches(rule, payment, minute)}
  BY <1>1, <1>2 DEF Candidates
<1>4. IF Candidates' = {} THEN routing'.rule = NoRoute
      ELSE /\ routing'.rule \in Candidates'
           /\ \A rule \in Candidates' : routing'.rule.priority <= rule.priority
  BY <1>1, <1>3, ResolveTakesTheBest
<1>5. RoutedByBestRule'
  BY <1>4 DEF RoutedByBestRule
<1>6. ClosedRailsAreAvoided'
  <2> SUFFICES ASSUME routing'.rule # NoRoute,
                      routing'.rule.field = "rail.operating_hours",
                      routing'.rule.value \in DOMAIN OperatingHours
               PROVE  routing'.minute \in OpenMinutes(OperatingHours[routing'.rule.value])
    BY DEF ClosedRailsAreAvoided
  <2>1. Matches(routing'.rule, payment, minute)
    BY <1>3, <1>4
  <2>2. IsRailOpen(routing'.rule.value, minute)
    BY <2>1 DEF Matches
  <2>3. minute \in 0 .. 7 * 24 * 60 - 1 /\ routing'.minute = minute
    BY <1>1, MinutesOfTheWeek
  <2> QED
    BY <2>2, <2>3, RailClock
<1>7. IsRuleTable(rules)'
  BY <1>2, SortedTable
<1> QED
  BY <1>5, <1>6, <1>7 DEF RouteInv

LEMMA RoutingInvariance == RouteSpec => []RouteInv
<1>1. ASSUME RouteInv, [RouteOne]_routeVars PROVE RouteInv'
  <2>1. CASE RouteOne
    BY <1>1, <2>1, RoutingPreserves DEF RouteInv
  <2>2. CASE UNCHANGED routeVars
    BY <1>1, <2>2 DEF routeVars, RouteInv, IsRuleTable, RoutedByBestRule, Candidates,
                      ClosedRailsAreAvoided
  <2> QED
    BY <1>1, <2>1, <2>2
<1> QED
  BY <1>1, RouteInitially, PTL DEF RouteSpec

(* Sorting the array of the cache in place loses no rule and adds none,    *)
(* and leaves it in the order of the priorities (route-engine.ts:22-23).   *)
THEOREM RulesAreKept ==
    RouteSpec => [][/\ Range(rules') = Range(rules)
                    /\ \A k, l \in DOMAIN rules' :
                          k < l => rules'[k].priority <= rules'[l].priority]_routeVars
<1>1. ASSUME RouteInv, RouteOne
      PROVE  /\ Range(rules') = Range(rules)
             /\ \A k, l \in DOMAIN rules' :
                   k < l => rules'[k].priority <= rules'[l].priority
  <2>1. rules' = ByPriority(rules) /\ IsRuleTable(rules)
    BY <1>1 DEF RouteOne, RouteInv
  <2> QED
    BY <2>1, SortedByPriority
<1> QED
  BY <1>1, RoutingInvariance, PTL DEF RouteSpec

(* Every payment is routed by the rule of the smallest priority number     *)
(* among those it meets, for every table of rules, in any order, and every *)
(* payment (route-engine.ts:23-44).                                        *)
THEOREM RoutedByBest == RouteSpec => []RoutedByBestRule
<1>1. RouteInv => RoutedByBestRule
  BY DEF RouteInv
<1> QED
  BY <1>1, RoutingInvariance, PTL

(* At every minute of the week, a payment that goes to a rail because it   *)
(* is open goes there within the hours and the days of the rail's own      *)
(* clock (route-engine.ts:104-113).                                        *)
THEOREM ClosedRails == RouteSpec => []ClosedRailsAreAvoided
<1>1. RouteInv => ClosedRailsAreAvoided
  BY DEF RouteInv
<1> QED
  BY <1>1, RoutingInvariance, PTL

(***************************************************************************)
(* Event stream                                                            *)
(***************************************************************************)

\* The array without one of its clients.
LEMMA Removed ==
    ASSUME NEW S, NEW s \in Seq(S), NEW i \in 1 .. Len(s)
    PROVE  /\ RemoveAt(s, i) \in Seq(S)
           /\ Len(RemoveAt(s, i)) = Len(s) - 1
           /\ \A j \in 1 .. Len(s) - 1 :
                 RemoveAt(s, i)[j] = IF j < i THEN s[j] ELSE s[j + 1]
<1> DEFINE front == SubSeq(s, 1, i - 1)
           back == SubSeq(s, i + 1, Len(s))
<1>1. /\ front \in Seq(S) /\ Len(front) = i - 1
      /\ \A j \in 1 .. i - 1 : front[j] = s[j]
  OBVIOUS
<1>2. /\ back \in Seq(S) /\ Len(back) = Len(s) - i
      /\ \A j \in 1 .. Len(s) - i : back[j] = s[j + i]
  OBVIOUS
<1>3. RemoveAt(s, i) = front \o back
  BY DEF RemoveAt
<1> HIDE DEF front, back
<1>4. /\ front \o back \in Seq(S)
      /\ Len(front \o back) = Len(front) + Len(back)
      /\ \A j \in 1 .. Len(front) + Len(back) :
            (front \o back)[j] = IF j <= Len(front) THEN front[j] ELSE back[j - Len(front)]
  BY <1>1, <1>2, ConcatProperties
<1>5. Len(front) + Len(back) = Len(s) - 1
  BY <1>1, <1>2
<1>6. ASSUME NEW j \in 1 .. Len(s) - 1
      PROVE  (front \o back)[j] = IF j < i THEN s[j] ELSE s[j + 1]
  <2>1. (front \o back)[j] = IF j <= i - 1 THEN front[j] ELSE back[j - (i - 1)]
    BY <1>1, <1>4, <1>5
  <2>2. CASE j < i
    <3>1. j \in 1 .. i - 1 /\ j <= i - 1
      BY <2>2
    <3> QED
      BY <1>1, <2>1, <2>2, <3>1
  <2>3. CASE ~(j < i)
    <3> DEFINE k == j - (i - 1)
    <3>1. k \in 1 .. Len(s) - i /\ k + i = j + 1 /\ ~(j <= i - 1)
      BY <2>3
    <3>2. back[k] = s[k + i]
      <4> HIDE DEF k
      <4> QED
        BY <1>2, <3>1
    <3> QED
      BY <2>1, <2>3, <3>1, <3>2
  <2> QED
    BY <2>2, <2>3
<1> QED
  BY <1>3, <1>4, <1>5, <1>6

LEMMA StaysInArray ==
    ASSUME NEW S, NEW s \in Seq(S), NEW i \in 1 .. Len(s), NEW v \in Range(s), v # s[i]
    PROVE  v \in Range(RemoveAt(s, i))
<1>1. PICK j \in 1 .. Len(s) : v = s[j]
  BY DEF Range
<1> DEFINE t == RemoveAt(s, i)
<1>0. t \in Seq(S) /\ DOMAIN t = 1 .. Len(s) - 1
  <2>1. t \in Seq(S) /\ Len(t) = Len(s) - 1
    BY Removed
  <2> HIDE DEF t
  <2> QED
    BY <2>1
<1>2. j # i
  BY <1>1
<1>3. CASE j < i
  <2>1. j \in 1 .. Len(s) - 1
    BY <1>3
  <2>2. t[j] = s[j]
    BY <1>3, <2>1, Removed
  <2> QED
    BY <1>0, <1>1, <2>1, <2>2 DEF Range
<1>4. CASE j > i
  <2>1. j - 1 \in 1 .. Len(s) - 1 /\ ~(j - 1 < i) /\ (j - 1) + 1 = j
    BY <1>4
  <2>2. t[j - 1] = s[j]
    BY <2>1, Removed
  <2> QED
    BY <1>0, <1>1, <2>1, <2>2 DEF Range
<1> QED
  BY <1>2, <1>3, <1>4

\* What the loop of a broadcast has done after k of its turns.
Turned(p, throwing, k, s) ==
    LET n == Len(clients)
    IN  /\ s \in [clients : Seq(Viewers), told : SUBSET Viewers]
        /\ Len(s.clients) >= n - k
        /\ \A j \in 1 .. n - k : s.clients[j] = clients[j]
        /\ \A v \in Range(clients) : v \notin throwing => v \in Range(s.clients)
        /\ \A j \in n - k + 1 .. n :
              (clients[j] \notin throwing /\ Interested(clients[j], p)) => clients[j] \in s.told

LEMMA TurnKeeps ==
    ASSUME clients \in Seq(Viewers), NEW p, NEW throwing,
           NEW k \in 1 .. Len(clients), NEW s, Turned(p, throwing, k - 1, s)
    PROVE  Turned(p, throwing, k, Turn(p, throwing, Len(clients) + 1 - k, s))
<1> DEFINE n == Len(clients)
           i == n + 1 - k
           v == s.clients[i]
           t == Turn(p, throwing, i, s)
<1>1. n \in Nat /\ i \in 1 .. n /\ n - (k - 1) = i /\ n - k = i - 1
  OBVIOUS
<1> HIDE DEF n, i
<1>2. /\ s \in [clients : Seq(Viewers), told : SUBSET Viewers]
      /\ Len(s.clients) >= i /\ i \in 1 .. Len(s.clients)
      /\ \A j \in 1 .. i : s.clients[j] = clients[j]
      /\ \A w \in Range(clients) : w \notin throwing => w \in Range(s.clients)
      /\ \A j \in i + 1 .. n :
            (clients[j] \notin throwing /\ Interested(clients[j], p)) => clients[j] \in s.told
  <2>1. /\ s \in [clients : Seq(Viewers), told : SUBSET Viewers]
        /\ Len(s.clients) >= i
        /\ \A j \in 1 .. i : s.clients[j] = clients[j]
        /\ \A w \in Range(clients) : w \notin throwing => w \in Range(s.clients)
        /\ \A j \in i + 1 .. n :
              (clients[j] \notin throwing /\ Interested(clients[j], p)) => clients[j] \in s.told
    BY <1>1 DEF Turned, n
  <2>2. Len(s.clients) \in Nat
    BY <2>1
  <2> QED
    BY <1>1, <2>1, <2>2
<1>3. v \in Viewers /\ v = clients[i]
  BY <1>1, <1>2
<1> HIDE DEF v, t
<1> DEFINE Goal == /\ t \in [clients : Seq(Viewers), told : SUBSET Viewers]
                   /\ Len(t.clients) >= i - 1
                   /\ \A j \in 1 .. i - 1 : t.clients[j] = clients[j]
                   /\ \A w \in Range(clients) : w \notin throwing => w \in Range(t.clients)
                   /\ \A j \in i .. n :
                         (clients[j] \notin throwing /\ Interested(clients[j], p))
                            => clients[j] \in t.told
<1>4. \A j \in i .. n : j = i \/ j \in i + 1 .. n
  BY <1>1
<1>5. ASSUME ~Interested(v, p) PROVE Goal
  <2>1. t = s
    BY <1>5 DEF Turn, t, v
  <2> QED
    BY <1>1, <1>2, <1>3, <1>4, <1>5, <2>1
<1>6. ASSUME Interested(v, p), v \in throwing PROVE Goal
  <2>1. t = [s EXCEPT !.clients = RemoveAt(s.clients, i)]
    BY <1>6 DEF Turn, t, v
  <2>2. t.told = s.told /\ t.clients = RemoveAt(s.clients, i)
    BY <1>2, <2>1
  <2>3. /\ t.clients \in Seq(Viewers) /\ Len(t.clients) = Len(s.clients) - 1
        /\ \A j \in 1 .. Len(s.clients) - 1 : j < i => t.clients[j] = s.clients[j]
    BY <1>2, <2>2, Removed
  <2>4. t \in [clients : Seq(Viewers), told : SUBSET Viewers]
    BY <1>2, <2>1, <2>3, <2>2
  <2>5. Len(t.clients) >= i - 1 /\ \A j \in 1 .. i - 1 : t.clients[j] = clients[j]
    BY <1>1, <1>2, <2>3
  <2>6. ASSUME NEW w \in Range(clients), w \notin throwing PROVE w \in Range(t.clients)
    <3>1. w \in Range(s.clients) /\ w # v
      BY <1>2, <1>6, <2>6
    <3> QED
      BY <1>2, <2>2, <3>1, StaysInArray DEF v
  <2>7. ASSUME NEW j \in i .. n, clients[j] \notin throwing, Interested(clients[j], p)
        PROVE  clients[j] \in t.told
    BY <1>2, <1>3, <1>4, <1>6, <2>2, <2>7
  <2> QED
    BY <2>4, <2>5, <2>6, <2>7
<1>7. ASSUME Interested(v, p), v \notin throwing PROVE Goal
  <2>1. t = [s EXCEPT !.told = s.told \cup {v}]
    BY <1>7 DEF Turn, t, v
  <2>2. /\ t.told = s.told \cup {v} /\ t.clients = s.clients
        /\ t \in [clients : Seq(Viewers), told : SUBSET Viewers]
    BY <1>2, <1>3, <2>1
  <2> QED
    BY <1>1, <1>2, <1>3, <1>4, <2>2
<1>8. Goal
  BY <1>5, <1>6, <1>7
<1> QED
  BY <1>1, <1>8 DEF Turned, n, i, t

\* One turn after another: the state of the loop after each is defined.
Turns(p, throwing, n, after) ==
    after = [k \in 0 .. n |->
               IF k = 0 THEN [clients |-> clients, told |-> {}]
               ELSE Turn(p, throwing, Len(clients) + 1 - k, after[k - 1])]

LEMMA TurnsExist ==
    ASSUME NEW p, NEW throwing, NEW n \in Nat
    PROVE  \E after : Turns(p, throwing, n, after)
<1> DEFINE T == {m \in Nat : ~ \E after : Turns(p, throwing, m, after)}
<1>1. SUFFICES ASSUME T # {} PROVE FALSE
  OBVIOUS
<1>2. PICK m \in T : \A l \in T : m <= l
  <2>1. T \subseteq Nat
    OBVIOUS
  <2> HIDE DEF T
  <2> QED
    BY <1>1, <2>1, LeastNat
<1>3. CASE m = 0
  <2> DEFINE after == [k \in 0 .. 0 |-> [clients |-> clients, told |-> {}]]
  <2>1. Turns(p, throwing, 0, after)
    BY DEF Turns
  <2> QED
    BY <1>2, <1>3, <2>1
<1>4. CASE m # 0
  <2>1. m - 1 \in Nat /\ m - 1 \notin T
    BY <1>2, <1>4
  <2>2. PICK before : Turns(p, throwing, m - 1, before)
    BY <2>1
  <2> DEFINE after == [k \in 0 .. m |-> IF k < m THEN before[k]
                         ELSE Turn(p, throwing, Len(clients) + 1 - m, before[m - 1])]
  <2>3. \A k \in 1 .. m : after[k - 1] = before[k - 1]
    BY <1>2
  <2>4. \A k \in 0 .. m - 1 :
           before[k] = IF k = 0 THEN [clients |-> clients, told |-> {}]
                       ELSE Turn(p, throwing, Len(clients) + 1 - k, before[k - 1])
    BY <2>2 DEF Turns
  <2>5. ASSUME NEW k \in 0 .. m
        PROVE  after[k] = IF k = 0 THEN [clients |-> clients, told |-> {}]
                          ELSE Turn(p, throwing, Len(clients) + 1 - k, after[k - 1])
    <3>1. CASE k = m
      BY <1>2, <1>4, <2>3, <3>1
    <3>2. CASE k # m
      <4>1. k \in 0 .. m - 1 /\ k < m
        BY <1>2, <3>2
      <4>2. after[k] = before[k]
        BY <4>1
      <4>3. k # 0 => k \in 1 .. m
        OBVIOUS
      <4> HIDE DEF after
      <4> QED
        BY <2>3, <2>4, <4>1, <4>2, <4>3
    <3> QED
      BY <3>1, <3>2
  <2>6. after = [k \in 0 .. m |-> after[k]]
    OBVIOUS
  <2> HIDE DEF after
  <2>7. Turns(p, throwing, m, after)
    BY <2>5, <2>6 DEF Turns
  <2> QED
    BY <1>2, <2>7
<1> QED
  BY <1>3, <1>4

LEMMA LoopTells ==
    ASSUME clients \in Seq(Viewers), NEW p, NEW throwing
    PROVE  Turned(p, throwing, Len(clients), Loop(p, throwing))
<1> DEFINE n == Len(clients)
           after == CHOOSE after : Turns(p, throwing, n, after)
<1>1. n \in Nat
  OBVIOUS
<1>2. Turns(p, throwing, n, after)
  BY <1>1, TurnsExist
<1>3. Loop(p, throwing) = after[n]
  BY DEF Loop, Turns
<1> HIDE DEF after
<1>4. after[0] = [clients |-> clients, told |-> {}]
  BY <1>1, <1>2 DEF Turns
<1>5. ASSUME NEW k \in 1 .. n PROVE after[k] = Turn(p, throwing, n + 1 - k, after[k - 1])
  <2>1. k \in 0 .. n /\ k # 0
    BY <1>1
  <2> HIDE DEF n
  <2>2. \A j \in 0 .. n : after[j] = IF j = 0 THEN [clients |-> clients, told |-> {}]
                       ELSE Turn(p, throwing, Len(clients) + 1 - j, after[j - 1])
    BY <1>2 DEF Turns
  <2> QED
    BY <2>1, <2>2 DEF n
<1>6. Turned(p, throwing, 0, after[0])
  BY <1>1, <1>4 DEF Turned
<1> DEFINE T == {k \in Nat : k <= n /\ ~Turned(p, throwing, k, after[k])}
<1>7. T = {}
  <2>1. SUFFICES ASSUME T # {} PROVE FALSE
    OBVIOUS
  <2>2. PICK m \in T : \A l \in T : m <= l
    <3>1. T \subseteq Nat
      OBVIOUS
    <3> HIDE DEF T
    <3> QED
      BY <2>1, <3>1, LeastNat
  <2>3. m \in 1 .. n
    BY <1>6, <2>2
  <2>4. m - 1 \in Nat /\ m - 1 <= n /\ m - 1 \notin T
    BY <2>2, <2>3
  <2>5. Turned(p, throwing, m - 1, after[m - 1])
    BY <2>4
  <2>6. Turned(p, throwing, m, Turn(p, throwing, n + 1 - m, after[m - 1]))
    BY <2>3, <2>5, TurnKeeps
  <2> QED
    BY <1>5, <2>2, <2>3, <2>6
<1> QED
  BY <1>1, <1>3, <1>7

(* A broadcast removes none but clients that threw, which are torn, and a  *)
(* close event none but its own: an open stream stays in the array. So the *)
(* next broadcast reaches it.                                              *)
StreamInv ==
    /\ clients \in Seq(Viewers)
    /\ stream \in [Viewers -> {"new", "open", "torn", "closed"}]
    /\ updates \in Seq(Updated)
    /\ since \in [Viewers -> Nat]
    /\ heard \in [Viewers -> SUBSET Nat]
    /\ \A v \in Viewers : stream[v] = "open" => v \in Range(clients)
    /\ EveryoneIsTold

LEMMA StreamInitially == StreamInit => StreamInv
BY DEF StreamInit, StreamInv, EveryoneIsTold

LEMMA ConnectKeeps == ASSUME StreamInv, NEW v \in Viewers, Connect(v) PROVE StreamInv'
<1> USE DEF StreamInv
<1>1. /\ stream' = [stream EXCEPT ![v] = "open"] /\ clients' = Append(clients, v)
      /\ since' = [since EXCEPT ![v] = Len(updates)]
      /\ updates' = updates /\ heard' = heard
  BY DEF Connect
<1>2. /\ clients' \in Seq(Viewers) /\ Len(clients') = Len(clients) + 1
      /\ \A j \in 1 .. Len(clients) : clients'[j] = clients[j]
      /\ clients'[Len(clients) + 1] = v
  BY <1>1
<1>3. ASSUME NEW w \in Viewers, stream'[w] = "open" PROVE w \in Range(clients')
  <2>1. CASE w = v
    <3>1. Len(clients) + 1 \in DOMAIN clients'
      BY <1>2
    <3> QED
      BY <1>2, <2>1, <3>1 DEF Range
  <2>2. CASE w # v
    <3>1. stream[w] = "open"
      BY <1>1, <1>3, <2>2
    <3>2. w \in Range(clients) /\ DOMAIN clients = 1 .. Len(clients)
      BY <3>1
    <3>3. PICK j \in 1 .. Len(clients) : clients[j] = w
      BY <3>2 DEF Range
    <3>4. j \in DOMAIN clients' /\ clients'[j] = w
      BY <1>2, <3>3
    <3> QED
      BY <3>4 DEF Range
  <2> QED
    BY <2>1, <2>2
<1>4. EveryoneIsTold'
  <2> SUFFICES ASSUME NEW w \in Viewers, stream'[w] = "open",
                      NEW n \in DOMAIN updates, n > since'[w], Interested(w, updates[n])
               PROVE  n \in heard[w]
    BY <1>1 DEF EveryoneIsTold, Interested
  <2>1. w # v
    BY <1>1
  <2> QED
    BY <1>1, <2>1 DEF EveryoneIsTold
<1>5. since' \in [Viewers -> Nat]
  BY <1>1
<1> QED
  BY <1>1, <1>2, <1>3, <1>4, <1>5

LEMMA TearKeeps == ASSUME StreamInv, NEW v \in Viewers, Tear(v) PROVE StreamInv'
BY DEF StreamInv, Tear, EveryoneIsTold, Interested

LEMMA CloseKeeps == ASSUME StreamInv, NEW v \in Viewers, Close(v) PROVE StreamInv'
<1> USE DEF StreamInv
<1>1. /\ stream' = [stream EXCEPT ![v] = "closed"]
      /\ clients' = IF Place(v) > 0 THEN RemoveAt(clients, Place(v)) ELSE clients
      /\ since' = since /\ updates' = updates /\ heard' = heard
  BY DEF Close
<1>2. CASE v \in ToSet(clients)
  <2>1. PICK i \in DOMAIN clients : Place(v) = i /\ clients[i] = v
    BY <1>2 DEF Place, ToSet
  <2>2. i \in 1 .. Len(clients) /\ clients' = RemoveAt(clients, i)
    BY <1>1, <2>1
  <2>3. clients' \in Seq(Viewers)
    BY <2>2, Removed
  <2>4. ASSUME NEW w \in Viewers, stream'[w] = "open" PROVE w \in Range(clients')
    <3>1. w # v /\ w \in Range(clients)
      BY <1>1, <2>4
    <3> QED
      BY <2>1, <2>2, <3>1, StaysInArray
  <2> QED
    BY <1>1, <2>3, <2>4 DEF EveryoneIsTold, Interested
<1>3. CASE v \notin ToSet(clients)
  <2>1. clients' = clients
    BY <1>1, <1>3 DEF Place
  <2> QED
    BY <1>1, <2>1 DEF EveryoneIsTold, Interested
<1> QED
  BY <1>2, <1>3

LEMMA BroadcastKeeps == ASSUME StreamInv, NEW p \in Updated, Broadcast(p) PROVE StreamInv'
<1> USE DEF StreamInv
<1>1. PICK throwing \in SUBSET {v \in Viewers : stream[v] = "torn"} :
         LET done == Loop(p, throwing)
         IN  /\ clients' = done.clients
             /\ heard' = [v \in Viewers |->
                   IF v \in done.told THEN heard[v] \cup {Len(updates) + 1} ELSE heard[v]]
  BY DEF Broadcast
<1> DEFINE done == Loop(p, throwing)
           n == Len(updates) + 1
<1>2. /\ updates' = Append(updates, p) /\ stream' = stream /\ since' = since
      /\ clients' = done.clients
      /\ heard' = [v \in Viewers |-> IF v \in done.told THEN heard[v] \cup {n} ELSE heard[v]]
  BY <1>1 DEF Broadcast
<1>3. Turned(p, throwing, Len(clients), done)
  BY LoopTells
<1> HIDE DEF done
<1>4. done \in [clients : Seq(Viewers), told : SUBSET Viewers]
  BY <1>3 DEF Turned
<1>5. ASSUME NEW v \in Viewers, stream[v] = "open"
      PROVE  v \in Range(clients') /\ (Interested(v, p) => v \in done.told)
  <2>1. v \notin throwing /\ v \in Range(clients)
    BY <1>5
  <2>2. PICK j \in 1 .. Len(clients) : clients[j] = v
    <3>1. DOMAIN clients = 1 .. Len(clients)
      OBVIOUS
    <3> HIDE DEF StreamInv
    <3> QED
      BY <2>1, <3>1 DEF Range
  <2>3. Len(clients) - Len(clients) + 1 = 1
    OBVIOUS
  <2> QED
    BY <1>2, <1>3, <2>1, <2>2, <2>3 DEF Turned
<1>6. /\ n \in Nat /\ updates' \in Seq(Updated) /\ DOMAIN updates' = DOMAIN updates \cup {n}
      /\ updates'[n] = p /\ \A m \in DOMAIN updates : updates'[m] = updates[m]
  BY <1>2
<1>7. heard' \in [Viewers -> SUBSET Nat]
  BY <1>2, <1>6
<1>8. EveryoneIsTold'
  <2> SUFFICES ASSUME NEW v \in Viewers, stream[v] = "open",
                      NEW m \in DOMAIN updates', m > since[v], Interested(v, updates'[m])
               PROVE  m \in heard'[v]
    BY <1>2 DEF EveryoneIsTold, Interested
  <2>1. CASE m = n
    BY <1>2, <1>5, <1>6, <2>1
  <2>2. CASE m \in DOMAIN updates
    <3>1. m \in heard[v]
      BY <1>6, <2>2 DEF EveryoneIsTold
    <3> QED
      BY <1>2, <3>1
  <2> QED
    BY <1>6, <2>1, <2>2
<1> QED
  BY <1>2, <1>4, <1>5, <1>6, <1>7, <1>8

(* Whoever comes, breaks and goes, and wherever in the array a broadcast   *)
(* removes clients while it goes through it, every open stream is sent     *)
(* every update it watches (sse.ts:46-60).                                 *)
THEOREM EveryoneTold == StreamSpec => []EveryoneIsTold
<1>1. ASSUME StreamInv, [StreamNext]_streamVars PROVE StreamInv'
  <2>1. ASSUME NEW v \in Viewers, Connect(v) \/ Tear(v) \/ Close(v) PROVE StreamInv'
    BY <1>1, <2>1, ConnectKeeps, TearKeeps, CloseKeeps
  <2>2. ASSUME NEW p \in Updated, Broadcast(p) PROVE StreamInv'
    BY <1>1, <2>2, BroadcastKeeps
  <2>3. CASE UNCHANGED streamVars
    BY <1>1, <2>3 DEF streamVars, StreamInv, EveryoneIsTold, Interested
  <2> QED
    BY <1>1, <2>1, <2>2, <2>3 DEF StreamNext
<1>2. StreamInv => EveryoneIsTold
  BY DEF StreamInv
<1> QED
  BY <1>1, <1>2, StreamInitially, PTL DEF StreamSpec

(***************************************************************************)
(* Rate limiters: how much they let through, for any number of clients,    *)
(* any limits, windows and rates, and a clock set back by any amount       *)
(***************************************************************************)

LEMMA MinOfTwo ==
  ASSUME NEW a \in Int, NEW b \in Int
  PROVE  Min({a, b}) = IF a <= b THEN a ELSE b
<1>1. PICK m \in {a, b} : m <= a /\ m <= b
  OBVIOUS
<1>2. Min({a, b}) \in {a, b} /\ \A y \in {a, b} : Min({a, b}) <= y
  BY <1>1 DEF Min
<1> QED
  BY <1>2
-----------------------------------------------------------------------------
(* The limiter of HTTP requests.                                           *)

HttpTypeOK ==
    /\ windows \in [Clients -> [count : Nat, left : -1 .. Window]]
    /\ admitted \in [Clients -> [0 .. Window -> Nat]]

(* Requests the current window of a client has let through.                *)
Used(c) == IF windows[c].count <= MaxRequests THEN windows[c].count ELSE MaxRequests

(* Since its window began, Window - left ticks ago, a client has had what  *)
(* the window counts; before that, within reach, it had one limit at most: *)
(* the windows before the last ended too long ago. A window that is over   *)
(* is one that began more than Window ticks ago.                           *)
WindowInv(c) ==
    IF Over(windows[c])
    THEN admitted[c][0] = 0 /\ \A t \in 0 .. Window : admitted[c][t] <= MaxRequests
    ELSE \A t \in 0 .. Window :
            /\ admitted[c][t] <= MaxRequests + Used(c)
            /\ t <= Window - windows[c].left => admitted[c][t] <= Used(c)

HttpInv == HttpTypeOK /\ \A c \in Clients : WindowInv(c)

LEMMA HttpInitially == HttpInit => HttpInv
BY HttpLimits DEF HttpInit, HttpInv, HttpTypeOK, WindowInv, Over, NoWindow

LEMMA HttpTypes ==
  ASSUME HttpTypeOK, NEW c \in Clients
  PROVE  /\ windows[c].count \in Nat /\ windows[c].left \in -1 .. Window
         /\ \A t \in 0 .. Window : admitted[c][t] \in Nat
         /\ Used(c) \in 0 .. MaxRequests
BY HttpLimits DEF HttpTypeOK, Used

(* A request that starts a window, one that is refused, and one counted.   *)
LEMMA WindowStarts ==
  ASSUME HttpTypeOK, NEW c \in Clients, WindowInv(c), Over(windows[c]),
         windows'[c] = [count |-> 1, left |-> Window],
         \A t \in 0 .. Window : admitted'[c][t] = admitted[c][t] + 1
  PROVE  WindowInv(c)'
<1>1. Used(c)' = 1 /\ ~Over(windows'[c]) /\ windows'[c].left = Window
  BY HttpLimits DEF Used, Over
<1>2. admitted[c][0] = 0 /\ \A t \in 0 .. Window : admitted[c][t] <= MaxRequests
  BY DEF WindowInv
<1>3. ASSUME NEW t \in 0 .. Window
      PROVE  admitted'[c][t] <= MaxRequests + 1 /\ (t <= 0 => admitted'[c][t] <= 1)
  <2>1. admitted[c][t] \in Nat /\ admitted[c][t] <= MaxRequests /\ (t <= 0 => admitted[c][t] = 0)
    BY <1>2, HttpTypes
  <2>2. admitted'[c][t] = admitted[c][t] + 1
    OBVIOUS
  <2> QED
    BY <2>1, <2>2, HttpLimits
<1>4. Window - Window = 0
  BY HttpLimits
<1> QED
  BY <1>1, <1>3, <1>4 DEF WindowInv

LEMMA WindowGoesOn ==
  ASSUME HttpTypeOK, NEW c \in Clients, WindowInv(c), ~Over(windows[c]),
         windows[c].count <= MaxRequests,
         windows'[c] = [count |-> windows[c].count + 1, left |-> windows[c].left],
         \A t \in 0 .. Window : admitted'[c][t] =
            IF windows[c].count + 1 > MaxRequests THEN admitted[c][t] ELSE admitted[c][t] + 1
  PROVE  WindowInv(c)'
<1>1. /\ ~Over(windows'[c]) /\ windows'[c].left = windows[c].left
      /\ Used(c)' = IF Used(c) < MaxRequests THEN Used(c) + 1 ELSE Used(c)
  BY HttpLimits, HttpTypes DEF Used, Over
<1>2. ASSUME NEW t \in 0 .. Window
      PROVE  /\ admitted'[c][t] <= MaxRequests + Used(c)'
             /\ t <= Window - windows'[c].left => admitted'[c][t] <= Used(c)'
  <2>1. /\ admitted[c][t] \in Nat /\ admitted[c][t] <= MaxRequests + Used(c)
        /\ t <= Window - windows[c].left => admitted[c][t] <= Used(c)
    BY HttpTypes DEF WindowInv
  <2>2. admitted'[c][t] = IF Used(c) < MaxRequests THEN admitted[c][t] + 1 ELSE admitted[c][t]
    BY HttpLimits, HttpTypes DEF Used
  <2>3. Used(c) \in 0 .. MaxRequests
    BY HttpTypes
  <2> QED
    BY <1>1, <2>1, <2>2, <2>3, HttpLimits
<1> QED
  BY <1>1, <1>2 DEF WindowInv

LEMMA RequestPreserves == ASSUME HttpInv, NEW c \in Clients, Request(c) PROVE HttpInv'
<1>1. CountedEntry(c) \in [count : Nat, left : -1 .. Window]
  BY HttpLimits DEF CountedEntry, HttpInv, HttpTypeOK
<1>2. HttpTypeOK'
  <2>1. windows' \in [Clients -> [count : Nat, left : -1 .. Window]]
    BY <1>1 DEF Request, HttpInv, HttpTypeOK
  <2>2. [t \in 0 .. Window |-> admitted[c][t] + 1] \in [0 .. Window -> Nat]
    BY HttpTypes DEF HttpInv
  <2>3. admitted' \in [Clients -> [0 .. Window -> Nat]]
    BY <2>2 DEF Request, HttpInv, HttpTypeOK
  <2> QED
    BY <2>1, <2>3 DEF HttpTypeOK
<1>3. WindowInv(c)'
  <2>1. windows'[c] = CountedEntry(c)
    BY DEF Request, HttpInv, HttpTypeOK
  <2>2. \A t \in 0 .. Window : admitted'[c][t] =
          IF CountedEntry(c).count > MaxRequests THEN admitted[c][t] ELSE admitted[c][t] + 1
    BY DEF Request, HttpInv, HttpTypeOK
  <2>3. CASE Over(windows[c])
    <3>1. windows'[c] = [count |-> 1, left |-> Window]
      BY <2>1, <2>3 DEF CountedEntry
    <3>2. \A t \in 0 .. Window : admitted'[c][t] = admitted[c][t] + 1
      BY <2>1, <2>2, <3>1, HttpLimits
    <3> QED
      BY <2>3, <3>1, <3>2, WindowStarts DEF HttpInv
  <2>4. CASE ~Over(windows[c]) /\ windows[c].count > MaxRequests
    <3>1. windows'[c] = windows[c] /\ \A t \in 0 .. Window : admitted'[c][t] = admitted[c][t]
      BY <2>1, <2>2, <2>4 DEF CountedEntry
    <3> QED
      BY <2>4, <3>1, HttpLimits DEF HttpInv, WindowInv, Used
  <2>5. CASE ~Over(windows[c]) /\ windows[c].count <= MaxRequests
    <3>1. windows'[c] = [count |-> windows[c].count + 1, left |-> windows[c].left]
      BY <2>1, <2>5, HttpTypes, HttpLimits DEF CountedEntry, HttpInv
    <3>2. \A t \in 0 .. Window : admitted'[c][t] =
            IF windows[c].count + 1 > MaxRequests THEN admitted[c][t] ELSE admitted[c][t] + 1
      BY <2>1, <2>2, <3>1
    <3> QED
      BY <2>5, <3>1, <3>2, WindowGoesOn DEF HttpInv
  <2> QED
    BY <2>3, <2>4, <2>5, HttpTypes, HttpLimits DEF HttpInv
<1>4. ASSUME NEW d \in Clients, d # c PROVE WindowInv(d)'
  <2>1. windows'[d] = windows[d] /\ admitted'[d] = admitted[d]
    BY <1>4 DEF Request, HttpInv, HttpTypeOK
  <2> QED
    BY <2>1 DEF HttpInv, WindowInv, Over, Used
<1> QED
  BY <1>2, <1>3, <1>4 DEF HttpInv

LEMMA CleanUpPreserves == ASSUME HttpInv, CleanUp PROVE HttpInv'
<1>1. HttpTypeOK'
  BY HttpLimits DEF CleanUp, NoWindow, HttpInv, HttpTypeOK
<1>2. ASSUME NEW c \in Clients PROVE WindowInv(c)'
  <2>1. admitted'[c] = admitted[c] /\ (Over(windows'[c]) <=> Over(windows[c]))
        /\ (~Over(windows[c]) => windows'[c] = windows[c])
    BY DEF CleanUp, NoWindow, Over
  <2> QED
    BY <2>1 DEF HttpInv, WindowInv, Used
<1> QED
  BY <1>1, <1>2 DEF HttpInv

LEMMA HttpTickPreserves == ASSUME HttpInv, HttpTick PROVE HttpInv'
<1>1. HttpTypeOK'
  BY HttpLimits DEF HttpTick, HttpInv, HttpTypeOK, Over
<1>2. ASSUME NEW c \in Clients PROVE WindowInv(c)'
  <2>1. /\ windows'[c].count = windows[c].count
        /\ windows'[c].left = IF Over(windows[c]) THEN windows[c].left ELSE windows[c].left - 1
    BY DEF HttpTick
  <2>2. admitted'[c][0] = 0
        /\ \A t \in 1 .. Window : admitted'[c][t] = admitted[c][t - 1]
    BY HttpLimits DEF HttpTick
  <2>3. Used(c)' = Used(c) /\ Used(c) \in 0 .. MaxRequests /\ windows[c].left \in -1 .. Window
    BY <2>1, HttpTypes DEF Used, HttpInv
  <2>4. CASE Over(windows[c])
    <3>1. ASSUME NEW t \in 0 .. Window PROVE admitted'[c][t] <= MaxRequests
      <4>1. CASE t = 0
        BY <2>2, <4>1, HttpLimits
      <4>2. CASE t # 0
        <5>1. t - 1 \in 0 .. Window /\ t \in 1 .. Window
          BY <4>2, HttpLimits
        <5>2. admitted[c][t - 1] <= MaxRequests
          BY <2>4, <5>1 DEF HttpInv, WindowInv
        <5> QED
          BY <2>2, <5>1, <5>2
      <4> QED
        BY <4>1, <4>2
    <3>2. Over(windows'[c])
      BY <2>1, <2>4 DEF Over
    <3> QED
      BY <2>2, <3>1, <3>2 DEF WindowInv
  <2>5. CASE ~Over(windows[c])
    <3>1. ASSUME NEW t \in 0 .. Window
          PROVE  /\ admitted'[c][t] <= MaxRequests + Used(c)
                 /\ t <= Window - windows'[c].left => admitted'[c][t] <= Used(c)
      <4>1. CASE t = 0
        BY <2>2, <2>3, <4>1, HttpLimits
      <4>2. CASE t # 0
        <5>1. t - 1 \in 0 .. Window /\ t \in 1 .. Window
          BY <4>2, HttpLimits
        <5>2. /\ admitted[c][t - 1] <= MaxRequests + Used(c)
              /\ t - 1 <= Window - windows[c].left => admitted[c][t - 1] <= Used(c)
          BY <2>5, <5>1 DEF HttpInv, WindowInv
        <5>3. t <= Window - windows'[c].left => t - 1 <= Window - windows[c].left
          BY <2>1, <2>3, <2>5, HttpLimits
        <5>4. admitted'[c][t] = admitted[c][t - 1]
          BY <2>2, <5>1
        <5> QED
          BY <5>2, <5>3, <5>4
      <4> QED
        BY <4>1, <4>2
    <3>2. CASE Over(windows'[c])
      <4>1. windows'[c].left = -1
        BY <2>1, <2>3, <2>5, <3>2 DEF Over
      <4>2. ASSUME NEW t \in 0 .. Window PROVE admitted'[c][t] <= MaxRequests
        <5>1. t <= Window - windows'[c].left
          BY <4>1, HttpLimits
        <5>2. admitted'[c][t] <= Used(c)
          BY <3>1, <5>1
        <5>3. admitted'[c][t] \in Nat
          BY <1>1 DEF HttpTypeOK
        <5> QED
          BY <2>3, <5>2, <5>3, HttpLimits
      <4> QED
        BY <2>2, <3>2, <4>2 DEF WindowInv
    <3>3. CASE ~Over(windows'[c])
      BY <2>3, <3>1, <3>3 DEF WindowInv
    <3> QED
      BY <3>2, <3>3
  <2> QED
    BY <2>4, <2>5
<1> QED
  BY <1>1, <1>2 DEF HttpInv

(***************************************************************************)
(* No client gets more than twice its limit through in any stretch as long *)
(* as a window, whatever the clean-up timer does in between                *)
(* (rate-limit.ts, lines 35-40 and 59-62).                                 *)
(***************************************************************************)
THEOREM TwoWindowsAtMost == HttpSpec => []AtMostTwoWindows
<1>1. HttpInv /\ [HttpNext]_httpVars => HttpInv'
  <2> SUFFICES ASSUME HttpInv, [HttpNext]_httpVars PROVE HttpInv'
    OBVIOUS
  <2>1. CASE HttpNext
    BY <2>1, RequestPreserves, CleanUpPreserves, HttpTickPreserves DEF HttpNext
  <2>2. CASE UNCHANGED httpVars
    BY <2>2 DEF httpVars, HttpInv, HttpTypeOK, WindowInv, Over, Used
  <2> QED
    BY <2>1, <2>2
<1>2. HttpInv => AtMostTwoWindows
  <2> SUFFICES ASSUME HttpInv, NEW c \in Clients PROVE admitted[c][Window] <= 2 * MaxRequests
    BY DEF AtMostTwoWindows
  <2>1. Used(c) \in 0 .. MaxRequests /\ Window \in 0 .. Window /\ admitted[c][Window] \in Nat
    BY HttpLimits, HttpTypes DEF HttpInv
  <2>2. admitted[c][Window] <= MaxRequests \/ admitted[c][Window] <= MaxRequests + Used(c)
    BY <2>1 DEF HttpInv, WindowInv
  <2> QED
    BY <2>1, <2>2, HttpLimits
<1> QED
  BY <1>1, <1>2, HttpInitially, PTL DEF HttpSpec
-----------------------------------------------------------------------------
(* The token bucket of a rail.                                             *)

BucketTypeOK ==
    /\ tokens \in 0 .. Capacity
    /\ elapsed \in -MaxSetBack .. PartsPerToken
    /\ taken \in [0 .. PartsPerToken -> Nat]
    /\ waiting \in Int

(* What has been taken in the last t ticks and what could be taken now     *)
(* have come out of one full bucket and t ticks of refill.                 *)
Balance ==
    \A t \in 0 .. PartsPerToken :
        PartsPerToken * taken[t] + Refilled <= Capacity + t * MaxTokens

(* Whoever was told to wait finds a token then.                            *)
Promise == waiting >= 0 => elapsed >= 0 /\ Refilled + waiting * MaxTokens >= PartsPerToken

BucketInv == BucketTypeOK /\ Balance /\ Promise

LEMMA Products ==
  /\ Capacity \in Nat /\ Capacity = PartsPerToken * MaxTokens /\ PartsPerToken <= Capacity
  /\ \A n \in Int : n * MaxTokens \in Int /\ (n + 1) * MaxTokens = n * MaxTokens + MaxTokens
  /\ \A n \in Int : (n - 1) * MaxTokens = n * MaxTokens - MaxTokens
  /\ \A n \in Nat : n * MaxTokens \in Nat /\ PartsPerToken * n \in Nat
  /\ \A n \in Nat : PartsPerToken * (n + 1) = PartsPerToken * n + PartsPerToken
<1>1. Capacity \in Nat /\ Capacity = PartsPerToken * MaxTokens /\ PartsPerToken <= Capacity
  BY BucketSizes DEF Capacity
<1>2. ASSUME NEW n \in Int
      PROVE  /\ n * MaxTokens \in Int /\ (n + 1) * MaxTokens = n * MaxTokens + MaxTokens
             /\ (n - 1) * MaxTokens = n * MaxTokens - MaxTokens
  BY BucketSizes
<1>3. ASSUME NEW n \in Nat
      PROVE  /\ n * MaxTokens \in Nat /\ PartsPerToken * n \in Nat
             /\ PartsPerToken * (n + 1) = PartsPerToken * n + PartsPerToken
  BY BucketSizes
<1> QED
  BY <1>1, <1>2, <1>3

LEMMA ProductsAreMonotonic ==
  ASSUME NEW a \in Int, NEW b \in Int, a <= b
  PROVE  a * MaxTokens <= b * MaxTokens
<1>1. b - a \in Nat /\ MaxTokens \in Nat
  BY BucketSizes
<1>2. (b - a) * MaxTokens \in Nat
  BY <1>1, Products
<1>3. (b - a) * MaxTokens = b * MaxTokens - a * MaxTokens
  BY <1>1
<1> QED
  BY <1>1, <1>2, <1>3, Products

LEMMA Filling ==
  ASSUME NEW held \in 0 .. Capacity, NEW ticks \in Int
  PROVE  LET filled == IF ticks > 0 THEN Min({Capacity, held + ticks * MaxTokens}) ELSE held
         IN  /\ filled \in 0 .. Capacity
             /\ ticks <= 0 => filled = held
             /\ ticks > 0 => filled = IF Capacity <= held + ticks * MaxTokens THEN Capacity
                                      ELSE held + ticks * MaxTokens
<1> HIDE DEF Capacity
<1>1. Capacity \in Nat /\ held \in Nat
  BY Products
<1>2. CASE ticks > 0
  <2>1. ticks * MaxTokens \in Nat
    BY <1>2, Products
  <2>2. Min({Capacity, held + ticks * MaxTokens}) =
          IF Capacity <= held + ticks * MaxTokens THEN Capacity ELSE held + ticks * MaxTokens
    BY <1>1, <2>1, MinOfTwo
  <2> QED
    BY <1>1, <1>2, <2>1, <2>2
<1>3. CASE ~(ticks > 0)
  BY <1>3
<1> QED
  BY <1>2, <1>3

LEMMA RefilledIs ==
  ASSUME BucketTypeOK
  PROVE  /\ Refilled \in 0 .. Capacity
         /\ elapsed <= 0 => Refilled = tokens
         /\ elapsed > 0 => Refilled = IF Capacity <= tokens + elapsed * MaxTokens THEN Capacity
                                      ELSE tokens + elapsed * MaxTokens
<1>1. tokens \in 0 .. Capacity /\ elapsed \in Int
  BY BucketSizes DEF BucketTypeOK
<1> QED
  BY <1>1, Filling DEF Refilled

LEMMA RefilledWillBe ==
  ASSUME BucketTypeOK'
  PROVE  /\ Refilled' \in 0 .. Capacity
         /\ elapsed' <= 0 => Refilled' = tokens'
         /\ elapsed' > 0 => Refilled' = IF Capacity <= tokens' + elapsed' * MaxTokens THEN Capacity
                                        ELSE tokens' + elapsed' * MaxTokens
<1>1. tokens' \in 0 .. Capacity /\ elapsed' \in Int
  BY BucketSizes DEF BucketTypeOK
<1> QED
  BY <1>1, Filling DEF Refilled

LEMMA BucketInitially == BucketInit => BucketInv
<1> SUFFICES ASSUME BucketInit PROVE BucketInv
  OBVIOUS
<1>1. BucketTypeOK
  BY BucketSizes, Products DEF BucketInit, BucketTypeOK, NotWaiting
<1>2. Refilled = Capacity
  BY <1>1, RefilledIs DEF BucketInit
<1>3. Balance
  BY <1>2, Products, BucketSizes DEF BucketInit, Balance
<1> QED
  BY <1>1, <1>3 DEF BucketInit, BucketInv, Promise, NotWaiting

(* Refilling shows in what the bucket holds only by what is used.          *)
LEMMA RefillKeeps ==
  ASSUME BucketTypeOK, NEW used \in Nat, used <= Refilled, Refill(used)
  PROVE  /\ tokens' \in 0 .. Capacity /\ elapsed' \in -MaxSetBack .. PartsPerToken
         /\ Refilled' = Refilled - used
         /\ elapsed >= 0 => elapsed' = 0
<1>1. tokens' = Refilled - used /\ Refilled \in 0 .. Capacity
  BY RefilledIs DEF Refill
<1>2. elapsed' <= 0 /\ elapsed' \in -MaxSetBack .. PartsPerToken /\ (elapsed >= 0 => elapsed' = 0)
  BY BucketSizes DEF Refill, BucketTypeOK
<1>3. Refilled' = tokens'
  BY <1>2, BucketSizes DEF Refilled
<1> QED
  BY <1>1, <1>2, <1>3, Products

LEMMA LookPreserves == ASSUME BucketInv, Look PROVE BucketInv'
<1>1. Refilled' = Refilled /\ BucketTypeOK' /\ (elapsed >= 0 => elapsed' = 0)
  BY RefillKeeps, RefilledIs DEF BucketInv, Look, BucketTypeOK
<1>2. Balance'
  BY <1>1 DEF Look, BucketInv, Balance
<1>3. Promise'
  BY <1>1 DEF Look, BucketInv, Promise
<1> QED
  BY <1>1, <1>2, <1>3 DEF BucketInv

LEMMA AcquirePreserves == ASSUME BucketInv, Acquire PROVE BucketInv'
<1>1. Refilled \in 0 .. Capacity /\ PartsPerToken \in Nat /\ PartsPerToken <= Refilled
  BY RefilledIs, BucketSizes, Products DEF BucketInv, Acquire
<1>2. /\ tokens' \in 0 .. Capacity /\ elapsed' \in -MaxSetBack .. PartsPerToken
      /\ Refilled' = Refilled - PartsPerToken
  BY <1>1, RefillKeeps DEF BucketInv, Acquire
<1>3. taken' \in [0 .. PartsPerToken -> Nat] /\ waiting' = -1
  BY DEF Acquire, NotWaiting, BucketInv, BucketTypeOK
<1>4. ASSUME NEW t \in 0 .. PartsPerToken
      PROVE  PartsPerToken * taken'[t] + Refilled' <= Capacity + t * MaxTokens
  <2>1. taken'[t] = taken[t] + 1 /\ taken[t] \in Nat
    BY DEF Acquire, BucketInv, BucketTypeOK
  <2>2. PartsPerToken * taken'[t] = PartsPerToken * taken[t] + PartsPerToken
        /\ PartsPerToken * taken[t] \in Nat /\ t * MaxTokens \in Nat
    BY <2>1, Products
  <2>3. PartsPerToken * taken[t] + Refilled <= Capacity + t * MaxTokens
    BY DEF BucketInv, Balance
  <2> HIDE DEF Capacity
  <2> QED
    BY <1>1, <1>2, <2>2, <2>3, Products
<1> QED
  BY <1>2, <1>3, <1>4 DEF BucketInv, BucketTypeOK, Balance, Promise

(* Rounded up, the wait is long enough for the parts that are missing.     *)
LEMMA RetryAfterIsEnough ==
  ASSUME NEW missing \in Nat \ {0}
  PROVE  LET ticks == (missing + MaxTokens - 1) \div MaxTokens
         IN  ticks \in Nat /\ ticks * MaxTokens >= missing
BY BucketSizes

LEMMA RefusePreserves == ASSUME BucketInv, Refuse PROVE BucketInv'
<1>1. Refilled \in 0 .. Capacity /\ PartsPerToken \in Nat /\ Refilled < PartsPerToken
  BY RefilledIs, BucketSizes, Products DEF BucketInv, Refuse
<1>2. /\ tokens' \in 0 .. Capacity /\ elapsed' \in -MaxSetBack .. PartsPerToken
      /\ Refilled' = Refilled /\ (elapsed >= 0 => elapsed' = 0)
  BY <1>1, RefillKeeps DEF BucketInv, Refuse
<1>3. RetryAfter \in Nat /\ RetryAfter * MaxTokens >= PartsPerToken - Refilled
  <2>1. PartsPerToken - Refilled \in Nat \ {0}
    BY <1>1, Products
  <2> QED
    BY <2>1, RetryAfterIsEnough DEF RetryAfter
<1>4. waiting' \in Int /\ Promise'
  <2>1. elapsed \in Int
    BY BucketSizes DEF BucketInv, BucketTypeOK
  <2>2. CASE elapsed < 0
    BY <2>2 DEF Refuse, NotWaiting, Promise
  <2>3. CASE elapsed >= 0
    <3>1. waiting' = RetryAfter
      BY <2>1, <2>3 DEF Refuse
    <3>2. RetryAfter * MaxTokens \in Int
      BY <1>3, Products
    <3> QED
      BY <1>1, <1>2, <1>3, <2>3, <3>1, <3>2, Products DEF Promise
  <2> QED
    BY <2>1, <2>2, <2>3
<1>5. Balance'
  BY <1>2 DEF Refuse, BucketInv, Balance
<1> QED
  BY <1>2, <1>4, <1>5 DEF BucketInv, BucketTypeOK, Refuse

(* A tick brings what is refilled in a tick, unless the bucket is full or  *)
(* the clock behind the last refill.                                       *)
LEMMA TickRefills ==
  ASSUME BucketTypeOK, BucketTick
  PROVE  /\ BucketTypeOK'
         /\ Refilled' \in 0 .. Capacity /\ Refilled' <= Refilled + MaxTokens
         /\ elapsed >= 0 => elapsed' >= 0 /\ (Refilled' = Capacity \/ Refilled' = Refilled + MaxTokens)
<1>1. BucketTypeOK'
  <2>1. taken' \in [0 .. PartsPerToken -> Nat]
    BY BucketSizes DEF BucketTypeOK, BucketTick
  <2> QED
    BY <2>1, BucketSizes DEF BucketTypeOK, BucketTick
<1>2. /\ tokens' = tokens /\ tokens \in 0 .. Capacity /\ elapsed \in Int /\ elapsed <= PartsPerToken
      /\ elapsed' = IF elapsed < PartsPerToken THEN elapsed + 1 ELSE elapsed
  BY BucketSizes DEF BucketTypeOK, BucketTick
<1>3. /\ Refilled' \in 0 .. Capacity
      /\ elapsed' <= 0 => Refilled' = tokens'
      /\ elapsed' > 0 => Refilled' = IF Capacity <= tokens' + elapsed' * MaxTokens THEN Capacity
                                     ELSE tokens' + elapsed' * MaxTokens
  BY <1>1, RefilledWillBe
<1> HIDE DEF Capacity
<1>4. Capacity \in Nat /\ MaxTokens \in Nat \ {0} /\ PartsPerToken \in Nat \ {0}
  BY BucketSizes, Products
<1>5. CASE elapsed < 0
  BY <1>1, <1>2, <1>3, <1>4, <1>5, RefilledIs
<1>6. CASE elapsed = 0
  <2>1. elapsed' = 1 /\ elapsed' * MaxTokens = MaxTokens
    BY <1>2, <1>4, <1>6
  <2> QED
    BY <1>1, <1>2, <1>3, <1>4, <1>6, <2>1, RefilledIs
<1>7. CASE elapsed > 0 /\ elapsed < PartsPerToken
  <2>1. elapsed' = elapsed + 1 /\ elapsed' * MaxTokens = elapsed * MaxTokens + MaxTokens
        /\ elapsed * MaxTokens \in Nat
    BY <1>2, <1>4, <1>7, Products
  <2> QED
    BY <1>1, <1>2, <1>3, <1>4, <1>7, <2>1, RefilledIs
<1>8. CASE elapsed = PartsPerToken
  <2>1. elapsed' = elapsed /\ elapsed > 0 /\ elapsed * MaxTokens = Capacity
    BY <1>2, <1>4, <1>8, Products
  <2> QED
    BY <1>1, <1>2, <1>3, <1>4, <1>8, <2>1, RefilledIs
<1> QED
  BY <1>1, <1>2, <1>4, <1>5, <1>6, <1>7, <1>8

LEMMA BucketTickPreserves == ASSUME BucketInv, BucketTick PROVE BucketInv'
<1> HIDE DEF Capacity
<1>1. /\ BucketTypeOK'
      /\ Refilled' \in 0 .. Capacity /\ Refilled' <= Refilled + MaxTokens
      /\ elapsed >= 0 => elapsed' >= 0 /\ (Refilled' = Capacity \/ Refilled' = Refilled + MaxTokens)
  BY TickRefills DEF BucketInv
<1>2. /\ Capacity \in Nat /\ MaxTokens \in Nat \ {0} /\ PartsPerToken \in Nat \ {0}
      /\ PartsPerToken <= Capacity /\ Refilled \in 0 .. Capacity
  BY BucketSizes, Products, RefilledIs DEF BucketInv
<1>3. ASSUME NEW t \in 0 .. PartsPerToken
      PROVE  PartsPerToken * taken'[t] + Refilled' <= Capacity + t * MaxTokens
  <2>1. CASE t = 0
    <3>1. taken'[t] = 0
      BY <2>1 DEF BucketTick
    <3>2. PartsPerToken * taken'[t] = 0 /\ t * MaxTokens = 0
      BY <1>2, <2>1, <3>1
    <3> QED
      BY <1>1, <1>2, <3>2
  <2>2. CASE t # 0
    <3>1. t - 1 \in 0 .. PartsPerToken /\ taken'[t] = taken[t - 1]
      BY <1>2, <2>2 DEF BucketTick
    <3>2. PartsPerToken * taken[t - 1] + Refilled <= Capacity + (t - 1) * MaxTokens
      BY <3>1 DEF BucketInv, Balance
    <3>3. (t - 1) * MaxTokens = t * MaxTokens - MaxTokens /\ t * MaxTokens \in Int
      BY Products
    <3>4. PartsPerToken * taken[t - 1] \in Nat
      BY <3>1, Products DEF BucketInv, BucketTypeOK
    <3> QED
      BY <1>1, <1>2, <3>1, <3>2, <3>3, <3>4
  <2> QED
    BY <2>1, <2>2
<1>4. Promise'
  <2> SUFFICES ASSUME waiting' >= 0
               PROVE  elapsed' >= 0 /\ Refilled' + waiting' * MaxTokens >= PartsPerToken
    BY DEF Promise
  <2>1. waiting \in Int /\ waiting' = IF waiting > 0 THEN waiting - 1 ELSE waiting
    BY DEF BucketTick, BucketInv, BucketTypeOK
  <2>2. waiting \in Nat /\ elapsed >= 0 /\ Refilled + waiting * MaxTokens >= PartsPerToken
    BY <2>1 DEF BucketInv, Promise
  <2>3. waiting * MaxTokens \in Nat
    BY <2>2, Products
  <2>4. waiting' \in Nat /\ waiting' * MaxTokens \in Nat
    BY <2>1, <2>2, Products
  <2> DEFINE before == waiting * MaxTokens
             after == waiting' * MaxTokens
  <2> HIDE DEF before, after
  <2>5. CASE Refilled' = Capacity
    <3>1. elapsed' >= 0
      BY <1>1, <2>2
    <3>2. after \in Nat
      BY <2>4 DEF after
    <3>3. Refilled' + after >= PartsPerToken
      BY <1>2, <2>5, <3>2
    <3> QED
      BY <3>1, <3>3 DEF after
  <2>6. CASE Refilled' = Refilled + MaxTokens
    <3>1. waiting' * MaxTokens >= waiting * MaxTokens - MaxTokens
      <4>1. CASE waiting > 0
        BY <1>2, <2>1, <2>3, <4>1, Products
      <4>2. CASE waiting = 0
        BY <1>2, <2>1, <2>3, <4>2
      <4> QED
        BY <2>2, <4>1, <4>2
    <3>2. before \in Nat /\ after \in Nat /\ after >= before - MaxTokens
          /\ Refilled + before >= PartsPerToken
      BY <2>2, <2>3, <2>4, <3>1 DEF before, after
    <3>3. Refilled' + after >= PartsPerToken
      BY <1>2, <2>6, <3>2
    <3> QED
      BY <1>1, <2>2, <3>3 DEF after
  <2> QED
    BY <1>1, <2>2, <2>5, <2>6
<1> QED
  BY <1>1, <1>3, <1>4 DEF BucketInv, Balance

LEMMA SetBackPreserves == ASSUME BucketInv, SetBack PROVE BucketInv'
<1> HIDE DEF Capacity
<1>1. PICK ticks \in 1 .. MaxSetBack : elapsed - ticks >= -MaxSetBack /\ elapsed' = elapsed - ticks
  BY DEF SetBack
<1>2. BucketTypeOK' /\ elapsed' < elapsed /\ elapsed \in Int /\ elapsed' \in Int
  BY <1>1, BucketSizes DEF SetBack, BucketInv, BucketTypeOK, NotWaiting
<1>3. tokens' = tokens /\ tokens \in 0 .. Capacity /\ Capacity \in Nat
  BY Products DEF SetBack, BucketInv, BucketTypeOK
<1>4. /\ elapsed' <= 0 => Refilled' = tokens'
      /\ elapsed' > 0 => Refilled' = IF Capacity <= tokens' + elapsed' * MaxTokens THEN Capacity
                                     ELSE tokens' + elapsed' * MaxTokens
  BY <1>2, RefilledWillBe
<1>5. Refilled' <= Refilled /\ Refilled' \in Int /\ Refilled \in Int
  <2>1. elapsed' * MaxTokens <= elapsed * MaxTokens
    BY <1>2, ProductsAreMonotonic
  <2>2. elapsed' * MaxTokens \in Int /\ elapsed * MaxTokens \in Int
        /\ (elapsed > 0 => elapsed * MaxTokens \in Nat)
    BY <1>2, Products
  <2> QED
    BY <1>2, <1>3, <1>4, <2>1, <2>2, RefilledIs DEF BucketInv
<1>6. Balance'
  <2> SUFFICES ASSUME NEW t \in 0 .. PartsPerToken
               PROVE  PartsPerToken * taken[t] + Refilled' <= Capacity + t * MaxTokens
    BY DEF Balance, SetBack
  <2>1. PartsPerToken * taken[t] + Refilled <= Capacity + t * MaxTokens
    BY DEF BucketInv, Balance
  <2>2. PartsPerToken * taken[t] \in Nat /\ t * MaxTokens \in Nat
    <3>1. taken[t] \in Nat /\ t \in Nat
      BY DEF BucketInv, BucketTypeOK
    <3> QED
      BY <3>1, Products
  <2> QED
    BY <1>3, <1>5, <2>1, <2>2
<1>7. Promise'
  BY DEF SetBack, NotWaiting, Promise
<1> QED
  BY <1>2, <1>6, <1>7 DEF BucketInv

LEMMA BucketInvariance == BucketSpec => []BucketInv
<1>1. BucketInv /\ [BucketNext]_bucketVars => BucketInv'
  <2> SUFFICES ASSUME BucketInv, [BucketNext]_bucketVars PROVE BucketInv'
    OBVIOUS
  <2>1. CASE BucketNext
    BY <2>1, LookPreserves, AcquirePreserves, RefusePreserves, BucketTickPreserves,
       SetBackPreserves DEF BucketNext
  <2>2. CASE UNCHANGED bucketVars
    BY <2>2 DEF bucketVars, BucketInv, BucketTypeOK, Balance, Promise, Refilled
  <2> QED
    BY <2>1, <2>2
<1> QED
  BY <1>1, BucketInitially, PTL DEF BucketSpec

(***************************************************************************)
(* A rail is never sent more, in any stretch of time, than a full bucket   *)
(* and what is refilled meanwhile (rate-limiter.ts, lines 104-116).        *)
(***************************************************************************)
THEOREM BurstsBounded == BucketSpec => []BurstsAreBounded
<1>1. BucketInv => BurstsAreBounded
  <2> SUFFICES ASSUME BucketInv, NEW t \in 0 .. PartsPerToken
               PROVE  PartsPerToken * taken[t] <= Capacity + t * MaxTokens
    BY DEF BurstsAreBounded
  <2> HIDE DEF Capacity
  <2>1. PartsPerToken * taken[t] + Refilled <= Capacity + t * MaxTokens
    BY DEF BucketInv, Balance
  <2>2. PartsPerToken * taken[t] \in Nat /\ t * MaxTokens \in Nat /\ Capacity \in Nat
    <3>1. taken[t] \in Nat /\ t \in Nat
      BY DEF BucketInv, BucketTypeOK
    <3> QED
      BY <3>1, Products
  <2> QED
    BY <2>1, <2>2, RefilledIs DEF BucketInv
<1> QED
  BY <1>1, BucketInvariance, PTL

(***************************************************************************)
(* retryAfterMs is long enough, rounding included: who comes back then     *)
(* before anybody else, with no clock set back, finds a token              *)
(* (rate-limiter.ts, line 66).                                             *)
(***************************************************************************)
THEOREM RetriesServed == BucketSpec => []RetryAfterIsTrue
<1>1. BucketInv => RetryAfterIsTrue
  <2> SUFFICES ASSUME BucketInv, waiting = 0 PROVE Refilled >= PartsPerToken
    BY DEF RetryAfterIsTrue
  <2>1. Refilled + waiting * MaxTokens >= PartsPerToken /\ Refilled \in 0 .. Capacity
    BY RefilledIs DEF BucketInv, Promise
  <2> QED
    BY <2>1, BucketSizes, Products
<1> QED
  BY <1>1, BucketInvariance, PTL
=============================================================================

------------------------- MODULE ReferenceDataProofs -------------------------
(* Proofs about ReferenceData, for any number of payments, any TTL and any *)
(* time loads take within it: the caches serve nothing that has been       *)
(* withdrawn for longer than they promise, and what a payment is prepared  *)
(* with is of one piece.                                                   *)
(*                                                                         *)
(* Where a step stands with the caches is one of three things: it leaves   *)
(* them alone, it stores an answer, or it drops one. A lemma for each      *)
(* shows what it preserves, and the actions only say which they are.       *)
EXTENDS ReferenceDataProperties, TLAPS

(* What is preserved whatever happens to the data of the payments.         *)
CacheInv == /\ FutureIsUnretired /\ Published /\ AnswersAreRecent /\ IdleLoads
            /\ FallbackOnly /\ EntriesAgeTruthfully

LEMMA LoadingIs == /\ Loading = {"mapping_load", "rate_fetch", "amount_fetch", "rules_load"}
                   /\ \A await \in Loading : Loads[await] \in Sources
                   /\ Loads["mapping_load"] = "mappings" /\ Loads["rules_load"] = "rules"
                   /\ Loads["rate_fetch"] = "rates" /\ Loads["amount_fetch"] = "rates"
BY DEF Loading, Loads, Sources

(* A payment goes on, or starts a load, without touching a cache.          *)
LEMMA QuietStep ==
  ASSUME TypeOK, CacheInv, NEW p \in Payments, NEW await \in Awaits,
         pc[p] \notin Loading, Goto(p, await),
         await \in {"rate_fetch", "amount_fetch"} => appId,
         UNCHANGED <<version, retired, cache, appId, load, overtaken>>
  PROVE  CacheInv'
<1> USE LoadingIs DEF TypeOK, Awaits, Entries, Calls, Goto, CacheInv
<1>1. FutureIsUnretired' BY DEF FutureIsUnretired
<1>2. ASSUME NEW q \in Payments, NEW s \in Sources, NEW v \in Versions, LoadsOf(q, s, v)'
      PROVE  LoadsOf(q, s, v)
  BY <1>2, MarksAreNoData, BoundsAreNumbers DEF LoadsOf, LoadOf, IdleLoads, Asked, Versions
<1>3. Published' BY <1>2 DEF Published
<1>4. AnswersAreRecent' BY <1>2 DEF AnswersAreRecent
<1>5. IdleLoads' BY DEF IdleLoads
<1>6. FallbackOnly' BY DEF FallbackOnly, LoadOf
<1>7. EntriesAgeTruthfully' BY DEF EntriesAgeTruthfully, Fresh, Slack
<1> QED BY <1>1, <1>3, <1>4, <1>5, <1>6, <1>7

(* The answer of p's load goes into the cache, stamped so that its age     *)
(* accounts for the time it has taken, up to the slack of the table.       *)
LEMMA StoreStep ==
  ASSUME TypeOK, CacheInv, NEW p \in Payments, NEW s \in Sources, NEW v \in Versions,
         LoadsOf(p, s, v), NEW age \in 0 .. TTL, retired[s][v] <= age + Slack(s),
         Store(p, s, [version |-> v, age |-> age]),
         NEW await \in Awaits, await \notin Loading, Goto(p, await),
         UNCHANGED <<version, retired, appId>>
  PROVE  CacheInv'
<1> USE LoadingIs DEF TypeOK, Awaits, Entries, Calls, Goto, CacheInv
<1>1. FutureIsUnretired' BY DEF FutureIsUnretired
<1>2. ASSUME NEW q \in Payments, NEW t \in Sources, NEW w \in Versions, LoadsOf(q, t, w)'
      PROVE  /\ LoadsOf(q, t, w) /\ q # p
             /\ load'[q] = load[q]
             /\ q \in overtaken \/ t = s => q \in overtaken'
  BY <1>2, MarksAreNoData, BoundsAreNumbers DEF LoadsOf, LoadOf, Store, Asked, Versions
<1>3. Published' BY <1>2 DEF Published, Store, LoadsOf
<1>4. AnswersAreRecent' BY <1>2 DEF AnswersAreRecent, Store
<1>5. IdleLoads' BY DEF IdleLoads, Store
<1>6. FallbackOnly' BY DEF FallbackOnly, LoadOf, LoadsOf, Store
<1>7. EntriesAgeTruthfully' BY DEF EntriesAgeTruthfully, Fresh, Slack, Store
<1> QED BY <1>1, <1>3, <1>4, <1>5, <1>6, <1>7

(* The load of p is over and has brought nothing.                          *)
LEMMA DropStep ==
  ASSUME TypeOK, CacheInv, NEW p \in Payments, pc[p] \in Loading, StoreNothing(p),
         NEW await \in Awaits, Goto(p, await),
         await \in Loading => await = "amount_fetch" /\ appId,
         UNCHANGED <<version, retired, appId>>
  PROVE  CacheInv'
<1> USE LoadingIs DEF TypeOK, Awaits, Entries, Calls, Goto, CacheInv, StoreNothing
<1>1. FutureIsUnretired' BY DEF FutureIsUnretired
<1>2. ASSUME NEW q \in Payments, NEW s \in Sources, NEW v \in Versions, LoadsOf(q, s, v)'
      PROVE  /\ LoadsOf(q, s, v) /\ load'[q] = load[q]
             /\ q \in overtaken => q \in overtaken'
  BY <1>2, MarksAreNoData, BoundsAreNumbers DEF LoadsOf, LoadOf, Asked, Versions
<1>3. Published' BY <1>2 DEF Published
<1>4. AnswersAreRecent' BY <1>2 DEF AnswersAreRecent
<1>5. IdleLoads' BY DEF IdleLoads
<1>6. FallbackOnly' BY DEF FallbackOnly, LoadOf
<1>7. EntriesAgeTruthfully' BY DEF EntriesAgeTruthfully, Fresh, Slack
<1> QED BY <1>1, <1>3, <1>4, <1>5, <1>6, <1>7

LEMMA AnswerStep ==
  ASSUME TypeOK, CacheInv, NEW p \in Payments, Answer(p)
  PROVE  CacheInv'
<1> USE LoadingIs DEF TypeOK, Entries, Calls, CacheInv, Answer
<1>1. FutureIsUnretired' BY DEF FutureIsUnretired
<1>2. ASSUME NEW q \in Payments, NEW s \in Sources, NEW v \in Versions, LoadsOf(q, s, v)'
      PROVE  \/ LoadsOf(q, s, v) /\ load'[q] = load[q]
             \/ v = version[s] /\ load'[q].elapsed = load[q].elapsed
  <2>1. CASE q # p
    BY <1>2, <2>1 DEF LoadsOf, LoadOf
  <2>2. CASE q = p
    <3>1. \/ load' = [load EXCEPT ![p].answer = version[Loads[pc[p]]]]
          \/ load' = [load EXCEPT ![p].answer = Rejected]
      OBVIOUS
    <3>2. Rejected \notin Versions
      BY MarksAreNoData DEF Versions
    <3> QED BY <1>2, <2>2, <3>1, <3>2 DEF LoadsOf, LoadOf
  <2> QED BY <2>1, <2>2
<1>3. Published' BY <1>2, BoundsAreNumbers DEF Published, Versions
<1>4. AnswersAreRecent'
  <2>1. ASSUME NEW q \in Payments, NEW s \in Sources, NEW v \in Versions, v = version[s]
        PROVE  /\ retired[s][v] <= load[q].elapsed
               /\ ~(cache[s] # None /\ cache[s].version > v)
    <3>1. v \in Nat /\ load[q].elapsed \in Nat
      BY LoadsAreShort, BoundsAreNumbers DEF Versions
    <3>2. retired[s][v] = 0
      BY <2>1, <3>1 DEF FutureIsUnretired
    <3> QED BY <2>1, <3>1, <3>2, BoundsAreNumbers DEF Published, Versions
  <2> QED BY <1>2, <2>1 DEF AnswersAreRecent
<1>5. IdleLoads' BY DEF IdleLoads
<1>6. FallbackOnly' BY DEF FallbackOnly, LoadOf
<1>7. EntriesAgeTruthfully' BY DEF EntriesAgeTruthfully, Fresh, Slack
<1> QED BY <1>1, <1>3, <1>4, <1>5, <1>6, <1>7

LEMMA ChangeStep ==
  ASSUME TypeOK, CacheInv, NEW s \in Sources, Change(s)
  PROVE  CacheInv'
<1> USE LoadingIs DEF TypeOK, Entries, Calls, CacheInv, Change
<1>1. ASSUME NEW t \in Sources PROVE version[t] <= version'[t]
  <2>1. version[t] \in Nat
    BY BoundsAreNumbers DEF Versions
  <2>2. version'[t] = version[t] \/ version'[t] = version[t] + 1
    OBVIOUS
  <2> QED BY <2>1, <2>2
<1>2. FutureIsUnretired' BY <1>1, BoundsAreNumbers DEF FutureIsUnretired, Versions
<1>3. Published'
  <2>1. \A t \in Sources : version[t] \in Int /\ version'[t] \in Int
    BY BoundsAreNumbers DEF Versions
  <2>2. \A t \in Sources : cache[t] # None => cache[t].version \in Int
    BY BoundsAreNumbers DEF Versions
  <2>3. ASSUME NEW t \in Sources, cache[t] # None PROVE cache[t].version <= version'[t]
    BY <1>1, <2>1, <2>2, <2>3 DEF Published
  <2>4. ASSUME NEW q \in Payments, NEW t \in Sources, NEW v \in Versions, LoadsOf(q, t, v)
        PROVE  v <= version'[t]
    <3>1. v <= version[t] /\ v \in Int
      BY <2>4 DEF Published, Versions
    <3> QED BY <1>1, <2>1, <3>1
  <2>5. cache' = cache /\ \A q \in Payments, t \in Sources, v \in Versions : LoadsOf(q, t, v)' = LoadsOf(q, t, v)
    BY DEF LoadsOf, LoadOf
  <2> QED BY <2>3, <2>4, <2>5 DEF Published
<1>4. AnswersAreRecent' BY DEF AnswersAreRecent, LoadsOf, LoadOf
<1>5. IdleLoads' BY DEF IdleLoads
<1>6. FallbackOnly' BY DEF FallbackOnly, LoadOf
<1>7. EntriesAgeTruthfully' BY DEF EntriesAgeTruthfully, Fresh, Slack
<1> QED BY <1>2, <1>3, <1>4, <1>5, <1>6, <1>7

(* Time makes entries, retired versions and loads older alike.             *)
LEMMA TickStep ==
  ASSUME TypeOK, CacheInv, Tick
  PROVE  CacheInv'
<1> USE LoadingIs, BoundsAreNumbers, LoadsAreShort DEF TypeOK, Entries, Calls, CacheInv
<1>1. ASSUME NEW s \in Sources, NEW v \in Versions
      PROVE  retired'[s][v] <= retired[s][v] + 1
  <2>1. retired[s][v] \in Nat
    BY <1>1 DEF Horizon
  <2>2. \/ retired'[s][v] = 0 \/ retired'[s][v] = retired[s][v]
        \/ retired'[s][v] = retired[s][v] + 1
    BY <1>1 DEF Tick, Older
  <2> HIDE DEF TypeOK, Entries, Calls, CacheInv
  <2> QED BY ONLY <2>1, <2>2
<1>2. FutureIsUnretired' BY DEF FutureIsUnretired, Tick, Versions
<1>3. ASSUME NEW s \in Sources, cache[s] # None
      PROVE  /\ cache'[s].version = cache[s].version
             /\ cache'[s].age = Older(cache[s].age, TTL)
             /\ cache[s].age \in Int /\ cache[s].version \in Versions
  BY <1>3 DEF Tick
<1>4. ASSUME NEW s \in Sources, cache'[s] # None
      PROVE  cache[s] # None
  BY <1>4 DEF Tick
<1>5. ASSUME NEW q \in Payments, NEW s \in Sources, NEW v \in Versions, LoadsOf(q, s, v)'
      PROVE  LoadsOf(q, s, v) /\ load'[q].elapsed = load[q].elapsed + 1
  BY <1>5 DEF LoadsOf, LoadOf, Tick
<1>6. Published'
  <2>1. version' = version
    BY DEF Tick
  <2> QED BY <1>3, <1>4, <1>5, <2>1 DEF Published
<1>7. AnswersAreRecent'
  <2>1. ASSUME NEW q \in Payments, NEW s \in Sources, NEW v \in Versions, LoadsOf(q, s, v)'
        PROVE  /\ retired'[s][v] <= load'[q].elapsed
               /\ cache'[s] # None /\ cache'[s].version > v => q \in overtaken'
    <3>1. retired[s][v] <= load[q].elapsed /\ retired[s][v] \in Nat /\ load[q].elapsed \in Int
      BY <1>5, <2>1 DEF AnswersAreRecent, Horizon
    <3>2. retired'[s][v] <= load'[q].elapsed
      <4>1. retired'[s][v] \in Int
        BY <3>1, <2>1 DEF Tick, Older
      <4> QED BY <1>1, <1>5, <2>1, <3>1, <4>1
    <3>3. cache'[s] # None /\ cache'[s].version > v => q \in overtaken'
      BY <1>3, <1>4, <1>5, <2>1 DEF AnswersAreRecent, Tick
    <3> QED BY <3>2, <3>3
  <2> QED BY <2>1 DEF AnswersAreRecent
<1>8. IdleLoads' BY DEF IdleLoads, Tick
<1>9. FallbackOnly' BY <1>4 DEF FallbackOnly, LoadOf, Sources, Tick
<1>10. EntriesAgeTruthfully'
  <2>1. ASSUME NEW s \in Sources, cache'[s] # None, cache'[s].age < TTL
        PROVE  retired'[s][cache'[s].version] <= cache'[s].age + Slack(s)
    <3>1. cache'[s].age = cache[s].age + 1 /\ cache[s].age < TTL
      BY <1>3, <1>4, <2>1 DEF Older
    <3>2. retired[s][cache[s].version] <= cache[s].age + Slack(s)
      BY <1>4, <2>1, <3>1 DEF EntriesAgeTruthfully, Fresh
    <3>3. retired[s][cache[s].version] \in Int /\ retired'[s][cache[s].version] \in Int
      BY <1>3, <1>4, <2>1 DEF Tick, Older, Horizon
    <3>4. Slack(s) \in Int
      BY DEF Slack
    <3> QED BY <1>1, <1>3, <1>4, <2>1, <3>1, <3>2, <3>3, <3>4
  <2>2. ASSUME NEW s \in Sources, cache'[s] # None
        PROVE  cache'[s].age \in Int
    BY <1>3, <1>4, <2>2 DEF Older
  <2> QED BY <2>1, <2>2 DEF EntriesAgeTruthfully, Fresh
<1> QED BY <1>2, <1>6, <1>7, <1>8, <1>9, <1>10
-----------------------------------------------------------------------------
(* Types.                                                                  *)

LEMMA CallsAre == /\ Asked \in Calls
                  /\ \A v \in Versions, age \in 0 .. TTL : [version |-> v, age |-> age] \in Entries
BY LoadsAreShort DEF Asked, Calls, Entries

(* What the steps write into a record.                                     *)
LEMMA RecordsAre ==
  ASSUME NEW d \in [Payments -> Records], NEW p \in Payments
  PROVE  /\ [d EXCEPT ![p] = Blank] \in [Payments -> Records]
         /\ d[p].own \in SUBSET {"failed", "expired"}
         /\ \A v \in Versions : [d EXCEPT ![p].mappings = v] \in [Payments -> Records]
         /\ \A v \in Versions : [d EXCEPT ![p].rules = v] \in [Payments -> Records]
         /\ \A amount \in Rates : [d EXCEPT ![p].amount = amount] \in [Payments -> Records]
BY DEF Records, Blank, Rates

LEMMA ConvertedRecordsAre ==
  ASSUME NEW d \in [Payments -> Records], NEW p \in Payments,
         NEW rate \in Rates, NEW amount \in Rates, NEW own \in SUBSET {"failed", "expired"}
  PROVE  /\ [d EXCEPT ![p].amount = amount, ![p].own = own] \in [Payments -> Records]
         /\ [d EXCEPT ![p].rate = rate, ![p].own = own] \in [Payments -> Records]
         /\ [d EXCEPT ![p].rate = rate, ![p].amount = amount, ![p].own = own]
              \in [Payments -> Records]
BY DEF Records

LEMMA StoredCalls ==
  ASSUME TypeOK, NEW p \in Payments, NEW s \in Sources, NEW entry \in Entries, Store(p, s, entry)
  PROVE  /\ cache' \in [Sources -> {None} \cup Entries]
         /\ load' \in [Payments -> Calls] /\ overtaken' \subseteq Payments
BY CallsAre DEF TypeOK, Store

LEMMA DroppedCalls ==
  ASSUME TypeOK, NEW p \in Payments, StoreNothing(p)
  PROVE  /\ cache' \in [Sources -> {None} \cup Entries]
         /\ load' \in [Payments -> Calls] /\ overtaken' \subseteq Payments
BY CallsAre DEF TypeOK, StoreNothing

LEMMA ConvertTypes ==
  ASSUME TypeOK, NEW p \in Payments, NEW entry, NEW rate \in Rates,
         NEW own \in SUBSET {"failed", "expired"},
         entry # None => entry.version \in Versions,
         Convert(p, entry, rate, own)
  PROVE  /\ data' \in [Payments -> Records]
         /\ pc' \in [Payments -> Awaits]
<1>1. pc' \in [Payments -> Awaits]
  BY LoadingIs DEF Convert, Goto, TypeOK, Awaits
<1>2. \/ \E amount \in Rates :
           data' = [data EXCEPT ![p].rate = rate, ![p].amount = amount, ![p].own = own]
      \/ \E reason \in SUBSET {"failed", "expired"} :
           data' = [data EXCEPT ![p].rate = rate, ![p].own = reason]
  <2>1. Fallback \in Rates /\ (entry # None => entry.version \in Rates)
    BY DEF Rates
  <2>2. (IF Fresh(entry, 0) THEN own \cup {"expired"} ELSE own) \in SUBSET {"failed", "expired"}
    OBVIOUS
  <2> QED BY <2>1, <2>2 DEF Convert, Fresh
<1>3. data \in [Payments -> Records]
  BY DEF TypeOK
<1>4. CASE \E amount \in Rates :
             data' = [data EXCEPT ![p].rate = rate, ![p].amount = amount, ![p].own = own]
  <2>1. PICK amount \in Rates :
          data' = [data EXCEPT ![p].rate = rate, ![p].amount = amount, ![p].own = own]
    BY <1>4
  <2>2. [data EXCEPT ![p].rate = rate, ![p].amount = amount, ![p].own = own] \in [Payments -> Records]
    BY <1>3, ConvertedRecordsAre
  <2> QED BY <1>1, <2>1, <2>2
<1>5. CASE \E reason \in SUBSET {"failed", "expired"} :
             data' = [data EXCEPT ![p].rate = rate, ![p].own = reason]
  <2>1. PICK reason \in SUBSET {"failed", "expired"} :
          data' = [data EXCEPT ![p].rate = rate, ![p].own = reason]
    BY <1>5
  <2>2. [data EXCEPT ![p].rate = rate, ![p].own = reason] \in [Payments -> Records]
    BY <1>3, ConvertedRecordsAre
  <2> QED BY <1>1, <2>1, <2>2
<1> QED BY <1>2, <1>4, <1>5

LEMMA InitTypes == Init => TypeOK
BY CallsAre, BoundsAreNumbers, LoadsAreShort
DEF Init, TypeOK, Blank, Versions, Horizon, Sources, Awaits, Records, Rates

LEMMA StepTypes == ASSUME TypeOK, [Next]_vars PROVE TypeOK'
<1>1. /\ data \in [Payments -> Records] /\ pc \in [Payments -> Awaits]
      /\ \A await \in Awaits, p \in Payments : [pc EXCEPT ![p] = await] \in [Payments -> Awaits]
  BY DEF TypeOK
<1>2. \A s \in Sources : cache[s] # None => cache[s].version \in Versions
  BY DEF TypeOK, Entries
<1>3. LastRates \in Rates
  BY <1>2 DEF LastRates, Rates, Sources
<1>4. 0 \in Versions /\ 0 \in 0 .. TTL /\ Fallback \in Rates /\ {} \in SUBSET {"failed", "expired"}
      /\ Versions \subseteq Rates /\ {"failed"} \in SUBSET {"failed", "expired"}
  BY BoundsAreNumbers, LoadsAreShort DEF Versions, Rates
<1>5. \A p \in Payments : load[p].elapsed \in 0 .. TTL
  BY LoadsAreShort DEF TypeOK, Calls
<1>6. /\ {"mappings", "rates", "rules"} = Sources
      /\ Loading \cup {"idle", "received", "translated", "normalized", "routed", "failed"} = Awaits
  BY DEF Sources, Awaits
<1>7. ASSUME NEW p \in Payments, Arrive(p) PROVE TypeOK'
  BY <1>1, <1>4, <1>6, <1>7, RecordsAre DEF Arrive, Goto, TypeOK
<1>8. ASSUME NEW p \in Payments, Translate(p) PROVE TypeOK'
  <2>1. data' \in [Payments -> Records]
    <3>1. data' = data \/ \E v \in Versions : data' = [data EXCEPT ![p].mappings = v]
      BY <1>2, <1>6, <1>8 DEF Translate, Fresh
    <3> QED BY <1>1, <3>1, RecordsAre
  <2> QED BY <1>1, <1>6, <1>8, <2>1, LoadingIs DEF Translate, Goto, TypeOK
<1>9. ASSUME NEW p \in Payments, Normalize(p) PROVE TypeOK'
  <2>1. data' \in [Payments -> Records] /\ pc' \in [Payments -> Awaits]
    <3>1. CASE \E rate \in Rates : Convert(p, cache["rates"], rate, {})
      BY <1>2, <1>4, <1>6, <3>1, ConvertTypes
    <3>2. CASE UNCHANGED data /\ \E await \in {"normalized", "rate_fetch"} : Goto(p, await)
      BY <1>1, <1>6, <3>2, LoadingIs DEF Goto
    <3> QED BY <1>2, <1>4, <1>6, <1>9, <3>1, <3>2 DEF Normalize, Fresh
  <2> QED BY <1>9, <2>1 DEF Normalize, TypeOK
<1>10. ASSUME NEW p \in Payments, Route(p) PROVE TypeOK'
  <2>1. data' \in [Payments -> Records]
    <3>1. data' = data \/ \E v \in Versions : data' = [data EXCEPT ![p].rules = v]
      BY <1>2, <1>6, <1>10 DEF Route, Fresh
    <3> QED BY <1>1, <3>1, RecordsAre
  <2> QED BY <1>1, <1>6, <1>10, <2>1, LoadingIs DEF Route, Goto, TypeOK
<1>11. ASSUME NEW p \in Payments, Answer(p) PROVE TypeOK'
  <2>1. version[Loads[pc[p]]] \in Versions
    BY <1>11, LoadingIs DEF Answer, TypeOK
  <2>2. \A answer \in {Rejected} \cup Versions :
          [load EXCEPT ![p].answer = answer] \in [Payments -> Calls]
    BY DEF TypeOK, Calls
  <2>3. load' \in [Payments -> Calls]
    BY <1>11, <2>1, <2>2 DEF Answer
  <2>4. failures' \in 0 .. MaxFailures
    BY <1>11, BoundsAreNumbers DEF Answer, TypeOK
  <2> QED BY <1>11, <2>3, <2>4 DEF Answer, TypeOK
<1>12. ASSUME NEW p \in Payments, MappingsLoaded(p) PROVE TypeOK'
  <2>1. PICK v \in Versions : /\ Store(p, "mappings", [version |-> v, age |-> 0])
                             /\ data' = [data EXCEPT ![p].mappings = v]
    BY <1>12 DEF MappingsLoaded
  <2>2. [version |-> v, age |-> 0] \in Entries
    BY <1>4, CallsAre
  <2>3. data' \in [Payments -> Records]
    BY <1>1, <2>1, RecordsAre
  <2>4. pc' \in [Payments -> Awaits]
    BY <1>1, <1>6, <1>12 DEF MappingsLoaded, Goto
  <2> QED BY <1>6, <1>12, <2>1, <2>2, <2>3, <2>4, StoredCalls DEF MappingsLoaded, TypeOK
<1>13. ASSUME NEW p \in Payments, RulesLoaded(p) PROVE TypeOK'
  <2>1. PICK v \in Versions : /\ Store(p, "rules", [version |-> v, age |-> 0])
                             /\ data' = [data EXCEPT ![p].rules = v]
    BY <1>13 DEF RulesLoaded
  <2>2. [version |-> v, age |-> 0] \in Entries
    BY <1>4, CallsAre
  <2>3. data' \in [Payments -> Records]
    BY <1>1, <2>1, RecordsAre
  <2>4. pc' \in [Payments -> Awaits]
    BY <1>1, <1>6, <1>13 DEF RulesLoaded, Goto
  <2> QED BY <1>6, <1>13, <2>1, <2>2, <2>3, <2>4, StoredCalls DEF RulesLoaded, TypeOK
<1>14. ASSUME NEW p \in Payments, LoadFailed(p) PROVE TypeOK'
  BY <1>1, <1>6, <1>14, DroppedCalls DEF LoadFailed, Goto, TypeOK
<1>15. ASSUME NEW p \in Payments, RateFetched(p) PROVE TypeOK'
  <2>1. PICK v \in Versions : Store(p, "rates", Stamp(p, v)) /\ Convert(p, Stamp(p, v), v, {})
    BY <1>15 DEF RateFetched
  <2>2. Stamp(p, v) = [version |-> v, age |-> load[p].elapsed] /\ Stamp(p, v).version = v
    BY DEF Stamp
  <2>3. data' \in [Payments -> Records] /\ pc' \in [Payments -> Awaits]
    BY <1>4, <2>1, <2>2, ConvertTypes
  <2>4. Stamp(p, v) \in Entries
    BY <1>5, <2>2, CallsAre
  <2> QED BY <1>6, <1>15, <2>1, <2>3, <2>4, StoredCalls DEF RateFetched, TypeOK
<1>16. ASSUME NEW p \in Payments, AmountFetched(p) PROVE TypeOK'
  <2>1. PICK v \in Versions : /\ Store(p, "rates", Stamp(p, v))
                             /\ data' = [data EXCEPT ![p].amount = v]
    BY <1>16 DEF AmountFetched
  <2>2. Stamp(p, v) \in Entries
    BY <1>5, CallsAre DEF Stamp
  <2>3. data' \in [Payments -> Records]
    BY <1>1, <1>4, <2>1, RecordsAre
  <2>4. pc' \in [Payments -> Awaits]
    BY <1>1, <1>6, <1>16 DEF AmountFetched, Goto
  <2> QED BY <1>6, <1>16, <2>1, <2>2, <2>3, <2>4, StoredCalls DEF AmountFetched, TypeOK
<1>17. ASSUME NEW p \in Payments, RateFailed(p) PROVE TypeOK'
  <2>1. data' \in [Payments -> Records] /\ pc' \in [Payments -> Awaits]
    BY <1>2, <1>3, <1>4, <1>6, <1>17, ConvertTypes DEF RateFailed
  <2> QED BY <1>17, <2>1, DroppedCalls DEF RateFailed, TypeOK
<1>18. ASSUME NEW p \in Payments, AmountFailed(p) PROVE TypeOK'
  <2>1. data[p].own \cup {"failed"} \in SUBSET {"failed", "expired"}
    BY <1>1, <1>4, RecordsAre
  <2>2. data' \in [Payments -> Records]
    BY <1>1, <1>3, <1>18, <2>1, ConvertedRecordsAre DEF AmountFailed
  <2>3. pc' \in [Payments -> Awaits]
    BY <1>1, <1>6, <1>18 DEF AmountFailed, Goto
  <2> QED BY <1>18, <2>2, <2>3, DroppedCalls DEF AmountFailed, TypeOK
<1>19. ASSUME NEW s \in Sources, Change(s) PROVE TypeOK'
  <2>1. version["mappings"] \in Nat /\ version["rates"] \in Nat /\ version["rules"] \in Nat
    BY <1>6, BoundsAreNumbers DEF Versions, TypeOK
  <2>2. s = "mappings" \/ s = "rates" \/ s = "rules"
    BY <1>6
  <2>3. version[s] + 1 \in Versions
    BY <1>19, <2>1, <2>2, BoundsAreNumbers DEF Change, Versions
  <2> QED BY <1>19, <2>3 DEF Change, TypeOK
<1>20. ASSUME Tick PROVE TypeOK'
  <2>1. cache' \in [Sources -> {None} \cup Entries]
    <3>1. ASSUME NEW entry \in Entries
          PROVE  [entry EXCEPT !.age = Older(@, TTL)] \in Entries
      BY <3>1, LoadsAreShort DEF Entries, Older
    <3> QED BY <1>20, <3>1 DEF Tick, TypeOK
  <2>2. retired' \in [Sources -> [Versions -> 0 .. Horizon]]
    <3>1. ASSUME NEW age \in 0 .. Horizon
          PROVE  Older(age, Horizon) \in 0 .. Horizon /\ 0 \in 0 .. Horizon
      BY <3>1, LoadsAreShort DEF Horizon, Older
    <3> QED BY <1>20, <3>1, LoadsAreShort DEF Tick, TypeOK, Horizon
  <2>3. load' \in [Payments -> Calls]
    <3>1. ASSUME NEW p \in Payments, pc[p] \in Loading
          PROVE  [load[p] EXCEPT !.elapsed = @ + 1] \in Calls
      <4>1. load[p] \in Calls /\ load[p].elapsed < MaxLoad
        BY <1>20, <3>1 DEF Tick, TypeOK
      <4> QED BY <4>1, LoadsAreShort DEF Calls
    <3> QED BY <1>20, <3>1 DEF Tick, TypeOK
  <2> QED BY <1>20, <2>1, <2>2, <2>3 DEF Tick, TypeOK
<1>21. ASSUME UNCHANGED vars PROVE TypeOK'
  BY <1>21 DEF vars, TypeOK
<1> QED BY <1>7, <1>8, <1>9, <1>10, <1>11, <1>12, <1>13, <1>14, <1>15, <1>16, <1>17, <1>18, <1>19,
           <1>20, <1>21 DEF Next, Step

(* The variables have their types (ReferenceData.tla's declarations), for  *)
(* any number of payments and any bounds.                                  *)
THEOREM TypeCorrect == Spec => []TypeOK
BY InitTypes, StepTypes, PTL DEF Spec
-----------------------------------------------------------------------------
(* The invariant.                                                          *)

LEMMA InitInv == Init => IInv
<1> SUFFICES ASSUME Init PROVE IInv
  OBVIOUS
<1>1. TypeOK
  BY InitTypes
<1>2. FutureIsUnretired /\ Published /\ AnswersAreRecent /\ EntriesAgeTruthfully
  BY MarksAreNoData, BoundsAreNumbers
  DEF Init, FutureIsUnretired, Published, AnswersAreRecent, EntriesAgeTruthfully, Fresh,
      LoadsOf, Asked, Versions
<1>3. IdleLoads /\ FallbackOnly /\ AmountIsLast /\ RateAndAmountAgree
  BY LoadingIs
  DEF Init, IdleLoads, FallbackOnly, LoadOf, AmountIsLast, RateAndAmountAgree, Blank, Sources
<1> QED BY <1>1, <1>2, <1>3 DEF IInv

(* A load that has its answer knows a published version, and how old.      *)
LEMMA GotAnswer ==
  ASSUME TypeOK, CacheInv, NEW p \in Payments, NEW await \in Loading, NEW v \in Versions,
         Got(p, await, v)
  PROVE  /\ LoadsOf(p, Loads[await], v)
         /\ retired[Loads[await]][v] <= load[p].elapsed
         /\ load[p].elapsed \in 0 .. MaxLoad
         /\ retired[Loads[await]][v] \in Nat
<1>1. LoadsOf(p, Loads[await], v)
  BY LoadingIs DEF Got, LoadsOf, LoadOf
<1> QED BY <1>1, LoadingIs, LoadsAreShort DEF CacheInv, AnswersAreRecent, TypeOK, Calls, Horizon

(* Rates just fetched are fresh, whatever the clock shows.                 *)
LEMMA FetchedIsFresh ==
  ASSUME TypeOK, NEW p \in Payments, NEW v \in Versions, NEW late \in {0, 1}
  PROVE  Fresh(Stamp(p, v), late)
BY LoadsAreShort, MarksAreNoData DEF TypeOK, Calls, Entries, Fresh, Stamp

LEMMA StepCaches == ASSUME TypeOK, CacheInv, [Next]_vars PROVE CacheInv'
<1>1. Sources = {"mappings", "rates", "rules"}
  BY DEF Sources
<1>2. /\ Loading \subseteq Awaits /\ {"received", "translated", "normalized", "routed", "failed"} \subseteq Awaits
      /\ {"received", "translated", "normalized", "routed", "failed"} \cap Loading = {}
  BY LoadingIs DEF Awaits
<1>3. ASSUME NEW p \in Payments, Arrive(p) PROVE CacheInv'
  BY <1>2, <1>3, QuietStep, LoadingIs DEF Arrive
<1>4. ASSUME NEW p \in Payments, Translate(p) PROVE CacheInv'
  <2>1. \E await \in {"translated", "mapping_load"} : Goto(p, await)
    BY <1>4 DEF Translate
  <2> QED BY <1>2, <1>4, <2>1, QuietStep, LoadingIs DEF Translate
<1>5. ASSUME NEW p \in Payments, Normalize(p) PROVE CacheInv'
  <2>1. \E await \in {"normalized", "rate_fetch", "amount_fetch"} :
          Goto(p, await) /\ (await # "normalized" => appId)
    BY <1>5 DEF Normalize, Convert
  <2> QED BY <1>2, <1>5, <2>1, QuietStep, LoadingIs DEF Normalize
<1>6. ASSUME NEW p \in Payments, Route(p) PROVE CacheInv'
  <2>1. \E await \in {"routed", "rules_load"} : Goto(p, await)
    BY <1>6 DEF Route
  <2> QED BY <1>2, <1>6, <2>1, QuietStep, LoadingIs DEF Route
<1>7. ASSUME NEW p \in Payments, Answer(p) PROVE CacheInv'
  BY <1>7, AnswerStep
<1>8. ASSUME NEW p \in Payments, MappingsLoaded(p) PROVE CacheInv'
  <2>1. PICK v \in Versions : /\ Got(p, "mapping_load", v) /\ Goto(p, "translated")
                             /\ Store(p, "mappings", [version |-> v, age |-> 0])
    BY <1>8 DEF MappingsLoaded
  <2>2. LoadsOf(p, "mappings", v) /\ retired["mappings"][v] <= 0 + Slack("mappings")
    BY <2>1, GotAnswer, LoadingIs, LoadsAreShort DEF Slack
  <2>3. 0 \in 0 .. TTL /\ UNCHANGED <<version, retired, appId>>
    BY <1>8, LoadsAreShort DEF MappingsLoaded
  <2> QED BY <1>1, <1>2, <2>1, <2>2, <2>3, StoreStep
<1>9. ASSUME NEW p \in Payments, RulesLoaded(p) PROVE CacheInv'
  <2>1. PICK v \in Versions : /\ Got(p, "rules_load", v) /\ Goto(p, "routed")
                             /\ Store(p, "rules", [version |-> v, age |-> 0])
    BY <1>9 DEF RulesLoaded
  <2>2. LoadsOf(p, "rules", v) /\ retired["rules"][v] <= 0 + Slack("rules")
    BY <2>1, GotAnswer, LoadingIs, LoadsAreShort DEF Slack
  <2>3. 0 \in 0 .. TTL /\ UNCHANGED <<version, retired, appId>>
    BY <1>9, LoadsAreShort DEF RulesLoaded
  <2> QED BY <1>1, <1>2, <2>1, <2>2, <2>3, StoreStep
<1>10. ASSUME NEW p \in Payments, LoadFailed(p) PROVE CacheInv'
  BY <1>2, <1>10, DropStep, LoadingIs DEF LoadFailed, Got
<1>11. ASSUME NEW p \in Payments, RateFetched(p) PROVE CacheInv'
  <2>1. PICK v \in Versions : /\ Got(p, "rate_fetch", v) /\ Convert(p, Stamp(p, v), v, {})
                             /\ Store(p, "rates", Stamp(p, v))
    BY <1>11 DEF RateFetched
  <2>2. LoadsOf(p, "rates", v) /\ retired["rates"][v] <= load[p].elapsed + Slack("rates")
        /\ load[p].elapsed \in 0 .. TTL
    BY <2>1, GotAnswer, LoadingIs, LoadsAreShort DEF Slack
  <2>3. Stamp(p, v) = [version |-> v, age |-> load[p].elapsed]
    BY DEF Stamp
  <2>4. Goto(p, "normalized")
    BY <2>1, FetchedIsFresh DEF Convert
  <2> QED BY <1>1, <1>2, <1>11, <2>1, <2>2, <2>3, <2>4, StoreStep DEF RateFetched
<1>12. ASSUME NEW p \in Payments, AmountFetched(p) PROVE CacheInv'
  <2>1. PICK v \in Versions : /\ Got(p, "amount_fetch", v) /\ Goto(p, "normalized")
                             /\ Store(p, "rates", [version |-> v, age |-> load[p].elapsed])
    BY <1>12 DEF AmountFetched, Stamp
  <2>2. LoadsOf(p, "rates", v) /\ retired["rates"][v] <= load[p].elapsed + Slack("rates")
        /\ load[p].elapsed \in 0 .. TTL
    BY <2>1, GotAnswer, LoadingIs, LoadsAreShort DEF Slack
  <2>3. UNCHANGED <<version, retired, appId>>
    BY <1>12 DEF AmountFetched
  <2> QED BY <1>1, <1>2, <2>1, <2>2, <2>3, StoreStep
<1>13. ASSUME NEW p \in Payments, RateFailed(p) PROVE CacheInv'
  <2>1. \E await \in {"normalized", "amount_fetch"} :
          Goto(p, await) /\ (await # "normalized" => appId)
    BY <1>13 DEF RateFailed, Convert
  <2> QED BY <1>2, <1>13, <2>1, DropStep, LoadingIs DEF RateFailed, Got
<1>14. ASSUME NEW p \in Payments, AmountFailed(p) PROVE CacheInv'
  BY <1>2, <1>14, DropStep, LoadingIs DEF AmountFailed, Got
<1>15. ASSUME NEW s \in Sources, Change(s) PROVE CacheInv'
  BY <1>15, ChangeStep
<1>16. ASSUME Tick PROVE CacheInv'
  BY <1>16, TickStep
<1>17. ASSUME UNCHANGED vars PROVE CacheInv'
  BY <1>17 DEF vars, CacheInv, FutureIsUnretired, Published, AnswersAreRecent, IdleLoads, FallbackOnly,
               EntriesAgeTruthfully, LoadsOf, LoadOf, Fresh, Slack
<1> QED BY <1>3, <1>4, <1>5, <1>6, <1>7, <1>8, <1>9, <1>10, <1>11, <1>12, <1>13, <1>14, <1>15,
           <1>16, <1>17 DEF Next, Step
-----------------------------------------------------------------------------
(* What a payment is prepared with.                                        *)

RecordInv(p) ==
    /\ pc[p] \in {"received", "mapping_load", "translated", "rate_fetch", "amount_fetch"} =>
          data[p].amount = None
    /\ pc[p] = "amount_fetch" => data[p].own # {}
    /\ data[p].amount # None /\ data[p].amount # data[p].rate => data[p].own # {}

LEMMA RecordInvs == AmountIsLast /\ RateAndAmountAgree <=> \A p \in Payments : RecordInv(p)
BY DEF AmountIsLast, RateAndAmountAgree, RecordInv

(* The fields the steps do not write.                                      *)
LEMMA RecordFields ==
  ASSUME TypeOK, NEW p \in Payments, NEW x
  PROVE  /\ [data EXCEPT ![p].mappings = x][p].amount = data[p].amount
         /\ [data EXCEPT ![p].mappings = x][p].rate = data[p].rate
         /\ [data EXCEPT ![p].mappings = x][p].rules = data[p].rules
         /\ [data EXCEPT ![p].mappings = x][p].own = data[p].own
         /\ [data EXCEPT ![p].mappings = x][p].mappings = x
         /\ [data EXCEPT ![p].rules = x][p].amount = data[p].amount
         /\ [data EXCEPT ![p].rules = x][p].rate = data[p].rate
         /\ [data EXCEPT ![p].rules = x][p].mappings = data[p].mappings
         /\ [data EXCEPT ![p].rules = x][p].own = data[p].own
         /\ [data EXCEPT ![p].rules = x][p].rules = x
BY DEF TypeOK, Records

LEMMA AmountFields ==
  ASSUME TypeOK, NEW p \in Payments, NEW x, NEW own,
         \/ data' = [data EXCEPT ![p].amount = x] /\ own = data[p].own
         \/ data' = [data EXCEPT ![p].amount = x, ![p].own = own]
  PROVE  /\ data'[p].amount = x /\ data'[p].own = own /\ data'[p].rate = data[p].rate
         /\ data'[p].mappings = data[p].mappings /\ data'[p].rules = data[p].rules
         /\ \A q \in Payments \ {p} : data'[q] = data[q]
BY DEF TypeOK, Records

LEMMA RateAmountFields ==
  ASSUME TypeOK, NEW p \in Payments, NEW rate, NEW x, NEW own,
         data' = [data EXCEPT ![p].rate = rate, ![p].amount = x, ![p].own = own]
  PROVE  /\ data'[p].rate = rate /\ data'[p].amount = x /\ data'[p].own = own
         /\ data'[p].mappings = data[p].mappings /\ data'[p].rules = data[p].rules
         /\ \A q \in Payments \ {p} : data'[q] = data[q]
BY DEF TypeOK, Records

LEMMA RateFields ==
  ASSUME TypeOK, NEW p \in Payments, NEW rate, NEW own,
         data' = [data EXCEPT ![p].rate = rate, ![p].own = own]
  PROVE  /\ data'[p].rate = rate /\ data'[p].amount = data[p].amount /\ data'[p].own = own
         /\ data'[p].mappings = data[p].mappings /\ data'[p].rules = data[p].rules
         /\ \A q \in Payments \ {p} : data'[q] = data[q]
BY DEF TypeOK, Records

LEMMA GotoIs ==
  ASSUME TypeOK, NEW p \in Payments, NEW await, Goto(p, await)
  PROVE  pc'[p] = await /\ \A q \in Payments \ {p} : pc'[q] = pc[q]
BY DEF TypeOK, Goto

(* The outcomes of Convert.                                                *)
Outcome(p, entry, rate, own) ==
    /\ data'[p].rate = rate
    /\ data'[p].mappings = data[p].mappings /\ data'[p].rules = data[p].rules
    /\ \A q \in Payments \ {p} : data'[q] = data[q] /\ pc'[q] = pc[q]
    /\ \/ /\ pc'[p] = "normalized" /\ Fresh(entry, 0)
          /\ data'[p].amount = entry.version /\ data'[p].own = own
       \/ /\ pc'[p] = "normalized" /\ ~appId
          /\ data'[p].amount = Fallback /\ data'[p].own = own
       \/ /\ pc'[p] = "amount_fetch" /\ appId /\ ~Fresh(entry, 1)
          /\ data'[p].amount = data[p].amount
          /\ data'[p].own = IF Fresh(entry, 0) THEN own \cup {"expired"} ELSE own

LEMMA Converted ==
  ASSUME TypeOK, NEW p \in Payments, NEW entry \in {None} \cup Entries, NEW rate, NEW own,
         Convert(p, entry, rate, own)
  PROVE  Outcome(p, entry, rate, own)
<1> USE DEF Outcome
<1>1. PICK late \in {0, 1} :
        \/ /\ Fresh(entry, late) /\ Goto(p, "normalized")
           /\ data' = [data EXCEPT ![p].rate = rate, ![p].amount = entry.version, ![p].own = own]
        \/ /\ ~appId /\ Goto(p, "normalized")
           /\ data' = [data EXCEPT ![p].rate = rate, ![p].amount = Fallback, ![p].own = own]
        \/ /\ appId /\ ~Fresh(entry, late) /\ Goto(p, "amount_fetch")
           /\ data' = [data EXCEPT ![p].rate = rate,
                  ![p].own = IF Fresh(entry, 0) THEN own \cup {"expired"} ELSE own]
  BY DEF Convert
<1>2. (Fresh(entry, late) => Fresh(entry, 0)) /\ (Fresh(entry, 1) => Fresh(entry, late))
  BY MarksAreNoData, LoadsAreShort DEF Fresh, Entries
<1>3. CASE /\ Fresh(entry, late) /\ Goto(p, "normalized")
           /\ data' = [data EXCEPT ![p].rate = rate, ![p].amount = entry.version, ![p].own = own]
  <2> DEFINE x == entry.version
  <2>1. data' = [data EXCEPT ![p].rate = rate, ![p].amount = x, ![p].own = own]
    BY <1>3
  <2> HIDE DEF x
  <2>2. /\ data'[p].rate = rate /\ data'[p].amount = x /\ data'[p].own = own
        /\ data'[p].mappings = data[p].mappings /\ data'[p].rules = data[p].rules
        /\ \A q \in Payments \ {p} : data'[q] = data[q]
    BY <2>1, RateAmountFields
  <2>3. pc'[p] = "normalized" /\ \A q \in Payments \ {p} : pc'[q] = pc[q]
    BY <1>3, GotoIs
  <2> QED BY <1>2, <1>3, <2>2, <2>3 DEF x
<1>4. CASE /\ ~appId /\ Goto(p, "normalized")
           /\ data' = [data EXCEPT ![p].rate = rate, ![p].amount = Fallback, ![p].own = own]
  <2> DEFINE x == Fallback
  <2>1. data' = [data EXCEPT ![p].rate = rate, ![p].amount = x, ![p].own = own]
    BY <1>4
  <2> HIDE DEF x
  <2>2. /\ data'[p].rate = rate /\ data'[p].amount = x /\ data'[p].own = own
        /\ data'[p].mappings = data[p].mappings /\ data'[p].rules = data[p].rules
        /\ \A q \in Payments \ {p} : data'[q] = data[q]
    BY <2>1, RateAmountFields
  <2>3. pc'[p] = "normalized" /\ \A q \in Payments \ {p} : pc'[q] = pc[q]
    BY <1>4, GotoIs
  <2> QED BY <1>4, <2>2, <2>3 DEF x
<1>5. CASE /\ appId /\ ~Fresh(entry, late) /\ Goto(p, "amount_fetch")
           /\ data' = [data EXCEPT ![p].rate = rate,
                  ![p].own = IF Fresh(entry, 0) THEN own \cup {"expired"} ELSE own]
  <2> DEFINE x == IF Fresh(entry, 0) THEN own \cup {"expired"} ELSE own
  <2>1. data' = [data EXCEPT ![p].rate = rate, ![p].own = x]
    BY <1>5
  <2> HIDE DEF x
  <2>2. /\ data'[p].rate = rate /\ data'[p].amount = data[p].amount /\ data'[p].own = x
        /\ data'[p].mappings = data[p].mappings /\ data'[p].rules = data[p].rules
        /\ \A q \in Payments \ {p} : data'[q] = data[q]
    BY <2>1, RateFields
  <2>3. pc'[p] = "amount_fetch" /\ \A q \in Payments \ {p} : pc'[q] = pc[q]
    BY <1>5, GotoIs
  <2> QED BY <1>2, <1>5, <2>2, <2>3 DEF x
<1> QED BY <1>1, <1>3, <1>4, <1>5

LEMMA OthersKeep ==
  ASSUME TypeOK, \A q \in Payments : RecordInv(q), NEW p \in Payments,
         \A q \in Payments \ {p} : data'[q] = data[q] /\ pc'[q] = pc[q],
         RecordInv(p)'
  PROVE  \A q \in Payments : RecordInv(q)'
BY DEF RecordInv

(* The rates a payment falls back on are typed like an entry.              *)
LEMMA CachedRates ==
  ASSUME TypeOK PROVE cache["rates"] \in {None} \cup Entries
BY DEF TypeOK, Sources

LEMMA StepRecords ==
  ASSUME TypeOK, CacheInv, \A p \in Payments : RecordInv(p), [Next]_vars
  PROVE  \A p \in Payments : RecordInv(p)'
<1>1. ASSUME NEW p \in Payments, Arrive(p) PROVE \A q \in Payments : RecordInv(q)'
  <2>1. data'[p] = Blank /\ \A q \in Payments \ {p} : data'[q] = data[q]
    BY <1>1 DEF Arrive, TypeOK
  <2>2. pc'[p] = "received" /\ \A q \in Payments \ {p} : pc'[q] = pc[q]
    BY <1>1, GotoIs DEF Arrive
  <2> QED BY <2>1, <2>2, OthersKeep DEF RecordInv, Blank
<1>2. ASSUME NEW p \in Payments,
             \/ Translate(p) \/ MappingsLoaded(p)
             \/ Route(p) \/ RulesLoaded(p) \/ LoadFailed(p)
      PROVE  \A q \in Payments : RecordInv(q)'
  <2>1. \/ data' = data \/ (\E x : data' = [data EXCEPT ![p].mappings = x])
        \/ \E x : data' = [data EXCEPT ![p].rules = x]
    BY <1>2 DEF Translate, MappingsLoaded, Route, RulesLoaded, LoadFailed
  <2>2. /\ data'[p].amount = data[p].amount /\ data'[p].rate = data[p].rate
        /\ data'[p].own = data[p].own
    <3>1. CASE data' = data
      BY <3>1
    <3>2. CASE \E x : data' = [data EXCEPT ![p].mappings = x]
      <4>1. PICK x : data' = [data EXCEPT ![p].mappings = x]
        BY <3>2
      <4> QED BY <4>1 DEF TypeOK, Records
    <3>3. CASE \E x : data' = [data EXCEPT ![p].rules = x]
      <4>1. PICK x : data' = [data EXCEPT ![p].rules = x]
        BY <3>3
      <4> QED BY <4>1 DEF TypeOK, Records
    <3> QED BY <2>1, <3>1, <3>2, <3>3
  <2>3. \A q \in Payments \ {p} : data'[q] = data[q]
    BY <2>1 DEF TypeOK
  <2>4. \E await : Goto(p, await) /\ await \in {"translated", "mapping_load", "routed", "rules_load", "failed"}
    BY <1>2 DEF Translate, MappingsLoaded, Route, RulesLoaded, LoadFailed
  <2>5. /\ pc'[p] \in {"translated", "mapping_load", "routed", "rules_load", "failed"}
        /\ \A q \in Payments \ {p} : pc'[q] = pc[q]
    BY <2>4, GotoIs
  <2>6. pc'[p] \in {"translated", "mapping_load"} => pc[p] \in {"received", "mapping_load"}
    <3>1. CASE Translate(p) \/ MappingsLoaded(p)
      BY <3>1 DEF Translate, MappingsLoaded, Got
    <3>2. CASE Route(p) \/ RulesLoaded(p) \/ LoadFailed(p)
      <4>1. PICK await \in {"routed", "rules_load", "failed"} : Goto(p, await)
        BY <3>2 DEF Route, RulesLoaded, LoadFailed
      <4>2. pc'[p] = await
        BY <4>1, GotoIs
      <4> QED BY <4>2
    <3> QED BY <1>2, <3>1, <3>2
  <2> QED BY <2>2, <2>3, <2>5, <2>6, OthersKeep DEF RecordInv
<1>3. ASSUME NEW p \in Payments, Normalize(p) PROVE \A q \in Payments : RecordInv(q)'
  <2>1. data[p].amount = None /\ pc[p] = "translated"
    BY <1>3 DEF Normalize, RecordInv
  <2>2. CASE UNCHANGED data /\ \E await \in {"normalized", "rate_fetch"} : Goto(p, await)
    <3>1. /\ pc'[p] \in {"normalized", "rate_fetch"}
          /\ \A q \in Payments \ {p} : pc'[q] = pc[q]
      BY <2>2, GotoIs
    <3> QED BY <2>1, <2>2, <3>1, OthersKeep DEF RecordInv
  <2>3. CASE Fresh(cache["rates"], 0) /\ Convert(p, cache["rates"], cache["rates"].version, {})
    <3>1. appId
      BY <2>3 DEF CacheInv, FallbackOnly, Fresh
    <3> DEFINE entry == cache["rates"]
    <3>2. Outcome(p, entry, entry.version, {})
      BY <2>3, CachedRates, Converted
    <3>3. /\ data'[p].rate = entry.version
          /\ \A q \in Payments \ {p} : data'[q] = data[q] /\ pc'[q] = pc[q]
          /\ \/ pc'[p] = "normalized" /\ data'[p].amount = entry.version
             \/ /\ pc'[p] = "amount_fetch" /\ data'[p].amount = data[p].amount
                /\ data'[p].own # {}
      BY <2>3, <3>1, <3>2 DEF Outcome
    <3> HIDE DEF entry
    <3>4. RecordInv(p)'
      BY <2>1, <3>3 DEF RecordInv
    <3> QED BY <3>3, <3>4, OthersKeep
  <2>4. CASE ~Fresh(cache["rates"], 0) /\ ~appId /\ Convert(p, cache["rates"], Fallback, {})
    <3>1. /\ pc'[p] = "normalized" /\ data'[p].amount = Fallback /\ data'[p].rate = Fallback
          /\ \A q \in Payments \ {p} : data'[q] = data[q] /\ pc'[q] = pc[q]
      <4>1. Outcome(p, cache["rates"], Fallback, {})
        BY <2>4, CachedRates, Converted
      <4> QED BY <2>4, <4>1 DEF Outcome, Fresh
    <3> QED BY <3>1, OthersKeep DEF RecordInv
  <2> QED BY <1>3, <2>2, <2>3, <2>4 DEF Normalize
<1>4. ASSUME NEW p \in Payments, Answer(p) PROVE \A q \in Payments : RecordInv(q)'
  BY <1>4 DEF Answer, RecordInv
<1>5. ASSUME NEW p \in Payments, RateFetched(p) PROVE \A q \in Payments : RecordInv(q)'
  <2>1. PICK v \in Versions : Convert(p, Stamp(p, v), v, {}) /\ Got(p, "rate_fetch", v)
    BY <1>5 DEF RateFetched
  <2>2. appId
    BY <2>1, LoadingIs DEF Got, CacheInv, FallbackOnly, LoadOf
  <2>3. Fresh(Stamp(p, v), 1) /\ Stamp(p, v) \in Entries /\ Stamp(p, v).version = v
    BY FetchedIsFresh, LoadsAreShort DEF Stamp, Entries, TypeOK, Calls
  <2>4. /\ pc'[p] = "normalized" /\ data'[p].amount = v /\ data'[p].rate = v
        /\ \A q \in Payments \ {p} : data'[q] = data[q] /\ pc'[q] = pc[q]
    <3>1. Outcome(p, Stamp(p, v), v, {})
      BY <2>1, <2>3, Converted
    <3> QED BY <2>2, <2>3, <3>1 DEF Outcome
  <2> QED BY <2>4, OthersKeep DEF RecordInv
<1>6. ASSUME NEW p \in Payments, RateFailed(p) PROVE \A q \in Payments : RecordInv(q)'
  <2>1. /\ pc'[p] = "amount_fetch" => data'[p].amount = data[p].amount
        /\ data'[p].own # {} /\ pc'[p] \in {"normalized", "amount_fetch"}
        /\ \A q \in Payments \ {p} : data'[q] = data[q] /\ pc'[q] = pc[q]
    <3>1. Outcome(p, cache["rates"], LastRates, {"failed"})
      BY <1>6, CachedRates, Converted DEF RateFailed
    <3> QED BY <3>1 DEF Outcome
  <2>2. data[p].amount = None
    BY <1>6 DEF RateFailed, Got, RecordInv
  <2> QED BY <2>1, <2>2, OthersKeep DEF RecordInv
<1>7. ASSUME NEW p \in Payments, AmountFetched(p) \/ AmountFailed(p)
      PROVE  \A q \in Payments : RecordInv(q)'
  <2>1. data[p].own # {}
    BY <1>7 DEF AmountFetched, AmountFailed, Got, RecordInv
  <2>2. /\ data'[p].own # {} /\ \A q \in Payments \ {p} : data'[q] = data[q]
    <3>1. CASE AmountFetched(p)
      <4>1. PICK v \in Versions : data' = [data EXCEPT ![p].amount = v]
        BY <3>1 DEF AmountFetched
      <4>2. data'[p].own = data[p].own /\ \A q \in Payments \ {p} : data'[q] = data[q]
        BY <4>1 DEF TypeOK, Records
      <4> QED BY <2>1, <4>2
    <3>2. CASE AmountFailed(p)
      <4>1. PICK x, own : /\ data' = [data EXCEPT ![p].amount = x, ![p].own = own]
                          /\ own = data[p].own \cup {"failed"}
        BY <3>2, Zenon DEF AmountFailed
      <4>2. data'[p].own = own /\ \A q \in Payments \ {p} : data'[q] = data[q]
        BY <4>1 DEF TypeOK, Records
      <4> QED BY <4>1, <4>2
    <3> QED BY <1>7, <3>1, <3>2
  <2>3. pc'[p] = "normalized" /\ \A q \in Payments \ {p} : pc'[q] = pc[q]
    BY <1>7, GotoIs DEF AmountFetched, AmountFailed
  <2> QED BY <2>2, <2>3, OthersKeep DEF RecordInv
<1>8. ASSUME (\E s \in Sources : Change(s)) \/ Tick \/ UNCHANGED vars
      PROVE  \A q \in Payments : RecordInv(q)'
  BY <1>8 DEF Change, Tick, vars, RecordInv
<1> QED BY <1>1, <1>2, <1>3, <1>4, <1>5, <1>6, <1>7, <1>8 DEF Next, Step

(* The strengthened invariant holds in every state: what is current, what  *)
(* is cached and what is under way agree about versions and times through  *)
(* every interleaving of loads, changes and ticks (mapping-loader.ts:26,   *)
(* fx-service.ts:80 and 117, rule-loader.ts:18).                           *)
THEOREM InductiveInvariant == Spec => []IInv
<1>1. ASSUME IInv, [Next]_vars PROVE IInv'
  <2>1. TypeOK /\ CacheInv /\ \A p \in Payments : RecordInv(p)
    BY <1>1, RecordInvs DEF IInv, CacheInv
  <2>2. TypeOK' /\ CacheInv' /\ \A p \in Payments : RecordInv(p)'
    BY <1>1, <2>1, StepTypes, StepCaches, StepRecords
  <2>3. (AmountIsLast /\ RateAndAmountAgree)'
    BY <2>2, RecordInvs DEF AmountIsLast, RateAndAmountAgree, RecordInv
  <2> QED BY <2>2, <2>3 DEF IInv, CacheInv
<1> QED BY <1>1, InitInv, PTL DEF Spec

(* A fresh entry is explained by its age and the load that brought it,     *)
(* whoever else loads the table meanwhile (mapping-loader.ts:26-46,        *)
(* fx-service.ts:80-124, rule-loader.ts:18-26).                            *)
THEOREM EntriesTruthful == Spec => []EntriesAgeTruthfully
BY InductiveInvariant, PTL DEF IInv

(* Rate and amount of a payment differ only for a reason on its record     *)
(* (currency-rules.ts:46-47).                                              *)
THEOREM RecordsOfOnePiece == Spec => []RateAndAmountAgree
BY InductiveInvariant, PTL DEF IInv
-----------------------------------------------------------------------------
(* The steps.                                                              *)

(* What a step does to the cache of a table.                               *)
LEMMA CacheMoves ==
  ASSUME TypeOK, [Next]_vars, NEW s \in Sources
  PROVE  \/ cache'[s] = cache[s]
         \/ cache'[s].version = cache[s].version
         \/ \E p \in Payments, v \in Versions : LoadsOf(p, s, v) /\ cache'[s].version = v
<1>1. ASSUME NEW p \in Payments,
             \/ Arrive(p) \/ Translate(p) \/ Normalize(p) \/ Route(p) \/ Answer(p)
             \/ LoadFailed(p) \/ RateFailed(p) \/ AmountFailed(p)
      PROVE  cache' = cache
  BY <1>1 DEF Arrive, Translate, Normalize, Route, Answer, LoadFailed, RateFailed, AmountFailed,
              StoreNothing
<1>2. ASSUME NEW p \in Payments, NEW v \in Versions, NEW await \in Loading, Got(p, await, v),
             NEW age, Store(p, Loads[await], [version |-> v, age |-> age])
      PROVE  \/ cache'[s] = cache[s]
             \/ LoadsOf(p, s, v) /\ cache'[s].version = v
  BY <1>2, LoadingIs DEF Got, Store, LoadsOf, LoadOf, TypeOK
<1>3. ASSUME NEW p \in Payments,
             MappingsLoaded(p) \/ RulesLoaded(p) \/ RateFetched(p) \/ AmountFetched(p)
      PROVE  \E v \in Versions, await \in Loading : \E age :
                Got(p, await, v) /\ Store(p, Loads[await], [version |-> v, age |-> age])
  <2>1. CASE MappingsLoaded(p)
    BY <2>1, LoadingIs DEF MappingsLoaded
  <2>2. CASE RulesLoaded(p)
    BY <2>2, LoadingIs DEF RulesLoaded
  <2>3. CASE RateFetched(p)
    BY <2>3, LoadingIs DEF RateFetched, Stamp
  <2>4. CASE AmountFetched(p)
    BY <2>4, LoadingIs DEF AmountFetched, Stamp
  <2> QED BY <1>3, <2>1, <2>2, <2>3, <2>4
<1>4. ASSUME (\E t \in Sources : Change(t)) \/ UNCHANGED vars PROVE cache' = cache
  BY <1>4 DEF Change, vars
<1>5. ASSUME Tick PROVE cache'[s] = cache[s] \/ cache'[s].version = cache[s].version
  BY <1>5 DEF Tick, TypeOK, Entries
<1> QED BY <1>1, <1>2, <1>3, <1>4, <1>5 DEF Next, Step

(* A cache goes back to an older version only by a load that another one   *)
(* has overtaken: the three loaders write it after an await without        *)
(* looking (mapping-loader.ts:44, fx-service.ts:117, rule-loader.ts:24).   *)
THEOREM BackOnlyByOverlap == Spec => CachesGoBackOnlyByOverlap
<1>1. ASSUME IInv, [Next]_vars, NEW s \in Sources,
             cache[s] # None, cache'[s].version < cache[s].version
      PROVE  \E p \in overtaken : LoadOf(p, s)
  <2>1. TypeOK /\ AnswersAreRecent /\ cache[s].version \in Int
    BY <1>1, BoundsAreNumbers DEF IInv, TypeOK, Entries, Versions
  <2>2. PICK p \in Payments, v \in Versions : LoadsOf(p, s, v) /\ cache'[s].version = v
    BY <1>1, <2>1, CacheMoves
  <2>3. cache[s].version > v
    BY <1>1, <2>1, <2>2, BoundsAreNumbers DEF Versions
  <2> QED BY <1>1, <2>1, <2>2, <2>3 DEF AnswersAreRecent, LoadsOf
<1>2. ASSUME IInv, [Next]_vars
      PROVE  [\A s \in Sources :
                cache[s] # None /\ cache'[s].version < cache[s].version =>
                    \E p \in overtaken : LoadOf(p, s)]_vars
  BY <1>1, <1>2
<1> QED BY <1>2, InductiveInvariant, PTL DEF Spec, CachesGoBackOnlyByOverlap

(* What p gets in a step is no older than promised.                        *)
Prepared(p) ==
    /\ Uses(p, "mappings") => retired["mappings"][data'[p].mappings] < TTL + MaxLoad
    /\ Uses(p, "rules") => retired["rules"][data'[p].rules] < TTL + MaxLoad
    /\ Uses(p, "rate") /\ "failed" \notin data'[p].own => retired["rates"][data'[p].rate] < TTL
    /\ Uses(p, "amount") /\ "failed" \notin data'[p].own => retired["rates"][data'[p].amount] < TTL

LEMMA FreshIsRecent ==
  ASSUME TypeOK, CacheInv, NEW s \in Sources, Fresh(cache[s], 0)
  PROVE  retired[s][cache[s].version] < TTL + Slack(s)
<1>1. retired[s][cache[s].version] <= cache[s].age + Slack(s)
  BY DEF CacheInv, EntriesAgeTruthfully
<1>2. cache[s].age < TTL /\ cache[s].age \in Int /\ cache[s].version \in Versions
  BY DEF Fresh, TypeOK, Entries
<1>3. retired[s][cache[s].version] \in Int /\ Slack(s) \in Int /\ TTL \in Int
  BY <1>2, LoadsAreShort DEF TypeOK, Horizon, Slack
<1> QED BY <1>1, <1>2, <1>3

LEMMA AnswerIsRecent ==
  ASSUME TypeOK, CacheInv, NEW p \in Payments, NEW await \in Loading, NEW v \in Versions,
         Got(p, await, v)
  PROVE  retired[Loads[await]][v] < TTL /\ retired[Loads[await]][v] < TTL + MaxLoad
BY GotAnswer, LoadsAreShort

(* None of the marks that stand in for a version is one.                   *)
LEMMA MarksAreNoVersions == None \notin Versions /\ Fallback \notin Versions
BY MarksAreNoData DEF Versions, Fallback

LEMMA OthersPrepared ==
  ASSUME NEW p \in Payments, \A q \in Payments \ {p} : data'[q] = data[q], Prepared(p)
  PROVE  \A q \in Payments : Prepared(q)
BY DEF Prepared, Uses

LEMMA StepPrepared ==
  ASSUME TypeOK, CacheInv, [Next]_vars
  PROVE  \A p \in Payments : Prepared(p)
<1> {"mappings", "rates", "rules"} = Sources
  BY DEF Sources
<1>1. ASSUME NEW p \in Payments, Arrive(p) PROVE \A q \in Payments : Prepared(q)
  <2>1. data'[p] = Blank /\ \A q \in Payments \ {p} : data'[q] = data[q]
    BY <1>1 DEF Arrive, TypeOK
  <2> QED BY <2>1, MarksAreNoVersions, OthersPrepared DEF Prepared, Uses, Blank
<1>2. ASSUME data' = data PROVE \A q \in Payments : Prepared(q)
  BY <1>2 DEF Prepared, Uses
<1>3. ASSUME NEW p \in Payments, NEW v, data' = [data EXCEPT ![p].mappings = v],
             retired["mappings"][v] < TTL + MaxLoad
      PROVE  \A q \in Payments : Prepared(q)
  <2>1. /\ data'[p].mappings = v /\ data'[p].rules = data[p].rules
        /\ data'[p].rate = data[p].rate /\ data'[p].amount = data[p].amount
        /\ \A q \in Payments \ {p} : data'[q] = data[q]
    BY <1>3 DEF TypeOK, Records
  <2> QED BY <1>3, <2>1, OthersPrepared DEF Prepared, Uses
<1>4. ASSUME NEW p \in Payments, NEW v, data' = [data EXCEPT ![p].rules = v],
             retired["rules"][v] < TTL + MaxLoad
      PROVE  \A q \in Payments : Prepared(q)
  <2>1. /\ data'[p].rules = v /\ data'[p].mappings = data[p].mappings
        /\ data'[p].rate = data[p].rate /\ data'[p].amount = data[p].amount
        /\ \A q \in Payments \ {p} : data'[q] = data[q]
    BY <1>4 DEF TypeOK, Records
  <2> QED BY <1>4, <2>1, OthersPrepared DEF Prepared, Uses
<1>5. ASSUME NEW p \in Payments, Translate(p) PROVE \A q \in Payments : Prepared(q)
  <2>1. CASE data' = data
    BY <1>2, <2>1
  <2>2. CASE /\ Fresh(cache["mappings"], 0)
             /\ data' = [data EXCEPT ![p].mappings = cache["mappings"].version]
    <3>1. retired["mappings"][cache["mappings"].version] < TTL + MaxLoad
      BY <2>2, FreshIsRecent DEF Slack
    <3> QED BY <1>3, <2>2, <3>1
  <2> QED BY <1>5, <2>1, <2>2 DEF Translate
<1>6. ASSUME NEW p \in Payments, Route(p) PROVE \A q \in Payments : Prepared(q)
  <2>1. CASE data' = data
    BY <1>2, <2>1
  <2>2. CASE /\ Fresh(cache["rules"], 0)
             /\ data' = [data EXCEPT ![p].rules = cache["rules"].version]
    <3>1. retired["rules"][cache["rules"].version] < TTL + MaxLoad
      BY <2>2, FreshIsRecent DEF Slack
    <3> QED BY <1>4, <2>2, <3>1
  <2> QED BY <1>6, <2>1, <2>2 DEF Route
<1>7. ASSUME NEW p \in Payments, MappingsLoaded(p) PROVE \A q \in Payments : Prepared(q)
  <2>1. PICK v \in Versions : /\ Got(p, "mapping_load", v)
                             /\ data' = [data EXCEPT ![p].mappings = v]
    BY <1>7 DEF MappingsLoaded
  <2>2. retired["mappings"][v] < TTL + MaxLoad
    BY <2>1, AnswerIsRecent, LoadingIs
  <2> QED BY <1>3, <2>1, <2>2
<1>8. ASSUME NEW p \in Payments, RulesLoaded(p) PROVE \A q \in Payments : Prepared(q)
  <2>1. PICK v \in Versions : /\ Got(p, "rules_load", v)
                             /\ data' = [data EXCEPT ![p].rules = v]
    BY <1>8 DEF RulesLoaded
  <2>2. retired["rules"][v] < TTL + MaxLoad
    BY <2>1, AnswerIsRecent, LoadingIs
  <2> QED BY <1>4, <2>1, <2>2
<1>9. ASSUME NEW p \in Payments, NEW entry \in {None} \cup Entries, NEW rate, NEW own,
             Outcome(p, entry, rate, own),
             \/ "failed" \in own
             \/ /\ rate \in Versions => retired["rates"][rate] < TTL
                /\ Fresh(entry, 0) => retired["rates"][entry.version] < TTL
      PROVE  \A q \in Payments : Prepared(q)
  <2>1. /\ data'[p].mappings = data[p].mappings /\ data'[p].rules = data[p].rules
        /\ data'[p].rate = rate /\ ("failed" \in own => "failed" \in data'[p].own)
        /\ \/ data'[p].amount = data[p].amount
           \/ data'[p].amount = Fallback
           \/ Fresh(entry, 0) /\ data'[p].amount = entry.version
        /\ \A q \in Payments \ {p} : data'[q] = data[q]
    BY <1>9 DEF Outcome
  <2>2. Prepared(p)
    BY <1>9, <2>1, MarksAreNoVersions DEF Prepared, Uses
  <2> QED BY <2>1, <2>2, OthersPrepared
<1>10. ASSUME NEW p \in Payments, Normalize(p) PROVE \A q \in Payments : Prepared(q)
  <2>1. CASE data' = data
    BY <1>2, <2>1
  <2> DEFINE entry == cache["rates"]
  <2>2. CASE Fresh(entry, 0) /\ Convert(p, entry, entry.version, {})
    <3>1. retired["rates"][entry.version] < TTL
      BY <2>2, FreshIsRecent, LoadsAreShort DEF Slack
    <3>2. Outcome(p, entry, entry.version, {})
      BY <2>2, CachedRates, Converted
    <3>3. entry \in {None} \cup Entries
      BY CachedRates
    <3> HIDE DEF entry
    <3> QED BY <1>9, <3>1, <3>2, <3>3
  <2>3. CASE ~Fresh(entry, 0) /\ Convert(p, entry, Fallback, {})
    <3>1. Outcome(p, entry, Fallback, {})
      BY <2>3, CachedRates, Converted
    <3>2. entry \in {None} \cup Entries
      BY CachedRates
    <3> HIDE DEF entry
    <3> QED BY <1>9, <2>3, <3>1, <3>2, MarksAreNoVersions
  <2> QED BY <1>10, <2>1, <2>2, <2>3 DEF Normalize
<1>11. ASSUME NEW p \in Payments, RateFetched(p) PROVE \A q \in Payments : Prepared(q)
  <2>1. PICK v \in Versions : Convert(p, Stamp(p, v), v, {}) /\ Got(p, "rate_fetch", v)
    BY <1>11 DEF RateFetched
  <2>2. Stamp(p, v) \in Entries /\ Stamp(p, v).version = v
    BY LoadsAreShort DEF Stamp, Entries, TypeOK, Calls
  <2>3. Outcome(p, Stamp(p, v), v, {})
    BY <2>1, <2>2, Converted
  <2>4. retired["rates"][v] < TTL
    BY <2>1, AnswerIsRecent, LoadingIs
  <2> QED BY <1>9, <2>2, <2>3, <2>4
<1>12. ASSUME NEW p \in Payments, RateFailed(p) PROVE \A q \in Payments : Prepared(q)
  <2>1. Outcome(p, cache["rates"], LastRates, {"failed"})
    BY <1>12, CachedRates, Converted DEF RateFailed
  <2> QED BY <1>9, <2>1, CachedRates
<1>13. ASSUME NEW p \in Payments, AmountFetched(p) PROVE \A q \in Payments : Prepared(q)
  <2>1. PICK v \in Versions : /\ Got(p, "amount_fetch", v)
                             /\ data' = [data EXCEPT ![p].amount = v]
    BY <1>13 DEF AmountFetched
  <2>2. retired["rates"][v] < TTL
    BY <2>1, AnswerIsRecent, LoadingIs
  <2>3. /\ data'[p].amount = v /\ data'[p].mappings = data[p].mappings
        /\ data'[p].rate = data[p].rate /\ data'[p].rules = data[p].rules
        /\ \A q \in Payments \ {p} : data'[q] = data[q]
    BY <2>1 DEF TypeOK, Records
  <2> QED BY <2>2, <2>3, OthersPrepared DEF Prepared, Uses
<1>14. ASSUME NEW p \in Payments, AmountFailed(p) PROVE \A q \in Payments : Prepared(q)
  <2>1. PICK x, own : /\ data' = [data EXCEPT ![p].amount = x, ![p].own = own]
                      /\ own = data[p].own \cup {"failed"}
    BY <1>14, Zenon DEF AmountFailed
  <2>2. /\ data'[p].own = own /\ data'[p].mappings = data[p].mappings
        /\ data'[p].rate = data[p].rate /\ data'[p].rules = data[p].rules
        /\ \A q \in Payments \ {p} : data'[q] = data[q]
    BY <2>1 DEF TypeOK, Records
  <2> QED BY <2>1, <2>2, OthersPrepared DEF Prepared, Uses
<1>15. ASSUME \/ \E p \in Payments : Answer(p) \/ LoadFailed(p)
              \/ \E s \in Sources : Change(s)
              \/ Tick \/ UNCHANGED vars
       PROVE  data' = data
  BY <1>15 DEF Answer, LoadFailed, Change, Tick, vars
<1> QED BY <1>1, <1>2, <1>5, <1>6, <1>7, <1>8, <1>10, <1>11, <1>12, <1>13, <1>14, <1>15
        DEF Next, Step

(* Mappings, rules and rates that have been withdrawn for longer than the  *)
(* caches promise reach no payment, except the last rates after a failed   *)
(* fetch (mapping-loader.ts:26, fx-service.ts:81-124, rule-loader.ts:18).  *)
THEOREM RecentDataOnly == Spec => PreparedWithRecentData
<1>1. ASSUME IInv, [Next]_vars PROVE \A p \in Payments : Prepared(p)
  BY <1>1, StepPrepared DEF IInv, CacheInv
<1>2. ASSUME IInv, [Next]_vars
      PROVE  [\A p \in Payments :
        /\ Uses(p, "mappings") => retired["mappings"][data'[p].mappings] < TTL + MaxLoad
        /\ Uses(p, "rules") => retired["rules"][data'[p].rules] < TTL + MaxLoad
        /\ Uses(p, "rate") /\ "failed" \notin data'[p].own => retired["rates"][data'[p].rate] < TTL
        /\ Uses(p, "amount") /\ "failed" \notin data'[p].own =>
              retired["rates"][data'[p].amount] < TTL]_vars
  BY <1>1, <1>2 DEF Prepared
<1> QED BY <1>2, InductiveInvariant, PTL DEF Spec, PreparedWithRecentData
=============================================================================

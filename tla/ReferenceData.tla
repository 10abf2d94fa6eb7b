---------------------------- MODULE ReferenceData ----------------------------
(* The data a payment is prepared with, and the caches in front of it:     *)
(* mappings of a rail (translation/mapping-loader.ts), exchange rates      *)
(* (fx/fx-service.ts) and route rules (routing/rule-loader.ts). The        *)
(* pipelines of several payments share the caches; nothing keeps two of    *)
(* them from loading the same table at the same time.                      *)
(*                                                                         *)
(* A table is known by its version: how often its owner (the operator of   *)
(* the database, the market) has changed it. Time goes in ticks; ages are  *)
(* counted up to the point from which no condition tells them apart.       *)
EXTENDS Integers

CONSTANTS
    Payments,    \* payments under way at the same time
    None,        \* no entry, no answer, no version
    Rejected,    \* the answer of a load that failed
    Needs,       \* sets of the tables payments may need besides the rules
    TTL,         \* TTL_MS, CACHE_TTL_MS: ticks for which an entry is fresh
    MaxLoad,     \* ticks a load takes at most
    MaxChanges,  \* bound: changes of all tables
    MaxFailures  \* bound: rejected queries and fetches

ASSUME LoadsAreShort == /\ TTL \in Nat /\ MaxLoad \in Nat
                        /\ MaxLoad + 1 < TTL
ASSUME NeedsAreTables == Needs \subseteq SUBSET {"mappings", "rates"}
ASSUME BoundsAreNumbers == MaxChanges \in Nat /\ MaxFailures \in Nat

Versions == 0 .. MaxChanges
Entries == [version : Versions, age : 0 .. TTL]

ASSUME MarksAreNoData == /\ None \notin Int /\ Rejected \notin Int /\ None # Rejected
                         /\ None \notin Entries

Sources == {"mappings", "rates", "rules"}
Fallback == -1  \* FALLBACK_RATES
Horizon == TTL + MaxLoad

VARIABLES
    version,   \* the version of each table at its owner
    retired,   \* ticks since a version was replaced
    cache,     \* the entry of each loader: a version and its age
    needs,     \* the tables the payments under way need besides the rules
    appId,     \* whether OPEN_EXCHANGE_RATES_APP_ID is set
    pc,        \* the await at which the preparation of a payment stands
    load,      \* its load: the answer and the time since it began
    overtaken, \* history: payments whose load another one of that table has overtaken
    data,      \* the versions the payment was prepared with
    failures   \* rejected loads so far

vars == <<version, retired, cache, needs, appId, pc, load, overtaken, data, failures>>

Loads == [mapping_load |-> "mappings", rate_fetch |-> "rates",
          amount_fetch |-> "rates", rules_load |-> "rules"]
Loading == DOMAIN Loads

Blank == [mappings |-> None, rate |-> None, amount |-> None, rules |-> None, own |-> {}]
Asked == [answer |-> None, elapsed |-> 0]

Init ==
    /\ version = [s \in Sources |-> 0]
    /\ retired = [s \in Sources |-> [v \in Versions |-> 0]]
    /\ cache = [s \in Sources |-> None]
    /\ needs \in Needs
    /\ appId \in BOOLEAN
    /\ pc = [p \in Payments |-> "idle"]
    /\ load = [p \in Payments |-> Asked]
    /\ overtaken = {}
    /\ data = [p \in Payments |-> Blank]
    /\ failures = 0

(* Wrong variant: an entry is served however old it is.                    *)
FreshForEver(entry, late) == entry # None

(* now - stamp < TTL, when the clock shows late ticks more than the model's. *)
Fresh(entry, late) == entry # None /\ entry.age + late < TTL

Goto(p, await) == pc' = [pc EXCEPT ![p] = await]

(* Payment p is loading the table s.                                       *)
LoadOf(p, s) == pc[p] \in Loading /\ Loads[pc[p]] = s

(* Payment p puts an entry of source s into its cache. Loads of the same   *)
(* table that are still under way do not notice.                           *)
Store(p, s, entry) ==
    /\ cache' = [cache EXCEPT ![s] = entry]
    /\ load' = [load EXCEPT ![p] = Asked]
    /\ overtaken' = (overtaken \cup {q \in Payments : LoadOf(q, s)}) \ {p}
StoreNothing(p) ==
    /\ UNCHANGED cache
    /\ load' = [load EXCEPT ![p] = Asked]
    /\ overtaken' = overtaken \ {p}
-----------------------------------------------------------------------------
(* The steps of a payment.                                                 *)

Arrive(p) ==
    /\ pc[p] \in {"idle", "routed", "failed"}
    /\ Goto(p, "received")
    /\ data' = [data EXCEPT ![p] = Blank]
    /\ UNCHANGED <<version, retired, cache, needs, appId, load, overtaken, failures>>

(* toCanonical up to loadMappings; only the readers of PIX and SPEI        *)
(* requests call it.                                                       *)
Translate(p) ==
    /\ pc[p] = "received"
    /\ \/ "mappings" \notin needs /\ Goto(p, "translated") /\ UNCHANGED data
       \/ /\ "mappings" \in needs /\ Fresh(cache["mappings"], 0)
          /\ Goto(p, "translated")
          /\ data' = [data EXCEPT ![p].mappings = cache["mappings"].version]
       \/ /\ "mappings" \in needs /\ ~Fresh(cache["mappings"], 0)
          /\ Goto(p, "mapping_load") /\ UNCHANGED data
    /\ UNCHANGED <<version, retired, cache, needs, appId, load, overtaken, failures>>

(* Wrong variant: the amount is converted with rates fetched again.        *)
RefetchConvert(p, entry, rate, own) ==
    IF appId THEN Goto(p, "amount_fetch") /\ data' = [data EXCEPT ![p].rate = rate, ![p].own = own]
    ELSE Goto(p, "normalized") /\ data' = [data EXCEPT ![p].rate = rate, ![p].amount = Fallback]

(* normalizeCurrency once getRate has its table: convert reads the clock   *)
(* and the cache, which now holds entry, again before anyone else runs.    *)
Convert(p, entry, rate, own) ==
    \E late \in {0, 1} :
        \/ /\ Fresh(entry, late)
           /\ Goto(p, "normalized")
           /\ data' = [data EXCEPT ![p].rate = rate, ![p].amount = entry.version, ![p].own = own]
        \/ /\ ~Fresh(entry, late) /\ ~appId
           /\ Goto(p, "normalized")
           /\ data' = [data EXCEPT ![p].rate = rate, ![p].amount = Fallback, ![p].own = own]
        \/ /\ ~Fresh(entry, late) /\ appId
           /\ Goto(p, "amount_fetch")
           /\ data' = [data EXCEPT ![p].rate = rate,
                  ![p].own = IF Fresh(entry, 0) THEN own \cup {"expired"} ELSE own]

(* normalizeCurrency up to the fetch of getRate; a payment in the currency *)
(* of its rail needs no rate.                                              *)
Normalize(p) ==
    /\ pc[p] = "translated"
    /\ LET entry == cache["rates"]
       IN  \/ "rates" \notin needs /\ Goto(p, "normalized") /\ UNCHANGED data
           \/ /\ "rates" \in needs /\ Fresh(entry, 0)
              /\ Convert(p, entry, entry.version, {})
           \/ /\ "rates" \in needs /\ ~Fresh(entry, 0) /\ ~appId
              /\ Convert(p, entry, Fallback, {})
           \/ /\ "rates" \in needs /\ ~Fresh(entry, 0) /\ appId
              /\ Goto(p, "rate_fetch") /\ UNCHANGED data
    /\ UNCHANGED <<version, retired, cache, needs, appId, load, overtaken, failures>>

(* resolve up to loadActiveRules. With the rules at hand the preparation   *)
(* ends; what they make of the payment is the matter of RouteEngine.       *)
Route(p) ==
    /\ pc[p] = "normalized"
    /\ \/ /\ Fresh(cache["rules"], 0)
          /\ Goto(p, "routed")
          /\ data' = [data EXCEPT ![p].rules = cache["rules"].version]
       \/ ~Fresh(cache["rules"], 0) /\ Goto(p, "rules_load") /\ UNCHANGED data
    /\ UNCHANGED <<version, retired, cache, needs, appId, load, overtaken, failures>>
-----------------------------------------------------------------------------
(* The database or the exchange answers a load with what it holds, or not  *)
(* at all; the answer reaches the loader later.                            *)
Answer(p) ==
    /\ pc[p] \in Loading /\ load[p].answer = None
    /\ \/ /\ load' = [load EXCEPT ![p].answer = version[Loads[pc[p]]]]
          /\ UNCHANGED failures
       \/ /\ failures < MaxFailures /\ failures' = failures + 1
          /\ load' = [load EXCEPT ![p].answer = Rejected]
    /\ UNCHANGED <<version, retired, cache, needs, appId, pc, overtaken, data>>

Got(p, await, v) == pc[p] = await /\ load[p].answer = v /\ v # None

(* Mappings and rules are stamped when they have arrived; without them the *)
(* payment fails, whatever the cache still holds.                          *)
MappingsLoaded(p) ==
    /\ \E v \in Versions :
          /\ Got(p, "mapping_load", v)
          /\ Store(p, "mappings", [version |-> v, age |-> 0])
          /\ Goto(p, "translated") /\ data' = [data EXCEPT ![p].mappings = v]
    /\ UNCHANGED <<version, retired, needs, appId, failures>>

RulesLoaded(p) ==
    /\ \E v \in Versions :
          /\ Got(p, "rules_load", v)
          /\ Store(p, "rules", [version |-> v, age |-> 0])
          /\ Goto(p, "routed")
          /\ data' = [data EXCEPT ![p].rules = v]
    /\ UNCHANGED <<version, retired, needs, appId, failures>>

LoadFailed(p) ==
    /\ Got(p, "mapping_load", Rejected) \/ Got(p, "rules_load", Rejected)
    /\ StoreNothing(p) /\ Goto(p, "failed")
    /\ UNCHANGED <<version, retired, needs, appId, data, failures>>

(* getRates has its answer. Its stamp is the time before the fetch.        *)
Stamp(p, v) == [version |-> v, age |-> load[p].elapsed]

RateFetched(p) ==
    /\ \E v \in Versions :
          /\ Got(p, "rate_fetch", v)
          /\ Store(p, "rates", Stamp(p, v))
          /\ Convert(p, Stamp(p, v), v, {})
    /\ UNCHANGED <<version, retired, needs, appId, failures>>

AmountFetched(p) ==
    /\ \E v \in Versions :
          /\ Got(p, "amount_fetch", v)
          /\ Store(p, "rates", Stamp(p, v))
          /\ Goto(p, "normalized") /\ data' = [data EXCEPT ![p].amount = v]
    /\ UNCHANGED <<version, retired, needs, appId, failures>>

(* getRates without an answer: this.cache?.rates ?? FALLBACK_RATES, however *)
(* old the entry is.                                                       *)
LastRates == IF cache["rates"] = None THEN Fallback ELSE cache["rates"].version

(* Wrong variant: the rates used instead are kept like fetched ones.       *)
StoringRateFailed(p) ==
    /\ Got(p, "rate_fetch", Rejected)
    /\ Store(p, "rates", [version |-> Fallback, age |-> 0])
    /\ Convert(p, [version |-> Fallback, age |-> 0], Fallback, {"failed"})
    /\ UNCHANGED <<version, retired, needs, appId, failures>>

RateFailed(p) ==
    /\ Got(p, "rate_fetch", Rejected)
    /\ StoreNothing(p)
    /\ Convert(p, cache["rates"], LastRates, {"failed"})
    /\ UNCHANGED <<version, retired, needs, appId, failures>>

AmountFailed(p) ==
    /\ Got(p, "amount_fetch", Rejected)
    /\ StoreNothing(p)
    /\ Goto(p, "normalized")
    /\ data' = [data EXCEPT ![p].amount = LastRates, ![p].own = data[p].own \cup {"failed"}]
    /\ UNCHANGED <<version, retired, needs, appId, failures>>
-----------------------------------------------------------------------------
(* The owner of a table changes it.                                        *)
Change(s) ==
    /\ version["mappings"] + version["rates"] + version["rules"] < MaxChanges
    /\ version' = [version EXCEPT ![s] = @ + 1]
    /\ UNCHANGED <<retired, cache, needs, appId, pc, load, overtaken, data, failures>>

Older(age, cap) == IF age < cap THEN age + 1 ELSE age

(* No load outlasts MaxLoad: a fetch is aborted after five seconds. A query *)
(* has no timeout; that the database answers in time is an assumption.     *)
Tick ==
    /\ \A p \in Payments : pc[p] \in Loading => load[p].elapsed < MaxLoad
    /\ cache' = [s \in Sources |->
          IF cache[s] = None THEN None ELSE [cache[s] EXCEPT !.age = Older(@, TTL)]]
    /\ retired' = [s \in Sources |-> [v \in Versions |->
          IF v < version[s] THEN Older(retired[s][v], Horizon) ELSE 0]]
    /\ load' = [p \in Payments |->
          IF pc[p] \in Loading THEN [load[p] EXCEPT !.elapsed = @ + 1] ELSE load[p]]
    /\ UNCHANGED <<version, needs, appId, pc, overtaken, data, failures>>

Step(p) == \/ Arrive(p) \/ Translate(p) \/ Normalize(p) \/ Route(p) \/ Answer(p)
           \/ MappingsLoaded(p) \/ RulesLoaded(p) \/ LoadFailed(p)
           \/ RateFetched(p) \/ AmountFetched(p) \/ RateFailed(p) \/ AmountFailed(p)

Next == Tick \/ (\E s \in Sources : Change(s)) \/ (\E p \in Payments : Step(p))

Spec == Init /\ [][Next]_vars
=============================================================================

----------------------- MODULE ReferenceDataProperties -----------------------
(* What the caches in front of mappings, rates and rules promise to the    *)
(* payments that are prepared with them.                                   *)
EXTENDS ReferenceData

Awaits == Loading \cup {"idle", "received", "translated", "normalized", "routed", "failed"}
Calls == [answer : {None, Rejected} \cup Versions, elapsed : 0 .. MaxLoad]
Rates == {None, Fallback} \cup Versions
Records == [mappings : {None} \cup Versions, rules : {None} \cup Versions,
            rate : Rates, amount : Rates, own : SUBSET {"failed", "expired"}]

(* The variables hold what their declarations say; no entry holds rates    *)
(* that nobody has published.                                              *)
TypeOK ==
    /\ version \in [Sources -> Versions]
    /\ retired \in [Sources -> [Versions -> 0 .. Horizon]]
    /\ cache \in [Sources -> {None} \cup Entries]
    /\ needs \in Needs /\ appId \in BOOLEAN
    /\ pc \in [Payments -> Awaits]
    /\ load \in [Payments -> Calls] /\ overtaken \subseteq Payments
    /\ data \in [Payments -> Records]
    /\ failures \in 0 .. MaxFailures

(* Mappings and rules are stamped when they arrive, so that a load may have *)
(* made them older than they look; rates are stamped before they are asked *)
(* for.                                                                    *)
Slack(s) == IF s = "rates" THEN 0 ELSE MaxLoad

(* A fresh entry is no staler than its age and the load that brought it    *)
(* explain: the version it holds was replaced no longer ago                *)
(* (rule-loader.ts:24, mapping-loader.ts:44, fx-service.ts:81 and 117).    *)
EntriesAgeTruthfully ==
    \A s \in Sources : Fresh(cache[s], 0) =>
        retired[s][cache[s].version] <= cache[s].age + Slack(s)

(* In this step the field of payment p gets a version of a table.          *)
Uses(p, field) == data'[p][field] # data[p][field] /\ data'[p][field] \in Versions

(* A rule or a mapping that has been withdrawn is used by no payment once  *)
(* TTL and MaxLoad have passed, and a rate no longer than TTL, unless the  *)
(* payment's own fetch failed: getRates then takes the last rates there    *)
(* are, whatever their age (fx-service.ts:123).                            *)
PreparedWithRecentData ==
    [][\A p \in Payments :
        /\ Uses(p, "mappings") => retired["mappings"][data'[p].mappings] < TTL + MaxLoad
        /\ Uses(p, "rules") => retired["rules"][data'[p].rules] < TTL + MaxLoad
        /\ Uses(p, "rate") /\ "failed" \notin data'[p].own => retired["rates"][data'[p].rate] < TTL
        /\ Uses(p, "amount") /\ "failed" \notin data'[p].own => retired["rates"][data'[p].amount] < TTL]_vars

(* A cache returns to an older version only by a load that another one of  *)
(* the same table has overtaken: all three loaders write the cache after   *)
(* an await and none looks whether it has been written meanwhile.          *)
CachesGoBackOnlyByOverlap ==
    [][\A s \in Sources :
        cache[s] # None /\ cache'[s].version < cache[s].version =>
            \E p \in overtaken : LoadOf(p, s)]_vars

(* The fx record of a payment is of one piece, its rate and its amount of  *)
(* the same table, unless one of its own fetches failed or the entry       *)
(* expired between the two readings (currency-rules.ts:46-47).             *)
RateAndAmountAgree ==
    \A p \in Payments : data[p].amount # None /\ data[p].amount # data[p].rate => data[p].own # {}
-----------------------------------------------------------------------------
(* The invariant of the proofs.                                            *)

LoadsOf(p, s, v) == LoadOf(p, s) /\ load[p].answer = v /\ v \in Versions

(* Versions still to come have not been replaced.                          *)
FutureIsUnretired == \A s \in Sources, v \in Versions : v >= version[s] => retired[s][v] = 0

(* Entries and answers are versions their owner has published.             *)
Published ==
    /\ \A s \in Sources : cache[s] # None => cache[s].version <= version[s]
    /\ \A p \in Payments, s \in Sources, v \in Versions : LoadsOf(p, s, v) => v <= version[s]

(* An answer under way was current no longer ago than it was asked for,    *)
(* and only an overtaken one may be older than what the cache holds.       *)
AnswersAreRecent ==
    \A p \in Payments, s \in Sources, v \in Versions : LoadsOf(p, s, v) =>
        /\ retired[s][v] <= load[p].elapsed
        /\ cache[s] # None /\ cache[s].version > v => p \in overtaken

IdleLoads == \A p \in Payments : pc[p] \notin Loading => load[p] = Asked

(* Without an application id nothing is ever fetched.                      *)
FallbackOnly ==
    ~appId => cache["rates"] = None /\ \A p \in Payments : ~LoadOf(p, "rates")

(* The amount of a payment is set with its rate or behind it, and a second *)
(* fetch has its reason on record.                                         *)
AmountIsLast ==
    \A p \in Payments :
        /\ pc[p] \in {"received", "mapping_load", "translated", "rate_fetch", "amount_fetch"} =>
              data[p].amount = None
        /\ pc[p] = "amount_fetch" => data[p].own # {}

IInv == /\ TypeOK /\ FutureIsUnretired /\ Published /\ AnswersAreRecent /\ IdleLoads
        /\ FallbackOnly /\ AmountIsLast /\ EntriesAgeTruthfully /\ RateAndAmountAgree
=============================================================================

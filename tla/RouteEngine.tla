----------------------------- MODULE RouteEngine -----------------------------
(* Where a payment goes (routing/route-engine.ts): the first rule, in the  *)
(* order of their priorities, whose condition the payment meets. A route   *)
(* table is a sequence of rules, in the order the database returned them;  *)
(* a payment is what the conditions look at: amount, currency, country and *)
(* account of the creditor. Texts are values of small sets, upper-cased    *)
(* where the code upper-cases them.                                        *)
EXTENDS Integers, Sequences, FiniteSetsExt

CONSTANTS
    RuleTables,   \* what findActive may return: ORDER BY priority
    RoutePayments,
    Minutes,      \* minutes of the week, in UTC, at which payments are routed
    NoRoute       \* RoutingError

IsRuleTable(table) ==
    /\ Len(table) \in Nat
    /\ DOMAIN table = 1 .. Len(table)
    /\ \A i \in DOMAIN table : table[i].priority \in Int /\ table[i] # NoRoute

ASSUME RulesAreOrdered == \A table \in RuleTables : IsRuleTable(table)

ASSUME MinutesOfTheWeek == Minutes \subseteq 0 .. 7 * 24 * 60 - 1

(* What inferAliasType makes of the account of the creditor, by its shape. *)
(* Nothing else about the payment is consulted, alias.type included.       *)
AliasType(account) ==
    CASE account \in {"PIX- prefix", "11 digits", "14 digits", "+55 phone", "uuid v4"} -> "PIX_KEY"
      [] account \in {"SPEI- prefix", "18 digits"} -> "CLABE"
      [] account \in {"BREB- prefix", "+57 phone", "9 or 10 digits"} -> "LLAVE_BREB"
      [] account = "iban shape" -> "IBAN"
      [] account = "bic shape" -> "BIC"
      [] OTHER -> "ACCOUNT"

(* RAIL_OPERATING_HOURS: days (0 is Sunday), first and last minute of the  *)
(* day, and the distance to UTC in minutes.                                *)
OperatingHours ==
    [PIX   |-> [days |-> 1 .. 6, start |-> 7 * 60, end |-> 23 * 60 + 59, tz |-> -3 * 60],
     SPEI  |-> [days |-> 1 .. 5, start |-> 7 * 60, end |-> 17 * 60 + 30, tz |-> -6 * 60],
     BRE_B |-> [days |-> 1 .. 5, start |-> 6 * 60, end |-> 22 * 60,      tz |-> -5 * 60]]

MinutesOfDay == 24 * 60

(* Wrong variant: the day is the one of UTC.                               *)
UtcDayIsRailOpen(rail, minute) ==
    rail \in DOMAIN OperatingHours =>
        LET hours == OperatingHours[rail]
            time == (minute + hours.tz) % MinutesOfDay
        IN  minute \div MinutesOfDay \in hours.days /\ hours.start <= time /\ time <= hours.end

(* isRailOpen at a minute of the week in UTC. The last minute belongs to   *)
(* the operating hours, and a rail without a schedule is always open.      *)
IsRailOpen(rail, minute) ==
    rail \in DOMAIN OperatingHours =>
        LET hours == OperatingHours[rail]
            local == (minute + hours.tz) % (7 * MinutesOfDay)
            time  == local % MinutesOfDay
        IN  /\ local \div MinutesOfDay \in hours.days
            /\ hours.start <= time /\ time <= hours.end

Matches(rule, payment, minute) ==
    \/ rule.field = "alias.type" /\ rule.value = AliasType(payment.account)
    \/ rule.field = "destination_country" /\ rule.value = payment.country
    \/ rule.field = "availability" /\ rule.value \in {"always", "true"}
    \/ rule.field = "amount.range" /\ payment.amount \in rule.value
    \/ rule.field = "rail.operating_hours" /\ IsRailOpen(rule.value, minute)
    \/ rule.field = "currency" /\ rule.value = payment.currency

(* Where a rule stands in the order of the priorities: a rule of the same  *)
(* priority keeps its place.                                               *)
Before(rules, i, j) ==
    \/ rules[i].priority < rules[j].priority
    \/ rules[i].priority = rules[j].priority /\ i <= j

Rank(rules, i) == Cardinality({j \in DOMAIN rules : Before(rules, j, i)})

(* rules.sort((a, b) => a.priority - b.priority): a stable sort, in place, *)
(* of the array the rule cache holds.                                      *)
ByPriority(rules) ==
    [k \in DOMAIN rules |-> rules[CHOOSE i \in DOMAIN rules : Rank(rules, i) = k]]

(* The places, in the order of evaluation, of the rules a payment meets.   *)
Matching(sorted, payment, minute) ==
    {k \in DOMAIN sorted : Matches(sorted[k], payment, minute)}

(* Wrong variant: the rule that matches last decides.                      *)
LastMatchResolve(rules, payment, minute) ==
    LET sorted   == ByPriority(rules)
        matching == Matching(sorted, payment, minute)
    IN  IF matching = {} THEN NoRoute ELSE sorted[Max(matching)]

(* resolve: the rule a payment is routed by.                               *)
Resolve(rules, payment, minute) ==
    LET sorted   == ByPriority(rules)
        matching == Matching(sorted, payment, minute)
    IN  IF matching = {} THEN NoRoute ELSE sorted[Min(matching)]

VARIABLES
    rules,   \* the rules in the cache
    routing  \* the last payment routed: when, and by which rule

routeVars == <<rules, routing>>

RouteInit ==
    /\ rules \in RuleTables
    /\ routing = [payment |-> NoRoute, minute |-> 0, rule |-> NoRoute]

(* resolve for any payment, at any time. A reload of the rules is another  *)
(* initial state.                                                          *)
RouteOne ==
    /\ \E payment \in RoutePayments, minute \in Minutes :
          routing' = [payment |-> payment, minute |-> minute,
                      rule |-> Resolve(rules, payment, minute)]
    /\ rules' = ByPriority(rules)

RouteSpec == RouteInit /\ [][RouteOne]_routeVars
-----------------------------------------------------------------------------
Candidates ==
    {rule \in Range(rules) : Matches(rule, routing.payment, routing.minute)}

(* A payment is routed by a rule it meets, and by none that has a smaller  *)
(* priority number than another it meets; it has no route only if it meets *)
(* no rule at all (route-engine.ts:23-44).                                 *)
RoutedByBestRule ==
    routing.payment # NoRoute =>
        IF Candidates = {} THEN routing.rule = NoRoute
        ELSE /\ routing.rule \in Candidates
             /\ \A rule \in Candidates : routing.rule.priority <= rule.priority

(* The operating hours of a rail, in minutes of the week in UTC.           *)
OpenMinutes(hours) ==
    {(day * MinutesOfDay + time - hours.tz) % (7 * MinutesOfDay) :
        day \in hours.days, time \in hours.start .. hours.end}

(* A payment is sent to a rail because it is open only when its clock, and *)
(* its calendar, say so: the day of the week is the rail's, not UTC's, and *)
(* its last minute counts (route-engine.ts:105-112). A rail without a      *)
(* schedule has no hours to keep.                                          *)
ClosedRailsAreAvoided ==
    (/\ routing.rule # NoRoute
     /\ routing.rule.field = "rail.operating_hours"
     /\ routing.rule.value \in DOMAIN OperatingHours) =>
        routing.minute \in OpenMinutes(OperatingHours[routing.rule.value])
=============================================================================

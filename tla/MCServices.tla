----------------------------- MODULE MCServices -----------------------------
(* A small instance of Services for TLC.                                   *)
EXTENDS Services

MCStatusOf == [a \in Acks |-> IF a = "a1" THEN "COMPLETED" ELSE "REJECTED"]

MCWatches == [v \in Viewers |-> IF v = "v1" THEN {"p1"} ELSE Updated]

(* Rules of every kind. The first ones are those of the unit tests of the  *)
(* route engine; SWIFT has no operating hours, so it is always open.       *)
MCRules ==
    {[priority |-> 5,  field |-> "alias.type", value |-> "PIX_KEY"],
     [priority |-> 10, field |-> "alias.type", value |-> "CLABE"],
     [priority |-> 5,  field |-> "destination_country", value |-> "MX"],
     [priority |-> 5,  field |-> "rail.operating_hours", value |-> "SPEI"],
     [priority |-> 10, field |-> "rail.operating_hours", value |-> "BRE_B"],
     [priority |-> 15, field |-> "rail.operating_hours", value |-> "SWIFT"],
     [priority |-> 10, field |-> "amount.range", value |-> 0 .. 10],
     [priority |-> 20, field |-> "currency", value |-> "BRL"],
     [priority |-> 30, field |-> "availability", value |-> "always"],
     [priority |-> 1,  field |-> "availability", value |-> "weekdays"]}

(* Tables of up to three rules, in the order of their priorities, those of *)
(* the same priority in either order.                                      *)
MCRuleTables ==
    {table \in UNION {[1 .. n -> MCRules] : n \in 0 .. 3} :
        /\ IsInjective(table)
        /\ \A i, j \in DOMAIN table : i < j => table[i].priority <= table[j].priority}

MCRoutePayments ==
    {[amount |-> 10, currency |-> "BRL", country |-> "BR", account |-> "11 digits"],
     [amount |-> 11, currency |-> "MXN", country |-> "MX", account |-> "18 digits"],
     [amount |-> 11, currency |-> "COP", country |-> "CO", account |-> "9 or 10 digits"],
     [amount |-> 11, currency |-> "USD", country |-> "US", account |-> "e-mail"]}

(* Monday 02:00 (still Sunday on all rails), Friday 23:30 and 23:31 (the   *)
(* last minute of SPEI and the one after), Saturday 03:00 (the last minute *)
(* of BRE_B), all in UTC.                                                  *)
MCMinutes == {1 * 1440 + 120, 5 * 1440 + 1410, 5 * 1440 + 1411, 6 * 1440 + 180}
=============================================================================

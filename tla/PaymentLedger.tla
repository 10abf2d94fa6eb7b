--------------------------- MODULE PaymentLedger ---------------------------
(***************************************************************************)
(* What mipit-core promises about a payment whatever happens to it: its    *)
(* history is an accumulating set of facts (milestone columns, audit       *)
(* events, messages exchanged with the rail), none of which is recorded    *)
(* before the facts that cause it.  Nothing is said of how, when or by     *)
(* whom a fact is recorded, nor of the status column, which the handlers   *)
(* overwrite freely.                                                       *)
(***************************************************************************)
CONSTANT Payments
VARIABLE facts      \* facts[p]: what has happened to payment p

Fact == {"RECEIVED", "VALIDATED", "CANONICALIZED", "ROUTED", "TRANSLATED",
         "QUEUED", "ACKED", "COMPLETED", "FAILED", "DEAD_LETTER",
         "COMPENSATED",
         "PUBLISHED", "RAIL_ACCEPTED", "RAIL_REJECTED", "RAIL_ERRED",
         "RAIL_GAVE_UP",
         "PAYMENT_RECEIVED", "PAYMENT_VALIDATED", "CANONICAL_UPDATED",
         "NORMALIZATION_COMPLETE", "ROUTING_DECISION", "STATUS_CHANGE",
         "PIPELINE_ERROR", "ACK_RECEIVED", "DEAD_LETTER_LOGGED",
         "COMPENSATION_STARTED", "COMPENSATION_REVERSAL_REQUIRED",
         "COMPENSATION_COMPLETED", "COMPENSATION_FAILED"}

(* A set of facts that lacks no cause of any of its members.               *)
CausallyClosed(F) ==
    \* what the pipeline does to the row, and tells the audit trail
    /\ "PAYMENT_RECEIVED" \in F       => "RECEIVED" \in F
    /\ "VALIDATED" \in F              => "PAYMENT_RECEIVED" \in F
    /\ "PAYMENT_VALIDATED" \in F      => "VALIDATED" \in F
    /\ "CANONICALIZED" \in F          => "PAYMENT_VALIDATED" \in F
    /\ "CANONICAL_UPDATED" \in F      => "CANONICALIZED" \in F
    /\ "NORMALIZATION_COMPLETE" \in F => "CANONICAL_UPDATED" \in F
    /\ "ROUTED" \in F                 => "NORMALIZATION_COMPLETE" \in F
    /\ "ROUTING_DECISION" \in F       => "ROUTED" \in F
    /\ "TRANSLATED" \in F             => "ROUTING_DECISION" \in F
    /\ "FAILED" \in F                 => "RECEIVED" \in F
    /\ "PIPELINE_ERROR" \in F         => "FAILED" \in F
    \* the rail only ever hears of a payment that is completely prepared
    /\ "PUBLISHED" \in F              => "TRANSLATED" \in F
    /\ "QUEUED" \in F                 => "PUBLISHED" \in F
    /\ "STATUS_CHANGE" \in F          => "QUEUED" \in F
    /\ F \cap {"RAIL_ACCEPTED", "RAIL_REJECTED", "RAIL_ERRED", "RAIL_GAVE_UP"} # {}
                                      => "PUBLISHED" \in F
    \* core only repeats what the rail said
    /\ "ACKED" \in F                  =>
          F \cap {"RAIL_ACCEPTED", "RAIL_REJECTED", "RAIL_ERRED"} # {}
    /\ "COMPLETED" \in F              => {"ACKED", "RAIL_ACCEPTED"} \subseteq F
    /\ "ACK_RECEIVED" \in F           => "ACKED" \in F
    /\ "DEAD_LETTER" \in F            => "RAIL_GAVE_UP" \in F
    /\ "DEAD_LETTER_LOGGED" \in F     => "DEAD_LETTER" \in F
    \* a compensation answers a failure, and a reversal an answer of the rail
    /\ "COMPENSATION_STARTED" \in F   =>
          \/ "FAILED" \in F
          \/ "DEAD_LETTER" \in F
          \/ {"ACKED", "RAIL_ERRED"} \subseteq F
    /\ "COMPENSATED" \in F            => "COMPENSATION_STARTED" \in F
    /\ "COMPENSATION_REVERSAL_REQUIRED" \in F =>
          {"ACKED", "COMPENSATION_STARTED"} \subseteq F
    /\ "COMPENSATION_COMPLETED" \in F => "COMPENSATED" \in F
    /\ "COMPENSATION_FAILED" \in F    => "COMPENSATION_STARTED" \in F

Init == facts = [p \in Payments |-> {}]

(* Payment p has facts F from now on: none without its causes, none lost.  *)
Learn(p, F) ==
    /\ facts[p] \subseteq F
    /\ F \subseteq Fact
    /\ CausallyClosed(F)
    /\ facts' = [facts EXCEPT ![p] = F]

Next == \E p \in Payments : \E F \in {facts'[p]} : Learn(p, F)

Spec == Init /\ [][Next]_facts
=============================================================================

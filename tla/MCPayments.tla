----------------------------- MODULE MCPayments -----------------------------
(* Small instances of Payments for TLC.                                    *)
EXTENDS PaymentsProperties, TLC

(* Payments, callers and ACK messages are interchangeable.                 *)
Interchangeable ==
    Permutations(Payments) \cup Permutations(Callers) \cup Permutations(AckIds)
=============================================================================

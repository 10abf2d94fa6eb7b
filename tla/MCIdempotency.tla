--------------------------- MODULE MCIdempotency ---------------------------
(* Small instances of Idempotency for TLC.                                 *)
EXTENDS IdempotencyProperties, TLC

(* Requests, keys and bodies are interchangeable.                          *)
Interchangeable ==
    Permutations(Requests) \cup Permutations(Keys) \cup Permutations(Bodies)
=============================================================================

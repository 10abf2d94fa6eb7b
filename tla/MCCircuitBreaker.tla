-------------------------- MODULE MCCircuitBreaker --------------------------
(***************************************************************************)
(* Instances of the circuit breaker for TLC.  The options are scaled down: *)
(* 2 failures in 3 samples reach the rate of 50%, 3 failures the threshold.*)
(***************************************************************************)
EXTENDS CircuitBreakerProperties
=============================================================================

---------------------- MODULE CircuitBreakerProperties ----------------------
(***************************************************************************)
(* What the circuit breaker promises however late results come in.         *)
(***************************************************************************)
EXTENDS CircuitBreaker

TypeOK ==
    /\ state \in States
    /\ failures \in Seq(0 .. Window)
    /\ successes \in 0 .. MaxSuccesses
    /\ opened \in 0 .. Cooldown
    /\ running \in [Calls -> States \cup {"no"}]
    /\ failed \in 0 .. MaxFailures

(***************************************************************************)
(* A closed circuit has fewer than failureThreshold failures on its list,  *)
(* also when failures of calls admitted before it opened come in late, and *)
(* none that an earlier opening has left behind (circuit-breaker.ts, lines *)
(* 113-125 and 156-159).                                                   *)
(***************************************************************************)
ClosedBelowThreshold == state = "CLOSED" => Len(failures) < FailureThreshold

(***************************************************************************)
(* A half-open circuit is waiting for a call that was admitted half-open:  *)
(* it cannot be stuck there, although results of older calls change the    *)
(* state at any time (circuit-breaker.ts, lines 77-93).                    *)
(***************************************************************************)
HalfOpenIsProbed == state = "HALF_OPEN" => \E c \in Calls : running[c] = "HALF_OPEN"

(***************************************************************************)
(* When the service no longer fails and requests keep coming, the circuit  *)
(* closes for good: late failures can only delay it (lines 144-159).       *)
(***************************************************************************)
Recovers == <>[](state = "CLOSED")
=============================================================================

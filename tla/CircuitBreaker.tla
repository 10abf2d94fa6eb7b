--------------------------- MODULE CircuitBreaker ---------------------------
(***************************************************************************)
(* CircuitBreaker of src/resilience/circuit-breaker.ts: an object shared   *)
(* by concurrent calls of execute().  A call is admitted in one step and   *)
(* reports its result in another, so that results arrive when the state    *)
(* has long changed.                                                       *)
(*                                                                         *)
(* The code compares Date.now() with stored timestamps.  Only differences  *)
(* matter, so the model stores ages, which stop growing at the limit they  *)
(* are compared with: time is unbounded and the states are finite.         *)
(***************************************************************************)
EXTENDS Naturals, Sequences

CONSTANTS
    Calls,                 \* concurrent calls of execute()
    FailureThreshold,      \* options.failureThreshold
    FailureRateThreshold,  \* options.failureRateThreshold, 0 when not given
    MinSamples,            \* the 10 of shouldOpen
    Cooldown,              \* options.cooldownMs
    Window,                \* options.windowMs
    MaxSuccesses,          \* from here on another success changes nothing
    MaxFailures            \* bound on calls that fail

\* With fewer than FailureThreshold failures, MaxSuccesses successes are
\* enough samples and keep the failure rate below its threshold.
ASSUME CircuitBreakerAssumption ==
    /\ {FailureThreshold, Cooldown, Window} \subseteq Nat \ {0}
    /\ {MinSamples, MaxFailures, MaxSuccesses} \subseteq Nat
    /\ FailureRateThreshold \in 0 .. 100
    /\ MaxSuccesses >= MinSamples
    /\ FailureRateThreshold # 0 =>
           MaxSuccesses * FailureRateThreshold > 100 * FailureThreshold

VARIABLES
    state,      \* this.state
    failures,   \* this.failures: the age of each recorded failure
    successes,  \* this.successes
    opened,     \* the age of this.openedAt
    running,    \* calls that await fn(), and the state they were admitted in
    failed      \* how many calls have failed

vars == <<state, failures, successes, opened, running, failed>>

States == {"CLOSED", "OPEN", "HALF_OPEN"}

Init ==
    /\ state = "CLOSED"
    /\ failures = <<>>
    /\ successes = 0
    /\ opened = Cooldown
    /\ running = [c \in Calls |-> "no"]
    /\ failed = 0

----------------------------------------------------------------------------
Older(age, limit) == IF age < limit THEN age + 1 ELSE limit

InWindow(age) == age < Window

\* push() and pruneOldFailures().  Failures are pushed in order of time (see
\* OldestFirst of CircuitBreakerProofs), so that the filter of the code keeps
\* the list from its first failure within the window on; the new one is.
Recorded(log) ==
    LET all == Append(log, 0)
        first == CHOOSE i \in DOMAIN all :
                     /\ InWindow(all[i])
                     /\ \A j \in 1 .. i - 1 : ~InWindow(all[j])
    IN  SubSeq(all, first, Len(all))

(* Wrong variant: only more failures than the threshold open the circuit.  *)
LateOpen(n, ok) == n > FailureThreshold

ShouldOpen(n, ok) ==
    \/ n >= FailureThreshold
    \/ /\ n + ok >= MinSamples
       /\ FailureRateThreshold # 0
       /\ n * 100 >= FailureRateThreshold * (n + ok)

\* transitionTo('OPEN'): openedAt is now.
Open == state' = "OPEN" /\ opened' = 0

\* transitionTo('CLOSED'): the counters start again.
Close ==
    /\ state' = "CLOSED"
    /\ failures' = <<>>
    /\ successes' = 0

----------------------------------------------------------------------------
\* execute() up to fn().  When the circuit is open and not cooled down it
\* throws CircuitOpenError and changes nothing.
Admit(c) ==
    /\ running[c] = "no"
    /\ state = "OPEN" => opened = Cooldown
    /\ state' = IF state = "OPEN" THEN "HALF_OPEN" ELSE state
    /\ running' = [running EXCEPT ![c] = state']
    /\ UNCHANGED <<failures, successes, opened, failed>>

(* Wrong variant: a success is only counted.                               *)
DeafOnSuccess(c) ==
    /\ running[c] # "no"
    /\ running' = [running EXCEPT ![c] = "no"]
    /\ successes' = Older(successes, MaxSuccesses)
    /\ UNCHANGED <<state, failures, opened, failed>>

OnSuccess(c) ==
    /\ running[c] # "no"
    /\ running' = [running EXCEPT ![c] = "no"]
    /\ IF state = "HALF_OPEN"
       THEN Close
       ELSE /\ successes' = Older(successes, MaxSuccesses)
            /\ UNCHANGED <<state, failures>>
    /\ UNCHANGED <<opened, failed>>

(* Wrong variant: the failure of a probe is not looked at.                 *)
DeafOnFailure(c) ==
    /\ running[c] # "no"
    /\ failed < MaxFailures
    /\ failed' = failed + 1
    /\ running' = [running EXCEPT ![c] = "no"]
    /\ failures' = Recorded(failures)
    /\ IF state = "CLOSED" /\ ShouldOpen(Len(failures'), successes)
       THEN Open
       ELSE UNCHANGED <<state, opened>>
    /\ UNCHANGED successes

OnFailure(c) ==
    /\ running[c] # "no"
    /\ failed < MaxFailures
    /\ failed' = failed + 1
    /\ running' = [running EXCEPT ![c] = "no"]
    /\ failures' = Recorded(failures)
    /\ IF \/ state = "HALF_OPEN"
          \/ state = "CLOSED" /\ ShouldOpen(Len(failures'), successes)
       THEN Open
       ELSE UNCHANGED <<state, opened>>
    /\ UNCHANGED successes

\* Time passes.
Tick ==
    /\ failures' = [i \in DOMAIN failures |-> Older(failures[i], Window)]
    /\ opened' = Older(opened, Cooldown)
    /\ UNCHANGED <<state, successes, running, failed>>

Next ==
    \/ \E c \in Calls : Admit(c) \/ OnSuccess(c) \/ OnFailure(c)
    \/ Tick

Spec == Init /\ [][Next]_vars

\* Requests keep coming, fn() settles, time passes.
FairSpec ==
    /\ Spec
    /\ WF_vars(\E c \in Calls : Admit(c))
    /\ \A c \in Calls : WF_vars(OnSuccess(c) \/ OnFailure(c))
    /\ WF_vars(Tick)
=============================================================================

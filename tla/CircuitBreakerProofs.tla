------------------------ MODULE CircuitBreakerProofs ------------------------
(***************************************************************************)
(* A half-open circuit always has a probe under way, and a closed one is   *)
(* below its threshold, for any number of concurrent calls and any options.*)
(***************************************************************************)
EXTENDS CircuitBreakerProperties, SequenceTheorems, WellFoundedInduction, TLAPS

\* A call that is under way was admitted closed or half-open.
Running == running \in [Calls -> {"no", "CLOSED", "HALF_OPEN"}]

Inv == state \in States /\ Running /\ HalfOpenIsProbed

LEMMA AdmitPreserves == ASSUME Inv, NEW c \in Calls, Admit(c) PROVE Inv'
<1>1. state' \in {"CLOSED", "HALF_OPEN"} /\ running' = [running EXCEPT ![c] = state']
  BY DEF Inv, Admit, States
<1>2. Running' /\ running'[c] = state'
  BY <1>1 DEF Inv, Running
<1> QED
  BY <1>1, <1>2 DEF Inv, HalfOpenIsProbed, States

\* Any result ends the half-open state.
LEMMA OnSuccessPreserves == ASSUME Inv, NEW c \in Calls, OnSuccess(c) PROVE Inv'
<1>1. state' = IF state = "HALF_OPEN" THEN "CLOSED" ELSE state
  BY DEF OnSuccess, Close
<1>2. Running'
  BY DEF Inv, Running, OnSuccess
<1> QED
  BY <1>1, <1>2 DEF Inv, HalfOpenIsProbed, States

LEMMA OnFailurePreserves == ASSUME Inv, NEW c \in Calls, OnFailure(c) PROVE Inv'
<1>1. state' \in States /\ state' # "HALF_OPEN"
  BY DEF Inv, OnFailure, Open, States
<1>2. Running'
  BY DEF Inv, Running, OnFailure
<1> QED
  BY <1>1, <1>2 DEF Inv, HalfOpenIsProbed

(***************************************************************************)
(* The circuit is never stuck half-open: whatever results of older calls   *)
(* come in, a call admitted half-open is still to report                   *)
(* (circuit-breaker.ts, lines 77-93).                                      *)
(***************************************************************************)
THEOREM NeverStuckHalfOpen == Spec => []HalfOpenIsProbed
<1>1. Init => Inv
  BY DEF Init, Inv, States, Running, HalfOpenIsProbed
<1>2. Inv /\ [Next]_vars => Inv'
  <2> SUFFICES ASSUME Inv, [Next]_vars PROVE Inv'
    OBVIOUS
  <2>1. ASSUME NEW c \in Calls, Admit(c) \/ OnSuccess(c) \/ OnFailure(c) PROVE Inv'
    BY <2>1, AdmitPreserves, OnSuccessPreserves, OnFailurePreserves
  <2>2. CASE Tick \/ UNCHANGED vars
    BY <2>2 DEF Inv, Tick, vars, Running, HalfOpenIsProbed
  <2> QED
    BY <2>1, <2>2 DEF Next
<1>3. Inv => HalfOpenIsProbed
  BY DEF Inv
<1> QED
  BY <1>1, <1>2, <1>3, PTL DEF Spec

(***************************************************************************)
(* The list of failures: what it holds, and that it is in order of time.   *)
(***************************************************************************)
LogOK == failures \in Seq(0 .. Window)

OldestFirst == \A i, j \in DOMAIN failures : i <= j => failures[i] >= failures[j]

CountsOK ==
    /\ state \in States
    /\ successes \in 0 .. MaxSuccesses
    /\ opened \in 0 .. Cooldown
    /\ running \in [Calls -> States \cup {"no"}]
    /\ failed \in 0 .. MaxFailures

LogInv == CountsOK /\ LogOK /\ OldestFirst /\ ClosedBelowThreshold

LEMMA LeastNat ==
    ASSUME NEW T, T \subseteq Nat, T # {}
    PROVE  \E x \in T : \A y \in T : x <= y
<1>1. PICK x \in T : \A y \in T : ~(<<y, x>> \in OpToRel(<, Nat))
  BY NatLessThanWellFounded, WFMin
<1>2. \A y \in T : ~(y < x)
  BY <1>1 DEF OpToRel
<1> QED
  BY <1>2

LEMMA OlderType ==
    ASSUME NEW limit \in Nat, NEW age \in 0 .. limit
    PROVE  Older(age, limit) \in 0 .. limit
BY DEF Older

\* Time never changes the order of two failures.
LEMMA OlderIsMonotone ==
    ASSUME NEW limit \in Nat, NEW a \in 0 .. limit, NEW b \in 0 .. limit, a >= b
    PROVE  Older(a, limit) >= Older(b, limit)
BY DEF Older

(***************************************************************************)
(* The list with the new failure is cut at its first one within the        *)
(* window, which exists: the new failure is.                               *)
(***************************************************************************)
LEMMA RecordedIsSuffix ==
    ASSUME NEW log \in Seq(0 .. Window)
    PROVE  \E first \in 1 .. Len(log) + 1 :
               /\ Recorded(log) = SubSeq(Append(log, 0), first, Len(log) + 1)
               /\ InWindow(Append(log, 0)[first])
               /\ \A j \in 1 .. first - 1 : ~InWindow(Append(log, 0)[j])
<1> DEFINE all == Append(log, 0)
           recent == {i \in DOMAIN all : InWindow(all[i])}
           IsFirst(i) == InWindow(all[i]) /\ \A j \in 1 .. i - 1 : ~InWindow(all[j])
<1>1. Len(all) = Len(log) + 1 /\ DOMAIN all = 1 .. Len(log) + 1 /\ Len(log) \in Nat
  BY DEF all
<1>2. all[Len(log) + 1] = 0 /\ Window \in Nat \ {0}
  BY CircuitBreakerAssumption DEF all
<1>3. Len(log) + 1 \in recent
  BY <1>1, <1>2 DEF InWindow, recent
<1>4. recent \subseteq Nat
  BY <1>1 DEF recent
<1> HIDE DEF all
<1>5. PICK k \in recent : \A j \in recent : k <= j
  BY <1>3, <1>4, LeastNat
<1>6. k \in DOMAIN all /\ k \in 1 .. Len(log) + 1 /\ InWindow(all[k])
  BY <1>1, <1>5 DEF recent
<1>7. ASSUME NEW j \in 1 .. k - 1 PROVE ~InWindow(all[j])
  <2>1. j \in DOMAIN all /\ ~(k <= j)
    BY <1>1, <1>6
  <2> QED
    BY <2>1, <1>5 DEF recent
<1>8. IsFirst(k)
  BY <1>6, <1>7
<1> DEFINE first == CHOOSE i \in DOMAIN all : IsFirst(i)
<1>9. first \in DOMAIN all /\ IsFirst(first)
  <2> HIDE DEF IsFirst
  <2> QED
    BY <1>6, <1>8
<1>10. Recorded(log) = SubSeq(all, first, Len(all))
  BY DEF Recorded, all
<1> HIDE DEF first
<1> QED
  BY <1>1, <1>9, <1>10 DEF all

LEMMA RecordedProperties ==
    ASSUME NEW log \in Seq(0 .. Window),
           \A i, j \in DOMAIN log : i <= j => log[i] >= log[j]
    PROVE  /\ Recorded(log) \in Seq(0 .. Window)
           /\ Len(Recorded(log)) \in Nat \ {0}
           /\ \A i \in DOMAIN Recorded(log) : InWindow(Recorded(log)[i])
           /\ \A i, j \in DOMAIN Recorded(log) :
                  i <= j => Recorded(log)[i] >= Recorded(log)[j]
<1> DEFINE all == Append(log, 0)
           n == Len(log) + 1
<1>0. /\ Window \in Nat /\ 0 \in 0 .. Window /\ Len(log) \in Nat
      /\ DOMAIN log = 1 .. Len(log) /\ \A i \in 1 .. Len(log) : log[i] \in 0 .. Window
  BY CircuitBreakerAssumption, ElementOfSeq, LenProperties
<1>1. /\ all \in Seq(0 .. Window) /\ Len(all) = n /\ n \in Nat \ {0}
      /\ \A i \in 1 .. n : all[i] = IF i = n THEN 0 ELSE log[i]
  <2>1. \A i \in 1 .. Len(log) : all[i] = log[i]
    BY <1>0, AppendProperties
  <2>2. all \in Seq(0 .. Window) /\ Len(all) = n /\ all[n] = 0
    BY <1>0, AppendProperties
  <2> QED
    BY <1>0, <2>1, <2>2
<1>2. \A i \in 1 .. n : all[i] \in 0 .. Window
  BY <1>0, <1>1
<1>3. \A i, j \in 1 .. n : i <= j => all[i] >= all[j]
  <2> SUFFICES ASSUME NEW i \in 1 .. n, NEW j \in 1 .. n, i <= j PROVE all[i] >= all[j]
    OBVIOUS
  <2>1. CASE j = n
    BY <2>1, <1>1, <1>2
  <2>2. CASE j # n
    <3>1. i \in DOMAIN log /\ j \in DOMAIN log /\ i # n
      BY <2>2, <1>0
    <3> QED
      BY <3>1, <2>2, <1>1
  <2> QED
    BY <2>1, <2>2
<1>4. PICK first \in 1 .. n : /\ Recorded(log) = SubSeq(all, first, n)
                              /\ InWindow(all[first])
  BY RecordedIsSuffix
<1> HIDE DEF all, n
<1>5. first \in Int /\ n \in Int /\ \A i \in first .. n : all[i] \in 0 .. Window
  BY <1>1, <1>2
<1>6. /\ Recorded(log) \in Seq(0 .. Window)
      /\ Len(Recorded(log)) = n - first + 1
      /\ \A i \in 1 .. n - first + 1 : Recorded(log)[i] = all[first + i - 1]
  BY <1>1, <1>4, <1>5, SubSeqProperties
<1>7. DOMAIN Recorded(log) = 1 .. n - first + 1
  BY <1>6
<1>8. \A i \in 1 .. n - first + 1 : first + i - 1 \in 1 .. n /\ first <= first + i - 1
  BY <1>1
<1>9. \A i \in 1 .. n - first + 1 : InWindow(all[first + i - 1])
  BY <1>2, <1>3, <1>4, <1>8, CircuitBreakerAssumption DEF InWindow
<1>10. \A i, j \in 1 .. n - first + 1 :
           i <= j => all[first + i - 1] >= all[first + j - 1]
  BY <1>1, <1>3, <1>8
<1>11. Len(Recorded(log)) \in Nat \ {0}
  BY <1>1, <1>6
<1> QED
  BY <1>6, <1>7, <1>9, <1>10, <1>11

LEMMA LogInvInit == Init => LogInv
BY CircuitBreakerAssumption
   DEF Init, LogInv, CountsOK, States, LogOK, OldestFirst, ClosedBelowThreshold

LEMMA AdmitKeepsLog == ASSUME LogInv, NEW c \in Calls, Admit(c) PROVE LogInv'
<1>1. failures' = failures /\ successes' = successes /\ opened' = opened /\ failed' = failed
  BY DEF Admit
<1>2. state' \in States /\ (state' = "CLOSED" => state = "CLOSED")
  BY DEF LogInv, CountsOK, Admit, States
<1>3. running' \in [Calls -> States \cup {"no"}]
  BY <1>2 DEF LogInv, CountsOK, Admit
<1> QED
  BY <1>1, <1>2, <1>3 DEF LogInv, CountsOK, LogOK, OldestFirst, ClosedBelowThreshold

LEMMA OnSuccessKeepsLog == ASSUME LogInv, NEW c \in Calls, OnSuccess(c) PROVE LogInv'
<1>1. opened' = opened /\ failed' = failed
      /\ running' \in [Calls -> States \cup {"no"}]
  BY DEF LogInv, CountsOK, OnSuccess
<1>2. CASE state = "HALF_OPEN"
  <2>1. state' = "CLOSED" /\ failures' = <<>> /\ successes' = 0
    BY <1>2 DEF OnSuccess, Close
  <2> QED
    BY <1>1, <2>1, CircuitBreakerAssumption
       DEF LogInv, CountsOK, States, LogOK, OldestFirst, ClosedBelowThreshold
<1>3. CASE state # "HALF_OPEN"
  <2>1. state' = state /\ failures' = failures /\ successes' = Older(successes, MaxSuccesses)
    BY <1>3 DEF OnSuccess
  <2>2. successes' \in 0 .. MaxSuccesses
    BY <2>1, OlderType, CircuitBreakerAssumption DEF LogInv, CountsOK
  <2> QED
    BY <1>1, <2>1, <2>2 DEF LogInv, CountsOK, LogOK, OldestFirst, ClosedBelowThreshold
<1> QED
  BY <1>2, <1>3

LEMMA OnFailureKeepsLog == ASSUME LogInv, NEW c \in Calls, OnFailure(c) PROVE LogInv'
<1>1. failures' = Recorded(failures) /\ successes' = successes
  BY DEF OnFailure
<1>2. LogOK' /\ OldestFirst' /\ Len(failures') \in Nat
  BY <1>1, RecordedProperties DEF LogInv, LogOK, OldestFirst
<1>3. running' \in [Calls -> States \cup {"no"}] /\ failed' \in 0 .. MaxFailures
  BY CircuitBreakerAssumption DEF LogInv, CountsOK, OnFailure
<1>4. state' \in States /\ opened' \in 0 .. Cooldown
  BY CircuitBreakerAssumption DEF LogInv, CountsOK, OnFailure, Open, States
\* A closed circuit has just found the list to be below the threshold.
<1>5. ASSUME state' = "CLOSED" PROVE Len(failures') < FailureThreshold
  <2>1. state = "CLOSED" /\ ~ShouldOpen(Len(failures'), successes)
    BY <1>5 DEF LogInv, CountsOK, States, OnFailure, Open
  <2> QED
    BY <2>1, <1>2, CircuitBreakerAssumption DEF ShouldOpen
<1> QED
  BY <1>1, <1>2, <1>3, <1>4, <1>5 DEF LogInv, CountsOK, ClosedBelowThreshold

LEMMA TickKeepsLog == ASSUME LogInv, Tick PROVE LogInv'
<1>1. /\ failures' = [i \in DOMAIN failures |-> Older(failures[i], Window)]
      /\ UNCHANGED <<state, successes, running, failed>>
      /\ opened' = Older(opened, Cooldown)
  BY DEF Tick
<1>2. /\ failures \in Seq(0 .. Window) /\ Len(failures) \in Nat
      /\ DOMAIN failures = 1 .. Len(failures)
      /\ \A i \in DOMAIN failures : failures[i] \in 0 .. Window
  BY ElementOfSeq, LenProperties DEF LogInv, LogOK
<1>3. Window \in Nat /\ Cooldown \in Nat
  BY CircuitBreakerAssumption
<1>4. \A i \in DOMAIN failures : Older(failures[i], Window) \in 0 .. Window
  BY <1>2, <1>3, OlderType
<1>5. failures' \in Seq(0 .. Window) /\ Len(failures') = Len(failures)
  BY <1>1, <1>2, <1>4
<1>6. OldestFirst'
  BY <1>1, <1>2, <1>3, OlderIsMonotone DEF LogInv, OldestFirst
<1>7. opened' \in 0 .. Cooldown
  BY <1>1, <1>3, OlderType DEF LogInv, CountsOK
<1> QED
  BY <1>1, <1>5, <1>6, <1>7 DEF LogInv, CountsOK, LogOK, ClosedBelowThreshold

LEMMA LogInvariance == Spec => []LogInv
<1>1. LogInv /\ [Next]_vars => LogInv'
  <2> SUFFICES ASSUME LogInv, [Next]_vars PROVE LogInv'
    OBVIOUS
  <2>1. ASSUME NEW c \in Calls, Admit(c) \/ OnSuccess(c) \/ OnFailure(c) PROVE LogInv'
    BY <2>1, AdmitKeepsLog, OnSuccessKeepsLog, OnFailureKeepsLog
  <2>2. CASE UNCHANGED vars
    BY <2>2 DEF LogInv, CountsOK, LogOK, OldestFirst, ClosedBelowThreshold, vars
  <2> QED
    BY <2>1, <2>2, TickKeepsLog DEF Next
<1> QED
  BY <1>1, LogInvInit, PTL DEF Spec

(***************************************************************************)
(* Every variable keeps its type: no age grows past the limit it is        *)
(* compared with (circuit-breaker.ts, lines 25-50).                        *)
(***************************************************************************)
THEOREM TypeCorrect == Spec => []TypeOK
<1>1. LogInv => TypeOK
  BY DEF LogInv, CountsOK, LogOK, TypeOK
<1> QED
  BY <1>1, LogInvariance, PTL

(***************************************************************************)
(* A closed circuit is below its failure threshold, also when failures of  *)
(* calls admitted before it opened come in late (circuit-breaker.ts, lines *)
(* 113-125 and 156-159).                                                   *)
(***************************************************************************)
THEOREM ThresholdKept == Spec => []ClosedBelowThreshold
<1>1. LogInv => ClosedBelowThreshold
  BY DEF LogInv
<1> QED
  BY <1>1, LogInvariance, PTL

(***************************************************************************)
(* The list of failures is in order of time whatever happens, which is why *)
(* dropping its beginning is what filter() does (lines 163-167).           *)
(***************************************************************************)
THEOREM FailuresInOrder == Spec => []OldestFirst
<1>1. LogInv => OldestFirst
  BY DEF LogInv
<1> QED
  BY <1>1, LogInvariance, PTL
=============================================================================

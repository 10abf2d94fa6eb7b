-------------------------- MODULE ReconnectorProofs --------------------------
(***************************************************************************)
(* The invariants of the reconnector for any number of connections, loops  *)
(* and faults.                                                             *)
(***************************************************************************)
EXTENDS ReconnectorProperties, FiniteSetTheorems, TLAPS

USE ReconnectorAssumption

(***************************************************************************)
(* A close event changes sockets, the flag and idle loops only, and starts *)
(* a loop exactly when a handler gets through (reconnect.ts, lines 79-81). *)
(***************************************************************************)
LEMMA LoseFacts ==
    ASSUME IInv, NEW c \in Conns, Lose(c)
    PROVE  /\ open' = open \ {c}
           /\ reconnecting' = (reconnecting \/ handlers[c] # 0)
           /\ UNCHANGED <<streaming, mine, handlers, current, channel, interrupted>>
           /\ loop' \in [Loops -> [at : LoopStep, conn : Conns \cup {NoConn}]]
           /\ \A l \in Loops : loop'[l] # loop[l] =>
                  loop[l].at = "none" /\ loop'[l] = Asleep
           /\ Started(c) = 0 => loop' = loop
           /\ Started(c) # 0 => \E l \in Loops : loop[l].at = "none" /\ loop'[l] = Asleep
           /\ Started(c) = 1 => \A k, l \in Loops :
                  loop'[k] # loop[k] /\ loop'[l] # loop[l] => k = l
<1>1. PICK S : /\ S \subseteq Loops \ Running
               /\ IsFiniteSet(S) /\ Cardinality(S) = Started(c)
               /\ loop' = [l \in Loops |-> IF l \in S THEN Asleep ELSE loop[l]]
  BY DEF Lose
<1>2. Asleep \in [at : LoopStep, conn : Conns \cup {NoConn}] /\ Asleep.at = "sleep"
  BY DEF Asleep, LoopStep, Attempting
<1>3. loop \in [Loops -> [at : LoopStep, conn : Conns \cup {NoConn}]]
  BY DEF IInv, TypeOK
<1>4. \A l \in S : l \in Loops /\ loop[l].at = "none"
  BY <1>1 DEF Running
<1>5. \A l \in Loops : loop'[l] # loop[l] => l \in S
  BY <1>1, <1>3
<1>6. \A l \in S : loop'[l] = Asleep
  BY <1>1
<1>7. ASSUME Started(c) = 0 PROVE loop' = loop
  <2>1. S = {}
    BY <1>1, <1>7, FS_EmptySet
  <2> QED
    BY <1>1, <1>3, <2>1
<1>8. ASSUME Started(c) # 0 PROVE S # {}
  BY <1>1, <1>8, FS_EmptySet
<1>9. ASSUME Started(c) = 1 PROVE \A k, l \in S : k = l
  <2>1. \E x : S = {x}
    BY <1>1, <1>9, FS_Singleton
  <2> QED
    BY <2>1
<1>10. loop' \in [Loops -> [at : LoopStep, conn : Conns \cup {NoConn}]]
  BY <1>1, <1>2, <1>3
<1> QED
  BY <1>4, <1>5, <1>6, <1>7, <1>8, <1>9, <1>10 DEF Lose

(***************************************************************************)
(* Losing a connection keeps the invariant, whatever main does meanwhile   *)
(* but leave the places where it stands behind connect().                  *)
(***************************************************************************)
LEMMA LosePreserves ==
    ASSUME IInv, NEW c \in open, Lose(c), TypeOK',
           main' = main \/ (main = "close_connection" /\ main' = "close_db")
    PROVE  IInv'
<1> USE DEF Registered
<1>1. c \in Conns
  BY DEF IInv, TypeOK
<1>f. /\ open' = open \ {c}
      /\ reconnecting' = (reconnecting \/ handlers[c] # 0)
      /\ UNCHANGED <<mine, handlers, current, channel, interrupted>>
      /\ \A l \in Loops : loop'[l] # loop[l] => loop[l].at = "none" /\ loop'[l] = Asleep
      /\ Started(c) = 0 => loop' = loop
      /\ Started(c) # 0 => \E l \in Loops : loop[l].at = "none" /\ loop'[l] = Asleep
      /\ Started(c) = 1 => \A k, l \in Loops :
             loop'[k] # loop[k] /\ loop'[l] # loop[l] => k = l
  BY <1>1, LoseFacts
<1>a. Asleep.at = "sleep"
  BY DEF Asleep
<1>t. handlers \in [Conns -> Nat] /\ open \subseteq Conns
  BY DEF IInv, TypeOK
<1>2. FirstConnection'
  <2>1. CASE main \in {"connect", "channel"}
    <3>0. handlers[c] = 0
      BY <2>1, <1>1 DEF IInv, FirstConnection
    <3>1. Started(c) = 0 /\ loop' = loop
      BY <3>0, <1>f DEF Started
    <3>2. main = "channel" /\ main' = main
      BY <2>1 DEF IInv, FirstConnection
    <3>3. Running = {} /\ ~reconnecting /\ open \subseteq {mine} /\ current = mine
      BY <3>2 DEF IInv, FirstConnection
    <3>4. Running' = {}
      BY <3>1, <3>3 DEF Running
    <3>5. \A x \in Conns : handlers'[x] = 0
      BY <2>1, <1>f DEF IInv, FirstConnection
    <3>6. ~reconnecting'
      BY <3>0, <3>3, <1>f
    <3> QED
      BY <3>2, <3>3, <3>4, <3>5, <3>6, <1>f DEF FirstConnection
  <2>2. CASE main \notin {"connect", "channel"}
    <3>1. mine \in open' => c \notin open'
      BY <1>f
    <3>2. mine \in open => open \subseteq {mine}
      BY DEF IInv, FirstConnection
    <3>3. mine \notin open'
      BY <3>2, <1>f
    <3> QED
      BY <3>3, <2>2, <1>f DEF FirstConnection
  <2> QED
    BY <2>1, <2>2
<1>3. Replaced'
  <2> SUFFICES ASSUME Registered', current \notin open' PROVE \E l \in Loops : Replaces(l)'
    BY <1>f DEF Replaced
  <2>1. CASE current \notin open
    <3>1. PICK l \in Loops : Replaces(l)
      BY <2>1 DEF IInv, Replaced
    <3>2. loop'[l] = loop[l]
      BY <3>1, <1>f DEF Replaces
    <3> QED
      BY <3>1, <3>2, <1>f DEF Replaces
  <2>2. CASE current \in open
    <3>1. c = current
      BY <2>2, <1>f
    <3>2. CASE handlers[current] # 0
      <4>1. Started(c) # 0
        BY <3>1, <3>2 DEF Started, IInv, FirstConnection
      <4>2. PICK l \in Loops : loop'[l] = Asleep
        BY <4>1, <1>f
      <4> QED
        BY <4>2, <1>a DEF Replaces
    <3>3. CASE handlers[current] = 0
      <4>1. PICK l \in Loops : loop[l].conn = current /\ loop[l].at \in {"channel", "opened"}
        BY <2>2, <3>3 DEF IInv, CurrentIsArmed
      <4>2. loop'[l] = loop[l]
        BY <4>1, <1>f
      <4> QED
        BY <4>1, <4>2, <1>f DEF Replaces
    <3> QED
      BY <3>2, <3>3
  <2> QED
    BY <2>1, <2>2
<1>4. CurrentIsArmed'
  <2> SUFFICES ASSUME Registered', current \in open', handlers[current] = 0
               PROVE  \E l \in Loops : (loop[l].conn = current /\ loop[l].at \in {"channel", "opened"})'
    BY <1>f DEF CurrentIsArmed
  <2>1. PICK l \in Loops : loop[l].conn = current /\ loop[l].at \in {"channel", "opened"}
    BY <1>f DEF IInv, CurrentIsArmed
  <2>2. loop'[l] = loop[l]
    BY <2>1, <1>f
  <2> QED
    BY <2>1, <2>2, <1>f
<1>5. ASSUME interrupted' = 0
      PROVE  open' = {} /\ \A k, l \in Loops : Tries(k)' /\ Tries(l)' => k = l
  <2>1. interrupted = 0
    BY <1>5, <1>f
  <2>2. c = current /\ open \subseteq {c} /\ handlers[c] <= 1
    BY <2>1 DEF IInv, SingleLoop
  <2>3. CASE \E l \in Loops : Tries(l)
    <3>1. handlers[c] = 0
      BY <2>1, <2>3 DEF IInv, SingleLoop
    <3>2. loop' = loop
      BY <3>1, <1>f DEF Started
    <3> QED
      BY <3>2, <2>1, <2>2, <1>f DEF IInv, SingleLoop, Tries
  <2>4. CASE ~ \E l \in Loops : Tries(l)
    <3>1. Started(c) \in {0, 1}
      BY <2>2, <1>1, <1>t DEF Started
    <3>2. \A l \in Loops : Tries(l)' => loop'[l] # loop[l]
      BY <2>4 DEF Tries
    <3> QED
      BY <3>1, <3>2, <2>2, <1>f
  <2> QED
    BY <2>3, <2>4
<1>6. SingleLoop'
  BY <1>5 DEF SingleLoop
<1>7. SingleLoopWorks'
  <2> SUFFICES ASSUME interrupted' = 0, NEW l \in Loops, loop'[l].at \in {"channel", "opened"}
               PROVE  loop'[l].conn = current'
    BY <1>5 DEF SingleLoopWorks
  <2>1. loop'[l] = loop[l]
    BY <1>f, <1>a
  <2> QED
    BY <2>1, <1>f DEF IInv, SingleLoopWorks
<1> QED
  BY <1>2, <1>3, <1>4, <1>6, <1>7 DEF IInv

(***************************************************************************)
(* Types.                                                                  *)
(***************************************************************************)
LEMMA TypeStep == IInv /\ [Next]_vars => TypeOK'
<1> SUFFICES ASSUME IInv, Next PROVE TypeOK'
  <2>1. ASSUME UNCHANGED vars, IInv PROVE TypeOK'
    BY <2>1 DEF IInv, TypeOK, vars, reconnector
  <2> QED
    BY <2>1
<1>t. TypeOK
  BY DEF IInv
<1>r. NoLoop \in [at : LoopStep, conn : Conns \cup {NoConn}] /\ Asleep \in [at : LoopStep, conn : Conns \cup {NoConn}]
  BY DEF NoLoop, Asleep, LoopStep, Attempting
<1>1. ASSUME NEW why \in {"failed", "uncaught", "stopped"}, ExitWith(why), faults' \in 0 .. MaxFaults
      PROVE  TypeOK'
  BY <1>1, <1>r DEF ExitWith, TypeOK
<1>s. ASSUME Strike PROVE faults' \in 0 .. MaxFaults
  BY <1>s, <1>t DEF Strike, TypeOK
<1>2. CASE Main
  <2>1. CASE Connect
    <3>1. CASE Strike /\ ExitWith("failed")
      BY <3>1, <1>1, <1>s
    <3>2. CASE \E c \in Conns : Obtain(c) /\ mine' = c /\ main' = "channel" /\ UNCHANGED <<exit, handlers, loop>>
      BY <3>2, <1>t DEF Obtain, TypeOK, Starting
    <3> QED
      BY <2>1, <3>1, <3>2 DEF Connect
  <2>2. CASE MainFails
    BY <2>2, <1>1, <1>t DEF MainFails, TypeOK
  <2>3. CASE RegisterHandlers
    BY <2>3, <1>t DEF RegisterHandlers, TypeOK, Starting
  <2>4. CASE MainReply
    <3>1. main' \in {"consume_acks", "consume_dlq", "running", "close_connection"}
      BY <2>4 DEF MainReply, MainNext
    <3> QED
      BY <3>1, <2>4, <1>t DEF MainReply, TypeOK, Starting, Stopping, reconnector
  <2>5. CASE CloseApp
    BY <2>5, <1>t DEF CloseApp, TypeOK, Stopping, reconnector
  <2>6. CASE CloseConnection
    <3>1. mine \in Conns
      BY <2>6, <1>t DEF CloseConnection, TypeOK
    <3>2. Lose(mine) /\ main' = "close_db" /\ UNCHANGED <<exit, faults>>
      BY <2>6 DEF CloseConnection
    <3>3. /\ open' = open \ {mine}
          /\ reconnecting' = (reconnecting \/ handlers[mine] # 0)
          /\ UNCHANGED <<streaming, mine, handlers, current, channel, interrupted>>
          /\ loop' \in [Loops -> [at : LoopStep, conn : Conns \cup {NoConn}]]
      BY <3>1, <3>2, LoseFacts
    <3> QED
      BY <3>2, <3>3, <1>t DEF TypeOK, Stopping
  <2>7. CASE CloseDb
    BY <2>7, <1>1, <1>t DEF CloseDb, TypeOK
  <2> QED
    BY <1>2, <2>1, <2>2, <2>3, <2>4, <2>5, <2>6, <2>7 DEF Main
<1>3. CASE Signal
  BY <1>3, <1>t DEF Signal, TypeOK, Stopping, reconnector
<1>6. CASE OpenStream \/ EndStreams
  BY <1>6, <1>t DEF OpenStream, EndStreams, TypeOK, reconnector
<1>4. ASSUME NEW l \in Loops, Loop(l) PROVE TypeOK'
  <2>m. ASSUME NEW at \in LoopStep, NEW c \in Conns \cup {NoConn}, Move(l, at, c)
        PROVE  loop' \in [Loops -> [at : LoopStep, conn : Conns \cup {NoConn}]]
    BY <2>m, <1>t DEF Move, TypeOK
  <2>r. ASSUME Retry(l)
        PROVE  loop' \in [Loops -> [at : LoopStep, conn : Conns \cup {NoConn}]]
    BY <2>r, <1>r, <1>t DEF Retry, TypeOK
  <2>c. loop[l].conn \in Conns \cup {NoConn}
    BY <1>t DEF TypeOK
  <2>1. CASE Wake(l)
    <3>1. loop' \in [Loops -> [at : LoopStep, conn : Conns \cup {NoConn}]]
      BY <2>1, <2>m DEF Wake, LoopStep, Attempting
    <3> QED
      BY <3>1, <2>1, <1>t DEF Wake, TypeOK, reconnector
  <2>2. CASE Reconnect(l)
    <3>1. PICK c \in Conns : Obtain(c) /\ handlers' = [handlers EXCEPT ![c] = 0] /\ Move(l, "channel", c)
      BY <2>2 DEF Reconnect
    <3>2. loop' \in [Loops -> [at : LoopStep, conn : Conns \cup {NoConn}]]
      BY <3>1, <2>m DEF LoopStep, Attempting
    <3>3. open' \subseteq Conns /\ current' \in Conns /\ UNCHANGED <<streaming, channel, reconnecting, interrupted, faults>>
      BY <3>1, <1>t DEF Obtain, TypeOK
    <3>4. handlers' \in [Conns -> Nat]
      BY <3>1, <1>t DEF TypeOK
    <3>5. UNCHANGED <<main, exit, mine>>
      BY <2>2 DEF Reconnect
    <3> QED
      BY <3>2, <3>3, <3>4, <3>5, <1>t DEF TypeOK
  <2>3. CASE Refused(l)
    BY <2>3, <2>r, <1>s, <1>t DEF Refused, TypeOK, reconnector
  <2>4. CASE Reply(l)
    <3>1. loop' \in [Loops -> [at : LoopStep, conn : Conns \cup {NoConn}]]
      BY <2>4, <2>m, <2>c DEF Reply, LoopStep, Attempting
    <3> QED
      BY <3>1, <2>4, <1>t DEF Reply, TypeOK, reconnector
  <2>5. CASE Register(l)
    <3>1. loop' \in [Loops -> [at : LoopStep, conn : Conns \cup {NoConn}]]
      BY <2>5, <2>m, <2>r, <2>c DEF Register, LoopStep, Attempting
    <3>2. interrupted' \in Nat
      <4>1. interrupted' \in {interrupted, interrupted + 1}
        BY <2>5 DEF Register
      <4> QED
        BY <4>1, <1>t DEF TypeOK
    <3>3. handlers' \in [Conns -> Nat]
      <4>1. handlers' = [handlers EXCEPT ![current] = handlers[current] + 1]
        BY <2>5 DEF Register
      <4>2. handlers \in [Conns -> Nat]
        BY <1>t DEF TypeOK
      <4>3. \A c \in Conns : handlers'[c] \in {handlers[c], handlers[c] + 1}
        BY <4>1, <4>2
      <4>4. \A c \in Conns : handlers'[c] \in Nat
        BY <4>2, <4>3
      <4>5. handlers' = [c \in Conns |-> handlers'[c]]
        BY <4>1, <4>2
      <4> QED
        BY <4>4, <4>5
    <3>4. channel' \in Conns \cup {NoConn} /\ reconnecting' \in BOOLEAN
      BY <2>5, <2>c DEF Register
    <3>5. UNCHANGED <<main, exit, streaming, mine, open, current, faults>>
      BY <2>5 DEF Register
    <3> QED
      BY <3>1, <3>2, <3>3, <3>4, <3>5, <1>t DEF TypeOK
  <2>6. CASE Rejected(l)
    <3>1. loop' \in [Loops -> [at : LoopStep, conn : Conns \cup {NoConn}]]
      BY <2>6, <2>r DEF Rejected
    <3>2. interrupted' \in Nat
      BY <2>6, <1>t DEF Rejected, TypeOK
    <3> QED
      BY <3>1, <3>2, <2>6, <1>t DEF Rejected, TypeOK, reconnector
  <2>7. CASE Return(l)
    <3>1. loop' \in [Loops -> [at : LoopStep, conn : Conns \cup {NoConn}]]
      BY <2>7, <1>r, <1>t DEF Return, TypeOK
    <3> QED
      BY <3>1, <2>7, <1>t DEF Return, TypeOK, reconnector
  <2> QED
    BY <1>4, <2>1, <2>2, <2>3, <2>4, <2>5, <2>6, <2>7 DEF Loop
<1>5. ASSUME NEW c \in Conns, Drop(c) PROVE TypeOK'
  <2>1. CASE Lose(c) /\ UNCHANGED <<main, exit>>
    <3>1. /\ open' = open \ {c}
          /\ reconnecting' = (reconnecting \/ handlers[c] # 0)
          /\ UNCHANGED <<streaming, mine, handlers, current, channel, interrupted>>
          /\ loop' \in [Loops -> [at : LoopStep, conn : Conns \cup {NoConn}]]
      BY <2>1, LoseFacts
    <3>2. faults' \in 0 .. MaxFaults
      BY <1>5, <1>s DEF Drop
    <3> QED
      BY <2>1, <3>1, <3>2, <1>t DEF TypeOK
  <2>2. CASE ExitWith("uncaught")
    BY <2>2, <1>5, <1>1, <1>s DEF Drop
  <2> QED
    BY <1>5, <2>1, <2>2 DEF Drop
<1> QED
  BY <1>2, <1>3, <1>4, <1>5, <1>6 DEF Next

(***************************************************************************)
(* Nothing is left when the process has ended.                             *)
(***************************************************************************)
LEMMA ExitPreserves ==
    ASSUME NEW why, ExitWith(why), TypeOK'
    PROVE  IInv'
<1>1. main' = "exited" /\ open' = {} /\ loop' = [l \in Loops |-> NoLoop] /\ mine' = NoConn
  BY DEF ExitWith
<1>2. \A l \in Loops : loop'[l].at = "none"
  BY <1>1 DEF NoLoop
<1>3. FirstConnection'
  BY <1>1 DEF FirstConnection, Registered
<1>4. Replaced' /\ CurrentIsArmed'
  BY <1>1 DEF Replaced, CurrentIsArmed, Registered
<1>5. SingleLoop'
  BY <1>1, <1>2 DEF SingleLoop, Tries, Attempting
<1>6. SingleLoopWorks'
  BY <1>1, <1>2 DEF SingleLoopWorks
<1> QED
  BY <1>3, <1>4, <1>5, <1>6 DEF IInv

(***************************************************************************)
(* The steps of main and shutdown.                                         *)
(***************************************************************************)
LEMMA ConnectPreserves == ASSUME IInv, Connect, TypeOK' PROVE IInv'
<1>1. CASE Strike /\ ExitWith("failed")
  BY <1>1, ExitPreserves
<1>2. CASE \E c \in Conns : Obtain(c) /\ mine' = c /\ main' = "channel" /\ UNCHANGED <<exit, handlers, loop>>
  <2>1. PICK c \in Conns : Obtain(c) /\ mine' = c /\ main' = "channel" /\ UNCHANGED <<exit, handlers, loop>>
    BY <1>2
  <2>2. open = {} /\ Running = {} /\ ~reconnecting /\ \A x \in Conns : handlers[x] = 0
    BY DEF IInv, FirstConnection, Connect
  <2>3. open' = {c} /\ current' = c /\ reconnecting' = reconnecting
    BY <2>1, <2>2 DEF Obtain
  <2>4. \A l \in Loops : loop'[l].at = "none"
    BY <2>1, <2>2 DEF Running
  <2>5. FirstConnection'
    BY <2>1, <2>2, <2>3, <2>4 DEF FirstConnection, Registered, Running
  <2>6. Replaced' /\ CurrentIsArmed'
    BY <2>1 DEF Replaced, CurrentIsArmed, Registered
  <2>7. SingleLoop'
    <3>1. handlers'[c] = 0
      BY <2>1, <2>2
    <3> QED
      BY <3>1, <2>3, <2>4 DEF SingleLoop, Tries, Attempting
  <2>8. SingleLoopWorks'
    BY <2>4 DEF SingleLoopWorks
  <2> QED
    BY <2>5, <2>6, <2>7, <2>8 DEF IInv
<1> QED
  BY <1>1, <1>2 DEF Connect

LEMMA RegisterHandlersPreserves == ASSUME IInv, RegisterHandlers, TypeOK' PROVE IInv'
<1>1. /\ main = "channel" /\ main' = "topology" /\ mine \in open
      /\ handlers' = [handlers EXCEPT ![mine] = @ + 1]
      /\ UNCHANGED <<mine, open, current, reconnecting, loop, interrupted>>
  BY DEF RegisterHandlers
<1>2. Running = {} /\ ~reconnecting /\ open = {mine} /\ current = mine
  BY <1>1 DEF IInv, FirstConnection
<1>3. mine \in Conns /\ handlers[mine] = 0 /\ handlers \in [Conns -> Nat]
  BY <1>1 DEF IInv, FirstConnection, TypeOK
<1>4. handlers'[mine] = 1
  BY <1>1, <1>3
<1>5. \A l \in Loops : loop[l].at = "none"
  BY <1>2 DEF Running
<1>6. FirstConnection'
  BY <1>1, <1>2, <1>4, <1>5 DEF FirstConnection, Running
<1>7. Replaced' /\ CurrentIsArmed'
  BY <1>1, <1>2, <1>4 DEF Replaced, CurrentIsArmed
<1>8. SingleLoop'
  BY <1>1, <1>2, <1>4, <1>5 DEF SingleLoop, Tries, Attempting
<1>9. SingleLoopWorks'
  BY <1>1, <1>5 DEF SingleLoopWorks
<1> QED
  BY <1>6, <1>7, <1>8, <1>9 DEF IInv

LEMMA MainMovesPreserve ==
    ASSUME IInv, TypeOK', Registered, Registered',
           UNCHANGED <<mine, open, handlers, reconnector, loop, interrupted>>
    PROVE  IInv'
<1>1. FirstConnection'
  BY DEF IInv, FirstConnection, Registered, reconnector, Running
<1>2. Replaced'
  BY DEF IInv, Replaced, Replaces, reconnector
<1>3. CurrentIsArmed'
  BY DEF IInv, CurrentIsArmed, reconnector
<1>4. SingleLoop'
  BY DEF IInv, SingleLoop, Tries, reconnector
<1>5. SingleLoopWorks'
  BY DEF IInv, SingleLoopWorks, reconnector
<1> QED
  BY <1>1, <1>2, <1>3, <1>4, <1>5 DEF IInv

LEMMA MainPreserves == ASSUME IInv, Main \/ Signal, TypeOK' PROVE IInv'
<1>1. CASE Connect
  BY <1>1, ConnectPreserves
<1>2. CASE MainFails
  BY <1>2, ExitPreserves DEF MainFails
<1>3. CASE RegisterHandlers
  BY <1>3, RegisterHandlersPreserves
<1>4. CASE MainReply
  <2>1. Registered /\ Registered'
    BY <1>4 DEF MainReply, MainNext, Registered
  <2> QED
    BY <2>1, <1>4, MainMovesPreserve DEF MainReply
<1>5. CASE CloseApp
  BY <1>5, MainMovesPreserve DEF CloseApp, Registered
<1>6. CASE CloseConnection
  BY <1>6, LosePreserves DEF CloseConnection
<1>7. CASE CloseDb
  BY <1>7, ExitPreserves DEF CloseDb
<1>8. CASE Signal
  BY <1>8, MainMovesPreserve DEF Signal, Registered
<1> QED
  BY <1>1, <1>2, <1>3, <1>4, <1>5, <1>6, <1>7, <1>8 DEF Main

(***************************************************************************)
(* The steps of a loop.  A loop runs only after the first connection died. *)
(***************************************************************************)
LEMMA LoopRuns ==
    ASSUME IInv, NEW l \in Loops, loop[l].at # "none", main # "exited"
    PROVE  Registered /\ mine \notin open
<1>1. Running # {}
  BY DEF Running
<1> QED
  BY <1>1 DEF IInv, FirstConnection, Registered

\* One loop moves on, and only it.
LEMMA MoveFacts ==
    ASSUME IInv, NEW l \in Loops, NEW at, NEW c, Move(l, at, c)
    PROVE  /\ loop'[l].at = at /\ loop'[l].conn = c
           /\ \A k \in Loops : k # l => loop'[k] = loop[k]
BY DEF IInv, TypeOK, Move

LEMMA RetryFacts ==
    ASSUME IInv, NEW l \in Loops, Retry(l)
    PROVE  /\ loop'[l].at = "sleep"
           /\ \A k \in Loops : k # l => loop'[k] = loop[k]
BY DEF IInv, TypeOK, Retry, Asleep

\* A step of one loop that touches neither connections nor handlers keeps the
\* invariant when the loop goes on replacing what it replaced.
LEMMA QuietMovePreserves ==
    ASSUME IInv, TypeOK', NEW l \in Loops, loop[l].at # "none", main # "exited",
           UNCHANGED <<main, mine, open, handlers, reconnector>>,
           \A k \in Loops : k # l => loop'[k] = loop[k],
           interrupted' = 0 => interrupted = 0,
           current \notin open /\ Replaces(l) => Replaces(l)',
           current \in open /\ loop[l].conn = current /\ loop[l].at \in {"channel", "opened"}
               => loop'[l].conn = current /\ loop'[l].at \in {"channel", "opened"},
           interrupted' = 0 /\ Tries(l)' =>
               /\ Tries(l)
               /\ loop'[l].at \in {"sleep", "connect"} => open = {}
               /\ loop'[l].at \in {"channel", "opened"} => loop'[l].conn = current
    PROVE  IInv'
<1>1. Registered /\ mine \notin open
  BY LoopRuns
<1>u. UNCHANGED <<main, mine, open, handlers, current>>
  BY DEF reconnector
<1>2. FirstConnection'
  BY <1>1, <1>u DEF FirstConnection, Registered
<1>3. Replaced'
  <2> SUFFICES ASSUME current \notin open PROVE \E k \in Loops : Replaces(k)'
    BY <1>u DEF Replaced
  <2>1. PICK k \in Loops : Replaces(k)
    BY <1>1 DEF IInv, Replaced
  <2>2. CASE k = l
    BY <2>1, <2>2
  <2>3. CASE k # l
    BY <2>1, <2>3, <1>u DEF Replaces
  <2> QED
    BY <2>2, <2>3
<1>4. CurrentIsArmed'
  <2> SUFFICES ASSUME current \in open, handlers[current] = 0
               PROVE  \E k \in Loops : loop'[k].conn = current /\ loop'[k].at \in {"channel", "opened"}
    BY <1>u DEF CurrentIsArmed
  <2>1. PICK k \in Loops : loop[k].conn = current /\ loop[k].at \in {"channel", "opened"}
    BY <1>1 DEF IInv, CurrentIsArmed
  <2>2. CASE k = l
    BY <2>1, <2>2
  <2>3. CASE k # l
    BY <2>1, <2>3
  <2> QED
    BY <2>2, <2>3
<1>5. ASSUME interrupted' = 0, NEW k \in Loops PROVE Tries(k)' => Tries(k)
  BY <1>5 DEF Tries
<1>6. SingleLoop'
  BY <1>5, <1>u DEF IInv, SingleLoop
<1>7. SingleLoopWorks'
  <2> SUFFICES ASSUME interrupted' = 0, NEW k \in Loops
               PROVE  /\ loop'[k].at \in {"sleep", "connect"} => open = {}
                      /\ loop'[k].at \in {"channel", "opened"} => loop'[k].conn = current
    BY <1>u DEF SingleLoopWorks
  <2>1. CASE k = l
    BY <2>1 DEF Tries, Attempting
  <2>2. CASE k # l
    BY <2>2 DEF IInv, SingleLoopWorks
  <2> QED
    BY <2>1, <2>2
<1> QED
  BY <1>2, <1>3, <1>4, <1>6, <1>7 DEF IInv

LEMMA WakePreserves ==
    ASSUME IInv, TypeOK', NEW l \in Loops, main # "exited", Wake(l)
    PROVE  IInv'
<1>1. /\ loop[l].at = "sleep" /\ loop'[l].at = "connect"
      /\ UNCHANGED <<main, mine, open, handlers, reconnector, interrupted>>
      /\ \A k \in Loops : k # l => loop'[k] = loop[k]
  BY MoveFacts DEF Wake
<1>2. interrupted = 0 => open = {}
  BY <1>1 DEF IInv, SingleLoopWorks
<1>q. /\ loop[l].at # "none"
      /\ current \notin open /\ Replaces(l) => Replaces(l)'
      /\ current \in open /\ loop[l].conn = current /\ loop[l].at \in {"channel", "opened"}
             => loop'[l].conn = current /\ loop'[l].at \in {"channel", "opened"}
      /\ interrupted' = 0 /\ Tries(l)' =>
             /\ Tries(l)
             /\ loop'[l].at \in {"sleep", "connect"} => open = {}
             /\ loop'[l].at \in {"channel", "opened"} => loop'[l].conn = current
  BY <1>1, <1>2 DEF Replaces, Tries, Attempting, reconnector
<1> QED
  BY <1>1, <1>2, <1>q, QuietMovePreserves

LEMMA RefusedPreserves ==
    ASSUME IInv, TypeOK', NEW l \in Loops, main # "exited", Refused(l)
    PROVE  IInv'
<1>1. /\ loop[l].at = "connect" /\ loop'[l].at = "sleep"
      /\ UNCHANGED <<main, mine, open, handlers, reconnector, interrupted>>
      /\ \A k \in Loops : k # l => loop'[k] = loop[k]
  BY RetryFacts DEF Refused
<1>2. interrupted = 0 => open = {}
  BY <1>1 DEF IInv, SingleLoopWorks
<1>q. /\ loop[l].at # "none"
      /\ current \notin open /\ Replaces(l) => Replaces(l)'
      /\ current \in open /\ loop[l].conn = current /\ loop[l].at \in {"channel", "opened"}
             => loop'[l].conn = current /\ loop'[l].at \in {"channel", "opened"}
      /\ interrupted' = 0 /\ Tries(l)' =>
             /\ Tries(l)
             /\ loop'[l].at \in {"sleep", "connect"} => open = {}
             /\ loop'[l].at \in {"channel", "opened"} => loop'[l].conn = current
  BY <1>1, <1>2 DEF Replaces, Tries, Attempting, reconnector
<1> QED
  BY <1>1, <1>2, <1>q, QuietMovePreserves

LEMMA ReplyPreserves ==
    ASSUME IInv, TypeOK', NEW l \in Loops, main # "exited", Reply(l)
    PROVE  IInv'
<1>1. /\ loop[l].conn \in open /\ loop'[l].conn = loop[l].conn
      /\ \/ loop[l].at = "channel" /\ loop'[l].at = "opened"
         \/ loop[l].at = "topology" /\ loop'[l].at = "declared"
      /\ UNCHANGED <<main, mine, open, handlers, reconnector, interrupted>>
      /\ \A k \in Loops : k # l => loop'[k] = loop[k]
  BY MoveFacts DEF Reply
<1>2. interrupted = 0 /\ loop[l].at = "channel" => loop[l].conn = current
  BY DEF IInv, SingleLoopWorks
<1>3. UNCHANGED current
  BY <1>1 DEF reconnector
<1>q. /\ loop[l].at # "none"
      /\ current \notin open /\ Replaces(l) => Replaces(l)'
      /\ current \in open /\ loop[l].conn = current /\ loop[l].at \in {"channel", "opened"}
             => loop'[l].conn = current /\ loop'[l].at \in {"channel", "opened"}
      /\ interrupted' = 0 /\ Tries(l)' =>
             /\ Tries(l)
             /\ loop'[l].at \in {"sleep", "connect"} => open = {}
             /\ loop'[l].at \in {"channel", "opened"} => loop'[l].conn = current
  BY <1>1, <1>2, <1>3 DEF Replaces, Tries, Attempting, reconnector
<1> QED
  BY <1>1, <1>2, <1>q, QuietMovePreserves

LEMMA RejectedPreserves ==
    ASSUME IInv, TypeOK', NEW l \in Loops, main # "exited", Rejected(l)
    PROVE  IInv'
<1>1. /\ loop[l].at \in {"channel", "topology"} /\ loop[l].conn \notin open
      /\ loop'[l].at = "sleep"
      /\ UNCHANGED <<main, mine, open, handlers, reconnector>>
      /\ \A k \in Loops : k # l => loop'[k] = loop[k]
  BY RetryFacts DEF Rejected
<1>2. interrupted' = 0 => interrupted = 0 /\ loop[l].at = "channel"
  <2>1. interrupted \in Nat
    BY DEF IInv, TypeOK
  <2> QED
    BY <1>1, <2>1 DEF Rejected
<1>3. interrupted' = 0 => open = {}
  BY <1>1, <1>2 DEF IInv, SingleLoop, SingleLoopWorks
<1>q. /\ loop[l].at # "none"
      /\ current \notin open /\ Replaces(l) => Replaces(l)'
      /\ current \in open /\ loop[l].conn = current /\ loop[l].at \in {"channel", "opened"}
             => loop'[l].conn = current /\ loop'[l].at \in {"channel", "opened"}
      /\ interrupted' = 0 /\ Tries(l)' =>
             /\ Tries(l)
             /\ loop'[l].at \in {"sleep", "connect"} => open = {}
             /\ loop'[l].at \in {"channel", "opened"} => loop'[l].conn = current
  BY <1>1, <1>2, <1>3 DEF Replaces, Tries, Attempting, reconnector
<1> QED
  BY <1>1, <1>2, <1>q, QuietMovePreserves

LEMMA ReturnPreserves ==
    ASSUME IInv, TypeOK', NEW l \in Loops, main # "exited", Return(l)
    PROVE  IInv'
<1>1. /\ loop[l].at = "declared" /\ loop'[l].at = "none"
      /\ UNCHANGED <<main, mine, open, handlers, reconnector, interrupted>>
      /\ \A k \in Loops : k # l => loop'[k] = loop[k]
  BY DEF Return, IInv, TypeOK, NoLoop
<1>q. /\ loop[l].at # "none"
      /\ current \notin open /\ Replaces(l) => Replaces(l)'
      /\ current \in open /\ loop[l].conn = current /\ loop[l].at \in {"channel", "opened"}
             => loop'[l].conn = current /\ loop'[l].at \in {"channel", "opened"}
      /\ interrupted' = 0 /\ Tries(l)' =>
             /\ Tries(l)
             /\ loop'[l].at \in {"sleep", "connect"} => open = {}
             /\ loop'[l].at \in {"channel", "opened"} => loop'[l].conn = current
  BY <1>1 DEF Replaces, Tries, Attempting, reconnector
<1> QED
  BY <1>1, <1>q, QuietMovePreserves

(***************************************************************************)
(* A new connection: it replaces current, and while nothing was ever       *)
(* interrupted there was none to replace (reconnect.ts, line 92).          *)
(***************************************************************************)
LEMMA ReconnectPreserves ==
    ASSUME IInv, TypeOK', NEW l \in Loops, main # "exited", Reconnect(l)
    PROVE  IInv'
<1>1. PICK c \in Conns : Obtain(c) /\ handlers' = [handlers EXCEPT ![c] = 0] /\ Move(l, "channel", c)
  BY DEF Reconnect
<1>2. /\ open' = open \cup {c} /\ current' = c /\ c \notin open /\ c # mine
      /\ handlers'[c] = 0 /\ UNCHANGED <<main, mine, interrupted>>
      /\ loop[l].at = "connect" /\ loop'[l].at = "channel" /\ loop'[l].conn = c
      /\ \A k \in Loops : k # l => loop'[k] = loop[k]
  BY <1>1, MoveFacts DEF Reconnect, Obtain, Free, IInv, TypeOK
<1>3. Registered /\ mine \notin open
  BY <1>2, LoopRuns
<1>4. FirstConnection'
  BY <1>2, <1>3 DEF FirstConnection, Registered
<1>5. Replaced' /\ CurrentIsArmed'
  BY <1>2 DEF Replaced, CurrentIsArmed
<1>6. ASSUME interrupted = 0 PROVE open = {} /\ \A k \in Loops : k # l => ~Tries(k)
  <2>1. Tries(l)
    BY <1>2 DEF Tries, Attempting
  <2> QED
    BY <1>2, <1>6, <2>1 DEF IInv, SingleLoop, SingleLoopWorks
<1>7. SingleLoop'
  <2> SUFFICES ASSUME interrupted = 0
               PROVE  /\ \A j, k \in Loops : Tries(j)' /\ Tries(k)' => j = k
                      /\ \A x \in open' : x = current' /\ handlers'[x] = 0
    BY <1>2 DEF SingleLoop
  <2>1. \A k \in Loops : k # l => ~Tries(k)'
    BY <1>2, <1>6 DEF Tries
  <2> QED
    BY <2>1, <1>2, <1>6
<1>8. SingleLoopWorks'
  <2> SUFFICES ASSUME interrupted = 0, NEW k \in Loops
               PROVE  /\ loop'[k].at \in {"sleep", "connect"} => open' = {}
                      /\ loop'[k].at \in {"channel", "opened"} => loop'[k].conn = current'
    BY <1>2 DEF SingleLoopWorks
  <2>1. k # l => ~Tries(k)'
    BY <1>2, <1>6 DEF Tries
  <2> QED
    BY <2>1, <1>2 DEF Tries, Attempting
<1> QED
  BY <1>4, <1>5, <1>7, <1>8 DEF IInv

(***************************************************************************)
(* The close handler is registered on this.connection, which in a single   *)
(* loop is the connection of the loop (reconnect.ts, lines 93-108).        *)
(***************************************************************************)
LEMMA RegisterPreserves ==
    ASSUME IInv, TypeOK', NEW l \in Loops, main # "exited", Register(l)
    PROVE  IInv'
<1>1. /\ loop[l].at = "opened" /\ handlers' = [handlers EXCEPT ![current] = @ + 1]
      /\ UNCHANGED <<main, mine, open, current>>
  BY DEF Register
<1>2. \/ /\ loop[l].conn \in open /\ interrupted' = interrupted
         /\ loop'[l].at = "topology" /\ loop'[l].conn = loop[l].conn
      \/ loop[l].conn \notin open /\ interrupted' = interrupted + 1 /\ loop'[l].at = "sleep"
  BY MoveFacts, RetryFacts DEF Register
<1>3. \A k \in Loops : k # l => loop'[k] = loop[k]
  BY MoveFacts, RetryFacts DEF Register
<1>4. Registered /\ mine \notin open
  BY <1>1, LoopRuns
<1>5. FirstConnection'
  BY <1>1, <1>4 DEF FirstConnection, Registered
<1>6. Replaced'
  <2> SUFFICES ASSUME current \notin open PROVE \E k \in Loops : Replaces(k)'
    BY <1>1 DEF Replaced
  <2>1. PICK k \in Loops : Replaces(k)
    BY <1>4 DEF IInv, Replaced
  <2>2. CASE k = l
    BY <2>1, <2>2, <1>1, <1>2 DEF Replaces
  <2>3. CASE k # l
    BY <2>1, <2>3, <1>1, <1>3 DEF Replaces
  <2> QED
    BY <2>2, <2>3
<1>t. handlers \in [Conns -> Nat] /\ open \subseteq Conns /\ interrupted \in Nat
  BY DEF IInv, TypeOK
<1>7. CurrentIsArmed'
  BY <1>1, <1>t DEF CurrentIsArmed
<1>8. ASSUME interrupted' = 0
      PROVE  /\ interrupted = 0 /\ loop'[l].at = "topology"
             /\ \A k \in Loops : ~Tries(k)'
  <2>1. interrupted = 0 /\ loop'[l].at = "topology"
    BY <1>2, <1>8, <1>t
  <2>2. Tries(l)
    BY <1>1 DEF Tries, Attempting
  <2>3. \A k \in Loops : k # l => ~Tries(k)
    BY <2>1, <2>2 DEF IInv, SingleLoop
  <2> QED
    BY <2>1, <2>3, <1>3 DEF Tries, Attempting
<1>9. SingleLoop'
  <2> SUFFICES ASSUME interrupted' = 0, NEW c \in open PROVE c = current /\ handlers'[c] <= 1
    BY <1>8, <1>1 DEF SingleLoop
  <2>1. Tries(l)
    BY <1>1 DEF Tries, Attempting
  <2>2. c = current /\ handlers[c] = 0
    BY <1>8, <2>1 DEF IInv, SingleLoop
  <2> QED
    BY <2>2, <1>1, <1>t
<1>10. SingleLoopWorks'
  BY <1>8 DEF SingleLoopWorks, Tries, Attempting
<1> QED
  BY <1>5, <1>6, <1>7, <1>9, <1>10 DEF IInv

----------------------------------------------------------------------------
(***************************************************************************)
(* The inductive invariant holds in every reachable state.                 *)
(***************************************************************************)
THEOREM Invariance == Spec => []IInv
<1>1. Init => IInv
  <2> SUFFICES ASSUME Init PROVE IInv
    OBVIOUS
  <2>1. \A l \in Loops : loop[l].at = "none"
    BY DEF Init, NoLoop
  <2>2. TypeOK
    <3>1. NoLoop \in [at : LoopStep, conn : Conns \cup {NoConn}]
      BY DEF NoLoop, LoopStep
    <3>2. loop \in [Loops -> [at : LoopStep, conn : Conns \cup {NoConn}]]
      BY <3>1 DEF Init
    <3>3. faults \in 0 .. MaxFaults /\ interrupted \in Nat /\ handlers \in [Conns -> Nat]
      BY DEF Init
    <3> QED
      BY <3>2, <3>3 DEF Init, TypeOK, Starting
  <2>3. FirstConnection
    <3>1. Running = {}
      BY <2>1 DEF Running
    <3>2. mine \notin open /\ main = "connect" /\ \A c \in Conns : handlers[c] = 0
      BY DEF Init
    <3> QED
      BY <3>1, <3>2 DEF Init, FirstConnection, Registered
  <2>4. Replaced /\ CurrentIsArmed
    BY DEF Init, Replaced, CurrentIsArmed, Registered
  <2>5. SingleLoop /\ SingleLoopWorks
    BY <2>1 DEF Init, SingleLoop, SingleLoopWorks, Tries, Attempting
  <2> QED
    BY <2>2, <2>3, <2>4, <2>5 DEF IInv
<1>2. IInv /\ [Next]_vars => IInv'
  <2> SUFFICES ASSUME IInv, [Next]_vars PROVE IInv'
    OBVIOUS
  <2>t. TypeOK'
    BY TypeStep
  <2>1. CASE Main \/ Signal
    BY <2>1, <2>t, MainPreserves
  <2>2. ASSUME NEW l \in Loops, Loop(l) PROVE IInv'
    BY <2>2, <2>t, WakePreserves, ReconnectPreserves, RefusedPreserves, ReplyPreserves,
       RegisterPreserves, RejectedPreserves, ReturnPreserves DEF Loop, Up
  <2>3. ASSUME NEW c \in Conns, Drop(c) PROVE IInv'
    BY <2>3, <2>t, LosePreserves, ExitPreserves DEF Drop
  <2>4. CASE UNCHANGED vars \/ OpenStream \/ EndStreams
    <3>1. UNCHANGED <<main, mine, open, handlers, reconnector, loop, interrupted>>
      BY <2>4 DEF vars, OpenStream, EndStreams
    <3> QED
      BY <3>1, <2>t DEF IInv, reconnector, FirstConnection, Registered, Running, Replaced,
         Replaces, CurrentIsArmed, SingleLoop, Tries, SingleLoopWorks
  <2> QED
    BY <2>1, <2>2, <2>3, <2>4 DEF Next
<1> QED
  BY <1>1, <1>2, PTL DEF Spec

(***************************************************************************)
(* The reconnector never waits for ever: while this.connection is dead a   *)
(* loop works on a new one (reconnect.ts, lines 70-73 and 91-114).         *)
(***************************************************************************)
THEOREM AlwaysReplaced == Spec => []NeverStranded
<1>1. IInv => NeverStranded
  BY DEF IInv, Replaced, Replaces, NeverStranded, Registered, Up, Tries, Attempting
<1> QED
  BY <1>1, Invariance, PTL

(***************************************************************************)
(* One loop and one connection at a time, unless onReconnect was           *)
(* interrupted (reconnect.ts, lines 80 and 95-111).                        *)
(***************************************************************************)
THEOREM OneLoop == Spec => []SingleLoop
<1>1. IInv => SingleLoop
  BY DEF IInv
<1> QED
  BY <1>1, Invariance, PTL

(***************************************************************************)
(* Without an interruption no loop takes a working connection away         *)
(* (reconnect.ts, line 92).                                                *)
(***************************************************************************)
THEOREM HealthyConnectionIsKept == Spec => HealthyIsKept
<1>1. ASSUME IInv, Next, current' # current, Up', interrupted = 0 PROVE current \notin open
  <2>1. CASE Main \/ Signal
    <3>1. CASE Connect
      BY <1>1, <3>1 DEF Connect, IInv, FirstConnection
    <3>2. CASE MainFails \/ CloseDb
      BY <1>1, <3>2 DEF MainFails, CloseDb, ExitWith, Up
    <3>3. CASE RegisterHandlers \/ MainReply \/ CloseApp \/ CloseConnection \/ Signal
      <4>1. CASE CloseConnection
        BY <1>1, <4>1 DEF CloseConnection, Lose
      <4>2. CASE RegisterHandlers
        BY <1>1, <4>2 DEF RegisterHandlers
      <4>3. CASE MainReply \/ CloseApp \/ Signal
        BY <1>1, <4>3 DEF MainReply, CloseApp, Signal, reconnector
      <4> QED
        BY <3>3, <4>1, <4>2, <4>3
    <3> QED
      BY <2>1, <3>1, <3>2, <3>3 DEF Main
  <2>2. ASSUME NEW l \in Loops, Loop(l) PROVE current \notin open
    <3>1. Reconnect(l)
      BY <1>1, <2>2 DEF Loop, Wake, Refused, Reply, Register, Rejected, Return, reconnector
    <3> QED
      BY <1>1, <3>1 DEF Reconnect, IInv, SingleLoopWorks
  <2>3. ASSUME NEW c \in Conns, Drop(c) PROVE FALSE
    BY <1>1, <2>3 DEF Drop, Lose, ExitWith, Up
  <2>4. CASE OpenStream \/ EndStreams
    BY <1>1, <2>4 DEF OpenStream, EndStreams, reconnector
  <2> QED
    BY <1>1, <2>1, <2>2, <2>3, <2>4 DEF Next
<1>2. IInv /\ [Next]_vars => [current' # current /\ Up' /\ interrupted = 0 => current \notin open]_vars
  BY <1>1
<1> QED
  BY <1>2, Invariance, PTL DEF Spec, HealthyIsKept

----------------------------------------------------------------------------
(***************************************************************************)
(* Counting loops and close handlers.  A close handler of an open          *)
(* connection is a loop to come: losing the connection turns handlers into *)
(* loops, registering turns the loop back into a handler, and only an      *)
(* interrupted onReconnect has both.                                       *)
(***************************************************************************)
Trying == {l \in Loops : Tries(l)}

ArmsOf(c) == {<<c, i>> : i \in 1 .. handlers[c]}

Balance ==
    /\ IsFiniteSet(Trying)
    /\ IsFiniteSet(Armed)
    /\ interrupted \in Nat
    /\ Cardinality(Trying) + Cardinality(Armed) <= 1 + interrupted

LEMMA ArmedMembers ==
    \A x : x \in Armed <=> \E c \in open : \E i \in 1 .. handlers[c] : x = <<c, i>>
BY DEF Armed

LEMMA ArmsCount ==
    ASSUME NEW c \in Conns, handlers[c] \in Nat
    PROVE  IsFiniteSet(ArmsOf(c)) /\ Cardinality(ArmsOf(c)) = handlers[c]
<1> DEFINE n == handlers[c]
           f == [i \in 1 .. n |-> <<c, i>>]
<1>1. f \in Bijection(1 .. n, ArmsOf(c))
  <2>1. f \in [1 .. n -> ArmsOf(c)]
    BY DEF ArmsOf
  <2>2. \A i, j \in 1 .. n : f[i] = f[j] => i = j
    OBVIOUS
  <2>3. \A x \in ArmsOf(c) : \E i \in 1 .. n : f[i] = x
    BY DEF ArmsOf
  <2> HIDE DEF f
  <2> QED
    BY <2>1, <2>2, <2>3 DEF Bijection, Injection, IsInjective, Surjection
<1>2. IsFiniteSet(1 .. n) /\ Cardinality(1 .. n) = n
  BY FS_Interval
<1> QED
  BY <1>1, <1>2, FS_Bijection DEF ExistsBijection

\* A set with at most one element more.
LEMMA AtMostOneMore ==
    ASSUME NEW S, IsFiniteSet(S), NEW x, NEW T, T \subseteq S \cup {x}
    PROVE  /\ IsFiniteSet(T)
           /\ Cardinality(T) \in Nat /\ Cardinality(S) \in Nat
           /\ Cardinality(T) <= Cardinality(S) + 1
<1>0. Cardinality(S) \in Nat
  BY FS_CardinalityType
<1>1. IsFiniteSet(S \cup {x}) /\ Cardinality(S \cup {x}) <= Cardinality(S) + 1
  <2>1. /\ IsFiniteSet(S \cup {x})
        /\ Cardinality(S \cup {x}) = IF x \in S THEN Cardinality(S) ELSE Cardinality(S) + 1
    BY FS_AddElement
  <2> QED
    BY <1>0, <2>1
<1>2. IsFiniteSet(T) /\ Cardinality(T) <= Cardinality(S \cup {x})
  BY <1>1, FS_Subset
<1>3. Cardinality(T) \in Nat /\ Cardinality(S) \in Nat /\ Cardinality(S \cup {x}) \in Nat
  BY <1>1, <1>2, FS_CardinalityType
<1> QED
  BY <1>1, <1>2, <1>3

LEMMA NoMorePreserves ==
    ASSUME Balance, Trying' \subseteq Trying, Armed' \subseteq Armed,
           interrupted' = interrupted
    PROVE  Balance'
<1>1. IsFiniteSet(Trying') /\ Cardinality(Trying') <= Cardinality(Trying)
  BY FS_Subset DEF Balance
<1>2. IsFiniteSet(Armed') /\ Cardinality(Armed') <= Cardinality(Armed)
  BY FS_Subset DEF Balance
<1>3. /\ Cardinality(Trying) \in Nat /\ Cardinality(Armed) \in Nat
      /\ Cardinality(Trying') \in Nat /\ Cardinality(Armed') \in Nat
  BY <1>1, <1>2, FS_CardinalityType DEF Balance
<1> QED
  BY <1>1, <1>2, <1>3 DEF Balance

\* What a step that moves no loop in or out of its attempt does to the count.
LEMMA SameHandlers ==
    ASSUME UNCHANGED <<open, handlers>>
    PROVE  Armed' = Armed
BY DEF Armed

LEMMA ExitBalances == ASSUME NEW why, ExitWith(why) PROVE Balance'
<1>1. Trying' = {}
  BY DEF ExitWith, Trying, Tries, NoLoop, Attempting
<1>2. Armed' = {}
  BY DEF ExitWith, Armed
<1>3. interrupted' = 0
  BY DEF ExitWith
<1> QED
  BY <1>1, <1>2, <1>3, FS_EmptySet DEF Balance

(***************************************************************************)
(* The handlers of a lost connection start no more loops than they are.    *)
(***************************************************************************)
LEMMA LoseBalances ==
    ASSUME IInv, Balance, NEW c \in open, Lose(c)
    PROVE  Balance'
<1>1. c \in Conns /\ handlers \in [Conns -> Nat] /\ open \subseteq Conns
  BY DEF IInv, TypeOK
<1>2. PICK S : /\ S \subseteq Loops \ Running
               /\ IsFiniteSet(S) /\ Cardinality(S) = Started(c)
               /\ loop' = [l \in Loops |-> IF l \in S THEN Asleep ELSE loop[l]]
  BY DEF Lose
<1>3. open' = open \ {c} /\ handlers' = handlers /\ interrupted' = interrupted
  BY DEF Lose
<1>4. Trying' \subseteq Trying \cup S
  BY <1>2 DEF Trying, Tries
<1>5. Cardinality(S) <= handlers[c] /\ handlers[c] \in Nat /\ Cardinality(S) \in Nat
  BY <1>1, <1>2 DEF Started
<1>6. /\ IsFiniteSet(Trying')
      /\ Cardinality(Trying') <= Cardinality(Trying) + Cardinality(S)
  <2>1. /\ IsFiniteSet(Trying \cup S) /\ IsFiniteSet(Trying \cap S)
        /\ Cardinality(Trying \cup S) =
               Cardinality(Trying) + Cardinality(S) - Cardinality(Trying \cap S)
    BY <1>2, FS_Union, FS_Intersection DEF Balance
  <2>2. IsFiniteSet(Trying') /\ Cardinality(Trying') <= Cardinality(Trying \cup S)
    BY <1>4, <2>1, FS_Subset
  <2>3. /\ Cardinality(Trying) \in Nat /\ Cardinality(Trying') \in Nat
        /\ Cardinality(Trying \cap S) \in Nat
    BY <2>1, <2>2, FS_CardinalityType DEF Balance
  <2> QED
    BY <1>5, <2>1, <2>2, <2>3
<1>7. IsFiniteSet(ArmsOf(c)) /\ Cardinality(ArmsOf(c)) = handlers[c]
  BY <1>1, ArmsCount
<1>8. Armed = Armed' \cup ArmsOf(c) /\ Armed' \cap ArmsOf(c) = {}
  BY <1>3 DEF Armed, ArmsOf
<1>9. /\ IsFiniteSet(Armed')
      /\ Cardinality(Armed) = Cardinality(Armed') + handlers[c]
  <2>1. IsFiniteSet(Armed')
    BY <1>8, FS_Subset DEF Balance
  <2>2. Cardinality(Armed) =
            Cardinality(Armed') + Cardinality(ArmsOf(c)) - Cardinality(Armed' \cap ArmsOf(c))
    BY <1>7, <1>8, <2>1, FS_Union
  <2>3. Cardinality(Armed' \cap ArmsOf(c)) = 0 /\ Cardinality(Armed') \in Nat
    BY <1>8, <2>1, FS_EmptySet, FS_CardinalityType
  <2> QED
    BY <1>5, <1>7, <2>1, <2>2, <2>3
<1>10. /\ Cardinality(Trying) \in Nat /\ Cardinality(Trying') \in Nat
       /\ Cardinality(Armed) \in Nat /\ Cardinality(Armed') \in Nat
  BY <1>6, <1>9, FS_CardinalityType DEF Balance
<1> QED
  BY <1>3, <1>5, <1>6, <1>9, <1>10 DEF Balance

(***************************************************************************)
(* main registers the first close handler when there is nothing else.      *)
(***************************************************************************)
LEMMA RegisterHandlersBalances ==
    ASSUME IInv, Balance, RegisterHandlers
    PROVE  Balance'
<1>1. /\ main = "channel" /\ mine \in open /\ UNCHANGED <<open, loop, interrupted>>
      /\ handlers' = [handlers EXCEPT ![mine] = @ + 1]
  BY DEF RegisterHandlers
<1>2. Running = {} /\ open \subseteq {mine}
  BY <1>1 DEF IInv, FirstConnection
<1>3. mine \in Conns /\ handlers \in [Conns -> Nat] /\ handlers[mine] = 0
  BY <1>1 DEF IInv, TypeOK, FirstConnection
<1>4. handlers'[mine] = 1
  BY <1>1, <1>3
<1>5. Trying' = {}
  BY <1>1, <1>2 DEF Running, Trying, Tries, Attempting
<1>6. Armed' \subseteq {<<mine, 1>>}
  BY <1>1, <1>2, <1>4 DEF Armed
<1>7. IsFiniteSet({<<mine, 1>>}) /\ Cardinality({<<mine, 1>>}) = 1
  BY FS_Singleton
<1>8. IsFiniteSet(Armed') /\ Cardinality(Armed') <= 1
  BY <1>6, <1>7, FS_Subset
<1>9. Cardinality(Armed') \in Nat
  BY <1>8, FS_CardinalityType
<1> QED
  BY <1>1, <1>5, <1>8, <1>9, FS_EmptySet DEF Balance

\* A new connection brings no handler: main has none yet, and a loop's object
\* is new.
LEMMA ObtainBalances ==
    ASSUME IInv, Balance, NEW c \in Conns, Obtain(c), handlers'[c] = 0,
           \A x \in Conns : x # c => handlers'[x] = handlers[x],
           Trying' \subseteq Trying
    PROVE  Balance'
<1>1. open' = open \cup {c} /\ interrupted' = interrupted /\ open \subseteq Conns
  BY DEF Obtain, IInv, TypeOK
<1>2. ASSUME NEW x \in open', NEW i \in 1 .. handlers'[x] PROVE <<x, i>> \in Armed
  <2>1. x # c /\ x \in open
    BY <1>1, <1>2
  <2>2. handlers'[x] = handlers[x]
    BY <1>1, <2>1
  <2> QED
    BY <1>2, <2>1, <2>2, ArmedMembers
<1>3. Armed' \subseteq Armed
  BY <1>2 DEF Armed
<1> QED
  BY <1>1, <1>3, NoMorePreserves

LEMMA MainBalances == ASSUME IInv, Balance, Main \/ Signal PROVE Balance'
<1>1. CASE Connect
  <2>1. CASE Strike /\ ExitWith("failed")
    BY <2>1, ExitBalances
  <2>2. CASE \E c \in Conns : Obtain(c) /\ main' = "channel" /\ UNCHANGED <<handlers, loop>>
    <3>1. PICK c \in Conns : Obtain(c) /\ UNCHANGED <<handlers, loop>>
      BY <2>2
    <3>2. handlers[c] = 0
      BY <1>1 DEF Connect, IInv, FirstConnection
    <3>3. Trying' = Trying
      BY <3>1 DEF Trying, Tries
    <3> QED
      BY <3>1, <3>2, <3>3, ObtainBalances
  <2> QED
    BY <1>1, <2>1, <2>2 DEF Connect
<1>2. CASE MainFails \/ CloseDb
  BY <1>2, ExitBalances DEF MainFails, CloseDb
<1>3. CASE RegisterHandlers
  BY <1>3, RegisterHandlersBalances
<1>4. CASE MainReply \/ CloseApp \/ Signal
  <2>1. UNCHANGED <<open, handlers, loop, interrupted>>
    BY <1>4 DEF MainReply, CloseApp, Signal
  <2>2. Trying' = Trying
    BY <2>1 DEF Trying, Tries
  <2> QED
    BY <2>1, <2>2, SameHandlers, NoMorePreserves
<1>5. CASE CloseConnection
  BY <1>5, LoseBalances DEF CloseConnection
<1> QED
  BY <1>1, <1>2, <1>3, <1>4, <1>5 DEF Main

\* A loop that tries before and after its step, or after it no more.
LEMMA StillTrying ==
    ASSUME NEW l \in Loops, \A k \in Loops : k # l => loop'[k] = loop[k],
           loop'[l].at \in Attempting => loop[l].at \in Attempting
    PROVE  Trying' \subseteq Trying
BY DEF Trying, Tries

\* The close handler of Register goes to one connection.
LEMMA OneHandlerMore ==
    ASSUME IInv, NEW l \in Loops, Register(l)
    PROVE  Armed' \subseteq Armed \cup {<<current, handlers[current] + 1>>}
<1>1. handlers' = [handlers EXCEPT ![current] = @ + 1] /\ open' = open
  BY DEF Register
<1>2. handlers \in [Conns -> Nat] /\ open \subseteq Conns
  BY DEF IInv, TypeOK
<1>3. ASSUME NEW x \in open, NEW i \in 1 .. handlers'[x]
      PROVE  <<x, i>> \in Armed \cup {<<current, handlers[current] + 1>>}
  <2>1. x \in Conns /\ handlers[x] \in Nat
    BY <1>2
  <2>2. CASE i \in 1 .. handlers[x]
    BY <2>2, ArmedMembers
  <2>3. CASE i \notin 1 .. handlers[x]
    <3>1. x = current /\ handlers'[x] = handlers[x] + 1
      BY <1>1, <1>2, <1>3, <2>1, <2>3
    <3> QED
      BY <1>3, <2>1, <2>3, <3>1
  <2> QED
    BY <2>2, <2>3
<1> QED
  BY <1>1, <1>3 DEF Armed

LEMMA RegisterBalances ==
    ASSUME IInv, Balance, NEW l \in Loops, Register(l)
    PROVE  Balance'
<1>1. l \in Trying
  BY DEF Register, Trying, Tries, Attempting
<1>2. /\ IsFiniteSet(Armed')
      /\ Cardinality(Armed') \in Nat /\ Cardinality(Armed) \in Nat
      /\ Cardinality(Armed') <= Cardinality(Armed) + 1
  BY OneHandlerMore, AtMostOneMore DEF Balance
<1>3. Cardinality(Trying) \in Nat
  BY FS_CardinalityType DEF Balance
<1>4. CASE loop[l].conn \in open
  <2>1. Move(l, "topology", loop[l].conn) /\ interrupted' = interrupted
    BY <1>4 DEF Register
  <2>2. Trying' \subseteq Trying \ {l}
    BY <2>1, MoveFacts DEF Trying, Tries, Attempting
  <2>3. IsFiniteSet(Trying \ {l}) /\ Cardinality(Trying \ {l}) = Cardinality(Trying) - 1
    BY <1>1, FS_RemoveElement DEF Balance
  <2>4. IsFiniteSet(Trying') /\ Cardinality(Trying') <= Cardinality(Trying \ {l})
    BY <2>2, <2>3, FS_Subset
  <2>5. Cardinality(Trying') \in Nat
    BY <2>4, FS_CardinalityType
  <2> QED
    BY <1>2, <1>3, <2>1, <2>3, <2>4, <2>5 DEF Balance
<1>5. CASE loop[l].conn \notin open
  <2>1. Retry(l) /\ interrupted' = interrupted + 1
    BY <1>5 DEF Register
  <2>2. Trying' \subseteq Trying
    BY <1>1, <2>1, RetryFacts DEF Trying, Tries
  <2>3. IsFiniteSet(Trying') /\ Cardinality(Trying') <= Cardinality(Trying)
    BY <2>2, FS_Subset DEF Balance
  <2>4. Cardinality(Trying') \in Nat
    BY <2>3, FS_CardinalityType
  <2> QED
    BY <1>2, <1>3, <2>1, <2>3, <2>4 DEF Balance
<1> QED
  BY <1>4, <1>5

LEMMA RejectedBalances ==
    ASSUME IInv, Balance, NEW l \in Loops, Rejected(l)
    PROVE  Balance'
<1>1. Retry(l) /\ UNCHANGED <<open, handlers>>
  BY DEF Rejected
<1>2. Armed' = Armed
  BY <1>1, SameHandlers
<1>3. CASE loop[l].at = "topology"
  <2>1. interrupted' = interrupted + 1
    BY <1>3 DEF Rejected
  <2>2. Trying' \subseteq Trying \cup {l}
    BY <1>1, RetryFacts DEF Trying, Tries
  <2>3. /\ IsFiniteSet(Trying')
        /\ Cardinality(Trying') \in Nat /\ Cardinality(Trying) \in Nat
        /\ Cardinality(Trying') <= Cardinality(Trying) + 1
    BY <2>2, AtMostOneMore DEF Balance
  <2>4. Cardinality(Armed) \in Nat
    BY FS_CardinalityType DEF Balance
  <2> QED
    BY <1>2, <2>1, <2>3, <2>4 DEF Balance
<1>4. CASE loop[l].at = "channel"
  <2>1. interrupted' = interrupted
    BY <1>4 DEF Rejected, Balance
  <2>2. Trying' \subseteq Trying
    BY <1>1, <1>4, RetryFacts, StillTrying DEF Attempting
  <2> QED
    BY <1>2, <2>1, <2>2, NoMorePreserves
<1> QED
  BY <1>3, <1>4 DEF Rejected

LEMMA LoopBalances ==
    ASSUME IInv, Balance, NEW l \in Loops, Loop(l)
    PROVE  Balance'
<1>1. CASE Reconnect(l)
  <2>1. PICK c \in Conns : /\ Obtain(c)
                           /\ handlers' = [handlers EXCEPT ![c] = 0]
                           /\ Move(l, "channel", c)
    BY <1>1 DEF Reconnect
  <2>2. Trying' \subseteq Trying
    BY <1>1, <2>1, MoveFacts, StillTrying DEF Reconnect, Attempting
  <2>3. handlers'[c] = 0 /\ \A x \in Conns : x # c => handlers'[x] = handlers[x]
    BY <2>1 DEF IInv, TypeOK
  <2> QED
    BY <2>1, <2>2, <2>3, ObtainBalances
<1>2. CASE Wake(l) \/ Refused(l) \/ Reply(l) \/ Return(l)
  <2>1. UNCHANGED <<open, handlers, interrupted>>
    BY <1>2 DEF Wake, Refused, Reply, Return
  <2>2. \A k \in Loops : k # l => loop'[k] = loop[k]
    BY <1>2 DEF IInv, TypeOK, Wake, Refused, Reply, Return, Move, Retry
  <2>3. loop'[l].at \in Attempting => loop[l].at \in Attempting
    <3>1. CASE Wake(l) \/ Refused(l)
      BY <3>1 DEF Wake, Refused, Attempting
    <3>2. CASE Reply(l)
      BY <3>2, MoveFacts DEF Reply, Attempting
    <3>3. CASE Return(l)
      BY <3>3 DEF Return, IInv, TypeOK, NoLoop, Attempting
    <3> QED
      BY <1>2, <3>1, <3>2, <3>3
  <2> QED
    BY <2>1, <2>2, <2>3, StillTrying, SameHandlers, NoMorePreserves
<1>3. CASE Register(l)
  BY <1>3, RegisterBalances
<1>4. CASE Rejected(l)
  BY <1>4, RejectedBalances
<1> QED
  BY <1>1, <1>2, <1>3, <1>4 DEF Loop

(***************************************************************************)
(* Loops that look for a connection, and close handlers that will start    *)
(* one, are never more than the first and one for each interrupted         *)
(* onReconnect (reconnect.ts, lines 95-114).                               *)
(***************************************************************************)
THEOREM LoopsStayBounded == Spec => []LoopsBounded
<1>1. Init => Balance
  <2> SUFFICES ASSUME Init PROVE Balance
    OBVIOUS
  <2>1. Trying = {} /\ Armed = {} /\ interrupted = 0
    BY DEF Init, Trying, Tries, NoLoop, Attempting, Armed
  <2> QED
    BY <2>1, FS_EmptySet DEF Balance
<1>2. IInv /\ Balance /\ [Next]_vars => Balance'
  <2> SUFFICES ASSUME IInv, Balance, [Next]_vars PROVE Balance'
    OBVIOUS
  <2>1. CASE Main \/ Signal
    BY <2>1, MainBalances
  <2>2. ASSUME NEW l \in Loops, Loop(l) PROVE Balance'
    BY <2>2, LoopBalances
  <2>3. ASSUME NEW c \in Conns, Drop(c) PROVE Balance'
    BY <2>3, LoseBalances, ExitBalances DEF Drop
  <2>4. CASE UNCHANGED vars \/ OpenStream \/ EndStreams
    <3>1. UNCHANGED <<open, handlers, loop, interrupted>>
      BY <2>4 DEF vars, OpenStream, EndStreams
    <3>2. Trying' = Trying /\ Armed' = Armed /\ interrupted' = interrupted
      BY <3>1 DEF Trying, Tries, Armed
    <3> QED
      BY <3>2 DEF Balance
  <2> QED
    BY <2>1, <2>2, <2>3, <2>4 DEF Next
<1>3. Balance => LoopsBounded
  BY DEF Balance, LoopsBounded, Trying
<1> QED
  BY <1>1, <1>2, <1>3, Invariance, PTL DEF Spec
=============================================================================

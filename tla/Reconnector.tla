---------------------------- MODULE Reconnector ----------------------------
(***************************************************************************)
(* The broker connection of mipit-core: RabbitMQReconnector                *)
(* (src/resilience/reconnect.ts) and the code that uses it, main and       *)
(* shutdown of src/index.ts.                                               *)
(*                                                                         *)
(* A reconnect loop is the async function doReconnect.  It sleeps,         *)
(* connects, opens a channel, registers a close handler, calls onReconnect *)
(* and returns; when any of these rejects it starts again.  An action is   *)
(* the code between two awaits.  A reply of the broker settles a promise   *)
(* (Reply) and the code behind the await runs in a step of its own, so a   *)
(* connection can be lost between the two.                                 *)
(*                                                                         *)
(* main passes no maxAttempts, so a loop never gives up and the attempt    *)
(* counter decides nothing but the length of a sleep: it is left out.      *)
(***************************************************************************)
EXTENDS Naturals, FiniteSets

CONSTANTS
    Conns,      \* names of connection objects
    NoConn,     \* null
    Loops,      \* names of running doReconnect calls
    MaxFaults   \* bound on lost connections and refused attempts

ASSUME ReconnectorAssumption ==
    /\ NoConn \notin Conns
    /\ MaxFaults \in Nat

VARIABLES
    main,          \* the await at which main or shutdown stands
    exit,          \* how the process ended
    streaming,     \* some client has an event stream open (hijacked reply)
    mine,          \* the connection main got from connect(); publisher and
                   \* consumers hold its channel for good
    open,          \* the connections the broker and the process share
    handlers,      \* close handlers registered on each connection
    current,       \* this.connection
    channel,       \* the connection this.channel belongs to
    reconnecting,  \* this.reconnecting
    loop,          \* the await at which each loop stands, and its connection
    interrupted,   \* history: how often onReconnect has failed
    faults         \* how often the environment has struck

reconnector == <<current, channel, reconnecting>>
vars == <<main, exit, streaming, mine, open, handlers, reconnector, loop, interrupted, faults>>

Starting == {"connect", "channel", "topology", "consume_acks", "consume_dlq"}
Stopping == {"close_app", "close_channel", "close_connection", "close_db"}

\* "opened" and "declared" stand behind a settled await, the others before it.
Attempting == {"sleep", "connect", "channel", "opened"}
LoopStep == Attempting \cup {"none", "topology", "declared"}

NoLoop == [at |-> "none", conn |-> NoConn]
Asleep == [at |-> "sleep", conn |-> NoConn]

Init ==
    /\ main = "connect"
    /\ exit = "none"
    /\ streaming = FALSE
    /\ mine = NoConn
    /\ open = {}
    /\ handlers = [c \in Conns |-> 0]
    /\ current = NoConn
    /\ channel = NoConn
    /\ reconnecting = FALSE
    /\ loop = [l \in Loops |-> NoLoop]
    /\ interrupted = 0
    /\ faults = 0

----------------------------------------------------------------------------
(* What the actions are built from *)

Up == main # "exited"

Running == {l \in Loops : loop[l].at # "none"}

Free == Conns \ (open \cup {mine, current, channel} \cup {loop[l].conn : l \in Loops})

\* process.exit, or an exception nobody catches.  Sockets and memory go.
ExitWith(why) ==
    /\ main' = "exited"
    /\ exit' = why
    /\ streaming' = FALSE
    /\ open' = {}
    /\ mine' = NoConn /\ current' = NoConn /\ channel' = NoConn
    /\ handlers' = [c \in Conns |-> 0]
    /\ reconnecting' = FALSE
    /\ loop' = [l \in Loops |-> NoLoop]
    /\ interrupted' = 0

Strike == faults < MaxFaults /\ faults' = faults + 1

\* The handler of connect() leaves the flag alone, those of doReconnect reset
\* it; each then calls scheduleReconnect, which returns early on a set flag.
Started(c) == IF c = mine /\ reconnecting THEN 0 ELSE handlers[c]

\* Names for n new loops: which ones does not matter.
Fresh(n) ==
    CHOOSE S \in SUBSET (Loops \ Running) : IsFiniteSet(S) /\ Cardinality(S) = n

\* The connection is gone; each of its close handlers has run.
Lose(c) ==
    /\ open' = open \ {c}
    /\ reconnecting' = (reconnecting \/ handlers[c] # 0)
    /\ LET S == Fresh(Started(c)) IN
           /\ S \subseteq Loops \ Running
           /\ IsFiniteSet(S) /\ Cardinality(S) = Started(c)
           /\ loop' = [l \in Loops |-> IF l \in S THEN Asleep ELSE loop[l]]
    /\ UNCHANGED <<streaming, mine, handlers, current, channel, interrupted>>

\* amqplib.connect has resolved with a new connection object.
Obtain(c) ==
    /\ c = CHOOSE f \in Free : TRUE
    /\ c \in Free
    /\ open' = open \cup {c}
    /\ current' = c
    /\ UNCHANGED <<streaming, channel, reconnecting, interrupted, faults>>

----------------------------------------------------------------------------
(* main and shutdown: a rejected await ends the process *)

Connect ==
    /\ main = "connect"
    /\ \/ \E c \in Conns :
              /\ Obtain(c)
              /\ mine' = c
              /\ main' = "channel"
              /\ UNCHANGED <<exit, handlers, loop>>
       \/ Strike /\ ExitWith("failed")

(* Wrong variant: a failed close is swallowed, and shutdown goes no        *)
(* further.                                                                *)
CarelessMainFails ==
    /\ main \in Starting \ {"connect"}
    /\ mine \notin open
    /\ ExitWith("failed")
    /\ UNCHANGED faults

MainFails ==
    /\ main \in Starting \cup {"close_channel", "close_connection"}
    /\ main # "connect"
    /\ mine \notin open
    /\ ExitWith("failed")
    /\ UNCHANGED faults

RegisterHandlers ==
    /\ main = "channel"
    /\ mine \in open
    /\ channel' = mine
    /\ handlers' = [handlers EXCEPT ![mine] = @ + 1]
    /\ main' = "topology"
    /\ UNCHANGED <<exit, streaming, mine, open, current, reconnecting, loop, interrupted, faults>>

MainNext == [topology |-> "consume_acks", consume_acks |-> "consume_dlq",
             consume_dlq |-> "running", close_channel |-> "close_connection"]

MainReply ==
    /\ main \in DOMAIN MainNext
    /\ mine \in open
    /\ main' = MainNext[main]
    /\ UNCHANGED <<exit, streaming, mine, open, handlers, reconnector, loop, interrupted, faults>>

Signal ==
    /\ main = "running"
    /\ main' = "close_app"
    /\ UNCHANGED <<exit, streaming, mine, open, handlers, reconnector, loop, interrupted, faults>>

\* app.close() waits for the replies that are open.
CloseApp ==
    /\ main = "close_app"
    /\ ~streaming
    /\ main' = "close_channel"
    /\ UNCHANGED <<exit, streaming, mine, open, handlers, reconnector, loop, interrupted, faults>>

CloseConnection ==
    /\ main = "close_connection"
    /\ mine \in open
    /\ Lose(mine)
    /\ main' = "close_db"
    /\ UNCHANGED <<exit, faults>>

CloseDb ==
    /\ main = "close_db"
    /\ ExitWith("stopped")
    /\ UNCHANGED faults

\* The clients of the event streams: the first comes, the last leaves.  A
\* server that closes takes no new connection.
OpenStream ==
    /\ main = "running"
    /\ ~streaming
    /\ streaming' = TRUE
    /\ UNCHANGED <<main, exit, mine, open, handlers, reconnector, loop, interrupted, faults>>

EndStreams ==
    /\ streaming
    /\ streaming' = FALSE
    /\ UNCHANGED <<main, exit, mine, open, handlers, reconnector, loop, interrupted, faults>>

Main ==
    \/ Connect
    \/ MainFails
    \/ RegisterHandlers
    \/ MainReply
    \/ CloseApp
    \/ CloseConnection
    \/ CloseDb

----------------------------------------------------------------------------
(* doReconnect *)

Move(l, at, c) == loop' = [loop EXCEPT ![l] = [at |-> at, conn |-> c]]
Retry(l) == loop' = [loop EXCEPT ![l] = Asleep]

Wake(l) ==
    /\ loop[l].at = "sleep"
    /\ Move(l, "connect", NoConn)
    /\ UNCHANGED <<main, exit, streaming, mine, open, handlers, reconnector, interrupted, faults>>

Reconnect(l) ==
    /\ loop[l].at = "connect"
    /\ \E c \in Conns :
           /\ Obtain(c)
           /\ handlers' = [handlers EXCEPT ![c] = 0]
           /\ Move(l, "channel", c)
    /\ UNCHANGED <<main, exit, mine>>

Refused(l) ==
    /\ loop[l].at = "connect"
    /\ Strike
    /\ Retry(l)
    /\ UNCHANGED <<main, exit, streaming, mine, open, handlers, reconnector, interrupted>>

Reply(l) ==
    /\ loop[l].conn \in open
    /\ \/ loop[l].at = "channel" /\ Move(l, "opened", loop[l].conn)
       \/ loop[l].at = "topology" /\ Move(l, "declared", loop[l].conn)
    /\ UNCHANGED <<main, exit, streaming, mine, open, handlers, reconnector, interrupted, faults>>

(* Wrong variants: doReconnect has no close handler; it adds an error      *)
(* handler that schedules a reconnect as well.                             *)
SilentRegister(l) ==
    /\ loop[l].at = "opened"
    /\ channel' = loop[l].conn
    /\ reconnecting' = FALSE
    /\ IF loop[l].conn \in open
       THEN Move(l, "topology", loop[l].conn) /\ UNCHANGED interrupted
       ELSE Retry(l) /\ interrupted' = interrupted + 1
    /\ UNCHANGED <<main, exit, streaming, mine, open, handlers, current, faults>>

DoubleRegister(l) ==
    /\ loop[l].at = "opened"
    /\ channel' = loop[l].conn
    /\ handlers' = [handlers EXCEPT ![current] = @ + 2]
    /\ reconnecting' = FALSE
    /\ IF loop[l].conn \in open
       THEN Move(l, "topology", loop[l].conn) /\ UNCHANGED interrupted
       ELSE Retry(l) /\ interrupted' = interrupted + 1
    /\ UNCHANGED <<main, exit, streaming, mine, open, current, faults>>

\* The close handler goes to this.connection, which another loop may have
\* replaced since; onReconnect fails at once on a channel that is gone.
Register(l) ==
    /\ loop[l].at = "opened"
    /\ channel' = loop[l].conn
    /\ handlers' = [handlers EXCEPT ![current] = @ + 1]
    /\ reconnecting' = FALSE
    /\ IF loop[l].conn \in open
       THEN Move(l, "topology", loop[l].conn) /\ UNCHANGED interrupted
       ELSE Retry(l) /\ interrupted' = interrupted + 1
    /\ UNCHANGED <<main, exit, streaming, mine, open, current, faults>>

(* Wrong variant: the catch block leaves the loop.                         *)
GivenUp(l) ==
    /\ loop[l].at \in {"channel", "topology"}
    /\ loop[l].conn \notin open
    /\ loop' = [loop EXCEPT ![l] = NoLoop]
    /\ interrupted' = interrupted + (IF loop[l].at = "topology" THEN 1 ELSE 0)
    /\ UNCHANGED <<main, exit, streaming, mine, open, handlers, reconnector, faults>>

\* The catch block: createChannel or onReconnect has rejected.  In the second
\* case the close handler is registered and this.reconnecting is FALSE.
Rejected(l) ==
    /\ loop[l].at \in {"channel", "topology"}
    /\ loop[l].conn \notin open
    /\ Retry(l)
    /\ interrupted' = interrupted + (IF loop[l].at = "topology" THEN 1 ELSE 0)
    /\ UNCHANGED <<main, exit, streaming, mine, open, handlers, reconnector, faults>>

Return(l) ==
    /\ loop[l].at = "declared"
    /\ loop' = [loop EXCEPT ![l] = NoLoop]
    /\ UNCHANGED <<main, exit, streaming, mine, open, handlers, reconnector, interrupted, faults>>

Loop(l) ==
    /\ Up
    /\ \/ Wake(l)
       \/ Reconnect(l)
       \/ Refused(l)
       \/ Reply(l)
       \/ Register(l)
       \/ Rejected(l)
       \/ Return(l)

----------------------------------------------------------------------------
(* The environment: a connection is lost.  'error' comes before 'close'     *)
(* unless the broker closed the connection on request; without a handler,   *)
(* and only connect() registers one, an 'error' event ends the process.     *)

HearsErrors(c) == c = mine /\ main \notin {"connect", "channel"}

Drop(c) ==
    /\ Up
    /\ c \in open
    /\ Strike
    /\ \/ Lose(c) /\ UNCHANGED <<main, exit>>
       \/ ~HearsErrors(c) /\ ExitWith("uncaught")

Next ==
    \/ Main
    \/ Signal
    \/ OpenStream
    \/ EndStreams
    \/ \E l \in Loops : Loop(l)
    \/ \E c \in Conns : Drop(c)

Spec == Init /\ [][Next]_vars

\* The broker answers and timers fire.  Nobody has to close an event stream.
FairSpec ==
    /\ Spec
    /\ WF_vars(Main)
    /\ \A l \in Loops : WF_vars(Loop(l))
=============================================================================

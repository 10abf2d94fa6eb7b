------------------------ MODULE ReconnectorProperties ------------------------
(***************************************************************************)
(* What the reconnector must and must not do.                              *)
(***************************************************************************)
EXTENDS Reconnector

TypeOK ==
    /\ main \in Starting \cup Stopping \cup {"running", "exited"}
    /\ exit \in {"none", "failed", "uncaught", "stopped"}
    /\ streaming \in BOOLEAN
    /\ {mine, current, channel} \subseteq Conns \cup {NoConn}
    /\ open \subseteq Conns
    /\ handlers \in [Conns -> Nat]
    /\ reconnecting \in BOOLEAN
    /\ loop \in [Loops -> [at : LoopStep, conn : Conns \cup {NoConn}]]
    /\ interrupted \in Nat
    /\ faults \in 0 .. MaxFaults

Tries(l) == loop[l].at \in Attempting

(***************************************************************************)
(* While the process is up and this.connection is dead, some loop is going *)
(* to replace it: the close event is never missed, whatever the order of   *)
(* close events, rejected calls and loops that have overtaken each other   *)
(* (reconnect.ts, lines 70-73 and 91-114).                                 *)
(***************************************************************************)
NeverStranded ==
    Up /\ main \notin {"connect", "channel"} /\ current \notin open =>
        \E l \in Loops : Tries(l) \/ loop[l].at = "topology"

(***************************************************************************)
(* Unless a connection was lost while its topology was being declared,     *)
(* this.reconnecting keeps its promise: one loop at a time, none beside a  *)
(* connection that would start another, and no open connection but the one *)
(* the reconnector knows of (reconnect.ts, lines 80 and 95-111).           *)
(***************************************************************************)
SingleLoop ==
    interrupted = 0 =>
        /\ \A k, l \in Loops : Tries(k) /\ Tries(l) => k = l
        /\ \A l \in Loops, c \in open : Tries(l) => handlers[c] = 0
        /\ \A c \in open : c = current /\ handlers[c] <= 1

(***************************************************************************)
(* Each interruption of onReconnect adds at most one loop: loops that look *)
(* for a connection, and close handlers that will start one, are never     *)
(* more than the first and one for each interruption, although two loops   *)
(* may register on the same connection (reconnect.ts, lines 95-114).       *)
(***************************************************************************)
Armed == UNION {{<<c, i>> : i \in 1 .. handlers[c]} : c \in open}

LoopsBounded ==
    Cardinality({l \in Loops : Tries(l)}) + Cardinality(Armed) <= 1 + interrupted

(***************************************************************************)
(* A loop that never was interrupted never takes this.connection away from *)
(* a connection that works (reconnect.ts, line 92).                        *)
(***************************************************************************)
HealthyIsKept ==
    [][current' # current /\ Up' /\ interrupted = 0 => current \notin open]_vars

(***************************************************************************)
(* However many loops an interrupted reconnect has started, once the       *)
(* environment is quiet they all return and leave a working connection, or *)
(* the process has ended (reconnect.ts, lines 83-115).                     *)
(***************************************************************************)
Settles ==
    <>[](\/ ~Up
         \/ current \in open /\ \A l \in Loops : loop[l] = NoLoop)

(***************************************************************************)
(* A signal ends the process once the last viewer of an event stream has   *)
(* left, also while reconnect loops are running.  Of viewers nothing is    *)
(* assumed: app.close() waits for their open replies, for ever if they     *)
(* stay (index.ts, lines 127-140; sse.ts, lines 67-105).                   *)
(***************************************************************************)
ShutdownEnds == main \in Stopping /\ ~streaming ~> ~Up

(***************************************************************************)
(* reconnect.ts, line 4: "Provides automatic reconnection when the         *)
(* RabbitMQ connection drops."  Once the service runs, a lost connection   *)
(* does not end the process.                                               *)
(***************************************************************************)
SurvivesDrops == [][main = "running" => main' # "exited"]_vars

----------------------------------------------------------------------------
(* The inductive invariant *)

Registered == main \notin {"connect", "channel", "exited"}

\* Before main has connected there is nothing; while its connection lives no
\* loop has run and the connection is armed.
FirstConnection ==
    /\ main \in {"connect", "channel"} => \A c \in Conns : handlers[c] = 0
    /\ main = "connect" => open = {} /\ mine = NoConn /\ Running = {} /\ ~reconnecting
    /\ mine \in open \/ main = "channel" =>
           Running = {} /\ ~reconnecting /\ open \subseteq {mine} /\ current = mine
    /\ Registered /\ mine \in open => handlers[mine] # 0

\* A loop that looks for a connection, or will be told that current is dead.
Replaces(l) ==
    \/ loop[l].at \in {"sleep", "connect"}
    \/ loop[l].conn = current /\ loop[l].at \in {"channel", "opened", "topology"}

Replaced == Registered /\ current \notin open => \E l \in Loops : Replaces(l)

\* The current connection has a close handler, or its loop is about to add it.
CurrentIsArmed ==
    Registered /\ current \in open =>
        \/ handlers[current] # 0
        \/ \E l \in Loops : loop[l].conn = current /\ loop[l].at \in {"channel", "opened"}

\* A single loop looks for a connection only while there is none.
SingleLoopWorks ==
    interrupted = 0 => \A l \in Loops :
        /\ loop[l].at \in {"sleep", "connect"} => open = {}
        /\ loop[l].at \in {"channel", "opened"} => loop[l].conn = current

\* The invariant that is preserved by every step.
IInv ==
    /\ TypeOK
    /\ FirstConnection
    /\ Replaced
    /\ CurrentIsArmed
    /\ SingleLoop
    /\ SingleLoopWorks
=============================================================================

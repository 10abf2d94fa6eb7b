----------------------------- MODULE EventStream -----------------------------
(* The SSE streams of payment updates (api/routes/sse.ts): an array of     *)
(* connected clients that broadcastPaymentEvent goes through from its end, *)
(* dropping the clients it cannot write to, and that the close event of    *)
(* each connection removes its client from. A client watches one payment   *)
(* or all of them.                                                         *)
EXTENDS Integers, SequencesExt

CONSTANTS
    Viewers,    \* clients that may connect, once each
    Watches,    \* the payments the stream of a viewer is about
    Updated,    \* payments of which updates are broadcast
    MaxUpdates  \* bound: broadcasts

ASSUME StreamSizes == MaxUpdates \in Nat /\ Watches \in [Viewers -> SUBSET Updated]

VARIABLES
    clients,   \* the array
    stream,    \* the connection of each viewer
    updates,   \* history: the payments of the broadcasts so far
    since,     \* history: broadcasts before a viewer connected
    heard      \* broadcasts written to the stream of a viewer, by number

streamVars == <<clients, stream, updates, since, heard>>

StreamInit ==
    /\ clients = <<>>
    /\ stream = [v \in Viewers |-> "new"]
    /\ updates = <<>>
    /\ since = [v \in Viewers |-> 0]
    /\ heard = [v \in Viewers |-> {}]

Connect(v) ==
    /\ stream[v] = "new"
    /\ stream' = [stream EXCEPT ![v] = "open"]
    /\ clients' = Append(clients, v)
    /\ since' = [since EXCEPT ![v] = Len(updates)]
    /\ UNCHANGED <<updates, heard>>

(* The connection breaks; its close event is still to come. Until then a   *)
(* write to it may throw, or vanish.                                       *)
Tear(v) ==
    /\ stream[v] = "open"
    /\ stream' = [stream EXCEPT ![v] = "torn"]
    /\ UNCHANGED <<clients, updates, since, heard>>

(* clients.findIndex((c) => c.id === clientId)                             *)
Place(v) == IF v \in ToSet(clients) THEN CHOOSE i \in DOMAIN clients : clients[i] = v ELSE 0

(* req.raw.on('close'). A broadcast may have removed the client before.    *)
Close(v) ==
    /\ stream[v] \in {"open", "torn"}
    /\ stream' = [stream EXCEPT ![v] = "closed"]
    /\ clients' = IF Place(v) > 0 THEN RemoveAt(clients, Place(v)) ELSE clients
    /\ UNCHANGED <<updates, since, heard>>

Interested(v, p) == p \in Watches[v]

(* One turn of the loop of broadcastPaymentEvent, for the client at i;     *)
(* s holds the array and the clients written to so far.                    *)
Turn(p, throwing, i, s) ==
    LET v == s.clients[i]
    IN  IF ~Interested(v, p) THEN s
        ELSE IF v \in throwing THEN [s EXCEPT !.clients = RemoveAt(@, i)]
        ELSE [s EXCEPT !.told = @ \cup {v}]

(* Wrong variant: the loop runs from the beginning, and the client behind  *)
(* a removed one is passed over.                                           *)
ForwardLoop(p, throwing) ==
    LET after[k \in 0 .. Len(clients)] ==
            IF k = 0 THEN [clients |-> clients, told |-> {}]
            ELSE IF k > Len(after[k - 1].clients) THEN after[k - 1]
            ELSE Turn(p, throwing, k, after[k - 1])
    IN  after[Len(clients)]

(* The loop of broadcastPaymentEvent, from the end of the array to its     *)
(* beginning: what the first k turns have made of it.                      *)
Loop(p, throwing) ==
    LET after[k \in 0 .. Len(clients)] ==
            IF k = 0 THEN [clients |-> clients, told |-> {}]
            ELSE Turn(p, throwing, Len(clients) + 1 - k, after[k - 1])
    IN  after[Len(clients)]

Broadcast(p) ==
    /\ Len(updates) < MaxUpdates
    /\ updates' = Append(updates, p)
    /\ \E throwing \in SUBSET {v \in Viewers : stream[v] = "torn"} :
       LET done == Loop(p, throwing)
       IN  /\ clients' = done.clients
           /\ heard' = [v \in Viewers |->
                 IF v \in done.told THEN heard[v] \cup {Len(updates) + 1} ELSE heard[v]]
    /\ UNCHANGED <<stream, since>>

StreamNext == \/ \E v \in Viewers : Connect(v) \/ Tear(v) \/ Close(v)
              \/ \E p \in Updated : Broadcast(p)

StreamSpec == StreamInit /\ [][StreamNext]_streamVars
-----------------------------------------------------------------------------
(* A viewer whose stream works has been sent every update, since it        *)
(* connected, of the payments it watches, whoever else came and went       *)
(* (sse.ts:46-60, 97-101).                                                 *)
EveryoneIsTold ==
    \A v \in Viewers : stream[v] = "open" =>
        \A n \in DOMAIN updates :
            n > since[v] /\ Interested(v, updates[n]) => n \in heard[v]
=============================================================================

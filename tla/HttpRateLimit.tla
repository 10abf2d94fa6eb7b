---------------------------- MODULE HttpRateLimit ----------------------------
(* The limiter of HTTP requests (api/middleware/rate-limit.ts), as server  *)
(* start registers it: a counter per client that starts again when its     *)
(* window is over. Requests for /health, /healthz and /metrics pass it     *)
(* without a trace and are left out. Times are relative to the clock, in   *)
(* ticks.                                                                  *)
EXTENDS Integers

CONSTANTS
    Clients,      \* keys of the map: client addresses
    MaxRequests,  \* opts.maxRequests
    Window        \* opts.windowMs, in ticks

ASSUME HttpLimits == MaxRequests \in Nat \ {0} /\ Window \in Nat \ {0}

VARIABLES
    windows,  \* entry of each client: requests counted, ticks until resetAt
    admitted  \* history: requests let through in the last 0, 1, ... Window ticks
              \* and in this one

httpVars == <<windows, admitted>>

(* The count of a client without an entry; no entry starts with it.        *)
NoWindow == [count |-> 0, left |-> -1]

(* now > entry.resetAt: the counter is no longer looked at.                *)
Over(entry) == entry.left < 0

HttpInit ==
    /\ windows = [c \in Clients |-> NoWindow]
    /\ admitted = [c \in Clients |-> [t \in 0 .. Window |-> 0]]

(* The entry once a request has been counted. Beyond the limit the count   *)
(* makes no difference.                                                    *)
CountedEntry(c) ==
    IF Over(windows[c]) THEN [count |-> 1, left |-> Window]
    ELSE IF windows[c].count > MaxRequests THEN windows[c]
    ELSE [count |-> windows[c].count + 1, left |-> windows[c].left]

(* onRequest: the request is counted, and answered with 429 if it is one   *)
(* too many.                                                               *)
Request(c) ==
    /\ windows' = [windows EXCEPT ![c] = CountedEntry(c)]
    /\ admitted' = IF CountedEntry(c).count > MaxRequests THEN admitted
                   ELSE [admitted EXCEPT ![c] = [t \in 0 .. Window |-> @[t] + 1]]

(* Wrong variant: the timer forgets all entries.                           *)
ForgetfulCleanUp ==
    /\ windows' = [c \in Clients |-> NoWindow]
    /\ UNCHANGED admitted

(* The timer of five minutes, here at any time.                            *)
CleanUp ==
    /\ windows' = [c \in Clients |-> IF Over(windows[c]) THEN NoWindow ELSE windows[c]]
    /\ UNCHANGED admitted

HttpTick ==
    /\ windows' = [c \in Clients |->
          [count |-> windows[c].count,
           left |-> IF Over(windows[c]) THEN windows[c].left ELSE windows[c].left - 1]]
    /\ admitted' = [c \in Clients |-> [t \in 0 .. Window |->
                        IF t = 0 THEN 0 ELSE admitted[c][t - 1]]]

HttpNext == HttpTick \/ CleanUp \/ \E c \in Clients : Request(c)

HttpSpec == HttpInit /\ [][HttpNext]_httpVars
-----------------------------------------------------------------------------
(* In any stretch as long as a window a client gets at most twice the      *)
(* limit through: it may use up one window at its end and the next at its  *)
(* beginning (rate-limit.ts:59-62), but never a third.                     *)
AtMostTwoWindows == \A c \in Clients : admitted[c][Window] <= 2 * MaxRequests
=============================================================================

------------------------------ MODULE Services ------------------------------
(* Six services beside the payment pipeline that share no state with one   *)
(* another: the limiter of HTTP requests, that of a rail, the route engine, *)
(* the webhooks, the reconciliation and the event stream. A behaviour is   *)
(* one of one of them, chosen at the start, while the others rest: what    *)
(* one does cannot be told apart by another, so that their interleavings   *)
(* would only multiply the states.                                         *)
EXTENDS HttpRateLimit, RailRateLimit, RouteEngine, Webhooks, Reconciliation, EventStream

VARIABLE service

servicesVars ==
    <<service, httpVars, bucketVars, routeVars, hookVars, reconVars, streamVars>>

ServicesInit ==
    /\ service \in {"http", "bucket", "routing", "webhooks", "reconciliation", "stream"}
    /\ HttpInit /\ BucketInit /\ RouteInit /\ HookInit /\ ReconInit /\ StreamInit
    /\ service # "routing" => rules = <<>>

ServicesNext ==
    /\ UNCHANGED service
    /\ \/ /\ service = "http" /\ HttpNext
          /\ UNCHANGED <<bucketVars, routeVars, hookVars, reconVars, streamVars>>
       \/ /\ service = "bucket" /\ BucketNext
          /\ UNCHANGED <<httpVars, routeVars, hookVars, reconVars, streamVars>>
       \/ /\ service = "routing" /\ RouteOne
          /\ UNCHANGED <<httpVars, bucketVars, hookVars, reconVars, streamVars>>
       \/ /\ service = "webhooks" /\ HookNext
          /\ UNCHANGED <<httpVars, bucketVars, routeVars, reconVars, streamVars>>
       \/ /\ service = "reconciliation" /\ ReconNext
          /\ UNCHANGED <<httpVars, bucketVars, routeVars, hookVars, streamVars>>
       \/ /\ service = "stream" /\ StreamNext
          /\ UNCHANGED <<httpVars, bucketVars, routeVars, hookVars, reconVars>>

ServicesSpec ==
    /\ ServicesInit /\ [][ServicesNext]_servicesVars
    /\ service = "webhooks" => HookFairness
=============================================================================

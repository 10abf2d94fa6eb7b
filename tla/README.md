# mipit-core in TLA+

mipit-core is the middle of a payment interoperability proof of concept: an
HTTP server takes a payment, translates it to a canonical pacs.008 document,
normalises and routes it, publishes it on RabbitMQ for the adapter of a rail
(PIX, SPEI, BRE_B) and follows the answer. It is one Node process over one
PostgreSQL database and one RabbitMQ channel. Everything in it that can go
wrong goes wrong *between two awaits*: the handlers of HTTP requests, the two
consumers and the compensation service are async functions that share nothing
but rows of tables, and none of the UPDATE statements looks at the status it
replaces.

Paths below are relative to `src/src/` unless they start with `src/`.

## 1. Inventory

| component | code | state | operations | how it meets the others |
|---|---|---|---|---|
| Payment pipeline | `pipeline/payment-pipeline.ts`, `messaging/publisher.ts` | none of its own; the row of its payment | `execute`, `publishToAdapter` | called by POST /payments; writes row and audit trail at every step; publishes on the channel; broadcasts over SSE |
| ACK consumer | `messaging/consumer.ts` | unacknowledged deliveries | one handler per message of `payments.ack` | overwrites the row; broadcasts; fires webhooks |
| DLQ handler | `messaging/dlq-handler.ts` | unacknowledged deliveries | one handler per message of `payments.dlq`; `handleFailedMessage` (used by the adapters) | overwrites the row |
| Compensation | `compensation/compensation-service.ts` | none | `compensate`, `compensateBatch` | HTTP routes in `api/server.ts`; overwrites the row |
| Tables | `persistence/`, `audit/` | `payments`, `audit_events` | the statements of `persistence/queries/index.ts` | shared by all |
| Idempotency | `api/routes/payments.ts`, `idempotency.repository.ts` | `idempotency_keys` | `findByKey`, `tryInsert`, `updateResponse` | wraps the pipeline |
| Broker connection | `resilience/reconnect.ts` | connection, channel, attempt counter, timer | `connect`, close/error handlers, `scheduleReconnect` | hands the channel to publisher and consumers once, at the start |
| Circuit breaker | `resilience/circuit-breaker.ts` | state, failure/success windows, half-open counters | `execute` | not used by other components |
| Rate limiters | `resilience/rate-limiter.ts`, `api/middleware/rate-limit.ts` | token buckets; request windows | `acquire`, `canAcquire`, `getStatus`; `onRequest` hook and a clean-up timer | per rail, called by no code but the dashboard; per client address |
| Route engine | `routing/` | rule cache with a TTL | `resolve` | called by the pipeline |
| Translation | `translation/` | cache of `mapping_table` with a TTL | `toCanonical`, `fromCanonical`, `translate` | called by the pipeline and POST /translate |
| Normalization, FX | `normalization/`, `fx/` | rate cache with a TTL | `normalize`; `getRate`, `convert` | called by the pipeline |
| Reconciliation | `reconciliation/` | none | `runReconciliation` | every 30 minutes; reads rows, writes audit events |
| Webhooks | `webhooks/` | `webhook_subscriptions` | `subscribe`, `fireForPayment`, `deliver` | called by the ACK consumer, which does not await it |
| SSE | `api/routes/sse.ts` | list of clients | `broadcastPaymentEvent` | called by pipeline and ACK consumer |
| Start and stop | `index.ts` | — | `main`, `shutdown` | |
| Middleware, schemas, read-only routes, observability | `api/`, `observability/`, `domain/` | — | — | |

What is hard here, and what makes each component correct:

* **Interleaving.** A fast adapter answers before the pipeline has written
  `QUEUED`; two compensations of one payment overlap; duplicate requests race
  for a key. Correct: the history of a payment never shows an effect without
  its cause; one execution per key.
* **Stale reads.** `compensate` decides about a reversal on a row read three
  awaits earlier; a claimed key can be invisible because it has expired.
* **Partial failure.** A database call may reject in the middle of a handler,
  even though the database has committed it. Correct: no payment is left in a
  status that promises more work unless something has really failed.
* **Crash and redelivery.** The process dies between an update and
  `channel.ack`; the message comes again. A published message may still be in a
  socket buffer. Correct: an answer of a rail is not lost.
* **Unconditional updates.** ACK, dead letter and compensation overwrite each
  other in any order. Correct: whatever the order, preparation statuses never
  come back and the milestones stay causally ordered.
* **Stale caches.** Mappings, rates and rules are read through caches that
  several payments load at the same time, and rate and amount of one payment are
  two readings. Correct: nothing withdrawn is used for longer than its term, and
  what a payment records is of one piece.
* **Boundaries.** Windows, buckets, operating hours and the look-back of the
  reconciliation are arithmetic on clocks. Correct: they hold at the last tick
  as well as in the middle.
* **Liveness.** Pipelines, batches and dead letters end; every request is
  answered even when the holder of its key has died.

The complete list of hazards, each at its line and with the properties that
cover it, is in `PROJECT.json`.

## 2. Modules

| module | what it is |
|---|---|
| `PaymentLedger` | abstract: a payment is a growing set of facts, none without its cause |
| `Payments` | pipeline, ACK consumer, DLQ handler, compensation, crash; rail adapters as environment |
| `PaymentsProperties` | properties, the refinement mapping to `PaymentLedger`, the inductive invariant |
| `PaymentsProofs`, `PaymentsOutcomeProofs` | theorems about `Payments`: causal order and refinement; what becomes of answers and of payments at rest |
| `MCPayments` | instances for TLC |
| `KeyClaims` | abstract: all requests of an Idempotency-Key agree on one payment |
| `Idempotency` | POST /payments over the `idempotency_keys` table |
| `IdempotencyProperties`, `IdempotencyProofs`, `MCIdempotency` | as above |
| `Reconnector` | `RabbitMQReconnector` with the start and the shutdown of the process that uses it |
| `ReconnectorProperties`, `ReconnectorProofs`, `MCReconnector` | as above |
| `CircuitBreaker` | the circuit breaker, shared by concurrent calls |
| `CircuitBreakerProperties`, `CircuitBreakerProofs`, `MCCircuitBreaker` | as above |
| `Translation` | the readers and writers of the seven rails' messages, as operators |
| `TranslationFlow` | one payment on its way through them: POST /payments, POST /translate, and a message handed in again |
| `TranslationProperties`, `TranslationProofs`, `MCTranslation` | as above |
| `ReferenceData` | the caches of mappings, exchange rates and route rules, shared by the payments under way |
| `ReferenceDataProperties`, `ReferenceDataProofs`, `MCReferenceData` | as above |
| `HttpRateLimit`, `RailRateLimit` | the two limiters, each with its bound |
| `RouteEngine` | the choice of a rail, against what "best rule" and "open" mean |
| `Webhooks` | subscriptions, firing and delivery for repeated ACKs |
| `Reconciliation` | the half-hourly report and a payment that may get stuck anywhere |
| `EventStream` | the array of SSE clients under broadcasts |
| `ServicesProofs` | theorems about these six |
| `Services`, `MCServices` | the six, which share no state, as one specification for one run |

The MC modules only declare symmetries and constant definitions. Operators
commented "Wrong variant" are plausible mistakes in the operator that follows
them; `PROJECT.json` ("mutants") says which property each of them breaks.
Nothing else uses them.

### Payments

An action is the code between two awaits: one database call together with the
synchronous code that follows it. Everything else may happen in between.

| variable | code |
|---|---|
| `row` | the `payments` table: `status`, the `*_at` columns, `destination_rail`, whether `translated_payload` is set, `rail_ack.status` |
| `audit` | event types in `audit_events` per payment |
| `pc` | the await at which `PaymentPipeline.execute` stands; `mark_failed` and `audit_error` are the catch block |
| `wire`, `retries` | the published message (in the socket buffer, in the broker, gone, lost) and its `x-retry-count` |
| `acks` | each ACK message: its verdict and whether it is queued, its row updated, acked or dropped |
| `dlq` | the dead letter: queued, its row marked, gone |
| `comp`, `todo` | the `compensate` call of each HTTP request with `wasAcked`, and the rest of its batch |
| `shown`, `fired` | last SSE status; statuses webhooks were fired for |
| `dbErrors`, `crashes` | how often the environment has struck |

`Await(p, r, a, ok, err)` is a database call: it succeeds and `ok` follows, or
it rejects — with or without effect, because a lost connection says nothing
about the commit — and `err` follows. The catch blocks differ and the model
keeps that: the pipeline marks the payment `FAILED` (and gives up if that call
rejects too), the ACK consumer drops the message, the DLQ handler puts it back,
`compensate` has calls outside its `try`. A crash ends all handlers and loses
the socket buffer; unacknowledged deliveries come back. The adapters are not in
this repository: they answer, answer again, retry through
`handleFailedMessage`, or give up. An answer that has a status is assumed to
name its rail and an existing payment, as the adapters' messages do.

### Idempotency

| variable | code |
|---|---|
| `keys` | the row of each key: its owner (the request whose `payment_id` it holds), `request_hash`, whether the response is stored |
| `expired` | keys whose `expires_at` has passed: still rows, not found by `findByKey` |
| `req` | the await at which each POST handler stands |
| `reply` | status code and payment id each client was given |
| `pipeline` | the pipeline run of each request, from outside |

`expires_at` is written by no code of this repository and no code deletes a
row; `Expire` is the clock of the database.

### Reconnector

| variable | code |
|---|---|
| `main`, `exit` | the await at which `main` or `shutdown` (`index.ts`) stands; how the process ended |
| `streaming` | whether some client has an event stream open (`sse.ts`): the first comes, the last leaves |
| `mine` | the connection `main` got from `connect()`, whose channel the publisher and both consumers keep for good |
| `open`, `handlers` | live connections; close handlers registered on each |
| `current`, `channel`, `reconnecting` | `this.connection`, `this.channel`, `this.reconnecting` |
| `loop` | each running `doReconnect`: its await and its connection |
| `interrupted` | history: how often `onReconnect` has rejected |
| `faults` | lost connections and refused attempts so far |

A promise of the broker is settled by one action and the code behind the await
runs in another, so a connection may be lost between them. The two close
handlers are not alike and the model keeps the difference: the one of
`connect()` leaves `reconnecting` alone, the one of `doReconnect` resets it
before it calls `scheduleReconnect`. When a connection is lost while
`onReconnect` declares its topology, the flag is already down: the close handler
starts a loop and the interrupted loop starts again; this is how two loops come
to run at once.

amqplib is modelled as this code relies on it: an `error` event precedes
`close`, an `error` event nobody listens to ends the process, and calls pending
on a lost connection reject. `main` passes no `maxAttempts`, so a loop never
gives up and the attempt counter decides only how long a loop sleeps: both are
left out. Names of connections are used again once nothing refers to them; if
names ran out TLC would report an error of the model, so a passing run also
says that six of each suffice. `app.close()` returns when no hijacked reply is
open; the requests in flight are answered like all others, and a server that
closes takes no new ones.

Nothing hands the new channel to the publisher and the consumers (`index.ts`,
lines 69, 103 and 108): after a reconnect they still hold the channel of
`mine`. `Payments` has therefore no connection that comes back without the
process; the loss of the broker connection appears there as a crash.

### CircuitBreaker

| variable | code |
|---|---|
| `state` | `this.state` |
| `failures`, `successes` | the failure list, as the age of each entry, and the success count |
| `opened` | the age of `openedAt` |
| `running` | calls that await `fn()` and the state in which each was admitted |

The code compares `Date.now()` with stored timestamps. The model stores ages
that stop growing at the limit they are compared with, which keeps time
unbounded and the states finite. The success count stops at `MaxSuccesses`:
`CircuitBreakerAssumption` says why one more would change no decision.
`lastFailureAt` is only displayed. The failures that are still in the window are
filtered from the list by the code and cut off from its front in the model
(`Recorded`): the same, because the list is in the order of its times
(`CircuitBreakerProofs!FailuresInOrder`). No code of the repository calls `execute()`;
the component is modelled as the library it is.

### Translation

`translation/*-to-canonical.ts` and `canonical-to-*.ts` are pure functions and
are operators of the same names here, one record per message, with the fields
that say how much is paid, by whom and to whom. What makes them worth a model
is that they compose: each writer makes guesses about a canonical document that
six readers build in six ways, and what one guess loses, the next reader takes
for the truth.

| variable | code |
|---|---|
| `route` | the endpoint: POST /payments (infers the rail, normalizes) or POST /translate |
| `path` | the rails whose message the payment has been |
| `stage` | how far `Translator` and `Normalizer` have come with it |
| `first`, `message` | the message it came as and the one it is now |
| `canonical` | the pacs.008 it was last read as |

An account is a string such as `021000021/PIX-abc`. The code takes it apart at
slashes and known prefixes, compares it with patterns and cuts it off; the
model keeps it in these parts (`banks`, `prefix`, `id`, and how much of `id` is
`left`), so that a routing number lost or doubled, a prefix kept and an account
number cut off can all be seen. Amounts count tenths of a cent, so that
rounding can be seen. Optional fields on which a property depends are
present in some inputs and absent in others; the amount 0 comes in where no schema keeps it out. The rows of
`mapping_table` reach one of the fields kept, the alias of a PIX or SPEI
request: `Mappings` are the transformations they may apply to it, and the table
may be unavailable. PIX and SPEI messages emitted for the adapters are read by
no translator, so a chain ends there. When bank codes alone fill the 34
characters of FedNow, the code cuts among them; the model keeps them and says
that nothing of the identifier is left (`left` is zero or less), and since no
later rail takes more than the first of them away, nothing else can be told
apart.

### ReferenceData

| variable | code |
|---|---|
| `version`, `retired` | the tables at their owners (`mapping_table`, `route_rules`, the exchange), as the number of changes so far; how long ago each version was replaced |
| `cache` | the entry of `MappingLoader`, `FxService` and `RuleLoader`: the version it holds and the age of its stamp |
| `appId` | whether `OPEN_EXCHANGE_RATES_APP_ID` is set; without it no rate is ever fetched |
| `needs` | what the payments under way need: mappings (a PIX or SPEI request), rates (another currency than the rail's) |
| `pc`, `load` | the await at which the preparation of a payment stands; what its query or fetch has answered and how long it has taken |
| `data` | the versions the payment was prepared with; `own` says whether one of its own fetches failed or the entry expired between its two readings |
| `overtaken` | history: loads of a table during which another payment's load of it has been stored |

The three loaders look alike and are not: mappings and rules are stamped when
they arrive and fail the payment when they do not, whatever the cache still
holds; rates are stamped with the time before the fetch, and a failed fetch
takes the last rates there are, however old. `normalizeCurrency` asks for the
rate and then for the converted amount; the second reading (`Convert`) looks at
clock and cache again, in the same turn of the event loop unless it has to
fetch. The mapping cache has one entry per rail; the model has those of one
rail.

### The six services

`Services` chooses one of them at the start and lets the others rest, because
they share no state: their interleavings could not be told apart.

| module | state and its code |
|---|---|
| `HttpRateLimit` | `windows`: the map of `registerRateLimitMiddleware`, count and time left per client; `CleanUp` is its timer, here at any time |
| `RailRateLimit` | `tokens`, `elapsed`: the bucket of a rail in parts of a token, and `Date.now() - lastRefillAt`, which is negative after the clock is set back |
| `RouteEngine` | `rules`: the array the rule cache hands out and `resolve` sorts in place; `routing`: the last decision. The stable sort is written as the place each rule takes (`Rank`) |
| `Webhooks` | `subs`: rows of `webhook_subscriptions`; `message`: where each ACK and its handler stand; `firing`, `delivery`: the awaits of `fireForPayment` and of each `deliver` |
| `Reconciliation` | `status`, `created`, `queued`: the row; `timer`, `run`: the interval and the run under way with what its query saw |
| `EventStream` | `clients`: the array; `stream`: each connection, of which a broken one is closed later. A broadcast is one step; its loop is a function of the turns it has made (`Loop`) |

What else the variables hold is history, and says so. The limiters count what
they let through in the last 0, 1, 2, ... ticks, so that a bound over every
stretch of time is a statement about one state. In `Webhooks` a delivery is
recorded whatever the subscriber answered, and repeated only if a crash makes
the broker repeat the ACK. In `EventStream` a write to a broken connection may
throw, which drops the client from the array in the middle of the loop, or
vanish. `Reconciliation` knows of the payment only what the query returns and
when; that `Payments` can leave one in each of these statuses is shown there.

## 3. Runs

All runs but those of the circuit breaker set `CHECK_DEADLOCK FALSE`: with
finitely many payments or requests, or after the end of the process, the system
stops.

| run | question | bounds |
|---|---|---|
| `PaymentsSafety` | does every handler implement `PaymentLedger`; stranded payments, lost ACKs, announced answers, statuses that return | 1 payment, 2 rails, 1 ACK, 2 concurrent compensators, 1 retry, 1 database error, 1 crash: 670,041 states |
| `PaymentsLiveness` | do pipelines and compensations end, are dead letters recorded, does what the rail says reach the row, does a payment without a reachable rail fail? | 1 payment, 2 rails, 1 ACK, 1 compensator, 1 retry, 1 error, 1 crash, fairness: 137,887 |
| `IdempotencyKeys` | one execution per key, truthful 201 and 409, whom does a 200 name, what has become of a key without an answer, refinement of `KeyClaims`, is every request answered? | 3 requests, 1 key, 2 bodies, 1 error, 1 crash, fairness: 90,302 |
| `Reconnector` | is a dead connection always being replaced, how many loops run, do they settle, does a signal end the process once nobody watches a stream? | 6 connections, 6 loops, 2 faults, fairness: 72,940 |
| `CircuitBreaker` | thresholds under late results, never stuck half-open, recovery | 3 calls, threshold 3, rate 50 %, 3 samples, cooldown 2, window 3, 5 failures, fairness: 35,554 |
| `Translation` | are payer and payee kept apart, is the payee credited in full and at his bank, is the amount kept, do readers take what their writers wrote? | 2 parties, 3 amounts, optional fields present and absent, a PIX key of 36 characters, which FedNow's 34 cut, 2 legs: 218,053 |
| `ReferenceData` | how old can data be that a payment is prepared with, are rate and amount of one table, when does a cache go back? | 2 payments, again and again, TTL 3, loads of 1 tick, 1 change, 1 failed load: 418,060 |
| `Services` | what the limiters let through, which rule routes, who is notified how often, which stuck payments are reported, who hears of an update | a limit of 3 and a window of 3; 3 tokens, 4 ticks a second, clock set back by 2; all tables of 3 rules; 2 ACKs, 1 subscription, 1 lost call, 1 crash; period 3, look-back 10, threshold 2, a query of at most 1, 1 missed run; 3 viewers, 2 updates: 109,089 |

What TLAPS proves for every instance is not repeated as a property of a run
where another property of the run implies it: the causal order of `Payments`
(in `HistoryIsCausal`), the inductive invariants, `SingleLoop`, `HealthyIsKept`
and `EntriesAgeTruthfully`. All of them were model-checked on these instances
before they were proved.

Why these bounds are enough:

* Payments do not interact: every statement names one payment, and a batch
  compensates its members one after the other. One payment with all its
  handlers shows every race; what it does not show is a batch that goes on
  after one of its members has failed. One ACK can be redelivered and handled
  twice; two compensators are the least that can overlap. That the handlers
  implement `PaymentLedger` is proved for any number of ACKs and compensators.
* Three requests are the least that can have a winner, a loser of the race and
  a later replay; requests with different keys share no row, so one key
  suffices.
* One error and one crash may strike at any step; further ones do not reach new
  combinations of one handler's partial effects with another's (the safety
  theorems hold for any number). The number of retries only delays the dead
  letter; 0 and 1 show both branches of `handleFailedMessage` (the code's limit
  is 3).
* Two faults and the close in `shutdown` make three lost connections: one to
  start a loop, one to interrupt it and so to get two loops and a connection
  with two handlers, one to lose that connection. The theorems hold for any
  number.
* Three failures open the circuit, which leaves two late ones to arrive while
  it is open or half-open, with three calls in flight; the rate opens it with
  two failures among four samples and lets it be at one. The code's constants
  (5, 50 %, 10 samples) differ only in size.
* The translators keep nothing between payments, so one payment will do. The
  amounts are one that rounds to nothing, one that rounds up and one that is a
  number of cents. Identifiers are as long as real ones, which decides what ACH
  cuts off. Two legs are a writer, the reader of its message and another
  writer: every pair of rails meets.
* Two payments are the least whose loads can overlap, and they come again and
  again, so that an entry is used, expires and is loaded anew. One change makes
  a version old; TTL 3 against loads of 1 tick keeps the order of the code's
  figures (minutes against seconds), which is `LoadsAreShort`: a load ends
  before an entry stamped at its beginning expires. A fetch is aborted after
  five seconds; that a query of the database is answered in time is assumed.
  Payments that need both mappings and rates are left out: they use the two
  caches one after the other. The theorems hold for any number of payments,
  changes and failures.
* A window of three ticks and a limit of three have requests at the beginning,
  in the middle and at the end of two windows that meet. The bucket's rate of
  3/4 token per tick makes rounding matter. Both bounds are proved for all
  values.
* Three rules are the least of which one is the best, one second and one not
  met, with equal priorities in either order; the rules, payments and minutes
  meet every kind of condition and the first and last minute of a rail's day on
  both sides of midnight UTC.
* Two ACKs of one subscription are recorded at the same time; a second
  subscription has its own row and its own requests. A crash repeats an ACK.
* The reconciliation keeps the order of its figures (threshold below period
  below look-back, a query shorter than both) and not their size; one run may be
  missed. Threshold, period and the time a missed run costs come to 9, so that
  with a look-back of 10 `StuckIsReported` has something to say of a payment
  that waits while a run is missed; with the code's figures it has not.
* Three viewers are the least of which one is dropped, one is behind it and one
  in front of it in the array.

Statements that comments, docs and tests make and that the same models refute;
each is a run of its own and a finding in `PROJECT.json`, and the reading given
to the statement is in the comment above its property:

| run | statement | what the code does |
|---|---|---|
| `QueuedUnanswered` | a `QUEUED` payment has no ACK | the ACK of a fast rail is overwritten by the pipeline's own `QUEUED` |
| `CompensatedReversed` | an ACKed payment that is compensated gets a reversal | `compensate` decides on the row it read at its start |
| `OtherBodies` | a key with another body gets 409 | the loser of a race for a key does not compare hashes |
| `SurvivesDrops` | the service survives a dropped connection | only `connect()` registers an `error` listener; an error on a connection made by `doReconnect` ends the process |

Other statements that the code does not keep, seen while modelling and simple
enough to be read off one place:

* FX conversion is not applied whenever "currency crosses zones": the rule
  compares the currency with that of the rail the payment comes from
  (`normalization/rules/currency-rules.ts`, lines 18-34), so that a payment in that
  currency is sent to any other rail unconverted;
* the header of `api/middleware/rate-limit.ts` says "sliding window"; it is a
  fixed one, which lets twice the limit through around its boundary
  (`AtMostTwoWindows` is the bound that holds);
* `findPending` of `webhook.repository.ts` speaks of "unfired" subscriptions and
  selects by payment and event alone: a second final status fires again, which
  is what `SubscribersAreTold` needs; only the ACK consumer fires webhooks,
  though `fireForPayment` names the pipeline as well;
* `PIX_KEY` includes e-mail addresses in `config/constants.ts` (line 40), and
  `inferAliasType` of the route engine takes them for `ACCOUNT`;
* the header of the reconciliation lists orphan ACKs and mismatched amounts: no
  code looks for either. `RECEIVED`, `VALIDATED` and `COMPENSATING` are reported
  by nothing, one missed run is enough to lose a stuck payment (the window is one
  hour, the threshold 15 minutes and two periods another hour), and a payment
  whose answer `QUEUED` has overwritten is reported as stuck; `StuckIsReported`
  says which payments are seen;
* a query for mappings or rules that fails, fails the payment although an expired
  entry is at hand, while a fetch of rates falls back to whatever there is;
* who subscribes to a webhook after the final status is never told;
* `app.close()` in `shutdown` waits for event streams that are open, and nothing
  in core ends one: a signal ends the process only when the last viewer has left,
  which is what `ShutdownEnds` says;
* a 200 of POST /payments says `QUEUED` (`payments.ts`, lines 43 and 60)
  whatever became of the payment: its pipeline may be running, have thrown or
  have died with the process, or the claim may stand without a payment.
  `RepliesAreTrue` is about the payment a 200 names, not about that status;
* no final status but one from an ACK is announced: a `FAILED` of the pipeline, a
  `DEAD_LETTER` and a `COMPENSATED` reach neither stream nor webhook;
* webhooks are "triggered when a payment reaches COMPLETED, FAILED, or REJECTED"
  (`webhooks/webhook.service.ts`, line 4): the catch block of the pipeline fires
  none for its `FAILED`;
* "allow a single probe request" (`resilience/circuit-breaker.ts`, line 9):
  every call is admitted while half-open, and a success admitted before the
  circuit opened closes it; `HalfOpenIsProbed` says only that it is never left
  half-open without a call that can end that;
* `canonicalToAchNacha` reads the payee's bank from the alias alone: a payment
  that names it in `destination.routingNumber`, as MX does, goes to the default
  bank 021000021; ACH and Bre-B write an amount in whatever currency it is, and
  FedNow writes `fx.local_amount`, which is in the currency of the rail of
  origin; the ACH reader fills up the payer's routing number with a `0` where
  its check digit was, and ACH cuts an 18-digit CLABE at 17. `brebToCanonical`
  puts the code of the bank in front of the account, and what FedNow makes of it
  and Bre-B reads again has two codes: after some turns between the two an
  ordinary account does not fit FedNow's 34 characters. The properties of
  `TranslationProperties` say exactly how far accounts, banks and amounts
  survive in spite of this.

**Fairness.** Weak fairness of each handler: the event loop runs every callback
whose database call has settled, the broker delivers what is queued, and node
flushes its socket. An adapter eventually deals with a message it was given
(`WF(Rail)`): without it nothing can be said of an answer. Nothing is assumed
of clients: requests and compensations need not come, and crashes and errors
are never forced. In `Reconnector` timers fire and the broker answers or the
connection is lost; drops and refusals are bounded; of those who watch a stream
nothing is assumed, they may stay for ever. In `CircuitBreaker` requests
keep coming, `fn()` settles and time passes; the failures are bounded, which is
what "the service no longer fails" means. In `Webhooks` messages are delivered,
database calls return, and a subscriber answers or the request is aborted after
ten seconds; nobody has to subscribe (`HookFairness`). Weak fairness is enough because only a handler itself
disables its next step.

## 4. Proofs

TLAPS checks, for any number of payments, rails, ACKs, callers, requests, keys,
clients, subscriptions, changes, errors and crashes, and for any limits and
times:

| theorem | statement |
|---|---|
| `PaymentsProofs!TypeCorrect` | `Spec => []TypeOK` |
| `PaymentsProofs!CausalOrderHolds` | `Spec => []CausalOrder` |
| `PaymentsProofs!Refinement` | `Spec => HistoryIsCausal`: `Payments` implements `PaymentLedger` |
| `PaymentsOutcomeProofs!AcksKept` | `Spec => []AcksAreKept` |
| `PaymentsOutcomeProofs!AnswersAnnounced` | `Spec => []AnswersAreAnnounced` |
| `PaymentsOutcomeProofs!OnlyFaultsStrand` | `Spec => []StrandedOnlyByFaults` |
| `PaymentsOutcomeProofs!PreparationAdvances` | `Spec => PreparationOnlyAdvances` |
| `IdempotencyProofs!AtMostOnce` | `Spec => []OneExecutionPerKey` |
| `IdempotencyProofs!AnswersAreTrue` | `Spec => []RepliesAreTrue`, that is `CreatedMeansReturned`, `ConflictsAreReal` and `ReplaysNameOwner` |
| `IdempotencyProofs!UnansweredExplained` | `Spec => []UnansweredKeysExplained` |
| `IdempotencyProofs!ClaimOnce` | `Spec => ClaimsAreFinal`: `Idempotency` implements `KeyClaims` |
| `ReconnectorProofs!AlwaysReplaced` | `Spec => []NeverStranded` |
| `ReconnectorProofs!OneLoop` | `Spec => []SingleLoop` |
| `ReconnectorProofs!LoopsStayBounded` | `Spec => []LoopsBounded` |
| `ReconnectorProofs!HealthyConnectionIsKept` | `Spec => HealthyIsKept` |
| `CircuitBreakerProofs!TypeCorrect` | `Spec => []TypeOK` |
| `CircuitBreakerProofs!NeverStuckHalfOpen` | `Spec => []HalfOpenIsProbed` |
| `CircuitBreakerProofs!FailuresInOrder` | `Spec => []OldestFirst` |
| `CircuitBreakerProofs!ThresholdKept` | `Spec => []ClosedBelowThreshold` |
| `TranslationProofs!TypesKept` | `Spec => []FlowInv`: typed messages, no field of one party with an identifier of the other |
| `TranslationProofs!PartiesApart` | `Spec => []PartiesStayApart` |
| `TranslationProofs!PayeeCredited`, `!AccountsWhole`, `!PayeeNamed` | `Spec => []PayeeIsCredited`, `Spec => []AccountIsWhole`, and both as `Spec => []PayeeIsNamed` |
| `TranslationProofs!AmountsKept` | `Spec => []AmountIsKept` |
| `TranslationProofs!OwnMessagesRead` | `Spec => []OwnMessagesAreRead` |
| `TranslationProofs!BanksKept` | `Spec => []BankIsKept` |
| `ReferenceDataProofs!TypeCorrect`, `!InductiveInvariant` | `Spec => []TypeOK`, `Spec => []IInv` |
| `ReferenceDataProofs!EntriesTruthful` | `Spec => []EntriesAgeTruthfully` |
| `ReferenceDataProofs!RecordsOfOnePiece` | `Spec => []RateAndAmountAgree` |
| `ReferenceDataProofs!RecentDataOnly` | `Spec => PreparedWithRecentData` |
| `ReferenceDataProofs!BackOnlyByOverlap` | `Spec => CachesGoBackOnlyByOverlap` |
| `ServicesProofs!TwoWindowsAtMost` | `HttpSpec => []AtMostTwoWindows` |
| `ServicesProofs!BurstsBounded` | `BucketSpec => []BurstsAreBounded` |
| `ServicesProofs!RetriesServed` | `BucketSpec => []RetryAfterIsTrue`, which no run checks |
| `ServicesProofs!OneRequest` | `HookSpec => []OneRequestPerAck` |
| `ServicesProofs!AttemptsAccountForRequests` | `HookSpec => []AttemptsAreCounted` |
| `ServicesProofs!StuckPaymentsAreReported` | `ReconSpec => []StuckIsReported` |
| `ServicesProofs!PromptPaymentsPass` | `ReconSpec => []PromptPaymentsAreNotStuck` |
| `ServicesProofs!RulesAreKept` | `RouteSpec =>` the sort of the cached rules loses none and orders them |
| `ServicesProofs!RoutedByBest` | `RouteSpec => []RoutedByBestRule` |
| `ServicesProofs!ClosedRails` | `RouteSpec => []ClosedRailsAreAvoided` |
| `ServicesProofs!EveryoneTold` | `StreamSpec => []EveryoneIsTold` |

The assumptions are those of `PaymentsAssumption`, `IdempotencyAssumption`,
`ReconnectorAssumption` and `CircuitBreakerAssumption`: the "none" values are
not members of the sets they stand beside, adapter rails are rails, bounds and
options are naturals. `ReferenceData` adds `LoadsAreShort` (see the bounds
above), the limiters that limits and windows are positive. `Reconciliation`
assumes that a query ends before the threshold and before the next run
(`QueriesAreShort`; in the code 15 and 30 minutes), `RouteEngine` that a table is
a sequence of rules with integer priorities and that minutes are minutes of a
week, `Webhooks` that the status of an ACK is a final one. `Translation` assumes
that every identifier has a length and every currency a positive rate, and that
`None` is none of the values it stands beside; `TranslationFlow` that payer and
payee share no identifier and that neither is called by what a translator writes
where an identifier is missing ("UNKNOWN", "BENEFICIARY", ...): otherwise nobody
could say whom a message names.

*The argument for Payments.* Causal order is not inductive: that `QUEUED`
follows `PUBLISHED` depends on where the pipeline stands, and that `COMPLETED`
follows an `ACCEPTED` of the rail on what the consumer holds. `IInv` adds, for
each handler, what has been recorded by the time it stands at a given await
(`PipelineInv`, `ConsumerInv`, `CompInv` and the like in
`PaymentsProperties`). Each action is shown to preserve it in a lemma of its
own; because the history is written as a function `FactsOf` of the payment's
row, trail and messages, one lemma about adding a fact with its causes serves
all of them. The refinement then needs only that facts are never removed.

What becomes of answers and of payments at rest (`PaymentsOutcomeProofs`) needs
`OutcomeInv` beside `IInv`. `AnswerInv` follows each ACK through the consumer:
what its stage says has been written, fired and shown; without the clause on
`updated` nothing says that an ACK about to be acknowledged has a verdict to
announce. `PreparationInv` says that until the pipeline publishes, the row says
where the pipeline stands and no other handler has anything to react to: this
is why a status of preparation never comes back, and it needs `wire[p] = "none"`
because a message is what ACKs, dead letters and compensations grow from.
`FaultFreeInv` is about runs that have ended while nothing failed; that somebody
still holds a payment in `COMPENSATING` (`UnderCompensation`) is what makes
`StrandedOnlyByFaults` survive two compensations of one payment. That property
is about runs without a fault, and leaves `QUEUED` out: the trace of
`QueuedUnanswered` rests there although nothing failed.

*The argument for Idempotency.* `IInv` says which row a handler at a given await
may rely on (`RequestInv`), that every client of a key was told of the key's
owner (`ReplyInv`), and that a stored answer belongs to a pipeline that
returned (`KeyInv`). The point of the proof is `FreeKey`: a key without a row
has no request that ran, answered or was refused, so a claim starts from
nothing; an expired row is still a row, which is why expiry never leads to a
second execution.

`ReplaysNameOwner` is had from `ReplyInv` and `ReplayInv`: a 200 is only said of
a key that has a row, and one that names nobody only when the row has expired,
because the loser of a race has seen a row that nobody deletes; while no call
is rejected the insert that claims a key and the start of its pipeline are one
step.

`UnansweredKeysExplained` is not inductive: what a key waits for depends on the
owner asking for that key, and on the owner's reply being the last thing it
does. `OwnerInv` adds both. It holds through failing calls and crashes; what
leaves a key without an answer for ever is a failure its owner was told of, or
the death of the process.

*The argument for Reconnector.* That a dead connection is being replaced is not
inductive: the loop at work may hold another connection than the current one.
`Replaced` names the loop that will notice, `CurrentIsArmed` the handler or the
loop about to register it on a live connection, and `FirstConnection` covers
the time before `main` has registered and while its connection lives.
`SingleLoop` needs `SingleLoopWorks`: a loop that was never interrupted works
only while no connection is open.

`LoopsBounded` counts. A close handler of an open connection is a loop to come:
a lost connection turns handlers into loops, registering turns a loop into a
handler, and only an interrupted `onReconnect` leaves both. `Balance` is the
bound itself with the finiteness that counting needs; the work is in the lemmas
that say what one step adds to and takes from the two sets.

*The argument for CircuitBreaker.* Calls admitted before the circuit opened may
report at any time, but any result that comes in while it is half-open also
ends that state, so the call that made it half-open is still running. A closed circuit is below its threshold (`ThresholdKept`) by
`LogInv`: the failures are in the order of their times, and while the circuit
is closed they are too few to open it. What is cut off the list when a failure
comes in is a beginning of it (`RecordedProperties`), so the list never grows by
more than the failure itself; and the list is empty when the circuit closes.

*The argument for Translation.* That the parties stay apart is an invariant of
types: `Parties(S)` are parties without an identifier of S, and `FlowInv` says
that every message and every canonical document has one of them without the
payee's as its debtor and one without the payer's as its creditor. Each reader
and writer is a function between such sets (one lemma each), so crossing a rail
preserves them and the alias has to be the payee's. The rest goes by `PathInv`,
which remembers what the payment came as. `AmountIsKept` is not inductive: half
a cent lost on every rail would add up. `AmountInv` is: the amount is the first
one or the first one rounded, and rounding what is rounded changes nothing
(`CentsTwice`). `InstructedInv` follows the instructed amount of MX, which is one of
the model's (none, 0 or 2000): a 0 gets no further than the first reader, and
absent is never written as 0, which the next reader would refuse. For the payee (`PayeeInv`,
`PayeeKnown`) the credited account is not enough either: a writer may take the
alias, the account or the name, so all of them that can be chosen must be his.
`BankInv` says where routing number and account stand on ACH, FedNow and MX, in
the alias, while the payment has been nowhere else. `FitsInv` counts: an account has
at most one routing number in front, and behind it at most one code for each
stay on Bre-B, so FedNow leaves it 28 characters less 9 for each stay
(`AccountIsWhole`; with one stay less in the bound TLC finds it violated). How
often a path has been on a rail is counted in a lemma of its own (`PathCounts`).
The properties held in TLC for two legs, and with a single amount for four
(1,371,053 states), before they were proved for any number.

*The argument for ReferenceData.* How old an entry may be depends on the answer
that brought it, and on the version that was current when the answer was given.
`IInv` says of every answer under way that its version was current no longer ago
than it was asked for (`AnswersAreRecent`), that versions still to come are not
retired and that none is cached before it is published; then a stored answer
makes an entry no staler than its age and its load. For rates the stamp covers
the load, which is why their term is shorter. `AnswersAreRecent` also says that
an answer older than the cache is of an overtaken load: this is the whole of
`CachesGoBackOnlyByOverlap`. `AmountIsLast` and `FallbackOnly` give rate and
amount: a second fetch has its reason on record, and without an application id
there is no entry to disagree with the fallback. Every action leaves the caches
alone, stores an answer or drops one; a lemma for each kind shows what it
preserves.

*The argument for the limiters.* `WindowInv`: since its window began a client
has had what the window counts, and before that, within reach, one limit at
most. `Balance`: what was taken in the last t ticks and what could be taken now
have come out of one full bucket and t ticks of refill; a clock set back can
only make the second part smaller. `Promise` is the same for the one who waits.

*The argument for Webhooks.* An ACK whose handler has not fired, or whose firing
has not found its subscriptions, still owes the request of this life of the
process, and has sent at most one in each earlier life (`RequestsOf`). For the
counter, `CountInv` adds that whoever still owes has no delivery under way
(`NoneUnderWay`): a request that is sent adds one to both sides, a recorded
attempt moves one from "under way" to the counter, and a lost record is covered
by `lost`.

*The argument for Reconciliation.* Two clocks run: the age of the payment and
the time to the next run. `WaitingIsMet` and `StalledIsMet` say that a payment
not reported yet will be due when the timer runs out, or that the run under way
will find it or has found it. `RunKeepsTime` ties the length of a run to the
timer it started with, `Stamped` and `JudgedByThreshold` tie the report to the
stamps of the row. The proof corrected the model: a restart strikes, at worst,
when a query is as good as answered, so that a missed run costs the period *and*
a query (`Gap`); an instance in which the window was too narrow for any missed
run had not shown it.

*The argument for RouteEngine.* The rank of a rule, how many stand before it, is
different for different rules and at most their number, so every place is taken
by one rule: the sort is a permutation (`EveryPlaceIsTaken`), it is in order
because ranks follow the priorities, and the first match is the best. For the
hours of a rail, going from UTC to its clock and back through the week is the
identity (`RailClock`); with the day taken in UTC it is not.

*The argument for EventStream.* The loop goes from the end of the array to its
beginning, so a client removed at place i moves only clients that have had their
turn: after k turns the front of the array is untouched, whoever did not throw
is still in it and those behind have been told (`Turned`). A stream that is open
stays in the array (`StreamInv`).

**Induction.** The library's induction theorems take a predicate as a
parameter and cannot be used, but that a non-empty set of naturals has a least
element can be had from the well-foundedness of `<` (`LeastNat`), and with it
induction for one statement at a time: the turns of the loop (`TurnsExist`,
`LoopTells`), the first recent failure, the first rule that matches.

Every invariant above was model-checked on the instance of its run before it
was proved, `OutcomeInv` and `OwnerInv` among them.

Left to TLC: every liveness property (fairness and `ENABLED`), that is
`HandlersEnd`, `RailIsHeard`, `DeadLettersAreRecorded`, `UnreachableRailFails`,
`EveryRequestIsAnswered`, `Settles`, `ShutdownEnds`, `Recovers` and
`SubscribersAreTold`. Every invariant a run checks is also a theorem.

## 5. Not modelled, and the plan

What is left, in this order:

1. Composition of `Idempotency` and `Payments`: what a replay says of the
   payment. The two meet in one call, `execute()`, and in what it returns;
   `Idempotency` has it as an action of the environment.
2. `RouteEngine` between the two halves of `TranslationFlow`, which so far
   takes any rail for the decision.

Of the translators, identifiers of messages, dates, addresses, purposes and
remittance texts are left out, and so are the text forms of MT103 and NACHA
files: the model starts from parsed messages (`swiftMt103ToCanonical` also takes text,
`serializeMt103` and `serializeAchNacha` are called by no code).

Left out for good: observability; schemas, authentication (a stub) and the
read-only routes (`analytics`, `ui-proxy`, lists and lookups), which keep no
state; formatting inside translators beyond which fields survive; payload and
signature of webhooks, the keep-alive of event streams, and the sums and averages
of the reconciliation report. The idempotency middleware is never registered (the
route has its own logic); `clearCache` of the loaders and `execute` of the circuit
breaker are called by nothing, `acquire` of the rail limiter by nothing but its
tests.

# SafePaw: models, checks and proofs

SafePaw puts a reverse proxy (the *gateway*, `services/gateway`) and a setup and
administration service (the *wizard*, `services/wizard`) around an AI assistant
that runs in a container. This directory holds TLA+ models of the parts of it
whose correctness depends on the order of events: threads, callbacks, time,
restarts, failing calls. TLC checks the models on small instances; TLAPS proves
some of the properties for every value of the constants.

Contents: [Inventory](#inventory) · [Plan](#plan) · [Modules](#modules) ·
[Runs](#runs) · [Disagreements](#disagreements-with-the-documentation) ·
[Proofs](#proofs) · [Not modelled](#not-modelled)

To check: `tlc -config <cfg> <module>` for every pair of the table of runs, and
`tlapm <module>` for every module that ends in `Proofs`.

## Inventory

Paths are below `src/services/`; `mw/` is `gateway/middleware/`.

### Gateway

A request passes security headers, origin check, brute-force guard, per-endpoint
limiter, per-IP rate limiter, authenticator (with the revocation list), body
scanner, and then the HTTP reverse proxy or the WebSocket tunnel
(`gateway/main.go:251-339`). The per-IP limiter and the authenticator report failures
back to the brute-force guard (the per-endpoint limiter does not), the authenticator
reports successes too: the guard's state is shared, and every request that is between
the guard and the place that reports is a race with every other.

| component | state | operations | hard behaviour | what makes it correct |
|---|---|---|---|---|
| Per-IP limiter, endpoint buckets (`mw/security.go`) | a counter and a last-seen time per address, one mutex | `Allow`, `cleanup` on a ticker | the window restarts with every admitted request; cleanup drops records at any time | no sliding window holds more than the limit; cleanup is invisible |
| Brute-force guard (`mw/bruteforce.go`) | strikes, ban start and ban length per address; a Redis key per ban | `IsBanned`, `RecordFailure`, `Decrement`, `cleanup`, `Reset` | requests admitted before a ban report after it; forgiveness during a ban; Redis failures; restarts; truncated timestamps | bans end, hold, survive restarts, and are deserved |
| Revocation list (`mw/revocation.go`) | revocation time and expiry per subject; a Redis key per subject | `Revoke`, `IsRevoked`, `cleanup` | the Redis lookup runs without the lock; keys, copies and tokens expire at different times, in seconds or not | a revoked token is not admitted; a fresh one is not rejected |
| Authenticator (`mw/auth.go`) | none besides its key | `ValidateToken`, `AuthRequired…` | clock skew against revocation expiry; order of the tests | scope and expiry decide; rejections are strikes |
| Redis client (`mw/redis.go`) | one connection, one mutex | `Do`: send, read the reply, reconnect and retry once | a retry that fails half way leaves a reply unread | every caller gets the reply to its own command |
| Receipt ledger (`mw/receipt.go`) | a ring of receipts, an atomic counter | `Append`, `Query`, `Recent` | the number is taken before the lock | numbers unique and none lost; reads agree; a session's receipts are bracketed |
| Ledger file (`mw/receipt_persist.go`) | an NDJSON file, the hash of its last line, its size | `OpenLedgerFile`, `WriteEntry` with rotation, `VerifyLedgerFile` | short writes, failing close/rename/open, crashes, restarts | the chain of hashes never loses an acknowledged entry; damage stays local |
| WebSocket tunnel (`gateway/ws_proxy.go`), tool tracing (`mw/tool_parser.go`) | three goroutines and a channel per session; bytes carried over between chunks | dial, hijack, copy both ways, record, tear down | either direction may end first | no goroutine stays behind; start and end are recorded around what happens |
| Output and body scanners (`mw/output_scanner.go`, `mw/sanitize.go`) | a response held back in a buffer; status and passthrough flag | `WriteHeader`, `Write`, scan and send | replies larger than the buffer, broken off, empty, or preceded by an informational one | the client gets every piece once and in order, none unscanned that was to be scanned |
| Usage collector (`gateway/usage_collector.go`, `pricing.go`) | a connection, pending requests by id, the latest snapshot, a backoff | connect, handshake, poll on a ticker, process frames, reconnect, stop | a reader goroutine and a poll loop that wait for each other; stale data served as current | an answer to the periodic request becomes the snapshot (it does not, see below); an old snapshot raises no false alarm and does not outlive its connection; stop ends everything |
| Metrics, audit emitter, logs (`mw/metrics.go`, `mw/audit_emitter.go`, …) | a gauge of connections, counters made on first use | increment, record, format | two requests create one counter; panics on the way out | every request is counted and audited once, as answered |
| Signer, headers, origin check (`mw/proxy_signer.go`, `mw/security.go`) | none | pure functions of a request | – | – |
| Configuration, start, shutdown (`gateway/config/config.go`, `main.go`) | environment | read, start, drain, close | connections that outlive the drain | only tunnels and late requests are cut off; seen by the others as a restart |

### Wizard

| component | state | operations | hard behaviour | what makes it correct |
|---|---|---|---|---|
| Login guard (`wizard/internal/middleware`) | failures and a lockout per address, one mutex | `RecordFailure`, `IsLockedOut`, `ResetIP`, `cleanup` | logins under way when a lockout starts or a success clears it | a locked-out address waits; the lockout ends |
| Sessions (`session/session.go`, `api/handler.go`, `totp/totp.go`) | the session generation, in memory and in a file; credentials in the environment | login, validate, change password, bump the generation | a login checks the password and signs later; generation and `.env` are written separately | a password change ends every session created with the old one |
| Configuration editing (`api/handler_config.go`, `api/envfile.go`) | `.env` | read, modify, write | two requests at once; a failure between two files | no update is lost, no half-written file is read |
| Cost history (`costhistory/poller.go`, `store.go`) | rows per day and model | poll, upsert, list | a cycle ends with its first failing statement; statements and tables are written apart | a day's row is the latest the gateway reported |
| Service control, verification, audit (`docker/client.go`, `handler_verify.go`, `audit/audit.go`) | none | HTTP calls | – | – |
| Web interface (`wizard/ui`) | presentation | – | – | – |

Outside both: a mock backend, a token generator, shared helpers, launch and
backup scripts, monitoring configuration. PROJECT.json lists every component and
every hazard with its line.

## Plan

Most important first; the order is the order of what breaks silently.

| step | modules | abstract specification | state |
|---|---|---|---|
| 1 | RateLimiter (counters) | Throttle: what the history of admissions demands | checked, proved |
| 2 | BruteForce (guard, reports, Redis copy) | – | checked, proved |
| 3 | Revocation (list, checks, Redis copy) | – | checked, proved |
| 4 | Ledger + WsTunnel (ring, goroutines of a session) | RecentLog: a log of the latest receipts | checked, proved |
| 5 | LedgerFile (hash chain on disk) | – | checked, proved |
| 6 | RedisClient: connection, outstanding replies, reconnect, retry | – | checked, proved |
| 7 | UsageCollector: reader goroutine, poll loop, pending requests, backoff, stop | – | checked, proved |
| 8 | LoginGuard, WizardAccess: lockout, login steps, change of `.env`, session generation, restarts | – | checked, proved |
| 9 | CostHistory: poller, store, tables, dashboard | – | modelled; its run reports a disagreement |
| 10 | OutputScanner, GatewayRequest: the middleware order, the way out, the shutdown | – | checked, proved |
| 11 | PersistentLedger: Ledger with LedgerFile; ToolStream: the carry-over of the parser | – | to do |

Every safety property of a passing run is proved; step 11 is what the plan has
left. The modules are written to be proved about: no RECURSIVE operator, one action
per operation, invariants that are conjunctions of named parts, named assumptions.

## Modules

Every constant that only bounds a run is called a bound where it is declared.
Time is a counter `now` that `Tick` moves; two events between ticks are
simultaneous for the program. Steps are atomic exactly where the code holds a
mutex or touches one atomic variable. History variables (named so) exist for the
properties and appear in no guard, except where a bound caps them.
Definitions commented as a mutant are not used by the specification: each is a
plausible bug which the property named in PROJECT.json detects.

**RateLimiter, Throttle.** `records` is the table, `Allow` the three outcomes of
`RateLimiter.Allow` (a new window, one more in the window, a refusal, which
leaves `lastSeen` alone), `Cleanup` the ticker's sweep. `verdict` is the answer
the caller got, `admitted` the history. `Limit` may be any integer, as the
environment variable may; opening a window never looks at it, hence `Cap`.
Throttle keeps no counters: it refuses a client exactly when its last `Cap`
admissions follow each other within a window each and the last is not older
than a window.

**BruteForce.** `strikes` is the guard's map, `redis` its keys, `inflight` the
requests between `IsBanned` (`Request`) and their report: `RecordFailure`,
`Decrement` (authentication succeeded) or `Leave` (no report). The methods hold
one mutex across their Redis call, so each is one step; `Write` is the Redis
call, which may fail and is then only logged. `Loaded` is what the lookup of a
missing entry makes of the key, truncated to seconds as it was stored.
`Restart` empties map and requests. `hist` is history; `Swept` is what the sweep
of an entry does to it.

**Revocation.** A check is four steps: `Present` (a valid token of the longest
life arrives; `ValidateToken`), `ReadMemory` under the read lock, `ReadRedis`
with no lock, `Cache` under the lock, over whatever has been written since.
`Revoke` is one step. `durable` and `volatile` are the revocations acknowledged,
by whether Redis took them.

**Ledger, WsTunnel, RecentLog.** `Append` of `receipt.go` is two steps:
`TakeSeq` (the atomic counter) and `Insert` (under the mutex); `hand` is a
receipt between them. `Query` and `Recent` are the two readers. WsTunnel
instantiates Ledger with the goroutines that append: per session a handler
(`Open`, `Start`, `End`, `Close`), a downlink that reads chunks (`Chunk`),
appends what the parser recognises (`Recognise`, `StoreRecognised`) and ends
(`DownlinkEnds`), and an uplink (`UplinkEnds`). `done` counts the messages in
the channel of capacity two. What a chunk contains is free. RecentLog is the
promise to readers.

**LedgerFile.** `current` and `rotated` are the files, as sequences of lines;
`handle`, `prevHash` and `size` are the fields of `LedgerFile`; `WriteEntry` is
`Rotate` or `RotationFails` when the file is full, then `Write`, `WriteFails` or
`WriteTears`; `rotating` marks the moment in between, where the process may die.
A line has its hash (a fresh number per text), the hash it carries, whether it
parses and whether its newline is there; `Appended` merges a line into an
unterminated one, as O_APPEND does. `Restart` is `OpenLedgerFile` on what was
left, which may fail. `Linked`, `Chained` and `Verified` are `VerifyLedgerFile`.
The history `acked` is kept per file, as the files are.

**RedisClient.** `conn` is the client's connection, a place in `links`, which
holds every connection opened with the commands Redis has not read and the replies
the client has not read. `Do` is `Call`, `Send`, then a read: `TakeReply`,
`TakeShort` (a bulk string of which only a part has arrived; a missing key is
answered by one line instead), `TakeError`, or
`ReadFails` after the deadline; the first error leads to `Retry`, the second is the
caller's. `Serve` is Redis at work on any connection, given up or not; `Break` the
network. BruteForce and Revocation use the client as something that does a call or
fails it: `RepliesInStep` and `LastWriteStands` say when that is so, `redis_skew`
when it is not.

**UsageCollector.** Two goroutines and OpenClaw. `pc` is where `run` is: `Begin`,
`Dial`, the handshake (`SendConnect`, `Accepted`, `Rejected`, `WrongChallenge`),
`fetchUsage` (`Fetch`, one frame a step), `pollLoop` (`TakeFrame`, `Tick`,
`EndCostWait`, `EndSessionsWait`, `StopSeen`), then `Pause` and again. `reader` is
the goroutine that puts frames into `frames`; it `Blocked` when it holds one more
than the channel does. `pending` and `slot` are the map of channels by request id
and what has been put into them. Ids are counted per connection, which is enough
as uuids never meet and nothing survives `Disconnect`. OpenClaw answers a request
(`Answer`) in any order, with data or an error, or not at all, and sends events. A
usage summary is its last day with that day's cost, which is all that `Snapshot`
makes decisions from. `PatientSpec` is the same collector with time for every answer
that arrives.

**LoginGuard, WizardAccess.** LoginGuard has the guard's record for one address and
its methods as conjuncts; WizardAccess has everything else. A login is `BeginLogin`
(`IsLockedOut`), `Match` (password to role), `CheckCode` (TOTP), then `FailLogin`
(`RecordFailure`), or `Sign` (the token, with the generation of that moment) and
`Greet` (`ResetIP`): the code holds no lock between these. A change is `BeginPut`
(session and role), `Lock`, `ReadEnv`, `Truncate`, `WriteEnv` or `WriteFails`
(`os.WriteFile` empties the file before it writes), and, for credentials, `Reload`
and `Bump`. Values are numbered versions of a key. `Restart` ends everything at any
point; a new container takes its environment (`boot`) from `.env` and loses the
generation's file, which is not on a volume, a restarted one keeps both. A session
remembers, as history, the generation in force when its password was checked
(`seen`) and the versions it was made with.

**CostHistory.** A statement is the set of columns it names and a table the set it
has, and `WindowCompares` is the type of the SELECTs' window: Postgres refuses a
statement by these alone. `Poll`, `FetchUsage` or `FetchFails`,
then `Write`, `WriteFails` or `WriteRefused` for each row of `Persist`, then `Finish`;
`CostDaily`, `CostModels` and `CostTrends` are the handlers. Rows are reduced to
their cost.

**OutputScanner, GatewayRequest.** OutputScanner has no state of its own: it is the
stack of response writers as operators on a record (`WriteHeader`, `Write`,
`ScanAndSend` of `captureWriter`; `SendHeader` and `SendBytes` of the writers around
it). A body is a sequence of numbered pieces, negative when sanitized. GatewayRequest
takes requests through `OriginCheck`, `BruteForceMiddleware`, `EndpointRateLimit`,
`RateLimitWithGuard`, `AuthRequiredWithGuard` to `Probe`, `Admin`, `OpenTunnel` or
`BodyScanner` and the proxy (`BackendUnavailable`, `InterimReply`, `Reply`, `Piece`,
`ReplyEnds`, `ReplyBreaks`), and back out by `OutputScan`, `AuditEmitter` and the two
ways of counting (`Count`, or `MissCounter` and `CreateCounter`), one step per
middleware since nothing is locked between them. Whether limiter, guard and
authenticator admit a request is free: RateLimiter, BruteForce and Revocation say
when they do. `Signal`, `Drain`, `CloseRedis` and `Exit` are the shutdown.

## Runs

| run | configuration | what it shows | bounds, and why they suffice |
|---|---|---|---|
| `brute_force` | one address, three strikes a ban, ban of two ticks, seconds of two ticks, six failures, two requests in flight, nine ticks, failing Redis | bans end (`BansAutoExpire`), hold (`PersistentAbuserIsBanned`), are those decided (`BanAsDecided`), and never shrink by another failure (`FailureNeverShortensBan`) | the guard's methods touch one address; six failures reach the second tier of durations, nine ticks outlast it; with three strikes a ban, a banned entry that a success has weakened can gather strikes without another ban, which two cannot show; a second longer than a tick makes truncation visible |
| `revocation` | one subject, two checks, life of two ticks, seconds of two ticks, skew of two, two revocations, five ticks, failing Redis | `RevokedNotAdmitted`, `NoFalseRevocation` | entries of subjects never meet; five ticks outlast a life twice over, two checks overlap each other, a revocation and a restart; the goroutines are alike, hence the symmetry |
| `receipts` | two sessions, a ring of two, one recognised chunk per session | `NoGap`, `RecentAgreesWithQuery`, `SessionBracketed`, `ImplementsRecentLog`, `TunnelTornDown` | up to eight receipts pass a ring of two, which wraps in every position; four goroutines append at once |
| `ledger_file` | files of two lines, seven texts | `IntactChain`, `DamageIsLocal`, `VerifiedStaysVerified`; the size tracks the file | three files, two rotations, and several torn writes fit; a text needs two hashes because it may merge with what is there |
| `redis_client` | three calls, four connections | `RepliesInStep`, `LastWriteStands`, `EveryCallReturns` | the first call may fail twice and leave a reply due, the second meets it, the third the new connection |
| `usage` | two connections, a channel of one frame, one tick, two days, costs up to two, one frame on the wire, thresholds one and two, backoff up to two | `FreshOnConnect`, `AlertIsTrue`, `ReaderGetsRoom`, `StopEndsRun` | a full channel needs one frame, a stale snapshot one lost connection, a false alarm one midnight; the second connection meets whatever the first left |
| `wizard_access` | two requests, two attempts within one tick, a lockout of two ticks, two ticks, two values a key, four logins, changes or restarts | `LockoutDeserved`, `LockoutHolds`, `StaleSessionOverlapped`, `AckedConfigStands`, `CredentialsInForce` | a race needs two requests; four events are a change, a login across it, and a restart or a second pair; the requests are alike, hence the symmetry |
| `gateway_request` | two requests, a local and a foreign origin, one list of allowed origins, replies of up to two pieces, a scanner that holds one; for the per-IP limiter two clients, limit 2, window 2, six ticks | `RequestAccounted`, `DeliveredWhole`; of the limiter `WindowBound`, `ImplementsThrottle`, and that a counter never passes the limit (`LimiterTypeOK`) | requests meet only in the counters and in the drain, where two suffice; whatever the list, some origins pass and some are refused, and nothing else depends on it; two pieces exceed the scanner, one fits; three windows fit into six ticks, so runs, gaps of exactly a window and longer gaps all occur, and a second client shows independence |
| `revocation_stale`, `redis_skew`, `usage_poll`, `cost_history` | [see below](#disagreements-with-the-documentation) | violated | the shortest history is enough |

`gateway_request` checks two specifications side by side (`GatewaySpec`): a behaviour is
one of GatewayRequest while RateLimiter is where it starts, or the other way round.
GatewayRequest lets the limiter answer anything and RateLimiter is called by anybody,
so neither reads what the other writes, and their interleavings would show nothing.

`usage_poll` checks `PatientSpec`, UsageCollector with a timer that ends a wait for an
answer only if the reader and the loop have nothing left to do. A collector that loses
an answer only because it came after fifteen seconds does what is promised; under
`PatientSpec` such behaviours are left out, and what is violated then is not a matter
of a slow answer.

What each property says is written above it in its module. `TypeOK` of each
module also holds one relation the types alone do not give (a counter within its
limit, no entry without strikes, a value in hand when it is compared, indices
inside the ring, the size of the file).

**Fairness.** Four properties need it. `EveryCallReturns` of RedisClient assumes that a
call goes on when it can, and it always can: dial, write and read each have a
deadline of five seconds, after which `SendFails`, `RetryFails` or `ReadFails` is
taken; nothing is assumed of Redis. For `TunnelTornDown` of WsTunnel weak fairness is
assumed of what a goroutine does by itself: storing a numbered receipt, going on after
it, taking a message that is in the channel. Go's scheduler runs every runnable
goroutine, and its mutexes hand over to a waiter that has starved, so a step that
stays enabled is taken. Of the directions it is assumed only that they end *after
the handler has closed both connections*, when their reads and writes return an
error. Nothing is assumed of peers: they may stay silent for ever, and then the
tunnel stays open, as in the code, which sets no deadline. UsageCollector assumes weak
fairness of what timers and the cancelled context bring about (`EndCostWait`,
`EndSessionsWait`: 15 seconds; `StopSeen`, `Return`, and a `Fail` once stopped, as
every dial, read and write takes the context), and strong fairness of `TakeFrame`: the
outer `select` chooses among its ready cases at random, so a frame in the channel is
not passed over for ever although the loop leaves the `select` now and then. Nothing
is assumed of OpenClaw.

**Deadlock** is checked in every other run: `Restart` is always possible where there
is one; RedisClient's `Close` is. It is not
checked in `usage`, `wizard_access` and `gateway_request`: the collector ends once
stopped, the gateway exits, and the wizard's run ends with its events and its clock.
That nobody waits for ever in them is `ReaderGetsRoom`, `StopEndsRun`, and the
configuration lock's release on every path out of `Put`, without which
`AckedConfigStands` would say nothing.

## Disagreements with the documentation

* `revocation_stale`: a check that found revocation *t1* in Redis before a second
  revocation *t2* stores *t1* over *t2* in memory; tokens issued between are then
  admitted, against the header of `revocation.go` (line 18), until the entry
  expires or the process restarts.
* `redis_skew`: a retry whose read times out leaves the connection in use with its
  reply due (`redis.go:181`). And `readResponse` reads a value with one `Read`, which
  returns what has arrived (line 137): if the key has a value and only a part of it is
  here, the rest is the next command's reply. The next caller gets what belongs to
  another, against "returns the response" (`redis.go:184`), until some read fails. The
  shortest counterexample is the retry.
* `usage_poll`: every sixty seconds `pollLoop` sends `usage.cost` and waits for the
  response channel (`usage_collector.go:417-441`). But the frames that the reader
  goroutine receives are given to `routeFrame`, which fills that channel, by the outer
  `select` of the same loop, which is not running while the inner one waits. So each
  wait lasts its fifteen seconds, the answer in the frame channel finds its request
  forgotten, and the snapshot stays that of `fetchUsage`, as old as the connection. That
  is against `SPEC-COST-MONITORING.md:66-67` ("Calls `usage.cost` every 60 seconds",
  "Stores latest `CostUsageSummary` in memory") and `usage_collector.go:404`
  ("processes responses"). With `Routes` made true during the waits too, that is, with
  frames routed then, `PollStoresLatest` holds in the same run.
* `cost_history`: the upserts of `store.go` (lines 92 and 114) name `prompt_tokens`,
  `completion_tokens` and `messages`; the tables that `postgres/init/03-cost-history.sql`
  creates have `input_tokens`, `output_tokens` and `messages_total`, which the store's
  own SELECTs use. Postgres refuses every upsert, the cycle ends with its first one, and
  the history stays empty, against "The wizard writes snapshots here every poll cycle"
  (lines 5-6 of that file). The dashboard's SELECTs are refused as well
  (`date >= CURRENT_DATE - $1`, lines 174, 205 and 251: an untyped `$1` takes the type of
  the other operand, the difference of two dates is an integer, and a date does not
  compare with it); nothing the run states depends on that.

Seen while reading or modelling, not stated as runs:

* Ledger: `Query` says it is ordered by sequence number, which two appends between the
  counter and the mutex defeat; `VerifyLedgerFile` expects the genesis hash in every
  file, while a file that follows a rotation starts with the last hash of the one
  before; a restart starts sequence numbers again although the struct's comment says
  "never reset". When a rotation cannot close or reopen the file, the closed handle
  stays in place (`receipt_persist.go:176`), so "Continue writing to the current file"
  (line 104) does not happen: all writes fail until a restart (`RotationFails`).
* Brute-force guard: the header of `bruteforce.go` (line 12) gives the second ban 15
  minutes; the length is computed from `strikes / threshold`, and one more strike renews
  an expired ban, so the sixth of five strikes bans for the base duration again.
* Usage collector: the backoff is not reset, against line 399; any frame but a refusal
  counts as the hello; the reader goroutine leaks when the loop ends while the channel is
  full; the status stays "connected" after `Stop`; data kept over midnight show the
  alert "ok".
* Wizard: a login that overlaps a password change yields a session that survives it
  (`StaleSessionOverlapped` names the one exception), against `SECURITY.md:191`; an
  attempt under way lifts a lockout; `docker restart` keeps the environment of the
  container's creation, so a changed admin password reverts; operator and viewer
  passwords are not passed on by `docker-compose.yml` and vanish at a restart until the
  next change of credentials; readers of `.env` take no lock and may see it emptied.
* Cost history: no second attempt to connect if Postgres is down at start; model rows
  hold the aggregate of thirty days under today's date.
* Gateway: `Director` deletes the `X-SafePaw-Risk` header that the body scanner has just
  set (`main.go:90`); a scannable reply with an empty body never has its status sent, so
  the client gets 200; after an informational reply the rest passes unscanned and its
  final status is hidden from audit and metrics; a reply that the backend breaks off
  leaves no audit record and is not counted; hijacked connections are audited as 200;
  the drain does not wait for tunnels, against `main.go:391-392`; `text/event-stream` is
  held back like any other text.

## Proofs

`GatewayProofs` holds the proofs about what every HTTP request meets: the rate limiter
and its own way through the gateway. Because one module extends both, the limiter's
definitions are named `LimiterInit`, `LimiterNext`, `LimiterSpec`, `LimiterTypeOK`.

Of RateLimiter it proves, from `RateLimiterAssumption` alone (any integer limit,
any window, any set of clients):

* `LimiterTypeCorrect`: `LimiterSpec => []LimiterTypeOK`.
* `WindowBounded`: `LimiterSpec => []WindowBound`. The bound is about admissions, and
  whether the next one is let through depends on the counter, so it is not
  inductive. The invariant `LimiterIInv` adds `Agrees`: the counter is the length of the
  current run of admissions, the run has no gap longer than a window, and such a
  gap separates it from what came before (`Describes`); or there is no record and
  the last admission is more than a window old (`Forgotten`). `OpenAgrees`,
  `CountAgrees` and the lemma for the sweep show that each way of changing a record
  preserves it.
* `RefinesThrottle`: `LimiterSpec => ImplementsThrottle`, step by step, by the same
  invariant: under `Agrees` a full counter in a current window is Throttle's
  `Train`.

Of GatewayRequest it proves, from `GatewayAssumption` and `OutputScannerAssumption`
(any finite set of requests, any origins and allow-lists, any number of pieces, any
size of the scanner's buffer), `RequestTypeCorrect`, `RequestsAccounted` and
`ResponseDelivered`: `Spec => []TypeOK`, `[]RequestAccounted`, `[]DeliveredWhole`. All
but the counters and the gauge is a promise about a request that has returned, which
says nothing of how it got there. The invariant `RequestIInv` says what is true of a
request at each place on its way:

* `Delivered`: up to the scan the pieces sent are all in the buffer or all with the
  client (`Flowing`), and a scannable reply is passed on only after an informational
  one or when it is too large; after the scan nothing is left in the buffer and the
  client has everything, sanitized or not (`Complete`).
* `Recorded`: the status remembered is the informational one or the one the client
  got; no audit record exists before `AuditEmitter`, and after it there is the one
  with the status remembered. It needs that a reply's held-back status is never the
  informational one, or the scan could send that as the final status.
* `Judged`: nothing is reported to the guard before the step that can do so.
* `Gauged`, `CountedOnce`: the gauge and each counter is the size of a set of
  requests. `CountedOnce` speaks of each status by itself: a statement about the sum
  of the counters would allow a request to be counted under another's status.
* `Drained`: from the end of the drain on, only tunnels are inside unless it ran out
  of time, and Redis is open until then.

`InnerStep` reduces a step of one request to what it makes of that request
(`Becomes`); `WayInStep`, `RefuseStep`, `StrikeStep`, `ResponseStep` do the same for the
kinds of steps the middleware has in common; `WriteIs`, `WriteFlows` and `ScanCompletes`
say what `captureWriter` does to a response.

`BruteForceProofs` proves, from `BruteForceAssumption` (any threshold, any base ban
that is a whole number of seconds, any failures of Redis):

* `TypeCorrect`: `Spec => []TypeOK`. What is written to Redis is truncated to
  seconds, so the durations there are those of the code only because each is a
  multiple of the base ban (`DurationsExact`).
* `BansExpire`: `Spec => []BansAutoExpire`. Not inductive either: a key in Redis may
  become the entry after a restart, so the invariant must hold of it too. `Sound`
  says of entry and key that the ban is `Deserved` (not younger than the latest
  failure, not longer than all failures warrant) and that strikes never outnumber
  failures, without which the next ban could be longer than deserved.
  `OneAddress` reduces each action of a request to the address it touches,
  `WriteOutcome` treats the call of Redis that may fail.
* `AbuserIsBanned`, `BansHold`, `BansGrow`: the other direction, that bans which are
  due hold (`PersistentAbuserIsBanned`, `BanAsDecided`, `FailureNeverShortensBan`). The
  second invariant, `HInv`, says of each address that it is `Honoured`: an entry banned
  and below the threshold was `Weakened` by a success; every failure less than a base
  ban ago is `Counted` among the strikes, and a ban is no older than it; bans are
  `Proportional` to the strikes kept with them, unless some were taken back; and while
  no Redis call failed, map and key are `Synced` with the ban decided last.

The attempt to prove `AbuserIsBanned` corrected the model's claim. With a threshold of
three or more, an entry that was banned and then weakened by a success
(`Decrement` keeps `bannedAt`) gathers strikes below the threshold, and the cleanup
sweeps it with them once its old ban is over (`bruteforce.go:188`): an address can then
fail as often as the threshold says, within minutes, without being banned. The run had
a threshold of two, where this cannot happen. It has three now, and the history behind
the property starts counting again at such a sweep (`Swept`).

`RevocationProofs` proves every property of `revocation`, from `RevocationAssumption`
(any subjects and goroutines, any life, precision of Redis and skew):

* `TypeCorrect`: `Spec => []TypeOK`.
* `RevokedStaysOut`: `Spec => RevokedNotAdmitted`. The step that admits a token looks at
  what an earlier step has read, and so the invariant follows a revocation from store to
  check: `KeyKept` (Redis keeps the first revocation it stored, for a life that
  suffices), `EntryKept` (before there is one, the map has an entry of a life that
  suffices, or had until some revocation lapsed), and `CheckSound` (a check
  that has missed the map is about a subject that Redis knows, or the token has
  expired).
* `RejectionsAreTrue`: `Spec => NoFalseRevocation`, from `EntryGenuine` and `FoundGenuine`:
  whatever the map or a check holds stems from a revocation of that subject, to the
  second. A check may overwrite a later revocation by an earlier one, so
  nothing stronger is true (`revocation_stale`).

`WsTunnelProofs` proves the safety properties of `receipts`, from `WsTunnelAssumption`
(any sessions, any size of the ring), by one invariant `IInv`:

* `TypeCorrect`: `Spec => []TypeOK`.
* `NumbersComplete`: `Spec => []NoGap`, from `Distinct` (no number twice, stored or held)
  and `Accounted` (none missing until the ring is full). The property counts with
  Cardinality; `CardinalityOfImage` and `SameCardinality` carry the facts about
  numbers over to sizes of sets.
* `WalksAgree`: `Spec => []RecentAgreesWithQuery`, which holds of every ring of the right
  `Shape`; `Wrap` is the one lemma about remainders.
* `SessionsBracketed`: `Spec => []SessionBracketed`, with `Protocol`, what each state of
  a session's handler says of the receipts it has stored and holds.
* `RingIsRecentLog`: `Spec => ImplementsRecentLog`. `InsertQuery` says what storing a
  receipt does to the sequence `Query` shows (the new one behind it, and the first
  dropped when the ring is full), `StepRefines` that every step of the tunnels is then a
  step of RecentLog or none.

`LedgerFileProofs` proves every property of `ledger_file`, from `LedgerFileAssumption`
(any positive size of a file, any number of texts), by one invariant `IInv`:

* `TypeCorrect`: `Spec => []TypeOK`.
* `DamageStaysLocal`: `Spec => []DamageIsLocal`. A torn write may break the chain only
  with the lines to come, so the number of breaks is not inductive. `Damage` adds those
  that are `Due`: two after a line of which only the newline is missing (it merges with the
  next one, and the one after that does not continue the result), one after a line that
  is broken already or whose hash the writer does not have. A whole line pays for its
  break out of what is due (`WriteLimited`), a torn one costs two (`TearLimited`), a
  rotation or recovery only reduces the debt.
* `ChainIntact`: `Spec => []IntactChain`. Without torn writes nothing is broken or due,
  so the links within files follow from `Damage`; `Kept` and `Continued` add the
  contents and the links between files.
* `HistoryStays`: `Spec => VerifiedStaysVerified`, from `SealedStays`: what is appended
  touches no line that has its newline.

`RedisClientProofs` proves the safety properties of `redis_client`, from
`RedisClientAssumption` (any number of calls and connections), by one invariant `IInv`:

* `TypeCorrect`: `Spec => []TypeOK`.
* `InStepAlways`: `Spec => []RepliesInStep`. `readResponse` takes the next reply on
  trust, so the invariant says what the next reply can be: on a connection that is not
  skewed there is nothing between calls, and during a call the command or its reply
  (`InStep`).
* `AckedWriteStands`: `Spec => []LastWriteStands`. A connection that was given up may
  still carry commands, and Redis may execute them later. `Older` says of every
  connection that none of them is younger than the latest write and that a copy of the
  latest stores the same; `Ahead`, of the connection in use once a write is
  acknowledged, that none is older; `Executed` is the moment between Redis
  and the caller, when the reply is here and its write stored.

`UsageCollectorProofs` proves the safety properties of `usage`, from
`UsageCollectorAssumption` (any capacity of the channel, thresholds, longest pause,
days and costs), by one invariant `IInv`:

* `TypeCorrect`: `Spec => []TypeOK`.
* `AlertsAreTrue`: `Spec => []AlertIsTrue`. An answer may wait on the wire over midnight,
  so the invariant speaks of every frame that may become the data: its summary is
  `Honest`, not of the future and not above what its day has cost.
* `FreshWhenConnected`: `Spec => FreshOnConnect`, from `Progress` (which requests have been
  sent when) and `Sound` (the answer to the cost request of `fetchUsage` is at least as
  new as the connection).
* `PollsPublishNothing`: outside `fetchUsage` no step changes what is published. It
  says how far the violation of `usage_poll` goes: whatever OpenClaw answers and
  when, and however large the channel is. From `Unrouted`: the response
  channel of a periodic request is empty whenever its wait ends, since nobody reads
  frames meanwhile.

The proof of `FreshWhenConnected` corrected the model: once the cost had arrived,
`fetchUsage` was stuck in the model at an event, which the code skips
(`usage_collector.go:568`), so behaviours of `fetchUsage` between the two answers were missing.

`WizardAccessProofs` proves every property of WizardAccess, from
`LoginGuardAssumption` (at least one attempt, any window and lockout) and
`WizardAccessAssumption` (any set of requests, any number of values), by one
invariant `IInv`, which `Inductive` shows step by step:

* `GuardInv`, of the guard: a record `Stands` for the latest failures, all within one
  window of its first; a lockout that `Runs` is in the record, so that nothing that
  drops a record (a question, a sweep) can drop a running lockout. Hence
  `LockoutsDeserved` and, of the step that begins a login, `LockoutsHold`.
* `Typed`: the types, those of a request's local variables among them; hence
  `TypeCorrect`.
* `Exclusive`: whoever edits the file holds the lock.
* `SessionsSound`: a session that has seen the present generation was made with the
  credentials in force, unless a change is between reload and bump. To be
  inductive it must say the same of logins under way that have matched a password
  and not signed yet. Hence `NoStaleSession`.
* `ConfigSound`: the copy that a request will write back is what has been
  acknowledged, the file is too unless it has just been emptied, and the
  credentials follow unless a reload is due. Hence `AckedStands` and
  `CredentialsStand`.

The frame lemmas (`SessionsFrame`, `ConfigFrame`, `RequestFrame`) say once what a step
of one request leaves alone; `Elsewhere` puts them together for the steps of a login.

Only model-checked: liveness under fairness (`TunnelTornDown`, `EveryCallReturns`,
`ReaderGetsRoom`, `StopEndsRun`), which like ENABLED is outside what TLAPS proves, as
is induction over data (the library's induction theorems take an operator as a
parameter); the modules have no RECURSIVE operator because TLAPS
loses its SMT backend over one.

## Not modelled

* Text: pattern tables, JSON, log lines, HTTP headers, HMAC and JWT. Tokens are a
  subject, an issue time and a life.
* Tokens that live longer than `AUTH_MAX_TTL_HOURS` (the token generator can make
  them): every token of Revocation has the longest life the gateway itself gives.
* Clock jumps: `now` never goes back.
* A machine crash that loses what was written but not synced; two rotations within
  one second, whose names collide.
* Memory growth of the guard and the limiter over unboundedly many addresses.
* Filters of `Query`, which select from its result; log lines and the text of metrics.
* What the pattern tables of the scanners find, and `ScanningReader` of the tunnels, which
  logs what it finds and passes every byte on; which bucket a path prefix selects.
* Expiry of the wizard's sessions, its operator role (handled as the viewer's, but for
  TOTP), CSRF tokens, its general rate limiter, reading of the configuration and the
  expansion of `SYSTEM_PROFILE`.
* `Cleanup` of the cost history, `Reset` and `BannedIPs` of the guard, which have no
  caller outside tests.
* Wizard service control and verification: HTTP calls to Docker and to the services,
  and their reporting, without state of their own.
* Web interface, mock backend, token generator, shared helpers, generated code, scripts.
* The modules of step 11 of the plan.

--------------------------- MODULE GatewayRequest ---------------------------
(***************************************************************************)
(* HTTP requests on their way through the gateway (gateway/main.go): the   *)
(* middleware from the outside in, the handlers behind it, what is         *)
(* recorded on the way back out, and the shutdown that runs beside them.   *)
(*                                                                         *)
(*   Metrics, SecurityHeaders, RequestID, AuditEmitter                     *)
(*     OriginCheck, BruteForce, EndpointRateLimit, RateLimit, Auth         *)
(*       /health, /metrics | /admin/... | tunnel | scanners and proxy      *)
(*                                                                         *)
(* Whether a limiter, the guard or the authenticator admits a request is   *)
(* free here; RateLimiter, BruteForce and Revocation say when they do.     *)
(***************************************************************************)
EXTENDS OutputScanner, FiniteSets

CONSTANTS
    Requests,   \* the requests of one run of the gateway
    Origins,    \* values of the Origin header besides none
    Local,      \* those of them that are localhost or a codespace
    AllowLists, \* values of ALLOWED_ORIGINS
    MaxPieces   \* bound on the pieces of a backend response

ASSUME GatewayAssumption ==
    /\ IsFiniteSet(Requests)
    /\ Local \subseteq Origins /\ AllowLists \subseteq SUBSET Origins
    /\ MaxPieces \in Nat

NoOrigin == "no origin"

VARIABLES
    authEnabled,     \* AUTH_ENABLED
    allowedOrigins,  \* ALLOWED_ORIGINS
    server,          \* "serving", "draining", "drained", "closing" or "exited"
    timedOut,        \* whether the drain took longer than its 15 seconds
    redis,           \* whether the Redis client is open
    at,              \* per request, how far it is
    path,            \* per request, the kind of its path
    writer,          \* per request, its response writers, see OutputScanner
    sent,            \* per request, pieces the backend has sent
    scannable,       \* per request, whether the backend's content type is scanned
    hijacked,        \* per request, whether its connection became a tunnel
    strikes,         \* per request, failures reported to the guard
    clears,          \* per request, successes reported to the guard
    audit,           \* per request, the audit records: the status in each
    activeConns,     \* Metrics.activeConns
    requestsTotal    \* Metrics.requestsTotal: status -> count

config == <<authEnabled, allowedOrigins>>
lifecycle == <<server, timedOut, redis>>
response == <<writer, sent, scannable>>
guarded == <<strikes, clears>>
recorded == <<audit, activeConns, requestsTotal>>
vars == <<config, lifecycle, at, path, response, hijacked, guarded, recorded>>

Paths == {"probe", "asset", "admin", "page"}

\* Where a request is between Accept and the end of its handler.
Inside == {"origin", "guard", "endpoint", "limit", "auth", "mux", "scan", "backend",
           "reply", "scanned", "tunnel", "returning", "counting", "creating"}

Init ==
    /\ authEnabled \in BOOLEAN
    /\ allowedOrigins \in AllowLists
    /\ server = "serving"
    /\ timedOut = FALSE
    /\ redis = TRUE
    /\ at = [r \in Requests |-> "none"]
    /\ path = [r \in Requests |-> "page"]
    /\ writer = [r \in Requests |-> NewWriter]
    /\ sent = [r \in Requests |-> 0]
    /\ scannable = [r \in Requests |-> FALSE]
    /\ hijacked = [r \in Requests |-> FALSE]
    /\ strikes = [r \in Requests |-> 0]
    /\ clears = [r \in Requests |-> 0]
    /\ audit = [r \in Requests |-> <<>>]
    /\ activeConns = 0
    /\ requestsTotal = <<>>

Go(r, from, to) == at[r] = from /\ at' = [at EXCEPT ![r] = to]

\* A middleware answers by itself.
Refuse(r, from, code) ==
    /\ Go(r, from, "returning")
    /\ writer' = [writer EXCEPT ![r] = SendHeader(@, code)]
    /\ UNCHANGED <<sent, scannable>>

Pass(r, from, to) == Go(r, from, to) /\ UNCHANGED response

\* The paths that the guard, both limiters and the authenticator let through.
Exempt(r) == path[r] \in {"probe", "asset"}

-----------------------------------------------------------------------------
(***************************************************************************)
(* The way in.                                                             *)
(***************************************************************************)
Accept(r) ==
    /\ server = "serving"
    /\ Go(r, "none", "origin")
    /\ \E p \in Paths : path' = [path EXCEPT ![r] = p]
    /\ activeConns' = activeConns + 1
    /\ UNCHANGED <<config, lifecycle, response, hijacked, guarded, audit, requestsTotal>>

OriginAllowed(origin) ==
    \/ origin = NoOrigin
    \/ allowedOrigins = {} /\ origin \in Local
    \/ origin \in allowedOrigins

OriginCheck(r) ==
    /\ \E origin \in Origins \cup {NoOrigin} :
          \/ OriginAllowed(origin) /\ Pass(r, "origin", "guard")
          \/ ~OriginAllowed(origin) /\ Refuse(r, "origin", 403)
    /\ UNCHANGED <<config, lifecycle, path, hijacked, guarded, recorded>>

BruteForceMiddleware(r) ==
    /\ \/ Pass(r, "guard", "endpoint")
       \/ ~Exempt(r) /\ Refuse(r, "guard", 403)
    /\ UNCHANGED <<config, lifecycle, path, hijacked, guarded, recorded>>

\* A refusal here is no strike.
EndpointRateLimit(r) ==
    /\ \/ Pass(r, "endpoint", "limit")
       \/ ~Exempt(r) /\ Refuse(r, "endpoint", 429)
    /\ UNCHANGED <<config, lifecycle, path, hijacked, guarded, recorded>>

Strike(r) == strikes' = [strikes EXCEPT ![r] = @ + 1] /\ UNCHANGED clears

RateLimitWithGuard(r) ==
    /\ \/ Pass(r, "limit", "auth") /\ UNCHANGED guarded
       \/ ~Exempt(r) /\ Refuse(r, "limit", 429) /\ Strike(r)
    /\ UNCHANGED <<config, lifecycle, path, hijacked, recorded>>

\* Without authentication only the identity headers are removed.
AuthRequiredWithGuard(r) ==
    /\ \/ (Exempt(r) \/ ~authEnabled) /\ Pass(r, "auth", "mux") /\ UNCHANGED guarded
       \/ /\ ~Exempt(r) /\ authEnabled
          /\ \/ /\ Pass(r, "auth", "mux")
                /\ clears' = [clears EXCEPT ![r] = @ + 1]
                /\ UNCHANGED strikes
             \/ Refuse(r, "auth", 401) /\ Strike(r)
    /\ UNCHANGED <<config, lifecycle, path, hijacked, recorded>>

-----------------------------------------------------------------------------
(***************************************************************************)
(* The handlers of the mux.                                                *)
(***************************************************************************)
Probe(r) ==
    /\ path[r] = "probe"
    /\ \E code \in {200, 503} : Refuse(r, "mux", code)
    /\ UNCHANGED <<config, lifecycle, path, hijacked, guarded, recorded>>

\* Scope "admin" is asked for by a second AuthRequired, which has no guard.
\* Without authentication only the ledger has an admin path.
Admin(r) ==
    /\ path[r] = "admin"
    /\ \E code \in {200, 400, 405} \cup IF authEnabled THEN {401} ELSE {} :
          Refuse(r, "mux", code)
    /\ UNCHANGED <<config, lifecycle, path, hijacked, guarded, recorded>>

ToBackend(r) == path[r] \in {"asset", "page"}

\* WsTunnel has the rest of a tunnel's life.
OpenTunnel(r) ==
    /\ ToBackend(r)
    /\ \/ /\ Pass(r, "mux", "tunnel")
          /\ hijacked' = [hijacked EXCEPT ![r] = TRUE]
       \/ \E code \in {500, 502} : Refuse(r, "mux", code) /\ UNCHANGED hijacked
       \/ Pass(r, "mux", "returning") /\ UNCHANGED hijacked   \* Hijack fails: no answer
    /\ UNCHANGED <<config, lifecycle, path, guarded, recorded>>

TunnelEnds(r) ==
    /\ Pass(r, "tunnel", "returning")
    /\ UNCHANGED <<config, lifecycle, path, hijacked, guarded, recorded>>

\* An answer written inside OutputScanner: one piece of a scannable type.
AnswerInside(r, from, code) ==
    /\ Go(r, from, "scanned")
    /\ writer' = [writer EXCEPT ![r] = Write(WriteHeader(@, code, TRUE), 1)]
    /\ sent' = [sent EXCEPT ![r] = 1]
    /\ scannable' = [scannable EXCEPT ![r] = TRUE]

\* Bodies other than JSON or text, and bodies that cannot be read, go on
\* unscanned; those that are read are scanned and restored.
BodyScanner(r) ==
    /\ ToBackend(r)
    /\ Pass(r, "mux", "backend") \/ AnswerInside(r, "mux", 413)
    /\ UNCHANGED <<config, lifecycle, path, hijacked, guarded, recorded>>

-----------------------------------------------------------------------------
(***************************************************************************)
(* The reverse proxy.                                                      *)
(***************************************************************************)
\* ErrorHandler: the backend does not answer, or the request cannot be sent.
BackendUnavailable(r) ==
    /\ AnswerInside(r, "backend", 502)
    /\ UNCHANGED <<config, lifecycle, path, hijacked, guarded, recorded>>

\* At most one informational reply goes before the final one.
InterimReply(r) ==
    /\ at[r] = "backend"
    /\ writer[r].status = 0
    /\ writer' = [writer EXCEPT ![r] = WriteHeader(@, Interim, FALSE)]
    /\ UNCHANGED <<config, lifecycle, at, path, sent, scannable, hijacked, guarded, recorded>>

Reply(r) ==
    /\ Go(r, "backend", "reply")
    /\ \E code \in {200, 404}, s \in BOOLEAN :
          /\ writer' = [writer EXCEPT ![r] = WriteHeader(@, code, s)]
          /\ scannable' = [scannable EXCEPT ![r] = s]
    /\ UNCHANGED <<config, lifecycle, path, sent, hijacked, guarded, recorded>>

Piece(r) ==
    /\ at[r] = "reply"
    /\ sent[r] < MaxPieces
    /\ sent' = [sent EXCEPT ![r] = @ + 1]
    /\ writer' = [writer EXCEPT ![r] = Write(@, sent'[r])]
    /\ UNCHANGED <<config, lifecycle, at, path, scannable, hijacked, guarded, recorded>>

ReplyEnds(r) ==
    /\ Pass(r, "reply", "scanned")
    /\ UNCHANGED <<config, lifecycle, path, hijacked, guarded, recorded>>

\* Mutant of ReplyBreaks: the gauge is decremented after the handler, not deferred.
ReplyBreaksUndeferred(r) ==
    /\ Pass(r, "reply", "aborted")
    /\ UNCHANGED <<config, lifecycle, path, hijacked, guarded, recorded>>

\* The backend breaks off: ReverseProxy panics with ErrAbortHandler.  Of what
\* the middleware does on the way out only the deferred decrement happens.
ReplyBreaks(r) ==
    /\ Pass(r, "reply", "aborted")
    /\ activeConns' = activeConns - 1
    /\ UNCHANGED <<config, lifecycle, path, hijacked, guarded, audit, requestsTotal>>

OutputScan(r) ==
    /\ Go(r, "scanned", "returning")
    /\ \E risk \in Risks : writer' = [writer EXCEPT ![r] = ScanAndSend(@, risk)]
    /\ UNCHANGED <<config, lifecycle, path, sent, scannable, hijacked, guarded, recorded>>

-----------------------------------------------------------------------------
(***************************************************************************)
(* The way out.  statusCapture and statusWriter start from 200.            *)
(***************************************************************************)
Status(r) == IF writer[r].seen = 0 THEN 200 ELSE writer[r].seen

AuditEmitter(r) ==
    /\ Pass(r, "returning", "counting")
    /\ audit' = [audit EXCEPT ![r] = IF path[r] = "probe" THEN @ ELSE Append(@, Status(r))]
    /\ UNCHANGED <<config, lifecycle, path, hijacked, guarded, activeConns, requestsTotal>>

\* The handler has returned: net/http sends 200 if nothing was sent.
Leave(r, from) ==
    /\ Go(r, from, "gone")
    /\ writer' = [writer EXCEPT ![r] = IF hijacked[r] THEN @ ELSE SendBytes(@, <<>>)]
    /\ activeConns' = activeConns - 1
    /\ UNCHANGED <<config, lifecycle, path, sent, scannable, hijacked, guarded, audit>>

Counted == DOMAIN requestsTotal
Add(status) == [requestsTotal EXCEPT ![status] = @ + 1]

\* Under the read lock: the counter exists, or it has to be created.
Count(r) ==
    /\ Status(r) \in Counted
    /\ requestsTotal' = Add(Status(r))
    /\ Leave(r, "counting")

MissCounter(r) ==
    /\ Status(r) \notin Counted
    /\ Pass(r, "counting", "creating")
    /\ UNCHANGED <<config, lifecycle, path, hijacked, guarded, recorded>>

\* Mutant of Created: the lookup is not repeated under the write lock.
CreatedBlindly(status) ==
    [s \in Counted \cup {status} |-> IF s = status THEN 1 ELSE requestsTotal[s]]

\* Under the write lock: somebody may have been first.
Created(status) ==
    IF status \in Counted THEN Add(status)
    ELSE [s \in Counted \cup {status} |-> IF s = status THEN 1 ELSE requestsTotal[s]]

CreateCounter(r) ==
    /\ requestsTotal' = Created(Status(r))
    /\ Leave(r, "creating")

-----------------------------------------------------------------------------
(***************************************************************************)
(* Shutdown.  Server.Shutdown waits for the connections it knows, and it   *)
(* no longer knows the ones that were hijacked.                            *)
(***************************************************************************)
Signal ==
    /\ server = "serving"
    /\ server' = "draining"
    /\ UNCHANGED <<config, timedOut, redis, at, path, response, hijacked, guarded, recorded>>

Drain ==
    /\ server = "draining"
    /\ \/ /\ \A r \in Requests : at[r] \in Inside => hijacked[r]
          /\ UNCHANGED timedOut
       \/ timedOut' = TRUE
    /\ server' = "drained"
    /\ UNCHANGED <<config, redis, at, path, response, hijacked, guarded, recorded>>

CloseRedis ==
    /\ server = "drained"
    /\ server' = "closing"
    /\ redis' = FALSE
    /\ UNCHANGED <<config, timedOut, at, path, response, hijacked, guarded, recorded>>

\* The collector is stopped and main returns; what is still running is cut off.
Exit ==
    /\ server = "closing"
    /\ server' = "exited"
    /\ at' = [r \in Requests |-> IF at[r] \in Inside THEN "dropped" ELSE at[r]]
    /\ UNCHANGED <<config, timedOut, redis, path, response, hijacked, guarded, recorded>>

-----------------------------------------------------------------------------
Step(r) ==
    \/ Accept(r) \/ OriginCheck(r) \/ BruteForceMiddleware(r) \/ EndpointRateLimit(r)
    \/ RateLimitWithGuard(r) \/ AuthRequiredWithGuard(r)
    \/ Probe(r) \/ Admin(r) \/ OpenTunnel(r) \/ TunnelEnds(r) \/ BodyScanner(r)
    \/ BackendUnavailable(r) \/ InterimReply(r) \/ Reply(r) \/ Piece(r) \/ ReplyEnds(r)
    \/ ReplyBreaks(r) \/ OutputScan(r)
    \/ AuditEmitter(r) \/ Count(r) \/ MissCounter(r) \/ CreateCounter(r)

Next ==
    \/ server # "exited" /\ \E r \in Requests : Step(r)
    \/ Signal \/ Drain \/ CloseRedis \/ Exit

Spec == Init /\ [][Next]_vars

-----------------------------------------------------------------------------
(***************************************************************************)
(* The types, and: the gauge of active connections is the number of        *)
(* requests inside, whichever way the others left; requests cut off by the *)
(* exit take the gauge with them.                                          *)
(***************************************************************************)
TypeOK ==
    /\ at \in [Requests -> Inside \cup {"none", "gone", "aborted", "dropped"}]
    /\ path \in [Requests -> Paths]
    /\ hijacked \in [Requests -> BOOLEAN]
    /\ strikes \in [Requests -> 0 .. 2] /\ clears \in [Requests -> 0 .. 1]
    /\ activeConns = Cardinality({r \in Requests : at[r] \in Inside \cup {"dropped"}})

InterimSent(r) == writer[r].seen = Interim

(***************************************************************************)
(* Every request whose handler returned has one audit record, unless it is *)
(* a probe, and the record has the status the client got.  Connections     *)
(* that were hijacked are recorded as 200 whatever went over them, and an  *)
(* informational reply hides the final status: both are as in the code.    *)
(***************************************************************************)
AuditedAsAnswered ==
    \A r \in Requests : at[r] = "gone" /\ path[r] # "probe" =>
        /\ Len(audit[r]) = 1
        /\ hijacked[r] \/ InterimSent(r) \/ audit[r] = <<writer[r].code>>

(***************************************************************************)
(* A counter of a status is the number of the requests that returned with  *)
(* it, and there is one for each: none is lost when two requests create    *)
(* the same counter at once.                                               *)
(***************************************************************************)
CountedOnce ==
    /\ \A r \in Requests : at[r] = "gone" => Status(r) \in Counted
    /\ \A s \in Counted :
          requestsTotal[s] = Cardinality({r \in Requests : at[r] = "gone" /\ Status(r) = s})

\* One request is at most one strike or one success for the guard.
JudgedOnce == \A r \in Requests : strikes[r] + clears[r] <= 1

(***************************************************************************)
(* Nothing but a tunnel is cut off unless the drain ran out of time: the   *)
(* gateway's shutdown "gives active requests time to complete"             *)
(* (main.go:393), and Redis is not closed under them.                      *)
(***************************************************************************)
NoneDropped ==
    \A r \in Requests : /\ at[r] = "dropped" => hijacked[r] \/ timedOut
                        /\ at[r] \in Inside /\ ~redis => hijacked[r] \/ timedOut

RequestAccounted == AuditedAsAnswered /\ CountedOnce /\ JudgedOnce /\ NoneDropped

Received(r) == LET body == writer[r].body IN
    [i \in DOMAIN body |-> IF body[i] < 0 THEN -body[i] ELSE body[i]]

(***************************************************************************)
(* The client gets the pieces of the backend's response in order, each     *)
(* once, at any moment a prefix of them and all of them when the handler   *)
(* returns.  Sanitizing covers the whole response or none of it, and no    *)
(* piece of a response that fits the scanner leaves before the scan,       *)
(* unless an informational reply came first: captureWriter judges the      *)
(* response by the headers of that one, and lets the rest through.         *)
(* No write to the client fails in the model: a client that is gone gets   *)
(* nothing, and nothing is promised to it.                                 *)
(***************************************************************************)
DeliveredWhole ==
    \A r \in Requests : LET body == writer[r].body IN
        /\ Received(r) = [i \in 1 .. Len(body) |-> i]
        /\ Len(body) <= sent[r]
        /\ at[r] = "gone" => Len(body) = sent[r]
        /\ (\A i \in DOMAIN body : body[i] < 0) \/ (\A i \in DOMAIN body : body[i] > 0)
        /\ at[r] = "reply" /\ scannable[r] /\ sent[r] <= MaxScan /\ ~InterimSent(r)
              => body = <<>>
=============================================================================

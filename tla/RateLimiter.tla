------------------------------ MODULE RateLimiter ------------------------------
(***************************************************************************)
(* The gateway's fixed-counter rate limiter: RateLimiter.Allow, and the    *)
(* endpointBucket.allow that repeats it for one URL prefix                 *)
(* (services/gateway/middleware/security.go).  Allow runs under the        *)
(* limiter's mutex, so a call is one step; the cleanup goroutine takes the *)
(* same mutex and may run, late or early, between any two calls.           *)
(*                                                                         *)
(* A client without a record is represented by NoRecord.                   *)
(***************************************************************************)
EXTENDS Integers, Sequences

CONSTANTS
  IPs,      \* client addresses
  Limit,    \* RATE_LIMIT: an int read from the environment, never validated
  Window,   \* RATE_LIMIT_WINDOW_SEC, in ticks
  MaxTime   \* bound on the clock

ASSUME RateLimiterAssumption ==
  /\ Limit \in Int
  /\ Window \in Nat
  /\ MaxTime \in Nat

VARIABLES
  now,       \* time.Now()
  records,   \* RateLimiter.records
  admitted,  \* history: per client, when its requests were admitted
  verdict    \* per client, what the latest call of Allow answered

limiterVars == <<now, records, admitted, verdict>>

NoRecord == [count |-> 0, lastSeen |-> 0]

(***************************************************************************)
(* Opening a window does not consult the limit, so a limit of zero or less *)
(* behaves like a limit of one.                                            *)
(***************************************************************************)
Cap == IF Limit >= 1 THEN Limit ELSE 1

\* Mutant of Stale: a record expires one tick early, at exactly one window.
StaleAtWindow(rec) == now - rec.lastSeen >= Window

Stale(rec) == now - rec.lastSeen > Window

StartsWindow(ip) == records[ip] = NoRecord \/ Stale(records[ip])

LimiterInit ==
  /\ now = 0
  /\ records = [ip \in IPs |-> NoRecord]
  /\ admitted = [ip \in IPs |-> <<>>]
  /\ verdict = [ip \in IPs |-> "none"]

-------------------------------------------------------------------------------
Admit(ip, count) ==
  /\ records' = [records EXCEPT ![ip] = [count |-> count, lastSeen |-> now]]
  /\ admitted' = [admitted EXCEPT ![ip] = Append(@, now)]
  /\ verdict' = [verdict EXCEPT ![ip] = "allowed"]
  /\ UNCHANGED now

OpenWindow(ip) ==
  /\ StartsWindow(ip)
  /\ Admit(ip, 1)

\* Mutant of CountInWindow: the limit is compared after counting, not before.
CountThenCompare(ip) ==
  /\ ~StartsWindow(ip)
  /\ records[ip].count <= Limit
  /\ Admit(ip, records[ip].count + 1)

CountInWindow(ip) ==
  /\ ~StartsWindow(ip)
  /\ records[ip].count < Limit
  /\ Admit(ip, records[ip].count + 1)

\* A refused call leaves the record alone, its lastSeen included.
Deny(ip) ==
  /\ ~StartsWindow(ip)
  /\ records[ip].count >= Limit
  /\ verdict' = [verdict EXCEPT ![ip] = "denied"]
  /\ UNCHANGED <<now, records, admitted>>

Allow(ip) == OpenWindow(ip) \/ CountInWindow(ip) \/ Deny(ip)

\* Mutant of Cleanup: records are dropped for being full, not for being old.
CleanupDropsFull ==
  /\ records' = [ip \in IPs |-> IF records[ip].count >= Limit THEN NoRecord ELSE records[ip]]
  /\ UNCHANGED <<now, admitted, verdict>>

Cleanup ==
  /\ records' = [ip \in IPs |-> IF Stale(records[ip]) THEN NoRecord ELSE records[ip]]
  /\ UNCHANGED <<now, admitted, verdict>>

Tick ==
  /\ now < MaxTime
  /\ now' = now + 1
  /\ UNCHANGED <<records, admitted, verdict>>

LimiterNext ==
  \/ \E ip \in IPs : Allow(ip)
  \/ Cleanup
  \/ Tick

LimiterSpec == LimiterInit /\ [][LimiterNext]_limiterVars

-------------------------------------------------------------------------------
(***************************************************************************)
(* Types of the limiter's table and of the history kept beside it: a       *)
(* counter never passes the limit and no record is dated in the future     *)
(* (records of security.go are written with time.Now() only).              *)
(***************************************************************************)
LimiterTypeOK ==
  /\ now \in 0 .. MaxTime
  /\ records \in [IPs -> [count : 0 .. Cap, lastSeen : 0 .. MaxTime]]
  /\ admitted \in [IPs -> Seq(0 .. MaxTime)]
  /\ verdict \in [IPs -> {"none", "allowed", "denied"}]

(***************************************************************************)
(* However requests, refusals and cleanups interleave, any stretch of time *)
(* as long as a window holds at most Cap admitted requests of one client:  *)
(* the promise "max N connections per window" of NewRateLimiter, for       *)
(* sliding windows and not only for the limiter's own.                     *)
(***************************************************************************)
WindowBound ==
  \A ip \in IPs : \A i \in 1 .. Len(admitted[ip]) :
    i + Cap <= Len(admitted[ip]) => admitted[ip][i + Cap] - admitted[ip][i] > Window

Promise == INSTANCE Throttle

(***************************************************************************)
(* The counters are an implementation detail: every answer of Allow is the *)
(* one the client's history of admissions calls for, and a run of cleanup  *)
(* is invisible to clients whenever it happens.                            *)
(***************************************************************************)
ImplementsThrottle == Promise!Spec
===============================================================================

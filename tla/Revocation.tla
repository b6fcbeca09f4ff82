------------------------------- MODULE Revocation -------------------------------
(***************************************************************************)
(* The gateway's token revocation list (services/gateway/middleware/       *)
(* revocation.go) as the auth middleware uses it: revocations per subject, *)
(* in memory and, as far as Redis accepts them, in Redis; and the checks   *)
(* of presented tokens that look them up.                                  *)
(*                                                                         *)
(* Revoke holds the list's mutex from start to end and is one step.  A     *)
(* check is not: it validates the token, reads the map under the read      *)
(* lock, and on a miss reads Redis with no lock held and only then takes   *)
(* the lock to copy what it read into the map.                             *)
(*                                                                         *)
(* A subject without an entry is represented by NoEntry, a missing Redis   *)
(* key by NoKey.                                                           *)
(***************************************************************************)
EXTENDS Integers, FiniteSets

CONSTANTS
  Subjects,      \* token subjects
  Checks,        \* goroutines that may be checking a token at the same time
  MaxTTL,        \* AUTH_MAX_TTL_HOURS, in ticks: life of a token, of an entry, of a key
  Second,        \* ticks per second: tokens and Redis carry Unix seconds
  ClockSkew,     \* how long past its expiry a token is accepted (30s), in ticks
  RedisMayFail,  \* whether a Redis call can fail
  MaxRevokes,    \* bound: revocations of one subject that the history holds
  MaxTime        \* bound on the clock

ASSUME RevocationAssumption ==
  /\ Second \in Nat \ {0}
  /\ MaxTTL \in Nat \ {0}
  /\ MaxTTL % Second = 0
  /\ ClockSkew \in Nat
  /\ RedisMayFail \in BOOLEAN
  /\ MaxRevokes \in Nat
  /\ MaxTime \in Nat

VARIABLES
  now,      \* time.Now()
  entries,  \* RevocationList.entries
  redis,    \* the keys safepaw:revoke:<subject>
  checks,   \* per goroutine, the check it is at
  durable,  \* history: per subject, acknowledged revocations that Redis stored
  volatile  \* history: those that only this process's memory holds

vars == <<now, entries, redis, checks, durable, volatile>>

Never == -1
Times == 0 .. MaxTime

NoEntry == [revokedAt |-> Never, expiresAt |-> Never]

NoKey == [revokedAt |-> Never, expires |-> 0]

\* time.Time.Unix, in ticks.
Unix(t) == t - (t % Second)

Revocations(sub) == durable[sub] \cup volatile[sub]

\* IsRevoked's comparison of a token's iat with the entry's time.
Covers(at, iat) == iat <= Unix(at)

(***************************************************************************)
(* A check at rest.  "covered" remembers, for the properties, whether a    *)
(* revocation acknowledged before the check began covers the token;        *)
(* "firstCovered" whether the earliest one that has not been lost does.    *)
(***************************************************************************)
Idle(sub) ==
  [pc |-> "idle", sub |-> sub, iat |-> 0, found |-> Never, verdict |-> "none",
   covered |-> FALSE, firstCovered |-> FALSE]

Init ==
  /\ now = 0
  /\ entries = [sub \in Subjects |-> NoEntry]
  /\ redis = [sub \in Subjects |-> NoKey]
  /\ checks \in [Checks -> {Idle(sub) : sub \in Subjects}]
  /\ durable = [sub \in Subjects |-> {}]
  /\ volatile = [sub \in Subjects |-> {}]

-------------------------------------------------------------------------------
(***************************************************************************)
(* POST /admin/revoke                                                      *)
(***************************************************************************)
\* Mutant of Revoke: the key's life is half of what the longest token needs.
RevokeShortKey(sub) ==
  /\ Cardinality(Revocations(sub)) < MaxRevokes
  /\ entries' = [entries EXCEPT ![sub] = [revokedAt |-> now, expiresAt |-> now + MaxTTL]]
  /\ redis' = [redis EXCEPT ![sub] = [revokedAt |-> Unix(now), expires |-> now + MaxTTL \div 2]]
  /\ durable' = [durable EXCEPT ![sub] = @ \cup {now}]
  /\ UNCHANGED <<now, checks, volatile>>

Revoke(sub) ==
  /\ Cardinality(Revocations(sub)) < MaxRevokes
  /\ ~(entries[sub].revokedAt > now)
  /\ entries' = [entries EXCEPT ![sub] = [revokedAt |-> now, expiresAt |-> now + MaxTTL]]
  /\ \/ /\ redis' = [redis EXCEPT ![sub] = [revokedAt |-> Unix(now), expires |-> now + MaxTTL]]
        /\ durable' = [durable EXCEPT ![sub] = @ \cup {now}]
        /\ UNCHANGED volatile
     \/ /\ RedisMayFail
        /\ volatile' = [volatile EXCEPT ![sub] = @ \cup {now}]
        /\ UNCHANGED <<redis, durable>>
  /\ UNCHANGED <<now, checks>>

-------------------------------------------------------------------------------
(***************************************************************************)
(* AuthRequiredWithGuard: ValidateToken, then IsRevoked                    *)
(***************************************************************************)
\* A token is valid up to and including the second it expires in, plus the skew.
Valid(iat) == Unix(now) - ClockSkew <= iat + MaxTTL

\* Some goroutine is handed a valid token of the longest life, issued at iat.
Present(g, sub, iat) ==
  /\ checks[g].pc \in {"idle", "done"}
  /\ iat = Unix(iat)
  /\ iat <= now
  /\ Valid(iat)
  /\ checks' = [checks EXCEPT ![g] =
       [pc |-> "validated", sub |-> sub, iat |-> iat, found |-> Never, verdict |-> "none",
        covered |-> \E at \in Revocations(sub) : Covers(at, iat),
        firstCovered |-> /\ Revocations(sub) # {}
                         /\ \A at \in Revocations(sub) : Covers(at, iat)]]
  /\ UNCHANGED <<now, entries, redis, durable, volatile>>

Decide(g, verdict) ==
  checks' = [checks EXCEPT ![g].pc = "done", ![g].verdict = verdict]

Compare(g, at) ==
  Decide(g, IF Covers(at, checks[g].iat) THEN "rejected" ELSE "admitted")

\* The map is read under the read lock; a hit decides.
ReadMemory(g) ==
  LET e == entries[checks[g].sub] IN
    /\ checks[g].pc = "validated"
    /\ IF e = NoEntry THEN checks' = [checks EXCEPT ![g].pc = "missed"]
       ELSE Compare(g, e.revokedAt)
    /\ UNCHANGED <<now, entries, redis, durable, volatile>>

\* Mutant of ReadRedis: the value found is not carried on to the comparison.
ReadRedisForgets(g) ==
  LET key == redis[checks[g].sub] IN
    /\ checks[g].pc = "missed"
    /\ now < key.expires
    /\ checks' = [checks EXCEPT ![g].pc = "found"]
    /\ UNCHANGED <<now, entries, redis, durable, volatile>>

\* GET, with no lock held.  No key means no revocation; an error means the same.
ReadRedis(g) ==
  LET key == redis[checks[g].sub] IN
    /\ checks[g].pc = "missed"
    /\ \/ /\ now < key.expires
          /\ checks' = [checks EXCEPT ![g].pc = "found", ![g].found = key.revokedAt]
       \/ /\ now >= key.expires
          /\ Decide(g, "admitted")
       \/ /\ RedisMayFail
          /\ Decide(g, "unchecked")
    /\ UNCHANGED <<now, entries, redis, durable, volatile>>

\* Mutant of Cache: the copy is dated when it is made, not when the subject was revoked.
CacheAsOfNow(g) ==
  LET sub == checks[g].sub IN
    /\ checks[g].pc = "found"
    /\ entries' = [entries EXCEPT ![sub] = [revokedAt |-> now, expiresAt |-> now + MaxTTL]]
    /\ Compare(g, now)
    /\ UNCHANGED <<now, redis, durable, volatile>>

\* What was found is copied into the map, over whatever the map holds by now.
Cache(g) ==
  LET sub == checks[g].sub
      at == checks[g].found
  IN  /\ checks[g].pc = "found"
      /\ entries' = [entries EXCEPT ![sub] = [revokedAt |-> at, expiresAt |-> now + MaxTTL]]
      /\ Compare(g, at)
      /\ UNCHANGED <<now, redis, durable, volatile>>

-------------------------------------------------------------------------------
(***************************************************************************)
(* The cleanup goroutine, the process, the clock                           *)
(***************************************************************************)
Outdated(e) == e # NoEntry /\ now > e.expiresAt

Cleanup ==
  /\ entries' = [sub \in Subjects |-> IF Outdated(entries[sub]) THEN NoEntry ELSE entries[sub]]
  /\ UNCHANGED <<now, redis, checks, durable, volatile>>

\* The gateway stops, or crashes, and starts with an empty map.
Restart ==
  /\ entries' = [sub \in Subjects |-> NoEntry]
  /\ checks' = [g \in Checks |-> Idle(checks[g].sub)]
  /\ volatile' = [sub \in Subjects |-> {}]
  /\ UNCHANGED <<now, redis, durable>>

Tick ==
  /\ now < MaxTime
  /\ now' = now + 1
  /\ UNCHANGED <<entries, redis, checks, durable, volatile>>

Next ==
  \/ \E sub \in Subjects : Revoke(sub)
  \/ \E g \in Checks : \/ \E sub \in Subjects, iat \in Times : Present(g, sub, iat)
                       \/ ReadMemory(g) \/ ReadRedis(g) \/ Cache(g)
  \/ Cleanup
  \/ Restart
  \/ Tick

Spec == Init /\ [][Next]_vars

-------------------------------------------------------------------------------
(***************************************************************************)
(* Types of the map, the Redis keys, the checks and the history; a check   *)
(* that is about to copy and compare has a Redis value in hand.            *)
(***************************************************************************)
TypeOK ==
  /\ now \in Times
  /\ entries \in [Subjects -> [revokedAt : Times, expiresAt : Nat] \cup {NoEntry}]
  /\ redis \in [Subjects -> [revokedAt : Times, expires : Nat] \cup {NoKey}]
  /\ checks \in [Checks -> [pc : {"idle", "validated", "missed", "found", "done"},
                            sub : Subjects, iat : Times, found : Times \cup {Never},
                            verdict : {"none", "admitted", "rejected", "unchecked"},
                            covered : BOOLEAN, firstCovered : BOOLEAN]]
  /\ \A g \in Checks : checks[g].pc = "found" => checks[g].found \in Times
  /\ durable \in [Subjects -> SUBSET Times]
  /\ volatile \in [Subjects -> SUBSET Times]

Decides(g, verdict) ==
  /\ checks[g].pc # "done"
  /\ checks'[g].pc = "done"
  /\ checks'[g].verdict = verdict

(***************************************************************************)
(* A token that was revoked before its check began is not admitted, unless *)
(* its life is over: whatever restarts, cleanups, expiring keys, failed    *)
(* writes and concurrent checks do.  Of several revocations of a subject   *)
(* this holds for the earliest one that some store still had to honour;    *)
(* RevokedTokenRejected says more, and fails.  Admission without an answer *)
(* from Redis ("unchecked") is the fallback the header of revocation.go    *)
(* announces.                                                              *)
(***************************************************************************)
RevokedNotAdmitted ==
  [][\A g \in Checks :
       Decides(g, "admitted") /\ checks[g].firstCovered
         => Unix(now) >= checks[g].iat + MaxTTL]_vars

(***************************************************************************)
(* A token is rejected as revoked only if its subject was revoked in or    *)
(* after the second the token was issued in: a user with a fresh token is  *)
(* not locked out by an older revocation, read back from Redis or not.     *)
(***************************************************************************)
NoFalseRevocation ==
  [][\A g \in Checks :
       Decides(g, "rejected") =>
         \E at \in Revocations(checks[g].sub) : Covers(at, checks[g].iat)]_vars

(***************************************************************************)
(* Header of revocation.go, step 5: a token whose iat is not later than    *)
(* the revocation is rejected.  The copy made after a Redis lookup can     *)
(* overwrite a revocation made while the lookup was under way, and tokens  *)
(* issued between the two revocations are admitted from then on.           *)
(***************************************************************************)
RevokedTokenRejected ==
  \A g \in Checks :
    checks[g].pc = "done" /\ checks[g].covered => checks[g].verdict = "rejected"
===============================================================================

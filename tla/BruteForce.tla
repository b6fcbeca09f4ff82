------------------------------ MODULE BruteForce ------------------------------
(***************************************************************************)
(* The gateway's BruteForceGuard (services/gateway/middleware/             *)
(* bruteforce.go): strikes and escalating bans per client address, kept in *)
(* memory under one mutex, with bans copied to Redis so that they outlive  *)
(* the process.                                                            *)
(*                                                                         *)
(* A request first passes BruteForceMiddleware (IsBanned) and only later,  *)
(* in the rate limiter or in the auth middleware, reports a failure or a   *)
(* success: requests admitted before a ban report after it.  Every method  *)
(* of the guard holds the mutex from start to end, its Redis call          *)
(* included, so each is one step.  A Redis call may fail; the guard only   *)
(* logs that.                                                              *)
(*                                                                         *)
(* An address that has no entry is represented by NoEntry, a missing Redis *)
(* key by NoKey.                                                           *)
(***************************************************************************)
EXTENDS Integers, Sequences

CONSTANTS
  IPs,           \* client addresses
  Threshold,     \* strikes that make a ban (5 in main.go)
  BaseBan,       \* length of the first ban, in ticks (5 minutes in main.go)
  Second,        \* ticks per second: the precision of what Redis stores
  RedisMayFail,  \* whether a Redis call can fail
  MaxInFlight,   \* bound: requests of one address between IsBanned and report
  MaxFails,      \* bound: failures of one address in a behaviour
  MaxTime        \* bound on the clock

ASSUME BruteForceAssumption ==
  /\ Threshold \in Nat \ {0}
  /\ Second \in Nat \ {0}
  /\ BaseBan \in Nat \ {0}
  /\ BaseBan % Second = 0
  /\ RedisMayFail \in BOOLEAN
  /\ MaxInFlight \in Nat
  /\ MaxFails \in Nat
  /\ MaxTime \in Nat

VARIABLES
  now,       \* time.Now()
  strikes,   \* BruteForceGuard.strikes: per address, its banEntry
  redis,     \* the keys safepaw:ban:<ip>
  inflight,  \* per address, requests past IsBanned that have not reported
  hist       \* history, for the properties: see NoHistory

vars == <<now, strikes, redis, inflight, hist>>

Never == -1   \* the zero time.Time

NoEntry == [strikes |-> 0, bannedAt |-> Never, duration |-> 0]

NoKey == [strikes |-> 0, bannedAt |-> Never, duration |-> 0, expires |-> 0]

(***************************************************************************)
(* What the guard was told about an address: failures ever and the time of *)
(* the latest; the times of its latest failures without a success between  *)
(* them, in this process and since a weakened entry was swept (see Swept); *)
(* when the ban decided last ends (0 when it was lifted); whether a        *)
(* success was counted against its strikes; whether a Redis call about it  *)
(* ever failed.                                                            *)
(***************************************************************************)
NoHistory ==
  [fails |-> 0, lastFail |-> Never, streak |-> <<>>, banEnd |-> 0,
   forgiven |-> FALSE, lost |-> FALSE]

Present(e) == e.strikes # 0

\* entry.duration - time.Since(entry.bannedAt) > 0, for an entry that was banned.
Active(e) == e.bannedAt # Never /\ now - e.bannedAt < e.duration

\* Whole seconds: time.Time.Unix and int(time.Duration.Seconds).
Truncate(t) == (t \div Second) * Second

\* Mutant of escalatedDuration: the tiers are tested from the wrong end.
escalatedBackwards(n) ==
  IF n < 2 * Threshold THEN BaseBan * 48
  ELSE IF n < 3 * Threshold THEN BaseBan * 12
  ELSE IF n < 4 * Threshold THEN BaseBan * 3
  ELSE BaseBan

\* strikes / threshold is at most k exactly when strikes < (k + 1) * threshold.
escalatedDuration(n) ==
  IF n < 2 * Threshold THEN BaseBan
  ELSE IF n < 3 * Threshold THEN BaseBan * 3
  ELSE IF n < 4 * Threshold THEN BaseBan * 12
  ELSE BaseBan * 48

Init ==
  /\ now = 0
  /\ strikes = [ip \in IPs |-> NoEntry]
  /\ redis = [ip \in IPs |-> NoKey]
  /\ inflight = [ip \in IPs |-> 0]
  /\ hist = [ip \in IPs |-> NoHistory]

-------------------------------------------------------------------------------
(***************************************************************************)
(* Redis                                                                   *)
(***************************************************************************)
\* Mutant of Loaded: the ban is restarted when it is read back.
LoadedAfresh(ip) ==
  IF now >= redis[ip].expires THEN NoEntry
  ELSE [strikes |-> redis[ip].strikes, bannedAt |-> now, duration |-> redis[ip].duration]

\* What loadBan makes of the key; an expired key is gone.
Loaded(ip) ==
  IF now >= redis[ip].expires THEN NoEntry
  ELSE [strikes |-> redis[ip].strikes, bannedAt |-> redis[ip].bannedAt,
        duration |-> redis[ip].duration]

\* Mutant of Persist: only the start of the ban is stored, with a default length.
PersistBase(e) ==
  [strikes |-> e.strikes, bannedAt |-> Truncate(e.bannedAt),
   duration |-> 0, expires |-> now + Truncate(e.duration)]

\* The value and the TTL persistBan writes for the entry e.
Persist(e) ==
  [strikes |-> e.strikes, bannedAt |-> Truncate(e.bannedAt),
   duration |-> Truncate(e.duration), expires |-> now + Truncate(e.duration)]

\* A write of key k: done, or failed and logged.
Write(ip, k, h) ==
  \/ /\ redis' = [redis EXCEPT ![ip] = k]
     /\ hist' = [hist EXCEPT ![ip] = h]
  \/ /\ RedisMayFail
     /\ hist' = [hist EXCEPT ![ip] = [h EXCEPT !.lost = TRUE]]
     /\ UNCHANGED redis

-------------------------------------------------------------------------------
(***************************************************************************)
(* Requests                                                                *)
(***************************************************************************)
\* IsBanned with the entry e in the map: a banned request goes no further.
Judge(ip, e) ==
  /\ strikes' = [strikes EXCEPT ![ip] = e]
  /\ IF Active(e) THEN UNCHANGED inflight
     ELSE inflight' = [inflight EXCEPT ![ip] = @ + 1]

\* BruteForceMiddleware for a path that is not exempt.
Request(ip) ==
  /\ inflight[ip] < MaxInFlight
  /\ \/ /\ Present(strikes[ip])
        /\ Judge(ip, strikes[ip])
        /\ UNCHANGED hist
     \/ /\ ~Present(strikes[ip])
        /\ Judge(ip, Loaded(ip))
        /\ UNCHANGED hist
     \/ /\ ~Present(strikes[ip])
        /\ RedisMayFail
        /\ Judge(ip, NoEntry)
        /\ hist' = [hist EXCEPT ![ip].lost = TRUE]
  /\ UNCHANGED <<now, redis>>

\* A request leaves without a word to the guard (per-endpoint limit, auth off).
Leave(ip) ==
  /\ inflight[ip] > 0
  /\ inflight' = [inflight EXCEPT ![ip] = @ - 1]
  /\ UNCHANGED <<now, strikes, redis, hist>>

\* The latest Threshold failures of an unbroken streak.
Latest(s) == IF Len(s) > Threshold THEN Tail(s) ELSE s

\* The entry RecordFailure leaves behind.
Struck(e) ==
  LET n == e.strikes + 1 IN
    IF n >= Threshold
    THEN [strikes |-> n, bannedAt |-> now, duration |-> escalatedDuration(n)]
    ELSE [e EXCEPT !.strikes = n]

RecordFailure(ip) ==
  LET e == strikes[ip]
      s == Struck(e)
      bans == s.strikes >= Threshold
      h == [hist[ip] EXCEPT
              !.fails = @ + 1,
              !.lastFail = now,
              !.streak = Latest(Append(@, now)),
              !.banEnd = IF bans THEN now + s.duration ELSE @]
  IN  /\ inflight[ip] > 0
      /\ hist[ip].fails < MaxFails
      /\ inflight' = [inflight EXCEPT ![ip] = @ - 1]
      /\ strikes' = [strikes EXCEPT ![ip] = s]
      /\ IF bans THEN Write(ip, Persist(s), h)
         ELSE hist' = [hist EXCEPT ![ip] = h] /\ UNCHANGED redis
      /\ UNCHANGED now

\* Mutant of Decrement: the last strike is taken back without removing the entry.
DecrementKeepsEntry(ip) ==
  /\ inflight[ip] > 0
  /\ Present(strikes[ip])
  /\ inflight' = [inflight EXCEPT ![ip] = @ - 1]
  /\ strikes' = [strikes EXCEPT ![ip].strikes = @ - 1]
  /\ UNCHANGED <<now, redis, hist>>

\* Successful authentication: one strike is taken back, and the ban with the last.
Decrement(ip) ==
  LET e == strikes[ip]
      h == [hist[ip] EXCEPT !.streak = <<>>]
  IN  /\ inflight[ip] > 0
      /\ inflight' = [inflight EXCEPT ![ip] = @ - 1]
      /\ \/ /\ ~Present(e)
            /\ hist' = [hist EXCEPT ![ip] = h]
            /\ UNCHANGED <<strikes, redis>>
         \/ /\ e.strikes > 1
            /\ strikes' = [strikes EXCEPT ![ip].strikes = @ - 1]
            /\ hist' = [hist EXCEPT ![ip] = [h EXCEPT !.forgiven = TRUE]]
            /\ UNCHANGED redis
         \/ /\ e.strikes = 1
            /\ strikes' = [strikes EXCEPT ![ip] = NoEntry]
            /\ Write(ip, NoKey, [h EXCEPT !.banEnd = 0, !.forgiven = FALSE])
      /\ UNCHANGED now

-------------------------------------------------------------------------------
(***************************************************************************)
(* The cleanup goroutine, the process, the clock                           *)
(***************************************************************************)
\* Mutant of Expired: strikes that have not yet made a ban are swept as well.
ExpiredOrUnbanned(e) == Present(e) /\ ~Active(e)

Expired(e) == e.bannedAt # Never /\ now - e.bannedAt > e.duration

\* Of an entry that a success had weakened, strikes later than its ban go as well.
Swept(h) ==
  [h EXCEPT !.forgiven = FALSE, !.streak = IF h.forgiven THEN <<>> ELSE @]

Cleanup ==
  /\ strikes' = [ip \in IPs |-> IF Expired(strikes[ip]) THEN NoEntry ELSE strikes[ip]]
  /\ hist' = [ip \in IPs |-> IF Expired(strikes[ip]) THEN Swept(hist[ip]) ELSE hist[ip]]
  /\ UNCHANGED <<now, redis, inflight>>

\* The gateway stops, or crashes, and starts again with an empty map.
Restart ==
  /\ strikes' = [ip \in IPs |-> NoEntry]
  /\ inflight' = [ip \in IPs |-> 0]
  /\ hist' = [ip \in IPs |-> [hist[ip] EXCEPT !.streak = <<>>, !.forgiven = FALSE]]
  /\ UNCHANGED <<now, redis>>

Tick ==
  /\ now < MaxTime
  /\ now' = now + 1
  /\ UNCHANGED <<strikes, redis, inflight, hist>>

Next ==
  \/ \E ip \in IPs : Request(ip) \/ Leave(ip) \/ RecordFailure(ip) \/ Decrement(ip)
  \/ Cleanup
  \/ Restart
  \/ Tick

Spec == Init /\ [][Next]_vars

-------------------------------------------------------------------------------
Durations == {0, BaseBan, BaseBan * 3, BaseBan * 12, BaseBan * 48}

Entries == [strikes : Nat, bannedAt : -1 .. MaxTime, duration : Durations]

Keys == [strikes : Nat, bannedAt : -1 .. MaxTime, duration : Durations, expires : Nat]

Histories ==
  [fails : 0 .. MaxFails, lastFail : -1 .. MaxTime, streak : Seq(0 .. MaxTime),
   banEnd : Nat, forgiven : BOOLEAN, lost : BOOLEAN]

(***************************************************************************)
(* Types of the guard's map, of the Redis keys and of the history; an      *)
(* address is absent from the map exactly when it has no strikes, which is *)
(* what Decrement's delete and IsBanned's lookup on a miss rely on.        *)
(***************************************************************************)
TypeOK ==
  /\ now \in 0 .. MaxTime
  /\ strikes \in [IPs -> Entries]
  /\ \A ip \in IPs : ~Present(strikes[ip]) => strikes[ip] = NoEntry
  /\ redis \in [IPs -> Keys]
  /\ inflight \in [IPs -> 0 .. MaxInFlight]
  /\ hist \in [IPs -> Histories]

\* The entry IsBanned decides by when Redis answers, and its decision.
Seen(ip) == IF Present(strikes[ip]) THEN strikes[ip] ELSE Loaded(ip)
Blocked(ip) == Active(Seen(ip))

End(e) == e.bannedAt + e.duration

(***************************************************************************)
(* Bans expire by themselves (header of bruteforce.go): an address is      *)
(* turned away only for as long after its latest failure as all its        *)
(* failures together warrant, whatever restarts, reloads from Redis, lost  *)
(* writes and late reports of other requests did to its entry.             *)
(***************************************************************************)
BansAutoExpire ==
  \A ip \in IPs : Blocked(ip) =>
    /\ hist[ip].fails >= Threshold
    /\ now - hist[ip].lastFail < escalatedDuration(hist[ip].fails)

(***************************************************************************)
(* An address that failed Threshold times within one base ban, with no     *)
(* success among them and no restart since the first, is being turned      *)
(* away: neither the cleanup nor an expired earlier ban lets strikes slip. *)
(* The one exception is an entry that was banned and then weakened by a    *)
(* success: once its ban is over the cleanup sweeps it with whatever       *)
(* strikes were added since, so counting starts again there.               *)
(***************************************************************************)
PersistentAbuserIsBanned ==
  \A ip \in IPs :
    LET s == hist[ip].streak IN
      Len(s) = Threshold /\ now - s[1] < BaseBan => Blocked(ip)

(***************************************************************************)
(* "Bans persist across restarts": as long as no Redis call about an       *)
(* address fails, it is turned away until the end RecordFailure set, less  *)
(* the second that the stored timestamp is truncated by, never longer, and *)
(* not at all once its strikes are taken back.                             *)
(***************************************************************************)
BanAsDecided ==
  \A ip \in IPs : ~hist[ip].lost =>
    /\ now + Second <= hist[ip].banEnd => Blocked(ip)
    /\ Blocked(ip) => now < hist[ip].banEnd

(***************************************************************************)
(* A further failure of a banned address, reported by a request that was   *)
(* admitted before the ban, may prolong the ban and never shortens it, as  *)
(* long as no success has been set against its strikes.                    *)
(***************************************************************************)
FailureNeverShortensBan ==
  [][\A ip \in IPs :
       /\ Active(strikes[ip])
       /\ strikes'[ip].strikes > strikes[ip].strikes
       /\ ~hist[ip].forgiven
       => End(strikes'[ip]) >= End(strikes[ip])]_vars
===============================================================================

---------------------------- MODULE BruteForceProofs ----------------------------
(***************************************************************************)
(* Proofs about BruteForce for every set of addresses, threshold, ban      *)
(* length, precision of Redis and failure of its calls: the type           *)
(* invariant; that bans expire by themselves (IInv); and that bans which   *)
(* are due hold (HInv, in the second half).                                *)
(*                                                                         *)
(* A ban may come from the map or be read back from Redis, so both must be *)
(* deserved: no younger than the latest failure, and no longer than all    *)
(* failures together warrant.  Sound says so of an address; it also keeps  *)
(* the strikes from outnumbering the failures, without which the next ban  *)
(* could be longer than deserved.                                          *)
(***************************************************************************)
EXTENDS BruteForce, SequenceTheorems, TLAPS

\* A ban from time "at" for a while "d" is warranted by the failures in h.
Deserved(at, d, h) ==
  at # Never =>
    /\ h.fails >= Threshold
    /\ at <= h.lastFail
    /\ d <= escalatedDuration(h.fails)

\* Entry e, key k and history h of an address agree at time t.
Sound(e, k, h, t) ==
  /\ h.lastFail <= t
  /\ e.strikes <= h.fails
  /\ k.strikes <= h.fails
  /\ k = NoKey \/ k.strikes >= Threshold
  /\ Deserved(e.bannedAt, e.duration, h)
  /\ Deserved(k.bannedAt, k.duration, h)

IInv == TypeOK /\ \A ip \in IPs : Sound(strikes[ip], redis[ip], hist[ip], now)

-------------------------------------------------------------------------------
(***************************************************************************)
(* Arithmetic of durations                                                 *)
(***************************************************************************)
LEMMA TruncateBelow ==
  ASSUME NEW t \in Nat
  PROVE  Truncate(t) \in Nat /\ Truncate(t) <= t
<1>1. (t \div Second) * Second \in Nat /\ (t \div Second) * Second <= t
  BY BruteForceAssumption
<1>2. QED
  BY <1>1 DEF Truncate

\* Whole multiples of a second survive truncation.
LEMMA TruncateExact ==
  ASSUME NEW k \in Nat
  PROVE  Truncate(k * Second) = k * Second
<1> DEFINE q == (k * Second) \div Second
<1>1. k * Second \in Nat /\ q \in Int /\ Second \in Nat /\ Second > 0
  BY BruteForceAssumption
<1>2. q * Second <= k * Second /\ k * Second < q * Second + Second
  BY <1>1
<1>3. q = k
  BY <1>1, <1>2
<1>4. QED
  BY <1>3 DEF Truncate

LEMMA DurationsNat == \A d \in Durations : d \in Nat
BY BruteForceAssumption DEF Durations

\* Every length of a ban is a whole number of seconds.
LEMMA DurationsExact ==
  ASSUME NEW d \in Durations
  PROVE  Truncate(d) = d
<1> DEFINE k == BaseBan \div Second
<1>1. k \in Nat /\ BaseBan = k * Second /\ Second \in Nat
  BY BruteForceAssumption
<1> HIDE DEF k
<1>2. /\ BaseBan * 3 = (k * 3) * Second
      /\ BaseBan * 12 = (k * 12) * Second
      /\ BaseBan * 48 = (k * 48) * Second
      /\ 0 = 0 * Second
  BY <1>1
<1>3. 0 \in Nat /\ k * 3 \in Nat /\ k * 12 \in Nat /\ k * 48 \in Nat
  BY <1>1
<1>4. \A m \in {0, k, k * 3, k * 12, k * 48} : Truncate(m * Second) = m * Second
  BY <1>1, <1>3, TruncateExact
<1>5. d \in {m * Second : m \in {0, k, k * 3, k * 12, k * 48}}
  BY <1>1, <1>2 DEF Durations
<1>6. QED
  BY <1>4, <1>5

LEMMA EscalationGrows ==
  ASSUME NEW m \in Nat, NEW n \in Nat, m <= n
  PROVE  /\ escalatedDuration(m) \in Durations
         /\ escalatedDuration(m) \in Nat
         /\ escalatedDuration(m) <= escalatedDuration(n)
BY BruteForceAssumption DEF escalatedDuration, Durations

\* More and later failures warrant whatever fewer did.
LEMMA DeservedLater ==
  ASSUME NEW at \in Int, NEW d \in Nat, NEW h \in Histories, NEW g \in Histories,
         Deserved(at, d, h), h.fails <= g.fails, h.lastFail <= g.lastFail
  PROVE  Deserved(at, d, g)
<1>1. /\ h.fails \in Nat /\ g.fails \in Nat /\ h.lastFail \in Int /\ g.lastFail \in Int
      /\ Threshold \in Nat
  BY BruteForceAssumption DEF Histories
<1>2. /\ escalatedDuration(h.fails) <= escalatedDuration(g.fails)
      /\ escalatedDuration(h.fails) \in Nat /\ escalatedDuration(g.fails) \in Nat
  BY <1>1, EscalationGrows
<1>3. QED
  BY <1>1, <1>2 DEF Deserved

-------------------------------------------------------------------------------
(***************************************************************************)
(* What the operators return                                               *)
(***************************************************************************)
LEMMA NoEntryType == NoEntry \in Entries /\ NoKey \in Keys /\ NoHistory \in Histories
BY BruteForceAssumption DEF NoEntry, NoKey, NoHistory, Entries, Keys, Histories,
                            Durations, Never

\* What is read back from Redis is an entry, and as deserved as the key.
LEMMA LoadedSound ==
  ASSUME IInv, NEW ip \in IPs
  PROVE  /\ Loaded(ip) \in Entries
         /\ ~Present(Loaded(ip)) => Loaded(ip) = NoEntry
         /\ Sound(Loaded(ip), redis[ip], hist[ip], now)
<1> USE DEF IInv, TypeOK
<1>1. CASE now >= redis[ip].expires
  <2>1. Loaded(ip) = NoEntry
    BY <1>1 DEF Loaded
  <2>2. hist[ip].fails >= 0
    BY DEF Histories
  <2>3. QED
    BY <2>1, <2>2, NoEntryType DEF Sound, Deserved, NoEntry, Never
<1>2. CASE ~(now >= redis[ip].expires)
  <2>1. Loaded(ip) = [strikes |-> redis[ip].strikes, bannedAt |-> redis[ip].bannedAt,
                      duration |-> redis[ip].duration]
    BY <1>2 DEF Loaded
  <2>2. redis[ip] # NoKey
    BY <1>2 DEF NoKey
  <2>3. redis[ip] \in Keys /\ Sound(strikes[ip], redis[ip], hist[ip], now)
    OBVIOUS
  <2>4. redis[ip].strikes >= Threshold
    BY <2>2, <2>3 DEF Sound
  <2>5. Loaded(ip) \in Entries /\ Present(Loaded(ip))
    BY <2>1, <2>3, <2>4, BruteForceAssumption DEF Keys, Entries, Present
  <2>6. QED
    BY <2>1, <2>3, <2>5 DEF Sound
<1>3. QED
  BY <1>1, <1>2

\* What RecordFailure makes of an entry.
LEMMA StruckType ==
  ASSUME NEW e \in Entries, now \in 0 .. MaxTime
  PROVE  /\ Struck(e) \in Entries
         /\ Struck(e).strikes = e.strikes + 1
         /\ ~(Struck(e).strikes >= Threshold) =>
              Struck(e).bannedAt = e.bannedAt /\ Struck(e).duration = e.duration
         /\ Struck(e).strikes >= Threshold =>
              Struck(e).bannedAt = now
                /\ Struck(e).duration = escalatedDuration(e.strikes + 1)
<1>1. e.strikes + 1 \in Nat /\ escalatedDuration(e.strikes + 1) \in Durations
  BY EscalationGrows DEF Entries
<1>2. QED
  BY <1>1, BruteForceAssumption DEF Struck, Entries

\* The key written for a ban says of it what the entry does, or a little earlier.
LEMMA PersistType ==
  ASSUME NEW e \in Entries, now \in 0 .. MaxTime, e.bannedAt # Never
  PROVE  /\ Persist(e) \in Keys
         /\ Persist(e).strikes = e.strikes
         /\ Persist(e).bannedAt <= e.bannedAt
         /\ Persist(e).duration = e.duration
<1>1. e.bannedAt \in 0 .. MaxTime
  BY BruteForceAssumption DEF Entries, Never
<1>2. Truncate(e.bannedAt) \in 0 .. MaxTime /\ Truncate(e.bannedAt) <= e.bannedAt
  BY <1>1, TruncateBelow, BruteForceAssumption
<1>3. e.duration \in Durations /\ e.duration \in Nat
  BY DurationsNat DEF Entries
<1>4. Truncate(e.duration) = e.duration
  BY <1>3, DurationsExact
<1>5. now + e.duration \in Nat
  BY <1>3, BruteForceAssumption
<1>6. QED
  BY <1>1, <1>2, <1>3, <1>4, <1>5, BruteForceAssumption DEF Persist, Entries, Keys

\* The streak kept of an address's failures is a sequence of times.
LEMMA LatestType ==
  ASSUME NEW s \in Seq(0 .. MaxTime), NEW t \in 0 .. MaxTime
  PROVE  Latest(Append(s, t)) \in Seq(0 .. MaxTime)
<1>1. Append(s, t) \in Seq(0 .. MaxTime) /\ Append(s, t) # <<>>
  BY AppendProperties
<1>2. Tail(Append(s, t)) \in Seq(0 .. MaxTime)
  BY <1>1, HeadTailProperties
<1>3. QED
  BY <1>1, <1>2 DEF Latest

-------------------------------------------------------------------------------
(***************************************************************************)
(* The invariant holds initially and every action preserves it             *)
(***************************************************************************)
LEMMA InitIInv == Init => IInv
<1> SUFFICES ASSUME Init PROVE IInv
  OBVIOUS
<1>1. TypeOK
  BY NoEntryType, BruteForceAssumption DEF Init, TypeOK, Present, NoEntry
<1>2. Sound(NoEntry, NoKey, NoHistory, 0)
  BY DEF Sound, Deserved, NoEntry, NoKey, NoHistory, Never
<1>3. \A ip \in IPs : Sound(strikes[ip], redis[ip], hist[ip], now)
  BY <1>2 DEF Init
<1>4. QED
  BY <1>1, <1>3 DEF IInv

\* A step that touches one address: the others keep what they had.
LEMMA OneAddress ==
  ASSUME IInv, NEW ip \in IPs, now' = now,
         NEW e \in Entries, strikes' = [strikes EXCEPT ![ip] = e],
         NEW k \in Keys, redis' = [redis EXCEPT ![ip] = k],
         NEW h \in Histories, hist' = [hist EXCEPT ![ip] = h],
         NEW n \in 0 .. MaxInFlight, inflight' = [inflight EXCEPT ![ip] = n],
         ~Present(e) => e = NoEntry,
         Sound(e, k, h, now)
  PROVE  IInv'
<1>1. TypeOK'
  BY DEF IInv, TypeOK, Present
<1>2. \A i \in IPs : Sound(strikes'[i], redis'[i], hist'[i], now')
  BY DEF IInv, TypeOK
<1>3. QED
  BY <1>1, <1>2 DEF IInv

LEMMA RequestIInv ==
  ASSUME IInv, NEW ip \in IPs, Request(ip)
  PROVE  IInv'
<1> DEFINE h == [hist[ip] EXCEPT !.lost = TRUE]
<1>1. /\ strikes[ip] \in Entries /\ redis[ip] \in Keys /\ hist[ip] \in Histories
      /\ redis' = [redis EXCEPT ![ip] = redis[ip]] /\ now' = now
      /\ hist = [hist EXCEPT ![ip] = hist[ip]]
      /\ Sound(strikes[ip], redis[ip], hist[ip], now)
      /\ ~Present(strikes[ip]) => strikes[ip] = NoEntry
  BY DEF IInv, TypeOK, Request
<1>2. ASSUME NEW e \in Entries, Judge(ip, e)
      PROVE  \E n \in 0 .. MaxInFlight : inflight' = [inflight EXCEPT ![ip] = n]
  <2>1. inflight[ip] \in 0 .. MaxInFlight /\ inflight[ip] < MaxInFlight
    BY DEF IInv, TypeOK, Request
  <2>2. inflight[ip] + 1 \in 0 .. MaxInFlight
    BY <2>1, BruteForceAssumption
  <2>3. inflight = [inflight EXCEPT ![ip] = inflight[ip]]
    BY DEF IInv, TypeOK
  <2>4. QED
    BY <1>2, <2>1, <2>2, <2>3 DEF Judge
<1>3. CASE Present(strikes[ip]) /\ Judge(ip, strikes[ip]) /\ UNCHANGED hist
  BY <1>1, <1>2, <1>3, OneAddress DEF Judge
<1>4. CASE ~Present(strikes[ip]) /\ Judge(ip, Loaded(ip)) /\ UNCHANGED hist
  BY <1>1, <1>2, <1>4, LoadedSound, OneAddress DEF Judge
<1>5. CASE /\ ~Present(strikes[ip])
           /\ Judge(ip, NoEntry)
           /\ hist' = [hist EXCEPT ![ip].lost = TRUE]
  <2>1. h \in Histories /\ h.fails = hist[ip].fails /\ h.lastFail = hist[ip].lastFail
    BY <1>1 DEF Histories
  <2>2. Sound(NoEntry, redis[ip], h, now)
    BY <1>1, <1>5, <2>1 DEF Sound, Deserved
  <2>3. hist' = [hist EXCEPT ![ip] = h]
    BY <1>5
  <2>4. QED
    BY <1>1, <1>2, <1>5, <2>1, <2>2, <2>3, NoEntryType, OneAddress DEF Judge
<1>6. QED
  BY <1>3, <1>4, <1>5 DEF Request

LEMMA LeaveIInv ==
  ASSUME IInv, NEW ip \in IPs, Leave(ip)
  PROVE  IInv'
<1>1. inflight[ip] - 1 \in 0 .. MaxInFlight
  BY BruteForceAssumption DEF IInv, TypeOK, Leave
<1>2. TypeOK'
  BY <1>1 DEF IInv, TypeOK, Leave, Present
<1>3. QED
  BY <1>2 DEF IInv, Leave

(***************************************************************************)
(* A call of Redis, done or failed, leaves the address with the key it     *)
(* had or the key k, and with the history h up to the note of a failure.   *)
(***************************************************************************)
LEMMA WriteOutcome ==
  ASSUME IInv, NEW ip \in IPs, NEW k \in Keys, NEW h \in Histories, Write(ip, k, h)
  PROVE  \E j \in {k, redis[ip]}, g \in Histories :
            /\ redis' = [redis EXCEPT ![ip] = j]
            /\ hist' = [hist EXCEPT ![ip] = g]
            /\ g.fails = h.fails /\ g.lastFail = h.lastFail
<1>1. CASE redis' = [redis EXCEPT ![ip] = k] /\ hist' = [hist EXCEPT ![ip] = h]
  BY <1>1
<1>2. CASE hist' = [hist EXCEPT ![ip] = [h EXCEPT !.lost = TRUE]] /\ UNCHANGED redis
  <2> DEFINE g == [h EXCEPT !.lost = TRUE]
  <2>1. g \in Histories /\ g.fails = h.fails /\ g.lastFail = h.lastFail
    BY DEF Histories
  <2>2. redis' = [redis EXCEPT ![ip] = redis[ip]] /\ hist' = [hist EXCEPT ![ip] = g]
    BY <1>2 DEF IInv, TypeOK
  <2>3. QED
    BY <2>1, <2>2
<1>3. QED
  BY <1>1, <1>2 DEF Write

LEMMA RecordFailureIInv ==
  ASSUME IInv, NEW ip \in IPs, RecordFailure(ip)
  PROVE  IInv'
<1> DEFINE e == strikes[ip]
           s == Struck(e)
           bans == s.strikes >= Threshold
           h == [hist[ip] EXCEPT
                   !.fails = @ + 1,
                   !.lastFail = now,
                   !.streak = Latest(Append(@, now)),
                   !.banEnd = IF bans THEN now + s.duration ELSE @]
<1>0. /\ redis = [redis EXCEPT ![ip] = redis[ip]]
      /\ inflight' = [inflight EXCEPT ![ip] = @ - 1]
      /\ inflight[ip] > 0 /\ inflight[ip] \in 0 .. MaxInFlight
      /\ now' = now
  BY DEF IInv, TypeOK, RecordFailure
<1>1. /\ e \in Entries /\ redis[ip] \in Keys /\ hist[ip] \in Histories
      /\ Sound(e, redis[ip], hist[ip], now)
      /\ now \in 0 .. MaxTime
      /\ hist[ip].fails < MaxFails
  BY DEF IInv, TypeOK, RecordFailure
<1>2. /\ s \in Entries /\ s.strikes = e.strikes + 1
      /\ ~bans => s.bannedAt = e.bannedAt /\ s.duration = e.duration
      /\ bans => s.bannedAt = now /\ s.duration = escalatedDuration(e.strikes + 1)
  <2> HIDE DEF e, h
  <2>1. QED
    BY <1>1, StruckType
<1>3. s.strikes \in Nat /\ s.strikes >= 1 /\ s.duration \in Nat /\ s.bannedAt \in Int
      /\ e.strikes \in Nat /\ e.duration \in Nat /\ e.bannedAt \in Int
  <2> HIDE DEF e, h, s, bans
  <2>1. s.duration \in Durations /\ e.duration \in Durations
    BY <1>1, <1>2 DEF Entries
  <2>2. s.strikes \in Nat /\ e.strikes \in Nat /\ s.bannedAt \in Int /\ e.bannedAt \in Int
    BY <1>1, <1>2 DEF Entries
  <2>3. s.strikes >= 1
    BY <1>2, <2>2
  <2>4. QED
    BY <2>1, <2>2, <2>3, DurationsNat
<1>4. h \in Histories /\ h.fails = hist[ip].fails + 1 /\ h.lastFail = now
  <2>0. /\ hist[ip].fails \in 0 .. MaxFails /\ hist[ip].streak \in Seq(0 .. MaxTime)
        /\ hist[ip].banEnd \in Nat /\ now \in Nat
    BY <1>1, BruteForceAssumption DEF Histories
  <2>1. Latest(Append(hist[ip].streak, now)) \in Seq(0 .. MaxTime)
    BY <1>1, <2>0, LatestType
  <2>2. hist[ip].fails + 1 \in 0 .. MaxFails
    BY <1>1, <2>0, BruteForceAssumption
  <2>3. (IF bans THEN now + s.duration ELSE hist[ip].banEnd) \in Nat
    <3> HIDE DEF s, bans
    <3>1. QED
      BY <1>3, <2>0
  <2>4. now \in -1 .. MaxTime
    BY <1>1, BruteForceAssumption
  <2> HIDE DEF bans, s, e
  <2>5. QED
    BY <1>1, <2>1, <2>2, <2>3, <2>4 DEF Histories
<1> HIDE DEF h, s
<1>5. ASSUME NEW g \in Histories, g.fails = h.fails, g.lastFail = h.lastFail
      PROVE  /\ Sound(s, redis[ip], g, now)
             /\ bans => Persist(s) \in Keys /\ Sound(s, Persist(s), g, now)
  <2>1. /\ hist[ip].fails \in Nat /\ hist[ip].lastFail \in Int /\ now \in Nat
        /\ g.fails = hist[ip].fails + 1 /\ g.lastFail = now
        /\ redis[ip].strikes \in Nat /\ redis[ip].duration \in Nat
        /\ redis[ip].bannedAt \in Int
    <3>1. hist[ip].fails \in Nat /\ hist[ip].lastFail \in Int /\ now \in Nat
      BY <1>1, BruteForceAssumption DEF Histories
    <3>2. redis[ip].strikes \in Nat /\ redis[ip].bannedAt \in Int
      BY <1>1 DEF Keys
    <3>3. redis[ip].duration \in Nat
      BY <1>1, DurationsNat DEF Keys
    <3>4. QED
      BY <1>4, <1>5, <3>1, <3>2, <3>3
  <2>2. /\ Deserved(e.bannedAt, e.duration, g)
        /\ Deserved(redis[ip].bannedAt, redis[ip].duration, g)
    BY <1>1, <1>3, <1>5, <2>1, DeservedLater DEF Sound
  <2>3. e.strikes + 1 <= g.fails /\ g.fails \in Nat
    BY <1>1, <1>3, <2>1 DEF Sound
  <2>4. bans => g.fails >= Threshold /\ s.duration <= escalatedDuration(g.fails)
    BY <1>2, <1>3, <2>3, EscalationGrows, BruteForceAssumption
  <2>5. Deserved(s.bannedAt, s.duration, g)
    BY <1>2, <1>3, <2>1, <2>2, <2>4 DEF Deserved
  <2>6. Sound(s, redis[ip], g, now)
    BY <1>1, <1>2, <1>3, <2>1, <2>2, <2>3, <2>5 DEF Sound
  <2>7. ASSUME bans
        PROVE  Persist(s) \in Keys /\ Sound(s, Persist(s), g, now)
    <3>1. s.bannedAt # Never /\ s.bannedAt = now
      BY <1>2, <2>1, <2>7 DEF Never
    <3>2. /\ Persist(s) \in Keys /\ Persist(s).strikes = s.strikes
          /\ Persist(s).bannedAt <= s.bannedAt /\ Persist(s).duration = s.duration
      BY <1>1, <1>2, <3>1, PersistType
    <3>3. Persist(s).bannedAt \in Int
      BY <3>2 DEF Keys
    <3>4. Deserved(Persist(s).bannedAt, Persist(s).duration, g)
      BY <2>1, <2>4, <2>7, <3>1, <3>2, <3>3 DEF Deserved
    <3>5. QED
      BY <1>2, <1>3, <2>1, <2>3, <2>5, <2>6, <2>7, <3>2, <3>4 DEF Sound
  <2>8. QED
    BY <2>6, <2>7
<1>6. inflight[ip] - 1 \in 0 .. MaxInFlight /\ inflight' = [inflight EXCEPT ![ip] = inflight[ip] - 1]
      /\ strikes' = [strikes EXCEPT ![ip] = s] /\ Present(s)
  BY <1>0, <1>2, <1>3, BruteForceAssumption DEF RecordFailure, Present, s
<1>7. CASE bans /\ Write(ip, Persist(s), h)
  <2>1. Persist(s) \in Keys
    BY <1>4, <1>5, <1>7
  <2>2. PICK j \in {Persist(s), redis[ip]}, g \in Histories :
            /\ redis' = [redis EXCEPT ![ip] = j]
            /\ hist' = [hist EXCEPT ![ip] = g]
            /\ g.fails = h.fails /\ g.lastFail = h.lastFail
    BY <1>4, <1>7, <2>1, WriteOutcome
  <2>3. j \in Keys /\ Sound(s, j, g, now)
    BY <1>1, <1>5, <1>7, <2>1, <2>2
  <2>4. QED
    BY <1>0, <1>2, <1>6, <2>2, <2>3, OneAddress
<1>8. CASE ~bans /\ hist' = [hist EXCEPT ![ip] = h] /\ UNCHANGED redis
  <2>1. redis' = [redis EXCEPT ![ip] = redis[ip]]
    BY <1>0, <1>8
  <2>2. Sound(s, redis[ip], h, now)
    BY <1>4, <1>5
  <2>3. QED
    BY <1>0, <1>1, <1>2, <1>4, <1>6, <1>8, <2>1, <2>2, OneAddress
<1>9. QED
  BY <1>7, <1>8 DEF RecordFailure, h, s

LEMMA DecrementIInv ==
  ASSUME IInv, NEW ip \in IPs, Decrement(ip)
  PROVE  IInv'
<1> DEFINE e == strikes[ip]
           n == inflight[ip] - 1
           h == [hist[ip] EXCEPT !.streak = <<>>]
           forgiven == [h EXCEPT !.forgiven = TRUE]
           lifted == [h EXCEPT !.banEnd = 0, !.forgiven = FALSE]
           weaker == [e EXCEPT !.strikes = @ - 1]
<1>1. /\ e \in Entries /\ redis[ip] \in Keys /\ hist[ip] \in Histories
      /\ Sound(e, redis[ip], hist[ip], now)
      /\ ~Present(e) => e = NoEntry
  BY DEF IInv, TypeOK
<1>2. /\ strikes = [strikes EXCEPT ![ip] = e]
      /\ redis = [redis EXCEPT ![ip] = redis[ip]]
      /\ now' = now
  BY DEF IInv, TypeOK, Decrement
<1>3. n \in 0 .. MaxInFlight /\ inflight' = [inflight EXCEPT ![ip] = n]
  BY BruteForceAssumption DEF IInv, TypeOK, Decrement
<1>4. \A g \in {h, forgiven, lifted} :
        g \in Histories /\ g.fails = hist[ip].fails /\ g.lastFail = hist[ip].lastFail
  <2>1. <<>> \in Seq(0 .. MaxTime)
    BY EmptySeq
  <2>2. h \in Histories /\ h.fails = hist[ip].fails /\ h.lastFail = hist[ip].lastFail
    BY <1>1, <2>1 DEF Histories
  <2> HIDE DEF h
  <2>3. /\ forgiven \in Histories
        /\ forgiven.fails = h.fails /\ forgiven.lastFail = h.lastFail
    BY <2>2 DEF Histories
  <2>4. /\ lifted \in Histories
        /\ lifted.fails = h.fails /\ lifted.lastFail = h.lastFail
    <3>1. 0 \in Nat /\ FALSE \in BOOLEAN
      OBVIOUS
    <3>2. QED
      BY <2>2, <3>1 DEF Histories
  <2> HIDE DEF forgiven, lifted
  <2>5. QED
    BY <2>2, <2>3, <2>4
<1>5. \A g \in {h, forgiven, lifted} : Sound(e, redis[ip], g, now)
  BY <1>1, <1>4 DEF Sound, Deserved
<1> HIDE DEF h, forgiven, lifted, n
<1>6. CASE /\ ~Present(e)
           /\ hist' = [hist EXCEPT ![ip] = h]
           /\ UNCHANGED <<strikes, redis>>
  <2>1. strikes' = [strikes EXCEPT ![ip] = e] /\ redis' = [redis EXCEPT ![ip] = redis[ip]]
    BY <1>2, <1>6
  <2>2. QED
    BY <1>1, <1>2, <1>3, <1>4, <1>5, <1>6, <2>1, OneAddress
<1>7. CASE /\ e.strikes > 1
           /\ strikes' = [strikes EXCEPT ![ip].strikes = @ - 1]
           /\ hist' = [hist EXCEPT ![ip] = forgiven]
           /\ UNCHANGED redis
  <2>1. /\ weaker \in Entries /\ weaker.strikes = e.strikes - 1 /\ Present(weaker)
        /\ weaker.bannedAt = e.bannedAt /\ weaker.duration = e.duration
    BY <1>1, <1>7 DEF Entries, Present
  <2>2. strikes' = [strikes EXCEPT ![ip] = weaker]
    BY <1>7
  <2>3. redis' = [redis EXCEPT ![ip] = redis[ip]]
    BY <1>2, <1>7
  <2>4. forgiven.fails \in Nat /\ e.strikes \in Nat
    BY <1>1, <1>4 DEF Histories, Entries
  <2>5. Sound(weaker, redis[ip], forgiven, now)
    BY <1>5, <2>1, <2>4 DEF Sound
  <2>6. QED
    BY <1>1, <1>2, <1>3, <1>4, <1>7, <2>1, <2>2, <2>3, <2>5, OneAddress
<1>8. CASE /\ e.strikes = 1
           /\ strikes' = [strikes EXCEPT ![ip] = NoEntry]
           /\ Write(ip, NoKey, lifted)
  <2>1. PICK j \in {NoKey, redis[ip]}, g \in Histories :
            /\ redis' = [redis EXCEPT ![ip] = j]
            /\ hist' = [hist EXCEPT ![ip] = g]
            /\ g.fails = lifted.fails /\ g.lastFail = lifted.lastFail
    BY <1>4, <1>8, NoEntryType, WriteOutcome
  <2>2. j \in Keys
    BY <1>1, <2>1, NoEntryType
  <2>3. Sound(e, redis[ip], g, now) /\ g.fails \in Nat
    BY <1>5, <2>1 DEF Sound, Deserved, Histories
  <2>4. Sound(NoEntry, j, g, now)
    BY <2>1, <2>3 DEF Sound, Deserved, NoEntry, NoKey, Never
  <2>5. QED
    BY <1>2, <1>3, <1>8, <2>1, <2>2, <2>4, NoEntryType, OneAddress
<1>9. QED
  BY <1>6, <1>7, <1>8 DEF Decrement, h, forgiven, lifted

\* Sweeping an entry forgets the streak of a weakened one, and nothing else.
LEMMA SweptType ==
  ASSUME NEW h \in Histories
  PROVE  /\ Swept(h) \in Histories
         /\ Swept(h).fails = h.fails /\ Swept(h).lastFail = h.lastFail
         /\ Swept(h).banEnd = h.banEnd /\ Swept(h).lost = h.lost /\ ~Swept(h).forgiven
         /\ Swept(h).streak = IF h.forgiven THEN <<>> ELSE h.streak
<1>1. <<>> \in Seq(0 .. MaxTime) /\ h.streak \in Seq(0 .. MaxTime)
  BY EmptySeq DEF Histories
<1>2. (IF h.forgiven THEN <<>> ELSE h.streak) \in Seq(0 .. MaxTime) /\ FALSE \in BOOLEAN
  BY <1>1
<1>3. QED
  BY <1>2 DEF Swept, Histories

LEMMA CleanupIInv ==
  ASSUME IInv, Cleanup
  PROVE  IInv'
<1>1. ASSUME NEW ip \in IPs
      PROVE  /\ strikes'[ip] \in {strikes[ip], NoEntry}
             /\ hist'[ip] \in Histories
             /\ hist'[ip].fails = hist[ip].fails
             /\ hist'[ip].lastFail = hist[ip].lastFail
  <2>1. hist[ip] \in Histories
    BY DEF IInv, TypeOK
  <2>2. /\ Swept(hist[ip]) \in Histories
        /\ Swept(hist[ip]).fails = hist[ip].fails
        /\ Swept(hist[ip]).lastFail = hist[ip].lastFail
    BY <2>1, SweptType
  <2>3. QED
    BY <2>1, <2>2 DEF Cleanup
<1>2. TypeOK'
  <2>1. strikes' \in [IPs -> Entries] /\ hist' \in [IPs -> Histories]
    BY <1>1, NoEntryType DEF IInv, TypeOK, Cleanup
  <2>2. QED
    BY <1>1, <2>1 DEF IInv, TypeOK, Cleanup, Present
<1>3. ASSUME NEW ip \in IPs
      PROVE  Sound(strikes'[ip], redis'[ip], hist'[ip], now')
  <2>1. Sound(strikes[ip], redis[ip], hist[ip], now) /\ hist[ip].fails \in Nat
    BY DEF IInv, TypeOK, Histories
  <2>2. redis' = redis /\ now' = now
    BY DEF Cleanup
  <2>3. QED
    BY <1>1, <2>1, <2>2 DEF Sound, Deserved, NoEntry, Never
<1>4. QED
  BY <1>2, <1>3 DEF IInv

LEMMA RestartIInv ==
  ASSUME IInv, Restart
  PROVE  IInv'
<1>1. ASSUME NEW ip \in IPs
      PROVE  /\ hist'[ip] \in Histories
             /\ hist'[ip].fails = hist[ip].fails
             /\ hist'[ip].lastFail = hist[ip].lastFail
  <2>1. hist[ip] \in Histories /\ <<>> \in Seq(0 .. MaxTime)
    BY EmptySeq DEF IInv, TypeOK
  <2>2. hist'[ip] = [hist[ip] EXCEPT !.streak = <<>>, !.forgiven = FALSE]
    BY DEF Restart
  <2>3. QED
    BY <2>1, <2>2 DEF Histories
<1>2. TypeOK'
  <2>1. strikes' \in [IPs -> Entries] /\ hist' \in [IPs -> Histories]
    BY <1>1, NoEntryType DEF IInv, TypeOK, Restart
  <2>2. inflight' \in [IPs -> 0 .. MaxInFlight]
    <3>1. 0 \in 0 .. MaxInFlight
      BY BruteForceAssumption
    <3>2. QED
      BY <3>1 DEF Restart
  <2>3. QED
    BY <2>1, <2>2 DEF IInv, TypeOK, Restart
<1>3. ASSUME NEW ip \in IPs
      PROVE  Sound(strikes'[ip], redis'[ip], hist'[ip], now')
  <2>1. Sound(strikes[ip], redis[ip], hist[ip], now) /\ hist[ip].fails \in Nat
    BY DEF IInv, TypeOK, Histories
  <2>2. redis' = redis /\ now' = now /\ strikes'[ip] = NoEntry
    BY DEF Restart
  <2>3. QED
    BY <1>1, <2>1, <2>2 DEF Sound, Deserved, NoEntry, Never
<1>4. QED
  BY <1>2, <1>3 DEF IInv

LEMMA TickIInv ==
  ASSUME IInv, Tick
  PROVE  IInv'
<1>1. TypeOK'
  BY BruteForceAssumption DEF IInv, TypeOK, Tick, Present
<1>2. ASSUME NEW ip \in IPs
      PROVE  Sound(strikes'[ip], redis'[ip], hist'[ip], now')
  <2>1. /\ Sound(strikes[ip], redis[ip], hist[ip], now)
        /\ hist[ip].lastFail \in Int /\ now \in Int /\ now' = now + 1
        /\ strikes'[ip] = strikes[ip] /\ redis'[ip] = redis[ip] /\ hist'[ip] = hist[ip]
    BY DEF IInv, TypeOK, Histories, Tick
  <2>2. QED
    BY <2>1 DEF Sound
<1>3. QED
  BY <1>1, <1>2 DEF IInv

LEMMA NextIInv == IInv /\ [Next]_vars => IInv'
<1> SUFFICES ASSUME IInv, [Next]_vars PROVE IInv'
  OBVIOUS
<1>1. ASSUME NEW ip \in IPs, Request(ip) PROVE IInv'
  BY <1>1, RequestIInv
<1>2. ASSUME NEW ip \in IPs, Leave(ip) PROVE IInv'
  BY <1>2, LeaveIInv
<1>3. ASSUME NEW ip \in IPs, RecordFailure(ip) PROVE IInv'
  BY <1>3, RecordFailureIInv
<1>4. ASSUME NEW ip \in IPs, Decrement(ip) PROVE IInv'
  BY <1>4, DecrementIInv
<1>5. CASE Cleanup
  BY <1>5, CleanupIInv
<1>6. CASE Restart
  BY <1>6, RestartIInv
<1>7. CASE Tick
  BY <1>7, TickIInv
<1>8. CASE UNCHANGED vars
  BY <1>8 DEF vars, IInv, TypeOK, Present
<1>9. QED
  BY <1>1, <1>2, <1>3, <1>4, <1>5, <1>6, <1>7, <1>8 DEF Next

LEMMA AlwaysIInv == Spec => []IInv
BY InitIInv, NextIInv, PTL DEF Spec

-------------------------------------------------------------------------------
(***************************************************************************)
(* The other direction: bans that are due hold.  Four more facts about an  *)
(* address, of which the first is needed for the second, and both for what *)
(* a further failure does.                                                 *)
(***************************************************************************)
\* A banned entry below the threshold has been weakened by a success.
Weakened(e, h) == e.bannedAt # Never /\ e.strikes < Threshold => h.forgiven

\* Failures less than a base ban ago are strikes, and a ban is no older than they are.
Counted(e, h, t) ==
  \A i \in 1 .. Len(h.streak) :
    /\ h.streak[i] <= t
    /\ t - h.streak[i] < BaseBan =>
         /\ e.strikes >= Len(h.streak) - i + 1
         /\ e.strikes >= Threshold => e.bannedAt >= h.streak[i] /\ e.duration >= BaseBan

\* A ban is no longer than its own strikes warrant, unless some were taken back since.
Proportional(e, k, h) ==
  /\ e.bannedAt # Never /\ ~h.forgiven => e.duration <= escalatedDuration(e.strikes)
  /\ k.duration <= escalatedDuration(k.strikes)

\* An end x of a ban is the end b that was decided, up to truncation.
Near(x, b) == x <= b /\ b < x + Second

\* As long as no call of Redis failed, map and key agree with the ban decided last,
\* and an entry that is no ban is only made when that one is over.
Synced(e, k, h, n, t) ==
  ~h.lost =>
    /\ k = NoKey => h.banEnd = 0
    /\ k # NoKey => /\ k.bannedAt # Never
                    /\ k.expires = h.banEnd
                    /\ Near(End(k), h.banEnd)
    /\ e.bannedAt # Never => Near(End(e), h.banEnd)
    /\ e.bannedAt = Never /\ (Present(e) \/ n > 0) => h.banEnd < t + Second

Honoured(e, k, h, n, t) ==
  /\ Weakened(e, h)
  /\ Counted(e, h, t)
  /\ Proportional(e, k, h)
  /\ Synced(e, k, h, n, t)

HInv == \A ip \in IPs : Honoured(strikes[ip], redis[ip], hist[ip], inflight[ip], now)

\* Truncation takes off less than a second.
LEMMA TruncateNear ==
  ASSUME NEW t \in Nat
  PROVE  Near(Truncate(t), t)
<1> DEFINE q == t \div Second
<1>1. Second \in Nat /\ Second > 0 /\ q \in Int
  BY BruteForceAssumption
<1>2. q * Second \in Int /\ q * Second <= t /\ t < q * Second + Second
  BY <1>1
<1>3. QED
  BY <1>2 DEF Near, Truncate

\* The first ban is the shortest.
LEMMA BaseShortest ==
  ASSUME NEW n \in Nat
  PROVE  escalatedDuration(n) >= BaseBan
BY BruteForceAssumption DEF escalatedDuration

\* The types of what is known of one address.
LEMMA AddressTypes ==
  ASSUME IInv, NEW ip \in IPs
  PROVE  /\ now \in 0 .. MaxTime
         /\ strikes[ip] \in Entries /\ redis[ip] \in Keys /\ hist[ip] \in Histories
         /\ inflight[ip] \in 0 .. MaxInFlight
         /\ ~Present(strikes[ip]) => strikes[ip] = NoEntry
         /\ Sound(strikes[ip], redis[ip], hist[ip], now)
BY DEF IInv, TypeOK

LEMMA InitHInv == Init => HInv
<1> SUFFICES ASSUME Init, NEW ip \in IPs
             PROVE  Honoured(NoEntry, NoKey, NoHistory, 0, 0)
  BY DEF Init, HInv
<1>1. escalatedDuration(0) \in Nat
  BY EscalationGrows
<1>2. QED
  BY <1>1, BruteForceAssumption
     DEF Honoured, Weakened, Counted, Proportional, Synced, NoEntry, NoKey, NoHistory, Never, Present

\* A step that touches one address: what is left to show is about that address.
LEMMA OneHonoured ==
  ASSUME IInv, HInv, NEW ip \in IPs, now' = now,
         NEW e, strikes' = [strikes EXCEPT ![ip] = e],
         NEW k, redis' = [redis EXCEPT ![ip] = k],
         NEW h, hist' = [hist EXCEPT ![ip] = h],
         NEW n, inflight' = [inflight EXCEPT ![ip] = n],
         Honoured(e, k, h, n, now)
  PROVE  HInv'
<1> SUFFICES ASSUME NEW i \in IPs
             PROVE  Honoured(strikes'[i], redis'[i], hist'[i], inflight'[i], now)
  BY DEF HInv
<1>1. CASE i = ip
  BY <1>1 DEF IInv, TypeOK
<1>2. CASE i # ip
  BY <1>2 DEF IInv, TypeOK, HInv
<1>3. QED
  BY <1>1, <1>2

\* A streak is a sequence of times.
LEMMA StreakType ==
  ASSUME NEW h \in Histories
  PROVE  /\ Len(h.streak) \in Nat
         /\ \A i \in 1 .. Len(h.streak) : h.streak[i] \in 0 .. MaxTime
<1>1. h.streak \in Seq(0 .. MaxTime)
  BY DEF Histories
<1>2. QED
  BY <1>1, LenProperties, ElementOfSeq

\* Without strikes there is no recent failure, so any entry will do.
LEMMA AbsentCounted ==
  ASSUME NEW h \in Histories, NEW t, Counted(NoEntry, h, t), NEW e
  PROVE  Counted(e, h, t)
<1>1. Len(h.streak) \in Nat
  BY StreakType
<1>2. ASSUME NEW i \in 1 .. Len(h.streak)
      PROVE  ~(NoEntry.strikes >= Len(h.streak) - i + 1)
  BY <1>1 DEF NoEntry
<1>3. QED
  BY <1>2 DEF Counted

\* A ban read back from Redis is as good as the one that was decided.
LEMMA LoadedHonoured ==
  ASSUME IInv, HInv, NEW ip \in IPs, ~Present(strikes[ip]), NEW m
  PROVE  Honoured(Loaded(ip), redis[ip], hist[ip], m, now)
<1> DEFINE k == redis[ip]
           h == hist[ip]
<1>1. /\ now \in Nat /\ k \in Keys /\ h \in Histories
      /\ strikes[ip] = NoEntry
      /\ k = NoKey \/ k.strikes >= Threshold
      /\ Honoured(NoEntry, k, h, inflight[ip], now)
  BY AddressTypes DEF HInv, Sound
<1>2. /\ k.strikes \in Nat /\ k.bannedAt \in Int /\ k.duration \in Nat /\ k.expires \in Nat
      /\ h.banEnd \in Nat /\ Threshold \in Nat /\ Second \in Nat /\ Second > 0
  <2> HIDE DEF k, h
  <2>1. k.strikes \in Nat /\ k.bannedAt \in -1 .. MaxTime /\ k.expires \in Nat
    BY <1>1 DEF Keys
  <2>2. k.duration \in Nat
    BY <1>1, DurationsNat DEF Keys
  <2>3. h.banEnd \in Nat
    BY <1>1 DEF Histories
  <2>4. QED
    BY <2>1, <2>2, <2>3, BruteForceAssumption
<1>3. Counted(Loaded(ip), h, now)
  BY <1>1, AbsentCounted DEF Honoured
<1>4. CASE now >= k.expires
  <2>1. Loaded(ip) = NoEntry
    BY <1>4 DEF Loaded
  <2>2. ~h.lost => h.banEnd < now + Second
    BY <1>1, <1>2, <1>4 DEF Honoured, Synced
  <2>3. QED
    BY <1>1, <1>3, <2>1, <2>2 DEF Honoured, Weakened, Proportional, Synced, NoEntry, Never
<1>5. CASE ~(now >= k.expires)
  <2>1. Loaded(ip) = [strikes |-> k.strikes, bannedAt |-> k.bannedAt, duration |-> k.duration]
    BY <1>5 DEF Loaded
  <2>2. k # NoKey
    BY <1>1, <1>5 DEF NoKey
  <2> HIDE DEF k, h
  <2>3. Weakened(Loaded(ip), h)
    BY <1>1, <1>2, <2>1, <2>2 DEF Weakened
  <2>4. Proportional(Loaded(ip), k, h)
    BY <1>1, <2>1 DEF Honoured, Proportional
  <2>5. Synced(Loaded(ip), k, h, m, now)
    BY <1>1, <2>1, <2>2 DEF Honoured, Synced, End
  <2>6. QED
    BY <1>3, <2>3, <2>4, <2>5 DEF Honoured, k, h
<1>6. QED
  BY <1>4, <1>5

LEMMA RequestHInv ==
  ASSUME IInv, HInv, NEW ip \in IPs, Request(ip)
  PROVE  HInv'
<1> DEFINE h == [hist[ip] EXCEPT !.lost = TRUE]
<1>1. /\ redis' = [redis EXCEPT ![ip] = redis[ip]]
      /\ hist = [hist EXCEPT ![ip] = hist[ip]]
      /\ now' = now
      /\ hist[ip] \in Histories
      /\ Honoured(strikes[ip], redis[ip], hist[ip], inflight[ip], now)
  BY DEF IInv, TypeOK, HInv, Request
<1>2. ASSUME NEW e, Judge(ip, e)
      PROVE  /\ strikes' = [strikes EXCEPT ![ip] = e]
             /\ \E n : inflight' = [inflight EXCEPT ![ip] = n]
  <2>1. inflight = [inflight EXCEPT ![ip] = inflight[ip]]
    BY DEF IInv, TypeOK
  <2>2. QED
    BY <1>2, <2>1 DEF Judge
<1>3. CASE Present(strikes[ip]) /\ Judge(ip, strikes[ip]) /\ UNCHANGED hist
  <2>1. \A n : Honoured(strikes[ip], redis[ip], hist[ip], n, now)
    BY <1>1, <1>3 DEF Honoured, Synced
  <2>2. QED
    BY <1>1, <1>2, <1>3, <2>1, OneHonoured
<1>4. CASE ~Present(strikes[ip]) /\ Judge(ip, Loaded(ip)) /\ UNCHANGED hist
  <2>1. \A n : Honoured(Loaded(ip), redis[ip], hist[ip], n, now)
    BY <1>4, LoadedHonoured
  <2>2. QED
    BY <1>1, <1>2, <1>4, <2>1, OneHonoured
<1>5. CASE /\ ~Present(strikes[ip])
           /\ Judge(ip, NoEntry)
           /\ hist' = [hist EXCEPT ![ip].lost = TRUE]
  <2>1. h.lost /\ h.streak = hist[ip].streak /\ h.forgiven = hist[ip].forgiven
    BY <1>1 DEF Histories
  <2>2. strikes[ip] = NoEntry
    BY <1>5, AddressTypes
  <2>3. \A n : Honoured(NoEntry, redis[ip], h, n, now)
    BY <1>1, <2>1, <2>2 DEF Honoured, Weakened, Counted, Proportional, Synced
  <2>4. hist' = [hist EXCEPT ![ip] = h]
    BY <1>5
  <2> HIDE DEF h
  <2>5. QED
    BY <1>1, <1>2, <1>5, <2>3, <2>4, OneHonoured
<1>6. QED
  BY <1>3, <1>4, <1>5 DEF Request

LEMMA LeaveHInv ==
  ASSUME IInv, HInv, NEW ip \in IPs, Leave(ip)
  PROVE  HInv'
<1>1. /\ strikes' = [strikes EXCEPT ![ip] = strikes[ip]]
      /\ redis' = [redis EXCEPT ![ip] = redis[ip]]
      /\ hist' = [hist EXCEPT ![ip] = hist[ip]]
      /\ inflight' = [inflight EXCEPT ![ip] = inflight[ip] - 1]
      /\ now' = now
  BY DEF IInv, TypeOK, Leave
<1>2. Honoured(strikes[ip], redis[ip], hist[ip], inflight[ip] - 1, now)
  BY DEF HInv, Leave, Honoured, Synced
<1>3. QED
  BY <1>1, <1>2, OneHonoured

\* One failure more at the end of a streak, one less at the front of a full one.
LEMMA LatestShape ==
  ASSUME NEW s \in Seq(0 .. MaxTime), NEW t \in 0 .. MaxTime
  PROVE  \E k \in {0, 1} :
           /\ Len(Latest(Append(s, t))) = Len(s) + 1 - k
           /\ \A i \in 1 .. Len(s) + 1 - k :
                Latest(Append(s, t))[i] = IF i = Len(s) + 1 - k THEN t ELSE s[i + k]
<1> DEFINE a == Append(s, t)
<1>1. /\ Len(s) \in Nat
      /\ a \in Seq(0 .. MaxTime) /\ Len(a) = Len(s) + 1
      /\ \A i \in 1 .. Len(s) + 1 : a[i] = IF i = Len(s) + 1 THEN t ELSE s[i]
  BY AppendProperties, LenProperties
<1> HIDE DEF a
<1>2. CASE Len(a) > Threshold
  <2>1. Latest(a) = Tail(a)
    BY <1>2 DEF Latest
  <2>2. a # <<>>
    BY <1>1, EmptySeq
  <2>3. /\ Len(Tail(a)) = Len(s)
        /\ \A i \in 1 .. Len(s) : Tail(a)[i] = a[i + 1]
    BY <1>1, <2>2, HeadTailProperties
  <2>4. \A i \in 1 .. Len(s) : Tail(a)[i] = IF i = Len(s) THEN t ELSE s[i + 1]
    BY <1>1, <2>3
  <2>5. Len(s) + 1 - 1 = Len(s)
    BY <1>1
  <2>6. QED
    BY <2>1, <2>3, <2>4, <2>5 DEF a
<1>3. CASE ~(Len(a) > Threshold)
  <2>1. Latest(a) = a
    BY <1>3 DEF Latest
  <2>2. Len(s) + 1 - 0 = Len(s) + 1 /\ \A i \in 1 .. Len(s) + 1 : i + 0 = i
    BY <1>1
  <2>3. QED
    BY <1>1, <2>1, <2>2 DEF a
<1>4. QED
  BY <1>2, <1>3

\* The strike a failure adds keeps the streak counted.
LEMMA StruckCounted ==
  ASSUME NEW e \in Entries, NEW s \in Entries, NEW h \in Histories, NEW g \in Histories,
         NEW t \in 0 .. MaxTime, Counted(e, h, t),
         s.strikes = e.strikes + 1,
         s.strikes >= Threshold => s.bannedAt = t /\ s.duration >= BaseBan,
         g.streak = Latest(Append(h.streak, t))
  PROVE  Counted(s, g, t)
<1>1. /\ h.streak \in Seq(0 .. MaxTime)
      /\ Len(h.streak) \in Nat
      /\ \A i \in 1 .. Len(h.streak) : h.streak[i] \in 0 .. MaxTime
      /\ e.strikes \in Nat
  BY StreakType DEF Histories, Entries
<1>2. PICK k \in {0, 1} :
        /\ Len(g.streak) = Len(h.streak) + 1 - k
        /\ \A i \in 1 .. Len(h.streak) + 1 - k :
             g.streak[i] = IF i = Len(h.streak) + 1 - k THEN t ELSE h.streak[i + k]
  BY <1>1, LatestShape
<1> SUFFICES ASSUME NEW i \in 1 .. Len(g.streak)
             PROVE  /\ g.streak[i] <= t
                    /\ t - g.streak[i] < BaseBan =>
                         /\ s.strikes >= Len(g.streak) - i + 1
                         /\ s.strikes >= Threshold => s.bannedAt >= g.streak[i] /\ s.duration >= BaseBan
  BY DEF Counted
<1>3. CASE i = Len(g.streak)
  BY <1>1, <1>2, <1>3
<1>4. CASE i # Len(g.streak)
  <2>0. i \in 1 .. Len(h.streak) + 1 - k /\ i # Len(h.streak) + 1 - k
    BY <1>2, <1>4
  <2>1. i + k \in 1 .. Len(h.streak) /\ g.streak[i] = h.streak[i + k]
    <3>1. i + k \in 1 .. Len(h.streak)
      BY <1>1, <2>0
    <3>2. g.streak[i] = h.streak[i + k]
      BY <1>2, <2>0
    <3>3. QED
      BY <3>1, <3>2
  <2>2. /\ h.streak[i + k] <= t
        /\ t - h.streak[i + k] < BaseBan => e.strikes >= Len(h.streak) - (i + k) + 1
    BY <2>1 DEF Counted
  <2>3. h.streak[i + k] \in Int
    BY <1>1, <2>1
  <2>4. QED
    BY <1>1, <1>2, <2>1, <2>2, <2>3
<1>5. QED
  BY <1>3, <1>4

LEMMA RecordFailureHInv ==
  ASSUME IInv, HInv, NEW ip \in IPs, RecordFailure(ip)
  PROVE  HInv'
<1> DEFINE e == strikes[ip]
           s == Struck(e)
           n == inflight[ip] - 1
           bans == s.strikes >= Threshold
           h == [hist[ip] EXCEPT
                   !.fails = @ + 1,
                   !.lastFail = now,
                   !.streak = Latest(Append(@, now)),
                   !.banEnd = IF bans THEN now + s.duration ELSE @]
<1>1. /\ now \in 0 .. MaxTime /\ now \in Nat
      /\ e \in Entries /\ redis[ip] \in Keys /\ hist[ip] \in Histories
      /\ Honoured(e, redis[ip], hist[ip], inflight[ip], now)
      /\ inflight[ip] > 0
      /\ hist[ip].fails < MaxFails
      /\ Second \in Nat /\ Second > 0 /\ Threshold \in Nat /\ Threshold > 0
  BY AddressTypes, BruteForceAssumption DEF HInv, RecordFailure
<1>2. /\ redis = [redis EXCEPT ![ip] = redis[ip]]
      /\ strikes' = [strikes EXCEPT ![ip] = s]
      /\ inflight' = [inflight EXCEPT ![ip] = n]
      /\ now' = now
  BY DEF IInv, TypeOK, RecordFailure
<1>3. /\ s \in Entries
      /\ s.strikes = e.strikes + 1
      /\ ~bans => s.bannedAt = e.bannedAt /\ s.duration = e.duration
      /\ bans => s.bannedAt = now /\ s.duration = escalatedDuration(e.strikes + 1)
      /\ e.strikes \in Nat
  <2> HIDE DEF e, h
  <2>1. QED
    BY <1>1, StruckType DEF Entries
<1>4. /\ bans => s.duration >= BaseBan /\ s.duration \in Nat /\ s.duration = escalatedDuration(s.strikes)
      /\ s.strikes \in Nat
  <2> HIDE DEF e, h, s
  <2>1. e.strikes + 1 \in Nat
    BY <1>3
  <2>2. QED
    BY <1>3, <2>1, BaseShortest, EscalationGrows
<1>5. /\ h.streak = Latest(Append(hist[ip].streak, now))
      /\ h.forgiven = hist[ip].forgiven /\ h.lost = hist[ip].lost
      /\ h.banEnd = IF bans THEN now + s.duration ELSE hist[ip].banEnd
  <2> HIDE DEF s, e, bans
  <2>1. QED
    BY <1>1 DEF Histories
<1>6. h \in Histories
  <2>1. hist[ip].fails + 1 \in 0 .. MaxFails
    BY <1>1, BruteForceAssumption DEF Histories
  <2>2. Latest(Append(hist[ip].streak, now)) \in Seq(0 .. MaxTime)
    BY <1>1, LatestType DEF Histories
  <2>3. (IF bans THEN now + s.duration ELSE hist[ip].banEnd) \in Nat
    <3> HIDE DEF s, bans
    <3>1. QED
      BY <1>1, <1>4 DEF Histories
  <2>4. now \in -1 .. MaxTime
    BY <1>1, BruteForceAssumption
  <2> HIDE DEF s, e, bans
  <2>5. QED
    BY <1>1, <2>1, <2>2, <2>3, <2>4 DEF Histories
<1> HIDE DEF h, s, e
<1>7. Counted(s, h, now)
  BY <1>1, <1>3, <1>4, <1>5, <1>6, StruckCounted DEF Honoured
<1>8. Weakened(s, h)
  BY <1>1, <1>3, <1>4, <1>5 DEF Honoured, Weakened
<1>9. ~bans => \A k : Proportional(e, k, hist[ip]) => Proportional(s, k, h)
  <2> SUFFICES ASSUME ~bans, e.bannedAt # Never, ~hist[ip].forgiven PROVE FALSE
    BY <1>3, <1>5 DEF Proportional
  <2>1. QED
    BY <1>1, <1>3 DEF Honoured, Weakened
<1>10. bans => \A k : k.duration <= escalatedDuration(k.strikes) => Proportional(s, k, h)
  <2>1. bans => s.duration <= escalatedDuration(s.strikes)
    BY <1>4
  <2>2. QED
    BY <2>1 DEF Proportional
<1>11. CASE bans /\ Write(ip, Persist(s), h)
  <2>1. Near(Truncate(now), now) /\ Truncate(now) \in Nat
    BY <1>1, TruncateNear, TruncateBelow
  <2>2. s.bannedAt = now /\ Truncate(s.duration) = s.duration
    BY <1>3, <1>11, DurationsExact DEF Entries
  <2>3. Persist(s) = [strikes |-> s.strikes, bannedAt |-> Truncate(now),
                      duration |-> s.duration, expires |-> now + s.duration]
    BY <2>2 DEF Persist
  <2>4. CASE redis' = [redis EXCEPT ![ip] = Persist(s)] /\ hist' = [hist EXCEPT ![ip] = h]
    <3>1. Proportional(s, Persist(s), h)
      BY <1>4, <1>10, <1>11, <2>3
    <3>2. /\ Persist(s) # NoKey
          /\ Persist(s).bannedAt # Never
          /\ Persist(s).expires = now + s.duration
          /\ End(Persist(s)) = Truncate(now) + s.duration
      BY <1>1, <1>3, <1>4, <1>11, <2>1, <2>3 DEF NoKey, Never, End
    <3>3. h.banEnd = now + s.duration /\ End(s) = now + s.duration /\ s.bannedAt # Never
      BY <1>1, <1>5, <1>11, <2>2 DEF End, Never
    <3>4. Synced(s, Persist(s), h, n, now)
      <4>1. Near(End(Persist(s)), h.banEnd) /\ Near(End(s), h.banEnd)
        BY <1>1, <1>4, <1>11, <2>1, <3>2, <3>3 DEF Near
      <4>2. QED
        BY <3>2, <3>3, <4>1 DEF Synced
    <3>5. Honoured(s, Persist(s), h, n, now)
      BY <1>7, <1>8, <3>1, <3>4 DEF Honoured
    <3>6. QED
      BY <1>2, <2>4, <3>5, OneHonoured
  <2>5. CASE hist' = [hist EXCEPT ![ip] = [h EXCEPT !.lost = TRUE]] /\ UNCHANGED redis
    <3> DEFINE g == [h EXCEPT !.lost = TRUE]
    <3>1. g.lost /\ g.streak = h.streak /\ g.forgiven = h.forgiven
      BY <1>6 DEF Histories
    <3>2. Proportional(s, redis[ip], h)
      BY <1>1, <1>10, <1>11 DEF Honoured, Proportional
    <3>3. hist' = [hist EXCEPT ![ip] = g] /\ redis' = [redis EXCEPT ![ip] = redis[ip]]
      BY <1>2, <2>5
    <3> HIDE DEF g
    <3>4. Honoured(s, redis[ip], g, n, now)
      BY <1>7, <1>8, <3>1, <3>2 DEF Honoured, Weakened, Counted, Proportional, Synced
    <3>5. QED
      BY <1>2, <3>3, <3>4, OneHonoured
  <2>6. QED
    BY <1>11, <2>4, <2>5 DEF Write
<1>12. CASE ~bans /\ hist' = [hist EXCEPT ![ip] = h] /\ UNCHANGED redis
  <2>1. Synced(s, redis[ip], h, n, now)
    BY <1>1, <1>3, <1>5, <1>12 DEF Honoured, Synced, End
  <2>2. Honoured(s, redis[ip], h, n, now)
    BY <1>1, <1>7, <1>8, <1>9, <1>12, <2>1 DEF Honoured
  <2>3. redis' = [redis EXCEPT ![ip] = redis[ip]]
    BY <1>2, <1>12
  <2>4. QED
    BY <1>2, <1>12, <2>2, <2>3, OneHonoured
<1>13. QED
  BY <1>11, <1>12 DEF RecordFailure, h, s, e

LEMMA DecrementHInv ==
  ASSUME IInv, HInv, NEW ip \in IPs, Decrement(ip)
  PROVE  HInv'
<1> DEFINE e == strikes[ip]
           n == inflight[ip] - 1
           h == [hist[ip] EXCEPT !.streak = <<>>]
           forgiven == [h EXCEPT !.forgiven = TRUE]
           lifted == [h EXCEPT !.banEnd = 0, !.forgiven = FALSE]
           weaker == [e EXCEPT !.strikes = @ - 1]
<1>1. /\ now \in Nat /\ e \in Entries /\ hist[ip] \in Histories
      /\ Honoured(e, redis[ip], hist[ip], inflight[ip], now)
      /\ inflight[ip] > 0
      /\ ~Present(e) => e = NoEntry
      /\ Second \in Nat /\ Second > 0
  BY AddressTypes, BruteForceAssumption DEF HInv, Decrement
<1>2. /\ strikes = [strikes EXCEPT ![ip] = e]
      /\ redis = [redis EXCEPT ![ip] = redis[ip]]
      /\ inflight' = [inflight EXCEPT ![ip] = n]
      /\ now' = now
  BY DEF IInv, TypeOK, Decrement
<1>3. /\ h.streak = <<>> /\ h.forgiven = hist[ip].forgiven
      /\ h.banEnd = hist[ip].banEnd /\ h.lost = hist[ip].lost
      /\ forgiven.streak = <<>> /\ forgiven.forgiven
      /\ forgiven.banEnd = hist[ip].banEnd /\ forgiven.lost = hist[ip].lost
      /\ lifted.streak = <<>> /\ lifted.banEnd = 0 /\ lifted.lost = hist[ip].lost
  BY <1>1 DEF Histories
<1>4. \A g, x : g.streak = <<>> => Counted(x, g, now)
  BY DEF Counted
<1> HIDE DEF h, forgiven, lifted, n
<1>5. CASE /\ ~Present(e)
           /\ hist' = [hist EXCEPT ![ip] = h]
           /\ UNCHANGED <<strikes, redis>>
  <2>1. strikes' = [strikes EXCEPT ![ip] = e] /\ redis' = [redis EXCEPT ![ip] = redis[ip]]
    BY <1>2, <1>5
  <2>2. Honoured(e, redis[ip], h, n, now)
    BY <1>1, <1>3, <1>4 DEF Honoured, Weakened, Proportional, Synced
  <2>3. QED
    BY <1>2, <1>5, <2>1, <2>2, OneHonoured
<1>6. CASE /\ e.strikes > 1
           /\ strikes' = [strikes EXCEPT ![ip].strikes = @ - 1]
           /\ hist' = [hist EXCEPT ![ip] = forgiven]
           /\ UNCHANGED redis
  <2>1. weaker.bannedAt = e.bannedAt /\ weaker.duration = e.duration /\ Present(e)
    BY <1>1, <1>6 DEF Entries, Present
  <2>2. strikes' = [strikes EXCEPT ![ip] = weaker]
    BY <1>6
  <2>3. redis' = [redis EXCEPT ![ip] = redis[ip]]
    BY <1>2, <1>6
  <2> HIDE DEF weaker
  <2>4. Honoured(weaker, redis[ip], forgiven, n, now)
    BY <1>1, <1>3, <1>4, <2>1 DEF Honoured, Weakened, Proportional, Synced, End
  <2>5. QED
    BY <1>2, <1>6, <2>2, <2>3, <2>4, OneHonoured
<1>7. CASE /\ e.strikes = 1
           /\ strikes' = [strikes EXCEPT ![ip] = NoEntry]
           /\ Write(ip, NoKey, lifted)
  <2>1. \A k, g : /\ k.duration <= escalatedDuration(k.strikes)
                  /\ g.streak = <<>>
                  /\ \/ g.lost
                     \/ k = NoKey /\ g.banEnd = 0
                  => Honoured(NoEntry, k, g, n, now)
    <3>1. NoEntry.bannedAt = Never
      BY DEF NoEntry
    <3>2. \A g : g.banEnd = 0 => g.banEnd < now + Second
      BY <1>1
    <3>3. QED
      BY <1>4, <3>1, <3>2 DEF Honoured, Weakened, Proportional, Synced
  <2>2. CASE redis' = [redis EXCEPT ![ip] = NoKey] /\ hist' = [hist EXCEPT ![ip] = lifted]
    <3>1. NoKey.duration <= escalatedDuration(NoKey.strikes)
      BY EscalationGrows DEF NoKey
    <3>2. Honoured(NoEntry, NoKey, lifted, n, now)
      BY <1>3, <2>1, <3>1
    <3>3. QED
      BY <1>2, <1>7, <2>2, <3>2, OneHonoured
  <2>3. CASE hist' = [hist EXCEPT ![ip] = [lifted EXCEPT !.lost = TRUE]] /\ UNCHANGED redis
    <3> DEFINE g == [lifted EXCEPT !.lost = TRUE]
    <3>1. g.lost /\ g.streak = <<>>
      BY <1>1 DEF Histories, lifted, h
    <3>2. hist' = [hist EXCEPT ![ip] = g] /\ redis' = [redis EXCEPT ![ip] = redis[ip]]
      BY <1>2, <2>3
    <3> HIDE DEF g
    <3>3. Honoured(NoEntry, redis[ip], g, n, now)
      BY <1>1, <2>1, <3>1 DEF Honoured, Proportional
    <3>4. QED
      BY <1>2, <1>7, <3>2, <3>3, OneHonoured
  <2>4. QED
    BY <1>7, <2>2, <2>3 DEF Write
<1>8. QED
  BY <1>5, <1>6, <1>7 DEF Decrement, h, forgiven, lifted

\* What an expired ban leaves behind when it is swept.
LEMMA CleanupHInv ==
  ASSUME IInv, HInv, Cleanup
  PROVE  HInv'
<1> SUFFICES ASSUME NEW ip \in IPs
             PROVE  Honoured(strikes'[ip], redis[ip], hist'[ip], inflight[ip], now)
  BY DEF HInv, Cleanup
<1> DEFINE e == strikes[ip]
           h == hist[ip]
<1>1. /\ now \in Nat /\ e \in Entries /\ h \in Histories
      /\ Honoured(e, redis[ip], h, inflight[ip], now)
      /\ Second \in Nat /\ Second > 0 /\ BaseBan \in Nat /\ Threshold \in Nat
  BY AddressTypes, BruteForceAssumption DEF HInv
<1>2. /\ e.strikes \in Nat /\ e.bannedAt \in Int /\ e.duration \in Nat /\ h.banEnd \in Nat
      /\ Len(h.streak) \in Nat
      /\ \A i \in 1 .. Len(h.streak) : h.streak[i] \in Nat
  BY <1>1, DurationsNat, StreakType DEF Entries, Histories
<1>3. CASE ~Expired(e)
  BY <1>1, <1>3 DEF Cleanup
<1>4. CASE Expired(e)
  <2> DEFINE g == Swept(h)
  <2>1. strikes'[ip] = NoEntry /\ hist'[ip] = g
    BY <1>4 DEF Cleanup
  <2>2. /\ g.banEnd = h.banEnd /\ g.lost = h.lost
        /\ g.streak = IF h.forgiven THEN <<>> ELSE h.streak
    BY <1>1, SweptType
  <2>3. e.bannedAt # Never /\ now - e.bannedAt > e.duration
    BY <1>4 DEF Expired
  <2>4. NoEntry.bannedAt = Never
    BY DEF NoEntry
  <2> HIDE DEF g, h, e
  <2>5. Counted(NoEntry, g, now)
    <3>1. CASE h.forgiven
      BY <2>2, <3>1 DEF Counted
    <3>2. CASE ~h.forgiven
      <4>1. e.strikes >= Threshold
        BY <1>1, <1>2, <2>3, <3>2 DEF Honoured, Weakened
      <4>2. ASSUME NEW i \in 1 .. Len(h.streak)
            PROVE  h.streak[i] <= now /\ ~(now - h.streak[i] < BaseBan)
        <5> DEFINE x == h.streak[i]
        <5>1. /\ x <= now
              /\ now - x < BaseBan => e.bannedAt >= x /\ e.duration >= BaseBan
          BY <1>1, <4>1 DEF Honoured, Counted
        <5>2. x \in Int
          BY <1>2
        <5> HIDE DEF x
        <5>3. x <= now /\ ~(now - x < BaseBan)
          BY <1>1, <1>2, <2>3, <5>1, <5>2
        <5>4. QED
          BY <5>3 DEF x
      <4>3. QED
        BY <2>2, <3>2, <4>2 DEF Counted
    <3>3. QED
      BY <3>1, <3>2
  <2>6. ~h.lost => h.banEnd < now + Second
    BY <1>1, <1>2, <2>3 DEF Honoured, Synced, Near, End
  <2>7. Weakened(NoEntry, g) /\ Proportional(NoEntry, redis[ip], g)
    BY <1>1, <2>4 DEF Honoured, Weakened, Proportional
  <2>8. Synced(NoEntry, redis[ip], g, inflight[ip], now)
    BY <1>1, <2>2, <2>4, <2>6 DEF Honoured, Synced
  <2>9. QED
    BY <2>1, <2>5, <2>7, <2>8 DEF Honoured
<1>5. QED
  BY <1>3, <1>4

LEMMA RestartHInv ==
  ASSUME IInv, HInv, Restart
  PROVE  HInv'
<1> SUFFICES ASSUME NEW ip \in IPs
             PROVE  Honoured(NoEntry, redis[ip], hist'[ip], 0, now)
  BY DEF HInv, Restart
<1>1. /\ hist[ip] \in Histories
      /\ Honoured(strikes[ip], redis[ip], hist[ip], inflight[ip], now)
  BY AddressTypes DEF HInv
<1>2. /\ hist'[ip].streak = <<>>
      /\ hist'[ip].banEnd = hist[ip].banEnd /\ hist'[ip].lost = hist[ip].lost
  BY <1>1 DEF Restart, Histories
<1>3. NoEntry.bannedAt = Never /\ ~Present(NoEntry)
  BY DEF NoEntry, Present
<1>4. QED
  BY <1>1, <1>2, <1>3 DEF Honoured, Weakened, Counted, Proportional, Synced

LEMMA TickHInv ==
  ASSUME IInv, HInv, Tick
  PROVE  HInv'
<1> SUFFICES ASSUME NEW ip \in IPs
             PROVE  Honoured(strikes[ip], redis[ip], hist[ip], inflight[ip], now + 1)
  BY DEF HInv, Tick
<1> DEFINE h == hist[ip]
           e == strikes[ip]
<1>1. /\ now \in Nat /\ h \in Histories
      /\ Honoured(e, redis[ip], h, inflight[ip], now)
      /\ Second \in Nat /\ BaseBan \in Nat
  BY AddressTypes, BruteForceAssumption DEF HInv
<1>2. /\ h.banEnd \in Nat
      /\ \A i \in 1 .. Len(h.streak) : h.streak[i] \in Nat
  BY <1>1, StreakType DEF Histories
<1> HIDE DEF h, e
<1>3. Counted(e, h, now + 1)
  BY <1>1, <1>2 DEF Honoured, Counted
<1>4. Synced(e, redis[ip], h, inflight[ip], now + 1)
  BY <1>1, <1>2 DEF Honoured, Synced
<1>5. QED
  BY <1>1, <1>3, <1>4 DEF Honoured, h, e

LEMMA NextHInv == IInv /\ HInv /\ [Next]_vars => HInv'
<1> SUFFICES ASSUME IInv, HInv, [Next]_vars PROVE HInv'
  OBVIOUS
<1>1. ASSUME NEW ip \in IPs, Request(ip) \/ Leave(ip) \/ RecordFailure(ip) \/ Decrement(ip)
      PROVE  HInv'
  BY <1>1, RequestHInv, LeaveHInv, RecordFailureHInv, DecrementHInv
<1>2. CASE Cleanup
  BY <1>2, CleanupHInv
<1>3. CASE Restart
  BY <1>3, RestartHInv
<1>4. CASE Tick
  BY <1>4, TickHInv
<1>5. CASE UNCHANGED vars
  BY <1>5 DEF vars, HInv
<1>6. QED
  BY <1>1, <1>2, <1>3, <1>4, <1>5 DEF Next

LEMMA AlwaysHInv == Spec => [](IInv /\ HInv)
BY InitIInv, NextIInv, InitHInv, NextHInv, PTL DEF Spec

-------------------------------------------------------------------------------
(***************************************************************************)
(* The guard's map, the Redis keys and the history keep their types: no    *)
(* entry without strikes is ever left in the map, whatever is loaded from  *)
(* Redis or taken back.                                                    *)
(***************************************************************************)
THEOREM TypeCorrect == Spec => []TypeOK
<1>1. IInv => TypeOK
  BY DEF IInv
<1>2. QED
  BY <1>1, AlwaysIInv, PTL

(***************************************************************************)
(* Bans expire by themselves: an address is turned away only for as long   *)
(* after its latest failure as its failures warrant, whether the ban is in *)
(* the map or read back from Redis after a restart, and whichever Redis    *)
(* calls failed.                                                           *)
(***************************************************************************)
THEOREM BansExpire == Spec => []BansAutoExpire
<1>1. IInv => BansAutoExpire
  <2> SUFFICES ASSUME IInv, NEW ip \in IPs, Blocked(ip)
               PROVE  /\ hist[ip].fails >= Threshold
                      /\ now - hist[ip].lastFail < escalatedDuration(hist[ip].fails)
    BY DEF BansAutoExpire
  <2> DEFINE e == Seen(ip)
             h == hist[ip]
  <2>1. e \in Entries /\ Sound(e, redis[ip], h, now)
    BY LoadedSound DEF Seen, IInv, TypeOK
  <2>2. h \in Histories /\ now \in Nat
    BY DEF IInv, TypeOK
  <2>3. e.bannedAt # Never /\ now - e.bannedAt < e.duration
    BY DEF Blocked, Active
  <2> HIDE DEF e, h
  <2>4. h.fails >= Threshold /\ e.bannedAt <= h.lastFail /\ e.duration <= escalatedDuration(h.fails)
    BY <2>1, <2>3 DEF Sound, Deserved
  <2>5. /\ e.bannedAt \in Int /\ h.lastFail \in Int /\ h.fails \in Nat
        /\ e.duration \in Durations
    BY <2>1, <2>2 DEF Entries, Histories
  <2>6. e.duration \in Nat /\ escalatedDuration(h.fails) \in Nat
    <3>1. e.duration \in Nat
      BY <2>5, DurationsNat
    <3>2. escalatedDuration(h.fails) \in Nat
      BY <2>5, EscalationGrows
    <3>3. QED
      BY <3>1, <3>2
  <2>7. now - h.lastFail < escalatedDuration(h.fails)
    BY <2>2, <2>3, <2>4, <2>5, <2>6
  <2>8. QED
    BY <2>4, <2>7 DEF h
<1>2. QED
  BY <1>1, AlwaysIInv, PTL

(***************************************************************************)
(* An address that keeps failing is banned, for every threshold: no strike *)
(* of its streak is lost to a ban that lapsed, to the cleanup or to what   *)
(* is read back from Redis, unless the entry had been weakened by a        *)
(* success before.                                                         *)
(***************************************************************************)
THEOREM AbuserIsBanned == Spec => []PersistentAbuserIsBanned
<1>1. IInv /\ HInv => PersistentAbuserIsBanned
  <2> SUFFICES ASSUME IInv, HInv, NEW ip \in IPs,
                      Len(hist[ip].streak) = Threshold,
                      now - hist[ip].streak[1] < BaseBan
               PROVE  Blocked(ip)
    BY DEF PersistentAbuserIsBanned
  <2> DEFINE e == strikes[ip]
             s == hist[ip].streak
  <2>1. /\ now \in Nat /\ e \in Entries /\ hist[ip] \in Histories
        /\ Counted(e, hist[ip], now)
        /\ Threshold \in Nat /\ Threshold > 0 /\ BaseBan \in Nat
    BY AddressTypes, BruteForceAssumption DEF HInv, Honoured
  <2>2. 1 \in 1 .. Len(s) /\ s[1] \in Nat
    BY <2>1, StreakType
  <2>3. e.strikes \in Nat /\ e.bannedAt \in Int /\ e.duration \in Nat
    BY <2>1, DurationsNat DEF Entries
  <2>4. e.strikes >= Threshold /\ e.bannedAt >= s[1] /\ e.duration >= BaseBan
    <3>1. /\ e.strikes >= Len(s) - 1 + 1
          /\ e.strikes >= Threshold => e.bannedAt >= s[1] /\ e.duration >= BaseBan
      BY <2>1, <2>2 DEF Counted
    <3> HIDE DEF e, s
    <3>2. Len(s) = Threshold
      BY DEF s
    <3>3. QED
      BY <2>1, <2>3, <3>1, <3>2
  <2>5. Present(e) /\ e.bannedAt # Never /\ now - e.bannedAt < e.duration
    BY <2>1, <2>2, <2>3, <2>4 DEF Present, Never
  <2>6. QED
    BY <2>5 DEF Blocked, Seen, Active
<1>2. QED
  BY <1>1, AlwaysHInv, PTL

(***************************************************************************)
(* While Redis answers, a ban holds until the end decided, less the second *)
(* lost to truncation, across restarts and whatever of it is in the map,   *)
(* and no longer.                                                          *)
(***************************************************************************)
THEOREM BansHold == Spec => []BanAsDecided
<1>1. IInv /\ HInv => BanAsDecided
  <2> SUFFICES ASSUME IInv, HInv, NEW ip \in IPs, ~hist[ip].lost
               PROVE  /\ now + Second <= hist[ip].banEnd => Blocked(ip)
                      /\ Blocked(ip) => now < hist[ip].banEnd
    BY DEF BanAsDecided
  <2> DEFINE e == Seen(ip)
             h == hist[ip]
  <2>1. \E m : /\ Honoured(e, redis[ip], h, m, now)
               /\ Present(e) \/ m > 0
    <3>1. CASE Present(strikes[ip])
      BY <3>1 DEF HInv, Seen
    <3>2. CASE ~Present(strikes[ip])
      <4>1. Honoured(e, redis[ip], h, 1, now)
        BY <3>2, LoadedHonoured DEF Seen
      <4>2. QED
        BY <4>1
    <3>3. QED
      BY <3>1, <3>2
  <2>2. /\ now \in Nat /\ Second \in Nat /\ h.banEnd \in Nat
        /\ e.bannedAt \in Int /\ e.duration \in Nat
    <3>1. e \in Entries /\ h \in Histories /\ now \in Nat
      BY LoadedSound, AddressTypes DEF Seen
    <3>2. QED
      BY <3>1, DurationsNat, BruteForceAssumption DEF Entries, Histories
  <2> HIDE DEF e, h
  <2>3. CASE e.bannedAt = Never
    <3>1. h.banEnd < now + Second
      BY <2>1, <2>3 DEF Honoured, Synced, h
    <3>2. ~Active(e)
      BY <2>3 DEF Active
    <3>3. QED
      BY <2>2, <3>1, <3>2 DEF Blocked, e, h
  <2>4. CASE e.bannedAt # Never
    <3>1. End(e) <= h.banEnd /\ h.banEnd < End(e) + Second
      BY <2>1, <2>4 DEF Honoured, Synced, Near, h
    <3>2. Active(e) <=> now < End(e)
      BY <2>2, <2>4 DEF Active, End
    <3>3. End(e) \in Int
      BY <2>2 DEF End
    <3>4. QED
      BY <2>2, <3>1, <3>2, <3>3 DEF Blocked, e, h
  <2>5. QED
    BY <2>3, <2>4
<1>2. QED
  BY <1>1, AlwaysHInv, PTL

\* Only a failure adds strikes to an entry that is banned.
LEMMA OnlyFailuresStrike ==
  ASSUME IInv, [Next]_vars, NEW ip \in IPs, Active(strikes[ip]),
         strikes'[ip].strikes > strikes[ip].strikes
  PROVE  RecordFailure(ip)
<1>1. strikes \in [IPs -> Entries] /\ strikes[ip].strikes \in Nat /\ Present(strikes[ip])
  BY AddressTypes DEF IInv, TypeOK, Entries, Active, NoEntry
<1>2. strikes'[ip] \notin {strikes[ip], NoEntry}
  BY <1>1 DEF NoEntry
<1>3. ASSUME NEW i \in IPs, Request(i) \/ Leave(i) \/ RecordFailure(i) \/ Decrement(i)
      PROVE  i = ip /\ ~Leave(ip)
  BY <1>1, <1>2, <1>3 DEF Request, Judge, Leave, RecordFailure, Decrement
<1>4. ~Request(ip)
  BY <1>1, <1>2 DEF Request, Judge
<1>5. ~Decrement(ip)
  <2>1. strikes'[ip].strikes # strikes[ip].strikes - 1
    BY <1>1
  <2>2. QED
    BY <1>1, <1>2, <2>1 DEF Decrement, Entries
<1>6. ~Cleanup /\ ~Restart /\ ~Tick /\ ~UNCHANGED vars
  BY <1>2 DEF Cleanup, Restart, Tick, vars
<1>7. QED
  BY <1>3, <1>4, <1>5, <1>6 DEF Next

(***************************************************************************)
(* A failure reported late never shortens the ban it runs into, in any     *)
(* tier, unless a success has been set against the strikes.                *)
(***************************************************************************)
THEOREM BansGrow == Spec => FailureNeverShortensBan
<1>1. IInv /\ HInv /\ [Next]_vars =>
        [\A ip \in IPs :
           /\ Active(strikes[ip])
           /\ strikes'[ip].strikes > strikes[ip].strikes
           /\ ~hist[ip].forgiven
           => End(strikes'[ip]) >= End(strikes[ip])]_vars
  <2> SUFFICES ASSUME IInv, HInv, [Next]_vars, NEW ip \in IPs,
                      Active(strikes[ip]),
                      strikes'[ip].strikes > strikes[ip].strikes,
                      ~hist[ip].forgiven
               PROVE  End(strikes'[ip]) >= End(strikes[ip])
    OBVIOUS
  <2> DEFINE e == strikes[ip]
             s == Struck(e)
  <2>1. strikes'[ip] = s
    BY OnlyFailuresStrike DEF RecordFailure, IInv, TypeOK
  <2>2. /\ now \in 0 .. MaxTime /\ now \in Nat /\ e \in Entries
        /\ Weakened(e, hist[ip]) /\ Proportional(e, redis[ip], hist[ip])
        /\ Threshold \in Nat
    BY AddressTypes, BruteForceAssumption DEF HInv, Honoured
  <2>3. e.strikes \in Nat /\ e.bannedAt \in Int /\ e.duration \in Nat
    BY <2>2, DurationsNat DEF Entries
  <2>4. /\ s.strikes = e.strikes + 1
        /\ s.strikes >= Threshold =>
             s.bannedAt = now /\ s.duration = escalatedDuration(e.strikes + 1)
    <3> HIDE DEF e
    <3>1. QED
      BY <2>2, StruckType
  <2>5. e.bannedAt # Never /\ now - e.bannedAt < e.duration
    BY DEF Active
  <2> HIDE DEF e, s
  <2>6. e.strikes >= Threshold /\ e.duration <= escalatedDuration(e.strikes)
    BY <2>2, <2>3, <2>5 DEF Weakened, Proportional
  <2>7. /\ escalatedDuration(e.strikes) <= escalatedDuration(e.strikes + 1)
        /\ escalatedDuration(e.strikes) \in Nat /\ escalatedDuration(e.strikes + 1) \in Nat
    <3>1. e.strikes + 1 \in Nat /\ e.strikes <= e.strikes + 1
      BY <2>3
    <3>2. QED
      BY <2>3, <3>1, EscalationGrows
  <2>8. e.bannedAt <= now
    <3>1. Sound(e, redis[ip], hist[ip], now) /\ hist[ip] \in Histories
      BY AddressTypes DEF e
    <3>2. /\ e.bannedAt <= hist[ip].lastFail /\ hist[ip].lastFail <= now
          /\ hist[ip].lastFail \in Int
      BY <2>5, <3>1 DEF Sound, Deserved, Histories
    <3>3. QED
      BY <2>2, <2>3, <3>2
  <2>9. QED
    BY <2>1, <2>2, <2>3, <2>4, <2>6, <2>7, <2>8 DEF End, e
<1>2. QED
  BY <1>1, AlwaysHInv, PTL DEF Spec, FailureNeverShortensBan
===============================================================================

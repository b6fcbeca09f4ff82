---------------------------- MODULE RevocationProofs ----------------------------
(***************************************************************************)
(* What TLAPS proves of Revocation, for any subjects and goroutines, any   *)
(* life of tokens, precision of Redis and skew, with or without failures   *)
(* of Redis: the types; that a revoked token is not admitted; that no      *)
(* token is rejected for a revocation older than itself.                   *)
(*                                                                         *)
(* Both properties are about what a check decides in the end, and so the   *)
(* invariant must follow a revocation through the map, the Redis key and   *)
(* the checks that carry a copy of it.                                     *)
(***************************************************************************)
EXTENDS Revocation, TLAPS

\* Some revocation of the subject is so old that every token it covers has expired.
Lapsed(sub) == \E at \in Revocations(sub) : now >= at + MaxTTL

(***************************************************************************)
(* Whatever a store holds stems from a revocation, and says of it what is  *)
(* compared with tokens.                                                   *)
(***************************************************************************)
EntryGenuine(sub) ==
  entries[sub] # NoEntry =>
    \E at \in Revocations(sub) : Unix(entries[sub].revokedAt) = Unix(at)

FoundGenuine(c) ==
  c.pc = "found" => \E at \in durable[c.sub] : c.found = Unix(at)

(***************************************************************************)
(* Redis has a key, of a life that suffices, from the first revocation it  *)
(* stored.                                                                 *)
(***************************************************************************)
KeyKept(sub) ==
  IF durable[sub] = {} THEN redis[sub] = NoKey
  ELSE \E at \in durable[sub] :
         redis[sub].revokedAt = Unix(at) /\ redis[sub].expires = at + MaxTTL

(***************************************************************************)
(* Before that the map has an entry, of a life that suffices, or had one   *)
(* until some revocation lapsed.                                           *)
(***************************************************************************)
EntryKept(sub) ==
  durable[sub] = {} =>
    IF entries[sub] # NoEntry
    THEN \E at \in volatile[sub] : entries[sub].expiresAt = at + MaxTTL
    ELSE volatile[sub] # {} => Lapsed(sub)

(***************************************************************************)
(* A check under way: revocations made since it began cover its token as   *)
(* well, and it misses the map only for a subject that Redis knows or that *)
(* has a lapsed revocation.                                                *)
(***************************************************************************)
CheckSound(c) ==
  /\ c.iat = Unix(c.iat) /\ c.iat <= now
  /\ c.pc \in {"validated", "missed", "found"} /\ c.firstCovered =>
       /\ \A at \in Revocations(c.sub) : Covers(at, c.iat)
       /\ c.pc = "missed" => durable[c.sub] # {} \/ Lapsed(c.sub)
       /\ Revocations(c.sub) # {}

IInv ==
  /\ TypeOK
  /\ \A sub \in Subjects : EntryGenuine(sub) /\ KeyKept(sub) /\ EntryKept(sub)
  /\ \A g \in Checks : FoundGenuine(checks[g]) /\ CheckSound(checks[g])

CheckType ==
  [pc : {"idle", "validated", "missed", "found", "done"},
   sub : Subjects, iat : Times, found : Times \cup {Never},
   verdict : {"none", "admitted", "rejected", "unchecked"},
   covered : BOOLEAN, firstCovered : BOOLEAN]

-------------------------------------------------------------------------------
(***************************************************************************)
(* Arithmetic of whole seconds                                             *)
(***************************************************************************)
\* Truncation is to the last multiple of a second.
LEMMA UnixMultiple ==
  ASSUME NEW t \in Nat
  PROVE  \E q \in Nat : Unix(t) = q * Second /\ Unix(t) <= t /\ t < Unix(t) + Second
<1> DEFINE q == t \div Second
<1>1. Second \in Nat /\ Second > 0
  BY RevocationAssumption
<1>2. q \in Nat /\ t = q * Second + (t % Second) /\ t % Second \in 0 .. Second - 1
  BY <1>1
<1>3. Unix(t) = q * Second
  BY <1>1, <1>2 DEF Unix
<1> HIDE DEF q
<1>4. QED
  BY <1>1, <1>2, <1>3

\* The two bounds determine the multiple.
LEMMA MultipleUnique ==
  ASSUME NEW t \in Nat, NEW q \in Nat, q * Second <= t, t < q * Second + Second
  PROVE  Unix(t) = q * Second
<1>1. Second \in Nat /\ Second > 0
  BY RevocationAssumption
<1>2. PICK p \in Nat : Unix(t) = p * Second /\ Unix(t) <= t /\ t < Unix(t) + Second
  BY UnixMultiple
<1>3. p = q
  BY <1>1, <1>2
<1>4. QED
  BY <1>2, <1>3

LEMMA UnixBelow ==
  ASSUME NEW t \in Nat
  PROVE  Unix(t) \in Nat /\ Unix(t) <= t /\ Unix(Unix(t)) = Unix(t)
<1>1. Second \in Nat /\ Second > 0
  BY RevocationAssumption
<1>2. PICK q \in Nat : Unix(t) = q * Second /\ Unix(t) <= t /\ t < Unix(t) + Second
  BY UnixMultiple
<1>3. Unix(t) \in Nat
  BY <1>1, <1>2
<1>4. Unix(Unix(t)) = q * Second
  BY <1>1, <1>2, <1>3, MultipleUnique
<1>5. QED
  BY <1>2, <1>3, <1>4

\* A whole second that is not later than t is not later than t truncated.
LEMMA WholeSecondBelow ==
  ASSUME NEW i \in Nat, i = Unix(i), NEW t \in Nat, i <= t
  PROVE  i <= Unix(t)
<1>1. Second \in Nat /\ Second > 0
  BY RevocationAssumption
<1>2. PICK q \in Nat : Unix(t) = q * Second /\ Unix(t) <= t /\ t < Unix(t) + Second
  BY UnixMultiple
<1>3. PICK p \in Nat : i = p * Second
  BY UnixMultiple
<1>4. p * Second < (q + 1) * Second
  BY <1>1, <1>2, <1>3
<1>5. p <= q
  BY <1>1, <1>4
<1>6. QED
  BY <1>1, <1>2, <1>3, <1>5

\* The life of a token is a whole number of seconds.
LEMMA UnixShift ==
  ASSUME NEW t \in Nat
  PROVE  Unix(t + MaxTTL) = Unix(t) + MaxTTL
<1> DEFINE k == MaxTTL \div Second
<1>1. /\ Second \in Nat /\ Second > 0 /\ MaxTTL \in Nat
      /\ k \in Nat /\ MaxTTL = k * Second
  BY RevocationAssumption
<1> HIDE DEF k
<1>2. PICK q \in Nat : Unix(t) = q * Second /\ Unix(t) <= t /\ t < Unix(t) + Second
  BY UnixMultiple
<1>3. (q + k) * Second = q * Second + MaxTTL
  BY <1>1
<1>4. Unix(t + MaxTTL) = (q + k) * Second
  BY <1>1, <1>2, <1>3, MultipleUnique
<1>5. QED
  BY <1>2, <1>3, <1>4

\* A revocation a token's life ago covers only tokens that have expired.
LEMMA LapsedMeansExpired ==
  ASSUME NEW at \in Nat, NEW iat \in Nat, NEW t \in Nat, Covers(at, iat), t >= at + MaxTTL
  PROVE  Unix(t) >= iat + MaxTTL
<1>1. MaxTTL \in Nat /\ Unix(at) \in Nat /\ Unix(t) \in Nat /\ iat <= Unix(at)
  BY UnixBelow, RevocationAssumption DEF Covers
<1>2. Unix(at + MaxTTL) = Unix(at) + MaxTTL /\ Unix(at + MaxTTL) = Unix(Unix(at + MaxTTL))
  BY <1>1, UnixShift, UnixBelow
<1>3. Unix(at) + MaxTTL <= t
  BY <1>1, UnixBelow
<1>4. Unix(at) + MaxTTL <= Unix(t)
  BY <1>1, <1>2, <1>3, WholeSecondBelow
<1>5. QED
  BY <1>1, <1>4

-------------------------------------------------------------------------------
(***************************************************************************)
(* The invariant holds initially and every action preserves it             *)
(***************************************************************************)
\* A check at rest claims nothing.
LEMMA IdleSound ==
  ASSUME now \in Times, NEW sub \in Subjects
  PROVE  /\ Idle(sub) \in CheckType /\ Idle(sub).pc = "idle" /\ Idle(sub).sub = sub
         /\ FoundGenuine(Idle(sub)) /\ CheckSound(Idle(sub))
<1>1. 0 \in Times /\ 0 \in Nat /\ now >= 0
  BY RevocationAssumption DEF Times
<1>2. Unix(0) = 0
  <2>1. Unix(0) \in Nat /\ Unix(0) <= 0
    BY <1>1, UnixBelow
  <2>2. QED
    BY <2>1
<1>3. QED
  BY <1>1, <1>2 DEF Idle, CheckType, FoundGenuine, CheckSound

LEMMA InitIInv == Init => IInv
<1> SUFFICES ASSUME Init PROVE IInv
  OBVIOUS
<1>1. now \in Times
  BY RevocationAssumption DEF Init, Times
<1>2. /\ checks \in [Checks -> CheckType]
      /\ \A g \in Checks : /\ checks[g].pc # "found"
                           /\ FoundGenuine(checks[g]) /\ CheckSound(checks[g])
  <2>1. \A g \in Checks : \E sub \in Subjects : checks[g] = Idle(sub)
    BY DEF Init
  <2>2. checks = [g \in Checks |-> checks[g]]
    BY DEF Init
  <2>3. QED
    BY <1>1, <2>1, <2>2, IdleSound
<1>3. TypeOK
  BY <1>1, <1>2 DEF Init, TypeOK, CheckType
<1>4. \A sub \in Subjects : EntryGenuine(sub) /\ KeyKept(sub) /\ EntryKept(sub)
  BY DEF Init, EntryGenuine, KeyKept, EntryKept
<1>5. QED
  BY <1>2, <1>3, <1>4 DEF IInv

\* A step of one check that leaves the stores alone.
LEMMA OneCheck ==
  ASSUME IInv, NEW g \in Checks, NEW c \in CheckType,
         checks' = [checks EXCEPT ![g] = c],
         UNCHANGED <<now, entries, redis, durable, volatile>>,
         c.pc = "found" => c.found \in Times,
         FoundGenuine(c), CheckSound(c)
  PROVE  IInv'
<1>1. \A h \in Checks : checks'[h] \in {checks[h], c}
  BY DEF IInv, TypeOK
<1>2. checks' \in [Checks -> CheckType]
  BY DEF IInv, TypeOK, CheckType
<1>3. TypeOK'
  BY <1>1, <1>2 DEF IInv, TypeOK, CheckType
<1>4. \A sub \in Subjects : (EntryGenuine(sub) /\ KeyKept(sub) /\ EntryKept(sub))'
  BY DEF IInv, EntryGenuine, KeyKept, EntryKept, Lapsed, Revocations
<1>5. ASSUME NEW h \in Checks PROVE (FoundGenuine(checks[h]) /\ CheckSound(checks[h]))'
  <2>1. FoundGenuine(checks[h]) /\ CheckSound(checks[h])
    BY DEF IInv
  <2>2. QED
    BY <1>1, <2>1 DEF FoundGenuine, CheckSound, Lapsed, Revocations
<1>6. QED
  BY <1>3, <1>4, <1>5 DEF IInv

\* What Decide makes of a check, which then claims nothing any more.
LEMMA DecideOutcome ==
  ASSUME IInv, NEW g \in Checks, NEW v \in {"admitted", "rejected", "unchecked"}, Decide(g, v)
  PROVE  \E c \in CheckType :
           /\ checks' = [checks EXCEPT ![g] = c]
           /\ c.pc = "done" /\ c.verdict = v
           /\ FoundGenuine(c) /\ CheckSound(c)
<1> DEFINE c == [checks[g] EXCEPT !.pc = "done", !.verdict = v]
<1>1. checks[g] \in CheckType /\ CheckSound(checks[g])
  BY DEF IInv, TypeOK, CheckType
<1>2. checks' = [checks EXCEPT ![g] = c]
  BY DEF Decide, IInv, TypeOK
<1>3. /\ c \in CheckType /\ c.pc = "done" /\ c.verdict = v /\ c.iat = checks[g].iat
  BY <1>1 DEF CheckType
<1>4. FoundGenuine(c) /\ CheckSound(c)
  BY <1>1, <1>3 DEF FoundGenuine, CheckSound
<1> HIDE DEF c
<1>5. QED
  BY <1>2, <1>3, <1>4

LEMMA PresentIInv ==
  ASSUME IInv, NEW g \in Checks, NEW sub \in Subjects, NEW iat \in Times,
         Present(g, sub, iat)
  PROVE  IInv'
<1> DEFINE c == [pc |-> "validated", sub |-> sub, iat |-> iat, found |-> Never,
                 verdict |-> "none",
                 covered |-> \E at \in Revocations(sub) : Covers(at, iat),
                 firstCovered |-> /\ Revocations(sub) # {}
                                  /\ \A at \in Revocations(sub) : Covers(at, iat)]
<1>1. /\ checks' = [checks EXCEPT ![g] = c]
      /\ UNCHANGED <<now, entries, redis, durable, volatile>>
      /\ iat = Unix(iat) /\ iat <= now
  BY DEF Present
<1>2. c \in CheckType
  BY DEF CheckType
<1>3. FoundGenuine(c) /\ CheckSound(c) /\ c.pc # "found"
  BY <1>1 DEF FoundGenuine, CheckSound
<1> HIDE DEF c
<1>4. QED
  BY <1>1, <1>2, <1>3, OneCheck

LEMMA ReadMemoryIInv ==
  ASSUME IInv, NEW g \in Checks, ReadMemory(g)
  PROVE  IInv'
<1> DEFINE sub == checks[g].sub
           e == entries[sub]
           c == [checks[g] EXCEPT !.pc = "missed"]
<1>1. /\ checks[g] \in CheckType /\ CheckSound(checks[g]) /\ sub \in Subjects
      /\ checks[g].pc = "validated"
      /\ UNCHANGED <<now, entries, redis, durable, volatile>>
  BY DEF IInv, TypeOK, CheckType, ReadMemory
<1>2. CASE e = NoEntry
  <2>1. checks' = [checks EXCEPT ![g] = c]
    BY <1>2 DEF ReadMemory, IInv, TypeOK
  <2>2. /\ c \in CheckType /\ c.pc = "missed" /\ c.sub = sub /\ c.iat = checks[g].iat
        /\ c.firstCovered = checks[g].firstCovered
    BY <1>1 DEF CheckType
  <2>3. Revocations(sub) # {} => durable[sub] # {} \/ Lapsed(sub)
    BY <1>1, <1>2 DEF IInv, EntryKept, Revocations
  <2>4. CheckSound(c) /\ FoundGenuine(c)
    <3> HIDE DEF c
    <3>1. QED
      BY <1>1, <2>2, <2>3 DEF CheckSound, FoundGenuine
  <2> HIDE DEF c
  <2>5. QED
    BY <1>1, <2>1, <2>2, <2>4, OneCheck
<1>3. CASE e # NoEntry
  <2>1. \E v \in {"admitted", "rejected", "unchecked"} : Decide(g, v)
    BY <1>3 DEF ReadMemory, Compare
  <2>2. QED
    BY <1>1, <2>1, DecideOutcome, OneCheck
<1>4. QED
  BY <1>2, <1>3

\* A key that is found stems from a revocation that Redis stored.
LEMMA ReadRedisIInv ==
  ASSUME IInv, NEW g \in Checks, ReadRedis(g)
  PROVE  IInv'
<1> DEFINE sub == checks[g].sub
           key == redis[sub]
           c == [checks[g] EXCEPT !.pc = "found", !.found = key.revokedAt]
<1>1. /\ checks[g] \in CheckType /\ CheckSound(checks[g]) /\ sub \in Subjects
      /\ checks[g].pc = "missed" /\ now \in Nat
      /\ UNCHANGED <<now, entries, redis, durable, volatile>>
  BY DEF IInv, TypeOK, CheckType, ReadRedis, Times
<1>2. CASE now < key.expires /\ checks' = [checks EXCEPT ![g].pc = "found",
                                                        ![g].found = key.revokedAt]
  <2>1. checks' = [checks EXCEPT ![g] = c]
    BY <1>2 DEF IInv, TypeOK
  <2>2. key # NoKey
    BY <1>1, <1>2 DEF NoKey
  <2>3. key.revokedAt \in Times /\ \E at \in durable[sub] : key.revokedAt = Unix(at)
    BY <1>1, <2>2 DEF IInv, TypeOK, KeyKept
  <2>4. /\ c \in CheckType /\ c.pc = "found" /\ c.sub = sub /\ c.iat = checks[g].iat
        /\ c.firstCovered = checks[g].firstCovered /\ c.found = key.revokedAt
    BY <1>1, <2>3 DEF CheckType
  <2> HIDE DEF c
  <2>5. CheckSound(c) /\ FoundGenuine(c)
    BY <1>1, <2>3, <2>4 DEF CheckSound, FoundGenuine
  <2>6. QED
    BY <1>1, <2>1, <2>3, <2>4, <2>5, OneCheck
<1>3. CASE \E v \in {"admitted", "rejected", "unchecked"} : Decide(g, v)
  BY <1>1, <1>3, DecideOutcome, OneCheck
<1>4. QED
  BY <1>2, <1>3 DEF ReadRedis

\* Only subjects whose revocations Redis stored are copied into the map.
LEMMA CacheIInv ==
  ASSUME IInv, NEW g \in Checks, Cache(g)
  PROVE  IInv'
<1> DEFINE sub == checks[g].sub
           at == checks[g].found
           e == [revokedAt |-> at, expiresAt |-> now + MaxTTL]
<1>1. /\ checks[g] \in CheckType /\ sub \in Subjects /\ checks[g].pc = "found"
      /\ at \in Times /\ entries' = [entries EXCEPT ![sub] = e]
      /\ UNCHANGED <<now, redis, durable, volatile>>
      /\ entries \in [Subjects -> [revokedAt : Times, expiresAt : Nat] \cup {NoEntry}]
  BY DEF IInv, TypeOK, CheckType, Cache
<1>2. PICK d \in durable[sub] : at = Unix(d)
  BY <1>1 DEF IInv, FoundGenuine
<1>3. PICK c \in CheckType : /\ checks' = [checks EXCEPT ![g] = c]
                             /\ c.pc = "done" /\ CheckSound(c)
  <2>1. \E v \in {"admitted", "rejected", "unchecked"} : Decide(g, v)
    BY DEF Cache, Compare
  <2>2. QED
    BY <2>1, DecideOutcome
<1>4. d \in Nat /\ now \in Nat /\ MaxTTL \in Nat
  BY <1>1, <1>2, RevocationAssumption DEF IInv, TypeOK, Times
<1>5. \A h \in Checks : h # g => checks'[h] = checks[h]
  BY <1>3 DEF IInv, TypeOK
<1>6. checks'[g] = c
  BY <1>3 DEF IInv, TypeOK
<1>7. TypeOK'
  <2>1. e \in [revokedAt : Times, expiresAt : Nat]
    BY <1>1, <1>4
  <2>2. checks' \in [Checks -> CheckType]
    BY <1>3 DEF IInv, TypeOK, CheckType
  <2> HIDE DEF e
  <2>3. entries' \in [Subjects -> [revokedAt : Times, expiresAt : Nat] \cup {NoEntry}]
    BY <1>1, <2>1
  <2>4. QED
    BY <1>1, <1>3, <1>5, <1>6, <2>2, <2>3 DEF IInv, TypeOK, CheckType
<1>8. ASSUME NEW s \in Subjects PROVE (EntryGenuine(s) /\ KeyKept(s) /\ EntryKept(s))'
  <2>1. EntryGenuine(s) /\ KeyKept(s) /\ EntryKept(s)
    BY DEF IInv
  <2>2. KeyKept(s)'
    BY <1>1, <2>1 DEF KeyKept
  <2>3. CASE s = sub
    <3>1. entries'[s].revokedAt = at
      BY <1>1, <2>3
    <3>2. Unix(at) = Unix(d)
      BY <1>2, <1>4, UnixBelow
    <3>3. QED
      BY <1>1, <1>2, <2>2, <2>3, <3>1, <3>2 DEF EntryGenuine, EntryKept, Revocations
  <2>4. CASE s # sub
    <3>1. entries'[s] = entries[s]
      BY <1>1, <2>4
    <3>2. QED
      BY <1>1, <2>1, <2>2, <3>1 DEF EntryGenuine, EntryKept, Revocations, Lapsed
  <2>5. QED
    BY <2>3, <2>4
<1>9. ASSUME NEW h \in Checks PROVE (FoundGenuine(checks[h]) /\ CheckSound(checks[h]))'
  <2>1. FoundGenuine(checks[h]) /\ CheckSound(checks[h])
    BY DEF IInv
  <2>2. QED
    BY <1>1, <1>3, <1>5, <1>6, <2>1 DEF FoundGenuine, CheckSound, Lapsed, Revocations
<1>10. QED
  BY <1>7, <1>8, <1>9 DEF IInv

\* A new revocation covers every token presented so far.
LEMMA RevokeIInv ==
  ASSUME IInv, NEW sub \in Subjects, Revoke(sub)
  PROVE  IInv'
<1> DEFINE e == [revokedAt |-> now, expiresAt |-> now + MaxTTL]
           k == [revokedAt |-> Unix(now), expires |-> now + MaxTTL]
<1>1. /\ now \in Times /\ now \in Nat /\ now' = now /\ checks' = checks
      /\ MaxTTL \in Nat /\ now + MaxTTL \in Nat
      /\ entries' = [entries EXCEPT ![sub] = e]
      /\ entries \in [Subjects -> [revokedAt : Times, expiresAt : Nat] \cup {NoEntry}]
      /\ redis \in [Subjects -> [revokedAt : Times, expires : Nat] \cup {NoKey}]
      /\ durable \in [Subjects -> SUBSET Times] /\ volatile \in [Subjects -> SUBSET Times]
  BY RevocationAssumption DEF IInv, TypeOK, Times, Revoke
<1>2. \/ /\ redis' = [redis EXCEPT ![sub] = k]
         /\ durable' = [durable EXCEPT ![sub] = @ \cup {now}]
         /\ volatile' = volatile
      \/ /\ volatile' = [volatile EXCEPT ![sub] = @ \cup {now}]
         /\ redis' = redis /\ durable' = durable
  BY DEF Revoke
<1>3. /\ e \in [revokedAt : Times, expiresAt : Nat] /\ e # NoEntry
      /\ k \in [revokedAt : Times, expires : Nat]
  <2>1. Unix(now) \in Times
    BY <1>1, UnixBelow, RevocationAssumption DEF Times
  <2>2. now # Never
    BY <1>1 DEF Never
  <2>3. QED
    BY <1>1, <2>1, <2>2 DEF NoEntry
<1>4. /\ \A s \in Subjects : s # sub =>
           /\ entries'[s] = entries[s] /\ redis'[s] = redis[s]
           /\ durable'[s] = durable[s] /\ volatile'[s] = volatile[s]
      /\ \A s \in Subjects : durable[s] \subseteq durable'[s] /\ volatile[s] \subseteq volatile'[s]
      /\ entries'[sub] = e
  <2> HIDE DEF e, k
  <2>1. QED
    BY <1>1, <1>2
<1>5. \A s \in Subjects : \A at \in (Revocations(s))' : at \in Revocations(s) \/ at = now
  BY <1>1, <1>2 DEF Revocations
<1>6. TypeOK'
  <2> HIDE DEF e, k
  <2>1. entries' \in [Subjects -> [revokedAt : Times, expiresAt : Nat] \cup {NoEntry}]
    BY <1>1, <1>3
  <2>2. redis' \in [Subjects -> [revokedAt : Times, expires : Nat] \cup {NoKey}]
    BY <1>1, <1>2, <1>3
  <2>3. durable' \in [Subjects -> SUBSET Times] /\ volatile' \in [Subjects -> SUBSET Times]
    BY <1>1, <1>2
  <2>4. QED
    BY <1>1, <2>1, <2>2, <2>3 DEF IInv, TypeOK
<1>7. ASSUME NEW s \in Subjects PROVE (EntryGenuine(s) /\ KeyKept(s) /\ EntryKept(s))'
  <2>1. EntryGenuine(s) /\ KeyKept(s) /\ EntryKept(s)
    BY DEF IInv
  <2>2. CASE s # sub
    BY <1>1, <1>4, <2>1, <2>2 DEF EntryGenuine, KeyKept, EntryKept, Revocations, Lapsed
  <2>3. CASE s = sub
    <3>1. now \in durable'[s] \/ now \in volatile'[s]
      BY <1>1, <1>2, <2>3
    <3>2. EntryGenuine(s)'
      BY <1>4, <2>3, <3>1 DEF EntryGenuine, Revocations
    <3>3. CASE /\ redis' = [redis EXCEPT ![sub] = k]
               /\ durable' = [durable EXCEPT ![sub] = @ \cup {now}]
      <4>1. now \in durable'[s] /\ redis'[s] = k
        BY <1>1, <2>3, <3>3
      <4>2. QED
        BY <3>2, <4>1 DEF KeyKept, EntryKept
    <3>4. CASE /\ volatile' = [volatile EXCEPT ![sub] = @ \cup {now}]
               /\ redis' = redis /\ durable' = durable
      <4>1. now \in volatile'[s]
        BY <1>1, <2>3, <3>4
      <4>2. QED
        BY <1>3, <1>4, <2>1, <2>3, <3>2, <3>4, <4>1 DEF KeyKept, EntryKept
    <3>5. QED
      BY <1>2, <3>3, <3>4
  <2>4. QED
    BY <2>2, <2>3
<1>8. ASSUME NEW c, c.sub \in Subjects, c.iat \in Nat, FoundGenuine(c), CheckSound(c)
      PROVE  FoundGenuine(c)' /\ CheckSound(c)'
  <2>1. Covers(now, c.iat)
    BY <1>1, <1>8, WholeSecondBelow DEF CheckSound, Covers
  <2>2. FoundGenuine(c)'
    BY <1>4, <1>8 DEF FoundGenuine
  <2>3. \A at \in (Revocations(c.sub))' : at \in Revocations(c.sub) \/ at = now
    BY <1>5, <1>8
  <2>4. Revocations(c.sub) # {} => (Revocations(c.sub))' # {}
    BY <1>4, <1>8 DEF Revocations
  <2>5. durable[c.sub] # {} \/ Lapsed(c.sub) => (durable[c.sub] # {} \/ Lapsed(c.sub))'
    BY <1>1, <1>4, <1>8 DEF Lapsed, Revocations
  <2>6. CheckSound(c)'
    BY <1>1, <1>8, <2>1, <2>3, <2>4, <2>5 DEF CheckSound
  <2>7. QED
    BY <2>2, <2>6
<1>9. ASSUME NEW g \in Checks PROVE (FoundGenuine(checks[g]) /\ CheckSound(checks[g]))'
  <2>1. /\ checks[g].sub \in Subjects /\ checks[g].iat \in Nat
        /\ FoundGenuine(checks[g]) /\ CheckSound(checks[g])
    BY DEF IInv, TypeOK, Times
  <2>2. checks'[g] = checks[g]
    BY <1>1
  <2>3. QED
    BY <1>8, <2>1, <2>2 DEF FoundGenuine, CheckSound, Lapsed, Revocations
<1>10. QED
  BY <1>6, <1>7, <1>9 DEF IInv

\* An entry that is swept has outlived every token it covers.
LEMMA CleanupIInv ==
  ASSUME IInv, Cleanup
  PROVE  IInv'
<1>1. /\ now \in Nat /\ MaxTTL \in Nat /\ UNCHANGED <<now, redis, checks, durable, volatile>>
      /\ entries \in [Subjects -> [revokedAt : Times, expiresAt : Nat] \cup {NoEntry}]
      /\ volatile \in [Subjects -> SUBSET Times]
      /\ entries' = [s \in Subjects |-> IF Outdated(entries[s]) THEN NoEntry ELSE entries[s]]
  BY RevocationAssumption DEF IInv, TypeOK, Times, Cleanup
<1>2. \A s \in Subjects : \/ entries'[s] = entries[s]
                          \/ entries'[s] = NoEntry /\ entries[s] # NoEntry
                               /\ now > entries[s].expiresAt
  BY <1>1 DEF Outdated
<1>3. TypeOK'
  <2>1. entries' \in [Subjects -> [revokedAt : Times, expiresAt : Nat] \cup {NoEntry}]
    BY <1>1
  <2>2. QED
    BY <1>1, <2>1 DEF IInv, TypeOK
<1>4. ASSUME NEW s \in Subjects PROVE (EntryGenuine(s) /\ KeyKept(s) /\ EntryKept(s))'
  <2>1. EntryGenuine(s) /\ KeyKept(s) /\ EntryKept(s)
    BY DEF IInv
  <2>2. EntryGenuine(s)' /\ KeyKept(s)'
    BY <1>1, <1>2, <2>1 DEF EntryGenuine, KeyKept, Revocations
  <2>3. CASE entries'[s] = entries[s]
    BY <1>1, <2>1, <2>2, <2>3 DEF EntryKept, Lapsed, Revocations
  <2>4. CASE entries'[s] = NoEntry /\ entries[s] # NoEntry /\ now > entries[s].expiresAt
    <3>1. ASSUME durable[s] = {} PROVE Lapsed(s)
      <4>1. PICK at \in volatile[s] : entries[s].expiresAt = at + MaxTTL
        BY <2>1, <2>4, <3>1 DEF EntryKept
      <4>2. at \in Nat /\ now >= at + MaxTTL
        BY <1>1, <2>4, <4>1 DEF Times
      <4>3. QED
        BY <4>1, <4>2 DEF Lapsed, Revocations
    <3>2. QED
      BY <1>1, <2>2, <2>4, <3>1 DEF EntryKept, Lapsed, Revocations
  <2>5. QED
    BY <1>2, <2>3, <2>4
<1>5. ASSUME NEW g \in Checks PROVE (FoundGenuine(checks[g]) /\ CheckSound(checks[g]))'
  BY <1>1 DEF IInv, FoundGenuine, CheckSound, Lapsed, Revocations
<1>6. QED
  BY <1>3, <1>4, <1>5 DEF IInv

\* Revocations that only the memory held are lost, the checks are over.
LEMMA RestartIInv ==
  ASSUME IInv, Restart
  PROVE  IInv'
<1>1. /\ entries' = [s \in Subjects |-> NoEntry]
      /\ checks' = [g \in Checks |-> Idle(checks[g].sub)]
      /\ volatile' = [s \in Subjects |-> {}]
      /\ UNCHANGED <<now, redis, durable>>
      /\ now \in Times /\ now' \in Times
  BY DEF Restart, IInv, TypeOK
<1>2. \A g \in Checks : checks[g].sub \in Subjects
  BY DEF IInv, TypeOK
<1>3. \A g \in Checks : /\ checks'[g] \in CheckType /\ checks'[g].pc # "found"
                        /\ FoundGenuine(checks'[g]) /\ CheckSound(checks'[g])
  BY <1>1, <1>2, IdleSound
<1>4. TypeOK'
  <2>1. checks' \in [Checks -> CheckType]
    BY <1>1, <1>3
  <2>2. QED
    BY <1>1, <1>3, <2>1 DEF IInv, TypeOK, CheckType
<1>5. \A s \in Subjects : (EntryGenuine(s) /\ KeyKept(s) /\ EntryKept(s))'
  BY <1>1 DEF IInv, EntryGenuine, KeyKept, EntryKept
<1>6. ASSUME NEW g \in Checks PROVE (FoundGenuine(checks[g]) /\ CheckSound(checks[g]))'
  <2>1. checks'[g].pc = "idle"
    BY <1>1 DEF Idle
  <2>2. QED
    BY <1>1, <1>3, <2>1 DEF FoundGenuine, CheckSound
<1>7. QED
  BY <1>4, <1>5, <1>6 DEF IInv

\* What has lapsed stays lapsed.
LEMMA TickIInv ==
  ASSUME IInv, Tick
  PROVE  IInv'
<1>1. /\ now \in Nat /\ MaxTTL \in Nat /\ now' = now + 1 /\ now' \in Times
      /\ UNCHANGED <<entries, redis, checks, durable, volatile>>
      /\ durable \in [Subjects -> SUBSET Times] /\ volatile \in [Subjects -> SUBSET Times]
  BY RevocationAssumption DEF IInv, TypeOK, Times, Tick
<1>2. TypeOK'
  BY <1>1 DEF IInv, TypeOK
<1>3. \A s \in Subjects : Lapsed(s) => Lapsed(s)'
  <2>1. \A s \in Subjects : Revocations(s) \subseteq Nat
    BY <1>1 DEF Revocations, Times
  <2>2. QED
    BY <1>1, <2>1 DEF Lapsed, Revocations
<1>4. \A s \in Subjects : (EntryGenuine(s) /\ KeyKept(s) /\ EntryKept(s))'
  BY <1>1, <1>3 DEF IInv, EntryGenuine, KeyKept, EntryKept, Revocations
<1>5. ASSUME NEW g \in Checks PROVE (FoundGenuine(checks[g]) /\ CheckSound(checks[g]))'
  <2>1. FoundGenuine(checks[g]) /\ CheckSound(checks[g]) /\ checks[g].sub \in Subjects
        /\ checks[g].iat \in Nat /\ checks'[g] = checks[g]
    BY <1>1 DEF IInv, TypeOK, Times
  <2>2. Lapsed(checks[g].sub) => Lapsed(checks[g].sub)'
    BY <1>1, <1>3, <2>1 DEF Lapsed, Revocations
  <2>3. FoundGenuine(checks[g])'
    BY <1>1, <2>1 DEF FoundGenuine
  <2>4. CheckSound(checks[g])'
    BY <1>1, <2>1, <2>2 DEF CheckSound, Revocations
  <2>5. QED
    BY <2>3, <2>4
<1>6. QED
  BY <1>2, <1>4, <1>5 DEF IInv

LEMMA NextIInv == IInv /\ [Next]_vars => IInv'
<1> SUFFICES ASSUME IInv, [Next]_vars PROVE IInv'
  OBVIOUS
<1>1. ASSUME NEW sub \in Subjects, Revoke(sub) PROVE IInv'
  BY <1>1, RevokeIInv
<1>2. ASSUME NEW g \in Checks, NEW sub \in Subjects, NEW iat \in Times, Present(g, sub, iat)
      PROVE  IInv'
  BY <1>2, PresentIInv
<1>3. ASSUME NEW g \in Checks, ReadMemory(g) PROVE IInv'
  BY <1>3, ReadMemoryIInv
<1>4. ASSUME NEW g \in Checks, ReadRedis(g) PROVE IInv'
  BY <1>4, ReadRedisIInv
<1>5. ASSUME NEW g \in Checks, Cache(g) PROVE IInv'
  BY <1>5, CacheIInv
<1>6. CASE Cleanup
  BY <1>6, CleanupIInv
<1>7. CASE Restart
  BY <1>7, RestartIInv
<1>8. CASE Tick
  BY <1>8, TickIInv
<1>9. CASE UNCHANGED vars
  BY <1>9 DEF vars, IInv, TypeOK, EntryGenuine, KeyKept, EntryKept, FoundGenuine, CheckSound,
              Lapsed, Revocations
<1>10. QED
  BY <1>1, <1>2, <1>3, <1>4, <1>5, <1>6, <1>7, <1>8, <1>9 DEF Next

LEMMA AlwaysIInv == Spec => []IInv
BY InitIInv, NextIInv, PTL DEF Spec

-------------------------------------------------------------------------------
(***************************************************************************)
(* The three steps in which a check decides.                               *)
(***************************************************************************)
LEMMA DecidingSteps ==
  ASSUME IInv, [Next]_vars, NEW g \in Checks, NEW v, Decides(g, v)
  PROVE  \/ ReadMemory(g) /\ entries[checks[g].sub] # NoEntry
         \/ ReadRedis(g)
         \/ Cache(g)
<1>1. checks'[g] # checks[g] /\ checks'[g].pc = "done"
  BY DEF Decides
<1>2. \A h \in Checks : \A c : checks' = [checks EXCEPT ![h] = c] => h = g /\ checks'[g] = c
  BY <1>1 DEF IInv, TypeOK
<1>3. ~UNCHANGED checks
  BY <1>1
<1>4. ASSUME NEW h \in Checks, NEW sub \in Subjects, NEW iat \in Times, Present(h, sub, iat)
      PROVE  FALSE
  BY <1>1, <1>2, <1>4 DEF Present
<1>5. ASSUME NEW h \in Checks, ReadMemory(h)
      PROVE  h = g /\ entries[checks[g].sub] # NoEntry
  <2>1. h = g
    BY <1>1, <1>5 DEF ReadMemory, Compare, Decide, IInv, TypeOK
  <2>2. ASSUME entries[checks[g].sub] = NoEntry PROVE FALSE
    <3>1. checks' = [checks EXCEPT ![g].pc = "missed"]
      BY <1>5, <2>1, <2>2 DEF ReadMemory
    <3>2. checks'[g].pc = "missed"
      BY <3>1 DEF IInv, TypeOK
    <3>3. QED
      BY <1>1, <3>2
  <2>3. QED
    BY <2>1, <2>2
<1>6. ASSUME NEW h \in Checks, ReadRedis(h) PROVE h = g
  BY <1>1, <1>6 DEF ReadRedis, Decide, IInv, TypeOK
<1>7. ASSUME NEW h \in Checks, Cache(h) PROVE h = g
  BY <1>1, <1>7 DEF Cache, Compare, Decide, IInv, TypeOK
<1>8. ASSUME Restart PROVE FALSE
  BY <1>1, <1>8 DEF Restart, Idle
<1>9. QED
  BY <1>3, <1>4, <1>5, <1>6, <1>7, <1>8 DEF Next, vars, Revoke, Cleanup, Tick

\* What Compare decides.
LEMMA CompareVerdict ==
  ASSUME IInv, NEW g \in Checks, NEW at, Compare(g, at), NEW v, Decides(g, v)
  PROVE  v = IF Covers(at, checks[g].iat) THEN "rejected" ELSE "admitted"
<1>1. checks'[g].verdict = IF Covers(at, checks[g].iat) THEN "rejected" ELSE "admitted"
  BY DEF Compare, Decide, IInv, TypeOK
<1>2. QED
  BY <1>1 DEF Decides

\* The map and the copy of a key are compared as some revocation would be.
LEMMA ComparedGenuine ==
  ASSUME IInv, NEW g \in Checks, NEW v, Decides(g, v),
         (ReadMemory(g) /\ entries[checks[g].sub] # NoEntry) \/ Cache(g)
  PROVE  \E at \in Revocations(checks[g].sub) :
           v = IF Covers(at, checks[g].iat) THEN "rejected" ELSE "admitted"
<1> DEFINE sub == checks[g].sub
<1>1. sub \in Subjects /\ durable \in [Subjects -> SUBSET Times]
  BY DEF IInv, TypeOK
<1>2. CASE ReadMemory(g) /\ entries[sub] # NoEntry
  <2>1. Compare(g, entries[sub].revokedAt)
    BY <1>2 DEF ReadMemory
  <2>2. PICK at \in Revocations(sub) : Unix(entries[sub].revokedAt) = Unix(at)
    BY <1>1, <1>2 DEF IInv, EntryGenuine
  <2>3. QED
    BY <2>1, <2>2, CompareVerdict DEF Covers
<1>3. CASE Cache(g)
  <2>1. Compare(g, checks[g].found) /\ checks[g].pc = "found"
    BY <1>3 DEF Cache
  <2>2. PICK at \in durable[sub] : checks[g].found = Unix(at)
    BY <2>1 DEF IInv, FoundGenuine
  <2>3. Unix(checks[g].found) = Unix(at)
    BY <1>1, <2>2, UnixBelow DEF Times
  <2>4. QED
    BY <2>1, <2>2, <2>3, CompareVerdict DEF Covers, Revocations
<1>4. QED
  BY <1>2, <1>3

(***************************************************************************)
(* The map, the Redis keys, the checks and the history keep their types; a *)
(* check that is about to copy and compare has a Redis value in hand.      *)
(***************************************************************************)
THEOREM TypeCorrect == Spec => []TypeOK
<1>1. IInv => TypeOK
  BY DEF IInv
<1>2. QED
  BY <1>1, AlwaysIInv, PTL

(***************************************************************************)
(* A token that every revocation of its subject covered when its check     *)
(* began is not admitted before its life is over, unless Redis fails to    *)
(* answer that very check: neither a restart, nor the sweep, nor the end   *)
(* of a key's life, nor a concurrent check opens a way around.             *)
(***************************************************************************)
THEOREM RevokedStaysOut == Spec => RevokedNotAdmitted
<1>1. ASSUME IInv, [Next]_vars, NEW g \in Checks,
             Decides(g, "admitted"), checks[g].firstCovered
      PROVE  Unix(now) >= checks[g].iat + MaxTTL
  <2> DEFINE c == checks[g]
             sub == checks[g].sub
  <2>1. /\ sub \in Subjects /\ c.iat \in Nat /\ now \in Nat /\ MaxTTL \in Nat
        /\ durable \in [Subjects -> SUBSET Times] /\ volatile \in [Subjects -> SUBSET Times]
        /\ CheckSound(c) /\ KeyKept(sub)
    BY <1>1, RevocationAssumption DEF IInv, TypeOK, Times
  <2>2. c.pc \in {"validated", "missed", "found"}
    BY <1>1, DecidingSteps DEF ReadMemory, ReadRedis, Cache
  <2>3. \A at \in Revocations(sub) : at \in Nat /\ Covers(at, c.iat)
    BY <1>1, <2>1, <2>2 DEF CheckSound, Revocations, Times
  <2>4. ReadRedis(g)
    <3>1. ASSUME (ReadMemory(g) /\ entries[sub] # NoEntry) \/ Cache(g) PROVE FALSE
      BY <1>1, <2>3, <3>1, ComparedGenuine
    <3>2. QED
      BY <1>1, <3>1, DecidingSteps
  <2>5. c.pc = "missed" /\ now >= redis[sub].expires
    <3>1. \/ now < redis[sub].expires /\ checks' = [checks EXCEPT
                 ![g].pc = "found", ![g].found = redis[sub].revokedAt]
          \/ now >= redis[sub].expires
          \/ Decide(g, "unchecked")
      BY <2>4 DEF ReadRedis
    <3>2. checks'[g].pc = "done" /\ checks'[g].verdict = "admitted"
      BY <1>1 DEF Decides
    <3>3. QED
      BY <1>1, <2>4, <3>1, <3>2 DEF ReadRedis, Decide, IInv, TypeOK
  <2>6. PICK at \in Revocations(sub) : now >= at + MaxTTL
    <3>1. CASE durable[sub] = {}
      BY <1>1, <2>1, <2>2, <2>5, <3>1 DEF CheckSound, Lapsed
    <3>2. CASE durable[sub] # {}
      BY <2>1, <2>5, <3>2 DEF KeyKept, Revocations
    <3>3. QED
      BY <3>1, <3>2
  <2>7. QED
    BY <2>1, <2>3, <2>6, LapsedMeansExpired
<1>2. IInv /\ [Next]_vars =>
        [\A g \in Checks :
           Decides(g, "admitted") /\ checks[g].firstCovered
             => Unix(now) >= checks[g].iat + MaxTTL]_vars
  BY <1>1
<1>3. QED
  BY <1>2, AlwaysIInv, PTL DEF Spec, RevokedNotAdmitted

(***************************************************************************)
(* A check that rejects does so for a revocation of the token's subject    *)
(* not older than the token, whether it read the map or a copy that came   *)
(* back from Redis, and whoever copied it.                                 *)
(***************************************************************************)
THEOREM RejectionsAreTrue == Spec => NoFalseRevocation
<1>1. ASSUME IInv, [Next]_vars, NEW g \in Checks, Decides(g, "rejected")
      PROVE  \E at \in Revocations(checks[g].sub) : Covers(at, checks[g].iat)
  <2>1. ASSUME ReadRedis(g) PROVE FALSE
    <3>1. checks'[g].pc = "done" /\ checks'[g].verdict = "rejected"
      BY <1>1 DEF Decides
    <3>2. QED
      BY <1>1, <2>1, <3>1 DEF ReadRedis, Decide, IInv, TypeOK
  <2>2. (ReadMemory(g) /\ entries[checks[g].sub] # NoEntry) \/ Cache(g)
    BY <1>1, <2>1, DecidingSteps
  <2>3. QED
    BY <1>1, <2>2, ComparedGenuine
<1>2. IInv /\ [Next]_vars =>
        [\A g \in Checks :
           Decides(g, "rejected") =>
             \E at \in Revocations(checks[g].sub) : Covers(at, checks[g].iat)]_vars
  BY <1>1
<1>3. QED
  BY <1>2, AlwaysIInv, PTL DEF Spec, NoFalseRevocation
===============================================================================

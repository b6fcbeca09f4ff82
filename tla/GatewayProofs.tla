----------------------------- MODULE GatewayProofs -----------------------------
(***************************************************************************)
(* Proofs about what every HTTP request to the gateway meets.              *)
(*                                                                         *)
(* First RateLimiter, for every set of clients, limit, window and clock    *)
(* bound: the type invariant, the window bound, and that the limiter       *)
(* implements Throttle.  The window bound is not inductive: it speaks of   *)
(* admissions, and whether the next one is let through depends on the      *)
(* counter.  Agrees ties the two: the counter is the length of the current *)
(* run of admissions, the run is internally close together, and a gap      *)
(* longer than the window separates it from whatever came before.          *)
(*                                                                         *)
(* Then GatewayRequest, for every finite set of requests, every allow-list *)
(* and every number of pieces: the type invariant, the accounting of the   *)
(* requests and the delivery of the responses.  What is promised of a      *)
(* request that has returned rests on what is true of it at each place on  *)
(* its way: see Delivered, Recorded and Judged.                            *)
(***************************************************************************)
EXTENDS RateLimiter, GatewayRequest, FiniteSetTheorems, SequenceTheorems, TLAPS

-------------------------------------------------------------------------------
(***************************************************************************)
(* The rate limiter.                                                       *)
(***************************************************************************)
\* The times in s never decrease and do not pass t.
Ordered(s, t) ==
  /\ \A i, j \in 1 .. Len(s) : i <= j => s[i] <= s[j]
  /\ \A i \in 1 .. Len(s) : s[i] <= t

\* The record rec describes the last rec.count admissions of s.
Describes(rec, s) ==
  LET n == Len(s)
      c == rec.count
  IN  /\ c >= 1
      /\ c <= n
      /\ rec.lastSeen = s[n]
      /\ \A j \in (n - c + 1) .. (n - 1) : s[j + 1] - s[j] <= Window
      /\ n > c => s[n - c + 1] - s[n - c] > Window

\* Nothing is remembered, and nothing needs to be at time t.
Forgotten(rec, s, t) ==
  /\ rec = NoRecord
  /\ Len(s) > 0 => t - s[Len(s)] > Window

Sparse(s) ==
  \A i \in 1 .. Len(s) : i + Cap <= Len(s) => s[i + Cap] - s[i] > Window

Agrees(rec, s, t) ==
  /\ Ordered(s, t)
  /\ Describes(rec, s) \/ Forgotten(rec, s, t)
  /\ Sparse(s)

LimiterIInv == LimiterTypeOK /\ \A ip \in IPs : Agrees(records[ip], admitted[ip], now)

-------------------------------------------------------------------------------
LEMMA CapType == Cap \in Nat /\ Cap >= 1
BY RateLimiterAssumption DEF Cap

\* What an admission at time t does to a client's history.
LEMMA AppendTime ==
  ASSUME NEW s \in Seq(0 .. MaxTime), NEW t \in 0 .. MaxTime
  PROVE  /\ Append(s, t) \in Seq(0 .. MaxTime)
         /\ Len(s) \in Nat
         /\ Len(Append(s, t)) = Len(s) + 1
         /\ Append(s, t)[Len(s) + 1] = t
         /\ \A i \in 1 .. Len(s) : Append(s, t)[i] = s[i] /\ s[i] \in Int
<1>1. \A i \in 1 .. Len(s) : s[i] \in 0 .. MaxTime
  BY ElementOfSeq
<1>2. QED
  BY <1>1, AppendProperties, LenProperties, RateLimiterAssumption

LEMMA OrderedAppend ==
  ASSUME NEW s \in Seq(0 .. MaxTime), NEW t \in 0 .. MaxTime, Ordered(s, t)
  PROVE  Ordered(Append(s, t), t)
<1> DEFINE r == Append(s, t)
<1> HIDE DEF r
<1>1. /\ Len(s) \in Nat /\ Len(r) = Len(s) + 1 /\ r[Len(s) + 1] = t
      /\ \A i \in 1 .. Len(s) : r[i] = s[i] /\ s[i] \in Int
  BY AppendTime DEF r
<1>2. \A i \in 1 .. Len(r) : i \in 1 .. Len(s) \/ i = Len(s) + 1
  BY <1>1
<1>3. \A i \in 1 .. Len(r) : r[i] <= t
  BY <1>1, <1>2 DEF Ordered
<1>4. \A i, j \in 1 .. Len(r) : i <= j => r[i] <= r[j]
  BY <1>1, <1>2, <1>3 DEF Ordered
<1>5. QED
  BY <1>3, <1>4 DEF Ordered, r

\* A client whose window is over (or who has no record) was last admitted
\* more than a window ago, if ever.
LEMMA StartMeansQuiet ==
  ASSUME NEW s \in Seq(0 .. MaxTime), NEW t \in 0 .. MaxTime,
         NEW rec \in [count : 0 .. Cap, lastSeen : 0 .. MaxTime],
         Agrees(rec, s, t),
         rec = NoRecord \/ t - rec.lastSeen > Window
  PROVE  Len(s) > 0 => t - s[Len(s)] > Window
BY CapType DEF Agrees, Describes, Forgotten, NoRecord

LEMMA OpenAgrees ==
  ASSUME NEW s \in Seq(0 .. MaxTime), NEW t \in 0 .. MaxTime,
         NEW rec \in [count : 0 .. Cap, lastSeen : 0 .. MaxTime],
         Agrees(rec, s, t),
         rec = NoRecord \/ t - rec.lastSeen > Window
  PROVE  Agrees([count |-> 1, lastSeen |-> t], Append(s, t), t)
<1> DEFINE n == Len(s)
           r == Append(s, t)
           new == [count |-> 1, lastSeen |-> t]
<1>1. Ordered(r, t)
  BY OrderedAppend DEF Agrees
<1>2. n > 0 => t - s[n] > Window
  BY StartMeansQuiet
<1>3. /\ n \in Nat /\ Len(r) = n + 1 /\ r[n + 1] = t /\ t \in Int /\ Window \in Int
      /\ \A i \in 1 .. n : r[i] = s[i] /\ s[i] \in Int
  BY AppendTime, RateLimiterAssumption
<1> HIDE DEF n, r
<1>4. Describes(new, r)
  BY <1>2, <1>3 DEF Describes
<1>5. Sparse(r)
  <2> SUFFICES ASSUME NEW i \in 1 .. Len(r), i + Cap <= Len(r)
               PROVE  r[i + Cap] - r[i] > Window
    BY DEF Sparse
  <2>1. CASE i + Cap <= n
    <3>1. i \in 1 .. n /\ i + Cap \in 1 .. n
      BY <2>1, <1>3, CapType
    <3>2. s[i + Cap] - s[i] > Window
      BY <2>1, <3>1 DEF Agrees, Sparse, n
    <3>3. QED
      BY <1>3, <3>1, <3>2
  <2>2. CASE i + Cap = n + 1
    <3>1. i \in 1 .. n /\ n \in 1 .. n /\ i <= n
      BY <1>3, <2>2, CapType
    <3>2. s[i] <= s[n]
      BY <3>1 DEF Agrees, Ordered, n
    <3>3. r[i + Cap] = t /\ r[i] = s[i] /\ s[i] \in Int /\ s[n] \in Int
      BY <2>2, <3>1, <1>3
    <3>4. QED
      BY <1>2, <1>3, <3>1, <3>2, <3>3
  <2>3. QED
    BY <2>1, <2>2, <1>3, CapType
<1>6. QED
  BY <1>1, <1>4, <1>5 DEF Agrees, r

LEMMA CountAgrees ==
  ASSUME NEW s \in Seq(0 .. MaxTime), NEW t \in 0 .. MaxTime,
         NEW rec \in [count : 0 .. Cap, lastSeen : 0 .. MaxTime],
         Agrees(rec, s, t),
         rec # NoRecord, ~(t - rec.lastSeen > Window), rec.count < Limit
  PROVE  Agrees([count |-> rec.count + 1, lastSeen |-> t], Append(s, t), t)
<1> DEFINE n == Len(s)
           c == rec.count
           r == Append(s, t)
           new == [count |-> c + 1, lastSeen |-> t]
<1>1. Ordered(r, t)
  BY OrderedAppend DEF Agrees
<1>2. Describes(rec, s) /\ Cap = Limit /\ c \in Nat
  BY CapType, RateLimiterAssumption DEF Agrees, Forgotten, Cap
<1>3. /\ n \in Nat /\ Len(r) = n + 1 /\ r[n + 1] = t /\ t \in Int /\ Window \in Int
      /\ \A i \in 1 .. n : r[i] = s[i] /\ s[i] \in Int
  BY AppendTime, RateLimiterAssumption
<1>4. /\ c >= 1 /\ c <= n /\ c + 1 <= Cap /\ t - s[n] <= Window
      /\ \A j \in (n - c + 1) .. (n - 1) : s[j + 1] - s[j] <= Window
      /\ n > c => s[n - c + 1] - s[n - c] > Window
  BY <1>2, <1>3, CapType DEF Describes
<1>5. \A i, j \in 1 .. n : i <= j => s[i] <= s[j]
  BY DEF Agrees, Ordered
<1>6. \A i \in 1 .. n : s[i] <= t
  BY DEF Agrees, Ordered
<1>7. \A i \in 1 .. n : i + Cap <= n => s[i + Cap] - s[i] > Window
  BY DEF Agrees, Sparse
<1> HIDE DEF n, r, c
<1>8. Describes(new, r)
  <2>1. \A j \in (n + 1 - (c + 1) + 1) .. (n + 1 - 1) : r[j + 1] - r[j] <= Window
    <3> SUFFICES ASSUME NEW j \in (n - c + 1) .. n
                 PROVE  r[j + 1] - r[j] <= Window
      BY <1>2, <1>3
    <3>1. CASE j = n
      BY <3>1, <1>2, <1>3, <1>4
    <3>2. CASE j # n
      BY <3>2, <1>2, <1>3, <1>4
    <3>3. QED
      BY <3>1, <3>2
  <2>2. n + 1 > c + 1 => r[n + 1 - (c + 1) + 1] - r[n + 1 - (c + 1)] > Window
    <3> SUFFICES ASSUME n > c
                 PROVE  r[n - c + 1] - r[n - c] > Window
      BY <1>2, <1>3
    <3>1. n - c \in 1 .. n /\ n - c + 1 \in 1 .. n
      BY <1>2, <1>3, <1>4
    <3>2. QED
      BY <3>1, <1>3, <1>4
  <2>3. QED
    BY <1>2, <1>3, <1>4, <2>1, <2>2 DEF Describes
<1>9. Sparse(r)
  <2> SUFFICES ASSUME NEW i \in 1 .. Len(r), i + Cap <= Len(r)
               PROVE  r[i + Cap] - r[i] > Window
    BY DEF Sparse
  <2>1. CASE i + Cap <= n
    <3>1. i \in 1 .. n /\ i + Cap \in 1 .. n
      BY <2>1, <1>3, CapType
    <3>2. QED
      BY <2>1, <3>1, <1>3, <1>7
  <2>2. CASE i + Cap = n + 1
    <3>1. i \in 1 .. n /\ n - c \in 1 .. n /\ n - c + 1 \in 1 .. n /\ i <= n - c /\ n > c
      BY <1>2, <1>3, <1>4, <2>2, CapType
    <3>2. s[n - c + 1] - s[n - c] > Window /\ s[i] <= s[n - c] /\ s[n - c + 1] <= t
      BY <1>4, <1>5, <1>6, <3>1
    <3>3. r[i + Cap] = t /\ r[i] = s[i]
      BY <2>2, <3>1, <1>3
    <3>4. s[i] \in Int /\ s[n - c] \in Int /\ s[n - c + 1] \in Int
      BY <3>1, <1>3
    <3>5. QED
      BY <3>2, <3>3, <3>4, <1>3, SMTT(30)
  <2>3. QED
    BY <2>1, <2>2, <1>3, CapType
<1>10. QED
  BY <1>1, <1>8, <1>9 DEF Agrees, r, c

\* The history's agreement with the table survives the passing of time.
LEMMA TickAgrees ==
  ASSUME NEW s \in Seq(0 .. MaxTime), NEW t \in 0 .. MaxTime,
         NEW rec \in [count : 0 .. Cap, lastSeen : 0 .. MaxTime],
         Agrees(rec, s, t)
  PROVE  Agrees(rec, s, t + 1)
<1>1. t \in Int /\ Window \in Int /\ Len(s) \in Nat /\ \A i \in 1 .. Len(s) : s[i] \in Int
  BY AppendTime, RateLimiterAssumption
<1>2. Ordered(s, t + 1)
  BY <1>1 DEF Agrees, Ordered
<1>3. Forgotten(rec, s, t) => Forgotten(rec, s, t + 1)
  BY <1>1 DEF Forgotten
<1>4. QED
  BY <1>2, <1>3 DEF Agrees

LEMMA CleanupAgrees ==
  ASSUME NEW s \in Seq(0 .. MaxTime), NEW t \in 0 .. MaxTime,
         NEW rec \in [count : 0 .. Cap, lastSeen : 0 .. MaxTime],
         Agrees(rec, s, t),
         t - rec.lastSeen > Window
  PROVE  Agrees(NoRecord, s, t)
BY StartMeansQuiet DEF Agrees, Forgotten

-------------------------------------------------------------------------------
LEMMA InitLimiterIInv == LimiterInit => LimiterIInv
<1> SUFFICES ASSUME LimiterInit PROVE LimiterIInv
  OBVIOUS
<1>1. LimiterTypeOK
  BY RateLimiterAssumption, CapType, EmptySeq DEF LimiterInit, LimiterTypeOK, NoRecord
<1>2. ASSUME NEW ip \in IPs
      PROVE  Agrees(records[ip], admitted[ip], now)
  <2>1. admitted[ip] = <<>> /\ records[ip] = NoRecord /\ Len(<<>>) = 0
    BY DEF LimiterInit
  <2>2. QED
    BY <2>1 DEF Agrees, Ordered, Forgotten, Sparse
<1>3. QED
  BY <1>1, <1>2 DEF LimiterIInv

\* A step that admits one client's request and leaves the others alone.
LEMMA AdmitLimiterIInv ==
  ASSUME LimiterIInv, NEW ip \in IPs, NEW k \in 1 .. Cap, Admit(ip, k),
         Agrees([count |-> k, lastSeen |-> now], Append(admitted[ip], now), now)
  PROVE  LimiterIInv'
<1>1. now \in 0 .. MaxTime /\ now' = now
  BY DEF LimiterIInv, LimiterTypeOK, Admit
<1>2. Append(admitted[ip], now) \in Seq(0 .. MaxTime)
  BY <1>1, AppendTime DEF LimiterIInv, LimiterTypeOK
<1>3. LimiterTypeOK'
  <2>1. records' \in [IPs -> [count : 0 .. Cap, lastSeen : 0 .. MaxTime]]
    BY <1>1, CapType DEF LimiterIInv, LimiterTypeOK, Admit
  <2>2. admitted' \in [IPs -> Seq(0 .. MaxTime)]
    BY <1>2 DEF LimiterIInv, LimiterTypeOK, Admit
  <2>3. verdict' \in [IPs -> {"none", "allowed", "denied"}]
    BY DEF LimiterIInv, LimiterTypeOK, Admit
  <2>4. QED
    BY <1>1, <2>1, <2>2, <2>3 DEF LimiterTypeOK
<1>4. ASSUME NEW q \in IPs
      PROVE  Agrees(records'[q], admitted'[q], now')
  <2>1. CASE q = ip
    BY <1>1, <2>1 DEF LimiterIInv, LimiterTypeOK, Admit
  <2>2. CASE q # ip
    BY <1>1, <2>2 DEF LimiterIInv, LimiterTypeOK, Admit
  <2>3. QED
    BY <2>1, <2>2
<1>5. QED
  BY <1>3, <1>4 DEF LimiterIInv

LEMMA NextLimiterIInv == LimiterIInv /\ [LimiterNext]_limiterVars => LimiterIInv'
<1> SUFFICES ASSUME LimiterIInv, [LimiterNext]_limiterVars PROVE LimiterIInv'
  OBVIOUS
<1>1. /\ now \in 0 .. MaxTime
      /\ \A ip \in IPs : /\ records[ip] \in [count : 0 .. Cap, lastSeen : 0 .. MaxTime]
                         /\ admitted[ip] \in Seq(0 .. MaxTime)
                         /\ Agrees(records[ip], admitted[ip], now)
  BY DEF LimiterIInv, LimiterTypeOK
<1>2. ASSUME NEW ip \in IPs, OpenWindow(ip)
      PROVE  LimiterIInv'
  <2>1. Agrees([count |-> 1, lastSeen |-> now], Append(admitted[ip], now), now)
    BY <1>1, <1>2, OpenAgrees DEF OpenWindow, StartsWindow, Stale
  <2>2. QED
    BY <1>2, <2>1, AdmitLimiterIInv, CapType DEF OpenWindow
<1>3. ASSUME NEW ip \in IPs, CountInWindow(ip)
      PROVE  LimiterIInv'
  <2>1. Agrees([count |-> records[ip].count + 1, lastSeen |-> now],
               Append(admitted[ip], now), now)
    BY <1>1, <1>3, CountAgrees DEF CountInWindow, StartsWindow, Stale
  <2>2. records[ip].count + 1 \in 1 .. Cap
    BY <1>1, <1>3, RateLimiterAssumption, CapType DEF CountInWindow, Cap
  <2>3. QED
    BY <1>3, <2>1, <2>2, AdmitLimiterIInv DEF CountInWindow
<1>4. ASSUME NEW ip \in IPs, Deny(ip)
      PROVE  LimiterIInv'
  BY <1>4 DEF Deny, LimiterIInv, LimiterTypeOK
<1>5. CASE Cleanup
  <2>1. LimiterTypeOK'
    BY <1>5, CapType, RateLimiterAssumption DEF Cleanup, LimiterIInv, LimiterTypeOK, NoRecord
  <2>2. ASSUME NEW ip \in IPs
        PROVE  Agrees(records'[ip], admitted'[ip], now')
    <3>1. CASE Stale(records[ip])
      BY <1>1, <1>5, <3>1, CleanupAgrees DEF Cleanup, Stale
    <3>2. CASE ~Stale(records[ip])
      BY <1>1, <1>5, <3>2 DEF Cleanup
    <3>3. QED
      BY <3>1, <3>2
  <2>3. QED
    BY <2>1, <2>2 DEF LimiterIInv
<1>6. CASE Tick
  <2>1. LimiterTypeOK'
    BY <1>6, RateLimiterAssumption DEF Tick, LimiterIInv, LimiterTypeOK
  <2>2. ASSUME NEW ip \in IPs
        PROVE  Agrees(records'[ip], admitted'[ip], now')
    BY <1>1, <1>6, TickAgrees DEF Tick
  <2>3. QED
    BY <2>1, <2>2 DEF LimiterIInv
<1>7. CASE UNCHANGED limiterVars
  BY <1>7 DEF limiterVars, LimiterIInv, LimiterTypeOK
<1>8. QED
  BY <1>2, <1>3, <1>4, <1>5, <1>6, <1>7 DEF LimiterNext, Allow

LEMMA AlwaysLimiterIInv == LimiterSpec => []LimiterIInv
BY InitLimiterIInv, NextLimiterIInv, PTL DEF LimiterSpec

(***************************************************************************)
(* The limiter's table is well typed and no counter passes the limit, for  *)
(* every limit the environment may supply.                                 *)
(***************************************************************************)
THEOREM LimiterTypeCorrect == LimiterSpec => []LimiterTypeOK
<1>1. LimiterIInv => LimiterTypeOK
  BY DEF LimiterIInv
<1>2. QED
  BY AlwaysLimiterIInv, <1>1, PTL

(***************************************************************************)
(* No window of the configured length, wherever it starts, sees more than  *)
(* Cap admitted requests of one client (RateLimiter.Allow).                *)
(***************************************************************************)
THEOREM WindowBounded == LimiterSpec => []WindowBound
<1>1. LimiterIInv => WindowBound
  BY DEF LimiterIInv, Agrees, Sparse, WindowBound
<1>2. QED
  BY AlwaysLimiterIInv, <1>1, PTL

-------------------------------------------------------------------------------
\* With a record that opens no new window, Allow refuses exactly the trains.
LEMMA CountersDecide ==
  ASSUME LimiterIInv, NEW ip \in IPs
  PROVE  Promise!Train(ip) <=> ~StartsWindow(ip) /\ records[ip].count >= Limit
<1> DEFINE s == admitted[ip]
           n == Len(s)
           rec == records[ip]
           c == rec.count
<1>1. /\ now \in 0 .. MaxTime /\ Window \in Int /\ n \in Nat /\ c \in 0 .. Cap
      /\ \A i \in 1 .. n : s[i] \in Int
      /\ rec \in [count : 0 .. Cap, lastSeen : 0 .. MaxTime] /\ s \in Seq(0 .. MaxTime)
      /\ Agrees(rec, s, now)
  BY AppendTime, RateLimiterAssumption DEF LimiterIInv, LimiterTypeOK
<1>2. Promise!Train(ip) <=> /\ n >= Cap
                            /\ now - s[n] <= Window
                            /\ \A j \in (n - Cap + 1) .. (n - 1) : s[j + 1] - s[j] <= Window
  BY DEF Promise!Train
<1>3. CASE StartsWindow(ip)
  <2>1. n > 0 => now - s[n] > Window
    BY <1>1, <1>3, StartMeansQuiet DEF StartsWindow, Stale
  <2>2. n >= Cap => n > 0
    BY <1>1, CapType
  <2>3. n > 0 => s[n] \in Int
    BY <1>1
  <2>4. QED
    BY <1>1, <1>2, <1>3, <2>1, <2>2, <2>3
<1>4. CASE ~StartsWindow(ip)
  <2>1. now - rec.lastSeen <= Window /\ rec # NoRecord
    BY <1>1, <1>4 DEF StartsWindow, Stale
  <2>2. Describes(rec, s)
    BY <1>1, <2>1 DEF Agrees, Forgotten
  <2>3. /\ c >= 1 /\ c <= n /\ now - s[n] <= Window
        /\ \A j \in (n - c + 1) .. (n - 1) : s[j + 1] - s[j] <= Window
        /\ n > c => s[n - c + 1] - s[n - c] > Window
    BY <2>1, <2>2 DEF Describes
  <2> HIDE DEF s, n, rec, c
  <2>4. CASE c >= Limit
    <3>1. c = Cap
      BY <1>1, <2>3, <2>4, RateLimiterAssumption, CapType DEF Cap
    <3>2. QED
      BY <1>1, <1>2, <1>4, <2>3, <2>4, <3>1 DEF c, rec
  <2>5. CASE ~(c >= Limit)
    <3>1. c < Cap
      BY <1>1, <2>5, RateLimiterAssumption, CapType DEF Cap
    <3>2. CASE n = c
      BY <1>1, <1>2, <2>5, <3>1, <3>2, CapType DEF c, rec
    <3>3. CASE n > c
      <4>1. n >= Cap => (n - c) \in (n - Cap + 1) .. (n - 1)
        BY <1>1, <2>3, <3>1, CapType
      <4>2. s[n - c + 1] \in Int /\ s[n - c] \in Int
        BY <1>1, <2>3, <3>3
      <4>3. ~Promise!Train(ip)
        BY <1>1, <1>2, <2>3, <3>3, <4>1, <4>2
      <4>4. QED
        BY <2>5, <4>3 DEF c, rec
    <3>4. QED
      BY <1>1, <2>3, <3>2, <3>3
  <2>6. QED
    BY <2>4, <2>5
<1>5. QED
  BY <1>3, <1>4

LEMMA StepRefines == LimiterIInv /\ [LimiterNext]_limiterVars => [Promise!Next]_(Promise!vars)
<1> SUFFICES ASSUME LimiterIInv, [LimiterNext]_limiterVars PROVE [Promise!Next]_(Promise!vars)
  OBVIOUS
<1>1. ASSUME NEW ip \in IPs, OpenWindow(ip)
      PROVE  Promise!Admit(ip)
  BY <1>1, CountersDecide DEF OpenWindow, Admit, Promise!Admit
<1>2. ASSUME NEW ip \in IPs, CountInWindow(ip)
      PROVE  Promise!Admit(ip)
  <2>1. ~(records[ip].count >= Limit)
    BY <1>2, RateLimiterAssumption, CapType DEF CountInWindow, LimiterIInv, LimiterTypeOK
  <2>2. QED
    BY <1>2, <2>1, CountersDecide DEF CountInWindow, Admit, Promise!Admit
<1>3. ASSUME NEW ip \in IPs, Deny(ip)
      PROVE  Promise!Refuse(ip)
  BY <1>3, CountersDecide DEF Deny, Promise!Refuse
<1>4. CASE Cleanup
  BY <1>4 DEF Cleanup, Promise!vars
<1>5. CASE Tick
  BY <1>5 DEF Tick, Promise!Next, Promise!Tick
<1>6. CASE UNCHANGED limiterVars
  BY <1>6 DEF limiterVars, Promise!vars
<1>7. QED
  BY <1>1, <1>2, <1>3, <1>4, <1>5, <1>6 DEF LimiterNext, Allow, Promise!Next

(***************************************************************************)
(* The limiter implements Throttle: clients cannot tell the counters and   *)
(* their cleanup from the history of their admissions.                     *)
(***************************************************************************)
THEOREM RefinesThrottle == LimiterSpec => ImplementsThrottle
<1>1. LimiterInit => Promise!Init
  BY DEF LimiterInit, Promise!Init
<1>2. QED
  BY <1>1, StepRefines, AlwaysLimiterIInv, PTL DEF LimiterSpec, ImplementsThrottle, Promise!Spec

-------------------------------------------------------------------------------
(***************************************************************************)
(* The requests.                                                           *)
(***************************************************************************)
Places == Inside \cup {"none", "gone", "aborted", "dropped"}
Servers == {"serving", "draining", "drained", "closing", "exited"}

Writers == [seen : Nat, code : Nat, body : Seq(Int),
            status : Nat, passthrough : BOOLEAN, buf : Seq(Int)]

RequestTypes ==
  /\ at \in [Requests -> Places]
  /\ path \in [Requests -> Paths]
  /\ writer \in [Requests -> Writers]
  /\ sent \in [Requests -> Nat]
  /\ scannable \in [Requests -> BOOLEAN]
  /\ hijacked \in [Requests -> BOOLEAN]
  /\ strikes \in [Requests -> Nat] /\ clears \in [Requests -> Nat]
  /\ audit \in [Requests -> Seq(Nat)]
  /\ server \in Servers /\ timedOut \in BOOLEAN /\ redis \in BOOLEAN
  /\ activeConns \in Int
  /\ requestsTotal \in [Counted -> Nat]

-------------------------------------------------------------------------------
\* Nothing has been answered, but for an informational reply.
Fresh == {"none", "origin", "guard", "endpoint", "limit", "auth", "mux", "tunnel", "backend"}

\* Everything has been answered.
Answered == {"returning", "counting", "creating", "gone"}

Numbered(n) == [i \in 1 .. n |-> i]

\* The pieces are all held back, or have all been passed on.
Flowing(w, n) ==
  IF w.passthrough THEN w.body = Numbered(n) /\ w.buf = <<>>
                   ELSE w.body = <<>> /\ w.buf = Numbered(n)

Complete(w, n) ==
  w.buf = <<>> /\ w.body \in {Numbered(n), SanitizeOutput(Numbered(n))}

\* The response of a request that is at a, of n pieces, scannable if s.
Delivered(a, w, n, s) ==
  /\ a \in Fresh => n = 0 /\ w.seen \in {0, Interim} /\ (w.passthrough => w.seen = Interim)
  /\ a \notin Answered \cup {"dropped"} => Flowing(w, n)
  /\ a \in Answered => Complete(w, n)
  /\ a = "dropped" => Flowing(w, n) \/ Complete(w, n)
  /\ a = "reply" /\ s /\ w.passthrough => w.seen = Interim \/ n > MaxScan

\* What is recorded of a request at a, on path p, that became a tunnel if h.
Recorded(a, p, w, h, log) ==
  /\ w.seen \in {Interim, w.code} /\ w.code # Interim
  /\ a \in {"reply", "scanned"} => w.status # Interim
  /\ a = "gone" /\ ~h => w.seen # 0
  /\ a \in Fresh \cup {"reply", "scanned", "returning"} => log = <<>>
  /\ a \in {"counting", "creating", "gone"} /\ p # "probe" =>
       log = <<IF w.seen = 0 THEN 200 ELSE w.seen>>

\* What the guard is told, before and after the authentication.
Judged(a, k, c) ==
  /\ a \in {"none", "origin", "guard", "endpoint", "limit", "auth"} => k = 0 /\ c = 0
  /\ k + c <= 1

RequestInv(r) ==
  /\ Delivered(at[r], writer[r], sent[r], scannable[r])
  /\ Recorded(at[r], path[r], writer[r], hijacked[r], audit[r])
  /\ Judged(at[r], strikes[r], clears[r])

Gauged == activeConns = Cardinality({r \in Requests : at[r] \in Inside \cup {"dropped"}})

\* After the drain only tunnels and what the drain did not wait for are left.
Drained ==
  /\ ~redis => server \in {"closing", "exited"}
  /\ server \in {"drained", "closing", "exited"} =>
       \A r \in Requests : at[r] \in Inside \cup {"dropped"} => hijacked[r] \/ timedOut
  /\ server # "exited" => \A r \in Requests : at[r] # "dropped"

RequestIInv == RequestTypes /\ (\A r \in Requests : RequestInv(r)) /\ Gauged /\ CountedOnce /\ Drained

-------------------------------------------------------------------------------
(***************************************************************************)
(* Pieces and response writers.                                            *)
(***************************************************************************)
LEMMA NumberedPieces ==
  ASSUME NEW n \in Nat
  PROVE  /\ Numbered(n) \in Seq(Int) /\ Len(Numbered(n)) = n
         /\ Append(Numbered(n), n + 1) = Numbered(n + 1)
         /\ \A i \in 1 .. n : Numbered(n)[i] = i
<1>1. /\ Numbered(n) \in Seq(Int) /\ Len(Numbered(n)) = n
      /\ \A i \in 1 .. n : Numbered(n)[i] = i
  BY DEF Numbered
<1>2. /\ Numbered(n + 1) \in Seq(Int) /\ Len(Numbered(n + 1)) = n + 1
      /\ \A i \in 1 .. n + 1 : Numbered(n + 1)[i] = i
  BY DEF Numbered
<1>3. /\ Append(Numbered(n), n + 1) \in Seq(Int)
      /\ Len(Append(Numbered(n), n + 1)) = n + 1
      /\ \A i \in 1 .. n + 1 : Append(Numbered(n), n + 1)[i] = i
  BY <1>1, AppendProperties
<1>4. Append(Numbered(n), n + 1) = Numbered(n + 1)
  BY <1>2, <1>3, SeqEqual
<1>5. QED
  BY <1>1, <1>4

LEMMA NoPieces == Numbered(0) = <<>> /\ SanitizeOutput(<<>>) = <<>>
BY DEF Numbered, SanitizeOutput

LEMMA SanitizedPieces ==
  ASSUME NEW s \in Seq(Int)
  PROVE  /\ SanitizeOutput(s) \in Seq(Int) /\ Len(SanitizeOutput(s)) = Len(s)
         /\ \A i \in 1 .. Len(s) : SanitizeOutput(s)[i] = -s[i]
BY SMTT(30) DEF SanitizeOutput

LEMMA SendHeaderIs ==
  ASSUME NEW w \in Writers, NEW code \in Nat
  PROVE  /\ SendHeader(w, code) \in Writers
         /\ SendHeader(w, code).seen = IF w.seen = 0 THEN code ELSE w.seen
         /\ SendHeader(w, code).code = IF w.code = 0 /\ code # Interim THEN code ELSE w.code
         /\ SendHeader(w, code).body = w.body /\ SendHeader(w, code).buf = w.buf
         /\ SendHeader(w, code).status = w.status
         /\ SendHeader(w, code).passthrough = w.passthrough
BY DEF SendHeader, Writers

LEMMA SendBytesIs ==
  ASSUME NEW w \in Writers, NEW pieces \in Seq(Int)
  PROVE  /\ SendBytes(w, pieces) \in Writers
         /\ SendBytes(w, pieces).seen = IF w.seen = 0 THEN 200 ELSE w.seen
         /\ SendBytes(w, pieces).code = IF w.code = 0 THEN 200 ELSE w.code
         /\ SendBytes(w, pieces).body = w.body \o pieces
         /\ SendBytes(w, pieces).buf = w.buf
         /\ SendBytes(w, pieces).status = w.status
         /\ SendBytes(w, pieces).passthrough = w.passthrough
<1> DEFINE c == w.body \o pieces
           x == IF w.seen = 0 THEN 200 ELSE w.seen
           y == IF w.code = 0 THEN 200 ELSE w.code
           v == [w EXCEPT !.seen = x, !.code = y, !.body = c]
<1>1. c \in Seq(Int)
  BY ConcatProperties DEF Writers
<1>2. x \in Nat /\ y \in Nat
  BY DEF Writers
<1>3. SendBytes(w, pieces) = v
  BY DEF SendBytes
<1> HIDE DEF c, x, y
<1>4. v \in Writers
  BY <1>1, <1>2 DEF Writers
<1>5. v.seen = x /\ v.code = y /\ v.body = c
  BY <1>1, <1>2 DEF Writers
<1>6. v.buf = w.buf /\ v.status = w.status /\ v.passthrough = w.passthrough
  BY <1>1, <1>2 DEF Writers
<1> HIDE DEF v
<1>7. QED
  BY <1>3, <1>4, <1>5, <1>6 DEF c, x, y

LEMMA WriteHeaderIs ==
  ASSUME NEW w \in Writers, NEW code \in Nat, NEW s \in BOOLEAN
  PROVE  LET v == WriteHeader(w, code, s)
         IN  /\ v \in Writers /\ v.body = w.body /\ v.buf = w.buf
             /\ s => v.seen = w.seen /\ v.code = w.code /\ v.passthrough = w.passthrough
             /\ ~s => /\ v.seen = IF w.seen = 0 THEN code ELSE w.seen
                      /\ v.code = IF w.code = 0 /\ code # Interim THEN code ELSE w.code
                      /\ v.passthrough
             /\ v.status = code
<1> DEFINE noted == [w EXCEPT !.status = code]
<1>1. /\ noted \in Writers /\ noted.body = w.body /\ noted.buf = w.buf
      /\ noted.seen = w.seen /\ noted.code = w.code /\ noted.passthrough = w.passthrough
      /\ noted.status = code
  BY DEF Writers
<1> HIDE DEF noted
<1>2. CASE s
  BY <1>1, <1>2 DEF WriteHeader, noted
<1>3. CASE ~s
  <2>1. WriteHeader(w, code, s) = [SendHeader(noted, code) EXCEPT !.passthrough = TRUE]
    BY <1>3 DEF WriteHeader, noted
  <2>2. /\ SendHeader(noted, code) \in Writers
        /\ SendHeader(noted, code).seen = IF w.seen = 0 THEN code ELSE w.seen
        /\ SendHeader(noted, code).code = IF w.code = 0 /\ code # Interim THEN code ELSE w.code
        /\ SendHeader(noted, code).body = w.body /\ SendHeader(noted, code).buf = w.buf
        /\ SendHeader(noted, code).status = code
    BY <1>1, SendHeaderIs
  <2> DEFINE h == SendHeader(noted, code)
  <2> HIDE DEF h
  <2>3. [h EXCEPT !.passthrough = TRUE] \in Writers
    BY <2>2 DEF Writers, h
  <2>4. /\ [h EXCEPT !.passthrough = TRUE].passthrough
        /\ [h EXCEPT !.passthrough = TRUE].seen = h.seen
        /\ [h EXCEPT !.passthrough = TRUE].code = h.code
        /\ [h EXCEPT !.passthrough = TRUE].body = h.body
        /\ [h EXCEPT !.passthrough = TRUE].buf = h.buf
        /\ [h EXCEPT !.passthrough = TRUE].status = h.status
    BY <2>2 DEF Writers, h
  <2>5. QED
    BY <1>3, <2>1, <2>2, <2>3, <2>4 DEF h
<1>4. QED
  BY <1>2, <1>3

\* captureWriter.Write passes the piece on if it passes things on, or if the buffer is full.
Written(w, piece, v) ==
  /\ v \in Writers /\ v.status = w.status
  /\ w.passthrough => /\ v.passthrough /\ v.buf = w.buf
                      /\ v.body = w.body \o <<piece>>
  /\ ~w.passthrough /\ v.passthrough => /\ Len(w.buf) >= MaxScan /\ v.buf = <<>>
                                        /\ v.body = w.body \o Append(w.buf, piece)
  /\ ~v.passthrough => v.buf = Append(w.buf, piece) /\ v.body = w.body
  /\ w.seen \in {Interim, w.code} => v.seen \in {Interim, v.code}
  /\ w.code # Interim /\ w.status # Interim => v.code # Interim
  /\ w.seen = Interim => v.seen = Interim

LEMMA WriteIs ==
  ASSUME NEW w \in Writers, NEW piece \in Nat
  PROVE  Written(w, piece, Write(w, piece))
<1> DEFINE some == <<piece>>
           all  == Append(w.buf, piece)
<1>1. /\ w.body \in Seq(Int) /\ w.buf \in Seq(Int) /\ w.status \in Nat
      /\ w.passthrough \in BOOLEAN /\ Len(w.buf) \in Nat /\ MaxScan \in Nat
  BY OutputScannerAssumption DEF Writers
<1>2. some \in Seq(Int) /\ all \in Seq(Int)
  BY <1>1, AppendProperties
<1> HIDE DEF some, all
<1>3. CASE w.passthrough
  <2> DEFINE v == SendBytes(w, some)
  <2>1. Write(w, piece) = v
    BY <1>3 DEF Write, some
  <2>2. /\ v \in Writers /\ v.body = w.body \o some /\ v.buf = w.buf
        /\ v.passthrough = w.passthrough /\ v.status = w.status
        /\ v.seen = IF w.seen = 0 THEN 200 ELSE w.seen
        /\ v.code = IF w.code = 0 THEN 200 ELSE w.code
    BY <1>2, SendBytesIs
  <2> HIDE DEF v
  <2>3. /\ w.seen \in {Interim, w.code} => v.seen \in {Interim, v.code}
        /\ w.code # Interim => v.code # Interim
        /\ w.seen = Interim => v.seen = Interim
    BY <2>2 DEF Interim
  <2>4. QED
    BY <1>3, <2>1, <2>2, <2>3 DEF Written, some
<1>4. CASE ~w.passthrough /\ Len(w.buf) < MaxScan
  <2> DEFINE v == [w EXCEPT !.buf = all]
  <2>1. Write(w, piece) = v
    BY <1>4 DEF Write, all
  <2>2. /\ v \in Writers /\ v.buf = all /\ v.body = w.body /\ v.passthrough = w.passthrough
        /\ v.seen = w.seen /\ v.code = w.code /\ v.status = w.status
    BY <1>2 DEF Writers
  <2> HIDE DEF v
  <2>3. QED
    BY <1>4, <2>1, <2>2 DEF Written, all
<1>5. CASE ~w.passthrough /\ ~(Len(w.buf) < MaxScan)
  <2> DEFINE h == SendHeader(w, w.status)
             b == SendBytes(h, all)
             v == [b EXCEPT !.passthrough = TRUE, !.buf = <<>>]
  <2>1. Write(w, piece) = v
    BY <1>5 DEF Write, all
  <2>2. /\ h \in Writers /\ h.body = w.body /\ h.status = w.status
        /\ h.seen = IF w.seen = 0 THEN w.status ELSE w.seen
        /\ h.code = IF w.code = 0 /\ w.status # Interim THEN w.status ELSE w.code
    BY <1>1, SendHeaderIs
  <2> HIDE DEF h
  <2>3. /\ b \in Writers /\ b.body = h.body \o all /\ b.status = h.status
        /\ b.seen = IF h.seen = 0 THEN 200 ELSE h.seen
        /\ b.code = IF h.code = 0 THEN 200 ELSE h.code
    BY <1>2, <2>2, SendBytesIs
  <2> HIDE DEF b
  <2>4. <<>> \in Seq(Int)
    OBVIOUS
  <2>5. /\ v \in Writers /\ v.passthrough /\ v.buf = <<>> /\ v.body = b.body
        /\ v.seen = b.seen /\ v.code = b.code /\ v.status = b.status
    BY <2>3, <2>4 DEF Writers
  <2> HIDE DEF v
  <2>6. Len(w.buf) >= MaxScan
    BY <1>1, <1>5
  <2>7. v.body = w.body \o all /\ v.status = w.status
    BY <2>2, <2>3, <2>5
  <2>8. /\ w.seen \in {Interim, w.code} => v.seen \in {Interim, v.code}
        /\ w.code # Interim /\ w.status # Interim => v.code # Interim
        /\ w.seen = Interim => v.seen = Interim
    BY <2>2, <2>3, <2>5 DEF Interim
  <2>9. QED
    BY <1>5, <2>1, <2>5, <2>6, <2>7, <2>8 DEF Written, all
<1>6. QED
  BY <1>1, <1>3, <1>4, <1>5

LEMMA WriteFlows ==
  ASSUME NEW w \in Writers, NEW n \in Nat, NEW v, Flowing(w, n), Written(w, n + 1, v)
  PROVE  /\ Flowing(v, n + 1)
         /\ v.passthrough => w.passthrough \/ n + 1 > MaxScan
<1>1. /\ Numbered(n) \in Seq(Int) /\ Len(Numbered(n)) = n
      /\ Append(Numbered(n), n + 1) = Numbered(n + 1)
      /\ Numbered(n + 1) \in Seq(Int)
  BY NumberedPieces
<1>2. Numbered(n) \o <<n + 1>> = Numbered(n + 1)
  <2>1. n + 1 \in Int
    OBVIOUS
  <2>2. Append(Numbered(n), n + 1) = Numbered(n) \o <<n + 1>>
    BY <1>1, <2>1, AppendIsConcat
  <2>3. QED
    BY <1>1, <2>2
<1>3. <<>> \o Numbered(n + 1) = Numbered(n + 1)
  BY <1>1, ConcatEmptySeq
<1>4. CASE w.passthrough
  <2>1. w.body = Numbered(n) /\ w.buf = <<>>
    BY <1>4 DEF Flowing
  <2>2. QED
    BY <1>2, <1>4, <2>1 DEF Flowing, Written
<1>5. CASE ~w.passthrough
  <2>1. w.body = <<>> /\ w.buf = Numbered(n)
    BY <1>5 DEF Flowing
  <2>2. CASE v.passthrough
    <3>1. Len(w.buf) >= MaxScan /\ v.buf = <<>> /\ v.body = Numbered(n + 1)
      BY <1>1, <1>3, <1>5, <2>1, <2>2 DEF Written
    <3>2. n + 1 > MaxScan
      BY <1>1, <2>1, <3>1, OutputScannerAssumption
    <3>3. QED
      BY <2>2, <3>1, <3>2 DEF Flowing
  <2>3. CASE ~v.passthrough
    BY <1>1, <2>1, <2>3 DEF Written, Flowing
  <2>4. QED
    BY <2>2, <2>3
<1>6. QED
  BY <1>4, <1>5

LEMMA ScanCompletes ==
  ASSUME NEW w \in Writers, NEW n \in Nat, Flowing(w, n), NEW risk \in Risks
  PROVE  LET v == ScanAndSend(w, risk)
         IN  /\ v \in Writers /\ Complete(v, n)
             /\ w.seen \in {Interim, w.code} => v.seen \in {Interim, v.code}
             /\ w.code # Interim /\ w.status # Interim => v.code # Interim
<1>1. CASE w.passthrough \/ w.buf = <<>>
  <2>1. ScanAndSend(w, risk) = w
    BY <1>1 DEF ScanAndSend
  <2>2. Complete(w, n)
    BY <1>1 DEF Flowing, Complete
  <2>3. QED
    BY <2>1, <2>2
<1>2. CASE ~(w.passthrough \/ w.buf = <<>>)
  <2> DEFINE pieces == IF risk = "high" THEN SanitizeOutput(w.buf) ELSE w.buf
             h == SendHeader(w, w.status)
             b == SendBytes(h, pieces)
             v == [b EXCEPT !.buf = <<>>]
  <2>1. ScanAndSend(w, risk) = v
    BY <1>2 DEF ScanAndSend
  <2>2. w.body = <<>> /\ w.buf = Numbered(n)
    BY <1>2 DEF Flowing
  <2>3. pieces \in Seq(Int) /\ pieces \in {Numbered(n), SanitizeOutput(Numbered(n))}
    BY <2>2, NumberedPieces, SanitizedPieces
  <2> HIDE DEF pieces
  <2>4. /\ h \in Writers /\ h.body = w.body
        /\ h.seen = IF w.seen = 0 THEN w.status ELSE w.seen
        /\ h.code = IF w.code = 0 /\ w.status # Interim THEN w.status ELSE w.code
    BY SendHeaderIs DEF Writers
  <2> HIDE DEF h
  <2>5. /\ b \in Writers /\ b.body = h.body \o pieces
        /\ b.seen = IF h.seen = 0 THEN 200 ELSE h.seen
        /\ b.code = IF h.code = 0 THEN 200 ELSE h.code
    BY <2>3, <2>4, SendBytesIs
  <2> HIDE DEF b
  <2>6. <<>> \in Seq(Int) /\ <<>> \o pieces = pieces
    BY <2>3, ConcatEmptySeq
  <2>7. /\ v \in Writers /\ v.buf = <<>> /\ v.body = b.body
        /\ v.seen = b.seen /\ v.code = b.code
    BY <2>5, <2>6 DEF Writers
  <2> HIDE DEF v
  <2>8. Complete(v, n)
    BY <2>2, <2>3, <2>4, <2>5, <2>6, <2>7 DEF Complete
  <2>9. /\ w.seen \in {Interim, w.code} => v.seen \in {Interim, v.code}
        /\ w.code # Interim /\ w.status # Interim => v.code # Interim
    BY <2>4, <2>5, <2>7 DEF Interim
  <2>10. QED
    BY <2>1, <2>7, <2>8, <2>9
<1>3. QED
  BY <1>1, <1>2

-------------------------------------------------------------------------------
(***************************************************************************)
(* A step of one request.                                                  *)
(***************************************************************************)
\* What the step makes of the request: where it is, its response, and its records.
Becomes(r, a, w, n, s, h, k, c, l) ==
  /\ at' = [at EXCEPT ![r] = a]
  /\ writer' = [writer EXCEPT ![r] = w]
  /\ sent' = [sent EXCEPT ![r] = n]
  /\ scannable' = [scannable EXCEPT ![r] = s]
  /\ hijacked' = [hijacked EXCEPT ![r] = h]
  /\ strikes' = [strikes EXCEPT ![r] = k]
  /\ clears' = [clears EXCEPT ![r] = c]
  /\ audit' = [audit EXCEPT ![r] = l]

\* A part of the request that the step leaves alone, written as an update.
LEMMA SelfUpdate ==
  ASSUME RequestIInv, NEW r \in Requests
  PROVE  /\ at = [at EXCEPT ![r] = at[r]]
         /\ writer = [writer EXCEPT ![r] = writer[r]] /\ sent = [sent EXCEPT ![r] = sent[r]]
         /\ scannable = [scannable EXCEPT ![r] = scannable[r]]
         /\ hijacked = [hijacked EXCEPT ![r] = hijacked[r]]
         /\ strikes = [strikes EXCEPT ![r] = strikes[r]]
         /\ clears = [clears EXCEPT ![r] = clears[r]]
         /\ audit = [audit EXCEPT ![r] = audit[r]]
<1>1. \A S : \A f \in [Requests -> S] : f = [f EXCEPT ![r] = f[r]]
  OBVIOUS
<1>2. QED
  BY <1>1 DEF RequestIInv, RequestTypes

LEMMA BecomesTypes ==
  ASSUME RequestTypes, NEW r \in Requests, NEW a \in Places, NEW w \in Writers, NEW n \in Nat,
         NEW s \in BOOLEAN, NEW h \in BOOLEAN, NEW k \in Nat, NEW c \in Nat, NEW l \in Seq(Nat),
         Becomes(r, a, w, n, s, h, k, c, l)
  PROVE  /\ at' \in [Requests -> Places] /\ writer' \in [Requests -> Writers]
         /\ sent' \in [Requests -> Nat] /\ scannable' \in [Requests -> BOOLEAN]
         /\ hijacked' \in [Requests -> BOOLEAN]
         /\ strikes' \in [Requests -> Nat] /\ clears' \in [Requests -> Nat]
         /\ audit' \in [Requests -> Seq(Nat)]
         /\ at'[r] = a /\ writer'[r] = w /\ sent'[r] = n /\ scannable'[r] = s
         /\ hijacked'[r] = h /\ strikes'[r] = k /\ clears'[r] = c /\ audit'[r] = l
         /\ \A q \in Requests : q # r =>
              /\ at'[q] = at[q] /\ writer'[q] = writer[q] /\ sent'[q] = sent[q]
              /\ scannable'[q] = scannable[q] /\ hijacked'[q] = hijacked[q]
              /\ strikes'[q] = strikes[q] /\ clears'[q] = clears[q] /\ audit'[q] = audit[q]
<1>1. /\ at' \in [Requests -> Places] /\ at'[r] = a
      /\ \A q \in Requests : q # r => at'[q] = at[q]
  BY DEF RequestTypes, Becomes
<1>2. /\ writer' \in [Requests -> Writers] /\ writer'[r] = w
      /\ \A q \in Requests : q # r => writer'[q] = writer[q]
  BY DEF RequestTypes, Becomes
<1>3. /\ sent' \in [Requests -> Nat] /\ sent'[r] = n
      /\ \A q \in Requests : q # r => sent'[q] = sent[q]
  BY DEF RequestTypes, Becomes
<1>4. /\ scannable' \in [Requests -> BOOLEAN] /\ scannable'[r] = s
      /\ \A q \in Requests : q # r => scannable'[q] = scannable[q]
  BY Zenon DEF RequestTypes, Becomes
<1>5. /\ hijacked' \in [Requests -> BOOLEAN] /\ hijacked'[r] = h
      /\ \A q \in Requests : q # r => hijacked'[q] = hijacked[q]
  BY Zenon DEF RequestTypes, Becomes
<1>6. /\ strikes' \in [Requests -> Nat] /\ strikes'[r] = k
      /\ \A q \in Requests : q # r => strikes'[q] = strikes[q]
  BY DEF RequestTypes, Becomes
<1>7. /\ clears' \in [Requests -> Nat] /\ clears'[r] = c
      /\ \A q \in Requests : q # r => clears'[q] = clears[q]
  BY DEF RequestTypes, Becomes
<1>8. /\ audit' \in [Requests -> Seq(Nat)] /\ audit'[r] = l
      /\ \A q \in Requests : q # r => audit'[q] = audit[q]
  BY DEF RequestTypes, Becomes
<1>9. QED
  BY <1>1, <1>2, <1>3, <1>4, <1>5, <1>6, <1>7, <1>8

\* The invariant of the requests after a step of one of them.
LEMMA BecomesInv ==
  ASSUME RequestIInv, NEW r \in Requests, NEW a \in Places, NEW w \in Writers, NEW n \in Nat,
         NEW s \in BOOLEAN, NEW h \in BOOLEAN, NEW k \in Nat, NEW c \in Nat, NEW l \in Seq(Nat),
         Becomes(r, a, w, n, s, h, k, c, l), \A q \in Requests : q # r => path'[q] = path[q],
         Delivered(a, w, n, s), Recorded(a, path'[r], w, h, l), Judged(a, k, c)
  PROVE  \A q \in Requests : RequestInv(q)'
<1>1. /\ at'[r] = a /\ writer'[r] = w /\ sent'[r] = n /\ scannable'[r] = s
      /\ hijacked'[r] = h /\ strikes'[r] = k /\ clears'[r] = c /\ audit'[r] = l
      /\ \A q \in Requests : q # r =>
           /\ at'[q] = at[q] /\ writer'[q] = writer[q] /\ sent'[q] = sent[q]
           /\ scannable'[q] = scannable[q] /\ hijacked'[q] = hijacked[q]
           /\ strikes'[q] = strikes[q] /\ clears'[q] = clears[q] /\ audit'[q] = audit[q]
  BY BecomesTypes DEF RequestIInv
<1> TAKE q \in Requests
<1>2. CASE q = r
  BY <1>1, <1>2 DEF RequestInv
<1>3. CASE q # r
  <2>1. RequestInv(q)
    BY DEF RequestIInv
  <2>2. QED
    BY <1>1, <1>3, <2>1 DEF RequestInv
<1>4. QED
  BY <1>2, <1>3

LEMMA GaugeKept ==
  ASSUME Gauged, UNCHANGED activeConns,
         \A q \in Requests : at'[q] \in Inside \cup {"dropped"} <=> at[q] \in Inside \cup {"dropped"}
  PROVE  Gauged'
<1>1. {q \in Requests : at'[q] \in Inside \cup {"dropped"}} =
      {q \in Requests : at[q] \in Inside \cup {"dropped"}}
  OBVIOUS
<1>2. QED
  BY <1>1 DEF Gauged

LEMMA CountersKept ==
  ASSUME CountedOnce, UNCHANGED requestsTotal,
         \A q \in Requests : at'[q] = "gone" <=> at[q] = "gone",
         \A q \in Requests : at[q] = "gone" => writer'[q] = writer[q]
  PROVE  CountedOnce'
<1>1. \A q \in Requests : at[q] = "gone" => Status(q)' = Status(q)
  BY DEF Status
<1>2. \A x \in Counted : {q \in Requests : at'[q] = "gone" /\ Status(q)' = x} =
                         {q \in Requests : at[q] = "gone" /\ Status(q) = x}
  BY <1>1
<1>3. QED
  BY <1>1, <1>2 DEF CountedOnce, Counted

\* A step inside: neither the gauge nor a counter changes, and a tunnel stays a tunnel.
LEMMA InnerStep ==
  ASSUME RequestIInv, NEW r \in Requests, NEW a \in Inside, NEW w \in Writers, NEW n \in Nat,
         NEW s \in BOOLEAN, NEW h \in BOOLEAN, NEW k \in Nat, NEW c \in Nat, NEW l \in Seq(Nat),
         Becomes(r, a, w, n, s, h, k, c, l), at[r] \in Inside, hijacked[r] => h,
         UNCHANGED <<path, lifecycle, activeConns, requestsTotal>>,
         Delivered(a, w, n, s), Recorded(a, path[r], w, h, l), Judged(a, k, c)
  PROVE  RequestIInv'
<1>1. a \in Places
  BY DEF Places
<1>2. /\ at' \in [Requests -> Places] /\ writer' \in [Requests -> Writers]
      /\ sent' \in [Requests -> Nat] /\ scannable' \in [Requests -> BOOLEAN]
      /\ hijacked' \in [Requests -> BOOLEAN]
      /\ strikes' \in [Requests -> Nat] /\ clears' \in [Requests -> Nat]
      /\ audit' \in [Requests -> Seq(Nat)]
      /\ at'[r] = a /\ writer'[r] = w /\ hijacked'[r] = h
      /\ \A q \in Requests : q # r =>
           at'[q] = at[q] /\ writer'[q] = writer[q] /\ hijacked'[q] = hijacked[q]
  BY <1>1, BecomesTypes DEF RequestIInv
<1>3. RequestTypes'
  BY <1>2 DEF RequestIInv, RequestTypes, lifecycle, Counted
<1>4. \A q \in Requests : RequestInv(q)'
  BY <1>1, BecomesInv, ZenonT(60)
<1>5. a \notin {"gone", "dropped"} /\ at[r] \notin {"gone", "dropped"}
  BY DEF Inside
<1>6. Gauged'
  BY <1>2, GaugeKept DEF RequestIInv
<1>7. CountedOnce'
  <2>1. \A q \in Requests : at'[q] = "gone" <=> at[q] = "gone"
    BY <1>2, <1>5
  <2>2. \A q \in Requests : at[q] = "gone" => writer'[q] = writer[q]
    BY <1>2, <1>5
  <2>3. QED
    BY <2>1, <2>2, CountersKept DEF RequestIInv
<1>8. Drained'
  <2>1. \A q \in Requests : at'[q] \in Inside \cup {"dropped"} <=> at[q] \in Inside \cup {"dropped"}
    BY <1>2
  <2>2. \A q \in Requests : hijacked[q] => hijacked'[q]
    BY <1>2
  <2>3. \A q \in Requests : at'[q] = "dropped" => at[q] = "dropped"
    BY <1>2, <1>5
  <2>4. QED
    BY <2>1, <2>2, <2>3 DEF RequestIInv, Drained, lifecycle
<1>9. QED
  BY <1>3, <1>4, <1>6, <1>7, <1>8 DEF RequestIInv

\* What a request is before the step.
LEMMA Before ==
  ASSUME RequestIInv, NEW r \in Requests
  PROVE  /\ at[r] \in Places /\ path[r] \in Paths /\ writer[r] \in Writers /\ sent[r] \in Nat
         /\ scannable[r] \in BOOLEAN /\ hijacked[r] \in BOOLEAN
         /\ strikes[r] \in Nat /\ clears[r] \in Nat /\ audit[r] \in Seq(Nat)
         /\ Delivered(at[r], writer[r], sent[r], scannable[r])
         /\ Recorded(at[r], path[r], writer[r], hijacked[r], audit[r])
         /\ Judged(at[r], strikes[r], clears[r])
BY DEF RequestIInv, RequestTypes, RequestInv


\* A step that changes no more of the request than its place and its response.
LEMMA MovedTypes ==
  ASSUME RequestIInv, NEW r \in Requests, NEW a \in Places, NEW w \in Writers,
         Becomes(r, a, w, sent[r], scannable[r], hijacked[r], strikes[r], clears[r], audit[r])
  PROVE  /\ at' \in [Requests -> Places] /\ writer' \in [Requests -> Writers]
         /\ UNCHANGED <<sent, scannable, hijacked, strikes, clears, audit>>
         /\ at'[r] = a /\ writer'[r] = w
         /\ \A q \in Requests : q # r => at'[q] = at[q] /\ writer'[q] = writer[q]
<1>1. /\ at' \in [Requests -> Places] /\ at'[r] = a
      /\ \A q \in Requests : q # r => at'[q] = at[q]
  BY DEF RequestIInv, RequestTypes, Becomes
<1>2. /\ writer' \in [Requests -> Writers] /\ writer'[r] = w
      /\ \A q \in Requests : q # r => writer'[q] = writer[q]
  BY DEF RequestIInv, RequestTypes, Becomes
<1>3. UNCHANGED <<sent, scannable, hijacked, strikes, clears, audit>>
  BY SelfUpdate DEF Becomes
<1>4. QED
  BY <1>1, <1>2, <1>3

LEMMA MovedInv ==
  ASSUME RequestIInv, NEW r \in Requests, NEW a \in Places, NEW w \in Writers,
         Becomes(r, a, w, sent[r], scannable[r], hijacked[r], strikes[r], clears[r], audit[r]),
         \A q \in Requests : q # r => path'[q] = path[q],
         Delivered(a, w, sent[r], scannable[r]),
         Recorded(a, path'[r], w, hijacked[r], audit[r]), Judged(a, strikes[r], clears[r])
  PROVE  \A q \in Requests : RequestInv(q)'
<1>1. /\ sent[r] \in Nat /\ scannable[r] \in BOOLEAN /\ hijacked[r] \in BOOLEAN
      /\ strikes[r] \in Nat /\ clears[r] \in Nat /\ audit[r] \in Seq(Nat)
  BY Before
<1>2. QED
  BY <1>1, BecomesInv

\* The request passes on, and the guard is told nothing.
LEMMA PassStep ==
  ASSUME RequestIInv, NEW r \in Requests, NEW from \in Inside, NEW to \in Inside,
         Pass(r, from, to), UNCHANGED <<lifecycle, path, hijacked, guarded, recorded>>,
         Delivered(to, writer[r], sent[r], scannable[r]),
         Recorded(to, path[r], writer[r], hijacked[r], audit[r]),
         Judged(to, strikes[r], clears[r])
  PROVE  RequestIInv'
<1>1. Becomes(r, to, writer[r], sent[r], scannable[r], hijacked[r],
              strikes[r], clears[r], audit[r])
  BY SelfUpdate DEF Pass, Go, response, guarded, recorded, Becomes
<1>2. at[r] \in Inside
  BY DEF Pass, Go
<1>3. UNCHANGED <<path, lifecycle, activeConns, requestsTotal>>
  BY DEF recorded
<1>4. QED
  BY <1>1, <1>2, <1>3, Before, InnerStep

\* Where a request is that no middleware has answered, and what of it the guard knows.
Early == {"origin", "guard", "endpoint", "limit", "auth"}
Unanswered == Fresh \ {"none"}

\* On the way in nothing is answered and nothing recorded.
LEMMA WayIn ==
  ASSUME RequestIInv, NEW r \in Requests, NEW from \in Unanswered, NEW to \in Unanswered,
         Pass(r, from, to), to \in Early => from \in Early
  PROVE  /\ Delivered(to, writer[r], sent[r], scannable[r])
         /\ Recorded(to, path[r], writer[r], hijacked[r], audit[r])
         /\ Judged(to, strikes[r], clears[r])
<1>1. /\ at[r] = from
      /\ Delivered(from, writer[r], sent[r], scannable[r])
      /\ Recorded(from, path[r], writer[r], hijacked[r], audit[r])
      /\ Judged(from, strikes[r], clears[r])
  BY Before DEF Pass, Go
<1>2. Delivered(to, writer[r], sent[r], scannable[r])
  BY <1>1 DEF Delivered, Unanswered, Fresh, Answered
<1>3. Recorded(to, path[r], writer[r], hijacked[r], audit[r])
  BY <1>1 DEF Recorded, Unanswered, Fresh
<1>4. Judged(to, strikes[r], clears[r])
  BY <1>1 DEF Judged, Early, Unanswered, Fresh
<1>5. QED
  BY <1>2, <1>3, <1>4

LEMMA WayInStep ==
  ASSUME RequestIInv, NEW r \in Requests, NEW from \in Unanswered, NEW to \in Unanswered,
         Pass(r, from, to), to \in Early => from \in Early,
         UNCHANGED <<lifecycle, path, hijacked, guarded, recorded>>
  PROVE  RequestIInv'
<1>1. from \in Inside /\ to \in Inside
  BY DEF Unanswered, Fresh, Inside
<1>2. QED
  BY <1>1, WayIn, PassStep

\* A middleware answers before anything has been sent.
LEMMA RefuseStep ==
  ASSUME RequestIInv, NEW r \in Requests, NEW from \in Unanswered,
         NEW code \in Nat \ {0, Interim}, Refuse(r, from, code),
         UNCHANGED <<lifecycle, path, hijacked, recorded>>,
         NEW k \in Nat, NEW c \in Nat, k + c <= 1,
         strikes' = [strikes EXCEPT ![r] = k], clears' = [clears EXCEPT ![r] = c]
  PROVE  RequestIInv'
<1> DEFINE w == writer[r]
           v == SendHeader(w, code)
<1>1. /\ at[r] = from /\ w \in Writers /\ sent[r] \in Nat
      /\ Delivered(from, w, sent[r], scannable[r])
      /\ Recorded(from, path[r], w, hijacked[r], audit[r])
  BY Before DEF Refuse, Go
<1>2. /\ v \in Writers /\ v.body = w.body /\ v.buf = w.buf
      /\ v.seen = IF w.seen = 0 THEN code ELSE w.seen
      /\ v.code = IF w.code = 0 /\ code # Interim THEN code ELSE w.code
  BY <1>1, SendHeaderIs
<1>3. writer' = [writer EXCEPT ![r] = v]
  BY DEF Refuse
<1> HIDE DEF w, v
<1>4. Delivered("returning", v, sent[r], scannable[r])
  <2>1. sent[r] = 0 /\ Flowing(w, 0)
    BY <1>1 DEF Delivered, Unanswered, Fresh, Answered
  <2>2. w.body = <<>> /\ w.buf = <<>>
    BY <2>1, NoPieces DEF Flowing
  <2>3. Complete(v, 0)
    BY <1>2, <2>2, NoPieces DEF Complete
  <2>4. QED
    BY <2>1, <2>3 DEF Delivered, Fresh, Answered
<1>5. Recorded("returning", path[r], v, hijacked[r], audit[r])
  <2>1. /\ w.seen \in {Interim, w.code} /\ w.code # Interim /\ w.seen \in {0, Interim}
        /\ audit[r] = <<>>
    BY <1>1 DEF Recorded, Delivered, Unanswered
  <2>2. v.seen \in {Interim, v.code} /\ v.code # Interim
    BY <1>2, <2>1 DEF Interim
  <2>3. QED
    BY <2>1, <2>2 DEF Recorded, Fresh
<1>6. Judged("returning", k, c)
  BY DEF Judged
<1>7. Becomes(r, "returning", v, sent[r], scannable[r], hijacked[r], k, c, audit[r])
  BY <1>3, SelfUpdate DEF Refuse, Go, recorded, Becomes
<1>8. "returning" \in Inside /\ at[r] \in Inside
  BY <1>1 DEF Inside, Unanswered, Fresh
<1>9. UNCHANGED <<path, lifecycle, activeConns, requestsTotal>>
  BY DEF recorded
<1>10. QED
  BY <1>2, <1>4, <1>5, <1>6, <1>7, <1>8, <1>9, Before, InnerStep

\* A refusal that the guard is not told of.
LEMMA SilentRefusal ==
  ASSUME RequestIInv, NEW r \in Requests, NEW from \in Unanswered,
         NEW code \in Nat \ {0, Interim}, Refuse(r, from, code),
         UNCHANGED <<lifecycle, path, hijacked, guarded, recorded>>
  PROVE  RequestIInv'
<1>1. strikes' = [strikes EXCEPT ![r] = strikes[r]] /\ clears' = [clears EXCEPT ![r] = clears[r]]
  BY SelfUpdate DEF guarded
<1>2. strikes[r] \in Nat /\ clears[r] \in Nat /\ strikes[r] + clears[r] <= 1
  BY Before DEF Judged
<1>3. QED
  BY <1>1, <1>2, RefuseStep

-------------------------------------------------------------------------------
(***************************************************************************)
(* The way in and the handlers of the mux.                                 *)
(***************************************************************************)
LEMMA OriginCheckInv ==
  ASSUME RequestIInv, NEW r \in Requests, OriginCheck(r)
  PROVE  RequestIInv'
<1>1. CASE Pass(r, "origin", "guard")
  BY <1>1, WayInStep DEF OriginCheck, Unanswered, Fresh, Early
<1>2. CASE Refuse(r, "origin", 403)
  BY <1>2, SilentRefusal DEF OriginCheck, Unanswered, Fresh, Interim
<1>3. QED
  BY <1>1, <1>2 DEF OriginCheck

LEMMA BruteForceMiddlewareInv ==
  ASSUME RequestIInv, NEW r \in Requests, BruteForceMiddleware(r)
  PROVE  RequestIInv'
<1>1. CASE Pass(r, "guard", "endpoint")
  BY <1>1, WayInStep DEF BruteForceMiddleware, Unanswered, Fresh, Early
<1>2. CASE Refuse(r, "guard", 403)
  BY <1>2, SilentRefusal DEF BruteForceMiddleware, Unanswered, Fresh, Interim
<1>3. QED
  BY <1>1, <1>2 DEF BruteForceMiddleware

LEMMA EndpointRateLimitInv ==
  ASSUME RequestIInv, NEW r \in Requests, EndpointRateLimit(r)
  PROVE  RequestIInv'
<1>1. CASE Pass(r, "endpoint", "limit")
  BY <1>1, WayInStep DEF EndpointRateLimit, Unanswered, Fresh, Early
<1>2. CASE Refuse(r, "endpoint", 429)
  BY <1>2, SilentRefusal DEF EndpointRateLimit, Unanswered, Fresh, Interim
<1>3. QED
  BY <1>1, <1>2 DEF EndpointRateLimit

\* Up to the authentication the guard has not been told anything.
LEMMA StrikeStep ==
  ASSUME RequestIInv, NEW r \in Requests, NEW from \in Early,
         NEW code \in Nat \ {0, Interim}, Refuse(r, from, code), Strike(r),
         UNCHANGED <<lifecycle, path, hijacked, recorded>>
  PROVE  RequestIInv'
<1>1. strikes[r] = 0 /\ clears[r] = 0
  BY Before DEF Refuse, Go, Early, Judged
<1>2. strikes' = [strikes EXCEPT ![r] = 1]
  BY <1>1 DEF Strike
<1>3. clears' = [clears EXCEPT ![r] = 0]
  BY <1>1, SelfUpdate DEF Strike
<1>4. from \in Unanswered
  BY DEF Early, Unanswered, Fresh
<1>5. 1 \in Nat /\ 0 \in Nat /\ 1 + 0 <= 1
  OBVIOUS
<1>6. QED
  BY <1>2, <1>3, <1>4, <1>5, RefuseStep

LEMMA RateLimitWithGuardInv ==
  ASSUME RequestIInv, NEW r \in Requests, RateLimitWithGuard(r)
  PROVE  RequestIInv'
<1>1. CASE Pass(r, "limit", "auth") /\ UNCHANGED guarded
  BY <1>1, WayInStep DEF RateLimitWithGuard, Unanswered, Fresh, Early
<1>2. CASE Refuse(r, "limit", 429) /\ Strike(r)
  BY <1>2, StrikeStep DEF RateLimitWithGuard, Early, Interim
<1>3. QED
  BY <1>1, <1>2 DEF RateLimitWithGuard

LEMMA AuthRequiredWithGuardInv ==
  ASSUME RequestIInv, NEW r \in Requests, AuthRequiredWithGuard(r)
  PROVE  RequestIInv'
<1>1. CASE Pass(r, "auth", "mux") /\ UNCHANGED guarded
  BY <1>1, WayInStep DEF AuthRequiredWithGuard, Unanswered, Fresh, Early
<1>2. CASE Refuse(r, "auth", 401) /\ Strike(r)
  BY <1>2, StrikeStep DEF AuthRequiredWithGuard, Early, Interim
<1>3. CASE /\ Pass(r, "auth", "mux")
           /\ clears' = [clears EXCEPT ![r] = @ + 1]
           /\ UNCHANGED strikes
  <2>1. at[r] = "auth" /\ strikes[r] = 0 /\ clears[r] = 0
    BY <1>3, Before DEF Pass, Go, Judged
  <2>2. clears' = [clears EXCEPT ![r] = 1]
    BY <1>3, <2>1
  <2>3. UNCHANGED <<path, hijacked, audit, lifecycle, activeConns, requestsTotal>>
    BY DEF AuthRequiredWithGuard, recorded
  <2>4. strikes' = [strikes EXCEPT ![r] = 0]
    BY <1>3, <2>1, SelfUpdate
  <2>5. Becomes(r, "mux", writer[r], sent[r], scannable[r], hijacked[r], 0, 1, audit[r])
    BY <1>3, <2>2, <2>3, <2>4, SelfUpdate DEF Pass, Go, response, Becomes
  <2>6. /\ Delivered("mux", writer[r], sent[r], scannable[r])
        /\ Recorded("mux", path[r], writer[r], hijacked[r], audit[r])
    BY <1>3, WayIn DEF Unanswered, Fresh, Early
  <2>7. Judged("mux", 0, 1) /\ "mux" \in Inside /\ at[r] \in Inside
    BY <2>1 DEF Judged, Inside
  <2>8. QED
    BY <2>3, <2>5, <2>6, <2>7, Before, InnerStep
<1>4. QED
  BY <1>1, <1>2, <1>3 DEF AuthRequiredWithGuard

LEMMA ProbeInv ==
  ASSUME RequestIInv, NEW r \in Requests, Probe(r)
  PROVE  RequestIInv'
<1>1. PICK code \in {200, 503} : Refuse(r, "mux", code)
  BY DEF Probe
<1>2. code \in Nat \ {0, Interim} /\ "mux" \in Unanswered
  BY <1>1 DEF Interim, Unanswered, Fresh
<1>3. QED
  BY <1>1, <1>2, SilentRefusal DEF Probe

LEMMA AdminInv ==
  ASSUME RequestIInv, NEW r \in Requests, Admin(r)
  PROVE  RequestIInv'
<1>1. PICK code \in {200, 400, 405} \cup IF authEnabled THEN {401} ELSE {} :
           Refuse(r, "mux", code)
  BY DEF Admin
<1>2. code \in Nat \ {0, Interim} /\ "mux" \in Unanswered
  BY <1>1 DEF Interim, Unanswered, Fresh
<1>3. QED
  BY <1>1, <1>2, SilentRefusal DEF Admin

\* What was never answered returns complete: there is nothing of it.
LEMMA NothingReturned ==
  ASSUME RequestIInv, NEW r \in Requests, at[r] \in Unanswered
  PROVE  /\ Delivered("returning", writer[r], sent[r], scannable[r])
         /\ Recorded("returning", path[r], writer[r], hijacked[r], audit[r])
         /\ Judged("returning", strikes[r], clears[r])
<1>1. /\ Delivered(at[r], writer[r], sent[r], scannable[r])
      /\ Recorded(at[r], path[r], writer[r], hijacked[r], audit[r])
      /\ Judged(at[r], strikes[r], clears[r])
  BY Before
<1>2. sent[r] = 0 /\ Flowing(writer[r], 0)
  BY <1>1 DEF Delivered, Unanswered, Fresh, Answered
<1>3. Complete(writer[r], 0)
  BY <1>2, NoPieces DEF Flowing, Complete
<1>4. Delivered("returning", writer[r], sent[r], scannable[r])
  BY <1>2, <1>3 DEF Delivered, Fresh, Answered
<1>5. Recorded("returning", path[r], writer[r], hijacked[r], audit[r])
  BY <1>1 DEF Recorded, Unanswered, Fresh
<1>6. Judged("returning", strikes[r], clears[r])
  BY <1>1 DEF Judged
<1>7. QED
  BY <1>4, <1>5, <1>6

LEMMA OpenTunnelInv ==
  ASSUME RequestIInv, NEW r \in Requests, OpenTunnel(r)
  PROVE  RequestIInv'
<1>1. CASE Pass(r, "mux", "tunnel") /\ hijacked' = [hijacked EXCEPT ![r] = TRUE]
  <2>1. UNCHANGED <<path, strikes, clears, audit, lifecycle, activeConns, requestsTotal>>
    BY DEF OpenTunnel, guarded, recorded
  <2>2. TRUE \in BOOLEAN
    OBVIOUS
  <2>3. Becomes(r, "tunnel", writer[r], sent[r], scannable[r], TRUE,
                strikes[r], clears[r], audit[r])
    BY <1>1, <2>1, SelfUpdate DEF Pass, Go, response, Becomes
  <2>4. /\ Delivered("tunnel", writer[r], sent[r], scannable[r])
        /\ Recorded("tunnel", path[r], writer[r], hijacked[r], audit[r])
        /\ Judged("tunnel", strikes[r], clears[r])
    BY <1>1, WayIn DEF Unanswered, Fresh, Early
  <2>5. Recorded("tunnel", path[r], writer[r], TRUE, audit[r])
    BY <2>4 DEF Recorded
  <2>6. /\ "tunnel" \in Inside /\ at[r] \in Inside
        /\ hijacked[r] => TRUE
    BY <1>1 DEF Pass, Go, Inside
  <2>7. UNCHANGED <<path, lifecycle, activeConns, requestsTotal>>
    BY <2>1
  <2>8. /\ writer[r] \in Writers /\ sent[r] \in Nat /\ scannable[r] \in BOOLEAN
        /\ strikes[r] \in Nat /\ clears[r] \in Nat /\ audit[r] \in Seq(Nat)
    BY Before
  <2>9. QED
    BY <2>2, <2>3, <2>4, <2>5, <2>6, <2>7, <2>8, InnerStep, Zenon
<1>2. CASE \E code \in {500, 502} : Refuse(r, "mux", code) /\ UNCHANGED hijacked
  <2>1. PICK code \in {500, 502} : Refuse(r, "mux", code) /\ UNCHANGED hijacked
    BY <1>2
  <2>2. code \in Nat \ {0, Interim} /\ "mux" \in Unanswered
    BY <2>1 DEF Interim, Unanswered, Fresh
  <2>3. QED
    BY <2>1, <2>2, SilentRefusal DEF OpenTunnel
<1>3. CASE Pass(r, "mux", "returning") /\ UNCHANGED hijacked
  <2>1. at[r] \in Unanswered
    BY <1>3 DEF Pass, Go, Unanswered, Fresh
  <2>2. "mux" \in Inside /\ "returning" \in Inside
    BY DEF Inside
  <2>3. QED
    BY <1>3, <2>1, <2>2, NothingReturned, PassStep DEF OpenTunnel
<1>4. QED
  BY <1>1, <1>2, <1>3 DEF OpenTunnel

LEMMA TunnelEndsInv ==
  ASSUME RequestIInv, NEW r \in Requests, TunnelEnds(r)
  PROVE  RequestIInv'
<1>1. at[r] \in Unanswered
  BY DEF TunnelEnds, Pass, Go, Unanswered, Fresh
<1>2. "tunnel" \in Inside /\ "returning" \in Inside
  BY DEF Inside
<1>3. QED
  BY <1>1, <1>2, NothingReturned, PassStep DEF TunnelEnds

-------------------------------------------------------------------------------
(***************************************************************************)
(* The responses that pass OutputScanner.                                  *)
(***************************************************************************)
\* The response of a request changes: all else about it stays.
LEMMA ResponseStep ==
  ASSUME RequestIInv, NEW r \in Requests, at[r] \in Inside, NEW a \in Inside,
         NEW w \in Writers, NEW n \in Nat, NEW s \in BOOLEAN,
         at' = [at EXCEPT ![r] = a], writer' = [writer EXCEPT ![r] = w],
         sent' = [sent EXCEPT ![r] = n], scannable' = [scannable EXCEPT ![r] = s],
         UNCHANGED <<lifecycle, path, hijacked, guarded, recorded>>,
         Delivered(a, w, n, s), Recorded(a, path[r], w, hijacked[r], audit[r]),
         Judged(a, strikes[r], clears[r])
  PROVE  RequestIInv'
<1>1. Becomes(r, a, w, n, s, hijacked[r], strikes[r], clears[r], audit[r])
  BY SelfUpdate DEF guarded, recorded, Becomes
<1>2. UNCHANGED <<path, lifecycle, activeConns, requestsTotal>>
  BY DEF recorded
<1>3. QED
  BY <1>1, <1>2, Before, InnerStep

LEMMA AnswerInsideInv ==
  ASSUME RequestIInv, NEW r \in Requests, NEW from \in {"mux", "backend"},
         NEW code \in Nat \ {0, Interim}, AnswerInside(r, from, code),
         UNCHANGED <<lifecycle, path, hijacked, guarded, recorded>>
  PROVE  RequestIInv'
<1> DEFINE w == writer[r]
           u == WriteHeader(w, code, TRUE)
           v == Write(u, 1)
<1>1. /\ at[r] = from /\ w \in Writers /\ sent[r] \in Nat
      /\ Delivered(from, w, sent[r], scannable[r])
      /\ Recorded(from, path[r], w, hijacked[r], audit[r])
      /\ Judged(from, strikes[r], clears[r])
  BY Before DEF AnswerInside, Go
<1>2. /\ u \in Writers /\ u.body = w.body /\ u.buf = w.buf /\ u.seen = w.seen
      /\ u.code = w.code /\ u.passthrough = w.passthrough /\ u.status = code
  BY <1>1, WriteHeaderIs, ZenonT(60)
<1>3. /\ at' = [at EXCEPT ![r] = "scanned"] /\ writer' = [writer EXCEPT ![r] = v]
      /\ sent' = [sent EXCEPT ![r] = 1] /\ scannable' = [scannable EXCEPT ![r] = TRUE]
  BY DEF AnswerInside, Go
<1> HIDE DEF w, u
<1>4. Written(u, 1, v)
  BY <1>2, WriteIs
<1> HIDE DEF v
<1>5. sent[r] = 0 /\ Flowing(w, 0) /\ audit[r] = <<>>
  BY <1>1 DEF Delivered, Recorded, Fresh, Answered
<1>6. Flowing(v, 1)
  <2>1. Flowing(u, 0)
    BY <1>2, <1>5 DEF Flowing
  <2>2. Written(u, 0 + 1, v)
    BY <1>4
  <2>3. Flowing(v, 0 + 1)
    BY <1>2, <2>1, <2>2, WriteFlows
  <2>4. QED
    BY <2>3
<1>7. Delivered("scanned", v, 1, TRUE)
  BY <1>6 DEF Delivered, Fresh, Answered
<1>8. Recorded("scanned", path[r], v, hijacked[r], audit[r])
  <2>1. v.seen \in {Interim, v.code} /\ v.code # Interim /\ v.status # Interim
    BY <1>1, <1>2, <1>4 DEF Recorded, Written
  <2>2. QED
    BY <1>5, <2>1 DEF Recorded
<1>9. Judged("scanned", strikes[r], clears[r])
  BY <1>1 DEF Judged
<1>10. v \in Writers /\ at[r] \in Inside /\ "scanned" \in Inside
  BY <1>1, <1>4 DEF Written, Inside
<1>11. QED
  BY <1>3, <1>7, <1>8, <1>9, <1>10, ResponseStep

LEMMA BodyScannerInv ==
  ASSUME RequestIInv, NEW r \in Requests, BodyScanner(r)
  PROVE  RequestIInv'
<1>1. CASE Pass(r, "mux", "backend")
  BY <1>1, WayInStep DEF BodyScanner, Unanswered, Fresh, Early
<1>2. CASE AnswerInside(r, "mux", 413)
  BY <1>2, AnswerInsideInv DEF BodyScanner, Interim
<1>3. QED
  BY <1>1, <1>2 DEF BodyScanner

LEMMA BackendUnavailableInv ==
  ASSUME RequestIInv, NEW r \in Requests, BackendUnavailable(r)
  PROVE  RequestIInv'
BY AnswerInsideInv DEF BackendUnavailable, Interim

LEMMA InterimReplyInv ==
  ASSUME RequestIInv, NEW r \in Requests, InterimReply(r)
  PROVE  RequestIInv'
<1> DEFINE w == writer[r]
           v == WriteHeader(w, Interim, FALSE)
<1>1. /\ at[r] = "backend" /\ w \in Writers /\ sent[r] \in Nat /\ scannable[r] \in BOOLEAN
      /\ Delivered("backend", w, sent[r], scannable[r])
      /\ Recorded("backend", path[r], w, hijacked[r], audit[r])
      /\ Judged("backend", strikes[r], clears[r])
  BY Before DEF InterimReply
<1>2. /\ v \in Writers /\ v.body = w.body /\ v.buf = w.buf /\ v.passthrough
      /\ v.seen = (IF w.seen = 0 THEN Interim ELSE w.seen)
      /\ v.code = w.code
  <2>1. Interim \in Nat /\ FALSE \in BOOLEAN
    BY DEF Interim
  <2>2. /\ v \in Writers /\ v.body = w.body /\ v.buf = w.buf
        /\ ~FALSE => /\ v.seen = IF w.seen = 0 THEN Interim ELSE w.seen
                     /\ v.code = IF w.code = 0 /\ Interim # Interim THEN Interim ELSE w.code
                     /\ v.passthrough
    BY <1>1, <2>1, WriteHeaderIs, Zenon
  <2>3. QED
    BY <2>2
<1>3. /\ at' = [at EXCEPT ![r] = "backend"] /\ writer' = [writer EXCEPT ![r] = v]
      /\ sent' = [sent EXCEPT ![r] = sent[r]] /\ scannable' = [scannable EXCEPT ![r] = scannable[r]]
  BY <1>1, SelfUpdate DEF InterimReply
<1> HIDE DEF w, v
<1>4. Delivered("backend", v, sent[r], scannable[r])
  <2>1. sent[r] = 0 /\ Flowing(w, 0) /\ w.seen \in {0, Interim}
    BY <1>1 DEF Delivered, Fresh, Answered
  <2>2. Flowing(v, 0) /\ v.seen = Interim
    BY <1>2, <2>1, NoPieces DEF Flowing
  <2>3. QED
    BY <2>1, <2>2 DEF Delivered, Fresh, Answered
<1>5. Recorded("backend", path[r], v, hijacked[r], audit[r])
  <2>1. w.seen \in {0, Interim}
    BY <1>1 DEF Delivered, Fresh
  <2>2. QED
    BY <1>1, <1>2, <2>1 DEF Recorded, Fresh
<1>6. at[r] \in Inside /\ "backend" \in Inside
  BY <1>1 DEF Inside
<1>7. UNCHANGED <<lifecycle, path, hijacked, guarded, recorded>>
  BY DEF InterimReply
<1>8. QED
  BY <1>1, <1>2, <1>3, <1>4, <1>5, <1>6, <1>7, ResponseStep

LEMMA HeaderStep ==
  ASSUME RequestIInv, NEW r \in Requests, NEW code \in {200, 404}, NEW s \in BOOLEAN,
         Go(r, "backend", "reply"), UNCHANGED sent,
         writer' = [writer EXCEPT ![r] = WriteHeader(@, code, s)],
         scannable' = [scannable EXCEPT ![r] = s],
         UNCHANGED <<lifecycle, path, hijacked, guarded, recorded>>
  PROVE  RequestIInv'
<1> DEFINE w == writer[r]
           v == WriteHeader(w, code, s)
<1>2. /\ at[r] = "backend" /\ w \in Writers /\ sent[r] \in Nat
      /\ Delivered("backend", w, sent[r], scannable[r])
      /\ Recorded("backend", path[r], w, hijacked[r], audit[r])
      /\ Judged("backend", strikes[r], clears[r])
  BY Before DEF Go
<1>3. code \in Nat /\ code # 0 /\ code # Interim
  BY DEF Interim
<1>4. /\ v \in Writers /\ v.body = w.body /\ v.buf = w.buf
      /\ s => v.seen = w.seen /\ v.code = w.code /\ v.passthrough = w.passthrough
      /\ ~s => /\ v.seen = IF w.seen = 0 THEN code ELSE w.seen
               /\ v.code = IF w.code = 0 /\ code # Interim THEN code ELSE w.code
               /\ v.passthrough
      /\ v.status = code
  BY <1>2, <1>3, WriteHeaderIs
<1>5. /\ at' = [at EXCEPT ![r] = "reply"] /\ writer' = [writer EXCEPT ![r] = v]
      /\ sent' = [sent EXCEPT ![r] = sent[r]]
  BY SelfUpdate DEF Go
<1> HIDE DEF w, v
<1>6. /\ sent[r] = 0 /\ Flowing(w, 0) /\ w.seen \in {0, Interim} /\ audit[r] = <<>>
      /\ w.passthrough => w.seen = Interim
  BY <1>2 DEF Delivered, Recorded, Fresh, Answered
<1>7. Delivered("reply", v, sent[r], s)
  <2>1. Flowing(v, 0)
    BY <1>4, <1>6, NoPieces DEF Flowing
  <2>2. s /\ v.passthrough => v.seen = Interim
    BY <1>4, <1>6, ZenonT(60)
  <2>3. QED
    BY <1>6, <2>1, <2>2 DEF Delivered, Fresh, Answered
<1>8. Recorded("reply", path[r], v, hijacked[r], audit[r])
  <2>1. w.seen \in {Interim, w.code} /\ w.code # Interim
    BY <1>2 DEF Recorded
  <2>2. v.seen \in {Interim, v.code} /\ v.code # Interim
    BY <1>3, <1>4, <1>6, <2>1 DEF Interim
  <2>3. QED
    BY <1>3, <1>4, <1>6, <2>2 DEF Recorded
<1>9. Judged("reply", strikes[r], clears[r]) /\ at[r] \in Inside /\ "reply" \in Inside
  BY <1>2 DEF Judged, Inside
<1>10. Becomes(r, "reply", v, sent[r], s, hijacked[r], strikes[r], clears[r], audit[r])
  BY <1>5, SelfUpdate DEF guarded, recorded, Becomes
<1>11. UNCHANGED <<path, lifecycle, activeConns, requestsTotal>>
  BY DEF recorded
<1>12. QED
  BY <1>2, <1>4, <1>7, <1>8, <1>9, <1>10, <1>11, Before, InnerStep, SMTT(30)

LEMMA ReplyInv ==
  ASSUME RequestIInv, NEW r \in Requests, Reply(r)
  PROVE  RequestIInv'
<1>1. /\ Go(r, "backend", "reply") /\ UNCHANGED sent
      /\ UNCHANGED <<lifecycle, path, hijacked, guarded, recorded>>
  BY DEF Reply
<1>2. PICK code \in {200, 404} : \E s \in BOOLEAN :
           /\ writer' = [writer EXCEPT ![r] = WriteHeader(@, code, s)]
           /\ scannable' = [scannable EXCEPT ![r] = s]
  BY DEF Reply
<1>3. ASSUME NEW s \in BOOLEAN, writer' = [writer EXCEPT ![r] = WriteHeader(@, code, s)],
             scannable' = [scannable EXCEPT ![r] = s]
      PROVE  RequestIInv'
  BY <1>1, <1>3, HeaderStep, ZenonT(60)
<1>4. QED
  BY <1>2, <1>3, Zenon

LEMMA PieceInv ==
  ASSUME RequestIInv, NEW r \in Requests, Piece(r)
  PROVE  RequestIInv'
<1> DEFINE w == writer[r]
           n == sent[r]
           v == Write(w, n + 1)
<1>1. /\ at[r] = "reply" /\ w \in Writers /\ n \in Nat /\ scannable[r] \in BOOLEAN
      /\ Delivered("reply", w, n, scannable[r])
      /\ Recorded("reply", path[r], w, hijacked[r], audit[r])
      /\ Judged("reply", strikes[r], clears[r])
  BY Before DEF Piece
<1>2. /\ sent' = [sent EXCEPT ![r] = n + 1] /\ writer' = [writer EXCEPT ![r] = v]
  <2>1. sent' = [sent EXCEPT ![r] = n + 1]
    BY DEF Piece
  <2>2. sent'[r] = n + 1
    BY <2>1 DEF RequestIInv, RequestTypes
  <2>3. QED
    BY <2>1, <2>2 DEF Piece
<1>3. /\ at' = [at EXCEPT ![r] = "reply"]
      /\ scannable' = [scannable EXCEPT ![r] = scannable[r]]
  BY <1>1, SelfUpdate DEF Piece
<1> HIDE DEF w, n
<1>4. Written(w, n + 1, v) /\ n + 1 \in Nat
  BY <1>1, WriteIs
<1> HIDE DEF v
<1>5. Flowing(w, n) /\ w.status # Interim /\ audit[r] = <<>>
  BY <1>1 DEF Delivered, Recorded, Answered
<1>6. Flowing(v, n + 1) /\ (v.passthrough => w.passthrough \/ n + 1 > MaxScan)
  BY <1>1, <1>4, <1>5, WriteFlows
<1>7. Delivered("reply", v, n + 1, scannable[r])
  <2>1. scannable[r] /\ w.passthrough => w.seen = Interim \/ n > MaxScan
    BY <1>1 DEF Delivered
  <2>2. w.seen = Interim => v.seen = Interim
    BY <1>4 DEF Written
  <2>3. n > MaxScan => n + 1 > MaxScan
    BY <1>1, OutputScannerAssumption
  <2>4. QED
    BY <1>6, <2>1, <2>2, <2>3 DEF Delivered, Fresh, Answered
<1>8. Recorded("reply", path[r], v, hijacked[r], audit[r])
  BY <1>1, <1>4, <1>5 DEF Recorded, Written
<1>9. v \in Writers /\ at[r] \in Inside /\ "reply" \in Inside
  BY <1>1, <1>4 DEF Written, Inside
<1>10. UNCHANGED <<lifecycle, path, hijacked, guarded, recorded>>
  BY DEF Piece
<1>11. QED
  BY <1>1, <1>2, <1>3, <1>4, <1>7, <1>8, <1>9, <1>10, ResponseStep

LEMMA ReplyEndsInv ==
  ASSUME RequestIInv, NEW r \in Requests, ReplyEnds(r)
  PROVE  RequestIInv'
<1>1. /\ Delivered("reply", writer[r], sent[r], scannable[r])
      /\ Recorded("reply", path[r], writer[r], hijacked[r], audit[r])
      /\ Judged("reply", strikes[r], clears[r])
  BY Before DEF ReplyEnds, Pass, Go
<1>2. Delivered("scanned", writer[r], sent[r], scannable[r])
  BY <1>1 DEF Delivered, Fresh, Answered
<1>3. /\ Recorded("scanned", path[r], writer[r], hijacked[r], audit[r])
      /\ Judged("scanned", strikes[r], clears[r])
  BY <1>1 DEF Recorded, Judged
<1>4. "reply" \in Inside /\ "scanned" \in Inside
  BY DEF Inside
<1>5. QED
  BY <1>2, <1>3, <1>4, PassStep DEF ReplyEnds

LEMMA OutputScanInv ==
  ASSUME RequestIInv, NEW r \in Requests, OutputScan(r)
  PROVE  RequestIInv'
<1>1. PICK risk \in Risks : writer' = [writer EXCEPT ![r] = ScanAndSend(@, risk)]
  BY DEF OutputScan
<1> DEFINE w == writer[r]
           v == ScanAndSend(w, risk)
<1>2. /\ at[r] = "scanned" /\ w \in Writers /\ sent[r] \in Nat /\ scannable[r] \in BOOLEAN
      /\ Delivered("scanned", w, sent[r], scannable[r])
      /\ Recorded("scanned", path[r], w, hijacked[r], audit[r])
      /\ Judged("scanned", strikes[r], clears[r])
  BY Before DEF OutputScan, Go
<1>3. /\ at' = [at EXCEPT ![r] = "returning"] /\ writer' = [writer EXCEPT ![r] = v]
      /\ sent' = [sent EXCEPT ![r] = sent[r]] /\ scannable' = [scannable EXCEPT ![r] = scannable[r]]
  BY <1>1, SelfUpdate DEF OutputScan, Go
<1> HIDE DEF w
<1>4. Flowing(w, sent[r])
  BY <1>2 DEF Delivered, Answered
<1>5. /\ v \in Writers /\ Complete(v, sent[r])
      /\ w.seen \in {Interim, w.code} => v.seen \in {Interim, v.code}
      /\ w.code # Interim /\ w.status # Interim => v.code # Interim
  BY <1>2, <1>4, ScanCompletes
<1> HIDE DEF v
<1>6. Delivered("returning", v, sent[r], scannable[r])
  BY <1>5 DEF Delivered, Fresh, Answered
<1>7. Recorded("returning", path[r], v, hijacked[r], audit[r])
  BY <1>2, <1>5 DEF Recorded
<1>8. Judged("returning", strikes[r], clears[r]) /\ at[r] \in Inside /\ "returning" \in Inside
  BY <1>2 DEF Judged, Inside
<1>9. UNCHANGED <<lifecycle, path, hijacked, guarded, recorded>>
  BY DEF OutputScan
<1>10. QED
  BY <1>2, <1>3, <1>5, <1>6, <1>7, <1>8, <1>9, ResponseStep, ZenonT(60)

-------------------------------------------------------------------------------
(***************************************************************************)
(* The way out.                                                            *)
(***************************************************************************)
LEMMA AuditEmitterInv ==
  ASSUME RequestIInv, NEW r \in Requests, AuditEmitter(r)
  PROVE  RequestIInv'
<1> DEFINE x == IF writer[r].seen = 0 THEN 200 ELSE writer[r].seen
           l == IF path[r] = "probe" THEN audit[r] ELSE <<x>>
<1>1. /\ at[r] = "returning" /\ writer[r] \in Writers
      /\ Delivered("returning", writer[r], sent[r], scannable[r])
      /\ Recorded("returning", path[r], writer[r], hijacked[r], audit[r])
      /\ Judged("returning", strikes[r], clears[r])
  BY Before DEF AuditEmitter, Pass, Go
<1>2. audit[r] = <<>> /\ x \in Nat
  BY <1>1 DEF Recorded, Writers
<1>3. Append(audit[r], Status(r)) = <<x>>
  BY <1>2 DEF Status
<1>4. audit' = [audit EXCEPT ![r] = l]
  BY <1>3 DEF AuditEmitter
<1>5. l \in Seq(Nat)
  <2>1. <<x>> \in Seq(Nat) /\ audit[r] \in Seq(Nat)
    BY <1>2
  <2>2. QED
    BY <2>1
<1>6. Delivered("counting", writer[r], sent[r], scannable[r])
  BY <1>1 DEF Delivered, Fresh, Answered
<1>7. Recorded("counting", path[r], writer[r], hijacked[r], l)
  BY <1>1 DEF Recorded, Fresh
<1> HIDE DEF x, l
<1>8. Becomes(r, "counting", writer[r], sent[r], scannable[r], hijacked[r],
              strikes[r], clears[r], l)
  BY <1>4, SelfUpdate DEF AuditEmitter, Pass, Go, response, guarded, Becomes
<1>9. Judged("counting", strikes[r], clears[r]) /\ at[r] \in Inside /\ "counting" \in Inside
  BY <1>1 DEF Judged, Inside
<1>10. UNCHANGED <<path, lifecycle, activeConns, requestsTotal>>
  BY DEF AuditEmitter
<1>11. QED
  BY <1>5, <1>6, <1>7, <1>8, <1>9, <1>10, Before, InnerStep

LEMMA MissCounterInv ==
  ASSUME RequestIInv, NEW r \in Requests, MissCounter(r)
  PROVE  RequestIInv'
<1>1. /\ Delivered("counting", writer[r], sent[r], scannable[r])
      /\ Recorded("counting", path[r], writer[r], hijacked[r], audit[r])
      /\ Judged("counting", strikes[r], clears[r])
  BY Before DEF MissCounter, Pass, Go
<1>2. /\ Delivered("creating", writer[r], sent[r], scannable[r])
      /\ Recorded("creating", path[r], writer[r], hijacked[r], audit[r])
      /\ Judged("creating", strikes[r], clears[r])
  BY <1>1 DEF Delivered, Recorded, Judged, Fresh, Answered
<1>3. "counting" \in Inside /\ "creating" \in Inside
  BY DEF Inside
<1>4. QED
  BY <1>2, <1>3, PassStep DEF MissCounter

-------------------------------------------------------------------------------
(***************************************************************************)
(* Coming and going: the steps that change the gauge.                      *)
(***************************************************************************)
LEMMA InsideIsFinite ==
  LET S == {q \in Requests : at[q] \in Inside \cup {"dropped"}}
  IN  IsFiniteSet(S) /\ Cardinality(S) \in Nat
<1> DEFINE S == {q \in Requests : at[q] \in Inside \cup {"dropped"}}
<1>1. S \subseteq Requests
  OBVIOUS
<1>2. IsFiniteSet(S)
  BY <1>1, GatewayAssumption, FS_Subset
<1>3. QED
  BY <1>2, FS_CardinalityType

\* A request enters: the gauge is one more.
LEMMA GaugeUp ==
  ASSUME RequestIInv, NEW r \in Requests, at[r] = "none",
         at' = [at EXCEPT ![r] = "origin"], activeConns' = activeConns + 1
  PROVE  Gauged'
<1> DEFINE S == {q \in Requests : at[q] \in Inside \cup {"dropped"}}
<1>1. {q \in Requests : at'[q] \in Inside \cup {"dropped"}} = S \cup {r}
  BY DEF RequestIInv, RequestTypes, Inside
<1>2. r \notin S
  BY DEF Inside
<1>3. IsFiniteSet(S) /\ Cardinality(S) \in Nat
  BY InsideIsFinite
<1>4. Cardinality(S \cup {r}) = Cardinality(S) + 1
  BY <1>2, <1>3, FS_AddElement
<1>5. QED
  BY <1>1, <1>4 DEF RequestIInv, Gauged

\* A request leaves: the gauge is one less.
LEMMA GaugeDown ==
  ASSUME RequestIInv, NEW r \in Requests, at[r] \in Inside, NEW a \in {"gone", "aborted"},
         at' = [at EXCEPT ![r] = a], activeConns' = activeConns - 1
  PROVE  Gauged'
<1> DEFINE S == {q \in Requests : at[q] \in Inside \cup {"dropped"}}
<1>1. {q \in Requests : at'[q] \in Inside \cup {"dropped"}} = S \ {r}
  BY DEF RequestIInv, RequestTypes, Inside
<1>2. r \in S
  OBVIOUS
<1>3. IsFiniteSet(S) /\ Cardinality(S) \in Nat
  BY InsideIsFinite
<1>4. Cardinality(S \ {r}) = Cardinality(S) - 1
  BY <1>2, <1>3, FS_RemoveElement
<1>5. QED
  BY <1>1, <1>4 DEF RequestIInv, Gauged

LEMMA AcceptInv ==
  ASSUME RequestIInv, NEW r \in Requests, Accept(r)
  PROVE  RequestIInv'
<1>1. PICK p \in Paths : path' = [path EXCEPT ![r] = p]
  BY DEF Accept
<1>2. /\ at[r] = "none" /\ at' = [at EXCEPT ![r] = "origin"] /\ server = "serving"
      /\ activeConns' = activeConns + 1 /\ requestsTotal' = requestsTotal
      /\ server' = server /\ timedOut' = timedOut /\ redis' = redis
  BY DEF Accept, Go, lifecycle
<1>3. Becomes(r, "origin", writer[r], sent[r], scannable[r], hijacked[r],
              strikes[r], clears[r], audit[r])
  BY <1>2, SelfUpdate DEF Accept, response, guarded, Becomes
<1>4. "origin" \in Places
  BY DEF Places, Inside
<1>5. /\ writer[r] \in Writers
      /\ Delivered("none", writer[r], sent[r], scannable[r])
      /\ Recorded("none", path[r], writer[r], hijacked[r], audit[r])
      /\ Judged("none", strikes[r], clears[r])
  BY <1>2, Before
<1>6. /\ Delivered("origin", writer[r], sent[r], scannable[r])
      /\ Recorded("origin", path'[r], writer[r], hijacked[r], audit[r])
      /\ Judged("origin", strikes[r], clears[r])
  <2>1. Delivered("origin", writer[r], sent[r], scannable[r])
    BY <1>5 DEF Delivered, Fresh, Answered
  <2>2. Recorded("origin", path'[r], writer[r], hijacked[r], audit[r])
    BY <1>5 DEF Recorded, Fresh
  <2>3. Judged("origin", strikes[r], clears[r])
    BY <1>5 DEF Judged
  <2>4. QED
    BY <2>1, <2>2, <2>3
<1>7. path' \in [Requests -> Paths] /\ \A q \in Requests : q # r => path'[q] = path[q]
  BY <1>1 DEF RequestIInv, RequestTypes
<1>8. \A q \in Requests : RequestInv(q)'
  BY <1>3, <1>4, <1>5, <1>6, <1>7, MovedInv
<1>9. /\ at' \in [Requests -> Places] /\ writer' \in [Requests -> Writers]
      /\ UNCHANGED <<sent, scannable, hijacked, strikes, clears, audit>>
      /\ at'[r] = "origin" /\ writer'[r] = writer[r]
      /\ \A q \in Requests : q # r => at'[q] = at[q] /\ writer'[q] = writer[q]
  BY <1>3, <1>4, <1>5, MovedTypes
<1>10. RequestTypes'
  BY <1>2, <1>7, <1>9 DEF RequestIInv, RequestTypes, Counted
<1>11. Gauged'
  BY <1>2, GaugeUp
<1>12. CountedOnce'
  <2>1. \A q \in Requests : at'[q] = "gone" <=> at[q] = "gone"
    BY <1>2, <1>9
  <2>2. \A q \in Requests : at[q] = "gone" => writer'[q] = writer[q]
    BY <1>9
  <2>3. QED
    BY <1>2, <2>1, <2>2, CountersKept DEF RequestIInv
<1>13. Drained'
  BY <1>2, <1>9 DEF RequestIInv, Drained
<1>14. QED
  BY <1>8, <1>10, <1>11, <1>12, <1>13 DEF RequestIInv

LEMMA ReplyBreaksInv ==
  ASSUME RequestIInv, NEW r \in Requests, ReplyBreaks(r)
  PROVE  RequestIInv'
<1>1. /\ at[r] = "reply" /\ at' = [at EXCEPT ![r] = "aborted"]
      /\ activeConns' = activeConns - 1 /\ requestsTotal' = requestsTotal
      /\ path' = path /\ UNCHANGED lifecycle
  BY DEF ReplyBreaks, Pass, Go
<1>2. Becomes(r, "aborted", writer[r], sent[r], scannable[r], hijacked[r],
              strikes[r], clears[r], audit[r])
  BY <1>1, SelfUpdate DEF ReplyBreaks, Pass, response, guarded, Becomes
<1>3. "aborted" \in Places
  BY DEF Places
<1>4. /\ writer[r] \in Writers
      /\ Delivered("reply", writer[r], sent[r], scannable[r])
      /\ Recorded("reply", path[r], writer[r], hijacked[r], audit[r])
      /\ Judged("reply", strikes[r], clears[r])
  BY <1>1, Before
<1>5. Delivered("aborted", writer[r], sent[r], scannable[r])
  BY <1>4 DEF Delivered, Fresh, Answered
<1>6. /\ Recorded("aborted", path'[r], writer[r], hijacked[r], audit[r])
      /\ Judged("aborted", strikes[r], clears[r])
  BY <1>1, <1>4 DEF Recorded, Judged, Fresh
<1>7. \A q \in Requests : RequestInv(q)'
  BY <1>1, <1>2, <1>3, <1>4, <1>5, <1>6, MovedInv
<1>8. /\ at' \in [Requests -> Places] /\ writer' \in [Requests -> Writers]
      /\ UNCHANGED <<sent, scannable, hijacked, strikes, clears, audit>>
      /\ at'[r] = "aborted"
      /\ \A q \in Requests : q # r => at'[q] = at[q] /\ writer'[q] = writer[q]
  BY <1>2, <1>3, <1>4, MovedTypes
<1>9. RequestTypes'
  BY <1>1, <1>8 DEF RequestIInv, RequestTypes, lifecycle, Counted
<1>10. Gauged'
  BY <1>1, GaugeDown DEF Inside
<1>11. CountedOnce'
  BY <1>1, <1>8, CountersKept DEF RequestIInv
<1>12. Drained'
  <2>1. "aborted" \notin Inside \cup {"dropped"}
    BY DEF Inside
  <2>2. QED
    BY <1>1, <1>8, <2>1 DEF RequestIInv, Drained, lifecycle
<1>13. QED
  BY <1>7, <1>9, <1>10, <1>11, <1>12 DEF RequestIInv

\* Created is Add when the counter exists, and the counters stay counters.
LEMMA CreatedIs ==
  ASSUME requestsTotal \in [Counted -> Nat], NEW x \in Nat
  PROVE  /\ x \in Counted => Created(x) = Add(x)
         /\ DOMAIN Created(x) = Counted \cup {x}
         /\ Created(x) \in [Counted \cup {x} -> Nat]
         /\ x \in Counted => Created(x)[x] = requestsTotal[x] + 1
         /\ x \notin Counted => Created(x)[x] = 1
         /\ \A y \in Counted : y # x => Created(x)[y] = requestsTotal[y]
<1>1. CASE x \in Counted
  BY <1>1 DEF Created, Add
<1>2. CASE x \notin Counted
  BY <1>2 DEF Created
<1>3. QED
  BY <1>1, <1>2

\* A request that returns with a status adds one to the counter of that status.
LEMMA CountersUp ==
  ASSUME RequestIInv, NEW r \in Requests, at[r] # "gone",
         requestsTotal' = Created(Status(r)), at' = [at EXCEPT ![r] = "gone"],
         Status(r) \in Nat, Status(r)' = Status(r),
         \A q \in Requests : q # r => writer'[q] = writer[q]
  PROVE  CountedOnce'
<1> DEFINE x == Status(r)
           G(s) == {q \in Requests : at[q] = "gone" /\ Status(q) = s}
           H(s) == {q \in Requests : at'[q] = "gone" /\ Status(q)' = s}
<1>1. /\ \A q \in Requests : at[q] = "gone" => Status(q) \in Counted
      /\ \A s \in Counted : requestsTotal[s] = Cardinality(G(s))
  BY DEF RequestIInv, CountedOnce
<1>2. /\ Counted' = Counted \cup {x}
      /\ x \in Counted => requestsTotal'[x] = requestsTotal[x] + 1
      /\ x \notin Counted => requestsTotal'[x] = 1
      /\ \A y \in Counted : y # x => requestsTotal'[y] = requestsTotal[y]
  BY CreatedIs DEF RequestIInv, RequestTypes, Counted
<1>3. /\ at'[r] = "gone" /\ Status(r)' = x
      /\ \A q \in Requests : q # r => at'[q] = at[q] /\ Status(q)' = Status(q)
  BY DEF RequestIInv, RequestTypes, Status
<1>4. \A q \in Requests : at'[q] = "gone" => Status(q)' \in Counted'
  BY <1>1, <1>2, <1>3
<1>5. H(x) = G(x) \cup {r} /\ r \notin G(x)
  BY <1>3
<1>6. \A y : y # x => H(y) = G(y)
  BY <1>3
<1>7. IsFiniteSet(G(x)) /\ Cardinality(G(x)) \in Nat
  <2>1. G(x) \subseteq Requests
    OBVIOUS
  <2>2. QED
    BY <2>1, GatewayAssumption, FS_Subset, FS_CardinalityType
<1>8. Cardinality(H(x)) = Cardinality(G(x)) + 1
  BY <1>5, <1>7, FS_AddElement
<1>9. requestsTotal'[x] = Cardinality(H(x))
  <2>1. CASE x \in Counted
    BY <1>1, <1>2, <1>8, <2>1
  <2>2. CASE x \notin Counted
    <3>1. G(x) = {}
      BY <1>1, <2>2
    <3>2. Cardinality(G(x)) = 0
      BY <3>1, FS_EmptySet
    <3>3. QED
      BY <1>2, <1>8, <2>2, <3>2
  <2>3. QED
    BY <2>1, <2>2
<1>10. \A s \in Counted' : requestsTotal'[s] = Cardinality(H(s))
  <2> TAKE s \in Counted'
  <2>1. CASE s = x
    BY <1>9, <2>1
  <2>2. CASE s # x
    BY <1>1, <1>2, <1>6, <2>2
  <2>3. QED
    BY <2>1, <2>2
<1>11. QED
  BY <1>4, <1>10 DEF CountedOnce

LEMMA LeaveInv ==
  ASSUME RequestIInv, NEW r \in Requests, NEW from \in {"counting", "creating"},
         Leave(r, from), requestsTotal' = Created(Status(r))
  PROVE  RequestIInv'
<1> DEFINE w == writer[r]
           v == IF hijacked[r] THEN w ELSE SendBytes(w, <<>>)
<1>1. /\ at[r] = from /\ at' = [at EXCEPT ![r] = "gone"]
      /\ writer' = [writer EXCEPT ![r] = v]
      /\ activeConns' = activeConns - 1 /\ path' = path /\ UNCHANGED lifecycle
  BY DEF Leave, Go
<1>2. /\ w \in Writers /\ hijacked[r] \in BOOLEAN
      /\ Delivered(from, w, sent[r], scannable[r])
      /\ Recorded(from, path[r], w, hijacked[r], audit[r])
      /\ Judged(from, strikes[r], clears[r])
  BY <1>1, Before
<1>3. /\ v \in Writers /\ v.body = w.body /\ v.buf = w.buf
      /\ hijacked[r] => v.seen = w.seen /\ v.code = w.code
      /\ ~hijacked[r] => /\ v.seen = IF w.seen = 0 THEN 200 ELSE w.seen
                         /\ v.code = IF w.code = 0 THEN 200 ELSE w.code
  <2>1. <<>> \in Seq(Int) /\ w.body \o <<>> = w.body
    BY <1>2, ConcatEmptySeq DEF Writers
  <2>2. CASE hijacked[r]
    BY <1>2, <2>2
  <2>3. CASE ~hijacked[r]
    BY <1>2, <2>1, <2>3, SendBytesIs
  <2>4. QED
    BY <2>2, <2>3
<1>4. Status(r) = (IF w.seen = 0 THEN 200 ELSE w.seen) /\ Status(r) \in Nat
  BY <1>2 DEF Status, Writers
<1>5. writer'[r] = v /\ at'[r] = "gone"
  BY <1>1 DEF RequestIInv, RequestTypes
<1>6. Status(r)' = IF v.seen = 0 THEN 200 ELSE v.seen
  BY <1>5 DEF Status
<1> HIDE DEF w, v
<1>7. Status(r)' = Status(r)
  BY <1>2, <1>3, <1>4, <1>6
<1>8. Delivered("gone", v, sent[r], scannable[r])
  BY <1>2, <1>3 DEF Delivered, Complete, Fresh, Answered
<1>9. Recorded("gone", path'[r], v, hijacked[r], audit[r])
  <2>1. w.seen \in {Interim, w.code} /\ w.code # Interim
    BY <1>2 DEF Recorded
  <2>2. /\ v.seen \in {Interim, v.code} /\ v.code # Interim
        /\ ~hijacked[r] => v.seen # 0
    BY <1>2, <1>3, <2>1 DEF Interim
  <2>3. path[r] # "probe" => audit[r] = <<IF w.seen = 0 THEN 200 ELSE w.seen>>
    BY <1>2 DEF Recorded
  <2>4. path[r] # "probe" => audit[r] = <<IF v.seen = 0 THEN 200 ELSE v.seen>>
    BY <1>2, <1>3, <2>3
  <2>5. QED
    BY <1>1, <2>2, <2>4 DEF Recorded, Fresh
<1>10. Judged("gone", strikes[r], clears[r]) /\ "gone" \in Places
  BY <1>2 DEF Judged, Places
<1>11. Becomes(r, "gone", v, sent[r], scannable[r], hijacked[r],
               strikes[r], clears[r], audit[r])
  BY <1>1, SelfUpdate DEF Leave, guarded, Becomes
<1>12. \A q \in Requests : RequestInv(q)'
  BY <1>1, <1>3, <1>8, <1>9, <1>10, <1>11, MovedInv
<1>13. /\ at' \in [Requests -> Places] /\ writer' \in [Requests -> Writers]
       /\ UNCHANGED <<sent, scannable, hijacked, strikes, clears, audit>>
       /\ \A q \in Requests : q # r => at'[q] = at[q] /\ writer'[q] = writer[q]
  BY <1>3, <1>10, <1>11, MovedTypes
<1>14. RequestTypes'
  <2>1. requestsTotal' \in [Counted' -> Nat]
    BY <1>4, CreatedIs DEF RequestIInv, RequestTypes, Counted
  <2>2. QED
    BY <1>1, <1>13, <2>1 DEF RequestIInv, RequestTypes, lifecycle
<1>15. at[r] \in Inside
  BY <1>1 DEF Inside
<1>16. Gauged'
  BY <1>1, <1>15, GaugeDown
<1>17. CountedOnce'
  BY <1>1, <1>4, <1>7, <1>13, CountersUp
<1>18. Drained'
  <2>1. "gone" \notin Inside \cup {"dropped"}
    BY DEF Inside
  <2>2. QED
    BY <1>1, <1>5, <1>13, <2>1 DEF RequestIInv, Drained, lifecycle
<1>19. QED
  BY <1>12, <1>14, <1>16, <1>17, <1>18 DEF RequestIInv

LEMMA CountInv ==
  ASSUME RequestIInv, NEW r \in Requests, Count(r)
  PROVE  RequestIInv'
<1>1. requestsTotal \in [Counted -> Nat] /\ Status(r) \in Nat
  BY Before DEF RequestIInv, RequestTypes, Status, Writers
<1>2. requestsTotal' = Created(Status(r))
  BY <1>1, CreatedIs DEF Count
<1>3. QED
  BY <1>2, LeaveInv DEF Count

LEMMA CreateCounterInv ==
  ASSUME RequestIInv, NEW r \in Requests, CreateCounter(r)
  PROVE  RequestIInv'
BY LeaveInv DEF CreateCounter

-------------------------------------------------------------------------------
(***************************************************************************)
(* The shutdown.                                                           *)
(***************************************************************************)
\* A step of main alone.
LEMMA LifecycleStep ==
  ASSUME RequestIInv, UNCHANGED <<at, path, response, hijacked, guarded, recorded>>,
         server' \in Servers, timedOut' \in BOOLEAN, redis' \in BOOLEAN, Drained'
  PROVE  RequestIInv'
<1> USE DEF response, guarded, recorded
<1>1. RequestTypes'
  BY DEF RequestIInv, RequestTypes, Counted
<1>2. \A q \in Requests : RequestInv(q)'
  BY DEF RequestIInv, RequestInv
<1>3. Gauged' /\ CountedOnce'
  BY GaugeKept, CountersKept DEF RequestIInv
<1>4. QED
  BY <1>1, <1>2, <1>3 DEF RequestIInv

LEMMA SignalInv ==
  ASSUME RequestIInv, Signal
  PROVE  RequestIInv'
<1>1. /\ server' \in Servers /\ timedOut' \in BOOLEAN /\ redis' \in BOOLEAN
  BY DEF Signal, Servers, RequestIInv, RequestTypes
<1>2. Drained'
  BY DEF Signal, RequestIInv, Drained
<1>3. QED
  BY <1>1, <1>2, LifecycleStep DEF Signal

LEMMA DrainInv ==
  ASSUME RequestIInv, Drain
  PROVE  RequestIInv'
<1>1. timedOut' \in BOOLEAN
  BY DEF Drain, RequestIInv, RequestTypes
<1>2. server' \in Servers /\ redis' \in BOOLEAN
  BY DEF Drain, Servers, RequestIInv, RequestTypes
<1>3. Drained'
  <2>1. redis /\ \A q \in Requests : at[q] # "dropped"
    BY DEF Drain, RequestIInv, Drained, RequestTypes
  <2>2. CASE (\A q \in Requests : at[q] \in Inside => hijacked[q]) /\ UNCHANGED timedOut
    BY <2>1, <2>2 DEF Drain, Drained
  <2>3. CASE timedOut' = TRUE
    BY <2>1, <2>3 DEF Drain, Drained
  <2>4. QED
    BY <2>2, <2>3 DEF Drain
<1>4. QED
  BY <1>1, <1>2, <1>3, LifecycleStep DEF Drain

LEMMA CloseRedisInv ==
  ASSUME RequestIInv, CloseRedis
  PROVE  RequestIInv'
<1>1. /\ server' \in Servers /\ timedOut' \in BOOLEAN /\ redis' \in BOOLEAN
  BY DEF CloseRedis, Servers, RequestIInv, RequestTypes
<1>2. Drained'
  BY DEF CloseRedis, RequestIInv, Drained
<1>3. QED
  BY <1>1, <1>2, LifecycleStep DEF CloseRedis

LEMMA ExitInv ==
  ASSUME RequestIInv, Exit
  PROVE  RequestIInv'
<1>1. \A q \in Requests : at'[q] = IF at[q] \in Inside THEN "dropped" ELSE at[q]
  BY DEF Exit
<1>2. at' \in [Requests -> Places]
  BY DEF Exit, RequestIInv, RequestTypes, Places
<1>3. RequestTypes'
  BY <1>2 DEF Exit, RequestIInv, RequestTypes, Servers, Counted, response, guarded, recorded
<1>4. \A q \in Requests : at'[q] \in Inside \cup {"dropped"} <=> at[q] \in Inside \cup {"dropped"}
  BY <1>1
<1>5. \A q \in Requests : at'[q] = "gone" <=> at[q] = "gone"
  BY <1>1 DEF Inside
<1>6. \A q \in Requests : RequestInv(q)'
  <2> TAKE q \in Requests
  <2>1. /\ Delivered(at[q], writer[q], sent[q], scannable[q])
        /\ Recorded(at[q], path[q], writer[q], hijacked[q], audit[q])
        /\ Judged(at[q], strikes[q], clears[q])
    BY Before
  <2>2. /\ Delivered("dropped", writer[q], sent[q], scannable[q])
        /\ Recorded("dropped", path[q], writer[q], hijacked[q], audit[q])
        /\ Judged("dropped", strikes[q], clears[q])
    BY <2>1 DEF Delivered, Recorded, Judged, Fresh, Answered
  <2>3. at'[q] \in {at[q], "dropped"}
    BY <1>1
  <2>4. UNCHANGED <<path, writer, sent, scannable, hijacked, strikes, clears, audit>>
    BY DEF Exit, response, guarded, recorded
  <2>5. QED
    BY <2>1, <2>2, <2>3, <2>4 DEF RequestInv
<1>7. Gauged' /\ CountedOnce'
  BY <1>4, <1>5, GaugeKept, CountersKept DEF Exit, RequestIInv, response, recorded
<1>8. Drained'
  BY <1>4 DEF Exit, RequestIInv, Drained
<1>9. QED
  BY <1>3, <1>6, <1>7, <1>8 DEF RequestIInv

-------------------------------------------------------------------------------
(***************************************************************************)
(* The invariant.                                                          *)
(***************************************************************************)
LEMMA InitRequestIInv == Init => RequestIInv
<1> SUFFICES ASSUME Init PROVE RequestIInv
  OBVIOUS
<1>1. /\ NewWriter \in Writers /\ NewWriter.seen = 0 /\ NewWriter.code = 0
      /\ NewWriter.body = <<>> /\ NewWriter.buf = <<>> /\ ~NewWriter.passthrough
  BY DEF NewWriter, Writers
<1>2. RequestTypes
  <2>1. <<>> \in Seq(Nat) /\ requestsTotal \in [Counted -> Nat]
    BY DEF Init, Counted
  <2>2. "none" \in Places /\ "page" \in Paths /\ "serving" \in Servers
    BY DEF Places, Paths, Servers
  <2>3. /\ at \in [Requests -> Places] /\ path \in [Requests -> Paths]
        /\ writer \in [Requests -> Writers] /\ server \in Servers
    BY <1>1, <2>2 DEF Init
  <2>4. /\ sent \in [Requests -> Nat] /\ strikes \in [Requests -> Nat]
        /\ clears \in [Requests -> Nat] /\ audit \in [Requests -> Seq(Nat)] /\ activeConns \in Int
    BY <2>1 DEF Init
  <2>5. /\ scannable \in [Requests -> BOOLEAN] /\ hijacked \in [Requests -> BOOLEAN]
        /\ timedOut \in BOOLEAN /\ redis \in BOOLEAN
    BY Zenon DEF Init
  <2>6. QED
    BY <2>1, <2>3, <2>4, <2>5 DEF RequestTypes
<1>3. \A r \in Requests : RequestInv(r)
  <2> TAKE r \in Requests
  <2>1. /\ at[r] = "none" /\ writer[r] = NewWriter /\ sent[r] = 0 /\ audit[r] = <<>>
        /\ strikes[r] = 0 /\ clears[r] = 0
    BY DEF Init
  <2>2. Delivered("none", NewWriter, 0, scannable[r])
    BY <1>1, NoPieces DEF Delivered, Flowing, Fresh, Answered
  <2>3. Recorded("none", path[r], NewWriter, hijacked[r], <<>>)
    BY <1>1 DEF Recorded, Interim
  <2>4. Judged("none", 0, 0)
    BY DEF Judged
  <2>5. QED
    BY <2>1, <2>2, <2>3, <2>4 DEF RequestInv
<1>4. Gauged
  <2>1. {r \in Requests : at[r] \in Inside \cup {"dropped"}} = {}
    BY DEF Init, Inside
  <2>2. QED
    BY <2>1, FS_EmptySet DEF Gauged, Init
<1>5. CountedOnce
  BY DEF Init, CountedOnce, Counted
<1>6. Drained
  BY DEF Init, Drained
<1>7. QED
  BY <1>2, <1>3, <1>4, <1>5, <1>6 DEF RequestIInv

LEMMA NextRequestIInv == RequestIInv /\ [Next]_vars => RequestIInv'
<1> SUFFICES ASSUME RequestIInv, [Next]_vars PROVE RequestIInv'
  OBVIOUS
<1>1. ASSUME NEW r \in Requests, Step(r) PROVE RequestIInv'
  BY <1>1, AcceptInv, OriginCheckInv, BruteForceMiddlewareInv, EndpointRateLimitInv,
     RateLimitWithGuardInv, AuthRequiredWithGuardInv, ProbeInv, AdminInv, OpenTunnelInv,
     TunnelEndsInv, BodyScannerInv, BackendUnavailableInv, InterimReplyInv, ReplyInv,
     PieceInv, ReplyEndsInv, ReplyBreaksInv, OutputScanInv, AuditEmitterInv, CountInv,
     MissCounterInv, CreateCounterInv DEF Step
<1>2. CASE UNCHANGED vars
  <2>1. UNCHANGED <<server, timedOut, redis, at, path, response, hijacked, guarded, recorded>>
    BY <1>2 DEF vars, lifecycle
  <2>2. Drained'
    BY <2>1 DEF RequestIInv, Drained
  <2>3. server' \in Servers /\ timedOut' \in BOOLEAN /\ redis' \in BOOLEAN
    BY <2>1 DEF RequestIInv, RequestTypes
  <2>4. QED
    BY <2>1, <2>2, <2>3, LifecycleStep
<1>3. QED
  BY <1>1, <1>2, SignalInv, DrainInv, CloseRedisInv, ExitInv DEF Next

LEMMA AlwaysRequestIInv == Spec => []RequestIInv
BY InitRequestIInv, NextRequestIInv, PTL DEF Spec

(***************************************************************************)
(* A request is reported to the guard at most once as a failure and once   *)
(* as a success, and the gauge of active connections is the number of the  *)
(* requests inside, however each of the others left.                       *)
(***************************************************************************)
THEOREM RequestTypeCorrect == Spec => []TypeOK
<1>1. RequestIInv => TypeOK
  <2> SUFFICES ASSUME RequestIInv PROVE TypeOK
    OBVIOUS
  <2>1. \A r \in Requests : strikes[r] \in 0 .. 2 /\ clears[r] \in 0 .. 1
    BY Before DEF Judged
  <2>2. strikes \in [Requests -> 0 .. 2] /\ clears \in [Requests -> 0 .. 1]
    BY <2>1 DEF RequestIInv, RequestTypes
  <2>3. QED
    BY <2>2 DEF TypeOK, RequestIInv, RequestTypes, Places, Gauged
<1>2. QED
  BY <1>1, AlwaysRequestIInv, PTL

(***************************************************************************)
(* However the requests, the creation of their counters and the shutdown   *)
(* interleave: each request that returned is in the audit log once with    *)
(* the status its client got and in the counter of its status once, is     *)
(* told to the guard at most once, and is not cut off by a shutdown that   *)
(* had the time to drain.                                                  *)
(***************************************************************************)
THEOREM RequestsAccounted == Spec => []RequestAccounted
<1>1. RequestIInv => RequestAccounted
  <2> SUFFICES ASSUME RequestIInv PROVE RequestAccounted
    OBVIOUS
  <2>1. AuditedAsAnswered
    <3> SUFFICES ASSUME NEW r \in Requests, at[r] = "gone", path[r] # "probe"
                 PROVE  /\ Len(audit[r]) = 1
                        /\ hijacked[r] \/ InterimSent(r) \/ audit[r] = <<writer[r].code>>
      BY DEF AuditedAsAnswered
    <3>1. /\ writer[r].seen \in {Interim, writer[r].code}
          /\ hijacked[r] \/ writer[r].seen # 0
          /\ audit[r] = <<IF writer[r].seen = 0 THEN 200 ELSE writer[r].seen>>
      BY Before DEF Recorded
    <3>2. QED
      BY <3>1 DEF InterimSent
  <2>2. JudgedOnce
    BY Before DEF JudgedOnce, Judged
  <2>3. NoneDropped
    BY DEF NoneDropped, RequestIInv, Drained, RequestTypes, Servers
  <2>4. QED
    BY <2>1, <2>2, <2>3 DEF RequestAccounted, RequestIInv
<1>2. QED
  BY <1>1, AlwaysRequestIInv, PTL

LEMMA ReceivedPieces ==
  ASSUME NEW r \in Requests, NEW n \in Nat,
         writer[r].body \in {Numbered(n), SanitizeOutput(Numbered(n))}
  PROVE  /\ Len(writer[r].body) = n
         /\ Received(r) = [i \in 1 .. n |-> i]
         /\ \/ \A i \in DOMAIN writer[r].body : writer[r].body[i] < 0
            \/ \A i \in DOMAIN writer[r].body : writer[r].body[i] > 0
<1> DEFINE body == writer[r].body
<1>1. /\ Numbered(n) \in Seq(Int) /\ Len(Numbered(n)) = n
      /\ \A i \in 1 .. n : Numbered(n)[i] = i
  BY NumberedPieces
<1>2. CASE body = Numbered(n)
  <2>1. DOMAIN body = 1 .. n /\ \A i \in 1 .. n : body[i] = i
    BY <1>1, <1>2
  <2>2. QED
    BY <1>1, <1>2, <2>1 DEF Received
<1>3. CASE body = SanitizeOutput(Numbered(n))
  <2>1. body \in Seq(Int) /\ Len(body) = n /\ \A i \in 1 .. n : body[i] = -i
    BY <1>1, <1>3, SanitizedPieces
  <2>2. DOMAIN body = 1 .. n
    BY <2>1
  <2>3. \A i \in 1 .. n : body[i] < 0 /\ -body[i] = i
    BY <2>1
  <2>4. QED
    BY <2>1, <2>2, <2>3 DEF Received
<1>4. QED
  BY <1>2, <1>3

(***************************************************************************)
(* However large the response and the scanner's buffer: the client has a   *)
(* prefix of the backend's pieces at any moment and all of them at the     *)
(* end, each once and in order, sanitized in whole or not at all, and none *)
(* of a scannable response that fits leaves before it is scanned.          *)
(***************************************************************************)
THEOREM ResponseDelivered == Spec => []DeliveredWhole
<1>1. RequestIInv => DeliveredWhole
  <2> SUFFICES ASSUME RequestIInv, NEW r \in Requests
               PROVE  LET body == writer[r].body IN
                      /\ Received(r) = [i \in 1 .. Len(body) |-> i]
                      /\ Len(body) <= sent[r]
                      /\ at[r] = "gone" => Len(body) = sent[r]
                      /\ \/ \A i \in DOMAIN body : body[i] < 0
                         \/ \A i \in DOMAIN body : body[i] > 0
                      /\ at[r] = "reply" /\ scannable[r] /\ sent[r] <= MaxScan
                            /\ ~InterimSent(r) => body = <<>>
    BY DEF DeliveredWhole
  <2> DEFINE body == writer[r].body
             Full == body \in {Numbered(sent[r]), SanitizeOutput(Numbered(sent[r]))}
  <2>1. sent[r] \in Nat /\ Delivered(at[r], writer[r], sent[r], scannable[r])
    BY Before
  <2>2. body = <<>> \/ Full
    BY <2>1 DEF Delivered, Flowing, Complete
  <2>3. at[r] = "gone" => Full
    BY <2>1 DEF Delivered, Complete, Answered
  <2>4. at[r] = "reply" /\ scannable[r] /\ sent[r] <= MaxScan /\ ~InterimSent(r) => body = <<>>
    BY <2>1, OutputScannerAssumption DEF Delivered, Flowing, InterimSent, Answered
  <2>5. CASE Full
    BY <2>1, <2>4, <2>5, ReceivedPieces
  <2>6. CASE body = <<>> /\ ~Full
    <3>1. body = Numbered(0) /\ Len(body) = 0
      BY <2>6, NoPieces
    <3>2. /\ Received(r) = [i \in 1 .. 0 |-> i]
          /\ (\A i \in DOMAIN body : body[i] < 0) \/ (\A i \in DOMAIN body : body[i] > 0)
      BY <3>1, ReceivedPieces
    <3>3. QED
      BY <2>1, <2>3, <2>4, <2>6, <3>1, <3>2
  <2>7. QED
    BY <2>2, <2>5, <2>6
<1>2. QED
  BY <1>1, AlwaysRequestIInv, PTL
===============================================================================

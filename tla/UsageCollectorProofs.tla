-------------------------- MODULE UsageCollectorProofs --------------------------
(***************************************************************************)
(* Proofs about UsageCollector, for any capacity of the channel, any       *)
(* thresholds, longest pause, number of connections, days and costs: the   *)
(* types; that no alarm is false; that the data are as new as the          *)
(* connection; and that they change in fetchUsage only.                    *)
(*                                                                         *)
(* What is published has travelled: OpenClaw answers with what holds then, *)
(* the frame waits on the wire, and midnight may pass before it is read.   *)
(* So the invariant speaks of every frame that may become the data.        *)
(***************************************************************************)
EXTENDS UsageCollector, SequenceTheorems, FiniteSetTheorems, TLAPS

Frames == [id : Nat, ok : BOOLEAN, usage : Usage \cup {NoUsage}]
Kinds == {"connect", "cost", "sessions"}
Requests == [id : Nat, kind : Kinds]
CostId == ConnectId + 1

\* A summary is not of the future, and does not exceed what its day has cost.
Honest(u, day, cost) ==
  u # NoUsage => u.day <= day /\ (u.day = day => u.cost <= cost)

\* A frame of this connection; while the cost is awaited, its answer is as new as that.
Sound(f, n, p, s, day, cost) ==
  /\ f.id <= n
  /\ Honest(f.usage, day, cost)
  /\ p = "fetch" /\ f.id = CostId /\ f.ok => f.usage \in Usage /\ NotOlder(f.usage, s)

\* So is a request; and the cost is what the second one asks for.
Proper(r, n, p) == r.id \in 1 .. n /\ (p = "fetch" /\ r.id = CostId => r.kind = "cost")

Types ==
  /\ today \in 1 .. MaxDay /\ spent \in 0 .. MaxSpent
  /\ opened \in 0 .. MaxConnections /\ ticks \in 0 .. MaxTicks
  /\ pc \in {"start", "dial", "challenge", "hello", "fetch", "loop", "cost", "sessions",
             "backoff", "ended"}
  /\ status \in {"connecting", "connected", "error"}
  /\ data \in Usage \cup {NoUsage} /\ since \in Usage \cup {NoUsage}
  /\ sessions \in BOOLEAN /\ stopped \in BOOLEAN
  /\ backoff \in 1 .. MaxBackoff
  /\ lastId \in Nat
  /\ wire \in Seq(Frames) /\ frames \in Seq(Frames) /\ backlog \subseteq Requests
  /\ awaited \in [cost : Nat, sessions : Nat]
  /\ reader \in {"none", "reading", "failed"}
  /\ Len(frames) <= FrameCap + 1

\* No response is ever handed to the ticker's branch, which is why the data stay.
Unrouted ==
  /\ slot = {}
  /\ IF pc \in {"cost", "sessions"} THEN pending = {lastId} /\ lastId > 0 ELSE pending = {}

Connecting == {"challenge", "hello", "fetch"}

\* Where the connection is, and what has been asked on it.
Progress ==
  /\ pc \in {"start", "dial", "challenge", "backoff", "ended"} => lastId = 0
  /\ pc = "hello" => lastId = ConnectId
  /\ pc = "fetch" => lastId = ConnectId + 2 /\ awaited.cost \in {0, CostId}
  /\ pc = "fetch" /\ awaited.cost = 0 => NotOlder(data, since)
  /\ pc \in Connecting => since \in Usage

Truthful ==
  /\ Honest(data, today, spent)
  /\ Honest(since, today, spent)
  /\ \A i \in 1 .. Len(wire) : Sound(wire[i], lastId, pc, since, today, spent)
  /\ \A r \in backlog : Proper(r, lastId, pc)

IInv == Types /\ Unrouted /\ Progress /\ Truthful

-------------------------------------------------------------------------------
(***************************************************************************)
(* Summaries and frames                                                    *)
(***************************************************************************)
LEMMA Constants ==
  /\ FrameCap \in Nat /\ FrameCap > 0 /\ WarnUSD \in Nat /\ WarnUSD > 0
  /\ CritUSD \in Nat /\ CritUSD > 0 /\ MaxBackoff \in Nat /\ MaxBackoff > 0
  /\ MaxDay \in Nat /\ MaxDay > 0
  /\ MaxConnections \in Nat /\ MaxTicks \in Nat /\ MaxSpent \in Nat
BY UsageCollectorAssumption

LEMMA UsageTypes ==
  /\ \A u \in Usage : u.day \in 1 .. MaxDay /\ u.cost \in 0 .. MaxSpent /\ u # NoUsage
  /\ NoUsage.day = 0 /\ NoUsage.cost = 0
BY Constants DEF Usage, NoUsage

\* Spending more, or the next day, makes no summary dishonest.
LEMMA HonestLater ==
  ASSUME NEW u \in Usage \cup {NoUsage}, NEW d \in Nat, NEW c \in Nat, NEW e \in Nat, NEW x \in Nat,
         Honest(u, d, c), d < e \/ (d = e /\ c <= x)
  PROVE  Honest(u, e, x)
<1>1. CASE u = NoUsage
  BY <1>1 DEF Honest
<1>2. CASE u \in Usage
  <2>1. u.day \in Nat /\ u.cost \in Nat
    BY <1>2, UsageTypes, Constants
  <2>2. u # NoUsage => u.day <= d /\ (u.day = d => u.cost <= c)
    BY DEF Honest
  <2>3. u # NoUsage => u.day <= e /\ (u.day = e => u.cost <= x)
    BY <2>1, <2>2
  <2>4. QED
    BY <2>3 DEF Honest
<1>3. QED
  BY <1>1, <1>2

\* What holds now is honest, and not older than anything honest.
LEMMA CurrentFresh ==
  ASSUME Types
  PROVE  /\ Current \in Usage /\ Honest(Current, today, spent)
         /\ \A u \in Usage : Honest(u, today, spent) => NotOlder(Current, u)
<1>1. today \in 1 .. MaxDay /\ spent \in 0 .. MaxSpent /\ today \in Nat /\ spent \in Nat
  BY Constants DEF Types
<1>2. Current.day = today /\ Current.cost = spent /\ Current \in Usage
  BY <1>1 DEF Current, Usage
<1>3. Honest(Current, today, spent)
  BY <1>1, <1>2 DEF Honest
<1>4. ASSUME NEW u \in Usage, Honest(u, today, spent) PROVE NotOlder(Current, u)
  <2>1. u.day \in Nat /\ u.cost \in Nat /\ u # NoUsage
    BY UsageTypes, Constants
  <2>2. u.day <= today /\ (u.day = today => u.cost <= spent)
    BY <1>4, <2>1 DEF Honest
  <2>3. today > u.day \/ (today = u.day /\ spent >= u.cost)
    BY <1>1, <2>1, <2>2
  <2>4. QED
    BY <1>2, <2>3 DEF NotOlder
<1>5. QED
  BY <1>2, <1>3, <1>4

\* Reading the first frame.
LEMMA TailFrames ==
  ASSUME NEW w \in Seq(Frames), w # <<>>, NEW n, NEW p, NEW s, NEW d, NEW c,
         \A i \in 1 .. Len(w) : Sound(w[i], n, p, s, d, c)
  PROVE  /\ Head(w) \in Frames /\ Sound(Head(w), n, p, s, d, c)
         /\ Tail(w) \in Seq(Frames) /\ Len(Tail(w)) = Len(w) - 1
         /\ \A i \in 1 .. Len(Tail(w)) : Sound(Tail(w)[i], n, p, s, d, c)
<1>1. /\ Head(w) \in Frames /\ Tail(w) \in Seq(Frames) /\ Len(Tail(w)) = Len(w) - 1
      /\ \A i \in 1 .. Len(Tail(w)) : Tail(w)[i] = w[i + 1]
  BY HeadTailProperties
<1>2. Head(w) = w[1] /\ Len(w) \in Nat /\ Len(w) # 0
  BY EmptySeq, LenProperties
<1>3. 1 \in 1 .. Len(w) /\ \A i \in 1 .. Len(Tail(w)) : i + 1 \in 1 .. Len(w)
  BY <1>1, <1>2
<1>4. QED
  BY <1>1, <1>2, <1>3

\* Sending one more.
LEMMA AppendFrames ==
  ASSUME NEW w \in Seq(Frames), NEW f \in Frames, NEW n, NEW p, NEW s, NEW d, NEW c,
         \A i \in 1 .. Len(w) : Sound(w[i], n, p, s, d, c), Sound(f, n, p, s, d, c)
  PROVE  /\ Append(w, f) \in Seq(Frames) /\ Len(Append(w, f)) = Len(w) + 1
         /\ \A i \in 1 .. Len(Append(w, f)) : Sound(Append(w, f)[i], n, p, s, d, c)
<1>1. /\ Append(w, f) \in Seq(Frames) /\ Len(Append(w, f)) = Len(w) + 1 /\ Len(w) \in Nat
      /\ \A i \in 1 .. Len(w) : Append(w, f)[i] = w[i]
      /\ Append(w, f)[Len(w) + 1] = f
  BY AppendProperties, LenProperties
<1>2. \A i \in 1 .. Len(w) + 1 : i \in 1 .. Len(w) \/ i = Len(w) + 1
  BY <1>1
<1>3. QED
  BY <1>1, <1>2

\* A frame without a summary, of an event or a failure.
LEMMA EmptyFrame ==
  ASSUME NEW i \in Nat, NEW ok \in BOOLEAN, NEW n \in Nat, i <= n, NEW p, NEW s, NEW d, NEW c,
         p = "fetch" /\ i = CostId => ~ok
  PROVE  Frame(i, ok, NoUsage) \in Frames /\ Sound(Frame(i, ok, NoUsage), n, p, s, d, c)
<1>1. /\ Frame(i, ok, NoUsage).id = i /\ Frame(i, ok, NoUsage).usage = NoUsage
      /\ Frame(i, ok, NoUsage).ok = ok
      /\ Frame(i, ok, NoUsage) \in Frames
  BY DEF Frame, Frames
<1>2. QED
  BY <1>1 DEF Sound, Honest

\* More requests, or the end of the fetch, make no frame unsound.
LEMMA SoundLater ==
  ASSUME NEW f \in Frames, NEW n \in Nat, NEW m \in Nat, n <= m, NEW p, NEW q, NEW s, NEW t,
         NEW d, NEW c, Sound(f, n, p, s, d, c),
         q = "fetch" => (p = "fetch" /\ s = t) \/ n < CostId
  PROVE  Sound(f, m, q, t, d, c)
<1>1. f.id \in Nat
  BY DEF Frames
<1>2. f.id <= m
  BY <1>1 DEF Sound
<1>3. q = "fetch" /\ f.id = CostId /\ f.ok => f.usage \in Usage /\ NotOlder(f.usage, t)
  <2>1. CASE p = "fetch" /\ s = t
    BY <2>1 DEF Sound
  <2>2. CASE n < CostId
    <3>1. f.id # CostId
      BY <1>1, <2>2 DEF Sound, CostId, ConnectId
    <3>2. QED
      BY <3>1
  <2>3. QED
    BY <2>1, <2>2
<1>4. QED
  BY <1>2, <1>3 DEF Sound

\* What the frames on the wire are, by IInv.
LEMMA WireFrames ==
  ASSUME IInv
  PROVE  /\ wire \in Seq(Frames) /\ Len(wire) \in Nat
         /\ \A i \in 1 .. Len(wire) : wire[i] \in Frames
                                      /\ Sound(wire[i], lastId, pc, since, today, spent)
         /\ lastId \in Nat
         /\ wire # <<>> =>
              /\ Head(wire) \in Frames /\ Tail(wire) \in Seq(Frames)
              /\ Sound(Head(wire), lastId, pc, since, today, spent)
              /\ \A i \in 1 .. Len(Tail(wire)) :
                   /\ Tail(wire)[i] \in Frames
                   /\ Sound(Tail(wire)[i], lastId, pc, since, today, spent)
<1>1. /\ wire \in Seq(Frames) /\ lastId \in Nat
      /\ \A i \in 1 .. Len(wire) : Sound(wire[i], lastId, pc, since, today, spent)
  BY DEF IInv, Types, Truthful
<1>2. Len(wire) \in Nat /\ \A i \in 1 .. Len(wire) : wire[i] \in Frames
  BY <1>1, ElementOfSeq, LenProperties
<1>3. ASSUME wire # <<>>
      PROVE  /\ Head(wire) \in Frames /\ Tail(wire) \in Seq(Frames)
             /\ Sound(Head(wire), lastId, pc, since, today, spent)
             /\ \A i \in 1 .. Len(Tail(wire)) : Sound(Tail(wire)[i], lastId, pc, since, today, spent)
  BY <1>1, <1>3, TailFrames
<1>4. wire # <<>> => \A i \in 1 .. Len(Tail(wire)) : Tail(wire)[i] \in Frames
  BY <1>3, ElementOfSeq
<1>5. QED
  BY <1>1, <1>2, <1>3, <1>4

-------------------------------------------------------------------------------
(***************************************************************************)
(* Every step preserves the invariant                                      *)
(***************************************************************************)
LEMMA InitIInv == Init => IInv
<1> SUFFICES ASSUME Init PROVE IInv
  OBVIOUS
<1>1. /\ today = 1 /\ spent = 0 /\ opened = 0 /\ ticks = 0 /\ lastId = 0 /\ backoff = 1
      /\ wire = <<>> /\ frames = <<>> /\ backlog = {} /\ slot = {} /\ pending = {}
      /\ awaited = [cost |-> 0, sessions |-> 0]
      /\ data = NoUsage /\ since = NoUsage /\ sessions = FALSE /\ stopped = FALSE
      /\ pc = "start" /\ status = "connecting" /\ reader = "none"
  BY DEF Init
<1>2. /\ today \in 1 .. MaxDay /\ spent \in 0 .. MaxSpent
      /\ opened \in 0 .. MaxConnections /\ ticks \in 0 .. MaxTicks
      /\ backoff \in 1 .. MaxBackoff /\ lastId \in Nat
  BY <1>1, Constants
<1>3. /\ wire \in Seq(Frames) /\ frames \in Seq(Frames) /\ backlog \subseteq Requests
      /\ Len(frames) <= FrameCap + 1 /\ Len(wire) = 0
  BY <1>1, EmptySeq, Constants
<1>4. awaited \in [cost : Nat, sessions : Nat]
  BY <1>1
<1>5. /\ pc \in {"start", "dial", "challenge", "hello", "fetch", "loop", "cost", "sessions",
                 "backoff", "ended"}
      /\ status \in {"connecting", "connected", "error"}
      /\ data \in Usage \cup {NoUsage} /\ since \in Usage \cup {NoUsage}
      /\ sessions \in BOOLEAN /\ stopped \in BOOLEAN
      /\ reader \in {"none", "reading", "failed"}
  BY <1>1
<1>6. Types
  BY <1>2, <1>3, <1>4, <1>5, Zenon DEF Types
<1>7. Unrouted /\ Progress
  BY <1>1 DEF Unrouted, Progress, Connecting
<1>8. Truthful
  BY <1>1, <1>3 DEF Truthful, Honest
<1>9. QED
  BY <1>6, <1>7, <1>8 DEF IInv

\* Spending and midnight: what is known becomes no less true.
LEMMA DayIInv ==
  ASSUME IInv, today' \in 1 .. MaxDay, spent' \in 0 .. MaxSpent,
         today < today' \/ (today = today' /\ spent <= spent'),
         UNCHANGED <<link, published, loop, pc, backoff, stopped>>
  PROVE  IInv'
<1>1. /\ UNCHANGED <<wire, backlog, opened, ticks, lastId, since, status, data, sessions,
                     awaited, pending, slot, reader, frames, pc, backoff, stopped>>
  BY DEF link, published, loop
<1>2. today \in Nat /\ today' \in Nat /\ spent \in Nat /\ spent' \in Nat
  BY Constants DEF IInv, Types
<1>3. Types' /\ Unrouted' /\ Progress'
  <2>1. Types'
    BY <1>1 DEF IInv, Types
  <2>2. Unrouted' /\ Progress'
    BY <1>1 DEF IInv, Unrouted, Progress
  <2>3. QED
    BY <2>1, <2>2
<1>4. Honest(data, today', spent') /\ Honest(since, today', spent')
  BY <1>2, HonestLater DEF IInv, Types, Truthful
<1>5. ASSUME NEW i \in 1 .. Len(wire)
      PROVE  Sound(wire[i], lastId, pc, since, today', spent')
  <2>1. wire[i] \in Frames /\ Sound(wire[i], lastId, pc, since, today, spent)
    BY WireFrames
  <2>2. wire[i].usage \in Usage \cup {NoUsage}
    BY <2>1 DEF Frames
  <2>3. Honest(wire[i].usage, today', spent')
    BY <1>2, <2>1, <2>2, HonestLater DEF Sound
  <2>4. QED
    BY <2>1, <2>3 DEF Sound
<1>6. Truthful'
  BY <1>1, <1>4, <1>5 DEF IInv, Truthful
<1>7. QED
  BY <1>3, <1>6 DEF IInv

LEMMA SpendIInv == ASSUME IInv, Spend \/ Midnight PROVE IInv'
<1>1. today \in 1 .. MaxDay /\ spent \in 0 .. MaxSpent
  BY DEF IInv, Types
<1>2. CASE Spend
  BY <1>1, <1>2, Constants, DayIInv DEF Spend
<1>3. CASE Midnight
  BY <1>1, <1>3, Constants, DayIInv DEF Midnight
<1>4. QED
  BY <1>2, <1>3

\* Truthfulness of a step in which no day passes and nothing is spent.
LEMMA TruthKept ==
  ASSUME IInv, UNCHANGED <<today, spent>>, lastId' \in Nat, lastId <= lastId',
         Honest(data', today, spent), Honest(since', today, spent),
         \A i \in 1 .. Len(wire') :
           wire'[i] \in Frames /\ Sound(wire'[i], lastId, pc, since, today, spent),
         pc' = "fetch" => (pc = "fetch" /\ since' = since) \/ lastId < CostId,
         \A r \in backlog' : Proper(r, lastId', pc')
  PROVE  Truthful'
<1>1. lastId \in Nat
  BY WireFrames
<1>2. ASSUME NEW i \in 1 .. Len(wire')
      PROVE  Sound(wire'[i], lastId', pc', since', today, spent)
  <2>1. wire'[i] \in Frames /\ Sound(wire'[i], lastId, pc, since, today, spent)
    OBVIOUS
  <2>2. QED
    BY <1>1, <2>1, SoundLater
<1>3. QED
  BY <1>2 DEF Truthful

\* A step that leaves data, wire and requests alone.
LEMMA TruthSame ==
  ASSUME IInv, UNCHANGED <<today, spent, data, since, lastId, wire, backlog>>,
         pc' = "fetch" => pc = "fetch"
  PROVE  Truthful'
<1>1. \A r \in backlog : Proper(r, lastId, pc')
  BY DEF IInv, Truthful, Proper
<1>2. Honest(data, today, spent) /\ Honest(since, today, spent)
  BY DEF IInv, Truthful
<1>3. lastId' \in Nat /\ lastId <= lastId'
  BY WireFrames
<1>4. QED
  BY <1>1, <1>2, <1>3, WireFrames, TruthKept

LEMMA SendIInv ==
  ASSUME IInv, NEW f \in Frames, Sound(f, lastId, pc, since, today, spent),
         wire' = Append(wire, f), backlog' \subseteq backlog,
         UNCHANGED <<backend, opened, ticks, lastId, since, published, loop, pc, backoff, stopped>>
  PROVE  IInv'
<1>1. UNCHANGED <<today, spent, opened, ticks, lastId, since, status, data, sessions,
                  awaited, pending, slot, reader, frames, pc, backoff, stopped>>
  BY DEF backend, published, loop
<1>2. /\ wire' \in Seq(Frames)
      /\ \A i \in 1 .. Len(wire') : Sound(wire'[i], lastId, pc, since, today, spent)
  BY WireFrames, AppendFrames
<1>3. Types' /\ Unrouted' /\ Progress'
  <2>1. Types'
    BY <1>1, <1>2 DEF IInv, Types
  <2>2. Unrouted' /\ Progress'
    BY <1>1 DEF IInv, Unrouted, Progress
  <2>3. QED
    BY <2>1, <2>2
<1>4. Truthful'
  BY <1>1, <1>2 DEF IInv, Truthful
<1>5. QED
  BY <1>3, <1>4 DEF IInv

\* Events carry nothing.
LEMMA EventSound ==
  ASSUME IInv, NEW f \in {Challenge, Event}
  PROVE  f \in Frames /\ Sound(f, lastId, pc, since, today, spent)
<1>1. lastId \in Nat
  BY WireFrames
<1>2. 0 \in Nat /\ 0 <= lastId /\ 0 # CostId
  BY <1>1 DEF CostId, ConnectId
<1>3. PICK ok \in BOOLEAN : f = Frame(0, ok, NoUsage)
  BY DEF Challenge, Event
<1>4. QED
  BY <1>1, <1>2, <1>3, EmptyFrame

LEMMA SendEventIInv == ASSUME IInv, SendEvent PROVE IInv'
<1>1. Event \in Frames /\ Sound(Event, lastId, pc, since, today, spent)
  BY EventSound
<1>2. /\ wire' = Append(wire, Event) /\ backlog' \subseteq backlog
      /\ UNCHANGED <<backend, opened, ticks, lastId, since, published, loop, pc, backoff, stopped>>
  BY DEF SendEvent
<1>3. QED
  BY <1>1, <1>2, SendIInv

LEMMA AnswerIInv ==
  ASSUME IInv, NEW r \in backlog, NEW ok \in BOOLEAN, Answer(r, ok)
  PROVE  IInv'
<1> DEFINE u == IF ok /\ r.kind = "cost" THEN Current ELSE NoUsage
           f == Frame(r.id, ok, u)
<1>1. /\ r \in Requests /\ Proper(r, lastId, pc) /\ lastId \in Nat
  BY WireFrames DEF IInv, Types, Truthful
<1>2. r.id \in Nat /\ r.id <= lastId /\ (pc = "fetch" /\ r.id = CostId => r.kind = "cost")
  BY <1>1 DEF Requests, Proper
<1>3. f \in Frames /\ Sound(f, lastId, pc, since, today, spent)
  <2>1. CASE ok /\ r.kind = "cost"
    <3>1. u = Current
      BY <2>1
    <3>2. /\ Current \in Usage /\ Honest(Current, today, spent)
          /\ \A v \in Usage : Honest(v, today, spent) => NotOlder(Current, v)
      BY CurrentFresh DEF IInv
    <3>3. /\ f.id = r.id /\ f.ok = ok /\ f.usage = Current /\ f \in Frames
      BY <1>2, <3>1, <3>2 DEF Frame, Frames
    <3>4. pc = "fetch" => since \in Usage /\ Honest(since, today, spent)
      BY DEF IInv, Progress, Connecting, Truthful
    <3> HIDE DEF f, u
    <3>5. QED
      BY <1>2, <3>2, <3>3, <3>4 DEF Sound
  <2>2. CASE ~(ok /\ r.kind = "cost")
    <3>1. u = NoUsage
      BY <2>2
    <3>2. pc = "fetch" /\ r.id = CostId => ~ok
      BY <1>2, <2>2
    <3>3. QED
      BY <1>1, <1>2, <3>1, <3>2, EmptyFrame
  <2>3. QED
    BY <2>1, <2>2
<1>4. /\ wire' = Append(wire, f) /\ backlog' \subseteq backlog
      /\ UNCHANGED <<backend, opened, ticks, lastId, since, published, loop, pc, backoff, stopped>>
  BY DEF Answer
<1> HIDE DEF f
<1>5. QED
  BY <1>3, <1>4, SendIInv

LEMMA DisconnectIInv ==
  ASSUME IInv, Disconnect, status' \in {"connecting", "connected", "error"}
  PROVE  IInv'
<1>1. /\ wire' = <<>> /\ backlog' = {} /\ pending' = {} /\ slot' = {} /\ frames' = <<>>
      /\ awaited' = [cost |-> 0, sessions |-> 0]
      /\ reader' = "none" /\ lastId' = 0 /\ since' = NoUsage /\ pc' = "backoff"
      /\ UNCHANGED <<today, spent, opened, ticks, data, sessions, backoff, stopped>>
  BY DEF Disconnect, backend
<1>2. /\ wire' \in Seq(Frames) /\ frames' \in Seq(Frames) /\ Len(wire') = 0 /\ Len(frames') = 0
      /\ 0 <= FrameCap + 1
  BY <1>1, EmptySeq, Constants
<1>3. awaited' \in [cost : Nat, sessions : Nat]
  BY <1>1
<1>4. Types'
  BY <1>1, <1>2, <1>3 DEF IInv, Types
<1>5. Unrouted' /\ Progress'
  BY <1>1 DEF Unrouted, Progress, Connecting
<1>6. Truthful'
  BY <1>1, <1>2 DEF IInv, Truthful, Honest
<1>7. QED
  BY <1>4, <1>5, <1>6 DEF IInv

LEMMA EndIInv ==
  ASSUME IInv, Fail \/ WrongChallenge \/ Rejected \/ StopSeen
  PROVE  IInv'
<1>1. Disconnect /\ status' \in {"connecting", "connected", "error"}
  BY DEF Fail, WrongChallenge, Rejected, StopSeen, IInv, Types
<1>2. QED
  BY <1>1, DisconnectIInv

\* Before the dial, and after a connection: only the goroutine's own state changes.
LEMMA OutsideIInv ==
  ASSUME IInv, Begin \/ Pause \/ Return
  PROVE  IInv'
<1>1. /\ UNCHANGED <<today, spent, wire, backlog, opened, ticks, lastId, since, data, sessions,
                     awaited, pending, slot, reader, frames, stopped>>
      /\ pc \in {"start", "backoff"} /\ pc' \in {"start", "dial", "ended"}
      /\ status' \in {"connecting", "connected", "error"}
  BY DEF Begin, Pause, Return, backend, link, published, loop, IInv, Types
<1>2. backoff' \in 1 .. MaxBackoff
  <2>1. backoff \in 1 .. MaxBackoff /\ MaxBackoff \in Nat /\ MaxBackoff > 0
    BY Constants DEF IInv, Types
  <2>2. CASE Pause
    BY <2>1, <2>2 DEF Pause
  <2>3. CASE Begin \/ Return
    BY <2>1, <2>3 DEF Begin, Return
  <2>4. QED
    BY <2>2, <2>3
<1>3. Types'
  BY <1>1, <1>2 DEF IInv, Types
<1>4. Unrouted' /\ Progress'
  BY <1>1 DEF IInv, Unrouted, Progress, Connecting
<1>5. Truthful'
  BY <1>1, TruthSame
<1>6. QED
  BY <1>3, <1>4, <1>5 DEF IInv

LEMMA StopIInv == ASSUME IInv, Stop PROVE IInv'
<1>1. /\ UNCHANGED <<today, spent, wire, backlog, opened, ticks, lastId, since, data, sessions,
                     status, awaited, pending, slot, reader, frames, pc, backoff>>
      /\ stopped' = TRUE
  BY DEF Stop, backend, link, published, loop
<1>2. Types' /\ Unrouted' /\ Progress'
  <2>1. Types'
    BY <1>1 DEF IInv, Types
  <2>2. Unrouted' /\ Progress'
    BY <1>1 DEF IInv, Unrouted, Progress
  <2>3. QED
    BY <2>1, <2>2
<1>3. Truthful'
  BY <1>1, TruthSame
<1>4. QED
  BY <1>2, <1>3 DEF IInv

LEMMA DialIInv == ASSUME IInv, NEW first \in {Challenge, Event}, Dial(first) PROVE IInv'
<1>1. /\ UNCHANGED <<today, spent, backlog, ticks, lastId, data, sessions,
                     status, awaited, pending, slot, reader, frames, backoff, stopped>>
      /\ pc = "dial" /\ pc' = "challenge" /\ opened < MaxConnections /\ opened' = opened + 1
      /\ wire' = <<first>> /\ since' = Current
  BY DEF Dial, backend, published, loop
<1>2. /\ lastId = 0 /\ opened' \in 0 .. MaxConnections
  BY <1>1, Constants DEF IInv, Types, Progress
<1>3. Current \in Usage /\ Honest(Current, today, spent)
  BY CurrentFresh DEF IInv
<1>4. first \in Frames /\ Sound(first, lastId, pc, since, today, spent)
  BY EventSound
<1>5. /\ wire' \in Seq(Frames)
      /\ \A i \in 1 .. Len(wire') :
           wire'[i] \in Frames /\ Sound(wire'[i], lastId, pc, since, today, spent)
  <2>1. wire' \in Seq(Frames) /\ Len(wire') = 1 /\ wire'[1] = first
    BY <1>1, <1>4
  <2>2. QED
    BY <1>4, <2>1
<1>6. Types'
  BY <1>1, <1>2, <1>3, <1>5 DEF IInv, Types
<1>7. Unrouted' /\ Progress'
  BY <1>1, <1>2, <1>3 DEF IInv, Unrouted, Progress, Connecting
<1>8. Truthful'
  <2>1. \A r \in backlog : Proper(r, lastId, pc')
    BY <1>1 DEF IInv, Truthful, Proper
  <2>2. QED
    BY <1>1, <1>2, <1>3, <1>5, <2>1, TruthKept DEF IInv, Truthful
<1>9. QED
  BY <1>6, <1>7, <1>8 DEF IInv

LEMMA SendConnectIInv == ASSUME IInv, SendConnect PROVE IInv'
<1>1. /\ UNCHANGED <<today, spent, opened, ticks, since, data, sessions, status, awaited,
                     pending, slot, reader, frames, backoff, stopped>>
      /\ pc = "challenge" /\ pc' = "hello" /\ wire # <<>> /\ wire' = Tail(wire)
      /\ lastId' = ConnectId /\ backlog' = {Request(ConnectId, "connect")}
  BY DEF SendConnect, backend, published, loop
<1>2. lastId = 0 /\ lastId' \in Nat /\ lastId <= lastId' /\ ConnectId \in 1 .. lastId'
  BY <1>1 DEF IInv, Progress, ConnectId
<1>3. Request(ConnectId, "connect") \in Requests /\ Request(ConnectId, "connect").id = ConnectId
  BY DEF Request, Requests, Kinds, ConnectId
<1>4. /\ wire' \in Seq(Frames)
      /\ \A i \in 1 .. Len(wire') :
           wire'[i] \in Frames /\ Sound(wire'[i], lastId, pc, since, today, spent)
  BY <1>1, WireFrames
<1>5. Types'
  BY <1>1, <1>2, <1>3, <1>4 DEF IInv, Types
<1>6. Unrouted' /\ Progress'
  BY <1>1 DEF IInv, Unrouted, Progress, Connecting
<1>7. Truthful'
  <2>1. \A r \in backlog' : Proper(r, lastId', pc')
    BY <1>1, <1>2, <1>3 DEF Proper
  <2>2. QED
    BY <1>1, <1>2, <1>4, <2>1, TruthKept DEF IInv, Truthful
<1>8. QED
  BY <1>5, <1>6, <1>7 DEF IInv

LEMMA AcceptedIInv == ASSUME IInv, Accepted PROVE IInv'
<1>1. /\ UNCHANGED <<today, spent, opened, ticks, since, data, sessions,
                     pending, slot, reader, frames, backoff, stopped>>
      /\ pc = "hello" /\ pc' = "fetch" /\ wire # <<>> /\ wire' = Tail(wire)
      /\ status' = "connected" /\ lastId' = lastId + 2
      /\ awaited' = [cost |-> lastId + 1, sessions |-> lastId + 2]
      /\ backlog' = {Request(lastId + 1, "cost"), Request(lastId + 2, "sessions")}
  BY DEF Accepted, backend
<1>2. /\ lastId = 1 /\ lastId' = 3 /\ lastId < CostId
      /\ awaited' = [cost |-> 2, sessions |-> 3]
      /\ backlog' = {Request(2, "cost"), Request(3, "sessions")}
      /\ CostId = 2 /\ ConnectId = 1
  BY <1>1 DEF IInv, Progress, ConnectId, CostId
<1>3. /\ Request(2, "cost") \in Requests /\ Request(3, "sessions") \in Requests
      /\ Request(2, "cost").id = 2 /\ Request(2, "cost").kind = "cost"
      /\ Request(3, "sessions").id = 3
  BY DEF Request, Requests, Kinds
<1>4. /\ wire' \in Seq(Frames)
      /\ \A i \in 1 .. Len(wire') :
           wire'[i] \in Frames /\ Sound(wire'[i], lastId, pc, since, today, spent)
  BY <1>1, WireFrames
<1>5. awaited' \in [cost : Nat, sessions : Nat] /\ awaited'.cost = 2
  BY <1>2
<1>6. Types'
  <2>1. lastId' \in Nat /\ backlog' \subseteq Requests
    BY <1>2, <1>3
  <2>2. QED
    BY <1>1, <1>4, <1>5, <2>1 DEF IInv, Types
<1>7. Unrouted'
  BY <1>1 DEF IInv, Unrouted
<1>8. Progress'
  <2>1. since \in Usage
    BY <1>1 DEF IInv, Progress, Connecting
  <2>2. QED
    BY <1>1, <1>2, <1>5, <2>1 DEF Progress
<1>9. Truthful'
  <2>1. 2 \in 1 .. 3 /\ 3 \in 1 .. 3
    OBVIOUS
  <2>2. \A r \in backlog' : Proper(r, lastId', pc')
    BY <1>2, <1>3, <2>1 DEF Proper
  <2>3. lastId' \in Nat /\ lastId <= lastId'
    BY <1>2
  <2>4. QED
    BY <1>1, <1>2, <1>4, <2>2, <2>3, TruthKept DEF IInv, Truthful
<1>10. QED
  BY <1>6, <1>7, <1>8, <1>9 DEF IInv

\* What a turn of fetchUsage leaves: once the cost is in hand, the data are as new as
\* the connection.
LEMMA FetchReads ==
  ASSUME IInv, NEW late \in BOOLEAN, Fetch(late)
  PROVE  \E wanted \in [cost : {0, CostId}, sessions : Nat] :
           /\ wanted.cost = 0 => NotOlder(data', since)
           /\ data' \in Usage \cup {NoUsage} /\ Honest(data', today, spent)
           /\ sessions' \in BOOLEAN
           /\ \/ /\ wanted.cost = 0 /\ pc' = "loop" /\ reader' = "reading"
                 /\ awaited' = [cost |-> 0, sessions |-> 0] /\ since' = NoUsage
              \/ awaited' = wanted /\ UNCHANGED <<pc, reader, since>>
<1> DEFINE f == Head(wire)
           wanted == IF f.id = 0 THEN awaited ELSE Answered(awaited, f)
<1>1. /\ pc = "fetch" /\ wire # <<>>
      /\ ~FailedCost(f)
      /\ IF f.id = 0 THEN UNCHANGED <<data, sessions>> ELSE Process(f, awaited)
      /\ IF Satisfied(wanted, late)
         THEN /\ pc' = "loop" /\ reader' = "reading"
              /\ awaited' = [cost |-> 0, sessions |-> 0] /\ since' = NoUsage
         ELSE awaited' = wanted /\ UNCHANGED <<pc, reader, since>>
  BY DEF Fetch
<1>2. /\ f \in Frames /\ Sound(f, lastId, pc, since, today, spent)
  BY <1>1, WireFrames
<1>3. /\ awaited \in [cost : Nat, sessions : Nat] /\ awaited.cost \in {0, CostId}
      /\ awaited.cost = 0 => NotOlder(data, since)
      /\ data \in Usage \cup {NoUsage} /\ Honest(data, today, spent) /\ sessions \in BOOLEAN
  BY <1>1 DEF IInv, Types, Progress, Truthful
<1> HIDE DEF f
<1>4. wanted \in [cost : {0, CostId}, sessions : Nat]
  <2>1. CASE f.id = 0
    BY <1>3, <2>1
  <2>2. CASE f.id # 0
    <3>1. DOMAIN awaited = {"cost", "sessions"}
      BY <1>3
    <3>2. wanted = [k \in {"cost", "sessions"} |-> IF f.id = awaited[k] THEN 0 ELSE awaited[k]]
      BY <2>2, <3>1 DEF Answered
    <3>3. wanted = [cost |-> IF f.id = awaited.cost THEN 0 ELSE awaited.cost,
                    sessions |-> IF f.id = awaited.sessions THEN 0 ELSE awaited.sessions]
      BY <3>2
    <3>4. QED
      BY <1>3, <3>3
  <2>3. QED
    BY <2>1, <2>2
<1>5. /\ data' \in Usage \cup {NoUsage} /\ Honest(data', today, spent) /\ sessions' \in BOOLEAN
      /\ wanted.cost = 0 => NotOlder(data', since)
  <2>1. CASE f.id = 0
    BY <1>1, <1>3, <2>1
  <2>2. CASE f.id # 0 /\ f.id = awaited.cost
    <3>1. f.ok /\ f.id = CostId
      BY <1>1, <1>3, <2>2 DEF FailedCost
    <3>2. f.usage \in Usage /\ NotOlder(f.usage, since) /\ Honest(f.usage, today, spent)
      BY <1>1, <1>2, <3>1 DEF Sound
    <3>3. data' = f.usage /\ sessions' \in BOOLEAN
      BY <1>1, <1>3, <2>2, <3>1 DEF Process
    <3>4. QED
      BY <3>2, <3>3
  <2>3. CASE f.id # 0 /\ f.id # awaited.cost
    <3>1. data' = data /\ sessions' \in BOOLEAN
      BY <1>1, <1>3, <2>3 DEF Process
    <3>2. wanted.cost = awaited.cost
      BY <1>3, <2>3 DEF Answered
    <3>3. QED
      BY <1>3, <3>1, <3>2
  <2>4. QED
    BY <2>1, <2>2, <2>3
<1> HIDE DEF wanted
<1>6. Satisfied(wanted, late) => wanted.cost = 0
  BY DEF Satisfied
<1>7. QED
  BY <1>1, <1>4, <1>5, <1>6

LEMMA FetchIInv == ASSUME IInv, NEW late \in BOOLEAN, Fetch(late) PROVE IInv'
<1>1. /\ UNCHANGED <<today, spent, backlog, opened, ticks, lastId, status, pending, slot, frames,
                     backoff, stopped>>
      /\ pc = "fetch" /\ wire # <<>> /\ wire' = Tail(wire)
  BY DEF Fetch, backend
<1>2. PICK wanted \in [cost : {0, CostId}, sessions : Nat] :
        /\ wanted.cost = 0 => NotOlder(data', since)
        /\ data' \in Usage \cup {NoUsage} /\ Honest(data', today, spent)
        /\ sessions' \in BOOLEAN
        /\ \/ /\ wanted.cost = 0 /\ pc' = "loop" /\ reader' = "reading"
              /\ awaited' = [cost |-> 0, sessions |-> 0] /\ since' = NoUsage
           \/ awaited' = wanted /\ UNCHANGED <<pc, reader, since>>
  BY FetchReads
<1>3. awaited' \in [cost : Nat, sessions : Nat]
  <2>1. CostId \in Nat
    BY DEF CostId, ConnectId
  <2>2. QED
    BY <1>2, <2>1
<1>4. /\ wire' \in Seq(Frames)
      /\ \A i \in 1 .. Len(wire') :
           wire'[i] \in Frames /\ Sound(wire'[i], lastId, pc, since, today, spent)
  BY <1>1, WireFrames
<1>5. pc' \in {"fetch", "loop"} /\ reader' \in {"none", "reading", "failed"}
      /\ since' \in Usage \cup {NoUsage}
  BY <1>1, <1>2 DEF IInv, Types
<1>6. Types'
  BY <1>1, <1>2, <1>3, <1>4, <1>5 DEF IInv, Types
<1>7. Unrouted'
  BY <1>1, <1>5 DEF IInv, Unrouted
<1>8. Progress'
  <2>1. CASE pc' = "loop"
    BY <2>1 DEF Progress, Connecting
  <2>2. CASE awaited' = wanted /\ UNCHANGED <<pc, reader, since>>
    <3>1. since \in Usage /\ lastId = ConnectId + 2
      BY <1>1 DEF IInv, Progress, Connecting
    <3>2. QED
      BY <1>1, <1>2, <2>2, <3>1 DEF Progress, Connecting
  <2>3. QED
    BY <1>2, <2>1, <2>2
<1>9. Truthful'
  <2>1. \A r \in backlog : Proper(r, lastId, pc')
    BY <1>1, <1>5 DEF IInv, Truthful, Proper
  <2>2. Honest(since', today, spent)
    BY <1>2 DEF IInv, Truthful, Honest
  <2>3. lastId' \in Nat /\ lastId <= lastId'
    BY <1>1, WireFrames
  <2>4. pc' = "fetch" => since' = since
    BY <1>2
  <2>5. QED
    BY <1>1, <1>2, <1>4, <2>1, <2>2, <2>3, <2>4, TruthKept
<1>10. QED
  BY <1>6, <1>7, <1>8, <1>9 DEF IInv

\* The reader goroutine, and the loop that takes a frame nobody waits for.
LEMMA ReadIInv == ASSUME IInv, ReadFrame \/ ReadFails \/ TakeFrame PROVE IInv'
<1>1. /\ UNCHANGED <<today, spent, backlog, opened, ticks, lastId, since, data, sessions, status,
                     awaited, pc, backoff, stopped>>
      /\ reader' \in {"none", "reading", "failed"}
  BY DEF ReadFrame, ReadFails, TakeFrame, backend, link, published, IInv, Types
<1>2. frames \in Seq(Frames) /\ Len(frames) \in Nat /\ Len(frames) <= FrameCap + 1
      /\ FrameCap \in Nat
  BY Constants, LenProperties DEF IInv, Types
<1>3. /\ frames' \in Seq(Frames) /\ Len(frames') <= FrameCap + 1
      /\ slot' = {} /\ pending' = pending
      /\ wire' = wire \/ (wire # <<>> /\ wire' = Tail(wire))
  <2>1. CASE ReadFrame
    <3>1. /\ frames' = Append(frames, Head(wire)) /\ Len(frames) <= FrameCap
          /\ wire # <<>> /\ wire' = Tail(wire) /\ slot' = slot /\ pending' = pending
      BY <1>2, <2>1 DEF ReadFrame, Blocked
    <3>2. Head(wire) \in Frames
      BY <3>1, WireFrames
    <3>3. frames' \in Seq(Frames) /\ Len(frames') = Len(frames) + 1
      BY <1>2, <3>1, <3>2, AppendProperties
    <3>4. QED
      BY <1>2, <3>1, <3>3 DEF IInv, Unrouted
  <2>2. CASE ReadFails
    BY <1>2, <2>2 DEF ReadFails, link, IInv, Unrouted
  <2>3. CASE TakeFrame
    <3>1. pc = "loop" /\ pending = {} /\ slot = {}
      BY <2>3 DEF TakeFrame, Routes, IInv, Unrouted
    <3>2. /\ frames # <<>> /\ frames' = Tail(frames) /\ wire' = wire
          /\ slot' = slot /\ pending' = pending
      BY <2>3, <3>1 DEF TakeFrame, link
    <3>3. frames' \in Seq(Frames) /\ Len(frames') = Len(frames) - 1
      BY <1>2, <3>2, HeadTailProperties
    <3>4. QED
      BY <1>2, <3>1, <3>2, <3>3
  <2>4. QED
    BY <2>1, <2>2, <2>3
<1>4. /\ wire' \in Seq(Frames)
      /\ \A i \in 1 .. Len(wire') :
           wire'[i] \in Frames /\ Sound(wire'[i], lastId, pc, since, today, spent)
  BY <1>3, WireFrames
<1>5. Types'
  BY <1>1, <1>3, <1>4 DEF IInv, Types
<1>6. Unrouted' /\ Progress'
  BY <1>1, <1>3 DEF IInv, Unrouted, Progress
<1>7. Truthful'
  BY <1>1, <1>4 DEF IInv, Truthful
<1>8. QED
  BY <1>5, <1>6, <1>7 DEF IInv

\* The ticker's branch: a request more, no data.
LEMMA TickIInv == ASSUME IInv, Tick \/ EndCostWait \/ EndSessionsWait PROVE IInv'
<1>1. /\ UNCHANGED <<today, spent, wire, opened, since, status, reader, frames, backoff, stopped>>
      /\ pc \in {"loop", "cost", "sessions"} /\ pc' \in {"loop", "cost", "sessions"}
      /\ slot' = {}
  BY DEF Tick, Ask, EndCostWait, EndSessionsWait, backend, link, published
<1>2. lastId \in Nat /\ slot = {} /\ awaited \in [cost : Nat, sessions : Nat]
  BY DEF IInv, Types, Unrouted
<1>3. data' = data /\ sessions' = sessions
  <2>1. sessions \in BOOLEAN /\ ~Event.ok
    BY DEF IInv, Types, Event, Frame
  <2>2. \A kind : Outcomes(kind) = {Event}
    BY <1>2 DEF Outcomes
  <2>3. CASE Tick
    BY <2>3 DEF Tick, published
  <2>4. CASE EndCostWait
    BY <2>1, <2>2, <2>4 DEF EndCostWait, Process
  <2>5. CASE EndSessionsWait
    BY <2>1, <2>2, <2>5 DEF EndSessionsWait, Process
  <2>6. QED
    BY <2>3, <2>4, <2>5
<1>4. ticks' \in 0 .. MaxTicks
  <2>1. ticks \in 0 .. MaxTicks /\ MaxTicks \in Nat
    BY Constants DEF IInv, Types
  <2>2. ticks' = ticks \/ (ticks < MaxTicks /\ ticks' = ticks + 1)
    BY DEF Tick, EndCostWait, EndSessionsWait, link
  <2>3. QED
    BY <2>1, <2>2
<1>5. awaited' \in [cost : Nat, sessions : Nat]
  BY <1>2 DEF Tick, Ask, EndCostWait, EndSessionsWait
<1>6. /\ \/ /\ lastId' = lastId + 1 /\ pc' \in {"cost", "sessions"} /\ pending' = {lastId + 1}
            /\ \E kind \in Kinds : backlog' = backlog \cup {Request(lastId + 1, kind)}
         \/ lastId' = lastId /\ pc' = "loop" /\ pending' = {} /\ backlog' = backlog
  BY DEF Tick, Ask, EndCostWait, EndSessionsWait, link, Kinds
<1>7. lastId' \in Nat /\ lastId <= lastId'
  BY <1>2, <1>6
<1>8. \A kind \in Kinds : /\ Request(lastId + 1, kind) \in Requests
                          /\ Request(lastId + 1, kind).id = lastId + 1
  BY <1>2 DEF Request, Requests
<1>9. backlog' \subseteq Requests
  BY <1>6, <1>8 DEF IInv, Types
<1>10. \A r \in backlog' : Proper(r, lastId', pc')
  <2>1. \A r \in backlog : r.id \in 1 .. lastId
    BY DEF IInv, Truthful, Proper
  <2>2. \A r \in backlog' : r \in backlog \/ (r.id = lastId + 1 /\ lastId' = lastId + 1)
    BY <1>6, <1>8
  <2>3. \A r \in backlog' : r.id \in 1 .. lastId'
    BY <1>2, <1>6, <2>1, <2>2
  <2>4. QED
    BY <1>1, <2>3 DEF Proper
<1>11. Types'
  BY <1>1, <1>3, <1>4, <1>5, <1>7, <1>9 DEF IInv, Types
<1>12. Unrouted' /\ Progress'
  <2>1. Unrouted'
    BY <1>1, <1>2, <1>6, <1>7 DEF Unrouted
  <2>2. Progress'
    BY <1>1 DEF Progress, Connecting
  <2>3. QED
    BY <2>1, <2>2
<1>13. Truthful'
  BY <1>1, <1>3, <1>7, <1>10, WireFrames, TruthKept DEF IInv, Truthful
<1>14. QED
  BY <1>11, <1>12, <1>13 DEF IInv

LEMMA NextIInv == IInv /\ [Next]_vars => IInv'
<1> SUFFICES ASSUME IInv, [Next]_vars PROVE IInv'
  OBVIOUS
<1>1. ASSUME NEW r \in backlog, NEW ok \in BOOLEAN, Answer(r, ok) PROVE IInv'
  BY <1>1, AnswerIInv
<1>2. ASSUME NEW first \in {Challenge, Event}, Dial(first) PROVE IInv'
  BY <1>2, DialIInv
<1>3. ASSUME NEW late \in BOOLEAN, Fetch(late) PROVE IInv'
  BY <1>3, FetchIInv
<1>4. CASE Spend \/ Midnight \/ SendEvent
  BY <1>4, SpendIInv, SendEventIInv
<1>5. CASE Begin \/ Pause \/ Return \/ Stop
  BY <1>5, OutsideIInv, StopIInv
<1>6. CASE Fail \/ WrongChallenge \/ Rejected \/ StopSeen
  BY <1>6, EndIInv
<1>7. CASE SendConnect \/ Accepted
  BY <1>7, SendConnectIInv, AcceptedIInv
<1>8. CASE ReadFrame \/ ReadFails \/ TakeFrame
  BY <1>8, ReadIInv
<1>9. CASE Tick \/ EndCostWait \/ EndSessionsWait
  BY <1>9, TickIInv
<1>10. CASE UNCHANGED vars
  <2>1. UNCHANGED <<today, spent, wire, backlog, opened, ticks, lastId, since, status, data,
                    sessions, awaited, pending, slot, reader, frames, pc, backoff, stopped>>
    BY <1>10 DEF vars, backend, link, published, loop
  <2>2. Types' /\ Truthful'
    BY <2>1 DEF IInv, Types, Truthful
  <2>3. Unrouted' /\ Progress'
    BY <2>1 DEF IInv, Unrouted, Progress
  <2>4. QED
    BY <2>2, <2>3 DEF IInv
<1>11. QED
  BY <1>1, <1>2, <1>3, <1>4, <1>5, <1>6, <1>7, <1>8, <1>9, <1>10 DEF Next

LEMMA AlwaysIInv == Spec => []IInv
BY InitIInv, NextIInv, PTL DEF Spec

-------------------------------------------------------------------------------
(***************************************************************************)
(* The collector's fields and its two goroutines keep their types; the     *)
(* pause stays within its limit, and a response channel never holds more   *)
(* than it has room for.                                                   *)
(***************************************************************************)
THEOREM TypeCorrect == Spec => []TypeOK
<1>1. ASSUME IInv
      PROVE  Cardinality(slot) <= 1 /\ \A f \in slot : f.id \notin pending
  <2>1. slot = {}
    BY <1>1 DEF IInv, Unrouted
  <2>2. Cardinality({}) = 0
    BY FS_EmptySet
  <2>3. QED
    BY <2>1, <2>2
<1>2. ASSUME IInv PROVE pending \subseteq 1 .. lastId
  BY <1>2 DEF IInv, Unrouted, Types
<1>3. IInv => TypeOK
  BY <1>1, <1>2 DEF IInv, Types, TypeOK
<1>4. QED
  BY <1>3, AlwaysIInv, PTL

(***************************************************************************)
(* An alert is raised only if today has cost that much, over any number of *)
(* midnights and however old the snapshot: Snapshot counts the last daily  *)
(* entry only on its own date, and no entry exceeds what its day cost.     *)
(***************************************************************************)
THEOREM AlertsAreTrue == Spec => []AlertIsTrue
<1>1. ASSUME IInv PROVE AlertIsTrue
  <2>1. /\ today \in Nat /\ spent \in Nat /\ data \in Usage \cup {NoUsage}
        /\ Honest(data, today, spent)
    BY <1>1, Constants DEF IInv, Types, Truthful
  <2>2. CASE data = NoUsage
    BY <2>2 DEF AlertIsTrue, Snapshot
  <2>3. CASE data # NoUsage
    <3>1. data.day \in Nat /\ data.cost \in Nat
      BY <2>1, <2>3, UsageTypes, Constants
    <3>2. data.day = today => data.cost <= spent
      BY <2>1, <2>3 DEF Honest
    <3>3. TodayCost \in Nat /\ TodayCost <= spent
      BY <2>1, <3>1, <3>2 DEF TodayCost
    <3>4. Snapshot.alert = IF TodayCost >= CritUSD THEN "critical"
                           ELSE IF TodayCost >= WarnUSD THEN "warning" ELSE "ok"
      BY <2>3 DEF Snapshot
    <3>5. /\ Snapshot.alert = "critical" => TodayCost >= CritUSD
          /\ Snapshot.alert = "warning" => TodayCost >= WarnUSD
      BY <3>4
    <3>6. QED
      BY <2>1, <3>3, <3>5, Constants DEF AlertIsTrue
  <2>4. QED
    BY <2>2, <2>3
<1>2. QED
  BY <1>1, AlwaysIInv, PTL

(***************************************************************************)
(* The poll loop begins with data that are at least as new as its          *)
(* connection: fetchUsage ends without an error only with the cost in      *)
(* hand, and takes it from an answer given on this connection.             *)
(***************************************************************************)
THEOREM FreshWhenConnected == Spec => FreshOnConnect
<1>1. ASSUME IInv, [Next]_vars, pc = "fetch", pc' = "loop" PROVE NotOlder(data', since)
  <2>1. \E late \in BOOLEAN : Fetch(late)
    <3>1. pc' # pc /\ pc' # "backoff"
      BY <1>1
    <3>2. ~UNCHANGED vars
      BY <3>1 DEF vars
    <3>3. \A r, ok : ~Answer(r, ok)
      BY <3>1 DEF Answer
    <3>4. \A first : ~Dial(first)
      BY <1>1 DEF Dial
    <3>5. ~Spend /\ ~Midnight /\ ~SendEvent /\ ~Stop
      BY <3>1 DEF Spend, Midnight, SendEvent, Stop
    <3>6. ~Fail /\ ~WrongChallenge /\ ~Rejected /\ ~StopSeen
      BY <3>1 DEF Fail, WrongChallenge, Rejected, StopSeen, Disconnect
    <3>7. ~Begin /\ ~Pause /\ ~Return /\ ~SendConnect /\ ~Accepted
      BY <1>1 DEF Begin, Pause, Return, SendConnect, Accepted
    <3>8. ~ReadFrame /\ ~ReadFails /\ ~TakeFrame /\ ~Tick /\ ~EndCostWait /\ ~EndSessionsWait
      BY <1>1, <3>1 DEF ReadFrame, ReadFails, TakeFrame, Tick, EndCostWait, EndSessionsWait
    <3>9. QED
      BY <1>1, <3>2, <3>3, <3>4, <3>5, <3>6, <3>7, <3>8 DEF Next
  <2>2. QED
    BY <1>1, <2>1, FetchReads
<1>2. QED
  BY <1>1, AlwaysIInv, PTL DEF Spec, FreshOnConnect

(***************************************************************************)
(* How far the violation of PollStoresLatest goes: it is not a matter of   *)
(* timing or of a lost answer.  Whatever OpenClaw answers and when, and    *)
(* however large the channel is, the loop of pollLoop publishes nothing;   *)
(* only fetchUsage does, once for each connection, because the response    *)
(* channel of a periodic request is empty whenever its wait ends           *)
(* (Unrouted).                                                             *)
(***************************************************************************)
THEOREM PollsPublishNothing == Spec => [][pc # "fetch" => UNCHANGED <<data, sessions>>]_vars
<1>1. ASSUME IInv, [Next]_vars, pc # "fetch" PROVE <<data, sessions>>' = <<data, sessions>>
  <2>1. slot = {} /\ sessions \in BOOLEAN /\ ~Event.ok
    BY <1>1 DEF IInv, Unrouted, Types, Event, Frame
  <2>2. \A kind : Outcomes(kind) = {Event}
    BY <2>1 DEF Outcomes
  <2>3. CASE EndCostWait \/ EndSessionsWait
    BY <2>1, <2>2, <2>3 DEF EndCostWait, EndSessionsWait, Process
  <2>4. CASE \E r \in backlog, ok \in BOOLEAN : Answer(r, ok)
    BY <2>4 DEF Answer, published
  <2>5. CASE \E first \in {Challenge, Event} : Dial(first)
    BY <2>5 DEF Dial, published
  <2>6. CASE \E late \in BOOLEAN : Fetch(late)
    BY <1>1, <2>6 DEF Fetch
  <2>7. CASE Spend \/ Midnight \/ SendEvent \/ Stop \/ Begin \/ Pause \/ Return
    BY <2>7 DEF Spend, Midnight, SendEvent, Stop, Begin, Pause, Return, published
  <2>8. CASE Fail \/ WrongChallenge \/ Rejected \/ StopSeen \/ SendConnect \/ Accepted
    BY <2>8 DEF Fail, WrongChallenge, Rejected, StopSeen, Disconnect, SendConnect, Accepted,
                published
  <2>9. CASE ReadFrame \/ ReadFails \/ TakeFrame \/ Tick
    BY <2>9 DEF ReadFrame, ReadFails, TakeFrame, Tick, published
  <2>10. CASE UNCHANGED vars
    BY <2>10 DEF vars, published
  <2>11. QED
    BY <1>1, <2>3, <2>4, <2>5, <2>6, <2>7, <2>8, <2>9, <2>10 DEF Next
<1>2. IInv /\ [Next]_vars =>
        [pc # "fetch" => UNCHANGED <<data, sessions>>]_vars
  BY <1>1
<1>3. QED
  BY <1>2, AlwaysIInv, PTL DEF Spec

===============================================================================

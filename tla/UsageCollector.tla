----------------------------- MODULE UsageCollector -----------------------------
(***************************************************************************)
(* The gateway's cost monitor (services/gateway/usage_collector.go): a     *)
(* goroutine (run) that connects to OpenClaw's WebSocket API, asks once    *)
(* for the cost and the sessions of the period (fetchUsage), and then      *)
(* sits in pollLoop, where a second goroutine reads frames into a channel. *)
(* Snapshot is what /admin/usage and the metrics show of it.               *)
(*                                                                         *)
(* OpenClaw answers requests in any order, with data or an error, late or  *)
(* never, and sends events in between; the connection may fail at any      *)
(* time.  A usage summary is reduced to the day of its last daily entry    *)
(* and the cost of that day.                                               *)
(***************************************************************************)
EXTENDS Integers, Sequences, FiniteSets

CONSTANTS
  FrameCap,        \* capacity of frameCh (16)
  WarnUSD,         \* COST_ALERT_DAILY_WARN
  CritUSD,         \* COST_ALERT_DAILY_CRIT
  MaxBackoff,      \* longest pause before dialling again
  MaxConnections,  \* bound: connections that open
  MaxTicks,        \* bound: ticks of poll loops
  MaxDay,          \* bound: days
  MaxSpent,        \* bound: cost of a day
  MaxWire          \* bound: frames sent and not read

ASSUME UsageCollectorAssumption ==
  /\ FrameCap \in Nat \ {0}
  /\ WarnUSD \in Nat \ {0}
  /\ CritUSD \in Nat \ {0}
  /\ MaxBackoff \in Nat \ {0}
  /\ MaxDay \in Nat \ {0}
  /\ {MaxConnections, MaxTicks, MaxSpent, MaxWire} \subseteq Nat

VARIABLES
  today, spent,    \* the day, and what it has cost so far according to OpenClaw
  wire,            \* frames OpenClaw sent and nobody has read
  backlog,         \* requests OpenClaw has received and not answered
  opened,          \* connections opened so far
  ticks,           \* ticks of poll loops so far
  lastId,          \* request ids given on the current connection (uuid.NewString)
  pc,              \* where the goroutine run is
  status,          \* UsageCollector.status
  data,            \* UsageCollector.data
  sessions,        \* UsageCollector.sessionsData is set
  backoff,         \* run's local backoff
  stopped,         \* UsageCollector.ctx is cancelled
  awaited,         \* ids whose response fetchUsage, or the ticker's branch, waits for
  pending,         \* pollLoop's map of channels, by request id
  slot,            \* responses put into such a channel and not taken out
  reader,          \* pollLoop's reader goroutine
  frames,          \* frameCh; beyond FrameCap, the frame the reader waits to send
  since            \* history: the usage when the connection was opened, until pollLoop

backend == <<today, spent>>
link == <<wire, backlog, opened, ticks, lastId, since>>
published == <<status, data, sessions>>
loop == <<awaited, pending, slot, reader, frames>>
vars == <<backend, link, published, loop, pc, backoff, stopped>>

NoUsage == [day |-> 0, cost |-> 0]
Usage == [day : 1 .. MaxDay, cost : 0 .. MaxSpent]
Current == [day |-> today, cost |-> spent]

NotOlder(u, v) == u.day > v.day \/ (u.day = v.day /\ u.cost >= v.cost)

\* A frame; id 0 is an event's, id 1 the connect request's.
Frame(id, ok, usage) == [id |-> id, ok |-> ok, usage |-> usage]
Event == Frame(0, FALSE, NoUsage)
Challenge == Frame(0, TRUE, NoUsage)
ConnectId == 1
Request(id, kind) == [id |-> id, kind |-> kind]

Init ==
  /\ today = 1 /\ spent = 0
  /\ wire = <<>> /\ backlog = {} /\ opened = 0 /\ ticks = 0 /\ lastId = 0
  /\ since = NoUsage
  /\ pc = "start" /\ backoff = 1 /\ stopped = FALSE
  /\ status = "connecting" /\ data = NoUsage /\ sessions = FALSE
  /\ awaited = [cost |-> 0, sessions |-> 0] /\ pending = {} /\ slot = {}
  /\ reader = "none" /\ frames = <<>>

-------------------------------------------------------------------------------
(***************************************************************************)
(* OpenClaw.                                                               *)
(***************************************************************************)
Spend ==
  /\ spent < MaxSpent
  /\ spent' = spent + 1
  /\ UNCHANGED <<today, link, published, loop, pc, backoff, stopped>>

Midnight ==
  /\ today < MaxDay
  /\ today' = today + 1
  /\ spent' = 0
  /\ UNCHANGED <<link, published, loop, pc, backoff, stopped>>

SendEvent ==
  /\ pc \in {"hello", "fetch", "loop", "cost", "sessions"}
  /\ Len(wire) < MaxWire
  /\ wire' = Append(wire, Event)
  /\ UNCHANGED <<backend, backlog, opened, ticks, lastId, since, published, loop, pc,
                 backoff, stopped>>

Answer(r, ok) ==
  /\ Len(wire) < MaxWire
  /\ backlog' = backlog \ {r}
  /\ wire' = Append(wire, Frame(r.id, ok, IF ok /\ r.kind = "cost" THEN Current ELSE NoUsage))
  /\ UNCHANGED <<backend, opened, ticks, lastId, since, published, loop, pc, backoff, stopped>>

-------------------------------------------------------------------------------
(***************************************************************************)
(* run and connectAndPoll.                                                 *)
(***************************************************************************)
\* Mutant of Begin: run does not look whether it was stopped before it dials.
BeginRegardless ==
  /\ pc = "start"
  /\ pc' = "dial"
  /\ status' = "connecting"
  /\ UNCHANGED <<backend, link, data, sessions, loop, backoff, stopped>>

Begin ==
  /\ pc = "start"
  /\ ~stopped
  /\ pc' = "dial"
  /\ status' = "connecting"
  /\ UNCHANGED <<backend, link, data, sessions, loop, backoff, stopped>>

Dial(first) ==
  /\ pc = "dial"
  /\ opened < MaxConnections
  /\ opened' = opened + 1
  /\ pc' = "challenge"
  /\ wire' = <<first>>
  /\ since' = Current
  /\ UNCHANGED <<backend, backlog, ticks, lastId, published, loop, backoff, stopped>>

\* The connection is closed (CloseNow); what was on its way is lost.
Disconnect ==
  /\ wire' = <<>> /\ backlog' = {}
  /\ awaited' = [cost |-> 0, sessions |-> 0] /\ pending' = {} /\ slot' = {}
  /\ reader' = "none" /\ frames' = <<>>
  /\ lastId' = 0 /\ since' = NoUsage
  /\ pc' = "backoff"
  /\ UNCHANGED <<backend, opened, ticks, data, sessions, backoff, stopped>>

\* connectAndPoll returns an error: a dial, read or write that failed or timed out.
Fail ==
  /\ pc \in {"dial", "challenge", "hello", "fetch", "loop", "cost"}
  /\ status' = "error"
  /\ Disconnect

SendConnect ==
  /\ pc = "challenge" /\ wire # <<>>
  /\ Head(wire) = Challenge
  /\ lastId' = ConnectId
  /\ wire' = Tail(wire)
  /\ backlog' = {Request(ConnectId, "connect")}
  /\ pc' = "hello"
  /\ UNCHANGED <<backend, opened, ticks, since, published, loop, backoff, stopped>>

WrongChallenge ==
  /\ pc = "challenge" /\ wire # <<>>
  /\ Head(wire) # Challenge
  /\ status' = "error"
  /\ Disconnect

Rejects(f) == f.id = ConnectId /\ ~f.ok

Rejected ==
  /\ pc = "hello" /\ wire # <<>>
  /\ Rejects(Head(wire))
  /\ status' = "error"
  /\ Disconnect

\* Anything but the refusal of this connect request counts as the hello, an event
\* too; the real one is then read later as an event is, and is not kept in backlog.
Accepted ==
  /\ pc = "hello" /\ wire # <<>>
  /\ ~Rejects(Head(wire))
  /\ status' = "connected"
  /\ lastId' = lastId + 2
  /\ awaited' = [cost |-> lastId + 1, sessions |-> lastId + 2]
  /\ backlog' = {Request(lastId + 1, "cost"), Request(lastId + 2, "sessions")}
  /\ wire' = Tail(wire)
  /\ pc' = "fetch"
  /\ UNCHANGED <<backend, opened, ticks, since, data, sessions, pending, slot, reader, frames,
                 backoff, stopped>>

\* Mutant of Pause: the pause doubles without end.
PauseUncapped ==
  /\ pc = "backoff"
  /\ backoff' = 2 * backoff
  /\ pc' = "start"
  /\ UNCHANGED <<backend, link, published, loop, stopped>>

Pause ==
  /\ pc = "backoff"
  /\ backoff' = IF 2 * backoff > MaxBackoff THEN MaxBackoff ELSE 2 * backoff
  /\ pc' = "start"
  /\ UNCHANGED <<backend, link, published, loop, stopped>>

Return ==
  /\ pc \in {"start", "backoff"}
  /\ stopped
  /\ pc' = "ended"
  /\ UNCHANGED <<backend, link, published, loop, backoff, stopped>>

Stop ==
  /\ ~stopped
  /\ stopped' = TRUE
  /\ UNCHANGED <<backend, link, published, loop, pc, backoff>>
-------------------------------------------------------------------------------
(***************************************************************************)
(* fetchUsage: reads frames itself, until both answers are in or the       *)
(* deadline has passed.                                                    *)
(***************************************************************************)
\* processUsageResponse and processSessionsUsageResponse; an error changes nothing.
Process(f, wanted) ==
  /\ data' = IF f.ok /\ f.id = wanted.cost THEN f.usage ELSE data
  /\ sessions' = (sessions \/ (f.ok /\ f.id = wanted.sessions))

Answered(wanted, f) ==
  [k \in DOMAIN wanted |-> IF f.id = wanted[k] THEN 0 ELSE wanted[k]]

FailedCost(f) == f.id # 0 /\ f.id = awaited.cost /\ ~f.ok

\* Mutant of Satisfied: a fetch that timed out without the cost is no error.
SatisfiedByTimeout(wanted, late) == late \/ wanted.sessions = 0

Satisfied(wanted, late) == wanted.cost = 0 /\ (late \/ wanted.sessions = 0)

\* One turn of the loop; late: the deadline has passed when it is looked at next.
Fetch(late) ==
  /\ pc = "fetch" /\ wire # <<>>
  /\ LET f == Head(wire)
         wanted == IF f.id = 0 THEN awaited ELSE Answered(awaited, f)
     IN
       /\ ~FailedCost(f)
       /\ Satisfied(wanted, late) \/ ~late
       /\ IF f.id = 0 THEN UNCHANGED <<data, sessions>> ELSE Process(f, awaited)
       /\ IF Satisfied(wanted, late)
          THEN /\ pc' = "loop" /\ reader' = "reading"
               /\ awaited' = [cost |-> 0, sessions |-> 0] /\ since' = NoUsage
          ELSE /\ awaited' = wanted
               /\ UNCHANGED <<pc, reader, since>>
  /\ wire' = Tail(wire)
  /\ UNCHANGED <<backend, backlog, opened, ticks, lastId, status, pending, slot, frames,
                 backoff, stopped>>
-------------------------------------------------------------------------------
(***************************************************************************)
(* Snapshot.  The last daily entry counts as today's only if it carries    *)
(* today's date.                                                           *)
(***************************************************************************)
\* Mutant of TodayCost: the last entry is taken for today's whatever its date.
TodayCostUndated == data.cost

TodayCost == IF data.day = today THEN data.cost ELSE 0

Snapshot ==
  [collector |-> status,
   status |-> IF data = NoUsage THEN "unavailable" ELSE "ok",
   alert |-> IF data = NoUsage THEN "none"
             ELSE IF TodayCost >= CritUSD THEN "critical"
             ELSE IF TodayCost >= WarnUSD THEN "warning" ELSE "ok",
   sessions |-> data # NoUsage /\ sessions]
-------------------------------------------------------------------------------
(***************************************************************************)
(* pollLoop: the reader goroutine.  After 16 frames nobody took it blocks. *)
(***************************************************************************)
Blocked == Len(frames) > FrameCap

ReadFrame ==
  /\ reader = "reading"
  /\ ~Blocked
  /\ wire # <<>>
  /\ frames' = Append(frames, Head(wire))
  /\ wire' = Tail(wire)
  /\ UNCHANGED <<backend, backlog, opened, ticks, lastId, since, published, awaited, pending,
                 slot, reader, pc, backoff, stopped>>

\* The error goes to errCh, which has room for it.
ReadFails ==
  /\ reader = "reading"
  /\ ~Blocked
  /\ reader' = "failed"
  /\ UNCHANGED <<backend, link, published, awaited, pending, slot, frames, pc, backoff, stopped>>

(***************************************************************************)
(* pollLoop: the loop.  Only its outer select reads frameCh; while the     *)
(* ticker's branch waits for a response, nobody does.                      *)
(***************************************************************************)
Routes == pc = "loop"

TakeFrame ==
  /\ Routes
  /\ frames # <<>>
  /\ LET f == Head(frames) IN
       IF f.id \in pending
       THEN slot' = slot \cup {f} /\ pending' = pending \ {f.id}
       ELSE UNCHANGED <<slot, pending>>
  /\ frames' = Tail(frames)
  /\ UNCHANGED <<backend, link, published, awaited, reader, pc, backoff, stopped>>

\* A request of the ticker's branch; its response goes to a channel of its own.
Ask(kind) ==
  /\ lastId' = lastId + 1
  /\ backlog' = backlog \cup {Request(lastId + 1, kind)}
  /\ awaited' = [awaited EXCEPT ![kind] = lastId + 1]
  /\ pending' = {lastId + 1}
  /\ slot' = {}
  /\ pc' = kind

Tick ==
  /\ pc = "loop"
  /\ ticks < MaxTicks
  /\ ticks' = ticks + 1
  /\ Ask("cost")
  /\ UNCHANGED <<backend, wire, opened, since, published, reader, frames, backoff, stopped>>

\* Mutant of Outcomes: the wait for a response has no time limit.
OutcomesUnlimited(kind) == {f \in slot : f.id = awaited[kind]}

\* What the inner select ends with: the response, or the timer (Event).
Outcomes(kind) == {f \in slot : f.id = awaited[kind]} \cup {Event}

EndCostWait ==
  /\ pc = "cost"
  /\ \E f \in Outcomes("cost") : Process(f, [awaited EXCEPT !.sessions = -1])
  /\ lastId' = lastId + 1
  /\ backlog' = backlog \cup {Request(lastId + 1, "sessions")}
  /\ awaited' = [cost |-> 0, sessions |-> lastId + 1]
  /\ pending' = {lastId + 1}
  /\ slot' = {}
  /\ pc' = "sessions"
  /\ UNCHANGED <<backend, wire, opened, ticks, since, status, reader, frames, backoff, stopped>>

EndSessionsWait ==
  /\ pc = "sessions"
  /\ \E f \in Outcomes("sessions") : Process(f, [awaited EXCEPT !.cost = -1])
  /\ awaited' = [cost |-> 0, sessions |-> 0]
  /\ pending' = {} /\ slot' = {}
  /\ pc' = "loop"
  /\ UNCHANGED <<backend, link, status, reader, frames, backoff, stopped>>

\* pollLoop returns nil: the status stays what it was.
StopSeen ==
  /\ stopped
  /\ pc \in {"loop", "cost", "sessions"}
  /\ UNCHANGED status
  /\ Disconnect

Next ==
  \/ Spend \/ Midnight \/ SendEvent
  \/ \E r \in backlog, ok \in BOOLEAN : Answer(r, ok)
  \/ Begin \/ Fail \/ SendConnect \/ WrongChallenge \/ Rejected \/ Accepted
  \/ \E first \in {Challenge, Event} : Dial(first)
  \/ Pause \/ Return \/ Stop
  \/ \E late \in BOOLEAN : Fetch(late)
  \/ ReadFrame \/ ReadFails \/ TakeFrame \/ Tick
  \/ EndCostWait \/ EndSessionsWait \/ StopSeen

(***************************************************************************)
(* The goroutine's own steps are taken: timers fire, and a cancelled       *)
(* context makes every dial, read and select return.  The outer select     *)
(* chooses among its ready cases at random, and a tick comes only every    *)
(* sixty seconds, so a frame in the channel is not passed over for ever.   *)
(***************************************************************************)
Fairness ==
  /\ WF_vars(EndCostWait) /\ WF_vars(EndSessionsWait) /\ SF_vars(TakeFrame)
  /\ WF_vars(StopSeen) /\ WF_vars(Return) /\ WF_vars(stopped /\ Fail)

Spec == Init /\ [][Next]_vars /\ Fairness

(***************************************************************************)
(* The same collector when fifteen seconds are long: the timer ends a wait *)
(* only if the reader and the loop have nothing left to do first, so that  *)
(* no answer is lost to the timer that merely came late.                   *)
(***************************************************************************)
Busy ==
  \/ reader = "reading" /\ ~Blocked /\ wire # <<>>
  \/ Routes /\ frames # <<>>

TimerIsLast == (EndCostWait \/ EndSessionsWait) /\ slot = {} => ~Busy

PatientSpec == Init /\ [][Next /\ TimerIsLast]_vars /\ Fairness

-------------------------------------------------------------------------------
(***************************************************************************)
(* Types of the collector's fields and of its two goroutines; besides, the *)
(* pause before dialling again stays within its limit, and pollLoop's send *)
(* into a response channel never finds the channel full.                   *)
(***************************************************************************)
TypeOK ==
  /\ today \in 1 .. MaxDay /\ spent \in 0 .. MaxSpent
  /\ opened \in 0 .. MaxConnections /\ ticks \in 0 .. MaxTicks
  /\ pc \in {"start", "dial", "challenge", "hello", "fetch", "loop", "cost", "sessions",
             "backoff", "ended"}
  /\ status \in {"connecting", "connected", "error"}
  /\ data \in Usage \cup {NoUsage} /\ sessions \in BOOLEAN /\ stopped \in BOOLEAN
  /\ backoff \in 1 .. MaxBackoff
  /\ pending \subseteq 1 .. lastId
  /\ Cardinality(slot) <= 1 /\ \A f \in slot : f.id \notin pending
  /\ reader \in {"none", "reading", "failed"}
  /\ Len(frames) <= FrameCap + 1

(***************************************************************************)
(* When the poll loop is entered, what /admin/usage shows is at least as   *)
(* new as the connection: an old snapshot does not pass for that of a      *)
(* collector that reports "connected" again.  (fetchUsage ends well only   *)
(* with the cost in hand; a failed sessions.usage does not count.)         *)
(***************************************************************************)
FreshOnConnect ==
  [][pc = "fetch" /\ pc' = "loop" => NotOlder(data', since)]_vars

(***************************************************************************)
(* No false alarm: an alert is raised only if today has in fact cost that  *)
(* much, however old the snapshot is and whatever midnight it was kept     *)
(* over.  (The reverse fails whenever the snapshot is old.)                *)
(***************************************************************************)
AlertIsTrue ==
  /\ Snapshot.alert = "critical" => spent >= CritUSD
  /\ Snapshot.alert = "warning" => spent >= WarnUSD

(***************************************************************************)
(* SPEC-COST-MONITORING.md:66, of the collector: "Calls usage.cost every   *)
(* 60 seconds", and in line 67, "Stores latest CostUsageSummary in         *)
(* memory"; usage_collector.go:404 says that pollLoop "processes           *)
(* responses".  So a cost summary that answers the ticker's request, and   *)
(* that the reader has in hand before the wait for it ends, is published   *)
(* when the wait ends.  (It is not: only the loop that waits would pass it *)
(* on, and every wait ends by its timer.)                                  *)
(***************************************************************************)
PollStoresLatest ==
  [][\A i \in DOMAIN frames :
       /\ pc = "cost" /\ pc' = "sessions"
       /\ frames[i].id = awaited.cost /\ frames[i].ok
       => data' = frames[i].usage]_vars

(***************************************************************************)
(* The loop and its reader do not wait for each other for good: a reader   *)
(* that blocks on the full channel, while the loop waits for an answer     *)
(* that is behind it, gets room again unless the connection ends first.    *)
(***************************************************************************)
ReaderGetsRoom ==
  (Blocked /\ pc \in {"cost", "sessions"}) ~> (~Blocked)

(***************************************************************************)
(* Stop ends the collector's goroutine, whatever it is doing: dialling,    *)
(* waiting for a frame, for an answer or for the next attempt.             *)
(***************************************************************************)
StopEndsRun == stopped ~> (pc = "ended")
===============================================================================

-------------------------------- MODULE WsTunnel --------------------------------
(***************************************************************************)
(* The WebSocket tunnels of the gateway (services/gateway/ws_proxy.go) and *)
(* the receipts they leave in the Ledger.  A session is served by three    *)
(* goroutines: the request handler, which records the start, waits until   *)
(* one direction is done, records the end and closes both connections; the *)
(* downlink, which copies backend data to the client and records what the  *)
(* LedgerReader recognises in each chunk (tool_parser.go); and the uplink, *)
(* which only copies.  Each direction reports on the channel done when it  *)
(* ends.                                                                   *)
(*                                                                         *)
(* What a chunk contains is chosen freely: one call of processChunk        *)
(* appends one receipt or two, here called events.                         *)
(***************************************************************************)
EXTENDS Integers, Sequences, FiniteSets

CONSTANTS
  Sessions,   \* WebSocket sessions
  Size,       \* capacity of the ledger's ring
  MaxChunks   \* bound: chunks with a receipt, per session

ASSUME WsTunnelAssumption ==
  /\ Size \in Nat \ {0}
  /\ MaxChunks \in Nat

VARIABLES
  seq, entries, head, count, hand,  \* the ledger, see Ledger
  handler,   \* per session, where its handler is
  downlink,  \* per session, where the goroutine backend to client is
  uplink,    \* per session, where the goroutine client to backend is
  done,      \* per session, messages in the channel done
  todo,      \* per session, receipts of the current chunk still to append
  chunks     \* per session, chunks recognised so far

tunnelVars == <<handler, downlink, uplink, done, todo, chunks>>

Goroutines == {"handler", "downlink"}
Actions == {"session_start", "event", "session_end"}

Ring == INSTANCE Ledger
  WITH Writers <- Sessions \X Goroutines, Bodies <- [session : Sessions, action : Actions]

vars == <<seq, entries, head, count, hand, handler, downlink, uplink, done, todo, chunks>>

\* tool_call with or without tool_result, or tool_result with or without agent_text,
\* or agent_text alone: agent_text is recorded only of a chunk without a tool_use.
Recognised == {<<"event">>, <<"event", "event">>}

Init ==
  /\ Ring!NewLedger
  /\ handler = [s \in Sessions |-> "none"]
  /\ downlink = [s \in Sessions |-> "none"]
  /\ uplink = [s \in Sessions |-> "none"]
  /\ done = [s \in Sessions |-> 0]
  /\ todo = [s \in Sessions |-> <<>>]
  /\ chunks = [s \in Sessions |-> 0]

Record(s, who, action) == Ring!TakeSeq(<<s, who>>, [session |-> s, action |-> action])
Store(s, who) == Ring!Insert(<<s, who>>)

-------------------------------------------------------------------------------
(***************************************************************************)
(* The handler                                                             *)
(***************************************************************************)
\* Mutant of Open: the goroutines are started before the start is recorded.
OpenAtOnce(s) ==
  /\ handler[s] = "none"
  /\ Record(s, "handler", "session_start")
  /\ handler' = [handler EXCEPT ![s] = "starting"]
  /\ downlink' = [downlink EXCEPT ![s] = "copying"]
  /\ uplink' = [uplink EXCEPT ![s] = "copying"]
  /\ UNCHANGED <<done, todo, chunks>>

\* The upgrade is forwarded, the start is numbered.
Open(s) ==
  /\ handler[s] = "none"
  /\ Record(s, "handler", "session_start")
  /\ handler' = [handler EXCEPT ![s] = "starting"]
  /\ UNCHANGED <<downlink, uplink, done, todo, chunks>>

\* The start is stored, the two goroutines are started.
Start(s) ==
  /\ handler[s] = "starting"
  /\ Store(s, "handler")
  /\ handler' = [handler EXCEPT ![s] = "waiting"]
  /\ downlink' = [downlink EXCEPT ![s] = "copying"]
  /\ uplink' = [uplink EXCEPT ![s] = "copying"]
  /\ UNCHANGED <<done, todo, chunks>>

\* One direction is done; the end is numbered.
End(s) ==
  /\ handler[s] = "waiting"
  /\ done[s] > 0
  /\ done' = [done EXCEPT ![s] = @ - 1]
  /\ Record(s, "handler", "session_end")
  /\ handler' = [handler EXCEPT ![s] = "ending"]
  /\ UNCHANGED <<downlink, uplink, todo, chunks>>

\* The end is stored; the handler returns and closes both connections.
Close(s) ==
  /\ handler[s] = "ending"
  /\ Store(s, "handler")
  /\ handler' = [handler EXCEPT ![s] = "over"]
  /\ UNCHANGED <<downlink, uplink, done, todo, chunks>>

-------------------------------------------------------------------------------
(***************************************************************************)
(* The goroutines that copy                                                *)
(***************************************************************************)
Busy(s) == todo[s] # <<>> \/ hand[<<s, "downlink">>] # Ring!NoReceipt

\* Read returns a chunk, and processChunk recognises something in it.
Chunk(s) ==
  /\ downlink[s] = "copying"
  /\ ~Busy(s)
  /\ handler[s] # "over"
  /\ chunks[s] < MaxChunks
  /\ chunks' = [chunks EXCEPT ![s] = @ + 1]
  /\ \E list \in Recognised : todo' = [todo EXCEPT ![s] = list]
  /\ UNCHANGED <<seq, entries, head, count, hand, handler, downlink, uplink, done>>

Recognise(s) ==
  /\ todo[s] # <<>>
  /\ Record(s, "downlink", Head(todo[s]))
  /\ todo' = [todo EXCEPT ![s] = Tail(@)]
  /\ UNCHANGED <<handler, downlink, uplink, done, chunks>>

StoreRecognised(s) ==
  /\ Store(s, "downlink")
  /\ UNCHANGED tunnelVars

\* Mutant of MayReport: the channel done has no buffer.
MayReportUnbuffered(s) == handler[s] = "waiting" /\ done[s] = 0

\* The channel has room for both directions.
MayReport(s) == done[s] < 2

\* A read or a write fails, or the stream ends: copying is over and reported.
DownlinkEnds(s) ==
  /\ downlink[s] = "copying"
  /\ ~Busy(s)
  /\ MayReport(s)
  /\ downlink' = [downlink EXCEPT ![s] = "gone"]
  /\ done' = [done EXCEPT ![s] = @ + 1]
  /\ UNCHANGED <<seq, entries, head, count, hand, handler, uplink, todo, chunks>>

UplinkEnds(s) ==
  /\ uplink[s] = "copying"
  /\ MayReport(s)
  /\ uplink' = [uplink EXCEPT ![s] = "gone"]
  /\ done' = [done EXCEPT ![s] = @ + 1]
  /\ UNCHANGED <<seq, entries, head, count, hand, handler, downlink, todo, chunks>>

-------------------------------------------------------------------------------
\* The gateway stops, or crashes, in the middle of anything, and starts again.
Restart ==
  /\ Ring!LoseLedger
  /\ handler' = [s \in Sessions |-> "none"]
  /\ downlink' = [s \in Sessions |-> "none"]
  /\ uplink' = [s \in Sessions |-> "none"]
  /\ done' = [s \in Sessions |-> 0]
  /\ todo' = [s \in Sessions |-> <<>>]
  /\ chunks' = [s \in Sessions |-> 0]

Step(s) ==
  \/ Start(s) \/ End(s) \/ Close(s)
  \/ Recognise(s) \/ StoreRecognised(s)

Peers(s) == Open(s) \/ Chunk(s) \/ DownlinkEnds(s) \/ UplinkEnds(s)

Next ==
  \/ \E s \in Sessions : Step(s) \/ Peers(s)
  \/ Restart

(***************************************************************************)
(* Goroutines run: whatever a goroutine can do by itself it does in the    *)
(* end.  A peer need never send nor hang up; but once the handler has      *)
(* closed the connections, reads and writes on them fail.                  *)
(***************************************************************************)
Fairness ==
  \A s \in Sessions :
    /\ WF_vars(Start(s)) /\ WF_vars(End(s)) /\ WF_vars(Close(s))
    /\ WF_vars(Recognise(s)) /\ WF_vars(StoreRecognised(s))
    /\ WF_vars(handler[s] = "over" /\ DownlinkEnds(s))
    /\ WF_vars(handler[s] = "over" /\ UplinkEnds(s))

Spec == Init /\ [][Next]_vars /\ Fairness

-------------------------------------------------------------------------------
(***************************************************************************)
(* Types of the ledger and of the tunnels; the channel done never holds    *)
(* more than the two messages it was made for.                             *)
(***************************************************************************)
TypeOK ==
  /\ Ring!LedgerTypeOK
  /\ handler \in [Sessions -> {"none", "starting", "waiting", "ending", "over"}]
  /\ downlink \in [Sessions -> {"none", "copying", "gone"}]
  /\ uplink \in [Sessions -> {"none", "copying", "gone"}]
  /\ done \in [Sessions -> 0 .. 2]
  /\ todo \in [Sessions -> Recognised \cup {<<>>}]
  /\ chunks \in [Sessions -> 0 .. MaxChunks]

NoGap == Ring!NoGap
RecentAgreesWithQuery == Ring!RecentAgreesWithQuery
ImplementsRecentLog == Ring!ImplementsRecentLog

At(i) == Ring!Query[i]

(***************************************************************************)
(* A session's start is recorded before anything else of the session, and  *)
(* numbered lower, and its end once: whoever reads the ledger finds what   *)
(* the agent did after the start of its session, whatever other sessions   *)
(* append in between.                                                      *)
(***************************************************************************)
SessionBracketed ==
  \A i, j \in 1 .. count :
    LET a == At(i) b == At(j) IN
      i < j /\ a.body.session = b.body.session =>
        /\ b.body.action # "session_start"
        /\ a.body.action = "session_start" => a.seq < b.seq
        /\ ~(a.body.action = "session_end" /\ b.body.action = "session_end")

(***************************************************************************)
(* When one direction of a tunnel ends, the other is torn down, the end of *)
(* the session is recorded, and all its goroutines finish, unless the      *)
(* process ends first: no goroutine is left waiting on a connection or on  *)
(* the channel done.                                                       *)
(***************************************************************************)
Finished(s) ==
  \/ handler[s] = "none"
  \/ handler[s] = "over" /\ downlink[s] = "gone" /\ uplink[s] = "gone"

TunnelTornDown ==
  \A s \in Sessions : "gone" \in {downlink[s], uplink[s]} ~> Finished(s)
===============================================================================

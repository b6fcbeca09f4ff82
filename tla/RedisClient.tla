------------------------------ MODULE RedisClient ------------------------------
(***************************************************************************)
(* The gateway's Redis client (services/gateway/middleware/redis.go): one  *)
(* connection, one command at a time, a retry on a new connection after    *)
(* any error.  Do holds the client's mutex from start to end, so there is  *)
(* one call at a time; what interleaves with its steps is Redis, which     *)
(* works through the commands of every connection in its own time, those   *)
(* of connections the client has given up included.                        *)
(*                                                                         *)
(* Replies carry no number: a caller gets whatever comes next.  In the     *)
(* model a reply remembers the command it answers, 0 for none.             *)
(***************************************************************************)
EXTENDS Integers, Sequences

CONSTANTS
  MaxCmds,  \* bound: calls of Do in a behaviour
  MaxConns  \* bound: connections opened in a behaviour

ASSUME RedisClientAssumption == MaxCmds \in Nat /\ MaxConns \in Nat

VARIABLES
  conn,     \* RedisClient.conn: its place in links, 0 for nil
  links,    \* the connections opened so far: commands Redis has not read yet,
            \* replies the client has not read yet, whether the connection broke
  store,    \* what Redis holds for the key: the command that set it, 0 for none
  pc,       \* where Do is
  cmd,      \* the command Do was called with
  issued,   \* commands so far
  last,     \* what the latest call returned
  skewed,   \* history: bytes of an earlier reply may be due on this connection
  latest,   \* history: the latest SET or DEL, what it stores, whether it was acknowledged
  late      \* history: Redis executed a given-up write after a newer one was issued

vars == <<conn, links, store, pc, cmd, issued, last, skewed, latest, late>>

Ops == {"set", "del", "get"}

Init ==
  /\ conn = 0
  /\ links = <<>>
  /\ store = 0
  /\ pc = "idle"
  /\ cmd = [id |-> 0, op |-> "get"]
  /\ issued = 0
  /\ last = [id |-> 0, answers |-> 0, status |-> "none", skewed |-> FALSE]
  /\ skewed = FALSE
  /\ latest = [id |-> 0, value |-> 0, acked |-> FALSE]
  /\ late = FALSE

-------------------------------------------------------------------------------
(***************************************************************************)
(* Connections                                                             *)
(***************************************************************************)
New == Len(links) + 1
Fresh == [sent |-> <<>>, replies |-> <<>>, broken |-> FALSE]

\* Mutant of Opened: the reader of the old connection is used on.
OpenedOldReader == Append(links,
  IF links = <<>> THEN Fresh ELSE [Fresh EXCEPT !.replies = links[Len(links)].replies])

\* Mutant of Opened: the reply to AUTH is left in the reader.
OpenedAuthUnread ==
  Append(links, [Fresh EXCEPT !.replies = <<[id |-> 0, kind |-> "value", bulk |-> FALSE]>>])

\* connect: dialled, authenticated, with a reader of its own.
Opened == Append(links, Fresh)

\* The client closes its connection, and what it has not read is lost.
Closed(ls) == IF conn = 0 THEN ls ELSE [ls EXCEPT ![conn].replies = <<>>]

\* The command is written; on a broken connection it goes nowhere.
Put(ls, c) ==
  IF ls[c].broken THEN ls ELSE [ls EXCEPT ![c].sent = Append(@, cmd)]

Replies == links[conn].replies
Taken == [links EXCEPT ![conn].replies = Tail(@)]

Return(status, answers) ==
  /\ pc' = "idle"
  /\ last' = [id |-> cmd.id, answers |-> answers, status |-> status, skewed |-> skewed]
  /\ latest' = [latest EXCEPT !.acked = IF latest.id = cmd.id
                                        THEN status = "ok" /\ ~skewed ELSE @]

-------------------------------------------------------------------------------
(***************************************************************************)
(* Do                                                                      *)
(***************************************************************************)
Call(op) ==
  LET id == issued + 1 IN
    /\ pc = "idle"
    /\ issued < MaxCmds
    /\ issued' = id
    /\ cmd' = [id |-> id, op |-> op]
    /\ pc' = "send"
    /\ latest' = IF op = "get" THEN latest
                 ELSE [id |-> id, value |-> IF op = "set" THEN id ELSE 0, acked |-> FALSE]
    /\ UNCHANGED <<conn, links, store, last, skewed, late>>

\* sendCommand, which dials first if there is no connection.
Send ==
  /\ pc = "send"
  /\ \/ /\ conn # 0
        /\ links' = Put(links, conn)
        /\ UNCHANGED <<conn, skewed>>
     \/ /\ conn = 0 /\ New <= MaxConns
        /\ links' = Put(Opened, New)
        /\ conn' = New
        /\ skewed' = FALSE
  /\ pc' = "read"
  /\ UNCHANGED <<store, cmd, issued, last, latest, late>>

SendFails ==
  /\ pc = "send"
  /\ pc' = "retry"
  /\ UNCHANGED <<conn, links, store, cmd, issued, last, skewed, latest, late>>

\* reconnectAndRetry up to its read: the old connection is closed for good.
Retry ==
  /\ pc = "retry"
  /\ New <= MaxConns
  /\ links' = Put(Closed(Opened), New)
  /\ conn' = New
  /\ skewed' = FALSE
  /\ pc' = "reread"
  /\ UNCHANGED <<store, cmd, issued, last, latest, late>>

\* The second dial fails, or the second write.
RetryFails ==
  /\ pc = "retry"
  /\ \/ conn' = 0 /\ links' = Closed(links) /\ UNCHANGED skewed
     \/ /\ New <= MaxConns
        /\ links' = Closed(Opened)
        /\ conn' = New
        /\ skewed' = FALSE
  /\ Return("error", 0)
  /\ UNCHANGED <<store, cmd, issued, late>>

\* Mutant of IsError: a line that begins with a minus is taken for a value.
IsErrorCrlf(reply) == reply.kind = "crlf"

\* An error reply; or an empty line, left by a bulk string read short.
IsError(reply) == reply.kind \in {"error", "crlf"}

\* readResponse finds a line it understands, or one it does not and returns as is.
TakeReply ==
  /\ pc \in {"read", "reread"}
  /\ Replies # <<>>
  /\ ~IsError(Head(Replies))
  /\ links' = Taken
  /\ Return("ok", Head(Replies).id)
  /\ UNCHANGED <<conn, store, cmd, issued, skewed, late>>

(***************************************************************************)
(* A bulk string of which only a part has arrived: one Read of the reader  *)
(* returns that part as the value, and the rest stays: some text, or only  *)
(* the end of the line.                                                    *)
(***************************************************************************)
TakeShort ==
  /\ pc \in {"read", "reread"}
  /\ Replies # <<>>
  /\ Head(Replies).kind = "value" /\ Head(Replies).bulk
  /\ \E kind \in {"rest", "crlf"} :
       /\ links' = [links EXCEPT ![conn].replies[1] = [id |-> 0, kind |-> kind, bulk |-> FALSE]]
       /\ Return(IF kind = "rest" THEN "torn" ELSE "ok", Head(Replies).id)
  /\ skewed' = TRUE
  /\ UNCHANGED <<conn, store, cmd, issued, late>>

\* An error, the first time: another attempt on a new connection.  The second is final.
Fail ==
  \/ pc = "read" /\ pc' = "retry" /\ UNCHANGED <<last, latest>>
  \/ pc = "reread" /\ Return("error", 0)

TakeError ==
  /\ pc \in {"read", "reread"}
  /\ Replies # <<>>
  /\ IsError(Head(Replies))
  /\ links' = Taken
  /\ Fail
  /\ UNCHANGED <<conn, store, cmd, issued, skewed, late>>

\* Mutant of GivesUp: there is no read deadline.
GivesUpBroken == links[conn].broken

\* Five seconds pass without a byte, if the connection does not break before.
GivesUp == Replies = <<>>

\* The first time the connection is closed next; the second time it stays in use.
ReadFails ==
  /\ pc \in {"read", "reread"}
  /\ GivesUp
  /\ Fail
  /\ skewed' = (skewed \/ ~links[conn].broken)
  /\ UNCHANGED <<conn, links, store, cmd, issued, late>>

\* Close, at shutdown; a later call dials again.
Close ==
  /\ pc = "idle"
  /\ conn' = 0
  /\ links' = Closed(links)
  /\ UNCHANGED <<store, pc, cmd, issued, last, skewed, latest, late>>

-------------------------------------------------------------------------------
(***************************************************************************)
(* Redis and the network                                                   *)
(***************************************************************************)
Executes(c, i) ==
  /\ store' = CASE c.op = "set" -> c.id [] c.op = "del" -> 0 [] OTHER -> store
  /\ late' = (late \/ (i # conn /\ c.op # "get" /\ c.id < latest.id))

\* Redis reads one command, executes or refuses it, and answers if somebody listens.
\* A GET with nothing stored gets the one line $-1, which nothing can be left of.
Serve(i) ==
  LET c == Head(links[i].sent)
      answer(kind) == [id |-> c.id, kind |-> kind, bulk |-> c.op = "get" /\ store # 0]
      served(kind) ==
        [links EXCEPT ![i].sent = Tail(@),
                      ![i].replies = IF i = conn THEN Append(@, answer(kind)) ELSE @]
  IN  /\ links[i].sent # <<>>
      /\ \/ links' = served("value") /\ Executes(c, i)
         \/ links' = served("error") /\ UNCHANGED <<store, late>>
      /\ UNCHANGED <<conn, pc, cmd, issued, last, skewed, latest>>

\* A connection breaks, with everything on its way.
Break(i) ==
  /\ ~links[i].broken
  /\ i = conn \/ links[i].sent # <<>>
  /\ links' = [links EXCEPT ![i] = [sent |-> <<>>, replies |-> <<>>, broken |-> TRUE]]
  /\ UNCHANGED <<conn, store, pc, cmd, issued, last, skewed, latest, late>>

Client ==
  \/ Send \/ SendFails \/ Retry \/ RetryFails
  \/ TakeReply \/ TakeShort \/ TakeError \/ ReadFails

Next ==
  \/ \E op \in Ops : Call(op)
  \/ Client
  \/ Close
  \/ \E i \in 1 .. Len(links) : Serve(i) \/ Break(i)

(***************************************************************************)
(* A call goes on by itself: every dial, write and read has a deadline of  *)
(* five seconds.  Redis need not do anything.                              *)
(***************************************************************************)
Spec == Init /\ [][Next]_vars /\ WF_vars(Client)

-------------------------------------------------------------------------------
Commands == [id : 1 .. MaxCmds, op : Ops]
Answers == [id : 0 .. MaxCmds, kind : {"value", "rest", "crlf", "error"}, bulk : BOOLEAN]
Links == [sent : Seq(Commands), replies : Seq(Answers), broken : BOOLEAN]

(***************************************************************************)
(* Types of the client, the connections and the history; between calls     *)
(* nothing is due on the connection, unless the latest attempt on it       *)
(* failed after it was sent or a reply was read short.                     *)
(***************************************************************************)
TypeOK ==
  /\ links \in Seq(Links) /\ Len(links) <= MaxConns
  /\ conn \in 0 .. Len(links)
  /\ store \in 0 .. MaxCmds
  /\ pc \in {"idle", "send", "read", "retry", "reread"}
  /\ cmd \in [id : 0 .. MaxCmds, op : Ops]
  /\ issued \in 0 .. MaxCmds
  /\ last \in [id : 0 .. MaxCmds, answers : 0 .. MaxCmds,
               status : {"none", "ok", "torn", "error"}, skewed : BOOLEAN]
  /\ skewed \in BOOLEAN
  /\ latest \in [id : 0 .. MaxCmds, value : 0 .. MaxCmds, acked : BOOLEAN]
  /\ late \in BOOLEAN
  /\ pc = "idle" /\ conn # 0 /\ ~skewed =>
       links[conn].sent = <<>> /\ links[conn].replies = <<>>

(***************************************************************************)
(* Every caller gets the reply to its own command, whatever connections    *)
(* broke, commands were retried and errors were returned before, as long   *)
(* as no attempt failed and no value was read short on the connection the  *)
(* client still uses: a new connection cures the confusion of the old one. *)
(***************************************************************************)
RepliesInStep ==
  last.status = "ok" /\ ~last.skewed => last.answers = last.id

(***************************************************************************)
(* What the guard and the revocation list rely on: after a SET or DEL that *)
(* returned without an error, Redis holds what it said until the next one, *)
(* unless Redis executes, late, a command that was given up before.        *)
(***************************************************************************)
LastWriteStands ==
  latest.acked /\ ~late => store = latest.value

(***************************************************************************)
(* Every call returns, although Redis may never answer: the mutexes of the *)
(* guard and of the client are held across it, and the requests of all     *)
(* clients wait for them.                                                  *)
(***************************************************************************)
EveryCallReturns == pc # "idle" ~> pc = "idle"

(***************************************************************************)
(* Comment of Do: it "executes a Redis command and returns the response".  *)
(* When the read of a retry fails, or a value is read short, the           *)
(* connection stays in use, and the next caller gets the reply that was    *)
(* due, or the rest of it.                                                 *)
(***************************************************************************)
ReplyIsOwn == last.status = "ok" => last.answers = last.id
===============================================================================

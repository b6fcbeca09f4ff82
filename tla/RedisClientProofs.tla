--------------------------- MODULE RedisClientProofs ---------------------------
(***************************************************************************)
(* Proofs about RedisClient, for any number of calls and connections: the  *)
(* types; that replies stay in step on a connection that no failed attempt *)
(* has been left on; that an acknowledged write stands.                    *)
(*                                                                         *)
(* A reply is taken on trust, whatever comes next, so the invariant says   *)
(* what can come next: InStep of the connection in use, Older and Ahead of *)
(* the commands that Redis may still execute.                              *)
(***************************************************************************)
EXTENDS RedisClient, SequenceTheorems, TLAPS

Reading(p) == p \in {"read", "reread"}
Writes(c) == c.op # "get"
Value(c) == IF c.op = "set" THEN c.id ELSE 0

Empty(l) == l.sent = <<>> /\ l.replies = <<>>
\* The reply to c; stored tells whether Redis had a value when it answered.
Reply(c, kind, stored) == [id |-> c.id, kind |-> kind, bulk |-> c.op = "get" /\ stored]

\* What a connection carries when its last attempt did not fail: nothing between
\* calls, and during a call the command, or its reply.
InStep(l, p, c) ==
  /\ ~Reading(p) => Empty(l)
  /\ \/ Empty(l)
     \/ l.sent = <<c>> /\ l.replies = <<>>
     \/ /\ l.sent = <<>>
        /\ \E kind \in {"value", "error"}, stored \in BOOLEAN :
             l.replies = <<Reply(c, kind, stored)>>

\* The call under way: the latest command, and the latest write if it is one.
Underway(p, c, n, w) ==
  p # "idle" =>
    /\ c.id = n /\ n > 0
    /\ Writes(c) => w.id = c.id /\ w.value = Value(c)
    /\ ~Writes(c) => w.id < c.id

\* No write that Redis may still execute is younger than the latest; a copy of the
\* latest stores the same.
Older(l, w) ==
  \A j \in 1 .. Len(l.sent) :
    Writes(l.sent[j]) =>
      /\ l.sent[j].id <= w.id
      /\ l.sent[j].id = w.id => Value(l.sent[j]) = w.value

\* None is older than the latest either.
Ahead(l, w) ==
  \A j \in 1 .. Len(l.sent) : Writes(l.sent[j]) => l.sent[j].id >= w.id

\* The reply to a write is here, and is not an error: Redis has executed it.
Executed(l, p, c) ==
  Reading(p) /\ Writes(c) /\ l.replies # <<>> /\ Head(l.replies).kind = "value"

\* The connection in use: s if it is skewed, t if a write was executed late, x is stored.
InUse(l, p, c, s, t, w, x) ==
  /\ ~s => InStep(l, p, c)
  /\ ~s /\ ~t /\ Executed(l, p, c) => x = w.value
  /\ w.acked => Ahead(l, w)

\* Any connection.
Link(l, w) == (l.broken => Empty(l)) /\ Older(l, w)

Types ==
  /\ links \in Seq(Links) /\ Len(links) <= MaxConns
  /\ conn \in 0 .. Len(links)
  /\ store \in 0 .. MaxCmds
  /\ pc \in {"idle", "send", "read", "retry", "reread"}
  /\ cmd \in [id : 0 .. MaxCmds, op : Ops]
  /\ issued \in 0 .. MaxCmds
  /\ last \in [id : 0 .. MaxCmds, answers : 0 .. MaxCmds,
               status : {"none", "ok", "torn", "error"}, skewed : BOOLEAN]
  /\ skewed \in BOOLEAN
  /\ latest \in [id : 0 .. MaxCmds, value : 0 .. MaxCmds, acked : BOOLEAN]
  /\ late \in BOOLEAN

IInv ==
  /\ Types
  /\ Reading(pc) => conn # 0
  /\ latest.id <= issued
  /\ Underway(pc, cmd, issued, latest)
  /\ \A i \in 1 .. Len(links) : Link(links[i], latest)
  /\ conn # 0 => InUse(links[conn], pc, cmd, skewed, late, latest, store)
  /\ LastWriteStands
  /\ RepliesInStep

-------------------------------------------------------------------------------
(***************************************************************************)
(* How the connections change                                              *)
(***************************************************************************)
\* A connection with other commands or replies, written out.
LEMMA LinkExcept ==
  ASSUME NEW l \in Links, NEW x
  PROVE  /\ [l EXCEPT !.sent = x] = [sent |-> x, replies |-> l.replies, broken |-> l.broken]
         /\ [l EXCEPT !.replies = x] = [sent |-> l.sent, replies |-> x, broken |-> l.broken]
<1>1. l = [sent |-> l.sent, replies |-> l.replies, broken |-> l.broken]
  BY Zenon DEF Links
<1>2. QED
  BY <1>1

\* One connection changes, the others do not.
LEMMA UpdateLink ==
  ASSUME NEW ls \in Seq(Links), NEW i \in 1 .. Len(ls), NEW l \in Links
  PROVE  /\ [ls EXCEPT ![i] = l] \in Seq(Links)
         /\ Len([ls EXCEPT ![i] = l]) = Len(ls)
         /\ [ls EXCEPT ![i] = l][i] = l
         /\ \A j \in 1 .. Len(ls) : j # i => [ls EXCEPT ![i] = l][j] = ls[j]
BY ExceptSeq, LenProperties

\* A dialled connection comes behind the others.
LEMMA OpenedLinks ==
  ASSUME links \in Seq(Links)
  PROVE  /\ Opened \in Seq(Links)
         /\ Len(Opened) = New
         /\ Opened[New] = Fresh
         /\ \A j \in 1 .. Len(links) : Opened[j] = links[j]
<1>1. Fresh \in Links
  BY DEF Fresh, Links
<1>2. QED
  BY <1>1, AppendProperties DEF Opened, New

\* Closing a connection discards its replies.
LEMMA ClosedLinks ==
  ASSUME NEW ls \in Seq(Links), conn \in 0 .. Len(ls)
  PROVE  /\ Closed(ls) \in Seq(Links)
         /\ Len(Closed(ls)) = Len(ls)
         /\ \A j \in 1 .. Len(ls) : j # conn => Closed(ls)[j] = ls[j]
         /\ conn # 0 => Closed(ls)[conn] = [sent |-> ls[conn].sent, replies |-> <<>>,
                                            broken |-> ls[conn].broken]
<1>1. CASE conn = 0
  BY <1>1 DEF Closed
<1>2. CASE conn # 0
  <2> DEFINE l == [sent |-> ls[conn].sent, replies |-> <<>>, broken |-> ls[conn].broken]
  <2>1. conn \in 1 .. Len(ls) /\ ls[conn] \in Links
    BY <1>2, ElementOfSeq
  <2>2. l \in Links
    BY <2>1 DEF Links
  <2> DEFINE e == [ls[conn] EXCEPT !.replies = <<>>]
  <2>a. e = l
    BY <2>1, LinkExcept
  <2>b. Closed(ls) = [ls EXCEPT ![conn] = e]
    BY <1>2 DEF Closed
  <2>3. Closed(ls) = [ls EXCEPT ![conn] = l]
    BY <2>a, <2>b
  <2> HIDE DEF l
  <2>4. Closed(ls)[conn] = l
    BY <2>1, <2>2, <2>3, UpdateLink
  <2>5. QED
    BY <1>2, <2>1, <2>2, <2>3, <2>4, UpdateLink DEF l
<1>3. QED
  BY <1>1, <1>2

\* A command is written behind the others.
LEMMA PutLinks ==
  ASSUME NEW ls \in Seq(Links), NEW i \in 1 .. Len(ls), cmd \in Commands
  PROVE  /\ Put(ls, i) \in Seq(Links)
         /\ Len(Put(ls, i)) = Len(ls)
         /\ \A j \in 1 .. Len(ls) : j # i => Put(ls, i)[j] = ls[j]
         /\ ls[i].broken => Put(ls, i)[i] = ls[i]
         /\ ~ls[i].broken => Put(ls, i)[i] = [sent |-> Append(ls[i].sent, cmd),
                                              replies |-> ls[i].replies, broken |-> FALSE]
<1>1. ls[i] \in Links
  BY ElementOfSeq
<1>2. CASE ls[i].broken
  BY <1>2 DEF Put
<1>3. CASE ~ls[i].broken
  <2> DEFINE l == [sent |-> Append(ls[i].sent, cmd), replies |-> ls[i].replies,
                   broken |-> FALSE]
  <2>1. Append(ls[i].sent, cmd) \in Seq(Commands)
    BY <1>1, AppendProperties DEF Links
  <2>2. l \in Links
    BY <1>1, <2>1 DEF Links
  <2> DEFINE e == [ls[i] EXCEPT !.sent = Append(@, cmd)]
  <2>a. e = l
    BY <1>1, <1>3, LinkExcept DEF Links
  <2>b. Put(ls, i) = [ls EXCEPT ![i] = e]
    BY <1>3 DEF Put
  <2>3. Put(ls, i) = [ls EXCEPT ![i] = l]
    BY <2>a, <2>b
  <2> HIDE DEF l
  <2>4. Put(ls, i)[i] = l
    BY <2>2, <2>3, UpdateLink
  <2>5. QED
    BY <1>3, <2>2, <2>3, <2>4, UpdateLink DEF l
<1>4. QED
  BY <1>2, <1>3

\* The command of a call under way is a command Redis can get.
LEMMA CmdIsCommand ==
  ASSUME IInv, pc # "idle"
  PROVE  cmd \in Commands
BY DEF IInv, Types, Underway, Commands

\* A command of the present call, behind the others, keeps the order of writes.
LEMMA AppendOlder ==
  ASSUME NEW l \in Links, NEW w, NEW c \in Commands, NEW n, NEW r, Older(l, w),
         Writes(c) => c.id = w.id /\ w.value = Value(c), w.id \in Nat
  PROVE  /\ Older([sent |-> Append(l.sent, c), replies |-> r, broken |-> FALSE], w)
         /\ Ahead(l, w) =>
              Ahead([sent |-> Append(l.sent, c), replies |-> r, broken |-> FALSE], w)
<1>1. l.sent \in Seq(Commands)
  BY DEF Links
<1> DEFINE s == Append(l.sent, c)
<1>2. /\ Len(s) = Len(l.sent) + 1
      /\ \A j \in 1 .. Len(l.sent) : s[j] = l.sent[j]
      /\ s[Len(l.sent) + 1] = c
  BY <1>1, AppendProperties
<1>3. \A j \in 1 .. Len(s) : j \in 1 .. Len(l.sent) \/ j = Len(l.sent) + 1
  BY <1>1, <1>2, LenProperties
<1> HIDE DEF s
<1>4. Older([sent |-> s, replies |-> r, broken |-> FALSE], w)
  BY <1>2, <1>3 DEF Older
<1>5. Ahead(l, w) => Ahead([sent |-> s, replies |-> r, broken |-> FALSE], w)
  BY <1>2, <1>3 DEF Ahead
<1>6. QED
  BY <1>4, <1>5 DEF s

\* So does taking the first away.
LEMMA TailOlder ==
  ASSUME NEW l \in Links, l.sent # <<>>, NEW w, NEW r, NEW b, Older(l, w)
  PROVE  /\ Older([sent |-> Tail(l.sent), replies |-> r, broken |-> b], w)
         /\ Ahead(l, w) => Ahead([sent |-> Tail(l.sent), replies |-> r, broken |-> b], w)
<1>1. l.sent \in Seq(Commands)
  BY DEF Links
<1> DEFINE s == Tail(l.sent)
<1>2. /\ Len(s) = Len(l.sent) - 1
      /\ \A j \in 1 .. Len(s) : s[j] = l.sent[j + 1]
  BY <1>1, HeadTailProperties
<1>3. \A j \in 1 .. Len(s) : j + 1 \in 1 .. Len(l.sent)
  BY <1>1, <1>2, LenProperties
<1> HIDE DEF s
<1>4. Older([sent |-> s, replies |-> r, broken |-> b], w)
  BY <1>2, <1>3 DEF Older
<1>5. Ahead(l, w) => Ahead([sent |-> s, replies |-> r, broken |-> b], w)
  BY <1>2, <1>3 DEF Ahead
<1>6. QED
  BY <1>4, <1>5 DEF s

\* A newly issued write is younger than every other.
LEMMA IssueOlder ==
  ASSUME NEW l, NEW w, NEW v, Older(l, w), NEW n \in Nat, w.id \in Nat, w.id < n, v.id = n,
         \A j \in 1 .. Len(l.sent) : l.sent[j].id \in Nat
  PROVE  Older(l, v)
BY DEF Older

-------------------------------------------------------------------------------
(***************************************************************************)
(* Every step preserves the invariant                                      *)
(***************************************************************************)
\* What is known of a connection in use.
LEMMA UsedLink ==
  ASSUME IInv, conn # 0
  PROVE  /\ conn \in 1 .. Len(links) /\ links[conn] \in Links
         /\ Link(links[conn], latest)
         /\ InUse(links[conn], pc, cmd, skewed, late, latest, store)
BY ElementOfSeq DEF IInv, Types

LEMMA InitIInv == Init => IInv
<1> SUFFICES ASSUME Init PROVE IInv
  OBVIOUS
<1>1. Types
  <2>1. links \in Seq(Links) /\ Len(links) = 0
    BY EmptySeq DEF Init
  <2>2. 0 \in 0 .. MaxCmds /\ 0 <= MaxConns
    BY RedisClientAssumption
  <2>3. cmd \in [id : 0 .. MaxCmds, op : Ops]
    BY <2>2 DEF Init, Ops
  <2>4. last \in [id : 0 .. MaxCmds, answers : 0 .. MaxCmds,
                  status : {"none", "ok", "torn", "error"}, skewed : BOOLEAN]
    BY <2>2 DEF Init
  <2>5. latest \in [id : 0 .. MaxCmds, value : 0 .. MaxCmds, acked : BOOLEAN]
    BY <2>2 DEF Init
  <2>6. conn \in 0 .. Len(links) /\ store \in 0 .. MaxCmds /\ issued \in 0 .. MaxCmds
    BY <2>1, <2>2 DEF Init
  <2>7. /\ pc \in {"idle", "send", "read", "retry", "reread"}
        /\ skewed \in BOOLEAN /\ late \in BOOLEAN
    BY DEF Init
  <2>8. Len(links) <= MaxConns
    BY <2>1, <2>2
  <2>9. QED
    BY <2>1, <2>3, <2>4, <2>5, <2>6, <2>7, <2>8, Zenon DEF Types
<1>2. QED
  BY <1>1, EmptySeq DEF Init, IInv, Reading, Underway, LastWriteStands, RepliesInStep

LEMMA CallIInv ==
  ASSUME IInv, NEW op \in Ops, Call(op)
  PROVE  IInv'
<1>1. /\ issued \in Nat /\ issued + 1 \in 1 .. MaxCmds /\ issued + 1 \in 0 .. MaxCmds
      /\ latest.id \in Nat /\ latest.id <= issued
      /\ 0 \in 0 .. MaxCmds
  BY RedisClientAssumption DEF IInv, Types, Call
<1>2. /\ UNCHANGED <<conn, links, store, last, skewed, late>>
      /\ issued' = issued + 1
      /\ cmd' = [id |-> issued + 1, op |-> op]
      /\ pc = "idle" /\ pc' = "send"
      /\ \/ op = "get" /\ latest' = latest
         \/ /\ op # "get"
            /\ latest' = [id |-> issued + 1, value |-> IF op = "set" THEN issued + 1 ELSE 0,
                          acked |-> FALSE]
  BY DEF Call
<1>3. Types'
  <2>1. latest' \in [id : 0 .. MaxCmds, value : 0 .. MaxCmds, acked : BOOLEAN]
    <3>1. CASE latest' = latest
      BY <3>1 DEF IInv, Types
    <3> DEFINE v == IF op = "set" THEN issued + 1 ELSE 0
    <3>2. v \in 0 .. MaxCmds /\ issued + 1 \in 0 .. MaxCmds
      BY <1>1
    <3> HIDE DEF v
    <3>3. CASE latest' = [id |-> issued + 1, value |-> v, acked |-> FALSE]
      BY <3>2, <3>3
    <3>4. QED
      BY <1>2, <3>1, <3>3 DEF v
  <2>2. cmd' \in [id : 0 .. MaxCmds, op : Ops]
    BY <1>1, <1>2
  <2>3. QED
    BY <1>1, <1>2, <2>1, <2>2 DEF IInv, Types
<1>4. Underway(pc', cmd', issued', latest') /\ latest'.id <= issued'
  BY <1>1, <1>2 DEF Underway, Writes, Value, IInv, Types
<1>5. ASSUME NEW i \in 1 .. Len(links) PROVE Link(links[i], latest')
  <2>1. links[i] \in Links /\ Link(links[i], latest)
    BY ElementOfSeq DEF IInv, Types
  <2>2. links[i].sent \in Seq(Commands)
    BY <2>1 DEF Links
  <2>3. \A j \in 1 .. Len(links[i].sent) : links[i].sent[j].id \in Nat
    <3>1. \A j \in 1 .. Len(links[i].sent) : links[i].sent[j] \in Commands
      BY <2>2, ElementOfSeq
    <3>2. \A c \in Commands : c.id \in Nat
      BY RedisClientAssumption DEF Commands
    <3>3. QED
      BY <3>1, <3>2
  <2>4. latest' # latest => latest'.id = issued + 1
    BY <1>2
  <2>5. CASE latest' = latest
    BY <2>1, <2>5
  <2>6. CASE latest'.id = issued + 1
    <3>1. latest.id < issued + 1 /\ issued + 1 \in Nat
      BY <1>1
    <3>2. Older(links[i], latest) => Older(links[i], latest')
      BY <1>1, <2>3, <2>6, <3>1, IssueOlder
    <3>3. QED
      BY <2>1, <3>2 DEF Link
  <2>7. QED
    BY <2>4, <2>5, <2>6
<1>6. ASSUME conn # 0
      PROVE  InUse(links[conn], pc', cmd', skewed, late, latest', store)
  BY <1>2, <1>6, UsedLink DEF InUse, InStep, Reading, Executed
<1>7. LastWriteStands'
  BY <1>2 DEF IInv, LastWriteStands
<1>8. QED
  BY <1>2, <1>3, <1>4, <1>5, <1>6, <1>7 DEF IInv, Reading, RepliesInStep

LEMMA SendFailsIInv == ASSUME IInv, SendFails PROVE IInv'
<1>1. /\ UNCHANGED <<conn, links, store, cmd, issued, last, skewed, latest, late>>
      /\ pc = "send" /\ pc' = "retry"
  BY DEF SendFails
<1>2. Types'
  BY <1>1 DEF IInv, Types
<1>3. conn # 0 => InUse(links[conn], pc', cmd, skewed, late, latest, store)
  BY <1>1, UsedLink DEF InUse, InStep, Reading, Executed
<1>4. QED
  BY <1>1, <1>2, <1>3 DEF IInv, Reading, Underway, LastWriteStands, RepliesInStep

\* A connection that carries nothing is sound to use.
LEMMA EmptyInUse ==
  ASSUME NEW l, Empty(l), NEW p, NEW c, NEW s, NEW t, NEW w, NEW x
  PROVE  InUse(l, p, c, s, t, w, x) /\ Link(l, w)
<1>1. l.sent = <<>> /\ l.replies = <<>>
  BY DEF Empty
<1>2. Older(l, w) /\ Ahead(l, w)
  BY <1>1, EmptySeq DEF Older, Ahead
<1>3. QED
  BY <1>1, <1>2 DEF InUse, InStep, Executed, Link, Empty

\* A connection on which only the present command has been written.
Started(l) == l.sent = <<cmd>> /\ l.replies = <<>> /\ ~l.broken

\* It is sound to use too.
LEMMA StartedInUse ==
  ASSUME IInv, pc # "idle", NEW l, Started(l), NEW p, NEW s, NEW t, NEW x, Reading(p)
  PROVE  InUse(l, p, cmd, s, t, latest, x) /\ Link(l, latest)
<1>1. Writes(cmd) => latest.id = cmd.id /\ latest.value = Value(cmd)
  BY DEF IInv, Underway
<1>2. latest.id \in Nat /\ cmd.id \in Nat
  BY DEF IInv, Types
<1>3. l.sent = <<cmd>> /\ l.replies = <<>> /\ ~l.broken
  BY DEF Started
<1>4. Older(l, latest) /\ Ahead(l, latest)
  BY <1>1, <1>2, <1>3 DEF Older, Ahead
<1>5. QED
  BY <1>3, <1>4 DEF InUse, InStep, Executed, Link

LEMMA SendIInv == ASSUME IInv, Send PROVE IInv'
<1>1. /\ UNCHANGED <<store, cmd, issued, last, latest, late>>
      /\ pc = "send" /\ pc' = "read"
  BY DEF Send
<1>2. cmd \in Commands
  BY <1>1, CmdIsCommand
<1>3. /\ Writes(cmd) => cmd.id = latest.id /\ latest.value = Value(cmd)
      /\ latest.id \in Nat
  BY <1>1 DEF IInv, Underway, Types
<1>4. Underway(pc', cmd, issued, latest)
  BY <1>1 DEF IInv, Underway
<1>5. CASE conn # 0 /\ links' = Put(links, conn) /\ UNCHANGED <<conn, skewed>>
  <2> DEFINE l == links[conn]
             u == links'[conn]
  <2>1. /\ conn \in 1 .. Len(links) /\ l \in Links
        /\ Link(l, latest) /\ InUse(l, pc, cmd, skewed, late, latest, store)
    BY <1>5, UsedLink
  <2>2. /\ links' \in Seq(Links) /\ Len(links') = Len(links)
        /\ \A j \in 1 .. Len(links) : j # conn => links'[j] = links[j]
        /\ l.broken => u = l
        /\ ~l.broken => u = [sent |-> Append(l.sent, cmd), replies |-> l.replies,
                             broken |-> FALSE]
    BY <1>2, <1>5, <2>1, PutLinks DEF IInv, Types
  <2>3. ~skewed => Empty(l)
    BY <1>1, <2>1 DEF InUse, InStep, Reading
  <2> HIDE DEF u, l
  <2>4. Append(<<>>, cmd) = <<cmd>>
    OBVIOUS
  <2>5. Link(u, latest) /\ (latest.acked => Ahead(u, latest))
    BY <1>2, <1>3, <2>1, <2>2, AppendOlder DEF Link, InUse
  <2>6. ~skewed => Started(u) \/ Empty(u)
    BY <2>2, <2>3, <2>4 DEF Started, Empty
  <2>a. pc # "idle" /\ Reading(pc')
    BY <1>1 DEF Reading
  <2>7. ~skewed => InUse(u, pc', cmd, skewed, late, latest, store)
    <3>1. CASE Started(u)
      BY <2>a, <3>1, StartedInUse
    <3>2. CASE Empty(u)
      BY <3>2, EmptyInUse
    <3>3. QED
      BY <2>6, <3>1, <3>2
  <2>8. InUse(u, pc', cmd, skewed, late, latest, store)
    BY <2>5, <2>7 DEF InUse
  <2>9. Types'
    BY <1>1, <1>5, <2>2 DEF IInv, Types
  <2>10. \A i \in 1 .. Len(links') : Link(links'[i], latest')
    BY <1>1, <2>2, <2>5 DEF IInv, u
  <2>11. QED
    BY <1>1, <1>4, <1>5, <2>8, <2>9, <2>10
       DEF IInv, Reading, LastWriteStands, RepliesInStep, u
<1>6. CASE conn = 0 /\ New <= MaxConns /\ links' = Put(Opened, New) /\ conn' = New
           /\ skewed' = FALSE
  <2> DEFINE u == links'[New]
  <2>1. links \in Seq(Links) /\ Len(links) \in Nat
    BY DEF IInv, Types
  <2>2. /\ Opened \in Seq(Links) /\ Len(Opened) = New /\ Opened[New] = Fresh
        /\ \A j \in 1 .. Len(links) : Opened[j] = links[j]
    BY <2>1, OpenedLinks
  <2>3. New \in 1 .. Len(Opened) /\ New \in Nat /\ New # 0
    BY <2>1, <2>2 DEF New
  <2>4. /\ links' \in Seq(Links) /\ Len(links') = New
        /\ \A j \in 1 .. New : j # New => links'[j] = Opened[j]
        /\ u = [sent |-> Append(<<>>, cmd), replies |-> <<>>, broken |-> FALSE]
    <3>1. ~Opened[New].broken /\ Opened[New].sent = <<>> /\ Opened[New].replies = <<>>
      BY <2>2 DEF Fresh
    <3>2. QED
      BY <1>2, <1>6, <2>2, <2>3, <3>1, PutLinks
  <2>5. \A j \in 1 .. New : j # New => j \in 1 .. Len(links)
    BY <2>1 DEF New
  <2> HIDE DEF u
  <2>a. Append(<<>>, cmd) = <<cmd>>
    OBVIOUS
  <2>6. Started(u)
    BY <2>4, <2>a DEF Started
  <2>b. pc # "idle" /\ Reading(pc')
    BY <1>1 DEF Reading
  <2>7. InUse(u, pc', cmd, skewed', late, latest, store) /\ Link(u, latest)
    BY <2>6, <2>b, StartedInUse
  <2>8. \A i \in 1 .. Len(links') : Link(links'[i], latest')
    BY <1>1, <2>2, <2>4, <2>5, <2>7 DEF IInv, u
  <2>9. conn' \in 0 .. Len(links') /\ Len(links') <= MaxConns
    BY <1>6, <2>3, <2>4
  <2>10. Types'
    BY <1>1, <1>6, <2>4, <2>9 DEF IInv, Types
  <2>11. QED
    BY <1>1, <1>4, <1>6, <2>3, <2>7, <2>8, <2>10
       DEF IInv, Reading, LastWriteStands, RepliesInStep, u
<1>7. QED
  BY <1>5, <1>6 DEF Send

\* The new connection of a second attempt, and the old one closed.
LEMMA Reconnected ==
  ASSUME IInv, pc # "idle"
  PROVE  LET u == Closed(Opened)
             v == Put(u, New) IN
         /\ u \in Seq(Links) /\ Len(u) = New /\ u[New] = Fresh
         /\ v \in Seq(Links) /\ Len(v) = New
         /\ v[New] = [sent |-> <<cmd>>, replies |-> <<>>, broken |-> FALSE]
         /\ \A i \in 1 .. New : i # New => Link(u[i], latest) /\ Link(v[i], latest)
         /\ New \in Nat /\ New # 0
<1> DEFINE u == Closed(Opened)
           v == Put(u, New)
<1>1. /\ links \in Seq(Links) /\ Len(links) \in Nat /\ conn \in 0 .. Len(links)
      /\ cmd \in Commands
  BY CmdIsCommand DEF IInv, Types
<1>2. /\ Opened \in Seq(Links) /\ Len(Opened) = New /\ Opened[New] = Fresh
      /\ \A j \in 1 .. Len(links) : Opened[j] = links[j]
  BY <1>1, OpenedLinks
<1>3. /\ New \in Nat /\ New # 0 /\ New \in 1 .. New
      /\ conn \in 0 .. New /\ conn # New
      /\ \A i \in 1 .. New : i # New => i \in 1 .. Len(links)
  BY <1>1 DEF New
<1>4. /\ u \in Seq(Links) /\ Len(u) = New
      /\ \A j \in 1 .. New : j # conn => u[j] = Opened[j]
      /\ conn # 0 => u[conn] = [sent |-> Opened[conn].sent, replies |-> <<>>,
                                broken |-> Opened[conn].broken]
  BY <1>2, <1>3, ClosedLinks
<1> HIDE DEF u
<1>5. u[New] = Fresh
  BY <1>2, <1>3, <1>4
<1>6. /\ v \in Seq(Links) /\ Len(v) = New
      /\ \A j \in 1 .. New : j # New => v[j] = u[j]
      /\ v[New] = [sent |-> Append(<<>>, cmd), replies |-> <<>>, broken |-> FALSE]
  <2>1. ~u[New].broken /\ u[New].sent = <<>> /\ u[New].replies = <<>>
    BY <1>5 DEF Fresh
  <2>2. New \in 1 .. Len(u) /\ u \in Seq(Links) /\ cmd \in Commands
    BY <1>1, <1>3, <1>4
  <2>3. /\ Put(u, New) \in Seq(Links) /\ Len(Put(u, New)) = Len(u)
        /\ \A j \in 1 .. Len(u) : j # New => Put(u, New)[j] = u[j]
        /\ ~u[New].broken => Put(u, New)[New] = [sent |-> Append(u[New].sent, cmd),
                                                replies |-> u[New].replies, broken |-> FALSE]
    BY <2>2, PutLinks
  <2>4. QED
    BY <1>4, <2>1, <2>3
<1>7. Append(<<>>, cmd) = <<cmd>>
  OBVIOUS
<1> HIDE DEF v
<1>8. ASSUME NEW i \in 1 .. New, i # New PROVE Link(u[i], latest)
  <2>1. i \in 1 .. Len(links) /\ Opened[i] = links[i] /\ Link(links[i], latest)
    BY <1>2, <1>3, <1>8 DEF IInv
  <2>2. CASE i # conn
    BY <1>4, <2>1, <2>2
  <2>3. CASE i = conn
    <3>1. u[i] = [sent |-> links[i].sent, replies |-> <<>>, broken |-> links[i].broken]
      BY <1>3, <1>4, <2>1, <2>3
    <3>2. QED
      BY <2>1, <3>1 DEF Link, Empty, Older
  <2>4. QED
    BY <2>2, <2>3
<1>9. QED
  BY <1>3, <1>4, <1>5, <1>6, <1>7, <1>8 DEF u, v

LEMMA RetryIInv == ASSUME IInv, Retry PROVE IInv'
<1>1. /\ UNCHANGED <<store, cmd, issued, last, latest, late>>
      /\ pc = "retry" /\ pc' = "reread" /\ New <= MaxConns
      /\ links' = Put(Closed(Opened), New) /\ conn' = New /\ skewed' = FALSE
  BY DEF Retry
<1>2. /\ links' \in Seq(Links) /\ Len(links') = New
      /\ links'[New] = [sent |-> <<cmd>>, replies |-> <<>>, broken |-> FALSE]
      /\ \A i \in 1 .. New : i # New => Link(links'[i], latest)
      /\ New \in Nat /\ New # 0
  BY <1>1, Reconnected
<1>3. Started(links'[New]) /\ pc # "idle" /\ Reading(pc')
  BY <1>1, <1>2 DEF Started, Reading
<1>4. InUse(links'[New], pc', cmd, skewed', late, latest, store) /\ Link(links'[New], latest)
  BY <1>3, StartedInUse
<1>5. Underway(pc', cmd, issued, latest)
  BY <1>1 DEF IInv, Underway
<1>6. conn' \in 0 .. Len(links') /\ Len(links') <= MaxConns
  BY <1>1, <1>2
<1>7. Types'
  BY <1>1, <1>2, <1>6 DEF IInv, Types
<1>8. \A i \in 1 .. Len(links') : Link(links'[i], latest')
  BY <1>1, <1>2, <1>4
<1>9. QED
  BY <1>1, <1>2, <1>4, <1>5, <1>7, <1>8 DEF IInv, Reading, LastWriteStands, RepliesInStep

\* What returning from a call does.
LEMMA Returned ==
  ASSUME IInv, pc # "idle", NEW status \in {"ok", "torn", "error"}, NEW answers \in 0 .. MaxCmds,
         Return(status, answers), UNCHANGED <<cmd, issued>>,
         status = "ok" /\ ~skewed => answers = cmd.id
  PROVE  /\ pc' = "idle"
         /\ last' \in [id : 0 .. MaxCmds, answers : 0 .. MaxCmds,
                       status : {"none", "ok", "torn", "error"}, skewed : BOOLEAN]
         /\ latest' \in [id : 0 .. MaxCmds, value : 0 .. MaxCmds, acked : BOOLEAN]
         /\ latest'.id = latest.id /\ latest'.value = latest.value
         /\ latest'.acked => \/ latest.acked
                             \/ Writes(cmd) /\ status = "ok" /\ ~skewed
         /\ latest'.id <= issued'
         /\ Underway(pc', cmd', issued', latest')
         /\ \A l : Link(l, latest) => Link(l, latest')
         /\ \A l : Ahead(l, latest) => Ahead(l, latest')
         /\ RepliesInStep'
<1> DEFINE ack == IF latest.id = cmd.id THEN status = "ok" /\ ~skewed ELSE latest.acked
<1>1. /\ pc' = "idle"
      /\ last' = [id |-> cmd.id, answers |-> answers, status |-> status, skewed |-> skewed]
  BY DEF Return
<1>2. /\ cmd.id \in 0 .. MaxCmds /\ skewed \in BOOLEAN
      /\ latest \in [id : 0 .. MaxCmds, value : 0 .. MaxCmds, acked : BOOLEAN]
      /\ latest.id \in Nat /\ latest.id <= issued /\ cmd.id \in Nat
      /\ ~Writes(cmd) => latest.id < cmd.id
  BY DEF IInv, Types, Underway
<1>3. ack \in BOOLEAN
  BY <1>2
<1>4. latest' = [latest EXCEPT !.acked = ack]
  BY DEF Return
<1>5. ack => latest.acked \/ (Writes(cmd) /\ status = "ok" /\ ~skewed)
  BY <1>2
<1> HIDE DEF ack
<1>6. /\ latest'.id = latest.id /\ latest'.value = latest.value /\ latest'.acked = ack
      /\ latest' \in [id : 0 .. MaxCmds, value : 0 .. MaxCmds, acked : BOOLEAN]
  BY <1>2, <1>3, <1>4
<1>7. last' \in [id : 0 .. MaxCmds, answers : 0 .. MaxCmds,
                 status : {"none", "ok", "torn", "error"}, skewed : BOOLEAN]
  BY <1>1, <1>2
<1>8. RepliesInStep'
  BY <1>1 DEF RepliesInStep
<1>9. \A l : (Older(l, latest) => Older(l, latest')) /\ (Ahead(l, latest) => Ahead(l, latest'))
  BY <1>6, Zenon DEF Older, Ahead
<1>10. QED
  BY <1>1, <1>2, <1>5, <1>6, <1>7, <1>8, <1>9 DEF Link, Underway

\* The connection in use with other replies: what Redis may still execute is the same.
LEMMA RepliesLinks ==
  ASSUME IInv, conn # 0, NEW r \in Seq(Answers), Replies # <<>>, NEW u,
         u = [links EXCEPT ![conn].replies = r]
  PROVE  /\ u \in Seq(Links) /\ Len(u) = Len(links)
         /\ u[conn].sent = links[conn].sent /\ u[conn].replies = r
         /\ \A i \in 1 .. Len(links) : Link(u[i], latest)
         /\ Ahead(links[conn], latest) => Ahead(u[conn], latest)
<1> DEFINE l == links[conn]
           m == [sent |-> l.sent, replies |-> r, broken |-> l.broken]
<1>1. /\ links \in Seq(Links) /\ conn \in 1 .. Len(links) /\ l \in Links /\ Link(l, latest)
      /\ \A i \in 1 .. Len(links) : Link(links[i], latest)
  BY UsedLink DEF IInv, Types
<1>2. m \in Links
  BY <1>1 DEF Links
<1>3. [l EXCEPT !.replies = r] = m
  BY <1>1, LinkExcept
<1>4. u = [links EXCEPT ![conn] = m]
  BY <1>3
<1>5. l.replies # <<>>
  BY DEF Replies
<1> HIDE DEF m, l
<1>6. /\ u \in Seq(Links) /\ Len(u) = Len(links) /\ u[conn] = m
      /\ \A j \in 1 .. Len(links) : j # conn => u[j] = links[j]
  BY <1>1, <1>2, <1>4, UpdateLink
<1>7. m.sent = l.sent /\ m.replies = r /\ m.broken = l.broken
  BY DEF m
<1>8. Link(m, latest) /\ (Ahead(l, latest) => Ahead(m, latest))
  BY <1>1, <1>5, <1>7 DEF Link, Empty, Older, Ahead
<1>9. QED
  BY <1>1, <1>6, <1>7, <1>8 DEF l

\* The reply that comes next: on a sound connection the present command's, and the only one.
LEMMA NextReply ==
  ASSUME IInv, Reading(pc), Replies # <<>>
  PROVE  /\ conn # 0 /\ pc # "idle"
         /\ Head(Replies) \in Answers /\ Tail(Replies) \in Seq(Answers)
         /\ ~skewed => /\ links[conn].sent = <<>> /\ Tail(Replies) = <<>>
                       /\ Head(Replies).id = cmd.id
                       /\ Head(Replies).kind \in {"value", "error"}
                       /\ Head(Replies).bulk => ~Writes(cmd)
<1>1. conn # 0 /\ pc # "idle"
  BY DEF IInv, Reading
<1>2. links[conn] \in Links /\ InUse(links[conn], pc, cmd, skewed, late, latest, store)
  BY <1>1, UsedLink
<1>3. Replies \in Seq(Answers)
  BY <1>2 DEF Links, Replies
<1>4. Head(Replies) \in Answers /\ Tail(Replies) \in Seq(Answers)
  BY <1>3, HeadTailProperties
<1>5. ASSUME ~skewed
      PROVE  /\ links[conn].sent = <<>>
             /\ \E kind \in {"value", "error"}, stored \in BOOLEAN :
                  Replies = <<Reply(cmd, kind, stored)>>
  BY <1>2, <1>5 DEF InUse, InStep, Empty, Replies
<1>6. ASSUME NEW kind \in {"value", "error"}, NEW stored \in BOOLEAN,
             Replies = <<Reply(cmd, kind, stored)>>
      PROVE  /\ Tail(Replies) = <<>> /\ Head(Replies).id = cmd.id
             /\ Head(Replies).kind \in {"value", "error"}
             /\ Head(Replies).bulk => ~Writes(cmd)
  <2>1. Head(Replies) = Reply(cmd, kind, stored) /\ Tail(Replies) = <<>>
    BY <1>6
  <2>2. Head(Replies).id = cmd.id /\ Head(Replies).kind = kind
    BY <2>1 DEF Reply
  <2>3. Reply(cmd, kind, stored).bulk = (cmd.op = "get" /\ stored)
    BY DEF Reply
  <2>4. Head(Replies).bulk => ~Writes(cmd)
    BY <2>1, <2>3, Zenon DEF Writes
  <2>5. QED
    BY <2>1, <2>2, <2>4
<1>7. QED
  BY <1>1, <1>4, <1>5, <1>6

\* Returning with other replies on the connection in use.
LEMMA ReturnIInv ==
  ASSUME IInv, pc # "idle", conn # 0, Replies # <<>>,
         NEW r \in Seq(Answers), links' = [links EXCEPT ![conn].replies = r],
         NEW status \in {"ok", "torn", "error"}, NEW answers \in 0 .. MaxCmds,
         Return(status, answers), UNCHANGED <<conn, store, cmd, issued, late>>,
         skewed' \in BOOLEAN, skewed => skewed',
         status = "ok" /\ ~skewed => answers = cmd.id,
         ~skewed' => links[conn].sent = <<>> /\ r = <<>>,
         status = "ok" /\ ~skewed /\ Writes(cmd) =>
           ~skewed' /\ (late \/ store = latest.value)
  PROVE  IInv'
<1>1. /\ pc' = "idle"
      /\ last' \in [id : 0 .. MaxCmds, answers : 0 .. MaxCmds,
                    status : {"none", "ok", "torn", "error"}, skewed : BOOLEAN]
      /\ latest' \in [id : 0 .. MaxCmds, value : 0 .. MaxCmds, acked : BOOLEAN]
      /\ latest'.value = latest.value
      /\ latest'.acked => \/ latest.acked
                          \/ Writes(cmd) /\ status = "ok" /\ ~skewed
      /\ latest'.id <= issued'
      /\ Underway(pc', cmd', issued', latest')
      /\ \A l : Link(l, latest) => Link(l, latest')
      /\ \A l : Ahead(l, latest) => Ahead(l, latest')
      /\ RepliesInStep'
  BY Returned
<1>2. /\ links' \in Seq(Links) /\ Len(links') = Len(links)
      /\ links'[conn].sent = links[conn].sent /\ links'[conn].replies = r
      /\ \A i \in 1 .. Len(links) : Link(links'[i], latest)
      /\ Ahead(links[conn], latest) => Ahead(links'[conn], latest)
  BY RepliesLinks
<1> DEFINE u == links'[conn]
<1>3. ~skewed' => Empty(u)
  BY <1>2 DEF Empty
<1>4. latest.acked => Ahead(links[conn], latest)
  BY UsedLink DEF InUse
<1> HIDE DEF u
<1>5. latest'.acked => Ahead(u, latest')
  <2>1. CASE latest.acked
    BY <1>1, <1>2, <1>4, <2>1 DEF u
  <2>2. CASE Writes(cmd) /\ status = "ok" /\ ~skewed
    BY <1>3, <2>2, EmptySeq DEF Ahead, Empty
  <2>3. QED
    BY <1>1, <2>1, <2>2
<1>6. InUse(u, pc', cmd, skewed', late, latest', store)
  BY <1>1, <1>3, <1>5 DEF InUse, InStep, Executed, Reading
<1>7. LastWriteStands'
  BY <1>1 DEF IInv, LastWriteStands
<1>8. Types'
  BY <1>1, <1>2 DEF IInv, Types
<1>9. \A i \in 1 .. Len(links') : Link(links'[i], latest')
  BY <1>1, <1>2
<1>10. QED
  BY <1>1, <1>6, <1>7, <1>8, <1>9 DEF IInv, Reading, u

LEMMA TakeReplyIInv == ASSUME IInv, TakeReply PROVE IInv'
<1>1. /\ Reading(pc) /\ Replies # <<>> /\ ~IsError(Head(Replies))
      /\ links' = [links EXCEPT ![conn].replies = Tail(Replies)]
      /\ Return("ok", Head(Replies).id)
      /\ UNCHANGED <<conn, store, cmd, issued, skewed, late>>
  BY DEF TakeReply, Taken, Replies, Reading
<1>2. /\ conn # 0 /\ pc # "idle"
      /\ Head(Replies) \in Answers /\ Tail(Replies) \in Seq(Answers)
      /\ ~skewed => /\ links[conn].sent = <<>> /\ Tail(Replies) = <<>>
                    /\ Head(Replies).id = cmd.id
                    /\ Head(Replies).kind \in {"value", "error"}
  BY <1>1, NextReply
<1>3. Head(Replies).id \in 0 .. MaxCmds /\ skewed \in BOOLEAN
  BY <1>2 DEF Answers, IInv, Types
<1>4. ASSUME ~skewed, Writes(cmd) PROVE late \/ store = latest.value
  <2>1. Head(Replies).kind = "value"
    BY <1>1, <1>2, <1>4 DEF IsError
  <2>2. Executed(links[conn], pc, cmd)
    BY <1>1, <1>4, <2>1 DEF Executed, Replies
  <2>3. QED
    BY <1>2, <1>4, <2>2, UsedLink DEF InUse
<1>5. QED
  BY <1>1, <1>2, <1>3, <1>4, ReturnIInv

LEMMA TakeShortIInv == ASSUME IInv, TakeShort PROVE IInv'
<1>1. /\ Reading(pc) /\ Replies # <<>> /\ Head(Replies).bulk
      /\ skewed' = TRUE
      /\ UNCHANGED <<conn, store, cmd, issued, late>>
  BY DEF TakeShort, Reading
<1>2. PICK kind \in {"rest", "crlf"} :
        /\ links' = [links EXCEPT ![conn].replies[1] = [id |-> 0, kind |-> kind, bulk |-> FALSE]]
        /\ Return(IF kind = "rest" THEN "torn" ELSE "ok", Head(Replies).id)
  BY DEF TakeShort
<1> DEFINE a == [id |-> 0, kind |-> kind, bulk |-> FALSE]
           r == [Replies EXCEPT ![1] = a]
           status == IF kind = "rest" THEN "torn" ELSE "ok"
<1>3. /\ conn # 0 /\ pc # "idle" /\ Head(Replies) \in Answers
      /\ ~skewed => Head(Replies).id = cmd.id /\ ~Writes(cmd)
  BY <1>1, NextReply
<1>4. links' = [links EXCEPT ![conn].replies = r]
  BY <1>2 DEF Replies
<1>5. r \in Seq(Answers)
  <2>1. a \in Answers
    BY RedisClientAssumption DEF Answers
  <2>2. Replies \in Seq(Answers)
    BY <1>3, UsedLink DEF Links, Replies
  <2>3. 1 \in 1 .. Len(Replies)
    BY <1>1, <2>2, EmptySeq, LenProperties
  <2> HIDE DEF a
  <2>4. QED
    BY <2>1, <2>2, <2>3, ExceptSeq
<1>6. Head(Replies).id \in 0 .. MaxCmds
  BY <1>3 DEF Answers
<1>7. status \in {"ok", "torn", "error"}
  OBVIOUS
<1>8. Return(status, Head(Replies).id)
  BY <1>2
<1> HIDE DEF r, status
<1>9. QED
  BY <1>1, <1>3, <1>4, <1>5, <1>6, <1>7, <1>8, ReturnIInv

LEMMA TakeErrorIInv == ASSUME IInv, TakeError PROVE IInv'
<1>1. /\ Reading(pc) /\ Replies # <<>>
      /\ links' = [links EXCEPT ![conn].replies = Tail(Replies)]
      /\ Fail
      /\ UNCHANGED <<conn, store, cmd, issued, skewed, late>>
  BY DEF TakeError, Taken, Replies, Reading
<1>2. /\ conn # 0 /\ pc # "idle" /\ Tail(Replies) \in Seq(Answers)
      /\ ~skewed => links[conn].sent = <<>> /\ Tail(Replies) = <<>>
  BY <1>1, NextReply
<1>3. skewed \in BOOLEAN /\ 0 \in 0 .. MaxCmds
  BY RedisClientAssumption DEF IInv, Types
<1>4. CASE Return("error", 0)
  BY <1>1, <1>2, <1>3, <1>4, ReturnIInv
<1>5. CASE pc' = "retry" /\ UNCHANGED <<last, latest>>
  <2>1. /\ links' \in Seq(Links) /\ Len(links') = Len(links)
        /\ links'[conn].sent = links[conn].sent /\ links'[conn].replies = Tail(Replies)
        /\ \A i \in 1 .. Len(links) : Link(links'[i], latest)
        /\ Ahead(links[conn], latest) => Ahead(links'[conn], latest)
    BY <1>1, <1>2, RepliesLinks
  <2> DEFINE u == links'[conn]
  <2>2. ~skewed => Empty(u)
    BY <1>2, <2>1 DEF Empty
  <2>3. latest.acked => Ahead(u, latest)
    BY <1>2, <2>1, UsedLink DEF InUse
  <2> HIDE DEF u
  <2>4. InUse(u, pc', cmd, skewed, late, latest, store)
    BY <1>5, <2>2, <2>3 DEF InUse, InStep, Executed, Reading
  <2>5. Types'
    BY <1>1, <1>5, <2>1 DEF IInv, Types
  <2>6. Underway(pc', cmd, issued, latest)
    BY <1>2 DEF IInv, Underway
  <2>7. QED
    BY <1>1, <1>2, <1>5, <2>1, <2>4, <2>5, <2>6
       DEF IInv, Reading, LastWriteStands, RepliesInStep, u
<1>6. QED
  BY <1>1, <1>4, <1>5 DEF Fail

\* Returning an error when the connection in use, if any, is empty or skewed.
LEMMA GiveUpIInv ==
  ASSUME IInv, pc # "idle", Return("error", 0), UNCHANGED <<store, cmd, issued, late>>,
         links' \in Seq(Links), Len(links') <= MaxConns, conn' \in 0 .. Len(links'),
         skewed' \in BOOLEAN,
         \A i \in 1 .. Len(links') : Link(links'[i], latest),
         conn' # 0 => \/ Empty(links'[conn'])
                      \/ skewed' /\ (latest.acked => Ahead(links'[conn'], latest))
  PROVE  IInv'
<1>1. 0 \in 0 .. MaxCmds
  BY RedisClientAssumption
<1>2. /\ pc' = "idle"
      /\ last' \in [id : 0 .. MaxCmds, answers : 0 .. MaxCmds,
                    status : {"none", "ok", "torn", "error"}, skewed : BOOLEAN]
      /\ latest' \in [id : 0 .. MaxCmds, value : 0 .. MaxCmds, acked : BOOLEAN]
      /\ latest'.value = latest.value
      /\ latest'.acked => latest.acked
      /\ latest'.id <= issued'
      /\ Underway(pc', cmd', issued', latest')
      /\ \A l : Link(l, latest) => Link(l, latest')
      /\ \A l : Ahead(l, latest) => Ahead(l, latest')
      /\ RepliesInStep'
  BY <1>1, Returned
<1> DEFINE u == links'[conn']
<1>3. conn' # 0 => Empty(u) \/ (skewed' /\ (latest.acked => Ahead(u, latest)))
  OBVIOUS
<1> HIDE DEF u
<1>4. ASSUME conn' # 0 PROVE InUse(u, pc', cmd, skewed', late, latest', store)
  <2>1. CASE Empty(u)
    BY <2>1, EmptyInUse
  <2>2. CASE skewed' /\ (latest.acked => Ahead(u, latest))
    BY <1>2, <2>2 DEF InUse
  <2>3. QED
    BY <1>3, <1>4, <2>1, <2>2
<1>5. LastWriteStands'
  BY <1>2 DEF IInv, LastWriteStands
<1>6. Types'
  BY <1>2 DEF IInv, Types
<1>7. QED
  BY <1>2, <1>4, <1>5, <1>6 DEF IInv, Reading, u

LEMMA RetryFailsIInv == ASSUME IInv, RetryFails PROVE IInv'
<1>1. /\ pc = "retry" /\ pc # "idle" /\ Return("error", 0)
      /\ UNCHANGED <<store, cmd, issued, late>>
  BY DEF RetryFails
<1>2. /\ links \in Seq(Links) /\ Len(links) <= MaxConns /\ Len(links) \in Nat
      /\ conn \in 0 .. Len(links) /\ skewed \in BOOLEAN
  BY DEF IInv, Types
<1>3. CASE conn' = 0 /\ links' = Closed(links) /\ UNCHANGED skewed
  <2>1. /\ links' \in Seq(Links) /\ Len(links') = Len(links)
        /\ \A j \in 1 .. Len(links) : j # conn => links'[j] = links[j]
        /\ conn # 0 => links'[conn] = [sent |-> links[conn].sent, replies |-> <<>>,
                                       broken |-> links[conn].broken]
    BY <1>2, <1>3, ClosedLinks
  <2>2. \A i \in 1 .. Len(links') : Link(links'[i], latest)
    BY <2>1 DEF IInv, Link, Empty, Older
  <2>3. conn' \in 0 .. Len(links')
    BY <1>2, <1>3, <2>1
  <2>4. QED
    BY <1>1, <1>2, <1>3, <2>1, <2>2, <2>3, GiveUpIInv
<1>4. CASE New <= MaxConns /\ links' = Closed(Opened) /\ conn' = New /\ skewed' = FALSE
  <2>1. /\ links' \in Seq(Links) /\ Len(links') = New /\ links'[New] = Fresh
        /\ \A i \in 1 .. New : i # New => Link(links'[i], latest)
        /\ New \in Nat /\ New # 0
    BY <1>1, <1>4, Reconnected
  <2>2. Empty(links'[New])
    BY <2>1 DEF Empty, Fresh
  <2>3. Link(links'[New], latest)
    BY <2>2, EmptyInUse
  <2>4. conn' \in 0 .. Len(links') /\ Len(links') <= MaxConns
    BY <1>4, <2>1
  <2>5. \A i \in 1 .. Len(links') : Link(links'[i], latest)
    BY <2>1, <2>3
  <2>6. QED
    BY <1>1, <1>4, <2>1, <2>2, <2>4, <2>5, GiveUpIInv
<1>5. QED
  BY <1>3, <1>4 DEF RetryFails

LEMMA ReadFailsIInv == ASSUME IInv, ReadFails PROVE IInv'
<1>1. /\ Reading(pc) /\ Fail
      /\ skewed' = (skewed \/ ~links[conn].broken)
      /\ UNCHANGED <<conn, links, store, cmd, issued, late>>
  BY DEF ReadFails, Reading
<1>2. /\ links \in Seq(Links) /\ Len(links) <= MaxConns /\ conn \in 0 .. Len(links)
      /\ skewed' \in BOOLEAN /\ conn # 0 /\ pc # "idle"
      /\ \A i \in 1 .. Len(links) : Link(links[i], latest)
  BY <1>1 DEF IInv, Types, Reading
<1>3. InUse(links[conn], pc, cmd, skewed, late, latest, store) /\ Link(links[conn], latest)
  BY <1>2, UsedLink
<1>4. Empty(links[conn]) \/ (skewed' /\ (latest.acked => Ahead(links[conn], latest)))
  BY <1>1, <1>3 DEF InUse, Link
<1>5. CASE Return("error", 0)
  BY <1>1, <1>2, <1>4, <1>5, GiveUpIInv
<1>6. CASE pc' = "retry" /\ UNCHANGED <<last, latest>>
  <2>1. InUse(links[conn], pc', cmd, skewed', late, latest, store)
    <3>1. CASE Empty(links[conn])
      BY <3>1, EmptyInUse
    <3>2. CASE skewed' /\ (latest.acked => Ahead(links[conn], latest))
      BY <3>2 DEF InUse
    <3>3. QED
      BY <1>4, <3>1, <3>2
  <2>2. Types'
    BY <1>1, <1>2, <1>6 DEF IInv, Types
  <2>3. Underway(pc', cmd, issued, latest)
    BY <1>2 DEF IInv, Underway
  <2>4. QED
    BY <1>1, <1>2, <1>6, <2>1, <2>2, <2>3
       DEF IInv, Reading, LastWriteStands, RepliesInStep
<1>7. QED
  BY <1>1, <1>5, <1>6 DEF Fail

LEMMA CloseIInv == ASSUME IInv, Close PROVE IInv'
<1>1. /\ conn' = 0 /\ links' = Closed(links) /\ pc = "idle"
      /\ UNCHANGED <<store, pc, cmd, issued, last, skewed, latest, late>>
  BY DEF Close
<1>2. links \in Seq(Links) /\ Len(links) \in Nat /\ conn \in 0 .. Len(links)
  BY DEF IInv, Types
<1>3. /\ links' \in Seq(Links) /\ Len(links') = Len(links)
      /\ \A j \in 1 .. Len(links) : j # conn => links'[j] = links[j]
      /\ conn # 0 => links'[conn] = [sent |-> links[conn].sent, replies |-> <<>>,
                                     broken |-> links[conn].broken]
  BY <1>1, <1>2, ClosedLinks
<1>4. \A i \in 1 .. Len(links') : Link(links'[i], latest)
  BY <1>3 DEF IInv, Link, Empty, Older
<1>5. conn' \in 0 .. Len(links')
  BY <1>1, <1>2, <1>3
<1>6. Types'
  BY <1>1, <1>3, <1>5 DEF IInv, Types
<1>7. QED
  BY <1>1, <1>4, <1>6 DEF IInv, Reading, LastWriteStands, RepliesInStep

\* A step of Redis or the network on one connection, and nothing else but what is stored.
LEMMA LinkIInv ==
  ASSUME IInv, NEW i \in 1 .. Len(links), NEW m \in Links, links' = [links EXCEPT ![i] = m],
         Link(m, latest), UNCHANGED <<conn, pc, cmd, issued, last, skewed, latest>>,
         store' \in 0 .. MaxCmds, late' \in BOOLEAN,
         i = conn => InUse(m, pc, cmd, skewed, late', latest, store'),
         i # conn /\ conn # 0 => InUse(links[conn], pc, cmd, skewed, late', latest, store'),
         LastWriteStands'
  PROVE  IInv'
<1>1. links \in Seq(Links) /\ conn \in 0 .. Len(links)
  BY DEF IInv, Types
<1>2. /\ links' \in Seq(Links) /\ Len(links') = Len(links) /\ links'[i] = m
      /\ \A j \in 1 .. Len(links) : j # i => links'[j] = links[j]
  BY <1>1, UpdateLink
<1>3. Types'
  BY <1>2 DEF IInv, Types
<1>4. \A j \in 1 .. Len(links') : Link(links'[j], latest')
  BY <1>2 DEF IInv
<1>5. ASSUME conn # 0 PROVE InUse(links'[conn], pc, cmd, skewed, late', latest, store')
  <2>1. conn \in 1 .. Len(links)
    BY <1>5, UsedLink
  <2>2. CASE i = conn
    BY <1>2, <2>2
  <2>3. CASE i # conn
    BY <1>2, <1>5, <2>1, <2>3
  <2>4. QED
    BY <2>2, <2>3
<1>6. QED
  BY <1>3, <1>4, <1>5 DEF IInv, Reading, RepliesInStep

LEMMA BreakIInv == ASSUME IInv, NEW i \in 1 .. Len(links), Break(i) PROVE IInv'
<1> DEFINE m == [sent |-> <<>>, replies |-> <<>>, broken |-> TRUE]
<1>1. m \in Links
  BY EmptySeq DEF Links
<1>2. links' = [links EXCEPT ![i] = m]
  BY DEF Break
<1>3. UNCHANGED <<conn, store, pc, cmd, issued, last, skewed, latest, late>>
  BY DEF Break
<1>4. Empty(m)
  BY DEF Empty
<1> HIDE DEF m
<1>5. Link(m, latest) /\ InUse(m, pc, cmd, skewed, late, latest, store)
  BY <1>4, EmptyInUse
<1>6. i # conn /\ conn # 0 => InUse(links[conn], pc, cmd, skewed, late, latest, store)
  BY UsedLink
<1>7. LastWriteStands' /\ store' \in 0 .. MaxCmds /\ late' \in BOOLEAN
  BY <1>3 DEF IInv, Types, LastWriteStands
<1>8. QED
  BY <1>1, <1>2, <1>3, <1>5, <1>6, <1>7, LinkIInv

\* A connection of which Redis has read a command, with the replies y.
ServedLink(l, y) == [sent |-> Tail(l.sent), replies |-> y, broken |-> l.broken]

\* What Redis stores, and whether that was a late write.
LEMMA ExecutesStores ==
  ASSUME IInv, NEW i, NEW c \in Commands, Executes(c, i)
  PROVE  /\ store' \in 0 .. MaxCmds /\ late' \in BOOLEAN
         /\ Writes(c) => store' = Value(c)
         /\ ~Writes(c) => store' = store
         /\ late => late'
         /\ i = conn => late' = late
         /\ i # conn /\ Writes(c) /\ ~late' => c.id >= latest.id
<1>1. /\ c.id \in 1 .. MaxCmds /\ c.op \in {"set", "del", "get"}
      /\ store \in 0 .. MaxCmds /\ late \in BOOLEAN /\ latest.id \in Nat /\ MaxCmds \in Nat
  BY RedisClientAssumption DEF Commands, Ops, IInv, Types
<1>2. /\ c.op = "set" => store' = c.id
      /\ c.op = "del" => store' = 0
      /\ c.op = "get" => store' = store
  BY <1>1 DEF Executes
<1>3. /\ Writes(c) => store' = Value(c)
      /\ ~Writes(c) => store' = store
  BY <1>1, <1>2 DEF Writes, Value
<1>4. store' \in 0 .. MaxCmds
  BY <1>1, <1>2
<1>5. late' = (late \/ (i # conn /\ Writes(c) /\ c.id < latest.id))
  BY DEF Executes, Writes
<1>6. late' \in BOOLEAN /\ (late => late') /\ (i = conn => late' = late)
  BY <1>1, <1>5
<1>7. i # conn /\ Writes(c) /\ ~late' => c.id >= latest.id
  <2>1. i # conn /\ Writes(c) /\ ~late' => ~(c.id < latest.id)
    BY <1>5
  <2>2. ~(c.id < latest.id) => c.id >= latest.id
    BY <1>1
  <2>3. QED
    BY <2>1, <2>2
<1>8. QED
  BY <1>3, <1>4, <1>6, <1>7

LEMMA ServeIInv == ASSUME IInv, NEW i \in 1 .. Len(links), Serve(i) PROVE IInv'
<1> DEFINE l == links[i]
           c == Head(l.sent)
           stored == store # 0
<1>1. /\ l.sent # <<>>
      /\ UNCHANGED <<conn, pc, cmd, issued, last, skewed, latest>>
  BY DEF Serve
<1>2. PICK kind \in {"value", "error"} :
        /\ links' = [links EXCEPT ![i].sent = Tail(@),
                       ![i].replies = IF i = conn THEN Append(@, Reply(c, kind, stored)) ELSE @]
        /\ \/ kind = "value" /\ Executes(c, i)
           \/ kind = "error" /\ UNCHANGED <<store, late>>
  BY DEF Serve, Reply
<1> DEFINE a == Reply(c, kind, stored)
           y == IF i = conn THEN Append(l.replies, a) ELSE l.replies
           m == ServedLink(l, y)
<1>3. links \in Seq(Links) /\ l \in Links /\ Link(l, latest)
  BY ElementOfSeq DEF IInv, Types
<1>4. l.sent \in Seq(Commands) /\ l.replies \in Seq(Answers) /\ l.broken \in BOOLEAN
  BY <1>3 DEF Links
<1>5. c \in Commands /\ Tail(l.sent) \in Seq(Commands)
  BY <1>1, <1>4, HeadTailProperties
<1>6. a \in Answers
  <2>1. c.id \in 0 .. MaxCmds
    BY <1>5, RedisClientAssumption DEF Commands
  <2>2. (c.op = "get" /\ stored) \in BOOLEAN
    OBVIOUS
  <2>3. QED
    BY <2>1, <2>2 DEF Reply, Answers
<1>7. y \in Seq(Answers)
  BY <1>4, <1>6, AppendProperties
<1>8. m \in Links
  BY <1>4, <1>5, <1>7 DEF ServedLink, Links
<1>9. links' = [links EXCEPT ![i] = m]
  <2> DEFINE d == [sent |-> Tail(l.sent), replies |-> l.replies, broken |-> l.broken]
             v == [links EXCEPT ![i] = d]
  <2>1. d \in Links
    BY <1>4, <1>5 DEF Links
  <2>2. [l EXCEPT !.sent = Tail(l.sent)] = d
    BY <1>3, LinkExcept
  <2>3. [links EXCEPT ![i].sent = Tail(@)] = v
    BY <2>2
  <2>5. [d EXCEPT !.replies = y] = m
    <3>1. d.sent = Tail(l.sent) /\ d.broken = l.broken
      OBVIOUS
    <3> HIDE DEF d
    <3>2. QED
      BY <2>1, <3>1, LinkExcept DEF ServedLink
  <2>6. d.replies = l.replies
    OBVIOUS
  <2>7. links' = [v EXCEPT ![i].replies = IF i = conn THEN Append(@, a) ELSE @]
    BY <1>2, <2>3
  <2> HIDE DEF d, m
  <2>4. v[i] = d
    BY <1>3, <2>1, UpdateLink
  <2> HIDE DEF v
  <2>8. links' = [v EXCEPT ![i] = m]
    BY <2>4, <2>5, <2>6, <2>7
  <2>9. QED
    BY <2>8 DEF v
<1>10. Link(m, latest) /\ (Ahead(l, latest) => Ahead(m, latest))
  <2>1. ~l.broken
    BY <1>1, <1>3 DEF Link, Empty
  <2>2. /\ Older(m, latest)
        /\ Ahead(l, latest) => Ahead(m, latest)
    BY <1>1, <1>3, TailOlder DEF Link, ServedLink
  <2>3. QED
    BY <2>1, <2>2 DEF Link, ServedLink
<1>11. /\ store' \in 0 .. MaxCmds /\ late' \in BOOLEAN
       /\ late => late'
       /\ i = conn => late' = late
       /\ kind = "value" /\ Writes(c) => store' = Value(c)
       /\ kind = "error" \/ ~Writes(c) => store' = store
       /\ i # conn /\ kind = "value" /\ Writes(c) /\ ~late' => c.id >= latest.id
  BY <1>2, <1>5, ExecutesStores DEF IInv, Types
<1>12. /\ Writes(c) => c.id <= latest.id /\ (c.id = latest.id => Value(c) = latest.value)
       /\ Ahead(l, latest) /\ Writes(c) => c.id >= latest.id
       /\ c.id \in Nat /\ latest.id \in Nat
  <2>1. 1 \in 1 .. Len(l.sent) /\ l.sent[1] = c
    BY <1>1, <1>4, EmptySeq, LenProperties
  <2> HIDE DEF c, l
  <2>2. c.id \in Nat /\ latest.id \in Nat
    <3>1. c.id \in 1 .. MaxCmds
      BY <1>5 DEF Commands
    <3>2. latest.id \in 0 .. MaxCmds
      BY DEF IInv, Types
    <3>3. QED
      BY <3>1, <3>2, RedisClientAssumption
  <2>3. QED
    BY <1>3, <2>1, <2>2 DEF Link, Older, Ahead
<1> HIDE DEF c, l, a, y, m
<1>13. ASSUME ~late', i # conn \/ Ahead(l, latest)
       PROVE  store' = store \/ store' = latest.value
  BY <1>2, <1>11, <1>12, <1>13
<1>14. LastWriteStands'
  <2>1. i = conn /\ latest.acked => Ahead(l, latest)
    <3>1. i = conn => conn # 0
      OBVIOUS
    <3>2. QED
      BY <3>1, UsedLink DEF InUse, l
  <2>2. latest.acked /\ ~late' => store = latest.value
    BY <1>11 DEF IInv, LastWriteStands
  <2>3. QED
    BY <1>1, <1>13, <2>1, <2>2 DEF LastWriteStands
<1>15. ASSUME i = conn PROVE InUse(m, pc, cmd, skewed, late', latest, store')
  <2>1. InUse(l, pc, cmd, skewed, late, latest, store)
    BY <1>15, UsedLink DEF l
  <2>2. latest.acked => Ahead(m, latest)
    BY <1>10, <2>1 DEF InUse
  <2>3. ASSUME ~skewed
        PROVE  /\ Reading(pc) /\ m.sent = <<>> /\ m.replies = <<Reply(cmd, kind, stored)>> /\ c = cmd
    <3>1. Reading(pc) /\ l.sent = <<cmd>> /\ l.replies = <<>>
      BY <1>1, <2>1, <2>3 DEF InUse, InStep, Empty
    <3>2. c = cmd /\ Tail(l.sent) = <<>>
      BY <3>1 DEF c
    <3>3. y = <<a>>
      BY <1>15, <3>1 DEF y
    <3>4. QED
      BY <3>1, <3>2, <3>3 DEF m, a, ServedLink
  <2>4. ~skewed => InStep(m, pc, cmd)
    <3>1. stored \in BOOLEAN
      OBVIOUS
    <3> HIDE DEF stored
    <3>2. QED
      BY <2>3, <3>1 DEF InStep
  <2>5. ASSUME ~skewed, Executed(m, pc, cmd) PROVE store' = latest.value
    <3>1. /\ Head(m.replies) = Reply(cmd, kind, stored)
          /\ Head(m.replies).kind = "value" /\ Writes(cmd)
      BY <2>3, <2>5 DEF Executed
    <3>2. kind = "value"
      BY <3>1 DEF Reply
    <3>3. store' = Value(cmd)
      BY <1>11, <2>3, <2>5, <3>1, <3>2
    <3>4. latest.value = Value(cmd)
      BY <2>3, <2>5, <3>1 DEF IInv, Underway, Reading
    <3>5. QED
      BY <3>3, <3>4
  <2>6. QED
    BY <2>2, <2>4, <2>5 DEF InUse
<1>16. ASSUME i # conn, conn # 0
       PROVE  InUse(links[conn], pc, cmd, skewed, late', latest, store')
  <2>1. InUse(links[conn], pc, cmd, skewed, late, latest, store)
    BY <1>16, UsedLink
  <2>2. ~late' => ~late /\ (store' = store \/ store' = latest.value)
    BY <1>11, <1>13, <1>16
  <2>3. QED
    BY <2>1, <2>2 DEF InUse
<1>17. QED
  BY <1>1, <1>8, <1>9, <1>10, <1>11, <1>14, <1>15, <1>16, LinkIInv

LEMMA NextIInv == IInv /\ [Next]_vars => IInv'
<1> SUFFICES ASSUME IInv, [Next]_vars PROVE IInv'
  OBVIOUS
<1>1. ASSUME NEW op \in Ops, Call(op) PROVE IInv'
  BY <1>1, CallIInv
<1>2. CASE Client
  BY <1>2, SendIInv, SendFailsIInv, RetryIInv, RetryFailsIInv, TakeReplyIInv, TakeShortIInv,
     TakeErrorIInv, ReadFailsIInv DEF Client
<1>3. CASE Close
  BY <1>3, CloseIInv
<1>4. ASSUME NEW i \in 1 .. Len(links), Serve(i) PROVE IInv'
  BY <1>4, ServeIInv
<1>5. ASSUME NEW i \in 1 .. Len(links), Break(i) PROVE IInv'
  BY <1>5, BreakIInv
<1>6. CASE UNCHANGED vars
  BY <1>6 DEF vars, IInv, Types, LastWriteStands, RepliesInStep
<1>7. QED
  BY <1>1, <1>2, <1>3, <1>4, <1>5, <1>6 DEF Next

LEMMA AlwaysIInv == Spec => []IInv
BY InitIInv, NextIInv, PTL DEF Spec

-------------------------------------------------------------------------------
(***************************************************************************)
(* The client, the connections and the history keep their types, and       *)
(* between calls nothing is due on a connection that no failed attempt or  *)
(* short read has been left on.                                            *)
(***************************************************************************)
THEOREM TypeCorrect == Spec => []TypeOK
<1>1. ASSUME IInv, pc = "idle", conn # 0, ~skewed
      PROVE  links[conn].sent = <<>> /\ links[conn].replies = <<>>
  BY <1>1, UsedLink DEF InUse, InStep, Reading, Empty
<1>2. IInv => TypeOK
  BY <1>1 DEF IInv, Types, TypeOK
<1>3. QED
  BY <1>2, AlwaysIInv, PTL

(***************************************************************************)
(* A caller whose connection was sound gets the reply to its own command,  *)
(* whatever broke, was retried or failed before: readResponse takes the    *)
(* next reply, and there is no other.                                      *)
(***************************************************************************)
THEOREM InStepAlways == Spec => []RepliesInStep
<1>1. IInv => RepliesInStep
  BY DEF IInv
<1>2. QED
  BY <1>1, AlwaysIInv, PTL

(***************************************************************************)
(* After a SET or DEL that returned without an error, on a connection that *)
(* was sound, Redis holds what it said until the next one, unless Redis    *)
(* executes a given-up command late: retries of the same command and what  *)
(* is left on older connections do not undo it.                            *)
(***************************************************************************)
THEOREM AckedWriteStands == Spec => []LastWriteStands
<1>1. IInv => LastWriteStands
  BY DEF IInv
<1>2. QED
  BY <1>1, AlwaysIInv, PTL

===============================================================================

----------------------------- MODULE WsTunnelProofs -----------------------------
(***************************************************************************)
(* Proofs about WsTunnel and the Ledger it appends to, for any sessions,   *)
(* any capacity of the ring and any number of chunks.                      *)
(*                                                                         *)
(* The ring is reasoned about once, in InsertQuery: storing a receipt adds *)
(* it behind what Query showed and drops the first of a full ring.  After  *)
(* that, everything is said of the sequence Query and of the receipts the  *)
(* goroutines hold, never of positions and remainders.                     *)
(***************************************************************************)
EXTENDS WsTunnel, SequenceTheorems, FiniteSetTheorems, TLAPS

Writers == Sessions \X Goroutines
Bodies == [session : Sessions, action : Actions]
Receipts == [seq : 1 .. seq, body : Bodies]
Holds(w) == hand[w] # Ring!NoReceipt

\* How the positions of the ring are used.
Shape ==
  /\ Ring!LedgerTypeOK
  /\ count < Size => head = count
  /\ \A p \in 0 .. Size - 1 : p < count => entries[p] # Ring!NoReceipt

\* No number is given to two receipts, stored or held.
Distinct ==
  /\ \A i, j \in 1 .. count : At(i).seq = At(j).seq => i = j
  /\ \A w \in Writers, i \in 1 .. count : Holds(w) => At(i).seq # hand[w].seq
  /\ \A v, w \in Writers : Holds(v) /\ Holds(w) /\ hand[v].seq = hand[w].seq => v = w

\* Until the ring is full, no number is missing.
Accounted ==
  count < Size =>
    \A n \in 1 .. seq :
      \/ \E i \in 1 .. count : At(i).seq = n
      \/ \E w \in Writers : Holds(w) /\ hand[w].seq = n

LedgerInv ==
  /\ Shape
  /\ Distinct
  /\ Accounted
  /\ IsFiniteSet(Ring!Holding)

Begun(s) == [session |-> s, action |-> "session_start"]
Ended(s) == [session |-> s, action |-> "session_end"]
Seen(s) == [session |-> s, action |-> "event"]

\* Before a session's start is stored, nothing of it is; after its end is stored,
\* its handler holds nothing; and what it holds is numbered after its start.
Protocol(s) ==
  /\ handler[s] \in {"none", "starting"} =>
       /\ downlink[s] = "none"
       /\ todo[s] = <<>>
       /\ ~Holds(<<s, "downlink">>)
       /\ \A i \in 1 .. count : At(i).body.session # s
  /\ Holds(<<s, "handler">>) <=> handler[s] \in {"starting", "ending"}
  /\ handler[s] = "starting" => hand[<<s, "handler">>].body = Begun(s)
  /\ handler[s] = "ending" => hand[<<s, "handler">>].body = Ended(s)
  /\ Holds(<<s, "downlink">>) => hand[<<s, "downlink">>].body = Seen(s)
  /\ \A i \in 1 .. count :
       /\ At(i).body = Ended(s) => handler[s] = "over"
       /\ At(i).body = Begun(s) =>
            \A g \in Goroutines : Holds(<<s, g>>) => At(i).seq < hand[<<s, g>>].seq

TunnelTypeOK ==
  /\ handler \in [Sessions -> {"none", "starting", "waiting", "ending", "over"}]
  /\ downlink \in [Sessions -> {"none", "copying", "gone"}]
  /\ uplink \in [Sessions -> {"none", "copying", "gone"}]
  /\ done \in [Sessions -> 0 .. 2]
  /\ todo \in [Sessions -> Recognised \cup {<<>>}]
  /\ chunks \in [Sessions -> 0 .. MaxChunks]

IInv ==
  /\ LedgerInv
  /\ TunnelTypeOK
  /\ \A s \in Sessions : Protocol(s)
  /\ SessionBracketed

-------------------------------------------------------------------------------
(***************************************************************************)
(* The ring                                                                *)
(***************************************************************************)
\* A position past the end is wrapped around once.
LEMMA Wrap ==
  ASSUME NEW x \in Nat, x < 2 * Size
  PROVE  x % Size = IF x < Size THEN x ELSE x - Size
<1>1. Size \in Nat /\ Size > 0
  BY WsTunnelAssumption
<1> DEFINE q == x \div Size
           r == x % Size
<1>2. q \in Nat /\ r \in 0 .. Size - 1 /\ x = q * Size + r
  BY <1>1
<1> HIDE DEF q, r
<1>3. q < 2
  BY <1>1, <1>2
<1>4. q = 0 \/ q = 1
  BY <1>2, <1>3
<1>5. r = IF x < Size THEN x ELSE x - Size
  BY <1>1, <1>2, <1>4
<1>6. QED
  BY <1>5 DEF r

\* Where the receipts that Query shows are.
Position(i) == IF count < Size THEN i - 1
               ELSE IF head + i - 1 < Size THEN head + i - 1 ELSE head + i - 1 - Size

LEMMA QueryPosition ==
  ASSUME Shape, NEW i \in 1 .. count
  PROVE  /\ At(i) = entries[Position(i)]
         /\ Position(i) \in 0 .. Size - 1
         /\ Position(i) < count
         /\ At(i) \in Receipts
<1>1. /\ Size \in Nat /\ Size > 0 /\ head \in 0 .. Size - 1 /\ count \in 0 .. Size
      /\ entries \in [0 .. Size - 1 -> Receipts \cup {Ring!NoReceipt}]
  BY WsTunnelAssumption DEF Shape, Ring!LedgerTypeOK, Receipts, Bodies
<1>2. Position(i) \in 0 .. Size - 1 /\ Position(i) < count
  BY <1>1 DEF Position
<1>3. entries[Position(i)] \in Receipts
  BY <1>1, <1>2 DEF Shape
<1>4. At(i) = entries[(Ring!Oldest + i - 1) % Size]
  BY DEF At, Ring!Query
<1> DEFINE x == Ring!Oldest + i - 1
<1>5. x % Size = Position(i)
  <2>1. x \in Nat /\ x < 2 * Size
    BY <1>1 DEF Ring!Oldest
  <2>2. x % Size = IF x < Size THEN x ELSE x - Size
    <3> HIDE DEF x
    <3>1. QED
      BY <2>1, Wrap
  <2>3. QED
    BY <1>1, <2>2 DEF Ring!Oldest, Position
<1>6. QED
  BY <1>2, <1>3, <1>4, <1>5

LEMMA QueryPositionNext ==
  (Shape => \A i \in 1 .. count : At(i) = entries[Position(i)])'
<1>1. Shape => \A i \in 1 .. count : At(i) = entries[Position(i)]
  BY QueryPosition
<1>2. QED
  BY <1>1, PTL

LEMMA QueryType ==
  ASSUME Shape
  PROVE  /\ Ring!Query \in Seq(Receipts)
         /\ Len(Ring!Query) = count
         /\ count \in Nat
         /\ \A i \in 1 .. count : At(i) = Ring!Query[i]
<1>1. count \in Nat
  BY WsTunnelAssumption DEF Shape, Ring!LedgerTypeOK
<1>2. \A i \in 1 .. count : At(i) = Ring!Query[i] /\ At(i) \in Receipts
  BY QueryPosition DEF At
<1>3. Ring!Query \in [1 .. count -> Receipts]
  BY <1>2 DEF At, Ring!Query
<1>4. Ring!Query \in Seq(Receipts)
  BY <1>1, <1>3, SeqDef
<1>5. Len(Ring!Query) = count
  BY <1>1, <1>3, <1>4, LenProperties
<1>6. QED
  BY <1>1, <1>2, <1>4, <1>5

\* Storing a receipt adds it behind what Query showed, less the first of a full ring.
LEMMA InsertQuery ==
  ASSUME Shape, NEW w \in Writers, Ring!Insert(w)
  PROVE  /\ Shape'
         /\ seq' = seq
         /\ hand' = [hand EXCEPT ![w] = Ring!NoReceipt]
         /\ Holds(w) /\ hand[w] \in Receipts
         /\ count \in 0 .. Size /\ count' = IF count < Size THEN count + 1 ELSE count
         /\ \A i \in 1 .. count' :
              At(i)' = IF i = count' THEN hand[w]
                       ELSE IF count < Size THEN At(i) ELSE At(i + 1)
<1>1. /\ Size \in Nat /\ Size > 0 /\ head \in 0 .. Size - 1 /\ count \in 0 .. Size /\ seq \in Nat
      /\ entries \in [0 .. Size - 1 -> Receipts \cup {Ring!NoReceipt}]
      /\ hand \in [Writers -> Receipts \cup {Ring!NoReceipt}]
      /\ count < Size => head = count
      /\ \A p \in 0 .. Size - 1 : p < count => entries[p] # Ring!NoReceipt
  BY WsTunnelAssumption DEF Shape, Ring!LedgerTypeOK, Receipts, Bodies, Writers
<1>2. /\ hand[w] # Ring!NoReceipt
      /\ entries' = [entries EXCEPT ![head] = hand[w]]
      /\ head' = (head + 1) % Size
      /\ count' = IF count < Size THEN count + 1 ELSE count
      /\ hand' = [hand EXCEPT ![w] = Ring!NoReceipt]
      /\ seq' = seq
  BY DEF Ring!Insert
<1>3. hand[w] \in Receipts
  BY <1>1, <1>2
<1>4. head' = IF head + 1 < Size THEN head + 1 ELSE 0
  <2> DEFINE x == head + 1
  <2>1. x \in Nat /\ x < 2 * Size /\ x <= Size
    BY <1>1
  <2>2. x % Size = IF x < Size THEN x ELSE x - Size
    <3> HIDE DEF x
    <3>1. QED
      BY <2>1, Wrap
  <2>3. QED
    BY <1>1, <1>2, <2>1, <2>2
<1>5. Receipts' = Receipts
  BY <1>2 DEF Receipts
<1>6. Shape'
  <2>1. /\ entries' \in [0 .. Size - 1 -> Receipts \cup {Ring!NoReceipt}]
        /\ hand' \in [Writers -> Receipts \cup {Ring!NoReceipt}]
    BY <1>1, <1>2, <1>3
  <2>2. head' \in 0 .. Size - 1 /\ count' \in 0 .. Size /\ seq' \in Nat
    BY <1>1, <1>2, <1>4
  <2>3. Ring!LedgerTypeOK'
    BY <2>1, <2>2, <1>2 DEF Ring!LedgerTypeOK, Receipts, Bodies, Writers, Ring!NoReceipt
  <2>4. count' < Size => head' = count'
    BY <1>1, <1>2, <1>4
  <2>5. \A p \in 0 .. Size - 1 : p < count' => entries'[p] # Ring!NoReceipt
    BY <1>1, <1>2
  <2>6. QED
    BY <2>3, <2>4, <2>5 DEF Shape, Ring!NoReceipt
<1>7. ASSUME NEW i \in 1 .. count'
      PROVE  At(i)' = IF i = count' THEN hand[w]
                      ELSE IF count < Size THEN At(i) ELSE At(i + 1)
  <2>1. At(i)' = entries'[Position(i)']
    BY <1>6, QueryPositionNext
  <2>2. Position(i)' = IF count' < Size THEN i - 1
                       ELSE IF head' + i - 1 < Size THEN head' + i - 1 ELSE head' + i - 1 - Size
    BY DEF Position
  <2>3. CASE i = count'
    BY <1>1, <1>2, <1>4, <2>1, <2>2, <2>3
  <2>4. CASE i # count' /\ count < Size
    <3>1. i \in 1 .. count /\ At(i) = entries[Position(i)] /\ Position(i) = i - 1
      BY <1>1, <1>2, <2>4, QueryPosition DEF Position
    <3>2. Position(i)' = i - 1
      BY <1>1, <1>2, <1>4, <2>2, <2>4
    <3>3. QED
      BY <1>1, <1>2, <2>1, <2>4, <3>1, <3>2
  <2>5. CASE i # count' /\ count = Size
    <3>1. i + 1 \in 1 .. count /\ At(i + 1) = entries[Position(i + 1)]
      BY <1>1, <1>2, <2>5, QueryPosition
    <3>2. Position(i)' = Position(i + 1) /\ Position(i)' # head /\ Position(i)' \in 0 .. Size - 1
      BY <1>1, <1>2, <1>4, <2>2, <2>5 DEF Position
    <3>3. QED
      BY <1>1, <1>2, <2>1, <2>5, <3>1, <3>2
  <2>6. QED
    BY <1>1, <2>3, <2>4, <2>5
<1>8. QED
  BY <1>1, <1>2, <1>3, <1>6, <1>7 DEF Holds

\* Numbering a receipt leaves the ring as it is.
LEMMA TakeQuery ==
  ASSUME Shape, NEW w \in Writers, NEW b \in Bodies, Ring!TakeSeq(w, b)
  PROVE  /\ Shape'
         /\ seq \in Nat /\ seq' = seq + 1
         /\ ~Holds(w)
         /\ hand \in [Writers -> Receipts \cup {Ring!NoReceipt}]
         /\ hand' = [hand EXCEPT ![w] = [seq |-> seq + 1, body |-> b]]
         /\ count' = count
         /\ \A i : At(i)' = At(i)
<1>1. /\ ~Holds(w)
      /\ seq' = seq + 1
      /\ hand' = [hand EXCEPT ![w] = [seq |-> seq + 1, body |-> b]]
      /\ UNCHANGED <<entries, head, count>>
  BY DEF Ring!TakeSeq, Holds
<1>2. /\ seq \in Nat
      /\ entries \in [0 .. Size - 1 -> Receipts \cup {Ring!NoReceipt}]
      /\ hand \in [Writers -> Receipts \cup {Ring!NoReceipt}]
  BY DEF Shape, Ring!LedgerTypeOK, Receipts, Bodies, Writers
<1>3. Receipts \subseteq Receipts' /\ [seq |-> seq + 1, body |-> b] \in Receipts'
  BY <1>1, <1>2 DEF Receipts
<1>4. /\ entries' \in [0 .. Size - 1 -> Receipts' \cup {Ring!NoReceipt}]
      /\ hand' \in [Writers -> Receipts' \cup {Ring!NoReceipt}]
  BY <1>1, <1>2, <1>3
<1>5. Shape'
  BY <1>1, <1>2, <1>4 DEF Shape, Ring!LedgerTypeOK, Receipts, Bodies, Writers, Ring!NoReceipt
<1>6. \A i : At(i)' = At(i)
  BY <1>1 DEF At, Ring!Query, Ring!Oldest
<1>7. QED
  BY <1>1, <1>2, <1>5, <1>6

\* What is known of a receipt that is held.
LEMMA HeldType ==
  ASSUME Shape, NEW w \in Writers
  PROVE  /\ hand \in [Writers -> Receipts \cup {Ring!NoReceipt}]
         /\ Holds(w) => hand[w] \in Receipts
  BY DEF Shape, Ring!LedgerTypeOK, Receipts, Bodies, Writers, Holds

LEMMA TakeLedgerInv ==
  ASSUME LedgerInv, NEW w \in Writers, NEW b \in Bodies, Ring!TakeSeq(w, b)
  PROVE  LedgerInv'
<1> USE DEF LedgerInv
<1>1. /\ Shape'
      /\ seq \in Nat /\ seq' = seq + 1
      /\ ~Holds(w)
      /\ hand \in [Writers -> Receipts \cup {Ring!NoReceipt}]
      /\ hand' = [hand EXCEPT ![w] = [seq |-> seq + 1, body |-> b]]
      /\ count' = count
      /\ \A i : At(i)' = At(i)
  BY TakeQuery
<1>2. \A i \in 1 .. count : At(i) \in Receipts
  BY QueryPosition
<1>3. \A v \in Writers : Holds(v) => hand[v] \in Receipts
  BY HeldType
<1>4. /\ \A i \in 1 .. count : At(i).seq \in 1 .. seq
      /\ \A v \in Writers : Holds(v) => hand[v].seq \in 1 .. seq
  BY <1>2, <1>3 DEF Receipts
<1>5. /\ Holds(w)' /\ hand'[w].seq = seq + 1
      /\ \A v \in Writers \ {w} : hand'[v] = hand[v] /\ Holds(v)' = Holds(v)
  BY <1>1 DEF Holds, Ring!NoReceipt
<1>6. Distinct'
  BY <1>1, <1>4, <1>5 DEF Distinct
<1>7. Accounted'
  <2> SUFFICES ASSUME count < Size, NEW n \in 1 .. seq + 1
               PROVE  \/ \E i \in 1 .. count : At(i).seq = n
                      \/ \E v \in Writers : Holds(v)' /\ hand'[v].seq = n
    BY <1>1 DEF Accounted
  <2>1. CASE n = seq + 1
    BY <1>5, <2>1
  <2>2. CASE n \in 1 .. seq
    BY <1>1, <1>5, <2>2 DEF Accounted
  <2>3. QED
    BY <1>1, <2>1, <2>2
<1>8. IsFiniteSet(Ring!Holding)'
  <2>1. Ring!Holding' = Ring!Holding \cup {w}
    BY <1>1, <1>5 DEF Ring!Holding, Holds, Writers
  <2>2. QED
    BY <2>1, FS_AddElement
<1>9. QED
  BY <1>1, <1>6, <1>7, <1>8

LEMMA InsertLedgerInv ==
  ASSUME LedgerInv, NEW w \in Writers, Ring!Insert(w)
  PROVE  LedgerInv'
<1> USE DEF LedgerInv
<1>1. /\ Shape'
      /\ seq' = seq
      /\ hand' = [hand EXCEPT ![w] = Ring!NoReceipt]
      /\ Holds(w) /\ hand[w] \in Receipts
      /\ count \in 0 .. Size /\ count' = IF count < Size THEN count + 1 ELSE count
      /\ \A i \in 1 .. count' :
           At(i)' = IF i = count' THEN hand[w]
                    ELSE IF count < Size THEN At(i) ELSE At(i + 1)
  BY InsertQuery
<1>2. Size \in Nat /\ Size > 0
  BY WsTunnelAssumption
<1>3. /\ ~Holds(w)'
      /\ \A v \in Writers \ {w} : hand'[v] = hand[v] /\ Holds(v)' = Holds(v)
  BY <1>1, HeldType DEF Holds
<1> DEFINE From(i) == IF count < Size THEN i ELSE i + 1
<1>4. \A i \in 1 .. count' : i # count' => From(i) \in 1 .. count /\ At(i)' = At(From(i))
  BY <1>1, <1>2
<1>5. \A i, j \in 1 .. count' : From(i) = From(j) => i = j
  BY <1>1, <1>2
<1>6. count' \in 1 .. count' /\ \A i \in 1 .. count' : i = count' => At(i)' = hand[w]
  BY <1>1, <1>2
<1>7. \A i, j \in 1 .. count' : At(i)'.seq = At(j)'.seq => i = j
  <2> HIDE DEF From
  <2>1. QED
    BY <1>1, <1>4, <1>5, <1>6 DEF Distinct
<1>8. \A v \in Writers, i \in 1 .. count' : Holds(v)' => At(i)'.seq # hand'[v].seq
  <2> HIDE DEF From
  <2>1. QED
    BY <1>1, <1>3, <1>4, <1>6 DEF Distinct
<1>9. Distinct'
  BY <1>3, <1>7, <1>8 DEF Distinct
<1>10. Accounted'
  <2> SUFFICES ASSUME count < Size, NEW n \in 1 .. seq
               PROVE  \/ \E i \in 1 .. count' : At(i)'.seq = n
                      \/ \E v \in Writers : Holds(v)' /\ hand'[v].seq = n
    BY <1>1, <1>2 DEF Accounted
  <2>1. CASE \E i \in 1 .. count : At(i).seq = n
    BY <1>1, <2>1
  <2>2. CASE hand[w].seq = n
    BY <1>6, <2>2
  <2>3. CASE \E v \in Writers \ {w} : Holds(v) /\ hand[v].seq = n
    BY <1>3, <2>3
  <2>4. QED
    BY <2>1, <2>2, <2>3 DEF Accounted
<1>11. IsFiniteSet(Ring!Holding)'
  <2>1. Ring!Holding' = Ring!Holding \ {w}
    BY <1>1, <1>3 DEF Ring!Holding, Holds, Writers
  <2>2. QED
    BY <2>1, FS_RemoveElement
<1>12. QED
  BY <1>1, <1>9, <1>10, <1>11

\* A ledger nobody has appended to.
Fresh ==
  /\ seq = 0 /\ count = 0 /\ head = 0
  /\ entries = [i \in 0 .. Size - 1 |-> Ring!NoReceipt]
  /\ hand = [w \in Writers |-> Ring!NoReceipt]

LEMMA FreshLedgerInv == Fresh => LedgerInv
<1> SUFFICES ASSUME Fresh PROVE LedgerInv
  OBVIOUS
<1>1. Size \in Nat /\ Size > 0
  BY WsTunnelAssumption
<1>2. Shape
  BY <1>1 DEF Fresh, Shape, Ring!LedgerTypeOK, Writers
<1>3. \A w \in Writers : ~Holds(w)
  BY DEF Fresh, Holds
<1>4. Distinct /\ Accounted
  BY <1>1, <1>3 DEF Fresh, Distinct, Accounted
<1>5. Ring!Holding = {}
  BY <1>3 DEF Ring!Holding, Holds, Writers
<1>6. QED
  BY <1>2, <1>4, <1>5, FS_EmptySet DEF LedgerInv

LEMMA FreshLedgerInvNext == (Fresh => LedgerInv)'
BY FreshLedgerInv, PTL

-------------------------------------------------------------------------------
(***************************************************************************)
(* What the ledger promises, of one state                                  *)
(***************************************************************************)
\* As many values as arguments, when no value is taken twice.
LEMMA CardinalityOfImage ==
  ASSUME NEW S, IsFiniteSet(S), NEW f \in [S -> Nat],
         \A x, y \in S : f[x] = f[y] => x = y
  PROVE  Cardinality({f[x] : x \in S}) = Cardinality(S)
<1> DEFINE T == {f[x] : x \in S}
<1>1. f \in [S -> T] /\ \A t \in T : \E x \in S : f[x] = t
  OBVIOUS
<1> HIDE DEF T
<1>2. f \in Surjection(S, T) /\ f \in Injection(S, T)
  BY <1>1 DEF Surjection, Injection, IsInjective
<1>3. Cardinality(T) = Cardinality(S)
  BY <1>2, FS_Surjection
<1>4. QED
  BY <1>3 DEF T

\* Ledger counts with its own instance of the operator.
LEMMA SameCardinality == \A S : Ring!Cardinality(S) = Cardinality(S)
BY DEF Ring!Cardinality, Cardinality

LEMMA LedgerNoGap ==
  ASSUME LedgerInv
  PROVE  NoGap
<1> DEFINE stored == {Ring!Query[i].seq : i \in 1 .. count}
           held == {hand[w].seq : w \in Ring!Holding}
<1>1. /\ count \in Nat
      /\ \A i \in 1 .. count : At(i) = Ring!Query[i] /\ At(i).seq \in 1 .. seq
  BY QueryType, QueryPosition DEF LedgerInv, Receipts
<1>2. Ring!Holding = {w \in Writers : Holds(w)}
  BY DEF Ring!Holding, Holds, Writers
<1>3. \A w \in Ring!Holding : w \in Writers /\ Holds(w) /\ hand[w].seq \in 1 .. seq
  BY <1>2, HeldType DEF LedgerInv, Receipts
<1>4. stored \cap held = {}
  BY <1>1, <1>3 DEF LedgerInv, Distinct
<1>5. stored \cup held \subseteq 1 .. seq
  BY <1>1, <1>3
<1>6. count < Size => stored \cup held = 1 .. seq
  BY <1>1, <1>2, <1>5 DEF LedgerInv, Accounted
<1>7. Cardinality(stored) = count
  <2> DEFINE f == [i \in 1 .. count |-> Ring!Query[i].seq]
  <2>1. f \in [1 .. count -> Nat] /\ \A i, j \in 1 .. count : f[i] = f[j] => i = j
    BY <1>1 DEF LedgerInv, Distinct
  <2>2. IsFiniteSet(1 .. count) /\ Cardinality(1 .. count) = count
    BY <1>1, FS_Interval
  <2>3. stored = {f[i] : i \in 1 .. count}
    OBVIOUS
  <2> HIDE DEF f, stored
  <2>4. QED
    BY <2>1, <2>2, <2>3, CardinalityOfImage
<1>8. Cardinality(held) = Cardinality(Ring!Holding)
  <2> DEFINE f == [w \in Ring!Holding |-> hand[w].seq]
  <2>1. f \in [Ring!Holding -> Nat] /\ \A v, w \in Ring!Holding : f[v] = f[w] => v = w
    BY <1>3 DEF LedgerInv, Distinct
  <2>2. held = {f[w] : w \in Ring!Holding}
    OBVIOUS
  <2>3. IsFiniteSet(Ring!Holding)
    BY DEF LedgerInv
  <2> HIDE DEF f, held
  <2>4. QED
    BY <2>1, <2>2, <2>3, CardinalityOfImage
<1>9. QED
  BY <1>4, <1>5, <1>6, <1>7, <1>8, SameCardinality DEF NoGap, Ring!NoGap

LEMMA ShapeRecent ==
  ASSUME Shape
  PROVE  RecentAgreesWithQuery
<1>1. /\ Size \in Nat /\ Size > 0 /\ head \in 0 .. Size - 1 /\ count \in 0 .. Size
      /\ count < Size => head = count
  BY WsTunnelAssumption DEF Shape, Ring!LedgerTypeOK
<1> SUFFICES ASSUME NEW n \in 0 .. Size + 1
             PROVE  LET r == Ring!Recent(n) IN
                      /\ Len(r) = IF n \in 1 .. count THEN n ELSE count
                      /\ \A i \in 1 .. Len(r) : r[i] = Ring!Query[count - Len(r) + i]
  BY DEF RecentAgreesWithQuery, Ring!RecentAgreesWithQuery
<1> DEFINE m == IF n <= 0 \/ n > count THEN count ELSE n
           start == IF head - m < 0 THEN head - m + Size ELSE head - m
           r == Ring!Recent(n)
<1>2. r = [i \in 1 .. m |-> entries[(start + i - 1) % Size]]
  BY DEF Ring!Recent
<1>3. m \in 0 .. count /\ m = IF n \in 1 .. count THEN n ELSE count
  BY <1>1
<1>4. start \in 0 .. Size - 1 \/ m = 0
  BY <1>1, <1>3
<1>5. start = IF head - m < 0 THEN head - m + Size ELSE head - m
  OBVIOUS
<1> HIDE DEF m, start, r
<1>6. Len(r) = m
  <2>1. DOMAIN r = 1 .. m /\ m \in Nat
    BY <1>1, <1>2, <1>3
  <2>2. r \in [1 .. m -> {r[i] : i \in 1 .. m}]
    BY <1>2
  <2>3. r \in Seq({r[i] : i \in 1 .. m})
    BY <2>1, <2>2, SeqDef
  <2>4. QED
    BY <2>1, <2>3, LenProperties
<1>7. ASSUME NEW i \in 1 .. m
      PROVE  r[i] = Ring!Query[count - m + i]
  <2>1. count - m + i \in 1 .. count /\ count - m + i \in Nat
    BY <1>1, <1>3
  <2>2. Ring!Query[count - m + i] = entries[Position(count - m + i)]
    BY <2>1, QueryPosition DEF At
  <2> DEFINE x == start + i - 1
  <2>3. x \in Nat /\ x < 2 * Size
    BY <1>1, <1>3, <1>4
  <2>4. x % Size = IF x < Size THEN x ELSE x - Size
    <3> HIDE DEF x
    <3>1. QED
      BY <2>3, Wrap
  <2>5. x % Size = Position(count - m + i)
    BY <1>1, <1>3, <1>4, <1>5, <2>4 DEF Position
  <2>6. QED
    BY <1>2, <2>2, <2>5
<1>8. QED
  BY <1>3, <1>6, <1>7 DEF r

-------------------------------------------------------------------------------
(***************************************************************************)
(* The sessions                                                            *)
(***************************************************************************)
\* Every receipt shown has a number given out and one of the bodies.
LEMMA Shown ==
  ASSUME LedgerInv, NEW i \in 1 .. count
  PROVE  /\ At(i).seq \in 1 .. seq
         /\ At(i).body \in Bodies
         /\ At(i).body = [session |-> At(i).body.session, action |-> At(i).body.action]
<1>1. At(i) \in Receipts
  BY QueryPosition DEF LedgerInv
<1>2. QED
  BY <1>1 DEF Receipts, Bodies

\* A session is not concerned by what another one does.
LEMMA OtherProtocol ==
  ASSUME NEW s \in Sessions, Protocol(s),
         handler'[s] = handler[s], downlink'[s] = downlink[s], todo'[s] = todo[s],
         \A g \in Goroutines : hand'[<<s, g>>] = hand[<<s, g>>],
         \A i \in 1 .. count' :
           \/ \E j \in 1 .. count : At(i)' = At(j)
           \/ At(i)'.body.session # s
  PROVE  Protocol(s)'
<1> USE DEF Holds, Goroutines
<1>1. \A i \in 1 .. count' : At(i)'.body.session = s => \E j \in 1 .. count : At(i)' = At(j)
  OBVIOUS
<1>2. Begun(s).session = s /\ Ended(s).session = s
  BY DEF Begun, Ended
<1>3. handler'[s] \in {"none", "starting"} =>
        \A i \in 1 .. count' : At(i)'.body.session # s
  BY <1>1 DEF Protocol
<1>4. \A i \in 1 .. count' :
        /\ At(i)'.body = Ended(s) => handler'[s] = "over"
        /\ At(i)'.body = Begun(s) =>
             \A g \in Goroutines : Holds(<<s, g>>)' => At(i)'.seq < hand'[<<s, g>>].seq
  BY <1>1, <1>2 DEF Protocol
<1>5. QED
  BY <1>3, <1>4 DEF Protocol, Begun, Ended, Seen, Ring!NoReceipt

\* What the new receipt must not contradict.
LEMMA InsertBracketed ==
  ASSUME LedgerInv, SessionBracketed, NEW w \in Writers, Ring!Insert(w),
         \A i \in 1 .. count : At(i).body.session = hand[w].body.session =>
           /\ hand[w].body.action # "session_start"
           /\ At(i).body.action = "session_start" => At(i).seq < hand[w].seq
           /\ ~(At(i).body.action = "session_end" /\ hand[w].body.action = "session_end")
  PROVE  SessionBracketed'
<1>1. /\ count \in 0 .. Size /\ count' = IF count < Size THEN count + 1 ELSE count
      /\ \A i \in 1 .. count' :
           At(i)' = IF i = count' THEN hand[w]
                    ELSE IF count < Size THEN At(i) ELSE At(i + 1)
  BY InsertQuery DEF LedgerInv
<1>2. Size \in Nat /\ Size > 0
  BY WsTunnelAssumption
<1> DEFINE From(i) == IF count < Size THEN i ELSE i + 1
<1>3. \A i \in 1 .. count' : i # count' => From(i) \in 1 .. count /\ At(i)' = At(From(i))
  BY <1>1, <1>2
<1>4. \A i, j \in 1 .. count' : i < j => From(i) < From(j) /\ i # count'
  BY <1>1, <1>2
<1>5. \A i \in 1 .. count' : i = count' => At(i)' = hand[w]
  BY <1>1
<1> HIDE DEF From
<1> SUFFICES ASSUME NEW i \in 1 .. count', NEW j \in 1 .. count', i < j,
                    At(i)'.body.session = At(j)'.body.session
             PROVE  /\ At(j)'.body.action # "session_start"
                    /\ At(i)'.body.action = "session_start" => At(i)'.seq < At(j)'.seq
                    /\ ~(At(i)'.body.action = "session_end" /\ At(j)'.body.action = "session_end")
  BY DEF SessionBracketed
<1>6. From(i) \in 1 .. count /\ At(i)' = At(From(i))
  BY <1>3, <1>4
<1>7. CASE j = count'
  BY <1>5, <1>6, <1>7
<1>8. CASE j # count'
  <2>1. From(j) \in 1 .. count /\ At(j)' = At(From(j)) /\ From(i) < From(j)
    BY <1>3, <1>4, <1>8
  <2>2. QED
    BY <1>6, <2>1 DEF SessionBracketed
<1>9. QED
  BY <1>7, <1>8

\* What an action of session s leaves of the other sessions.
OthersKept(s) ==
  \A t \in Sessions \ {s} :
    handler'[t] = handler[t] /\ downlink'[t] = downlink[t] /\ todo'[t] = todo[t]

\* A goroutine of s numbers a receipt: what is left to show is about s.
LEMMA TakeIInv ==
  ASSUME IInv, NEW s \in Sessions, NEW g \in Goroutines, NEW b \in Bodies,
         Ring!TakeSeq(<<s, g>>, b), OthersKept(s), TunnelTypeOK',
         /\ \A i \in 1 .. count : At(i).seq < seq + 1 /\ At(i)' = At(i)
         /\ count' = count
         /\ \A h \in Goroutines : hand'[<<s, h>>] =
              IF h = g THEN [seq |-> seq + 1, body |-> b] ELSE hand[<<s, h>>]
         => Protocol(s)'
  PROVE  IInv'
<1> DEFINE w == <<s, g>>
<1>1. w \in Writers /\ \A t \in Sessions, h \in Goroutines : <<t, h>> \in Writers
  BY DEF Writers
<1>2. LedgerInv
  BY DEF IInv
<1>3. LedgerInv'
  BY <1>1, <1>2, TakeLedgerInv
<1>4. /\ hand \in [Writers -> Receipts \cup {Ring!NoReceipt}]
      /\ hand' = [hand EXCEPT ![w] = [seq |-> seq + 1, body |-> b]]
      /\ count' = count
      /\ \A i : At(i)' = At(i)
  BY <1>1, <1>2, TakeQuery DEF LedgerInv
<1>5. \A i \in 1 .. count : At(i).seq < seq + 1
  <2>1. seq \in Nat
    BY <1>2 DEF LedgerInv, Shape, Ring!LedgerTypeOK
  <2>2. \A i \in 1 .. count : At(i).seq \in 1 .. seq
    BY <1>2, Shown
  <2>3. QED
    BY <2>1, <2>2
<1>6. Protocol(s)'
  BY <1>1, <1>4, <1>5
<1>7. ASSUME NEW t \in Sessions, t # s
      PROVE  Protocol(t)'
  <2>1. \A h \in Goroutines : hand'[<<t, h>>] = hand[<<t, h>>]
    BY <1>1, <1>4, <1>7
  <2>2. QED
    BY <1>4, <1>7, <2>1, OtherProtocol DEF OthersKept, IInv
<1>8. SessionBracketed'
  BY <1>4 DEF SessionBracketed, IInv
<1>9. QED
  BY <1>3, <1>6, <1>7, <1>8 DEF IInv

\* A goroutine of s stores a receipt: what is left to show is about s.
LEMMA StoreIInv ==
  ASSUME IInv, NEW s \in Sessions, NEW g \in Goroutines,
         Ring!Insert(<<s, g>>), OthersKept(s), TunnelTypeOK',
         hand[<<s, g>>].body.session = s,
         \A i \in 1 .. count : At(i).body.session = s =>
           /\ hand[<<s, g>>].body.action # "session_start"
           /\ At(i).body.action = "session_start" => At(i).seq < hand[<<s, g>>].seq
           /\ ~(At(i).body.action = "session_end" /\ hand[<<s, g>>].body.action = "session_end"),
         /\ \A i \in 1 .. count' : At(i)' = hand[<<s, g>>] \/ \E j \in 1 .. count : At(i)' = At(j)
         /\ Holds(<<s, g>>)
         /\ \A h \in Goroutines : hand'[<<s, h>>] =
              IF h = g THEN Ring!NoReceipt ELSE hand[<<s, h>>]
         => Protocol(s)'
  PROVE  IInv'
<1> DEFINE w == <<s, g>>
<1>1. w \in Writers /\ \A t \in Sessions, h \in Goroutines : <<t, h>> \in Writers
  BY DEF Writers
<1>2. LedgerInv
  BY DEF IInv
<1>3. LedgerInv'
  BY <1>1, <1>2, InsertLedgerInv
<1>4. /\ hand' = [hand EXCEPT ![w] = Ring!NoReceipt]
      /\ Holds(w)
      /\ count \in 0 .. Size /\ count' = IF count < Size THEN count + 1 ELSE count
      /\ \A i \in 1 .. count' :
           At(i)' = IF i = count' THEN hand[w]
                    ELSE IF count < Size THEN At(i) ELSE At(i + 1)
  BY <1>1, <1>2, InsertQuery DEF LedgerInv
<1>5. \A i \in 1 .. count' : At(i)' = hand[w] \/ \E j \in 1 .. count : At(i)' = At(j)
  <2>1. Size \in Nat
    BY WsTunnelAssumption
  <2>2. ASSUME NEW i \in 1 .. count', i # count'
        PROVE  \E j \in 1 .. count : At(i)' = At(j)
    <3>1. CASE count < Size
      BY <1>4, <2>1, <2>2, <3>1
    <3>2. CASE count = Size
      <4>1. i + 1 \in 1 .. count /\ At(i)' = At(i + 1)
        BY <1>4, <2>1, <2>2, <3>2
      <4>2. QED
        BY <4>1
    <3>3. QED
      BY <1>4, <2>1, <3>1, <3>2
  <2>3. QED
    BY <1>4, <2>2
<1>6. hand \in [Writers -> Receipts \cup {Ring!NoReceipt}]
  BY <1>1, <1>2, HeldType DEF LedgerInv
<1>7. Protocol(s)'
  BY <1>1, <1>4, <1>5, <1>6
<1>8. ASSUME NEW t \in Sessions, t # s
      PROVE  Protocol(t)'
  <2>1. \A h \in Goroutines : hand'[<<t, h>>] = hand[<<t, h>>]
    BY <1>1, <1>4, <1>6, <1>8
  <2>2. QED
    BY <1>5, <1>8, <2>1, OtherProtocol DEF OthersKept, IInv
<1>9. SessionBracketed'
  BY <1>1, <1>2, InsertBracketed DEF IInv
<1>10. QED
  BY <1>3, <1>7, <1>8, <1>9 DEF IInv

\* The ledger is not touched.
LEMMA QuietLedgerInv ==
  ASSUME LedgerInv, UNCHANGED <<seq, entries, head, count, hand>>
  PROVE  /\ LedgerInv'
         /\ \A i : At(i)' = At(i)
         /\ \A w : Holds(w)' = Holds(w)
<1> USE DEF Ring!NoReceipt
<1>1. \A i : At(i)' = At(i)
  BY DEF At, Ring!Query, Ring!Oldest
<1>2. Shape' /\ Ring!Holding' = Ring!Holding /\ Receipts' = Receipts
  BY DEF LedgerInv, Shape, Ring!LedgerTypeOK, Ring!Holding, Receipts
<1>3. \A w : Holds(w)' = Holds(w)
  BY DEF Holds
<1>4. LedgerInv'
  BY <1>1, <1>2, <1>3 DEF LedgerInv, Distinct, Accounted
<1>5. QED
  BY <1>1, <1>3, <1>4

\* An action of s that does not touch the ledger.
LEMMA QuietIInv ==
  ASSUME IInv, NEW s \in Sessions, UNCHANGED <<seq, entries, head, count, hand>>,
         OthersKept(s), TunnelTypeOK',
         (\A i : At(i)' = At(i)) => Protocol(s)'
  PROVE  IInv'
<1>1. LedgerInv' /\ \A i : At(i)' = At(i)
  BY QuietLedgerInv DEF IInv
<1>2. Protocol(s)'
  BY <1>1
<1>3. ASSUME NEW t \in Sessions, t # s
      PROVE  Protocol(t)'
  BY <1>1, <1>3, OtherProtocol DEF OthersKept, IInv
<1>4. SessionBracketed'
  BY <1>1 DEF SessionBracketed, IInv
<1>5. QED
  BY <1>1, <1>2, <1>3, <1>4 DEF IInv

LEMMA OpenIInv == ASSUME IInv, NEW s \in Sessions, Open(s) PROVE IInv'
<1>1. /\ handler[s] = "none"
      /\ Ring!TakeSeq(<<s, "handler">>, Begun(s))
      /\ handler' = [handler EXCEPT ![s] = "starting"]
      /\ UNCHANGED <<downlink, uplink, done, todo, chunks>>
  BY DEF Open, Record, Begun
<1>2. TunnelTypeOK' /\ OthersKept(s) /\ handler'[s] = "starting"
  BY <1>1 DEF IInv, TunnelTypeOK, OthersKept
<1>3. Begun(s) \in Bodies
  BY DEF Begun, Bodies, Actions
<1>4. Protocol(s)
  BY DEF IInv
<1>5. ASSUME \A i \in 1 .. count : At(i).seq < seq + 1 /\ At(i)' = At(i), count' = count,
             \A h \in Goroutines : hand'[<<s, h>>] =
               IF h = "handler" THEN [seq |-> seq + 1, body |-> Begun(s)] ELSE hand[<<s, h>>]
      PROVE  Protocol(s)'
  <2>1. Holds(<<s, "handler">>)' /\ ~Holds(<<s, "downlink">>)'
    BY <1>1, <1>4, <1>5 DEF Holds, Protocol, Goroutines, Ring!NoReceipt
  <2>2. hand'[<<s, "handler">>].body = Begun(s)
    BY <1>5 DEF Goroutines
  <2>3. \A i \in 1 .. count' : At(i)'.body.session # s
    BY <1>1, <1>4, <1>5 DEF Protocol
  <2>4. QED
    BY <1>1, <1>2, <1>4, <2>1, <2>2, <2>3 DEF Protocol, Begun, Ended, Seen
<1>6. "handler" \in Goroutines
  BY DEF Goroutines
<1>7. QED
  BY <1>1, <1>2, <1>3, <1>5, <1>6, TakeIInv

LEMMA EndIInv == ASSUME IInv, NEW s \in Sessions, End(s) PROVE IInv'
<1>1. /\ handler[s] = "waiting"
      /\ done[s] > 0
      /\ done' = [done EXCEPT ![s] = @ - 1]
      /\ Ring!TakeSeq(<<s, "handler">>, Ended(s))
      /\ handler' = [handler EXCEPT ![s] = "ending"]
      /\ UNCHANGED <<downlink, uplink, todo, chunks>>
  BY DEF End, Record, Ended
<1>2. TunnelTypeOK' /\ OthersKept(s) /\ handler'[s] = "ending"
  BY <1>1 DEF IInv, TunnelTypeOK, OthersKept
<1>3. Ended(s) \in Bodies
  BY DEF Ended, Bodies, Actions
<1>4. Protocol(s)
  BY DEF IInv
<1>5. ASSUME \A i \in 1 .. count : At(i).seq < seq + 1 /\ At(i)' = At(i), count' = count,
             \A h \in Goroutines : hand'[<<s, h>>] =
               IF h = "handler" THEN [seq |-> seq + 1, body |-> Ended(s)] ELSE hand[<<s, h>>]
      PROVE  Protocol(s)'
  <2>1. seq \in Nat
    BY DEF IInv, LedgerInv, Shape, Ring!LedgerTypeOK
  <2>2. /\ Holds(<<s, "handler">>)'
        /\ Holds(<<s, "downlink">>)' = Holds(<<s, "downlink">>)
        /\ hand'[<<s, "downlink">>] = hand[<<s, "downlink">>]
    BY <1>5, <2>1 DEF Holds, Goroutines, Ring!NoReceipt
  <2>3. hand'[<<s, "handler">>].body = Ended(s) /\ hand'[<<s, "handler">>].seq = seq + 1
    BY <1>5 DEF Goroutines
  <2>4. \A i \in 1 .. count' :
          /\ At(i)'.body = Ended(s) => handler'[s] = "over"
          /\ At(i)'.body = Begun(s) =>
               \A g \in Goroutines : Holds(<<s, g>>)' => At(i)'.seq < hand'[<<s, g>>].seq
    BY <1>1, <1>4, <1>5, <2>2, <2>3 DEF Protocol, Goroutines
  <2>5. QED
    BY <1>1, <1>2, <1>4, <2>2, <2>3, <2>4 DEF Protocol, Begun, Ended, Seen
<1>6. "handler" \in Goroutines
  BY DEF Goroutines
<1>7. QED
  BY <1>1, <1>2, <1>3, <1>5, <1>6, TakeIInv

\* What is left of a chunk after one receipt of it.
LEMMA TailsRecognised ==
  ASSUME NEW list \in Recognised
  PROVE  Head(list) = "event" /\ Tail(list) \in Recognised \cup {<<>>}
<1>1. CASE list = <<"event">>
  <2>1. Head(<<"event">>) = "event" /\ Tail(<<"event">>) = <<>>
    OBVIOUS
  <2>2. QED
    BY <1>1, <2>1
<1>2. CASE list = <<"event", "event">>
  <2>1. Head(<<"event", "event">>) = "event" /\ Tail(<<"event", "event">>) = <<"event">>
    OBVIOUS
  <2>2. QED
    BY <1>2, <2>1 DEF Recognised
<1>3. QED
  BY <1>1, <1>2 DEF Recognised

LEMMA RecogniseIInv == ASSUME IInv, NEW s \in Sessions, Recognise(s) PROVE IInv'
<1>1. /\ todo[s] # <<>>
      /\ Ring!TakeSeq(<<s, "downlink">>, [session |-> s, action |-> Head(todo[s])])
      /\ todo' = [todo EXCEPT ![s] = Tail(@)]
      /\ UNCHANGED <<handler, downlink, uplink, done, chunks>>
  BY DEF Recognise, Record
<1>2. /\ todo \in [Sessions -> Recognised \cup {<<>>}]
      /\ todo[s] \in Recognised
  BY <1>1 DEF IInv, TunnelTypeOK
<1>3. Head(todo[s]) = "event" /\ Tail(todo[s]) \in Recognised \cup {<<>>}
  BY <1>2, TailsRecognised
<1>4. TunnelTypeOK' /\ OthersKept(s) /\ handler'[s] = handler[s]
  BY <1>1, <1>2, <1>3 DEF IInv, TunnelTypeOK, OthersKept
<1>5. Seen(s) \in Bodies /\ Seen(s) = [session |-> s, action |-> Head(todo[s])]
  BY <1>3 DEF Seen, Bodies, Actions
<1>6. Protocol(s) /\ handler[s] \notin {"none", "starting"}
  BY <1>1 DEF IInv, Protocol
<1>7. ASSUME \A i \in 1 .. count : At(i).seq < seq + 1 /\ At(i)' = At(i), count' = count,
             \A h \in Goroutines : hand'[<<s, h>>] =
               IF h = "downlink" THEN [seq |-> seq + 1, body |-> Seen(s)] ELSE hand[<<s, h>>]
      PROVE  Protocol(s)'
  <2>1. /\ Holds(<<s, "handler">>)' = Holds(<<s, "handler">>)
        /\ hand'[<<s, "handler">>] = hand[<<s, "handler">>]
        /\ hand'[<<s, "downlink">>].body = Seen(s)
        /\ hand'[<<s, "downlink">>].seq = seq + 1
    BY <1>7 DEF Holds, Goroutines, Ring!NoReceipt
  <2>2. \A i \in 1 .. count' :
          /\ At(i)'.body = Ended(s) => handler'[s] = "over"
          /\ At(i)'.body = Begun(s) =>
               \A g \in Goroutines : Holds(<<s, g>>)' => At(i)'.seq < hand'[<<s, g>>].seq
    BY <1>4, <1>6, <1>7, <2>1 DEF Protocol, Goroutines
  <2>3. QED
    BY <1>4, <1>6, <2>1, <2>2 DEF Protocol, Begun, Ended, Seen
<1>8. "downlink" \in Goroutines
  BY DEF Goroutines
<1>9. QED
  BY <1>1, <1>4, <1>5, <1>7, <1>8, TakeIInv

\* A start, an end or something recognised among a session's receipts.
LEMMA BodyOf ==
  ASSUME LedgerInv, NEW s \in Sessions, NEW i \in 1 .. count, At(i).body.session = s
  PROVE  /\ At(i).body.action = "session_start" => At(i).body = Begun(s)
         /\ At(i).body.action = "session_end" => At(i).body = Ended(s)
BY Shown DEF Begun, Ended

LEMMA StartIInv == ASSUME IInv, NEW s \in Sessions, Start(s) PROVE IInv'
<1>1. /\ handler[s] = "starting"
      /\ Ring!Insert(<<s, "handler">>)
      /\ handler' = [handler EXCEPT ![s] = "waiting"]
      /\ downlink' = [downlink EXCEPT ![s] = "copying"]
      /\ uplink' = [uplink EXCEPT ![s] = "copying"]
      /\ UNCHANGED <<done, todo, chunks>>
  BY DEF Start, Store
<1>2. TunnelTypeOK' /\ OthersKept(s) /\ handler'[s] = "waiting"
  BY <1>1 DEF IInv, TunnelTypeOK, OthersKept
<1>3. Protocol(s)
  BY DEF IInv
<1>4. /\ hand[<<s, "handler">>].body = Begun(s)
      /\ \A i \in 1 .. count : At(i).body.session # s
  BY <1>1, <1>3 DEF Protocol
<1>5. ASSUME \A i \in 1 .. count' :
               At(i)' = hand[<<s, "handler">>] \/ \E j \in 1 .. count : At(i)' = At(j),
             Holds(<<s, "handler">>),
             \A h \in Goroutines : hand'[<<s, h>>] =
               IF h = "handler" THEN Ring!NoReceipt ELSE hand[<<s, h>>]
      PROVE  Protocol(s)'
  <2>1. \A g \in Goroutines : ~Holds(<<s, g>>)'
    BY <1>1, <1>3, <1>5 DEF Holds, Protocol, Goroutines, Ring!NoReceipt
  <2>2. \A i \in 1 .. count' : At(i)'.body # Ended(s)
    BY <1>4, <1>5 DEF Begun, Ended
  <2>3. QED
    BY <1>2, <2>1, <2>2 DEF Protocol, Goroutines
<1>6. "handler" \in Goroutines /\ Begun(s).session = s
  BY DEF Goroutines, Begun
<1>7. QED
  BY <1>1, <1>2, <1>4, <1>5, <1>6, StoreIInv

LEMMA CloseIInv == ASSUME IInv, NEW s \in Sessions, Close(s) PROVE IInv'
<1>1. /\ handler[s] = "ending"
      /\ Ring!Insert(<<s, "handler">>)
      /\ handler' = [handler EXCEPT ![s] = "over"]
      /\ UNCHANGED <<downlink, uplink, done, todo, chunks>>
  BY DEF Close, Store
<1>2. TunnelTypeOK' /\ OthersKept(s) /\ handler'[s] = "over"
  BY <1>1 DEF IInv, TunnelTypeOK, OthersKept
<1>3. Protocol(s) /\ LedgerInv
  BY DEF IInv
<1>4. "handler" \in Goroutines
  BY DEF Goroutines
<1>5. /\ hand[<<s, "handler">>].body = Ended(s)
      /\ Holds(<<s, "handler">>)
  BY <1>1, <1>3 DEF Protocol
<1>6. /\ Ended(s).session = s
      /\ Ended(s).action = "session_end"
      /\ Ended(s) # Begun(s)
  BY DEF Ended, Begun
<1>7. ASSUME NEW i \in 1 .. count, At(i).body.session = s
      PROVE  /\ At(i).body.action = "session_start" => At(i).seq < hand[<<s, "handler">>].seq
             /\ At(i).body.action # "session_end"
  <2>1. /\ At(i).body.action = "session_start" => At(i).body = Begun(s)
        /\ At(i).body.action = "session_end" => At(i).body = Ended(s)
    BY <1>3, <1>7, BodyOf
  <2>2. QED
    BY <1>1, <1>3, <1>4, <1>5, <2>1 DEF Protocol
<1>8. ASSUME \A i \in 1 .. count' :
               At(i)' = hand[<<s, "handler">>] \/ \E j \in 1 .. count : At(i)' = At(j),
             Holds(<<s, "handler">>),
             \A h \in Goroutines : hand'[<<s, h>>] =
               IF h = "handler" THEN Ring!NoReceipt ELSE hand[<<s, h>>]
      PROVE  Protocol(s)'
  <2>1. /\ ~Holds(<<s, "handler">>)'
        /\ Holds(<<s, "downlink">>)' = Holds(<<s, "downlink">>)
        /\ hand'[<<s, "downlink">>] = hand[<<s, "downlink">>]
    BY <1>8 DEF Holds, Goroutines, Ring!NoReceipt
  <2>2. \A i \in 1 .. count' :
          At(i)'.body = Begun(s) =>
            \A g \in Goroutines : Holds(<<s, g>>)' => At(i)'.seq < hand'[<<s, g>>].seq
    BY <1>3, <1>5, <1>6, <1>8, <2>1 DEF Protocol, Goroutines
  <2>3. QED
    BY <1>2, <1>3, <2>1, <2>2 DEF Protocol, Seen
<1>9. QED
  BY <1>1, <1>2, <1>4, <1>5, <1>6, <1>7, <1>8, StoreIInv

LEMMA StoreRecognisedIInv == ASSUME IInv, NEW s \in Sessions, StoreRecognised(s) PROVE IInv'
<1>1. /\ Ring!Insert(<<s, "downlink">>)
      /\ UNCHANGED <<handler, downlink, uplink, done, todo, chunks>>
  BY DEF StoreRecognised, Store, tunnelVars
<1>2. TunnelTypeOK' /\ OthersKept(s) /\ handler'[s] = handler[s]
  BY <1>1 DEF IInv, TunnelTypeOK, OthersKept
<1>3. Protocol(s) /\ LedgerInv
  BY DEF IInv
<1>4. "downlink" \in Goroutines
  BY DEF Goroutines
<1>5. Holds(<<s, "downlink">>)
  BY <1>1 DEF Ring!Insert, Holds
<1>6. /\ hand[<<s, "downlink">>].body = Seen(s)
      /\ handler[s] \notin {"none", "starting"}
  BY <1>3, <1>5 DEF Protocol
<1>7. /\ Seen(s).session = s
      /\ Seen(s).action = "event"
      /\ Seen(s) # Begun(s)
      /\ Seen(s) # Ended(s)
  BY DEF Seen, Begun, Ended
<1>8. ASSUME NEW i \in 1 .. count, At(i).body.session = s
      PROVE  At(i).body.action = "session_start" => At(i).seq < hand[<<s, "downlink">>].seq
  <2>1. At(i).body.action = "session_start" => At(i).body = Begun(s)
    BY <1>3, <1>8, BodyOf
  <2>2. QED
    BY <1>3, <1>4, <1>5, <2>1 DEF Protocol
<1>9. ASSUME \A i \in 1 .. count' :
               At(i)' = hand[<<s, "downlink">>] \/ \E j \in 1 .. count : At(i)' = At(j),
             Holds(<<s, "downlink">>),
             \A h \in Goroutines : hand'[<<s, h>>] =
               IF h = "downlink" THEN Ring!NoReceipt ELSE hand[<<s, h>>]
      PROVE  Protocol(s)'
  <2>1. /\ ~Holds(<<s, "downlink">>)'
        /\ Holds(<<s, "handler">>)' = Holds(<<s, "handler">>)
        /\ hand'[<<s, "handler">>] = hand[<<s, "handler">>]
    BY <1>9 DEF Holds, Goroutines, Ring!NoReceipt
  <2>2. \A i \in 1 .. count' :
          /\ At(i)'.body = Ended(s) => handler'[s] = "over"
          /\ At(i)'.body = Begun(s) =>
               \A g \in Goroutines : Holds(<<s, g>>)' => At(i)'.seq < hand'[<<s, g>>].seq
    BY <1>2, <1>3, <1>6, <1>7, <1>9, <2>1 DEF Protocol, Goroutines
  <2>3. QED
    BY <1>2, <1>3, <1>6, <2>1, <2>2 DEF Protocol, Begun, Ended
<1>10. QED
  BY <1>1, <1>2, <1>4, <1>6, <1>7, <1>8, <1>9, StoreIInv

\* Chunk, DownlinkEnds and UplinkEnds: nothing of the ledger changes, and a
\* goroutine that copies has been started.
LEMMA CopyIInv ==
  ASSUME IInv, NEW s \in Sessions, Chunk(s) \/ DownlinkEnds(s) \/ UplinkEnds(s)
  PROVE  IInv'
<1>1. /\ UNCHANGED <<seq, entries, head, count, hand, handler>>
      /\ TunnelTypeOK
      /\ Protocol(s)
  BY DEF Chunk, DownlinkEnds, UplinkEnds, IInv
<1>2. CASE Chunk(s)
  <2>1. /\ downlink[s] = "copying"
        /\ chunks[s] < MaxChunks
        /\ chunks' = [chunks EXCEPT ![s] = @ + 1]
        /\ \E list \in Recognised : todo' = [todo EXCEPT ![s] = list]
        /\ UNCHANGED <<downlink, uplink, done>>
    BY <1>2 DEF Chunk
  <2>2. MaxChunks \in Nat /\ chunks[s] \in 0 .. MaxChunks
    BY <1>1, WsTunnelAssumption DEF TunnelTypeOK
  <2>3. TunnelTypeOK' /\ OthersKept(s)
    BY <1>1, <2>1, <2>2 DEF TunnelTypeOK, OthersKept
  <2>4. handler[s] \notin {"none", "starting"}
    BY <1>1, <2>1 DEF Protocol
  <2>5. ASSUME \A i : At(i)' = At(i) PROVE Protocol(s)'
    BY <1>1, <2>4, <2>5 DEF Protocol, Holds, Begun, Ended, Seen, Ring!NoReceipt
  <2>6. QED
    BY <1>1, <2>3, <2>5, QuietIInv
<1>3. CASE DownlinkEnds(s) \/ UplinkEnds(s)
  <2>1. /\ \/ downlink' = downlink
           \/ downlink[s] = "copying" /\ downlink' = [downlink EXCEPT ![s] = "gone"]
        /\ uplink' = uplink \/ uplink' = [uplink EXCEPT ![s] = "gone"]
        /\ done[s] < 2
        /\ done' = [done EXCEPT ![s] = @ + 1]
        /\ UNCHANGED <<todo, chunks>>
    BY <1>3 DEF DownlinkEnds, UplinkEnds, MayReport
  <2>2. TunnelTypeOK' /\ OthersKept(s)
    <3>1. done' \in [Sessions -> 0 .. 2]
      <4>1. done \in [Sessions -> 0 .. 2]
        BY <1>1 DEF TunnelTypeOK
      <4>2. done[s] < 2 /\ done' = [done EXCEPT ![s] = done[s] + 1]
        BY <2>1
      <4>3. done[s] + 1 \in 0 .. 2
        BY <4>1, <4>2
      <4>4. QED
        BY <4>1, <4>2, <4>3
    <3>2. /\ downlink' \in [Sessions -> {"none", "copying", "gone"}]
          /\ uplink' \in [Sessions -> {"none", "copying", "gone"}]
      BY <1>1, <2>1 DEF TunnelTypeOK
    <3>3. \A t \in Sessions \ {s} : downlink'[t] = downlink[t]
      BY <1>1, <2>1 DEF TunnelTypeOK
    <3>4. QED
      BY <1>1, <2>1, <3>1, <3>2, <3>3 DEF TunnelTypeOK, OthersKept
  <2>3. downlink'[s] = downlink[s] \/ handler[s] \notin {"none", "starting"}
    BY <1>1, <2>1 DEF Protocol
  <2>4. ASSUME \A i : At(i)' = At(i) PROVE Protocol(s)'
    BY <1>1, <2>1, <2>3, <2>4 DEF Protocol, Holds, Begun, Ended, Seen, Ring!NoReceipt
  <2>5. QED
    BY <1>1, <2>2, <2>4, QuietIInv
<1>4. QED
  BY <1>2, <1>3

-------------------------------------------------------------------------------
(***************************************************************************)
(* The invariant                                                           *)
(***************************************************************************)
\* No session has been opened.
Idle ==
  /\ Fresh
  /\ handler = [s \in Sessions |-> "none"]
  /\ downlink = [s \in Sessions |-> "none"]
  /\ uplink = [s \in Sessions |-> "none"]
  /\ done = [s \in Sessions |-> 0]
  /\ todo = [s \in Sessions |-> <<>>]
  /\ chunks = [s \in Sessions |-> 0]

LEMMA IdleIInv == Idle => IInv
<1> SUFFICES ASSUME Idle PROVE IInv
  OBVIOUS
<1>1. LedgerInv /\ count = 0
  BY FreshLedgerInv DEF Idle, Fresh
<1>2. TunnelTypeOK
  BY WsTunnelAssumption DEF Idle, TunnelTypeOK
<1>3. SessionBracketed
  BY <1>1 DEF SessionBracketed
<1>4. ASSUME NEW s \in Sessions
      PROVE  Protocol(s)
  <2>1. handler[s] = "none" /\ downlink[s] = "none" /\ todo[s] = <<>>
    BY DEF Idle
  <2>2. \A g \in Goroutines : ~Holds(<<s, g>>)
    BY DEF Idle, Fresh, Writers, Holds
  <2>3. QED
    BY <1>1, <2>1, <2>2 DEF Protocol, Goroutines
<1>5. QED
  BY <1>1, <1>2, <1>3, <1>4 DEF IInv

LEMMA IdleIInvNext == (Idle => IInv)'
BY IdleIInv, PTL

LEMMA InitIInv == Init => IInv
<1>1. Init => Idle
  BY DEF Init, Idle, Fresh, Ring!NewLedger, Writers, Ring!NoReceipt
<1>2. QED
  BY <1>1, IdleIInv

LEMMA RestartIInv == Restart => IInv'
<1>1. Restart => Idle'
  BY DEF Restart, Idle, Fresh, Ring!LoseLedger, Writers, Ring!NoReceipt
<1>2. QED
  BY <1>1, IdleIInvNext

LEMMA NextIInv == IInv /\ [Next]_vars => IInv'
<1> SUFFICES ASSUME IInv, [Next]_vars PROVE IInv'
  OBVIOUS
<1>1. CASE Restart
  BY <1>1, RestartIInv
<1>2. ASSUME NEW s \in Sessions, Step(s) \/ Peers(s)
      PROVE  IInv'
  BY <1>2, OpenIInv, StartIInv, EndIInv, CloseIInv, RecogniseIInv, StoreRecognisedIInv, CopyIInv
     DEF Step, Peers
<1>3. CASE UNCHANGED vars
  <2>1. UNCHANGED <<seq, entries, head, count, hand>>
        /\ UNCHANGED <<handler, downlink, uplink, done, todo, chunks>>
    BY <1>3 DEF vars
  <2>2. LedgerInv' /\ \A i : At(i)' = At(i)
    BY <2>1, QuietLedgerInv DEF IInv
  <2>3. TunnelTypeOK' /\ SessionBracketed'
    BY <2>1, <2>2 DEF IInv, TunnelTypeOK, SessionBracketed
  <2>4. \A s \in Sessions : Protocol(s)'
    BY <2>1, <2>2, OtherProtocol DEF IInv
  <2>5. QED
    BY <2>2, <2>3, <2>4 DEF IInv
<1>4. QED
  BY <1>1, <1>2, <1>3 DEF Next

LEMMA AlwaysIInv == Spec => []IInv
<1>1. Init => IInv
  BY InitIInv
<1>2. IInv /\ [Next]_vars => IInv'
  BY NextIInv
<1>3. QED
  BY <1>1, <1>2, PTL DEF Spec

(***************************************************************************)
(* The types of the ledger and of the tunnels; the channel done never      *)
(* holds more than two messages, whatever ends first.                      *)
(***************************************************************************)
THEOREM TypeCorrect == Spec => []TypeOK
<1>1. IInv => TypeOK
  BY DEF IInv, LedgerInv, Shape, TunnelTypeOK, TypeOK
<1>2. QED
  BY <1>1, AlwaysIInv, PTL

(***************************************************************************)
(* Receipts are numbered without gaps or repetitions, although a goroutine *)
(* takes its number from the counter long before it has the mutex to store *)
(* the receipt, and others store theirs in between (Ledger.Append).        *)
(***************************************************************************)
THEOREM NumbersComplete == Spec => []NoGap
<1>1. IInv => NoGap
  BY LedgerNoGap DEF IInv
<1>2. QED
  BY <1>1, AlwaysIInv, PTL

(***************************************************************************)
(* Ledger.Recent and Ledger.Query walk the ring alike, for every capacity, *)
(* every fill and every n.                                                 *)
(***************************************************************************)
THEOREM WalksAgree == Spec => []RecentAgreesWithQuery
<1>1. IInv => RecentAgreesWithQuery
  BY ShapeRecent DEF IInv, LedgerInv
<1>2. QED
  BY <1>1, AlwaysIInv, PTL

(***************************************************************************)
(* In what /admin/ledger shows, the receipts of a session follow its start *)
(* in place and in number, and its end appears at most once, for any       *)
(* number of sessions that append at the same time.                        *)
(***************************************************************************)
THEOREM SessionsBracketed == Spec => []SessionBracketed
<1>1. IInv => SessionBracketed
  BY DEF IInv
<1>2. QED
  BY <1>1, AlwaysIInv, PTL

-------------------------------------------------------------------------------
(***************************************************************************)
(* The ring implements RecentLog                                           *)
(***************************************************************************)
LEMMA QueryTypeNext ==
  (Shape => /\ Ring!Query \in Seq(Receipts)
            /\ Len(Ring!Query) = count
            /\ \A i \in 1 .. count : At(i) = Ring!Query[i])'
<1>1. Shape => /\ Ring!Query \in Seq(Receipts)
               /\ Len(Ring!Query) = count
               /\ \A i \in 1 .. count : At(i) = Ring!Query[i]
  BY QueryType
<1>2. QED
  BY <1>1, PTL

\* A receipt stored in the ring is one added to the log.
LEMMA InsertExtends ==
  ASSUME LedgerInv, NEW w \in Writers, Ring!Insert(w)
  PROVE  Ring!Log!Extend
<1> DEFINE Q == Ring!Query
           r == hand[w]
           next == Ring!Query'
<1>1. /\ Shape'
      /\ seq' = seq
      /\ Holds(w) /\ r \in Receipts
      /\ count \in 0 .. Size /\ count' = IF count < Size THEN count + 1 ELSE count
      /\ \A i \in 1 .. count' :
           At(i)' = IF i = count' THEN r ELSE IF count < Size THEN At(i) ELSE At(i + 1)
  BY InsertQuery DEF LedgerInv
<1>2. Size \in Nat /\ Size > 0
  BY WsTunnelAssumption
<1>3. /\ Q \in Seq(Receipts) /\ Len(Q) = count
      /\ \A i \in 1 .. count : At(i) = Q[i]
  BY QueryType DEF LedgerInv
<1>4. /\ next \in Seq(Receipts) /\ Len(next) = count'
      /\ \A i \in 1 .. count' : At(i)' = next[i]
  <2>1. Receipts' = Receipts
    BY <1>1 DEF Receipts
  <2>2. QED
    BY <1>1, <2>1, QueryTypeNext
<1>5. \A i \in 1 .. count' :
        next[i] = IF i = count' THEN r ELSE IF count < Size THEN Q[i] ELSE Q[i + 1]
  <2>1. ASSUME NEW i \in 1 .. count', i # count', count < Size
        PROVE  i \in 1 .. count
    BY <1>1, <1>2, <2>1
  <2>2. ASSUME NEW i \in 1 .. count', i # count', ~(count < Size)
        PROVE  i + 1 \in 1 .. count
    BY <1>1, <1>2, <2>2
  <2>3. QED
    BY <1>1, <1>3, <1>4, <2>1, <2>2
<1>6. count' \in 1 .. count' /\ next[Len(next)] = r /\ next # <<>>
  BY <1>1, <1>2, <1>4, <1>5
<1>7. /\ Append(Q, r) \in Seq(Receipts)
      /\ Len(Append(Q, r)) = count + 1
      /\ \A i \in 1 .. count + 1 : Append(Q, r)[i] = IF i = count + 1 THEN r ELSE Q[i]
  <2> HIDE DEF Q, r
  <2>1. QED
    BY <1>1, <1>2, <1>3, AppendProperties
<1>8. next = IF count + 1 > Size THEN Tail(Append(Q, r)) ELSE Append(Q, r)
  <2> HIDE DEF Q, r, next
  <2>1. CASE count < Size
    <3>1. \A i \in 1 .. Len(next) : next[i] = Append(Q, r)[i]
      BY <1>1, <1>2, <1>4, <1>5, <1>7, <2>1
    <3>2. Len(next) = Len(Append(Q, r))
      BY <1>1, <1>4, <1>7, <2>1
    <3>3. next = Append(Q, r)
      BY <1>4, <1>7, <3>1, <3>2, SeqEqual
    <3>4. QED
      BY <1>1, <1>2, <2>1, <3>3
  <2>2. CASE count = Size
    <3> DEFINE log == Append(Q, r)
    <3>1. log # <<>> /\ log \in Seq(Receipts)
      <4>1. Len(log) = count + 1 /\ log \in Seq(Receipts)
        BY <1>7
      <4> HIDE DEF log
      <4>2. QED
        BY <1>1, <1>2, <4>1, EmptySeq
    <3>2. /\ Tail(log) \in Seq(Receipts)
          /\ Len(Tail(log)) = count
          /\ \A i \in 1 .. count : Tail(log)[i] = log[i + 1]
      <4>1. Len(log) = count + 1
        BY <1>7
      <4> HIDE DEF log
      <4>2. QED
        BY <1>1, <1>2, <2>2, <3>1, <4>1, HeadTailProperties
    <3>3. \A i \in 1 .. Len(next) : next[i] = Tail(log)[i]
      BY <1>1, <1>2, <1>4, <1>5, <1>7, <2>2, <3>2
    <3>4. Len(next) = Len(Tail(log))
      BY <1>1, <1>2, <1>4, <2>2, <3>2
    <3>5. next = Tail(log)
      BY <1>4, <3>2, <3>3, <3>4, SeqEqual
    <3>6. QED
      BY <1>1, <1>2, <2>2, <3>5
  <2>3. QED
    BY <1>1, <1>2, <2>1, <2>2
<1>9. next = Ring!Log!Latest(Append(Q, r))
  BY <1>7, <1>8 DEF Ring!Log!Latest
<1>10. /\ r.seq \in Nat \ ({0} \cup Ring!Log!Numbers)
       /\ r.body \in Bodies
  <2>1. r.seq \in 1 .. seq /\ r.body \in Bodies /\ seq \in Nat
    BY <1>1 DEF Receipts, LedgerInv, Shape, Ring!LedgerTypeOK
  <2>2. r.seq \notin Ring!Log!Numbers
    BY <1>1, <1>3 DEF LedgerInv, Distinct, Ring!Log!Numbers
  <2>3. QED
    BY <2>1, <2>2
<1>11. QED
  BY <1>6, <1>9, <1>10 DEF Ring!Log!Extend, Bodies

(***************************************************************************)
(* Every step of the tunnels is, for a reader of the ledger, one receipt   *)
(* added, the loss of the log with the process, or nothing.                *)
(***************************************************************************)
LEMMA StepRefines ==
  ASSUME IInv, [Next]_vars
  PROVE  [Ring!Log!Extend \/ Ring!Log!Lose]_(Ring!Query)
<1>1. ASSUME NEW s \in Sessions, Step(s) \/ Peers(s)
      PROVE  Ring!Log!Extend \/ UNCHANGED Ring!Query
  <2>1. ASSUME NEW g \in Goroutines, Store(s, g)
        PROVE  Ring!Log!Extend
    BY <2>1, InsertExtends DEF IInv, Store, Writers
  <2>2. \/ Store(s, "handler")
        \/ Store(s, "downlink")
        \/ UNCHANGED <<entries, head, count>>
    BY <1>1 DEF Step, Peers, Start, End, Close, Recognise, StoreRecognised, Open, Chunk,
       DownlinkEnds, UplinkEnds, Record, Ring!TakeSeq
  <2>3. UNCHANGED <<entries, head, count>> => UNCHANGED Ring!Query
    BY DEF Ring!Query, Ring!Oldest
  <2>4. QED
    BY <2>1, <2>2, <2>3 DEF Goroutines
<1>2. CASE Restart
  <2>1. count' = 0
    BY <1>2 DEF Restart, Ring!LoseLedger
  <2>2. Ring!Query' = <<>>
    BY <2>1 DEF Ring!Query
  <2>3. QED
    BY <2>2 DEF Ring!Log!Lose
<1>3. CASE UNCHANGED vars
  BY <1>3 DEF vars, Ring!Query, Ring!Oldest
<1>4. QED
  BY <1>1, <1>2, <1>3 DEF Next

(***************************************************************************)
(* The ring of the ledger, filled by concurrent goroutines, implements the *)
(* log of the latest Size receipts that RecentLog describes.               *)
(***************************************************************************)
THEOREM RingIsRecentLog == Spec => ImplementsRecentLog
<1>1. Init => Ring!Log!Init
  <2>1. Init => count = 0
    BY DEF Init, Ring!NewLedger
  <2>2. QED
    BY <2>1 DEF Ring!Log!Init, Ring!Query
<1>2. IInv /\ [Next]_vars => [Ring!Log!Extend \/ Ring!Log!Lose]_(Ring!Query)
  BY StepRefines
<1>3. QED
  BY <1>1, <1>2, AlwaysIInv, PTL DEF Spec, ImplementsRecentLog, Ring!ImplementsRecentLog, Ring!Log!Spec
===============================================================================

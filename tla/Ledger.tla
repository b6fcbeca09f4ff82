--------------------------------- MODULE Ledger ---------------------------------
(***************************************************************************)
(* The gateway's receipt ledger (services/gateway/middleware/receipt.go):  *)
(* a ring of the latest Size receipts, filled by concurrent goroutines and *)
(* read by /admin/ledger.                                                  *)
(*                                                                         *)
(* Append takes a number from an atomic counter and only then the ledger's *)
(* mutex to store the receipt; TakeSeq and Insert are these two steps.     *)
(* Copying the receipt to the ledger file comes after both and changes     *)
(* nothing here.  The actions leave their callers' variables to the module *)
(* that uses them (WsTunnel).                                              *)
(***************************************************************************)
EXTENDS Integers, Sequences, FiniteSets

CONSTANTS
  Writers,  \* goroutines that append
  Bodies,   \* what a receipt says besides its number
  Size      \* maxSize, capacity of the ring, at least 1 (see WsTunnelAssumption)

VARIABLES
  seq,      \* Ledger.seq
  entries,  \* Ledger.entries
  head,     \* Ledger.head, the next position to write
  count,    \* Ledger.count, the positions in use
  hand      \* per goroutine, the receipt it has numbered and not yet stored

ledgerVars == <<seq, entries, head, count, hand>>

NoReceipt == [seq |-> 0]

NewLedger ==
  /\ seq = 0
  /\ entries = [i \in 0 .. Size - 1 |-> NoReceipt]
  /\ head = 0
  /\ count = 0
  /\ hand = [w \in Writers |-> NoReceipt]

\* Mutant of TakeSeq: receipts are numbered by how many the ring holds.
TakeCount(w, body) ==
  /\ hand[w] = NoReceipt
  /\ seq' = seq + 1
  /\ hand' = [hand EXCEPT ![w] = [seq |-> count + 1, body |-> body]]
  /\ UNCHANGED <<entries, head, count>>

TakeSeq(w, body) ==
  /\ hand[w] = NoReceipt
  /\ seq' = seq + 1
  /\ hand' = [hand EXCEPT ![w] = [seq |-> seq + 1, body |-> body]]
  /\ UNCHANGED <<entries, head, count>>

\* Mutant of Insert: head runs past the ring's last position.
InsertOffByOne(w) ==
  /\ hand[w] # NoReceipt
  /\ entries' = [entries EXCEPT ![head] = hand[w]]
  /\ head' = (head + 1) % (Size + 1)
  /\ count' = IF count < Size THEN count + 1 ELSE count
  /\ hand' = [hand EXCEPT ![w] = NoReceipt]
  /\ UNCHANGED seq

Insert(w) ==
  /\ hand[w] # NoReceipt
  /\ entries' = [entries EXCEPT ![head] = hand[w]]
  /\ head' = (head + 1) % Size
  /\ count' = IF count < Size THEN count + 1 ELSE count
  /\ hand' = [hand EXCEPT ![w] = NoReceipt]
  /\ UNCHANGED seq

\* The process ends; its successor calls NewLedger.
LoseLedger ==
  /\ seq' = 0
  /\ entries' = [i \in 0 .. Size - 1 |-> NoReceipt]
  /\ head' = 0
  /\ count' = 0
  /\ hand' = [w \in Writers |-> NoReceipt]

-------------------------------------------------------------------------------
(***************************************************************************)
(* What a reader gets                                                      *)
(***************************************************************************)
\* Mutant of Oldest: a full ring is read from its first position.
OldestIsFirst == 0

Oldest == IF count = Size THEN head ELSE 0

\* Query without a filter.
Query == [i \in 1 .. count |-> entries[(Oldest + i - 1) % Size]]

\* Mutant of Recent: the start is not wrapped around.
RecentUnwrapped(n) ==
  LET m == IF n <= 0 \/ n > count THEN count ELSE n
      start == IF head - m < 0 THEN 0 ELSE head - m
  IN  [i \in 1 .. m |-> entries[(start + i - 1) % Size]]

Recent(n) ==
  LET m == IF n <= 0 \/ n > count THEN count ELSE n
      start == IF head - m < 0 THEN head - m + Size ELSE head - m
  IN  [i \in 1 .. m |-> entries[(start + i - 1) % Size]]

Holding == {w \in Writers : hand[w] # NoReceipt}

LedgerTypeOK ==
  /\ seq \in Nat
  /\ entries \in [0 .. Size - 1 -> [seq : 1 .. seq, body : Bodies] \cup {NoReceipt}]
  /\ head \in 0 .. Size - 1
  /\ count \in 0 .. Size
  /\ hand \in [Writers -> [seq : 1 .. seq, body : Bodies] \cup {NoReceipt}]

(***************************************************************************)
(* "Monotonic sequence numbers (no gaps...)": no two receipts that are     *)
(* stored or on their way carry the same number, and every number given    *)
(* out belongs to a receipt that is on its way, is stored, or was          *)
(* overwritten when the ring was full.                                     *)
(***************************************************************************)
NoGap ==
  LET stored == {Query[i].seq : i \in 1 .. count}
      held == {hand[w].seq : w \in Holding}
  IN  /\ stored \cap held = {}
      /\ Cardinality(held) = Cardinality(Holding)
      /\ Cardinality(stored) = count
      /\ count < Size => stored \cup held = 1 .. seq
      /\ stored \cup held \subseteq 1 .. seq

(***************************************************************************)
(* /admin/ledger without a filter shows the end of what a full query       *)
(* shows: the two walks over the ring agree about where it begins.         *)
(***************************************************************************)
RecentAgreesWithQuery ==
  \A n \in 0 .. Size + 1 :
    LET r == Recent(n) IN
      /\ Len(r) = IF n \in 1 .. count THEN n ELSE count
      /\ \A i \in 1 .. Len(r) : r[i] = Query[count - Len(r) + i]

Log == INSTANCE RecentLog WITH window <- Query

(***************************************************************************)
(* The ring is a log of the latest Size receipts: appends add to its end,  *)
(* drop from its front when it is full, and change nothing between.        *)
(***************************************************************************)
ImplementsRecentLog == Log!Spec
===============================================================================

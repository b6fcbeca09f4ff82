------------------------------- MODULE RecentLog -------------------------------
(***************************************************************************)
(* What a reader of the gateway's receipt ledger is promised, whoever      *)
(* appends and however the entries are laid out in memory: a log of which  *)
(* the latest Size receipts can be read, to which receipts are added one   *)
(* at a time and never changed, no two of them with the same number.  The  *)
(* log is lost when the process ends.                                      *)
(*                                                                         *)
(* Ledger implements this specification with a ring.                       *)
(***************************************************************************)
EXTENDS Naturals, Sequences

CONSTANTS
  Size,   \* receipts that can be read
  Bodies  \* what a receipt says besides its number

VARIABLE window  \* the receipts that can be read, oldest first

Numbers == {window[i].seq : i \in 1 .. Len(window)}

Latest(log) == IF Len(log) > Size THEN Tail(log) ELSE log

Init == window = <<>>

\* One receipt is added: the last one of the new window.
Extend ==
  /\ window' # <<>>
  /\ LET r == window'[Len(window')] IN
       /\ r.seq \in Nat \ ({0} \cup Numbers)
       /\ r.body \in Bodies
       /\ window' = Latest(Append(window, r))

Lose == window' = <<>>

Spec == Init /\ [][Extend \/ Lose]_window
===============================================================================

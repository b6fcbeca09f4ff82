------------------------------- MODULE LedgerFile -------------------------------
(***************************************************************************)
(* The persistent half of the receipt ledger: an NDJSON file whose lines   *)
(* carry the hash of the line before (services/gateway/middleware/         *)
(* receipt_persist.go), with rotation, failing file operations, crashes    *)
(* and restarts.  WriteEntry holds the file's mutex from start to end; its *)
(* rotation and its write are two steps, since the process may die between *)
(* them.                                                                   *)
(*                                                                         *)
(* A line is [good, ended, hash, prev]: whether it parses, whether its     *)
(* newline is there, its hash and the prev_hash it carries.  Hashes are    *)
(* numbers, a new one for every new text; 0 is the genesis hash.  The size *)
(* of a file is counted in lines.                                          *)
(***************************************************************************)
EXTENDS Integers, Sequences, FiniteSets

CONSTANTS
  MaxFileSize,  \* ledgerMaxFileSize, in lines
  MaxTexts      \* bound: texts written in a behaviour

ASSUME LedgerFileAssumption ==
  /\ MaxFileSize \in Nat \ {0}
  /\ MaxTexts \in Nat

VARIABLES
  current,   \* the file at LedgerFile.path, a sequence of lines
  rotated,   \* the files it was renamed to, oldest first
  handle,    \* LedgerFile.file: "open"; "closed", when writes on it fail; or
             \* "none", when the process could not open the file and does without
  rotating,  \* whether WriteEntry is between its rotation and its write
  prevHash,  \* LedgerFile.prevHash
  size,      \* LedgerFile.size
  texts,     \* hashes given out so far
  acked,     \* history: for every file, rotated or current, the hashes of the lines
             \* whose WriteEntry succeeded
  torn,      \* history: how many writes left a piece of a line
  gap        \* history: whether the file was reopened while empty

vars == <<current, rotated, handle, rotating, prevHash, size, texts,
          acked, torn, gap>>

Genesis == 0

Init ==
  /\ current = <<>>
  /\ rotated = <<>>
  /\ handle = "open"
  /\ rotating = FALSE
  /\ prevHash = Genesis
  /\ size = 0
  /\ texts = 0
  /\ acked = <<<<>>>>
  /\ torn = 0
  /\ gap = FALSE

-------------------------------------------------------------------------------
(***************************************************************************)
(* Lines and files                                                         *)
(***************************************************************************)
\* Texts appended to an unterminated line make one line with it, and no JSON.
Appended(file, line) ==
  IF file # <<>> /\ ~file[Len(file)].ended
  THEN [file EXCEPT ![Len(file)] = [good |-> FALSE, ended |-> line.ended,
                                    hash |-> texts + 2, prev |-> Genesis]]
  ELSE Append(file, line)

Line(prev) == [good |-> TRUE, ended |-> TRUE, hash |-> texts + 1, prev |-> prev]

\* What a write that fails half way, or a crash in it, can leave: a piece of the
\* line, or all of it but the newline.
Pieces(prev) == {[Line(prev) EXCEPT !.good = FALSE, !.ended = FALSE],
                 [Line(prev) EXCEPT !.ended = FALSE]}

\* Mutant of LastHash: recovery finds nothing to continue.
LastHashGenesis(file) == Genesis

\* readLastHash
LastHash(file) == IF file = <<>> THEN Genesis ELSE file[Len(file)].hash

Linked(file, i) == file[i].good /\ (i > 1 => file[i].prev = file[i - 1].hash)

\* VerifyLedgerFile: the lines it gets past, from the hash of the first on.
Chained(file) == {n \in 1 .. Len(file) : \A i \in 1 .. n : Linked(file, i)}

\* VerifyLedgerFile: the lines it counts.  It expects the genesis hash in the first.
Verified(file) == {n \in Chained(file) : file[1].prev = Genesis}

-------------------------------------------------------------------------------
(***************************************************************************)
(* WriteEntry: the rotation                                                *)
(***************************************************************************)
Full == handle # "none" /\ ~rotating /\ size >= MaxFileSize

\* Mutant of Rotate: the new file inherits the old one's size.
RotateKeepsSize ==
  /\ Full
  /\ handle = "open"
  /\ rotated' = Append(rotated, current)
  /\ current' = <<>>
  /\ rotating' = TRUE
  /\ acked' = Append(acked, <<>>)
  /\ UNCHANGED <<handle, prevHash, size, texts, torn, gap>>

\* Mutant of Rotate: every rotation uses the same name.
RotateOverwrites ==
  /\ Full
  /\ handle = "open"
  /\ rotated' = <<current>>
  /\ current' = <<>>
  /\ size' = 0
  /\ rotating' = TRUE
  /\ acked' = Append(acked, <<>>)
  /\ UNCHANGED <<handle, prevHash, texts, torn, gap>>

Rotate ==
  /\ Full
  /\ handle = "open"
  /\ rotated' = Append(rotated, current)
  /\ current' = <<>>
  /\ size' = 0
  /\ rotating' = TRUE
  /\ acked' = Append(acked, <<>>)
  /\ UNCHANGED <<handle, prevHash, texts, torn, gap>>

(***************************************************************************)
(* Closing the file fails, as it must once the handle is closed; renaming  *)
(* it fails, and it is opened again, or not; it is renamed, and the new    *)
(* file cannot be opened.  The error is logged and the write is tried.     *)
(***************************************************************************)
RotationFails ==
  /\ Full
  /\ \/ handle' = "closed" /\ UNCHANGED <<current, rotated, acked>>
     \/ handle = "open" /\ UNCHANGED <<current, rotated, handle, acked>>
     \/ /\ handle = "open"
        /\ rotated' = Append(rotated, current)
        /\ current' = <<>>
        /\ handle' = "closed"
        /\ acked' = Append(acked, <<>>)
  /\ rotating' = TRUE
  /\ UNCHANGED <<prevHash, size, texts, torn, gap>>

-------------------------------------------------------------------------------
(***************************************************************************)
(* WriteEntry: the write                                                   *)
(***************************************************************************)
Writes == handle # "none" /\ (rotating \/ size < MaxFileSize)

Write ==
  /\ Writes
  /\ handle = "open"
  /\ texts + 2 <= MaxTexts
  /\ current' = Appended(current, Line(prevHash))
  /\ prevHash' = texts + 1
  /\ size' = size + 1
  /\ texts' = texts + 2
  /\ acked' = [acked EXCEPT ![Len(acked)] = Append(@, texts + 1)]
  /\ rotating' = FALSE
  /\ UNCHANGED <<rotated, handle, torn, gap>>

\* Mutant of WriteFails: the hash moves on although nothing was written.
WriteFailsAdvances ==
  /\ Writes
  /\ texts + 2 <= MaxTexts
  /\ prevHash' = texts + 1
  /\ texts' = texts + 2
  /\ rotating' = FALSE
  /\ UNCHANGED <<current, rotated, handle, size, acked, torn, gap>>

WriteFails ==
  /\ Writes
  /\ rotating' = FALSE
  /\ UNCHANGED <<current, rotated, handle, prevHash, size, texts, acked, torn, gap>>

\* A piece of the line stays behind.
WriteTears ==
  /\ Writes
  /\ handle = "open"
  /\ texts + 2 <= MaxTexts
  /\ \E piece \in Pieces(prevHash) : current' = Appended(current, piece)
  /\ texts' = texts + 2
  /\ torn' = torn + 1
  /\ rotating' = FALSE
  /\ UNCHANGED <<rotated, handle, prevHash, size, acked, gap>>

-------------------------------------------------------------------------------
(***************************************************************************)
(* The process ends and OpenLedgerFile runs in the next one.  The file is  *)
(* as the last write left it, torn if that was the moment.                 *)
(***************************************************************************)
Restart ==
  /\ \/ UNCHANGED <<current, texts, torn>>
     \/ /\ Writes /\ handle = "open"
        /\ texts + 2 <= MaxTexts
        /\ \E piece \in Pieces(prevHash) : current' = Appended(current, piece)
        /\ texts' = texts + 2
        /\ torn' = torn + 1
  /\ prevHash' = LastHash(current')
  /\ size' = Len(current')
  /\ handle' \in {"open", "none"}
  /\ rotating' = FALSE
  /\ gap' = (gap \/ (handle' = "open" /\ current' = <<>> /\ rotated # <<>>))
  /\ UNCHANGED <<rotated, acked>>

Next ==
  \/ Rotate \/ RotationFails
  \/ Write \/ WriteFails \/ WriteTears
  \/ Restart

Spec == Init /\ [][Next]_vars

-------------------------------------------------------------------------------
Lines == [good : BOOLEAN, ended : BOOLEAN, hash : 1 .. MaxTexts, prev : 0 .. MaxTexts]

(***************************************************************************)
(* Types of the files and of the writer's state; only the last line of a   *)
(* file can lack its newline, so that a torn write damages no line but its *)
(* own and the next one; while no write was torn, the size that decides on *)
(* the rotation is the size of the file being written.                     *)
(***************************************************************************)
TypeOK ==
  /\ current \in Seq(Lines)
  /\ rotated \in Seq(Seq(Lines))
  /\ \A i \in 1 .. Len(current) - 1 : current[i].ended
  /\ handle \in {"open", "closed", "none"}
  /\ rotating \in BOOLEAN
  /\ prevHash \in 0 .. MaxTexts
  /\ size \in Nat
  /\ torn = 0 /\ handle = "open" => size = Len(current)
  /\ texts \in 0 .. MaxTexts
  /\ acked \in Seq(Seq(1 .. MaxTexts))
  /\ torn \in Nat
  /\ gap \in BOOLEAN

Files == Append(rotated, current)

\* A file holds exactly these entries.
Holds(file, hashes) ==
  /\ Len(file) = Len(hashes)
  /\ \A i \in 1 .. Len(file) : file[i].good /\ file[i].hash = hashes[i]

(***************************************************************************)
(* As long as no write was torn, the files hold exactly the entries whose  *)
(* WriteEntry succeeded, in that order, every one linked to the one before *)
(* it: across failed writes, failed rotations, and restarts.  Across files *)
(* too ("creating continuity across rotations"), none of which is empty,   *)
(* unless a restart found a file that a rotation had left empty.           *)
(***************************************************************************)
IntactChain ==
  torn = 0 =>
    /\ Len(acked) = Len(Files)
    /\ \A k \in 1 .. Len(Files) : Holds(Files[k], acked[k])
    /\ \A k \in 1 .. Len(Files) : \A i \in 1 .. Len(Files[k]) : Linked(Files[k], i)
    /\ \A k \in 1 .. Len(rotated) : rotated[k] # <<>>
    /\ ~gap => \A k \in 1 .. Len(Files) :
                 Files[k] # <<>> =>
                   Files[k][1].prev = IF k = 1 THEN Genesis ELSE LastHash(Files[k - 1])

\* The lines, numbered by file, that are not linked to the line before.
Broken(files) ==
  UNION {{<<k, i>> : i \in {j \in 1 .. Len(files[k]) : ~Linked(files[k], j)}} :
         k \in 1 .. Len(files)}

(***************************************************************************)
(* A torn write, by a full disk or a crash, breaks the chain at its own    *)
(* line and at the one after it at most: the chain recovers by itself.     *)
(***************************************************************************)
DamageIsLocal == Cardinality(Broken(Files)) <= 2 * torn

\* Their newline is there.
Sealed(lines, file) == {n \in lines : file[n].ended}

(***************************************************************************)
(* What VerifyLedgerFile has once accepted, newline included, it accepts   *)
(* as long as the file exists, and rotated files never change: no failure  *)
(* or restart reaches back into verified history.  The same of the chain   *)
(* of a file that continues the hash of another.                           *)
(***************************************************************************)
VerifiedStaysVerified ==
  [][IF rotated' = rotated
     THEN /\ Sealed(Verified(current), current) \subseteq Verified(current')
          /\ Sealed(Chained(current), current) \subseteq Chained(current')
          /\ \A n \in Sealed(Chained(current), current) : current'[n] = current[n]
     ELSE rotated' = Append(rotated, current)]_vars
===============================================================================

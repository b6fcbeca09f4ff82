---------------------------- MODULE LedgerFileProofs ----------------------------
(***************************************************************************)
(* Proofs about LedgerFile, for any size of a file and any number of       *)
(* texts: the types; that the chain is intact while no write was torn;     *)
(* that a torn write breaks it in two places at most; and that verified    *)
(* history stays.                                                          *)
(*                                                                         *)
(* A torn write may break a line that comes later.  So the invariant       *)
(* counts, besides the breaks there are, those that are Due.               *)
(***************************************************************************)
EXTENDS LedgerFile, SequenceTheorems, FiniteSetTheorems, TLAPS

Torn(file) == file # <<>> /\ ~file[Len(file)].ended

(***************************************************************************)
(* Breaks that the next lines will make whatever they are: an unterminated *)
(* line will be merged with the next one, which breaks it unless it is     *)
(* broken, and the line after that carries the hash of a line that is not  *)
(* there, as does the next line if hash is not that of the last one.       *)
(***************************************************************************)
Due(file, hash) ==
  CASE Torn(file) /\ Linked(file, Len(file))  -> 2
    [] Torn(file) /\ ~Linked(file, Len(file)) -> 1
    [] ~Torn(file) -> IF file # <<>> /\ LastHash(file) # hash THEN 1 ELSE 0

\* At most so many breaks, those that are due included.
Limited(files, file, hash, n) ==
  IsFiniteSet(Broken(files)) /\ Cardinality(Broken(files)) + Due(file, hash) <= n

Damage == Limited(Files, current, prevHash, 2 * torn)

\* The hash that the first line of the k-th of the files continues.
Previous(files, k) == IF k = 1 THEN Genesis ELSE LastHash(files[k - 1])

\* Every file holds what was acknowledged, and none is empty but the current one.
Kept ==
  /\ \A k \in 1 .. Len(rotated) : rotated[k] # <<>> /\ Holds(rotated[k], acked[k])
  /\ Holds(current, acked[Len(acked)])

\* Every file continues the one before, and the current one will.
Continues(files) ==
  \A k \in 1 .. Len(files) : files[k] # <<>> => files[k][1].prev = Previous(files, k)

Continued ==
  /\ Continues(Files)
  /\ handle # "none" /\ current = <<>> => prevHash = Previous(Files, Len(Files))

IInv ==
  /\ TypeOK
  /\ Len(acked) = Len(rotated) + 1
  /\ Damage
  /\ torn = 0 => Kept
  /\ torn = 0 /\ ~gap => Continued

--------------------------------------------------------------------------------
(***************************************************************************)
(* Lines and files.                                                        *)
(***************************************************************************)
LEMMA LineType ==
  ASSUME texts \in 0 .. MaxTexts, texts + 2 <= MaxTexts, NEW p \in 0 .. MaxTexts
  PROVE  Line(p) \in Lines /\ Pieces(p) \subseteq Lines
<1>1. texts + 1 \in 1 .. MaxTexts
  BY LedgerFileAssumption
<1>2. Line(p) \in Lines
  BY <1>1 DEF Line, Lines
<1>3. Pieces(p) \subseteq Lines
  BY <1>1 DEF Pieces, Line, Lines
<1>4. QED
  BY <1>2, <1>3

LEMMA PieceIs ==
  ASSUME NEW p, NEW piece \in Pieces(p)
  PROVE  ~piece.ended /\ piece.hash = texts + 1 /\ piece.prev = p
BY DEF Pieces, Line

LEMMA AppendLines ==
  ASSUME NEW S, NEW s \in Seq(S), NEW x \in S
  PROVE  /\ Append(s, x) \in Seq(S)
         /\ Len(Append(s, x)) = Len(s) + 1
         /\ Len(s) \in Nat
         /\ \A i \in 1 .. Len(s) : Append(s, x)[i] = s[i]
         /\ Append(s, x)[Len(s) + 1] = x
OBVIOUS

LEMMA NonEmpty ==
  ASSUME NEW S, NEW s \in Seq(S)
  PROVE  s # <<>> <=> Len(s) \in 1 .. Len(s)
OBVIOUS

\* A file after a write: the line is its last, or has merged into its last.
Grown(file, line, m) ==
  /\ m \in Seq(Lines) /\ m # <<>>
  /\ \A i \in 1 .. Len(m) - 1 : i \in 1 .. Len(file) /\ m[i] = file[i] /\ m[i].ended
  /\ ~Torn(file) => Len(m) = Len(file) + 1 /\ m[Len(m)] = line
  /\ Torn(file) => /\ Len(m) = Len(file) /\ ~m[Len(m)].good
                   /\ m[Len(m)].ended = line.ended /\ m[Len(m)].hash = texts + 2

LEMMA AppendedGrows ==
  ASSUME current \in Seq(Lines), \A i \in 1 .. Len(current) - 1 : current[i].ended,
         texts \in 0 .. MaxTexts, texts + 2 <= MaxTexts, NEW line \in Lines
  PROVE  Grown(current, line, Appended(current, line))
<1> DEFINE n == Len(current)
           m == Appended(current, line)
<1>1. n \in Nat
  OBVIOUS
<1>2. CASE Torn(current)
  <2> DEFINE merged == [good |-> FALSE, ended |-> line.ended, hash |-> texts + 2,
                        prev |-> Genesis]
  <2>1. m = [current EXCEPT ![n] = merged]
    BY <1>2 DEF Torn, Appended
  <2>2. n \in 1 .. n
    BY <1>2, NonEmpty DEF Torn
  <2>3. texts + 2 \in 1 .. MaxTexts /\ Genesis \in 0 .. MaxTexts /\ line.ended \in BOOLEAN
    BY LedgerFileAssumption DEF Genesis, Lines
  <2>4. merged \in Lines
    BY <2>3 DEF Lines
  <2> HIDE DEF merged, m
  <2>5. /\ m \in Seq(Lines) /\ Len(m) = n
        /\ \A j \in 1 .. n : m[j] = IF j = n THEN merged ELSE current[j]
    BY <2>1, <2>2, <2>4, ExceptSeq
  <2>6. m # <<>>
    BY <2>2, <2>5
  <2>7. \A i \in 1 .. Len(m) - 1 : i \in 1 .. n /\ m[i] = current[i] /\ m[i].ended
    BY <1>1, <2>5
  <2>8. m[Len(m)] = merged
    BY <2>2, <2>5
  <2>9. QED
    BY <1>2, <2>5, <2>6, <2>7, <2>8 DEF Grown, merged, m
<1>3. CASE ~Torn(current)
  <2>1. m = Append(current, line)
    BY <1>3 DEF Torn, Appended
  <2> HIDE DEF m
  <2>2. /\ m \in Seq(Lines) /\ Len(m) = n + 1
        /\ \A i \in 1 .. n : m[i] = current[i]
        /\ m[n + 1] = line
    BY <2>1, AppendLines
  <2>3. m # <<>>
    BY <1>1, <2>2
  <2>4. \A i \in 1 .. n : current[i].ended
    <3>1. n \in 1 .. n => current[n].ended
      BY <1>3, NonEmpty DEF Torn
    <3>2. \A i \in 1 .. n : i = n \/ i \in 1 .. n - 1
      BY <1>1
    <3>3. QED
      BY <3>1, <3>2
  <2>5. \A i \in 1 .. Len(m) - 1 : i \in 1 .. n
    BY <1>1, <2>2
  <2>6. QED
    BY <1>3, <2>2, <2>3, <2>4, <2>5 DEF Grown, m
<1>4. QED
  BY <1>2, <1>3

LEMMA LinkedLine ==
  ASSUME NEW file \in Seq(Lines), NEW i \in 1 .. Len(file)
  PROVE  /\ i = 1 => (Linked(file, i) <=> file[i].good)
         /\ i > 1 => i - 1 \in 1 .. Len(file)
         /\ i > 1 => (Linked(file, i) <=> file[i].good /\ file[i].prev = file[i - 1].hash)
BY DEF Linked

\* What lies before the last line is as before.
LEMMA LinkedBefore ==
  ASSUME NEW file \in Seq(Lines), NEW line, NEW m, Grown(file, line, m),
         NEW i \in 1 .. Len(m) - 1
  PROVE  i \in 1 .. Len(file) /\ (Linked(m, i) <=> Linked(file, i))
<1>1. i \in 1 .. Len(file) /\ m[i] = file[i]
  BY DEF Grown
<1>2. i > 1 => m[i - 1] = file[i - 1]
  <2>1. i > 1 => i - 1 \in 1 .. Len(m) - 1
    BY DEF Grown
  <2>2. QED
    BY <2>1 DEF Grown
<1>3. QED
  BY <1>1, <1>2 DEF Linked

--------------------------------------------------------------------------------
(***************************************************************************)
(* Counting breaks.                                                        *)
(***************************************************************************)
LEMMA BrokenIs ==
  ASSUME NEW files
  PROVE  /\ \A x \in Broken(files) : \E k \in 1 .. Len(files) : \E i \in 1 .. Len(files[k]) :
                                       x = <<k, i>> /\ ~Linked(files[k], i)
         /\ \A k \in 1 .. Len(files) : \A i \in 1 .. Len(files[k]) :
              <<k, i>> \in Broken(files) <=> ~Linked(files[k], i)
BY DEF Broken

LEMMA AddOne ==
  ASSUME NEW S, IsFiniteSet(S), NEW x, NEW T, T \subseteq S \cup {x}
  PROVE  /\ IsFiniteSet(T) /\ Cardinality(T) \in Nat /\ Cardinality(S) \in Nat
         /\ Cardinality(T) <= Cardinality(S) + 1
         /\ x \in S \/ x \notin T => Cardinality(T) <= Cardinality(S)
<1>1. /\ IsFiniteSet(S \cup {x})
      /\ Cardinality(S \cup {x}) = IF x \in S THEN Cardinality(S) ELSE Cardinality(S) + 1
  BY FS_AddElement
<1>2. IsFiniteSet(T) /\ Cardinality(T) <= Cardinality(S \cup {x})
  BY <1>1, FS_Subset
<1>3. x \notin T => Cardinality(T) <= Cardinality(S)
  <2>1. x \notin T => T \subseteq S
    OBVIOUS
  <2>2. QED
    BY <2>1, FS_Subset
<1>4. Cardinality(S) \in Nat /\ Cardinality(T) \in Nat
  BY <1>2, FS_CardinalityType
<1>5. QED
  BY <1>1, <1>2, <1>3, <1>4

LEMMA DueCases ==
  ASSUME NEW file, NEW hash
  PROVE  /\ Due(file, hash) \in 0 .. 2
         /\ Torn(file) => Due(file, hash) = IF Linked(file, Len(file)) THEN 2 ELSE 1
         /\ ~Torn(file) => Due(file, hash) = IF file # <<>> /\ LastHash(file) # hash THEN 1 ELSE 0
<1>1. CASE Torn(file)
  BY <1>1 DEF Due
<1>2. CASE ~Torn(file)
  BY <1>2 DEF Due
<1>3. QED
  BY <1>1, <1>2

LEMMA GrownFiles ==
  ASSUME NEW rot \in Seq(Seq(Lines)), NEW file \in Seq(Lines), NEW line, NEW m,
         Grown(file, line, m)
  PROVE  LET x   == <<Len(rot) + 1, Len(m)>>
             old == Broken(Append(rot, file))
             new == Broken(Append(rot, m))
         IN  /\ new \subseteq old \cup {x}
             /\ x \in new <=> ~Linked(m, Len(m))
             /\ Torn(file) => (x \in old <=> ~Linked(file, Len(file)))
<1> DEFINE K == Len(rot) + 1
           F == Append(rot, file)
           G == Append(rot, m)
<1>1. m \in Seq(Lines) /\ m # <<>>
  BY DEF Grown
<1>2. /\ Len(F) = K /\ Len(G) = K /\ K \in 1 .. K /\ F[K] = file /\ G[K] = m
      /\ \A k \in 1 .. K : k = K \/ F[k] = G[k]
  <2>1. Len(rot) \in Nat
    OBVIOUS
  <2>2. \A k \in 1 .. K : k = K \/ k \in 1 .. Len(rot)
    BY <2>1
  <2>3. /\ Len(F) = Len(rot) + 1 /\ \A i \in 1 .. Len(rot) : F[i] = rot[i]
        /\ F[Len(rot) + 1] = file
    BY AppendLines
  <2>4. /\ Len(G) = Len(rot) + 1 /\ \A i \in 1 .. Len(rot) : G[i] = rot[i]
        /\ G[Len(rot) + 1] = m
    BY <1>1, AppendLines
  <2>5. QED
    BY <2>1, <2>2, <2>3, <2>4
<1> HIDE DEF F, G, K
<1>3. Len(m) \in 1 .. Len(m)
  BY <1>1, NonEmpty
<1>4. ASSUME NEW y \in Broken(G), y # <<K, Len(m)>> PROVE y \in Broken(F)
  <2>1. PICK k \in 1 .. K : \E i \in 1 .. Len(G[k]) : y = <<k, i>> /\ ~Linked(G[k], i)
    BY <1>2, <1>4, BrokenIs
  <2>2. PICK i \in 1 .. Len(G[k]) : y = <<k, i>> /\ ~Linked(G[k], i)
    BY <2>1
  <2>3. CASE k = K
    <3>1. i \in 1 .. Len(m) - 1
      BY <1>2, <1>3, <1>4, <2>2, <2>3
    <3>2. i \in 1 .. Len(file) /\ ~Linked(file, i)
      BY <1>2, <2>2, <2>3, <3>1, LinkedBefore
    <3>3. QED
      BY <1>2, <2>2, <2>3, <3>2, BrokenIs
  <2>4. CASE k # K
    BY <1>2, <2>2, <2>4, BrokenIs
  <2>5. QED
    BY <2>3, <2>4
<1>5. <<K, Len(m)>> \in Broken(G) <=> ~Linked(m, Len(m))
  BY <1>2, <1>3, BrokenIs
<1>6. Torn(file) => (<<K, Len(m)>> \in Broken(F) <=> ~Linked(file, Len(file)))
  <2>1. Torn(file) => Len(m) = Len(file)
    BY DEF Grown
  <2>2. QED
    BY <1>2, <1>3, <2>1, BrokenIs
<1>7. QED
  BY <1>4, <1>5, <1>6 DEF F, G, K

\* A line that is written whole pays for itself.
LEMMA WriteLimited ==
  ASSUME NEW rot \in Seq(Seq(Lines)), NEW file \in Seq(Lines), NEW m, NEW hash, NEW n \in Nat,
         NEW line, line.good, line.ended, line.prev = hash, line.hash # texts + 2,
         Grown(file, line, m), Limited(Append(rot, file), file, hash, n)
  PROVE  Limited(Append(rot, m), m, line.hash, n)
<1> DEFINE x == <<Len(rot) + 1, Len(m)>>
           old == Broken(Append(rot, file))
           new == Broken(Append(rot, m))
<1>1. /\ new \subseteq old \cup {x}
      /\ x \in new <=> ~Linked(m, Len(m))
      /\ Torn(file) => (x \in old <=> ~Linked(file, Len(file)))
  BY GrownFiles
<1> HIDE DEF x
<1>2. IsFiniteSet(old)
  BY DEF Limited
<1>3. /\ IsFiniteSet(new) /\ Cardinality(new) \in Nat /\ Cardinality(old) \in Nat
      /\ Cardinality(new) <= Cardinality(old) + 1
      /\ x \in old \/ x \notin new => Cardinality(new) <= Cardinality(old)
  BY <1>1, <1>2, AddOne
<1>4. Cardinality(old) + Due(file, hash) <= n
  BY DEF Limited
<1> HIDE DEF old, new
<1>5. m \in Seq(Lines) /\ Len(m) \in 1 .. Len(m) /\ ~Torn(m)
  <2>1. m \in Seq(Lines) /\ m # <<>>
    BY DEF Grown
  <2>2. m[Len(m)].ended
    BY DEF Grown
  <2>3. QED
    BY <2>1, <2>2, NonEmpty DEF Torn
<1>6. Due(m, line.hash) = IF LastHash(m) # line.hash THEN 1 ELSE 0
  BY <1>5, DueCases DEF Grown
<1>7. LastHash(m) = m[Len(m)].hash
  BY DEF LastHash, Grown
<1>8. CASE Torn(file)
  <2>1. Due(m, line.hash) = 1
    BY <1>6, <1>7, <1>8 DEF Grown
  <2>2. Due(file, hash) = IF Linked(file, Len(file)) THEN 2 ELSE 1
    BY <1>8, DueCases
  <2>3. Cardinality(new) + 1 <= Cardinality(old) + Due(file, hash)
    <3>1. CASE Linked(file, Len(file))
      BY <1>3, <2>2, <3>1
    <3>2. CASE ~Linked(file, Len(file))
      BY <1>1, <1>3, <1>8, <2>2, <3>2
    <3>3. QED
      BY <3>1, <3>2
  <2>4. Due(file, hash) \in Nat
    BY <2>2
  <2>5. QED
    BY <1>3, <1>4, <2>1, <2>3, <2>4 DEF Limited, new
<1>9. CASE ~Torn(file)
  <2>1. Len(m) = Len(file) + 1 /\ m[Len(m)] = line
    BY <1>9 DEF Grown
  <2>2. Due(m, line.hash) = 0
    BY <1>6, <1>7, <2>1
  <2>3. Due(file, hash) = IF file # <<>> /\ LastHash(file) # hash THEN 1 ELSE 0
    BY <1>9, DueCases
  <2>4. file = <<>> \/ LastHash(file) = hash => Linked(m, Len(m))
    <3>1. Len(m) > 1 => Len(m) - 1 \in 1 .. Len(m) - 1
      BY <1>5
    <3>2. Len(m) > 1 => m[Len(m) - 1] = file[Len(file)] /\ file # <<>>
      BY <2>1, <3>1 DEF Grown
    <3>3. Len(m) > 1 => m[Len(m) - 1].hash = LastHash(file)
      BY <3>2 DEF LastHash
    <3>4. file = <<>> => Len(m) = 1
      BY <2>1
    <3>5. QED
      BY <2>1, <3>2, <3>3, <3>4 DEF Linked
  <2>5. Cardinality(new) <= Cardinality(old) + Due(file, hash)
    BY <1>1, <1>3, <2>3, <2>4
  <2>6. Due(file, hash) \in Nat
    BY <2>3
  <2>7. QED
    BY <1>3, <1>4, <2>2, <2>5, <2>6 DEF Limited, new
<1>10. QED
  BY <1>8, <1>9

\* A line that is torn costs two breaks.
LEMMA TearLimited ==
  ASSUME NEW rot \in Seq(Seq(Lines)), NEW file \in Seq(Lines), NEW m, NEW hash, NEW n \in Nat,
         NEW line, ~line.ended, NEW next,
         Grown(file, line, m), Limited(Append(rot, file), file, hash, n)
  PROVE  Limited(Append(rot, m), m, next, n + 2)
<1> DEFINE x == <<Len(rot) + 1, Len(m)>>
           old == Broken(Append(rot, file))
           new == Broken(Append(rot, m))
<1>1. /\ new \subseteq old \cup {x}
      /\ x \in new <=> ~Linked(m, Len(m))
  BY GrownFiles
<1> HIDE DEF x
<1>2. IsFiniteSet(old) /\ Cardinality(old) + Due(file, hash) <= n
  BY DEF Limited
<1>3. /\ IsFiniteSet(new) /\ Cardinality(new) \in Nat /\ Cardinality(old) \in Nat
      /\ Cardinality(new) <= Cardinality(old) + 1
      /\ x \in old \/ x \notin new => Cardinality(new) <= Cardinality(old)
  BY <1>1, <1>2, AddOne
<1> HIDE DEF old, new
<1>4. Torn(m)
  BY DEF Grown, Torn
<1>5. Due(m, next) = IF Linked(m, Len(m)) THEN 2 ELSE 1
  BY <1>4, DueCases
<1>6. Cardinality(new) + Due(m, next) <= Cardinality(old) + 2
  BY <1>1, <1>3, <1>5
<1>7. Due(file, hash) \in 0 .. 2 /\ Due(m, next) \in 0 .. 2
  BY DueCases
<1>8. QED
  BY <1>2, <1>3, <1>6, <1>7 DEF Limited, new

\* Rotation leaves every break where it is, and what was due is not any more.
LEMMA RotateLimited ==
  ASSUME NEW rot \in Seq(Seq(Lines)), NEW file \in Seq(Lines), NEW hash, NEW n \in Nat,
         Limited(Append(rot, file), file, hash, n)
  PROVE  Limited(Append(Append(rot, file), <<>>), <<>>, hash, n)
<1> DEFINE F == Append(rot, file)
           G == Append(F, <<>>)
<1>1. F \in Seq(Seq(Lines))
  BY AppendLines
<1>2. /\ Len(G) = Len(F) + 1 /\ Len(F) \in Nat /\ G[Len(F) + 1] = <<>>
      /\ \A k \in 1 .. Len(F) : G[k] = F[k]
  <2>1. <<>> \in Seq(Lines)
    OBVIOUS
  <2>2. QED
    BY <1>1, <2>1, AppendLines
<1>3. IsFiniteSet(Broken(F)) /\ Cardinality(Broken(F)) + Due(file, hash) <= n
  BY DEF Limited
<1> HIDE DEF F, G
<1>4. Broken(G) \subseteq Broken(F)
  <2> SUFFICES ASSUME NEW y \in Broken(G) PROVE y \in Broken(F)
    OBVIOUS
  <2>1. PICK k \in 1 .. Len(G) : \E i \in 1 .. Len(G[k]) : y = <<k, i>> /\ ~Linked(G[k], i)
    BY BrokenIs
  <2>2. PICK i \in 1 .. Len(G[k]) : y = <<k, i>> /\ ~Linked(G[k], i)
    BY <2>1
  <2>3. k # Len(F) + 1
    BY <1>2, <2>2
  <2>4. k \in 1 .. Len(F)
    BY <1>2, <2>3
  <2>5. QED
    BY <1>2, <2>2, <2>4, BrokenIs
<1>5. IsFiniteSet(Broken(G)) /\ Cardinality(Broken(G)) <= Cardinality(Broken(F))
  BY <1>3, <1>4, FS_Subset
<1>6. Due(<<>>, hash) = 0
  BY DueCases DEF Torn
<1>7. Cardinality(Broken(G)) \in Nat /\ Cardinality(Broken(F)) \in Nat /\ Due(file, hash) \in 0 .. 2
  BY <1>3, <1>5, FS_CardinalityType, DueCases
<1>8. QED
  BY <1>3, <1>5, <1>6, <1>7 DEF Limited, F, G

\* What is due is no more if the hash is read from the file again.
LEMMA RecoverLimited ==
  ASSUME NEW files, NEW file, NEW hash, NEW n \in Nat, Limited(files, file, hash, n)
  PROVE  Limited(files, file, LastHash(file), n)
<1>1. Due(file, LastHash(file)) <= Due(file, hash)
  BY DueCases
<1>2. Due(file, LastHash(file)) \in 0 .. 2 /\ Due(file, hash) \in 0 .. 2
  BY DueCases
<1>3. IsFiniteSet(Broken(files)) /\ Cardinality(Broken(files)) \in Nat
  BY FS_CardinalityType DEF Limited
<1>4. QED
  BY <1>1, <1>2, <1>3 DEF Limited

--------------------------------------------------------------------------------
(***************************************************************************)
(* The chain.                                                              *)
(***************************************************************************)
LEMMA FilesAre ==
  ASSUME NEW rot \in Seq(Seq(Lines)), NEW file \in Seq(Lines)
  PROVE  /\ Append(rot, file) \in Seq(Seq(Lines))
         /\ Len(rot) \in Nat
         /\ Len(Append(rot, file)) = Len(rot) + 1
         /\ Append(rot, file)[Len(rot) + 1] = file
         /\ \A k \in 1 .. Len(rot) : Append(rot, file)[k] = rot[k]
         /\ \A k \in 1 .. Len(rot) + 1 : k = Len(rot) + 1 \/ k \in 1 .. Len(rot)
<1>1. Len(rot) \in Nat
  OBVIOUS
<1>2. \A k \in 1 .. Len(rot) + 1 : k = Len(rot) + 1 \/ k \in 1 .. Len(rot)
  BY <1>1
<1>3. QED
  BY <1>1, <1>2, AppendLines

\* The hash that the k-th file continues does not depend on the files from there on.
LEMMA PreviousFiles ==
  ASSUME NEW rot \in Seq(Seq(Lines)), NEW f \in Seq(Lines), NEW g \in Seq(Lines),
         NEW k \in 1 .. Len(rot) + 1
  PROVE  Previous(Append(rot, f), k) = Previous(Append(rot, g), k)
<1>1. k # 1 => k - 1 \in 1 .. Len(rot)
  BY FilesAre
<1>2. QED
  BY <1>1, FilesAre DEF Previous

LEMMA Clean ==
  ASSUME IInv, torn = 0
  PROVE  /\ Broken(Files) = {}
         /\ ~Torn(current)
         /\ current # <<>> => prevHash = LastHash(current)
<1>1. IsFiniteSet(Broken(Files)) /\ Cardinality(Broken(Files)) + Due(current, prevHash) <= 0
  BY DEF IInv, Damage, Limited
<1>2. Cardinality(Broken(Files)) \in Nat /\ Due(current, prevHash) \in 0 .. 2
  BY <1>1, FS_CardinalityType, DueCases
<1>3. Cardinality(Broken(Files)) = 0 /\ Due(current, prevHash) = 0
  BY <1>1, <1>2
<1>4. Broken(Files) = {}
  BY <1>1, <1>3, FS_EmptySet
<1>5. ~Torn(current)
  BY <1>3, DueCases
<1>6. QED
  BY <1>3, <1>4, <1>5, DueCases

\* A file that grows as long as nothing was torn only gets longer.
LEMMA GrownClean ==
  ASSUME NEW file \in Seq(Lines), NEW line, NEW m, Grown(file, line, m), ~Torn(file)
  PROVE  /\ m \in Seq(Lines) /\ Len(file) \in Nat /\ Len(m) = Len(file) + 1
         /\ m[Len(file) + 1] = line
         /\ \A i \in 1 .. Len(file) : m[i] = file[i]
<1>1. m \in Seq(Lines) /\ Len(m) = Len(file) + 1 /\ m[Len(m)] = line
  BY DEF Grown
<1>2. \A i \in 1 .. Len(file) : i \in 1 .. Len(m) - 1
  BY <1>1
<1>3. QED
  BY <1>1, <1>2 DEF Grown

LEMMA ContinuesGrown ==
  ASSUME NEW rot \in Seq(Seq(Lines)), NEW file \in Seq(Lines), NEW line, NEW m,
         Grown(file, line, m), ~Torn(file), Continues(Append(rot, file)),
         file = <<>> => line.prev = Previous(Append(rot, file), Len(rot) + 1)
  PROVE  Continues(Append(rot, m))
<1> DEFINE F == Append(rot, file)
           G == Append(rot, m)
<1>1. /\ m \in Seq(Lines) /\ Len(file) \in Nat /\ Len(m) = Len(file) + 1
      /\ m[Len(file) + 1] = line
      /\ \A i \in 1 .. Len(file) : m[i] = file[i]
  BY GrownClean
<1>2. /\ Len(F) = Len(rot) + 1 /\ F[Len(rot) + 1] = file
      /\ \A k \in 1 .. Len(rot) : F[k] = rot[k]
  BY FilesAre
<1>3. /\ Len(G) = Len(rot) + 1 /\ G[Len(rot) + 1] = m
      /\ \A k \in 1 .. Len(rot) : G[k] = rot[k]
      /\ \A k \in 1 .. Len(rot) + 1 : k = Len(rot) + 1 \/ k \in 1 .. Len(rot)
      /\ Len(rot) \in Nat
  BY <1>1, FilesAre
<1>4. \A k \in 1 .. Len(rot) + 1 : Previous(F, k) = Previous(G, k)
  BY <1>1, PreviousFiles
<1>5. Continues(F)
  OBVIOUS
<1>6. file = <<>> => line.prev = Previous(F, Len(rot) + 1)
  OBVIOUS
<1> HIDE DEF F, G
<1> SUFFICES ASSUME NEW k \in 1 .. Len(rot) + 1, G[k] # <<>>
             PROVE  G[k][1].prev = Previous(G, k)
  BY <1>3 DEF Continues, G
<1>7. CASE k = Len(rot) + 1 /\ file = <<>>
  <2>1. m[1] = line
    BY <1>1, <1>7
  <2>2. QED
    BY <1>3, <1>4, <1>6, <1>7, <2>1
<1>8. CASE k = Len(rot) + 1 /\ file # <<>>
  <2>1. m[1] = file[1]
    BY <1>1, <1>8
  <2>2. file[1].prev = Previous(F, k)
    BY <1>2, <1>5, <1>8 DEF Continues
  <2>3. QED
    BY <1>3, <1>4, <1>8, <2>1, <2>2
<1>9. CASE k # Len(rot) + 1
  <2>1. k \in 1 .. Len(rot) /\ G[k] = F[k]
    BY <1>2, <1>3, <1>9
  <2>2. F[k][1].prev = Previous(F, k)
    BY <1>2, <1>5, <2>1 DEF Continues
  <2>3. QED
    BY <1>4, <2>1, <2>2
<1>10. QED
  BY <1>7, <1>8, <1>9

LEMMA ContinuesRotated ==
  ASSUME NEW rot \in Seq(Seq(Lines)), NEW file \in Seq(Lines), Continues(Append(rot, file))
  PROVE  LET files == Append(Append(rot, file), <<>>)
         IN  Continues(files) /\ Previous(files, Len(files)) = LastHash(file)
<1> DEFINE F == Append(rot, file)
           G == Append(F, <<>>)
<1>1. /\ F \in Seq(Seq(Lines)) /\ Len(F) = Len(rot) + 1 /\ F[Len(rot) + 1] = file
      /\ Len(rot) \in Nat
  BY FilesAre
<1>2. <<>> \in Seq(Lines)
  OBVIOUS
<1>3. Continues(F)
  OBVIOUS
<1> HIDE DEF F
<1>4. /\ Len(G) = Len(F) + 1 /\ G[Len(F) + 1] = <<>>
      /\ \A k \in 1 .. Len(F) : G[k] = F[k]
      /\ \A k \in 1 .. Len(F) + 1 : k = Len(F) + 1 \/ k \in 1 .. Len(F)
  BY <1>1, <1>2, FilesAre
<1> HIDE DEF G
<1>5. \A k \in 1 .. Len(F) : Previous(G, k) = Previous(F, k)
  <2> TAKE k \in 1 .. Len(F)
  <2>1. k # 1 => k - 1 \in 1 .. Len(F)
    BY <1>1
  <2>2. QED
    BY <1>4, <2>1 DEF Previous
<1>6. Continues(G)
  BY <1>3, <1>4, <1>5 DEF Continues
<1>7. Previous(G, Len(G)) = LastHash(file)
  <2>1. Len(G) # 1 /\ Len(G) - 1 = Len(F) /\ Len(F) \in 1 .. Len(F)
    BY <1>1, <1>4
  <2>2. QED
    BY <1>1, <1>4, <2>1 DEF Previous
<1>8. QED
  BY <1>6, <1>7 DEF F, G

LEMMA HoldsGrown ==
  ASSUME NEW file \in Seq(Lines), NEW line, NEW m, Grown(file, line, m), ~Torn(file),
         NEW S, NEW hashes \in Seq(S), line.hash \in S, line.good, Holds(file, hashes)
  PROVE  Holds(m, Append(hashes, line.hash))
<1>1. /\ Len(file) \in Nat /\ Len(m) = Len(file) + 1 /\ m[Len(file) + 1] = line
      /\ \A i \in 1 .. Len(file) : m[i] = file[i]
  BY GrownClean
<1>2. /\ Len(file) = Len(hashes)
      /\ \A i \in 1 .. Len(file) : file[i].good /\ file[i].hash = hashes[i]
  BY DEF Holds
<1>3. /\ Len(Append(hashes, line.hash)) = Len(file) + 1
      /\ \A i \in 1 .. Len(file) : Append(hashes, line.hash)[i] = hashes[i]
      /\ Append(hashes, line.hash)[Len(file) + 1] = line.hash
  BY <1>2, AppendLines
<1>4. \A i \in 1 .. Len(file) + 1 : i = Len(file) + 1 \/ i \in 1 .. Len(file)
  BY <1>1
<1>5. QED
  BY <1>1, <1>2, <1>3, <1>4 DEF Holds

--------------------------------------------------------------------------------
(***************************************************************************)
(* The invariant, step by step.                                            *)
(***************************************************************************)
LEMMA InitIInv == Init => IInv
<1> SUFFICES ASSUME Init PROVE IInv
  OBVIOUS
<1>1. /\ current = <<>> /\ rotated = <<>> /\ prevHash = Genesis /\ torn = 0 /\ Genesis = 0
      /\ acked = <<<<>>>> /\ Files = <<<<>>>>
  BY DEF Init, Files, Genesis
<1>2. TypeOK
  <2>1. 0 \in 0 .. MaxTexts
    BY LedgerFileAssumption
  <2>2. acked \in Seq(Seq(1 .. MaxTexts))
    BY <1>1
  <2>3. current \in Seq(Lines) /\ Len(current) = 0 /\ rotated \in Seq(Seq(Lines))
    BY <1>1
  <2>4. handle = "open" /\ rotating \in BOOLEAN /\ gap \in BOOLEAN
    BY DEF Init
  <2>5. size = 0 /\ texts = 0
    BY DEF Init
  <2>6. QED
    BY <1>1, <2>1, <2>2, <2>3, <2>4, <2>5 DEF TypeOK
<1>3. Len(acked) = Len(rotated) + 1
  BY <1>1
<1>4. Damage
  <2>1. Broken(<<<<>>>>) = {}
    BY DEF Broken
  <2>2. Due(<<>>, Genesis) = 0
    BY DueCases DEF Torn
  <2>3. QED
    BY <1>1, <2>1, <2>2, FS_EmptySet DEF Damage, Limited
<1>5. Kept
  BY <1>1 DEF Kept, Holds
<1>6. Continued
  BY <1>1 DEF Continued, Continues, Previous
<1>7. QED
  BY <1>2, <1>3, <1>4, <1>5, <1>6 DEF IInv

\* The file is renamed, and a new one takes its place or should.
LEMMA MovedIInv ==
  ASSUME IInv, Full, handle = "open", handle' # "none",
         rotated' = Append(rotated, current), current' = <<>>,
         acked' = Append(acked, <<>>), UNCHANGED <<prevHash, torn, gap>>, TypeOK'
  PROVE  IInv'
<1>1. /\ rotated \in Seq(Seq(Lines)) /\ current \in Seq(Lines)
      /\ acked \in Seq(Seq(1 .. MaxTexts)) /\ torn \in Nat
      /\ Len(acked) = Len(rotated) + 1
      /\ torn = 0 => size = Len(current)
  BY DEF IInv, TypeOK
<1>2. Files' = Append(Files, <<>>)
  BY DEF Files
<1>3. /\ Len(rotated) \in Nat /\ Len(rotated') = Len(rotated) + 1
      /\ rotated'[Len(rotated) + 1] = current
      /\ \A k \in 1 .. Len(rotated) : rotated'[k] = rotated[k]
      /\ \A k \in 1 .. Len(rotated') : k = Len(rotated) + 1 \/ k \in 1 .. Len(rotated)
  BY <1>1, FilesAre
<1>4. /\ Len(acked') = Len(acked) + 1 /\ acked'[Len(acked) + 1] = <<>>
      /\ \A k \in 1 .. Len(acked) : acked'[k] = acked[k]
  <2>1. <<>> \in Seq(1 .. MaxTexts)
    OBVIOUS
  <2>2. QED
    BY <1>1, <2>1, AppendLines
<1>5. Damage'
  <2>1. Limited(Append(rotated, current), current, prevHash, 2 * torn) /\ 2 * torn \in Nat
    BY <1>1 DEF IInv, Damage, Files
  <2>2. Limited(Append(Append(rotated, current), <<>>), <<>>, prevHash, 2 * torn)
    BY <1>1, <2>1, RotateLimited
  <2>3. QED
    BY <1>2, <2>2 DEF Damage, Files
<1>6. torn = 0 => current # <<>>
  BY <1>1, LedgerFileAssumption DEF Full
<1>7. ASSUME torn = 0 PROVE Kept'
  <2>1. Kept
    BY <1>7 DEF IInv
  <2>2. \A k \in 1 .. Len(rotated) : k \in 1 .. Len(acked)
    BY <1>1
  <2>3. Len(acked) \in 1 .. Len(acked)
    BY <1>1, <1>3
  <2>4. Holds(<<>>, <<>>)
    BY DEF Holds
  <2>5. \A k \in 1 .. Len(rotated') : rotated'[k] # <<>> /\ Holds(rotated'[k], acked'[k])
    <3> TAKE k \in 1 .. Len(rotated')
    <3>1. CASE k \in 1 .. Len(rotated)
      BY <1>3, <1>4, <2>1, <2>2, <3>1 DEF Kept
    <3>2. CASE k = Len(rotated) + 1
      BY <1>1, <1>3, <1>4, <1>6, <1>7, <2>1, <2>3, <3>2 DEF Kept
    <3>3. QED
      BY <1>3, <3>1, <3>2
  <2>6. QED
    BY <1>4, <2>4, <2>5 DEF Kept
<1>8. ASSUME torn = 0, ~gap PROVE Continued'
  <2>1. Continues(Append(rotated, current))
    BY <1>8 DEF IInv, Continued, Files
  <2>2. /\ Continues(Append(Files, <<>>))
        /\ Previous(Append(Files, <<>>), Len(Append(Files, <<>>))) = LastHash(current)
    BY <1>1, <2>1, ContinuesRotated DEF Files
  <2>3. prevHash = LastHash(current)
    BY <1>6, <1>8, Clean
  <2>4. QED
    BY <1>2, <2>2, <2>3 DEF Continued
<1>9. QED
  BY <1>1, <1>3, <1>4, <1>5, <1>7, <1>8 DEF IInv

LEMMA RotateIInv ==
  ASSUME IInv, Rotate
  PROVE  IInv'
<1>1. TypeOK'
  <2>1. rotated' \in Seq(Seq(Lines)) /\ current' \in Seq(Lines) /\ Len(current') = 0
    BY FilesAre DEF IInv, TypeOK, Rotate
  <2>2. acked' \in Seq(Seq(1 .. MaxTexts))
    BY DEF IInv, TypeOK, Rotate
  <2>3. QED
    BY <2>1, <2>2 DEF IInv, TypeOK, Rotate
<1>2. QED
  BY <1>1, MovedIInv DEF Rotate

\* Nothing is written.
LEMMA StillIInv ==
  ASSUME IInv, UNCHANGED <<current, rotated, prevHash, acked, torn, gap>>, TypeOK',
         handle = "none" => handle' = "none"
  PROVE  IInv'
<1>1. Files' = Files
  BY DEF Files
<1>2. Damage' /\ (Kept => Kept')
  BY <1>1 DEF IInv, Damage, Kept
<1>3. Continued => Continued'
  BY <1>1 DEF Continued
<1>4. QED
  BY <1>2, <1>3 DEF IInv

LEMMA RotationFailsIInv ==
  ASSUME IInv, RotationFails
  PROVE  IInv'
<1>1. CASE handle' = "closed" /\ UNCHANGED <<current, rotated, acked>>
  <2>1. TypeOK'
    BY <1>1 DEF IInv, TypeOK, RotationFails
  <2>2. QED
    BY <1>1, <2>1, StillIInv DEF RotationFails, Full
<1>2. CASE handle = "open" /\ UNCHANGED <<current, rotated, handle, acked>>
  <2>1. TypeOK'
    BY <1>2 DEF IInv, TypeOK, RotationFails
  <2>2. QED
    BY <1>2, <2>1, StillIInv DEF RotationFails
<1>3. CASE /\ handle = "open" /\ handle' = "closed"
           /\ rotated' = Append(rotated, current) /\ current' = <<>>
           /\ acked' = Append(acked, <<>>)
  <2>1. rotated' \in Seq(Seq(Lines)) /\ current' \in Seq(Lines) /\ Len(current') = 0
    BY <1>3, FilesAre DEF IInv, TypeOK
  <2>2. acked' \in Seq(Seq(1 .. MaxTexts))
    BY <1>3 DEF IInv, TypeOK
  <2>3. TypeOK'
    BY <1>3, <2>1, <2>2 DEF IInv, TypeOK, RotationFails
  <2>4. QED
    BY <1>3, <2>3, MovedIInv DEF RotationFails
<1>4. QED
  BY <1>1, <1>2, <1>3 DEF RotationFails

LEMMA WriteFailsIInv ==
  ASSUME IInv, WriteFails
  PROVE  IInv'
<1>1. TypeOK'
  BY DEF IInv, TypeOK, WriteFails
<1>2. QED
  BY <1>1, StillIInv DEF WriteFails

LEMMA WriteIInv ==
  ASSUME IInv, Write
  PROVE  IInv'
<1> DEFINE line == Line(prevHash)
<1>1. /\ rotated \in Seq(Seq(Lines)) /\ current \in Seq(Lines)
      /\ acked \in Seq(Seq(1 .. MaxTexts)) /\ torn \in Nat
      /\ Len(acked) = Len(rotated) + 1 /\ Len(rotated) \in Nat
      /\ texts \in 0 .. MaxTexts /\ prevHash \in 0 .. MaxTexts
      /\ texts + 2 <= MaxTexts
      /\ torn = 0 => size = Len(current)
  BY DEF IInv, TypeOK, Write
<1>2. line \in Lines /\ texts + 1 \in 1 .. MaxTexts
  <2>1. line \in Lines
    BY <1>1, LineType
  <2>2. QED
    BY <1>1, <2>1, LedgerFileAssumption
<1>3. line.good /\ line.ended /\ line.hash = texts + 1 /\ line.prev = prevHash
  BY DEF Line
<1> HIDE DEF line
<1>4. current' = Appended(current, line) /\ prevHash' = line.hash
  BY <1>3 DEF Write, line
<1>5. Grown(current, line, current')
  BY <1>1, <1>2, <1>4, AppendedGrows DEF IInv, TypeOK
<1>6. current' # <<>> /\ current' \in Seq(Lines)
  BY <1>5 DEF Grown
<1>7. torn = 0 => ~Torn(current)
  BY Clean
<1>8. /\ acked' \in Seq(Seq(1 .. MaxTexts)) /\ Len(acked') = Len(acked)
      /\ acked'[Len(acked)] = Append(acked[Len(acked)], line.hash)
      /\ \A k \in 1 .. Len(rotated) : acked'[k] = acked[k]
      /\ acked[Len(acked)] \in Seq(1 .. MaxTexts)
  <2> DEFINE new == Append(acked[Len(acked)], line.hash)
  <2>1. Len(acked) \in 1 .. Len(acked)
    BY <1>1
  <2>2. acked[Len(acked)] \in Seq(1 .. MaxTexts)
    BY <1>1, <2>1, ElementOfSeq
  <2>3. new \in Seq(1 .. MaxTexts)
    BY <1>2, <1>3, <2>2, AppendLines
  <2>4. acked' = [acked EXCEPT ![Len(acked)] = new]
    BY <1>3 DEF Write
  <2> HIDE DEF new
  <2>5. /\ acked' \in Seq(Seq(1 .. MaxTexts)) /\ Len(acked') = Len(acked)
        /\ \A j \in 1 .. Len(acked) : acked'[j] = IF j = Len(acked) THEN new ELSE acked[j]
    BY <1>1, <2>1, <2>3, <2>4, ExceptSeq
  <2>6. \A k \in 1 .. Len(rotated) : k \in 1 .. Len(acked) /\ k # Len(acked)
    BY <1>1
  <2>7. QED
    BY <2>1, <2>2, <2>5, <2>6 DEF new
<1>9. TypeOK'
  <2>1. torn = 0 => Len(current') = Len(current) + 1
    BY <1>1, <1>5, <1>7, GrownClean
  <2>2. \A i \in 1 .. Len(current') - 1 : current'[i].ended
    BY <1>5 DEF Grown
  <2>3. texts' \in 0 .. MaxTexts
    BY <1>1 DEF Write
  <2>4. size' \in Nat /\ prevHash' \in 0 .. MaxTexts
    BY <1>2, <1>3, <1>4 DEF IInv, TypeOK, Write
  <2>5. torn' = 0 /\ handle' = "open" => size' = Len(current')
    BY <1>1, <2>1 DEF Write
  <2>6. QED
    BY <1>6, <1>8, <2>2, <2>3, <2>4, <2>5 DEF IInv, TypeOK, Write
<1>10. Damage'
  <2>1. Limited(Append(rotated, current), current, prevHash, 2 * torn) /\ 2 * torn \in Nat
    BY <1>1 DEF IInv, Damage, Files
  <2>2. line.hash # texts + 2
    BY <1>1, <1>3
  <2>3. Limited(Append(rotated, current'), current', line.hash, 2 * torn)
    BY <1>1, <1>3, <1>5, <2>1, <2>2, WriteLimited
  <2>4. QED
    BY <1>4, <2>3 DEF Damage, Files, Write
<1>11. ASSUME torn = 0 PROVE Kept'
  <2>1. Kept
    BY <1>11 DEF IInv
  <2>2. Holds(current', Append(acked[Len(acked)], line.hash))
    BY <1>1, <1>2, <1>3, <1>5, <1>7, <1>8, <1>11, <2>1, HoldsGrown DEF Kept
  <2>3. QED
    BY <1>8, <2>1, <2>2 DEF Kept, Write
<1>12. ASSUME torn = 0, ~gap PROVE Continued'
  <2>1. Continued
    BY <1>12 DEF IInv
  <2>2. Len(Append(rotated, current)) = Len(rotated) + 1
    BY <1>1, FilesAre
  <2>3. current = <<>> => line.prev = Previous(Append(rotated, current), Len(rotated) + 1)
    BY <1>3, <2>1, <2>2 DEF Continued, Files, Write
  <2>4. Continues(Append(rotated, current'))
    BY <1>1, <1>5, <1>7, <1>12, <2>1, <2>3, ContinuesGrown DEF Continued, Files
  <2>5. QED
    BY <1>6, <2>4 DEF Continued, Files, Write
<1>13. QED
  BY <1>1, <1>8, <1>9, <1>10, <1>11, <1>12 DEF IInv, Write

\* Part of a line is written, by WriteEntry or when the process dies.
LEMMA TornIInv ==
  ASSUME IInv, texts + 2 <= MaxTexts, NEW piece \in Pieces(prevHash),
         current' = Appended(current, piece), texts' = texts + 2, torn' = torn + 1,
         UNCHANGED <<rotated, acked>>, prevHash' \in 0 .. MaxTexts, size' \in Nat,
         handle' \in {"open", "closed", "none"}, rotating' \in BOOLEAN, gap' \in BOOLEAN
  PROVE  IInv'
<1>1. /\ rotated \in Seq(Seq(Lines)) /\ current \in Seq(Lines)
      /\ acked \in Seq(Seq(1 .. MaxTexts)) /\ torn \in Nat
      /\ texts \in 0 .. MaxTexts /\ prevHash \in 0 .. MaxTexts
  BY DEF IInv, TypeOK
<1>2. piece \in Lines /\ ~piece.ended
  BY <1>1, LineType, PieceIs
<1>3. Grown(current, piece, current')
  BY <1>1, <1>2, AppendedGrows DEF IInv, TypeOK
<1>4. TypeOK'
  <2>1. current' \in Seq(Lines) /\ \A i \in 1 .. Len(current') - 1 : current'[i].ended
    BY <1>3 DEF Grown
  <2>2. texts' \in 0 .. MaxTexts /\ torn' \in Nat /\ torn' # 0
    BY <1>1
  <2>3. QED
    BY <1>1, <2>1, <2>2 DEF TypeOK
<1>5. Damage'
  <2>1. Limited(Append(rotated, current), current, prevHash, 2 * torn) /\ 2 * torn \in Nat
    BY <1>1 DEF IInv, Damage, Files
  <2>2. Limited(Append(rotated, current'), current', prevHash', 2 * torn + 2)
    BY <1>1, <1>2, <1>3, <2>1, TearLimited
  <2>3. 2 * torn + 2 = 2 * torn'
    BY <1>1
  <2>4. QED
    BY <2>2, <2>3 DEF Damage, Files
<1>6. QED
  BY <1>1, <1>4, <1>5 DEF IInv

LEMMA WriteTearsIInv ==
  ASSUME IInv, WriteTears
  PROVE  IInv'
<1>1. PICK piece \in Pieces(prevHash) : current' = Appended(current, piece)
  BY DEF WriteTears
<1>2. texts + 2 <= MaxTexts /\ texts' = texts + 2 /\ torn' = torn + 1
  BY DEF WriteTears
<1>3. /\ prevHash' \in 0 .. MaxTexts /\ size' \in Nat
      /\ handle' \in {"open", "closed", "none"} /\ rotating' \in BOOLEAN /\ gap' \in BOOLEAN
  BY DEF WriteTears, IInv, TypeOK
<1>4. UNCHANGED <<rotated, acked>>
  BY DEF WriteTears
<1>5. QED
  BY <1>1, <1>2, <1>3, <1>4, TornIInv

LEMMA LastHashType ==
  ASSUME NEW file \in Seq(Lines)
  PROVE  LastHash(file) \in 0 .. MaxTexts
<1>1. CASE file = <<>>
  BY <1>1, LedgerFileAssumption DEF LastHash, Genesis
<1>2. CASE file # <<>>
  <2>1. file[Len(file)] \in Lines
    BY <1>2, NonEmpty, ElementOfSeq
  <2>2. file[Len(file)].hash \in 1 .. MaxTexts
    BY <2>1 DEF Lines
  <2>3. QED
    BY <1>2, <2>2 DEF LastHash
<1>3. QED
  BY <1>1, <1>2

LEMMA RestartIInv ==
  ASSUME IInv, Restart
  PROVE  IInv'
<1>1. /\ rotated \in Seq(Seq(Lines)) /\ current \in Seq(Lines) /\ torn \in Nat
      /\ Len(rotated) \in Nat
  BY DEF IInv, TypeOK
<1>2. rotating' \in BOOLEAN /\ gap' \in BOOLEAN
  <2>1. gap' \in BOOLEAN
    BY Zenon DEF IInv, TypeOK, Restart
  <2>2. QED
    BY <2>1 DEF Restart
<1>3. /\ prevHash' = LastHash(current') /\ size' = Len(current')
      /\ handle' \in {"open", "closed", "none"} /\ handle' # "closed"
      /\ UNCHANGED <<rotated, acked>>
  BY DEF Restart
<1>4. CASE UNCHANGED <<current, texts, torn>>
  <2>1. size' \in Nat /\ prevHash' \in 0 .. MaxTexts
    BY <1>1, <1>3, <1>4, LastHashType
  <2>2. TypeOK'
    BY <1>2, <1>3, <1>4, <2>1 DEF IInv, TypeOK
  <2>3. Damage'
    <3>1. Limited(Files, current, prevHash, 2 * torn) /\ 2 * torn \in Nat
      BY <1>1 DEF IInv, Damage
    <3>2. Limited(Files, current, LastHash(current), 2 * torn)
      BY <3>1, RecoverLimited
    <3>3. QED
      BY <1>3, <1>4, <3>2 DEF Damage, Files
  <2>4. Kept => Kept'
    BY <1>3, <1>4 DEF Kept
  <2>5. ASSUME Continued, ~gap' PROVE Continued'
    <3>1. Files' = Files
      BY <1>3, <1>4 DEF Files
    <3>2. handle' # "none" /\ current = <<>> => rotated = <<>>
      BY <1>3, <1>4, <2>5 DEF Restart
    <3>3. rotated = <<>> => Len(Files) = 1
      BY <1>1, FilesAre DEF Files
    <3>4. handle' # "none" /\ current = <<>> => prevHash' = Previous(Files, Len(Files))
      BY <1>3, <1>4, <3>2, <3>3 DEF Previous, LastHash
    <3>5. QED
      BY <1>4, <2>5, <3>1, <3>4 DEF Continued
  <2>6. ~gap' => ~gap
    BY DEF Restart
  <2>7. QED
    BY <1>3, <1>4, <2>2, <2>3, <2>4, <2>5, <2>6 DEF IInv
<1>5. CASE /\ texts + 2 <= MaxTexts
           /\ \E piece \in Pieces(prevHash) : current' = Appended(current, piece)
           /\ texts' = texts + 2
           /\ torn' = torn + 1
  <2>1. PICK piece \in Pieces(prevHash) : current' = Appended(current, piece)
    BY <1>5
  <2>2. texts \in 0 .. MaxTexts /\ prevHash \in 0 .. MaxTexts
    BY DEF IInv, TypeOK
  <2>3. piece \in Lines
    BY <1>5, <2>2, LineType
  <2>4. current' \in Seq(Lines)
    BY <1>1, <1>5, <2>1, <2>2, <2>3, AppendedGrows DEF IInv, TypeOK, Grown
  <2>5. size' \in Nat /\ prevHash' \in 0 .. MaxTexts
    BY <1>3, <2>4, LastHashType
  <2>6. QED
    BY <1>2, <1>3, <1>5, <2>1, <2>5, TornIInv
<1>6. QED
  BY <1>4, <1>5 DEF Restart

LEMMA NextIInv == IInv /\ [Next]_vars => IInv'
<1> SUFFICES ASSUME IInv, [Next]_vars PROVE IInv'
  OBVIOUS
<1>1. CASE Next
  BY <1>1, RotateIInv, RotationFailsIInv, WriteIInv, WriteFailsIInv, WriteTearsIInv,
     RestartIInv DEF Next
<1>2. CASE UNCHANGED vars
  <2>1. TypeOK'
    BY <1>2 DEF IInv, TypeOK, vars
  <2>2. QED
    BY <1>2, <2>1, StillIInv DEF vars
<1>3. QED
  BY <1>1, <1>2

THEOREM AlwaysIInv == Spec => []IInv
BY InitIInv, NextIInv, PTL DEF Spec

--------------------------------------------------------------------------------
(***************************************************************************)
(* The files and the writer's fields keep their types; only the last line  *)
(* of a file can lack its newline; and lf.size, which decides on the       *)
(* rotation, is the size of the file while no write was torn.              *)
(***************************************************************************)
THEOREM TypeCorrect == Spec => []TypeOK
<1>1. IInv => TypeOK
  BY DEF IInv
<1>2. QED
  BY <1>1, AlwaysIInv, PTL

(***************************************************************************)
(* While no write was torn the files hold the acknowledged entries, all of *)
(* them and linked one to the other, also across rotations unless          *)
(* OpenLedgerFile found an empty file: whatever WriteEntry could not       *)
(* write, rename or open.                                                  *)
(***************************************************************************)
THEOREM ChainIntact == Spec => []IntactChain
<1>1. IInv => IntactChain
  <2> SUFFICES ASSUME IInv, torn = 0 PROVE IntactChain
    BY DEF IntactChain
  <2>1. /\ Len(Files) = Len(rotated) + 1 /\ Files[Len(rotated) + 1] = current
        /\ \A k \in 1 .. Len(rotated) : Files[k] = rotated[k]
        /\ \A k \in 1 .. Len(rotated) + 1 : k = Len(rotated) + 1 \/ k \in 1 .. Len(rotated)
    BY FilesAre DEF IInv, TypeOK, Files
  <2>2. Len(acked) = Len(rotated) + 1 /\ Kept
    BY DEF IInv
  <2>3. \A k \in 1 .. Len(Files) : Holds(Files[k], acked[k])
    BY <2>1, <2>2 DEF Kept
  <2>4. \A k \in 1 .. Len(Files) : \A i \in 1 .. Len(Files[k]) : Linked(Files[k], i)
    BY Clean, BrokenIs
  <2>5. ~gap => Continues(Files)
    BY DEF IInv, Continued
  <2>6. QED
    BY <2>1, <2>2, <2>3, <2>4, <2>5 DEF IntactChain, Kept, Continues, Previous
<1>2. QED
  BY <1>1, AlwaysIInv, PTL

(***************************************************************************)
(* A torn write breaks the chain at two lines at most, however torn writes,*)
(* rotations, failures and restarts follow each other: the chain goes on   *)
(* from the line after the damage, which is hashed as it is.               *)
(***************************************************************************)
THEOREM DamageStaysLocal == Spec => []DamageIsLocal
<1>1. IInv => DamageIsLocal
  <2> SUFFICES ASSUME IInv PROVE DamageIsLocal
    OBVIOUS
  <2>1. /\ IsFiniteSet(Broken(Files)) /\ torn \in Nat
        /\ Cardinality(Broken(Files)) + Due(current, prevHash) <= 2 * torn
    BY DEF IInv, TypeOK, Damage, Limited
  <2>2. Cardinality(Broken(Files)) \in Nat /\ Due(current, prevHash) \in 0 .. 2
    BY <2>1, FS_CardinalityType, DueCases
  <2>3. QED
    BY <2>1, <2>2 DEF DamageIsLocal
<1>2. QED
  BY <1>1, AlwaysIInv, PTL

\* A line that is there with its newline is not touched by what is appended.
LEMMA SealedStays ==
  ASSUME NEW file \in Seq(Lines), NEW line, NEW m, Grown(file, line, m)
  PROVE  /\ Sealed(Chained(file), file) \subseteq Chained(m)
         /\ Sealed(Verified(file), file) \subseteq Verified(m)
         /\ \A n \in Sealed(Chained(file), file) : m[n] = file[n]
<1>1. ASSUME NEW n \in Sealed(Chained(file), file)
      PROVE  n \in Chained(m) /\ m[n] = file[n] /\ m[1] = file[1]
  <2>1. /\ n \in 1 .. Len(file) /\ file[n].ended
        /\ \A i \in 1 .. n : Linked(file, i)
    BY <1>1 DEF Sealed, Chained
  <2>2. Len(file) \in Nat /\ Len(m) \in Nat
    BY DEF Grown
  <2>3. n <= Len(m) - 1
    <3>1. CASE Torn(file)
      BY <2>1, <2>2, <3>1 DEF Grown, Torn
    <3>2. CASE ~Torn(file)
      BY <2>1, <2>2, <3>2 DEF Grown
    <3>3. QED
      BY <3>1, <3>2
  <2>4. \A i \in 1 .. n : i \in 1 .. Len(m) - 1
    BY <2>1, <2>2, <2>3
  <2>5. \A i \in 1 .. n : Linked(m, i)
    BY <2>1, <2>4, LinkedBefore
  <2>6. n \in 1 .. n /\ 1 \in 1 .. n
    BY <2>1
  <2>7. QED
    BY <2>2, <2>3, <2>4, <2>5, <2>6 DEF Grown, Chained
<1>2. ASSUME NEW n \in Sealed(Verified(file), file) PROVE n \in Verified(m)
  <2>1. n \in Sealed(Chained(file), file) /\ file[1].prev = Genesis
    BY <1>2 DEF Sealed, Verified
  <2>2. QED
    BY <1>1, <2>1 DEF Verified
<1>3. QED
  BY <1>1, <1>2

LEMMA SealedSame ==
  ASSUME NEW file
  PROVE  /\ Sealed(Chained(file), file) \subseteq Chained(file)
         /\ Sealed(Verified(file), file) \subseteq Verified(file)
BY DEF Sealed

(***************************************************************************)
(* What VerifyLedgerFile has accepted, newline included, stays as it is    *)
(* and accepted, and a file is only ever put behind those rotated before:  *)
(* WriteEntry and OpenLedgerFile only append.                              *)
(***************************************************************************)
THEOREM HistoryStays == Spec => VerifiedStaysVerified
<1> DEFINE Stays == IF rotated' = rotated
                    THEN /\ Sealed(Verified(current), current) \subseteq Verified(current')
                         /\ Sealed(Chained(current), current) \subseteq Chained(current')
                         /\ \A n \in Sealed(Chained(current), current) : current'[n] = current[n]
                    ELSE rotated' = Append(rotated, current)
<1>1. ASSUME IInv, [Next]_vars PROVE [Stays]_vars
  <2>1. /\ current \in Seq(Lines) /\ rotated \in Seq(Seq(Lines))
        /\ \A i \in 1 .. Len(current) - 1 : current[i].ended
        /\ texts \in 0 .. MaxTexts /\ prevHash \in 0 .. MaxTexts
    BY <1>1 DEF IInv, TypeOK
  <2>2. CASE UNCHANGED <<current, rotated>>
    BY <2>2, SealedSame
  <2>3. CASE rotated' = Append(rotated, current)
    <3>1. rotated' # rotated
      BY <2>1, <2>3, FilesAre
    <3>2. QED
      BY <2>3, <3>1
  <2>4. ASSUME rotated' = rotated, texts + 2 <= MaxTexts, NEW line \in Lines,
               current' = Appended(current, line)
        PROVE  Stays
    <3>1. Grown(current, line, current')
      BY <2>1, <2>4, AppendedGrows
    <3>2. QED
      BY <2>1, <2>4, <3>1, SealedStays
  <2>5. ASSUME rotated' = rotated, texts + 2 <= MaxTexts,
               \E piece \in Pieces(prevHash) : current' = Appended(current, piece)
        PROVE  Stays
    <3>1. Pieces(prevHash) \subseteq Lines
      BY <2>1, <2>5, LineType
    <3>2. QED
      BY <2>4, <2>5, <3>1
  <2> HIDE DEF Stays
  <2>6. CASE Rotate \/ RotationFails
    <3>1. UNCHANGED <<current, rotated>> \/ rotated' = Append(rotated, current)
      BY <2>6 DEF Rotate, RotationFails
    <3>2. QED
      BY <2>2, <2>3, <3>1
  <2>7. CASE Write
    <3>1. Line(prevHash) \in Lines
      BY <2>1, <2>7, LineType DEF Write
    <3>2. QED
      BY <2>4, <2>7, <3>1 DEF Write
  <2>8. CASE WriteTears
    BY <2>5, <2>8 DEF WriteTears
  <2>9. CASE Restart
    <3>1. CASE UNCHANGED current
      BY <2>2, <2>9, <3>1 DEF Restart
    <3>2. CASE ~UNCHANGED current
      BY <2>5, <2>9, <3>2 DEF Restart
    <3>3. QED
      BY <3>1, <3>2
  <2>10. CASE WriteFails \/ UNCHANGED vars
    BY <2>2, <2>10 DEF WriteFails, vars
  <2>11. QED
    BY <1>1, <2>6, <2>7, <2>8, <2>9, <2>10 DEF Next
<1>2. QED
  BY <1>1, AlwaysIInv, PTL DEF Spec, VerifiedStaysVerified
=================================================================================

--------------------------- MODULE WizardAccessProofs ---------------------------
(***************************************************************************)
(* What TLAPS proves of WizardAccess: its types, that lockouts are         *)
(* deserved and hold, that a change of credentials ends the sessions made  *)
(* with the old ones, and that acknowledged changes stand.                 *)
(***************************************************************************)
EXTENDS WizardAccess, SequenceTheorems, TLAPS

(***************************************************************************)
(* The guard.  A record stands for the latest failures, all within one     *)
(* window of its first; a locked one was locked by the last of them, and a *)
(* lockout that runs is in the record.                                     *)
(***************************************************************************)
Records == [failures : Nat, firstFail : Int, lockedAt : Int]

Stands ==
  attempts # NoRecord =>
    /\ attempts.failures <= Len(failed)
    /\ \A i \in Len(failed) - attempts.failures + 1 .. Len(failed) :
         attempts.firstFail <= failed[i] /\ failed[i] <= attempts.firstFail + Window
    /\ attempts.lockedAt # None => attempts.lockedAt = failed[Len(failed)]

Runs == lockout # None /\ now - lockout < Lockout => attempts.lockedAt = lockout

GuardInv ==
  /\ GuardTypeOK
  /\ attempts \in Records /\ failed \in Seq(Int) /\ lockout \in Int
  /\ Stands
  /\ Runs

\* A new guard, or one that has just seen a success, satisfies the invariant.
LEMMA NewGuardInv ==
  ASSUME now \in 0 .. MaxTime, NewGuard
  PROVE  GuardInv
<1>1. NoRecord \in Records /\ <<>> \in Seq(Int) /\ None \in Int
  BY EmptySeq DEF NoRecord, Records, None
<1>2. ~(None # None) /\ ~(NoRecord.failures >= MaxAttempts) /\ NoRecord.lockedAt = None
  BY LoginGuardAssumption DEF NoRecord
<1>3. QED
  BY <1>1, <1>2 DEF GuardInv, GuardTypeOK, Stands, Runs, NewGuard

\* RecordFailure adds to the record, or starts a new one, and to the failures.
LEMMA RecordFailureInv ==
  ASSUME GuardInv, RecordFailure, now' = now
  PROVE  GuardInv'
<1> DEFINE fresh == attempts = NoRecord \/ Expired(attempts)
           rec == Open
           n == Len(failed)
<1>1. /\ now \in Int /\ now >= 0 /\ failed \in Seq(Int) /\ n \in Nat
      /\ attempts \in Records /\ MaxAttempts \in Nat /\ MaxAttempts >= 1 /\ Window \in Nat
      /\ None \in Int /\ None < 0
  BY LenProperties, LoginGuardAssumption DEF GuardInv, GuardTypeOK, None
<1>2. /\ rec \in Records /\ rec.firstFail <= now /\ now <= rec.firstFail + Window
      /\ rec.firstFail >= 0
      /\ fresh => rec.failures = 0 /\ rec.lockedAt = None /\ rec.firstFail = now
      /\ ~fresh => rec = attempts /\ rec.failures > 0
  <2>1. CASE fresh
    BY <1>1, <2>1 DEF Records, Open
  <2>2. CASE ~fresh
    BY <1>1, <2>2 DEF Open, Expired, GuardInv, GuardTypeOK, Records
  <2>3. QED
    BY <2>1, <2>2
<1>3. /\ Struck.failures = rec.failures + 1 /\ Struck.firstFail = rec.firstFail
      /\ Struck.lockedAt = IF rec.failures + 1 >= MaxAttempts THEN now ELSE rec.lockedAt
      /\ Struck \in Records
  <2> HIDE DEF rec
  <2>1. Struck = [failures |-> rec.failures + 1, firstFail |-> rec.firstFail,
                  lockedAt |-> IF rec.failures + 1 >= MaxAttempts THEN now ELSE rec.lockedAt]
    BY DEF Struck, rec
  <2>2. QED
    BY <1>1, <1>2, <2>1 DEF Records
<1>4. /\ attempts' = Struck /\ failed' = Append(failed, now) /\ lockout' = Struck.lockedAt
      /\ failed' \in Seq(Int) /\ Len(failed') = n + 1 /\ failed'[n + 1] = now
      /\ \A i \in 1 .. n : failed'[i] = failed[i]
  BY <1>1, AppendProperties DEF RecordFailure
<1>5. /\ (rec.lockedAt # None) <=> (rec.failures >= MaxAttempts)
      /\ rec.failures <= n /\ rec.failures \in Nat
      /\ \A i \in n - rec.failures + 1 .. n :
           rec.firstFail <= failed[i] /\ failed[i] <= rec.firstFail + Window
  <2>1. CASE fresh
    <3> HIDE DEF rec, fresh
    <3>1. QED
      BY <1>1, <1>2, <2>1
  <2>2. CASE ~fresh
    BY <1>1, <1>2, <2>2 DEF GuardInv, GuardTypeOK, Stands, Records
  <2>3. QED
    BY <2>1, <2>2
<1> HIDE DEF fresh, rec, n
<1>6. GuardTypeOK'
  <2>1. rec.failures \in Nat /\ rec.firstFail \in Int /\ rec.lockedAt \in Int
    BY <1>2 DEF Records
  <2>2. Struck.failures >= MaxAttempts <=> Struck.lockedAt # None
    BY <1>1, <1>3, <1>5, <2>1
  <2>3. Struck.lockedAt \in {None} \cup (Struck.firstFail .. now)
    BY <1>1, <1>2, <1>3, <1>5, <2>1
  <2>4. now \in 0 .. MaxTime
    BY DEF GuardInv, GuardTypeOK
  <2>5. Struck.failures > 0 /\ Struck.firstFail \in 0 .. now
    BY <1>1, <1>2, <1>3, <2>1
  <2>6. QED
    BY <1>4, <2>2, <2>3, <2>4, <2>5 DEF GuardTypeOK
<1>7. Stands'
  <2>1. rec.failures \in Nat /\ rec.firstFail \in Int /\ rec.lockedAt \in Int
    BY <1>2 DEF Records
  <2>2. Struck.failures <= n + 1
    BY <1>1, <1>3, <1>5, <2>1
  <2>3. ASSUME NEW i \in (n + 1) - Struck.failures + 1 .. n + 1
        PROVE  Struck.firstFail <= failed'[i] /\ failed'[i] <= Struck.firstFail + Window
    <3>1. CASE i = n + 1
      BY <1>2, <1>3, <1>4, <3>1
    <3>2. CASE i # n + 1
      <4>1. i \in n - rec.failures + 1 .. n /\ i \in 1 .. n
        BY <1>1, <1>3, <1>5, <2>1, <2>3, <3>2
      <4>2. QED
        BY <1>3, <1>4, <1>5, <4>1
    <3>3. QED
      BY <3>1, <3>2
  <2>4. Struck.lockedAt # None => Struck.lockedAt = failed'[n + 1]
    BY <1>1, <1>3, <1>4, <1>5, <2>1
  <2>5. QED
    BY <1>4, <2>2, <2>3, <2>4 DEF Stands
<1>8. Runs'
  BY <1>4 DEF Runs
<1>9. QED
  BY <1>3, <1>4, <1>6, <1>7, <1>8 DEF GuardInv, Records

\* A question to the guard drops a record only when its lockout is over.
LEMMA PassInv ==
  ASSUME GuardInv, Pass, now' = now
  PROVE  GuardInv'
<1>1. /\ now \in 0 .. MaxTime /\ now \in Int /\ attempts \in Records /\ Lockout \in Nat
      /\ MaxTime \in Nat
  BY LoginGuardAssumption DEF GuardInv, GuardTypeOK
<1>2. CASE attempts' = attempts
  <2>1. QED
    BY <1>2 DEF Pass, GuardInv, GuardTypeOK, Stands, Runs
<1>3. CASE attempts.lockedAt # None /\ attempts' = NoRecord
  <2>1. ~(lockout # None /\ now - lockout < Lockout)
    BY <1>1, <1>3 DEF GuardInv, Runs, Pass, Locked
  <2>2. NoRecord \in Records /\ NoRecord.lockedAt = None /\ ~(NoRecord.failures >= MaxAttempts)
    BY LoginGuardAssumption DEF NoRecord, Records, None
  <2>3. QED
    BY <1>1, <1>3, <2>1, <2>2 DEF Pass, GuardInv, GuardTypeOK, Stands, Runs
<1>4. QED
  BY <1>2, <1>3 DEF Pass

\* A success forgets record, failures and lockout together.
LEMMA ResetInv ==
  ASSUME GuardInv, ResetIP, now' = now
  PROVE  GuardInv'
<1>1. NoRecord \in Records /\ NoRecord.lockedAt = None /\ ~(NoRecord.failures >= MaxAttempts)
      /\ <<>> \in Seq(Int) /\ None \in Int
  BY LoginGuardAssumption, EmptySeq DEF NoRecord, Records, None
<1>2. QED
  BY <1>1 DEF ResetIP, GuardInv, GuardTypeOK, Stands, Runs

\* The sweep removes a locked record only once its lockout is over.
LEMMA CleanupInv ==
  ASSUME GuardInv, Cleanup
  PROVE  GuardInv'
<1>1. /\ now \in 0 .. MaxTime /\ now \in Int /\ attempts \in Records /\ Lockout \in Nat
      /\ lockout \in Int /\ None \in Int
  BY LoginGuardAssumption DEF GuardInv, GuardTypeOK, None
<1>2. ~(lockout # None /\ now - lockout < Lockout)
  BY <1>1 DEF GuardInv, Runs, Cleanup, Outdated, Records
<1>3. NoRecord \in Records /\ NoRecord.lockedAt = None /\ ~(NoRecord.failures >= MaxAttempts)
  BY LoginGuardAssumption DEF NoRecord, Records, None
<1>4. QED
  BY <1>1, <1>2, <1>3 DEF Cleanup, GuardInv, GuardTypeOK, Stands, Runs

\* Time passes: a lockout may end, the record stays.
LEMMA TickInv ==
  ASSUME GuardInv, Tick
  PROVE  GuardInv'
<1>1. /\ now \in Nat /\ now' = now + 1 /\ now' \in 0 .. MaxTime
      /\ lockout \in Int /\ Lockout \in Nat /\ attempts \in Records
      /\ UNCHANGED <<attempts, failed, lockout>>
  BY LoginGuardAssumption DEF GuardInv, GuardTypeOK, Tick
<1>2. Stands' /\ Runs'
  BY <1>1 DEF GuardInv, Stands, Runs
<1>3. GuardTypeOK'
  BY <1>1 DEF GuardInv, GuardTypeOK, Records
<1>4. QED
  BY <1>1, <1>2, <1>3 DEF GuardInv

\* The invariant of the guard is about the guard only.
LEMMA StillInv ==
  ASSUME GuardInv, UNCHANGED guardVars
  PROVE  GuardInv'
BY DEF guardVars, GuardInv, GuardTypeOK, Stands, Runs

\* A locked record was locked by the latest failure, and holds enough of them.
LEMMA GuardInvDeserved ==
  ASSUME GuardInv
  PROVE  LockoutDeserved
<1> SUFFICES ASSUME Locked
             PROVE  \E j \in MaxAttempts .. Len(failed) :
                      /\ failed[j] = attempts.lockedAt
                      /\ failed[j] - failed[j - MaxAttempts + 1] <= Window
  BY DEF LockoutDeserved
<1> DEFINE n == Len(failed)
           k == n - MaxAttempts + 1
<1>1. /\ failed \in Seq(Int) /\ n \in Nat /\ attempts \in Records
      /\ MaxAttempts \in Nat /\ MaxAttempts >= 1 /\ Window \in Nat
  BY LenProperties, LoginGuardAssumption DEF GuardInv
<1>2. attempts.lockedAt # None /\ attempts # NoRecord
  BY DEF Locked, NoRecord
<1>3. /\ attempts.failures >= MaxAttempts /\ attempts.failures \in Nat
      /\ attempts.failures <= n /\ attempts.lockedAt = failed[n]
      /\ attempts.firstFail \in Int
  BY <1>1, <1>2 DEF GuardInv, GuardTypeOK, Stands, Records
<1>4. \A i \in n - attempts.failures + 1 .. n :
        attempts.firstFail <= failed[i] /\ failed[i] <= attempts.firstFail + Window
  BY <1>2 DEF GuardInv, Stands
<1>5. /\ n \in n - attempts.failures + 1 .. n /\ k \in n - attempts.failures + 1 .. n
      /\ n \in 1 .. n /\ k \in 1 .. n /\ n \in MaxAttempts .. n
  BY <1>1, <1>3
<1>6. failed[n] \in Int /\ failed[k] \in Int
  BY <1>1, <1>5, ElementOfSeq
<1> HIDE DEF n, k
<1>7. failed[n] - failed[k] <= Window
  BY <1>1, <1>3, <1>4, <1>5, <1>6
<1>8. QED
  BY <1>3, <1>5, <1>7 DEF n, k

-------------------------------------------------------------------------------
(***************************************************************************)
(* Sessions and configuration.  The invariant speaks of requests under way *)
(* as well: a login that has matched a password in the present generation, *)
(* with no change between reload and bump, has matched the one in force;   *)
(* a copy of the file that is about to be written back is what has been    *)
(* acknowledged; and whoever edits the file holds the lock.                *)
(***************************************************************************)
Phases == {"idle", "presented", "matched", "verified", "wrong", "signed",
           "put", "locked", "read", "truncated", "written", "reloaded"}
Editing == {"locked", "read", "truncated", "written", "reloaded"}
Files == [Keys -> Absent .. MaxVersion]

TypedRequest(q) ==
  /\ q.pc \in Phases
  /\ q.pc \in {"put", "locked", "read", "truncated"} =>
       q.key \in Keys /\ q.value \in 0 .. MaxVersion
  /\ q.pc \in {"read", "truncated"} => q.copy \in Files

Typed ==
  /\ env \in Files /\ acked \in Files
  /\ boot \in [Credentials -> 0 .. MaxVersion]
  /\ mem \in [Credentials -> 0 .. Generated]
  /\ gen \in Nat /\ genFile.gen \in Nat
  /\ held \in Requests \cup {"none"}
  /\ torn \in BOOLEAN /\ behind \in BOOLEAN
  /\ req = [r \in Requests |-> req[r]]
  /\ \A r \in Requests : TypedRequest(req[r])

Exclusive == \A r \in Requests : req[r].pc \in Editing => held = r

Quiet == \A r \in Requests : req[r].pc # "reloaded"

SessionOK(s) ==
  /\ s.seen \in Nat /\ s.gen \in Nat /\ s.seen <= s.gen /\ s.gen <= gen
  /\ s.seen = gen /\ Quiet => Current(s)

LoginOK(q) ==
  q.pc \in {"matched", "verified"} =>
    /\ q.role \in {"admin", "viewer"} /\ q.seen \in Nat /\ q.seen <= gen
    /\ q.seen = gen /\ Quiet =>
         /\ mem[q.role] = q.password
         /\ q.pc = "verified" => q.role = "viewer" \/ mem["totp"] = q.totp

SessionsSound ==
  /\ \A s \in sessions : SessionOK(s)
  /\ \A r \in Requests : LoginOK(req[r])

EditOK(q) == q.pc \in {"read", "truncated"} /\ ~torn => q.copy = acked

Complete == ~torn /\ (\A r \in Requests : req[r].pc # "truncated") => env = acked

InForce ==
  ~torn /\ ~behind /\ (\A r \in Requests : req[r].pc # "written") =>
    \A k \in Credentials : acked[k] # Absent => mem[k] = acked[k]

ConfigSound ==
  /\ \A r \in Requests : EditOK(req[r])
  /\ Complete
  /\ InForce

IInv == GuardInv /\ Typed /\ Exclusive /\ SessionsSound /\ ConfigSound

\* A fresh process, with somebody logged in, satisfies the invariant.
LEMMA InitIInv == Init => IInv
<1> SUFFICES ASSUME Init PROVE IInv
  OBVIOUS
<1>1. MaxVersion \in Nat /\ MaxVersion >= 1 /\ "none" \notin Requests
  BY WizardAccessAssumption
<1>2. GuardInv
  BY NewGuardInv, LoginGuardAssumption DEF Init
<1>3. /\ env["admin"] = 1 /\ env["viewer"] = 1 /\ env["totp"] = Absent /\ env \in Files
      /\ boot["admin"] = 1 /\ boot["viewer"] = 0 /\ boot["totp"] = 0
      /\ boot \in [Credentials -> 0 .. MaxVersion]
  BY <1>1 DEF Init, Files, Keys, Credentials, Environment, Absent
<1>4. mem = boot /\ mem \in [Credentials -> 0 .. Generated]
  <2>1. mem = [boot EXCEPT !["admin"] = 1]
    <3>1. mem = Load(boot) /\ boot["admin"] # 0
      BY <1>3 DEF Init
    <3>2. mem = [boot EXCEPT !["admin"] = boot["admin"]]
      BY <3>1 DEF Load
    <3>3. QED
      BY <1>3, <3>2
  <2>2. boot \in [Credentials -> 0 .. Generated]
    BY <1>1, <1>3 DEF Generated
  <2>3. mem = boot
    BY <1>3, <2>1, <2>2
  <2>4. QED
    BY <2>2, <2>3
<1>5. Typed
  BY <1>1, <1>3, <1>4 DEF Init, Typed, TypedRequest, Phases, Idle
<1>6. Exclusive /\ ConfigSound
  BY DEF Init, Exclusive, Editing, ConfigSound, EditOK, Complete, InForce, Idle
<1>7. SessionsSound
  BY <1>3, <1>4 DEF Init, SessionsSound, SessionOK, LoginOK, Current, Token, Idle
<1>8. QED
  BY <1>2, <1>5, <1>6, <1>7 DEF IInv

\* A step of one request leaves the others where they are.
LEMMA OthersStay ==
  ASSUME Typed, NEW r \in Requests, NEW q, Goto(r, q)
  PROVE  /\ req' = [p \in Requests |-> req'[p]] /\ req'[r] = q
         /\ \A p \in Requests : p # r => req'[p] = req[p]
BY DEF Typed, Goto

(***************************************************************************)
(* A step that takes a request from one phase to another and changes no    *)
(* credentials preserves what is claimed of sessions, if the claim holds   *)
(* of where the request now is.                                            *)
(***************************************************************************)
LEMMA SessionsFrame ==
  ASSUME Typed, SessionsSound, NEW r \in Requests, NEW q, Goto(r, q),
         UNCHANGED <<mem, gen, sessions>>,
         req[r].pc # "reloaded", q.pc # "reloaded", LoginOK(q)
  PROVE  SessionsSound'
<1>1. /\ req'[r] = q
      /\ \A p \in Requests : p # r => req'[p] = req[p]
  BY OthersStay
<1>2. Quiet' <=> Quiet
  BY <1>1 DEF Quiet
<1>3. \A s \in sessions : SessionOK(s)'
  BY <1>2 DEF SessionsSound, SessionOK, Current
<1>4. LoginOK(q)'
  BY <1>2 DEF LoginOK
<1>5. \A p \in Requests : p # r => LoginOK(req[p])'
  BY <1>1, <1>2 DEF SessionsSound, LoginOK
<1>6. QED
  BY <1>1, <1>3, <1>4, <1>5 DEF SessionsSound, LoginOK

(***************************************************************************)
(* A step that neither edits the file nor ends an edit preserves what is   *)
(* claimed of the configuration.                                           *)
(***************************************************************************)
LEMMA ConfigFrame ==
  ASSUME Typed, ConfigSound, NEW r \in Requests, NEW q, Goto(r, q),
         UNCHANGED <<env, mem, acked, torn, behind>>,
         req[r].pc \notin {"truncated", "written"}, EditOK(q), q.pc # "truncated"
  PROVE  ConfigSound'
<1>1. /\ req'[r] = q
      /\ \A p \in Requests : p # r => req'[p] = req[p]
  BY OthersStay
<1>2. \A p \in Requests : EditOK(req[p])'
  BY <1>1 DEF ConfigSound, EditOK
<1>3. Complete'
  BY <1>1 DEF ConfigSound, Complete
<1>4. InForce'
  BY <1>1 DEF ConfigSound, InForce
<1>5. QED
  BY <1>2, <1>3, <1>4 DEF ConfigSound

\* Types and the lock, for a step that leaves both files and the credentials alone.
LEMMA RequestFrame ==
  ASSUME Typed, Exclusive, NEW r \in Requests, NEW q, Goto(r, q), TypedRequest(q),
         UNCHANGED <<env, boot, genFile, mem, gen, acked>>,
         torn' \in BOOLEAN, behind' \in BOOLEAN,
         \/ held' = held /\ (q.pc \in Editing => req[r].pc \in Editing)
         \/ held = "none" /\ held' = r
         \/ held = r /\ held' = "none" /\ q.pc \notin Editing
  PROVE  Typed' /\ Exclusive'
<1>1. /\ req' = [p \in Requests |-> req'[p]] /\ req'[r] = q
      /\ \A p \in Requests : p # r => req'[p] = req[p]
  BY OthersStay
<1>2. \A p \in Requests : TypedRequest(req'[p])
  BY <1>1 DEF Typed
<1>3. Typed'
  BY <1>1, <1>2 DEF Typed, TypedRequest
<1>4. Exclusive'
  BY <1>1, WizardAccessAssumption DEF Exclusive, Typed
<1>5. QED
  BY <1>3, <1>4

-------------------------------------------------------------------------------
(***************************************************************************)
(* Whatever a request does away from the file and before it signs.         *)
(***************************************************************************)
LEMMA Elsewhere ==
  ASSUME IInv, GuardInv', NEW r \in Requests, NEW q, Goto(r, q),
         TypedRequest(q), LoginOK(q), q.pc \notin Editing, req[r].pc \notin Editing,
         UNCHANGED <<files, creds, held, sessions, history>>
  PROVE  IInv'
<1>1. Typed /\ Exclusive /\ SessionsSound /\ ConfigSound
  BY DEF IInv
<1>2. /\ UNCHANGED <<env, boot, genFile, mem, gen, held, sessions, acked, torn, behind>>
      /\ torn \in BOOLEAN /\ behind \in BOOLEAN
  BY <1>1 DEF files, creds, history, Typed
<1>3. /\ req[r].pc \notin {"truncated", "written", "reloaded"}
      /\ q.pc \notin {"read", "truncated", "reloaded"} /\ EditOK(q)
  BY DEF Editing, EditOK
<1>4. SessionsSound'
  BY <1>1, <1>2, <1>3, SessionsFrame
<1>5. ConfigSound'
  BY <1>1, <1>2, <1>3, ConfigFrame
<1>6. Typed' /\ Exclusive'
  BY <1>1, <1>2, RequestFrame
<1>7. QED
  BY <1>4, <1>5, <1>6 DEF IInv

\* A login begins; the guard has let it pass.
LEMMA BeginLoginIInv ==
  ASSUME IInv, NEW r \in Requests, NEW password, NEW code, BeginLogin(r, password, code)
  PROVE  IInv'
<1> DEFINE q == [pc |-> "presented", password |-> password, code |-> code]
<1>1. /\ TypedRequest(q) /\ LoginOK(q) /\ q.pc \notin Editing /\ req[r].pc \notin Editing
      /\ Goto(r, q) /\ UNCHANGED <<files, creds, held, sessions, history>>
  BY DEF BeginLogin, TypedRequest, LoginOK, Phases, Editing, Idle
<1>2. GuardInv'
  BY PassInv DEF BeginLogin, IInv
<1> HIDE DEF q
<1>3. QED
  BY <1>1, <1>2, Elsewhere

\* A password that matches does so in the present generation.
LEMMA MatchIInv ==
  ASSUME IInv, NEW r \in Requests, Match(r)
  PROVE  IInv'
<1> DEFINE role == RoleOf(req[r].password)
           q == IF role = "none" THEN [pc |-> "wrong"]
                ELSE [pc |-> "matched", password |-> req[r].password, code |-> req[r].code,
                      role |-> role, seen |-> gen]
<1>1. /\ Goto(r, q) /\ req[r].pc = "presented" /\ UNCHANGED guardVars
      /\ UNCHANGED <<files, creds, held, sessions, history>>
  BY DEF Match
<1>2. role # "none" => role \in {"admin", "viewer"} /\ mem[role] = req[r].password
  BY DEF RoleOf
<1>3. gen \in Nat
  BY DEF IInv, Typed
<1> HIDE DEF role
<1>4. /\ TypedRequest(q) /\ LoginOK(q) /\ q.pc \notin Editing
  BY <1>2, <1>3 DEF TypedRequest, LoginOK, Phases, Editing
<1> HIDE DEF q
<1>5. GuardInv' /\ req[r].pc \notin Editing
  BY <1>1, StillInv DEF IInv, Editing
<1>6. QED
  BY <1>1, <1>4, <1>5, Elsewhere

\* What the code is checked against is what is in force in the generation seen,
\* unless a change is between reload and bump.
LEMMA CheckCodeIInv ==
  ASSUME IInv, NEW r \in Requests, CheckCode(r)
  PROVE  IInv'
<1> DEFINE q == IF ~NeedsCode(req[r].role) \/ req[r].code = mem["totp"]
                THEN [pc |-> "verified", role |-> req[r].role, seen |-> req[r].seen,
                      password |-> req[r].password, totp |-> mem["totp"]]
                ELSE IF req[r].code = 0 THEN Idle ELSE [pc |-> "wrong"]
<1>1. /\ Goto(r, q) /\ req[r].pc = "matched" /\ UNCHANGED guardVars
      /\ UNCHANGED <<files, creds, held, sessions, history>>
  BY DEF CheckCode
<1>2. LoginOK(req[r])
  BY DEF IInv, SessionsSound
<1>3. /\ TypedRequest(q) /\ LoginOK(q) /\ q.pc \notin Editing
  BY <1>1, <1>2 DEF TypedRequest, LoginOK, Phases, Editing, Idle
<1> HIDE DEF q
<1>4. GuardInv' /\ req[r].pc \notin Editing
  BY <1>1, StillInv DEF IInv, Editing
<1>5. QED
  BY <1>1, <1>3, <1>4, Elsewhere

\* A failed login strikes its address.
LEMMA FailLoginIInv ==
  ASSUME IInv, NEW r \in Requests, FailLogin(r)
  PROVE  IInv'
<1>1. /\ TypedRequest(Idle) /\ LoginOK(Idle) /\ Idle.pc \notin Editing
      /\ req[r].pc \notin Editing
      /\ Goto(r, Idle) /\ UNCHANGED <<files, creds, held, sessions, history>>
  BY DEF FailLogin, TypedRequest, LoginOK, Phases, Editing, Idle
<1>2. GuardInv'
  BY RecordFailureInv DEF FailLogin, IInv
<1>3. QED
  BY <1>1, <1>2, Elsewhere

\* A login that has succeeded clears its address.
LEMMA GreetIInv ==
  ASSUME IInv, NEW r \in Requests, Greet(r)
  PROVE  IInv'
<1>1. /\ TypedRequest(Idle) /\ LoginOK(Idle) /\ Idle.pc \notin Editing
      /\ req[r].pc \notin Editing
      /\ Goto(r, Idle) /\ UNCHANGED <<files, creds, held, sessions, history>>
  BY DEF Greet, TypedRequest, LoginOK, Phases, Editing, Idle
<1>2. GuardInv'
  BY ResetInv DEF Greet, IInv
<1>3. QED
  BY <1>1, <1>2, Elsewhere

\* A change is accepted for the queue; nothing is touched.
LEMMA BeginPutIInv ==
  ASSUME IInv, NEW r \in Requests, NEW key \in Keys, NEW value \in 0 .. MaxVersion,
         BeginPut(r, key, value)
  PROVE  IInv'
<1> DEFINE q == [pc |-> "put", key |-> key, value |-> value]
<1>1. /\ TypedRequest(q) /\ LoginOK(q) /\ q.pc \notin Editing /\ req[r].pc \notin Editing
      /\ Goto(r, q) /\ UNCHANGED <<files, creds, held, sessions, history>>
  BY DEF BeginPut, TypedRequest, LoginOK, Phases, Editing, Idle
<1>2. GuardInv'
  BY StillInv DEF BeginPut, IInv
<1> HIDE DEF q
<1>3. QED
  BY <1>1, <1>2, Elsewhere

\* The new token carries the present generation; if that is the one seen with the
\* password, the password is in force.
LEMMA SignIInv ==
  ASSUME IInv, NEW r \in Requests, Sign(r)
  PROVE  IInv'
<1> DEFINE q == [pc |-> "signed"]
           s == Token(req[r].role, gen, req[r].password, req[r].totp, req[r].seen)
<1>1. Typed /\ Exclusive /\ SessionsSound /\ ConfigSound
  BY DEF IInv
<1>2. /\ Goto(r, q) /\ req[r].pc = "verified" /\ sessions' = sessions \cup {s}
      /\ UNCHANGED <<env, boot, genFile, mem, gen, held, acked, torn, behind, guardVars>>
      /\ torn \in BOOLEAN /\ behind \in BOOLEAN /\ gen \in Nat
  BY <1>1 DEF Sign, files, creds, history, Typed
<1>3. TypedRequest(q) /\ q.pc \notin Editing /\ LoginOK(q) /\ EditOK(q)
  BY DEF TypedRequest, Phases, Editing, LoginOK, EditOK
<1>4. /\ req'[r] = q
      /\ \A p \in Requests : p # r => req'[p] = req[p]
  BY <1>1, <1>2, OthersStay
<1>5. Quiet' <=> Quiet
  BY <1>2, <1>4 DEF Quiet
<1>6. ASSUME NEW t \in sessions' PROVE SessionOK(t)'
  <2>1. CASE t \in sessions
    BY <1>1, <1>2, <1>5, <2>1 DEF SessionsSound, SessionOK, Current
  <2>2. CASE t = s
    <3>1. /\ t.role = req[r].role /\ t.gen = gen /\ t.password = req[r].password
          /\ t.totp = req[r].totp /\ t.seen = req[r].seen
      BY <2>2 DEF Token
    <3>2. LoginOK(req[r])
      BY <1>1 DEF SessionsSound
    <3> HIDE DEF s
    <3>3. QED
      BY <1>2, <1>5, <3>1, <3>2 DEF SessionOK, LoginOK, Current
  <2>3. QED
    BY <1>2, <1>6, <2>1, <2>2
<1> HIDE DEF q, s
<1>7. SessionsSound'
  <2>1. \A p \in Requests : LoginOK(req[p])'
    BY <1>1, <1>2, <1>3, <1>4, <1>5 DEF SessionsSound, LoginOK
  <2>2. QED
    BY <1>6, <2>1 DEF SessionsSound
<1>8. ConfigSound'
  BY <1>1, <1>2, <1>3, ConfigFrame DEF Editing
<1>9. Typed' /\ Exclusive'
  BY <1>1, <1>2, <1>3, RequestFrame
<1>10. QED
  BY <1>2, <1>7, <1>8, <1>9, StillInv DEF IInv

-------------------------------------------------------------------------------
(***************************************************************************)
(* The edit of the file.  Nobody else is editing it.                       *)
(***************************************************************************)
LEMMA OnlyEditor ==
  ASSUME Exclusive, NEW r \in Requests, req[r].pc \in Editing
  PROVE  held = r /\ \A p \in Requests : p # r => req[p].pc \notin Editing
BY DEF Exclusive

\* The lock is taken when nobody edits.
LEMMA LockIInv ==
  ASSUME IInv, NEW r \in Requests, Lock(r)
  PROVE  IInv'
<1> DEFINE q == [pc |-> "locked", key |-> req[r].key, value |-> req[r].value]
<1>1. Typed /\ Exclusive /\ SessionsSound /\ ConfigSound
  BY DEF IInv
<1>2. /\ Goto(r, q) /\ req[r].pc = "put" /\ held = "none" /\ held' = r
      /\ UNCHANGED <<env, boot, genFile, mem, gen, sessions, acked, torn, behind, guardVars>>
      /\ torn \in BOOLEAN /\ behind \in BOOLEAN /\ TypedRequest(req[r])
  BY <1>1 DEF Lock, files, creds, history, Typed
<1>3. TypedRequest(q) /\ q.pc = "locked" /\ LoginOK(q) /\ EditOK(q)
  BY <1>2 DEF TypedRequest, Phases, LoginOK, EditOK
<1> HIDE DEF q
<1>4. SessionsSound'
  BY <1>1, <1>2, <1>3, SessionsFrame
<1>5. ConfigSound'
  BY <1>1, <1>2, <1>3, ConfigFrame
<1>6. Typed' /\ Exclusive'
  BY <1>1, <1>2, <1>3, RequestFrame
<1>7. QED
  BY <1>2, <1>4, <1>5, <1>6, StillInv DEF IInv

\* The copy read is what has been acknowledged.
LEMMA ReadEnvIInv ==
  ASSUME IInv, NEW r \in Requests, ReadEnv(r)
  PROVE  IInv'
<1> DEFINE q == [pc |-> "read", key |-> req[r].key, value |-> req[r].value, copy |-> env]
<1>1. Typed /\ Exclusive /\ SessionsSound /\ ConfigSound
  BY DEF IInv
<1>2. /\ req[r].pc = "locked" /\ req[r].pc \in Editing
      /\ UNCHANGED <<env, boot, genFile, mem, gen, sessions, acked, torn, behind, guardVars>>
      /\ torn \in BOOLEAN /\ behind \in BOOLEAN /\ TypedRequest(req[r])
  BY <1>1 DEF ReadEnv, files, creds, history, Typed, Editing
<1>3. held = r /\ \A p \in Requests : p # r => req[p].pc \notin Editing
  BY <1>1, <1>2, OnlyEditor
<1>4. GuardInv'
  BY <1>2, StillInv DEF IInv
<1>5. CASE Goto(r, q) /\ UNCHANGED held
  <2>1. ~torn => env = acked
    BY <1>1, <1>2, <1>3 DEF ConfigSound, Complete, Editing
  <2>2. TypedRequest(q) /\ q.pc = "read" /\ LoginOK(q) /\ EditOK(q)
    BY <1>1, <1>2, <2>1 DEF TypedRequest, Phases, LoginOK, EditOK, Typed
  <2> HIDE DEF q
  <2>3. SessionsSound'
    BY <1>1, <1>2, <1>5, <2>2, SessionsFrame
  <2>4. ConfigSound'
    BY <1>1, <1>2, <1>5, <2>2, ConfigFrame
  <2>5. Typed' /\ Exclusive'
    BY <1>1, <1>2, <1>5, <2>2, RequestFrame
  <2>6. QED
    BY <1>4, <2>3, <2>4, <2>5 DEF IInv
<1>6. CASE Goto(r, Idle) /\ held' = "none"
  <2>1. TypedRequest(Idle) /\ Idle.pc = "idle" /\ LoginOK(Idle) /\ EditOK(Idle)
        /\ Idle.pc \notin Editing
    BY DEF TypedRequest, Phases, LoginOK, EditOK, Idle, Editing
  <2>2. SessionsSound'
    BY <1>1, <1>2, <1>6, <2>1, SessionsFrame
  <2>3. ConfigSound'
    BY <1>1, <1>2, <1>6, <2>1, ConfigFrame
  <2>4. Typed' /\ Exclusive'
    BY <1>1, <1>2, <1>3, <1>6, <2>1, RequestFrame
  <2>5. QED
    BY <1>4, <2>2, <2>3, <2>4 DEF IInv
<1>7. QED
  BY <1>5, <1>6 DEF ReadEnv

\* The file is empty; what was acknowledged is in the copy.
LEMMA TruncateIInv ==
  ASSUME IInv, NEW r \in Requests, Truncate(r)
  PROVE  IInv'
<1> DEFINE q == [pc |-> "truncated", key |-> req[r].key, value |-> req[r].value,
                 copy |-> req[r].copy]
<1>1. Typed /\ Exclusive /\ SessionsSound /\ ConfigSound
  BY DEF IInv
<1>2. /\ Goto(r, q) /\ req[r].pc = "read" /\ req[r].pc \in Editing
      /\ env' = [k \in Keys |-> Absent]
      /\ UNCHANGED <<boot, genFile, mem, gen, held, sessions, acked, torn, behind, guardVars>>
      /\ TypedRequest(req[r]) /\ EditOK(req[r])
  BY <1>1 DEF Truncate, creds, history, Typed, ConfigSound, Editing
<1>3. TypedRequest(q) /\ q.pc = "truncated" /\ LoginOK(q) /\ EditOK(q)
  BY <1>2 DEF TypedRequest, Phases, LoginOK, EditOK
<1> HIDE DEF q
<1>4. /\ req' = [p \in Requests |-> req'[p]] /\ req'[r] = q
      /\ \A p \in Requests : p # r => req'[p] = req[p]
  BY <1>1, <1>2, OthersStay
<1>5. env' \in Files
  BY <1>2, WizardAccessAssumption DEF Files, Absent
<1>6. Typed'
  BY <1>1, <1>2, <1>3, <1>4, <1>5 DEF Typed, TypedRequest
<1>7. Exclusive'
  BY <1>1, <1>2, <1>4 DEF Exclusive
<1>8. SessionsSound'
  BY <1>1, <1>2, <1>3, SessionsFrame
<1>9. ConfigSound'
  <2>1. \A p \in Requests : EditOK(req[p])'
    BY <1>1, <1>2, <1>3, <1>4 DEF ConfigSound, EditOK
  <2>2. Complete'
    BY <1>3, <1>4 DEF Complete
  <2>3. InForce'
    BY <1>1, <1>2, <1>3, <1>4 DEF ConfigSound, InForce
  <2>4. QED
    BY <2>1, <2>2, <2>3 DEF ConfigSound
<1>10. QED
  BY <1>2, <1>6, <1>7, <1>8, <1>9, StillInv DEF IInv

\* The file becomes what is acknowledged; for credentials the reload is still to come.
LEMMA WriteEnvIInv ==
  ASSUME IInv, NEW r \in Requests, WriteEnv(r)
  PROVE  IInv'
<1> DEFINE key == req[r].key
           value == req[r].value
           q == IF Touches(key) THEN [pc |-> "written"] ELSE Idle
<1>1. Typed /\ Exclusive /\ SessionsSound /\ ConfigSound
  BY DEF IInv
<1>2. /\ Goto(r, q) /\ req[r].pc = "truncated" /\ req[r].pc \in Editing
      /\ env' = [req[r].copy EXCEPT ![key] = value]
      /\ acked' = [acked EXCEPT ![key] = value]
      /\ UNCHANGED <<boot, genFile, mem, gen, sessions, torn, behind, guardVars>>
      /\ IF Touches(key) THEN held' = held ELSE held' = "none"
  BY <1>1 DEF WriteEnv, creds, Editing
<1>3. /\ key \in Keys /\ value \in 0 .. MaxVersion /\ req[r].copy \in Files /\ acked \in Files
      /\ ~torn => req[r].copy = acked
  BY <1>1, <1>2 DEF Typed, TypedRequest, ConfigSound, EditOK
<1>4. held = r /\ \A p \in Requests : p # r => req[p].pc \notin Editing
  BY <1>1, <1>2, OnlyEditor
<1>5. TypedRequest(q) /\ LoginOK(q) /\ EditOK(q)'
      /\ q.pc = IF Touches(key) THEN "written" ELSE "idle"
  BY DEF TypedRequest, Phases, LoginOK, EditOK, Idle
<1>6. /\ env' \in Files /\ acked' \in Files
      /\ ~torn => env' = acked'
  <2> HIDE DEF key, value
  <2>1. value \in Absent .. MaxVersion
    BY <1>3, WizardAccessAssumption DEF Absent
  <2>2. QED
    BY <1>2, <1>3, <2>1 DEF Files
<1>7. ~Touches(key) => key \notin Credentials
  BY DEF Touches
<1>8. \A k \in Keys : k # key => acked'[k] = acked[k]
  BY <1>2, <1>3 DEF Files
<1> HIDE DEF q, key, value
<1>9. /\ req' = [p \in Requests |-> req'[p]] /\ req'[r] = q
      /\ \A p \in Requests : p # r => req'[p] = req[p]
  BY <1>1, <1>2, OthersStay
<1>10. Typed'
  BY <1>1, <1>2, <1>4, <1>5, <1>6, <1>9 DEF Typed, TypedRequest
<1>11. Exclusive'
  BY <1>2, <1>4, <1>5, <1>9 DEF Exclusive, Editing
<1>12. SessionsSound'
  BY <1>1, <1>2, <1>5, SessionsFrame
<1>13. ConfigSound'
  <2>1. \A p \in Requests : EditOK(req[p])'
    BY <1>4, <1>5, <1>9 DEF EditOK, Editing
  <2>2. Complete'
    BY <1>2, <1>6 DEF Complete
  <2>3. InForce'
    <3>1. CASE Touches(key)
      BY <1>5, <1>9, <3>1 DEF InForce
    <3>2. CASE ~Touches(key)
      <4>1. \A p \in Requests : req[p].pc # "written"
        BY <1>2, <1>4 DEF Editing
      <4>2. \A k \in Credentials : k \in Keys /\ acked'[k] = acked[k]
        BY <1>7, <1>8, <3>2 DEF Keys
      <4>3. QED
        BY <1>1, <1>2, <4>1, <4>2 DEF ConfigSound, InForce
    <3>3. QED
      BY <3>1, <3>2
  <2>4. QED
    BY <2>1, <2>2, <2>3 DEF ConfigSound
<1>14. QED
  BY <1>2, <1>10, <1>11, <1>12, <1>13, StillInv DEF IInv

\* A failed write is remembered and claims nothing of the file.
LEMMA WriteFailsIInv ==
  ASSUME IInv, NEW r \in Requests, WriteFails(r)
  PROVE  IInv'
<1>1. Typed /\ Exclusive /\ SessionsSound /\ ConfigSound
  BY DEF IInv
<1>2. /\ Goto(r, Idle) /\ req[r].pc = "truncated" /\ req[r].pc \in Editing
      /\ torn' = TRUE /\ held' = "none"
      /\ UNCHANGED <<env, boot, genFile, mem, gen, sessions, acked, behind, guardVars>>
      /\ behind \in BOOLEAN
  BY <1>1 DEF WriteFails, files, creds, Editing, Typed
<1>3. held = r
  BY <1>1, <1>2, OnlyEditor
<1>4. TypedRequest(Idle) /\ Idle.pc = "idle" /\ LoginOK(Idle) /\ Idle.pc \notin Editing
  BY DEF TypedRequest, Phases, LoginOK, Idle, Editing
<1>5. SessionsSound'
  BY <1>1, <1>2, <1>4, SessionsFrame
<1>6. Typed' /\ Exclusive'
  BY <1>1, <1>2, <1>3, <1>4, RequestFrame
<1>7. ConfigSound'
  BY <1>2 DEF ConfigSound, EditOK, Complete, InForce
<1>8. QED
  BY <1>2, <1>5, <1>6, <1>7, StillInv DEF IInv

\* From here to the bump nothing is claimed of sessions; a reload that reads the file
\* reads what is acknowledged.
LEMMA ReloadIInv ==
  ASSUME IInv, NEW r \in Requests, Reload(r)
  PROVE  IInv'
<1> DEFINE q == [pc |-> "reloaded"]
<1>1. Typed /\ Exclusive /\ SessionsSound /\ ConfigSound
  BY DEF IInv
<1>2. /\ Goto(r, q) /\ req[r].pc = "written" /\ req[r].pc \in Editing
      /\ UNCHANGED <<env, boot, genFile, gen, held, sessions, acked, torn, guardVars>>
      /\ \/ /\ mem' = [k \in Credentials |-> IF env[k] = Absent THEN mem[k] ELSE env[k]]
            /\ behind' = FALSE
         \/ behind' = TRUE /\ mem' = mem
  BY DEF Reload, files, Editing
<1>3. held = r /\ \A p \in Requests : p # r => req[p].pc \notin Editing
  BY <1>1, <1>2, OnlyEditor
<1>4. /\ req' = [p \in Requests |-> req'[p]] /\ req'[r] = q
      /\ \A p \in Requests : p # r => req'[p] = req[p]
  BY <1>1, <1>2, OthersStay
<1>5. mem' \in [Credentials -> 0 .. Generated] /\ behind' \in BOOLEAN
  <2>1. \A k \in Credentials : env[k] \in Absent .. MaxVersion /\ mem[k] \in 0 .. Generated
    BY <1>1 DEF Typed, Files, Credentials, Keys
  <2>2. \A k \in Credentials : env[k] # Absent => env[k] \in 0 .. Generated
    BY <2>1, WizardAccessAssumption DEF Absent, Generated
  <2>3. QED
    BY <1>1, <1>2, <2>1, <2>2 DEF Typed
<1>6. Typed'
  BY <1>1, <1>2, <1>4, <1>5 DEF Typed, TypedRequest, Phases
<1>7. Exclusive'
  BY <1>2, <1>3, <1>4 DEF Exclusive
<1>8. ~Quiet'
  BY <1>4 DEF Quiet
<1>9. SessionsSound'
  <2>1. \A t \in sessions : SessionOK(t)'
    BY <1>1, <1>2, <1>8 DEF SessionsSound, SessionOK
  <2>2. \A p \in Requests : LoginOK(req[p])'
    BY <1>1, <1>2, <1>4, <1>8 DEF SessionsSound, LoginOK
  <2>3. QED
    BY <1>2, <2>1, <2>2 DEF SessionsSound
<1>10. ConfigSound'
  <2>1. \A p \in Requests : EditOK(req[p])'
    BY <1>1, <1>2, <1>4 DEF ConfigSound, EditOK
  <2>2. Complete'
    BY <1>1, <1>2, <1>4 DEF ConfigSound, Complete
  <2>3. ~torn => env = acked
    BY <1>1, <1>2, <1>3 DEF ConfigSound, Complete, Editing
  <2>4. InForce'
    BY <1>2, <2>3 DEF InForce
  <2>5. QED
    BY <2>1, <2>2, <2>4 DEF ConfigSound
<1>11. QED
  BY <1>2, <1>6, <1>7, <1>9, <1>10, StillInv DEF IInv

\* No session and no login under way has seen the new generation.
LEMMA BumpIInv ==
  ASSUME IInv, NEW r \in Requests, Bump(r)
  PROVE  IInv'
<1>1. Typed /\ Exclusive /\ SessionsSound /\ ConfigSound
  BY DEF IInv
<1>2. /\ Goto(r, Idle) /\ req[r].pc = "reloaded" /\ req[r].pc \in Editing
      /\ gen' = gen + 1 /\ held' = "none" /\ gen \in Nat
      /\ genFile' \in {genFile, [gen |-> gen + 1, hash |-> Hash(mem)]}
      /\ UNCHANGED <<env, boot, mem, sessions, acked, torn, behind, guardVars>>
  BY <1>1 DEF Bump, history, Editing, Typed
<1>3. held = r /\ \A p \in Requests : p # r => req[p].pc \notin Editing
  BY <1>1, <1>2, OnlyEditor
<1>4. /\ req' = [p \in Requests |-> req'[p]] /\ req'[r] = Idle
      /\ \A p \in Requests : p # r => req'[p] = req[p]
  BY <1>1, <1>2, OthersStay
<1>5. TypedRequest(Idle) /\ Idle.pc = "idle" /\ LoginOK(Idle)' /\ EditOK(Idle)
  BY DEF TypedRequest, Phases, LoginOK, EditOK, Idle
<1>6. genFile'.gen \in Nat
  BY <1>1, <1>2 DEF Typed
<1>7. Typed'
  BY <1>1, <1>2, <1>4, <1>5, <1>6 DEF Typed, TypedRequest
<1>8. Exclusive'
  BY <1>3, <1>4, <1>5 DEF Exclusive, Editing
<1>9. SessionsSound'
  <2>1. \A t \in sessions : SessionOK(t)'
    BY <1>1, <1>2 DEF SessionsSound, SessionOK
  <2>2. \A p \in Requests : LoginOK(req[p])'
    BY <1>1, <1>2, <1>4, <1>5 DEF SessionsSound, LoginOK
  <2>3. QED
    BY <1>2, <2>1, <2>2 DEF SessionsSound
<1>10. ConfigSound'
  BY <1>1, <1>2, <1>5, ConfigFrame
<1>11. QED
  BY <1>2, <1>7, <1>8, <1>9, <1>10, StillInv DEF IInv

-------------------------------------------------------------------------------
\* A restart ends every session and every request; a write it cuts off is remembered.
LEMMA RestartIInv ==
  ASSUME IInv, NEW recreated \in BOOLEAN, Restart(recreated)
  PROVE  IInv'
<1> DEFINE stored == IF recreated THEN NoGen ELSE genFile
<1>1. Typed /\ ConfigSound /\ GuardInv /\ MaxVersion \in Nat
  BY WizardAccessAssumption DEF IInv
<1>2. /\ boot' = IF recreated THEN Environment(env) ELSE boot
      /\ mem' = Load(boot')
      /\ gen' = StartGen(stored, Hash(mem'))
      /\ genFile' = IF stored.hash = Hash(mem') THEN stored
                    ELSE [gen |-> gen', hash |-> Hash(mem')]
      /\ ResetIP /\ req' = [r \in Requests |-> Idle] /\ held' = "none" /\ sessions' = {}
      /\ torn' = (torn \/ \E r \in Requests : req[r].pc = "truncated")
      /\ behind' = TRUE /\ now' = now /\ env' = env /\ acked' = acked
  BY DEF Restart
<1>3. stored.gen \in Nat
  BY <1>1 DEF Typed, NoGen
<1> HIDE DEF stored
<1>4. boot' \in [Credentials -> 0 .. MaxVersion]
  <2>1. Environment(env) \in [Credentials -> 0 .. MaxVersion]
    BY <1>1 DEF Typed, Files, Environment, Credentials, Keys, Absent
  <2>2. QED
    BY <1>1, <1>2, <2>1 DEF Typed
<1>5. mem' \in [Credentials -> 0 .. Generated]
  <2>1. ASSUME NEW e \in [Credentials -> 0 .. MaxVersion]
        PROVE  Load(e) \in [Credentials -> 0 .. Generated]
    <3> DEFINE first == IF e["admin"] = 0 THEN Generated ELSE e["admin"]
    <3>1. Load(e) = [e EXCEPT !["admin"] = first]
      BY DEF Load
    <3>2. first \in 0 .. Generated /\ e \in [Credentials -> 0 .. Generated]
      BY <1>1 DEF Generated, Credentials
    <3> HIDE DEF first
    <3>3. QED
      BY <3>1, <3>2
  <2>2. QED
    BY <1>2, <1>4, <2>1
<1>6. gen' \in Nat
  BY <1>2, <1>3 DEF StartGen
<1>7. genFile'.gen \in Nat
  BY <1>2, <1>3, <1>6
<1>8. torn' \in BOOLEAN /\ behind' \in BOOLEAN
  BY <1>1, <1>2 DEF Typed
<1>9. \A r \in Requests : req'[r] = Idle
  BY <1>2
<1>10. Typed'
  <2>1. TypedRequest(Idle)
    BY DEF TypedRequest, Phases, Idle
  <2>2. req' = [r \in Requests |-> req'[r]] /\ \A r \in Requests : TypedRequest(req'[r])
    BY <1>2, <1>9, <2>1
  <2>3. env' \in Files /\ acked' \in Files /\ held' \in Requests \cup {"none"}
    BY <1>1, <1>2 DEF Typed
  <2>4. QED
    BY <1>4, <1>5, <1>6, <1>7, <1>8, <2>2, <2>3 DEF Typed, TypedRequest
<1>11. Exclusive' /\ SessionsSound'
  BY <1>2, <1>9 DEF Exclusive, Editing, SessionsSound, LoginOK, Idle
<1>12. ConfigSound'
  <2>1. \A r \in Requests : EditOK(req[r])'
    BY <1>9 DEF EditOK, Idle
  <2>2. Complete'
    BY <1>1, <1>2 DEF ConfigSound, Complete
  <2>3. InForce'
    BY <1>2 DEF InForce
  <2>4. QED
    BY <2>1, <2>2, <2>3 DEF ConfigSound
<1>13. GuardInv'
  BY <1>1, <1>2, ResetInv
<1>14. QED
  BY <1>10, <1>11, <1>12, <1>13 DEF IInv

\* A step that is the guard's alone.
LEMMA GuardStepIInv ==
  ASSUME IInv, GuardInv',
         UNCHANGED <<files, creds, held, req, sessions, history>>
  PROVE  IInv'
<1>1. UNCHANGED <<env, boot, genFile, mem, gen, held, req, sessions, acked, torn, behind>>
  BY DEF files, creds, history
<1>2. Typed' /\ Exclusive'
  BY <1>1 DEF IInv, Typed, TypedRequest, Exclusive
<1>3. SessionsSound'
  BY <1>1 DEF IInv, SessionsSound, SessionOK, LoginOK, Quiet, Current
<1>4. ConfigSound'
  BY <1>1 DEF IInv, ConfigSound, EditOK, Complete, InForce
<1>5. QED
  BY <1>2, <1>3, <1>4 DEF IInv

\* Every step preserves the invariant.
LEMMA NextIInv ==
  ASSUME IInv, [Next]_vars
  PROVE  IInv'
<1>1. CASE UNCHANGED vars
  <2>1. GuardInv'
    BY <1>1, StillInv DEF IInv, vars, guardVars
  <2>2. UNCHANGED <<files, creds, held, req, sessions, history>>
    BY <1>1 DEF vars, files, creds, history
  <2>3. QED
    BY <2>1, <2>2, GuardStepIInv
<1>2. ASSUME NEW r \in Requests, NEW password \in 1 .. MaxVersion, NEW code \in 0 .. MaxVersion,
             BeginLogin(r, password, code)
      PROVE  IInv'
  BY <1>2, BeginLoginIInv
<1>3. ASSUME NEW r \in Requests, Login(r)
      PROVE  IInv'
  BY <1>3, MatchIInv, CheckCodeIInv, FailLoginIInv, SignIInv, GreetIInv DEF Login
<1>4. ASSUME NEW r \in Requests, NEW key \in Keys, NEW value \in 0 .. MaxVersion,
             BeginPut(r, key, value)
      PROVE  IInv'
  BY <1>4, BeginPutIInv
<1>5. ASSUME NEW r \in Requests, Put(r)
      PROVE  IInv'
  BY <1>5, LockIInv, ReadEnvIInv, TruncateIInv, WriteEnvIInv, WriteFailsIInv, ReloadIInv,
     BumpIInv DEF Put, ChangeCredentials
<1>6. ASSUME NEW recreated \in BOOLEAN, Restart(recreated)
      PROVE  IInv'
  BY <1>6, RestartIInv
<1>7. CASE Cleanup /\ UNCHANGED <<files, creds, held, req, sessions, history, events>>
  BY <1>7, CleanupInv, GuardStepIInv DEF IInv
<1>8. CASE Tick /\ UNCHANGED <<files, creds, held, req, sessions, history, events>>
  BY <1>8, TickInv, GuardStepIInv DEF IInv
<1>9. QED
  BY <1>1, <1>2, <1>3, <1>4, <1>5, <1>6, <1>7, <1>8 DEF Next

\* The invariant is one of the specification.
THEOREM Inductive == Spec => []IInv
<1>1. Init => IInv
  BY InitIInv
<1>2. IInv /\ [Next]_vars => IInv'
  BY NextIInv
<1>3. QED
  BY <1>1, <1>2, PTL DEF Spec

-------------------------------------------------------------------------------
(***************************************************************************)
(* Types, and with them: a record of the guard is locked exactly when it   *)
(* holds MaxAttempts failures, whoever records, resets and sweeps at the   *)
(* same time; no session carries a generation still to come.               *)
(***************************************************************************)
THEOREM TypeCorrect == Spec => []TypeOK
<1>1. IInv => TypeOK
  BY DEF IInv, GuardInv, Typed, Files, SessionsSound, SessionOK, TypeOK
<1>2. QED
  BY <1>1, Inductive, PTL

(***************************************************************************)
(* An address is locked out only for MaxAttempts failures within one       *)
(* window, none of them before its last success.                           *)
(***************************************************************************)
THEOREM LockoutsDeserved == Spec => []LockoutDeserved
<1>1. IInv => LockoutDeserved
  BY GuardInvDeserved DEF IInv
<1>2. QED
  BY <1>1, Inductive, PTL

(***************************************************************************)
(* While a lockout runs, no login begins: of all the steps only BeginLogin *)
(* takes an idle request to the password check, and the guard it asks has  *)
(* the running lockout on record.                                          *)
(***************************************************************************)
THEOREM LockoutsHold == Spec => LockoutHolds
<1> DEFINE Running == lockout # None /\ now - lockout < Lockout
<1>1. ASSUME IInv, [Next]_vars, NEW r \in Requests, req[r] = Idle, req'[r].pc = "presented"
      PROVE  ~Running
  <2>1. Typed /\ GuardInv /\ Idle.pc = "idle"
    BY <1>1 DEF IInv, Idle
  <2>2. req'[r] # req[r]
    BY <1>1, <2>1
  <2>3. ASSUME NEW p \in Requests, NEW q, Goto(p, q) PROVE p = r
    BY <2>1, <2>2, <2>3, OthersStay
  <2>4. ASSUME NEW p \in Requests, NEW password, NEW code, BeginLogin(p, password, code)
        PROVE  ~Running
    BY <2>1, <2>4 DEF BeginLogin, Pass, Locked, GuardInv, Runs
  <2>5. ASSUME NEW p \in Requests, Login(p) PROVE FALSE
    <3>1. req[p].pc # "idle" /\ \E q : Goto(p, q)
      BY <2>5 DEF Login, Match, CheckCode, FailLogin, Sign, Greet
    <3>2. QED
      BY <1>1, <2>1, <2>3, <3>1
  <2>6. ASSUME NEW p \in Requests, NEW key, NEW value, BeginPut(p, key, value) PROVE FALSE
    <3> DEFINE q == [pc |-> "put", key |-> key, value |-> value]
    <3>1. Goto(p, q) /\ q.pc = "put"
      BY <2>6 DEF BeginPut
    <3> HIDE DEF q
    <3>2. p = r /\ req'[r] = q
      BY <2>1, <2>3, <3>1, OthersStay
    <3>3. QED
      BY <1>1, <3>1, <3>2
  <2>7. ASSUME NEW p \in Requests, Put(p) PROVE FALSE
    <3>1. req[p].pc # "idle" /\ \E q : Goto(p, q)
      BY <2>7 DEF Put, Lock, ReadEnv, Truncate, WriteEnv, WriteFails, ChangeCredentials, Reload,
                  Bump
    <3>2. QED
      BY <1>1, <2>1, <2>3, <3>1
  <2>8. ASSUME NEW recreated, Restart(recreated) PROVE FALSE
    BY <1>1, <2>2, <2>8 DEF Restart
  <2>9. CASE req' = req
    BY <2>2, <2>9
  <2>10. QED
    BY <1>1, <2>4, <2>5, <2>6, <2>7, <2>8, <2>9 DEF Next, vars
<1>2. IInv /\ [Next]_vars =>
        [\A r \in Requests :
           req[r] = Idle /\ req'[r].pc = "presented" =>
             ~(lockout # None /\ now - lockout < Lockout)]_vars
  BY <1>1
<1>3. QED
  BY <1>2, Inductive, PTL DEF Spec, LockoutHolds

(***************************************************************************)
(* However logins, changes of credentials and restarts interleave: a       *)
(* session that still validates was created with the credentials in force, *)
(* or its login straddled the change, or the change is not complete.       *)
(***************************************************************************)
THEOREM NoStaleSession == Spec => []StaleSessionOverlapped
<1>1. IInv => StaleSessionOverlapped
  <2> SUFFICES ASSUME IInv, NEW s \in sessions, Valid(s), ~Current(s), Quiet
               PROVE  s.seen < s.gen
    BY DEF StaleSessionOverlapped, Quiet
  <2>1. SessionOK(s) /\ gen \in Nat
    BY DEF IInv, SessionsSound, Typed
  <2>2. QED
    BY <2>1 DEF SessionOK, Valid
<1>2. QED
  BY <1>1, Inductive, PTL

(***************************************************************************)
(* No acknowledged change of .env is lost to a concurrent one.             *)
(***************************************************************************)
THEOREM AckedStands == Spec => []AckedConfigStands
<1>1. IInv => AckedConfigStands
  BY WizardAccessAssumption
  DEF IInv, Exclusive, Editing, ConfigSound, Complete, AckedConfigStands
<1>2. QED
  BY <1>1, Inductive, PTL

(***************************************************************************)
(* The credentials a login is checked against are those last written.      *)
(***************************************************************************)
THEOREM CredentialsStand == Spec => []CredentialsInForce
<1>1. IInv => CredentialsInForce
  BY WizardAccessAssumption
  DEF IInv, Exclusive, Editing, ConfigSound, InForce, CredentialsInForce
<1>2. QED
  BY <1>1, Inductive, PTL
===============================================================================

------------------------------- MODULE LoginGuard -------------------------------
(***************************************************************************)
(* The wizard's lockout of failing logins: LoginGuard                      *)
(* (services/wizard/internal/middleware/middleware.go), for one address;   *)
(* addresses do not meet.  Each method holds the guard's mutex throughout, *)
(* so each is one step of whoever calls it.                                *)
(*                                                                         *)
(* The steps are conjuncts of the callers' actions, see WizardAccess.      *)
(***************************************************************************)
EXTENDS Integers, Sequences

CONSTANTS
  MaxAttempts,  \* failures that lock (5)
  Window,       \* the failures' window (one minute), in ticks
  Lockout,      \* how long a lockout lasts (15 minutes), in ticks
  MaxTime       \* bound on the clock

ASSUME LoginGuardAssumption ==
  /\ MaxAttempts \in Nat \ {0}
  /\ Window \in Nat /\ Lockout \in Nat /\ MaxTime \in Nat

VARIABLES
  now,       \* time.Now()
  attempts,  \* LoginGuard.attempts of the address
  failed,    \* history: when failures were recorded since the last success
  lockout    \* history: when a lockout began that nobody under way has lifted

guardVars == <<now, attempts, failed, lockout>>

None == -1
NoRecord == [failures |-> 0, firstFail |-> None, lockedAt |-> None]

NewGuard == attempts = NoRecord /\ failed = <<>> /\ lockout = None

\* Mutant of Expired: a record is kept for the next failure whatever its age.
ExpiredNever(rec) == FALSE

Expired(rec) == now - rec.firstFail > Window

\* The record the next failure is added to.
Open ==
  IF attempts = NoRecord \/ Expired(attempts)
  THEN [failures |-> 0, firstFail |-> now, lockedAt |-> None]
  ELSE attempts

\* Mutant of Struck: only the failure after MaxAttempts locks.
StruckLate ==
  [failures |-> Open.failures + 1,
   firstFail |-> Open.firstFail,
   lockedAt |-> IF Open.failures >= MaxAttempts THEN now ELSE Open.lockedAt]

Struck ==
  [failures |-> Open.failures + 1,
   firstFail |-> Open.firstFail,
   lockedAt |-> IF Open.failures + 1 >= MaxAttempts THEN now ELSE Open.lockedAt]

\* A failure outside the window starts a new record, also over a lockout.
RecordFailure ==
  /\ attempts' = Struck
  /\ failed' = Append(failed, now)
  /\ lockout' = Struck.lockedAt

Locked == attempts.lockedAt # None /\ now - attempts.lockedAt < Lockout

\* IsLockedOut answers no, and drops a lockout that is over.
Pass ==
  /\ ~Locked
  /\ attempts' = IF attempts.lockedAt # None THEN NoRecord ELSE attempts
  /\ UNCHANGED <<failed, lockout>>

ResetIP ==
  /\ attempts' = NoRecord
  /\ failed' = <<>>
  /\ lockout' = None

\* Mutant of Outdated: a locked record is judged by its first failure, too.
OutdatedByFirst(rec) == Expired(rec)

Outdated(rec) ==
  IF rec.lockedAt # None THEN now - rec.lockedAt > Lockout ELSE Expired(rec)

Cleanup ==
  /\ attempts # NoRecord
  /\ Outdated(attempts)
  /\ attempts' = NoRecord
  /\ UNCHANGED <<now, failed, lockout>>

Tick ==
  /\ now < MaxTime
  /\ now' = now + 1
  /\ UNCHANGED <<attempts, failed, lockout>>

-------------------------------------------------------------------------------
GuardTypeOK ==
  /\ now \in 0 .. MaxTime
  /\ attempts = NoRecord \/ (/\ attempts.failures > 0
                             /\ attempts.firstFail \in 0 .. now
                             /\ attempts.lockedAt \in {None} \cup attempts.firstFail .. now)
  /\ (attempts.lockedAt # None) <=> (attempts.failures >= MaxAttempts)

(***************************************************************************)
(* An address is locked out only after MaxAttempts failures, all since its *)
(* last success and all within one window, the last of them less than a    *)
(* lockout ago: slow failures, however many, lock nobody out.              *)
(***************************************************************************)
LockoutDeserved ==
  Locked =>
    \E j \in MaxAttempts .. Len(failed) :
      /\ failed[j] = attempts.lockedAt
      /\ failed[j] - failed[j - MaxAttempts + 1] <= Window
===============================================================================

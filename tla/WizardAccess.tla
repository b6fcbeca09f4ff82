------------------------------ MODULE WizardAccess ------------------------------
(***************************************************************************)
(* Access to the wizard (services/wizard): logins with their lockout,      *)
(* roles and TOTP codes (internal/api/handler.go), the sessions they sign  *)
(* (internal/session), the changes of .env that end them                   *)
(* (internal/api/handler_config.go, envfile.go), and restarts              *)
(* (cmd/wizard/main.go, internal/config).                                  *)
(*                                                                         *)
(* Values of the keys are numbered versions; a user presents versions.     *)
(* Requests run concurrently, one Go routine each.  A step is what a       *)
(* request does under one lock, or between two.                            *)
(***************************************************************************)
EXTENDS LoginGuard, FiniteSets

CONSTANTS
  Requests,     \* goroutines that serve requests
  MaxVersion,   \* values a key may take
  MaxEvents     \* bound: logins, changes of the configuration and restarts, together

ASSUME WizardAccessAssumption ==
  /\ MaxVersion \in Nat \ {0}
  /\ "none" \notin Requests

VARIABLES
  env,       \* the file .env
  boot,      \* the environment the container was created with
  mem,       \* Handler.cfg: the credentials in force
  gen,       \* Handler.sessionGen
  genFile,   \* .safepaw_session_gen
  held,      \* the request that holds configWriteMu
  req,       \* per request, where it is and its local variables
  sessions,  \* the tokens signed by this process
  acked,     \* history: what was last written for each key
  torn,      \* history: a write of .env was cut off
  behind,    \* history: the credentials in memory may not be those of .env
  events     \* counter of the bound

vars == <<guardVars, env, boot, mem, gen, genFile, held, req, sessions, acked, torn, behind,
          events>>
files == <<env, boot, genFile>>
creds == <<mem, gen>>
history == <<acked, torn, behind>>

Another == events < MaxEvents /\ events' = events + 1

Absent == -1                  \* a key without a line; 0 is a line without a value
Generated == MaxVersion + 1   \* a random password nobody was told

\* WIZARD_OPERATOR_PASSWORD is left out: it is handled as the viewer's, but for TOTP.
Credentials == {"admin", "viewer", "totp"}
Keys == Credentials \cup {"other"}

\* Mutant of Touches: a new viewer password is not taken over.
TouchesAdminOnly(key) == key \in {"admin", "totp"}

Touches(key) == key \in Credentials

Critical == {"admin"}

Idle == [pc |-> "idle"]
NoGen == [gen |-> 0, hash |-> <<>>]
Hash(m) == <<m["admin"], m["totp"]>>

\* config.Load: the variables docker-compose.yml passes on; an empty one is none.
Environment(file) == [k \in Credentials |-> IF k = "viewer" THEN 0
                                            ELSE IF file[k] = Absent THEN 0 ELSE file[k]]
Load(e) == [e EXCEPT !["admin"] = IF @ = 0 THEN Generated ELSE @]

Token(role, g, password, totp, seen) ==
  [role |-> role, gen |-> g, password |-> password, totp |-> totp, seen |-> seen]

Valid(s) == ~(gen > 0 /\ s.gen < gen)

Init ==
  /\ now = 0 /\ NewGuard
  /\ env = [k \in Keys |-> IF k = "totp" THEN Absent ELSE 1]
  /\ boot = Environment(env)
  /\ mem = Load(boot)
  /\ gen = 0 /\ genFile = [gen |-> 0, hash |-> Hash(mem)]
  /\ held = "none"
  /\ req = [r \in Requests |-> Idle]
  /\ sessions = {Token("admin", 0, 1, 0, 0)}   \* somebody is logged in
  /\ acked = env /\ torn = FALSE /\ behind = TRUE
  /\ events = 0

Goto(r, state) == req' = [req EXCEPT ![r] = state]

-------------------------------------------------------------------------------
(***************************************************************************)
(* handleLogin.                                                            *)
(***************************************************************************)
BeginLogin(r, password, code) ==
  /\ req[r] = Idle
  /\ Another
  /\ Pass
  /\ Goto(r, [pc |-> "presented", password |-> password, code |-> code])
  /\ UNCHANGED <<now, files, creds, held, sessions, history>>

\* matchPasswordToRole, in its order of precedence.
RoleOf(password) ==
  IF password = mem["admin"] THEN "admin"
  ELSE IF mem["viewer"] # 0 /\ password = mem["viewer"] THEN "viewer" ELSE "none"

Match(r) ==
  /\ req[r].pc = "presented"
  /\ LET role == RoleOf(req[r].password) IN
       Goto(r, IF role = "none" THEN [pc |-> "wrong"]
               ELSE [pc |-> "matched", password |-> req[r].password, code |-> req[r].code,
                     role |-> role, seen |-> gen])
  /\ UNCHANGED <<guardVars, files, creds, held, sessions, history, events>>

NeedsCode(role) == mem["totp"] # 0 /\ role # "viewer"

\* A missing code is asked for and is no failure.
CheckCode(r) ==
  /\ req[r].pc = "matched"
  /\ Goto(r, IF ~NeedsCode(req[r].role) \/ req[r].code = mem["totp"]
             THEN [pc |-> "verified", role |-> req[r].role, seen |-> req[r].seen,
                   password |-> req[r].password, totp |-> mem["totp"]]
             ELSE IF req[r].code = 0 THEN Idle ELSE [pc |-> "wrong"])
  /\ UNCHANGED <<guardVars, files, creds, held, sessions, history, events>>

FailLogin(r) ==
  /\ req[r].pc = "wrong"
  /\ RecordFailure
  /\ Goto(r, Idle)
  /\ UNCHANGED <<now, files, creds, held, sessions, history, events>>

\* session.Create, with the generation of this moment.
Sign(r) ==
  /\ req[r].pc = "verified"
  /\ sessions' = sessions \cup {Token(req[r].role, gen, req[r].password, req[r].totp,
                                      req[r].seen)}
  /\ Goto(r, [pc |-> "signed"])
  /\ UNCHANGED <<guardVars, files, creds, held, history, events>>

Greet(r) ==
  /\ req[r].pc = "signed"
  /\ ResetIP
  /\ Goto(r, Idle)
  /\ UNCHANGED <<now, files, creds, held, sessions, history, events>>

Login(r) == Match(r) \/ CheckCode(r) \/ FailLogin(r) \/ Sign(r) \/ Greet(r)
-------------------------------------------------------------------------------
(***************************************************************************)
(* handlePutConfig, one key a request.  The session is looked at before    *)
(* the request waits for configWriteMu.                                    *)
(***************************************************************************)
\* AdminAuth finds a session, in the header or in the cookie; the route asks for a role.
RequireRole(roles) == \E s \in sessions : Valid(s) /\ s.role \in roles

BeginPut(r, key, value) ==
  /\ req[r] = Idle
  /\ Another
  /\ RequireRole({"admin"})
  /\ ~(value = 0 /\ key \in Critical)
  /\ Goto(r, [pc |-> "put", key |-> key, value |-> value])
  /\ UNCHANGED <<guardVars, files, creds, held, sessions, history>>

\* Mutant of Lock: two requests may edit the file at once.
LockShared(r) ==
  /\ req[r].pc = "put"
  /\ held' = r
  /\ Goto(r, [pc |-> "locked", key |-> req[r].key, value |-> req[r].value])
  /\ UNCHANGED <<guardVars, files, creds, sessions, history, events>>

Lock(r) ==
  /\ req[r].pc = "put"
  /\ held = "none"
  /\ held' = r
  /\ Goto(r, [pc |-> "locked", key |-> req[r].key, value |-> req[r].value])
  /\ UNCHANGED <<guardVars, files, creds, sessions, history, events>>

\* writeEnvFile reads; when that fails the request ends with an error.
ReadEnv(r) ==
  /\ req[r].pc = "locked"
  /\ \/ /\ Goto(r, [pc |-> "read", key |-> req[r].key, value |-> req[r].value, copy |-> env])
        /\ UNCHANGED held
     \/ /\ Goto(r, Idle)
        /\ held' = "none"
  /\ UNCHANGED <<guardVars, files, creds, sessions, history, events>>

\* os.WriteFile empties the file first.
Truncate(r) ==
  /\ req[r].pc = "read"
  /\ env' = [k \in Keys |-> Absent]
  /\ Goto(r, [pc |-> "truncated", key |-> req[r].key, value |-> req[r].value,
              copy |-> req[r].copy])
  /\ UNCHANGED <<guardVars, boot, genFile, creds, held, sessions, history, events>>

WriteEnv(r) ==
  /\ req[r].pc = "truncated"
  /\ env' = [req[r].copy EXCEPT ![req[r].key] = req[r].value]
  /\ acked' = [acked EXCEPT ![req[r].key] = req[r].value]
  /\ IF Touches(req[r].key)
     THEN Goto(r, [pc |-> "written"]) /\ UNCHANGED held
     ELSE Goto(r, Idle) /\ held' = "none"
  /\ UNCHANGED <<guardVars, boot, genFile, creds, sessions, torn, behind, events>>

WriteFails(r) ==
  /\ req[r].pc = "truncated"
  /\ torn' = TRUE
  /\ Goto(r, Idle)
  /\ held' = "none"
  /\ UNCHANGED <<guardVars, files, creds, sessions, acked, behind, events>>

\* ReloadCredsFromEnv; when the file cannot be read everything stays as it was.
Reload(r) ==
  /\ req[r].pc = "written"
  /\ \/ /\ mem' = [k \in Credentials |-> IF env[k] = Absent THEN mem[k] ELSE env[k]]
        /\ behind' = FALSE
     \/ /\ behind' = TRUE
        /\ UNCHANGED mem
  /\ Goto(r, [pc |-> "reloaded"])
  /\ UNCHANGED <<guardVars, files, gen, held, sessions, acked, torn, events>>

\* Mutant of ChangeCredentials: the generation is bumped before the reload.
BumpThenReload(r) ==
  \/ /\ req[r].pc = "written"
     /\ gen' = gen + 1
     /\ Goto(r, [pc |-> "reloaded"])
     /\ UNCHANGED <<guardVars, files, mem, held, sessions, history, events>>
  \/ /\ req[r].pc = "reloaded"
     /\ mem' = [k \in Credentials |-> IF env[k] = Absent THEN mem[k] ELSE env[k]]
     /\ behind' = FALSE
     /\ Goto(r, Idle)
     /\ held' = "none"
     /\ UNCHANGED <<guardVars, files, gen, sessions, acked, torn, events>>

\* BumpSessionGen; that the file could not be written is only logged.
Bump(r) ==
  /\ req[r].pc = "reloaded"
  /\ gen' = gen + 1
  /\ genFile' \in {genFile, [gen |-> gen + 1, hash |-> Hash(mem)]}
  /\ Goto(r, Idle)
  /\ held' = "none"
  /\ UNCHANGED <<guardVars, env, boot, mem, sessions, history, events>>

ChangeCredentials(r) == Reload(r) \/ Bump(r)

Put(r) ==
  Lock(r) \/ ReadEnv(r) \/ Truncate(r) \/ WriteEnv(r) \/ WriteFails(r) \/ ChangeCredentials(r)
-------------------------------------------------------------------------------
(***************************************************************************)
(* The process ends, at any point, and starts again.  A new container      *)
(* takes its environment from .env and loses .safepaw_session_gen, which   *)
(* is not on a volume; a restarted one keeps both.  The session secret is  *)
(* random in every process, so nothing signed before validates.            *)
(***************************************************************************)
\* InitSessionGenFromFile.
StartGen(stored, hash) ==
  IF stored.hash # <<>> /\ stored.hash # hash THEN stored.gen + 1 ELSE stored.gen

Restart(recreated) ==
  /\ Another
  /\ boot' = IF recreated THEN Environment(env) ELSE boot
  /\ mem' = Load(boot')
  /\ LET stored == IF recreated THEN NoGen ELSE genFile IN
       /\ gen' = StartGen(stored, Hash(mem'))
       /\ genFile' = IF stored.hash = Hash(mem') THEN stored
                     ELSE [gen |-> gen', hash |-> Hash(mem')]
  /\ ResetIP   \* a new guard
  /\ req' = [r \in Requests |-> Idle]
  /\ held' = "none"
  /\ sessions' = {}
  /\ torn' = (torn \/ \E r \in Requests : req[r].pc = "truncated")
  /\ behind' = TRUE
  /\ UNCHANGED <<now, env, acked>>

Next ==
  \/ \E r \in Requests :
       \/ \E password \in 1 .. MaxVersion, code \in 0 .. MaxVersion :
            BeginLogin(r, password, code)
       \/ Login(r)
       \/ \E key \in Keys, value \in 0 .. MaxVersion : BeginPut(r, key, value)
       \/ Put(r)
  \/ \E recreated \in BOOLEAN : Restart(recreated)
  \/ Cleanup /\ UNCHANGED <<files, creds, held, req, sessions, history, events>>
  \/ Tick /\ UNCHANGED <<files, creds, held, req, sessions, history, events>>

Spec == Init /\ [][Next]_vars

-------------------------------------------------------------------------------
(***************************************************************************)
(* Types; besides, a record of the guard is locked exactly when it holds   *)
(* MaxAttempts failures, and no session carries a generation still to come.*)
(***************************************************************************)
TypeOK ==
  /\ GuardTypeOK
  /\ env \in [Keys -> Absent .. MaxVersion]
  /\ mem \in [Credentials -> 0 .. Generated]
  /\ gen \in Nat /\ \A s \in sessions : s.gen <= gen
  /\ held \in Requests \cup {"none"}

Current(s) == mem[s.role] = s.password /\ (s.role = "viewer" \/ mem["totp"] = s.totp)

(***************************************************************************)
(* A change of credentials ends the sessions created with the old ones,    *)
(* once the change is complete.  The only exception is a login that had    *)
(* its password checked before the change and its token signed after it,   *)
(* as handleLogin reads the generation last: such a token carries a later  *)
(* generation than the one in force when the password was checked.         *)
(***************************************************************************)
StaleSessionOverlapped ==
  \A s \in sessions :
    (Valid(s) /\ ~Current(s)) =>
       \/ s.seen < s.gen
       \/ \E r \in Requests : req[r].pc = "reloaded"

(***************************************************************************)
(* No acknowledged change of .env is lost to another one: when no request  *)
(* is editing it, the file holds the last value written for every key,     *)
(* unless a write was cut off after the file had been emptied.             *)
(***************************************************************************)
AckedConfigStands == (held = "none" /\ ~torn) => env = acked

(***************************************************************************)
(* The credentials asked for at login are those last written to .env, once *)
(* a reload has succeeded in this process and unless .env could not be     *)
(* written or read since.                                                  *)
(***************************************************************************)
CredentialsInForce ==
  (held = "none" /\ ~torn /\ ~behind) =>
    \A k \in Credentials : acked[k] # Absent => mem[k] = acked[k]

(***************************************************************************)
(* While a lockout runs no login gets past it, sweeps of the guard and     *)
(* other clients' requests notwithstanding; only an attempt that was under *)
(* way when it began can lift it, by succeeding, or by failing after the   *)
(* window so that a new record replaces the locked one.                    *)
(***************************************************************************)
LockoutHolds ==
  [][\A r \in Requests :
       req[r] = Idle /\ req'[r].pc = "presented" =>
         ~(lockout # None /\ now - lockout < Lockout)]_vars
===============================================================================

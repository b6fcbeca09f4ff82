------------------------------- MODULE Throttle -------------------------------
(***************************************************************************)
(* What the gateway's per-IP rate limiter promises, stated without its     *)
(* table of counters: a client is turned away exactly when its last Cap    *)
(* admitted requests form a train in which no two neighbours are more than *)
(* a window apart, and the train has not been quiet for a window since.    *)
(*                                                                         *)
(* RateLimiter keeps one counter per client and forgets it from time to    *)
(* time; it implements this specification (RateLimiter!ImplementsThrottle).*)
(***************************************************************************)
EXTENDS Integers, Sequences

CONSTANTS
  IPs,      \* client addresses
  Cap,      \* admitted requests a train may have, at least one
  Window,   \* length of the window, in ticks
  MaxTime   \* bound on the clock

VARIABLES
  now,       \* the clock
  admitted,  \* per client, the times at which its requests were admitted
  verdict    \* per client, the answer to its latest request

vars == <<now, admitted, verdict>>

Init ==
  /\ now = 0
  /\ admitted = [ip \in IPs |-> <<>>]
  /\ verdict = [ip \in IPs |-> "none"]

\* The last Cap admissions of ip follow each other closely, up to now.
Train(ip) ==
  LET n == Len(admitted[ip]) IN
    /\ n >= Cap
    /\ now - admitted[ip][n] <= Window
    /\ \A j \in (n - Cap + 1) .. (n - 1) :
         admitted[ip][j + 1] - admitted[ip][j] <= Window

Admit(ip) ==
  /\ ~Train(ip)
  /\ admitted' = [admitted EXCEPT ![ip] = Append(@, now)]
  /\ verdict' = [verdict EXCEPT ![ip] = "allowed"]
  /\ UNCHANGED now

Refuse(ip) ==
  /\ Train(ip)
  /\ verdict' = [verdict EXCEPT ![ip] = "denied"]
  /\ UNCHANGED <<now, admitted>>

Tick ==
  /\ now < MaxTime
  /\ now' = now + 1
  /\ UNCHANGED <<admitted, verdict>>

Next ==
  \/ \E ip \in IPs : Admit(ip) \/ Refuse(ip)
  \/ Tick

Spec == Init /\ [][Next]_vars
===============================================================================

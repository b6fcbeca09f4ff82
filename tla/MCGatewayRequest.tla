-------------------------- MODULE MCGatewayRequest --------------------------
(***************************************************************************)
(* What every HTTP request to the gateway meets: its way through the       *)
(* middleware (GatewayRequest) with two requests, two origins of which one *)
(* is local, and responses of up to two pieces before a scanner that holds *)
(* one; and the per-IP limiter on that way (RateLimiter) with two clients, *)
(* a limit of two and a window of two ticks, over a clock long enough for  *)
(* three windows to open.                                                  *)
(*                                                                         *)
(* GatewayRequest lets the limiter answer as it likes, and the limiter is  *)
(* called as anybody likes.  Neither reads what the other writes, so that  *)
(* their interleavings show nothing: a behaviour is one of the first or    *)
(* one of the second, while the other is still where it starts (for the    *)
(* limiter, without authentication: whether there is any is nothing to it).*)
(***************************************************************************)
EXTENDS GatewayRequest, RateLimiter, TLC

\* With every list some origins pass and some are refused, and nothing else
\* depends on it: one list shows what all show.
Lists == {{"foreign"}}

Symmetry == Permutations(Requests)

NobodyAsked == now = 0 /\ \A ip \in IPs : verdict[ip] = "none"
NobodyCame == server = "serving" /\ \A r \in Requests : at[r] = "none"

RequestsMove == NobodyAsked /\ Next /\ UNCHANGED limiterVars
LimiterMoves == NobodyCame /\ ~authEnabled /\ LimiterNext /\ UNCHANGED vars

GatewayInit == Init /\ LimiterInit
GatewaySpec == GatewayInit /\ [][RequestsMove \/ LimiterMoves]_<<vars, limiterVars>>
=============================================================================

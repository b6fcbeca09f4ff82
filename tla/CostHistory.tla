---------------------------- MODULE CostHistory ----------------------------
(***************************************************************************)
(* The wizard's cost history: a poller that asks the gateway for its usage *)
(* every five minutes and writes it into two Postgres tables, row by row,  *)
(* and the handlers that read the tables back for the dashboard            *)
(* (wizard/internal/costhistory, wizard/internal/api/handler_cost.go; the  *)
(* tables are created by postgres/init/03-cost-history.sql).               *)
(*                                                                         *)
(* A statement is modelled by the columns it names, and by the type of its *)
(* window: Postgres refuses one that names a column the table does not     *)
(* have, or compares a date with an integer.  A row is modelled by its     *)
(* cost, the one column the trend is computed from.                        *)
(***************************************************************************)
EXTENDS Integers, Sequences, FiniteSets, FiniteSetsExt

CONSTANTS
    Models,     \* model names the gateway may report
    MaxDay,     \* bound on the calendar, days count from 0
    MaxCost,    \* bound on the cost of one row
    MaxPolls    \* bound on the cycles one run observes

VARIABLES
    today,      \* the date, the same for wizard, gateway and database
    up,         \* whether Postgres answers
    secret,     \* whether .env can be read and holds an AUTH_SECRET of 32 bytes
    phase,      \* where the poller's goroutine is
    todo,       \* statements of persist not sent yet
    fetched,    \* the usage of the cycle under way
    lastOK,     \* Poller.lastOK: number of cycles that ended well
    lastErr,    \* Poller.lastErr # nil
    daily,      \* gateway.cost_daily_snapshots: date -> cost
    models,     \* gateway.cost_model_snapshots: <<date, model>> -> cost
    shown,      \* the last answer of a dashboard handler
    polls,      \* cycles begun
    undisturbed \* nothing failed around the code during the last cycle

pollVars == <<phase, todo, fetched, lastOK, lastErr, polls>>
vars == <<today, up, secret, phase, todo, fetched, lastOK, lastErr, daily,
          models, shown, polls, undisturbed>>

Days == 0 .. MaxDay
Costs == 0 .. MaxCost

(***************************************************************************)
(* The schema and the statements, by column.                               *)
(***************************************************************************)
DailyTable ==
    {"id", "date", "input_tokens", "output_tokens", "cache_read_tokens",
     "cache_write_tokens", "total_tokens", "total_cost_usd", "input_cost_usd",
     "output_cost_usd", "cache_read_cost_usd", "cache_write_cost_usd",
     "messages_total", "messages_user", "messages_assistant", "tool_calls",
     "errors", "snapshot_at"}

ModelTable ==
    {"id", "date", "provider", "model", "request_count", "input_tokens",
     "output_tokens", "cache_read_tokens", "cache_write_tokens",
     "total_tokens", "total_cost_usd", "snapshot_at"}

UpsertDailySnapshot ==
    {"date", "prompt_tokens", "completion_tokens", "total_tokens",
     "total_cost_usd", "messages", "tool_calls", "snapshot_at"}

UpsertModelSnapshot ==
    {"date", "provider", "model", "request_count", "prompt_tokens",
     "completion_tokens", "total_tokens", "total_cost_usd", "snapshot_at"}

SelectDaily ==
    {"date", "total_tokens", "total_cost_usd", "input_tokens",
     "output_tokens", "messages_total", "tool_calls"}

SelectModels ==
    {"date", "provider", "model", "request_count", "total_tokens",
     "total_cost_usd", "input_tokens", "output_tokens"}

(***************************************************************************)
(* The window of a SELECT is "date >= CURRENT_DATE - $1".  The driver      *)
(* leaves the type of $1 to Postgres, which gives it that of the other     *)
(* operand, a date; and the difference of two dates is an integer, which   *)
(* does not compare with a date.                                           *)
(***************************************************************************)
Untyped(other) == other
DateLess(type) == IF type = "date" THEN "integer" ELSE "date"
WindowCompares == DateLess(Untyped("date")) = "date"

(***************************************************************************)
(* What one upsert does to a table: the row of the key is replaced.        *)
(***************************************************************************)
Upsert(table, key, cost) ==
    [k \in DOMAIN table \cup {key} |-> IF k = key THEN cost ELSE table[k]]

(***************************************************************************)
(* The usage the gateway reports, and the statements it leads to.  The     *)
(* session rows are preferred over the daily ones; a model without a name  *)
(* is skipped; model rows carry the date on which they are written.        *)
(***************************************************************************)
NoUsage == [sessions |-> <<>>, daily |-> <<>>, models |-> <<>>]

DayRows == {<<>>} \cup {<<[date |-> today, cost |-> c]>> : c \in Costs}
               \cup {<<[date |-> today - 1, cost |-> c], [date |-> today, cost |-> c]>> :
                        c \in {d \in Costs : today > 0}}
ModelRows == {<<>>} \cup {<<[name |-> m, cost |-> c]>> : m \in Models \cup {""}, c \in Costs}

Persist(data) ==
    LET rows == IF data.sessions # <<>> THEN data.sessions ELSE data.daily
        named == SelectSeq(data.models, LAMBDA m : m.name # "")
    IN [i \in DOMAIN rows |-> [kind |-> "daily", row |-> rows[i]]]
       \o [i \in DOMAIN named |-> [kind |-> "model", row |-> named[i]]]

(***************************************************************************)
(* Start.  Without a database at start the history stays off for the life  *)
(* of the process: the connection is not tried again.                      *)
(***************************************************************************)
Init ==
    /\ today = 0
    /\ up \in BOOLEAN
    /\ secret \in BOOLEAN
    /\ phase = IF up THEN "waiting" ELSE "disabled"
    /\ todo = <<>>
    /\ fetched = NoUsage
    /\ lastOK = 0
    /\ lastErr = FALSE
    /\ daily = <<>>
    /\ models = <<>>
    /\ shown = [status |-> "none"]
    /\ polls = 0
    /\ undisturbed = TRUE

(***************************************************************************)
(* The surroundings.                                                       *)
(***************************************************************************)
Midnight ==
    /\ today < MaxDay
    /\ today' = today + 1
    /\ UNCHANGED <<up, secret, pollVars, daily, models, shown, undisturbed>>

DatabaseChange ==
    /\ up' = ~up
    /\ undisturbed' = FALSE
    /\ UNCHANGED <<today, secret, pollVars, daily, models, shown>>

SecretChange ==
    /\ secret' = ~secret
    /\ UNCHANGED <<today, up, pollVars, daily, models, shown, undisturbed>>

(***************************************************************************)
(* One cycle: the timer fires, the usage is fetched, and the statements    *)
(* are sent one by one until one fails or the cycle's 15 seconds are over. *)
(***************************************************************************)
Poll ==
    /\ phase = "waiting"
    /\ polls < MaxPolls
    /\ phase' = "fetching"
    /\ polls' = polls + 1
    /\ undisturbed' = up
    /\ fetched' = NoUsage
    /\ UNCHANGED <<today, up, secret, todo, lastOK, lastErr, daily, models, shown>>

Fail ==
    /\ phase' = "waiting"
    /\ lastErr' = TRUE
    /\ todo' = <<>>
    /\ undisturbed' = FALSE
    /\ UNCHANGED <<today, up, secret, fetched, lastOK, daily, models, shown, polls>>

\* No secret, no answer in time, a status other than 200 or other than "ok".
FetchFails ==
    /\ phase = "fetching"
    /\ Fail

FetchUsage ==
    /\ phase = "fetching"
    /\ secret
    /\ \E s, d \in DayRows, m \in ModelRows :
          /\ fetched' = [sessions |-> s, daily |-> d, models |-> m]
          /\ todo' = Persist(fetched')
    /\ phase' = "persisting"
    /\ UNCHANGED <<today, up, secret, lastOK, lastErr, daily, models, shown, polls,
                   undisturbed>>

Known(kind) == IF kind = "daily" THEN UpsertDailySnapshot \subseteq DailyTable
                                 ELSE UpsertModelSnapshot \subseteq ModelTable

Write ==
    /\ phase = "persisting"
    /\ todo # <<>>
    /\ up
    /\ Known(Head(todo).kind)
    /\ LET r == Head(todo).row IN
          \/ /\ Head(todo).kind = "daily"
             /\ daily' = Upsert(daily, r.date, r.cost)
             /\ UNCHANGED models
          \/ /\ Head(todo).kind = "model"
             /\ models' = Upsert(models, <<today, r.name>>, r.cost)
             /\ UNCHANGED daily
    /\ todo' = Tail(todo)
    /\ UNCHANGED <<today, up, secret, phase, fetched, lastOK, lastErr, shown, polls,
                   undisturbed>>

\* The database is down or slow: the first error ends the cycle, the rows
\* written before it stay.
WriteFails ==
    /\ phase = "persisting"
    /\ todo # <<>>
    /\ Fail

\* The database answers, and its answer is an error.
WriteRefused ==
    /\ phase = "persisting"
    /\ todo # <<>>
    /\ up
    /\ ~Known(Head(todo).kind)
    /\ phase' = "waiting"
    /\ lastErr' = TRUE
    /\ todo' = <<>>
    /\ UNCHANGED <<today, up, secret, fetched, lastOK, daily, models, shown, polls,
                   undisturbed>>

Finish ==
    /\ phase = "persisting"
    /\ todo = <<>>
    /\ phase' = "waiting"
    /\ lastOK' = lastOK + 1
    /\ lastErr' = FALSE
    /\ UNCHANGED <<today, up, secret, todo, fetched, daily, models, shown, polls,
                   undisturbed>>

Stop ==
    /\ phase \notin {"disabled", "stopped"}
    /\ phase' = "stopped"
    /\ todo' = <<>>
    /\ undisturbed' = FALSE
    /\ UNCHANGED <<today, up, secret, fetched, lastOK, lastErr, daily, models, shown, polls>>

(***************************************************************************)
(* The dashboard's handlers.  A window of `days' days reaches back from    *)
(* today; the trend compares the whole days before today with as many days *)
(* before them.                                                            *)
(***************************************************************************)
ParseDays(n, default, most) ==
    CASE n < 1    -> default
      [] n > most -> most
      [] OTHER    -> n

Dates(from, to) == {d \in DOMAIN daily : from <= d /\ d < to}
SumOf(ds) == MapThenSumSet(LAMBDA d : daily[d], ds)

\* 0-1 in the code; here whether the score is 0, below 1 or 1.
GetTrend(days) ==
    LET recent == Dates(today - days, today)
        prior == Dates(today - 2 * days, today - days)
        rc == SumOf(recent)
        pc == SumOf(prior)
    IN [status |-> "trend", recent |-> rc, prior |-> pc,
        anomaly |-> CASE pc > 0 /\ rc * Cardinality(prior) > pc * Cardinality(recent) -> "some"
                      [] pc = 0 /\ rc > 0 -> "full"
                      [] OTHER -> "none"]

\* accepted: Postgres takes the statement; if not, its answer is an error, too.
Answer(accepted, answer) ==
    /\ shown' = CASE phase = "disabled" -> [status |-> "unavailable"]
                  [] phase # "disabled" /\ ~(up /\ accepted) -> [status |-> "error"]
                  [] OTHER -> answer
    /\ UNCHANGED <<today, up, secret, pollVars, daily, models, undisturbed>>

CostDaily == \E n \in 0 .. MaxDay + 1 :
    LET w == Dates(today - ParseDays(n, 30, 365), MaxDay + 1) IN
    Answer(SelectDaily \subseteq DailyTable /\ WindowCompares,
           [status |-> "ok", daily |-> [d \in w |-> daily[d]]])

CostModels == \E n \in 0 .. MaxDay + 1 :
    LET w == {k \in DOMAIN models : k[1] >= today - ParseDays(n, 30, 365)} IN
    Answer(SelectModels \subseteq ModelTable /\ WindowCompares,
           [status |-> "ok", models |-> [k \in w |-> models[k]]])

CostTrends ==
    \E n \in 0 .. MaxDay + 1 : Answer(WindowCompares, GetTrend(ParseDays(n, 7, 90)))

Next ==
    \/ Midnight \/ DatabaseChange \/ SecretChange
    \/ Poll \/ FetchUsage \/ FetchFails
    \/ Write \/ WriteFails \/ WriteRefused \/ Finish \/ Stop
    \/ CostDaily \/ CostModels \/ CostTrends

Spec == Init /\ [][Next]_vars

(***************************************************************************)
(* The wizard writes snapshots every poll cycle (03-cost-history.sql:5):   *)
(* once a cycle is over in which the gateway reported a day and nothing    *)
(* around the code failed, the table holds that day at the reported cost.  *)
(***************************************************************************)
EveryCycleWrites ==
    (phase = "waiting" /\ undisturbed) =>
        LET rows == IF fetched.sessions # <<>> THEN fetched.sessions ELSE fetched.daily
        IN \A i \in DOMAIN rows : /\ rows[i].date \in DOMAIN daily
                                  /\ daily[rows[i].date] = rows[i].cost
=============================================================================

------------------------------- MODULE Pipelines -------------------------------
(***************************************************************************)
(* The reports of services/analytics: each call walks an                    *)
(* AnalyticsPipelineFSM or ForecastPipelineFSM through its stages.  A stage *)
(* runs, then its event is sent; the guard of the first looks at a count    *)
(* that some stage of the report sets.  Orders come in and are cancelled    *)
(* meanwhile.  A report is modelled by what it reads, when it counts and    *)
(* whether it is cached; what it computes from the rows is abstracted to    *)
(* the rows, but for the numbers checked below.                             *)
(***************************************************************************)
EXTENDS DomainFSMs, FiniteSets, Sequences

CONSTANTS
    Callers,
    Reports,       \* names of reports, a subset of DOMAIN Report
    Days,          \* days on which there are orders
    Enough,        \* data points that a forecast needs, 7
    TTL,           \* analyticsCacheTTL
    MaxTime, MaxWrites, MaxFaults, MaxCalls,
    None

VARIABLES
    orders,   \* per day, orders that count and orders that were cancelled
    cache,    \* per report, None or [rows, until]
    call,     \* per caller: [report, state, stage, count, rows, answer, began]
    wrote,    \* when the orders last changed
    time, writes, faults, calls

pipelines == <<orders, cache, call, wrote, time, writes, faults, calls>>

-----------------------------------------------------------------------------
(* The reports.  counts: the stage, by the event that follows it, that sets *)
(* the record count; live: orders that were cancelled are left out.  The    *)
(* overview counts orders instead of days, which is none when there are     *)
(* none.  Stock movements, which the last two and the reorder dates read,   *)
(* stand as orders too. *)
Kept(counts, live, cached) ==
    [fsm |-> AnalyticsPipelineFSM, start |-> "start_collect",
     stages |-> <<"collected", "aggregated", "enriched", "delivered">>, needs |-> 1,
     counts |-> counts, live |-> live, cached |-> cached]

Forecast ==
    [fsm |-> ForecastPipelineFSM, start |-> "start_ingest",
     stages |-> <<"ingested", "features_ready", "model_trained", "scored", "post_processed", "published">>,
     needs |-> Enough, counts |-> "ingested", live |-> TRUE, cached |-> FALSE]

GetRevenueOverview == Kept("collected", TRUE, TRUE)
GetRevenueTrend == Kept("aggregated", TRUE, TRUE)
GetRevenueByCategory == Kept("aggregated", TRUE, FALSE)
GetOrderVolume == Kept("aggregated", FALSE, FALSE)
GetOrderStatusDistribution == Kept("aggregated", FALSE, FALSE)
GetPeakHours == Kept("aggregated", TRUE, FALSE)
GetTopSellingItems == Kept("aggregated", TRUE, FALSE)
GetInventoryTurnover == Kept("aggregated", FALSE, FALSE)
GetWastageReport == Kept("aggregated", FALSE, FALSE)
ForecastDemand == Forecast
ForecastRevenue == Forecast
ForecastReorderDates == Forecast

Report ==
    [overview |-> GetRevenueOverview, trend |-> GetRevenueTrend, category |-> GetRevenueByCategory,
     volume |-> GetOrderVolume, status |-> GetOrderStatusDistribution, peak |-> GetPeakHours,
     top |-> GetTopSellingItems, turnover |-> GetInventoryTurnover, wastage |-> GetWastageReport,
     demand |-> ForecastDemand, revenue |-> ForecastRevenue, reorder |-> ForecastReorderDates]

Counted(r, d) == orders[d].live + (IF r.live THEN 0 ELSE orders[d].cancelled)
Rows(r) == [d \in {e \in Days : Counted(r, e) > 0} |-> Counted(r, d)]

(* What the constants must be. *)
PipelinesAssumption ==
    /\ IsFiniteSet(Days) /\ Reports \subseteq DOMAIN Report /\ Enough \in Nat /\ TTL \in Nat
    /\ None \notin Reports \cup {"hit", "report", "refused", "error"}

-----------------------------------------------------------------------------
NoCall == [report |-> None, state |-> "idle", stage |-> 0, count |-> 0, rows |-> None, answer |-> None, at |-> 0]

Init ==
    /\ orders = [d \in Days |-> [live |-> 0, cancelled |-> 0]]
    /\ cache = [r \in Reports |-> None]
    /\ call = [c \in Callers |-> NoCall]
    /\ wrote = 0 /\ time = 0 /\ writes = 0 /\ faults = 0 /\ calls = 0

Done(c) == call[c].answer # None
R(c) == Report[call[c].report]

(* The cache is asked, and a failing one is a miss; then the machine leaves *)
(* idle, which nothing guards. *)
Ask(c) ==
    /\ call[c].report = None \/ Done(c)
    /\ calls < MaxCalls /\ calls' = calls + 1
    /\ \E r \in Reports :
         LET asked == [NoCall EXCEPT !.report = r, !.at = time]
             hit == cache[r] # None /\ time <= cache[r].until
             miss == [asked EXCEPT !.state = Target(Report[r].fsm, "idle", Report[r].start), !.stage = 1]
         IN \/ /\ call' = [call EXCEPT ![c] = IF hit THEN [asked EXCEPT !.rows = cache[r].rows, !.answer = "hit"] ELSE miss]
               /\ UNCHANGED faults
            \/ /\ hit /\ faults < MaxFaults /\ faults' = faults + 1
               /\ call' = [call EXCEPT ![c] = miss]
    /\ UNCHANGED <<orders, cache, wrote, time, writes>>

(* Mutant: one more is needed. *)
GuardHolds_More(r, event, count) == event = r.stages[1] => count > r.needs

(* The guards: records must have been collected, data points must suffice,  *)
(* and an accuracy is never negative. *)
GuardHolds(r, event, count) == event = r.stages[1] => count >= r.needs

(* What a stage does: the first reads, one counts, "delivered" caches. *)
RunStage(c) ==
    LET r == R(c)
        event == r.stages[call[c].stage]
        rows == IF call[c].stage = 1 THEN Rows(r) ELSE call[c].rows
        count == IF event = r.counts THEN Cardinality(DOMAIN rows) ELSE call[c].count
        ran == [call[c] EXCEPT !.rows = rows, !.count = count]
        last == call[c].stage = Len(r.stages)
        to == Target(r.fsm, call[c].state, event)
    IN /\ call[c].stage > 0 /\ ~Done(c)
       /\ call' = [call EXCEPT ![c] =
            IF ~GuardHolds(r, event, count) THEN [ran EXCEPT !.answer = "refused"]
            ELSE IF last THEN [ran EXCEPT !.state = to, !.answer = "report"]
            ELSE [ran EXCEPT !.state = to, !.stage = @ + 1]]
       /\ IF r.cached /\ event = "delivered"
          THEN cache' = [cache EXCEPT ![call[c].report] = [rows |-> rows, until |-> time + TTL]]
          ELSE UNCHANGED cache
       /\ UNCHANGED <<orders, wrote, time, writes, faults, calls>>

(* Only the first stage returns the error of its query; the machine is told. *)
StageFails(c) ==
    /\ call[c].stage = 1 /\ ~Done(c) /\ faults < MaxFaults
    /\ faults' = faults + 1
    /\ call' = [call EXCEPT ![c].state = Target(R(c).fsm, call[c].state, "fail"), ![c].answer = "error"]
    /\ UNCHANGED <<orders, cache, wrote, time, writes, calls>>

(* Outside: an order is placed, an order is cancelled, time passes (long    *)
(* against a call). *)
Place(d) ==
    /\ writes < MaxWrites /\ writes' = writes + 1 /\ wrote' = time
    /\ orders' = [orders EXCEPT ![d].live = @ + 1]
    /\ UNCHANGED <<cache, call, time, faults, calls>>

Cancel(d) ==
    /\ orders[d].live > 0 /\ writes < MaxWrites /\ writes' = writes + 1 /\ wrote' = time
    /\ orders' = [orders EXCEPT ![d].live = @ - 1, ![d].cancelled = @ + 1]
    /\ UNCHANGED <<cache, call, time, faults, calls>>

Tick ==
    /\ time < MaxTime /\ time' = time + 1
    /\ \A c \in Callers : call[c].stage > 0 => Done(c)
    /\ UNCHANGED <<orders, cache, call, wrote, writes, faults, calls>>

Next ==
    \/ \E c \in Callers : Ask(c) \/ RunStage(c) \/ StageFails(c)
    \/ \E d \in Days : Place(d) \/ Cancel(d)
    \/ Tick

Spec == Init /\ [][Next]_pipelines

-----------------------------------------------------------------------------
Types ==
    /\ \A c \in Callers :
         /\ call[c].report # None => call[c].state \in R(c).fsm.states
         /\ call[c].answer \in {None, "hit", "report", "refused", "error"}
    /\ \A r \in Reports : cache[r] # None => cache[r].until <= time + TTL

(* What the caller is told is what the machine says: it has the rows of a   *)
(* run that completed, an error of a run that failed, and a run that the    *)
(* guard refused is left where it was, neither completed nor failed. *)
AnswersMatchMachine ==
    \A c \in Callers :
      /\ call[c].answer = "report" <=> call[c].state = "completed"
      /\ call[c].answer = "error" <=> call[c].state = "failed"
      /\ call[c].answer = "refused" => <<call[c].state, R(c).stages[1]>> \in {<<t[1], t[2]>> : t \in R(c).fsm.guarded}

(* A report that counts what it reads answers exactly when that is enough;  *)
(* of the analytics only the overview does, the others are always refused.  *)
RefusedExactly ==
    \A c \in Callers : call[c].answer \in {"report", "refused"} =>
      LET r == R(c)
      IN call[c].answer = "report" <=>
           r.counts = r.stages[1] /\ Cardinality(DOMAIN call[c].rows) >= r.needs

(* A cached report is of the orders as they are, or these changed within    *)
(* the time to live: what is cached was read in the same unit of time. *)
HitsWithinTTL ==
    \A c \in Callers : call[c].answer = "hit" /\ call[c].at = time =>
        call[c].rows = Rows(R(c)) \/ time <= wrote + TTL

PipelinesSound == Types /\ AnswersMatchMachine /\ RefusedExactly /\ HitsWithinTTL
=============================================================================

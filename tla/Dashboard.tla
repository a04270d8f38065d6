------------------------------ MODULE Dashboard ------------------------------
(***************************************************************************)
(* RealEngineAdapter, its view models and the HTTP telemetry server, which *)
(* share the GUI thread, and threads that use the engines the adapter      *)
(* hands out (stats()): they schedule an allocation, plan its placement    *)
(* and record it.  The adapter's mutex_ is a plain std::mutex; the timer's *)
(* tick holds it to its end, the emission of data_changed included, and    *)
(* the connections made by the view models are direct ones, so a QML       *)
(* binding is read again inside the tick.  Sizes are in MiB, a page        *)
(* counting as one.                                                        *)
(***************************************************************************)
EXTENDS MemoryStatistics, TierPlanning, TLC

CONSTANTS
  Bound,       \* the properties that QML binds
  Clients,     \* threads that use the statistics directly
  RamSizes, VramSizes, FreeSizes,   \* values rng->bounded yields
  ClientSizes,
  Segments,          \* what arrives at once on the HTTP connection
  MaxRam, MaxVram,   \* the capacities in the tick: 128 GiB, 16 GiB
  MaxTicks, MaxCalls, MaxLines      \* bounds on ticks, client calls, HTTP lines

ASSUME DashboardAssumption ==
  /\ {"kVram", "kRam", "kNvme"} \subseteq Tiers
  /\ RamSizes \cup VramSizes \cup FreeSizes \cup ClientSizes \subseteq Nat

VARIABLES
  mutex,       \* mutex_: "free" or held by the tick
  gui,         \* the tick: its phase and the bindings still to be read
  ticks_count,
  pattern,     \* what learning_ knows of the mock object
  ctx, last_evaluated_plans,
  http,        \* one connection
  client, calls,
  fresh        \* history: clients that decided on the statistics as they still are

adapterVars == <<mutex, gui, ticks_count, pattern, ctx, last_evaluated_plans>>
clientsVars == <<client, calls, fresh>>
dashboardVars == <<stats, adapterVars, http, clientsVars>>

Learning == INSTANCE PatternLearning WITH
  ObjectIds <- {"mock_obj"}, Known <- << >>, Decays <- {1}, HotAccesses <- 16,
  FileUsers <- {}, Junk <- {}, pattern_db <- << >>, learned_patterns_count <- 0,
  forgotten_patterns_count <- 0, active_patterns_count <- 0, disk <- << >>, fileCall <- << >>

NoDecision == [phase |-> "none", tier |-> "kRam", size |-> 0]
NoReply == -1

DashboardInit ==
  /\ stats = NoStatistics
  /\ mutex = "free"
  /\ gui = [phase |-> "idle", due |-> {}]
  /\ ticks_count = 0
  /\ pattern = Learning!NewPattern
  /\ ctx = [t \in Limited |-> [used |-> 0, max |-> 0]]
  /\ last_evaluated_plans = << >>
  /\ http = [inbox |-> << >>, ready |-> FALSE, reply |-> NoReply, lines |-> 0]
  /\ client = [c \in Clients |-> NoDecision]
  /\ calls = 0 /\ fresh = {}

-----------------------------------------------------------------------------
(* process_simulation_tick, step by step where other threads can act. *)

Tick ==
  /\ gui.phase = "idle" /\ mutex = "free"
  /\ ticks_count < MaxTicks
  /\ mutex' = "tick"
  /\ ticks_count' = ticks_count + 1
  /\ gui' = [gui EXCEPT !.phase = "ram"]
  /\ UNCHANGED <<stats, pattern, ctx, last_evaluated_plans, http, clientsVars>>

(* Every third tick allocates and every other seventh frees. *)
Churn(tier, sizes) ==
  IF ticks_count % 3 = 0
  THEN /\ \E size \in sizes : stats' = record_allocation(stats, tier, size, 0)
       /\ fresh' = {}
  ELSE IF ticks_count % 7 = 0
  THEN /\ \E size \in FreeSizes : stats' = record_free(stats, tier, size, 0, 0)
       /\ fresh' = {}
  ELSE UNCHANGED <<stats, fresh>>

TickRam ==
  /\ gui.phase = "ram"
  /\ Churn("kRam", RamSizes)
  /\ gui' = [gui EXCEPT !.phase = "vram"]
  /\ UNCHANGED <<mutex, ticks_count, pattern, ctx, last_evaluated_plans, http, client, calls>>

(* The accesses are one page apart, so the stride repeats from the third. *)
TickVram ==
  /\ gui.phase = "vram"
  /\ Churn("kVram", VramSizes)
  /\ pattern' = Learning!learn_step(pattern,
                  IF pattern.accesses <= 1 THEN "nonzero" ELSE "repeated")
  /\ gui' = [gui EXCEPT !.phase = "sample"]
  /\ UNCHANGED <<mutex, ticks_count, ctx, last_evaluated_plans, http, client, calls>>

TickSampleRam ==
  /\ gui.phase = "sample"
  /\ ctx' = [t \in Limited |-> CASE
        t = "kRam"  -> [used |-> snapshot(stats).pool["ram"].current, max |-> MaxRam]
     [] t = "kVram" -> [used |-> 0, max |-> MaxVram]
     [] t = "kNvme" -> [used |-> 0, max |-> 0]]
  /\ gui' = [gui EXCEPT !.phase = "simulate"]
  /\ UNCHANGED <<stats, mutex, ticks_count, pattern, last_evaluated_plans, http, clientsVars>>

TickSimulate ==
  /\ gui.phase = "simulate"
  /\ ctx' = [ctx EXCEPT !["kVram"].used = snapshot(stats).pool["vram"].current]
  /\ last_evaluated_plans' = simulate_strategies(<<"kRam", "kVram", "kNvme">>, 1, ctx')
  /\ gui' = [phase |-> "emit", due |-> Bound]
  /\ UNCHANGED <<stats, mutex, ticks_count, pattern, http, clientsVars>>

(* The getters behind the properties lock mutex_, two constants apart. *)
NeedsLock(property) == property \notin {"migrationRate", "simulationAccuracy"}

(* data_changed -> the view model's signal -> the binding -> the getter. *)
Reevaluate(property) ==
  /\ gui.phase = "emit" /\ property \in gui.due
  /\ NeedsLock(property) => mutex = "free"
  /\ gui' = [gui EXCEPT !.due = @ \ {property}]
  /\ UNCHANGED <<stats, mutex, ticks_count, pattern, ctx, last_evaluated_plans, http, clientsVars>>

TickReturn ==
  /\ gui.phase = "emit" /\ gui.due = {}
  /\ gui' = [gui EXCEPT !.phase = "idle"]
  /\ mutex' = "free"
  /\ UNCHANGED <<stats, ticks_count, pattern, ctx, last_evaluated_plans, http, clientsVars>>

-----------------------------------------------------------------------------
(* One HTTP connection.  Lines are a routed GET (/health), anything else   *)
(* with two words, or a line of fewer words.  Lines that arrive together   *)
(* raise readyRead once, and read_request reads one of them.  A reply ends *)
(* in disconnectFromHost.                                                  *)

Arrive(lines) ==
  /\ http.reply = NoReply
  /\ http.lines + Len(lines) <= MaxLines
  /\ http' = [http EXCEPT !.inbox = @ \o lines, !.ready = TRUE, !.lines = @ + Len(lines)]
  /\ UNCHANGED <<stats, adapterVars, clientsVars>>

read_request ==
  /\ gui.phase = "idle" /\ http.ready /\ http.reply = NoReply
  /\ mutex = "free"
  /\ http' = [http EXCEPT
       !.ready = FALSE,
       !.inbox = IF @ = << >> THEN @ ELSE Tail(@),
       !.reply = IF http.inbox = << >> \/ Head(http.inbox) = "short" THEN @
                 ELSE IF Head(http.inbox) = "health"
                 THEN generate_report(snapshot(stats).pool, 1).health_score
                 ELSE 404]
  /\ UNCHANGED <<stats, adapterVars, clientsVars>>

-----------------------------------------------------------------------------
(* A client schedules an allocation, plans it, records it and frees it. *)

Capacities == [kVram |-> MaxVram, kRam |-> MaxRam, kNvme |-> MaxRam]

CallAllowed == calls < MaxCalls /\ calls' = calls + 1

Decide(c, size, hot) ==
  LET tier == schedule_allocation(snapshot(stats).pool, size, hot) IN
  /\ CallAllowed
  /\ client[c] = NoDecision
  /\ plan_placement(tier, size, Capacities) = "kOk"
  /\ client' = [client EXCEPT ![c] =
       [phase |-> "decided", tier |-> tier, size |-> size]]
  /\ fresh' = fresh \cup {c}
  /\ UNCHANGED <<stats, adapterVars, http>>

Record(c) ==
  /\ client[c].phase = "decided"
  /\ stats' = record_allocation(stats, client[c].tier, client[c].size, 0)
  /\ client' = [client EXCEPT ![c].phase = "holding"]
  /\ fresh' = {}
  /\ UNCHANGED <<adapterVars, http, calls>>

Free(c) ==
  /\ client[c].phase = "holding"
  /\ stats' = record_free(stats, client[c].tier, client[c].size, 1, 0)
  /\ client' = [client EXCEPT ![c] = NoDecision]
  /\ fresh' = {}
  /\ UNCHANGED <<adapterVars, http, calls>>

GuiStep ==
  \/ Tick \/ TickRam \/ TickVram \/ TickSampleRam \/ TickSimulate
  \/ \E p \in Bound : Reevaluate(p)
  \/ TickReturn

DashboardNext ==
  \/ GuiStep
  \/ read_request
  \/ \E lines \in Segments : Arrive(lines)
  \/ \E c \in Clients, size \in ClientSizes, hot \in BOOLEAN : Decide(c, size, hot)
  \/ \E c \in Clients : Record(c) \/ Free(c)

DashboardSpec == DashboardInit /\ [][DashboardNext]_dashboardVars

(* The event loop runs. *)
DashboardFairSpec == DashboardSpec /\ WF_dashboardVars(GuiStep)

-----------------------------------------------------------------------------
(* "1 Hz telemetry refresh loop": the GUI thread always comes back to its  *)
(* event loop.                                                             *)
RefreshLoop == []<>(gui.phase = "idle")

(* The plan with the best score among those on display fits its tier, with *)
(* the usage the twin was given.                                           *)
BestPlanFits ==
  (last_evaluated_plans # << >> /\ gui.phase \in {"emit", "idle"}) =>
    ~ OverCapacity(last_evaluated_plans[selected_plan(last_evaluated_plans)].tier, 1, ctx)

(* The scheduler measures pressure against the peak observed so far: once  *)
(* there is one, an allocation it sends to VRAM, recorded before anything  *)
(* else is, does not raise it.                                             *)
ScheduledKeepsVramPeak ==
  [][\A c \in Clients :
       (/\ client[c].phase = "decided" /\ client'[c].phase = "holding"
        /\ c \in fresh /\ client[c].tier = "kVram"
        /\ stats.pool["vram"].peak > 0)
       => stats'.pool["vram"].peak = stats.pool["vram"].peak]_dashboardVars
=============================================================================

----------------------------- MODULE Schedules -----------------------------
(***************************************************************************)
(* The schedule side of the plugin: next_fire_at of automation_rules, the  *)
(* ledger automation_schedule_dispatches, the one-shot jobs that            *)
(* flush_schedules puts into the Jobs queue, the timers that come back     *)
(* through receive_timer, and the advance to the next recurrence when the  *)
(* execution of a timer ends.                                              *)
(*                                                                         *)
(* A process is one running invocation: a rule command or reconcile.  A    *)
(* transaction is one action; the flush that follows it is not part of it  *)
(* and takes one action per statement and per call to Jobs.  What is       *)
(* abstracted:                                                             *)
(*  - an execution of a timer is "open" from receive_timer until           *)
(*    complete_execution; claims, leases and actions are in Executions,    *)
(*    whose contract allows a crashed worker's execution to be taken over  *)
(*    at any time and to be ended once;                                    *)
(*  - a rule command either commits here or changes nothing: the checks of *)
(*    revision, name and idempotency key decide which, not what it does;   *)
(*  - all hosts read one clock.                                            *)
(* Horizon, MaxCommands and MaxFaults bound the state space.               *)
(***************************************************************************)
EXTENDS ScheduleTime, FiniteSets

CONSTANTS Rules,        \* rule ids, in their order
          Triggers,     \* the triggers that commands may set
          Processes,    \* concurrent invocations
          Limit,        \* limit of a reconcile request, max_reconcile_items
          Horizon,      \* bound: the clock stops here
          MaxTime,      \* bound: no fire time is later
          MaxCommands,  \* bound: rule commands
          MaxFaults     \* bound: crashes, lost and rejected calls

Times == 0..MaxTime

ASSUME SchedulesAssumption ==
    /\ Rules \subseteq Nat
    /\ Limit \in Nat \ {0}
    /\ Horizon \in Nat /\ MaxTime \in Nat
    /\ MaxCommands \in Nat /\ MaxFaults \in Nat
    /\ \A trigger \in Triggers :
        \/ trigger.kind = "event"
        \/ /\ trigger.kind = "schedule"
           /\ trigger.interval_seconds \in Nat \ {0}
           /\ Horizon + trigger.interval_seconds * Second <= MaxTime
           /\ trigger.start_at \in Times \cup {NoTime}

VARIABLES
    clock,     \* the time
    rule,      \* "absent", "active" or "deleted" (deleted_at)
    enabled,   \* automation_rules.enabled
    trigger,   \* automation_rules.trigger
    next,      \* automation_rules.next_fire_at
    dispatch,  \* automation_schedule_dispatches.state, by rule and scheduled_for
    key,       \* automation_schedule_dispatches.idempotency_key, the time in it
    jobs,      \* the jobs in the Jobs queue
    timer,     \* automation_triggers of source 'timer', and what came of them
    execution, \* the execution of a timer: "none", "open" or "ended"
    pc,        \* where a process is
    batch,     \* the dispatches a process has read and not yet handled
    claimed,   \* the executions a process has claimed and not yet ended
    after,     \* where a process goes when its flush is over
    commands,  \* rule commands so far
    faults     \* faults so far

rules == <<rule, enabled, trigger, next>>
ledger == <<dispatch, key>>
intake == <<timer, execution>>
local == <<pc, batch, claimed, after>>
vars == <<clock, rules, ledger, jobs, intake, local, commands, faults>>

Job(r, t) == [rule_id |-> r, scheduled_for |-> t, dedupe_key |-> schedule_key(r, key[r][t])]

DispatchState == {"none", "pending", "enqueued", "cancelled"}
NoTrigger == [kind |-> "none"]

RuleType ==
    /\ rule \in [Rules -> {"absent", "active", "deleted"}]
    /\ enabled \in [Rules -> BOOLEAN]
    /\ trigger \in [Rules -> Triggers \cup {NoTrigger}]
    /\ next \in [Rules -> Times \cup {NoTime}]

LedgerType ==
    /\ dispatch \in [Rules -> [Times -> DispatchState]]
    /\ key \in [Rules -> [Times -> Times \cup {NoTime}]]
    /\ jobs \subseteq [rule_id : Rules, scheduled_for : Times, dedupe_key : Rules \X Times]

IntakeType ==
    /\ timer \in [Rules -> [Times -> {"none", "ignored", "accepted"}]]
    /\ execution \in [Rules -> [Times -> {"none", "open", "ended"}]]

ProcessType ==
    /\ pc \in [Processes -> {"idle", "read", "enqueue", "mark", "claim", "complete"}]
    /\ batch \in [Processes -> SUBSET (Rules \X Times)]
    /\ claimed \in [Processes -> SUBSET (Rules \X Times)]
    /\ after \in [Processes -> {"idle", "claim"}]

\* Every column holds a value of its type.
TypeOK ==
    /\ clock \in 0..Horizon
    /\ RuleType
    /\ LedgerType
    /\ IntakeType
    /\ ProcessType
    /\ commands \in 0..MaxCommands
    /\ faults \in 0..MaxFaults

Init ==
    /\ clock = 0
    /\ rule = [r \in Rules |-> "absent"]
    /\ enabled = [r \in Rules |-> FALSE]
    /\ trigger = [r \in Rules |-> NoTrigger]
    /\ next = [r \in Rules |-> NoTime]
    /\ dispatch = [r \in Rules |-> [t \in Times |-> "none"]]
    /\ key = [r \in Rules |-> [t \in Times |-> NoTime]]
    /\ jobs = {}
    /\ timer = [r \in Rules |-> [t \in Times |-> "none"]]
    /\ execution = [r \in Rules |-> [t \in Times |-> "none"]]
    /\ pc = [p \in Processes |-> "idle"]
    /\ batch = [p \in Processes |-> {}]
    /\ claimed = [p \in Processes |-> {}]
    /\ after = [p \in Processes |-> "idle"]
    /\ commands = 0
    /\ faults = 0

Tick ==
    /\ clock < Horizon
    /\ clock' = clock + 1
    /\ UNCHANGED <<rules, ledger, jobs, intake, local, commands, faults>>

Fault ==
    /\ faults < MaxFaults
    /\ faults' = faults + 1

Goto(p, label) == pc' = [pc EXCEPT ![p] = label]

---------------------------------------------------------------------------
(* The dispatch ledger.                                                    *)

\* Mutant of Superseded: a rule without next fire keeps its pending dispatch.
SupersededByAnother(state, t, n) == state = "pending" /\ n # NoTime /\ t # n

\* The rows that either UPDATE of replace_pending_schedule cancels.
Superseded(state, t, n) == state = "pending" /\ t # n

\* Mutant of Opened: ON CONFLICT DO NOTHING.
OpenedOnlyOnce(state) == IF state = "none" THEN "pending" ELSE state

\* The INSERT ... ON CONFLICT DO UPDATE ... WHERE state='cancelled'.
Opened(state) == IF state \in {"none", "cancelled"} THEN "pending" ELSE state

\* replace_pending_schedule, for the next fire time "fire" of the program.
\* The column keeps microseconds of it, the key all of it; a row that exists
\* keeps its key.
replace_pending_schedule(r, fire) ==
    LET n == IF fire = NoTime THEN NoTime ELSE PgTime(fire)
    IN  /\ dispatch' = [dispatch EXCEPT ![r] = [t \in Times |->
                IF t = n THEN Opened(dispatch[r][t])
                ELSE IF Superseded(dispatch[r][t], t, n) THEN "cancelled"
                ELSE dispatch[r][t]]]
        /\ key' = [key EXCEPT ![r] = [t \in Times |->
                IF t = n /\ dispatch[r][t] = "none" THEN fire ELSE key[r][t]]]

---------------------------------------------------------------------------
(* Rule commands.  A command that commits is followed by a flush, except   *)
(* delete_rule.                                                            *)

Command ==
    /\ commands < MaxCommands
    /\ commands' = commands + 1

\* The columns a command writes, next_fire_at and the dispatch ledger.
WriteRule(r, state, isEnabled, newTrigger) ==
    LET fire == initial_next_fire(newTrigger, isEnabled, clock)
    IN  /\ rule' = [rule EXCEPT ![r] = state]
        /\ enabled' = [enabled EXCEPT ![r] = isEnabled]
        /\ trigger' = [trigger EXCEPT ![r] = newTrigger]
        /\ next' = [next EXCEPT ![r] =
                IF fire = NoTime THEN NoTime ELSE PgTime(fire)]
        /\ replace_pending_schedule(r, fire)

\* flush_schedules begins; "label" is where the invocation goes on after it.
Flush(p, label) ==
    /\ Goto(p, "read")
    /\ after' = [after EXCEPT ![p] = label]
    /\ UNCHANGED <<batch, claimed>>

CreateRule(p, r) ==
    /\ pc[p] = "idle"
    /\ Command
    /\ rule[r] = "absent"
    /\ \E isEnabled \in BOOLEAN, newTrigger \in Triggers :
        WriteRule(r, "active", isEnabled, newTrigger)
    /\ Flush(p, "idle")
    /\ UNCHANGED <<clock, jobs, intake, faults>>

UpdateRule(p, r) ==
    /\ pc[p] = "idle"
    /\ Command
    /\ rule[r] = "active"
    /\ \E newTrigger \in Triggers : WriteRule(r, "active", enabled[r], newTrigger)
    /\ Flush(p, "idle")
    /\ UNCHANGED <<clock, jobs, intake, faults>>

SetRuleEnabled(p, r) ==
    /\ pc[p] = "idle"
    /\ Command
    /\ rule[r] = "active"
    /\ \E isEnabled \in BOOLEAN : WriteRule(r, "active", isEnabled, trigger[r])
    /\ Flush(p, "idle")
    /\ UNCHANGED <<clock, jobs, intake, faults>>

DeleteRule(p, r) ==
    /\ pc[p] = "idle"
    /\ Command
    /\ rule[r] = "active"
    /\ WriteRule(r, "deleted", FALSE, trigger[r])
    /\ UNCHANGED <<clock, jobs, intake, local, faults>>

\* A replayed command writes nothing and flushes all the same.
ReplayCommand(p) ==
    /\ pc[p] = "idle"
    /\ Command
    /\ \E r \in Rules : rule[r] # "absent"
    /\ Flush(p, "idle")
    /\ UNCHANGED <<clock, rules, ledger, jobs, intake, faults>>

---------------------------------------------------------------------------
(* flush_schedules.                                                        *)

\* Mutant of Pending: only the newest fire time of all rules is looked for.
PendingNewestOnly ==
    {d \in Rules \X Times :
        /\ dispatch[d[1]][d[2]] = "pending"
        /\ \A r \in Rules, t \in Times : dispatch[r][t] # "none" => t <= d[2]}

\* The rows with state='pending'.
Pending == {d \in Rules \X Times : dispatch[d[1]][d[2]] = "pending"}

\* ORDER BY scheduled_for, rule_id.
Before(c, d) == c[2] < d[2] \/ (c[2] = d[2] /\ c[1] <= d[1])

\* pending_dispatches reads the first Limit of them.
FirstPending == {d \in Pending : Cardinality({c \in Pending : Before(c, d)}) <= Limit}

\* The dispatch of its batch a process is at.
IsHead(p, d) == d \in batch[p] /\ \A c \in batch[p] : Before(d, c)

\* The flush goes on with the rest of the batch, or the invocation with what
\* comes after the flush.
NextDispatch(p, rest) ==
    /\ batch' = [batch EXCEPT ![p] = rest]
    /\ Goto(p, IF rest = {} THEN after[p] ELSE "enqueue")
    /\ UNCHANGED <<claimed, after>>

\* The invocation returns, with a response or an error, or dies.
Return(p) ==
    /\ Goto(p, "idle")
    /\ batch' = [batch EXCEPT ![p] = {}]
    /\ claimed' = [claimed EXCEPT ![p] = {}]
    /\ after' = [after EXCEPT ![p] = "idle"]

\* pending_dispatches.
ReadPending(p) ==
    /\ pc[p] = "read"
    /\ NextDispatch(p, FirstPending)
    /\ UNCHANGED <<clock, rules, ledger, jobs, intake, commands, faults>>

\* Jobs accepts the job; an equal idempotency key finds the job it made before.
Enqueue(p, d) ==
    /\ pc[p] = "enqueue"
    /\ IsHead(p, d)
    /\ jobs' = jobs \cup {Job(d[1], d[2])}
    /\ Goto(p, "mark")
    /\ UNCHANGED <<clock, rules, ledger, intake, batch, claimed, after, commands, faults>>

\* The call fails: a Runtime Failure after which the job may exist, or a
\* Domain error.  record_dispatch_failure leaves the state alone, and the
\* invocation returns an error without looking at the rest of its batch.
EnqueueFails(p, d) ==
    /\ pc[p] = "enqueue"
    /\ IsHead(p, d)
    /\ Fault
    /\ jobs' \in {jobs, jobs \cup {Job(d[1], d[2])}}
    /\ Return(p)
    /\ UNCHANGED <<clock, rules, ledger, intake, commands>>

\* Mutant of Marked: the UPDATE without "state='pending'".
MarkedAlways(state) == "enqueued"

\* What mark_dispatch_enqueued makes of the row.
Marked(state) == IF state = "pending" THEN "enqueued" ELSE state

MarkDispatchEnqueued(p, d) ==
    /\ pc[p] = "mark"
    /\ IsHead(p, d)
    /\ dispatch' = [dispatch EXCEPT ![d[1]][d[2]] = Marked(@)]
    /\ NextDispatch(p, batch[p] \ {d})
    /\ UNCHANGED <<clock, rules, key, jobs, intake, commands, faults>>

---------------------------------------------------------------------------
(* The timer comes back.                                                   *)

\* Mutant of TimerIsCurrent: the fire time of the timer is not looked at.
TimerIsCurrentAnyTime(r, t) ==
    rule[r] = "active" /\ enabled[r] /\ trigger[r].kind = "schedule"

\* The rule read by receive_timer is still waiting for this fire time.
TimerIsCurrent(r, t) ==
    /\ rule[r] = "active"
    /\ enabled[r]
    /\ trigger[r].kind = "schedule"
    /\ next[r] = t

\* receive_timer, called by the Host's worker for a job that is available.  A
\* key that is not schedule_key of the payload is refused for good, and a
\* timer that is recorded already changes nothing.
ReceiveTimer(job) ==
    LET r == job.rule_id
        t == job.scheduled_for
    IN  /\ clock >= t
        /\ job.dedupe_key = schedule_key(r, t)
        /\ timer[r][t] = "none"
        /\ IF TimerIsCurrent(r, t)
           THEN /\ timer' = [timer EXCEPT ![r][t] = "accepted"]
                /\ execution' = [execution EXCEPT ![r][t] = "open"]
           ELSE /\ timer' = [timer EXCEPT ![r][t] = "ignored"]
                /\ UNCHANGED execution
        /\ UNCHANGED <<clock, rules, ledger, jobs, local, commands, faults>>

---------------------------------------------------------------------------
(* reconcile: flush, claim and end executions, flush again.                *)

StartReconcile(p) ==
    /\ pc[p] = "idle"
    /\ Pending # {} \/ \E r \in Rules, t \in Times : execution[r][t] = "open"
    /\ Flush(p, "claim")
    /\ UNCHANGED <<clock, rules, ledger, jobs, intake, commands, faults>>

\* claim_executions: some of the open executions nobody else works on.
ClaimExecutions(p) ==
    LET free == {x \in Rules \X Times :
                    /\ execution[x[1]][x[2]] = "open"
                    /\ \A q \in Processes : x \notin claimed[q]}
    IN  /\ pc[p] = "claim"
        /\ \E part \in SUBSET free :
            /\ free # {} => part # {}
            /\ Cardinality(part) <= Limit
            /\ claimed' = [claimed EXCEPT ![p] = part]
        /\ Goto(p, "complete")
        /\ UNCHANGED <<clock, rules, ledger, jobs, intake, batch, after, commands, faults>>

\* Mutant of Advance: the rule advances whatever it is waiting for.
AdvanceAlways(r, t) ==
    rule[r] = "active" /\ enabled[r] /\ trigger[r].kind = "schedule"

\* complete_execution advances the rule only from the time that was executed.
Advance(r, t) ==
    /\ rule[r] = "active"
    /\ enabled[r]
    /\ trigger[r].kind = "schedule"
    /\ next[r] = t

\* complete_execution of a timer's execution, succeeded or failed.
CompleteExecution(p, r, t) ==
    /\ pc[p] = "complete"
    /\ <<r, t>> \in claimed[p]
    /\ execution' = [execution EXCEPT ![r][t] = "ended"]
    /\ IF Advance(r, t)
       THEN LET fire == t + trigger[r].interval_seconds * Second
            IN  /\ next' = [next EXCEPT ![r] = PgTime(fire)]
                /\ replace_pending_schedule(r, fire)
       ELSE UNCHANGED <<next, ledger>>
    /\ claimed' = [claimed EXCEPT ![p] = @ \ {<<r, t>>}]
    /\ UNCHANGED <<clock, rule, enabled, trigger, jobs, timer, pc, batch, after,
                   commands, faults>>

\* The batch is done; the second flush ends the invocation.
SecondFlush(p) ==
    /\ pc[p] = "complete"
    /\ claimed[p] = {}
    /\ Flush(p, "idle")
    /\ UNCHANGED <<clock, rules, ledger, jobs, intake, commands, faults>>

\* The process stops, a statement or an action of an execution fails.
Crash(p) ==
    /\ pc[p] # "idle"
    /\ Fault
    /\ Return(p)
    /\ UNCHANGED <<clock, rules, ledger, jobs, intake, commands>>

---------------------------------------------------------------------------
RuleCommand(p) ==
    \/ \E r \in Rules :
        \/ CreateRule(p, r)
        \/ UpdateRule(p, r)
        \/ SetRuleEnabled(p, r)
        \/ DeleteRule(p, r)
    \/ ReplayCommand(p)

ProcessStep(p) ==
    \/ ReadPending(p)
    \/ \E d \in batch[p] : Enqueue(p, d) \/ MarkDispatchEnqueued(p, d)
    \/ StartReconcile(p)
    \/ ClaimExecutions(p)
    \/ \E r \in Rules, t \in Times : CompleteExecution(p, r, t)
    \/ SecondFlush(p)

Next ==
    \/ Tick
    \/ \E p \in Processes :
        \/ RuleCommand(p)
        \/ ProcessStep(p)
        \/ \E d \in batch[p] : EnqueueFails(p, d)
        \/ Crash(p)
    \/ \E job \in jobs : ReceiveTimer(job)

Spec == Init /\ [][Next]_vars

\* Time passes, an invocation goes on until it returns, the Host calls
\* reconcile while there is work, and its Jobs worker delivers every job that
\* is available at least once.
Fairness ==
    /\ WF_vars(Tick)
    /\ \A p \in Processes : WF_vars(ProcessStep(p))
    /\ WF_vars(\E job \in jobs : ReceiveTimer(job))

FairSpec == Spec /\ Fairness

---------------------------------------------------------------------------
(* Properties.                                                             *)

\* The schedule state machine of docs/architecture-boundary.md: an enabled
\* rule with a next fire time T is always in exactly one stage of T: its
\* dispatch is pending, or its job is queued and the timer still to come, or
\* its execution is open.  Whatever order commands, flushes, deliveries and
\* completions take, a rule is never left waiting for something that nobody
\* will do.
ScheduleAlive ==
    \A r \in Rules : next[r] # NoTime =>
        LET t == next[r]
        IN  \/ dispatch[r][t] = "pending" /\ timer[r][t] = "none"
            \/ dispatch[r][t] = "enqueued" /\ timer[r][t] = "none" /\ Job(r, t) \in jobs
            \/ timer[r][t] = "accepted" /\ execution[r][t] = "open"

\* Only the fire time a rule waits for has a pending dispatch: superseded,
\* disabled and deleted schedules leave none that a later flush would enqueue.
PendingIsNext ==
    \A r \in Rules, t \in Times : dispatch[r][t] = "pending" =>
        rule[r] = "active" /\ enabled[r] /\ next[r] = t

\* "an enqueue racing with cancellation cannot re-open that intent": a
\* cancelled dispatch becomes pending again only with a rule that waits for
\* its time again, and never goes straight to enqueued.
CancelledStays ==
    [][\A r \in Rules, t \in Times :
        dispatch[r][t] = "cancelled" /\ dispatch'[r][t] # "cancelled" =>
            dispatch'[r][t] = "pending" /\ next'[r] = t]_vars

\* The schedule never runs backwards: while a rule stays enabled with one
\* trigger, its next fire time only grows, however late executions end.
NeverBackwards ==
    [][\A r \in Rules :
        next[r] # NoTime /\ next'[r] # NoTime /\ trigger'[r] = trigger[r] =>
            next[r] <= next'[r]]_vars

\* A fire time is executed once and only in its turn: an execution is opened
\* for the time the rule waits for, and after it the rule has moved on.
EndedMeansPast ==
    \A r \in Rules, t \in Times : execution[r][t] = "ended" => next[r] # t

\* Every job that Jobs holds for the plugin passes the key check of
\* receive_timer when the Host's worker delivers it.
TimerKeyVerifies ==
    \A job \in jobs : job.dedupe_key = schedule_key(job.rule_id, job.scheduled_for)

\* A recurring schedule recurs: a rule does not wait forever for a fire time
\* the clock reaches.  Crashes, lost calls to Jobs and failed executions delay
\* it, and only a rule command may end it.
ScheduleAdvances ==
    \A r \in Rules, t \in 0..Horizon : next[r] = t ~> next[r] # t
---------------------------------------------------------------------------
(* What a caller of the plugin relies on: module ScheduleContract.         *)

\* The schedule of a rule that is enabled.
InForce ==
    [r \in Rules |-> IF enabled[r] /\ trigger[r].kind = "schedule" THEN trigger[r] ELSE NoTrigger]

\* The fire times a rule is, or was, executed for.
ExecutedFor(state) == {x \in Rules \X Times : execution[x[1]][x[2]] = state}

Contract == INSTANCE ScheduleContract
    WITH schedule <- InForce, open <- ExecutedFor("open"), ended <- ExecutedFor("ended")

\* Dispatches, jobs and timers, commands, flushes and executions of any
\* number of invocations, in any order and with any faults, add up to
\* schedules that fire in their turn, at most once for each time, and move on
\* by one interval.
ImplementsContract == Contract!Spec
===========================================================================

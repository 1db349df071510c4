-------------------------- MODULE SchedulesProofs --------------------------
(***************************************************************************)
(* Proofs about Schedules, for any rules, processes, limits, commands and  *)
(* faults, and any length of time.  IInv is the inductive invariant.  What *)
(* depends on the triggers that are in use is stated with an assumption on *)
(* them, WholeStarts or WholeTimes, and what depends on the commands with  *)
(* one on the behavior, KeepsSchedule.                                     *)
(***************************************************************************)
EXTENDS Schedules, ScheduleTimeProofs

\* Only an enabled rule with a schedule waits, and a rule has a trigger.
RuleInv ==
    \A r \in Rules :
        /\ next[r] # NoTime => rule[r] = "active" /\ enabled[r] /\ trigger[r].kind = "schedule"
        /\ next[r] # NoTime => Whole(next[r])
        /\ rule[r] # "absent" => trigger[r] \in Triggers

\* Timers and executions are of the past.
PastInv ==
    /\ \A r \in Rules, t \in Times :
        timer[r][t] # "none" \/ execution[r][t] # "none" => t <= clock
    /\ \A p \in Processes, r \in Rules, t \in Times :
        <<r, t>> \in claimed[p] => execution[r][t] # "none"

\* A dispatch has a key, and a process works on dispatches that exist.
KeyInv ==
    /\ \A r \in Rules, t \in Times : dispatch[r][t] # "none" => key[r][t] \in Times
    /\ \A p \in Processes : \A d \in batch[p] : dispatch[d[1]][d[2]] # "none"

IInv == TypeOK /\ RuleInv /\ PastInv /\ KeyInv /\ PendingIsNext

---------------------------------------------------------------------------
(* The kinds of steps.                                                     *)

\* What a next fire time is in the table.
Stored(fire) == IF fire = NoTime THEN NoTime ELSE PgTime(fire)

Commands(r, state, isEnabled, newTrigger) ==
    /\ rule[r] # "deleted"
    /\ WriteRule(r, state, isEnabled, newTrigger)
    /\ UNCHANGED <<clock, jobs, timer, execution>>

Completes(r, t) ==
    /\ \E p \in Processes : <<r, t>> \in claimed[p]
    /\ execution' = [execution EXCEPT ![r][t] = "ended"]
    /\ IF Advance(r, t)
       THEN LET fire == t + trigger[r].interval_seconds * Second
            IN  /\ next' = [next EXCEPT ![r] = PgTime(fire)]
                /\ replace_pending_schedule(r, fire)
       ELSE UNCHANGED <<next, dispatch, key>>
    /\ UNCHANGED <<clock, rule, enabled, trigger, jobs, timer>>

Arrives(job) ==
    LET r == job.rule_id
        t == job.scheduled_for
    IN  /\ clock >= t
        /\ timer[r][t] = "none"
        /\ IF TimerIsCurrent(r, t)
           THEN /\ timer' = [timer EXCEPT ![r][t] = "accepted"]
                /\ execution' = [execution EXCEPT ![r][t] = "open"]
           ELSE /\ timer' = [timer EXCEPT ![r][t] = "ignored"]
                /\ UNCHANGED execution
        /\ UNCHANGED <<clock, rule, enabled, trigger, next, dispatch, key, jobs>>

Marks(p, d) ==
    /\ pc[p] = "mark" /\ IsHead(p, d)
    /\ dispatch' = [dispatch EXCEPT ![d[1]][d[2]] = Marked(@)]
    /\ UNCHANGED <<clock, rule, enabled, trigger, next, key, jobs, timer, execution>>

Queues(d) ==
    /\ jobs' \in {jobs, jobs \cup {Job(d[1], d[2])}}
    /\ UNCHANGED <<clock, rule, enabled, trigger, next, dispatch, key, timer, execution>>

Rests ==
    /\ clock' \in 0..Horizon /\ clock <= clock' /\ clock' <= clock + 1
    /\ UNCHANGED <<rule, enabled, trigger, next, dispatch, key, jobs, timer, execution>>

\* Every step is of one of these kinds.
LEMMA Kinds ==
    ASSUME IInv, Next
    PROVE  \/ \E r \in Rules, state \in {"active", "deleted"}, isEnabled \in BOOLEAN,
                  newTrigger \in Triggers :
                    /\ state = "deleted" => ~ isEnabled
                    /\ Commands(r, state, isEnabled, newTrigger)
           \/ \E r \in Rules, t \in Times : Completes(r, t)
           \/ \E job \in jobs : Arrives(job)
           \/ \E p \in Processes : \E d \in batch[p] : Marks(p, d)
           \/ \E p \in Processes : \E d \in batch[p] : Queues(d)
           \/ Rests
<1> USE DEF rules, ledger, intake, local
<1> DEFINE Goal == \/ \E r \in Rules, state \in {"active", "deleted"}, isEnabled \in BOOLEAN,
                          newTrigger \in Triggers :
                            /\ state = "deleted" => ~ isEnabled
                            /\ Commands(r, state, isEnabled, newTrigger)
                   \/ \E r \in Rules, t \in Times : Completes(r, t)
                   \/ \E job \in jobs : Arrives(job)
                   \/ \E p \in Processes : \E d \in batch[p] : Marks(p, d)
                   \/ \E p \in Processes : \E d \in batch[p] : Queues(d)
                   \/ Rests
<1> SUFFICES Goal
    OBVIOUS
<1>0. clock \in 0..Horizon /\ Horizon \in Nat
    BY SchedulesAssumption DEF IInv, TypeOK
<1>1. CASE Tick
    BY <1>0, <1>1 DEF Tick, Rests
<1>2. ASSUME NEW p \in Processes, NEW r \in Rules,
             \/ CreateRule(p, r) \/ UpdateRule(p, r)
             \/ SetRuleEnabled(p, r) \/ DeleteRule(p, r)
      PROVE  Goal
    <2>1. rule[r] # "absent" => enabled[r] \in BOOLEAN /\ trigger[r] \in Triggers
        BY DEF IInv, TypeOK, RuleType, RuleInv
    <2>2. CASE CreateRule(p, r)
        BY <2>2 DEF CreateRule, Commands
    <2>3. CASE UpdateRule(p, r)
        BY <2>1, <2>3 DEF UpdateRule, Commands
    <2>4. CASE SetRuleEnabled(p, r)
        BY <2>1, <2>4 DEF SetRuleEnabled, Commands
    <2>5. CASE DeleteRule(p, r)
        BY <2>1, <2>5 DEF DeleteRule, Commands
    <2> QED
        BY <1>2, <2>2, <2>3, <2>4, <2>5
<1>3. ASSUME NEW p \in Processes,
             \/ ReplayCommand(p) \/ ReadPending(p) \/ StartReconcile(p)
             \/ ClaimExecutions(p) \/ SecondFlush(p) \/ Crash(p)
      PROVE  Goal
    BY <1>0, <1>3 DEF ReplayCommand, ReadPending, StartReconcile, ClaimExecutions, SecondFlush,
        Crash, Rests
<1>4. ASSUME NEW p \in Processes, NEW d \in batch[p],
             Enqueue(p, d) \/ EnqueueFails(p, d)
      PROVE  Goal
    <2>1. Queues(d)
        BY <1>4 DEF Enqueue, EnqueueFails, Queues
    <2> QED
        BY <2>1
<1>5. ASSUME NEW p \in Processes, NEW d \in batch[p], MarkDispatchEnqueued(p, d)
      PROVE  Goal
    <2>1. Marks(p, d)
        BY <1>5 DEF MarkDispatchEnqueued, Marks
    <2> QED
        BY <2>1
<1>6. ASSUME NEW p \in Processes, NEW r \in Rules, NEW t \in Times, CompleteExecution(p, r, t)
      PROVE  Goal
    <2>1. Completes(r, t)
        BY <1>6 DEF CompleteExecution, Completes
    <2> QED
        BY <2>1
<1>7. ASSUME NEW job \in jobs, ReceiveTimer(job)
      PROVE  Goal
    <2>1. Arrives(job)
        BY <1>7 DEF ReceiveTimer, Arrives
    <2> QED
        BY <2>1
<1> HIDE DEF Goal
<1> QED
    BY <1>1, <1>2, <1>3, <1>4, <1>5, <1>6, <1>7 DEF Next, RuleCommand, ProcessStep

OpenExecutions == {x \in Rules \X Times : execution[x[1]][x[2]] = "open"}

\* What a step does to the local state of a process.
LocalStep(q) ==
    /\ batch'[q] \subseteq batch[q] \cup Pending
    /\ claimed'[q] \subseteq claimed[q] \cup OpenExecutions
    /\ pc'[q] = "mark" =>
        /\ batch'[q] = batch[q]
        /\ \/ pc[q] = "mark"
           \/ \E d \in batch[q] : IsHead(q, d) /\ Job(d[1], d[2]) \in jobs'

\* What a step does to the processes; their tables keep their types.
LEMMA Locals ==
    ASSUME IInv, Next
    PROVE  ProcessType' /\ \A q \in Processes : LocalStep(q)
<1> USE DEF local, Goto
<1> DEFINE Goal == ProcessType' /\ \A q \in Processes : LocalStep(q)
<1>0. ProcessType
    BY DEF IInv, TypeOK
<1>1. ASSUME UNCHANGED local PROVE Goal
    BY <1>0, <1>1 DEF ProcessType, LocalStep
<1>2. ASSUME NEW p \in Processes, NEW label \in {"idle", "claim"}, Flush(p, label)
      PROVE  Goal
    BY <1>0, <1>2 DEF ProcessType, LocalStep, Flush
<1>3. ASSUME NEW p \in Processes, Return(p) PROVE Goal
    BY <1>0, <1>3 DEF ProcessType, LocalStep, Return
<1>4. ASSUME NEW p \in Processes, NEW rest, NextDispatch(p, rest), rest \subseteq batch[p] \cup Pending
      PROVE  Goal
    <2>1. rest \in SUBSET (Rules \X Times)
        BY <1>0, <1>4 DEF ProcessType, Pending
    <2>2. pc'[p] \in {"idle", "claim", "enqueue"}
        BY <1>0, <1>4 DEF ProcessType, NextDispatch
    <2>3. ProcessType'
        BY <1>0, <1>4, <2>1, <2>2 DEF ProcessType, NextDispatch
    <2>4. \A q \in Processes : LocalStep(q)
        BY <1>0, <1>4, <2>2 DEF ProcessType, LocalStep, NextDispatch
    <2> QED
        BY <2>3, <2>4
<1>5. ASSUME NEW p \in Processes, NEW d \in batch[p], Enqueue(p, d) PROVE Goal
    BY <1>0, <1>5 DEF ProcessType, LocalStep, Enqueue
<1>6. ASSUME NEW p \in Processes, ClaimExecutions(p) PROVE Goal
    <2>1. PICK part \in SUBSET OpenExecutions : claimed' = [claimed EXCEPT ![p] = part]
        BY <1>6 DEF ClaimExecutions, OpenExecutions
    <2>2. part \in SUBSET (Rules \X Times)
        BY DEF OpenExecutions
    <2>3. pc' = [pc EXCEPT ![p] = "complete"] /\ batch' = batch /\ after' = after
        BY <1>6 DEF ClaimExecutions
    <2> QED
        BY <1>0, <2>1, <2>2, <2>3 DEF ProcessType, LocalStep
<1>7. ASSUME NEW p \in Processes, NEW r \in Rules, NEW t \in Times, CompleteExecution(p, r, t)
      PROVE  Goal
    <2>1. /\ claimed' = [claimed EXCEPT ![p] = @ \ {<<r, t>>}]
          /\ pc' = pc /\ batch' = batch /\ after' = after
        BY <1>7 DEF CompleteExecution
    <2> QED
        BY <1>0, <2>1 DEF ProcessType, LocalStep
<1> HIDE DEF Goal
<1>8. ASSUME Tick \/ \E job \in jobs : ReceiveTimer(job) PROVE Goal
    BY <1>1, <1>8 DEF Tick, ReceiveTimer
<1>9. ASSUME NEW p \in Processes, RuleCommand(p) PROVE Goal
    BY <1>1, <1>2, <1>9 DEF RuleCommand, CreateRule, UpdateRule, SetRuleEnabled, DeleteRule,
        ReplayCommand
<1>10. ASSUME NEW p \in Processes, ProcessStep(p) PROVE Goal
    <2>1. CASE ReadPending(p)
        BY <1>4, <2>1 DEF ReadPending, FirstPending
    <2>2. ASSUME NEW d \in batch[p], MarkDispatchEnqueued(p, d) PROVE Goal
        BY <1>4, <2>2 DEF MarkDispatchEnqueued
    <2>3. CASE StartReconcile(p) \/ SecondFlush(p)
        BY <1>2, <2>3 DEF StartReconcile, SecondFlush
    <2> QED
        BY <1>5, <1>6, <1>7, <1>10, <2>1, <2>2, <2>3 DEF ProcessStep
<1>11. ASSUME NEW p \in Processes, Crash(p) \/ \E d \in batch[p] : EnqueueFails(p, d) PROVE Goal
    BY <1>3, <1>11 DEF Crash, EnqueueFails
<1> QED
    BY <1>8, <1>9, <1>10, <1>11 DEF Next, Goal

---------------------------------------------------------------------------
(* The ledger.                                                             *)

\* A fire time is a number.
LEMMA NoTimeFacts == NoTime \notin Times /\ \A t \in Times : t \in Nat /\ t # NoTime
BY TimeAssumption DEF Times

\* What is stored of a fire time is one, in whole microseconds.
LEMMA StoredFacts ==
    ASSUME NEW fire \in Times \cup {NoTime}
    PROVE  /\ Stored(fire) \in Times \cup {NoTime}
           /\ Stored(fire) # NoTime <=> fire # NoTime
           /\ fire # NoTime => Stored(fire) = PgTime(fire) /\ Whole(PgTime(fire))
<1>1. CASE fire = NoTime
    BY <1>1 DEF Stored
<1>2. CASE fire \in Times
    <2>1. fire \in Nat /\ fire # NoTime
        BY <1>2, NoTimeFacts
    <2>2. PgTime(fire) \in Nat /\ PgTime(fire) <= fire /\ Whole(PgTime(fire))
        BY <2>1, PgTimeFacts, WholeFacts
    <2>3. PgTime(fire) \in Times /\ PgTime(fire) # NoTime
        BY <1>2, <2>1, <2>2, SchedulesAssumption, TimeAssumption DEF Times
    <2> QED
        BY <2>1, <2>2, <2>3 DEF Stored
<1> QED
    BY <1>1, <1>2

\* The row of the next fire time is pending unless it is enqueued, no other
\* row is pending, and no row is lost or gets another key.
LEMMA Replaced ==
    ASSUME LedgerType, NEW r \in Rules, NEW fire \in Times \cup {NoTime},
           replace_pending_schedule(r, fire)
    PROVE  /\ dispatch' \in [Rules -> [Times -> DispatchState]]
           /\ key' \in [Rules -> [Times -> Times \cup {NoTime}]]
           /\ \A o \in Rules : o # r => dispatch'[o] = dispatch[o] /\ key'[o] = key[o]
           /\ \A t \in Times :
                /\ dispatch'[r][t] = "pending" => t = Stored(fire)
                /\ dispatch'[r][t] = "enqueued" <=> dispatch[r][t] = "enqueued"
                /\ dispatch'[r][t] # "none" <=> dispatch[r][t] # "none" \/ t = Stored(fire)
                /\ dispatch[r][t] # "none" => key'[r][t] = key[r][t]
                /\ t = Stored(fire) /\ dispatch[r][t] = "none" => key'[r][t] = fire
                /\ t = Stored(fire) /\ dispatch[r][t] # "enqueued" => dispatch'[r][t] = "pending"
                /\ dispatch[r][t] = "cancelled" /\ t # Stored(fire) => dispatch'[r][t] = "cancelled"
<1> DEFINE n == Stored(fire)
           row(t) == IF t = n THEN Opened(dispatch[r][t])
                     ELSE IF Superseded(dispatch[r][t], t, n) THEN "cancelled"
                     ELSE dispatch[r][t]
           newkey(t) == IF t = n /\ dispatch[r][t] = "none" THEN fire ELSE key[r][t]
<1>1. /\ dispatch' = [dispatch EXCEPT ![r] = [t \in Times |-> row(t)]]
      /\ key' = [key EXCEPT ![r] = [t \in Times |-> newkey(t)]]
    BY DEF replace_pending_schedule, Stored
<1>2. \A t \in Times : dispatch[r][t] \in DispatchState /\ key[r][t] \in Times \cup {NoTime}
    BY DEF LedgerType
<1>3. \A t \in Times : row(t) \in DispatchState /\ newkey(t) \in Times \cup {NoTime}
    BY <1>2 DEF Opened, DispatchState
<1>4. \A t \in Times :
        /\ row(t) = "pending" => t = n
        /\ row(t) = "enqueued" <=> dispatch[r][t] = "enqueued"
        /\ row(t) # "none" <=> dispatch[r][t] # "none" \/ t = n
        /\ t = n /\ dispatch[r][t] # "enqueued" => row(t) = "pending"
        /\ dispatch[r][t] = "cancelled" /\ t # n => row(t) = "cancelled"
    BY <1>2 DEF Opened, Superseded, DispatchState
<1>5. \A t \in Times :
        /\ dispatch[r][t] # "none" => newkey(t) = key[r][t]
        /\ t = n /\ dispatch[r][t] = "none" => newkey(t) = fire
    OBVIOUS
<1> HIDE DEF row, newkey, n
<1>6. /\ dispatch' \in [Rules -> [Times -> DispatchState]]
      /\ key' \in [Rules -> [Times -> Times \cup {NoTime}]]
    BY <1>1, <1>3 DEF LedgerType
<1>7. /\ \A o \in Rules : o # r => dispatch'[o] = dispatch[o] /\ key'[o] = key[o]
      /\ \A t \in Times : dispatch'[r][t] = row(t) /\ key'[r][t] = newkey(t)
    BY <1>1 DEF LedgerType
<1> QED
    BY <1>4, <1>5, <1>6, <1>7 DEF n

\* What the assumption says of a trigger with a schedule.
LEMMA TriggersAreSchedules ==
    ASSUME NEW u \in Triggers, u.kind = "schedule"
    PROVE  IsSchedule(u) /\ Horizon + Period(u) <= MaxTime /\ u.start_at \in Times \cup {NoTime}
<1>1. u.start_at \in Times \cup {NoTime} /\ u.interval_seconds \in Nat \ {0}
      /\ Horizon + Period(u) <= MaxTime
    BY SchedulesAssumption DEF Period
<1> QED
    BY <1>1 DEF IsSchedule, Times

\* The next fire time of a command, and that after an execution, are in the
\* bounds of the model.
LEMMA FireIsTime ==
    ASSUME NEW u \in Triggers, u.kind = "schedule", NEW now \in 0..Horizon
    PROVE  initial_next_fire(u, TRUE, now) \in Times /\ now + Period(u) \in Times
<1> DEFINE fire == initial_next_fire(u, TRUE, now)
           P == Period(u)
           start == u.start_at
<1>1. /\ P \in Nat \ {0} /\ Horizon + P <= MaxTime /\ IsSchedule(u)
      /\ start \in Times \cup {NoTime}
    BY TriggersAreSchedules, PeriodFacts
<1>2. now \in Nat /\ Horizon \in Nat /\ MaxTime \in Nat /\ NoTime \notin Int
    BY SchedulesAssumption, TimeAssumption
<1>3. /\ fire \in Nat
      /\ start = NoTime => fire = now + P
      /\ start # NoTime /\ now < start => fire = start
      /\ start # NoTime /\ start <= now =>
            \E k \in Nat : fire = start + (k + 1) * P /\ start + k * P <= now
    BY <1>1, <1>2, FireFacts
<1> HIDE DEF fire, P, start
<1>4. now + P \in Times
    BY <1>1, <1>2 DEF Times
<1>5. CASE start = NoTime
    BY <1>3, <1>4, <1>5 DEF fire, P
<1>6. CASE start \in Times /\ now < start
    BY <1>2, <1>3, <1>4, <1>6, NoTimeFacts DEF fire, P
<1>7. CASE start \in Times /\ ~ (now < start)
    <2>1. start \in Nat /\ start <= now /\ start # NoTime
        BY <1>2, <1>7, NoTimeFacts
    <2>2. PICK k \in Nat : fire = start + (k + 1) * P /\ start + k * P <= now
        BY <1>3, <2>1
    <2>3. (k + 1) * P = k * P + P /\ k * P \in Nat
        BY <1>1
    <2>4. fire \in Times
        BY <1>1, <1>2, <1>3, <2>1, <2>2, <2>3 DEF Times
    <2> QED
        BY <1>4, <2>4 DEF fire, P
<1> QED
    BY <1>1, <1>5, <1>6, <1>7

\* A command and an advance set the next fire time and its dispatch alike.
SetsNext(r, fire) ==
    /\ next' = [next EXCEPT ![r] = Stored(fire)]
    /\ replace_pending_schedule(r, fire)

\* A command sets the next fire time that initial_next_fire gives it.
LEMMA CommandFacts ==
    ASSUME IInv, NEW r \in Rules, NEW state \in {"active", "deleted"}, NEW isEnabled \in BOOLEAN,
           NEW newTrigger \in Triggers, Commands(r, state, isEnabled, newTrigger)
    PROVE  \E fire \in Times \cup {NoTime} :
            /\ SetsNext(r, fire)
            /\ fire # NoTime =>
                /\ isEnabled /\ newTrigger.kind = "schedule"
                /\ fire = initial_next_fire(newTrigger, TRUE, clock)
<1> DEFINE fire == initial_next_fire(newTrigger, isEnabled, clock)
<1>1. SetsNext(r, fire)
    BY DEF Commands, WriteRule, SetsNext, Stored
<1>2. clock \in 0..Horizon
    BY DEF IInv, TypeOK
<1>3. CASE isEnabled /\ newTrigger.kind = "schedule"
    <2>1. fire = initial_next_fire(newTrigger, TRUE, clock)
        BY <1>3 DEF initial_next_fire
    <2> QED
        BY <1>1, <1>2, <1>3, <2>1, FireIsTime
<1>4. CASE ~ (isEnabled /\ newTrigger.kind = "schedule")
    <2>1. fire = NoTime
        BY <1>4 DEF initial_next_fire
    <2> QED
        BY <1>1, <2>1
<1> QED
    BY <1>3, <1>4

\* An advance sets the time one interval after that of the execution.
LEMMA AdvanceFacts ==
    ASSUME IInv, NEW r \in Rules, NEW t \in Times, Completes(r, t), Advance(r, t)
    PROVE  LET fire == t + Period(trigger[r])
           IN  /\ fire \in Times /\ SetsNext(r, fire) /\ fire # NoTime
               /\ t <= clock /\ next[r] = t
               /\ trigger[r] \in Triggers /\ trigger[r].kind = "schedule"
<1>1. t <= clock /\ clock \in 0..Horizon
    BY DEF IInv, TypeOK, PastInv, Completes
<1>2. trigger[r] \in Triggers /\ trigger[r].kind = "schedule" /\ next[r] = t
    BY DEF IInv, RuleInv, Advance
<1>3. t \in 0..Horizon
    BY <1>1, SchedulesAssumption DEF Times
<1>4. t + Period(trigger[r]) \in Times
    BY <1>2, <1>3, FireIsTime
<1>5. t + Period(trigger[r]) # NoTime
    BY <1>4, NoTimeFacts
<1>6. SetsNext(r, t + Period(trigger[r]))
    BY <1>5 DEF Completes, SetsNext, Stored, Period
<1> QED
    BY <1>1, <1>2, <1>4, <1>5, <1>6

---------------------------------------------------------------------------
(* The invariant is inductive.                                             *)

\* Rows do not disappear, nor change their key, and executions stay.
Persists ==
    \A r \in Rules, t \in Times :
        /\ dispatch[r][t] # "none" => dispatch'[r][t] # "none" /\ key'[r][t] = key[r][t]
        /\ execution[r][t] # "none" => execution'[r][t] # "none"

PastTimes == \A r \in Rules, t \in Times :
    timer[r][t] # "none" \/ execution[r][t] # "none" => t <= clock
HasKey == \A r \in Rules, t \in Times : dispatch[r][t] # "none" => key[r][t] \in Times

\* What the kinds of steps establish of the tables.
Tables ==
    /\ clock \in 0..Horizon /\ RuleType /\ LedgerType /\ IntakeType
    /\ RuleInv /\ PastTimes /\ HasKey /\ PendingIsNext

LEMMA TablesHold == ASSUME IInv PROVE Tables
BY DEF IInv, TypeOK, PastInv, KeyInv, Tables, PastTimes, HasKey

\* A new next fire time of a rule that is enabled with a schedule.
LEMMA SetsNextKeeps ==
    ASSUME Tables, NEW r \in Rules, NEW fire \in Times \cup {NoTime}, SetsNext(r, fire),
           rule' \in [Rules -> {"absent", "active", "deleted"}],
           enabled' \in [Rules -> BOOLEAN],
           trigger' \in [Rules -> Triggers \cup {NoTrigger}],
           \A o \in Rules : o # r =>
                rule'[o] = rule[o] /\ enabled'[o] = enabled[o] /\ trigger'[o] = trigger[o],
           trigger'[r] \in Triggers,
           fire # NoTime => rule'[r] = "active" /\ enabled'[r] /\ trigger'[r].kind = "schedule",
           jobs' = jobs
    PROVE  /\ RuleType' /\ LedgerType' /\ RuleInv' /\ HasKey' /\ PendingIsNext'
           /\ \A o \in Rules, t \in Times : dispatch[o][t] # "none" =>
                dispatch'[o][t] # "none" /\ key'[o][t] = key[o][t]
<1> DEFINE n == Stored(fire)
<1>1. n \in Times \cup {NoTime} /\ (n # NoTime <=> fire # NoTime) /\ (n # NoTime => Whole(n))
    BY StoredFacts
<1>2. /\ next' \in [Rules -> Times \cup {NoTime}]
      /\ next'[r] = n /\ \A o \in Rules : o # r => next'[o] = next[o]
    BY <1>1 DEF SetsNext, Tables, RuleType
<1>3. /\ dispatch' \in [Rules -> [Times -> DispatchState]]
      /\ key' \in [Rules -> [Times -> Times \cup {NoTime}]]
      /\ \A o \in Rules : o # r => dispatch'[o] = dispatch[o] /\ key'[o] = key[o]
      /\ \A t \in Times :
            /\ dispatch'[r][t] = "pending" => t = n
            /\ dispatch'[r][t] # "none" <=> dispatch[r][t] # "none" \/ t = n
            /\ dispatch[r][t] # "none" => key'[r][t] = key[r][t]
            /\ t = n /\ dispatch[r][t] = "none" => key'[r][t] = fire
    BY Replaced DEF SetsNext, Tables, LedgerType
<1> HIDE DEF n
<1>4. RuleType' /\ LedgerType'
    BY <1>2, <1>3 DEF Tables, RuleType, LedgerType
<1>5. RuleInv'
    BY <1>1, <1>2 DEF Tables, RuleInv
<1>6. HasKey'
    BY <1>1, <1>3, NoTimeFacts DEF Tables, HasKey
<1>7. PendingIsNext'
    BY <1>1, <1>2, <1>3, NoTimeFacts DEF Tables, PendingIsNext
<1> QED
    BY <1>3, <1>4, <1>5, <1>6, <1>7

\* Each kind of step keeps the tables and loses no row.
LEMMA CommandKeeps ==
    ASSUME IInv, NEW r \in Rules, NEW state \in {"active", "deleted"}, NEW isEnabled \in BOOLEAN,
           NEW newTrigger \in Triggers, state = "deleted" => ~ isEnabled,
           Commands(r, state, isEnabled, newTrigger)
    PROVE  Tables' /\ Persists
<1>1. PICK fire \in Times \cup {NoTime} :
            /\ SetsNext(r, fire)
            /\ fire # NoTime => isEnabled /\ newTrigger.kind = "schedule"
    BY CommandFacts
<1>2. /\ rule' = [rule EXCEPT ![r] = state] /\ enabled' = [enabled EXCEPT ![r] = isEnabled]
      /\ trigger' = [trigger EXCEPT ![r] = newTrigger]
      /\ UNCHANGED <<clock, jobs, timer, execution>>
    BY DEF Commands, WriteRule
<1>3. Tables
    BY TablesHold
<1>4. /\ rule' \in [Rules -> {"absent", "active", "deleted"}]
      /\ enabled' \in [Rules -> BOOLEAN]
      /\ trigger' \in [Rules -> Triggers \cup {NoTrigger}]
      /\ \A o \in Rules : o # r =>
            rule'[o] = rule[o] /\ enabled'[o] = enabled[o] /\ trigger'[o] = trigger[o]
      /\ rule'[r] = state /\ enabled'[r] = isEnabled /\ trigger'[r] = newTrigger
    BY <1>2, <1>3 DEF Tables, RuleType
<1>5. /\ RuleType' /\ LedgerType' /\ RuleInv' /\ HasKey' /\ PendingIsNext'
      /\ \A o \in Rules, t \in Times : dispatch[o][t] # "none" =>
            dispatch'[o][t] # "none" /\ key'[o][t] = key[o][t]
    BY <1>1, <1>2, <1>3, <1>4, SetsNextKeeps
<1>6. IntakeType' /\ PastTimes' /\ clock' \in 0..Horizon
    BY <1>2, <1>3 DEF Tables, IntakeType, PastTimes
<1> QED
    BY <1>2, <1>5, <1>6 DEF Tables, Persists

LEMMA CompleteKeeps ==
    ASSUME IInv, NEW r \in Rules, NEW t \in Times, Completes(r, t)
    PROVE  Tables' /\ Persists
<1>1. Tables /\ execution[r][t] # "none" /\ t <= clock
    BY TablesHold DEF IInv, PastInv, Completes
<1>2. /\ UNCHANGED <<clock, rule, enabled, trigger, jobs, timer>>
      /\ execution' = [execution EXCEPT ![r][t] = "ended"]
    BY DEF Completes
<1>3. IntakeType' /\ PastTimes' /\ clock' \in 0..Horizon
      /\ \A o \in Rules, u \in Times : execution[o][u] # "none" => execution'[o][u] # "none"
    BY <1>1, <1>2 DEF Tables, IntakeType, PastTimes
<1>4. /\ RuleType' /\ LedgerType' /\ RuleInv' /\ HasKey' /\ PendingIsNext'
      /\ \A o \in Rules, u \in Times : dispatch[o][u] # "none" =>
            dispatch'[o][u] # "none" /\ key'[o][u] = key[o][u]
    <2>1. CASE Advance(r, t)
        <3> DEFINE fire == t + Period(trigger[r])
        <3>1. fire \in Times /\ SetsNext(r, fire) /\ trigger[r] \in Triggers
              /\ rule[r] = "active" /\ enabled[r] /\ trigger[r].kind = "schedule"
            BY <2>1, AdvanceFacts DEF Advance
        <3> HIDE DEF fire
        <3>2. /\ rule \in [Rules -> {"absent", "active", "deleted"}]
              /\ enabled \in [Rules -> BOOLEAN]
              /\ trigger \in [Rules -> Triggers \cup {NoTrigger}]
            BY <1>1 DEF Tables, RuleType
        <3> QED
            BY <1>1, <1>2, <3>1, <3>2, SetsNextKeeps
    <2>2. CASE ~ Advance(r, t)
        <3>1. UNCHANGED <<next, dispatch, key>>
            BY <2>2 DEF Completes
        <3> QED
            BY <1>1, <1>2, <3>1 DEF Tables, RuleType, LedgerType, RuleInv, HasKey, PendingIsNext
    <2> QED
        BY <2>1, <2>2
<1> QED
    BY <1>3, <1>4 DEF Tables, Persists

LEMMA ArriveKeeps ==
    ASSUME IInv, NEW job \in jobs, Arrives(job)
    PROVE  Tables' /\ Persists
<1> DEFINE r == job.rule_id
           t == job.scheduled_for
<1>1. Tables /\ r \in Rules /\ t \in Times
    BY TablesHold DEF Tables, LedgerType
<1> HIDE DEF r, t
<1>2. /\ clock >= t /\ UNCHANGED <<clock, rule, enabled, trigger, next, dispatch, key, jobs>>
      /\ \E made \in {"accepted", "ignored"} : timer' = [timer EXCEPT ![r][t] = made]
      /\ execution' = [execution EXCEPT ![r][t] = "open"] \/ execution' = execution
    BY DEF Arrives, r, t
<1>3. IntakeType' /\ PastTimes'
      /\ \A o \in Rules, u \in Times : execution[o][u] # "none" => execution'[o][u] # "none"
    <2>1. timer' \in [Rules -> [Times -> {"none", "ignored", "accepted"}]]
          /\ \A o \in Rules, u \in Times : timer'[o][u] # "none" =>
                timer[o][u] # "none" \/ (o = r /\ u = t)
        BY <1>1, <1>2 DEF Tables, IntakeType
    <2>2. execution' \in [Rules -> [Times -> {"none", "open", "ended"}]]
          /\ \A o \in Rules, u \in Times :
                /\ execution'[o][u] # "none" => execution[o][u] # "none" \/ (o = r /\ u = t)
                /\ execution[o][u] # "none" => execution'[o][u] # "none"
        BY <1>1, <1>2 DEF Tables, IntakeType
    <2>3. t <= clock
        BY <1>1, <1>2, SchedulesAssumption DEF Tables, Times
    <2> QED
        BY <1>1, <1>2, <2>1, <2>2, <2>3 DEF Tables, IntakeType, PastTimes
<1>4. clock' \in 0..Horizon /\ RuleType' /\ LedgerType' /\ RuleInv' /\ HasKey' /\ PendingIsNext'
    BY <1>1, <1>2 DEF Tables, RuleType, LedgerType, RuleInv, HasKey, PendingIsNext
<1> QED
    BY <1>2, <1>3, <1>4 DEF Tables, Persists

LEMMA MarkKeeps ==
    ASSUME IInv, NEW p \in Processes, NEW d \in batch[p], Marks(p, d)
    PROVE  Tables' /\ Persists
<1>1. Tables /\ d[1] \in Rules /\ d[2] \in Times /\ dispatch[d[1]][d[2]] # "none"
    BY TablesHold DEF IInv, TypeOK, ProcessType, KeyInv
<1>2. /\ dispatch' = [dispatch EXCEPT ![d[1]][d[2]] = Marked(@)]
      /\ UNCHANGED <<clock, rule, enabled, trigger, next, key, jobs, timer, execution>>
    BY DEF Marks
<1>3. \A o \in Rules, u \in Times :
        /\ dispatch'[o][u] \in DispatchState
        /\ dispatch'[o][u] = "none" <=> dispatch[o][u] = "none"
        /\ dispatch'[o][u] = "pending" => dispatch[o][u] = "pending"
    BY <1>1, <1>2 DEF Tables, LedgerType, Marked, DispatchState
<1>4. dispatch' \in [Rules -> [Times -> DispatchState]]
    BY <1>1, <1>2, <1>3 DEF Tables, LedgerType
<1>5. LedgerType' /\ HasKey' /\ PendingIsNext'
    BY <1>1, <1>2, <1>3, <1>4 DEF Tables, LedgerType, HasKey, PendingIsNext
<1>6. clock' \in 0..Horizon /\ RuleType' /\ IntakeType' /\ RuleInv' /\ PastTimes'
    BY <1>1, <1>2 DEF Tables, RuleType, IntakeType, RuleInv, PastTimes
<1> QED
    BY <1>2, <1>3, <1>5, <1>6 DEF Tables, Persists

LEMMA QueueKeeps ==
    ASSUME IInv, NEW p \in Processes, NEW d \in batch[p], Queues(d)
    PROVE  Tables' /\ Persists
<1>1. Tables /\ d[1] \in Rules /\ d[2] \in Times /\ dispatch[d[1]][d[2]] # "none"
    BY TablesHold DEF IInv, TypeOK, ProcessType, KeyInv
<1>2. /\ jobs' \in {jobs, jobs \cup {Job(d[1], d[2])}}
      /\ UNCHANGED <<clock, rule, enabled, trigger, next, dispatch, key, timer, execution>>
    BY DEF Queues
<1>3. Job(d[1], d[2]) \in [rule_id : Rules, scheduled_for : Times, dedupe_key : Rules \X Times]
    BY <1>1 DEF Job, schedule_key, Tables, HasKey
<1>4. LedgerType'
    BY <1>1, <1>2, <1>3 DEF Tables, LedgerType
<1>5. /\ clock' \in 0..Horizon /\ RuleType' /\ IntakeType' /\ RuleInv'
      /\ PastTimes' /\ HasKey' /\ PendingIsNext'
    BY <1>1, <1>2 DEF Tables, RuleType, IntakeType, RuleInv, PastTimes, HasKey, PendingIsNext
<1> QED
    BY <1>2, <1>4, <1>5 DEF Tables, Persists

LEMMA RestKeeps ==
    ASSUME IInv, Rests
    PROVE  Tables' /\ Persists
<1>1. /\ clock' \in 0..Horizon /\ clock <= clock' /\ clock \in 0..Horizon
      /\ UNCHANGED <<rule, enabled, trigger, next, dispatch, key, jobs, timer, execution>>
    BY DEF Rests, IInv, TypeOK
<1>2. Tables
    BY TablesHold
<1>3. PastTimes'
    BY <1>1, <1>2, SchedulesAssumption DEF Tables, PastTimes, Times
<1>4. RuleType' /\ LedgerType' /\ IntakeType' /\ RuleInv' /\ HasKey' /\ PendingIsNext'
    BY <1>1, <1>2 DEF Tables, RuleType, LedgerType, IntakeType, RuleInv, HasKey, PendingIsNext
<1> QED
    BY <1>1, <1>3, <1>4 DEF Tables, Persists

LEMMA Counters == ASSUME IInv, Next PROVE commands' \in 0..MaxCommands /\ faults' \in 0..MaxFaults
<1>1. commands \in 0..MaxCommands /\ faults \in 0..MaxFaults /\ MaxCommands \in Nat /\ MaxFaults \in Nat
    BY SchedulesAssumption DEF IInv, TypeOK
<1>2. /\ commands' = commands \/ (commands < MaxCommands /\ commands' = commands + 1)
      /\ faults' = faults \/ (faults < MaxFaults /\ faults' = faults + 1)
    BY DEF Next, RuleCommand, ProcessStep, Tick, CreateRule, UpdateRule, SetRuleEnabled,
        DeleteRule, ReplayCommand, ReadPending, Enqueue, EnqueueFails, MarkDispatchEnqueued,
        ReceiveTimer, StartReconcile, ClaimExecutions, CompleteExecution, SecondFlush, Crash,
        Command, Fault
<1> QED
    BY <1>1, <1>2

\* The invariant holds of the empty tables and is kept.
LEMMA Start == ASSUME Init PROVE IInv
<1>1. 0 \in Times /\ 0 \in 0..Horizon /\ 0 \in 0..MaxCommands /\ 0 \in 0..MaxFaults
    BY SchedulesAssumption DEF Times
<1>2. TypeOK
    <2>1. RuleType /\ ProcessType
        BY DEF Init, RuleType, ProcessType
    <2>2. LedgerType /\ IntakeType
        BY DEF Init, LedgerType, IntakeType, DispatchState
    <2> QED
        BY <1>1, <2>1, <2>2 DEF Init, TypeOK
<1>3. RuleInv /\ PastInv /\ KeyInv /\ PendingIsNext
    BY DEF Init, RuleInv, PastInv, KeyInv, PendingIsNext
<1> QED
    BY <1>2, <1>3 DEF IInv

LEMMA Step == IInv /\ [Next]_vars => IInv'
<1> SUFFICES ASSUME IInv, [Next]_vars PROVE IInv'
    OBVIOUS
<1>1. CASE UNCHANGED vars
    BY <1>1 DEF vars, rules, ledger, intake, local, IInv, TypeOK, RuleType, LedgerType, IntakeType,
        ProcessType, RuleInv, PastInv, KeyInv, PendingIsNext
<1>2. CASE Next
    <2>1. Tables' /\ Persists
        BY <1>2, Kinds, CommandKeeps, CompleteKeeps, ArriveKeeps, MarkKeeps, QueueKeeps, RestKeeps
    <2>2. ProcessType' /\ \A q \in Processes : LocalStep(q)
        BY <1>2, Locals
    <2>3. TypeOK'
        BY <1>2, <2>1, <2>2, Counters DEF TypeOK, Tables
    <2>4. PastInv'
        <3>1. \A p \in Processes, r \in Rules, t \in Times :
                <<r, t>> \in claimed'[p] => execution[r][t] # "none"
            BY <2>2 DEF LocalStep, OpenExecutions, IInv, PastInv
        <3> QED
            BY <2>1, <3>1 DEF Tables, PastTimes, PastInv, Persists
    <2>5. KeyInv'
        <3>1. \A p \in Processes : \A d \in batch'[p] :
                d[1] \in Rules /\ d[2] \in Times /\ dispatch[d[1]][d[2]] # "none"
            BY <2>2 DEF LocalStep, Pending, IInv, TypeOK, ProcessType, KeyInv
        <3> QED
            BY <2>1, <3>1 DEF Tables, HasKey, KeyInv, Persists
    <2> QED
        BY <2>1, <2>3, <2>4, <2>5 DEF IInv, Tables
<1> QED
    BY <1>1, <1>2

LEMMA Invariant == Spec => []IInv
<1>1. Init => IInv
    BY Start
<1> QED
    BY <1>1, Step, PTL DEF Spec

\* Type correctness.
THEOREM TypeCorrect == Spec => []TypeOK
<1>1. IInv => TypeOK
    BY DEF IInv
<1> QED
    BY <1>1, Invariant, PTL

\* Only the fire time that an enabled rule waits for has a pending dispatch.
THEOREM OnlyNextIsPending == Spec => []PendingIsNext
<1>1. IInv => PendingIsNext
    BY DEF IInv
<1> QED
    BY <1>1, Invariant, PTL

\* A cancelled dispatch is opened again only as the next fire time of its
\* rule, and is never marked as enqueued by a flush that read it before.
CancelledStay ==
    \A r \in Rules, t \in Times :
        dispatch[r][t] = "cancelled" /\ dispatch'[r][t] # "cancelled" =>
            dispatch'[r][t] = "pending" /\ next'[r] = t

\* A new next fire time opens only its own dispatch.
LEMMA SetsNextReopens ==
    ASSUME LedgerType, RuleType, NEW r \in Rules, NEW fire \in Times \cup {NoTime}, SetsNext(r, fire)
    PROVE  CancelledStay
<1>1. /\ \A o \in Rules : o # r => dispatch'[o] = dispatch[o]
      /\ \A t \in Times :
            /\ dispatch[r][t] = "cancelled" /\ t = Stored(fire) => dispatch'[r][t] = "pending"
            /\ dispatch[r][t] = "cancelled" /\ t # Stored(fire) => dispatch'[r][t] = "cancelled"
    BY Replaced DEF SetsNext
<1>2. next'[r] = Stored(fire)
    BY DEF SetsNext, RuleType
<1> QED
    BY <1>1, <1>2 DEF CancelledStay

\* A cancelled intent is reopened only by the rule that waits for its time,
\* whatever a flush that read it before does.
THEOREM CancelledDispatchesStay == Spec => CancelledStays
<1>1. IInv /\ [Next]_vars => [CancelledStay]_vars
    <2> SUFFICES ASSUME IInv, Next PROVE CancelledStay
        OBVIOUS
    <2>1. LedgerType /\ RuleType
        BY DEF IInv, TypeOK
    <2>2. ASSUME NEW r \in Rules, NEW state \in {"active", "deleted"}, NEW isEnabled \in BOOLEAN,
                 NEW newTrigger \in Triggers, Commands(r, state, isEnabled, newTrigger)
          PROVE  CancelledStay
        BY <2>1, <2>2, CommandFacts, SetsNextReopens
    <2>3. ASSUME NEW r \in Rules, NEW t \in Times, Completes(r, t)
          PROVE  CancelledStay
        <3>1. CASE Advance(r, t)
            BY <2>1, <2>3, <3>1, AdvanceFacts, SetsNextReopens
        <3>2. CASE ~ Advance(r, t)
            BY <2>3, <3>2 DEF Completes, CancelledStay
        <3> QED
            BY <3>1, <3>2
    <2>4. ASSUME NEW p \in Processes, NEW d \in batch[p], Marks(p, d)
          PROVE  CancelledStay
        <3>1. d[1] \in Rules /\ d[2] \in Times
            BY DEF IInv, TypeOK, ProcessType
        <3> QED
            BY <2>1, <2>4, <3>1 DEF Marks, Marked, LedgerType, CancelledStay
    <2>5. ASSUME UNCHANGED dispatch PROVE CancelledStay
        BY <2>5 DEF CancelledStay
    <2> QED
        BY <2>2, <2>3, <2>4, <2>5, Kinds DEF Arrives, Queues, Rests
<1>2. CancelledStays <=> [][CancelledStay]_vars
    BY DEF CancelledStays, CancelledStay
<1> QED
    BY <1>1, <1>2, Invariant, PTL DEF Spec

---------------------------------------------------------------------------
(* A fire time is executed once, if schedules start at whole microseconds. *)

\* No start_at has a part of a microsecond.  With one, the stored next fire
\* time could be the present microsecond when a command sets it.
WholeStarts == \A u \in Triggers : u.kind = "schedule" => WholeStart(u)

\* Executions are of fire times up to the next one, ended ones of earlier ones.
OrderInv ==
    \A r \in Rules, t \in Times : next[r] # NoTime =>
        /\ execution[r][t] # "none" => t <= next[r]
        /\ execution[r][t] = "ended" => t < next[r]

\* A command waits for a time to come.
LEMMA CommandIsAhead ==
    ASSUME WholeStarts, IInv, NEW u \in Triggers, u.kind = "schedule"
    PROVE  LET fire == initial_next_fire(u, TRUE, clock)
           IN  fire \in Times /\ Stored(fire) \in Times /\ clock < Stored(fire)
<1> DEFINE fire == initial_next_fire(u, TRUE, clock)
<1>1. clock \in 0..Horizon /\ clock \in Nat
    BY SchedulesAssumption DEF IInv, TypeOK
<1>2. fire \in Times
    BY <1>1, FireIsTime
<1>3. Stored(fire) = PgTime(fire) /\ Stored(fire) \in Times
    BY <1>2, StoredFacts, NoTimeFacts
<1>4. clock < PgTime(fire)
    BY <1>1, TriggersAreSchedules, FireIsLater DEF WholeStarts
<1> QED
    BY <1>2, <1>3, <1>4

\* An advance goes forward.
LEMMA AdvanceIsAhead ==
    ASSUME IInv, NEW u \in Triggers, u.kind = "schedule", NEW t \in Times, t + Period(u) \in Times
    PROVE  Stored(t + Period(u)) \in Times /\ t < Stored(t + Period(u))
<1>1. Period(u) \in Nat /\ Micro <= Period(u) /\ t \in Nat /\ t + Period(u) # NoTime
    BY TriggersAreSchedules, PeriodFacts, NoTimeFacts
<1>2. /\ Stored(t + Period(u)) = PgTime(t + Period(u)) /\ Stored(t + Period(u)) \in Times
      /\ PgTime(t + Period(u)) \in Nat /\ t + Period(u) < PgTime(t + Period(u)) + Micro
    BY <1>1, StoredFacts, NoTimeFacts, PgTimeFacts
<1> QED
    BY <1>1, <1>2, TimeAssumption

\* Commands and advances go beyond every execution there is.
LEMMA OrderStep ==
    ASSUME WholeStarts, IInv, OrderInv, Next
    PROVE  OrderInv'
<1>1. clock \in Nat /\ RuleType /\ LedgerType /\ IntakeType
      /\ \A r \in Rules : next[r] \in Times \cup {NoTime}
    BY SchedulesAssumption DEF IInv, TypeOK, RuleType
<1>2. ASSUME NEW r \in Rules, NEW state \in {"active", "deleted"}, NEW isEnabled \in BOOLEAN,
             NEW newTrigger \in Triggers, Commands(r, state, isEnabled, newTrigger)
      PROVE  OrderInv'
    <2>0. \E fire \in Times \cup {NoTime} :
            /\ SetsNext(r, fire)
            /\ fire # NoTime =>
                /\ isEnabled /\ newTrigger.kind = "schedule"
                /\ fire = initial_next_fire(newTrigger, TRUE, clock)
        BY <1>2, CommandFacts
    <2>1. PICK fire \in Times \cup {NoTime} :
            /\ next' = [next EXCEPT ![r] = Stored(fire)]
            /\ fire # NoTime => newTrigger.kind = "schedule"
                                /\ fire = initial_next_fire(newTrigger, TRUE, clock)
        BY <2>0 DEF SetsNext
    <2>2. fire # NoTime => Stored(fire) \in Times /\ clock < Stored(fire)
        BY <2>1, CommandIsAhead
    <2>3. fire = NoTime => Stored(fire) = NoTime
        BY DEF Stored
    <2>4. execution' = execution /\ \A t \in Times : execution[r][t] # "none" => t <= clock
        BY <1>2 DEF Commands, IInv, PastInv
    <2> QED
        BY <1>1, <2>1, <2>2, <2>3, <2>4, NoTimeFacts DEF OrderInv, RuleType, Times
<1>3. ASSUME NEW r \in Rules, NEW t \in Times, Completes(r, t)
      PROVE  OrderInv'
    <2>1. execution' = [execution EXCEPT ![r][t] = "ended"] /\ execution[r][t] # "none"
        BY <1>3 DEF Completes, IInv, PastInv
    <2>2. /\ \A o \in Rules, u \in Times : o # r \/ u # t => execution'[o][u] = execution[o][u]
          /\ execution'[r][t] = "ended"
        BY <1>1, <2>1 DEF IntakeType
    <2>3. CASE Advance(r, t)
        <3> DEFINE n == Stored(t + Period(trigger[r]))
        <3>1. next' = [next EXCEPT ![r] = n] /\ next[r] = t /\ n \in Times /\ t < n
            BY <1>3, <2>3, AdvanceFacts, AdvanceIsAhead DEF SetsNext
        <3> HIDE DEF n
        <3>2. \A u \in Times : execution[r][u] # "none" => u < n
            BY <3>1, NoTimeFacts DEF OrderInv, Times
        <3> QED
            BY <1>1, <2>2, <3>1, <3>2, NoTimeFacts DEF OrderInv, RuleType, Times
    <2>4. CASE ~ Advance(r, t)
        <3>1. next' = next /\ next[r] # t
            BY <1>3, <2>4, NoTimeFacts DEF Completes, Advance, IInv, RuleInv
        <3> QED
            BY <1>1, <2>1, <2>2, <3>1 DEF OrderInv, Times
    <2> QED
        BY <2>3, <2>4
<1>4. ASSUME NEW job \in jobs, Arrives(job) PROVE OrderInv'
    <2> DEFINE r == job.rule_id
               t == job.scheduled_for
    <2>1. r \in Rules /\ t \in Times /\ next' = next
        BY <1>1, <1>4 DEF LedgerType, Arrives
    <2>2. \/ execution' = execution
          \/ execution' = [execution EXCEPT ![r][t] = "open"] /\ next[r] = t
        BY <1>4 DEF Arrives, TimerIsCurrent
    <2> HIDE DEF r, t
    <2>3. \A o \in Rules, u \in Times :
            \/ execution'[o][u] = execution[o][u]
            \/ execution'[o][u] = "open" /\ next[o] = u
        BY <1>1, <2>1, <2>2 DEF IntakeType
    <2> QED
        BY <1>1, <2>1, <2>3, NoTimeFacts DEF OrderInv, Times
<1>5. ASSUME UNCHANGED <<next, execution>> PROVE OrderInv'
    BY <1>5 DEF OrderInv
<1> QED
    BY <1>2, <1>3, <1>4, <1>5, Kinds DEF Marks, Queues, Rests

\* A fire time is executed once and in its turn.
THEOREM FireTimesArePast == ASSUME WholeStarts PROVE Spec => []EndedMeansPast
<1>1. Init => OrderInv
    BY DEF Init, OrderInv
<1>2. IInv /\ OrderInv /\ [Next]_vars => OrderInv'
    <2>1. ASSUME UNCHANGED vars, OrderInv PROVE OrderInv'
        BY <2>1 DEF vars, rules, intake, OrderInv
    <2> QED
        BY <2>1, OrderStep
<1>3. IInv /\ OrderInv => EndedMeansPast
    <2> SUFFICES ASSUME IInv, OrderInv, NEW r \in Rules, NEW t \in Times,
                        execution[r][t] = "ended", next[r] = t
                 PROVE  FALSE
        BY DEF EndedMeansPast
    <2> QED
        BY NoTimeFacts DEF OrderInv
<1> QED
    BY <1>1, <1>2, <1>3, Invariant, PTL DEF Spec

---------------------------------------------------------------------------
(* The jobs of enqueued dispatches.                                        *)

\* An enqueued dispatch has its job, a process that is about to mark one has
\* put its job into the queue, and there are no other jobs and timers than
\* those of dispatches.
QueueInv ==
    /\ \A r \in Rules, t \in Times : dispatch[r][t] = "enqueued" => Job(r, t) \in jobs
    /\ \A p \in Processes : \A d \in batch[p] :
        pc[p] = "mark" /\ IsHead(p, d) => Job(d[1], d[2]) \in jobs
    /\ \A job \in jobs : dispatch[job.rule_id][job.scheduled_for] # "none"
    /\ \A r \in Rules, t \in Times : timer[r][t] # "none" => dispatch[r][t] # "none"

\* A batch has one first dispatch.
LEMMA OneHead ==
    ASSUME IInv, NEW p \in Processes, NEW c \in batch[p], NEW d \in batch[p],
           IsHead(p, c), IsHead(p, d)
    PROVE  c = d
<1>1. c \in Rules \X Times /\ d \in Rules \X Times
    BY DEF IInv, TypeOK, ProcessType
<1>2. c[1] \in Nat /\ c[2] \in Nat /\ d[1] \in Nat /\ d[2] \in Nat
    <2>1. c[1] \in Rules /\ c[2] \in Times /\ d[1] \in Rules /\ d[2] \in Times
        BY <1>1
    <2> QED
        BY <2>1, SchedulesAssumption, NoTimeFacts
<1>3. c[1] = d[1] /\ c[2] = d[2]
    BY <1>2 DEF IsHead, Before
<1> QED
    BY <1>1, <1>3

\* What a step does to the queue and to the rows.
QueueStep ==
    /\ jobs \subseteq jobs'
    /\ \A job \in jobs' : job \in jobs \/ \E p \in Processes : \E d \in batch[p] :
        job = Job(d[1], d[2])
    /\ \A r \in Rules, t \in Times : dispatch'[r][t] = "enqueued" =>
        \/ dispatch[r][t] = "enqueued"
        \/ \E p \in Processes : \E d \in batch[p] :
            pc[p] = "mark" /\ IsHead(p, d) /\ d[1] = r /\ d[2] = t
    /\ \A r \in Rules, t \in Times : timer'[r][t] # "none" =>
        timer[r][t] # "none" \/ \E job \in jobs : job.rule_id = r /\ job.scheduled_for = t

\* Every step respects the queue.
LEMMA QueueSteps == ASSUME IInv, Next PROVE QueueStep
<1>1. LedgerType /\ IntakeType
    BY DEF IInv, TypeOK
<1>2. ASSUME NEW r \in Rules, NEW state \in {"active", "deleted"}, NEW isEnabled \in BOOLEAN,
             NEW newTrigger \in Triggers, Commands(r, state, isEnabled, newTrigger)
      PROVE  QueueStep
    <2>0. \E fire \in Times \cup {NoTime} :
            /\ SetsNext(r, fire)
            /\ fire # NoTime =>
                /\ isEnabled /\ newTrigger.kind = "schedule"
                /\ fire = initial_next_fire(newTrigger, TRUE, clock)
        BY <1>2, CommandFacts
    <2>1. \E fire \in Times \cup {NoTime} : replace_pending_schedule(r, fire)
        BY <2>0 DEF SetsNext
    <2>2. \A o \in Rules, t \in Times : dispatch'[o][t] = "enqueued" => dispatch[o][t] = "enqueued"
        BY <1>1, <2>1, Replaced
    <2> QED
        BY <1>2, <2>2 DEF Commands, QueueStep
<1>3. ASSUME NEW r \in Rules, NEW t \in Times, Completes(r, t)
      PROVE  QueueStep
    <2>1. \A o \in Rules, u \in Times : dispatch'[o][u] = "enqueued" => dispatch[o][u] = "enqueued"
        <3>1. CASE Advance(r, t)
            <4>1. \E fire \in Times \cup {NoTime} : replace_pending_schedule(r, fire)
                BY <1>3, <3>1, AdvanceFacts DEF SetsNext
            <4> QED
                BY <1>1, <4>1, Replaced
        <3>2. CASE ~ Advance(r, t)
            BY <1>3, <3>2 DEF Completes
        <3> QED
            BY <3>1, <3>2
    <2> QED
        BY <1>3, <2>1 DEF Completes, QueueStep
<1>4. ASSUME NEW job \in jobs, Arrives(job) PROVE QueueStep
    <2> DEFINE r == job.rule_id
               t == job.scheduled_for
    <2>1. \E made : timer' = [timer EXCEPT ![r][t] = made]
        BY <1>4 DEF Arrives
    <2>2. \A o \in Rules, u \in Times : timer'[o][u] # timer[o][u] => o = r /\ u = t
        BY <1>1, <2>1 DEF IntakeType
    <2>3. UNCHANGED <<dispatch, jobs>>
        BY <1>4 DEF Arrives
    <2> QED
        BY <2>2, <2>3 DEF QueueStep
<1>5. ASSUME NEW p \in Processes, NEW d \in batch[p], Marks(p, d) PROVE QueueStep
    <2>1. d[1] \in Rules /\ d[2] \in Times
        BY DEF IInv, TypeOK, ProcessType
    <2>2. \A o \in Rules, u \in Times : dispatch'[o][u] # dispatch[o][u] => o = d[1] /\ u = d[2]
        BY <1>1, <1>5, <2>1 DEF Marks, LedgerType
    <2>3. pc[p] = "mark" /\ IsHead(p, d) /\ UNCHANGED <<jobs, timer>>
        BY <1>5 DEF Marks
    <2> QED
        BY <2>2, <2>3 DEF QueueStep
<1>6. ASSUME NEW p \in Processes, NEW d \in batch[p], Queues(d) PROVE QueueStep
    BY <1>6 DEF Queues, QueueStep
<1>7. ASSUME Rests PROVE QueueStep
    BY <1>7 DEF Rests, QueueStep
<1> QED
    BY <1>2, <1>3, <1>4, <1>5, <1>6, <1>7, Kinds

\* QueueInv is inductive with IInv.
LEMMA QueueKept ==
    ASSUME IInv, QueueInv, Next
    PROVE  QueueInv'
<1>1. QueueStep /\ Persists /\ \A q \in Processes : LocalStep(q)
    BY QueueSteps, Locals, Kinds, CommandKeeps, CompleteKeeps, ArriveKeeps, MarkKeeps, QueueKeeps,
        RestKeeps
<1>2. \A p \in Processes : \A d \in batch[p] :
        d[1] \in Rules /\ d[2] \in Times /\ dispatch[d[1]][d[2]] # "none"
    BY DEF IInv, TypeOK, ProcessType, KeyInv
<1>3. \A r \in Rules, t \in Times : dispatch[r][t] # "none" => Job(r, t)' = Job(r, t)
    BY <1>1 DEF Persists, Job
<1>4. \A r \in Rules, t \in Times : dispatch'[r][t] = "enqueued" => Job(r, t)' \in jobs'
    <2> SUFFICES ASSUME NEW r \in Rules, NEW t \in Times, dispatch'[r][t] = "enqueued"
                 PROVE  Job(r, t)' \in jobs'
        OBVIOUS
    <2>1. CASE dispatch[r][t] = "enqueued"
        BY <1>1, <1>3, <2>1 DEF QueueInv, QueueStep
    <2>2. CASE dispatch[r][t] # "enqueued"
        <3>1. PICK p \in Processes : \E d \in batch[p] :
                pc[p] = "mark" /\ IsHead(p, d) /\ d[1] = r /\ d[2] = t
            BY <1>1, <2>2 DEF QueueStep
        <3>2. Job(r, t) \in jobs /\ dispatch[r][t] # "none"
            BY <1>2, <3>1 DEF QueueInv
        <3> QED
            BY <1>1, <1>3, <3>2 DEF QueueStep
    <2> QED
        BY <2>1, <2>2
<1>5. ASSUME NEW p \in Processes, NEW d \in batch'[p], pc'[p] = "mark", IsHead(p, d)'
      PROVE  Job(d[1], d[2])' \in jobs'
    <2>1. batch'[p] = batch[p] /\ IsHead(p, d)
        BY <1>1, <1>5 DEF LocalStep, IsHead, Before
    <2>2. Job(d[1], d[2]) \in jobs'
        <3>1. CASE pc[p] = "mark"
            BY <1>1, <2>1, <3>1 DEF QueueInv, QueueStep, IsHead
        <3>2. CASE pc[p] # "mark"
            <4>1. PICK c \in batch[p] : IsHead(p, c) /\ Job(c[1], c[2]) \in jobs'
                BY <1>1, <1>5, <3>2 DEF LocalStep
            <4>2. c = d
                BY <2>1, <4>1, OneHead DEF IsHead
            <4> QED
                BY <4>1, <4>2
        <3> QED
            BY <3>1, <3>2
    <2> QED
        BY <1>2, <1>3, <2>1, <2>2
<1>6. \A job \in jobs' : dispatch'[job.rule_id][job.scheduled_for] # "none"
    <2> SUFFICES ASSUME NEW job \in jobs'
                 PROVE  dispatch'[job.rule_id][job.scheduled_for] # "none"
        OBVIOUS
    <2>1. CASE job \in jobs
        <3>1. job.rule_id \in Rules /\ job.scheduled_for \in Times
            BY <2>1 DEF IInv, TypeOK, LedgerType
        <3> QED
            BY <1>1, <2>1, <3>1 DEF Persists, QueueInv
    <2>2. CASE job \notin jobs
        <3>1. PICK p \in Processes : \E d \in batch[p] : job = Job(d[1], d[2])
            BY <1>1, <2>2 DEF QueueStep
        <3>2. PICK d \in batch[p] : job.rule_id = d[1] /\ job.scheduled_for = d[2]
            BY <3>1 DEF Job
        <3> QED
            BY <1>1, <1>2, <3>2 DEF Persists
    <2> QED
        BY <2>1, <2>2
<1>7. \A r \in Rules, t \in Times : timer'[r][t] # "none" => dispatch'[r][t] # "none"
    BY <1>1 DEF QueueStep, QueueInv, Persists
<1> QED
    BY <1>4, <1>5, <1>6, <1>7 DEF QueueInv

LEMMA QueueStart == Init => QueueInv
BY DEF Init, QueueInv

LEMMA QueueStutter == QueueInv /\ UNCHANGED vars => QueueInv'
BY DEF QueueInv, vars, ledger, intake, local, Job, IsHead, Before

---------------------------------------------------------------------------
(* When the commands switch the schedule of a rule on and off and never    *)
(* set another one, its next fire time is the latest of its dispatches, so *)
(* that nothing has happened at it yet.                                    *)

\* A rule never has another schedule than S[r], whatever event triggers it has
\* in between.  With two, the time after an execution may be one that the other
\* schedule had, whose timer was ignored in the meantime.
KeepsSchedule(S) == \A r \in Rules : trigger[r].kind = "schedule" => trigger[r] = S[r]

\* The next fire time that a command would set.
Reach(u, now) == PgTime(initial_next_fire(u, TRUE, now))

\* The dispatches of a rule are times of its schedule, none later than the time
\* that a command would set now, or than the next fire time.
ReachInv(S) ==
    /\ \A r \in Rules, t \in Times : dispatch[r][t] # "none" =>
        S[r].kind = "schedule" /\ OnGrid(S[r], t) /\ t <= Reach(S[r], clock)
    /\ \A r \in Rules : next[r] # NoTime =>
        /\ dispatch[r][next[r]] # "none"
        /\ \A t \in Times : dispatch[r][t] # "none" => t <= next[r]

\* What a command or an advance may set as the next fire time.
Reaches(S, r, fire) ==
    /\ S[r].kind = "schedule"
    /\ OnGrid(S[r], Stored(fire))
    /\ Stored(fire) <= Reach(S[r], clock)
    /\ \A t \in Times : dispatch[r][t] # "none" => t <= Stored(fire)

\* A command sets the latest time of the schedule of its rule so far.
LEMMA CommandReaches ==
    ASSUME WholeStarts, NEW S \in [Rules -> Triggers], IInv, ReachInv(S), NEW r \in Rules,
           NEW u, u = S[r], u.kind = "schedule"
    PROVE  Reaches(S, r, initial_next_fire(u, TRUE, clock))
<1> DEFINE fire == initial_next_fire(u, TRUE, clock)
<1>1. u \in Triggers /\ clock \in Nat /\ IsSchedule(u)
    BY SchedulesAssumption, TriggersAreSchedules DEF IInv, TypeOK
<1>2. fire \in Times /\ Stored(fire) = PgTime(fire) /\ Stored(fire) = Reach(u, clock)
      /\ Stored(fire) \in Nat
    <2>1. fire \in Times /\ Stored(fire) \in Times
        BY <1>1, CommandIsAhead
    <2> QED
        BY <2>1, StoredFacts, NoTimeFacts DEF Reach
<1>3. OnGrid(u, Stored(fire))
    <2>1. CASE u.start_at = NoTime
        BY <2>1 DEF OnGrid
    <2>2. CASE u.start_at # NoTime
        <3>1. Whole(fire) /\ fire \in Nat
            BY <1>1, <1>2, <2>2, FireIsWhole, NoTimeFacts DEF WholeStarts
        <3>2. Stored(fire) = fire
            BY <1>2, <3>1, WholeFacts
        <3> QED
            BY <1>1, <3>2, FireIsOnGrid
    <2> QED
        BY <2>1, <2>2
<1>4. \A t \in Times : dispatch[r][t] # "none" => t <= Stored(fire)
    <2>1. \A t \in Times : dispatch[r][t] # "none" => t <= Reach(u, clock)
        BY DEF ReachInv
    <2> HIDE DEF fire
    <2> QED
        BY <1>2, <2>1
<1> HIDE DEF fire
<1>5. Stored(fire) <= Reach(u, clock)
    BY <1>2
<1>6. Reaches(S, r, fire)
    BY <1>3, <1>4, <1>5 DEF Reaches
<1> QED
    BY <1>6 DEF fire

\* So does an advance: the time of its rule was the latest one.
LEMMA AdvanceReaches ==
    ASSUME WholeStarts, NEW S \in [Rules -> Triggers], IInv, ReachInv(S),
           NEW r \in Rules, NEW t \in Times, next[r] = t, t <= clock,
           NEW u, u = S[r], u.kind = "schedule", t + Period(u) \in Times
    PROVE  Reaches(S, r, t + Period(u))
<1> DEFINE P == Period(u)
           fire == t + P
           n == Stored(fire)
<1>1. u \in Triggers /\ clock \in Nat /\ IsSchedule(u)
      /\ t \in Nat /\ t # NoTime /\ fire \in Nat /\ fire # NoTime
    BY SchedulesAssumption, TriggersAreSchedules, NoTimeFacts DEF IInv, TypeOK
<1>2. P \in Nat \ {0} /\ Whole(P) /\ Micro <= P
    BY <1>1, PeriodFacts
<1>3. dispatch[r][t] # "none" /\ OnGrid(u, t) /\ Whole(t)
    BY <1>1 DEF ReachInv, IInv, RuleInv
<1>4. fire <= initial_next_fire(u, TRUE, clock) /\ initial_next_fire(u, TRUE, clock) \in Nat
    <2>1. t \in 0..clock
        BY <1>1
    <2> QED
        BY <1>1, <1>3, <2>1, FireIsBeyond, FireFacts
<1>5. n = PgTime(fire) /\ n \in Nat
    BY <1>1, PgTimeFacts DEF Stored
<1>6. n <= Reach(u, clock)
    BY <1>1, <1>4, <1>5, PgTimeGrows DEF Reach
<1>7. n = fire
    BY <1>1, <1>2, <1>3, <1>5, WholeSum, WholeFacts
<1>8. OnGrid(u, n)
    <2> SUFFICES ASSUME u.start_at # NoTime
                 PROVE  \E k \in Nat : n = u.start_at + k * P
        BY DEF OnGrid
    <2>1. PICK k \in Nat : t = u.start_at + k * P
        BY <1>3 DEF OnGrid
    <2>2. u.start_at \in Nat
        BY <1>1 DEF IsSchedule
    <2> HIDE DEF P
    <2>3. n = u.start_at + (k + 1) * P /\ k + 1 \in Nat
        BY <1>2, <1>7, <2>1, <2>2
    <2> QED
        BY <2>3
<1>9. \A s \in Times : dispatch[r][s] # "none" => s <= n
    <2>1. \A s \in Times : dispatch[r][s] # "none" => s <= t
        BY <1>1 DEF ReachInv
    <2> HIDE DEF P
    <2> QED
        BY <1>1, <1>2, <1>7, <2>1, NoTimeFacts
<1> HIDE DEF n, P
<1> QED
    BY <1>6, <1>8, <1>9 DEF Reaches, n, P

\* A new next fire time that Reaches keeps ReachInv.
LEMMA SetsNextReaches ==
    ASSUME NEW S, IInv, ReachInv(S), NEW r \in Rules, NEW fire \in Times \cup {NoTime},
           SetsNext(r, fire), fire # NoTime => Reaches(S, r, fire), clock' = clock
    PROVE  ReachInv(S)'
<1> DEFINE n == Stored(fire)
<1>1. n \in Times \cup {NoTime} /\ (n # NoTime <=> fire # NoTime)
    BY StoredFacts
<1>2. next'[r] = n /\ \A o \in Rules : o # r => next'[o] = next[o]
    BY DEF SetsNext, IInv, TypeOK, RuleType
<1>3. /\ \A o \in Rules : o # r => dispatch'[o] = dispatch[o]
      /\ \A t \in Times : dispatch'[r][t] # "none" <=> dispatch[r][t] # "none" \/ t = n
    BY Replaced DEF SetsNext, IInv, TypeOK
<1>4. n # NoTime =>
        /\ S[r].kind = "schedule" /\ OnGrid(S[r], n) /\ n <= Reach(S[r], clock)
        /\ \A t \in Times : dispatch[r][t] # "none" => t <= n
    BY <1>1 DEF Reaches
<1> HIDE DEF n
<1>5. ASSUME NEW o \in Rules, NEW t \in Times, dispatch'[o][t] # "none"
      PROVE  S[o].kind = "schedule" /\ OnGrid(S[o], t) /\ t <= Reach(S[o], clock')
    <2>1. CASE dispatch[o][t] # "none"
        BY <1>5, <2>1 DEF ReachInv
    <2>2. CASE dispatch[o][t] = "none"
        <3>1. o = r /\ t = n /\ n # NoTime
            BY <1>3, <1>5, <2>2, NoTimeFacts
        <3> QED
            BY <1>4, <1>5, <3>1
    <2> QED
        BY <2>1, <2>2
<1>6. ASSUME NEW o \in Rules, next'[o] # NoTime
      PROVE  /\ dispatch'[o][next'[o]] # "none"
             /\ \A t \in Times : dispatch'[o][t] # "none" => t <= next'[o]
    <2>1. CASE o = r
        BY <1>1, <1>2, <1>3, <1>4, <1>6, <2>1, NoTimeFacts
    <2>2. CASE o # r
        BY <1>2, <1>3, <1>6, <2>2 DEF ReachInv
    <2> QED
        BY <2>1, <2>2
<1> QED
    BY <1>5, <1>6 DEF ReachInv

\* ReachInv is inductive with IInv.
LEMMA ReachStep ==
    ASSUME WholeStarts, NEW S \in [Rules -> Triggers], KeepsSchedule(S), KeepsSchedule(S)',
           IInv, ReachInv(S), Next
    PROVE  ReachInv(S)'
<1>1. LedgerType /\ clock \in 0..Horizon /\ Horizon \in Nat
    BY SchedulesAssumption DEF IInv, TypeOK
<1>2. ASSUME NEW r \in Rules, NEW state \in {"active", "deleted"}, NEW isEnabled \in BOOLEAN,
             NEW newTrigger \in Triggers, Commands(r, state, isEnabled, newTrigger)
      PROVE  ReachInv(S)'
    <2>1. \E fire \in Times \cup {NoTime} :
            /\ SetsNext(r, fire)
            /\ fire # NoTime =>
                /\ isEnabled /\ newTrigger.kind = "schedule"
                /\ fire = initial_next_fire(newTrigger, TRUE, clock)
        BY <1>2, CommandFacts
    <2>2. newTrigger.kind = "schedule" => newTrigger = S[r]
        BY <1>2 DEF Commands, WriteRule, KeepsSchedule, IInv, TypeOK, RuleType
    <2>3. PICK fire \in Times \cup {NoTime} :
            /\ SetsNext(r, fire)
            /\ fire # NoTime => Reaches(S, r, fire)
        BY <2>1, <2>2, CommandReaches
    <2>4. clock' = clock
        BY <1>2 DEF Commands
    <2> QED
        BY <2>3, <2>4, SetsNextReaches
<1>3. ASSUME NEW r \in Rules, NEW t \in Times, Completes(r, t)
      PROVE  ReachInv(S)'
    <2>1. CASE Advance(r, t)
        <3> DEFINE fire == t + Period(trigger[r])
        <3>1. /\ fire \in Times /\ SetsNext(r, fire) /\ t <= clock /\ next[r] = t
              /\ trigger[r] \in Triggers /\ trigger[r].kind = "schedule"
            BY <1>3, <2>1, AdvanceFacts
        <3>2. trigger[r] = S[r]
            BY <3>1 DEF KeepsSchedule
        <3>3. Reaches(S, r, fire)
            BY <3>1, <3>2, AdvanceReaches
        <3>4. clock' = clock
            BY <1>3 DEF Completes
        <3> HIDE DEF fire
        <3> QED
            BY <3>1, <3>3, <3>4, SetsNextReaches
    <2>2. CASE ~ Advance(r, t)
        BY <1>3, <2>2 DEF Completes, ReachInv
    <2> QED
        BY <2>1, <2>2
<1>4. ASSUME NEW p \in Processes, NEW d \in batch[p], Marks(p, d) PROVE ReachInv(S)'
    <2>1. d[1] \in Rules /\ d[2] \in Times
        BY DEF IInv, TypeOK, ProcessType
    <2>2. \A o \in Rules, u \in Times : dispatch'[o][u] # "none" <=> dispatch[o][u] # "none"
        BY <1>1, <1>4, <2>1 DEF Marks, Marked, LedgerType
    <2>3. UNCHANGED <<clock, next>> /\ \A o \in Rules : next[o] \in Times \cup {NoTime}
        BY <1>4 DEF Marks, IInv, TypeOK, RuleType
    <2> QED
        BY <2>2, <2>3 DEF ReachInv
<1>5. ASSUME Rests PROVE ReachInv(S)'
    <2>1. clock' \in 0..Horizon /\ clock \in 0..clock' /\ UNCHANGED <<next, dispatch>>
        BY <1>1, <1>5 DEF Rests
    <2>2. ASSUME NEW u \in Triggers, u.kind = "schedule"
          PROVE  Reach(u, clock) <= Reach(u, clock') /\ Reach(u, clock) \in Nat /\ Reach(u, clock') \in Nat
        <3>1. IsSchedule(u) /\ clock \in Nat /\ clock' \in Nat
            BY <1>1, <2>1, <2>2, TriggersAreSchedules
        <3>2. /\ initial_next_fire(u, TRUE, clock) \in Nat
              /\ initial_next_fire(u, TRUE, clock') \in Nat
              /\ initial_next_fire(u, TRUE, clock) <= initial_next_fire(u, TRUE, clock')
            BY <2>1, <3>1, FireFacts, FireGrows
        <3> QED
            BY <3>2, PgTimeGrows, PgTimeFacts DEF Reach
    <2>3. ASSUME NEW r \in Rules, NEW t \in Times, dispatch[r][t] # "none"
          PROVE  S[r].kind = "schedule" /\ OnGrid(S[r], t) /\ t <= Reach(S[r], clock')
        <3>1. S[r] \in Triggers /\ S[r].kind = "schedule" /\ OnGrid(S[r], t)
              /\ t <= Reach(S[r], clock)
            BY <2>3 DEF ReachInv
        <3> QED
            BY <2>2, <3>1, NoTimeFacts
    <2> QED
        BY <2>1, <2>3 DEF ReachInv
<1>6. ASSUME UNCHANGED <<clock, next, dispatch>> PROVE ReachInv(S)'
    BY <1>6 DEF ReachInv
<1> QED
    BY <1>2, <1>3, <1>4, <1>5, <1>6, Kinds DEF Arrives, Queues

\* A rule is in a stage of its next fire time.
Alive(r) ==
    next[r] # NoTime =>
        \/ dispatch[r][next[r]] = "pending" /\ timer[r][next[r]] = "none"
        \/ dispatch[r][next[r]] = "enqueued" /\ timer[r][next[r]] = "none" /\ Job(r, next[r]) \in jobs
        \/ timer[r][next[r]] = "accepted" /\ execution[r][next[r]] = "open"

\* A rule whose new next fire time has had no timer yet.
LEMMA SetsNextAlive ==
    ASSUME IInv, QueueInv, NEW r \in Rules, NEW fire \in Times \cup {NoTime}, SetsNext(r, fire),
           fire # NoTime => timer[r][Stored(fire)] = "none",
           UNCHANGED <<jobs, timer>>
    PROVE  Alive(r)'
<1> DEFINE n == Stored(fire)
<1>1. n \in Times \cup {NoTime} /\ (n # NoTime <=> fire # NoTime)
    BY StoredFacts
<1>2. next'[r] = n
    BY DEF SetsNext, IInv, TypeOK, RuleType
<1>3. \A t \in Times :
        /\ t = n /\ dispatch[r][t] # "enqueued" => dispatch'[r][t] = "pending"
        /\ dispatch'[r][t] = "enqueued" <=> dispatch[r][t] = "enqueued"
        /\ dispatch[r][t] # "none" => key'[r][t] = key[r][t]
    BY Replaced DEF SetsNext, IInv, TypeOK
<1> HIDE DEF n
<1>4. CASE n = NoTime
    BY <1>2, <1>4 DEF Alive
<1>5. CASE n # NoTime
    <2>1. n \in Times /\ timer'[r][n] = "none"
        BY <1>1, <1>5 DEF n
    <2>2. CASE dispatch[r][n] = "enqueued"
        <3>1. Job(r, n) \in jobs /\ key'[r][n] = key[r][n] /\ dispatch'[r][n] = "enqueued"
            BY <1>3, <2>1, <2>2 DEF QueueInv
        <3>2. Job(r, n)' = Job(r, n)
            BY <3>1 DEF Job, n, Stored
        <3> QED
            BY <1>2, <2>1, <3>1, <3>2 DEF Alive, Job
    <2>3. CASE dispatch[r][n] # "enqueued"
        BY <1>2, <1>3, <2>1, <2>3 DEF Alive
    <2> QED
        BY <2>2, <2>3
<1> QED
    BY <1>4, <1>5

\* A rule that a step leaves alone.
LEMMA UntouchedAlive ==
    ASSUME NEW o, Alive(o), UNCHANGED <<next[o], dispatch[o], key[o], timer[o], execution[o]>>,
           jobs \subseteq jobs'
    PROVE  Alive(o)'
<1>1. Job(o, next[o])' = Job(o, next[o])
    BY DEF Job
<1> QED
    BY <1>1 DEF Alive, Job

\* Each kind of step leaves every rule in a stage of its next fire time.
LEMMA CommandAlive ==
    ASSUME WholeStarts, IInv, QueueInv, ScheduleAlive,
           NEW r \in Rules, NEW state \in {"active", "deleted"}, NEW isEnabled \in BOOLEAN,
           NEW newTrigger \in Triggers, Commands(r, state, isEnabled, newTrigger)
    PROVE  \A o \in Rules : Alive(o)'
<1>1. \E fire \in Times \cup {NoTime} :
        /\ SetsNext(r, fire)
        /\ fire # NoTime =>
            /\ isEnabled /\ newTrigger.kind = "schedule"
            /\ fire = initial_next_fire(newTrigger, TRUE, clock)
    BY CommandFacts
<1>2. PICK fire \in Times \cup {NoTime} :
        /\ SetsNext(r, fire)
        /\ fire # NoTime => Stored(fire) \in Times /\ clock < Stored(fire)
    BY <1>1, CommandIsAhead
<1>3. clock \in Nat /\ UNCHANGED <<jobs, timer, execution>>
    BY SchedulesAssumption DEF Commands, IInv, TypeOK
<1>4. fire # NoTime => timer[r][Stored(fire)] = "none"
    BY <1>2, <1>3, NoTimeFacts DEF IInv, PastInv
<1>5. Alive(r)'
    BY <1>2, <1>3, <1>4, SetsNextAlive
<1>6. ASSUME NEW o \in Rules, o # r PROVE Alive(o)'
    <2>1. next'[o] = next[o]
        BY <1>2, <1>6 DEF SetsNext, IInv, TypeOK, RuleType
    <2>2. dispatch'[o] = dispatch[o] /\ key'[o] = key[o]
        BY <1>2, <1>6, Replaced DEF SetsNext, IInv, TypeOK
    <2>3. Alive(o)
        BY DEF ScheduleAlive, Alive
    <2> QED
        BY <1>3, <2>1, <2>2, <2>3, UntouchedAlive
<1> QED
    BY <1>5, <1>6

LEMMA CompleteAlive ==
    ASSUME NEW S, IInv, QueueInv, ReachInv(S), ScheduleAlive,
           NEW r \in Rules, NEW t \in Times, Completes(r, t)
    PROVE  \A o \in Rules : Alive(o)'
<1>1. /\ UNCHANGED <<jobs, timer>>
      /\ execution' = [execution EXCEPT ![r][t] = "ended"]
    BY DEF Completes
<1>2. /\ \A o \in Rules : o # r => execution'[o] = execution[o]
      /\ \A u \in Times : u # t => execution'[r][u] = execution[r][u]
    BY <1>1 DEF IInv, TypeOK, IntakeType
<1>3. \A o \in Rules : Alive(o)
    BY DEF ScheduleAlive, Alive
<1>4. CASE Advance(r, t)
    <2> DEFINE fire == t + Period(trigger[r])
    <2>1. /\ fire \in Times /\ SetsNext(r, fire) /\ next[r] = t /\ t \in Nat /\ t # NoTime
          /\ Stored(fire) \in Times /\ t < Stored(fire)
        BY <1>4, AdvanceFacts, AdvanceIsAhead, NoTimeFacts
    <2> HIDE DEF fire
    <2>2. dispatch[r][Stored(fire)] = "none"
        <3>1. \A u \in Times : dispatch[r][u] # "none" => u <= t
            BY <2>1 DEF ReachInv
        <3> DEFINE n == Stored(fire)
        <3>2. n \in Times /\ n \in Nat /\ t \in Nat /\ t < n
            BY <2>1, NoTimeFacts
        <3> HIDE DEF n
        <3>3. ~ (n <= t)
            BY <3>2
        <3>4. dispatch[r][n] = "none"
            BY <3>1, <3>2, <3>3
        <3> QED
            BY <3>4 DEF n
    <2>3. timer[r][Stored(fire)] = "none"
        BY <2>1, <2>2 DEF QueueInv
    <2>4. Alive(r)'
        BY <1>1, <2>1, <2>3, SetsNextAlive
    <2>5. ASSUME NEW o \in Rules, o # r PROVE Alive(o)'
        <3>1. next'[o] = next[o]
            BY <2>1, <2>5 DEF SetsNext, IInv, TypeOK, RuleType
        <3>2. dispatch'[o] = dispatch[o] /\ key'[o] = key[o]
            BY <2>1, <2>5, Replaced DEF SetsNext, IInv, TypeOK
        <3> QED
            BY <1>1, <1>2, <1>3, <2>5, <3>1, <3>2, UntouchedAlive
    <2> QED
        BY <2>4, <2>5
<1>5. CASE ~ Advance(r, t)
    <2>1. UNCHANGED <<next, dispatch, key>>
        BY <1>5 DEF Completes
    <2>2. next[r] # t
        BY <1>5, NoTimeFacts DEF Advance, IInv, RuleInv
    <2>3. ASSUME NEW o \in Rules, o # r PROVE Alive(o)'
        BY <1>1, <1>2, <1>3, <2>1, <2>3, UntouchedAlive
    <2>4. next[r] # NoTime => execution'[r][next[r]] = execution[r][next[r]]
        BY <1>2, <2>2 DEF IInv, TypeOK, RuleType
    <2>5. Alive(r)'
        BY <1>1, <1>3, <2>1, <2>4 DEF Alive, Job
    <2> QED
        BY <2>3, <2>5
<1> QED
    BY <1>4, <1>5

LEMMA ArriveAlive ==
    ASSUME IInv, ScheduleAlive, NEW job \in jobs, Arrives(job)
    PROVE  \A o \in Rules : Alive(o)'
<1> DEFINE r == job.rule_id
           t == job.scheduled_for
<1>1. r \in Rules /\ t \in Times /\ t # NoTime
    BY NoTimeFacts DEF IInv, TypeOK, LedgerType
<1>2. /\ UNCHANGED <<next, dispatch, key, jobs>>
      /\ \E made : timer' = [timer EXCEPT ![r][t] = made]
      /\ execution' = execution \/ execution' = [execution EXCEPT ![r][t] = "open"]
      /\ TimerIsCurrent(r, t) =>
            /\ timer' = [timer EXCEPT ![r][t] = "accepted"]
            /\ execution' = [execution EXCEPT ![r][t] = "open"]
    BY DEF Arrives
<1> HIDE DEF r, t
<1>3. \A o \in Rules, u \in Times :
        o # r \/ u # t => timer'[o][u] = timer[o][u] /\ execution'[o][u] = execution[o][u]
    BY <1>1, <1>2 DEF IInv, TypeOK, IntakeType
<1>4. TimerIsCurrent(r, t) => timer'[r][t] = "accepted" /\ execution'[r][t] = "open"
    BY <1>1, <1>2 DEF IInv, TypeOK, IntakeType
<1>5. next[r] = t => TimerIsCurrent(r, t)
    BY <1>1 DEF TimerIsCurrent, IInv, RuleInv
<1>6. ASSUME NEW o \in Rules PROVE Alive(o)'
    <2>1. Alive(o)
        BY DEF ScheduleAlive, Alive
    <2>2. next[o] \in Times \cup {NoTime}
        BY DEF IInv, TypeOK, RuleType
    <2>3. CASE o = r /\ next[o] = t
        BY <1>2, <1>4, <1>5, <2>3 DEF Alive
    <2>4. CASE ~ (o = r /\ next[o] = t)
        <3>1. next[o] # NoTime =>
                timer'[o][next[o]] = timer[o][next[o]] /\ execution'[o][next[o]] = execution[o][next[o]]
            BY <1>3, <2>2, <2>4
        <3> QED
            BY <1>2, <2>1, <3>1 DEF Alive, Job
    <2> QED
        BY <2>3, <2>4
<1> QED
    BY <1>6

LEMMA MarkAlive ==
    ASSUME IInv, QueueInv, ScheduleAlive, NEW p \in Processes, NEW d \in batch[p], Marks(p, d)
    PROVE  \A o \in Rules : Alive(o)'
<1>1. d[1] \in Rules /\ d[2] \in Times
    BY DEF IInv, TypeOK, ProcessType
<1>2. /\ dispatch' = [dispatch EXCEPT ![d[1]][d[2]] = Marked(@)]
      /\ UNCHANGED <<next, key, jobs, timer, execution>>
      /\ Job(d[1], d[2]) \in jobs
    BY DEF Marks, QueueInv
<1>3. \A o \in Rules, u \in Times :
        \/ dispatch'[o][u] = dispatch[o][u]
        \/ /\ dispatch[o][u] = "pending" /\ dispatch'[o][u] = "enqueued"
           /\ Job(o, u) \in jobs
    BY <1>1, <1>2 DEF IInv, TypeOK, LedgerType, Marked
<1>4. ASSUME NEW o \in Rules PROVE Alive(o)'
    <2>1. Alive(o) /\ next[o] \in Times \cup {NoTime}
        BY DEF ScheduleAlive, Alive, IInv, TypeOK, RuleType
    <2>2. Job(o, next[o])' = Job(o, next[o])
        BY <1>2 DEF Job
    <2> QED
        BY <1>2, <1>3, <2>1, <2>2 DEF Alive, Job
<1> QED
    BY <1>4

LEMMA AliveStep ==
    ASSUME WholeStarts, NEW S, IInv, QueueInv, ReachInv(S), ScheduleAlive, Next
    PROVE  ScheduleAlive'
<1>1. ASSUME UNCHANGED <<next, dispatch, key, timer, execution>>, jobs \subseteq jobs'
      PROVE  \A o \in Rules : Alive(o)'
    <2>1. \A o \in Rules : Alive(o)
        BY DEF ScheduleAlive, Alive
    <2> QED
        BY <1>1, <2>1, UntouchedAlive
<1>2. \A o \in Rules : Alive(o)'
    BY <1>1, Kinds, CommandAlive, CompleteAlive, ArriveAlive, MarkAlive DEF Queues, Rests
<1> QED
    BY <1>2 DEF ScheduleAlive, Alive

\* A rule is never left waiting for something that nobody will do, if every rule
\* keeps to one schedule, its own.
THEOREM SchedulesStayAlive ==
    ASSUME WholeStarts, NEW S \in [Rules -> Triggers]
    PROVE  Spec /\ []KeepsSchedule(S) => []ScheduleAlive
<1> DEFINE Keeps == KeepsSchedule(S)
           Inv == QueueInv /\ ReachInv(S) /\ ScheduleAlive
<1>1. Init => Inv
    BY QueueStart DEF Init, ReachInv, ScheduleAlive
<1>2. ASSUME UNCHANGED vars, Inv PROVE Inv'
    <2>1. QueueInv'
        BY <1>2, QueueStutter
    <2>2. UNCHANGED <<clock, next, dispatch, key, jobs, timer, execution>>
        BY <1>2 DEF vars, rules, ledger, intake
    <2> QED
        BY <1>2, <2>1, <2>2 DEF ReachInv, ScheduleAlive, Job
<1>3. IInv /\ Keeps /\ Keeps' /\ Inv /\ [Next]_vars => Inv'
    BY <1>2, QueueKept, ReachStep, AliveStep
<1>4. Inv => ScheduleAlive
    OBVIOUS
<1> HIDE DEF Keeps, Inv
<1>5. Spec /\ []Keeps => []ScheduleAlive
    BY <1>1, <1>3, <1>4, Invariant, PTL DEF Spec
<1> QED
    BY <1>5 DEF Keeps

---------------------------------------------------------------------------
(* The schedule never runs backwards.                                      *)

\* The next fire time is one of the trigger of its rule, and no command sets
\* an earlier one.
GridInv ==
    \A r \in Rules : next[r] # NoTime =>
        OnGrid(trigger[r], next[r]) /\ next[r] <= Reach(trigger[r], clock)

\* A later clock reaches at least as far.
LEMMA ReachGrows ==
    ASSUME NEW u \in Triggers, u.kind = "schedule", NEW now \in Nat, NEW s \in 0..now
    PROVE  Reach(u, s) <= Reach(u, now) /\ Reach(u, s) \in Nat /\ Reach(u, now) \in Nat
<1>1. IsSchedule(u) /\ s \in Nat
    BY TriggersAreSchedules
<1>2. /\ initial_next_fire(u, TRUE, s) \in Nat
      /\ initial_next_fire(u, TRUE, now) \in Nat
      /\ initial_next_fire(u, TRUE, s) <= initial_next_fire(u, TRUE, now)
    BY <1>1, FireFacts, FireGrows
<1> QED
    BY <1>2, PgTimeGrows, PgTimeFacts DEF Reach

\* What a command sets is on the grid of its trigger.
LEMMA CommandGrid ==
    ASSUME WholeStarts, IInv, NEW u \in Triggers, u.kind = "schedule"
    PROVE  LET n == Stored(initial_next_fire(u, TRUE, clock))
           IN  n \in Times /\ OnGrid(u, n) /\ n = Reach(u, clock)
<1> DEFINE fire == initial_next_fire(u, TRUE, clock)
<1>1. clock \in Nat /\ IsSchedule(u)
    BY SchedulesAssumption, TriggersAreSchedules DEF IInv, TypeOK
<1>2. fire \in Times /\ Stored(fire) \in Times /\ Stored(fire) = PgTime(fire)
    BY CommandIsAhead, StoredFacts, NoTimeFacts
<1>3. CASE u.start_at = NoTime
    BY <1>2, <1>3 DEF OnGrid, Reach
<1>4. CASE u.start_at # NoTime
    <2>1. Whole(fire) /\ fire \in Nat
        BY <1>1, <1>2, <1>4, FireIsWhole, NoTimeFacts DEF WholeStarts
    <2>2. Stored(fire) = fire
        BY <1>2, <2>1, WholeFacts
    <2> QED
        BY <1>1, <1>2, <2>2, FireIsOnGrid DEF Reach
<1> QED
    BY <1>3, <1>4

\* An advance stays on the grid, is later, and not beyond what a command sets.
LEMMA AdvanceGrid ==
    ASSUME IInv, GridInv, NEW r \in Rules, NEW t \in Times, Completes(r, t), Advance(r, t)
    PROVE  LET n == Stored(t + Period(trigger[r]))
           IN  n \in Times /\ t <= n /\ OnGrid(trigger[r], n) /\ n <= Reach(trigger[r], clock)
<1> DEFINE u == trigger[r]
           P == Period(u)
           fire == t + P
           n == Stored(fire)
<1>1. fire \in Times /\ next[r] = t /\ t <= clock /\ u \in Triggers /\ u.kind = "schedule"
    BY AdvanceFacts
<1>2. clock \in Nat /\ IsSchedule(u) /\ t \in Nat /\ t # NoTime /\ fire \in Nat /\ fire # NoTime
    BY <1>1, SchedulesAssumption, TriggersAreSchedules, NoTimeFacts DEF IInv, TypeOK
<1>3. P \in Nat \ {0} /\ Whole(P)
    BY <1>2, PeriodFacts
<1>4. OnGrid(u, t) /\ Whole(t)
    BY <1>1, <1>2 DEF GridInv, IInv, RuleInv
<1>5. fire <= initial_next_fire(u, TRUE, clock) /\ initial_next_fire(u, TRUE, clock) \in Nat
    <2>1. t \in 0..clock
        BY <1>1, <1>2
    <2> HIDE DEF u
    <2> QED
        BY <1>2, <1>4, <2>1, FireIsBeyond, FireFacts
<1>6. n = PgTime(fire) /\ n = fire
    BY <1>2, <1>3, <1>4, WholeSum, WholeFacts DEF Stored
<1>7. n <= Reach(u, clock)
    BY <1>2, <1>5, <1>6, PgTimeGrows DEF Reach
<1>8. OnGrid(u, n)
    <2> SUFFICES ASSUME u.start_at # NoTime
                 PROVE  \E k \in Nat : n = u.start_at + k * P
        BY DEF OnGrid
    <2>1. PICK k \in Nat : t = u.start_at + k * P
        BY <1>4 DEF OnGrid
    <2>2. u.start_at \in Nat
        BY <1>2 DEF IsSchedule
    <2> HIDE DEF P, u, n
    <2>3. n = u.start_at + (k + 1) * P /\ k + 1 \in Nat
        BY <1>3, <1>6, <2>1, <2>2
    <2> QED
        BY <2>3
<1>9. t <= n
    <2> HIDE DEF P, n
    <2> QED
        BY <1>2, <1>3, <1>6
<1> QED
    BY <1>1, <1>6, <1>7, <1>8, <1>9

\* The next fire time of a rule that keeps its trigger does not fall.
GridStep(r) ==
    /\ next'[r] # NoTime =>
        OnGrid(trigger'[r], next'[r]) /\ next'[r] <= Reach(trigger'[r], clock')
    /\ next[r] # NoTime /\ next'[r] # NoTime /\ trigger'[r] = trigger[r] =>
        next[r] <= next'[r]

\* A rule that a step leaves alone.
LEMMA SameNextGrid ==
    ASSUME IInv, GridInv, NEW r \in Rules, next'[r] = next[r], trigger'[r] = trigger[r],
           clock' = clock
    PROVE  GridStep(r)
<1>1. next[r] # NoTime => next[r] \in Nat
    BY NoTimeFacts DEF IInv, TypeOK, RuleType
<1>2. next'[r] # NoTime => next[r] <= next'[r]
    BY <1>1
<1> QED
    BY <1>2 DEF GridInv, GridStep

\* Every step keeps every rule on its grid.
LEMMA GridSteps ==
    ASSUME WholeStarts, IInv, GridInv, Next
    PROVE  \A o \in Rules : GridStep(o)
<1>1. clock \in 0..Horizon /\ Horizon \in Nat /\ RuleType
    BY SchedulesAssumption DEF IInv, TypeOK
<1>2. ASSUME NEW r \in Rules, NEW state \in {"active", "deleted"}, NEW isEnabled \in BOOLEAN,
             NEW newTrigger \in Triggers, Commands(r, state, isEnabled, newTrigger)
      PROVE  \A o \in Rules : GridStep(o)
    <2>1. \E fire \in Times \cup {NoTime} :
            /\ SetsNext(r, fire)
            /\ fire # NoTime =>
                /\ isEnabled /\ newTrigger.kind = "schedule"
                /\ fire = initial_next_fire(newTrigger, TRUE, clock)
        BY <1>2, CommandFacts
    <2>2. PICK fire \in Times \cup {NoTime} :
            /\ next' = [next EXCEPT ![r] = Stored(fire)]
            /\ fire # NoTime =>
                newTrigger.kind = "schedule" /\ fire = initial_next_fire(newTrigger, TRUE, clock)
        BY <2>1 DEF SetsNext
    <2>3. clock' = clock /\ trigger' = [trigger EXCEPT ![r] = newTrigger]
        BY <1>2 DEF Commands, WriteRule
    <2>4. ASSUME NEW o \in Rules, o # r PROVE GridStep(o)
        BY <1>1, <2>2, <2>3, <2>4, SameNextGrid DEF RuleType
    <2>5. next'[r] = Stored(fire) /\ trigger'[r] = newTrigger
        BY <1>1, <2>2, <2>3 DEF RuleType
    <2>6. ASSUME fire = NoTime PROVE GridStep(r)
        <3>1. next'[r] = NoTime
            BY <2>5, <2>6 DEF Stored
        <3> QED
            BY <3>1 DEF GridStep
    <2>7. ASSUME fire # NoTime PROVE GridStep(r)
        <3>1. /\ Stored(fire) \in Times /\ OnGrid(newTrigger, Stored(fire))
              /\ Stored(fire) = Reach(newTrigger, clock)
            BY <2>2, <2>7, CommandGrid
        <3>2. Stored(fire) \in Nat /\ (next[r] # NoTime => next[r] \in Nat)
            BY <1>1, <3>1, NoTimeFacts DEF RuleType
        <3>3. Stored(fire) <= Reach(newTrigger, clock)
            BY <3>1, <3>2
        <3>4. next[r] # NoTime /\ trigger[r] = newTrigger => next[r] <= Stored(fire)
            BY <3>1 DEF GridInv
        <3> DEFINE n == Stored(fire)
        <3>5. OnGrid(newTrigger, n) /\ n <= Reach(newTrigger, clock)
              /\ next'[r] = n /\ trigger'[r] = newTrigger /\ clock' = clock
              /\ (next[r] # NoTime /\ trigger[r] = newTrigger => next[r] <= n)
            BY <2>3, <2>5, <3>1, <3>3, <3>4
        <3> HIDE DEF n
        <3> QED
            BY <3>5 DEF GridStep
    <2> QED
        BY <2>4, <2>6, <2>7
<1>3. ASSUME NEW r \in Rules, NEW t \in Times, Completes(r, t)
      PROVE  \A o \in Rules : GridStep(o)
    <2>1. UNCHANGED <<clock, trigger>>
        BY <1>3 DEF Completes
    <2>2. CASE Advance(r, t)
        <3> DEFINE n == Stored(t + Period(trigger[r]))
        <3>1. next' = [next EXCEPT ![r] = n] /\ next[r] = t
            BY <1>3, <2>2, AdvanceFacts DEF SetsNext
        <3>2. t <= n /\ OnGrid(trigger[r], n) /\ n <= Reach(trigger[r], clock)
            BY <1>3, <2>2, AdvanceGrid
        <3> HIDE DEF n
        <3>3. GridStep(r)
            BY <1>1, <2>1, <3>1, <3>2 DEF GridStep, RuleType
        <3>4. ASSUME NEW o \in Rules, o # r PROVE GridStep(o)
            BY <1>1, <2>1, <3>1, <3>4, SameNextGrid DEF RuleType
        <3> QED
            BY <3>3, <3>4
    <2>3. CASE ~ Advance(r, t)
        <3>1. next' = next
            BY <1>3, <2>3 DEF Completes
        <3> QED
            BY <2>1, <3>1, SameNextGrid
    <2> QED
        BY <2>2, <2>3
<1>4. ASSUME Rests PROVE \A o \in Rules : GridStep(o)
    <2> SUFFICES ASSUME NEW o \in Rules PROVE GridStep(o)
        OBVIOUS
    <2>1. clock' \in Nat /\ clock \in 0..clock' /\ UNCHANGED <<next, trigger>>
        BY <1>1, <1>4 DEF Rests
    <2>2. CASE next[o] = NoTime
        BY <2>1, <2>2 DEF GridStep
    <2>3. CASE next[o] # NoTime
        <3>1. next[o] \in Nat
            BY <1>1, <2>3, NoTimeFacts DEF RuleType
        <3>2. trigger[o] \in Triggers /\ trigger[o].kind = "schedule"
            BY <2>3 DEF IInv, RuleInv
        <3>3. /\ Reach(trigger[o], clock) <= Reach(trigger[o], clock')
              /\ Reach(trigger[o], clock) \in Nat /\ Reach(trigger[o], clock') \in Nat
            BY <2>1, <3>2, ReachGrows
        <3>4. OnGrid(trigger[o], next[o]) /\ next[o] <= Reach(trigger[o], clock)
            BY <2>3 DEF GridInv
        <3>5. next[o] <= Reach(trigger[o], clock') /\ next[o] <= next[o]
            BY <3>1, <3>3, <3>4
        <3> QED
            BY <2>1, <3>4, <3>5 DEF GridStep
    <2> QED
        BY <2>2, <2>3
<1>5. ASSUME UNCHANGED <<clock, next, trigger>> PROVE \A o \in Rules : GridStep(o)
    BY <1>5, SameNextGrid
<1> QED
    BY <1>2, <1>3, <1>4, <1>5, Kinds DEF Marks, Arrives, Queues

\* The next fire time of a rule that stays enabled with its trigger never
\* goes back, by commands that set the same trigger again or by an advance.
THEOREM SchedulesGoForward == ASSUME WholeStarts PROVE Spec => NeverBackwards
<1>1. Init => GridInv
    BY DEF Init, GridInv
<1>2. IInv /\ GridInv /\ [Next]_vars => GridInv'
    <2>1. ASSUME UNCHANGED vars, GridInv PROVE GridInv'
        BY <2>1 DEF vars, rules, GridInv
    <2>2. ASSUME IInv, GridInv, Next PROVE GridInv'
        <3>1. \A o \in Rules : GridStep(o)
            BY <2>2, GridSteps
        <3> QED
            BY <3>1 DEF GridInv, GridStep
    <2> QED
        BY <2>1, <2>2
<1> DEFINE Forward ==
        \A r \in Rules : next[r] # NoTime /\ next'[r] # NoTime /\ trigger'[r] = trigger[r] =>
            next[r] <= next'[r]
<1>3. IInv /\ GridInv /\ [Next]_vars => [Forward]_vars
    <2> SUFFICES ASSUME IInv, GridInv, Next PROVE Forward
        OBVIOUS
    <2>1. \A o \in Rules : GridStep(o)
        BY GridSteps
    <2> QED
        BY <2>1 DEF GridStep
<1>4. NeverBackwards <=> [][Forward]_vars
    BY DEF NeverBackwards
<1> HIDE DEF Forward
<1> QED
    BY <1>1, <1>2, <1>3, <1>4, Invariant, PTL DEF Spec

---------------------------------------------------------------------------
(* The key of a timer is that of its stored time, if no time has a part    *)
(* that the database drops.                                                *)

\* The clock is no finer than the database, or every schedule has a start,
\* at a whole microsecond.
WholeTimes ==
    Micro = 1 \/ \A u \in Triggers : u.kind = "schedule" => u.start_at # NoTime /\ WholeStart(u)

\* The keys of dispatches and jobs are those of the times in the table.
SameKeyInv ==
    /\ \A r \in Rules, t \in Times : dispatch[r][t] # "none" => key[r][t] = t
    /\ TimerKeyVerifies

\* If the clock is no finer than the database every time is whole.
LEMMA WholeMicro == ASSUME Micro = 1, NEW t \in Nat PROVE Whole(t)
BY WholeFacts

\* A whole next fire time has the key of what is stored of it.
LEMMA SetsNextKey ==
    ASSUME IInv, SameKeyInv, NEW r \in Rules, NEW fire \in Times \cup {NoTime}, SetsNext(r, fire),
           fire # NoTime => Whole(fire), jobs' = jobs
    PROVE  SameKeyInv'
<1>1. fire # NoTime => Stored(fire) = fire /\ fire \in Times
    BY NoTimeFacts, WholeFacts DEF Stored
<1>2. fire = NoTime => Stored(fire) = NoTime
    BY DEF Stored
<1>3. /\ \A o \in Rules : o # r => dispatch'[o] = dispatch[o] /\ key'[o] = key[o]
      /\ \A t \in Times :
            /\ dispatch'[r][t] # "none" <=> dispatch[r][t] # "none" \/ t = Stored(fire)
            /\ dispatch[r][t] # "none" => key'[r][t] = key[r][t]
            /\ t = Stored(fire) /\ dispatch[r][t] = "none" => key'[r][t] = fire
    BY Replaced DEF SetsNext, IInv, TypeOK
<1>4. \A o \in Rules, t \in Times : dispatch'[o][t] # "none" => key'[o][t] = t
    BY <1>1, <1>2, <1>3, NoTimeFacts DEF SameKeyInv
<1> QED
    BY <1>4 DEF SameKeyInv, TimerKeyVerifies

\* SameKeyInv is inductive with IInv.
LEMMA SameKeyStep ==
    ASSUME WholeTimes, IInv, SameKeyInv, Next
    PROVE  SameKeyInv'
<1>1. ASSUME NEW r \in Rules, NEW state \in {"active", "deleted"}, NEW isEnabled \in BOOLEAN,
             NEW newTrigger \in Triggers, Commands(r, state, isEnabled, newTrigger)
      PROVE  SameKeyInv'
    <2>1. \E fire \in Times \cup {NoTime} :
            /\ SetsNext(r, fire)
            /\ fire # NoTime =>
                /\ isEnabled /\ newTrigger.kind = "schedule"
                /\ fire = initial_next_fire(newTrigger, TRUE, clock)
        BY <1>1, CommandFacts
    <2>2. PICK fire \in Times \cup {NoTime} :
            /\ SetsNext(r, fire)
            /\ fire # NoTime =>
                newTrigger.kind = "schedule" /\ fire = initial_next_fire(newTrigger, TRUE, clock)
        BY <2>1
    <2>3. ASSUME fire # NoTime PROVE Whole(fire)
        <3>1. fire \in Nat /\ clock \in Nat
            BY <2>3, NoTimeFacts, SchedulesAssumption DEF IInv, TypeOK
        <3>2. CASE Micro = 1
            BY <3>1, <3>2, WholeMicro
        <3>3. CASE Micro # 1
            <4>1. IsSchedule(newTrigger) /\ newTrigger.start_at # NoTime /\ WholeStart(newTrigger)
                BY <2>2, <2>3, <3>3, TriggersAreSchedules DEF WholeTimes
            <4> QED
                BY <2>2, <2>3, <3>1, <4>1, FireIsWhole
        <3> QED
            BY <3>2, <3>3
    <2>4. jobs' = jobs
        BY <1>1 DEF Commands
    <2> QED
        BY <2>2, <2>3, <2>4, SetsNextKey
<1>2. ASSUME NEW r \in Rules, NEW t \in Times, Completes(r, t)
      PROVE  SameKeyInv'
    <2>1. CASE Advance(r, t)
        <3> DEFINE fire == t + Period(trigger[r])
        <3>1. /\ fire \in Times /\ SetsNext(r, fire) /\ next[r] = t
              /\ trigger[r] \in Triggers /\ trigger[r].kind = "schedule"
            BY <1>2, <2>1, AdvanceFacts
        <3>2. t \in Nat /\ t # NoTime /\ Whole(t)
            BY <3>1, NoTimeFacts DEF IInv, RuleInv
        <3>3. Period(trigger[r]) \in Nat /\ Whole(Period(trigger[r]))
            BY <3>1, TriggersAreSchedules, PeriodFacts
        <3>4. Whole(fire)
            BY <3>2, <3>3, WholeSum
        <3>5. jobs' = jobs
            BY <1>2 DEF Completes
        <3> HIDE DEF fire
        <3> QED
            BY <3>1, <3>4, <3>5, SetsNextKey
    <2>2. CASE ~ Advance(r, t)
        BY <1>2, <2>2 DEF Completes, SameKeyInv, TimerKeyVerifies
    <2> QED
        BY <2>1, <2>2
<1>3. ASSUME NEW p \in Processes, NEW d \in batch[p], Marks(p, d) PROVE SameKeyInv'
    <2>1. d[1] \in Rules /\ d[2] \in Times
        BY DEF IInv, TypeOK, ProcessType
    <2>2. \A o \in Rules, u \in Times : dispatch'[o][u] # "none" <=> dispatch[o][u] # "none"
        BY <1>3, <2>1 DEF Marks, Marked, IInv, TypeOK, LedgerType
    <2> QED
        BY <1>3, <2>2 DEF Marks, SameKeyInv, TimerKeyVerifies
<1>4. ASSUME NEW p \in Processes, NEW d \in batch[p], Queues(d) PROVE SameKeyInv'
    <2>1. d[1] \in Rules /\ d[2] \in Times /\ dispatch[d[1]][d[2]] # "none"
        BY DEF IInv, TypeOK, ProcessType, KeyInv
    <2>2. \A job \in jobs' : job \in jobs \/ job = Job(d[1], d[2])
        BY <1>4 DEF Queues
    <2>3. Job(d[1], d[2]).dedupe_key = schedule_key(Job(d[1], d[2]).rule_id, Job(d[1], d[2]).scheduled_for)
        BY <2>1 DEF Job, schedule_key, SameKeyInv
    <2>4. TimerKeyVerifies'
        BY <2>2, <2>3 DEF SameKeyInv, TimerKeyVerifies, schedule_key
    <2> QED
        BY <1>4, <2>4 DEF Queues, SameKeyInv
<1>5. ASSUME UNCHANGED <<dispatch, key, jobs>> PROVE SameKeyInv'
    BY <1>5 DEF SameKeyInv, TimerKeyVerifies
<1> QED
    BY <1>1, <1>2, <1>3, <1>4, <1>5, Kinds DEF Arrives, Rests

\* Every job passes the key check of receive_timer.
THEOREM TimerKeysVerify == ASSUME WholeTimes PROVE Spec => []TimerKeyVerifies
<1>1. Init => SameKeyInv
    BY DEF Init, SameKeyInv, TimerKeyVerifies
<1>2. IInv /\ SameKeyInv /\ [Next]_vars => SameKeyInv'
    <2>1. ASSUME UNCHANGED vars, SameKeyInv PROVE SameKeyInv'
        BY <2>1 DEF vars, ledger, SameKeyInv, TimerKeyVerifies
    <2> QED
        BY <2>1, SameKeyStep
<1>3. SameKeyInv => TimerKeyVerifies
    BY DEF SameKeyInv
<1> QED
    BY <1>1, <1>2, <1>3, Invariant, PTL DEF Spec
---------------------------------------------------------------------------
(* The contract, if schedules start at whole microseconds.                 *)

\* Nothing but a timer that was accepted is executed.
AcceptInv ==
    \A r \in Rules, t \in Times : execution[r][t] # "none" => timer[r][t] = "accepted"

LEMMA AcceptStep == ASSUME IInv, AcceptInv, Next PROVE AcceptInv'
<1>1. LedgerType /\ IntakeType
    BY DEF IInv, TypeOK
<1>2. ASSUME NEW r \in Rules, NEW t \in Times, Completes(r, t) PROVE AcceptInv'
    <2>1. execution' = [execution EXCEPT ![r][t] = "ended"] /\ execution[r][t] # "none" /\ timer' = timer
        BY <1>2 DEF Completes, IInv, PastInv
    <2> QED
        BY <1>1, <2>1 DEF AcceptInv, IntakeType
<1>3. ASSUME NEW job \in jobs, Arrives(job) PROVE AcceptInv'
    <2> DEFINE r == job.rule_id
               t == job.scheduled_for
    <2>1. r \in Rules /\ t \in Times
        BY <1>1 DEF LedgerType
    <2>2. timer[r][t] = "none"
        BY <1>3 DEF Arrives
    <2>3. \/ /\ timer' = [timer EXCEPT ![r][t] = "accepted"]
             /\ execution' = [execution EXCEPT ![r][t] = "open"]
          \/ timer' = [timer EXCEPT ![r][t] = "ignored"] /\ execution' = execution
        BY <1>3 DEF Arrives
    <2> HIDE DEF r, t
    <2> QED
        BY <1>1, <2>1, <2>2, <2>3 DEF AcceptInv, IntakeType
<1>4. ASSUME UNCHANGED <<timer, execution>> PROVE AcceptInv'
    BY <1>4 DEF AcceptInv
<1> QED
    BY <1>2, <1>3, <1>4, Kinds DEF Commands, Marks, Queues, Rests

\* initial_next_fire computes the first recurrence that is still to come.
LEMMA FireIsFirst ==
    ASSUME NEW u, IsSchedule(u), WholeStart(u), NEW now \in Nat
    PROVE  Contract!FirstAfter(u, now, PgTime(initial_next_fire(u, TRUE, now)))
<1> DEFINE fire == initial_next_fire(u, TRUE, now)
           start == u.start_at
           P == Period(u)
<1>1. /\ fire \in Nat /\ now < fire
      /\ start = NoTime => fire = now + P
      /\ start # NoTime /\ now < start => fire = start
      /\ start # NoTime /\ start <= now =>
            \E k \in Nat : fire = start + (k + 1) * P /\ start + k * P <= now
    BY FireFacts
<1>2. P \in Nat \ {0} /\ P = Contract!Interval(u)
    BY PeriodFacts DEF Period, Contract!Interval
<1>3. CASE start = NoTime
    BY <1>1, <1>2, <1>3 DEF Contract!FirstAfter, Contract!PgTime, PgTime
<1>4. CASE start # NoTime
    <2>1. start \in Nat /\ PgTime(fire) = fire
        BY <1>1, <1>4, FireIsWhole, WholeFacts DEF IsSchedule
    <2>2. SUFFICES /\ fire >= start /\ (fire - start) % P = 0
                   /\ \A s \in (now + 1)..(fire - 1) : ~ (s >= start /\ (s - start) % P = 0)
        BY <1>1, <1>2, <1>4, <2>1 DEF Contract!FirstAfter, Contract!Recurs
    <2> HIDE DEF fire, start, P
    <2>3. CASE now < start
        <3>1. (fire - start) % P = 0
            BY <1>1, <1>2, <1>4, <2>1, <2>3, MultipleOf
        <3> QED
            BY <1>1, <1>4, <2>1, <2>3, <3>1
    <2>4. CASE start <= now
        <3>1. PICK k \in Nat : fire = start + (k + 1) * P /\ start + k * P <= now
            BY <1>1, <1>4, <2>4
        <3>2. k + 1 \in Nat /\ P * (k + 1) \in Nat /\ P * k \in Nat
              /\ (k + 1) * P = P * (k + 1) /\ k * P = P * k
            BY <1>2
        <3>3. fire - start = P * (k + 1) /\ fire >= start
            BY <1>1, <2>1, <3>1, <3>2
        <3>4. (fire - start) % P = 0
            BY <1>2, <3>2, <3>3, MultipleOf
        <3>5. ASSUME NEW s \in (now + 1)..(fire - 1), s >= start, (s - start) % P = 0
              PROVE  FALSE
            <4> DEFINE q == (s - start) \div P
            <4>1. s \in Nat /\ s - start \in Nat /\ now + 1 <= s /\ s <= fire - 1
                BY <1>1, <2>1, <3>5
            <4>2. q \in Nat /\ s - start = P * q + ((s - start) % P)
                BY <1>2, <4>1, Division
            <4> HIDE DEF q
            <4>3. P * q \in Nat
                BY <1>2, <4>2
            <4>4. s - start = P * q
                BY <3>5, <4>2, <4>3
            <4>5. P * k < P * q /\ P * q < P * (k + 1)
                BY <2>1, <3>1, <3>2, <3>3, <4>1, <4>3, <4>4
            <4>6. ~ (q <= k)
                BY <1>2, <3>2, <4>2, <4>3, <4>5, ProductGrows
            <4>7. ~ (k + 1 <= q)
                BY <1>2, <3>2, <4>2, <4>3, <4>5, ProductGrows
            <4> QED
                BY <4>2, <4>6, <4>7
        <3> QED
            BY <3>3, <3>4, <3>5
    <2> QED
        BY <1>4, <2>1, <2>3, <2>4
<1> QED
    BY <1>3, <1>4

\* What the caller does not see.
LEMMA ContractFrame ==
    /\ UNCHANGED <<enabled, trigger>> => InForce' = InForce
    /\ UNCHANGED execution => \A state \in {"open", "ended"} : ExecutedFor(state)' = ExecutedFor(state)
BY DEF InForce, ExecutedFor

LEMMA CommandIsContracts ==
    ASSUME WholeStarts, IInv, NEW r \in Rules, NEW state \in {"active", "deleted"},
           NEW isEnabled \in BOOLEAN, NEW newTrigger \in Triggers, state = "deleted" => ~ isEnabled,
           Commands(r, state, isEnabled, newTrigger)
    PROVE  Contract!Command(r)
<1> DEFINE u == IF isEnabled /\ newTrigger.kind = "schedule" THEN newTrigger ELSE NoTrigger
           fire == initial_next_fire(newTrigger, isEnabled, clock)
<1>1. /\ rule[r] # "deleted" /\ rule' = [rule EXCEPT ![r] = state]
      /\ enabled' = [enabled EXCEPT ![r] = isEnabled]
      /\ trigger' = [trigger EXCEPT ![r] = newTrigger]
      /\ next' = [next EXCEPT ![r] = Stored(fire)]
      /\ UNCHANGED <<clock, execution>>
    BY DEF Commands, WriteRule, Stored
<1>2. RuleType
    BY DEF IInv, TypeOK
<1>3. InForce' = [InForce EXCEPT ![r] = u]
    <2>1. /\ enabled'[r] = isEnabled /\ trigger'[r] = newTrigger
          /\ \A o \in Rules \ {r} : enabled'[o] = enabled[o] /\ trigger'[o] = trigger[o]
        BY <1>1, <1>2 DEF RuleType
    <2> QED
        BY <2>1 DEF InForce
<1>4. CASE isEnabled /\ newTrigger.kind = "schedule"
    <2>1. fire = initial_next_fire(newTrigger, TRUE, clock)
        BY <1>4 DEF initial_next_fire
    <2>2. fire \in Times /\ Stored(fire) \in Times /\ Stored(fire) = PgTime(fire)
        BY <1>4, <2>1, CommandIsAhead, NoTimeFacts DEF Stored
    <2>3. clock \in Nat
        BY SchedulesAssumption DEF IInv, TypeOK
    <2>4. Contract!FirstAfter(newTrigger, clock, Stored(fire))
        BY <1>4, <2>1, <2>2, <2>3, FireIsFirst, TriggersAreSchedules DEF WholeStarts
    <2>5. u = newTrigger /\ u \in Contract!Schedules
        BY <1>4 DEF Contract!Schedules
    <2> HIDE DEF u, fire
    <2> QED
        BY <1>1, <1>3, <1>4, <2>2, <2>4, <2>5, ContractFrame DEF Contract!Command
<1>5. CASE ~ (isEnabled /\ newTrigger.kind = "schedule")
    <2>1. Stored(fire) = NoTime
        BY <1>5 DEF initial_next_fire, Stored
    <2>2. u = NoTrigger
        BY <1>5
    <2> HIDE DEF u, fire
    <2> QED
        BY <1>1, <1>3, <2>1, <2>2, ContractFrame DEF Contract!Command
<1> QED
    BY <1>4, <1>5

LEMMA CompleteIsContracts ==
    ASSUME WholeStarts, IInv, OrderInv, NEW r \in Rules, NEW t \in Times, Completes(r, t)
    PROVE  Contract!End(r, t) \/ UNCHANGED Contract!vars
<1>1. /\ execution' = [execution EXCEPT ![r][t] = "ended"]
      /\ execution[r][t] \in {"open", "ended"}
      /\ IntakeType
      /\ UNCHANGED <<clock, rule, enabled, trigger>>
    BY DEF Completes, IInv, PastInv, TypeOK, IntakeType
<1>2. InForce' = InForce
    BY <1>1, ContractFrame
<1>3. next[r] = t <=> Advance(r, t)
    BY NoTimeFacts DEF Advance, IInv, RuleInv
<1>4. ~ Advance(r, t) => next' = next
    BY DEF Completes
<1>5. CASE execution[r][t] = "ended"
    <2>1. execution' = execution
        BY <1>1, <1>5 DEF IntakeType
    <2>2. next[r] # t
        BY <1>5, NoTimeFacts DEF OrderInv, Times
    <2> QED
        BY <1>1, <1>2, <1>3, <1>4, <2>1, <2>2, ContractFrame DEF Contract!vars
<1>6. CASE execution[r][t] = "open"
    <2>1. /\ <<r, t>> \in ExecutedFor("open")
          /\ ExecutedFor("open")' = ExecutedFor("open") \ {<<r, t>>}
          /\ ExecutedFor("ended")' = ExecutedFor("ended") \cup {<<r, t>>}
        <3>1. \A o \in Rules, s \in Times :
                execution'[o][s] = IF o = r /\ s = t THEN "ended" ELSE execution[o][s]
            BY <1>1 DEF IntakeType
        <3> QED
            BY <1>6, <3>1 DEF ExecutedFor
    <2>2. next' = IF next[r] = t
                  THEN [next EXCEPT ![r] = t + Contract!Interval(InForce[r])] ELSE next
        <3>1. CASE Advance(r, t)
            <4> DEFINE P == Period(trigger[r])
            <4>1. next' = [next EXCEPT ![r] = Stored(t + P)] /\ t + P \in Times /\ t + P # NoTime
                  /\ trigger[r] \in Triggers /\ trigger[r].kind = "schedule"
                BY <3>1, AdvanceFacts DEF SetsNext
            <4>2. Whole(t) /\ t \in Nat
                BY <1>3, <3>1, NoTimeFacts DEF IInv, RuleInv
            <4>3. Whole(P) /\ P \in Nat
                BY <4>1, TriggersAreSchedules, PeriodFacts
            <4>4. InForce[r] = trigger[r] /\ P = Contract!Interval(InForce[r])
                BY <3>1 DEF InForce, Advance, Period, Contract!Interval
            <4> HIDE DEF P
            <4>5. Stored(t + P) = t + P
                BY <4>1, <4>2, <4>3, WholeSum, WholeFacts DEF Stored
            <4> QED
                BY <1>3, <3>1, <4>1, <4>4, <4>5
        <3>2. CASE ~ Advance(r, t)
            BY <1>3, <1>4, <3>2
        <3> QED
            BY <3>1, <3>2
    <2> QED
        BY <1>1, <1>2, <2>1, <2>2 DEF Contract!End
<1> QED
    BY <1>1, <1>5, <1>6

LEMMA ArriveIsContracts ==
    ASSUME IInv, AcceptInv, NEW job \in jobs, Arrives(job)
    PROVE  Contract!Fire(job.rule_id) \/ UNCHANGED Contract!vars
<1> DEFINE r == job.rule_id
           t == job.scheduled_for
<1>1. r \in Rules /\ t \in Times /\ IntakeType
    BY DEF IInv, TypeOK, LedgerType
<1>2. /\ clock >= t /\ timer[r][t] = "none"
      /\ UNCHANGED <<clock, rule, enabled, trigger, next>>
    BY DEF Arrives
<1>3. CASE TimerIsCurrent(r, t)
    <2>1. execution' = [execution EXCEPT ![r][t] = "open"] /\ next[r] = t
        BY <1>3 DEF Arrives, TimerIsCurrent
    <2>2. execution[r][t] = "none"
        BY <1>1, <1>2 DEF AcceptInv
    <2> HIDE DEF r, t
    <2>3. \A o \in Rules, s \in Times :
            execution'[o][s] = IF o = r /\ s = t THEN "open" ELSE execution[o][s]
        BY <1>1, <2>1 DEF IntakeType
    <2>4. /\ <<r, t>> \notin ExecutedFor("open") \cup ExecutedFor("ended")
          /\ ExecutedFor("open")' = ExecutedFor("open") \cup {<<r, t>>}
          /\ ExecutedFor("ended")' = ExecutedFor("ended")
        BY <1>1, <2>2, <2>3 DEF ExecutedFor
    <2>5. Contract!Fire(r)
        BY <1>1, <1>2, <2>1, <2>4, NoTimeFacts, ContractFrame DEF Contract!Fire
    <2> QED
        BY <2>5 DEF r
<1>4. CASE ~ TimerIsCurrent(r, t)
    <2>1. execution' = execution
        BY <1>4 DEF Arrives
    <2> QED
        BY <1>2, <2>1, ContractFrame DEF Contract!vars
<1> QED
    BY <1>3, <1>4

LEMMA ContractStep ==
    ASSUME WholeStarts, IInv, OrderInv, AcceptInv, Next
    PROVE  [Contract!Next]_(Contract!vars)
<1>1. ASSUME UNCHANGED <<clock, rule, enabled, trigger, next, execution>>
      PROVE  UNCHANGED Contract!vars
    BY <1>1, ContractFrame DEF Contract!vars
<1>2. ASSUME Rests PROVE Contract!Tick \/ UNCHANGED Contract!vars
    <2>1. clock \in Int /\ clock' \in Int
        BY <1>2, SchedulesAssumption DEF Rests, IInv, TypeOK
    <2>2. clock' = clock \/ clock' = clock + 1
        BY <1>2, <2>1 DEF Rests
    <2> QED
        BY <1>1, <1>2, <2>2, ContractFrame DEF Rests, Contract!Tick
<1>3. ASSUME NEW r \in Rules, NEW t \in Times, Completes(r, t)
      PROVE  Contract!Next \/ UNCHANGED Contract!vars
    <2>1. Contract!End(r, t) => <<r, t>> \in ExecutedFor("open")
        BY DEF Contract!End
    <2>2. Contract!End(r, t) => \E x \in ExecutedFor("open") : Contract!End(x[1], x[2])
        <3> DEFINE x == <<r, t>>
        <3>1. x[1] = r /\ x[2] = t
            OBVIOUS
        <3> QED
            BY <2>1, <3>1
    <2> QED
        BY <1>3, <2>2, CompleteIsContracts DEF Contract!Next
<1>4. ASSUME NEW job \in jobs, Arrives(job) PROVE Contract!Next \/ UNCHANGED Contract!vars
    <2>1. job.rule_id \in Rules
        BY DEF IInv, TypeOK, LedgerType
    <2> QED
        BY <1>4, <2>1, ArriveIsContracts DEF Contract!Next
<1>5. ASSUME NEW r \in Rules, NEW state \in {"active", "deleted"}, NEW isEnabled \in BOOLEAN,
             NEW newTrigger \in Triggers, state = "deleted" => ~ isEnabled,
             Commands(r, state, isEnabled, newTrigger)
      PROVE  Contract!Next
    BY <1>5, CommandIsContracts DEF Contract!Next
<1>6. ASSUME NEW p \in Processes, NEW d \in batch[p], Marks(p, d) \/ Queues(d)
      PROVE  UNCHANGED Contract!vars
    BY <1>1, <1>6 DEF Marks, Queues
<1> QED
    BY <1>2, <1>3, <1>4, <1>5, <1>6, Kinds DEF Contract!Next

\* ImplementsContract: the ledger, the jobs and the timers of any number of
\* invocations implement schedules that fire once for each time, in their
\* turn, and move on by one interval.
THEOREM Refinement == ASSUME WholeStarts PROVE Spec => ImplementsContract
<1>1. Init => Contract!Init /\ OrderInv /\ AcceptInv
    BY DEF Init, Contract!Init, OrderInv, AcceptInv, InForce, ExecutedFor
<1>2. IInv /\ OrderInv /\ AcceptInv /\ [Next]_vars =>
        OrderInv' /\ AcceptInv' /\ [Contract!Next]_(Contract!vars)
    <2>1. ASSUME UNCHANGED vars, OrderInv, AcceptInv
          PROVE  OrderInv' /\ AcceptInv' /\ UNCHANGED Contract!vars
        BY <2>1, ContractFrame DEF vars, rules, intake, OrderInv, AcceptInv, Contract!vars
    <2> QED
        BY <2>1, OrderStep, AcceptStep, ContractStep
<1> QED
    BY <1>1, <1>2, Invariant, PTL DEF Spec, ImplementsContract, Contract!Spec
===========================================================================

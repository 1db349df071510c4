# Verification of the Project Automation plugin

TLA+ models of `lenso-project-automation-postgres-plugin`, the TLC runs that
check them on small instances, and theorems about them that TLAPS has checked.
Paths are relative to the repository; `storage.rs` and `lib.rs` are those of
`src/crates/lenso-project-automation-postgres-plugin/src/`.

## 1. The system

The plugin stores automation rules of a workspace: a trigger (an event type or
a schedule), conditions on the event's payload, and up to 32 actions, each a
call of the Projects capability. A trigger that matches becomes an
*execution*. Somebody outside (the Host, through an automation-executor
Instance) calls `reconcile` again and again; each call is one bounded pass that
hands pending timers to the Jobs capability, claims executions under a lease
and runs their actions. Nothing runs in the background: all progress is made by
invocations, many of which may run at once, in one process or in several, and
all they share is PostgreSQL.

### Components

| component | state | operations | correct means |
|---|---|---|---|
| Execution engine | `automation_executions` (status, attempts, lease), `automation_attempts`, `automation_action_receipts`; the local variables of a running `reconcile` | `insert_execution`, `claim_executions`, `action_status`, `complete_action`, `complete_execution`, `release_execution_for_retry`, loops of `reconcile` and `execute_actions` | an execution ends once and its outcome is true; actions take effect in order; one worker can end it; the attempt ledger is true and frozen; crashed work is taken over |
| Schedules | `automation_rules.next_fire_at`, `automation_schedule_dispatches`, timers in `automation_triggers`; jobs in the Jobs queue | `initial_next_fire`, `schedule_key`, `replace_pending_schedule`, `flush_schedules`, `mark_dispatch_enqueued`, `receive_timer`, the second half of `complete_execution` | an enabled schedule is always in a stage that somebody will act on; cancelled and superseded intents do not fire; no time fires twice; the schedule recurs |
| Rule management | `automation_rules`, `automation_commands` | `create_rule`, `update_rule`, `set_enabled`, `delete_rule`, `reserve_command`, `complete_command` | one of two concurrent updates loses; a retried command has one effect and one response; names are unique among rules not deleted |
| Event intake | `automation_triggers` | `receive_event`, the intake of `receive_timer`, `conditions_match` | a trigger makes at most one execution per rule, of the revision current at the commit; every answer names all executions; no rule that stays is overlooked |
| Queries and cursors | the cursor a client holds | `get_rule`, `list_rules`, `inspect_execution` | paging shows what stays once, beside all writers; an inspection tells one story |
| Authorization | none | caller lists, actor assertion, membership, access decision | fails closed, although a permission may be taken away between two checks |
| Rule language | none | `valid_trigger`, `valid_condition`, `valid_action`, target resolution | what it accepts can be executed |
| Agent tools adapter | none | seven tools, their execution class, error translation | an error told to an agent is true |
| Lifecycle and configuration | the prepared pool | `validate`, `activate`, `deactivate` | refuses a bad configuration; is quiet after `deactivate` |
| Operator setup, capability contract | none | | |

How they interact. A rule command is one transaction that changes the rule, its
next fire time and the dispatch ledger; after the commit the same invocation
flushes pending dispatches to Jobs (not after a deletion). Jobs delivers a job,
at least once, as a call of `receive_timer`, which records the timer and
inserts an execution if the rule still waits for that time. `reconcile`
flushes, claims, runs the actions, and in the transaction that ends the
execution advances the rule to its next fire time and writes the next
dispatch, which its second flush enqueues. So the execution engine and the
schedules meet in three places: `insert_execution`, `claim_executions` and
`complete_execution`.

### Hard behaviours

* *Interleaving.* Every `await` of `reconcile` is a point where another
  invocation may act. `lease_owner` is the caller's Instance, not the
  invocation, so two invocations of one executor have the same owner.
* *Leases.* A lease is taken for a whole batch and never renewed, and is not
  looked at before a call to Projects. Its owner may go on working after it.
* *Crashes.* Between the call of Projects and the receipt, between the receipt
  and the end of the execution, between Jobs' answer and the ledger.
* *Lost calls.* A Runtime Failure leaves open whether Projects or Jobs did it.
* *Order.* Timers arrive late, twice, after the rule was changed, before the
  previous execution ended.
* *Reads made in pieces.* `inspect_execution` reads three tables without a
  transaction; `list_rules` is followed page by page while rules come and go;
  `execute_action` reads an entity that users edit before it is written; a
  `SELECT ... FOR SHARE` locks its rows one by one after its snapshot.
* *Checks made before.* Membership and permission are asked for in two calls
  and the database is reached later; `deactivate` may run at any time.
* *Time.* The key of a dispatch is made of nanoseconds, its column keeps
  microseconds; a past `start_at` is moved on by whole intervals.

`PROJECT.json` lists the hazards one by one with the properties about them.

## 2. Modules

| module | what it is |
|---|---|
| `ExecutionContract` | abstract specification: what a caller is promised about an execution |
| `Executions` | the execution engine, one action per transaction, statement or remote call |
| `ExecutionsProofs` | theorems about `Executions` for every value of its constants |
| `Inspection` | `inspect_execution`, statement by statement, beside the workers of `Executions` |
| `InspectionProofs` | `PagesComplete` and `InspectionAgrees` for all constants |
| `MCExecutions`, `MCInspection` | their instances for TLC |
| `ScheduleTime` | `initial_next_fire`, `schedule_key`, the precision of a column |
| `ScheduleContract` | abstract specification: schedules that fire once for each time, in their turn |
| `Schedules` | the schedule side, one action per transaction, statement or remote call |
| `ScheduleTimeProofs` | lemmas on `initial_next_fire` and the precision, for all triggers and times |
| `SchedulesProofs` | theorems about `Schedules` for every value of its constants, and that it implements `ScheduleContract` |
| `MCSchedules` | its instances for TLC |
| `RuleRegister` | abstract specification: a register of rules whose commands happen at once |
| `RuleCommands` | the four rule commands, one action per statement of their transactions |
| `RuleCommandsProofs` | theorems about `RuleCommands` for every value of its constants |
| `MCRuleCommands` | its instances for TLC |
| `RuleLanguage` | validation, matching and target resolution as operators |
| `TriggerMatching` | who may deliver what, and which rows an event or a timer meets |
| `IntakeContract` | abstract specification: a ledger that takes each trigger once, with all its executions |
| `TriggerIntake` | `receive_event` and the intake of `receive_timer`, one action per statement |
| `TriggerIntakeProofs` | theorems about `TriggerIntake` for every value of its constants, and that it implements `IntakeContract` |
| `MCTriggerIntake` | its instances for TLC |
| `ActionCalls` | one action of a rule, from the request that creates it to the write at Projects |
| `ActionCallsProofs` | theorems about `ActionCalls` for every value of its constants |
| `MCActionCalls` | its instance for TLC |
| `Management` | the way of a call into the plugin: configuration, callers, authorization, tools, pages, deactivation |
| `ManagementProofs` | all its properties, for all constants |
| `MCManagement` | its instance for TLC |

### Executions

A *worker* is one invocation of `reconcile`. Shared state: `status`,
`attempts`, `owner`, `lease` (the row of `automation_executions`), `ledger`
(`automation_attempts`), `receipt` (`automation_action_receipts`). External:
`applied`, the effects that Projects has made durable; Projects applies one
effect per idempotency key (`lib.rs:968-1160` sends the same key on every try).
Local: `pc`, `todo` (the claimed executions still to do), `fence` (the attempt
number of the claim), `index` (the action reached).

| action | code |
|---|---|
| `InsertExecution` | `insert_execution`, `storage.rs:649` |
| `ClaimExecutions` | `claim_executions`, `storage.rs:844`; any set of claimable rows up to the limit, because `SKIP LOCKED` passes over rows another transaction holds |
| `ActionStatus` | `action_status` and the branch in `execute_actions`, `lib.rs:919` |
| `CallSucceeds`, `CallRejected`, `CallRuntimeFailure` | `execute_action`, `lib.rs:968` |
| `CompleteAction` | `complete_action`, `storage.rs:920` |
| `StorageFailure` | the error of either statement, `lib.rs:939-961` |
| `CompleteExecution` | `complete_execution`, `storage.rs:961` (its schedule half is in `Schedules`) |
| `ReleaseExecution` | `release_execution_for_retry`, `storage.rs:934` |
| `LeaseExpires` | the clock passes `lease_until` |
| `Crash` | the process dies, the caller cancels, a transaction fails |

`lease_until` is compared with the database clock only, so the time itself is
not modelled: a lease is valid until `LeaseExpires`. Order matters in
`CompleteExecution`: `OwnsLease` needs the same attempt, owner, status and a
valid lease.

### Schedules

A *process* is one invocation of a rule command or of `reconcile`. Shared
state: `rule`, `enabled`, `trigger`, `next` (the row of `automation_rules`),
`dispatch` and `key` (`automation_schedule_dispatches`), `timer` and
`execution` (what came of a timer). External: `jobs`, the jobs Jobs has
accepted; `clock`. Local: `pc`, `batch` (the dispatches read and not handled),
`claimed`, `after` (where the invocation goes on after its flush).

| action | code |
|---|---|
| `CreateRule`, `UpdateRule`, `SetRuleEnabled`, `DeleteRule` | `storage.rs:277, 411, 493, 559`: row, next fire time and ledger in one transaction |
| `ReplayCommand` | a command found in the ledger: no write, but the flush runs, `lib.rs:435-488` |
| `ReadPending`, `Enqueue`, `EnqueueFails`, `MarkDispatchEnqueued` | `flush_schedules`, `lib.rs:1162` |
| `ReceiveTimer` | `receive_timer`, `storage.rs:769` |
| `StartReconcile`, `ClaimExecutions`, `CompleteExecution`, `SecondFlush` | `reconcile`, `lib.rs:825` |
| `Crash`, `Tick` | the process dies or a statement fails; time passes |

An execution is "open" from the timer to `complete_execution`. That a crashed
worker's execution can be taken over and is ended once is what `Executions`
shows. Whether a command passes its checks of revision, name and idempotency
key decides if it happens, not what it does to the schedule, so any command may
happen at any time.

`ScheduleTime` counts in units of the program's clock; `Micro` units make a
microsecond, `Second` units a second. With `Micro = 1` the clock is as coarse
as the column.

`ScheduleContract` has no dispatches, jobs, timers, flushes or invocations. A
rule has a schedule in force (`InForce`: that of an enabled rule) and waits for
one time. `Command` sets the time to a whole interval from now or to the first
recurrence still to come, by definition and not as `initial_next_fire` computes
it; `Fire` opens the execution for it, once and not before it has come; `End`
ends it and moves the rule on by one interval, if it still waits for that time.
A deleted rule gets no schedule again. `ImplementsContract` maps a command to
`Command`, the intake of a current timer to `Fire`, `complete_execution` to
`End`, and everything else to nothing, so neither a stale timer nor a second
completion has an effect.

### RuleCommands

A *process* is one invocation of a command. Shared state: `rules` and
`commands`, what is committed of `automation_rules` and
`automation_commands`. Local: `pc`, `request`, `seen` (the row returned by
`SELECT ... FOR UPDATE`), `row` (the row written and not committed), `answer`.

| action | code |
|---|---|
| `Call` | the call of `storage::...` in `lib.rs:435-710`, after authorization and validation |
| `ReserveCommand` | `reserve_command`, `storage.rs:74` |
| `LockRule` | `SELECT ... FOR UPDATE`, `storage.rs:445, 524` |
| `InsertRule`, `UpdateRule`, `SetEnabled`, `DeleteRule` | the statement that writes the row, `storage.rs:301, 448, 527, 589` |
| `TakeName` | the rest of that statement: the entry of the row in the unique index of names |
| `InspectDeleteConflict` | `SELECT EXISTS`, `storage.rs:592` |
| `Commit` | `complete_command` and COMMIT, `storage.rs:118` |
| `Flush` | `flush_schedules` after the commit; not in `delete_rule` |
| `AbortDeadlock` | PostgreSQL ends a transaction that waits in a ring (external) |
| `Fail` | a statement, COMMIT or the flush fails, the process dies; the answer of a COMMIT that has happened is lost |

PostgreSQL at READ COMMITTED is modelled from its use: an INSERT of a reserved
key waits (`Reserved`), a statement whose WHERE clause has found a row waits
for that row (`RowWaits`), and an entry of `automation_rules_active_name_key`
waits for a transaction that has the name or is giving it up (`NameHeld`).
`WaitsFor` puts these together: which transaction another one waits for. The
row comes before the name, so that a transaction that waits for a name already
holds its row with the old one; two renames can thus wait for each other
(`Ring`), and one of them is aborted.
Locks are not variables: who holds what follows from `pc` and `request`.
`seen` is kept apart from the row because `next_fire_at` is computed from it
(`storage.rs:447`) and written by a later statement.

`RuleRegister` has one action, `Execute`: admitted on a new key, on the
expected revision and a free name, it gives the rule its new fields and
revision and stores the response. `ImplementsRegister` says that the committed
tables do only that.

### RuleLanguage

Operators only, used by the next three modules. `valid_rule` and its parts,
`valid_event`, `conditions_match`, `event_allowed` and `Target` are those of
`lib.rs:1419-1640` and `storage.rs:619`. Records have the fields of the request types. Ids, texts and times
are model values; those that `valid_id`, `valid_text` and `parse_time` refuse
are the members of `Malformed`.

### TriggerIntake

A *process* is one delivery of an event or a timer, which may be delivered
again at any time. Shared state: `rules`, `triggers` and `executions`, what is
committed of `automation_rules`, `automation_triggers` and
`automation_executions`. Local: `pc`, `delivery`, `trigger_id`, `found` (the
snapshot of the SELECT), `rows` (what is locked), `answer`.

| action | code |
|---|---|
| `Deliver`, `Admit` | the call; caller list and validation, `lib.rs:712-780` |
| `InsertTrigger` | `INSERT ... ON CONFLICT DO NOTHING`, which waits for a transaction with the same key, `storage.rs:728, 787` |
| `ReadDuplicate` | the answer to a key that is stored, `existing_trigger_receipt`, `storage.rs:690` |
| `SelectRules`, `LockRow`, `RowsLocked` | `SELECT ... FOR SHARE`, `storage.rs:734, 793` |
| `Commit` | `insert_execution` for every row that fires, COMMIT |
| `Fail` | a statement fails, the connection or the process is lost; a COMMIT may have happened |
| `ChangeRule` | any command of `RuleCommands`, or the advance of `complete_execution`, at once: `Changes` is one of `Inserted`, `Edited`, `Switched`, `Removed`, `Advanced` |

The trigger of a timer refers to its rule by a foreign key (line 51 of the
migration), so its INSERT locks the rule `FOR KEY SHARE`. That keeps every
command waiting, as they lock the rule `FOR UPDATE` or, to delete it, change
`deleted_at`, which is part of a unique constraint (`SharedLock`). READ
COMMITTED is modelled as `storage.rs` uses it: a row that changes between
the snapshot and its lock is tested again as it is then, a row that begins to
qualify after the snapshot is not found, and a row that is locked `FOR SHARE`
keeps every command waiting. `stable` is a history variable: the rules that met
the delivery without interruption since its trigger was inserted.

`IntakeContract` has no transactions, snapshots, locks or trigger ids. Its
ledger takes a trigger once (`Take`), together with all the executions that it
will ever have: each of a rule that meets the delivery at this moment and with
its revision of this moment; a timer misses no rule. `Ledger` maps the tables to
it: the executions of a stored trigger are those with its id. `ImplementsContract`
says that a COMMIT is one `Take`, a command one `ChangeRule`, and every other
step nothing.

### ActionCalls

One rule with one action. `Submit` is `create_rule` with its validation;
`EventArrives` and `TimerArrives` give it the payload of its trigger; a worker
then goes through `execute_action` (`lib.rs:968-1160`).

| action | code |
|---|---|
| `Begin` | an attempt reaches the action, its receipt is not succeeded |
| `ResolveTarget` | the target of the payload or of the action, `lib.rs:988-997`, and alike for the other kinds |
| `GetEntity` | `get_issue`, `get_project` |
| `CallProjects` | `move_issue`, `update_issue`, `add_comment`, `update_project` with the key of the action and the revision that was read |
| `SaveReceipt`, `Complete`, `Fail` | `complete_action`; the end of the attempt; a failed call or a crash |
| `UserEdit` | somebody changes the entity at Projects, beside the workers and also after the end, when a late one goes on |

External, from how the code uses it: Projects refuses a stale
`expected_revision`, remembers idempotency keys, and may refuse anything. What
it says to a known key with another request is left open (the plugin sends
one when a retry has read a new revision); all that is assumed is that it
does not apply it.

### Inspection

`InspectRow`, `InspectAttempts`, `InspectActions` are the three statements of
`inspect_execution` (`storage.rs:1104`), between which the workers of
`Executions` go on. A reader follows `next_attempt_cursor` with pages of one.

### Management

A *process* is a client, direct or through the agent tools.

| action | code |
|---|---|
| `Load`, `Activate`, `Deactivate`, `ClosePool` | `validate` and construction, `activate`, `deactivate`, whose `pool.close()` waits for connections in use |
| `Call`, `Admit` | decoding of tool arguments and their execution class; caller list, assertion, ids |
| `CheckMembership`, `CheckPermission` | the two dependency calls of `authorize_management` |
| `Validate` | validation of the request, then `prepared()` |
| `Begin`, `Commit`, `Flush` | a command: `row_seq` is taken, the transaction commits or rejects, the flush |
| `Read` | `get_rule`, `inspect_execution`, a page of `list_rules` |
| `ChangeGrants` | membership or permission given or taken away (external) |
| `Fail` | a statement fails; a COMMIT may have happened |

A command is one transaction here, and a rule its `row_seq` and whether it is
enabled; its statements are in `RuleCommands`. `held` is a history variable:
the grants that held at some time since the call began.

## 3. Runs

All runs finish within three minutes on two workers.

| run | question | result |
|---|---|---|
| `executions` | two executions of two and one actions, two invocations of one Instance, two faults, a counter that ends after two attempts, and a reader that pages through the attempts meanwhile | types, `SucceededMeansApplied`, `AppliedInOrder`, `AttemptLedgerAgrees`, `SoleCompleter`, `AttemptHistoryFrozen`, `PagesComplete`, `InspectionAgrees` hold |
| `executions_live` | two invocations of two Instances: does every execution end; do the tables implement the contract | `EveryExecutionEnds`, `ImplementsContract` hold |
| `executions_rejected` | does a recorded rejection stay | **violated** (finding 1) |
| `schedules` | one rule switched by commands between an anchored schedule, an event trigger, disabled and deleted, two invocations, one fault, a clock finer than the columns | types, `ScheduleAlive`, `PendingIsNext`, `EndedMeansPast`, `TimerKeyVerifies`, `CancelledStays`, `NeverBackwards`, `ImplementsContract` hold |
| `schedules_live` | two rules without `start_at` that share a flush limit of one: does every schedule move on | `ScheduleAdvances` holds |
| `schedules_stall` | the interval is shortened | **violated** `ScheduleAdvances` (finding 2) |
| `schedules_key` | a clock finer than the column, no `start_at` | **violated** `TimerKeyVerifies` (finding 3) |
| `rule_commands` | three invocations on one rule: an update and a disable race on one revision, deletes on a right and a stale one, a key used for two requests, retries, one fault | types, `AnswerIsDurable`, `RetryFindsResponse`, `ImplementsRegister` hold |
| `rule_commands_names` | two rules swap their names while a third invocation creates one of them: does every invocation return although transactions wait for each other | `NamesUnique`, `OnlyRenamesDeadlock`, `EveryCallReturns` hold |
| `trigger_intake` | an event and two timers with equal keys are delivered three times, two at once, while a command changes a rule; do the tables implement the contract | types, `OneExecutionPerRule`, `AnswerNamesExecutions`, `StableRuleFires`, `ImplementsContract` hold |
| `action_calls` | rules with one action of every kind, well formed and not, two workers, three attempts, two edits by users | `EffectOnce`, `ReceiptIsTrue`, `AcceptedRuleHasTarget`, `WritesOnlyItsFields` hold |
| `management` | valid and invalid configurations, three calls of two clients, a permission that changes, a fault, a deactivation | types, `StorageIsAuthorized`, `RejectionHasNoEffect`, `StableRulesListed`, `QuietAfterDeactivate` hold |

Each property of a passing run has a mutant: a plausible mistake in the code,
written next to the definition it changes (`OwnsLeaseUnfenced` drops
`attempts=$2`, `MarkedAlways` drops `state='pending'`, ...). TLC finds the
property violated under it.

Deadlock is not checked: the bounds stop the models, and the system itself may
be idle.

### Bounds and why they are enough

* *Workers and processes.* Two is the least with a race: a worker that works on
  after its lease and its successor, of the same Instance in `executions`. That
  a third worker, or a second Instance, adds nothing to the safety properties
  is what the proofs show.
* `MaxFaults`. Each interesting failure takes one fault, to be followed by
  another in the retry: two.
* `MaxAttempts` is `i32::MAX` in the code. Two is reached in `executions`, so
  the rollback of an exhausted claim is part of the run; with three attempts
  and two faults it is not reached, as liveness needs.
* *Actions.* Two actions in a rule are the least with an order; the second
  execution has one, so that lengths differ in a batch.
* `Horizon`, `MaxTime`. With an interval of one and a start of one, three ticks
  are three recurrences. `MaxTime` only has to be beyond every next fire time,
  which an assumption checks.
* *Rings.* Two renames are the least ring; the creation of both rules and the
  two renames are the four calls. A third process is one that waits for the
  ring from outside. Longer rings are what the proof is for.
* `MaxCalls`. Five calls are a creation, the two that race, a retry and one
  more on the result; four where liveness is checked. Three invocations let
  one wait behind two others. Each set of requests has one key with two requests or one
  name for two rules, so conflicts of every kind occur.
* `MaxCommands`. Three are create, disable and enable, or a change to an event
  trigger and back. In `trigger_intake` one command, at any point of three
  deliveries, is enough to break each property under its mutant; more of them
  are for the proofs.
* *Intake.* The keys of the event and of the timers collide, within one source
  and between the two; one rule exists at the start and one may be created,
  meet the event or not, or change between a timer and an event. Three
  deliveries are two at once and a duplicate after both. That more of them add
  nothing is what the proofs show.
* *Actions.* `MCActions` has every kind of action with no field, with each one,
  and with the usual fields and one more, so every clause of `valid_action`
  and every way to a target is taken; conditions only vary where they decide.
* *Inspection.* With pages of one, an execution of two attempts needs a cursor;
  only the execution with two actions is inspected, the other is the workers'.
* *Management.* Pages of one over two to four rules; three calls are a list and
  its next page with a command between them, or a creation that overtakes
  another; the deactivation may come at any point of them.
* *Symmetry* is used where processes or workers are model values that no
  definition tells apart, in runs without liveness.

### Fairness

* A running invocation goes on (`WF` of its step as a whole): the async
  runtime polls what is ready. It is never fair to fail: faults are bounded.
* The Host calls `reconcile` again while there is work
  (`README.md:107-111`), and an invocation that claims always can.
* A statement of a rule command that could go on again and again does
  (`SF` of `Statement`): PostgreSQL serves the waiters of a lock in order, so
  that a later transaction cannot overtake one forever. A ring is detected
  (`WF` of `AbortDeadlock`), as PostgreSQL looks for one after
  `deadlock_timeout`.
* A lease that expires needs only time, `WF(LeaseExpires)`.
* Jobs delivers an available job at least once (`README.md:113`): `WF` on
  `ReceiveTimer`. No delivery order is assumed.

### What the runs show, and within which limits

* `ScheduleAlive` and `ScheduleAdvances` are checked for a rule
  that has one schedule and is changed to an event trigger, disabled, enabled and
  deleted. With two schedules to change between they fail, which is finding 2.
  `NeverBackwards` is about a rule that keeps its trigger.
* There is one clock: skew between hosts is not modelled.
* `ScheduleAlive` needs a `start_at` in whole microseconds. With a finer one,
  a command in the same microsecond may set a next fire time that, as it is
  stored, is not in the future; the theorems of section 4 say where.
* `StableRuleFires` promises nothing for two rules of which one is enabled
  before the other is disabled: a delivery whose snapshot is older than both
  commands, and which locks after both, fires neither. That follows from READ
  COMMITTED, and no document promises otherwise.
* `StableRulesListed` promises nothing for a rule that is created meanwhile:
  `row_seq` is taken before the commit, so a page may pass a rule that becomes
  visible later.
* `SucceededMeansApplied` and `ReceiptIsTrue` rest on Projects keeping its
  idempotency keys.

### Findings

1. **A rejected action is not terminal** (`executions_rejected`).
   `docs/architecture-boundary.md:28` says that Projects domain errors create
   terminal action and execution receipts. `execute_actions` skips an action
   only if its receipt is `succeeded` and `complete_action` writes without a
   condition, so after a crash between the two writes the next attempt calls
   the rejected action again, and its receipt may go from failed to succeeded.
2. **A schedule can stop** (`schedules_stall`). When the interval is shortened,
   the next fire time may be one whose dispatch row is already `enqueued` and
   whose timer was recorded as ignored. The row is not reopened and a second
   timer would be a duplicate, so the rule waits for this time until somebody
   changes it.
3. **A job whose key does not verify** (`schedules_key`). The key is made of
   the time's nanoseconds before the column cuts them. A schedule without
   `start_at` counts from `now_utc()`, so where that has nanoseconds
   `receive_timer` refuses every delivery.

## 4. Proofs

`ExecutionsProofs` proves, for any number of executions, actions, workers,
callers, attempts and faults:

| theorem | statement |
|---|---|
| `TypeCorrect` | `Spec => []TypeOK` |
| `SucceededIsApplied` | `Spec => []SucceededMeansApplied` |
| `EffectsInOrder` | `Spec => []AppliedInOrder` |
| `LedgerAgrees` | `Spec => []AttemptLedgerAgrees` |
| `OneCompleter` | `Spec => []SoleCompleter` |
| `HistoryFrozen` | `Spec => AttemptHistoryFrozen` |
| `TerminalFinal` | `Spec => TerminalIsFinal` |
| `Refinement` | `Spec => Contract!Spec` |

The only assumption is `ExecutionsAssumption`: executions are numbers, rules
have between one and `MAX_RULE_ACTIONS` actions, `NULL` is no caller.

The argument. None of the properties is inductive. `IInv` strengthens them:

* what a worker holds: a claimed execution is not absent, its `fence` is
  between 1 and `attempts`, and two workers never hold one execution with
  one `fence` (the claim takes a number nobody has);
* what a worker has done: all actions before its `index` are in `applied`, and
  the one at `index` too once it is about to save success; so a success it
  reports, with `index` at the end, is true, even if the lease was lost, and
  an effect it adds comes after all earlier ones;
* a receipt that says `succeeded` has its effect in `applied`, which is why
  skipping is sound;
* the attempt ledger agrees with `attempts` and `status` of the row, and a
  lease is held only by running executions, so an update guarded by the
  fence changes the last row only.

Each part has a lemma of its own (`LedgerStep`, `FenceStep`, ...) with one step
per action that can disturb it. `Refinement` maps a claim,
a save or a release to a stutter and the end of an execution to `Succeed` or
`Fail`; it is the safety part of `ImplementsContract`.

`RuleCommandsProofs` proves, for any requests, rules, keys, names and number
of invocations, calls and faults:

| theorem | statement |
|---|---|
| `TypeCorrect` | `Spec => []TypeOK` |
| `NamesStayUnique` | `Spec => []NamesUnique` |
| `OnlyRenamesCanDeadlock` | `Spec => []OnlyRenamesDeadlock` |
| `AnswersAreDurable` | `Spec => []AnswerIsDurable` |
| `RetriesFindTheirResponse` | `Spec => RetryFindsResponse` |
| `RevisionsCountCommands` | `Spec => []RevisionCountsCommands` |
| `Refinement` | `Spec => ImplementsRegister` |

The only assumption is `RequestsAssumption`: requests have the fields of their
operation, a key belongs to one operation (the operation is part of the primary
key of `automation_commands`), and there are finitely many keys.

The argument. A transaction checks in one statement what must be true in
another, and each check holds because of something others wait for. `IInv` says
so, part by part: a reserved key is unused and reserved once (`KeyInv`), a rule
is held by one transaction (`HoldInv`), so the row that was read is still the
row (`SeenInv`); a name that was taken is free among committed rules and
among rows not committed (`NameInv`). From these follows `RowInv`: a row that is
written is what the register would make of the request *now*. So a commit,
whose name is taken too (`Admits`), is a step of the register, and `Refinement`
needs no more. Steps of a process are first classified by what they are to the
others (`Leaves`, `Enters`, `Locks`, `Writes`, `TakesName`, `Inspects`; lemma
`Kinds`), and each part of the invariant is shown for these six kinds.

`OnlyRenamesCanDeadlock` follows from `IInv` without another induction. Each
member of a ring waits for one and is waited for by one (`RingMember`). Nobody
waits for a process that only asks for its key, so none is in a ring; then none
is that is waited for because of its key alone. What is left holds a row. If it
has not written the row yet it need not wait for it, as the row is locked by it
alone (`RingAtName`); so it waits for a name, and not for the one that its rule
has already (`KeptName`). A rule that is being created has no old name to wait
for. What remains are updates, each of which wants the name of another's rule.

`TriggerIntakeProofs` proves, for any deliveries, rules and definitions and any
number of processes, calls, commands and faults:

| theorem | statement |
|---|---|
| `TypeCorrect` | `Spec => []TypeOK` |
| `OneExecution` | `Spec => []OneExecutionPerRule` |
| `AnswersNameExecutions` | `Spec => []AnswerNamesExecutions` |
| `CommitsAreCurrent` | `Spec => CommitIsCurrent` |
| `StableRulesAreFound` | `Spec => StableRuleFires` |
| `Refinement` | `Spec => ImplementsContract` |

The only assumption is `IntakeAssumption`. The argument: a stored key is stored
once, because two transactions with one key are never both beyond their INSERT
(`KeyInv`); trigger ids are of one delivery each (`IdInv`); a locked row is the
row of the table, because commands wait for it (`LockInv`), so what is tested
is what is committed; and a rule in `stable` is in the snapshot until it is
locked (`StableInv`), because the test that a changed row has to pass again is
weaker than meeting the delivery. `AnswerNamesExecutions` is inductive
together with `AnswerInv`: executions of a trigger are all made in the
transaction that stores it, so a duplicate, which waits for that transaction,
reads them all.

For `Refinement`, a COMMIT must be a `Take` of the contract at the moment it
happens: the delivery has passed the caller list and the validation
(`AdmitInv`); its key is not in the ledger yet (`KeyInv`); the rows whose
executions it inserts are locked, so they meet the delivery now and have the
revision that is written (`LockInv`); and the rule of a timer is not missed.
The last rests on the foreign key: from the INSERT of the trigger on nobody
can change the timer's rule, so it is found and locked if it is there
(`TimerInv`). A command
changes one rule as the contract allows (`CommandChanges`, from one lemma per
kind of change), and leaves the ledger alone because stored executions keep
the revision they were made from (`LedgerCommit`, `CommitTakes`,
`ContractStep`).

`ActionCallsProofs` proves, for any requests, events, edits and any number of
workers, attempts and faults:

| theorem | statement |
|---|---|
| `TypeCorrect` | `Spec => []TypeOK` |
| `EffectAtMostOnce` | `Spec => []EffectOnce` |
| `ReceiptsAreTrue` | `Spec => []ReceiptIsTrue` |
| `AcceptedRulesHaveTargets` | `Spec => []AcceptedRuleHasTarget` |
| `WritesKeepOtherFields` | `Spec => WritesOnlyItsFields` |

The assumptions are `BoundsAssumption` (each rule has one action, events name
their entity) and that `None` is none of the values it must not be. The
argument: the key of an action does not depend on the attempt, so Projects has
either nothing of it or one answer (`LedgerInv`); what a worker has read is the
entity unless its revision has moved on, in which case the write is refused
(`ReadInv`), so every field that the action does not set is sent as it is; and
validation of the schedule's target, of the comment's body and of the event's
entity leave one way only to an action without target (`TargetInv`).

`ScheduleTimeProofs` proves of `initial_next_fire`, for every trigger, time,
second and microsecond: it is later than now (`FireFacts`), in the database too
if `start_at` is whole (`FireIsLater`); it is on the grid of `start_at` and the
interval (`FireIsOnGrid`), whole if `start_at` is (`FireIsWhole`), at least one
interval after every time on the grid up to now (`FireIsBeyond`), and grows
with the clock (`FireGrows`).

`SchedulesProofs` proves, for any rules, triggers, limit and number of
processes, commands and faults, over any length of time:

| theorem | assumes of the triggers | statement |
|---|---|---|
| `TypeCorrect` | | `Spec => []TypeOK` |
| `OnlyNextIsPending` | | `Spec => []PendingIsNext` |
| `CancelledDispatchesStay` | | `Spec => CancelledStays` |
| `FireTimesArePast` | `WholeStarts` | `Spec => []EndedMeansPast` |
| `SchedulesGoForward` | `WholeStarts` | `Spec => NeverBackwards` |
| `SchedulesStayAlive` | `WholeStarts` | `Spec /\ []KeepsSchedule(S) => []ScheduleAlive`, for any `S` that gives a trigger to each rule |
| `TimerKeysVerify` | `WholeTimes` | `Spec => []TimerKeyVerifies` |
| `Refinement` | `WholeStarts` | `Spec => ImplementsContract` |

`SchedulesAssumption` and `TimeAssumption` hold in each. The three conditions
are where the code's promises end, and TLC shows that two of them cannot be
left out: without `KeepsSchedule(S)` (rule `r` never has another schedule than
`S[r]`; other rules may have other ones, and commands switch each on and off,
and to event triggers and back) finding 2 happens, without `WholeTimes` (the
clock is no finer than the database, or every schedule has a `start_at` in
whole microseconds) finding 3. `WholeStarts` says that no `start_at` has a part of a microsecond.

The argument. `IInv`: only an enabled rule with a schedule waits; timers and
executions are of the past; a dispatch has a key; and `PendingIsNext`, which is
inductive with these. On top of it, each theorem adds its part: `OrderInv`
(executions are of times up to the next one, ended ones of earlier ones);
`GridInv` (the next time is on the grid of its trigger and no later than what a
command would set now), which makes an advance and a command go the same way;
`QueueInv` (an enqueued dispatch has its job, and so does one about to be
marked; there are no jobs and timers but those of dispatches) and `ReachInv` (the
next time is the latest of all dispatches of its rule, which are times of its one
schedule), by which a time
that is set has had no timer yet, so the rule is in the first or second stage
of it; `SameKeyInv` (the key of a dispatch is its time). Steps are first
classified by what they do to the tables (lemma `Kinds`: a command, the end of
an execution, an arrival, a mark, a queued job, or none).

`Refinement` takes these kinds one by one. A command sets what
`initial_next_fire` computes, and that is the first recurrence after now: it is
one by construction, and a recurrence in between would be a multiple of the
interval between two successive ones (`FireIsFirst`). A timer that is current
opens an execution that has not been there, as it is recorded first
(`AcceptInv`). A completion either ends an open execution or finds it ended,
and then the rule has moved on (`OrderInv`), so nothing happens; the time one
interval later is whole like the one before, so the column keeps it as it is.

`ManagementProofs` proves, for any configurations, calls, clients, rules, size
of a page and number of faults:

| theorem | statement |
|---|---|
| `TypeCorrect` | `Spec => []TypeOK` |
| `CallsAreAuthorized` | `Spec => []StorageIsAuthorized` |
| `RejectionsAreEmpty` | `Spec => []RejectionHasNoEffect` |
| `PagesAreComplete` | `Spec => []StableRulesListed` |
| `ClosedIsQuiet` | `Spec => QuietAfterDeactivate` |

The assumptions are `ManagementAssumption` (the rules at the start have the
first numbers, a page has 1 to 100 rules) and `CallsAssumption` (each call is
of an operation of the capability). The argument: every `row_seq` in the table
or in a transaction is below the sequence, and no two transactions have the
same (`SeqInv`), so a COMMIT adds its own row; what a check has found was held
since the call began, and stays so (`HeldInv`); a call has changed nothing
before it commits (`WrittenInv`), and after that it is answered with success or
a Runtime Failure only; a transaction holds up the closing of the pool
(`PoolInv`). For the pages, `Ranks` gives the n-th element of a finite set of
numbers (ranks are an injection between sets of one size, hence onto),
`PageFacts` what a page holds, and `PageInv` says that up to the cursor no
stable rule is missing and nothing that was listed is beyond it.

`InspectionProofs` proves, for any executions, actions, workers, faults and
size of a page, `InspectionSpec => []PagesComplete` (`AttemptPagesComplete`)
and `InspectionSpec => []InspectionAgrees` (`ReaderIsTold`), from
`ExecutionsAssumption` and `InspectionAssumption`. It carries `IInv` of
`ExecutionsProofs` along, which makes the rows after a cursor an interval
(`RowsAreAnInterval`). The reader's own part: what it has seen of the row is
behind the table, or equal to it once the execution has ended (`SeenInv`); the
pages go up to the cursor (`PagesInv`); an action shown as succeeded is applied
(`ShownInv`).

Three of these are proved and checked by no run of their own (`TerminalFinal`,
`RevisionsCountCommands`, `CommitsAreCurrent`): the contract that a run checks
of the same module says the most of each.

What stays with TLC: liveness and everything that needs ENABLED
(`EveryExecutionEnds`, `EveryCallReturns`, the fairness in
`ImplementsContract`, `ScheduleAdvances`), and the findings.

## 5. Not modelled

* Operator setup and the schema plan: they hand a fixed plan to an external
  migration kit.
* Encoding and dispatch of the capability contract (`generated.rs`,
  `build.rs`): generated. The request types, enumerations and errors it
  declares are the data of the models.
* The contents of responses, failure texts; JSON schemas of the tool catalog;
  the spelling of ids, texts and times.
* In `RuleCommands`: the organization (one stands for all), conditions and
  actions of a rule, which no statement looks at; a `next_fire_at` out of range,
  which is rejected as an invalid request; the time of a deletion, so that two
  deletions of one name in one microsecond, whose index entries would be equal,
  do not occur.
* In `ActionCalls`: rules of several actions, whose order is in `Executions`.
* In `Management`: several organizations and actors, a second activation, and
  the replay of a command, which is in `RuleCommands`. An assertion is given by
  what its verification finds.
* A Jobs capability that rejects one dispatch forever. Then every flush stops
  at it and `reconcile` claims nothing; the models let Jobs fail finitely often.
* A next fire time beyond the range of the time type, for which
  `complete_execution` is rolled back at every attempt until the attempts run
  out: times are unbounded in `ScheduleTime`.
* Skew between the clocks of hosts and database.

## 6. Plan

In this order; all but the last two are done.

1. `Executions`, `ExecutionContract` and their runs; `ExecutionsProofs`.
2. `ScheduleTime`, `ScheduleContract`, `Schedules` and their runs.
3. `RuleRegister`, `RuleCommands`, their runs and `RuleCommandsProofs`.
4. `RuleLanguage`, `ActionCalls`, `IntakeContract`, `TriggerIntake`, their runs
   and proofs.
5. `Inspection` and `Management` with their runs.
6. `ScheduleTimeProofs`, `SchedulesProofs`.
7. `ManagementProofs`, `InspectionProofs`.
8. `Executions` and `Schedules` composed, where one transaction ends an
   execution and advances the rule, with the head-of-line blocking of a
   dispatch that Jobs rejects for good.
9. `SchedulesStayAlive` for two schedules once finding 2 is settled.

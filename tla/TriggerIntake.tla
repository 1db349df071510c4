--------------------------- MODULE TriggerIntake ---------------------------
(***************************************************************************)
(* receive_event and receive_timer as transactions: the trigger is stored  *)
(* once under its dedupe key, and the rules that it meets get an execution *)
(* each, in the same transaction.                                          *)
(*                                                                         *)
(* A process is one delivery.  Events and timers are delivered again at    *)
(* any time, concurrently too.  The rule commands (module RuleCommands)    *)
(* happen at once, between any two statements, but wait for the rows that  *)
(* a delivery has locked FOR SHARE.  A SELECT ... FOR SHARE at READ        *)
(* COMMITTED takes the rows of one snapshot and then locks them one by     *)
(* one; a row that has changed meanwhile is tested again as it is now, and *)
(* a row that starts to qualify after the snapshot is not found.           *)
(* There is one organization.  MaxCalls, MaxCommands and MaxFaults bound   *)
(* the state space.                                                        *)
(***************************************************************************)
EXTENDS TriggerMatching

CONSTANTS
    Deliveries,    \* [source, caller, request]: what callers send
    RuleIds,
    InitialRules,  \* the rules at the start
    Processes,
    MaxCalls,      \* bound: deliveries
    MaxCommands,   \* bound: rule commands
    MaxFaults      \* bound: failing statements, lost connections, crashes

ASSUME IntakeAssumption ==
    /\ MaxCalls \in Nat /\ MaxCommands \in Nat /\ MaxFaults \in Nat
    /\ \A d \in Deliveries :
        /\ d.source \in {"event", "timer"}
        /\ d.source = "timer" => d.request.rule_id \in RuleIds
    /\ InitialRules \subseteq [RuleIds -> Rows \cup {NoRow}]

VARIABLES
    rules,       \* automation_rules, committed
    triggers,    \* automation_triggers, committed
    executions,  \* automation_executions, committed
    pc, delivery, trigger_id,  \* a delivery, and the id it has made
    found,       \* the rules in the snapshot of its SELECT, not yet locked
    rows,        \* the rows that it has locked
    answer,
    stable,      \* history: the rules that meet the event since it was inserted
    calls, commands, faults

tables == <<rules, triggers, executions>>
local == <<pc, delivery, trigger_id, found, rows, answer, stable>>
vars == <<tables, local, calls, commands, faults>>

NoAnswer == [result |-> "none"]
Labels == {"idle", "admit", "insert", "duplicate", "select", "lock", "commit"}

\* Triggers are stored once per delivery, executions belong to stored
\* triggers, and a process has rows only while it needs them.
TypeOK ==
    /\ rules \in [RuleIds -> Rows \cup {NoRow}]
    /\ \A t \in triggers : t.id \in 1..MaxCalls /\ t.source \in {"event", "timer"}
    /\ \A e \in executions : e.rule \in RuleIds /\ \E t \in triggers : t.id = e.trigger
    /\ pc \in [Processes -> Labels]
    /\ \A p \in Processes :
        /\ pc[p] = "idle" \/ delivery[p] \in Deliveries
        /\ found[p] \subseteq RuleIds
        /\ DOMAIN rows[p] \subseteq RuleIds
        /\ pc[p] \notin {"lock", "commit"} => DOMAIN rows[p] = {}
    /\ calls \in 0..MaxCalls /\ commands \in 0..MaxCommands /\ faults \in 0..MaxFaults

Init ==
    /\ rules \in InitialRules
    /\ triggers = {} /\ executions = {}
    /\ pc = [p \in Processes |-> "idle"]
    /\ delivery = [p \in Processes |-> None]
    /\ trigger_id = [p \in Processes |-> 0]
    /\ found = [p \in Processes |-> {}]
    /\ rows = [p \in Processes |-> <<>>]
    /\ answer = [p \in Processes |-> NoAnswer]
    /\ stable = [p \in Processes |-> {}]
    /\ calls = 0 /\ commands = 0 /\ faults = 0

Goto(p, label) == pc' = [pc EXCEPT ![p] = label]

\* The delivery ends, its transaction is over.
Return(p, result) ==
    /\ Goto(p, "idle")
    /\ answer' = [answer EXCEPT ![p] = result]
    /\ found' = [found EXCEPT ![p] = {}]
    /\ rows' = [rows EXCEPT ![p] = <<>>]
    /\ stable' = [stable EXCEPT ![p] = {}]
    /\ UNCHANGED <<delivery, trigger_id>>

Receipt(accepted, duplicate, ids) ==
    [result |-> "ok", accepted |-> accepted, duplicate |-> duplicate, execution_ids |-> ids]

---------------------------------------------------------------------------
(* A delivery.                                                             *)

Deliver(p) ==
    /\ pc[p] = "idle"
    /\ calls < MaxCalls
    /\ calls' = calls + 1
    /\ \E d \in Deliveries : delivery' = [delivery EXCEPT ![p] = d]
    /\ trigger_id' = [trigger_id EXCEPT ![p] = calls']
    /\ answer' = [answer EXCEPT ![p] = NoAnswer]
    /\ Goto(p, "admit")
    /\ UNCHANGED <<tables, found, rows, stable, commands, faults>>

\* What the plugin checks before it opens a transaction.
Admit(p) ==
    LET d == delivery[p]
    IN  /\ pc[p] = "admit"
        /\ \/ ~ AllowedCaller(d) /\ Return(p, [result |-> "forbidden"])
           \/ /\ AllowedCaller(d) /\ ~ ValidRequest(d)
              /\ Return(p, [result |-> "invalid_request"])
           \/ /\ AllowedCaller(d) /\ ValidRequest(d)
              /\ Goto(p, "insert")
              /\ UNCHANGED <<delivery, trigger_id, found, rows, answer, stable>>
        /\ UNCHANGED <<tables, calls, commands, faults>>

SameTrigger(d, source, key) == d.source = source /\ d.request.dedupe_key = key

\* Between the INSERT of its trigger and the end of its transaction.
Inside(p) == pc[p] \in {"select", "lock", "commit"}

\* Mutant of InsertWaits: a transaction does not see the key of another one.
InsertWaitsNever(p) == FALSE

\* The unique index makes the INSERT wait for a transaction that has inserted
\* the key.
InsertWaits(p) ==
    \E o \in Processes \ {p} :
        /\ Inside(o)
        /\ SameTrigger(delivery[o], delivery[p].source, delivery[p].request.dedupe_key)

Stored(d) == {t \in triggers : SameTrigger(d, t.source, t.dedupe_key)}

\* INSERT INTO automation_triggers ... ON CONFLICT DO NOTHING; the foreign key
\* refuses the timer of a rule that has never been.
InsertTrigger(p) ==
    LET d == delivery[p]
    IN  /\ pc[p] = "insert"
        /\ ~ InsertWaits(p)
        /\ IF d.source = "timer" /\ rules[d.request.rule_id] = NoRow
           THEN Return(p, [result |-> "runtime"])
           ELSE /\ Goto(p, IF Stored(d) = {} THEN "select" ELSE "duplicate")
                /\ stable' = [stable EXCEPT ![p] =
                        {r \in RuleIds : Stored(d) = {} /\ Meets(d, r, rules)}]
                /\ UNCHANGED <<delivery, trigger_id, found, rows, answer>>
        /\ UNCHANGED <<tables, calls, commands, faults>>

\* Mutant of DuplicateOf: the query of existing_trigger_receipt without source.
DuplicateOfAny(d) ==
    {e \in executions :
        \E t \in triggers : t.id = e.trigger /\ t.dedupe_key = d.request.dedupe_key}

\* The executions of the stored trigger.
DuplicateOf(d) ==
    {e \in executions : \E t \in Stored(d) : t.id = e.trigger}

Ids(es) == {<<e.trigger, e.rule>> : e \in es}

\* existing_trigger_receipt.
ReadDuplicate(p) ==
    /\ pc[p] = "duplicate"
    /\ Return(p, Receipt(TRUE, TRUE, Ids(DuplicateOf(delivery[p]))))
    /\ UNCHANGED <<tables, calls, commands, faults>>

\* The rules that the SELECT of a delivery finds.
Selects(d, r) ==
    IF d.source = "event" THEN EventRule(rules[r])
    ELSE r = d.request.rule_id /\ rules[r].state = "active"

\* The snapshot of SELECT ... FOR SHARE.
SelectRules(p) ==
    /\ pc[p] = "select"
    /\ found' = [found EXCEPT ![p] = {r \in RuleIds : Selects(delivery[p], r)}]
    /\ Goto(p, "lock")
    /\ UNCHANGED <<tables, delivery, trigger_id, rows, answer, stable, calls, commands, faults>>

\* Mutant of Requalifies: FOR UPDATE SKIP LOCKED, as in claim_executions.
RequalifiesSkipLocked(p, r) ==
    /\ Selects(delivery[p], r)
    /\ \A o \in Processes \ {p} : r \notin DOMAIN rows[o]

\* The row as it is now still satisfies the WHERE clause.
Requalifies(p, r) == Selects(delivery[p], r)

\* The next row of the snapshot is locked, or dropped.
LockRow(p, r) ==
    /\ pc[p] = "lock"
    /\ r \in found[p]
    /\ found' = [found EXCEPT ![p] = @ \ {r}]
    /\ rows' = IF Requalifies(p, r)
               THEN [rows EXCEPT ![p] = [s \in DOMAIN @ \cup {r} |->
                        IF s = r THEN rules[r] ELSE @[s]]]
               ELSE rows
    /\ UNCHANGED <<tables, pc, delivery, trigger_id, answer, stable, calls, commands, faults>>

RowsLocked(p) ==
    /\ pc[p] = "lock"
    /\ found[p] = {}
    /\ Goto(p, "commit")
    /\ UNCHANGED <<tables, delivery, trigger_id, found, rows, answer, stable,
                   calls, commands, faults>>

\* The locked rows that get an execution.
Fires(p) ==
    {r \in DOMAIN rows[p] :
        IF delivery[p].source = "event" THEN EventFires(rows[p][r], delivery[p].request)
        ELSE TimerFires(rows[p][r], delivery[p].request)}

\* insert_execution, for each of them.
Created(p) ==
    {[trigger |-> trigger_id[p], rule |-> r, revision |-> rows[p][r].revision] : r \in Fires(p)}

\* Mutant of Publish: the trigger is inserted on a connection of its own, and
\* lost.
PublishExecutions(p) ==
    /\ executions' = executions \cup Created(p)
    /\ UNCHANGED <<rules, triggers>>

\* What the transaction makes visible.
Publish(p) ==
    /\ triggers' = triggers \cup {[id |-> trigger_id[p], source |-> delivery[p].source,
                                   dedupe_key |-> delivery[p].request.dedupe_key]}
    /\ executions' = executions \cup Created(p)
    /\ UNCHANGED rules

\* A timer that its rule does not expect is stored all the same.
Commit(p) ==
    /\ pc[p] = "commit"
    /\ Publish(p)
    /\ Return(p, Receipt(delivery[p].source = "event" \/ Fires(p) # {}, FALSE,
                         Ids(Created(p))))
    /\ UNCHANGED <<calls, commands, faults>>

\* A statement fails, or the process or its connection dies.  A COMMIT whose
\* answer is lost may have happened.
Fail(p) ==
    /\ pc[p] \notin {"idle", "admit"}
    /\ faults < MaxFaults
    /\ faults' = faults + 1
    /\ Return(p, [result |-> "runtime"])
    /\ \/ UNCHANGED tables
       \/ pc[p] = "commit" /\ Publish(p)
    /\ UNCHANGED <<calls, commands>>

---------------------------------------------------------------------------
(* The rule commands, and complete_execution.                              *)

\* Mutant of SharedLock: the SELECT without FOR SHARE.
SharedLockNever(r) == FALSE

\* A delivery has locked the rule FOR SHARE, or the foreign key of its trigger
\* has locked it FOR KEY SHARE; the commands and complete_execution lock it
\* FOR UPDATE or change what a foreign key may refer to.
SharedLock(r) ==
    \E p \in Processes :
        \/ r \in DOMAIN rows[p]
        \/ Inside(p) /\ delivery[p].source = "timer" /\ delivery[p].request.rule_id = r

\* The fire times that an enabled schedule may get, from its trigger and the
\* clock (module Schedules).
FireTimes(isEnabled, definition) ==
    IF isEnabled /\ definition.trigger.kind = "schedule" THEN Times ELSE {None}

\* What create_rule, update_rule, set_enabled, delete_rule and
\* complete_execution can make of a row.
Inserted ==
    {new \in {Row(b, d, t, 1) : b \in BOOLEAN, d \in Definitions, t \in Times \cup {None}} :
        new.next_fire_at \in FireTimes(new.enabled, new.definition)}
Edited(row) ==
    UNION {{Row(row.enabled, d, t, row.revision + 1) : t \in FireTimes(row.enabled, d)} :
              d \in Definitions}
Switched(row) ==
    UNION {{Row(b, row.definition, t, row.revision + 1) : t \in FireTimes(b, row.definition)} :
              b \in BOOLEAN}
Removed(row) ==
    [row EXCEPT !.state = "deleted", !.enabled = FALSE, !.next_fire_at = None,
                !.revision = row.revision + 1]
Advanced(row) ==
    {[row EXCEPT !.next_fire_at = t] : t \in {u \in Times : row.next_fire_at # None}}

Changes(row) ==
    CASE row.state = "absent" -> Inserted
      [] row.state = "active" ->
            Edited(row) \cup Switched(row) \cup {Removed(row)} \cup Advanced(row)
      [] row.state = "deleted" -> {}

ChangeRule(r) ==
    /\ commands < MaxCommands
    /\ commands' = commands + 1
    /\ ~ SharedLock(r)
    /\ \E new \in Changes(rules[r]) : rules' = [rules EXCEPT ![r] = new]
    /\ stable' = [p \in Processes |-> {s \in stable[p] : Meets(delivery[p], s, rules')}]
    /\ UNCHANGED <<triggers, executions, pc, delivery, trigger_id, found, rows, answer,
                   calls, faults>>

---------------------------------------------------------------------------
Statement(p) ==
    \/ Admit(p)
    \/ InsertTrigger(p)
    \/ ReadDuplicate(p)
    \/ SelectRules(p)
    \/ \E r \in RuleIds : LockRow(p, r)
    \/ RowsLocked(p)
    \/ Commit(p)

Next ==
    \/ \E p \in Processes : Deliver(p) \/ Statement(p) \/ Fail(p)
    \/ \E r \in RuleIds : ChangeRule(r)

Spec == Init /\ [][Next]_vars

---------------------------------------------------------------------------
(* Properties.                                                             *)

\* However often an event or a timer is delivered, and however deliveries
\* overlap, a rule has at most one execution for it.
OneExecutionPerRule ==
    \A e, f \in executions :
        /\ e.rule = f.rule
        /\ \E t, u \in triggers : /\ t.id = e.trigger /\ u.id = f.trigger
                                  /\ t.source = u.source /\ t.dedupe_key = u.dedupe_key
        => e = f

ExecutionsOf(d) ==
    {e \in executions : \E t \in triggers :
        t.id = e.trigger /\ t.source = d.source /\ t.dedupe_key = d.request.dedupe_key}

\* Every delivery that is answered, the first or a later one, learns all the
\* executions of its trigger and no others, also when later commands change
\* the rules.
AnswerNamesExecutions ==
    \A p \in Processes :
        answer[p].result = "ok" => answer[p].execution_ids = Ids(ExecutionsOf(delivery[p]))

\* An execution comes into being from the revision that its rule has at that
\* moment, enabled and waiting for this trigger: the rule cannot be changed,
\* disabled or deleted between the match and the commit.
CommitIsCurrent ==
    [][\A e \in executions' \ executions :
        /\ rules[e.rule].revision = e.revision
        /\ \E p \in Processes :
            trigger_id[p] = e.trigger /\ Meets(delivery[p], e.rule, rules)]_vars

\* No rule is overlooked: one that meets the trigger from its insertion to the
\* commit has an execution, whatever commands there were meanwhile.
StableRuleFires ==
    [][\A p \in Processes :
        (\E t \in triggers' \ triggers : t.id = trigger_id[p]) =>
            stable[p] \subseteq {e.rule : e \in executions' \ executions}]_vars

---------------------------------------------------------------------------
(* The transactions are as good as deliveries that are taken at once.      *)

ExecutionsByRule(t) ==
    {[rule |-> e.rule, revision |-> e.revision] : e \in {f \in executions : f.trigger = t.id}}

\* The two tables as one ledger.
Ledger ==
    {[source |-> t.source, dedupe_key |-> t.dedupe_key, executions |-> ExecutionsByRule(t)] :
        t \in triggers}

Contract == INSTANCE IntakeContract WITH ledger <- Ledger

\* A trigger and all its executions come together, once, from an admitted
\* delivery and from rules as they are then; nothing is added to them or taken
\* away later, by redeliveries, commands or lost commits.
ImplementsContract == Contract!Spec
===========================================================================

--------------------------- MODULE RuleCommands ---------------------------
(***************************************************************************)
(* The commands create_rule, update_rule, set_rule_enabled and delete_rule *)
(* as transactions on automation_rules and automation_commands.            *)
(*                                                                         *)
(* A process is one invocation.  Each statement that may wait for another  *)
(* transaction, or that reads what a later one relies on, is an action;    *)
(* what a transaction writes is seen by others when it commits.  The locks *)
(* are those of PostgreSQL at READ COMMITTED: a reserved key, a locked or  *)
(* changed row and an entry of a unique index make others wait until the   *)
(* transaction ends.  What is abstracted:                                  *)
(*  - a request is a record of the fields that the statements look at, its *)
(*    hash is the request;                                                 *)
(*  - a key stands for caller, actor, operation and idempotency key;       *)
(*  - there is one organization, and next_fire_at is "armed" or NULL: its  *)
(*    value and the dispatch ledger are in module Schedules;               *)
(*  - a caller may send any request at any time, so that a retry is a      *)
(*    second call with the same request.                                   *)
(* MaxCalls and MaxFaults bound the state space.                           *)
(***************************************************************************)
EXTENDS Naturals, FiniteSets

CONSTANTS Requests,   \* what callers send
          RuleIds,
          Keys,
          Processes,  \* concurrent invocations
          NoName,     \* no name yet
          MaxCalls,   \* bound: invocations
          MaxFaults   \* bound: failing statements, lost connections, crashes

ASSUME RequestsAssumption ==
    /\ MaxCalls \in Nat /\ MaxFaults \in Nat
    /\ IsFiniteSet(Keys)
    /\ \A q \in Requests :
        /\ q.key \in Keys /\ q.rule \in RuleIds
        /\ q.op \in {"create", "update", "set_enabled", "delete"}
        /\ q.op \in {"create", "update"} =>
            q.trigger \in {"event", "schedule"} /\ q.name # NoName
        /\ q.op \in {"create", "set_enabled"} => q.enabled \in BOOLEAN
        /\ q.op # "create" => q.expected_revision \in Nat \ {0}
    /\ \A p, q \in Requests : p.key = q.key => p.op = q.op

VARIABLES
    rules,     \* automation_rules, committed
    commands,  \* automation_commands, committed
    pc,        \* the statement an invocation is at
    request,   \* its request
    seen,      \* the row that its SELECT ... FOR UPDATE has returned
    row,       \* the row that it has written and not committed
    answer,    \* what it returns
    calls,     \* calls so far
    faults     \* faults so far

tables == <<rules, commands>>
local == <<pc, request, seen, row, answer>>
vars == <<tables, local, calls, faults>>

\* A row of automation_rules.
Row(state, name, enabled, trigger, armed, revision) ==
    [state |-> state, name |-> name, enabled |-> enabled,
     trigger |-> trigger, armed |-> armed, revision |-> revision]

NoRule == Row("absent", NoName, FALSE, "event", FALSE, 0)
NoRequest == [op |-> "none"]
NoCommand == [request |-> NoRequest]
NoAnswer == [result |-> "none"]
Runtime == [result |-> "runtime"]

Named == {q \in Requests : q.op \in {"create", "update"}}
Names == {q.name : q \in Named} \cup {NoName}
Rows == [state : {"absent", "active", "deleted"},
         name : Names,
         enabled : BOOLEAN, trigger : {"event", "schedule"}, armed : BOOLEAN,
         revision : Nat]
Responses == Rows \cup {[deleted |-> TRUE]}
Errors == {"idempotency_conflict", "not_found", "revision_conflict",
           "rule_id_conflict", "rule_name_conflict", "runtime", "none"}
Answers == [result : {"ok"}, body : Responses] \cup [result : Errors]

TableType ==
    /\ rules \in [RuleIds -> Rows]
    /\ commands \in [Keys -> [request : Requests, response : Responses] \cup {NoCommand}]

LocalType ==
    /\ pc \in [Processes -> {"idle", "reserve", "lock", "write", "name",
                             "inspect", "commit", "flush"}]
    /\ request \in [Processes -> Requests \cup {NoRequest}]
    /\ seen \in [Processes -> Rows]
    /\ row \in [Processes -> Rows]
    /\ answer \in [Processes -> Answers]

\* Rows, ledger entries and answers have their shape.
TypeOK ==
    /\ TableType
    /\ LocalType
    /\ calls \in 0..MaxCalls
    /\ faults \in 0..MaxFaults

Init ==
    /\ rules = [r \in RuleIds |-> NoRule]
    /\ commands = [k \in Keys |-> NoCommand]
    /\ pc = [p \in Processes |-> "idle"]
    /\ request = [p \in Processes |-> NoRequest]
    /\ seen = [p \in Processes |-> NoRule]
    /\ row = [p \in Processes |-> NoRule]
    /\ answer = [p \in Processes |-> NoAnswer]
    /\ calls = 0
    /\ faults = 0

Goto(p, label) == pc' = [pc EXCEPT ![p] = label]

\* The invocation ends with an answer; its transaction is over and forgotten.
Return(p, result) ==
    /\ Goto(p, "idle")
    /\ answer' = [answer EXCEPT ![p] = result]
    /\ seen' = [seen EXCEPT ![p] = NoRule]
    /\ row' = [row EXCEPT ![p] = NoRule]
    /\ UNCHANGED request

\* A Domain failure: the transaction is dropped, its reservation with it.
Reject(p, error) == Return(p, [result |-> error])

\* The response is fixed; all commands but delete_rule flush before they
\* return it.
Succeed(p, response) ==
    /\ Goto(p, IF request[p].op = "delete" THEN "idle" ELSE "flush")
    /\ answer' = [answer EXCEPT ![p] = [result |-> "ok", body |-> response]]
    /\ seen' = [seen EXCEPT ![p] = NoRule]
    /\ row' = [row EXCEPT ![p] = NoRule]
    /\ UNCHANGED request

---------------------------------------------------------------------------
(* What makes a statement wait.  A statement that writes a row takes the   *)
(* row, or the primary key, first and the name after it.                   *)

\* p's transaction has reserved key k.
Reserved(p, k) ==
    pc[p] \in {"lock", "write", "name", "inspect", "commit"} /\ request[p].key = k

\* p's transaction has changed rule r.
Changed(p, r) == pc[p] \in {"name", "commit"} /\ request[p].rule = r

\* p's transaction has changed rule r or locked it FOR UPDATE.
Holds(p, r) ==
    \/ Changed(p, r)
    \/ pc[p] = "write" /\ request[p].rule = r /\ request[p].op \in {"update", "set_enabled"}

\* Mutant of Locked: the lock is taken on another connection of the pool, so
\* that the transaction itself waits for it.
LockedByItself(p, o, r) == Holds(o, r)

\* Another transaction, o's, has changed the rule or locked it.
Locked(p, o, r) == o # p /\ Holds(o, r)

\* Mutant of RowWaits: the row is read without FOR UPDATE and written back as
\* a whole.
RowWaitsNever(p, o, found) == FALSE

\* A statement waits for a row only if its WHERE clause has found it.
RowWaits(p, o, found) == found /\ Locked(p, o, request[p].rule)

\* Mutant of NameHeld: a name is looked up, not reserved in an index.
NameHeldNever(o, n) == FALSE

\* Mutant of NameHeld: the index is on the organization, without the name.
NameHeldByAnyChange(o, n) == \E r \in RuleIds : Changed(o, r)

\* automation_rules_active_name_key, for rules that are not deleted: o's open
\* transaction has given the name to a rule, or is changing the rule that has
\* it.
NameHeld(o, n) ==
    \E r \in RuleIds :
        /\ Changed(o, r)
        /\ \/ pc[o] = "commit" /\ row[o].state = "active" /\ row[o].name = n
           \/ rules[r].state = "active" /\ rules[r].name = n

NameTaken(r, n) ==
    \E s \in RuleIds \ {r} : rules[s].state = "active" /\ rules[s].name = n

\* Mutant of RevisionIs: the UPDATE without "revision=$3".
RevisionIsAny(q) == rules[q.rule].state = "active"

\* The WHERE clause of the three UPDATE statements.
RevisionIs(q) ==
    rules[q.rule].state = "active" /\ rules[q.rule].revision = q.expected_revision

\* The next statement of p, or the rest of it, waits for o's transaction.
WaitsFor(p, o) ==
    LET q == request[p]
    IN  \/ pc[p] = "reserve" /\ o # p /\ Reserved(o, q.key)
        \/ pc[p] = "lock" /\ RowWaits(p, o, rules[q.rule].state = "active")
        \/ pc[p] = "write" /\ q.op = "create" /\ o # p /\ Changed(o, q.rule)
        \/ pc[p] = "write" /\ q.op # "create" /\ RowWaits(p, o, RevisionIs(q))
        \/ pc[p] = "name" /\ o # p /\ NameHeld(o, row[p].name)

Ready(p) == \A o \in Processes : ~ WaitsFor(p, o)

\* The transactions of C wait for each other in a ring, or in several that are
\* linked: from each of them one gets to each other.
Ring(C) ==
    /\ \E p, o \in C : p # o
    /\ \A D \in SUBSET C : D \notin {{}, C} => \E p \in D, o \in C \ D : WaitsFor(p, o)

---------------------------------------------------------------------------
(* The statements.                                                         *)

Call(p) ==
    /\ pc[p] = "idle"
    /\ calls < MaxCalls
    /\ calls' = calls + 1
    /\ \E q \in Requests : request' = [request EXCEPT ![p] = q]
    /\ Goto(p, "reserve")
    /\ answer' = [answer EXCEPT ![p] = NoAnswer]
    /\ UNCHANGED <<tables, seen, row, faults>>

\* Mutant of CommandStart: a command found in the ledger is run again.
CommandStartAgain(q) ==
    IF commands[q.key] = NoCommand \/ commands[q.key].request = q THEN "new" ELSE "conflict"

\* Mutant of CommandStart: the hash is not compared.
CommandStartUnhashed(q) ==
    IF commands[q.key] = NoCommand THEN "new" ELSE "replay"

\* What reserve_command finds.  A row of the ledger has its response, as both
\* are written by one transaction.
CommandStart(q) ==
    IF commands[q.key] = NoCommand THEN "new"
    ELSE IF commands[q.key].request = q THEN "replay"
    ELSE "conflict"

\* reserve_command: the INSERT waits for a transaction that has inserted the
\* same key.
ReserveCommand(p) ==
    LET q == request[p]
    IN  /\ pc[p] = "reserve"
        /\ Ready(p)
        /\ \/ /\ CommandStart(q) = "new"
              /\ Goto(p, IF q.op \in {"update", "set_enabled"} THEN "lock" ELSE "write")
              /\ UNCHANGED <<request, seen, row, answer>>
           \/ /\ CommandStart(q) = "replay"
              /\ Succeed(p, commands[q.key].response)
           \/ /\ CommandStart(q) = "conflict"
              /\ Reject(p, "idempotency_conflict")
        /\ UNCHANGED <<tables, calls, faults>>

\* SELECT enabled (trigger) ... FOR UPDATE in update_rule and set_enabled.
LockRule(p) ==
    LET rule == rules[request[p].rule]
    IN  /\ pc[p] = "lock"
        /\ Ready(p)
        /\ IF rule.state = "active"
           THEN /\ seen' = [seen EXCEPT ![p] = rule]
                /\ Goto(p, "write")
                /\ UNCHANGED <<request, row, answer>>
           ELSE Reject(p, "not_found")
        /\ UNCHANGED <<tables, calls, faults>>

\* Whether initial_next_fire returns a time.
Armed(trigger, isEnabled) == isEnabled /\ trigger = "schedule"

\* The statement has written the row and goes on to its name.
Save(p, new) ==
    /\ row' = [row EXCEPT ![p] = new]
    /\ Goto(p, "name")
    /\ UNCHANGED <<request, seen, answer>>

\* INSERT INTO automation_rules.  The primary key waits for, and conflicts
\* with, a rule of any state.
InsertRule(p) ==
    LET q == request[p]
    IN  /\ pc[p] = "write" /\ q.op = "create"
        /\ Ready(p)
        /\ IF rules[q.rule].state # "absent"
           THEN Reject(p, "rule_id_conflict")
           ELSE Save(p, Row("active", q.name, q.enabled, q.trigger,
                            Armed(q.trigger, q.enabled), 1))
        /\ UNCHANGED <<tables, calls, faults>>

\* UPDATE ... SET name, trigger, next_fire_at of update_rule: next_fire_at is
\* computed from the enabled that was read before.
UpdateRule(p) ==
    LET q == request[p]
        old == rules[q.rule]
    IN  /\ pc[p] = "write" /\ q.op = "update"
        /\ Ready(p)
        /\ IF RevisionIs(q)
           THEN Save(p, Row("active", q.name, old.enabled, q.trigger,
                            Armed(q.trigger, seen[p].enabled), old.revision + 1))
           ELSE Reject(p, "revision_conflict")
        /\ UNCHANGED <<tables, calls, faults>>

\* UPDATE ... SET enabled, next_fire_at of set_enabled, from the trigger read.
SetEnabled(p) ==
    LET q == request[p]
        old == rules[q.rule]
    IN  /\ pc[p] = "write" /\ q.op = "set_enabled"
        /\ Ready(p)
        /\ IF RevisionIs(q)
           THEN Save(p, Row("active", old.name, q.enabled, old.trigger,
                            Armed(seen[p].trigger, q.enabled), old.revision + 1))
           ELSE Reject(p, "revision_conflict")
        /\ UNCHANGED <<tables, calls, faults>>

\* The rest of the statement that has written the row: the row enters the
\* unique index of names, unless its name belongs to another rule.
TakeName(p) ==
    /\ pc[p] = "name"
    /\ Ready(p)
    /\ IF NameTaken(request[p].rule, row[p].name)
       THEN Reject(p, "rule_name_conflict")
       ELSE /\ Goto(p, "commit")
            /\ UNCHANGED <<request, seen, row, answer>>
    /\ UNCHANGED <<tables, calls, faults>>

\* UPDATE ... SET deleted_at of delete_rule.  The index has a deleted rule
\* under the time of its deletion, where it is in nobody's way.
DeleteRule(p) ==
    LET q == request[p]
        old == rules[q.rule]
    IN  /\ pc[p] = "write" /\ q.op = "delete"
        /\ Ready(p)
        /\ IF RevisionIs(q)
           THEN /\ row' = [row EXCEPT ![p] =
                        Row("deleted", old.name, FALSE, old.trigger, FALSE, old.revision + 1)]
                /\ Goto(p, "commit")
           ELSE /\ Goto(p, "inspect")
                /\ UNCHANGED row
        /\ UNCHANGED <<tables, request, seen, answer, calls, faults>>

\* SELECT EXISTS(...) of delete_rule, after the UPDATE has found nothing.
InspectDeleteConflict(p) ==
    /\ pc[p] = "inspect"
    /\ Reject(p, IF rules[request[p].rule].state = "active"
                 THEN "revision_conflict" ELSE "not_found")
    /\ UNCHANGED <<tables, calls, faults>>

\* Mutant of Response: complete_command is left out.
ResponseForgotten(p) == NoAnswer

\* What the commands answer, and store in the ledger.
Response(p) == IF request[p].op = "delete" THEN [deleted |-> TRUE] ELSE row[p]

\* What the transaction makes visible.
Publish(p) ==
    /\ rules' = [rules EXCEPT ![request[p].rule] = row[p]]
    /\ commands' = [commands EXCEPT ![request[p].key] =
            [request |-> request[p], response |-> Response(p)]]

\* replace_pending_schedule, complete_command and COMMIT.
Commit(p) ==
    /\ pc[p] = "commit"
    /\ Publish(p)
    /\ Succeed(p, Response(p))
    /\ UNCHANGED <<calls, faults>>

\* flush_schedules succeeds.
Flush(p) ==
    /\ pc[p] = "flush"
    /\ Goto(p, "idle")
    /\ UNCHANGED <<tables, request, seen, row, answer, calls, faults>>

\* PostgreSQL aborts a transaction that waits in a ring; the statement fails.
AbortDeadlock(p) ==
    /\ \E C \in SUBSET Processes : p \in C /\ Ring(C)
    /\ Return(p, Runtime)
    /\ UNCHANGED <<tables, calls, faults>>

\* A statement or the flush fails, or the process or its connection dies.  A
\* COMMIT whose answer is lost may have happened.
Fail(p) ==
    /\ pc[p] # "idle"
    /\ faults < MaxFaults
    /\ faults' = faults + 1
    /\ Return(p, Runtime)
    /\ \/ UNCHANGED tables
       \/ pc[p] = "commit" /\ Publish(p)
    /\ UNCHANGED calls

---------------------------------------------------------------------------
Statement(p) ==
    \/ ReserveCommand(p)
    \/ LockRule(p)
    \/ InsertRule(p)
    \/ UpdateRule(p)
    \/ SetEnabled(p)
    \/ TakeName(p)
    \/ DeleteRule(p)
    \/ InspectDeleteConflict(p)
    \/ Commit(p)
    \/ Flush(p)

Next == \E p \in Processes : Call(p) \/ Statement(p) \/ AbortDeadlock(p) \/ Fail(p)

Spec == Init /\ [][Next]_vars

\* A statement that need not wait is executed, a wait queue is served and a
\* deadlock is detected.
FairSpec ==
    Spec /\ \A p \in Processes : SF_vars(Statement(p)) /\ WF_vars(AbortDeadlock(p))

---------------------------------------------------------------------------
(* Properties.                                                             *)

\* No update is lost and none happens twice: the revision of a rule is the
\* number of commands in the ledger that have changed it, whatever retries,
\* conflicts and lost commits there were.
RevisionCountsCommands ==
    \A r \in RuleIds :
        rules[r].revision = Cardinality({k \in Keys :
            commands[k] # NoCommand /\ commands[k].request.rule = r})

\* Two rules that are not deleted never have one name, although each command
\* sees only what others have committed.
NamesUnique ==
    \A r, s \in RuleIds :
        r # s /\ rules[r].state = "active" /\ rules[s].state = "active" =>
            rules[r].name # rules[s].name

\* A success that a caller is told is durable and is the success of its own
\* request: the ledger has it, with this request and this response.
AnswerIsDurable ==
    \A p \in Processes : answer[p].result = "ok" =>
        commands[request[p].key] = [request |-> request[p], response |-> answer[p].body]

\* A retry finds its response: an invocation whose request has been committed,
\* by an earlier call or while it waited, does not end with a Domain error.
RetryFindsResponse ==
    [][\A p \in Processes :
        answer'[p] # answer[p] /\ answer'[p].result \notin {"none", "ok", "runtime"} =>
            commands[request[p].key].request # request[p]]_vars

\* Keys, rows and the locks between the statements never make transactions wait
\* for each other in a ring.  Only names do: in a ring there are only updates
\* that rename, each to the name that the rule of another one has.
OnlyRenamesDeadlock ==
    \A C \in SUBSET Processes : Ring(C) =>
        \A p \in C :
            /\ pc[p] = "name" /\ request[p].op = "update"
            /\ row[p].name # rules[request[p].rule].name
            /\ \E o \in C : rules[request[o].rule].name = row[p].name

\* Whatever keys, rows and names it has to wait for, every invocation returns.
EveryCallReturns ==
    \A p \in Processes : pc[p] = "reserve" ~> pc[p] = "idle"

---------------------------------------------------------------------------
(* The transactions are as good as commands that happen at once.           *)

Register == INSTANCE RuleRegister

\* The committed tables implement RuleRegister.
ImplementsRegister == Register!Spec
===========================================================================

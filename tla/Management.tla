---------------------------- MODULE Management ----------------------------
(***************************************************************************)
(* The way of a call into the plugin and back: the configured callers, the *)
(* actor's assertion, membership and permission, validation, the prepared  *)
(* database, the answer, and the agent tools in front of it; with the      *)
(* pages of list_rules, and with activation and deactivation of the        *)
(* plugin.  What a call does in the database is in the other modules; here *)
(* a rule is its row_seq and whether it is enabled.                        *)
(*                                                                         *)
(* A process is a client that makes one call after the other, directly or  *)
(* through the agent tools, and follows the cursors of list_rules.         *)
(* Membership, access control and the Host of the tools are external.      *)
(* Simplifications: one organization and one actor; the assertion and the  *)
(* request of a call are given by what the checks find in them; a key is   *)
(* used once, so that no command is replayed; an Instance is activated     *)
(* once.                                                                   *)
(* MaxCalls, MaxRules, MaxGrants and MaxFaults bound the state space.      *)
(***************************************************************************)
EXTENDS RuleLanguage, SequencesExt

CONSTANTS
    Configs,     \* the configurations that are tried
    Calls,       \* [operation, via, caller, assertion, request, enabled]
    FirstRules,  \* row_seq of the rules at the start, enabled
    Clients,
    PageLimit,   \* limit of list_rules
    MaxCalls,    \* bound: calls
    MaxRules,    \* bound: row_seq
    MaxGrants,   \* bound: changes of membership and permissions
    MaxFaults    \* bound: failing calls and statements

ASSUME ManagementAssumption ==
    /\ PageLimit \in 1..100
    /\ MaxCalls \in Nat /\ MaxRules \in Nat /\ MaxGrants \in Nat /\ MaxFaults \in Nat
    /\ \E n \in 0..MaxRules : FirstRules = 1..n

VARIABLES
    config,     \* the configuration
    plugin,     \* loaded, refused, inactive, active, closing, ended
    grants,     \* what membership and access control would answer now
    rows,       \* automation_rules, committed, by row_seq
    next_seq,   \* the identity sequence of row_seq
    pc, call,   \* the call of a client
    seq,        \* the row_seq that its INSERT has taken
    held,       \* history: the grants held at some time since the call began
    written,    \* history: the call has changed the rules
    answer,     \* what the client was told
    paging,     \* [cursor, listed, stable, state] of list_rules; stable is history
    calls, granted, faults

client == <<pc, call, seq, held, written, answer, paging>>
bounds == <<calls, granted, faults>>
vars == <<config, plugin, grants, rows, next_seq, client, bounds>>

Reads == {"get_rule", "list_rules", "inspect_execution"}
Commands == {"create_rule", "update_rule", "set_rule_enabled", "delete_rule"}
Other == {"receive_event", "receive_timer", "reconcile"}

\* Every call is of an operation of the capability; list_rules may have no
\* filter, the commands that write enabled say what it becomes.
ASSUME CallsAssumption ==
    \A c \in Calls :
        /\ c.operation \in Reads \cup Commands \cup Other
        /\ c.enabled \in {"enabled", "disabled", None}
        /\ c.operation \in {"create_rule", "set_rule_enabled"} => c.enabled # None

\* The list of callers that an operation is open to.
Role(operation) ==
    CASE operation \in Reads \cup Commands -> "admin_callers"
      [] operation = "receive_event" -> "event_callers"
      [] operation = "receive_timer" -> "timer_callers"
      [] operation = "reconcile" -> "execution_callers"
Roles == {"admin_callers", "event_callers", "timer_callers", "execution_callers"}

\* The permission that a management operation asks for.
Permission(operation) ==
    IF operation \in Reads THEN "projects.automation.read" ELSE "projects.automation.manage"
Grants == {"member", "projects.automation.read", "projects.automation.manage"}

Domain == {"unauthenticated", "forbidden", "invalid_request", "not_found",
           "revision_conflict", "idempotency_conflict", "rule_id_conflict",
           "rule_name_conflict"}
ToolErrors == {"invalid_arguments", "not_found", "permission_denied", "execution_failed"}

NoPaging == [state |-> "none", cursor |-> 0, listed |-> <<>>, stable |-> {}]
Working == {"admit", "membership", "access", "validate", "begin", "commit", "flush"}
Open(p) == pc[p] = "commit" /\ call[p].operation = "create_rule"

\* Clients are at a point of a call, and a row_seq is given once.
TypeOK ==
    /\ config \in Configs
    /\ plugin \in {"loaded", "refused", "inactive", "active", "closing", "ended"}
    /\ grants \subseteq Grants
    /\ rows \in [1..MaxRules -> {"absent", "enabled", "disabled", "deleted"}]
    /\ pc \in [Clients -> {"idle"} \cup Working]
    /\ answer \in [Clients -> {"none", "ok", "runtime"} \cup Domain \cup ToolErrors]
    /\ \A p \in Clients : Open(p) =>
        /\ rows[seq[p]] = "absent"
        /\ \A o \in Clients : o # p /\ Open(o) => seq[o] # seq[p]
    /\ \A p \in Clients : held[p] \subseteq Grants /\ written[p] \in BOOLEAN
    /\ calls \in 0..MaxCalls /\ granted \in 0..MaxGrants /\ faults \in 0..MaxFaults

Init ==
    /\ config \in Configs
    /\ plugin = "loaded"
    /\ grants = Grants
    /\ rows = [s \in 1..MaxRules |-> IF s \in FirstRules THEN "enabled" ELSE "absent"]
    /\ next_seq = Cardinality(FirstRules) + 1
    /\ pc = [p \in Clients |-> "idle"]
    /\ call = [p \in Clients |-> None]
    /\ seq = [p \in Clients |-> 0]
    /\ held = [p \in Clients |-> {}]
    /\ written = [p \in Clients |-> FALSE]
    /\ answer = [p \in Clients |-> "none"]
    /\ paging = [p \in Clients |-> NoPaging]
    /\ calls = 0 /\ granted = 0 /\ faults = 0

---------------------------------------------------------------------------
(* Configuration and lifecycle.                                            *)

\* 1 to 64 unique Instance keys.
valid_callers(values) ==
    /\ Len(values) \in 1..64
    /\ \A i \in DOMAIN values : valid_id(values[i])
    /\ IsInjective(values)

\* No caller is in two lists.
disjoint_callers(c) ==
    \A q, r \in Roles : q # r => ToSet(c[q]) \cap ToSet(c[r]) = {}

validate(c) ==
    /\ \A f \in {"schema", "database_url_secret", "auth_issuer",
                 "auth_assertion_public_key", "jobs_queue"} : valid_id(c[f])
    /\ \A r \in Roles : valid_callers(c[r])
    /\ disjoint_callers(c)
    /\ c.execution_lease_seconds \in 30..3600
    /\ c.job_max_attempts \in 1..100
    /\ c.max_reconcile_items \in 1..100

\* The Host validates the configuration before it makes the Instance.
Load ==
    /\ plugin = "loaded"
    /\ plugin' = IF validate(config) THEN "inactive" ELSE "refused"
    /\ UNCHANGED <<config, grants, rows, next_seq, client, bounds>>

\* activate resolves the database secret and prepares the pool; if either
\* fails, the plugin stays as it is.
Activate ==
    /\ plugin = "inactive"
    /\ plugin' = "active"
    /\ UNCHANGED <<config, grants, rows, next_seq, client, bounds>>

\* deactivate takes the prepared state away.
Deactivate ==
    /\ plugin = "active"
    /\ plugin' = "closing"
    /\ UNCHANGED <<config, grants, rows, next_seq, client, bounds>>

\* Mutant of PoolDrained: the pool is dropped and not closed.
PoolDropped == TRUE

\* pool().close() waits for the connections that are in use.
PoolDrained == \A p \in Clients : pc[p] # "commit"

ClosePool ==
    /\ plugin = "closing"
    /\ PoolDrained
    /\ plugin' = "ended"
    /\ UNCHANGED <<config, grants, rows, next_seq, client, bounds>>

\* Membership or a permission is given or taken away.
ChangeGrants ==
    /\ granted < MaxGrants
    /\ granted' = granted + 1
    /\ \E g \in Grants : grants' = IF g \in grants THEN grants \ {g} ELSE grants \cup {g}
    /\ held' = [p \in Clients |-> IF pc[p] = "idle" THEN held[p] ELSE held[p] \cup grants']
    /\ UNCHANGED <<config, plugin, rows, next_seq, pc, call, seq, written, answer, paging, calls, faults>>

---------------------------------------------------------------------------
(* The agent tools.                                                        *)

\* The tools with ToolExecutionClass::ParallelSafe; the others are Exclusive.
ParallelSafe == Reads

Tools == Reads \cup Commands

\* The Host of the tools runs an exclusive tool alone.
MayStart(c) ==
    c.via = "tool" => \A o \in Clients :
        pc[o] # "idle" /\ call[o].via = "tool" =>
            c.operation \in ParallelSafe /\ call[o].operation \in ParallelSafe

\* to_tool_error.
ToolAnswer(result) ==
    CASE result = "invalid_request" -> "invalid_arguments"
      [] result \in {"forbidden", "unauthenticated"} -> "permission_denied"
      [] result \in {"revision_conflict", "idempotency_conflict", "rule_id_conflict",
                     "rule_name_conflict"} -> "execution_failed"
      [] OTHER -> result

---------------------------------------------------------------------------
(* A call.                                                                 *)

Goto(p, label) == pc' = [pc EXCEPT ![p] = label]

\* The client is answered.
Answer(p, result) ==
    /\ Goto(p, "idle")
    /\ answer' = [answer EXCEPT ![p] =
            IF call[p].via = "tool" THEN ToolAnswer(result) ELSE result]
    /\ seq' = [seq EXCEPT ![p] = 0]
    /\ held' = [held EXCEPT ![p] = {}]
    /\ UNCHANGED call

\* The same for a call that did nothing; a list that fails begins again.
Refuse(p, result) ==
    /\ Answer(p, result)
    /\ paging' = [paging EXCEPT ![p] = NoPaging]
    /\ UNCHANGED written

\* A new call; the same list_rules goes on at the cursor that the client has.
Call(p) ==
    /\ pc[p] = "idle"
    /\ plugin \notin {"loaded", "refused"}
    /\ calls < MaxCalls
    /\ calls' = calls + 1
    /\ \E c \in Calls :
        /\ MayStart(c)
        /\ call' = [call EXCEPT ![p] = c]
        /\ paging' = IF paging[p].state = "open" /\ c = call[p] THEN paging
                     ELSE [paging EXCEPT ![p] = NoPaging]
    /\ Goto(p, "admit")
    /\ held' = [held EXCEPT ![p] = grants]
    /\ written' = [written EXCEPT ![p] = FALSE]
    /\ answer' = [answer EXCEPT ![p] = "none"]
    /\ UNCHANGED <<config, plugin, grants, rows, next_seq, seq, granted, faults>>

allowed_caller(c) == c.caller \in ToSet(config[Role(c.operation)])

\* The assertion is of the configured issuer, for this operation, and valid now.
project_context(c) == c.assertion = c.operation

\* The tool decodes its arguments, and the plugin looks at the caller, at the
\* assertion and at the ids.  What receive_event, receive_timer and reconcile
\* do then is in other modules.
Admit(p) ==
    LET c == call[p]
        asserted == c.operation \notin {"receive_event", "receive_timer"}
        refusal == IF c.request = "malformed" THEN "invalid_request"
                   ELSE IF ~ allowed_caller(c) THEN "forbidden"
                   ELSE IF asserted /\ ~ project_context(c) THEN "unauthenticated"
                   ELSE IF asserted /\ c.request = "bad_id" THEN "forbidden"
                   ELSE "none"
    IN  /\ pc[p] = "admit"
        /\ IF refusal # "none"
           THEN Refuse(p, refusal)
           ELSE IF c.operation \in Tools
           THEN /\ Goto(p, "membership")
                /\ UNCHANGED <<call, seq, held, written, answer, paging>>
           ELSE Refuse(p, "ok")
        /\ UNCHANGED <<config, plugin, grants, rows, next_seq, bounds>>

Fault == faults < MaxFaults /\ faults' = faults + 1

\* Mutant of CheckFails: a dependency that rejects the question is passed over.
CheckFailsOpen(p) ==
    /\ Goto(p, IF pc[p] = "membership" THEN "access" ELSE "validate")
    /\ UNCHANGED <<call, seq, held, written, answer, paging>>

\* A Runtime failure of a check, and a Domain error as a ProtocolViolation.
CheckFails(p) == Refuse(p, "runtime")

\* check_membership and check_permission.
Check(p, label, grant, next) ==
    /\ pc[p] = label
    /\ \/ /\ grant \in grants
          /\ Goto(p, next)
          /\ UNCHANGED <<call, seq, held, written, answer, paging, faults>>
       \/ grant \notin grants /\ Refuse(p, "forbidden") /\ UNCHANGED faults
       \/ Fault /\ CheckFails(p)
    /\ UNCHANGED <<config, plugin, grants, rows, next_seq, calls, granted>>

CheckMembership(p) == Check(p, "membership", "member", "access")
CheckPermission(p) == Check(p, "access", Permission(call[p].operation), "validate")

\* The request is validated, and the prepared pool is cloned.
Validate(p) ==
    /\ pc[p] = "validate"
    /\ \/ call[p].request = "invalid" /\ Refuse(p, "invalid_request")
       \/ call[p].request # "invalid" /\ plugin # "active" /\ Refuse(p, "runtime")
       \/ /\ call[p].request # "invalid" /\ plugin = "active"
          /\ Goto(p, "begin")
          /\ UNCHANGED <<call, seq, held, written, answer, paging>>
    /\ UNCHANGED <<config, plugin, grants, rows, next_seq, bounds>>

\* Mutant of NextSeq: one more than the last row that is committed.
NextSeqCommitted ==
    1 + Cardinality({s \in DOMAIN rows : rows[s] # "absent"})

\* GENERATED ALWAYS AS IDENTITY: a number that is taken is never given again,
\* also when its transaction is rolled back.
NextSeq == next_seq

\* A command begins its transaction; that of create_rule takes a row_seq.
Begin(p) ==
    /\ pc[p] = "begin"
    /\ call[p].operation \in Commands
    /\ IF plugin # "active"
       THEN Refuse(p, "runtime") /\ UNCHANGED next_seq
       ELSE /\ Goto(p, "commit")
            /\ IF call[p].operation = "create_rule"
               THEN /\ NextSeq <= MaxRules
                    /\ seq' = [seq EXCEPT ![p] = NextSeq]
                    /\ next_seq' = next_seq + 1
               ELSE UNCHANGED <<seq, next_seq>>
            /\ UNCHANGED <<call, held, written, answer, paging>>
    /\ UNCHANGED <<config, plugin, grants, rows, bounds>>

Active == {s \in DOMAIN rows : rows[s] \in {"enabled", "disabled"}}

\* The rules that list_rules may show with the filter of a request.
Matching(filter, table) ==
    {s \in DOMAIN table :
        IF filter = None THEN table[s] \in {"enabled", "disabled"} ELSE table[s] = filter}

\* The tables after the command.
Effects(p) ==
    LET c == call[p]
    IN  CASE c.operation = "create_rule" -> {[rows EXCEPT ![seq[p]] = c.enabled]}
          [] c.operation = "update_rule" -> {rows}
          [] c.operation = "set_rule_enabled" ->
                {[rows EXCEPT ![s] = c.enabled] : s \in Active}
          [] c.operation = "delete_rule" -> {[rows EXCEPT ![s] = "deleted"] : s \in Active}

\* COMMIT, and what it means for the clients that follow cursors.
Apply(p) ==
    /\ rows' \in Effects(p)
    /\ paging' = [o \in Clients |-> [paging[o] EXCEPT
            !.stable = {s \in @ : s \in Matching(call[o].enabled, rows')}]]
    /\ written' = [written EXCEPT ![p] = TRUE]

\* What module RuleCommands may refuse a command for.
Rejections(operation) ==
    {"idempotency_conflict"} \cup
    CASE operation = "create_rule" -> {"invalid_request", "rule_id_conflict", "rule_name_conflict"}
      [] operation = "update_rule" ->
            {"invalid_request", "not_found", "revision_conflict", "rule_name_conflict"}
      [] operation = "set_rule_enabled" -> {"invalid_request", "not_found", "revision_conflict"}
      [] operation = "delete_rule" -> {"not_found", "revision_conflict"}

\* The command is applied, or rejected.
Commit(p) ==
    /\ pc[p] = "commit"
    /\ \/ /\ Apply(p)
          /\ IF call[p].operation = "delete_rule"
             THEN Answer(p, "ok")
             ELSE Goto(p, "flush") /\ UNCHANGED <<call, seq, held, answer>>
       \/ /\ \E e \in Rejections(call[p].operation) : Refuse(p, e)
          /\ UNCHANGED rows
    /\ UNCHANGED <<config, plugin, grants, next_seq, bounds>>

\* Mutant of FlushFails: what Jobs rejects is answered as a rejection.
FlushFailsDomain(p) == Answer(p, "invalid_request")

\* A failure of Jobs, of either kind, is a Runtime failure of the call.
FlushFails(p) == Answer(p, "runtime")

\* flush_schedules after a command.
Flush(p) ==
    /\ pc[p] = "flush"
    /\ \/ plugin = "active" /\ Answer(p, "ok") /\ UNCHANGED faults
       \/ plugin # "active" /\ FlushFails(p) /\ UNCHANGED faults
       \/ plugin = "active" /\ Fault /\ FlushFails(p)
    /\ UNCHANGED <<config, plugin, grants, rows, next_seq, written, paging,
                   calls, granted>>

---------------------------------------------------------------------------
(* Reading.                                                                *)

\* Mutant of AfterCursor: as many rows are skipped as were listed.
AfterOffset(p, s) ==
    Cardinality({t \in Matching(call[p].enabled, rows) : t <= s}) > Len(paging[p].listed)

\* row_seq > $after.
AfterCursor(p, s) == s > paging[p].cursor

PageRows(p) == {s \in Matching(call[p].enabled, rows) : AfterCursor(p, s)}
Place(p, s) == Cardinality({t \in PageRows(p) : t <= s})
Page(p) ==
    [n \in 1..(IF Cardinality(PageRows(p)) > PageLimit THEN PageLimit
               ELSE Cardinality(PageRows(p))) |->
        CHOOSE s \in PageRows(p) : Place(p, s) = n]

\* SELECT ... ORDER BY row_seq LIMIT limit + 1; the cursor is the last row kept.
ListRules(p) ==
    LET has_more == Cardinality(PageRows(p)) > PageLimit
    IN  paging' = [paging EXCEPT ![p] =
            [state |-> IF has_more THEN "open" ELSE "done",
             cursor |-> IF has_more THEN Last(Page(p)) ELSE 0,
             listed |-> paging[p].listed \o Page(p),
             stable |-> IF paging[p].state = "none" THEN Matching(call[p].enabled, rows)
                        ELSE paging[p].stable]]

\* get_rule, list_rules and inspect_execution (module Inspection).
Read(p) ==
    /\ pc[p] = "begin"
    /\ call[p].operation \in Reads
    /\ IF plugin # "active" THEN Refuse(p, "runtime")
       ELSE IF call[p].operation = "list_rules"
            THEN ListRules(p) /\ Answer(p, "ok") /\ UNCHANGED written
            ELSE \E result \in {"ok", "not_found"} : Refuse(p, result)
    /\ UNCHANGED <<config, plugin, grants, rows, next_seq, bounds>>

\* A statement fails.  A COMMIT whose answer is lost may have happened.
Fail(p) ==
    /\ pc[p] \in {"begin", "commit"}
    /\ Fault
    /\ \/ Refuse(p, "runtime") /\ UNCHANGED rows
       \/ pc[p] = "commit" /\ Apply(p) /\ Answer(p, "runtime")
    /\ UNCHANGED <<config, plugin, grants, next_seq, calls, granted>>

---------------------------------------------------------------------------
Next ==
    \/ Load \/ Activate \/ Deactivate \/ ClosePool \/ ChangeGrants
    \/ \E p \in Clients :
        \/ Call(p) \/ Admit(p) \/ CheckMembership(p) \/ CheckPermission(p) \/ Validate(p)
        \/ Begin(p) \/ Commit(p) \/ Flush(p) \/ Read(p) \/ Fail(p)

Spec == Init /\ [][Next]_vars

---------------------------------------------------------------------------
(* Properties.                                                             *)

\* No management operation gets to the database unless, since the call began,
\* the actor was a member and had the permission of that operation: however
\* the checks fail, and although both may be taken away between two checks.
StorageIsAuthorized ==
    \A p \in Clients : pc[p] \in {"begin", "commit", "flush"} =>
        {"member", Permission(call[p].operation)} \subseteq held[p]

\* A caller, or an agent, that is told of a rejection knows that its call has
\* changed nothing; only a Runtime failure leaves that open.
RejectionHasNoEffect ==
    \A p \in Clients :
        pc[p] = "idle" /\ answer[p] \notin {"none", "ok", "runtime"} => ~ written[p]

\* A client that follows the cursors to the end has seen every rule that was
\* there all the time, each rule once, however rules come and go meanwhile.
StableRulesListed ==
    \A p \in Clients :
        /\ IsInjective(paging[p].listed)
        /\ paging[p].state = "done" => paging[p].stable \subseteq ToSet(paging[p].listed)

\* Once deactivate has returned, no call changes automation_rules, takes a
\* row_seq of its sequence or finds that its transaction has committed.
QuietAfterDeactivate ==
    [][plugin = "ended" =>
        /\ UNCHANGED <<rows, next_seq>>
        /\ \A p \in Clients : written'[p] => written[p]]_vars
===========================================================================

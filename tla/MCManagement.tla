--------------------------- MODULE MCManagement ---------------------------
(* Configurations and calls, right and wrong ones, for TLC.                *)
EXTENDS Management

CONSTANTS bad

Usual ==
    [schema |-> "s", database_url_secret |-> "s", auth_issuer |-> "s",
     auth_assertion_public_key |-> "s", jobs_queue |-> "s",
     admin_callers |-> <<"console", "tools">>, event_callers |-> <<"projects">>,
     timer_callers |-> <<"timers">>, execution_callers |-> <<"worker">>,
     execution_lease_seconds |-> 30, job_max_attempts |-> 100, max_reconcile_items |-> 1]

MCConfigs ==
    {Usual, [Usual EXCEPT !.event_callers = <<"projects", "worker">>],
     [Usual EXCEPT !.timer_callers = <<"console">>], [Usual EXCEPT !.admin_callers = <<>>],
     [Usual EXCEPT !.event_callers = <<"projects", "projects">>],
     [Usual EXCEPT !.execution_lease_seconds = 29], [Usual EXCEPT !.job_max_attempts = 101],
     [Usual EXCEPT !.max_reconcile_items = 0], [Usual EXCEPT !.jobs_queue = bad]}

A(operation, via, caller) ==
    [operation |-> operation, via |-> via, caller |-> caller, assertion |-> operation,
     request |-> "ok", enabled |-> "enabled"]

MCCalls ==
    {A("create_rule", "tool", "tools"), A("create_rule", "direct", "console"),
     A("list_rules", "direct", "console"), [A("list_rules", "direct", "console") EXCEPT !.enabled = None],
     A("get_rule", "tool", "tools"),
     [A("set_rule_enabled", "tool", "tools") EXCEPT !.enabled = "disabled"],
     A("delete_rule", "direct", "console"), A("update_rule", "direct", "worker"),
     [A("update_rule", "tool", "tools") EXCEPT !.request = "malformed"],
     [A("update_rule", "tool", "tools") EXCEPT !.request = "invalid"],
     [A("update_rule", "tool", "tools") EXCEPT !.assertion = "get_rule"],
     [A("inspect_execution", "direct", "console") EXCEPT !.request = "bad_id"],
     A("reconcile", "direct", "worker"), A("receive_event", "direct", "worker"),
     A("receive_timer", "direct", "timers")}

AnyClient == Permutations(Clients)
===========================================================================

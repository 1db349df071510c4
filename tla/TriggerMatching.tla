-------------------------- MODULE TriggerMatching --------------------------
(***************************************************************************)
(* What a delivery has to do with the rules: who may deliver what, and     *)
(* which rows of automation_rules an event or a timer meets.  A delivery   *)
(* is a record [source, caller, request].                                  *)
(***************************************************************************)
EXTENDS RuleLanguage

CONSTANTS
    Definitions,   \* [trigger, conditions]: what a rule may say
    Times,         \* fire times
    ScheduleKey,   \* ScheduleKey[r][t]: schedule_key of a rule and a time
    EventCallers, TimerCallers  \* the configured callers

\* A row of automation_rules, or none.
NoRow == [state |-> "absent"]
Row(isEnabled, definition, next, revision) ==
    [state |-> "active", enabled |-> isEnabled, definition |-> definition,
     next_fire_at |-> next, revision |-> revision]
Rows == [state : {"active", "deleted"}, enabled : BOOLEAN, definition : Definitions,
         next_fire_at : Times \cup {None}, revision : Nat]

AllowedCaller(d) ==
    d.caller \in IF d.source = "event" THEN EventCallers ELSE TimerCallers

\* valid_event, and the checks of receive_timer: a timer has the key of its
\* rule and its time.
ValidRequest(d) ==
    IF d.source = "event" THEN valid_event(d.request)
    ELSE /\ parse_time_is_ok(d.request.scheduled_for)
         /\ d.request.dedupe_key = ScheduleKey[d.request.rule_id][d.request.scheduled_for]

\* The WHERE clause of the SELECT of receive_event.
EventRule(row) ==
    /\ row.state = "active"
    /\ row.enabled
    /\ row.definition.trigger.kind = "event"

\* receive_event creates an execution for a row that it has locked.
EventFires(row, event) ==
    /\ event_allowed(row.definition.trigger, event)
    /\ conditions_match(row.definition.conditions, event)

\* receive_timer creates an execution for the row that it has locked.
TimerFires(row, timer) ==
    /\ row.enabled
    /\ row.definition.trigger.kind = "schedule"
    /\ row.next_fire_at = timer.scheduled_for

\* The rules that the delivery meets as they are.
Meets(d, r, table) ==
    IF d.source = "event"
    THEN EventRule(table[r]) /\ EventFires(table[r], d.request)
    ELSE r = d.request.rule_id /\ table[r].state = "active" /\ TimerFires(table[r], d.request)
===========================================================================

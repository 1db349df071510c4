-------------------------- MODULE MCTriggerIntake --------------------------
(* Two rules, an event and a timer whose keys are the same, for TLC.       *)
EXTENDS TriggerIntake, TLC

CONSTANTS r1, r2, label, id, k1, k2, t1, t2, caller, other

OnEvent(conditions) ==
    [trigger |-> [kind |-> "event", event_types |-> <<"issue_archived", "issue_moved">>,
                  interval_seconds |-> None, start_at |-> None],
     conditions |-> conditions]
OnTimer == [trigger |-> [kind |-> "schedule", event_types |-> <<>>, interval_seconds |-> 60,
                         start_at |-> None],
            conditions |-> <<>>]
If(field, operator, value) == [field |-> field, operator |-> operator, value |-> value]

Meeting == OnEvent(<<If("label_id", "contains", label), If("team_id", "not_equals", id)>>)
Missing == OnEvent(<<If("label_id", "not_equals", label)>>)

MCDefinitions == {Meeting, Missing, OnTimer}

MCInitialRules ==
    {r1 :> first @@ r2 :> second :
        first \in {Row(TRUE, Missing, None, 1), Row(TRUE, OnTimer, t1, 1)},
        second \in {NoRow, Row(TRUE, Meeting, None, 1)}}

MCScheduleKey == r1 :> (t1 :> k1 @@ t2 :> k2) @@ r2 :> (t1 :> k2 @@ t2 :> k1)

Event == [dedupe_key |-> k1, entity_kind |-> "issue", entity_id |-> id,
          event_type |-> "issue_moved", occurred_at |-> t1, project_id |-> None,
          team_id |-> None, workflow_state_id |-> None, status_id |-> None,
          priority |-> "low", label_ids |-> <<id, label>>]
Timer(r, t, k) == [rule_id |-> r, scheduled_for |-> t, dedupe_key |-> k]

MCDeliveries ==
    {[source |-> "event", caller |-> caller, request |-> Event],
     [source |-> "event", caller |-> other, request |-> Event],
     [source |-> "timer", caller |-> caller, request |-> Timer(r1, t1, k1)],
     [source |-> "timer", caller |-> caller, request |-> Timer(r2, t1, k2)]}

AnyProcess == Permutations(Processes)
===========================================================================

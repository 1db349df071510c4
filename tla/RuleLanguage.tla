--------------------------- MODULE RuleLanguage ---------------------------
(***************************************************************************)
(* The rule language: the shape of triggers, conditions, actions and       *)
(* events, which of them a request may carry, when an event satisfies the  *)
(* conditions of a rule, and which entity an action is about.              *)
(*                                                                         *)
(* Ids, texts and times are opaque: those that valid_id, valid_text and    *)
(* parse_time refuse are the members of Malformed.                         *)
(***************************************************************************)
EXTENDS Integers, Sequences, FiniteSets

CONSTANTS None,      \* an optional field without a value
          Malformed  \* ids, texts and times that are refused

ASSUME NoneIsNotMalformed == None \notin Malformed

ActionKind == {"assign_issue_to_team", "update_issue", "move_issue",
               "add_comment", "update_project"}
Priority == {"none", "urgent", "high", "medium", "low"}
ConditionField == {"event_type", "entity_kind", "team_id", "project_id",
                   "workflow_state_id", "priority", "status_id", "label_id"}
ConditionOperator == {"equals", "not_equals", "contains"}
TriggerKind == {"event", "schedule"}
EventType == {"issue_created", "issue_updated", "issue_moved", "issue_archived",
              "comment_added", "project_created", "project_updated", "project_archived"}
EntityKind == {"issue", "project"}

---------------------------------------------------------------------------
(* Records.                                                                *)

\* A trigger, a condition, an action and an event.  v are the ids, texts and
\* times that may occur.
Triggers(v) == [kind : TriggerKind, event_types : Seq(EventType),
                interval_seconds : Int \cup {None}, start_at : v \cup {None}]

Conditions(v) == [field : ConditionField, operator : ConditionOperator, value : v]

Actions(v) ==
    [kind : ActionKind, issue_id : v \cup {None}, project_id : v \cup {None},
     team_id : v \cup {None}, workflow_state_id : v \cup {None},
     title : v \cup {None}, description : v \cup {None}, priority : Priority \cup {None},
     label_ids : Seq(v), replace_labels : BOOLEAN, comment_body : v \cup {None},
     project_name : v \cup {None}, project_summary : v \cup {None},
     status_id : v \cup {None}]

Events(v) ==
    [dedupe_key : v, entity_kind : EntityKind, entity_id : v, event_type : EventType,
     occurred_at : v, project_id : v \cup {None}, team_id : v \cup {None},
     workflow_state_id : v \cup {None}, status_id : v \cup {None},
     priority : Priority \cup {None}, label_ids : Seq(v)]

---------------------------------------------------------------------------
(* Validation.                                                             *)

valid_id(value) == value \notin Malformed
valid_text(value) == value \notin Malformed
parse_time_is_ok(value) == value \notin Malformed

\* At most 64 labels, each of them once.
valid_labels(labels) ==
    /\ Len(labels) <= 64
    /\ \A i \in DOMAIN labels : valid_id(labels[i])
    /\ \A i, j \in DOMAIN labels : i # j => labels[i] # labels[j]

\* The longest interval of a schedule.
SecondsPerYear == 31536000

valid_trigger(trigger) ==
    \/ /\ trigger.kind = "event"
       /\ Len(trigger.event_types) \in 1..16
       /\ trigger.interval_seconds = None
       /\ trigger.start_at = None
    \/ /\ trigger.kind = "schedule"
       /\ trigger.event_types = <<>>
       /\ trigger.interval_seconds # None
       /\ trigger.interval_seconds \in 60..SecondsPerYear
       /\ parse_time_is_ok(trigger.start_at)

valid_conditions(conditions) ==
    /\ Len(conditions) <= 32
    /\ \A i \in DOMAIN conditions :
        /\ valid_text(conditions[i].value)
        /\ conditions[i].operator = "contains" => conditions[i].field = "label_id"

\* The fields of an action that have a value; label_ids may be given without
\* replace_labels.
Given(action) ==
    {f \in DOMAIN action \ {"kind", "label_ids", "replace_labels"} : action[f] # None}
        \cup (IF action.label_ids # <<>> THEN {"label_ids"} ELSE {})
        \cup (IF action.replace_labels THEN {"replace_labels"} ELSE {})

\* The texts and ids of an action are well formed.
valid_fields(action) ==
    /\ valid_labels(action.label_ids)
    /\ \A f \in Given(action) \ {"label_ids", "replace_labels", "priority"} :
        valid_id(action[f])

issue_update_fields == {"title", "description", "priority", "replace_labels", "label_ids"}
project_update_fields == {"project_name", "project_summary", "status_id"}

\* What an action of each kind may give, and of what it must give something.
valid_action(action) ==
    /\ valid_fields(action)
    /\ \/ /\ action.kind = "assign_issue_to_team"
          /\ "team_id" \in Given(action)
          /\ Given(action) \subseteq {"issue_id", "team_id"}
       \/ /\ action.kind = "move_issue"
          /\ Given(action) \cap {"team_id", "workflow_state_id"} # {}
          /\ Given(action) \subseteq {"issue_id", "team_id", "workflow_state_id"}
       \/ /\ action.kind = "update_issue"
          /\ Given(action) \cap (issue_update_fields \ {"label_ids"}) # {}
          /\ Given(action) \subseteq {"issue_id"} \cup issue_update_fields
       \/ /\ action.kind = "add_comment"
          /\ "comment_body" \in Given(action)
          /\ Given(action) \subseteq {"issue_id", "comment_body"}
       \/ /\ action.kind = "update_project"
          /\ Given(action) \cap project_update_fields # {}
          /\ Given(action) \subseteq {"project_id"} \cup project_update_fields

valid_actions(actions) ==
    /\ Len(actions) \in 1..32
    /\ \A i \in DOMAIN actions : valid_action(actions[i])

\* Mutant of valid_actions_for_trigger: a scheduled action need not name its
\* target.
valid_actions_for_any_trigger(trigger, actions) == valid_actions(actions)

\* A timer is about no entity, so that a scheduled action names its own.
valid_actions_for_trigger(trigger, actions) ==
    /\ valid_actions(actions)
    /\ trigger.kind = "schedule" => \A i \in DOMAIN actions :
        (IF actions[i].kind = "update_project" THEN "project_id" ELSE "issue_id")
            \in Given(actions[i])

\* The part of valid_create_rule and valid_update_rule about the rule itself.
valid_rule(rule) ==
    /\ valid_trigger(rule.trigger)
    /\ valid_conditions(rule.conditions)
    /\ valid_actions_for_trigger(rule.trigger, rule.actions)

IssueEvents == {"issue_created", "issue_updated", "issue_moved", "issue_archived",
                "comment_added"}

valid_event(event) ==
    /\ \A f \in {"dedupe_key", "entity_id", "project_id", "team_id",
                 "workflow_state_id", "status_id"} : valid_id(event[f])
    /\ valid_labels(event.label_ids)
    /\ parse_time_is_ok(event.occurred_at)
    /\ event.entity_kind = IF event.event_type \in IssueEvents THEN "issue" ELSE "project"

---------------------------------------------------------------------------
(* Meaning.                                                                *)

\* The event has the value in the field; a field without a value has none.
HasValue(event, field, value) ==
    IF field = "label_id"
    THEN \E i \in DOMAIN event.label_ids : event.label_ids[i] = value
    ELSE event[field] = value

conditions_match(conditions, event) ==
    \A i \in DOMAIN conditions :
        (conditions[i].operator = "not_equals")
            # HasValue(event, conditions[i].field, conditions[i].value)

event_allowed(trigger, event) ==
    \E i \in DOMAIN trigger.event_types : trigger.event_types[i] = event.event_type

\* What execute_action reads of a stored trigger: the request of receive_event
\* or of receive_timer, the latter without an entity.
EventPayload(event) ==
    [entity_kind |-> event.entity_kind, entity_id |-> event.entity_id,
     project_id |-> event.project_id]
TimerPayload == [entity_kind |-> "schedule", entity_id |-> None, project_id |-> None]

\* The issue that an action of the four issue kinds is about, if any.
IssueTarget(action, payload) ==
    IF action.issue_id # None THEN action.issue_id
    ELSE IF payload.entity_kind = "issue" THEN payload.entity_id
    ELSE None

\* The project that update_project is about, if any.
ProjectTarget(action, payload) ==
    IF action.project_id # None THEN action.project_id
    ELSE IF payload.entity_kind = "project" THEN payload.entity_id
    ELSE payload.project_id

Target(action, payload) ==
    IF action.kind = "update_project" THEN ProjectTarget(action, payload)
    ELSE IssueTarget(action, payload)
===========================================================================

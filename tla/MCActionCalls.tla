--------------------------- MODULE MCActionCalls ---------------------------
(* Rules of every kind of action, well formed and not, for TLC.            *)
EXTENDS ActionCalls, TLC

CONSTANTS i1, i2, p1, text, bad, u0, u1, u2

MCUserValue == 0 :> u0 @@ 1 :> u1 @@ 2 :> u2

Blank(kind) ==
    [kind |-> kind, issue_id |-> None, project_id |-> None, team_id |-> None,
     workflow_state_id |-> None, title |-> None, description |-> None, priority |-> None,
     label_ids |-> <<>>, replace_labels |-> FALSE, comment_body |-> None,
     project_name |-> None, project_summary |-> None, status_id |-> None]

\* For each kind some fields are given, and then at most one more, of any kind.
Giving(fields) ==
    [f \in fields |-> CASE f = "priority" -> "high"
                        [] f = "label_ids" -> <<text>>
                        [] f = "replace_labels" -> TRUE
                        [] f = "issue_id" -> i2
                        [] f = "project_id" -> p1
                        [] OTHER -> text]

Usual(kind) ==
    CASE kind = "assign_issue_to_team" -> {"team_id"}
      [] kind = "move_issue" -> {"workflow_state_id"}
      [] kind = "update_issue" -> {"title", "replace_labels"}
      [] kind = "add_comment" -> {"comment_body"}
      [] kind = "update_project" -> {"project_name"}

MCActions ==
    {Giving(fields) @@ Blank(kind) : kind \in ActionKind,
     fields \in {{}} \cup {{f} : f \in DOMAIN Blank("") \ {"kind"}}}
    \cup {Giving(Usual(kind) \cup {f}) @@ Blank(kind) : kind \in ActionKind,
          f \in DOMAIN Blank("") \ {"kind"}}
    \cup {[Blank("add_comment") EXCEPT !.comment_body = bad],
          [Giving({"title", "label_ids"}) @@ Blank("update_issue")
               EXCEPT !.label_ids = <<text, text>>]}

OnEvent == [kind |-> "event", event_types |-> <<"issue_moved", "project_updated">>,
            interval_seconds |-> None, start_at |-> None]
OnTimer == [kind |-> "schedule", event_types |-> <<>>, interval_seconds |-> 60, start_at |-> None]
BadTriggers == {[OnTimer EXCEPT !.interval_seconds = 59], [OnEvent EXCEPT !.start_at = text]}

If(field, operator, value) == [field |-> field, operator |-> operator, value |-> value]

Rules(triggers, conditions, actions) ==
    {[trigger |-> t, conditions |-> c, actions |-> <<a>>] :
        t \in triggers, c \in conditions, a \in actions}

MCRequests ==
    Rules({OnEvent, OnTimer}, {<<>>}, MCActions)
    \cup Rules(BadTriggers, {<<>>}, {Giving({"comment_body", "issue_id"}) @@ Blank("add_comment")})
    \cup Rules({OnEvent},
               {<<If("label_id", "contains", text)>>, <<If("team_id", "contains", text)>>,
                <<If("team_id", "not_equals", text)>>},
               {Giving({"comment_body"}) @@ Blank("add_comment")})

AnyWorker == Permutations(Workers)

Event(kind, type, project) ==
    [dedupe_key |-> text, entity_kind |-> kind, entity_id |-> i1, event_type |-> type,
     occurred_at |-> text, project_id |-> project, team_id |-> None,
     workflow_state_id |-> None, status_id |-> None, priority |-> None, label_ids |-> <<text>>]

MCEvents == {Event("issue", "issue_moved", None), Event("issue", "issue_moved", p1),
             Event("project", "project_updated", None), Event("project", "issue_moved", None)}
===========================================================================

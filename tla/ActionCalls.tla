---------------------------- MODULE ActionCalls ----------------------------
(***************************************************************************)
(* One rule with one action, from the request that creates it to the calls *)
(* that execute the action at Projects: validation, the trigger, the       *)
(* target, the read of the entity and the write that relies on it.         *)
(*                                                                         *)
(* The entity is shared with the users of Projects, who may edit it        *)
(* between the read and the write.  Several workers may be at the action:  *)
(* one after the other after failures, or together when the lease of one   *)
(* has run out (module Executions).  Simplifications:                      *)
(*  - the fields of an issue and of a project are one function; "rest"     *)
(*    stands for the fields that a request repeats from the entity and no  *)
(*    action sets;                                                         *)
(*  - Projects is external: it keeps its answers under idempotency keys    *)
(*    and refuses a stale expected_revision; what it answers to a known    *)
(*    key with another request is left open, and it may refuse any write.  *)
(* MaxAttempts, MaxEdits and MaxFaults bound the state space.              *)
(***************************************************************************)
EXTENDS RuleLanguage

CONSTANTS Requests,     \* the rules that are submitted, each with one action
          SomeEvents,   \* the events that arrive
          Workers,
          UserValue,    \* UserValue[n]: what users have written n edits on
          MaxAttempts,  \* bound: how often the action is begun
          MaxEdits,     \* bound: edits of users
          MaxFaults     \* bound: failed calls and crashes

\* The reasons of a failure: codes of the engine, and whatever Projects says.
Required == {"issue_target_required", "project_target_required", "comment_body_required"}
Rejected == "rejected"

ASSUME NoneIsNoResult == None \notin Required \cup {Rejected, "succeeded"}

ASSUME BoundsAssumption ==
    /\ MaxAttempts \in Nat /\ MaxEdits \in Nat /\ MaxFaults \in Nat
    /\ DOMAIN UserValue = 0..MaxEdits
    /\ \A q \in Requests : DOMAIN q.actions = {1}
    /\ \A e \in SomeEvents : e.entity_kind \in EntityKind /\ e.entity_id # None

VARIABLES
    rule,      \* the submitted rule
    stage,     \* how far it is: submitted, refused, accepted, running, ended
    payload,   \* payload of the trigger, None before
    receipt,   \* automation_action_receipts: status, and the detail of a failure
    pc,        \* what a worker is at
    attempt,   \* the attempt of a worker
    read,      \* the entity that a worker has read
    outcome,   \* how its call has ended
    entity,    \* the entity at Projects
    ledger,    \* the requests that Projects has applied, with their keys
    effects,   \* how often the action has been applied
    begun, edits, faults

intake == <<rule, stage, payload>>
worker == <<pc, attempt, read, outcome>>
projects == <<entity, ledger, effects>>
bounds == <<begun, edits, faults>>
vars == <<intake, receipt, worker, projects, bounds>>

IssueFields == {"title", "description", "priority", "team_id",
                "workflow_state_id", "label_ids"}
ProjectFields == {"name", "summary", "status_id"}
Fields == IssueFields \cup ProjectFields \cup {"rest"}

Action == rule.actions[1]
Attempts == 0..MaxAttempts

\* Stages, receipts and program counters have their values; a receipt has a
\* detail exactly if it says failed.
TypeOK ==
    /\ rule \in Requests
    /\ stage \in {"submitted", "refused", "accepted", "running", "ended"}
    /\ payload = None \/ DOMAIN payload = {"entity_kind", "entity_id", "project_id"}
    /\ receipt \in [status : {"pending", "succeeded"}, detail : {None}]
                   \cup [status : {"failed"}, detail : Required \cup {Rejected}]
    /\ pc \in [Workers -> {"idle", "resolve", "get", "call", "save", "complete"}]
    /\ attempt \in [Workers -> Attempts]
    /\ outcome \in [Workers -> {None, "succeeded"} \cup Required \cup {Rejected}]
    /\ DOMAIN entity.fields = Fields /\ entity.revision \in Nat
    /\ \A a \in ledger : a.key \in Attempts
    /\ effects \in Nat
    /\ begun \in Attempts /\ edits \in 0..MaxEdits /\ faults \in 0..MaxFaults

NoEntity == [fields |-> [f \in Fields |-> None], revision |-> 0]

Init ==
    /\ rule \in Requests
    /\ stage = "submitted"
    /\ payload = None
    /\ receipt = [status |-> "pending", detail |-> None]
    /\ pc = [w \in Workers |-> "idle"]
    /\ attempt = [w \in Workers |-> 0]
    /\ read = [w \in Workers |-> NoEntity]
    /\ outcome = [w \in Workers |-> None]
    /\ entity = [fields |-> [f \in Fields |-> UserValue[0]], revision |-> 1]
    /\ ledger = {}
    /\ effects = 0
    /\ begun = 0 /\ edits = 0 /\ faults = 0

Goto(w, label) == pc' = [pc EXCEPT ![w] = label]

---------------------------------------------------------------------------
(* Before the execution.                                                   *)

\* create_rule validates the rule.
Submit ==
    /\ stage = "submitted"
    /\ stage' = IF valid_rule(rule) THEN "accepted" ELSE "refused"
    /\ UNCHANGED <<rule, payload, receipt, worker, projects, bounds>>

\* receive_event has stored an event that the rule matches.
EventArrives(event) ==
    /\ stage = "accepted"
    /\ rule.trigger.kind = "event"
    /\ valid_event(event)
    /\ event_allowed(rule.trigger, event)
    /\ conditions_match(rule.conditions, event)
    /\ stage' = "running"
    /\ payload' = EventPayload(event)
    /\ UNCHANGED <<rule, receipt, worker, projects, bounds>>

\* receive_timer has stored the timer of the rule.
TimerArrives ==
    /\ stage = "accepted"
    /\ rule.trigger.kind = "schedule"
    /\ stage' = "running"
    /\ payload' = TimerPayload
    /\ UNCHANGED <<rule, receipt, worker, projects, bounds>>

---------------------------------------------------------------------------
(* The requests.                                                           *)

\* Mutant of idempotency_key: every attempt has a key of its own.
idempotency_key_per_attempt(n) == n

\* The key is in the receipt and the same at every attempt.
idempotency_key(n) == 0

\* assign_issue_to_team and move_issue.
MoveIssueRequest(action, issue) ==
    [f \in {"team_id", "workflow_state_id"} |->
        IF action[f] # None THEN action[f] ELSE issue[f]]

\* update_issue gives all fields but the team: those that the action does not
\* set are repeated from the issue that was read.
UpdateIssueRequest(action, issue) ==
    [f \in (IssueFields \ {"team_id"}) \cup {"rest"} |->
        CASE f \in {"title", "description", "priority"} /\ action[f] # None -> action[f]
          [] f = "label_ids" /\ action.replace_labels -> action.label_ids
          [] OTHER -> issue[f]]

UpdateProjectRequest(action, project) ==
    [f \in ProjectFields \cup {"rest"} |->
        CASE f = "name" /\ action.project_name # None -> action.project_name
          [] f = "summary" /\ action.project_summary # None -> action.project_summary
          [] f = "status_id" /\ action.status_id # None -> action.status_id
          [] OTHER -> project[f]]

FieldsRequest(action, fields) ==
    CASE action.kind \in {"assign_issue_to_team", "move_issue"} -> MoveIssueRequest(action, fields)
      [] action.kind = "update_issue" -> UpdateIssueRequest(action, fields)
      [] action.kind = "update_project" -> UpdateProjectRequest(action, fields)

\* Mutant of ExpectedRevision: the write is not tied to the entity read.
ExpectedRevisionNow(w) == entity.revision

ExpectedRevision(w) == read[w].revision

\* What the worker sends; add_comment names no revision, and its comment_id is
\* made from the execution and the action.
CallRequest(w) ==
    IF Action.kind = "add_comment" THEN [comment |-> Action.comment_body]
    ELSE [fields |-> FieldsRequest(Action, read[w].fields), revision |-> ExpectedRevision(w)]

---------------------------------------------------------------------------
(* The worker.                                                             *)

\* The action is reached and its receipt does not say succeeded.
Begin(w) ==
    /\ stage = "running" /\ pc[w] = "idle"
    /\ receipt.status # "succeeded"
    /\ begun < MaxAttempts
    /\ begun' = begun + 1
    /\ attempt' = [attempt EXCEPT ![w] = begun']
    /\ Goto(w, "resolve")
    /\ UNCHANGED <<intake, receipt, read, outcome, projects, edits, faults>>

\* The call is over, with success or with a Domain failure.
End(w, result) ==
    /\ outcome' = [outcome EXCEPT ![w] = result]
    /\ Goto(w, "save")

ResolveTarget(w) ==
    /\ pc[w] = "resolve"
    /\ \/ /\ Target(Action, payload) = None
          /\ End(w, IF Action.kind = "update_project" THEN "project_target_required"
                    ELSE "issue_target_required")
       \/ /\ Target(Action, payload) # None
          /\ Action.kind = "add_comment" /\ Action.comment_body = None
          /\ End(w, "comment_body_required")
       \/ /\ Target(Action, payload) # None
          /\ Action.kind = "add_comment" => Action.comment_body # None
          /\ Goto(w, IF Action.kind = "add_comment" THEN "call" ELSE "get")
          /\ UNCHANGED outcome
    /\ UNCHANGED <<intake, receipt, attempt, read, projects, bounds>>

\* get_issue or get_project; the entity may not exist for the actor.
GetEntity(w) ==
    /\ pc[w] = "get"
    /\ \/ /\ read' = [read EXCEPT ![w] = entity]
          /\ Goto(w, "call")
          /\ UNCHANGED outcome
       \/ /\ End(w, Rejected)
          /\ UNCHANGED read
    /\ UNCHANGED <<intake, receipt, attempt, projects, bounds>>

\* The entity after the write; a comment leaves the fields alone.
Written(q) ==
    IF Action.kind = "add_comment" THEN entity
    ELSE [fields |-> [f \in Fields |-> IF f \in DOMAIN q.fields THEN q.fields[f]
                                        ELSE entity.fields[f]],
          revision |-> entity.revision + 1]

Answered(key) == \E a \in ledger : a.key = key
Entry(key, q) == [key |-> key, request |-> q]

\* Projects applies the request.
Apply(key, q) ==
    /\ ~ Answered(key)
    /\ Action.kind # "add_comment" => q.revision = entity.revision
    /\ entity' = Written(q)
    /\ ledger' = ledger \cup {Entry(key, q)}
    /\ effects' = effects + 1

\* Mutant of DependencyFailure: a rejection is taken for the end of the action.
DependencyFailureIgnored(w) == End(w, "succeeded")

\* A Domain error of a dependency is a Domain failure of the action.
DependencyFailure(w) == End(w, Rejected)

\* The write and its answer.
CallProjects(w) ==
    LET q == CallRequest(w)
        key == idempotency_key(attempt[w])
    IN  /\ pc[w] = "call"
        /\ \/ Apply(key, q) /\ End(w, "succeeded")
           \/ Answered(key) /\ End(w, "succeeded") /\ UNCHANGED projects
           \/ Entry(key, q) \notin ledger /\ DependencyFailure(w) /\ UNCHANGED projects
        /\ UNCHANGED <<intake, receipt, attempt, read, bounds>>

\* complete_action sets the status and, to a value or to NULL, the failure.
ReceiptOf(result) ==
    IF result = "succeeded" THEN [status |-> "succeeded", detail |-> None]
    ELSE [status |-> "failed", detail |-> result]

SaveReceipt(w) ==
    /\ pc[w] = "save"
    /\ receipt' = ReceiptOf(outcome[w])
    /\ Goto(w, "complete")
    /\ UNCHANGED <<intake, attempt, read, outcome, projects, bounds>>

Forget(w) ==
    /\ Goto(w, "idle")
    /\ attempt' = [attempt EXCEPT ![w] = 0]
    /\ read' = [read EXCEPT ![w] = NoEntity]
    /\ outcome' = [outcome EXCEPT ![w] = None]

\* complete_execution; that of a worker without the lease is a case of Fail.
Complete(w) ==
    /\ pc[w] = "complete"
    /\ stage' = "ended"
    /\ Forget(w)
    /\ UNCHANGED <<rule, payload, receipt, projects, bounds>>

\* A call or a statement fails at runtime, or the worker dies.  The write may
\* have been applied.
Fail(w) ==
    /\ pc[w] # "idle"
    /\ faults < MaxFaults
    /\ faults' = faults + 1
    /\ Forget(w)
    /\ \/ UNCHANGED projects
       \/ pc[w] = "call" /\ Apply(idempotency_key(attempt[w]), CallRequest(w))
    /\ UNCHANGED <<intake, receipt, begun, edits>>

\* A user of Projects edits the entity, all of its fields: between two calls of
\* a worker, and also after the end of the execution, when a late one goes on.
UserEdit ==
    /\ stage \in {"running", "ended"}
    /\ edits < MaxEdits
    /\ edits' = edits + 1
    /\ entity' = [fields |-> [f \in Fields |-> UserValue[edits']],
                  revision |-> entity.revision + 1]
    /\ UNCHANGED <<intake, receipt, worker, ledger, effects, begun, faults>>

Worker(w) ==
    \/ Begin(w)
    \/ ResolveTarget(w)
    \/ GetEntity(w)
    \/ CallProjects(w)
    \/ SaveReceipt(w)
    \/ Complete(w)
    \/ Fail(w)

Next ==
    \/ Submit
    \/ \E event \in SomeEvents : EventArrives(event)
    \/ TimerArrives
    \/ UserEdit
    \/ \E w \in Workers : Worker(w)

Spec == Init /\ [][Next]_vars

---------------------------------------------------------------------------
(* Properties.                                                             *)

\* The fields of the entity that the action sets, and to what.
Column(f) == CASE f = "name" -> "project_name" [] f = "summary" -> "project_summary" [] OTHER -> f
Settable ==
    CASE Action.kind \in {"assign_issue_to_team", "move_issue"} -> {"team_id", "workflow_state_id"}
      [] Action.kind = "update_issue" -> {"title", "description", "priority", "label_ids"}
      [] Action.kind = "update_project" -> ProjectFields
      [] Action.kind = "add_comment" -> {}
Sets(f) ==
    /\ f \in Settable
    /\ IF f = "label_ids" THEN Action.replace_labels ELSE Action[Column(f)] # None

\* No edit of a user is lost: although update_issue and update_project send
\* every field, when the write takes effect each field that the action does
\* not set keeps the value it has at that moment.
WritesOnlyItsFields ==
    [][effects' # effects =>
        \A f \in Fields :
            entity'.fields[f] = IF Sets(f) THEN Action[Column(f)] ELSE entity.fields[f]]_vars

\* The action takes effect at most once, although every retry and every late
\* worker reads the entity again and so sends another expected_revision.
EffectOnce == effects <= 1

\* A receipt that says succeeded is about a write that has taken effect.
ReceiptIsTrue == receipt.status = "succeeded" => effects >= 1

\* A rule that was accepted can be executed: a scheduled action always has its
\* target, an event about an issue is enough for every issue action, and a
\* comment always has its body.
AcceptedRuleHasTarget ==
    receipt.detail \in Required =>
        /\ rule.trigger.kind = "event"
        /\ receipt.detail # "comment_body_required"
        /\ payload.entity_kind =
            IF receipt.detail = "issue_target_required" THEN "project" ELSE "issue"
===========================================================================

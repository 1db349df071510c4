------------------------- MODULE ActionCallsProofs -------------------------
(***************************************************************************)
(* Proofs about ActionCalls, for any rules, events and edits and any       *)
(* number of workers, attempts and faults.  IInv is the inductive          *)
(* invariant; its parts say what a worker has read, what Projects has      *)
(* answered, and why a rule that passed validation has its target.         *)
(***************************************************************************)
EXTENDS ActionCalls, TLAPS

\* The local variables are functions on the workers.
Shapes == DOMAIN read = Workers

\* Only a valid rule is executed, on the payload of its trigger.
RuleInv ==
    /\ stage \in {"accepted", "running", "ended"} => valid_rule(rule)
    /\ stage \in {"running", "ended"} /\ rule.trigger.kind = "event" =>
        payload.entity_kind \in EntityKind /\ payload.entity_id # None
    /\ \A w \in Workers : pc[w] # "idle" => stage \in {"running", "ended"}

\* Projects has answered one key at most, and applied what it has answered.
LedgerInv ==
    \/ effects = 0 /\ ledger = {}
    \/ effects = 1 /\ Answered(0)

\* A worker about to write knows the entity as it was at some revision.
ReadInv ==
    \A w \in Workers : pc[w] = "call" /\ Action.kind # "add_comment" =>
        /\ read[w].revision <= entity.revision
        /\ read[w].revision \in Nat
        /\ read[w].revision = entity.revision => read[w] = entity

\* A worker saves what its call has come to, and success only on an answer of
\* Projects.
OutcomeInv ==
    \A w \in Workers : pc[w] = "save" =>
        outcome[w] # None /\ (outcome[w] = "succeeded" => effects = 1)

\* A failure for want of a target or a body is one of an event's.
Wanting(detail) ==
    detail \in Required =>
        /\ rule.trigger.kind = "event"
        /\ detail # "comment_body_required"
        /\ payload.entity_kind = IF detail = "issue_target_required" THEN "project" ELSE "issue"

TargetInv ==
    /\ \A w \in Workers : pc[w] = "save" => Wanting(outcome[w])
    /\ receipt.detail \in Required => stage \in {"running", "ended"}
    /\ Wanting(receipt.detail)

IInv ==
    /\ TypeOK /\ Shapes
    /\ RuleInv /\ LedgerInv /\ ReadInv
    /\ OutcomeInv /\ ReceiptIsTrue
    /\ TargetInv

---------------------------------------------------------------------------
(* Lemmas on the operators.                                                *)

\* The actions of a valid rule have one of the five kinds.
LEMMA ValidKind ==
    ASSUME rule \in Requests, valid_rule(rule)
    PROVE  /\ Action.kind \in ActionKind /\ valid_action(Action)
           /\ rule.trigger.kind \in {"event", "schedule"}
           /\ rule.trigger.kind = "schedule" =>
                IF Action.kind = "update_project" THEN Action.project_id # None
                ELSE Action.issue_id # None
           /\ Action.kind = "add_comment" => Action.comment_body # None
<1>1. /\ valid_trigger(rule.trigger)
      /\ valid_actions_for_trigger(rule.trigger, rule.actions)
    BY DEF valid_rule
<1>2. 1 \in DOMAIN rule.actions
    BY BoundsAssumption
<1>3. /\ valid_actions(rule.actions)
      /\ rule.trigger.kind = "schedule" =>
            (IF Action.kind = "update_project" THEN "project_id" ELSE "issue_id")
                \in Given(Action)
    BY <1>1, <1>2, SMT DEF valid_actions_for_trigger, Action
<1>4. valid_action(Action)
    BY <1>2, <1>3, SMT DEF valid_actions, Action
<1>5. Action.kind \in ActionKind
    BY <1>4, SMT DEF valid_action, ActionKind
<1>6. rule.trigger.kind \in {"event", "schedule"}
    BY <1>1, SMT DEF valid_trigger
<1>7. Action.kind = "add_comment" => "comment_body" \in Given(Action)
    BY <1>4, SMT DEF valid_action
<1>8. ASSUME NEW f, f \notin {"label_ids", "replace_labels"}, f \in Given(Action)
      PROVE  Action[f] # None
    <2>1. f \in {g \in DOMAIN Action \ {"kind", "label_ids", "replace_labels"} :
                    Action[g] # None}
        BY <1>8, Zenon DEF Given
    <2> QED
        BY <2>1, Zenon
<1>9. /\ "project_id" \notin {"label_ids", "replace_labels"}
      /\ "issue_id" \notin {"label_ids", "replace_labels"}
      /\ "comment_body" \notin {"label_ids", "replace_labels"}
    OBVIOUS
<1>10. /\ "project_id" \in Given(Action) => Action["project_id"] # None
       /\ "issue_id" \in Given(Action) => Action["issue_id"] # None
       /\ "comment_body" \in Given(Action) => Action["comment_body"] # None
    BY <1>8, <1>9
<1> QED
    BY <1>3, <1>4, <1>5, <1>6, <1>7, <1>10, SMT

\* What a write of fields sends for a field: what the action sets, or what the
\* worker has read.  It sends every field that the action sets.
LEMMA RequestFields ==
    ASSUME Action.kind \in ActionKind, Action.kind # "add_comment", NEW fields
    PROVE  LET q == FieldsRequest(Action, fields)
           IN  /\ \A f \in Fields : Sets(f) => f \in DOMAIN q
               /\ \A f \in DOMAIN q : q[f] = IF Sets(f) THEN Action[Column(f)] ELSE fields[f]
<1>1. CASE Action.kind \in {"assign_issue_to_team", "move_issue"}
    <2>1. FieldsRequest(Action, fields) = MoveIssueRequest(Action, fields)
        BY <1>1 DEF FieldsRequest
    <2>2. \A f : Sets(f) <=> f \in {"team_id", "workflow_state_id"} /\ Action[f] # None
        BY <1>1, SMT DEF Sets, Settable, Column
    <2>3. \A f \in {"team_id", "workflow_state_id"} : Column(f) = f
        BY DEF Column
    <2> QED
        BY <2>1, <2>2, <2>3 DEF MoveIssueRequest
<1>2. CASE Action.kind = "update_issue"
    <2>1. FieldsRequest(Action, fields) = UpdateIssueRequest(Action, fields)
        BY <1>2 DEF FieldsRequest
    <2>2. \A f : Sets(f) <=>
            \/ f \in {"title", "description", "priority"} /\ Action[f] # None
            \/ f = "label_ids" /\ Action.replace_labels
        BY <1>2, SMT DEF Sets, Settable, Column
    <2>3. \A f \in {"title", "description", "priority", "label_ids"} : Column(f) = f
        BY DEF Column
    <2>4. DOMAIN UpdateIssueRequest(Action, fields) = (IssueFields \ {"team_id"}) \cup {"rest"}
        BY DEF UpdateIssueRequest
    <2>5. \A f \in (IssueFields \ {"team_id"}) \cup {"rest"} :
            UpdateIssueRequest(Action, fields)[f] =
                IF Sets(f) THEN Action[f] ELSE fields[f]
        BY <2>2, SMT DEF UpdateIssueRequest
    <2>6. \A f : Sets(f) => f \in (IssueFields \ {"team_id"}) \cup {"rest"} /\ Column(f) = f
        BY <2>2, <2>3 DEF IssueFields
    <2> QED
        BY <2>1, <2>4, <2>5, <2>6
<1>3. CASE Action.kind = "update_project"
    <2>1. FieldsRequest(Action, fields) = UpdateProjectRequest(Action, fields)
        BY <1>3 DEF FieldsRequest
    <2>2. \A f : Sets(f) <=> f \in ProjectFields /\ Action[Column(f)] # None
        BY <1>3, SMT DEF Sets, Settable, ProjectFields
    <2>3. /\ Column("name") = "project_name" /\ Column("summary") = "project_summary"
          /\ Column("status_id") = "status_id"
        BY DEF Column
    <2>4. DOMAIN UpdateProjectRequest(Action, fields) = ProjectFields \cup {"rest"}
        BY DEF UpdateProjectRequest
    <2>5. \A f \in ProjectFields \cup {"rest"} :
            UpdateProjectRequest(Action, fields)[f] =
                IF Sets(f) THEN Action[Column(f)] ELSE fields[f]
        BY <2>2, <2>3, SMT DEF UpdateProjectRequest, ProjectFields
    <2> QED
        BY <2>1, <2>2, <2>4, <2>5
<1> QED
    BY <1>1, <1>2, <1>3 DEF ActionKind

\* A comment sets no field.
LEMMA CommentSets ==
    ASSUME Action.kind = "add_comment", NEW f
    PROVE  ~ Sets(f)
BY DEF Sets, Settable

\* A request for an action that is not a comment.
LEMMA RequestOf ==
    ASSUME NEW w, Action.kind # "add_comment"
    PROVE  /\ CallRequest(w).revision = read[w].revision
           /\ CallRequest(w).fields = FieldsRequest(Action, read[w].fields)
BY DEF CallRequest, ExpectedRevision

\* What a write does to the entity.
LEMMA WrittenFacts ==
    ASSUME NEW q
    PROVE  /\ Action.kind = "add_comment" => Written(q) = entity
           /\ Action.kind # "add_comment" =>
                /\ Written(q).revision = entity.revision + 1
                /\ DOMAIN Written(q).fields = Fields
                /\ \A f \in Fields : Written(q).fields[f] =
                        IF f \in DOMAIN q.fields THEN q.fields[f] ELSE entity.fields[f]
BY DEF Written

\* The key is the same at every attempt, so that only the first write of all
\* takes effect.
LEMMA ApplyFacts ==
    ASSUME NEW n, NEW q, LedgerInv, Apply(idempotency_key(n), q)
    PROVE  effects = 0 /\ effects' = 1 /\ Answered(0)' /\ entity' = Written(q)
<1>1. Entry(0, q).key = 0 /\ Entry(0, q) \in ledger' /\ ~ Answered(0)
      /\ effects' = effects + 1 /\ entity' = Written(q)
    BY DEF Apply, idempotency_key, Entry
<1> QED
    BY <1>1 DEF LedgerInv, Answered

\* An action without a target or a body is one of an event.
LEMMA NoTarget ==
    ASSUME TypeOK, RuleInv, NEW w \in Workers, pc[w] # "idle"
    PROVE  /\ Target(Action, payload) = None =>
                Wanting(IF Action.kind = "update_project" THEN "project_target_required"
                        ELSE "issue_target_required")
           /\ Action.kind = "add_comment" => Action.comment_body # None
<1>1. /\ valid_rule(rule) /\ rule \in Requests
      /\ rule.trigger.kind = "event" =>
            payload.entity_kind \in EntityKind /\ payload.entity_id # None
    BY DEF RuleInv, TypeOK
<1>2. /\ rule.trigger.kind \in {"event", "schedule"}
      /\ rule.trigger.kind = "schedule" =>
            IF Action.kind = "update_project" THEN Action.project_id # None
            ELSE Action.issue_id # None
      /\ Action.kind = "add_comment" => Action.comment_body # None
    BY <1>1, ValidKind
<1>3. ASSUME Target(Action, payload) = None, Action.kind = "update_project"
      PROVE  Wanting("project_target_required")
    <2>1. Action.project_id = None /\ (payload.entity_kind = "project" => payload.entity_id = None)
        BY <1>3 DEF Target, ProjectTarget
    <2> QED
        BY <1>1, <1>2, <1>3, <2>1 DEF Wanting, EntityKind
<1>4. ASSUME Target(Action, payload) = None, Action.kind # "update_project"
      PROVE  Wanting("issue_target_required")
    <2>1. Action.issue_id = None /\ (payload.entity_kind = "issue" => payload.entity_id = None)
        BY <1>4 DEF Target, IssueTarget
    <2> QED
        BY <1>1, <1>2, <1>4, <2>1 DEF Wanting, EntityKind
<1> QED
    BY <1>2, <1>3, <1>4

\* The write of a worker: it is the first of all, it makes a new revision
\* unless it is a comment, and it sets the fields of the action alone, because
\* what the worker repeats it has read at the revision that it names.
LEMMA Applied ==
    ASSUME IInv, NEW w \in Workers, pc[w] = "call",
           Apply(idempotency_key(attempt[w]), CallRequest(w))
    PROVE  /\ effects = 0 /\ effects' = 1 /\ Answered(0)'
           /\ \A a \in ledger' : a.key \in Attempts
           /\ DOMAIN entity'.fields = Fields /\ entity'.revision \in Nat
           /\ Action.kind # "add_comment" => entity'.revision = entity.revision + 1
           /\ \A f \in Fields :
                entity'.fields[f] = IF Sets(f) THEN Action[Column(f)] ELSE entity.fields[f]
<1>1. /\ effects = 0 /\ effects' = 1 /\ Answered(0)'
      /\ entity' = Written(CallRequest(w))
    BY ApplyFacts DEF IInv
<1>2. \A a \in ledger' : a.key \in Attempts
    <2>1. Entry(0, CallRequest(w)).key = 0
        BY DEF Entry
    <2>2. ledger' = ledger \cup {Entry(0, CallRequest(w))} /\ 0 \in Attempts
        BY BoundsAssumption DEF Apply, idempotency_key, Attempts
    <2> QED
        BY <2>1, <2>2 DEF IInv, TypeOK
<1>3. Action.kind \in ActionKind
    BY ValidKind DEF IInv, TypeOK, RuleInv
<1>4. DOMAIN entity.fields = Fields /\ entity.revision \in Nat
    BY DEF IInv, TypeOK
<1>5. CASE Action.kind = "add_comment"
    BY <1>1, <1>2, <1>4, <1>5, WrittenFacts, CommentSets
<1>6. CASE Action.kind # "add_comment"
    <2>1. /\ CallRequest(w).revision = read[w].revision
          /\ CallRequest(w).fields = FieldsRequest(Action, read[w].fields)
        BY <1>6, RequestOf
    <2>2. read[w] = entity
        BY <1>6, <2>1 DEF Apply, IInv, ReadInv
    <2>3. /\ entity'.revision = entity.revision + 1
          /\ DOMAIN entity'.fields = Fields
          /\ \A f \in Fields : entity'.fields[f] =
                IF f \in DOMAIN CallRequest(w).fields THEN CallRequest(w).fields[f]
                ELSE entity.fields[f]
        BY <1>1, <1>6, WrittenFacts
    <2>4. /\ \A f \in Fields : Sets(f) => f \in DOMAIN CallRequest(w).fields
          /\ \A f \in DOMAIN CallRequest(w).fields :
                CallRequest(w).fields[f] =
                    IF Sets(f) THEN Action[Column(f)] ELSE entity.fields[f]
        BY <1>3, <1>6, <2>1, <2>2, RequestFields
    <2>5. \A f \in Fields :
            entity'.fields[f] = IF Sets(f) THEN Action[Column(f)] ELSE entity.fields[f]
        BY <2>3, <2>4
    <2> QED
        BY <1>1, <1>2, <1>4, <2>3, <2>5
<1> QED
    BY <1>5, <1>6

---------------------------------------------------------------------------
(* The invariant is inductive.                                             *)

LEMMA Start == ASSUME Init PROVE IInv
<1>1. None \notin Required
    BY NoneIsNoResult
<1>2. receipt.status = "pending" /\ receipt.detail = None
      /\ receipt \in [status : {"pending", "succeeded"}, detail : {None}]
    BY DEF Init
<1>3. \A w \in Workers : pc[w] = "idle"
    BY DEF Init
<1>4. TypeOK /\ Shapes
    <2>1. DOMAIN entity.fields = Fields /\ entity.revision = 1
        BY DEF Init
    <2>2. /\ attempt \in [Workers -> Attempts] /\ 0 \in Attempts
          /\ 0 \in 0..MaxEdits /\ 0 \in 0..MaxFaults
        BY BoundsAssumption DEF Init, Attempts
    <2> QED
        BY <1>2, <2>1, <2>2 DEF Init, TypeOK, Shapes
<1>5. RuleInv
    BY <1>3 DEF Init, RuleInv
<1>6. LedgerInv /\ ReadInv /\ OutcomeInv /\ ReceiptIsTrue
    BY <1>2, <1>3 DEF Init, LedgerInv, ReadInv, OutcomeInv, ReceiptIsTrue
<1>7. TargetInv
    BY <1>1, <1>2, <1>3 DEF TargetInv, Wanting
<1> QED
    BY <1>4, <1>5, <1>6, <1>7 DEF IInv

LEMMA Stutter == ASSUME IInv, UNCHANGED vars PROVE IInv'
<1>1. UNCHANGED <<rule, stage, payload, receipt, pc, attempt, read, outcome,
                  entity, ledger, effects, begun, edits, faults>>
    BY DEF vars, intake, worker, projects, bounds
<1> QED
    BY <1>1 DEF IInv, TypeOK, Shapes, RuleInv, LedgerInv, ReadInv, OutcomeInv,
        ReceiptIsTrue, TargetInv, Wanting, Action, Answered

\* Before the execution no worker is at the action, and nothing has failed.
LEMMA Before ==
    ASSUME IInv, stage \in {"submitted", "accepted"},
           UNCHANGED <<rule, receipt, worker, projects, bounds>>,
           stage' \in {"refused", "accepted", "running"},
           stage' # "refused" => valid_rule(rule),
           payload' = None \/ DOMAIN payload' = {"entity_kind", "entity_id", "project_id"},
           stage' = "running" /\ rule.trigger.kind = "event" =>
                payload'.entity_kind \in EntityKind /\ payload'.entity_id # None
    PROVE  IInv'
<1>1. UNCHANGED <<pc, attempt, read, outcome, entity, ledger, effects, begun, edits, faults>>
    BY DEF worker, projects, bounds
<1>2. /\ \A w \in Workers : pc[w] = "idle"
      /\ receipt.detail \notin Required
    BY DEF IInv, RuleInv, TargetInv
<1>3. TypeOK' /\ Shapes'
    BY <1>1 DEF IInv, TypeOK, Shapes
<1>4. RuleInv'
    BY <1>1, <1>2 DEF RuleInv
<1>5. LedgerInv' /\ ReadInv' /\ OutcomeInv' /\ ReceiptIsTrue'
    BY <1>1, <1>2 DEF IInv, LedgerInv, ReadInv, OutcomeInv, ReceiptIsTrue, Answered
<1>6. TargetInv'
    BY <1>1, <1>2 DEF TargetInv, Wanting
<1> QED
    BY <1>3, <1>4, <1>5, <1>6 DEF IInv

LEMMA SubmitStep == ASSUME IInv, Submit PROVE IInv'
<1>1. /\ stage = "submitted" /\ payload' = payload
      /\ UNCHANGED <<rule, receipt, worker, projects, bounds>>
      /\ stage' = IF valid_rule(rule) THEN "accepted" ELSE "refused"
    BY DEF Submit
<1>2. payload = None \/ DOMAIN payload = {"entity_kind", "entity_id", "project_id"}
    BY DEF IInv, TypeOK
<1> QED
    BY <1>1, <1>2, Before

LEMMA EventStep == ASSUME IInv, NEW event \in SomeEvents, EventArrives(event) PROVE IInv'
<1>1. /\ stage = "accepted" /\ stage' = "running" /\ payload' = EventPayload(event)
      /\ UNCHANGED <<rule, receipt, worker, projects, bounds>>
    BY DEF EventArrives
<1>2. valid_rule(rule)
    BY <1>1 DEF IInv, RuleInv
<1>3. /\ DOMAIN payload' = {"entity_kind", "entity_id", "project_id"}
      /\ payload'.entity_kind \in EntityKind /\ payload'.entity_id # None
    BY <1>1, BoundsAssumption DEF EventPayload
<1> QED
    BY <1>1, <1>2, <1>3, Before

LEMMA TimerStep == ASSUME IInv, TimerArrives PROVE IInv'
<1>1. /\ stage = "accepted" /\ stage' = "running" /\ payload' = TimerPayload
      /\ rule.trigger.kind = "schedule"
      /\ UNCHANGED <<rule, receipt, worker, projects, bounds>>
    BY DEF TimerArrives
<1>2. valid_rule(rule)
    BY <1>1 DEF IInv, RuleInv
<1>3. DOMAIN payload' = {"entity_kind", "entity_id", "project_id"}
    BY <1>1 DEF TimerPayload
<1> QED
    BY <1>1, <1>2, <1>3, Before

\* A step of a worker within the execution keeps what holds of the rule.
LEMMA RuleKept ==
    ASSUME IInv, NEW w \in Workers, stage \in {"running", "ended"},
           stage' \in {stage, "ended"}, UNCHANGED <<rule, payload>>,
           \A v \in Workers : v # w => pc'[v] = pc[v]
    PROVE  RuleInv'
<1>1. stage' \in {"running", "ended"}
    OBVIOUS
<1> QED
    BY <1>1 DEF IInv, RuleInv

LEMMA BeginStep == ASSUME IInv, NEW w \in Workers, Begin(w) PROVE IInv'
<1>1. /\ UNCHANGED <<rule, stage, payload, receipt, read, outcome, entity, ledger, effects,
                     edits, faults>>
      /\ stage = "running" /\ begun < MaxAttempts /\ begun' = begun + 1
      /\ attempt' = [attempt EXCEPT ![w] = begun'] /\ pc' = [pc EXCEPT ![w] = "resolve"]
    BY DEF Begin, intake, projects, Goto
<1>2. /\ pc'[w] = "resolve" /\ \A v \in Workers : v # w => pc'[v] = pc[v]
    BY <1>1 DEF IInv, TypeOK
<1>3. TypeOK' /\ Shapes'
    <2>1. begun' \in Attempts
        BY <1>1, BoundsAssumption DEF IInv, TypeOK, Attempts
    <2> QED
        BY <1>1, <2>1 DEF IInv, TypeOK, Shapes
<1>4. RuleInv'
    BY <1>1, <1>2, RuleKept
<1>5. LedgerInv' /\ ReadInv' /\ OutcomeInv' /\ ReceiptIsTrue' /\ TargetInv'
    BY <1>1, <1>2 DEF IInv, LedgerInv, ReadInv, OutcomeInv, ReceiptIsTrue, TargetInv, Wanting,
        Answered, Action
<1> QED
    BY <1>3, <1>4, <1>5 DEF IInv

\* A step of a worker that ends, or goes on to the write: the entity is read
\* already, and a result of the call is one that Projects or the rule gives.
LEMMA GoesOn ==
    ASSUME IInv, NEW w \in Workers, pc[w] # "idle",
           UNCHANGED <<intake, receipt, attempt, projects, bounds>>,
           NEW label, NEW result,
           pc' = [pc EXCEPT ![w] = label], label \in {"get", "call", "save"},
           outcome' = [outcome EXCEPT ![w] = result],
           DOMAIN read' = Workers, \A v \in Workers : v # w => read'[v] = read[v],
           label = "call" /\ Action.kind # "add_comment" => read'[w] = entity,
           result \in {outcome[w], "succeeded", Rejected} \cup Required,
           label = "save" => /\ result # None
                             /\ result = "succeeded" => effects = 1
                             /\ Wanting(result)
    PROVE  IInv'
<1>1. UNCHANGED <<rule, stage, payload, entity, ledger, effects, begun, edits, faults>>
    BY DEF intake, projects, bounds
<1>2. /\ pc'[w] = label /\ \A v \in Workers : v # w => pc'[v] = pc[v]
      /\ outcome'[w] = result /\ \A v \in Workers : v # w => outcome'[v] = outcome[v]
    BY DEF IInv, TypeOK
<1>3. TypeOK' /\ Shapes'
    BY <1>1 DEF IInv, TypeOK, Shapes
<1>4. RuleInv'
    <2>1. stage \in {"running", "ended"}
        BY DEF IInv, RuleInv
    <2> QED
        BY <1>1, <1>2, <2>1, RuleKept
<1>5. LedgerInv' /\ ReceiptIsTrue'
    BY <1>1 DEF IInv, LedgerInv, ReceiptIsTrue, Answered
<1>6. ReadInv'
    <2>1. entity.revision \in Nat /\ Action' = Action
        BY <1>1 DEF IInv, TypeOK, Action
    <2> QED
        BY <1>1, <1>2, <2>1 DEF IInv, ReadInv
<1>7. OutcomeInv'
    BY <1>1, <1>2 DEF IInv, OutcomeInv
<1>8. TargetInv'
    BY <1>1, <1>2 DEF IInv, TargetInv, Wanting
<1> QED
    BY <1>3, <1>4, <1>5, <1>6, <1>7, <1>8 DEF IInv

\* A rejection and a success want nothing.
LEMMA WantsNothing == Wanting(Rejected) /\ Wanting("succeeded")
BY DEF Wanting, Rejected, Required

LEMMA ResolveStep == ASSUME IInv, NEW w \in Workers, ResolveTarget(w) PROVE IInv'
<1>1. /\ pc[w] = "resolve" /\ read' = read
      /\ UNCHANGED <<intake, receipt, attempt, projects, bounds>>
      /\ DOMAIN read = Workers
    BY DEF ResolveTarget, IInv, Shapes
<1>2. /\ Target(Action, payload) = None =>
            Wanting(IF Action.kind = "update_project" THEN "project_target_required"
                    ELSE "issue_target_required")
      /\ Action.kind = "add_comment" => Action.comment_body # None
    BY <1>1, NoTarget DEF IInv
<1>3. CASE Target(Action, payload) = None
    <2> DEFINE code == IF Action.kind = "update_project" THEN "project_target_required"
                       ELSE "issue_target_required"
    <2>1. outcome' = [outcome EXCEPT ![w] = code] /\ pc' = [pc EXCEPT ![w] = "save"]
        BY <1>3 DEF ResolveTarget, End, Goto
    <2>2. code \in Required /\ code # None /\ code # "succeeded" /\ Wanting(code)
        BY <1>2, <1>3, NoneIsNoResult DEF Required
    <2> HIDE DEF code
    <2> QED
        BY <1>1, <2>1, <2>2, GoesOn
<1>4. CASE Target(Action, payload) # None
    <2> DEFINE label == IF Action.kind = "add_comment" THEN "call" ELSE "get"
    <2>1. outcome' = outcome /\ pc' = [pc EXCEPT ![w] = label]
        BY <1>2, <1>4 DEF ResolveTarget, Goto
    <2>2. outcome' = [outcome EXCEPT ![w] = outcome[w]]
        BY <2>1 DEF IInv, TypeOK
    <2>3. label \in {"get", "call"} /\ (label = "call" => Action.kind = "add_comment")
        OBVIOUS
    <2> HIDE DEF label
    <2> QED
        BY <1>1, <2>1, <2>2, <2>3, GoesOn
<1> QED
    BY <1>3, <1>4

LEMMA GetStep == ASSUME IInv, NEW w \in Workers, GetEntity(w) PROVE IInv'
<1>1. /\ pc[w] = "get"
      /\ UNCHANGED <<intake, receipt, attempt, projects, bounds>>
      /\ DOMAIN read = Workers
    BY DEF GetEntity, IInv, Shapes
<1>2. CASE read' = [read EXCEPT ![w] = entity] /\ Goto(w, "call") /\ outcome' = outcome
    <2>1. outcome' = [outcome EXCEPT ![w] = outcome[w]] /\ pc' = [pc EXCEPT ![w] = "call"]
        BY <1>2 DEF IInv, TypeOK, Goto
    <2>2. DOMAIN read' = Workers /\ read'[w] = entity /\ \A v \in Workers : v # w => read'[v] = read[v]
        BY <1>1, <1>2
    <2> QED
        BY <1>1, <2>1, <2>2, GoesOn
<1>3. CASE End(w, Rejected) /\ read' = read
    <2>1. outcome' = [outcome EXCEPT ![w] = Rejected] /\ pc' = [pc EXCEPT ![w] = "save"]
        BY <1>3 DEF End, Goto
    <2>2. Rejected # None /\ Rejected # "succeeded" /\ Wanting(Rejected)
        BY NoneIsNoResult, WantsNothing DEF Rejected
    <2> QED
        BY <1>1, <1>3, <2>1, <2>2, GoesOn
<1> QED
    BY <1>2, <1>3 DEF GetEntity

\* The write itself: whatever the worker does next, the invariant holds of the
\* rest, because the others now know an older revision.
LEMMA AppliedKeeps ==
    ASSUME IInv, NEW w \in Workers, pc[w] = "call", rule' = rule,
           Apply(idempotency_key(attempt[w]), CallRequest(w)),
           pc'[w] # "call", \A v \in Workers : v # w => pc'[v] = pc[v] /\ read'[v] = read[v]
    PROVE  ReadInv' /\ LedgerInv'
<1>1. /\ effects' = 1 /\ Answered(0)'
      /\ entity'.revision \in Nat
      /\ Action.kind # "add_comment" => entity'.revision = entity.revision + 1
    BY Applied
<1>2. entity.revision \in Nat /\ Action' = Action
    BY DEF IInv, TypeOK, Action
<1> QED
    BY <1>1, <1>2 DEF IInv, ReadInv, LedgerInv

LEMMA CallStep == ASSUME IInv, NEW w \in Workers, CallProjects(w) PROVE IInv'
<1>1. /\ pc[w] = "call" /\ read' = read /\ DOMAIN read = Workers
      /\ UNCHANGED <<intake, receipt, attempt, bounds>>
    BY DEF CallProjects, IInv, Shapes
<1>2. "succeeded" # None /\ Rejected # None /\ Rejected # "succeeded"
      /\ Wanting("succeeded") /\ Wanting(Rejected)
    BY NoneIsNoResult, WantsNothing DEF Rejected
<1>3. CASE Apply(idempotency_key(attempt[w]), CallRequest(w)) /\ End(w, "succeeded")
    <2>1. outcome' = [outcome EXCEPT ![w] = "succeeded"] /\ pc' = [pc EXCEPT ![w] = "save"]
        BY <1>3 DEF End, Goto
    <2>2. /\ pc'[w] = "save" /\ \A v \in Workers : v # w => pc'[v] = pc[v]
          /\ outcome'[w] = "succeeded" /\ \A v \in Workers : v # w => outcome'[v] = outcome[v]
        BY <2>1 DEF IInv, TypeOK
    <2>3. UNCHANGED <<rule, stage, payload, receipt, attempt, begun, edits, faults>>
        BY <1>1 DEF intake, bounds
    <2>4. /\ effects' = 1 /\ \A a \in ledger' : a.key \in Attempts
          /\ DOMAIN entity'.fields = Fields /\ entity'.revision \in Nat
        BY <1>1, <1>3, Applied
    <2>5. TypeOK' /\ Shapes'
        BY <1>1, <2>1, <2>3, <2>4 DEF IInv, TypeOK, Shapes
    <2>6. RuleInv'
        <3>1. stage \in {"running", "ended"}
            BY <1>1 DEF IInv, RuleInv
        <3> QED
            BY <2>2, <2>3, <3>1, RuleKept
    <2>7. ReadInv' /\ LedgerInv'
        BY <1>1, <1>3, <2>2, <2>3, AppliedKeeps
    <2>8. OutcomeInv' /\ ReceiptIsTrue'
        BY <1>2, <2>2, <2>3, <2>4 DEF IInv, OutcomeInv, ReceiptIsTrue
    <2>9. TargetInv'
        BY <1>2, <2>2, <2>3 DEF IInv, TargetInv, Wanting
    <2> QED
        BY <2>5, <2>6, <2>7, <2>8, <2>9 DEF IInv
<1>4. CASE Answered(idempotency_key(attempt[w])) /\ End(w, "succeeded") /\ UNCHANGED projects
    <2>1. outcome' = [outcome EXCEPT ![w] = "succeeded"] /\ pc' = [pc EXCEPT ![w] = "save"]
        BY <1>4 DEF End, Goto
    <2>2. effects = 1
        BY <1>4 DEF IInv, LedgerInv, Answered
    <2> QED
        BY <1>1, <1>2, <1>4, <2>1, <2>2, GoesOn
<1>5. CASE DependencyFailure(w) /\ UNCHANGED projects
    <2>1. outcome' = [outcome EXCEPT ![w] = Rejected] /\ pc' = [pc EXCEPT ![w] = "save"]
        BY <1>5 DEF DependencyFailure, End, Goto
    <2> QED
        BY <1>1, <1>2, <1>5, <2>1, GoesOn
<1> QED
    BY <1>3, <1>4, <1>5 DEF CallProjects

LEMMA SaveStep == ASSUME IInv, NEW w \in Workers, SaveReceipt(w) PROVE IInv'
<1>1. /\ pc[w] = "save" /\ receipt' = ReceiptOf(outcome[w])
      /\ pc' = [pc EXCEPT ![w] = "complete"]
      /\ UNCHANGED <<rule, stage, payload, attempt, read, outcome, entity, ledger, effects,
                     begun, edits, faults>>
    BY DEF SaveReceipt, Goto, intake, projects, bounds
<1>2. pc'[w] = "complete" /\ \A v \in Workers : v # w => pc'[v] = pc[v]
    BY <1>1 DEF IInv, TypeOK
<1>3. /\ outcome[w] \in {"succeeded"} \cup Required \cup {Rejected}
      /\ outcome[w] = "succeeded" => effects = 1
      /\ Wanting(outcome[w])
      /\ stage \in {"running", "ended"}
    BY <1>1 DEF IInv, TypeOK, OutcomeInv, TargetInv, RuleInv
<1>4. /\ receipt' \in [status : {"pending", "succeeded"}, detail : {None}]
                      \cup [status : {"failed"}, detail : Required \cup {Rejected}]
      /\ receipt'.status = "succeeded" => outcome[w] = "succeeded"
      /\ receipt'.detail = outcome[w] \/ receipt'.detail = None
    BY <1>1, <1>3 DEF ReceiptOf
<1>5. TypeOK' /\ Shapes'
    BY <1>1, <1>4 DEF IInv, TypeOK, Shapes
<1>6. RuleInv'
    BY <1>1, <1>2, <1>3, RuleKept
<1>7. LedgerInv' /\ ReadInv' /\ OutcomeInv'
    BY <1>1, <1>2 DEF IInv, LedgerInv, ReadInv, OutcomeInv, Answered, Action
<1>8. ReceiptIsTrue'
    BY <1>1, <1>3, <1>4 DEF ReceiptIsTrue
<1>9. TargetInv'
    BY <1>1, <1>2, <1>3, <1>4, NoneIsNoResult DEF IInv, TargetInv, Wanting
<1> QED
    BY <1>5, <1>6, <1>7, <1>8, <1>9 DEF IInv

\* A worker that is done, or that gives up, has nothing left.
LEMMA Forgets ==
    ASSUME IInv, NEW w \in Workers, Forget(w)
    PROVE  /\ pc'[w] = "idle" /\ \A v \in Workers : v # w => pc'[v] = pc[v]
           /\ \A v \in Workers : v # w => read'[v] = read[v] /\ outcome'[v] = outcome[v]
           /\ pc' \in [Workers -> {"idle", "resolve", "get", "call", "save", "complete"}]
           /\ attempt' \in [Workers -> Attempts]
           /\ outcome' \in [Workers -> {None, "succeeded"} \cup Required \cup {Rejected}]
           /\ DOMAIN read' = Workers
<1>1. 0 \in Attempts
    BY BoundsAssumption DEF Attempts
<1> QED
    BY <1>1 DEF IInv, TypeOK, Shapes, Forget, Goto

LEMMA CompleteStep == ASSUME IInv, NEW w \in Workers, Complete(w) PROVE IInv'
<1>1. /\ pc[w] = "complete" /\ stage' = "ended" /\ Forget(w)
      /\ UNCHANGED <<rule, payload, receipt, entity, ledger, effects, begun, edits, faults>>
    BY DEF Complete, projects, bounds
<1>2. stage \in {"running", "ended"}
    BY <1>1 DEF IInv, RuleInv
<1>3. TypeOK' /\ Shapes'
    BY <1>1, Forgets DEF IInv, TypeOK, Shapes
<1>4. RuleInv'
    BY <1>1, <1>2, Forgets, RuleKept
<1>5. LedgerInv' /\ ReceiptIsTrue'
    BY <1>1 DEF IInv, LedgerInv, ReceiptIsTrue, Answered
<1>6. ReadInv' /\ OutcomeInv' /\ TargetInv'
    BY <1>1, <1>2, Forgets DEF IInv, ReadInv, OutcomeInv, TargetInv, Wanting, Action
<1> QED
    BY <1>3, <1>4, <1>5, <1>6 DEF IInv

LEMMA FailStep == ASSUME IInv, NEW w \in Workers, Fail(w) PROVE IInv'
<1>1. /\ pc[w] # "idle" /\ faults < MaxFaults /\ faults' = faults + 1 /\ Forget(w)
      /\ UNCHANGED <<rule, stage, payload, receipt, begun, edits>>
    BY DEF Fail, intake
<1>2. stage \in {"running", "ended"} /\ faults' \in 0..MaxFaults
    BY <1>1, BoundsAssumption DEF IInv, RuleInv, TypeOK
<1>3. RuleInv'
    BY <1>1, <1>2, Forgets, RuleKept
<1>4. TargetInv'
    BY <1>1, Forgets DEF IInv, TargetInv, Wanting
<1>5. CASE UNCHANGED projects
    <2>1. UNCHANGED <<entity, ledger, effects>>
        BY <1>5 DEF projects
    <2>2. TypeOK' /\ Shapes'
        BY <1>1, <1>2, <2>1, Forgets DEF IInv, TypeOK, Shapes
    <2>3. LedgerInv' /\ ReceiptIsTrue'
        BY <1>1, <2>1 DEF IInv, LedgerInv, ReceiptIsTrue, Answered
    <2>4. ReadInv' /\ OutcomeInv'
        BY <1>1, <2>1, Forgets DEF IInv, ReadInv, OutcomeInv, Action
    <2> QED
        BY <1>3, <1>4, <2>2, <2>3, <2>4 DEF IInv
<1>6. CASE pc[w] = "call" /\ Apply(idempotency_key(attempt[w]), CallRequest(w))
    <2>1. /\ effects' = 1 /\ \A a \in ledger' : a.key \in Attempts
          /\ DOMAIN entity'.fields = Fields /\ entity'.revision \in Nat
        BY <1>6, Applied
    <2>2. TypeOK' /\ Shapes'
        BY <1>1, <1>2, <2>1, Forgets DEF IInv, TypeOK, Shapes
    <2>3. ReadInv' /\ LedgerInv'
        BY <1>1, <1>6, Forgets, AppliedKeeps
    <2>4. OutcomeInv' /\ ReceiptIsTrue'
        BY <1>1, <2>1, Forgets DEF IInv, OutcomeInv, ReceiptIsTrue
    <2> QED
        BY <1>3, <1>4, <2>2, <2>3, <2>4 DEF IInv
<1> QED
    BY <1>5, <1>6 DEF Fail

LEMMA UserEditStep == ASSUME IInv, UserEdit PROVE IInv'
<1>1. /\ UNCHANGED <<rule, stage, payload, receipt, pc, attempt, read, outcome, ledger,
                     effects, begun, faults>>
      /\ edits < MaxEdits /\ edits' = edits + 1
      /\ entity' = [fields |-> [f \in Fields |-> UserValue[edits']],
                    revision |-> entity.revision + 1]
    BY DEF UserEdit, intake, worker
<1>2. entity.revision \in Nat /\ entity'.revision = entity.revision + 1
      /\ DOMAIN entity'.fields = Fields
    BY <1>1 DEF IInv, TypeOK
<1>3. TypeOK' /\ Shapes'
    <2>1. edits' \in 0..MaxEdits
        BY <1>1, BoundsAssumption DEF IInv, TypeOK
    <2> QED
        BY <1>1, <1>2, <2>1 DEF IInv, TypeOK, Shapes
<1>4. ReadInv'
    BY <1>1, <1>2 DEF IInv, ReadInv, Action
<1>5. RuleInv' /\ LedgerInv' /\ OutcomeInv' /\ ReceiptIsTrue' /\ TargetInv'
    BY <1>1 DEF IInv, RuleInv, LedgerInv, OutcomeInv, ReceiptIsTrue, TargetInv, Wanting, Answered
<1> QED
    BY <1>3, <1>4, <1>5 DEF IInv

LEMMA Step == IInv /\ [Next]_vars => IInv'
<1> SUFFICES ASSUME IInv, [Next]_vars PROVE IInv'
    OBVIOUS
<1>1. CASE UNCHANGED vars
    BY <1>1, Stutter
<1>2. CASE Submit
    BY <1>2, SubmitStep
<1>3. CASE \E event \in SomeEvents : EventArrives(event)
    BY <1>3, EventStep
<1>4. CASE TimerArrives
    BY <1>4, TimerStep
<1>5. CASE UserEdit
    BY <1>5, UserEditStep
<1>6. CASE \E w \in Workers : Worker(w)
    BY <1>6, BeginStep, ResolveStep, GetStep, CallStep, SaveStep, CompleteStep, FailStep
        DEF Worker
<1> QED
    BY <1>1, <1>2, <1>3, <1>4, <1>5, <1>6 DEF Next

LEMMA Invariant == Spec => []IInv
<1>1. Init => IInv
    BY Start
<1> QED
    BY <1>1, Step, PTL DEF Spec

---------------------------------------------------------------------------
(* The theorems.                                                           *)

\* Type correctness.
THEOREM TypeCorrect == Spec => []TypeOK
<1>1. IInv => TypeOK
    BY DEF IInv
<1> QED
    BY <1>1, Invariant, PTL

\* The action takes effect at most once: the key is the same at every attempt,
\* and Projects applies a key once.
THEOREM EffectAtMostOnce == Spec => []EffectOnce
<1>1. IInv => EffectOnce
    BY DEF IInv, LedgerInv, EffectOnce
<1> QED
    BY <1>1, Invariant, PTL

\* A receipt that says succeeded is about a write that has taken effect.
THEOREM ReceiptsAreTrue == Spec => []ReceiptIsTrue
<1>1. IInv => ReceiptIsTrue
    BY DEF IInv
<1> QED
    BY <1>1, Invariant, PTL

\* A rule that was accepted has its target and its comment at every attempt,
\* but for the one case in which the event is about the other kind of entity.
THEOREM AcceptedRulesHaveTargets == Spec => []AcceptedRuleHasTarget
<1>1. IInv => AcceptedRuleHasTarget
    BY DEF IInv, TargetInv, Wanting, AcceptedRuleHasTarget
<1> QED
    BY <1>1, Invariant, PTL

\* No edit of a user is lost: a write changes the fields that its action sets
\* and keeps all others as they are at that moment.
WriteKeeps ==
    effects' # effects =>
        \A f \in Fields :
            entity'.fields[f] = IF Sets(f) THEN Action[Column(f)] ELSE entity.fields[f]

\* Every write of an action is such a write.
THEOREM WritesKeepOtherFields == Spec => WritesOnlyItsFields
<1>1. IInv /\ [Next]_vars => [WriteKeeps]_vars
    <2> SUFFICES ASSUME IInv, Next, effects' # effects
                 PROVE  \A f \in Fields : entity'.fields[f] =
                            IF Sets(f) THEN Action[Column(f)] ELSE entity.fields[f]
        BY DEF WriteKeeps, vars, projects
    <2>1. PICK w \in Workers :
            pc[w] = "call" /\ Apply(idempotency_key(attempt[w]), CallRequest(w))
        BY DEF Next, Worker, Submit, EventArrives, TimerArrives, UserEdit, Begin, ResolveTarget,
            GetEntity, CallProjects, SaveReceipt, Complete, Fail, projects
    <2> QED
        BY <2>1, Applied
<1>2. WritesOnlyItsFields <=> [][WriteKeeps]_vars
    BY DEF WritesOnlyItsFields, WriteKeeps
<1> QED
    BY <1>1, <1>2, Invariant, PTL DEF Spec
=============================================================================

--------------------------- MODULE RuleRegister ---------------------------
(***************************************************************************)
(* What the four rule commands promise, without transactions: a register   *)
(* of rules where each command happens at once and entirely, at most once  *)
(* per idempotency key, and only on the revision its sender has seen.      *)
(***************************************************************************)
EXTENDS Naturals

CONSTANTS Requests, RuleIds, Keys, NoName

VARIABLES rules,    \* the rules
          commands  \* the command that used a key, and its response

vars == <<rules, commands>>

NoRule == [state |-> "absent", name |-> NoName, enabled |-> FALSE,
           trigger |-> "event", armed |-> FALSE, revision |-> 0]
NoRequest == [op |-> "none"]
NoCommand == [request |-> NoRequest]

Init ==
    /\ rules = [r \in RuleIds |-> NoRule]
    /\ commands = [k \in Keys |-> NoCommand]

NameFree(q) ==
    \A r \in RuleIds : r # q.rule /\ rules[r].state = "active" => rules[r].name # q.name

Admitted(q) ==
    /\ commands[q.key] = NoCommand
    /\ IF q.op = "create"
       THEN rules[q.rule].state = "absent"
       ELSE rules[q.rule].state = "active" /\ rules[q.rule].revision = q.expected_revision
    /\ q.op \in {"create", "update"} => NameFree(q)

\* The rule after the command: the fields that the command sets, the others
\* as they were, a new revision, and a next fire time exactly if the result
\* is an enabled schedule.
Effect(q) ==
    LET old == rules[q.rule]
        isEnabled == CASE q.op = "delete" -> FALSE
                       [] q.op \in {"create", "set_enabled"} -> q.enabled
                       [] q.op = "update" -> old.enabled
        newTrigger == IF q.op \in {"create", "update"} THEN q.trigger ELSE old.trigger
    IN  [state |-> IF q.op = "delete" THEN "deleted" ELSE "active",
         name |-> IF q.op \in {"create", "update"} THEN q.name ELSE old.name,
         enabled |-> isEnabled,
         trigger |-> newTrigger,
         armed |-> isEnabled /\ newTrigger = "schedule",
         revision |-> old.revision + 1]

Execute(q) ==
    /\ Admitted(q)
    /\ rules' = [rules EXCEPT ![q.rule] = Effect(q)]
    /\ commands' = [commands EXCEPT ![q.key] =
            [request |-> q,
             response |-> IF q.op = "delete" THEN [deleted |-> TRUE] ELSE Effect(q)]]

Next == \E q \in Requests : Execute(q)

Spec == Init /\ [][Next]_vars
===========================================================================

--------------------------- MODULE IntakeContract ---------------------------
(***************************************************************************)
(* What receive_event and receive_timer promise, without transactions and  *)
(* without trigger ids: a ledger that takes each trigger once, together    *)
(* with all the executions it will ever have, each made from the revision  *)
(* that its rule has at that moment.                                       *)
(***************************************************************************)
EXTENDS TriggerMatching

CONSTANTS Deliveries, RuleIds, InitialRules

VARIABLES rules,   \* the rules
          ledger   \* [source, dedupe_key, executions]: the triggers taken

vars == <<rules, ledger>>

Init ==
    /\ rules \in InitialRules
    /\ ledger = {}

Taken(d) ==
    \E entry \in ledger : entry.source = d.source /\ entry.dedupe_key = d.request.dedupe_key

Met(d) == {r \in RuleIds : Meets(d, r, rules)}

\* An allowed and valid delivery of a trigger that the ledger does not have.
\* An event may miss a rule that has begun to meet it only just now, a timer
\* does not miss its rule.
Take(d) ==
    /\ AllowedCaller(d) /\ ValidRequest(d)
    /\ ~ Taken(d)
    /\ \E fired \in SUBSET Met(d) :
        /\ d.source = "timer" => fired = Met(d)
        /\ ledger' = ledger \cup
            {[source |-> d.source, dedupe_key |-> d.request.dedupe_key,
              executions |-> {[rule |-> r, revision |-> rules[r].revision] : r \in fired}]}
    /\ UNCHANGED rules

\* A rule command, or the advance of a schedule.  What is deleted stays so,
\* and one revision of a rule is one definition.
ChangeRule(r) ==
    LET old == rules[r]
        new == rules'[r]
    IN  /\ old.state # "deleted"
        /\ new \in Rows
        /\ old.state = "active" =>
            /\ new.revision >= old.revision
            /\ new.revision = old.revision =>
                /\ new.state = "active"
                /\ new.enabled = old.enabled
                /\ new.definition = old.definition
        /\ \A s \in RuleIds \ {r} : rules'[s] = rules[s]
        /\ UNCHANGED ledger

Next == (\E d \in Deliveries : Take(d)) \/ (\E r \in RuleIds : ChangeRule(r))

Spec == Init /\ [][Next]_vars
===========================================================================

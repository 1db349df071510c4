-------------------------- MODULE MCRuleCommands --------------------------
(***************************************************************************)
(* Instances of RuleCommands for TLC: the requests that callers send.      *)
(***************************************************************************)
EXTENDS RuleCommands

MCCreate(key, rule, name, isEnabled, trigger) ==
    [op |-> "create", key |-> key, rule |-> rule, name |-> name,
     enabled |-> isEnabled, trigger |-> trigger]
MCUpdate(key, rule, revision, name, trigger) ==
    [op |-> "update", key |-> key, rule |-> rule, expected_revision |-> revision,
     name |-> name, trigger |-> trigger]
MCSetEnabled(key, rule, revision, isEnabled) ==
    [op |-> "set_enabled", key |-> key, rule |-> rule, expected_revision |-> revision,
     enabled |-> isEnabled]
MCDelete(key, rule, revision) ==
    [op |-> "delete", key |-> key, rule |-> rule, expected_revision |-> revision]

MCRuleIds == {1, 2}

\* One rule: update and disable race on one revision, deletes come on the
\* right and on a stale one, and a key is used for two requests.
MCOneRule ==
    {MCCreate("c1", 1, "a", TRUE, "event"),
     MCUpdate("u1", 1, 1, "b", "schedule"),
     MCUpdate("u1", 1, 2, "b", "schedule"),
     MCSetEnabled("e1", 1, 1, FALSE),
     MCDelete("d1", 1, 2)}
MCOneKeys == {"c1", "u1", "e1", "d1"}

\* Two rules that swap their names, and a name that two callers create.
MCTwoRules ==
    {MCCreate("c1", 1, "a", TRUE, "schedule"),
     MCCreate("c2", 2, "b", FALSE, "schedule"),
     MCCreate("c3", 2, "a", TRUE, "event"),
     MCUpdate("u1", 1, 1, "b", "event"),
     MCUpdate("u2", 2, 1, "a", "event")}
MCTwoKeys == {"c1", "c2", "c3", "u1", "u2"}
===========================================================================

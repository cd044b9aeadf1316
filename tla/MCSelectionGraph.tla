---------------------------- MODULE MCSelectionGraph ----------------------------
(* Small instances of SelectionGraph: two nodes and three groups with every  *)
(* choice of next, also to a group that is not declared.                     *)
EXTENDS SelectionGraph, TLC

CONSTANTS n1, n2, g1, g2, g3

MCNames == {n1, n2, g1, g2, g3}
MCTargets == {[family |-> "ipv4"], [family |-> "ipv6"]}

MCNode(on, v6, kind) == [enabled |-> on, ipv6 |-> v6, kind |-> kind]

MCNodeTables ==
  { n1 :> MCNode(TRUE, FALSE, "shadowsocks") @@ n2 :> MCNode(on, TRUE, kind) :
      <<on, kind>> \in {<<FALSE, "trojan">>, <<TRUE, "shadowsocks">>, <<TRUE, "trojan">>, <<TRUE, "direct">>} }

MCNext == {Direct, n2, g1, g2, g3}

MCGroupTables ==
  { g1 :> [enabled |-> TRUE, next |-> a] @@ g2 :> [enabled |-> on, next |-> b] @@ g3 :> [enabled |-> TRUE, next |-> c] :
      on \in BOOLEAN, a \in MCNext, b \in MCNext, c \in MCNext }
  \cup
  { g1 :> [enabled |-> TRUE, next |-> a] @@ g2 :> [enabled |-> TRUE, next |-> b] :
      a \in MCNext, b \in MCNext }

MCRule(id, priority, group, ipv6) ==
  [id |-> id, priority |-> priority, group |-> group, enabled |-> TRUE, ipv6 |-> ipv6, matches |-> MCTargets]

MCPolicies ==
  { [ipv6 |-> TRUE, rules |-> {MCRule(1, 5, g2, "allow"), MCRule(2, 5, g1, "deny")}],
    [ipv6 |-> TRUE, rules |-> {MCRule(1, 5, g2, "inherit"), MCRule(2, 6, g1, "deny")}],
    [ipv6 |-> TRUE, rules |-> {}],
    [ipv6 |-> FALSE, rules |-> {MCRule(1, 5, g2, "allow")}] }

MCSeeds ==
  { [ipv6 |-> p.ipv6, nodes |-> n, groups |-> g, default |-> g1, rules |-> p.rules,
     members |-> g1 :> <<n1, n2>> @@ g2 :> <<n2>> @@ (IF g3 \in DOMAIN g THEN g3 :> <<n1, n2>> ELSE << >>)] :
      n \in MCNodeTables, g \in MCGroupTables, p \in MCPolicies }
===============================================================================

----------------------------- MODULE SelectionGraph -----------------------------
(***************************************************************************)
(* From a configuration seed to the nodes a session is relayed through:     *)
(* validate_bootstrap accepts or rejects the seed, RuntimeState::select     *)
(* matches a rule and walks the groups along `next`, and GraphEgress        *)
(* executes the trace or refuses it.                                        *)
(*                                                                          *)
(* A seed is a record: nodes and groups are functions from names, members   *)
(* gives each group its nodes in the order of priority (load_groups makes   *)
(* every member enabled, with its index as priority), rules is a set.  What *)
(* a rule matches is a set of targets.  The DNS part of a seed is valid.    *)
(***************************************************************************)
EXTENDS Integers, FiniteSets, Sequences

CONSTANTS
  Names,      \* of nodes and groups
  Direct,     \* the reserved name "direct"
  Seeds,      \* the seeds of configuration files
  Targets,    \* [family] of "ipv4" or "ipv6"
  Rollout     \* groups for which active_rollout_group holds

ASSUME SelectionAssumption ==
  /\ Direct \notin Names
  /\ Targets # {}
  /\ \A s \in Seeds :
       /\ s.ipv6 \in BOOLEAN
       /\ DOMAIN s.nodes \subseteq Names
       /\ DOMAIN s.groups \subseteq Names
       /\ s.default \in Names
       /\ \A n \in DOMAIN s.nodes :
            /\ s.nodes[n].enabled \in BOOLEAN /\ s.nodes[n].ipv6 \in BOOLEAN
            /\ s.nodes[n].kind \in {"direct", "shadowsocks", "trojan"}
       /\ \A g \in DOMAIN s.groups :
            s.groups[g].enabled \in BOOLEAN /\ s.groups[g].next \in Names \cup {Direct}
       /\ \A g \in DOMAIN s.members : s.members[g] \in Seq(Names)
       /\ \A r \in s.rules :
            /\ r.id \in Nat /\ r.priority \in Int /\ r.group \in Names
            /\ r.enabled \in BOOLEAN /\ r.matches \subseteq Targets
            /\ r.ipv6 \in {"inherit", "allow", "deny"}

VARIABLES
  seed,
  pc,        \* "validate", "starts", "cycle", "rejected", "serving", "walk",
             \* "selected", "failed", "relayed"
  starts,    \* groups whose cycle check is to come
  start,     \* the group a walk started from
  current,   \* the group a walk is at
  seen,      \* the groups it was at
  target,
  trace,     \* the hops of select: group, node, next
  reason,    \* of a rejection or a failed selection
  path       \* the nodes that a relay goes through

walk == <<start, current, seen>>
selection == <<target, trace, path>>
vars == <<seed, pc, starts, walk, selection, reason>>

Nodes == DOMAIN seed.nodes
Groups == DOMAIN seed.groups
NextOf(g) == seed.groups[g].next

Init ==
  /\ seed \in Seeds
  /\ pc = "validate"
  /\ starts = {} /\ seen = {}
  /\ start = seed.default /\ current = seed.default
  /\ target = CHOOSE t \in Targets : TRUE
  /\ trace = <<>> /\ path = <<>>
  /\ reason = "none"

-------------------------------------------------------------------------------
(* validate_unique_ids.                                                      *)
UniqueNames ==
  /\ Nodes \cap Groups = {}
  /\ \A r, q \in seed.rules : r.id = q.id => r = q

(* The default group of validate_bootstrap.                                  *)
DefaultUsable ==
  /\ seed.default \in Groups
  /\ seed.groups[seed.default].enabled
  /\ seed.default \in DOMAIN seed.members /\ seed.members[seed.default] # <<>>

(* validate_references.                                                      *)
ReferencesExist ==
  /\ \A g \in DOMAIN seed.members :
       seed.members[g] # <<>> =>
         g \in Groups /\ \A i \in 1..Len(seed.members[g]) : seed.members[g][i] \in Nodes
  /\ \A r \in seed.rules : r.group \in Groups

(* As NextUsable would be if a disabled group could be next.                 *)
NextDeclared(g) ==
  \/ NextOf(g) = Direct
  \/ NextOf(g) \in Nodes /\ seed.nodes[NextOf(g)].enabled
  \/ NextOf(g) \in Groups

(* validate_group_next_reference.                                            *)
NextUsable(g) ==
  \/ NextOf(g) = Direct
  \/ NextOf(g) \in Nodes /\ seed.nodes[NextOf(g)].enabled
  \/ NextOf(g) \notin Nodes /\ NextOf(g) \in Groups /\ seed.groups[NextOf(g)].enabled

Validate ==
  /\ pc = "validate"
  /\ IF /\ UniqueNames /\ Nodes # {} /\ DefaultUsable /\ ReferencesExist
        /\ \A g \in Groups : NextUsable(g)
       THEN pc' = "starts" /\ starts' = Groups /\ UNCHANGED reason
       ELSE pc' = "rejected" /\ reason' = "reference" /\ UNCHANGED starts
  /\ UNCHANGED <<seed, walk, selection>>

(* validate_group_next_cycle begins with one of the groups.                  *)
CycleStart ==
  /\ pc = "starts"
  /\ \E g \in starts :
       /\ start' = g /\ current' = g /\ seen' = {}
       /\ starts' = starts \ {g}
  /\ pc' = "cycle"
  /\ UNCHANGED <<seed, selection, reason>>

(* As CycleStep would be if it did not remember the groups of the walk.      *)
CycleStepForgets ==
  /\ pc = "cycle"
  /\ seen' = seen
  /\ IF NextOf(current) \in Groups
       THEN current' = NextOf(current) /\ UNCHANGED pc
       ELSE pc' = "starts" /\ UNCHANGED current
  /\ UNCHANGED <<seed, starts, start, selection, reason>>

(* As CycleStep would be if a repeated group just ended the walk.            *)
CycleStepAccepts ==
  /\ pc = "cycle"
  /\ seen' = seen \cup {current}
  /\ IF current \notin seen /\ NextOf(current) \in Groups
       THEN current' = NextOf(current) /\ UNCHANGED pc
       ELSE pc' = "starts" /\ UNCHANGED current
  /\ UNCHANGED <<seed, starts, start, selection, reason>>

(* Its loop: a group seen twice is a cycle, direct and nodes end the walk.   *)
CycleStep ==
  /\ pc = "cycle"
  /\ IF current \in seen
       THEN pc' = "rejected" /\ reason' = "cycle" /\ UNCHANGED <<current, seen>>
       ELSE /\ seen' = seen \cup {current}
            /\ UNCHANGED reason
            /\ IF current \in Groups /\ NextOf(current) # Direct /\ NextOf(current) \notin Nodes
                 THEN current' = NextOf(current) /\ UNCHANGED pc
                 ELSE pc' = "starts" /\ UNCHANGED current
  /\ UNCHANGED <<seed, starts, start, selection>>

(* The routing snapshot is published.                                        *)
Serve ==
  /\ pc = "starts"
  /\ starts = {}
  /\ pc' = "serving"
  /\ UNCHANGED <<seed, starts, walk, selection, reason>>

-------------------------------------------------------------------------------
(* RouteRuleStore::match_group: the first of the enabled rules that match, by *)
(* descending priority and ascending id; without one, the default group.     *)
Matching(t) == {r \in seed.rules : r.enabled /\ t \in r.matches}

Before(r, q) == r.priority > q.priority \/ (r.priority = q.priority /\ r.id < q.id)

RouteMatch(t) ==
  IF Matching(t) = {}
    THEN {[group |-> seed.default, ipv6 |-> "inherit"]}
    ELSE {[group |-> r.group, ipv6 |-> r.ipv6] :
            r \in {q \in Matching(t) : \A o \in Matching(t) \ {q} : Before(q, o)}}

(* RuntimeState::select up to select_graph_with.                             *)
Select ==
  /\ pc = "serving"
  /\ \E t \in Targets : \E match \in RouteMatch(t) :
       /\ target' = t
       /\ IF t.family = "ipv6" /\ (~seed.ipv6 \/ match.ipv6 = "deny")
            THEN pc' = "failed" /\ reason' = "ipv6" /\ UNCHANGED walk
            ELSE /\ pc' = "walk"
                 /\ start' = match.group /\ current' = match.group /\ seen' = {}
                 /\ UNCHANGED reason
  /\ trace' = <<>> /\ path' = <<>>
  /\ UNCHANGED <<seed, starts>>

(* NodeStore::is_eligible, for a member n of group g.                        *)
Eligible(g, n) ==
  n \in Nodes /\ seed.nodes[n].enabled /\ (target.family = "ipv4" \/ seed.nodes[n].ipv6)

Members(g) == IF g \in DOMAIN seed.members THEN seed.members[g] ELSE <<>>

Candidates(g) ==
  {i \in 1..Len(Members(g)) : Eligible(g, Members(g)[i])}

(* The node of a hop: the matrix may choose any candidate of a rollout       *)
(* group (select_active_candidate), the others get their first.              *)
HopNodes(g) ==
  IF g \in Rollout THEN {Members(g)[i] : i \in Candidates(g)}
  ELSE {Members(g)[i] : i \in {j \in Candidates(g) : \A k \in Candidates(g) : j <= k}}

(* What select_graph_with does with the next of a hop: direct and an         *)
(* enabled node end the walk, any other name is the next group.              *)
Advance(next) ==
  IF next = Direct \/ (next \in Nodes /\ seed.nodes[next].enabled)
    THEN pc' = "selected" /\ UNCHANGED current
    ELSE current' = next /\ UNCHANGED pc

(* What select_group_hop and the cycle test before it refuse.                *)
HopError ==
  CASE current \in seen -> "cycle"
    [] current \notin seen /\ current \notin Groups -> "missing"
    [] current \in Groups \ seen /\ ~seed.groups[current].enabled -> "disabled"
    [] OTHER -> IF Candidates(current) = {} THEN "no node" ELSE "none"

(* One turn of the loop of select_graph_with.                                *)
Hop ==
  /\ pc = "walk"
  /\ \/ /\ HopError # "none"
        /\ pc' = "failed" /\ reason' = HopError
        /\ UNCHANGED <<walk, selection>>
     \/ /\ HopError = "none"
        /\ \E n \in HopNodes(current) :
             trace' = Append(trace, [group |-> current, node |-> n, next |-> NextOf(current)])
        /\ seen' = seen \cup {current}
        /\ Advance(NextOf(current))
        /\ UNCHANGED <<start, target, path, reason>>
  /\ UNCHANGED <<seed, starts>>

-------------------------------------------------------------------------------
FinalHop == trace[Len(trace)]

Terminal == FinalHop.next

Kind(i) == seed.nodes[trace[i].node].kind

NodesOf(hops) == [i \in 1..Len(hops) |-> hops[i].node]

(* GraphEgress::handle_tcp: one hop by itself, or two of them with the head  *)
(* as dialer.                                                                *)
TcpRelays == Terminal = Direct /\ Len(trace) <= 2

(* GraphEgress::handle_udp: the tail of two hops needs a dialer underlay or  *)
(* Shadowsocks over Shadowsocks.                                             *)
UdpRelays ==
  /\ Terminal = Direct
  /\ \/ Len(trace) = 1
     \/ /\ Len(trace) = 2
        /\ Kind(2) = "trojan" \/ (Kind(1) = "shadowsocks" /\ Kind(2) = "shadowsocks")

(* The nodes the relay goes through: the tail, dialled by the head if there  *)
(* is one.                                                                   *)
RelayPath ==
  IF Len(trace) = 2 THEN <<trace[1].node, trace[2].node>> ELSE <<FinalHop.node>>

(* GraphEgress executes the decision, or fails with an egress error.         *)
Execute(relays) ==
  /\ pc = "selected"
  /\ IF relays
       THEN pc' = "relayed" /\ path' = RelayPath /\ UNCHANGED reason
       ELSE pc' = "failed" /\ reason' = "egress" /\ UNCHANGED path
  /\ UNCHANGED <<seed, starts, walk, target, trace>>

HandleTcp == Execute(TcpRelays)

HandleUdp == Execute(UdpRelays)

(* The next session; the routing snapshot is as it was.                      *)
Done ==
  /\ pc \in {"failed", "relayed"}
  /\ pc' = "serving" /\ reason' = "none"
  /\ UNCHANGED <<seed, starts, walk, selection>>

(* A rejected seed is never published.                                       *)
Rejected == pc = "rejected" /\ UNCHANGED vars

Next ==
  \/ Validate \/ CycleStart \/ CycleStep \/ Serve
  \/ Select \/ Hop \/ HandleTcp \/ HandleUdp \/ Done \/ Rejected

Spec == Init /\ [][Next]_vars

(* Validation, selection and the choice of the relay are loops of one task   *)
(* that wait for nothing.                                                    *)
Proceeds == Validate \/ CycleStart \/ CycleStep \/ Serve \/ Hop \/ HandleTcp \/ HandleUdp
FairSpec == Spec /\ WF_vars(Proceeds)

-------------------------------------------------------------------------------
Hops == [group : Names, node : Names, next : Names \cup {Direct}]

(* The type invariant.                                                       *)
TypeOK ==
  /\ pc \in {"validate", "starts", "cycle", "rejected", "serving", "walk",
             "selected", "failed", "relayed"}
  /\ starts \subseteq Names /\ seen \subseteq Names
  /\ start \in Names /\ current \in Names
  /\ target \in Targets
  /\ trace \in Seq(Hops)
  /\ path \in Seq(Names)
  /\ reason \in {"none", "reference", "cycle", "missing", "disabled", "no node", "ipv6", "egress"}

Published == pc \in {"serving", "walk", "selected", "failed", "relayed"}

(* A set of groups that is never left along next.                            *)
Closed(S) == S # {} /\ \A g \in S : NextOf(g) \in S

(* validate_group_next_cycle, one walk for each group, decides exactly       *)
(* whether following next can go on for ever: a seed is published only if    *)
(* no set of groups is closed under next, and rejected for a cycle only if   *)
(* one is.                                                                   *)
ValidatorExact ==
  /\ Published => \A S \in SUBSET Groups : ~Closed(S)
  /\ pc = "rejected" /\ reason = "cycle" => \E S \in SUBSET Groups : Closed(S)

(* What validation accepts, the walk of select_graph_with never finds        *)
(* broken: it meets no cycle and no missing group, and a disabled group only *)
(* where it starts, at the group of a rule.                                  *)
SelectionSound ==
  pc = "failed" =>
    /\ reason \notin {"cycle", "missing"}
    /\ reason = "disabled" => trace = <<>>

(* A relayed session went through the node of every group on the way from    *)
(* the matched group to direct and through no other, each of them an enabled *)
(* member of its group that can do the session's family: no hop is left out, *)
(* and nothing falls back to another group or to direct.                     *)
RelayKeepsTrace ==
  pc = "relayed" =>
    /\ path = NodesOf(trace)
    /\ \E match \in RouteMatch(target) : trace[1].group = match.group
    /\ Terminal = Direct
    /\ \A i \in 1..(Len(trace) - 1) : trace[i + 1].group = trace[i].next
    /\ \A i \in 1..Len(trace) :
         /\ trace[i].next = NextOf(trace[i].group)
         /\ \E j \in 1..Len(Members(trace[i].group)) : trace[i].node = Members(trace[i].group)[j]
         /\ seed.nodes[trace[i].node].enabled

(* An IPv6 session is relayed only with IPv6 on, not against a deny rule, and *)
(* through nodes that support IPv6.                                          *)
Ipv6Contained ==
  pc = "relayed" /\ target.family = "ipv6" =>
    /\ seed.ipv6
    /\ \E match \in RouteMatch(target) : match.ipv6 # "deny"
    /\ \A i \in 1..Len(path) : seed.nodes[path[i]].ipv6

(* Validation answers for every seed, cyclic ones included, and select       *)
(* answers for every target.                                                 *)
WalksEnd ==
  pc \in {"validate", "starts", "cycle", "walk", "selected"}
    ~> pc \in {"rejected", "serving", "failed", "relayed"}
===============================================================================

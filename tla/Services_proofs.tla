--------------------------- MODULE Services_proofs ---------------------------
(***************************************************************************)
(* Proofs about the routing of sessions, the UDP relay and the end of the  *)
(* process.                                                                *)
(*                                                                         *)
(* SelectionGraph, for every set of seeds: a graph that validation accepts *)
(* is walked without a cycle, a missing or a disabled group.  The argument *)
(* goes by sets of groups closed under next: a walk that starts in one     *)
(* stays in it, and the groups of a walk that comes back are one.          *)
(*                                                                         *)
(* UdpIngress, for every number of peers, associations and any depth of    *)
(* the channels: no association outlives the relay.                        *)
(*                                                                         *)
(* RuntimeShutdown, for every number of tasks and any queue: the budgets of*)
(* run_runtime hold, and a process that reports success has lost nothing   *)
(* uncounted and hidden no failure.                                        *)
(***************************************************************************)
EXTENDS SelectionGraph, UdpIngress, RuntimeShutdown, TLAPS

(* What Validate tests.                                                      *)
References ==
  /\ UniqueNames /\ DefaultUsable /\ ReferencesExist
  /\ \A g \in Groups : NextUsable(g)

Acyclic == \A S \in SUBSET Groups : ~Closed(S)

(* The groups of a walk lead to each other or to where it is.                *)
WalkLinked ==
  /\ current \in Groups /\ seen \subseteq Groups
  /\ \A g \in seen : NextOf(g) \in seen \cup {current}

(* A closed set has only groups that are still to be checked.                *)
Unchecked ==
  \A S \in SUBSET Groups : Closed(S) =>
    /\ S \subseteq starts \cup (IF pc = "cycle" THEN {start} ELSE {})
    /\ pc = "cycle" /\ start \in S => current \in S

HopOK(h) ==
  /\ h.group \in Groups /\ h.next = NextOf(h.group)
  /\ \E j \in 1..Len(Members(h.group)) : h.node = Members(h.group)[j]
  /\ h.node \in Nodes /\ seed.nodes[h.node].enabled
  /\ target.family = "ipv4" \/ seed.nodes[h.node].ipv6

(* The trace leads from the matched group along next.                        *)
TraceOK ==
  /\ \A i \in 1..Len(trace) : HopOK(trace[i])
  /\ \A i \in 1..(Len(trace) - 1) : trace[i + 1].group = trace[i].next
  /\ trace # <<>> => \E match \in RouteMatch(target) : trace[1].group = match.group
  /\ target.family = "ipv6" =>
       seed.ipv6 /\ \E match \in RouteMatch(target) : match.ipv6 # "deny"

ValidationInv ==
  /\ pc \notin {"validate", "rejected"} \/ reason = "cycle" => References
  /\ pc \in {"starts", "cycle"} => starts \subseteq Groups /\ Unchecked
  /\ pc = "rejected" /\ reason = "cycle" => seen \in SUBSET Groups /\ Closed(seen)
  /\ Published => Acyclic

WalkInv ==
  /\ pc \in {"cycle", "walk"} => WalkLinked
  /\ pc \in {"validate", "starts", "cycle", "serving", "walk"} => reason = "none"
  /\ pc = "walk" =>
       /\ trace = <<>> => \E match \in RouteMatch(target) : current = match.group
       /\ trace # <<>> => seed.groups[current].enabled /\ current = Terminal
  /\ SelectionSound

TraceInv ==
  /\ pc \in {"walk", "selected", "relayed"} => TraceOK
  /\ pc \in {"selected", "relayed"} => trace # <<>>
  /\ pc = "relayed" => Terminal = Direct /\ path = NodesOf(trace)

(* The inductive invariant.                                                  *)
IInv == seed \in Seeds /\ TypeOK /\ ValidationInv /\ WalkInv /\ TraceInv

-------------------------------------------------------------------------------
(* The names in a seed are names.                                            *)
LEMMA SeedTypes ==
  ASSUME seed \in Seeds
  PROVE  /\ Direct \notin Names
         /\ Nodes \subseteq Names /\ Groups \subseteq Names /\ seed.default \in Names
         /\ \A g \in Groups : NextOf(g) \in Names \cup {Direct}
         /\ \A g : Members(g) \in Seq(Names)
         /\ \A r \in seed.rules : r.group \in Names
<1>1. \A g : Members(g) \in Seq(Names)
  <2>1. <<>> \in Seq(Names)
    OBVIOUS
  <2> QED BY <2>1, SelectionAssumption DEF Members
<1> QED BY <1>1, SelectionAssumption DEF Nodes, Groups, NextOf

(* A step that keeps the seed keeps what is said of it.                      *)
LEMMA SeedKept ==
  ASSUME seed' = seed
  PROVE  /\ Nodes' = Nodes /\ Groups' = Groups
         /\ References' = References /\ Acyclic' = Acyclic
         /\ \A S : Closed(S)' = Closed(S)
<1>1. Nodes' = Nodes /\ Groups' = Groups
  BY DEF Nodes, Groups
<1>2. \A S : Closed(S)' = Closed(S)
  BY DEF Closed, NextOf
<1>3. Acyclic' = Acyclic
  BY <1>1, <1>2 DEF Acyclic
<1>4. References' = References
  BY <1>1 DEF References, UniqueNames, DefaultUsable, ReferencesExist, NextUsable, NextOf, Nodes, Groups
<1> QED BY <1>1, <1>2, <1>3, <1>4

(* A match is the default group or the group of a rule, and declared.        *)
LEMMA MatchDeclared ==
  ASSUME References, NEW t, NEW match \in RouteMatch(t)
  PROVE  match.group \in Groups
BY DEF References, DefaultUsable, ReferencesExist, RouteMatch, Matching

(* In an acyclic graph a linked walk is never where it was before.           *)
LEMMA NoReturn ==
  ASSUME Acyclic, WalkLinked
  PROVE  current \notin seen
<1> SUFFICES ASSUME current \in seen PROVE FALSE
  OBVIOUS
<1>1. seen \in SUBSET Groups /\ Closed(seen)
  BY DEF WalkLinked, Closed
<1> QED BY <1>1 DEF Acyclic

LEMMA InitIInv == Init => IInv
<1> SUFFICES ASSUME Init PROVE IInv
  OBVIOUS
<1> USE DEF Init
<1>1. seed \in Seeds /\ seed.default \in Names
  BY SeedTypes
<1>2. <<>> \in Seq(Hops) /\ <<>> \in Seq(Names)
  OBVIOUS
<1>3. (CHOOSE t \in Targets : TRUE) \in Targets
  BY SelectionAssumption
<1>4. TypeOK
  BY <1>1, <1>2, <1>3 DEF TypeOK
<1> QED BY <1>1, <1>4 DEF IInv, ValidationInv, WalkInv, TraceInv, SelectionSound, Published

-------------------------------------------------------------------------------
(* A step that keeps seed, target and trace keeps what is said of the trace. *)
LEMMA TraceKept ==
  ASSUME seed' = seed, target' = target, trace' = trace
  PROVE  /\ TraceOK' = TraceOK /\ Terminal' = Terminal
         /\ RouteMatch(target)' = RouteMatch(target)
         /\ NodesOf(trace)' = NodesOf(trace)
<1>1. RouteMatch(target)' = RouteMatch(target)
  BY DEF RouteMatch, Matching, Before
<1>2. \A h : HopOK(h)' = HopOK(h)
  BY DEF HopOK, Groups, Nodes, NextOf, Members
<1>3. TraceOK' = TraceOK
  BY Zenon, <1>1, <1>2 DEF TraceOK
<1> QED BY <1>1, <1>3 DEF Terminal, FinalHop, NodesOf

LEMMA ValidateStep == IInv /\ Validate => IInv'
<1> SUFFICES ASSUME IInv, Validate PROVE IInv'
  OBVIOUS
<1> USE DEF Validate, walk, selection
<1>0. seed' = seed /\ seed \in Seeds /\ pc = "validate" /\ reason = "none"
  BY DEF IInv, WalkInv
<1>1. Groups \subseteq Names
  BY <1>0, SeedTypes
<1>2. TypeOK'
  BY Zenon, <1>1 DEF IInv, TypeOK
<1>3. ValidationInv'
  <2>1. pc' = "starts" => References /\ starts' = Groups
    BY DEF References
  <2>2. pc' = "starts" => Unchecked'
    BY <1>0, <2>1, SeedKept DEF Unchecked
  <2> QED BY <1>0, <2>1, <2>2, SeedKept DEF ValidationInv, Published
<1>4. WalkInv' /\ TraceInv'
  BY <1>0 DEF WalkInv, TraceInv, SelectionSound
<1> QED BY <1>0, <1>2, <1>3, <1>4 DEF IInv

LEMMA CycleStartStep == IInv /\ CycleStart => IInv'
<1> SUFFICES ASSUME IInv, CycleStart PROVE IInv'
  OBVIOUS
<1>0. /\ seed' = seed /\ seed \in Seeds /\ pc = "starts" /\ pc' = "cycle"
      /\ reason' = reason /\ reason = "none"
  BY DEF IInv, WalkInv, CycleStart
<1>1. PICK g \in starts : start' = g /\ current' = g /\ seen' = {} /\ starts' = starts \ {g}
  BY DEF CycleStart
<1>2. starts \subseteq Groups /\ Unchecked /\ References
  BY <1>0 DEF IInv, ValidationInv
<1>3. TypeOK'
  BY <1>0, <1>1 DEF IInv, TypeOK, CycleStart, selection
<1>4. Unchecked'
  BY <1>0, <1>1, <1>2, SeedKept DEF Unchecked
<1>5. ValidationInv'
  BY <1>0, <1>1, <1>2, <1>4, SeedKept DEF ValidationInv, Published
<1>6. WalkInv' /\ TraceInv'
  BY <1>0, <1>1, <1>2, SeedKept DEF WalkInv, WalkLinked, TraceInv, SelectionSound
<1> QED BY <1>0, <1>3, <1>5, <1>6 DEF IInv

(* The heart of the argument: a walk that comes back has found a closed set, *)
(* a walk that ends started in none.                                         *)
LEMMA CycleStepStep == IInv /\ CycleStep => IInv'
<1> SUFFICES ASSUME IInv, CycleStep PROVE IInv'
  OBVIOUS
<1>0. /\ seed' = seed /\ seed \in Seeds /\ pc = "cycle" /\ reason = "none"
      /\ starts' = starts /\ start' = start
  BY DEF IInv, WalkInv, CycleStep
<1>1. starts \subseteq Groups /\ Unchecked /\ References /\ WalkLinked
  BY <1>0 DEF IInv, ValidationInv, WalkInv
<1>2. current \in Groups /\ NextOf(current) \in Names \cup {Direct}
  BY <1>0, <1>1, SeedTypes DEF WalkLinked
<1>3. CASE current \in seen
  <2>1. /\ pc' = "rejected" /\ reason' = "cycle" /\ current' = current /\ seen' = seen
        /\ target' = target /\ trace' = trace /\ path' = path
    BY <1>3 DEF CycleStep, selection
  <2>2. seen \in SUBSET Groups /\ Closed(seen)
    BY <1>1, <1>3 DEF WalkLinked, Closed
  <2>3. Closed(seen)'
    BY <1>0, <2>1, <2>2 DEF Closed, NextOf
  <2>4. ValidationInv'
    BY <1>0, <1>1, <2>1, <2>2, <2>3, SeedKept DEF ValidationInv, Published
  <2>5. TypeOK'
    BY <1>0, <2>1 DEF IInv, TypeOK
  <2> QED BY <1>0, <2>1, <2>4, <2>5 DEF IInv, WalkInv, TraceInv, SelectionSound
<1>4. CASE current \notin seen
  <2>1. /\ seen' = seen \cup {current} /\ reason' = "none"
        /\ target' = target /\ trace' = trace /\ path' = path
    BY <1>0, <1>4 DEF CycleStep, selection
  <2>2. CASE NextOf(current) # Direct /\ NextOf(current) \notin Nodes
    <3>1. current' = NextOf(current) /\ pc' = "cycle"
      BY <1>0, <1>2, <1>4, <2>2 DEF CycleStep
    <3>2. NextOf(current) \in Groups
      BY <1>1, <1>2, <2>2 DEF References, NextUsable
    <3>3. TypeOK'
      BY <1>0, <1>2, <2>1, <2>2, <3>1 DEF IInv, TypeOK
    <3>4. WalkLinked'
      BY <1>0, <1>1, <2>1, <3>1, <3>2 DEF WalkLinked, Groups, NextOf
    <3>5. Unchecked'
      BY <1>0, <1>1, <3>1, SeedKept DEF Unchecked, Closed
    <3> QED
      BY <1>0, <1>1, <2>1, <3>1, <3>3, <3>4, <3>5, SeedKept
      DEF IInv, ValidationInv, WalkInv, TraceInv, SelectionSound, Published
  <2>3. CASE NextOf(current) = Direct \/ NextOf(current) \in Nodes
    <3>1. current' = current /\ pc' = "starts"
      BY <1>4, <2>3 DEF CycleStep
    <3>2. NextOf(current) \notin Groups
      BY <1>0, <1>1, <2>3, SeedTypes DEF References, UniqueNames
    <3>3. TypeOK'
      BY <1>0, <2>1, <3>1 DEF IInv, TypeOK
    <3>4. ASSUME NEW S \in SUBSET Groups, Closed(S) PROVE start \notin S
      BY <1>0, <1>1, <3>2, <3>4 DEF Unchecked, Closed
    <3>5. Unchecked'
      BY <1>0, <1>1, <3>1, <3>4, SeedKept DEF Unchecked
    <3> QED
      BY <1>0, <1>1, <2>1, <3>1, <3>3, <3>5, SeedKept
      DEF IInv, ValidationInv, WalkInv, TraceInv, SelectionSound, Published
  <2> QED BY <2>2, <2>3
<1> QED BY <1>3, <1>4

LEMMA ServeStep == IInv /\ Serve => IInv'
<1> SUFFICES ASSUME IInv, Serve PROVE IInv'
  OBVIOUS
<1> USE DEF Serve, walk, selection
<1>0. seed' = seed /\ pc = "starts" /\ pc' = "serving" /\ reason' = "none" /\ starts = {}
  BY DEF IInv, WalkInv
<1>1. References /\ Unchecked
  BY <1>0 DEF IInv, ValidationInv
<1>2. Acyclic
  BY <1>0, <1>1 DEF Acyclic, Unchecked, Closed
<1>3. TypeOK'
  BY <1>0 DEF IInv, TypeOK
<1> QED
  BY <1>0, <1>1, <1>2, <1>3, SeedKept
  DEF IInv, ValidationInv, WalkInv, TraceInv, SelectionSound, Published

-------------------------------------------------------------------------------
LEMMA SelectStep == IInv /\ Select => IInv'
<1> SUFFICES ASSUME IInv, Select PROVE IInv'
  OBVIOUS
<1>0. /\ seed' = seed /\ seed \in Seeds /\ pc = "serving" /\ reason = "none"
      /\ starts' = starts /\ trace' = <<>> /\ path' = <<>>
  BY DEF IInv, WalkInv, Select
<1>1. References /\ Acyclic
  BY <1>0 DEF IInv, ValidationInv, Published
<1> DEFINE Chosen(t, match) ==
        /\ target' = t
        /\ IF t.family = "ipv6" /\ (~seed.ipv6 \/ match.ipv6 = "deny")
             THEN pc' = "failed" /\ reason' = "ipv6" /\ UNCHANGED walk
             ELSE /\ pc' = "walk"
                  /\ start' = match.group /\ current' = match.group /\ seen' = {}
                  /\ UNCHANGED reason
<1>t. PICK t \in Targets : \E match \in RouteMatch(t) : Chosen(t, match)
  BY DEF Select
<1>2. PICK match \in RouteMatch(t) : Chosen(t, match)
  BY <1>t
<1>3. match.group \in Groups /\ match.group \in Names
  BY <1>0, <1>1, <1>2, MatchDeclared, SeedTypes
<1>4. match \in RouteMatch(target)'
  BY <1>0, <1>2 DEF RouteMatch, Matching, Before
<1>5. <<>> \in Seq(Hops) /\ <<>> \in Seq(Names)
  OBVIOUS
<1>6. TypeOK'
  BY Zenon, <1>0, <1>2, <1>3, <1>5 DEF IInv, TypeOK, walk
<1>7. ValidationInv'
  BY <1>0, <1>1, <1>2, SeedKept DEF ValidationInv, Published
<1>8. WalkInv'
  BY <1>0, <1>2, <1>3, <1>4, SeedKept DEF WalkInv, WalkLinked, SelectionSound
<1>9. TraceInv'
  <2>1. pc' = "walk" => TraceOK'
    <3> SUFFICES ASSUME pc' = "walk" PROVE TraceOK'
      OBVIOUS
    <3>1. Len(trace') = 0
      BY <1>0
    <3>2. t.family = "ipv6" => seed.ipv6 /\ match.ipv6 # "deny"
      BY <1>2, SelectionAssumption, <1>0
    <3> QED BY <1>0, <1>2, <1>4, <3>1, <3>2 DEF TraceOK
  <2> QED BY <1>2, <2>1 DEF TraceInv
<1> QED BY <1>0, <1>6, <1>7, <1>8, <1>9 DEF IInv

(* What Append does to length and elements.                                  *)
LEMMA AppendFacts ==
  ASSUME NEW S, NEW s \in Seq(S), NEW e \in S
  PROVE  /\ Append(s, e) \in Seq(S) /\ Len(Append(s, e)) = Len(s) + 1
         /\ Append(s, e)[Len(s) + 1] = e
         /\ \A i \in 1..Len(s) : Append(s, e)[i] = s[i]
         /\ Len(s) \in Nat
OBVIOUS

LEMMA HopStep == IInv /\ Hop => IInv'
<1> SUFFICES ASSUME IInv, Hop PROVE IInv'
  OBVIOUS
<1>0. seed' = seed /\ seed \in Seeds /\ pc = "walk" /\ reason = "none" /\ starts' = starts
  BY DEF IInv, WalkInv, Hop
<1>1. References /\ Acyclic /\ WalkLinked /\ TraceOK
  BY <1>0 DEF IInv, ValidationInv, WalkInv, TraceInv, Published
<1>2. current \in Groups /\ current \notin seen
  BY <1>1, NoReturn DEF WalkLinked
<1>3. HopError \in {"disabled", "no node", "none"}
      /\ (HopError = "disabled" => ~seed.groups[current].enabled)
  BY <1>2 DEF HopError
<1>4. CASE HopError # "none"
  <2>1. /\ pc' = "failed" /\ reason' = HopError
        /\ start' = start /\ current' = current /\ seen' = seen
        /\ target' = target /\ trace' = trace /\ path' = path
    BY <1>4 DEF Hop, walk, selection
  <2>2. TypeOK'
    BY Zenon, <1>0, <1>3, <2>1 DEF IInv, TypeOK
  <2>3. SelectionSound'
    BY Zenon, <1>0, <1>3, <2>1 DEF IInv, WalkInv, SelectionSound
  <2> QED
    BY Zenon, <1>0, <1>1, <2>1, <2>2, <2>3, SeedKept, <1>3
    DEF IInv, ValidationInv, WalkInv, TraceInv, Published
<1>5. CASE HopError = "none"
  <2>1. PICK n \in HopNodes(current) :
          trace' = Append(trace, [group |-> current, node |-> n, next |-> NextOf(current)])
    BY Zenon, <1>5 DEF Hop
  <2>2. /\ seen' = seen \cup {current} /\ Advance(NextOf(current))
        /\ target' = target /\ path' = path /\ reason' = "none" /\ start' = start
    BY <1>0, <1>5 DEF Hop
  <2>3. PICK j \in 1..Len(Members(current)) :
          n = Members(current)[j] /\ Eligible(current, n)
    BY DEF HopNodes, Candidates
  <2>4. NextOf(current) \in Names \cup {Direct} /\ n \in Names /\ current \in Names
    BY <1>0, <1>2, <2>3, SeedTypes DEF Eligible
  <2> DEFINE hop == [group |-> current, node |-> n, next |-> NextOf(current)]
  <2>5. hop \in Hops
    BY <2>4 DEF Hops
  <2>6. /\ trace \in Seq(Hops) /\ trace' \in Seq(Hops) /\ Len(trace') = Len(trace) + 1
        /\ trace'[Len(trace) + 1] = hop
        /\ \A i \in 1..Len(trace) : trace'[i] = trace[i]
        /\ Len(trace) \in Nat
    <3>1. trace \in Seq(Hops) /\ trace' = Append(trace, hop)
      BY Zenon, <2>1 DEF IInv, TypeOK
    <3> HIDE DEF hop
    <3> QED BY <2>5, <3>1, AppendFacts
  <2>7. \/ pc' = "selected" /\ current' = current
        \/ /\ pc' = "walk" /\ current' = NextOf(current)
           /\ NextOf(current) \in Groups /\ seed.groups[NextOf(current)].enabled
    <3>1. NextUsable(current)
      BY <1>1, <1>2 DEF References
    <3> QED BY <1>0, <2>2, <3>1 DEF Advance, NextUsable
  <2>8. TypeOK'
    BY <1>0, <2>2, <2>4, <2>6, <2>7, SeedTypes DEF IInv, TypeOK
  <2>9. ValidationInv'
    BY <1>0, <1>1, <2>2, <2>7, SeedKept DEF ValidationInv, Published
  <2>10. trace' # <<>>
    BY <2>6
  <2>11. WalkInv'
    <3>1. pc' = "walk" => WalkLinked'
      BY <1>0, <1>1, <2>2, <2>7 DEF WalkLinked, Groups, NextOf
    <3>2. Terminal' = NextOf(current)
      BY <2>6 DEF Terminal, FinalHop
    <3> QED BY <1>0, <2>2, <2>7, <2>10, <3>1, <3>2 DEF WalkInv, SelectionSound
  <2>12. TraceOK'
    <3>2. HopOK(hop)
      BY <1>2, <2>3 DEF HopOK, Eligible
    <3>3. \A i \in 1..Len(trace') : HopOK(trace'[i])
      BY <1>1, <2>6, <3>2 DEF TraceOK
    <3>4. \A i \in 1..Len(trace') : HopOK(trace[i])'
      BY <1>0, <2>2, <3>3 DEF HopOK, Groups, Nodes, NextOf, Members
    <3>5. \A i \in 1..(Len(trace') - 1) : trace'[i + 1].group = trace'[i].next
      <4> SUFFICES ASSUME NEW i \in 1..(Len(trace') - 1) PROVE trace'[i + 1].group = trace'[i].next
        OBVIOUS
      <4>1. CASE i < Len(trace)
        BY SMTT(30), <1>1, <2>6, <4>1 DEF TraceOK
      <4>2. CASE i = Len(trace)
        <5>1. trace # <<>> /\ current = Terminal
          BY <1>0, <2>6, <4>2 DEF IInv, WalkInv
        <5> QED BY <2>6, <4>2, <5>1 DEF Terminal, FinalHop
      <4> QED BY <2>6, <4>1, <4>2
    <3>6. RouteMatch(target)' = RouteMatch(target)
      BY <1>0, <2>2 DEF RouteMatch, Matching, Before
    <3>7. \E match \in RouteMatch(target) : trace'[1].group = match.group
      <4>1. CASE trace = <<>>
        BY <1>0, <2>6, <4>1 DEF IInv, WalkInv
      <4>2. CASE trace # <<>>
        BY <1>1, <2>6, <4>2 DEF TraceOK
      <4> QED BY <4>1, <4>2
    <3> QED BY <1>0, <1>1, <2>2, <3>4, <3>5, <3>6, <3>7 DEF TraceOK
  <2> QED BY <1>0, <2>7, <2>8, <2>9, <2>10, <2>11, <2>12 DEF IInv, TraceInv
<1> QED BY Zenon, <1>4, <1>5

LEMMA RelayStep == IInv /\ (HandleTcp \/ HandleUdp) => IInv'
<1> SUFFICES ASSUME IInv, HandleTcp \/ HandleUdp PROVE IInv'
  OBVIOUS
<1>0. /\ seed' = seed /\ seed \in Seeds /\ pc = "selected" /\ starts' = starts
      /\ start' = start /\ current' = current /\ seen' = seen
      /\ target' = target /\ trace' = trace
  BY DEF IInv, HandleTcp, HandleUdp, Execute, walk
<1>1. References /\ Acyclic /\ TraceOK /\ trace # <<>> /\ trace \in Seq(Hops)
  BY Zenon, <1>0 DEF IInv, ValidationInv, TraceInv, TypeOK, Published
<1>2. Len(trace) \in Nat \ {0}
  BY <1>1
<1>3. \A i \in 1..Len(trace) : trace[i].node \in Names
  <2>1. \A i \in 1..Len(trace) : trace[i] \in Hops
    BY <1>1
  <2> QED BY <2>1 DEF Hops
<1>4. RelayPath \in Seq(Names)
  <2>1. \A a, b \in Names : <<a>> \in Seq(Names) /\ <<a, b>> \in Seq(Names)
    OBVIOUS
  <2> QED BY <1>2, <1>3, <2>1 DEF RelayPath, FinalHop
<1>5. \/ /\ pc' = "relayed" /\ path' = RelayPath /\ reason' = reason
         /\ Terminal = Direct /\ Len(trace) \in {1, 2}
      \/ pc' = "failed" /\ reason' = "egress" /\ path' = path
  BY <1>2 DEF HandleTcp, HandleUdp, Execute, TcpRelays, UdpRelays
<1>6. TypeOK'
  BY Zenon, <1>0, <1>4, <1>5 DEF IInv, TypeOK
<1>7. ValidationInv'
  BY <1>0, <1>1, <1>5, SeedKept DEF ValidationInv, Published
<1>8. WalkInv'
  BY <1>5 DEF WalkInv, SelectionSound
<1>9. Len(trace) \in {1, 2} => RelayPath = NodesOf(trace)
  BY <1>2 DEF RelayPath, NodesOf, FinalHop
<1>10. TraceInv'
  BY <1>0, <1>1, <1>5, <1>9, TraceKept DEF TraceInv
<1> QED BY <1>0, <1>6, <1>7, <1>8, <1>10 DEF IInv

LEMMA DoneStep == IInv /\ Done => IInv'
<1> SUFFICES ASSUME IInv, Done PROVE IInv'
  OBVIOUS
<1> USE DEF Done, walk, selection
<1>0. seed' = seed /\ pc' = "serving" /\ reason' = "none"
  OBVIOUS
<1>1. References /\ Acyclic
  BY DEF IInv, ValidationInv, Published
<1>2. TypeOK'
  BY Zenon DEF IInv, TypeOK
<1> QED
  BY <1>0, <1>1, <1>2, SeedKept
  DEF IInv, ValidationInv, WalkInv, TraceInv, SelectionSound, Published

LEMMA StutterStep == IInv /\ UNCHANGED vars => IInv'
<1> SUFFICES ASSUME IInv, UNCHANGED vars PROVE IInv'
  OBVIOUS
<1>0. /\ seed' = seed /\ pc' = pc /\ starts' = starts /\ reason' = reason
      /\ start' = start /\ current' = current /\ seen' = seen
      /\ target' = target /\ trace' = trace /\ path' = path
  BY DEF vars, walk, selection
<1>1. TypeOK'
  BY Zenon, <1>0 DEF IInv, TypeOK
<1>2. Unchecked' = Unchecked /\ WalkLinked' = WalkLinked /\ Closed(seen)' = Closed(seen)
  BY <1>0 DEF Unchecked, WalkLinked, Closed, NextOf, Groups
<1>3. ValidationInv'
  BY <1>0, <1>2, SeedKept DEF IInv, ValidationInv, Published
<1>4. WalkInv'
  BY <1>0, <1>2, TraceKept DEF IInv, WalkInv, SelectionSound
<1>5. TraceInv'
  BY <1>0, TraceKept DEF IInv, TraceInv
<1> QED BY <1>0, <1>1, <1>3, <1>4, <1>5 DEF IInv

-------------------------------------------------------------------------------
(* The inductive invariant holds in every behaviour.                         *)
THEOREM Inductive == Spec => []IInv
<1>1. IInv /\ [Next]_vars => IInv'
  BY ValidateStep, CycleStartStep, CycleStepStep, ServeStep, SelectStep, HopStep,
     RelayStep, DoneStep, StutterStep DEF Next, Rejected
<1> QED BY InitIInv, <1>1, PTL DEF Spec

(* Names, groups and traces keep their types through validation and walk.    *)
THEOREM TypeCorrect == Spec => []TypeOK
<1>1. IInv => TypeOK
  BY DEF IInv
<1> QED BY Inductive, <1>1, PTL

(* validate_group_next_cycle accepts exactly the graphs on which following   *)
(* next comes to an end, for any number of groups.                           *)
THEOREM ValidatorIsExact == Spec => []ValidatorExact
<1>1. IInv => ValidatorExact
  BY DEF IInv, ValidationInv, Acyclic, ValidatorExact
<1> QED BY Inductive, <1>1, PTL

(* On an accepted graph, select_graph_with never reports a cycle or a        *)
(* missing group, and a disabled group only for the group of a rule.         *)
THEOREM SelectionIsSound == Spec => []SelectionSound
<1>1. IInv => SelectionSound
  BY DEF IInv, WalkInv
<1> QED BY Inductive, <1>1, PTL

(* GraphEgress relays through the node of every group from the matched one   *)
(* to direct, in this order, and through nothing else.                       *)
THEOREM RelayFollowsTrace == Spec => []RelayKeepsTrace
<1>1. ASSUME IInv, pc = "relayed" PROVE RelayKeepsTrace
  <2>1. TraceOK /\ trace # <<>> /\ Terminal = Direct /\ path = NodesOf(trace)
    BY <1>1 DEF IInv, TraceInv
  <2> QED BY <2>1 DEF TraceOK, HopOK, RelayKeepsTrace
<1>2. IInv => RelayKeepsTrace
  BY <1>1 DEF RelayKeepsTrace
<1> QED BY Inductive, <1>2, PTL

(* An IPv6 session is relayed only where IPv6 is on and not denied, through  *)
(* nodes that support it.                                                    *)
THEOREM Ipv6IsContained == Spec => []Ipv6Contained
<1>1. ASSUME IInv, pc = "relayed", target.family = "ipv6" PROVE Ipv6Contained
  <2>1. TraceOK /\ path = NodesOf(trace) /\ trace \in Seq(Hops)
    BY Zenon, <1>1 DEF IInv, TraceInv, TypeOK
  <2>2. Len(path) = Len(trace) /\ \A i \in 1..Len(trace) : path[i] = trace[i].node
    BY <2>1 DEF NodesOf
  <2>3. \A i \in 1..Len(trace) : seed.nodes[trace[i].node].ipv6
    BY <1>1, <2>1 DEF TraceOK, HopOK
  <2> QED BY <1>1, <2>1, <2>2, <2>3 DEF TraceOK, Ipv6Contained
<1>2. IInv => Ipv6Contained
  BY SMTT(20), <1>1 DEF Ipv6Contained
<1> QED BY Inductive, <1>2, PTL

-------------------------------------------------------------------------------
(* A queue of observations that grows by one, and one that loses its head. *)
LEMMA QueueAppend ==
    ASSUME NEW q \in Seq(Nat), NEW x \in Nat
    PROVE  /\ Append(q, x) \in Seq(Nat) /\ Append(q, x) # <<>>
           /\ Len(Append(q, x)) = Len(q) + 1 /\ Len(q) \in Nat
           /\ \A i \in 1..Len(q) : Append(q, x)[i] = q[i]
           /\ Append(q, x)[Len(q) + 1] = x
OBVIOUS

LEMMA QueueTail ==
    ASSUME NEW q \in Seq(Nat), q # <<>>
    PROVE  /\ Tail(q) \in Seq(Nat) /\ Head(q) \in Nat /\ Head(q) = q[1]
           /\ Len(q) \in Nat \ {0} /\ Len(Tail(q)) = Len(q) - 1
           /\ \A i \in 1..Len(Tail(q)) : Tail(q)[i] = q[i + 1]
OBVIOUS

-------------------------------------------------------------------------------
(* The end of the process: time.                                           *)
(*                                                                         *)
(* Each phase of run_runtime bounds the next deadline by the moment of the *)
(* cancellation, and time does not pass a deadline that main waits for.    *)

ClockInv ==
    /\ now \in Nat /\ cancelled \in Nat /\ deadline \in Nat /\ draining \in Nat
    /\ signal \subseteq Nat
    /\ main = "serving" /\ shutdown => now = cancelled
    /\ main = "closing" => shutdown /\ now <= deadline /\ deadline <= cancelled + 1
    /\ main = "draining" => shutdown /\ now <= deadline /\ deadline <= cancelled + 5
    /\ main = "flushing" => shutdown /\ now <= deadline /\ deadline <= cancelled + 7
    /\ main \in {"serving", "closing", "draining", "flushing", "exited", "killed"}
    /\ main = "killed" => \E at \in signal : ~shutdown \/ cancelled > at

LEMMA ClockInit == ProcessInit => ClockInv
BY DEF ProcessInit, ClockInv

(* Steps that leave time and main alone and cancel the token, if at all,   *)
(* at the present moment.                                                  *)
LEMMA ClockStep ==
    ASSUME ClockInv, UNCHANGED <<now, main, deadline, draining>>, signal' \subseteq Nat,
           \/ UNCHANGED <<shutdown, cancelled>> /\ (main = "killed" => signal' = signal)
           \/ CancelToken /\ Alive
    PROVE  ClockInv'
<1>1. CASE UNCHANGED <<shutdown, cancelled>> /\ (main = "killed" => signal' = signal)
  BY <1>1 DEF ClockInv
<1>2. CASE CancelToken /\ Alive
  <2>1. CASE shutdown
    BY <1>2, <2>1 DEF ClockInv, CancelToken, Alive
  <2>2. CASE ~shutdown
    BY <1>2, <2>2 DEF ClockInv, CancelToken, Alive
  <2> QED BY <2>1, <2>2
<1> QED BY <1>1, <1>2

(* The phases bound the age of the token.                                  *)
LEMMA TokenAge ==
    ASSUME ClockInv, Alive, shutdown
    PROVE  now - cancelled <= 7 /\ now \in Nat /\ cancelled \in Nat
BY DEF ClockInv, Alive

LEMMA ClockNext == ClockInv /\ [ProcessNext]_processVars => ClockInv'
<1> SUFFICES ASSUME ClockInv, [ProcessNext]_processVars PROVE ClockInv'
  OBVIOUS
<1>1. ASSUME Signal \/ ReloadReturns \/ HandleTerminate PROVE ClockInv'
  <2>1. UNCHANGED <<now, main, deadline, draining>> /\ signal' \subseteq Nat
    BY Zenon, <1>1 DEF Signal, ReloadReturns, HandleTerminate, exit, ClockInv
  <2>2. \/ UNCHANGED <<shutdown, cancelled>> /\ (main = "killed" => signal' = signal)
        \/ CancelToken /\ Alive
    BY <1>1 DEF Signal, ReloadReturns, HandleTerminate, Alive
  <2> QED BY <2>1, <2>2, ClockStep
<1>2. ASSUME NEW t \in 1..Tasks, TaskFails(t) PROVE ClockInv'
  <2>1. UNCHANGED <<now, main, deadline, draining, signal>> /\ CancelToken /\ Alive
    BY <1>2 DEF TaskFails, exit
  <2> QED BY <2>1, ClockStep DEF ClockInv
<1>3. ASSUME \/ \E t \in 1..Tasks : TaskStops(t)
             \/ \E t \in 0..Tasks : Record(t)
             \/ Persist \/ PersistFlush \/ SendFlush \/ Gone \/ UNCHANGED processVars
      PROVE  ClockInv'
  <2>1. UNCHANGED <<now, main, deadline, draining, signal, shutdown, cancelled>>
    BY <1>3 DEF TaskStops, Record, Persist, PersistFlush, SendFlush, Gone,
                processVars, exit, control
  <2> QED BY SMTT(20), <2>1, ClockStep DEF ClockInv
<1>4. ASSUME NEW r \in {"ok", "error"}, ServerEnds(r) PROVE ClockInv'
  <2>1. /\ main' = "draining" /\ shutdown' = TRUE /\ deadline' = now + 4
        /\ cancelled' = (IF shutdown THEN cancelled ELSE now)
        /\ UNCHANGED <<now, signal, draining>> /\ main \in {"serving", "closing"}
    BY <1>4 DEF ServerEnds, CancelToken, DrainGrace
  <2>2. CASE shutdown
    BY <2>1, <2>2 DEF ClockInv
  <2>3. CASE ~shutdown
    BY <2>1, <2>3 DEF ClockInv
  <2> QED BY <2>2, <2>3
<1>5. ASSUME AwaitServer \/ ServerTimesOut PROVE ClockInv'
  <2>1. UNCHANGED <<now, signal, shutdown, cancelled, draining>>
    BY <1>5 DEF AwaitServer, ServerTimesOut, control
  <2>2. \/ main = "serving" /\ shutdown /\ main' = "closing" /\ deadline' = now + 1
        \/ main = "closing" /\ main' = "draining" /\ deadline' = now + 4
    BY <1>5 DEF AwaitServer, ServerTimesOut, ApiGrace, DrainGrace
  <2> QED BY <2>1, <2>2 DEF ClockInv
<1>6. ASSUME Drain \/ StartFlush PROVE ClockInv'
  <2>1. UNCHANGED <<now, signal, shutdown, cancelled>> /\ main = "draining"
    BY <1>6 DEF Drain, StartFlush, control
  <2>2. \/ main' = main /\ deadline' = deadline /\ draining' = draining + 1
        \/ main' = "flushing" /\ deadline' = now + 2 /\ draining' = draining
    BY <1>6 DEF Drain, StartFlush, FlushGrace
  <2> QED BY <2>1, <2>2 DEF ClockInv
<1>7. ASSUME FlushAcked \/ FlushFails PROVE ClockInv'
  <2>1. main' = "exited" /\ UNCHANGED <<now, signal, shutdown, cancelled, deadline, draining>>
    BY <1>7 DEF FlushAcked, FlushFails, Returns, control
  <2> QED BY <2>1 DEF ClockInv
<1>8. ASSUME Tick PROVE ClockInv'
  <2>1. /\ Alive /\ now' = now + 1
        /\ UNCHANGED <<signal, shutdown, cancelled, main, deadline, draining>>
    BY <1>8 DEF Tick, control, exit
  <2>2. /\ main \in {"closing", "draining", "flushing"} => now # deadline
        /\ ~(main = "serving" /\ shutdown)
    BY <1>8 DEF Tick, TimerDue
  <2> QED BY <2>1, <2>2 DEF ClockInv, Alive
<1>9. ASSUME KillOverdue PROVE ClockInv'
  <2>1. PICK at \in signal : now = at + 8
    BY <1>9 DEF KillOverdue, Overdue, KillAfter
  <2>2. /\ Alive /\ main' = "killed"
        /\ UNCHANGED <<now, signal, shutdown, cancelled, deadline, draining>>
    BY <1>9 DEF KillOverdue, control
  <2>3. at \in Nat
    BY <2>1 DEF ClockInv
  <2>4. shutdown => cancelled > at
    BY <2>1, <2>2, <2>3, TokenAge
  <2> QED BY <2>1, <2>2, <2>4 DEF ClockInv
<1> QED BY <1>1, <1>2, <1>3, <1>4, <1>5, <1>6, <1>7, <1>8, <1>9 DEF ProcessNext

(* From the cancellation to the exit at most seven seconds pass, whatever  *)
(* hangs; so the supervisor kills only a process whose token came late.    *)
THEOREM BudgetsAddUp == ProcessSpec => []ExitsInBudget
<1>1. ClockInv => ExitsInBudget
  <2> SUFFICES ASSUME ClockInv PROVE ExitsInBudget
    OBVIOUS
  <2>1. Alive /\ shutdown => now - cancelled <= ApiGrace + DrainGrace + FlushGrace
    BY TokenAge DEF ApiGrace, DrainGrace, FlushGrace
  <2>2. main = "killed" => \E at \in signal : ~shutdown \/ cancelled > at
    BY DEF ClockInv
  <2> QED BY <2>1, <2>2 DEF ExitsInBudget
<1> QED BY <1>1, ClockInit, ClockNext, PTL DEF ProcessSpec

-----------------------------------------------------------------------------
(* The end of the process: what is reported and what is flushed.           *)
(*                                                                         *)
(* An observation ahead of the flush in the queue is one that no flush     *)
(* stands before.  The tasks that the drain has passed are over, so that   *)
(* nothing the flush must account for is queued behind it.                 *)

AheadOfFlush(v) ==
    \E i \in 1..Len(queue) : queue[i] = v /\ \A j \in 1..i : queue[j] # 0

FlushInv ==
    /\ queue \in Seq(Nat) /\ recorded \in Nat /\ draining \in Nat
    /\ main \in {"serving", "closing", "draining", "flushing", "exited", "killed"}
    /\ DOMAIN task = 1..Tasks
    /\ \A t \in 1..Tasks : t < draining => task[t] # "running"
    /\ main = "flushing" => draining > Tasks
    /\ main \in {"serving", "closing", "draining"} => flush = "none"
    /\ flush \in {"none", "waiting", "acked", "cancelled"}
    /\ flush = "none" => \A i \in 1..Len(queue) : queue[i] # 0
    /\ flush \in {"none", "waiting"} =>
          \A v \in covered : v \in written \cup lost \/ AheadOfFlush(v)
    /\ flush \in {"acked", "cancelled"} => covered \subseteq written \cup lost
    /\ result # "none" => main = "exited"
    /\ result = "ok" => flush = "acked" /\ failures = {}

LEMMA FlushInit == ProcessInit => FlushInv
<1> SUFFICES ASSUME ProcessInit PROVE FlushInv
  OBVIOUS
<1>1. /\ queue = <<>> /\ recorded = 0 /\ draining = 1 /\ main = "serving" /\ flush = "none"
      /\ covered = {} /\ result = "none" /\ task = [t \in 1..Tasks |-> "running"]
  BY DEF ProcessInit
<1>2. queue \in Seq(Nat) /\ Len(queue) = 0
  BY <1>1
<1>3. \A t \in 1..Tasks : ~(t < draining)
  BY <1>1, ShutdownAssumption
<1> QED BY <1>1, <1>2, <1>3 DEF FlushInv

(* What is ahead of the flush stays there when the queue grows, and comes  *)
(* nearer when its head is taken.                                          *)
LEMMA AheadAppend ==
    ASSUME queue \in Seq(Nat), NEW x \in Nat, queue' = Append(queue, x), NEW v, AheadOfFlush(v)
    PROVE  AheadOfFlush(v)'
<1>1. /\ Len(queue') = Len(queue) + 1 /\ Len(queue) \in Nat
      /\ \A i \in 1..Len(queue) : queue'[i] = queue[i]
  BY QueueAppend
<1>2. PICK i \in 1..Len(queue) : queue[i] = v /\ \A j \in 1..i : queue[j] # 0
  BY DEF AheadOfFlush
<1>3. i \in 1..Len(queue') /\ \A j \in 1..i : j \in 1..Len(queue)
  BY <1>1
<1>4. queue'[i] = v /\ \A j \in 1..i : queue'[j] # 0
  BY <1>1, <1>2, <1>3
<1> QED BY <1>3, <1>4 DEF AheadOfFlush

LEMMA AheadTail ==
    ASSUME queue \in Seq(Nat), queue # <<>>, queue' = Tail(queue), NEW v, AheadOfFlush(v),
           v # Head(queue)
    PROVE  AheadOfFlush(v)'
<1>1. /\ Len(queue) \in Nat /\ Len(queue') = Len(queue) - 1 /\ Head(queue) = queue[1]
      /\ \A i \in 1..Len(queue') : queue'[i] = queue[i + 1]
  BY QueueTail
<1>2. PICK i \in 1..Len(queue) : queue[i] = v /\ \A j \in 1..i : queue[j] # 0
  BY DEF AheadOfFlush
<1>3. i # 1 /\ i - 1 \in 1..Len(queue')
  BY <1>1, <1>2
<1>4. queue'[i - 1] = v
  BY <1>1, <1>2, <1>3
<1>5. ASSUME NEW j \in 1..(i - 1) PROVE queue'[j] # 0
  <2>1. j \in 1..Len(queue') /\ j + 1 \in 1..i
    BY <1>1, <1>3
  <2> QED BY <1>1, <1>2, <2>1
<1> QED BY Zenon, <1>3, <1>4, <1>5 DEF AheadOfFlush

(* A step that leaves the sink and the result alone.                       *)
LEMMA FlushFrame ==
    ASSUME FlushInv, UNCHANGED sink, UNCHANGED result, draining' \in Nat,
           main' \in {"serving", "closing", "draining", "flushing", "exited", "killed"},
           DOMAIN task' = 1..Tasks,
           \A t \in 1..Tasks : t < draining' => task'[t] # "running",
           main' = "flushing" => draining' > Tasks,
           main' \in {"serving", "closing", "draining"} => flush = "none",
           result # "none" => main' = "exited",
           result = "ok" => failures' = {}
    PROVE  FlushInv'
<1>1. UNCHANGED <<queue, recorded, covered, written, lost, flush>>
  BY DEF sink
<1>2. \A v : AheadOfFlush(v)' <=> AheadOfFlush(v)
  BY <1>1 DEF AheadOfFlush
<1>3. \A v \in covered' : flush' \in {"none", "waiting"} =>
                            v \in written' \cup lost' \/ AheadOfFlush(v)'
  BY <1>1, <1>2 DEF FlushInv
<1> QED BY <1>1, <1>3 DEF FlushInv

(* A step of the sink while the process is alive: what is left to show is  *)
(* about the queue.                                                        *)
LEMMA SinkStep ==
    ASSUME FlushInv, Alive, UNCHANGED <<task, failures, exit>>,
           queue' \in Seq(Nat), recorded' \in Nat,
           main \in {"serving", "closing", "draining"} => flush' = "none",
           flush' \in {"none", "waiting", "acked", "cancelled"},
           flush' = "none" => \A i \in 1..Len(queue') : queue'[i] # 0,
           flush' \in {"none", "waiting"} =>
               \A v \in covered' : v \in written' \cup lost' \/ AheadOfFlush(v)',
           flush' \in {"acked", "cancelled"} => covered' \subseteq written' \cup lost'
    PROVE  FlushInv'
<1>1. UNCHANGED <<main, draining, result, task, failures>>
  BY DEF exit
<1>2. result = "none"
  BY DEF FlushInv, Alive
<1> QED BY <1>1, <1>2 DEF FlushInv

(* ObservationSink::try_send.  While a flush is under way the tasks are    *)
(* over, so that only what they detached still records.                    *)
LEMMA RecordHolds ==
    ASSUME FlushInv, NEW t \in 0..Tasks, Record(t)
    PROVE  FlushInv'
<1>x. PICK x \in Nat : x = recorded + 1
  BY DEF FlushInv
<1>1. /\ Alive /\ UNCHANGED <<task, failures, exit, written, flush>> /\ recorded' = x
      /\ t # 0 => task[t] = "running"
      /\ \/ queue' = Append(queue, x) /\ lost' = lost
         \/ lost' = lost \cup {x} /\ queue' = queue
      /\ covered' = IF t # 0 \/ flush = "none" THEN covered \cup {x} ELSE covered
  BY <1>x DEF Record
<1>2. x \in Nat /\ x # 0 /\ queue \in Seq(Nat)
  BY <1>x DEF FlushInv
<1>3. flush # "none" => covered' = covered
  <2> SUFFICES ASSUME flush # "none", t # 0 PROVE FALSE
    BY <1>1
  <2>1. main = "flushing"
    BY <1>1 DEF FlushInv, Alive
  <2>2. t \in 1..Tasks /\ t < draining
    BY <2>1, ShutdownAssumption DEF FlushInv
  <2> QED BY <1>1, <2>2 DEF FlushInv
<1>4. /\ queue' \in Seq(Nat)
      /\ \A v : AheadOfFlush(v) => AheadOfFlush(v)'
  <2>1. CASE queue' = Append(queue, x)
    BY <1>2, <2>1, AheadAppend, QueueAppend
  <2>2. CASE queue' = queue
    BY <1>2, <2>2 DEF AheadOfFlush
  <2> QED BY <1>1, <2>1, <2>2
<1>5. ASSUME flush = "none" PROVE /\ \A i \in 1..Len(queue') : queue'[i] # 0
                                  /\ x \in lost' \/ AheadOfFlush(x)'
  <2>1. \A i \in 1..Len(queue) : queue[i] # 0
    BY <1>5 DEF FlushInv
  <2>2. CASE queue' = Append(queue, x)
    <3>1. /\ Len(queue') = Len(queue) + 1 /\ Len(queue) \in Nat
          /\ \A i \in 1..Len(queue) : queue'[i] = queue[i]
          /\ queue'[Len(queue) + 1] = x
      BY <1>2, <2>2, QueueAppend
    <3>2. \A i \in 1..Len(queue') : queue'[i] # 0
      <4> TAKE i \in 1..Len(queue')
      <4>1. i \in 1..Len(queue) \/ i = Len(queue) + 1
        BY <3>1
      <4> QED BY <1>2, <2>1, <3>1, <4>1
    <3>3. Len(queue') \in 1..Len(queue') /\ queue'[Len(queue')] = x
      BY <3>1
    <3>4. AheadOfFlush(x)'
      BY <3>2, <3>3 DEF AheadOfFlush
    <3> QED BY <3>2, <3>4
  <2>3. CASE queue' = queue /\ lost' = lost \cup {x}
    BY <2>1, <2>3
  <2> QED BY <1>1, <2>2, <2>3
<1>6. ASSUME flush' \in {"none", "waiting"}
      PROVE  \A v \in covered' : v \in written' \cup lost' \/ AheadOfFlush(v)'
  <2> TAKE v \in covered'
  <2>1. v \in covered \/ (flush = "none" /\ v = x)
    BY <1>1, <1>3
  <2>2. CASE v \in covered
    <3>1. v \in written \cup lost \/ AheadOfFlush(v)
      BY <1>1, <1>6, <2>2 DEF FlushInv
    <3> QED BY <1>1, <1>4, <3>1
  <2> QED BY <1>5, <2>1, <2>2
<1>7. flush' \in {"acked", "cancelled"} => covered' \subseteq written' \cup lost'
  BY <1>1, <1>3 DEF FlushInv
<1>8. flush' = "none" => \A i \in 1..Len(queue') : queue'[i] # 0
  BY <1>1, <1>5
<1>9. flush' = flush /\ recorded' \in Nat
  BY <1>1, <1>2
<1>10. /\ main \in {"serving", "closing", "draining"} => flush' = "none"
       /\ flush' \in {"none", "waiting", "acked", "cancelled"}
  BY <1>9 DEF FlushInv
<1> QED BY <1>1, <1>4, <1>6, <1>7, <1>8, <1>9, <1>10, SinkStep

(* ObservationSinkWorker takes an observation, or the flush.               *)
LEMMA PersistHolds ==
    ASSUME FlushInv, Persist
    PROVE  FlushInv'
<1>1. /\ Alive /\ UNCHANGED <<task, failures, exit, recorded, covered, flush>>
      /\ queue # <<>> /\ queue' = Tail(queue)
      /\ written' \cup lost' = written \cup lost \cup {Head(queue)}
  BY DEF Persist
<1>2. queue \in Seq(Nat) /\ queue' \in Seq(Nat)
  BY <1>1, QueueTail DEF FlushInv
<1>3. flush' = "none" => \A i \in 1..Len(queue') : queue'[i] # 0
  <2>1. /\ Len(queue) \in Nat /\ Len(queue') = Len(queue) - 1
        /\ \A i \in 1..Len(queue') : queue'[i] = queue[i + 1]
    BY <1>1, <1>2, QueueTail
  <2>2. \A i \in 1..Len(queue') : i + 1 \in 1..Len(queue)
    BY <2>1
  <2> QED BY <1>1, <2>1, <2>2 DEF FlushInv
<1>4. ASSUME flush' \in {"none", "waiting"}
      PROVE  \A v \in covered' : v \in written' \cup lost' \/ AheadOfFlush(v)'
  <2> TAKE v \in covered'
  <2>1. v \in written \cup lost \/ AheadOfFlush(v)
    BY <1>1, <1>4 DEF FlushInv
  <2>2. v # Head(queue) /\ AheadOfFlush(v) => AheadOfFlush(v)'
    BY <1>1, <1>2, AheadTail
  <2> QED BY <1>1, <2>1, <2>2
<1>5. flush' \in {"acked", "cancelled"} => covered' \subseteq written' \cup lost'
  BY <1>1 DEF FlushInv
<1>6. /\ main \in {"serving", "closing", "draining"} => flush' = "none"
      /\ flush' \in {"none", "waiting", "acked", "cancelled"} /\ recorded' \in Nat
  BY SMTT(20), <1>1 DEF FlushInv
<1> QED BY <1>1, <1>2, <1>3, <1>4, <1>5, <1>6, SinkStep

(* Nothing is ahead of a flush at the head of the queue.                   *)
LEMMA PersistFlushHolds ==
    ASSUME FlushInv, PersistFlush
    PROVE  FlushInv'
<1>1. /\ Alive /\ UNCHANGED <<task, failures, exit, recorded, covered, written, lost>>
      /\ queue # <<>> /\ Head(queue) = 0 /\ queue' = Tail(queue)
      /\ flush' \in {"acked", "cancelled"}
  BY DEF PersistFlush
<1>2. queue \in Seq(Nat) /\ queue' \in Seq(Nat)
  BY <1>1, QueueTail DEF FlushInv
<1>3. Len(queue) \in Nat /\ 1 \in 1..Len(queue) /\ queue[1] = 0
  BY <1>1, <1>2, QueueTail
<1>4. flush # "none" /\ main \notin {"serving", "closing", "draining"}
  BY <1>3 DEF FlushInv
<1>5. \A v : ~AheadOfFlush(v)
  BY <1>3 DEF AheadOfFlush
<1>6. covered \subseteq written \cup lost
  BY <1>4, <1>5 DEF FlushInv
<1> QED BY <1>1, <1>2, <1>4, <1>6, SinkStep DEF FlushInv

LEMMA SendFlushHolds ==
    ASSUME FlushInv, SendFlush
    PROVE  FlushInv'
<1>1. /\ main = "flushing" /\ flush = "none" /\ flush' = "waiting"
      /\ UNCHANGED <<task, failures, exit, recorded, covered, written, lost>>
      /\ queue' = Append(queue, 0)
  BY DEF SendFlush
<1>2. Alive /\ queue \in Seq(Nat) /\ queue' \in Seq(Nat) /\ recorded' \in Nat
  BY <1>1, QueueAppend DEF FlushInv, Alive
<1>3. \A v \in covered' : v \in written' \cup lost' \/ AheadOfFlush(v)'
  <2> TAKE v \in covered'
  <2>1. v \in written \cup lost \/ AheadOfFlush(v)
    BY <1>1 DEF FlushInv
  <2> QED BY <1>1, <1>2, <2>1, AheadAppend
<1> QED BY <1>1, <1>2, <1>3, SinkStep

LEMMA FlushNext == FlushInv /\ [ProcessNext]_processVars => FlushInv'
<1> SUFFICES ASSUME FlushInv, [ProcessNext]_processVars PROVE FlushInv'
  OBVIOUS
<1>1. ASSUME \/ Signal \/ ReloadReturns \/ HandleTerminate \/ Tick
             \/ Gone \/ UNCHANGED processVars
      PROVE  FlushInv'
  <2>1. UNCHANGED <<sink, result, draining, task, main, failures>>
    BY SMTT(20), <1>1 DEF Signal, ReloadReturns, HandleTerminate, Tick, Gone, processVars, exit
  <2> QED BY <2>1, FlushFrame DEF FlushInv
<1>2. ASSUME NEW t \in 1..Tasks, TaskFails(t) \/ TaskStops(t) PROVE FlushInv'
  <2>1. /\ UNCHANGED <<sink, result, draining, main>> /\ Alive
        /\ task' = [task EXCEPT ![t] = "done"]
    BY <1>2 DEF TaskFails, TaskStops, exit
  <2>2. result = "none"
    BY <2>1 DEF FlushInv, Alive
  <2>3. /\ DOMAIN task' = 1..Tasks
        /\ \A u \in 1..Tasks : u < draining' => task'[u] # "running"
    BY <2>1 DEF FlushInv
  <2> QED BY Zenon, <2>1, <2>2, <2>3, FlushFrame DEF FlushInv
<1>3. ASSUME NEW t \in 0..Tasks, Record(t) PROVE FlushInv'
  BY <1>3, RecordHolds
<1>4. ASSUME Persist \/ PersistFlush \/ SendFlush PROVE FlushInv'
  BY SMTT(20), <1>4, PersistHolds, PersistFlushHolds, SendFlushHolds
<1>5. ASSUME \/ \E r \in {"ok", "error"} : ServerEnds(r)
             \/ AwaitServer \/ ServerTimesOut
      PROVE  FlushInv'
  <2>1. /\ UNCHANGED <<sink, result, draining, task, failures>>
        /\ main \in {"serving", "closing"} /\ main' \in {"closing", "draining"}
    BY <1>5 DEF ServerEnds, AwaitServer, ServerTimesOut
  <2>2. result = "none" /\ flush = "none"
    BY SMTT(20), <2>1 DEF FlushInv
  <2> QED BY <2>1, <2>2, FlushFrame DEF FlushInv
<1>6. ASSUME Drain PROVE FlushInv'
  <2>1. /\ UNCHANGED <<sink, result, main, failures>>
        /\ main = "draining" /\ draining <= Tasks /\ draining' = draining + 1
        /\ \/ task[draining] # "running" /\ task' = task
           \/ task' = [task EXCEPT ![draining] = "aborted"]
    BY <1>6 DEF Drain
  <2>2. draining \in Nat /\ DOMAIN task = 1..Tasks /\ DOMAIN task' = 1..Tasks
    BY <2>1 DEF FlushInv
  <2>3. ASSUME NEW t \in 1..Tasks, t < draining' PROVE task'[t] # "running"
    <3>1. t < draining \/ t = draining
      BY <2>1, <2>2, <2>3, ShutdownAssumption
    <3> QED BY SMTT(20), <2>1, <2>2, <3>1 DEF FlushInv
  <2>4. flush = "none" /\ result = "none"
    BY SMTT(20), <2>1 DEF FlushInv
  <2>5. draining' \in Nat /\ main' = "draining" /\ sink' = sink /\ result' = result /\ failures' = failures
    BY <2>1, <2>2
  <2>6. \A t \in 1..Tasks : t < draining' => task'[t] # "running"
    BY Zenon, <2>3
  <2> QED BY Zenon, <2>2, <2>4, <2>5, <2>6, FlushFrame
<1>7. ASSUME StartFlush \/ KillOverdue PROVE FlushInv'
  <2>1. /\ UNCHANGED <<sink, result, draining, task, failures>> /\ Alive
        /\ main' = "killed" \/ (main' = "flushing" /\ draining > Tasks)
    BY <1>7 DEF StartFlush, KillOverdue, Alive
  <2>2. result = "none"
    BY <2>1 DEF FlushInv, Alive
  <2> QED BY Zenon, <2>1, <2>2, FlushFrame DEF FlushInv
<1>8. ASSUME FlushAcked \/ FlushFails PROVE FlushInv'
  <2>1. /\ UNCHANGED <<sink, draining, task, failures>> /\ main' = "exited"
        /\ result' = "ok" => flush = "acked" /\ failures = {}
    BY <1>8 DEF FlushAcked, FlushFails, Returns
  <2>2. UNCHANGED <<queue, recorded, covered, written, lost, flush>>
    BY <2>1 DEF sink
  <2>3. \A v : AheadOfFlush(v)' <=> AheadOfFlush(v)
    BY <2>2 DEF AheadOfFlush
  <2> QED BY <2>1, <2>2, <2>3 DEF FlushInv
<1> QED BY SMTT(20), <1>1, <1>2, <1>3, <1>4, <1>5, <1>6, <1>7, <1>8 DEF ProcessNext

(* A process that reports success has flushed: every observation of its    *)
(* tasks, and every earlier one of what they detached, is in the database  *)
(* or counted as lost.                                                     *)
THEOREM SuccessIsFlushed == ProcessSpec => []CleanExitFlushed
<1>1. FlushInv => CleanExitFlushed
  BY DEF FlushInv, CleanExitFlushed
<1> QED BY <1>1, FlushInit, FlushNext, PTL DEF ProcessSpec

(* A task that failed is never behind a process that reports success.      *)
THEOREM NoFailureIsHidden == ProcessSpec => []FailuresSurface
<1>1. FlushInv => FailuresSurface
  BY DEF FlushInv, FailuresSurface
<1> QED BY <1>1, FlushInit, FlushNext, PTL DEF ProcessSpec

-------------------------------------------------------------------------------
(* run_udp and its associations.                                           *)
(*                                                                         *)
(* The join at the end covers the associations spawned so far; so the      *)
(* invariant says that there are no others, and that the map is dropped    *)
(* before the join starts.                                                 *)

RelayInv ==
    /\ spawned \in Nat /\ state \in [Ids -> States]
    /\ \A a \in Ids : a > spawned => state[a] = "none"
    /\ loop \in {"join", "returned"} => DOMAIN sessions = {}
    /\ NoTaskOutlivesRelay

LEMMA RelayInit == IngressInit => RelayInv
<1> SUFFICES ASSUME IngressInit PROVE RelayInv
  OBVIOUS
<1>1. spawned = 0 /\ state = [a \in Ids |-> "none"] /\ loop = "select"
  BY DEF IngressInit
<1>2. state \in [Ids -> States]
  BY <1>1 DEF States
<1> QED BY <1>1, <1>2 DEF RelayInv, NoTaskOutlivesRelay

(* A step inside an association, or of the loop before the token.          *)
LEMMA RelayKept ==
    ASSUME RelayInv, spawned' = spawned, state' \in [Ids -> States],
           \A a \in Ids : state'[a] = state[a] \/ state[a] \notin {"none", "done", "aborted"},
           \A a \in Ids : state'[a] = "none" <=> state[a] = "none",
           \/ loop' = loop /\ sessions' = sessions
           \/ loop' \in {"select", "send"}
    PROVE  RelayInv'
<1>1. \A a \in Ids : a > spawned' => state'[a] = "none"
  BY DEF RelayInv
<1>2. loop' \in {"join", "returned"} => DOMAIN sessions' = {}
  BY DEF RelayInv
<1>3. NoTaskOutlivesRelay'
  BY DEF RelayInv, NoTaskOutlivesRelay
<1> QED BY <1>1, <1>2, <1>3 DEF RelayInv

(* A JoinSet that is dropped aborts its tasks.                             *)
LEMMA TasksAborted ==
    ASSUME RelayInv, spawned' = spawned, loop' = "returned", sessions' = Empty,
           state' = [a \in Ids |-> IF state[a] \in {"none", "done"} THEN state[a]
                                   ELSE "aborted"]
    PROVE  RelayInv'
<1>1. DOMAIN sessions' = {}
  BY DEF Empty
<1>2. \A a \in Ids : /\ state'[a] \in {"none", "done", "aborted"}
                     /\ state[a] = "none" => state'[a] = "none"
  OBVIOUS
<1>3. state' \in [Ids -> States]
  BY DEF RelayInv, States
<1> QED BY <1>1, <1>2, <1>3 DEF RelayInv, NoTaskOutlivesRelay

LEMMA RelayNextHolds == RelayInv /\ [IngressNext]_ingressVars => RelayInv'
<1> SUFFICES ASSUME RelayInv, [IngressNext]_ingressVars PROVE RelayInv'
  OBVIOUS
<1>t. spawned \in Nat /\ state \in [Ids -> States]
  BY DEF RelayInv
<1>1. ASSUME Cancel \/ DrainCompletion \/ Send PROVE RelayInv'
  <2>1. UNCHANGED <<spawned, state>>
    BY <1>1 DEF Cancel, DrainCompletion, Send, assocVars
  <2>2. \/ loop' = loop /\ sessions' = sessions
        \/ loop' \in {"select", "send"}
    BY <1>1 DEF Cancel, DrainCompletion, Send
  <2> QED BY <1>t, <2>1, <2>2, RelayKept
<1>2. ASSUME StopAccepting PROVE RelayInv'
  <2>1. UNCHANGED <<spawned, state>> /\ loop' = "join" /\ DOMAIN sessions' = {}
    BY <1>2 DEF StopAccepting, assocVars, Empty
  <2> QED BY <2>1 DEF RelayInv, NoTaskOutlivesRelay
<1>3. ASSUME NEW p \in Peers, ReceiveKnown(p) \/ ReceiveRefused(p) PROVE RelayInv'
  <2>1. UNCHANGED <<spawned, state>>
    BY <1>3 DEF ReceiveKnown, ReceiveRefused, assocVars, ingressVars
  <2>2. \/ loop' = loop /\ sessions' = sessions
        \/ loop' \in {"select", "send"}
    BY <1>3 DEF ReceiveKnown, ReceiveRefused, ingressVars
  <2> QED BY <1>t, <2>1, <2>2, RelayKept
<1>4. ASSUME NEW p \in Peers, ReceiveNew(p) PROVE RelayInv'
  <2>1. /\ spawned' = spawned + 1 /\ loop' = "send"
        /\ state' = [state EXCEPT ![spawned + 1] = "spawned"]
    BY <1>4 DEF ReceiveNew
  <2>2. state' \in [Ids -> States]
    BY Zenon, <1>t, <2>1 DEF States
  <2>3. ASSUME NEW a \in Ids, a > spawned' PROVE state'[a] = "none"
    <3>1. a \in Nat /\ a > spawned /\ a # spawned + 1
      BY <1>t, <2>1, <2>3, UdpAssumption DEF Ids
    <3> QED BY <1>t, <2>1, <3>1 DEF RelayInv
  <2> QED BY <1>t, <2>1, <2>2, <2>3 DEF RelayInv, NoTaskOutlivesRelay
<1>5. ASSUME ReceiveFails \/ DrainDeadline PROVE RelayInv'
  <2>1. /\ spawned' = spawned /\ loop' = "returned" /\ sessions' = Empty
        /\ state' = [a \in Ids |-> IF state[a] \in {"none", "done"} THEN state[a]
                                   ELSE "aborted"]
    BY <1>5 DEF ReceiveFails, DrainDeadline
  <2> QED BY <2>1, TasksAborted
<1>6. ASSUME Joined PROVE RelayInv'
  <2>1. /\ loop = "join" /\ loop' = "returned" /\ UNCHANGED <<spawned, state, sessions>>
        /\ \A a \in 1..spawned : state[a] = "done"
    BY <1>6 DEF Joined, assocVars
  <2>2. ASSUME NEW a \in Ids PROVE state[a] \in {"none", "done", "aborted"}
    <3>1. a > spawned \/ a \in 1..spawned
      BY <1>t, UdpAssumption DEF Ids
    <3> QED BY <2>1, <3>1 DEF RelayInv
  <2> QED BY <2>1, <2>2 DEF RelayInv, NoTaskOutlivesRelay
<1>7. ASSUME NEW a \in Ids, TaskStep(a) PROVE RelayInv'
  <2>1. UNCHANGED <<spawned, loop, sessions>>
    BY <1>7 DEF TaskStep, Start, Relay, End, EndClosed, Complete
  <2>2. \/ state' = state
        \/ /\ state[a] \in {"spawned", "relaying", "ended"}
           /\ \E s \in {"relaying", "ended", "done"} : state' = [state EXCEPT ![a] = s]
    BY <1>7 DEF TaskStep, Start, Relay, End, EndClosed, Complete
  <2>3. state' \in [Ids -> States]
    BY <1>t, <2>2 DEF States
  <2>4. \A b \in Ids : state'[b] = state[b] \/ state[b] \notin {"none", "done", "aborted"}
    BY <1>t, <2>2
  <2>5. \A b \in Ids : state'[b] = "none" <=> state[b] = "none"
    BY <1>t, <2>2
  <2> QED BY <2>1, <2>3, <2>4, <2>5, RelayKept
<1>8. ASSUME Returned \/ UNCHANGED ingressVars PROVE RelayInv'
  <2>1. UNCHANGED ingressVars
    BY <1>8 DEF Returned
  <2> QED BY <2>1, <1>t, RelayKept DEF ingressVars, assocVars
<1> QED BY <1>1, <1>2, <1>3, <1>4, <1>5, <1>6, <1>7, <1>8 DEF IngressNext, RelayNext, LoopStep

(* When run_udp is gone, by joining, by an error or by the drain deadline, *)
(* each association has reported its end or was aborted with it.           *)
THEOREM RelayEndsLast == IngressSpec => []NoTaskOutlivesRelay
<1>1. RelayInv => NoTaskOutlivesRelay
  BY DEF RelayInv
<1> QED BY <1>1, RelayInit, RelayNextHolds, PTL DEF IngressSpec
===============================================================================

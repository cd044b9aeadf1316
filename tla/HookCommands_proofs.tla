------------------------- MODULE HookCommands_proofs -------------------------
(***************************************************************************)
(* The commands of CaptureHooks, for every set of operators and any bounds:*)
(* what the programs of the operations are, which command is due next, what*)
(* a command does to the host, and how a process moves from one command to *)
(* the next.                                                               *)
(*                                                                         *)
(* The proofs go by the shapes of the programs.  An apply ensures the hooks*)
(* of its families, then creates its chain and writes the rules last.  A   *)
(* cleanup removes its chain first and the hooks only when the other chain *)
(* that marks is gone.                                                     *)
(***************************************************************************)
EXTENDS CaptureHooks, TLAPS

Dos == {"ensure", "chain", "rules", "delete", "share", "up", "load"}

CommandSet == [do : Dos, on : Artifacts]

ChainOf(op) ==
  CASE op \in {"hooks_apply", "hooks_cleanup"} -> "output"
    [] op \in {"router_apply", "router_cleanup"} -> "router"
    [] OTHER -> "mapping"

OtherOf(op) == IF op = "hooks_cleanup" THEN "router" ELSE "output"

(* The family hooks, the chain, its rules.                                   *)
ApplyShape(cs, fam, c) ==
  /\ Len(cs) \in 2..6
  /\ cs[Len(cs) - 1] = Command("chain", c) /\ cs[Len(cs)] = Command("rules", c)
  /\ \A j \in 1..(Len(cs) - 2) : cs[j].do = "ensure" /\ cs[j].on \in Routes \cup Rules
  /\ c \in Marking => \A f \in fam : \E i, j \in 1..(Len(cs) - 2) :
                                        cs[i].on = Route(f) /\ cs[j].on = Rule(f)

(* The artifacts, by name.                                                   *)
LEMMA NamesOfArtifacts ==
  /\ Routes = {"route4", "route6"} /\ Rules = {"rule4", "rule6"}
  /\ Chains = {"output", "router", "mapping"}
  /\ Artifacts = {"route4", "route6", "rule4", "rule6", "output", "router", "mapping",
                  "legacy", "sysctl", "rt_tables", "table", "inert", "tun"}
<1>1. Routes = {"route4", "route6"} /\ Rules = {"rule4", "rule6"}
  BY DEF Routes, Rules, Route, Rule, Families
<1> QED BY <1>1 DEF Artifacts, Skeleton, Capture, Chains, Marking, Fragments

(* Every apply is a program of the shape of an apply.                        *)
LEMMA ApplyProgram ==
  ASSUME NEW call \in Calls, call.op \in Applies
  PROVE  /\ Programs[call] \in Seq(CommandSet)
         /\ ApplyShape(Programs[call], call.fam, ChainOf(call.op))
<1>FamiliesProgram.
      ASSUME NEW fam \in Options, NEW c \in Chains
      PROVE  LET cs == EnsureFamilies(fam) \o EnsureChain(c)
             IN  cs \in Seq(CommandSet) /\ ApplyShape(cs, fam, c)
  <2> DEFINE cs == EnsureFamilies(fam) \o EnsureChain(c)
  <2>0. c \in Artifacts /\ {"route4", "route6", "rule4", "rule6"} \subseteq Artifacts
    BY NamesOfArtifacts
  <2>1. CASE fam = {"v4"}
    <3>1. EnsureFamilies(fam) = <<Command("ensure", "route4"), Command("ensure", "rule4")>>
      BY <2>1 DEF EnsureFamilies
    <3>2. /\ cs \in Seq(CommandSet) /\ Len(cs) = 4
          /\ cs[1] = Command("ensure", "route4") /\ cs[2] = Command("ensure", "rule4")
          /\ cs[3] = Command("chain", c) /\ cs[4] = Command("rules", c)
      BY <3>1, <2>0 DEF EnsureChain, Command, CommandSet, Dos
    <3> QED BY <3>2, <2>1, NamesOfArtifacts DEF ApplyShape, Command, Route, Rule
  <2>2. CASE fam = Families
    <3>1. EnsureFamilies(fam) = <<Command("ensure", "route4"), Command("ensure", "rule4")>>
                                   \o <<Command("ensure", "route6"), Command("ensure", "rule6")>>
      BY <2>2 DEF EnsureFamilies, Families
    <3>2. /\ cs \in Seq(CommandSet) /\ Len(cs) = 6
          /\ cs[1] = Command("ensure", "route4") /\ cs[2] = Command("ensure", "rule4")
          /\ cs[3] = Command("ensure", "route6") /\ cs[4] = Command("ensure", "rule6")
          /\ cs[5] = Command("chain", c) /\ cs[6] = Command("rules", c)
      BY <3>1, <2>0 DEF EnsureChain, Command, CommandSet, Dos
    <3> QED BY SMTT(25), <3>2, <2>2, NamesOfArtifacts DEF ApplyShape, Command, Route, Rule, Families
  <2> QED BY <2>1, <2>2 DEF Options
<1>0. Programs[call] = Program(call.op, call.fam) /\ call.fam \in Options
  BY DEF Programs, Calls
<1>1. CASE call.op = "hooks_apply"
  <2>1. Programs[call] = EnsureFamilies(call.fam) \o EnsureChain("output")
    BY <1>0, <1>1 DEF Program, HooksApply
  <2> QED BY <2>1, <1>0, <1>1, <1>FamiliesProgram, NamesOfArtifacts DEF ChainOf
<1>2. CASE call.op = "router_apply"
  <2>1. Programs[call] = EnsureFamilies(call.fam) \o EnsureChain("router")
    BY <1>0, <1>2 DEF Program, RouterApply
  <2> QED BY <2>1, <1>0, <1>2, <1>FamiliesProgram, NamesOfArtifacts DEF ChainOf
<1>3. CASE call.op = "mapping_apply"
  <2>1. Programs[call] = EnsureChain("mapping")
    BY <1>0, <1>3 DEF Program, MappingApply
  <2>2. ChainOf(call.op) = "mapping" /\ "mapping" \in Artifacts /\ "mapping" \notin Marking
    BY <1>3, NamesOfArtifacts DEF ChainOf, Marking
  <2>3. /\ Programs[call] \in Seq(CommandSet) /\ Len(Programs[call]) = 2
        /\ Programs[call][1] = Command("chain", "mapping")
        /\ Programs[call][2] = Command("rules", "mapping")
    BY <2>1, <2>2 DEF EnsureChain, Command, CommandSet, Dos
  <2> QED BY <2>2, <2>3 DEF ApplyShape
<1> QED BY <1>1, <1>2, <1>3 DEF Applies

ShareShape(cs, chain, other) ==
  /\ Len(cs) = 7
  /\ cs[1] = Command("delete", chain) /\ cs[2] = Command("share", other)
  /\ cs[3] = Command("delete", "rule6") /\ cs[4] = Command("delete", "route6")
  /\ cs[5] = Command("delete", "rule4") /\ cs[6] = Command("delete", "route4")
  /\ cs[7] = Command("delete", "legacy")

(* Every cleanup of a marking chain is a program of the shape of one.        *)
LEMMA ShareProgram ==
  ASSUME NEW call \in Calls, call.op \in {"hooks_cleanup", "router_cleanup"}
  PROVE  /\ Programs[call] \in Seq(CommandSet)
         /\ ShareShape(Programs[call], ChainOf(call.op), OtherOf(call.op))
<1>SevenInSeq.
      ASSUME NEW S, NEW x1 \in S, NEW x2 \in S, NEW x3 \in S, NEW x4 \in S, NEW x5 \in S,
             NEW x6 \in S, NEW x7 \in S
      PROVE  <<x1, x2, x3, x4, x5, x6, x7>> \in Seq(S)
  OBVIOUS
<1>1. Programs[call] = DeleteShared(ChainOf(call.op), OtherOf(call.op))
  BY DEF Programs, Program, HooksCleanup, RouterCleanup, ChainOf, OtherOf
<1>2. ChainOf(call.op) \in Artifacts /\ OtherOf(call.op) \in Artifacts
  BY NamesOfArtifacts DEF ChainOf, OtherOf
<1>3. {"rule6", "route6", "rule4", "route4", "legacy"} \subseteq Artifacts
  BY NamesOfArtifacts
<1>4. PICK x1, x2, x3, x4, x5, x6, x7 \in CommandSet :
        /\ x1 = Command("delete", ChainOf(call.op)) /\ x2 = Command("share", OtherOf(call.op))
        /\ x3 = Command("delete", "rule6") /\ x4 = Command("delete", "route6")
        /\ x5 = Command("delete", "rule4") /\ x6 = Command("delete", "route4")
        /\ x7 = Command("delete", "legacy")
  BY Zenon, <1>2, <1>3 DEF Command, CommandSet, Dos
<1>5. Programs[call] = <<x1, x2, x3, x4, x5, x6, x7>>
  BY Zenon, <1>1, <1>4 DEF DeleteShared
<1> DEFINE cs == <<x1, x2, x3, x4, x5, x6, x7>>
<1>6. cs \in Seq(CommandSet)
  BY Zenon, <1>SevenInSeq
<1>7. Len(cs) = 7
  OBVIOUS
<1>8. /\ cs[1] = x1 /\ cs[2] = x2 /\ cs[3] = x3 /\ cs[4] = x4
      /\ cs[5] = x5 /\ cs[6] = x6 /\ cs[7] = x7
  OBVIOUS
<1> QED BY Zenon, <1>4, <1>5, <1>6, <1>7, <1>8 DEF ShareShape

(* The operations on the skeleton, and the one on the mapping.               *)
LEMMA OtherPrograms ==
  ASSUME NEW call \in Calls
  PROVE  /\ call.op = "apply" =>
              /\ Programs[call] \in Seq(CommandSet) /\ Len(Programs[call]) = 7
              /\ \A i \in 1..7 : /\ Programs[call][i].do \in {"ensure", "up", "load"}
                                 /\ Programs[call][i].on \in Skeleton
                                 /\ Programs[call][i].do = "up" => Programs[call][i].on = "tun"
         /\ call.op = "cleanup" =>
              /\ Programs[call] \in Seq(CommandSet) /\ Len(Programs[call]) = 4
              /\ Programs[call][1] = Command("delete", "table")
              /\ \A i \in 1..4 : Programs[call][i].do = "delete" /\ Programs[call][i].on \in Skeleton
         /\ call.op = "mapping_cleanup" =>
              /\ Programs[call] \in Seq(CommandSet) /\ Len(Programs[call]) = 1
              /\ Programs[call][1] = Command("delete", "mapping")
         /\ call.op \in {"stop", "spawn", "report"} => Programs[call] = <<>>
<1>0. Programs[call] = Program(call.op, call.fam)
  BY DEF Programs
<1>1. ASSUME call.op = "apply"
      PROVE  /\ Programs[call] \in Seq(CommandSet) /\ Len(Programs[call]) = 7
             /\ \A i \in 1..7 : /\ Programs[call][i].do \in {"ensure", "up", "load"}
                                /\ Programs[call][i].on \in Skeleton
                                /\ Programs[call][i].do = "up" => Programs[call][i].on = "tun"
  <2>1. Programs[call] = Apply
    BY <1>0, <1>1 DEF Program
  <2>2. {"sysctl", "rt_tables", "tun", "table", "inert"} \subseteq Skeleton /\ Skeleton \subseteq Artifacts
    BY DEF Skeleton, Fragments, Artifacts
  <2> QED BY <2>1, <2>2 DEF Apply, Command, CommandSet, Dos
<1>2. ASSUME call.op = "cleanup"
      PROVE  /\ Programs[call] \in Seq(CommandSet) /\ Len(Programs[call]) = 4
             /\ Programs[call][1] = Command("delete", "table")
             /\ \A i \in 1..4 : Programs[call][i].do = "delete" /\ Programs[call][i].on \in Skeleton
  <2>1. Programs[call] = Cleanup
    BY <1>0, <1>2 DEF Program
  <2>2. {"sysctl", "rt_tables", "tun", "table", "inert"} \subseteq Skeleton /\ Skeleton \subseteq Artifacts
    BY DEF Skeleton, Fragments, Artifacts
  <2>3. Programs[call] \in Seq(CommandSet) /\ Len(Programs[call]) = 4
    BY <2>1, <2>2 DEF Cleanup, Command, CommandSet, Dos
  <2>4. /\ Programs[call][1] = Command("delete", "table")
        /\ \A i \in 1..4 : Programs[call][i].do = "delete" /\ Programs[call][i].on \in Skeleton
    BY <2>1, <2>2 DEF Cleanup, Command
  <2> QED BY <2>3, <2>4
<1>3. ASSUME call.op = "mapping_cleanup"
      PROVE  /\ Programs[call] \in Seq(CommandSet) /\ Len(Programs[call]) = 1
             /\ Programs[call][1] = Command("delete", "mapping")
  <2>1. Programs[call] = <<Command("delete", "mapping")>>
    BY <1>0, <1>3 DEF Program, MappingCleanup
  <2>2. Command("delete", "mapping") \in CommandSet
    BY NamesOfArtifacts DEF Command, CommandSet, Dos
  <2> QED BY <2>1, <2>2
<1>4. call.op \in {"stop", "spawn", "report"} => Programs[call] = <<>>
  BY <1>0 DEF Program
<1> QED BY <1>1, <1>2, <1>3, <1>4

(* A program is a short sequence of commands.                                *)
LEMMA ProgramTypes ==
  ASSUME NEW call \in Calls
  PROVE  Programs[call] \in Seq(CommandSet) /\ Len(Programs[call]) <= 7
<1> DEFINE Fits == Programs[call] \in Seq(CommandSet) /\ Len(Programs[call]) <= 7
<1>1. call.op \in Operations
  BY DEF Calls
<1>2. call.op \in {"stop", "spawn", "report"} => Fits
  <2>1. call.op \in {"stop", "spawn", "report"} => Programs[call] = <<>>
    BY Zenon, OtherPrograms
  <2>2. <<>> \in Seq(CommandSet) /\ Len(<<>>) <= 7
    OBVIOUS
  <2> QED BY Zenon, <2>1, <2>2
<1>3. \A k \in {1, 4, 7} \cup (2..6) : k <= 7
  OBVIOUS
<1>4. call.op \in {"apply", "cleanup", "mapping_cleanup"} => Fits
  BY Zenon, <1>3, OtherPrograms
<1>5. call.op \in Applies => Fits
  BY Zenon, <1>3, ApplyProgram DEF ApplyShape
<1>6. call.op \in {"hooks_cleanup", "router_cleanup"} => Fits
  BY Zenon, <1>3, ShareProgram DEF ShareShape
<1> HIDE DEF Fits
<1>7. Fits
  BY <1>1, <1>2, <1>4, <1>5, <1>6 DEF Operations, Applies, Cleanups
<1> QED BY <1>7 DEF Fits

(* What a command can be about, by kind.                                     *)
KindOK(c) ==
  /\ c.do = "ensure" => c.on \in Routes \cup Rules \cup Skeleton
  /\ c.do \in {"chain", "rules"} => c.on \in Chains
  /\ c.do = "up" => c.on = "tun"

(* The supervisor's plan is what remains of a start or of a fail-open        *)
(* cleanup; operators neither spawn the runtime nor report its end.          *)
Remains(ops, all) ==
  /\ Len(ops) <= Len(all)
  /\ \A i \in 1..Len(ops) : ops[i].op = all[Len(all) - Len(ops) + i]

StartOps == <<"router_cleanup", "hooks_cleanup", "mapping_cleanup", "apply", "spawn">>

ExitOps == <<"router_cleanup", "hooks_cleanup", "mapping_cleanup", "report">>

(* The operations of the supervisor before and after the runtime, one by     *)
(* one.                                                                      *)
LEMMA OpsOf ==
  /\ Len(StartOps) = 5
  /\ StartOps[1] = "router_cleanup" /\ StartOps[2] = "hooks_cleanup"
  /\ StartOps[3] = "mapping_cleanup" /\ StartOps[4] = "apply" /\ StartOps[5] = "spawn"
  /\ Len(ExitOps) = 4
  /\ ExitOps[1] = "router_cleanup" /\ ExitOps[2] = "hooks_cleanup"
  /\ ExitOps[3] = "mapping_cleanup" /\ ExitOps[4] = "report"
<1>2. Len(StartOps) = 5
  BY DEF StartOps
<1>3. /\ StartOps[1] = "router_cleanup" /\ StartOps[2] = "hooks_cleanup"
      /\ StartOps[3] = "mapping_cleanup" /\ StartOps[4] = "apply" /\ StartOps[5] = "spawn"
  BY DEF StartOps
<1>5. Len(ExitOps) = 4
  BY DEF ExitOps
<1>6. /\ ExitOps[1] = "router_cleanup" /\ ExitOps[2] = "hooks_cleanup"
      /\ ExitOps[3] = "mapping_cleanup" /\ ExitOps[4] = "report"
  BY DEF ExitOps
<1> QED BY <1>2, <1>3, <1>5, <1>6

(* What Start plans for the supervisor.                                      *)
LEMMA PlanOfStart ==
  LET ops == CleanupAll \o <<Call("apply", Families), Call("spawn", Families)>>
  IN  /\ ops \in Seq(Calls) /\ ops # <<>> /\ Remains(ops, StartOps)
      /\ Head(ops).op = "router_cleanup"
<1> DEFINE ops == CleanupAll \o <<Call("apply", Families), Call("spawn", Families)>>
<1>1. \A op \in Operations : Call(op, Families) \in Calls /\ Call(op, Families).op = op
  BY DEF Call, Calls, Options
<1>2. {"router_cleanup", "hooks_cleanup", "mapping_cleanup", "apply", "spawn"} \subseteq Operations
  BY DEF Operations, Cleanups
<1>3. /\ ops \in Seq(Calls) /\ Len(ops) = 5
      /\ ops[1] = Call("router_cleanup", Families) /\ ops[2] = Call("hooks_cleanup", Families)
      /\ ops[3] = Call("mapping_cleanup", Families) /\ ops[4] = Call("apply", Families)
      /\ ops[5] = Call("spawn", Families)
  <2>1. PICK x1, x2, x3, x4, x5 \in Calls :
          /\ x1 = Call("router_cleanup", Families) /\ x2 = Call("hooks_cleanup", Families)
          /\ x3 = Call("mapping_cleanup", Families) /\ x4 = Call("apply", Families)
          /\ x5 = Call("spawn", Families)
    BY Zenon, <1>1, <1>2
  <2> DEFINE seq == <<x1, x2, x3>> \o <<x4, x5>>
  <2>2. /\ seq \in Seq(Calls) /\ Len(seq) = 5
        /\ seq[1] = x1 /\ seq[2] = x2 /\ seq[3] = x3 /\ seq[4] = x4 /\ seq[5] = x5
    OBVIOUS
  <2>3. ops = seq
    BY Zenon, <2>1 DEF CleanupAll
  <2> QED BY Zenon, <2>1, <2>2, <2>3
<1>4. Len(StartOps) = 5
  BY OpsOf
<1>5. /\ ops[1].op = StartOps[1] /\ ops[2].op = StartOps[2] /\ ops[3].op = StartOps[3]
      /\ ops[4].op = StartOps[4] /\ ops[5].op = StartOps[5] /\ ops[1].op = "router_cleanup"
  BY Zenon, <1>1, <1>2, <1>3, OpsOf
<1> HIDE DEF ops
<1>6. Head(ops) = ops[1] /\ ops # <<>>
  BY <1>3
<1>7. Remains(ops, StartOps)
  <2>1. \A i \in 1..5 : ops[i].op = StartOps[i]
    <3> TAKE i \in 1..5
    <3>1. i \in {1, 2, 3, 4, 5}
      OBVIOUS
    <3> QED BY Zenon, <3>1, <1>5
  <2>2. \A i \in 1..5 : Len(StartOps) - Len(ops) + i = i
    BY <1>3, <1>4
  <2>3. Len(ops) = 5 /\ Len(ops) <= Len(StartOps)
    BY <1>3, <1>4
  <2>4. \A i \in 1..Len(ops) : ops[i].op = StartOps[Len(StartOps) - Len(ops) + i]
    <3> TAKE i \in 1..Len(ops)
    <3>1. i \in 1..5
      BY <2>3
    <3>2. Len(StartOps) - Len(ops) + i = i
      BY Zenon, <3>1, <2>2
    <3> QED BY Zenon, <3>1, <3>2, <2>1
  <2> QED BY <2>3, <2>4 DEF Remains
<1> QED BY <1>3, <1>5, <1>6, <1>7 DEF ops

(* What Exit, or a stop, plans for the supervisor.                           *)
LEMMA PlanOfExit ==
  LET ops == CleanupAll \o <<Call("report", Families)>>
  IN  /\ ops \in Seq(Calls) /\ ops # <<>> /\ Remains(ops, ExitOps)
      /\ Head(ops).op = "router_cleanup"
<1> DEFINE ops == CleanupAll \o <<Call("report", Families)>>
<1>1. \A op \in Operations : Call(op, Families) \in Calls /\ Call(op, Families).op = op
  BY DEF Call, Calls, Options
<1>2. {"router_cleanup", "hooks_cleanup", "mapping_cleanup", "report"} \subseteq Operations
  BY DEF Operations, Cleanups
<1>3. /\ ops \in Seq(Calls) /\ Len(ops) = 4
      /\ ops[1] = Call("router_cleanup", Families) /\ ops[2] = Call("hooks_cleanup", Families)
      /\ ops[3] = Call("mapping_cleanup", Families) /\ ops[4] = Call("report", Families)
  <2>1. PICK x1, x2, x3, x4 \in Calls :
          /\ x1 = Call("router_cleanup", Families) /\ x2 = Call("hooks_cleanup", Families)
          /\ x3 = Call("mapping_cleanup", Families) /\ x4 = Call("report", Families)
    BY Zenon, <1>1, <1>2
  <2> DEFINE seq == <<x1, x2, x3>> \o <<x4>>
  <2>2. /\ seq \in Seq(Calls) /\ Len(seq) = 4
        /\ seq[1] = x1 /\ seq[2] = x2 /\ seq[3] = x3 /\ seq[4] = x4
    OBVIOUS
  <2>3. ops = seq
    BY Zenon, <2>1 DEF CleanupAll
  <2> QED BY Zenon, <2>1, <2>2, <2>3
<1>4. Len(ExitOps) = 4
  BY OpsOf
<1>5. /\ ops[1].op = ExitOps[1] /\ ops[2].op = ExitOps[2] /\ ops[3].op = ExitOps[3]
      /\ ops[4].op = ExitOps[4] /\ ops[1].op = "router_cleanup"
  BY Zenon, <1>1, <1>2, <1>3, OpsOf
<1> HIDE DEF ops
<1>6. Head(ops) = ops[1] /\ ops # <<>>
  BY <1>3
<1>7. Remains(ops, ExitOps)
  <2>1. \A i \in 1..4 : ops[i].op = ExitOps[i]
    <3> TAKE i \in 1..4
    <3>1. i \in {1, 2, 3, 4}
      OBVIOUS
    <3> QED BY Zenon, <3>1, <1>5
  <2>2. \A i \in 1..4 : Len(ExitOps) - Len(ops) + i = i
    BY <1>3, <1>4
  <2>3. Len(ops) = 4 /\ Len(ops) <= Len(ExitOps)
    BY <1>3, <1>4
  <2>4. \A i \in 1..Len(ops) : ops[i].op = ExitOps[Len(ExitOps) - Len(ops) + i]
    <3> TAKE i \in 1..Len(ops)
    <3>1. i \in 1..4
      BY <2>3
    <3>2. Len(ExitOps) - Len(ops) + i = i
      BY Zenon, <3>1, <2>2
    <3> QED BY Zenon, <3>1, <3>2, <2>1
  <2> QED BY <2>3, <2>4 DEF Remains
<1> QED BY <1>3, <1>5, <1>6, <1>7 DEF ops

(* What Invoke plans for an operator.                                        *)
LEMMA SingleOperation ==
  ASSUME NEW op \in Operations \ {"spawn", "report"}, NEW fam \in Options
  PROVE  LET ops == <<Call(op, fam)>>
         IN  /\ ops \in Seq(Calls) /\ ops # <<>>
             /\ \A i \in 1..Len(ops) : ops[i].op \notin {"spawn", "report"}
<1>1. PICK x \in Calls : x = Call(op, fam)
  BY Zenon DEF Call, Calls
<1>2. x.op = op
  BY <1>1 DEF Call
<1>3. <<x>> \in Seq(Calls) /\ <<x>> # <<>> /\ \A i \in 1..Len(<<x>>) : <<x>>[i].op = op
  BY <1>2
<1> QED BY <1>1, <1>3

(* What PrepareStop plans is made of three operations.                       *)
LEMMA ThreeOperations ==
  ASSUME NEW S, NEW x \in S, NEW y \in S, NEW z \in S
  PROVE  LET s == <<x, y>> \o <<z>>
         IN  s \in Seq(S) /\ s # <<>> /\ \A i \in 1..Len(s) : s[i] \in {x, y, z}
<1>1. <<x, y>> \in Seq(S) /\ <<z>> \in Seq(S)
  OBVIOUS
<1>2. \A s, t \in Seq(S) : s \o t \in Seq(S)
  OBVIOUS
<1>3. Len(<<x, y>> \o <<z>>) = 3
  OBVIOUS
<1>4. \A i \in 1..3 : (<<x, y>> \o <<z>>)[i] \in {x, y, z}
  OBVIOUS
<1>5. Len(<<>>) = 0
  OBVIOUS
<1>6. <<x, y>> \o <<z>> # <<>>
  BY <1>3, <1>5
<1>7. <<x, y>> \o <<z>> \in Seq(S)
  BY Zenon, <1>1, <1>2
<1> QED BY Zenon, <1>3, <1>4, <1>6, <1>7

(* The supervisor is not an operator.                                        *)
LEMMA SupervisorApart == Supervisor \in Procs /\ Supervisor \notin Operators /\ Procs \ {Supervisor} = Operators
BY HooksAssumption DEF Procs

(* The next command of an operation.                                         *)
LEMMA DueFacts ==
  ASSUME NEW p, Head(plan[p]) \in Calls, at[p] \in 1..(Len(Commands(p)) + 1)
  PROVE  /\ Due(p) \in at[p]..(Len(Commands(p)) + 1)
         /\ Due(p) = Len(Commands(p)) + 1 \/ Needed(p, Due(p))
         /\ \A j \in at[p]..(Due(p) - 1) : ~Needed(p, j)
<1> DEFINE n == Len(Commands(p))
           Stops == {i \in at[p]..n + 1 : i = n + 1 \/ Needed(p, i)}
           First(i) == /\ i = n + 1 \/ Needed(p, i)
                       /\ \A j \in at[p]..(i - 1) : ~Needed(p, j)
<1>0. Commands(p) \in Seq(CommandSet) /\ n <= 7
  BY Zenon, ProgramTypes DEF Commands
<1>1. n \in Nat /\ Stops \in SUBSET (1..8) /\ n + 1 \in Stops
  BY <1>0
<1>2. PICK m \in Stops : \A h \in Stops : m <= h
  <2> HIDE DEF Stops, n
  <2> DEFINE Least(k) == k \in Stops /\ \A h \in Stops : k <= h
  <2>1. Least(1) \/ Stops \subseteq 2..8
    BY <1>1
  <2>2. Stops \subseteq 2..8 => Least(2) \/ Stops \subseteq 3..8
    BY <1>1
  <2>3. Stops \subseteq 3..8 => Least(3) \/ Stops \subseteq 4..8
    BY <1>1
  <2>4. Stops \subseteq 4..8 => Least(4) \/ Stops \subseteq 5..8
    BY <1>1
  <2>5. Stops \subseteq 5..8 => Least(5) \/ Stops \subseteq 6..8
    BY <1>1
  <2>6. Stops \subseteq 6..8 => Least(6) \/ Stops \subseteq 7..8
    BY <1>1
  <2>7. Stops \subseteq 7..8 => Least(7) \/ Least(8)
    BY <1>1
  <2> QED BY Zenon, <2>1, <2>2, <2>3, <2>4, <2>5, <2>6, <2>7
<1>5. m \in at[p]..n + 1 /\ First(m)
  <2>0. m \in at[p]..n + 1
    BY Zenon
  <2>1. \A j \in at[p]..(m - 1) : j \in at[p]..n + 1 /\ ~(m <= j)
    <3> HIDE DEF Stops
    <3> QED BY <1>0, <1>1, <2>0
  <2>2. \A j \in at[p]..(m - 1) : ~Needed(p, j)
    BY Zenon, <2>1, <1>2
  <2> QED BY <2>2, <1>2
<1>6. Due(p) = CHOOSE i \in at[p]..n + 1 : First(i)
  BY DEF Due
<1> HIDE DEF First
<1>7. Due(p) \in at[p]..n + 1 /\ First(Due(p))
  BY Zenon, <1>5, <1>6
<1> QED BY Zenon, <1>7 DEF First

(* What a listing says of a command, by kind.                                *)
LEMMA Statuses ==
  ASSUME NEW c, NEW fam
  PROVE  /\ c.do = "ensure" => (Unneeded(c, fam) <=> Owned(c.on) \/ art[c.on] = "down")
         /\ c.do = "chain" => (Unneeded(c, fam) <=> Ready(c.on, fam)) /\ Passed(c) = 2
         /\ c.do = "rules" => ~Unneeded(c, fam)
         /\ c.do = "delete" => (Unneeded(c, fam) <=> ~Owned(c.on) /\ ~(Foreign(c.on) /\ c.on \in Skeleton))
         /\ c.do = "share" => Unneeded(c, fam) /\ Passed(c) = IF Owned(c.on) THEN 5 ELSE 1
         /\ c.do \notin {"chain", "share"} => Passed(c) = 1
BY DEF Unneeded, Passed

(* An apply passes over hooks that are there; it writes the rules of a chain *)
(* only after it has created the chain, and ends early at a ready chain.     *)
LEMMA ApplyDue ==
  ASSUME NEW p, NEW c, Head(plan[p]) \in Calls, ApplyShape(Commands(p), Fam(p), c),
         at[p] \in 1..(Len(Commands(p)) + 1),
         \A a \in Routes \cup Rules : art[a] # "down"
  PROVE  LET n == Len(Commands(p))
             d == Due(p)
         IN  /\ d \in at[p]..(n + 1)
             /\ d <= n => ~Unneeded(Current(p), Fam(p))
             /\ \A j \in at[p]..(d - 1) : j <= n - 2 => Owned(Commands(p)[j].on)
             /\ d = n => at[p] = n
             /\ d = n + 1 => at[p] = n + 1 \/ Ready(c, Fam(p))
<1> DEFINE n == Len(Commands(p))
           d == Due(p)
           cs == Commands(p)
           skip(j) == Unneeded(cs[j], Fam(p))
<1> HIDE DEF n, d, cs, skip
<1>1. n \in Nat /\ at[p] \in 1..(n + 1) /\ d \in at[p]..(n + 1)
  <2>1. Commands(p) \in Seq(CommandSet)
    BY Zenon, ProgramTypes DEF Commands
  <2> QED BY <2>1, DueFacts DEF n, d, cs
<1>2. ApplyShape(cs, Fam(p), c) /\ n = Len(cs)
  BY DEF cs, n
<1>3. \A j \in 1..(n - 2) : /\ Passed(cs[j]) = 1
                            /\ skip(j) <=> Owned(cs[j].on)
  <2>1. \A j \in 1..(n - 2) : cs[j].do = "ensure" /\ cs[j].on \in Routes \cup Rules
    BY <1>2 DEF ApplyShape
  <2> QED BY Zenon, <2>1, Statuses DEF skip
<1>4. /\ Passed(cs[n - 1]) = 2 /\ (skip(n - 1) <=> Ready(c, Fam(p)))
      /\ ~skip(n)
  <2>1. cs[n - 1].do = "chain" /\ cs[n - 1].on = c /\ cs[n].do = "rules"
    BY <1>2 DEF ApplyShape, Command
  <2> QED BY Zenon, <2>1, Statuses DEF skip
<1>5. \A i \in at[p]..n : Needed(p, i) <=>
         ~skip(i) /\ \A j \in at[p]..(i - 1) : skip(j) => j + Passed(cs[j]) <= i
  BY DEF Needed, skip, cs
<1>6. /\ d = n + 1 \/ Needed(p, d)
      /\ \A j \in at[p]..(d - 1) : ~Needed(p, j)
  BY DueFacts DEF d, cs, n
<1>7. \A j \in at[p]..(d - 1) : j <= n - 1 => skip(j)
  <2> SUFFICES ASSUME NEW j \in at[p]..(d - 1), j <= n - 1, ~skip(j) PROVE FALSE
    OBVIOUS
  <2>1. \A i \in at[p]..(j - 1) : i + Passed(cs[i]) <= j
    BY <1>1, <1>3
  <2>2. Needed(p, j)
    BY <2>1, <1>1, <1>5
  <2> QED BY <2>2, <1>6
<1>8. d <= n => ~skip(d)
  BY <1>1, <1>5, <1>6
<1>9. d = n => at[p] = n
  <2> SUFFICES ASSUME d = n, at[p] # n PROVE FALSE
    OBVIOUS
  <2>1. n - 1 \in at[p]..(d - 1)
    BY <1>1
  <2>2. skip(n - 1)
    BY <2>1, <1>7, <1>1
  <2>3. Needed(p, n)
    BY <1>6, <1>1
  <2>4. (n - 1) + Passed(cs[n - 1]) <= n
    BY <2>1, <2>2, <2>3, <1>5, <1>1
  <2> QED BY <2>4, <1>4, <1>1
<1>10. d = n + 1 => at[p] = n + 1 \/ Ready(c, Fam(p))
  <2> SUFFICES ASSUME d = n + 1, at[p] # n + 1 PROVE Ready(c, Fam(p))
    OBVIOUS
  <2>1. CASE at[p] = n
    <3>1. Needed(p, n)
      BY <2>1, <1>1, <1>4, <1>5
    <3> QED BY <3>1, <2>1, <1>1, <1>6
  <2>2. CASE at[p] <= n - 1
    <3>1. n - 1 \in at[p]..(d - 1)
      BY <2>2, <1>1
    <3> QED BY <3>1, <1>7, <1>4, <1>1
  <2> QED BY <2>1, <2>2, <1>1
<1>11. \A j \in at[p]..(d - 1) : j <= n - 2 => Owned(cs[j].on)
  BY <1>1, <1>3, <1>7
<1> QED BY <1>1, <1>8, <1>9, <1>10, <1>11 DEF n, d, cs, skip, Current

(* A cleanup of hooks passes over the family hooks only for the other chain. *)
LEMMA ShareDue ==
  ASSUME NEW p, NEW c, NEW o, Head(plan[p]) \in Calls, ShareShape(Commands(p), c, o),
         at[p] \in 1..8
  PROVE  LET d == Due(p)
         IN  /\ d \in at[p]..8
             /\ d <= 7 => ~Unneeded(Current(p), Fam(p))
             /\ \A j \in at[p]..(d - 1) :
                  /\ j \in {1, 7} => Unneeded(Commands(p)[j], Fam(p))
                  /\ j \in 3..6 => Unneeded(Commands(p)[j], Fam(p)) \/ Owned(o)
             /\ d \in 3..6 /\ at[p] <= 2 => ~Owned(o)
<1> DEFINE d == Due(p)
           cs == Commands(p)
           skip(j) == Unneeded(cs[j], Fam(p))
<1> HIDE DEF d, cs, skip
<1>1. ShareShape(cs, c, o) /\ Len(cs) = 7 /\ at[p] \in 1..8
  BY DEF cs, ShareShape
<1>2. /\ d \in at[p]..8
      /\ d = 8 \/ Needed(p, d)
      /\ \A j \in at[p]..(d - 1) : ~Needed(p, j)
  <2>1. Len(cs) + 1 = 8 /\ at[p] \in 1..(Len(cs) + 1)
    BY <1>1
  <2>2. /\ d \in at[p]..(Len(cs) + 1)
        /\ d = Len(cs) + 1 \/ Needed(p, d)
        /\ \A j \in at[p]..(d - 1) : ~Needed(p, j)
    BY Zenon, <2>1, DueFacts DEF d, cs
  <2> QED BY <2>1, <2>2
<1>3. \A i \in at[p]..7 : Needed(p, i) <=>
         ~skip(i) /\ \A j \in at[p]..(i - 1) : skip(j) => j + Passed(cs[j]) <= i
  BY DEF Needed, skip, cs
<1>4. /\ skip(2) /\ cs[2].on = o /\ Passed(cs[2]) = IF Owned(o) THEN 5 ELSE 1
      /\ \A j \in 1..7 : j # 2 => Passed(cs[j]) = 1
  <2>1. cs[2].do = "share" /\ cs[2].on = o
    BY <1>1 DEF ShareShape, Command
  <2>2. \A j \in 1..7 : j # 2 => cs[j].do = "delete"
    BY <1>1 DEF ShareShape, Command
  <2>3. \A j \in 1..7 : j # 2 => Passed(cs[j]) = 1
    BY Zenon, <2>2, Statuses
  <2> QED BY <2>1, <2>3, Statuses DEF skip
<1>5. d <= 7 => ~skip(d)
  BY <1>1, <1>2, <1>3
<1>6. \A j \in at[p]..(d - 1) : (j \in {1, 7} => skip(j)) /\ (j \in 3..6 => skip(j) \/ Owned(o))
  <2> SUFFICES ASSUME NEW j \in at[p]..(d - 1), ~skip(j), j \in {1, 7} \/ (j \in 3..6 /\ ~Owned(o))
               PROVE  FALSE
    OBVIOUS
  <2>1. \A i \in at[p]..(j - 1) : i + Passed(cs[i]) <= j
    <3> SUFFICES ASSUME NEW i \in at[p]..(j - 1) PROVE i + Passed(cs[i]) <= j
      OBVIOUS
    <3>1. i \in 1..6 /\ j \in 3..7 /\ i < j
      BY <1>1, <1>2
    <3>2. CASE i = 2
      BY <3>1, <3>2, <1>4
    <3>3. CASE i # 2
      BY <3>1, <3>3, <1>4
    <3> QED BY <3>2, <3>3
  <2>2. Needed(p, j)
    BY <2>1, <1>1, <1>2, <1>3
  <2> QED BY <2>2, <1>2
<1>7. d \in 3..6 /\ at[p] <= 2 => ~Owned(o)
  <2> SUFFICES ASSUME d \in 3..6, at[p] <= 2, Owned(o) PROVE FALSE
    OBVIOUS
  <2>1. Needed(p, d) /\ 2 \in at[p]..(d - 1) /\ d \in at[p]..7
    BY <1>1, <1>2
  <2>2. 2 + Passed(cs[2]) <= d
    BY <2>1, <1>3, <1>4
  <2> QED BY <2>2, <1>4
<1> QED BY <1>2, <1>5, <1>6, <1>7 DEF d, cs, skip, Current

(* The other operations pass over commands one by one.                       *)
LEMMA LinearDue ==
  ASSUME NEW p, Head(plan[p]) \in Calls, at[p] \in 1..(Len(Commands(p)) + 1),
         \A j \in 1..Len(Commands(p)) : Commands(p)[j].do \notin {"chain", "share"}
  PROVE  LET d == Due(p)
             n == Len(Commands(p))
         IN  /\ d \in at[p]..(n + 1)
             /\ d <= n => ~Unneeded(Current(p), Fam(p))
             /\ \A j \in at[p]..(d - 1) : Unneeded(Commands(p)[j], Fam(p))
<1> DEFINE n == Len(Commands(p))
           d == Due(p)
           cs == Commands(p)
           skip(j) == Unneeded(cs[j], Fam(p))
<1> HIDE DEF n, d, cs, skip
<1>1. /\ n \in Nat /\ at[p] \in 1..(n + 1) /\ d \in at[p]..(n + 1)
      /\ d = n + 1 \/ Needed(p, d)
      /\ \A j \in at[p]..(d - 1) : ~Needed(p, j)
  <2>1. Commands(p) \in Seq(CommandSet)
    BY Zenon, ProgramTypes DEF Commands
  <2> QED BY <2>1, DueFacts DEF n, d, cs
<1>2. \A i \in at[p]..n : Needed(p, i) <=>
         ~skip(i) /\ \A j \in at[p]..(i - 1) : skip(j) => j + Passed(cs[j]) <= i
  BY DEF Needed, skip, cs
<1>3. \A j \in 1..n : Passed(cs[j]) = 1
  BY Zenon, Statuses DEF cs, n
<1>4. \A i \in at[p]..n : Needed(p, i) <=> ~skip(i)
  BY <1>1, <1>2, <1>3
<1> QED BY <1>1, <1>4 DEF n, d, cs, skip, Current

(* The host.  Only the interface can be down, a chain is inside the table,   *)
(* and a chain that is not there has no rules.                               *)
HostOK ==
  /\ art \in [Artifacts -> States]
  /\ rules \in [Chains -> [marks : SUBSET Families, whole : BOOLEAN]]
  /\ \A a \in Artifacts : art[a] = "down" => a = "tun"
  /\ \A c \in Chains : Owned(c) => Owned("table")
  /\ \A c \in Chains : art[c] = "missing" => rules[c] = NoRules

(* A fresh host, or one with a skeleton left over, is in order.             *)
LEMMA HostInit == Init => HostOK
<1> SUFFICES ASSUME Init PROVE HostOK
  OBVIOUS
<1>1. PICK left \in {{}, Skeleton \cup {"legacy"}} :
        art = [a \in Artifacts |-> IF a \in left THEN "owned" ELSE "missing"]
  BY DEF Init
<1>2. /\ art \in [Artifacts -> States]
      /\ \A a \in Artifacts : art[a] # "down"
      /\ \A c \in Chains : art[c] = "missing"
  BY <1>1, NamesOfArtifacts DEF States, Skeleton, Fragments
<1>3. /\ rules \in [Chains -> [marks : SUBSET Families, whole : BOOLEAN]]
      /\ \A c \in Chains : rules[c] = NoRules
  BY DEF Init, NoRules
<1> QED BY <1>2, <1>3 DEF HostOK, Owned

(* Removing artifacts keeps the host in order, if the chains go with the     *)
(* table.                                                                    *)
LEMMA RemoveHost ==
  ASSUME HostOK, NEW as, "table" \in as => Chains \subseteq as, Remove(as)
  PROVE  HostOK'
<1>1. /\ art' \in [Artifacts -> States]
      /\ \A a \in Artifacts : art'[a] = IF a \in as THEN "missing" ELSE art[a]
  BY Zenon DEF HostOK, Remove, States
<1>2. /\ rules' \in [Chains -> [marks : SUBSET Families, whole : BOOLEAN]]
      /\ \A c \in Chains : rules'[c] = IF c \in as THEN NoRules ELSE rules[c]
  BY Zenon DEF HostOK, Remove, NoRules
<1>3. Chains \subseteq Artifacts /\ "table" \in Artifacts
  BY NamesOfArtifacts
<1> QED BY Zenon, <1>1, <1>2, <1>3 DEF HostOK, Owned

(* Creating an artifact keeps the host in order.                             *)
LEMMA CreateHost ==
  ASSUME HostOK, NEW a \in Artifacts, NEW new \in {"owned", "foreign", "down"},
         a \in Chains => Owned("table"), new = "down" => a = "tun",
         a = "table" => ~Owned("table") \/ new = "owned",
         art' = [art EXCEPT ![a] = new], rules' = rules
  PROVE  HostOK'
<1>1. art' \in [Artifacts -> States] /\ \A b \in Artifacts : art'[b] = IF b = a THEN new ELSE art[b]
  BY DEF HostOK, States
<1>2. Chains \subseteq Artifacts /\ "table" \in Artifacts /\ "table" \notin Chains
  BY NamesOfArtifacts
<1> QED BY <1>1, <1>2 DEF HostOK, Owned

(* Writing the rules of a chain that exists keeps the host in order.         *)
LEMMA WriteHost ==
  ASSUME HostOK, NEW c \in Chains, art[c] # "missing",
         NEW new \in [marks : SUBSET Families, whole : BOOLEAN],
         rules' = [rules EXCEPT ![c] = new], art' = art
  PROVE  HostOK'
BY DEF HostOK, Owned

(* What a command does, by kind.                                             *)
LEMMA Effects ==
  ASSUME NEW c, NEW fam, Perform(c, fam)
  PROVE  /\ c.do = "delete" => Remove(Deleted(c.on))
         /\ c.do \in {"ensure", "chain", "up"} =>
              /\ art' = [art EXCEPT ![c.on] =
                           IF c.do = "ensure" /\ c.on = "tun" THEN "down" ELSE "owned"]
              /\ rules' = rules
         /\ c.do = "rules" =>
              /\ rules' = [rules EXCEPT ![c.on] =
                             [marks |-> @.marks \cup fam, whole |-> @ = NoRules]]
              /\ art' = art
         /\ c.do \in {"share", "load"} => art' = art /\ rules' = rules
BY DEF Perform, host

(* What a command finds on the host when it can succeed.                     *)
LEMMA Possibilities ==
  ASSUME NEW c, Possible(c)
  PROVE  /\ c.do = "ensure" => art[c.on] = "missing" /\ (c.on = "inert" => Owned("table"))
         /\ c.do = "up" => art["tun"] = "down"
         /\ c.do = "chain" => Owned("table") /\ ~Foreign(c.on)
         /\ c.do = "rules" => art[c.on] # "missing"
         /\ c.do = "delete" => Owned(c.on)
BY DEF Possible

(* A command that fails half-way changes at most the rules of its chain, and *)
(* adds marks only of the families it was asked for.                         *)
LEMMA PartEffects ==
  ASSUME HostOK, NEW c \in CommandSet, KindOK(c), NEW fam \in Options, PerformPart(c, fam)
  PROVE  /\ art' = art
         /\ \/ rules' = rules
            \/ /\ c.do = "rules" /\ c.on \in Chains /\ art[c.on] # "missing"
               /\ \E new \in [marks : SUBSET Families, whole : BOOLEAN] :
                    /\ rules' = [rules EXCEPT ![c.on] = new]
                    /\ new.marks \subseteq rules[c.on].marks \cup fam
<1>1. CASE c.do = "rules" /\ Possible(c)
  <2>1. c.on \in Chains /\ art[c.on] # "missing"
    BY <1>1, Possibilities DEF KindOK
  <2>2. art' = art
    BY <1>1 DEF PerformPart
  <2>3. PICK marks \in {{}, fam} :
          rules' = [rules EXCEPT ![c.on] = [marks |-> @.marks \cup marks, whole |-> FALSE]]
    BY <1>1 DEF PerformPart
  <2> DEFINE new == [marks |-> rules[c.on].marks \cup marks, whole |-> FALSE]
  <2>4. rules[c.on].marks \in SUBSET Families /\ marks \in SUBSET Families /\ marks \subseteq fam
    BY <2>1 DEF HostOK, Options, Families
  <2>5. /\ new \in [marks : SUBSET Families, whole : BOOLEAN]
        /\ new.marks \subseteq rules[c.on].marks \cup fam
    BY <2>4
  <2> QED BY Zenon, <1>1, <2>1, <2>2, <2>3, <2>5
<1>2. CASE ~(c.do = "rules" /\ Possible(c))
  BY <1>2 DEF PerformPart, host
<1> QED BY <1>1, <1>2

(* The processes.                                                            *)
ProcTypes ==
  /\ plan \in [Procs -> Seq(Calls)] /\ at \in [Procs -> Nat]
  /\ made \in [Procs -> Seq(Artifacts)] /\ rolling \in [Procs -> BOOLEAN]
  /\ solo \in [Procs -> BOOLEAN] /\ raced \in BOOLEAN
  /\ before \in [Procs -> [Artifacts -> States]]

(* A process is before or in its first operation; only an operation that     *)
(* undoes has made or undoes anything.                                       *)
StageOK(p) ==
  /\ ~Busy(p) => at[p] = 0
  /\ at[p] = 0 => made[p] = <<>> /\ ~rolling[p]
  /\ at[p] # 0 => Commands(p) # <<>> /\ at[p] <= Len(Commands(p)) + 1
  /\ rolling[p] \/ made[p] # <<>> => Op(p) \in Undoing
  /\ \A i \in 1..Len(made[p]) : made[p][i] \in Routes \cup Rules \cup Chains

(* A process that is still alone is the only one that runs.                  *)
Apart ==
  /\ \A p \in Procs : Busy(p) /\ solo[p] => \A q \in Procs \ {p} : ~Busy(q)
  /\ \A p \in Procs : Busy(p) /\ ~raced => solo[p]

ProcsOK == ProcTypes /\ Apart /\ \A p \in Procs : StageOK(p)

(* The process is in the middle of an operation that nobody interleaves.     *)
Alone(p) == Busy(p) /\ solo[p] /\ at[p] > 0

(* No process runs at first.                                                 *)
LEMMA ProcsInit == Init => ProcsOK
<1> SUFFICES ASSUME Init PROVE ProcsOK
  OBVIOUS
<1>1. Nothing \in [Artifacts -> States]
  BY DEF Nothing, States
<1>2. ProcTypes
  <2>1. <<>> \in Seq(Calls)
    OBVIOUS
  <2>2. <<>> \in Seq(Artifacts)
    OBVIOUS
  <2>3. plan \in [Procs -> Seq(Calls)]
    BY Zenon, <2>1 DEF Init
  <2>4. made \in [Procs -> Seq(Artifacts)]
    BY Zenon, <2>2 DEF Init
  <2>5. before \in [Procs -> [Artifacts -> States]]
    BY Zenon, <1>1 DEF Init
  <2> QED BY Zenon, <2>3, <2>4, <2>5 DEF Init, ProcTypes
<1>3. \A p \in Procs : ~Busy(p) /\ at[p] = 0 /\ made[p] = <<>> /\ ~rolling[p]
  BY DEF Init, Busy
<1> QED BY <1>2, <1>3 DEF ProcsOK, Apart, StageOK

(* A process that begins is in no operation yet, and ends the solitude of    *)
(* the others.                                                               *)
LEMMA BeginProcs ==
  ASSUME ProcsOK, NEW p \in Procs, ~Busy(p), NEW ops \in Seq(Calls), ops # <<>>, Begin(p, ops)
  PROVE  /\ ProcsOK'
         /\ \A q \in Procs : ~Alone(q)'
         /\ \A q \in Procs \ {p} : plan'[q] = plan[q] /\ (Busy(q) => ~solo'[q])
         /\ plan'[p] = ops
<1> DEFINE others == {q \in Procs \ {p} : Busy(q)}
<1>1. /\ plan' = [plan EXCEPT ![p] = ops]
      /\ solo' = [q \in Procs |-> IF q = p THEN others = {} ELSE solo[q] /\ q \notin others]
      /\ raced' = (raced \/ others # {})
      /\ at' = at /\ made' = made /\ rolling' = rolling /\ before' = before
  BY DEF Begin
<1>2. plan' \in [Procs -> Seq(Calls)] /\ plan'[p] = ops /\ \A q \in Procs \ {p} : plan'[q] = plan[q]
  BY <1>1 DEF ProcsOK, ProcTypes
<1>3. /\ solo' \in [Procs -> BOOLEAN]
      /\ solo'[p] <=> others = {}
      /\ \A q \in Procs \ {p} : solo'[q] <=> solo[q] /\ ~Busy(q)
  BY Zenon, <1>1 DEF ProcsOK, ProcTypes
<1>4. raced' \in BOOLEAN /\ (raced' <=> raced \/ others # {})
  BY Zenon, <1>1
<1>5. ProcTypes'
  BY Zenon, <1>1, <1>2, <1>3, <1>4 DEF ProcsOK, ProcTypes
<1>6. Busy(p)' /\ \A q \in Procs \ {p} : Busy(q)' <=> Busy(q)
  BY <1>2 DEF Busy
<1>7. Apart'
  <2>1. ASSUME NEW q \in Procs, Busy(q)', solo'[q], NEW r \in Procs \ {q}, Busy(r)' PROVE FALSE
    BY <2>1, <1>3, <1>6
  <2>2. ASSUME NEW q \in Procs, Busy(q)', ~raced' PROVE solo'[q]
    BY <2>2, <1>3, <1>4, <1>6 DEF ProcsOK, Apart
  <2> QED BY <2>1, <2>2 DEF Apart
<1>8. \A q \in Procs : StageOK(q)'
  <2>1. StageOK(p)'
    <3>1. at[p] = 0 /\ made[p] = <<>> /\ ~rolling[p]
      BY DEF ProcsOK, StageOK
    <3>2. at'[p] = 0 /\ made'[p] = <<>> /\ ~rolling'[p]
      BY <3>1, <1>1
    <3> QED BY <3>2 DEF StageOK
  <2>2. ASSUME NEW q \in Procs \ {p} PROVE StageOK(q)'
    <3>1. /\ plan'[q] = plan[q] /\ at'[q] = at[q] /\ made'[q] = made[q] /\ rolling'[q] = rolling[q]
      BY <1>1, <1>2
    <3> QED BY <3>1 DEF ProcsOK, StageOK, Busy, Commands, Op
  <2> QED BY <2>1, <2>2
<1>9. \A q \in Procs : ~Alone(q)'
  <2>1. at'[p] = 0
    BY <1>1 DEF ProcsOK, StageOK
  <2> QED BY <2>1, <1>3, <1>6 DEF Alone
<1> QED BY <1>2, <1>3, <1>5, <1>7, <1>8, <1>9 DEF ProcsOK

(* A process that goes on with the rest of its plan is between two           *)
(* operations.                                                               *)
LEMMA ProceedProcs ==
  ASSUME ProcsOK, NEW p \in Procs, Busy(p), NEW ops \in Seq(Calls), Proceed(p, ops)
  PROVE  /\ ProcsOK'
         /\ \A q \in Procs : ~Alone(q)'
         /\ \A q \in Procs \ {p} : plan'[q] = plan[q]
         /\ plan'[p] = ops /\ solo' = solo /\ at'[p] = 0 /\ made'[p] = <<>>
         /\ \A q \in Procs \ {p} : made'[q] = made[q] /\ at'[q] = at[q]
<1>1. /\ plan' = [plan EXCEPT ![p] = ops] /\ at' = [at EXCEPT ![p] = 0]
      /\ made' = [made EXCEPT ![p] = <<>>] /\ rolling' = [rolling EXCEPT ![p] = FALSE]
      /\ before' = [before EXCEPT ![p] = Nothing]
      /\ solo' = solo /\ raced' = raced
  BY DEF Proceed
<1>2. /\ plan' \in [Procs -> Seq(Calls)] /\ plan'[p] = ops
      /\ \A q \in Procs \ {p} : plan'[q] = plan[q]
  BY <1>1 DEF ProcsOK, ProcTypes
<1>3. /\ at' \in [Procs -> Nat] /\ at'[p] = 0
      /\ \A q \in Procs \ {p} : at'[q] = at[q]
  BY <1>1 DEF ProcsOK, ProcTypes
<1>4. /\ made' \in [Procs -> Seq(Artifacts)] /\ made'[p] = <<>>
      /\ \A q \in Procs \ {p} : made'[q] = made[q]
  BY <1>1 DEF ProcsOK, ProcTypes
<1>5. /\ rolling' \in [Procs -> BOOLEAN] /\ ~rolling'[p]
      /\ \A q \in Procs \ {p} : rolling'[q] = rolling[q]
  BY <1>1 DEF ProcsOK, ProcTypes
<1>6. before' \in [Procs -> [Artifacts -> States]]
  <2>1. Nothing \in [Artifacts -> States]
    BY DEF Nothing, States
  <2> QED BY <1>1, <2>1 DEF ProcsOK, ProcTypes
<1>7. ProcTypes'
  BY <1>1, <1>2, <1>3, <1>4, <1>5, <1>6 DEF ProcsOK, ProcTypes
<1>8. \A q \in Procs : Busy(q)' => Busy(q)
  BY <1>2 DEF Busy
<1>9. Apart'
  BY <1>1, <1>8 DEF ProcsOK, Apart
<1>10. \A q \in Procs : StageOK(q)'
  <2>1. StageOK(p)'
    BY <1>3, <1>4, <1>5 DEF StageOK
  <2>2. ASSUME NEW q \in Procs \ {p} PROVE StageOK(q)'
    <3>1. plan'[q] = plan[q] /\ at'[q] = at[q] /\ made'[q] = made[q] /\ rolling'[q] = rolling[q]
      BY <1>2, <1>3, <1>4, <1>5
    <3> QED BY <3>1 DEF ProcsOK, StageOK, Busy, Commands, Op
  <2> QED BY <2>1, <2>2
<1>11. \A q \in Procs : ~Alone(q)'
  BY <1>1, <1>3, <1>8 DEF Alone, ProcsOK, Apart
<1> QED BY <1>1, <1>2, <1>3, <1>4, <1>7, <1>9, <1>10, <1>11 DEF ProcsOK

(* A step of p inside its operation.                                         *)
Inside(p) ==
  /\ plan' = plan /\ solo' = solo /\ raced' = raced
  /\ \A q \in Procs \ {p} : at'[q] = at[q] /\ made'[q] = made[q] /\ rolling'[q] = rolling[q]

(* A step inside an operation moves no other process.                        *)
LEMMA InsideProcs ==
  ASSUME ProcsOK, NEW p \in Procs, Busy(p), Inside(p), ProcTypes', StageOK(p)'
  PROVE  ProcsOK' /\ \A q \in Procs \ {p} : ~Alone(q)'
<1>1. \A q \in Procs : Busy(q)' = Busy(q)
  BY DEF Busy, Inside
<1>2. Apart'
  BY <1>1 DEF Apart, ProcsOK, Inside
<1>3. ASSUME NEW q \in Procs \ {p} PROVE StageOK(q)' /\ ~Alone(q)'
  <2>1. /\ plan'[q] = plan[q] /\ at'[q] = at[q] /\ made'[q] = made[q] /\ rolling'[q] = rolling[q]
        /\ solo'[q] = solo[q]
    BY DEF Inside
  <2>2. StageOK(q)'
    BY <2>1 DEF ProcsOK, StageOK, Busy, Commands, Op
  <2>3. ~Alone(q)'
    BY <1>1, <2>1 DEF Alone, ProcsOK, Apart
  <2> QED BY <2>2, <2>3
<1> QED BY <1>2, <1>3 DEF ProcsOK

(* The command that a busy process is about to run.                          *)
LEMMA CommandOf ==
  ASSUME ProcsOK, NEW p \in Procs, Busy(p)
  PROVE  /\ Head(plan[p]) \in Calls /\ Op(p) \in Operations /\ Fam(p) \in Options
         /\ Commands(p) \in Seq(CommandSet)
         /\ Working(p) => /\ at[p] \in 1..(Len(Commands(p)) + 1)
                          /\ Due(p) \in at[p]..(Len(Commands(p)) + 1)
         /\ Working(p) /\ Due(p) <= Len(Commands(p)) =>
              /\ Current(p) \in CommandSet /\ KindOK(Current(p))
              /\ Op(p) \in Undoing /\ Current(p).do \in {"ensure", "chain"} =>
                    Current(p).on \in Routes \cup Rules \cup Chains
<1>ProgramKinds.
      ASSUME NEW call \in Calls, NEW i \in 1..Len(Programs[call])
      PROVE  /\ Programs[call][i] \in CommandSet /\ KindOK(Programs[call][i])
             /\ call.op \in Undoing /\ Programs[call][i].do \in {"ensure", "chain"} =>
                  Programs[call][i].on \in Routes \cup Rules \cup Chains
  <2> DEFINE cs == Programs[call]
  <2>0. cs \in Seq(CommandSet) /\ call.op \in Operations
    BY ProgramTypes DEF Calls
  <2> SUFFICES /\ KindOK(cs[i])
               /\ call.op \in Undoing /\ cs[i].do \in {"ensure", "chain"} =>
                     cs[i].on \in Routes \cup Rules \cup Chains
    BY <2>0
  <2>1. CASE call.op \in Applies
    <3>1. ApplyShape(cs, call.fam, ChainOf(call.op)) /\ ChainOf(call.op) \in Chains
      BY <2>1, ApplyProgram, NamesOfArtifacts DEF ChainOf
    <3> HIDE DEF cs
    <3>2. CASE i \in 1..(Len(cs) - 2)
      BY <3>1, <3>2 DEF ApplyShape, KindOK
    <3>3. CASE i = Len(cs) - 1
      BY <3>1, <3>3 DEF ApplyShape, KindOK, Command
    <3>4. CASE i = Len(cs)
      BY <3>1, <3>4 DEF ApplyShape, KindOK, Command
    <3> QED BY <2>0, <3>2, <3>3, <3>4 DEF cs
  <2>2. CASE call.op \in {"hooks_cleanup", "router_cleanup"}
    <3>1. ShareShape(cs, ChainOf(call.op), OtherOf(call.op)) /\ call.op \notin Undoing
      BY <2>2, ShareProgram DEF Undoing
    <3>2. Len(cs) = 7 /\ i \in 1..7
      BY <3>1 DEF ShareShape
    <3> HIDE DEF cs
    <3>3. cs[i].do \in {"delete", "share"}
      BY <3>1, <3>2 DEF ShareShape, Command
    <3> QED BY <3>1, <3>3 DEF KindOK
  <2>3. CASE call.op = "apply"
    BY Zenon, <2>3, OtherPrograms DEF KindOK, Undoing
  <2>4. CASE call.op = "cleanup"
    BY SMTT(25), <2>4, OtherPrograms DEF KindOK, Undoing
  <2>5. CASE call.op = "mapping_cleanup"
    <3>1. Len(cs) = 1 /\ cs[1] = Command("delete", "mapping")
      BY Zenon, <2>5, OtherPrograms
    <3>2. i = 1
      BY <3>1
    <3>3. cs[i].do = "delete"
      BY <3>1, <3>2 DEF Command
    <3> HIDE DEF cs
    <3> QED BY <3>3, <2>5 DEF KindOK, Undoing
  <2>6. CASE call.op \in {"stop", "spawn", "report"}
    <3>1. cs = <<>>
      BY Zenon, <2>6, OtherPrograms
    <3>2. Len(<<>>) = 0
      OBVIOUS
    <3>3. i \in 1..0
      BY Zenon, <3>1, <3>2
    <3> QED BY <3>3
  <2> QED BY <2>0, <2>1, <2>2, <2>3, <2>4, <2>5, <2>6 DEF Operations, Applies, Cleanups
<1>1. plan[p] \in Seq(Calls) /\ plan[p] # <<>>
  BY DEF ProcsOK, ProcTypes, Busy
<1>2. Head(plan[p]) \in Calls
  BY <1>1
<1>3. Op(p) \in Operations /\ Fam(p) \in Options
  BY <1>2 DEF Calls, Op, Fam
<1>4. Commands(p) \in Seq(CommandSet)
  BY Zenon, <1>2, ProgramTypes DEF Commands
<1>5. ASSUME Working(p)
      PROVE  at[p] \in 1..(Len(Commands(p)) + 1) /\ Due(p) \in at[p]..(Len(Commands(p)) + 1)
  <2>1. at[p] \in Nat /\ at[p] # 0 /\ at[p] <= Len(Commands(p)) + 1
    BY <1>5 DEF Working, ProcsOK, ProcTypes, StageOK
  <2>2. at[p] \in 1..(Len(Commands(p)) + 1)
    BY <1>4, <2>1
  <2> QED BY Zenon, <1>2, <2>2, DueFacts
<1>6. ASSUME Working(p), Due(p) <= Len(Commands(p)) PROVE Due(p) \in 1..Len(Commands(p))
  BY <1>4, <1>5, <1>6
<1>7. Working(p) /\ Due(p) <= Len(Commands(p)) =>
              /\ Current(p) \in CommandSet /\ KindOK(Current(p))
              /\ Op(p) \in Undoing /\ Current(p).do \in {"ensure", "chain"} =>
                    Current(p).on \in Routes \cup Rules \cup Chains
  BY Zenon, <1>2, <1>6, <1>ProgramKinds DEF Current, Commands, Op
<1> QED BY <1>2, <1>3, <1>4, <1>5, <1>7

(* Run advances one process past its command and remembers what an undoing   *)
(* operation made.                                                           *)
LEMMA RunProcs ==
  ASSUME HostOK, ProcsOK, NEW p \in Procs, Run(p)
  PROVE  /\ HostOK' /\ ProcsOK' /\ Inside(p) /\ \A q \in Procs \ {p} : ~Alone(q)'
         /\ at'[p] = Due(p) + 1
         /\ rolling' = rolling /\ before' = before
         /\ made'[p] = IF Op(p) \in Undoing /\ Current(p).do \in {"ensure", "chain"}
                       THEN Append(made[p], Current(p).on) ELSE made[p]
<1>PerformHost.
      ASSUME NEW c \in CommandSet, KindOK(c), NEW fam \in Options, Possible(c), Perform(c, fam)
      PROVE  HostOK'
  <2> USE <1>PerformHost
  <2>DeletedAll.
        ASSUME NEW a \in Artifacts
        PROVE  "table" \in Deleted(a) => Chains \subseteq Deleted(a)
    BY NamesOfArtifacts DEF Deleted
  <2>0. c.do \in Dos /\ c.on \in Artifacts
    BY DEF CommandSet
  <2>1. CASE c.do = "delete"
    <3>1. Remove(Deleted(c.on))
      BY Zenon, <2>1, Effects
    <3> QED BY Zenon, <3>1, <2>0, <2>DeletedAll, RemoveHost
  <2>2. CASE c.do \in {"ensure", "chain", "up"}
    <3> DEFINE new == IF c.do = "ensure" /\ c.on = "tun" THEN "down" ELSE "owned"
    <3>1. art' = [art EXCEPT ![c.on] = new] /\ rules' = rules
      BY Zenon, <2>2, Effects
    <3>2. new \in {"owned", "foreign", "down"} /\ (new = "down" => c.on = "tun")
          /\ (c.on = "table" => ~Owned("table") \/ new = "owned")
      BY DEF Owned
    <3>3. c.on \in Chains => Owned("table")
      BY <2>2, Possibilities, NamesOfArtifacts DEF KindOK, Skeleton, Fragments
    <3> HIDE DEF new
    <3> QED BY Zenon, <2>0, <3>1, <3>2, <3>3, CreateHost
  <2>3. CASE c.do = "rules"
    <3> DEFINE fresh == rules[c.on] = NoRules
               new == [marks |-> rules[c.on].marks \cup fam, whole |-> fresh]
    <3>1. c.on \in Chains /\ art[c.on] # "missing" /\ art' = art
      BY Zenon, <2>3, Possibilities, Effects DEF KindOK
    <3>2. rules' = [rules EXCEPT ![c.on] = new]
      BY <2>3, Effects
    <3>3. rules[c.on].marks \in SUBSET Families /\ fam \in SUBSET Families
      BY <3>1 DEF HostOK, Options, Families
    <3>4. fresh \in BOOLEAN
      OBVIOUS
    <3> HIDE DEF fresh
    <3>5. new \in [marks : SUBSET Families, whole : BOOLEAN]
      BY <3>3, <3>4
    <3> HIDE DEF new
    <3> QED BY Zenon, <3>1, <3>2, <3>5, WriteHost
  <2>4. CASE c.do \in {"share", "load"}
    <3>1. art' = art /\ rules' = rules
      BY Zenon, <2>4, Effects
    <3> QED BY <3>1 DEF HostOK, Owned
  <2> QED BY <2>0, <2>1, <2>2, <2>3, <2>4 DEF Dos
<1> DEFINE adds == Op(p) \in Undoing /\ Current(p).do \in {"ensure", "chain"}
<1>0. Busy(p) /\ Working(p) /\ Due(p) <= Len(Commands(p)) /\ Possible(Current(p))
      /\ Perform(Current(p), Fam(p))
  BY DEF Run, Working
<1>1. /\ Current(p) \in CommandSet /\ KindOK(Current(p)) /\ Fam(p) \in Options
      /\ Commands(p) \in Seq(CommandSet)
      /\ at[p] \in 1..(Len(Commands(p)) + 1) /\ Due(p) \in at[p]..(Len(Commands(p)) + 1)
      /\ adds => Current(p).on \in Routes \cup Rules \cup Chains
  BY <1>0, CommandOf
<1>2. HostOK'
  BY Zenon, <1>0, <1>1, <1>PerformHost
<1>3. /\ plan' = plan /\ rolling' = rolling /\ solo' = solo /\ raced' = raced /\ before' = before
      /\ at' = [at EXCEPT ![p] = Due(p) + 1]
      /\ made' = IF adds THEN [made EXCEPT ![p] = Append(@, Current(p).on)] ELSE made
  BY DEF Run, history
<1>4. /\ at' \in [Procs -> Nat] /\ at'[p] = Due(p) + 1
      /\ \A q \in Procs \ {p} : at'[q] = at[q]
  BY <1>1, <1>3 DEF ProcsOK, ProcTypes
<1>5. /\ made' \in [Procs -> Seq(Artifacts)]
      /\ made'[p] = IF adds THEN Append(made[p], Current(p).on) ELSE made[p]
      /\ \A q \in Procs \ {p} : made'[q] = made[q]
  <2>1. made[p] \in Seq(Artifacts) /\ Current(p).on \in Artifacts
    BY <1>1 DEF CommandSet, ProcsOK, ProcTypes
  <2>2. Append(made[p], Current(p).on) \in Seq(Artifacts)
    BY <2>1
  <2> QED BY <1>3, <2>2 DEF ProcsOK, ProcTypes
<1>6. ProcTypes' /\ Inside(p)
  BY <1>3, <1>4, <1>5 DEF ProcsOK, ProcTypes, Inside
<1>7. StageOK(p)'
  <2>1. Busy(p)' /\ Commands(p)' = Commands(p) /\ Op(p)' = Op(p) /\ rolling'[p] = rolling[p]
    BY <1>0, <1>3 DEF Busy, Commands, Op
  <2>2. /\ at'[p] # 0 /\ at'[p] <= Len(Commands(p)) + 1 /\ Commands(p) # <<>>
    <3>1. at'[p] # 0 /\ at'[p] <= Len(Commands(p)) + 1
      BY <1>0, <1>1, <1>4
    <3>2. Commands(p) # <<>>
      BY <1>1 DEF ProcsOK, StageOK
    <3> QED BY <3>1, <3>2
  <2>3. StageOK(p) /\ made[p] \in Seq(Artifacts)
    BY DEF ProcsOK, ProcTypes
  <2>4. rolling'[p] \/ made'[p] # <<>> => Op(p) \in Undoing
    BY SMTT(25), <2>1, <2>3, <1>5 DEF StageOK
  <2>5. \A i \in 1..Len(made'[p]) : made'[p][i] \in Routes \cup Rules \cup Chains
    BY <2>3, <1>1, <1>5 DEF StageOK
  <2> QED BY <2>1, <2>2, <2>4, <2>5 DEF StageOK
<1> QED BY <1>0, <1>2, <1>3, <1>4, <1>5, <1>6, <1>7, InsideProcs

(* A process that gives up forgets what it made; the supervisor still        *)
(* reports.                                                                  *)
LEMMA AbortProcs ==
  ASSUME ProcsOK, NEW p \in Procs, Busy(p), Abort(p)
  PROVE  /\ ProcsOK'
         /\ \A q \in Procs : ~Alone(q)'
         /\ \A q \in Procs \ {p} : plan'[q] = plan[q] /\ made'[q] = made[q]
         /\ solo' = solo /\ raced' = raced /\ made'[p] = <<>>
         /\ p = Supervisor /\ service = "exiting" =>
              plan'[p] = <<Call("report", Families)>> /\ service' = "failing"
         /\ p = Supervisor /\ service # "exiting" => plan'[p] = <<>> /\ service' = "stopped"
         /\ p # Supervisor => plan'[p] = <<>> /\ service' = service
<1> DEFINE exiting == p = Supervisor /\ service = "exiting"
           ops == IF exiting THEN <<Call("report", Families)>> ELSE <<>>
<1>1. Proceed(p, ops)
  BY Zenon DEF Abort
<1>2. Call("report", Families) \in Calls
  BY DEF Call, Calls, Operations, Options
<1>3. ops \in Seq(Calls)
  BY <1>2
<1>4. /\ exiting => service' = "failing"
      /\ p = Supervisor /\ ~exiting => service' = "stopped"
      /\ p # Supervisor => service' = service
  BY DEF Abort
<1>5. raced' = raced
  BY <1>1 DEF Proceed
<1> HIDE DEF ops
<1>6. /\ ProcsOK'
      /\ \A q \in Procs : ~Alone(q)'
      /\ \A q \in Procs \ {p} : plan'[q] = plan[q] /\ made'[q] = made[q]
      /\ solo' = solo /\ made'[p] = <<>> /\ plan'[p] = ops
  BY Zenon, <1>1, <1>3, ProceedProcs
<1> QED BY Zenon, <1>4, <1>5, <1>6 DEF ops

(* A command fails inside an operation that undoes.                          *)
LEMMA FailProcs ==
  ASSUME HostOK, ProcsOK, NEW p \in Procs, Fail(p)
  PROVE  /\ HostOK' /\ art' = art
         /\ \/ Abort(p)
            \/ /\ ProcsOK' /\ Inside(p) /\ \A q \in Procs \ {p} : ~Alone(q)'
               /\ Op(p) \in Undoing /\ service' = service
               /\ at' = at /\ made' = made /\ before' = before /\ rolling'[p]
<1>PartHost.
      ASSUME NEW c \in CommandSet, KindOK(c), NEW fam \in Options, PerformPart(c, fam)
      PROVE  HostOK'
  <2> USE <1>PartHost
  <2>1. CASE rules' = rules
    BY <2>1, PartEffects DEF HostOK, Owned
  <2>2. CASE rules' # rules
    BY Zenon, <2>2, PartEffects, WriteHost
  <2> QED BY <2>1, <2>2
<1>0. Busy(p) /\ Working(p) /\ Due(p) <= Len(Commands(p)) /\ PerformPart(Current(p), Fam(p))
  BY DEF Fail, Working
<1>1. Current(p) \in CommandSet /\ KindOK(Current(p)) /\ Fam(p) \in Options
  BY <1>0, CommandOf
<1>2. HostOK' /\ art' = art
  BY Zenon, <1>0, <1>1, <1>PartHost, PartEffects
<1>3. CASE Op(p) \in Undoing
  <2>1. /\ rolling' = [rolling EXCEPT ![p] = TRUE]
        /\ plan' = plan /\ at' = at /\ made' = made /\ service' = service
        /\ solo' = solo /\ raced' = raced /\ before' = before
    BY <1>3 DEF Fail, history
  <2>2. rolling' \in [Procs -> BOOLEAN] /\ rolling'[p] /\ \A q \in Procs \ {p} : rolling'[q] = rolling[q]
    BY <2>1 DEF ProcsOK, ProcTypes
  <2>3. ProcTypes' /\ Inside(p)
    BY <2>1, <2>2 DEF ProcsOK, ProcTypes, Inside
  <2>4. StageOK(p)'
    <3>1. StageOK(p) /\ at[p] # 0
      BY <1>0 DEF ProcsOK, Working, ProcTypes
    <3>2. Busy(p)' = Busy(p) /\ Commands(p)' = Commands(p) /\ Op(p)' = Op(p)
      BY <2>1 DEF Busy, Commands, Op
    <3> QED BY <2>1, <3>1, <3>2, <1>3 DEF StageOK
  <2> QED BY <1>0, <1>2, <1>3, <2>1, <2>2, <2>3, <2>4, InsideProcs
<1>4. CASE Op(p) \notin Undoing
  BY <1>2, <1>4 DEF Fail
<1> QED BY <1>3, <1>4

(* One artifact is undone.                                                   *)
UndoOne(p) ==
  LET a == made[p][Len(made[p])]
  IN  /\ Busy(p) /\ rolling[p] /\ made[p] # <<>>
      /\ Owned(a) \/ (a \in Chains /\ Foreign(a))
      /\ Remove({a})
      /\ made' = [made EXCEPT ![p] = SubSeq(@, 1, Len(@) - 1)]
      /\ UNCHANGED <<plan, at, rolling, service, used, history>>

(* An undo removes the newest artifact or gives up and changes nothing.      *)
LEMMA UndoCases ==
  ASSUME NEW p, Undo(p)
  PROVE  UndoOne(p) \/ (Busy(p) /\ Abort(p) /\ UNCHANGED host)
BY Zenon DEF Undo, UndoOne

(* An undo takes the newest artifact off the list of what was made.          *)
LEMMA UndoProcs ==
  ASSUME HostOK, ProcsOK, NEW p \in Procs, UndoOne(p)
  PROVE  /\ HostOK' /\ ProcsOK' /\ Inside(p) /\ \A q \in Procs \ {p} : ~Alone(q)'
         /\ at' = at /\ rolling' = rolling /\ before' = before
         /\ Len(made[p]) > 0 /\ Len(made'[p]) = Len(made[p]) - 1
         /\ \A i \in 1..(Len(made[p]) - 1) : made'[p][i] = made[p][i]
<1> DEFINE m == SubSeq(made[p], 1, Len(made[p]) - 1)
           a == made[p][Len(made[p])]
<1>1. /\ Busy(p) /\ rolling[p] /\ made[p] # <<>> /\ Remove({a})
      /\ made' = [made EXCEPT ![p] = m]
      /\ plan' = plan /\ at' = at /\ rolling' = rolling
      /\ solo' = solo /\ raced' = raced /\ before' = before
  BY DEF UndoOne, history
<1>2. made[p] \in Seq(Artifacts) /\ StageOK(p)
  BY DEF ProcsOK, ProcTypes
<1>3. /\ Len(made[p]) > 0 /\ m \in Seq(Artifacts) /\ Len(m) = Len(made[p]) - 1
      /\ \A i \in 1..(Len(made[p]) - 1) : m[i] = made[p][i]
  BY <1>1, <1>2
<1>4. a \in Routes \cup Rules \cup Chains
  <2>1. Len(made[p]) \in 1..Len(made[p])
    BY <1>2, <1>3
  <2> QED BY Zenon, <2>1, <1>2 DEF StageOK
<1>5. HostOK'
  <2>1. "table" \notin {a}
    BY <1>4, NamesOfArtifacts
  <2> QED BY Zenon, <2>1, <1>1, RemoveHost
<1> HIDE DEF m, a
<1>6. made' \in [Procs -> Seq(Artifacts)] /\ made'[p] = m /\ \A q \in Procs \ {p} : made'[q] = made[q]
  BY <1>1, <1>3 DEF ProcsOK, ProcTypes
<1>7. ProcTypes' /\ Inside(p)
  BY <1>1, <1>6 DEF ProcsOK, ProcTypes, Inside
<1>8. StageOK(p)'
  <2>1. Busy(p)' = Busy(p) /\ Commands(p)' = Commands(p) /\ Op(p)' = Op(p)
    BY SMTT(25), <1>1 DEF Busy, Commands, Op
  <2>2. at[p] # 0 /\ Op(p) \in Undoing
    BY SMTT(25), <1>1, <1>2 DEF StageOK
  <2>3. \A i \in 1..Len(m) : m[i] \in Routes \cup Rules \cup Chains
    BY <1>2, <1>3 DEF StageOK
  <2> QED BY <2>1, <2>2, <2>3, <1>1, <1>2, <1>6 DEF StageOK
<1> QED BY <1>1, <1>3, <1>5, <1>6, <1>7, <1>8, InsideProcs

(* The checks pass.                                                          *)
CheckPasses(p) ==
  /\ Busy(p) /\ at[p] = 0 /\ Commands(p) # <<>> /\ Allowed(Op(p), Fam(p))
  /\ at' = [at EXCEPT ![p] = 1]
  /\ before' = [before EXCEPT ![p] = art]
  /\ UNCHANGED <<plan, made, rolling, service, solo, raced, host>>

(* A passing check puts the process at its first command and remembers the   *)
(* host.                                                                     *)
LEMMA CheckProcs ==
  ASSUME HostOK, ProcsOK, NEW p \in Procs, CheckPasses(p)
  PROVE  /\ HostOK' /\ ProcsOK' /\ Inside(p) /\ \A q \in Procs \ {p} : ~Alone(q)'
         /\ at'[p] = 1 /\ made'[p] = <<>> /\ ~rolling'[p] /\ before'[p] = art'
<1>1. /\ Busy(p) /\ at[p] = 0 /\ Commands(p) # <<>>
      /\ at' = [at EXCEPT ![p] = 1] /\ before' = [before EXCEPT ![p] = art]
      /\ plan' = plan /\ made' = made /\ rolling' = rolling
      /\ solo' = solo /\ raced' = raced /\ art' = art /\ rules' = rules
  BY DEF CheckPasses, host
<1>2. HostOK'
  BY <1>1 DEF HostOK, Owned
<1>3. at' \in [Procs -> Nat] /\ at'[p] = 1 /\ \A q \in Procs \ {p} : at'[q] = at[q]
  BY <1>1 DEF ProcsOK, ProcTypes
<1>4. before' \in [Procs -> [Artifacts -> States]] /\ before'[p] = art
  BY <1>1 DEF ProcsOK, ProcTypes, HostOK
<1>5. ProcTypes' /\ Inside(p)
  BY <1>1, <1>3, <1>4 DEF ProcsOK, ProcTypes, Inside
<1>6. made[p] = <<>> /\ ~rolling[p]
  BY SMTT(25), <1>1 DEF ProcsOK, StageOK
<1>7. StageOK(p)'
  <2>1. Busy(p)' = Busy(p) /\ Commands(p)' = Commands(p) /\ Op(p)' = Op(p)
    BY <1>1 DEF Busy, Commands, Op
  <2>2. 1 <= Len(Commands(p)) + 1
    <3>1. Commands(p) \in Seq(CommandSet)
      BY <1>1, CommandOf
    <3> QED BY <3>1
  <2> QED BY <2>1, <2>2, <1>1, <1>3, <1>6 DEF StageOK
<1> QED BY <1>1, <1>2, <1>3, <1>4, <1>5, <1>6, <1>7, InsideProcs

(* An operation that nobody interleaves.                                     *)
Newest(s) == s[Len(s)]

(* An apply: the chain is absent or ready until it is created, the hooks     *)
(* that were passed are there, and nothing else is undone.                   *)
ApplyOK(p) ==
  LET n == Len(Commands(p))
      c == ChainOf(Op(p))
  IN  /\ ~rolling[p] /\ at[p] < n => ~Owned(c) \/ Ready(c, Fam(p))
      /\ ~rolling[p] /\ at[p] = n =>
            Owned(c) /\ (Op(p) \in Undoing => made[p] # <<>> /\ Newest(made[p]) = c)
      /\ ~rolling[p] => \A j \in 1..(n - 2) : j < at[p] => Owned(Commands(p)[j].on)
      /\ \A i \in 1..Len(made[p]) : made[p][i] \in Routes \cup Rules \cup {c}
      /\ at[p] < n => \A i \in 1..Len(made[p]) : made[p][i] # c

(* What an apply would undo was missing before it, and is all that differs.  *)
MadeOK(p) ==
  /\ \A i \in 1..Len(made[p]) : Owned(made[p][i]) /\ before[p][made[p][i]] = "missing"
  /\ \A i, j \in 1..Len(made[p]) : i # j => made[p][i] # made[p][j]
  /\ Op(p) \in Undoing =>
        \A a \in Artifacts : \/ Foreign(a) \/ art[a] = before[p][a]
                             \/ \E i \in 1..Len(made[p]) : made[p][i] = a

(* A cleanup of hooks: what was passed is gone, or the other chain needs it. *)
ShareOK(p) ==
  /\ at[p] >= 2 => ~Owned(ChainOf(Op(p)))
  /\ at[p] \in 3..7 => ~Owned(OtherOf(Op(p)))
  /\ \A j \in 3..6 : j < at[p] => ~Owned(Commands(p)[j].on) \/ Owned(OtherOf(Op(p)))
  /\ at[p] = 8 => ~Owned("legacy")

OperationOK(p) ==
  /\ Op(p) \in Applies => ApplyOK(p)
  /\ MadeOK(p)
  /\ Op(p) \in {"hooks_cleanup", "router_cleanup"} => ShareOK(p)
  /\ Op(p) = "cleanup" /\ at[p] >= 2 => ~Owned("table")
  /\ Op(p) = "mapping_cleanup" /\ at[p] >= 2 => ~Owned("mapping")

(* Nothing to undo: an operation that keeps no account of what it makes.     *)
LEMMA MadeNothing ==
  ASSUME NEW p, made'[p] = <<>>, Op(p)' \notin Undoing
  PROVE  MadeOK(p)'
BY SMTT(25) DEF MadeOK

(* What was made is in order while neither it nor the host changes.          *)
LEMMA MadeSame ==
  ASSUME NEW p, MadeOK(p), art' = art, made'[p] = made[p], before' = before, plan' = plan
  PROVE  MadeOK(p)'
<1>1. Op(p)' = Op(p) /\ \A a : Owned(a)' = Owned(a) /\ Foreign(a)' = Foreign(a)
  BY DEF Op, Owned, Foreign
<1>2. \A i \in 1..Len(made'[p]) : art'[made'[p][i]] = "owned" /\ before'[p][made'[p][i]] = "missing"
  BY DEF MadeOK, Owned
<1>3. \A i, j \in 1..Len(made'[p]) : i # j => made'[p][i] # made'[p][j]
  BY DEF MadeOK
<1>4. Op(p) \in Undoing =>
        \A a \in Artifacts : \/ art'[a] = "foreign" \/ art'[a] = before'[p][a]
                             \/ \E i \in 1..Len(made'[p]) : made'[p][i] = a
  BY DEF MadeOK, Foreign
<1> QED BY <1>1, <1>2, <1>3, <1>4 DEF MadeOK, Owned, Foreign

(* Remove takes exactly the artifacts it names.                              *)
LEMMA RemovedOnly ==
  ASSUME HostOK, NEW as, Remove(as)
  PROVE  /\ \A a \in Artifacts : art'[a] = "owned" <=> Owned(a) /\ a \notin as
         /\ \A c \in Chains : c \notin as => rules'[c] = rules[c]
         /\ \A c \in Chains : c \in as => rules'[c] = NoRules
BY Zenon DEF Remove, Owned, HostOK

(* A command of a cleanup of a marking chain: a route or rule goes only when *)
(* neither marking chain is left.                                            *)
LEMMA RunShare ==
  ASSUME HostOK, ProcsOK, NEW p \in Procs, Op(p) \in {"hooks_cleanup", "router_cleanup"},
         ShareOK(p), Run(p)
  PROVE  /\ ShareOK(p)'
         /\ Remove({Current(p).on})
         /\ Current(p).on \in Routes \cup Rules => ~Owned(ChainOf(Op(p))) /\ ~Owned(OtherOf(Op(p)))
<1> DEFINE d == Due(p)
           c == ChainOf(Op(p))
           o == OtherOf(Op(p))
           cs == Commands(p)
           fam == Fam(p)
<1>0. Busy(p) /\ Working(p) /\ d <= Len(cs) /\ Possible(Current(p)) /\ Perform(Current(p), fam)
  BY DEF Run, Working
<1>1. plan' = plan /\ at'[p] = d + 1
  BY RunProcs DEF Inside
<1>2. Op(p)' = Op(p) /\ Commands(p)' = Commands(p)
  BY SMTT(25), <1>1 DEF Op, Commands
<1>3. /\ Head(plan[p]) \in Calls /\ cs \in Seq(CommandSet) /\ at[p] \in 1..(Len(cs) + 1)
      /\ Current(p) = cs[d]
  BY <1>0, CommandOf DEF Current
<1>4. ShareShape(cs, c, o)
  BY Zenon, <1>3, ShareProgram DEF Commands, Op
<1>5. Len(cs) = 7 /\ at[p] \in 1..8
  BY <1>3, <1>4 DEF ShareShape
<1>6. /\ d \in at[p]..8 /\ ~Unneeded(Current(p), fam)
      /\ \A j \in at[p]..(d - 1) :
           /\ j \in {1, 7} => Unneeded(cs[j], fam)
           /\ j \in 3..6 => Unneeded(cs[j], fam) \/ Owned(o)
      /\ d \in 3..6 /\ at[p] <= 2 => ~Owned(o)
  <2>1. d <= 7
    BY <1>0, <1>5
  <2> QED BY Zenon, <2>1, <1>3, <1>4, <1>5, ShareDue
<1>7. c \in Chains /\ o \in Chains /\ c \notin Skeleton
  BY NamesOfArtifacts DEF ChainOf, OtherOf, Skeleton, Fragments
<1> HIDE DEF d, c, o, cs, fam
<1>8. d \in 1..7 /\ d # 2
  <2>1. d \in 1..7
    BY <1>0, <1>5, <1>6
  <2>2. cs[2].do = "share"
    BY <1>4 DEF ShareShape, Command
  <2>3. d # 2
    BY <2>2, <1>3, <1>6, Statuses
  <2> QED BY <2>1, <2>3
<1>9. /\ \A j \in 1..7 : j # 2 => cs[j].do = "delete"
      /\ cs[1].on = c /\ cs[7].on = "legacy"
      /\ \A j \in 3..6 : cs[j].on \in Routes \cup Rules
  BY <1>4, NamesOfArtifacts DEF ShareShape, Command
<1>10. \A j \in 1..7 : j # 2 => cs[j].on \in Artifacts \ Skeleton
  BY <1>7, <1>9, NamesOfArtifacts DEF Skeleton, Fragments
<1>11. \A j \in at[p]..(d - 1) :
         /\ j \in {1, 7} => ~Owned(cs[j].on)
         /\ j \in 3..6 => ~Owned(cs[j].on) \/ Owned(o)
  <2>1. \A j \in 1..7 : j # 2 => (Unneeded(cs[j], fam) <=> ~Owned(cs[j].on))
    BY <1>9, <1>10, Statuses
  <2> QED BY <2>1, <1>5, <1>6
<1>12. Remove({cs[d].on})
  <2>1. Deleted(cs[d].on) = {cs[d].on}
    BY <1>8, <1>10 DEF Deleted, Skeleton
  <2>2. Remove(Deleted(cs[d].on))
    BY Zenon, <1>0, <1>3, <1>8, <1>9, Effects
  <2> QED BY <2>1, <2>2
<1>13. \A a \in Artifacts : art'[a] = "owned" <=> Owned(a) /\ a # cs[d].on
  <2>1. \A a \in Artifacts : art'[a] = "owned" <=> Owned(a) /\ a \notin {cs[d].on}
    BY ZenonT(30), <1>12, RemovedOnly
  <2> QED BY Zenon, <2>1
<1>14. art'[c] # "owned"
  <2>1. c \in Artifacts
    BY <1>7, NamesOfArtifacts
  <2>2. CASE at[p] >= 2
    BY <2>1, <2>2, <1>13 DEF ShareOK, c
  <2>3. CASE at[p] = 1 /\ d = 1
    BY <2>1, <2>3, <1>9, <1>13
  <2>4. CASE at[p] = 1 /\ d # 1
    <3>1. 1 \in at[p]..(d - 1)
      BY <2>4, <1>8
    <3> QED BY <3>1, <2>1, <1>9, <1>11, <1>13
  <2> QED BY <2>2, <2>3, <2>4, <1>5
<1>15. d \in 3..6 => ~Owned(o) /\ ~Owned(c)
  <2> SUFFICES ASSUME d \in 3..6 PROVE ~Owned(o) /\ ~Owned(c)
    OBVIOUS
  <2>1. ~Owned(o)
    <3>1. CASE at[p] <= 2
      BY <3>1, <1>6
    <3>2. CASE ~(at[p] <= 2)
      <4>1. at[p] \in 3..7
        BY <3>2, <1>5, <1>6
      <4> QED BY <4>1 DEF ShareOK, o
    <3> QED BY <3>1, <3>2
  <2>2. c # cs[d].on /\ c \in Artifacts
    BY <1>7, <1>9, NamesOfArtifacts
  <2> QED BY <2>1, <2>2, <1>13, <1>14
<1>16. o \in Artifacts /\ (o # cs[d].on)
  BY <1>7, <1>8, <1>9, NamesOfArtifacts DEF o, c, ChainOf, OtherOf
<1>17. \A j \in 3..6 : j < d + 1 => art'[cs[j].on] # "owned" \/ art'[o] = "owned"
  <2> SUFFICES ASSUME NEW j \in 3..6, j < d + 1 PROVE art'[cs[j].on] # "owned" \/ art'[o] = "owned"
    OBVIOUS
  <2>1. cs[j].on \in Artifacts
    BY <1>10
  <2>2. CASE j = d
    BY <2>1, <2>2, <1>13
  <2>3. CASE j # d /\ j < at[p]
    BY SMTT(25), <2>1, <2>3, <1>13, <1>16 DEF ShareOK, cs, o
  <2>4. CASE j # d /\ ~(j < at[p])
    <3>1. j \in at[p]..(d - 1)
      BY <2>4, <1>5, <1>8
    <3> QED BY <3>1, <2>1, <1>11, <1>13, <1>16
  <2> QED BY <2>2, <2>3, <2>4
<1>18. d + 1 = 8 => art'["legacy"] # "owned"
  <2> SUFFICES ASSUME d = 7 PROVE art'["legacy"] # "owned"
    BY <1>8
  <2> QED BY <1>9, <1>13, NamesOfArtifacts
<1>19. d + 1 \in 3..7 => art'[o] # "owned"
  BY <1>8, <1>13, <1>15, <1>16
<1>20. ShareOK(p)'
  BY <1>1, <1>2, <1>14, <1>17, <1>18, <1>19 DEF ShareOK, Owned, cs, o, c
<1>21. Current(p).on \in Routes \cup Rules => d \in 3..6
  BY SMTT(25), <1>3, <1>7, <1>8, <1>9, NamesOfArtifacts
<1> QED BY <1>3, <1>12, <1>15, <1>20, <1>21 DEF c, o

(* A command of the cleanup of the skeleton removes the table first.         *)
LEMMA RunCleanup ==
  ASSUME HostOK, ProcsOK, NEW p \in Procs, Op(p) = "cleanup", at[p] >= 2 => ~Owned("table"), Run(p)
  PROVE  /\ art'["table"] # "owned"
         /\ Remove(Deleted(Current(p).on)) /\ Current(p).on \in Skeleton
         /\ Current(p).on = "table" \/ ~Owned("table")
<1> DEFINE d == Due(p)
           cs == Commands(p)
<1>0. Busy(p) /\ Working(p) /\ d <= Len(cs) /\ Possible(Current(p)) /\ Perform(Current(p), Fam(p))
  BY SMTT(25) DEF Run, Working
<1>1. /\ Head(plan[p]) \in Calls /\ cs \in Seq(CommandSet) /\ at[p] \in 1..(Len(cs) + 1)
      /\ Current(p) = cs[d]
  BY <1>0, CommandOf DEF Current
<1>2. /\ Len(cs) = 4 /\ cs[1] = Command("delete", "table")
      /\ \A i \in 1..4 : cs[i].do = "delete" /\ cs[i].on \in Skeleton
  BY Zenon, <1>1, OtherPrograms DEF Op, Commands
<1>3. \A i \in 1..Len(cs) : cs[i].do \notin {"chain", "share"}
  BY <1>2
<1>4. /\ d \in at[p]..(Len(cs) + 1)
      /\ \A j \in at[p]..(d - 1) : Unneeded(cs[j], Fam(p))
  BY Zenon, <1>1, <1>3, LinearDue
<1> HIDE DEF d, cs
<1>5. d \in 1..4 /\ cs[1].on = "table" /\ cs[1].do = "delete" /\ "table" \in Skeleton
  <2>1. d \in 1..4
    <3>1. Len(cs) = 4
      BY Zenon, <1>2
    <3>2. d <= Len(cs)
      BY Zenon, <1>0
    <3>3. at[p] \in 1..(Len(cs) + 1)
      BY Zenon, <1>1
    <3>4. d \in at[p]..(Len(cs) + 1)
      BY ZenonT(30), <1>4
    <3> QED BY SMTT(20), <3>1, <3>2, <3>3, <3>4
  <2>2. cs[1].on = "table" /\ cs[1].do = "delete"
    BY <1>2 DEF Command
  <2>3. "table" \in Skeleton
    BY DEF Skeleton
  <2> QED BY Zenon, <2>1, <2>2, <2>3
<1>6. Remove(Deleted(cs[d].on)) /\ cs[d].on \in Skeleton /\ cs[d].on \in Artifacts
  BY Zenon, <1>0, <1>1, <1>2, <1>5, Effects DEF Artifacts
<1>7. cs[d].on = "table" \/ ~Owned("table")
  <2>1. CASE d = 1
    BY <2>1, <1>5
  <2>2. CASE d # 1 /\ at[p] = 1
    <3>1. Unneeded(cs[1], Fam(p))
      BY <2>2, <1>4, <1>5
    <3> QED BY <3>1, <1>5, Statuses
  <2>3. CASE at[p] # 1
    BY <2>3, <1>1, <1>2
  <2> QED BY <2>1, <2>2, <2>3
<1>8. art'["table"] # "owned"
  <2>1. "table" \in Deleted("table") /\ "table" \in Artifacts
    BY NamesOfArtifacts DEF Deleted
  <2> QED BY <2>1, <1>6, <1>7, RemovedOnly
<1> QED BY <1>1, <1>6, <1>7, <1>8

(* The cleanup of the mapping removes the mapping chain.                     *)
LEMMA RunMappingCleanup ==
  ASSUME HostOK, ProcsOK, NEW p \in Procs, Op(p) = "mapping_cleanup", Run(p)
  PROVE  Remove({"mapping"}) /\ art'["mapping"] # "owned"
<1> DEFINE cs == Commands(p)
<1>0. Busy(p) /\ Working(p) /\ Due(p) <= Len(cs) /\ Perform(Current(p), Fam(p))
  BY SMTT(25) DEF Run, Working
<1>1. /\ Head(plan[p]) \in Calls /\ Due(p) \in at[p]..(Len(cs) + 1) /\ at[p] \in 1..(Len(cs) + 1)
      /\ Current(p) = cs[Due(p)]
  BY <1>0, CommandOf DEF Current
<1>2. Len(cs) = 1 /\ cs[1] = Command("delete", "mapping")
  BY Zenon, <1>1, OtherPrograms DEF Op, Commands
<1> HIDE DEF cs
<1>3. Current(p) = cs[1]
  BY <1>0, <1>1, <1>2
<1>4. Current(p).do = "delete" /\ Current(p).on = "mapping"
  BY <1>2, <1>3 DEF Command
<1>5. Remove(Deleted("mapping"))
  BY Zenon, <1>0, <1>4, Effects
<1>6. Deleted("mapping") = {"mapping"} /\ "mapping" \in Artifacts
  BY NamesOfArtifacts DEF Deleted
<1> QED BY <1>5, <1>6, RemovedOnly

(* The apply of the skeleton touches nothing but the skeleton.               *)
LEMMA RunSkeleton ==
  ASSUME HostOK, ProcsOK, NEW p \in Procs, Op(p) = "apply", Run(p)
  PROVE  rules' = rules /\ \A a \in Artifacts \ Skeleton : art'[a] = art[a]
<1>0. Busy(p) /\ Working(p) /\ Due(p) <= Len(Commands(p)) /\ Perform(Current(p), Fam(p))
  BY DEF Run, Working
<1>1. /\ Head(plan[p]) \in Calls /\ Due(p) \in at[p]..(Len(Commands(p)) + 1)
      /\ at[p] \in 1..(Len(Commands(p)) + 1)
  BY <1>0, CommandOf
<1>2. /\ Len(Commands(p)) = 7
      /\ \A i \in 1..7 : /\ Commands(p)[i].do \in {"ensure", "up", "load"}
                         /\ Commands(p)[i].on \in Skeleton
  BY ZenonT(30), <1>1, OtherPrograms DEF Op, Commands
<1>3. Due(p) \in 1..7
  BY <1>0, <1>1, <1>2
<1>4. Current(p).do \in {"ensure", "up", "load"} /\ Current(p).on \in Skeleton
  BY <1>2, <1>3 DEF Current
<1> QED BY Zenon, <1>0, <1>4, Effects DEF HostOK, Artifacts
===============================================================================

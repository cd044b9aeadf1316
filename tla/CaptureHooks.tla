----------------------------- MODULE CaptureHooks -----------------------------
(***************************************************************************)
(* What dynet installs in the host to capture traffic, and the commands     *)
(* that install and remove it: the runtime skeleton (apply, cleanup), the   *)
(* output hooks, the router hooks and the DNS mapping, run by operators     *)
(* and by the supervisor, which cleans up before it starts the runtime and  *)
(* after the runtime has ended.                                             *)
(*                                                                          *)
(* An operation first checks what is there and then runs host commands one  *)
(* by one.  A command can fail, the process can be killed between two       *)
(* commands, and somebody else can take a free name at any time.  A command *)
(* and the status listings since the previous command are one step.         *)
(***************************************************************************)
EXTENDS Integers, Sequences

CONSTANTS
  Operators,        \* processes that run dynet commands by hand
  Supervisor,       \* the process of dynet service supervise
  Contested,        \* bound: artifacts whose names somebody else can take
  MaxInvocations,   \* bound: commands, starts and exits in one behaviour
  MaxTroubles       \* bound: failing commands, kills, overlaps, names taken

Procs == Operators \cup {Supervisor}

\* HookOptions::ipv6_enabled and its like: IPv4 is always captured.
Families == {"v4", "v6"}
Options == {{"v4"}, Families}
Route(f) == IF f = "v4" THEN "route4" ELSE "route6"
Rule(f) == IF f = "v4" THEN "rule4" ELSE "rule6"
Routes == {Route(f) : f \in Families}
Rules == {Rule(f) : f \in Families}

\* Output and router chain mark packets; the mapping redirects DNS.  "inert"
\* are the four empty chains of the skeleton.
Marking == {"output", "router"}
Chains == Marking \cup {"mapping"}
Fragments == {"sysctl", "rt_tables"}
Skeleton == Fragments \cup {"table", "inert", "tun"}
Capture == Routes \cup Rules \cup Chains \cup {"legacy"}
Artifacts == Skeleton \cup Capture

ASSUME HooksAssumption ==
  /\ Supervisor \notin Operators
  /\ Contested \subseteq Artifacts \ {"tun"}
  /\ MaxInvocations \in Nat /\ MaxTroubles \in Nat

\* The TUN interface has no owner; it exists, but is not up, while "down".
States == {"missing", "owned", "foreign", "down"}

\* What a chain's rules do: the families that they cover, and whether they are
\* exactly the rules that the options with these families ask for.
NoRules == [marks |-> {}, whole |-> FALSE]

Applies == {"hooks_apply", "router_apply", "mapping_apply"}
Cleanups == {"hooks_cleanup", "router_cleanup", "mapping_cleanup"}
Operations == Applies \cup Cleanups \cup {"apply", "cleanup", "stop", "spawn", "report"}
Call(op, fam) == [op |-> op, fam |-> fam]
Calls == [op : Operations, fam : Options]

VARIABLES
  art,      \* artifact -> its state
  rules,    \* chain -> what its rules do
  plan,     \* process -> operations to run; it is in the first one
  at,       \* process -> next command of that operation, 0 before its checks
  made,     \* process -> artifacts that the operation has created and would undo
  rolling,  \* process -> it is undoing them
  service,  \* "stopped", "starting", "running", "exiting", "failing", "failed"
  used,     \* invocations and troubles so far
  solo,     \* history: process -> no other one has run during its plan
  raced,    \* history: two processes have run at the same time
  before    \* history: process -> art when its operation passed the checks

host == <<art, rules>>
process == <<plan, at, made, rolling>>
history == <<solo, raced, before>>
vars == <<host, process, service, used, history>>

Nothing == [a \in Artifacts |-> "missing"]

\* A host without dynet, or with the skeleton and the policy rule that an older
\* version has left.
Init ==
  /\ \E left \in {{}, Skeleton \cup {"legacy"}} :
       art = [a \in Artifacts |-> IF a \in left THEN "owned" ELSE "missing"]
  /\ rules = [c \in Chains |-> NoRules]
  /\ plan = [p \in Procs |-> <<>>]
  /\ at = [p \in Procs |-> 0]
  /\ made = [p \in Procs |-> <<>>]
  /\ rolling = [p \in Procs |-> FALSE]
  /\ service = "stopped"
  /\ used = [invocations |-> 0, faults |-> 0, foreign |-> 0, overlaps |-> 0]
  /\ solo = [p \in Procs |-> TRUE]
  /\ raced = FALSE
  /\ before = [p \in Procs |-> Nothing]

-----------------------------------------------------------------------------
(* Status: what the listings say. *)

Owned(a) == art[a] = "owned"
Foreign(a) == art[a] = "foreign"

\* output_chain_status, router_chain_status and mapping_status with options:
\* the whole content must be the expected one.
Ready(c, fam) == Owned(c) /\ rules[c] = [marks |-> fam, whole |-> TRUE]
Drifted(c, fam) == Foreign(c) \/ (Owned(c) /\ ~Ready(c, fam))

FamilyForeign(fam) == \E f \in fam : Foreign(Route(f)) \/ Foreign(Rule(f))

SkeletonReady ==
  /\ \A a \in {"tun", "table", "inert"} : Owned(a)
  /\ \A a \in Fragments : ~Foreign(a)

\* The checks of an operation before its first command.
ApplyAllowed == \A a \in Skeleton : ~Foreign(a)
HooksApplyAllowed(fam) == SkeletonReady /\ ~FamilyForeign(fam) /\ ~Drifted("output", fam)
RouterApplyAllowed(fam) == SkeletonReady /\ ~FamilyForeign(fam) /\ ~Drifted("router", fam)
MappingApplyAllowed(fam) == Owned("table") /\ ~Drifted("mapping", fam)
HooksCleanupAllowed ==
  ~FamilyForeign(Families) /\ \A a \in Marking \cup {"legacy"} : ~Foreign(a)
RouterCleanupAllowed == \A a \in Marking : ~Foreign(a)
MappingCleanupAllowed == ~Foreign("mapping")

Allowed(op, fam) ==
  CASE op = "apply" -> ApplyAllowed
    [] op = "hooks_apply" -> HooksApplyAllowed(fam)
    [] op = "router_apply" -> RouterApplyAllowed(fam)
    [] op = "mapping_apply" -> MappingApplyAllowed(fam)
    [] op = "hooks_cleanup" -> HooksCleanupAllowed
    [] op = "router_cleanup" -> RouterCleanupAllowed
    [] op = "mapping_cleanup" -> MappingCleanupAllowed
    [] OTHER -> TRUE

-----------------------------------------------------------------------------
(* The commands of an operation. *)

Command(do, on) == [do |-> do, on |-> on]

EnsureFamilies(fam) ==
  <<Command("ensure", "route4"), Command("ensure", "rule4")>>
    \o IF "v6" \in fam
       THEN <<Command("ensure", "route6"), Command("ensure", "rule6")>>
       ELSE <<>>

EnsureChain(c) == <<Command("chain", c), Command("rules", c)>>

\* Mutant: the family hooks go with the first of the two chains.
DeleteUnshared(chain, other) ==
  <<Command("delete", chain),
    Command("delete", "rule6"), Command("delete", "route6"),
    Command("delete", "rule4"), Command("delete", "route4"),
    Command("delete", "legacy")>>

\* The family hooks stay while the other chain is there.
DeleteShared(chain, other) ==
  <<Command("delete", chain), Command("share", other),
    Command("delete", "rule6"), Command("delete", "route6"),
    Command("delete", "rule4"), Command("delete", "route4"),
    Command("delete", "legacy")>>

Apply ==
  <<Command("ensure", "sysctl"), Command("ensure", "rt_tables"),
    Command("ensure", "tun"), Command("up", "tun"), Command("load", "sysctl"),
    Command("ensure", "table"), Command("ensure", "inert")>>
Cleanup ==
  <<Command("delete", "table"), Command("delete", "tun"),
    Command("delete", "sysctl"), Command("delete", "rt_tables")>>
HooksApply(fam) == EnsureFamilies(fam) \o EnsureChain("output")
RouterApply(fam) == EnsureFamilies(fam) \o EnsureChain("router")
MappingApply == EnsureChain("mapping")
HooksCleanup == DeleteShared("output", "router")
RouterCleanup == DeleteShared("router", "output")
MappingCleanup == <<Command("delete", "mapping")>>

Program(op, fam) ==
  CASE op = "apply" -> Apply
    [] op = "cleanup" -> Cleanup
    [] op = "hooks_apply" -> HooksApply(fam)
    [] op = "router_apply" -> RouterApply(fam)
    [] op = "mapping_apply" -> MappingApply
    [] op = "hooks_cleanup" -> HooksCleanup
    [] op = "router_cleanup" -> RouterCleanup
    [] op = "mapping_cleanup" -> MappingCleanup
    [] OTHER -> <<>>

Programs == [call \in Calls |-> Program(call.op, call.fam)]

\* Mutant: a cleanup only knows chains whose content is the expected one.
UnneededUnlessWhole(c, fam) ==
  CASE c.do = "ensure" -> Owned(c.on) \/ art[c.on] = "down"
    [] c.do = "up" -> Owned("tun")
    [] c.do = "chain" -> Ready(c.on, fam)
    [] c.do = "delete" -> /\ ~Owned(c.on) \/ (c.on \in Chains /\ ~rules[c.on].whole)
                          /\ ~(Foreign(c.on) /\ c.on \in Skeleton)
    [] c.do = "share" -> TRUE
    [] OTHER -> FALSE

\* A command that its status listing finds unnecessary, and how many commands
\* are passed over then.
Unneeded(c, fam) ==
  CASE c.do = "ensure" -> Owned(c.on) \/ art[c.on] = "down"
    [] c.do = "up" -> Owned("tun")
    [] c.do = "chain" -> Ready(c.on, fam)
    [] c.do = "delete" -> ~Owned(c.on) /\ ~(Foreign(c.on) /\ c.on \in Skeleton)
    [] c.do = "share" -> TRUE
    [] OTHER -> FALSE

Passed(c) ==
  CASE c.do = "chain" -> 2
    [] c.do = "share" -> IF Owned(c.on) THEN 5 ELSE 1
    [] OTHER -> 1

\* A command that the host carries out, if it does not fail.  A foreign
\* fragment or table is refused by dynet itself.
Possible(c) ==
  CASE c.do = "ensure" ->
         /\ art[c.on] = "missing"
         /\ c.on \in Routes => Owned("tun")
         /\ c.on = "inert" => Owned("table")
    [] c.do = "up" -> art["tun"] = "down"
    [] c.do = "chain" -> Owned("table") /\ ~Foreign(c.on)
    [] c.do = "rules" -> art[c.on] # "missing"
    [] c.do = "delete" -> Owned(c.on)
    [] OTHER -> TRUE

\* What a command leaves: deleting the table deletes its chains, whoever owns
\* them, and deleting the interface deletes the routes through it.
Deleted(a) ==
  CASE a = "table" -> {"table", "inert"} \cup Chains
    [] a = "tun" -> {"tun"} \cup {r \in Routes : Owned(r)}
    [] OTHER -> {a}

Remove(as) ==
  /\ art' = [a \in Artifacts |-> IF a \in as THEN "missing" ELSE art[a]]
  /\ rules' = [c \in Chains |-> IF c \in as THEN NoRules ELSE rules[c]]

Perform(c, fam) ==
  CASE c.do = "delete" -> Remove(Deleted(c.on))
    [] c.do \in {"ensure", "chain", "up"} ->
         /\ art' = [art EXCEPT ![c.on] =
                      IF c.do = "ensure" /\ c.on = "tun" THEN "down" ELSE "owned"]
         /\ UNCHANGED rules
    [] c.do = "rules" ->
         /\ rules' = [rules EXCEPT ![c.on] =
                        [marks |-> @.marks \cup fam, whole |-> @ = NoRules]]
         /\ UNCHANGED art
    [] OTHER -> UNCHANGED host

\* A failing command changes nothing, except that the rules of a chain are one
\* command each: those before the failing one stay.
PerformPart(c, fam) ==
  IF c.do = "rules" /\ Possible(c)
  THEN /\ \E marks \in {{}, fam} :
            rules' = [rules EXCEPT ![c.on] = [marks |-> @.marks \cup marks, whole |-> FALSE]]
       /\ UNCHANGED art
  ELSE UNCHANGED host

-----------------------------------------------------------------------------
(* Processes. *)

Busy(p) == plan[p] # <<>>
Op(p) == Head(plan[p]).op
Fam(p) == Head(plan[p]).fam
Commands(p) == Programs[Head(plan[p])]

\* Command i is needed, and no unneeded one before it passes over it.
Needed(p, i) ==
  /\ ~Unneeded(Commands(p)[i], Fam(p))
  /\ \A j \in at[p]..(i - 1) :
       Unneeded(Commands(p)[j], Fam(p)) => j + Passed(Commands(p)[j]) <= i

\* The first command from at[p] on that is needed, or the end of the operation.
Due(p) ==
  LET n == Len(Commands(p))
  IN CHOOSE i \in at[p]..n + 1 :
       /\ i = n + 1 \/ Needed(p, i)
       /\ \A j \in at[p]..(i - 1) : ~Needed(p, j)
Current(p) == Commands(p)[Due(p)]
Working(p) == Busy(p) /\ at[p] > 0 /\ ~rolling[p]

\* Operations that undo what they have created when a command fails.
Undoing == {"router_apply", "mapping_apply"}

Troubles == used.faults + used.foreign + used.overlaps

Trouble(kind) ==
  /\ Troubles < MaxTroubles
  /\ used' = [used EXCEPT ![kind] = @ + 1]

\* p starts on a sequence of operations.
Begin(p, ops) ==
  LET others == {q \in Procs \ {p} : Busy(q)}
  IN /\ used.invocations < MaxInvocations
     /\ others # {} => Troubles < MaxTroubles
     /\ used' = [used EXCEPT !.invocations = @ + 1,
                             !.overlaps = IF others # {} THEN @ + 1 ELSE @]
     /\ plan' = [plan EXCEPT ![p] = ops]
     /\ solo' = [q \in Procs |-> IF q = p THEN others = {} ELSE solo[q] /\ q \notin others]
     /\ raced' = (raced \/ others # {})
     /\ UNCHANGED <<at, made, rolling, before>>

\* p is at the start of the operations that remain.
Proceed(p, ops) ==
  /\ plan' = [plan EXCEPT ![p] = ops]
  /\ at' = [at EXCEPT ![p] = 0]
  /\ made' = [made EXCEPT ![p] = <<>>]
  /\ rolling' = [rolling EXCEPT ![p] = FALSE]
  /\ before' = [before EXCEPT ![p] = Nothing]
  /\ UNCHANGED <<solo, raced>>

\* An error ends the plan: the operations are chained with `?`.  The supervisor
\* gives up its start, or reports that the fail-open cleanup failed.
Abort(p) ==
  LET exiting == p = Supervisor /\ service = "exiting"
  IN /\ Proceed(p, IF exiting THEN <<Call("report", Families)>> ELSE <<>>)
     /\ service' = CASE exiting -> "failing"
                     [] p = Supervisor /\ ~exiting -> "stopped"
                     [] OTHER -> service

\* An operator runs one command: run_apply, run_cleanup, run_hooks,
\* run_router_hooks, run_dns_mapping.
Invoke(p) ==
  /\ ~Busy(p)
  /\ \/ \E op \in Applies, fam \in Options : Begin(p, <<Call(op, fam)>>)
     \/ \E op \in {"apply", "cleanup"} \cup Cleanups : Begin(p, <<Call(op, Families)>>)
  /\ UNCHANGED <<host, service>>

\* service stop and restart: prepare_stop refuses active hooks unless it is told
\* to clean them up.
PrepareStop(p) ==
  /\ ~Busy(p)
  /\ LET active == \E a \in Routes \cup Rules \cup {"output"} : Owned(a)
         cleanup == <<Call("router_cleanup", Families), Call("hooks_cleanup", Families)>>
     IN Begin(p, (IF active THEN cleanup ELSE <<>>) \o <<Call("stop", Families)>>)
  /\ UNCHANGED <<host, service>>

CleanupAll == <<Call("router_cleanup", Families), Call("hooks_cleanup", Families),
                Call("mapping_cleanup", Families)>>

\* supervise_with up to the spawn.
Start ==
  /\ service \in {"stopped", "failed"}
  /\ service' = "starting"
  /\ Begin(Supervisor,
           CleanupAll \o <<Call("apply", Families), Call("spawn", Families)>>)
  /\ UNCHANGED host

\* The runtime ends by itself or by a signal; the supervisor goes on.
Exit ==
  /\ service = "running"
  /\ service' = "exiting"
  /\ Begin(Supervisor, CleanupAll \o <<Call("report", Families)>>)
  /\ UNCHANGED host

\* The checks before the first command.
Check(p) ==
  /\ Busy(p) /\ at[p] = 0 /\ Commands(p) # <<>>
  /\ IF Allowed(Op(p), Fam(p))
     THEN /\ at' = [at EXCEPT ![p] = 1]
          /\ before' = [before EXCEPT ![p] = art]
          /\ UNCHANGED <<plan, made, rolling, service, solo, raced>>
     ELSE Abort(p)
  /\ UNCHANGED <<host, used>>

\* The operations without commands: the stop signal, the spawn, which can fail,
\* and the result of supervise_with.
Conclude(p) ==
  /\ Busy(p) /\ Commands(p) = <<>>
  /\ \/ /\ Op(p) = "stop" /\ service = "running"
        /\ service' = "exiting"
        /\ plan' = [plan EXCEPT ![p] = <<>>,
                                ![Supervisor] = CleanupAll \o <<Call("report", Families)>>]
        /\ solo' = [solo EXCEPT ![Supervisor] = \A q \in Procs \ {p} : ~Busy(q)]
        /\ raced' = (raced \/ \E q \in Procs \ {p} : Busy(q))
        /\ UNCHANGED <<at, made, rolling, before>>
     \/ /\ Op(p) = "stop" => service # "running"
        /\ Proceed(p, Tail(plan[p]))
        /\ service' \in CASE Op(p) = "spawn" -> {"running", "stopped"}
                          [] Op(p) = "report" ->
                               {IF service = "failing" THEN "failed" ELSE "stopped"}
                          [] OTHER -> {service}
  /\ UNCHANGED <<host, used>>

\* Mutant: the rollback does not know of the policy rules.
RunForgetsRules(p) ==
  /\ Working(p) /\ Due(p) <= Len(Commands(p)) /\ Possible(Current(p))
  /\ Perform(Current(p), Fam(p))
  /\ at' = [at EXCEPT ![p] = Due(p) + 1]
  /\ made' = IF Op(p) \in Undoing /\ Current(p).do \in {"ensure", "chain"} /\ Current(p).on \notin Rules
             THEN [made EXCEPT ![p] = Append(@, Current(p).on)]
             ELSE made
  /\ UNCHANGED <<plan, rolling, service, used, history>>

Run(p) ==
  /\ Working(p) /\ Due(p) <= Len(Commands(p)) /\ Possible(Current(p))
  /\ Perform(Current(p), Fam(p))
  /\ at' = [at EXCEPT ![p] = Due(p) + 1]
  /\ made' = IF Op(p) \in Undoing /\ Current(p).do \in {"ensure", "chain"}
             THEN [made EXCEPT ![p] = Append(@, Current(p).on)]
             ELSE made
  /\ UNCHANGED <<plan, rolling, service, used, history>>

\* Mutant: the rollback deletes the chain even if it was not created.
FailUndoesChain(p) ==
  /\ Working(p) /\ Due(p) <= Len(Commands(p))
  /\ IF Possible(Current(p)) THEN Trouble("faults") ELSE UNCHANGED used
  /\ PerformPart(Current(p), Fam(p))
  /\ IF Op(p) \in Undoing
     THEN /\ rolling' = [rolling EXCEPT ![p] = TRUE]
          /\ made' = [made EXCEPT ![p] = Append(@, Commands(p)[Len(Commands(p))].on)]
          /\ UNCHANGED <<plan, at, service, history>>
     ELSE Abort(p)

\* run_required returns an error: the host refuses the command, or it fails.
Fail(p) ==
  /\ Working(p) /\ Due(p) <= Len(Commands(p))
  /\ IF Possible(Current(p)) THEN Trouble("faults") ELSE UNCHANGED used
  /\ PerformPart(Current(p), Fam(p))
  /\ IF Op(p) \in Undoing
     THEN /\ rolling' = [rolling EXCEPT ![p] = TRUE]
          /\ UNCHANGED <<plan, at, made, service, history>>
     ELSE Abort(p)

\* rollback_router_apply and the rollback of a mapping: newest first, without
\* looking at the status, so that a chain of that name goes whoever owns it; the
\* first error ends it.
Undo(p) ==
  /\ Busy(p) /\ rolling[p] /\ made[p] # <<>>
  /\ LET a == made[p][Len(made[p])]
         there == Owned(a) \/ (a \in Chains /\ Foreign(a))
     IN \/ /\ there
           /\ Remove({a})
           /\ made' = [made EXCEPT ![p] = SubSeq(@, 1, Len(@) - 1)]
           /\ UNCHANGED <<plan, at, rolling, service, used, history>>
        \/ /\ IF there THEN Trouble("faults") ELSE UNCHANGED used
           /\ Abort(p)
           /\ UNCHANGED host

\* The apply has been undone; it returns its error.
Undone(p) ==
  /\ Busy(p) /\ rolling[p] /\ made[p] = <<>>
  /\ Abort(p)
  /\ UNCHANGED <<host, used>>

Return(p) ==
  /\ Working(p) /\ Due(p) > Len(Commands(p))
  /\ Proceed(p, Tail(plan[p]))
  /\ UNCHANGED <<host, service, used>>

\* The process is killed between two commands.
Kill(p) ==
  /\ Busy(p)
  /\ Trouble("faults")
  /\ Proceed(p, <<>>)
  /\ service' = IF p = Supervisor THEN "failed" ELSE service
  /\ UNCHANGED host

\* Somebody else takes a free name.
Interfere(a) ==
  /\ art[a] = "missing"
  /\ a \in Chains \cup {"inert"} => Owned("table")
  /\ Trouble("foreign")
  /\ art' = [art EXCEPT ![a] = "foreign"]
  /\ UNCHANGED <<rules, process, service, history>>

Step(p) == Check(p) \/ Conclude(p) \/ Run(p) \/ Fail(p)
             \/ Undo(p) \/ Undone(p) \/ Return(p) \/ Kill(p)

Next ==
  \/ \E p \in Operators : Invoke(p) \/ PrepareStop(p)
  \/ Start
  \/ Exit
  \/ \E p \in Procs : Step(p)
  \/ \E a \in Contested : Interfere(a)

Spec == Init /\ [][Next]_vars

-----------------------------------------------------------------------------
(* Properties. *)

\* Commands that do not overlap never leave a chain that marks packets of a
\* family whose rule or route is missing, however they fail or are killed:
\* ensure_family_hooks comes before the chain, the chain is deleted before the
\* family hooks, and these stay while the other chain exists.
MarkedIsRouted ==
  ~raced => \A c \in Marking : \A f \in rules[c].marks : Owned(Route(f)) /\ Owned(Rule(f))

\* After a cleanup by the supervisor that succeeds and that nobody interleaves,
\* nothing that dynet owns captures traffic, whatever overlapping, failing or
\* killed commands have left before.
CleanupIsComplete ==
  (/\ Busy(Supervisor) /\ at[Supervisor] = 0 /\ solo[Supervisor]
   /\ Op(Supervisor) \in {"apply", "report"} /\ service # "failing")
     => \A a \in Capture : ~Owned(a)

\* An apply of router hooks or mapping that reports its rollback leaves every
\* artifact of dynet as it was before the apply.
RollbackIsExact ==
  \A p \in Procs :
    Busy(p) /\ rolling[p] /\ made[p] = <<>> /\ solo[p]
      => \A a \in Artifacts : ~Foreign(a) => art[a] = before[p][a]

\* Commands that do not overlap never remove or take over an artifact of
\* somebody else.  The exception is a chain in dynet's own table, which goes
\* with the table in dynet cleanup.
ForeignIsKept ==
  [][~raced' => \A a \in Artifacts :
       Foreign(a) => art'[a] = "foreign" \/ (a \in Chains \cup {"inert"} /\ art'["table"] = "missing")]_vars
=============================================================================

------------------------- MODULE CaptureHooks_proofs -------------------------
(***************************************************************************)
(* CaptureHooks, for every set of operators, any artifacts contested by    *)
(* somebody else and any bounds: the inductive invariant, action by action,*)
(* and what follows from it.  A marked packet has its route and its rule, a*)
(* stopped service leaves nothing that captures traffic, an undo gives back*)
(* the host it found, and what belongs to somebody else stays.             *)
(***************************************************************************)
EXTENDS HookOperations_proofs

(* The stop signal of an operator: the runtime ends, the supervisor goes on. *)
StopSignal(p) ==
  /\ Busy(p) /\ Commands(p) = <<>> /\ Op(p) = "stop" /\ service = "running"
  /\ service' = "exiting"
  /\ plan' = [plan EXCEPT ![p] = <<>>,
                          ![Supervisor] = CleanupAll \o <<Call("report", Families)>>]
  /\ solo' = [solo EXCEPT ![Supervisor] = \A q \in Procs \ {p} : ~Busy(q)]
  /\ raced' = (raced \/ \E q \in Procs \ {p} : Busy(q))
  /\ UNCHANGED <<at, made, rolling, before, host>>

Concluded(p) ==
  /\ Busy(p) /\ Commands(p) = <<>>
  /\ Proceed(p, Tail(plan[p]))
  /\ service' \in CASE Op(p) = "spawn" -> {"running", "stopped"}
                    [] Op(p) = "report" ->
                         {IF service = "failing" THEN "failed" ELSE "stopped"}
                    [] OTHER -> {service}
  /\ UNCHANGED host

(* The rest of a plan is part of it.                                         *)
LEMMA TailOf ==
  ASSUME ProcsOK, NEW p \in Procs, Busy(p)
  PROVE  /\ Tail(plan[p]) \in Seq(Calls)
         /\ \A i \in 1..Len(Tail(plan[p])) : \E j \in 1..Len(plan[p]) : Tail(plan[p])[i] = plan[p][j]
<1>1. plan[p] \in Seq(Calls) /\ plan[p] # <<>>
  BY DEF ProcsOK, ProcTypes, Busy
<1>2. \A s \in Seq(Calls) : s # <<>> =>
         /\ Tail(s) \in Seq(Calls)
         /\ \A i \in 1..Len(Tail(s)) : i + 1 \in 1..Len(s) /\ Tail(s)[i] = s[i + 1]
  OBVIOUS
<1> QED BY Zenon, <1>1, <1>2

(* The invariant of the processes and of what they have done so far, and     *)
(* that each action keeps it.                                                *)
CoreOK == HostOK /\ ProcsOK /\ SuperviseOK /\ \A p \in Procs : Alone(p) => OperationOK(p)

(* The invariant without the marks holds at first.                           *)
LEMMA CoreInit == Init => CoreOK
<1> SUFFICES ASSUME Init PROVE CoreOK
  OBVIOUS
<1>1. \A p \in Procs : ~Alone(p)
  BY DEF Init, Alone, Busy
<1> QED BY <1>1, HostInit, ProcsInit, SuperviseInit DEF CoreOK

(* The host is in order while it does not change.                            *)
LEMMA HostSame ==
  ASSUME HostOK, art' = art, rules' = rules
  PROVE  HostOK'
BY DEF HostOK, Owned

(* Giving up keeps the invariant without the marks.  So does each action,    *)
(* one lemma each; a killed process first.                                   *)
LEMMA CoreAbort ==
  ASSUME CoreOK, NEW p \in Procs, Busy(p), Abort(p), HostOK'
  PROVE  CoreOK'
<1>AbortSupervise.
      ASSUME ProcsOK, SuperviseOK
      PROVE  SuperviseOK'
  <2> USE <1>AbortSupervise
  <2>1. /\ \A q \in Procs \ {p} : plan'[q] = plan[q]
        /\ solo' = solo
        /\ p = Supervisor /\ service = "exiting" =>
             plan'[p] = <<Call("report", Families)>> /\ service' = "failing"
        /\ p = Supervisor /\ service # "exiting" => plan'[p] = <<>> /\ service' = "stopped"
        /\ p # Supervisor => plan'[p] = <<>> /\ service' = service
    BY Zenon, AbortProcs
  <2>2. CASE p = Supervisor
    BY <2>1, <2>2, SupervisorEnds
  <2>3. CASE p # Supervisor
    <3>1. p \in Operators
      BY <2>3 DEF Procs
    <3>2. \A i \in 1..Len(plan'[p]) : FALSE
      <4>1. \A i \in 1..Len(<<>>) : FALSE
        OBVIOUS
      <4> QED BY Zenon, <2>1, <2>3, <4>1
    <3> QED BY <2>1, <2>3, <3>1, <3>2, OperatorSteps
  <2> QED BY <2>2, <2>3
<1> QED BY Zenon, AbortProcs, <1>AbortSupervise DEF CoreOK

LEMMA CoreKill ==
  ASSUME CoreOK, NEW p \in Procs, Kill(p)
  PROVE  CoreOK'
<1>1. /\ Busy(p) /\ Proceed(p, <<>>) /\ art' = art /\ rules' = rules
      /\ service' = IF p = Supervisor THEN "failed" ELSE service
  BY DEF Kill, host
<1>2. <<>> \in Seq(Calls)
  OBVIOUS
<1>3. /\ ProcsOK' /\ \A q \in Procs : ~Alone(q)'
      /\ \A q \in Procs \ {p} : plan'[q] = plan[q]
      /\ plan'[p] = <<>> /\ solo' = solo
  BY Zenon, <1>1, <1>2, ProceedProcs DEF CoreOK
<1>4. HostOK'
  BY <1>1, HostSame DEF CoreOK
<1>5. CASE p = Supervisor
  BY <1>1, <1>3, <1>4, <1>5, SupervisorEnds DEF CoreOK
<1>6. CASE p \in Operators
  <2>1. p # Supervisor
    BY <1>6, SupervisorApart
  <2>2. \A i \in 1..Len(plan'[p]) : \E j \in 1..Len(plan[p]) : plan'[p][i] = plan[p][j]
    BY <1>3
  <2>3. SuperviseOK'
    BY <1>1, <1>3, <1>6, <2>1, <2>2, OperatorSteps DEF CoreOK
  <2> QED BY <2>3, <1>3, <1>4 DEF CoreOK
<1> QED BY <1>5, <1>6 DEF Procs

(* The commands of an operator.                                              *)
LEMMA CoreOperator ==
  ASSUME CoreOK, NEW p \in Operators, ~Busy(p), NEW ops \in Seq(Calls), ops # <<>>,
         \A i \in 1..Len(ops) : ops[i].op \notin {"spawn", "report"},
         Begin(p, ops), art' = art, rules' = rules, service' = service
  PROVE  CoreOK'
<1>OperatorBegins.
      ASSUME ProcsOK, SuperviseOK, plan'[p] = ops,
             \A q \in Procs \ {p} : plan'[q] = plan[q] /\ (Busy(q) => ~solo'[q])
      PROVE  SuperviseOK'
  <2> USE <1>OperatorBegins
  <2>1. p \in Procs /\ p # Supervisor /\ Supervisor \in Procs
    BY SupervisorApart DEF Procs
  <2>2. plan'[Supervisor] = plan[Supervisor] /\ (Busy(Supervisor) => ~solo'[Supervisor])
    BY <2>1
  <2>3. Busy(Supervisor)' <=> Busy(Supervisor)
    BY <2>2 DEF Busy
  <2>4. \A q \in Operators : \A i \in 1..Len(plan'[q]) : plan'[q][i].op \notin {"spawn", "report"}
    <3> TAKE q \in Operators
    <3>1. CASE q = p
      BY <3>1
    <3>2. CASE q # p
      BY <3>2 DEF SuperviseOK, ServiceOK, Procs
    <3> QED BY <3>1, <3>2
  <2> QED BY <2>2, <2>3, <2>4 DEF SuperviseOK, ServiceOK, CleanedOK
<1>1. p \in Procs
  BY DEF Procs
<1>2. /\ ProcsOK' /\ \A q \in Procs : ~Alone(q)'
      /\ \A q \in Procs \ {p} : plan'[q] = plan[q] /\ (Busy(q) => ~solo'[q])
      /\ plan'[p] = ops
  BY Zenon, <1>1, BeginProcs DEF CoreOK
<1>3. SuperviseOK'
  BY <1>2, <1>OperatorBegins DEF CoreOK
<1> QED BY <1>2, <1>3, HostSame DEF CoreOK

(* An operator invokes a command.                                            *)
LEMMA CoreInvoke ==
  ASSUME CoreOK, NEW p \in Operators, Invoke(p)
  PROVE  CoreOK'
<1>1. ~Busy(p) /\ art' = art /\ rules' = rules /\ service' = service
  BY DEF Invoke, host
<1>2. PICK op \in Operations \ {"spawn", "report"}, fam \in Options : Begin(p, <<Call(op, fam)>>)
  <2>1. Families \in Options
    BY DEF Options
  <2> QED BY <2>1 DEF Invoke, Operations, Applies, Cleanups
<1> DEFINE ops == <<Call(op, fam)>>
<1>3. /\ ops \in Seq(Calls) /\ ops # <<>>
      /\ \A i \in 1..Len(ops) : ops[i].op \notin {"spawn", "report"}
  BY Zenon, SingleOperation
<1>4. Begin(p, ops)
  BY <1>2
<1> HIDE DEF ops
<1> QED BY Zenon, <1>1, <1>3, <1>4, CoreOperator

(* An operator prepares a stop.                                              *)
LEMMA CorePrepareStop ==
  ASSUME CoreOK, NEW p \in Operators, PrepareStop(p)
  PROVE  CoreOK'
<1> DEFINE active == \E a \in Routes \cup Rules \cup {"output"} : Owned(a)
           cleanup == <<Call("router_cleanup", Families), Call("hooks_cleanup", Families)>>
           ops == (IF active THEN cleanup ELSE <<>>) \o <<Call("stop", Families)>>
<1>1. ~Busy(p) /\ art' = art /\ rules' = rules /\ service' = service /\ Begin(p, ops)
  BY DEF PrepareStop, host
<1>2. PICK x, y, z \in Calls :
        /\ x = Call("router_cleanup", Families) /\ y = Call("hooks_cleanup", Families)
        /\ z = Call("stop", Families)
  BY Zenon DEF Call, Calls, Operations, Applies, Cleanups, Options
<1>3. x.op = "router_cleanup" /\ y.op = "hooks_cleanup" /\ z.op = "stop"
  BY <1>2 DEF Call
<1> HIDE DEF active
<1>4. /\ ops \in Seq(Calls) /\ ops # <<>>
      /\ \A i \in 1..Len(ops) : ops[i] \in {x, y, z}
  <2>1. CASE active
    <3>1. ops = <<x, y>> \o <<z>>
      BY Zenon, <1>2, <2>1
    <3> HIDE DEF ops
    <3>2. LET s == <<x, y>> \o <<z>>
          IN  s \in Seq(Calls) /\ s # <<>> /\ \A i \in 1..Len(s) : s[i] \in {x, y, z}
      BY ThreeOperations
    <3> QED BY Zenon, <3>1, <3>2
  <2>2. CASE ~active
    <3>1. ops = <<>> \o <<z>>
      BY Zenon, <1>2, <2>2
    <3>2. <<>> \o <<z>> = <<z>>
      OBVIOUS
    <3>3. <<z>> \in Seq(Calls) /\ <<z>> # <<>> /\ \A i \in 1..Len(<<z>>) : <<z>>[i] \in {x, y, z}
      OBVIOUS
    <3> HIDE DEF ops
    <3> QED BY Zenon, <3>1, <3>2, <3>3
  <2> QED BY Zenon, <2>1, <2>2
<1> HIDE DEF ops
<1>5. \A i \in 1..Len(ops) : ops[i].op \notin {"spawn", "report"}
  BY <1>3, <1>4
<1> QED BY Zenon, <1>1, <1>4, <1>5, CoreOperator

(* The supervisor starts the runtime, or cleans up after it.                 *)
LEMMA CoreSupervisor ==
  ASSUME CoreOK, Start \/ Exit
  PROVE  CoreOK'
<1> DEFINE go == CleanupAll \o <<Call("apply", Families), Call("spawn", Families)>>
           end == CleanupAll \o <<Call("report", Families)>>
<1>1. /\ go \in Seq(Calls) /\ go # <<>> /\ Remains(go, StartOps) /\ Head(go).op = "router_cleanup"
      /\ end \in Seq(Calls) /\ end # <<>> /\ Remains(end, ExitOps) /\ Head(end).op = "router_cleanup"
  BY Zenon, PlanOfStart, PlanOfExit
<1>2. /\ art' = art /\ rules' = rules
      /\ \/ service \in {"stopped", "failed"} /\ service' = "starting" /\ Begin(Supervisor, go)
         \/ service = "running" /\ service' = "exiting" /\ Begin(Supervisor, end)
  BY DEF Start, Exit, host
<1> HIDE DEF go, end
<1>3. ~Busy(Supervisor)
  BY <1>2 DEF CoreOK, SuperviseOK, ServiceOK
<1>4. PICK ops \in {go, end} :
        /\ Begin(Supervisor, ops)
        /\ \/ service' = "starting" /\ ops = go
           \/ service' = "exiting" /\ ops = end
  BY <1>2
<1>5. /\ ops \in Seq(Calls) /\ ops # <<>> /\ Head(ops).op = "router_cleanup"
      /\ \/ service' = "starting" /\ Remains(ops, StartOps)
         \/ service' = "exiting" /\ Remains(ops, ExitOps)
  BY <1>1, <1>4
<1>6. /\ ProcsOK' /\ \A q \in Procs : ~Alone(q)'
      /\ \A q \in Procs \ {Supervisor} : plan'[q] = plan[q]
      /\ plan'[Supervisor] = ops
  BY Zenon, <1>3, <1>4, <1>5, SupervisorApart, BeginProcs DEF CoreOK
<1>7. \A q \in Operators : plan'[q] = plan[q] \/ plan'[q] = <<>>
  BY <1>6, SupervisorApart
<1>8. SuperviseOK'
  BY Zenon, <1>5, <1>6, <1>7, SupervisorBegins DEF CoreOK
<1> QED BY <1>2, <1>6, <1>8, HostSame DEF CoreOK

(* The steps inside an operation.                                            *)
LEMMA CoreInside ==
  ASSUME CoreOK, NEW p \in Procs, Busy(p), Inside(p), service' = service, at'[p] # 0,
         HostOK', ProcsOK', \A q \in Procs \ {p} : ~Alone(q)', OperationOK(p) => OperationOK(p)',
         Alone(p)' => Alone(p),
         p = Supervisor /\ Op(p) \in {"hooks_cleanup", "mapping_cleanup"} =>
            \A a \in Artifacts : art'[a] = "owned" => Owned(a)
  PROVE  CoreOK'
<1>1. SuperviseOK'
  BY InsideSupervise DEF CoreOK
<1>2. \A q \in Procs : Alone(q)' => OperationOK(q)'
  <2> SUFFICES ASSUME NEW q \in Procs, Alone(q)' PROVE OperationOK(q)'
    OBVIOUS
  <2>1. q = p
    OBVIOUS
  <2>2. OperationOK(p)'
    BY <2>1 DEF CoreOK
  <2> QED BY <2>1, <2>2
<1> QED BY <1>1, <1>2 DEF CoreOK

(* The check before an operation.                                            *)
LEMMA CoreCheck ==
  ASSUME CoreOK, NEW p \in Procs, Check(p)
  PROVE  CoreOK'
<1>CheckCases.
      CheckPasses(p) \/ (Busy(p) /\ Abort(p) /\ UNCHANGED host)
  BY Zenon DEF Check, CheckPasses
<1>CheckOperation.
      ASSUME HostOK, ProcsOK, CheckPasses(p)
      PROVE  OperationOK(p)'
  <2> USE <1>CheckOperation
  <2>1. /\ at'[p] = 1 /\ made'[p] = <<>> /\ ~rolling'[p] /\ before'[p] = art'
        /\ plan' = plan
    BY CheckProcs DEF Inside
  <2>2. /\ Busy(p) /\ Allowed(Op(p), Fam(p)) /\ art' = art /\ rules' = rules
    BY DEF CheckPasses, host
  <2>3. Op(p)' = Op(p) /\ Commands(p)' = Commands(p) /\ Fam(p)' = Fam(p)
    BY <2>1 DEF Op, Commands, Fam
  <2>4. MadeOK(p)'
    BY <2>1 DEF MadeOK
  <2>5. ASSUME Op(p) \in Applies PROVE ApplyOK(p)'
    <3>1. ApplyShape(Commands(p), Fam(p), ChainOf(Op(p)))
      BY Zenon, <2>2, <2>5, CommandOf, ApplyProgram DEF Commands, Op, Fam
    <3>2. ~Drifted(ChainOf(Op(p)), Fam(p))
      BY <2>2, <2>5 DEF Applies, Allowed, HooksApplyAllowed, RouterApplyAllowed,
                         MappingApplyAllowed, ChainOf
    <3>3. Owned(ChainOf(Op(p)))' = Owned(ChainOf(Op(p)))
          /\ Ready(ChainOf(Op(p)), Fam(p))' = Ready(ChainOf(Op(p)), Fam(p))
      BY <2>2, <2>3 DEF Owned, Ready
    <3>4. Len(Commands(p)) \in 2..6
      BY Zenon, <3>1 DEF ApplyShape
    <3>5. 1..Len(made'[p]) = {}
      <4>1. 1..Len(<<>>) = {}
        OBVIOUS
      <4> QED BY Zenon, <4>1, <2>1
    <3>9. at'[p] # Len(Commands(p)) /\ \A j \in 1..(Len(Commands(p)) - 2) : ~(j < at'[p])
      <4>1. at'[p] = 1
        BY <2>1
      <4>2. \A n \in 2..6 : 1 # n /\ \A j \in 1..(n - 2) : ~(j < 1)
        OBVIOUS
      <4> QED BY Zenon, <4>1, <4>2, <3>4
    <3>6. ~Owned(ChainOf(Op(p)))' \/ Ready(ChainOf(Op(p)), Fam(p))'
      BY <3>2, <3>3 DEF Drifted
    <3> QED BY Zenon, <2>1, <2>3, <3>5, <3>6, <3>9 DEF ApplyOK
  <2>6. ShareOK(p)'
    BY <2>1 DEF ShareOK
  <2> QED BY <2>1, <2>3, <2>4, <2>5, <2>6 DEF OperationOK
<1>1. CASE CheckPasses(p)
  <2>1. /\ HostOK' /\ ProcsOK' /\ Inside(p) /\ \A q \in Procs \ {p} : ~Alone(q)'
        /\ at'[p] = 1
    BY <1>1, CheckProcs DEF CoreOK
  <2>2. Busy(p) /\ service' = service /\ art' = art
    BY <1>1 DEF CheckPasses, host
  <2>3. OperationOK(p)'
    BY <1>1, <1>CheckOperation DEF CoreOK
  <2>4. SuperviseOK'
    BY <2>1, <2>2, InsideSupervise DEF CoreOK, Owned
  <2>5. \A q \in Procs : Alone(q)' => OperationOK(q)'
    <3> SUFFICES ASSUME NEW q \in Procs, Alone(q)' PROVE OperationOK(q)'
      OBVIOUS
    <3>1. q = p
      BY <2>1
    <3> QED BY <3>1, <2>3
  <2> QED BY <2>1, <2>4, <2>5 DEF CoreOK
<1>2. CASE Busy(p) /\ Abort(p) /\ UNCHANGED host
  <2>1. HostOK'
    BY <1>2, HostSame DEF CoreOK, host
  <2> QED BY <1>2, <2>1, CoreAbort
<1> QED BY <1>1, <1>2, <1>CheckCases

(* An operation without commands.                                            *)
LEMMA CoreConclude ==
  ASSUME CoreOK, NEW p \in Procs, Conclude(p)
  PROVE  CoreOK'
<1>ConcludeCases.
      StopSignal(p) \/ Concluded(p)
  BY Zenon DEF Conclude, StopSignal, Concluded
<1>ConcludeProcs.
      ASSUME ProcsOK, SuperviseOK, Concluded(p)
      PROVE  ProcsOK' /\ SuperviseOK' /\ \A q \in Procs : ~Alone(q)'
  <2> USE <1>ConcludeProcs
  <2>EmptyProgram.
        ASSUME NEW call \in Calls, Programs[call] = <<>>
        PROVE  call.op \in {"stop", "spawn", "report"}
    <3> USE <2>EmptyProgram
    <3>0. call.op \in Operations /\ Len(Programs[call]) = 0
      BY DEF Calls
    <3>1. call.op \notin Applies
      BY SMTT(25), <3>0, ApplyProgram DEF ApplyShape
    <3>2. call.op \notin {"hooks_cleanup", "router_cleanup"}
      BY <3>0, ShareProgram DEF ShareShape
    <3>3. call.op \notin {"apply", "cleanup", "mapping_cleanup"}
      BY <3>0, OtherPrograms
    <3> QED BY <3>0, <3>1, <3>2, <3>3 DEF Operations, Applies, Cleanups
  <2>1. Busy(p) /\ Commands(p) = <<>> /\ Proceed(p, Tail(plan[p]))
    BY DEF Concluded
  <2>2. /\ Tail(plan[p]) \in Seq(Calls)
        /\ \A i \in 1..Len(Tail(plan[p])) : \E j \in 1..Len(plan[p]) : Tail(plan[p])[i] = plan[p][j]
    BY <2>1, TailOf
  <2>3. /\ ProcsOK' /\ \A q \in Procs : ~Alone(q)'
        /\ \A q \in Procs \ {p} : plan'[q] = plan[q]
        /\ plan'[p] = Tail(plan[p]) /\ solo' = solo
    BY Zenon, <2>1, <2>2, ProceedProcs
  <2>4. /\ Op(p) = "spawn" => service' \in {"running", "stopped"}
        /\ Op(p) = "report" => service' \in {"failed", "stopped"}
        /\ Op(p) \notin {"spawn", "report"} => service' = service
    BY DEF Concluded
  <2>5. CASE p = Supervisor
    <3>1. Op(p) \in {"stop", "spawn", "report"}
      BY Zenon, <2>1, CommandOf, <2>EmptyProgram DEF Commands, Op
    <3>2. Op(p) # "stop" /\ (Op(p) \in {"spawn", "report"} => Tail(plan[p]) = <<>>)
      BY Zenon, <2>1, <2>5, SupervisorOrder DEF SuperviseOK
    <3>3. plan'[Supervisor] = <<>> /\ service' \in {"stopped", "failed", "running"}
      BY Zenon, <2>3, <2>4, <2>5, <3>1, <3>2
    <3> QED BY <2>3, <2>5, <3>3, SupervisorEnds
  <2>6. CASE p \in Operators
    <3>1. Op(p) \notin {"spawn", "report"}
      <4>1. plan[p] \in Seq(Calls) /\ plan[p] # <<>>
        BY <2>1 DEF ProcsOK, ProcTypes, Busy
      <4>2. Head(plan[p]) = plan[p][1] /\ 1 \in 1..Len(plan[p])
        BY <4>1
      <4> QED BY <4>2, <2>6 DEF SuperviseOK, ServiceOK, Op
    <3> QED BY Zenon, <2>1, <2>2, <2>3, <2>4, <2>6, <3>1, OperatorSteps
  <2> QED BY <2>3, <2>5, <2>6 DEF Procs
<1>StopProcs.
      ASSUME ProcsOK, SuperviseOK, StopSignal(p)
      PROVE  ProcsOK' /\ SuperviseOK' /\ \A q \in Procs : ~Alone(q)'
  <2> USE <1>StopProcs
  <2> DEFINE ops == CleanupAll \o <<Call("report", Families)>>
             quiet == \A q \in Procs \ {p} : ~Busy(q)
             busy == \E q \in Procs \ {p} : Busy(q)
  <2>1. /\ Busy(p) /\ Commands(p) = <<>> /\ service = "running" /\ service' = "exiting"
        /\ plan' = [plan EXCEPT ![p] = <<>>, ![Supervisor] = ops]
        /\ solo' = [solo EXCEPT ![Supervisor] = quiet]
        /\ raced' = (raced \/ busy)
        /\ at' = at /\ made' = made /\ rolling' = rolling /\ before' = before
    BY DEF StopSignal
  <2>2. ops \in Seq(Calls) /\ ops # <<>> /\ Remains(ops, ExitOps) /\ Head(ops).op = "router_cleanup"
    BY Zenon, PlanOfExit
  <2>3. ~Busy(Supervisor) /\ p # Supervisor /\ Supervisor \in Procs
    BY <2>1, SupervisorApart DEF SuperviseOK, ServiceOK
  <2>4. quiet \in BOOLEAN /\ busy \in BOOLEAN /\ (busy <=> ~quiet)
    OBVIOUS
  <2> HIDE DEF ops
  <2>5. /\ plan' \in [Procs -> Seq(Calls)] /\ plan'[p] = <<>> /\ plan'[Supervisor] = ops
        /\ \A q \in Procs \ {p, Supervisor} : plan'[q] = plan[q]
    <3>1. <<>> \in Seq(Calls)
      OBVIOUS
    <3> QED BY Zenon, <2>1, <2>2, <2>3, <3>1 DEF ProcsOK, ProcTypes
  <2>6. (quiet => \A q \in Procs \ {p} : ~Busy(q)) /\ (~busy => quiet)
    OBVIOUS
  <2>7. \A q \in Procs \ {p} : Busy(q) => busy
    OBVIOUS
  <2> HIDE DEF quiet, busy
  <2>8. /\ solo' \in [Procs -> BOOLEAN] /\ (solo'[Supervisor] <=> quiet)
        /\ \A q \in Procs \ {Supervisor} : solo'[q] = solo[q]
    BY <2>1, <2>3, <2>4 DEF ProcsOK, ProcTypes
  <2>9. raced' \in BOOLEAN /\ (raced' <=> raced \/ busy)
    BY Zenon, <2>1
  <2>10. ProcTypes'
    BY Zenon, <2>1, <2>5, <2>8, <2>9 DEF ProcsOK, ProcTypes
  <2>11. /\ ~Busy(p)' /\ Busy(Supervisor)'
         /\ \A q \in Procs \ {p, Supervisor} : Busy(q)' <=> Busy(q)
    BY <2>2, <2>5 DEF Busy
  <2>12. \A q \in Procs \ {p} : ~(Busy(q) /\ solo[q])
    BY <2>1 DEF ProcsOK, Apart
  <2>13. Apart'
    <3>1. ASSUME NEW q \in Procs, Busy(q)', solo'[q], NEW r \in Procs \ {q}, Busy(r)' PROVE FALSE
      <4>1. q = Supervisor
        BY <3>1, <2>8, <2>11, <2>12
      <4>2. r \in Procs \ {p} /\ Busy(r)
        BY <3>1, <4>1, <2>11
      <4> QED BY <3>1, <4>1, <4>2, <2>6, <2>8
    <3>2. ASSUME NEW q \in Procs, Busy(q)', ~raced' PROVE solo'[q]
      BY <3>2, <2>3, <2>6, <2>7, <2>8, <2>9, <2>11
    <3> QED BY <3>1, <3>2 DEF Apart
  <2>14. at[p] = 0 /\ at[Supervisor] = 0
    BY <2>1, <2>3 DEF ProcsOK, StageOK
  <2>15. \A q \in Procs : StageOK(q)'
    <3> TAKE q \in Procs
    <3>1. CASE q \in {p, Supervisor}
      <4>1. at'[q] = 0 /\ made'[q] = <<>> /\ ~rolling'[q]
        BY <3>1, <2>1, <2>14 DEF ProcsOK, StageOK
      <4> QED BY <4>1 DEF StageOK
    <3>2. CASE q \notin {p, Supervisor}
      <4>1. /\ plan'[q] = plan[q] /\ at'[q] = at[q] /\ made'[q] = made[q] /\ rolling'[q] = rolling[q]
        BY <3>2, <2>1, <2>5
      <4> QED BY <4>1 DEF ProcsOK, StageOK, Busy, Commands, Op
    <3> QED BY <3>1, <3>2
  <2>16. \A q \in Procs : ~Alone(q)'
    BY <2>1, <2>8, <2>11, <2>12, <2>14 DEF Alone
  <2>17. SuperviseOK'
    <3>1. \A q \in Operators : plan'[q] = plan[q] \/ plan'[q] = <<>>
      BY <2>5, SupervisorApart
    <3> QED BY Zenon, <2>1, <2>2, <2>5, <3>1, SupervisorBegins
  <2> QED BY <2>10, <2>13, <2>15, <2>16, <2>17 DEF ProcsOK
<1>1. HostOK'
  <2>1. art' = art /\ rules' = rules
    BY DEF Conclude, host
  <2> QED BY <2>1, HostSame DEF CoreOK
<1>2. ProcsOK' /\ SuperviseOK' /\ \A q \in Procs : ~Alone(q)'
  BY Zenon, <1>ConcludeCases, <1>StopProcs, <1>ConcludeProcs DEF CoreOK
<1> QED BY Zenon, <1>1, <1>2 DEF CoreOK

(* A command runs.                                                           *)
LEMMA CoreRun ==
  ASSUME CoreOK, NEW p \in Procs, Run(p)
  PROVE  CoreOK'
<1>1. HostOK /\ ProcsOK
  BY DEF CoreOK
<1>2. /\ HostOK' /\ ProcsOK' /\ Inside(p) /\ \A q \in Procs \ {p} : ~Alone(q)'
      /\ at'[p] = Due(p) + 1
  BY Zenon, <1>1, RunProcs
<1>3. Busy(p) /\ Working(p) /\ at[p] > 0 /\ service' = service
  BY DEF Run, Working
<1>4. Due(p) \in at[p]..(Len(Commands(p)) + 1) /\ at[p] \in 1..(Len(Commands(p)) + 1)
  BY <1>1, <1>3, CommandOf
<1>5. at'[p] # 0
  BY <1>2, <1>4
<1>6. OperationOK(p) => OperationOK(p)'
  BY <1>1, RunOperation
<1>7. Alone(p)' => Alone(p)
  BY <1>2, <1>3 DEF Alone, Busy, Inside
<1>8. Op(p) = "mapping_cleanup" => \A a \in Artifacts : art'[a] = "owned" => Owned(a)
  <2> SUFFICES ASSUME Op(p) = "mapping_cleanup"
               PROVE  \A a \in Artifacts : art'[a] = "owned" => Owned(a)
    OBVIOUS
  <2>1. Remove({"mapping"})
    BY <1>1, RunMappingCleanup
  <2> QED BY Zenon, <2>1, <1>1, RemovedOnly
<1>9. Op(p) = "hooks_cleanup" => \A a \in Artifacts : art'[a] = "owned" => Owned(a)
  <2> SUFFICES ASSUME Op(p) = "hooks_cleanup"
               PROVE  \A a \in Artifacts : art'[a] = "owned" => Owned(a)
    OBVIOUS
  <2> DEFINE cs == Commands(p)
  <2>1. /\ Head(plan[p]) \in Calls /\ Due(p) <= Len(cs) /\ Possible(Current(p))
        /\ Perform(Current(p), Fam(p))
    BY <1>1, <1>3, CommandOf DEF Run
  <2>2. ShareShape(cs, "output", "router")
    BY Zenon, <2>1, ShareProgram DEF Commands, Op, ChainOf, OtherOf
  <2>3. Due(p) \in 1..7 /\ Current(p) = cs[Due(p)]
    BY <2>1, <2>2, <1>4 DEF ShareShape, Current
  <2>4. Current(p).do \in {"delete", "share"}
    <3> HIDE DEF cs
    <3> QED BY <2>2, <2>3 DEF ShareShape, Command
  <2>5. CASE Current(p).do = "delete"
    BY Zenon, <2>1, <2>5, <1>1, Effects, RemovedOnly
  <2>6. CASE Current(p).do = "share"
    BY Zenon, <2>1, <2>6, Effects DEF Owned
  <2> QED BY <2>4, <2>5, <2>6
<1> QED BY <1>2, <1>3, <1>5, <1>6, <1>7, <1>8, <1>9, CoreInside

(* A command fails.                                                          *)
LEMMA CoreFail ==
  ASSUME CoreOK, NEW p \in Procs, Fail(p)
  PROVE  CoreOK'
<1>1. /\ HostOK' /\ art' = art
      /\ \/ Abort(p)
         \/ /\ ProcsOK' /\ Inside(p) /\ \A q \in Procs \ {p} : ~Alone(q)'
            /\ Op(p) \in Undoing /\ service' = service
            /\ at' = at /\ made' = made /\ before' = before /\ rolling'[p]
  BY Zenon, FailProcs DEF CoreOK
<1>2. Busy(p) /\ at[p] > 0
  BY DEF Fail, Working
<1>3. CASE Abort(p)
  BY SMTT(25), <1>1, <1>2, <1>3, CoreAbort
<1>4. CASE ~Abort(p)
  <2>1. /\ ProcsOK' /\ Inside(p) /\ \A q \in Procs \ {p} : ~Alone(q)'
        /\ Op(p) \in Undoing /\ service' = service
        /\ at' = at /\ made' = made /\ before' = before /\ rolling'[p]
    BY SMTT(25), <1>1, <1>4
  <2>2. OperationOK(p) => OperationOK(p)'
    BY SMTT(20), <1>1, <2>1, FailOperation DEF CoreOK, Inside
  <2>3. at'[p] # 0 /\ (Alone(p)' => Alone(p))
    BY <1>2, <2>1 DEF Alone, Busy, Inside
  <2> QED BY <1>1, <1>2, <2>1, <2>2, <2>3, CoreInside DEF Owned
<1> QED BY <1>3, <1>4

(* An undo.                                                                  *)
LEMMA CoreUndo ==
  ASSUME CoreOK, NEW p \in Procs, Undo(p)
  PROVE  CoreOK'
<1>1. CASE UndoOne(p)
  <2>1. /\ HostOK' /\ ProcsOK' /\ Inside(p) /\ \A q \in Procs \ {p} : ~Alone(q)'
        /\ at' = at
    BY <1>1, UndoProcs DEF CoreOK
  <2>2. /\ Busy(p) /\ rolling[p] /\ service' = service
        /\ Remove({made[p][Len(made[p])]})
    BY <1>1 DEF UndoOne
  <2>3. at[p] # 0
    BY <2>2 DEF CoreOK, ProcsOK, StageOK
  <2>4. OperationOK(p) => OperationOK(p)'
    BY <1>1, UndoOperation DEF CoreOK
  <2>5. Alone(p)' => Alone(p)
    BY <2>1 DEF Alone, Busy, Inside
  <2>6. \A a \in Artifacts : art'[a] = "owned" => Owned(a)
    BY <2>2, RemovedOnly DEF CoreOK
  <2> QED BY <2>1, <2>2, <2>3, <2>4, <2>5, <2>6, CoreInside
<1>2. CASE Busy(p) /\ Abort(p) /\ UNCHANGED host
  <2>1. HostOK'
    BY <1>2, HostSame DEF CoreOK, host
  <2> QED BY <1>2, <2>1, CoreAbort
<1> QED BY <1>1, <1>2, UndoCases

(* The end of an undo.                                                       *)
LEMMA CoreUndone ==
  ASSUME CoreOK, NEW p \in Procs, Undone(p)
  PROVE  CoreOK'
<1>1. Busy(p) /\ Abort(p) /\ art' = art /\ rules' = rules
  BY DEF Undone, host
<1>2. HostOK'
  BY <1>1, HostSame DEF CoreOK
<1> QED BY <1>1, <1>2, CoreAbort

(* The end of an operation.                                                  *)
LEMMA CoreReturn ==
  ASSUME CoreOK, NEW p \in Procs, Return(p)
  PROVE  CoreOK'
<1>ReturnProcs.
      ASSUME HostOK, ProcsOK, SuperviseOK, Alone(p) => OperationOK(p)
      PROVE  ProcsOK' /\ SuperviseOK' /\ \A q \in Procs : ~Alone(q)'
  <2> USE <1>ReturnProcs
  <2>ReturnedMapping.
        ASSUME Op(p) = "mapping_cleanup", at[p] >= 2 => ~Owned("mapping")
        PROVE  ~Owned("mapping")
    <3> USE <2>ReturnedMapping
    <3> DEFINE d == Due(p)
               cs == Commands(p)
    <3>0. Busy(p) /\ Working(p) /\ d > Len(cs)
      BY DEF Return, Working
    <3>1. Head(plan[p]) \in Calls /\ cs \in Seq(CommandSet) /\ at[p] \in 1..(Len(cs) + 1)
      BY <3>0, CommandOf
    <3>2. Len(cs) = 1 /\ cs[1] = Command("delete", "mapping")
      BY Zenon, <3>1, OtherPrograms DEF Op, Commands
    <3>3. cs[1].do = "delete" /\ cs[1].on = "mapping" /\ "mapping" \notin Skeleton
      BY <3>2 DEF Command, Skeleton, Fragments
    <3>4. \A i \in 1..Len(cs) : cs[i].do \notin {"chain", "share"}
      BY <3>2, <3>3
    <3>5. /\ d \in at[p]..(Len(cs) + 1)
          /\ \A j \in at[p]..(d - 1) : Unneeded(cs[j], Fam(p))
      BY ZenonT(30), <3>1, <3>4, LinearDue
    <3> HIDE DEF d, cs
    <3>6. CASE at[p] = 1
      <4>1. Unneeded(cs[1], Fam(p))
        BY <3>6, <3>0, <3>2, <3>5
      <4> QED BY <4>1, <3>3, Statuses
    <3>7. CASE at[p] = 2
      BY <3>7
    <3> QED BY <3>1, <3>2, <3>6, <3>7
  <2>ReturnedShare.
        ASSUME Op(p) \in {"hooks_cleanup", "router_cleanup"}, ShareOK(p)
        PROVE  /\ ~Owned(ChainOf(Op(p))) /\ ~Owned("legacy")
               /\ \A a \in Routes \cup Rules : ~Owned(a) \/ Owned(OtherOf(Op(p)))
    <3> USE <2>ReturnedShare
    <3> DEFINE d == Due(p)
               c == ChainOf(Op(p))
               o == OtherOf(Op(p))
               cs == Commands(p)
               fam == Fam(p)
    <3>0. Busy(p) /\ Working(p) /\ d > Len(cs)
      BY DEF Return, Working
    <3>1. Head(plan[p]) \in Calls /\ cs \in Seq(CommandSet) /\ at[p] \in 1..(Len(cs) + 1)
      BY <3>0, CommandOf
    <3>2. ShareShape(cs, c, o)
      BY Zenon, <3>1, ShareProgram DEF Commands, Op
    <3>3. Len(cs) = 7 /\ at[p] \in 1..8
      BY <3>1, <3>2 DEF ShareShape
    <3>4. /\ d \in at[p]..8
          /\ \A j \in at[p]..(d - 1) :
               /\ j \in {1, 7} => Unneeded(cs[j], fam)
               /\ j \in 3..6 => Unneeded(cs[j], fam) \/ Owned(o)
      BY Zenon, <3>1, <3>2, <3>3, ShareDue
    <3>5. c \in Chains
      BY NamesOfArtifacts DEF ChainOf
    <3> HIDE DEF d, c, o, cs, fam
    <3>6. d = 8
      BY <3>0, <3>3, <3>4
    <3>7. /\ \A j \in 1..7 : j # 2 => cs[j].do = "delete"
          /\ cs[1].on = c /\ cs[7].on = "legacy"
          /\ cs[3].on = "rule6" /\ cs[4].on = "route6" /\ cs[5].on = "rule4" /\ cs[6].on = "route4"
      BY <3>2 DEF ShareShape, Command
    <3>8. \A j \in 1..7 : j # 2 => cs[j].on \notin Skeleton
      BY <3>5, <3>7, NamesOfArtifacts DEF Skeleton, Fragments
    <3>9. \A j \in 1..7 : j # 2 => (Unneeded(cs[j], fam) <=> ~Owned(cs[j].on))
      BY <3>7, <3>8, Statuses
    <3>10. ~Owned(c)
      <4>1. CASE at[p] >= 2
        BY <4>1 DEF ShareOK, c
      <4>2. CASE at[p] = 1
        BY <4>2, <3>4, <3>6, <3>7, <3>9
      <4> QED BY <4>1, <4>2, <3>3
    <3>11. ~Owned("legacy")
      <4>1. CASE at[p] = 8
        BY <4>1 DEF ShareOK
      <4>2. CASE at[p] <= 7
        BY <4>2, <3>3, <3>4, <3>6, <3>7, <3>9
      <4> QED BY <4>1, <4>2, <3>3
    <3>12. \A j \in 3..6 : ~Owned(cs[j].on) \/ Owned(o)
      <4> TAKE j \in 3..6
      <4>1. CASE j < at[p]
        BY <4>1 DEF ShareOK, cs, o
      <4>2. CASE ~(j < at[p])
        BY <4>2, <3>3, <3>4, <3>6, <3>9
      <4> QED BY <4>1, <4>2
    <3>13. \A a \in Routes \cup Rules : \E j \in 3..6 : cs[j].on = a
      BY <3>7, NamesOfArtifacts
    <3> QED BY ZenonT(30), <3>10, <3>11, <3>12, <3>13 DEF c, o
  <2>1. /\ Busy(p) /\ Working(p) /\ Proceed(p, Tail(plan[p]))
        /\ art' = art /\ service' = service /\ at[p] # 0
    BY DEF Return, Working, host, ProcsOK, ProcTypes
  <2>2. /\ Tail(plan[p]) \in Seq(Calls)
        /\ \A i \in 1..Len(Tail(plan[p])) : \E j \in 1..Len(plan[p]) : Tail(plan[p])[i] = plan[p][j]
    BY <2>1, TailOf
  <2>3. /\ ProcsOK' /\ \A q \in Procs : ~Alone(q)'
        /\ \A q \in Procs \ {p} : plan'[q] = plan[q]
        /\ plan'[p] = Tail(plan[p]) /\ solo' = solo
    BY Zenon, <2>1, <2>2, ProceedProcs
  <2>4. CASE p \in Operators
    BY Zenon, <2>1, <2>2, <2>3, <2>4, OperatorSteps
  <2>5. CASE p = Supervisor
    <3> DEFINE rest == Tail(plan[Supervisor])
    <3>1. Op(p) \notin {"stop", "spawn", "report"}
      <4>1. Commands(p) # <<>>
        BY <2>1 DEF ProcsOK, StageOK
      <4> QED BY Zenon, <4>1, <2>1, CommandOf, OtherPrograms DEF Op, Commands
    <3>2. /\ service = "starting" => Remains(rest, StartOps)
          /\ service = "exiting" => Remains(rest, ExitOps)
          /\ service \in {"starting", "exiting"} =>
               /\ rest # <<>>
               /\ Head(rest).op = "hooks_cleanup" => Op(p) = "router_cleanup"
               /\ Head(rest).op = "mapping_cleanup" => Op(p) = "hooks_cleanup"
               /\ Head(rest).op \in {"apply", "report"} => Op(p) = "mapping_cleanup"
          /\ service # "failing"
      BY <2>1, <2>5, <3>1, SupervisorOrder DEF SuperviseOK
    <3>3. service \in {"starting", "exiting"}
      BY <2>1, <2>5, <3>2 DEF SuperviseOK, ServiceOK
    <3>4. plan'[Supervisor] = rest /\ Busy(Supervisor)' /\ Op(Supervisor)' = Head(rest).op
      BY ZenonT(30), <2>3, <2>5, <3>2, <3>3 DEF Busy, Op
    <3>5. ServiceOK'
      <4>1. \A q \in Operators : plan'[q] = plan[q]
        BY <2>3, <2>5, SupervisorApart
      <4> HIDE DEF rest
      <4> QED BY <2>1, <3>2, <3>3, <3>4, <4>1 DEF SuperviseOK, ServiceOK
    <3>6. CleanedOK'
      <4> SUFFICES ASSUME solo[Supervisor]
                   PROVE  /\ Head(rest).op = "hooks_cleanup" => ~Owned("router")
                          /\ Head(rest).op = "mapping_cleanup" => \A a \in Capture \ {"mapping"} : ~Owned(a)
                          /\ Head(rest).op \in {"apply", "report"} => \A a \in Capture : ~Owned(a)
        BY Zenon, <2>1, <2>3, <3>4 DEF CleanedOK, Owned
      <4>1. OperationOK(p)
        BY <2>1, <2>5 DEF Alone, Working
      <4>2. Op(p) \in {"hooks_cleanup", "router_cleanup"} =>
              /\ ~Owned(ChainOf(Op(p))) /\ ~Owned("legacy")
              /\ \A a \in Routes \cup Rules : ~Owned(a) \/ Owned(OtherOf(Op(p)))
        BY Zenon, <4>1, <2>ReturnedShare DEF OperationOK
      <4>3. Op(p) = "mapping_cleanup" => ~Owned("mapping")
        BY ZenonT(30), <4>1, <2>ReturnedMapping DEF OperationOK
      <4>4. /\ Op(p) = "hooks_cleanup" => ~Owned("router")
            /\ Op(p) = "mapping_cleanup" => \A a \in Capture \ {"mapping"} : ~Owned(a)
        BY <2>1, <2>5, <3>2 DEF SuperviseOK, CleanedOK
      <4>5. Op(p) = "router_cleanup" => ~Owned("router")
        BY <4>2 DEF ChainOf
      <4>6. Op(p) = "hooks_cleanup" => \A a \in Capture \ {"mapping"} : ~Owned(a)
        BY <4>2, <4>4 DEF ChainOf, OtherOf, Capture, Chains, Marking
      <4>7. Op(p) = "mapping_cleanup" => \A a \in Capture : ~Owned(a)
        BY <4>3, <4>4
      <4> HIDE DEF rest
      <4> QED BY <3>2, <3>3, <4>5, <4>6, <4>7
    <3> QED BY <2>3, <3>5, <3>6 DEF SuperviseOK
  <2> QED BY <2>4, <2>5 DEF Procs
<1>1. art' = art /\ rules' = rules
  BY DEF Return, host
<1>2. HostOK'
  BY <1>1, HostSame DEF CoreOK
<1>3. ProcsOK' /\ SuperviseOK' /\ \A q \in Procs : ~Alone(q)'
  BY Zenon, <1>ReturnProcs DEF CoreOK
<1> QED BY Zenon, <1>2, <1>3 DEF CoreOK

(* Somebody else changes the host.                                           *)
LEMMA CoreInterfere ==
  ASSUME CoreOK, NEW a \in Contested, Interfere(a)
  PROVE  CoreOK'
<1>InterfereOperation.
      ASSUME HostOK, ProcsOK, NEW p \in Procs, Busy(p), OperationOK(p)
      PROVE  OperationOK(p)'
  <2> USE <1>InterfereOperation
  <2>1. /\ rules' = rules /\ plan' = plan /\ at' = at /\ made' = made /\ rolling' = rolling
        /\ before' = before
        /\ \A b \in Artifacts : art'[b] = "owned" <=> Owned(b)
        /\ \A b \in Artifacts : art'[b] = art[b] \/ art'[b] = "foreign"
        /\ \A b \in Artifacts : Foreign(b) => art'[b] = "foreign"
    BY InterfereFacts
  <2>2. Op(p)' = Op(p) /\ Commands(p)' = Commands(p) /\ Fam(p)' = Fam(p)
    BY <2>1 DEF Op, Commands, Fam
  <2>3. /\ Head(plan[p]) \in Calls /\ Commands(p) \in Seq(CommandSet)
        /\ made[p] \in Seq(Artifacts)
    BY CommandOf DEF ProcsOK, ProcTypes
  <2>4. MadeOK(p)'
    <3>1. \A i \in 1..Len(made[p]) : art'[made[p][i]] = "owned"
      <4>1. \A i \in 1..Len(made[p]) : made[p][i] \in Artifacts
        BY <2>3
      <4>2. \A i \in 1..Len(made[p]) : Owned(made[p][i])
        BY Zenon DEF OperationOK, MadeOK
      <4> QED BY Zenon, <4>1, <4>2, <2>1
    <3>2. Op(p) \in Undoing => \A b \in Artifacts : \/ art'[b] = "foreign" \/ art'[b] = before[p][b]
                                                    \/ \E i \in 1..Len(made[p]) : made[p][i] = b
      BY Zenon, <2>1 DEF OperationOK, MadeOK
    <3>3. /\ \A i \in 1..Len(made[p]) : before[p][made[p][i]] = "missing"
          /\ \A i, j \in 1..Len(made[p]) : i # j => made[p][i] # made[p][j]
      BY Zenon DEF OperationOK, MadeOK
    <3> QED BY ZenonT(30), <2>1, <2>2, <3>1, <3>2, <3>3 DEF MadeOK, Owned, Foreign
  <2>5. ASSUME Op(p) \in Applies PROVE ApplyOK(p)'
    <3> DEFINE n == Len(Commands(p))
               c == ChainOf(Op(p))
    <3>1. ApplyShape(Commands(p), Fam(p), c)
      BY Zenon, <2>3, <2>5, ApplyProgram DEF Commands, Op, Fam
    <3>2. c \in Artifacts
      BY NamesOfArtifacts DEF ChainOf
    <3>3. \A j \in 1..(n - 2) : Commands(p)[j].on \in Artifacts
      BY <3>1, NamesOfArtifacts DEF ApplyShape
    <3>4. ApplyOK(p)
      BY <2>5 DEF OperationOK
    <3> QED BY Zenon, <2>1, <2>2, <3>2, <3>3, <3>4 DEF ApplyOK, Owned, Ready
  <2>6. ASSUME Op(p) \in {"hooks_cleanup", "router_cleanup"} PROVE ShareOK(p)'
    <3>1. ShareShape(Commands(p), ChainOf(Op(p)), OtherOf(Op(p)))
      BY Zenon, <2>3, <2>6, ShareProgram DEF Commands, Op
    <3>2. ChainOf(Op(p)) \in Artifacts /\ OtherOf(Op(p)) \in Artifacts /\ "legacy" \in Artifacts
      BY NamesOfArtifacts DEF ChainOf, OtherOf
    <3>3. \A j \in 3..6 : Commands(p)[j].on \in Artifacts
      BY <3>1, NamesOfArtifacts DEF ShareShape, Command
    <3> QED BY Zenon, <2>1, <2>2, <2>6, <3>2, <3>3 DEF OperationOK, ShareOK, Owned
  <2>7. (art'["table"] = "owned" <=> Owned("table")) /\ (art'["mapping"] = "owned" <=> Owned("mapping"))
    BY <2>1, NamesOfArtifacts
  <2> QED BY SMTT(20), <2>1, <2>2, <2>4, <2>5, <2>6, <2>7 DEF OperationOK, Owned
<1>1. /\ HostOK' /\ \A b \in Artifacts : art'[b] = "owned" <=> Owned(b)
      /\ UNCHANGED <<plan, at, made, rolling, service, solo, raced, before>>
  BY InterfereFacts DEF CoreOK
<1>2. ProcsOK'
  BY <1>1 DEF CoreOK, ProcsOK, ProcTypes, Apart, StageOK, Busy, Op, Commands
<1>3. SuperviseOK'
  <2>1. Capture \subseteq Artifacts /\ "router" \in Capture
    BY DEF Artifacts, Capture, Chains, Marking
  <2>2. ServiceOK'
    BY SMTT(25), <1>1 DEF CoreOK, SuperviseOK, ServiceOK, Busy
  <2>3. CleanedOK'
    BY <1>1, <2>1 DEF CoreOK, SuperviseOK, CleanedOK, Busy, Op, Owned
  <2> QED BY <2>2, <2>3 DEF SuperviseOK
<1>4. \A p \in Procs : Alone(p)' => OperationOK(p)'
  <2> SUFFICES ASSUME NEW p \in Procs, Alone(p)' PROVE OperationOK(p)'
    OBVIOUS
  <2>1. Alone(p)
    BY <1>1 DEF Alone, Busy
  <2> QED BY <2>1, <1>InterfereOperation DEF CoreOK, Alone
<1> QED BY <1>1, <1>2, <1>3, <1>4 DEF CoreOK

(* Every step keeps the invariant without the marks.                         *)
LEMMA CoreNext == CoreOK /\ [Next]_vars => CoreOK'
<1> SUFFICES ASSUME CoreOK, [Next]_vars PROVE CoreOK'
  OBVIOUS
<1>1. CASE \E p \in Operators : Invoke(p) \/ PrepareStop(p)
  BY Zenon, <1>1, CoreInvoke, CorePrepareStop
<1>2. CASE Start \/ Exit
  BY <1>2, CoreSupervisor
<1>3. CASE \E p \in Procs : Step(p)
  BY Zenon, <1>3, CoreCheck, CoreConclude, CoreRun, CoreFail, CoreUndo, CoreUndone, CoreReturn, CoreKill
     DEF Step
<1>4. CASE \E a \in Contested : Interfere(a)
  BY Zenon, <1>4, CoreInterfere
<1>5. CASE UNCHANGED vars
  <2>1. /\ art' = art /\ rules' = rules /\ service' = service
        /\ UNCHANGED <<plan, at, made, rolling, solo, raced, before>>
    BY <1>5 DEF vars, host, process, history
  <2>2. HostOK'
    BY SMTT(25), <2>1, HostSame DEF CoreOK
  <2>3. ProcsOK'
    BY SMTT(20), <2>1 DEF CoreOK, ProcsOK, ProcTypes, Apart, StageOK, Busy, Op, Commands
  <2>4. SuperviseOK'
    BY Zenon, <2>1 DEF CoreOK, SuperviseOK, ServiceOK, CleanedOK, Busy, Op, Owned
  <2>5. \A p \in Procs : Alone(p)' => OperationOK(p)'
    <3> SUFFICES ASSUME NEW p \in Procs, Alone(p)' PROVE OperationOK(p)'
      OBVIOUS
    <3>1. Alone(p) /\ Op(p)' = Op(p) /\ Fam(p)' = Fam(p) /\ Commands(p)' = Commands(p)
      BY <2>1 DEF Alone, Busy, Op, Fam, Commands
    <3>2. OperationOK(p)
      BY <3>1 DEF CoreOK
    <3>3. MadeOK(p)'
      BY Zenon, <2>1, <3>2, MadeSame DEF OperationOK
    <3>4. Op(p) \in Applies => ApplyOK(p)'
      BY Zenon, <2>1, <3>1, <3>2 DEF OperationOK, ApplyOK, Owned, Ready
    <3>5. Op(p) \in {"hooks_cleanup", "router_cleanup"} => ShareOK(p)'
      BY Zenon, <2>1, <3>1, <3>2 DEF OperationOK, ShareOK, Owned
    <3> QED BY <2>1, <3>1, <3>2, <3>3, <3>4, <3>5 DEF OperationOK, Owned
  <2> QED BY <2>2, <2>3, <2>4, <2>5 DEF CoreOK
<1> QED BY <1>1, <1>2, <1>3, <1>4, <1>5 DEF Next

(* The inductive invariant.                                                  *)
HooksInv == CoreOK /\ (~raced => MarksOK)

(* The invariant holds at first.                                             *)
LEMMA HooksInit == Init => HooksInv
BY CoreInit, MarksInit DEF HooksInv

(* A step of a process while commands have not overlapped.                   *)
LEMMA MarksStep ==
  ASSUME CoreOK, MarksOK, ~raced, NEW p \in Procs, Step(p)
  PROVE  MarksOK'
<1>1. HostOK /\ ProcsOK
  BY SMTT(25) DEF CoreOK
<1>2. ASSUME Busy(p), at[p] # 0 PROVE OperationOK(p)
  <2>1. solo[p] /\ at[p] > 0
    BY <1>1, <1>2, OnlyOne DEF ProcsOK, ProcTypes
  <2> QED BY <1>2, <2>1 DEF CoreOK, Alone
<1>3. ASSUME art' = art, rules' = rules, \A q \in Procs : made'[q] = made[q] \/ made'[q] = <<>>
      PROVE  MarksOK'
  BY <1>1, <1>3, MarksFrame DEF Owned
<1>4. ASSUME NEW ops, Proceed(p, ops), art' = art, rules' = rules
      PROVE  MarksOK'
  <2>1. \A q \in Procs : made'[q] = made[q] \/ made'[q] = <<>>
    BY <1>1, <1>4 DEF Proceed, ProcsOK, ProcTypes
  <2> QED BY <1>3, <1>4, <2>1
<1>5. ASSUME Abort(p), art' = art, rules' = rules PROVE MarksOK'
  BY <1>4, <1>5 DEF Abort
<1>6. CASE Check(p)
  <2>1. art' = art /\ rules' = rules /\ (made' = made \/ Abort(p))
    BY <1>6 DEF Check, host
  <2> QED BY <2>1, <1>3, <1>5
<1>7. CASE Conclude(p)
  <2>1. art' = art /\ rules' = rules /\ (made' = made \/ Proceed(p, Tail(plan[p])))
    BY <1>7 DEF Conclude, host
  <2> QED BY <2>1, <1>3, <1>4
<1>8. CASE Run(p)
  <2>1. Busy(p) /\ at[p] # 0
    BY <1>8, <1>1 DEF Run, Working, ProcsOK, ProcTypes
  <2> QED BY <2>1, <1>1, <1>2, <1>8, MarksRun
<1>9. CASE Fail(p)
  <2>1. Busy(p) /\ at[p] # 0
    BY <1>9, <1>1 DEF Fail, Working, ProcsOK, ProcTypes
  <2> QED BY <2>1, <1>1, <1>2, <1>9, MarksFail
<1>10. CASE Undo(p)
  <2>1. CASE UndoOne(p)
    <3>1. Busy(p) /\ at[p] # 0
      BY <2>1, <1>1 DEF UndoOne, ProcsOK, StageOK
    <3> QED BY <3>1, <2>1, <1>1, <1>2, MarksUndo
  <2>2. CASE Abort(p) /\ UNCHANGED host
    BY <2>2, <1>5 DEF host
  <2> QED BY <1>10, <2>1, <2>2, UndoCases
<1>11. CASE Undone(p)
  BY <1>11, <1>5 DEF Undone, host
<1>12. CASE Return(p)
  BY <1>12, <1>4 DEF Return, host
<1>13. CASE Kill(p)
  BY <1>13, <1>4 DEF Kill, host
<1> QED BY <1>6, <1>7, <1>8, <1>9, <1>10, <1>11, <1>12, <1>13 DEF Step

(* Every step keeps the invariant.                                           *)
LEMMA HooksNext == HooksInv /\ [Next]_vars => HooksInv'
<1> SUFFICES ASSUME HooksInv, [Next]_vars PROVE HooksInv'
  OBVIOUS
<1>1. CoreOK'
  BY CoreNext DEF HooksInv
<1>2. CoreOK /\ HostOK
  BY DEF HooksInv, CoreOK
<1>3. ASSUME ~raced' PROVE MarksOK'
  <2>1. CASE \E p \in Procs : Step(p)
    <3>1. PICK p \in Procs : Step(p)
      BY <2>1
    <3>2. ~raced
      BY Zenon, <3>1, <1>3 DEF Step, Check, Conclude, Run, Fail, Undo, Undone, Return, Kill, Abort, Proceed, history
    <3>3. MarksOK
      BY <3>2 DEF HooksInv
    <3> QED BY <3>1, <3>2, <3>3, <1>2, MarksStep
  <2>2. ASSUME NEW p, NEW ops, Begin(p, ops), UNCHANGED host PROVE MarksOK'
    <3>1. ~raced /\ made' = made /\ art' = art /\ rules' = rules
      BY Zenon, <1>3, <2>2 DEF Begin, host
    <3> QED BY <3>1, <1>2, MarksFrame DEF HooksInv, Owned
  <2>3. CASE \E p \in Operators : Invoke(p) \/ PrepareStop(p)
    BY Zenon, <2>2, <2>3 DEF Invoke, PrepareStop, host
  <2>4. CASE Start \/ Exit
    BY <2>2, <2>4 DEF Start, Exit, host
  <2>5. CASE \E a \in Contested : Interfere(a)
    <3>1. /\ rules' = rules /\ raced' = raced /\ made' = made
          /\ \A b \in Artifacts : Owned(b) => art'[b] = "owned"
      BY <2>5, <1>2, InterfereFacts
    <3> QED BY <3>1, <1>2, <1>3, MarksFrame DEF HooksInv
  <2>6. CASE UNCHANGED vars
    <3>1. rules' = rules /\ raced' = raced /\ made' = made /\ art' = art
      BY <2>6 DEF vars, host, process, history
    <3> QED BY <3>1, <1>2, <1>3, MarksFrame DEF HooksInv, Owned
  <2> QED BY <2>1, <2>3, <2>4, <2>5, <2>6 DEF Next
<1> QED BY <1>1, <1>3 DEF HooksInv

(* The invariant of CaptureHooks holds in every behaviour.                   *)
LEMMA HooksInvariant == Spec => []HooksInv
<1> QED BY HooksInit, HooksNext, PTL DEF Spec

(* Whatever the operators run, and however their commands fail or are        *)
(* killed: as long as no two commands have overlapped, output and router     *)
(* chain only mark packets of a family whose policy rule and route are       *)
(* there.                                                                    *)
THEOREM MarkedIsRoutedHolds == Spec => []MarkedIsRouted
<1>1. HooksInv => MarkedIsRouted
  BY DEF HooksInv, MarksOK, MarkedOK, MarkedIsRouted, Hooks
<1> QED BY <1>1, HooksInvariant, PTL

(* When the supervisor's three cleanups have succeeded and nobody has        *)
(* interleaved them, nothing that dynet owns captures traffic.               *)
THEOREM CleanupIsCompleteHolds == Spec => []CleanupIsComplete
<1>1. HooksInv => CleanupIsComplete
  BY SMTT(20) DEF HooksInv, CoreOK, SuperviseOK, CleanedOK, CleanupIsComplete
<1> QED BY <1>1, HooksInvariant, PTL

(* An apply that has undone everything it made, and that nobody has          *)
(* interleaved, leaves what is not somebody else's as it was.                *)
THEOREM RollbackIsExactHolds == Spec => []RollbackIsExact
<1>1. HooksInv => RollbackIsExact
  <2> SUFFICES ASSUME HooksInv, NEW p \in Procs, Busy(p), rolling[p], made[p] = <<>>, solo[p],
                      NEW a \in Artifacts, ~Foreign(a)
               PROVE  art[a] = before[p][a]
    BY DEF RollbackIsExact
  <2>1. at[p] # 0 /\ at[p] \in Nat /\ Op(p) \in Undoing
    BY DEF HooksInv, CoreOK, ProcsOK, ProcTypes, StageOK
  <2>2. OperationOK(p)
    BY <2>1 DEF HooksInv, CoreOK, Alone
  <2>3. Len(made[p]) = 0
    OBVIOUS
  <2> QED BY SMTT(25), <2>1, <2>2, <2>3 DEF OperationOK, MadeOK
<1> QED BY <1>1, HooksInvariant, PTL

(* What a command that the host carries out does to somebody else's things.  *)
LEMMA RunKeeps ==
  ASSUME HostOK, ProcsOK, NEW p \in Procs, Run(p), NEW a \in Artifacts, Foreign(a)
  PROVE  art'[a] = "foreign" \/ (a \in Chains \cup {"inert"} /\ art'["table"] = "missing")
<1> DEFINE c == Current(p)
<1>1. /\ c \in CommandSet /\ KindOK(c) /\ Possible(c) /\ Perform(c, Fam(p))
  BY CommandOf DEF Run, Working
<1> HIDE DEF c
<1>2. c.do \in Dos /\ c.on \in Artifacts
  BY <1>1 DEF CommandSet
<1>3. CASE c.do \in {"ensure", "chain", "up"}
  <2>1. c.on # a
    BY <1>1, <1>3, Possibilities DEF KindOK, Foreign
  <2>2. PICK new : art' = [art EXCEPT ![c.on] = new]
    BY Zenon, <1>1, <1>3, Effects
  <2> QED BY <2>1, <2>2 DEF HostOK, Foreign
<1>4. CASE c.do = "delete"
  <2>1. Owned(c.on) /\ Remove(Deleted(c.on))
    BY Zenon, <1>1, <1>4, Effects, Possibilities
  <2>2. CASE a \notin Deleted(c.on)
    BY <2>1, <2>2 DEF Remove, Foreign
  <2>3. CASE a \in Deleted(c.on)
    <3>1. a # c.on /\ ~Owned(a)
      BY <2>1 DEF Owned, Foreign
    <3>2. c.on = "table" /\ a \in Chains \cup {"inert"}
      BY <2>3, <3>1 DEF Deleted
    <3>3. "table" \in Deleted("table") /\ "table" \in Artifacts
      BY NamesOfArtifacts DEF Deleted
    <3> QED BY <2>1, <3>2, <3>3 DEF Remove
  <2> QED BY <2>2, <2>3
<1>5. CASE c.do \in {"rules", "share", "load"}
  BY Zenon, <1>1, <1>5, Effects DEF Foreign
<1> QED BY <1>2, <1>3, <1>4, <1>5 DEF Dos

(* No step removes or takes over an artifact of somebody else while commands *)
(* have not overlapped, except the chains that go with dynet's own table.    *)
THEOREM ForeignIsKeptHolds == Spec => ForeignIsKept
<1> DEFINE Kept == ~raced' => \A a \in Artifacts : Foreign(a) =>
                     art'[a] = "foreign" \/ (a \in Chains \cup {"inert"} /\ art'["table"] = "missing")
<1>1. HooksInv /\ [Next]_vars => [Kept]_vars
  <2> SUFFICES ASSUME HooksInv, Next, ~raced', NEW a \in Artifacts, Foreign(a)
               PROVE  art'[a] = "foreign" \/ (a \in Chains \cup {"inert"} /\ art'["table"] = "missing")
    OBVIOUS
  <2>1. HostOK /\ ProcsOK
    BY DEF HooksInv, CoreOK
  <2>2. CASE art' = art
    BY <2>2 DEF Foreign
  <2>3. CASE \E p \in Operators : Invoke(p) \/ PrepareStop(p)
    BY <2>2, <2>3 DEF Invoke, PrepareStop, host
  <2>4. CASE Start \/ Exit
    BY <2>2, <2>4 DEF Start, Exit, host
  <2>5. CASE \E b \in Contested : Interfere(b)
    BY <2>1, <2>5, InterfereFacts
  <2>6. ASSUME NEW p \in Procs, Step(p)
        PROVE  art'[a] = "foreign" \/ (a \in Chains \cup {"inert"} /\ art'["table"] = "missing")
    <3>1. CASE Check(p) \/ Conclude(p) \/ Undone(p) \/ Return(p) \/ Kill(p)
      BY <2>2, <3>1 DEF Check, Conclude, Undone, Return, Kill, host
    <3>2. CASE Run(p)
      BY <2>1, <3>2, RunKeeps
    <3>3. CASE Fail(p)
      BY <2>1, <2>2, <3>3, FailProcs
    <3>4. CASE Undo(p)
      <4>1. CASE UndoOne(p)
        <5> DEFINE n == Len(made[p])
                   b == made[p][n]
        <5>1. /\ Busy(p) /\ Remove({b}) /\ raced' = raced /\ at[p] # 0 /\ n \in 1..n
          BY <4>1, <2>1, UndoProcs DEF UndoOne, history, ProcsOK, ProcTypes, StageOK
        <5>2. Alone(p)
          <6>1. at[p] > 0
            <7>1. at[p] \in Nat
              BY Zenon, <2>1 DEF ProcsOK, ProcTypes
            <7>2. at[p] # 0
              BY Zenon, <5>1
            <7> QED BY <7>1, <7>2
          <6>2. solo[p]
            BY Zenon, <5>1, <2>1 DEF ProcsOK, Apart
          <6>3. Busy(p)
            BY ZenonT(30), <5>1
          <6> QED BY Zenon, <6>1, <6>2, <6>3 DEF Alone
        <5>3. Owned(b)
          BY Zenon, <5>1, <5>2 DEF HooksInv, CoreOK, OperationOK, MadeOK
        <5>4. b # a
          BY Zenon, <5>3 DEF Owned, Foreign
        <5> QED BY SMTT(20), <5>1, <5>4 DEF Remove, Foreign
      <4>2. CASE UNCHANGED host
        BY <2>2, <4>2 DEF host
      <4> QED BY <3>4, <4>1, <4>2, UndoCases
    <3> QED BY <2>6, <3>1, <3>2, <3>3, <3>4 DEF Step
  <2> QED BY <2>3, <2>4, <2>5, <2>6 DEF Next
<1> HIDE DEF Kept
<1>2. [Kept]_vars => [~raced' => \A a \in Artifacts : Foreign(a) =>
         art'[a] = "foreign" \/ (a \in Chains \cup {"inert"} /\ art'["table"] = "missing")]_vars
  BY DEF Kept
<1> QED BY <1>1, <1>2, HooksInvariant, PTL DEF Spec, ForeignIsKept
===============================================================================

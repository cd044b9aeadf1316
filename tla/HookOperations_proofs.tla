------------------------ MODULE HookOperations_proofs ------------------------
(***************************************************************************)
(* The operations of CaptureHooks: an operation that no other process      *)
(* interleaves knows what it has made and what it has removed so far, a    *)
(* marked family keeps its hooks while processes do not overlap, and the   *)
(* supervisor runs its three cleanups in order.                            *)
(***************************************************************************)
EXTENDS HookCommands_proofs

(* A command that runs keeps what is known of its operation.                 *)
LEMMA RunOperation ==
  ASSUME HostOK, ProcsOK, NEW p \in Procs, OperationOK(p), Run(p)
  PROVE  OperationOK(p)'
<1>MadeAdded.
      ASSUME MadeOK(p), made[p] \in Seq(Artifacts), NEW a \in Artifacts, art[a] = "missing",
             art' = [art EXCEPT ![a] = "owned"], made'[p] = Append(made[p], a),
             before' = before, plan' = plan, Op(p) \in Undoing
      PROVE  MadeOK(p)'
  <2> USE <1>MadeAdded
  <2>1. \A b \in Artifacts : art'[b] = IF b = a THEN "owned" ELSE art[b]
    BY DEF HostOK
  <2>2. /\ Len(made'[p]) = Len(made[p]) + 1 /\ made'[p][Len(made[p]) + 1] = a
        /\ \A i \in 1..Len(made[p]) : made'[p][i] = made[p][i] /\ made[p][i] \in Artifacts
        /\ Len(made[p]) \in Nat
    OBVIOUS
  <2>3. \A i \in 1..Len(made[p]) : made[p][i] # a
    BY DEF MadeOK, Owned
  <2>4. before[p][a] = "missing"
    BY <2>3 DEF MadeOK, Foreign
  <2>5. \A i \in 1..Len(made'[p]) : art'[made'[p][i]] = "owned" /\ before[p][made'[p][i]] = "missing"
    BY <2>1, <2>2, <2>4 DEF MadeOK, Owned
  <2>6. \A i, j \in 1..Len(made'[p]) : i # j => made'[p][i] # made'[p][j]
    BY <2>2, <2>3 DEF MadeOK
  <2>7. \A b \in Artifacts : \/ art'[b] = "foreign" \/ art'[b] = before[p][b]
                             \/ \E i \in 1..Len(made'[p]) : made'[p][i] = b
    <3> TAKE b \in Artifacts
    <3>1. CASE b = a
      BY <3>1, <2>2
    <3>2. CASE b # a
      <4>1. art'[b] = art[b]
        BY <2>1, <3>2
      <4>2. \/ art[b] = "foreign" \/ art[b] = before[p][b]
            \/ \E i \in 1..Len(made[p]) : made[p][i] = b
        BY DEF MadeOK, Foreign
      <4> QED BY <4>1, <4>2, <2>2
    <3> QED BY <3>1, <3>2
  <2> QED BY <2>5, <2>6, <2>7 DEF MadeOK, Owned, Foreign
<1>RunApply.
      ASSUME Op(p) \in Applies, ApplyOK(p), MadeOK(p)
      PROVE  ApplyOK(p)' /\ MadeOK(p)'
  <2> USE <1>RunApply
  <2> DEFINE n == Len(Commands(p))
             d == Due(p)
             c == ChainOf(Op(p))
             cs == Commands(p)
             fam == Fam(p)
  <2>0. Busy(p) /\ Working(p) /\ d <= n /\ Possible(Current(p)) /\ Perform(Current(p), fam)
    BY DEF Run, Working
  <2>1. /\ plan' = plan /\ at'[p] = d + 1 /\ rolling' = rolling /\ before' = before /\ ~rolling[p]
        /\ made'[p] = IF Op(p) \in Undoing /\ Current(p).do \in {"ensure", "chain"}
                      THEN Append(made[p], Current(p).on) ELSE made[p]
    BY <2>0, RunProcs DEF Inside, Working
  <2>2. Op(p)' = Op(p) /\ Commands(p)' = Commands(p) /\ Fam(p)' = Fam(p)
    BY <2>1 DEF Op, Commands, Fam
  <2>3. /\ Head(plan[p]) \in Calls /\ cs \in Seq(CommandSet) /\ at[p] \in 1..(n + 1)
        /\ Current(p) \in CommandSet
    BY <2>0, CommandOf
  <2>4. ApplyShape(cs, fam, c)
    BY Zenon, <2>3, ApplyProgram DEF Commands, Op, Fam
  <2>5. /\ d \in at[p]..(n + 1)
        /\ ~Unneeded(Current(p), fam)
        /\ \A j \in at[p]..(d - 1) : j <= n - 2 => Owned(cs[j].on)
        /\ d = n => at[p] = n
    <3>1. \A a \in Routes \cup Rules : art[a] # "down"
      BY NamesOfArtifacts DEF HostOK
    <3> QED BY Zenon, <3>1, <2>0, <2>3, <2>4, ApplyDue
  <2>6. /\ made[p] \in Seq(Artifacts) /\ StageOK(p) /\ c \in Chains /\ n \in Nat /\ at[p] \in Nat
        /\ Current(p) = cs[d]
    BY <2>3, NamesOfArtifacts DEF ProcsOK, ProcTypes, ChainOf, Current
  <2>7. \A j \in 1..(n - 2) : j < d => Owned(cs[j].on)
    <3> TAKE j \in 1..(n - 2)
    <3>1. CASE j < at[p]
      BY <3>1, <2>1 DEF ApplyOK
    <3>2. CASE ~(j < at[p])
      BY <3>2, <2>5, <2>6
    <3> QED BY <3>1, <3>2
  <2>8. ASSUME NEW a \in Artifacts, art[a] = "missing", art' = [art EXCEPT ![a] = "owned"],
               a \in Artifacts,
               made'[p] = IF Op(p) \in Undoing THEN Append(made[p], a) ELSE made[p]
        PROVE  MadeOK(p)'
    <3>1. CASE Op(p) \in Undoing
      BY Zenon, <3>1, <2>1, <2>6, <2>8, <1>MadeAdded
    <3>2. CASE Op(p) \notin Undoing
      BY SMTT(25), <3>2, <2>2, <2>6, <2>8, MadeNothing DEF StageOK
    <3> QED BY <3>1, <3>2
  <2> HIDE DEF n, d, c, cs, fam
  <2>9. CASE d <= n - 2
    <3>1. /\ d \in 1..(n - 2) /\ d + 1 < n
      BY <2>9, <2>3, <2>5, <2>6
    <3>2. Current(p).do = "ensure" /\ Current(p).on \in Routes \cup Rules
      BY <3>1, <2>4, <2>6 DEF ApplyShape, n, cs, d
    <3> DEFINE a == Current(p).on
    <3>3. /\ art[a] = "missing" /\ a # "tun" /\ a # c /\ a \in Artifacts /\ c \in Artifacts
          /\ a \in Routes \cup Rules
      BY <3>2, <2>0, <2>6, Possibilities, NamesOfArtifacts
    <3>4. art' = [art EXCEPT ![a] = "owned"] /\ rules' = rules
      BY Zenon, <3>2, <3>3, <2>0, Effects
    <3>5. made'[p] = IF Op(p) \in Undoing THEN Append(made[p], a) ELSE made[p]
      BY <3>2, <2>1
    <3>6. a = cs[d].on
      BY <2>6
    <3> HIDE DEF a
    <3>7. MadeOK(p)'
      BY Zenon, <3>3, <3>4, <3>5, <2>8
    <3>8. /\ \A b \in Artifacts : Owned(b) => art'[b] = "owned"
          /\ art'[a] = "owned" /\ art'[c] = art[c]
      BY <3>3, <3>4 DEF HostOK, Owned
    <3>9. \A j \in 1..(n - 2) : j < d + 1 => art'[cs[j].on] = "owned"
      <4> TAKE j \in 1..(n - 2)
      <4>1. cs[j].on \in Artifacts
        BY <2>4, NamesOfArtifacts DEF ApplyShape, n, cs
      <4>2. CASE j < d
        BY <4>1, <4>2, <2>7, <3>8
      <4>3. CASE j = d
        BY <4>3, <3>6, <3>8
      <4> QED BY <4>2, <4>3, <3>1
    <3>10. ~Owned(c) \/ Ready(c, fam)
      BY <3>1, <2>1, <2>5, <2>6 DEF ApplyOK, n, c, fam
    <3>11. ~(art'[c] = "owned") \/ (art'[c] = "owned" /\ rules'[c] = [marks |-> fam, whole |-> TRUE])
      BY <3>4, <3>8, <3>10 DEF Owned, Ready
    <3>12. at[p] < n
      BY <3>1, <2>5, <2>6
    <3>13. \A i \in 1..Len(made'[p]) : made'[p][i] \in Routes \cup Rules /\ made'[p][i] # c
      <4>1. \A i \in 1..Len(made[p]) : made[p][i] \in Routes \cup Rules /\ made[p][i] # c
        BY <3>12 DEF ApplyOK, n, c
      <4> QED BY <4>1, <3>3, <3>5, <2>6
    <3> QED
      BY <2>1, <2>2, <3>1, <3>7, <3>9, <3>11, <3>13 DEF ApplyOK, Owned, Ready, n, c, cs, d, fam
  <2>10. CASE d = n - 1
    <3>1. Current(p).do = "chain" /\ Current(p).on = c
      BY <2>10, <2>4, <2>6 DEF ApplyShape, Command, n, cs, d
    <3>2. ~Ready(c, fam)
      BY <3>1, <2>5, Statuses
    <3>3. ~Owned(c)
      BY <3>2, <2>10, <2>1, <2>5, <2>6 DEF ApplyOK, n, c, fam, d
    <3>4. art[c] = "missing" /\ c \in Artifacts
      BY <3>1, <3>3, <2>0, <2>6, Possibilities, NamesOfArtifacts
         DEF HostOK, Owned, Foreign, States
    <3>5. art' = [art EXCEPT ![c] = "owned"] /\ rules' = rules
      BY Zenon, <3>1, <2>0, Effects
    <3>6. made'[p] = IF Op(p) \in Undoing THEN Append(made[p], c) ELSE made[p]
      BY <3>1, <2>1
    <3>7. MadeOK(p)'
      BY Zenon, <3>4, <3>5, <3>6, <2>8
    <3>8. /\ \A b \in Artifacts : Owned(b) => art'[b] = "owned"
          /\ art'[c] = "owned"
      BY <3>4, <3>5 DEF HostOK, Owned
    <3>9. \A j \in 1..(n - 2) : art'[cs[j].on] = "owned"
      <4> TAKE j \in 1..(n - 2)
      <4>1. cs[j].on \in Artifacts
        BY <2>4, NamesOfArtifacts DEF ApplyShape, n, cs
      <4> QED BY <4>1, <2>6, <2>7, <2>10, <3>8
    <3>10. Op(p) \in Undoing => made'[p] # <<>> /\ Newest(made'[p]) = c
      BY <3>6, <2>6 DEF Newest
    <3>11. \A i \in 1..Len(made'[p]) : made'[p][i] \in Routes \cup Rules \cup {c}
      <4>1. \A i \in 1..Len(made[p]) : made[p][i] \in Routes \cup Rules \cup {c}
        BY DEF ApplyOK, c
      <4> QED BY <4>1, <3>6, <2>6
    <3>12. at'[p] = n /\ ~(at'[p] < n)
      BY <2>1, <2>6, <2>10
    <3> QED
      BY ZenonT(30), <2>1, <2>2, <3>7, <3>8, <3>9, <3>10, <3>11, <3>12 DEF ApplyOK, Owned, n, c, cs
  <2>11. CASE d = n
    <3>1. Current(p).do = "rules"
      BY <2>11, <2>4, <2>6 DEF ApplyShape, Command, n, cs, d
    <3>2. art' = art /\ made'[p] = made[p] /\ at'[p] = n + 1
      BY Zenon, <3>1, <2>0, <2>1, <2>11, Effects
    <3>3. MadeOK(p)'
      BY Zenon, <3>2, <2>1, MadeSame
    <3>4. \A j \in 1..(n - 2) : Owned(cs[j].on)
      BY <2>6, <2>7, <2>11
    <3>5. \A i \in 1..Len(made[p]) : made[p][i] \in Routes \cup Rules \cup {c}
      BY DEF ApplyOK, c
    <3>6. ~(at'[p] < n) /\ at'[p] # n
      BY <3>2, <2>6
    <3> QED BY Zenon, <2>1, <2>2, <3>2, <3>3, <3>4, <3>5, <3>6 DEF ApplyOK, Owned, n, c, cs
  <2>12. d \in Nat /\ d <= n
    BY <2>0, <2>3, <2>5 DEF n, d
  <2> QED BY <2>6, <2>9, <2>10, <2>11, <2>12
<1>0. Busy(p) /\ plan' = plan
      /\ made'[p] = IF Op(p) \in Undoing /\ Current(p).do \in {"ensure", "chain"}
                    THEN Append(made[p], Current(p).on) ELSE made[p]
  BY Zenon, RunProcs DEF Inside, Run, Working
<1>1. Op(p)' = Op(p)
  BY <1>0 DEF Op
<1>2. Op(p) \in Applies => ApplyOK(p)' /\ MadeOK(p)'
  BY <1>RunApply DEF OperationOK
<1>3. Op(p) \notin Applies => MadeOK(p)'
  <2> SUFFICES ASSUME Op(p) \notin Applies PROVE MadeOK(p)'
    OBVIOUS
  <2>1. Op(p) \notin Undoing
    BY DEF Undoing, Applies
  <2>2. made[p] = <<>>
    BY <2>1 DEF ProcsOK, StageOK
  <2> QED BY Zenon, <2>1, <2>2, <1>0, <1>1, MadeNothing
<1>4. Op(p) \in {"hooks_cleanup", "router_cleanup"} => ShareOK(p)'
  BY Zenon, RunShare DEF OperationOK
<1>5. Op(p) = "cleanup" => art'["table"] # "owned"
  BY Zenon, RunCleanup DEF OperationOK
<1>6. Op(p) = "mapping_cleanup" => art'["mapping"] # "owned"
  BY RunMappingCleanup
<1> QED BY <1>1, <1>2, <1>3, <1>4, <1>5, <1>6 DEF OperationOK, Owned

(* A failing command inside an apply that undoes.                            *)
LEMMA FailOperation ==
  ASSUME HostOK, ProcsOK, NEW p \in Procs, OperationOK(p), art' = art, plan' = plan,
         at' = at, made' = made, before' = before, rolling'[p], Op(p) \in Undoing
  PROVE  OperationOK(p)'
<1>1. Op(p)' = Op(p) /\ Commands(p)' = Commands(p)
  BY DEF Op, Commands
<1>2. MadeOK(p)'
  BY MadeSame DEF OperationOK
<1>3. ApplyOK(p)'
  <2>1. Op(p) \in Applies
    BY DEF Applies, Undoing
  <2> QED BY Zenon, <1>1, <2>1 DEF ApplyOK, OperationOK
<1>4. Op(p) \notin {"hooks_cleanup", "router_cleanup", "cleanup", "mapping_cleanup"}
  BY DEF Undoing
<1> QED BY Zenon, <1>1, <1>2, <1>3, <1>4 DEF OperationOK

(* An undo keeps what is known of its operation.                             *)
LEMMA UndoOperation ==
  ASSUME HostOK, ProcsOK, NEW p \in Procs, OperationOK(p), UndoOne(p)
  PROVE  OperationOK(p)'
<1>MadeUndone.
      ASSUME MadeOK(p)
      PROVE  MadeOK(p)'
  <2> USE <1>MadeUndone
  <2> DEFINE a == made[p][Len(made[p])]
             n == Len(made[p])
  <2>1. /\ n > 0 /\ Len(made'[p]) = n - 1 /\ before' = before /\ plan' = plan
        /\ \A i \in 1..(n - 1) : made'[p][i] = made[p][i]
    BY UndoProcs DEF Inside
  <2>2. made[p] \in Seq(Artifacts) /\ n \in Nat /\ a \in Artifacts
    BY <2>1 DEF ProcsOK, ProcTypes
  <2>3. \A b \in Artifacts : art'[b] = IF b = a THEN "missing" ELSE art[b]
    BY DEF UndoOne, Remove
  <2>4. before[p][a] = "missing"
    BY <2>1, <2>2 DEF MadeOK
  <2>5. \A i \in 1..(n - 1) : made[p][i] \in Artifacts /\ made[p][i] # a /\ i \in 1..n
    BY <2>1, <2>2 DEF MadeOK
  <2> HIDE DEF a, n
  <2>6. \A i \in 1..(n - 1) : art'[made'[p][i]] = "owned" /\ before[p][made'[p][i]] = "missing"
    <3> TAKE i \in 1..(n - 1)
    <3>1. art[made[p][i]] = "owned" /\ before[p][made[p][i]] = "missing"
      BY SMTT(25), <2>5 DEF MadeOK, Owned, n
    <3> QED BY <3>1, <2>1, <2>3, <2>5
  <2>7. \A i, j \in 1..(n - 1) : i # j => made'[p][i] # made'[p][j]
    BY Zenon, <2>1, <2>5 DEF MadeOK, n
  <2>8. ASSUME Op(p) \in Undoing, NEW b \in Artifacts
        PROVE  \/ art'[b] = "foreign" \/ art'[b] = before[p][b]
               \/ \E i \in 1..(n - 1) : made'[p][i] = b
    <3>1. CASE b = a
      BY <3>1, <2>3, <2>4
    <3>2. CASE b # a
      <4>1. art'[b] = art[b]
        BY <2>3, <3>2
      <4>2. \/ art[b] = "foreign" \/ art[b] = before[p][b]
            \/ \E i \in 1..n : made[p][i] = b
        BY <2>8 DEF MadeOK, Foreign, n
      <4>3. \A i \in 1..n : made[p][i] = b => i \in 1..(n - 1)
        BY <2>1, <2>2, <3>2 DEF a, n
      <4> QED BY <4>1, <4>2, <4>3, <2>1
    <3> QED BY <3>1, <3>2
  <2>9. Op(p)' = Op(p)
    BY <2>1 DEF Op
  <2> QED BY <2>1, <2>6, <2>7, <2>8, <2>9 DEF MadeOK, Owned, Foreign
<1>1. /\ plan' = plan /\ at' = at /\ rolling' = rolling
      /\ Len(made[p]) > 0 /\ Len(made'[p]) = Len(made[p]) - 1
      /\ \A i \in 1..(Len(made[p]) - 1) : made'[p][i] = made[p][i]
  BY UndoProcs DEF Inside
<1>2. rolling'[p] /\ made[p] # <<>> /\ Len(made[p]) \in Nat
  BY <1>1 DEF UndoOne, ProcsOK, ProcTypes
<1>3. Op(p)' = Op(p) /\ Commands(p)' = Commands(p)
  BY <1>1 DEF Op, Commands
<1>4. MadeOK(p)'
  BY <1>MadeUndone DEF OperationOK
<1>5. Op(p) \in Undoing
  BY <1>2 DEF ProcsOK, StageOK
<1>6. ApplyOK(p)
  BY <1>5 DEF OperationOK, Applies, Undoing
<1>7. ApplyOK(p)'
  <2>1. \A i \in 1..Len(made'[p]) : i \in 1..Len(made[p]) /\ made'[p][i] = made[p][i]
    BY <1>1, <1>2
  <2> QED BY Zenon, <1>1, <1>2, <1>3, <1>6, <2>1 DEF ApplyOK
<1>8. Op(p) \notin {"hooks_cleanup", "router_cleanup", "cleanup", "mapping_cleanup"}
  BY <1>5 DEF Undoing
<1> QED BY Zenon, <1>3, <1>4, <1>7, <1>8 DEF OperationOK

(* Marks.  While commands have not overlapped, a chain that marks is dynet's *)
(* and the hooks of the families that it marks are there; an apply that      *)
(* would undo one of these hooks undoes the chain first.                     *)
Hooks(f) == {Route(f), Rule(f)}

MarkedOK ==
  \A c \in Marking : /\ rules[c].marks # {} => Owned(c)
                     /\ \A f \in rules[c].marks : \A h \in Hooks(f) : Owned(h)

MadeLast ==
  \A p \in Procs : \A i \in 1..Len(made[p]) : \A c \in Marking : \A f \in rules[c].marks :
    made[p][i] \in Hooks(f) => Newest(made[p]) = c

MarksOK == MarkedOK /\ MadeLast

(* The hooks of a family are routes and rules, and no chain is one.          *)
LEMMA HooksOf ==
  /\ \A f \in Families : Hooks(f) \subseteq Routes \cup Rules
  /\ Routes \cup Rules \subseteq Artifacts /\ Chains \subseteq Artifacts /\ Marking \subseteq Chains
  /\ (Routes \cup Rules) \cap Chains = {}
<1>1. \A f \in Families : Hooks(f) \subseteq Routes \cup Rules
  BY DEF Hooks, Routes, Rules
<1>2. Marking \subseteq Chains
  BY DEF Chains
<1> QED BY <1>1, <1>2, NamesOfArtifacts

(* Marks are sets of families.                                               *)
LEMMA MarkTypes ==
  ASSUME HostOK
  PROVE  \A c \in Marking : rules[c].marks \subseteq Families
BY HooksOf DEF HostOK

(* Nothing is marked at first.                                               *)
LEMMA MarksInit == Init => MarksOK
BY HooksOf DEF Init, MarksOK, MarkedOK, MadeLast, NoRules

(* Steps that neither write rules nor remove anything of dynet.              *)
LEMMA MarksFrame ==
  ASSUME HostOK, MarksOK, rules' = rules, \A a \in Artifacts : Owned(a) => art'[a] = "owned",
         \A q \in Procs : made'[q] = made[q] \/ made'[q] = <<>>
  PROVE  MarksOK'
<1>1. MarkedOK'
  <2>1. \A c \in Marking : c \in Artifacts /\ \A f \in rules[c].marks : Hooks(f) \subseteq Artifacts
    BY HooksOf, MarkTypes
  <2> QED BY <2>1 DEF MarksOK, MarkedOK, Owned
<1>2. MadeLast'
  <2> SUFFICES ASSUME NEW p \in Procs, NEW i \in 1..Len(made'[p]), NEW c \in Marking,
                      NEW f \in rules[c].marks, made'[p][i] \in Hooks(f)
               PROVE  Newest(made'[p]) = c
    BY DEF MadeLast, Newest
  <2>1. made'[p] # <<>>
    BY Len(<<>>) = 0
  <2>2. made'[p] = made[p]
    BY <2>1
  <2> QED BY <2>2 DEF MarksOK, MadeLast
<1> QED BY <1>1, <1>2 DEF MarksOK

(* Only the process that runs has made anything.                             *)
LEMMA OnlyOne ==
  ASSUME ProcsOK, NEW p \in Procs, Busy(p), ~raced
  PROVE  solo[p] /\ \A q \in Procs \ {p} : made[q] = <<>>
<1>1. solo[p] /\ \A q \in Procs \ {p} : ~Busy(q)
  BY DEF ProcsOK, Apart
<1> QED BY <1>1 DEF ProcsOK, StageOK

(* Rules are written last: the hooks of every family they mark are there.    *)
LEMMA MarksWritten ==
  ASSUME HostOK, ProcsOK, MarksOK, NEW p \in Procs, Working(p), OperationOK(p), ~raced,
         Due(p) <= Len(Commands(p)), Current(p).do = "rules",
         NEW new, new.marks \subseteq rules[Current(p).on].marks \cup Fam(p),
         rules' = [rules EXCEPT ![Current(p).on] = new], art' = art,
         \A q \in Procs : made'[q] = made[q] \/ made'[q] = <<>>
  PROVE  MarksOK'
<1>WritesRules.
      LET c == Current(p).on
      IN  /\ c \in Chains /\ Owned(c)
          /\ made[p] # <<>> => Newest(made[p]) = c
          /\ c \in Marking => \A f \in Fam(p) : \A h \in Hooks(f) : Owned(h)
  <2> DEFINE n == Len(Commands(p))
             d == Due(p)
             c == ChainOf(Op(p))
             cs == Commands(p)
             fam == Fam(p)
  <2>1. /\ Busy(p) /\ ~rolling[p] /\ Head(plan[p]) \in Calls /\ Op(p) \in Operations
        /\ cs \in Seq(CommandSet) /\ at[p] \in 1..(n + 1) /\ d \in at[p]..(n + 1) /\ n \in Nat
        /\ Current(p) = cs[d]
    BY CommandOf DEF Working, Current
  <2>2. Op(p) \in Applies
    <3>1. CASE Op(p) \in {"hooks_cleanup", "router_cleanup"}
      <4>1. ShareShape(cs, c, OtherOf(Op(p)))
        BY Zenon, <2>1, <3>1, ShareProgram DEF Commands, Op
      <4> HIDE DEF cs, c
      <4>2. \A j \in 1..7 : cs[j].do # "rules"
        BY <4>1 DEF ShareShape, Command
      <4>3. d \in 1..7
        BY SMTT(25), <4>1, <2>1 DEF ShareShape, cs
      <4> QED BY SMTT(25), <4>2, <4>3, <2>1
    <3>2. CASE Op(p) = "apply"
      <4>1. Len(cs) = 7 /\ \A i \in 1..7 : cs[i].do \in {"ensure", "up", "load"}
        BY Zenon, <2>1, <3>2, OtherPrograms DEF Commands, Op
      <4> HIDE DEF cs
      <4> QED BY SMTT(25), <4>1, <2>1 DEF cs
    <3>3. CASE Op(p) = "cleanup"
      <4>1. Len(cs) = 4 /\ \A i \in 1..4 : cs[i].do = "delete"
        BY Zenon, <2>1, <3>3, OtherPrograms DEF Commands, Op
      <4> QED BY <4>1, <2>1
    <3>4. CASE Op(p) = "mapping_cleanup"
      <4>1. Len(cs) = 1 /\ cs[1] = Command("delete", "mapping")
        BY Zenon, <2>1, <3>4, OtherPrograms DEF Commands, Op
      <4>2. d = 1
        BY <4>1, <2>1
      <4> QED BY <4>1, <4>2, <2>1 DEF Command
    <3>5. CASE Op(p) \in {"stop", "spawn", "report"}
      <4>1. cs = <<>>
        BY Zenon, <2>1, <3>5, OtherPrograms DEF Commands, Op
      <4>2. n = 0
        BY <4>1
      <4> QED BY <4>2, <2>1
    <3> QED BY <2>1, <3>1, <3>2, <3>3, <3>4, <3>5 DEF Operations, Cleanups
  <2>3. ApplyShape(cs, fam, c)
    BY Zenon, <2>1, <2>2, ApplyProgram DEF Commands, Op, Fam
  <2>4. d = n => at[p] = n
    <3>1. \A a \in Routes \cup Rules : art[a] # "down"
      BY NamesOfArtifacts DEF HostOK
    <3> QED BY Zenon, <3>1, <2>1, <2>3, ApplyDue
  <2>5. ApplyOK(p)
    BY <2>2 DEF OperationOK
  <2>6. c \in Chains /\ (made[p] # <<>> => Op(p) \in Undoing)
    BY SMTT(25), NamesOfArtifacts DEF ChainOf, ProcsOK, StageOK
  <2> HIDE DEF n, d, c, cs, fam
  <2>7. d = n /\ Current(p).on = c
    <3>1. n >= 2
      <4>1. Len(Commands(p)) \in 2..6
        BY Zenon, <2>3 DEF ApplyShape, cs
      <4> QED BY SMTT(25), <4>1 DEF n
    <3>2. d \in 1..n
      BY <2>1 DEF n, d
    <3>3. \A j \in 1..(n - 1) : cs[j].do # "rules"
      BY <2>3 DEF ApplyShape, Command, n, cs
    <3>4. d = n
      BY <3>1, <3>2, <3>3, <2>1
    <3> QED BY <3>4, <2>1, <2>3 DEF ApplyShape, Command, n, cs
  <2>8. Owned(c) /\ (made[p] # <<>> => Newest(made[p]) = c)
    BY ZenonT(30), <2>1, <2>4, <2>5, <2>6, <2>7 DEF ApplyOK, n, c
  <2>9. \A j \in 1..(n - 2) : Owned(cs[j].on)
    <3>1. \A j \in 1..(n - 2) : j < at[p] => Owned(cs[j].on)
      BY Zenon, <2>1, <2>5 DEF ApplyOK, n, cs
    <3> QED BY <3>1, <2>1, <2>4, <2>7
  <2>10. c \in Marking => \A f \in fam : \A h \in Hooks(f) : Owned(h)
    BY <2>3, <2>9 DEF ApplyShape, Hooks, n, cs
  <2> QED BY SMTT(25), <2>6, <2>7, <2>8, <2>10 DEF fam
<1> DEFINE k == Current(p).on
<1>1. /\ k \in Chains /\ Owned(k)
      /\ made[p] # <<>> => Newest(made[p]) = k
      /\ k \in Marking => \A f \in Fam(p) : \A h \in Hooks(f) : Owned(h)
  BY Zenon, <1>WritesRules
<1>2. \A c \in Chains : rules'[c] = IF c = k THEN new ELSE rules[c]
  BY <1>1 DEF HostOK
<1>3. \A q \in Procs \ {p} : made[q] = <<>>
  BY Zenon, OnlyOne DEF Working
<1>4. new.marks \subseteq rules[k].marks \cup Fam(p)
  OBVIOUS
<1> HIDE DEF k
<1>5. MarkedOK'
  <2> SUFFICES ASSUME NEW c \in Marking
               PROVE  /\ rules'[c].marks # {} => Owned(c)
                      /\ \A f \in rules'[c].marks : \A h \in Hooks(f) : Owned(h)
    BY DEF MarkedOK, Owned
  <2>1. c \in Chains
    BY HooksOf
  <2>2. CASE c # k
    BY <2>1, <2>2, <1>2 DEF MarksOK, MarkedOK
  <2>3. CASE c = k
    <3>1. \A f \in rules[k].marks : \A h \in Hooks(f) : Owned(h)
      BY <2>3 DEF MarksOK, MarkedOK
    <3>2. \A f \in Fam(p) : \A h \in Hooks(f) : Owned(h)
      BY <2>3, <1>1
    <3>3. rules'[c] = new
      BY <2>1, <2>3, <1>2
    <3>4. \A f \in rules'[c].marks : \A h \in Hooks(f) : Owned(h)
      BY Zenon, <3>1, <3>2, <3>3, <1>4
    <3> QED BY <3>4, <2>3, <1>1
  <2> QED BY <2>2, <2>3
<1>6. MadeLast'
  <2> SUFFICES ASSUME NEW q \in Procs, NEW i \in 1..Len(made'[q]), NEW c \in Marking,
                      NEW f \in rules'[c].marks, made'[q][i] \in Hooks(f)
               PROVE  Newest(made'[q]) = c
    BY DEF MadeLast, Newest
  <2>1. made'[q] # <<>>
    BY Len(<<>>) = 0
  <2>2. made'[q] = made[q] /\ q = p
    BY <2>1, <1>3
  <2>3. Newest(made[p]) = k
    BY <2>1, <2>2, <1>1
  <2>4. c \in Chains
    BY HooksOf
  <2>5. CASE c # k
    BY <2>2, <2>4, <2>5, <1>2 DEF MarksOK, MadeLast
  <2>6. CASE c = k
    BY <2>2, <2>3, <2>6
  <2> QED BY <2>5, <2>6
<1> QED BY <1>5, <1>6 DEF MarksOK

(* A command that runs keeps marked families routed.                         *)
LEMMA MarksRun ==
  ASSUME HostOK, ProcsOK, MarksOK, NEW p \in Procs, ~raced, OperationOK(p), Run(p)
  PROVE  MarksOK'
<1>MarksApply.
      ASSUME Op(p) \in Applies
      PROVE  MarksOK'
  <2> USE <1>MarksApply
  <2>MarksCreated.
        ASSUME Busy(p), NEW a \in Routes \cup Rules \cup Chains, art[a] = "missing",
               art' = [art EXCEPT ![a] = "owned"], rules' = rules,
               \A i \in 1..Len(made[p]) : made[p][i] \in Routes \cup Rules,
               made'[p] = made[p] \/ made'[p] = Append(made[p], a),
               \A q \in Procs \ {p} : made'[q] = made[q]
        PROVE  MarksOK'
    <3> USE <2>MarksCreated
    <3>1. a \in Artifacts /\ \A b \in Artifacts : Owned(b) => art'[b] = "owned"
      BY HooksOf DEF HostOK, Owned
    <3>2. MarkedOK'
      <4>1. \A c \in Marking : c \in Artifacts /\ \A f \in rules[c].marks : Hooks(f) \subseteq Artifacts
        BY HooksOf, MarkTypes
      <4> QED BY <3>1, <4>1 DEF MarksOK, MarkedOK, Owned
    <3>3. made[p] \in Seq(Artifacts) /\ \A q \in Procs \ {p} : made[q] = <<>>
      BY Zenon, OnlyOne DEF ProcsOK, ProcTypes
    <3>4. \A i \in 1..Len(made[p]) : \A c \in Marking : \A f \in rules[c].marks : made[p][i] \notin Hooks(f)
      <4> SUFFICES ASSUME NEW i \in 1..Len(made[p]), NEW c \in Marking, NEW f \in rules[c].marks,
                          made[p][i] \in Hooks(f)
                   PROVE  FALSE
        OBVIOUS
      <4>1. Newest(made[p]) = c
        BY DEF MarksOK, MadeLast
      <4>2. Newest(made[p]) \in Routes \cup Rules
        BY <3>3 DEF Newest
      <4> QED BY <4>1, <4>2, HooksOf
    <3>5. \A c \in Marking : \A f \in rules[c].marks : a \notin Hooks(f)
      BY DEF MarksOK, MarkedOK, Owned
    <3>6. \A i \in 1..Len(made'[p]) : made'[p][i] = a \/ \E j \in 1..Len(made[p]) : made'[p][i] = made[p][j]
      <4>1. CASE made'[p] = made[p]
        BY <4>1
      <4>2. CASE made'[p] = Append(made[p], a)
        <5>1. \A s \in Seq(Artifacts) : \A i \in 1..Len(Append(s, a)) :
                Append(s, a)[i] = a \/ \E j \in 1..Len(s) : Append(s, a)[i] = s[j]
          BY <3>1
        <5>2. \A i \in 1..Len(Append(made[p], a)) :
                Append(made[p], a)[i] = a \/ \E j \in 1..Len(made[p]) : Append(made[p], a)[i] = made[p][j]
          BY Zenon, <5>1, <3>3
        <5> QED BY Zenon, <5>2, <4>2
      <4> QED BY <4>1, <4>2
    <3>7. MadeLast'
      <4> SUFFICES ASSUME NEW q \in Procs, NEW i \in 1..Len(made'[q]), NEW c \in Marking,
                          NEW f \in rules[c].marks, made'[q][i] \in Hooks(f)
                   PROVE  FALSE
        BY DEF MadeLast
      <4>1. CASE q = p
        BY <4>1, <3>4, <3>5, <3>6
      <4>2. CASE q # p
        <5>1. made'[q] = <<>>
          BY <4>2, <3>3
        <5> QED BY <5>1
      <4> QED BY <4>1, <4>2
    <3> QED BY <3>2, <3>7 DEF MarksOK
  <2> DEFINE n == Len(Commands(p))
             d == Due(p)
             c == ChainOf(Op(p))
             cs == Commands(p)
             fam == Fam(p)
  <2>0. Busy(p) /\ Working(p) /\ ~rolling[p] /\ d <= n /\ Possible(Current(p)) /\ Perform(Current(p), fam)
    BY DEF Run, Working
  <2>1. /\ made'[p] = IF Op(p) \in Undoing /\ Current(p).do \in {"ensure", "chain"}
                      THEN Append(made[p], Current(p).on) ELSE made[p]
        /\ \A q \in Procs \ {p} : made'[q] = made[q]
    BY ZenonT(30), RunProcs DEF Inside
  <2>2. /\ Head(plan[p]) \in Calls /\ cs \in Seq(CommandSet) /\ at[p] \in 1..(n + 1) /\ n \in Nat
        /\ d \in at[p]..(n + 1) /\ Current(p) = cs[d] /\ KindOK(Current(p))
    BY <2>0, CommandOf DEF Current
  <2>3. ApplyShape(cs, fam, c)
    BY Zenon, <2>2, ApplyProgram DEF Commands, Op, Fam
  <2>4. ApplyOK(p)
    BY DEF OperationOK
  <2>5. ~Unneeded(Current(p), fam)
    <3>1. \A a \in Routes \cup Rules : art[a] # "down"
      BY NamesOfArtifacts DEF HostOK
    <3> QED BY Zenon, <3>1, <2>0, <2>2, <2>3, ApplyDue
  <2>6. c \in Chains /\ c \in Artifacts
    BY NamesOfArtifacts DEF ChainOf
  <2> HIDE DEF n, d, c, cs, fam
  <2>7. n >= 2 /\ d \in 1..n
    <3>1. Len(Commands(p)) \in 2..6
      BY Zenon, <2>3 DEF ApplyShape, cs
    <3>2. n >= 2
      BY SMTT(25), <3>1 DEF n
    <3> QED BY <3>2, <2>0, <2>2
  <2>8. d < n => \A i \in 1..Len(made[p]) : made[p][i] \in Routes \cup Rules
    <3>1. /\ \A i \in 1..Len(made[p]) : made[p][i] \in Routes \cup Rules \cup {c}
          /\ at[p] < n => \A i \in 1..Len(made[p]) : made[p][i] # c
      BY Zenon, <2>4 DEF ApplyOK, n, c
    <3>2. d < n => at[p] < n
      BY <2>2
    <3> QED BY <3>1, <3>2
  <2>9. CASE d <= n - 2
    <3>1. Current(p).do = "ensure" /\ Current(p).on \in Routes \cup Rules
      BY <2>9, <2>7, <2>2, <2>3 DEF ApplyShape, n, cs
    <3>2. art[Current(p).on] = "missing" /\ Current(p).on # "tun"
      BY <3>1, <2>0, Possibilities, NamesOfArtifacts
    <3>3. art' = [art EXCEPT ![Current(p).on] = "owned"] /\ rules' = rules
      BY Zenon, <3>1, <3>2, <2>0, Effects
    <3>4. /\ Current(p).on \in Routes \cup Rules \cup Chains
          /\ \A i \in 1..Len(made[p]) : made[p][i] \in Routes \cup Rules
      BY <3>1, <2>2, <2>7, <2>8, <2>9
    <3>5. made'[p] = made[p] \/ made'[p] = Append(made[p], Current(p).on)
      BY <2>1
    <3> QED BY ZenonT(30), <3>2, <3>3, <3>4, <3>5, <2>0, <2>1, <2>MarksCreated
  <2>10. CASE d = n - 1
    <3>1. Current(p).do = "chain" /\ Current(p).on = c
      BY <2>10, <2>2, <2>3 DEF ApplyShape, Command, n, cs
    <3>2. ~Ready(c, fam)
      BY <3>1, <2>5, Statuses
    <3>3. ~Owned(c)
      <4>1. at[p] < n
        BY <2>2, <2>10
      <4> QED BY Zenon, <4>1, <3>2, <2>0, <2>4 DEF ApplyOK, n, c, fam
    <3>4. art[c] = "missing"
      BY <3>1, <3>3, <2>0, <2>6, Possibilities, NamesOfArtifacts
         DEF HostOK, Owned, Foreign, States
    <3>5. art' = [art EXCEPT ![c] = "owned"] /\ rules' = rules
      BY Zenon, <3>1, <2>0, Effects
    <3>6. /\ c \in Routes \cup Rules \cup Chains
          /\ \A i \in 1..Len(made[p]) : made[p][i] \in Routes \cup Rules
      BY <2>2, <2>6, <2>7, <2>8, <2>10
    <3>7. made'[p] = made[p] \/ made'[p] = Append(made[p], c)
      BY <3>1, <2>1
    <3> QED BY Zenon, <3>4, <3>5, <3>6, <3>7, <2>0, <2>1, <2>MarksCreated
  <2>11. CASE d = n
    <3>1. Current(p).do = "rules" /\ Current(p).on \in Chains
      BY <2>11, <2>2, <2>3, <2>6 DEF ApplyShape, Command, n, cs
    <3> DEFINE k == Current(p).on
               new == [marks |-> rules[k].marks \cup fam, whole |-> rules[k] = NoRules]
    <3>2. rules' = [rules EXCEPT ![k] = new] /\ art' = art
      BY Zenon, <3>1, <2>0, Effects
    <3>3. new.marks \subseteq rules[k].marks \cup Fam(p)
      BY DEF fam
    <3>4. \A q \in Procs : made'[q] = made[q] \/ made'[q] = <<>>
      BY <3>1, <2>1
    <3> HIDE DEF new
    <3> QED BY ZenonT(30), <3>1, <3>2, <3>3, <3>4, <2>0, MarksWritten DEF n, d
  <2> QED BY <2>2, <2>7, <2>9, <2>10, <2>11
<1>MarksRemoved.
      ASSUME NEW as, Remove(as),
             \A c \in Marking : c \in as \/ rules[c].marks = {} \/ as \cap (Routes \cup Rules) = {},
             \A q \in Procs : made'[q] = <<>>
      PROVE  MarksOK'
  <2> USE <1>MarksRemoved
  <2>1. /\ \A a \in Artifacts : art'[a] = "owned" <=> Owned(a) /\ a \notin as
        /\ \A c \in Chains : c \notin as => rules'[c] = rules[c]
        /\ \A c \in Chains : c \in as => rules'[c] = NoRules
    BY Zenon, RemovedOnly
  <2>2. MarkedOK'
    <3> SUFFICES ASSUME NEW c \in Marking
                 PROVE  /\ rules'[c].marks # {} => art'[c] = "owned"
                        /\ \A f \in rules'[c].marks : \A h \in Hooks(f) : art'[h] = "owned"
      BY DEF MarkedOK, Owned
    <3>1. c \in Chains /\ c \in Artifacts /\ rules[c].marks \subseteq Families
      BY HooksOf, MarkTypes
    <3>2. CASE rules'[c].marks = {}
      BY <3>2
    <3>3. CASE rules'[c].marks # {}
      <4>1. c \notin as
        <5>1. NoRules.marks = {}
          BY DEF NoRules
        <5> QED BY Zenon, <5>1, <3>1, <3>3, <2>1
      <4>2. rules'[c] = rules[c] /\ as \cap (Routes \cup Rules) = {}
        BY Zenon, <4>1, <3>1, <3>3, <2>1
      <4>3. Owned(c) /\ \A f \in rules[c].marks : \A h \in Hooks(f) : Owned(h)
        BY <4>2, <3>3 DEF MarksOK, MarkedOK
      <4>4. \A f \in rules[c].marks : \A h \in Hooks(f) : h \in Artifacts /\ h \notin as
        <5> SUFFICES ASSUME NEW f \in rules[c].marks, NEW h \in Hooks(f)
                     PROVE  h \in Artifacts /\ h \notin as
          BY Zenon
        <5>1. h \in Routes \cup Rules
          BY <3>1, HooksOf
        <5> QED BY Zenon, <5>1, <4>2, HooksOf
      <4> QED BY Zenon, <4>1, <4>2, <4>3, <4>4, <3>1, <2>1
    <3> QED BY <3>2, <3>3
  <2>3. MadeLast'
    BY Len(<<>>) = 0 DEF MadeLast
  <2> QED BY <2>2, <2>3 DEF MarksOK
<1>0. Busy(p) /\ Working(p) /\ Due(p) <= Len(Commands(p))
  BY DEF Run, Working
<1>1. /\ Head(plan[p]) \in Calls /\ Op(p) \in Operations /\ at[p] >= 1 /\ at[p] <= Due(p)
  BY <1>0, CommandOf
<1>2. Op(p) \notin Applies => \A q \in Procs : made'[q] = <<>>
  <2> SUFFICES ASSUME Op(p) \notin Applies, NEW q \in Procs PROVE made'[q] = <<>>
    OBVIOUS
  <2>1. Op(p) \notin Undoing
    BY DEF Applies, Undoing
  <2>2. made[p] = <<>> /\ made'[p] = made[p] /\ \A r \in Procs \ {p} : made'[r] = made[r]
    BY Zenon, <2>1, RunProcs DEF ProcsOK, StageOK, Inside
  <2>3. \A r \in Procs \ {p} : made[r] = <<>>
    BY <1>0, OnlyOne
  <2> QED BY <2>2, <2>3
<1>3. CASE Op(p) \in Applies
  BY <1>3, <1>MarksApply
<1>4. CASE Op(p) \in {"hooks_cleanup", "router_cleanup"}
  <2>1. /\ Remove({Current(p).on})
        /\ Current(p).on \in Routes \cup Rules => ~Owned(ChainOf(Op(p))) /\ ~Owned(OtherOf(Op(p)))
    BY Zenon, <1>4, RunShare DEF OperationOK
  <2>2. Marking = {ChainOf(Op(p)), OtherOf(Op(p))}
    BY <1>4 DEF Marking, ChainOf, OtherOf
  <2>3. \A c \in Marking : c \in {Current(p).on} \/ rules[c].marks = {}
                             \/ {Current(p).on} \cap (Routes \cup Rules) = {}
    BY Zenon, <2>1, <2>2 DEF MarksOK, MarkedOK
  <2>4. Op(p) \notin Applies
    BY <1>4 DEF Applies
  <2> QED BY Zenon, <2>1, <2>3, <2>4, <1>2, <1>MarksRemoved
<1>5. CASE Op(p) = "cleanup"
  <2>1. /\ Remove(Deleted(Current(p).on)) /\ Current(p).on \in Skeleton
        /\ Current(p).on = "table" \/ ~Owned("table")
    BY Zenon, <1>5, RunCleanup DEF OperationOK
  <2>2. \A c \in Marking : c \in Deleted(Current(p).on) \/ rules[c].marks = {}
    <3>1. CASE Current(p).on = "table"
      BY <3>1, HooksOf DEF Deleted
    <3>2. CASE ~Owned("table")
      <4>1. \A c \in Marking : ~Owned(c)
        BY <3>2, HooksOf DEF HostOK
      <4> QED BY <4>1 DEF MarksOK, MarkedOK
    <3> QED BY <2>1, <3>1, <3>2
  <2>3. Op(p) \notin Applies
    BY <1>5 DEF Applies
  <2> QED BY Zenon, <2>1, <2>2, <2>3, <1>2, <1>MarksRemoved
<1>6. CASE Op(p) = "mapping_cleanup"
  <2>1. Remove({"mapping"}) /\ {"mapping"} \cap (Routes \cup Rules) = {}
    BY <1>6, RunMappingCleanup, NamesOfArtifacts
  <2>2. Op(p) \notin Applies
    BY <1>6 DEF Applies
  <2> QED BY Zenon, <2>1, <2>2, <1>2, <1>MarksRemoved
<1>7. CASE Op(p) = "apply"
  <2>1. rules' = rules /\ \A a \in Artifacts \ Skeleton : art'[a] = art[a]
    BY <1>7, RunSkeleton
  <2>2. Op(p) \notin Applies
    BY <1>7 DEF Applies
  <2>3. \A c \in Marking : c \in Artifacts \ Skeleton
    BY NamesOfArtifacts DEF Marking, Skeleton, Fragments
  <2>4. Routes \cup Rules \subseteq Artifacts \ Skeleton
    BY NamesOfArtifacts DEF Skeleton, Fragments
  <2>5. \A c \in Marking : \A f \in rules[c].marks : Hooks(f) \subseteq Routes \cup Rules
    BY HooksOf, MarkTypes
  <2>6. MarkedOK'
    BY <2>1, <2>3, <2>4, <2>5 DEF MarksOK, MarkedOK, Owned
  <2>7. MadeLast'
    BY <2>2, <1>2, Len(<<>>) = 0 DEF MadeLast
  <2> QED BY <2>6, <2>7 DEF MarksOK
<1>8. CASE Op(p) \in {"stop", "spawn", "report"}
  <2>1. Commands(p) = <<>>
    BY Zenon, <1>1, <1>8, OtherPrograms DEF Commands, Op
  <2>2. Len(Commands(p)) = 0
    BY <2>1
  <2>3. Due(p) \in Int /\ at[p] \in Int
    BY <1>0, CommandOf
  <2> QED BY <2>2, <2>3, <1>0, <1>1
<1> QED BY <1>1, <1>3, <1>4, <1>5, <1>6, <1>7, <1>8 DEF Operations, Cleanups

(* A command that fails keeps marked families routed.                        *)
LEMMA MarksFail ==
  ASSUME HostOK, ProcsOK, MarksOK, NEW p \in Procs, ~raced, OperationOK(p), Fail(p)
  PROVE  MarksOK'
<1>0. /\ Busy(p) /\ Working(p) /\ Due(p) <= Len(Commands(p))
      /\ PerformPart(Current(p), Fam(p))
      /\ made' = made \/ Abort(p)
  BY DEF Fail, Working
<1>1. Current(p) \in CommandSet /\ KindOK(Current(p)) /\ Fam(p) \in Options
  BY <1>0, CommandOf
<1>2. \A q \in Procs : made'[q] = made[q] \/ made'[q] = <<>>
  BY Zenon, <1>0, AbortProcs
<1>3. /\ art' = art
      /\ \/ rules' = rules
         \/ /\ Current(p).do = "rules"
            /\ \E new \in [marks : SUBSET Families, whole : BOOLEAN] :
                 /\ rules' = [rules EXCEPT ![Current(p).on] = new]
                 /\ new.marks \subseteq rules[Current(p).on].marks \cup Fam(p)
  BY Zenon, <1>0, <1>1, PartEffects
<1>4. CASE rules' = rules
  BY Zenon, <1>2, <1>3, <1>4, MarksFrame DEF Owned
<1>5. CASE rules' # rules
  <2>1. Current(p).do = "rules"
    BY <1>3, <1>5
  <2>2. PICK new : /\ rules' = [rules EXCEPT ![Current(p).on] = new]
                   /\ new.marks \subseteq rules[Current(p).on].marks \cup Fam(p)
    BY Zenon, <1>3, <1>5
  <2> QED BY ZenonT(30), <2>1, <2>2, <1>0, <1>2, <1>3, MarksWritten
<1> QED BY <1>4, <1>5

(* Undoing: the chain goes before the hooks that it marks.                   *)
LEMMA MarksUndo ==
  ASSUME HostOK, ProcsOK, MarksOK, NEW p \in Procs, ~raced, OperationOK(p), UndoOne(p)
  PROVE  MarksOK'
<1> DEFINE n == Len(made[p])
           a == made[p][n]
<1>1. /\ n > 0 /\ Len(made'[p]) = n - 1
      /\ \A i \in 1..(n - 1) : made'[p][i] = made[p][i]
      /\ \A q \in Procs \ {p} : made'[q] = made[q]
  BY Zenon, UndoProcs DEF Inside
<1>2. Busy(p) /\ Remove({a}) /\ n \in Nat
  BY DEF UndoOne, ProcsOK, ProcTypes
<1>3. \A q \in Procs \ {p} : made[q] = <<>>
  BY <1>2, OnlyOne
<1>4. /\ \A b \in Artifacts : art'[b] = "owned" <=> Owned(b) /\ b \notin {a}
      /\ \A c \in Chains : c \notin {a} => rules'[c] = rules[c]
      /\ \A c \in Chains : c \in {a} => rules'[c] = NoRules
  BY Zenon, <1>2, RemovedOnly
<1>5. NoRules.marks = {}
  BY DEF NoRules
<1>6. \A i \in 1..n : \A c \in Marking : \A f \in rules[c].marks : made[p][i] \in Hooks(f) => a = c
  BY DEF MarksOK, MadeLast, Newest
<1>7. a \in Artifacts
  BY SMTT(25), <1>1, <1>2 DEF ProcsOK, ProcTypes
<1> HIDE DEF a, n
<1>8. \A c \in Marking : rules'[c].marks # {} => c # a /\ rules'[c] = rules[c]
  BY <1>4, <1>5, HooksOf
<1>9. MarkedOK'
  <2> SUFFICES ASSUME NEW c \in Marking, rules'[c].marks # {}
               PROVE  /\ art'[c] = "owned"
                      /\ \A f \in rules'[c].marks : \A h \in Hooks(f) : art'[h] = "owned"
    BY DEF MarkedOK, Owned
  <2>1. c # a /\ rules'[c] = rules[c] /\ c \in Artifacts
    BY Zenon, <1>8, HooksOf
  <2>2. art'[c] = "owned"
    BY <2>1, <1>4 DEF MarksOK, MarkedOK
  <2>3. ASSUME NEW f \in rules[c].marks, NEW h \in Hooks(f) PROVE art'[h] = "owned"
    <3>1. h \in Artifacts /\ Owned(h)
      BY HooksOf, MarkTypes DEF MarksOK, MarkedOK
    <3>2. h # a
      BY <1>1, <1>2, <1>6, <2>1 DEF a, n
    <3> QED BY <3>1, <3>2, <1>4
  <2> QED BY ZenonT(30), <2>1, <2>2, <2>3
<1>10. MadeLast'
  <2> SUFFICES ASSUME NEW q \in Procs, NEW i \in 1..Len(made'[q]), NEW c \in Marking,
                      NEW f \in rules'[c].marks, made'[q][i] \in Hooks(f)
               PROVE  FALSE
    BY DEF MadeLast
  <2>1. q = p
    BY <1>1, <1>3, Len(<<>>) = 0
  <2>2. i \in 1..n /\ made[p][i] \in Hooks(f)
    BY <2>1, <1>1, <1>2
  <2>3. c # a /\ f \in rules[c].marks
    BY <1>8
  <2> QED BY <2>2, <2>3, <1>6
<1> QED BY <1>9, <1>10 DEF MarksOK

(* Somebody else may create or take over an artifact, but never one of       *)
(* dynet.                                                                    *)
LEMMA InterfereFacts ==
  ASSUME HostOK, NEW a \in Contested, Interfere(a)
  PROVE  /\ HostOK' /\ rules' = rules
         /\ \A b \in Artifacts : art'[b] = "owned" <=> Owned(b)
         /\ \A b \in Artifacts : art'[b] = art[b] \/ art'[b] = "foreign"
         /\ \A b \in Artifacts : Foreign(b) => art'[b] = "foreign"
         /\ UNCHANGED <<plan, at, made, rolling, service, solo, raced, before>>
<1>1. /\ a \in Artifacts /\ art[a] = "missing" /\ (a \in Chains => Owned("table"))
      /\ art' = [art EXCEPT ![a] = "foreign"] /\ rules' = rules
  BY HooksAssumption DEF Interfere
<1>2. a = "table" => ~Owned("table")
  BY <1>1 DEF Owned
<1>3. HostOK'
  BY Zenon, <1>1, <1>2, CreateHost
<1>4. \A b \in Artifacts : art'[b] = IF b = a THEN "foreign" ELSE art[b]
  BY <1>1 DEF HostOK
<1>5. UNCHANGED <<plan, at, made, rolling, service, solo, raced, before>>
  BY DEF Interfere, process, history
<1> QED BY <1>1, <1>3, <1>4, <1>5 DEF Owned, Foreign

ServiceOK ==
  /\ service \in {"stopped", "failed", "running", "starting", "exiting", "failing"}
  /\ Busy(Supervisor) <=> service \in {"starting", "exiting", "failing"}
  /\ service = "starting" => Remains(plan[Supervisor], StartOps)
  /\ service = "exiting" => Remains(plan[Supervisor], ExitOps)
  /\ service = "failing" => Len(plan[Supervisor]) = 1 /\ plan[Supervisor][1].op = "report"
  /\ \A p \in Operators : \A i \in 1..Len(plan[p]) : plan[p][i].op \notin {"spawn", "report"}

(* The order of the supervisor's operations.                                 *)
LEMMA SupervisorOrder ==
  ASSUME ProcsOK, ServiceOK, Busy(Supervisor)
  PROVE  LET ops == plan[Supervisor]
         IN  /\ Tail(ops) \in Seq(Calls)
             /\ Op(Supervisor) # "stop"
             /\ service = "starting" => Remains(Tail(ops), StartOps)
             /\ service = "exiting" => Remains(Tail(ops), ExitOps)
             /\ service \in {"starting", "exiting"} /\ Op(Supervisor) \notin {"spawn", "report"} =>
                  /\ Tail(ops) # <<>>
                  /\ Head(Tail(ops)).op = "hooks_cleanup" => Op(Supervisor) = "router_cleanup"
                  /\ Head(Tail(ops)).op = "mapping_cleanup" => Op(Supervisor) = "hooks_cleanup"
                  /\ Head(Tail(ops)).op \in {"apply", "report"} => Op(Supervisor) = "mapping_cleanup"
             /\ Op(Supervisor) = "spawn" => service = "starting"
             /\ Op(Supervisor) \in {"spawn", "report"} => Tail(ops) = <<>>
             /\ service = "failing" => Op(Supervisor) = "report"
<1>RemainsTail.
      ASSUME NEW ops \in Seq(Calls), ops # <<>>, NEW all, Len(all) \in Nat, Remains(ops, all)
      PROVE  /\ Remains(Tail(ops), all) /\ Tail(ops) \in Seq(Calls)
             /\ Head(ops).op = all[Len(all) - Len(ops) + 1]
             /\ Len(ops) \in 1..Len(all) /\ Len(Tail(ops)) = Len(ops) - 1
             /\ Tail(ops) # <<>> => /\ Head(Tail(ops)).op = all[Len(all) - Len(ops) + 2]
                                    /\ Len(ops) >= 2
  <2> USE <1>RemainsTail
  <2>1. /\ Len(ops) \in Nat /\ Len(ops) > 0 /\ Len(all) \in Nat /\ Len(ops) <= Len(all)
        /\ Head(ops) = ops[1]
        /\ Tail(ops) \in Seq(Calls) /\ Len(Tail(ops)) = Len(ops) - 1
        /\ \A i \in 1..(Len(ops) - 1) : Tail(ops)[i] = ops[i + 1]
    BY DEF Remains
  <2>2. Remains(Tail(ops), all)
    <3>1. ASSUME NEW i \in 1..(Len(ops) - 1)
          PROVE  Tail(ops)[i].op = all[Len(all) - (Len(ops) - 1) + i]
      <4>1. i + 1 \in 1..Len(ops) /\ Len(all) - Len(ops) + (i + 1) = Len(all) - (Len(ops) - 1) + i
        BY <2>1
      <4>2. ops[i + 1].op = all[Len(all) - Len(ops) + (i + 1)]
        BY Zenon, <4>1 DEF Remains
      <4> QED BY <2>1, <4>1, <4>2
    <3> QED BY <2>1, <3>1 DEF Remains
  <2>3. Head(ops).op = all[Len(all) - Len(ops) + 1]
    BY <2>1 DEF Remains
  <2>4. ASSUME Tail(ops) # <<>>
        PROVE  Head(Tail(ops)).op = all[Len(all) - Len(ops) + 2] /\ Len(ops) >= 2
    <3>1. Len(ops) >= 2 /\ Head(Tail(ops)) = Tail(ops)[1]
      BY <2>1, <2>4
    <3>2. Tail(ops)[1] = ops[2] /\ 2 \in 1..Len(ops)
      BY <2>1, <3>1
    <3> QED BY <3>1, <3>2 DEF Remains
  <2> QED BY <2>1, <2>2, <2>3, <2>4
<1> DEFINE ops == plan[Supervisor]
<1>1. ops \in Seq(Calls) /\ ops # <<>>
  BY SupervisorApart DEF ProcsOK, ProcTypes, Busy
<1>2. Op(Supervisor) = Head(ops).op
  BY DEF Op
<1>3. service \in {"starting", "exiting", "failing"}
  BY DEF ServiceOK
<1> HIDE DEF ops
<1>4. CASE service = "starting"
  <2>1. Remains(ops, StartOps) /\ Len(StartOps) = 5
    BY <1>4, OpsOf DEF ServiceOK, ops
  <2>2. /\ Remains(Tail(ops), StartOps) /\ Tail(ops) \in Seq(Calls)
        /\ Head(ops).op = StartOps[5 - Len(ops) + 1]
        /\ Len(ops) \in 1..5 /\ Len(Tail(ops)) = Len(ops) - 1
        /\ Tail(ops) # <<>> => Head(Tail(ops)).op = StartOps[5 - Len(ops) + 2] /\ Len(ops) >= 2
    <3>1. Len(StartOps) \in Nat
      BY <2>1
    <3>2. /\ Remains(Tail(ops), StartOps) /\ Tail(ops) \in Seq(Calls)
          /\ Head(ops).op = StartOps[Len(StartOps) - Len(ops) + 1]
          /\ Len(ops) \in 1..Len(StartOps) /\ Len(Tail(ops)) = Len(ops) - 1
          /\ Tail(ops) # <<>> => /\ Head(Tail(ops)).op = StartOps[Len(StartOps) - Len(ops) + 2]
                                 /\ Len(ops) >= 2
      BY Zenon, <1>1, <2>1, <3>1, <1>RemainsTail
    <3> QED BY <2>1, <3>2
  <2>3. Tail(ops) = <<>> <=> Len(ops) = 1
    BY <2>2
  <2>4. \/ Tail(ops) # <<>> /\ Head(ops).op = "router_cleanup" /\ Head(Tail(ops)).op = "hooks_cleanup"
        \/ Tail(ops) # <<>> /\ Head(ops).op = "hooks_cleanup" /\ Head(Tail(ops)).op = "mapping_cleanup"
        \/ Tail(ops) # <<>> /\ Head(ops).op = "mapping_cleanup" /\ Head(Tail(ops)).op = "apply"
        \/ Tail(ops) # <<>> /\ Head(ops).op = "apply" /\ Head(Tail(ops)).op = "spawn"
        \/ Tail(ops) = <<>> /\ Head(ops).op = "spawn"
    <3>1. Len(ops) \in {1, 2, 3, 4, 5}
      BY <2>2
    <3>2. CASE Len(ops) = 5
      BY <3>2, <2>2, <2>3, OpsOf
    <3>3. CASE Len(ops) = 4
      BY <3>3, <2>2, <2>3, OpsOf
    <3>4. CASE Len(ops) = 3
      BY <3>4, <2>2, <2>3, OpsOf
    <3>5. CASE Len(ops) = 2
      BY <3>5, <2>2, <2>3, OpsOf
    <3>6. CASE Len(ops) = 1
      BY <3>6, <2>2, <2>3, OpsOf
    <3> QED BY Zenon, <3>1, <3>2, <3>3, <3>4, <3>5, <3>6
  <2> QED BY SMTT(25), <1>2, <1>4, <2>2, <2>4 DEF ops
<1>5. CASE service = "exiting"
  <2>1. Remains(ops, ExitOps) /\ Len(ExitOps) = 4
    BY <1>5, OpsOf DEF ServiceOK, ops
  <2>2. /\ Remains(Tail(ops), ExitOps) /\ Tail(ops) \in Seq(Calls)
        /\ Head(ops).op = ExitOps[4 - Len(ops) + 1]
        /\ Len(ops) \in 1..4 /\ Len(Tail(ops)) = Len(ops) - 1
        /\ Tail(ops) # <<>> => Head(Tail(ops)).op = ExitOps[4 - Len(ops) + 2] /\ Len(ops) >= 2
    <3>1. Len(ExitOps) \in Nat
      BY <2>1
    <3>2. /\ Remains(Tail(ops), ExitOps) /\ Tail(ops) \in Seq(Calls)
          /\ Head(ops).op = ExitOps[Len(ExitOps) - Len(ops) + 1]
          /\ Len(ops) \in 1..Len(ExitOps) /\ Len(Tail(ops)) = Len(ops) - 1
          /\ Tail(ops) # <<>> => /\ Head(Tail(ops)).op = ExitOps[Len(ExitOps) - Len(ops) + 2]
                                 /\ Len(ops) >= 2
      BY Zenon, <1>1, <2>1, <3>1, <1>RemainsTail
    <3> QED BY <2>1, <3>2
  <2>3. Tail(ops) = <<>> <=> Len(ops) = 1
    BY <2>2
  <2>4. \/ Tail(ops) # <<>> /\ Head(ops).op = "router_cleanup" /\ Head(Tail(ops)).op = "hooks_cleanup"
        \/ Tail(ops) # <<>> /\ Head(ops).op = "hooks_cleanup" /\ Head(Tail(ops)).op = "mapping_cleanup"
        \/ Tail(ops) # <<>> /\ Head(ops).op = "mapping_cleanup" /\ Head(Tail(ops)).op = "report"
        \/ Tail(ops) = <<>> /\ Head(ops).op = "report"
    <3>1. Len(ops) \in {1, 2, 3, 4}
      BY <2>2
    <3>2. CASE Len(ops) = 4
      BY <3>2, <2>2, <2>3, OpsOf
    <3>3. CASE Len(ops) = 3
      BY <3>3, <2>2, <2>3, OpsOf
    <3>4. CASE Len(ops) = 2
      BY <3>4, <2>2, <2>3, OpsOf
    <3>5. CASE Len(ops) = 1
      BY <3>5, <2>2, <2>3, OpsOf
    <3> QED BY Zenon, <3>1, <3>2, <3>3, <3>4, <3>5
  <2> QED BY <1>2, <1>5, <2>2, <2>4 DEF ops
<1>6. CASE service = "failing"
  <2>1. Len(ops) = 1 /\ ops[1].op = "report"
    BY <1>6 DEF ServiceOK, ops
  <2>2. Head(ops) = ops[1] /\ Tail(ops) \in Seq(Calls) /\ Len(Tail(ops)) = 0
    BY <1>1, <2>1
  <2>3. Tail(ops) = <<>>
    <3>1. \A s \in Seq(Calls) : Len(s) = 0 => s = <<>>
      OBVIOUS
    <3> QED BY Zenon, <2>2, <3>1
  <2> QED BY <1>2, <1>6, <2>1, <2>2, <2>3 DEF ops
<1> QED BY SMTT(25), <1>3, <1>4, <1>5, <1>6

(* What the supervisor's cleanups have removed by the time that each begins. *)
CleanedOK ==
  Busy(Supervisor) /\ solo[Supervisor] /\ service # "failing" =>
    /\ Op(Supervisor) = "hooks_cleanup" => ~Owned("router")
    /\ Op(Supervisor) = "mapping_cleanup" => \A a \in Capture \ {"mapping"} : ~Owned(a)
    /\ Op(Supervisor) \in {"apply", "report"} /\ at[Supervisor] = 0 =>
          \A a \in Capture : ~Owned(a)

SuperviseOK == ServiceOK /\ CleanedOK

(* The supervisor has not started at first.                                  *)
LEMMA SuperviseInit == Init => SuperviseOK
<1> SUFFICES ASSUME Init PROVE SuperviseOK
  OBVIOUS
<1>1. service = "stopped" /\ \A p \in Procs : plan[p] = <<>>
  BY DEF Init
<1>2. ~Busy(Supervisor) /\ \A p \in Operators : Len(plan[p]) = 0
  <2>1. \A p \in Procs : Len(plan[p]) = 0
    BY <1>1
  <2> QED BY <1>1, <2>1, SupervisorApart DEF Busy, Procs
<1>3. \A p \in Operators : \A i \in 1..Len(plan[p]) : FALSE
  BY SMTT(25), <1>2
<1> QED BY <1>1, <1>2, <1>3 DEF SuperviseOK, ServiceOK, CleanedOK

(* A step of an operator in its plan: the supervisor is not alone.           *)
LEMMA OperatorSteps ==
  ASSUME ProcsOK, SuperviseOK, NEW p \in Operators, Busy(p),
         \A i \in 1..Len(plan'[p]) : \E j \in 1..Len(plan[p]) : plan'[p][i] = plan[p][j],
         service' = service, solo' = solo, \A q \in Procs \ {p} : plan'[q] = plan[q]
  PROVE  SuperviseOK'
<1>1. p \in Procs /\ p # Supervisor /\ Supervisor \in Procs
  BY SupervisorApart DEF Procs
<1>2. plan'[Supervisor] = plan[Supervisor]
  BY <1>1
<1>3. Busy(Supervisor)' <=> Busy(Supervisor)
  BY <1>2 DEF Busy
<1>4. ~(Busy(Supervisor) /\ solo[Supervisor])
  BY <1>1 DEF ProcsOK, Apart
<1>5. \A q \in Operators : \A i \in 1..Len(plan'[q]) : plan'[q][i].op \notin {"spawn", "report"}
  <2> TAKE q \in Operators
  <2>1. CASE q = p
    BY <2>1 DEF SuperviseOK, ServiceOK
  <2>2. CASE q # p
    BY SMTT(25), <2>2 DEF SuperviseOK, ServiceOK, Procs
  <2> QED BY <2>1, <2>2
<1> QED BY <1>2, <1>3, <1>4, <1>5 DEF SuperviseOK, ServiceOK, CleanedOK

(* The supervisor takes up a plan: a start, or the cleanup after an exit.    *)
LEMMA SupervisorBegins ==
  ASSUME ProcsOK, SuperviseOK, plan'[Supervisor] \in Seq(Calls), plan'[Supervisor] # <<>>,
         Head(plan'[Supervisor]).op = "router_cleanup",
         \/ service' = "starting" /\ Remains(plan'[Supervisor], StartOps)
         \/ service' = "exiting" /\ Remains(plan'[Supervisor], ExitOps),
         \A q \in Operators : plan'[q] = plan[q] \/ plan'[q] = <<>>
  PROVE  SuperviseOK'
<1>1. Busy(Supervisor)' /\ Op(Supervisor)' = "router_cleanup"
  BY DEF Busy, Op
<1>2. \A q \in Operators : \A i \in 1..Len(plan'[q]) : plan'[q][i].op \notin {"spawn", "report"}
  <2> TAKE q \in Operators
  <2>1. CASE plan'[q] = plan[q]
    BY <2>1 DEF SuperviseOK, ServiceOK
  <2>2. CASE plan'[q] = <<>>
    <3>1. 1..Len(<<>>) = {}
      OBVIOUS
    <3> QED BY Zenon, <2>2, <3>1
  <2> QED BY <2>1, <2>2
<1> QED BY <1>1, <1>2 DEF SuperviseOK, ServiceOK, CleanedOK

(* The supervisor gives its plan up.                                         *)
LEMMA SupervisorEnds ==
  ASSUME ProcsOK, SuperviseOK,
         \/ plan'[Supervisor] = <<>> /\ service' \in {"stopped", "failed", "running"}
         \/ plan'[Supervisor] = <<Call("report", Families)>> /\ service' = "failing",
         \A q \in Procs \ {Supervisor} : plan'[q] = plan[q]
  PROVE  SuperviseOK'
<1>1. \A q \in Operators : plan'[q] = plan[q]
  BY SupervisorApart
<1>2. \A q \in Operators : \A i \in 1..Len(plan'[q]) : plan'[q][i].op \notin {"spawn", "report"}
  BY <1>1 DEF SuperviseOK, ServiceOK
<1>3. CASE plan'[Supervisor] = <<>> /\ service' \in {"stopped", "failed", "running"}
  <2>1. ~Busy(Supervisor)'
    BY SMTT(25), <1>3 DEF Busy
  <2> QED BY <1>2, <1>3, <2>1 DEF SuperviseOK, ServiceOK, CleanedOK
<1>4. CASE plan'[Supervisor] = <<Call("report", Families)>> /\ service' = "failing"
  <2>1. /\ Len(plan'[Supervisor]) = 1 /\ plan'[Supervisor][1] = Call("report", Families)
        /\ plan'[Supervisor] # <<>>
    BY <1>4
  <2>2. plan'[Supervisor][1].op = "report"
    BY <2>1 DEF Call
  <2>3. Busy(Supervisor)'
    BY <2>1 DEF Busy
  <2> QED BY <1>2, <1>4, <2>1, <2>2, <2>3 DEF SuperviseOK, ServiceOK, CleanedOK
<1> QED BY <1>3, <1>4

(* A step of a process inside an operation.                                  *)
LEMMA InsideSupervise ==
  ASSUME ProcsOK, SuperviseOK, NEW p \in Procs, Busy(p), Inside(p), service' = service,
         p = Supervisor => /\ at'[p] # 0
                           /\ Op(p) \in {"hooks_cleanup", "mapping_cleanup"} =>
                                \A a \in Artifacts : art'[a] = "owned" => Owned(a)
  PROVE  SuperviseOK'
<1>1. plan' = plan /\ solo' = solo
  BY DEF Inside
<1>2. CASE p \in Operators
  <2>1. \A i \in 1..Len(plan'[p]) : \E j \in 1..Len(plan[p]) : plan'[p][i] = plan[p][j]
    BY <1>1
  <2> QED BY Zenon, <1>1, <1>2, <2>1, OperatorSteps
<1>3. CASE p = Supervisor
  <2>1. Busy(Supervisor)' = Busy(Supervisor) /\ Op(Supervisor)' = Op(Supervisor)
    BY <1>1 DEF Busy, Op
  <2>2. ServiceOK'
    BY ZenonT(30), <1>1, <2>1 DEF SuperviseOK, ServiceOK
  <2>3. Capture \subseteq Artifacts /\ "router" \in Artifacts
    BY NamesOfArtifacts DEF Artifacts
  <2>4. CleanedOK'
    BY <1>1, <1>3, <2>1, <2>3 DEF SuperviseOK, CleanedOK, Owned
  <2> QED BY <2>2, <2>4 DEF SuperviseOK
<1> QED BY <1>2, <1>3 DEF Procs
===============================================================================

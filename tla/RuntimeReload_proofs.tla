------------------------ MODULE RuntimeReload_proofs -------------------------
(***************************************************************************)
(* Proofs about RuntimeReload for any number of reloaders and sessions,    *)
(* any set of configurations and any retention limit of at least two:      *)
(* its inductive invariant, and what that gives about its steps, that it   *)
(* implements PinnedSessions, that no reload changes a field which needs   *)
(* a restart, and that the audit ring has no gaps.                         *)
(***************************************************************************)
EXTENDS RuntimeReload, FiniteSetTheorems, TLAPS

(* The mutex around `current`: whoever is past lock().await holds it.        *)
Mutex ==
  /\ \A r \in Reloaders : pc[r] # "idle" => lock = r
  /\ lock # NoOne => pc[lock] # "idle"

InFlight(r) == pc[r] \in {"persist", "commit"}

(* The egress map around the published generation: the newest Retained - 1   *)
(* generations are there, and one beyond it only while a reload holds it.    *)
EgressWindow ==
  /\ routing.gen >= 1
  /\ \A k \in 1..routing.gen : k + Retained - 1 > routing.gen => k \in DOMAIN egress
  /\ \A g \in DOMAIN egress : g <= routing.gen + 1
  /\ \A r \in Reloaders : InFlight(r) =>
       routing.gen + 1 \in DOMAIN egress /\ egress[routing.gen + 1] = cand[r].fwd
  /\ (\A r \in Reloaders : ~InFlight(r)) => routing.gen + 1 \notin DOMAIN egress

(* A decision names a published generation, and if the map still has that    *)
(* generation it has the decision's own graph.                               *)
DecisionsSound ==
  \A s \in Sessions :
    /\ decision[s].gen \in 1..routing.gen
    /\ decision[s].gen \in DOMAIN egress => egress[decision[s].gen] = decision[s].fwd

(* What the holder of the mutex has published so far.                        *)
PublishedBy(r) ==
  /\ pc[r] \in {"commit", "tun"} => store = cand[r].fwd
  /\ pc[r] \in {"install", "persist", "status", "fail", "push"} => store = current.fwd
  /\ pc[r] = "tun" => routing.fwd = cand[r].fwd
  /\ pc[r] \notin {"idle", "tun"} => routing.fwd = current.fwd
  /\ pc[r] = "status" => current = cand[r]
  /\ pc[r] \in {"tun", "status"} => routing.gen = Generation(r)
  /\ pc[r] \notin {"idle", "tun", "status"} => status.gen = routing.gen
  /\ pc[r] \in {"tun", "status"} => status.gen = previous[r]
  /\ pc[r] \notin {"idle", "status"} => status.config = current
  /\ pc[r] \in {"install", "persist", "commit", "tun"} => cand[r].static = current.static

(* The control part of the invariant: the mutex and what its holder did.     *)
Control ==
  /\ Mutex
  /\ CommitNeverConflicts
  /\ tun = current.tun
  /\ \A r \in Reloaders : PublishedBy(r)
  /\ AllOrNothing

(* The data part: the egress map and the decisions that refer to it.         *)
GraphsSound ==
  /\ EgressWindow
  /\ CurrentRetained
  /\ EgressBounded
  /\ DecisionsSound
  /\ SessionsKeepTheirGraph

IInv == TypeOK /\ Control /\ GraphsSound
-------------------------------------------------------------------------------
(* The eviction loop of install, for a set of generations up to n.           *)

(* A non-empty set of naturals has a least element.                          *)
LEMMA LeastElement ==
  ASSUME NEW S \in SUBSET Nat, S # {}
  PROVE  \E m \in S : \A x \in S : m <= x
<1> DEFINE less == {ss \in Nat \X Nat : ss[1] < ss[2]}
<1>1. IsWellFoundedOn(less, Nat)
  BY NatLessThanWellFounded, Zenon DEF OpToRel
<1>2. PICK m \in S : \A x \in S : ~ (<<x, m>> \in less)
  BY Zenon, <1>1, WFMin
<1>3. ASSUME NEW x \in S  PROVE m <= x
  <2>1. <<x, m>> \in Nat \X Nat /\ <<x, m>> \notin less
    BY <1>2
  <2>2. ~ (x < m)
    BY <2>1
  <2> QED  BY <2>2
<1> QED  BY <1>3

(* The loop leaves at most Retained generations.                             *)
LEMMA NewestBounded ==
  ASSUME NEW gens \in SUBSET Nat, IsFiniteSet(gens)
  PROVE  IsFiniteSet(Newest(gens)) /\ Cardinality(Newest(gens)) <= Retained
<1> DEFINE N == Newest(gens)
<1>1. N \subseteq gens
  BY DEF Newest
<1>2. IsFiniteSet(N)
  BY <1>1, FS_Subset
<1>3. CASE N = {}
  BY <1>2, <1>3, FS_EmptySet, RetainedAssumption
<1>4. CASE N # {}
  <2>1. PICK m \in N : \A x \in N : m <= x
    BY Zenon, <1>1, <1>4, LeastElement
  <2> DEFINE above == {h \in gens : h > m}
  <2>2. Cardinality(above) < Retained
    BY <2>1 DEF Newest
  <2>3. IsFiniteSet(above) /\ Cardinality(above) \in Nat
    BY FS_Subset, FS_CardinalityType
  <2>4. N \ {m} \subseteq above
    <3>1. \A x \in N \ {m} : x \in gens /\ x \in Nat /\ m \in Nat /\ m <= x /\ x # m
      BY Zenon, <1>1, <2>1
    <3> QED  BY <3>1
  <2>5. Cardinality(N \ {m}) <= Cardinality(above)
    BY <2>3, <2>4, FS_Subset
  <2>6. Cardinality(N \ {m}) = Cardinality(N) - 1
    BY Zenon, <1>2, <2>1, FS_RemoveElement
  <2>7. Cardinality(N) \in Nat /\ Cardinality(N \ {m}) \in Nat
    BY <1>2, FS_CardinalityType, FS_RemoveElement
  <2> QED
    BY <1>2, <2>2, <2>3, <2>5, <2>6, <2>7, RetainedAssumption
<1> QED  BY <1>3, <1>4

(* The loop keeps every generation that is among the newest Retained numbers *)
(* up to the one installed.                                                  *)
LEMMA NewestKeeps ==
  ASSUME NEW n \in Nat, NEW gens \in SUBSET (0..n),
         NEW k \in gens, k + Retained > n
  PROVE  k \in Newest(gens)
<1> DEFINE above == {h \in gens : h > k}
<1>1. above \subseteq (k + 1)..n
  <2>1. ASSUME NEW h \in gens, h > k  PROVE h \in (k + 1)..n
    <3>1. h \in 0..n /\ k \in 0..n
      OBVIOUS
    <3> QED  BY <2>1, <3>1
  <2> QED  BY Zenon, <2>1
<1>2. /\ IsFiniteSet((k + 1)..n)
      /\ Cardinality((k + 1)..n) = IF k + 1 > n THEN 0 ELSE n - (k + 1) + 1
  BY FS_Interval
<1>3. Cardinality(above) <= Cardinality((k + 1)..n) /\ Cardinality(above) \in Nat
  BY <1>1, <1>2, FS_Subset, FS_CardinalityType
<1>4. Cardinality(above) < Retained
  BY <1>2, <1>3, RetainedAssumption
<1> QED  BY <1>4 DEF Newest
-------------------------------------------------------------------------------
(* record_unchanged writes a well-typed status and record.                    *)
LEMMA RecordUnchangedType ==
  ASSUME ReloadTypes, AuditTypes, NEW r \in Reloaders, NEW result \in Outcomes,
         NEW candidate \in Configs \cup {NoConfig},
         RecordUnchanged(r, result, candidate)
  PROVE  /\ pc' \in [Reloaders -> Steps]
         /\ record' \in [Reloaders -> Records]
         /\ status' \in Statuses
BY Zenon DEF ReloadTypes, AuditTypes, RecordUnchanged, Records, Statuses, Steps

(* Begin keeps the types of what it writes.                                  *)
LEMMA BeginType ==
  ASSUME TypeOK, NEW r \in Reloaders, Begin(r)
  PROVE  RequestTypes' /\ ReloadTypes' /\ AuditTypes'
<1>1. RequestTypes'
  BY DEF TypeOK, RequestTypes, Begin
<1>2. CASE file = InvalidFile
  BY <1>1, <1>2, RecordUnchangedType
    DEF TypeOK, ReloadTypes, AuditTypes, Begin, Outcomes
<1>3. CASE file # InvalidFile /\ Disposition(current, file) = "apply"
  <2>1. file \in Configs /\ routing.gen \in Nat
    BY <1>3 DEF TypeOK, RequestTypes, PublishedTypes, Decisions
  <2> QED
    BY <1>1, <1>3, <2>1 DEF TypeOK, ReloadTypes, AuditTypes, Begin, Steps
<1>4. CASE file # InvalidFile /\ Disposition(current, file) # "apply"
  <2>1. file \in Configs /\ Disposition(current, file) \in Outcomes
    BY <1>4 DEF TypeOK, RequestTypes, Disposition, Outcomes
  <2>2. RecordUnchanged(r, Disposition(current, file), file)
    BY <1>4 DEF Begin
  <2> QED
    BY Zenon, <1>1, <1>4, <2>1, <2>2, RecordUnchangedType
      DEF TypeOK, ReloadTypes, AuditTypes, Begin
<1> QED  BY <1>2, <1>3, <1>4

(* The egress map keeps its type.                                            *)
LEMMA EgressType ==
  ASSUME NEW map, DOMAIN map \subseteq Nat, map \in [DOMAIN map -> Forwards],
         NEW g \in Nat, NEW f \in Forwards
  PROVE  /\ DOMAIN Install(map, g, f) \subseteq Nat
         /\ Install(map, g, f) \in [DOMAIN Install(map, g, f) -> Forwards]
         /\ DOMAIN Remove(map, g) \subseteq Nat
         /\ Remove(map, g) \in [DOMAIN Remove(map, g) -> Forwards]
BY DEF Install, Newest, Remove

(* What a reload reads of its candidate has the type it is published with.   *)
LEMMA CandidateType ==
  ASSUME TypeOK, NEW r \in Reloaders
  PROVE  /\ cand[r] \in Configs
         /\ cand[r].fwd \in Forwards
         /\ cand[r].tun \in Tuns
         /\ current.fwd \in Forwards
         /\ previous[r] \in Nat
         /\ Generation(r) \in Nat
BY DEF TypeOK, ReloadTypes, PublishedTypes, Forwards, Tuns, Generation

(* Every step keeps the types.                                               *)
LEMMA TypeStep == TypeOK /\ [Next]_vars => TypeOK'
<1> SUFFICES ASSUME TypeOK, [Next]_vars  PROVE TypeOK'
  OBVIOUS
<1> USE DEF TypeOK
<1>1. CASE Edit
  BY <1>1 DEF Edit, RequestTypes, ReloadTypes, PublishedTypes, AuditTypes, SessionTypes,
    reloadVars, publishedVars, auditVars, sessionVars
<1>2. ASSUME NEW r \in Reloaders, Request(r)  PROVE TypeOK'
  BY <1>2, ReloadAssumption
    DEF Request, RequestTypes, ReloadTypes, PublishedTypes, AuditTypes, SessionTypes,
    reloadVars, publishedVars, auditVars, sessionVars
<1>3. ASSUME NEW r \in Reloaders, Begin(r)  PROVE TypeOK'
  BY <1>3, BeginType DEF Begin, PublishedTypes, SessionTypes, publishedVars, sessionVars
<1>4. ASSUME NEW r \in Reloaders, InstallGraph(r)  PROVE TypeOK'
  <2>1. PublishedTypes'
    BY <1>4, CandidateType, EgressType DEF InstallGraph, PublishedTypes
  <2> QED
    BY Zenon, <1>4, <2>1 DEF InstallGraph, RequestTypes, ReloadTypes, Steps, AuditTypes,
      SessionTypes, auditVars, sessionVars
<1>5. ASSUME NEW r \in Reloaders, ReplaceBootstrap(r)  PROVE TypeOK'
  <2>1. PublishedTypes'
    BY <1>5, CandidateType DEF ReplaceBootstrap, PublishedTypes
  <2> QED
    BY <1>5, <2>1 DEF ReplaceBootstrap, RequestTypes, ReloadTypes, Steps, AuditTypes,
      SessionTypes, auditVars, sessionVars
<1>6. ASSUME NEW r \in Reloaders, ReplaceBootstrapFails(r)  PROVE TypeOK'
  <2>1. PublishedTypes'
    BY <1>6, CandidateType, EgressType DEF ReplaceBootstrapFails, PublishedTypes
  <2> QED
    BY <1>6, <2>1 DEF ReplaceBootstrapFails, RequestTypes, ReloadTypes, Steps,
      AuditTypes, SessionTypes, auditVars, sessionVars
<1>7. ASSUME NEW r \in Reloaders, CommitReconfigure(r)  PROVE TypeOK'
  <2>1. PublishedTypes'
    BY <1>7, CandidateType, EgressType DEF CommitReconfigure, PublishedTypes, Decisions
  <2> QED
    BY Zenon, <1>7, <2>1 DEF CommitReconfigure, RequestTypes, ReloadTypes, Steps, AuditTypes,
      SessionTypes, auditVars, sessionVars
<1>8. ASSUME NEW r \in Reloaders, WriteTun(r)  PROVE TypeOK'
  <2>1. PublishedTypes'
    BY <1>8, CandidateType DEF WriteTun, PublishedTypes
  <2> QED
    BY <1>8, <2>1 DEF WriteTun, RequestTypes, ReloadTypes, Steps, AuditTypes,
      SessionTypes, auditVars, sessionVars
<1>9. ASSUME NEW r \in Reloaders, RecordApplied(r)  PROVE TypeOK'
  <2>1. ReloadTypes' /\ AuditTypes'
    BY <1>9, CandidateType
      DEF RecordApplied, ReloadTypes, AuditTypes, Steps, Records, Statuses, Outcomes
  <2> QED
    BY <1>9, <2>1 DEF RecordApplied, RequestTypes, PublishedTypes, SessionTypes,
      publishedVars, sessionVars
<1>10. ASSUME NEW r \in Reloaders, RecordFailed(r)  PROVE TypeOK'
  <2>1. ReloadTypes' /\ AuditTypes'
    BY <1>10, RecordUnchangedType DEF RecordFailed, ReloadTypes, AuditTypes, Outcomes
  <2> QED
    BY <1>10, <2>1 DEF RecordFailed, RequestTypes, PublishedTypes, SessionTypes,
      publishedVars, sessionVars
<1>11. ASSUME NEW r \in Reloaders, Push(r)  PROVE TypeOK'
  <2>1. AuditTypes'
    BY <1>11, ReloadAssumption DEF Push, PushBack, ReloadTypes, AuditTypes
  <2> QED
    BY <1>11, <2>1 DEF Push, RequestTypes, ReloadTypes, Steps, PublishedTypes,
      SessionTypes, publishedVars, sessionVars
<1>12. ASSUME NEW s \in Sessions, SessionStep(s)  PROVE TypeOK'
  <2>1. SessionTypes'
    BY <1>12 DEF SessionStep, Select, Dial, DialExpired, Finish, DialGeneration,
      SessionTypes, PublishedTypes, Phases
  <2> QED
    BY <1>12, <2>1 DEF SessionStep, Select, Dial, DialExpired, Finish, RequestTypes,
      ReloadTypes, PublishedTypes, AuditTypes, reloadVars, publishedVars, auditVars
<1>13. CASE UNCHANGED vars
  BY <1>13 DEF vars, RequestTypes, ReloadTypes, PublishedTypes, AuditTypes, SessionTypes,
    reloadVars, publishedVars, auditVars, sessionVars
<1> QED
  BY <1>1, <1>2, <1>3, <1>4, <1>5, <1>6, <1>7, <1>8, <1>9, <1>10, <1>11, <1>12,
     <1>13 DEF Next, ReloadStep
-------------------------------------------------------------------------------
(* The mutex serialises reloads: at most one reloader is past lock().await.  *)
LEMMA OneReload ==
  ASSUME Mutex, NEW r \in Reloaders, NEW q \in Reloaders, pc[r] # "idle", q # r
  PROVE  pc[q] = "idle"
BY DEF Mutex

(* Every step of a reload keeps the control part.                            *)
LEMMA ControlStep == IInv /\ [Next]_vars => Control'
<1> SUFFICES ASSUME IInv, [Next]_vars  PROVE Control'
  OBVIOUS
<1> USE DEF IInv, Control
<1>1. CASE UNCHANGED <<lock, pc, cand, previous, publishedVars, status>>
  BY <1>1 DEF Mutex, CommitNeverConflicts, PublishedBy, AllOrNothing, Generation,
    publishedVars
<1>2. ASSUME NEW r \in Reloaders, Begin(r)  PROVE Control'
  <2>1. /\ lock = NoOne /\ lock' = r /\ r # NoOne
        /\ pc'[r] \in {"install", "push"}
        /\ \A q \in Reloaders : pc[q] = "idle" /\ (q # r => pc'[q] = "idle")
    BY <1>2, ReloadAssumption DEF Begin, MutexFree, RecordUnchanged, TypeOK, ReloadTypes, Mutex
  <2>2. Mutex' /\ AllOrNothing'
    BY <2>1 DEF Mutex, AllOrNothing
  <2>3. CommitNeverConflicts' /\ (tun = current.tun)'
    BY <1>2, <2>1 DEF Begin, RecordUnchanged, CommitNeverConflicts, publishedVars,
      TypeOK, ReloadTypes
  <2>4. /\ UNCHANGED publishedVars
        /\ status'.gen = status.gen /\ status'.config = status.config
    BY <1>2 DEF Begin, RecordUnchanged, TypeOK, AuditTypes, Statuses
  <2>5. pc'[r] = "install" => cand'[r].static = current'.static
    BY <1>2 DEF Begin, RecordUnchanged, Disposition, publishedVars, TypeOK, ReloadTypes
  <2>6. ASSUME NEW q \in Reloaders  PROVE PublishedBy(q)'
    BY <2>1, <2>4, <2>5 DEF AllOrNothing, PublishedBy, publishedVars
  <2> QED  BY <2>2, <2>3, <2>6
<1>3. ASSUME NEW r \in Reloaders, InstallGraph(r)  PROVE Control'
  <2>1. /\ pc[r] # "idle" /\ lock = r /\ r # NoOne
        /\ lock' = lock
        /\ pc'[r] \in {"persist", "fail"}
        /\ \A q \in Reloaders : q # r => pc[q] = "idle" /\ pc'[q] = "idle"
    BY <1>3, OneReload, ReloadAssumption DEF InstallGraph, TypeOK, ReloadTypes, Mutex
  <2>2. Mutex' /\ AllOrNothing'
    BY <2>1 DEF Mutex, AllOrNothing
  <2>3. CommitNeverConflicts' /\ (tun = current.tun)'
    BY <1>3, <2>1 DEF InstallGraph, CommitNeverConflicts, publishedVars, TypeOK, ReloadTypes
  <2>4. ASSUME NEW q \in Reloaders  PROVE PublishedBy(q)'
    BY <1>3, <2>1 DEF InstallGraph, PublishedBy, CommitNeverConflicts, Generation,
      publishedVars, auditVars, TypeOK, ReloadTypes
  <2> QED  BY <2>2, <2>3, <2>4
<1>4. ASSUME NEW r \in Reloaders, ReplaceBootstrap(r)  PROVE Control'
  <2>1. /\ pc[r] # "idle" /\ lock = r /\ r # NoOne
        /\ lock' = lock
        /\ pc'[r] \in {"commit"}
        /\ \A q \in Reloaders : q # r => pc[q] = "idle" /\ pc'[q] = "idle"
    BY <1>4, OneReload, ReloadAssumption DEF ReplaceBootstrap, TypeOK, ReloadTypes, Mutex
  <2>2. Mutex' /\ AllOrNothing'
    BY <2>1 DEF Mutex, AllOrNothing
  <2>3. CommitNeverConflicts' /\ (tun = current.tun)'
    BY <1>4, <2>1 DEF ReplaceBootstrap, CommitNeverConflicts, publishedVars, TypeOK, ReloadTypes
  <2>4. ASSUME NEW q \in Reloaders  PROVE PublishedBy(q)'
    BY <1>4, <2>1 DEF ReplaceBootstrap, PublishedBy, CommitNeverConflicts, Generation,
      publishedVars, auditVars, TypeOK, ReloadTypes
  <2> QED  BY <2>2, <2>3, <2>4
<1>5. ASSUME NEW r \in Reloaders, ReplaceBootstrapFails(r)  PROVE Control'
  <2>1. /\ pc[r] # "idle" /\ lock = r /\ r # NoOne
        /\ lock' = lock
        /\ pc'[r] \in {"fail"}
        /\ \A q \in Reloaders : q # r => pc[q] = "idle" /\ pc'[q] = "idle"
    BY <1>5, OneReload, ReloadAssumption DEF ReplaceBootstrapFails, TypeOK, ReloadTypes, Mutex
  <2>2. Mutex' /\ AllOrNothing'
    BY <2>1 DEF Mutex, AllOrNothing
  <2>3. CommitNeverConflicts' /\ (tun = current.tun)'
    BY <1>5, <2>1 DEF ReplaceBootstrapFails, CommitNeverConflicts, publishedVars, TypeOK, ReloadTypes
  <2>4. ASSUME NEW q \in Reloaders  PROVE PublishedBy(q)'
    BY <1>5, <2>1 DEF ReplaceBootstrapFails, PublishedBy, CommitNeverConflicts, Generation,
      publishedVars, auditVars, TypeOK, ReloadTypes
  <2> QED  BY <2>2, <2>3, <2>4
<1>6. ASSUME NEW r \in Reloaders, CommitReconfigure(r)  PROVE Control'
  <2>1. /\ pc[r] # "idle" /\ lock = r /\ r # NoOne
        /\ lock' = lock
        /\ pc'[r] \in {"tun", "fail"}
        /\ \A q \in Reloaders : q # r => pc[q] = "idle" /\ pc'[q] = "idle"
    BY <1>6, OneReload, ReloadAssumption DEF CommitReconfigure, TypeOK, ReloadTypes, Mutex
  <2>2. Mutex' /\ AllOrNothing'
    BY <2>1 DEF Mutex, AllOrNothing
  <2>3. CommitNeverConflicts' /\ (tun = current.tun)'
    BY <1>6, <2>1 DEF CommitReconfigure, CommitNeverConflicts, publishedVars, TypeOK, ReloadTypes
  <2>4. ASSUME NEW q \in Reloaders  PROVE PublishedBy(q)'
    BY <1>6, <2>1 DEF CommitReconfigure, PublishedBy, CommitNeverConflicts, Generation,
      publishedVars, auditVars, TypeOK, ReloadTypes
  <2> QED  BY <2>2, <2>3, <2>4
<1>7. ASSUME NEW r \in Reloaders, WriteTun(r)  PROVE Control'
  <2>1. /\ pc[r] # "idle" /\ lock = r /\ r # NoOne
        /\ lock' = lock
        /\ pc'[r] \in {"status"}
        /\ \A q \in Reloaders : q # r => pc[q] = "idle" /\ pc'[q] = "idle"
    BY <1>7, OneReload, ReloadAssumption DEF WriteTun, TypeOK, ReloadTypes, Mutex
  <2>2. Mutex' /\ AllOrNothing'
    BY <2>1 DEF Mutex, AllOrNothing
  <2>3. CommitNeverConflicts' /\ (tun = current.tun)'
    BY <1>7, <2>1 DEF WriteTun, CommitNeverConflicts, publishedVars, TypeOK, ReloadTypes
  <2>4. ASSUME NEW q \in Reloaders  PROVE PublishedBy(q)'
    BY <1>7, <2>1 DEF WriteTun, PublishedBy, CommitNeverConflicts, Generation,
      publishedVars, auditVars, TypeOK, ReloadTypes
  <2> QED  BY <2>2, <2>3, <2>4
<1>8. ASSUME NEW r \in Reloaders, RecordApplied(r)  PROVE Control'
  <2>1. /\ pc[r] # "idle" /\ lock = r /\ r # NoOne
        /\ lock' = lock
        /\ pc'[r] \in {"push"}
        /\ \A q \in Reloaders : q # r => pc[q] = "idle" /\ pc'[q] = "idle"
    BY <1>8, OneReload, ReloadAssumption DEF RecordApplied, TypeOK, ReloadTypes, Mutex
  <2>2. Mutex' /\ AllOrNothing'
    BY <2>1 DEF Mutex, AllOrNothing
  <2>3. CommitNeverConflicts' /\ (tun = current.tun)'
    BY <1>8, <2>1 DEF RecordApplied, CommitNeverConflicts, publishedVars, TypeOK, ReloadTypes
  <2>4. ASSUME NEW q \in Reloaders  PROVE PublishedBy(q)'
    BY <1>8, <2>1 DEF RecordApplied, PublishedBy, CommitNeverConflicts, Generation,
      publishedVars, auditVars, TypeOK, ReloadTypes
  <2> QED  BY <2>2, <2>3, <2>4
<1>9. ASSUME NEW r \in Reloaders, RecordFailed(r)  PROVE Control'
  <2>1. /\ pc[r] # "idle" /\ lock = r /\ r # NoOne
        /\ lock' = lock
        /\ pc'[r] \in {"push"}
        /\ \A q \in Reloaders : q # r => pc[q] = "idle" /\ pc'[q] = "idle"
    BY <1>9, OneReload, ReloadAssumption DEF RecordFailed, RecordUnchanged, TypeOK, ReloadTypes, Mutex
  <2>2. Mutex' /\ AllOrNothing'
    BY <2>1 DEF Mutex, AllOrNothing
  <2>3. CommitNeverConflicts' /\ (tun = current.tun)'
    BY <1>9, <2>1 DEF RecordFailed, RecordUnchanged, CommitNeverConflicts, publishedVars, TypeOK, ReloadTypes
  <2>4. ASSUME NEW q \in Reloaders  PROVE PublishedBy(q)'
    BY <1>9, <2>1 DEF RecordFailed, RecordUnchanged, PublishedBy, CommitNeverConflicts, Generation,
      publishedVars, auditVars, TypeOK, ReloadTypes
  <2> QED  BY <2>2, <2>3, <2>4
<1>10. ASSUME NEW r \in Reloaders, Push(r)  PROVE Control'
  <2>1. /\ lock' = NoOne /\ pc[r] = "push"
        /\ \A q \in Reloaders : pc'[q] = "idle"
    BY <1>10, OneReload DEF Push, TypeOK, ReloadTypes
  <2>2. Mutex' /\ CommitNeverConflicts' /\ \A q \in Reloaders : PublishedBy(q)'
    BY <2>1, ReloadAssumption DEF Mutex, CommitNeverConflicts, PublishedBy
  <2>3. routing.gen + 1 \notin DOMAIN egress
    BY <2>1, OneReload, <1>10 DEF GraphsSound, EgressWindow, InFlight, Push
  <2>4. \A g \in DOMAIN egress : g <= routing.gen
    BY <2>3 DEF GraphsSound, EgressWindow, TypeOK, PublishedTypes, Decisions
  <2>5. AllOrNothing' /\ (tun = current.tun)'
    BY <1>10, <2>1, <2>4 DEF Push, PublishedBy, AllOrNothing, publishedVars
  <2> QED  BY <2>2, <2>5
<1>11. CASE Edit \/ (\E r \in Reloaders : Request(r)) \/ (\E s \in Sessions : SessionStep(s))
            \/ UNCHANGED vars
  BY <1>1, <1>11 DEF Edit, Request, SessionStep, Select, Dial, DialExpired, Finish,
    reloadVars, publishedVars, auditVars, vars
<1> QED
  BY <1>2, <1>3, <1>4, <1>5, <1>6, <1>7, <1>8, <1>9, <1>10, <1>11 DEF Next, ReloadStep

(* A step that leaves the map, the routing and the decisions alone, and no   *)
(* reload enters or leaves its in-flight part, keeps the data part.          *)
LEMMA GraphsFrame ==
  ASSUME GraphsSound, UNCHANGED <<routing, egress, decision, graph>>,
         \A q \in Reloaders : /\ InFlight(q)' <=> InFlight(q)
                              /\ InFlight(q) => cand'[q] = cand[q],
         \A s \in Sessions : phase'[s] = "relaying" => phase[s] = "relaying"
  PROVE  GraphsSound'
<1>1. EgressWindow'
  BY DEF GraphsSound, EgressWindow
<1>2. CurrentRetained' /\ EgressBounded' /\ DecisionsSound' /\ SessionsKeepTheirGraph'
  BY DEF GraphsSound, CurrentRetained, EgressBounded, DecisionsSound, SessionsKeepTheirGraph
<1> QED  BY <1>1, <1>2 DEF GraphsSound

(* install adds the next generation and keeps the window below it.           *)
LEMMA InstallKeeps ==
  ASSUME IInv, NEW r \in Reloaders, InstallGraph(r), cand[r].fwd \in Buildable
  PROVE  GraphsSound'
<1> DEFINE n == routing.gen + 1
           gens == DOMAIN egress \cup {n}
<1>1. /\ routing.gen \in Nat /\ routing.gen >= 1 /\ n \in Nat
      /\ DOMAIN egress \subseteq 0..n
      /\ Generation(r) = n
  BY DEF IInv, TypeOK, PublishedTypes, Decisions, GraphsSound, EgressWindow, Control,
    CommitNeverConflicts, InstallGraph, Generation
<1>2. gens \in SUBSET (0..n) /\ gens \in SUBSET Nat /\ IsFiniteSet(gens)
  <2>1. IsFiniteSet(0..n)
    BY <1>1, FS_Interval
  <2>2. gens \in SUBSET (0..n)
    BY <1>1
  <2> QED  BY <1>1, <2>1, <2>2, FS_Subset
<1>3. /\ DOMAIN egress' = Newest(gens)
      /\ \A g \in DOMAIN egress' : egress'[g] = IF g = n THEN cand[r].fwd ELSE egress[g]
      /\ UNCHANGED <<routing, decision, phase, graph, cand>>
  BY <1>1 DEF InstallGraph, Install, sessionVars
<1>4. \A k \in gens : k + Retained > n => k \in DOMAIN egress'
  BY <1>1, <1>2, <1>3, NewestKeeps
<1>5. n \in DOMAIN egress' /\ routing.gen \in DOMAIN egress'
  BY <1>1, <1>4, RetainedAssumption DEF IInv, GraphsSound, CurrentRetained
<1>6. DOMAIN egress' \subseteq gens
  BY <1>3 DEF Newest
<1>7. EgressBounded'
  <2>1. Cardinality(DOMAIN egress') <= Retained
    BY <1>2, <1>3, NewestBounded
  <2>2. \A g \in DOMAIN egress' : g \in 0..n
    BY <1>2, <1>6
  <2> QED  BY <1>1, <1>3, <2>1, <2>2 DEF EgressBounded
<1>8. /\ pc'[r] = "persist"
      /\ \A q \in Reloaders : q # r => pc'[q] = "idle"
  BY OneReload DEF InstallGraph, IInv, Control, TypeOK, ReloadTypes
<1>9. EgressWindow'
  <2>1. \A k \in 1..routing.gen : k + Retained - 1 > routing.gen => k \in DOMAIN egress'
    <3>1. ASSUME NEW k \in 1..routing.gen, k + Retained - 1 > routing.gen
          PROVE  k \in gens /\ k + Retained > n
      BY <1>1, <3>1, RetainedAssumption DEF IInv, GraphsSound, EgressWindow
    <3> QED  BY <1>4, <3>1
  <2>2. \A g \in DOMAIN egress' : g <= routing.gen + 1
    BY <1>1, <1>2, <1>6
  <2> QED
    BY Zenon, <1>1, <1>3, <1>5, <1>8, <2>1, <2>2 DEF EgressWindow, InFlight
<1>10. CurrentRetained'
  <2>1. egress[routing.gen] = routing.fwd /\ routing.gen # n
    BY <1>1 DEF CurrentRetained, IInv, GraphsSound
  <2>2. egress'[routing.gen] = routing.fwd
    BY <1>3, <1>5, <2>1
  <2> QED  BY <1>3, <1>5, <2>2 DEF CurrentRetained
<1>11. DecisionsSound'
  <2>1. ASSUME NEW s \in Sessions  PROVE decision[s].gen \in 1..routing.gen
    BY DEF IInv, GraphsSound, DecisionsSound
  <2>2. ASSUME NEW s \in Sessions, decision[s].gen \in DOMAIN egress'
        PROVE  egress'[decision[s].gen] = decision[s].fwd
    <3>1. decision[s].gen # n /\ decision[s].gen \in DOMAIN egress
      BY <1>1, <1>6, <2>1, <2>2
    <3> QED  BY <1>3, <2>2, <3>1 DEF IInv, GraphsSound, DecisionsSound
  <2> QED  BY <1>3, <2>1, <2>2 DEF DecisionsSound
<1>12. SessionsKeepTheirGraph'
  BY <1>3 DEF IInv, GraphsSound, SessionsKeepTheirGraph
<1> QED  BY <1>7, <1>9, <1>10, <1>11, <1>12 DEF GraphsSound

(* A reload that fails gives its generation back and nothing else.           *)
LEMMA RemoveKeeps ==
  ASSUME IInv, NEW r \in Reloaders, ReplaceBootstrapFails(r)
  PROVE  GraphsSound'
<1>1. /\ routing.gen \in Nat /\ routing.gen >= 1
      /\ Generation(r) = routing.gen + 1
      /\ DOMAIN egress \subseteq Nat
  BY DEF IInv, TypeOK, PublishedTypes, Decisions, GraphsSound, EgressWindow, Control,
    CommitNeverConflicts, ReplaceBootstrapFails, Generation
<1>2. /\ DOMAIN egress' = DOMAIN egress \ {routing.gen + 1}
      /\ \A g \in DOMAIN egress' : egress'[g] = egress[g]
      /\ UNCHANGED <<routing, decision, phase, graph, cand>>
  BY <1>1 DEF ReplaceBootstrapFails, Remove, sessionVars
<1>3. \A q \in Reloaders : ~ InFlight(q)'
  BY OneReload DEF ReplaceBootstrapFails, IInv, Control, TypeOK, ReloadTypes, InFlight
<1>4. EgressWindow'
  BY <1>1, <1>2, <1>3 DEF EgressWindow, IInv, GraphsSound
<1>5. EgressBounded'
  <2>1. DOMAIN egress \subseteq 0..(routing.gen + 1)
    BY <1>1 DEF IInv, GraphsSound, EgressBounded
  <2>2. IsFiniteSet(DOMAIN egress)
    <3>1. IsFiniteSet(0..(routing.gen + 1))
      BY <1>1, FS_Interval
    <3> QED  BY Zenon, <2>1, <3>1, FS_Subset
  <2>3. DOMAIN egress' \subseteq DOMAIN egress
    BY <1>2
  <2>4. /\ Cardinality(DOMAIN egress') <= Cardinality(DOMAIN egress)
        /\ Cardinality(DOMAIN egress') \in Nat /\ Cardinality(DOMAIN egress) \in Nat
    BY <2>2, <2>3, FS_Subset, FS_CardinalityType
  <2> QED
    BY <1>2, <2>3, <2>4, RetainedAssumption DEF EgressBounded, IInv, GraphsSound
<1>6. CurrentRetained' /\ DecisionsSound' /\ SessionsKeepTheirGraph'
  BY <1>1, <1>2 DEF IInv, GraphsSound, CurrentRetained, DecisionsSound, SessionsKeepTheirGraph
<1> QED  BY <1>4, <1>5, <1>6 DEF GraphsSound

(* The commit publishes the generation whose graph was installed.            *)
LEMMA CommitKeeps ==
  ASSUME IInv, NEW r \in Reloaders, CommitReconfigure(r)
  PROVE  GraphsSound'
<1>1. /\ routing.gen \in Nat /\ routing.gen >= 1 /\ DOMAIN egress \subseteq Nat
      /\ routing' = [gen |-> routing.gen + 1, fwd |-> cand[r].fwd]
      /\ UNCHANGED <<egress, decision, phase, graph, cand>>
  BY DEF IInv, TypeOK, PublishedTypes, Decisions, GraphsSound, EgressWindow, Control,
    CommitNeverConflicts, CommitReconfigure, Generation, sessionVars
<1>2. routing.gen + 1 \in DOMAIN egress /\ egress[routing.gen + 1] = cand[r].fwd
  BY DEF IInv, GraphsSound, EgressWindow, InFlight, CommitReconfigure
<1>3. \A q \in Reloaders : ~ InFlight(q)'
  BY OneReload DEF CommitReconfigure, IInv, Control, TypeOK, ReloadTypes, InFlight
<1>4. EgressWindow'
  <2>1. \A k \in 1..(routing.gen + 1) :
          k + Retained - 1 > routing.gen + 1 => k \in DOMAIN egress
    BY <1>1, <1>2, RetainedAssumption DEF IInv, GraphsSound, EgressWindow
  <2>2. \A g \in DOMAIN egress : g <= routing.gen + 1 /\ g \in Nat
    BY <1>1 DEF IInv, GraphsSound, EgressWindow
  <2> QED  BY <1>1, <1>3, <2>1, <2>2 DEF EgressWindow
<1>5. CurrentRetained' /\ SessionsKeepTheirGraph' /\ DecisionsSound'
  BY <1>1, <1>2 DEF CurrentRetained, IInv, GraphsSound, SessionsKeepTheirGraph, DecisionsSound
<1>6. EgressBounded'
  BY <1>1 DEF EgressBounded, IInv, GraphsSound
<1> QED  BY <1>4, <1>5, <1>6 DEF GraphsSound

(* Every step keeps the data part.                                           *)
LEMMA GraphsStep == IInv /\ [Next]_vars => GraphsSound'
<1> SUFFICES ASSUME IInv, [Next]_vars  PROVE GraphsSound'
  OBVIOUS
<1>1. GraphsSound /\ TypeOK /\ Mutex
  BY DEF IInv, Control
<1>2. CASE Edit \/ (\E r \in Reloaders : Request(r)) \/ UNCHANGED vars
  BY <1>1, <1>2, GraphsFrame DEF Edit, Request, InFlight, reloadVars, publishedVars,
    sessionVars, vars
<1>3. ASSUME NEW r \in Reloaders,
             Begin(r) \/ WriteTun(r) \/ RecordApplied(r) \/ RecordFailed(r) \/ Push(r)
      PROVE  GraphsSound'
  <2>1. UNCHANGED <<routing, egress, decision, phase, graph>>
    BY <1>3 DEF Begin, WriteTun, RecordApplied, RecordFailed, Push, publishedVars, sessionVars
  <2>2. ~ InFlight(r) /\ ~ InFlight(r)'
    BY <1>1, <1>3 DEF Begin, WriteTun, RecordApplied, RecordFailed, RecordUnchanged, Push,
      InFlight, TypeOK, ReloadTypes
  <2>3. \A q \in Reloaders : q # r => pc'[q] = pc[q] /\ cand'[q] = cand[q]
    BY <1>1, <1>3 DEF Begin, WriteTun, RecordApplied, RecordFailed, RecordUnchanged, Push,
      TypeOK, ReloadTypes
  <2> QED  BY <1>1, <2>1, <2>2, <2>3, GraphsFrame DEF InFlight
<1>4. ASSUME NEW r \in Reloaders, InstallGraph(r)  PROVE GraphsSound'
  <2>1. CASE cand[r].fwd \in Buildable
    BY <1>4, <2>1, InstallKeeps
  <2>2. CASE cand[r].fwd \notin Buildable
    BY <1>1, <1>4, <2>2, GraphsFrame DEF InstallGraph, InFlight, sessionVars, TypeOK,
      ReloadTypes
  <2> QED  BY <2>1, <2>2
<1>5. ASSUME NEW r \in Reloaders, ReplaceBootstrap(r)  PROVE GraphsSound'
  BY <1>1, <1>5, GraphsFrame DEF ReplaceBootstrap, InFlight, sessionVars, TypeOK,
    ReloadTypes
<1>6. ASSUME NEW s \in Sessions, Select(s)  PROVE GraphsSound'
  <2>1. /\ UNCHANGED <<routing, egress, pc, cand, graph>>
        /\ \A t \in Sessions : decision'[t] = IF t = s THEN routing ELSE decision[t]
        /\ \A t \in Sessions : phase'[t] = "relaying" => phase[t] = "relaying" /\ t # s
    BY <1>1, <1>6 DEF Select, publishedVars, reloadVars, TypeOK, SessionTypes
  <2>2. DecisionsSound'
    BY <1>1, <2>1 DEF DecisionsSound, GraphsSound, CurrentRetained, EgressWindow, TypeOK,
      PublishedTypes, Decisions
  <2>3. EgressWindow' /\ CurrentRetained' /\ EgressBounded' /\ SessionsKeepTheirGraph'
    BY <1>1, <2>1 DEF GraphsSound, EgressWindow, CurrentRetained, EgressBounded, InFlight,
      SessionsKeepTheirGraph
  <2> QED  BY <2>2, <2>3 DEF GraphsSound
<1>7. ASSUME NEW s \in Sessions, Dial(s)  PROVE GraphsSound'
  <2>1. /\ UNCHANGED <<routing, egress, pc, cand, decision>>
        /\ \A t \in Sessions :
             graph'[t] = IF t = s THEN egress[decision[s].gen] ELSE graph[t]
        /\ \A t \in Sessions : t # s => phase'[t] = phase[t]
        /\ decision[s].gen \in DOMAIN egress
    BY Zenon, <1>1, <1>7 DEF Dial, DialGeneration, publishedVars, reloadVars, TypeOK, SessionTypes
  <2>2. SessionsKeepTheirGraph'
    BY <1>1, <2>1 DEF GraphsSound, SessionsKeepTheirGraph, DecisionsSound
  <2>3. EgressWindow' /\ CurrentRetained' /\ EgressBounded' /\ DecisionsSound'
    BY <1>1, <2>1 DEF GraphsSound, EgressWindow, CurrentRetained, EgressBounded, InFlight,
      DecisionsSound
  <2> QED  BY <2>2, <2>3 DEF GraphsSound
<1>8. ASSUME NEW s \in Sessions, DialExpired(s) \/ Finish(s)  PROVE GraphsSound'
  BY Zenon, <1>1, <1>8, GraphsFrame DEF DialExpired, Finish, InFlight, publishedVars, reloadVars,
    TypeOK, SessionTypes
<1> QED
  BY <1>2, <1>3, <1>4, <1>5, <1>6, <1>7, <1>8, RemoveKeeps, CommitKeeps
    DEF Next, ReloadStep, SessionStep

(* The process starts in a state that satisfies the invariant.               *)
LEMMA InitInvariant == Init => IInv
<1> SUFFICES ASSUME Init  PROVE IInv
  OBVIOUS
<1>1. PICK c \in Configs : Start(c)
  BY DEF Init
<1>2. c.fwd \in Forwards /\ c.tun \in Tuns
  BY DEF Forwards, Tuns
<1>3. DOMAIN egress = {1} /\ egress[1] = c.fwd /\ egress \in [{1} -> Forwards]
  BY <1>1, <1>2 DEF Start, NewEgress
<1>4. TypeOK
  <2>1. RequestTypes /\ ReloadTypes
    BY <1>1, ReloadAssumption DEF Start, RequestTypes, ReloadTypes, Records, Steps, Outcomes
  <2>2. PublishedTypes
    BY <1>1, <1>2, <1>3 DEF Start, PublishedTypes, Decisions
  <2>3. AuditTypes /\ SessionTypes
    BY <1>1, <1>2 DEF Start, AuditTypes, SessionTypes, Statuses, Decisions, Phases
  <2> QED  BY <2>1, <2>2, <2>3 DEF TypeOK
<1>5. Control
  BY <1>1, <1>3 DEF Start, Control, Mutex, CommitNeverConflicts, PublishedBy, AllOrNothing
<1>6. EgressWindow /\ CurrentRetained /\ DecisionsSound /\ SessionsKeepTheirGraph
  BY <1>1, <1>3 DEF Start, EgressWindow, CurrentRetained, DecisionsSound, SessionsKeepTheirGraph,
    InFlight
<1>7. EgressBounded
  <2>1. Cardinality(DOMAIN egress) = 1
    BY Zenon, <1>3, FS_Singleton
  <2> QED  BY <1>1, <1>3, <2>1, RetainedAssumption DEF Start, EgressBounded
<1> QED  BY <1>4, <1>5, <1>6, <1>7 DEF IInv, GraphsSound

(* The inductive invariant.                                                  *)
THEOREM Invariance == Spec => []IInv
<1>1. IInv /\ [Next]_vars => IInv'
  BY TypeStep, ControlStep, GraphsStep DEF IInv
<1> QED  BY InitInvariant, <1>1, PTL DEF Spec

(* The types, for every number of reloaders, sessions and generations.       *)
THEOREM TypeCorrect == Spec => []TypeOK
BY Invariance, PTL DEF IInv

(* commit_reconfigure's generation check never fails behind the mutex.       *)
THEOREM NoCommitConflict == Spec => []CommitNeverConflicts
BY Invariance, PTL DEF IInv, Control

(* The running generation always has its graph, so a session that dials at   *)
(* once is never turned away.                                                *)
THEOREM CurrentGenerationRetained == Spec => []CurrentRetained
BY Invariance, PTL DEF IInv, GraphsSound

(* No session ever relays through the graph of another configuration.        *)
THEOREM SessionsNeverCross == Spec => []SessionsKeepTheirGraph
BY Invariance, PTL DEF IInv, GraphsSound

(* The egress map never outgrows its limit.                                  *)
THEOREM EgressStaysBounded == Spec => []EgressBounded
BY Invariance, PTL DEF IInv, GraphsSound

(* Between reloads everything published comes from one configuration.        *)
THEOREM ReloadAllOrNothing == Spec => []AllOrNothing
BY Invariance, PTL DEF IInv, Control

(* A decision outlives Retained - 2 newer generations.                       *)
THEOREM DecisionsExpireOld == Spec => []ExpiresOnlyWhenOld
<1>1. IInv => ExpiresOnlyWhenOld
  <2> SUFFICES ASSUME IInv, NEW s \in Sessions, decision[s].gen \notin DOMAIN egress
               PROVE  routing.gen >= decision[s].gen + Retained - 1
    BY DEF ExpiresOnlyWhenOld
  <2>1. routing.gen \in Nat /\ decision[s].gen \in 1..routing.gen
    BY DEF IInv, TypeOK, PublishedTypes, Decisions, GraphsSound, DecisionsSound
  <2>2. ~ (decision[s].gen + Retained - 1 > routing.gen)
    BY <2>1 DEF IInv, GraphsSound, EgressWindow
  <2> QED  BY <2>1, <2>2, RetainedAssumption
<1> QED  BY <1>1, Invariance, PTL

-------------------------------------------------------------------------------
(* Reloads move the generation by one and never touch a field that needs a   *)
(* restart.                                                                  *)
THEOREM RestartFieldsNeverChange == Spec => RestartFieldsFixed
<1> DEFINE Fixed == /\ current'.static = current.static
                    /\ routing'.gen \in {routing.gen, routing.gen + 1}
<1>1. ASSUME IInv, [Next]_vars  PROVE [Fixed]_vars
  <2>1. CASE UNCHANGED <<current, routing>>
    BY <2>1
  <2>2. ASSUME NEW r \in Reloaders, CommitReconfigure(r)  PROVE Fixed
    <3>1. routing.gen = previous[r]
      BY <1>1, <2>2 DEF CommitReconfigure, IInv, Control, CommitNeverConflicts
    <3>2. current' = current /\ routing' = [gen |-> Generation(r), fwd |-> cand[r].fwd]
      BY Zenon, <2>2, <3>1 DEF CommitReconfigure
    <3> QED  BY <3>1, <3>2 DEF Generation
  <2>3. ASSUME NEW r \in Reloaders, WriteTun(r)  PROVE Fixed
    BY <1>1, <2>3 DEF WriteTun, IInv, Control, PublishedBy
  <2>4. ASSUME NEW r \in Reloaders,
               Request(r) \/ (ReloadStep(r) /\ ~ CommitReconfigure(r) /\ ~ WriteTun(r))
        PROVE  UNCHANGED <<current, routing>>
    BY <2>4 DEF Request, ReloadStep, Begin, InstallGraph, ReplaceBootstrap,
      ReplaceBootstrapFails, RecordApplied, RecordFailed, Push, publishedVars
  <2>5. ASSUME NEW s \in Sessions, SessionStep(s)  PROVE UNCHANGED <<current, routing>>
    BY <2>5 DEF SessionStep, Select, Dial, DialExpired, Finish, publishedVars
  <2>6. CASE Edit \/ UNCHANGED vars
    BY <2>1, <2>6 DEF Edit, vars, publishedVars
  <2> QED  BY <1>1, <2>1, <2>2, <2>3, <2>4, <2>5, <2>6 DEF Next
<1> QED  BY <1>1, Invariance, PTL DEF Spec, RestartFieldsFixed
-------------------------------------------------------------------------------
(* Every step of a reload is, for the sessions, a publication or nothing.    *)
LEMMA StepSimulation == IInv /\ [Next]_vars => [Pinned!Next]_Pinned!vars
<1> SUFFICES ASSUME IInv, [Next]_vars  PROVE [Pinned!Next]_Pinned!vars
  OBVIOUS
<1>1. CASE UNCHANGED <<routing, decision, phase, graph>>
  BY <1>1 DEF Pinned!vars
<1>2. ASSUME NEW r \in Reloaders, CommitReconfigure(r)  PROVE Pinned!Publish
  <2>1. routing' = [gen |-> routing.gen + 1, fwd |-> cand[r].fwd]
    BY <1>2 DEF CommitReconfigure, Generation, IInv, Control, CommitNeverConflicts
  <2>2. cand[r].fwd \in Forwards
    BY CandidateType DEF IInv
  <2> QED  BY Zenon, <1>2, <2>1, <2>2 DEF CommitReconfigure, Pinned!Publish, sessionVars
<1>3. ASSUME NEW s \in Sessions, Select(s)  PROVE Pinned!Select(s)
  <2>1. routing = [gen |-> routing.gen, fwd |-> routing.fwd]
    BY DEF IInv, TypeOK, PublishedTypes, Decisions
  <2> QED  BY Zenon, <1>3, <2>1 DEF Select, Pinned!Select, publishedVars
<1>4. ASSUME NEW s \in Sessions, Dial(s)  PROVE Pinned!Relay(s)
  BY Zenon, <1>4 DEF Dial, DialGeneration, Pinned!Relay, publishedVars, IInv, GraphsSound,
    DecisionsSound
<1>5. ASSUME NEW s \in Sessions, DialExpired(s)  PROVE Pinned!Expire(s)
  <2>1. routing.gen \in Nat /\ decision[s].gen \in 1..routing.gen
    BY DEF IInv, TypeOK, PublishedTypes, Decisions, GraphsSound, DecisionsSound
  <2>2. routing.gen >= decision[s].gen + (Retained - 1)
    BY <1>5, <2>1, RetainedAssumption DEF DialExpired, DialGeneration, IInv, GraphsSound,
      EgressWindow
  <2> QED  BY <1>5, <2>2 DEF DialExpired, Pinned!Expire, publishedVars
<1>6. ASSUME NEW s \in Sessions, Finish(s)  PROVE Pinned!Finish(s)
  BY <1>6 DEF Finish, Pinned!Finish, publishedVars
<1>7. ASSUME NEW r \in Reloaders,
             Request(r) \/ (ReloadStep(r) /\ ~ CommitReconfigure(r))
      PROVE  UNCHANGED <<routing, decision, phase, graph>>
  BY Zenon, <1>7 DEF Request, ReloadStep, Begin, InstallGraph, ReplaceBootstrap,
    ReplaceBootstrapFails, WriteTun, RecordApplied, RecordFailed, Push, publishedVars,
    sessionVars
<1>8. CASE Edit \/ UNCHANGED vars
  BY <1>1, <1>8 DEF Edit, vars, publishedVars, sessionVars
<1> QED
  BY <1>1, <1>2, <1>3, <1>4, <1>5, <1>6, <1>7, <1>8
    DEF Next, SessionStep, Pinned!Next

(* Hot reload implements the atomic switch of configurations that sessions   *)
(* are promised.                                                             *)
THEOREM ReloadImplementsPinned == Spec => ImplementsPinned
<1>1. Init => Pinned!Init
  <2> SUFFICES ASSUME Init  PROVE Pinned!Init
    OBVIOUS
  <2>1. PICK c \in Configs : Start(c)
    BY DEF Init
  <2> QED  BY Zenon, <2>1 DEF Start, Pinned!Init, Forwards
<1> QED
  BY <1>1, StepSimulation, Invariance, PTL DEF Spec, ImplementsPinned, Pinned!Spec
-------------------------------------------------------------------------------
(* What the ring and an unpushed record promise each other: the ring ends    *)
(* where the status stands, or where the record about to be pushed starts.   *)
Moves(b) == b.after = b.before + (IF b.outcome = "applied" THEN 1 ELSE 0)
Last == audits[Len(audits)]

AuditOpen ==
  /\ audits # <<>> => Last.id = nextId
  /\ \A r \in Reloaders : pc[r] = "push" =>
       /\ Moves(record[r])
       /\ record[r].after = status.gen
       /\ audits # <<>> => record[r].before = Last.body.after
  /\ (\A r \in Reloaders : pc[r] # "push") => (audits # <<>> => Last.body.after = status.gen)

(* The ring itself, without the clause about its last record.                *)
RingSound ==
  /\ Len(audits) <= AuditLimit
  /\ \A i \in 1..Len(audits) : Moves(audits[i].body)
  /\ \A i \in 1..(Len(audits) - 1) :
       /\ audits[i + 1].id = audits[i].id + 1
       /\ audits[i + 1].body.before = audits[i].body.after

(* What push_back leaves in the ring.                                        *)
LEMMA PushBackFacts ==
  ASSUME NEW S, NEW ring \in Seq(S), NEW item \in S, Len(ring) <= AuditLimit,
         NEW new, new = PushBack(ring, item),
         NEW d, d = IF Len(ring) = AuditLimit THEN 1 ELSE 0
  PROVE  /\ Len(new) = Len(ring) - d + 1
         /\ Len(new) <= AuditLimit
         /\ \A i \in 1..(Len(new) - 1) : new[i] = ring[i + d]
         /\ new[Len(new)] = item
<1> USE ReloadAssumption
<1>1. CASE Len(ring) = AuditLimit
  <2>1. /\ Tail(ring) \in Seq(S)
        /\ Len(Tail(ring)) = Len(ring) - 1
        /\ \A i \in 1..(Len(ring) - 1) : Tail(ring)[i] = ring[i + 1]
    BY <1>1
  <2> QED  BY <1>1, <2>1 DEF PushBack
<1>2. CASE Len(ring) # AuditLimit
  BY <1>2 DEF PushBack
<1> QED  BY <1>1, <1>2

(* Pushing the record of a finished reload keeps the history gapless.        *)
LEMMA PushKeepsRing ==
  ASSUME IInv, AuditOpen, RingSound, NEW r \in Reloaders, Push(r)
  PROVE  RingSound' /\ AuditOpen'
<1> DEFINE item == [id |-> nextId + 1, body |-> record[r]]
           d == IF Len(audits) = AuditLimit THEN 1 ELSE 0
           S == [id : Nat, body : Records]
<1>1. audits \in Seq(S) /\ item \in S /\ Len(audits) <= AuditLimit /\ Len(audits) \in Nat
  BY DEF IInv, TypeOK, AuditTypes, ReloadTypes, RingSound
<1>2. audits' = PushBack(audits, item) /\ nextId' = nextId + 1 /\ UNCHANGED status
  BY DEF Push
<1>3. /\ Len(audits') = Len(audits) - d + 1
      /\ Len(audits') <= AuditLimit
      /\ \A i \in 1..(Len(audits') - 1) : audits'[i] = audits[i + d]
      /\ audits'[Len(audits')] = item
  <2>1. d = IF Len(audits) = AuditLimit THEN 1 ELSE 0
    OBVIOUS
  <2> HIDE DEF item, d, S
  <2>2. \A new, e : new = PushBack(audits, item)
                     /\ e = (IF Len(audits) = AuditLimit THEN 1 ELSE 0) =>
          /\ Len(new) = Len(audits) - e + 1
          /\ Len(new) <= AuditLimit
          /\ \A i \in 1..(Len(new) - 1) : new[i] = audits[i + e]
          /\ new[Len(new)] = item
    BY <1>1, PushBackFacts
  <2> QED  BY <1>2, <2>1, <2>2
<1>4. d \in {0, 1} /\ Len(audits') \in Nat \ {0} /\ AuditLimit \in Nat \ {0}
  BY <1>1, <1>3, ReloadAssumption
<1>5. Moves(record[r]) /\ record[r].after = status.gen
      /\ (audits # <<>> => record[r].before = Last.body.after /\ Last.id = nextId)
  BY DEF AuditOpen, Push
<1>6. \A i \in 1..Len(audits') : Moves(audits'[i].body)
  <2>1. ASSUME NEW i \in 1..(Len(audits') - 1)  PROVE Moves(audits'[i].body)
    <3>1. audits'[i] = audits[i + d] /\ i + d \in 1..Len(audits)
      BY <1>1, <1>3, <1>4
    <3> QED  BY <3>1 DEF RingSound
  <2>2. Moves(audits'[Len(audits')].body)
    BY <1>3, <1>5
  <2> QED  BY <1>4, <2>1, <2>2
<1>7. ASSUME NEW i \in 1..(Len(audits') - 1)
      PROVE  /\ audits'[i + 1].id = audits'[i].id + 1
             /\ audits'[i + 1].body.before = audits'[i].body.after
  <2>1. CASE i + 1 < Len(audits')
    <3>1. audits'[i] = audits[i + d] /\ audits'[i + 1] = audits[i + d + 1]
      BY <1>3, <1>4, <2>1
    <3>2. i + d \in 1..(Len(audits) - 1)
      BY <1>1, <1>3, <1>4, <2>1
    <3> QED  BY <3>1, <3>2 DEF RingSound
  <2>2. CASE i + 1 = Len(audits')
    <3>1. audits'[i + 1] = item
      BY <1>3, <2>2
    <3>2. i + d = Len(audits) /\ audits'[i] = audits[Len(audits)] /\ audits # <<>>
      BY <1>1, <1>3, <1>4, <2>2
    <3> QED  BY <1>5, <3>1, <3>2 DEF Last
  <2> QED  BY <1>4, <2>1, <2>2
<1>8. RingSound'
  BY <1>3, <1>6, <1>7 DEF RingSound
<1>9. \A q \in Reloaders : pc'[q] # "push"
  BY OneReload DEF Push, IInv, Control, TypeOK, ReloadTypes
<1>10. AuditOpen'
  BY <1>2, <1>3, <1>5, <1>9 DEF AuditOpen, Last
<1> QED  BY <1>8, <1>10

(* record_unchanged prepares a record that continues the ring.               *)
LEMMA RecordUnchangedContinues ==
  ASSUME IInv, AuditOpen, NEW r \in Reloaders, pc[r] # "push",
         \A q \in Reloaders : q # r => pc[q] = "idle",
         NEW result \in Outcomes \ {"applied"}, NEW candidate,
         RecordUnchanged(r, result, candidate), UNCHANGED <<audits, nextId>>
  PROVE  AuditOpen'
<1>1. status.gen \in Nat /\ status'.gen = status.gen
  BY DEF RecordUnchanged, IInv, TypeOK, AuditTypes, Statuses
<1>2. /\ pc'[r] = "push"
      /\ record'[r] = [outcome |-> result, cand |-> candidate,
                       before |-> status.gen, after |-> status.gen]
      /\ \A q \in Reloaders : q # r => pc'[q] = "idle"
  BY DEF RecordUnchanged, IInv, TypeOK, ReloadTypes
<1>3. audits # <<>> => Last.body.after = status.gen /\ Last.id = nextId
  BY DEF AuditOpen
<1>4. Last' = Last /\ audits' = audits /\ nextId' = nextId
  BY DEF Last
<1>5. record'[r].after = status'.gen /\ record'[r].before = status.gen
  BY <1>1, <1>2
<1>6. audits' # <<>> => record'[r].before = Last'.body.after /\ Last'.id = nextId'
  BY <1>3, <1>4, <1>5
<1>7. Moves(record[r])'
  BY <1>1, <1>2 DEF Moves
<1> QED  BY <1>2, <1>5, <1>6, <1>7 DEF AuditOpen

(* Every step keeps the ring and the record about to be pushed in agreement. *)
LEMMA AuditStep == IInv /\ AuditOpen /\ RingSound /\ [Next]_vars => RingSound' /\ AuditOpen'
<1> SUFFICES ASSUME IInv, AuditOpen, RingSound, [Next]_vars  PROVE RingSound' /\ AuditOpen'
  OBVIOUS
<1>1. UNCHANGED audits => RingSound'
  BY DEF RingSound
<1>2. ASSUME NEW r \in Reloaders, Begin(r)  PROVE AuditOpen' /\ UNCHANGED audits
  <2>1. \A q \in Reloaders : pc[q] = "idle"
    BY <1>2, ReloadAssumption DEF Begin, MutexFree, IInv, Control, Mutex
  <2>2. CASE \E result \in Outcomes \ {"applied"}, candidate \in Configs \cup {NoConfig} :
               RecordUnchanged(r, result, candidate)
    BY <1>2, <2>1, <2>2, RecordUnchangedContinues DEF Begin
  <2>3. CASE /\ pc' = [pc EXCEPT ![r] = "install"]
             /\ UNCHANGED <<status, record>>
    BY Zenon, <1>2, <2>1, <2>3 DEF Begin, AuditOpen, Last, IInv, TypeOK, ReloadTypes
  <2>4. file # InvalidFile /\ Disposition(current, file) # "apply" =>
          Disposition(current, file) \in Outcomes \ {"applied"} /\ file \in Configs
    BY DEF Disposition, Outcomes, IInv, TypeOK, RequestTypes
  <2> QED  BY <1>2, <2>2, <2>3, <2>4 DEF Begin, Outcomes
<1>3. ASSUME NEW r \in Reloaders, RecordFailed(r)  PROVE AuditOpen' /\ UNCHANGED audits
  <2>1. pc[r] # "push" /\ \A q \in Reloaders : q # r => pc[q] = "idle"
    BY <1>3, OneReload DEF RecordFailed, IInv, Control
  <2> QED  BY <1>3, <2>1, RecordUnchangedContinues DEF RecordFailed, Outcomes
<1>4. ASSUME NEW r \in Reloaders, RecordApplied(r)  PROVE AuditOpen' /\ UNCHANGED audits
  <2>1. /\ \A q \in Reloaders : q # r => pc[q] = "idle" /\ pc'[q] = "idle"
        /\ pc'[r] = "push"
        /\ record'[r] = [outcome |-> "applied", cand |-> cand[r],
                         before |-> status.gen, after |-> Generation(r)]
        /\ status'.gen = Generation(r)
        /\ status.gen = previous[r]
        /\ UNCHANGED <<audits, nextId>>
    BY Zenon, <1>4, OneReload DEF RecordApplied, IInv, Control, PublishedBy, TypeOK, ReloadTypes
  <2>2. audits # <<>> => Last.body.after = status.gen /\ Last.id = nextId
    BY <1>4, <2>1 DEF RecordApplied, AuditOpen
  <2>3. Moves(record'[r])
    BY <2>1 DEF Moves, Generation
  <2>4. record'[r].after = status'.gen /\ record'[r].before = status.gen
    BY <2>1
  <2>5. Last' = Last /\ audits' = audits /\ nextId' = nextId
    BY <2>1 DEF Last
  <2>6. audits' # <<>> => record'[r].before = Last'.body.after /\ Last'.id = nextId'
    BY <2>2, <2>4, <2>5
  <2>7. Moves(record[r])'
    BY <2>3 DEF Moves
  <2> QED  BY <2>1, <2>4, <2>6, <2>7 DEF AuditOpen
<1>5. ASSUME NEW r \in Reloaders,
             \/ InstallGraph(r) \/ ReplaceBootstrap(r) \/ ReplaceBootstrapFails(r)
             \/ CommitReconfigure(r) \/ WriteTun(r)
      PROVE  AuditOpen' /\ UNCHANGED audits
  <2>1. /\ UNCHANGED <<status, audits, nextId>>
        /\ \A q \in Reloaders : pc[q] # "push" /\ pc'[q] # "push"
    BY <1>5, OneReload DEF InstallGraph, ReplaceBootstrap, ReplaceBootstrapFails,
      CommitReconfigure, WriteTun, auditVars, IInv, Control, TypeOK, ReloadTypes
  <2> QED  BY <2>1 DEF AuditOpen, Last
<1>6. CASE Edit \/ (\E r \in Reloaders : Request(r)) \/ (\E s \in Sessions : SessionStep(s))
           \/ UNCHANGED vars
  BY Zenon, <1>1, <1>6 DEF Edit, Request, SessionStep, Select, Dial, DialExpired, Finish, vars,
    reloadVars, auditVars, AuditOpen, Last
<1> QED
  BY <1>1, <1>2, <1>3, <1>4, <1>5, <1>6, PushKeepsRing DEF Next, ReloadStep

(* The audit ring is a gapless history that ends at the running generation.  *)
THEOREM AuditIsGapless == Spec => []AuditChain
<1>1. Init => AuditOpen /\ RingSound
  <2> SUFFICES ASSUME Init  PROVE AuditOpen /\ RingSound
    OBVIOUS
  <2>1. audits = <<>> /\ Len(audits) = 0 /\ \A r \in Reloaders : pc[r] = "idle"
    BY DEF Init, Start
  <2>2. AuditOpen
    BY Zenon, <2>1 DEF AuditOpen
  <2>3. AuditLimit \in Nat /\ 1..Len(audits) = {} /\ 1..(Len(audits) - 1) = {}
    BY <2>1, ReloadAssumption
  <2>4. RingSound
    BY <2>1, <2>3 DEF RingSound
  <2> QED  BY <2>2, <2>4
<1>2. IInv /\ AuditOpen /\ RingSound => AuditChain
  <2> SUFFICES ASSUME IInv, AuditOpen, RingSound  PROVE AuditChain
    OBVIOUS
  <2>1. ASSUME lock = NoOne, audits # <<>>
        PROVE  Last.id = nextId /\ Last.body.after = routing.gen
    <3>1. \A q \in Reloaders : pc[q] # "push"
      BY <2>1, ReloadAssumption DEF IInv, Control, Mutex
    <3> QED  BY <2>1, <3>1 DEF AuditOpen, IInv, Control, AllOrNothing
  <2> QED  BY <2>1 DEF RingSound, AuditChain, Moves, Last
<1> QED  BY <1>1, <1>2, AuditStep, Invariance, PTL DEF Spec
===============================================================================

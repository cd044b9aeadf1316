----------------------- MODULE RuntimeRecovery_proofs ------------------------
(***************************************************************************)
(* Proofs about RuntimeRecovery, for every number of tasks, batch size,    *)
(* queue capacity and bound.                                               *)
(*                                                                         *)
(* The invariant relates three places an id can be: a counter, something   *)
(* in flight (a task, or an observation that is not yet written) and a     *)
(* retained row.  Every id is at most its counter, and an id in flight is  *)
(* larger than every id that a row of an earlier process still holds.      *)
(***************************************************************************)
EXTENDS RuntimeRecovery, TLAPS, NaturalsInduction, WellFoundedInduction

(* Ids that only rows of earlier processes hold.                             *)
OldSids == UNION {r.sid : r \in {x \in Timeline : run \notin x.runs}}
OldDids == UNION {r.did : r \in {x \in decisions \cup shadows : x.run # run}}
OldEids == {r.eid : r \in {x \in events : x.run # run}}

SidsOK(ids) == \A i \in ids : i <= nextSession /\ \A old \in OldSids : old < i
DidsOK(ids) == \A i \in ids : i <= nextDecision /\ \A old \in OldDids : old < i

(* An observation in flight was made by this process.                        *)
ObsOK(o) ==
  /\ o.run = run
  /\ SidsOK(o.sid) /\ DidsOK(o.did)
  /\ o.eid <= nextEvent
  /\ o.type = "event" => \A old \in OldEids : old < o.eid
  /\ o.type # "event" => o.sid # {} /\ o.did # {}

(* What a task holds, and what it has yet to hand over.                      *)
TaskOK(k) ==
  /\ SidsOK(k.sid) /\ DidsOK(k.did)
  /\ k.pc # "idle" => k.sid # {}
  /\ \A i \in 1..Len(k.out) : ObsOK(k.out[i])

QueueOK == \A i \in 1..Len(queue) : ObsOK(queue[i])
WrittenOK == written => queue # <<>> /\ queue[1].type = "event" /\ queue[1].sid # {}

TimelineOK ==
  \A r \in Timeline :
    /\ r.sid # {}
    /\ \A i \in r.sid : i <= nextSession
    /\ \A a \in r.runs : a <= run
DecisionsOK ==
  /\ \A r \in decisions \cup shadows : r.did # {} /\ r.run <= run
  /\ \A r \in decisions \cup shadows : \A i \in r.did : i <= nextDecision
  /\ \A r \in sessions : \A i \in r.did : i <= nextDecision
EventsOK == \A r \in events : r.eid <= nextEvent /\ r.run <= run

(* The inductive invariant.                                                  *)
IInv ==
  /\ TypeOK
  /\ \A t \in Tasks : TaskOK(task[t])
  /\ QueueOK /\ WrittenOK
  /\ TimelineOK /\ DecisionsOK /\ EventsOK
  /\ SessionIdsOfOneRun /\ DecisionIdsOfOneRun /\ EventIdsOfOneRun

-------------------------------------------------------------------------------
(* load_id_watermarks: the largest of a bounded set of ids is one of them,   *)
(* and none is above it.                                                     *)
LEMMA LargestOfBounded ==
  ASSUME NEW ids \in SUBSET Nat, NEW n \in Nat, \A i \in ids : i <= n
  PROVE  Largest(ids) \in Nat /\ \A i \in ids : i <= Largest(ids)
<1>1. CASE ids = {}
  BY <1>1 DEF Largest
<1>2. CASE ids # {}
  <2> DEFINE gaps == {n - i : i \in ids}
  <2>1. gaps \in SUBSET Nat /\ gaps # {}
    <3>1. \A i \in ids : n - i \in Nat
      OBVIOUS
    <3> QED BY Zenon, <1>2, <3>1
  <2>2. \E g \in gaps : \A h \in gaps : <<h, g>> \notin OpToRel(<, Nat)
    BY Zenon, <2>1, NatLessThanWellFounded, WFMin
  <2>3. PICK g \in gaps : \A h \in gaps : <<h, g>> \notin OpToRel(<, Nat)
    BY Zenon, <2>2
  <2>4. PICK m \in ids : g = n - m
    BY Zenon, <2>3
  <2>5. \A j \in ids : j <= m
    <3> TAKE j \in ids
    <3>1. n - j \in gaps /\ n - j \in Nat /\ n - m \in Nat
      OBVIOUS
    <3>2. ~(n - j < n - m)
      BY Zenon, <3>1, <2>3, <2>4 DEF OpToRel
    <3> QED BY <3>2
  <2>6. \E i \in ids : \A j \in ids : j <= i
    BY <2>5
  <2> QED BY Zenon, <2>6, <1>2 DEF Largest
<1> QED BY <1>1, <1>2

(* What is in flight stays in flight in good order while the process lives,  *)
(* its counters only grow and no row of an earlier process appears.          *)
LEMMA InFlightStable ==
  ASSUME run' = run,
         nextEvent \in Nat, nextSession \in Nat, nextDecision \in Nat,
         nextEvent' \in Nat, nextSession' \in Nat, nextDecision' \in Nat,
         nextEvent' >= nextEvent, nextSession' >= nextSession,
         nextDecision' >= nextDecision,
         OldSids' \subseteq OldSids, OldDids' \subseteq OldDids,
         OldEids' \subseteq OldEids
  PROVE  /\ \A ids \in SUBSET Nat : SidsOK(ids) => SidsOK(ids)'
         /\ \A ids \in SUBSET Nat : DidsOK(ids) => DidsOK(ids)'
         /\ \A o \in Observations : ObsOK(o) => ObsOK(o)'
<1>1. \A ids \in SUBSET Nat : SidsOK(ids) => SidsOK(ids)'
  BY DEF SidsOK
<1>2. \A ids \in SUBSET Nat : DidsOK(ids) => DidsOK(ids)'
  BY DEF DidsOK
<1>3. ASSUME NEW o \in Observations, ObsOK(o) PROVE ObsOK(o)'
  <2>1. o.sid \in SUBSET Nat /\ o.did \in SUBSET Nat /\ o.eid \in Nat
    BY DEF Observations
  <2> QED BY <1>1, <1>2, <1>3, <2>1 DEF ObsOK
<1> QED BY <1>1, <1>2, <1>3

(* Steps of a task, the counters and the sink that leave the tables alone    *)
(* make no row an old one.                                                   *)
LEMMA OldUnchanged ==
  ASSUME UNCHANGED <<run, tables>>
  PROVE  /\ UNCHANGED <<OldSids, OldDids, OldEids, Timeline>>
         /\ SessionIdsOfOneRun => SessionIdsOfOneRun'
         /\ DecisionIdsOfOneRun => DecisionIdsOfOneRun'
         /\ EventIdsOfOneRun => EventIdsOfOneRun'
<1>1. UNCHANGED <<OldSids, OldDids, OldEids, Timeline>>
  BY DEF tables, OldSids, OldDids, OldEids, Timeline
<1> QED
  BY <1>1 DEF tables, SessionIdsOfOneRun, DecisionIdsOfOneRun, EventIdsOfOneRun

(* An id that a counter has just given out is larger than every old one.     *)
LEMMA FreshIds ==
  ASSUME IInv
  PROVE  /\ \A old \in OldSids : old \in Nat /\ old <= nextSession
         /\ \A old \in OldDids : old \in Nat /\ old <= nextDecision
         /\ \A old \in OldEids : old \in Nat /\ old <= nextEvent
<1>1. \A r \in Timeline : r.sid \in SUBSET Nat
  BY DEF IInv, TypeOK, TableTypes, Timeline, Rows, SessionRows
<1>2. \A old \in OldSids : old \in Nat /\ old <= nextSession
  BY <1>1 DEF OldSids, IInv, TimelineOK
<1>3. \A old \in OldDids : old \in Nat /\ old <= nextDecision
  BY DEF OldDids, IInv, DecisionsOK, TypeOK, TableTypes, Rows
<1>4. \A old \in OldEids : old \in Nat /\ old <= nextEvent
  BY DEF OldEids, IInv, EventsOK, TypeOK, TableTypes, Rows
<1> QED BY <1>2, <1>3, <1>4

(* A step of task t that leaves the sink and the tables alone.               *)
LEMMA TaskStepKeeps ==
  ASSUME IInv, NEW t \in Tasks,
         UNCHANGED <<run, sink, tables>>,
         now' \in Nat, nextEvent' \in Nat, nextSession' \in Nat, nextDecision' \in Nat,
         nextEvent' >= nextEvent, nextSession' >= nextSession,
         nextDecision' >= nextDecision,
         NEW k \in TaskStates, task' = [task EXCEPT ![t] = k], TaskOK(k)'
  PROVE  IInv'
<1>1. nextEvent \in Nat /\ nextSession \in Nat /\ nextDecision \in Nat
  BY DEF IInv, TypeOK, CounterTypes
<1>2. UNCHANGED <<OldSids, OldDids, OldEids, Timeline>>
      /\ SessionIdsOfOneRun' /\ DecisionIdsOfOneRun' /\ EventIdsOfOneRun'
  BY OldUnchanged DEF IInv
<1>3. /\ \A ids \in SUBSET Nat : SidsOK(ids) => SidsOK(ids)'
      /\ \A ids \in SUBSET Nat : DidsOK(ids) => DidsOK(ids)'
      /\ \A o \in Observations : ObsOK(o) => ObsOK(o)'
  BY <1>1, <1>2, InFlightStable
<1>4. TypeOK'
  <2>1. task' \in [Tasks -> TaskStates]
    BY DEF IInv, TypeOK
  <2> QED BY <2>1 DEF IInv, TypeOK, CounterTypes, SinkTypes, TableTypes, sink, tables
<1>5. \A u \in Tasks : TaskOK(task[u])'
  <2>1. ASSUME NEW x \in TaskStates, TaskOK(x) PROVE TaskOK(x)'
    <3>1. x.sid \in SUBSET Nat /\ x.did \in SUBSET Nat
          /\ \A i \in 1..Len(x.out) : x.out[i] \in Observations
      BY DEF TaskStates
    <3> QED BY <1>3, <2>1, <3>1 DEF TaskOK
  <2>2. ASSUME NEW u \in Tasks, u # t PROVE TaskOK(task[u])'
    <3>1. PICK x \in TaskStates : x = task[u] /\ x = task'[u] /\ TaskOK(x)
      BY <2>2 DEF IInv, TypeOK
    <3> QED BY <2>1, <3>1
  <2>3. TaskOK(task[t])'
    BY DEF IInv, TypeOK
  <2> QED BY <2>2, <2>3
<1>6. QueueOK' /\ WrittenOK'
  <2>1. \A i \in 1..Len(queue) : queue[i] \in Observations
    BY DEF IInv, TypeOK, SinkTypes
  <2> QED BY <1>3, <2>1 DEF IInv, QueueOK, WrittenOK, sink
<1>7. TimelineOK' /\ DecisionsOK' /\ EventsOK'
  <2>1. TimelineOK'
    <3>1. \A r \in Timeline : r.sid \in SUBSET Nat
      BY DEF IInv, TypeOK, TableTypes, Timeline, Rows, SessionRows
    <3> QED BY <1>1, <1>2, <3>1 DEF IInv, TimelineOK
  <2>2. DecisionsOK' /\ EventsOK'
    BY <1>1 DEF IInv, TypeOK, TableTypes, Rows, SessionRows, DecisionsOK, EventsOK, tables
  <2> QED BY <2>1, <2>2
<1> QED BY <1>2, <1>4, <1>5, <1>6, <1>7 DEF IInv

-------------------------------------------------------------------------------
(* next_session_id keeps the invariant.                                      *)
LEMMA OpenSessionKeeps ==
  ASSUME IInv, NEW t \in Tasks, OpenSession(t)
  PROVE  IInv'
<1>1. nextSession \in Nat /\ now \in Nat /\ nextEvent \in Nat /\ nextDecision \in Nat
  BY DEF IInv, TypeOK, CounterTypes
<1>2. PICK k : /\ k = [pc |-> "open", sid |-> {nextSession + 1}, did |-> None, out |-> <<>>]
              /\ task' = [task EXCEPT ![t] = k]
  BY Zenon DEF OpenSession
<1>3. /\ nextSession' = nextSession + 1 /\ now' = now + 1
      /\ UNCHANGED <<run, nextEvent, nextDecision, sink, tables>>
  BY DEF OpenSession
<1>4. k \in TaskStates
  BY <1>1, <1>2 DEF TaskStates, None
<1>5. UNCHANGED OldSids
  BY <1>3, OldUnchanged
<1>6. SidsOK(k.sid)' /\ DidsOK(k.did)'
  BY <1>1, <1>2, <1>3, <1>5, FreshIds DEF SidsOK, DidsOK, None
<1>7. TaskOK(k)'
  BY <1>2, <1>6 DEF TaskOK
<1>8. /\ nextSession' \in Nat /\ nextEvent' \in Nat /\ nextDecision' \in Nat
      /\ nextSession' >= nextSession /\ nextEvent' >= nextEvent
      /\ nextDecision' >= nextDecision /\ now' \in Nat
  BY <1>1, <1>3
<1> QED BY Zenon, <1>2, <1>3, <1>4, <1>7, <1>8, TaskStepKeeps

(* RuntimeState::select keeps the invariant.                                 *)
LEMMA SelectDecisionKeeps ==
  ASSUME IInv, NEW t \in Tasks, SelectDecision(t)
  PROVE  IInv'
<1>1. /\ nextSession \in Nat /\ now \in Nat /\ nextEvent \in Nat /\ nextDecision \in Nat
      /\ run \in Nat
      /\ task[t] \in TaskStates /\ TaskOK(task[t])
  BY DEF IInv, TypeOK, CounterTypes
<1>2. PICK sid, did, shadow, made, k :
        /\ sid = task[t].sid /\ did = {nextDecision + 1}
        /\ shadow = Observation("shadow", 0, sid, did, FALSE)
        /\ made = Observation("decision", 0, sid, did, FALSE)
        /\ k = [pc |-> "selected", sid |-> sid, did |-> did, out |-> <<shadow, made>>]
        /\ task' = [task EXCEPT ![t] = k]
  BY Zenon DEF SelectDecision
<1>3. /\ nextDecision' = nextDecision + 1 /\ now' = now + 1
      /\ UNCHANGED <<run, nextEvent, nextSession, sink, tables>>
      /\ task[t].pc = "open"
  BY DEF SelectDecision
<1>4. sid \in SUBSET Nat /\ sid # {} /\ SidsOK(sid) /\ did \in SUBSET Nat /\ did # {}
  BY <1>1, <1>2, <1>3 DEF TaskStates, TaskOK
<1>5. shadow \in Observations /\ made \in Observations
  BY <1>1, <1>2, <1>4 DEF Observation, Observations
<1>6. /\ k \in TaskStates
      /\ k.pc = "selected" /\ k.sid = sid /\ k.did = did /\ Len(k.out) = 2
      /\ k.out[1] = shadow /\ k.out[2] = made
  <2>1. <<shadow, made>> \in Seq(Observations)
    BY <1>5
  <2> QED BY Zenon, <1>2, <1>4, <2>1 DEF TaskStates
<1>7. UNCHANGED <<OldSids, OldDids, OldEids>>
  BY <1>3, OldUnchanged
<1>8. SidsOK(sid)' /\ DidsOK(did)'
  BY <1>1, <1>2, <1>3, <1>4, <1>7, FreshIds DEF SidsOK, DidsOK
<1>9. ObsOK(shadow)' /\ ObsOK(made)'
  BY <1>1, <1>2, <1>3, <1>4, <1>8 DEF ObsOK, Observation
<1>10. TaskOK(k)'
  <2>1. \A i \in 1..Len(k.out) : i = 1 \/ i = 2
    BY <1>6
  <2> QED BY <1>4, <1>6, <1>8, <1>9, <2>1 DEF TaskOK
<1>11. /\ nextSession' \in Nat /\ nextEvent' \in Nat /\ nextDecision' \in Nat
       /\ nextSession' >= nextSession /\ nextEvent' >= nextEvent
       /\ nextDecision' >= nextDecision /\ now' \in Nat
  BY <1>1, <1>3
<1> QED BY Zenon, <1>2, <1>3, <1>6, <1>10, <1>11, TaskStepKeeps

(* EventStore::record keeps the invariant.                                   *)
LEMMA RecordEventKeeps ==
  ASSUME IInv, NEW t \in Tasks, NEW closes \in BOOLEAN,
         NEW pc \in {"idle", "open", "selected", "active"}, NEW sid, NEW did,
         \/ pc = "idle" /\ sid = {} /\ did = {}
         \/ task[t].pc # "idle" /\ sid = task[t].sid /\ did = task[t].did,
         RecordEvent(t, closes, pc, sid, did)
  PROVE  IInv'
<1>1. /\ nextSession \in Nat /\ now \in Nat /\ nextEvent \in Nat /\ nextDecision \in Nat
      /\ run \in Nat
      /\ task[t] \in TaskStates /\ TaskOK(task[t])
  BY DEF IInv, TypeOK, CounterTypes
<1>2. PICK o, k :
        /\ o = Observation("event", nextEvent + 1, task[t].sid, task[t].did, closes)
        /\ k = [pc |-> pc, sid |-> sid, did |-> did, out |-> <<o>>]
        /\ task' = [task EXCEPT ![t] = k]
  BY Zenon DEF RecordEvent
<1>3. /\ nextEvent' = nextEvent + 1 /\ now' = now + 1
      /\ UNCHANGED <<run, nextSession, nextDecision, sink, tables>>
  BY DEF RecordEvent
<1>4. /\ o \in Observations /\ o.type = "event" /\ o.run = run /\ o.eid = nextEvent + 1
      /\ SidsOK(o.sid) /\ DidsOK(o.did)
      /\ o.sid \in SUBSET Nat /\ o.did \in SUBSET Nat
  BY <1>1, <1>2 DEF Observation, Observations, TaskStates, TaskOK
<1>5. /\ sid \in SUBSET Nat /\ did \in SUBSET Nat /\ SidsOK(sid) /\ DidsOK(did)
      /\ pc # "idle" => sid # {}
  <2>1. CASE pc = "idle" /\ sid = {} /\ did = {}
    BY <2>1 DEF SidsOK, DidsOK
  <2>2. CASE task[t].pc # "idle" /\ sid = task[t].sid /\ did = task[t].did
    BY <1>1, <2>2 DEF TaskStates, TaskOK
  <2> QED BY <2>1, <2>2
<1>6. /\ k \in TaskStates
      /\ k.pc = pc /\ k.sid = sid /\ k.did = did /\ Len(k.out) = 1 /\ k.out[1] = o
  <2>1. <<o>> \in Seq(Observations)
    BY <1>4
  <2> QED BY <1>2, <1>5, <2>1 DEF TaskStates
<1>7. UNCHANGED <<OldSids, OldDids, OldEids>>
  BY <1>3, OldUnchanged
<1>8. SidsOK(sid)' /\ DidsOK(did)' /\ SidsOK(o.sid)' /\ DidsOK(o.did)'
  BY <1>3, <1>4, <1>5, <1>7 DEF SidsOK, DidsOK
<1>9. ObsOK(o)'
  BY <1>1, <1>3, <1>4, <1>7, <1>8, FreshIds DEF ObsOK
<1>10. TaskOK(k)'
  <2>1. \A i \in 1..Len(k.out) : i = 1
    BY <1>6
  <2> QED BY <1>5, <1>6, <1>8, <1>9, <2>1 DEF TaskOK
<1>11. /\ nextSession' \in Nat /\ nextEvent' \in Nat /\ nextDecision' \in Nat
       /\ nextSession' >= nextSession /\ nextEvent' >= nextEvent
       /\ nextDecision' >= nextDecision /\ now' \in Nat
  BY <1>1, <1>3
<1> QED BY Zenon, <1>2, <1>3, <1>6, <1>10, <1>11, TaskStepKeeps

(* A session that ends without an event keeps the invariant.                 *)
LEMMA AbandonKeeps ==
  ASSUME IInv, NEW t \in Tasks, Abandon(t)
  PROVE  IInv'
<1>1. nextSession \in Nat /\ now \in Nat /\ nextEvent \in Nat /\ nextDecision \in Nat
  BY DEF IInv, TypeOK, CounterTypes
<1>2. /\ task' = [task EXCEPT ![t] = Idle]
      /\ UNCHANGED <<run, now, nextEvent, nextSession, nextDecision, sink, tables>>
  BY DEF Abandon, counters
<1>3. Idle \in TaskStates /\ TaskOK(Idle)'
  BY DEF Idle, None, TaskStates, TaskOK, SidsOK, DidsOK
<1>4. /\ nextSession' \in Nat /\ nextEvent' \in Nat /\ nextDecision' \in Nat
      /\ nextSession' >= nextSession /\ nextEvent' >= nextEvent
      /\ nextDecision' >= nextDecision /\ now' \in Nat
  BY <1>1, <1>2
<1> QED BY Zenon, <1>2, <1>3, <1>4, TaskStepKeeps

(* try_send by task t keeps the invariant.                                   *)
LEMMA HandOverKeeps ==
  ASSUME IInv, NEW t \in Tasks, HandOver(t)
  PROVE  IInv'
<1>1. /\ task \in [Tasks -> TaskStates] /\ task[t] \in TaskStates /\ TaskOK(task[t])
      /\ queue \in Seq(Observations) /\ QueueOK
  BY DEF IInv, TypeOK, SinkTypes
<1>2. PICK out, o, k :
        /\ out = task[t].out /\ out # <<>> /\ o = Head(out)
        /\ k = [pc |-> task[t].pc, sid |-> task[t].sid, did |-> task[t].did,
                out |-> Tail(out)]
        /\ task' = [task EXCEPT ![t] = k]
        /\ queue' = TrySend(queue, o)
  BY Zenon DEF HandOver, Ready
<1>3. UNCHANGED <<run, now, nextEvent, nextSession, nextDecision, written, tables>>
  BY DEF HandOver, counters
<1>4. /\ out \in Seq(Observations) /\ Len(out) \in Nat /\ Len(out) > 0
      /\ o \in Observations /\ o = out[1] /\ ObsOK(o)
  BY <1>1, <1>2 DEF TaskStates, TaskOK
<1>5. /\ Tail(out) \in Seq(Observations) /\ Len(Tail(out)) = Len(out) - 1
      /\ \A i \in 1..Len(Tail(out)) : Tail(out)[i] = out[i + 1]
  BY <1>2, <1>4
<1>6. k \in TaskStates /\ TaskOK(k)
  <2>1. k \in TaskStates /\ k.pc = task[t].pc /\ k.sid = task[t].sid
        /\ k.did = task[t].did /\ k.out = Tail(out)
    BY <1>1, <1>2, <1>5 DEF TaskStates
  <2>2. \A i \in 1..Len(out) : ObsOK(out[i])
    BY <1>1, <1>2 DEF TaskOK
  <2>3. \A i \in 1..Len(Tail(out)) : i + 1 \in 1..Len(out)
    BY <1>4, <1>5
  <2>4. \A i \in 1..Len(k.out) : ObsOK(k.out[i])
    BY <1>5, <2>1, <2>2, <2>3
  <2> QED BY <1>1, <2>1, <2>4 DEF TaskOK
<1>7. queue' \in Seq(Observations) /\ \A i \in 1..Len(queue') : ObsOK(queue'[i])
  <2>1. CASE queue' = queue
    BY <1>1, <2>1 DEF QueueOK
  <2>2. CASE queue' = Append(queue, o)
    <3>1. /\ queue' \in Seq(Observations) /\ Len(queue') = Len(queue) + 1
          /\ \A i \in 1..Len(queue) : queue'[i] = queue[i]
          /\ queue'[Len(queue) + 1] = o /\ Len(queue) \in Nat
      BY <1>1, <1>4, <2>2
    <3>2. \A i \in 1..Len(queue') : i \in 1..Len(queue) \/ i = Len(queue) + 1
      BY <3>1
    <3> QED BY <1>1, <1>4, <3>1, <3>2 DEF QueueOK
  <2> QED BY <1>2, <2>1, <2>2 DEF TrySend
<1>8. WrittenOK'
  <2>1. queue # <<>> => queue' # <<>> /\ queue'[1] = queue[1]
    BY <1>1, <1>2, <1>4 DEF TrySend
  <2> QED BY <1>3, <2>1 DEF IInv, WrittenOK
<1>9. UNCHANGED <<OldSids, OldDids, OldEids, Timeline>>
      /\ SessionIdsOfOneRun' /\ DecisionIdsOfOneRun' /\ EventIdsOfOneRun'
  BY <1>3, OldUnchanged DEF IInv
<1>10. \A ids : (SidsOK(ids) => SidsOK(ids)') /\ (DidsOK(ids) => DidsOK(ids)')
  BY <1>3, <1>9 DEF SidsOK, DidsOK
<1>11. \A x : ObsOK(x) => ObsOK(x)'
  BY <1>3, <1>9, <1>10 DEF ObsOK
<1>12. \A x : TaskOK(x) => TaskOK(x)'
  BY <1>10, <1>11 DEF TaskOK
<1>13. task' \in [Tasks -> TaskStates] /\ \A u \in Tasks : TaskOK(task'[u])
  BY Zenon, <1>1, <1>2, <1>6 DEF IInv
<1>14. (\A u \in Tasks : TaskOK(task[u]))' /\ QueueOK'
  BY <1>7, <1>11, <1>12, <1>13 DEF QueueOK
<1>15. TypeOK'
  BY <1>3, <1>7, <1>13 DEF IInv, TypeOK, CounterTypes, SinkTypes, TableTypes, tables
<1>16. TimelineOK' /\ DecisionsOK' /\ EventsOK'
  BY <1>3, <1>9 DEF IInv, TimelineOK, DecisionsOK, EventsOK, tables
<1> QED BY <1>8, <1>9, <1>14, <1>15, <1>16 DEF IInv

-------------------------------------------------------------------------------
(* A step of the worker: what it leaves queued was queued before, and it     *)
(* keeps the tables in order.                                                *)
LEMMA WorkerStepKeeps ==
  ASSUME IInv, UNCHANGED <<run, now, counters, task>>,
         queue' \in Seq(Observations), written' \in BOOLEAN,
         \A i \in 1..Len(queue') : \E j \in 1..Len(queue) : queue'[i] = queue[j],
         WrittenOK', TableTypes',
         OldSids' \subseteq OldSids, OldDids' \subseteq OldDids,
         OldEids' \subseteq OldEids,
         TimelineOK', DecisionsOK', EventsOK',
         SessionIdsOfOneRun', DecisionIdsOfOneRun', EventIdsOfOneRun'
  PROVE  IInv'
<1>1. UNCHANGED <<nextEvent, nextSession, nextDecision>>
  BY DEF counters
<1>2. \A ids : (SidsOK(ids) => SidsOK(ids)') /\ (DidsOK(ids) => DidsOK(ids)')
  BY <1>1 DEF SidsOK, DidsOK
<1>3. \A x : ObsOK(x) => ObsOK(x)'
  BY <1>1, <1>2 DEF ObsOK
<1>4. \A x : TaskOK(x) => TaskOK(x)'
  BY <1>2, <1>3 DEF TaskOK
<1>5. (\A u \in Tasks : TaskOK(task[u]))'
  BY <1>4 DEF IInv
<1>6. QueueOK'
  BY <1>3 DEF IInv, QueueOK
<1>7. TypeOK'
  BY <1>1 DEF IInv, TypeOK, CounterTypes, SinkTypes
<1> QED BY <1>5, <1>6, <1>7 DEF IInv

(* Deleting rows keeps the tables in order.                                  *)
LEMMA DeletedRows ==
  ASSUME IInv, UNCHANGED <<run, counters>>,
         events' \subseteq events, decisions' \subseteq decisions,
         shadows' \subseteq shadows, sessions' \subseteq sessions
  PROVE  /\ TableTypes'
         /\ OldSids' \subseteq OldSids /\ OldDids' \subseteq OldDids
         /\ OldEids' \subseteq OldEids
         /\ TimelineOK' /\ DecisionsOK' /\ EventsOK'
         /\ SessionIdsOfOneRun' /\ DecisionIdsOfOneRun' /\ EventIdsOfOneRun'
<1>1. Timeline' \subseteq Timeline
  BY DEF Timeline
<1>2. OldSids' \subseteq OldSids
  BY <1>1 DEF OldSids
<1>3. OldDids' \subseteq OldDids /\ OldEids' \subseteq OldEids
  BY DEF OldDids, OldEids
<1>4. TimelineOK' /\ SessionIdsOfOneRun'
  BY <1>1 DEF IInv, TimelineOK, SessionIdsOfOneRun, counters
<1>5. DecisionsOK' /\ EventsOK' /\ DecisionIdsOfOneRun' /\ EventIdsOfOneRun'
  BY DEF IInv, DecisionsOK, EventsOK, DecisionIdsOfOneRun, EventIdsOfOneRun, counters
<1>6. TableTypes'
  BY DEF IInv, TypeOK, TableTypes
<1> QED BY <1>2, <1>3, <1>4, <1>5, <1>6

(* prune_expired and delete_oldest_batch keep the invariant.                 *)
LEMMA PruneKeeps ==
  ASSUME IInv, (\E cutoff \in 0..MaxTime : PruneExpired(cutoff)) \/ DeleteOldestBatch
  PROVE  IInv'
<1>1. /\ UNCHANGED <<run, now, counters, task, queue, written>>
      /\ events' \subseteq events /\ decisions' \subseteq decisions
      /\ shadows' \subseteq shadows /\ sessions' \subseteq sessions
  BY Zenon DEF PruneExpired, DeleteOldestBatch, Newer, NewerSessions, sink
<1>2. /\ queue' \in Seq(Observations) /\ written' \in BOOLEAN /\ WrittenOK'
      /\ \A i \in 1..Len(queue') : \E j \in 1..Len(queue) : queue'[i] = queue[j]
  BY <1>1 DEF IInv, TypeOK, SinkTypes, WrittenOK
<1>3. /\ TableTypes'
      /\ OldSids' \subseteq OldSids /\ OldDids' \subseteq OldDids
      /\ OldEids' \subseteq OldEids
      /\ TimelineOK' /\ DecisionsOK' /\ EventsOK'
      /\ SessionIdsOfOneRun' /\ DecisionIdsOfOneRun' /\ EventIdsOfOneRun'
  BY <1>1, DeletedRows
<1>4. UNCHANGED <<run, now, counters, task>>
  BY <1>1
<1> QED BY Zenon, <1>2, <1>3, <1>4, WorkerStepKeeps

(* What is left of the queue when the worker is done with its head.          *)
LEMMA TailOfQueue ==
  ASSUME NEW q \in Seq(Observations), q # <<>>
  PROVE  /\ Tail(q) \in Seq(Observations)
         /\ \A i \in 1..Len(Tail(q)) : \E j \in 1..Len(q) : Tail(q)[i] = q[j]
         /\ Head(q) = q[1] /\ 1 \in 1..Len(q) /\ q[1] \in Observations
<1>1. /\ Tail(q) \in Seq(Observations) /\ Len(Tail(q)) = Len(q) - 1 /\ Len(q) \in Nat \ {0}
      /\ \A i \in 1..Len(Tail(q)) : Tail(q)[i] = q[i + 1]
  OBVIOUS
<1>2. \A i \in 1..Len(Tail(q)) : i + 1 \in 1..Len(q)
  BY <1>1
<1>3. Head(q) = q[1] /\ 1 \in 1..Len(q) /\ q[1] \in Observations
  BY <1>1
<1> QED BY <1>1, <1>2, <1>3

(* Giving up an observation, or trying it again, keeps the invariant.        *)
LEMMA WriteFailsKeeps ==
  ASSUME IInv, WriteFails
  PROVE  IInv'
<1>1. queue \in Seq(Observations) /\ queue # <<>>
  BY DEF IInv, TypeOK, SinkTypes, WriteFails
<1>2. UNCHANGED <<run, now, counters, task>> /\ ~written' /\ written' \in BOOLEAN
      /\ UNCHANGED <<run, counters, events, decisions, shadows, sessions>>
  BY Zenon DEF WriteFails, tables
<1>3. /\ queue' \in Seq(Observations) /\ WrittenOK'
      /\ \A i \in 1..Len(queue') : \E j \in 1..Len(queue) : queue'[i] = queue[j]
  <2>1. queue' = queue \/ queue' = Tail(queue)
    BY Zenon DEF WriteFails
  <2>2. CASE queue' = queue
    BY Zenon, <1>1, <1>2, <2>2 DEF WrittenOK
  <2>3. CASE queue' = Tail(queue)
    BY Zenon, <1>1, <1>2, <2>3, TailOfQueue DEF WrittenOK
  <2> QED BY <2>1, <2>2, <2>3
<1>4. /\ TableTypes'
      /\ OldSids' \subseteq OldSids /\ OldDids' \subseteq OldDids
      /\ OldEids' \subseteq OldEids
      /\ TimelineOK' /\ DecisionsOK' /\ EventsOK'
      /\ SessionIdsOfOneRun' /\ DecisionIdsOfOneRun' /\ EventIdsOfOneRun'
  BY <1>2, DeletedRows
<1> QED BY Zenon, <1>2, <1>3, <1>4, WorkerStepKeeps

(* A row for a session id in flight joins the timeline: the rows with that   *)
(* id are of this process.                                                   *)
LEMMA TimelineGrows ==
  ASSUME IInv, UNCHANGED <<run, counters>>,
         NEW o \in Observations, ObsOK(o), o.sid # {}, NEW e, e.sid = o.sid,
         run \in e.runs,
         \A a \in e.runs : a = run \/ \E q \in Timeline : q.sid = o.sid /\ a \in q.runs,
         Timeline' \subseteq Timeline \cup {e}
  PROVE  OldSids' \subseteq OldSids /\ TimelineOK' /\ SessionIdsOfOneRun'
<1>1. run \in Nat /\ nextSession \in Nat /\ nextSession' = nextSession /\ run' = run
  BY DEF IInv, TypeOK, CounterTypes, counters
<1>2. ASSUME NEW q \in Timeline, q.sid = o.sid PROVE run \in q.runs
  <2> SUFFICES ASSUME run \notin q.runs PROVE FALSE
    OBVIOUS
  <2>1. PICK i \in o.sid : TRUE
    OBVIOUS
  <2>2. i \in OldSids /\ i \in Nat
    BY <1>2, <2>1, FreshIds DEF OldSids
  <2>3. i < i
    BY <2>1, <2>2 DEF ObsOK, SidsOK
  <2> QED BY <2>2, <2>3
<1>3. \A q \in Timeline : q.sid = o.sid => \A a \in q.runs : a = run
  BY <1>2 DEF IInv, SessionIdsOfOneRun
<1>4. \A a \in e.runs : a = run
  BY <1>3
<1>5. SessionIdsOfOneRun'
  BY <1>3, <1>4 DEF IInv, SessionIdsOfOneRun
<1>6. OldSids' \subseteq OldSids
  BY <1>1 DEF OldSids
<1>7. TimelineOK'
  BY <1>1, <1>4 DEF IInv, TimelineOK, ObsOK, SidsOK
<1> QED BY <1>5, <1>6, <1>7

(* insert_event, insert_selection_decision and insert_matrix_shadow keep the *)
(* invariant.                                                                *)
LEMMA InsertKeeps ==
  ASSUME IInv, Insert
  PROVE  IInv'
<1>1. queue \in Seq(Observations) /\ queue # <<>> /\ written = FALSE
  BY DEF IInv, TypeOK, SinkTypes, Insert
<1>2. PICK o \in Observations :
        /\ o = Head(queue) /\ o = queue[1] /\ ObsOK(o)
        /\ o.type = "event" \/ o.type = "decision" \/ o.type = "shadow"
  BY <1>1, TailOfQueue DEF IInv, QueueOK, Observations
<1>3. /\ UNCHANGED <<run, now, counters, task>> /\ UNCHANGED <<run, counters, sessions>>
      /\ events' = IF o.type = "event" THEN events \cup {Row(o)} ELSE events
      /\ decisions' = IF o.type = "decision" THEN decisions \cup {Row(o)} ELSE decisions
      /\ shadows' = IF o.type = "shadow" THEN shadows \cup {Row(o)} ELSE shadows
  BY <1>2 DEF Insert
<1>4. /\ queue' \in Seq(Observations) /\ written' \in BOOLEAN /\ WrittenOK'
      /\ \A i \in 1..Len(queue') : \E j \in 1..Len(queue) : queue'[i] = queue[j]
  <2>1. CASE o.type = "event" /\ o.sid # None
    BY <1>1, <1>2, <2>1 DEF Insert, WrittenOK, None
  <2>2. CASE ~(o.type = "event" /\ o.sid # None)
    <3>1. queue' = Tail(queue) /\ written' = FALSE
      BY <1>1, <1>2, <2>2 DEF Insert
    <3> QED BY Zenon, <1>1, <3>1, TailOfQueue DEF WrittenOK
  <2> QED BY <2>1, <2>2
<1>5. /\ Row(o) \in Rows /\ Row(o).sid = o.sid /\ Row(o).did = o.did
      /\ Row(o).eid = o.eid /\ Row(o).run = run
  BY <1>2 DEF Row, Rows, Observations, ObsOK
<1>6. TableTypes'
  BY <1>3, <1>5 DEF IInv, TypeOK, TableTypes
<1>7. run \in Nat /\ nextEvent \in Nat /\ nextDecision \in Nat
      /\ UNCHANGED <<run, nextEvent, nextDecision>>
  BY <1>3 DEF IInv, TypeOK, CounterTypes, counters
<1>8. CASE o.type = "event"
  <2>1. /\ events' = events \cup {Row(o)}
        /\ UNCHANGED <<decisions, shadows, sessions>>
    BY <1>3, <1>8
  <2>2. UNCHANGED <<Timeline, OldSids, OldDids>>
    BY <1>7, <2>1 DEF Timeline, OldSids, OldDids
  <2>3. TimelineOK' /\ DecisionsOK' /\ SessionIdsOfOneRun' /\ DecisionIdsOfOneRun'
    BY <1>3, <1>7, <2>1, <2>2 DEF IInv, TimelineOK, DecisionsOK, SessionIdsOfOneRun,
      DecisionIdsOfOneRun, counters
  <2>4. OldEids' \subseteq OldEids
    BY <1>5, <1>7, <2>1 DEF OldEids
  <2>5. EventsOK'
    BY <1>2, <1>5, <1>7, <2>1 DEF IInv, EventsOK, ObsOK
  <2>6. ASSUME NEW r \in events, r.eid = o.eid PROVE r.run = run
    <3>1. r.run # run => r.eid \in OldEids
      BY DEF OldEids
    <3>2. o.eid \in Nat
      BY DEF Observations
    <3> QED BY <1>2, <1>8, <2>6, <3>1, <3>2 DEF ObsOK
  <2>7. EventIdsOfOneRun'
    BY <1>5, <2>1, <2>6 DEF IInv, EventIdsOfOneRun
  <2> QED BY Zenon, <1>3, <1>4, <1>6, <2>2, <2>3, <2>4, <2>5, <2>7, WorkerStepKeeps
<1>9. CASE o.type # "event"
  <2>1. /\ UNCHANGED <<events, sessions>>
        /\ (decisions \cup shadows)' = decisions \cup shadows \cup {Row(o)}
        /\ o.sid # {} /\ o.did # {}
    BY <1>2, <1>3, <1>9 DEF ObsOK
  <2>2. OldEids' \subseteq OldEids /\ EventsOK' /\ EventIdsOfOneRun'
    BY <1>7, <2>1 DEF IInv, OldEids, EventsOK, EventIdsOfOneRun
  <2>3. PICK e : e = [sid |-> o.sid, runs |-> {run}]
    BY Zenon
  <2>4. Timeline' \subseteq Timeline \cup {e} /\ e.sid = o.sid /\ e.runs = {run}
    BY <1>5, <2>1, <2>3 DEF Timeline
  <2>5. OldSids' \subseteq OldSids /\ TimelineOK' /\ SessionIdsOfOneRun'
    BY <1>2, <1>3, <2>1, <2>4, TimelineGrows
  <2>6. OldDids' \subseteq OldDids
    BY <1>5, <1>7, <2>1 DEF OldDids
  <2>7. DecisionsOK'
    BY <1>2, <1>5, <1>7, <2>1 DEF IInv, DecisionsOK, ObsOK, DidsOK
  <2>8. ASSUME NEW r \in decisions \cup shadows, r.did = o.did PROVE r.run = run
    <3>1. r.run # run => \A i \in o.did : i \in OldDids
      BY <2>8 DEF OldDids
    <3>2. \A i \in o.did : i \in Nat
      BY DEF Observations
    <3> QED BY <1>2, <2>1, <3>1, <3>2 DEF ObsOK, DidsOK
  <2>9. DecisionIdsOfOneRun'
    BY Zenon, <1>5, <2>1, <2>8 DEF IInv, DecisionIdsOfOneRun
  <2> QED BY Zenon, <1>3, <1>4, <1>6, <2>2, <2>5, <2>6, <2>7, <2>9, WorkerStepKeeps
<1> QED BY <1>8, <1>9

(* upsert_traffic_session keeps the invariant: the row it meets under its    *)
(* key is one of this process.                                               *)
LEMMA UpsertSessionKeeps ==
  ASSUME IInv, UpsertSession
  PROVE  IInv'
<1>1. queue \in Seq(Observations) /\ queue # <<>>
  BY DEF IInv, TypeOK, SinkTypes, UpsertSession, WrittenOK
<1>2. PICK o \in Observations :
        o = Head(queue) /\ o = queue[1] /\ ObsOK(o) /\ o.sid # {}
  BY <1>1, TailOfQueue DEF IInv, QueueOK, WrittenOK, UpsertSession
<1>3. /\ UNCHANGED <<run, now, counters, task>>
      /\ UNCHANGED <<run, counters, events, decisions, shadows>>
      /\ sessions' = Upsert(sessions, o)
      /\ queue' = Tail(queue) /\ ~written' /\ written' \in BOOLEAN
  BY Zenon, <1>2 DEF UpsertSession
<1>4. /\ queue' \in Seq(Observations) /\ WrittenOK'
      /\ \A i \in 1..Len(queue') : \E j \in 1..Len(queue) : queue'[i] = queue[j]
  BY <1>1, <1>3, TailOfQueue DEF WrittenOK
<1>5. PICK new :
        /\ new = [sid |-> o.sid, did |-> o.did, last |-> o.time,
                  closed |-> o.closes \/ \E r \in sessions : SameKey(r, o) /\ r.closed,
                  runs |-> {o.run} \cup
                           UNION {r.runs : r \in {x \in sessions : SameKey(x, o)}}]
        /\ sessions' \subseteq sessions \cup {new}
  BY Zenon, <1>3 DEF Upsert
<1>6. /\ new \in SessionRows /\ new.sid = o.sid /\ new.did = o.did
      /\ run \in new.runs
      /\ \A a \in new.runs : a = run \/ \E r \in sessions : r.sid = o.sid /\ a \in r.runs
  <2>1. sessions \subseteq SessionRows
    BY DEF IInv, TypeOK, TableTypes
  <2>2. UNION {r.runs : r \in {x \in sessions : SameKey(x, o)}} \in SUBSET Nat
    BY <2>1 DEF SessionRows
  <2>3. o.run = run /\ o.run \in Nat /\ o.closes \in BOOLEAN /\ o.time \in Nat
        /\ o.sid \in SUBSET Nat /\ o.did \in SUBSET Nat
    BY <1>2 DEF ObsOK, Observations
  <2>4. new \in SessionRows
    BY <1>5, <2>2, <2>3 DEF SessionRows
  <2> QED BY <1>5, <2>3, <2>4 DEF SameKey
<1>7. TableTypes'
  BY Zenon, <1>3, <1>5, <1>6 DEF IInv, TypeOK, TableTypes
<1>8. OldDids' \subseteq OldDids /\ OldEids' \subseteq OldEids
      /\ EventsOK' /\ DecisionIdsOfOneRun' /\ EventIdsOfOneRun'
  BY <1>3 DEF IInv, OldDids, OldEids, EventsOK, DecisionIdsOfOneRun, EventIdsOfOneRun,
    counters
<1>9. DecisionsOK'
  BY Zenon, <1>2, <1>3, <1>5, <1>6 DEF IInv, DecisionsOK, ObsOK, DidsOK, counters
<1>10. OldSids' \subseteq OldSids /\ TimelineOK' /\ SessionIdsOfOneRun'
  <2>1. PICK e : e = [sid |-> new.sid, runs |-> new.runs]
    BY Zenon
  <2>2. Timeline' \subseteq Timeline \cup {e}
    BY Zenon, <1>3, <1>5, <2>1 DEF Timeline
  <2>3. ASSUME NEW r \in sessions
        PROVE  \E q \in Timeline : q.sid = r.sid /\ q.runs = r.runs
    <3>1. [sid |-> r.sid, runs |-> r.runs] \in Timeline
      BY DEF Timeline
    <3> QED BY <3>1
  <2>4. e.sid = o.sid /\ run \in e.runs
        /\ \A a \in e.runs : a = run \/ \E q \in Timeline : q.sid = o.sid /\ a \in q.runs
    BY <1>6, <2>1, <2>3
  <2> QED BY Zenon, <1>2, <1>3, <2>2, <2>4, TimelineGrows
<1> QED BY Zenon, <1>3, <1>4, <1>7, <1>8, <1>9, <1>10, WorkerStepKeeps

-------------------------------------------------------------------------------
(* load_id_watermarks: a restart finds every retained id at or below the     *)
(* counter that it continues from.                                           *)
LEMMA Watermarks ==
  ASSUME IInv
  PROVE  /\ EventWatermark \in Nat /\ SessionWatermark \in Nat /\ DecisionWatermark \in Nat
         /\ \A r \in events : r.eid <= EventWatermark
         /\ \A r \in Timeline : \A i \in r.sid : i <= SessionWatermark
         /\ \A r \in decisions \cup shadows \cup sessions :
              \A i \in r.did : i <= DecisionWatermark
<1> DEFINE eids == {r.eid : r \in events}
           sids == UNION {r.sid : r \in sessions \cup decisions \cup shadows}
           dids == UNION {r.did : r \in sessions \cup decisions \cup shadows}
<1>1. nextEvent \in Nat /\ nextSession \in Nat /\ nextDecision \in Nat
  BY DEF IInv, TypeOK, CounterTypes
<1>2. /\ \A r \in events : r.eid \in Nat
      /\ \A r \in sessions \cup decisions \cup shadows :
           r.sid \in SUBSET Nat /\ r.did \in SUBSET Nat
  BY DEF IInv, TypeOK, TableTypes, Rows, SessionRows
<1>3. ASSUME NEW r \in sessions \cup decisions \cup shadows
      PROVE  \E q \in Timeline : q.sid = r.sid
  <2>1. CASE r \in sessions
    <3>1. [sid |-> r.sid, runs |-> r.runs] \in Timeline
      BY <2>1 DEF Timeline
    <3> QED BY <3>1
  <2>2. CASE r \in decisions \cup shadows
    <3>1. [sid |-> r.sid, runs |-> {r.run}] \in Timeline
      BY Zenon, <2>2 DEF Timeline
    <3> QED BY <3>1
  <2> QED BY <2>1, <2>2
<1>4. \A q \in Timeline : \E r \in sessions \cup decisions \cup shadows : q.sid = r.sid
  BY DEF Timeline
<1>5. eids \in SUBSET Nat /\ \A i \in eids : i <= nextEvent
  BY <1>2 DEF IInv, EventsOK
<1>6. sids \in SUBSET Nat /\ \A i \in sids : i <= nextSession
  BY <1>2, <1>3 DEF IInv, TimelineOK
<1>7. dids \in SUBSET Nat /\ \A i \in dids : i <= nextDecision
  BY <1>2 DEF IInv, DecisionsOK
<1>8. EventWatermark \in Nat /\ \A i \in eids : i <= EventWatermark
  BY Zenon, <1>1, <1>5, LargestOfBounded DEF EventWatermark
<1>9. SessionWatermark \in Nat /\ \A i \in sids : i <= SessionWatermark
  BY Zenon, <1>1, <1>6, LargestOfBounded DEF SessionWatermark
<1>10. DecisionWatermark \in Nat /\ \A i \in dids : i <= DecisionWatermark
  BY Zenon, <1>1, <1>7, LargestOfBounded DEF DecisionWatermark
<1> QED BY <1>4, <1>8, <1>9, <1>10

(* A crash and a restart keep the invariant.                                 *)
LEMMA RestartKeeps ==
  ASSUME IInv, Restart
  PROVE  IInv'
<1>1. /\ run' = run + 1 /\ run \in Nat /\ now \in Nat
      /\ nextEvent' = EventWatermark /\ nextSession' = SessionWatermark
      /\ nextDecision' = DecisionWatermark
      /\ task' = [t \in Tasks |-> Idle] /\ queue' = <<>> /\ written' = FALSE
      /\ UNCHANGED <<now, events, decisions, shadows, sessions>>
  BY DEF Restart, tables, IInv, TypeOK, CounterTypes
<1>2. UNCHANGED Timeline
  BY <1>1 DEF Timeline
<1>3. TypeOK'
  <2>1. Idle \in TaskStates
    BY DEF Idle, None, TaskStates
  <2>2. task' \in [Tasks -> TaskStates]
    BY <1>1, <2>1
  <2>3. CounterTypes'
    BY <1>1, Watermarks DEF CounterTypes
  <2>4. SinkTypes'
    <3>1. queue' \in Seq(Observations)
      BY <1>1
    <3>2. written' \in BOOLEAN
      BY Zenon, <1>1
    <3> QED BY <3>1, <3>2 DEF SinkTypes
  <2>5. TableTypes'
    BY <1>1 DEF IInv, TypeOK, TableTypes
  <2> QED BY <2>2, <2>3, <2>4, <2>5 DEF TypeOK
<1>4. (\A t \in Tasks : TaskOK(task[t]))'
  BY <1>1 DEF Idle, None, TaskOK, SidsOK, DidsOK
<1>5. QueueOK' /\ WrittenOK'
  BY <1>1 DEF QueueOK, WrittenOK
<1>6. TimelineOK'
  <2>1. \A r \in Timeline : r.runs \in SUBSET Nat
    BY DEF IInv, TypeOK, TableTypes, Timeline, Rows, SessionRows
  <2> QED BY <1>1, <1>2, <2>1, Watermarks DEF IInv, TimelineOK
<1>7. DecisionsOK' /\ EventsOK'
  <2>1. \A r \in decisions \cup shadows \cup events : r.run \in Nat
    BY DEF IInv, TypeOK, TableTypes, Rows
  <2>2. DecisionsOK'
    BY <1>1, <2>1, Watermarks DEF IInv, DecisionsOK
  <2>3. EventsOK'
    BY <1>1, <2>1, Watermarks DEF IInv, EventsOK
  <2> QED BY <2>2, <2>3
<1>8. SessionIdsOfOneRun' /\ DecisionIdsOfOneRun' /\ EventIdsOfOneRun'
  BY <1>1, <1>2 DEF IInv, SessionIdsOfOneRun, DecisionIdsOfOneRun, EventIdsOfOneRun
<1> QED BY <1>3, <1>4, <1>5, <1>6, <1>7, <1>8 DEF IInv

(* The first process starts with an empty database.                          *)
LEMMA InitKeeps == Init => IInv
<1> SUFFICES ASSUME Init PROVE IInv
  OBVIOUS
<1>1. Timeline = {}
  BY DEF Init, Timeline
<1>2. TypeOK
  <2>1. Idle \in TaskStates
    BY DEF Idle, None, TaskStates
  <2>2. task \in [Tasks -> TaskStates]
    BY <2>1 DEF Init
  <2>3. CounterTypes
    BY DEF Init, CounterTypes
  <2>4. SinkTypes
    <3>1. queue \in Seq(Observations)
      BY DEF Init
    <3>2. written \in BOOLEAN
      BY Zenon DEF Init
    <3> QED BY <3>1, <3>2 DEF SinkTypes
  <2>5. TableTypes
    BY DEF Init, TableTypes
  <2> QED BY <2>2, <2>3, <2>4, <2>5 DEF TypeOK
<1>3. \A t \in Tasks : TaskOK(task[t])
  BY DEF Init, Idle, None, TaskOK, SidsOK, DidsOK
<1>4. QueueOK /\ WrittenOK
  BY DEF Init, QueueOK, WrittenOK
<1>5. TimelineOK /\ SessionIdsOfOneRun
  BY <1>1 DEF TimelineOK, SessionIdsOfOneRun
<1>6. DecisionsOK /\ EventsOK /\ DecisionIdsOfOneRun /\ EventIdsOfOneRun
  BY DEF Init, DecisionsOK, EventsOK, DecisionIdsOfOneRun, EventIdsOfOneRun
<1> QED BY <1>2, <1>3, <1>4, <1>5, <1>6 DEF IInv

(* Every step keeps the invariant.                                           *)
LEMMA NextKeeps == IInv /\ [Next]_vars => IInv'
<1> SUFFICES ASSUME IInv, [Next]_vars PROVE IInv'
  OBVIOUS
<1>1. ASSUME NEW t \in Tasks, TaskStep(t) PROVE IInv'
  <2>1. CASE OpenSession(t)
    BY <2>1, OpenSessionKeeps
  <2>2. CASE SelectDecision(t)
    BY <2>2, SelectDecisionKeeps
  <2>3. CASE Accept(t)
    BY Zenon, <2>3, RecordEventKeeps DEF Accept
  <2>4. CASE Close(t)
    BY Zenon, <2>4, RecordEventKeeps DEF Close, None
  <2>5. CASE RecordDns(t)
    BY Zenon, <2>5, RecordEventKeeps DEF RecordDns, None
  <2>6. CASE Abandon(t)
    BY <2>6, AbandonKeeps
  <2>7. CASE HandOver(t)
    BY <2>7, HandOverKeeps
  <2> QED BY <1>1, <2>1, <2>2, <2>3, <2>4, <2>5, <2>6, <2>7 DEF TaskStep
<1>2. CASE UNCHANGED vars
  <2>1. /\ UNCHANGED <<run, now, counters, task>> /\ UNCHANGED <<queue, written>>
        /\ UNCHANGED <<run, counters, events, decisions, shadows, sessions>>
    BY <1>2 DEF vars, sink, tables
  <2>2. /\ queue' \in Seq(Observations) /\ written' \in BOOLEAN /\ WrittenOK'
        /\ \A i \in 1..Len(queue') : \E j \in 1..Len(queue) : queue'[i] = queue[j]
    BY <2>1 DEF IInv, TypeOK, SinkTypes, WrittenOK
  <2> QED BY Zenon, <2>1, <2>2, DeletedRows, WorkerStepKeeps
<1> QED
  BY <1>1, <1>2, InsertKeeps, UpsertSessionKeeps, WriteFailsKeeps, PruneKeeps, RestartKeeps
  DEF Next

-------------------------------------------------------------------------------
(* Ids keep their places: the inductive invariant holds.                     *)
THEOREM Invariance == Spec => []IInv
BY InitKeeps, NextKeeps, PTL DEF Spec

(* The state has its types.                                                  *)
THEOREM Typing == Spec => []TypeOK
<1>1. IInv => TypeOK
  BY DEF IInv
<1> QED BY <1>1, Invariance, PTL

(* Whatever crashes, losses and pruning come before, a session id in the     *)
(* three tables that load_id_watermarks reads means one session.             *)
THEOREM SessionIdsSurviveRestarts == Spec => []SessionIdsOfOneRun
<1>1. IInv => SessionIdsOfOneRun
  BY DEF IInv
<1> QED BY <1>1, Invariance, PTL

(* A retained event id was given out once across restarts.                   *)
THEOREM EventIdsSurviveRestarts == Spec => []EventIdsOfOneRun
<1>1. IInv => EventIdsOfOneRun
  BY DEF IInv
<1> QED BY <1>1, Invariance, PTL

(* A retained decision id was given out once across restarts.                *)
THEOREM DecisionIdsSurviveRestarts == Spec => []DecisionIdsOfOneRun
<1>1. IInv => DecisionIdsOfOneRun
  BY DEF IInv
<1> QED BY <1>1, Invariance, PTL

(* No upsert merges the sessions of two processes into one row.              *)
THEOREM RowsNeverMerge == Spec => []KeysNeverCollide
<1>1. ASSUME IInv PROVE KeysNeverCollide
  <2> SUFFICES ASSUME NEW r \in sessions PROVE \A a, b \in r.runs : a = b
    BY DEF KeysNeverCollide
  <2>1. PICK e : e = [sid |-> r.sid, runs |-> r.runs]
    BY Zenon
  <2>2. e \in Timeline /\ e.runs = r.runs
    BY <2>1 DEF Timeline
  <2> QED BY <1>1, <2>2 DEF IInv, SessionIdsOfOneRun
<1> QED BY <1>1, Invariance, PTL
===============================================================================

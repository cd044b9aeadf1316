---------------------------- MODULE RuntimeRecovery ----------------------------
(***************************************************************************)
(* The ids of events, sessions and decisions across crashes and restarts.   *)
(*                                                                          *)
(* A process hands out ids from three counters, records observations that   *)
(* carry them, and a worker writes the observations to SQLite in order,     *)
(* while maintenance prunes by age and by size.  A restart continues each   *)
(* counter from the largest id that it finds in the retained tables.        *)
(*                                                                          *)
(* `run` counts process starts; the `run` field of an observation and the   *)
(* `runs` of a session row are history that the code does not keep.         *)
(* Time is the number of ids taken so far, by all processes.                *)
(***************************************************************************)
EXTENDS Integers, FiniteSets, Sequences

CONSTANTS
  Tasks,             \* ingress tasks, one session each at a time
  BatchSize,         \* DELETE_BATCH_SIZE, 512 in the code
  QueueCapacity,     \* OBSERVATION_QUEUE_CAPACITY, 16384 in the code
  MaxTime,           \* bound: ids taken in one behaviour
  MaxRuns            \* bound: process starts

ASSUME RecoveryAssumption ==
  /\ BatchSize \in Nat \ {0}
  /\ QueueCapacity \in Nat \ {0}
  /\ MaxTime \in Nat
  /\ MaxRuns \in Nat

VARIABLES
  run, now,
  nextEvent, nextSession, nextDecision,   \* the counters of the process
  task,        \* task -> its session, and what it has yet to hand to the sink
  queue,       \* the sink's channel; its head is being written
  written,     \* whether the head's runtime_events row is in
  events,      \* runtime_events
  decisions,   \* selection_decisions
  shadows,     \* matrix_shadow_decisions
  sessions     \* runtime_traffic_sessions

counters == <<nextEvent, nextSession, nextDecision>>
sink == <<queue, written>>
tables == <<events, decisions, shadows, sessions>>
vars == <<run, now, counters, task, sink, tables>>

(* An optional id is a set of at most one id.                                *)
None == {}
Idle == [pc |-> "idle", sid |-> None, did |-> None, out |-> <<>>]

Init ==
  /\ run = 1
  /\ now = 0
  /\ nextEvent = 0 /\ nextSession = 0 /\ nextDecision = 0
  /\ task = [t \in Tasks |-> Idle]
  /\ queue = <<>>
  /\ written = FALSE
  /\ events = {} /\ decisions = {} /\ shadows = {} /\ sessions = {}

-------------------------------------------------------------------------------
(* ObservationSink::try_send: a full channel drops the observation.          *)
TrySend(q, o) == IF Len(q) < QueueCapacity THEN Append(q, o) ELSE q

Observation(type, eid, sid, did, closes) ==
  [type |-> type, eid |-> eid, sid |-> sid, did |-> did, closes |-> closes,
   time |-> now, run |-> run]

(* Task t runs on: it has handed over all that it recorded.                  *)
Ready(t) == task[t].out = <<>>

(* events().next_session_id() for a new connection.                          *)
OpenSession(t) ==
  /\ Ready(t)
  /\ task[t].pc = "idle"
  /\ now < MaxTime
  /\ nextSession' = nextSession + 1
  /\ task' = [task EXCEPT ![t] = [pc |-> "open", sid |-> {nextSession + 1},
                                  did |-> None, out |-> <<>>]]
  /\ now' = now + 1
  /\ UNCHANGED <<run, nextEvent, nextDecision, sink, tables>>

(* RuntimeState::select: a decision id, then the shadow record and the       *)
(* decision for the sink.                                                    *)
SelectDecision(t) ==
  /\ Ready(t)
  /\ task[t].pc = "open"
  /\ now < MaxTime
  /\ LET did == {nextDecision + 1}
     IN task' = [task EXCEPT ![t] =
          [pc |-> "selected", sid |-> task[t].sid, did |-> did,
           out |-> <<Observation("shadow", 0, task[t].sid, did, FALSE),
                     Observation("decision", 0, task[t].sid, did, FALSE)>>]]
  /\ nextDecision' = nextDecision + 1
  /\ now' = now + 1
  /\ UNCHANGED <<run, nextEvent, nextSession, sink, tables>>

(* EventStore::record by task t, which goes on at pc with the session sid    *)
(* and did: an event id for an event of its session, if it has one.          *)
RecordEvent(t, closes, pc, sid, did) ==
  /\ Ready(t)
  /\ now < MaxTime
  /\ nextEvent' = nextEvent + 1
  /\ task' = [task EXCEPT ![t] =
       [pc |-> pc, sid |-> sid, did |-> did,
        out |-> <<Observation("event", nextEvent + 1, task[t].sid, task[t].did, closes)>>]]
  /\ now' = now + 1
  /\ UNCHANGED <<run, nextSession, nextDecision, sink, tables>>

(* A DNS event belongs to no session.                                        *)
RecordDns(t) == task[t].pc = "idle" /\ RecordEvent(t, FALSE, "idle", None, None)

(* TcpAccept, UdpSessionStart.                                               *)
Accept(t) ==
  /\ task[t].pc = "selected"
  /\ RecordEvent(t, FALSE, "active", task[t].sid, task[t].did)

(* TcpClose, TcpError, UdpSessionClose, UdpError; an error of the capacity   *)
(* check or of select carries no decision.                                   *)
Close(t) == task[t].pc # "idle" /\ RecordEvent(t, TRUE, "idle", None, None)

(* An error that a captured session returns without an event.                *)
Abandon(t) ==
  /\ Ready(t)
  /\ task[t].pc # "idle"
  /\ task' = [task EXCEPT ![t] = Idle]
  /\ UNCHANGED <<run, now, counters, sink, tables>>

(* The id was taken before: another task may hand over a later one first.    *)
HandOver(t) ==
  /\ ~Ready(t)
  /\ queue' = TrySend(queue, Head(task[t].out))
  /\ task' = [task EXCEPT ![t] = [pc |-> task[t].pc, sid |-> task[t].sid,
                                  did |-> task[t].did, out |-> Tail(task[t].out)]]
  /\ UNCHANGED <<run, now, counters, written, tables>>

-------------------------------------------------------------------------------
Row(o) == [eid |-> o.eid, sid |-> o.sid, did |-> o.did, time |-> o.time, run |-> o.run]

(* upsert_traffic_session: a row per session and decision.                   *)
SameKey(r, o) == r.sid = o.sid /\ r.did = o.did

Upsert(rows, o) ==
  {r \in rows : ~SameKey(r, o)}
    \cup {[sid |-> o.sid, did |-> o.did, last |-> o.time,
           closed |-> o.closes \/ \E r \in rows : SameKey(r, o) /\ r.closed,
           runs |-> {o.run} \cup UNION {r.runs : r \in {x \in rows : SameKey(x, o)}}]}

(* insert_event, insert_selection_decision, insert_matrix_shadow: the first  *)
(* statement of the observation at the head.                                 *)
Insert ==
  /\ queue # <<>>
  /\ ~written
  /\ LET o == Head(queue) IN
       /\ events' = IF o.type = "event" THEN events \cup {Row(o)} ELSE events
       /\ decisions' = IF o.type = "decision" THEN decisions \cup {Row(o)} ELSE decisions
       /\ shadows' = IF o.type = "shadow" THEN shadows \cup {Row(o)} ELSE shadows
       /\ IF o.type = "event" /\ o.sid # None
            THEN written' = TRUE /\ UNCHANGED queue
            ELSE queue' = Tail(queue) /\ UNCHANGED written
  /\ UNCHANGED <<run, now, counters, task, sessions>>

(* The second statement of insert_event, not in one transaction with it.     *)
UpsertSession ==
  /\ written
  /\ sessions' = Upsert(sessions, Head(queue))
  /\ queue' = Tail(queue)
  /\ written' = FALSE
  /\ UNCHANGED <<run, now, counters, task, events, decisions, shadows>>

(* A statement fails: the observation is given up and counted, or, when the  *)
(* upsert meets SQLITE_FULL, tried again from its first statement.           *)
WriteFails ==
  /\ queue # <<>>
  /\ \/ queue' = Tail(queue)
     \/ written /\ UNCHANGED queue
  /\ written' = FALSE
  /\ UNCHANGED <<run, now, counters, task, tables>>

(* prune_expired: one transaction, over rows older than the cutoff; a        *)
(* session is deleted only when it has closed.                               *)
PruneExpired(cutoff) ==
  /\ events' = {r \in events : r.time >= cutoff}
  /\ decisions' = {r \in decisions : r.time >= cutoff}
  /\ shadows' = {r \in shadows : r.time >= cutoff}
  /\ sessions' = {r \in sessions : r.last >= cutoff \/ ~r.closed}
  /\ UNCHANGED <<run, now, counters, task, sink>>

(* All but the BatchSize oldest rows of a table.                             *)
Newer(rows) == {r \in rows : Cardinality({x \in rows : x.time < r.time}) >= BatchSize}
NewerSessions(rows) ==
  {r \in rows : Cardinality({x \in rows : x.last < r.last}) >= BatchSize}

(* delete_oldest_batch: one transaction, a batch from every table.           *)
DeleteOldestBatch ==
  /\ events' = Newer(events)
  /\ decisions' = Newer(decisions)
  /\ shadows' = Newer(shadows)
  /\ sessions' = NewerSessions(sessions)
  /\ UNCHANGED <<run, now, counters, task, sink>>

-------------------------------------------------------------------------------
Largest(ids) == IF ids = {} THEN 0 ELSE CHOOSE i \in ids : \A j \in ids : j <= i

SessionsOfDecisions == Largest(UNION {r.sid : r \in decisions \cup shadows})

(* load_id_watermarks.                                                       *)
EventWatermark == Largest({r.eid : r \in events})
SessionWatermark == Largest(UNION {r.sid : r \in sessions \cup decisions \cup shadows})
DecisionWatermark == Largest(UNION {r.did : r \in sessions \cup decisions \cup shadows})

(* The process stops, gracefully or not, with whatever is still queued; a    *)
(* new one opens the database.                                               *)
Restart ==
  /\ run < MaxRuns
  /\ run' = run + 1
  /\ nextEvent' = EventWatermark
  /\ nextSession' = SessionWatermark
  /\ nextDecision' = DecisionWatermark
  /\ task' = [t \in Tasks |-> Idle]
  /\ queue' = <<>>
  /\ written' = FALSE
  /\ UNCHANGED <<now, tables>>

-------------------------------------------------------------------------------
TaskStep(t) ==
  \/ OpenSession(t) \/ SelectDecision(t) \/ Accept(t) \/ Close(t)
  \/ Abandon(t) \/ RecordDns(t) \/ HandOver(t)

Next ==
  \/ \E t \in Tasks : TaskStep(t)
  \/ Insert
  \/ UpsertSession
  \/ WriteFails
  \/ \E cutoff \in 0..MaxTime : PruneExpired(cutoff)
  \/ DeleteOldestBatch
  \/ Restart

Spec == Init /\ [][Next]_vars

-------------------------------------------------------------------------------
Observations ==
  [type : {"event", "decision", "shadow"}, eid : Nat, sid : SUBSET Nat,
   did : SUBSET Nat, closes : BOOLEAN, time : Nat, run : Nat]

Rows == [eid : Nat, sid : SUBSET Nat, did : SUBSET Nat, time : Nat, run : Nat]
SessionRows ==
  [sid : SUBSET Nat, did : SUBSET Nat, last : Nat, closed : BOOLEAN, runs : SUBSET Nat]
TaskStates ==
  [pc : {"idle", "open", "selected", "active"}, sid : SUBSET Nat, did : SUBSET Nat,
   out : Seq(Observations)]

CounterTypes ==
  /\ run \in Nat /\ now \in Nat
  /\ nextEvent \in Nat /\ nextSession \in Nat /\ nextDecision \in Nat
SinkTypes == queue \in Seq(Observations) /\ written \in BOOLEAN
TableTypes ==
  /\ events \subseteq Rows /\ decisions \subseteq Rows /\ shadows \subseteq Rows
  /\ sessions \subseteq SessionRows

(* The types of the counters, the tasks, the sink and the tables.            *)
TypeOK == CounterTypes /\ task \in [Tasks -> TaskStates] /\ SinkTypes /\ TableTypes

(* A session row is only ever written by one process: a restart never gives  *)
(* out a session and decision id whose runtime_traffic_sessions key is in    *)
(* the retained database, however the crash, the lost observations and the   *)
(* pruning fell.                                                             *)
KeysNeverCollide == \A r \in sessions : \A a, b \in r.runs : a = b

(* A session id in selection_decisions, matrix_shadow_decisions and          *)
(* runtime_traffic_sessions means one session, of one process.               *)
Timeline ==
  {[sid |-> r.sid, runs |-> {r.run}] : r \in decisions \cup shadows}
    \cup {[sid |-> r.sid, runs |-> r.runs] : r \in sessions}
SessionIdsOfOneRun ==
  \A r, q \in Timeline : r.sid = q.sid => \A a \in r.runs, b \in q.runs : a = b

(* A retained event id, and a retained decision id, was given out by one     *)
(* process.                                                                  *)
EventIdsOfOneRun == \A r, q \in events : r.eid = q.eid => r.run = q.run
DecisionIdsOfOneRun ==
  \A r, q \in decisions \cup shadows : r.did = q.did => r.run = q.run
===============================================================================

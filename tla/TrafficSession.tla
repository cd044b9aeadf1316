----------------------------- MODULE TrafficSession -----------------------------
(***************************************************************************)
(* One traffic session, kept twice: in memory, where every recorder folds   *)
(* its event in at once, and as a SQLite row, into which the sink's worker  *)
(* folds the same events in the order in which they were queued.  A UDP     *)
(* session has two recorders, the ingress loop for datagrams of the client  *)
(* and the association task for the rest, so the two orders can differ.     *)
(* A restart loads the row of a completed session back into memory.         *)
(*                                                                          *)
(* Bytes and datagrams are counted; addresses, names and selection text,    *)
(* which both copies merge field by field, are left out.  The session limit *)
(* (1024) and pruning are not reached.                                      *)
(***************************************************************************)
EXTENDS Integers, Sequences

CONSTANTS
  MaxTime,        \* bound: the clock
  MaxDatagrams    \* bound: datagrams of each direction

VARIABLES
  now,
  protocol,       \* "tcp" or "udp"
  association,    \* the task of the session: "start", "open", "failed", "done"
  sent,           \* datagrams that the ingress loop has forwarded
  received,       \* datagrams that the association has relayed back
  recording,      \* recorder -> events being recorded: built, then in memory
  queue,          \* the sink
  memory, row,    \* the two copies: at most one session
  recovered       \* what a restart loaded

work == <<protocol, association, sent, received>>
vars == <<now, work, recording, queue, memory, row, recovered>>

Recorders == {"loop", "association"}

(* An optional value is a set of at most one value.                          *)
None == {}
Or(a, b) == IF a # None THEN a ELSE b
Value(a, default) == IF a = None THEN default ELSE CHOOSE v \in a : TRUE
SaturatingSub(a, b) == IF a > b THEN a - b ELSE 0

-------------------------------------------------------------------------------
(* TrafficSessionUpdate: datagrams have one byte, a TCP total has two.       *)
Update(time, up, down, totals, error, closes) ==
  [time |-> time, up |-> up, down |-> down, totals |-> totals, error |-> error,
   closes |-> closes]

(* TrafficSession::new.                                                      *)
NewSession(u) ==
  [started |-> u.time, closed |-> None, duration |-> None, error |-> FALSE,
   bytes |-> 0, ups |-> 0, downs |-> 0, firstDown |-> None, latency |-> None,
   last |-> u.time]

(* TrafficSession::apply_update.                                             *)
FirstDown(s, u) == Or(s.firstDown, IF u.down = None THEN None ELSE {u.time})
Latency(s, u) ==
  Or(s.latency, {SaturatingSub(f, s.started) : f \in FirstDown(s, u)})
ApplyUpdate(s, u) ==
  [started |-> s.started,
   closed |-> IF u.closes THEN {u.time} ELSE s.closed,
   duration |-> IF u.closes THEN {SaturatingSub(u.time, s.started)} ELSE s.duration,
   error |-> s.error \/ u.error,
   bytes |-> Value(u.totals, s.bytes) + Value(u.up, 0) + Value(u.down, 0),
   ups |-> s.ups + (IF u.up = None THEN 0 ELSE 1),
   downs |-> s.downs + (IF u.down = None THEN 0 ELSE 1),
   firstDown |-> FirstDown(s, u),
   latency |-> Latency(s, u),
   last |-> u.time]

(* TrafficSessionStore::apply_update.                                        *)
Fold(store, u) == {ApplyUpdate(s, u) : s \in IF store = {} THEN {NewSession(u)} ELSE store}

(* upsert_traffic_session: the values of the insert; parameters 16 and 31,   *)
(* the start and the observation, are both the time of the update.           *)
Excluded(u) ==
  [started |-> u.time,
   closed |-> IF u.closes THEN {u.time} ELSE None,
   duration |-> IF u.closes THEN {SaturatingSub(u.time, u.time)} ELSE None,
   error |-> u.error,
   bytes |-> Value(u.totals, 0) + Value(u.up, 0) + Value(u.down, 0),
   ups |-> IF u.up = None THEN 0 ELSE 1,
   downs |-> IF u.down = None THEN 0 ELSE 1,
   firstDown |-> IF u.down = None THEN None ELSE {u.time},
   latency |-> IF u.down = None THEN None ELSE {SaturatingSub(u.time, u.time)},
   last |-> u.time]

(* upsert_traffic_session: on conflict do update.                            *)
OnConflictReplaces(r, u) == Excluded(u)
OnConflict(r, u) ==
  LET e == Excluded(u) IN
  [started |-> r.started,
   closed |-> Or(e.closed, r.closed),
   duration |-> Or(e.duration, r.duration),
   error |-> e.error \/ r.error,
   bytes |-> IF u.totals # None THEN Value(u.totals, 0)
             ELSE r.bytes + Value(u.up, 0) + Value(u.down, 0),
   ups |-> r.ups + e.ups,
   downs |-> r.downs + e.downs,
   firstDown |-> Or(r.firstDown, e.firstDown),
   latency |-> Or(r.latency, e.latency),
   last |-> e.last]

Upsert(rows, u) == IF rows = {} THEN {Excluded(u)} ELSE {OnConflict(r, u) : r \in rows}

-------------------------------------------------------------------------------
Init ==
  /\ now = 0
  /\ protocol \in {"tcp", "udp"}
  /\ association = "start"
  /\ sent = 0 /\ received = 0
  /\ recording = [w \in Recorders |-> <<>>]
  /\ queue = <<>>
  /\ memory = {} /\ row = {} /\ recovered = {}

Running == recovered = {}

(* unix_ms is the wall clock: it can be set back.                            *)
Tick ==
  /\ Running
  /\ now' \in (0..MaxTime) \ {now}
  /\ UNCHANGED <<work, recording, queue, memory, row, recovered>>

(* EventStore::record, up to the clock: the event is built.                  *)
Build(w, up, down, totals, error, closes) ==
  /\ Running
  /\ recording[w] = <<>>
  /\ recording' = [recording EXCEPT ![w] =
       <<[stage |-> "built", update |-> Update(now, up, down, totals, error, closes)]>>]
  /\ UNCHANGED <<now, protocol, queue, memory, row, recovered>>

(* TcpAccept, UdpSessionStart.                                               *)
Start ==
  /\ association = "start"
  /\ association' = "open"
  /\ Build("association", None, None, None, FALSE, FALSE)
  /\ UNCHANGED <<sent, received>>

(* run_udp forwards a datagram: the association may not have started, and    *)
(* may have ended.                                                           *)
Forward ==
  /\ protocol = "udp"
  /\ sent < MaxDatagrams
  /\ sent' = sent + 1
  /\ Build("loop", {1}, None, None, FALSE, FALSE)
  /\ UNCHANGED <<association, received>>

(* relay_udp_response.                                                       *)
Respond ==
  /\ protocol = "udp"
  /\ association = "open"
  /\ received < MaxDatagrams
  /\ received' = received + 1
  /\ Build("association", None, {1}, None, FALSE, FALSE)
  /\ UNCHANGED <<association, sent>>

(* TcpClose with the totals, UdpSessionClose without.                        *)
Close ==
  /\ association \in {"open", "failed"}
  /\ association' = "done"
  /\ Build("association", None, None, IF protocol = "tcp" THEN {2} ELSE None, FALSE, TRUE)
  /\ UNCHANGED <<sent, received>>

(* TcpError ends the session, with the totals so far if it knows them; after *)
(* UdpError comes a UdpSessionClose.                                         *)
Fail ==
  /\ association = "open"
  /\ association' = IF protocol = "tcp" THEN "done" ELSE "failed"
  /\ \E totals \in IF protocol = "tcp" THEN {None, {1}} ELSE {None} :
       Build("association", None, None, totals, TRUE, TRUE)
  /\ UNCHANGED <<sent, received>>

(* MatrixService::record_ingress_event: the session store, then the sink.    *)
RecordInMemory(w) ==
  /\ Running
  /\ recording[w] # <<>> /\ recording[w][1].stage = "built"
  /\ memory' = Fold(memory, recording[w][1].update)
  /\ recording' = [recording EXCEPT ![w][1].stage = "stored"]
  /\ UNCHANGED <<now, work, queue, row, recovered>>

RecordInSink(w) ==
  /\ Running
  /\ recording[w] # <<>> /\ recording[w][1].stage = "stored"
  /\ queue' = Append(queue, recording[w][1].update)
  /\ recording' = [recording EXCEPT ![w] = <<>>]
  /\ UNCHANGED <<now, work, memory, row, recovered>>

(* The worker, in the order of the queue.                                    *)
Persist ==
  /\ Running
  /\ queue # <<>>
  /\ row' = Upsert(row, Head(queue))
  /\ queue' = Tail(queue)
  /\ UNCHANGED <<now, work, recording, memory, recovered>>

Quiet == queue = <<>> /\ \A w \in Recorders : recording[w] = <<>>

(* A graceful stop after the session, and a start from the same database:    *)
(* load_recent_traffic_sessions and row_to_traffic_session.                  *)
RestartLoadsOpen == Running /\ Quiet /\ association = "done"
  /\ recovered' = {r \in row : r.closed = None}
  /\ UNCHANGED <<now, work, recording, queue, memory, row>>
Restart ==
  /\ Running
  /\ Quiet
  /\ association = "done"
  /\ recovered' = {r \in row : r.closed # None \/ r.error}
  /\ UNCHANGED <<now, work, recording, queue, memory, row>>

Done == ~Running /\ UNCHANGED vars

Next ==
  \/ Tick
  \/ Start \/ Forward \/ Respond \/ Close \/ Fail
  \/ \E w \in Recorders : RecordInMemory(w) \/ RecordInSink(w)
  \/ Persist
  \/ Restart
  \/ Done

(* Recorders and the worker do not stop, and the session ends.               *)
Fairness ==
  /\ \A w \in Recorders : WF_vars(RecordInMemory(w)) /\ WF_vars(RecordInSink(w))
  /\ WF_vars(Persist) /\ WF_vars(Start) /\ WF_vars(Close) /\ WF_vars(Restart)

Spec == Init /\ [][Next]_vars
FairSpec == Spec /\ Fairness

-------------------------------------------------------------------------------
(* What the matrix reads of a session.                                       *)
Outcome(s) ==
  [closed |-> s.closed, error |-> s.error, bytes |-> s.bytes, ups |-> s.ups,
   downs |-> s.downs, answered |-> s.latency # None]

(* Whatever the order in which the two recorders reach the store and the     *)
(* sink, once all events are through, the row and the session in memory have *)
(* the same end, error and counters.                                         *)
CopiesAgree ==
  Quiet /\ association # "start" =>
    /\ {Outcome(s) : s \in memory} = {Outcome(s) : s \in row}
    /\ \A s \in memory : s.ups = sent /\ s.downs = received

(* A completed session is found completed by the next process: it is never   *)
(* taken for an active one.                                                  *)
CompletedRecovered == association = "start" ~> \E s \in recovered : s.closed # None

(* README: SQLite "preserves events, completed sessions, matrix observations *)
(* ... across restarts".  The duration and the first response latency, which *)
(* the active matrix scores nodes by, are those that memory had.             *)
RestartPreserves ==
  ~Running =>
    \A s \in memory, r \in recovered : s.duration = r.duration /\ s.latency = r.latency
===============================================================================

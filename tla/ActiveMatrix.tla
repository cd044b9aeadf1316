------------------------------ MODULE ActiveMatrix ------------------------------
(***************************************************************************)
(* The feedback loop of a rollout group.  RuntimeState::select scores the   *)
(* candidates by the outcomes of the recorded sessions and records what a   *)
(* shadow scorer would have chosen; TcpAccept makes the session count as    *)
(* active, TcpClose or TcpError as a success or an error.  The store keeps  *)
(* `Limit` sessions and forgets the one it has heard of least recently,     *)
(* also when that one is still relayed.                                     *)
(*                                                                          *)
(* Node i is the i-th member of its group: priority and rank are i - 1.     *)
(* Sessions are TCP sessions, which have no response latency, and their     *)
(* events have increasing times.                                            *)
(***************************************************************************)
EXTENDS Integers, Sequences, FiniteSetsExt

CONSTANTS
  MemberCount,  \* number of nodes of the group
  Tasks,        \* sessions at a time
  Targets,
  MinSuccess,   \* thresholds: of a thousand,
  MinSamples,   \*   completed sessions,
  MaxActive,    \*   and active sessions of a node
  Limit         \* TRAFFIC_SESSION_LIMIT

VARIABLES
  task,         \* what a session task is at, and its selection
  store,        \* the recorded sessions, least recently observed first
  moved         \* sessions for which `store` has changed since they chose

vars == <<task, store, moved>>

Nodes == 1..MemberCount
Nowhere == "no target"
Idle == [phase |-> "idle", node |-> 1, target |-> Nowhere]

Init ==
  /\ task = [t \in Tasks |-> Idle]
  /\ store = <<>>
  /\ moved = {}

-------------------------------------------------------------------------------
(* effective_error_millis, by error class.                                   *)
EffectiveErrorMillis ==
  { 0,          \* client-aborted
    250,        \* response-interrupted after a response
    750,        \* response-interrupted or no response before the first byte
    1000 }      \* connect-failed, handshake-failed, ...

(* MatrixNodeStatsAccumulator: what the sessions `of` come to.               *)
Stats(of) ==
  [sessions |-> Cardinality(of),
   success |-> Cardinality({i \in of : store[i].state = "success"}),
   active |-> Cardinality({i \in of : store[i].state = "active"}),
   millis |-> MapThenSumSet(LAMBDA i : store[i].millis, of)]

(* node_stats_from_sessions and target_stats_from_sessions.                  *)
OfNode(n) == {i \in DOMAIN store : store[i].node = n}
OfTarget(n, x) == {i \in OfNode(n) : store[i].target = x}

(* As capped_node would be if a node were capped above its limit.            *)
CappedAbove(n) == Stats(OfNode(n)).active > MaxActive

(* capped_node.                                                              *)
Capped(n) == Stats(OfNode(n)).active >= MaxActive

(* cooled_node and cooled_target.                                            *)
Cooled(of) ==
  LET s == Stats(of)
      completed == s.success * 1000 + s.millis
  IN /\ of # {}
     /\ completed >= MinSamples * 1000
     /\ IF completed = 0 THEN MinSuccess > 0
        ELSE s.success * 1000000 < MinSuccess * completed

(* aggregate_penalty and target_penalty.                                     *)
Penalty(of) ==
  LET s == Stats(of) IN
    IF of = {} THEN 0
    ELSE ((s.millis * 1000) \div s.sessions) * 100 + s.active * 10000 + s.sessions * 10

(* A score is high * 10^9 - low, and low stays below 10^9.                   *)
Score(high, low) == [high |-> high, low |-> low]
Above(a, b) == a.high > b.high \/ (a.high = b.high /\ a.low < b.low)

(* As active_score would be if a node without history had no bonus.          *)
ActiveScoreUnprobed(n, x) ==
  Score(1000 - (n - 1) - (IF Capped(n) THEN 3000 ELSE 0)
               - (IF Cooled(OfNode(n)) THEN 2000 ELSE 0)
               - (IF Cooled(OfTarget(n, x)) THEN 2000 ELSE 0),
        n - 1 + Penalty(OfNode(n)) + Penalty(OfTarget(n, x)))

(* active_score.                                                             *)
ActiveScore(n, x) ==
  IF OfNode(n) = {} THEN Score(4000 - (n - 1), n - 1)
  ELSE Score(1000 - (n - 1) - (IF Capped(n) THEN 3000 ELSE 0)
                  - (IF Cooled(OfNode(n)) THEN 2000 ELSE 0)
                  - (IF Cooled(OfTarget(n, x)) THEN 2000 ELSE 0),
             n - 1 + Penalty(OfNode(n)) + Penalty(OfTarget(n, x)))

(* As stats_balanced_score would be if no history counted as a clean one.    *)
ShadowScoreUnprobed(n, x) ==
  Score(1000 - (n - 1),
        n - 1 + Penalty(IF OfTarget(n, x) # {} THEN OfTarget(n, x) ELSE OfNode(n)))

(* stats_balanced_score: a node's record for the target hides its total.     *)
ShadowScore(n, x) ==
  IF OfNode(n) = {} THEN Score(4000 - (n - 1), n - 1)
  ELSE Score(1000 - (n - 1),
             n - 1 + Penalty(IF OfTarget(n, x) # {} THEN OfTarget(n, x) ELSE OfNode(n)))

(* The node of the highest score, the first in the order of names of equals. *)
Top(score) ==
  CHOOSE n \in Nodes : \A m \in Nodes \ {n} :
    Above(score[n], score[m]) \/ (score[n] = score[m] /\ n < m)

SelectActiveCandidate(x) == LET score == [n \in Nodes |-> ActiveScore(n, x)] IN Top(score)
ShadowTop(x) == LET score == [n \in Nodes |-> ShadowScore(n, x)] IN Top(score)

-------------------------------------------------------------------------------
(* TrafficSessionStore::apply_update: the session of `t`, moved to the end;  *)
(* a session that is not in a full store costs the oldest its place.         *)
Entry(t) == {i \in DOMAIN store : store[i].owner = {t}}
Without(of) == SelectSeq(store, LAMBDA r : r.owner # of)
Update(t, record) ==
  IF Entry(t) # {} THEN Append(Without({t}), record)
  ELSE IF Len(store) = Limit THEN Append(Tail(store), record)
  ELSE Append(store, record)

(* Others that have chosen and not yet scored the shadow see another store.  *)
Disturb(t) == moved' = moved \cup {u \in Tasks \ {t} : task[u].phase = "chosen"}

(* RuntimeState::select up to the decision.                                  *)
Choose(t, x) ==
  /\ task[t].phase = "idle"
  /\ task' = [task EXCEPT ![t] =
       [phase |-> "chosen", node |-> SelectActiveCandidate(x), target |-> x]]
  /\ UNCHANGED <<store, moved>>

(* record_shadow_selection: it reads the statistics again.  The decision of  *)
(* the shadow scorer goes to a bounded list that nothing else reads.         *)
RecordShadowSelection(t) ==
  /\ task[t].phase = "chosen"
  /\ task' = [task EXCEPT ![t].phase = "selected"]
  /\ moved' = moved \ {t}
  /\ UNCHANGED store

(* TcpAccept.                                                                *)
Accept(t) ==
  /\ task[t].phase = "selected"
  /\ task' = [task EXCEPT ![t].phase = "active"]
  /\ store' = Update(t, [owner |-> {t}, node |-> task[t].node, target |-> task[t].target,
                         state |-> "active", millis |-> 0])
  /\ Disturb(t)

(* The end of a session.  A record that it finds keeps its target.           *)
End(t, state, millis, target) ==
  /\ task[t].phase = "active"
  /\ task' = [task EXCEPT ![t] = Idle]
  /\ store' = Update(t, [owner |-> {}, node |-> task[t].node,
                         target |-> IF Entry(t) # {} THEN task[t].target ELSE target,
                         state |-> state, millis |-> millis])
  /\ Disturb(t)

(* TcpClose has the fields of the target.                                    *)
Close(t) == End(t, "success", 0, task[t].target)

(* TcpError does not have them.                                              *)
Error(t, millis) == End(t, "error", millis, Nowhere)

Starts(t) == \E x \in Targets : Choose(t, x)
Ends(t) == Close(t) \/ \E millis \in EffectiveErrorMillis : Error(t, millis)

Next == \E t \in Tasks : Starts(t) \/ RecordShadowSelection(t) \/ Accept(t) \/ Ends(t)

(* A task runs on, sessions end and new ones come.                           *)
Fairness ==
  \A t \in Tasks :
    /\ WF_vars(Starts(t)) /\ WF_vars(RecordShadowSelection(t))
    /\ WF_vars(Accept(t)) /\ WF_vars(Ends(t))

Spec == Init /\ [][Next]_vars
FairSpec == Spec /\ Fairness

-------------------------------------------------------------------------------
(* The sessions of a node that select cannot know of: chosen and not yet     *)
(* accepted, or forgotten by the store while they are relayed.               *)
Load(n) == {t \in Tasks : task[t].phase # "idle" /\ task[t].node = n}
Unseen(n) ==
  {t \in Load(n) : task[t].phase # "active" \/ Entry(t) = {}}

Guarded(n, x) == Capped(n) \/ Cooled(OfNode(n)) \/ Cooled(OfTarget(n, x))

(* A session goes to a node that relays max_active_sessions, or whose record *)
(* is below the success rate, only if every node of the group is capped or   *)
(* cooled, or if sessions of that node were unknown to select: in flight     *)
(* between choice and TcpAccept, or dropped from a full store.               *)
OverloadExplained ==
  [][\A t \in Tasks :
       task[t].phase = "idle" /\ task'[t].phase = "chosen" =>
         LET n == task'[t].node
             x == task'[t].target
         IN \/ /\ Cardinality(Load(n)) < MaxActive
               /\ ~Cooled(OfNode(n)) /\ ~Cooled(OfTarget(n, x))
            \/ \A m \in Nodes : Guarded(m, x)
            \/ Unseen(n) # {} /\ ~Guarded(n, x)]_vars

(* The shadow scorer disagrees with the selection only over a node that is   *)
(* capped or cooled, or when the statistics changed between the two reads.   *)
ShadowExplained ==
  [][\A t \in Tasks \ moved :
       task[t].phase = "chosen" /\ task'[t].phase = "selected" =>
         \/ ShadowTop(task[t].target) = task[t].node
         \/ \E m \in Nodes : Guarded(m, task[t].target)]_vars

(* No node is given up for good: while sessions come and go, every member is *)
(* chosen again and again, however badly it did and whatever its priority,   *)
(* because the store forgets its sessions.                                   *)
EveryNodeRetried ==
  \A n \in Nodes : []<>(\E t \in Tasks : task[t].phase = "chosen" /\ task[t].node = n)
===============================================================================

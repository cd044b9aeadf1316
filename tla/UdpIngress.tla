------------------------------- MODULE UdpIngress -------------------------------
(***************************************************************************)
(* The UDP relay (run_udp) and the association tasks it spawns, one per     *)
(* peer address.                                                            *)
(*                                                                          *)
(* The relay loop owns the map from peers to senders; an association owns   *)
(* the receiving end, relays until its egress returns, records its close    *)
(* and then reports its peer on a bounded channel the loop drains.  The     *)
(* report carries the peer and not the association, so it may reach the     *)
(* loop when the map already names a newer association of that peer.        *)
(*                                                                          *)
(* Datagrams carry no content: an association counts the ones queued.       *)
(***************************************************************************)
EXTENDS Integers, FiniteSets, Sequences

CONSTANTS
  Peers,            \* source addresses
  MaxSessions,      \* config.max_sessions
  ChannelDepth,     \* UDP_CHANNEL_DEPTH, 64 in the code
  MaxAssociations   \* bound: associations in one behaviour

ASSUME UdpAssumption ==
  /\ MaxSessions \in Nat \ {0}
  /\ ChannelDepth \in Nat \ {0}
  /\ MaxAssociations \in Nat

VARIABLES
  sessions,    \* the loop's map, from peers to associations
  loop,        \* where the loop is
  sending,     \* the association whose sender the loop holds, 0 for none
  token,       \* the cancellation token
  spawned,     \* number of associations spawned
  peerOf,      \* association -> its peer
  state,       \* association -> where its task is
  queued,      \* association -> datagrams in its channel
  complete     \* the completion channel

assocVars == <<spawned, peerOf, state, queued>>
ingressVars == <<sessions, loop, sending, token, assocVars, complete>>

Ids == 1..MaxAssociations
States == {"none", "spawned", "relaying", "ended", "done", "aborted"}
Empty == [p \in {} |-> 0]

IngressInit ==
  /\ sessions = Empty
  /\ loop = "select"
  /\ sending = 0
  /\ token = FALSE
  /\ spawned = 0
  /\ peerOf = [a \in Ids |-> CHOOSE p \in Peers : TRUE]
  /\ state = [a \in Ids |-> "none"]
  /\ queued = [a \in Ids |-> 0]
  /\ complete = <<>>

Without(map, p) == [q \in DOMAIN map \ {p} |-> map[q]]

(* The receiver of association a exists until its egress returns.            *)
Open(a) == state[a] \in {"spawned", "relaying"}

(* Someone can still send to a: the map, or the loop in the middle of a send.*)
HasSender(a) == sending = a \/ \E p \in DOMAIN sessions : sessions[p] = a

-------------------------------------------------------------------------------
(* shutdown.cancel(), by a signal or by another task that failed.            *)
Cancel ==
  /\ ~token
  /\ token' = TRUE
  /\ UNCHANGED <<sessions, loop, sending, assocVars, complete>>

(* Mutant of StopAccepting: the map is not dropped before the join.          *)
StopKeepsSessions ==
  /\ loop = "select"
  /\ token
  /\ loop' = "join"
  /\ UNCHANGED <<sessions, sending, token, assocVars, complete>>

(* The loop leaves on the token; the map and its own completion sender go.   *)
StopAccepting ==
  /\ loop = "select"
  /\ token
  /\ loop' = "join"
  /\ sessions' = Empty
  /\ UNCHANGED <<sending, token, assocVars, complete>>

(* complete_rx.recv().                                                       *)
DrainCompletion ==
  /\ loop = "select"
  /\ complete # <<>>
  /\ sessions' = Without(sessions, Head(complete))
  /\ complete' = Tail(complete)
  /\ UNCHANGED <<loop, sending, token, assocVars>>

(* A datagram of a peer in the map: its event, then the send.                *)
ReceiveKnown(p) ==
  /\ loop = "select"
  /\ p \in DOMAIN sessions
  /\ loop' = "send"
  /\ sending' = sessions[p]
  /\ UNCHANGED <<sessions, token, assocVars, complete>>

(* Room for one more association.                                            *)
HasCapacity == Cardinality(DOMAIN sessions) < MaxSessions

(* A datagram of a new peer: select, insert, spawn, then its event and send. *)
ReceiveNew(p) ==
  /\ loop = "select"
  /\ p \notin DOMAIN sessions
  /\ HasCapacity
  /\ spawned < MaxAssociations
  /\ LET a == spawned + 1 IN
       /\ spawned' = a
       /\ peerOf' = [peerOf EXCEPT ![a] = p]
       /\ state' = [state EXCEPT ![a] = "spawned"]
       /\ sessions' = [q \in DOMAIN sessions \cup {p} |->
                         IF q = p THEN a ELSE sessions[q]]
       /\ sending' = a
  /\ loop' = "send"
  /\ UNCHANGED <<token, queued, complete>>

(* A datagram at capacity, or one for which select finds no node: an error   *)
(* event of a session of its own, and no association.                        *)
ReceiveRefused(p) ==
  /\ loop = "select"
  /\ p \notin DOMAIN sessions
  /\ UNCHANGED ingressVars

(* recv_from fails: the relay returns, which aborts its tasks; its monitor   *)
(* cancels the token.                                                        *)
ReceiveFails ==
  /\ loop = "select"
  /\ loop' = "returned"
  /\ sessions' = Empty
  /\ token' = TRUE
  /\ state' = [a \in Ids |-> IF state[a] \in {"none", "done"} THEN state[a]
                             ELSE "aborted"]
  /\ UNCHANGED <<sending, spawned, peerOf, queued, complete>>

(* sender.tx.send(payload).await: waits while the channel is full; a channel *)
(* whose receiver is gone loses the datagram and the entry.                  *)
Send ==
  /\ loop = "send"
  /\ \/ /\ Open(sending)
        /\ queued[sending] < ChannelDepth
        /\ queued' = [queued EXCEPT ![sending] = @ + 1]
        /\ UNCHANGED sessions
     \/ /\ ~Open(sending)
        /\ sessions' = Without(sessions, peerOf[sending])
        /\ UNCHANGED queued
  /\ loop' = "select"
  /\ sending' = 0
  /\ UNCHANGED <<token, spawned, peerOf, state, complete>>

(* Mutant of Joined: the relay returns without waiting for its tasks.        *)
JoinedEarly ==
  /\ loop = "join"
  /\ loop' = "returned"
  /\ UNCHANGED <<sessions, sending, token, assocVars, complete>>

(* tasks.join_next() has returned every task.                                *)
Joined ==
  /\ loop = "join"
  /\ \A a \in 1..spawned : state[a] = "done"
  /\ loop' = "returned"
  /\ UNCHANGED <<sessions, sending, token, assocVars, complete>>

(* drain_runtime_tasks gives up on the relay: its JoinSet aborts the tasks.  *)
DrainDeadline ==
  /\ token
  /\ loop # "returned"
  /\ loop' = "returned"
  /\ sessions' = Empty
  /\ sending' = 0
  /\ state' = [a \in Ids |-> IF state[a] \in {"none", "done"} THEN state[a]
                             ELSE "aborted"]
  /\ UNCHANGED <<token, spawned, peerOf, queued, complete>>

-------------------------------------------------------------------------------
(* The task runs: UdpSessionStart, then handle_udp.                          *)
Start(a) ==
  /\ state[a] = "spawned"
  /\ state' = [state EXCEPT ![a] = "relaying"]
  /\ UNCHANGED <<sessions, loop, sending, token, spawned, peerOf, queued, complete>>

(* The egress takes a datagram from its channel.                             *)
Relay(a) ==
  /\ state[a] = "relaying"
  /\ queued[a] > 0
  /\ queued' = [queued EXCEPT ![a] = @ - 1]
  /\ UNCHANGED <<sessions, loop, sending, token, spawned, peerOf, state, complete>>

(* handle_udp returns, for idleness or with an error; the close is recorded  *)
(* and what the channel still held is lost.                                  *)
End(a) ==
  /\ state[a] = "relaying"
  /\ state' = [state EXCEPT ![a] = "ended"]
  /\ queued' = [queued EXCEPT ![a] = 0]
  /\ UNCHANGED <<sessions, loop, sending, token, spawned, peerOf, complete>>

(* handle_udp finds its channel closed and empty: "inbound-closed".          *)
EndClosed(a) ==
  /\ ~HasSender(a)
  /\ queued[a] = 0
  /\ End(a)

(* Mutant of Complete: try_send, which drops a completion that does not fit. *)
CompleteDrops(a) ==
  /\ state[a] = "ended"
  /\ complete' = IF Len(complete) < ChannelDepth THEN Append(complete, peerOf[a])
                 ELSE complete
  /\ state' = [state EXCEPT ![a] = "done"]
  /\ UNCHANGED <<sessions, loop, sending, token, spawned, peerOf, queued>>

(* complete_tx.send(peer).await, which waits while the channel is full.      *)
Complete(a) ==
  /\ state[a] = "ended"
  /\ Len(complete) < ChannelDepth
  /\ complete' = Append(complete, peerOf[a])
  /\ state' = [state EXCEPT ![a] = "done"]
  /\ UNCHANGED <<sessions, loop, sending, token, spawned, peerOf, queued>>

-------------------------------------------------------------------------------
LoopStep ==
  \/ StopAccepting
  \/ DrainCompletion
  \/ \E p \in Peers : ReceiveKnown(p) \/ ReceiveNew(p) \/ ReceiveRefused(p)
  \/ ReceiveFails
  \/ Send
  \/ Joined

TaskStep(a) == Start(a) \/ Relay(a) \/ End(a) \/ EndClosed(a) \/ Complete(a)

Returned == loop = "returned" /\ UNCHANGED ingressVars

(* run_udp on its own, and under run_runtime's drain budget.                 *)
RelayNext == Cancel \/ LoopStep \/ (\E a \in Ids : TaskStep(a)) \/ Returned
IngressNext == RelayNext \/ DrainDeadline

IngressSpec == IngressInit /\ [][IngressNext]_ingressVars

(* Tokio polls runnable tasks, and select! picks among its ready branches at *)
(* random, so a branch that is ready again and again is taken; an egress     *)
(* keeps consuming its channel and notices that it was closed.  Idleness and *)
(* errors are not assumed to happen.                                         *)
Fairness ==
  /\ SF_ingressVars(StopAccepting)
  /\ SF_ingressVars(DrainCompletion)
  /\ WF_ingressVars(Send)
  /\ WF_ingressVars(Joined)
  /\ \A a \in Ids : /\ WF_ingressVars(Start(a))
                    /\ WF_ingressVars(Relay(a))
                    /\ WF_ingressVars(EndClosed(a))
                    /\ WF_ingressVars(Complete(a))

FairIngress == IngressSpec /\ Fairness

-------------------------------------------------------------------------------
(* No association outlives the relay: when run_udp is gone, by joining, by   *)
(* an error or by the drain deadline, each of its tasks has reported or was  *)
(* aborted with it.                                                          *)
NoTaskOutlivesRelay ==
  loop = "returned" =>
    /\ \A a \in Ids : state[a] \in {"none", "done", "aborted"}
    /\ DOMAIN sessions = {}

(* A dead entry is removed although datagrams, shutdown and full channels    *)
(* compete for the loop: its peer can be served again.                       *)
EntryReaped ==
  \A p \in Peers :
    (p \in DOMAIN sessions /\ ~Open(sessions[p]))
      ~> (p \in DOMAIN sessions => Open(sessions[p]))

(* Once cancelled, the relay joins its tasks without the drain deadline if   *)
(* their completions fit in the channel, which nobody drains any more.       *)
DrainsWhenCompletionsFit ==
  /\ loop = "join"
  /\ Cardinality({a \in 1..spawned : state[a] # "done"}) + Len(complete) <= ChannelDepth
  ~> loop = "returned"
===============================================================================

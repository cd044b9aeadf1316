---------------------------- MODULE PinnedSessions ----------------------------
(***************************************************************************)
(* What hot reload promises to sessions, with no reload machinery in it:   *)
(* forwarding configurations replace each other in one step, a session is  *)
(* pinned to the one that is current when it selects, it relays through    *)
(* that one and no other, and it can miss it only if at least Window newer *)
(* ones were published before it dialled.                                  *)
(***************************************************************************)
EXTENDS Integers

CONSTANTS Sessions, Forwards, Window

VARIABLES gen, fwd, phase, pin, graph

vars == <<gen, fwd, phase, pin, graph>>

Init ==
  /\ gen = 1
  /\ fwd \in Forwards
  /\ phase = [s \in Sessions |-> "new"]
  /\ pin = [s \in Sessions |-> [gen |-> 1, fwd |-> fwd]]
  /\ graph = [s \in Sessions |-> fwd]

Publish ==
  /\ gen' = gen + 1
  /\ fwd' \in Forwards
  /\ UNCHANGED <<phase, pin, graph>>

Select(s) ==
  /\ phase[s] = "new"
  /\ phase' = [phase EXCEPT ![s] = "selected"]
  /\ pin' = [pin EXCEPT ![s] = [gen |-> gen, fwd |-> fwd]]
  /\ UNCHANGED <<gen, fwd, graph>>

Relay(s) ==
  /\ phase[s] = "selected"
  /\ phase' = [phase EXCEPT ![s] = "relaying"]
  /\ graph' = [graph EXCEPT ![s] = pin[s].fwd]
  /\ UNCHANGED <<gen, fwd, pin>>

Expire(s) ==
  /\ phase[s] = "selected"
  /\ gen >= pin[s].gen + Window
  /\ phase' = [phase EXCEPT ![s] = "expired"]
  /\ UNCHANGED <<gen, fwd, pin, graph>>

Finish(s) ==
  /\ phase[s] \in {"relaying", "expired"}
  /\ phase' = [phase EXCEPT ![s] = "new"]
  /\ UNCHANGED <<gen, fwd, pin, graph>>

Next ==
  \/ Publish
  \/ \E s \in Sessions : Select(s) \/ Relay(s) \/ Expire(s) \/ Finish(s)

Spec == Init /\ [][Next]_vars
===============================================================================

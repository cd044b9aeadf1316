----------------------------- MODULE CapturedUdp -----------------------------
(***************************************************************************)
(* One captured UDP flow (relay_captured_udp): a request is read from the  *)
(* TUN stack, an egress task is spawned for it, the first response is      *)
(* written back, and the task is awaited.  The task sends its responses on *)
(* a channel of which only the first one is read.  It is aborted when no   *)
(* response comes in time, or when it does not end in time afterwards; an  *)
(* abort takes effect the next time the task waits.                        *)
(***************************************************************************)
EXTENDS Naturals, Sequences

CONSTANTS
    ResponseDepth,   \* UDP_CHANNEL_DEPTH of captured.rs
    MaxResponses     \* bound: responses of the upstream

VARIABLES
    at,          \* where relay_captured_udp is
    sender,      \* downstream_tx is held
    task,        \* the egress task: none, dialing, relaying, sending, recording,
                 \* and its end: ok, failed, aborted
    abort,       \* task.abort() was called
    responses,   \* responses in the channel
    produced,    \* responses so far
    events       \* the session's events

capturedVars == <<at, sender, task, abort, responses, produced, events>>

CapturedInit ==
    /\ at = "read" /\ sender = FALSE /\ task = "none" /\ abort = FALSE
    /\ responses = 0 /\ produced = 0 /\ events = <<>>

Log(event) == events' = Append(events, event)
TaskOver == task \in {"ok", "failed", "aborted"}

(* The request: a failed or empty read, a target no rule lets through, or  *)
(* an egress task with the request in its channel                          *)
ReadRequest ==
    /\ at = "read"
    /\ \/ at' = "over" /\ (UNCHANGED events \/ Log("error")) /\ UNCHANGED <<sender, task>>
       \/ at' = "respond" /\ Log("datagram") /\ sender' = TRUE /\ task' = "dialing"
    /\ UNCHANGED <<abort, responses, produced>>

Returns == at' = "over" /\ sender' = FALSE

Respond ==
    /\ at = "respond" /\ responses > 0
    /\ responses' = responses - 1 /\ at' = "write"
    /\ UNCHANGED <<sender, task, abort, produced, events>>

(* The channel has ended: await_udp_error                                  *)
NoResponse ==
    /\ at = "respond" /\ responses = 0 /\ TaskOver
    /\ Returns /\ Log("error")
    /\ UNCHANGED <<task, abort, responses, produced>>

TimesOut(aborts) ==
    /\ at = "respond" /\ responses = 0
    /\ Returns /\ Log("error") /\ abort' = aborts
    /\ UNCHANGED <<task, responses, produced>>

ResponseTimeoutKeeps == TimesOut(FALSE)
ResponseTimeout == TimesOut(TRUE)

(* write_all to the stack; when it fails, the task is left to itself.      *)
Write ==
    /\ at = "write"
    /\ at' \in {"close", "over"} /\ sender' = FALSE
    /\ UNCHANGED <<task, abort, responses, produced, events>>

(* await_udp_outcome: only an outcome is recorded, an error is returned.   *)
AwaitOutcome ==
    /\ at = "close" /\ TaskOver
    /\ Returns
    /\ IF task = "ok" THEN Log("close") ELSE UNCHANGED events
    /\ UNCHANGED <<task, abort, responses, produced>>

CloseTimeout ==
    /\ at = "close" /\ ~TaskOver
    /\ Returns /\ abort' = TRUE
    /\ UNCHANGED <<task, responses, produced, events>>

-----------------------------------------------------------------------------
(* The egress task *)

Dial ==
    /\ task = "dialing"
    /\ task' \in {"relaying", "failed"}
    /\ UNCHANGED <<at, sender, abort, responses, produced, events>>

(* relay_udp_response sends to the channel, which may be full, or closed   *)
(* because relay_captured_udp has returned.                                *)
Upstream ==
    /\ task = "relaying" /\ produced < MaxResponses
    /\ produced' = produced + 1 /\ task' = "sending"
    /\ UNCHANGED <<at, sender, abort, responses, events>>

SendResponse ==
    /\ task = "sending"
    /\ IF at = "over" THEN task' = "failed" /\ UNCHANGED responses
       ELSE /\ responses < ResponseDepth
            /\ responses' = responses + 1 /\ task' = "recording"
    /\ UNCHANGED <<at, sender, abort, produced, events>>

(* The response may be on its way before its event is recorded.            *)
RecordResponse ==
    /\ task = "recording"
    /\ task' = "relaying" /\ Log("datagram")
    /\ UNCHANGED <<at, sender, abort, responses, produced>>

(* handle_udp returns: the inbound channel has ended; the idle timeout or  *)
(* a failed socket.                                                        *)
InboundEnds ==
    /\ task = "relaying" /\ ~sender
    /\ task' = "ok"
    /\ UNCHANGED <<at, sender, abort, responses, produced, events>>

TaskEnds ==
    /\ task = "relaying"
    /\ task' \in {"ok", "failed"}
    /\ UNCHANGED <<at, sender, abort, responses, produced, events>>

Aborted ==
    /\ abort /\ task \in {"dialing", "relaying", "sending"}
    /\ task' = "aborted"
    /\ UNCHANGED <<at, sender, abort, responses, produced, events>>

CapturedNext ==
    \/ ReadRequest \/ Respond \/ NoResponse \/ ResponseTimeout \/ Write
    \/ AwaitOutcome \/ CloseTimeout
    \/ Dial \/ Upstream \/ SendResponse \/ RecordResponse \/ InboundEnds \/ TaskEnds \/ Aborted

(* The timers fire, the stack takes the response, tasks are polled; a dial *)
(* may hang for ever.                                                      *)
CapturedFairness ==
    /\ WF_capturedVars(Respond \/ NoResponse \/ ResponseTimeout)
    /\ WF_capturedVars(Write) /\ WF_capturedVars(AwaitOutcome \/ CloseTimeout)
    /\ WF_capturedVars(SendResponse \/ RecordResponse) /\ WF_capturedVars(InboundEnds)
    /\ WF_capturedVars(Aborted)

-----------------------------------------------------------------------------
(* A captured flow ends whatever the upstream does, and takes its egress   *)
(* task with it: a dial that hangs, a full response channel, a stack that  *)
(* refuses the response (relay_captured_udp).  No event of the session     *)
(* follows its close.                                                      *)
CapturedEnds ==
    /\ at = "respond" ~> at = "over" /\ TaskOver
    /\ [](\A i \in DOMAIN events : events[i] = "close" => i = Len(events))
=============================================================================

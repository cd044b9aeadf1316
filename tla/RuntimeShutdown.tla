---------------------------- MODULE RuntimeShutdown ----------------------------
(***************************************************************************)
(* The end of a dynet process: run_runtime waits for the control plane,     *)
(* drains its tasks one after the other against one deadline, aborts what   *)
(* is left, and flushes the observation sink.  Tasks record observations    *)
(* until they stop; some of what they spawn is detached and records until   *)
(* the process is gone.  The supervisor kills a process that outlives its   *)
(* budget.                                                                  *)
(*                                                                          *)
(* Time is counted in seconds from the first cause to stop.  It does not    *)
(* pass a deadline that main is waiting for: a timer that is due fires      *)
(* first.                                                                   *)
(***************************************************************************)
EXTENDS Integers, FiniteSets, Sequences

CONSTANTS
  Tasks,            \* number of monitored tasks, in the order of the drain
  QueueCapacity,    \* OBSERVATION_QUEUE_CAPACITY, 16384 in the code
  ReloadTime,       \* bound: seconds that a running reload can take
  MaxObservations   \* bound: observations in one behaviour

ASSUME ShutdownAssumption ==
  /\ Tasks \in Nat
  /\ QueueCapacity \in Nat \ {0}
  /\ ReloadTime \in Nat
  /\ MaxObservations \in Nat

ApiGrace == 1       \* seconds, in run_runtime
DrainGrace == 4
FlushGrace == 2
KillAfter == 8      \* seconds, in the supervisor's terminate_child

VARIABLES
  now,
  signal,       \* when SIGTERM or SIGINT came: at most one time
  reloading,    \* the signal task is inside reload.reload()
  shutdown,     \* the cancellation token
  cancelled,    \* when it was cancelled
  task,         \* monitored task -> "running", "done", "aborted"
  failures,     \* tasks whose error is in the failure channel
  main,         \* "serving", "closing", "draining", "flushing", "exited", "killed"
  draining,     \* index of the task that the drain is at
  deadline,     \* of what main is waiting for
  server,       \* result of the control plane: "none", "ok", "error"
  result,       \* of run_runtime
  queue,        \* the sink: observations and at most one "flush"
  recorded,     \* observations so far; the next has this number plus one
  covered,      \* observations that the flush has to account for
  written,      \* observations in the database
  lost,         \* observations counted in dropped_observations or sink_errors
  flush         \* "none", "waiting", "acked", "cancelled"

control == <<signal, reloading, shutdown, cancelled>>
exit == <<main, draining, deadline, server, result>>
sink == <<queue, recorded, covered, written, lost, flush>>
processVars == <<now, control, task, failures, exit, sink>>

ProcessInit ==
  /\ now = 0
  /\ signal = {}
  /\ reloading \in BOOLEAN
  /\ shutdown = FALSE
  /\ cancelled = 0
  /\ task = [t \in 1..Tasks |-> "running"]
  /\ failures = {}
  /\ main = "serving"
  /\ draining = 1
  /\ deadline = 0
  /\ server = "none"
  /\ result = "none"
  /\ queue = <<>>
  /\ recorded = 0
  /\ covered = {}
  /\ written = {}
  /\ lost = {}
  /\ flush = "none"

Alive == main \notin {"exited", "killed"}

-------------------------------------------------------------------------------
(* The signal, the reload it may have to wait for, and the token.            *)
Signal ==
  /\ Alive
  /\ signal = {}
  /\ signal' = {now}
  /\ UNCHANGED <<now, reloading, shutdown, cancelled, task, failures, exit, sink>>

ReloadReturns ==
  /\ Alive
  /\ reloading
  /\ reloading' = FALSE
  /\ UNCHANGED <<now, signal, shutdown, cancelled, task, failures, exit, sink>>

(* shutdown.cancel(): the first call counts.                                 *)
CancelToken ==
  /\ shutdown' = TRUE
  /\ cancelled' = IF shutdown THEN cancelled ELSE now

(* spawn_signal_control: one select loop for all signals.                    *)
HandleTerminate ==
  /\ Alive
  /\ signal # {}
  /\ ~reloading
  /\ ~shutdown
  /\ CancelToken
  /\ UNCHANGED <<now, signal, reloading, task, failures, exit, sink>>

-------------------------------------------------------------------------------
(* monitor_runtime_task: an error, or an end before shutdown, is a failure.  *)
TaskFails(t) ==
  /\ Alive
  /\ task[t] = "running"
  /\ task' = [task EXCEPT ![t] = "done"]
  /\ failures' = failures \cup {t}
  /\ CancelToken
  /\ UNCHANGED <<now, signal, reloading, exit, sink>>

TaskStops(t) ==
  /\ Alive
  /\ task[t] = "running"
  /\ shutdown
  /\ task' = [task EXCEPT ![t] = "done"]
  /\ UNCHANGED <<now, control, failures, exit, sink>>

(* ObservationSink::try_send, by task t or (t = 0) by a detached one.        *)
Record(t) ==
  /\ Alive
  /\ t # 0 => task[t] = "running"
  /\ recorded < MaxObservations
  /\ recorded' = recorded + 1
  /\ IF Len(queue) < QueueCapacity
       THEN queue' = Append(queue, recorded + 1) /\ UNCHANGED lost
       ELSE lost' = lost \cup {recorded + 1} /\ UNCHANGED queue
  /\ covered' = IF t # 0 \/ flush = "none" THEN covered \cup {recorded + 1} ELSE covered
  /\ UNCHANGED <<now, control, task, failures, exit, written, flush>>

(* ObservationSinkWorker: the head of the queue is written, or counted.      *)
Persist ==
  /\ Alive
  /\ queue # <<>> /\ Head(queue) # 0
  /\ queue' = Tail(queue)
  /\ \/ written' = written \cup {Head(queue)} /\ UNCHANGED lost
     \/ lost' = lost \cup {Head(queue)} /\ UNCHANGED written
  /\ UNCHANGED <<now, control, task, failures, exit, recorded, covered, flush>>

(* A flush (0 in the queue) is maintenance, then the answer; without it the  *)
(* oneshot is dropped.                                                       *)
PersistFlush ==
  /\ Alive
  /\ queue # <<>> /\ Head(queue) = 0
  /\ queue' = Tail(queue)
  /\ flush' \in {"acked", "cancelled"}
  /\ UNCHANGED <<now, control, task, failures, exit, recorded, covered, written, lost>>

-------------------------------------------------------------------------------
(* The control plane ends by itself, or after the token.                     *)
ServerEnds(r) ==
  /\ \/ main = "serving" /\ (shutdown \/ r = "error")
     \/ main = "closing"
  /\ server' = r
  /\ main' = "draining"
  /\ deadline' = now + DrainGrace
  /\ CancelToken
  /\ UNCHANGED <<now, signal, reloading, task, failures, draining, result, sink>>

AwaitServer ==
  /\ main = "serving"
  /\ shutdown
  /\ main' = "closing"
  /\ deadline' = now + ApiGrace
  /\ UNCHANGED <<now, control, task, failures, draining, server, result, sink>>

(* Mutant: the control plane is awaited without a timeout.                   *)
ServerAwaited == main = "closing" /\ server # "none" /\ UNCHANGED processVars

(* timeout(1s, server): "control plane graceful shutdown timed out".         *)
ServerTimesOut ==
  /\ main = "closing"
  /\ now = deadline
  /\ server' = "error"
  /\ main' = "draining"
  /\ deadline' = now + DrainGrace
  /\ UNCHANGED <<now, control, task, failures, draining, result, sink>>

(* drain_runtime_tasks: the next task has ended, or is aborted once the      *)
(* deadline has passed.                                                      *)
\* Mutant: a task that has not ended is passed over.
DrainWithoutAbort ==
  /\ main = "draining"
  /\ draining <= Tasks
  /\ task[draining] # "running" \/ now = deadline
  /\ UNCHANGED task
  /\ draining' = draining + 1
  /\ UNCHANGED <<now, control, failures, main, deadline, server, result, sink>>

\* Mutant: every task has the budget for itself.
DrainPerTask ==
  /\ main = "draining"
  /\ draining <= Tasks
  /\ \/ task[draining] # "running" /\ UNCHANGED task
     \/ now = deadline /\ task' = [task EXCEPT ![draining] = "aborted"]
  /\ draining' = draining + 1
  /\ deadline' = now + DrainGrace
  /\ UNCHANGED <<now, control, failures, main, server, result, sink>>

Drain ==
  /\ main = "draining"
  /\ draining <= Tasks
  /\ \/ task[draining] # "running" /\ UNCHANGED task
     \/ /\ task[draining] = "running" /\ now = deadline
        /\ task' = [task EXCEPT ![draining] = "aborted"]
  /\ draining' = draining + 1
  /\ UNCHANGED <<now, control, failures, main, deadline, server, result, sink>>

StartFlush ==
  /\ main = "draining"
  /\ draining > Tasks
  /\ main' = "flushing"
  /\ deadline' = now + FlushGrace
  /\ UNCHANGED <<now, control, task, failures, draining, server, result, sink>>

(* ObservationSink::flush waits for room in the queue.                       *)
SendFlush ==
  /\ main = "flushing"
  /\ flush = "none"
  /\ Len(queue) < QueueCapacity
  /\ queue' = Append(queue, 0)
  /\ flush' = "waiting"
  /\ UNCHANGED <<now, control, task, failures, exit, recorded, covered, written, lost>>

(* run_runtime returns.                                                      *)
Returns(r) ==
  /\ main' = "exited"
  /\ result' = r
  /\ UNCHANGED <<now, control, task, failures, draining, deadline, server, sink>>

\* Mutant: only the control plane's result counts.
FlushAckedServerOnly ==
  /\ main = "flushing"
  /\ flush = "acked"
  /\ Returns(server)

FlushAcked ==
  /\ main = "flushing"
  /\ flush = "acked"
  /\ Returns(IF failures # {} THEN "error" ELSE server)

FlushFails ==
  /\ main = "flushing"
  /\ flush = "cancelled" \/ (flush # "acked" /\ now = deadline)
  /\ Returns("error")

-------------------------------------------------------------------------------
(* Time passes from the signal on.                                           *)
Overdue == \E at \in signal : now = at + KillAfter
TimerDue ==
  \/ main \in {"closing", "flushing"} /\ now = deadline
  \/ main = "draining" /\ (now = deadline \/ draining > Tasks)
  \/ main = "serving" /\ shutdown
  \/ signal # {} /\ ~reloading /\ ~shutdown
  \/ reloading /\ now >= ReloadTime
  \/ Overdue

Tick ==
  /\ Alive
  /\ signal # {} \/ shutdown
  /\ ~TimerDue
  /\ now' = now + 1
  /\ UNCHANGED <<control, task, failures, exit, sink>>

(* terminate_child: SIGKILL to a process that has outlived the budget.       *)
KillOverdue ==
  /\ Alive
  /\ Overdue
  /\ main' = "killed"
  /\ UNCHANGED <<now, control, task, failures, draining, deadline, server, result, sink>>

Gone == ~Alive /\ UNCHANGED processVars

ProcessNext ==
  \/ Signal \/ ReloadReturns \/ HandleTerminate
  \/ \E t \in 1..Tasks : TaskFails(t) \/ TaskStops(t)
  \/ \E t \in 0..Tasks : Record(t)
  \/ Persist \/ PersistFlush
  \/ \E r \in {"ok", "error"} : ServerEnds(r)
  \/ AwaitServer \/ ServerTimesOut
  \/ Drain \/ StartFlush \/ SendFlush \/ FlushAcked \/ FlushFails
  \/ Tick \/ KillOverdue \/ Gone

(* Main and the clock keep going; the worker and the tasks may hang.         *)
ProcessFairness ==
  /\ WF_processVars(ReloadReturns) /\ WF_processVars(HandleTerminate)
  /\ WF_processVars(AwaitServer) /\ WF_processVars(ServerTimesOut)
  /\ WF_processVars(Drain) /\ WF_processVars(StartFlush)
  /\ WF_processVars(SendFlush) /\ WF_processVars(FlushAcked) /\ WF_processVars(FlushFails)
  /\ WF_processVars(Tick) /\ WF_processVars(KillOverdue)

ProcessSpec == ProcessInit /\ [][ProcessNext]_processVars
ProcessFairSpec == ProcessSpec /\ ProcessFairness

-------------------------------------------------------------------------------
(* README: "flushes queued persistence before exit".  A process that exits   *)
(* without an error has written, or counted as lost, every observation of    *)
(* its tasks and every earlier one of what they detached: no task that the   *)
(* drain gave up on records behind the flush.                                *)
CleanExitFlushed ==
  result = "ok" => flush = "acked" /\ covered \subseteq written \cup lost

(* An ingress task that failed, before or during the shutdown, makes the     *)
(* process exit with an error.                                               *)
FailuresSurface == result = "ok" => failures = {}

(* From the cancellation on, the budgets of run_runtime hold and add up to   *)
(* less than the supervisor's: however tasks, worker and server hang, the    *)
(* process is only killed if the signal had to wait for the token.           *)
ExitsInBudget ==
  /\ Alive /\ shutdown => now - cancelled <= ApiGrace + DrainGrace + FlushGrace
  /\ main = "killed" => \E at \in signal : ~shutdown \/ cancelled > at

(* A shutdown ends, whatever the tasks, the worker and the server do.        *)
ShutdownCompletes == shutdown ~> ~Alive

(* README: dynet handles "SIGTERM/SIGINT as bounded graceful shutdown".      *)
GracefulWithinBudget == main # "killed"
===============================================================================

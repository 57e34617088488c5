------------------------------ MODULE WorkQueue ------------------------------
(***************************************************************************)
(* The in-memory work queue (internal/queue): a bounded channel, producers *)
(* that offer a task until the channel takes it or their context is done,  *)
(* a pool of workers, a counter of tasks in flight that Wait() blocks on.  *)
(* The channel and the counter live in the process: a restart loses both.  *)
(***************************************************************************)
EXTENDS Integers, Sequences, FiniteSets

CONSTANTS
  Producers,  \* goroutines that publish: HTTP handlers, the automation runner
  Workers,    \* the pool
  Tasks,
  NoTask,     \* a producer that offers nothing, an idle worker
  Buffer      \* capacity of the channel

ASSUME WorkQueueAssumption ==
  /\ IsFiniteSet(Producers) /\ IsFiniteSet(Workers)
  /\ NoTask \notin Tasks /\ Buffer \in Nat \ {0}

VARIABLES
  channel,    \* the buffered tasks
  closed,     \* close(q.ch) has run
  cancelled,  \* the context of the workers (and of the process) is done
  inFlight,   \* the WaitGroup
  offering,   \* the task each producer is blocked on in Publish
  running,    \* the task each worker processes
  exited      \* workers whose loop has returned

queue == <<channel, closed, cancelled, inFlight, offering, running, exited>>

QueueInit ==
  /\ channel = <<>> /\ closed = FALSE /\ cancelled = FALSE /\ inFlight = 0
  /\ offering = [p \in Producers |-> NoTask]
  /\ running = [w \in Workers |-> NoTask]
  /\ exited = {}

\* Publish, up to its select.
Publish(p, t) ==
  /\ offering[p] = NoTask
  /\ inFlight' = inFlight + 1
  /\ offering' = [offering EXCEPT ![p] = t]
  /\ UNCHANGED <<channel, closed, cancelled, running, exited>>

\* The channel has room.
Enqueue(p) ==
  /\ offering[p] # NoTask /\ ~closed /\ Len(channel) < Buffer
  /\ channel' = Append(channel, offering[p])
  /\ offering' = [offering EXCEPT ![p] = NoTask]
  /\ UNCHANGED <<closed, cancelled, inFlight, running, exited>>

\* (Mutant: the counter is not given back.)
RefusedLeaky(p) ==
  /\ offering[p] # NoTask
  /\ \/ Len(channel) = Buffer \/ closed \/ cancelled
  /\ offering' = [offering EXCEPT ![p] = NoTask]
  /\ UNCHANGED <<channel, closed, cancelled, inFlight, running, exited>>

\* The deadline of a full channel, a cancelled parent, or the recovered panic
\* of a send on a closed channel: the task was never enqueued.
Refused(p) ==
  /\ offering[p] # NoTask
  /\ \/ Len(channel) = Buffer \/ closed \/ cancelled
  /\ inFlight' = inFlight - 1
  /\ offering' = [offering EXCEPT ![p] = NoTask]
  /\ UNCHANGED <<channel, closed, cancelled, running, exited>>

\* A worker's select takes the oldest task; a closed channel is drained.
TakeTask(w) ==
  /\ w \notin exited /\ running[w] = NoTask /\ channel # <<>>
  /\ running' = [running EXCEPT ![w] = Head(channel)]
  /\ channel' = Tail(channel)
  /\ UNCHANGED <<closed, cancelled, inFlight, offering, exited>>

\* process: done, whether the handler returned, failed or panicked.
Processed(w) ==
  /\ running[w] # NoTask
  /\ running' = [running EXCEPT ![w] = NoTask]
  /\ inFlight' = inFlight - 1
  /\ UNCHANGED <<channel, closed, cancelled, offering, exited>>

\* The loop returns when its context is done (even with tasks waiting) or the
\* closed channel is empty.
WorkerExits(w) ==
  /\ w \notin exited /\ running[w] = NoTask
  /\ cancelled \/ (closed /\ channel = <<>>)
  /\ exited' = exited \cup {w}
  /\ UNCHANGED <<channel, closed, cancelled, inFlight, offering, running>>

\* A signal cancels the context the workers and the handlers run under; the
\* teardown closes the channel only after the producers it knows of.
Cancel ==
  /\ ~cancelled /\ cancelled' = TRUE
  /\ UNCHANGED <<channel, closed, inFlight, offering, running, exited>>

CloseQueue ==
  /\ cancelled /\ ~closed /\ closed' = TRUE
  /\ UNCHANGED <<channel, cancelled, inFlight, offering, running, exited>>

\* The process ends, in order or not, and a new one starts with an empty queue.
QueueRestart ==
  /\ channel' = <<>> /\ closed' = FALSE /\ cancelled' = FALSE /\ inFlight' = 0
  /\ offering' = [p \in Producers |-> NoTask]
  /\ running' = [w \in Workers |-> NoTask]
  /\ exited' = {}

----------------------------------------------------------------------------
QueueTypeOK ==
  /\ channel \in Seq(Tasks) /\ Len(channel) <= Buffer
  /\ closed \in BOOLEAN /\ cancelled \in BOOLEAN /\ inFlight \in Int
  /\ offering \in [Producers -> Tasks \cup {NoTask}]
  /\ running \in [Workers -> Tasks \cup {NoTask}]
  /\ exited \subseteq Workers

Offering == {p \in Producers : offering[p] # NoTask}
Busy     == {w \in Workers : running[w] # NoTask}

\* Wait() neither hangs on a task that is nowhere nor returns before one that
\* is: the counter is the tasks offered, buffered and processed, on every
\* path out of Publish and of a worker.
WaitIsExact == inFlight = Cardinality(Offering) + Len(channel) + Cardinality(Busy)
=============================================================================

--------------------------- MODULE MessagesProofs ---------------------------
(***************************************************************************)
(* What holds of outbound delivery for every number of producers, workers, *)
(* webhook requests, messages and faults: the work queue's counter, that a *)
(* message is handed over once, and that Messages implements Outbox.       *)
(***************************************************************************)
EXTENDS Messages, FiniteSetTheorems, TLAPS

----------------------------------------------------------------------------
(* The queue alone.                                                         *)

\* What a step of Messages may do to the queue.
QueueNext ==
  \/ \E p \in Producers : Enqueue(p) \/ Refused(p) \/ \E m \in Out : Publish(p, m)
  \/ \E w \in Workers : TakeTask(w) \/ Processed(w) \/ WorkerExits(w)
  \/ Cancel \/ CloseQueue \/ QueueRestart
  \/ UNCHANGED queue

LEMMA QueueSteps ==
  ASSUME [Next]_vars
  PROVE  QueueNext
<1>1. ASSUME NEW p \in Producers,
             PublishReturns(p) \/ \E m \in Out : Send(p, m) \/ AutoReply(p, m)
      PROVE  QueueNext
  BY <1>1 DEF QueueNext, PublishReturns, Send, AutoReply
<1>2. ASSUME NEW w \in Workers, Take(w) \/ Deliver(w)
      PROVE  QueueNext
  BY <1>2 DEF QueueNext, Take, Deliver, ProviderAccepts, SendReturns, StampOutboundSent,
              MarkFailed
<1>3. ASSUME NEW h \in Handlers, Process(h) \/ \E ev \in Events : Receive(h, ev)
      PROVE  QueueNext
  BY <1>3 DEF QueueNext, Process, Receive, Ingest, Recheck, Arm, ApplyStatus, Answer
<1>4. ASSUME \/ \E i \in In : CustomerWrites(i)
             \/ \E m \in Out, st \in Reports : ProviderReports(m, st)
             \/ \E ev \in Events : Redeliver(ev)
             \/ MarkChatRead \/ Generate \/ UNCHANGED vars
      PROVE  QueueNext
  BY <1>4 DEF QueueNext, CustomerWrites, ProviderReports, Redeliver, MarkChatRead, Generate,
              vars
<1>5. ASSUME Shutdown \/ CrashRestart
      PROVE  QueueNext
  BY <1>5 DEF QueueNext, Shutdown, CrashRestart
<1> QED BY <1>1, <1>2, <1>3, <1>4, <1>5 DEF Next

\* The channel, the counter and the pool keep their types.
LEMMA QueueTypeStep ==
  ASSUME QueueTypeOK, QueueNext
  PROVE  QueueTypeOK'
<1> USE WorkQueueAssumption, MessagesAssumption DEF QueueTypeOK
<1>1. ASSUME NEW p \in Producers, Enqueue(p) PROVE QueueTypeOK'
  BY <1>1 DEF Enqueue
<1>2. ASSUME NEW p \in Producers, Refused(p) PROVE QueueTypeOK'
  BY <1>2 DEF Refused
<1>3. ASSUME NEW p \in Producers, NEW m \in Out, Publish(p, m) PROVE QueueTypeOK'
  BY <1>3 DEF Publish
<1>4. ASSUME NEW w \in Workers, TakeTask(w) PROVE QueueTypeOK'
  BY <1>4 DEF TakeTask
<1>5. ASSUME NEW w \in Workers, Processed(w) \/ WorkerExits(w) PROVE QueueTypeOK'
  BY <1>5 DEF Processed, WorkerExits
<1>6. ASSUME Cancel \/ CloseQueue \/ UNCHANGED queue PROVE QueueTypeOK'
  BY <1>6 DEF Cancel, CloseQueue, queue
<1>7. ASSUME QueueRestart PROVE QueueTypeOK'
  <2>1. channel' \in Seq(Tasks) /\ Len(channel') <= Buffer
    BY <1>7 DEF QueueRestart
  <2>2. closed' \in BOOLEAN /\ cancelled' \in BOOLEAN
    BY <1>7, Zenon DEF QueueRestart
  <2>4. inFlight' \in Int /\ exited' \subseteq Workers
    BY <1>7 DEF QueueRestart
  <2>3. /\ offering' \in [Producers -> Tasks \cup {NoTask}]
        /\ running' \in [Workers -> Tasks \cup {NoTask}]
    BY <1>7 DEF QueueRestart
  <2> QED BY <2>1, <2>2, <2>3, <2>4, Zenon
<1> QED BY <1>1, <1>2, <1>3, <1>4, <1>5, <1>6, <1>7 DEF QueueNext

\* Every path out of Publish and of a worker gives the counter back.
LEMMA WaitStep ==
  ASSUME QueueTypeOK, WaitIsExact, QueueNext
  PROVE  WaitIsExact'
<1> USE WorkQueueAssumption, MessagesAssumption DEF QueueTypeOK, WaitIsExact
<1>0. /\ IsFiniteSet(Offering) /\ Cardinality(Offering) \in Nat
      /\ IsFiniteSet(Busy) /\ Cardinality(Busy) \in Nat
  BY FS_Subset, FS_CardinalityType DEF Offering, Busy
<1>1. ASSUME NEW p \in Producers, Enqueue(p) PROVE WaitIsExact'
  <2>1. Offering' = Offering \ {p} /\ p \in Offering /\ Busy' = Busy
    BY <1>1 DEF Enqueue, Offering, Busy
  <2>2. Len(channel') = Len(channel) + 1 /\ inFlight' = inFlight
    BY <1>1 DEF Enqueue
  <2>3. Cardinality(Offering \ {p}) = Cardinality(Offering) - 1
    BY <1>0, <2>1, FS_RemoveElement
  <2> QED BY <1>0, <2>1, <2>2, <2>3
<1>2. ASSUME NEW p \in Producers, Refused(p) PROVE WaitIsExact'
  <2>1. Offering' = Offering \ {p} /\ p \in Offering /\ Busy' = Busy
    BY <1>2 DEF Refused, Offering, Busy
  <2>2. channel' = channel /\ inFlight' = inFlight - 1
    BY <1>2 DEF Refused
  <2>3. Cardinality(Offering \ {p}) = Cardinality(Offering) - 1
    BY <1>0, <2>1, FS_RemoveElement
  <2> QED BY <1>0, <2>1, <2>2, <2>3
<1>3. ASSUME NEW p \in Producers, NEW m \in Out, Publish(p, m) PROVE WaitIsExact'
  <2>1. Offering' = Offering \cup {p} /\ p \notin Offering /\ Busy' = Busy
    BY <1>3 DEF Publish, Offering, Busy
  <2>2. channel' = channel /\ inFlight' = inFlight + 1
    BY <1>3 DEF Publish
  <2>3. Cardinality(Offering \cup {p}) = Cardinality(Offering) + 1
    BY <1>0, <2>1, FS_AddElement
  <2> QED BY <1>0, <2>1, <2>2, <2>3
<1>4. ASSUME NEW w \in Workers, TakeTask(w) PROVE WaitIsExact'
  <2>1. Busy' = Busy \cup {w} /\ w \notin Busy /\ Offering' = Offering
    BY <1>4 DEF TakeTask, Offering, Busy
  <2>2. Len(channel') = Len(channel) - 1 /\ inFlight' = inFlight
    BY <1>4 DEF TakeTask
  <2>3. Cardinality(Busy \cup {w}) = Cardinality(Busy) + 1
    BY <1>0, <2>1, FS_AddElement
  <2> QED BY <1>0, <2>1, <2>2, <2>3
<1>5. ASSUME NEW w \in Workers, Processed(w) PROVE WaitIsExact'
  <2>1. Busy' = Busy \ {w} /\ w \in Busy /\ Offering' = Offering
    BY <1>5 DEF Processed, Offering, Busy
  <2>2. channel' = channel /\ inFlight' = inFlight - 1
    BY <1>5 DEF Processed
  <2>3. Cardinality(Busy \ {w}) = Cardinality(Busy) - 1
    BY <1>0, <2>1, FS_RemoveElement
  <2> QED BY <1>0, <2>1, <2>2, <2>3
<1>6. ASSUME \/ \E w \in Workers : WorkerExits(w)
             \/ Cancel \/ CloseQueue \/ UNCHANGED queue
      PROVE  WaitIsExact'
  <2>1. Busy' = Busy /\ Offering' = Offering /\ channel' = channel /\ inFlight' = inFlight
    BY <1>6 DEF WorkerExits, Cancel, CloseQueue, queue, Busy, Offering
  <2> QED BY <2>1
<1>7. ASSUME QueueRestart PROVE WaitIsExact'
  <2>1. Busy' = {} /\ Offering' = {} /\ channel' = <<>> /\ inFlight' = 0
    BY <1>7 DEF QueueRestart, Busy, Offering
  <2> QED BY <2>1, FS_EmptySet
<1> QED BY <1>1, <1>2, <1>3, <1>4, <1>5, <1>6, <1>7 DEF QueueNext

LEMMA InitQueueType ==
  ASSUME Init
  PROVE  QueueTypeOK
<1>1. channel \in Seq(Tasks) /\ Len(channel) <= Buffer
  BY WorkQueueAssumption DEF Init, QueueInit
<1>2. closed \in BOOLEAN /\ cancelled \in BOOLEAN
  BY Zenon DEF Init, QueueInit
<1>3. inFlight \in Int /\ exited \subseteq Workers
  BY DEF Init, QueueInit
<1>4. /\ offering \in [Producers -> Tasks \cup {NoTask}]
      /\ running \in [Workers -> Tasks \cup {NoTask}]
  BY DEF Init, QueueInit
<1> QED BY <1>1, <1>2, <1>3, <1>4, Zenon DEF QueueTypeOK

\* Wait() of the work queue returns when, and only when, no task is offered,
\* buffered or processed.
THEOREM WaitCountsEveryTask == Spec => []WaitIsExact
<1>1. Init => QueueTypeOK /\ WaitIsExact
  <2> SUFFICES ASSUME Init PROVE WaitIsExact
    BY InitQueueType
  <2>1. Offering = {} /\ Busy = {}
    BY DEF Init, QueueInit, Offering, Busy
  <2>2. inFlight = 0 /\ Len(channel) = 0
    BY DEF Init, QueueInit
  <2> QED BY <2>1, <2>2, FS_EmptySet DEF WaitIsExact
<1>2. QueueTypeOK /\ WaitIsExact /\ [Next]_vars => (QueueTypeOK /\ WaitIsExact)'
  BY QueueSteps, QueueTypeStep, WaitStep
<1> QED BY <1>1, <1>2, PTL DEF Spec
----------------------------------------------------------------------------
(* The invariant.                                                           *)

NewRow == [st |-> "queued", ext |-> FALSE]

\* The part of the type invariant the proof needs.
Types ==
  /\ QueueTypeOK
  /\ out \in [Out -> [st: States, ext: BOOLEAN]]
  /\ echoed \in [Out -> States]
  /\ step \in [Workers -> Steps]
  /\ wire \subseteq reported /\ reported \subseteq Events
  /\ hpc \in [Handlers -> {"idle", "ingest", "status", "recheck", "arm", "ack", "reject"}]
  /\ hev \in [Handlers -> Events \cup {NoEvent}]
  /\ accepted \in [Out -> {0, 1}]

\* A message is offered, buffered or processed in one place only.
OnePlace ==
  /\ \A p, q \in Producers : offering[p] = offering[q] /\ offering[p] # NoTask => p = q
  /\ \A i, j \in 1..Len(channel) : channel[i] = channel[j] => i = j
  /\ \A v, w \in Workers : running[v] = running[w] /\ running[v] # NoTask => v = w
  /\ \A p \in Producers, i \in 1..Len(channel) : offering[p] # channel[i]
  /\ \A p \in Producers, w \in Workers : offering[p] # NoTask => offering[p] # running[w]
  /\ \A i \in 1..Len(channel), w \in Workers : channel[i] # running[w]

\* A message on its way to a worker was never handed over, and one a worker
\* has still shows as queued.
OnTheWay ==
  /\ \A p \in Producers : offering[p] # NoTask =>
       out[offering[p]] = NewRow /\ accepted[offering[p]] = 0
  /\ \A i \in 1..Len(channel) : out[channel[i]] = NewRow /\ accepted[channel[i]] = 0
  /\ \A w \in Workers : step[w] = "idle" <=> running[w] = NoTask
  /\ \A w \in Workers : running[w] # NoTask =>
       /\ out[running[w]] = NewRow
       /\ step[w] = "send" => accepted[running[w]] = 0
       /\ step[w] \in {"accepted", "stamp"} => accepted[running[w]] = 1

\* What the rows of a message say of the provider; one row at most has its id.
Rows == \A m \in Out :
  /\ out[m].st = "none" => accepted[m] = 0
  /\ ~out[m].ext => out[m].st \in {"none", "queued", "failed"}
  /\ out[m].ext => /\ accepted[m] = 1 /\ echoed[m] = "none"
                   /\ out[m].st \in {"sent", "delivered", "read", "failed"}
  /\ echoed[m] # "none" => accepted[m] = 1 /\ echoed[m] # "queued"

\* A webhook request carries an event of the provider, and an echo is of a
\* message the provider took.
Requests ==
  /\ \A m \in Out : Echo(m) \in reported => accepted[m] = 1
  /\ \A h \in Handlers : hpc[h] # "idle" => hev[h] \in reported
  /\ \A h \in Handlers : hpc[h] = "ingest" => hev[h].kind # "status"
  /\ \A h \in Handlers : hpc[h] = "status" => hev[h].kind = "status"

IInv == Types /\ OnePlace /\ OnTheWay /\ Rows /\ Requests

rest == <<out, echoed, step, wire, reported, hpc, hev, accepted>>

\* What the members of Events look like.
LEMMA EventKinds ==
  ASSUME NEW ev \in Events
  PROVE  /\ ev.kind \in {"in", "echo", "status"}
         /\ ev.kind = "echo" => ev.id \in Out /\ ev = Echo(ev.id)
         /\ ev.kind = "status" => ev.id \in Out /\ ev.st \in Reports
BY DEF Events, Inbound, Echo, Status, Reports

----------------------------------------------------------------------------
(* One lemma per group of actions.                                          *)

\* Storing a reply and offering its task.
LEMMA SendStep ==
  ASSUME IInv, NEW p \in Producers, NEW m \in Out, Send(p, m) \/ AutoReply(p, m)
  PROVE  IInv'
<1>1. /\ out[m].st = "none" /\ out' = [out EXCEPT ![m].st = "queued"]
      /\ Publish(p, m)
      /\ UNCHANGED <<echoed, step, wire, reported, hpc, hev, accepted>>
  BY DEF Send, AutoReply, requests, history
<1>2. Types'
  <2>1. QueueTypeOK'
    BY <1>1, QueueTypeStep DEF IInv, Types, QueueNext
  <2>2. out' \in [Out -> [st: States, ext: BOOLEAN]]
    BY <1>1 DEF IInv, Types, States
  <2> QED BY <1>1, <2>1, <2>2 DEF IInv, Types
<1>3. accepted[m] = 0 /\ out'[m] = NewRow /\ m # NoTask
  BY <1>1, WorkQueueAssumption, MessagesAssumption DEF IInv, Types, Rows, NewRow
<1>4. /\ \A q \in Producers : offering[q] # m
      /\ \A i \in 1..Len(channel) : channel[i] # m
      /\ \A w \in Workers : running[w] # m
  BY <1>1, <1>3 DEF IInv, OnTheWay, NewRow
<1>5. OnePlace'
  BY <1>1, <1>3, <1>4 DEF IInv, Types, QueueTypeOK, OnePlace, Publish
<1>6. OnTheWay'
  <2>1. \A x \in Out : x # m => out'[x] = out[x]
    BY <1>1 DEF IInv, Types
  <2> QED BY <1>1, <1>3, <1>4, <2>1, MessagesAssumption
       DEF IInv, Types, QueueTypeOK, OnTheWay, Publish
<1>7. Rows'
  BY <1>1, <1>3 DEF IInv, Types, Rows, NewRow
<1>8. Requests'
  BY <1>1 DEF IInv, Requests
<1> QED BY <1>2, <1>5, <1>6, <1>7, <1>8 DEF IInv

\* The queue moves a task, or loses it.
LEMMA QueueOnlyStep ==
  ASSUME IInv, UNCHANGED rest,
         \/ \E p \in Producers : Enqueue(p) \/ Refused(p)
         \/ \E w \in Workers : WorkerExits(w)
         \/ Cancel \/ CloseQueue \/ UNCHANGED queue
  PROVE  IInv'
<1>1. Types'
  BY QueueTypeStep DEF IInv, Types, QueueNext, rest
<1>2. Rows' /\ Requests'
  BY DEF IInv, Rows, Requests, rest
<1>3. ASSUME NEW p \in Producers, Enqueue(p)
      PROVE  OnePlace' /\ OnTheWay'
  <2>1. /\ \A i \in 1..Len(channel') : IF i <= Len(channel) THEN channel'[i] = channel[i]
                                       ELSE i = Len(channel) + 1 /\ channel'[i] = offering[p]
        /\ offering[p] # NoTask
    BY <1>3 DEF Enqueue, IInv, Types, QueueTypeOK
  <2>2. OnePlace'
    <3>1. /\ \A q \in Producers : offering'[q] = IF q = p THEN NoTask ELSE offering[q]
          /\ running' = running
      BY <1>3 DEF Enqueue, IInv, Types, QueueTypeOK
    <3>2. \A i \in 1..Len(channel) : channel[i] # NoTask
      BY WorkQueueAssumption DEF IInv, Types, QueueTypeOK
    <3>3. \A q, r \in Producers : offering'[q] = offering'[r] /\ offering'[q] # NoTask => q = r
      BY <3>1 DEF IInv, OnePlace
    <3>4. Len(channel) \in Nat /\ Len(channel') \in Nat
      BY <1>3 DEF Enqueue, IInv, Types, QueueTypeOK
    <3>5. \A i, j \in 1..Len(channel') : channel'[i] = channel'[j] => i = j
      BY <2>1, <3>4 DEF IInv, OnePlace
    <3>6. \A q \in Producers, i \in 1..Len(channel') : offering'[q] # channel'[i]
      BY <2>1, <3>1, <3>2, <3>4 DEF IInv, OnePlace
    <3>7. /\ \A q \in Producers, w \in Workers : offering'[q] # NoTask => offering'[q] # running'[w]
          /\ \A i \in 1..Len(channel'), w \in Workers : channel'[i] # running'[w]
      BY <2>1, <3>1, <3>4 DEF IInv, OnePlace
    <3> QED BY <3>1, <3>3, <3>5, <3>6, <3>7 DEF OnePlace, IInv
  <2>3. OnTheWay'
    <3>1. /\ \A q \in Producers : offering'[q] = IF q = p THEN NoTask ELSE offering[q]
          /\ running' = running /\ Len(channel) \in Nat /\ Len(channel') \in Nat
      BY <1>3 DEF Enqueue, IInv, Types, QueueTypeOK
    <3> QED BY <2>1, <3>1 DEF IInv, OnTheWay, rest
  <2> QED BY <2>2, <2>3
<1>4. ASSUME NEW p \in Producers, Refused(p)
      PROVE  OnePlace' /\ OnTheWay'
  <2>1. /\ \A q \in Producers : offering'[q] = IF q = p THEN NoTask ELSE offering[q]
        /\ running' = running /\ channel' = channel
    BY <1>4 DEF Refused, IInv, Types, QueueTypeOK
  <2>2. \A i \in 1..Len(channel) : channel[i] # NoTask
    BY WorkQueueAssumption DEF IInv, Types, QueueTypeOK
  <2>3. OnePlace'
    BY <2>1, <2>2 DEF IInv, OnePlace
  <2>4. OnTheWay'
    BY <2>1 DEF IInv, OnTheWay, rest
  <2> QED BY <2>3, <2>4
<1>5. ASSUME \/ \E w \in Workers : WorkerExits(w)
             \/ Cancel \/ CloseQueue \/ UNCHANGED queue
      PROVE  OnePlace' /\ OnTheWay'
  <2>1. UNCHANGED <<offering, channel, running>>
    BY <1>5 DEF WorkerExits, Cancel, CloseQueue, queue
  <2> QED BY <2>1 DEF IInv, OnePlace, OnTheWay, rest
<1> QED BY <1>1, <1>2, <1>3, <1>4, <1>5 DEF IInv

\* A worker takes the oldest task.
LEMMA TakeStep ==
  ASSUME IInv, NEW w \in Workers, Take(w)
  PROVE  IInv'
<1>1. /\ TakeTask(w) /\ step' = [step EXCEPT ![w] = "send"]
      /\ UNCHANGED <<out, echoed, wire, reported, hpc, hev, accepted>>
  BY DEF Take, tables, requests, history
<1>2. Types'
  BY <1>1, QueueTypeStep DEF IInv, Types, QueueNext, Steps
<1>3. Rows' /\ Requests'
  BY <1>1 DEF IInv, Rows, Requests
<1>4. /\ running[w] = NoTask /\ running' = [running EXCEPT ![w] = channel[1]]
      /\ 1 \in 1..Len(channel) /\ channel[1] # NoTask /\ offering' = offering
      /\ \A i \in 1..Len(channel') : i + 1 \in 1..Len(channel) /\ channel'[i] = channel[i + 1]
  BY <1>1, WorkQueueAssumption DEF TakeTask, IInv, Types, QueueTypeOK
<1>5. OnePlace'
  <2>1. /\ \A v \in Workers : running'[v] = IF v = w THEN channel[1] ELSE running[v]
        /\ Len(channel) \in Nat /\ Len(channel') \in Nat
    BY <1>2, <1>4 DEF IInv, Types, QueueTypeOK
  <2>2. \A i, j \in 1..Len(channel') : channel'[i] = channel'[j] => i = j
    <3> SUFFICES ASSUME NEW i \in 1..Len(channel'), NEW j \in 1..Len(channel'),
                        channel'[i] = channel'[j]
                 PROVE  i = j
      OBVIOUS
    <3>1. i + 1 = j + 1
      BY <1>4 DEF IInv, OnePlace
    <3> QED BY <3>1, <2>1
  <2>3. \A i \in 1..Len(channel') : channel'[i] # channel[1]
    BY <1>4, <2>1 DEF IInv, OnePlace
  <2>4. /\ \A u, v \in Workers : running'[u] = running'[v] /\ running'[u] # NoTask => u = v
        /\ \A p \in Producers, v \in Workers : offering[p] # NoTask => offering[p] # running'[v]
    BY <1>4, <2>1 DEF IInv, OnePlace
  <2>5. /\ \A p \in Producers, i \in 1..Len(channel') : offering[p] # channel'[i]
        /\ \A i \in 1..Len(channel'), v \in Workers : channel'[i] # running'[v]
    BY <1>4, <2>1, <2>3 DEF IInv, OnePlace
  <2> QED BY <1>4, <2>2, <2>4, <2>5 DEF OnePlace, IInv
<1>6. OnTheWay'
  BY <1>1, <1>2, <1>4 DEF IInv, Types, QueueTypeOK, OnTheWay
<1> QED BY <1>2, <1>3, <1>5, <1>6 DEF IInv

\* The provider takes the message: its worker is the only one that has it.
LEMMA AcceptStep ==
  ASSUME IInv, NEW w \in Workers, ProviderAccepts(w)
  PROVE  IInv' /\ accepted[running[w]] = 0 /\ accepted' = [accepted EXCEPT ![running[w]] = 1]
<1> DEFINE m == running[w]
<1>1. /\ step[w] = "send" /\ step' = [step EXCEPT ![w] = "accepted"]
      /\ accepted' = [accepted EXCEPT ![m] = @ + 1]
      /\ wire' \subseteq wire \cup {Echo(m)} /\ reported' \subseteq reported \cup {Echo(m)}
      /\ reported \subseteq reported' /\ wire' \subseteq reported'
      /\ UNCHANGED <<queue, out, echoed, hpc, hev>>
  BY DEF ProviderAccepts, tables, IInv, Types
<1>2. m \in Out /\ m # NoTask /\ out[m] = NewRow /\ accepted[m] = 0
  BY <1>1, MessagesAssumption, WorkQueueAssumption DEF IInv, Types, QueueTypeOK, OnTheWay, Steps
<1>3. accepted' = [accepted EXCEPT ![m] = 1]
  BY <1>1, <1>2 DEF IInv, Types
<1>4. UNCHANGED <<channel, offering, running>>
  BY <1>1 DEF queue
<1>5. Types'
  <2>1. QueueTypeOK'
    BY <1>1, QueueTypeStep DEF IInv, Types, QueueNext
  <2>2. Echo(m) \in Events
    BY <1>2 DEF Events
  <2>3. step' \in [Workers -> Steps] /\ accepted' \in [Out -> {0, 1}]
    BY <1>1, <1>3 DEF IInv, Types, Steps
  <2> QED BY <1>1, <2>1, <2>2, <2>3 DEF IInv, Types
<1>6. OnePlace'
  BY <1>4 DEF IInv, OnePlace
<1>7. /\ \A p \in Producers : offering[p] # NoTask => offering[p] # m
      /\ \A i \in 1..Len(channel) : channel[i] # m
      /\ \A v \in Workers : running[v] = m => v = w
  BY <1>2 DEF IInv, OnePlace
<1>8. OnTheWay'
  <2>1. \A x \in Out : x # m => accepted'[x] = accepted[x]
    BY <1>3 DEF IInv, Types
  <2>2. \A v \in Workers : IF v = w THEN step'[v] = "accepted" ELSE step'[v] = step[v]
    BY <1>1 DEF IInv, Types
  <2>3. accepted'[m] = 1
    BY <1>2, <1>3 DEF IInv, Types
  <2>4. /\ \A p \in Producers : offering[p] \in Out \cup {NoTask}
        /\ \A i \in 1..Len(channel) : channel[i] \in Out
        /\ \A v \in Workers : running[v] \in Out \cup {NoTask}
    BY MessagesAssumption DEF IInv, Types, QueueTypeOK
  <2>5. out' = out
    BY <1>1
  <2> QED BY <1>2, <1>4, <1>7, <2>1, <2>2, <2>3, <2>4, <2>5 DEF IInv, OnTheWay
<1>9. Rows'
  BY <1>1, <1>2, <1>3 DEF IInv, Types, Rows, NewRow
<1>10. Requests'
  <2>1. \A x \in Out : Echo(x) = Echo(m) => x = m
    BY DEF Echo
  <2>2. \A x \in Out : Echo(x) \in reported' => accepted'[x] = 1
    BY <1>1, <1>2, <1>3, <2>1 DEF IInv, Types, Requests
  <2> QED BY <1>1, <2>2 DEF IInv, Requests
<1> QED BY <1>2, <1>3, <1>5, <1>6, <1>8, <1>9, <1>10 DEF IInv

\* The answer of the provider, or an error.
LEMMA ReturnStep ==
  ASSUME IInv, NEW w \in Workers, SendReturns(w)
  PROVE  IInv'
<1>1. /\ \/ step[w] = "accepted" /\ step' = [step EXCEPT ![w] = "stamp"]
         \/ step[w] \in {"accepted", "send"} /\ step' = [step EXCEPT ![w] = "fail"]
      /\ UNCHANGED <<queue, out, echoed, wire, reported, hpc, hev, accepted>>
  BY DEF SendReturns, tables, requests, history
<1>2. UNCHANGED <<channel, offering, running>>
  BY <1>1 DEF queue
<1>3. Types'
  BY <1>1, QueueTypeStep DEF IInv, Types, QueueNext, Steps
<1>4. OnePlace' /\ Rows' /\ Requests'
  BY <1>1, <1>2 DEF IInv, OnePlace, Rows, Requests
<1>5. OnTheWay'
  BY <1>1, <1>2 DEF IInv, Types, OnTheWay
<1> QED BY <1>3, <1>4, <1>5 DEF IInv

\* What is true of the row a worker is about to stamp or to fail.
LEMMA OnlyHere ==
  ASSUME IInv, NEW w \in Workers, step[w] # "idle"
  PROVE  /\ running[w] \in Out /\ running[w] # NoTask /\ out[running[w]] = NewRow
         /\ \A p \in Producers : offering[p] # running[w]
         /\ \A i \in 1..Len(channel) : channel[i] # running[w]
         /\ \A v \in Workers : running[v] = running[w] => v = w
BY MessagesAssumption, WorkQueueAssumption DEF IInv, Types, QueueTypeOK, OnTheWay, OnePlace

\* A worker finishes: with a stamp, with a failure, or with neither.
LEMMA FinishStep ==
  ASSUME IInv, NEW w \in Workers, step[w] # "idle",
         out' \in [Out -> [st: States, ext: BOOLEAN]],
         \A x \in Out : x # running[w] => out'[x] = out[x],
         \/ out' = out
         \/ out'[running[w]].st = "failed" /\ ~out'[running[w]].ext
         \/ /\ out'[running[w]] = [st |-> "sent", ext |-> TRUE]
            /\ accepted[running[w]] = 1 /\ echoed[running[w]] = "none",
         Processed(w), step' = [step EXCEPT ![w] = "idle"],
         UNCHANGED <<echoed, wire, reported, hpc, hev, accepted>>
  PROVE  IInv'
<1> DEFINE m == running[w]
<1>1. /\ m \in Out /\ m # NoTask /\ out[m] = NewRow
      /\ \A p \in Producers : offering[p] # m
      /\ \A i \in 1..Len(channel) : channel[i] # m
      /\ \A v \in Workers : running[v] = m => v = w
  BY OnlyHere
<1>2. UNCHANGED <<channel, offering>> /\ running' = [running EXCEPT ![w] = NoTask]
  BY DEF Processed
<1>3. Types'
  <2>1. QueueTypeOK'
    BY QueueTypeStep DEF IInv, Types, QueueNext
  <2>2. step' \in [Workers -> Steps]
    BY DEF IInv, Types, Steps
  <2> QED BY <2>1, <2>2 DEF IInv, Types
<1>4. \A v \in Workers : IF v = w THEN running'[v] = NoTask /\ step'[v] = "idle"
                                 ELSE running'[v] = running[v] /\ step'[v] = step[v]
  BY <1>2 DEF IInv, Types, QueueTypeOK
<1>5. OnePlace'
  <2>1. \A i \in 1..Len(channel) : channel[i] # NoTask
    BY WorkQueueAssumption DEF IInv, Types, QueueTypeOK
  <2> QED BY <1>2, <1>4, <2>1 DEF IInv, OnePlace
<1>6. OnTheWay'
  <2>1. /\ \A p \in Producers : offering[p] \in Out \cup {NoTask}
        /\ \A i \in 1..Len(channel) : channel[i] \in Out
        /\ \A v \in Workers : running[v] \in Out \cup {NoTask}
    BY MessagesAssumption DEF IInv, Types, QueueTypeOK
  <2> QED BY <1>1, <1>2, <1>4, <2>1 DEF IInv, OnTheWay
<1>7. Rows'
  BY <1>1 DEF IInv, Types, Rows, NewRow
<1>8. Requests'
  BY DEF IInv, Requests
<1> QED BY <1>3, <1>5, <1>6, <1>7, <1>8 DEF IInv

\* StampOutboundSent: the row of the message, unless its echo has the id.
LEMMA StampStep ==
  ASSUME IInv, NEW w \in Workers, StampOutboundSent(w)
  PROVE  IInv'
<1> DEFINE m == running[w]
<1>1. /\ step[w] = "stamp" /\ Processed(w) /\ step' = [step EXCEPT ![w] = "idle"]
      /\ UNCHANGED <<echoed, wire, reported, hpc, hev, accepted>>
      /\ \/ out' = out
         \/ echoed[m] = "none" /\ out' = [out EXCEPT ![m] = [st |-> "sent", ext |-> TRUE]]
  BY DEF StampOutboundSent, requests, history
<1>2. m \in Out /\ accepted[m] = 1
  BY <1>1, OnlyHere DEF IInv, OnTheWay
<1>3. /\ out' \in [Out -> [st: States, ext: BOOLEAN]]
      /\ \A x \in Out : x # m => out'[x] = out[x]
  <2>1. [st |-> "sent", ext |-> TRUE] \in [st: States, ext: BOOLEAN]
    BY DEF States
  <2>2. PICK row \in [st: States, ext: BOOLEAN] : out' = out \/ out' = [out EXCEPT ![m] = row]
    BY <1>1, <2>1
  <2> QED BY <1>2, <2>2 DEF IInv, Types
<1>4. \/ out' = out
      \/ out'[m] = [st |-> "sent", ext |-> TRUE] /\ accepted[m] = 1 /\ echoed[m] = "none"
  BY <1>1, <1>2 DEF IInv, Types
<1> QED BY <1>1, <1>3, <1>4, FinishStep

\* markFailed: only a message that still shows as queued.
LEMMA FailStep ==
  ASSUME IInv, NEW w \in Workers, MarkFailed(w)
  PROVE  IInv'
<1> DEFINE m == running[w]
<1>1. /\ step[w] = "fail" /\ Processed(w) /\ step' = [step EXCEPT ![w] = "idle"]
      /\ UNCHANGED <<echoed, wire, reported, hpc, hev, accepted>>
      /\ out' = out \/ out' = [out EXCEPT ![m].st = "failed"]
  BY DEF MarkFailed, requests, history
<1>2. m \in Out /\ ~out[m].ext
  BY <1>1, OnlyHere DEF NewRow
<1>3. /\ out' \in [Out -> [st: States, ext: BOOLEAN]]
      /\ \A x \in Out : x # m => out'[x] = out[x]
      /\ out' = out \/ (out'[m].st = "failed" /\ ~out'[m].ext)
  BY <1>1, <1>2 DEF IInv, Types, States
<1> QED BY <1>1, <1>3, FinishStep

\* The provider has something to report; a request takes it.
LEMMA ReportStep ==
  ASSUME IInv,
         \/ \E i \in In : CustomerWrites(i)
         \/ \E m \in Out, st \in Reports : ProviderReports(m, st)
         \/ \E ev \in Events : Redeliver(ev)
  PROVE  IInv' /\ UNCHANGED <<out, echoed, accepted>>
<1>1. /\ UNCHANGED <<queue, out, echoed, step, hpc, hev, accepted>>
      /\ reported \subseteq reported' /\ wire' \subseteq reported' /\ reported' \subseteq Events
      /\ \A m \in Out : Echo(m) \in reported' => Echo(m) \in reported
  <2>1. UNCHANGED <<queue, out, echoed, step, hpc, hev, accepted>>
    BY DEF CustomerWrites, ProviderReports, Redeliver, tables, history
  <2>2. \E ev \in Events : /\ wire' = wire \cup {ev}
                           /\ reported' = reported \cup {ev}
                           /\ ev.kind # "echo" \/ ev \in reported
    <3>1. ASSUME NEW i \in In, CustomerWrites(i) PROVE <2>2
      BY <3>1 DEF CustomerWrites, Events, Inbound
    <3>2. ASSUME NEW m \in Out, NEW st \in Reports, ProviderReports(m, st) PROVE <2>2
      BY <3>2 DEF ProviderReports, Events, Status
    <3>3. ASSUME NEW ev \in Events, Redeliver(ev) PROVE <2>2
      BY <3>3 DEF Redeliver
    <3> QED BY <3>1, <3>2, <3>3
  <2>3. \A m \in Out : Echo(m).kind = "echo"
    BY DEF Echo
  <2> QED BY <2>1, <2>2, <2>3 DEF IInv, Types
<1>2. UNCHANGED <<channel, offering, running>>
  BY <1>1 DEF queue
<1>3. Types'
  BY <1>1, QueueTypeStep DEF IInv, Types, QueueNext
<1>4. OnePlace' /\ OnTheWay' /\ Rows'
  BY <1>1, <1>2 DEF IInv, OnePlace, OnTheWay, Rows
<1>5. Requests'
  BY <1>1 DEF IInv, Requests
<1> QED BY <1>1, <1>3, <1>4, <1>5 DEF IInv

LEMMA ReceiveStep ==
  ASSUME IInv, NEW h \in Handlers, NEW ev \in Events, Receive(h, ev)
  PROVE  IInv' /\ UNCHANGED <<out, echoed, accepted>>
<1>1. /\ UNCHANGED <<queue, out, echoed, step, wire, reported, accepted>>
      /\ ev \in reported /\ hev' = [hev EXCEPT ![h] = ev]
      /\ \E to \in {"status", "ingest", "ack"} :
           /\ hpc' = [hpc EXCEPT ![h] = to]
           /\ to = "status" => ev.kind = "status"
           /\ to = "ingest" => ev.kind # "status"
  <2>1. /\ UNCHANGED <<queue, out, echoed, step, wire, reported, accepted>>
        /\ ev \in reported /\ hev' = [hev EXCEPT ![h] = ev]
    BY DEF Receive, tables, IInv, Types
  <2>2. \/ hpc' = [hpc EXCEPT ![h] = IF ev.kind = "status" THEN "status" ELSE "ingest"]
        \/ hpc' = [hpc EXCEPT ![h] = "ack"]
    BY DEF Receive
  <2> QED BY <2>1, <2>2
<1>2. UNCHANGED <<channel, offering, running>>
  BY <1>1 DEF queue
<1>3. Types'
  BY <1>1, QueueTypeStep DEF IInv, Types, QueueNext
<1>4. OnePlace' /\ OnTheWay' /\ Rows'
  BY <1>1, <1>2 DEF IInv, OnePlace, OnTheWay, Rows
<1>5. Requests'
  BY <1>1 DEF IInv, Types, Requests
<1> QED BY <1>1, <1>3, <1>4, <1>5 DEF IInv

\* A request moves on without touching a message of ours.
LEMMA RequestStep ==
  ASSUME IInv, NEW h \in Handlers, hpc[h] # "idle",
         \/ \E to \in {"recheck", "arm", "ack", "reject"} : Goto(h, to) /\ hev' = hev
         \/ Goto(h, "idle") /\ hev' = [hev EXCEPT ![h] = NoEvent],
         wire' \subseteq wire,
         UNCHANGED <<queue, out, echoed, step, reported, accepted>>
  PROVE  IInv' /\ UNCHANGED <<out, echoed, accepted>>
<1>1. UNCHANGED <<channel, offering, running>>
  BY DEF queue
<1>2. Types'
  BY QueueTypeStep DEF IInv, Types, QueueNext, Goto
<1>3. OnePlace' /\ OnTheWay' /\ Rows'
  BY <1>1 DEF IInv, OnePlace, OnTheWay, Rows
<1>4. Requests'
  BY DEF IInv, Types, Requests, Goto
<1> QED BY <1>2, <1>3, <1>4 DEF IInv

\* An echo is stored: only of a message the provider took and no row has.
LEMMA EchoStep ==
  ASSUME IInv, NEW h \in Handlers, NEW m \in Out,
         hpc[h] = "ingest", hev[h] = Echo(m), ~HasRow(hev[h]),
         echoed' = [echoed EXCEPT ![m] = "sent"], Goto(h, "ack"),
         UNCHANGED <<queue, out, step, wire, reported, hev, accepted>>
  PROVE  IInv' /\ accepted[m] = 1 /\ echoed[m] = "none" /\ out[m].st \in {"queued", "failed"}
<1>1. accepted[m] = 1 /\ echoed[m] = "none" /\ ~out[m].ext
  BY DEF IInv, Requests, HasRow, Echo
<1>2. out[m].st \in {"queued", "failed"}
  BY <1>1 DEF IInv, Rows
<1>3. UNCHANGED <<channel, offering, running>>
  BY DEF queue
<1>4. Types'
  BY QueueTypeStep DEF IInv, Types, QueueNext, Goto, States
<1>5. OnePlace' /\ OnTheWay'
  BY <1>3 DEF IInv, OnePlace, OnTheWay
<1>6. Rows'
  BY <1>1 DEF IInv, Types, Rows
<1>7. Requests'
  BY DEF IInv, Types, Requests, Goto
<1> QED BY <1>1, <1>2, <1>4, <1>5, <1>6, <1>7 DEF IInv

LEMMA LaterUp ==
  ASSUME NEW old \in States \ {"none", "queued"}, NEW new \in Reports
  PROVE  /\ Later(old, new) \in {"sent", "delivered", "read", "failed"}
         /\ Later(old, new) # old => Later(old, new) \in Delivery!Above[old]
BY DEF Later, Rank, States, Reports, Delivery!Above

\* A status moves one row of one message, and only up.
LEMMA StatusStep ==
  ASSUME IInv, NEW h \in Handlers, ApplyStatus(h)
  PROVE  /\ IInv'
         /\ accepted' = accepted
         /\ \/ UNCHANGED <<out, echoed>>
            \/ \E m \in Out, st \in {"sent", "delivered", "read", "failed"} :
                 \/ /\ accepted[m] = 1 /\ echoed[m] = "none" /\ echoed' = echoed
                    /\ out' = [out EXCEPT ![m].st = st] /\ st \in Delivery!Above[out[m].st]
                 \/ /\ echoed[m] # "none" /\ out' = out
                    /\ echoed' = [echoed EXCEPT ![m] = st] /\ st \in Delivery!Above[echoed[m]]
<1> DEFINE ev == hev[h]  m == ev.id
           st == Later(out[m].st, ev.st)  est == Later(echoed[m], ev.st)
<1>1. /\ hpc[h] = "status" /\ (Goto(h, "ack") \/ Goto(h, "reject"))
      /\ UNCHANGED <<queue, step, wire, reported, hev, accepted>>
      /\ \/ UNCHANGED <<out, echoed>>
         \/ /\ out' = IF out[m].ext THEN [out EXCEPT ![m].st = st] ELSE out
            /\ echoed' = IF echoed[m] # "none" THEN [echoed EXCEPT ![m] = est] ELSE echoed
  BY DEF ApplyStatus, history
<1>2. m \in Out /\ ev.st \in Reports
  BY <1>1, EventKinds DEF IInv, Types, Requests
<1>3. CASE UNCHANGED <<out, echoed>>
  BY <1>1, <1>3, RequestStep
<1>4. ASSUME out[m].ext, out' = [out EXCEPT ![m].st = st], echoed' = echoed
      PROVE  IInv' /\ (out'[m].st = out[m].st \/
                        (accepted[m] = 1 /\ echoed[m] = "none" /\ st \in Delivery!Above[out[m].st]))
             /\ st \in {"sent", "delivered", "read", "failed"} /\ out'[m].st = st
  <2>1. /\ accepted[m] = 1 /\ echoed[m] = "none"
        /\ out[m].st \in States \ {"none", "queued"}
    BY <1>2, <1>4 DEF IInv, Rows, States
  <2>2. /\ st \in {"sent", "delivered", "read", "failed"}
        /\ st # out[m].st => st \in Delivery!Above[out[m].st]
    BY <1>2, <2>1, LaterUp
  <2>3. out' \in [Out -> [st: States, ext: BOOLEAN]] /\ out'[m].st = st /\ out'[m].ext = out[m].ext
    BY <1>2, <1>4, <2>2 DEF IInv, Types, States
  <2>4. \A x \in Out : x # m => out'[x] = out[x]
    BY <1>4 DEF IInv, Types
  <2>5. Types'
    BY <1>1, <1>4, <2>3, QueueTypeStep DEF IInv, Types, QueueNext, Goto
  <2>6. UNCHANGED <<channel, offering, running>>
    BY <1>1 DEF queue
  <2>7. OnePlace'
    BY <2>6 DEF IInv, OnePlace
  <2>8. OnTheWay'
    <3>1. out[m] # NewRow
      BY <2>1 DEF NewRow, States
    <3>2. /\ \A p \in Producers : offering[p] \in Out \cup {NoTask}
          /\ \A i \in 1..Len(channel) : channel[i] \in Out
          /\ \A v \in Workers : running[v] \in Out \cup {NoTask}
      BY MessagesAssumption DEF IInv, Types, QueueTypeOK
    <3> QED BY <1>1, <2>4, <2>6, <3>1, <3>2 DEF IInv, OnTheWay
  <2>9. Rows'
    BY <1>1, <1>2, <1>4, <2>1, <2>2, <2>3, <2>4 DEF IInv, Rows
  <2>10. Requests'
    BY <1>1 DEF IInv, Types, Requests, Goto
  <2> QED BY <2>1, <2>2, <2>3, <2>5, <2>7, <2>8, <2>9, <2>10 DEF IInv
<1>5. ASSUME echoed[m] # "none", out' = out, echoed' = [echoed EXCEPT ![m] = est]
      PROVE  IInv' /\ (est = echoed[m] \/ est \in Delivery!Above[echoed[m]])
             /\ est \in {"sent", "delivered", "read", "failed"}
  <2>1. accepted[m] = 1 /\ ~out[m].ext /\ echoed[m] \in States \ {"none", "queued"}
    BY <1>2, <1>5 DEF IInv, Types, Rows
  <2>2. /\ est \in {"sent", "delivered", "read", "failed"}
        /\ est # echoed[m] => est \in Delivery!Above[echoed[m]]
    BY <1>2, <2>1, LaterUp
  <2>3. Types'
    BY <1>1, <1>2, <1>5, <2>2, QueueTypeStep DEF IInv, Types, QueueNext, Goto, States
  <2>4. UNCHANGED <<channel, offering, running>>
    BY <1>1 DEF queue
  <2>5. OnePlace' /\ OnTheWay'
    BY <1>1, <1>5, <2>4 DEF IInv, OnePlace, OnTheWay
  <2>6. Rows'
    BY <1>1, <1>2, <1>5, <2>1, <2>2 DEF IInv, Types, Rows
  <2>7. Requests'
    BY <1>1 DEF IInv, Types, Requests, Goto
  <2> QED BY <2>2, <2>3, <2>5, <2>6, <2>7 DEF IInv
<1>6. out[m].ext => echoed[m] = "none"
  BY <1>2 DEF IInv, Rows
<1>7. CASE out[m].ext /\ out' = [out EXCEPT ![m].st = st] /\ echoed' = echoed
  <2>1. CASE out'[m].st = out[m].st
    <3>1. out' = out
      BY <1>2, <1>7, <2>1 DEF IInv, Types
    <3> QED BY <1>1, <1>4, <1>7, <3>1
  <2> QED BY <1>1, <1>2, <1>4, <1>7, <2>1
<1>8. CASE echoed[m] # "none" /\ out' = out /\ echoed' = [echoed EXCEPT ![m] = est]
  <2>1. CASE est = echoed[m]
    <3>1. echoed' = echoed
      BY <1>2, <1>8, <2>1 DEF IInv, Types
    <3> QED BY <1>1, <1>5, <1>8, <3>1
  <2> QED BY <1>1, <1>2, <1>5, <1>8, <2>1
<1> QED BY <1>1, <1>3, <1>6, <1>7, <1>8

\* The process ends: whatever was on its way is lost, rows stay.
LEMMA CrashStep ==
  ASSUME IInv, CrashRestart
  PROVE  IInv' /\ UNCHANGED <<out, echoed, accepted>>
<1>1. /\ QueueRestart /\ UNCHANGED <<out, echoed, wire, reported, accepted>>
      /\ step' = [w \in Workers |-> "idle"]
      /\ hpc' = [h \in Handlers |-> "idle"] /\ hev' = [h \in Handlers |-> NoEvent]
  BY DEF CrashRestart, tables, history
<1>2. Types'
  BY <1>1, QueueTypeStep DEF IInv, Types, QueueNext, Steps
<1>3. OnePlace' /\ OnTheWay'
  <2>1. /\ \A p \in Producers : offering'[p] = NoTask
        /\ \A w \in Workers : running'[w] = NoTask
        /\ channel' = <<>>
    BY <1>1 DEF QueueRestart
  <2>2. 1..Len(channel') = {}
    BY <2>1
  <2> QED BY <1>1, <2>1, <2>2 DEF OnePlace, OnTheWay
<1>4. Rows' /\ Requests'
  BY <1>1 DEF IInv, Rows, Requests
<1> QED BY <1>1, <1>2, <1>3, <1>4 DEF IInv

----------------------------------------------------------------------------
(* Every step keeps the invariant and is a step of Outbox, or none.         *)

shown == [m \in Out |-> out[m].st]

\* A change of the state one message shows.
LEMMA ShownChanges ==
  ASSUME Types, NEW m \in Out, NEW st, out' = [out EXCEPT ![m].st = st]
  PROVE  shown' = [shown EXCEPT ![m] = st]
BY DEF Types, shown

LEMMA Simulation ==
  ASSUME IInv, [Next]_vars
  PROVE  IInv' /\ [Delivery!Next]_(Delivery!vars)
<1> USE DEF shown
<1>0. ASSUME UNCHANGED <<out, echoed, accepted>>
      PROVE  UNCHANGED Delivery!vars
  BY <1>0 DEF Delivery!vars
<1>1. ASSUME NEW p \in Producers, NEW m \in Out, Send(p, m) \/ AutoReply(p, m)
      PROVE  IInv' /\ Delivery!Compose(m)
  <2>1. /\ out[m].st = "none" /\ out' = [out EXCEPT ![m].st = "queued"]
        /\ UNCHANGED <<echoed, accepted>>
    BY <1>1 DEF Send, AutoReply, history
  <2>2. shown' = [shown EXCEPT ![m] = "queued"]
    BY <2>1, ShownChanges DEF IInv
  <2> QED BY <1>1, <2>1, <2>2, SendStep DEF Delivery!Compose
<1>2. ASSUME NEW w \in Workers, ProviderAccepts(w)
      PROVE  IInv' /\ \E m \in Out : Delivery!HandOver(m)
  <2>1. running[w] \in Out /\ out[running[w]] = NewRow /\ UNCHANGED <<out, echoed>>
    BY <1>2, OnlyHere DEF ProviderAccepts, tables
  <2> QED BY <1>2, <2>1, AcceptStep DEF Delivery!HandOver, NewRow
<1>3. ASSUME NEW w \in Workers, StampOutboundSent(w)
      PROVE  IInv' /\ (UNCHANGED Delivery!vars \/ \E m \in Out : Delivery!Learn(m, "sent"))
  <2> DEFINE m == running[w]
  <2>1. /\ UNCHANGED <<echoed, accepted>> /\ step[w] = "stamp"
        /\ \/ out' = out
           \/ echoed[m] = "none" /\ out' = [out EXCEPT ![m] = [st |-> "sent", ext |-> TRUE]]
    BY <1>3 DEF StampOutboundSent, history
  <2>2. m \in Out /\ out[m] = NewRow /\ accepted[m] = 1
    BY <2>1, OnlyHere DEF IInv, OnTheWay
  <2>3. ASSUME echoed[m] = "none", out' = [out EXCEPT ![m] = [st |-> "sent", ext |-> TRUE]]
        PROVE  Delivery!Learn(m, "sent")
    <3>1. shown' = [shown EXCEPT ![m] = "sent"]
      BY <2>2, <2>3 DEF IInv, Types
    <3> QED BY <2>1, <2>2, <2>3, <3>1 DEF Delivery!Learn, Delivery!Above, NewRow
  <2> QED BY <1>0, <1>3, <2>1, <2>2, <2>3, StampStep
<1>4. ASSUME NEW w \in Workers, MarkFailed(w)
      PROVE  IInv' /\ (UNCHANGED Delivery!vars \/ \E m \in Out : Delivery!Learn(m, "failed"))
  <2> DEFINE m == running[w]
  <2>1. /\ UNCHANGED <<echoed, accepted>> /\ step[w] = "fail"
        /\ out' = out \/ out' = [out EXCEPT ![m].st = "failed"]
    BY <1>4 DEF MarkFailed, history
  <2>2. m \in Out /\ out[m].st = "queued"
    BY <2>1, OnlyHere DEF NewRow
  <2>3. ASSUME out' = [out EXCEPT ![m].st = "failed"]
        PROVE  Delivery!Learn(m, "failed")
    <3>1. shown' = [shown EXCEPT ![m] = "failed"]
      BY <2>2, <2>3, ShownChanges DEF IInv
    <3> QED BY <2>1, <2>2, <3>1 DEF Delivery!Learn, Delivery!Above
  <2> QED BY <1>0, <1>4, <2>1, <2>2, <2>3, FailStep
<1>5. ASSUME NEW h \in Handlers, Ingest(h)
      PROVE  IInv' /\ (UNCHANGED Delivery!vars \/ \E m \in Out : Delivery!Mirror(m))
  <2>1. /\ hpc[h] = "ingest" /\ hev' = hev
        /\ UNCHANGED <<queue, out, step, wire, reported, accepted>>
        /\ \/ /\ echoed' = echoed
              /\ Goto(h, "arm") \/ Goto(h, "ack") \/ Goto(h, "recheck") \/ Goto(h, "reject")
           \/ /\ ~HasRow(hev[h]) /\ hev[h].kind = "echo" /\ Goto(h, "ack")
              /\ echoed' = [echoed EXCEPT ![hev[h].id] = "sent"]
    BY <1>5 DEF Ingest
  <2>2. CASE echoed' = echoed
    BY <1>0, <2>1, <2>2, RequestStep, SMTT(60) DEF Goto
  <2>3. CASE /\ ~HasRow(hev[h]) /\ hev[h].kind = "echo" /\ Goto(h, "ack")
             /\ echoed' = [echoed EXCEPT ![hev[h].id] = "sent"]
    <3>1. hev[h].id \in Out /\ hev[h] = Echo(hev[h].id)
      BY <2>1, <2>3, EventKinds DEF IInv, Types, Requests
    <3> QED BY <2>1, <2>3, <3>1, EchoStep DEF Delivery!Mirror
  <2> QED BY <2>1, <2>2, <2>3
<1>6. ASSUME NEW h \in Handlers, Recheck(h) \/ Arm(h) \/ Answer(h)
      PROVE  IInv' /\ UNCHANGED Delivery!vars
  <2>1. /\ hpc[h] # "idle" /\ wire' \subseteq wire
        /\ UNCHANGED <<queue, out, echoed, step, reported, accepted>>
        /\ \/ (Goto(h, "ack") \/ Goto(h, "arm") \/ Goto(h, "reject")) /\ hev' = hev
           \/ Goto(h, "idle") /\ hev' = [hev EXCEPT ![h] = NoEvent]
    BY <1>6 DEF Recheck, Arm, Answer, tables, history
  <2> QED BY <1>0, <2>1, RequestStep
<1>7. ASSUME NEW h \in Handlers, ApplyStatus(h)
      PROVE  IInv' /\ [Delivery!Next]_(Delivery!vars)
  <2>1. CASE UNCHANGED <<out, echoed>>
    BY <1>0, <1>7, <2>1, StatusStep
  <2>2. ASSUME NEW m \in Out, NEW st \in {"sent", "delivered", "read", "failed"},
               accepted[m] = 1, echoed[m] = "none", echoed' = echoed, accepted' = accepted,
               out' = [out EXCEPT ![m].st = st], st \in Delivery!Above[out[m].st]
        PROVE  Delivery!Learn(m, st)
    <3>1. shown' = [shown EXCEPT ![m] = st]
      BY <2>2, ShownChanges DEF IInv
    <3> QED BY <2>2, <3>1 DEF Delivery!Learn
  <2>3. ASSUME NEW m \in Out, NEW st \in {"sent", "delivered", "read", "failed"},
               echoed[m] # "none", out' = out, accepted' = accepted,
               echoed' = [echoed EXCEPT ![m] = st], st \in Delivery!Above[echoed[m]]
        PROVE  Delivery!LearnOfMirror(m, st)
    BY <2>3 DEF Delivery!LearnOfMirror
  <2> QED BY <1>7, <2>1, <2>2, <2>3, StatusStep DEF Delivery!Next
<1>8. ASSUME \/ \E p \in Producers : PublishReturns(p)
             \/ MarkChatRead \/ Generate \/ Shutdown \/ UNCHANGED vars
      PROVE  IInv' /\ UNCHANGED Delivery!vars
  <2>1. /\ UNCHANGED rest
        /\ \/ \E p \in Producers : Enqueue(p) \/ Refused(p)
           \/ \E w \in Workers : WorkerExits(w)
           \/ Cancel \/ CloseQueue \/ UNCHANGED queue
    BY <1>8 DEF PublishReturns, MarkChatRead, Generate, Shutdown, vars, tables, requests,
                history, rest
  <2> QED BY <1>0, <2>1, QueueOnlyStep DEF rest
<1>9. ASSUME NEW w \in Workers, Take(w) \/ SendReturns(w)
      PROVE  IInv' /\ UNCHANGED Delivery!vars
  <2>1. UNCHANGED <<out, echoed, accepted>>
    BY <1>9 DEF Take, SendReturns, tables, history
  <2> QED BY <1>0, <1>9, <2>1, TakeStep, ReturnStep
<1>10. ASSUME \/ \E i \in In : CustomerWrites(i)
              \/ \E m \in Out, st \in Reports : ProviderReports(m, st)
              \/ \E ev \in Events : Redeliver(ev) \/ \E h \in Handlers : Receive(h, ev)
              \/ CrashRestart
       PROVE  IInv' /\ UNCHANGED Delivery!vars
  BY <1>0, <1>10, ReportStep, ReceiveStep, CrashStep
<1>11. CASE \E w \in Workers : Take(w) \/ Deliver(w)
  BY <1>2, <1>3, <1>4, <1>9, <1>11 DEF Deliver, Delivery!Next
<1>12. CASE \E h \in Handlers : Process(h)
  BY <1>5, <1>6, <1>7, <1>12 DEF Process, Delivery!Next
<1>13. CASE \E p \in Producers, m \in Out : Send(p, m) \/ AutoReply(p, m)
  BY <1>1, <1>13 DEF Delivery!Next
<1> QED BY <1>8, <1>10, <1>11, <1>12, <1>13 DEF Next

----------------------------------------------------------------------------
(* The theorems.                                                            *)

LEMMA InitHolds ==
  ASSUME Init
  PROVE  IInv /\ Delivery!Init
<1>1. Types
  <2>1. QueueTypeOK
    BY InitQueueType
  <2> QED BY <2>1 DEF Init, Types, States, Steps, NoMessage
<1>2. OnePlace /\ OnTheWay
  <2>1. /\ \A p \in Producers : offering[p] = NoTask
        /\ \A w \in Workers : running[w] = NoTask /\ step[w] = "idle"
        /\ channel = <<>>
    BY DEF Init, QueueInit
  <2>2. 1..Len(channel) = {}
    BY <2>1
  <2> QED BY <2>1, <2>2 DEF OnePlace, OnTheWay
<1>3. Rows /\ Requests
  BY DEF Init, Rows, Requests, NoMessage
<1>4. Delivery!Init
  BY DEF Init, Delivery!Init, NoMessage
<1> QED BY <1>1, <1>2, <1>3, <1>4 DEF IInv

\* The inductive invariant holds of every behaviour.
THEOREM MessagesInvariance == Spec => []IInv
<1>1. Init => IInv
  BY InitHolds
<1>2. IInv /\ [Next]_vars => IInv'
  BY Simulation
<1> QED BY <1>1, <1>2, PTL DEF Spec

\* No message is handed to the provider twice.
THEOREM SentAtMostOnce == Spec => []SentOnce
<1>1. IInv => SentOnce
  BY DEF IInv, Types, SentOnce
<1> QED BY <1>1, MessagesInvariance, PTL

\* Messages implements Outbox: every behaviour of the queue, its workers, the
\* webhooks and the provider is one the outbox promises.
THEOREM DeliveryImplementsOutbox == Spec => ImplementsOutbox
<1>1. Init => Delivery!Init
  BY InitHolds
<1>2. IInv /\ [Next]_vars => [Delivery!Next]_(Delivery!vars)
  BY Simulation
<1> QED BY <1>1, <1>2, MessagesInvariance, PTL DEF Spec, ImplementsOutbox, Delivery!Spec

----------------------------------------------------------------------------
(* The badge.                                                               *)

\* What a person has seen was stored, and the badge counts the rest.
BadgeInv ==
  /\ inbox \in Seq(In) /\ read \subseteq Stored
  /\ UnreadIsHonest

badge == <<inbox, unread, read, overtaken>>

LEMMA StoredIsFinite ==
  ASSUME inbox \in Seq(In)
  PROVE  Stored \subseteq In /\ IsFiniteSet(Stored) /\ IsFiniteSet(Stored \ read)
<1>1. Stored \subseteq In
  BY DEF Stored, ToSet
<1> QED BY <1>1, MessagesAssumption, FS_Subset, FS_Difference

\* Storing a customer message adds one to what is stored.
LEMMA AppendStores ==
  ASSUME inbox \in Seq(In), NEW i \in In
  PROVE  /\ Append(inbox, i) \in Seq(In)
         /\ ToSet(Append(inbox, i)) = ToSet(inbox) \cup {i}
<1>1. /\ Append(inbox, i) \in Seq(In)
      /\ DOMAIN Append(inbox, i) = 1..(Len(inbox) + 1) /\ DOMAIN inbox = 1..Len(inbox)
      /\ Len(inbox) \in Nat
      /\ \A k \in 1..Len(inbox) : Append(inbox, i)[k] = inbox[k]
      /\ Append(inbox, i)[Len(inbox) + 1] = i
  OBVIOUS
<1>2. 1..(Len(inbox) + 1) = (1..Len(inbox)) \cup {Len(inbox) + 1}
  BY <1>1
<1> QED BY <1>1, <1>2 DEF ToSet

LEMMA KeepsBadge ==
  ASSUME BadgeInv, UNCHANGED badge
  PROVE  BadgeInv'
BY DEF BadgeInv, badge, UnreadIsHonest, Stored

\* A reply by a person and a look at the chat clear the badge.
LEMMA ReadStep ==
  ASSUME BadgeInv, unread' = 0, read' = Stored, inbox' = inbox
  PROVE  BadgeInv'
<1>1. Stored' = Stored
  BY DEF Stored
<1>2. Cardinality({}) = 0
  BY FS_EmptySet
<1> QED BY <1>1, <1>2 DEF BadgeInv, UnreadIsHonest

\* A message is counted in the step that stores it; a duplicate is not, and
\* the echo that clears the badge is the one that overtook its stamp.
LEMMA IngestBadge ==
  ASSUME IInv, BadgeInv, NEW h \in Handlers, Ingest(h)
  PROVE  BadgeInv'
<1>1. CASE UNCHANGED badge
  BY <1>1, KeepsBadge
<1>2. CASE overtaken' = TRUE /\ UNCHANGED <<inbox, read>>
  BY <1>2 DEF BadgeInv, UnreadIsHonest, Stored
<1>3. CASE /\ ~HasRow(hev[h]) /\ hev[h].kind = "in"
           /\ inbox' = Append(inbox, hev[h].id) /\ unread' = unread + 1
           /\ UNCHANGED <<read, overtaken>>
  <2> DEFINE i == hev[h].id
  <2>1. hev[h] \in Events
    BY DEF Ingest, IInv, Types, Requests
  <2>2. i \in In
    BY <1>3, <2>1 DEF Events, Inbound, Echo, Status
  <2>3. i \notin Stored
    BY <1>3 DEF HasRow
  <2>4. inbox' \in Seq(In) /\ Stored' = Stored \cup {i}
    BY <1>3, <2>2, AppendStores DEF BadgeInv, Stored
  <2>5. IsFiniteSet(Stored \ read)
    BY StoredIsFinite DEF BadgeInv
  <2>6. Stored' \ read' = (Stored \ read) \cup {i} /\ i \notin Stored \ read
    BY <1>3, <2>3, <2>4 DEF BadgeInv
  <2>7. Cardinality(Stored' \ read') = Cardinality(Stored \ read) + 1
    BY <2>5, <2>6, FS_AddElement
  <2> QED BY <1>3, <2>4, <2>7 DEF BadgeInv, UnreadIsHonest
<1> QED BY <1>1, <1>2, <1>3 DEF Ingest, badge

\* The badge counts the customer messages no person has seen, through
\* redeliveries, automatic replies, faults and crashes, until an echo is
\* stored before its message was stamped.
THEOREM BadgeIsHonest == Spec => []UnreadIsHonest
<1>1. Init => BadgeInv
  <2> SUFFICES ASSUME Init PROVE BadgeInv
    OBVIOUS
  <2>1. inbox = <<>> /\ read = {} /\ unread = 0
    BY DEF Init
  <2>2. inbox \in Seq(In) /\ Stored = {}
    BY <2>1 DEF Stored, ToSet
  <2>3. Cardinality({}) = 0
    BY FS_EmptySet
  <2> QED BY <2>1, <2>2, <2>3 DEF BadgeInv, UnreadIsHonest
<1>2. IInv /\ BadgeInv /\ [Next]_vars => BadgeInv'
  <2> SUFFICES ASSUME IInv, BadgeInv, [Next]_vars PROVE BadgeInv'
    OBVIOUS
  <2>1. ASSUME NEW p \in Producers, NEW m \in Out, Send(p, m) PROVE BadgeInv'
    BY <2>1, ReadStep DEF Send
  <2>2. CASE MarkChatRead
    BY <2>2, ReadStep DEF MarkChatRead
  <2>3. ASSUME NEW h \in Handlers, Process(h) PROVE BadgeInv'
    <3>1. CASE Ingest(h)
      BY <3>1, IngestBadge
    <3>2. CASE Recheck(h) \/ Arm(h) \/ ApplyStatus(h) \/ Answer(h)
      BY <3>2, KeepsBadge DEF Recheck, Arm, ApplyStatus, Answer, badge, tables, history
    <3> QED BY <2>3, <3>1, <3>2 DEF Process
  <2>4. ASSUME NEW w \in Workers, Take(w) \/ Deliver(w) PROVE BadgeInv'
    BY <2>4, KeepsBadge DEF Take, Deliver, ProviderAccepts, SendReturns, StampOutboundSent,
       MarkFailed, badge, tables, history
  <2>5. CASE \/ \E p \in Producers : PublishReturns(p) \/ \E m \in Out : AutoReply(p, m)
             \/ \E i \in In : CustomerWrites(i)
             \/ \E m \in Out, st \in Reports : ProviderReports(m, st)
             \/ \E ev \in Events : Redeliver(ev) \/ \E h \in Handlers : Receive(h, ev)
             \/ Generate \/ Shutdown \/ CrashRestart
    BY <2>5, KeepsBadge DEF PublishReturns, AutoReply, CustomerWrites, ProviderReports, Redeliver,
       Receive, Generate, Shutdown, CrashRestart, badge, tables, history
  <2>6. CASE UNCHANGED vars
    BY <2>6, KeepsBadge DEF vars, badge, tables, history
  <2> QED BY <2>1, <2>2, <2>3, <2>4, <2>5, <2>6 DEF Next
<1>3. BadgeInv => UnreadIsHonest
  BY DEF BadgeInv
<1> QED BY <1>1, <1>2, <1>3, MessagesInvariance, PTL DEF Spec
=============================================================================

------------------------------ MODULE Messages ------------------------------
(***************************************************************************)
(* One chat of a webhook channel: replies are stored and handed to the     *)
(* work queue, a worker delivers them and stamps the provider's id, while  *)
(* the provider delivers customer messages, echoes of our own sends and    *)
(* delivery statuses by webhook, in any order, again until it sees a 2xx.  *)
(* The process crashes and restarts; tables and the provider survive.      *)
(*                                                                         *)
(* Every store call is one atomic step.  What automation does with a chat  *)
(* it was handed is module Automation's; here it may write a draft and     *)
(* send a reply.                                                           *)
(***************************************************************************)
EXTENDS WorkQueue, SequencesExt

CONSTANTS
  Out,        \* messages sent from xchats; the provider's id of a send is its message
  In,         \* customer messages, by the provider's id
  Handlers,   \* webhook requests in progress at once
  Features,   \* what the channel reports
  Faults,     \* faults of the instance
  MaxEvents   \* bound on operator actions, reports, faults and crashes together

AllFeatures == {"echo", "delivered", "read", "failed"}
AllFaults   == {"send", "ack", "db", "retry", "crash", "lookup"}

ASSUME MessagesAssumption ==
  /\ IsFiniteSet(In) /\ Tasks = Out
  /\ Features \subseteq AllFeatures /\ Faults \subseteq AllFaults /\ MaxEvents \in Nat

Inbound(i)    == [kind |-> "in", id |-> i, st |-> "delivered"]
Echo(m)       == [kind |-> "echo", id |-> m, st |-> "sent"]
Status(m, st) == [kind |-> "status", id |-> m, st |-> st]
Reports == {"delivered", "read", "failed"}
Events == {Inbound(i) : i \in In} \cup {Echo(m) : m \in Out}
            \cup {Status(m, st) : m \in Out, st \in Reports}
NoEvent == [kind |-> "none", id |-> NoTask, st |-> "none"]

VARIABLES
  out,       \* rows of xchats' own messages: [st, ext]
  echoed,    \* state of the row an echo inserted for a provider id, or "none"
  inbox,     \* customer messages stored, oldest first
  unread,    \* unread_count of the chat
  armed,     \* messages stored when automation was last handed the chat
  drafted,   \* messages some draft was triggered by
  step,      \* each worker inside Deliver
  wire,      \* events the provider has still to see acknowledged
  reported,  \* events the provider has ever had
  hpc, hev,  \* each webhook request, and its event
  events,    \* operator actions, reports, faults and crashes so far
  (* History, read by no action. *)
  accepted,  \* times the provider accepted each message
  read,      \* customer messages stored when a person last saw the chat
  overtaken, \* some echo was stored before its message was stamped
  unarmed    \* messages acknowledged although a lookup, of account or draft, failed

tables   == <<out, echoed, inbox, unread, armed, drafted>>
requests == <<wire, reported, hpc, hev>>
history  == <<accepted, read, overtaken, unarmed>>
vars     == <<queue, tables, step, requests, events, history>>

NoMessage == [st |-> "none", ext |-> FALSE]

Init ==
  /\ QueueInit
  /\ out = [m \in Out |-> NoMessage] /\ echoed = [m \in Out |-> "none"]
  /\ inbox = <<>> /\ unread = 0 /\ armed = {} /\ drafted = {}
  /\ step = [w \in Workers |-> "idle"]
  /\ wire = {} /\ reported = {}
  /\ hpc = [h \in Handlers |-> "idle"] /\ hev = [h \in Handlers |-> NoEvent]
  /\ events = 0
  /\ accepted = [m \in Out |-> 0] /\ read = {} /\ overtaken = FALSE /\ unarmed = {}

Event    == events < MaxEvents /\ events' = events + 1
Fault(f) == f \in Faults /\ Event
Stored   == ToSet(inbox)

----------------------------------------------------------------------------
(* Sending.                                                                 *)

\* sendParts: InsertOutbound zeroes the badge and the task is published.
\* (Nothing sees the row between the two, and a crash there loses what a
\* crash during Publish loses.)
Send(p, m) ==
  /\ Event /\ out[m].st = "none" /\ ~cancelled
  /\ out' = [out EXCEPT ![m].st = "queued"]
  /\ unread' = 0 /\ read' = Stored
  /\ Publish(p, m)
  /\ UNCHANGED <<echoed, inbox, armed, drafted, step, requests, accepted, overtaken, unarmed>>

\* (Mutant: an automatic reply counts as reading.)
AutoReplyReads(p, m) ==
  /\ Event /\ out[m].st = "none" /\ drafted # {}
  /\ out' = [out EXCEPT ![m].st = "queued"]
  /\ unread' = 0
  /\ Publish(p, m)
  /\ UNCHANGED <<echoed, inbox, armed, drafted, step, requests, history>>

\* dispatchSend: InsertAutomationOutbound leaves the badge alone.
AutoReply(p, m) ==
  /\ Event /\ out[m].st = "none" /\ drafted # {}
  /\ out' = [out EXCEPT ![m].st = "queued"]
  /\ Publish(p, m)
  /\ UNCHANGED <<echoed, inbox, unread, armed, drafted, step, requests, history>>

\* publishOrLog: into the channel, or logged and dropped; the row stays queued.
PublishReturns(p) ==
  /\ Enqueue(p) \/ Refused(p)
  /\ UNCHANGED <<tables, step, requests, events, history>>

Take(w) ==
  /\ TakeTask(w)
  /\ step' = [step EXCEPT ![w] = "send"]
  /\ UNCHANGED <<tables, requests, events, history>>

\* The provider takes the message; on a channel with echoes it reports it back.
ProviderAccepts(w) ==
  LET m == running[w] IN
  /\ step[w] = "send"
  /\ accepted' = [accepted EXCEPT ![m] = @ + 1]
  /\ step' = [step EXCEPT ![w] = "accepted"]
  /\ LET echo == IF "echo" \in Features THEN {Echo(m)} ELSE {}
     IN wire' = wire \cup echo /\ reported' = reported \cup echo
  /\ UNCHANGED <<queue, tables, hpc, hev, events, read, overtaken, unarmed>>

\* sender.Send returns: the id, or an error, before or after acceptance.
SendReturns(w) ==
  /\ \/ /\ step[w] = "accepted"
        /\ step' = [step EXCEPT ![w] = "stamp"] /\ UNCHANGED events
     \/ /\ step[w] = "accepted" /\ Fault("ack")
        /\ step' = [step EXCEPT ![w] = "fail"]
     \/ /\ step[w] = "send"
        /\ Fault("send") \/ (cancelled /\ UNCHANGED events)
        /\ step' = [step EXCEPT ![w] = "fail"]
  /\ UNCHANGED <<queue, tables, requests, history>>

\* (Mutant: the message was never stamped and is sent once more.)
StampOrResend(w) ==
  LET m == running[w] IN
  /\ step[w] = "stamp"
  /\ IF echoed[m] = "none"
     THEN /\ out' = [out EXCEPT ![m] = [st |-> "sent", ext |-> TRUE]]
          /\ Processed(w) /\ step' = [step EXCEPT ![w] = "idle"]
     ELSE /\ step' = [step EXCEPT ![w] = "send"] /\ UNCHANGED <<queue, out>>
  /\ UNCHANGED <<echoed, inbox, unread, armed, drafted, requests, events, history>>

\* StampOutboundSent.  A row that already has this provider id breaks the
\* unique index: the message stays as it was.
StampOutboundSent(w) ==
  LET m == running[w] IN
  /\ step[w] = "stamp"
  /\ \/ /\ echoed[m] = "none"
        /\ out' = [out EXCEPT ![m] = [st |-> "sent", ext |-> TRUE]]
        /\ UNCHANGED events
     \/ echoed[m] # "none" /\ UNCHANGED <<out, events>>
     \/ (Fault("db") \/ (cancelled /\ UNCHANGED events)) /\ UNCHANGED out
  /\ Processed(w) /\ step' = [step EXCEPT ![w] = "idle"]
  /\ UNCHANGED <<echoed, inbox, unread, armed, drafted, requests, history>>

\* markFailed, whose error is ignored.
MarkFailed(w) ==
  /\ step[w] = "fail"
  /\ \/ out' = [out EXCEPT ![running[w]].st = "failed"] /\ UNCHANGED events
     \/ (Fault("db") \/ (cancelled /\ UNCHANGED events)) /\ UNCHANGED out
  /\ Processed(w) /\ step' = [step EXCEPT ![w] = "idle"]
  /\ UNCHANGED <<echoed, inbox, unread, armed, drafted, requests, history>>

----------------------------------------------------------------------------
(* The provider.                                                            *)

CustomerWrites(i) ==
  /\ Inbound(i) \notin reported
  /\ wire' = wire \cup {Inbound(i)} /\ reported' = reported \cup {Inbound(i)}
  /\ UNCHANGED <<queue, tables, step, hpc, hev, events, history>>

\* Delivery statuses of an accepted message, in no particular order.
ProviderReports(m, st) ==
  /\ st \in Features /\ accepted[m] > 0 /\ Status(m, st) \notin reported /\ Event
  /\ wire' = wire \cup {Status(m, st)} /\ reported' = reported \cup {Status(m, st)}
  /\ UNCHANGED <<queue, tables, step, hpc, hev, history>>

\* An acknowledgement was lost, or came too late: the event comes again.
Redeliver(ev) ==
  /\ ev \in reported \ wire /\ Fault("retry")
  /\ wire' = wire \cup {ev}
  /\ UNCHANGED <<queue, tables, step, reported, hpc, hev, history>>

\* A request with an event not acknowledged yet, perhaps beside another one.  When
\* the lookup of its account fails, for whatever reason, the event is passed over
\* as one for an unknown account and acknowledged.
Receive(h, ev) ==
  /\ hpc[h] = "idle" /\ ev \in wire /\ ~cancelled
  /\ hev' = [hev EXCEPT ![h] = ev]
  /\ \/ /\ hpc' = [hpc EXCEPT ![h] = IF ev.kind = "status" THEN "status" ELSE "ingest"]
        /\ UNCHANGED <<events, unarmed>>
     \/ /\ Fault("lookup")
        /\ hpc' = [hpc EXCEPT ![h] = "ack"]
        /\ unarmed' = unarmed \cup (IF ev.kind = "in" THEN {ev.id} ELSE {})
  /\ UNCHANGED <<queue, tables, step, wire, reported, accepted, read, overtaken>>

----------------------------------------------------------------------------
(* A webhook request: metaingest's Process and ApplyStatus.                  *)

Goto(h, to) == hpc' = [hpc EXCEPT ![h] = to]

HasRow(ev) == IF ev.kind = "in" THEN ev.id \in Stored
                                ELSE out[ev.id].ext \/ echoed[ev.id] # "none"

\* IngestChannelInbound, one transaction: insert unless the provider id has a
\* row; only an insert moves the badge, up for the customer, to zero for an echo.
Ingest(h) ==
  LET ev == hev[h]  new == ~HasRow(ev) IN
  /\ hpc[h] = "ingest"
  /\ \/ /\ new /\ ev.kind = "in"
        /\ inbox' = Append(inbox, ev.id) /\ unread' = unread + 1
        /\ Goto(h, "arm") /\ UNCHANGED <<echoed, overtaken, events>>
     \/ /\ new /\ ev.kind = "echo"
        /\ echoed' = [echoed EXCEPT ![ev.id] = "sent"] /\ unread' = 0
        /\ overtaken' = TRUE
        /\ Goto(h, "ack") /\ UNCHANGED <<inbox, events>>
     \/ /\ ~new
        /\ Goto(h, IF ev.kind = "in" THEN "recheck" ELSE "ack")
        /\ UNCHANGED <<inbox, echoed, unread, overtaken, events>>
     \/ /\ Fault("db")
        /\ Goto(h, "reject") /\ UNCHANGED <<inbox, echoed, unread, overtaken>>
  /\ UNCHANGED <<queue, out, armed, drafted, step, wire, reported, hev, accepted, read, unarmed>>

\* (Mutant: a duplicate is settled, whatever happened to its follow-up.)
AckDuplicate(h) ==
  /\ hpc[h] = "recheck" /\ Goto(h, "ack")
  /\ UNCHANGED <<queue, tables, step, wire, reported, hev, events, history>>

\* reenqueueMissingDraft: the first attempt may have died before arming; a
\* failed lookup is tolerated.
Recheck(h) ==
  /\ hpc[h] = "recheck"
  /\ \/ /\ Goto(h, IF hev[h].id \in drafted THEN "ack" ELSE "arm")
        /\ UNCHANGED <<events, unarmed>>
     \/ /\ Fault("lookup")
        /\ Goto(h, "ack") /\ unarmed' = unarmed \cup {hev[h].id}
  /\ UNCHANGED <<queue, tables, step, wire, reported, hev, accepted, read, overtaken>>

\* armAutomation: an error keeps the webhook from being acknowledged.
Arm(h) ==
  /\ hpc[h] = "arm"
  /\ \/ armed' = Stored /\ Goto(h, "ack") /\ UNCHANGED events
     \/ Fault("db") /\ Goto(h, "reject") /\ UNCHANGED armed
  /\ UNCHANGED <<queue, out, echoed, inbox, unread, drafted, step, wire, reported, hev, history>>

Rank(st) == CASE st = "queued" -> 0 [] st = "sent" -> 1 [] st = "delivered" -> 2
              [] st = "read" -> 3 [] st = "failed" -> 4 [] OTHER -> 0

\* (Mutant: the last status wins.)
LaterLast(old, new) == new
\* AdvanceDeliveryState only ever moves up the ladder.
Later(old, new) == IF Rank(old) < Rank(new) THEN new ELSE old

\* ApplyStatus, on the row with the provider's id; with none, nothing to do.
ApplyStatus(h) ==
  LET ev == hev[h] IN
  /\ hpc[h] = "status"
  /\ \/ /\ out' = IF out[ev.id].ext THEN [out EXCEPT ![ev.id].st = Later(@, ev.st)] ELSE out
        /\ echoed' = IF echoed[ev.id] # "none" THEN [echoed EXCEPT ![ev.id] = Later(@, ev.st)]
                                               ELSE echoed
        /\ Goto(h, "ack") /\ UNCHANGED events
     \/ Fault("db") /\ Goto(h, "reject") /\ UNCHANGED <<out, echoed>>
  /\ UNCHANGED <<queue, inbox, unread, armed, drafted, step, wire, reported, hev, history>>

\* 200, or 500: only the first takes the event off the provider's list.
Answer(h) ==
  /\ hpc[h] \in {"ack", "reject"}
  /\ wire' = IF hpc[h] = "ack" THEN wire \ {hev[h]} ELSE wire
  /\ Goto(h, "idle") /\ hev' = [hev EXCEPT ![h] = NoEvent]
  /\ UNCHANGED <<queue, tables, step, reported, events, history>>

----------------------------------------------------------------------------
MarkChatRead ==
  /\ Event /\ inbox # <<>>
  /\ unread' = 0 /\ read' = Stored
  /\ UNCHANGED <<queue, out, echoed, inbox, armed, drafted, step, requests, accepted, overtaken,
                 unarmed>>

\* Automation answers the newest message of a chat it was handed.
Generate ==
  /\ armed # {} /\ Last(inbox) \notin drafted
  /\ drafted' = drafted \cup {Last(inbox)}
  /\ UNCHANGED <<queue, out, echoed, inbox, unread, armed, step, requests, events, history>>

\* SIGTERM, then the teardown; workers may leave with tasks in the channel.
Shutdown ==
  /\ "crash" \in Faults
  /\ \/ Cancel /\ Event
     \/ CloseQueue /\ UNCHANGED events
     \/ \E w \in Workers : WorkerExits(w) /\ UNCHANGED events
  /\ UNCHANGED <<tables, step, requests, history>>

\* The process ends, after a shutdown or without one, and starts again.
CrashRestart ==
  /\ (cancelled /\ UNCHANGED events) \/ Fault("crash")
  /\ QueueRestart
  /\ step' = [w \in Workers |-> "idle"]
  /\ hpc' = [h \in Handlers |-> "idle"] /\ hev' = [h \in Handlers |-> NoEvent]
  /\ UNCHANGED <<tables, wire, reported, history>>

----------------------------------------------------------------------------
Deliver(w) == ProviderAccepts(w) \/ SendReturns(w) \/ StampOutboundSent(w) \/ MarkFailed(w)
Process(h) == Ingest(h) \/ Recheck(h) \/ Arm(h) \/ ApplyStatus(h) \/ Answer(h)

Next ==
  \/ \E p \in Producers : PublishReturns(p) \/ \E m \in Out : Send(p, m) \/ AutoReply(p, m)
  \/ \E w \in Workers : Take(w) \/ Deliver(w)
  \/ \E i \in In : CustomerWrites(i)
  \/ \E m \in Out, st \in Reports : ProviderReports(m, st)
  \/ \E ev \in Events : Redeliver(ev) \/ \E h \in Handlers : Receive(h, ev)
  \/ \E h \in Handlers : Process(h)
  \/ MarkChatRead \/ Generate \/ Shutdown \/ CrashRestart

Spec == Init /\ [][Next]_vars

\* Fairness: the provider delivers again a message that was not acknowledged, a request
\* runs to its answer, and a process that was told to stop is started again.
\* Nothing is assumed of operators, customers, automation or faults.
Fairness ==
  /\ \A i \in In : SF_vars(\E h \in Handlers : Receive(h, Inbound(i)))
  /\ \A h \in Handlers : WF_vars(Process(h))
  /\ WF_vars(cancelled /\ CrashRestart)

FairSpec == Spec /\ Fairness

----------------------------------------------------------------------------
(* Properties.                                                              *)

States == {"none", "queued", "sent", "delivered", "read", "failed"}
Steps  == {"idle", "send", "accepted", "stamp", "fail"}

\* Every variable has the values its table, channel or goroutine allows.
TypeOK ==
  /\ QueueTypeOK
  /\ out \in [Out -> [st: States, ext: BOOLEAN]]
  /\ echoed \in [Out -> States]
  /\ inbox \in Seq(In) /\ unread \in Nat /\ armed \subseteq In /\ drafted \subseteq In
  /\ step \in [Workers -> Steps]
  /\ wire \subseteq reported /\ reported \subseteq Events
  /\ hpc \in [Handlers -> {"idle", "ingest", "status", "recheck", "arm", "ack", "reject"}]
  /\ hev \in [Handlers -> Events \cup {NoEvent}]
  /\ events \in Nat
  /\ accepted \in [Out -> Nat] /\ read \subseteq In /\ overtaken \in BOOLEAN /\ unarmed \subseteq In

\* A message is handed to the provider at most once: full queue, lost answer,
\* failed stamp, shutdown and crash lose sends and never repeat one.
SentOnce == \A m \in Out : accepted[m] <= 1

\* Delivery keeps what the outbox promises: through refused publishes, lost
\* answers, failed stamps, crashes and webhooks in any order, a message is
\* handed over at most once and after it was stored, its state never goes
\* back, and it shows nothing the provider did not take.
Delivery == INSTANCE Outbox WITH shown <- [m \in Out |-> out[m].st],
                                 handed <- accepted, mirror <- echoed
ImplementsOutbox == Delivery!Spec

\* The badge counts the customer messages no person has seen: redeliveries
\* are not counted twice and automatic replies clear nothing, unless an echo
\* was stored before its message was stamped.
UnreadIsHonest == overtaken \/ unread = Cardinality(Stored \ read)

\* A stored message is handed to automation, through crashes between the two,
\* failed transactions and concurrent redeliveries, unless a delivery of it was
\* acknowledged although the lookup of its account or of its draft had failed.
StoredIsArmed == \A i \in In : i \in Stored ~> i \in armed \cup drafted \/ i \in unarmed
=============================================================================

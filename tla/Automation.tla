----------------------------- MODULE Automation -----------------------------
(***************************************************************************)
(* Debounced and scheduled auto-reply of one account: inbound messages arm *)
(* a durable per-chat deadline, the scheduler's loop promotes due deadlines *)
(* to durable dispatch jobs and feeds them to a pool of workers, a worker  *)
(* generates a draft, writes it if the burst is still current and, in      *)
(* scheduled_auto mode, claims and sends it.  Operators switch the mode,   *)
(* reply by hand, approve and dismiss drafts meanwhile.                    *)
(*                                                                         *)
(* Every store call is one atomic step.  Time is abstracted: a deadline    *)
(* passes, a job grows older than stuckAfter, the schedule is open or not. *)
(***************************************************************************)
EXTENDS Naturals, Sequences, FiniteSets

CONSTANTS
  Chats, Workers,
  Ops,          \* operator and media operations of the instance
  Faults,       \* faults of the instance
  Buffer,       \* deliveries of one job the dispatch channel holds
  MaxDispatchAttempts,
  MaxInbound, MaxJobs,   \* events
  MaxEvents,    \* bound on messages, operations, faults and crashes together
  NoJob         \* no dispatch job row; an idle worker's job id

AllOps    == {"mode", "human", "approve", "dismiss", "rearm", "suggest", "redeliver"}
AllFaults == {"db", "slow", "full", "crash"}

ASSUME AutomationAssumption ==
  /\ Ops \subseteq AllOps /\ Faults \subseteq AllFaults
  /\ Buffer \in Nat \ {0} /\ MaxDispatchAttempts \in Nat \ {0} /\ MaxJobs \in Nat
  /\ MaxInbound \in Nat /\ MaxEvents \in Nat

Modes   == {"off", "suggestions", "scheduled_auto"}
JobIds  == Chats \X (1..MaxJobs)     \* <<ch, n>> is the n-th dispatch job of ch
JobRows == [ver: Nat, st: {"pending", "processing"}, attempts: Nat, old: BOOLEAN]
ASSUME NoJobAssumption == NoJob \notin JobRows /\ NoJob \notin JobIds

VARIABLES
  mode,      \* automation_settings.mode
  inbound,   \* customer messages stored per chat; message m is the m-th
  human,     \* newest customer message when a human last replied, 0 if never
  debounce,  \* automation_debounce_jobs row: [st, ver, due]
  jobs,      \* automation_dispatch_jobs by id; old: untouched for stuckAfter
  made,      \* dispatch jobs created per chat
  drafts,    \* ai_drafts per chat, oldest first: [trig, st, by, msg]
  toCheck,   \* OnInboundMessage calls that have not read the settings yet
  toArm,     \* ... that have, and go on to ArmDebounce
  feed,      \* ids the scheduler's loop has still to hand to the pool
  queued,    \* deliveries of each id in the dispatch channel
  pc, cur,   \* each worker inside HandleRun, and its job id
  seen,      \* what it has read or written: [ver, trig, auto, draft]
  manual,    \* a manual Suggest on its way: [st, trig]
  approving, \* the draft an approve handler claimed and has not sent, or 0
  events,    \* messages, operations, faults and crashes so far
  (* History, read by no action. *)
  armedAt,   \* newest customer message when the current burst was armed
  replies,   \* auto-replies each job has claimed
  rerun,     \* jobs that recovery took from 'processing'
  restarted, \* chats whose debounce row was deleted
  forgotten, \* newest message of each chat whose last hand-over or job was lost
  sendFailed \* chats in which a claimed draft could not be sent

store   == <<mode, inbound, human, debounce, jobs, made, drafts>>
process == <<toCheck, toArm, feed, queued, pc, cur, seen, manual, approving>>
history == <<armedAt, replies, rerun, restarted, forgotten, sendFailed>>
vars    == <<store, process, events, history>>

NoRow   == [st |-> "none", ver |-> 0, due |-> FALSE]
Nothing == [ver |-> 0, trig |-> 0, auto |-> FALSE, draft |-> 0]
NoSuggest == [st |-> "none", trig |-> 0]

Init ==
  /\ mode \in Modes
  /\ inbound = [ch \in Chats |-> 0] /\ human = [ch \in Chats |-> 0]
  /\ debounce = [ch \in Chats |-> NoRow]
  /\ jobs = [id \in JobIds |-> NoJob] /\ made = [ch \in Chats |-> 0]
  /\ drafts = [ch \in Chats |-> <<>>]
  /\ toCheck = [ch \in Chats |-> 0] /\ toArm = [ch \in Chats |-> 0]
  /\ feed = {} /\ queued = [id \in JobIds |-> 0]
  /\ pc = [w \in Workers |-> "idle"] /\ cur = [w \in Workers |-> NoJob]
  /\ seen = [w \in Workers |-> Nothing]
  /\ manual = [ch \in Chats |-> NoSuggest]
  /\ approving = [ch \in Chats |-> 0]
  /\ events = 0
  /\ armedAt = [ch \in Chats |-> 0]
  /\ replies = [id \in JobIds |-> 0]
  /\ rerun = {} /\ restarted = {} /\ sendFailed = {}
  /\ forgotten = [ch \in Chats |-> 0]

Event    == events < MaxEvents /\ events' = events + 1
Op(op)   == op \in Ops /\ Event
Fault(f) == f \in Faults /\ Event

Exists(id) == jobs[id] # NoJob
Latest(ch) == inbound[ch]

Calls(ch)  == toCheck[ch] + toArm[ch]

\* The last hand-over or the job of these chats is lost: what they have stored is
\* forgotten, unless a deadline is armed.
Forget(lost) ==
  forgotten' = [ch \in Chats |-> IF ch \in lost /\ debounce[ch].st # "pending" THEN Latest(ch)
                                                                          ELSE forgotten[ch]]

----------------------------------------------------------------------------
(* Inbound: the message is stored first and handed to OnInboundMessage      *)
(* after, which reads the settings and then arms.                           *)

Ingest(ch) ==
  /\ inbound[ch] < MaxInbound /\ Event
  /\ inbound' = [inbound EXCEPT ![ch] = @ + 1]
  /\ toCheck' = [toCheck EXCEPT ![ch] = @ + 1]
  /\ UNCHANGED <<mode, human, debounce, jobs, made, drafts, toArm, feed, queued, pc, cur,
                 seen, manual, approving, history>>

\* rearmOrEnqueue: a transcript or an image became available.
Rearm(ch) ==
  /\ Op("rearm") /\ inbound[ch] > 0
  /\ toCheck' = [toCheck EXCEPT ![ch] = @ + 1]
  /\ UNCHANGED <<store, toArm, feed, queued, pc, cur, seen, manual, approving, history>>

\* The webhook brings a stored message again: with no draft triggered by it,
\* its first delivery is taken to have died before it was armed.
HasDraftForTrigger(ch, m) == \E i \in DOMAIN drafts[ch] : drafts[ch][i].trig = m

ReenqueueMissingDraft(ch, m) ==
  /\ m <= inbound[ch] /\ ~HasDraftForTrigger(ch, m) /\ Op("redeliver")
  /\ toCheck' = [toCheck EXCEPT ![ch] = @ + 1]
  /\ UNCHANGED <<store, toArm, feed, queued, pc, cur, seen, manual, approving, history>>

\* OnInboundMessage up to its settings read: off is a no-op.  An error goes to
\* the caller, which logs it.
OnInboundMessage(ch) ==
  /\ toCheck[ch] > 0
  /\ toCheck' = [toCheck EXCEPT ![ch] = @ - 1]
  /\ \/ /\ toArm' = IF mode = "off" THEN toArm ELSE [toArm EXCEPT ![ch] = @ + 1]
        /\ UNCHANGED <<events, forgotten>>
     \/ Fault("db") /\ UNCHANGED toArm /\ Forget({c \in {ch} : Calls(c) = 1})
  /\ UNCHANGED <<store, feed, queued, pc, cur, seen, manual, approving, armedAt, replies, rerun,
                 restarted, sendFailed>>

\* ArmDebounce: insert at version 1, or push the deadline and bump the version.
\* An error is logged by the caller too.
ArmDebounce(ch) ==
  /\ toArm[ch] > 0
  /\ toArm' = [toArm EXCEPT ![ch] = @ - 1]
  /\ \/ /\ debounce' = [debounce EXCEPT ![ch] =
               [st |-> "pending", ver |-> @.ver + 1, due |-> FALSE]]
        /\ armedAt' = [armedAt EXCEPT ![ch] = Latest(ch)]
        /\ UNCHANGED <<events, forgotten>>
     \/ Fault("db") /\ UNCHANGED <<debounce, armedAt>> /\ Forget({c \in {ch} : Calls(c) = 1})
  /\ UNCHANGED <<mode, inbound, human, jobs, made, drafts, toCheck, feed, queued, pc, cur,
                 seen, manual, approving, replies, rerun, restarted, sendFailed>>

DeadlinePasses(ch) ==
  /\ debounce[ch].st = "pending" /\ ~debounce[ch].due
  /\ debounce' = [debounce EXCEPT ![ch].due = TRUE]
  /\ UNCHANGED <<mode, inbound, human, jobs, made, drafts, process, events, history>>

----------------------------------------------------------------------------
(* The scheduler's loop: one goroutine claims, recovers and feeds the pool. *)

Due == {ch \in Chats : debounce[ch].st = "pending" /\ debounce[ch].due}

\* ClaimDueDispatchJobs, one transaction over every due chat: a job that
\* already exists for (chat, version) breaks the unique index and rolls the
\* whole batch back.
ClaimDueDispatchJobs ==
  /\ feed = {} /\ Due # {}
  /\ \A ch \in Due : made[ch] < MaxJobs
  /\ \A ch \in Due, n \in 1..MaxJobs : Exists(<<ch, n>>) => jobs[<<ch, n>>].ver # debounce[ch].ver
  /\ debounce' = [ch \in Chats |-> IF ch \in Due THEN [debounce[ch] EXCEPT !.st = "claimed"]
                                                 ELSE debounce[ch]]
  /\ feed' = {<<ch, made[ch] + 1>> : ch \in Due}
  /\ jobs' = [id \in JobIds |-> IF id \in feed'
       THEN [ver |-> debounce[id[1]].ver, st |-> "pending", attempts |-> 0, old |-> FALSE]
       ELSE jobs[id]]
  /\ made' = [ch \in Chats |-> IF ch \in Due THEN made[ch] + 1 ELSE made[ch]]
  /\ UNCHANGED <<mode, inbound, human, drafts, toCheck, toArm, queued, pc, cur, seen, manual,
                 approving, events, history>>

\* (Mutants: only one of the two states is recovered.)
RecoverablePending    == {id \in JobIds : Exists(id) /\ jobs[id].old /\ jobs[id].st = "pending"}
RecoverableProcessing == {id \in JobIds : Exists(id) /\ jobs[id].old /\ jobs[id].st = "processing"}
RecoverableDispatchJobs == {id \in JobIds : Exists(id) /\ jobs[id].old}

\* recoverDispatchJobs: stale 'processing' rows go back to 'pending', and
\* every stale row is stamped and handed out again.
RecoverDispatchJobs ==
  /\ feed = {} /\ RecoverableDispatchJobs # {}
  /\ jobs' = [id \in JobIds |-> IF id \in RecoverableDispatchJobs
       THEN [jobs[id] EXCEPT !.st = "pending", !.old = FALSE] ELSE jobs[id]]
  /\ feed' = RecoverableDispatchJobs
  /\ rerun' = rerun \cup {id \in RecoverableDispatchJobs : jobs[id].st = "processing"}
  /\ UNCHANGED <<mode, inbound, human, debounce, made, drafts, toCheck, toArm, queued, pc, cur,
                 seen, manual, approving, events, armedAt, replies, restarted, forgotten,
                 sendFailed>>

\* enqueue: into the channel, or given up after two seconds when it is full.
Enqueue(id) ==
  /\ id \in feed
  /\ feed' = feed \ {id}
  /\ \/ queued[id] < Buffer /\ queued' = [queued EXCEPT ![id] = @ + 1] /\ UNCHANGED events
     \/ queued[id] >= Buffer /\ UNCHANGED <<queued, events>>
     \/ Fault("full") /\ UNCHANGED queued
  /\ UNCHANGED <<store, toCheck, toArm, pc, cur, seen, manual, approving, history>>

\* stuckAfter passes since the row was last touched.  A live worker that
\* still holds the job is "slow" (two LLM calls may take that long).
JobAges(id) ==
  /\ Exists(id) /\ ~jobs[id].old
  /\ \/ (\A w \in Workers : cur[w] # id) /\ UNCHANGED events
     \/ (\E w \in Workers : cur[w] = id) /\ Fault("slow")
  /\ jobs' = [jobs EXCEPT ![id].old = TRUE]
  /\ UNCHANGED <<mode, inbound, human, debounce, made, drafts, process, history>>

----------------------------------------------------------------------------
(* A dispatch worker: Runner.HandleRun.                                     *)

Goto(w, to) == pc' = [pc EXCEPT ![w] = to]
Leave(w) ==
  /\ pc' = [pc EXCEPT ![w] = "idle"]
  /\ cur' = [cur EXCEPT ![w] = NoJob]
  /\ seen' = [seen EXCEPT ![w] = Nothing]
DeleteJob(id) == jobs' = [jobs EXCEPT ![id] = NoJob]

\* The delivery is taken and DispatchJobByID reads the row; when that fails the
\* delivery is gone.
Take(w, id) ==
  /\ pc[w] = "idle" /\ queued[id] > 0
  /\ queued' = [queued EXCEPT ![id] = @ - 1]
  /\ \/ ~Exists(id) /\ UNCHANGED <<pc, cur, seen, events>>
     \/ Fault("db") /\ UNCHANGED <<pc, cur, seen>>
     \/ /\ Exists(id) /\ UNCHANGED events
        /\ Goto(w, IF jobs[id].st = "processing" THEN "owned" ELSE "claim")
        /\ cur' = [cur EXCEPT ![w] = id]
        /\ seen' = [seen EXCEPT ![w].ver = jobs[id].ver]
  /\ UNCHANGED <<store, toCheck, toArm, feed, manual, approving, history>>

\* A delivery that saw an owner only cleans up after a switch to off.
CleanUpOwned(w) ==
  /\ pc[w] = "owned"
  /\ IF mode = "off" THEN DeleteJob(cur[w]) ELSE UNCHANGED jobs
  /\ Leave(w)
  /\ UNCHANGED <<mode, inbound, human, debounce, made, drafts, toCheck, toArm, feed, queued,
                 manual, approving, events, history>>

\* (Mutant: whoever finds the row takes it.)
ClaimableIfPresent(id) == Exists(id)
Claimable(id) == Exists(id) /\ jobs[id].st = "pending"

\* ClaimDispatchJob: pending -> processing, or somebody else has it, or it fails.
ClaimDispatchJob(w) ==
  LET id == cur[w] IN
  /\ pc[w] = "claim"
  /\ \/ /\ Claimable(id)
        /\ jobs' = [jobs EXCEPT ![id].st = "processing", ![id].old = FALSE]
        /\ Goto(w, "settings") /\ UNCHANGED <<cur, seen, events>>
     \/ /\ (~Claimable(id) /\ UNCHANGED events) \/ Fault("db")
        /\ Leave(w) /\ UNCHANGED jobs
  /\ UNCHANGED <<mode, inbound, human, debounce, made, drafts, toCheck, toArm, feed, queued,
                 manual, approving, history>>

\* The settings are read once, before generation.
LoadSettings(w) ==
  /\ pc[w] = "settings"
  /\ IF mode = "off"
     THEN DeleteJob(cur[w]) /\ Leave(w)
     ELSE /\ seen' = [seen EXCEPT ![w].auto = (mode = "scheduled_auto")]
          /\ Goto(w, "load") /\ UNCHANGED <<jobs, cur>>
  /\ UNCHANGED <<mode, inbound, human, debounce, made, drafts, toCheck, toArm, feed, queued,
                 manual, approving, events, history>>

\* LoadForResponse: the newest customer message is the one being answered.
\* Generation runs between this step and the next.
LoadForResponse(w) ==
  /\ pc[w] = "load"
  /\ seen' = [seen EXCEPT ![w].trig = Latest(cur[w][1])]
  /\ Goto(w, "write")
  /\ UNCHANGED <<store, toCheck, toArm, feed, queued, cur, manual, approving, events, history>>

\* (Mutant: a status the table does not know.)
DraftUnknown(trig) == [trig |-> trig, st |-> "draft", by |-> "nobody", msg |-> FALSE]
Draft(trig) == [trig |-> trig, st |-> "suggested", by |-> "nobody", msg |-> FALSE]

\* (Mutant: older suggestions stay.)
WithDraftBeside(ds, trig) == Append(ds, Draft(trig))

\* writeDraftOptionsTx: the chat's older suggestions are superseded.
WithDraft(ds, trig) ==
  Append([i \in DOMAIN ds |-> IF ds[i].st = "suggested" THEN [ds[i] EXCEPT !.st = "superseded"]
                                                        ELSE ds[i]], Draft(trig))

\* ClaimDraft and ClaimDraftForAutoSend: draft i is sent by `by', its
\* siblings are superseded.
Claimed(ds, i, by) ==
  [j \in DOMAIN ds |-> IF j = i THEN [ds[j] EXCEPT !.st = "sent", !.by = by]
                       ELSE IF ds[j].st = "suggested" THEN [ds[j] EXCEPT !.st = "superseded"]
                       ELSE ds[j]]

\* (Mutant: the write is not gated.)
BurstUnchecked(w) == TRUE
BurstIsCurrent(w) == debounce[cur[w][1]].ver = seen[w].ver

\* WriteDraftSetIfVersionCurrent: a generation whose burst has moved on is
\* discarded.
WriteDraft(w) ==
  LET ch == cur[w][1] IN
  /\ pc[w] = "write"
  /\ \/ /\ BurstIsCurrent(w)
        /\ drafts' = [drafts EXCEPT ![ch] = WithDraft(@, seen[w].trig)]
        /\ seen' = [seen EXCEPT ![w].draft = Len(drafts[ch]) + 1]
        /\ Goto(w, IF seen[w].auto THEN "autosend" ELSE "delete")
     \/ /\ ~BurstIsCurrent(w)
        /\ Goto(w, "delete")
        /\ UNCHANGED <<drafts, seen>>
  /\ UNCHANGED <<mode, inbound, human, debounce, jobs, made, toCheck, toArm, feed, queued, cur,
                 manual, approving, events, history>>

\* ClaimDraftForAutoSend's recheck, in one transaction: the mode, no human
\* reply since the trigger, no newer customer message, the draft unclaimed.
MayAutoSend(w) ==
  LET ch == cur[w][1] IN
  /\ mode = "scheduled_auto"
  /\ human[ch] < seen[w].trig
  /\ Latest(ch) = seen[w].trig
  /\ drafts[ch][seen[w].draft].st = "suggested"

\* maybeAutoSend: outside the schedule, or when the recheck fails, the draft
\* stays a suggestion.
ClaimDraftForAutoSend(w) ==
  LET ch == cur[w][1] IN
  /\ pc[w] = "autosend"
  /\ \/ /\ MayAutoSend(w)
        /\ drafts' = [drafts EXCEPT ![ch] = Claimed(@, seen[w].draft, "auto")]
        /\ replies' = [replies EXCEPT ![cur[w]] = @ + 1]
        /\ Goto(w, "insert")
     \/ Goto(w, "delete") /\ UNCHANGED <<drafts, replies>>
  /\ UNCHANGED <<mode, inbound, human, debounce, jobs, made, toCheck, toArm, feed, queued, cur,
                 seen, manual, approving, events, armedAt, rerun, restarted, forgotten, sendFailed>>

\* (Mutant: the message is never inserted.)
DispatchNothing(w) ==
  /\ pc[w] = "insert"
  /\ Goto(w, "delete")
  /\ UNCHANGED <<store, toCheck, toArm, feed, queued, cur, seen, manual, approving, events,
                 history>>

\* dispatchSend: InsertAutomationOutbound and the hand-over to the outbound
\* queue; an error is logged and the draft stays 'sent'.
DispatchSend(w) ==
  /\ pc[w] = "insert"
  /\ \/ /\ drafts' = [drafts EXCEPT ![cur[w][1]][seen[w].draft].msg = TRUE]
        /\ UNCHANGED <<events, sendFailed>>
     \/ /\ Fault("db") /\ UNCHANGED drafts
        /\ sendFailed' = sendFailed \cup {cur[w][1]}
  /\ Goto(w, "delete")
  /\ UNCHANGED <<mode, inbound, human, debounce, jobs, made, toCheck, toArm, feed, queued, cur,
                 seen, manual, approving, armedAt, replies, rerun, restarted, forgotten>>

\* DeleteDispatchJob, whose error is ignored.
DeleteDispatchJob(w) ==
  /\ pc[w] = "delete"
  /\ \/ DeleteJob(cur[w]) /\ UNCHANGED events
     \/ Fault("db") /\ UNCHANGED jobs
  /\ Leave(w)
  /\ UNCHANGED <<mode, inbound, human, debounce, made, drafts, toCheck, toArm, feed, queued,
                 manual, approving, history>>

\* A store error while loading or writing ends in giveUpOrRetry.
GenerationFails(w) ==
  /\ pc[w] \in {"settings", "load", "write"} /\ Fault("db")
  /\ Goto(w, "failed")
  /\ UNCHANGED <<store, toCheck, toArm, feed, queued, cur, seen, manual, approving, history>>

\* RecordDispatchFailure: one more attempt, 'pending' again; at the cap the
\* job is dropped.  The update finds no row when the job is already gone, and
\* leaves an owner's row behind when it fails.
GiveUpOrRetry(w) ==
  LET id == cur[w] IN
  /\ pc[w] = "failed"
  /\ \/ /\ Exists(id)
        /\ jobs' = [jobs EXCEPT ![id].attempts = @ + 1, ![id].st = "pending", ![id].old = FALSE]
        /\ IF jobs[id].attempts + 1 >= MaxDispatchAttempts
           THEN Goto(w, "delete") /\ Forget({c \in {id[1]} : Calls(c) = 0}) /\ UNCHANGED <<cur, seen>>
           ELSE Leave(w) /\ UNCHANGED forgotten
        /\ UNCHANGED events
     \/ ~Exists(id) /\ Leave(w) /\ UNCHANGED <<jobs, events, forgotten>>
     \/ Fault("db") /\ Leave(w) /\ UNCHANGED <<jobs, forgotten>>
  /\ UNCHANGED <<mode, inbound, human, debounce, made, drafts, toCheck, toArm, feed, queued,
                 manual, approving, armedAt, replies, rerun, restarted, sendFailed>>

----------------------------------------------------------------------------
(* Operators.                                                               *)

\* SetAutomationSettings: switching to off drops what is still pending.
SetAutomationSettings(m) ==
  /\ Op("mode") /\ m # mode
  /\ mode' = m
  /\ IF m = "off"
     THEN /\ debounce' = [ch \in Chats |-> IF debounce[ch].st = "pending" THEN NoRow ELSE debounce[ch]]
          /\ jobs' = [id \in JobIds |-> IF Exists(id) /\ jobs[id].st = "pending" THEN NoJob ELSE jobs[id]]
     ELSE UNCHANGED <<debounce, jobs>>
  /\ restarted' = restarted \cup {ch \in Chats : debounce'[ch] # debounce[ch]}
  /\ UNCHANGED <<inbound, human, made, drafts, process, armedAt, replies, rerun, forgotten,
                 sendFailed>>

\* A manual send, or the account's owner answering from the phone.
HumanReplies(ch) ==
  /\ Op("human") /\ inbound[ch] > 0 /\ human[ch] < inbound[ch]
  /\ human' = [human EXCEPT ![ch] = inbound[ch]]
  /\ UNCHANGED <<mode, inbound, debounce, jobs, made, drafts, process, history>>

\* handleApprove's ClaimDraft.
ApproveClaim(ch, i) ==
  /\ Op("approve") /\ approving[ch] = 0
  /\ i \in DOMAIN drafts[ch] /\ drafts[ch][i].st = "suggested"
  /\ drafts' = [drafts EXCEPT ![ch] = Claimed(@, i, "operator")]
  /\ approving' = [approving EXCEPT ![ch] = i]
  /\ UNCHANGED <<mode, inbound, human, debounce, jobs, made, toCheck, toArm, feed, queued, pc,
                 cur, seen, manual, history>>

\* ... and its sendParts, with sender_kind 'ai'; on an error ReopenDraft sets
\* the draft back to 'suggested', whatever happened meanwhile.
ApproveSend(ch) ==
  /\ approving[ch] # 0
  /\ \/ /\ drafts' = [drafts EXCEPT ![ch][approving[ch]].msg = TRUE]
        /\ UNCHANGED <<events, sendFailed>>
     \/ /\ Fault("db")
        /\ drafts' = [drafts EXCEPT ![ch][approving[ch]].st = "suggested"]
        /\ sendFailed' = sendFailed \cup {ch}
  /\ approving' = [approving EXCEPT ![ch] = 0]
  /\ UNCHANGED <<mode, inbound, human, debounce, jobs, made, toCheck, toArm, feed, queued, pc,
                 cur, seen, manual, armedAt, replies, rerun, restarted, forgotten>>

\* DismissDrafts.
DismissDrafts(ch) ==
  /\ Op("dismiss")
  /\ \E i \in DOMAIN drafts[ch] : drafts[ch][i].st = "suggested"
  /\ drafts' = [drafts EXCEPT ![ch] = [i \in DOMAIN @ |->
       IF @[i].st = "suggested" THEN [@[i] EXCEPT !.st = "dismissed"] ELSE @[i]]]
  /\ UNCHANGED <<mode, inbound, human, debounce, jobs, made, process, history>>

\* handleSuggest (refused when off) and the worker's handleAIDraft, whose
\* write has no version gate.
Suggest(ch) ==
  /\ Op("suggest") /\ mode # "off" /\ manual[ch].st = "none"
  /\ manual' = [manual EXCEPT ![ch].st = "queued"]
  /\ UNCHANGED <<store, toCheck, toArm, feed, queued, pc, cur, seen, approving, history>>

SuggestLoad(ch) ==
  /\ manual[ch].st = "queued"
  /\ manual' = [manual EXCEPT ![ch] = [st |-> "loaded", trig |-> Latest(ch)]]
  /\ UNCHANGED <<store, toCheck, toArm, feed, queued, pc, cur, seen, approving, events, history>>

SuggestWrite(ch) ==
  /\ manual[ch].st = "loaded"
  /\ drafts' = [drafts EXCEPT ![ch] = WithDraft(@, manual[ch].trig)]
  /\ manual' = [manual EXCEPT ![ch] = NoSuggest]
  /\ UNCHANGED <<mode, inbound, human, debounce, jobs, made, toCheck, toArm, feed, queued, pc,
                 cur, seen, approving, events, history>>

\* The process dies and is started again: only the tables survive.
CrashRestart ==
  /\ Fault("crash")
  /\ Forget({ch \in Chats : Calls(ch) > 0})
  /\ sendFailed' = sendFailed \cup {ch \in Chats :
       approving[ch] # 0 \/ \E w \in Workers : pc[w] = "insert" /\ cur[w][1] = ch}
  /\ toCheck' = [ch \in Chats |-> 0] /\ toArm' = [ch \in Chats |-> 0]
  /\ feed' = {} /\ queued' = [id \in JobIds |-> 0]
  /\ pc' = [w \in Workers |-> "idle"] /\ cur' = [w \in Workers |-> NoJob]
  /\ seen' = [w \in Workers |-> Nothing]
  /\ manual' = [ch \in Chats |-> NoSuggest] /\ approving' = [ch \in Chats |-> 0]
  /\ UNCHANGED <<store, armedAt, replies, rerun, restarted>>

----------------------------------------------------------------------------
Arming(ch) == OnInboundMessage(ch) \/ ArmDebounce(ch)
Loop == ClaimDueDispatchJobs \/ RecoverDispatchJobs \/ \E id \in JobIds : Enqueue(id)
Run(w) ==
  \/ CleanUpOwned(w) \/ ClaimDispatchJob(w) \/ LoadSettings(w) \/ LoadForResponse(w)
  \/ WriteDraft(w) \/ ClaimDraftForAutoSend(w) \/ DispatchSend(w) \/ DeleteDispatchJob(w)
  \/ GenerationFails(w) \/ GiveUpOrRetry(w)

Next ==
  \/ \E ch \in Chats : \/ Ingest(ch) \/ Rearm(ch) \/ Arming(ch) \/ DeadlinePasses(ch)
                       \/ HumanReplies(ch) \/ ApproveSend(ch) \/ DismissDrafts(ch)
                       \/ \E m \in 1..MaxInbound : ReenqueueMissingDraft(ch, m)
                       \/ Suggest(ch) \/ SuggestLoad(ch) \/ SuggestWrite(ch)
                       \/ \E i \in DOMAIN drafts[ch] : ApproveClaim(ch, i)
  \/ Loop \/ \E id \in JobIds : JobAges(id)
  \/ \E w \in Workers : Run(w) \/ \E id \in JobIds : Take(w, id)
  \/ \E m \in Modes : SetAutomationSettings(m)
  \/ CrashRestart

Spec == Init /\ [][Next]_vars

\* Fairness.  Ingest handlers, the loop and every worker go on with what they
\* have begun, time passes, and a delivery in the channel is taken by some
\* worker.  The loop's claim and recovery tickers alternate in one select, so
\* neither starves.  Nothing is assumed of customers, operators or faults.
Fairness ==
  /\ \A ch \in Chats : WF_vars(OnInboundMessage(ch)) /\ WF_vars(ArmDebounce(ch))
                       /\ WF_vars(DeadlinePasses(ch)) /\ WF_vars(ApproveSend(ch))
  /\ SF_vars(ClaimDueDispatchJobs) /\ SF_vars(RecoverDispatchJobs)
  /\ \A id \in JobIds : /\ WF_vars(Enqueue(id))
                        /\ WF_vars((\A w \in Workers : cur[w] # id) /\ JobAges(id))
                        /\ SF_vars(\E w \in Workers : Take(w, id))
  /\ \A w \in Workers : WF_vars(Run(w))

FairSpec == Spec /\ Fairness

----------------------------------------------------------------------------
(* Properties.                                                              *)

WorkerPc == {"idle", "owned", "claim", "settings", "load", "write", "autosend", "insert",
             "delete", "failed"}
Owning == {"settings", "load", "write", "autosend", "insert"}
DraftRows == [trig: Nat, st: {"suggested", "superseded", "sent", "dismissed"},
              by: {"nobody", "operator", "auto"}, msg: BOOLEAN]
DebounceRows == [st: {"none", "pending", "claimed"}, ver: Nat, due: BOOLEAN]
SeenRows     == [ver: Nat, trig: Nat, auto: BOOLEAN, draft: Nat]
SuggestRows  == [st: {"none", "queued", "loaded"}, trig: Nat]

\* Every variable has the values its table or goroutine allows.
TypeOK ==
  /\ mode \in Modes
  /\ inbound \in [Chats -> Nat] /\ human \in [Chats -> Nat]
  /\ debounce \in [Chats -> DebounceRows]
  /\ jobs \in [JobIds -> JobRows \cup {NoJob}] /\ made \in [Chats -> 0..MaxJobs]
  /\ drafts \in [Chats -> Seq(DraftRows)]
  /\ toCheck \in [Chats -> Nat] /\ toArm \in [Chats -> Nat]
  /\ feed \subseteq JobIds /\ queued \in [JobIds -> Nat]
  /\ pc \in [Workers -> WorkerPc]
  /\ cur \in [Workers -> JobIds \cup {NoJob}]
  /\ seen \in [Workers -> SeenRows]
  /\ manual \in [Chats -> SuggestRows]
  /\ approving \in [Chats -> Nat]
  /\ events \in Nat
  /\ armedAt \in [Chats -> Nat] /\ replies \in [JobIds -> Nat] /\ rerun \subseteq JobIds
  /\ restarted \subseteq Chats /\ forgotten \in [Chats -> Nat] /\ sendFailed \subseteq Chats

\* Two workers never run the same dispatch job, however often it is delivered,
\* unless recovery took it for dead.
OneOwner ==
  \A v, w \in Workers : v # w /\ pc[v] \in Owning /\ pc[w] \in Owning /\ cur[v] = cur[w] =>
    cur[v] \in rerun

\* One burst gets at most one automatic reply, unless recovery ran its job
\* again: no store error, full channel, mode switch or operator doubles it.
OneReplyPerBurst == \A id \in JobIds : replies[id] <= 1 \/ id \in rerun

\* A draft a dispatch job shows answers at least the message that armed the
\* chat's current burst: a superseded generation is never shown.  (The code
\* breaks this one: README, section 5.)
StaleIsNeverShown ==
  [][\A w \in Workers : WriteDraft(w) /\ drafts' # drafts =>
       seen[w].trig >= armedAt[cur[w][1]]]_vars

\* The same as long as the chat's burst counter has not been restarted by a
\* switch to off: slow workers, recovered jobs, store errors and crashes do
\* not get a superseded generation past the version gate.
StaleIsDiscarded ==
  [][\A w \in Workers : WriteDraft(w) /\ drafts' # drafts /\ cur[w][1] \notin restarted =>
       seen[w].trig >= armedAt[cur[w][1]]]_vars

\* A customer message gets at most one automatic reply, however often its
\* burst is delivered.  (The code breaks this one: README, section 5.)
OneReplyPerMessage ==
  \A ch \in Chats : \A i, j \in DOMAIN drafts[ch] :
    i # j /\ drafts[ch][i].by = "auto" /\ drafts[ch][j].by = "auto" =>
      drafts[ch][i].trig # drafts[ch][j].trig

\* A chat shows one suggestion at a time, whoever wrote it, as long as no
\* claimed draft had to be put back.
OneSuggestion ==
  \A ch \in Chats \ sendFailed :
    Cardinality({i \in DOMAIN drafts[ch] : drafts[ch][i].st = "suggested"}) <= 1

\* A draft shown as sent has its message, once nobody is still sending it and
\* no send has failed.
SentDraftsHaveMessages ==
  \A ch \in Chats \ sendFailed : \A i \in DOMAIN drafts[ch] :
    drafts[ch][i].st = "sent" =>
      \/ drafts[ch][i].msg
      \/ approving[ch] = i
      \/ \E w \in Workers : pc[w] = "insert" /\ cur[w][1] = ch /\ seen[w].draft = i

\* No dispatch job is left behind: crash, full channel or failure, the row is
\* worked off or given up.
JobsEnd == \A id \in JobIds : Exists(id) ~> ~Exists(id)

\* A customer message that comes in while the channel is on gets a draft that
\* takes it into account, unless the channel is switched off, or its chat's last
\* hand-over was lost (a crash or a store error before the deadline was armed) or
\* its job given up after MaxDispatchAttempts, with no newer one to come.
MessagesAreAnswered ==
  \A ch \in Chats : \A m \in 1..MaxInbound :
    toArm[ch] > 0 /\ inbound[ch] >= m ~>
      \/ mode = "off" \/ m <= forgotten[ch]
      \/ \E i \in DOMAIN drafts[ch] : drafts[ch][i].trig >= m
=============================================================================

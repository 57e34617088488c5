------------------------------ MODULE Campaign ------------------------------
(***************************************************************************)
(* The bulk-campaign engine: the campaign and recipient rows, the sending  *)
(* worker of each account (claim, resolve the chat, provider call, stamp,  *)
(* finalize, complete), the scheduler's maintenance sweep, the operator's  *)
(* HTTP handlers, inbound replies and process crashes.                     *)
(*                                                                         *)
(* A store call is one transaction, so it is atomic here; a handler or a   *)
(* worker that makes several calls is several steps, and what it read in   *)
(* one step may be stale in the next.  Rate limits are abstracted to "a    *)
(* claim may be refused"; module SendBudget has them.                      *)
(***************************************************************************)
EXTENDS CampaignRules, FiniteSets

CONSTANTS
  Campaigns,     \* campaign ids
  Identities,    \* normalized recipient identities
  Accounts,      \* sending accounts
  ColdAccounts,  \* those on a cold-send-capable channel
  Operators,     \* concurrent operator sessions, one request each at a time
  Bodies,        \* message bodies
  Ladder,        \* rungs of the transient retry ladder (three in the code)
  Ops,           \* operator operations and background jobs of the instance
  Faults,        \* faults of the instance
  MaxRequests,   \* bound on operator requests
  MaxCrashes,    \* bound on crashes
  NoClaim, NoReq \* an idle worker's claim, an idle operator's request

ReadThenWrite == {"start", "content", "schedule", "replace", "retry", "delete"}
SingleCall    == {"create", "pause", "resume", "stop", "duplicate"}
AllOps        == ReadThenWrite \cup SingleCall \cup {"prune", "autopause", "reply"}
AllFaults     == {"db", "stamp", "ambiguous", "reject"}

ASSUME CampaignAssumption ==
  /\ ColdAccounts \subseteq Accounts
  /\ Ladder \in Nat /\ MaxRequests \in Nat /\ MaxCrashes \in Nat
  /\ Ops \subseteq AllOps /\ Faults \subseteq AllFaults
  /\ Campaigns # {} /\ Bodies # {} /\ Accounts # {}

Rows  == Campaigns \X Identities      \* UNIQUE(campaign_id, normalized_identity)
Chats == Accounts \X Identities       \* UNIQUE(account_id, remote_jid)

Claims == [row: Rows, n: Nat, body: Bodies, err: {"ok", "transient", "permanent"}]
Requests == [op: ReadThenWrite, c: Campaigns, to: {"scheduled", "running"}]
ASSUME NullAssumption == NoClaim \notin Claims /\ NoReq \notin Requests

VARIABLES
  status,    \* campaigns.status; "absent" before the insert, "deleted" after
  body,      \* campaigns.message_body
  acct,      \* campaigns.account_id
  schedule,  \* campaigns.schedule_at: "none", "future" or "due"
  row,       \* campaign_recipients.status, "absent" when there is no row
  attempts,  \* campaign_recipients.attempts
  backoff,   \* campaign_recipients.next_attempt_at is in the future
  logged,    \* rows with a campaign_send_log entry
  chat,      \* chat_state of the recipient's chat, "none" when there is none
  up,        \* the process is running
  pc, claim, \* each account's worker inside Runner.HandleAccount
  maint,     \* Scheduler.runMaintenance: [pc, todo, c]
  req,       \* each operator's request between its read and its write
  requests, crashes,            \* bounded counters
  (* History, read by no action: what the outside world observed. *)
  delivered, \* provider acceptances per row
  lostAck,   \* acceptances that Deliver reported as an error
  retried,   \* operator retries of a failed row
  bodiesOut, \* bodies the provider accepted, per campaign
  organic,   \* chats the customer opened
  replied    \* chats the customer has written in

store   == <<status, body, acct, schedule, row, attempts, backoff, logged, chat>>
process == <<up, pc, claim, maint, req>>
bounds  == <<requests, crashes>>
history == <<delivered, lostAck, retried, bodiesOut, organic, replied>>
vars    == <<store, process, bounds, history>>

----------------------------------------------------------------------------
RowsOf(c) == {c} \X Identities
Has(c, s) == \E r \in RowsOf(c) : row[r] = s
\* (Mutant: a send in flight does not count as work left.)
DrainedOfPending(c) == ~Has(c, "pending")
Drained(c) == ~Has(c, "pending") /\ ~Has(c, "sending")
Exists(c) == status[c] \in CampaignStatus

\* (Mutant: the transition is not checked.)
SetStatusUnchecked(c, to) == status' = [status EXCEPT ![c] = to]

\* SetCampaignStatus reads the status, checks the edge and writes, in one
\* transaction; a forbidden edge changes nothing.
SetCampaignStatus(c, to) ==
  status' = IF CanTransition(status[c], to) THEN [status EXCEPT ![c] = to] ELSE status

\* A store error where only the status is written.
StatusStays == "db" \in Faults /\ UNCHANGED status

WorkersIdle == \A a \in Accounts : pc[a] = "idle"
MaintIdle == maint.pc = "idle"
ChatOf(a) == <<a, claim[a].row[2]>>
NoMaint == [pc |-> "idle", todo |-> {}, c |-> CHOOSE c \in Campaigns : TRUE]

Init ==
  /\ status = [c \in Campaigns |-> "absent"]
  /\ body = [c \in Campaigns |-> CHOOSE b \in Bodies : TRUE]
  /\ acct = [c \in Campaigns |-> CHOOSE a \in Accounts : TRUE]
  /\ schedule = [c \in Campaigns |-> "none"]
  /\ row = [r \in Rows |-> "absent"]
  /\ attempts = [r \in Rows |-> 0]
  /\ backoff = [r \in Rows |-> FALSE]
  /\ logged = {}
  /\ chat = [k \in Chats |-> "none"]
  /\ up = TRUE
  /\ pc = [a \in Accounts |-> "idle"]
  /\ claim = [a \in Accounts |-> NoClaim]
  /\ maint = NoMaint
  /\ req = [o \in Operators |-> NoReq]
  /\ requests = 0 /\ crashes = 0
  /\ delivered = [r \in Rows |-> 0]
  /\ lostAck = [r \in Rows |-> 0]
  /\ retried = [r \in Rows |-> 0]
  /\ bodiesOut = [c \in Campaigns |-> {}]
  /\ organic = {} /\ replied = {}

----------------------------------------------------------------------------
(* The worker of account a: Runner.HandleAccount under Scheduler.tick.      *)

\* ClaimNextRecipient, one transaction: any due pending row of a running
\* campaign (the FIFO order, the windows and the budget only narrow the
\* choice, or refuse), ledger entry first, then 'sending'.
ClaimNextRecipient(a, r) ==
  /\ up /\ MaintIdle /\ pc[a] = "idle"
  /\ acct[r[1]] = a /\ status[r[1]] = "running"
  /\ row[r] = "pending" /\ ~backoff[r]
  /\ logged' = logged \cup {r}
  /\ row' = [row EXCEPT ![r] = "sending"]
  /\ attempts' = [attempts EXCEPT ![r] = @ + 1]
  /\ claim' = [claim EXCEPT ![a] =
       [row |-> r, n |-> attempts[r] + 1, body |-> body[r[1]], err |-> "ok"]]
  /\ pc' = [pc EXCEPT ![a] = "resolve"]
  /\ UNCHANGED <<status, body, acct, schedule, backoff, chat, up, maint, req, bounds, history>>

\* The attempt ends in Runner.finalize with outcome e.
Fails(a, e) ==
  /\ claim' = [claim EXCEPT ![a].err = e]
  /\ pc' = [pc EXCEPT ![a] = "finalize"]

\* (Mutant: every resolved chat is marked, not only a created one.)
ResolveChatMarksAll(a) ==
  /\ pc[a] = "resolve"
  /\ chat' = [chat EXCEPT ![ChatOf(a)] = IF @ = "none" THEN "open" ELSE @]
  /\ pc' = [pc EXCEPT ![a] = "mark"]
  /\ UNCHANGED <<status, body, acct, schedule, row, attempts, backoff, logged,
                 up, claim, maint, req, bounds, history>>

\* resolveChat: a cold channel finds or creates the chat ('open' by default;
\* a created one is marked in a second call), a warm one needs it to exist.
ResolveChat(a) ==
  /\ pc[a] = "resolve"
  /\ \/ /\ a \in ColdAccounts /\ chat[ChatOf(a)] = "none"
        /\ chat' = [chat EXCEPT ![ChatOf(a)] = "open"]
        /\ pc' = [pc EXCEPT ![a] = "mark"]
        /\ UNCHANGED claim
     \/ /\ chat[ChatOf(a)] # "none"
        /\ pc' = [pc EXCEPT ![a] = "send"]
        /\ UNCHANGED <<chat, claim>>
     \/ /\ a \notin ColdAccounts /\ chat[ChatOf(a)] = "none"
        /\ Fails(a, "permanent")
        /\ UNCHANGED chat
  /\ UNCHANGED <<status, body, acct, schedule, row, attempts, backoff, logged,
                 up, maint, req, bounds, history>>

\* MarkChatCampaignOnly, unconditional; an error is logged and ignored.
MarkChatCampaignOnly(a) ==
  /\ pc[a] = "mark"
  /\ \/ chat' = [chat EXCEPT ![ChatOf(a)] = "campaign"]
     \/ "db" \in Faults /\ chat' = chat
  /\ pc' = [pc EXCEPT ![a] = "send"]
  /\ UNCHANGED <<status, body, acct, schedule, row, attempts, backoff, logged,
                 up, claim, maint, req, bounds, history>>

\* A store error in resolveChat, InsertCampaignOutbound or ChatByID: the
\* attempt fails before the provider was called.
StoreError(a) ==
  /\ "db" \in Faults /\ pc[a] \in {"resolve", "send"}
  /\ Fails(a, "transient")
  /\ UNCHANGED <<store, up, maint, req, bounds, history>>

\* The provider accepts the message for the claimed row.
Accepted(a) ==
  LET r == claim[a].row IN
  /\ delivered' = [delivered EXCEPT ![r] = @ + 1]
  /\ bodiesOut' = [bodiesOut EXCEPT ![r[1]] = @ \cup {claim[a].body}]

\* Deliver's sender.Send: accepted; refused (for good, or for now); or
\* accepted by the provider although the call returns an error.
Send(a) ==
  /\ pc[a] = "send"
  /\ \/ Accepted(a) /\ pc' = [pc EXCEPT ![a] = "stamp"] /\ UNCHANGED <<claim, lostAck>>
     \/ /\ "reject" \in Faults
        /\ \E e \in {"transient", "permanent"} : Fails(a, e)
        /\ UNCHANGED <<delivered, bodiesOut, lostAck>>
     \/ /\ "ambiguous" \in Faults
        /\ Accepted(a) /\ Fails(a, "transient")
        /\ lostAck' = [lostAck EXCEPT ![claim[a].row] = @ + 1]
  /\ UNCHANGED <<store, up, maint, req, bounds, retried, organic, replied>>

\* Deliver's StampOutboundSent; its error is returned, although the message
\* is already out.
StampOutboundSent(a) ==
  /\ pc[a] = "stamp"
  /\ \/ pc' = [pc EXCEPT ![a] = "finalize"] /\ UNCHANGED <<claim, lostAck>>
     \/ /\ "stamp" \in Faults
        /\ Fails(a, "transient")
        /\ lostAck' = [lostAck EXCEPT ![claim[a].row] = @ + 1]
  /\ UNCHANGED <<store, up, maint, req, bounds, delivered, retried, bodiesOut, organic, replied>>

\* (Mutant: an exhausted ladder falls through to the success case.)
NewStatusFallsThrough(cl) ==
  CASE cl.err = "permanent" -> "failed"
    [] cl.err = "transient" /\ HasRetry(cl.n, Ladder) -> "pending"
    [] OTHER -> "sent"

\* What finalize decides to write.
NewStatus(cl) ==
  CASE cl.err = "ok" -> "sent"
    [] cl.err = "transient" /\ HasRetry(cl.n, Ladder) -> "pending"
    [] OTHER -> "failed"

\* finalize's FinalizeAttempt; the UPDATE is keyed on the id alone.  When the
\* transaction fails the error is logged and the row stays 'sending'.
FinalizeAttempt(a) ==
  LET r == claim[a].row
      s == NewStatus(claim[a])
  IN  /\ pc[a] = "finalize"
      /\ \/ /\ row' = IF row[r] = "absent" THEN row ELSE [row EXCEPT ![r] = s]
            /\ backoff' = [backoff EXCEPT ![r] = (s = "pending")]
            /\ pc' = [pc EXCEPT ![a] = "counts"]
            /\ UNCHANGED claim
         \/ /\ "db" \in Faults
            /\ pc' = [pc EXCEPT ![a] = "idle"]
            /\ claim' = [claim EXCEPT ![a] = NoClaim]
            /\ UNCHANGED <<row, backoff>>
      /\ UNCHANGED <<status, body, acct, schedule, attempts, logged, chat,
                     up, maint, req, bounds, history>>

\* completeIfDone's first call, CampaignRecipientCounts; an error ends it.
CountRecipients(a) ==
  /\ pc[a] = "counts"
  /\ \/ Drained(claim[a].row[1]) /\ pc' = [pc EXCEPT ![a] = "complete"] /\ UNCHANGED claim
     \/ /\ ~Drained(claim[a].row[1]) \/ "db" \in Faults
        /\ pc' = [pc EXCEPT ![a] = "idle"]
        /\ claim' = [claim EXCEPT ![a] = NoClaim]
  /\ UNCHANGED <<store, up, maint, req, bounds, history>>

\* completeIfDone's second call: SetCampaignStatus(completed), which checks
\* the transition but not the counts.  An error is logged.
CompleteIfDone(a) ==
  /\ pc[a] = "complete"
  /\ SetCampaignStatus(claim[a].row[1], "completed") \/ StatusStays
  /\ pc' = [pc EXCEPT ![a] = "idle"]
  /\ claim' = [claim EXCEPT ![a] = NoClaim]
  /\ UNCHANGED <<body, acct, schedule, row, attempts, backoff, logged, chat,
                 up, maint, req, bounds, history>>

----------------------------------------------------------------------------
(* Scheduler.runMaintenance, in the goroutine that also runs the ticks: it  *)
(* and the workers never overlap.                                           *)

\* (Mutant: the comparison with now is turned round.)
NotYetDueCampaigns == {c \in Campaigns : status[c] = "scheduled" /\ schedule[c] = "future"}
DueScheduledCampaigns == {c \in Campaigns : status[c] = "scheduled" /\ schedule[c] = "due"}

\* The list of due campaigns is read once; when that fails the pass goes on
\* without it.
MaintStart ==
  /\ up /\ MaintIdle /\ WorkersIdle
  /\ \/ maint' = [maint EXCEPT !.pc = "promote", !.todo = DueScheduledCampaigns]
     \/ "db" \in Faults /\ maint' = [maint EXCEPT !.pc = "promote", !.todo = {}]
  /\ UNCHANGED <<store, up, pc, claim, req, bounds, history>>

\* SetCampaignStatus(running) on one campaign of the list read before.
MaintPromote(c) ==
  /\ maint.pc = "promote" /\ c \in maint.todo
  /\ SetCampaignStatus(c, "running") \/ StatusStays
  /\ maint' = [maint EXCEPT !.todo = @ \ {c}]
  /\ UNCHANGED <<body, acct, schedule, row, attempts, backoff, logged, chat,
                 up, pc, claim, req, bounds, history>>

\* RunningCampaignIDs; an error ends the pass.
MaintSweep ==
  /\ maint.pc = "promote" /\ maint.todo = {}
  /\ \/ maint' = [maint EXCEPT !.pc = "sweep", !.todo = {c \in Campaigns : status[c] = "running"}]
     \/ "db" \in Faults /\ maint' = NoMaint
  /\ UNCHANGED <<store, up, pc, claim, req, bounds, history>>

\* completeIfDone's counts for one campaign of that list.
MaintCount(c) ==
  /\ maint.pc = "sweep" /\ c \in maint.todo
  /\ \/ maint' = [maint EXCEPT !.todo = @ \ {c}, !.c = c,
                    !.pc = IF Drained(c) THEN "complete" ELSE "sweep"]
     \/ "db" \in Faults /\ maint' = [maint EXCEPT !.todo = @ \ {c}, !.c = c]
  /\ UNCHANGED <<store, up, pc, claim, req, bounds, history>>

MaintComplete ==
  /\ maint.pc = "complete"
  /\ SetCampaignStatus(maint.c, "completed") \/ StatusStays
  /\ maint' = [maint EXCEPT !.pc = "sweep"]
  /\ UNCHANGED <<body, acct, schedule, row, attempts, backoff, logged, chat,
                 up, pc, claim, req, bounds, history>>

MaintEnd ==
  /\ maint.pc = "sweep" /\ maint.todo = {}
  /\ maint' = NoMaint
  /\ UNCHANGED <<store, up, pc, claim, req, bounds, history>>

\* checkDisconnects' AutoPauseCampaignsForAccount, in the same goroutine.
AutoPauseCampaigns(a) ==
  /\ "autopause" \in Ops /\ up /\ MaintIdle /\ WorkersIdle
  /\ requests < MaxRequests
  /\ status' = [c \in Campaigns |->
       IF acct[c] = a /\ status[c] = "running" THEN "paused" ELSE status[c]]
  /\ status' # status
  /\ requests' = requests + 1
  /\ UNCHANGED <<body, acct, schedule, row, attempts, backoff, logged, chat,
                 process, crashes, history>>

\* PruneCampaignSendLog: entries past the seven-day retention go.  An attempt
\* in flight is never that old.
PruneCampaignSendLog ==
  /\ "prune" \in Ops /\ up /\ MaintIdle /\ WorkersIdle
  /\ logged # {}
  /\ \E old \in SUBSET logged : logged' = logged \ old
  /\ UNCHANGED <<status, body, acct, schedule, row, attempts, backoff, chat,
                 process, bounds, history>>

----------------------------------------------------------------------------
(* The operator's HTTP handlers.  Pause, resume, stop, create and duplicate *)
(* change state in one store call; the others check something they read and *)
(* write in a later call.                                                   *)

Request(op) ==
  /\ up /\ op \in Ops /\ requests < MaxRequests
  /\ requests' = requests + 1

CreateCampaign(c, a, b) ==
  /\ Request("create") /\ status[c] = "absent"
  /\ status' = [status EXCEPT ![c] = "draft"]
  /\ acct' = [acct EXCEPT ![c] = a]
  /\ body' = [body EXCEPT ![c] = b]
  /\ UNCHANGED <<schedule, row, attempts, backoff, logged, chat, process, crashes, history>>

\* campaignStatusTransition: handlePause/Resume/StopCampaign.
CampaignStatusTransition(op, c) ==
  /\ Request(op)
  /\ LET to == CASE op = "pause" -> "paused" [] op = "resume" -> "running"
                 [] OTHER -> "cancelled"
     IN  /\ Exists(c) /\ CanTransition(status[c], to)
         /\ SetCampaignStatus(c, to)
  /\ UNCHANGED <<body, acct, schedule, row, attempts, backoff, logged, chat,
                 process, crashes, history>>

\* DuplicateCampaign: a fresh draft with the source's pending and failed rows.
DuplicateCampaign(src, dst) ==
  /\ Request("duplicate") /\ Exists(src) /\ status[dst] = "absent"
  /\ status' = [status EXCEPT ![dst] = "draft"]
  /\ acct' = [acct EXCEPT ![dst] = acct[src]]
  /\ body' = [body EXCEPT ![dst] = body[src]]
  /\ row' = [r \in Rows |->
       IF r[1] = dst /\ row[<<src, r[2]>>] \in {"pending", "failed"} THEN "pending" ELSE row[r]]
  /\ UNCHANGED <<schedule, attempts, backoff, logged, chat, process, crashes, history>>

\* The check each read-then-write handler makes before its write.
Admits(op, c) ==
  CASE op = "start"    -> Has(c, "pending")
    [] op = "content"  -> CanEditContent(Cardinality({r \in RowsOf(c) : row[r] = "sent"}))
    [] op \in {"schedule", "replace"} -> CanEditPacing(status[c])
    [] op = "retry"    -> ~IsTerminal(status[c])
    [] op = "delete"   -> status[c] \notin {"running", "paused"}

ReadRequest(o, op, c) ==
  /\ Request(op) /\ req[o] = NoReq
  /\ Exists(c) /\ Admits(op, c)
  /\ req' = [req EXCEPT ![o] =
       [op |-> op, c |-> c,
        to |-> IF schedule[c] = "future" THEN "scheduled" ELSE "running"]]
  /\ UNCHANGED <<store, up, pc, claim, maint, crashes, history>>

Writes(o, op) == req[o] # NoReq /\ req[o].op = op /\ req' = [req EXCEPT ![o] = NoReq]

\* handleStartCampaign's SetCampaignStatus; an invalid transition is a 409.
WriteStart(o) ==
  /\ Writes(o, "start")
  /\ SetCampaignStatus(req[o].c, req[o].to)
  /\ UNCHANGED <<body, acct, schedule, row, attempts, backoff, logged, chat,
                 up, pc, claim, maint, bounds, history>>

\* handleUpdateCampaign's UpdateCampaign: message_body and account_id, no
\* condition on the state it finds.
WriteContent(o) ==
  /\ Writes(o, "content")
  /\ \E b \in Bodies, a \in Accounts :
       /\ body' = [body EXCEPT ![req[o].c] = b]
       /\ acct' = [acct EXCEPT ![req[o].c] = a]
  /\ UNCHANGED <<status, schedule, row, attempts, backoff, logged, chat,
                 up, pc, claim, maint, bounds, history>>

\* ... and schedule_at, which a PATCH may also clear.
WriteSchedule(o) ==
  /\ Writes(o, "schedule")
  /\ \E t \in {"none", "future", "due"} : schedule' = [schedule EXCEPT ![req[o].c] = t]
  /\ UNCHANGED <<status, body, acct, row, attempts, backoff, logged, chat,
                 up, pc, claim, maint, bounds, history>>

\* ReplaceCampaignRecipients with the identities S: pending rows outside S
\* are deleted (their ledger entries by ON DELETE CASCADE), missing ones are
\* inserted; a deleted campaign fails the foreign key.
WriteRecipients(o) ==
  LET c == req[o].c IN
  /\ Writes(o, "replace")
  /\ \E S \in SUBSET Identities :
       LET gone  == {r \in RowsOf(c) : row[r] = "pending" /\ r[2] \notin S}
           fresh == {r \in RowsOf(c) : row[r] = "absent" /\ r[2] \in S /\ Exists(c)}
       IN  /\ row' = [r \in Rows |-> IF r \in gone THEN "absent"
                                     ELSE IF r \in fresh THEN "pending" ELSE row[r]]
           /\ attempts' = [r \in Rows |-> IF r \in gone THEN 0 ELSE attempts[r]]
           /\ backoff' = [r \in Rows |-> backoff[r] /\ r \notin gone]
           /\ logged' = logged \ gone
  /\ UNCHANGED <<status, body, acct, schedule, chat, up, pc, claim, maint, bounds, history>>

\* RetryFailedRecipients on the selected failed rows.
WriteRetry(o) ==
  /\ Writes(o, "retry")
  /\ \E S \in SUBSET {r \in RowsOf(req[o].c) : row[r] = "failed"} :
       /\ row' = [r \in Rows |-> IF r \in S THEN "pending" ELSE row[r]]
       /\ attempts' = [r \in Rows |-> IF r \in S THEN 0 ELSE attempts[r]]
       /\ backoff' = [r \in Rows |-> backoff[r] /\ r \notin S]
       /\ retried' = [r \in Rows |-> IF r \in S THEN retried[r] + 1 ELSE retried[r]]
  /\ UNCHANGED <<status, body, acct, schedule, logged, chat, up, pc, claim, maint, bounds,
                 delivered, lostAck, bodiesOut, organic, replied>>

\* (Mutant: the ledger is not consulted.)
MayDeleteAny(c) == Exists(c)
MayDelete(c) == Exists(c) /\ logged \cap RowsOf(c) = {}

\* DeleteCampaign: refused while the send ledger has an entry; the rows go
\* with the campaign.
WriteDelete(o) ==
  LET c == req[o].c IN
  /\ Writes(o, "delete")
  /\ \/ /\ MayDelete(c)
        /\ status' = [status EXCEPT ![c] = "deleted"]
        /\ row' = [r \in Rows |-> IF r[1] = c THEN "absent" ELSE row[r]]
     \/ /\ ~MayDelete(c)
        /\ UNCHANGED <<status, row>>
  /\ UNCHANGED <<body, acct, schedule, attempts, backoff, logged, chat,
                 up, pc, claim, maint, bounds, history>>

----------------------------------------------------------------------------
(* The environment: replies, time, crashes.                                 *)

\* (Mutant: a row already being sent is skipped too.)
SuppressedInFlight(a, i) ==
  {r \in Rows : /\ a \in ColdAccounts /\ r[2] = i /\ row[r] \in {"pending", "sending"}
                /\ acct[r[1]] = a /\ status[r[1]] = "running"}

\* suppressPendingForIdentity.
Suppressed(a, i) ==
  {r \in Rows : /\ a \in ColdAccounts /\ r[2] = i /\ row[r] = "pending"
                /\ acct[r[1]] = a /\ status[r[1]] = "running"}

\* A new message from identity i on account a.  On WhatsApp and the simulator
\* (UpsertInbound) the chat is created or graduates to 'open' and, in the same
\* transaction, the identity's pending rows in the account's running campaigns
\* are skipped; the ingest of the other channels only has the chat.
UpsertInbound(a, i) ==
  /\ "reply" \in Ops /\ up
  /\ chat' = [chat EXCEPT ![<<a, i>>] = "open"]
  /\ row' = [r \in Rows |-> IF r \in Suppressed(a, i) THEN "skipped" ELSE row[r]]
  /\ replied' = replied \cup {<<a, i>>}
  /\ organic' = IF chat[<<a, i>>] = "none" THEN organic \cup {<<a, i>>} ELSE organic
  /\ UNCHANGED <<status, body, acct, schedule, attempts, backoff, logged, process, bounds,
                 delivered, lostAck, retried, bodiesOut>>

\* now reaches a row's next_attempt_at, or a campaign's schedule_at.
BackoffElapses(r) ==
  /\ backoff[r]
  /\ backoff' = [backoff EXCEPT ![r] = FALSE]
  /\ UNCHANGED <<status, body, acct, schedule, row, attempts, logged, chat,
                 process, bounds, history>>

ScheduleArrives(c) ==
  /\ schedule[c] = "future"
  /\ schedule' = [schedule EXCEPT ![c] = "due"]
  /\ UNCHANGED <<status, body, acct, row, attempts, backoff, logged, chat,
                 process, bounds, history>>

\* The process dies (or its context is cancelled): the store survives.
Crash ==
  /\ up /\ crashes < MaxCrashes
  /\ up' = FALSE
  /\ crashes' = crashes + 1
  /\ pc' = [a \in Accounts |-> "idle"]
  /\ claim' = [a \in Accounts |-> NoClaim]
  /\ maint' = NoMaint
  /\ req' = [o \in Operators |-> NoReq]
  /\ UNCHANGED <<store, requests, history>>

\* (Mutants: an interrupted send is tried again; or it is left alone.)
ReconcileToPending == row' = [r \in Rows |-> IF row[r] = "sending" THEN "pending" ELSE row[r]]
ReconcileNothing   == row' = row
ReconcileStuckSending == row' = [r \in Rows |-> IF row[r] = "sending" THEN "failed" ELSE row[r]]

\* Scheduler.Start: ReconcileStuckSending before the loop runs; its error is
\* only logged.
Restart ==
  /\ ~up
  /\ up' = TRUE
  /\ \/ ReconcileStuckSending
     \/ "db" \in Faults /\ row' = row
  /\ UNCHANGED <<status, body, acct, schedule, attempts, backoff, logged, chat,
                 pc, claim, maint, req, bounds, history>>

Worker(a) ==
  \/ \E r \in Rows : ClaimNextRecipient(a, r)
  \/ ResolveChat(a) \/ MarkChatCampaignOnly(a) \/ StoreError(a)
  \/ Send(a) \/ StampOutboundSent(a)
  \/ FinalizeAttempt(a) \/ CountRecipients(a) \/ CompleteIfDone(a)

Maintenance ==
  \/ MaintStart \/ MaintSweep \/ MaintComplete \/ MaintEnd
  \/ \E c \in Campaigns : MaintPromote(c) \/ MaintCount(c)

Operator ==
  \/ \E c \in Campaigns, a \in Accounts, b \in Bodies : CreateCampaign(c, a, b)
  \/ \E op \in {"pause", "resume", "stop"}, c \in Campaigns : CampaignStatusTransition(op, c)
  \/ \E src, dst \in Campaigns : DuplicateCampaign(src, dst)
  \/ \E o \in Operators, op \in ReadThenWrite, c \in Campaigns : ReadRequest(o, op, c)
  \/ \E o \in Operators : \/ WriteStart(o) \/ WriteContent(o) \/ WriteSchedule(o)
                          \/ WriteRecipients(o) \/ WriteRetry(o) \/ WriteDelete(o)

Environment ==
  \/ \E a \in Accounts : AutoPauseCampaigns(a)
  \/ PruneCampaignSendLog
  \/ \E a \in Accounts, i \in Identities : UpsertInbound(a, i)
  \/ \E r \in Rows : BackoffElapses(r)
  \/ \E c \in Campaigns : ScheduleArrives(c)
  \/ Crash \/ Restart

Next == (\E a \in Accounts : Worker(a)) \/ Maintenance \/ Operator \/ Environment

Spec == Init /\ [][Next]_vars

\* Fairness.  One goroutine serves the tick and the maintenance ticker in
\* turn (Go's select does not starve a ready case), so a worker with something
\* to do gets its turn again and again although maintenance runs in between;
\* a claim the budget refuses now is allowed once the windows have rolled on.
\* A handler that has read goes on to write, time passes, the process is
\* restarted.  Nothing is assumed of operators, customers, faults or crashes.
Fairness ==
  /\ \A a \in Accounts : SF_vars(Worker(a))
  /\ WF_vars(Maintenance)
  /\ \A o \in Operators : WF_vars(\/ WriteStart(o) \/ WriteContent(o) \/ WriteSchedule(o)
                                  \/ WriteRecipients(o) \/ WriteRetry(o) \/ WriteDelete(o))
  /\ \A r \in Rows : WF_vars(BackoffElapses(r))
  /\ \A c \in Campaigns : WF_vars(ScheduleArrives(c))
  /\ WF_vars(Restart)

FairSpec == Spec /\ Fairness

----------------------------------------------------------------------------
(* Properties.                                                              *)

WorkerPc == {"idle", "resolve", "mark", "send", "stamp", "finalize", "counts", "complete"}
InFlight == {"resolve", "mark", "send", "stamp", "finalize"}
NotYetSent == {"resolve", "mark", "send"}

\* Every variable has the values the tables and the goroutines allow; a
\* worker has a claim exactly while it is inside HandleAccount, and a dead
\* process has neither workers nor requests.
TypeOK ==
  /\ status \in [Campaigns -> CampaignStatus \cup {"absent", "deleted"}]
  /\ body \in [Campaigns -> Bodies]
  /\ acct \in [Campaigns -> Accounts]
  /\ schedule \in [Campaigns -> {"none", "future", "due"}]
  /\ row \in [Rows -> RecipientStatus \cup {"absent"}]
  /\ attempts \in [Rows -> Nat]
  /\ backoff \in [Rows -> BOOLEAN]
  /\ logged \subseteq Rows
  /\ chat \in [Chats -> {"none", "open", "campaign"}]
  /\ up \in BOOLEAN
  /\ pc \in [Accounts -> WorkerPc]
  /\ claim \in [Accounts -> Claims \cup {NoClaim}]
  /\ \A a \in Accounts : pc[a] # "idle" => up /\ claim[a] \in Claims
  /\ maint \in [pc: {"idle", "promote", "sweep", "complete"},
                todo: SUBSET Campaigns, c: Campaigns]
  /\ req \in [Operators -> Requests \cup {NoReq}]
  /\ requests \in Nat /\ crashes \in Nat
  /\ delivered \in [Rows -> Nat]
  /\ lostAck \in [Rows -> Nat]
  /\ retried \in [Rows -> Nat]
  /\ bodiesOut \in [Campaigns -> SUBSET Bodies]
  /\ organic \subseteq Chats /\ replied \subseteq Chats

\* While a worker is between its claim and its finalize, the claimed row is
\* 'sending' in the ledger and no other worker holds it.  FinalizeAttempt
\* updates by id alone, so only this keeps it from overwriting an outcome
\* somebody else recorded.
ClaimsAreExclusive ==
  \A a \in Accounts : pc[a] \in InFlight =>
    /\ row[claim[a].row] = "sending"
    /\ claim[a].row \in logged
    /\ \A b \in Accounts \ {a} : pc[b] \in InFlight => claim[b].row # claim[a].row

\* Every delivery of a row beyond the first is paid for by an operator's
\* explicit retry or by an acceptance that Deliver reported as an error:
\* crashes, store errors, pauses, replaced recipient lists and the automatic
\* retry ladder never deliver a message twice.
DuplicatesAreAccountedFor ==
  \A r \in Rows : delivered[r] <= 1 + lostAck[r] + retried[r]

\* The inductive strengthening of it.  A row the engine may still claim has
\* no delivery that nobody accounts for; a worker past the provider call
\* carries the one delivery its claim stands for in its outcome; a campaign
\* that was never created has no rows.
Settled(r) == delivered[r] <= lostAck[r] + retried[r]

RowsSettled ==
  \A r \in Rows :
    row[r] = "pending" \/ (row[r] = "absent" /\ status[r[1]] # "deleted") => Settled(r)

WorkersSettled ==
  \A a \in Accounts :
    /\ pc[a] \in NotYetSent \cup {"stamp"} => claim[a].err = "ok"
    /\ pc[a] \in NotYetSent => Settled(claim[a].row)
    /\ pc[a] = "stamp" => delivered[claim[a].row] >= 1
    /\ pc[a] = "finalize" => IF claim[a].err = "ok" THEN delivered[claim[a].row] >= 1
                                                    ELSE Settled(claim[a].row)

FreshIsEmpty == \A r \in Rows : status[r[1]] = "absent" => row[r] = "absent"

Accounting == RowsSettled /\ WorkersSettled /\ FreshIsEmpty

\* At-most-once as the claim's comment states it, with no exceptions.  (The
\* code breaks this one: README, section 5.)
AtMostOnce == \A r \in Rows : retried[r] = 0 => delivered[r] <= 1

\* A row shown as 'sent' was really accepted by the provider.
SentWasDelivered == \A r \in Rows : row[r] = "sent" => delivered[r] >= 1

\* 'sent' and 'skipped' are final: no late finalize, reconcile, retry or
\* recipient replacement takes a row out of them (deleting its campaign does).
OutcomeIsFinal ==
  [][\A r \in Rows : row[r] \in {"sent", "skipped"} =>
       row'[r] = row[r] \/ status'[r[1]] = "deleted"]_vars

\* A stopped or completed campaign stays so whatever was decided before: no
\* start, promotion, completion or pause that read an older status revives it.
TerminalIsFinal ==
  [][\A c \in Campaigns : IsTerminal(status[c]) => status'[c] \in {status[c], "deleted"}]_vars

\* A completed campaign has nothing left pending or mid-send: nothing would
\* ever send it.  (The code breaks this one: README, section 5.)
CompletedIsDrained ==
  \A c \in Campaigns :
    status[c] = "completed" => \A r \in RowsOf(c) : row[r] \notin {"pending", "sending"}

\* A completed campaign has no send whose outcome is still open, not even one
\* whose finalize failed: only a restart may settle those.  (As long as the
\* campaign stays with its account: README, section 5.)
CompletedIsSettled ==
  \A c \in Campaigns : status[c] = "completed" => \A r \in RowsOf(c) : row[r] # "sending"

\* A chat the customer opened is never hidden by a campaign.
OrganicChatsStayVisible == \A k \in organic : chat[k] = "open"

\* A chat the customer has replied in is not hidden.  (The code breaks this
\* one: README, section 5.)
RepliedChatsAreVisible == \A k \in replied : chat[k] # "campaign"

\* Body and account of a campaign do not change once a message has gone out.
\* (The code breaks this one: README, section 5.)
ContentIsFrozen ==
  [][\A c \in Campaigns :
       body'[c] # body[c] \/ acct'[c] # acct[c] => bodiesOut[c] = {}]_vars

\* A duplicate takes over recipients that were never contacted.  (The code
\* breaks this one: README, section 5.)
CopiesAreUncontacted ==
  [][\A src, dst \in Campaigns : DuplicateCampaign(src, dst) =>
       \A r \in RowsOf(dst) : row'[r] = "pending" => delivered[<<src, r[2]>>] = 0]_vars

\* A deleted campaign never delivered anything, where the ledger is kept, no
\* operator retries and no acknowledgement is lost (README, section 5).
DeletedNeverSent ==
  \A c \in Campaigns : status[c] = "deleted" => \A r \in RowsOf(c) : delivered[r] = 0

\* A running campaign does not stay running for ever once operators leave it
\* alone: interrupted sends are reconciled, retries end, and it completes.
RunningEnds ==
  \A c \in Campaigns : status[c] = "running" ~> status[c] # "running"

\* A scheduled campaign whose time has come is started (or called off).
DueCampaignsStart ==
  \A c \in Campaigns :
    status[c] = "scheduled" /\ schedule[c] = "due" ~> status[c] # "scheduled" \/ schedule[c] # "due"

=============================================================================

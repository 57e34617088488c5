------------------------------ MODULE Telegram ------------------------------
(***************************************************************************)
(* One Telegram bot in polling mode: operators connect it, replace its     *)
(* token, check it and disconnect it by concurrent requests; the poller    *)
(* manager keeps at most one session for it; a session fetches updates     *)
(* from Telegram, ingests each and advances the stored offset.  Telegram   *)
(* forgets an update once a session asks for a later one.                  *)
(*                                                                         *)
(* A request, a session and the boot-time reconcile are processes; every   *)
(* store call, every call to Telegram and every critical section of the    *)
(* manager's mutex is one atomic step.                                     *)
(***************************************************************************)
EXTENDS Naturals, FiniteSets

CONSTANTS
  Requests,    \* HTTP requests in progress at once
  Boot,        \* the goroutine of Manager.Start
  Sessions,    \* poller sessions alive or awaited at once (bound)
  NoOne,
  Ops, Faults, \* what may happen in the instance
  Ignored,     \* updates that carry nothing to ingest
  MaxUpdates, MaxVersion, MaxEvents   \* bounds: updates, stored tokens, faults

AllOps    == {"replace", "check", "delete", "revoke"}
AllFaults == {"db", "net", "crash", "lookup"}

ASSUME TelegramAssumption ==
  /\ Boot \notin Requests /\ NoOne \notin Requests \cup {Boot} \cup Sessions
  /\ Ops \subseteq AllOps /\ Faults \subseteq AllFaults
  /\ MaxUpdates \in Nat /\ MaxVersion \in Nat /\ MaxEvents \in Nat
  /\ Ignored \subseteq 1..MaxUpdates

Callers == Requests \cup {Boot}

VARIABLES
  acct,      \* tg_accounts and tg_credentials: [st, live, ver]; ver 0: no token
  offset,    \* tg_poll_state: highest update processed, 0 without a row
  stored,    \* updates whose message is stored
  armed,     \* updates handed to automation
  drafted,   \* updates whose message has a draft
  reg,       \* the session in Manager.bots, or NoOne
  mu,        \* who holds the manager's mutex across a wait
  ses,       \* sessions: [pc, ver, token, cancelled, next, last]
  call,      \* requests and the boot pass: [pc, spec, old, deletes]
  issued,    \* tokens stored so far; the n-th is token and version n
  revoked,   \* Telegram rejects token n iff n <= revoked
  sent,      \* updates Telegram has for the bot
  confirmed, \* updates Telegram has forgotten
  events,
  (* History, read by no action. *)
  settled,   \* updates given up after a failed draft lookup
  missed,    \* a listing or a write failed, or a delete or the boot pass crossed
             \* another request
  leftOut    \* a listing left out a bot that has a token

store    == <<acct, offset, stored, armed, drafted>>
manager  == <<reg, mu>>
telegram == <<issued, revoked, sent, confirmed>>
vars     == <<store, manager, ses, call, telegram, events, settled, missed, leftOut>>

Idle   == [pc |-> "idle", spec |-> 0, old |-> NoOne, deletes |-> FALSE]
AtBoot == [Idle EXCEPT !.pc = "list"]
Over   == [pc |-> "done", ver |-> 0, token |-> 0, cancelled |-> FALSE, next |-> 0, last |-> 0]

Init ==
  /\ acct = [st |-> "none", live |-> FALSE, ver |-> 0] /\ offset = 0
  /\ stored = {} /\ armed = {} /\ drafted = {}
  /\ reg = NoOne /\ mu = NoOne
  /\ ses = [s \in Sessions |-> Over]
  /\ call = [c \in Callers |-> IF c = Boot THEN AtBoot ELSE Idle]
  /\ issued = 0 /\ revoked = 0 /\ sent = 0 /\ confirmed = 0
  /\ events = 0 /\ settled = {} /\ missed = FALSE /\ leftOut = FALSE

Event    == events < MaxEvents /\ events' = events + 1
Fault(f) == f \in Faults /\ Event
Higher(a, b) == IF a > b THEN a ELSE b

----------------------------------------------------------------------------
(* The accounts API.                                                        *)

\* handleCreateTelegramAccount: GetMe accepted the token; ClaimTelegramAccount
\* inserts the account, or claims it again, alive or deleted.
Create(c) ==
  /\ call[c].pc = "idle" /\ issued < MaxVersion
  /\ issued' = issued + 1
  /\ acct' = [st |-> "connecting", live |-> TRUE, ver |-> issued']
  /\ call' = [call EXCEPT ![c] = [Idle EXCEPT !.pc = "list"]]
  /\ UNCHANGED <<offset, stored, armed, drafted, manager, ses, revoked, sent, confirmed, events, settled,
                 missed, leftOut>>

\* handleReplaceTelegramToken: the token changes, the state does not.
Replace(c) ==
  /\ "replace" \in Ops /\ call[c].pc = "idle" /\ acct.live /\ issued < MaxVersion
  /\ issued' = issued + 1
  /\ acct' = [acct EXCEPT !.ver = issued']
  /\ call' = [call EXCEPT ![c] = [Idle EXCEPT !.pc = "list"]]
  /\ UNCHANGED <<offset, stored, armed, drafted, manager, ses, revoked, sent, confirmed, events, settled,
                 missed, leftOut>>

\* Check and retry read the account and its token first ...
Check(c) ==
  /\ "check" \in Ops /\ call[c].pc = "idle" /\ acct.live /\ acct.ver # 0 /\ Event
  /\ call' = [call EXCEPT ![c] = [Idle EXCEPT !.pc = "probe", !.spec = acct.ver]]
  /\ UNCHANGED <<store, manager, ses, telegram, settled, missed, leftOut>>

\* ... then ask GetMe: a dead token is recorded on the account, whatever token
\* it has by then, or the write fails and is ignored.
Probe(c) ==
  /\ call[c].pc = "probe"
  /\ \/ /\ call[c].spec <= revoked
        /\ \/ acct' = [acct EXCEPT !.st = "token_error"] /\ UNCHANGED events
           \/ Fault("db") /\ UNCHANGED acct
        /\ call' = [call EXCEPT ![c] = Idle]
     \/ /\ call[c].spec > revoked
        /\ \/ call' = [call EXCEPT ![c].pc = "list"] /\ UNCHANGED events
           \/ call' = [call EXCEPT ![c] = Idle] /\ Fault("net")
        /\ UNCHANGED acct
  /\ UNCHANGED <<offset, stored, armed, drafted, manager, ses, telegram, settled, missed, leftOut>>

\* ListTelegramPollBots.
Eligible == acct.live /\ acct.ver # 0 /\ acct.st \notin {"token_error", "disconnect_pending"}

\* telegramPollSpecFor, and the listing of Manager.Start.
ListTelegramPollBots(c) ==
  /\ call[c].pc = "list"
  /\ \/ /\ call' = [call EXCEPT ![c] =
             IF Eligible THEN [@ EXCEPT !.pc = "upsert", !.spec = acct.ver]
             ELSE IF c = Boot THEN [@ EXCEPT !.pc = "remove"] ELSE Idle]
        /\ leftOut' = (leftOut \/ (acct.live /\ acct.ver # 0 /\ ~Eligible))
        /\ UNCHANGED <<events, missed>>
     \/ /\ Fault("db")
        /\ call' = [call EXCEPT ![c] = Idle] /\ missed' = TRUE /\ UNCHANGED leftOut
  /\ UNCHANGED <<store, manager, ses, telegram, settled>>

\* (Mutant: the runner is left to find out.)
DeleteUnstopped(c) ==
  /\ "delete" \in Ops /\ call[c].pc = "idle" /\ acct.live /\ acct.ver # 0 /\ Event
  /\ call' = [call EXCEPT ![c] = [Idle EXCEPT !.pc = "pending", !.deletes = TRUE]]
  /\ UNCHANGED <<store, manager, ses, telegram, settled, missed, leftOut>>

\* handleDeleteTelegramAccount reads account and token and removes the runner.
Delete(c) ==
  /\ "delete" \in Ops /\ call[c].pc = "idle" /\ acct.live /\ acct.ver # 0 /\ Event
  /\ call' = [call EXCEPT ![c] = [Idle EXCEPT !.pc = "remove", !.deletes = TRUE]]
  /\ UNCHANGED <<store, manager, ses, telegram, settled, missed, leftOut>>

DisconnectPending(c) ==
  /\ call[c].pc = "pending"
  /\ \/ /\ acct' = [acct EXCEPT !.st = "disconnect_pending"]
        /\ call' = [call EXCEPT ![c].pc = "confirm"] /\ UNCHANGED <<events, missed>>
     \/ /\ Fault("db")
        /\ call' = [call EXCEPT ![c] = Idle] /\ UNCHANGED acct /\ missed' = TRUE
  /\ UNCHANGED <<offset, stored, armed, drafted, manager, ses, telegram, settled, leftOut>>

Running == {s \in Sessions : ses[s].pc # "done"}

\* ConfirmTelegramDisconnect: the token goes, the account is soft-deleted.
ConfirmTelegramDisconnect(c) ==
  /\ call[c].pc = "confirm"
  /\ \/ /\ acct' = IF acct.live THEN [st |-> "disconnected", live |-> FALSE, ver |-> 0]
                                ELSE [acct EXCEPT !.ver = 0]
        /\ missed' = (missed \/ \E d \in Callers \ {c} : call[d].pc # "idle")
        /\ UNCHANGED events
     \/ Fault("db") /\ UNCHANGED acct /\ missed' = TRUE
  /\ call' = [call EXCEPT ![c] = Idle]
  /\ UNCHANGED <<offset, stored, armed, drafted, manager, ses, telegram, settled, leftOut>>

----------------------------------------------------------------------------
(* The manager.                                                             *)

Cancel(s) == ses' = [ses EXCEPT ![s].cancelled = TRUE]

\* A slot nobody refers to any more stands for the next goroutine.
Free == {s \in Sessions : ses[s].pc = "done" /\ s # reg /\ \A c \in Callers : call[c].old # s}

Spawn(ver) ==
  /\ \E s \in Free : /\ ses' = [ses EXCEPT ![s] = [Over EXCEPT !.pc = "token", !.ver = ver]]
                     /\ reg' = s
  /\ missed' = (missed \/ \E c \in Callers : call[c].deletes /\ call[c].pc # "remove")

\* (Mutant: whatever is registered will do.)
UpsertIfAbsent(c) ==
  /\ call[c].pc = "upsert" /\ mu = NoOne
  /\ call' = [call EXCEPT ![c] = IF reg # NoOne THEN Idle ELSE [@ EXCEPT !.pc = "install"]]
  /\ UNCHANGED <<store, manager, ses, telegram, events, settled, missed, leftOut>>

\* Upsert, first critical section: the same version is already there (running
\* or stopped), or the one that is there is cancelled.
Upsert(c) ==
  /\ call[c].pc = "upsert" /\ mu = NoOne
  /\ \/ /\ reg # NoOne /\ ses[reg].ver = call[c].spec
        /\ call' = [call EXCEPT ![c] = Idle] /\ UNCHANGED ses
     \/ /\ reg # NoOne /\ ses[reg].ver # call[c].spec
        /\ Cancel(reg)
        /\ call' = [call EXCEPT ![c].pc = "await", ![c].old = reg]
     \/ /\ reg = NoOne
        /\ call' = [call EXCEPT ![c].pc = "install"] /\ UNCHANGED ses
  /\ UNCHANGED <<store, manager, telegram, events, settled, missed, leftOut>>

\* <-old.done, in Upsert and in Remove.
Await(c) ==
  /\ call[c].pc = "await" /\ ses[call[c].old].pc = "done"
  /\ call' = [call EXCEPT ![c].pc = IF call[c].deletes THEN "pending"
                                    ELSE IF call[c].spec = 0 THEN "idle" ELSE "install",
                          ![c].old = NoOne]
  /\ UNCHANGED <<store, manager, ses, telegram, events, settled, missed, leftOut>>

\* (Mutant: no second look; whatever was registered meanwhile is replaced.)
InstallOver(c) ==
  /\ call[c].pc = "install" /\ mu = NoOne
  /\ Spawn(call[c].spec) /\ call' = [call EXCEPT ![c] = Idle] /\ UNCHANGED mu
  /\ UNCHANGED <<store, telegram, events, settled, leftOut>>

\* Upsert, second critical section: look again, and wait for another one with
\* the mutex held.
Install(c) ==
  /\ call[c].pc = "install" /\ mu = NoOne
  /\ \/ /\ reg # NoOne /\ ses[reg].ver = call[c].spec
        /\ call' = [call EXCEPT ![c] = Idle] /\ UNCHANGED <<manager, ses, missed>>
     \/ /\ reg # NoOne /\ ses[reg].ver # call[c].spec /\ ses[reg].pc # "done"
        /\ Cancel(reg) /\ mu' = c
        /\ call' = [call EXCEPT ![c].pc = "hold", ![c].old = reg] /\ UNCHANGED <<reg, missed>>
     \/ /\ reg # NoOne => ses[reg].ver # call[c].spec /\ ses[reg].pc = "done"
        /\ Spawn(call[c].spec) /\ call' = [call EXCEPT ![c] = Idle] /\ UNCHANGED mu
  /\ UNCHANGED <<store, telegram, events, settled, leftOut>>

Held(c) ==
  /\ call[c].pc = "hold" /\ ses[call[c].old].pc = "done"
  /\ Spawn(call[c].spec) /\ mu' = NoOne
  /\ call' = [call EXCEPT ![c] = Idle]
  /\ UNCHANGED <<store, telegram, events, settled, leftOut>>

\* Remove, called by a delete, and by Reconcile for a bot its list did not
\* have (the list may be older than the bot).
Remove(c) ==
  /\ call[c].pc = "remove" /\ mu = NoOne
  /\ \/ /\ reg # NoOne
        /\ reg' = NoOne /\ Cancel(reg)
        /\ call' = [call EXCEPT ![c].pc = "await", ![c].old = reg]
        /\ missed' = (missed \/ c = Boot)
     \/ /\ reg = NoOne
        /\ call' = [call EXCEPT ![c] = IF call[c].deletes THEN [@ EXCEPT !.pc = "pending"]
                                                               ELSE Idle]
        /\ UNCHANGED <<reg, ses, missed>>
  /\ UNCHANGED <<store, mu, telegram, events, settled, leftOut>>

----------------------------------------------------------------------------
(* A session: Manager.run.                                                  *)

Step(s, to) == ses' = [ses EXCEPT ![s].pc = to]
Again(s)    == ses' = [ses EXCEPT ![s].pc = "poll", ![s].last = 0]
Ends(s)     == ses' = [ses EXCEPT ![s] = [Over EXCEPT !.ver = IF s = reg THEN ses[s].ver ELSE 0]]

\* A cancelled context ends every wait, call and store call of the session,
\* unless what it was about is already done.
Exit(s) ==
  /\ ses[s].pc # "done" /\ ses[s].cancelled
  /\ Ends(s)
  /\ UNCHANGED <<store, manager, call, telegram, events, settled, missed, leftOut>>

\* resolveToken: the token of now, not of the spec; without one, retried.
ResolveToken(s) ==
  /\ ses[s].pc = "token" /\ acct.ver # 0
  /\ ses' = [ses EXCEPT ![s].pc = "webhook", ![s].token = acct.ver]
  /\ UNCHANGED <<store, manager, call, telegram, events, settled, missed, leftOut>>

\* deleteWebhookUntilSuccess.
DeleteWebhook(s) ==
  /\ ses[s].pc = "webhook"
  /\ Step(s, IF ses[s].token <= revoked THEN "dead" ELSE "mark")
  /\ UNCHANGED <<store, manager, call, telegram, events, settled, missed, leftOut>>

\* The state becomes 'connected', whatever it was; an error is logged.
MarkConnected(s) ==
  /\ ses[s].pc = "mark"
  /\ \/ acct' = [acct EXCEPT !.st = "connected"] /\ UNCHANGED events
     \/ Fault("db") /\ UNCHANGED acct
  /\ Step(s, "offset")
  /\ UNCHANGED <<offset, stored, armed, drafted, manager, call, telegram, settled, missed, leftOut>>

\* Without an offset, or with a failed read, whatever is queued.
ReadOffset(s) ==
  /\ ses[s].pc = "offset"
  /\ \/ /\ ses' = [ses EXCEPT ![s].pc = "poll", ![s].next = IF offset = 0 THEN 0 ELSE offset + 1]
        /\ UNCHANGED events
     \/ /\ Fault("db")
        /\ ses' = [ses EXCEPT ![s].pc = "poll", ![s].next = 0]
  /\ UNCHANGED <<store, manager, call, telegram, settled, missed, leftOut>>

Asked(s) == IF ses[s].next = 0 THEN confirmed ELSE Higher(confirmed, ses[s].next - 1)

\* getUpdates: what is before `next' is forgotten, the rest comes as a batch.
GetUpdates(s) ==
  /\ ses[s].pc = "poll" /\ ses[s].token > revoked
  /\ Asked(s) < sent \/ Asked(s) > confirmed
  /\ confirmed' = Asked(s)
  /\ ses' = [ses EXCEPT ![s] = IF confirmed' < sent
       THEN [@ EXCEPT !.pc = "process", !.next = confirmed' + 1, !.last = sent] ELSE @]
  /\ UNCHANGED <<store, manager, call, issued, revoked, sent, events, settled, missed, leftOut>>

\* 401: the session gives up for good.  Other failures: it tries again, and
\* says so on the account after the fifth, or at once for a 409.
GetUpdatesFails(s) ==
  /\ ses[s].pc = "poll"
  /\ \/ /\ ses[s].token <= revoked
        /\ Step(s, "dead") /\ UNCHANGED <<acct, events>>
     \/ /\ ses[s].token > revoked /\ Fault("net")
        /\ acct' = [acct EXCEPT !.st = "webhook_error"] /\ UNCHANGED ses
  /\ UNCHANGED <<offset, stored, armed, drafted, manager, call, telegram, settled, missed, leftOut>>

\* recordTokenError.
RecordTokenError(s) ==
  /\ ses[s].pc = "dead"
  /\ \/ acct' = [acct EXCEPT !.st = "token_error"] /\ UNCHANGED events
     \/ Fault("db") /\ UNCHANGED acct
  /\ Ends(s)
  /\ UNCHANGED <<offset, stored, armed, drafted, manager, call, telegram, settled, missed, leftOut>>

\* IngestTelegramInbound, one transaction on two unique keys; a failure ends
\* the batch, and `next' stays.
Ingest(s) ==
  LET u == ses[s].next IN
  /\ ses[s].pc = "process"
  /\ \/ /\ u \in Ignored
        /\ Step(s, "advance") /\ UNCHANGED <<stored, events>>
     \/ /\ u \notin Ignored
        /\ stored' = stored \cup {u}
        /\ Step(s, IF u \in stored THEN "recheck" ELSE "arm") /\ UNCHANGED events
     \/ /\ u \notin Ignored /\ Fault("db")
        /\ Again(s) /\ UNCHANGED stored
  /\ UNCHANGED <<acct, offset, armed, drafted, manager, call, telegram, settled, missed, leftOut>>

\* (Mutant: a duplicate is settled.)
SkipDuplicate(s) ==
  /\ ses[s].pc = "recheck" /\ Step(s, "advance")
  /\ UNCHANGED <<store, manager, call, telegram, events, settled, missed, leftOut>>

\* reenqueueMissingDraft: a message with a draft, whoever asked for it, is not
\* handed over again; a failed lookup is tolerated.
ReenqueueMissingDraft(s) ==
  /\ ses[s].pc = "recheck"
  /\ \/ /\ Step(s, IF ses[s].next \in drafted THEN "advance" ELSE "arm")
        /\ UNCHANGED <<events, settled>>
     \/ Fault("lookup") /\ Step(s, "advance") /\ settled' = settled \cup {ses[s].next}
  /\ UNCHANGED <<store, manager, call, telegram, missed, leftOut>>

ArmAutomation(s) ==
  /\ ses[s].pc = "arm"
  /\ \/ armed' = armed \cup {ses[s].next} /\ Step(s, "advance") /\ UNCHANGED events
     \/ Fault("db") /\ Again(s) /\ UNCHANGED armed
  /\ UNCHANGED <<acct, offset, stored, drafted, manager, call, telegram, settled, missed, leftOut>>

\* AdvanceTelegramPollOffset never goes back.
Advance(s) ==
  /\ ses[s].pc = "advance"
  /\ \/ /\ offset' = Higher(offset, ses[s].next)
        /\ ses' = IF ses[s].next < ses[s].last
             THEN [ses EXCEPT ![s].pc = "process", ![s].next = @ + 1]
             ELSE [ses EXCEPT ![s].pc = "poll", ![s].next = @ + 1, ![s].last = 0]
        /\ UNCHANGED events
     \/ Fault("db") /\ Again(s) /\ UNCHANGED offset
  /\ UNCHANGED <<acct, stored, armed, drafted, manager, call, telegram, settled, missed, leftOut>>

----------------------------------------------------------------------------
(* The world.                                                               *)

CustomerWrites ==
  /\ acct.st # "none" /\ sent < MaxUpdates
  /\ sent' = sent + 1
  /\ UNCHANGED <<store, manager, ses, call, issued, revoked, confirmed, events, settled, missed,
                 leftOut>>

\* A draft for a message that is, or was when the draft was begun, the newest
\* of its chat: a job that an earlier message armed, or a manual Suggest.
Generate ==
  /\ Event
  /\ \E u \in stored \ drafted : drafted' = drafted \cup {u}
  /\ UNCHANGED <<acct, offset, stored, armed, manager, ses, call, telegram, settled, missed, leftOut>>

\* The operator revokes the token at BotFather.
Revoke ==
  /\ "revoke" \in Ops /\ revoked < issued /\ Event
  /\ revoked' = issued
  /\ UNCHANGED <<store, manager, ses, call, issued, sent, confirmed, settled, missed, leftOut>>

\* The process stops, with a Close of the manager or without, and boots.
CrashRestart ==
  /\ Fault("crash")
  /\ reg' = NoOne /\ mu' = NoOne
  /\ ses' = [s \in Sessions |-> Over]
  /\ call' = [c \in Callers |-> IF c = Boot THEN AtBoot ELSE Idle]
  /\ UNCHANGED <<store, telegram, settled, missed, leftOut>>

Request(c) == Create(c) \/ Replace(c) \/ Check(c) \/ Delete(c)
Serve(c) ==
  \/ Probe(c) \/ ListTelegramPollBots(c) \/ DisconnectPending(c) \/ ConfirmTelegramDisconnect(c)
  \/ Upsert(c) \/ Await(c) \/ Install(c) \/ Held(c) \/ Remove(c)
Run(s) ==
  \/ ResolveToken(s) \/ DeleteWebhook(s) \/ MarkConnected(s) \/ ReadOffset(s) \/ GetUpdates(s)
  \/ GetUpdatesFails(s) \/ RecordTokenError(s) \/ Ingest(s) \/ ReenqueueMissingDraft(s)
  \/ ArmAutomation(s) \/ Advance(s)

Next ==
  \/ \E c \in Requests : Request(c)
  \/ \E c \in Callers : Serve(c)
  \/ \E s \in Sessions : Run(s) \/ Exit(s)
  \/ CustomerWrites \/ Generate \/ Revoke \/ CrashRestart

Spec == Init /\ [][Next]_vars

----------------------------------------------------------------------------
(* Properties.                                                              *)

States == {"none", "connecting", "connected", "webhook_error", "token_error",
           "disconnect_pending", "disconnected"}

\* Every variable has the values its table, map or goroutine allows.
TypeOK ==
  /\ acct \in [st: States, live: BOOLEAN, ver: 0..issued]
  /\ offset \in 0..sent /\ stored \subseteq 1..sent /\ armed \subseteq stored
  /\ drafted \subseteq stored
  /\ reg \in Sessions \cup {NoOne} /\ mu \in Callers \cup {NoOne}
  /\ ses \in [Sessions -> [pc: {"done", "token", "webhook", "mark", "offset", "poll", "dead",
                                "process", "recheck", "arm", "advance"},
                           ver: 0..issued, token: 0..issued, cancelled: BOOLEAN,
                           next: 0..sent + 1, last: 0..sent]]
  /\ call \in [Callers -> [pc: {"idle", "probe", "list", "upsert", "await", "install", "hold",
                                "remove", "pending", "confirm"},
                           spec: 0..issued, old: Sessions \cup {NoOne},
                           deletes: BOOLEAN]]
  /\ issued \in 0..MaxVersion /\ revoked \in 0..issued
  /\ sent \in 0..MaxUpdates /\ confirmed \in 0..sent /\ events \in Nat
  /\ settled \subseteq stored /\ missed \in BOOLEAN /\ leftOut \in BOOLEAN

\* An update Telegram has forgotten was ingested and either handed to automation
\* or has a draft (reenqueueMissingDraft asks for nothing else), through failed
\* store calls, replaced and overlapping sessions, drafts that earlier jobs and
\* operators made, and crashes; unless the lookup of its draft failed.
NothingLost == \A u \in 1..confirmed : u \in Ignored \cup armed \cup drafted \cup settled

\* No session is left running on its own: it is registered, or cancelled and
\* awaited by whoever took it out of the registry.
NoOrphans ==
  \A s \in Running :
    s = reg \/ (ses[s].cancelled /\ \E c \in Callers : call[c].old = s)

Quiet == \A c \in Callers : call[c].pc = "idle"

\* Once no request is in progress, a bot that should be polled has a session,
\* and not one that goes on with a token which was replaced: unless a listing,
\* or a write of a delete, failed, a listing left the bot out (its token was
\* dead, or it was being deleted), or the boot pass or a delete crossed another
\* request (missed, once set, stays set).
CurrentTokenIsPolled ==
  Quiet /\ Eligible /\ ~missed /\ ~leftOut =>
    reg # NoOne /\ (ses[reg].pc = "done" \/ ses[reg].token \in {0, acct.ver})

\* Replacing a dead bot's token revives it: once no request is in progress, a
\* bot whose stored token Telegram accepts has a session that has not stopped,
\* unless the boot pass or a delete crossed another request.  (The code breaks
\* this one: README, section 5.)
ReplacedTokenIsPolled ==
  Quiet /\ acct.live /\ acct.ver > revoked /\ ~missed => reg # NoOne /\ ses[reg].pc # "done"

\* A disconnected bot is not polled, unless another request crossed its delete.
DisconnectedIsQuiet ==
  ~acct.live /\ ~missed => \A s \in Running : ses[s].cancelled
=============================================================================

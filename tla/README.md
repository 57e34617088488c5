# xchats: a TLA+ verification project

xchats is a self-hosted inbox for messaging channels (WhatsApp, Telegram, Meta,
a simulator) with AI-drafted answers, a knowledge base they are written from, a
customer book and bulk campaigns: a Go modular monolith under `backend/`, one
process, SQLite with a single connection or PostgreSQL. This directory holds
TLA+ models of the parts of it where several actors change the same rows or the
same goroutines' state, TLC runs on small instances, and TLAPS proofs for every
size. `PROJECT.json` lists the components, runs, mutants, the map from
definitions to source lines, the findings, the hazards and the theorems.

Every store method is one transaction (`internal/dbx`), so in every module **a
store call is one atomic step, and code that makes several store calls is
several steps**. What was read in one step may be stale in the next; that is
where nearly everything of interest happens. A call that is refused changes
nothing and has no action.

1. [Inventory](#1-inventory) — 2. [Modules](#2-modules) — 3. [Runs](#3-runs) —
4. [Proofs](#4-proofs) — 5. [Further disagreements](#5-further-disagreements) —
6. [Not modelled, and what is left](#6-not-modelled-and-what-is-left)

## 1. Inventory

| Component | State | Operations | What is hard | What makes it correct |
|---|---|---|---|---|
| Campaign engine (`campaign`, `internal/campaign`, `internal/store/campaigns.go`, `internal/httpapi/campaigns.go`) | campaign, recipient and ledger rows, chats, one worker per account, one maintenance sweep | create, edit, start, pause, resume, stop, delete, duplicate, replace recipients, retry; claim, send, finalize, complete; promote, sweep, auto-pause, prune | operators against the sender, crash between claim and finalize, lost acknowledgements, replies during a send | at most one delivery per recipient, outcomes final, completed means done, nothing delivered is deleted |
| Rate limiter (`campaign/budget.go`, `automation/automation.go`, ledger queries) | `campaign_send_log`, limits, pace, quiet hours | claim, forecast, change limits, prune, cascade | window boundaries, lowered caps, hours past midnight, pruning against windows | no window ever holds more attempts than its tier; the interval is kept; the forecast is true |
| Automation engine (`internal/automation`, `internal/store/automation.go`) | settings, debounce and dispatch rows, a channel, a worker pool | arm, claim due, recover, generate, write draft, auto-send | duplicate and lost deliveries, an LLM call between read and write, recovery of live jobs, mode switches | one reply per burst, stale drafts discarded, every message answered |
| Drafts (`internal/httpapi/drafts.go`, `internal/store/read.go`) | `ai_drafts` | suggest, approve, dismiss, reopen | shared with automation | one suggestion, sent once |
| Outbound and work queue (`internal/outbound`, `internal/queue`, `internal/worker`) | in-memory channel, wait group, message rows | publish, deliver, stamp, close | full buffer, close, crash with tasks in memory | a message is handed over once, its state only moves up |
| Webhook ingest (`internal/metaingest`, `internal/store/channels.go`) | chats, messages, the unread badge | upsert, echo, status, arm | duplicates, echo before stamp, reordered statuses, a crash between storing and arming | one row per provider message, stored means handed to automation |
| Telegram poller (`internal/tgpoller`, `internal/httpapi/telegram_accounts.go`) | runner registry, sessions, tokens, offsets | connect, replace, check, delete, upsert, remove, reconcile, poll | requests that cross, sessions that overlap, dead tokens | no update lost, no orphaned session, the right token |
| Knowledge base (`internal/kbstore`) | versioned draft, live rows | stage, delete, approve, discard, direct writes | many writers, gates over two tables, versions | the live rows always build a prompt, no lost edit |
| Imports (`internal/kbimport`, `kbstore/import.go`) | material rows as a queue, the run's synthesis state | submit, claim, extract, synthesize, cancel, recover | crash and recovery of a two-pass job, workers racing to begin pass 2 | pass 2 writes once, on complete evidence, and every run ends |
| Prompt cache (`internal/responsestore/cached.go`) | one cached build per organization and a generation | load, invalidate | a slow load against an invalidation | the next reply has the edit |
| CRM (`internal/store/crm*.go`, `simulator.go`) | customers, identities, notes, follow-ups, tags | CRUD, merge, purge of simulator data | merges of merges, the purge after merges | children hang on people, a merged customer stays merged |

The rest (tunnel, MCP OAuth grants, realtime hub, channel adapters, prompts,
parsing and rendering, settings, users, frontend, evals) is I/O, text
processing, or a single guarded statement; `PROJECT.json` lists each with its
reason, section 6 the ones that were close calls.

**How they interact.** Ingest stores a message, suppresses the sender's pending
campaign rows in the same transaction, and then calls automation's
`OnInboundMessage`; automation and the approve handler insert an outbound row
and publish it to the queue; the campaign worker does *not* use the queue but
calls `outbound.Deliver` itself; the campaign scheduler's ticks and maintenance
share one goroutine; the limiter lives inside the claim's transaction and reads
only the ledger, whose rows hang by foreign keys on recipients and campaigns.
Automation's generation loads the knowledge base through the prompt cache, which
every API write of the live tables invalidates after its commit; approval and
the import's pass 2 write through the same draft. A Telegram session ingests an
update and arms automation before it confirms the update.

## 2. Modules

| Module | Models | EXTENDS / composes |
|---|---|---|
| `CampaignRules`, `Campaign` | status graph, gates, retry ladder; the engine with its operators, replies, crashes | `Campaign` EXTENDS the rules |
| `Budget`, `SendBudget` | limiter arithmetic, quiet hours, forecast; the limiter over time with its ledger | `SendBudget` EXTENDS the arithmetic |
| `Automation` | debounce, dispatch, drafts, auto-send, operators | |
| `WorkQueue`, `Messages` | the in-memory queue; replies through it against webhooks of the same chat | `Messages` EXTENDS the queue |
| `Outbox` | abstract: what delivery promises | `Messages` implements it (`Delivery == INSTANCE Outbox WITH ...`) |
| `Telegram` | one bot: requests, registry, sessions, Telegram's offsets | |
| `Catalog`, `Knowledge` | what the prompt demands of rows; draft, writers, approval, direct writes | `Knowledge` EXTENDS the catalog |
| `PromptCache` | loads, writes, invalidations, generations | |
| `Imports` | submission, the two passes, recovery | |
| `Crm` | customers, merges, child rows, the purge | |
| `CampaignProofs`, `SendBudgetProofs`, `AutomationProofs`, `MessagesProofs`, `KnowledgeProofs`, `TelegramProofs`, `ImportsProofs`, `CrmProofs` | theorems | each EXTENDS its component and TLAPS; `KnowledgeProofs` EXTENDS `Knowledge` and `PromptCache` |
| `MC*` | instances for TLC | each EXTENDS its component |

**Campaign.** `status`, `row`, `attempts`, `backoff`, `logged`, `chat` and so on
are columns; `pc`/`claim` is a worker inside `Runner.HandleAccount`
(`ClaimNextRecipient`, `ResolveChat`, `MarkChatCampaignOnly`, `Send`,
`StampOutboundSent`, `FinalizeAttempt`, `CountRecipients`, `CompleteIfDone`);
`maint` is `runMaintenance`; `req` is an HTTP handler between its check
(`ReadRequest`) and its write (`Write...`). `delivered`, `lostAck`, `retried`,
`bodiesOut`, `organic`, `replied` are history: no action reads them. The
constants `Ops` and `Faults` choose what an instance exercises; the proofs hold
for every choice. Abstracted: which eligible row a claim takes (order, windows
and budget only restrict it), times (a backoff or a schedule is in the future or
not), and rendering. `UpsertInbound`'s suppression applies to cold-capable
channels only, since the other channels' ingest does not call it.

**Budget, SendBudget.** Attempts are ids with integer times; a unit is the
minute of quiet hours. `Budget` is `campaign.Budget` operator for operator
(strict window start, tiers with a cap of zero skipped, the *n*-th newest
attempt deciding when a slot frees), `automation.Window` with `Day` and `Week`
as parameters (`Contains`, past midnight and past the week), and the forecast
(`NextWindowOpen`, `NextAllowedSlot`, `Estimate`). `SendBudget` keeps the
attempts really made (`at`) apart from the ledger rows that survive (`ledger`)
and from those that went with a removed recipient (`dropped`), so a property can
compare them. `ValidateTiers`, `ValidatePace` and the retention pinned to the
widest tier are `BudgetAssumption`. Abstracted: which of the due rows is the
candidate; `pace` and `hours` are those in force for it.

**Automation.** One account. A customer message is a number; a burst is a version
of the chat's debounce row; a dispatch job is `<<chat, n>>`. One draft of the
model is one written *set* of options, since the code writes, supersedes and
claims them together. Generation is the gap between `LoadForResponse` and
`WriteDraft`; a failed model call ends in a holding draft, a failed store call in
`GiveUpOrRetry`. `Suggest` covers both the forced and the first suggestion.
Whether the schedule is open is a free choice in `ClaimDraftForAutoSend`.
The histories `rerun`, `restarted`, `forgotten` and `sendFailed` record the one
event each that a property has to excuse (recovery took a job from 'processing',
a debounce row was deleted, a claimed draft could not be sent); no action reads
them. `forgotten` is the newest message of a chat at the moment its last
hand-over was lost (a crash or a store error before the deadline was armed: the
callers only log it) or its job given up, while no deadline was armed; messages
after it are not excused.

**WorkQueue, Messages, Outbox.** `WorkQueue` is `queue.InMem`: a publisher
inside `Publish` (`offer`), the channel, the workers' tasks, the wait group, the
cancelled context and the closed channel. `Messages` adds one chat: rows of our
messages (`out`), the rows echoes made (`echoed`), customer messages, the badge,
what automation was handed, the worker inside `outbound.Deliver` (`step`), and
webhook requests inside `metaingest.Process` (`hpc`); the provider (`wire`,
`reported`) delivers any event in any order until it sees a 2xx. `Outbox` says
what a reader of the conversation may rely on: a message is stored before it is
handed over, handed over once or never, shows nothing but a failure if the
provider never took it, its state only moves up the ladder of
`AdvanceDeliveryState`, and it is not shown as sent beside its own echo. The refinement maps a message's state to the
column of its row, `handed` to the provider's acceptances and `mirror` to the
echo's row.

**Telegram.** `call` is a request (or the boot pass) between its store calls and
the registry's, `mu` the mutex held across the wait for an old session, `ses` the
sessions with the token they resolved, `offset` the stored row, `confirmed` what
Telegram has forgotten. `drafted` are the messages that have a draft, from an
earlier message's job, from one of their own or from an operator's Suggest
(`Generate`, at any time): a duplicate with a draft is not armed again. `missed`
and `leftOut` record the events the two registry properties excuse.

**Catalog, Knowledge.** A row keeps only what a gate or the catalog compares
(parents, referenced services, zone kinds, whether a text is there). The state is
the live rows, the staged rows, the marks for deletion and `base_version`; an
instance starts with one of several `Scopes`, the entities an organization uses,
because tables of different kinds meet only through the references. Three writes
get past the write-time checks (section 5), and the model makes them like any
other. Two histories record what they did: `gaps`, the parts of the live rows
(services, delivery zones) one of them left unbuildable, until they build again,
and `resaved`, the entities the editor saved over a deletion mark, as long as
they are both staged and marked. No action reads them.

**PromptCache.** A state of the live tables is the number of commits; a load is
between its lookup, its read and its store; a write between its commit and its
`Invalidate`; the command-line tools commit without one (`unseen`). TTL is
nondeterministic expiry.

**Imports.** The rows are the queue: `st`, `attempts`, `syn` are columns, `sub`
a submission between its gate and its last enqueue, `claimed`/`channel`/`proc`
the loop's batch, the channel and the goroutines. `mutateImportParams` is a
compare-and-swap that re-reads, hence one step. `raced`, `early`, `late`,
`applied` are history.

**Crm.** Every write is one transaction. The status stands for all profile
columns (a merge treats them alike); the foreign keys (cascade, set null) are in
the action that deletes. `absorbed`, `clock`, `at` are history.

## 3. Runs

| Run | Property | Meaning |
|---|---|---|
| `send` | `DuplicatesAreAccountedFor` | a second delivery needs an operator's retry or a lost acknowledgement, under every fault and a crash |
| | `SentWasDelivered` | 'sent' is never claimed of a message that was refused |
| | `ClaimsAreExclusive`, `OutcomeIsFinal` | `FinalizeAttempt`, keyed by id alone, never meets a row it does not own, even when an edit moves the campaign to another account |
| | `OrganicChatsStayVisible` | a chat the customer opened is never hidden |
| `lifecycle` | `CompletedIsSettled` | a campaign completes only when no send is open, also after a failed finalize, as long as it stays with its account (section 5) |
| | `DeletedNeverSent` | no campaign that delivered is deleted while the ledger is kept, with two sessions racing, without retries and lost acknowledgements (section 5) |
| | `TerminalIsFinal` | no stale list or handler revives a stopped campaign |
| `campaign_live` | `RunningEnds`, `DueCampaignsStart` | under fairness |
| `send_budget` | `TiersHold`, `IntervalHolds`, `LedgerIsComplete` | limits hold against the attempts really made, through pruning and changed limits |
| | `NextSlotIsEarliest` | the reported time is allowed, and nothing earlier is |
| | `EstimateIsEarliest` | the forecast of one and of two sends, within both sides' hours: reachable, and no other spacing ends sooner; hours are compared with the intervals of the calendar they stand for |
| `automation` | `OneOwner`, `OneReplyPerBurst` | one owner and one reply, unless recovery reran the job |
| | `OneSuggestion`, `SentDraftsHaveMessages` | through every interleaving of workers, approvals, dismissals and manual suggestions |
| | `StaleIsDiscarded` | the version gate holds until a switch to off restarts the versions |
| `automation_live` | `JobsEnd` | under fairness: every job is worked off or given up |
| | `MessagesAreAnswered` | under fairness: a draft takes every message into account, unless the channel is off, the chat's last hand-over was lost, or its job was given up |
| `messages` | `SentOnce` | nothing repeats a send: neither a full queue, a lost answer, a failed stamp nor a crash |
| | `ImplementsOutbox` | the refinement: `Messages` implements `Outbox` |
| | `WaitIsExact` | the wait group is the number of tasks offered, buffered or running, so `Wait` ends and ends no sooner |
| | `UnreadIsHonest` | the badge counts what no person has seen, unless an echo overtook its stamp |
| | `StoredIsArmed` | under fairness: a stored message reaches automation through crashes and redeliveries, unless a delivery of it was acknowledged after a failed lookup (section 5) |
| `telegram` | `NothingLost` | Telegram forgets an update only after it was ingested, and handed over or found with a draft |
| | `NoOrphans` | every running session is registered, or cancelled and awaited |
| | `CurrentTokenIsPolled`, `DisconnectedIsQuiet` | once requests are over the registry agrees with the account |
| `knowledge` | `KBBuilds` | the live rows make a prompt after any sequence of writes and approvals, but for a part one of the three unchecked writes broke and nobody repaired yet (section 5) |
| | `NoSilentOverwrite` | a write on a version never lands on a draft that moved |
| | `ApprovedEditsSurvive` | an approval does not delete what it publishes, unless the editor saved it over its deletion mark (section 5) |
| `prompt_cache` | `NextReplySeesTheWrite`, `CacheMissesOnlyOpenWrites` | a load that starts after an invalidation has the write |
| `imports` | `EvidenceIsComplete` | pass 2 runs on finished materials |
| | `AppliedOnce`, `RunsAreFinal` | it writes once, and no end is overwritten |
| | `RunEnds` | under fairness, with two faults anywhere |
| `crm_purge` | `MergedStaysMerged` | **violated**, see below |

**The violation.** `crm_purge`: a customer made by hand is merged into a
simulator contact, and clearing the simulator's data deletes that contact. The
foreign key sets the tombstone's `merged_into_id` to NULL, so the customer is
back in the lists, without the identities, notes and follow-ups the merge had
moved. `store/crm.go:487` says of merged-away rows "they are tombstones, not
people".

**Why the bounds are enough.** *Campaign.* Recipient rows meet only in a
campaign's counts and in an account's worker. `send` gives one row to two
accounts, so that claims could overlap, with six requests (three set a campaign
up, three race) and every fault; `lifecycle` gives one account two campaigns and
two sessions; `campaign_live` one campaign two rows, so that one ends while the
other waits. `Ladder` = 1 reaches both "retry" and "exhausted" where the code has
three rungs. *Limiter.* Windows 1 to 4 with caps 1 and 2, three attempts and a
horizon past the retention reach every boundary: equal times, exactly one window
old, a cap lowered below the count, a tier that is off; a week of two days of
three minutes has hours that pass midnight and the end of the week, are narrowed
by a campaign, and never meet; the horizon passes into the second week.
*Automation.* Two workers, two jobs of a chat, and any three of messages,
operations, faults and crashes give duplicate delivery, recovery, supersession
and each pair of disturbances of one message; two chats share only the worker
pool and the claim's batch. The live run has as many jobs as there can be bursts
(the bound must not be what stops one), two messages, so that one may be lost and
the next has to be answered, and two dispatch attempts, so that a job is retried
and given up; the `automation` run has one attempt. *Messages.* A buffer of one and two
replies give a full and a closed channel; two requests let an event cross its own
redelivery; three events (operators, reports, faults, crashes) cover each pair
of disturbances of a send. *Telegram.* Two requests and the boot pass over two
versions of the token and two sessions (the old and the new one); two updates to
be handed over, so that the offset can pass one on account of the other.
*Knowledge.* Five organizations, one for each group of tables that refer to each
other, two keys, three versions: stage, mark or stage again, approve; each of the
sequences the histories record is within this bound. *PromptCache.* Three loads, two writers, four commits: a
load can be overtaken by another load and by two invalidations. *Imports.* One
run of two materials and one worker beside the loop, which can synthesize itself;
two runs of one material with two workers (16 million states) pass as well and
are covered by the theorems. *Crm.* Three customers make a chain of merges.
Deadlock is not checked where bounds end the behaviour (limiter, automation,
messages, telegram, crm); elsewhere it is.

**Fairness.** Campaign: strong for each account's worker, because Go's `select`
between the tick and the maintenance ticker starves neither, so a worker that is
again and again able to go on does; weak for maintenance, for a handler that has
read and goes on to write, for time, and for the restart by the supervisor.
Automation: weak for ingest handlers, `Enqueue`, time and each worker's steps;
strong for the loop's claim and recovery, which alternate in one `select`, and
for taking a delivery, since the channel is FIFO. Ageing is fair only for jobs
nobody holds. Messages: strong for the provider's delivery of a customer message
it has not seen acknowledged (webhooks are retried, and a process in the middle
of a crash cannot receive), weak for a request's own steps and for the restart
of a process told to stop. Imports: weak for submissions, workers and the loop;
strong for the loop's claim and for recovery of a row that stays stuck, since the
two tickers alternate in one `select` and a stuck row gets old. Nothing is
assumed of operators, customers, faults or crashes.

## 4. Proofs

**`CampaignProofs`**, for any constants that satisfy `CampaignAssumption` and
`NullAssumption`: `TypeCorrect`, then `Invariance` of
`Inv == TypeOK /\ ClaimsAreExclusive /\ DuplicatesAreAccountedFor /\ SentWasDelivered /\ Accounting`.
The bound on deliveries is not inductive: one must know that every row that may
still be claimed is *settled* (each delivery so far is already paid for), and
that a worker past the provider call carries its delivery in `claim.err`.
`Accounting` says so, and `ClaimsAreExclusive` makes the worker's row the one
its finalize changes. `ClaimsExclusive`, `DuplicatesAccounted`, `SentDelivered`
follow; `AtMostOnceWithReliableAcks` says that with the faults "stamp" and
"ambiguous" excluded the engine is at-most-once. `OutcomesFinal` and
`TerminalsFinal` are action properties, from the invariant and from the absence
of edges out of a terminal status. Three more invariants stand on the types:
- `OrganicVisible`, from `ChatInv`: a worker about to mark a chat created it in
  this very attempt, so the customer did not open it.
- `CompletedSettled`, from `OpenInv`: a worker that holds a claim belongs to the
  campaign's account, and one that has counted a drained campaign is the only one
  that could open a send in it. Its hypothesis `AccountsStay` (no edit of content
  and account, or a single account) is needed: the proof fails without it, and
  TLC gives the sequence of section 5.
- `DeletedAccounted` and `DeletedSentNothing`, from `LedgerInv`: what is not in
  the ledger has only deliveries that retries and lost acknowledgements pay for.
  Without pruning the first holds for all operations and faults; the second, that
  a deleted campaign delivered nothing, needs those two excluded as well.

**`SendBudgetProofs`**, from `BudgetAssumption`: `BudgetTypeCorrect`,
`LedgerComplete`, `TiersAlwaysHold`, `IntervalAlwaysHolds`: what the claim's
query fetches contains every attempt a tier or the interval could count (except
those the cascade dropped), because the retention is no shorter than any
admissible window, so the check on fetched rows is a check on real attempts.
`OutcomesCounted` bounds the exception: the newest attempt of a row that is not
pending is never dropped. `NextSlotEarliest` rests on two lemmas about the
arithmetic alone. `NthNewestExists`: among at least *k* attempts there is a time
with fewer than *k* attempts after it and *k* no older. `FreesAtIsExact`: a full
tier stays full until that attempt leaves the window, and not a moment longer.
The slot is then the largest of finitely many such times.

`EstimateEarliest`, that the forecast of one and of two sends can be kept and that
nothing ends sooner, and `ForecastBest`, the same of any number of sends, are
proved in three parts.
- *Hours.* `ContainsIsThrough`: `Window.Contains`, which looks at a weekday and a
  minute, is membership in one of the intervals a window stands for in the
  calendar, past midnight and past the week's end included, for every length of
  day and week. `HoursRecur` makes one week's search enough (`NextWindowOpenIsFirst`):
  an opening later than that would have one a week before it.
- *Search.* `NextAllowedSlotIsFirst`: `nextAllowedSlot` returns the first moment
  inside both hours and within the budget. The loop is a recursive function; that
  there is one is shown by giving it (the function that knows the answer,
  `SearchExists`), and that any one gives this answer by taking the latest moment
  at which it would not: every turn moves forward without skipping a possible
  moment (`TurnIsFirst`), and past the last window all turns agree
  (`AllowedInTheEnd`). It answers never only if the hours never open again
  (`NeverIsTheHours`). `SearchEndsSoon`: after three turns the cursor is the
  answer (hours, headroom, hours again: headroom once found is not lost while
  nothing is sent), so `maxSimulationIterations`, which the model leaves out,
  decides nothing.
- *Simulation.* `EstimateIsSim` turns the recursion over the sends into a sequence
  of simulated states. Each of them *stands for* all the attempts made so far
  (`StandsFor`): those `trimToLargestWindow` let go no longer count, so each
  simulated send takes the first moment possible after all earlier ones
  (`SimSendIsFirst`). The simulated sends are therefore a schedule that can be
  kept (`ForecastIsKept`). Against any other schedule (`Plans`), none of them is
  later than its counterpart (`ForecastIsSoonest`): sends made earlier leave no
  less headroom later (`EarlierAllows`), so waiting never pays. The steps from one
  send to the next are taken through the first send that would fail (`UpTo`).

`BudgetAssumption` gives the calendar (a day and a week have at least one minute
and one day) and windows that passed `ValidateWindow`; nothing is assumed of how
the two sides' windows meet.

**`AutomationProofs`**, from `NoJobAssumption` and `AutomationAssumption`:
`TypeCorrect`, then three invariants on top of the types. `OwnerInv` ties a
worker to its row: a held row is 'processing' and held once until recovery takes
it for dead (`rerun`), ids in use are ids handed out, and a job that may still
reply (not made yet, pending, or held before its send) has not replied;
`JobsHaveOneOwner` and `OneReply` follow. `DraftInv` needs that the indices in
`approving` and `seen` point at drafts that exist, and says for every writer of
a chat's list what it does to statuses and messages; `ChatsShowOneSuggestion`
and `SentDraftsAreSent` follow. `VersionsArePast` says that no job and no worker
holds a version from the future, and that a generation of the current version
has read the message that armed it; `SupersededIsDiscarded` follows. It fails in
a chat whose counter was restarted by a switch to off, which is
`StaleIsNeverShown` of section 5. TLC checked the conjunction of these parts as
an invariant on the `automation` instance.

**`MessagesProofs`**, from `WorkQueueAssumption` and `MessagesAssumption`:
`WaitCountsEveryTask`; `MessagesInvariance` of `IInv`, whose parts are the types
of the rows, that a message is in one place of the queue at most, that whatever
is on its way still shows as queued (until an echo or a report overtakes it) and
was accepted as often as its worker's step says, what rows a provider id may
have, and what a webhook request carries; `SentAtMostOnce`; and
`DeliveryImplementsOutbox`, with one lemma per group of actions mapping a step
to a step of `Outbox` or a stutter. `BadgeIsHonest` is inductive with the types
of the inbox (`BadgeInv`): what was read was stored, an ingest that stores adds
one message to it, and everything that resets the badge reads all of them.

**`KnowledgeProofs`**, from the assumptions of `Knowledge` and `PromptCache`:
`NeverSilentlyOverwritten` (a base equal to the current version has not moved);
`KnowledgeBuilds`, which needs that only resaved entities are both staged and
marked (`Separate`), so that otherwise what the publish gate judges is what
approval leaves, and that a part in `gaps` is excused until it builds; and
`EditsSurviveApproval`, from `Separate`. `IInv` is the conjunction of the types,
`Separate`, the two versions' relation (`BaseIsOld`) and the properties; no
theorem assumes anything of which writes are made. For the cache `LoadsAreFresh` and `CacheIsCurrent`, from `CacheInv`: an
unfinished load whose generation is still current started after every finished
invalidation and read the tables after that.

**`TelegramProofs`**, from `TelegramAssumption`, for any requests, sessions,
updates, versions, operations and faults: `TelegramInvariance` of `IInv`, from
which the four properties of the run follow. TLC checked `IInv` on the
`telegram` instance before.
- *Updates* (`BatchesRun`, `HandledInOrder`). `NothingLost` speaks of what
  Telegram has forgotten, which is what a session asked past; a session asks past
  the offset it read and the updates it went through itself. So the invariant says
  of the offset, of the forgotten updates and of each session that all before them
  is handled, which for a duplicate may mean that it has a draft. Two sessions may overlap and store their offsets in any order.
- *Registry* (`WaitersHold`, `NoOrphans`). A request awaits a session only
  after it cancelled it, and keeps the mutex while it waits in `Upsert`, so what
  it replaces is still what is registered.
- *Deletes* (`DeletesRun`, `DeletesHold`). Once a delete took the session out
  nothing is registered, and nobody is on the way to register anything, unless
  the run had one of the failures or crossings that `missed` records.
- *Tokens* (`TokensGrow`, `SomeoneSeesToIt`). No session has a token newer than
  the stored one, and while a live account's token is not polled some request or
  the boot pass is still on the way to list or to register it.

**`ImportsProofs`**, for any runs, sizes, workers and faults: `EndsAreFinal`,
`SynthesisAppliesOnce`, `SynthesisSeesAll`, `OneRunAtATime`. A run in pass 2 is
held by one process and stays 'running' until that process writes, because
`BeginImportSynthesis` and cancellation need 'none' and recovery takes only runs
no process holds; a run found ready stays ready unless the model recorded one of
its two races.

**`CrmProofs`**, for any finite or infinite book: `CrmInvariance`,
`ChildrenStayOnPeople`, `TimelineComplete`, and `CapturedIdsResolve`: merges
form a forest because they are ordered in time. Its assumption `CrmConstants` is
stated in each theorem.

Only model-checked: liveness (`RunningEnds`, `DueCampaignsStart`, `JobsEnd`,
`MessagesAreAnswered`, `StoredIsArmed`, `RunEnds`: fairness and `ENABLED` are out
of TLAPS' reach). Every other property of the passing runs is a theorem.

## 5. Further disagreements

Met while modelling, without a run of their own. The first group are properties
the modules state and the code breaks; putting one into the run's `.cfg` gives
the counterexample.

- `Campaign.AtMostOnce`: `Deliver` returns a failed stamp's error after the
  provider accepted (`internal/outbound/outbound.go:129`); the ladder sends the
  message again. `internal/store/campaigns.go:1186` says the claim's ordering "is
  what makes at-most-once true".
- `Campaign.CompletedIsDrained`: a retry between the count and the completion
  (`internal/campaign/runner.go:230`) leaves a pending row in a completed
  campaign, the outcome `internal/httpapi/campaigns.go:584` wants prevented.
- `Campaign.CompletedIsSettled`, once "content" and "retry" are in `Ops` and there
  are two accounts: the worker of one account counts a drained campaign, an
  operator retries a recipient and moves the campaign to another account (nothing
  was sent, so `internal/httpapi/campaigns.go:302` allows it), whose worker, busy
  with another campaign in the same tick, claims the recipient; then the first
  worker completes it (`internal/campaign/runner.go:230`), a completed campaign
  with a row mid-send, where :212 says "once nothing is left pending or mid-send".
- `Campaign.DeletedNeverSent`, once "retry" is in `Ops`: a crash after an
  accepted send leaves the row 'failed', a retry makes it pending, replacing the
  list deletes it with its ledger row (`internal/store/campaigns.go:674`), and the
  delete, which looks at the ledger (:290), no longer sees the delivery that
  `internal/httpapi/campaigns.go:342` wants kept.
- `Campaign.ContentIsFrozen`: an edit of body or account checked before the first
  send is written after it (`internal/httpapi/campaigns.go:311`);
  `campaign/campaign.go:85` says "Frozen the instant any message has gone out".
- `Campaign.CopiesAreUncontacted`: a duplicate takes over a row 'failed' by a crash
  after its message was accepted (`internal/store/campaigns.go:502`), where :452
  says "only its never-contacted recipients".
- `Campaign.RepliedChatsAreVisible`: `MarkChatCampaignOnly` hides a chat whose
  customer replied between its creation and the mark
  (`internal/store/campaigns.go:1634` against :1621).
- `SendBudget.CapsHold`: replacing recipients deletes the ledger rows of a row
  pending again (`internal/store/campaigns.go:674`), the headroom :280 says must
  not come back.
- `Automation.StaleIsNeverShown`, with three messages and five events: a switch to
  off restarts the versions (`internal/store/automation.go:189` against
  `internal/automation/runner.go:35`).
- `Automation.OneReplyPerMessage`: a redelivery that finds no draft yet arms the
  message again while its first job is still being worked off, and both jobs
  reply; `internal/store/read.go:432` calls the double generation harmless.
- `Telegram.ReplacedTokenIsPolled`: replacing a dead token leaves the state
  `token_error`, which the listing leaves out: the new token is not polled until
  somebody checks the account.

Campaigns and the limiter: a pause is undone by the sweep's stale list
(`internal/campaign/scheduler.go:218` against `internal/store/campaigns.go:1508`);
a campaign that delivered can be deleted once the ledger is pruned
(`internal/store/campaigns.go:290` against `internal/httpapi/campaigns.go:342`);
one campaign with fifty pending recipients outside its hours keeps the account's
other campaigns from sending, though the comment on `claimBatch`
(`internal/store/campaigns.go:1172`) says it never starves them.

Automation and messages: a job that recovery reruns may reply twice; a draft is
written after a switch to off; `ReopenDraft` puts a draft beside a newer one, and
reopens only one of several parts (`internal/httpapi/drafts.go:129`); an approval
does not count as a human message in the auto-send recheck; an echo stored before
the stamp takes the provider id, so the message stays 'queued' beside its own
echo (`internal/store/ingest.go:247`, `internal/store/automation.go:625`);
a graceful shutdown loses the queued sends (`cmd/xchats/main.go:802`); a webhook
is acknowledged and its message dropped on any error of the account lookup
(`internal/httpapi/meta_webhook.go:93`), where `internal/store/channels.go:138`
says an unknown pair is what lets it answer 200; WhatsApp logs a failed arming
(`internal/whatsmeow/manager.go:538`), and the message stays unanswered until the
next one.

Telegram: a delete that crosses a check or a create leaves a session on a deleted
bot (`internal/httpapi/telegram_accounts.go:281`); `Remove` and `Upsert` overlap
for as long as the old session takes to stop (`internal/tgpoller/tgpoller.go:207`);
the boot pass, with a listing from before, removes a bot just connected.

Knowledge base, the three writes behind `gaps` and `resaved`: an MCP client's deletion of the policies
row passes approval while zones exist (`internal/kbstore/zones.go:206` against
`mcp_write.go:1006`); a direct write may make a service its own parent
(`salon_validate.go:196`); an editor's save of a row marked for deletion keeps the
mark, and approval removes what it has just published (`draft.go:1825`,
`kbstore.go:520`). Also: `CancelChange` of a staged `tariff_info` changes nothing
(`draft.go:683` against :656); the playground's `If-Match` is checked in one call
and written in another (`internal/httpapi/playground.go:821`); a staged full-row
copy overwrites live edits made after it.

Imports: two concurrent submissions both pass the gate (`kbimport/enqueue.go:78`
against `ErrImportRunActive`); a worker may begin pass 2 before the submission
has enqueued the rest; a late `RequeueImportJob` (`kbstore/import.go:561`)
re-queues a finished or cancelled material; recovery runs pass 2 inside `Start`.

CRM: edits, notes and follow-ups through an id captured before a merge land on
the tombstone or answer 404 while the page shows the survivor
(`store/crm.go:745`, `httpapi/crm.go:292`, against `crm_merge.go:30`); a customer
made by hand into which a simulator contact was merged is deleted with its notes
by the purge, which "keeps that customer" (`simulator.go:44`); the purge of the
middle of a chain of merges loses the merge event.

Tunnel (read, not modelled): a late second `Stop` resets the status and the
stopping flag a new `Start` has set, and a failed concurrent `Start` overwrites
the status of a running tunnel (`internal/tunnel/lifecycle.go:28-190`).

## 6. Not modelled, and what is left

- **Tunnel.** One session behind one mutex, read by hand; nothing else reads its
  state.
- **MCP OAuth grants.** Each code, refresh token and denylist entry is claimed by
  one `UPDATE ... RETURNING` or `DELETE`, so nothing lies between check and use.
- **Media** (downloads, their sweepers, transcription): each job sets one row to
  ready or failed.
- **WhatsApp's socket, pairing and receipts**: provider I/O; its statuses use the
  ladder modelled in `Messages`.
- **Knowledge**: media references, provenance, duplicate detection (it only
  refuses), audit rows. `SetFactField` and `CreateRequest` have no caller.
- **Imports**: what an extraction or a synthesis says, embedded images, the
  relation of `StuckAfter` to a synthesis' own timeout (any running synthesis
  that no process holds may be taken for stuck).
- **CRM**: profile columns beyond one status, custom fields, the demo seed.
- **Campaigns**: the order of the claim's scan, the event log, templates.
- Text processing (prompts, contracts, rendering, recipient parsing), settings,
  users and sessions, the realtime hub, the frontend, the evaluation harness.

Left for later, most useful first: the claim's scan order in `SendBudget`; the
composition of `Knowledge` with `Imports`' pass 2.

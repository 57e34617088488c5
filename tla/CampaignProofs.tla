--------------------------- MODULE CampaignProofs ---------------------------
(***************************************************************************)
(* Proofs about Campaign, for every set of campaigns, recipients, accounts *)
(* and operators, every ladder length and every combination of faults.     *)
(***************************************************************************)
EXTENDS Campaign, TLAPS

\* The idle maintenance record is one.
LEMMA NoMaintType ==
  NoMaint \in [pc: {"idle", "promote", "sweep", "complete"},
               todo: SUBSET Campaigns, c: Campaigns]
BY CampaignAssumption DEF NoMaint

\* A row is a pair, and its campaign's rows are rows.
LEMMA RowFacts ==
  /\ \A r \in Rows : r[1] \in Campaigns /\ r[2] \in Identities /\ r = <<r[1], r[2]>>
  /\ \A c \in Campaigns : RowsOf(c) \subseteq Rows
  /\ \A c \in Campaigns : \A r \in RowsOf(c) : r[1] = c
BY DEF Rows, RowsOf

\* SetCampaignStatus leads to a status, and only from a campaign that exists.
LEMMA SetStatusFacts ==
  ASSUME TypeOK, NEW c \in Campaigns, NEW to \in CampaignStatus,
         SetCampaignStatus(c, to) \/ StatusStays
  PROVE  /\ status' \in [Campaigns -> CampaignStatus \cup {"absent", "deleted"}]
         /\ \A d \in Campaigns : status'[d] # status[d] =>
              status[d] \in CampaignStatus /\ status'[d] \in CampaignStatus
BY DEF SetCampaignStatus, StatusStays, TypeOK, CanTransition, Transitions, CampaignStatus

\* The empty store and the fresh process have the types.
LEMMA InitType == Init => TypeOK
<1> SUFFICES ASSUME Init PROVE TypeOK
  OBVIOUS
<1>1. /\ (CHOOSE b \in Bodies : TRUE) \in Bodies
      /\ (CHOOSE a \in Accounts : TRUE) \in Accounts
  BY CampaignAssumption
<1> QED
  BY <1>1, NoMaintType DEF Init, TypeOK, WorkerPc, Claims

\* The worker's steps keep the types.
LEMMA WorkerType ==
  ASSUME TypeOK, NEW a \in Accounts, Worker(a)
  PROVE  TypeOK'
<1>1. ASSUME NEW r \in Rows, ClaimNextRecipient(a, r) PROVE TypeOK'
  <2>1. claim'[a] \in Claims
    BY <1>1, RowFacts DEF ClaimNextRecipient, TypeOK, Claims
  <2> QED
    BY <1>1, <2>1 DEF ClaimNextRecipient, TypeOK, WorkerPc, RecipientStatus, bounds, history
<1>2. ASSUME pc[a] # "idle", NEW e \in {"transient", "permanent"}, Fails(a, e)
      PROVE  /\ pc' \in [Accounts -> WorkerPc]
             /\ claim' \in [Accounts -> Claims \cup {NoClaim}]
             /\ \A b \in Accounts : pc'[b] # "idle" => up /\ claim'[b] \in Claims
  BY <1>2 DEF Fails, TypeOK, WorkerPc, Claims
<1>3. CASE ResolveChat(a)
  <2>1. ChatOf(a) \in Chats
    BY <1>3 DEF ResolveChat, TypeOK, ChatOf, Claims, Chats, Rows
  <2> QED
    BY <1>2, <1>3, <2>1 DEF ResolveChat, TypeOK, WorkerPc, bounds, history
<1>4. CASE MarkChatCampaignOnly(a)
  BY <1>4 DEF MarkChatCampaignOnly, TypeOK, WorkerPc, bounds, history
<1>5. CASE StoreError(a)
  BY <1>2, <1>5 DEF StoreError, TypeOK, store, bounds, history
<1>6. ASSUME pc[a] # "idle", Accepted(a)
      PROVE  delivered' \in [Rows -> Nat] /\ bodiesOut' \in [Campaigns -> SUBSET Bodies]
  BY <1>6, RowFacts DEF Accepted, TypeOK, Claims
<1>7. ASSUME pc[a] # "idle", lostAck' = [lostAck EXCEPT ![claim[a].row] = @ + 1]
      PROVE  lostAck' \in [Rows -> Nat]
  BY <1>7 DEF TypeOK, Claims
<1>8. CASE Send(a)
  BY <1>2, <1>6, <1>7, <1>8 DEF Send, TypeOK, WorkerPc, store, bounds
<1>9. CASE StampOutboundSent(a)
  BY <1>2, <1>7, <1>9 DEF StampOutboundSent, TypeOK, WorkerPc, store, bounds
<1>10. CASE FinalizeAttempt(a)
  <2>1. NewStatus(claim[a]) \in RecipientStatus
    BY <1>10 DEF NewStatus, RecipientStatus
  <2>2. claim[a].row \in Rows
    BY <1>10 DEF FinalizeAttempt, TypeOK, Claims
  <2>3. backoff' \in [Rows -> BOOLEAN]
    <3> DEFINE b == (NewStatus(claim[a]) = "pending")
    <3>1. b \in BOOLEAN
      OBVIOUS
    <3>2. backoff' = backoff \/ backoff' = [backoff EXCEPT ![claim[a].row] = b]
      BY <1>10 DEF FinalizeAttempt
    <3> HIDE DEF b
    <3> QED
      BY <3>1, <3>2 DEF TypeOK
  <2>4. row' \in [Rows -> RecipientStatus \cup {"absent"}]
    BY <1>10, <2>1 DEF FinalizeAttempt, TypeOK
  <2>5. /\ pc' \in [Accounts -> WorkerPc]
        /\ claim' \in [Accounts -> Claims \cup {NoClaim}]
        /\ \A b \in Accounts : pc'[b] # "idle" => up /\ claim'[b] \in Claims
    BY <1>10 DEF FinalizeAttempt, TypeOK, WorkerPc
  <2> QED
    BY <1>10, <2>3, <2>4, <2>5 DEF FinalizeAttempt, TypeOK, bounds, history
<1>11. CASE CountRecipients(a)
  BY <1>11 DEF CountRecipients, TypeOK, WorkerPc, store, bounds, history
<1>12. CASE CompleteIfDone(a)
  <2>1. claim[a].row[1] \in Campaigns
    BY <1>12, RowFacts DEF CompleteIfDone, TypeOK, Claims
  <2>2. status' \in [Campaigns -> CampaignStatus \cup {"absent", "deleted"}]
    BY <1>12, <2>1, SetStatusFacts DEF CompleteIfDone, CampaignStatus
  <2> QED
    BY <1>12, <2>2 DEF CompleteIfDone, TypeOK, WorkerPc, bounds, history
<1> QED
  BY <1>1, <1>3, <1>4, <1>5, <1>8, <1>9, <1>10, <1>11, <1>12 DEF Worker

\* The maintenance job's steps keep the types.
LEMMA MaintenanceType ==
  ASSUME TypeOK, Maintenance
  PROVE  TypeOK'
<1>1. CASE MaintStart
  BY <1>1 DEF MaintStart, DueScheduledCampaigns, TypeOK, store, bounds, history
<1>2. CASE MaintSweep
  <2>1. /\ UNCHANGED <<store, up, pc, claim, req, bounds, history>>
        /\ maint' = NoMaint \/ maint' = [maint EXCEPT !.pc = "sweep",
                                  !.todo = {c \in Campaigns : status[c] = "running"}]
    BY <1>2 DEF MaintSweep
  <2>2. maint' \in [pc: {"idle", "promote", "sweep", "complete"},
                    todo: SUBSET Campaigns, c: Campaigns]
    <3> HIDE DEF NoMaint
    <3>1. maint \in [pc: {"idle", "promote", "sweep", "complete"},
                     todo: SUBSET Campaigns, c: Campaigns]
      BY DEF TypeOK
    <3> QED BY <2>1, <3>1, NoMaintType
  <2> QED BY <2>1, <2>2 DEF TypeOK, store, bounds, history
<1>3. CASE MaintComplete
  <2>1. status' \in [Campaigns -> CampaignStatus \cup {"absent", "deleted"}]
    BY <1>3, SetStatusFacts DEF MaintComplete, TypeOK, CampaignStatus
  <2> QED
    BY <1>3, <2>1 DEF MaintComplete, TypeOK, bounds, history
<1>4. CASE MaintEnd
  BY <1>4, NoMaintType DEF MaintEnd, TypeOK, store, bounds, history
<1>5. ASSUME NEW c \in Campaigns, MaintPromote(c) PROVE TypeOK'
  <2>1. status' \in [Campaigns -> CampaignStatus \cup {"absent", "deleted"}]
    BY <1>5, SetStatusFacts DEF MaintPromote, CampaignStatus
  <2> QED
    BY <1>5, <2>1 DEF MaintPromote, TypeOK, bounds, history
<1>6. ASSUME NEW c \in Campaigns, MaintCount(c) PROVE TypeOK'
  BY <1>6 DEF MaintCount, TypeOK, store, bounds, history
<1> QED
  BY <1>1, <1>2, <1>3, <1>4, <1>5, <1>6 DEF Maintenance

\* Clearing next_attempt_at for some rows keeps its type.
LEMMA ClearBackoffType ==
  ASSUME TypeOK, NEW S, backoff' = [r \in Rows |-> backoff[r] /\ r \notin S]
  PROVE  backoff' \in [Rows -> BOOLEAN]
<1> DEFINE f(r) == backoff[r] /\ r \notin S
<1>1. \A r \in Rows : f(r) \in BOOLEAN
  OBVIOUS
<1>2. backoff' = [r \in Rows |-> f(r)]
  OBVIOUS
<1> HIDE DEF f
<1> QED
  BY <1>1, <1>2

\* The two read-then-write steps every handler shares.
LEMMA RequestType ==
  ASSUME TypeOK, NEW o \in Operators
  PROVE  /\ \A op \in ReadThenWrite, c \in Campaigns :
              ReadRequest(o, op, c) => req' \in [Operators -> Requests \cup {NoReq}]
         /\ \A op : Writes(o, op) => /\ req' \in [Operators -> Requests \cup {NoReq}]
                                     /\ req[o] \in Requests /\ req[o].c \in Campaigns
                                     /\ req[o].to \in CampaignStatus
<1>1. ASSUME NEW op \in ReadThenWrite, NEW c \in Campaigns, ReadRequest(o, op, c)
      PROVE  req' \in [Operators -> Requests \cup {NoReq}]
  <2>1. [op |-> op, c |-> c, to |-> IF schedule[c] = "future" THEN "scheduled" ELSE "running"]
          \in Requests
    BY <1>1 DEF Requests
  <2> QED
    BY <1>1, <2>1 DEF ReadRequest, TypeOK
<1>2. ASSUME NEW op, Writes(o, op)
      PROVE  /\ req' \in [Operators -> Requests \cup {NoReq}]
             /\ req[o] \in Requests /\ req[o].c \in Campaigns
             /\ req[o].to \in CampaignStatus
  BY <1>2 DEF Writes, TypeOK, Requests, CampaignStatus
<1> QED
  BY <1>1, <1>2

\* The operators' requests keep the types.
LEMMA OperatorType ==
  ASSUME TypeOK, Operator
  PROVE  TypeOK'
<1>1. ASSUME NEW c \in Campaigns, NEW a \in Accounts, NEW b \in Bodies, CreateCampaign(c, a, b)
      PROVE  TypeOK'
  BY <1>1 DEF CreateCampaign, Request, TypeOK, CampaignStatus, process, history
<1>2. ASSUME NEW op \in {"pause", "resume", "stop"}, NEW c \in Campaigns,
             CampaignStatusTransition(op, c)
      PROVE  TypeOK'
  <2>1. status' \in [Campaigns -> CampaignStatus \cup {"absent", "deleted"}]
    BY <1>2, SetStatusFacts DEF CampaignStatusTransition, CampaignStatus
  <2> QED
    BY <1>2, <2>1 DEF CampaignStatusTransition, Request, TypeOK, process, history
<1>3. ASSUME NEW src \in Campaigns, NEW dst \in Campaigns, DuplicateCampaign(src, dst)
      PROVE  TypeOK'
  <2>1. row' \in [Rows -> RecipientStatus \cup {"absent"}]
    BY <1>3 DEF DuplicateCampaign, TypeOK, RecipientStatus
  <2> QED
    BY <1>3, <2>1 DEF DuplicateCampaign, Request, TypeOK, CampaignStatus, process, history
<1>4. ASSUME NEW o \in Operators, NEW op \in ReadThenWrite, NEW c \in Campaigns,
             ReadRequest(o, op, c)
      PROVE  TypeOK'
  <2>0. req' \in [Operators -> Requests \cup {NoReq}]
    BY <1>4, RequestType
  <2>1. requests' \in Nat
    BY <1>4 DEF ReadRequest, Request, TypeOK
  <2>2. UNCHANGED <<store, up, pc, claim, maint, crashes, history>>
    BY <1>4 DEF ReadRequest
  <2> QED
    BY <2>0, <2>1, <2>2 DEF TypeOK, store, history
<1>5. ASSUME NEW o \in Operators, WriteStart(o) PROVE TypeOK'
  <2>1. status' \in [Campaigns -> CampaignStatus \cup {"absent", "deleted"}]
    BY <1>5, RequestType, SetStatusFacts DEF WriteStart
  <2> QED
    BY <1>5, <2>1, RequestType DEF WriteStart, TypeOK, bounds, history
<1>6. ASSUME NEW o \in Operators, WriteContent(o) PROVE TypeOK'
  BY <1>6, RequestType DEF WriteContent, TypeOK, bounds, history
<1>7. ASSUME NEW o \in Operators, WriteSchedule(o) PROVE TypeOK'
  BY <1>7, RequestType DEF WriteSchedule, TypeOK, bounds, history
<1>8. ASSUME NEW o \in Operators, WriteRecipients(o) PROVE TypeOK'
  <2>1. backoff' \in [Rows -> BOOLEAN]
    BY <1>8, ClearBackoffType DEF WriteRecipients
  <2>2. row' \in [Rows -> RecipientStatus \cup {"absent"}]
    BY <1>8 DEF WriteRecipients, TypeOK, RecipientStatus
  <2>3. attempts' \in [Rows -> Nat] /\ logged' \subseteq Rows
    BY <1>8 DEF WriteRecipients, TypeOK
  <2> QED
    BY <1>8, <2>1, <2>2, <2>3, RequestType DEF WriteRecipients, TypeOK, bounds, history
<1>9. ASSUME NEW o \in Operators, WriteRetry(o) PROVE TypeOK'
  <2>1. backoff' \in [Rows -> BOOLEAN]
    BY <1>9, ClearBackoffType DEF WriteRetry
  <2>2. /\ row' \in [Rows -> RecipientStatus \cup {"absent"}]
        /\ attempts' \in [Rows -> Nat] /\ retried' \in [Rows -> Nat]
    BY <1>9 DEF WriteRetry, TypeOK, RecipientStatus
  <2> QED
    BY <1>9, <2>1, <2>2, RequestType DEF WriteRetry, TypeOK, bounds
<1>10. ASSUME NEW o \in Operators, WriteDelete(o) PROVE TypeOK'
  <2>1. /\ row' \in [Rows -> RecipientStatus \cup {"absent"}]
        /\ status' \in [Campaigns -> CampaignStatus \cup {"absent", "deleted"}]
    BY <1>10, RequestType DEF WriteDelete, MayDelete, TypeOK
  <2> QED
    BY <1>10, <2>1, RequestType DEF WriteDelete, MayDelete, TypeOK, bounds, history
<1> QED
  BY <1>1, <1>2, <1>3, <1>4, <1>5, <1>6, <1>7, <1>8, <1>9, <1>10 DEF Operator

\* Replies, time, pruning, auto-pause, crashes and restarts keep the types.
LEMMA EnvironmentType ==
  ASSUME TypeOK, Environment
  PROVE  TypeOK'
<1>1. ASSUME NEW a \in Accounts, AutoPauseCampaigns(a) PROVE TypeOK'
  BY <1>1 DEF AutoPauseCampaigns, TypeOK, CampaignStatus, process, history
<1>2. CASE PruneCampaignSendLog
  BY <1>2 DEF PruneCampaignSendLog, TypeOK, process, bounds, history
<1>3. ASSUME NEW a \in Accounts, NEW i \in Identities, UpsertInbound(a, i) PROVE TypeOK'
  <2>1. <<a, i>> \in Chats
    BY DEF Chats
  <2>2. row' \in [Rows -> RecipientStatus \cup {"absent"}]
    BY <1>3 DEF UpsertInbound, Suppressed, TypeOK, RecipientStatus
  <2> QED
    BY <1>3, <2>1, <2>2 DEF UpsertInbound, Suppressed, TypeOK, process, bounds
<1>4. ASSUME NEW r \in Rows, BackoffElapses(r) PROVE TypeOK'
  BY <1>4 DEF BackoffElapses, TypeOK, process, bounds, history
<1>5. ASSUME NEW c \in Campaigns, ScheduleArrives(c) PROVE TypeOK'
  BY <1>5 DEF ScheduleArrives, TypeOK, process, bounds, history
<1>6. CASE Crash
  <2>0. crashes' \in Nat
    BY <1>6 DEF Crash, TypeOK
  <2>1. /\ up' \in BOOLEAN
        /\ pc' = [a \in Accounts |-> "idle"]
        /\ claim' \in [Accounts -> Claims \cup {NoClaim}]
        /\ maint' = NoMaint
        /\ req' \in [Operators -> Requests \cup {NoReq}]
    BY <1>6 DEF Crash
  <2>2. UNCHANGED <<store, requests, history>>
    BY <1>6 DEF Crash
  <2> QED
    BY <2>0, <2>1, <2>2, NoMaintType DEF TypeOK, WorkerPc, store, history
<1>7. CASE Restart
  <2>1. row' \in [Rows -> RecipientStatus \cup {"absent"}]
    BY <1>7 DEF Restart, ReconcileStuckSending, TypeOK, RecipientStatus
  <2> QED
    BY <1>7, <2>1 DEF Restart, ReconcileStuckSending, TypeOK, bounds, history
<1> QED
  BY <1>1, <1>2, <1>3, <1>4, <1>5, <1>6, <1>7 DEF Environment

\* Every value the code can write to a column, and every position a worker,
\* the maintenance job or a handler can be in, is one TypeOK lists.
THEOREM TypeCorrect == Spec => []TypeOK
<1>1. TypeOK /\ [Next]_vars => TypeOK'
  <2>1. TypeOK /\ UNCHANGED vars => TypeOK'
    BY DEF TypeOK, vars, store, process, bounds, history
  <2> QED
    BY <2>1, WorkerType, MaintenanceType, OperatorType, EnvironmentType DEF Next
<1> QED
  BY <1>1, InitType, PTL DEF Spec

----------------------------------------------------------------------------
(* Claims are exclusive.                                                    *)

\* A step that moves no worker keeps the claims exclusive if it leaves the
\* rows in flight 'sending' and in the ledger.
LEMMA KeepsClaims ==
  ASSUME ClaimsAreExclusive, UNCHANGED <<pc, claim>>,
         \A a \in Accounts : pc[a] \in InFlight =>
           row'[claim[a].row] = "sending" /\ claim[a].row \in logged'
  PROVE  ClaimsAreExclusive'
BY DEF ClaimsAreExclusive

\* A worker that moves on, and leaves the rows alone, keeps its own claim.
LEMMA MovesWorker ==
  ASSUME TypeOK, ClaimsAreExclusive, UNCHANGED <<row, logged>>,
         NEW a \in Accounts, pc[a] \in InFlight,
         \A b \in Accounts \ {a} : pc'[b] = pc[b] /\ claim'[b] = claim[b],
         pc'[a] \in InFlight => claim'[a].row = claim[a].row
  PROVE  ClaimsAreExclusive'
BY DEF ClaimsAreExclusive

\* A worker claims only pending rows, which no worker holds, and lets its
\* row go in the step that records the outcome.
LEMMA WorkerExclusive ==
  ASSUME TypeOK, ClaimsAreExclusive, NEW a \in Accounts, Worker(a)
  PROVE  ClaimsAreExclusive'
<1> USE DEF InFlight
<1>1. ASSUME NEW r \in Rows, ClaimNextRecipient(a, r) PROVE ClaimsAreExclusive'
  <2>1. \A b \in Accounts \ {a} : /\ pc'[b] = pc[b] /\ claim'[b] = claim[b]
                                  /\ pc[b] \in InFlight => claim[b].row # r
    BY <1>1 DEF ClaimNextRecipient, TypeOK, ClaimsAreExclusive
  <2>2. /\ pc'[a] = "resolve" /\ claim'[a].row = r
        /\ row' = [row EXCEPT ![r] = "sending"] /\ logged' = logged \cup {r}
    BY <1>1 DEF ClaimNextRecipient, TypeOK
  <2>3. \A b \in Accounts : pc[b] \in InFlight => claim[b].row \in Rows
    BY DEF TypeOK, Claims
  <2> QED
    BY <2>1, <2>2, <2>3 DEF ClaimsAreExclusive, TypeOK
<1>2. ASSUME NEW e, pc[a] \in InFlight, Fails(a, e), UNCHANGED <<row, logged>>
      PROVE  ClaimsAreExclusive'
  <2>1. /\ \A b \in Accounts \ {a} : pc'[b] = pc[b] /\ claim'[b] = claim[b]
        /\ claim'[a].row = claim[a].row
    BY <1>2 DEF Fails, TypeOK, Claims
  <2> QED
    BY <1>2, <2>1, MovesWorker
<1>3. ASSUME NEW q, pc[a] \in InFlight, pc' = [pc EXCEPT ![a] = q],
             UNCHANGED <<claim, row, logged>>
      PROVE  ClaimsAreExclusive'
  BY <1>3, MovesWorker DEF TypeOK
<1>4. CASE ResolveChat(a)
  BY <1>2, <1>3, <1>4 DEF ResolveChat
<1>5. CASE MarkChatCampaignOnly(a)
  BY <1>3, <1>5 DEF MarkChatCampaignOnly
<1>6. CASE StoreError(a)
  BY <1>2, <1>6 DEF StoreError, store
<1>7. CASE Send(a)
  BY <1>2, <1>3, <1>7 DEF Send, store
<1>8. CASE StampOutboundSent(a)
  BY <1>2, <1>3, <1>8 DEF StampOutboundSent, store
<1>9. CASE FinalizeAttempt(a)
  <2>1. /\ pc[a] = "finalize" /\ pc'[a] \notin InFlight
        /\ \A b \in Accounts \ {a} : pc'[b] = pc[b] /\ claim'[b] = claim[b]
        /\ \A r \in Rows : r # claim[a].row => row'[r] = row[r]
        /\ logged' = logged
    BY <1>9 DEF FinalizeAttempt, TypeOK
  <2>2. \A b \in Accounts : pc[b] \in InFlight => claim[b].row \in Rows
    BY DEF TypeOK, Claims
  <2> QED
    BY <2>1, <2>2 DEF ClaimsAreExclusive
<1>10. ASSUME pc[a] \notin InFlight, pc'[a] \notin InFlight,
              \A b \in Accounts \ {a} : pc'[b] = pc[b] /\ claim'[b] = claim[b],
              UNCHANGED <<row, logged>>
       PROVE  ClaimsAreExclusive'
  BY <1>10 DEF ClaimsAreExclusive
<1>11. CASE CountRecipients(a)
  BY <1>10, <1>11 DEF CountRecipients, TypeOK, store
<1>12. CASE CompleteIfDone(a)
  BY <1>10, <1>12 DEF CompleteIfDone, TypeOK
<1> QED
  BY <1>1, <1>4, <1>5, <1>6, <1>7, <1>8, <1>9, <1>11, <1>12 DEF Worker

\* The maintenance job touches no row and no worker.
LEMMA MaintenanceExclusive ==
  ASSUME TypeOK, ClaimsAreExclusive, Maintenance
  PROVE  ClaimsAreExclusive'
<1>1. UNCHANGED <<row, logged, pc, claim>>
  BY DEF Maintenance, MaintStart, MaintSweep, MaintComplete, MaintEnd, MaintPromote,
         MaintCount, store
<1> QED
  BY <1>1 DEF ClaimsAreExclusive

\* The store calls of a handler never touch a row that is in flight: they
\* write pending or failed rows, rows that do not exist yet, and (deleting a
\* campaign) rows without a ledger entry.
LEMMA OperatorExclusive ==
  ASSUME TypeOK, ClaimsAreExclusive, Accounting, Operator
  PROVE  ClaimsAreExclusive'
<1>0. \A a \in Accounts : pc[a] \in InFlight =>
        /\ claim[a].row \in Rows /\ row[claim[a].row] = "sending" /\ claim[a].row \in logged
  BY DEF TypeOK, Claims, ClaimsAreExclusive, InFlight
<1>1. ASSUME UNCHANGED <<row, logged, pc, claim>> PROVE ClaimsAreExclusive'
  BY <1>1 DEF ClaimsAreExclusive
<1>2. ASSUME NEW c \in Campaigns, NEW a \in Accounts, NEW b \in Bodies, CreateCampaign(c, a, b)
      PROVE  ClaimsAreExclusive'
  BY <1>1, <1>2 DEF CreateCampaign, process
<1>3. ASSUME NEW op \in {"pause", "resume", "stop"}, NEW c \in Campaigns,
             CampaignStatusTransition(op, c)
      PROVE  ClaimsAreExclusive'
  BY <1>1, <1>3 DEF CampaignStatusTransition, process
<1>4. ASSUME NEW src \in Campaigns, NEW dst \in Campaigns, DuplicateCampaign(src, dst)
      PROVE  ClaimsAreExclusive'
  <2>1. UNCHANGED <<pc, claim, logged>>
    BY <1>4 DEF DuplicateCampaign, process
  <2>2. \A r \in Rows : row[r] = "sending" => row'[r] = "sending"
    BY <1>4 DEF DuplicateCampaign, Accounting, FreshIsEmpty
  <2> QED
    BY <1>0, <2>1, <2>2, KeepsClaims
<1>5. ASSUME NEW o \in Operators, NEW op \in ReadThenWrite, NEW c \in Campaigns,
             ReadRequest(o, op, c)
      PROVE  ClaimsAreExclusive'
  BY <1>1, <1>5 DEF ReadRequest, store
<1>6. ASSUME NEW o \in Operators, WriteStart(o) \/ WriteContent(o) \/ WriteSchedule(o)
      PROVE  ClaimsAreExclusive'
  BY <1>1, <1>6 DEF WriteStart, WriteContent, WriteSchedule
<1>7. ASSUME NEW o \in Operators, WriteRecipients(o) PROVE ClaimsAreExclusive'
  <2>1. UNCHANGED <<pc, claim>>
    BY <1>7 DEF WriteRecipients
  <2>2. \A r \in Rows : row[r] = "sending" =>
          row'[r] = "sending" /\ (r \in logged => r \in logged')
    BY <1>7 DEF WriteRecipients
  <2> QED
    BY <1>0, <2>1, <2>2, KeepsClaims
<1>8. ASSUME NEW o \in Operators, WriteRetry(o) PROVE ClaimsAreExclusive'
  <2>1. UNCHANGED <<pc, claim, logged>>
    BY <1>8 DEF WriteRetry
  <2>2. \A r \in Rows : row[r] = "sending" => row'[r] = "sending"
    BY <1>8 DEF WriteRetry
  <2> QED
    BY <1>0, <2>1, <2>2, KeepsClaims
<1>9. ASSUME NEW o \in Operators, WriteDelete(o) PROVE ClaimsAreExclusive'
  <2>1. UNCHANGED <<pc, claim, logged>>
    BY <1>9 DEF WriteDelete, MayDelete
  <2>2. \A r \in Rows : r \in logged => row'[r] = row[r]
    BY <1>9 DEF WriteDelete, MayDelete, RowsOf, Rows
  <2> QED
    BY <1>0, <2>1, <2>2, KeepsClaims
<1> QED
  BY <1>2, <1>3, <1>4, <1>5, <1>6, <1>7, <1>8, <1>9 DEF Operator

\* A reply skips only pending rows, pruning waits for the workers, and a
\* crash ends every attempt.
LEMMA EnvironmentExclusive ==
  ASSUME TypeOK, ClaimsAreExclusive, Environment
  PROVE  ClaimsAreExclusive'
<1>0. \A a \in Accounts : pc[a] \in InFlight =>
        /\ claim[a].row \in Rows /\ row[claim[a].row] = "sending" /\ claim[a].row \in logged
  BY DEF TypeOK, Claims, ClaimsAreExclusive, InFlight
<1>1. ASSUME UNCHANGED <<row, logged, pc, claim>> PROVE ClaimsAreExclusive'
  BY <1>1 DEF ClaimsAreExclusive
<1>2. ASSUME NEW a \in Accounts, AutoPauseCampaigns(a) PROVE ClaimsAreExclusive'
  BY <1>1, <1>2 DEF AutoPauseCampaigns, process
<1>3. ASSUME \A a \in Accounts : pc'[a] = "idle" PROVE ClaimsAreExclusive'
  BY <1>3 DEF ClaimsAreExclusive, InFlight
<1>4. CASE PruneCampaignSendLog
  BY <1>3, <1>4 DEF PruneCampaignSendLog, WorkersIdle, process
<1>5. ASSUME NEW a \in Accounts, NEW i \in Identities, UpsertInbound(a, i)
      PROVE  ClaimsAreExclusive'
  <2>1. UNCHANGED <<pc, claim, logged>>
    BY <1>5 DEF UpsertInbound, Suppressed, process
  <2>2. \A r \in Rows : row[r] = "sending" => row'[r] = "sending"
    BY <1>5 DEF UpsertInbound, Suppressed
  <2> QED
    BY <1>0, <2>1, <2>2, KeepsClaims
<1>6. ASSUME NEW r \in Rows, BackoffElapses(r) PROVE ClaimsAreExclusive'
  BY <1>1, <1>6 DEF BackoffElapses, process
<1>7. ASSUME NEW c \in Campaigns, ScheduleArrives(c) PROVE ClaimsAreExclusive'
  BY <1>1, <1>7 DEF ScheduleArrives, process
<1>8. CASE Crash
  BY <1>3, <1>8 DEF Crash
<1>9. CASE Restart
  <2>1. \A a \in Accounts : pc[a] = "idle"
    BY <1>9 DEF Restart, ReconcileStuckSending, TypeOK
  <2> QED
    BY <1>3, <1>9, <2>1 DEF Restart, ReconcileStuckSending
<1> QED
  BY <1>2, <1>4, <1>5, <1>6, <1>7, <1>8, <1>9 DEF Environment

----------------------------------------------------------------------------
(* Deliveries are accounted for.                                            *)

Inv ==
  /\ TypeOK /\ ClaimsAreExclusive
  /\ DuplicatesAreAccountedFor /\ SentWasDelivered /\ Accounting

\* A step that moves no worker and counts nothing keeps the accounts if the
\* rows it makes claimable were settled and it marks none 'sent'.
LEMMA KeepsAccounts ==
  ASSUME Inv, UNCHANGED <<pc, claim, delivered, lostAck, retried>>,
         \A r \in Rows :
           /\ row'[r] = "pending" \/ (row'[r] = "absent" /\ status'[r[1]] # "deleted") =>
                \/ row[r] = "pending"
                \/ row[r] = "absent" /\ status[r[1]] # "deleted"
           /\ row'[r] = "sent" => row[r] = "sent"
           /\ status'[r[1]] = "absent" => row'[r] = "absent"
  PROVE  DuplicatesAreAccountedFor' /\ SentWasDelivered' /\ Accounting'
<1> USE DEF Inv, Accounting
<1>1. DuplicatesAreAccountedFor'
  BY DEF DuplicatesAreAccountedFor
<1>2. SentWasDelivered'
  BY DEF SentWasDelivered
<1>3. RowsSettled'
  BY DEF RowsSettled, Settled
<1>4. WorkersSettled'
  BY DEF WorkersSettled, Settled
<1>5. FreshIsEmpty'
  BY DEF FreshIsEmpty
<1> QED
  BY <1>1, <1>2, <1>3, <1>4, <1>5

\* A worker step that leaves the rows and the campaigns alone, counts nothing,
\* and leaves a settled claim.
LEMMA MovesAccounts ==
  ASSUME Inv, UNCHANGED <<row, status, delivered, lostAck, retried>>,
         NEW a \in Accounts,
         \A b \in Accounts \ {a} : pc'[b] = pc[b] /\ claim'[b] = claim[b],
         /\ pc'[a] \in NotYetSent \cup {"stamp"} => claim'[a].err = "ok"
         /\ pc'[a] \in NotYetSent => Settled(claim'[a].row)
         /\ pc'[a] = "stamp" => delivered[claim'[a].row] >= 1
         /\ pc'[a] = "finalize" => IF claim'[a].err = "ok" THEN delivered[claim'[a].row] >= 1
                                                           ELSE Settled(claim'[a].row)
  PROVE  DuplicatesAreAccountedFor' /\ SentWasDelivered' /\ Accounting'
<1> USE DEF Inv, Accounting
<1>1. DuplicatesAreAccountedFor' /\ SentWasDelivered'
  BY DEF DuplicatesAreAccountedFor, SentWasDelivered
<1>2. RowsSettled' /\ FreshIsEmpty'
  BY DEF RowsSettled, Settled, FreshIsEmpty
<1>3. WorkersSettled'
  BY DEF WorkersSettled, Settled
<1> QED
  BY <1>1, <1>2, <1>3

\* The worker's steps keep the accounts: a claimed row is settled, the one
\* delivery of the claim is in its outcome, and only an unpaid failure
\* makes the row claimable again.
LEMMA WorkerAccounts ==
  ASSUME Inv, NEW a \in Accounts, Worker(a)
  PROVE  DuplicatesAreAccountedFor' /\ SentWasDelivered' /\ Accounting'
<1> DEFINE r0 == claim[a].row
<1>a. TypeOK /\ ClaimsAreExclusive /\ DuplicatesAreAccountedFor /\ SentWasDelivered
      /\ RowsSettled /\ WorkersSettled /\ FreshIsEmpty
  BY DEF Inv, Accounting
<1>b. /\ pc[a] # "idle" => claim[a] \in Claims /\ r0 \in Rows
      /\ \A b \in Accounts : pc[b] # "idle" => claim[b].row \in Rows
  BY <1>a DEF TypeOK, Claims
<1>c. \A b \in Accounts \ {a} : pc[a] \in InFlight /\ pc[b] \in InFlight => claim[b].row # r0
  BY <1>a DEF ClaimsAreExclusive
<1>1. ASSUME NEW r \in Rows, ClaimNextRecipient(a, r)
      PROVE  DuplicatesAreAccountedFor' /\ SentWasDelivered' /\ Accounting'
  <2>1. /\ \A b \in Accounts \ {a} : pc'[b] = pc[b] /\ claim'[b] = claim[b]
        /\ pc'[a] = "resolve" /\ claim'[a].row = r /\ claim'[a].err = "ok"
        /\ row' = [row EXCEPT ![r] = "sending"] /\ row[r] = "pending"
        /\ UNCHANGED <<status, delivered, lostAck, retried>>
    BY <1>1, <1>a DEF ClaimNextRecipient, TypeOK, history
  <2>2. Settled(r)
    BY <2>1, <1>a DEF RowsSettled
  <2>3. DuplicatesAreAccountedFor' /\ SentWasDelivered'
    BY <2>1, <1>a DEF DuplicatesAreAccountedFor, SentWasDelivered, TypeOK
  <2>4. RowsSettled' /\ FreshIsEmpty'
    BY <2>1, <1>a DEF RowsSettled, FreshIsEmpty, Settled, TypeOK
  <2>5. WorkersSettled'
    BY <2>1, <2>2, <1>a DEF WorkersSettled, Settled
  <2> QED
    BY <2>3, <2>4, <2>5 DEF Accounting
<1>2. ASSUME NEW e \in {"transient", "permanent"}, pc[a] \in NotYetSent, Fails(a, e),
             UNCHANGED <<row, status, delivered, lostAck, retried>>
      PROVE  DuplicatesAreAccountedFor' /\ SentWasDelivered' /\ Accounting'
  <2>1. /\ \A b \in Accounts \ {a} : pc'[b] = pc[b] /\ claim'[b] = claim[b]
        /\ pc'[a] = "finalize" /\ claim'[a].row = r0 /\ claim'[a].err = e
    BY <1>2, <1>a, <1>b DEF Fails, TypeOK, Claims, NotYetSent
  <2>2. Settled(r0)
    BY <1>2, <1>a DEF WorkersSettled
  <2> QED
    BY <1>2, <2>1, <2>2, MovesAccounts DEF NotYetSent
<1>3. CASE ResolveChat(a)
  <2>1. /\ pc[a] = "resolve"
        /\ UNCHANGED <<row, status, delivered, lostAck, retried>>
    BY <1>3 DEF ResolveChat, history
  <2>2. CASE Fails(a, "permanent")
    BY <1>2, <2>1, <2>2 DEF NotYetSent
  <2>3. CASE UNCHANGED claim /\ \E q \in {"mark", "send"} : pc' = [pc EXCEPT ![a] = q]
    <3>1. /\ \A b \in Accounts \ {a} : pc'[b] = pc[b] /\ claim'[b] = claim[b]
          /\ pc'[a] \in {"mark", "send"} /\ claim'[a] = claim[a]
      BY <2>3, <1>a DEF TypeOK
    <3>2. Settled(r0) /\ claim[a].err = "ok"
      BY <2>1, <1>a DEF WorkersSettled, NotYetSent
    <3> QED
      BY <2>1, <3>1, <3>2, MovesAccounts DEF NotYetSent
  <2> QED
    BY <1>3, <2>2, <2>3 DEF ResolveChat
<1>4. CASE MarkChatCampaignOnly(a)
  <2>1. /\ \A b \in Accounts \ {a} : pc'[b] = pc[b] /\ claim'[b] = claim[b]
        /\ pc'[a] = "send" /\ claim'[a] = claim[a] /\ pc[a] = "mark"
        /\ UNCHANGED <<row, status, delivered, lostAck, retried>>
    BY <1>4, <1>a DEF MarkChatCampaignOnly, TypeOK, history
  <2>2. Settled(r0) /\ claim[a].err = "ok"
    BY <2>1, <1>a DEF WorkersSettled, NotYetSent
  <2> QED
    BY <2>1, <2>2, MovesAccounts DEF NotYetSent
<1>5. CASE StoreError(a)
  BY <1>2, <1>5 DEF StoreError, store, history, NotYetSent
<1>6. ASSUME NEW d \in {0, 1}, NEW l \in {0, 1}, pc[a] \in {"send", "stamp"},
             delivered' = [delivered EXCEPT ![r0] = @ + d],
             lostAck' = [lostAck EXCEPT ![r0] = @ + l],
             UNCHANGED <<row, status, retried>>,
             \A b \in Accounts \ {a} : pc'[b] = pc[b] /\ claim'[b] = claim[b],
             claim'[a].row = r0,
             \/ pc[a] = "send" /\ pc'[a] = "stamp" /\ d = 1 /\ claim'[a].err = "ok"
             \/ pc'[a] = "finalize" /\ claim'[a].err # "ok" /\ l = 1
                /\ (d = 1 => pc[a] = "send")
      PROVE  DuplicatesAreAccountedFor' /\ SentWasDelivered' /\ Accounting'
  <2>1. /\ r0 \in Rows /\ pc[a] \in InFlight /\ row[r0] = "sending"
        /\ delivered[r0] \in Nat /\ lostAck[r0] \in Nat /\ retried[r0] \in Nat
        /\ pc[a] = "send" => delivered[r0] <= lostAck[r0] + retried[r0]
        /\ delivered[r0] <= 1 + lostAck[r0] + retried[r0]
    BY <1>6, <1>a, <1>b DEF TypeOK, InFlight, ClaimsAreExclusive, WorkersSettled, Settled,
                            NotYetSent, DuplicatesAreAccountedFor
  <2>2. /\ delivered'[r0] = delivered[r0] + d /\ lostAck'[r0] = lostAck[r0] + l
        /\ \A r \in Rows \ {r0} : delivered'[r] = delivered[r] /\ lostAck'[r] = lostAck[r]
        /\ retried' = retried
    BY <1>6, <1>a, <2>1 DEF TypeOK
  <2>3. DuplicatesAreAccountedFor'
    BY <1>6, <1>a, <2>1, <2>2 DEF DuplicatesAreAccountedFor
  <2>4. SentWasDelivered'
    BY <1>6, <1>a, <2>1, <2>2 DEF SentWasDelivered
  <2>5. RowsSettled' /\ FreshIsEmpty'
    BY <1>6, <1>a, <2>1, <2>2 DEF RowsSettled, FreshIsEmpty, Settled
  <2>6. \A b \in Accounts \ {a} : pc[b] \in InFlight => claim[b].row \in Rows \ {r0}
    BY <1>b, <1>c, <2>1 DEF InFlight
  <2>7. WorkersSettled'
    BY <1>6, <1>a, <2>1, <2>2, <2>6 DEF WorkersSettled, Settled, InFlight, NotYetSent
  <2> QED
    BY <2>3, <2>4, <2>5, <2>7 DEF Accounting
<1>7. CASE Send(a)
  <2>0. UNCHANGED <<row, status, retried>> /\ pc[a] = "send" /\ r0 \in Rows
        /\ claim[a].err = "ok"
    BY <1>7, <1>a, <1>b DEF Send, store, WorkersSettled, NotYetSent
  <2>1. CASE Accepted(a) /\ pc' = [pc EXCEPT ![a] = "stamp"] /\ UNCHANGED <<claim, lostAck>>
    <3>1. /\ delivered' = [delivered EXCEPT ![r0] = @ + 1]
          /\ lostAck' = [lostAck EXCEPT ![r0] = @ + 0]
          /\ \A b \in Accounts \ {a} : pc'[b] = pc[b] /\ claim'[b] = claim[b]
          /\ claim'[a] = claim[a] /\ pc'[a] = "stamp"
      BY <2>0, <2>1, <1>a DEF Accepted, TypeOK
    <3> QED
      BY <1>6, <2>0, <3>1
  <2>2. CASE /\ \E e \in {"transient", "permanent"} : Fails(a, e)
             /\ UNCHANGED <<delivered, bodiesOut, lostAck>>
    BY <1>2, <2>0, <2>2 DEF NotYetSent
  <2>3. CASE /\ Accepted(a) /\ Fails(a, "transient")
             /\ lostAck' = [lostAck EXCEPT ![claim[a].row] = @ + 1]
    <3>1. /\ delivered' = [delivered EXCEPT ![r0] = @ + 1]
          /\ lostAck' = [lostAck EXCEPT ![r0] = @ + 1]
          /\ \A b \in Accounts \ {a} : pc'[b] = pc[b] /\ claim'[b] = claim[b]
          /\ claim'[a].row = r0 /\ claim'[a].err = "transient" /\ pc'[a] = "finalize"
      BY <2>0, <2>3, <1>a, <1>b DEF Accepted, Fails, TypeOK, Claims
    <3> QED
      BY <1>6, <2>0, <3>1
  <2> QED
    BY <1>7, <2>1, <2>2, <2>3 DEF Send
<1>8. CASE StampOutboundSent(a)
  <2>0. /\ UNCHANGED <<row, status, delivered, retried>> /\ pc[a] = "stamp" /\ r0 \in Rows
        /\ claim[a].err = "ok" /\ delivered[r0] >= 1
    BY <1>8, <1>a, <1>b DEF StampOutboundSent, store, WorkersSettled
  <2>1. CASE pc' = [pc EXCEPT ![a] = "finalize"] /\ UNCHANGED <<claim, lostAck>>
    <3>1. /\ \A b \in Accounts \ {a} : pc'[b] = pc[b] /\ claim'[b] = claim[b]
          /\ pc'[a] = "finalize" /\ claim'[a] = claim[a]
      BY <2>1, <1>a DEF TypeOK
    <3> QED
      BY <2>0, <2>1, <3>1, MovesAccounts DEF NotYetSent
  <2>2. CASE /\ Fails(a, "transient")
             /\ lostAck' = [lostAck EXCEPT ![claim[a].row] = @ + 1]
    <3>1. /\ delivered' = [delivered EXCEPT ![r0] = @ + 0]
          /\ lostAck' = [lostAck EXCEPT ![r0] = @ + 1]
          /\ \A b \in Accounts \ {a} : pc'[b] = pc[b] /\ claim'[b] = claim[b]
          /\ claim'[a].row = r0 /\ claim'[a].err = "transient" /\ pc'[a] = "finalize"
      BY <2>0, <2>2, <1>a, <1>b DEF Fails, TypeOK, Claims
    <3>2. (0 = 1 => pc[a] = "send") /\ 0 \in {0, 1} /\ 1 \in {0, 1}
      OBVIOUS
    <3> HIDE DEF r0
    <3> QED
      BY <1>6, <2>0, <3>1, <3>2, Zenon
  <2> QED
    BY <1>8, <2>1, <2>2 DEF StampOutboundSent
<1>9. CASE FinalizeAttempt(a)
  <2>0. /\ pc[a] = "finalize" /\ r0 \in Rows /\ row[r0] = "sending"
        /\ UNCHANGED <<status, delivered, lostAck, retried>>
        /\ pc'[a] \in {"counts", "idle"}
        /\ \A b \in Accounts \ {a} : pc'[b] = pc[b] /\ claim'[b] = claim[b]
    BY <1>9, <1>a, <1>b DEF FinalizeAttempt, ClaimsAreExclusive, InFlight, TypeOK, history
  <2>1. /\ NewStatus(claim[a]) = "sent" => claim[a].err = "ok"
        /\ NewStatus(claim[a]) = "pending" => claim[a].err # "ok"
        /\ NewStatus(claim[a]) # "absent"
    BY DEF NewStatus
  <2>2. \A r \in Rows : row'[r] = row[r] \/ (r = r0 /\ row'[r] = NewStatus(claim[a]))
    BY <1>9, <1>a, <2>0 DEF FinalizeAttempt, TypeOK
  <2>3. /\ claim[a].err = "ok" => delivered[r0] >= 1
        /\ claim[a].err # "ok" => Settled(r0)
    BY <2>0, <1>a DEF WorkersSettled
  <2>4. DuplicatesAreAccountedFor'
    BY <2>0, <1>a DEF DuplicatesAreAccountedFor
  <2>5. SentWasDelivered'
    BY <2>0, <2>1, <2>2, <2>3, <1>a DEF SentWasDelivered
  <2>6. RowsSettled' /\ FreshIsEmpty'
    BY <2>0, <2>1, <2>2, <2>3, <1>a DEF RowsSettled, FreshIsEmpty, Settled
  <2>7. WorkersSettled'
    BY <2>0, <1>a DEF WorkersSettled, Settled, NotYetSent
  <2> QED
    BY <2>4, <2>5, <2>6, <2>7 DEF Accounting
<1>10. CASE CountRecipients(a)
  <2>1. /\ \A b \in Accounts \ {a} : pc'[b] = pc[b] /\ claim'[b] = claim[b]
        /\ pc'[a] \in {"complete", "idle"}
        /\ UNCHANGED <<row, status, delivered, lostAck, retried>>
    BY <1>10, <1>a DEF CountRecipients, TypeOK, store, history
  <2> QED
    BY <2>1, MovesAccounts DEF NotYetSent
<1>11. CASE CompleteIfDone(a)
  <2>1. /\ \A b \in Accounts \ {a} : pc'[b] = pc[b] /\ claim'[b] = claim[b]
        /\ pc'[a] = "idle"
        /\ UNCHANGED <<row, delivered, lostAck, retried>>
    BY <1>11, <1>a DEF CompleteIfDone, TypeOK, history
  <2>2. \A r \in Rows : /\ status'[r[1]] = "absent" => status[r[1]] = "absent"
                        /\ status[r[1]] = "deleted" => status'[r[1]] = "deleted"
    <3>1. r0[1] \in Campaigns
      BY <1>11, <1>b, RowFacts DEF CompleteIfDone
    <3>2. \A d \in Campaigns : status'[d] # status[d] =>
            status[d] \in CampaignStatus /\ status'[d] \in CampaignStatus
      BY <1>11, <1>a, <3>1, SetStatusFacts DEF CompleteIfDone, CampaignStatus
    <3> QED
      BY <3>2, RowFacts DEF CampaignStatus
  <2>3. DuplicatesAreAccountedFor' /\ SentWasDelivered'
    BY <2>1, <1>a DEF DuplicatesAreAccountedFor, SentWasDelivered
  <2>4. RowsSettled' /\ FreshIsEmpty'
    BY <2>1, <2>2, <1>a DEF RowsSettled, FreshIsEmpty, Settled
  <2>5. WorkersSettled'
    BY <2>1, <1>a DEF WorkersSettled, Settled, NotYetSent
  <2> QED
    BY <2>3, <2>4, <2>5 DEF Accounting
<1> QED
  BY <1>1, <1>3, <1>4, <1>5, <1>7, <1>8, <1>9, <1>10, <1>11 DEF Worker

\* Maintenance only moves a campaign from one status to another.
LEMMA StatusStepAccounts ==
  ASSUME Inv, UNCHANGED <<row, pc, claim, delivered, lostAck, retried>>,
         \A d \in Campaigns : status'[d] # status[d] =>
           /\ status[d] \in CampaignStatus \cup {"absent"}
           /\ status'[d] \in CampaignStatus
  PROVE  DuplicatesAreAccountedFor' /\ SentWasDelivered' /\ Accounting'
<1>1. \A r \in Rows : /\ status'[r[1]] = "absent" => status[r[1]] = "absent"
                      /\ status[r[1]] = "deleted" => status'[r[1]] = "deleted"
  BY RowFacts DEF CampaignStatus
<1>2. \A r \in Rows : status'[r[1]] = "absent" => row'[r] = "absent"
  BY <1>1 DEF Inv, Accounting, FreshIsEmpty
<1> QED
  BY <1>1, <1>2, KeepsAccounts

\* The maintenance job only moves campaigns between statuses.
LEMMA MaintenanceAccounts ==
  ASSUME Inv, Maintenance
  PROVE  DuplicatesAreAccountedFor' /\ SentWasDelivered' /\ Accounting'
<1>1. UNCHANGED <<row, pc, claim, delivered, lostAck, retried>>
  BY DEF Maintenance, MaintStart, MaintSweep, MaintComplete, MaintEnd, MaintPromote,
         MaintCount, store, history
<1>2. \/ status' = status
      \/ \E c \in Campaigns, to \in CampaignStatus : SetCampaignStatus(c, to) \/ StatusStays
  BY DEF Maintenance, MaintStart, MaintSweep, MaintComplete, MaintEnd, MaintPromote,
         MaintCount, store, CampaignStatus, Inv, TypeOK
<1>3. \A d \in Campaigns : status'[d] # status[d] =>
        status[d] \in CampaignStatus /\ status'[d] \in CampaignStatus
  BY <1>2, SetStatusFacts DEF Inv
<1> QED
  BY <1>1, <1>3, StatusStepAccounts

\* An operator makes a row claimable by creating it, or by a retry that is
\* counted.
LEMMA OperatorAccounts ==
  ASSUME Inv, Operator
  PROVE  DuplicatesAreAccountedFor' /\ SentWasDelivered' /\ Accounting'
<1>a. TypeOK /\ RowsSettled /\ FreshIsEmpty
  BY DEF Inv, Accounting
<1>1. ASSUME NEW c \in Campaigns, NEW a \in Accounts, NEW b \in Bodies, CreateCampaign(c, a, b)
      PROVE  DuplicatesAreAccountedFor' /\ SentWasDelivered' /\ Accounting'
  <2>1. UNCHANGED <<row, pc, claim, delivered, lostAck, retried>>
    BY <1>1 DEF CreateCampaign, process, history
  <2>2. \A d \in Campaigns : status'[d] # status[d] =>
           status[d] \in CampaignStatus \cup {"absent"} /\ status'[d] \in CampaignStatus
    BY <1>1, <1>a DEF CreateCampaign, TypeOK, CampaignStatus
  <2> QED
    BY <2>1, <2>2, StatusStepAccounts
<1>2. ASSUME NEW op \in {"pause", "resume", "stop"}, NEW c \in Campaigns,
             CampaignStatusTransition(op, c)
      PROVE  DuplicatesAreAccountedFor' /\ SentWasDelivered' /\ Accounting'
  <2>1. UNCHANGED <<row, pc, claim, delivered, lostAck, retried>>
    BY <1>2 DEF CampaignStatusTransition, process, history
  <2>2. \E to \in CampaignStatus : SetCampaignStatus(c, to)
    BY <1>2 DEF CampaignStatusTransition, CampaignStatus
  <2>3. \A d \in Campaigns : status'[d] # status[d] =>
          status[d] \in CampaignStatus /\ status'[d] \in CampaignStatus
    BY <2>2, <1>a, SetStatusFacts
  <2> QED
    BY <2>1, <2>3, StatusStepAccounts
<1>3. ASSUME NEW src \in Campaigns, NEW dst \in Campaigns, DuplicateCampaign(src, dst)
      PROVE  DuplicatesAreAccountedFor' /\ SentWasDelivered' /\ Accounting'
  <2>1. UNCHANGED <<pc, claim, delivered, lostAck, retried>>
    BY <1>3 DEF DuplicateCampaign, process, history
  <2>2. /\ status[dst] = "absent" /\ status'[dst] = "draft"
        /\ \A d \in Campaigns \ {dst} : status'[d] = status[d]
        /\ \A r \in Rows : row'[r] # row[r] => r[1] = dst /\ row'[r] = "pending"
    BY <1>3, <1>a DEF DuplicateCampaign, TypeOK
  <2>3. \A r \in Rows : r[1] = dst => row[r] = "absent"
    BY <2>2, <1>a DEF FreshIsEmpty
  <2>4. \A r \in Rows : status'[r[1]] = "absent" => row'[r] = "absent"
    BY <2>2, <1>a, RowFacts DEF FreshIsEmpty
  <2> QED
    BY <2>1, <2>2, <2>3, <2>4, RowFacts, KeepsAccounts
<1>4. ASSUME NEW o \in Operators, NEW op \in ReadThenWrite, NEW c \in Campaigns,
             ReadRequest(o, op, c)
      PROVE  DuplicatesAreAccountedFor' /\ SentWasDelivered' /\ Accounting'
  BY <1>4, StatusStepAccounts DEF ReadRequest, store, history
<1>5. ASSUME NEW o \in Operators, WriteStart(o)
      PROVE  DuplicatesAreAccountedFor' /\ SentWasDelivered' /\ Accounting'
  <2>1. UNCHANGED <<row, pc, claim, delivered, lostAck, retried>>
    BY <1>5 DEF WriteStart, history
  <2>2. \E c \in Campaigns, to \in CampaignStatus : SetCampaignStatus(c, to)
    BY <1>5, <1>a, RequestType DEF WriteStart
  <2>3. \A d \in Campaigns : status'[d] # status[d] =>
          status[d] \in CampaignStatus /\ status'[d] \in CampaignStatus
    BY <2>2, <1>a, SetStatusFacts
  <2> QED
    BY <2>1, <2>3, StatusStepAccounts
<1>6. ASSUME NEW o \in Operators, WriteContent(o) \/ WriteSchedule(o)
      PROVE  DuplicatesAreAccountedFor' /\ SentWasDelivered' /\ Accounting'
  BY <1>6, StatusStepAccounts DEF WriteContent, WriteSchedule, history
<1>7. ASSUME NEW o \in Operators, WriteRecipients(o)
      PROVE  DuplicatesAreAccountedFor' /\ SentWasDelivered' /\ Accounting'
  <2>1. UNCHANGED <<status, pc, claim, delivered, lostAck, retried>>
    BY <1>7 DEF WriteRecipients, history
  <2>2. \A r \in Rows : \/ row'[r] = row[r]
                        \/ row[r] = "pending" /\ row'[r] = "absent"
                        \/ /\ row[r] = "absent" /\ row'[r] = "pending"
                           /\ status[r[1]] \in CampaignStatus
    BY <1>7, RowFacts DEF WriteRecipients, Exists, RowsOf
  <2>3. \A r \in Rows : status[r[1]] = "absent" => row'[r] = "absent"
    BY <2>2, <1>a DEF FreshIsEmpty, CampaignStatus
  <2>4. "deleted" \notin CampaignStatus
    BY DEF CampaignStatus
  <2> QED
    BY <2>1, <2>2, <2>3, <2>4, KeepsAccounts
<1>8. ASSUME NEW o \in Operators, WriteRetry(o)
      PROVE  DuplicatesAreAccountedFor' /\ SentWasDelivered' /\ Accounting'
  <2>1. UNCHANGED <<status, pc, claim, delivered, lostAck>>
    BY <1>8 DEF WriteRetry
  <2>2. \A r \in Rows :
          \/ row'[r] = row[r] /\ retried'[r] = retried[r]
          \/ row[r] = "failed" /\ row'[r] = "pending" /\ retried'[r] = retried[r] + 1
    BY <1>8 DEF WriteRetry
  <2>3. \A r \in Rows : delivered[r] \in Nat /\ lostAck[r] \in Nat /\ retried[r] \in Nat
    BY <1>a DEF TypeOK
  <2>4. \A r \in Rows : delivered[r] <= 1 + lostAck[r] + retried[r]
    BY DEF Inv, DuplicatesAreAccountedFor
  <2>5. DuplicatesAreAccountedFor'
    BY <2>1, <2>2, <2>3, <2>4 DEF DuplicatesAreAccountedFor
  <2>6. SentWasDelivered'
    BY <2>1, <2>2 DEF Inv, SentWasDelivered
  <2>7. RowsSettled'
    BY <2>1, <2>2, <2>3, <2>4, <1>a DEF RowsSettled, Settled
  <2>8. FreshIsEmpty'
    BY <2>1, <2>2, <1>a DEF FreshIsEmpty
  <2>9. WorkersSettled'
    <3>1. \A a \in Accounts : pc[a] \in InFlight => /\ claim[a].row \in Rows
                                                     /\ row[claim[a].row] = "sending"
      BY <1>a DEF Inv, ClaimsAreExclusive, TypeOK, Claims, InFlight
    <3>2. \A a \in Accounts : pc[a] \in InFlight => retried'[claim[a].row] = retried[claim[a].row]
      BY <3>1, <2>2
    <3> QED
      BY <2>1, <3>2 DEF Inv, Accounting, WorkersSettled, Settled, InFlight, NotYetSent
  <2> QED
    BY <2>5, <2>6, <2>7, <2>8, <2>9 DEF Accounting
<1>9. ASSUME NEW o \in Operators, WriteDelete(o)
      PROVE  DuplicatesAreAccountedFor' /\ SentWasDelivered' /\ Accounting'
  <2>1. UNCHANGED <<pc, claim, delivered, lostAck, retried>>
    BY <1>9 DEF WriteDelete, MayDelete, history
  <2>2. \/ UNCHANGED <<status, row>>
        \/ \E c \in Campaigns :
             /\ status' = [status EXCEPT ![c] = "deleted"]
             /\ row' = [r \in Rows |-> IF r[1] = c THEN "absent" ELSE row[r]]
    BY <1>9, <1>a, RequestType DEF WriteDelete, MayDelete
  <2>3. \A r \in Rows :
          \/ row'[r] = row[r] /\ status'[r[1]] = status[r[1]]
          \/ row'[r] = "absent" /\ status'[r[1]] = "deleted"
    BY <2>2, <1>a, RowFacts DEF TypeOK
  <2>4. \A r \in Rows : status'[r[1]] = "absent" => row'[r] = "absent"
    BY <2>3, <1>a DEF FreshIsEmpty
  <2> QED
    BY <2>1, <2>3, <2>4, KeepsAccounts
<1> QED
  BY <1>1, <1>2, <1>3, <1>4, <1>5, <1>6, <1>7, <1>8, <1>9 DEF Operator

\* Neither a reply nor time nor a restart makes a row claimable: an
\* interrupted send becomes 'failed', never 'pending'.
LEMMA EnvironmentAccounts ==
  ASSUME Inv, Environment
  PROVE  DuplicatesAreAccountedFor' /\ SentWasDelivered' /\ Accounting'
<1>a. TypeOK /\ RowsSettled /\ FreshIsEmpty
  BY DEF Inv, Accounting
<1>1. ASSUME UNCHANGED <<status, row, pc, claim, delivered, lostAck, retried>>
      PROVE  DuplicatesAreAccountedFor' /\ SentWasDelivered' /\ Accounting'
  BY <1>1, StatusStepAccounts
<1>2. ASSUME NEW a \in Accounts, AutoPauseCampaigns(a)
      PROVE  DuplicatesAreAccountedFor' /\ SentWasDelivered' /\ Accounting'
  <2>1. UNCHANGED <<row, pc, claim, delivered, lostAck, retried>>
    BY <1>2 DEF AutoPauseCampaigns, process, history
  <2>2. \A d \in Campaigns : status'[d] # status[d] =>
          status[d] \in CampaignStatus /\ status'[d] \in CampaignStatus
    BY <1>2 DEF AutoPauseCampaigns, CampaignStatus
  <2> QED
    BY <2>1, <2>2, StatusStepAccounts
<1>3. CASE PruneCampaignSendLog
  BY <1>1, <1>3 DEF PruneCampaignSendLog, process, history
<1>4. ASSUME NEW a \in Accounts, NEW i \in Identities, UpsertInbound(a, i)
      PROVE  DuplicatesAreAccountedFor' /\ SentWasDelivered' /\ Accounting'
  <2>1. UNCHANGED <<status, pc, claim, delivered, lostAck, retried>>
    BY <1>4 DEF UpsertInbound, Suppressed, process
  <2>2. \A r \in Rows : row'[r] = row[r] \/ (row'[r] = "skipped" /\ row[r] = "pending")
    BY <1>4 DEF UpsertInbound, Suppressed
  <2>3. \A r \in Rows : status'[r[1]] = "absent" => row'[r] = "absent"
    BY <2>1, <2>2, <1>a DEF FreshIsEmpty
  <2> QED
    BY <2>1, <2>2, <2>3, KeepsAccounts
<1>5. ASSUME NEW r \in Rows, BackoffElapses(r)
      PROVE  DuplicatesAreAccountedFor' /\ SentWasDelivered' /\ Accounting'
  BY <1>1, <1>5 DEF BackoffElapses, process, history
<1>6. ASSUME NEW c \in Campaigns, ScheduleArrives(c)
      PROVE  DuplicatesAreAccountedFor' /\ SentWasDelivered' /\ Accounting'
  BY <1>1, <1>6 DEF ScheduleArrives, process, history
<1>7. CASE Crash
  <2>1. /\ UNCHANGED <<status, row, delivered, lostAck, retried>>
        /\ \A a \in Accounts : pc'[a] = "idle"
    BY <1>7 DEF Crash, store, history
  <2>2. DuplicatesAreAccountedFor' /\ SentWasDelivered'
    BY <2>1 DEF Inv, DuplicatesAreAccountedFor, SentWasDelivered
  <2>3. RowsSettled' /\ FreshIsEmpty'
    BY <2>1, <1>a DEF RowsSettled, FreshIsEmpty, Settled
  <2>4. WorkersSettled'
    BY <2>1 DEF WorkersSettled, NotYetSent
  <2> QED
    BY <2>2, <2>3, <2>4 DEF Accounting
<1>8. CASE Restart
  <2>1. UNCHANGED <<status, pc, claim, delivered, lostAck, retried>>
    BY <1>8 DEF Restart, ReconcileStuckSending, history
  <2>2. \A r \in Rows : row'[r] = row[r] \/ (row'[r] = "failed" /\ row[r] = "sending")
    BY <1>8 DEF Restart, ReconcileStuckSending
  <2>3. \A r \in Rows : status'[r[1]] = "absent" => row'[r] = "absent"
    BY <2>1, <2>2, <1>a DEF FreshIsEmpty
  <2> QED
    BY <2>1, <2>2, <2>3, KeepsAccounts
<1> QED
  BY <1>2, <1>3, <1>4, <1>5, <1>6, <1>7, <1>8 DEF Environment

\* Nothing has been sent at the start.
LEMMA InitInv == Init => Inv
<1> SUFFICES ASSUME Init PROVE Inv
  OBVIOUS
<1>1. /\ \A r \in Rows : /\ delivered[r] = 0 /\ lostAck[r] = 0 /\ retried[r] = 0
                         /\ row[r] = "absent"
      /\ \A a \in Accounts : pc[a] = "idle"
  BY DEF Init
<1>2. ClaimsAreExclusive
  BY <1>1 DEF ClaimsAreExclusive, InFlight
<1>3. DuplicatesAreAccountedFor /\ SentWasDelivered
  BY <1>1 DEF DuplicatesAreAccountedFor, SentWasDelivered
<1>4. RowsSettled /\ WorkersSettled /\ FreshIsEmpty
  BY <1>1 DEF RowsSettled, WorkersSettled, FreshIsEmpty, Settled, NotYetSent
<1> QED
  BY <1>2, <1>3, <1>4, InitType DEF Inv, Accounting

\* The inductive invariant, one lemma per conjunct and group of actions.
THEOREM Invariance == Spec => []Inv
<1>1. Inv /\ [Next]_vars => Inv'
  <2>1. Inv /\ UNCHANGED vars => Inv'
    BY DEF vars, store, process, bounds, history, Inv, TypeOK, ClaimsAreExclusive,
           DuplicatesAreAccountedFor, SentWasDelivered, Accounting, RowsSettled,
           WorkersSettled, FreshIsEmpty, Settled
  <2>2. Inv /\ Next => TypeOK'
    BY WorkerType, MaintenanceType, OperatorType, EnvironmentType DEF Next, Inv
  <2>3. Inv /\ Next => ClaimsAreExclusive'
    BY WorkerExclusive, MaintenanceExclusive, OperatorExclusive, EnvironmentExclusive
       DEF Next, Inv
  <2>4. Inv /\ Next => DuplicatesAreAccountedFor' /\ SentWasDelivered' /\ Accounting'
    BY WorkerAccounts, MaintenanceAccounts, OperatorAccounts, EnvironmentAccounts DEF Next
  <2> QED
    BY <2>1, <2>2, <2>3, <2>4 DEF Inv
<1> QED
  BY <1>1, InitInv, PTL DEF Spec

\* Between claim and finalize a worker owns its row, whatever operators,
\* replies, maintenance and crashes do: FinalizeAttempt needs no status guard.
THEOREM ClaimsExclusive == Spec => []ClaimsAreExclusive
BY Invariance, PTL DEF Inv

\* Every delivery of a recipient beyond the first is paid for by an operator
\* retry or by an accepted send that Deliver reported as an error.
THEOREM DuplicatesAccounted == Spec => []DuplicatesAreAccountedFor
BY Invariance, PTL DEF Inv

\* A recipient shown as 'sent' was accepted by the provider.
THEOREM SentDelivered == Spec => []SentWasDelivered
BY Invariance, PTL DEF Inv

\* Without the faults "stamp" and "ambiguous" no acknowledgement is lost.
NoLostAck == \A r \in Rows : lostAck[r] = 0

LEMMA AcksAreReliable ==
  ASSUME "stamp" \notin Faults, "ambiguous" \notin Faults
  PROVE  Spec => []NoLostAck
<1>1. Init => NoLostAck
  BY DEF Init, NoLostAck
<1>2. NoLostAck /\ [Next]_vars => NoLostAck'
  <2> SUFFICES ASSUME NoLostAck, [Next]_vars PROVE lostAck' = lostAck
    BY DEF NoLostAck
  <2>1. CASE UNCHANGED vars
    BY <2>1 DEF vars, history
  <2>2. ASSUME NEW a \in Accounts, Worker(a) PROVE lostAck' = lostAck
    BY <2>2 DEF Worker, ClaimNextRecipient, ResolveChat, MarkChatCampaignOnly, StoreError, Send,
                StampOutboundSent, FinalizeAttempt, CountRecipients, CompleteIfDone, history
  <2>3. CASE Maintenance
    BY <2>3 DEF Maintenance, MaintStart, MaintSweep, MaintComplete, MaintEnd, MaintPromote,
                MaintCount, history
  <2>4. CASE Operator
    BY <2>4 DEF Operator, CreateCampaign, CampaignStatusTransition, DuplicateCampaign, ReadRequest,
                WriteStart, WriteContent, WriteSchedule, WriteRecipients, WriteRetry, WriteDelete, MayDelete,
                history
  <2>5. CASE Environment
    BY <2>5 DEF Environment, AutoPauseCampaigns, PruneCampaignSendLog, UpsertInbound, Suppressed,
                BackoffElapses, ScheduleArrives, Crash, Restart, ReconcileStuckSending, history
  <2> QED
    BY <2>1, <2>2, <2>3, <2>4, <2>5 DEF Next
<1> QED
  BY <1>1, <1>2, PTL DEF Spec

\* The claim-before-send order alone gives at-most-once delivery across
\* crashes and store errors, provided the provider call and the stamp after
\* it never fail once the message is out.
THEOREM AtMostOnceWithReliableAcks ==
  ASSUME "stamp" \notin Faults, "ambiguous" \notin Faults
  PROVE  Spec => []AtMostOnce
<1>1. Inv /\ NoLostAck => AtMostOnce
  <2> SUFFICES ASSUME Inv, NoLostAck, NEW r \in Rows, retried[r] = 0 PROVE delivered[r] <= 1
    BY DEF AtMostOnce
  <2>1. delivered[r] \in Nat /\ lostAck[r] = 0
    BY DEF Inv, TypeOK, NoLostAck
  <2>2. delivered[r] <= 1 + lostAck[r] + retried[r]
    BY DEF Inv, DuplicatesAreAccountedFor
  <2> QED
    BY <2>1, <2>2
<1> QED
  BY <1>1, AcksAreReliable, Invariance, PTL

\* No step, of a worker, an operator, the scheduler or the restart, takes a
\* recipient out of 'sent' or 'skipped' while its campaign exists.
THEOREM OutcomesFinal == Spec => OutcomeIsFinal
<1> DEFINE Keeps == \A r \in Rows : row[r] \in {"sent", "skipped"} =>
                      row'[r] = row[r] \/ status'[r[1]] = "deleted"
<1>1. Inv /\ [Next]_vars => Keeps
  <2> SUFFICES ASSUME Inv, [Next]_vars, NEW r \in Rows, row[r] \in {"sent", "skipped"}
               PROVE  row'[r] = row[r] \/ status'[r[1]] = "deleted"
    OBVIOUS
  <2>a. TypeOK /\ ClaimsAreExclusive /\ FreshIsEmpty
    BY DEF Inv, Accounting
  <2>1. CASE UNCHANGED vars
    BY <2>1 DEF vars, store
  <2>2. ASSUME NEW a \in Accounts, Worker(a) PROVE row'[r] = row[r]
    <3>1. ASSUME NEW q \in Rows, ClaimNextRecipient(a, q) PROVE row'[r] = row[r]
      BY <3>1, <2>a DEF ClaimNextRecipient, TypeOK
    <3>2. CASE FinalizeAttempt(a)
      <4>1. row[claim[a].row] = "sending"
        BY <3>2, <2>a DEF FinalizeAttempt, ClaimsAreExclusive, InFlight
      <4> QED
        BY <3>2, <4>1, <2>a DEF FinalizeAttempt, TypeOK
    <3>3. CASE \/ ResolveChat(a) \/ MarkChatCampaignOnly(a) \/ StoreError(a) \/ Send(a)
               \/ StampOutboundSent(a) \/ CountRecipients(a) \/ CompleteIfDone(a)
      BY <3>3 DEF ResolveChat, MarkChatCampaignOnly, StoreError, Send, StampOutboundSent,
                  CountRecipients, CompleteIfDone, store
    <3> QED
      BY <2>2, <3>1, <3>2, <3>3 DEF Worker
  <2>3. CASE Maintenance
    BY <2>3 DEF Maintenance, MaintStart, MaintSweep, MaintComplete, MaintEnd, MaintPromote,
                MaintCount, store
  <2>4. CASE Operator
    <3>1. ASSUME NEW src \in Campaigns, NEW dst \in Campaigns, DuplicateCampaign(src, dst)
          PROVE  row'[r] = row[r]
      BY <3>1, <2>a DEF DuplicateCampaign, FreshIsEmpty
    <3>2. ASSUME NEW o \in Operators, WriteRecipients(o) \/ WriteRetry(o) PROVE row'[r] = row[r]
      BY <3>2 DEF WriteRecipients, WriteRetry
    <3>3. ASSUME NEW o \in Operators, WriteDelete(o)
          PROVE  row'[r] = row[r] \/ status'[r[1]] = "deleted"
      <4>1. req[o].c \in Campaigns
        BY <3>3, <2>a, RequestType DEF WriteDelete, MayDelete
      <4> QED
        BY <3>3, <4>1, <2>a, RowFacts DEF WriteDelete, MayDelete, TypeOK
    <3>4. CASE \/ \E c \in Campaigns, a \in Accounts, b \in Bodies : CreateCampaign(c, a, b)
               \/ \E op \in {"pause", "resume", "stop"}, c \in Campaigns :
                    CampaignStatusTransition(op, c)
               \/ \E o \in Operators, op \in ReadThenWrite, c \in Campaigns : ReadRequest(o, op, c)
               \/ \E o \in Operators : WriteStart(o) \/ WriteContent(o) \/ WriteSchedule(o)
      BY <3>4 DEF CreateCampaign, CampaignStatusTransition, ReadRequest, WriteStart, WriteContent,
                  WriteSchedule, store
    <3> QED
      BY <2>4, <3>1, <3>2, <3>3, <3>4 DEF Operator
  <2>5. CASE Environment
    <3>1. ASSUME NEW a \in Accounts, NEW i \in Identities, UpsertInbound(a, i)
          PROVE  row'[r] = row[r]
      BY <3>1 DEF UpsertInbound, Suppressed
    <3>2. CASE Restart
      BY <3>2 DEF Restart, ReconcileStuckSending
    <3>3. CASE Crash
      BY <3>3 DEF Crash, store
    <3>4. CASE \/ \E a \in Accounts : AutoPauseCampaigns(a)
               \/ PruneCampaignSendLog
               \/ \E q \in Rows : BackoffElapses(q)
               \/ \E c \in Campaigns : ScheduleArrives(c)
      BY <3>4 DEF AutoPauseCampaigns, PruneCampaignSendLog, BackoffElapses, ScheduleArrives
    <3> QED
      BY <2>5, <3>1, <3>2, <3>3, <3>4 DEF Environment
  <2> QED
    BY <2>1, <2>2, <2>3, <2>4, <2>5 DEF Next
<1>2. [Keeps]_vars <=> [\A r \in Rows : row[r] \in {"sent", "skipped"} =>
                          row'[r] = row[r] \/ status'[r[1]] = "deleted"]_vars
  OBVIOUS
<1> QED
  BY <1>1, Invariance, PTL DEF Spec, OutcomeIsFinal

\* A write that goes through SetCampaignStatus leaves a terminal campaign as
\* it is: no edge leaves a terminal status.
LEMMA TerminalHasNoEdge ==
  ASSUME TypeOK, NEW c \in Campaigns, NEW d \in Campaigns, NEW to,
         SetCampaignStatus(d, to) \/ StatusStays, IsTerminal(status[c])
  PROVE  status'[c] = status[c]
<1>0. CASE StatusStays
  BY <1>0 DEF StatusStays
<1>1. CASE SetCampaignStatus(d, to) /\ CanTransition(status[d], to)
  <2>1. ~IsTerminal(status[d])
    BY <1>1 DEF CanTransition, Transitions, IsTerminal, TerminalStatus
  <2>2. c # d
    BY <2>1
  <2> QED
    BY <1>1, <2>2 DEF SetCampaignStatus, TypeOK
<1>2. CASE SetCampaignStatus(d, to) /\ ~CanTransition(status[d], to)
  BY <1>2 DEF SetCampaignStatus
<1> QED
  BY <1>0, <1>1, <1>2

\* A stopped or completed campaign is never revived: every handler and every
\* maintenance step that changes a status does so through a checked edge,
\* whatever it had read before.
THEOREM TerminalsFinal == Spec => TerminalIsFinal
<1> DEFINE Keeps == \A c \in Campaigns :
                      IsTerminal(status[c]) => status'[c] \in {status[c], "deleted"}
<1>1. TypeOK /\ [Next]_vars => Keeps
  <2> SUFFICES ASSUME TypeOK, [Next]_vars, NEW c \in Campaigns, IsTerminal(status[c])
               PROVE  status'[c] \in {status[c], "deleted"}
    OBVIOUS
  <2>1. CASE UNCHANGED vars
    BY <2>1 DEF vars, store
  <2>2. ASSUME NEW a \in Accounts, Worker(a) PROVE status'[c] = status[c]
    <3>1. CASE CompleteIfDone(a)
      <4>1. claim[a].row[1] \in Campaigns
        BY <3>1 DEF CompleteIfDone, TypeOK, Claims, Rows
      <4> QED
        BY <3>1, <4>1, TerminalHasNoEdge DEF CompleteIfDone
    <3>2. CASE \/ \E r \in Rows : ClaimNextRecipient(a, r)
               \/ ResolveChat(a) \/ MarkChatCampaignOnly(a) \/ StoreError(a) \/ Send(a)
               \/ StampOutboundSent(a) \/ FinalizeAttempt(a) \/ CountRecipients(a)
      BY <3>2 DEF ClaimNextRecipient, ResolveChat, MarkChatCampaignOnly, StoreError, Send,
                  StampOutboundSent, FinalizeAttempt, CountRecipients, store
    <3> QED
      BY <2>2, <3>1, <3>2 DEF Worker
  <2>3. CASE Maintenance
    <3>1. ASSUME NEW d \in Campaigns, MaintPromote(d) PROVE status'[c] = status[c]
      BY <3>1, TerminalHasNoEdge DEF MaintPromote
    <3>2. CASE MaintComplete
      <4>1. maint.c \in Campaigns
        BY DEF TypeOK
      <4> QED
        BY <3>2, <4>1, TerminalHasNoEdge DEF MaintComplete
    <3>3. CASE MaintStart \/ MaintSweep \/ MaintEnd \/ \E d \in Campaigns : MaintCount(d)
      BY <3>3 DEF MaintStart, MaintSweep, MaintEnd, MaintCount, store
    <3> QED
      BY <2>3, <3>1, <3>2, <3>3 DEF Maintenance
  <2>4. CASE Operator
    <3>1. ASSUME NEW op \in {"pause", "resume", "stop"}, NEW d \in Campaigns,
                 CampaignStatusTransition(op, d)
          PROVE  status'[c] = status[c]
      BY <3>1, TerminalHasNoEdge DEF CampaignStatusTransition
    <3>2. ASSUME NEW o \in Operators, WriteStart(o) PROVE status'[c] = status[c]
      <4>1. req[o].c \in Campaigns
        BY <3>2, RequestType DEF WriteStart
      <4> QED
        BY <3>2, <4>1, TerminalHasNoEdge DEF WriteStart
    <3>3. ASSUME NEW o \in Operators, WriteDelete(o) PROVE status'[c] \in {status[c], "deleted"}
      BY <3>3 DEF WriteDelete, TypeOK
    <3>4. CASE \/ \E d \in Campaigns, a \in Accounts, b \in Bodies : CreateCampaign(d, a, b)
               \/ \E src, dst \in Campaigns : DuplicateCampaign(src, dst)
      BY <3>4 DEF CreateCampaign, DuplicateCampaign, TypeOK, IsTerminal, TerminalStatus
    <3>5. CASE \/ \E o \in Operators, op \in ReadThenWrite, d \in Campaigns : ReadRequest(o, op, d)
               \/ \E o \in Operators : \/ WriteContent(o) \/ WriteSchedule(o)
                                       \/ WriteRecipients(o) \/ WriteRetry(o)
      BY <3>5 DEF ReadRequest, WriteContent, WriteSchedule, WriteRecipients, WriteRetry, store
    <3> QED
      BY <2>4, <3>1, <3>2, <3>3, <3>4, <3>5 DEF Operator
  <2>5. CASE Environment
    <3>1. ASSUME NEW a \in Accounts, AutoPauseCampaigns(a) PROVE status'[c] = status[c]
      BY <3>1 DEF AutoPauseCampaigns, IsTerminal, TerminalStatus
    <3>2. CASE \/ PruneCampaignSendLog \/ Crash \/ Restart
               \/ \E a \in Accounts, i \in Identities : UpsertInbound(a, i)
               \/ \E r \in Rows : BackoffElapses(r)
               \/ \E d \in Campaigns : ScheduleArrives(d)
      BY <3>2 DEF PruneCampaignSendLog, Crash, Restart, UpsertInbound, BackoffElapses,
                  ScheduleArrives, store
    <3> QED
      BY <2>5, <3>1, <3>2 DEF Environment
  <2> QED
    BY <2>1, <2>2, <2>3, <2>4, <2>5 DEF Next
<1>2. [Keeps]_vars <=> [\A c \in Campaigns :
                          IsTerminal(status[c]) => status'[c] \in {status[c], "deleted"}]_vars
  OBVIOUS
<1> QED
  BY <1>1, TypeCorrect, PTL DEF Spec, TerminalIsFinal

----------------------------------------------------------------------------
(* Chats the customer opened.                                               *)

\* A chat that is about to be marked was created by this very attempt.
ChatInv ==
  /\ OrganicChatsStayVisible
  /\ \A a \in Accounts : pc[a] = "mark" => chat[ChatOf(a)] # "none" /\ ChatOf(a) \notin organic

LEMMA KeepsChats ==
  ASSUME ChatInv, UNCHANGED <<chat, organic>>,
         \A a \in Accounts : pc'[a] = "mark" => pc[a] = "mark" /\ claim'[a] = claim[a]
  PROVE  ChatInv'
BY DEF ChatInv, OrganicChatsStayVisible, ChatOf

\* A worker's chat is one of its own account's.
LEMMA OwnChat ==
  ASSUME TypeOK, NEW a \in Accounts, pc[a] # "idle"
  PROVE  ChatOf(a) \in Chats /\ ChatOf(a)[1] = a
BY DEF TypeOK, ChatOf, Claims, Chats, Rows

LEMMA WorkerChats ==
  ASSUME TypeOK, ChatInv, NEW a \in Accounts, Worker(a)
  PROVE  ChatInv'
<1>1. CASE ResolveChat(a)
  <2>1. CASE a \in ColdAccounts /\ chat[ChatOf(a)] = "none" /\ chat' = [chat EXCEPT ![ChatOf(a)] = "open"]
             /\ pc' = [pc EXCEPT ![a] = "mark"] /\ UNCHANGED <<claim, organic>>
    <3>1. /\ ChatOf(a) \in Chats /\ ChatOf(a)[1] = a
          /\ \A b \in Accounts : pc[b] # "idle" => ChatOf(b) \in Chats /\ ChatOf(b)[1] = b
      BY <1>1, OwnChat DEF ResolveChat
    <3>2. ChatOf(a) \notin organic
      BY <2>1 DEF ChatInv, OrganicChatsStayVisible
    <3>3. \A b \in Accounts : ChatOf(b)' = ChatOf(b)
      BY <2>1 DEF ChatOf
    <3>4. OrganicChatsStayVisible'
      BY <2>1, <3>2 DEF ChatInv, OrganicChatsStayVisible, TypeOK
    <3>5. chat'[ChatOf(a)] # "none" /\ ChatOf(a) \notin organic'
      BY <2>1, <3>1, <3>2 DEF TypeOK
    <3>6. ASSUME NEW b \in Accounts, pc'[b] = "mark", b # a
          PROVE  chat'[ChatOf(b)] # "none" /\ ChatOf(b) \notin organic'
      <4>1. pc[b] = "mark"
        BY <2>1, <3>6 DEF TypeOK
      <4>2. chat'[ChatOf(b)] = chat[ChatOf(b)]
        BY <2>1, <3>1, <3>6, <4>1 DEF TypeOK
      <4> QED
        BY <2>1, <4>1, <4>2 DEF ChatInv
    <3> QED
      BY <3>3, <3>4, <3>5, <3>6 DEF ChatInv
  <2>2. CASE UNCHANGED <<chat, organic>> /\ \A b \in Accounts : pc'[b] = "mark" => pc[b] = "mark" /\ claim'[b] = claim[b]
    BY <2>2, KeepsChats
  <2> QED
    BY <1>1, <2>1, <2>2 DEF ResolveChat, Fails, TypeOK, history
<1>2. CASE MarkChatCampaignOnly(a)
  <2>1. /\ pc[a] = "mark" /\ ChatOf(a) \in Chats /\ ChatOf(a) \notin organic
        /\ chat' = chat \/ chat' = [chat EXCEPT ![ChatOf(a)] = "campaign"]
        /\ pc' = [pc EXCEPT ![a] = "send"] /\ UNCHANGED <<claim, organic>>
    BY <1>2, OwnChat DEF MarkChatCampaignOnly, ChatInv, history
  <2>2. OrganicChatsStayVisible'
    BY <2>1 DEF ChatInv, OrganicChatsStayVisible, TypeOK
  <2>3. ASSUME NEW b \in Accounts, pc'[b] = "mark"
        PROVE  chat'[ChatOf(b)] # "none" /\ ChatOf(b) \notin organic'
    <3>1. pc[b] = "mark"
      BY <2>1, <2>3 DEF TypeOK
    <3>2. ChatOf(b) \in Chats /\ chat[ChatOf(b)] # "none" /\ ChatOf(b) \notin organic
      BY <3>1, OwnChat DEF ChatInv
    <3> QED
      BY <2>1, <3>2 DEF TypeOK
  <2>4. \A b \in Accounts : ChatOf(b)' = ChatOf(b)
    BY <2>1 DEF ChatOf
  <2> QED
    BY <2>2, <2>3, <2>4 DEF ChatInv
<1>3. CASE \/ \E r \in Rows : ClaimNextRecipient(a, r)
           \/ StoreError(a) \/ Send(a) \/ StampOutboundSent(a)
           \/ FinalizeAttempt(a) \/ CountRecipients(a) \/ CompleteIfDone(a)
  <2>1. /\ UNCHANGED <<chat, organic>>
        /\ \A b \in Accounts \ {a} : pc'[b] = pc[b] /\ claim'[b] = claim[b]
        /\ pc'[a] # "mark"
    BY <1>3 DEF ClaimNextRecipient, StoreError, Send, Fails, Accepted, StampOutboundSent,
                FinalizeAttempt, CountRecipients, CompleteIfDone, TypeOK, store, history
  <2> QED
    BY <2>1, KeepsChats
<1> QED
  BY <1>1, <1>2, <1>3 DEF Worker

\* A chat the customer opens did not exist before, so no attempt created it.
LEMMA EnvironmentChats ==
  ASSUME TypeOK, ChatInv, Environment
  PROVE  ChatInv'
<1>1. ASSUME NEW k \in Accounts, NEW i \in Identities, UpsertInbound(k, i) PROVE ChatInv'
  <2>1. /\ <<k, i>> \in Chats
        /\ chat' = [chat EXCEPT ![<<k, i>>] = "open"]
        /\ organic' = IF chat[<<k, i>>] = "none" THEN organic \cup {<<k, i>>} ELSE organic
        /\ UNCHANGED <<pc, claim>>
    BY <1>1 DEF UpsertInbound, Suppressed, Chats, process
  <2>2. OrganicChatsStayVisible'
    BY <2>1 DEF ChatInv, OrganicChatsStayVisible, TypeOK
  <2>3. ASSUME NEW b \in Accounts, pc[b] = "mark"
        PROVE  chat'[ChatOf(b)] # "none" /\ ChatOf(b) \notin organic'
    BY <2>1, <2>3, OwnChat DEF ChatInv, TypeOK
  <2>4. \A b \in Accounts : ChatOf(b)' = ChatOf(b)
    BY <2>1 DEF ChatOf
  <2> QED
    BY <2>1, <2>2, <2>3, <2>4 DEF ChatInv
<1>2. CASE Crash
  BY <1>2, KeepsChats DEF Crash, store, history
<1>3. CASE \/ PruneCampaignSendLog \/ Restart
           \/ \E a \in Accounts : AutoPauseCampaigns(a)
           \/ \E r \in Rows : BackoffElapses(r)
           \/ \E c \in Campaigns : ScheduleArrives(c)
  BY <1>3, KeepsChats DEF PruneCampaignSendLog, Restart, ReconcileStuckSending, AutoPauseCampaigns,
     BackoffElapses, ScheduleArrives, process, history
<1> QED
  BY <1>1, <1>2, <1>3 DEF Environment

\* A chat the customer opened is never hidden: only a chat that an attempt
\* created itself is marked, and a chat is created once.
THEOREM OrganicVisible == Spec => []OrganicChatsStayVisible
<1>1. Init => ChatInv
  BY DEF Init, ChatInv, OrganicChatsStayVisible
<1>2. TypeOK /\ ChatInv /\ [Next]_vars => ChatInv'
  <2> SUFFICES ASSUME TypeOK, ChatInv, [Next]_vars PROVE ChatInv'
    OBVIOUS
  <2>1. CASE UNCHANGED vars
    BY <2>1, KeepsChats DEF vars, store, process, history
  <2>2. CASE Maintenance
    BY <2>2, KeepsChats DEF Maintenance, MaintStart, MaintSweep, MaintComplete, MaintEnd,
       MaintPromote, MaintCount, store, history
  <2>3. CASE Operator
    BY <2>3, KeepsChats DEF Operator, CreateCampaign, CampaignStatusTransition, DuplicateCampaign,
       ReadRequest, WriteStart, WriteContent, WriteSchedule, WriteRecipients, WriteRetry,
       WriteDelete, MayDelete, store, process, history
  <2> QED
    BY <2>1, <2>2, <2>3, WorkerChats, EnvironmentChats DEF Next
<1>3. ChatInv => OrganicChatsStayVisible
  BY DEF ChatInv
<1> QED
  BY <1>1, <1>2, <1>3, TypeCorrect, PTL DEF Spec

----------------------------------------------------------------------------
(* Excluded operations do not happen.                                       *)

RequestsAllowed == \A o \in Operators : req[o] # NoReq => req[o].op \in Ops

LEMMA OnlyAllowedRequests == Spec => []RequestsAllowed
<1>1. Init => RequestsAllowed
  BY DEF Init, RequestsAllowed
<1>2. TypeOK /\ RequestsAllowed /\ [Next]_vars => RequestsAllowed'
  <2> SUFFICES ASSUME TypeOK, RequestsAllowed, [Next]_vars PROVE RequestsAllowed'
    OBVIOUS
  <2>1. ASSUME NEW o \in Operators, NEW op \in ReadThenWrite, NEW c \in Campaigns,
               ReadRequest(o, op, c)
        PROVE  RequestsAllowed'
    BY <2>1 DEF ReadRequest, Request, RequestsAllowed, TypeOK
  <2>2. ASSUME NEW o \in Operators, NEW op, Writes(o, op) PROVE RequestsAllowed'
    BY <2>2 DEF Writes, RequestsAllowed, TypeOK
  <2>3. CASE req' = req \/ req' = [o \in Operators |-> NoReq]
    BY <2>3 DEF RequestsAllowed
  <2>4. CASE Operator
    BY <2>1, <2>2, <2>3, <2>4 DEF Operator, CreateCampaign, CampaignStatusTransition,
       DuplicateCampaign, WriteStart, WriteContent, WriteSchedule, WriteRecipients, WriteRetry,
       WriteDelete, process
  <2>5. ASSUME NEW a \in Accounts, Worker(a) PROVE req' = req
    BY <2>5 DEF Worker, ClaimNextRecipient, ResolveChat, MarkChatCampaignOnly, StoreError, Send,
       StampOutboundSent, FinalizeAttempt, CountRecipients, CompleteIfDone
  <2>6. CASE Maintenance
    BY <2>3, <2>6 DEF Maintenance, MaintStart, MaintSweep, MaintComplete, MaintEnd, MaintPromote,
       MaintCount
  <2>7. CASE Environment
    BY <2>3, <2>7 DEF Environment, AutoPauseCampaigns, PruneCampaignSendLog, UpsertInbound,
       Suppressed, BackoffElapses, ScheduleArrives, Crash, Restart, ReconcileStuckSending, process
  <2>8. CASE UNCHANGED vars
    BY <2>3, <2>8 DEF vars, process
  <2> QED
    BY <2>3, <2>4, <2>5, <2>6, <2>7, <2>8 DEF Next
<1> QED
  BY <1>1, <1>2, TypeCorrect, PTL DEF Spec

----------------------------------------------------------------------------
(* What a completed campaign has left open.                                 *)

\* The account of a campaign that exists stays the same.  (Without this a
\* worker of the old account completes the campaign on its own count, while
\* one of the new account has just claimed a retried recipient: README,
\* section 5.)
AccountsStay == "content" \notin Ops \/ \A a, b \in Accounts : a = b

NoneSending(c) == \A r \in RowsOf(c) : row[r] # "sending"

\* A campaign is claimed from by the worker of its account alone, so the
\* count that worker acts on still stands; maintenance lets no worker claim.
OpenInv ==
  /\ CompletedIsSettled
  /\ \A a \in Accounts : pc[a] # "idle" =>
       status[claim[a].row[1]] # "absent" /\ acct[claim[a].row[1]] = a
  /\ \A a \in Accounts : pc[a] = "complete" => NoneSending(claim[a].row[1])
  /\ maint.pc = "complete" => NoneSending(maint.c)

\* A step that opens no send, completes no campaign and moves no campaign.
LEMMA KeepsOpen ==
  ASSUME TypeOK, OpenInv,
         \A r \in Rows : row'[r] = "sending" => row[r] = "sending",
         \A c \in Campaigns : /\ status'[c] = "completed" => status[c] = "completed"
                              /\ status'[c] = "absent" => status[c] = "absent"
                              /\ status[c] # "absent" => acct'[c] = acct[c],
         \A a \in Accounts : /\ pc'[a] # "idle" => pc[a] # "idle" /\ claim'[a].row = claim[a].row
                             /\ pc'[a] = "complete" => pc[a] = "complete",
         maint'.pc = "complete" => maint.pc = "complete" /\ maint'.c = maint.c
  PROVE  OpenInv'
<1>1. CompletedIsSettled'
  BY RowFacts DEF OpenInv, CompletedIsSettled
<1>2. ASSUME NEW a \in Accounts, pc'[a] # "idle"
      PROVE  status'[claim'[a].row[1]] # "absent" /\ acct'[claim'[a].row[1]] = a
  <2>1. claim'[a].row[1] \in Campaigns
    BY <1>2, RowFacts DEF TypeOK, Claims
  <2> QED
    BY <1>2, <2>1 DEF OpenInv
<1>3. ASSUME NEW a \in Accounts, pc'[a] = "complete" PROVE NoneSending(claim[a].row[1])'
  <2>1. claim'[a].row = claim[a].row /\ claim[a].row[1] \in Campaigns /\ NoneSending(claim[a].row[1])
    BY <1>3, RowFacts DEF TypeOK, Claims, OpenInv
  <2> QED
    BY <2>1, RowFacts DEF NoneSending
<1>4. maint'.pc = "complete" => NoneSending(maint.c)'
  BY RowFacts DEF NoneSending, OpenInv, TypeOK
<1> QED
  BY <1>1, <1>2, <1>3, <1>4 DEF OpenInv

\* SetCampaignStatus completes a campaign only when asked to.
LEMMA OnlyCompletes ==
  ASSUME TypeOK, NEW c \in Campaigns, NEW to \in CampaignStatus,
         SetCampaignStatus(c, to) \/ StatusStays
  PROVE  \A d \in Campaigns :
           /\ status'[d] = "completed" => status[d] = "completed" \/ (d = c /\ to = "completed")
           /\ status'[d] = "absent" => status[d] = "absent"
BY DEF SetCampaignStatus, StatusStays, TypeOK, CanTransition, Transitions, CampaignStatus

LEMMA WorkerOpen ==
  ASSUME TypeOK, OpenInv, NEW a \in Accounts, Worker(a)
  PROVE  OpenInv'
<1>1. ASSUME NEW r \in Rows, ClaimNextRecipient(a, r) PROVE OpenInv'
  <2>1. /\ r[1] \in Campaigns /\ acct[r[1]] = a /\ status[r[1]] = "running"
        /\ row' = [row EXCEPT ![r] = "sending"]
        /\ UNCHANGED <<status, acct, maint>> /\ maint.pc = "idle"
        /\ pc'[a] = "resolve" /\ claim'[a].row = r
        /\ \A b \in Accounts \ {a} : pc'[b] = pc[b] /\ claim'[b] = claim[b]
    BY <1>1, RowFacts DEF ClaimNextRecipient, MaintIdle, TypeOK
  <2>2. CompletedIsSettled'
    BY <2>1, RowFacts DEF OpenInv, CompletedIsSettled, TypeOK
  <2>3. ASSUME NEW b \in Accounts, pc'[b] # "idle"
        PROVE  status'[claim'[b].row[1]] # "absent" /\ acct'[claim'[b].row[1]] = b
    BY <2>1, <2>3 DEF OpenInv
  <2>4. ASSUME NEW b \in Accounts, pc'[b] = "complete" PROVE NoneSending(claim[b].row[1])'
    <3>1. b # a /\ claim'[b] = claim[b] /\ NoneSending(claim[b].row[1]) /\ claim[b].row[1] # r[1]
      BY <2>1, <2>4 DEF OpenInv
    <3>2. claim[b].row[1] \in Campaigns
      BY <2>1, <2>4, <3>1, RowFacts DEF TypeOK, Claims
    <3> QED
      BY <2>1, <3>1, <3>2, RowFacts DEF NoneSending, TypeOK
  <2> QED
    BY <2>1, <2>2, <2>3, <2>4 DEF OpenInv
<1>2. CASE CountRecipients(a)
  <2>1. /\ UNCHANGED <<row, status, acct, maint>>
        /\ \A b \in Accounts \ {a} : pc'[b] = pc[b] /\ claim'[b] = claim[b]
        /\ pc[a] # "idle"
        /\ \/ pc'[a] = "idle"
           \/ pc'[a] = "complete" /\ claim'[a] = claim[a] /\ NoneSending(claim[a].row[1])
    BY <1>2 DEF CountRecipients, Drained, Has, NoneSending, TypeOK, store
  <2> QED
    BY <2>1 DEF OpenInv, CompletedIsSettled, NoneSending
<1>3. CASE CompleteIfDone(a)
  <2>1. /\ UNCHANGED <<row, acct, maint>> /\ pc[a] = "complete" /\ pc'[a] = "idle"
        /\ \A b \in Accounts \ {a} : pc'[b] = pc[b] /\ claim'[b] = claim[b]
        /\ claim[a].row[1] \in Campaigns /\ NoneSending(claim[a].row[1])
    BY <1>3, RowFacts DEF CompleteIfDone, TypeOK, Claims, OpenInv
  <2>2. \A d \in Campaigns :
          /\ status'[d] = "completed" => status[d] = "completed" \/ d = claim[a].row[1]
          /\ status'[d] = "absent" => status[d] = "absent"
    BY <1>3, <2>1, OnlyCompletes DEF CompleteIfDone, CampaignStatus
  <2>3. CompletedIsSettled'
    BY <2>1, <2>2 DEF OpenInv, CompletedIsSettled, NoneSending
  <2>4. ASSUME NEW b \in Accounts, pc'[b] # "idle"
        PROVE  /\ status'[claim'[b].row[1]] # "absent" /\ acct'[claim'[b].row[1]] = b
               /\ pc'[b] = "complete" => NoneSending(claim[b].row[1])'
    <3>1. b # a /\ claim[b].row[1] \in Campaigns
      BY <2>1, <2>4, RowFacts DEF TypeOK, Claims
    <3> QED
      BY <2>1, <2>2, <2>4, <3>1 DEF OpenInv, NoneSending
  <2> QED
    BY <2>1, <2>3, <2>4 DEF OpenInv, NoneSending
<1>4. CASE FinalizeAttempt(a)
  <2>1. /\ UNCHANGED <<status, acct, maint>> /\ pc[a] = "finalize" /\ pc'[a] # "complete"
        /\ pc'[a] # "idle" => claim'[a] = claim[a]
        /\ \A b \in Accounts \ {a} : pc'[b] = pc[b] /\ claim'[b] = claim[b]
    BY <1>4 DEF FinalizeAttempt, TypeOK
  <2>2. \A r \in Rows : row'[r] = "sending" => row[r] = "sending"
    BY <1>4 DEF FinalizeAttempt, NewStatus, TypeOK
  <2> QED
    BY <2>1, <2>2, KeepsOpen
<1>5. CASE \/ ResolveChat(a) \/ MarkChatCampaignOnly(a) \/ StoreError(a) \/ Send(a)
           \/ StampOutboundSent(a)
  <2>1. /\ UNCHANGED <<row, status, acct, maint>> /\ pc[a] # "idle" /\ pc'[a] # "complete"
        /\ \A b \in Accounts \ {a} : pc'[b] = pc[b] /\ claim'[b] = claim[b]
    BY <1>5 DEF ResolveChat, MarkChatCampaignOnly, StoreError, Send, StampOutboundSent, Fails,
                TypeOK, store
  <2>2. claim'[a].row = claim[a].row
    BY <1>5 DEF ResolveChat, MarkChatCampaignOnly, StoreError, Send, StampOutboundSent, Fails,
                TypeOK, Claims
  <2> QED
    BY <2>1, <2>2, KeepsOpen
<1> QED
  BY <1>1, <1>2, <1>3, <1>4, <1>5 DEF Worker

\* No worker claims while maintenance runs.
LEMMA MaintenanceOpen ==
  ASSUME TypeOK, OpenInv, Maintenance
  PROVE  OpenInv'
<1>1. UNCHANGED <<row, acct, pc, claim>>
  BY DEF Maintenance, MaintStart, MaintSweep, MaintComplete, MaintEnd, MaintPromote, MaintCount,
         store
<1>2. ASSUME NEW c \in Campaigns, MaintPromote(c) PROVE OpenInv'
  <2>1. maint'.pc # "complete"
    BY <1>2 DEF MaintPromote, TypeOK
  <2>2. \A d \in Campaigns : /\ status'[d] = "completed" => status[d] = "completed"
                             /\ status'[d] = "absent" => status[d] = "absent"
                             /\ status[d] # "absent" => acct'[d] = acct[d]
    BY <1>1, <1>2, OnlyCompletes DEF MaintPromote, CampaignStatus
  <2>3. \A a \in Accounts : /\ pc'[a] # "idle" => pc[a] # "idle" /\ claim'[a].row = claim[a].row
                            /\ pc'[a] = "complete" => pc[a] = "complete"
    BY <1>1
  <2>4. \A r \in Rows : row'[r] = "sending" => row[r] = "sending"
    BY <1>1
  <2> QED
    BY <2>1, <2>2, <2>3, <2>4, KeepsOpen
<1>3. ASSUME NEW c \in Campaigns, MaintCount(c) PROVE OpenInv'
  <2>1. /\ status' = status /\ maint'.c = c
        /\ maint'.pc = "complete" => NoneSending(c)
    BY <1>3 DEF MaintCount, Drained, Has, NoneSending, TypeOK, store
  <2> QED
    BY <1>1, <2>1 DEF OpenInv, CompletedIsSettled, NoneSending
<1>4. CASE MaintComplete
  <2>1. maint.c \in Campaigns /\ NoneSending(maint.c) /\ maint'.pc = "sweep"
    BY <1>4 DEF MaintComplete, TypeOK, OpenInv
  <2>2. \A d \in Campaigns : /\ status'[d] = "completed" => status[d] = "completed" \/ d = maint.c
                             /\ status'[d] = "absent" => status[d] = "absent"
    BY <1>4, <2>1, OnlyCompletes DEF MaintComplete, CampaignStatus
  <2>3. CompletedIsSettled'
    <3> SUFFICES ASSUME NEW c \in Campaigns, status'[c] = "completed", NEW r \in RowsOf(c)
                 PROVE  row'[r] # "sending"
      BY DEF CompletedIsSettled
    <3>1. status[c] = "completed" \/ c = maint.c
      BY <2>2
    <3> QED
      BY <1>1, <2>1, <3>1 DEF OpenInv, CompletedIsSettled, NoneSending
  <2>4. \A b \in Accounts : pc[b] # "idle" => claim[b].row[1] \in Campaigns
    BY RowFacts DEF TypeOK, Claims
  <2> QED
    BY <1>1, <2>1, <2>2, <2>3, <2>4 DEF OpenInv, NoneSending
<1>5. CASE MaintStart \/ MaintSweep \/ MaintEnd
  <2>1. status' = status /\ maint'.pc # "complete"
    <3>1. CASE MaintStart
      BY <3>1 DEF MaintStart, TypeOK, store
    <3>2. CASE MaintSweep
      <4>1. status' = status BY <3>2 DEF MaintSweep, store
      <4>2. CASE maint' = NoMaint BY <4>1, <4>2 DEF NoMaint
      <4>3. CASE maint' # NoMaint BY <3>2, <4>1, <4>3 DEF MaintSweep, TypeOK
      <4> QED BY <4>1, <4>2, <4>3
    <3>3. CASE MaintEnd
      BY <3>3 DEF MaintEnd, NoMaint, store
    <3> QED
      BY <1>5, <3>1, <3>2, <3>3
  <2> QED
    BY <1>1, <2>1, KeepsOpen
<1> QED
  BY <1>2, <1>3, <1>4, <1>5 DEF Maintenance

\* No handler makes a row 'sending' or completes a campaign, and the one that
\* changes accounts is excluded, or has no other account to change to.
LEMMA OperatorOpen ==
  ASSUME AccountsStay, TypeOK, RequestsAllowed, OpenInv, Operator
  PROVE  OpenInv'
<1>1. UNCHANGED <<pc, claim, maint>>
  BY DEF Operator, CreateCampaign, CampaignStatusTransition, DuplicateCampaign, ReadRequest,
         WriteStart, WriteContent, WriteSchedule, WriteRecipients, WriteRetry, WriteDelete,
         MayDelete, process
<1>2. \A r \in Rows : row'[r] = "sending" => row[r] = "sending"
  <2>1. CASE \E o \in Operators : WriteRecipients(o)
    BY <2>1 DEF WriteRecipients
  <2>2. CASE \E o \in Operators : WriteRetry(o) \/ WriteDelete(o)
    BY <2>2 DEF WriteRetry, WriteDelete, MayDelete
  <2>3. CASE \E src, dst \in Campaigns : DuplicateCampaign(src, dst)
    BY <2>3 DEF DuplicateCampaign
  <2>4. CASE row' = row
    BY <2>4
  <2> QED
    BY <2>1, <2>2, <2>3, <2>4 DEF Operator, CreateCampaign, CampaignStatusTransition, ReadRequest,
       WriteStart, WriteContent, WriteSchedule, store
<1>3. \A d \in Campaigns : /\ status'[d] = "completed" => status[d] = "completed"
                           /\ status'[d] = "absent" => status[d] = "absent"
  <2>1. ASSUME NEW op \in {"pause", "resume", "stop"}, NEW c \in Campaigns,
               CampaignStatusTransition(op, c), NEW d \in Campaigns
        PROVE  /\ status'[d] = "completed" => status[d] = "completed"
               /\ status'[d] = "absent" => status[d] = "absent"
    BY <2>1, OnlyCompletes DEF CampaignStatusTransition, CampaignStatus
  <2>2. ASSUME NEW o \in Operators, WriteStart(o), NEW d \in Campaigns
        PROVE  /\ status'[d] = "completed" => status[d] = "completed"
               /\ status'[d] = "absent" => status[d] = "absent"
    <3>1. req[o].c \in Campaigns /\ req[o].to \in CampaignStatus /\ req[o].to # "completed"
      BY <2>2 DEF WriteStart, Writes, TypeOK, Requests, CampaignStatus
    <3> QED
      BY <2>2, <3>1, OnlyCompletes DEF WriteStart
  <2>3. ASSUME NEW o \in Operators, WriteDelete(o), NEW d \in Campaigns
        PROVE  /\ status'[d] = "completed" => status[d] = "completed"
               /\ status'[d] = "absent" => status[d] = "absent"
    BY <2>3 DEF WriteDelete, MayDelete, TypeOK
  <2>4. CASE \/ \E c \in Campaigns, a \in Accounts, b \in Bodies : CreateCampaign(c, a, b)
             \/ \E src, dst \in Campaigns : DuplicateCampaign(src, dst)
    BY <2>4 DEF CreateCampaign, DuplicateCampaign, TypeOK
  <2>5. CASE \/ \E o \in Operators, op \in ReadThenWrite, c \in Campaigns : ReadRequest(o, op, c)
             \/ \E o \in Operators : WriteContent(o) \/ WriteSchedule(o) \/ WriteRecipients(o)
                                     \/ WriteRetry(o)
    BY <2>5 DEF ReadRequest, WriteContent, WriteSchedule, WriteRecipients, WriteRetry, store
  <2> QED
    BY <2>1, <2>2, <2>3, <2>4, <2>5 DEF Operator
<1>4. \A c \in Campaigns : status[c] # "absent" => acct'[c] = acct[c]
  <2>1. ASSUME NEW o \in Operators, WriteContent(o) PROVE acct' = acct
    <3>1. req[o].op \in Ops /\ req[o].op = "content"
      BY <2>1 DEF WriteContent, Writes, RequestsAllowed
    <3>2. \A a, b \in Accounts : a = b
      BY <3>1 DEF AccountsStay
    <3>3. acct' \in [Campaigns -> Accounts]
      BY <2>1 DEF WriteContent, TypeOK
    <3> QED
      BY <3>2, <3>3 DEF TypeOK
  <2>2. CASE \/ \E c \in Campaigns, a \in Accounts, b \in Bodies : CreateCampaign(c, a, b)
             \/ \E src, dst \in Campaigns : DuplicateCampaign(src, dst)
    BY <2>2 DEF CreateCampaign, DuplicateCampaign, TypeOK
  <2>3. CASE \/ \E op \in {"pause", "resume", "stop"}, c \in Campaigns : CampaignStatusTransition(op, c)
             \/ \E o \in Operators, op \in ReadThenWrite, c \in Campaigns : ReadRequest(o, op, c)
             \/ \E o \in Operators : \/ WriteStart(o) \/ WriteSchedule(o)
                                     \/ WriteRecipients(o) \/ WriteRetry(o) \/ WriteDelete(o)
    BY <2>3 DEF CampaignStatusTransition, ReadRequest, WriteStart, WriteSchedule, WriteRecipients,
       WriteRetry, WriteDelete, MayDelete, store
  <2> QED
    BY <2>1, <2>2, <2>3 DEF Operator
<1>5. \A d \in Campaigns : /\ status'[d] = "completed" => status[d] = "completed"
                           /\ status'[d] = "absent" => status[d] = "absent"
                           /\ status[d] # "absent" => acct'[d] = acct[d]
  BY <1>3, <1>4
<1>6. /\ \A a \in Accounts : /\ pc'[a] # "idle" => pc[a] # "idle" /\ claim'[a].row = claim[a].row
                             /\ pc'[a] = "complete" => pc[a] = "complete"
      /\ maint'.pc = "complete" => maint.pc = "complete" /\ maint'.c = maint.c
  BY <1>1
<1> QED
  BY <1>2, <1>5, <1>6, KeepsOpen

LEMMA EnvironmentOpen ==
  ASSUME TypeOK, OpenInv, Environment
  PROVE  OpenInv'
<1>1. \A r \in Rows : row'[r] = "sending" => row[r] = "sending"
  <2>1. CASE \E a \in Accounts, i \in Identities : UpsertInbound(a, i)
    BY <2>1 DEF UpsertInbound
  <2>2. CASE Restart
    BY <2>2 DEF Restart, ReconcileStuckSending
  <2>3. CASE row' = row
    BY <2>3
  <2> QED
    BY <2>1, <2>2, <2>3 DEF Environment, AutoPauseCampaigns, PruneCampaignSendLog, BackoffElapses,
       ScheduleArrives, Crash, store
<1>2. acct' = acct
  BY DEF Environment, AutoPauseCampaigns, PruneCampaignSendLog, UpsertInbound, Suppressed,
     BackoffElapses, ScheduleArrives, Crash, Restart, ReconcileStuckSending, store
<1>3. \A d \in Campaigns : /\ status'[d] = "completed" => status[d] = "completed"
                           /\ status'[d] = "absent" => status[d] = "absent"
                           /\ status[d] # "absent" => acct'[d] = acct[d]
  <2>1. ASSUME NEW a \in Accounts, AutoPauseCampaigns(a), NEW d \in Campaigns
        PROVE  /\ status'[d] = "completed" => status[d] = "completed"
               /\ status'[d] = "absent" => status[d] = "absent"
    BY <2>1 DEF AutoPauseCampaigns
  <2> QED
    BY <1>2, <2>1 DEF Environment, PruneCampaignSendLog, UpsertInbound, Suppressed,
       BackoffElapses, ScheduleArrives, Crash, Restart, ReconcileStuckSending, store
<1>4. \/ UNCHANGED <<pc, claim, maint>>
      \/ maint' = NoMaint /\ \A a \in Accounts : pc'[a] = "idle"
  BY DEF Environment, AutoPauseCampaigns, PruneCampaignSendLog, UpsertInbound, Suppressed,
     BackoffElapses, ScheduleArrives, Crash, Restart, ReconcileStuckSending, process
<1>5. /\ \A a \in Accounts : /\ pc'[a] # "idle" => pc[a] # "idle" /\ claim'[a].row = claim[a].row
                             /\ pc'[a] = "complete" => pc[a] = "complete"
      /\ maint'.pc = "complete" => maint.pc = "complete" /\ maint'.c = maint.c
  BY <1>4 DEF NoMaint
<1> QED
  BY <1>1, <1>3, <1>5, KeepsOpen

\* A campaign completes only when no send of it is open, whatever finalize
\* failed, was retried or crashed before: provided the campaign stays with
\* one account.
THEOREM CompletedSettled ==
  ASSUME AccountsStay
  PROVE  Spec => []CompletedIsSettled
<1>1. Init => OpenInv
  BY DEF Init, OpenInv, CompletedIsSettled, NoMaint
<1>2. TypeOK /\ RequestsAllowed /\ OpenInv /\ [Next]_vars => OpenInv'
  <2>1. OpenInv /\ UNCHANGED vars => OpenInv'
    BY DEF vars, store, process, OpenInv, CompletedIsSettled, NoneSending
  <2> QED
    BY <2>1, WorkerOpen, MaintenanceOpen, OperatorOpen, EnvironmentOpen DEF Next
<1>3. OpenInv => CompletedIsSettled
  BY DEF OpenInv
<1> QED
  BY <1>1, <1>2, <1>3, TypeCorrect, OnlyAllowedRequests, PTL DEF Spec

----------------------------------------------------------------------------
(* What a deleted campaign had sent.                                        *)

\* What is not in the ledger is paid for, and a deleted campaign has nothing
\* in the ledger.
LedgerInv ==
  /\ \A r \in Rows \ logged : Settled(r)
  /\ \A c \in Campaigns : status[c] = "deleted" => logged \cap RowsOf(c) = {}

\* A deleted campaign's deliveries are paid for by operator retries and by
\* acceptances that Deliver reported as errors.
DeletedIsSettled ==
  \A c \in Campaigns : status[c] = "deleted" => \A r \in RowsOf(c) : Settled(r)

\* A step that delivers nothing and leaves the ledger alone.
LEMMA KeepsLedger ==
  ASSUME LedgerInv, UNCHANGED <<logged, delivered, lostAck, retried>>,
         \A c \in Campaigns : status'[c] = "deleted" => status[c] = "deleted"
  PROVE  LedgerInv'
BY DEF LedgerInv, Settled

\* SetCampaignStatus deletes nothing.
LEMMA NeverDeletes ==
  ASSUME TypeOK, NEW c \in Campaigns, NEW to \in CampaignStatus,
         SetCampaignStatus(c, to) \/ StatusStays
  PROVE  \A d \in Campaigns : status'[d] = "deleted" => status[d] = "deleted"
BY DEF SetCampaignStatus, StatusStays, TypeOK, CampaignStatus

\* A worker sends for rows in the ledger only, and puts a row there before.
LEMMA WorkerLedger ==
  ASSUME Inv, LedgerInv, NEW a \in Accounts, Worker(a)
  PROVE  LedgerInv'
<1>a. TypeOK /\ ClaimsAreExclusive
  BY DEF Inv
<1>1. ASSUME NEW r \in Rows, ClaimNextRecipient(a, r) PROVE LedgerInv'
  <2>1. /\ logged' = logged \cup {r} /\ status[r[1]] = "running"
        /\ UNCHANGED <<status, delivered, lostAck, retried>>
    BY <1>1 DEF ClaimNextRecipient, history
  <2> QED
    BY <2>1, RowFacts DEF LedgerInv, Settled
<1>2. CASE Send(a) \/ StampOutboundSent(a)
  <2>1. claim[a].row \in Rows /\ claim[a].row \in logged
    BY <1>2, <1>a DEF Send, StampOutboundSent, ClaimsAreExclusive, InFlight, TypeOK, Claims
  <2>2. /\ UNCHANGED <<status, logged, retried>>
        /\ \A r \in Rows : r # claim[a].row => delivered'[r] = delivered[r] /\ lostAck'[r] = lostAck[r]
    BY <1>2, <1>a DEF Send, StampOutboundSent, Accepted, TypeOK, store
  <2> QED
    BY <2>1, <2>2 DEF LedgerInv, Settled
<1>3. CASE CompleteIfDone(a)
  <2>1. claim[a].row[1] \in Campaigns
    BY <1>3, <1>a, RowFacts DEF CompleteIfDone, TypeOK, Claims
  <2>2. \A d \in Campaigns : status'[d] = "deleted" => status[d] = "deleted"
    BY <1>3, <1>a, <2>1, NeverDeletes DEF CompleteIfDone, CampaignStatus
  <2> QED
    BY <1>3, <2>2, KeepsLedger DEF CompleteIfDone, history
<1>4. CASE \/ ResolveChat(a) \/ MarkChatCampaignOnly(a) \/ StoreError(a)
           \/ FinalizeAttempt(a) \/ CountRecipients(a)
  BY <1>4, KeepsLedger DEF ResolveChat, MarkChatCampaignOnly, StoreError, FinalizeAttempt,
     CountRecipients, store, history
<1> QED
  BY <1>1, <1>2, <1>3, <1>4 DEF Worker

\* Replacing recipients takes only pending rows out of the ledger, which are
\* settled; DeleteCampaign looks at the ledger.
LEMMA OperatorLedger ==
  ASSUME Inv, LedgerInv, Operator
  PROVE  LedgerInv'
<1>a. TypeOK /\ RowsSettled
  BY DEF Inv, Accounting
<1>1. UNCHANGED <<delivered, lostAck>>
  BY DEF Operator, CreateCampaign, CampaignStatusTransition, DuplicateCampaign, ReadRequest,
         WriteStart, WriteContent, WriteSchedule, WriteRecipients, WriteRetry, WriteDelete,
         MayDelete, history
<1>2. ASSUME NEW o \in Operators, WriteRecipients(o) PROVE LedgerInv'
  <2>1. UNCHANGED <<status, retried>> /\ logged' \subseteq logged
    BY <1>2 DEF WriteRecipients, history
  <2>2. \A r \in Rows : r \in logged /\ r \notin logged' => row[r] = "pending"
    BY <1>2 DEF WriteRecipients
  <2> QED
    BY <1>1, <1>a, <2>1, <2>2 DEF LedgerInv, Settled, RowsSettled
<1>3. ASSUME NEW o \in Operators, WriteRetry(o) PROVE LedgerInv'
  <2>1. UNCHANGED <<status, logged>>
    BY <1>3 DEF WriteRetry
  <2>2. \A r \in Rows : retried'[r] = retried[r] \/ retried'[r] = retried[r] + 1
    BY <1>3 DEF WriteRetry
  <2>3. \A r \in Rows : delivered[r] \in Nat /\ lostAck[r] \in Nat /\ retried[r] \in Nat
    BY <1>a DEF TypeOK
  <2> QED
    BY <1>1, <2>1, <2>2, <2>3 DEF LedgerInv, Settled
<1>4. ASSUME NEW o \in Operators, WriteDelete(o) PROVE LedgerInv'
  <2>1. UNCHANGED <<logged, retried>>
    BY <1>4 DEF WriteDelete, MayDelete, history
  <2>2. \A d \in Campaigns : status'[d] = "deleted" =>
          status[d] = "deleted" \/ logged \cap RowsOf(d) = {}
    BY <1>4, <1>a DEF WriteDelete, MayDelete, TypeOK
  <2> QED
    BY <1>1, <2>1, <2>2 DEF LedgerInv, Settled
<1>5. ASSUME NEW op \in {"pause", "resume", "stop"}, NEW c \in Campaigns,
             CampaignStatusTransition(op, c)
      PROVE  LedgerInv'
  <2>1. \A d \in Campaigns : status'[d] = "deleted" => status[d] = "deleted"
    BY <1>5, <1>a, NeverDeletes DEF CampaignStatusTransition, CampaignStatus
  <2> QED
    BY <1>5, <2>1, KeepsLedger DEF CampaignStatusTransition, history
<1>6. ASSUME NEW o \in Operators, WriteStart(o) PROVE LedgerInv'
  <2>1. \A d \in Campaigns : status'[d] = "deleted" => status[d] = "deleted"
    BY <1>6, <1>a, RequestType, NeverDeletes DEF WriteStart
  <2> QED
    BY <1>6, <2>1, KeepsLedger DEF WriteStart, history
<1>7. CASE \/ \E c \in Campaigns, a \in Accounts, b \in Bodies : CreateCampaign(c, a, b)
           \/ \E src, dst \in Campaigns : DuplicateCampaign(src, dst)
  <2>1. \A d \in Campaigns : status'[d] = "deleted" => status[d] = "deleted"
    BY <1>7, <1>a DEF CreateCampaign, DuplicateCampaign, TypeOK
  <2> QED
    BY <1>7, <2>1, KeepsLedger DEF CreateCampaign, DuplicateCampaign, history
<1>8. CASE \/ \E o \in Operators, op \in ReadThenWrite, c \in Campaigns : ReadRequest(o, op, c)
           \/ \E o \in Operators : WriteContent(o) \/ WriteSchedule(o)
  BY <1>8, KeepsLedger DEF ReadRequest, WriteContent, WriteSchedule, store, history
<1> QED
  BY <1>2, <1>3, <1>4, <1>5, <1>6, <1>7, <1>8 DEF Operator

\* Nobody else delivers, deletes, or, without pruning, touches the ledger.
LEMMA OthersLedger ==
  ASSUME "prune" \notin Ops, TypeOK, LedgerInv, Maintenance \/ Environment \/ UNCHANGED vars
  PROVE  LedgerInv'
<1>1. UNCHANGED <<logged, delivered, lostAck, retried>>
  BY DEF Maintenance, MaintStart, MaintSweep, MaintComplete, MaintEnd, MaintPromote, MaintCount,
         Environment, AutoPauseCampaigns, PruneCampaignSendLog, UpsertInbound, Suppressed,
         BackoffElapses, ScheduleArrives, Crash, Restart, ReconcileStuckSending,
         vars, store, history
<1>2. CASE MaintComplete \/ \E c \in Campaigns : MaintPromote(c)
  BY <1>1, <1>2, KeepsLedger, NeverDeletes
     DEF MaintComplete, MaintPromote, TypeOK, CampaignStatus
<1>3. CASE \E a \in Accounts : AutoPauseCampaigns(a)
  BY <1>1, <1>3, KeepsLedger DEF AutoPauseCampaigns
<1>4. CASE status' = status
  BY <1>1, <1>4, KeepsLedger
<1> QED
  BY <1>2, <1>3, <1>4
     DEF Maintenance, MaintStart, MaintSweep, MaintEnd, MaintCount, Environment,
         PruneCampaignSendLog, UpsertInbound, Suppressed, BackoffElapses, ScheduleArrives, Crash,
         Restart, ReconcileStuckSending, vars, store

\* While the ledger is not pruned, a campaign can only be deleted with
\* deliveries behind it if each of them is paid for: DeleteCampaign's check
\* of the ledger alone protects the rest, whatever races with it.
THEOREM DeletedAccounted ==
  ASSUME "prune" \notin Ops
  PROVE  Spec => []DeletedIsSettled
<1>1. Init => LedgerInv
  BY DEF Init, LedgerInv, Settled
<1>2. Inv /\ LedgerInv /\ [Next]_vars => LedgerInv'
  BY WorkerLedger, OperatorLedger, OthersLedger DEF Next, Inv
<1>3. LedgerInv => DeletedIsSettled
  BY RowFacts DEF LedgerInv, DeletedIsSettled
<1> QED
  BY <1>1, <1>2, <1>3, Invariance, PTL DEF Spec

\* With nothing pruned, nothing retried by hand and no acknowledgement lost,
\* a deleted campaign never sent anything.
THEOREM DeletedSentNothing ==
  ASSUME "prune" \notin Ops, "retry" \notin Ops, "stamp" \notin Faults, "ambiguous" \notin Faults
  PROVE  Spec => []DeletedNeverSent
<1> DEFINE NoRetry == \A r \in Rows : retried[r] = 0
<1>1. Init => NoRetry
  BY DEF Init
<1>2. RequestsAllowed /\ NoRetry /\ [Next]_vars => NoRetry'
  <2> SUFFICES ASSUME RequestsAllowed, [Next]_vars PROVE retried' = retried
    OBVIOUS
  <2>1. CASE UNCHANGED vars
    BY <2>1 DEF vars, history
  <2>2. ASSUME NEW a \in Accounts, Worker(a) PROVE retried' = retried
    BY <2>2 DEF Worker, ClaimNextRecipient, ResolveChat, MarkChatCampaignOnly, StoreError, Send,
                StampOutboundSent, FinalizeAttempt, CountRecipients, CompleteIfDone, history
  <2>3. CASE Maintenance
    BY <2>3 DEF Maintenance, MaintStart, MaintSweep, MaintComplete, MaintEnd, MaintPromote,
                MaintCount, history
  <2>4. ASSUME NEW o \in Operators, WriteRetry(o) PROVE FALSE
    BY <2>4 DEF WriteRetry, Writes, RequestsAllowed
  <2>5. CASE Operator
    BY <2>4, <2>5 DEF Operator, CreateCampaign, CampaignStatusTransition, DuplicateCampaign,
                ReadRequest, WriteStart, WriteContent, WriteSchedule, WriteRecipients, WriteDelete,
                MayDelete, history
  <2>6. CASE Environment
    BY <2>6 DEF Environment, AutoPauseCampaigns, PruneCampaignSendLog, UpsertInbound, Suppressed,
                BackoffElapses, ScheduleArrives, Crash, Restart, ReconcileStuckSending, history
  <2> QED
    BY <2>1, <2>2, <2>3, <2>5, <2>6 DEF Next
<1>3. TypeOK /\ DeletedIsSettled /\ NoLostAck /\ NoRetry => DeletedNeverSent
  BY RowFacts DEF TypeOK, DeletedIsSettled, NoLostAck, DeletedNeverSent, Settled
<1> QED
  BY <1>1, <1>2, <1>3, TypeCorrect, OnlyAllowedRequests, AcksAreReliable, DeletedAccounted, PTL
     DEF Spec

=============================================================================

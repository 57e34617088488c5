----------------------------- MODULE SendBudget -----------------------------
(***************************************************************************)
(* The rate limiter of one sending account: campaign_send_log as the       *)
(* ledger of attempts, ClaimNextRecipient's budget check over it, the      *)
(* limits and quiet hours an operator may change at any time, the prune    *)
(* job, the forecast SendingBudget shows, and the recipient rows only as   *)
(* far as the ledger depends on them.                                      *)
(***************************************************************************)
EXTENDS Budget

CONSTANTS
  Recipients,  \* recipient rows of the campaigns on the account
  Paces,       \* admissible [min, jitter] pairs
  TierSets,    \* admissible sets of tiers
  HoursSets,   \* admissible [account, campaign] pairs of sets of windows
  Retention,   \* pruneRetention
  MaxTime, MaxAttempts, MaxChanges   \* bounds

\* ValidatePace, ValidateTiers and the retention pinned to the widest tier;
\* the calendar, and the windows ValidateWindow lets pass.
ASSUME BudgetAssumption ==
  /\ Paces \subseteq [min: Nat, jitter: Nat] /\ Paces # {}
  /\ \A p \in Paces : p.jitter <= p.min /\ p.min + p.jitter <= Retention
  /\ \A T \in TierSets : \A tier \in T :
       tier.window \in Nat /\ tier.max \in Nat /\ tier.window <= Retention
  /\ TierSets # {} /\ HoursSets # {} /\ Retention \in Nat
  /\ MaxTime \in Nat /\ MaxAttempts \in Nat /\ MaxChanges \in Nat
  /\ Day \in Nat \ {0} /\ Week \in Nat \ {0}
  /\ HoursSets \subseteq [account: SUBSET Windows, campaign: SUBSET Windows]

VARIABLES
  now,      \* the clock claims are stamped with
  tiers,    \* campaign_account_limits
  pace,     \* the pace in force for the next claim (account's or campaign's)
  hours,    \* quiet hours of the account and of the next candidate's campaign
  paused,   \* campaign_account_settings.paused
  state,    \* recipient row: "pending", "sending", "done"
  n,        \* attempts made so far; ids are 1..n
  at, of,   \* attempted_at and recipient_id of each attempt (history)
  ledger,   \* ids whose campaign_send_log row still exists
  changes,  \* operator changes so far
  dropped   \* attempts whose row went with its recipient's (history)

vars == <<now, tiers, pace, hours, paused, state, n, at, of, ledger, changes, dropped>>

Ids == 1..n

Init ==
  /\ now = 0
  /\ tiers \in TierSets /\ pace \in Paces /\ hours \in HoursSets /\ paused = FALSE
  /\ state = [r \in Recipients |-> "pending"]
  /\ n = 0 /\ at = [i \in {} |-> 0] /\ of = [i \in {} |-> 0]
  /\ ledger = {} /\ changes = 0 /\ dropped = {}

\* (Mutant: "full jitter", from zero up.)
DrawsFromZero(p) == 0..(p.min + p.jitter)

\* jitteredSeconds: a fresh draw in min +- jitter, floored at zero.
Draws(p) == (p.min - p.jitter)..(p.min + p.jitter)

\* campaignSendAttempts: the ledger back to the widest tier or the longest
\* draw, whichever is wider.
Recent(T, p) ==
  {i \in ledger : \E w \in {tier.window : tier \in T} \cup {p.min + p.jitter} : at[i] > now - w}

\* ClaimNextRecipient: refused while paused, outside the hours or without
\* headroom; the ledger row is written before the provider call.
Claim(r) ==
  /\ ~paused /\ state[r] = "pending" /\ n < MaxAttempts
  /\ WindowsOK(hours, now)
  /\ \E minInterval \in Draws(pace) :
       LET seen == Recent(tiers, pace)
       IN  Allowed(tiers, seen, at, minInterval, LastSend(seen, at), now)
  /\ n' = n + 1
  /\ at' = [i \in 1..(n + 1) |-> IF i = n + 1 THEN now ELSE at[i]]
  /\ of' = [i \in 1..(n + 1) |-> IF i = n + 1 THEN r ELSE of[i]]
  /\ ledger' = ledger \cup {n + 1}
  /\ state' = [state EXCEPT ![r] = "sending"]
  /\ UNCHANGED <<now, tiers, pace, hours, paused, changes, dropped>>

\* FinalizeAttempt: the row is done, or pending again after a transient error.
Finalize(r) ==
  /\ state[r] = "sending"
  /\ \E s \in {"done", "pending"} : state' = [state EXCEPT ![r] = s]
  /\ UNCHANGED <<now, tiers, pace, hours, paused, n, at, of, ledger, changes, dropped>>

\* (Mutant: the limits are not validated.)
SetLimitsUnvalidated ==
  /\ changes < MaxChanges
  /\ changes' = changes + 1
  /\ tiers' = {[window |-> Retention + 1, max |-> 1]}
  /\ UNCHANGED <<now, pace, hours, paused, state, n, at, of, ledger, dropped>>

\* SetCampaignAccountLimits and the settings beside it, or the next
\* candidate's campaign has its own pace and hours.
SetLimits ==
  /\ changes < MaxChanges
  /\ changes' = changes + 1
  /\ tiers' \in TierSets /\ pace' \in Paces /\ hours' \in HoursSets /\ paused' \in BOOLEAN
  /\ UNCHANGED <<now, state, n, at, of, ledger, dropped>>

\* ReplaceCampaignRecipients drops pending row r; its ledger rows go by
\* ON DELETE CASCADE.  The same identity may be added again.
DropRecipient(r) ==
  /\ changes < MaxChanges
  /\ changes' = changes + 1
  /\ state[r] = "pending"
  /\ ledger' = {i \in ledger : of[i] # r}
  /\ dropped' = dropped \cup (ledger \ ledger')
  /\ UNCHANGED <<now, tiers, pace, hours, paused, state, n, at, of>>

\* (Mutant: the cutoff follows the tiers in force now.)
PruneByTiers ==
  /\ ledger' = {i \in ledger : \E tier \in tiers : at[i] > now - tier.window}
  /\ ledger' # ledger
  /\ UNCHANGED <<now, tiers, pace, hours, paused, state, n, at, of, changes, dropped>>

\* PruneCampaignSendLog.
Prune ==
  /\ ledger' = {i \in ledger : at[i] >= now - Retention}
  /\ ledger' # ledger
  /\ UNCHANGED <<now, tiers, pace, hours, paused, state, n, at, of, changes, dropped>>

Tick ==
  /\ now < MaxTime
  /\ now' = now + 1
  /\ UNCHANGED <<tiers, pace, hours, paused, state, n, at, of, ledger, changes, dropped>>

\* SendingBudget's NextSendAt, and a campaign's forecast for `remaining` sends:
\* with the shortest interval the pace has and no jitter.
NextSend(remaining) ==
  LET seen == Recent(tiers, [pace EXCEPT !.jitter = 0])
  IN  Estimate(remaining, seen, [i \in Ids |-> at[i]], tiers, pace.min, hours, now)

Next ==
  \/ \E r \in Recipients : Claim(r) \/ Finalize(r) \/ DropRecipient(r)
  \/ SetLimits \/ Prune \/ Tick

Spec == Init /\ [][Next]_vars

----------------------------------------------------------------------------
(* Properties.                                                              *)

\* The limits in force have passed ValidateTiers and ValidatePace, every
\* attempt has its time and its row, and the ledger holds attempts only.
TypeOK ==
  /\ now \in Nat /\ n \in Nat /\ changes \in Nat
  /\ tiers \in TierSets /\ pace \in Paces /\ hours \in HoursSets /\ paused \in BOOLEAN
  /\ state \in [Recipients -> {"pending", "sending", "done"}]
  /\ at \in [Ids -> Nat] /\ of \in [Ids -> Recipients]
  /\ ledger \subseteq Ids /\ dropped \subseteq Ids \ ledger

\* Every attempt fits under every tier in force, counting the attempts really
\* made and not the rows the ledger still has: neither the prune job nor a
\* lookback that is too short ever gives headroom back.  Only an attempt
\* whose recipient was removed from the list is forgotten.
Kept == Ids \ dropped
TiersHold ==
  [][n' # n => \A tier \in tiers : tier.max > 0 =>
       Cardinality(InWindow(Kept, at, tier.window, now)) < tier.max]_vars

\* The same with no attempt forgotten.  (The code breaks this one: README,
\* section 5.)
CapsHold ==
  [][n' # n => \A tier \in tiers : tier.max > 0 =>
       Cardinality(InWindow(Ids, at, tier.window, now)) < tier.max]_vars

\* Two attempts of the account are never closer than the shortest interval
\* the pace allows, whichever campaigns they belong to, leaving out the
\* attempts of recipients removed from the list since.
IntervalHolds ==
  [][n' # n => \A i \in Kept : now >= at[i] + pace.min - pace.jitter]_vars

\* What both rest on: an attempt young enough to matter is in the ledger.
LedgerIsComplete ==
  \A i \in Ids : at[i] <= now /\ (at[i] > now - Retention => i \in ledger \cup dropped)

\* Replacing the recipient list takes back only the attempts of rows that
\* are pending again: an attempt still in flight, or whose outcome stands,
\* keeps its place in every window.
OutcomesStayCounted ==
  \A i \in Ids :
    /\ at[i] > now - Retention
    /\ state[of[i]] # "pending"
    /\ \A j \in Ids : of[j] = of[i] => j <= i
    => i \in ledger

\* Decision.NextSlotAt is the earliest time at which the same claim would be
\* allowed: allowed then, and at no time from now until then.  Freeing the
\* first full tier is not enough, and waiting for the oldest attempt is wrong
\* once a tier was lowered below what is already in its window.
NextSlotIsEarliest ==
  LET seen == Recent(tiers, pace)
      last == LastSend(seen, at)
  IN  \A d \in Draws(pace) :
        LET slot    == NextSlotAt(tiers, seen, at, d, last, now)
            OkAt(t) == Allowed(tiers, seen, at, d, last, t)
        IN  OkAt(slot) /\ \A t \in now..(slot - 1) : ~OkAt(t)

\* A window as the intervals of the calendar it stands for, those of the
\* week before included.
OpenAt(windows, t) ==
  windows = {} \/ \E w \in windows, week \in -1..(t \div (Week * Day)) :
    LET from == (week * Week + w.day) * Day + w.start
    IN  t \in from..(from + (IF w.end > w.start THEN w.end ELSE w.end + Day) - w.start - 1)

\* The forecast is true and the best one: the last of one or two sends can go
\* out when Estimate says, after the attempts already made and within both
\* hours, and no way of spacing them ends sooner; and where it says never
\* there is no moment at all.
EstimateIsEarliest ==
  LET seen    == Recent(tiers, [pace EXCEPT !.jitter = 0])
      Open(t) == OpenAt(hours.account, t) /\ OpenAt(hours.campaign, t)
      Ok(ids, times, t) ==
        Open(t) /\ Allowed(tiers, ids, times, pace.min, LastSend(ids, times), t)
      first == NextSend(1)  second == NextSend(2)
      horizon == now + Week * Day
  IN  /\ first = Never <=> second = Never
      /\ first = Never => \A t \in now..horizon : ~Open(t)
      /\ first # Never =>
           /\ Ok(seen, at, first) /\ \A t \in now..(first - 1) : ~Ok(seen, at, t)
           /\ Ok(seen \cup {n + 1}, Stamp(at, n + 1, first), second)
           /\ \A t \in first..(second - 1) : \A u \in first..t :
                ~(Ok(seen, at, u) /\ Ok(seen \cup {n + 1}, Stamp(at, n + 1, u), t))
=============================================================================

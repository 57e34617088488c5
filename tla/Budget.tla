------------------------------- MODULE Budget -------------------------------
(***************************************************************************)
(* backend/campaign's pure rate-limit arithmetic.  An attempt is an id with *)
(* a time, at[id]; a tier is [window, max]; times are integers.  Quiet     *)
(* hours are two sets of weekly windows [day, start, end], the account's   *)
(* and the campaign's.                                                     *)
(***************************************************************************)
EXTENDS Integers, FiniteSets

CONSTANTS
  Day,  \* minutes of a day
  Week  \* days of a week

\* The attempts a tier of width w counts at time t: strictly after t - w.
InWindow(ids, at, w, t) == {i \in ids : at[i] > t - w}

\* (Mutant: one send too many.)
AtCapacityOffByOne(tier, ids, at, t) ==
  /\ tier.max > 0
  /\ Cardinality(InWindow(ids, at, tier.window, t)) > tier.max

\* A tier with MaxSends <= 0 is skipped.
AtCapacity(tier, ids, at, t) ==
  /\ tier.max > 0
  /\ Cardinality(InWindow(ids, at, tier.window, t)) >= tier.max

\* lastSendAt, the newest attempt; NoSend when there is none.
NoSend == -1
LastSend(ids, at) ==
  IF ids = {} THEN NoSend
  ELSE CHOOSE v \in {at[i] : i \in ids} : \A j \in ids : at[j] <= v

IntervalOK(last, minInterval, t) == last = NoSend \/ t >= last + minInterval

\* Budget's verdict: every tier and the interval at once.
Allowed(tiers, ids, at, minInterval, last, t) ==
  /\ IntervalOK(last, minInterval, t)
  /\ \A tier \in tiers : ~AtCapacity(tier, ids, at, t)

\* inWindow[len(inWindow) - MaxSends] of the sorted slice: the time of the
\* k-th newest attempt.
NthNewest(ids, at, k) ==
  CHOOSE v \in {at[i] : i \in ids} :
    /\ Cardinality({i \in ids : at[i] > v}) < k
    /\ Cardinality({i \in ids : at[i] >= v}) >= k

\* (Mutant: the tier is taken to free a slot when its oldest attempt leaves.)
FreesAtOldest(tier, ids, at, t) ==
  LET in == InWindow(ids, at, tier.window, t)
  IN  (CHOOSE v \in {at[i] : i \in in} : \A i \in in : v <= at[i]) + tier.window

FreesAt(tier, ids, at, t) ==
  NthNewest(InWindow(ids, at, tier.window, t), at, tier.max) + tier.window

\* Decision.NextSlotAt: the latest of now, the interval's end and the time
\* each full tier frees a slot.
NextSlotAt(tiers, ids, at, minInterval, last, t) ==
  LET slots == {t}
        \cup {x \in {last + minInterval} : ~IntervalOK(last, minInterval, t)}
        \cup {FreesAt(tier, ids, at, t) : tier \in {x \in tiers : AtCapacity(x, ids, at, t)}}
  IN  CHOOSE x \in slots : \A y \in slots : y <= x

\* What ValidateWindow lets pass: minutes of the day, and no empty window.
Windows == {w \in [day: 0..(Week - 1), start: 0..(Day - 1), end: 1..Day] : w.start # w.end}

\* (Mutant: a window past midnight ends on the day it began.)
ContainsSameDay(w, t) ==
  LET minute == t % Day  day == (t \div Day) % Week IN
  day = w.day /\ IF w.end > w.start THEN minute >= w.start /\ minute < w.end
                                   ELSE minute >= w.start \/ minute < w.end

\* Window.Contains: a window that ends no later than it starts goes on past
\* midnight, from the last day of the week into the first.
Contains(w, t) ==
  LET minute == t % Day  day == (t \div Day) % Week IN
  IF w.end > w.start
  THEN day = w.day /\ minute >= w.start /\ minute < w.end
  ELSE \/ day = w.day /\ minute >= w.start
       \/ day = (w.day + 1) % Week /\ minute < w.end

InSchedule(windows, t) == \E w \in windows : Contains(w, t)

\* A side without windows restricts nothing.
WindowsOK(hours, t) ==
  \A windows \in {hours.account, hours.campaign} : windows # {} => InSchedule(windows, t)

\* Where the searches below give up: farFuture.
Never == -1

\* nextWindowOpen searches one week, since windows recur weekly.
NextWindowOpen(hours, from) ==
  LET open == {t \in from..(from + Week * Day) : WindowsOK(hours, t)}
  IN  IF open = {} THEN Never ELSE CHOOSE t \in open : \A u \in open : t <= u

\* nextAllowedSlot: the budget's next slot and the hours' next opening in
\* turn, until they agree.  (maxSimulationIterations never ends the loop.)
NextAllowedSlot(tiers, ids, at, minInterval, last, hours, from) ==
  LET slot[t \in Nat] ==
        IF WindowsOK(hours, t)
        THEN IF Allowed(tiers, ids, at, minInterval, last, t)
             THEN t ELSE slot[NextSlotAt(tiers, ids, at, minInterval, last, t)]
        ELSE IF NextWindowOpen(hours, t) = Never THEN Never ELSE slot[NextWindowOpen(hours, t)]
  IN  slot[from]

\* Attempt n, at time t, added to the times of the others.
Stamp(at, n, t) == [i \in DOMAIN at \cup {n} |-> IF i = n THEN t ELSE at[i]]

\* Estimate: when the last of `remaining` sends would go out, each sent at
\* its own earliest slot; attempts no tier counts any more are let go.
Estimate(remaining, ids, at, tiers, minInterval, hours, now) ==
  LET n == Cardinality(DOMAIN at)
      Kept(in, times, t) ==
        IF \A tier \in tiers : tier.window = 0 THEN in
        ELSE UNION {InWindow(in, times, tier.window, t) : tier \in tiers}
      sim[k \in 0..remaining] ==
        IF k = 0
        THEN [ids |-> ids, at |-> at, last |-> LastSend(ids, at), time |-> now]
        ELSE LET s == sim[k - 1]
                 t == IF s.time = Never THEN Never
                      ELSE NextAllowedSlot(tiers, s.ids, s.at, minInterval, s.last, hours, s.time)
             IN  IF t = Never THEN [s EXCEPT !.time = Never]
                 ELSE [ids |-> Kept(s.ids, s.at, t) \cup {n + k}, at |-> Stamp(s.at, n + k, t),
                       last |-> t, time |-> t]
  IN  sim[remaining].time
=============================================================================

-------------------------- MODULE SendBudgetProofs --------------------------
(***************************************************************************)
(* Proofs about SendBudget.  The inductive invariant is TypeOK and         *)
(* LedgerIsComplete; the two action properties follow from it, because a   *)
(* claim that counts the ledger's rows then counts every attempt made.     *)
(* The reported slot is the earliest because the k-th newest attempt of a  *)
(* full tier is the one whose leaving frees it.  The forecast is a search  *)
(* and a simulation by recursive functions: what they compute is proved    *)
(* from least and greatest counterexamples.                                *)
(***************************************************************************)
EXTENDS SendBudget, FiniteSetTheorems, WellFoundedInduction, TLAPS

\* A nonempty set of naturals has a least element.
LEMMA NatHasMin ==
  ASSUME NEW D, D \subseteq Nat, D # {}
  PROVE  \E d \in D : \A y \in D : ~(y < d)
<1>1. PICK d \in D : \A y \in D : ~(<<y, d>> \in OpToRel(<, Nat))
  BY NatLessThanWellFounded, WFMin, ZenonT(20)
<1>2. ASSUME NEW y \in D, y < d PROVE <<y, d>> \in OpToRel(<, Nat)
  BY <1>2 DEF OpToRel
<1> QED BY <1>1, <1>2

\* A nonempty set of naturals below a bound has a largest element.
LEMMA BoundedHasMax ==
  ASSUME NEW S, S \subseteq Nat, S # {}, NEW b \in Nat, \A x \in S : x <= b
  PROVE  \E m \in S : \A x \in S : x <= m
<1> DEFINE D == {b - x : x \in S}
<1>1. D \subseteq Nat /\ D # {}
  <2>1. \A x \in S : b - x \in Nat
    OBVIOUS
  <2> QED BY <2>1
<1>2. PICK d \in D : \A y \in D : ~(y < d)
  <2> HIDE DEF D
  <2> QED BY <1>1, NatHasMin
<1>3. PICK m \in S : d = b - m
  BY <1>2
<1>4. \A x \in S : x <= m
  <2> TAKE x \in S
  <2>1. b - x \in D
    OBVIOUS
  <2>2. ~(b - x < b - m)
    BY <1>2, <1>3, <2>1
  <2> QED BY <2>2
<1> QED BY <1>4

\* LastSend really is the newest of the attempts it is given.
LEMMA LastSendIsNewest ==
  ASSUME NEW ids, NEW f, \A i \in ids : f[i] \in Nat, ids # {},
         NEW b \in Nat, \A i \in ids : f[i] <= b
  PROVE  LastSend(ids, f) \in Nat /\ \A i \in ids : f[i] <= LastSend(ids, f)
<1> DEFINE S == {f[i] : i \in ids}
<1>1. \E m \in S : \A x \in S : x <= m
  <2>1. S \subseteq Nat /\ S # {} /\ \A x \in S : x <= b
    OBVIOUS
  <2> HIDE DEF S
  <2> QED BY <2>1, BoundedHasMax
<1>2. \E m \in S : \A j \in ids : f[j] <= m
  BY <1>1
<1> QED BY <1>2 DEF LastSend

\* Without attempts there is no last one.
LEMMA LastSendOfNone == ASSUME NEW f PROVE LastSend({}, f) = NoSend
BY DEF LastSend

\* The last send, if any, is at the time of some attempt.
LEMMA LastSendBounded ==
  ASSUME NEW ids, NEW f, NEW b \in Nat, \A i \in ids : f[i] \in Nat, \A i \in ids : f[i] <= b
  PROVE  LastSend(ids, f) = NoSend \/ (LastSend(ids, f) \in Nat /\ LastSend(ids, f) <= b)
<1> DEFINE S == {f[i] : i \in ids}
<1>1. CASE ids = {}
  BY <1>1, LastSendOfNone
<1>2. CASE ids # {}
  <2>1. S \subseteq Nat /\ S # {} /\ \A x \in S : x <= b
    BY <1>2
  <2>2. PICK v \in S : \A x \in S : x <= v
    <3> HIDE DEF S
    <3> QED BY <2>1, BoundedHasMax
  <2>3. \A j \in ids : f[j] <= v
    BY <2>2
  <2>4. LastSend(ids, f) \in S
    BY <1>2, <2>3 DEF LastSend
  <2> QED BY <2>4
<1> QED BY <1>1, <1>2

\* Every step keeps the types.
LEMMA TypeStep == TypeOK /\ [Next]_vars => TypeOK'
<1> SUFFICES ASSUME TypeOK, [Next]_vars PROVE TypeOK'
  OBVIOUS
<1> USE DEF TypeOK, Ids
<1>1. ASSUME NEW r \in Recipients, Claim(r) PROVE TypeOK'
  BY <1>1 DEF Claim
<1>2. ASSUME NEW r \in Recipients, Finalize(r) PROVE TypeOK'
  BY <1>2 DEF Finalize
<1>3. ASSUME NEW r \in Recipients, DropRecipient(r) PROVE TypeOK'
  <2>1. ledger' \subseteq ledger /\ dropped' = dropped \cup (ledger \ ledger')
        /\ changes' = changes + 1 /\ UNCHANGED <<now, tiers, pace, hours, paused, state, n, at, of>>
    BY <1>3, Zenon DEF DropRecipient
  <2> QED BY <2>1
<1>4. CASE SetLimits
  BY <1>4 DEF SetLimits
<1>5. CASE Prune
  BY <1>5 DEF Prune
<1>6. CASE Tick
  BY <1>6 DEF Tick
<1>7. CASE UNCHANGED vars
  BY <1>7 DEF vars
<1> QED BY <1>1, <1>2, <1>3, <1>4, <1>5, <1>6, <1>7 DEF Next

\* No attempt has been made at the start.
LEMMA InitEmpty == Init => Ids = {}
BY DEF Init, Ids

\* The initial state has the types.
LEMMA InitTypes == Init => TypeOK
<1> SUFFICES ASSUME Init PROVE TypeOK
  OBVIOUS
<1>1. paused \in BOOLEAN
  BY Zenon DEF Init
<1>2. /\ now \in Nat /\ n \in Nat /\ changes \in Nat /\ tiers \in TierSets /\ pace \in Paces
      /\ hours \in HoursSets /\ ledger \subseteq Ids /\ dropped \subseteq Ids \ ledger
      /\ state \in [Recipients -> {"pending", "sending", "done"}]
  BY DEF Init
<1>3. at \in [Ids -> Nat] /\ of \in [Ids -> Recipients]
  BY InitEmpty, Zenon DEF Init
<1> QED BY <1>1, <1>2, <1>3, Zenon DEF TypeOK

\* Type correctness of the rate limiter.
THEOREM BudgetTypeCorrect == Spec => []TypeOK
<1>1. Init => TypeOK
  BY InitTypes
<1> QED BY <1>1, TypeStep, PTL DEF Spec

\* Every step keeps the ledger complete: Prune only removes what no window
\* reaches, and DropRecipient records what it removes.
LEMMA LedgerStep == TypeOK /\ LedgerIsComplete /\ [Next]_vars => LedgerIsComplete'
<1> SUFFICES ASSUME TypeOK, LedgerIsComplete, [Next]_vars PROVE LedgerIsComplete'
  OBVIOUS
<1> USE BudgetAssumption DEF TypeOK, Ids, LedgerIsComplete
<1>1. ASSUME NEW r \in Recipients, Claim(r) PROVE LedgerIsComplete'
  BY <1>1 DEF Claim
<1>2. ASSUME NEW r \in Recipients, Finalize(r) PROVE LedgerIsComplete'
  BY <1>2 DEF Finalize
<1>3. ASSUME NEW r \in Recipients, DropRecipient(r) PROVE LedgerIsComplete'
  BY <1>3 DEF DropRecipient
<1>4. CASE SetLimits
  BY <1>4 DEF SetLimits
<1>5. CASE Prune
  BY <1>5 DEF Prune
<1>6. CASE Tick
  BY <1>6 DEF Tick
<1>7. CASE UNCHANGED vars
  BY <1>7 DEF vars
<1> QED BY <1>1, <1>2, <1>3, <1>4, <1>5, <1>6, <1>7 DEF Next

\* An attempt young enough to matter to some tier is in the ledger, or its
\* recipient was removed from the list.
THEOREM LedgerComplete == Spec => []LedgerIsComplete
<1>1. Init => TypeOK /\ LedgerIsComplete
  BY InitTypes, InitEmpty DEF LedgerIsComplete
<1>2. TypeOK /\ LedgerIsComplete /\ [Next]_vars => TypeOK' /\ LedgerIsComplete'
  BY TypeStep, LedgerStep
<1> QED BY <1>1, <1>2, PTL DEF Spec

\* Only a claim makes an attempt.
LEMMA OnlyClaimCounts ==
  ASSUME TypeOK, [Next]_vars, n' # n
  PROVE  \E r \in Recipients : Claim(r)
BY DEF Next, vars, Finalize, DropRecipient, SetLimits, Prune, Tick

\* Whatever the widths, a complete ledger seen through the lookback counts
\* for every tier exactly the attempts made and not dropped.
LEMMA SeenIsAll ==
  ASSUME TypeOK, LedgerIsComplete, NEW tier \in tiers
  PROVE  InWindow(Recent(tiers, pace), at, tier.window, now) = InWindow(Kept, at, tier.window, now)
<1>1. tier.window \in Nat /\ tier.window <= Retention /\ Retention \in Nat /\ now \in Nat
  BY BudgetAssumption DEF TypeOK
<1>2. \A i \in Ids : at[i] \in Nat
  BY DEF TypeOK
<1>3. ASSUME NEW i \in Kept, at[i] > now - tier.window PROVE i \in Recent(tiers, pace)
  <2>1. i \in ledger
    BY <1>1, <1>2, <1>3 DEF LedgerIsComplete, Kept
  <2> QED BY <2>1, <1>3 DEF Recent
<1>4. Recent(tiers, pace) \subseteq Kept
  BY DEF Recent, TypeOK, Kept
<1> QED BY <1>3, <1>4 DEF InWindow

\* The tiers bound the attempts really made, for every set of tiers, every
\* pace and every change of them.
THEOREM TiersAlwaysHold == Spec => TiersHold
<1>1. TypeOK /\ LedgerIsComplete /\ [Next]_vars =>
        [n' # n => \A tier \in tiers : tier.max > 0 =>
           Cardinality(InWindow(Kept, at, tier.window, now)) < tier.max]_vars
  <2> SUFFICES ASSUME TypeOK, LedgerIsComplete, [Next]_vars, n' # n,
                      NEW tier \in tiers, tier.max > 0
               PROVE  Cardinality(InWindow(Kept, at, tier.window, now)) < tier.max
    BY DEF vars
  <2>1. PICK r \in Recipients : Claim(r)
    BY OnlyClaimCounts
  <2>2. ~AtCapacity(tier, Recent(tiers, pace), at, now)
    BY <2>1 DEF Claim, Allowed
  <2>3. ~(Cardinality(InWindow(Kept, at, tier.window, now)) >= tier.max)
    BY <2>2, SeenIsAll DEF AtCapacity
  <2>4. Cardinality(InWindow(Kept, at, tier.window, now)) \in Nat
    <3>1. IsFiniteSet(Ids) /\ InWindow(Kept, at, tier.window, now) \subseteq Ids
      BY FS_Interval DEF TypeOK, Ids, Kept, InWindow
    <3> QED BY <3>1, FS_Subset, FS_CardinalityType
  <2>5. tier.max \in Nat
    BY BudgetAssumption DEF TypeOK
  <2> QED BY <2>3, <2>4, <2>5
<1>2. Spec => []TypeOK /\ []LedgerIsComplete
  BY BudgetTypeCorrect, LedgerComplete
<1> QED BY <1>1, <1>2, PTL DEF Spec, TiersHold

\* Two attempts on the account keep the pace's shortest interval, for every
\* pace; attempts of removed recipients are forgotten.
THEOREM IntervalAlwaysHolds == Spec => IntervalHolds
<1>1. TypeOK /\ LedgerIsComplete /\ [Next]_vars =>
        [n' # n => \A i \in Kept : now >= at[i] + pace.min - pace.jitter]_vars
  <2> SUFFICES ASSUME TypeOK, LedgerIsComplete, [Next]_vars, n' # n, NEW i \in Kept
               PROVE  now >= at[i] + pace.min - pace.jitter
    BY DEF vars
  <2> DEFINE seen == Recent(tiers, pace)
             last == LastSend(seen, at)
  <2>1. PICK r \in Recipients : Claim(r)
    BY OnlyClaimCounts
  <2>2. PICK d \in Draws(pace) : IntervalOK(last, d, now)
    BY <2>1 DEF Claim, Allowed
  <2>3. pace.min \in Nat /\ pace.jitter \in Nat /\ pace.jitter <= pace.min
        /\ pace.min + pace.jitter <= Retention /\ Retention \in Nat /\ now \in Nat
    BY BudgetAssumption DEF TypeOK
  <2>4. d \in Int /\ d >= pace.min - pace.jitter
    BY <2>3 DEF Draws
  <2>5. \A j \in Ids : at[j] \in Nat /\ at[j] <= now
    BY DEF TypeOK, LedgerIsComplete
  <2>6. seen \subseteq Ids /\ i \in Ids
    BY DEF Recent, TypeOK, Kept
  <2>7. CASE i \in seen
    <3>1. last \in Nat /\ \A j \in seen : at[j] <= last
      <4> HIDE DEF seen
      <4> QED BY <2>3, <2>5, <2>6, <2>7, LastSendIsNewest
    <3>2. now >= last + d
      BY <2>2, <3>1 DEF IntervalOK, NoSend
    <3> QED BY <2>3, <2>4, <2>5, <2>6, <2>7, <3>1, <3>2
  <2>8. CASE i \notin seen
    <3>1. at[i] <= now - (pace.min + pace.jitter)
      <4>1. i \in ledger => ~(at[i] > now - (pace.min + pace.jitter))
        BY <2>8 DEF Recent
      <4> QED BY <4>1, <2>3, <2>5 DEF LedgerIsComplete, Kept
    <3> QED BY <2>3, <2>5, <2>6, <3>1
  <2> QED BY <2>7, <2>8
<1>2. Spec => []TypeOK /\ []LedgerIsComplete
  BY BudgetTypeCorrect, LedgerComplete
<1> QED BY <1>1, <1>2, PTL DEF Spec, IntervalHolds

\* The newest attempt of a row that is not pending was not dropped.
NewestKept ==
  \A i \in Ids :
    state[of[i]] # "pending" /\ (\A j \in Ids : of[j] = of[i] => j <= i) => i \notin dropped

\* A row must be pending to be dropped, and to leave 'pending' it makes a
\* newer attempt.
LEMMA NewestStep == TypeOK /\ NewestKept /\ [Next]_vars => NewestKept'
<1> SUFFICES ASSUME TypeOK, NewestKept, [Next]_vars PROVE NewestKept'
  OBVIOUS
<1> USE DEF TypeOK, Ids, NewestKept
<1>1. ASSUME NEW r \in Recipients, Claim(r) PROVE NewestKept'
  <2> SUFFICES ASSUME NEW i \in 1..(n + 1), state'[of'[i]] # "pending",
                      \A j \in 1..(n + 1) : of'[j] = of'[i] => j <= i
               PROVE  i \notin dropped
    BY <1>1 DEF Claim
  <2>1. CASE i = n + 1
    BY <2>1
  <2>2. CASE i # n + 1
    <3>1. i \in 1..n /\ of'[i] = of[i] /\ of'[n + 1] = r
      BY <1>1, <2>2 DEF Claim
    <3>2. of[i] # r
      BY <3>1, <2>2
    <3>3. state[of[i]] # "pending"
      BY <1>1, <3>1, <3>2 DEF Claim
    <3>4. \A j \in 1..n : of[j] = of[i] => j <= i
      <4> TAKE j \in 1..n
      <4>1. of'[j] = of[j] /\ j \in 1..(n + 1)
        BY <1>1 DEF Claim
      <4> QED BY <4>1, <3>1
    <3> QED BY <3>1, <3>3, <3>4
  <2> QED BY <2>1, <2>2
<1>2. ASSUME NEW r \in Recipients, Finalize(r) PROVE NewestKept'
  BY <1>2 DEF Finalize
<1>3. ASSUME NEW r \in Recipients, DropRecipient(r) PROVE NewestKept'
  BY <1>3 DEF DropRecipient
<1>4. CASE SetLimits
  BY <1>4 DEF SetLimits
<1>5. CASE Prune
  BY <1>5 DEF Prune
<1>6. CASE Tick
  BY <1>6 DEF Tick
<1>7. CASE UNCHANGED vars
  BY <1>7 DEF vars
<1> QED BY <1>1, <1>2, <1>3, <1>4, <1>5, <1>6, <1>7 DEF Next

\* An attempt in flight, or whose outcome stands, keeps its place in the
\* ledger whatever lists operators replace.
THEOREM OutcomesCounted == Spec => []OutcomesStayCounted
<1>1. Init => NewestKept
  BY InitEmpty DEF NewestKept
<1>2. TypeOK /\ NewestKept /\ [Next]_vars => NewestKept'
  BY NewestStep
<1>3. LedgerIsComplete /\ NewestKept => OutcomesStayCounted
  BY DEF LedgerIsComplete, NewestKept, OutcomesStayCounted
<1>4. Spec => []TypeOK /\ []LedgerIsComplete
  BY BudgetTypeCorrect, LedgerComplete
<1> QED BY <1>1, <1>2, <1>3, <1>4, PTL DEF Spec

\* The attempts no older than v.
AsNew(ids, f, v) == {i \in ids : f[i] >= v}

\* NthNewest(ids, f, k) is the time of an attempt: fewer than k are newer, and
\* k are as new.
LEMMA NthNewestExists ==
  ASSUME NEW ids, IsFiniteSet(ids), NEW f, \A i \in ids : f[i] \in Nat,
         NEW b \in Nat, \A i \in ids : f[i] <= b,
         NEW k \in Nat, 1 <= k, Cardinality(ids) >= k
  PROVE  /\ NthNewest(ids, f, k) \in {f[i] : i \in ids}
         /\ Cardinality({i \in ids : f[i] > NthNewest(ids, f, k)}) < k
         /\ Cardinality(AsNew(ids, f, NthNewest(ids, f, k))) >= k
<1> DEFINE From(v) == {i \in ids : f[i] >= v}
           Above(v) == {i \in ids : f[i] > v}
           times == {f[i] : i \in ids}
           D == {v \in times : Cardinality(From(v)) >= k}
<1>1. \A v : Cardinality(Above(v)) \in Nat /\ IsFiniteSet(Above(v))
  <2> TAKE v
  <2>1. Above(v) \in SUBSET ids
    OBVIOUS
  <2> HIDE DEF Above
  <2> QED BY <2>1, FS_Subset, FS_CardinalityType
<1>2. times \subseteq Nat /\ times # {}
  <2>1. ids # {}
    BY FS_EmptySet
  <2> QED BY <2>1
<1>3. D # {}
  <2>1. PICK v \in times : \A y \in times : ~(y < v)
    <3> HIDE DEF times
    <3> QED BY <1>2, NatHasMin
  <2>2. From(v) = ids
    <3>1. ASSUME NEW i \in ids PROVE f[i] >= v
      <4>1. f[i] \in times
        OBVIOUS
      <4>2. ~(f[i] < v) /\ f[i] \in Nat /\ v \in Nat
        BY <4>1, <2>1, <1>2
      <4> HIDE DEF times
      <4> QED BY <4>2
    <3> QED BY <3>1
  <2>3. v \in D
    BY <2>2
  <2> QED BY <2>3
<1>4. PICK m \in D : \A x \in D : x <= m
  <2>1. D \subseteq Nat /\ \A x \in D : x <= b
    BY <1>2
  <2> HIDE DEF D
  <2> QED BY <1>3, <2>1, BoundedHasMax
<1>5. Cardinality(Above(m)) < k
  <2> SUFFICES ASSUME Cardinality(Above(m)) >= k PROVE FALSE
    BY <1>1
  <2> DEFINE newer == {f[i] : i \in Above(m)}
  <2>1. newer \subseteq Nat /\ newer # {}
    <3>1. Above(m) # {}
      <4> HIDE DEF Above
      <4> QED BY FS_EmptySet
    <3> QED BY <3>1
  <2>2. PICK v \in newer : \A y \in newer : ~(y < v)
    <3> HIDE DEF newer
    <3> QED BY <2>1, NatHasMin
  <2>3. v \in times /\ v > m /\ v \in Nat /\ m \in Nat
    BY <2>1, <1>2
  <2>4. ASSUME NEW i \in ids PROVE f[i] >= v <=> f[i] > m
    <3>1. f[i] > m => f[i] \in newer
      OBVIOUS
    <3>2. f[i] \in newer => ~(f[i] < v)
      BY <2>2
    <3> HIDE DEF newer
    <3> QED BY <3>1, <3>2, <2>3
  <2>5. From(v) = Above(m)
    BY <2>4
  <2>6. v \in D
    BY <2>3, <2>5
  <2>7. v <= m
    BY <2>6, <1>4
  <2> QED BY <2>3, <2>7
<1>6. \E v \in times : Cardinality(Above(v)) < k /\ Cardinality(From(v)) >= k
  BY <1>5, <1>4
<1> QED BY <1>6 DEF NthNewest, AsNew

\* A full tier frees a slot at a definite time: until then it is full, from
\* then on it is not, as long as nothing else is sent.
LEMMA FreesAtIsExact ==
  ASSUME NEW ids, IsFiniteSet(ids), NEW f, \A i \in ids : f[i] \in Nat,
         NEW b \in Nat, \A i \in ids : f[i] <= b, NEW t \in Nat,
         NEW tier, tier.window \in Nat, tier.max \in Nat, AtCapacity(tier, ids, f, t)
  PROVE  /\ FreesAt(tier, ids, f, t) \in Nat
         /\ FreesAt(tier, ids, f, t) <= b + tier.window
         /\ \A u \in Nat : u >= t /\ u >= FreesAt(tier, ids, f, t) => ~AtCapacity(tier, ids, f, u)
         /\ \A u \in Nat : u >= t /\ u < FreesAt(tier, ids, f, t) => AtCapacity(tier, ids, f, u)
<1> DEFINE in == InWindow(ids, f, tier.window, t)
           v  == NthNewest(in, f, tier.max)
<1>1. in \in SUBSET ids /\ IsFiniteSet(in)
  <2>1. in \in SUBSET ids
    BY DEF InWindow
  <2> QED BY <2>1, FS_Subset
<1>2. tier.max > 0 /\ Cardinality(in) >= tier.max
  BY DEF AtCapacity
<1>3. /\ v \in {f[i] : i \in in}
      /\ Cardinality({i \in in : f[i] > v}) < tier.max
      /\ Cardinality(AsNew(in, f, v)) >= tier.max
  <2>1. (\A i \in in : f[i] \in Nat) /\ (\A i \in in : f[i] <= b)
    BY <1>1
  <2>2. 1 <= tier.max
    BY <1>2
  <2>3. IsFiniteSet(in) /\ b \in Nat /\ tier.max \in Nat /\ Cardinality(in) >= tier.max
    BY <1>1, <1>2
  <2> HIDE DEF in
  <2>4. v \in {f[i] : i \in in}
    BY <2>1, <2>2, <2>3, NthNewestExists
  <2>5. Cardinality({i \in in : f[i] > v}) < tier.max
    BY <2>1, <2>2, <2>3, NthNewestExists
  <2>6. Cardinality(AsNew(in, f, v)) >= tier.max
    BY <2>1, <2>2, <2>3, NthNewestExists
  <2> QED BY <2>4, <2>5, <2>6
<1>4. v \in Nat /\ v <= b /\ v > t - tier.window
  BY <1>1, <1>3 DEF InWindow
<1>5. FreesAt(tier, ids, f, t) = v + tier.window
  BY DEF FreesAt
<1>6. ASSUME NEW u \in Nat, u >= t, u >= v + tier.window
      PROVE  ~AtCapacity(tier, ids, f, u)
  <2> DEFINE A == InWindow(ids, f, tier.window, u)
             B == {i \in in : f[i] > v}
  <2>1. A \in SUBSET B
    BY <1>4, <1>6 DEF InWindow
  <2>2. B \in SUBSET in
    OBVIOUS
  <2>3. Cardinality(A) <= Cardinality(B) /\ Cardinality(A) \in Nat /\ Cardinality(B) \in Nat
    <3> HIDE DEF A, B, in
    <3>1. IsFiniteSet(B)
      BY <1>1, <2>2, FS_Subset
    <3> QED BY <2>1, <3>1, FS_Subset, FS_CardinalityType
  <2>4. Cardinality(A) < tier.max
    <3> HIDE DEF A
    <3> QED BY <1>3, <2>3
  <2> QED BY <2>3, <2>4 DEF AtCapacity
<1>7. ASSUME NEW u \in Nat, u >= t, u < v + tier.window
      PROVE  AtCapacity(tier, ids, f, u)
  <2> DEFINE A == AsNew(in, f, v)
             B == InWindow(ids, f, tier.window, u)
  <2>1. A \in SUBSET B
    BY <1>4, <1>7 DEF InWindow, AsNew
  <2>2. B \in SUBSET ids
    BY DEF InWindow
  <2>3. Cardinality(A) <= Cardinality(B) /\ Cardinality(A) \in Nat /\ Cardinality(B) \in Nat
    <3> HIDE DEF A, B, in
    <3>1. IsFiniteSet(B)
      BY <2>2, FS_Subset
    <3> QED BY <2>1, <3>1, FS_Subset, FS_CardinalityType
  <2>4. Cardinality(B) >= tier.max
    <3> HIDE DEF B
    <3> QED BY <1>3, <2>3
  <2> QED BY <1>2, <2>4 DEF AtCapacity
<1> HIDE DEF v, in
<1> QED BY <1>4, <1>5, <1>6, <1>7

\* An attempt is allowed at slot, and at no time from t until then.
Exact(T, ids, f, d, last, t, slot) ==
  /\ slot \in Nat /\ slot >= t
  /\ Allowed(T, ids, f, d, last, slot)
  /\ \A u \in t..(slot - 1) : ~Allowed(T, ids, f, d, last, u)

\* NextSlotAt is exact for any attempts, any tiers, any interval and any time.
LEMMA NextSlotIsExact ==
  ASSUME NEW ids, IsFiniteSet(ids), NEW f, \A i \in ids : f[i] \in Nat,
         NEW b \in Nat, \A i \in ids : f[i] <= b, NEW t \in Nat,
         NEW T, NEW R \in Nat, \A x \in T : x.window \in Nat /\ x.max \in Nat /\ x.window <= R,
         NEW d \in Nat, NEW last, last = NoSend \/ (last \in Nat /\ last <= b)
  PROVE  Exact(T, ids, f, d, last, t, NextSlotAt(T, ids, f, d, last, t))
<1> DEFINE paced == {x \in {last + d} : ~IntervalOK(last, d, t)}
           full  == {x \in T : AtCapacity(x, ids, f, t)}
           freed == {FreesAt(tier, ids, f, t) : tier \in full}
           slots == {t} \cup paced \cup freed
           slot == NextSlotAt(T, ids, f, d, last, t)
           Frees(tier) ==
             /\ FreesAt(tier, ids, f, t) \in Nat
             /\ FreesAt(tier, ids, f, t) <= b + tier.window
             /\ \A u \in Nat : u >= t /\ u >= FreesAt(tier, ids, f, t) => ~AtCapacity(tier, ids, f, u)
             /\ \A u \in Nat : u >= t /\ u < FreesAt(tier, ids, f, t) => AtCapacity(tier, ids, f, u)
<1>1. \A tier \in full : Frees(tier)
  <2> TAKE tier \in full
  <2>1. tier.window \in Nat /\ tier.max \in Nat /\ AtCapacity(tier, ids, f, t)
    OBVIOUS
  <2> QED BY <2>1, FreesAtIsExact
<1>2. \A x \in paced : x = last + d /\ last \in Nat /\ x \in Nat /\ x <= b + d
  BY DEF IntervalOK
<1>3. \A x \in freed : x \in Nat /\ x <= b + R
  <2> TAKE x \in freed
  <2>1. PICK tier \in full : x = FreesAt(tier, ids, f, t)
    OBVIOUS
  <2>2. Frees(tier) /\ tier.window <= R /\ tier.window \in Nat
    BY <1>1
  <2> QED BY <2>1, <2>2
<1>4. slot \in slots /\ slot \in Nat /\ \A y \in slots : y <= slot /\ y \in Nat
  <2>1. slots \subseteq Nat /\ slots # {} /\ (\A x \in slots : x <= t + b + R + d) /\ t + b + R + d \in Nat
    <3> HIDE DEF paced, freed
    <3> QED BY <1>2, <1>3
  <2>2. \E m \in slots : \A x \in slots : x <= m
    <3> HIDE DEF slots
    <3> QED BY <2>1, BoundedHasMax
  <2>3. slot = CHOOSE x \in slots : \A y \in slots : y <= x
    BY DEF NextSlotAt
  <2> HIDE DEF slots, slot
  <2> QED BY <2>1, <2>2, <2>3
<1> HIDE DEF slot
<1>5. slot >= t
  BY <1>4
<1>6. Allowed(T, ids, f, d, last, slot)
  <2>1. IntervalOK(last, d, slot)
    <3>1. CASE IntervalOK(last, d, t)
      BY <3>1, <1>4, <1>5 DEF IntervalOK, NoSend
    <3>2. CASE ~IntervalOK(last, d, t)
      <4>1. last + d \in slots
        BY <3>2
      <4>2. last + d <= slot
        BY <4>1, <1>4
      <4> QED BY <4>2, <3>2 DEF IntervalOK
    <3> QED BY <3>1, <3>2
  <2>2. ASSUME NEW tier \in T PROVE ~AtCapacity(tier, ids, f, slot)
    <3>1. CASE AtCapacity(tier, ids, f, t)
      <4>1. Frees(tier) /\ FreesAt(tier, ids, f, t) \in slots
        BY <3>1, <1>1
      <4>2. FreesAt(tier, ids, f, t) <= slot
        BY <4>1, <1>4
      <4> HIDE DEF slots
      <4> QED BY <4>1, <4>2, <1>4, <1>5
    <3>2. CASE ~AtCapacity(tier, ids, f, t)
      <4> DEFINE A == InWindow(ids, f, tier.window, slot)
                 B == InWindow(ids, f, tier.window, t)
      <4>1. tier.window \in Nat /\ tier.max \in Nat
        OBVIOUS
      <4>2. A \in SUBSET B /\ B \in SUBSET ids
        <5> HIDE DEF slots
        <5> QED BY <4>1, <1>4, <1>5 DEF InWindow
      <4>3. Cardinality(A) <= Cardinality(B) /\ Cardinality(A) \in Nat /\ Cardinality(B) \in Nat
        <5> HIDE DEF A, B
        <5>1. IsFiniteSet(B)
          BY <4>2, FS_Subset
        <5> QED BY <4>2, <5>1, FS_Subset, FS_CardinalityType
      <4>4. tier.max > 0 => ~(Cardinality(B) >= tier.max)
        BY <3>2 DEF AtCapacity
      <4>5. tier.max > 0 => ~(Cardinality(A) >= tier.max)
        <5> HIDE DEF A, B
        <5> QED BY <4>1, <4>3, <4>4
      <4> QED BY <4>5 DEF AtCapacity
    <3> QED BY <3>1, <3>2
  <2> QED BY <2>1, <2>2 DEF Allowed
<1>7. ASSUME NEW u \in t..(slot - 1) PROVE ~Allowed(T, ids, f, d, last, u)
  <2>1. u \in Nat /\ u >= t /\ u < slot
    BY <1>4
  <2>2. slot \in paced \/ slot \in freed
    <3> HIDE DEF paced, freed
    <3> QED BY <2>1, <1>4
  <2>3. CASE slot \in paced
    <3>1. ~IntervalOK(last, d, u)
      BY <2>3, <2>1, <1>2 DEF IntervalOK, NoSend
    <3> QED BY <3>1 DEF Allowed
  <2>4. CASE slot \in freed
    <3>1. PICK tier \in full : slot = FreesAt(tier, ids, f, t)
      BY <2>4
    <3>2. Frees(tier) /\ tier \in T
      BY <1>1
    <3>3. AtCapacity(tier, ids, f, u)
      <4> HIDE DEF full
      <4> QED BY <3>1, <3>2, <2>1
    <3> QED BY <3>2, <3>3 DEF Allowed
  <2> QED BY <2>2, <2>3, <2>4
<1> QED BY <1>4, <1>5, <1>6, <1>7 DEF Exact, slot

\* The slot the claim reports is the earliest at which it would be allowed,
\* for every pace, every set of tiers and every ledger.
THEOREM NextSlotEarliest == Spec => []NextSlotIsEarliest
<1>1. TypeOK /\ LedgerIsComplete => NextSlotIsEarliest
  <2> SUFFICES ASSUME TypeOK, LedgerIsComplete PROVE NextSlotIsEarliest
    OBVIOUS
  <2> DEFINE seen == Recent(tiers, pace)
             last == LastSend(seen, at)
  <2>1. now \in Nat /\ Retention \in Nat /\ tiers \in TierSets
    BY BudgetAssumption DEF TypeOK
  <2>2. IsFiniteSet(seen) /\ seen \subseteq Ids
    <3>1. seen \in SUBSET Ids
      BY DEF Recent, TypeOK
    <3>2. IsFiniteSet(Ids)
      BY FS_Interval DEF TypeOK, Ids
    <3> HIDE DEF seen
    <3> QED BY <3>1, <3>2, FS_Subset
  <2>3. (\A i \in seen : at[i] \in Nat) /\ (\A i \in seen : at[i] <= now)
    <3>1. \A i \in Ids : at[i] \in Nat /\ at[i] <= now
      BY DEF TypeOK, LedgerIsComplete
    <3> HIDE DEF seen
    <3> QED BY <2>2, <3>1
  <2>4. last = NoSend \/ (last \in Nat /\ last <= now)
    <3> HIDE DEF seen
    <3> QED BY <2>1, <2>3, LastSendBounded
  <2>5. \A x \in tiers : x.window \in Nat /\ x.max \in Nat /\ x.window <= Retention
    BY <2>1, BudgetAssumption
  <2>6. ASSUME NEW d \in Draws(pace)
        PROVE  LET slot    == NextSlotAt(tiers, seen, at, d, last, now)
                   OkAt(t) == Allowed(tiers, seen, at, d, last, t)
               IN  OkAt(slot) /\ \A t \in now..(slot - 1) : ~OkAt(t)
    <3>1. d \in Nat
      <4>1. pace.min \in Nat /\ pace.jitter \in Nat /\ pace.jitter <= pace.min
        BY BudgetAssumption DEF TypeOK
      <4> QED BY <4>1 DEF Draws
    <3>2. \A x \in tiers : x.window \in Nat /\ x.max \in Nat /\ x.window <= Retention
      BY <2>5
    <3> HIDE DEF seen, last
    <3>3. Exact(tiers, seen, at, d, last, now, NextSlotAt(tiers, seen, at, d, last, now))
      BY <2>1, <2>2, <2>3, <2>4, <3>1, <3>2, NextSlotIsExact
    <3> QED BY <3>3 DEF Exact
  <2> QED BY <2>6 DEF NextSlotIsEarliest
<1> QED BY <1>1, BudgetTypeCorrect, LedgerComplete, PTL

----------------------------------------------------------------------------
(* Quiet hours: the calendar's arithmetic and nextWindowOpen.               *)

\* Quotient and remainder.
LEMMA DivMod ==
  ASSUME NEW D \in Nat, D > 0, NEW t \in Nat
  PROVE  t \div D \in Nat /\ t % D \in 0..(D - 1) /\ t = (t \div D) * D + (t % D)
<1> DEFINE q == t \div D
           r == t % D
<1>1. q \in Nat /\ r \in Nat /\ r < D
  OBVIOUS
<1>2. t = D * q + r
  OBVIOUS
<1>3. q \in Nat /\ r \in 0..(D - 1) /\ t = q * D + r
  <2> HIDE DEF q, r
  <2> QED BY <1>1, <1>2
<1> QED BY <1>3, Zenon

\* They are determined by what they add up to.
LEMMA DivModUnique ==
  ASSUME NEW D \in Nat, D > 0, NEW q \in Int, NEW r \in Nat, r < D, NEW p \in Int, NEW s \in Nat, s < D,
         q * D + r = p * D + s
  PROVE  q = p /\ r = s
<1>1. ~(q < p)
  <2>1. q < p => q * D + D <= p * D
    BY Z3
  <2> QED BY <2>1, Z3
<1>2. ~(p < q)
  <2>1. p < q => p * D + D <= q * D
    BY Z3
  <2> QED BY <2>1, Z3
<1> QED BY <1>1, <1>2

\* Where minute t of the calendar lies: its week, its day of the week and its minute of the day.
LEMMA Calendar ==
  ASSUME NEW t \in Nat
  PROVE  /\ t \div (Week * Day) \in Nat /\ t % Day \in 0..(Day - 1) /\ (t \div Day) % Week \in 0..(Week - 1)
         /\ t \div Day = (t \div (Week * Day)) * Week + ((t \div Day) % Week)
         /\ t = (t \div Day) * Day + (t % Day)
<1> DEFINE P == Week * Day
           x == t \div Day
           m == t % Day
           k == x \div Week
           c == x % Week
           y == c * Day + m
<1>1. Day \in Nat /\ Day > 0 /\ Week \in Nat /\ Week > 0
  BY BudgetAssumption
<1>2. P \in Nat /\ P > 0
  BY <1>1
<1>3. x \in Nat /\ m \in 0..(Day - 1) /\ t = x * Day + m
  BY <1>1, DivMod
<1>4. k \in Nat /\ c \in 0..(Week - 1) /\ x = k * Week + c
  <2> HIDE DEF x
  <2> QED BY <1>1, <1>3, DivMod
<1>5. t \div P \in Nat /\ t % P \in 0..(P - 1) /\ t = (t \div P) * P + (t % P)
  <2> HIDE DEF P
  <2> QED BY <1>2, DivMod
<1>6. t = k * P + y
  <2> HIDE DEF x, m, k, c
  <2> QED BY <1>1, <1>3, <1>4, Z3
<1>7. y \in Nat /\ y < P
  <2> HIDE DEF x, m, k, c
  <2>1. c * Day + Day <= Week * Day
    BY <1>1, <1>4, Z3
  <2> QED BY <2>1, <1>1, <1>3, <1>4
<1>8. t \div P = k
  <2> DEFINE q == t \div P
             s == t % P
  <2>1. q \in Int /\ s \in Nat /\ s < P /\ k \in Int /\ y \in Nat /\ y < P /\ q * P + s = k * P + y
    <3> HIDE DEF P, k, y, x, m, c
    <3> QED BY <1>2, <1>4, <1>5, <1>6, <1>7
  <2> HIDE DEF P, k, y, q, s
  <2>2. q = k
    BY <1>2, <2>1, DivModUnique
  <2> QED BY <2>2 DEF q
<1>9. t \div P \in Nat /\ x = (t \div P) * Week + c /\ m \in 0..(Day - 1) /\ c \in 0..(Week - 1)
      /\ t = x * Day + m
  <2> HIDE DEF P, x, m, k, c
  <2> QED BY <1>3, <1>4, <1>5, <1>8
<1> QED BY <1>9

\* Minute t is in the window's interval of that week.
Through(w, week, t) ==
  LET from == (week * Week + w.day) * Day + w.start
  IN  t \in from..(from + (IF w.end > w.start THEN w.end ELSE w.end + Day) - w.start - 1)

\* In terms of days: on the day the window begins, or on the day after one that goes past midnight.
LEMMA ThroughIsADay ==
  ASSUME NEW w \in Windows, NEW week \in Int, NEW x \in Nat, NEW m \in 0..(Day - 1)
  PROVE  Through(w, week, x * Day + m) <=>
           IF w.end > w.start
           THEN x = week * Week + w.day /\ m >= w.start /\ m < w.end
           ELSE (x = week * Week + w.day /\ m >= w.start) \/ (x = week * Week + w.day + 1 /\ m < w.end)
<1> DEFINE X == week * Week + w.day
           s == w.start
           e == w.end
           len == IF e > s THEN e ELSE e + Day
           t == x * Day + m
           inside == X * Day + s <= t /\ t <= X * Day + len - 1
           byDay == IF e > s THEN x = X /\ m >= s /\ m < e
                             ELSE (x = X /\ m >= s) \/ (x = X + 1 /\ m < e)
<1>1. Day \in Nat /\ Day > 0 /\ Week \in Nat /\ Week > 0
  BY BudgetAssumption
<1>2. X \in Int /\ s \in 0..(Day - 1) /\ e \in 1..Day /\ m \in Nat
  <2>1. w.day \in Nat /\ s \in 0..(Day - 1) /\ e \in 1..Day
    BY <1>1 DEF Windows
  <2> QED BY <1>1, <2>1
<1>3. Through(w, week, t) <=> inside
  <2>1. Through(w, week, t) <=> t \in (X * Day + s)..(X * Day + s + len - s - 1)
    BY Zenon DEF Through
  <2>2. X * Day \in Int /\ t \in Int /\ len \in Int
    BY <1>1, <1>2
  <2> HIDE DEF X, s, e, len, t
  <2> QED BY <1>2, <2>1, <2>2
<1>4. inside <=> byDay
  <2> HIDE DEF X, s, e
  <2>1. x < X => x * Day + Day <= X * Day
    BY <1>1, <1>2
  <2>2. x > X + 1 => X * Day + Day + Day <= x * Day
    BY <1>1, <1>2
  <2>3. (X + 1) * Day = X * Day + Day
    BY <1>1, <1>2
  <2>4. CASE x = X
    BY <1>1, <1>2, <2>4
  <2>5. CASE x = X + 1
    BY <1>1, <1>2, <2>3, <2>5
  <2>6. CASE x < X
    BY <1>1, <1>2, <2>1, <2>6
  <2>7. CASE x > X + 1
    BY <1>1, <1>2, <2>2, <2>7
  <2>8. x = X \/ x = X + 1 \/ x < X \/ x > X + 1
    BY <1>2
  <2> QED BY <2>4, <2>5, <2>6, <2>7, <2>8
<1> QED BY <1>3, <1>4, Zenon

\* The day after, the last day of the week followed by the first.
LEMMA DayAfter ==
  ASSUME NEW c \in 0..(Week - 1)
  PROVE  (c + 1) % Week = IF c + 1 = Week THEN 0 ELSE c + 1
<1>1. Week \in Nat /\ Week > 0
  BY BudgetAssumption
<1>2. CASE c + 1 = Week
  BY <1>1, <1>2
<1>3. CASE c + 1 # Week
  BY <1>1, <1>3
<1> QED BY <1>2, <1>3

\* Window.Contains says whether a minute is in one of the calendar's intervals.
LEMMA ContainsIsThrough ==
  ASSUME NEW w \in Windows, NEW t \in Nat
  PROVE  Contains(w, t) <=> \E week \in -1..(t \div (Week * Day)) : Through(w, week, t)
<1> DEFINE x == t \div Day
           m == t % Day
           k == t \div (Week * Day)
           c == x % Week
           next == (w.day + 1) % Week
           ByDay(week) == IF w.end > w.start
                          THEN x = week * Week + w.day /\ m >= w.start /\ m < w.end
                          ELSE (x = week * Week + w.day /\ m >= w.start)
                            \/ (x = week * Week + w.day + 1 /\ m < w.end)
<1>1. Day \in Nat /\ Day > 0 /\ Week \in Nat /\ Week > 0
  BY BudgetAssumption
<1>2. k \in Nat /\ m \in 0..(Day - 1) /\ c \in 0..(Week - 1) /\ x = k * Week + c
  BY Calendar
<1>3. x \in Nat /\ t = x * Day + m
  <2>1. t = x * Day + m
    BY Calendar
  <2> QED BY <1>1, <2>1
<1>4. ASSUME NEW week \in Int PROVE Through(w, week, t) <=> ByDay(week)
  <2>1. Through(w, week, x * Day + m) <=> ByDay(week)
    <3> HIDE DEF x, m
    <3> QED BY <1>2, <1>3, ThroughIsADay
  <2> HIDE DEF ByDay, x, m
  <2> QED BY <2>1, <1>3
<1>5. Contains(w, t) <=> IF w.end > w.start
                         THEN c = w.day /\ m >= w.start /\ m < w.end
                         ELSE (c = w.day /\ m >= w.start) \/ (c = next /\ m < w.end)
  BY Zenon DEF Contains
<1>6. w.day \in 0..(Week - 1)
  BY DEF Windows
<1>7. next = IF w.day + 1 = Week THEN 0 ELSE w.day + 1
  <2> HIDE DEF next
  <2> QED BY <1>6, DayAfter DEF next
<1> HIDE DEF x, m, k, c, next
<1>8. ASSUME NEW week \in Int PROVE x = week * Week + w.day <=> week = k /\ c = w.day
  <2>1. x = week * Week + w.day => week = k /\ c = w.day
    BY <1>1, <1>2, <1>6, DivModUnique
  <2> QED BY <2>1, <1>2
<1>9. ASSUME NEW week \in Int
      PROVE  x = week * Week + w.day + 1 <=> week = (IF w.day + 1 = Week THEN k - 1 ELSE k) /\ c = next
  <2>1. CASE w.day + 1 = Week
    <3>1. week * Week + w.day + 1 = (week + 1) * Week + 0 /\ week + 1 \in Int /\ 0 < Week
      BY <1>1, <1>6, <2>1
    <3>2. x = (week + 1) * Week + 0 => week + 1 = k /\ c = 0
      <4>1. \A p \in Int, z \in Nat : z < Week /\ x = p * Week + z => p = k /\ c = z
        BY <1>1, <1>2, DivModUnique
      <4>2. 0 \in Nat
        OBVIOUS
      <4> QED BY <3>1, <4>1, <4>2, Zenon
    <3>3. week + 1 = k => (week + 1) * Week + 0 = k * Week
      BY <1>1, <1>2
    <3> QED BY <1>2, <1>7, <2>1, <3>1, <3>2, <3>3
  <2>2. CASE w.day + 1 # Week
    <3>1. w.day + 1 \in Nat /\ w.day + 1 < Week /\ week * Week + w.day + 1 = week * Week + (w.day + 1)
      BY <1>1, <1>6, <2>2
    <3>2. x = week * Week + (w.day + 1) => week = k /\ c = w.day + 1
      BY <1>1, <1>2, <3>1, DivModUnique
    <3> QED BY <1>2, <1>7, <2>2, <3>1, <3>2
  <2> QED BY <2>1, <2>2
<1>10. Contains(w, t) <=> \E week \in {k, k - 1} : ByDay(week)
  <2>1. k \in Int /\ k - 1 \in Int /\ k # k - 1
    BY <1>2
  <2> QED BY <1>5, <1>8, <1>9, <2>1
<1>11. ASSUME NEW week \in Int, ByDay(week) PROVE week \in {k, k - 1}
  BY <1>8, <1>9, <1>11
<1>12. {k, k - 1} \subseteq -1..k /\ -1..k \subseteq Int
  BY <1>2
<1>13. Contains(w, t) <=> \E week \in -1..k : ByDay(week)
  <2> HIDE DEF ByDay
  <2> QED BY <1>10, <1>11, <1>12
<1>14. Contains(w, t) <=> \E week \in -1..k : Through(w, week, t)
  <2> HIDE DEF ByDay
  <2> QED BY <1>4, <1>12, <1>13
<1> QED BY <1>14 DEF k

\* The hours of the property and those the code checks are the same.
LEMMA OpenIsWindowsOK ==
  ASSUME NEW hrs \in HoursSets, NEW t \in Nat
  PROVE  WindowsOK(hrs, t) <=> OpenAt(hrs.account, t) /\ OpenAt(hrs.campaign, t)
<1>1. ASSUME NEW windows \in SUBSET Windows
      PROVE  OpenAt(windows, t) <=> (windows # {} => InSchedule(windows, t))
  <2>1. OpenAt(windows, t) <=>
          windows = {} \/ \E w \in windows : \E week \in -1..(t \div (Week * Day)) : Through(w, week, t)
    BY DEF OpenAt, Through
  <2>2. \A w \in windows : Contains(w, t) <=> \E week \in -1..(t \div (Week * Day)) : Through(w, week, t)
    BY ContainsIsThrough
  <2> QED BY <2>1, <2>2, Zenon DEF InSchedule
<1>2. hrs.account \in SUBSET Windows /\ hrs.campaign \in SUBSET Windows
  BY BudgetAssumption
<1> QED BY <1>1, <1>2, Zenon DEF WindowsOK

\* Windows recur weekly.
LEMMA HoursRecur ==
  ASSUME NEW hrs, NEW t \in Nat
  PROVE  WindowsOK(hrs, t + Week * Day) <=> WindowsOK(hrs, t)
<1> DEFINE P == Week * Day
           u == t + P
<1>1. Day \in Nat /\ Day > 0 /\ Week \in Nat /\ Week > 0 /\ P \in Nat
  BY BudgetAssumption
<1>2. t \div Day \in Nat /\ u % Day = t % Day /\ u \div Day = (t \div Day) + Week
  BY <1>1
<1>3. (u \div Day) % Week = (t \div Day) % Week
  <2> SUFFICES ASSUME NEW x \in Nat PROVE (x + Week) % Week = x % Week
    BY <1>2
  <2> DEFINE k == x \div Week
             r == x % Week
             j == (x + Week) \div Week
             s == (x + Week) % Week
  <2>1. k \in Nat /\ r \in 0..(Week - 1) /\ x = k * Week + r
    BY <1>1, DivMod
  <2>2. j \in Nat /\ s \in 0..(Week - 1) /\ x + Week = j * Week + s
    <3>1. x + Week \in Nat
      BY <1>1
    <3> QED BY <1>1, <3>1, DivMod
  <2> HIDE DEF k, r, j, s
  <2>3. k * Week + Week = (k + 1) * Week
    BY <1>1, <2>1
  <2>4. \A i \in Int : i * Week + r = j * Week + s => r = s
    BY <1>1, <2>1, <2>2, DivModUnique
  <2>5. k + 1 \in Int /\ (k + 1) * Week + r = j * Week + s
    BY <1>1, <2>1, <2>2, <2>3
  <2>6. r = s
    BY <2>4, <2>5, Zenon
  <2> QED BY <2>6 DEF r, s
<1>4. ASSUME NEW w PROVE Contains(w, u) <=> Contains(w, t)
  <2> HIDE DEF u
  <2> QED BY <1>2, <1>3, Zenon DEF Contains
<1>5. WindowsOK(hrs, u) <=> WindowsOK(hrs, t)
  <2> HIDE DEF u
  <2> QED BY <1>4, Zenon DEF WindowsOK, InSchedule
<1> QED BY <1>5

\* u is the first moment from t on inside the hours, or Never.
FirstOpen(hrs, t, u) ==
  IF u = Never THEN \A v \in Nat : v >= t => ~WindowsOK(hrs, v)
  ELSE u \in Nat /\ u >= t /\ WindowsOK(hrs, u) /\ \A v \in t..(u - 1) : ~WindowsOK(hrs, v)

\* A week's search is enough to find it.
LEMMA NextWindowOpenIsFirst ==
  ASSUME NEW hrs, NEW t \in Nat
  PROVE  FirstOpen(hrs, t, NextWindowOpen(hrs, t))
<1> DEFINE P == Week * Day
           open == {v \in t..(t + P) : WindowsOK(hrs, v)}
           later == {v \in Nat : v >= t /\ WindowsOK(hrs, v)}
           u == NextWindowOpen(hrs, t)
<1>1. P \in Nat /\ P > 0
  BY BudgetAssumption
<1>2. u = IF open = {} THEN Never ELSE CHOOSE v \in open : \A y \in open : v <= y
  BY DEF NextWindowOpen
<1> HIDE DEF u
<1>3. CASE open = {}
  <2>1. ASSUME later # {} PROVE FALSE
    <3>1. PICK v \in later : \A y \in later : ~(y < v)
      <4> HIDE DEF later
      <4>1. later \subseteq Nat
        BY DEF later
      <4> QED BY <2>1, <4>1, NatHasMin
    <3>2. v \in Nat /\ v >= t /\ WindowsOK(hrs, v) /\ ~(v <= t + P)
      BY <1>1, <1>3
    <3>3. v - P \in Nat /\ v - P >= t /\ (v - P) + P = v /\ v - P < v
      <4> HIDE DEF P
      <4> QED BY <1>1, <3>2
    <3>4. WindowsOK(hrs, v - P)
      <4> SUFFICES ASSUME NEW y \in Nat, y + P = v PROVE WindowsOK(hrs, y)
        BY <3>3, Zenon
      <4> QED BY <3>2, HoursRecur
    <3>5. v - P \in later
      BY <3>3, <3>4, Zenon
    <3> QED BY <3>1, <3>3, <3>5, Zenon
  <2>2. u = Never
    BY <1>2, <1>3
  <2> QED BY <2>1, <2>2 DEF FirstOpen, u
<1>4. CASE open # {}
  <2>1. open \subseteq Nat
    <3> HIDE DEF P
    <3> QED BY <1>1
  <2>2. PICK v \in open : \A y \in open : ~(y < v)
    <3> HIDE DEF open
    <3> QED BY <1>4, <2>1, NatHasMin
  <2>3. \A y \in open : v <= y
    <3> HIDE DEF open
    <3> QED BY <2>1, <2>2
  <2>4. u \in open /\ \A y \in open : u <= y
    <3> HIDE DEF open
    <3> QED BY <1>2, <1>4, <2>2, <2>3
  <2>5. u \in Nat /\ u >= t /\ u <= t + P /\ WindowsOK(hrs, u)
    <3> HIDE DEF P
    <3> QED BY <1>1, <2>1, <2>4
  <2>6. ASSUME NEW v2 \in t..(u - 1), WindowsOK(hrs, v2) PROVE FALSE
    <3>1. v2 \in open
      <4> HIDE DEF P
      <4> QED BY <1>1, <2>5, <2>6
    <3> HIDE DEF open
    <3> QED BY <2>4, <2>5, <2>6, <3>1
  <2>7. u # Never
    BY <2>5 DEF Never
  <2> QED BY <2>5, <2>6, <2>7 DEF FirstOpen, u
<1> QED BY <1>3, <1>4

----------------------------------------------------------------------------
(* nextAllowedSlot, a recursive search.                                     *)

\* The attempts, tiers and interval the lemmas below are about: no attempt is later than b and no
\* tier is wider than R.
Budgeted(T, ids, f, d, last, b, R) ==
  /\ IsFiniteSet(ids) /\ b \in Nat /\ R \in Nat /\ d \in Nat
  /\ \A i \in ids : f[i] \in Nat /\ f[i] <= b
  /\ \A x \in T : x.window \in Nat /\ x.max \in Nat /\ x.window <= R
  /\ last = NoSend \/ (last \in Nat /\ last <= b)

\* The slot is exact for them at any time.
LEMMA SlotIsExact ==
  ASSUME NEW T, NEW ids, NEW f, NEW d, NEW last, NEW b, NEW R, Budgeted(T, ids, f, d, last, b, R), NEW t \in Nat
  PROVE  Exact(T, ids, f, d, last, t, NextSlotAt(T, ids, f, d, last, t))
<1>1. /\ IsFiniteSet(ids) /\ b \in Nat /\ R \in Nat /\ d \in Nat
      /\ \A i \in ids : f[i] \in Nat
      /\ \A i \in ids : f[i] <= b
      /\ \A x \in T : x.window \in Nat /\ x.max \in Nat /\ x.window <= R
      /\ last = NoSend \/ (last \in Nat /\ last <= b)
  BY DEF Budgeted
<1> QED BY <1>1, NextSlotIsExact

\* Once every attempt has left every tier and the interval has passed, a send is allowed for good.
LEMMA AllowedInTheEnd ==
  ASSUME NEW T, NEW ids, NEW f, NEW d, NEW last, NEW b, NEW R, Budgeted(T, ids, f, d, last, b, R),
         NEW t \in Nat, t >= b + R + d
  PROVE  Allowed(T, ids, f, d, last, t)
<1>1. IntervalOK(last, d, t)
  BY DEF Budgeted, IntervalOK
<1>2. ASSUME NEW tier \in T PROVE ~AtCapacity(tier, ids, f, t)
  <2>1. InWindow(ids, f, tier.window, t) = {}
    BY DEF InWindow, Budgeted
  <2>2. Cardinality({}) = 0 /\ tier.max \in Nat
    BY FS_EmptySet DEF Budgeted
  <2> QED BY <2>1, <2>2 DEF AtCapacity
<1> QED BY <1>1, <1>2 DEF Allowed

\* A send is possible at t: inside both hours and within the budget.
Possible(T, ids, f, d, last, hrs, t) == WindowsOK(hrs, t) /\ Allowed(T, ids, f, d, last, t)

\* u is the first such moment from t on, or Never.
FirstPossible(T, ids, f, d, last, hrs, t, u) ==
  IF u = Never THEN \A v \in Nat : v >= t => ~Possible(T, ids, f, d, last, hrs, v)
  ELSE /\ u \in Nat /\ u >= t /\ Possible(T, ids, f, d, last, hrs, u)
       /\ \A v \in t..(u - 1) : ~Possible(T, ids, f, d, last, hrs, v)

\* There is one.
LEMMA FirstPossibleExists ==
  ASSUME NEW T, NEW ids, NEW f, NEW d, NEW last, NEW hrs, NEW t \in Nat
  PROVE  \E u \in Nat \cup {Never} : FirstPossible(T, ids, f, d, last, hrs, t, u)
<1> DEFINE later == {v \in Nat : v >= t /\ Possible(T, ids, f, d, last, hrs, v)}
<1>1. CASE later = {}
  BY <1>1 DEF FirstPossible
<1>2. CASE later # {}
  <2>1. PICK u \in later : \A y \in later : ~(y < u)
    <3>1. later \subseteq Nat
      OBVIOUS
    <3> HIDE DEF later
    <3> QED BY <1>2, <3>1, NatHasMin
  <2>2. u \in Nat /\ u >= t /\ Possible(T, ids, f, d, last, hrs, u)
    OBVIOUS
  <2>3. ASSUME NEW v \in t..(u - 1), Possible(T, ids, f, d, last, hrs, v) PROVE FALSE
    <3>1. v \in later /\ v < u
      BY <2>2, <2>3
    <3> QED BY <2>1, <3>1
  <2>4. u # Never
    BY <2>2 DEF Never
  <2> HIDE DEF later
  <2> QED BY <2>2, <2>3, <2>4 DEF FirstPossible
<1> QED BY <1>1, <1>2

\* No two moments are both the first.
LEMMA FirstPossibleUnique ==
  ASSUME NEW T, NEW ids, NEW f, NEW d, NEW last, NEW hrs, NEW t \in Nat, NEW u, NEW v,
         FirstPossible(T, ids, f, d, last, hrs, t, u), FirstPossible(T, ids, f, d, last, hrs, t, v)
  PROVE  u = v
<1>1. CASE u = Never \/ v = Never
  BY <1>1 DEF FirstPossible
<1>2. CASE u # Never /\ v # Never
  BY <1>2 DEF FirstPossible
<1> QED BY <1>1, <1>2

\* One turn of nextAllowedSlot's loop at t, where g gives the result of the turns after it.
Turn(T, ids, f, d, last, hrs, g, t) ==
  IF WindowsOK(hrs, t)
  THEN IF Allowed(T, ids, f, d, last, t) THEN t ELSE g[NextSlotAt(T, ids, f, d, last, t)]
  ELSE IF NextWindowOpen(hrs, t) = Never THEN Never ELSE g[NextWindowOpen(hrs, t)]

\* A turn skips no possible moment.
LEMMA TurnIsFirst ==
  ASSUME NEW T, NEW ids, NEW f, NEW d, NEW last, NEW b, NEW R, Budgeted(T, ids, f, d, last, b, R),
         NEW hrs, NEW t \in Nat, NEW g,
         \A y \in Nat : y > t /\ (~Allowed(T, ids, f, d, last, t) \/ WindowsOK(hrs, y))
                       => FirstPossible(T, ids, f, d, last, hrs, y, g[y])
  PROVE  FirstPossible(T, ids, f, d, last, hrs, t, Turn(T, ids, f, d, last, hrs, g, t))
<1> DEFINE s == NextSlotAt(T, ids, f, d, last, t)
           w == NextWindowOpen(hrs, t)
           Ok(v) == Possible(T, ids, f, d, last, hrs, v)
           First(v, u) == FirstPossible(T, ids, f, d, last, hrs, v, u)
\* Nothing is possible from t until y, so the first from y on is the first from t on.
<1>1. ASSUME NEW y \in Nat, y > t, \A v \in t..(y - 1) : ~Ok(v), NEW u, First(y, u) PROVE First(t, u)
  <2> HIDE DEF Ok
  <2>1. CASE u = Never
    <3>1. ASSUME NEW v \in Nat, v >= t PROVE ~Ok(v)
      <4>1. CASE v >= y
        BY <1>1, <2>1, <4>1 DEF FirstPossible, Ok
      <4>2. CASE ~(v >= y)
        BY <1>1, <3>1, <4>2
      <4> QED BY <4>1, <4>2
    <3> QED BY <2>1, <3>1 DEF FirstPossible, Ok
  <2>2. CASE u # Never
    <3>1. u \in Nat /\ u >= y /\ Ok(u) /\ \A v \in y..(u - 1) : ~Ok(v)
      BY <1>1, <2>2 DEF FirstPossible, Ok
    <3>2. ASSUME NEW v \in t..(u - 1) PROVE ~Ok(v)
      <4>1. v \in y..(u - 1) \/ v \in t..(y - 1)
        BY <1>1, <3>1
      <4> QED BY <1>1, <3>1, <4>1
    <3>3. u >= t
      BY <1>1, <3>1
    <3> QED BY <2>2, <3>1, <3>2, <3>3 DEF FirstPossible, Ok
  <2> QED BY <2>1, <2>2
<1>2. CASE Ok(t)
  <2>1. Turn(T, ids, f, d, last, hrs, g, t) = t
    BY <1>2, Zenon DEF Turn, Possible
  <2>2. First(t, t)
    BY <1>2 DEF FirstPossible, Never
  <2> QED BY <2>1, <2>2
<1>3. CASE WindowsOK(hrs, t) /\ ~Allowed(T, ids, f, d, last, t)
  <2>1. Exact(T, ids, f, d, last, t, s)
    BY SlotIsExact
  <2> HIDE DEF s
  <2>2. s \in Nat /\ s > t
    <3>1. s # t
      BY <1>3, <2>1 DEF Exact
    <3> QED BY <2>1, <3>1 DEF Exact
  <2>3. \A v \in t..(s - 1) : ~Ok(v)
    BY <2>1 DEF Exact, Possible
  <2>4. First(s, g[s])
    <3> HIDE DEF First
    <3> QED BY <1>3, <2>2 DEF First
  <2>5. First(t, g[s])
    <3> HIDE DEF First, Ok
    <3> QED BY <1>1, <2>2, <2>3, <2>4
  <2> QED BY <1>3, <2>5, Zenon DEF Turn, s
<1>4. CASE ~WindowsOK(hrs, t)
  <2>1. FirstOpen(hrs, t, w)
    BY NextWindowOpenIsFirst
  <2> HIDE DEF w
  <2>2. CASE w = Never
    <3>1. First(t, Never)
      BY <2>1, <2>2 DEF FirstOpen, FirstPossible, Possible
    <3> QED BY <1>4, <2>2, <3>1, Zenon DEF Turn, w
  <2>3. CASE w # Never
    <3>1. w \in Nat /\ w > t /\ WindowsOK(hrs, w) /\ \A v \in t..(w - 1) : ~Ok(v)
      <4>1. w # t
        BY <1>4, <2>1, <2>3 DEF FirstOpen
      <4> QED BY <2>1, <2>3, <4>1 DEF FirstOpen, Possible
    <3>2. First(w, g[w])
      <4> HIDE DEF First
      <4> QED BY <3>1 DEF First
    <3>3. First(t, g[w])
      <4> HIDE DEF First, Ok
      <4> QED BY <1>1, <3>1, <3>2
    <3> QED BY <1>4, <2>3, <3>3, Zenon DEF Turn, w
  <2> QED BY <2>2, <2>3
<1> QED BY <1>2, <1>3, <1>4 DEF Possible

\* g is the search: at every moment, one turn and then g.
IsSearch(T, ids, f, d, last, hrs, g) ==
  g = [t \in Nat |-> Turn(T, ids, f, d, last, hrs, g, t)]

\* There is a search: the one that knows the answer.
LEMMA SearchExists ==
  ASSUME NEW T, NEW ids, NEW f, NEW d, NEW last, NEW b, NEW R, Budgeted(T, ids, f, d, last, b, R), NEW hrs
  PROVE  \E g : IsSearch(T, ids, f, d, last, hrs, g)
<1> DEFINE First(t, u) == FirstPossible(T, ids, f, d, last, hrs, t, u)
           g == [t \in Nat |-> CHOOSE u \in Nat \cup {Never} : First(t, u)]
<1>1. \A t \in Nat : First(t, g[t])
  <2> TAKE t \in Nat
  <2>1. \E u \in Nat \cup {Never} : First(t, u)
    BY FirstPossibleExists
  <2> HIDE DEF First
  <2> QED BY <2>1
<1>2. \A t \in Nat : First(t, Turn(T, ids, f, d, last, hrs, g, t))
  <2> HIDE DEF g
  <2> QED BY <1>1, TurnIsFirst
<1>3. \A t \in Nat : g[t] = Turn(T, ids, f, d, last, hrs, g, t)
  <2> HIDE DEF g
  <2> QED BY <1>1, <1>2, FirstPossibleUnique
<1>4. g = [t \in Nat |-> g[t]]
  OBVIOUS
<1>5. IsSearch(T, ids, f, d, last, hrs, g)
  <2> HIDE DEF g
  <2> QED BY <1>3, <1>4 DEF IsSearch
<1> QED BY <1>5

\* Every search gives the first possible moment: past the end of every window at once, and
\* before that because the turns only go forward.
LEMMA SearchIsFirst ==
  ASSUME NEW T, NEW ids, NEW f, NEW d, NEW last, NEW b, NEW R, Budgeted(T, ids, f, d, last, b, R), NEW hrs,
         NEW g, IsSearch(T, ids, f, d, last, hrs, g), NEW t \in Nat
  PROVE  FirstPossible(T, ids, f, d, last, hrs, t, g[t])
<1> DEFINE First(y) == FirstPossible(T, ids, f, d, last, hrs, y, g[y])
           end == b + R + d
           wrong == {y \in Nat : ~First(y)}
<1>1. end \in Nat
  BY DEF Budgeted
<1>2. \A y \in Nat : g[y] = Turn(T, ids, f, d, last, hrs, g, y)
  BY DEF IsSearch
<1>3. ASSUME NEW y \in Nat, y >= end PROVE First(y)
  <2>1. ASSUME NEW z \in Nat, z > y, WindowsOK(hrs, z) PROVE First(z)
    <3>1. Allowed(T, ids, f, d, last, z)
      BY <1>1, <1>3, <2>1, AllowedInTheEnd
    <3>2. g[z] = z
      BY <1>2, <2>1, <3>1, Zenon DEF Turn
    <3>3. FirstPossible(T, ids, f, d, last, hrs, z, z)
      BY <2>1, <3>1 DEF FirstPossible, Possible, Never
    <3> QED BY <3>2, <3>3, Zenon
  <2>2. Allowed(T, ids, f, d, last, y)
    BY <1>1, <1>3, AllowedInTheEnd
  <2>3. FirstPossible(T, ids, f, d, last, hrs, y, Turn(T, ids, f, d, last, hrs, g, y))
    BY <2>1, <2>2, TurnIsFirst
  <2> QED BY <1>2, <2>3, Zenon
<1>4. ASSUME wrong # {} PROVE FALSE
  <2>1. wrong \subseteq Nat /\ \A y \in wrong : y <= end
    <3> HIDE DEF First, end
    <3> QED BY <1>1, <1>3
  <2>2. PICK y \in wrong : \A z \in wrong : z <= y
    <3> HIDE DEF wrong, end
    <3> QED BY <1>1, <1>4, <2>1, BoundedHasMax
  <2>3. y \in Nat /\ ~First(y)
    BY <2>2
  <2>4. \A z \in Nat : z > y => First(z)
    <3> TAKE z \in Nat
    <3>1. ~First(z) => z \in wrong
      BY Zenon
    <3>2. z > y => ~(z <= y)
      BY <2>3
    <3> HIDE DEF wrong, First
    <3> QED BY <2>2, <3>1, <3>2, Zenon
  <2>5. FirstPossible(T, ids, f, d, last, hrs, y, Turn(T, ids, f, d, last, hrs, g, y))
    BY <2>3, <2>4, TurnIsFirst
  <2> QED BY <1>2, <2>3, <2>5, Zenon
<1> QED BY <1>4

\* nextAllowedSlot finds the first moment a send is possible, for every budget, all hours and
\* any moment to start from.
THEOREM NextAllowedSlotIsFirst ==
  ASSUME NEW T, NEW ids, NEW f, NEW d, NEW last, NEW b, NEW R, Budgeted(T, ids, f, d, last, b, R),
         NEW hrs, NEW from \in Nat
  PROVE  FirstPossible(T, ids, f, d, last, hrs, from, NextAllowedSlot(T, ids, f, d, last, hrs, from))
<1> DEFINE g == CHOOSE h : IsSearch(T, ids, f, d, last, hrs, h)
<1>1. NextAllowedSlot(T, ids, f, d, last, hrs, from) = g[from]
  BY DEF NextAllowedSlot, Turn, IsSearch
<1>2. IsSearch(T, ids, f, d, last, hrs, g)
  BY SearchExists
<1> HIDE DEF g
<1>3. FirstPossible(T, ids, f, d, last, hrs, from, g[from])
  BY <1>2, SearchIsFirst
<1> QED BY <1>1, <1>3, Zenon

\* Where there is never a possible moment, the hours are never open again: the budget alone
\* holds nothing back for ever.
LEMMA NeverIsTheHours ==
  ASSUME NEW T, NEW ids, NEW f, NEW d, NEW last, NEW b, NEW R, Budgeted(T, ids, f, d, last, b, R),
         NEW hrs, NEW t \in Nat, FirstPossible(T, ids, f, d, last, hrs, t, Never),
         NEW v \in Nat, v >= t
  PROVE  ~WindowsOK(hrs, v)
<1> DEFINE open == {y \in Nat : y >= t /\ WindowsOK(hrs, y)}
           end == b + R + d
           P == Week * Day
<1> SUFFICES ASSUME WindowsOK(hrs, v) PROVE FALSE
  OBVIOUS
<1>1. end \in Nat /\ P \in Nat /\ P > 0
  BY BudgetAssumption DEF Budgeted
<1>2. ASSUME NEW y \in open PROVE y <= end
  <2>1. ~Allowed(T, ids, f, d, last, y)
    BY DEF FirstPossible, Possible
  <2>2. ~(y >= end)
    BY <2>1, AllowedInTheEnd
  <2> HIDE DEF end
  <2> QED BY <1>1, <2>2
<1>3. open \subseteq Nat /\ open # {}
  OBVIOUS
<1>4. PICK y \in open : \A z \in open : z <= y
  <2> HIDE DEF open, end
  <2> QED BY <1>1, <1>2, <1>3, BoundedHasMax
<1>5. y + P \in Nat /\ y + P >= t /\ y + P > y
  <2> HIDE DEF P
  <2> QED BY <1>1, <1>4
<1>6. WindowsOK(hrs, y + P)
  BY <1>4, HoursRecur
<1>7. y + P \in open
  BY <1>5, <1>6, Zenon
<1> HIDE DEF open, P
<1> QED BY <1>3, <1>4, <1>5, <1>7

\* Headroom only comes back: what is allowed at t stays allowed.
LEMMA AllowedStays ==
  ASSUME NEW T, NEW ids, NEW f, NEW d, NEW last, NEW b, NEW R, Budgeted(T, ids, f, d, last, b, R),
         NEW t \in Nat, NEW v \in Nat, t <= v, Allowed(T, ids, f, d, last, t)
  PROVE  Allowed(T, ids, f, d, last, v)
<1>1. IntervalOK(last, d, v)
  BY DEF Budgeted, Allowed, IntervalOK
<1>2. ASSUME NEW tier \in T PROVE ~AtCapacity(tier, ids, f, v)
  <2> DEFINE A == InWindow(ids, f, tier.window, v)
             B == InWindow(ids, f, tier.window, t)
  <2>1. tier.window \in Nat /\ tier.max \in Nat /\ IsFiniteSet(ids) /\ ~AtCapacity(tier, ids, f, t)
    BY DEF Allowed, Budgeted
  <2>2. A \in SUBSET B /\ B \in SUBSET ids
    BY <2>1 DEF InWindow, Budgeted
  <2>3. Cardinality(A) <= Cardinality(B) /\ Cardinality(A) \in Nat /\ Cardinality(B) \in Nat
    <3> HIDE DEF A, B
    <3>1. IsFiniteSet(B)
      BY <2>1, <2>2, FS_Subset
    <3> QED BY <2>2, <3>1, FS_Subset, FS_CardinalityType
  <2>4. ~(tier.max > 0 /\ Cardinality(B) >= tier.max)
    BY <2>1 DEF AtCapacity
  <2>5. ~(tier.max > 0 /\ Cardinality(A) >= tier.max)
    <3> HIDE DEF A, B
    <3> QED BY <2>1, <2>3, <2>4
  <2> QED BY <2>5 DEF AtCapacity
<1> QED BY <1>1, <1>2 DEF Allowed

\* nextAllowedSlot's cursor after one iteration that does not return.
Cursor(T, ids, f, d, last, hrs, c) ==
  IF c = Never \/ Possible(T, ids, f, d, last, hrs, c) THEN c
  ELSE IF WindowsOK(hrs, c) THEN NextSlotAt(T, ids, f, d, last, c) ELSE NextWindowOpen(hrs, c)

\* The loop returns in its fourth iteration at the latest, so maxSimulationIterations never ends it.
THEOREM SearchEndsSoon ==
  ASSUME NEW T, NEW ids, NEW f, NEW d, NEW last, NEW b, NEW R, Budgeted(T, ids, f, d, last, b, R),
         NEW hrs, NEW from \in Nat
  PROVE  LET c1 == Cursor(T, ids, f, d, last, hrs, from)
             c2 == Cursor(T, ids, f, d, last, hrs, c1)
             c3 == Cursor(T, ids, f, d, last, hrs, c2)
         IN  c3 = Never \/ Possible(T, ids, f, d, last, hrs, c3)
<1> DEFINE Ok(c) == Possible(T, ids, f, d, last, hrs, c)
           Fits(c) == Allowed(T, ids, f, d, last, c)
           Next1(c) == Cursor(T, ids, f, d, last, hrs, c)
           Done(c) == c = Never \/ Ok(c)
<1>1. \A c : Done(c) => Next1(c) = c
  BY Zenon DEF Cursor
<1>2. ASSUME NEW c \in Nat, ~Ok(c), WindowsOK(hrs, c)
      PROVE  Next1(c) \in Nat /\ Fits(Next1(c))
  <2> DEFINE s == NextSlotAt(T, ids, f, d, last, c)
  <2>1. Next1(c) = s
    BY <1>2 DEF Cursor, Never
  <2>2. s \in Nat /\ Fits(s)
    BY SlotIsExact DEF Exact
  <2> HIDE DEF s, Next1, Fits
  <2> QED BY <2>1, <2>2
<1>3. ASSUME NEW c \in Nat, ~WindowsOK(hrs, c)
      PROVE  Next1(c) = Never \/ (Next1(c) \in Nat /\ Next1(c) >= c /\ WindowsOK(hrs, Next1(c)))
  <2> DEFINE w == NextWindowOpen(hrs, c)
  <2>1. Next1(c) = w
    BY <1>3 DEF Cursor, Never, Possible
  <2>2. FirstOpen(hrs, c, w)
    BY NextWindowOpenIsFirst
  <2> HIDE DEF w, Next1
  <2> QED BY <2>1, <2>2 DEF FirstOpen
\* Once the budget allows, at most one more wait for the hours.
<1>4. ASSUME NEW c \in Nat, Fits(c) PROVE Done(Next1(c))
  <2>1. CASE WindowsOK(hrs, c)
    <3>1. Done(c)
      BY <1>4, <2>1 DEF Possible
    <3> HIDE DEF Next1, Done
    <3> QED BY <1>1, <3>1
  <2>2. CASE ~WindowsOK(hrs, c)
    <3> DEFINE w == Next1(c)
    <3>1. w = Never \/ (w \in Nat /\ w >= c /\ WindowsOK(hrs, w))
      <4> HIDE DEF Next1
      <4> QED BY <1>3, <2>2
    <3> HIDE DEF w
    <3>2. w # Never => Fits(w)
      BY <1>4, <3>1, AllowedStays
    <3>3. Done(w)
      BY <3>1, <3>2 DEF Possible
    <3> QED BY <3>3 DEF w
  <2> QED BY <2>1, <2>2
<1> HIDE DEF Next1
<1>5. ASSUME NEW c \in Nat, WindowsOK(hrs, c) PROVE Done(Next1(Next1(c)))
  <2>1. CASE Ok(c)
    <3>1. Next1(Next1(c)) = c /\ Done(c)
      <4>1. Done(c)
        BY <2>1
      <4> HIDE DEF Done
      <4> QED BY <1>1, <4>1
    <3> HIDE DEF Done
    <3> QED BY <3>1
  <2>2. CASE ~Ok(c)
    <3> HIDE DEF Done, Fits, Ok
    <3> QED BY <1>2, <1>4, <1>5, <2>2
  <2> QED BY <2>1, <2>2
<1>6. Done(Next1(Next1(Next1(from))))
  <2>1. CASE WindowsOK(hrs, from)
    <3>1. Done(Next1(Next1(from)))
      <4> HIDE DEF Done
      <4> QED BY <1>5, <2>1
    <3> HIDE DEF Done
    <3> QED BY <1>1, <3>1
  <2>2. CASE ~WindowsOK(hrs, from)
    <3>1. CASE Next1(from) = Never
      <4>1. Done(Next1(from))
        BY <3>1
      <4> HIDE DEF Done
      <4> QED BY <1>1, <4>1
    <3>2. CASE Next1(from) # Never
      <4> HIDE DEF Done
      <4> QED BY <1>3, <1>5, <2>2, <3>2
    <3> QED BY <3>1, <3>2
  <2> QED BY <2>1, <2>2
<1> QED BY <1>6, Zenon DEF Next1

----------------------------------------------------------------------------
(* Estimate, a simulation of sends.                                         *)

\* Estimate's simulation: its start, and send number k from state s, where m attempts were made before.
SimStart(ids, f, t) == [ids |-> ids, at |-> f, last |-> LastSend(ids, f), time |-> t]

Trimmed(T, ids, f, t) ==
  IF \A tier \in T : tier.window = 0 THEN ids ELSE UNION {InWindow(ids, f, tier.window, t) : tier \in T}

SimSend(T, d, hrs, m, s, k) ==
  LET t == IF s.time = Never THEN Never ELSE NextAllowedSlot(T, s.ids, s.at, d, s.last, hrs, s.time)
  IN  IF t = Never THEN [s EXCEPT !.time = Never]
      ELSE [ids |-> Trimmed(T, s.ids, s.at, t) \cup {m + k}, at |-> Stamp(s.at, m + k, t), last |-> t, time |-> t]

\* g is the simulation of r sends.
IsSim(ids, f, T, d, hrs, t, r, g) ==
  g = [k \in 0..r |-> IF k = 0 THEN SimStart(ids, f, t)
                      ELSE SimSend(T, d, hrs, Cardinality(DOMAIN f), g[k - 1], k)]

\* An attempt no earlier than the others is the last send.
LEMMA LastSendOfStamp ==
  ASSUME NEW ids, NEW f, ids \subseteq DOMAIN f, NEW m, m \notin ids, NEW t \in Nat,
         \A i \in ids : f[i] \in Nat, \A i \in ids : f[i] <= t
  PROVE  LastSend(ids \cup {m}, Stamp(f, m, t)) = t
<1> DEFINE F == Stamp(f, m, t)
           I == ids \cup {m}
<1>1. F[m] = t /\ \A i \in I : F[i] \in Nat /\ F[i] <= t
  BY DEF Stamp
<1>2. I # {} /\ m \in I
  OBVIOUS
<1> HIDE DEF F, I
<1>3. LastSend(I, F) \in Nat /\ t <= LastSend(I, F)
  BY <1>1, <1>2, LastSendIsNewest
<1>4. LastSend(I, F) <= t
  BY <1>1, <1>3, LastSendBounded DEF NoSend
<1>5. LastSend(I, F) = t
  BY <1>3, <1>4
<1> QED BY <1>5 DEF I, F

\* Attempts that came no later leave no less headroom.
LEMMA EarlierAllows ==
  ASSUME NEW T, \A x \in T : x.window \in Nat /\ x.max \in Nat, NEW I, IsFiniteSet(I), NEW F, NEW G,
         \A i \in I : F[i] \in Nat /\ G[i] \in Nat /\ F[i] <= G[i], NEW b \in Nat, \A i \in I : G[i] <= b,
         NEW d \in Nat, NEW v \in Nat, Allowed(T, I, G, d, LastSend(I, G), v)
  PROVE  Allowed(T, I, F, d, LastSend(I, F), v)
<1>1. ASSUME NEW tier \in T PROVE ~AtCapacity(tier, I, F, v)
  <2> DEFINE A == InWindow(I, F, tier.window, v)
             B == InWindow(I, G, tier.window, v)
  <2>1. tier.window \in Nat /\ tier.max \in Nat /\ ~AtCapacity(tier, I, G, v)
    BY DEF Allowed
  <2>2. A \in SUBSET B /\ B \in SUBSET I
    BY <2>1 DEF InWindow
  <2>3. Cardinality(A) <= Cardinality(B) /\ Cardinality(A) \in Nat /\ Cardinality(B) \in Nat
    <3> HIDE DEF A, B
    <3>1. IsFiniteSet(B)
      BY <2>2, FS_Subset
    <3> QED BY <2>2, <3>1, FS_Subset, FS_CardinalityType
  <2>4. ~(tier.max > 0 /\ Cardinality(B) >= tier.max)
    BY <2>1 DEF AtCapacity
  <2>5. ~(tier.max > 0 /\ Cardinality(A) >= tier.max)
    <3> HIDE DEF A, B
    <3> QED BY <2>1, <2>3, <2>4
  <2> QED BY <2>5 DEF AtCapacity
<1>2. IntervalOK(LastSend(I, F), d, v)
  <2>1. CASE I = {}
    BY <2>1, LastSendOfNone DEF IntervalOK
  <2>2. CASE I # {}
    <3>1. (\A i \in I : G[i] \in Nat) /\ (\A i \in I : F[i] \in Nat)
      OBVIOUS
    <3>2. LastSend(I, G) \in Nat /\ \A i \in I : G[i] <= LastSend(I, G)
      BY <2>2, <3>1, LastSendIsNewest
    <3>3. \A i \in I : F[i] <= LastSend(I, G)
      BY <3>2
    <3>4. LastSend(I, F) = NoSend \/ (LastSend(I, F) \in Nat /\ LastSend(I, F) <= LastSend(I, G))
      BY <3>1, <3>2, <3>3, LastSendBounded
    <3>5. IntervalOK(LastSend(I, G), d, v)
      BY DEF Allowed
    <3> QED BY <3>2, <3>4, <3>5 DEF IntervalOK, NoSend
  <2> QED BY <2>1, <2>2
<1> QED BY <1>1, <1>2 DEF Allowed

\* The simulation's state s stands for the attempts I at times F: what it let go no tier counts
\* any more.
StandsFor(T, s, I, F) ==
  /\ IsFiniteSet(I) /\ I \subseteq DOMAIN F /\ s.time \in Nat
  /\ \A i \in I : F[i] \in Nat
  /\ \A i \in I : F[i] <= s.time
  /\ s = [ids |-> s.ids, at |-> F, last |-> LastSend(I, F), time |-> s.time] /\ s.ids \subseteq I
  /\ \A i \in I \ s.ids, tier \in T : F[i] <= s.time - tier.window

\* Hence the budget allows the same from then on.
LEMMA StandsForAllows ==
  ASSUME NEW T, \A x \in T : x.window \in Nat, NEW s, NEW I, NEW F, StandsFor(T, s, I, F),
         NEW d, NEW last, NEW v \in Nat, v >= s.time
  PROVE  Allowed(T, s.ids, F, d, last, v) <=> Allowed(T, I, F, d, last, v)
<1>1. ASSUME NEW tier \in T PROVE InWindow(s.ids, F, tier.window, v) = InWindow(I, F, tier.window, v)
  <2>1. ASSUME NEW i \in I, F[i] > v - tier.window PROVE i \in s.ids
    BY <2>1 DEF StandsFor
  <2>2. s.ids \subseteq I
    BY DEF StandsFor
  <2> QED BY <2>1, <2>2 DEF InWindow
<1>2. ASSUME NEW tier \in T PROVE AtCapacity(tier, s.ids, F, v) <=> AtCapacity(tier, I, F, v)
  BY <1>1 DEF AtCapacity
<1> QED BY <1>2 DEF Allowed

\* The next simulated send is at the first moment possible after the attempts the state stands
\* for, and the new state stands for these and it.
LEMMA SimSendIsFirst ==
  ASSUME NEW T, NEW R \in Nat, \A x \in T : x.window \in Nat /\ x.max \in Nat /\ x.window <= R,
         NEW d \in Nat, NEW hrs, NEW s, NEW I, NEW F, StandsFor(T, s, I, F),
         NEW m, NEW k, m + k \notin I
  PROVE  LET next == SimSend(T, d, hrs, m, s, k)
         IN  /\ FirstPossible(T, I, F, d, LastSend(I, F), hrs, s.time, next.time)
             /\ next.time # Never => StandsFor(T, next, I \cup {m + k}, Stamp(F, m + k, next.time))
<1> DEFINE next == SimSend(T, d, hrs, m, s, k)
           last == LastSend(I, F)
           t == NextAllowedSlot(T, s.ids, F, d, last, hrs, s.time)
           K == Trimmed(T, s.ids, F, t)
           e == m + k
           G == Stamp(F, e, t)
<1>1. /\ IsFiniteSet(I) /\ s.ids \subseteq I /\ I \subseteq DOMAIN F /\ s.time \in Nat /\ s.time # Never
      /\ (\A i \in I : F[i] \in Nat) /\ (\A i \in I : F[i] <= s.time)
      /\ s = [ids |-> s.ids, at |-> F, last |-> last, time |-> s.time]
  BY DEF StandsFor, Never
<1>2. next = IF t = Never THEN [s EXCEPT !.time = Never]
             ELSE [ids |-> K \cup {e}, at |-> G, last |-> t, time |-> t]
  <2>1. s.at = F /\ s.last = last
    <3> HIDE DEF last
    <3> QED BY <1>1
  <2> HIDE DEF last
  <2> QED BY <1>1, <2>1 DEF SimSend
<1>3. next.time = t
  <2>1. [s EXCEPT !.time = Never].time = Never
    <3> HIDE DEF last
    <3> QED BY <1>1
  <2> HIDE DEF t, K, G, next
  <2> QED BY <1>2, <2>1
<1>4. last = NoSend \/ (last \in Nat /\ last <= s.time)
  BY <1>1, LastSendBounded
<1>5. Budgeted(T, s.ids, F, d, last, s.time, R)
  <2>1. s.ids \in SUBSET I
    BY <1>1
  <2>2. IsFiniteSet(s.ids)
    BY <1>1, <2>1, FS_Subset
  <2> HIDE DEF last
  <2> QED BY <1>1, <1>4, <2>2 DEF Budgeted
<1>6. FirstPossible(T, s.ids, F, d, last, hrs, s.time, t)
  <2> HIDE DEF last
  <2> QED BY <1>1, <1>5, NextAllowedSlotIsFirst
<1>7. ASSUME NEW v \in Nat, v >= s.time
      PROVE  Possible(T, s.ids, F, d, last, hrs, v) <=> Possible(T, I, F, d, last, hrs, v)
  <2>1. Allowed(T, s.ids, F, d, last, v) <=> Allowed(T, I, F, d, last, v)
    BY <1>7, StandsForAllows
  <2> QED BY <2>1 DEF Possible
<1>8. FirstPossible(T, I, F, d, last, hrs, s.time, t)
  <2> HIDE DEF last, t
  <2> QED BY <1>1, <1>6, <1>7 DEF FirstPossible
<1>9. ASSUME t # Never PROVE StandsFor(T, next, I \cup {e}, G)
  <2>1. t \in Nat /\ t >= s.time
    <3> HIDE DEF last, t
    <3> QED BY <1>8, <1>9 DEF FirstPossible
  <2>2. next = [ids |-> K \cup {e}, at |-> G, last |-> t, time |-> t]
    <3> HIDE DEF t, K, G
    <3> QED BY <1>2, <1>9
  <2> HIDE DEF t, next
  <2>3. IsFiniteSet(I \cup {e}) /\ I \cup {e} \subseteq DOMAIN G
    <3>1. IsFiniteSet(I \cup {e})
      BY <1>1, FS_AddElement
    <3>2. DOMAIN G = DOMAIN F \cup {e}
      BY DEF Stamp
    <3> HIDE DEF G
    <3> QED BY <1>1, <3>1, <3>2
  <2>4. G[e] = t /\ \A i \in I : G[i] = F[i]
    BY <1>1 DEF Stamp
  <2>5. \A i \in I \cup {e} : G[i] \in Nat /\ G[i] <= t
    <3> HIDE DEF G
    <3> QED BY <1>1, <2>1, <2>4
  <2>6. LastSend(I \cup {e}, G) = t
    <3>1. \A i \in I : F[i] <= t
      BY <1>1, <2>1
    <3> QED BY <1>1, <2>1, <3>1, LastSendOfStamp
  <2>7. K \subseteq I
    BY <1>1 DEF Trimmed, InWindow
  <2>8. ASSUME NEW i \in (I \cup {e}) \ (K \cup {e}), NEW tier \in T PROVE G[i] <= t - tier.window
    <3>1. i \in I /\ G[i] = F[i] /\ F[i] \in Nat /\ tier.window \in Nat
      <4> HIDE DEF K, G
      <4> QED BY <1>1, <2>4
    <3>2. CASE i \in s.ids
      <4>1. ~(F[i] > t - tier.window)
        BY <3>2 DEF Trimmed, InWindow
      <4> HIDE DEF K, G
      <4> QED BY <2>1, <3>1, <4>1
    <3>3. CASE i \notin s.ids
      <4>1. F[i] <= s.time - tier.window
        BY <3>1, <3>3 DEF StandsFor
      <4> HIDE DEF K, G
      <4> QED BY <1>1, <2>1, <3>1, <4>1
    <3> QED BY <3>2, <3>3
  <2> HIDE DEF K, G
  <2>9. next.ids = K \cup {e} /\ next.time = t
      /\ next = [ids |-> next.ids, at |-> G, last |-> t, time |-> next.time]
    BY <2>2
  <2> HIDE DEF e
  <2> QED BY <2>1, <2>3, <2>5, <2>6, <2>7, <2>8, <2>9 DEF StandsFor
<1> HIDE DEF t, next, last, G
<1>10. FirstPossible(T, I, F, d, last, hrs, s.time, next.time)
       /\ (next.time # Never => StandsFor(T, next, I \cup {e}, G))
  BY <1>3, <1>8, <1>9
<1> QED BY <1>3, <1>10, Zenon DEF next, last, G

\* Induction up to k, over a set.
LEMMA UpTo ==
  ASSUME NEW k \in Nat, NEW S, 0 \in S, \A j \in 0..(k - 1) : j \in S => j + 1 \in S
  PROVE  0..k \subseteq S
<1> DEFINE wrong == {j \in 0..k : j \notin S}
<1>1. ASSUME wrong # {} PROVE FALSE
  <2>1. PICK j \in wrong : \A i \in wrong : ~(i < j)
    <3>1. wrong \subseteq Nat
      OBVIOUS
    <3> HIDE DEF wrong
    <3> QED BY <1>1, <3>1, NatHasMin
  <2>2. j # 0 /\ j \in 0..k /\ j \notin S
    OBVIOUS
  <2>3. j - 1 \in 0..(k - 1) /\ j - 1 \in 0..k /\ j - 1 < j /\ (j - 1) + 1 = j
    BY <2>2
  <2>4. j - 1 \in S
    BY <2>1, <2>3
  <2> QED BY <2>2, <2>3, <2>4
<1> QED BY <1>1

\* There is a simulation of any number of sends.
LEMMA SimExists ==
  ASSUME NEW ids, NEW f, NEW T, NEW d, NEW hrs, NEW t, NEW k \in Nat
  PROVE  \E g : IsSim(ids, f, T, d, hrs, t, k, g)
<1> DEFINE S == {r \in Nat : \E g : IsSim(ids, f, T, d, hrs, t, r, g)}
           m == Cardinality(DOMAIN f)
           s0 == SimStart(ids, f, t)
<1>1. 0 \in S
  <2> DEFINE g == [j \in 0..0 |-> s0]
  <2>1. g = [j \in 0..0 |-> IF j = 0 THEN s0 ELSE SimSend(T, d, hrs, m, g[j - 1], j)]
    <3> HIDE DEF s0
    <3> QED OBVIOUS
  <2>2. IsSim(ids, f, T, d, hrs, t, 0, g)
    BY <2>1, Zenon DEF IsSim
  <2> QED BY <2>2
<1>2. ASSUME NEW r \in Nat, r \in S PROVE r + 1 \in S
  <2>1. PICK h : IsSim(ids, f, T, d, hrs, t, r, h)
    BY <1>2
  <2> DEFINE g == [j \in 0..(r + 1) |-> IF j = r + 1 THEN SimSend(T, d, hrs, m, h[r], r + 1) ELSE h[j]]
  <2>2. ASSUME NEW j \in 0..(r + 1)
        PROVE  g[j] = IF j = 0 THEN s0 ELSE SimSend(T, d, hrs, m, g[j - 1], j)
    <3> HIDE DEF s0, m
    <3>1. CASE j = r + 1
      <4>1. j - 1 = r /\ j # 0 /\ r \in 0..(r + 1) /\ r # r + 1
        BY <3>1
      <4>2. g[j - 1] = h[r]
        BY <4>1
      <4> QED BY <3>1, <4>1, <4>2
    <3>2. CASE j # r + 1 /\ j # 0
      <4>1. j \in 0..r /\ j - 1 \in 0..r /\ j - 1 \in 0..(r + 1) /\ j - 1 # r + 1
        BY <3>2
      <4>2. g[j] = h[j] /\ g[j - 1] = h[j - 1]
        BY <4>1
      <4>3. h[j] = SimSend(T, d, hrs, m, h[j - 1], j)
        BY <2>1, <3>2, <4>1 DEF IsSim, m
      <4> HIDE DEF g
      <4> QED BY <3>2, <4>2, <4>3
    <3>3. CASE j = 0
      <4>1. 0 \in 0..r /\ 0 # r + 1
        OBVIOUS
      <4>2. h[0] = s0
        BY <2>1, <4>1 DEF IsSim, s0
      <4> QED BY <3>3, <4>1, <4>2
    <3> QED BY <3>1, <3>2, <3>3
  <2>3. g = [j \in 0..(r + 1) |-> g[j]]
    OBVIOUS
  <2>4. IsSim(ids, f, T, d, hrs, t, r + 1, g)
    <3> HIDE DEF g
    <3> QED BY <2>2, <2>3 DEF IsSim
  <2> QED BY <2>4
<1>3. 0..k \subseteq S
  <2> HIDE DEF S
  <2>1. \A j \in 0..(k - 1) : j \in S => j + 1 \in S
    BY <1>2
  <2> QED BY <1>1, <2>1, UpTo
<1> QED BY <1>3

\* Estimate is the time the simulation ends at.
LEMMA EstimateIsSim ==
  ASSUME NEW ids, NEW f, NEW T, NEW d, NEW hrs, NEW t, NEW k \in Nat
  PROVE  \E g : IsSim(ids, f, T, d, hrs, t, k, g) /\ Estimate(k, ids, f, T, d, hrs, t) = g[k].time
<1> DEFINE g == CHOOSE h : IsSim(ids, f, T, d, hrs, t, k, h)
<1>1. IsSim(ids, f, T, d, hrs, t, k, g)
  BY SimExists
<1>2. Estimate(k, ids, f, T, d, hrs, t) = g[k].time
  BY DEF Estimate, IsSim, SimStart, SimSend, Trimmed
<1> HIDE DEF g
<1> QED BY <1>1, <1>2

\* The state that stands for some attempts has them as a budget.
LEMMA StandsForBudgeted ==
  ASSUME NEW T, NEW R \in Nat, \A x \in T : x.window \in Nat /\ x.max \in Nat /\ x.window <= R,
         NEW d \in Nat, NEW s, NEW I, NEW F, StandsFor(T, s, I, F)
  PROVE  Budgeted(T, I, F, d, LastSend(I, F), s.time, R)
<1>1. LastSend(I, F) = NoSend \/ (LastSend(I, F) \in Nat /\ LastSend(I, F) <= s.time)
  BY LastSendBounded DEF StandsFor
<1> QED BY <1>1 DEF Budgeted, StandsFor

\* A forecast of one send and of two.
LEMMA EstimateUnfolds ==
  ASSUME NEW ids, NEW f, NEW T, NEW d, NEW hrs, NEW t
  PROVE  LET m  == Cardinality(DOMAIN f)
             s1 == SimSend(T, d, hrs, m, SimStart(ids, f, t), 1)
         IN  /\ Estimate(1, ids, f, T, d, hrs, t) = s1.time
             /\ Estimate(2, ids, f, T, d, hrs, t) = SimSend(T, d, hrs, m, s1, 2).time
<1> DEFINE m == Cardinality(DOMAIN f)
           s0 == SimStart(ids, f, t)
<1>1. PICK g : IsSim(ids, f, T, d, hrs, t, 1, g) /\ Estimate(1, ids, f, T, d, hrs, t) = g[1].time
  BY EstimateIsSim
<1>2. PICK h : IsSim(ids, f, T, d, hrs, t, 2, h) /\ Estimate(2, ids, f, T, d, hrs, t) = h[2].time
  BY EstimateIsSim
<1> HIDE DEF s0, m
<1>3. g[0] = s0 /\ g[1] = SimSend(T, d, hrs, m, g[0], 1)
  BY <1>1 DEF IsSim, s0, m
<1>4. h[0] = s0 /\ h[1] = SimSend(T, d, hrs, m, h[0], 1) /\ h[2] = SimSend(T, d, hrs, m, h[1], 2)
  BY <1>2 DEF IsSim, s0, m
<1> QED BY <1>1, <1>2, <1>3, <1>4, Zenon DEF s0, m

\* The attempts after j more sends, at the times u: m were made before, those in ids still count.
Made(ids, m, j) == ids \cup (m + 1)..(m + j)
TimesOf(f, m, u, j) == [i \in DOMAIN f \cup (m + 1)..(m + j) |-> IF i \in DOMAIN f THEN f[i] ELSE u[i - m]]

\* Send j of the schedule u that begins at t is possible after the ones before it.
Possibly(T, ids, f, m, d, hrs, t, u, j) ==
  LET I == Made(ids, m, j - 1)
      F == TimesOf(f, m, u, j - 1)
  IN  u[j] >= (IF j = 1 THEN t ELSE u[j - 1]) /\ Possible(T, I, F, d, LastSend(I, F), hrs, u[j])

\* What a forecast starts from: m attempts were made, the newest at t or before.
Forecasting(T, ids, f, m, d, t, R) ==
  /\ m \in Nat /\ f \in [1..m -> Nat] /\ ids \subseteq 1..m /\ t \in Nat /\ d \in Nat /\ R \in Nat
  /\ \A i \in ids : f[i] <= t
  /\ \A x \in T : x.window \in Nat /\ x.max \in Nat /\ x.window <= R

\* One more send is one more attempt.
LEMMA MadeNext ==
  ASSUME NEW T, NEW ids, NEW f, NEW m, NEW d, NEW t, NEW R, Forecasting(T, ids, f, m, d, t, R),
         NEW u, NEW j \in Nat, j > 0
  PROVE  /\ m + j \notin Made(ids, m, j - 1)
         /\ Made(ids, m, j) = Made(ids, m, j - 1) \cup {m + j}
         /\ TimesOf(f, m, u, j) = Stamp(TimesOf(f, m, u, j - 1), m + j, u[j])
<1>1. m \in Nat /\ DOMAIN f = 1..m /\ ids \subseteq 1..m
  BY DEF Forecasting
<1>2. (m + 1)..(m + j) = (m + 1)..(m + (j - 1)) \cup {m + j} /\ m + j \notin (m + 1)..(m + (j - 1))
      /\ m + j \notin 1..m /\ (m + j) - m = j
  BY <1>1
<1>3. m + j \notin Made(ids, m, j - 1) /\ Made(ids, m, j) = Made(ids, m, j - 1) \cup {m + j}
  BY <1>1, <1>2 DEF Made
<1>4. TimesOf(f, m, u, j) = Stamp(TimesOf(f, m, u, j - 1), m + j, u[j])
  BY <1>1, <1>2 DEF TimesOf, Stamp
<1> QED BY <1>3, <1>4

\* g sends each time at the first moment possible, and never again after a never; w are the times.
Following(T, ids, f, m, d, hrs, k, g, w) ==
  /\ \A j \in 0..k : g[j].time # Never => StandsFor(T, g[j], Made(ids, m, j), TimesOf(f, m, w, j))
  /\ \A j \in 1..k :
       LET I == Made(ids, m, j - 1)
           F == TimesOf(f, m, w, j - 1)
       IN  IF g[j - 1].time = Never THEN g[j].time = Never
           ELSE FirstPossible(T, I, F, d, LastSend(I, F), hrs, g[j - 1].time, g[j].time)

\* The simulation does.
LEMMA SimFollows ==
  ASSUME NEW T, NEW ids, NEW f, NEW m, NEW d, NEW t, NEW R, Forecasting(T, ids, f, m, d, t, R),
         NEW hrs, NEW k \in Nat, NEW g, IsSim(ids, f, T, d, hrs, t, k, g)
  PROVE  Following(T, ids, f, m, d, hrs, k, g, [j \in 1..k |-> g[j].time])
<1> DEFINE w == [j \in 1..k |-> g[j].time]
           I(j) == Made(ids, m, j)
           F(j) == TimesOf(f, m, w, j)
           Stands(j) == "time" \in DOMAIN g[j] /\ (g[j].time # Never => StandsFor(T, g[j], I(j), F(j)))
           Follows(j) == IF g[j - 1].time = Never THEN g[j].time = Never
                         ELSE FirstPossible(T, I(j - 1), F(j - 1), d, LastSend(I(j - 1), F(j - 1)), hrs,
                                            g[j - 1].time, g[j].time)
           S == {j \in 0..k : Stands(j)}
<1>1. /\ m \in Nat /\ f \in [1..m -> Nat] /\ DOMAIN f = 1..m /\ ids \subseteq 1..m
      /\ t \in Nat /\ d \in Nat /\ R \in Nat
      /\ (\A i \in ids : f[i] \in Nat) /\ (\A i \in ids : f[i] <= t)
      /\ \A x \in T : x.window \in Nat /\ x.max \in Nat /\ x.window <= R
  BY DEF Forecasting
<1>2. m = Cardinality(DOMAIN f) /\ IsFiniteSet(1..m)
  BY <1>1, FS_Interval
<1>3. g[0] = SimStart(ids, f, t) /\ \A j \in 1..k : g[j] = SimSend(T, d, hrs, m, g[j - 1], j)
  BY <1>2 DEF IsSim
<1>4. Stands(0)
  <2>1. I(0) = ids /\ F(0) = f
    <3>1. (m + 1)..(m + 0) = {}
      BY <1>1
    <3>2. F(0) = [i \in DOMAIN f |-> f[i]]
      BY <3>1 DEF TimesOf
    <3>3. f = [i \in DOMAIN f |-> f[i]]
      BY <1>1
    <3>4. I(0) = ids
      BY <3>1 DEF Made
    <3> QED BY <3>2, <3>3, <3>4, Zenon
  <2>2. SimStart(ids, f, t) = [ids |-> ids, at |-> f, last |-> LastSend(ids, f), time |-> t]
    BY DEF SimStart
  <2>3. IsFiniteSet(ids)
    <3>1. ids \in SUBSET (1..m)
      BY <1>1
    <3> QED BY <1>2, <3>1, FS_Subset
  <2>4. StandsFor(T, SimStart(ids, f, t), ids, f)
    BY <1>1, <2>2, <2>3 DEF StandsFor
  <2>5. "time" \in DOMAIN g[0]
    BY <1>3, <2>2
  <2> HIDE DEF I, F
  <2> QED BY <1>3, <2>1, <2>4, <2>5, Zenon
<1>5. ASSUME NEW j \in 1..k, Stands(j - 1) PROVE Stands(j) /\ Follows(j)
  <2> DEFINE J == I(j - 1)
             G == F(j - 1)
  <2>1. j \in Nat /\ j > 0 /\ g[j] = SimSend(T, d, hrs, m, g[j - 1], j)
    BY <1>3
  <2>2. CASE g[j - 1].time = Never
    <3>1. g[j] = [g[j - 1] EXCEPT !.time = Never]
      BY <2>1, <2>2 DEF SimSend
    <3>2. "time" \in DOMAIN g[j - 1]
      BY <1>5, Zenon
    <3>3. "time" \in DOMAIN g[j] /\ g[j].time = Never
      BY <3>1, <3>2
    <3> HIDE DEF I, F
    <3> QED BY <2>2, <3>3, Zenon
  <2>3. CASE g[j - 1].time # Never
    <3>1. StandsFor(T, g[j - 1], J, G)
      BY <1>5, <2>3, Zenon
    <3>2. m + j \notin J /\ I(j) = J \cup {m + j} /\ F(j) = Stamp(G, m + j, w[j])
      <4>1. \A u : m + j \notin J /\ I(j) = J \cup {m + j}
                  /\ TimesOf(f, m, u, j) = Stamp(TimesOf(f, m, u, j - 1), m + j, u[j])
        BY <2>1, MadeNext
      <4> QED BY <4>1, Zenon
    <3> HIDE DEF I, F, J, G
    <3>3. /\ FirstPossible(T, J, G, d, LastSend(J, G), hrs, g[j - 1].time, g[j].time)
          /\ g[j].time # Never => StandsFor(T, g[j], J \cup {m + j}, Stamp(G, m + j, g[j].time))
      <4>1. m + j \notin J
        BY <3>2
      <4>2. \A s : StandsFor(T, s, J, G) =>
              /\ FirstPossible(T, J, G, d, LastSend(J, G), hrs, s.time, SimSend(T, d, hrs, m, s, j).time)
              /\ SimSend(T, d, hrs, m, s, j).time # Never
                   => StandsFor(T, SimSend(T, d, hrs, m, s, j), J \cup {m + j},
                                Stamp(G, m + j, SimSend(T, d, hrs, m, s, j).time))
        BY <1>1, <4>1, SimSendIsFirst
      <4> QED BY <2>1, <3>1, <4>2, Zenon
    <3>4. w[j] = g[j].time
      OBVIOUS
    <3>5. "time" \in DOMAIN g[j]
      <4>1. DOMAIN g[j - 1] = {"ids", "at", "last", "time"}
        BY <3>1 DEF StandsFor
      <4> QED BY <2>1, <4>1 DEF SimSend
    <3> QED BY <2>3, <3>2, <3>3, <3>4, <3>5, Zenon DEF J, G
  <2> QED BY <2>2, <2>3
<1>6. 0..k \subseteq S
  <2>1. 0 \in S
    <3>1. 0 \in 0..k
      OBVIOUS
    <3> QED BY <1>4, <3>1, Zenon
  <2>2. \A j \in 0..(k - 1) : j \in S => j + 1 \in S
    <3> TAKE j \in 0..(k - 1)
    <3> SUFFICES ASSUME Stands(j) PROVE j + 1 \in 0..k /\ Stands(j + 1)
      BY Zenon
    <3>1. j + 1 \in 1..k /\ j + 1 \in 0..k /\ (j + 1) - 1 = j
      OBVIOUS
    <3> HIDE DEF Stands, Follows
    <3> QED BY <1>5, <3>1
  <2> HIDE DEF S
  <2> QED BY <2>1, <2>2, UpTo
<1>7. ASSUME NEW j \in 1..k PROVE Follows(j)
  <2>1. j - 1 \in 0..k
    OBVIOUS
  <2> HIDE DEF Stands, Follows
  <2> QED BY <1>5, <1>6, <2>1
<1>8. ASSUME NEW j \in 0..k PROVE Stands(j)
  <2> HIDE DEF Stands
  <2> QED BY <1>6
<1>9. Following(T, ids, f, m, d, hrs, k, g, w)
  <2> HIDE DEF w
  <2> QED BY <1>7, <1>8, Zenon DEF Following
<1> QED BY <1>9

\* A schedule of k sends that can be kept.
Plans(T, ids, f, m, d, hrs, t, k) ==
  {u \in [1..k -> Nat] : \A j \in 1..k : Possibly(T, ids, f, m, d, hrs, t, u, j)}

\* A forecast that is not never is the end of a schedule that can be kept.
LEMMA ForecastIsKept ==
  ASSUME NEW T, NEW ids, NEW f, NEW m, NEW d, NEW t, NEW R, Forecasting(T, ids, f, m, d, t, R),
         NEW hrs, NEW k \in Nat, k > 0, Estimate(k, ids, f, T, d, hrs, t) # Never
  PROVE  \E u \in Plans(T, ids, f, m, d, hrs, t, k) : u[k] = Estimate(k, ids, f, T, d, hrs, t)
<1>1. PICK g : IsSim(ids, f, T, d, hrs, t, k, g) /\ Estimate(k, ids, f, T, d, hrs, t) = g[k].time
  BY EstimateIsSim
<1> DEFINE w == [j \in 1..k |-> g[j].time]
           I(j) == Made(ids, m, j)
           F(j) == TimesOf(f, m, w, j)
           S == {j \in 0..k : g[k - j].time # Never}
<1>2. /\ \A j \in 0..k : g[j].time # Never => StandsFor(T, g[j], I(j), F(j))
      /\ \A j \in 1..k : IF g[j - 1].time = Never THEN g[j].time = Never
                         ELSE FirstPossible(T, I(j - 1), F(j - 1), d, LastSend(I(j - 1), F(j - 1)), hrs,
                                            g[j - 1].time, g[j].time)
  <2>1. Following(T, ids, f, m, d, hrs, k, g, w)
    BY <1>1, SimFollows
  <2> HIDE DEF w
  <2> QED BY <2>1, Zenon DEF Following
<1> HIDE DEF I, F
<1>3. \A j \in 0..k : g[j].time # Never
  <2>1. 0 \in S
    BY <1>1
  <2>2. ASSUME NEW j \in 0..(k - 1), g[k - j].time # Never PROVE g[k - (j + 1)].time # Never
    <3>1. k - j \in 1..k /\ (k - j) - 1 = k - (j + 1)
      OBVIOUS
    <3> QED BY <1>2, <2>2, <3>1
  <2>3. \A j \in 0..(k - 1) : j \in S => j + 1 \in S
    BY <2>2
  <2>4. 0..k \subseteq S
    <3> HIDE DEF S
    <3> QED BY <2>1, <2>3, UpTo
  <2>5. \A j \in 0..k : k - j \in S /\ k - (k - j) = j
    BY <2>4
  <2> QED BY <2>5
<1>4. g[0].time = t
  BY <1>1 DEF IsSim, SimStart
<1>5. ASSUME NEW j \in 1..k PROVE w[j] \in Nat /\ Possibly(T, ids, f, m, d, hrs, t, w, j)
  <2>1. j - 1 \in 0..k /\ j \in 0..k
    OBVIOUS
  <2>2. FirstPossible(T, I(j - 1), F(j - 1), d, LastSend(I(j - 1), F(j - 1)), hrs, g[j - 1].time, g[j].time)
        /\ g[j].time # Never
    BY <1>2, <1>3, <2>1
  <2>3. g[j].time \in Nat /\ g[j].time >= g[j - 1].time
        /\ Possible(T, I(j - 1), F(j - 1), d, LastSend(I(j - 1), F(j - 1)), hrs, g[j].time)
    BY <2>2 DEF FirstPossible
  <2>4. w[j] = g[j].time /\ (IF j = 1 THEN t ELSE w[j - 1]) = g[j - 1].time
    <3>1. j # 1 => j - 1 \in 1..k
      OBVIOUS
    <3> QED BY <1>4, <3>1
  <2> HIDE DEF w
  <2> QED BY <2>3, <2>4 DEF Possibly, I, F
<1>6. w \in Plans(T, ids, f, m, d, hrs, t, k)
  <2>1. w \in [1..k -> Nat]
    BY <1>5
  <2> HIDE DEF w
  <2> QED BY <1>5, <2>1 DEF Plans
<1>7. w[k] = Estimate(k, ids, f, T, d, hrs, t)
  BY <1>1
<1> QED BY <1>6, <1>7, Zenon

\* No schedule that can be kept ends before it: by induction each simulated send is no later than
\* the schedule's.
LEMMA ForecastIsSoonest ==
  ASSUME NEW T, NEW ids, NEW f, NEW m, NEW d, NEW t, NEW R, Forecasting(T, ids, f, m, d, t, R),
         NEW hrs, NEW k \in Nat, k > 0, NEW u \in Plans(T, ids, f, m, d, hrs, t, k)
  PROVE  Estimate(k, ids, f, T, d, hrs, t) # Never /\ Estimate(k, ids, f, T, d, hrs, t) <= u[k]
<1>1. PICK g : IsSim(ids, f, T, d, hrs, t, k, g) /\ Estimate(k, ids, f, T, d, hrs, t) = g[k].time
  BY EstimateIsSim
<1> DEFINE w == [j \in 1..k |-> g[j].time]
           I(j) == Made(ids, m, j)
           F(j) == TimesOf(f, m, w, j)
           G(j) == TimesOf(f, m, u, j)
           end(j) == IF j = 0 THEN t ELSE u[j]
           Sooner(j) == g[j].time # Never /\ g[j].time <= end(j)
                        /\ (\A i \in 1..j : w[i] \in Nat /\ w[i] <= u[i] /\ u[i] <= end(j)) /\ t <= end(j)
           S == {j \in 0..k : Sooner(j)}
<1>2. /\ \A j \in 0..k : g[j].time # Never => StandsFor(T, g[j], I(j), F(j))
      /\ \A j \in 1..k : IF g[j - 1].time = Never THEN g[j].time = Never
                         ELSE FirstPossible(T, I(j - 1), F(j - 1), d, LastSend(I(j - 1), F(j - 1)), hrs,
                                            g[j - 1].time, g[j].time)
  <2>1. Following(T, ids, f, m, d, hrs, k, g, w)
    BY <1>1, SimFollows
  <2> HIDE DEF w
  <2> QED BY <2>1, Zenon DEF Following
<1>3. g[0].time = t
  BY <1>1 DEF IsSim, SimStart
<1>4. /\ m \in Nat /\ f \in [1..m -> Nat] /\ ids \subseteq 1..m /\ t \in Nat /\ d \in Nat
      /\ (\A i \in ids : f[i] <= t) /\ \A x \in T : x.window \in Nat /\ x.max \in Nat
  BY DEF Forecasting
<1>5. u \in [1..k -> Nat] /\ \A j \in 1..k : Possibly(T, ids, f, m, d, hrs, t, u, j)
  BY DEF Plans
<1>6. Sooner(0)
  BY <1>3, <1>4 DEF Never
<1>7. ASSUME NEW j \in 0..(k - 1), Sooner(j) PROVE Sooner(j + 1)
  <2> DEFINE v == u[j + 1]
  <2>1. j \in 0..k /\ j + 1 \in 1..k /\ (j + 1) - 1 = j /\ j \in Nat
    OBVIOUS
  <2>2. v \in Nat /\ v >= end(j) /\ Possible(T, I(j), G(j), d, LastSend(I(j), G(j)), hrs, v)
    <3>1. Possibly(T, ids, f, m, d, hrs, t, u, j + 1) /\ v \in Nat
      BY <1>5, <2>1
    <3>2. (IF j + 1 = 1 THEN t ELSE u[(j + 1) - 1]) = end(j)
      BY <2>1
    <3> HIDE DEF v, end
    <3> QED BY <2>1, <3>1, <3>2 DEF Possibly, v
  <2>3. StandsFor(T, g[j], I(j), F(j)) /\ g[j].time \in Nat
        /\ FirstPossible(T, I(j), F(j), d, LastSend(I(j), F(j)), hrs, g[j].time, g[j + 1].time)
    <3> HIDE DEF I, F, w
    <3> QED BY <1>2, <1>7, <2>1 DEF StandsFor
  <2>4. end(j) \in Nat
    BY <1>4, <1>5, <2>1
  <2>5. \A i \in I(j) : F(j)[i] \in Nat /\ G(j)[i] \in Nat /\ F(j)[i] <= G(j)[i] /\ G(j)[i] <= end(j)
    <3> TAKE i \in I(j)
    <3>1. CASE i \in ids
      <4>1. F(j)[i] = f[i] /\ G(j)[i] = f[i] /\ f[i] \in Nat /\ f[i] <= t
        BY <1>4, <3>1 DEF TimesOf
      <4> HIDE DEF F, G, end
      <4> QED BY <1>4, <1>7, <2>4, <4>1
    <3>2. CASE i \notin ids
      <4>1. i \in (m + 1)..(m + j) /\ i \notin 1..m /\ i - m \in 1..j
        BY <1>4, <2>1, <3>2 DEF Made
      <4>2. F(j)[i] = w[i - m] /\ G(j)[i] = u[i - m]
        BY <1>4, <4>1 DEF TimesOf
      <4>3. w[i - m] \in Nat /\ w[i - m] <= u[i - m] /\ u[i - m] <= end(j) /\ u[i - m] \in Nat
        <5>1. i - m \in 1..k
          BY <4>1
        <5> HIDE DEF w, end
        <5> QED BY <1>5, <1>7, <4>1, <5>1
      <4> HIDE DEF F, G, w, end
      <4> QED BY <4>2, <4>3
    <3> QED BY <3>1, <3>2
  <2> HIDE DEF I, F, G
  <2>6. Possible(T, I(j), F(j), d, LastSend(I(j), F(j)), hrs, v)
    <3>1. IsFiniteSet(I(j))
      BY <2>3 DEF StandsFor
    <3>2. Allowed(T, I(j), G(j), d, LastSend(I(j), G(j)), v)
      BY <2>2 DEF Possible
    <3>3. Allowed(T, I(j), F(j), d, LastSend(I(j), F(j)), v)
      <4> DEFINE J == I(j)
                 A == F(j)
                 B == G(j)
                 b == end(j)
      <4>1. \A i \in J : A[i] \in Nat /\ B[i] \in Nat /\ A[i] <= B[i]
        BY <2>5
      <4>2. \A i \in J : B[i] <= b
        BY <2>5
      <4>3. b \in Nat
        BY <2>4
      <4> HIDE DEF J, A, B, b, end, w, v
      <4>4. IsFiniteSet(J) /\ Allowed(T, J, B, d, LastSend(J, B), v) /\ v \in Nat
        BY <2>2, <3>1, <3>2 DEF J, B
      <4>5. Allowed(T, J, A, d, LastSend(J, A), v)
        BY <1>4, <4>1, <4>2, <4>3, <4>4, EarlierAllows
      <4> QED BY <4>5 DEF J, A
    <3> QED BY <2>2, <3>3 DEF Possible
  <2>7. g[j + 1].time \in Nat /\ g[j + 1].time <= v
    <3> DEFINE x == g[j].time
               y == g[j + 1].time
    <3>1. x <= v /\ x \in Nat
      <4> HIDE DEF end, v
      <4> QED BY <1>7, <2>2, <2>3, <2>4
    <3>2. FirstPossible(T, I(j), F(j), d, LastSend(I(j), F(j)), hrs, x, y)
      BY <2>3
    <3> HIDE DEF x, y, v
    <3>3. y # Never
      BY <2>2, <2>6, <3>1, <3>2 DEF FirstPossible
    <3>4. y \in Nat /\ ~(v < y)
      BY <2>2, <2>6, <3>1, <3>2, <3>3 DEF FirstPossible
    <3> QED BY <2>2, <3>4 DEF y
  <2>8. end(j + 1) = v /\ w[j + 1] = g[j + 1].time
    BY <2>1
  <2>9. ASSUME NEW i \in 1..(j + 1) PROVE w[i] \in Nat /\ w[i] <= u[i] /\ u[i] <= v
    <3>1. CASE i = j + 1
      <4> HIDE DEF w
      <4> QED BY <2>2, <2>7, <2>8, <3>1
    <3>2. CASE i \in 1..j
      <4>1. u[i] \in Nat
        BY <1>5, <2>1, <3>2
      <4> HIDE DEF w, v, end
      <4> QED BY <1>7, <2>2, <2>4, <3>2, <4>1
    <3>3. i = j + 1 \/ i \in 1..j
      BY <2>1
    <3> QED BY <3>1, <3>2, <3>3
  <2>10. t <= v
    <3> HIDE DEF v, end
    <3> QED BY <1>4, <1>7, <2>2, <2>4
  <2>11. g[j + 1].time # Never
    BY <2>7 DEF Never
  <2> HIDE DEF w, v, end
  <2> QED BY <2>7, <2>8, <2>9, <2>10, <2>11
<1>8. Sooner(k)
  <2>1. 0 \in S /\ \A j \in 0..(k - 1) : j \in S => j + 1 \in S
    <3>1. 0 \in 0..k /\ \A j \in 0..(k - 1) : j + 1 \in 0..k
      OBVIOUS
    <3> HIDE DEF Sooner
    <3> QED BY <1>6, <1>7, <3>1
  <2>2. 0..k \subseteq S
    <3> HIDE DEF S
    <3> QED BY <2>1, UpTo
  <2>3. k \in 0..k
    OBVIOUS
  <2> HIDE DEF Sooner
  <2> QED BY <2>2, <2>3
<1>9. end(k) = u[k]
  OBVIOUS
<1> HIDE DEF end
<1> QED BY <1>1, <1>8, <1>9

\* What SendingBudget forecasts from: the attempts its query fetches, none of them in the future.
LEMMA BudgetForecasts ==
  ASSUME TypeOK, LedgerIsComplete
  PROVE  LET seen == Recent(tiers, [pace EXCEPT !.jitter = 0])
         IN  /\ Forecasting(tiers, seen, at, n, pace.min, now, Retention)
             /\ at = [i \in Ids |-> at[i]] /\ Cardinality(DOMAIN at) = n
<1> DEFINE seen == Recent(tiers, [pace EXCEPT !.jitter = 0])
<1>1. now \in Nat /\ Retention \in Nat /\ n \in Nat /\ pace.min \in Nat
      /\ \A x \in tiers : x.window \in Nat /\ x.max \in Nat /\ x.window <= Retention
  BY BudgetAssumption DEF TypeOK
<1>2. at \in [1..n -> Nat] /\ Cardinality(1..n) = n /\ \A i \in 1..n : at[i] <= now
  <2>1. at \in [1..n -> Nat]
    BY DEF TypeOK, Ids
  <2>2. Cardinality(1..n) = n
    <3>1. Cardinality(1..n) = IF 1 > n THEN 0 ELSE n - 1 + 1
      BY <1>1, FS_Interval
    <3> QED BY <1>1, <3>1
  <2>3. \A i \in 1..n : at[i] <= now
    BY DEF LedgerIsComplete, Ids
  <2> QED BY <2>1, <2>2, <2>3
<1>3. seen \subseteq 1..n
  BY DEF Recent, TypeOK, Ids
<1> HIDE DEF seen
<1>4. \A i \in seen : at[i] <= now
  BY <1>2, <1>3
<1>5. Forecasting(tiers, seen, at, n, pace.min, now, Retention)
  BY <1>1, <1>2, <1>3, <1>4 DEF Forecasting
<1>6. at = [i \in Ids |-> at[i]] /\ Cardinality(DOMAIN at) = n
  BY <1>2 DEF Ids
<1> QED BY <1>5, <1>6 DEF seen

\* The simulation starts from them.
LEMMA StartStandsFor ==
  ASSUME NEW T, NEW ids, NEW f, NEW m, NEW d, NEW t, NEW R, Forecasting(T, ids, f, m, d, t, R)
  PROVE  StandsFor(T, SimStart(ids, f, t), ids, f)
<1>1. IsFiniteSet(ids)
  <2>1. ids \in SUBSET (1..m) /\ IsFiniteSet(1..m)
    BY FS_Interval DEF Forecasting
  <2> QED BY <2>1, FS_Subset
<1>2. SimStart(ids, f, t) = [ids |-> ids, at |-> f, last |-> LastSend(ids, f), time |-> t]
  BY DEF SimStart
<1> QED BY <1>1, <1>2 DEF StandsFor, Forecasting

\* The forecast of one and of two sends is true, and nothing ends sooner, for every ledger, every
\* set of tiers, every pace and all hours.
THEOREM EstimateEarliest == Spec => []EstimateIsEarliest
<1>1. TypeOK /\ LedgerIsComplete => EstimateIsEarliest
  <2> SUFFICES ASSUME TypeOK, LedgerIsComplete PROVE EstimateIsEarliest
    OBVIOUS
  <2> DEFINE seen == Recent(tiers, [pace EXCEPT !.jitter = 0])
             d == pace.min
             first == NextSend(1)
             second == NextSend(2)
             s0 == SimStart(seen, at, now)
             s1 == SimSend(tiers, d, hours, n, s0, 1)
             s2 == SimSend(tiers, d, hours, n, s1, 2)
             I == seen \cup {n + 1}
             at1 == Stamp(at, n + 1, first)
             Open(t) == OpenAt(hours.account, t) /\ OpenAt(hours.campaign, t)
             Ok(ids, times, t) == Open(t) /\ Allowed(tiers, ids, times, d, LastSend(ids, times), t)
             Can(ids, times, t) == Possible(tiers, ids, times, d, LastSend(ids, times), hours, t)
             First(ids, times, t, u) == FirstPossible(tiers, ids, times, d, LastSend(ids, times), hours, t, u)
  <2>1. Forecasting(tiers, seen, at, n, d, now, Retention) /\ at = [i \in Ids |-> at[i]] /\ Cardinality(DOMAIN at) = n
    BY BudgetForecasts, Zenon
  <2> HIDE DEF seen, d
  <2>2. /\ now \in Nat /\ Retention \in Nat /\ n \in Nat /\ d \in Nat /\ hours \in HoursSets
        /\ \A x \in tiers : x.window \in Nat /\ x.max \in Nat /\ x.window <= Retention
    BY <2>1 DEF Forecasting, TypeOK
  <2>3. \A t \in Nat : WindowsOK(hours, t) <=> Open(t)
    BY <2>2, OpenIsWindowsOK
  <2>4. first = s1.time /\ second = s2.time
    <3>1. /\ first = Estimate(1, seen, at, tiers, d, hours, now)
          /\ second = Estimate(2, seen, at, tiers, d, hours, now)
      BY <2>1 DEF NextSend, seen, d
    <3> HIDE DEF first, second
    <3> QED BY <2>1, <3>1, EstimateUnfolds
  <2>5. StandsFor(tiers, s0, seen, at) /\ s0.time = now /\ n + 1 \notin seen /\ n + 2 \notin I
    <3>1. StandsFor(tiers, s0, seen, at)
      BY <2>1, StartStandsFor
    <3>2. s0.time = now
      BY DEF SimStart
    <3>3. seen \subseteq 1..n
      BY <2>1 DEF Forecasting
    <3> QED BY <2>2, <3>1, <3>2, <3>3
  <2>6. First(seen, at, now, first) /\ (first # Never => StandsFor(tiers, s1, I, at1))
    <3> HIDE DEF s0, first
    <3>1. /\ FirstPossible(tiers, seen, at, d, LastSend(seen, at), hours, s0.time, s1.time)
          /\ s1.time # Never => StandsFor(tiers, s1, seen \cup {n + 1}, Stamp(at, n + 1, s1.time))
      BY <2>2, <2>5, SimSendIsFirst
    <3> HIDE DEF s1
    <3> QED BY <2>4, <2>5, <3>1
  <2>7. CASE first = Never
    <3>1. second = Never
      <4>1. s0 = [ids |-> seen, at |-> at, last |-> LastSend(seen, at), time |-> now]
        BY DEF SimStart
      <4>2. "time" \in DOMAIN s1
        <5> HIDE DEF s0
        <5> QED BY <4>1 DEF SimSend
      <4>3. s2 = [s1 EXCEPT !.time = Never]
        <5> HIDE DEF s1, first
        <5> QED BY <2>4, <2>7 DEF SimSend
      <4>4. s2.time = Never
        <5> HIDE DEF s1, s2
        <5> QED BY <4>2, <4>3
      <4> QED BY <2>4, <4>4
    <3>2. ASSUME NEW t \in Nat, t >= now PROVE ~Open(t)
      <4>1. Budgeted(tiers, seen, at, d, LastSend(seen, at), now, Retention)
        <5> HIDE DEF s0
        <5> QED BY <2>2, <2>5, StandsForBudgeted
      <4>2. ~WindowsOK(hours, t)
        <5> HIDE DEF first
        <5> QED BY <2>2, <2>6, <2>7, <3>2, <4>1, NeverIsTheHours
      <4> QED BY <2>3, <4>2
    <3> HIDE DEF first, second
    <3> QED BY <2>2, <2>7, <3>1, <3>2 DEF EstimateIsEarliest, first, second
  <2>8. CASE first # Never
    <3>1. first \in Nat /\ first >= now /\ Can(seen, at, first) /\ \A t \in now..(first - 1) : ~Can(seen, at, t)
      <4> HIDE DEF first
      <4> QED BY <2>6, <2>8 DEF FirstPossible
    <3>2. Ok(seen, at, first) /\ \A t \in now..(first - 1) : ~Ok(seen, at, t)
      <4>1. now..(first - 1) \subseteq Nat
        <5> HIDE DEF first
        <5> QED BY <2>2
      <4> HIDE DEF first, Open
      <4> QED BY <2>3, <3>1, <4>1 DEF Possible
    <3>3. First(I, at1, first, second)
      <4>1. StandsFor(tiers, s1, I, at1) /\ s1.time = first
        BY <2>4, <2>6, <2>8
      <4> HIDE DEF s1, I, at1, first, second
      <4>2. FirstPossible(tiers, I, at1, d, LastSend(I, at1), hours, s1.time, s2.time)
        BY <2>2, <2>5, <4>1, SimSendIsFirst
      <4> HIDE DEF s2
      <4> QED BY <2>4, <4>1, <4>2
    <3>4. second # Never
      <4> SUFFICES ASSUME second = Never PROVE FALSE
        OBVIOUS
      <4>1. Budgeted(tiers, I, at1, d, LastSend(I, at1), first, Retention)
        <5> HIDE DEF s1, I, at1, first
        <5> QED BY <2>2, <2>4, <2>6, <2>8, StandsForBudgeted
      <4>2. FirstPossible(tiers, I, at1, d, LastSend(I, at1), hours, first, Never)
        BY <3>3, Zenon
      <4>3. ~WindowsOK(hours, first)
        <5>1. first >= first
          BY <3>1
        <5> HIDE DEF I, at1, first
        <5> QED BY <3>1, <4>1, <4>2, <5>1, NeverIsTheHours
      <4> QED BY <3>1, <4>3 DEF Possible
    <3>5. second \in Nat /\ second >= first /\ Can(I, at1, second) /\ \A t \in first..(second - 1) : ~Can(I, at1, t)
      <4> HIDE DEF first, second, I, at1
      <4> QED BY <3>3, <3>4 DEF FirstPossible
    <3>6. Ok(I, at1, second)
      <4> HIDE DEF first, second, I, at1, Open
      <4> QED BY <2>3, <3>5 DEF Possible
    <3>7. ASSUME NEW t \in first..(second - 1), NEW u \in first..t, Ok(seen, at, u), Ok(I, Stamp(at, n + 1, u), t)
          PROVE  FALSE
      <4> DEFINE atU == Stamp(at, n + 1, u)
      <4>1. t \in Nat /\ u \in Nat /\ first <= u /\ now <= u
        <5> HIDE DEF first, second
        <5> QED BY <2>2, <3>1, <3>5, <3>7
      <4>2. \A i \in I : at1[i] \in Nat /\ atU[i] \in Nat /\ at1[i] <= atU[i] /\ atU[i] <= u
        <5>1. at \in [1..n -> Nat] /\ seen \subseteq 1..n /\ \A i \in seen : at[i] <= now
          BY <2>1 DEF Forecasting
        <5>2. at1[n + 1] = first /\ atU[n + 1] = u
          BY DEF Stamp
        <5>3. \A i \in seen : at1[i] = at[i] /\ atU[i] = at[i]
          BY <2>5, <5>1 DEF Stamp
        <5> HIDE DEF at1, atU, first
        <5> QED BY <2>2, <3>1, <4>1, <5>1, <5>2, <5>3
      <4>3. IsFiniteSet(I) /\ Allowed(tiers, I, atU, d, LastSend(I, atU), t)
        BY <2>6, <2>8, <3>7 DEF StandsFor
      <4>4. Allowed(tiers, I, at1, d, LastSend(I, at1), t)
        <5> HIDE DEF I, at1, atU, first
        <5>1. (\A i \in I : at1[i] \in Nat /\ atU[i] \in Nat /\ at1[i] <= atU[i]) /\ (\A i \in I : atU[i] <= u)
          BY <4>2
        <5> QED BY <2>2, <4>1, <4>3, <5>1, EarlierAllows
      <4>5. Can(I, at1, t)
        <5> HIDE DEF I, at1, Open
        <5> QED BY <2>3, <3>7, <4>1, <4>4 DEF Possible
      <4> HIDE DEF I, at1, first, second
      <4> QED BY <3>5, <3>7, <4>5
    <3> HIDE DEF Ok, first, second
    <3> QED BY <2>8, <3>2, <3>4, <3>6, <3>7 DEF EstimateIsEarliest, Ok, first, second, seen, d, I, at1
  <2> QED BY <2>7, <2>8
<1> QED BY <1>1, BudgetTypeCorrect, LedgerComplete, PTL

\* The forecast of any number of sends.
ForecastIsBest ==
  \A k \in Nat \ {0} :
    LET plans == Plans(tiers, Recent(tiers, [pace EXCEPT !.jitter = 0]), at, n, pace.min, hours, now, k)
    IN  /\ NextSend(k) # Never => \E u \in plans : u[k] = NextSend(k)
        /\ \A u \in plans : NextSend(k) # Never /\ NextSend(k) <= u[k]

\* The forecast of any number of sends is the end of a schedule that can be kept, no such schedule
\* ends before it, and it says never only if there is no such schedule.
THEOREM ForecastBest == Spec => []ForecastIsBest
<1>1. TypeOK /\ LedgerIsComplete => ForecastIsBest
  <2> SUFFICES ASSUME TypeOK, LedgerIsComplete, NEW k \in Nat \ {0}
               PROVE  LET seen == Recent(tiers, [pace EXCEPT !.jitter = 0])
                          plans == Plans(tiers, seen, at, n, pace.min, hours, now, k)
                      IN  /\ NextSend(k) # Never => \E u \in plans : u[k] = NextSend(k)
                          /\ \A u \in plans : NextSend(k) # Never /\ NextSend(k) <= u[k]
    BY DEF ForecastIsBest
  <2> DEFINE seen == Recent(tiers, [pace EXCEPT !.jitter = 0])
             d == pace.min
             e == Estimate(k, seen, at, tiers, d, hours, now)
             plans == Plans(tiers, seen, at, n, d, hours, now, k)
  <2>1. Forecasting(tiers, seen, at, n, d, now, Retention) /\ at = [i \in Ids |-> at[i]]
    BY BudgetForecasts, Zenon
  <2>2. NextSend(k) = e
    BY <2>1 DEF NextSend
  <2> HIDE DEF seen, d
  <2>3. e # Never => \E u \in plans : u[k] = e
    BY <2>1, ForecastIsKept
  <2>4. ASSUME NEW u \in plans PROVE e # Never /\ e <= u[k]
    BY <2>1, ForecastIsSoonest
  <2> QED BY <2>2, <2>3, <2>4, Zenon DEF seen, d
<1> QED BY <1>1, BudgetTypeCorrect, LedgerComplete, PTL
=============================================================================

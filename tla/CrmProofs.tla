----------------------------- MODULE CrmProofs -----------------------------
(***************************************************************************)
(* What holds of the customer book for every set of customers, contacts,   *)
(* notes, follow-ups, tags and statuses, clearing the simulator's data     *)
(* included: types, where child rows hang, what the timeline shows, and    *)
(* that a captured id resolves.                                            *)
(***************************************************************************)
EXTENDS Crm, TLAPS

\* The constants: None is no id, the seeded statuses are statuses, the
\* simulator's contacts are contacts.
CrmConstants ==
  /\ None \notin Customers /\ None \notin Statuses
  /\ SimIdentities \subseteq Identities
  /\ Seeds \subseteq Statuses /\ Default \in Seeds

\* The book's forest of merges: a tombstone and what it points to are stored
\* rows, and tombstones were made in the order of the chain.
Forest ==
  \A c \in Customers : merged[c] # None =>
    /\ Stored(c) /\ Stored(merged[c])
    /\ at[c] < clock
    /\ merged[merged[c]] # None => at[c] < at[merged[c]]

IInv == TypeOK /\ ChildrenOnPeople /\ OnTheTimeline /\ Forest

\* The defaults a new customer's status is taken from have the right type.
LEMMA SeedTypes ==
  ASSUME CrmConstants, TypeOK, SeedStatuses
  PROVE  statuses' \subseteq Statuses /\ fallback' \in Statuses \cup {None}
BY DEF CrmConstants, TypeOK, SeedStatuses

\* Every action keeps the types.
LEMMA TypeStep ==
  ASSUME CrmConstants, TypeOK, [Next]_vars
  PROVE  TypeOK'
<1> USE DEF Subjects, States
<1>1. CASE Customer
  <2> PICK c \in Customers :
        \/ \E i \in Identities : Inbound(i, c)
        \/ \E s \in Statuses \cup {None} : CreateCustomer(c, s) \/ UpdateCustomer(c, s)
        \/ \E t \in Tags : AddCustomerTag(c, t) \/ RemoveCustomerTag(c, t)
        \/ \E n \in Notes : AddCustomerNote(n, c)
        \/ \E f \in Followups : CreateFollowup(f, c)
        \/ \E t \in Customers : MergeCustomers(t, c)
    BY <1>1 DEF Customer
  <2>1. ASSUME NEW i \in Identities, Inbound(i, c) PROVE TypeOK'
    BY <2>1, SeedTypes DEF TypeOK, Inbound, hist
  <2>2. ASSUME NEW s \in Statuses \cup {None}, CreateCustomer(c, s) PROVE TypeOK'
    BY <2>2, SeedTypes DEF TypeOK, CreateCustomer, children, hist
  <2>3. ASSUME NEW s \in Statuses \cup {None}, UpdateCustomer(c, s) PROVE TypeOK'
    BY <2>3 DEF TypeOK, UpdateCustomer, children, lists, hist
  <2>4. ASSUME NEW t \in Tags, AddCustomerTag(c, t) \/ RemoveCustomerTag(c, t)
        PROVE  TypeOK'
    BY <2>4 DEF TypeOK, AddCustomerTag, RemoveCustomerTag, people, lists, hist
  <2>5. ASSUME NEW n \in Notes, AddCustomerNote(n, c) PROVE TypeOK'
    BY <2>5 DEF TypeOK, AddCustomerNote, people, lists, hist
  <2>6. ASSUME NEW f \in Followups, CreateFollowup(f, c) PROVE TypeOK'
    BY <2>6 DEF TypeOK, CreateFollowup, people, lists, hist
  <2>7. ASSUME NEW t \in Customers, MergeCustomers(t, c) PROVE TypeOK'
    <3>1. /\ owner' \in [Identities -> Customers \cup {None}]
          /\ noteOf' \in [Notes -> Customers \cup {None}]
      BY <2>7 DEF TypeOK, MergeCustomers, Moved
    <3>2. followup' \in [Followups -> [of: Customers \cup {None}, state: States]]
      BY <2>7 DEF TypeOK, MergeCustomers, Moved
    <3>3. /\ labels' \in [Customers -> SUBSET Tags]
          /\ timeline' \in [Customers -> SUBSET Subjects]
      BY <2>7 DEF TypeOK, MergeCustomers
    <3>4. /\ merged' \in [Customers -> Customers \cup {None}]
          /\ status' \in [Customers -> Statuses \cup {None}]
          /\ at' \in [Customers -> Nat] /\ clock' \in Nat
          /\ absorbed' \subseteq Customers
      BY <2>7 DEF TypeOK, MergeCustomers
    <3> QED BY <2>7, <3>1, <3>2, <3>3, <3>4 DEF TypeOK, MergeCustomers, lists
  <2> QED BY <2>1, <2>2, <2>3, <2>4, <2>5, <2>6, <2>7
<1>2. CASE Child
  <2>1. ASSUME NEW n \in Notes, DeleteCustomerNote(n) PROVE TypeOK'
    BY <2>1 DEF TypeOK, DeleteCustomerNote, people, lists, hist
  <2>2. ASSUME NEW f \in Followups, NEW s \in States, SetFollowupState(f, s)
        PROVE  TypeOK'
    BY <2>2 DEF TypeOK, SetFollowupState, people, lists, hist
  <2> QED BY <1>2, <2>1, <2>2 DEF Child
<1>3. CASE Lists
  <2>1. ASSUME NEW t \in Tags, CreateTag(t) \/ DeleteTag(t) PROVE TypeOK'
    BY <2>1 DEF TypeOK, CreateTag, DeleteTag, people, children, hist
  <2>2. ASSUME NEW s \in Statuses, CreateStatus(s) \/ DeleteStatus(s) PROVE TypeOK'
    BY <2>2 DEF TypeOK, CreateStatus, DeleteStatus, Forget, people, children, hist
  <2>3. ASSUME EnsureDefaultStatuses PROVE TypeOK'
    BY <2>3, SeedTypes DEF TypeOK, EnsureDefaultStatuses, people, children, hist
  <2> QED BY <1>3, <2>1, <2>2, <2>3 DEF Lists
<1>4. CASE PurgeSimulatorData
  BY <1>4 DEF TypeOK, PurgeSimulatorData, Forget, lists, hist
<1>5. CASE UNCHANGED vars
  BY <1>5 DEF TypeOK, vars, people, children, lists, hist
<1> QED BY <1>1, <1>2, <1>3, <1>4, <1>5 DEF Next

\* The steps that neither store, merge nor delete a customer, nor move or
\* remove a child row: they leave all the rest to the frame.
LEMMA FrameStep ==
  ASSUME TypeOK, ChildrenOnPeople, OnTheTimeline, Forest,
         UNCHANGED <<row, merged, owner, noteOf, at, clock>>,
         \A f \in Followups : followup'[f].of = followup[f].of,
         \A c \in Customers : timeline[c] \subseteq timeline'[c]
  PROVE  ChildrenOnPeople' /\ OnTheTimeline' /\ Forest'
<1>1. ChildrenOnPeople'
  BY DEF ChildrenOnPeople, Live, Stored
<1>2. OnTheTimeline'
  BY DEF TypeOK, OnTheTimeline
<1>3. Forest'
  BY DEF Forest, Stored
<1> QED BY <1>1, <1>2, <1>3

\* A new customer, with or without an identity, has no other child.
LEMMA StoreStep ==
  ASSUME CrmConstants, IInv, NEW c \in Customers,
         (\E i \in Identities : Inbound(i, c))
           \/ (\E s \in Statuses \cup {None} : CreateCustomer(c, s))
  PROVE  ChildrenOnPeople' /\ OnTheTimeline' /\ Forest'
<1> USE DEF IInv, TypeOK, Stored
<1>1. /\ row[c] = "unused" /\ row' = [row EXCEPT ![c] = "stored"]
      /\ UNCHANGED <<merged, noteOf, followup, hist>>
      /\ \A d \in Customers \ {c} : timeline'[d] = timeline[d]
      /\ \A i \in Identities : owner'[i] = owner[i] \/ owner'[i] = c
  BY DEF Inbound, CreateCustomer, children
<1>2. merged[c] = None
  BY <1>1 DEF Forest
<1>3. \A d \in Customers : Live(d) => Live(d)' /\ d # c
  BY <1>1 DEF Live
<1>4. ChildrenOnPeople'
  <2>1. Live(c)'
    BY <1>1, <1>2 DEF Live
  <2> QED BY <1>1, <1>3, <2>1 DEF ChildrenOnPeople, CrmConstants
<1>5. OnTheTimeline'
  BY <1>1, <1>3 DEF OnTheTimeline, ChildrenOnPeople
<1>6. Forest'
  BY <1>1, <1>2 DEF Forest, hist
<1> QED BY <1>4, <1>5, <1>6

\* A child row is added to a live customer, with its event.
LEMMA AddStep ==
  ASSUME CrmConstants, IInv, NEW c \in Customers,
         (\E n \in Notes : AddCustomerNote(n, c))
           \/ (\E f \in Followups : CreateFollowup(f, c))
  PROVE  ChildrenOnPeople' /\ OnTheTimeline' /\ Forest'
<1> USE DEF IInv, TypeOK, CustomerExists
<1>1. ASSUME NEW n \in Notes, AddCustomerNote(n, c)
      PROVE  ChildrenOnPeople' /\ OnTheTimeline' /\ Forest'
  <2>1. ChildrenOnPeople'
    BY <1>1 DEF AddCustomerNote, ChildrenOnPeople, Live, Stored, people
  <2>2. OnTheTimeline'
    BY <1>1 DEF AddCustomerNote, OnTheTimeline
  <2>3. Forest'
    BY <1>1 DEF AddCustomerNote, Forest, Stored, people, hist
  <2> QED BY <2>1, <2>2, <2>3
<1>2. ASSUME NEW f \in Followups, CreateFollowup(f, c)
      PROVE  ChildrenOnPeople' /\ OnTheTimeline' /\ Forest'
  <2>1. ChildrenOnPeople'
    BY <1>2 DEF CreateFollowup, ChildrenOnPeople, Live, Stored, people
  <2>2. OnTheTimeline'
    BY <1>2 DEF CreateFollowup, OnTheTimeline
  <2>3. Forest'
    BY <1>2 DEF CreateFollowup, Forest, Stored, people, hist
  <2> QED BY <2>1, <2>2, <2>3
<1> QED BY <1>1, <1>2

\* A merge moves every child row of the source, and its timeline, to the
\* target; no tombstone pointed to the target's chain beyond it.
LEMMA MergeStep ==
  ASSUME CrmConstants, IInv, NEW t \in Customers, NEW s \in Customers,
         MergeCustomers(t, s)
  PROVE  ChildrenOnPeople' /\ OnTheTimeline' /\ Forest'
<1> USE DEF IInv, TypeOK
<1>1. /\ Live(t) /\ Live(s) /\ t # s
      /\ row' = row /\ merged' = [merged EXCEPT ![s] = t]
      /\ clock' = clock + 1 /\ at' = [at EXCEPT ![s] = clock]
  BY DEF MergeCustomers
<1>2. \A c \in Customers : Live(c) /\ c # s => Live(c)'
  BY <1>1 DEF Live, Stored
<1>3. ChildrenOnPeople'
  <2>1. \A i \in Identities : owner'[i] # None => Live(owner[i])'
    BY <1>1, <1>2 DEF MergeCustomers, Moved, ChildrenOnPeople, CrmConstants, Live, Stored
  <2>2. \A n \in Notes : noteOf'[n] # None => Live(noteOf[n])'
    BY <1>1, <1>2 DEF MergeCustomers, Moved, ChildrenOnPeople, CrmConstants, Live, Stored
  <2>3. \A f \in Followups : followup'[f].of # None => Live(followup[f].of)'
    BY <1>1, <1>2 DEF MergeCustomers, Moved, ChildrenOnPeople, CrmConstants, Live, Stored
  <2> QED BY <2>1, <2>2, <2>3 DEF ChildrenOnPeople
<1>4. OnTheTimeline'
  <2>1. /\ timeline[t] \cup timeline[s] \subseteq timeline'[t]
        /\ \A c \in Customers \ {s, t} : timeline'[c] = timeline[c]
    BY <1>1 DEF MergeCustomers
  <2>2. \A n \in Notes : noteOf'[n] # None => n \in timeline'[noteOf'[n]]
    BY <1>1, <2>1 DEF MergeCustomers, Moved, OnTheTimeline, CrmConstants
  <2>3. \A f \in Followups :
          followup'[f].of # None => f \in timeline'[followup'[f].of]
    BY <1>1, <2>1 DEF MergeCustomers, Moved, OnTheTimeline, CrmConstants
  <2> QED BY <2>2, <2>3 DEF OnTheTimeline
<1>5. Forest'
  <2> SUFFICES ASSUME NEW c \in Customers, merged'[c] # None
               PROVE  /\ Stored(c)' /\ Stored(merged[c])'
                      /\ at'[c] < clock'
                      /\ merged'[merged'[c]] # None => at'[c] < at'[merged'[c]]
    BY DEF Forest
  <2>1. CASE c = s
    BY <2>1, <1>1 DEF Live, Stored
  <2>2. CASE c # s
    <3>1. merged'[c] = merged[c] /\ at'[c] = at[c] /\ at[c] < clock
      BY <2>2, <1>1 DEF Forest
    <3> QED BY <2>2, <3>1, <1>1 DEF Forest, Stored
  <2> QED BY <2>1, <2>2
<1> QED BY <1>3, <1>4, <1>5

\* The purge deletes live customers only, with their child rows, and leaves
\* no tombstone pointing at one of them.
LEMMA PurgeStep ==
  ASSUME CrmConstants, IInv, PurgeSimulatorData
  PROVE  ChildrenOnPeople' /\ OnTheTimeline' /\ Forest'
<1> USE DEF IInv, TypeOK
<1> DEFINE D == SimulatorOnly
<1>1. D \subseteq Customers /\ \A c \in D : Live(c)
  BY DEF SimulatorOnly, ChildrenOnPeople, CrmConstants
<1> HIDE DEF D
<1>2. /\ row' = [c \in Customers |-> IF c \in D THEN "deleted" ELSE row[c]]
      /\ merged' = [c \in Customers |-> Forget(merged[c], D)]
      /\ owner' = [i \in Identities |-> IF i \in SimIdentities THEN None ELSE owner[i]]
      /\ noteOf' = [n \in Notes |-> Forget(noteOf[n], D)]
      /\ followup' = [f \in Followups |-> [followup[f] EXCEPT !.of = Forget(@, D)]]
      /\ timeline' = [c \in Customers |-> IF c \in D THEN {} ELSE timeline[c]]
      /\ at' = at /\ clock' = clock
  BY DEF PurgeSimulatorData, D, hist
<1>3. \A c \in Customers \ D : Live(c) => Live(c)'
  BY <1>2 DEF Live, Stored, Forget
<1>4. \A i \in Identities : owner[i] \in D => i \in SimIdentities
  BY DEF D, SimulatorOnly
<1>5. ChildrenOnPeople'
  <2>1. \A i \in Identities : owner'[i] # None => Live(owner[i])'
    BY <1>2, <1>3, <1>4 DEF ChildrenOnPeople, Live, Stored, Forget
  <2>2. \A n \in Notes : noteOf'[n] # None => Live(noteOf[n])'
    BY <1>2, <1>3 DEF ChildrenOnPeople, Forget, Live, Stored
  <2>3. \A f \in Followups : followup'[f].of # None => Live(followup[f].of)'
    BY <1>2, <1>3 DEF ChildrenOnPeople, Forget, Live, Stored
  <2> QED BY <2>1, <2>2, <2>3 DEF ChildrenOnPeople
<1>6. OnTheTimeline'
  BY <1>2 DEF OnTheTimeline, Forget
<1>7. Forest'
  <2> SUFFICES ASSUME NEW c \in Customers, merged'[c] # None
               PROVE  /\ Stored(c)' /\ Stored(merged[c])'
                      /\ at'[c] < clock'
                      /\ merged'[merged'[c]] # None => at'[c] < at'[merged'[c]]
    BY DEF Forest
  <2>1. merged[c] \in Customers \ D /\ merged'[c] = merged[c] /\ c \notin D
    BY <1>1, <1>2 DEF Forget, Live
  <2> QED BY <2>1, <1>2 DEF Forest, Stored, Forget
<1> QED BY <1>5, <1>6, <1>7

\* The inductive invariant is kept by every step.
LEMMA StepInv ==
  ASSUME CrmConstants, IInv, [Next]_vars
  PROVE  IInv'
<1>0. TypeOK'
  BY TypeStep DEF IInv
<1>1. ASSUME NEW c \in Customers,
             \/ \E s \in Statuses \cup {None} : UpdateCustomer(c, s)
             \/ \E t \in Tags : AddCustomerTag(c, t) \/ RemoveCustomerTag(c, t)
      PROVE  ChildrenOnPeople' /\ OnTheTimeline' /\ Forest'
  BY <1>1, FrameStep
     DEF IInv, TypeOK, UpdateCustomer, AddCustomerTag, RemoveCustomerTag,
         people, children, lists, hist
<1>2. CASE Customer
  <2> PICK c \in Customers :
        \/ \E i \in Identities : Inbound(i, c)
        \/ \E s \in Statuses \cup {None} : CreateCustomer(c, s) \/ UpdateCustomer(c, s)
        \/ \E t \in Tags : AddCustomerTag(c, t) \/ RemoveCustomerTag(c, t)
        \/ \E n \in Notes : AddCustomerNote(n, c)
        \/ \E f \in Followups : CreateFollowup(f, c)
        \/ \E t \in Customers : MergeCustomers(t, c)
    BY <1>2 DEF Customer
  <2> QED BY <1>0, <1>1, StoreStep, AddStep, MergeStep DEF IInv
<1>3. CASE Child
  <2>1. ASSUME NEW n \in Notes, DeleteCustomerNote(n)
        PROVE  ChildrenOnPeople' /\ OnTheTimeline' /\ Forest'
    BY <2>1 DEF IInv, TypeOK, DeleteCustomerNote, ChildrenOnPeople, OnTheTimeline,
                Forest, Live, Stored, people, hist
  <2>2. ASSUME NEW f \in Followups, NEW s \in States, SetFollowupState(f, s)
        PROVE  ChildrenOnPeople' /\ OnTheTimeline' /\ Forest'
    BY <2>2, FrameStep DEF IInv, TypeOK, SetFollowupState, people, hist
  <2> QED BY <1>0, <1>3, <2>1, <2>2 DEF Child, IInv
<1>4. CASE Lists
  BY <1>0, <1>4, FrameStep
     DEF IInv, TypeOK, Lists, CreateTag, DeleteTag, CreateStatus, DeleteStatus,
         EnsureDefaultStatuses, people, children, hist
<1>5. CASE PurgeSimulatorData
  BY <1>0, <1>5, PurgeStep DEF IInv
<1>6. CASE UNCHANGED vars
  BY <1>0, <1>6, FrameStep DEF IInv, TypeOK, vars, people, children, hist
<1> QED BY <1>2, <1>3, <1>4, <1>5, <1>6 DEF Next

\* The book's inductive invariant holds in every reachable state.
THEOREM CrmInvariance ==
  ASSUME CrmConstants
  PROVE  Spec => []IInv
<1>1. Init => IInv
  BY DEF CrmConstants, Init, IInv, TypeOK, ChildrenOnPeople, OnTheTimeline,
         Forest, Subjects, States
<1>2. IInv /\ [Next]_vars => IInv'
  BY StepInv
<1> QED BY <1>1, <1>2, PTL DEF Spec

\* Identities, notes and follow-ups always hang on customers the lists show.
THEOREM ChildrenStayOnPeople ==
  ASSUME CrmConstants
  PROVE  Spec => []ChildrenOnPeople
BY CrmInvariance, PTL DEF IInv

\* Notes and follow-ups are always on the timeline of the customer that has
\* them, through every merge.
THEOREM TimelineComplete ==
  ASSUME CrmConstants
  PROVE  Spec => []OnTheTimeline
BY CrmInvariance, PTL DEF IInv

\* CustomerByID never meets a missing row or a cycle.
THEOREM CapturedIdsResolve ==
  ASSUME CrmConstants
  PROVE  Spec => []IdsResolve
<1>1. IInv => IdsResolve
  BY DEF IInv, Forest, IdsResolve
<1> QED BY <1>1, CrmInvariance, PTL
=============================================================================

-------------------------------- MODULE Crm --------------------------------
(***************************************************************************)
(* The customer book of one organization (store/crm*.go, simulator.go).    *)
(* A customer owns channel identities, notes, follow-ups, tags and a       *)
(* timeline; a merge folds one customer into another and leaves a          *)
(* tombstone; clearing the simulator's data deletes its customers.  Every  *)
(* write is one immediate transaction, hence one action.  The foreign keys *)
(* of the schema (cascade, set null) are part of the action that deletes.  *)
(*                                                                         *)
(* A customer's status stands for all its scalar fields, which a merge     *)
(* treats alike.  The timeline keeps the subject of an event: the note,    *)
(* follow-up, identity, tag or merged customer it is about.                *)
(***************************************************************************)
EXTENDS Integers

CONSTANTS Customers,   \* customer ids
          Identities,  \* channel contacts who may write in
          SimIdentities, \* those of the simulator's account
          Notes, Followups, Tags,
          Statuses,    \* status slugs
          Seeds,       \* those defaultStatuses seeds
          Default,     \* the seeded one that is the default
          None

VARIABLES row,       \* a customer id: "unused", "stored", "deleted"
          merged,    \* merged_into_id
          owner,     \* the customer of an identity (None: no row)
          noteOf,    \* the customer of a note
          followup,  \* a follow-up's customer and state
          labels,    \* a customer's tags
          timeline,  \* subjects of its timeline events
          status,    \* its status_id
          tags,      \* crm_tags
          statuses,  \* crm_statuses
          fallback,  \* the status row with is_default
          absorbed,  \* history: customers ever merged away
          clock, at  \* history: when a customer was merged away

people   == <<row, merged, status>>
children == <<owner, noteOf, followup, labels, timeline>>
lists    == <<tags, statuses, fallback>>
hist     == <<absorbed, clock, at>>
vars     == <<people, children, lists, hist>>

Subjects == Notes \cup Followups \cup Identities \cup Tags \cup Customers
States   == {"open", "completed", "cancelled"}

Stored(c) == row[c] = "stored"
\* A stored customer that is not a tombstone: what ListCustomers returns.
Live(c) == Stored(c) /\ merged[c] = None

TypeOK ==
  /\ row \in [Customers -> {"unused", "stored", "deleted"}]
  /\ merged \in [Customers -> Customers \cup {None}]
  /\ owner \in [Identities -> Customers \cup {None}]
  /\ noteOf \in [Notes -> Customers \cup {None}]
  /\ followup \in [Followups -> [of: Customers \cup {None}, state: States]]
  /\ labels \in [Customers -> SUBSET Tags]
  /\ timeline \in [Customers -> SUBSET Subjects]
  /\ status \in [Customers -> Statuses \cup {None}]
  /\ tags \subseteq Tags /\ statuses \subseteq Statuses
  /\ fallback \in Statuses \cup {None}
  /\ absorbed \subseteq Customers
  /\ clock \in Nat /\ at \in [Customers -> Nat]

Init ==
  /\ row = [c \in Customers |-> "unused"]
  /\ merged = [c \in Customers |-> None]
  /\ owner = [i \in Identities |-> None]
  /\ noteOf = [n \in Notes |-> None]
  /\ followup = [f \in Followups |-> [of |-> None, state |-> "open"]]
  /\ labels = [c \in Customers |-> {}]
  /\ timeline = [c \in Customers |-> {}]
  /\ status = [c \in Customers |-> None]
  /\ tags = {} /\ statuses = Seeds /\ fallback = Default
  /\ absorbed = {} /\ clock = 0 /\ at = [c \in Customers |-> 0]

-----------------------------------------------------------------------------
\* defaultStatusID and EnsureDefaultStatuses: an organization without any
\* status gets the seeds back; one without a default gives none.
SeedStatuses ==
  /\ statuses' = IF statuses = {} THEN Seeds ELSE statuses
  /\ fallback' = IF statuses = {} THEN Default ELSE fallback

\* ResolveCustomerForContact on a contact the book does not know; the known
\* one only has its display data refreshed.
Inbound(i, c) ==
  /\ owner[i] = None /\ row[c] = "unused"
  /\ SeedStatuses
  /\ row' = [row EXCEPT ![c] = "stored"]
  /\ owner' = [owner EXCEPT ![i] = c]
  /\ status' = [status EXCEPT ![c] = fallback']
  /\ timeline' = [timeline EXCEPT ![c] = {i}]
  /\ UNCHANGED <<merged, noteOf, followup, labels, tags, hist>>

\* CreateCustomer: the status may be given.
CreateCustomer(c, s) ==
  /\ row[c] = "unused"
  /\ SeedStatuses
  /\ s \in statuses' \cup {fallback', None}
  /\ row' = [row EXCEPT ![c] = "stored"]
  /\ status' = [status EXCEPT ![c] = s]
  /\ UNCHANGED <<merged, children, tags, hist>>

\* UpdateCustomer: any row, a tombstone included.
UpdateCustomer(c, s) ==
  /\ Stored(c) /\ s \in statuses \cup {None}
  /\ status' = [status EXCEPT ![c] = s]
  /\ UNCHANGED <<row, merged, children, lists, hist>>

\* AddCustomerTag, RemoveCustomerTag: any row, a tombstone included.
AddCustomerTag(c, t) ==
  /\ Stored(c) /\ t \in tags \ labels[c]
  /\ labels' = [labels EXCEPT ![c] = @ \cup {t}]
  /\ timeline' = [timeline EXCEPT ![c] = @ \cup {t}]
  /\ UNCHANGED <<people, owner, noteOf, followup, lists, hist>>

RemoveCustomerTag(c, t) ==
  /\ Stored(c) /\ t \in tags \cap labels[c]
  /\ labels' = [labels EXCEPT ![c] = @ \ {t}]
  /\ timeline' = [timeline EXCEPT ![c] = @ \cup {t}]
  /\ UNCHANGED <<people, owner, noteOf, followup, lists, hist>>

\* customerExists: what a child row may be added to.
CustomerExists(c) == Live(c)

\* AddCustomerNote: the note and its timeline event.
AddCustomerNote(n, c) ==
  /\ noteOf[n] = None /\ CustomerExists(c)
  /\ noteOf' = [noteOf EXCEPT ![n] = c]
  /\ timeline' = [timeline EXCEPT ![c] = @ \cup {n}]
  /\ UNCHANGED <<people, owner, followup, labels, lists, hist>>

DeleteCustomerNote(n) ==
  /\ noteOf[n] # None
  /\ noteOf' = [noteOf EXCEPT ![n] = None]
  /\ UNCHANGED <<people, owner, followup, labels, timeline, lists, hist>>

CreateFollowup(f, c) ==
  /\ followup[f].of = None /\ CustomerExists(c)
  /\ followup' = [followup EXCEPT ![f] = [of |-> c, state |-> "open"]]
  /\ timeline' = [timeline EXCEPT ![c] = @ \cup {f}]
  /\ UNCHANGED <<people, owner, noteOf, labels, lists, hist>>

\* SetFollowupState, and RescheduleFollowup, which reopens: from any state.
\* The event goes to whoever owns the follow-up when it is written.
SetFollowupState(f, s) ==
  LET c == followup[f].of IN
  /\ c # None
  /\ followup' = [followup EXCEPT ![f] = [of |-> c, state |-> s]]
  /\ timeline' = [timeline EXCEPT ![c] = @ \cup {f}]
  /\ UNCHANGED <<people, owner, noteOf, labels, lists, hist>>

\* The customer of a child row after s was folded into t.
Moved(c, s, t) == IF c = s THEN t ELSE c

\* MergeCustomers: child rows are pointed at the target, tags united, blanks
\* of the target filled, the source left as a tombstone.
MergeCustomers(t, s) ==
  /\ Live(t) /\ Live(s) /\ t # s
  /\ owner' = [i \in Identities |-> Moved(owner[i], s, t)]
  /\ noteOf' = [n \in Notes |-> Moved(noteOf[n], s, t)]
  /\ followup' = [f \in Followups |->
                    [followup[f] EXCEPT !.of = Moved(@, s, t)]]
  /\ labels' = [labels EXCEPT ![t] = @ \cup labels[s], ![s] = {}]
  /\ timeline' = [timeline EXCEPT ![t] = @ \cup timeline[s] \cup {s}, ![s] = {}]
  /\ status' = [status EXCEPT ![t] = IF @ = None THEN status[s] ELSE @]
  /\ merged' = [merged EXCEPT ![s] = t]
  /\ absorbed' = absorbed \cup {s}
  /\ clock' = clock + 1 /\ at' = [at EXCEPT ![s] = clock]
  /\ UNCHANGED <<row, lists>>

\* The customers every identity of which is the simulator's.
SimulatorOnly ==
  {c \in Customers : /\ \E i \in SimIdentities : owner[i] = c
                     /\ \A i \in Identities : owner[i] = c => i \in SimIdentities}

\* Rows of a deleted customer go with it (ON DELETE CASCADE) or forget it
\* (merged_into_id, ON DELETE SET NULL).
Forget(c, D) == IF c \in D THEN None ELSE c

\* PurgeSimulatorData.
PurgeSimulatorData ==
  LET D == SimulatorOnly IN
  /\ \E i \in SimIdentities : owner[i] # None
  /\ row' = [c \in Customers |-> IF c \in D THEN "deleted" ELSE row[c]]
  /\ merged' = [c \in Customers |-> Forget(merged[c], D)]
  /\ owner' = [i \in Identities |-> IF i \in SimIdentities THEN None ELSE owner[i]]
  /\ noteOf' = [n \in Notes |-> Forget(noteOf[n], D)]
  /\ followup' = [f \in Followups |-> [followup[f] EXCEPT !.of = Forget(@, D)]]
  /\ labels' = [c \in Customers |-> IF c \in D THEN {} ELSE labels[c]]
  /\ timeline' = [c \in Customers |-> IF c \in D THEN {} ELSE timeline[c]]
  /\ UNCHANGED <<status, lists, hist>>

CreateTag(t) ==
  /\ t \notin tags
  /\ tags' = tags \cup {t}
  /\ UNCHANGED <<people, children, statuses, fallback, hist>>

\* DeleteTag takes the tag off every customer (cascade).
DeleteTag(t) ==
  /\ t \in tags
  /\ tags' = tags \ {t}
  /\ labels' = [c \in Customers |-> labels[c] \ {t}]
  /\ UNCHANGED <<people, owner, noteOf, followup, timeline, statuses, fallback, hist>>

\* A status made by hand is never the default one.
CreateStatus(s) ==
  /\ s \notin statuses
  /\ statuses' = statuses \cup {s}
  /\ UNCHANGED <<people, children, tags, fallback, hist>>

\* DeleteStatus leaves its customers without one (SET NULL).
DeleteStatus(s) ==
  /\ s \in statuses
  /\ statuses' = statuses \ {s}
  /\ fallback' = Forget(fallback, {s})
  /\ status' = [c \in Customers |-> Forget(status[c], {s})]
  /\ UNCHANGED <<row, merged, children, tags, hist>>

\* crmOrg, the guard every CRM route opens with, reads included.
EnsureDefaultStatuses ==
  /\ statuses = {} /\ SeedStatuses
  /\ UNCHANGED <<people, children, tags, hist>>

Customer ==
  \E c \in Customers :
    \/ \E i \in Identities : Inbound(i, c)
    \/ \E s \in Statuses \cup {None} : CreateCustomer(c, s) \/ UpdateCustomer(c, s)
    \/ \E t \in Tags : AddCustomerTag(c, t) \/ RemoveCustomerTag(c, t)
    \/ \E n \in Notes : AddCustomerNote(n, c)
    \/ \E f \in Followups : CreateFollowup(f, c)
    \/ \E t \in Customers : MergeCustomers(t, c)
Child ==
  \/ \E n \in Notes : DeleteCustomerNote(n)
  \/ \E f \in Followups, s \in States : SetFollowupState(f, s)
Lists ==
  \/ \E t \in Tags : CreateTag(t) \/ DeleteTag(t)
  \/ \E s \in Statuses : CreateStatus(s) \/ DeleteStatus(s)
  \/ EnsureDefaultStatuses

Next == Customer \/ Child \/ Lists \/ PurgeSimulatorData
Spec == Init /\ [][Next]_vars

-----------------------------------------------------------------------------
\* A customer merged away never comes back as a person of its own while its
\* row is kept (crm.go: "tombstones, not people").
MergedStaysMerged == \A c \in absorbed : Stored(c) => merged[c] # None

\* Identities, notes and follow-ups hang on people the lists show, never on
\* a tombstone or a deleted row: a merge moves all of them, a purge takes all
\* of them, and nothing can be added to a tombstone afterwards.
ChildrenOnPeople ==
  /\ \A i \in Identities : owner[i] # None => Live(owner[i])
  /\ \A n \in Notes : noteOf[n] # None => Live(noteOf[n])
  /\ \A f \in Followups : followup[f].of # None => Live(followup[f].of)

\* Every note and follow-up is on the timeline of the customer that has it
\* now, however often that customer changed.
OnTheTimeline ==
  /\ \A n \in Notes : noteOf[n] # None => n \in timeline[noteOf[n]]
  /\ \A f \in Followups : followup[f].of # None => f \in timeline[followup[f].of]

\* CustomerByID follows merged_into_id from row to row and meets neither a
\* missing row nor a cycle: each hop leads to a stored customer that was
\* merged away later, if at all.
IdsResolve ==
  \A c \in Customers :
    Stored(c) /\ merged[c] # None =>
      /\ Stored(merged[c])
      /\ merged[merged[c]] # None => at[c] < at[merged[c]]
=============================================================================

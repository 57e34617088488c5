----------------------------- MODULE Knowledge -----------------------------
(***************************************************************************)
(* The knowledge base between its writers (internal/kbstore): the draft of *)
(* an organization, written by the manual editor (draft.go) and by MCP     *)
(* clients (mcp_write.go, mcp_attach.go), its approval into the live       *)
(* tables, and the direct writes to those tables (live.go, zones.go).      *)
(*                                                                         *)
(* Every operation is one transaction and the store has one connection, so *)
(* each is one action; what interleaves is a client's read of the draft's  *)
(* version with the writes of the others.  Operations that are refused     *)
(* change nothing and have no action.                                      *)
(***************************************************************************)
EXTENDS Catalog, Naturals

CONSTANTS
    Clients,     \* callers that send the version they have read
    Scopes,      \* the sets of entities an organization may come to use
    MaxVersion,  \* bound on writes of the draft
    NoVersion    \* a client that has read no version

ASSUME ScopesAssumption == Scopes \subseteq SUBSET Entities
ASSUME VersionAssumption == MaxVersion \in Nat /\ NoVersion \notin Nat

VARIABLES
    scope,     \* the entities this organization uses
    live,      \* the live rows
    draft,     \* kbd_draft.draft: the staged rows ...
    marked,    \* ... and its Deletes
    version,   \* kbd_draft.base_version
    base,      \* client -> the version it read last
    moved,     \* client -> the draft was written since (history)
    overwrote, \* a conditional write landed on a draft that had moved (history)
    resaved,   \* marked entities the editor has saved since (history)
    gaps       \* parts of the live rows a write past the checks has left unbuildable (history)

vars == <<scope, live, draft, marked, version, base, moved, overwrote, resaved, gaps>>
draftVars == <<draft, marked, version, base, moved, overwrote, resaved>>

\* The parts of the live rows whose rows have to go together.
Parts == {"services", "delivery_zones"}

TypeOK ==
    /\ scope \in Scopes
    /\ live \in [Entities -> Rows \cup {NoRow}]
    /\ draft \in [Entities -> Rows \cup {NoRow}]
    /\ \A e \in Entities : live[e] \in RowsOf(e) \cup {NoRow} /\ draft[e] \in RowsOf(e) \cup {NoRow}
    /\ marked \subseteq Entities
    /\ version \in 0..MaxVersion
    /\ base \in [Clients -> (0..MaxVersion) \cup {NoVersion}]
    /\ moved \in [Clients -> BOOLEAN]
    /\ overwrote \in BOOLEAN
    /\ resaved \subseteq Entities
    /\ gaps \subseteq Parts

Init ==
    /\ scope \in Scopes
    /\ live = Empty
    /\ draft = Empty
    /\ marked = {}
    /\ version = 0
    /\ base = [c \in Clients |-> NoVersion]
    /\ moved = [c \in Clients |-> FALSE]
    /\ overwrote = FALSE
    /\ resaved = {}
    /\ gaps = {}

Of(kind) == {e \in scope : KindOf(e) = kind}

PartBuilds(part, w) ==
    /\ part = "services" => BuildServiceFacts(w)
    /\ part = "delivery_zones" => BuildDeliveryZoneFacts(w)

(***************************************************************************)
(* The history of the writes that get past the checks and leave rows no    *)
(* reply can be built from.  There are three: a direct write that makes a  *)
(* base its own variant, the approval of a deletion of the policies row    *)
(* while zones remain, and the approval of an entity the editor saved over *)
(* its deletion mark, which removes what the gate judged as present.  A    *)
(* gap is over once the part builds again.                                 *)
(***************************************************************************)
PastChecks(parts) == gaps' = {p \in Parts : p \in gaps \cup parts /\ ~PartBuilds(p, live')}

\* No live row is touched.
OnlyTheDraft == UNCHANGED <<live, gaps>>

---------------------------------------------------------------------------
(* Writing the draft.                                                      *)

\* (Mutant: a write keeps the version.)
PersistUnversioned(d, m) ==
    /\ draft' = d
    /\ marked' = m
    /\ moved' = [c \in Clients |-> TRUE]
    /\ UNCHANGED <<scope, base, version>>

PersistDraftBlob(d, m) ==
    /\ version < MaxVersion
    /\ draft' = d
    /\ marked' = m
    /\ version' = version + 1
    /\ moved' = [c \in Clients |-> TRUE]
    /\ UNCHANGED <<scope, base>>

\* Those that are staged and marked in the draft written.
StillMarked(entities, d, m) == {e \in entities : Has(d, e) /\ e \in m}

\* A writer that sends no expected version never conflicts.  Those it saves
\* keep their marks.
WriteDraftBlob(d, m, saves) ==
    /\ PersistDraftBlob(d, m)
    /\ resaved' = StillMarked(resaved \cup saves, d, m)
    /\ UNCHANGED overwrote

\* A client may send the version it read; any other version is ErrStale.
WriteDraftBlobVersioned(c, conditional, d, m) ==
    /\ conditional => base[c] = version
    /\ PersistDraftBlob(d, m)
    /\ resaved' = StillMarked(resaved, d, m)
    /\ overwrote' = (overwrote \/ (conditional /\ moved[c]))

\* A client reads the draft, or the answer to its own write reaches it.
DraftBaseVersion(c) ==
    /\ base' = [base EXCEPT ![c] = version]
    /\ moved' = [moved EXCEPT ![c] = FALSE]
    /\ UNCHANGED <<scope, live, draft, marked, version, overwrote, resaved, gaps>>

---------------------------------------------------------------------------
(* What a writer sees: the staged row, else the live one.  Marks are not   *)
(* looked at.                                                              *)

Current(d, e) == IF Has(d, e) THEN d[e] ELSE live[e]

HasServiceChildren(d, m, k) ==
    \E child \in Keys :
        /\ Service(child) \notin m
        /\ \/ Has(d, Service(child)) /\ d[Service(child)].parent = k
           \/ /\ ~Has(d, Service(child))
              /\ Has(live, Service(child))
              /\ live[Service(child)].parent = k

\* d and m are the draft the write is staged in, both empty for a direct write.
ValidateService(d, m, k, row) ==
    /\ row.parent # None =>
        /\ ~HasServiceChildren(d, m, k)
        /\ Current(d, Service(row.parent)) # NoRow
        /\ Current(d, Service(row.parent)).parent = None
        /\ row.active => Current(d, Service(row.parent)).active
    /\ \A r \in row.staff : Current(d, Specialist(r)) # NoRow

---------------------------------------------------------------------------
(* The manual editor.  Saving leaves a deletion mark where it is.          *)

Stage(e, row) ==
    /\ WriteDraftBlob([draft EXCEPT ![e] = row], marked, {e})
    /\ OnlyTheDraft

Unstage(e) ==
    /\ WriteDraftBlob([draft EXCEPT ![e] = NoRow], marked \cup {e}, {})
    /\ OnlyTheDraft

UpsertTopic == \E e \in Of("topics") : \E row \in TopicRows : Stage(e, row)
UpsertTariff == \E e \in Of("tariffs") : \E row \in PlainRows : Stage(e, row)
UpsertProduct == \E e \in Of("products") : \E row \in PlainRows : Stage(e, row)
UpsertZone == \E e \in Of("delivery_zones") : \E row \in ZoneRows : Stage(e, row)
UpsertSpecialist == \E e \in Of("specialists") : \E row \in SpecialistRows : Stage(e, row)
UpsertService ==
    \E e \in Of("services") : \E row \in ServiceRows :
        /\ ValidateService(draft, marked, e[2], row)
        /\ Stage(e, row)
PatchContacts == \E e \in Of("contacts") : \E row \in PlainRows : Stage(e, row)
PatchPolicies == \E e \in Of("policies") : \E row \in PolicyRows : Stage(e, row)
PatchTariffInfo == \E e \in Of("tariff_info") : \E row \in PlainRows : Stage(e, row)

\* The fields a patch of the assistant names; the others stay as they are.
Patched(w, patch) == [e \in Entities |-> IF e \in DOMAIN patch THEN patch[e] ELSE w[e]]

ConfigPatches ==
    UNION {[fields -> PlainRows] : fields \in (SUBSET Of("config")) \ {{}}}

PatchConfig ==
    \E patch \in ConfigPatches :
        /\ WriteDraftBlob(Patched(draft, patch), marked, {})
        /\ OnlyTheDraft

DeleteTopic == \E e \in Of("topics") : Unstage(e)
DeleteTariff == \E e \in Of("tariffs") : Unstage(e)
DeleteProduct == \E e \in Of("products") : Unstage(e)
DeleteZone == \E e \in Of("delivery_zones") : Unstage(e)
DeleteSpecialist == \E e \in Of("specialists") : Unstage(e)
DeleteService == \E e \in Of("services") : Unstage(e)

ClearDraft == WriteDraftBlob(Empty, {}, {}) /\ OnlyTheDraft

---------------------------------------------------------------------------
(* MCP clients.  An upsert takes the deletion mark away.                   *)

\* (Mutant: the mark stays.)
McpStageOver(c, e, row) ==
    /\ \E conditional \in BOOLEAN :
          WriteDraftBlobVersioned(c, conditional, [draft EXCEPT ![e] = row], marked)
    /\ OnlyTheDraft

McpStage(c, e, row) ==
    /\ \E conditional \in BOOLEAN :
          WriteDraftBlobVersioned(c, conditional, [draft EXCEPT ![e] = row], marked \ {e})
    /\ OnlyTheDraft

MCPUpsertTopic(c) ==
    \E e \in Of("topics") : \E row \in TopicRows : GateTopicBody(row) /\ McpStage(c, e, row)
MCPUpsertProduct(c) == \E e \in Of("products") : \E row \in PlainRows : McpStage(c, e, row)
MCPUpsertTariff(c) == \E e \in Of("tariffs") : \E row \in PlainRows : McpStage(c, e, row)
MCPUpsertContacts(c) == \E e \in Of("contacts") : \E row \in PlainRows : McpStage(c, e, row)
MCPUpsertPolicies(c) == \E e \in Of("policies") : \E row \in PolicyRows : McpStage(c, e, row)
MCPUpsertTariffInfo(c) == \E e \in Of("tariff_info") : \E row \in PlainRows : McpStage(c, e, row)
MCPUpsertDeliveryZone(c) == \E e \in Of("delivery_zones") : \E row \in ZoneRows : McpStage(c, e, row)
MCPUpsertSpecialist(c) ==
    \E e \in Of("specialists") : \E row \in SpecialistRows : McpStage(c, e, row)
MCPUpsertService(c) ==
    \E e \in Of("services") : \E row \in ServiceRows :
        /\ ValidateService(draft, marked, e[2], row)
        /\ McpStage(c, e, row)
MCPUpsertAssistant(c) ==
    \E patch \in ConfigPatches : \E conditional \in BOOLEAN :
        /\ WriteDraftBlobVersioned(c, conditional, Patched(draft, patch), marked)
        /\ OnlyTheDraft

\* An attachment is staged on the current row, the first one of a singleton
\* on a blank row.
BlankRow(e) == IF KindOf(e) = "policies" THEN {[flat |-> FALSE, note |-> FALSE]} ELSE PlainRows

MCPAttachMedia(c) ==
    \E e \in scope :
        /\ KindOf(e) \in {"topics", "products", "tariffs", "specialists", "contacts", "policies"}
        /\ KindOf(e) \in Listed => e \notin marked
        /\ \E row \in IF Current(draft, e) # NoRow THEN {Current(draft, e)}
                      ELSE IF KindOf(e) \in Singletons THEN BlankRow(e) ELSE {} :
              McpStage(c, e, row)

\* Only a live entity gets a mark; one that is only staged is forgotten.
MCPDelete(c) ==
    \E e \in scope : \E conditional \in BOOLEAN :
        /\ KindOf(e) # "config"
        /\ Has(live, e) \/ (Has(draft, e) /\ e \notin marked)
        /\ WriteDraftBlobVersioned(c, conditional, [draft EXCEPT ![e] = NoRow],
                                   IF Has(live, e) THEN marked \cup {e} ELSE marked)
        /\ OnlyTheDraft

---------------------------------------------------------------------------
(* Taking pending changes out of the draft.                                *)

Without(S) == [e \in Entities |-> IF e \in S THEN NoRow ELSE draft[e]]

EntitySets == {{e} : e \in scope \ Of("config")}

\* A staged tariff_info does not count as a pending change, and stays.
CancelChange(c) ==
    \E S \in EntitySets \cup {{e} : e \in Of("config")} \cup {Of("config")} :
    \E conditional \in BOOLEAN :
        LET staged == {e \in S : Has(draft, e) /\ KindOf(e) # "tariff_info"} IN
        /\ staged # {} \/ S \cap marked # {}
        /\ WriteDraftBlobVersioned(c, conditional, Without(staged), marked \ S)
        /\ OnlyTheDraft

\* What one approval covers: the whole draft, one entity, or the assistant.
Selections == EntitySets \cup {Of("config"), Entities}

Selected(S) == [e \in Entities |-> IF e \in S THEN draft[e] ELSE NoRow]

\* The gate judges the live rows as approval is expected to leave them.
Passes(approved, w) ==
    /\ Gate(w)
    /\ ~ZoneGateReasons(w)
    /\ ~ServiceGateReasons(w)
    /\ ~ServiceSpecialistGateReasons(approved, w)

ApproveVersioned(c) ==
    \E S \in Selections : \E conditional \in BOOLEAN :
        /\ S # Entities => \E e \in S : Has(draft, e) \/ e \in marked
        /\ Passes(Selected(S), ResultingForGate(live, Selected(S), marked \cap S))
        /\ live' = Materialized(live, Selected(S), marked \cap S)
        /\ PastChecks({KindOf(e) : e \in S \cap resaved}
                         \cup IF Policies \in S \cap marked THEN {"delivery_zones"} ELSE {})
        /\ WriteDraftBlobVersioned(c, conditional, Without(S), marked \ S)

---------------------------------------------------------------------------
(* Direct writes of the live rows.                                         *)

Put(e, row) ==
    /\ live' = [live EXCEPT ![e] = row]
    /\ PastChecks({})
    /\ UNCHANGED <<scope, draftVars>>

PutLiveTopic == \E e \in Of("topics") : \E row \in TopicRows : GateTopicBody(row) /\ Put(e, row)
PutLiveTariff == \E e \in Of("tariffs") : \E row \in PlainRows : Put(e, row)
PutLiveProduct == \E e \in Of("products") : \E row \in PlainRows : Put(e, row)
PutLiveSpecialist == \E e \in Of("specialists") : \E row \in SpecialistRows : Put(e, row)
PatchLiveContacts == \E e \in Of("contacts") : \E row \in PlainRows : Put(e, row)
PatchLiveTariffInfo == \E e \in Of("tariff_info") : \E row \in PlainRows : Put(e, row)
PatchLiveConfig ==
    \E patch \in ConfigPatches :
        /\ live' = Patched(live, patch)
        /\ PastChecks({})
        /\ UNCHANGED <<scope, draftVars>>

DeleteLiveTopic == \E e \in Of("topics") : Put(e, NoRow)
DeleteLiveTariff == \E e \in Of("tariffs") : Put(e, NoRow)
DeleteLiveProduct == \E e \in Of("products") : Put(e, NoRow)
DeleteLiveSpecialist == \E e \in Of("specialists") : Put(e, NoRow)
DeleteLiveContacts == \E e \in Of("contacts") : Put(e, NoRow)
DeleteLiveTariffInfo == \E e \in Of("tariff_info") : Put(e, NoRow)
DeleteLiveConfig ==
    /\ live' = [e \in Entities |-> IF KindOf(e) = "config" THEN NoRow ELSE live[e]]
    /\ PastChecks({})
    /\ UNCHANGED <<scope, draftVars>>

\* A zone or policy write is rolled back when the zones and policies that
\* result do not go together.
PutLiveZone == \E e \in Of("delivery_zones") : \E row \in ZoneRows : Put(e, row) /\ ~ZoneGateReasons(live')
DeleteLiveZone == \E e \in Of("delivery_zones") : Put(e, NoRow) /\ ~ZoneGateReasons(live')
PatchLivePolicies == \E e \in Of("policies") : \E row \in PolicyRows : Put(e, row) /\ ~ZoneGateReasons(live')

\* The only caller removes the organization's zones first.
DeleteLivePolicies ==
    \E e \in Of("policies") : ZonesOf(live) = {} /\ Put(e, NoRow)

\* The services that go down with k when its row becomes a base, archived.
Archived(w, k) ==
    [e \in Entities |->
        IF KindOf(e) = "services" /\ w[e] # NoRow /\ w[e].parent = k
        THEN [w[e] EXCEPT !.active = FALSE]
        ELSE w[e]]

WithService(k, row) ==
    LET w == [live EXCEPT ![Service(k)] = row] IN
    IF /\ row.parent = None /\ ~row.active
       /\ Has(live, Service(k)) /\ live[Service(k)].active
    THEN Archived(w, k) ELSE w

PutLiveService ==
    \E e \in Of("services") : \E row \in ServiceRows :
        /\ ValidateService(Empty, {}, e[2], row)
        /\ live' = WithService(e[2], row)
        /\ PastChecks(IF row.parent = e[2] THEN {"services"} ELSE {})
        /\ UNCHANGED <<scope, draftVars>>

DeleteLiveService ==
    \E e \in Of("services") :
        /\ \A child \in Keys : Has(live, Service(child)) => live[Service(child)].parent # e[2]
        /\ Put(e, NoRow)

SetLiveSpecialistSalesStatus ==
    \E e \in Of("specialists") : \E active \in BOOLEAN :
        /\ Has(live, e)
        /\ Put(e, [live[e] EXCEPT !.active = active])

SetLiveServiceSalesStatus ==
    \E e \in Of("services") : \E active \in BOOLEAN :
        /\ Has(live, e)
        /\ active /\ live[e].parent # None =>
              /\ Has(live, Service(live[e].parent))
              /\ live[Service(live[e].parent)].active
        /\ live' = WithService(e[2], [live[e] EXCEPT !.active = active])
        /\ PastChecks({})
        /\ UNCHANGED <<scope, draftVars>>

---------------------------------------------------------------------------

Editor ==
    \/ UpsertTopic \/ UpsertTariff \/ UpsertProduct \/ UpsertZone \/ UpsertSpecialist \/ UpsertService
    \/ PatchContacts \/ PatchPolicies \/ PatchTariffInfo \/ PatchConfig
    \/ DeleteTopic \/ DeleteTariff \/ DeleteProduct \/ DeleteZone \/ DeleteSpecialist \/ DeleteService
    \/ ClearDraft

MCP(c) ==
    \/ MCPUpsertTopic(c) \/ MCPUpsertProduct(c) \/ MCPUpsertTariff(c) \/ MCPUpsertContacts(c)
    \/ MCPUpsertPolicies(c) \/ MCPUpsertTariffInfo(c) \/ MCPUpsertDeliveryZone(c)
    \/ MCPUpsertSpecialist(c) \/ MCPUpsertService(c) \/ MCPUpsertAssistant(c)
    \/ MCPAttachMedia(c) \/ MCPDelete(c)

Live ==
    \/ PutLiveTopic \/ PutLiveTariff \/ PutLiveProduct \/ PutLiveSpecialist \/ PutLiveZone \/ PutLiveService
    \/ DeleteLiveTopic \/ DeleteLiveTariff \/ DeleteLiveProduct \/ DeleteLiveSpecialist
    \/ DeleteLiveZone \/ DeleteLiveService
    \/ SetLiveSpecialistSalesStatus \/ SetLiveServiceSalesStatus
    \/ PatchLiveContacts \/ PatchLivePolicies \/ PatchLiveTariffInfo \/ PatchLiveConfig
    \/ DeleteLiveContacts \/ DeleteLivePolicies \/ DeleteLiveTariffInfo \/ DeleteLiveConfig

Next ==
    \/ Editor
    \/ Live
    \/ \E c \in Clients : DraftBaseVersion(c) \/ MCP(c) \/ CancelChange(c) \/ ApproveVersioned(c)

Spec == Init /\ [][Next]_vars

---------------------------------------------------------------------------

\* The prompt catalog can be built from the live rows, whoever wrote them and
\* in whatever order: a catalog that cannot be built fails every reply of the
\* organization (aiprompt BuildCatalog; the gate of ApproveVersioned and the
\* checks of the direct writes exist for this).  A part is excused from the
\* one of the three writes above that broke it until it builds again.
KBBuilds ==
    /\ \A part \in Parts \ gaps : PartBuilds(part, live)
    /\ \A k \in Keys : Has(live, Topic(k)) => GateTopicBody(live[Topic(k)])

\* What an approval takes out of the draft is live afterwards: the deletions
\* it carries do not remove an edit staged after them (ApproveVersioned
\* applies the deletions last; the MCP writes take the mark away).  Excused is
\* an edit the manual editor saved over a mark: it is published and removed.
ApprovedEditsSurvive ==
    [][\A c \in Clients : ApproveVersioned(c) =>
          \A e \in Entities \ resaved : Has(draft, e) /\ ~Has(draft', e) => live'[e] = draft[e]]_vars

\* A client that sends the version it read never lands its write on a draft
\* somebody wrote in between (writeDraftBlobVersioned, ErrStale).
NoSilentOverwrite == ~overwrote
=============================================================================

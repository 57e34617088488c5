--------------------------- MODULE KnowledgeProofs ---------------------------
(***************************************************************************)
(* Proofs about the knowledge base, for any keys, clients and scopes, and  *)
(* about the cache that replies read it through (at the end).              *)
(*                                                                         *)
(* What the gate judges is what approval leaves, except for a deletion of  *)
(* the policies row and for an entity both staged and marked, and only an  *)
(* editor's save makes one (Separate).  The approval records both in gaps, *)
(* so that a part it does not record builds; Separate is also what an      *)
(* approved edit survives by.                                              *)
(***************************************************************************)
EXTENDS Knowledge, PromptCache, TLAPS

ScopeIsEntities == scope \subseteq Entities

BaseIsOld ==
    \A c \in Clients :
        /\ base[c] \in Nat => base[c] <= version
        /\ base[c] = version => ~moved[c]

\* What is both staged and marked, the editor saved over its mark.
Separate ==
    /\ \A e \in Entities : Has(draft, e) /\ e \in marked => e \in resaved
    /\ \A e \in marked : KindOf(e) # "config"

\* A row of every entity that has one.
Typed(w) ==
    /\ w \in [Entities -> Rows \cup {NoRow}]
    /\ \A e \in Entities : w[e] \in RowsOf(e) \cup {NoRow}

Apart(d, m, saves) ==
    /\ \A e \in Entities : Has(d, e) /\ e \in m => e \in resaved \cup saves
    /\ \A e \in m : KindOf(e) # "config"

\* A draft a step may leave: well formed, and separate when it was.
Sound(d, m, saves) ==
    /\ Typed(d)
    /\ m \subseteq Entities
    /\ saves \subseteq Entities
    /\ Separate => Apart(d, m, saves)

\* A client's write of the draft, and an editor's.
ClientWrites(c) ==
    \E conditional \in BOOLEAN : \E d, m : WriteDraftBlobVersioned(c, conditional, d, m) /\ Sound(d, m, {})
EditorWrites == \E d, m, saves : WriteDraftBlob(d, m, saves) /\ Sound(d, m, saves)

---------------------------------------------------------------------------
(* Rows.                                                                   *)

LEMMA RowsOfAreRows == \A e \in Entities : RowsOf(e) \subseteq Rows
  BY DEF RowsOf, Rows

LEMMA ScopesAreEntities == TypeOK => scope \subseteq Entities
  BY ScopesAssumption DEF TypeOK

LEMMA KindsOfRows ==
    \A e \in Entities :
        /\ KindOf(e) = "topics" => RowsOf(e) = TopicRows
        /\ KindOf(e) = "delivery_zones" => RowsOf(e) = ZoneRows
        /\ KindOf(e) = "specialists" => RowsOf(e) = SpecialistRows
        /\ KindOf(e) = "services" => RowsOf(e) = ServiceRows
        /\ KindOf(e) = "policies" => RowsOf(e) = PolicyRows
        /\ KindOf(e) \in {"tariffs", "products", "contacts", "tariff_info", "config"}
             => RowsOf(e) = PlainRows
  BY DEF RowsOf

LEMMA EntitiesByKind ==
    /\ \A k \in Keys : /\ Service(k) \in Entities /\ Zone(k) \in Entities
                       /\ Topic(k) \in Entities /\ Specialist(k) \in Entities
    /\ Policies \in Entities
    /\ \A e \in Entities : KindOf(e) = "services" => e[2] \in Keys /\ e = Service(e[2])
    /\ \A e \in Entities : KindOf(e) = "delivery_zones" => e[2] \in Keys /\ e = Zone(e[2])
    /\ \A e \in Entities : KindOf(e) = "topics" => e[2] \in Keys /\ e = Topic(e[2])
    /\ \A e \in Entities : KindOf(e) = "policies" => e = Policies
    /\ \A k : /\ KindOf(Service(k)) = "services" /\ KindOf(Zone(k)) = "delivery_zones"
              /\ KindOf(Topic(k)) = "topics" /\ KindOf(Specialist(k)) = "specialists"
    /\ KindOf(Policies) = "policies"
  BY DEF Entities, Listed, Singletons, ConfigFields, Main, Service, Zone, Topic, Specialist, Policies, KindOf

---------------------------------------------------------------------------
(* What the writers of the draft do to it.                                 *)

LEMMA PutTyped ==
  ASSUME NEW w, Typed(w), NEW e \in Entities, NEW row \in RowsOf(e) \cup {NoRow}
  PROVE  Typed([w EXCEPT ![e] = row])
  BY RowsOfAreRows DEF Typed

LEMMA RowsAreThere == ASSUME NEW e \in Entities PROVE NoRow \notin RowsOf(e)
  BY RowsOfAreRows, NoRowIsNotARow

LEMMA PatchTyped ==
  ASSUME NEW w, Typed(w), TypeOK, NEW patch \in ConfigPatches
  PROVE  /\ Typed(Patched(w, patch))
         /\ \A e \in DOMAIN patch : e \in Entities /\ KindOf(e) = "config"
<1>1. PICK fields \in SUBSET Of("config") : patch \in [fields -> PlainRows]
  BY DEF ConfigPatches
<1>2. \A e \in DOMAIN patch : e \in Entities /\ KindOf(e) = "config" /\ patch[e] \in RowsOf(e)
  BY <1>1, ScopesAreEntities, KindsOfRows DEF Of
<1> QED
  BY <1>2, RowsOfAreRows DEF Typed, Patched

LEMMA StageIsSound ==
  ASSUME TypeOK, NEW e \in scope, NEW row \in RowsOf(e), Stage(e, row)
  PROVE  EditorWrites /\ OnlyTheDraft
<1>1. e \in Entities /\ Typed(draft)
  BY ScopesAreEntities DEF TypeOK, Typed
<1>2. Typed([draft EXCEPT ![e] = row])
  BY <1>1, PutTyped
<1>3. Separate => Apart([draft EXCEPT ![e] = row], marked, {e})
  BY <1>1 DEF Stage, Separate, Apart, Has, Typed
<1>4. Sound([draft EXCEPT ![e] = row], marked, {e})
  BY <1>1, <1>2, <1>3 DEF Sound, TypeOK
<1> QED
  BY <1>4 DEF Stage, EditorWrites

LEMMA UnstageIsSound ==
  ASSUME TypeOK, NEW e \in scope, KindOf(e) \notin {"policies", "config"}, Unstage(e)
  PROVE  EditorWrites /\ OnlyTheDraft
<1>1. e \in Entities /\ Typed(draft)
  BY ScopesAreEntities DEF TypeOK, Typed
<1>2. Typed([draft EXCEPT ![e] = NoRow])
  BY <1>1, PutTyped
<1>3. Separate => Apart([draft EXCEPT ![e] = NoRow], marked \cup {e}, {})
  BY <1>1, EntitiesByKind DEF Separate, Apart, Has, Typed
<1> QED
  BY <1>1, <1>2, <1>3, EntitiesByKind DEF Unstage, EditorWrites, Sound, TypeOK

LEMMA McpStageIsSound ==
  ASSUME TypeOK, NEW c \in Clients, NEW e \in scope, NEW row \in RowsOf(e), McpStage(c, e, row)
  PROVE  ClientWrites(c) /\ OnlyTheDraft
<1>1. e \in Entities /\ Typed(draft)
  BY ScopesAreEntities DEF TypeOK, Typed
<1>2. Typed([draft EXCEPT ![e] = row])
  BY <1>1, PutTyped
<1>3. Separate => Apart([draft EXCEPT ![e] = row], marked \ {e}, {})
  BY <1>1 DEF Separate, Apart, Has, Typed
<1> QED
  BY <1>2, <1>3 DEF McpStage, ClientWrites, Sound, TypeOK

LEMMA EditorIsSound == ASSUME TypeOK, Editor PROVE EditorWrites /\ OnlyTheDraft
<1>1. \A kind : \A e \in Of(kind) : e \in scope /\ e \in Entities /\ KindOf(e) = kind
  BY ScopesAreEntities DEF Of
<1>2. ASSUME \E e \in scope : \E row \in RowsOf(e) : Stage(e, row)
      PROVE  EditorWrites /\ OnlyTheDraft
  BY <1>2, StageIsSound
<1>3. ASSUME \E e \in scope : KindOf(e) \notin {"policies", "config"} /\ Unstage(e)
      PROVE  EditorWrites /\ OnlyTheDraft
  BY <1>3, UnstageIsSound
<1>4. CASE UpsertTopic \/ UpsertTariff \/ UpsertProduct \/ UpsertZone \/ UpsertSpecialist
           \/ UpsertService \/ PatchContacts \/ PatchPolicies \/ PatchTariffInfo
  <2>1. \E e \in scope : \E row \in RowsOf(e) : Stage(e, row)
    BY <1>1, <1>4, KindsOfRows
       DEF UpsertTopic, UpsertTariff, UpsertProduct, UpsertZone, UpsertSpecialist, UpsertService,
           PatchContacts, PatchPolicies, PatchTariffInfo
  <2> QED
    BY <1>2, <2>1
<1>5. CASE DeleteTopic \/ DeleteTariff \/ DeleteProduct \/ DeleteZone \/ DeleteSpecialist \/ DeleteService
  <2>1. \E e \in scope : KindOf(e) \notin {"policies", "config"} /\ Unstage(e)
    BY <1>1, <1>5, EntitiesByKind
       DEF DeleteTopic, DeleteTariff, DeleteProduct, DeleteZone, DeleteSpecialist, DeleteService
  <2> QED
    BY <1>3, <2>1
<1>6. CASE PatchConfig
  <2>1. PICK patch \in ConfigPatches : WriteDraftBlob(Patched(draft, patch), marked, {}) /\ OnlyTheDraft
    BY <1>6 DEF PatchConfig
  <2>2. Typed(draft) /\ marked \subseteq Entities
    BY DEF TypeOK, Typed
  <2>3. /\ Typed(Patched(draft, patch))
        /\ \A e \in DOMAIN patch : e \in Entities /\ KindOf(e) = "config"
    BY <2>2, PatchTyped
  <2>4. Separate => Apart(Patched(draft, patch), marked, {})
    BY <2>3 DEF Separate, Apart, Has, Patched
  <2> QED
    BY <2>1, <2>2, <2>3, <2>4 DEF EditorWrites, Sound
<1>7. CASE ClearDraft
  BY <1>7 DEF ClearDraft, EditorWrites, Sound, Apart, Has, Empty, Typed
<1> QED
  BY <1>4, <1>5, <1>6, <1>7 DEF Editor

LEMMA MCPIsSound ==
  ASSUME TypeOK, NEW c \in Clients, MCP(c)
  PROVE  ClientWrites(c) /\ OnlyTheDraft
<1>1. \A kind : \A e \in Of(kind) : e \in scope /\ e \in Entities /\ KindOf(e) = kind
  BY ScopesAreEntities DEF Of
<1>2. Typed(draft) /\ Typed(live) /\ marked \subseteq Entities
  BY DEF TypeOK, Typed
<1>3. ASSUME \E e \in scope : \E row \in RowsOf(e) : McpStage(c, e, row)
      PROVE  ClientWrites(c) /\ OnlyTheDraft
  BY <1>3, McpStageIsSound
<1>4. CASE MCPUpsertTopic(c) \/ MCPUpsertProduct(c) \/ MCPUpsertTariff(c) \/ MCPUpsertContacts(c)
           \/ MCPUpsertPolicies(c) \/ MCPUpsertTariffInfo(c) \/ MCPUpsertDeliveryZone(c)
           \/ MCPUpsertSpecialist(c) \/ MCPUpsertService(c)
  <2>1. \E e \in scope : \E row \in RowsOf(e) : McpStage(c, e, row)
    BY <1>1, <1>4, KindsOfRows
       DEF MCPUpsertTopic, MCPUpsertProduct, MCPUpsertTariff, MCPUpsertContacts, MCPUpsertPolicies,
           MCPUpsertTariffInfo, MCPUpsertDeliveryZone, MCPUpsertSpecialist, MCPUpsertService
  <2> QED
    BY <1>3, <2>1
<1>5. CASE MCPUpsertAssistant(c)
  <2>1. PICK patch \in ConfigPatches : \E conditional \in BOOLEAN :
           WriteDraftBlobVersioned(c, conditional, Patched(draft, patch), marked) /\ OnlyTheDraft
    BY <1>5 DEF MCPUpsertAssistant
  <2>2. /\ Typed(Patched(draft, patch))
        /\ \A e \in DOMAIN patch : e \in Entities /\ KindOf(e) = "config"
    BY <1>2, PatchTyped
  <2>3. Separate => Apart(Patched(draft, patch), marked, {})
    BY <2>2 DEF Separate, Apart, Has, Patched
  <2> QED
    BY <1>2, <2>1, <2>2, <2>3 DEF ClientWrites, Sound
<1>6. CASE MCPAttachMedia(c)
  <2>1. PICK e \in scope :
          /\ KindOf(e) \in {"topics", "products", "tariffs", "specialists", "contacts", "policies"}
          /\ \E row \in IF Current(draft, e) # NoRow THEN {Current(draft, e)}
                        ELSE IF KindOf(e) \in Singletons THEN BlankRow(e) ELSE {} :
                McpStage(c, e, row)
    BY <1>6 DEF MCPAttachMedia
  <2>2. e \in Entities
    BY ScopesAreEntities
  <2>3. Current(draft, e) # NoRow => Current(draft, e) \in RowsOf(e)
    BY <1>2, <2>2 DEF Typed, Current
  <2>4. KindOf(e) \in Singletons => BlankRow(e) \subseteq RowsOf(e)
    BY <2>1, <2>2, KindsOfRows DEF BlankRow, Singletons, PolicyRows
  <2> QED
    BY <1>3, <2>1, <2>3, <2>4
<1>7. CASE MCPDelete(c)
  <2>1. PICK e \in scope : \E conditional \in BOOLEAN :
          /\ KindOf(e) # "config"
          /\ WriteDraftBlobVersioned(c, conditional, [draft EXCEPT ![e] = NoRow],
                                     IF Has(live, e) THEN marked \cup {e} ELSE marked)
          /\ OnlyTheDraft
    BY <1>7 DEF MCPDelete
  <2> DEFINE m == IF Has(live, e) THEN marked \cup {e} ELSE marked
  <2>2. e \in Entities
    BY ScopesAreEntities
  <2>3. Typed([draft EXCEPT ![e] = NoRow]) /\ m \subseteq Entities
    BY <1>2, <2>2, PutTyped
  <2>4. Separate => Apart([draft EXCEPT ![e] = NoRow], m, {})
    BY <1>2, <2>1, <2>2 DEF Separate, Apart, Has, Typed
  <2>5. Sound([draft EXCEPT ![e] = NoRow], m, {})
    BY <2>3, <2>4 DEF Sound
  <2> QED
    BY <2>1, <2>5 DEF ClientWrites
<1> QED
  BY <1>4, <1>5, <1>6, <1>7 DEF MCP

LEMMA CancelIsSound ==
  ASSUME TypeOK, NEW c \in Clients, CancelChange(c)
  PROVE  ClientWrites(c) /\ OnlyTheDraft
<1>1. PICK S, staged : \E conditional \in BOOLEAN :
        WriteDraftBlobVersioned(c, conditional, Without(staged), marked \ S) /\ OnlyTheDraft
  BY DEF CancelChange
<1>2. Typed(draft) /\ marked \subseteq Entities
  BY DEF TypeOK, Typed
<1>3. Typed(Without(staged)) /\ (Separate => Apart(Without(staged), marked \ S, {}))
  BY <1>2 DEF Typed, Without, Separate, Apart, Has
<1> QED
  BY <1>1, <1>2, <1>3 DEF ClientWrites, Sound

LEMMA ApproveIsSound ==
  ASSUME TypeOK, NEW c \in Clients, ApproveVersioned(c)
  PROVE  ClientWrites(c) /\ Typed(live')
<1>1. PICK S : /\ live' = Materialized(live, Selected(S), marked \cap S)
               /\ \E conditional \in BOOLEAN :
                     WriteDraftBlobVersioned(c, conditional, Without(S), marked \ S)
  BY DEF ApproveVersioned
<1>2. Typed(draft) /\ Typed(live) /\ marked \subseteq Entities
  BY DEF TypeOK, Typed
<1>3. Typed(Without(S)) /\ (Separate => Apart(Without(S), marked \ S, {}))
  BY <1>2 DEF Typed, Without, Separate, Apart, Has
<1>4. Typed(live')
  BY <1>1, <1>2 DEF Typed, Materialized, Selected, Has
<1> QED
  BY <1>1, <1>2, <1>3, <1>4 DEF ClientWrites, Sound

---------------------------------------------------------------------------
(* What the direct writes do to the live rows.                             *)

Puts(e, row) == Put(e, row) /\ e \in Entities /\ row \in RowsOf(e) \cup {NoRow}

PlainKinds == {"tariffs", "products", "specialists", "contacts", "tariff_info", "config"}

\* A write that leaves services, zones, policies and topics alone.
PlainWrite ==
    /\ \A e \in Entities : KindOf(e) \notin PlainKinds => live'[e] = live[e]
    /\ Typed(live')
    /\ PastChecks({})
    /\ UNCHANGED <<scope, draftVars>>

LEMMA PutIsTyped ==
  ASSUME TypeOK, NEW e, NEW row, Puts(e, row)
  PROVE  Typed(live') /\ PastChecks({}) /\ UNCHANGED <<scope, draftVars>>
<1>1. Typed(live)
  BY DEF TypeOK, Typed
<1> QED
  BY <1>1, PutTyped DEF Puts, Put

LEMMA PlainPut ==
  ASSUME TypeOK, NEW e, NEW row, Puts(e, row), KindOf(e) \in PlainKinds
  PROVE  PlainWrite
<1>1. live \in [Entities -> Rows \cup {NoRow}]
  BY DEF TypeOK
<1> QED
  BY <1>1, PutIsTyped DEF PlainWrite, Puts, Put

PlainLive ==
    \/ PutLiveTariff \/ PutLiveProduct \/ PutLiveSpecialist
    \/ DeleteLiveTariff \/ DeleteLiveProduct \/ DeleteLiveSpecialist
    \/ SetLiveSpecialistSalesStatus
    \/ PatchLiveContacts \/ PatchLiveTariffInfo \/ PatchLiveConfig
    \/ DeleteLiveContacts \/ DeleteLiveTariffInfo \/ DeleteLiveConfig

LEMMA PlainLiveIsPlain == ASSUME TypeOK, PlainLive PROVE PlainWrite
<1>1. \A kind : \A e \in Of(kind) : e \in Entities /\ KindOf(e) = kind
  BY ScopesAreEntities DEF Of
<1>2. Typed(live)
  BY DEF TypeOK, Typed
<1>3. CASE PutLiveTariff \/ PutLiveProduct \/ PutLiveSpecialist \/ PatchLiveContacts \/ PatchLiveTariffInfo
           \/ DeleteLiveTariff \/ DeleteLiveProduct \/ DeleteLiveSpecialist
           \/ DeleteLiveContacts \/ DeleteLiveTariffInfo
  <2>1. \E e, row : Puts(e, row) /\ KindOf(e) \in PlainKinds
    BY <1>1, <1>3, KindsOfRows
       DEF PutLiveTariff, PutLiveProduct, PutLiveSpecialist, PatchLiveContacts, PatchLiveTariffInfo,
           DeleteLiveTariff, DeleteLiveProduct, DeleteLiveSpecialist, DeleteLiveContacts,
           DeleteLiveTariffInfo, Puts, PlainKinds
  <2> QED
    BY <2>1, PlainPut
<1>4. CASE SetLiveSpecialistSalesStatus
  <2>1. PICK e \in Of("specialists"), active \in BOOLEAN :
          Has(live, e) /\ Put(e, [live[e] EXCEPT !.active = active])
    BY <1>4 DEF SetLiveSpecialistSalesStatus
  <2>2. live[e] \in SpecialistRows
    BY <1>1, <1>2, <2>1, KindsOfRows DEF Typed, Has
  <2>3. [live[e] EXCEPT !.active = active] \in SpecialistRows
    BY <2>2 DEF SpecialistRows
  <2> QED
    BY <1>1, <2>1, <2>3, KindsOfRows, PlainPut DEF Puts, PlainKinds
<1>5. CASE PatchLiveConfig
  <2>1. PICK patch \in ConfigPatches : live' = Patched(live, patch) /\ PastChecks({}) /\ UNCHANGED <<scope, draftVars>>
    BY <1>5 DEF PatchLiveConfig
  <2> QED
    BY <1>2, <2>1, PatchTyped DEF PlainWrite, Patched, PlainKinds
<1>6. CASE DeleteLiveConfig
  BY <1>2, <1>6 DEF DeleteLiveConfig, PlainWrite, PlainKinds, Typed
<1> QED
  BY <1>3, <1>4, <1>5, <1>6 DEF PlainLive

---------------------------------------------------------------------------
(* The prompt catalog looks at services, zones, policies and topics only.  *)

LEMMA ServicesDecide ==
  ASSUME NEW w, NEW u, \A k \in Keys : w[Service(k)] = u[Service(k)], BuildServiceFacts(w),
         \A k \in Keys : Has(w, Service(k)) => w[Service(k)].parent \in Keys \cup {None}
  PROVE  BuildServiceFacts(u)
  BY DEF BuildServiceFacts, Has

LEMMA ZonesDecide ==
  ASSUME NEW w, NEW u, \A k \in Keys : w[Zone(k)] = u[Zone(k)], w[Policies] = u[Policies],
         BuildDeliveryZoneFacts(w)
  PROVE  BuildDeliveryZoneFacts(u)
<1>1. ZonesOf(w) = ZonesOf(u) /\ ZonesOf(u) \subseteq Keys
  BY DEF ZonesOf, Has
<1>2. Cyclic(u) => Cyclic(w)
  BY <1>1 DEF Cyclic
<1> QED
  BY <1>1, <1>2 DEF BuildDeliveryZoneFacts, Has

\* The gates refuse exactly what building the catalog refuses.
LEMMA GatesAreTheBuild ==
  ASSUME NEW w
  PROVE  /\ ~ServiceGateReasons(w) <=> BuildServiceFacts(w)
         /\ ~ZoneGateReasons(w) <=> BuildDeliveryZoneFacts(w)
<1>1. ~ServiceGateReasons(w) <=> BuildServiceFacts(w)
  BY DEF ServiceGateReasons, BuildServiceFacts
<1>2. ~ZoneGateReasons(w) <=> BuildDeliveryZoneFacts(w)
  <2>1. CASE ZonesOf(w) = {}
    <3>1. ~Cyclic(w)
      BY <2>1 DEF Cyclic
    <3> QED
      BY <2>1, <3>1 DEF ZoneGateReasons, BuildDeliveryZoneFacts
  <2>2. CASE ZonesOf(w) # {}
    BY <2>2 DEF ZoneGateReasons, BuildDeliveryZoneFacts
  <2> QED
    BY <2>1, <2>2
<1> QED
  BY <1>1, <1>2

TopicsArePlain(w) == \A k \in Keys : Has(w, Topic(k)) => GateTopicBody(w[Topic(k)])

LEMMA ServiceRowsOf ==
  ASSUME NEW w, Typed(w), NEW k \in Keys
  PROVE  /\ w[Service(k)] \in ServiceRows \cup {NoRow}
         /\ Has(w, Service(k)) => /\ w[Service(k)].parent \in Keys \cup {None}
                                  /\ w[Service(k)].active \in BOOLEAN
<1>1. w[Service(k)] \in ServiceRows \cup {NoRow}
  BY EntitiesByKind, KindsOfRows DEF Typed
<1> QED
  BY <1>1 DEF Has, ServiceRows

\* A service may be written when its children and its parent allow it.
Fits(k, row) ==
    row.parent # None =>
        /\ \A child \in Keys : Has(live, Service(child)) => live[Service(child)].parent # k
        /\ row.parent # k
        /\ Has(live, Service(row.parent))
        /\ live[Service(row.parent)].parent = None
        /\ row.active => live[Service(row.parent)].active

LEMMA WithServiceRows ==
  ASSUME TypeOK, NEW k \in Keys, NEW row \in ServiceRows
  PROVE  /\ Typed(WithService(k, row))
         /\ \A e \in Entities : KindOf(e) # "services" => WithService(k, row)[e] = live[e]
         /\ WithService(k, row)[Service(k)] = row
         /\ \A j \in Keys : j # k =>
               /\ Has(WithService(k, row), Service(j)) <=> Has(live, Service(j))
               /\ Has(live, Service(j)) =>
                     /\ WithService(k, row)[Service(j)].parent = live[Service(j)].parent
                     /\ WithService(k, row)[Service(j)].active => live[Service(j)].active
                     /\ live[Service(j)].parent # k =>
                           WithService(k, row)[Service(j)].active = live[Service(j)].active
                     /\ /\ live[Service(j)].parent = k
                        /\ row.parent = None /\ ~row.active
                        /\ Has(live, Service(k)) /\ live[Service(k)].active
                        => ~WithService(k, row)[Service(j)].active
<1> DEFINE w == [live EXCEPT ![Service(k)] = row]
<1>1. Typed(live)
  BY DEF TypeOK, Typed
<1>2. Service(k) \in Entities /\ row \in RowsOf(Service(k))
  BY EntitiesByKind, KindsOfRows
<1>3. Typed(w)
  BY <1>1, <1>2, PutTyped
<1>4. \A j \in Keys : /\ Service(j) \in Entities
                      /\ KindOf(Service(j)) = "services"
                      /\ w[Service(j)] \in ServiceRows \cup {NoRow}
                      /\ live[Service(j)] \in ServiceRows \cup {NoRow}
                      /\ j # k => Service(j) # Service(k)
  BY <1>1, <1>3, ServiceRowsOf, EntitiesByKind DEF Service
<1>5. w[Service(k)] = row /\ \A e \in Entities : e # Service(k) => w[e] = live[e]
  BY <1>1, <1>2 DEF Typed
<1>w. \A j \in Keys : Archived(w, k)[Service(j)] =
         IF w[Service(j)] # NoRow /\ w[Service(j)].parent = k
         THEN [w[Service(j)] EXCEPT !.active = FALSE] ELSE w[Service(j)]
  <2> HIDE DEF w
  <2> QED
    BY <1>4 DEF Archived
<1>6. \A r \in ServiceRows : /\ [r EXCEPT !.active = FALSE] \in ServiceRows
                             /\ [r EXCEPT !.active = FALSE].parent = r.parent
                             /\ ~[r EXCEPT !.active = FALSE].active
                             /\ r # NoRow /\ [r EXCEPT !.active = FALSE] # NoRow
  BY NoRowIsNotARow DEF ServiceRows, Rows
<1>7. /\ Typed(Archived(w, k))
      /\ \A e \in Entities : KindOf(e) # "services" => Archived(w, k)[e] = live[e]
  <2>1. \A e \in Entities : Archived(w, k)[e] \in RowsOf(e) \cup {NoRow}
    <3> SUFFICES ASSUME NEW e \in Entities PROVE Archived(w, k)[e] \in RowsOf(e) \cup {NoRow}
      OBVIOUS
    <3>1. w[e] \in RowsOf(e) \cup {NoRow}
      BY <1>3 DEF Typed
    <3>2. KindOf(e) = "services" => RowsOf(e) = ServiceRows
      BY KindsOfRows
    <3> QED
      BY <3>1, <3>2, <1>6 DEF Archived
  <2>2. Typed(Archived(w, k))
    BY <2>1, RowsOfAreRows DEF Typed, Archived
  <2> QED
    BY <2>2, <1>5, EntitiesByKind DEF Archived
<1>8. row.parent = None => Archived(w, k)[Service(k)] = row
  BY <1>2, <1>4, <1>5, NoneIsNotAKey DEF Archived
<1>9. CASE WithService(k, row) = w
  <2>1. ~(row.parent = None /\ ~row.active /\ Has(live, Service(k)) /\ live[Service(k)].active)
        \/ Archived(w, k) = w
    BY <1>9 DEF WithService
  <2>2. \A j \in Keys : j # k => w[Service(j)] = live[Service(j)]
    BY <1>4, <1>5
  <2>3. ASSUME Archived(w, k) = w, NEW j \in Keys, j # k, Has(live, Service(j)), live[Service(j)].parent = k
        PROVE  ~w[Service(j)].active
    <3>1. w[Service(j)] \in ServiceRows /\ w[Service(j)].parent = k /\ w[Service(j)] # NoRow
      BY <2>2, <2>3, <1>4 DEF Has
    <3>2. Archived(w, k)[Service(j)] = [w[Service(j)] EXCEPT !.active = FALSE]
      BY <3>1, <1>w
    <3> HIDE DEF w
    <3>3. w[Service(j)] = [w[Service(j)] EXCEPT !.active = FALSE]
      BY <3>2, <2>3
    <3> QED
      BY <3>1, <3>3, <1>6
  <2> QED
    BY <2>1, <2>2, <2>3, <1>3, <1>5, <1>9, EntitiesByKind DEF Has
<1>10. CASE WithService(k, row) = Archived(w, k) /\ row.parent = None
  <2> SUFFICES ASSUME NEW j \in Keys, j # k
               PROVE  /\ Has(Archived(w, k), Service(j)) <=> Has(live, Service(j))
                      /\ Has(live, Service(j)) =>
                            /\ Archived(w, k)[Service(j)].parent = live[Service(j)].parent
                            /\ Archived(w, k)[Service(j)].active => live[Service(j)].active
                            /\ live[Service(j)].parent # k =>
                                  Archived(w, k)[Service(j)].active = live[Service(j)].active
                            /\ live[Service(j)].parent = k => ~Archived(w, k)[Service(j)].active
    BY <1>7, <1>8, <1>10
  <2>1. w[Service(j)] = live[Service(j)] /\ live[Service(j)] \in ServiceRows \cup {NoRow}
    BY <1>4, <1>5
  <2>2. Archived(w, k)[Service(j)] =
          IF live[Service(j)] # NoRow /\ live[Service(j)].parent = k
          THEN [live[Service(j)] EXCEPT !.active = FALSE] ELSE live[Service(j)]
    BY <2>1, <1>w
  <2> QED
    BY <2>1, <2>2, <1>6 DEF Has
<1> QED
  BY <1>9, <1>10 DEF WithService

LEMMA ServiceWriteBuilds ==
  ASSUME TypeOK, BuildServiceFacts(live), NEW k \in Keys, NEW row \in ServiceRows, Fits(k, row)
  PROVE  BuildServiceFacts(WithService(k, row))
<1> DEFINE w == WithService(k, row)
<1>1. \A j \in Keys : Has(live, Service(j)) =>
         live[Service(j)].parent \in Keys \cup {None} /\ live[Service(j)].active \in BOOLEAN
  BY ServiceRowsOf DEF TypeOK, Typed
<1>2. row.parent \in Keys \cup {None} /\ row.active \in BOOLEAN /\ Has(w, Service(k))
  BY WithServiceRows, NoRowIsNotARow DEF ServiceRows, Rows, Has
<1> SUFFICES ASSUME NEW j \in Keys, Has(w, Service(j)), w[Service(j)].parent # None
             PROVE  /\ Has(w, Service(w[Service(j)].parent))
                    /\ w[Service(w[Service(j)].parent)].parent = None
                    /\ w[Service(j)].active => w[Service(w[Service(j)].parent)].active
  BY DEF BuildServiceFacts
<1>3. CASE j = k
  <2>1. w[Service(j)] = row
    BY <1>3, WithServiceRows
  <2>2. /\ row.parent \in Keys /\ row.parent # k /\ Has(live, Service(row.parent))
        /\ live[Service(row.parent)].parent = None
        /\ row.active => live[Service(row.parent)].active
    BY <2>1, <1>2 DEF Fits
  <2>3. /\ Has(w, Service(row.parent)) /\ w[Service(row.parent)].parent = None
        /\ w[Service(row.parent)].active = live[Service(row.parent)].active
    BY <2>2, WithServiceRows, NoneIsNotAKey
  <2> QED
    BY <2>1, <2>2, <2>3
<1>4. CASE j # k
  <2> DEFINE par == live[Service(j)].parent
  <2>1. Has(live, Service(j)) /\ w[Service(j)].parent = par /\ par \in Keys
        /\ (w[Service(j)].active => live[Service(j)].active)
    BY <1>1, <1>4, WithServiceRows
  <2>2. /\ Has(live, Service(par)) /\ live[Service(par)].parent = None
        /\ live[Service(j)].active => live[Service(par)].active
    BY <2>1, NoneIsNotAKey DEF BuildServiceFacts
  <2>3. CASE par = k
    <3>1. row.parent = None
      BY <2>1, <2>3 DEF Fits
    <3>2. w[Service(par)] = row
      BY <2>3, WithServiceRows
    <3>3. w[Service(j)].active => row.active
      BY <1>2, <1>4, <2>1, <2>2, <2>3, <3>1, WithServiceRows
    <3> QED
      BY <2>1, <2>3, <3>1, <3>2, <3>3, <1>2
  <2>4. CASE par # k
    <3>1. /\ Has(w, Service(par)) /\ w[Service(par)].parent = None
          /\ w[Service(par)].active = live[Service(par)].active
      BY <2>1, <2>2, <2>4, WithServiceRows, NoneIsNotAKey
    <3> QED
      BY <2>1, <2>2, <3>1
  <2> QED
    BY <2>3, <2>4
<1> QED
  BY <1>3, <1>4

---------------------------------------------------------------------------
(* Every step keeps the knowledge base buildable.                          *)

\* A part that a write is not excused for builds if it did.
LEMMA GapsRecord ==
  ASSUME KBBuilds, NEW parts, PastChecks(parts), TopicsArePlain(live'),
         "services" \notin parts /\ BuildServiceFacts(live) => BuildServiceFacts(live'),
         "delivery_zones" \notin parts /\ BuildDeliveryZoneFacts(live) => BuildDeliveryZoneFacts(live')
  PROVE  KBBuilds' /\ gaps' \subseteq Parts
<1>1. \A part \in Parts \ gaps' : PartBuilds(part, live')
  BY DEF KBBuilds, PastChecks, Parts, PartBuilds
<1>2. gaps' \subseteq Parts
  BY DEF PastChecks
<1> QED
  BY <1>1, <1>2 DEF KBBuilds, TopicsArePlain

LEMMA OtherRowsBuild ==
  ASSUME TypeOK, KBBuilds, PlainWrite
  PROVE  KBBuilds' /\ gaps' \subseteq Parts
<1>1. \A k \in Keys : /\ live'[Service(k)] = live[Service(k)] /\ live'[Zone(k)] = live[Zone(k)]
                      /\ live'[Topic(k)] = live[Topic(k)]
  BY EntitiesByKind DEF PlainWrite, PlainKinds
<1>2. live'[Policies] = live[Policies]
  BY EntitiesByKind DEF PlainWrite, PlainKinds
<1>3. \A k \in Keys : Has(live, Service(k)) => live[Service(k)].parent \in Keys \cup {None}
  BY ServiceRowsOf DEF TypeOK, Typed
<1>4. BuildServiceFacts(live) => BuildServiceFacts(live')
  BY <1>1, <1>3, ServicesDecide
<1>5. BuildDeliveryZoneFacts(live) => BuildDeliveryZoneFacts(live')
  BY <1>1, <1>2, ZonesDecide
<1>6. TopicsArePlain(live')
  BY <1>1 DEF KBBuilds, TopicsArePlain, Has
<1> QED
  BY <1>4, <1>5, <1>6, GapsRecord DEF PlainWrite

LEMMA PutLeavesOthers ==
  ASSUME TypeOK, NEW e \in Entities, NEW row, Put(e, row)
  PROVE  /\ \A x \in Entities : KindOf(x) # KindOf(e) => live'[x] = live[x]
         /\ \A x \in Entities : x # e => live'[x] = live[x]
         /\ live'[e] = row
<1>1. live \in [Entities -> Rows \cup {NoRow}]
  BY DEF TypeOK
<1> QED
  BY <1>1 DEF Put

LEMMA LiveBuilds ==
  ASSUME TypeOK, KBBuilds, Live
  PROVE  KBBuilds' /\ gaps' \subseteq Parts /\ Typed(live') /\ UNCHANGED <<scope, draftVars>>
<1>1. \A kind : \A e \in Of(kind) : e \in Entities /\ KindOf(e) = kind
  BY ScopesAreEntities DEF Of
<1>2. Typed(live)
  BY DEF TypeOK, Typed
<1>3. \A k \in Keys : Has(live, Service(k)) => live[Service(k)].parent \in Keys \cup {None}
  BY <1>2, ServiceRowsOf
<1>4. CASE PlainLive
  BY <1>4, PlainLiveIsPlain, OtherRowsBuild DEF PlainWrite
<1>5. CASE PutLiveTopic \/ DeleteLiveTopic
  <2>1. PICK e, row : /\ e \in Entities /\ KindOf(e) = "topics" /\ row \in RowsOf(e) \cup {NoRow}
                      /\ Put(e, row) /\ (row # NoRow => GateTopicBody(row))
    BY <1>1, <1>5, KindsOfRows DEF PutLiveTopic, DeleteLiveTopic
  <2>2. Typed(live') /\ PastChecks({}) /\ UNCHANGED <<scope, draftVars>>
    BY <2>1, PutIsTyped DEF Puts
  <2>3. \A k \in Keys : live'[Service(k)] = live[Service(k)] /\ live'[Zone(k)] = live[Zone(k)]
    BY <2>1, PutLeavesOthers, EntitiesByKind
  <2>4. live'[Policies] = live[Policies]
    BY <2>1, PutLeavesOthers, EntitiesByKind
  <2>5. \A k \in Keys : live'[Topic(k)] = live[Topic(k)] \/ live'[Topic(k)] = row
    BY <2>1, PutLeavesOthers, EntitiesByKind
  <2>6. TopicsArePlain(live')
    BY <2>1, <2>5 DEF KBBuilds, TopicsArePlain, Has
  <2> QED
    BY <1>3, <2>2, <2>3, <2>4, <2>6, ServicesDecide, ZonesDecide, GapsRecord
<1>6. CASE PutLiveZone \/ DeleteLiveZone \/ PatchLivePolicies \/ DeleteLivePolicies
  <2>1. PICK e, row : /\ e \in Entities /\ KindOf(e) \in {"delivery_zones", "policies"}
                      /\ row \in RowsOf(e) \cup {NoRow}
                      /\ Put(e, row)
                      /\ ~ZoneGateReasons(live') \/ (e = Policies /\ ZonesOf(live) = {})
    BY <1>1, <1>6, KindsOfRows, EntitiesByKind
       DEF PutLiveZone, DeleteLiveZone, PatchLivePolicies, DeleteLivePolicies
  <2>2. Typed(live') /\ PastChecks({}) /\ UNCHANGED <<scope, draftVars>>
    BY <2>1, PutIsTyped DEF Puts
  <2>3. \A k \in Keys : live'[Service(k)] = live[Service(k)] /\ live'[Topic(k)] = live[Topic(k)]
    BY <2>1, PutLeavesOthers, EntitiesByKind
  <2>4. BuildDeliveryZoneFacts(live')
    <3>1. CASE ~ZoneGateReasons(live')
      BY <3>1, GatesAreTheBuild
    <3>2. CASE e = Policies /\ ZonesOf(live) = {}
      <4>1. \A k \in Keys : live'[Zone(k)] = live[Zone(k)]
        BY <2>1, <3>2, PutLeavesOthers, EntitiesByKind
      <4>2. ZonesOf(live') = {}
        BY <3>2, <4>1 DEF ZonesOf, Has
      <4> QED
        BY <4>2 DEF BuildDeliveryZoneFacts
    <3> QED
      BY <2>1, <3>1, <3>2
  <2>5. TopicsArePlain(live')
    BY <2>3 DEF KBBuilds, TopicsArePlain, Has
  <2> QED
    BY <1>3, <2>2, <2>3, <2>4, <2>5, ServicesDecide, GapsRecord
<1>7. ASSUME NEW k \in Keys, NEW row \in ServiceRows, NEW parts, PastChecks(parts),
             "services" \notin parts /\ BuildServiceFacts(live) => Fits(k, row),
             live' = WithService(k, row), UNCHANGED <<scope, draftVars>>
      PROVE  KBBuilds' /\ gaps' \subseteq Parts /\ Typed(live') /\ UNCHANGED <<scope, draftVars>>
  <2>1. "services" \notin parts /\ BuildServiceFacts(live) => BuildServiceFacts(live')
    BY <1>7, ServiceWriteBuilds
  <2>2. Typed(live') /\ \A e \in Entities : KindOf(e) # "services" => live'[e] = live[e]
    BY <1>7, WithServiceRows
  <2>3. \A j \in Keys : live'[Zone(j)] = live[Zone(j)] /\ live'[Topic(j)] = live[Topic(j)]
    BY <2>2, EntitiesByKind
  <2>4. live'[Policies] = live[Policies]
    BY <2>2, EntitiesByKind
  <2>5. TopicsArePlain(live')
    BY <2>3 DEF KBBuilds, TopicsArePlain, Has
  <2> QED
    BY <1>7, <2>1, <2>2, <2>3, <2>4, <2>5, ZonesDecide, GapsRecord
<1>8. CASE PutLiveService
  <2>1. PICK e \in Of("services"), row \in ServiceRows :
          /\ ValidateService(Empty, {}, e[2], row)
          /\ live' = WithService(e[2], row)
          /\ PastChecks(IF row.parent = e[2] THEN {"services"} ELSE {})
          /\ UNCHANGED <<scope, draftVars>>
    BY <1>8 DEF PutLiveService
  <2>2. e[2] \in Keys
    BY <1>1, EntitiesByKind
  <2>3. \A x \in Entities : Current(Empty, x) = live[x] /\ ~Has(Empty, x)
    BY DEF Current, Empty, Has
  <2>4. row.parent \in Keys \cup {None}
    BY DEF ServiceRows
  <2>5. row.parent # e[2] => Fits(e[2], row)
    BY <2>1, <2>2, <2>3, <2>4, EntitiesByKind DEF Fits, ValidateService, HasServiceChildren, Has
  <2>6. CASE row.parent = e[2]
    <3>1. PastChecks({"services"})
      BY <2>1, <2>6
    <3> QED
      BY <1>7, <2>1, <2>2, <3>1
  <2>7. CASE row.parent # e[2]
    <3>1. PastChecks({})
      BY <2>1, <2>7
    <3> QED
      BY <1>7, <2>1, <2>2, <2>5, <2>7, <3>1
  <2> QED
    BY <2>6, <2>7
<1>9. CASE SetLiveServiceSalesStatus
  <2>1. PICK e \in Of("services"), active \in BOOLEAN :
          /\ Has(live, e)
          /\ active /\ live[e].parent # None =>
                /\ Has(live, Service(live[e].parent))
                /\ live[Service(live[e].parent)].active
          /\ live' = WithService(e[2], [live[e] EXCEPT !.active = active])
          /\ PastChecks({})
          /\ UNCHANGED <<scope, draftVars>>
    BY <1>9 DEF SetLiveServiceSalesStatus
  <2> DEFINE row == [live[e] EXCEPT !.active = active]
  <2>2. e[2] \in Keys /\ e = Service(e[2])
    BY <1>1, EntitiesByKind
  <2>3. live[e] \in ServiceRows
    BY <1>2, <2>1, <2>2, ServiceRowsOf DEF Has
  <2>4. row \in ServiceRows /\ row.parent = live[e].parent /\ row.active = active
    BY <2>3 DEF ServiceRows
  <2>5. BuildServiceFacts(live) => Fits(e[2], row)
    <3> SUFFICES ASSUME BuildServiceFacts(live), row.parent # None
                 PROVE  /\ \A child \in Keys : Has(live, Service(child)) => live[Service(child)].parent # e[2]
                        /\ row.parent # e[2]
                        /\ Has(live, Service(row.parent))
                        /\ live[Service(row.parent)].parent = None
                        /\ row.active => live[Service(row.parent)].active
      BY DEF Fits
    <3>1. live[e].parent # None /\ live[e].parent \in Keys
      BY <2>3, <2>4 DEF ServiceRows
    <3>2. Has(live, Service(live[e].parent)) /\ live[Service(live[e].parent)].parent = None
      BY <2>1, <2>2, <3>1 DEF BuildServiceFacts
    <3>3. \A child \in Keys : Has(live, Service(child)) => live[Service(child)].parent # e[2]
      BY <2>2, <3>1, NoneIsNotAKey DEF BuildServiceFacts
    <3> QED
      BY <2>1, <2>2, <2>4, <3>1, <3>2, <3>3
  <2> QED
    BY <1>7, <2>1, <2>2, <2>4, <2>5
<1>10. CASE DeleteLiveService
  <2>1. PICK e \in Of("services") :
          /\ \A child \in Keys : Has(live, Service(child)) => live[Service(child)].parent # e[2]
          /\ Put(e, NoRow)
    BY <1>10 DEF DeleteLiveService
  <2>2. e \in Entities /\ KindOf(e) = "services" /\ e[2] \in Keys /\ e = Service(e[2])
    BY <1>1, EntitiesByKind
  <2>3. Typed(live') /\ PastChecks({}) /\ UNCHANGED <<scope, draftVars>>
    BY <2>1, <2>2, PutIsTyped DEF Puts
  <2>4. \A k \in Keys : live'[Zone(k)] = live[Zone(k)] /\ live'[Topic(k)] = live[Topic(k)]
    BY <2>1, <2>2, PutLeavesOthers, EntitiesByKind
  <2>5. live'[Policies] = live[Policies]
    BY <2>1, <2>2, PutLeavesOthers, EntitiesByKind
  <2>6. live'[Service(e[2])] = NoRow /\ \A k \in Keys : k # e[2] => live'[Service(k)] = live[Service(k)]
    BY <2>1, <2>2, PutLeavesOthers, EntitiesByKind DEF Service
  <2>7. BuildServiceFacts(live) => BuildServiceFacts(live')
    BY <1>3, <2>1, <2>2, <2>6, NoneIsNotAKey DEF BuildServiceFacts, Has
  <2>8. TopicsArePlain(live')
    BY <2>4 DEF KBBuilds, TopicsArePlain, Has
  <2> QED
    BY <2>3, <2>4, <2>5, <2>7, <2>8, ZonesDecide, GapsRecord
<1> QED
  BY <1>4, <1>5, <1>6, <1>8, <1>9, <1>10 DEF Live, PlainLive

\* What an approval is not excused for is as the gate judged it.
LEMMA ApproveBuilds ==
  ASSUME TypeOK, Separate, KBBuilds, NEW c \in Clients, ApproveVersioned(c)
  PROVE  KBBuilds' /\ gaps' \subseteq Parts
<1>1. PICK S : /\ Passes(Selected(S), ResultingForGate(live, Selected(S), marked \cap S))
               /\ live' = Materialized(live, Selected(S), marked \cap S)
               /\ PastChecks({KindOf(e) : e \in S \cap resaved}
                                \cup IF Policies \in S \cap marked THEN {"delivery_zones"} ELSE {})
  BY DEF ApproveVersioned
<1> DEFINE judged == ResultingForGate(live, Selected(S), marked \cap S)
<1> DEFINE parts == {KindOf(e) : e \in S \cap resaved}
                      \cup IF Policies \in S \cap marked THEN {"delivery_zones"} ELSE {}
<1>2. \A e \in Entities : KindOf(e) \in Listed /\ KindOf(e) \notin parts => judged[e] = live'[e]
  BY <1>1 DEF ResultingForGate, Materialized, Selected, Separate, Has
<1>3. "delivery_zones" \notin parts => judged[Policies] = live'[Policies]
  BY <1>1, EntitiesByKind DEF ResultingForGate, Materialized, Selected, Has, Listed
<1>4. \A k \in Keys : Has(live', Topic(k)) => live'[Topic(k)] = judged[Topic(k)]
  BY <1>1, EntitiesByKind DEF ResultingForGate, Materialized, Selected, Has
<1>5. BuildServiceFacts(judged) /\ BuildDeliveryZoneFacts(judged) /\ Gate(judged)
  BY <1>1, GatesAreTheBuild DEF Passes
<1>6. Typed(live')
  BY ApproveIsSound
<1>7. PastChecks(parts)
  BY <1>1
<1> HIDE DEF judged, parts
<1>8. "services" \notin parts => BuildServiceFacts(live')
  <2> SUFFICES ASSUME "services" \notin parts PROVE BuildServiceFacts(live')
    OBVIOUS
  <2>1. \A k \in Keys : judged[Service(k)] = live'[Service(k)]
    BY <1>2, EntitiesByKind DEF Listed
  <2>2. \A k \in Keys : Has(judged, Service(k)) => judged[Service(k)].parent \in Keys \cup {None}
    BY <2>1, <1>6, ServiceRowsOf DEF Has
  <2> QED
    BY <1>5, <2>1, <2>2, ServicesDecide
<1>9. "delivery_zones" \notin parts => BuildDeliveryZoneFacts(live')
  <2> SUFFICES ASSUME "delivery_zones" \notin parts PROVE BuildDeliveryZoneFacts(live')
    OBVIOUS
  <2>1. \A k \in Keys : judged[Zone(k)] = live'[Zone(k)]
    BY <1>2, EntitiesByKind DEF Listed
  <2> QED
    BY <1>3, <1>5, <2>1, ZonesDecide
<1>10. TopicsArePlain(live')
  BY <1>4, <1>5 DEF Gate, TopicsArePlain, Has
<1> QED
  BY <1>7, <1>8, <1>9, <1>10, GapsRecord

---------------------------------------------------------------------------
(* The invariants.                                                         *)

IInv ==
    /\ TypeOK
    /\ BaseIsOld
    /\ NoSilentOverwrite
    /\ Separate
    /\ KBBuilds

LEMMA InitHolds == Init => IInv
<1> SUFFICES ASSUME Init PROVE IInv
  OBVIOUS
<1>1. TypeOK
  <2>1. Typed(Empty)
    <3>1. \A e \in Entities : Empty[e] = NoRow
      BY DEF Empty
    <3>2. Empty \in [Entities -> Rows \cup {NoRow}]
      BY DEF Empty
    <3> QED
      BY <3>1, <3>2 DEF Typed
  <2>2. scope \in Scopes /\ marked \subseteq Entities /\ version \in 0..MaxVersion
    BY VersionAssumption DEF Init
  <2>4. overwrote \in BOOLEAN
    BY DEF Init
  <2>3. base \in [Clients -> (0..MaxVersion) \cup {NoVersion}] /\ moved \in [Clients -> BOOLEAN]
    BY DEF Init
  <2> QED
    BY <2>1, <2>2, <2>3, <2>4 DEF Init, TypeOK, Typed
<1>2. BaseIsOld /\ NoSilentOverwrite /\ Separate
  BY VersionAssumption DEF Init, BaseIsOld, NoSilentOverwrite, Separate, Empty, Has
<1>3. \A e \in Entities : ~Has(live, e)
  BY DEF Init, Empty, Has
<1>4. BuildServiceFacts(live) /\ TopicsArePlain(live)
  BY <1>3, EntitiesByKind DEF BuildServiceFacts, TopicsArePlain
<1>5. BuildDeliveryZoneFacts(live)
  BY <1>3, EntitiesByKind DEF BuildDeliveryZoneFacts, ZonesOf
<1> QED
  BY <1>1, <1>2, <1>4, <1>5 DEF IInv, KBBuilds, PartBuilds, TopicsArePlain

\* A step that leaves the live rows and their gaps alone.
LEMMA DraftStepsBuild == KBBuilds /\ OnlyTheDraft => KBBuilds'
  BY DEF KBBuilds, OnlyTheDraft, PartBuilds, BuildServiceFacts, BuildDeliveryZoneFacts, ZonesOf, Cyclic, Has

LEMMA WritesKeep ==
  ASSUME IInv, NEW d, NEW m, NEW saves, PersistDraftBlob(d, m), Sound(d, m, saves),
         resaved' = StillMarked(resaved \cup saves, d, m),
         Typed(live'), gaps' \subseteq Parts, overwrote' \in BOOLEAN
  PROVE  TypeOK' /\ BaseIsOld' /\ Separate'
<1>1. TypeOK'
  <2>1. resaved' \subseteq Entities
    BY DEF IInv, TypeOK, Sound, StillMarked
  <2>2. /\ scope' = scope /\ draft' = d /\ marked' = m /\ version' = version + 1 /\ version < MaxVersion
        /\ base' = base /\ moved' = [c \in Clients |-> TRUE]
    BY DEF PersistDraftBlob
  <2>3. version' \in 0..MaxVersion
    BY <2>2, VersionAssumption DEF IInv, TypeOK
  <2>4. Typed(draft') /\ marked' \subseteq Entities
    BY <2>2 DEF Sound
  <2>5. scope' \in Scopes /\ base' \in [Clients -> (0..MaxVersion) \cup {NoVersion}]
        /\ moved' \in [Clients -> BOOLEAN]
    BY <2>2 DEF IInv, TypeOK
  <2> QED
    BY <2>1, <2>3, <2>4, <2>5 DEF TypeOK, Typed
<1>2. BaseIsOld'
  BY VersionAssumption DEF IInv, TypeOK, BaseIsOld, PersistDraftBlob
<1>3. Separate'
  BY DEF IInv, Sound, Apart, Separate, PersistDraftBlob, Has, StillMarked
<1> QED
  BY <1>1, <1>2, <1>3

LEMMA ClientWritesKeep ==
  ASSUME IInv, NEW c \in Clients, ClientWrites(c), Typed(live'), gaps' \subseteq Parts, KBBuilds'
  PROVE  IInv'
<1>0. PICK conditional \in BOOLEAN : \E d, m :
          WriteDraftBlobVersioned(c, conditional, d, m) /\ Sound(d, m, {})
  BY DEF ClientWrites
<1>1. PICK d, m : WriteDraftBlobVersioned(c, conditional, d, m) /\ Sound(d, m, {})
  BY <1>0
<1>2. ~overwrote'
  BY <1>1 DEF IInv, BaseIsOld, NoSilentOverwrite, WriteDraftBlobVersioned
<1>3. resaved' = StillMarked(resaved \cup {}, d, m)
  BY <1>1 DEF WriteDraftBlobVersioned
<1>4. TypeOK' /\ BaseIsOld' /\ Separate'
  BY <1>1, <1>2, <1>3, WritesKeep DEF WriteDraftBlobVersioned
<1> QED
  BY <1>2, <1>4 DEF IInv, NoSilentOverwrite

LEMMA StepHolds == IInv /\ [Next]_vars => IInv'
<1> SUFFICES ASSUME IInv, [Next]_vars PROVE IInv'
  OBVIOUS
<1>1. TypeOK /\ Typed(live) /\ KBBuilds /\ Separate
  BY DEF IInv, TypeOK, Typed
<1>2. OnlyTheDraft => Typed(live') /\ gaps' \subseteq Parts /\ KBBuilds'
  <2>1. OnlyTheDraft => Typed(live') /\ gaps' \subseteq Parts
    BY <1>1 DEF OnlyTheDraft, TypeOK, Typed
  <2> QED
    BY <1>1, <2>1, DraftStepsBuild
<1>3. CASE Editor
  <2>1. PICK d, m, saves : WriteDraftBlob(d, m, saves) /\ Sound(d, m, saves) /\ OnlyTheDraft
    BY <1>1, <1>3, EditorIsSound DEF EditorWrites
  <2>2. TypeOK' /\ BaseIsOld' /\ Separate'
    BY <1>2, <2>1, WritesKeep DEF WriteDraftBlob, IInv, TypeOK
  <2>3. NoSilentOverwrite'
    BY <2>1 DEF WriteDraftBlob, IInv, NoSilentOverwrite
  <2> QED
    BY <1>2, <2>1, <2>2, <2>3 DEF IInv
<1>4. CASE Live
  <2>1. KBBuilds' /\ gaps' \subseteq Parts /\ Typed(live') /\ UNCHANGED <<scope, draftVars>>
    BY <1>1, <1>4, LiveBuilds
  <2>2. TypeOK'
    BY <1>1, <2>1 DEF TypeOK, Typed, draftVars
  <2>3. BaseIsOld' /\ NoSilentOverwrite' /\ Separate'
    BY <2>1 DEF IInv, BaseIsOld, NoSilentOverwrite, Separate, draftVars, Has
  <2> QED
    BY <2>1, <2>2, <2>3 DEF IInv
<1>5. ASSUME NEW c \in Clients, DraftBaseVersion(c) PROVE IInv'
  <2>1. KBBuilds'
    BY <1>1, <1>5, DraftStepsBuild DEF DraftBaseVersion, OnlyTheDraft
  <2> QED
    BY <1>5, <2>1 DEF DraftBaseVersion, IInv, TypeOK, BaseIsOld, NoSilentOverwrite, Separate, Has
<1>6. ASSUME NEW c \in Clients, MCP(c) PROVE IInv'
  BY <1>1, <1>2, <1>6, MCPIsSound, ClientWritesKeep
<1>7. ASSUME NEW c \in Clients, CancelChange(c) PROVE IInv'
  BY <1>1, <1>2, <1>7, CancelIsSound, ClientWritesKeep
<1>8. ASSUME NEW c \in Clients, ApproveVersioned(c) PROVE IInv'
  BY <1>1, <1>8, ApproveIsSound, ApproveBuilds, ClientWritesKeep
<1>9. CASE UNCHANGED vars
  <2>1. KBBuilds'
    BY <1>1, <1>9, DraftStepsBuild DEF vars, OnlyTheDraft
  <2> QED
    BY <1>9, <2>1 DEF vars, IInv, TypeOK, BaseIsOld, NoSilentOverwrite, Separate, Has
<1> QED
  BY <1>3, <1>4, <1>5, <1>6, <1>7, <1>8, <1>9 DEF Next

\* The inductive invariant holds in every reachable state.
THEOREM KnowledgeInvariance == Spec => []IInv
  BY InitHolds, StepHolds, PTL DEF Spec

\* Every state has the shape TypeOK gives it.
THEOREM KnowledgeTypeCorrect == Spec => []TypeOK
<1>1. IInv => TypeOK
  BY DEF IInv
<1> QED
  BY KnowledgeInvariance, <1>1, PTL

\* No conditional write lands on a draft that somebody wrote in between.
THEOREM NeverSilentlyOverwritten == Spec => []NoSilentOverwrite
<1>1. IInv => NoSilentOverwrite
  BY DEF IInv
<1> QED
  BY KnowledgeInvariance, <1>1, PTL

\* Whatever the editor, the clients and the direct writes do, the catalog can
\* be built, but for a part that one of the three writes past the checks left.
THEOREM KnowledgeBuilds == Spec => []KBBuilds
<1>1. IInv => KBBuilds
  BY DEF IInv
<1> QED
  BY KnowledgeInvariance, <1>1, PTL

\* What an approval takes out of the draft is live afterwards, unless the
\* editor saved it over its deletion mark: the deletions come last, and no
\* other write leaves an entity both staged and marked.
THEOREM EditsSurviveApproval == Spec => ApprovedEditsSurvive
<1>1. ASSUME TypeOK, Separate, NEW c \in Clients, ApproveVersioned(c), NEW e \in Entities \ resaved,
             Has(draft, e), ~Has(draft', e)
      PROVE  live'[e] = draft[e]
  <2>1. PICK S : /\ live' = Materialized(live, Selected(S), marked \cap S)
                 /\ draft' = Without(S)
    BY <1>1 DEF ApproveVersioned, WriteDraftBlobVersioned, PersistDraftBlob
  <2>2. e \in S
    BY <1>1, <2>1 DEF Without, Has
  <2>3. e \notin marked
    BY <1>1 DEF Separate
  <2> QED
    BY <1>1, <2>1, <2>2, <2>3 DEF Materialized, Selected, Has
<1>2. IInv /\ [Next]_vars =>
        [\A c \in Clients : ApproveVersioned(c) =>
            \A e \in Entities \ resaved : Has(draft, e) /\ ~Has(draft', e) => live'[e] = draft[e]]_vars
  BY <1>1 DEF IInv
<1> QED
  BY KnowledgeInvariance, <1>2, PTL DEF Spec, ApprovedEditsSurvive

---------------------------------------------------------------------------
(* The prompt cache, for any number of loaders and writers.                *)
(*                                                                         *)
(* A cached build has every commit whose invalidation is over.  That is    *)
(* kept because a load that may still store its build has an unchanged     *)
(* generation, so nothing was invalidated since it started, and it read    *)
(* the tables after that.                                                  *)

CommitsAreKnown ==
    /\ \A v \in settled \cup unseen : v <= db
    /\ \A w \in Writers : writing[w] <= db
    /\ \A v \in 1..db : v \in settled \/ v \in unseen \/ \E w \in Writers : writing[w] = v

EntryIsCurrent ==
    entry # NoEntry => entry.gen = gen /\ \A v \in settled : v <= entry.kb

LoadsAnswer ==
    \A l \in Loaders :
        /\ load[l].owes \subseteq settled
        /\ load[l].at \in {"read", "answered"} => \A v \in load[l].owes : v <= load[l].kb
        /\ load[l].at \in {"missed", "read"} /\ load[l].gen = gen => settled \subseteq load[l].owes
        /\ load[l].at \in {"missed", "read"} => load[l].gen <= gen

CacheInv == CacheTypeOK /\ CommitsAreKnown /\ EntryIsCurrent /\ LoadsAnswer

LEMMA CacheInitHolds == CacheInit => CacheInv
  BY NoEntryIsNotAnEntry DEF CacheInit, CacheInv, CacheTypeOK, CommitsAreKnown, EntryIsCurrent, LoadsAnswer, Idle, Loads

LEMMA CacheStepHolds == CacheInv /\ [CacheNext]_cacheVars => CacheInv'
<1> SUFFICES ASSUME CacheInv, [CacheNext]_cacheVars PROVE CacheInv'
  OBVIOUS
<1> USE NoEntryIsNotAnEntry, MaxCommitsIsNat DEF CacheInv, CacheTypeOK, CommitsAreKnown, EntryIsCurrent, LoadsAnswer
<1>1. ASSUME NEW l \in Loaders, Hit(l) PROVE CacheInv'
  BY <1>1 DEF Hit, Usable, Loads
<1>2. ASSUME NEW l \in Loaders, Miss(l) PROVE CacheInv'
  BY <1>2 DEF Miss, Loads
<1>3. ASSUME NEW l \in Loaders, ReadDatabase(l) PROVE CacheInv'
  <2>1. /\ load[l] \in Loads
        /\ load' = [load EXCEPT ![l] = [load[l] EXCEPT !.at = "read", !.kb = db]]
        /\ load[l].at = "missed"
        /\ UNCHANGED <<db, entry, gen, writing, settled, unseen>>
    BY <1>3 DEF ReadDatabase
  <2>2. \A v \in load[l].owes : v <= db
    OBVIOUS
  <2>3. CacheTypeOK'
    BY <2>1 DEF Loads
  <2>4. LoadsAnswer'
    BY <2>1, <2>2 DEF Loads
  <2> QED
    BY <2>1, <2>3, <2>4
<1>4. ASSUME NEW l \in Loaders, ReadFails(l) PROVE CacheInv'
  BY <1>4 DEF ReadFails, Loads, Idle
<1>5. ASSUME NEW l \in Loaders, Store(l) PROVE CacheInv'
  BY <1>5 DEF Store, Kept, Loads
<1>6. ASSUME NEW l \in Loaders, Return(l) PROVE CacheInv'
  BY <1>6 DEF Return, Loads, Idle
<1>7. ASSUME NEW w \in Writers, Commit(w) PROVE CacheInv'
  BY <1>7 DEF Commit, Loads
<1>8. ASSUME NEW w \in Writers, Invalidate(w) PROVE CacheInv'
  <2> USE <1>8 DEF Invalidate
  <2>1. writing[w] \in Nat /\ writing[w] <= db
    OBVIOUS
  <2>2. CacheTypeOK'
    <3>1. settled' \subseteq Nat
      BY <2>1
    <3>2. entry' = NoEntry /\ gen' \in Nat /\ writing' \in [Writers -> Nat]
      OBVIOUS
    <3> QED
      BY <3>1, <3>2
  <2>3. CommitsAreKnown'
    <3>1. \A v \in settled' \cup unseen' : v <= db'
      BY <2>1
    <3>2. \A x \in Writers : writing'[x] <= db'
      OBVIOUS
    <3>3. ASSUME NEW v \in 1..db'
          PROVE v \in settled' \/ v \in unseen' \/ \E x \in Writers : writing'[x] = v
      BY <3>3
    <3> QED
      BY <3>1, <3>2, <3>3
  <2>4. EntryIsCurrent'
    OBVIOUS
  <2>5. LoadsAnswer'
    <3>1. gen < gen' /\ settled \subseteq settled' /\ load' = load
      OBVIOUS
    <3> QED
      BY <3>1 DEF Loads
  <2> QED
    BY <2>2, <2>3, <2>4, <2>5
<1>9. CASE WriteOutsideTheAPI
  BY <1>9 DEF WriteOutsideTheAPI, Loads
<1>10. CASE CrashRestart
  <2> USE <1>10 DEF CrashRestart
  <2>1. CacheTypeOK'
    BY DEF Loads, Idle
  <2>2. CommitsAreKnown'
    <3>1. \A v \in settled' \cup unseen' : v <= db'
      OBVIOUS
    <3>2. \A x \in Writers : writing'[x] <= db'
      OBVIOUS
    <3>3. ASSUME NEW v \in 1..db'
          PROVE v \in settled' \/ v \in unseen' \/ \E x \in Writers : writing'[x] = v
      BY <3>3
    <3> QED
      BY <3>1, <3>2, <3>3
  <2>3. EntryIsCurrent'
    OBVIOUS
  <2>4. LoadsAnswer'
    BY DEF Idle
  <2> QED
    BY <2>1, <2>2, <2>3, <2>4
<1>11. CASE UNCHANGED cacheVars
  BY <1>11 DEF cacheVars
<1> QED
  BY <1>1, <1>2, <1>3, <1>4, <1>5, <1>6, <1>7, <1>8, <1>9, <1>10, <1>11 DEF CacheNext

\* The inductive invariant holds in every reachable state.
THEOREM CacheInvariance == CacheSpec => []CacheInv
  BY CacheInitHolds, CacheStepHolds, PTL DEF CacheSpec

\* A Load that starts after a write was invalidated answers with that write.
THEOREM LoadsAreFresh == CacheSpec => []NextReplySeesTheWrite
<1>1. CacheInv => NextReplySeesTheWrite
  BY DEF CacheInv, LoadsAnswer, NextReplySeesTheWrite
<1> QED
  BY CacheInvariance, <1>1, PTL

\* A cached build misses nothing but open and unannounced writes.
THEOREM CacheIsCurrent == CacheSpec => []CacheMissesOnlyOpenWrites
<1>1. CacheInv => CacheMissesOnlyOpenWrites
  BY NoEntryIsNotAnEntry DEF CacheInv, CacheTypeOK, CommitsAreKnown, EntryIsCurrent, CacheMissesOnlyOpenWrites
<1> QED
  BY CacheInvariance, <1>1, PTL
=============================================================================

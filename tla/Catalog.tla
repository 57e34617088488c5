------------------------------ MODULE Catalog ------------------------------
(***************************************************************************)
(* The knowledge base of one organization as data (internal/kbstore,       *)
(* aiprompt/catalog.go): its entities, the rules under which the prompt    *)
(* catalog can be built from it, and the gate that approval checks.        *)
(*                                                                         *)
(* A knowledge base is a function from entities to rows; NoRow is the      *)
(* absence of one.  A row keeps only the columns the rules look at.  A     *)
(* base service is the one without a parent: the write-time checks refuse  *)
(* every other combination of service_type and parent_ref, and variants    *)
(* and add-ons obey the same rules.                                        *)
(***************************************************************************)
CONSTANTS
    Keys,      \* slugs and refs of the kinds that hold many rows
    Texts,     \* contents of the columns no rule looks at
    None,      \* a blank parent_ref
    NoRow      \* no such row

Listed == {"topics", "tariffs", "products", "delivery_zones", "specialists", "services"}
Singletons == {"contacts", "policies", "tariff_info"}
ConfigFields == {"persona", "mission", "guardrails", "language_policy", "reply_max_words"}
Main == "main"

Entities == (Listed \X Keys) \cup (Singletons \X {Main}) \cup ({"config"} \X ConfigFields)

KindOf(e) == e[1]

Topic(k) == <<"topics", k>>
Zone(k) == <<"delivery_zones", k>>
Specialist(k) == <<"specialists", k>>
Service(k) == <<"services", k>>
Policies == <<"policies", Main>>

TopicRows == [prose : BOOLEAN]
ZoneRows == [parent : Keys \cup {None}, priced : BOOLEAN]
SpecialistRows == [active : BOOLEAN]
ServiceRows == [parent : Keys \cup {None}, active : BOOLEAN, staff : SUBSET Keys]
PolicyRows == [flat : BOOLEAN, note : BOOLEAN]
PlainRows == [text : Texts]

RowsOf(e) ==
    CASE KindOf(e) = "topics" -> TopicRows
      [] KindOf(e) = "delivery_zones" -> ZoneRows
      [] KindOf(e) = "specialists" -> SpecialistRows
      [] KindOf(e) = "services" -> ServiceRows
      [] KindOf(e) = "policies" -> PolicyRows
      [] OTHER -> PlainRows

Rows == TopicRows \cup ZoneRows \cup SpecialistRows \cup ServiceRows \cup PolicyRows \cup PlainRows

ASSUME NoRowIsNotARow == NoRow \notin Rows
ASSUME NoneIsNotAKey == None \notin Keys

Has(w, e) == w[e] # NoRow

Empty == [e \in Entities |-> NoRow]

---------------------------------------------------------------------------
(* What building the prompt catalog refuses: a refusal fails every reply   *)
(* of the organization.                                                    *)

BuildServiceFacts(w) ==
    \A k \in Keys :
        LET sv == w[Service(k)] IN
        /\ Has(w, Service(k))
        /\ sv.parent # None
        => /\ Has(w, Service(sv.parent))
           /\ w[Service(sv.parent)].parent = None
           /\ sv.active => w[Service(sv.parent)].active

ZonesOf(w) == {k \in Keys : Has(w, Zone(k))}

\* Some zones only have parents among themselves.
Cyclic(w) ==
    \E loop \in SUBSET ZonesOf(w) :
        loop # {} /\ \A k \in loop : w[Zone(k)].parent \in loop

BuildDeliveryZoneFacts(w) ==
    ZonesOf(w) # {} =>
        /\ \A k \in ZonesOf(w) :
              /\ w[Zone(k)].priced
              /\ w[Zone(k)].parent \in ZonesOf(w) \cup {None}
        /\ ~Cyclic(w)
        /\ Has(w, Policies)
        /\ ~w[Policies].flat
        /\ w[Policies].note

---------------------------------------------------------------------------
(* The gate of approval and of direct writes.  It judges a view: the rows  *)
(* as it expects them to be.                                               *)

GateTopicBody(row) == row.prose

Gate(w) == \A k \in Keys : Has(w, Topic(k)) => GateTopicBody(w[Topic(k)])

ZoneGateReasons(w) ==
    \/ \E k \in ZonesOf(w) :
          \/ ~w[Zone(k)].priced
          \/ w[Zone(k)].parent \notin ZonesOf(w) \cup {None}
    \/ Cyclic(w)
    \/ /\ ZonesOf(w) # {}
       /\ \/ ~Has(w, Policies)
          \/ w[Policies].flat
          \/ ~w[Policies].note

ServiceGateReasons(w) ==
    \E k \in Keys :
        /\ Has(w, Service(k))
        /\ w[Service(k)].parent # None
        /\ \/ ~Has(w, Service(w[Service(k)].parent))
           \/ w[Service(w[Service(k)].parent)].parent # None
           \/ w[Service(k)].active /\ ~w[Service(w[Service(k)].parent)].active

ServiceSpecialistGateReasons(approving, w) ==
    \E k \in Keys :
        /\ Has(approving, Service(k))
        /\ \E r \in approving[Service(k)].staff : ~Has(w, Specialist(r))

\* (Mutant: the deletions are left out of the judged view.)
ResultingUpserts(w, approved, deletes) ==
    [e \in Entities |-> IF Has(approved, e) THEN approved[e] ELSE w[e]]

\* The rows the gate expects: an approved row stands even when its entity is
\* also marked for deletion, and a marked policies row stays.
ResultingForGate(w, approved, deletes) ==
    [e \in Entities |->
        IF Has(approved, e) THEN approved[e]
        ELSE IF e \in deletes /\ KindOf(e) \in Listed THEN NoRow
        ELSE w[e]]

\* The rows approval really leaves: the deletions come after the upserts.
Materialized(w, approved, deletes) ==
    [e \in Entities |->
        IF e \in deletes THEN NoRow
        ELSE IF Has(approved, e) THEN approved[e]
        ELSE w[e]]
=============================================================================

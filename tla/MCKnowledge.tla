---------------------------- MODULE MCKnowledge ----------------------------
(* Knowledge for TLC: one organization of each sort, small tables. *)
EXTENDS Knowledge

CONSTANTS k1, k2

ServicesOrg == {Service(k1), Service(k2)}
StaffOrg == {Service(k1), Specialist(k1)}
ZonesOrg == {Zone(k1), Zone(k2), Policies}
ContentOrg == {Topic(k1), <<"products", k1>>, <<"tariffs", k1>>}
MainOrg == {<<"contacts", Main>>, <<"tariff_info", Main>>, <<"config", "persona">>, <<"config", "mission">>}

AllScopes == {ServicesOrg, StaffOrg, ZonesOrg, ContentOrg, MainOrg}
=============================================================================

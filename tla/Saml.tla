-------------------------------- MODULE Saml --------------------------------
(***************************************************************************)
(* charm/lib/charms/saml_integrator/v0/saml.py: how to reach an identity   *)
(* provider.  What the provider's charm gives is written key by key, and   *)
(* what it no longer gives is not taken away.                              *)
(*                                                                         *)
(* The entity stands for what must be there, the metadata's URL for what   *)
(* is optional, and one endpoint for all, with or without its URL.         *)
(* stored["provider"] is what was given last.                              *)
(***************************************************************************)
EXTENDS JujuRelation

SamlRelationData ==
    [entity_id : Values, metadata_url : Values \cup {Nothing}, url : Values \cup {Nothing}]

SamlEndpointToRelationData(url) == IF url # Nothing THEN Entry("redirect_url", url) ELSE NoData

SamlToRelationData(data) ==
    Updated(Updated(Entry("entity_id", data.entity_id),
                    IF data.metadata_url # Nothing
                    THEN Entry("metadata_url", data.metadata_url) ELSE NoData),
            SamlEndpointToRelationData(data.url))

\* An endpoint is known by its URL; one without is lost, whatever else is given of it.
SamlEndpoints(bag) == {[url |-> bag[key]] : key \in DOMAIN bag \cap {"redirect_url", "post_url"}}

SamlFromRelationData(bag) ==
    [entity_id |-> bag["entity_id"],
     metadata_url |-> IF Has(bag, {"metadata_url"}) THEN bag["metadata_url"] ELSE Nothing,
     endpoints |-> SamlEndpoints(bag)]

\* Between the hooks of the relation, the charm of the provider gives its data.
SamlUpdateRelationData ==
    /\ interface = "saml"
    /\ leader["provider"]
    /\ \E data \in SamlRelationData :
           PublishesStoring("provider", Updated(app["provider"], SamlToRelationData(data)), data)

SamlDataAvailable == Tells("requirer", "saml_data_available")

\* The end of the relation is not observed.
SamlRequirerHook(hook) ==
    /\ interface = "saml"
    /\ RunsOnly("requirer", hook)
    /\ IF hook \in {"app", "unit"} /\ app["provider"] # NoData
       THEN SamlDataAvailable
       ELSE Silent

SamlProviderHook(hook) ==
    /\ interface = "saml"
    /\ RunsStoring("provider", hook, app["provider"], unit["provider"],
                   IF hook = "broken" THEN Nothing ELSE stored["provider"])
    /\ Silent

\* What the charm of the requirer makes of what it read.
SamlAnswer(reading) ==
    IF reading = Nothing \/ reading.app = NoData THEN Nothing ELSE SamlFromRelationData(reading.app)

SamlHook(s, hook) == IF s = "requirer" THEN SamlRequirerHook(hook) ELSE SamlProviderHook(hook)

=============================================================================

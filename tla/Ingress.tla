------------------------------- MODULE Ingress -------------------------------
(***************************************************************************)
(* charm/lib/charms/traefik_k8s/v2/ingress.py: the requirer tells where    *)
(* its application is reached, the provider under which URL it is proxied. *)
(*                                                                         *)
(* The requirer publishes in every hook of the relation and when it is     *)
(* made leader; the application's part only as a leader.  It remembers the *)
(* URL it announced in stored["requirer"], to announce each one once.      *)
(***************************************************************************)
EXTENDS JujuRelation

IngressAppData == [name |-> "app"]
IngressUnitData == [host |-> "host"]

\* A faulty variant: the default is written, too.
IngressDumpAll(url) == [ingress |-> url]

\* A databag is cleared before it is written; a default is left out of it.
IngressDump(url) == IF url = Nothing THEN NoData ELSE [ingress |-> url]

\* The URL of a provider.
IngressLoad(bag) == IF Has(bag, {"ingress"}) THEN bag["ingress"] ELSE Nothing

\* What a requirer must have told.
IngressValidAppData(bag) == Has(bag, {"name"})
IngressValidUnitData(bag) == Has(bag, {"host"})

(***************************************************************************)
(* The requirer                                                            *)
(***************************************************************************)
IngressUrlFromRelationData(reading) == IF reading = Nothing THEN Nothing ELSE IngressLoad(reading.app)

IngressUrl ==
    IF stored["requirer"] # Nothing THEN stored["requirer"]
    ELSE IF stage["requirer"] \in {"none", "new"} THEN Nothing
    ELSE IngressLoad(app["provider"])

IngressPublishedAppData == IF leader["requirer"] THEN IngressAppData ELSE app["requirer"]

\* A faulty variant: whoever leads from now on has its application published by another.
IngressElectedIdly == RunsOnly("requirer", "elected") /\ Silent

\* The unit that leads from now on publishes for its application, too.
IngressElected ==
    /\ IF Related("requirer")
       THEN Runs("requirer", "elected", IngressPublishedAppData, IngressUnitData)
       ELSE RunsOnly("requirer", "elected")
    /\ Silent

IngressReady == Tells("requirer", "ready")

\* A faulty variant: the event is for a URL, and not for a new one.
IngressHandlesEveryUrl(hook) ==
    LET new == IngressLoad(app["provider"])
    IN  /\ RunsStoring("requirer", hook, IngressPublishedAppData, IngressUnitData,
                       IF new # Nothing THEN new ELSE stored["requirer"])
        /\ IF new # Nothing THEN Tells("requirer", "ready") ELSE Silent

\* A URL that is withdrawn is not announced, nor forgotten.
IngressHandlesRelation(hook) ==
    LET new == IngressLoad(app["provider"])
    IN  IF new # Nothing /\ stored["requirer"] # new
        THEN /\ RunsStoring("requirer", hook, IngressPublishedAppData, IngressUnitData, new)
             /\ IngressReady
        ELSE /\ Runs("requirer", hook, IngressPublishedAppData, IngressUnitData)
             /\ Silent

IngressRevoked ==
    /\ RunsStoring("requirer", "broken", app["requirer"], unit["requirer"], Nothing)
    /\ TellsGone("requirer", "revoked")

IngressRequirerHook(hook) ==
    /\ interface = "ingress"
    /\ \/ /\ hook \in {"created", "joined", "app", "unit", "departed"}
          /\ IngressHandlesRelation(hook)
       \/ hook = "broken" /\ IngressRevoked
       \/ hook = "elected" /\ IngressElected

(***************************************************************************)
(* The provider                                                            *)
(***************************************************************************)
\* The data of the application and of every unit there is.
IngressIsReady(hasUnit) ==
    /\ IngressValidAppData(app["requirer"])
    /\ hasUnit => IngressValidUnitData(unit["requirer"])

IngressDataProvided == Tells("provider", "data_provided")

IngressHandlesRequirer(hook) ==
    IF IngressIsReady(stage'["provider"] = "joined") THEN IngressDataProvided ELSE Silent

IngressProviderHook(hook) ==
    /\ interface = "ingress"
    /\ RunsOnly("provider", hook)
    /\ \/ /\ hook \in {"created", "joined", "app", "unit", "departed"}
          /\ IngressHandlesRequirer(hook)
       \/ hook = "broken" /\ TellsGone("provider", "data_removed")
       \/ hook = "elected" /\ Silent

\* The charm of the provider has a URL, or one that is none.
IngressPublishUrl ==
    /\ interface = "ingress"
    /\ leader["provider"]
    /\ \E url \in Values \cup {Nothing} : Publishes("provider", IngressDump(url))

IngressWipeData ==
    /\ interface = "ingress"
    /\ leader["provider"]
    /\ Publishes("provider", Without(app["provider"], {"ingress"}))

\* None without data of the requirer, or for who does not lead.
IngressPublishedUrl ==
    IF leader["provider"] /\ IngressIsReady(stage["provider"] = "joined")
    THEN IngressLoad(app["provider"])
    ELSE Nothing

\* The URLs a provider says it serves.
IngressProxiedEndpoints == {IngressPublishedUrl} \ {Nothing}

IngressHook(s, hook) == IF s = "requirer" THEN IngressRequirerHook(hook) ELSE IngressProviderHook(hook)

=============================================================================

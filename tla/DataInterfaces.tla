--------------------------- MODULE DataInterfaces ---------------------------
(***************************************************************************)
(* charm/lib/charms/data_platform_libs/v0/data_interfaces.py: the requirer *)
(* asks for a resource, the provider answers with credentials, kept in a   *)
(* Juju secret, and endpoints, kept in the databag.  The charm has its     *)
(* postgresql database by it; the library has Kafka, OpenSearch and etcd   *)
(* in the same form.  Juju has secrets, etcd has no client certificate,    *)
(* the database is not subordinate, and nothing is deleted.                *)
(*                                                                         *)
(* Both sides note in a databag, under "data", what they saw of the other, *)
(* and act on the difference.  "credentials" are the secret fields of the  *)
(* group "user", "endpoints" the others.  stored["provider"] is what the   *)
(* secret holds, and stored["requirer"] the revision of it that the unit   *)
(* of the requirer tracks.                                                 *)
(*                                                                         *)
(* At an event the charm of the requirer reads the event's properties,     *)
(* which have the revision it tracks, and then fetches the relation's      *)
(* data, which makes it track the latest.                                  *)
(***************************************************************************)
EXTENDS JujuRelation

Flavours == {"database", "kafka", "opensearch", "etcd"}

(***************************************************************************)
(* What is new in a databag                                                *)
(***************************************************************************)
Noted(bag) == IF Has(bag, {"data"}) THEN bag["data"] ELSE NoData
Note(bag, seen) == Updated(bag, Entry("data", Without(seen, {"data"})))

Added(noted, bag) == DOMAIN Without(bag, {"data"}) \ DOMAIN noted
Changed(noted, bag) == {k \in DOMAIN noted \cap DOMAIN bag : noted[k] # bag[k]}

(***************************************************************************)
(* What is in the databag and what is in the secret                        *)
(***************************************************************************)
\* The fields a requirer wants to have in a secret.
SecretFields == {"credentials"}

RequestsSecrets == Entry("requested-secrets", SecretFields)

RequestedSecrets ==
    IF Has(app["requirer"], {"requested-secrets"}) THEN app["requirer"]["requested-secrets"] ELSE {}

\* What the requirer asked to have in a secret, unless it is in the databag from former times.
FieldsInSecret(fields) ==
    IF RequestedSecrets \cap DOMAIN app["provider"] # {} THEN {} ELSE fields \cap RequestedSecrets

HasSecret == Has(app["provider"], {"secret-user"})

SetSecretUri == app' = [app EXCEPT !["provider"] = Updated(@, Entry("secret-user", "uri"))]

AddSecret(value) == stored' = [stored EXCEPT !["provider"] = value] /\ SetSecretUri

UpdateSecret(value) == stored' = [stored EXCEPT !["provider"] = value] /\ UNCHANGED app

AddOrUpdateSecret(value) ==
    \/ ~ HasSecret /\ AddSecret(value)
    \/ HasSecret /\ UpdateSecret(value)

\* Content that differs makes a revision, of which Juju tells who tracks another.
Revised == stored["provider"] # stored'["provider"] /\ stored["requirer"] # Nothing

UpdateWithoutSecrets(field, value) ==
    app' = [app EXCEPT !["provider"] = Updated(@, Entry(field, value))] /\ UNCHANGED stored

PutRelationData(field, value) ==
    \/ FieldsInSecret({field}) # {} /\ AddOrUpdateSecret(value)
    \/ FieldsInSecret({field}) = {} /\ UpdateWithoutSecrets(field, value)

\* What is fetched, and the revision of the secret that is tracked from then on.
FetchWithoutSecrets(field) == IF Has(app["provider"], {field}) THEN app["provider"][field] ELSE Nothing

FetchWithSecrets(field) ==
    IF HasSecret /\ field \in SecretFields THEN stored["provider"] ELSE FetchWithoutSecrets(field)

DataFetched ==
    [credentials |-> FetchWithSecrets("credentials"), endpoints |-> FetchWithSecrets("endpoints")]

Refreshed == IF HasSecret THEN stored["provider"] ELSE stored["requirer"]

ResourceCreated == FetchWithSecrets("credentials") # Nothing

\* What the properties of an event say.
EventPassword(tracked) == IF HasSecret THEN tracked ELSE FetchWithoutSecrets("credentials")
EventEndpoints == FetchWithoutSecrets("endpoints")

TellsData(name, tracked) ==
    TellsSaying("requirer", name, EventPassword(tracked),
                [credentials |-> FetchWithSecrets("credentials"), endpoints |-> EventEndpoints])

(***************************************************************************)
(* The provider                                                            *)
(***************************************************************************)
Resource ==
    CASE interface = "database" -> "database"
      [] interface = "kafka" -> "topic"
      [] interface = "opensearch" -> "index"
      [] interface = "etcd" -> "prefix"

LeaderOnly == leader["provider"]

\* The requirer has a hook for what differs in the databag, and for a revision.
WakesRequirer ==
    due' = [due EXCEPT !["requirer"] = @ \cup (IF app' # app THEN {"app"} ELSE {})
                                         \cup (IF Revised THEN {"secret"} ELSE {})]

\* A faulty variant: data is accepted at any time.
NeverPremature(field) == TRUE

\* Before the resource is asked for, where its secrets belong is not known.
NotPremature(field) == Has(app["requirer"], {Resource}) \/ field = "endpoints"

UpdateRelationData(field, value) ==
    /\ interface \in Flavours
    /\ LeaderOnly
    /\ Related("provider")
    /\ NotPremature(field)
    /\ PutRelationData(field, value)
    /\ WakesRequirer
    /\ Silent
    /\ UNCHANGED <<interface, dying, stage, leader, led, unit>>

SetCredentials == \E value \in Values : UpdateRelationData("credentials", value)

DatabaseSetEndpoints(value) == interface = "database" /\ UpdateRelationData("endpoints", value)
KafkaSetBootstrapServer(value) == interface = "kafka" /\ UpdateRelationData("endpoints", value)
OpenSearchSetEndpoints(value) == interface = "opensearch" /\ UpdateRelationData("endpoints", value)
EtcdSetEndpoints(value) == interface = "etcd" /\ UpdateRelationData("endpoints", value)

SetEndpoints ==
    \E value \in Values :
        \/ DatabaseSetEndpoints(value)
        \/ KafkaSetBootstrapServer(value)
        \/ OpenSearchSetEndpoints(value)
        \/ EtcdSetEndpoints(value)

ResourceRequested == Tells("provider", "requested")

\* Only a leader takes note of a request.
Requested(hook, resource) ==
    IF ~ leader["provider"] THEN RunsOnly("provider", hook) /\ Silent
    ELSE /\ Runs("provider", hook, Note(app["provider"], app["requirer"]), unit["provider"])
         /\ IF resource \in Added(Noted(app["provider"]), app["requirer"])
            THEN ResourceRequested
            ELSE Silent

DatabaseProviderChanged(hook) == interface = "database" /\ Requested(hook, "database")
KafkaProviderChanged(hook) == interface = "kafka" /\ Requested(hook, "topic")
OpenSearchProviderChanged(hook) == interface = "opensearch" /\ Requested(hook, "index")

\* Etcd notes nothing, and tells of every change.
EtcdProviderChanged(hook) ==
    /\ interface = "etcd"
    /\ RunsOnly("provider", hook)
    /\ Tells("provider", "mtls_cert_updated")

\* A secret goes with its relation.
DataProviderHook(hook) ==
    /\ interface \in Flavours
    /\ \/ /\ hook \in {"app", "unit"}
          /\ \/ DatabaseProviderChanged(hook)
             \/ KafkaProviderChanged(hook)
             \/ OpenSearchProviderChanged(hook)
             \/ EtcdProviderChanged(hook)
       \/ /\ hook \in {"created", "joined", "departed", "broken", "elected"}
          /\ RunsStoring("provider", hook, app["provider"], unit["provider"],
                         IF hook = "broken" THEN Nothing ELSE stored["provider"])
          /\ Silent

(***************************************************************************)
(* The requirer                                                            *)
(***************************************************************************)
\* A leader asks when the relation is made, and never again.
Asks(resource) ==
    /\ IF leader["requirer"]
       THEN Runs("requirer", "created", Updated(RequestsSecrets, Entry(resource, "name")), RequestsSecrets)
       ELSE RunsOnly("requirer", "created")
    /\ Silent

DatabaseCreated == interface = "database" /\ Asks("database")
KafkaCreated == interface = "kafka" /\ Asks("topic")
OpenSearchCreated == interface = "opensearch" /\ Asks("index")
EtcdCreated == interface = "etcd" /\ Asks("prefix")

\* The first credentials are told as such, and the endpoints that come with them not apart.
DatabaseEvent(added, changed) ==
    IF added \cap {"secret-user", "credentials"} # {} THEN "database_created"
    ELSE IF "endpoints" \in added \cup changed THEN "endpoints_changed"
    ELSE "none"

\* A faulty variant: the bootstrap server is told when it is new.
KafkaEventOfAdded(added, changed) ==
    IF added \cap {"secret-user", "credentials"} # {} THEN "topic_created"
    ELSE IF "endpoints" \in added THEN "bootstrap_server_changed"
    ELSE "none"

KafkaEvent(added, changed) ==
    IF added \cap {"secret-user", "credentials"} # {} THEN "topic_created"
    ELSE IF "endpoints" \in added \cup changed THEN "bootstrap_server_changed"
    ELSE "none"

\* That authentication was updated is never told here: the names of the parts of a difference
\* are compared with those of the fields.
OpenSearchEvent(added, changed) ==
    IF added \cap {"secret-user", "credentials"} # {} THEN "index_created"
    ELSE IF "endpoints" \in added \cup changed THEN "endpoints_changed"
    ELSE "none"

\* Both may be told; etcd_ready comes second.
EtcdEvent(added, changed) ==
    IF (added \cup changed) \cap {"secret-user", "credentials"} # {} THEN "etcd_ready"
    ELSE IF "endpoints" \in added \cup changed THEN "endpoints_changed"
    ELSE "none"

DataEvent(added, changed) ==
    CASE interface = "database" -> DatabaseEvent(added, changed)
      [] interface = "kafka" -> KafkaEvent(added, changed)
      [] interface = "opensearch" -> OpenSearchEvent(added, changed)
      [] interface = "etcd" -> EtcdEvent(added, changed)

\* A secret that is new is tracked from then on, and known by a label.
Registered(added) ==
    IF "secret-user" \in added /\ stored["requirer"] = Nothing THEN stored["provider"]
    ELSE stored["requirer"]

DataRequirerChanged(hook) ==
    LET added == Added(Noted(unit["requirer"]), app["provider"])
        changed == Changed(Noted(unit["requirer"]), app["provider"])
        emitted == DataEvent(added, changed)
    IN  /\ RunsStoring("requirer", hook, app["requirer"], Note(unit["requirer"], app["provider"]),
                       IF emitted = "none" THEN Registered(added) ELSE Refreshed)
        /\ IF emitted = "none" THEN Silent ELSE TellsData(emitted, Registered(added))

\* Of a new revision, the events of OpenSearch tell without the endpoints, those of etcd
\* with them; databases and Kafka do nothing.
OpenSearchSecretChanged ==
    /\ interface = "opensearch"
    /\ RunsStoring("requirer", "secret", app["requirer"], unit["requirer"], Refreshed)
    /\ TellsSaying("requirer", "authentication_updated", EventPassword(stored["requirer"]),
                   [told["requirer"] EXCEPT !.credentials = FetchWithSecrets("credentials")])
EtcdSecretChanged ==
    /\ interface = "etcd"
    /\ RunsStoring("requirer", "secret", app["requirer"], unit["requirer"], Refreshed)
    /\ TellsData("etcd_ready", stored["requirer"])
OtherSecretChanged ==
    /\ interface \in {"database", "kafka"}
    /\ RunsOnly("requirer", "secret")
    /\ Silent

\* The label names it, and that of a relation that is gone is not found again.
SecretOfRelation(hook) == IF hook = "broken" THEN Nothing ELSE stored["requirer"]

DataRequirerHook(hook) ==
    /\ interface \in Flavours
    /\ \/ hook = "created" /\ (DatabaseCreated \/ KafkaCreated \/ OpenSearchCreated \/ EtcdCreated)
       \/ hook \in {"app", "unit"} /\ DataRequirerChanged(hook)
       \/ hook = "secret" /\ (OpenSearchSecretChanged \/ EtcdSecretChanged \/ OtherSecretChanged)
       \/ /\ hook \in {"joined", "departed", "broken", "elected"}
          /\ RunsStoring("requirer", hook, app["requirer"], unit["requirer"], SecretOfRelation(hook))
          /\ Silent

DataHook(s, hook) == IF s = "requirer" THEN DataRequirerHook(hook) ELSE DataProviderHook(hook)

=============================================================================

---------------------------- MODULE Integrations ----------------------------
(***************************************************************************)
(* A relation of the charm, by any of the interfaces its libraries speak.  *)
(* The two sides run their hooks, each at its own pace, while the operator *)
(* of the model makes and removes the relation, units gain and lose the    *)
(* lead, and the charm of the provider publishes what it has.              *)
(***************************************************************************)
EXTENDS Redis, Saml, S3, Ingress, Tracing, DataInterfaces, LogClients, Scrape, Dashboards

RelationHooks == {"created", "joined", "app", "unit", "secret", "departed", "broken"}
OtherHooks == {"elected", "ready"}

Hook(s, hook) ==
    \/ RedisHook(s, hook)
    \/ SamlHook(s, hook)
    \/ S3Hook(s, hook)
    \/ IngressHook(s, hook)
    \/ TracingHook(s, hook)
    \/ DataHook(s, hook)
    \/ LokiHook(s, hook)
    \/ ScrapeHook(s, hook)
    \/ DashboardsHook(s, hook)

HookRuns(s, hooks) == \E hook \in hooks : Hook(s, hook)

\* What the charms do besides the hooks of the relation.
ProviderPublishes ==
    \/ RedisFailover
    \/ SamlUpdateRelationData
    \/ S3SetConnectionInfo
    \/ IngressPublishUrl
    \/ IngressWipeData
    \/ TracingPublishReceivers
    \/ SetCredentials
    \/ SetEndpoints
    \/ LokiProviderLifecycle
    \/ LokiUpdateEndpoint
    \/ LokiOfOtherMake
    \/ UpdateScrapeJobSpec
    \/ DashboardsChange
    \/ DashboardsOfOtherMake

Next ==
    \/ Juju
    \/ \E s \in Sides : HookRuns(s, RelationHooks \cup OtherHooks)
    \/ ProviderPublishes
    \/ TracingOtherHook
    \/ LokiLifecycle
    \/ LogContainerReplaced

\* Juju runs the hooks that are due, those of the relation and the others; nothing makes
\* anyone publish, relate or elect.
Fairness ==
    \A s \in Sides : /\ WF_relationVars(HookRuns(s, RelationHooks))
                     /\ WF_relationVars(HookRuns(s, OtherHooks))

Spec == RelationInit /\ [][Next]_relationVars /\ Fairness

(***************************************************************************)
(* Safety                                                                  *)
(***************************************************************************)
\* Types; a databag holds no nothing: what is not there has no key.
IntegrationsTypeOK ==
    /\ interface \in Interfaces
    /\ {dying, led} \subseteq BOOLEAN
    /\ stage \in [Sides -> {"none", "new", "created", "joined", "departed"}]
    /\ due \in [Sides -> SUBSET {"app", "unit", "secret", "elected", "ready"}]
    /\ leader \in [Sides -> BOOLEAN]
    /\ led => \A s \in Sides : leader[s]
    /\ \A s \in Sides : /\ \A k \in DOMAIN app[s] : app[s][k] # Nothing
                        /\ \A k \in DOMAIN unit[s] : unit[s][k] # Nothing

\* A provider that has run its hooks knows of the request, when whoever makes it could
\* make it: the libraries of s3 and of databases ask once, as leaders, when the relation
\* is made, the others whenever the unit leads (S3Requirer._on_relation_joined,
\* DatabaseRequirerEventHandlers._on_relation_created_event).
RequestArrives ==
    BothSettled =>
        /\ led /\ interface \in Flavours \cup {"s3"} => told["provider"] # Nothing
        /\ leader["requirer"] /\ interface \in {"ingress", "tracing"} =>
               told["provider"] # Nothing /\ told["provider"].app = app["requirer"]
        /\ interface \in LokiClients /\ Has(app["requirer"], {"alert_rules"}) =>
               told["provider"] = LokiAlerts(app["requirer"].alert_rules)

\* The event that tells of the first credentials has those that are fetched, although events
\* read the revision that is tracked, of whatever relation there was before
\* (AuthenticationEvent.password and Data._generate_secret_label).
FirstPasswordIsCurrent ==
    event.name \in {"database_created", "topic_created", "index_created"} =>
        event.says = told["requirer"].credentials

\* What was given last to the identity provider's side is read by the other, although what
\* was given before is never taken away (SamlProvides.update_relation_data).
GivenIsRead ==
    interface = "saml" /\ Settled("requirer") /\ stored["provider"] # Nothing =>
        LET given == stored["provider"]
            read == SamlAnswer(told["requirer"])
        IN  /\ read.entity_id = given.entity_id
            /\ given.metadata_url # Nothing => read.metadata_url = given.metadata_url
            /\ given.url # Nothing => [url |-> given.url] \in read.endpoints

\* The URL a provider says it proxies is the one the application believes it has
\* (IngressPerAppProvider.proxied_endpoints, IngressPerAppRequirer.url).
ProxiedIsKnown ==
    interface = "ingress" /\ BothSettled =>
        \A url \in IngressProxiedEndpoints : IngressUrl = url

\* A leader that learns of endpoints finds the one it asked for or none: no error
\* (TracingEndpointRequirer.get_endpoint, which charm_tracing_config calls in every hook).
NoEndpointIsNoError ==
    event.name = "endpoint_changed" /\ leader["requirer"] =>
        CharmTracingConfig(told["requirer"]) \in Values \cup {Nothing}

\* A requirer that has run its hooks knows what the provider published last.  The exceptions
\* are what the libraries leave out: a redis failover, an ingress that is withdrawn, the
\* new password of a database or of Kafka, and an endpoint of etcd that changed and changed
\* back around a new secret (_on_relation_changed and _on_secret_changed_event).  A unit that
\* does not lead renders no dashboards, so that those are up to date only if the units led all
\* the time; what the charm knows of them is what is kept, whoever leads
\* (_on_grafana_dashboard_relation_changed).
AnswerArrives ==
    LET knows == told["requirer"]
        current == Reading("requirer")
    IN  /\ FirstPasswordIsCurrent
        /\ GivenIsRead
        /\ ProxiedIsKnown
        /\ NoEndpointIsNoError
        /\ Settled("requirer") =>
            /\ interface = "redis" =>
                   /\ knows # Nothing
                   /\ RedisUrl([knows EXCEPT !.app = app["provider"]]) = RedisUrl(current)
            /\ interface = "saml" => SamlAnswer(knows) = SamlAnswer(current)
            /\ interface = "s3" => S3ConnectionInfo(knows) = S3ConnectionInfo(current)
            /\ interface = "ingress" /\ app["provider"] # NoData =>
                   IngressUrlFromRelationData(knows) = IngressUrlFromRelationData(current)
            /\ interface = "loki" => knows # Nothing /\ knows.endpoints = LokiEndpoints("app")
            /\ interface = "dashboards" =>
                   /\ led /\ "corrupt" \notin DashboardsPublished =>
                          PeerDashboards.this = Rendered(DashboardsPublished)
                   /\ knows = Nothing => PeerDashboards.this = {}
                   /\ knows # Nothing => knows = PeerDashboards
            /\ interface = "tracing" => TracingAllEndpoints(knows) = TracingAllEndpoints(current)
            /\ interface \in Flavours /\ DataFetched.endpoints # Nothing =>
                   knows # Nothing /\ (interface # "etcd" => knows.endpoints = DataFetched.endpoints)
            /\ interface \in Flavours /\ ResourceCreated =>
                   /\ knows # Nothing /\ knows.credentials # Nothing
                   /\ interface \in {"opensearch", "etcd"} => knows.credentials = DataFetched.credentials

\* When the relation is gone, so is what the charm was told of it.  Left out is what the
\* libraries leave: saml and the databases tell nothing, nor does promtail when its container
\* is not reached as the unit departs (LogProxyConsumer._on_relation_departed); and a unit
\* that does not lead when the relation breaks leaves its dashboards where the charm goes on
\* reading them, so that what is asked of those is asked of who led all the time
\* (GrafanaDashboardConsumer._on_grafana_dashboard_relation_broken).
GoneIsTold ==
    LET knows == told["requirer"]
    IN  stage["requirer"] = "none" /\ knows # Nothing =>
            /\ interface \notin {"redis", "s3", "ingress", "tracing"}
            /\ interface = "loki" => knows.endpoints = {}
            /\ interface = "scrape" => knows.jobs = {} /\ knows.rules = {}
            /\ interface = "dashboards" =>
                   /\ knows = PeerDashboards
                   /\ led => knows.this = {}

\* Credentials are never in a databag, whatever is published at which moment
\* (ProviderData._update_relation_data refuses what comes before the request).
CredentialsAreSecret == interface \in Flavours => ~ Has(app["provider"], {"credentials"})

\* Whoever leads learns that what it published is faulty, whichever hooks came in between
\* (alert_rule_status_changed, invalid_scrape_job, dashboard_status_changed).
ComplaintArrives ==
    BothSettled /\ led =>
        /\ interface \in {"loki", "promtail"} /\ Has(app["provider"], {"event"}) => KnownFaulty
        /\ interface = "scrape" =>
               \A fault \in ScrapeFaults("app") :
                   told["provider"] # Nothing /\ fault \in told["provider"]
        /\ interface = "dashboards" /\ "corrupt" \in DashboardsPublished =>
               told["provider"] # Nothing

\* A container that is up sends its logs where Loki is now, whatever it was before, when the
\* binary of promtail could be had (_update_logging, _on_relation_changed, _on_pebble_ready).
LogsGoWhereTold ==
    Settled("requirer") /\ LokiEndpoints("app") # {} =>
        LET container == stored["requirer"]
        IN  /\ interface = "forwarder" => {container} = LokiEndpoints("app")
            /\ interface = "promtail" /\ Has(app["provider"], {"promtail"}) =>
                   /\ container # Nothing
                   /\ container.installed =>
                          container.running /\ container.clients = LokiEndpoints("app")

\* What is scraped is what was published, at the addresses of now, each target by jobs that
\* no other has the name of; and nothing when one job is bad (MetricsEndpointConsumer.jobs).
ScrapedAsPublished ==
    interface = "scrape" /\ Settled("requirer") =>
        LET jobs == told["requirer"].jobs
            published == PublishedJobs("app")
            targets == UNION {published[i].targets : i \in DOMAIN published}
        IN  /\ told["requirer"] # Nothing
            /\ \A j, k \in jobs : j.name = k.name => j = k
            /\ UNION {j.targets : j \in jobs} =
                   IF HasBadJob(published) THEN {}
                   ELSE (targets \ {"*"}) \cup (IF "*" \in targets THEN RelationHosts ELSE {})

(***************************************************************************)
(* Action and temporal properties                                          *)
(***************************************************************************)
\* An event says something new: a request that was not made yet, however often the provider
\* is woken and whoever leads it by then (diff, which keeps what it saw in the databag); a URL
\* that differs from the last one announced ("Avoid spurious events", ingress.py); the first
\* credentials ("To avoid unnecessary application restarts", data_interfaces.py).
NoSpuriousEvent ==
    [][/\ event'.name \in {"credentials_requested", "requested"} => told["provider"] = Nothing
       /\ event'.name = "ready" =>
              IngressUrlFromRelationData(told["requirer"])
                  # IngressUrlFromRelationData(told'["requirer"])
       /\ event'.name \in {"database_created", "topic_created", "index_created"} =>
              told["requirer"] = Nothing \/ told["requirer"].credentials = Nothing]_relationVars

\* Where the request is made in every hook, whoever leads in the end is heard, although
\* the relation was made when no one led (_handle_upgrade_or_leader; request_protocols
\* in the constructor).
LeaderIsHeard ==
    <>[](interface \in {"ingress", "tracing"} /\ leader["requirer"] /\ \A s \in Sides : Related(s))
        => <>[](interface \in {"ingress", "tracing"} =>
                    told["provider"] # Nothing /\ told["provider"].app = app["requirer"])

=============================================================================

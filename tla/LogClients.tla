----------------------------- MODULE LogClients -----------------------------
(***************************************************************************)
(* charm/lib/charms/loki_k8s/v1/loki_push_api.py: the requirers that send  *)
(* the logs of a container themselves.  LogForwarder sets a log target in  *)
(* the container's Pebble; LogProxyConsumer runs promtail in it, a binary  *)
(* that the provider names and that may be impossible to obtain.           *)
(*                                                                         *)
(* stored["requirer"] is what there is in the container: the target of the *)
(* logs, or the state of promtail.  It goes when the container does.       *)
(* That promtail has no endpoint, or did not start, is told by an event    *)
(* promtail_digest_error, which tells nothing of the relation and is left  *)
(* out.                                                                    *)
(***************************************************************************)
EXTENDS Loki

(***************************************************************************)
(* LogForwarder                                                            *)
(***************************************************************************)
ExtractUrls == {unit["provider"].endpoint}

ForwarderIsReady(hook) == SeesUnit("requirer", hook) /\ Has(unit["provider"], {"endpoint"})

FetchEndpoints(hook) == IF ForwarderIsReady(hook) THEN ExtractUrls ELSE {}

\* The layer that is added replaces the target of the unit.
EnableEndpoints(endpoints) == endpoints

\* What may become of the container.
UpdateEndpoints(hook) ==
    EnableEndpoints(FetchEndpoints(hook))
    \cup (IF FALSE \in Reachable("requirer") THEN {stored["requirer"]} ELSE {})

\* With no endpoint nothing is done: what was set is not switched off, no rule is published.
ForwarderUpdateLogging(hook) ==
    IF FetchEndpoints(hook) = {} THEN RunsOnly("requirer", hook)
    ELSE \E target \in UpdateEndpoints(hook), rules \in RuleSets :
             RunsStoring("requirer", hook, HandleAlertRules(rules), unit["requirer"], target)

\* A faulty variant: the container that comes up is left to the next change.
ForwarderIgnoresReady == RunsOnly("requirer", "ready")

ForwarderPebbleReady ==
    IF FetchEndpoints("ready") = {} THEN RunsOnly("requirer", "ready")
    ELSE \E target \in EnableEndpoints(FetchEndpoints("ready")) :
             RunsStoring("requirer", "ready", app["requirer"], unit["requirer"], target)

ForwarderHook(hook) ==
    /\ interface = "forwarder"
    /\ \/ hook \in {"joined", "app", "unit", "departed", "broken"} /\ ForwarderUpdateLogging(hook)
       \/ hook = "ready" /\ ForwarderPebbleReady
       \/ hook \in {"created", "elected"} /\ RunsOnly("requirer", hook)
    /\ Silent

(***************************************************************************)
(* LogProxyConsumer                                                        *)
(***************************************************************************)
\* A binary that the charm has is used when it is the one the provider names.
MustBeDownloaded(inCharm, sameSum) == ~ (inCharm /\ sameSum)

\* Attached as a resource, in the charm, or downloaded: what may fail is the download.
ObtainPromtail(attached, inCharm, sameSum, downloads) ==
    attached \/ (MustBeDownloaded(inCharm, sameSum) => downloads)

\* Whether it is there in the end; that it cannot be downloaded is told, and passed over.
EnsurePromtailBinary(was) ==
    IF was # Nothing /\ was.installed THEN {TRUE}
    ELSE {ObtainPromtail(a, c, s, d) : a, c, s, d \in BOOLEAN}

PromtailConfig(hook) == [clients |-> LokiEndpoints(hook)]

\* A restart that fails is told, and passed over.
SetupPromtail(hook) ==
    LET was == stored["requirer"]
        clients == PromtailConfig(hook).clients
    IN  IF ~ Has(app["provider"], {"promtail"}) THEN {was}
        ELSE {[clients |-> clients, installed |-> i, running |-> i /\ clients # {}] :
                 i \in EnsurePromtailBinary(was)}

\* Here a promtail that was not obtained fails the hook, and it is repeated.
PromtailReconfigured(hook) ==
    LET clients == PromtailConfig(hook).clients
    IN  IF clients = {} THEN {[stored["requirer"] EXCEPT !.clients = {}]}
        ELSE IF stored["requirer"].installed
        THEN {[clients |-> clients, installed |-> TRUE, running |-> TRUE]}
        ELSE {}

PromtailStarts(state) == state # Nothing /\ state.running /\ state.clients # {}

\* No unit is seen yet, so there is no client to start it for.
PromtailCreated ==
    /\ \E reachable \in Reachable("requirer") :
           \E state \in IF reachable THEN SetupPromtail("created") ELSE {stored["requirer"]} :
               RunsStoring("requirer", "created", app["requirer"], unit["requirer"], state)
    /\ Silent

\* The complaint of Loki is told first, and whatever becomes of the container.
PromtailChanged(hook) ==
    \E rules \in RuleSets, reachable \in Reachable("requirer") :
        \E state \in IF ~ reachable THEN {stored["requirer"]}
                     ELSE IF stored["requirer"] = Nothing THEN SetupPromtail(hook)
                     ELSE PromtailReconfigured(hook) :
            /\ RunsStoring("requirer", hook, HandleAlertRules(rules), unit["requirer"], state)
            /\ IF reachable /\ PromtailStarts(state)
               THEN LokiTells("log_proxy_endpoint_joined", hook, ReadsFaulty)
               ELSE IF leader["requirer"] /\ Has(app["provider"], {"event"})
               THEN LokiTells("alert_rule_status_changed", hook, TRUE)
               ELSE Silent

\* What was never set up cannot be stopped: the hook fails, and is repeated.  Nothing is told
\* of a container that is not reached.
PromtailDeparted ==
    \/ /\ stored["requirer"] # Nothing
       /\ RunsStoring("requirer", "departed", app["requirer"], unit["requirer"],
                      [stored["requirer"] EXCEPT !.clients = {}, !.running = FALSE])
       /\ LokiTells("log_proxy_endpoint_departed", "departed", KnownFaulty)
    \/ /\ FALSE \in Reachable("requirer")
       /\ RunsOnly("requirer", "departed")
       /\ Silent

PromtailPebbleReady ==
    IF stage["requirer"] \in {"none", "new"} THEN RunsOnly("requirer", "ready") /\ Silent
    ELSE \E state \in SetupPromtail("ready") :
             /\ RunsStoring("requirer", "ready", app["requirer"], unit["requirer"], state)
             /\ IF Has(app["provider"], {"promtail"}) /\ PromtailStarts(state)
                THEN LokiTells("log_proxy_endpoint_joined", "ready", KnownFaulty)
                ELSE Silent

PromtailHook(hook) ==
    /\ interface = "promtail"
    /\ \/ hook = "created" /\ PromtailCreated
       \/ hook \in {"app", "unit"} /\ PromtailChanged(hook)
       \/ hook = "departed" /\ PromtailDeparted
       \/ hook = "ready" /\ PromtailPebbleReady
       \/ hook \in {"joined", "broken", "elected"} /\ RunsOnly("requirer", hook) /\ Silent

(***************************************************************************)
(* All that speak with Loki                                                *)
(***************************************************************************)
LogContainerReplaced ==
    interface \in {"forwarder", "promtail"} /\ ContainerReplaced("requirer")

LokiHook(s, hook) ==
    IF s = "provider" THEN LokiProviderHook(hook)
    ELSE LokiConsumerHook(hook) \/ ForwarderHook(hook) \/ PromtailHook(hook)

=============================================================================

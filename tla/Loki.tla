-------------------------------- MODULE Loki --------------------------------
(***************************************************************************)
(* charm/lib/charms/loki_k8s/v1/loki_push_api.py: the provider gives the   *)
(* endpoint to which logs are pushed, the requirer its alert rules, and    *)
(* learns when they are faulty.  This module has the provider and the      *)
(* plain requirer, LokiPushApiConsumer; LogClients has the two that send   *)
(* the logs of containers themselves.                                      *)
(*                                                                         *)
(* The rules are those of the charm's revision, so any at any time;        *)
(* cos-tool is there to check them.  What the charm of the provider reads  *)
(* at an event are the alerts.                                             *)
(***************************************************************************)
EXTENDS JujuRelation

LokiClients == {"loki", "forwarder", "promtail"}

(***************************************************************************)
(* AlertRules                                                              *)
(***************************************************************************)
\* A file that is of no known form has no rules.
RulesFromFile(file) == IF file = "garbled" THEN {} ELSE {file}

RulesFromDir(files) == UNION {RulesFromFile(f) : f \in files}

\* One faulty rule, and the set is.
AlertRulesAsDict(rules) ==
    IF "faulty" \in rules THEN "faulty"
    ELSE IF "valid" \in rules THEN "valid"
    ELSE "none"

RuleSets == {AlertRulesAsDict(RulesFromDir(files)) : files \in SUBSET {"garbled", "valid", "faulty"}}

(***************************************************************************)
(* The provider                                                            *)
(***************************************************************************)
\* Its own address.
LokiUrl == CHOOSE url \in Values : TRUE

LokiEndpoint(url) == [endpoint |-> url]

LokiShouldUpdateAlertRules == Has(app["requirer"], {"alert_rules"})

LokiRules(hook) ==
    IF SeesUnit("provider", hook) /\ LokiShouldUpdateAlertRules
    THEN app["requirer"].alert_rules
    ELSE "none"

\* What cos-tool says of faulty rules goes to stderr, of which nothing is read, or to stdout,
\* which is read as bytes, and to search those for lines of text is an error.
ValidateAlertRules(rules) == IF rules = "faulty" THEN {"no message", "TypeError"} ELSE {"no message"}

\* So no rules are refused.
LokiAlerts(rules) == IF rules = "none" THEN {} ELSE {rules}

\* The charm asks for the alerts when it is told of them.  An error there fails the hook,
\* which is repeated.
LokiProcesses(hook) ==
    /\ \E outcome \in ValidateAlertRules(LokiRules(hook)) : outcome # "TypeError"
    /\ IF LokiShouldUpdateAlertRules
       THEN TellsOf("provider", "loki_push_api_alert_rules_changed", LokiAlerts(LokiRules(hook)))
       ELSE Silent

LokiProviderJoined ==
    /\ Runs("provider", "joined",
            IF leader["provider"] THEN Updated(app["provider"], Entry("promtail", "url"))
            ELSE app["provider"],
            unit["provider"])
    /\ Silent

LokiProviderChanged(hook) ==
    /\ LokiProcesses(hook)
    /\ Runs("provider", hook, app["provider"], LokiEndpoint(LokiUrl))

\* The unit of the other side is not seen any more, and its rules are gone.
LokiProviderDeparted ==
    /\ RunsOnly("provider", "departed")
    /\ TellsOf("provider", "loki_push_api_alert_rules_changed", {})

LokiProviderBroken ==
    /\ RunsOnly("provider", "broken")
    /\ TellsOf("provider", "loki_push_api_alert_rules_changed", {})

LokiProviderHook(hook) ==
    /\ interface \in LokiClients
    /\ \/ hook = "joined" /\ LokiProviderJoined
       \/ hook \in {"app", "unit"} /\ LokiProviderChanged(hook)
       \/ hook = "departed" /\ LokiProviderDeparted
       \/ hook = "broken" /\ LokiProviderBroken
       \/ hook \in {"created", "elected"} /\ RunsOnly("provider", hook) /\ Silent

\* An upgrade of the provider.
LokiProviderLifecycle ==
    /\ interface \in LokiClients
    /\ LokiProcesses("other")
    /\ Acts("provider", app["provider"], LokiEndpoint(LokiUrl), stored["provider"])

\* The charm of the provider gives another address, its ingress, until the next change.
LokiUpdateEndpoint ==
    /\ interface \in LokiClients
    /\ \E url \in Values :
           Acts("provider", app["provider"], LokiEndpoint(url), stored["provider"])
    /\ Silent

\* A provider that is none of this library, and complains of faulty rules.
LokiOfOtherMake ==
    /\ interface \in LokiClients
    /\ leader["provider"]
    /\ LokiRules("other") = "faulty"
    /\ Publishes("provider", Updated(app["provider"], Entry("event", "errors")))

(***************************************************************************)
(* The requirer                                                            *)
(***************************************************************************)
LokiEndpoints(hook) ==
    IF SeesUnit("requirer", hook) /\ Has(unit["provider"], {"endpoint"})
    THEN {unit["provider"].endpoint}
    ELSE {}

HandleAlertRules(rules) ==
    IF leader["requirer"] THEN [alert_rules |-> rules] ELSE app["requirer"]

KnownFaulty == told["requirer"] # Nothing /\ told["requirer"].faulty

\* A leader reads the complaint in each change, and tells of it.
ReadsFaulty == KnownFaulty \/ (leader["requirer"] /\ Has(app["provider"], {"event"}))

LokiTells(name, hook, faulty) ==
    TellsOf("requirer", name, [endpoints |-> LokiEndpoints(hook), faulty |-> faulty])

LokiJoined ==
    /\ \E rules \in RuleSets :
           Runs("requirer", "joined", HandleAlertRules(rules), unit["requirer"])
    /\ LokiTells("loki_push_api_endpoint_joined", "joined", KnownFaulty)

LokiChanged(hook) ==
    /\ RunsOnly("requirer", hook)
    /\ LokiTells("loki_push_api_endpoint_joined", hook, ReadsFaulty)

LokiDeparted ==
    /\ RunsOnly("requirer", "departed")
    /\ LokiTells("loki_push_api_endpoint_departed", "departed", KnownFaulty)

LokiConsumerHook(hook) ==
    /\ interface = "loki"
    /\ \/ hook = "joined" /\ LokiJoined
       \/ hook \in {"app", "unit"} /\ LokiChanged(hook)
       \/ hook = "departed" /\ LokiDeparted
       \/ hook \in {"created", "broken", "elected"} /\ RunsOnly("requirer", hook) /\ Silent

ReinitializeAlertRules ==
    \E rules \in RuleSets :
        Acts("requirer", HandleAlertRules(rules), unit["requirer"], stored["requirer"])

\* An upgrade, a change of the configuration, or what else the charm has named.
LokiLifecycle ==
    /\ interface = "loki"
    /\ ReinitializeAlertRules
    /\ LokiTells("loki_push_api_endpoint_joined", "other", KnownFaulty)

=============================================================================

------------------------------- MODULE Tracing -------------------------------
(***************************************************************************)
(* charm/lib/charms/tempo_coordinator_k8s/v0/tracing.py: the requirer asks *)
(* for protocols, the provider answers with the receivers it runs.         *)
(*                                                                         *)
(* The request is made when the charm's objects are made, that is in each  *)
(* hook, whatever it is about, in which the unit leads.                    *)
(***************************************************************************)
EXTENDS JujuRelation

TracingProtocols == {"otlp_http"}

TracingReceivers == [protocol : TracingProtocols, url : Values]

\* The required field decides whether a databag can be loaded; one is cleared before it is written.
TracingIsValid(bag) == Has(bag, {"receivers"})
TracingDump(receivers) == [receivers |-> receivers]

(***************************************************************************)
(* The requirer                                                            *)
(***************************************************************************)
\* A faulty variant: one asks when one is first there.
TracingAsksAtFirst(hook) ==
    IF leader["requirer"] /\ hook = "created" THEN [receivers |-> TracingProtocols]
    ELSE app["requirer"]

TracingRequestProtocols ==
    IF leader["requirer"] THEN TracingDump(TracingProtocols) ELSE app["requirer"]

\* What the constructor does, in the context of whichever hook.
TracingRequest(hook) ==
    IF hook = "broken" \/ stage["requirer"] = "none" THEN app["requirer"]
    ELSE TracingRequestProtocols

TracingEndpointChanged == Tells("requirer", "endpoint_changed")

TracingChanged ==
    IF TracingIsValid(app["provider"]) THEN TracingEndpointChanged
    ELSE TellsGone("requirer", "endpoint_removed")

TracingBroken == TellsGone("requirer", "endpoint_removed")

TracingRequirerHook(hook) ==
    /\ interface = "tracing"
    /\ Runs("requirer", hook, TracingRequest(hook), unit["requirer"])
    /\ \/ hook \in {"app", "unit"} /\ TracingChanged
       \/ hook = "broken" /\ TracingBroken
       \/ hook \in {"created", "joined", "departed", "elected"} /\ Silent

\* A hook that is not about the relation.
TracingOtherHook ==
    /\ interface = "tracing"
    /\ Publishes("requirer", TracingRequest("other"))

TracingIsReady(reading) == reading # Nothing /\ TracingIsValid(reading.app)

TracingAllEndpoints(reading) == IF TracingIsReady(reading) THEN reading.app.receivers ELSE Nothing

\* Any of the receivers for the protocol.
TracingFound(reading, protocol) ==
    LET receivers == TracingAllEndpoints(reading)
        found == IF receivers = Nothing THEN {} ELSE {r \in receivers : r.protocol = protocol}
    IN  IF found = {} THEN Nothing ELSE (CHOOSE r \in found : TRUE).url

\* The endpoint of a protocol that was requested may be missing; that of another is an error.
\* To find out which it is, the unit reads what only a leader may read.
TracingGetEndpoint(reading, protocol) ==
    IF TracingFound(reading, protocol) # Nothing THEN TracingFound(reading, protocol)
    ELSE IF ~ leader["requirer"] THEN "RelationDataAccessError"
    ELSE IF TracingIsValid(app["requirer"]) /\ protocol \in app["requirer"].receivers THEN Nothing
    ELSE "ProtocolNotRequestedError"

\* The endpoint the charm sends its own traces to; certificates are left out.
CharmTracingConfig(reading) ==
    IF TracingIsReady(reading) THEN TracingGetEndpoint(reading, "otlp_http") ELSE Nothing

(***************************************************************************)
(* The provider                                                            *)
(***************************************************************************)
TracingRequested == Tells("provider", "request")

TracingRelationEvent == IF TracingIsValid(app["requirer"]) THEN TracingRequested ELSE Silent

TracingProviderHook(hook) ==
    /\ interface = "tracing"
    /\ RunsOnly("provider", hook)
    /\ \/ hook \in {"created", "joined", "app", "unit"} /\ TracingRelationEvent
       \/ hook = "broken" /\ TellsGone("provider", "broken")
       \/ hook \in {"departed", "elected"} /\ Silent

TracingRequestedProtocols == IF TracingIsValid(app["requirer"]) THEN app["requirer"].receivers ELSE {}

\* All the receivers it runs; a relay that is not connected yet runs none.
TracingPublishReceivers ==
    /\ interface = "tracing"
    /\ leader["provider"]
    /\ \E receivers \in SUBSET TracingReceivers :
           /\ \A r \in receivers : r.protocol \in TracingRequestedProtocols
           /\ \A r1, r2 \in receivers : r1.protocol = r2.protocol => r1 = r2
           /\ Publishes("provider", TracingDump(receivers))

TracingHook(s, hook) == IF s = "requirer" THEN TracingRequirerHook(hook) ELSE TracingProviderHook(hook)

=============================================================================

--------------------------- MODULE MCIntegrations ---------------------------
(***************************************************************************)
(* Every interface, and two values.  Leadership changes on both sides for  *)
(* redis, ingress, tracing and dashboards, where the provider that leads   *)
(* stays a leader; on the side of the provider for s3, and there, but so   *)
(* that a leader stays one, for the one of the databases that the charm    *)
(* uses; and not for the others.  The database has one password, where the *)
(* others have two.  A provider of dashboards that is elected wakes the    *)
(* other side when it has run that hook, and not before, and has a file    *)
(* when it has one that was added.  Rules that are in order are left to    *)
(* loki, and promtail has none or faulty ones.                             *)
(***************************************************************************)
EXTENDS Integrations

CONSTANTS v1, v2

AllInterfaces == Flavours \cup {"redis", "saml", "s3", "ingress", "tracing", "scrape", "dashboards"}
                 \cup LokiClients

\* No jobs; jobs that share a name, and the units of one; one without a name, twice, and one
\* without targets; one that is bad.
JobLists ==
    LET ofUnits == [name |-> <<"job">>, targets |-> {"*"}]
        ofBoth == [name |-> <<"job">>, targets |-> {"*", "host"}]
        ofHosts == [name |-> <<"job">>, targets |-> {"host", "peer"}]
        unnamed == [name |-> << >>, targets |-> {"host"}]
        untargeted == [name |-> <<"peers">>, targets |-> Nothing]
        bad == [name |-> <<"job">>, targets |-> {"bad"}]
    IN  {<< >>, <<ofUnits, ofBoth, ofHosts>>, <<ofBoth, unnamed, unnamed, untargeted>>, <<ofUnits, bad>>}

Steady == CASE interface \in (Flavours \ {"database"}) \cup LokiClients \cup {"saml", "scrape"} -> Sides
            [] interface \in {"s3", "database"} -> {"requirer"}
            [] OTHER -> {}

MCInit == RelationInit /\ \A s \in Steady : leader[s]
MCNext ==
    /\ Next
    /\ \A s \in Steady : leader'[s] = leader[s]
    /\ interface = "dashboards" =>
           /\ leader["provider"] => leader'["provider"]
           /\ "elected" \in due'["provider"] => due'["requirer"] \subseteq due["requirer"]
           /\ stored'["provider"] # {"garbled"}
    /\ interface = "promtail" /\ Has(app'["requirer"], {"alert_rules"}) =>
           app'["requirer"].alert_rules # "valid"
    /\ interface = "database" => \A s \in Sides : leader[s] => leader'[s]
    /\ interface = "database" => stored'["provider"] # v2

\* Less than Fairness: only what LeaderIsHeard is about.
MCHookRuns(s, hooks) == interface \in {"ingress", "tracing"} /\ HookRuns(s, hooks)
MCSpec ==
    /\ MCInit
    /\ [][MCNext]_relationVars
    /\ \A s \in Sides : /\ WF_relationVars(MCHookRuns(s, RelationHooks))
                        /\ WF_relationVars(MCHookRuns(s, OtherHooks))

=============================================================================

----------------------------- MODULE Dashboards -----------------------------
(***************************************************************************)
(* charm/lib/charms/grafana_k8s/v0/grafana_dashboard.py: the charm is the  *)
(* provider, of the dashboards it has as files and of those it adds; the   *)
(* leader of the requirer renders them and keeps what it made of them for  *)
(* all units, in the databag it shares with its peers.                     *)
(*                                                                         *)
(* "file" is a dashboard from a file, "text" a file that is no JSON,       *)
(* "garbled" what the charm added and is no JSON, either; "corrupt" comes  *)
(* of providers of another make only, and cannot be decompressed.          *)
(* stored["provider"] is what the provider has, stored["requirer"] what    *)
(* was rendered: of the relation there is or was last, and of those before *)
(* it, each under an identifier that no relation has again.  What a unit   *)
(* that does not lead leaves there when the relation ends stays, and the   *)
(* charm goes on reading it.                                               *)
(***************************************************************************)
EXTENDS JujuRelation

Known(s) == IF stored[s] = Nothing THEN {} ELSE stored[s]

\* What the requirer reads as its dashboards.
PeerDashboards ==
    IF stored["requirer"] = Nothing THEN [this |-> {}, ended |-> {}] ELSE stored["requirer"]

(***************************************************************************)
(* The provider                                                            *)
(***************************************************************************)
\* A file that is no JSON is passed over.
LoadDashboardsFromDir(files) == files \ {"text"}

DashboardFiles == SUBSET {"file", "text"}

\* Those of files that are not there any more are dropped.
Reloaded(files) == (Known("provider") \ {"file"}) \cup LoadDashboardsFromDir(files)

\* The uuid is new with each publication.
Upset(dashboards) ==
    [dashboards |-> dashboards,
     uuid |-> IF Has(app["provider"], {"uuid"}) THEN 1 - app["provider"].uuid ELSE 0]

UpsetIfLeader(dashboards) ==
    IF leader["provider"] THEN Upset(dashboards) ELSE app["provider"]

DashboardsComplained == Has(app["requirer"], {"event"})

DashboardsCreated ==
    /\ \E files \in DashboardFiles :
           LET has == IF leader["provider"] THEN Reloaded(files) ELSE Known("provider")
           IN  RunsStoring("provider", "created", UpsetIfLeader(has), unit["provider"], has)
    /\ Silent

DashboardsProviderChanged(hook) ==
    /\ RunsOnly("provider", hook)
    /\ IF leader["provider"] /\ DashboardsComplained
       THEN TellsOf("provider", "dashboard_status_changed", app["requirer"].event)
       ELSE Silent

DashboardsElected ==
    /\ \E files \in DashboardFiles :
           RunsStoring("provider", "elected",
                       IF Related("provider") THEN UpsetIfLeader(Reloaded(files))
                       ELSE app["provider"],
                       unit["provider"], Reloaded(files))
    /\ Silent

DashboardsProviderHook(hook) ==
    /\ interface = "dashboards"
    /\ \/ hook = "created" /\ DashboardsCreated
       \/ hook \in {"app", "unit"} /\ DashboardsProviderChanged(hook)
       \/ hook = "elected" /\ DashboardsElected
       \/ hook \in {"joined", "departed", "broken"} /\ RunsOnly("provider", hook) /\ Silent

AddDashboard ==
    LET has == Known("provider") \cup {"garbled"}
    IN  PublishesStoring("provider", UpsetIfLeader(has), has)

RemoveNonBuiltinDashboards ==
    LET has == Known("provider") \cap {"file"}
    IN  PublishesStoring("provider", UpsetIfLeader(has), has)

\* An upgrade, a change of the configuration, or a call of the charm.
ReloadDashboards ==
    \E files \in DashboardFiles :
        PublishesStoring("provider", UpsetIfLeader(Reloaded(files)), Reloaded(files))

UpdateDashboards == Publishes("provider", UpsetIfLeader(Known("provider")))

DashboardsChange ==
    /\ interface = "dashboards"
    /\ AddDashboard \/ RemoveNonBuiltinDashboards \/ ReloadDashboards \/ UpdateDashboards

\* A provider that is none of this library.
DashboardsOfOtherMake ==
    /\ interface = "dashboards"
    /\ leader["provider"]
    /\ Publishes("provider", Upset({"file", "corrupt"}))

(***************************************************************************)
(* The requirer                                                            *)
(***************************************************************************)
DashboardsPublished ==
    IF Has(app["provider"], {"dashboards"}) THEN app["provider"].dashboards ELSE {}

\* What is no JSON is passed over.
Rendered(dashboards) == dashboards \ {"garbled"}

CannotBeRendered(dashboards) == "corrupt" \in dashboards

\* Of the relation these are kept, besides what is kept of others.
WithDashboards(dashboards) == [this |-> dashboards, ended |-> PeerDashboards.ended]

RunsKeeping(hook, appBag, dashboards) ==
    RunsStoring("requirer", hook, appBag, unit["requirer"], WithDashboards(dashboards))

TellsDashboards(dashboards) ==
    TellsOf("requirer", "dashboards_changed", WithDashboards(dashboards))

\* One that cannot be decompressed, and none of the relation is kept.  An empty list is never
\* what was stored, which is compared as an empty dict, and is told in every change.
RenderDashboards(hook) ==
    LET rendered == Rendered(DashboardsPublished)
    IN  \/ /\ CannotBeRendered(rendered)
           /\ RunsKeeping(hook, [event |-> {"corrupt"}], {})
           /\ TellsDashboards({})
        \/ /\ ~ CannotBeRendered(rendered)
           /\ RunsKeeping(hook, app["requirer"], rendered)
           /\ IF rendered = {} \/ rendered # PeerDashboards.this
              THEN TellsDashboards(rendered)
              ELSE Silent

DashboardsRequirerChanged(hook) ==
    \/ /\ leader["requirer"]
       /\ Has(app["provider"], {"dashboards"})
       /\ RenderDashboards(hook)
    \/ /\ leader["requirer"] => ~ Has(app["provider"], {"dashboards"})
       /\ RunsOnly("requirer", hook)
       /\ Silent

\* Not observed: the relation that was made has an identifier of its own.
DashboardsRequirerCreated ==
    /\ RunsStoring("requirer", "created", app["requirer"], unit["requirer"],
                   [this |-> {}, ended |-> PeerDashboards.ended \cup PeerDashboards.this])
    /\ Silent

DashboardsRequirerBroken ==
    IF leader["requirer"] /\ PeerDashboards.this # {}
    THEN RunsKeeping("broken", app["requirer"], {}) /\ TellsDashboards({})
    ELSE RunsOnly("requirer", "broken") /\ Silent

DashboardsRequirerHook(hook) ==
    /\ interface = "dashboards"
    /\ \/ hook = "created" /\ DashboardsRequirerCreated
       \/ hook \in {"app", "unit"} /\ DashboardsRequirerChanged(hook)
       \/ hook = "broken" /\ DashboardsRequirerBroken
       \/ hook \in {"joined", "departed", "elected"} /\ RunsOnly("requirer", hook) /\ Silent

DashboardsHook(s, hook) ==
    IF s = "requirer" THEN DashboardsRequirerHook(hook) ELSE DashboardsProviderHook(hook)

=============================================================================

------------------------------- MODULE Scrape -------------------------------
(***************************************************************************)
(* charm/lib/charms/prometheus_k8s/v0/prometheus_scrape.py: the charm is   *)
(* the provider here, of jobs that say where its metrics are and of alert  *)
(* rules; the requirer makes of them what Prometheus scrapes, and tells    *)
(* of what is faulty.                                                      *)
(*                                                                         *)
(* A job has a name or none, and targets or none: "*" is each unit of the  *)
(* provider, "bad" one that Prometheus refuses, and others are hosts.      *)
(* Names are sequences of their parts, and a hash or none when they are    *)
(* made unique.  What is read at an event are jobs and rules.              *)
(***************************************************************************)
EXTENDS JujuRelation, Sequences, SequencesExt

CONSTANT ScrapeJobLists     \* the lists of jobs a charm may ask for

\* A job that a charm may ask for, and a list of some.
IsScrapeJob(job) == job = [name |-> job.name, targets |-> job.targets] /\ job.targets # {}

IsJobList(jobs) ==
    /\ jobs \in Seq({jobs[i] : i \in DOMAIN jobs})
    /\ \A i \in DOMAIN jobs : IsScrapeJob(jobs[i])

ASSUME ScrapeAssumption == \A jobs \in ScrapeJobLists : IsJobList(jobs)

(***************************************************************************)
(* PrometheusConfig                                                        *)
(***************************************************************************)
DefaultJob == [name |-> << >>, targets |-> {"*"}]

\* A job that says nothing of targets has those of the default.
SanitizeScrapeConfig(job) ==
    IF job.targets = Nothing THEN [job EXCEPT !.targets = DefaultJob.targets] ELSE job

SanitizeScrapeConfigs(jobs) == [i \in DOMAIN jobs |-> SanitizeScrapeConfig(jobs[i])]

PrefixJobName(job) == [job EXCEPT !.name = <<"juju_topology">> \o @]

\* A job of its own for each unit behind a wildcard, and one for the targets that are named.
ExpandWildcards(job, hosts) ==
    LET named == job.targets \ {"*"}
        ofUnits == IF "*" \in job.targets
                   THEN {[name |-> Append(job.name, "0"), targets |-> {h}] : h \in hosts}
                   ELSE {}
        ofNamed == IF named # {} THEN {[job EXCEPT !.targets = named]} ELSE {}
    IN  SetToSeq(ofUnits) \o SetToSeq(ofNamed)

\* Jobs that share a name are told apart by a hash of what they are.
WithHash(job, hash) == [job EXCEPT !.name = [plain |-> @, hash |-> hash]]

TellApart(job, jobs) ==
    WithHash(job, IF Cardinality({i \in DOMAIN jobs : jobs[i].name = job.name}) > 1
                  THEN job.targets ELSE {})

\* A faulty variant: jobs keep the names they share.
DedupeEqualJobs(jobs) == {WithHash(jobs[i], {}) : i \in DOMAIN jobs}

DedupeJobNames(jobs) == {TellApart(jobs[i], jobs) : i \in DOMAIN jobs}

(***************************************************************************)
(* The provider                                                            *)
(***************************************************************************)
\* The host of the URL the charm gave, or the address the unit is bound to.
UnitAddress(external, bound) == IF external # Nothing THEN external ELSE bound

SetUnitIp(external, bound) == [address |-> UnitAddress(external, bound)]

ScrapeUnitData == {SetUnitIp(external, bound) : external \in Values \cup {Nothing}, bound \in Values}

\* Jobs that a charm computes anew are appended to the list each time it is asked for.
PublishableJobs(jobs) == IF jobs = << >> THEN <<DefaultJob>> ELSE jobs

\* The rules every charm has come with those of its own.
ScrapeRules == {"valid", "faulty"}

SetScrapeJobSpec(jobs, rules) ==
    IF leader["provider"]
    THEN [scrape_jobs |-> PublishableJobs(SanitizeScrapeConfigs(jobs)), alert_rules |-> rules]
    ELSE app["provider"]

\* The complaints, which are never taken back.
ScrapeComplaints ==
    IF Has(app["requirer"], {"event"}) THEN app["requirer"].event ELSE {}

ScrapeProviderJoined ==
    /\ \E jobs \in ScrapeJobLists, rules \in ScrapeRules, data \in ScrapeUnitData :
           Runs("provider", "joined", SetScrapeJobSpec(jobs, rules), data)
    /\ Silent

ScrapeProviderChanged(hook) ==
    /\ RunsOnly("provider", hook)
    /\ IF leader["provider"] /\ ScrapeComplaints # {}
       THEN TellsOf("provider", "alert_rule_status_changed", ScrapeComplaints)
       ELSE Silent

ScrapeProviderHook(hook) ==
    /\ interface = "scrape"
    /\ \/ hook = "joined" /\ ScrapeProviderJoined
       \/ hook \in {"app", "unit"} /\ ScrapeProviderChanged(hook)
       \/ /\ hook \in {"created", "departed", "broken", "elected"}
          /\ RunsOnly("provider", hook)
          /\ Silent

\* The events at which the charm has the library refresh what it published, with the jobs
\* it has by now.
UpdateScrapeJobSpec ==
    /\ interface = "scrape"
    /\ \E jobs \in ScrapeJobLists, rules \in ScrapeRules, data \in ScrapeUnitData :
           Acts("provider", SetScrapeJobSpec(jobs, rules), data,
                stored["provider"])
    /\ Silent

(***************************************************************************)
(* The requirer                                                            *)
(***************************************************************************)
RelationHosts == IF unit["provider"] = NoData THEN {} ELSE {unit["provider"].address}

PublishedJobs(hook) ==
    IF SeesUnit("requirer", hook) /\ Has(app["provider"], {"scrape_jobs"})
    THEN app["provider"].scrape_jobs
    ELSE << >>

StaticScrapeConfig(jobs) ==
    DedupeJobNames(FlattenSeq([i \in DOMAIN jobs |->
                                  ExpandWildcards(PrefixJobName(jobs[i]), RelationHosts)]))

\* cos-tool refuses the jobs together.
HasBadJob(jobs) == \E i \in DOMAIN jobs : "bad" \in jobs[i].targets

\* One bad job, and none of the relation is used.
JobsUsed(hook) ==
    IF HasBadJob(PublishedJobs(hook)) THEN {} ELSE StaticScrapeConfig(PublishedJobs(hook))

PublishedRules(hook) ==
    IF SeesUnit("requirer", hook) /\ Has(app["provider"], {"alert_rules"})
    THEN app["provider"].alert_rules
    ELSE "none"

RulesUsed(hook) == {PublishedRules(hook)} \cap {"valid"}

ScrapeFaults(hook) ==
    (IF HasBadJob(PublishedJobs(hook)) THEN {"scrape_job_errors"} ELSE {})
    \cup (IF PublishedRules(hook) = "faulty" THEN {"errors"} ELSE {})

\* A faulty variant: a complaint takes the place of the one before.
ScrapeComplainsAnew(hook) ==
    IF leader["requirer"] /\ HasBadJob(PublishedJobs(hook)) THEN [event |-> {"scrape_job_errors"}]
    ELSE IF leader["requirer"] /\ PublishedRules(hook) = "faulty" THEN [event |-> {"errors"}]
    ELSE app["requirer"]

\* A leader adds what is faulty to what it has complained of.
ScrapeComplains(hook) ==
    IF leader["requirer"] /\ ScrapeFaults(hook) # {}
    THEN [event |-> ScrapeComplaints \cup ScrapeFaults(hook)]
    ELSE app["requirer"]

\* The charm asks for the jobs and the rules when it is told that they changed.
TargetsChanged(hook) ==
    TellsOf("requirer", "targets_changed", [jobs |-> JobsUsed(hook), rules |-> RulesUsed(hook)])

ScrapeRequirerChanged(hook) ==
    Runs("requirer", hook, ScrapeComplains(hook), unit["requirer"]) /\ TargetsChanged(hook)

ScrapeRequirerDeparted == RunsOnly("requirer", "departed") /\ TargetsChanged("departed")

ScrapeRequirerHook(hook) ==
    /\ interface = "scrape"
    /\ \/ hook \in {"app", "unit"} /\ ScrapeRequirerChanged(hook)
       \/ hook = "departed" /\ ScrapeRequirerDeparted
       \/ hook \in {"created", "joined", "broken", "elected"} /\ RunsOnly("requirer", hook) /\ Silent

ScrapeHook(s, hook) ==
    IF s = "requirer" THEN ScrapeRequirerHook(hook) ELSE ScrapeProviderHook(hook)

=============================================================================

-------------------------- MODULE IntegrationsProofs --------------------------
(***************************************************************************)
(* The relations of the charm, for any values that may be published, any   *)
(* lists of jobs, and units that gain and lose the lead at any time.       *)
(*                                                                         *)
(* A behaviour is about one interface, which no step changes: an invariant *)
(* about an interface need only withstand the hooks of that interface, the *)
(* other steps of its charms, and Juju.                                    *)
(*                                                                         *)
(* NothingIsApart is a hypothesis of the theorems that need it: it says of *)
(* Nothing, which is None and what is absent, that it is nothing a databag *)
(* holds or a charm is told.                                               *)
(***************************************************************************)
EXTENDS Integrations, SequenceTheorems, FiniteSetTheorems, WellFoundedInduction, TLAPS

LEMMA TheSides ==
    /\ Sides = {"requirer", "provider"}
    /\ Other("requirer") = "provider" /\ Other("provider") = "requirer"
    /\ \A s \in Sides : Other(s) \in Sides /\ Other(s) # s
<1>1. ASSUME NEW s \in Sides
      PROVE  Other(s) \in Sides /\ Other(s) # s
  BY DEF Sides, Other
<1> QED
  BY <1>1 DEF Sides

(***************************************************************************)
(* Which steps there are for an interface                                  *)
(***************************************************************************)
LEMMA HooksKnowTheirInterface ==
    ASSUME NEW s, NEW hook
    PROVE  /\ RedisHook(s, hook) => interface = "redis"
           /\ SamlHook(s, hook) => interface = "saml"
           /\ S3Hook(s, hook) => interface = "s3"
           /\ IngressHook(s, hook) => interface = "ingress"
           /\ TracingHook(s, hook) => interface = "tracing"
           /\ DataHook(s, hook) => interface \in Flavours
           /\ LokiHook(s, hook) => interface \in LokiClients
           /\ ScrapeHook(s, hook) => interface = "scrape"
           /\ DashboardsHook(s, hook) => interface = "dashboards"
<1>1. RedisHook(s, hook) => interface = "redis"
  BY Zenon DEF RedisHook, RedisRequirerHook, RedisProviderHook
<1>2. SamlHook(s, hook) => interface = "saml"
  BY Zenon DEF SamlHook, SamlRequirerHook, SamlProviderHook
<1>3. S3Hook(s, hook) => interface = "s3"
  BY Zenon DEF S3Hook, S3RequirerHook, S3ProviderHook
<1>4. IngressHook(s, hook) => interface = "ingress"
  BY Zenon DEF IngressHook, IngressRequirerHook, IngressProviderHook
<1>5. TracingHook(s, hook) => interface = "tracing"
  BY Zenon DEF TracingHook, TracingRequirerHook, TracingProviderHook
<1>6. DataHook(s, hook) => interface \in Flavours
  BY Zenon DEF DataHook, DataRequirerHook, DataProviderHook
<1>7. LokiHook(s, hook) => interface \in LokiClients
  <2>1. LokiProviderHook(hook) => interface \in LokiClients
    BY Zenon DEF LokiProviderHook
  <2>2. LokiConsumerHook(hook) => interface = "loki"
    BY Zenon DEF LokiConsumerHook
  <2>3. ForwarderHook(hook) => interface = "forwarder"
    BY Zenon DEF ForwarderHook
  <2>4. PromtailHook(hook) => interface = "promtail"
    BY Zenon DEF PromtailHook
  <2> QED
    BY <2>1, <2>2, <2>3, <2>4 DEF LokiHook, LokiClients
<1>8. ScrapeHook(s, hook) => interface = "scrape"
  BY Zenon DEF ScrapeHook, ScrapeRequirerHook, ScrapeProviderHook
<1>9. DashboardsHook(s, hook) => interface = "dashboards"
  BY Zenon DEF DashboardsHook, DashboardsRequirerHook, DashboardsProviderHook
<1> QED
  BY <1>1, <1>2, <1>3, <1>4, <1>5, <1>6, <1>7, <1>8, <1>9

\* Of a charm, what is no hook of the relation.
RedisStep == RedisFailover
SamlStep == SamlUpdateRelationData
S3Step == S3SetConnectionInfo
IngressStep == IngressPublishUrl \/ IngressWipeData
TracingStep == TracingPublishReceivers \/ TracingOtherHook
DataStep == SetCredentials \/ SetEndpoints
LokiStep ==
    \/ LokiProviderLifecycle \/ LokiUpdateEndpoint \/ LokiOfOtherMake
    \/ LokiLifecycle \/ LogContainerReplaced
ScrapeStep == UpdateScrapeJobSpec
DashboardsStep == DashboardsChange \/ DashboardsOfOtherMake

AllHooks == RelationHooks \cup OtherHooks

LEMMA StepsKnowTheirInterface ==
    /\ RedisStep => interface = "redis"
    /\ SamlStep => interface = "saml"
    /\ S3Step => interface = "s3"
    /\ IngressStep => interface = "ingress"
    /\ TracingStep => interface = "tracing"
    /\ DataStep => interface \in Flavours
    /\ LokiStep => interface \in LokiClients
    /\ ScrapeStep => interface = "scrape"
    /\ DashboardsStep => interface = "dashboards"
<1>1. RedisStep => interface = "redis"
  BY Zenon DEF RedisStep, RedisFailover
<1>2. SamlStep => interface = "saml"
  BY Zenon DEF SamlStep, SamlUpdateRelationData
<1>3. S3Step => interface = "s3"
  BY Zenon DEF S3Step, S3SetConnectionInfo
<1>4. IngressStep => interface = "ingress"
  BY Zenon DEF IngressStep, IngressPublishUrl, IngressWipeData
<1>5. TracingStep => interface = "tracing"
  BY Zenon DEF TracingStep, TracingPublishReceivers, TracingOtherHook
<1>6. DataStep => interface \in Flavours
  <2>1. \A field, value : UpdateRelationData(field, value) => interface \in Flavours
    BY Zenon DEF UpdateRelationData
  <2> QED
    BY <2>1 DEF DataStep, SetCredentials, SetEndpoints, DatabaseSetEndpoints,
                KafkaSetBootstrapServer, OpenSearchSetEndpoints, EtcdSetEndpoints
<1>7. LokiStep => interface \in LokiClients
  <2>1. LokiLifecycle => interface = "loki"
    BY Zenon DEF LokiLifecycle
  <2>2. LogContainerReplaced => interface \in {"forwarder", "promtail"}
    BY Zenon DEF LogContainerReplaced
  <2>3. LokiProviderLifecycle \/ LokiUpdateEndpoint \/ LokiOfOtherMake
            => interface \in LokiClients
    BY Zenon DEF LokiProviderLifecycle, LokiUpdateEndpoint, LokiOfOtherMake
  <2> QED
    BY <2>1, <2>2, <2>3 DEF LokiStep, LokiClients
<1>8. ScrapeStep => interface = "scrape"
  BY Zenon DEF ScrapeStep, UpdateScrapeJobSpec
<1>9. DashboardsStep => interface = "dashboards"
  BY Zenon DEF DashboardsStep, DashboardsChange, DashboardsOfOtherMake
<1> QED
  BY <1>1, <1>2, <1>3, <1>4, <1>5, <1>6, <1>7, <1>8, <1>9

\* A step is one of Juju's, or one of the charms of the interface.
LEMMA StepOfTheInterface ==
    ASSUME Next
    PROVE  \/ Juju
           \/ interface = "redis"
              /\ (RedisStep \/ \E s \in Sides, hook \in AllHooks : RedisHook(s, hook))
           \/ interface = "saml"
              /\ (SamlStep \/ \E s \in Sides, hook \in AllHooks : SamlHook(s, hook))
           \/ interface = "s3"
              /\ (S3Step \/ \E s \in Sides, hook \in AllHooks : S3Hook(s, hook))
           \/ interface = "ingress"
              /\ (IngressStep \/ \E s \in Sides, hook \in AllHooks : IngressHook(s, hook))
           \/ interface = "tracing"
              /\ (TracingStep \/ \E s \in Sides, hook \in AllHooks : TracingHook(s, hook))
           \/ interface \in Flavours
              /\ (DataStep \/ \E s \in Sides, hook \in AllHooks : DataHook(s, hook))
           \/ interface \in LokiClients
              /\ (LokiStep \/ \E s \in Sides, hook \in AllHooks : LokiHook(s, hook))
           \/ interface = "scrape"
              /\ (ScrapeStep \/ \E s \in Sides, hook \in AllHooks : ScrapeHook(s, hook))
           \/ interface = "dashboards"
              /\ (DashboardsStep \/ \E s \in Sides, hook \in AllHooks : DashboardsHook(s, hook))
<1>1. CASE \E s \in Sides : HookRuns(s, RelationHooks \cup OtherHooks)
  <2>1. PICK s \in Sides, hook \in AllHooks : Hook(s, hook)
    BY Zenon, <1>1 DEF HookRuns, AllHooks
  <2> QED
    BY Zenon, <2>1, HooksKnowTheirInterface DEF Hook
<1>2. CASE ProviderPublishes
  BY Zenon, <1>2, StepsKnowTheirInterface
     DEF ProviderPublishes, RedisStep, SamlStep, S3Step, IngressStep, TracingStep, DataStep,
         LokiStep, ScrapeStep, DashboardsStep
<1>3. CASE TracingOtherHook \/ LokiLifecycle \/ LogContainerReplaced
  BY Zenon, <1>3, StepsKnowTheirInterface DEF TracingStep, LokiStep
<1> QED
  BY Zenon, <1>1, <1>2, <1>3 DEF Next

-----------------------------------------------------------------------------
(***************************************************************************)
(* What a step does to the relation, whatever the library                  *)
(***************************************************************************)
Stages == {"none", "new", "created", "joined", "departed"}
DueHooks == {"app", "unit", "secret", "elected", "ready"}

FrameOK ==
    /\ interface \in Interfaces
    /\ dying \in BOOLEAN /\ led \in BOOLEAN
    /\ stage \in [Sides -> Stages]
    /\ due \in [Sides -> SUBSET DueHooks]
    /\ leader \in [Sides -> BOOLEAN]
    /\ led => \A s \in Sides : leader[s]
    /\ DOMAIN app = Sides /\ DOMAIN unit = Sides /\ DOMAIN stored = Sides /\ DOMAIN told = Sides

LEMMA FrameStart == RelationInit => FrameOK
  BY DEF RelationInit, FrameOK, Stages

\* The databags, and whom a change wakes.
Written(s, o, appBag, unitBag) ==
    /\ app'[s] = appBag /\ app'[o] = app[o]
    /\ unit'[s] = unitBag /\ unit'[o] = unit[o]
    /\ \A h : h \in due'[o] <=> \/ h \in due[o]
                                \/ h = "app" /\ appBag # app[s]
                                \/ h = "unit" /\ unitBag # unit[s]

\* Of a hook that runs.
HookRan(s, o, hook, appBag, unitBag, value) ==
    /\ Comes(s, hook)
    /\ interface' = interface /\ dying' = dying /\ leader' = leader /\ led' = led
    /\ stage'[o] = stage[o]
    /\ stage'[s] = IF hook = "broken" THEN "none"
                   ELSE IF hook \in {"created", "joined", "departed"} THEN hook ELSE stage[s]
    /\ \A h : h \in due'[s] <=> \/ h \in due[s] /\ h # hook
                                \/ h = "unit" /\ hook = "joined"
    /\ Written(s, o, appBag, unitBag)
    /\ stored'[s] = value /\ stored'[o] = stored[o]

LEMMA HookFacts ==
    ASSUME FrameOK, NEW s \in Sides, NEW o, o = Other(s), NEW hook,
           NEW appBag, NEW unitBag, NEW value, RunsStoring(s, hook, appBag, unitBag, value)
    PROVE  /\ HookRan(s, o, hook, appBag, unitBag, value)
           /\ DOMAIN told' = Sides => FrameOK'
<1>1. s \in Sides /\ o \in Sides /\ s # o
  BY TheSides
<1> DEFINE woken == {h \in {"app", "unit"} : \/ h = "app" /\ appBag # app[s]
                                             \/ h = "unit" /\ unitBag # unit[s]}
           kept == (due[s] \ {hook}) \cup (IF hook = "joined" THEN {"unit"} ELSE {})
<1>2. /\ app' = [app EXCEPT ![s] = appBag]
      /\ unit' = [unit EXCEPT ![s] = unitBag]
      /\ due' = [due EXCEPT ![s] = kept, ![o] = @ \cup woken]
  BY DEF RunsStoring, Writes
<1>3. /\ due'[s] = kept /\ due'[o] = due[o] \cup woken
      /\ due' \in [Sides -> SUBSET DueHooks]
  <2>1. due[s] \in SUBSET DueHooks /\ due[o] \in SUBSET DueHooks
    BY <1>1 DEF FrameOK
  <2>2. kept \in SUBSET DueHooks /\ due[o] \cup woken \in SUBSET DueHooks
    BY <2>1 DEF DueHooks
  <2> HIDE DEF kept, woken
  <2> QED
    BY <1>1, <1>2, <2>2 DEF FrameOK
<1>4. Written(s, o, appBag, unitBag)
  BY <1>1, <1>2, <1>3 DEF Written, FrameOK
<1>5. /\ Comes(s, hook)
      /\ interface' = interface /\ dying' = dying /\ leader' = leader /\ led' = led
      /\ stored' = [stored EXCEPT ![s] = value]
      /\ stage' = [stage EXCEPT ![s] = IF hook = "broken" THEN "none"
                                       ELSE IF hook \in {"created", "joined", "departed"} THEN hook
                                       ELSE @]
  BY DEF RunsStoring
<1>6. /\ stage' \in [Sides -> Stages]
      /\ stage'[o] = stage[o]
      /\ stage'[s] = IF hook = "broken" THEN "none"
                     ELSE IF hook \in {"created", "joined", "departed"} THEN hook ELSE stage[s]
  BY <1>1, <1>5 DEF FrameOK, Stages
<1>7. stored'[s] = value /\ stored'[o] = stored[o] /\ DOMAIN stored' = Sides
  BY <1>1, <1>5 DEF FrameOK
<1>8. DOMAIN app' = Sides /\ DOMAIN unit' = Sides
  BY <1>2 DEF FrameOK
<1>9. \A h : h \in due'[s] <=> \/ h \in due[s] /\ h # hook
                               \/ h = "unit" /\ hook = "joined"
  BY <1>3
<1>10. HookRan(s, o, hook, appBag, unitBag, value)
  BY <1>4, <1>5, <1>6, <1>7, <1>9 DEF HookRan
<1>11. ASSUME DOMAIN told' = Sides
       PROVE  FrameOK'
  BY <1>3, <1>5, <1>6, <1>7, <1>8, <1>11 DEF FrameOK
<1> QED
  BY <1>10, <1>11

\* Of a call of the library outside the hooks.
Acted(s, o, appBag, unitBag, value) ==
    /\ ~ dying /\ stage[s] \in {"created", "joined"}
    /\ interface' = interface /\ dying' = dying /\ leader' = leader /\ led' = led
    /\ stage' = stage
    /\ \A h : h \in due'[s] <=> h \in due[s]
    /\ Written(s, o, appBag, unitBag)
    /\ stored'[s] = value /\ stored'[o] = stored[o]

LEMMA ActFacts ==
    ASSUME FrameOK, NEW s \in Sides, NEW o, o = Other(s),
           NEW appBag, NEW unitBag, NEW value, Acts(s, appBag, unitBag, value)
    PROVE  /\ Acted(s, o, appBag, unitBag, value)
           /\ DOMAIN told' = Sides => FrameOK'
<1>1. s \in Sides /\ o \in Sides /\ s # o
  BY TheSides
<1> DEFINE woken == {h \in {"app", "unit"} : \/ h = "app" /\ appBag # app[s]
                                             \/ h = "unit" /\ unitBag # unit[s]}
<1>2. /\ app' = [app EXCEPT ![s] = appBag]
      /\ unit' = [unit EXCEPT ![s] = unitBag]
      /\ due' = [due EXCEPT ![s] = due[s], ![o] = @ \cup woken]
      /\ stored' = [stored EXCEPT ![s] = value]
      /\ ~ dying /\ stage[s] \in {"created", "joined"}
      /\ interface' = interface /\ dying' = dying /\ leader' = leader /\ led' = led
      /\ stage' = stage
  BY DEF Acts, Related, Writes
<1>3. /\ due'[s] = due[s] /\ due'[o] = due[o] \cup woken
      /\ due' \in [Sides -> SUBSET DueHooks]
  <2>1. due[s] \in SUBSET DueHooks /\ due[o] \in SUBSET DueHooks
    BY <1>1 DEF FrameOK
  <2>2. due[o] \cup woken \in SUBSET DueHooks
    BY <2>1 DEF DueHooks
  <2> HIDE DEF woken
  <2> QED
    BY <1>1, <1>2, <2>1, <2>2 DEF FrameOK
<1>4. Written(s, o, appBag, unitBag)
  BY <1>1, <1>2, <1>3 DEF Written, FrameOK
<1>5. stored'[s] = value /\ stored'[o] = stored[o] /\ DOMAIN stored' = Sides
  BY <1>1, <1>2 DEF FrameOK
<1>6. DOMAIN app' = Sides /\ DOMAIN unit' = Sides
  BY <1>2 DEF FrameOK
<1>7. Acted(s, o, appBag, unitBag, value)
  BY <1>2, <1>3, <1>4, <1>5 DEF Acted
<1>8. ASSUME DOMAIN told' = Sides
      PROVE  FrameOK'
  BY <1>2, <1>3, <1>5, <1>6, <1>8 DEF FrameOK
<1> QED
  BY <1>7, <1>8

\* What the charm of a side hears.
Heard(s, o, name, says, reading) ==
    /\ event' = [name |-> name, says |-> says] /\ event'.name = name /\ event'.says = says
    /\ told'[s] = reading /\ told'[o] = told[o]
    /\ DOMAIN told' = Sides

NothingHeard == event' = NoEvent /\ event'.name = "none" /\ told' = told /\ DOMAIN told' = Sides

LEMMA HeardFacts ==
    ASSUME FrameOK
    PROVE  /\ Silent => NothingHeard
           /\ \A s \in Sides : \A name, says, reading :
                  TellsSaying(s, name, says, reading) => Heard(s, Other(s), name, says, reading)
<1>1. Silent => NothingHeard
  BY DEF Silent, NothingHeard, NoEvent, FrameOK
<1>2. ASSUME NEW s \in Sides, NEW name, NEW says, NEW reading,
             TellsSaying(s, name, says, reading)
      PROVE  Heard(s, Other(s), name, says, reading)
  BY <1>2, TheSides DEF TellsSaying, Heard, FrameOK
<1> QED
  BY <1>1, <1>2

\* The same, side by side.
LEMMA TheRequirer ==
    ASSUME FrameOK
    PROVE  /\ \A hook, appBag, unitBag, value :
                  RunsStoring("requirer", hook, appBag, unitBag, value) =>
                      HookRan("requirer", "provider", hook, appBag, unitBag, value)
           /\ \A appBag, unitBag, value :
                  Acts("requirer", appBag, unitBag, value) =>
                      Acted("requirer", "provider", appBag, unitBag, value)
           /\ \A name, says, reading :
                  TellsSaying("requirer", name, says, reading) =>
                      Heard("requirer", "provider", name, says, reading)
  BY TheSides, HookFacts, ActFacts, HeardFacts

LEMMA TheProvider ==
    ASSUME FrameOK
    PROVE  /\ \A hook, appBag, unitBag, value :
                  RunsStoring("provider", hook, appBag, unitBag, value) =>
                      HookRan("provider", "requirer", hook, appBag, unitBag, value)
           /\ \A appBag, unitBag, value :
                  Acts("provider", appBag, unitBag, value) =>
                      Acted("provider", "requirer", appBag, unitBag, value)
           /\ \A name, says, reading :
                  TellsSaying("provider", name, says, reading) =>
                      Heard("provider", "requirer", name, says, reading)
  BY TheSides, HookFacts, ActFacts, HeardFacts

(***************************************************************************)
(* What Juju and its operator do                                           *)
(***************************************************************************)
Made ==
    /\ interface' = interface /\ leader' = leader /\ stored' = stored
    /\ dying' = FALSE
    /\ led' = \A s \in Sides : leader[s]
    /\ \A s \in Sides :
           /\ stage[s] = "none" /\ stage'[s] = "new"
           /\ due'[s] = due[s] \cap {"elected", "ready"}
           /\ app'[s] = NoData /\ unit'[s] = NoData
           /\ told'[s] = Nothing

Removed ==
    /\ interface' = interface /\ leader' = leader /\ led' = led /\ due' = due
    /\ app' = app /\ unit' = unit /\ stored' = stored /\ told' = told
    /\ ~ dying /\ dying' = TRUE
    /\ \A s \in Sides : stage'[s] = IF stage[s] = "new" THEN "none" ELSE stage[s]

Elected ==
    /\ interface' = interface /\ dying' = dying /\ stage' = stage
    /\ app' = app /\ unit' = unit /\ stored' = stored /\ told' = told
    /\ led' = FALSE
    /\ \A s \in Sides : \A h : h # "elected" => (h \in due'[s] <=> h \in due[s])
    /\ \A s \in Sides : "elected" \notin due'[s] /\ leader'[s] =>
           leader[s] /\ "elected" \notin due[s]
    /\ \E s \in Sides : leader'[s] = ~ leader[s] /\ \A t \in Sides \ {s} : leader'[t] = leader[t]

Replaced ==
    /\ interface' = interface /\ dying' = dying /\ stage' = stage
    /\ leader' = leader /\ led' = led
    /\ app' = app /\ unit' = unit /\ told' = told
    /\ stored'["requirer"] = Nothing /\ stored'["provider"] = stored["provider"]
    /\ due'["provider"] = due["provider"]
    /\ \A h : h \in due'["requirer"] <=> h \in due["requirer"] \/ h = "ready"

LEMMA JujuFacts ==
    ASSUME FrameOK, Juju
    PROVE  (Made \/ Removed \/ Elected) /\ event' = NoEvent /\ FrameOK'
<1>1. CASE Relate
  <2>1. Made /\ event' = NoEvent
    BY <1>1 DEF Relate, Made
  <2>2. /\ stage' = [s \in Sides |-> "new"]
        /\ due' = [s \in Sides |-> due[s] \cap {"elected", "ready"}]
        /\ DOMAIN app' = Sides /\ DOMAIN unit' = Sides /\ DOMAIN told' = Sides
    BY <1>1 DEF Relate
  <2>3. FrameOK'
    BY <2>1, <2>2 DEF FrameOK, Made, Stages, DueHooks
  <2> QED
    BY <2>1, <2>3
<1>2. CASE Unrelate
  <2>1. Removed /\ event' = NoEvent
    BY <1>2 DEF Unrelate, Removed, databags
  <2>2. stage' \in [Sides -> Stages]
    BY <1>2 DEF Unrelate, FrameOK, Stages
  <2>3. FrameOK'
    BY <2>1, <2>2 DEF FrameOK, Removed
  <2> QED
    BY <2>1, <2>3
<1>3. ASSUME NEW s \in Sides, Elect(s)
      PROVE  (Made \/ Removed \/ Elected) /\ event' = NoEvent /\ FrameOK'
  <2>1. /\ leader' = [leader EXCEPT ![s] = ~ @]
        /\ due' = [due EXCEPT ![s] = IF leader'[s] THEN @ \cup {"elected"} ELSE @ \ {"elected"}]
        /\ interface' = interface /\ dying' = dying /\ stage' = stage
        /\ app' = app /\ unit' = unit /\ stored' = stored /\ told' = told
        /\ led' = FALSE /\ event' = NoEvent
    BY <1>3 DEF Elect, databags
  <2>2. /\ leader'[s] = ~ leader[s] /\ \A t \in Sides \ {s} : leader'[t] = leader[t]
        /\ leader' \in [Sides -> BOOLEAN]
    BY <2>1 DEF FrameOK
  <2>3. /\ due'[s] = IF leader'[s] THEN due[s] \cup {"elected"} ELSE due[s] \ {"elected"}
        /\ \A t \in Sides \ {s} : due'[t] = due[t]
        /\ due' \in [Sides -> SUBSET DueHooks]
    <3>1. due[s] \in SUBSET DueHooks
      BY DEF FrameOK
    <3> DEFINE d == IF leader'[s] THEN due[s] \cup {"elected"} ELSE due[s] \ {"elected"}
    <3>2. d \in SUBSET DueHooks
      BY <3>1 DEF DueHooks
    <3>3. due' = [due EXCEPT ![s] = d]
      BY <2>1
    <3> HIDE DEF d
    <3>4. due'[s] = d /\ (\A t \in Sides \ {s} : due'[t] = due[t]) /\ due' \in [Sides -> SUBSET DueHooks]
      BY <3>2, <3>3 DEF FrameOK
    <3> QED
      BY <3>4 DEF d
  <2>4. \A t \in Sides : \A h : h # "elected" => (h \in due'[t] <=> h \in due[t])
    BY <2>3
  <2>5. \A t \in Sides : "elected" \notin due'[t] /\
            leader'[t] => leader[t] /\ "elected" \notin due[t]
    BY <2>2, <2>3
  <2>6. Elected
    BY <2>1, <2>2, <2>4, <2>5 DEF Elected
  <2>7. FrameOK'
    BY <2>1, <2>2, <2>3 DEF FrameOK
  <2> QED
    BY <2>1, <2>6, <2>7
<1> QED
  BY <1>1, <1>2, <1>3 DEF Juju

LEMMA ReplacedFacts ==
    ASSUME FrameOK, ContainerReplaced("requirer")
    PROVE  Replaced /\ event' = NoEvent /\ FrameOK'
<1>1. "requirer" \in Sides /\ "provider" \in Sides
  BY TheSides
<1>2. Replaced /\ event' = NoEvent
  BY <1>1 DEF ContainerReplaced, Replaced, FrameOK, databags
<1>3. due' \in [Sides -> SUBSET DueHooks]
  BY <1>1 DEF ContainerReplaced, FrameOK, DueHooks
<1>4. DOMAIN stored' = Sides
  BY DEF ContainerReplaced, FrameOK
<1> QED
  BY <1>2, <1>3, <1>4 DEF Replaced, FrameOK

(***************************************************************************)
(* Every step keeps the frame.  A handler runs a hook of its side, or acts *)
(* for it, and the charm of that side hears of it or not.                  *)
(***************************************************************************)
Moves(s) ==
    \/ \E hook, appBag, unitBag, value : RunsStoring(s, hook, appBag, unitBag, value)
    \/ \E appBag, unitBag, value : Acts(s, appBag, unitBag, value)

MayHear(s) == Silent \/ \E name, says, reading : TellsSaying(s, name, says, reading)

LEMMA MovesKeepFrame ==
    ASSUME FrameOK, NEW s \in Sides, Moves(s), MayHear(s)
    PROVE  FrameOK' /\ interface' = interface
<1>1. DOMAIN told' = Sides
  BY HeardFacts DEF MayHear, NothingHeard, Heard
<1>2. CASE \E hook, appBag, unitBag, value : RunsStoring(s, hook, appBag, unitBag, value)
  <2>1. PICK hook, appBag, unitBag, value : RunsStoring(s, hook, appBag, unitBag, value)
    BY <1>2
  <2>2. HookRan(s, Other(s), hook, appBag, unitBag, value) /\ FrameOK'
    BY Zenon, <1>1, <2>1, HookFacts
  <2> QED
    BY Zenon, <2>2 DEF HookRan
<1>3. CASE \E appBag, unitBag, value : Acts(s, appBag, unitBag, value)
  <2>1. PICK appBag, unitBag, value : Acts(s, appBag, unitBag, value)
    BY <1>3
  <2>2. Acted(s, Other(s), appBag, unitBag, value) /\ FrameOK'
    BY Zenon, <1>1, <2>1, ActFacts
  <2> QED
    BY Zenon, <2>2 DEF Acted
<1> QED
  BY <1>2, <1>3 DEF Moves

\* The shorthands of JujuRelation, unfolded once.
LEMMA Shorthands ==
    ASSUME NEW s, NEW hook, NEW appBag, NEW unitBag, NEW value, NEW name, NEW reading
    PROVE  /\ RunsStoring(s, hook, appBag, unitBag, value) => Moves(s)
           /\ Runs(s, hook, appBag, unitBag) => Moves(s)
           /\ RunsOnly(s, hook) => Moves(s)
           /\ Acts(s, appBag, unitBag, value) => Moves(s)
           /\ PublishesStoring(s, appBag, value) => Moves(s) /\ MayHear(s)
           /\ Publishes(s, appBag) => Moves(s) /\ MayHear(s)
           /\ Silent => MayHear(s)
           /\ TellsOf(s, name, reading) => MayHear(s)
           /\ Tells(s, name) => MayHear(s)
           /\ TellsGone(s, name) => MayHear(s)
  BY Zenon DEF Runs, RunsOnly, Moves, MayHear, PublishesStoring, Publishes, TellsOf, Tells, TellsGone

LEMMA RedisMoves ==
    ASSUME NEW hook
    PROVE  /\ RedisRequirerHook(hook)
               => Moves("requirer") /\ MayHear("requirer")
           /\ RedisProviderHook(hook) \/ RedisStep
               => Moves("provider") /\ MayHear("provider")
<1>1. RedisRequirerHook(hook) => Moves("requirer") /\ MayHear("requirer")
  BY Zenon, Shorthands DEF RedisRequirerHook
<1>2. RedisProviderHook(hook) => Moves("provider") /\ MayHear("provider")
  BY Zenon, Shorthands DEF RedisProviderHook
<1>3. RedisStep => Moves("provider") /\ MayHear("provider")
  BY Zenon, Shorthands DEF RedisStep, RedisFailover
<1> QED
  BY Zenon, <1>1, <1>2, <1>3

LEMMA SamlMoves ==
    ASSUME NEW hook
    PROVE  /\ SamlRequirerHook(hook)
               => Moves("requirer") /\ MayHear("requirer")
           /\ SamlProviderHook(hook) \/ SamlStep
               => Moves("provider") /\ MayHear("provider")
<1>1. SamlRequirerHook(hook) => Moves("requirer") /\ MayHear("requirer")
  BY Zenon, Shorthands DEF SamlRequirerHook, SamlDataAvailable
<1>2. SamlProviderHook(hook) => Moves("provider") /\ MayHear("provider")
  BY Zenon, Shorthands DEF SamlProviderHook
<1>3. SamlStep => Moves("provider") /\ MayHear("provider")
  BY Zenon, Shorthands DEF SamlStep, SamlUpdateRelationData
<1> QED
  BY Zenon, <1>1, <1>2, <1>3

LEMMA S3Moves ==
    ASSUME NEW hook
    PROVE  /\ S3RequirerHook(hook)
               => Moves("requirer") /\ MayHear("requirer")
           /\ S3ProviderHook(hook) \/ S3Step
               => Moves("provider") /\ MayHear("provider")
<1>1. S3RequirerHook(hook) => Moves("requirer") /\ MayHear("requirer")
  BY Zenon, Shorthands DEF S3RequirerHook, S3Joined, S3Changed, S3CredentialsChanged, S3Broken
<1>2. S3ProviderHook(hook) => Moves("provider") /\ MayHear("provider")
  BY Zenon, Shorthands DEF S3ProviderHook, S3BucketRequested
<1>3. S3Step => Moves("provider") /\ MayHear("provider")
  BY Zenon, Shorthands DEF S3Step, S3SetConnectionInfo, S3SetOption, S3UpdateConnectionInfo
<1> QED
  BY Zenon, <1>1, <1>2, <1>3

LEMMA IngressMoves ==
    ASSUME NEW hook
    PROVE  /\ IngressRequirerHook(hook)
               => Moves("requirer") /\ MayHear("requirer")
           /\ IngressProviderHook(hook) \/ IngressStep
               => Moves("provider") /\ MayHear("provider")
<1>1. IngressHandlesRelation(hook) => Moves("requirer") /\ MayHear("requirer")
  BY Zenon, Shorthands DEF IngressHandlesRelation, IngressReady
<1>2. IngressRevoked => Moves("requirer") /\ MayHear("requirer")
  BY Zenon, Shorthands DEF IngressRevoked
<1>3. IngressElected => Moves("requirer") /\ MayHear("requirer")
  BY Zenon, Shorthands DEF IngressElected
<1>4. IngressRequirerHook(hook) => Moves("requirer") /\ MayHear("requirer")
  BY Zenon, <1>1, <1>2, <1>3 DEF IngressRequirerHook
<1>5. IngressHandlesRequirer(hook) => MayHear("provider")
  BY Zenon, Shorthands DEF IngressHandlesRequirer, IngressDataProvided
<1>6. IngressProviderHook(hook) => Moves("provider") /\ MayHear("provider")
  BY Zenon, <1>5, Shorthands DEF IngressProviderHook
<1>7. IngressStep => Moves("provider") /\ MayHear("provider")
  BY Zenon, Shorthands DEF IngressStep, IngressPublishUrl, IngressWipeData
<1> QED
  BY Zenon, <1>4, <1>6, <1>7

LEMMA TracingMoves ==
    ASSUME NEW hook
    PROVE  /\ TracingRequirerHook(hook) \/ TracingOtherHook
               => Moves("requirer") /\ MayHear("requirer")
           /\ TracingProviderHook(hook) \/ TracingPublishReceivers
               => Moves("provider") /\ MayHear("provider")
<1>1. TracingRequirerHook(hook) => Moves("requirer") /\ MayHear("requirer")
  BY Zenon, Shorthands DEF TracingRequirerHook, TracingChanged, TracingBroken, TracingEndpointChanged
<1>2. TracingProviderHook(hook) => Moves("provider") /\ MayHear("provider")
  BY Zenon, Shorthands DEF TracingProviderHook, TracingRelationEvent, TracingRequested
<1>3. TracingPublishReceivers => Moves("provider") /\ MayHear("provider")
  BY Zenon, Shorthands DEF TracingPublishReceivers
<1>4. TracingOtherHook => Moves("requirer") /\ MayHear("requirer")
  BY Zenon, Shorthands DEF TracingOtherHook
<1> QED
  BY Zenon, <1>1, <1>2, <1>3, <1>4

LEMMA LokiMoves ==
    ASSUME NEW hook
    PROVE  /\ LokiConsumerHook(hook) \/ ForwarderHook(hook) \/ PromtailHook(hook) \/ LokiLifecycle
               => Moves("requirer") /\ MayHear("requirer")
           /\ LokiProviderHook(hook) \/ LokiProviderLifecycle \/ LokiUpdateEndpoint \/ LokiOfOtherMake
               => Moves("provider") /\ MayHear("provider")
<1>1. \A h : LokiProcesses(h) => MayHear("provider")
  BY Zenon, Shorthands DEF LokiProcesses
<1>2. LokiProviderHook(hook) => Moves("provider") /\ MayHear("provider")
  BY Zenon, <1>1, Shorthands
     DEF LokiProviderHook, LokiProviderJoined, LokiProviderChanged, LokiProviderDeparted, LokiProviderBroken
<1>3. LokiProviderLifecycle \/ LokiUpdateEndpoint \/ LokiOfOtherMake
          => Moves("provider") /\ MayHear("provider")
  BY Zenon, <1>1, Shorthands DEF LokiProviderLifecycle, LokiUpdateEndpoint, LokiOfOtherMake
<1>4. \A name, h, faulty : LokiTells(name, h, faulty) => MayHear("requirer")
  BY Zenon, Shorthands DEF LokiTells
<1>5. LokiConsumerHook(hook) \/ LokiLifecycle => Moves("requirer") /\ MayHear("requirer")
  BY Zenon, <1>4, Shorthands
     DEF LokiConsumerHook, LokiJoined, LokiChanged, LokiDeparted, LokiLifecycle, ReinitializeAlertRules
<1>6. ForwarderHook(hook) => Moves("requirer") /\ MayHear("requirer")
  BY Zenon, Shorthands DEF ForwarderHook, ForwarderUpdateLogging, ForwarderPebbleReady
<1>7. PromtailHook(hook) => Moves("requirer") /\ MayHear("requirer")
  BY Zenon, <1>4, Shorthands
     DEF PromtailHook, PromtailCreated, PromtailChanged, PromtailDeparted, PromtailPebbleReady
<1> QED
  BY Zenon, <1>2, <1>3, <1>5, <1>6, <1>7

LEMMA ScrapeMoves ==
    ASSUME NEW hook
    PROVE  /\ ScrapeRequirerHook(hook)
               => Moves("requirer") /\ MayHear("requirer")
           /\ ScrapeProviderHook(hook) \/ ScrapeStep
               => Moves("provider") /\ MayHear("provider")
<1>1. ScrapeRequirerHook(hook) => Moves("requirer") /\ MayHear("requirer")
  BY Zenon, Shorthands
     DEF ScrapeRequirerHook, ScrapeRequirerChanged, ScrapeRequirerDeparted, TargetsChanged
<1>2. ScrapeProviderHook(hook) => Moves("provider") /\ MayHear("provider")
  BY Zenon, Shorthands DEF ScrapeProviderHook, ScrapeProviderJoined, ScrapeProviderChanged
<1>3. ScrapeStep => Moves("provider") /\ MayHear("provider")
  BY Zenon, Shorthands DEF ScrapeStep, UpdateScrapeJobSpec
<1> QED
  BY Zenon, <1>1, <1>2, <1>3

LEMMA DashboardsMoves ==
    ASSUME NEW hook
    PROVE  /\ DashboardsRequirerHook(hook)
               => Moves("requirer") /\ MayHear("requirer")
           /\ DashboardsProviderHook(hook) \/ DashboardsStep
               => Moves("provider") /\ MayHear("provider")
<1>1. RenderDashboards(hook) => Moves("requirer") /\ MayHear("requirer")
  BY Zenon, Shorthands DEF RenderDashboards, RunsKeeping, TellsDashboards
<1>2. DashboardsRequirerCreated \/ DashboardsRequirerBroken => Moves("requirer") /\ MayHear("requirer")
  BY Zenon, Shorthands
     DEF DashboardsRequirerCreated, DashboardsRequirerBroken, RunsKeeping, TellsDashboards
<1>3. DashboardsRequirerHook(hook) => Moves("requirer") /\ MayHear("requirer")
  BY Zenon, <1>1, <1>2, Shorthands DEF DashboardsRequirerHook, DashboardsRequirerChanged
<1>4. DashboardsProviderHook(hook) => Moves("provider") /\ MayHear("provider")
  BY Zenon, Shorthands
     DEF DashboardsProviderHook, DashboardsCreated, DashboardsProviderChanged, DashboardsElected
<1>5. DashboardsStep => Moves("provider") /\ MayHear("provider")
  BY Zenon, Shorthands
     DEF DashboardsStep, DashboardsChange, DashboardsOfOtherMake, AddDashboard,
         RemoveNonBuiltinDashboards, ReloadDashboards, UpdateDashboards
<1> QED
  BY Zenon, <1>3, <1>4, <1>5

LEMMA DataMoves ==
    ASSUME NEW hook
    PROVE  /\ DataRequirerHook(hook)
               => Moves("requirer") /\ MayHear("requirer")
           /\ DataProviderHook(hook)
               => Moves("provider") /\ MayHear("provider")
<1>1. \A name, tracked : TellsData(name, tracked) => MayHear("requirer")
  BY Zenon DEF TellsData, MayHear
<1>2. \A resource : Asks(resource) => Moves("requirer") /\ MayHear("requirer")
  BY Zenon, Shorthands DEF Asks
<1>3. DataRequirerChanged(hook) => Moves("requirer") /\ MayHear("requirer")
  BY Zenon, <1>1, Shorthands DEF DataRequirerChanged
<1>4. OpenSearchSecretChanged \/ EtcdSecretChanged \/ OtherSecretChanged
          => Moves("requirer") /\ MayHear("requirer")
  <2>1. OpenSearchSecretChanged => Moves("requirer") /\ MayHear("requirer")
    BY Zenon, Shorthands DEF OpenSearchSecretChanged, MayHear
  <2> QED
    BY Zenon, <1>1, <2>1, Shorthands DEF EtcdSecretChanged, OtherSecretChanged
<1>5. DataRequirerHook(hook) => Moves("requirer") /\ MayHear("requirer")
  BY Zenon, <1>2, <1>3, <1>4, Shorthands
     DEF DataRequirerHook, DatabaseCreated, KafkaCreated, OpenSearchCreated, EtcdCreated
<1>6. \A resource : Requested(hook, resource) => Moves("provider") /\ MayHear("provider")
  BY Zenon, Shorthands DEF Requested, ResourceRequested
<1>7. DataProviderHook(hook) => Moves("provider") /\ MayHear("provider")
  BY Zenon, <1>6, Shorthands
     DEF DataProviderHook, DatabaseProviderChanged, KafkaProviderChanged,
         OpenSearchProviderChanged, EtcdProviderChanged
<1> QED
  BY Zenon, <1>5, <1>7

\* What the provider's charm gives is in the secret, or in the databag.
Given(field, value) ==
    /\ interface \in Flavours /\ leader["provider"] /\ NotPremature(field)
    /\ ~ dying /\ stage["provider"] \in {"created", "joined"}
    /\ interface' = interface /\ dying' = dying /\ leader' = leader /\ led' = led
    /\ stage' = stage /\ unit' = unit
    /\ app'["requirer"] = app["requirer"] /\ stored'["requirer"] = stored["requirer"]
    /\ \/ /\ FieldsInSecret({field}) # {}
          /\ stored'["provider"] = value
          /\ \/ HasSecret /\ app' = app
             \/ ~ HasSecret
                /\ app'["provider"] = Updated(app["provider"], Entry("secret-user", "uri"))
       \/ /\ FieldsInSecret({field}) = {}
          /\ stored' = stored
          /\ app'["provider"] = Updated(app["provider"], Entry(field, value))
    /\ due'["provider"] = due["provider"]
    /\ \A h : h \in due'["requirer"] <=>
                  \/ h \in due["requirer"]
                  \/ h = "app" /\ app' # app
                  \/ h = "secret" /\ stored["requirer"] # Nothing
                                  /\ stored'["provider"] # stored["provider"]
    /\ NothingHeard

LEMMA GivenFacts ==
    ASSUME FrameOK, NEW field, NEW value, UpdateRelationData(field, value)
    PROVE  Given(field, value) /\ FrameOK'
<1>1. /\ "requirer" \in Sides /\ "provider" \in Sides
      /\ "requirer" # "provider"
  BY TheSides
<1>2. /\ interface \in Flavours /\ leader["provider"] /\ NotPremature(field)
      /\ ~ dying /\ stage["provider"] \in {"created", "joined"}
      /\ interface' = interface /\ dying' = dying /\ leader' = leader /\ led' = led
      /\ stage' = stage /\ unit' = unit
  BY DEF UpdateRelationData, LeaderOnly, Related
<1>3. NothingHeard
  BY HeardFacts DEF UpdateRelationData
<1>4. /\ due' = [due EXCEPT !["requirer"] = @ \cup (IF app' # app THEN {"app"} ELSE {})
                                             \cup (IF Revised THEN {"secret"} ELSE {})]
      /\ PutRelationData(field, value)
  BY DEF UpdateRelationData, WakesRequirer
<1>5. /\ due'["provider"] = due["provider"]
      /\ due'["requirer"] = due["requirer"] \cup (IF app' # app THEN {"app"} ELSE {})
                                            \cup (IF Revised THEN {"secret"} ELSE {})
      /\ due' \in [Sides -> SUBSET DueHooks]
  <2> DEFINE d == due["requirer"] \cup (IF app' # app THEN {"app"} ELSE {})
                                 \cup (IF Revised THEN {"secret"} ELSE {})
  <2>1. due["requirer"] \in SUBSET DueHooks
    BY <1>1 DEF FrameOK
  <2>2. d \in SUBSET DueHooks
    BY <2>1 DEF DueHooks
  <2>3. due' = [due EXCEPT !["requirer"] = d]
    BY <1>4
  <2> HIDE DEF d
  <2>4. due'["provider"] = due["provider"] /\ due'["requirer"] = d /\ due' \in [Sides -> SUBSET DueHooks]
    BY <1>1, <2>2, <2>3 DEF FrameOK
  <2> QED
    BY <2>4 DEF d
<1>6. \/ /\ FieldsInSecret({field}) # {}
         /\ stored' = [stored EXCEPT !["provider"] = value]
         /\ \/ HasSecret /\ app' = app
            \/ ~ HasSecret
               /\ app' = [app EXCEPT !["provider"] = Updated(@, Entry("secret-user", "uri"))]
      \/ /\ FieldsInSecret({field}) = {}
         /\ stored' = stored
         /\ app' = [app EXCEPT !["provider"] = Updated(@, Entry(field, value))]
  BY <1>4 DEF PutRelationData, AddOrUpdateSecret, AddSecret, UpdateSecret, SetSecretUri,
              UpdateWithoutSecrets
<1>7. /\ app'["requirer"] = app["requirer"] /\ stored'["requirer"] = stored["requirer"]
      /\ DOMAIN app' = Sides /\ DOMAIN stored' = Sides
      /\ \/ /\ FieldsInSecret({field}) # {}
            /\ stored'["provider"] = value
            /\ \/ HasSecret /\ app' = app
               \/ ~ HasSecret
                  /\ app'["provider"] = Updated(app["provider"], Entry("secret-user", "uri"))
         \/ /\ FieldsInSecret({field}) = {}
            /\ stored' = stored
            /\ app'["provider"] = Updated(app["provider"], Entry(field, value))
  BY <1>1, <1>6 DEF FrameOK
<1>8. Revised <=> stored["provider"] # stored'["provider"] /\ stored["requirer"] # Nothing
  BY DEF Revised
<1>9. Given(field, value)
  BY <1>2, <1>3, <1>5, <1>7, <1>8 DEF Given
<1>10. FrameOK'
  BY <1>2, <1>3, <1>5, <1>7 DEF FrameOK, NothingHeard
<1> QED
  BY <1>9, <1>10

\* The sides to which the steps of an interface belong.
MovesOfRequirer(hook) ==
    \/ RedisRequirerHook(hook) \/ SamlRequirerHook(hook) \/ S3RequirerHook(hook)
    \/ IngressRequirerHook(hook) \/ TracingRequirerHook(hook) \/ TracingOtherHook
    \/ DataRequirerHook(hook)
    \/ LokiConsumerHook(hook) \/ ForwarderHook(hook) \/ PromtailHook(hook) \/ LokiLifecycle
    \/ ScrapeRequirerHook(hook) \/ DashboardsRequirerHook(hook)

MovesOfProvider(hook) ==
    \/ RedisProviderHook(hook) \/ RedisStep \/ SamlProviderHook(hook) \/ SamlStep
    \/ S3ProviderHook(hook) \/ S3Step \/ IngressProviderHook(hook) \/ IngressStep
    \/ TracingProviderHook(hook) \/ TracingPublishReceivers
    \/ DataProviderHook(hook)
    \/ LokiProviderHook(hook) \/ LokiProviderLifecycle \/ LokiUpdateEndpoint \/ LokiOfOtherMake
    \/ ScrapeProviderHook(hook) \/ ScrapeStep
    \/ DashboardsProviderHook(hook) \/ DashboardsStep

LEMMA SidesOfSteps ==
    ASSUME NEW hook
    PROVE  /\ MovesOfRequirer(hook) => Moves("requirer") /\ MayHear("requirer")
           /\ MovesOfProvider(hook) => Moves("provider") /\ MayHear("provider")
  BY Zenon, RedisMoves, SamlMoves, S3Moves, IngressMoves, TracingMoves, DataMoves, LokiMoves,
     ScrapeMoves, DashboardsMoves DEF MovesOfRequirer, MovesOfProvider

\* What a step of one side leaves alone on the other.
LEMMA OneSideMoves ==
    ASSUME FrameOK, NEW s \in Sides, NEW o, o = Other(s), Moves(s), MayHear(s)
    PROVE  /\ interface' = interface /\ dying' = dying /\ leader' = leader /\ led' = led
           /\ stage'[o] = stage[o] /\ app'[o] = app[o] /\ unit'[o] = unit[o]
           /\ stored'[o] = stored[o] /\ told'[o] = told[o]
<1>1. told'[o] = told[o]
  BY HeardFacts DEF MayHear, NothingHeard, Heard
<1>2. CASE \E hook, appBag, unitBag, value : RunsStoring(s, hook, appBag, unitBag, value)
  <2>1. PICK hook, appBag, unitBag, value : RunsStoring(s, hook, appBag, unitBag, value)
    BY <1>2
  <2>2. HookRan(s, o, hook, appBag, unitBag, value)
    BY Zenon, <2>1, HookFacts
  <2> QED
    BY Zenon, <1>1, <2>2 DEF HookRan, Written
<1>3. CASE \E appBag, unitBag, value : Acts(s, appBag, unitBag, value)
  <2>1. PICK appBag, unitBag, value : Acts(s, appBag, unitBag, value)
    BY <1>3
  <2>2. Acted(s, o, appBag, unitBag, value)
    BY Zenon, <2>1, ActFacts
  <2>3. stage'[o] = stage[o]
    BY <2>2 DEF Acted
  <2> QED
    BY Zenon, <1>1, <2>2, <2>3 DEF Acted, Written
<1> QED
  BY <1>2, <1>3 DEF Moves

\* Who moves when an invariant of an interface is at stake.
LEMMA ProviderMovesAlone ==
    ASSUME FrameOK, NEW hook, MovesOfProvider(hook)
    PROVE  /\ interface' = interface /\ dying' = dying /\ leader' = leader /\ led' = led
           /\ stage'["requirer"] = stage["requirer"]
           /\ app'["requirer"] = app["requirer"] /\ unit'["requirer"] = unit["requirer"]
           /\ stored'["requirer"] = stored["requirer"] /\ told'["requirer"] = told["requirer"]
  BY TheSides, SidesOfSteps, OneSideMoves

LEMMA RequirerMovesAlone ==
    ASSUME FrameOK, NEW hook, MovesOfRequirer(hook)
    PROVE  /\ interface' = interface /\ dying' = dying /\ leader' = leader /\ led' = led
           /\ stage'["provider"] = stage["provider"]
           /\ app'["provider"] = app["provider"] /\ unit'["provider"] = unit["provider"]
           /\ stored'["provider"] = stored["provider"] /\ told'["provider"] = told["provider"]
  BY TheSides, SidesOfSteps, OneSideMoves

LEMMA DataStepGives ==
    ASSUME DataStep
    PROVE  \E field \in {"credentials", "endpoints"}, value \in Values :
               UpdateRelationData(field, value)
  BY DEF DataStep, SetCredentials, SetEndpoints, DatabaseSetEndpoints, KafkaSetBootstrapServer,
         OpenSearchSetEndpoints, EtcdSetEndpoints

LEMMA WhoMoves ==
    ASSUME Next
    PROVE  \/ Juju \/ LogContainerReplaced \/ DataStep
           \/ \E hook \in AllHooks : MovesOfRequirer(hook) \/ MovesOfProvider(hook)
<1>1. \A s, hook : RedisHook(s, hook) => RedisRequirerHook(hook) \/ RedisProviderHook(hook)
  BY Zenon DEF RedisHook
<1>2. \A s, hook : SamlHook(s, hook) => SamlRequirerHook(hook) \/ SamlProviderHook(hook)
  BY Zenon DEF SamlHook
<1>3. \A s, hook : S3Hook(s, hook) => S3RequirerHook(hook) \/ S3ProviderHook(hook)
  BY Zenon DEF S3Hook
<1>4. \A s, hook : IngressHook(s, hook) => IngressRequirerHook(hook) \/ IngressProviderHook(hook)
  BY Zenon DEF IngressHook
<1>5. \A s, hook : TracingHook(s, hook) => TracingRequirerHook(hook) \/ TracingProviderHook(hook)
  BY Zenon DEF TracingHook
<1>6. \A s, hook : DataHook(s, hook) => DataRequirerHook(hook) \/ DataProviderHook(hook)
  BY Zenon DEF DataHook
<1>7. \A s, hook : LokiHook(s, hook) =>
          \/ LokiConsumerHook(hook) \/ ForwarderHook(hook) \/ PromtailHook(hook)
          \/ LokiProviderHook(hook)
  BY Zenon DEF LokiHook
<1>8. \A s, hook : ScrapeHook(s, hook) => ScrapeRequirerHook(hook) \/ ScrapeProviderHook(hook)
  BY Zenon DEF ScrapeHook
<1>9. \A s, hook : DashboardsHook(s, hook) =>
          DashboardsRequirerHook(hook) \/ DashboardsProviderHook(hook)
  BY Zenon DEF DashboardsHook
<1>10. \A s, hook : Hook(s, hook) => MovesOfRequirer(hook) \/ MovesOfProvider(hook)
  BY Zenon, <1>1, <1>2, <1>3, <1>4, <1>5, <1>6, <1>7, <1>8, <1>9
     DEF Hook, MovesOfRequirer, MovesOfProvider
<1>11. "app" \in AllHooks
  BY DEF AllHooks, RelationHooks
<1> QED
  BY Zenon, <1>10, <1>11
     DEF Next, HookRuns, AllHooks, ProviderPublishes, MovesOfRequirer, MovesOfProvider, DataStep,
         RedisStep, SamlStep, S3Step, IngressStep, ScrapeStep, DashboardsStep

LEMMA FrameStep ==
    ASSUME FrameOK, [Next]_relationVars
    PROVE  FrameOK' /\ interface' = interface
<1>1. CASE UNCHANGED relationVars
  BY <1>1 DEF relationVars, databags, heard, FrameOK
<1>2. CASE Juju
  BY <1>2, JujuFacts DEF Made, Removed, Elected
<1>3. CASE \E t \in Sides : Moves(t) /\ MayHear(t)
  BY <1>3, MovesKeepFrame
<1>4. CASE LogContainerReplaced
  BY <1>4, ReplacedFacts DEF LogContainerReplaced, Replaced
<1>5. CASE DataStep
  <2>1. PICK field, value : UpdateRelationData(field, value)
    BY <1>5, DataStepGives
  <2> QED
    BY <2>1, GivenFacts DEF Given
<1> QED
  BY <1>1, <1>2, <1>3, <1>4, <1>5, SidesOfSteps, TheSides, WhoMoves

LEMMA FrameInvariant == Spec => []FrameOK
<1>1. RelationInit => FrameOK
  BY FrameStart
<1>2. FrameOK /\ [Next]_relationVars => FrameOK'
  BY FrameStep
<1> QED
  BY <1>1, <1>2, PTL DEF Spec

-----------------------------------------------------------------------------
(***************************************************************************)
(* Databags                                                                *)
(***************************************************************************)
LEMMA NoDataIsEmpty == DOMAIN NoData = {}
  BY DEF NoData

LEMMA EntryIs ==
    ASSUME NEW key, NEW value
    PROVE  DOMAIN Entry(key, value) = {key} /\ Entry(key, value)[key] = value
  BY DEF Entry

LEMMA UpdatedIs ==
    ASSUME NEW bag, NEW data
    PROVE  /\ DOMAIN Updated(bag, data) = DOMAIN bag \cup DOMAIN data
           /\ \A k \in DOMAIN data : Updated(bag, data)[k] = data[k]
           /\ \A k \in DOMAIN bag \ DOMAIN data : Updated(bag, data)[k] = bag[k]
  BY DEF Updated

LEMMA WithEntry ==
    ASSUME NEW bag, NEW key, NEW value
    PROVE  /\ DOMAIN Updated(bag, Entry(key, value)) = DOMAIN bag \cup {key}
           /\ Updated(bag, Entry(key, value))[key] = value
           /\ \A k \in DOMAIN bag \ {key} : Updated(bag, Entry(key, value))[k] = bag[k]
  BY DEF Updated, Entry

LEMMA WithoutIs ==
    ASSUME NEW bag, NEW keys
    PROVE  /\ DOMAIN Without(bag, keys) = DOMAIN bag \ keys
           /\ \A k \in DOMAIN bag \ keys : Without(bag, keys)[k] = bag[k]
  BY DEF Without

(***************************************************************************)
(* Credentials are never in a databag.  The fields that are to be secret   *)
(* are named in the same write as the resource that is asked for, and      *)
(* before that nothing but endpoints may be given.                         *)
(***************************************************************************)
AskedForSecrets(bag) ==
    /\ DOMAIN bag = {Resource, "requested-secrets"}
    /\ bag["requested-secrets"] = SecretFields

CredentialsInv ==
    interface \in Flavours =>
        /\ app["requirer"] = NoData \/ AskedForSecrets(app["requirer"])
        /\ DOMAIN app["provider"] \subseteq {"data", "secret-user", "endpoints"}

LEMMA ResourceIsNamed ==
    ASSUME interface \in Flavours
    PROVE  Resource \in {"database", "topic", "index", "prefix"}
  BY DEF Resource, Flavours

\* What the hooks of the two sides write for their applications.
LEMMA DataRequirerWrites ==
    ASSUME FrameOK, NEW hook, DataRequirerHook(hook)
    PROVE  /\ app'["provider"] = app["provider"]
           /\ \/ app'["requirer"] = app["requirer"]
              \/ app'["requirer"] = Updated(RequestsSecrets, Entry(Resource, "name"))
<1>2. ASSUME NEW h, NEW A, NEW U, NEW V, RunsStoring("requirer", h, A, U, V)
      PROVE  app'["requirer"] = A /\ app'["provider"] = app["provider"]
  BY Zenon, <1>2, TheRequirer DEF HookRan, Written
<1>3. ASSUME NEW resource, Asks(resource)
      PROVE  /\ app'["provider"] = app["provider"]
             /\ \/ app'["requirer"] = app["requirer"]
                \/ app'["requirer"] = Updated(RequestsSecrets, Entry(resource, "name"))
  BY Zenon, <1>2, <1>3 DEF Asks, Runs, RunsOnly
<1>4. CASE DatabaseCreated \/ KafkaCreated \/ OpenSearchCreated \/ EtcdCreated
  BY <1>3, <1>4 DEF DatabaseCreated, KafkaCreated, OpenSearchCreated, EtcdCreated, Resource
<1>5. CASE DataRequirerChanged(hook)
  BY Zenon, <1>2, <1>5 DEF DataRequirerChanged
<1>6. CASE OpenSearchSecretChanged \/ EtcdSecretChanged \/ OtherSecretChanged
  BY Zenon, <1>2, <1>6
     DEF OpenSearchSecretChanged, EtcdSecretChanged, OtherSecretChanged, Runs, RunsOnly
<1>7. CASE RunsStoring("requirer", hook, app["requirer"], unit["requirer"], SecretOfRelation(hook))
  BY Zenon, <1>2, <1>7
<1> QED
  BY Zenon, <1>4, <1>5, <1>6, <1>7 DEF DataRequirerHook

LEMMA DataProviderWrites ==
    ASSUME FrameOK, NEW hook, DataProviderHook(hook)
    PROVE  /\ app'["requirer"] = app["requirer"]
           /\ \/ app'["provider"] = app["provider"]
              \/ app'["provider"] = Note(app["provider"], app["requirer"])
<1>2. ASSUME NEW h, NEW A, NEW U, NEW V, RunsStoring("provider", h, A, U, V)
      PROVE  app'["provider"] = A /\ app'["requirer"] = app["requirer"]
  BY Zenon, <1>2, TheProvider DEF HookRan, Written
<1>3. ASSUME NEW resource, Requested(hook, resource)
      PROVE  /\ app'["requirer"] = app["requirer"]
             /\ \/ app'["provider"] = app["provider"]
                \/ app'["provider"] = Note(app["provider"], app["requirer"])
  BY Zenon, <1>2, <1>3 DEF Requested, Runs, RunsOnly
<1>4. CASE \/ DatabaseProviderChanged(hook) \/ KafkaProviderChanged(hook)
           \/ OpenSearchProviderChanged(hook) \/ EtcdProviderChanged(hook)
  BY Zenon, <1>2, <1>3, <1>4
     DEF DatabaseProviderChanged, KafkaProviderChanged, OpenSearchProviderChanged,
         EtcdProviderChanged, Runs, RunsOnly
<1>5. CASE RunsStoring("provider", hook, app["provider"], unit["provider"],
                       IF hook = "broken" THEN Nothing ELSE stored["provider"])
  BY Zenon, <1>2, <1>5
<1> QED
  BY Zenon, <1>4, <1>5 DEF DataProviderHook

LEMMA CredentialsStep ==
    ASSUME FrameOK, CredentialsInv, [Next]_relationVars
    PROVE  CredentialsInv'
<1>1. interface' = interface /\ Resource' = Resource
  BY FrameStep DEF Resource
<1> SUFFICES ASSUME interface \in Flavours
             PROVE  /\ app'["requirer"] = NoData \/ AskedForSecrets(app'["requirer"])
                    /\ DOMAIN app'["provider"] \subseteq {"data", "secret-user", "endpoints"}
  BY <1>1 DEF CredentialsInv, AskedForSecrets
<1>2. /\ app["requirer"] = NoData \/ AskedForSecrets(app["requirer"])
      /\ DOMAIN app["provider"] \subseteq {"data", "secret-user", "endpoints"}
  BY DEF CredentialsInv
<1>3. CASE Juju
  <2>1. Made \/ app' = app
    BY <1>3, JujuFacts DEF Removed, Elected
  <2>2. CASE Made
    BY <2>2, NoDataIsEmpty, TheSides DEF Made
  <2> QED
    BY <1>2, <2>1, <2>2
<1>4. CASE UNCHANGED relationVars
  BY <1>2, <1>4 DEF relationVars, databags
<1>5. ASSUME NEW hook, DataRequirerHook(hook)
      PROVE  /\ app'["requirer"] = NoData \/ AskedForSecrets(app'["requirer"])
             /\ DOMAIN app'["provider"] \subseteq {"data", "secret-user", "endpoints"}
  <2>1. AskedForSecrets(Updated(RequestsSecrets, Entry(Resource, "name")))
    <3>1. Resource # "requested-secrets"
      BY ResourceIsNamed
    <3> DEFINE resource == Resource
    <3> HIDE DEF resource
    <3>2. ASSUME resource = Resource, resource # "requested-secrets"
          PROVE  AskedForSecrets(Updated(RequestsSecrets, Entry(resource, "name")))
      BY <3>2 DEF AskedForSecrets, RequestsSecrets, Updated, Entry
    <3> QED
      BY <3>1, <3>2 DEF resource
  <2> QED
    BY <1>2, <1>5, <2>1, DataRequirerWrites
<1>6. ASSUME NEW hook, DataProviderHook(hook)
      PROVE  /\ app'["requirer"] = NoData \/ AskedForSecrets(app'["requirer"])
             /\ DOMAIN app'["provider"] \subseteq {"data", "secret-user", "endpoints"}
  <2>1. DOMAIN Note(app["provider"], app["requirer"]) = DOMAIN app["provider"] \cup {"data"}
    BY WithEntry DEF Note
  <2> QED
    BY <1>2, <1>6, <2>1, DataProviderWrites
<1>7. CASE DataStep
  <2>1. PICK field, value : field \in {"credentials", "endpoints"} /\ UpdateRelationData(field, value)
    BY <1>7, DataStepGives
  <2>2. Given(field, value)
    BY <2>1, GivenFacts
  <2>3. app'["requirer"] = app["requirer"]
    BY <2>2 DEF Given
  <2>4. field = "credentials" => FieldsInSecret({field}) # {}
    <3> SUFFICES ASSUME field = "credentials"
                 PROVE  FieldsInSecret({field}) # {}
      OBVIOUS
    <3>1. Has(app["requirer"], {Resource})
      BY <2>2 DEF Given, NotPremature
    <3>2. AskedForSecrets(app["requirer"])
      BY <1>2, <3>1, NoDataIsEmpty DEF Has
    <3>3. RequestedSecrets = {"credentials"}
      BY <3>2 DEF RequestedSecrets, AskedForSecrets, Has, SecretFields
    <3> QED
      BY <1>2, <3>3 DEF FieldsInSecret
  <2>5. DOMAIN app'["provider"] \subseteq DOMAIN app["provider"] \cup {"secret-user", "endpoints"}
    <3>0. FieldsInSecret({field}) = {} => field = "endpoints"
      BY Zenon, <2>1, <2>4
    <3>1. \/ app' = app
          \/ app'["provider"] = Updated(app["provider"], Entry("secret-user", "uri"))
          \/ app'["provider"] = Updated(app["provider"], Entry(field, value)) /\ field = "endpoints"
      BY Zenon, <2>2, <3>0 DEF Given
    <3>2. DOMAIN Updated(app["provider"], Entry("secret-user", "uri"))
            = DOMAIN app["provider"] \cup {"secret-user"}
      BY WithEntry
    <3>3. DOMAIN Updated(app["provider"], Entry(field, value)) = DOMAIN app["provider"] \cup {field}
      BY Zenon, WithEntry
    <3> QED
      BY <3>1, <3>2, <3>3
  <2> QED
    BY <1>2, <2>3, <2>5
<1>8. ASSUME Next
      PROVE  Juju \/ DataStep \/ \E hook : DataRequirerHook(hook) \/ DataProviderHook(hook)
  BY <1>8, StepOfTheInterface DEF DataHook, Flavours, LokiClients
<1> QED
  BY <1>3, <1>4, <1>5, <1>6, <1>7, <1>8

LEMMA CredentialsInvariant == Spec => []CredentialsInv
<1>1. RelationInit => CredentialsInv
  BY NoDataIsEmpty, TheSides DEF RelationInit, CredentialsInv
<1>2. FrameOK /\ CredentialsInv /\ [Next]_relationVars => CredentialsInv'
  BY CredentialsStep
<1> QED
  BY <1>1, <1>2, FrameInvariant, PTL DEF Spec

\* Whatever is published at which moment, and whoever leads by then.
THEOREM CredentialsStaySecret == Spec => []CredentialsAreSecret
<1>1. CredentialsInv => CredentialsAreSecret
  BY DEF CredentialsInv, CredentialsAreSecret, Has
<1> QED
  BY <1>1, CredentialsInvariant, PTL

-----------------------------------------------------------------------------
(***************************************************************************)
(* When the relation is gone, so is what the charm was told of it.  While  *)
(* there is no relation, or none yet, there is nothing told, nothing that  *)
(* is pushed to, nothing that is scraped; of dashboards the charm was told *)
(* what the library keeps, and that is nothing by then, where whoever led  *)
(* when the relation was made led all the time.                            *)
(***************************************************************************)
LEMMA RequirerOfTheInterface ==
    ASSUME Next
    PROVE  \/ Juju \/ LogContainerReplaced
           \/ DataStep /\ interface \in Flavours
           \/ \E hook \in AllHooks :
                  \/ MovesOfProvider(hook)
                  \/ interface = "redis" /\ RedisRequirerHook(hook)
                  \/ interface = "saml" /\ SamlRequirerHook(hook)
                  \/ interface = "s3" /\ S3RequirerHook(hook)
                  \/ interface = "ingress" /\ IngressRequirerHook(hook)
                  \/ interface = "tracing" /\ (TracingRequirerHook(hook) \/ TracingOtherHook)
                  \/ interface \in Flavours /\ DataRequirerHook(hook)
                  \/ interface = "loki" /\ (LokiConsumerHook(hook) \/ LokiLifecycle)
                  \/ interface = "forwarder" /\ ForwarderHook(hook)
                  \/ interface = "promtail" /\ PromtailHook(hook)
                  \/ interface = "scrape" /\ ScrapeRequirerHook(hook)
                  \/ interface = "dashboards" /\ DashboardsRequirerHook(hook)
<1>1. ASSUME NEW hook \in AllHooks, MovesOfRequirer(hook)
      PROVE  \/ interface = "redis" /\ RedisRequirerHook(hook)
             \/ interface = "saml" /\ SamlRequirerHook(hook)
             \/ interface = "s3" /\ S3RequirerHook(hook)
             \/ interface = "ingress" /\ IngressRequirerHook(hook)
             \/ interface = "tracing" /\ (TracingRequirerHook(hook) \/ TracingOtherHook)
             \/ interface \in Flavours /\ DataRequirerHook(hook)
             \/ interface = "loki" /\ (LokiConsumerHook(hook) \/ LokiLifecycle)
             \/ interface = "forwarder" /\ ForwarderHook(hook)
             \/ interface = "promtail" /\ PromtailHook(hook)
             \/ interface = "scrape" /\ ScrapeRequirerHook(hook)
             \/ interface = "dashboards" /\ DashboardsRequirerHook(hook)
  <2>1. RedisRequirerHook(hook) => interface = "redis"
    BY Zenon DEF RedisRequirerHook
  <2>2. SamlRequirerHook(hook) => interface = "saml"
    BY Zenon DEF SamlRequirerHook
  <2>3. S3RequirerHook(hook) => interface = "s3"
    BY Zenon DEF S3RequirerHook
  <2>4. IngressRequirerHook(hook) => interface = "ingress"
    BY Zenon DEF IngressRequirerHook
  <2>5. TracingRequirerHook(hook) \/ TracingOtherHook => interface = "tracing"
    BY Zenon DEF TracingRequirerHook, TracingOtherHook
  <2>6. DataRequirerHook(hook) => interface \in Flavours
    BY Zenon DEF DataRequirerHook
  <2>7. LokiConsumerHook(hook) \/ LokiLifecycle => interface = "loki"
    BY Zenon DEF LokiConsumerHook, LokiLifecycle
  <2>8. ForwarderHook(hook) => interface = "forwarder"
    BY Zenon DEF ForwarderHook
  <2>9. PromtailHook(hook) => interface = "promtail"
    BY Zenon DEF PromtailHook
  <2>10. ScrapeRequirerHook(hook) => interface = "scrape"
    BY Zenon DEF ScrapeRequirerHook
  <2>11. DashboardsRequirerHook(hook) => interface = "dashboards"
    BY Zenon DEF DashboardsRequirerHook
  <2> QED
    BY Zenon, <1>1, <2>1, <2>2, <2>3, <2>4, <2>5, <2>6, <2>7, <2>8, <2>9, <2>10, <2>11
       DEF MovesOfRequirer
<1> QED
  BY Zenon, <1>1, WhoMoves, StepsKnowTheirInterface

NoRelation == stage["requirer"] \in {"none", "new"}

\* What is kept of dashboards is what was told.
DashboardsTold ==
    LET knows == told["requirer"]
    IN  /\ PeerDashboards = WithDashboards(PeerDashboards.this)
        /\ IF knows = Nothing
           THEN NoRelation \/ PeerDashboards.this = {}
           ELSE knows = PeerDashboards /\ stage["requirer"] # "new"
        /\ stage["requirer"] = "none" /\ led /\ knows # Nothing => PeerDashboards.this = {}

GoneInv ==
    LET knows == told["requirer"]
    IN  /\ interface \in {"redis", "s3", "ingress", "tracing"} /\ NoRelation => knows = Nothing
        /\ interface = "loki" /\ stage["requirer"] # "joined" =>
               knows = Nothing \/ knows.endpoints = {}
        /\ interface = "scrape" /\ stage["requirer"] # "joined" =>
               knows = Nothing \/ (knows.jobs = {} /\ knows.rules = {})
        /\ interface = "dashboards" => DashboardsTold

\* With no jobs, or where the unit is not seen, nothing is scraped.
LEMMA NoJobsNoTargets ==
    ASSUME NEW hook, ~ SeesUnit("requirer", hook)
    PROVE  JobsUsed(hook) = {} /\ RulesUsed(hook) = {}
<1>1. PublishedJobs(hook) = << >> /\ PublishedRules(hook) = "none"
  BY DEF PublishedJobs, PublishedRules
<1> DEFINE none == << >>
           expanded == [i \in DOMAIN none |-> ExpandWildcards(PrefixJobName(none[i]), RelationHosts)]
<1>2. DOMAIN none = {} /\ Len(none) = 0
  OBVIOUS
<1>3. expanded = << >>
  BY <1>2
<1>4. FlattenSeq(expanded) = << >>
  BY <1>3 DEF FlattenSeq
<1>5. StaticScrapeConfig(none) = {}
  <2>1. DedupeJobNames(<< >>) = {}
    BY <1>2 DEF DedupeJobNames
  <2> QED
    BY <1>4, <2>1 DEF StaticScrapeConfig
<1>6. ~ HasBadJob(none)
  BY <1>2 DEF HasBadJob
<1> QED
  BY <1>1, <1>5, <1>6 DEF JobsUsed, RulesUsed

\* Where a side stands before and after a hook.
LEMMA StagesOfHooks ==
    ASSUME NEW s, NEW o, NEW hook, NEW A, NEW U, NEW V, HookRan(s, o, hook, A, U, V)
    PROVE  /\ hook \in {"created", "joined", "departed"} => stage'[s] = hook
           /\ hook = "created" => stage[s] = "new" /\ ~ dying
           /\ hook = "joined" => stage[s] = "created" /\ ~ dying
           /\ hook = "departed" => stage[s] = "joined" /\ dying
           /\ hook = "broken" => stage'[s] = "none" /\ stage[s] \in {"created", "departed"} /\ dying
           /\ hook \in {"app", "unit", "secret"} =>
                  stage'[s] = stage[s] /\ stage[s] \in {"created", "joined"} /\ ~ dying
           /\ hook \in {"elected", "ready"} => stage'[s] = stage[s] /\ hook \in due[s]
  BY DEF HookRan, Comes

LEMMA RedisGone ==
    ASSUME FrameOK, GoneInv, NEW hook, interface = "redis", RedisRequirerHook(hook)
    PROVE  NoRelation' => told'["requirer"] = Nothing
<1>1. HookRan("requirer", "provider", hook, app["requirer"], unit["requirer"], stored["requirer"])
  BY Zenon, TheRequirer DEF RedisRequirerHook, RunsOnly, Runs
<1>2. hook = "broken" => told'["requirer"] = Nothing
  BY TheRequirer DEF RedisRequirerHook, TellsGone, TellsOf, Heard
<1>3. hook = "elected" => told' = told
  BY DEF RedisRequirerHook, Silent
<1>4. hook \in {"created", "joined", "app", "unit", "departed", "broken", "elected"}
  BY DEF RedisRequirerHook
<1> QED
  BY <1>1, <1>2, <1>3, <1>4, StagesOfHooks DEF GoneInv, NoRelation

LEMMA S3Gone ==
    ASSUME FrameOK, GoneInv, NEW hook, interface = "s3", S3RequirerHook(hook)
    PROVE  NoRelation' => told'["requirer"] = Nothing
<1>1. PICK A, U, V : HookRan("requirer", "provider", hook, A, U, V)
  BY Zenon, TheRequirer DEF S3RequirerHook, S3Joined, S3Changed, S3Broken, RunsOnly, Runs
<1>2. hook = "broken" => told'["requirer"] = Nothing
  BY TheRequirer DEF S3RequirerHook, S3Broken, TellsGone, TellsOf, Heard
<1>3. hook = "elected" => told' = told
  BY DEF S3RequirerHook, Silent
<1>4. hook \in {"created", "joined", "app", "unit", "departed", "broken", "elected"}
  BY DEF S3RequirerHook
<1> QED
  BY <1>1, <1>2, <1>3, <1>4, StagesOfHooks DEF GoneInv, NoRelation

LEMMA IngressGone ==
    ASSUME FrameOK, GoneInv, NEW hook, interface = "ingress", IngressRequirerHook(hook)
    PROVE  NoRelation' => told'["requirer"] = Nothing
<1>1. PICK A, U, V : HookRan("requirer", "provider", hook, A, U, V)
  BY Zenon, TheRequirer
     DEF IngressRequirerHook, IngressHandlesRelation, IngressRevoked, IngressElected, RunsOnly, Runs
<1>2. hook = "broken" => told'["requirer"] = Nothing
  BY TheRequirer DEF IngressRequirerHook, IngressRevoked, TellsGone, TellsOf, Heard
<1>3. hook = "elected" => told' = told
  BY DEF IngressRequirerHook, IngressElected, Silent
<1>4. hook \in {"created", "joined", "app", "unit", "departed", "broken", "elected"}
  BY DEF IngressRequirerHook
<1> QED
  BY <1>1, <1>2, <1>3, <1>4, StagesOfHooks DEF GoneInv, NoRelation

LEMMA TracingGone ==
    ASSUME FrameOK, GoneInv, NEW hook, interface = "tracing",
           TracingRequirerHook(hook) \/ TracingOtherHook
    PROVE  NoRelation' => told'["requirer"] = Nothing
<1>1. CASE TracingRequirerHook(hook)
  <2>1. PICK A, U, V : HookRan("requirer", "provider", hook, A, U, V)
    BY Zenon, <1>1, TheRequirer DEF TracingRequirerHook, Runs
  <2>2. hook = "broken" => told'["requirer"] = Nothing
    BY <1>1, TheRequirer DEF TracingRequirerHook, TracingBroken, TellsGone, TellsOf, Heard
  <2>3. hook = "elected" => told' = told
    BY <1>1 DEF TracingRequirerHook, Silent
  <2>4. hook \in {"created", "joined", "app", "unit", "departed", "broken", "elected"}
    BY <1>1 DEF TracingRequirerHook
  <2> QED
    BY <2>1, <2>2, <2>3, <2>4, StagesOfHooks DEF GoneInv, NoRelation
<1>2. CASE TracingOtherHook
  <2>1. PICK A, U, V : Acted("requirer", "provider", A, U, V)
    BY Zenon, <1>2, TheRequirer DEF TracingOtherHook, Publishes, PublishesStoring
  <2> QED
    BY <2>1 DEF Acted, NoRelation
<1> QED
  BY <1>1, <1>2

\* Of the requirers of Loki, what they say of the endpoints.
LEMMA LokiTellsNothingUnseen ==
    ASSUME FrameOK, NEW name, NEW hook, NEW faulty, LokiTells(name, hook, faulty)
    PROVE  /\ told'["requirer"] = [endpoints |-> LokiEndpoints(hook), faulty |-> faulty]
           /\ told'["requirer"].endpoints = LokiEndpoints(hook)
           /\ told'["requirer"].faulty = faulty
           /\ ~ SeesUnit("requirer", hook) => LokiEndpoints(hook) = {}
<1>1. told'["requirer"] = [endpoints |-> LokiEndpoints(hook), faulty |-> faulty]
  BY TheRequirer DEF LokiTells, TellsOf, Heard
<1> QED
  BY <1>1 DEF LokiEndpoints

LEMMA LokiGone ==
    ASSUME FrameOK, GoneInv, NEW hook,
           interface = "loki", LokiConsumerHook(hook) \/ LokiLifecycle
    PROVE  stage'["requirer"] # "joined" =>
               told'["requirer"] = Nothing \/ told'["requirer"].endpoints = {}
<1> DEFINE Gone == \/ told'["requirer"] = Nothing
                   \/ told'["requirer"].endpoints = {}
<1> SUFFICES ASSUME stage'["requirer"] # "joined"
             PROVE  Gone
  OBVIOUS
<1>1. stage["requirer"] # "joined" /\ told' = told => Gone
  BY DEF GoneInv
<1>2. ASSUME NEW name, NEW h, NEW faulty, LokiTells(name, h, faulty), ~ SeesUnit("requirer", h)
      PROVE  Gone
  BY <1>2, LokiTellsNothingUnseen
<1>3. CASE LokiConsumerHook(hook)
  <2>1. PICK A, U, V : HookRan("requirer", "provider", hook, A, U, V)
    BY Zenon, <1>3, TheRequirer
       DEF LokiConsumerHook, LokiJoined, LokiChanged, LokiDeparted, RunsOnly, Runs
  <2>2. hook # "joined" /\ (stage["requirer"] = "joined" => hook = "departed")
    BY <2>1, <1>3, StagesOfHooks DEF LokiConsumerHook
  <2>3. ~ SeesUnit("requirer", hook)
    BY <2>2 DEF SeesUnit
  <2>4. CASE hook \in {"app", "unit", "departed"}
    BY Zenon, <1>2, <1>3, <2>3, <2>4 DEF LokiConsumerHook, LokiChanged, LokiDeparted
  <2>5. CASE hook \in {"created", "broken", "elected"}
    BY <1>1, <1>3, <2>2, <2>5 DEF LokiConsumerHook, Silent
  <2> QED
    BY <1>3, <2>2, <2>4, <2>5 DEF LokiConsumerHook
<1>4. CASE LokiLifecycle
  <2>1. PICK A, U, V : Acted("requirer", "provider", A, U, V)
    BY Zenon, <1>4, TheRequirer DEF LokiLifecycle, ReinitializeAlertRules
  <2>2. ~ SeesUnit("requirer", "other")
    BY <2>1 DEF Acted, SeesUnit
  <2> QED
    BY Zenon, <1>2, <1>4, <2>2 DEF LokiLifecycle
<1> QED
  BY <1>3, <1>4

LEMMA ScrapeGone ==
    ASSUME FrameOK, GoneInv, NEW hook, interface = "scrape", ScrapeRequirerHook(hook),
           stage'["requirer"] # "joined"
    PROVE  \/ told'["requirer"] = Nothing
           \/ told'["requirer"].jobs = {} /\ told'["requirer"].rules = {}
<1>1. PICK A, U, V : HookRan("requirer", "provider", hook, A, U, V)
  BY Zenon, TheRequirer
     DEF ScrapeRequirerHook, ScrapeRequirerChanged, ScrapeRequirerDeparted, RunsOnly, Runs
<1>2. hook # "joined" /\ (stage["requirer"] = "joined" => hook = "departed")
  BY <1>1, StagesOfHooks DEF ScrapeRequirerHook
<1>3. ~ SeesUnit("requirer", hook)
  BY <1>2 DEF SeesUnit
<1>4. CASE hook \in {"app", "unit", "departed"}
  <2>1. TargetsChanged(hook)
    BY Zenon, <1>4 DEF ScrapeRequirerHook, ScrapeRequirerChanged, ScrapeRequirerDeparted
  <2>2. told'["requirer"] = [jobs |-> JobsUsed(hook), rules |-> RulesUsed(hook)]
    BY <2>1, TheRequirer DEF TargetsChanged, TellsOf, Heard
  <2> QED
    BY <1>3, <2>2, NoJobsNoTargets
<1>5. CASE hook \in {"created", "broken", "elected"}
  BY <1>2, <1>5 DEF ScrapeRequirerHook, Silent, GoneInv
<1> QED
  BY <1>2, <1>4, <1>5 DEF ScrapeRequirerHook

\* What the requirer reads once it has kept these.
LEMMA DashboardsAreKept ==
    ASSUME NEW kept, kept = [this |-> kept.this, ended |-> kept.ended], stored'["requirer"] = kept
    PROVE  /\ PeerDashboards' = WithDashboards(PeerDashboards.this)'
           /\ IF kept = Nothing THEN PeerDashboards'.this = {} ELSE PeerDashboards' = kept
  BY DEF PeerDashboards, WithDashboards

LEMMA DashboardsGone ==
    ASSUME FrameOK, DashboardsTold, NEW hook, DashboardsRequirerHook(hook)
    PROVE  DashboardsTold'
<1> DEFINE this == PeerDashboards.this
           Keeps(d) == stored'["requirer"] = WithDashboards(d)
           Knows(d) == told'["requirer"] = WithDashboards(d)
<1>1. PICK A, U, V : HookRan("requirer", "provider", hook, A, U, V)
  BY Zenon, TheRequirer
     DEF DashboardsRequirerHook, DashboardsRequirerChanged, RenderDashboards, RunsKeeping,
         DashboardsRequirerBroken, DashboardsRequirerCreated, RunsOnly, Runs
<1>2. /\ led' = led /\ (led => leader["requirer"])
      /\ stage'["requirer"] = "new" => stage["requirer"] = "new"
      /\ stage'["requirer"] = "none" /\ hook # "broken" => stage["requirer"] = "none"
  BY <1>1, TheSides, StagesOfHooks DEF HookRan, FrameOK, DashboardsRequirerHook
<1>3. ASSUME stored'["requirer"] = stored["requirer"], told' = told,
             hook = "created" => this = {},
             hook = "broken" => ~ led \/ this = {}
      PROVE  DashboardsTold'
  <2>1. PeerDashboards' = PeerDashboards
    BY <1>3 DEF PeerDashboards
  <2>2. WithDashboards(PeerDashboards.this)' = WithDashboards(PeerDashboards.this)
    BY <2>1 DEF WithDashboards
  <2>3. NoRelation => NoRelation' \/ this = {}
    BY <1>1, <1>3, StagesOfHooks DEF NoRelation, DashboardsRequirerHook
  <2> QED
    BY <1>2, <1>3, <2>1, <2>2, <2>3 DEF DashboardsTold
<1>4. ASSUME NEW d, Keeps(d), hook \in {"app", "unit", "broken"}, hook = "broken" => d = {},
             Knows(d) \/ (told' = told /\ d = this /\ hook # "broken")
      PROVE  DashboardsTold'
  <2> DEFINE kept == WithDashboards(d)
  <2>1. kept.this = d /\ kept = [this |-> kept.this, ended |-> kept.ended]
    BY DEF WithDashboards
  <2>2. stage'["requirer"] # "new" /\ (hook # "broken" => ~ NoRelation /\ ~ NoRelation')
    BY <1>1, <1>4, StagesOfHooks DEF NoRelation
  <2>3. d = this => kept = PeerDashboards
    BY DEF DashboardsTold
  <2>4. stored'["requirer"] = kept
    BY <1>4
  <2>5. told'["requirer"] = kept \/ (told' = told /\ d = this /\ hook # "broken")
    BY <1>4
  <2> HIDE DEF kept
  <2>6. /\ PeerDashboards' = WithDashboards(PeerDashboards.this)'
        /\ IF kept = Nothing THEN PeerDashboards'.this = {} ELSE PeerDashboards' = kept
    BY Zenon, <2>1, <2>4, DashboardsAreKept
  <2>7. CASE told'["requirer"] = kept
    BY <1>4, <2>1, <2>2, <2>6, <2>7 DEF DashboardsTold, NoRelation
  <2>8. CASE told' = told /\ d = this /\ hook # "broken"
    BY <2>2, <2>3, <2>6, <2>8 DEF DashboardsTold, NoRelation
  <2> QED
    BY <2>5, <2>7, <2>8
<1>5. CASE RenderDashboards(hook) /\ hook \in {"app", "unit"}
  <2> DEFINE rendered == Rendered(DashboardsPublished)
  <2>1. CASE RunsKeeping(hook, [event |-> {"corrupt"}], {}) /\ TellsDashboards({})
    <3>1. Keeps({}) /\ Knows({})
      BY <2>1, TheRequirer DEF RunsKeeping, HookRan, TellsDashboards, TellsOf, Heard
    <3> QED
      BY <1>4, <1>5, <3>1
  <2>2. CASE /\ RunsKeeping(hook, app["requirer"], rendered)
             /\ IF rendered = {} \/ rendered # this THEN TellsDashboards(rendered) ELSE Silent
    <3> HIDE DEF rendered
    <3>1. Keeps(rendered)
      BY <2>2, TheRequirer DEF RunsKeeping, HookRan
    <3>2. Knows(rendered) \/ (told' = told /\ rendered = this)
      BY <2>2, TheRequirer DEF TellsDashboards, TellsOf, Heard, Silent
    <3> QED
      BY <1>4, <1>5, <3>1, <3>2
  <2> QED
    BY Zenon, <1>5, <2>1, <2>2 DEF RenderDashboards
<1>6. CASE DashboardsRequirerCreated
  <2> DEFINE kept == [this |-> {}, ended |-> PeerDashboards.ended \cup PeerDashboards.this]
  <2>1. stored'["requirer"] = kept /\ told' = told
    BY <1>6, TheRequirer DEF DashboardsRequirerCreated, HookRan, Silent
  <2>2. told["requirer"] = Nothing
    <3>1. Comes("requirer", "created")
      BY <1>6, TheRequirer DEF DashboardsRequirerCreated, HookRan
    <3> QED
      BY <3>1 DEF Comes, DashboardsTold
  <2>3. kept.this = {} /\ kept = [this |-> kept.this, ended |-> kept.ended]
    OBVIOUS
  <2> HIDE DEF kept
  <2>4. /\ PeerDashboards' = WithDashboards(PeerDashboards.this)'
        /\ IF kept = Nothing THEN PeerDashboards'.this = {} ELSE PeerDashboards' = kept
    BY Zenon, <2>1, <2>3, DashboardsAreKept
  <2> QED
    BY <2>1, <2>2, <2>3, <2>4 DEF DashboardsTold
<1>7. CASE DashboardsRequirerBroken /\ hook = "broken"
  <2>1. CASE leader["requirer"] /\ this # {}
    <3>1. Keeps({}) /\ Knows({})
      BY <1>7, <2>1, TheRequirer
         DEF DashboardsRequirerBroken, RunsKeeping, HookRan, TellsDashboards, TellsOf, Heard
    <3> QED
      BY <1>4, <1>7, <3>1
  <2>2. CASE ~ (leader["requirer"] /\ this # {})
    <3>1. stored'["requirer"] = stored["requirer"] /\ told' = told
      BY <1>7, <2>2, TheRequirer DEF DashboardsRequirerBroken, RunsOnly, Runs, HookRan, Silent
    <3> QED
      BY <1>2, <1>3, <1>7, <2>2, <3>1
  <2> QED
    BY <2>1, <2>2
<1>8. CASE RunsOnly("requirer", hook) /\ Silent /\ hook \notin {"created", "broken"}
  <2>1. stored'["requirer"] = stored["requirer"] /\ told' = told
    BY <1>8, TheRequirer DEF RunsOnly, Runs, HookRan, Silent
  <2> QED
    BY <1>3, <1>8, <2>1
<1> QED
  BY <1>5, <1>6, <1>7, <1>8 DEF DashboardsRequirerHook, DashboardsRequirerChanged

LEMMA GoneStep ==
    ASSUME FrameOK, GoneInv, [Next]_relationVars
    PROVE  GoneInv'
<1>1. interface' = interface
  BY FrameStep
<1>2. CASE /\ stage'["requirer"] = stage["requirer"] /\ told'["requirer"] = told["requirer"]
           /\ stored'["requirer"] = stored["requirer"] /\ led' = led
  BY <1>1, <1>2 DEF GoneInv, NoRelation, DashboardsTold, PeerDashboards, WithDashboards
<1>3. CASE Juju
  <2>1. CASE Made
    BY <1>1, <2>1, TheSides DEF Made, GoneInv, NoRelation, DashboardsTold, PeerDashboards, WithDashboards
  <2>2. CASE Removed
    BY <1>1, <2>2, TheSides DEF Removed, GoneInv, NoRelation, DashboardsTold, PeerDashboards, WithDashboards
  <2>3. CASE Elected
    BY <1>1, <2>3 DEF Elected, GoneInv, NoRelation, DashboardsTold, PeerDashboards, WithDashboards
  <2> QED
    BY <1>3, <2>1, <2>2, <2>3, JujuFacts
<1>4. CASE UNCHANGED relationVars
  BY <1>2, <1>4 DEF relationVars, databags, heard
<1>5. CASE LogContainerReplaced
  BY <1>1, <1>5, ReplacedFacts DEF LogContainerReplaced, Replaced, GoneInv
<1>6. CASE interface \in Flavours \cup {"saml", "forwarder", "promtail"}
  BY <1>1, <1>6 DEF GoneInv, Flavours
<1>7. ASSUME NEW hook, MovesOfProvider(hook)
      PROVE  GoneInv'
  BY <1>2, <1>7, ProviderMovesAlone
<1>8. ASSUME NEW hook,
             \/ interface = "redis" /\ RedisRequirerHook(hook)
             \/ interface = "s3" /\ S3RequirerHook(hook)
             \/ interface = "ingress" /\ IngressRequirerHook(hook)
             \/ interface = "tracing" /\ (TracingRequirerHook(hook) \/ TracingOtherHook)
      PROVE  GoneInv'
  <2>1. NoRelation' => told'["requirer"] = Nothing
    BY Zenon, <1>8, RedisGone, S3Gone, IngressGone, TracingGone
  <2>2. interface' \in {"redis", "s3", "ingress", "tracing"}
    BY <1>1, <1>8
  <2> QED
    BY <2>1, <2>2 DEF GoneInv, NoRelation
<1>9. ASSUME NEW hook,
             interface = "loki" /\ (LokiConsumerHook(hook) \/ LokiLifecycle)
      PROVE  GoneInv'
  BY <1>1, <1>9, LokiGone DEF GoneInv
<1>10. ASSUME NEW hook, interface = "scrape", ScrapeRequirerHook(hook)
       PROVE  GoneInv'
  BY <1>1, <1>10, ScrapeGone DEF GoneInv
<1>11. ASSUME NEW hook, interface = "dashboards", DashboardsRequirerHook(hook)
       PROVE  GoneInv'
  BY <1>1, <1>11, DashboardsGone DEF GoneInv
<1> QED
  BY Zenon, <1>3, <1>4, <1>5, <1>6, <1>7, <1>8, <1>9, <1>10, <1>11, RequirerOfTheInterface

LEMMA GoneInvariant == Spec => []GoneInv
<1>1. RelationInit => GoneInv
  BY TheSides DEF RelationInit, GoneInv, NoRelation, DashboardsTold, PeerDashboards, WithDashboards
<1>2. FrameOK /\ GoneInv /\ [Next]_relationVars => GoneInv'
  BY GoneStep
<1> QED
  BY <1>1, <1>2, FrameInvariant, PTL DEF Spec

\* With the relation goes what the charm was told of it: the address, the credentials, the
\* URL and the endpoints of redis, s3, ingress and tracing, the endpoints of Loki, the jobs and
\* the rules; of dashboards, when the units lead all the time, and the charm knows in any case
\* of all that is left where it reads them.
THEOREM NothingOutlivesTheRelation == Spec => []GoneIsTold
<1>1. GoneInv => GoneIsTold
  BY DEF GoneInv, GoneIsTold, NoRelation, DashboardsTold
<1> QED
  BY <1>1, GoneInvariant, PTL

-----------------------------------------------------------------------------
(***************************************************************************)
(* Nothing is what Python has None for, or the absence of a key.  It is no *)
(* value that is published; of what else the sides read and write, that it *)
(* is none of it has to be said, since in TLA+ any two things may be equal.*)
(***************************************************************************)
IsAFunction(f) == f = [x \in DOMAIN f |-> f[x]]

Texts == {"bucket", "name", "uri", RedisPort, "url", "errors", "app", "host",
          "none", "valid", "faulty", "credentials", "otlp_http", "scrape_job_errors",
          "file", "garbled", "corrupt"}

NothingIsApart ==
    /\ ~ IsAFunction(Nothing) /\ Nothing # << >> /\ Nothing # <<DefaultJob>>
    /\ Nothing \notin Texts \cup Int
    /\ Nothing \notin SUBSET Texts
    /\ Nothing \notin SUBSET TracingReceivers

LEMMA RecordsAreSomething ==
    ASSUME NothingIsApart
    PROVE  /\ \A a, u : [app |-> a, unit |-> u] # Nothing
           /\ \A e, f : [endpoints |-> e, faulty |-> f] # Nothing
           /\ \A c, i, r : [clients |-> c, installed |-> i, running |-> r] # Nothing
           /\ \A c, e : [credentials |-> c, endpoints |-> e] # Nothing
           /\ \A j, r : [jobs |-> j, rules |-> r] # Nothing
           /\ \A t, e : [this |-> t, ended |-> e] # Nothing
  BY DEF NothingIsApart, IsAFunction

(***************************************************************************)
(* A provider knows of the request, and is told of it once.                *)
(***************************************************************************)
LEMMA NotedIs ==
    ASSUME NEW bag
    PROVE  /\ \A data : Noted(Updated(bag, Entry("data", data))) = data
           /\ \A key, value : key # "data" => Noted(Updated(bag, Entry(key, value))) = Noted(bag)
           /\ Noted(NoData) = NoData
<1>1. ASSUME NEW data
      PROVE  Noted(Updated(bag, Entry("data", data))) = data
  BY <1>1 DEF Noted, Has, Updated, Entry
<1>2. ASSUME NEW key, NEW value, key # "data"
      PROVE  Noted(Updated(bag, Entry(key, value))) = Noted(bag)
  BY <1>2 DEF Noted, Has, Updated, Entry
<1>3. Noted(NoData) = NoData
  BY NoDataIsEmpty DEF Noted, Has
<1> QED
  BY <1>1, <1>2, <1>3

\* What is asked for, by the libraries that ask once.
AskedKey == IF interface = "s3" THEN "bucket" ELSE Resource

Asked == AskedKey \in DOMAIN app["requirer"]
RequestNoted == AskedKey \in DOMAIN Noted(app["provider"])

RequestInv ==
    interface \in Flavours \cup {"s3"} =>
        /\ led /\ stage["requirer"] = "joined" => Asked
        /\ led /\ stage["requirer"] = "created" /\ interface # "s3" => Asked
        /\ led /\ Asked => told["provider"] # Nothing \/ "app" \in due["provider"]
        /\ RequestNoted => Asked /\ told["provider"] # Nothing
        /\ interface # "etcd" /\ told["provider"] # Nothing => RequestNoted

\* What the hooks of a provider do about the request.
NotesIt ==
    /\ interface # "etcd"
    /\ leader["provider"]
    /\ RequestNoted' <=> Asked
    /\ IF Asked /\ ~ RequestNoted THEN told'["provider"] = Reading("provider") ELSE told' = told
    /\ event'.name \in {"credentials_requested", "requested"} => Asked /\ ~ RequestNoted

PassesItOver(hook) ==
    /\ hook \in {"app", "unit"} => ~ leader["provider"]
    /\ RequestNoted' <=> RequestNoted
    /\ told' = told
    /\ event'.name = "none"

TellsOfAll ==
    /\ interface = "etcd"
    /\ RequestNoted' <=> RequestNoted
    /\ told'["provider"] = Reading("provider")
    /\ event'.name = "mtls_cert_updated"

LEMMA KeysApart ==
    interface \in Flavours \cup {"s3"} =>
        /\ AskedKey \in {"bucket", "database", "topic", "index", "prefix"}
        /\ AskedKey \notin {"data", "requested-secrets", "access-key", "secret-key"}
        /\ interface' = interface => AskedKey' = AskedKey
  BY DEF AskedKey, Resource, Flavours

LEMMA NotedLater ==
    interface \in Flavours \cup {"s3"} /\ interface' = interface =>
        /\ Asked' <=> AskedKey \in DOMAIN app'["requirer"]
        /\ RequestNoted' <=> AskedKey \in DOMAIN Noted(app'["provider"])
  BY KeysApart DEF Asked, RequestNoted, Noted, Has

LEMMA S3ProviderAsked ==
    ASSUME FrameOK, NEW hook, S3ProviderHook(hook)
    PROVE  /\ "app" \in due["provider"] => "app" \in due'["provider"] \/ hook = "app"
           /\ NotesIt \/ PassesItOver(hook)
<1> interface = "s3" /\ AskedKey = "bucket"
  BY DEF S3ProviderHook, AskedKey
<1>1. CASE hook \in {"app", "unit"} /\ leader["provider"]
  <2>1. HookRan("provider", "requirer", hook,
                Updated(app["provider"], Entry("data", app["requirer"])),
                unit["provider"], stored["provider"])
    BY Zenon, <1>1, TheProvider DEF S3ProviderHook, Runs
  <2>2. app'["provider"] = Updated(app["provider"], Entry("data", app["requirer"]))
        /\ interface' = interface
    BY <2>1 DEF HookRan, Written
  <2>3. RequestNoted' <=> Asked
    <3>1. Noted(app'["provider"]) = app["requirer"]
      <4> DEFINE noted == Updated(app["provider"], Entry("data", app["requirer"]))
      <4>1. Noted(noted) = app["requirer"]
        BY Zenon, NotedIs
      <4>2. app'["provider"] = noted
        BY <2>2
      <4> QED
        BY <4>1, <4>2
    <3> QED
      BY <2>2, <3>1, NotedLater DEF Asked
  <2>4. "bucket" \in S3Added(S3Seen, app["requirer"]) <=> Asked /\ ~ RequestNoted
    BY DEF S3Added, S3Seen, RequestNoted, Noted, Asked
  <2>5. IF "bucket" \in S3Added(S3Seen, app["requirer"]) THEN S3BucketRequested ELSE Silent
    BY Zenon, <1>1 DEF S3ProviderHook
  <2>6. CASE Asked /\ ~ RequestNoted
    <3>1. told'["provider"] = Reading("provider")
      BY <2>4, <2>5, <2>6, TheProvider DEF S3BucketRequested, Tells, TellsOf, Heard
    <3> QED
      BY <1>1, <2>1, <2>3, <2>6, <3>1 DEF NotesIt, HookRan
  <2>7. CASE ~ (Asked /\ ~ RequestNoted)
    <3>1. told' = told /\ event'.name = "none"
      BY <2>4, <2>5, <2>7, HeardFacts DEF NothingHeard
    <3> QED
      BY <1>1, <2>1, <2>3, <2>7, <3>1 DEF NotesIt, HookRan
  <2> QED
    BY <2>6, <2>7
<1>2. CASE ~ (hook \in {"app", "unit"} /\ leader["provider"])
  <2>1. HookRan("provider", "requirer", hook, app["provider"], unit["provider"], stored["provider"])
    BY Zenon, <1>2, TheProvider DEF S3ProviderHook, RunsOnly, Runs
  <2>2. told' = told /\ event'.name = "none"
    BY <1>2, HeardFacts DEF S3ProviderHook, NothingHeard
  <2>3. app'["provider"] = app["provider"] /\ interface' = interface
    BY <2>1 DEF HookRan, Written
  <2>4. RequestNoted' <=> RequestNoted
    BY <2>3, NotedLater DEF RequestNoted
  <2> QED
    BY <1>2, <2>1, <2>2, <2>4 DEF PassesItOver, HookRan
<1> QED
  BY <1>1, <1>2

LEMMA DataProviderAsked ==
    ASSUME FrameOK, NEW hook, DataProviderHook(hook)
    PROVE  /\ "app" \in due["provider"] => "app" \in due'["provider"] \/ hook = "app"
           /\ NotesIt \/ PassesItOver(hook) \/ TellsOfAll
<1>1. interface \in Flavours /\ AskedKey = Resource /\ Resource # "data"
  BY ResourceIsNamed DEF DataProviderHook, AskedKey, Flavours
<1>2. PICK A, V : HookRan("provider", "requirer", hook, A, unit["provider"], V)
  BY Zenon, TheProvider
     DEF DataProviderHook, DatabaseProviderChanged, KafkaProviderChanged, OpenSearchProviderChanged,
         EtcdProviderChanged, Requested, RunsOnly, Runs
<1>3. /\ "app" \in due["provider"] => "app" \in due'["provider"] \/ hook = "app"
      /\ interface' = interface
  BY <1>2 DEF HookRan
<1>4. ASSUME RunsOnly("provider", hook) \/ RunsStoring("provider", hook, app["provider"], unit["provider"],
                       IF hook = "broken" THEN Nothing ELSE stored["provider"])
      PROVE  RequestNoted' <=> RequestNoted
  <2>1. app'["provider"] = app["provider"]
    BY <1>4, TheProvider DEF RunsOnly, Runs, HookRan, Written
  <2> QED
    BY <1>1, <1>3, <2>1, NotedLater DEF RequestNoted
<1>5. CASE hook \in {"app", "unit"} /\ interface # "etcd"
  <2>1. Requested(hook, Resource)
    BY <1>5 DEF DataProviderHook, DatabaseProviderChanged, KafkaProviderChanged,
                OpenSearchProviderChanged, EtcdProviderChanged, Resource
  <2>2. CASE ~ leader["provider"]
    <3>1. RunsOnly("provider", hook) /\ Silent
      BY <2>1, <2>2 DEF Requested
    <3> QED
      BY <1>3, <1>4, <2>2, <3>1, HeardFacts DEF PassesItOver, NothingHeard
  <2>3. CASE leader["provider"]
    <3> DEFINE noted == Note(app["provider"], app["requirer"])
    <3>1. /\ Runs("provider", hook, noted, unit["provider"])
          /\ IF Resource \in Added(Noted(app["provider"]), app["requirer"])
             THEN ResourceRequested ELSE Silent
      BY <2>1, <2>3 DEF Requested
    <3>2. app'["provider"] = noted
      BY Zenon, <3>1, TheProvider DEF Runs, HookRan, Written
    <3>3. Noted(noted) = Without(app["requirer"], {"data"})
      BY Zenon, NotedIs DEF Note
    <3>4. RequestNoted' <=> Asked
      <4>1. DOMAIN Without(app["requirer"], {"data"}) = DOMAIN app["requirer"] \ {"data"}
        BY Zenon, WithoutIs
      <4> HIDE DEF noted
      <4>2. DOMAIN Noted(app'["provider"]) = DOMAIN app["requirer"] \ {"data"}
        BY <3>2, <3>3, <4>1
      <4> QED
        BY <1>1, <1>3, <4>2, NotedLater DEF Asked
    <3>5. Resource \in Added(Noted(app["provider"]), app["requirer"]) <=> Asked /\ ~ RequestNoted
      <4>1. DOMAIN Without(app["requirer"], {"data"}) = DOMAIN app["requirer"] \ {"data"}
        BY Zenon, WithoutIs
      <4> QED
        BY <1>1, <4>1 DEF Added, Asked, RequestNoted
    <3>6. CASE Asked /\ ~ RequestNoted
      <4>1. told'["provider"] = Reading("provider")
        BY <3>1, <3>5, <3>6, TheProvider DEF ResourceRequested, Tells, TellsOf, Heard
      <4> QED
        BY <1>3, <1>5, <2>3, <3>4, <3>6, <4>1 DEF NotesIt
    <3>7. CASE ~ (Asked /\ ~ RequestNoted)
      <4>1. told' = told /\ event'.name = "none"
        BY <3>1, <3>5, <3>7, HeardFacts DEF NothingHeard
      <4> QED
        BY <1>3, <1>5, <2>3, <3>4, <3>7, <4>1 DEF NotesIt
    <3> QED
      BY <3>6, <3>7
  <2> QED
    BY <2>2, <2>3
<1>6. CASE hook \in {"app", "unit"} /\ interface = "etcd"
  <2>1. RunsOnly("provider", hook) /\ Tells("provider", "mtls_cert_updated")
    BY <1>6 DEF DataProviderHook, DatabaseProviderChanged, KafkaProviderChanged,
                OpenSearchProviderChanged, EtcdProviderChanged
  <2>2. told'["provider"] = Reading("provider") /\ event'.name = "mtls_cert_updated"
    BY <2>1, TheProvider DEF Tells, TellsOf, Heard
  <2> QED
    BY <1>3, <1>4, <1>6, <2>1, <2>2 DEF TellsOfAll
<1>7. CASE hook \notin {"app", "unit"}
  <2>1. RunsStoring("provider", hook, app["provider"], unit["provider"],
                    IF hook = "broken" THEN Nothing ELSE stored["provider"]) /\ Silent
    BY <1>7 DEF DataProviderHook
  <2> QED
    BY <1>3, <1>4, <1>7, <2>1, HeardFacts DEF PassesItOver, NothingHeard
<1> QED
  BY <1>5, <1>6, <1>7

\* What a leader asks for stays, and wakes the provider.
AsksIt ==
    /\ Asked => Asked'
    /\ Asked' /\ ~ Asked => "app" \in due'["provider"]
    /\ "app" \in due["provider"] => "app" \in due'["provider"]
    /\ leader["requirer"] /\ stage'["requirer"] = "joined" =>
           \/ stage["requirer"] = "joined" \/ Asked'
           \/ interface # "s3" /\ stage["requirer"] = "created"
    /\ leader["requirer"] /\ stage'["requirer"] = "created" =>
           \/ stage["requirer"] = "created" \/ Asked'
           \/ interface = "s3"

LEMMA S3RequirerAsks ==
    ASSUME FrameOK, NEW hook, S3RequirerHook(hook)
    PROVE  AsksIt
<1> interface = "s3" /\ AskedKey = "bucket"
  BY DEF S3RequirerHook, AskedKey
<1>1. CASE hook = "joined"
  <2> DEFINE asks == S3UpdateIfLeader("requirer", [bucket |-> "bucket"])
  <2>1. HookRan("requirer", "provider", "joined", asks, unit["requirer"], stored["requirer"])
    BY Zenon, <1>1, TheRequirer DEF S3RequirerHook, S3Joined, Runs
  <2> HIDE DEF asks
  <2>2. app'["requirer"] = asks /\ interface' = interface /\ stage'["requirer"] = "joined"
        /\ (asks # app["requirer"] => "app" \in due'["provider"])
        /\ ("app" \in due["provider"] => "app" \in due'["provider"])
    BY <2>1 DEF HookRan, Written
  <2>3. /\ leader["requirer"] => DOMAIN asks = DOMAIN app["requirer"] \cup {"bucket"}
        /\ ~ leader["requirer"] => asks = app["requirer"]
    BY DEF asks, S3UpdateIfLeader, Updated
  <2> QED
    BY <2>2, <2>3, NotedLater DEF AsksIt, Asked
<1>2. CASE hook # "joined"
  <2>1. HookRan("requirer", "provider", hook, app["requirer"], unit["requirer"], stored["requirer"])
    BY Zenon, <1>2, TheRequirer DEF S3RequirerHook, S3Changed, S3Broken, RunsOnly, Runs
  <2>2. app'["requirer"] = app["requirer"] /\ interface' = interface
        /\ ("app" \in due["provider"] => "app" \in due'["provider"])
        /\ (stage'["requirer"] = "joined" => stage["requirer"] = "joined")
    BY <1>2, <2>1 DEF HookRan, Written
  <2> QED
    BY <2>2, NotedLater DEF AsksIt, Asked
<1> QED
  BY <1>1, <1>2

LEMMA DataRequirerAsks ==
    ASSUME FrameOK, CredentialsInv, NEW hook, DataRequirerHook(hook)
    PROVE  AsksIt
<1>1. interface \in Flavours /\ AskedKey = Resource /\ interface # "s3"
  BY DEF DataRequirerHook, AskedKey, Flavours
<1>2. CASE hook = "created"
  <2> DEFINE asks == Updated(RequestsSecrets, Entry(Resource, "name"))
  <2>1. Asks(Resource)
    BY <1>2 DEF DataRequirerHook, DatabaseCreated, KafkaCreated, OpenSearchCreated, EtcdCreated, Resource
  <2>2. Resource \in DOMAIN asks
    <3>1. \A key, value : key \in DOMAIN Updated(RequestsSecrets, Entry(key, value))
      BY DEF Updated, Entry
    <3> QED
      BY Zenon, <3>1
  <2>3. CASE leader["requirer"]
    <3>1. Runs("requirer", "created", asks, RequestsSecrets)
      BY <2>1, <2>3 DEF Asks
    <3> HIDE DEF asks
    <3>2. HookRan("requirer", "provider", "created", asks, RequestsSecrets, stored["requirer"])
      BY Zenon, <3>1, TheRequirer DEF Runs
    <3>3. app'["requirer"] = asks /\ interface' = interface /\ stage'["requirer"] = "created"
          /\ (asks # app["requirer"] => "app" \in due'["provider"])
          /\ ("app" \in due["provider"] => "app" \in due'["provider"])
      BY <3>2 DEF HookRan, Written
    <3> QED
      BY <1>1, <2>2, <3>3, NotedLater DEF AsksIt, Asked
  <2>4. CASE ~ leader["requirer"]
    <3>1. RunsOnly("requirer", "created")
      BY <2>1, <2>4 DEF Asks
    <3>2. HookRan("requirer", "provider", "created", app["requirer"], unit["requirer"], stored["requirer"])
      BY Zenon, <3>1, TheRequirer DEF RunsOnly, Runs
    <3> QED
      BY <1>1, <2>4, <3>2, NotedLater DEF AsksIt, Asked, HookRan, Written
  <2> QED
    BY <2>3, <2>4
<1>3. CASE hook # "created"
  <2>1. PICK U, V : HookRan("requirer", "provider", hook, app["requirer"], U, V)
    BY Zenon, <1>3, TheRequirer
       DEF DataRequirerHook, DataRequirerChanged, OpenSearchSecretChanged, EtcdSecretChanged,
           OtherSecretChanged, RunsOnly, Runs
  <2>2. app'["requirer"] = app["requirer"] /\ interface' = interface
        /\ ("app" \in due["provider"] => "app" \in due'["provider"])
        /\ (stage'["requirer"] = "joined" => stage["requirer"] \in {"joined", "created"})
        /\ (stage'["requirer"] = "created" => stage["requirer"] = "created")
    BY <1>3, <2>1 DEF HookRan, Written, Comes
  <2> QED
    BY <1>1, <2>2, NotedLater DEF AsksIt, Asked
<1> QED
  BY <1>2, <1>3

LEMMA RequestStep ==
    ASSUME NothingIsApart, FrameOK, CredentialsInv, RequestInv, [Next]_relationVars
    PROVE  RequestInv'
<1>1. interface' = interface
  BY FrameStep
<1> SUFFICES ASSUME interface \in Flavours \cup {"s3"}
             PROVE  RequestInv'
  BY <1>1 DEF RequestInv
<1>2. /\ Asked' <=> AskedKey \in DOMAIN app'["requirer"]
      /\ RequestNoted' <=> AskedKey \in DOMAIN Noted(app'["provider"])
  BY <1>1, NotedLater
<1>3. CASE UNCHANGED relationVars
  BY <1>2, <1>3 DEF relationVars, databags, heard, RequestInv, Asked, RequestNoted
<1>4. CASE Juju
  <2>1. CASE Made
    <3>1. app'["requirer"] = NoData /\ app'["provider"] = NoData
      BY <2>1, TheSides DEF Made
    <3>2. ~ Asked' /\ ~ RequestNoted'
      BY <1>2, <3>1, NoDataIsEmpty, NotedIs
    <3> QED
      BY <1>1, <2>1, <3>2, TheSides DEF Made, RequestInv
  <2>2. CASE Removed
    BY <1>1, <1>2, <2>2, TheSides DEF Removed, RequestInv, Asked, RequestNoted
  <2>3. CASE Elected
    BY <1>1, <1>2, <2>3 DEF Elected, RequestInv, Asked, RequestNoted
  <2> QED
    BY <1>4, <2>1, <2>2, <2>3, JujuFacts
<1>5. ASSUME NEW hook, S3RequirerHook(hook) \/ DataRequirerHook(hook)
      PROVE  RequestInv'
  <2>1. /\ led' = led /\ leader' = leader /\ app'["provider"] = app["provider"]
        /\ told'["provider"] = told["provider"]
    BY <1>5, RequirerMovesAlone DEF MovesOfRequirer
  <2>2. AsksIt
    BY <1>5, S3RequirerAsks, DataRequirerAsks
  <2>3. led => leader["requirer"]
    BY TheSides DEF FrameOK
  <2> QED
    BY <1>1, <1>2, <2>1, <2>2, <2>3 DEF AsksIt, RequestInv, RequestNoted
<1>6. ASSUME NEW hook, S3ProviderHook(hook) \/ DataProviderHook(hook)
      PROVE  RequestInv'
  <2>1. /\ led' = led /\ leader' = leader /\ app'["requirer"] = app["requirer"]
        /\ stage'["requirer"] = stage["requirer"]
    BY <1>6, ProviderMovesAlone DEF MovesOfProvider
  <2>2. /\ "app" \in due["provider"] => "app" \in due'["provider"] \/ hook = "app"
        /\ NotesIt \/ PassesItOver(hook) \/ TellsOfAll
    BY <1>6, S3ProviderAsked, DataProviderAsked
  <2>3. led => leader["provider"]
    BY TheSides DEF FrameOK
  <2>4. Reading("provider") # Nothing
    BY RecordsAreSomething DEF Reading
  <2>5. Asked' <=> Asked
    BY <1>2, <2>1 DEF Asked
  <2>6. CASE NotesIt
    BY <1>1, <2>1, <2>4, <2>5, <2>6 DEF NotesIt, RequestInv
  <2>7. CASE PassesItOver(hook)
    BY <1>1, <2>1, <2>2, <2>3, <2>5, <2>7 DEF PassesItOver, RequestInv
  <2>8. CASE TellsOfAll
    BY <1>1, <2>1, <2>4, <2>5, <2>8 DEF TellsOfAll, RequestInv
  <2> QED
    BY <2>2, <2>6, <2>7, <2>8
<1>7. CASE S3Step
  <2>1. PICK option \in S3RequiredOptions, value \in Values : S3SetOption(option, value)
    BY <1>7 DEF S3Step, S3SetConnectionInfo
  <2> DEFINE data == S3UpdateIfLeader("provider", Entry(option, value))
  <2>2. Acts("provider", data, unit["provider"], stored["provider"]) /\ Silent
    BY <2>1 DEF S3SetOption, S3UpdateConnectionInfo, Publishes, PublishesStoring
  <2>3. Noted(data) = Noted(app["provider"])
    <3>1. option # "data"
      BY DEF S3RequiredOptions
    <3> QED
      BY <3>1 DEF S3UpdateIfLeader, Noted, Has, Updated, Entry
  <2> HIDE DEF data
  <2>4. Acted("provider", "requirer", data, unit["provider"], stored["provider"]) /\ told' = told
    BY Zenon, <2>2, TheProvider DEF Silent
  <2>5. /\ led' = led /\ stage' = stage /\ app'["requirer"] = app["requirer"]
        /\ app'["provider"] = data
        /\ ("app" \in due["provider"] => "app" \in due'["provider"])
    BY <2>4 DEF Acted, Written
  <2> QED
    BY <1>1, <1>2, <2>3, <2>4, <2>5 DEF RequestInv, Asked, RequestNoted
<1>8. CASE DataStep
  <2>1. PICK field, value : field \in {"credentials", "endpoints"} /\ UpdateRelationData(field, value)
    BY <1>8, DataStepGives
  <2>2. Given(field, value)
    BY <2>1, GivenFacts
  <2>3. \/ app' = app
        \/ app'["provider"] = Updated(app["provider"], Entry("secret-user", "uri"))
        \/ app'["provider"] = Updated(app["provider"], Entry(field, value))
    BY <2>2 DEF Given
  <2>4. Noted(app'["provider"]) = Noted(app["provider"])
    <3>1. Noted(Updated(app["provider"], Entry("secret-user", "uri"))) = Noted(app["provider"])
      BY NotedIs
    <3>2. Noted(Updated(app["provider"], Entry(field, value))) = Noted(app["provider"])
      BY <2>1, NotedIs
    <3> QED
      BY <2>3, <3>1, <3>2
  <2>5. /\ led' = led /\ stage' = stage /\ app'["requirer"] = app["requirer"]
        /\ due'["provider"] = due["provider"] /\ told' = told
    BY <2>2 DEF Given, NothingHeard
  <2> QED
    BY <1>1, <1>2, <2>4, <2>5 DEF RequestInv, Asked, RequestNoted
<1>9. ASSUME Next
      PROVE  \/ Juju \/ S3Step \/ DataStep
             \/ \E hook : \/ S3RequirerHook(hook) \/ DataRequirerHook(hook)
                          \/ S3ProviderHook(hook) \/ DataProviderHook(hook)
  BY <1>9, StepOfTheInterface DEF S3Hook, DataHook, Flavours, LokiClients
<1> QED
  BY <1>3, <1>4, <1>5, <1>6, <1>7, <1>8, <1>9

LEMMA RequestInvariant ==
    ASSUME NothingIsApart
    PROVE  Spec => []RequestInv
<1>1. RelationInit => RequestInv
  <2> SUFFICES ASSUME RelationInit
               PROVE  RequestInv
    OBVIOUS
  <2>1. /\ app["requirer"] = NoData /\ app["provider"] = NoData
        /\ told["provider"] = Nothing /\ led = FALSE
    BY TheSides DEF RelationInit
  <2>2. ~ Asked /\ ~ RequestNoted
    BY <2>1, NoDataIsEmpty, NotedIs DEF Asked, RequestNoted
  <2> QED
    BY <2>1, <2>2 DEF RequestInv
<1>2. FrameOK /\ CredentialsInv /\ RequestInv /\ [Next]_relationVars => RequestInv'
  BY RequestStep
<1> QED
  BY <1>1, <1>2, FrameInvariant, CredentialsInvariant, PTL DEF Spec

\* Of ingress and tracing, what a leader of the requirer publishes.
LeadersRequest ==
    IF interface = "ingress" THEN IngressAppData ELSE [receivers |-> TracingProtocols]

PublishedByLeader ==
    leader["requirer"] /\ ~ dying /\ stage["requirer"] \in {"created", "joined"}
        /\ "elected" \notin due["requirer"] => app["requirer"] = LeadersRequest

HeardByProvider ==
    stage["provider"] = "joined" /\ due["provider"] \cap {"app", "unit"} = {}
        /\ app["requirer"] = LeadersRequest
        /\ (interface = "ingress" => unit["requirer"] = IngressUnitData) =>
            told["provider"] # Nothing /\ told["provider"].app = app["requirer"]

PublishInv ==
    interface \in {"ingress", "tracing"} =>
        /\ PublishedByLeader
        /\ interface = "ingress" /\ stage["requirer"] \in {"created", "joined"} =>
               unit["requirer"] = IngressUnitData
        /\ HeardByProvider

\* What the requirers do in a hook.
LEMMA IngressRequirerPublishes ==
    ASSUME FrameOK, NEW hook, IngressRequirerHook(hook)
    PROVE  \/ \E V : HookRan("requirer", "provider", hook, IngressPublishedAppData, IngressUnitData, V)
           \/ /\ \E V : HookRan("requirer", "provider", hook, app["requirer"], unit["requirer"], V)
              /\ hook = "broken" \/ (hook = "elected" /\ ~ Related("requirer"))
<1>1. CASE IngressHandlesRelation(hook) /\ hook \in {"created", "joined", "app", "unit", "departed"}
  BY Zenon, <1>1, TheRequirer DEF IngressHandlesRelation, Runs
<1>2. CASE hook = "broken" /\ IngressRevoked
  BY Zenon, <1>2, TheRequirer DEF IngressRevoked
<1>3. CASE hook = "elected" /\ IngressElected
  BY Zenon, <1>3, TheRequirer DEF IngressElected, Runs, RunsOnly
<1> QED
  BY Zenon, <1>1, <1>2, <1>3 DEF IngressRequirerHook

LEMMA IngressProviderHears ==
    ASSUME FrameOK, NEW hook, IngressProviderHook(hook)
    PROVE  /\ HookRan("provider", "requirer", hook, app["provider"], unit["provider"], stored["provider"])
           /\ \/ /\ hook \in {"created", "joined", "app", "unit", "departed"}
                 /\ app["requirer"] = IngressAppData /\ unit["requirer"] = IngressUnitData
                 /\ told'["provider"] = Reading("provider")
              \/ ~ (app["requirer"] = IngressAppData /\ unit["requirer"] = IngressUnitData)
              \/ hook = "elected" /\ told' = told
              \/ hook = "broken"
<1>1. HookRan("provider", "requirer", hook, app["provider"], unit["provider"], stored["provider"])
  BY Zenon, TheProvider DEF IngressProviderHook, RunsOnly, Runs
<1>2. CASE hook \in {"created", "joined", "app", "unit", "departed"} /\ IngressHandlesRequirer(hook)
  <2>1. ASSUME app["requirer"] = IngressAppData, unit["requirer"] = IngressUnitData
        PROVE  told'["provider"] = Reading("provider")
    <3>1. IngressIsReady(stage'["provider"] = "joined")
      BY <2>1 DEF IngressIsReady, IngressValidAppData, IngressValidUnitData, Has, IngressAppData,
                  IngressUnitData
    <3>2. IngressDataProvided
      BY <1>2, <3>1 DEF IngressHandlesRequirer
    <3> QED
      BY Zenon, <3>2, TheProvider DEF IngressDataProvided, Tells, TellsOf, Heard
  <2> QED
    BY <1>1, <1>2, <2>1
<1>3. CASE hook = "elected" /\ Silent
  BY <1>1, <1>3 DEF Silent
<1> QED
  BY <1>1, <1>2, <1>3 DEF IngressProviderHook

LEMMA TracingRequirerPublishes ==
    ASSUME FrameOK, interface = "tracing", NEW hook, TracingRequirerHook(hook) \/ TracingOtherHook
    PROVE  \/ /\ HookRan("requirer", "provider", hook, TracingRequest(hook), unit["requirer"], stored["requirer"])
              /\ hook \in {"created", "joined", "app", "unit", "departed", "broken", "elected"}
           \/ Acted("requirer", "provider", TracingRequest("other"), unit["requirer"], stored["requirer"])
<1>1. CASE TracingRequirerHook(hook)
  <2>1. HookRan("requirer", "provider", hook, TracingRequest(hook), unit["requirer"], stored["requirer"])
    BY Zenon, <1>1, TheRequirer DEF TracingRequirerHook, Runs
  <2>2. hook \in {"created", "joined", "app", "unit", "departed", "broken", "elected"}
    BY <1>1 DEF TracingRequirerHook
  <2> QED
    BY <2>1, <2>2
<1>2. CASE TracingOtherHook
  BY Zenon, <1>2, TheRequirer DEF TracingOtherHook, Publishes, PublishesStoring
<1> QED
  BY <1>1, <1>2

LEMMA TracingProviderHears ==
    ASSUME FrameOK, interface = "tracing", NEW hook, TracingProviderHook(hook)
    PROVE  /\ HookRan("provider", "requirer", hook, app["provider"], unit["provider"], stored["provider"])
           /\ \/ /\ hook \in {"created", "joined", "app", "unit"}
                 /\ app["requirer"] = LeadersRequest => told'["provider"] = Reading("provider")
              \/ hook \in {"departed", "elected"} /\ told' = told
              \/ hook = "broken"
<1>1. HookRan("provider", "requirer", hook, app["provider"], unit["provider"], stored["provider"])
  BY Zenon, TheProvider DEF TracingProviderHook, RunsOnly, Runs
<1>2. CASE hook \in {"created", "joined", "app", "unit"} /\ TracingRelationEvent
  <2>1. ASSUME app["requirer"] = LeadersRequest
        PROVE  told'["provider"] = Reading("provider")
    <3>1. TracingIsValid(app["requirer"])
      BY <2>1 DEF LeadersRequest, TracingIsValid, Has
    <3>2. TracingRequested
      BY <1>2, <3>1 DEF TracingRelationEvent
    <3> QED
      BY Zenon, <3>2, TheProvider DEF TracingRequested, Tells, TellsOf, Heard
  <2> QED
    BY <1>1, <1>2, <2>1
<1>3. CASE hook \in {"departed", "elected"} /\ Silent
  BY <1>1, <1>3 DEF Silent
<1> QED
  BY <1>1, <1>2, <1>3 DEF TracingProviderHook

\* Whatever the requirer publishes wakes the provider when it is another request.
LEMMA PublishesAnew ==
    ASSUME PublishInv, interface \in {"ingress", "tracing"}, interface' = interface,
           stage'["provider"] = stage["provider"], told'["provider"] = told["provider"],
           app'["requirer"] = app["requirer"] \/ "app" \in due'["provider"],
           unit'["requirer"] = unit["requirer"] \/ "unit" \in due'["provider"],
           \A h : h \in due["provider"] => h \in due'["provider"]
    PROVE  HeardByProvider'
  BY DEF PublishInv, HeardByProvider, LeadersRequest

LEMMA PublishStep ==
    ASSUME NothingIsApart, FrameOK, PublishInv, [Next]_relationVars
    PROVE  PublishInv'
<1>1. interface' = interface /\ LeadersRequest' = LeadersRequest
  BY FrameStep DEF LeadersRequest
<1> SUFFICES ASSUME interface \in {"ingress", "tracing"}
             PROVE  /\ PublishedByLeader'
                    /\ interface = "ingress" /\ stage'["requirer"] \in {"created", "joined"} =>
                           unit'["requirer"] = IngressUnitData
                    /\ HeardByProvider'
  BY <1>1 DEF PublishInv
<1>2. /\ PublishedByLeader
      /\ interface = "ingress" /\ stage["requirer"] \in {"created", "joined"} =>
             unit["requirer"] = IngressUnitData
      /\ HeardByProvider
  BY DEF PublishInv
<1>3. CASE UNCHANGED relationVars
  BY <1>1, <1>2, <1>3 DEF relationVars, databags, heard, PublishedByLeader, HeardByProvider
<1>4. CASE Juju
  <2>1. CASE Made
    BY <1>1, <2>1, TheSides DEF Made, PublishedByLeader, HeardByProvider
  <2>2. CASE Removed
    BY <1>1, <1>2, <2>2, TheSides DEF Removed, PublishedByLeader, HeardByProvider
  <2>3. CASE Elected
    BY <1>1, <1>2, <2>3, TheSides DEF Elected, PublishedByLeader, HeardByProvider
  <2> QED
    BY <1>4, <2>1, <2>2, <2>3, JujuFacts
<1>5. ASSUME NEW hook, IngressRequirerHook(hook), interface = "ingress"
      PROVE  PublishInv'
  <2>1. told'["provider"] = told["provider"]
    BY <1>5, RequirerMovesAlone DEF MovesOfRequirer
  <2>2. ASSUME NEW A, NEW U, NEW V, HookRan("requirer", "provider", hook, A, U, V)
        PROVE  /\ HeardByProvider'
               /\ dying' = dying /\ leader' = leader
               /\ app'["requirer"] = A /\ unit'["requirer"] = U
    BY <1>1, <2>1, <2>2, PublishesAnew DEF HookRan, Written
  <2>3. LeadersRequest = IngressAppData
    BY <1>5 DEF LeadersRequest
  <2>4. CASE \E V : HookRan("requirer", "provider", hook, IngressPublishedAppData, IngressUnitData, V)
    <3>1. PICK V : HookRan("requirer", "provider", hook, IngressPublishedAppData, IngressUnitData, V)
      BY <2>4
    <3>2. leader["requirer"] => app'["requirer"] = LeadersRequest
      BY <2>2, <2>3, <3>1 DEF IngressPublishedAppData
    <3> QED
      BY <1>1, <2>2, <3>1, <3>2 DEF PublishInv, PublishedByLeader
  <2>5. CASE /\ \E V : HookRan("requirer", "provider", hook, app["requirer"], unit["requirer"], V)
             /\ hook = "broken" \/ (hook = "elected" /\ ~ Related("requirer"))
    <3>1. PICK V : HookRan("requirer", "provider", hook, app["requirer"], unit["requirer"], V)
      BY <2>5
    <3>2. stage'["requirer"] \in {"created", "joined"} => dying /\ stage'["requirer"] = stage["requirer"]
      BY <2>5, <3>1, StagesOfHooks DEF Related
    <3> QED
      BY <1>1, <1>2, <2>2, <3>1, <3>2 DEF PublishInv, PublishedByLeader
  <2> QED
    BY Zenon, <1>5, <2>4, <2>5, IngressRequirerPublishes
<1>6. ASSUME NEW hook, TracingRequirerHook(hook) \/ TracingOtherHook, interface = "tracing"
      PROVE  PublishInv'
  <2>1. told'["provider"] = told["provider"]
    BY <1>6, RequirerMovesAlone DEF MovesOfRequirer
  <2>2. LeadersRequest = TracingDump(TracingProtocols)
    BY <1>6 DEF LeadersRequest, TracingDump
  <2>3. CASE /\ HookRan("requirer", "provider", hook, TracingRequest(hook), unit["requirer"], stored["requirer"])
             /\ hook \in {"created", "joined", "app", "unit", "departed", "broken", "elected"}
    <3>1. /\ HeardByProvider'
          /\ dying' = dying /\ leader' = leader
          /\ app'["requirer"] = TracingRequest(hook)
      BY <1>1, <2>1, <2>3, PublishesAnew DEF HookRan, Written
    <3>2. hook # "broken" /\ stage["requirer"] # "none" /\ leader["requirer"] =>
              app'["requirer"] = LeadersRequest
      BY <2>2, <3>1 DEF TracingRequest, TracingRequestProtocols
    <3>3. stage'["requirer"] \in {"created", "joined"} => hook # "broken" /\ stage["requirer"] # "none"
      BY <2>3, StagesOfHooks
    <3> QED
      BY <1>1, <1>6, <3>1, <3>2, <3>3 DEF PublishInv, PublishedByLeader
  <2>4. CASE Acted("requirer", "provider", TracingRequest("other"), unit["requirer"], stored["requirer"])
    <3>1. /\ HeardByProvider'
          /\ dying' = dying /\ leader' = leader /\ stage' = stage
          /\ app'["requirer"] = TracingRequest("other")
          /\ stage["requirer"] \in {"created", "joined"}
      BY <1>1, <2>1, <2>4, PublishesAnew DEF Acted, Written
    <3>2. leader["requirer"] => app'["requirer"] = LeadersRequest
      BY <2>2, <3>1 DEF TracingRequest, TracingRequestProtocols
    <3> QED
      BY <1>1, <1>6, <3>1, <3>2 DEF PublishInv, PublishedByLeader
  <2> QED
    BY <1>6, <2>3, <2>4, TracingRequirerPublishes
<1>7. ASSUME NEW hook, \/ interface = "ingress" /\ IngressProviderHook(hook)
                       \/ interface = "tracing" /\ TracingProviderHook(hook)
      PROVE  PublishInv'
  <2>1. /\ HookRan("provider", "requirer", hook, app["provider"], unit["provider"], stored["provider"])
        /\ \/ /\ hook \in {"created", "joined", "app", "unit", "departed"}
              /\ app["requirer"] = LeadersRequest /\ (interface = "ingress" => unit["requirer"] = IngressUnitData)
                     => hook = "departed" \/ told'["provider"] = Reading("provider")
           \/ hook = "elected" /\ told' = told
           \/ hook = "broken"
           \/ ~ (app["requirer"] = LeadersRequest /\ (interface = "ingress" => unit["requirer"] = IngressUnitData))
    <3>1. interface = "ingress" => LeadersRequest = IngressAppData
      BY DEF LeadersRequest
    <3> QED
      BY <1>7, <3>1, IngressProviderHears, TracingProviderHears
  <2>2. /\ app'["requirer"] = app["requirer"] /\ unit'["requirer"] = unit["requirer"]
        /\ stage'["requirer"] = stage["requirer"] /\ dying' = dying /\ leader' = leader
        /\ "elected" \in due["requirer"] => "elected" \in due'["requirer"]
    BY <2>1 DEF HookRan, Written
  <2>3. Reading("provider") # Nothing /\ Reading("provider").app = app["requirer"]
    BY RecordsAreSomething, TheSides DEF Reading
  <2>4. HeardByProvider'
    <3> SUFFICES ASSUME stage'["provider"] = "joined", due'["provider"] \cap {"app", "unit"} = {},
                        app["requirer"] = LeadersRequest,
                        interface = "ingress" => unit["requirer"] = IngressUnitData
                 PROVE  told'["provider"] # Nothing /\ told'["provider"].app = app["requirer"]
      BY <1>1, <2>2 DEF HeardByProvider
    <3>1. hook # "joined" /\ hook # "departed" /\ hook # "broken"
      BY <2>1, StagesOfHooks DEF HookRan
    <3>2. CASE told'["provider"] = Reading("provider")
      BY <2>3, <3>2
    <3>3. CASE hook = "elected" /\ told' = told
      BY <1>2, <2>1, <3>3 DEF HookRan, HeardByProvider
    <3> QED
      BY <2>1, <3>1, <3>2, <3>3
  <2> QED
    BY <1>1, <1>2, <2>2, <2>4 DEF PublishInv, PublishedByLeader
<1>8. CASE IngressStep \/ TracingPublishReceivers
  <2>1. PICK A : Publishes("provider", A)
    BY Zenon, <1>8 DEF IngressStep, IngressPublishUrl, IngressWipeData, TracingPublishReceivers
  <2>2. Acted("provider", "requirer", A, unit["provider"], stored["provider"]) /\ told' = told
    BY Zenon, <2>1, TheProvider DEF Publishes, PublishesStoring, Silent
  <2> QED
    BY <1>1, <1>2, <2>2 DEF Acted, Written, PublishedByLeader, HeardByProvider
<1>9. ASSUME Next
      PROVE  \/ Juju \/ IngressStep \/ TracingPublishReceivers
             \/ \E hook : \/ interface = "ingress" /\ (IngressRequirerHook(hook) \/ IngressProviderHook(hook))
                          \/ interface = "tracing" /\ (TracingRequirerHook(hook) \/ TracingProviderHook(hook))
                          \/ interface = "tracing" /\ TracingOtherHook
  BY <1>9, StepOfTheInterface DEF IngressHook, TracingHook, TracingStep, Flavours, LokiClients
<1> QED
  BY <1>3, <1>4, <1>5, <1>6, <1>7, <1>8, <1>9, <1>1 DEF PublishInv

LEMMA PublishInvariant ==
    ASSUME NothingIsApart
    PROVE  Spec => []PublishInv
<1>1. RelationInit => PublishInv
  BY TheSides DEF RelationInit, PublishInv, PublishedByLeader, HeardByProvider
<1>2. FrameOK /\ PublishInv /\ [Next]_relationVars => PublishInv'
  BY PublishStep
<1> QED
  BY <1>1, <1>2, FrameInvariant, PTL DEF Spec

\* Of Loki, the alerts its charm knows are those of the rules that are published, unless a
\* hook will come.
AlertsKnown ==
    stage["provider"] = "joined" /\ due["provider"] \cap {"app", "unit"} = {}
        /\ Has(app["requirer"], {"alert_rules"}) =>
            told["provider"] = LokiAlerts(app["requirer"].alert_rules)

AlertsInv == interface \in LokiClients => AlertsKnown

\* The steps of a requirer wake the provider of what is new, and are not heard elsewhere.
RequirerWakes ==
    /\ interface' = interface /\ stage'["provider"] = stage["provider"]
    /\ told'["provider"] = told["provider"]
    /\ app'["requirer"] = app["requirer"] \/ "app" \in due'["provider"]
    /\ unit'["requirer"] = unit["requirer"] \/ "unit" \in due'["provider"]
    /\ \A h : h \in due["provider"] => h \in due'["provider"]

ProviderWakes ==
    /\ interface' = interface /\ stage'["requirer"] = stage["requirer"]
    /\ told'["requirer"] = told["requirer"] /\ stored'["requirer"] = stored["requirer"]
    /\ dying' = dying /\ leader' = leader /\ led' = led
    /\ app'["provider"] = app["provider"] \/ "app" \in due'["requirer"]
    /\ unit'["provider"] = unit["provider"] \/ "unit" \in due'["requirer"]
    /\ \A h : h \in due["requirer"] => h \in due'["requirer"]

LEMMA RequirersWake ==
    ASSUME FrameOK, NEW hook, MovesOfRequirer(hook)
    PROVE  RequirerWakes
<1>1. /\ interface' = interface /\ stage'["provider"] = stage["provider"]
      /\ told'["provider"] = told["provider"]
  BY RequirerMovesAlone
<1>2. Moves("requirer")
  BY SidesOfSteps
<1>3. CASE \E h, A, U, V : RunsStoring("requirer", h, A, U, V)
  <2>1. PICK h, A, U, V : HookRan("requirer", "provider", h, A, U, V)
    BY Zenon, <1>3, TheRequirer
  <2> QED
    BY <1>1, <2>1 DEF HookRan, Written, RequirerWakes
<1>4. CASE \E A, U, V : Acts("requirer", A, U, V)
  <2>1. PICK A, U, V : Acted("requirer", "provider", A, U, V)
    BY Zenon, <1>4, TheRequirer
  <2> QED
    BY <1>1, <2>1 DEF Acted, Written, RequirerWakes
<1> QED
  BY <1>2, <1>3, <1>4 DEF Moves

LEMMA ProvidersWake ==
    ASSUME FrameOK, NEW hook, MovesOfProvider(hook)
    PROVE  ProviderWakes
<1>1. /\ interface' = interface /\ dying' = dying /\ leader' = leader /\ led' = led
      /\ stage'["requirer"] = stage["requirer"]
      /\ told'["requirer"] = told["requirer"] /\ stored'["requirer"] = stored["requirer"]
  BY ProviderMovesAlone
<1>2. Moves("provider")
  BY SidesOfSteps
<1>3. CASE \E h, A, U, V : RunsStoring("provider", h, A, U, V)
  <2>1. PICK h, A, U, V : HookRan("provider", "requirer", h, A, U, V)
    BY Zenon, <1>3, TheProvider
  <2> QED
    BY <1>1, <2>1 DEF HookRan, Written, ProviderWakes
<1>4. CASE \E A, U, V : Acts("provider", A, U, V)
  <2>1. PICK A, U, V : Acted("provider", "requirer", A, U, V)
    BY Zenon, <1>4, TheProvider
  <2> QED
    BY <1>1, <2>1 DEF Acted, Written, ProviderWakes
<1> QED
  BY <1>2, <1>3, <1>4 DEF Moves

LEMMA LokiProviderTells ==
    ASSUME FrameOK, NEW hook, LokiProcesses(hook), Has(app["requirer"], {"alert_rules"}),
           SeesUnit("provider", hook)
    PROVE  told'["provider"] = LokiAlerts(app["requirer"].alert_rules)
<1>1. LokiRules(hook) = app["requirer"].alert_rules /\ LokiShouldUpdateAlertRules
  BY DEF LokiRules, LokiShouldUpdateAlertRules
<1>2. TellsOf("provider", "loki_push_api_alert_rules_changed", LokiAlerts(LokiRules(hook)))
  BY <1>1 DEF LokiProcesses
<1>3. told'["provider"] = LokiAlerts(LokiRules(hook))
  BY Zenon, <1>2, TheProvider DEF TellsOf, Heard
<1> QED
  BY <1>1, <1>3

LEMMA AlertsStep ==
    ASSUME FrameOK, AlertsInv, [Next]_relationVars
    PROVE  AlertsInv'
<1>1. interface' = interface
  BY FrameStep
<1> SUFFICES ASSUME interface \in LokiClients
             PROVE  AlertsKnown'
  BY <1>1 DEF AlertsInv
<1>2. AlertsKnown
  BY DEF AlertsInv
<1>3. CASE UNCHANGED relationVars
  BY <1>2, <1>3 DEF relationVars, databags, heard, AlertsKnown, Has
<1>4. CASE Juju
  <2>1. CASE Made
    BY <2>1, TheSides DEF Made, AlertsKnown
  <2>2. CASE Removed
    BY <1>2, <2>2, TheSides DEF Removed, AlertsKnown, Has
  <2>3. CASE Elected
    BY <1>2, <2>3, TheSides DEF Elected, AlertsKnown, Has
  <2> QED
    BY <1>4, <2>1, <2>2, <2>3, JujuFacts
<1>5. CASE LogContainerReplaced
  BY <1>2, <1>5, ReplacedFacts DEF LogContainerReplaced, Replaced, AlertsKnown, Has
<1>6. ASSUME NEW hook, MovesOfRequirer(hook)
      PROVE  AlertsKnown'
  BY <1>2, <1>6, RequirersWake DEF RequirerWakes, AlertsKnown, Has
<1>7. ASSUME NEW hook, LokiProviderHook(hook)
      PROVE  AlertsKnown'
  <2>1. PICK A, U, V : HookRan("provider", "requirer", hook, A, U, V)
    BY Zenon, <1>7, TheProvider
       DEF LokiProviderHook, LokiProviderJoined, LokiProviderChanged, LokiProviderDeparted,
           LokiProviderBroken, RunsOnly, Runs
  <2>2. app'["requirer"] = app["requirer"]
    BY <2>1 DEF HookRan, Written
  <2>3. CASE hook \in {"joined", "departed", "broken"}
    BY <2>1, <2>3, StagesOfHooks DEF AlertsKnown, HookRan
  <2>4. CASE hook \in {"app", "unit"}
    <3> SUFFICES ASSUME stage'["provider"] = "joined", Has(app["requirer"], {"alert_rules"})
                 PROVE  told'["provider"] = LokiAlerts(app["requirer"].alert_rules)
      BY <2>2 DEF AlertsKnown, Has
    <3>1. SeesUnit("provider", hook)
      BY <2>1, <2>4, StagesOfHooks DEF SeesUnit
    <3>2. LokiProcesses(hook)
      BY <2>4, <1>7 DEF LokiProviderHook, LokiProviderChanged
    <3> QED
      BY <3>1, <3>2, LokiProviderTells
  <2>5. CASE hook \in {"created", "elected"}
    <3>1. told' = told
      BY <1>7, <2>5 DEF LokiProviderHook, Silent
    <3> QED
      BY <1>2, <2>1, <2>2, <2>5, <3>1, StagesOfHooks DEF AlertsKnown, HookRan, Has
  <2> QED
    BY <1>7, <2>3, <2>4, <2>5 DEF LokiProviderHook
<1>8. CASE LokiProviderLifecycle \/ LokiUpdateEndpoint \/ LokiOfOtherMake
  <2>1. PICK A, U, V : Acted("provider", "requirer", A, U, V)
    BY Zenon, <1>8, TheProvider
       DEF LokiProviderLifecycle, LokiUpdateEndpoint, LokiOfOtherMake, Publishes, PublishesStoring
  <2>2. app'["requirer"] = app["requirer"] /\ stage' = stage
        /\ \A h : h \in due'["provider"] <=> h \in due["provider"]
    BY <2>1 DEF Acted, Written
  <2>3. CASE told' = told
    BY <1>2, <2>2, <2>3 DEF AlertsKnown, Has
  <2>4. CASE LokiProcesses("other")
    <3> SUFFICES ASSUME stage'["provider"] = "joined", Has(app["requirer"], {"alert_rules"})
                 PROVE  told'["provider"] = LokiAlerts(app["requirer"].alert_rules)
      BY <2>2 DEF AlertsKnown, Has
    <3>1. SeesUnit("provider", "other")
      BY <2>2 DEF SeesUnit
    <3> QED
      BY <2>4, <3>1, LokiProviderTells
  <2> QED
    BY Zenon, <1>8, <2>3, <2>4
       DEF LokiProviderLifecycle, LokiUpdateEndpoint, LokiOfOtherMake, Publishes, PublishesStoring, Silent
<1>9. ASSUME Next
      PROVE  \/ Juju \/ LogContainerReplaced
             \/ LokiProviderLifecycle \/ LokiUpdateEndpoint \/ LokiOfOtherMake
             \/ \E hook : MovesOfRequirer(hook) \/ LokiProviderHook(hook)
  <2>1. LokiStep \/ Juju \/ \E s \in Sides, hook \in AllHooks : LokiHook(s, hook)
    BY <1>9, StepOfTheInterface DEF Flavours, LokiClients
  <2>2. \A s, hook : LokiHook(s, hook) => MovesOfRequirer(hook) \/ LokiProviderHook(hook)
    BY Zenon DEF LokiHook, MovesOfRequirer
  <2>3. LokiLifecycle => MovesOfRequirer("app")
    BY Zenon DEF MovesOfRequirer
  <2> QED
    BY Zenon, <2>1, <2>2, <2>3 DEF LokiStep
<1> QED
  BY <1>3, <1>4, <1>5, <1>6, <1>7, <1>8, <1>9

LEMMA AlertsInvariant == Spec => []AlertsInv
<1>1. RelationInit => AlertsInv
  BY TheSides DEF RelationInit, AlertsInv, AlertsKnown
<1>2. FrameOK /\ AlertsInv /\ [Next]_relationVars => AlertsInv'
  BY AlertsStep
<1> QED
  BY <1>1, <1>2, FrameInvariant, PTL DEF Spec

\* A request that could be made is known to the provider once both have run their hooks,
\* whoever led in between.
THEOREM RequestsArrive ==
    ASSUME NothingIsApart
    PROVE  Spec => []RequestArrives
<1>1. RequestInv /\ PublishInv /\ AlertsInv => RequestArrives
  <2> SUFFICES ASSUME RequestInv, PublishInv, AlertsInv, BothSettled
               PROVE  /\ led /\ interface \in Flavours \cup {"s3"} => told["provider"] # Nothing
                      /\ leader["requirer"] /\ interface \in {"ingress", "tracing"} =>
                             told["provider"] # Nothing /\ told["provider"].app = app["requirer"]
                      /\ interface \in LokiClients /\ Has(app["requirer"], {"alert_rules"}) =>
                             told["provider"] = LokiAlerts(app["requirer"].alert_rules)
    BY DEF RequestArrives
  <2>1. /\ stage["requirer"] = "joined" /\ stage["provider"] = "joined" /\ ~ dying
        /\ due["requirer"] = {} /\ due["provider"] = {}
    BY TheSides DEF BothSettled, Settled
  <2>2. led /\ interface \in Flavours \cup {"s3"} => told["provider"] # Nothing
    BY <2>1 DEF RequestInv
  <2>3. leader["requirer"] /\ interface \in {"ingress", "tracing"} =>
            told["provider"] # Nothing /\ told["provider"].app = app["requirer"]
    BY <2>1 DEF PublishInv, PublishedByLeader, HeardByProvider
  <2>4. interface \in LokiClients /\ Has(app["requirer"], {"alert_rules"}) =>
            told["provider"] = LokiAlerts(app["requirer"].alert_rules)
    BY <2>1 DEF AlertsInv, AlertsKnown
  <2> QED
    BY <2>2, <2>3, <2>4
<1> QED
  BY <1>1, RequestInvariant, PublishInvariant, AlertsInvariant, PTL

-----------------------------------------------------------------------------
(***************************************************************************)
(* A complaint arrives.  The requirers of Loki tell of it while it is      *)
(* there and they lead, and those of metrics and of dashboards leave it in *)
(* their databag, where the provider finds it.                             *)
(***************************************************************************)
FaultsHeard ==
    led /\ Has(app["provider"], {"event"}) => KnownFaulty \/ "app" \in due["requirer"]

ScrapeFaultNames == {"scrape_job_errors", "errors"}

ScrapeComplaintsHeard ==
    /\ ScrapeComplaints \subseteq ScrapeFaultNames
    /\ led /\ stage["requirer"] = "joined" /\ due["requirer"] \cap {"app", "unit"} = {} =>
           ScrapeFaults("app") \subseteq ScrapeComplaints
    /\ led /\ ScrapeComplaints # {} /\ "app" \notin due["provider"] =>
           told["provider"] = ScrapeComplaints

DashboardsComplaintsHeard ==
    /\ DashboardsComplained => app["requirer"].event = {"corrupt"}
    /\ led /\ "corrupt" \in DashboardsPublished =>
           DashboardsComplained \/ "app" \in due["requirer"]
    /\ led /\ DashboardsComplained =>
           told["provider"] = {"corrupt"} \/ "app" \in due["provider"]

ComplaintInv ==
    /\ interface \in {"loki", "promtail"} => FaultsHeard
    /\ interface = "scrape" => ScrapeComplaintsHeard
    /\ interface = "dashboards" => DashboardsComplaintsHeard

LEMMA LokiTellsFaults ==
    ASSUME NothingIsApart, FrameOK, NEW name, NEW hook, NEW faulty, LokiTells(name, hook, faulty)
    PROVE  told'["requirer"] # Nothing /\ told'["requirer"].faulty = faulty
<1>1. /\ told'["requirer"] = [endpoints |-> LokiEndpoints(hook), faulty |-> faulty]
      /\ told'["requirer"].faulty = faulty
  BY Zenon, LokiTellsNothingUnseen
<1>2. [endpoints |-> LokiEndpoints(hook), faulty |-> faulty] # Nothing
  BY Zenon, RecordsAreSomething
<1> QED
  BY <1>1, <1>2

\* What is known to be faulty stays known, and in a change a leader reads it.
LEMMA LokiFaultsStep ==
    ASSUME NothingIsApart, FrameOK, FaultsHeard, NEW hook,
           LokiConsumerHook(hook) \/ LokiLifecycle \/ PromtailHook(hook)
    PROVE  FaultsHeard'
<1> SUFFICES ASSUME led', Has(app'["provider"], {"event"}), "app" \notin due'["requirer"]
             PROVE  told'["requirer"] # Nothing /\ told'["requirer"].faulty
  BY DEF FaultsHeard, KnownFaulty, Has
<1>1. /\ led' = led /\ app'["provider"] = app["provider"]
  BY RequirerMovesAlone DEF MovesOfRequirer
<1>2. led /\ Has(app["provider"], {"event"}) /\ leader["requirer"]
  BY <1>1, TheSides DEF FrameOK, Has
<1>3. ReadsFaulty
  BY <1>2 DEF ReadsFaulty
<1>4. ASSUME NEW name, NEW h, LokiTells(name, h, ReadsFaulty)
      PROVE  told'["requirer"] # Nothing /\ told'["requirer"].faulty
  BY <1>3, <1>4, LokiTellsFaults
<1>5. ASSUME NEW name, NEW h, LokiTells(name, h, KnownFaulty), KnownFaulty
      PROVE  told'["requirer"] # Nothing /\ told'["requirer"].faulty
  BY <1>5, LokiTellsFaults
<1>6. CASE hook = "app" /\ ~ LokiLifecycle
  <2>1. ASSUME LokiTells("alert_rule_status_changed", hook, TRUE)
        PROVE  told'["requirer"] # Nothing /\ told'["requirer"].faulty
    BY <2>1, LokiTellsFaults
  <2>2. CASE PromtailHook(hook)
    <3>1. PromtailChanged(hook)
      BY <1>6, <2>2 DEF PromtailHook
    <3> QED
      BY Zenon, <1>2, <1>4, <2>1, <3>1 DEF PromtailChanged
  <2>3. CASE LokiConsumerHook(hook)
    BY Zenon, <1>4, <1>6, <2>3 DEF LokiConsumerHook, LokiChanged
  <2> QED
    BY <1>6, <2>2, <2>3
<1>7. CASE hook # "app" \/ LokiLifecycle
  <2>1. "app" \notin due["requirer"]
    <3>1. CASE LokiLifecycle
      <4>1. PICK A, U, V : Acted("requirer", "provider", A, U, V)
        BY Zenon, <3>1, TheRequirer DEF LokiLifecycle, ReinitializeAlertRules
      <4> QED
        BY <4>1 DEF Acted
    <3>2. CASE LokiConsumerHook(hook)
      <4>1. PICK A, U, V : HookRan("requirer", "provider", hook, A, U, V)
        BY Zenon, <3>2, TheRequirer
           DEF LokiConsumerHook, LokiJoined, LokiChanged, LokiDeparted, RunsOnly, Runs
      <4> QED
        BY <1>7, <3>1, <4>1 DEF HookRan
    <3>3. CASE PromtailHook(hook)
      <4>1. PICK A, U, V : HookRan("requirer", "provider", hook, A, U, V)
        BY ZenonT(60), <3>3, TheRequirer
           DEF PromtailHook, PromtailCreated, PromtailChanged, PromtailDeparted,
               PromtailPebbleReady, RunsOnly, Runs
      <4> QED
        BY <1>7, <3>1, <4>1 DEF HookRan
    <3> QED
      BY <3>1, <3>2, <3>3
  <2>2. KnownFaulty
    BY <1>2, <2>1 DEF FaultsHeard
  <2>3. CASE told' = told
    BY <2>2, <2>3 DEF KnownFaulty
  <2>4. ASSUME LokiTells("alert_rule_status_changed", hook, TRUE)
        PROVE  told'["requirer"] # Nothing /\ told'["requirer"].faulty
    BY <2>4, LokiTellsFaults
  <2>5. CASE LokiConsumerHook(hook) \/ LokiLifecycle
    BY Zenon, <1>4, <1>5, <2>2, <2>3, <2>5
       DEF LokiConsumerHook, LokiJoined, LokiChanged, LokiDeparted, LokiLifecycle, Silent
  <2>6. CASE PromtailHook(hook)
    BY Zenon, <1>4, <1>5, <2>2, <2>3, <2>4, <2>6
       DEF PromtailHook, PromtailCreated, PromtailChanged, PromtailDeparted, PromtailPebbleReady,
           Silent
  <2> QED
    BY <2>5, <2>6
<1> QED
  BY <1>6, <1>7

LEMMA ScrapeRequirerComplains ==
    ASSUME FrameOK, ScrapeComplaintsHeard, NEW hook, ScrapeRequirerHook(hook)
    PROVE  ScrapeComplaintsHeard'
<1>1. /\ led' = led /\ app'["provider"] = app["provider"] /\ told'["provider"] = told["provider"]
      /\ app'["requirer"] = app["requirer"] \/ "app" \in due'["provider"]
      /\ \A h : h \in due["provider"] => h \in due'["provider"]
  BY RequirerMovesAlone, RequirersWake DEF MovesOfRequirer, RequirerWakes
<1> DEFINE complaints == IF Has(app'["requirer"], {"event"}) THEN app'["requirer"].event ELSE {}
<1>2. ScrapeComplaints' = complaints
  BY DEF ScrapeComplaints, Has
<1>3. CASE hook \in {"app", "unit"}
  <2>1. HookRan("requirer", "provider", hook, ScrapeComplains(hook), unit["requirer"], stored["requirer"])
    BY Zenon, <1>3, TheRequirer DEF ScrapeRequirerHook, ScrapeRequirerChanged, Runs
  <2>2. app'["requirer"] = ScrapeComplains(hook)
    BY <2>1 DEF HookRan, Written
  <2>3. complaints = IF leader["requirer"] THEN ScrapeComplaints \cup ScrapeFaults(hook) ELSE ScrapeComplaints
    BY <2>2 DEF ScrapeComplains, ScrapeComplaints, Has
  <2>4. ScrapeFaults(hook) \subseteq ScrapeFaultNames
    BY DEF ScrapeFaults, ScrapeFaultNames
  <2>5. stage'["requirer"] = "joined" => ScrapeFaults("app")' = ScrapeFaults(hook)
    <3>1. stage["requirer"] = "joined" /\ stage'["requirer"] = "joined"
              => SeesUnit("requirer", hook) /\ SeesUnit("requirer", "app")'
      BY <1>3 DEF SeesUnit
    <3>2. stage'["requirer"] = stage["requirer"]
      BY <1>3, <2>1, StagesOfHooks
    <3> QED
      BY <1>1, <3>1, <3>2 DEF ScrapeFaults, PublishedJobs, PublishedRules, HasBadJob, Has
  <2>6. led => leader["requirer"]
    BY TheSides DEF FrameOK
  <2>7. app'["requirer"] = app["requirer"] => complaints = ScrapeComplaints
    BY DEF ScrapeComplaints
  <2> HIDE DEF complaints
  <2> QED
    BY <1>1, <1>2, <2>3, <2>4, <2>5, <2>6, <2>7 DEF ScrapeComplaintsHeard
<1>4. CASE hook \notin {"app", "unit"}
  <2>1. HookRan("requirer", "provider", hook, app["requirer"], unit["requirer"], stored["requirer"])
    BY Zenon, <1>4, TheRequirer DEF ScrapeRequirerHook, ScrapeRequirerDeparted, RunsOnly, Runs
  <2>2. complaints = ScrapeComplaints
    BY <2>1 DEF HookRan, Written, ScrapeComplaints
  <2>3. stage'["requirer"] = "joined" /\ due'["requirer"] \cap {"app", "unit"} = {} =>
            /\ stage["requirer"] = "joined" /\ due["requirer"] \cap {"app", "unit"} = {}
            /\ ScrapeFaults("app")' = ScrapeFaults("app")
    <3>1. stage'["requirer"] = "joined" /\ due'["requirer"] \cap {"app", "unit"} = {} =>
              stage["requirer"] = "joined" /\ due["requirer"] \cap {"app", "unit"} = {}
      BY <1>4, <2>1, StagesOfHooks DEF HookRan
    <3>2. stage["requirer"] = "joined" /\ stage'["requirer"] = "joined"
              => SeesUnit("requirer", "app") /\ SeesUnit("requirer", "app")'
      BY DEF SeesUnit
    <3> QED
      BY <1>1, <3>1, <3>2 DEF ScrapeFaults, PublishedJobs, PublishedRules, HasBadJob, Has
  <2> HIDE DEF complaints
  <2> QED
    BY <1>1, <1>2, <2>2, <2>3 DEF ScrapeComplaintsHeard
<1> QED
  BY <1>3, <1>4

LEMMA ScrapeProviderHears ==
    ASSUME FrameOK, ScrapeComplaintsHeard, NEW hook, ScrapeProviderHook(hook) \/ ScrapeStep
    PROVE  ScrapeComplaintsHeard'
<1>1. /\ led' = led /\ leader' = leader /\ app'["requirer"] = app["requirer"]
      /\ stage'["requirer"] = stage["requirer"]
      /\ app'["provider"] = app["provider"] \/ "app" \in due'["requirer"]
      /\ \A h : h \in due["requirer"] => h \in due'["requirer"]
  BY ProviderMovesAlone, ProvidersWake DEF MovesOfProvider, ProviderWakes
<1>2. ScrapeComplaints' = ScrapeComplaints
  BY <1>1 DEF ScrapeComplaints, Has
<1>3. app'["provider"] = app["provider"] => ScrapeFaults("app")' = ScrapeFaults("app")
  <2>1. SeesUnit("requirer", "app")' <=> SeesUnit("requirer", "app")
    BY <1>1 DEF SeesUnit
  <2> QED
    BY <2>1 DEF ScrapeFaults, PublishedJobs, PublishedRules, HasBadJob, Has
<1>4. CASE hook \in {"app", "unit"} /\ ~ ScrapeStep
  <2>1. HookRan("provider", "requirer", hook, app["provider"], unit["provider"], stored["provider"])
    BY Zenon, <1>4, TheProvider DEF ScrapeProviderHook, ScrapeProviderChanged, RunsOnly, Runs
  <2>2. IF leader["provider"] /\ ScrapeComplaints # {}
        THEN told'["provider"] = ScrapeComplaints ELSE told' = told
    BY <1>4, TheProvider DEF ScrapeProviderHook, ScrapeProviderChanged, TellsOf, Heard, Silent
  <2>3. led => leader["provider"]
    BY TheSides DEF FrameOK
  <2> QED
    BY <1>1, <1>2, <1>3, <2>2, <2>3 DEF ScrapeComplaintsHeard
<1>5. CASE hook \notin {"app", "unit"} \/ ScrapeStep
  <2>1. told' = told
    BY Zenon, <1>5
       DEF ScrapeProviderHook, ScrapeProviderJoined, ScrapeStep, UpdateScrapeJobSpec, Silent
  <2>2. "app" \notin due'["provider"] => "app" \notin due["provider"]
    <3>1. CASE ScrapeStep
      <4>1. PICK A, U, V : Acted("provider", "requirer", A, U, V)
        BY Zenon, <3>1, TheProvider DEF ScrapeStep, UpdateScrapeJobSpec
      <4> QED
        BY <4>1 DEF Acted
    <3>2. CASE ScrapeProviderHook(hook) /\ hook \notin {"app", "unit"}
      <4>1. PICK A, U, V : HookRan("provider", "requirer", hook, A, U, V)
        BY Zenon, <3>2, TheProvider DEF ScrapeProviderHook, ScrapeProviderJoined, RunsOnly, Runs
      <4> QED
        BY <3>2, <4>1 DEF HookRan
    <3> QED
      BY <1>5, <3>1, <3>2
  <2> QED
    BY <1>1, <1>2, <1>3, <2>1, <2>2 DEF ScrapeComplaintsHeard
<1> QED
  BY <1>4, <1>5

LEMMA DashboardsRequirerComplains ==
    ASSUME FrameOK, DashboardsComplaintsHeard, NEW hook, DashboardsRequirerHook(hook)
    PROVE  DashboardsComplaintsHeard'
<1>1. /\ led' = led /\ app'["provider"] = app["provider"] /\ told'["provider"] = told["provider"]
      /\ app'["requirer"] = app["requirer"] \/ "app" \in due'["provider"]
      /\ \A h : h \in due["provider"] => h \in due'["provider"]
  BY RequirerMovesAlone, RequirersWake DEF MovesOfRequirer, RequirerWakes
<1>2. DashboardsPublished' = DashboardsPublished
  BY <1>1 DEF DashboardsPublished, Has
<1>3. DashboardsComplained' <=> Has(app'["requirer"], {"event"})
  BY DEF DashboardsComplained, Has
<1>4. CASE app'["requirer"] = [event |-> {"corrupt"}]
  <2>1. Has(app'["requirer"], {"event"}) /\ app'["requirer"].event = {"corrupt"}
    BY <1>4 DEF Has
  <2>2. "app" \in due'["provider"] \/ (DashboardsComplained <=> DashboardsComplained')
    BY <1>1, <1>3 DEF DashboardsComplained
  <2> QED
    BY <1>1, <1>3, <2>1, <2>2 DEF DashboardsComplaintsHeard
<1>5. CASE app'["requirer"] = app["requirer"]
           /\ (led /\ "corrupt" \in DashboardsPublished /\ "app" \in due["requirer"]
                   => "app" \in due'["requirer"])
  BY <1>1, <1>2, <1>3, <1>5 DEF DashboardsComplaintsHeard, DashboardsComplained
<1>6. CASE hook \in {"app", "unit"}
  <2>1. CASE RenderDashboards(hook) /\ CannotBeRendered(Rendered(DashboardsPublished))
    <3>1. RunsStoring("requirer", hook, [event |-> {"corrupt"}], unit["requirer"], WithDashboards({}))
      BY Zenon, <2>1 DEF RenderDashboards, RunsKeeping
    <3> QED
      BY Zenon, <1>4, <3>1, TheRequirer DEF HookRan, Written
  <2>2. CASE RenderDashboards(hook) /\ ~ CannotBeRendered(Rendered(DashboardsPublished))
    <3>1. "corrupt" \notin DashboardsPublished
      BY <2>2 DEF CannotBeRendered, Rendered
    <3>2. RunsStoring("requirer", hook, app["requirer"], unit["requirer"],
                      WithDashboards(Rendered(DashboardsPublished)))
      BY Zenon, <2>2 DEF RenderDashboards, RunsKeeping
    <3>3. app'["requirer"] = app["requirer"]
      BY Zenon, <3>2, TheRequirer DEF HookRan, Written
    <3> QED
      BY <1>5, <3>1, <3>3
  <2>3. CASE RunsOnly("requirer", hook) /\ (leader["requirer"] => ~ Has(app["provider"], {"dashboards"}))
    <3>1. led => leader["requirer"]
      BY TheSides DEF FrameOK
    <3>2. led => "corrupt" \notin DashboardsPublished
      BY <2>3, <3>1 DEF DashboardsPublished
    <3>3. app'["requirer"] = app["requirer"]
      BY Zenon, <2>3, TheRequirer DEF RunsOnly, Runs, HookRan, Written
    <3> QED
      BY <1>5, <3>2, <3>3
  <2> QED
    BY Zenon, <1>6, <2>1, <2>2, <2>3 DEF DashboardsRequirerHook, DashboardsRequirerChanged
<1>7. CASE hook \notin {"app", "unit"}
  <2>1. PICK V : HookRan("requirer", "provider", hook, app["requirer"], unit["requirer"], V)
    BY Zenon, <1>7, TheRequirer
       DEF DashboardsRequirerHook, DashboardsRequirerCreated, DashboardsRequirerBroken,
           RunsKeeping, RunsOnly, Runs
  <2> QED
    BY <1>5, <1>7, <2>1 DEF HookRan, Written
<1> QED
  BY <1>6, <1>7

LEMMA DashboardsProviderHears ==
    ASSUME FrameOK, DashboardsComplaintsHeard, NEW hook, DashboardsProviderHook(hook) \/ DashboardsStep
    PROVE  DashboardsComplaintsHeard'
<1>1. /\ led' = led /\ leader' = leader /\ app'["requirer"] = app["requirer"]
      /\ app'["provider"] = app["provider"] \/ "app" \in due'["requirer"]
      /\ \A h : h \in due["requirer"] => h \in due'["requirer"]
  BY ProviderMovesAlone, ProvidersWake DEF MovesOfProvider, ProviderWakes
<1>2. app'["provider"] = app["provider"] => DashboardsPublished' = DashboardsPublished
  BY DEF DashboardsPublished, Has
<1>3. DashboardsComplained' <=> DashboardsComplained
  BY <1>1 DEF DashboardsComplained, Has
<1>4. CASE hook \in {"app", "unit"} /\ ~ DashboardsStep
  <2>1. IF leader["provider"] /\ DashboardsComplained
        THEN told'["provider"] = app["requirer"].event ELSE told' = told
    BY <1>4, TheProvider DEF DashboardsProviderHook, DashboardsProviderChanged, TellsOf, Heard, Silent
  <2>2. led => leader["provider"]
    BY TheSides DEF FrameOK
  <2> QED
    BY <1>1, <1>2, <1>3, <2>1, <2>2 DEF DashboardsComplaintsHeard
<1>5. CASE hook \notin {"app", "unit"} \/ DashboardsStep
  <2>1. told' = told
    BY Zenon, <1>5
       DEF DashboardsProviderHook, DashboardsCreated, DashboardsElected, DashboardsStep,
           DashboardsChange, DashboardsOfOtherMake, AddDashboard, RemoveNonBuiltinDashboards,
           ReloadDashboards, UpdateDashboards, Publishes, PublishesStoring, Silent
  <2>2. "app" \in due["provider"] => "app" \in due'["provider"]
    <3>1. CASE DashboardsStep
      <4>1. PICK A, U, V : Acted("provider", "requirer", A, U, V)
        BY Zenon, <3>1, TheProvider
           DEF DashboardsStep, DashboardsChange, DashboardsOfOtherMake, AddDashboard,
               RemoveNonBuiltinDashboards, ReloadDashboards, UpdateDashboards, Publishes,
               PublishesStoring
      <4> QED
        BY <4>1 DEF Acted
    <3>2. CASE DashboardsProviderHook(hook) /\ hook \notin {"app", "unit"}
      <4>1. PICK A, U, V : HookRan("provider", "requirer", hook, A, U, V)
        BY Zenon, <3>2, TheProvider
           DEF DashboardsProviderHook, DashboardsCreated, DashboardsElected, RunsOnly, Runs
      <4> QED
        BY <3>2, <4>1 DEF HookRan
    <3> QED
      BY <1>5, <3>1, <3>2
  <2> QED
    BY <1>1, <1>2, <1>3, <2>1, <2>2 DEF DashboardsComplaintsHeard
<1> QED
  BY <1>4, <1>5

LEMMA ComplaintStep ==
    ASSUME NothingIsApart, FrameOK, ComplaintInv, [Next]_relationVars
    PROVE  ComplaintInv'
<1>1. interface' = interface
  BY FrameStep
<1>2. CASE UNCHANGED relationVars
  <2>1. /\ led' = led /\ stage' = stage /\ due' = due /\ app' = app /\ told' = told
    BY <1>2 DEF relationVars, databags, heard
  <2>2. ScrapeFaults("app")' = ScrapeFaults("app")
    BY <2>1 DEF ScrapeFaults, PublishedJobs, PublishedRules, HasBadJob, SeesUnit, Has
  <2> QED
    BY <1>1, <2>1, <2>2
       DEF ComplaintInv, FaultsHeard, ScrapeComplaintsHeard, DashboardsComplaintsHeard, Has,
           KnownFaulty, ScrapeComplaints, DashboardsComplained, DashboardsPublished
<1>3. CASE Juju
  <2>1. CASE Made
    <3>1. app'["requirer"] = NoData /\ app'["provider"] = NoData /\ stage'["requirer"] = "new"
      BY <2>1, TheSides DEF Made
    <3>2. /\ ~ Has(app'["provider"], {"event"}) /\ ScrapeComplaints' = {}
          /\ ~ DashboardsComplained' /\ DashboardsPublished' = {}
      BY <3>1, NoDataIsEmpty DEF Has, ScrapeComplaints, DashboardsComplained, DashboardsPublished
    <3> QED
      BY <1>1, <3>1, <3>2
         DEF ComplaintInv, FaultsHeard, ScrapeComplaintsHeard, DashboardsComplaintsHeard, Has
  <2>2. CASE Removed
    <3>1. /\ led' = led /\ due' = due /\ app' = app /\ told' = told
          /\ stage'["requirer"] = "joined" => stage["requirer"] = "joined"
      BY <2>2, TheSides DEF Removed
    <3>2. stage'["requirer"] = "joined" => ScrapeFaults("app")' = ScrapeFaults("app")
      BY <3>1 DEF ScrapeFaults, PublishedJobs, PublishedRules, HasBadJob, SeesUnit, Has
    <3> QED
      BY <1>1, <3>1, <3>2
         DEF ComplaintInv, FaultsHeard, ScrapeComplaintsHeard, DashboardsComplaintsHeard, Has,
             KnownFaulty, ScrapeComplaints, DashboardsComplained, DashboardsPublished
  <2>3. CASE Elected
    <3>1. led' = FALSE /\ app' = app
      BY <2>3 DEF Elected
    <3> QED
      BY <1>1, <3>1
         DEF ComplaintInv, FaultsHeard, ScrapeComplaintsHeard, DashboardsComplaintsHeard, Has,
             ScrapeComplaints, DashboardsComplained, DashboardsPublished
  <2> QED
    BY <1>3, <2>1, <2>2, <2>3, JujuFacts
<1>4. CASE LogContainerReplaced
  <2>1. /\ interface \in {"forwarder", "promtail"}
        /\ led' = led /\ app' = app /\ told' = told
        /\ "app" \in due["requirer"] => "app" \in due'["requirer"]
    BY <1>4, ReplacedFacts DEF LogContainerReplaced, Replaced
  <2> QED
    BY <1>1, <2>1 DEF ComplaintInv, FaultsHeard, Has, KnownFaulty
<1>5. ASSUME NEW hook, MovesOfProvider(hook), interface \in {"loki", "promtail"}
      PROVE  ComplaintInv'
  <2>1. ProviderWakes
    BY <1>5, ProvidersWake
  <2>2. FaultsHeard'
    BY <1>5, <2>1 DEF ProviderWakes, ComplaintInv, FaultsHeard, Has, KnownFaulty
  <2> QED
    BY <1>1, <1>5, <2>2 DEF ComplaintInv
<1>6. CASE interface \in LokiClients /\ (LokiStep \/ \E s \in Sides, hook \in AllHooks : LokiHook(s, hook))
  <2>1. CASE interface = "forwarder"
    BY <1>1, <2>1 DEF ComplaintInv
  <2>2. CASE interface # "forwarder" /\ LokiStep
    <3>1. CASE LokiLifecycle
      <4>1. FaultsHeard'
        BY <1>6, <2>2, <3>1, LokiFaultsStep DEF ComplaintInv, LokiClients
      <4> QED
        BY <1>1, <1>6, <2>2, <4>1 DEF ComplaintInv, LokiClients
    <3>2. CASE LokiProviderLifecycle \/ LokiUpdateEndpoint \/ LokiOfOtherMake
      <4>1. MovesOfProvider("app")
        BY Zenon, <3>2 DEF MovesOfProvider
      <4> QED
        BY <1>5, <1>6, <2>2, <4>1 DEF LokiClients
    <3> QED
      BY <1>4, <2>2, <3>1, <3>2 DEF LokiStep
  <2>3. ASSUME NEW s, NEW hook, LokiHook(s, hook), interface # "forwarder"
        PROVE  ComplaintInv'
    <3>1. CASE LokiProviderHook(hook)
      <4>1. MovesOfProvider(hook)
        BY Zenon, <3>1 DEF MovesOfProvider
      <4> QED
        BY <1>5, <1>6, <2>3, <4>1 DEF LokiClients
    <3>2. CASE LokiConsumerHook(hook) \/ PromtailHook(hook)
      <4>1. FaultsHeard'
        BY <1>6, <2>3, <3>2, LokiFaultsStep DEF ComplaintInv, LokiClients
      <4> QED
        BY <1>1, <1>6, <2>3, <4>1 DEF ComplaintInv, LokiClients
    <3> QED
      BY Zenon, <2>3, <3>1, <3>2 DEF LokiHook, ForwarderHook
  <2> QED
    BY <1>6, <2>1, <2>2, <2>3
<1>7. CASE interface = "scrape" /\ (ScrapeStep \/ \E s \in Sides, hook \in AllHooks : ScrapeHook(s, hook))
  BY <1>1, <1>7, ScrapeRequirerComplains, ScrapeProviderHears DEF ComplaintInv, ScrapeHook
<1>8. CASE interface = "dashboards"
           /\ (DashboardsStep \/ \E s \in Sides, hook \in AllHooks : DashboardsHook(s, hook))
  BY <1>1, <1>8, DashboardsRequirerComplains, DashboardsProviderHears DEF ComplaintInv, DashboardsHook
<1>9. CASE interface \notin {"loki", "promtail", "scrape", "dashboards"}
  BY <1>1, <1>9 DEF ComplaintInv
<1> QED
  BY <1>2, <1>3, <1>6, <1>7, <1>8, <1>9, StepOfTheInterface DEF Flavours, LokiClients

LEMMA ComplaintInvariant ==
    ASSUME NothingIsApart
    PROVE  Spec => []ComplaintInv
<1>1. RelationInit => ComplaintInv
  <2> SUFFICES ASSUME RelationInit
               PROVE  ComplaintInv
    OBVIOUS
  <2>1. app["requirer"] = NoData /\ app["provider"] = NoData /\ led = FALSE
    BY TheSides DEF RelationInit
  <2>2. /\ ScrapeComplaints = {} /\ ~ DashboardsComplained
    BY <2>1, NoDataIsEmpty DEF Has, ScrapeComplaints, DashboardsComplained
  <2> QED
    BY <2>1, <2>2 DEF ComplaintInv, FaultsHeard, ScrapeComplaintsHeard, DashboardsComplaintsHeard
<1>2. FrameOK /\ ComplaintInv /\ [Next]_relationVars => ComplaintInv'
  BY ComplaintStep
<1> QED
  BY <1>1, <1>2, FrameInvariant, PTL DEF Spec

\* Whoever has led since the relation was made learns that what it published is faulty.
THEOREM ComplaintsArrive ==
    ASSUME NothingIsApart
    PROVE  Spec => []ComplaintArrives
<1>1. ComplaintInv => ComplaintArrives
  <2> SUFFICES ASSUME ComplaintInv, BothSettled, led
               PROVE  /\ interface \in {"loki", "promtail"} /\ Has(app["provider"], {"event"}) => KnownFaulty
                      /\ interface = "scrape" =>
                             \A fault \in ScrapeFaults("app") :
                                 told["provider"] # Nothing /\ fault \in told["provider"]
                      /\ interface = "dashboards" /\ "corrupt" \in DashboardsPublished =>
                             told["provider"] # Nothing
    BY DEF ComplaintArrives
  <2>1. /\ stage["requirer"] = "joined" /\ due["requirer"] = {} /\ due["provider"] = {}
    BY TheSides DEF BothSettled, Settled
  <2>2. interface \in {"loki", "promtail"} /\ Has(app["provider"], {"event"}) => KnownFaulty
    BY <2>1 DEF ComplaintInv, FaultsHeard
  <2>3. ASSUME interface = "scrape", NEW fault \in ScrapeFaults("app")
        PROVE  told["provider"] # Nothing /\ fault \in told["provider"]
    <3>1. /\ fault \in ScrapeComplaints /\ told["provider"] = ScrapeComplaints
          /\ ScrapeComplaints \subseteq ScrapeFaultNames
      BY <2>1, <2>3 DEF ComplaintInv, ScrapeComplaintsHeard
    <3>2. ScrapeComplaints \in SUBSET Texts
      BY <3>1 DEF ScrapeFaultNames, Texts
    <3> QED
      BY <3>1, <3>2 DEF NothingIsApart
  <2>4. interface = "dashboards" /\ "corrupt" \in DashboardsPublished => told["provider"] # Nothing
    <3>1. {"corrupt"} \in SUBSET Texts
      BY DEF Texts
    <3> QED
      BY <2>1, <3>1 DEF ComplaintInv, DashboardsComplaintsHeard, NothingIsApart
  <2> QED
    BY <2>2, <2>3, <2>4
<1> QED
  BY <1>1, ComplaintInvariant, PTL

-----------------------------------------------------------------------------
(***************************************************************************)
(* Logs go where they are told to.  What there is in the container is in   *)
(* stored["requirer"]; it lags behind the databags while a hook is due, of *)
(* the relation or of the container.                                       *)
(***************************************************************************)
Caught == stage["requirer"] = "joined" /\ due["requirer"] \cap {"app", "unit", "ready"} = {}

PromtailOf(endpoint) ==
    /\ stored["requirer"] # Nothing
    /\ stored["requirer"].installed =>
           stored["requirer"].running /\ stored["requirer"].clients = {endpoint}

LogsInv ==
    Caught /\ Has(unit["provider"], {"endpoint"}) =>
        /\ interface = "forwarder" => stored["requirer"] = unit["provider"].endpoint
        /\ interface = "promtail" /\ Has(app["provider"], {"promtail"}) =>
               PromtailOf(unit["provider"].endpoint)

LEMMA EndpointSeen ==
    ASSUME NEW hook, stage["requirer"] = "joined", hook # "departed", Has(unit["provider"], {"endpoint"})
    PROVE  /\ LokiEndpoints(hook) = {unit["provider"].endpoint}
           /\ FetchEndpoints(hook) = {unit["provider"].endpoint}
  BY DEF LokiEndpoints, FetchEndpoints, ForwarderIsReady, ExtractUrls, SeesUnit

LEMMA ForwarderSends ==
    ASSUME FrameOK, LogsInv, NEW hook, ForwarderHook(hook),
           Caught', Has(unit["provider"], {"endpoint"})
    PROVE  stored'["requirer"] = unit["provider"].endpoint
<1> interface = "forwarder"
  BY DEF ForwarderHook
<1>1. PICK A, U, V : HookRan("requirer", "provider", hook, A, U, V)
  BY Zenon, TheRequirer
     DEF ForwarderHook, ForwarderUpdateLogging, ForwarderPebbleReady, RunsOnly, Runs
<1>2. /\ stage["requirer"] = "joined" /\ hook \in {"app", "unit", "ready", "elected"}
      /\ \A h \in {"app", "unit", "ready"} \ {hook} : h \notin due["requirer"]
  <2>1. hook \notin {"joined", "departed", "created", "broken"}
    BY <1>1, StagesOfHooks DEF Caught, HookRan
  <2> QED
    BY <1>1, <2>1, StagesOfHooks DEF Caught, HookRan, ForwarderHook
<1>3. CASE hook \in {"app", "unit"}
  <2>1. FetchEndpoints(hook) = {unit["provider"].endpoint}
    BY <1>2, <1>3, EndpointSeen
  <2>2. PICK target \in UpdateEndpoints(hook), rules \in RuleSets :
            RunsStoring("requirer", hook, HandleAlertRules(rules), unit["requirer"], target)
    BY <1>3, <2>1 DEF ForwarderHook, ForwarderUpdateLogging
  <2>3. target = unit["provider"].endpoint
    BY <1>2, <1>3, <2>1 DEF UpdateEndpoints, EnableEndpoints, Reachable
  <2> QED
    BY <2>2, <2>3, TheRequirer DEF HookRan
<1>4. CASE hook = "ready"
  <2>1. FetchEndpoints("ready") = {unit["provider"].endpoint}
    BY <1>2, EndpointSeen
  <2>2. PICK target \in EnableEndpoints(FetchEndpoints("ready")) :
            RunsStoring("requirer", "ready", app["requirer"], unit["requirer"], target)
    BY <1>4, <2>1 DEF ForwarderHook, ForwarderPebbleReady
  <2> QED
    BY <2>1, <2>2, TheRequirer DEF HookRan, EnableEndpoints
<1>5. CASE hook = "elected"
  <2>1. stored'["requirer"] = stored["requirer"]
    BY <1>5, TheRequirer DEF ForwarderHook, RunsOnly, Runs, HookRan
  <2> QED
    BY <1>2, <1>5, <2>1 DEF LogsInv, Caught
<1> QED
  BY <1>2, <1>3, <1>4, <1>5

\* What SetupPromtail leaves in the container.
LEMMA PromtailIsSetUp ==
    ASSUME NothingIsApart, NEW hook, NEW state \in SetupPromtail(hook), NEW endpoint,
           Has(app["provider"], {"promtail"}), LokiEndpoints(hook) = {endpoint}
    PROVE  state # Nothing /\ (state.installed => state.running /\ state.clients = {endpoint})
<1>1. PICK i \in EnsurePromtailBinary(stored["requirer"]) :
          state = [clients |-> {endpoint}, installed |-> i, running |-> i /\ {endpoint} # {}]
  BY DEF SetupPromtail, PromtailConfig
<1>2. state.installed = i /\ state.running = (i /\ {endpoint} # {}) /\ state.clients = {endpoint}
  BY <1>1
<1>3. state # Nothing
  BY <1>1 DEF NothingIsApart, IsAFunction
<1> QED
  BY <1>2, <1>3

LEMMA PromtailSends ==
    ASSUME NothingIsApart, FrameOK, LogsInv, NEW hook, PromtailHook(hook), Caught',
           Has(unit["provider"], {"endpoint"}), Has(app["provider"], {"promtail"})
    PROVE  /\ stored'["requirer"] # Nothing
           /\ stored'["requirer"].installed =>
                  /\ stored'["requirer"].running
                  /\ stored'["requirer"].clients = {unit["provider"].endpoint}
<1> interface = "promtail"
  BY DEF PromtailHook
<1>1. PICK A, U, V : HookRan("requirer", "provider", hook, A, U, V)
  BY Zenon, TheRequirer
     DEF PromtailHook, PromtailCreated, PromtailChanged, PromtailDeparted, PromtailPebbleReady,
         RunsOnly, Runs
<1>2. /\ stage["requirer"] = "joined" /\ hook \in {"app", "unit", "ready", "elected"}
      /\ \A h \in {"app", "unit", "ready"} \ {hook} : h \notin due["requirer"]
  <2>1. hook \notin {"joined", "departed", "created", "broken"}
    BY <1>1, StagesOfHooks DEF Caught, HookRan
  <2> QED
    BY <1>1, <2>1, StagesOfHooks DEF Caught, HookRan, PromtailHook
<1>3. LokiEndpoints(hook) = {unit["provider"].endpoint}
  BY <1>2, EndpointSeen
<1>4. CASE hook \in {"app", "unit"}
  <2> DEFINE MayBecome(reachable) == IF ~ reachable THEN {stored["requirer"]}
                                     ELSE IF stored["requirer"] = Nothing THEN SetupPromtail(hook)
                                     ELSE PromtailReconfigured(hook)
  <2>0. PromtailChanged(hook)
    BY <1>4 DEF PromtailHook
  <2>1. PICK rules \in RuleSets, reachable \in Reachable("requirer") :
            \E state \in MayBecome(reachable) :
                RunsStoring("requirer", hook, HandleAlertRules(rules), unit["requirer"], state)
    BY Zenon, <2>0 DEF PromtailChanged
  <2>2. reachable
    BY <1>2, <1>4 DEF Reachable
  <2>3. PICK state \in IF stored["requirer"] = Nothing THEN SetupPromtail(hook)
                       ELSE PromtailReconfigured(hook) :
            RunsStoring("requirer", hook, HandleAlertRules(rules), unit["requirer"], state)
    BY <2>1, <2>2
  <2>4. stored'["requirer"] = state
    BY Zenon, <2>3, TheRequirer DEF HookRan
  <2>5. CASE stored["requirer"] = Nothing
    BY <1>3, <2>3, <2>4, <2>5, PromtailIsSetUp
  <2>6. CASE stored["requirer"] # Nothing
    <3>1. state = [clients |-> {unit["provider"].endpoint}, installed |-> TRUE, running |-> TRUE]
      BY <1>3, <2>3, <2>6 DEF PromtailReconfigured, PromtailConfig
    <3> QED
      BY <2>4, <3>1 DEF NothingIsApart, IsAFunction
  <2> QED
    BY <2>5, <2>6
<1>5. CASE hook = "ready"
  <2>1. PICK state \in SetupPromtail("ready") :
            RunsStoring("requirer", "ready", app["requirer"], unit["requirer"], state)
    BY <1>2, <1>5 DEF PromtailHook, PromtailPebbleReady
  <2>2. stored'["requirer"] = state
    BY Zenon, <2>1, TheRequirer DEF HookRan
  <2>3. LokiEndpoints("ready") = {unit["provider"].endpoint}
    BY <1>3, <1>5
  <2>4. state # Nothing /\ (state.installed => state.running /\ state.clients = {unit["provider"].endpoint})
    BY <2>3, PromtailIsSetUp
  <2> QED
    BY <2>2, <2>4
<1>6. CASE hook = "elected"
  <2>1. stored'["requirer"] = stored["requirer"]
    BY <1>6, TheRequirer DEF PromtailHook, RunsOnly, Runs, HookRan
  <2> QED
    BY <1>2, <1>6, <2>1 DEF LogsInv, Caught, PromtailOf
<1> QED
  BY <1>2, <1>4, <1>5, <1>6

LEMMA LogsStep ==
    ASSUME NothingIsApart, FrameOK, LogsInv, [Next]_relationVars
    PROVE  LogsInv'
<1>1. interface' = interface
  BY FrameStep
<1> SUFFICES ASSUME interface \in {"forwarder", "promtail"}, Caught', Has(unit'["provider"], {"endpoint"})
             PROVE  LogsInv'
  BY <1>1 DEF LogsInv, Has
<1>2. CASE UNCHANGED relationVars
  BY <1>1, <1>2 DEF relationVars, databags, LogsInv, Caught, PromtailOf, Has
<1>3. CASE Juju
  <2>1. CASE Made
    BY <2>1, TheSides DEF Made, Caught
  <2>2. CASE Removed
    BY <1>1, <2>2, TheSides DEF Removed, LogsInv, Caught, PromtailOf, Has
  <2>3. CASE Elected
    BY <1>1, <2>3, TheSides DEF Elected, LogsInv, Caught, PromtailOf, Has
  <2> QED
    BY <1>3, <2>1, <2>2, <2>3, JujuFacts
<1>4. CASE LogContainerReplaced
  BY <1>4, ReplacedFacts DEF LogContainerReplaced, Replaced, Caught
<1>5. ASSUME NEW hook, MovesOfProvider(hook)
      PROVE  LogsInv'
  BY <1>1, <1>5, ProvidersWake DEF ProviderWakes, LogsInv, Caught, PromtailOf, Has
<1>6. ASSUME NEW hook, ForwarderHook(hook) \/ PromtailHook(hook)
      PROVE  LogsInv'
  <2>1. unit'["provider"] = unit["provider"] /\ app'["provider"] = app["provider"]
    BY <1>6, RequirerMovesAlone DEF MovesOfRequirer
  <2>2. Has(unit["provider"], {"endpoint"})
    BY <2>1
  <2>3. interface = "forwarder" => ForwarderHook(hook)
    BY <1>6 DEF PromtailHook
  <2>4. interface = "promtail" => PromtailHook(hook)
    BY <1>6 DEF ForwarderHook
  <2> QED
    BY <1>1, <2>1, <2>2, <2>3, <2>4, ForwarderSends, PromtailSends DEF LogsInv, PromtailOf, Has
<1>7. ASSUME Next
      PROVE  \/ Juju \/ LogContainerReplaced
             \/ \E hook : MovesOfProvider(hook) \/ ForwarderHook(hook) \/ PromtailHook(hook)
  BY <1>7, RequirerOfTheInterface DEF Flavours
<1> QED
  BY <1>2, <1>3, <1>4, <1>5, <1>6, <1>7

LEMMA LogsInvariant ==
    ASSUME NothingIsApart
    PROVE  Spec => []LogsInv
<1>1. RelationInit => LogsInv
  BY TheSides DEF RelationInit, LogsInv, Caught
<1>2. FrameOK /\ LogsInv /\ [Next]_relationVars => LogsInv'
  BY LogsStep
<1> QED
  BY <1>1, <1>2, FrameInvariant, PTL DEF Spec

\* A container that is up sends its logs where Loki is now, also after it was replaced.
THEOREM LogsArrive ==
    ASSUME NothingIsApart
    PROVE  Spec => []LogsGoWhereTold
<1>1. LogsInv => LogsGoWhereTold
  <2> SUFFICES ASSUME LogsInv, Settled("requirer"), LokiEndpoints("app") # {}
               PROVE  /\ interface = "forwarder" => {stored["requirer"]} = LokiEndpoints("app")
                      /\ interface = "promtail" /\ Has(app["provider"], {"promtail"}) =>
                             /\ stored["requirer"] # Nothing
                             /\ stored["requirer"].installed =>
                                    stored["requirer"].running /\ stored["requirer"].clients = LokiEndpoints("app")
    BY DEF LogsGoWhereTold
  <2>1. Caught
    BY DEF Settled, Caught
  <2>2. Has(unit["provider"], {"endpoint"}) /\ LokiEndpoints("app") = {unit["provider"].endpoint}
    BY DEF LokiEndpoints
  <2> QED
    BY <2>1, <2>2 DEF LogsInv, PromtailOf
<1> QED
  BY <1>1, LogsInvariant, PTL

-----------------------------------------------------------------------------
(***************************************************************************)
(* An event says something new.                                            *)
(***************************************************************************)
Announcements ==
    {"credentials_requested", "requested", "ready", "database_created", "topic_created", "index_created",
     "endpoint_changed"}

LEMMA EventNames ==
    /\ Silent => event'.name = "none" /\ event'.name \notin Announcements
    /\ \A s, name, says, reading : TellsSaying(s, name, says, reading) => event'.name = name
    /\ \A s, name, reading : TellsOf(s, name, reading) => event'.name = name
    /\ \A s, name : Tells(s, name) => event'.name = name
    /\ \A s, name : TellsGone(s, name) => event'.name = name
<1>1. Silent => event'.name = "none" /\ event'.name \notin Announcements
  BY DEF Silent, NoEvent, Announcements
<1>2. \A s, name, says, reading : TellsSaying(s, name, says, reading) => event'.name = name
  BY DEF TellsSaying
<1> QED
  BY Zenon, <1>1, <1>2 DEF TellsOf, Tells, TellsGone

\* The steps that announce nothing.
Quiet(hook) ==
    \/ RedisRequirerHook(hook) \/ RedisProviderHook(hook) \/ RedisStep
    \/ SamlRequirerHook(hook) \/ SamlProviderHook(hook) \/ SamlStep
    \/ S3RequirerHook(hook) \/ S3Step
    \/ IngressProviderHook(hook) \/ IngressStep
    \/ TracingProviderHook(hook) \/ TracingStep
    \/ LokiConsumerHook(hook) \/ ForwarderHook(hook) \/ PromtailHook(hook)
    \/ LokiProviderHook(hook) \/ LokiProviderLifecycle \/ LokiUpdateEndpoint
    \/ LokiOfOtherMake \/ LokiLifecycle
    \/ ScrapeRequirerHook(hook) \/ ScrapeProviderHook(hook) \/ ScrapeStep
    \/ DashboardsRequirerHook(hook) \/ DashboardsProviderHook(hook) \/ DashboardsStep

LEMMA QuietIsQuiet ==
    ASSUME NEW hook, Quiet(hook)
    PROVE  event'.name \notin Announcements
<1> DEFINE N == event'.name \notin Announcements
<1>1. /\ "redis_relation_updated" \notin Announcements
      /\ "saml_data_available" \notin Announcements
      /\ "credentials_changed" \notin Announcements
      /\ "credentials_gone" \notin Announcements
      /\ "data_provided" \notin Announcements
      /\ "data_removed" \notin Announcements
      /\ "request" \notin Announcements
      /\ "broken" \notin Announcements
      /\ "loki_push_api_alert_rules_changed" \notin Announcements
      /\ "loki_push_api_endpoint_joined" \notin Announcements
      /\ "loki_push_api_endpoint_departed" \notin Announcements
      /\ "log_proxy_endpoint_joined" \notin Announcements
      /\ "log_proxy_endpoint_departed" \notin Announcements
      /\ "targets_changed" \notin Announcements
      /\ "alert_rule_status_changed" \notin Announcements
      /\ "dashboards_changed" \notin Announcements
      /\ "dashboard_status_changed" \notin Announcements
  BY DEF Announcements
<1> USE EventNames, <1>1
<1>2. RedisRequirerHook(hook) \/ RedisProviderHook(hook) \/ RedisStep => N
  <2>1. RedisRequirerHook(hook) => N
    BY Zenon DEF RedisRequirerHook
  <2>2. RedisProviderHook(hook) => N
    BY Zenon DEF RedisProviderHook
  <2>3. RedisStep => N
    BY Zenon DEF RedisStep, RedisFailover, Publishes, PublishesStoring
  <2> QED
    BY <2>1, <2>2, <2>3
<1>3. SamlRequirerHook(hook) \/ SamlProviderHook(hook) \/ SamlStep => N
  BY Zenon DEF SamlRequirerHook, SamlDataAvailable, SamlProviderHook, SamlStep,
               SamlUpdateRelationData, PublishesStoring
<1>4. S3RequirerHook(hook) \/ S3Step => N
  <2>1. S3RequirerHook(hook) => N
    BY Zenon DEF S3RequirerHook, S3Joined, S3Changed, S3CredentialsChanged, S3Broken
  <2>2. S3Step => N
    BY Zenon DEF S3Step, S3SetConnectionInfo, S3SetOption, S3UpdateConnectionInfo, Publishes,
                 PublishesStoring
  <2> QED
    BY <2>1, <2>2
<1>5. IngressProviderHook(hook) \/ IngressStep => N
  <2>1. IngressProviderHook(hook) => N
    BY Zenon DEF IngressProviderHook, IngressHandlesRequirer, IngressDataProvided
  <2>2. IngressStep => N
    BY Zenon DEF IngressStep, IngressPublishUrl, IngressWipeData, Publishes, PublishesStoring
  <2> QED
    BY <2>1, <2>2
<1>6. TracingProviderHook(hook) \/ TracingStep => N
  <2>1. TracingProviderHook(hook) => N
    BY Zenon DEF TracingProviderHook, TracingRelationEvent, TracingRequested
  <2>2. TracingStep => N
    BY Zenon DEF TracingStep, TracingPublishReceivers, TracingOtherHook, Publishes, PublishesStoring
  <2> QED
    BY <2>1, <2>2
<1>7. \/ LokiConsumerHook(hook) \/ ForwarderHook(hook) \/ PromtailHook(hook)
      \/ LokiProviderHook(hook) \/ LokiProviderLifecycle \/ LokiUpdateEndpoint
      \/ LokiOfOtherMake \/ LokiLifecycle
      => N
  <2>1. \A name, h, faulty : LokiTells(name, h, faulty) => event'.name = name
    BY Zenon DEF LokiTells
  <2>2. \A h : LokiProcesses(h) => N
    BY Zenon DEF LokiProcesses
  <2>3. LokiConsumerHook(hook) \/ LokiLifecycle => N
    BY Zenon, <2>1 DEF LokiConsumerHook, LokiJoined, LokiChanged, LokiDeparted, LokiLifecycle
  <2>4. ForwarderHook(hook) => N
    BY Zenon DEF ForwarderHook
  <2>5. PromtailHook(hook) => N
    BY Zenon, <2>1 DEF PromtailHook, PromtailCreated, PromtailChanged, PromtailDeparted,
                       PromtailPebbleReady
  <2>6. LokiProviderHook(hook) => N
    BY Zenon, <2>2 DEF LokiProviderHook, LokiProviderJoined, LokiProviderChanged,
                       LokiProviderDeparted, LokiProviderBroken
  <2>7. LokiProviderLifecycle \/ LokiUpdateEndpoint \/ LokiOfOtherMake => N
    BY Zenon, <2>2 DEF LokiProviderLifecycle, LokiUpdateEndpoint, LokiOfOtherMake, Publishes,
                       PublishesStoring
  <2> QED
    BY <2>3, <2>4, <2>5, <2>6, <2>7
<1>8. ScrapeRequirerHook(hook) \/ ScrapeProviderHook(hook) \/ ScrapeStep => N
  <2>1. ScrapeRequirerHook(hook) => N
    BY Zenon DEF ScrapeRequirerHook, ScrapeRequirerChanged, ScrapeRequirerDeparted, TargetsChanged
  <2>2. ScrapeProviderHook(hook) => N
    BY Zenon DEF ScrapeProviderHook, ScrapeProviderJoined, ScrapeProviderChanged
  <2>3. ScrapeStep => N
    BY Zenon DEF ScrapeStep, UpdateScrapeJobSpec
  <2> QED
    BY <2>1, <2>2, <2>3
<1>9. DashboardsRequirerHook(hook) \/ DashboardsProviderHook(hook) \/ DashboardsStep => N
  <2>1. DashboardsRequirerHook(hook) => N
    BY Zenon DEF DashboardsRequirerHook, DashboardsRequirerChanged, RenderDashboards,
                 DashboardsRequirerCreated, DashboardsRequirerBroken, TellsDashboards
  <2>2. DashboardsProviderHook(hook) => N
    BY Zenon DEF DashboardsProviderHook, DashboardsCreated, DashboardsProviderChanged,
                 DashboardsElected
  <2>3. DashboardsStep => N
    BY Zenon DEF DashboardsStep, DashboardsChange, DashboardsOfOtherMake, AddDashboard,
                 RemoveNonBuiltinDashboards, ReloadDashboards, UpdateDashboards, Publishes,
                 PublishesStoring
  <2> QED
    BY <2>1, <2>2, <2>3
<1> HIDE DEF N
<1>10. N
  BY <1>2, <1>3, <1>4, <1>5, <1>6, <1>7, <1>8, <1>9 DEF Quiet
<1> QED
  BY <1>10 DEF N

\* Of an ingress, what was told last is what is kept.
ReadyInv ==
    interface = "ingress" /\ told["requirer"] # Nothing =>
        IngressLoad(told["requirer"].app) = stored["requirer"]

ReadyIsNews ==
    event'.name = "ready" =>
        IngressUrlFromRelationData(told["requirer"]) # IngressUrlFromRelationData(told'["requirer"])

LEMMA IngressRequirerTells ==
    ASSUME NothingIsApart, FrameOK, ReadyInv, NEW hook, IngressRequirerHook(hook)
    PROVE  ReadyInv' /\ ReadyIsNews
<1> interface = "ingress"
  BY DEF IngressRequirerHook
<1> DEFINE new == IngressLoad(app["provider"])
<1>1. CASE hook = "broken"
  <2>1. told'["requirer"] = Nothing /\ event'.name = "revoked"
    BY <1>1, TheRequirer, EventNames DEF IngressRequirerHook, IngressRevoked, TellsGone, TellsOf, Heard
  <2> QED
    BY <2>1 DEF ReadyInv, ReadyIsNews
<1>2. CASE \E A, U : Runs("requirer", hook, A, U) /\ Silent
  <2>1. PICK A, U : HookRan("requirer", "provider", hook, A, U, stored["requirer"])
    BY Zenon, <1>2, TheRequirer DEF Runs
  <2>2. told' = told /\ event'.name = "none"
    BY <1>2, EventNames DEF Silent
  <2> QED
    BY <2>1, <2>2 DEF HookRan, ReadyInv, ReadyIsNews
<1>3. CASE /\ new # Nothing /\ stored["requirer"] # new
           /\ \E A, U : RunsStoring("requirer", hook, A, U, new)
           /\ IngressReady
  <2>1. PICK A, U : HookRan("requirer", "provider", hook, A, U, new)
    BY Zenon, <1>3, TheRequirer
  <2>2. stored'["requirer"] = new
    BY <2>1 DEF HookRan
  <2>3. told'["requirer"] = Reading("requirer")
    BY <1>3, TheRequirer DEF IngressReady, Tells, TellsOf, Heard
  <2>4. Reading("requirer") # Nothing /\ Reading("requirer").app = app["provider"]
    BY RecordsAreSomething, TheSides DEF Reading
  <2>5. told["requirer"] # Nothing => IngressLoad(told["requirer"].app) = stored["requirer"]
    BY DEF ReadyInv
  <2> HIDE DEF new
  <2>6. IngressLoad(told'["requirer"].app) = new /\ told'["requirer"] # Nothing
    BY <2>3, <2>4 DEF new
  <2>7. ReadyInv'
    BY <2>2, <2>6 DEF ReadyInv, IngressLoad
  <2>8. ReadyIsNews
    BY <1>3, <2>5, <2>6 DEF ReadyIsNews, IngressUrlFromRelationData
  <2> QED
    BY <2>7, <2>8
<1>4. CASE hook \in {"created", "joined", "app", "unit", "departed"}
  <2>1. IngressHandlesRelation(hook)
    BY <1>4 DEF IngressRequirerHook
  <2> HIDE DEF new
  <2>2. CASE new # Nothing /\ stored["requirer"] # new
    BY Zenon, <1>3, <2>1, <2>2 DEF IngressHandlesRelation, new
  <2>3. CASE ~ (new # Nothing /\ stored["requirer"] # new)
    BY Zenon, <1>2, <2>1, <2>3 DEF IngressHandlesRelation, new
  <2> QED
    BY <2>2, <2>3
<1>5. CASE hook = "elected"
  <2>1. IngressElected
    BY <1>5 DEF IngressRequirerHook
  <2> QED
    BY Zenon, <1>2, <1>5, <2>1 DEF IngressElected, RunsOnly
<1> QED
  BY <1>1, <1>4, <1>5 DEF IngressRequirerHook

\* Of a database, the requirer has noted the secret whenever it knows of credentials, tracks
\* them, or will hear of new ones.
SecretNoted == "secret-user" \in DOMAIN Noted(unit["requirer"])

FirstInv ==
    LET knows == told["requirer"]
    IN  interface \in Flavours =>
        /\ knows # Nothing /\ knows.credentials # Nothing => SecretNoted
        /\ stored["requirer"] # Nothing => SecretNoted /\ stage["requirer"] \notin {"none", "new"}
        /\ "secret" \in due["requirer"] => SecretNoted \/ stage["requirer"] = "none"
        /\ SecretNoted => HasSecret
        /\ stage["requirer"] = "new" => knows = Nothing /\ ~ SecretNoted

CreatedIsNews ==
    event'.name \in {"database_created", "topic_created", "index_created"} =>
        told["requirer"] = Nothing \/ told["requirer"].credentials = Nothing

LEMMA SecretNotedLater ==
    /\ SecretNoted' <=> "secret-user" \in DOMAIN Noted(unit'["requirer"])
    /\ HasSecret' <=> "secret-user" \in DOMAIN app'["provider"]
  BY DEF SecretNoted, Noted, Has, HasSecret

LEMMA DataRequirerTells ==
    ASSUME FrameOK, CredentialsInv, FirstInv, NEW hook, DataRequirerHook(hook)
    PROVE  FirstInv' /\ CreatedIsNews
<1>1. interface \in Flavours
  BY DEF DataRequirerHook
<1>2. /\ interface' = interface /\ app'["provider"] = app["provider"]
      /\ HasSecret' <=> HasSecret
  <2>1. interface' = interface /\ app'["provider"] = app["provider"]
    BY RequirerMovesAlone DEF MovesOfRequirer
  <2> QED
    BY <2>1, SecretNotedLater DEF HasSecret, Has
<1>3. CASE hook = "created"
  <2>1. PICK resource : Asks(resource)
    BY <1>3 DEF DataRequirerHook, DatabaseCreated, KafkaCreated, OpenSearchCreated, EtcdCreated
  <2>2. PICK A, U : /\ HookRan("requirer", "provider", "created", A, U, stored["requirer"])
                    /\ U \in {unit["requirer"], RequestsSecrets}
    BY Zenon, <2>1, TheRequirer DEF Asks, Runs, RunsOnly
  <2>3. told' = told /\ event'.name = "none"
    BY <2>1, EventNames DEF Asks, Silent
  <2>4. stage["requirer"] = "new" /\ stage'["requirer"] = "created"
    BY <2>2, StagesOfHooks
  <2>5. /\ unit'["requirer"] = U /\ stored'["requirer"] = stored["requirer"]
        /\ "secret" \in due'["requirer"] => "secret" \in due["requirer"]
    BY <2>2 DEF HookRan, Written
  <2>6. ~ SecretNoted'
    <3>1. Noted(RequestsSecrets) = NoData
      BY DEF Noted, RequestsSecrets, Has, Entry
    <3>2. ~ SecretNoted
      BY <1>1, <2>4 DEF FirstInv
    <3> QED
      BY <2>2, <2>5, <3>1, <3>2, NoDataIsEmpty, SecretNotedLater DEF SecretNoted
  <2> QED
    BY <1>1, <1>2, <2>3, <2>4, <2>5, <2>6 DEF FirstInv, CreatedIsNews
<1>4. CASE hook \in {"app", "unit"}
  <2> DEFINE added == Added(Noted(unit["requirer"]), app["provider"])
             changed == Changed(Noted(unit["requirer"]), app["provider"])
             emitted == DataEvent(added, changed)
             kept == IF emitted = "none" THEN Registered(added) ELSE Refreshed
             noted == Note(unit["requirer"], app["provider"])
  <2>1. /\ RunsStoring("requirer", hook, app["requirer"], noted, kept)
        /\ IF emitted = "none" THEN Silent ELSE TellsData(emitted, Registered(added))
    BY Zenon, <1>4 DEF DataRequirerHook, DataRequirerChanged
  <2> HIDE DEF kept, noted, emitted
  <2>2. HookRan("requirer", "provider", hook, app["requirer"], noted, kept)
    BY <2>1, TheRequirer
  <2>3. /\ unit'["requirer"] = noted /\ stored'["requirer"] = kept
        /\ \A h : h \in due'["requirer"] => h \in due["requirer"] \/ h = "unit"
        /\ stage'["requirer"] = stage["requirer"] /\ stage["requirer"] \in {"created", "joined"}
    BY <1>4, <2>2, StagesOfHooks DEF HookRan, Written
  <2>4. SecretNoted' <=> HasSecret
    <3>1. DOMAIN Noted(noted) = DOMAIN app["provider"] \ {"data"}
      <4>1. Noted(noted) = Without(app["provider"], {"data"})
        BY Zenon, NotedIs DEF Note, noted
      <4> QED
        BY <4>1, WithoutIs
    <3> QED
      BY <2>3, <3>1, SecretNotedLater DEF HasSecret, Has
  <2>5. "secret-user" \in added <=> HasSecret /\ ~ SecretNoted
    BY DEF Added, Without, HasSecret, Has, SecretNoted
  <2>6. kept # Nothing => HasSecret
    <3>1. kept = stored["requirer"] \/ HasSecret
      BY <2>5 DEF kept, Registered, Refreshed
    <3>2. stored["requirer"] # Nothing => HasSecret
      BY <1>1 DEF FirstInv
    <3> QED
      BY <3>1, <3>2
  <2>7. CASE emitted = "none"
    <3>1. told' = told /\ event'.name = "none"
      BY <2>1, <2>7, EventNames DEF Silent
    <3> QED
      BY <1>1, <1>2, <2>3, <2>4, <2>6, <3>1 DEF FirstInv, CreatedIsNews
  <2>8. CASE emitted # "none"
    <3> DEFINE fetched == FetchWithSecrets("credentials")
    <3>1. /\ told'["requirer"] = [credentials |-> fetched, endpoints |-> EventEndpoints]
          /\ event'.name = emitted
      BY <2>1, <2>8, TheRequirer DEF TellsData, Heard
    <3>2. fetched # Nothing => HasSecret
      BY <1>1 DEF FetchWithSecrets, FetchWithoutSecrets, Has, CredentialsInv
    <3>3. FirstInv'
      BY <1>1, <1>2, <2>3, <2>4, <2>6, <3>1, <3>2 DEF FirstInv
    <3>4. emitted \in {"database_created", "topic_created", "index_created"} => "secret-user" \in added
      <4>1. "credentials" \notin added
        BY <1>1 DEF Added, Without, CredentialsInv
      <4> HIDE DEF added, changed
      <4> QED
        BY <1>1, <4>1
           DEF emitted, DataEvent, DatabaseEvent, KafkaEvent, OpenSearchEvent, EtcdEvent, Flavours
    <3>5. CreatedIsNews
      BY <1>1, <2>5, <3>1, <3>4 DEF CreatedIsNews, FirstInv
    <3> QED
      BY <3>3, <3>5
  <2> QED
    BY <2>7, <2>8
<1>5. CASE hook = "secret"
  <2>1. OpenSearchSecretChanged \/ EtcdSecretChanged \/ OtherSecretChanged
    BY <1>5 DEF DataRequirerHook
  <2>2. PICK V : HookRan("requirer", "provider", "secret", app["requirer"], unit["requirer"], V)
    BY Zenon, <2>1, TheRequirer
       DEF OpenSearchSecretChanged, EtcdSecretChanged, OtherSecretChanged, RunsOnly, Runs
  <2>3. /\ unit'["requirer"] = unit["requirer"] /\ stage'["requirer"] = stage["requirer"]
        /\ stage["requirer"] \in {"created", "joined"} /\ "secret" \in due["requirer"]
    BY <2>2 DEF HookRan, Written, Comes
  <2>4. SecretNoted /\ HasSecret
    BY <1>1, <2>3 DEF FirstInv
  <2>5. SecretNoted'
    BY <2>3, <2>4, SecretNotedLater DEF SecretNoted
  <2>6. event'.name \in {"authentication_updated", "etcd_ready", "none"}
    <3>1. \A name, tracked : TellsData(name, tracked) => event'.name = name
      BY Zenon, EventNames DEF TellsData
    <3> QED
      BY Zenon, <2>1, <3>1, EventNames
         DEF OpenSearchSecretChanged, EtcdSecretChanged, OtherSecretChanged
  <2> QED
    BY <1>2, <2>3, <2>4, <2>5, <2>6 DEF FirstInv, CreatedIsNews
<1>6. CASE hook \in {"joined", "departed", "broken", "elected"}
  <2>1. /\ HookRan("requirer", "provider", hook, app["requirer"], unit["requirer"],
                   SecretOfRelation(hook))
        /\ told' = told /\ event'.name = "none"
    <3>1. /\ RunsStoring("requirer", hook, app["requirer"], unit["requirer"], SecretOfRelation(hook))
          /\ Silent
      BY <1>6 DEF DataRequirerHook
    <3> QED
      BY <3>1, TheRequirer, EventNames DEF Silent
  <2>2. /\ unit'["requirer"] = unit["requirer"] /\ stored'["requirer"] = SecretOfRelation(hook)
        /\ "secret" \in due'["requirer"] => "secret" \in due["requirer"]
    BY <2>1 DEF HookRan, Written
  <2>3. SecretNoted' <=> SecretNoted
    BY <2>2, SecretNotedLater DEF SecretNoted
  <2>4. CASE hook = "broken"
    <3>1. stage'["requirer"] = "none" /\ stored'["requirer"] = Nothing
      BY <2>1, <2>2, <2>4, StagesOfHooks DEF SecretOfRelation
    <3> QED
      BY <1>1, <1>2, <2>1, <2>3, <3>1 DEF FirstInv, CreatedIsNews
  <2>5. CASE hook = "elected"
    <3>1. stage'["requirer"] = stage["requirer"] /\ stored'["requirer"] = stored["requirer"]
      BY <2>1, <2>2, <2>5, StagesOfHooks DEF SecretOfRelation
    <3> QED
      BY <1>1, <1>2, <2>1, <2>2, <2>3, <3>1 DEF FirstInv, CreatedIsNews
  <2>6. CASE hook \in {"joined", "departed"}
    <3>1. /\ stage'["requirer"] = hook /\ stage["requirer"] \in {"created", "joined"}
          /\ stored'["requirer"] = stored["requirer"]
      BY <2>1, <2>2, <2>6, StagesOfHooks DEF SecretOfRelation
    <3> QED
      BY <1>1, <1>2, <2>1, <2>2, <2>3, <2>6, <3>1 DEF FirstInv, CreatedIsNews
  <2> QED
    BY <1>6, <2>4, <2>5, <2>6
<1> QED
  BY <1>3, <1>4, <1>5, <1>6 DEF DataRequirerHook

NewsInv == ReadyInv /\ FirstInv

\* What the charm of the provider gives, and what its hooks write, keeps the secret.
KeepsTheSecret ==
    /\ interface' = interface /\ stage'["requirer"] = stage["requirer"]
    /\ told'["requirer"] = told["requirer"] /\ stored'["requirer"] = stored["requirer"]
    /\ unit'["requirer"] = unit["requirer"]
    /\ HasSecret => "secret-user" \in DOMAIN app'["provider"]
    /\ "secret" \in due'["requirer"] => "secret" \in due["requirer"] \/ stored["requirer"] # Nothing

LEMMA DataProviderKeepsFirst ==
    ASSUME FrameOK, FirstInv, DataStep \/ \E hook : DataProviderHook(hook)
    PROVE  FirstInv'
<1>1. ASSUME DataStep
      PROVE  KeepsTheSecret
  <2>1. PICK field, value : Given(field, value)
    BY <1>1, DataStepGives, GivenFacts
  <2>2. \/ app' = app
        \/ app'["provider"] = Updated(app["provider"], Entry("secret-user", "uri"))
        \/ app'["provider"] = Updated(app["provider"], Entry(field, value))
    BY <2>1 DEF Given
  <2>3. HasSecret => "secret-user" \in DOMAIN app'["provider"]
    BY <2>2 DEF HasSecret, Has, Updated
  <2>4. KeepsTheSecret
    BY <2>1, <2>3 DEF Given, NothingHeard, KeepsTheSecret
  <2> QED
    BY <2>4
<1>2. ASSUME NEW hook, DataProviderHook(hook)
      PROVE  KeepsTheSecret
  <2>1. DOMAIN Note(app["provider"], app["requirer"]) = DOMAIN app["provider"] \cup {"data"}
    BY WithEntry DEF Note
  <2>2. PICK A, V : HookRan("provider", "requirer", hook, A, unit["provider"], V)
    BY Zenon, <1>2, TheProvider
       DEF DataProviderHook, DatabaseProviderChanged, KafkaProviderChanged,
           OpenSearchProviderChanged, EtcdProviderChanged, Requested, RunsOnly, Runs
  <2>3. "secret" \in due'["requirer"] => "secret" \in due["requirer"]
    BY <2>2 DEF HookRan, Written
  <2>4. HasSecret => "secret-user" \in DOMAIN app'["provider"]
    BY <1>2, <2>1, DataProviderWrites DEF HasSecret, Has
  <2> QED
    BY <1>2, <2>3, <2>4, ProviderMovesAlone DEF MovesOfProvider, KeepsTheSecret
<1>3. KeepsTheSecret
  BY <1>1, <1>2
<1>4. (SecretNoted' <=> SecretNoted) /\ (HasSecret => HasSecret')
  BY <1>3, SecretNotedLater DEF SecretNoted, KeepsTheSecret
<1> QED
  BY <1>3, <1>4 DEF FirstInv, KeepsTheSecret

LEMMA DataRequirerNames ==
    ASSUME NEW hook, DataRequirerHook(hook)
    PROVE  event'.name \notin {"credentials_requested", "requested", "ready", "endpoint_changed"}
<1> DEFINE N == event'.name \notin {"credentials_requested", "requested", "ready", "endpoint_changed"}
<1>1. \A name, tracked : TellsData(name, tracked) => event'.name = name
  BY Zenon, EventNames DEF TellsData
<1>2. Silent => N
  BY EventNames
<1>3. CASE hook \in {"app", "unit"}
  <2> DEFINE emitted == DataEvent(Added(Noted(unit["requirer"]), app["provider"]),
                                  Changed(Noted(unit["requirer"]), app["provider"]))
  <2>1. IF emitted = "none" THEN Silent ELSE \E tracked : TellsData(emitted, tracked)
    BY Zenon, <1>3 DEF DataRequirerHook, DataRequirerChanged
  <2>2. interface \in Flavours
    BY DEF DataRequirerHook
  <2>3. emitted \notin {"credentials_requested", "requested", "ready", "endpoint_changed"}
    BY <2>2 DEF DataEvent, DatabaseEvent, KafkaEvent, OpenSearchEvent, EtcdEvent, Flavours
  <2> HIDE DEF emitted
  <2> QED
    BY <1>1, <1>2, <2>1, <2>3
<1>4. CASE hook = "secret"
  <2>1. event'.name \in {"authentication_updated", "etcd_ready", "none"}
    BY Zenon, <1>1, <1>4, EventNames
       DEF DataRequirerHook, OpenSearchSecretChanged, EtcdSecretChanged, OtherSecretChanged
  <2> QED
    BY <2>1
<1>5. CASE hook \notin {"app", "unit", "secret"}
  <2>1. Silent
    BY Zenon, <1>5
       DEF DataRequirerHook, DatabaseCreated, KafkaCreated, OpenSearchCreated, EtcdCreated, Asks
  <2> QED
    BY <1>2, <2>1
<1> QED
  BY <1>3, <1>4, <1>5

LEMMA NamesOfEvents ==
    ASSUME NEW hook
    PROVE  /\ S3ProviderHook(hook) => event'.name \in {"credentials_requested", "none"}
           /\ DataProviderHook(hook) => event'.name \in {"requested", "mtls_cert_updated", "none"}
           /\ IngressRequirerHook(hook) => event'.name \in {"ready", "revoked", "none"}
           /\ TracingRequirerHook(hook) =>
                  event'.name \in {"endpoint_changed", "endpoint_removed", "none"}
<1>1. S3ProviderHook(hook) => event'.name \in {"credentials_requested", "none"}
  BY Zenon, EventNames DEF S3ProviderHook, S3BucketRequested
<1>2. DataProviderHook(hook) => event'.name \in {"requested", "mtls_cert_updated", "none"}
  BY Zenon, EventNames
     DEF DataProviderHook, DatabaseProviderChanged, KafkaProviderChanged,
         OpenSearchProviderChanged, EtcdProviderChanged, Requested, ResourceRequested
<1>3. IngressRequirerHook(hook) => event'.name \in {"ready", "revoked", "none"}
  BY Zenon, EventNames
     DEF IngressRequirerHook, IngressHandlesRelation, IngressReady, IngressRevoked, IngressElected
<1>4. TracingRequirerHook(hook) => event'.name \in {"endpoint_changed", "endpoint_removed", "none"}
  BY Zenon, EventNames
     DEF TracingRequirerHook, TracingChanged, TracingBroken, TracingEndpointChanged
<1> QED
  BY <1>1, <1>2, <1>3, <1>4

LEMMA WhoAnnounces ==
    ASSUME Next
    PROVE  \/ Juju \/ LogContainerReplaced
           \/ DataStep /\ interface \in Flavours
           \/ \E hook : \/ S3ProviderHook(hook) \/ DataProviderHook(hook)
                        \/ DataRequirerHook(hook) \/ IngressRequirerHook(hook)
                        \/ TracingRequirerHook(hook)
                        \/ Quiet(hook) /\ interface \notin Flavours \cup {"ingress"}
                        \/ /\ IngressProviderHook(hook) \/ IngressStep
                           /\ interface = "ingress"
<1>1. /\ \A i \in {"redis", "saml", "s3", "tracing", "scrape", "dashboards"} :
             i \notin Flavours \cup {"ingress"}
      /\ \A i \in LokiClients : i \notin Flavours \cup {"ingress"}
  BY DEF Flavours, LokiClients
<1>2. \A s, hook : \/ RedisHook(s, hook) \/ SamlHook(s, hook) \/ LokiHook(s, hook)
                   \/ ScrapeHook(s, hook) \/ DashboardsHook(s, hook)
                   => Quiet(hook)
  BY Zenon DEF RedisHook, SamlHook, LokiHook, ScrapeHook, DashboardsHook, Quiet
<1>3. \A s, hook : /\ S3Hook(s, hook) => Quiet(hook) \/ S3ProviderHook(hook)
                   /\ IngressHook(s, hook) => IngressRequirerHook(hook) \/ IngressProviderHook(hook)
                   /\ DataHook(s, hook) => DataRequirerHook(hook) \/ DataProviderHook(hook)
                   /\ TracingHook(s, hook) => Quiet(hook) \/ TracingRequirerHook(hook)
  BY Zenon DEF S3Hook, IngressHook, DataHook, TracingHook, Quiet
<1>4. /\ RedisStep \/ SamlStep \/ S3Step \/ TracingStep \/ ScrapeStep \/ DashboardsStep => Quiet("app")
      /\ LokiStep => Quiet("app") \/ LogContainerReplaced
  BY Zenon DEF Quiet, LokiStep
<1> QED
  BY Zenon, <1>1, <1>2, <1>3, <1>4, StepOfTheInterface

LEMMA NewsStep ==
    ASSUME NothingIsApart, FrameOK, CredentialsInv, RequestInv, NewsInv, [Next]_relationVars
    PROVE  /\ NewsInv'
           /\ \/ UNCHANGED relationVars
              \/ /\ event'.name \in {"credentials_requested", "requested"} => told["provider"] = Nothing
                 /\ ReadyIsNews
                 /\ CreatedIsNews
<1> DEFINE Unheard == event'.name \notin Announcements
           RequestIsNews == event'.name \in {"credentials_requested", "requested"} =>
                                told["provider"] = Nothing
<1>1. interface' = interface
  BY FrameStep
<1>2. Unheard => RequestIsNews /\ ReadyIsNews /\ CreatedIsNews
  BY DEF Announcements, ReadyIsNews, CreatedIsNews
<1>3. SecretNoted' <=> "secret-user" \in DOMAIN Noted(unit'["requirer"])
  BY SecretNotedLater
<1>4. CASE UNCHANGED relationVars
  BY <1>3, <1>4 DEF relationVars, databags, heard, NewsInv, ReadyInv, FirstInv, SecretNoted,
                    HasSecret, Has, IngressLoad
<1>5. ASSUME Juju
      PROVE  NewsInv' /\ Unheard
  <2>1. Unheard
    BY <1>5, JujuFacts DEF NoEvent, Announcements
  <2>2. CASE Made
    <3>1. /\ unit'["requirer"] = NoData /\ told'["requirer"] = Nothing
          /\ stored' = stored /\ "secret" \notin due'["requirer"] /\ stage["requirer"] = "none"
      BY <2>2, TheSides DEF Made
    <3>2. ~ SecretNoted'
      BY <1>3, <3>1, NoDataIsEmpty, NotedIs
    <3> QED
      BY <1>1, <1>2, <2>1, <3>1, <3>2 DEF NewsInv, ReadyInv, FirstInv
  <2>3. CASE Removed
    <3>1. /\ app' = app /\ unit' = unit /\ told' = told /\ stored' = stored /\ due' = due
          /\ stage'["requirer"] = IF stage["requirer"] = "new" THEN "none" ELSE stage["requirer"]
      BY <2>3, TheSides DEF Removed
    <3>2. (SecretNoted' <=> SecretNoted) /\ (HasSecret' <=> HasSecret)
      BY <3>1, SecretNotedLater DEF SecretNoted, HasSecret, Has
    <3> QED
      BY <1>1, <1>2, <2>1, <3>1, <3>2 DEF NewsInv, ReadyInv, FirstInv
  <2>4. CASE Elected
    <3>1. /\ app' = app /\ unit' = unit /\ told' = told /\ stored' = stored /\ stage' = stage
          /\ "secret" \in due'["requirer"] => "secret" \in due["requirer"]
      BY <2>4, TheSides DEF Elected
    <3>2. (SecretNoted' <=> SecretNoted) /\ (HasSecret' <=> HasSecret)
      BY <3>1, SecretNotedLater DEF SecretNoted, HasSecret, Has
    <3> QED
      BY <1>1, <1>2, <2>1, <3>1, <3>2 DEF NewsInv, ReadyInv, FirstInv
  <2> QED
    BY <1>5, <2>2, <2>3, <2>4, JujuFacts
<1>6. ASSUME LogContainerReplaced
      PROVE  NewsInv' /\ Unheard
  <2>1. Unheard
    BY <1>6, ReplacedFacts DEF LogContainerReplaced, NoEvent, Announcements
  <2>2. interface \in {"forwarder", "promtail"}
    BY <1>6 DEF LogContainerReplaced
  <2> QED
    BY <1>1, <1>2, <2>1, <2>2 DEF NewsInv, ReadyInv, FirstInv, Flavours
<1>7. ASSUME NEW hook, S3ProviderHook(hook)
      PROVE  NewsInv' /\ RequestIsNews /\ ReadyIsNews /\ CreatedIsNews
  <2>1. interface = "s3"
    BY <1>7 DEF S3ProviderHook
  <2>2. event'.name \in {"credentials_requested", "none"}
    BY <1>7, NamesOfEvents
  <2>3. NotesIt \/ PassesItOver(hook)
    BY <1>7, S3ProviderAsked
  <2>4. RequestIsNews
    BY <2>1, <2>3 DEF NotesIt, PassesItOver, RequestInv
  <2> QED
    BY <1>1, <2>1, <2>2, <2>4 DEF NewsInv, ReadyInv, FirstInv, ReadyIsNews, CreatedIsNews, Flavours
<1>8. ASSUME NEW hook, DataProviderHook(hook)
      PROVE  NewsInv' /\ RequestIsNews /\ ReadyIsNews /\ CreatedIsNews
  <2>1. interface \in Flavours
    BY <1>8 DEF DataProviderHook
  <2>2. event'.name \in {"requested", "mtls_cert_updated", "none"}
    BY <1>8, NamesOfEvents
  <2>3. NotesIt \/ PassesItOver(hook) \/ TellsOfAll
    BY <1>8, DataProviderAsked
  <2>4. RequestIsNews
    BY <2>1, <2>3 DEF NotesIt, PassesItOver, TellsOfAll, RequestInv
  <2>5. FirstInv'
    BY <1>8, <2>1, DataProviderKeepsFirst DEF NewsInv
  <2> QED
    BY <1>1, <2>1, <2>2, <2>4, <2>5 DEF NewsInv, ReadyInv, ReadyIsNews, CreatedIsNews, Flavours
<1>9. ASSUME DataStep /\ interface \in Flavours
      PROVE  NewsInv' /\ Unheard
  <2>1. Unheard
    <3>1. PICK field, value : Given(field, value)
      BY <1>9, DataStepGives, GivenFacts
    <3> QED
      BY <3>1 DEF Given, NothingHeard, Announcements
  <2>2. FirstInv'
    BY <1>9, DataProviderKeepsFirst DEF NewsInv
  <2> QED
    BY <1>1, <1>2, <1>9, <2>1, <2>2 DEF NewsInv, ReadyInv, Flavours
<1>10. ASSUME NEW hook, DataRequirerHook(hook)
       PROVE  NewsInv' /\ RequestIsNews /\ ReadyIsNews /\ CreatedIsNews
  <2>1. interface \in Flavours
    BY <1>10 DEF DataRequirerHook
  <2>2. FirstInv' /\ CreatedIsNews
    BY <1>10, DataRequirerTells DEF NewsInv
  <2>3. event'.name \notin {"credentials_requested", "requested", "ready"}
    BY <1>10, DataRequirerNames
  <2> QED
    BY <1>1, <2>1, <2>2, <2>3 DEF NewsInv, ReadyInv, ReadyIsNews, Flavours
<1>11. ASSUME NEW hook, IngressRequirerHook(hook)
       PROVE  NewsInv' /\ RequestIsNews /\ ReadyIsNews /\ CreatedIsNews
  <2>1. interface = "ingress"
    BY <1>11 DEF IngressRequirerHook
  <2>2. ReadyInv' /\ ReadyIsNews
    BY <1>11, IngressRequirerTells DEF NewsInv
  <2>3. event'.name \in {"ready", "revoked", "none"}
    BY <1>11, NamesOfEvents
  <2> QED
    BY <1>1, <2>1, <2>2, <2>3 DEF NewsInv, FirstInv, CreatedIsNews, Flavours
<1>12. ASSUME NEW hook, Quiet(hook), interface \notin Flavours \cup {"ingress"}
       PROVE  NewsInv' /\ Unheard
  BY <1>1, <1>12, QuietIsQuiet DEF NewsInv, ReadyInv, FirstInv
<1>13. ASSUME NEW hook, IngressProviderHook(hook) \/ IngressStep, interface = "ingress"
       PROVE  NewsInv' /\ Unheard
  <2>1. Unheard
    BY <1>13, QuietIsQuiet DEF Quiet
  <2>2. stored'["requirer"] = stored["requirer"] /\ told'["requirer"] = told["requirer"]
    BY <1>13, ProviderMovesAlone DEF MovesOfProvider
  <2> QED
    BY <1>1, <1>13, <2>1, <2>2 DEF NewsInv, ReadyInv, FirstInv, IngressLoad, Flavours
<1>14. ASSUME NEW hook, TracingRequirerHook(hook)
       PROVE  NewsInv' /\ RequestIsNews /\ ReadyIsNews /\ CreatedIsNews
  <2>1. interface = "tracing"
    BY <1>14 DEF TracingRequirerHook
  <2>2. event'.name \in {"endpoint_changed", "endpoint_removed", "none"}
    BY <1>14, NamesOfEvents
  <2> QED
    BY <1>1, <2>1, <2>2
       DEF NewsInv, ReadyInv, FirstInv, ReadyIsNews, CreatedIsNews, Flavours
<1> HIDE DEF Unheard, RequestIsNews
<1>15. CASE Next
  <2> DEFINE News == NewsInv' /\ RequestIsNews /\ ReadyIsNews /\ CreatedIsNews
  <2>1. Unheard /\ NewsInv' => News
    BY <1>2
  <2>2. ASSUME NEW hook, S3ProviderHook(hook) \/ DataProviderHook(hook) \/ DataRequirerHook(hook)
                         \/ IngressRequirerHook(hook) \/ TracingRequirerHook(hook)
        PROVE  News
    BY <1>7, <1>8, <1>10, <1>11, <1>14, <2>2
  <2> HIDE DEF News
  <2>3. News
    BY Zenon, <2>1, <2>2, <1>5, <1>6, <1>9, <1>12, <1>13, <1>15, WhoAnnounces
  <2> QED
    BY <2>3 DEF News, RequestIsNews
<1> QED
  BY <1>4, <1>15

LEMMA NewsInvariant == ASSUME NothingIsApart PROVE Spec => []NewsInv
<1>1. RelationInit => NewsInv
  <2> SUFFICES ASSUME RelationInit
               PROVE  NewsInv
    OBVIOUS
  <2>1. /\ unit["requirer"] = NoData /\ told["requirer"] = Nothing /\ stored["requirer"] = Nothing
        /\ due["requirer"] = {} /\ stage["requirer"] = "none"
    BY TheSides DEF RelationInit
  <2>2. ~ SecretNoted
    BY <2>1, NoDataIsEmpty, NotedIs DEF SecretNoted
  <2> QED
    BY <2>1, <2>2 DEF NewsInv, ReadyInv, FirstInv
<1>2. FrameOK /\ CredentialsInv /\ RequestInv /\ NewsInv /\ [Next]_relationVars => NewsInv'
  BY NewsStep
<1> QED
  BY <1>1, <1>2, FrameInvariant, CredentialsInvariant, RequestInvariant, PTL DEF Spec

\* A request is announced once, a URL when it is another than the last one, and the first
\* credentials when none were known, whoever led in the meantime.
THEOREM EventsAreNews == ASSUME NothingIsApart PROVE Spec => NoSpuriousEvent
<1>1. FrameOK /\ CredentialsInv /\ RequestInv /\ NewsInv /\ [Next]_relationVars =>
          [/\ event'.name \in {"credentials_requested", "requested"} => told["provider"] = Nothing
           /\ event'.name = "ready" =>
                  IngressUrlFromRelationData(told["requirer"])
                      # IngressUrlFromRelationData(told'["requirer"])
           /\ event'.name \in {"database_created", "topic_created", "index_created"} =>
                  told["requirer"] = Nothing \/ told["requirer"].credentials = Nothing]_relationVars
  BY NewsStep DEF ReadyIsNews, CreatedIsNews
<1> QED
  BY <1>1, FrameInvariant, CredentialsInvariant, RequestInvariant, NewsInvariant, PTL
     DEF Spec, NoSpuriousEvent

-----------------------------------------------------------------------------
(***************************************************************************)
(* Types.  A databag holds no nothing; of what is noted, complained of and *)
(* counted, that it stays so takes its own types.                          *)
(***************************************************************************)
Whole(bag) == \A k \in DOMAIN bag : bag[k] # Nothing

AllWhole == \A s \in Sides : Whole(app[s]) /\ Whole(unit[s])

S3Types == interface = "s3" => app["requirer"] # Nothing

ScrapeTypes ==
    interface = "scrape" /\ Has(app["requirer"], {"event"}) =>
        app["requirer"]["event"] \in SUBSET {"scrape_job_errors", "errors"}

DashboardsTypes ==
    interface = "dashboards" =>
        /\ Known("provider") \in SUBSET {"file", "garbled"}
        /\ Has(app["provider"], {"uuid"}) => app["provider"]["uuid"] \in {0, 1}
        /\ Has(app["provider"], {"dashboards"}) =>
               app["provider"]["dashboards"] \in SUBSET {"file", "garbled", "corrupt"}

LEMMA WholeBags ==
    /\ Whole(NoData)
    /\ \A key, value : value # Nothing => Whole(Entry(key, value))
    /\ \A bag, data : Whole(bag) /\ Whole(data) => Whole(Updated(bag, data))
    /\ \A bag, keys : Whole(bag) => Whole(Without(bag, keys))
<1>1. Whole(NoData)
  BY NoDataIsEmpty DEF Whole
<1>2. ASSUME NEW key, NEW value, value # Nothing
      PROVE  Whole(Entry(key, value))
  BY <1>2 DEF Whole, Entry
<1>3. ASSUME NEW bag, NEW data, Whole(bag), Whole(data)
      PROVE  Whole(Updated(bag, data))
  BY <1>3 DEF Whole, Updated
<1>4. ASSUME NEW bag, NEW keys, Whole(bag)
      PROVE  Whole(Without(bag, keys))
  BY <1>4 DEF Whole, Without
<1> QED
  BY Zenon, <1>1, <1>2, <1>3, <1>4

LEMMA FunctionsAreSomething ==
    ASSUME NothingIsApart
    PROVE  /\ \A bag, data : Updated(bag, data) # Nothing
           /\ \A bag, keys : Without(bag, keys) # Nothing
           /\ \A key, value : Entry(key, value) # Nothing
           /\ NoData # Nothing
  BY DEF NothingIsApart, IsAFunction, Updated, Without, Entry, NoData

LEMMA TextsAreSomething ==
    ASSUME NothingIsApart
    PROVE  /\ \A text \in Texts : text # Nothing
           /\ \A texts \in SUBSET Texts : texts # Nothing
           /\ \A value \in Values : value # Nothing
  BY RelationAssumption DEF NothingIsApart

\* A handler that writes whole databags leaves whole databags.
WritesWhole(s, A, U) ==
    /\ \/ \E hook, V : RunsStoring(s, hook, A, U, V)
       \/ \E V : Acts(s, A, U, V)
    /\ Whole(A) /\ Whole(U)

LEMMA WholeAfter ==
    ASSUME FrameOK, AllWhole, NEW s \in Sides, NEW A, NEW U, WritesWhole(s, A, U)
    PROVE  AllWhole'
<1>1. Other(s) \in Sides /\ \A t \in Sides : t = s \/ t = Other(s)
  BY TheSides
<1>2. Written(s, Other(s), A, U)
  <2>1. CASE \E hook, V : RunsStoring(s, hook, A, U, V)
    <3>1. PICK hook, V : RunsStoring(s, hook, A, U, V)
      BY <2>1
    <3>2. HookRan(s, Other(s), hook, A, U, V)
      BY Zenon, <3>1, HookFacts
    <3> QED
      BY <3>2 DEF HookRan
  <2>2. CASE \E V : Acts(s, A, U, V)
    <3>1. PICK V : Acts(s, A, U, V)
      BY <2>2
    <3>2. Acted(s, Other(s), A, U, V)
      BY Zenon, <3>1, ActFacts
    <3> QED
      BY <3>2 DEF Acted
  <2> QED
    BY <2>1, <2>2 DEF WritesWhole
<1> QED
  BY <1>1, <1>2 DEF Written, WritesWhole, AllWhole, Whole

LEMMA WholeRuns ==
    ASSUME NEW s
    PROVE  /\ \A hook, A, U, V : RunsStoring(s, hook, A, U, V) /\ Whole(A) /\ Whole(U) =>
                  \E B, W : WritesWhole(s, B, W)
           /\ \A hook, A, U : Runs(s, hook, A, U) /\ Whole(A) /\ Whole(U) =>
                  \E B, W : WritesWhole(s, B, W)
           /\ \A hook : RunsOnly(s, hook) /\ Whole(app[s]) /\ Whole(unit[s]) =>
                  \E B, W : WritesWhole(s, B, W)
           /\ \A A, U, V : Acts(s, A, U, V) /\ Whole(A) /\ Whole(U) =>
                  \E B, W : WritesWhole(s, B, W)
           /\ \A A, V : PublishesStoring(s, A, V) /\ Whole(A) /\ Whole(unit[s]) =>
                  \E B, W : WritesWhole(s, B, W)
           /\ \A A : Publishes(s, A) /\ Whole(A) /\ Whole(unit[s]) =>
                  \E B, W : WritesWhole(s, B, W)
<1>1. \A hook, A, U, V : RunsStoring(s, hook, A, U, V) /\ Whole(A) /\ Whole(U) =>
          WritesWhole(s, A, U)
  BY Zenon DEF WritesWhole
<1>2. \A A, U, V : Acts(s, A, U, V) /\ Whole(A) /\ Whole(U) => WritesWhole(s, A, U)
  BY Zenon DEF WritesWhole
<1> QED
  BY Zenon, <1>1, <1>2 DEF Runs, RunsOnly, PublishesStoring, Publishes

RequirerWhole == \E A, U : WritesWhole("requirer", A, U)
ProviderWhole == \E A, U : WritesWhole("provider", A, U)

LEMMA RedisWhole ==
    ASSUME NothingIsApart, AllWhole, NEW hook
    PROVE  /\ RedisRequirerHook(hook) => RequirerWhole
           /\ RedisProviderHook(hook) \/ RedisStep => ProviderWhole
<1>1. \A s \in Sides : Whole(app[s]) /\ Whole(unit[s])
  BY DEF AllWhole
<1>2. \A master \in Values : /\ Whole([hostname |-> master, port |-> RedisPort])
                             /\ Whole(Entry("leader-host", master))
  <2>1. RedisPort \in Texts
    BY DEF Texts
  <2> QED
    BY <2>1, TextsAreSomething DEF Whole, Entry
<1>3. RedisRequirerHook(hook) => RequirerWhole
  BY Zenon, <1>1, WholeRuns, TheSides DEF RedisRequirerHook, RequirerWhole
<1>4. RedisProviderHook(hook) => ProviderWhole
  BY Zenon, <1>1, <1>2, WholeRuns, TheSides DEF RedisProviderHook, ProviderWhole
<1>5. RedisStep => ProviderWhole
  BY Zenon, <1>1, <1>2, WholeRuns, TheSides DEF RedisStep, RedisFailover, ProviderWhole
<1> QED
  BY Zenon, <1>3, <1>4, <1>5

LEMMA SamlWhole ==
    ASSUME NothingIsApart, AllWhole, NEW hook
    PROVE  /\ SamlRequirerHook(hook) => RequirerWhole
           /\ SamlProviderHook(hook) \/ SamlStep => ProviderWhole
<1>1. \A s \in Sides : Whole(app[s]) /\ Whole(unit[s])
  BY DEF AllWhole
<1>2. ASSUME NEW data \in SamlRelationData
      PROVE  Whole(SamlToRelationData(data))
  <2>1. data.entity_id # Nothing
    BY <1>2, TextsAreSomething DEF SamlRelationData
  <2> QED
    BY Zenon, <2>1, WholeBags DEF SamlToRelationData, SamlEndpointToRelationData
<1>3. SamlRequirerHook(hook) => RequirerWhole
  BY Zenon, <1>1, WholeRuns, TheSides DEF SamlRequirerHook, RequirerWhole
<1>4. SamlProviderHook(hook) => ProviderWhole
  BY Zenon, <1>1, WholeRuns, TheSides DEF SamlProviderHook, ProviderWhole
<1>5. SamlStep => ProviderWhole
  BY Zenon, <1>1, <1>2, WholeBags, WholeRuns, TheSides
     DEF SamlStep, SamlUpdateRelationData, ProviderWhole
<1> QED
  BY Zenon, <1>3, <1>4, <1>5

LEMMA S3Whole ==
    ASSUME NothingIsApart, AllWhole, S3Types, NEW hook
    PROVE  /\ S3RequirerHook(hook) => RequirerWhole
           /\ S3ProviderHook(hook) \/ S3Step => ProviderWhole
<1>1. \A s \in Sides : Whole(app[s]) /\ Whole(unit[s])
  BY DEF AllWhole
<1>2. Whole([bucket |-> "bucket"])
  <2>1. "bucket" \in Texts
    BY DEF Texts
  <2> QED
    BY <2>1, TextsAreSomething DEF Whole
<1>3. S3RequirerHook(hook) => RequirerWhole
  BY Zenon, <1>1, <1>2, WholeBags, WholeRuns, TheSides
     DEF S3RequirerHook, S3Joined, S3Changed, S3Broken, S3UpdateIfLeader, RequirerWhole
<1>4. S3ProviderHook(hook) => ProviderWhole
  BY Zenon, <1>1, WholeBags, WholeRuns, TheSides DEF S3ProviderHook, S3Types, ProviderWhole
<1>5. S3Step => ProviderWhole
  <2>1. \A value \in Values : value # Nothing
    BY TextsAreSomething
  <2> QED
    BY Zenon, <1>1, <2>1, WholeBags, WholeRuns, TheSides
       DEF S3Step, S3SetConnectionInfo, S3SetOption, S3UpdateConnectionInfo, S3UpdateIfLeader,
           ProviderWhole
<1> QED
  BY Zenon, <1>3, <1>4, <1>5

LEMMA IngressWhole ==
    ASSUME NothingIsApart, AllWhole, NEW hook
    PROVE  /\ IngressRequirerHook(hook) => RequirerWhole
           /\ IngressProviderHook(hook) \/ IngressStep => ProviderWhole
<1>1. \A s \in Sides : Whole(app[s]) /\ Whole(unit[s])
  BY DEF AllWhole
<1>2. Whole(IngressPublishedAppData) /\ Whole(IngressUnitData)
  <2>1. "app" \in Texts /\ "host" \in Texts
    BY DEF Texts
  <2>2. Whole(IngressAppData) /\ Whole(IngressUnitData)
    BY <2>1, TextsAreSomething DEF Whole, IngressAppData, IngressUnitData
  <2> QED
    BY Zenon, <1>1, <2>2, TheSides DEF IngressPublishedAppData
<1>3. \A url : Whole(IngressDump(url))
  BY NoDataIsEmpty DEF Whole, IngressDump
<1>4. IngressRequirerHook(hook) => RequirerWhole
  BY Zenon, <1>1, <1>2, WholeRuns, TheSides
     DEF IngressRequirerHook, IngressHandlesRelation, IngressRevoked, IngressElected, RequirerWhole
<1>5. IngressProviderHook(hook) => ProviderWhole
  BY Zenon, <1>1, WholeRuns, TheSides DEF IngressProviderHook, ProviderWhole
<1>6. IngressStep => ProviderWhole
  BY Zenon, <1>1, <1>3, WholeBags, WholeRuns, TheSides
     DEF IngressStep, IngressPublishUrl, IngressWipeData, ProviderWhole
<1> QED
  BY Zenon, <1>4, <1>5, <1>6

LEMMA TracingWhole ==
    ASSUME NothingIsApart, AllWhole, NEW hook
    PROVE  /\ TracingRequirerHook(hook) \/ TracingOtherHook => RequirerWhole
           /\ TracingProviderHook(hook) \/ TracingPublishReceivers => ProviderWhole
<1>1. \A s \in Sides : Whole(app[s]) /\ Whole(unit[s])
  BY DEF AllWhole
<1>2. \A h : Whole(TracingRequest(h))
  <2>1. TracingProtocols \in SUBSET Texts
    BY DEF TracingProtocols, Texts
  <2>2. Whole(TracingDump(TracingProtocols))
    BY <2>1, TextsAreSomething DEF Whole, TracingDump
  <2> QED
    BY Zenon, <1>1, <2>2, TheSides DEF TracingRequest, TracingRequestProtocols
<1>3. \A receivers \in SUBSET TracingReceivers : Whole(TracingDump(receivers))
  BY DEF Whole, TracingDump, NothingIsApart
<1>4. TracingRequirerHook(hook) \/ TracingOtherHook => RequirerWhole
  BY Zenon, <1>1, <1>2, WholeRuns, TheSides DEF TracingRequirerHook, TracingOtherHook, RequirerWhole
<1>5. TracingProviderHook(hook) => ProviderWhole
  BY Zenon, <1>1, WholeRuns, TheSides DEF TracingProviderHook, ProviderWhole
<1>6. TracingPublishReceivers => ProviderWhole
  BY Zenon, <1>1, <1>3, WholeRuns, TheSides DEF TracingPublishReceivers, ProviderWhole
<1> QED
  BY Zenon, <1>4, <1>5, <1>6

LEMMA DataWhole ==
    ASSUME NothingIsApart, FrameOK, AllWhole, NEW hook
    PROVE  /\ DataRequirerHook(hook) => RequirerWhole
           /\ DataProviderHook(hook) => ProviderWhole
           /\ DataStep => AllWhole'
<1>1. \A s \in Sides : Whole(app[s]) /\ Whole(unit[s])
  BY DEF AllWhole
<1>2. Whole(RequestsSecrets) /\ "name" # Nothing /\ "uri" # Nothing
  <2>1. SecretFields \in SUBSET Texts /\ "name" \in Texts /\ "uri" \in Texts
    BY DEF SecretFields, Texts
  <2> QED
    BY <2>1, TextsAreSomething, WholeBags DEF RequestsSecrets
<1>3. \A bag, seen : Whole(bag) => Whole(Note(bag, seen))
  BY Zenon, WholeBags, FunctionsAreSomething DEF Note
<1>4. DataRequirerHook(hook) => RequirerWhole
  <2>1. \A resource : Asks(resource) => RequirerWhole
    BY Zenon, <1>1, <1>2, WholeBags, WholeRuns, TheSides DEF Asks, RequirerWhole
  <2>2. DataRequirerChanged(hook) => RequirerWhole
    BY Zenon, <1>1, <1>3, WholeRuns, TheSides DEF DataRequirerChanged, RequirerWhole
  <2>3. OpenSearchSecretChanged \/ EtcdSecretChanged \/ OtherSecretChanged => RequirerWhole
    BY Zenon, <1>1, WholeRuns, TheSides
       DEF OpenSearchSecretChanged, EtcdSecretChanged, OtherSecretChanged, RequirerWhole
  <2>4. RunsStoring("requirer", hook, app["requirer"], unit["requirer"], SecretOfRelation(hook))
            => RequirerWhole
    BY Zenon, <1>1, WholeRuns, TheSides DEF RequirerWhole
  <2> QED
    BY Zenon, <2>1, <2>2, <2>3, <2>4
       DEF DataRequirerHook, DatabaseCreated, KafkaCreated, OpenSearchCreated, EtcdCreated
<1>5. DataProviderHook(hook) => ProviderWhole
  <2>1. \A resource : Requested(hook, resource) => ProviderWhole
    BY Zenon, <1>1, <1>3, WholeRuns, TheSides DEF Requested, ProviderWhole
  <2> QED
    BY Zenon, <1>1, <2>1, WholeRuns, TheSides
       DEF DataProviderHook, DatabaseProviderChanged, KafkaProviderChanged,
           OpenSearchProviderChanged, EtcdProviderChanged, ProviderWhole
<1>6. ASSUME DataStep
      PROVE  AllWhole'
  <2>1. PICK field \in {"credentials", "endpoints"}, value \in Values :
            UpdateRelationData(field, value)
    BY <1>6, DataStepGives
  <2>2. Given(field, value)
    BY <2>1, GivenFacts
  <2>3. \/ app' = app
        \/ app'["provider"] = Updated(app["provider"], Entry("secret-user", "uri"))
        \/ app'["provider"] = Updated(app["provider"], Entry(field, value))
    BY <2>2 DEF Given
  <2>4. value # Nothing
    BY TextsAreSomething
  <2>5. Whole(app'["provider"])
    <3>1. /\ Whole(app["provider"])
          /\ Whole(Updated(app["provider"], Entry("secret-user", "uri")))
          /\ Whole(Updated(app["provider"], Entry(field, value)))
      BY Zenon, <1>1, <1>2, <2>4, WholeBags, TheSides
    <3> QED
      BY <2>3, <3>1
  <2>6. app'["requirer"] = app["requirer"] /\ unit' = unit
    BY <2>2 DEF Given
  <2> QED
    BY <1>1, <2>5, <2>6, TheSides DEF AllWhole, Whole
<1> QED
  BY Zenon, <1>4, <1>5, <1>6

LEMMA LokiWhole ==
    ASSUME NothingIsApart, AllWhole, NEW hook
    PROVE  /\ \/ LokiConsumerHook(hook) \/ ForwarderHook(hook) \/ PromtailHook(hook)
              \/ LokiLifecycle
              => RequirerWhole
           /\ \/ LokiProviderHook(hook) \/ LokiProviderLifecycle \/ LokiUpdateEndpoint
              \/ LokiOfOtherMake
              => ProviderWhole
<1>1. \A s \in Sides : Whole(app[s]) /\ Whole(unit[s])
  BY DEF AllWhole
<1>2. \A rules \in RuleSets : Whole(HandleAlertRules(rules))
  <2>1. ASSUME NEW rules \in RuleSets
        PROVE  rules \in Texts
    BY DEF RuleSets, AlertRulesAsDict, Texts
  <2>2. ASSUME NEW rules \in RuleSets
        PROVE  Whole([alert_rules |-> rules])
    BY <2>1, TextsAreSomething DEF Whole
  <2> QED
    BY Zenon, <1>1, <2>2, TheSides DEF HandleAlertRules
<1>3. /\ \A url \in Values : Whole(LokiEndpoint(url))
      /\ LokiUrl \in Values
  BY RelationAssumption, TextsAreSomething DEF Whole, LokiEndpoint, LokiUrl
<1>4. "url" # Nothing /\ "errors" # Nothing
  <2>1. "url" \in Texts /\ "errors" \in Texts
    BY DEF Texts
  <2> QED
    BY <2>1, TextsAreSomething
<1>5. LokiConsumerHook(hook) \/ LokiLifecycle => RequirerWhole
  BY Zenon, <1>1, <1>2, WholeRuns, TheSides
     DEF LokiConsumerHook, LokiJoined, LokiChanged, LokiDeparted, LokiLifecycle,
         ReinitializeAlertRules, RequirerWhole
<1>6. ForwarderHook(hook) => RequirerWhole
  BY Zenon, <1>1, <1>2, WholeRuns, TheSides
     DEF ForwarderHook, ForwarderUpdateLogging, ForwarderPebbleReady, RequirerWhole
<1>7. PromtailHook(hook) => RequirerWhole
  BY Zenon, <1>1, <1>2, WholeRuns, TheSides
     DEF PromtailHook, PromtailCreated, PromtailChanged, PromtailDeparted, PromtailPebbleReady,
         RequirerWhole
<1>8. LokiProviderHook(hook) => ProviderWhole
  BY Zenon, <1>1, <1>3, <1>4, WholeBags, WholeRuns, TheSides
     DEF LokiProviderHook, LokiProviderJoined, LokiProviderChanged, LokiProviderDeparted,
         LokiProviderBroken, ProviderWhole
<1>9. LokiProviderLifecycle \/ LokiUpdateEndpoint \/ LokiOfOtherMake => ProviderWhole
  BY Zenon, <1>1, <1>3, <1>4, WholeBags, WholeRuns, TheSides
     DEF LokiProviderLifecycle, LokiUpdateEndpoint, LokiOfOtherMake, ProviderWhole
<1> QED
  BY Zenon, <1>5, <1>6, <1>7, <1>8, <1>9

LEMMA ScrapeWhole ==
    ASSUME NothingIsApart, AllWhole, ScrapeTypes, NEW hook
    PROVE  /\ ScrapeRequirerHook(hook) => RequirerWhole
           /\ ScrapeProviderHook(hook) \/ ScrapeStep => ProviderWhole
<1>1. \A s \in Sides : Whole(app[s]) /\ Whole(unit[s])
  BY DEF AllWhole
<1>2. ASSUME interface = "scrape", NEW h
      PROVE  Whole(ScrapeComplains(h))
  <2>1. ScrapeComplaints \cup ScrapeFaults(h) \in SUBSET Texts
    BY <1>2 DEF ScrapeComplaints, ScrapeFaults, ScrapeTypes, Texts
  <2> DEFINE faults == ScrapeComplaints \cup ScrapeFaults(h)
  <2>2. faults # Nothing
    BY <2>1, TextsAreSomething
  <2> HIDE DEF faults
  <2>3. Whole([event |-> faults])
    BY <2>2 DEF Whole
  <2> QED
    BY Zenon, <1>1, <2>3, TheSides DEF ScrapeComplains, faults
<1>3. ASSUME NEW jobs, NEW rules \in ScrapeRules
      PROVE  Whole(SetScrapeJobSpec(jobs, rules))
  <2> DEFINE published == PublishableJobs(SanitizeScrapeConfigs(jobs))
  <2>1. published # Nothing
    BY DEF PublishableJobs, SanitizeScrapeConfigs, NothingIsApart, IsAFunction
  <2>2. rules \in Texts
    BY DEF ScrapeRules, Texts
  <2> HIDE DEF published
  <2>3. Whole([scrape_jobs |-> published, alert_rules |-> rules])
    BY <2>1, <2>2, TextsAreSomething DEF Whole
  <2> QED
    BY Zenon, <1>1, <2>3, TheSides DEF SetScrapeJobSpec, published
<1>4. \A data \in ScrapeUnitData : Whole(data)
  BY TextsAreSomething DEF ScrapeUnitData, SetUnitIp, UnitAddress, Whole
<1>5. ScrapeRequirerHook(hook) => RequirerWhole
  BY Zenon, <1>1, <1>2, WholeRuns, TheSides
     DEF ScrapeRequirerHook, ScrapeRequirerChanged, ScrapeRequirerDeparted, RequirerWhole
<1>6. ScrapeProviderHook(hook) => ProviderWhole
  BY Zenon, <1>1, <1>3, <1>4, WholeRuns, TheSides
     DEF ScrapeProviderHook, ScrapeProviderJoined, ScrapeProviderChanged, ProviderWhole
<1>7. ScrapeStep => ProviderWhole
  BY Zenon, <1>1, <1>3, <1>4, WholeRuns, TheSides DEF ScrapeStep, UpdateScrapeJobSpec, ProviderWhole
<1> QED
  BY Zenon, <1>5, <1>6, <1>7

LEMMA DashboardsWhole ==
    ASSUME NothingIsApart, AllWhole, DashboardsTypes, NEW hook
    PROVE  /\ DashboardsRequirerHook(hook) => RequirerWhole
           /\ DashboardsProviderHook(hook) \/ DashboardsStep => ProviderWhole
<1>1. \A s \in Sides : Whole(app[s]) /\ Whole(unit[s])
  BY DEF AllWhole
<1>2. Whole([event |-> {"corrupt"}])
  <2>1. {"corrupt"} \in SUBSET Texts
    BY DEF Texts
  <2> QED
    BY <2>1, TextsAreSomething DEF Whole
<1>3. ASSUME interface = "dashboards", NEW dashboards \in SUBSET Texts
      PROVE  Whole(Upset(dashboards)) /\ Whole(UpsetIfLeader(dashboards))
  <2>1. Upset(dashboards).dashboards = dashboards /\ Upset(dashboards).uuid \in Int
        /\ DOMAIN Upset(dashboards) = {"dashboards", "uuid"}
    BY <1>3 DEF Upset, DashboardsTypes
  <2>2. dashboards # Nothing
    BY TextsAreSomething
  <2>3. Whole(Upset(dashboards))
    BY <2>1, <2>2 DEF Whole, NothingIsApart
  <2> QED
    BY Zenon, <1>1, <2>3, TheSides DEF UpsetIfLeader
<1>4. ASSUME interface = "dashboards"
      PROVE  /\ Known("provider") \in SUBSET Texts
             /\ \A files \in DashboardFiles : Reloaded(files) \in SUBSET Texts
             /\ Known("provider") \cup {"garbled"} \in SUBSET Texts
             /\ Known("provider") \cap {"file"} \in SUBSET Texts
             /\ {"file", "corrupt"} \in SUBSET Texts
  <2>1. Known("provider") \in SUBSET {"file", "garbled"}
    BY <1>4 DEF DashboardsTypes
  <2> QED
    BY <2>1 DEF Reloaded, DashboardFiles, LoadDashboardsFromDir, Texts
<1>5. DashboardsRequirerHook(hook) => RequirerWhole
  BY Zenon, <1>1, <1>2, WholeRuns, TheSides
     DEF DashboardsRequirerHook, DashboardsRequirerChanged, RenderDashboards,
         DashboardsRequirerCreated, DashboardsRequirerBroken, RunsKeeping, RequirerWhole
<1>6. DashboardsProviderHook(hook) => ProviderWhole
  BY Zenon, <1>1, <1>3, <1>4, WholeRuns, TheSides
     DEF DashboardsProviderHook, DashboardsCreated, DashboardsProviderChanged, DashboardsElected,
         ProviderWhole
<1>7. DashboardsStep => ProviderWhole
  BY Zenon, <1>1, <1>3, <1>4, WholeRuns, TheSides
     DEF DashboardsStep, DashboardsChange, DashboardsOfOtherMake, AddDashboard,
         RemoveNonBuiltinDashboards, ReloadDashboards, UpdateDashboards, ProviderWhole
<1> QED
  BY Zenon, <1>5, <1>6, <1>7

TypesInv == AllWhole /\ S3Types /\ ScrapeTypes /\ DashboardsTypes

LEMMA S3Typed ==
    ASSUME NothingIsApart, FrameOK, TypesInv, NEW hook, S3RequirerHook(hook)
    PROVE  app'["requirer"] # Nothing
<1>1. app["requirer"] # Nothing
  BY DEF TypesInv, S3Types, S3RequirerHook
<1>2. PICK A : /\ HookRan("requirer", "provider", hook, A, unit["requirer"], stored["requirer"])
               /\ A \in {app["requirer"], S3UpdateIfLeader("requirer", [bucket |-> "bucket"])}
  BY Zenon, TheRequirer DEF S3RequirerHook, S3Joined, S3Changed, S3Broken, RunsOnly, Runs
<1>3. S3UpdateIfLeader("requirer", [bucket |-> "bucket"]) # Nothing
  BY <1>1, FunctionsAreSomething DEF S3UpdateIfLeader
<1> QED
  BY <1>1, <1>2, <1>3 DEF HookRan, Written

LEMMA ScrapeTyped ==
    ASSUME FrameOK, TypesInv, NEW hook, ScrapeRequirerHook(hook)
    PROVE  Has(app'["requirer"], {"event"}) =>
               app'["requirer"]["event"] \in SUBSET {"scrape_job_errors", "errors"}
<1>1. Has(app["requirer"], {"event"}) =>
          app["requirer"]["event"] \in SUBSET {"scrape_job_errors", "errors"}
  BY DEF TypesInv, ScrapeTypes, ScrapeRequirerHook
<1>2. PICK A : /\ HookRan("requirer", "provider", hook, A, unit["requirer"], stored["requirer"])
               /\ A \in {app["requirer"], ScrapeComplains(hook)}
  BY Zenon, TheRequirer
     DEF ScrapeRequirerHook, ScrapeRequirerChanged, ScrapeRequirerDeparted, RunsOnly, Runs
<1>3. \/ ScrapeComplains(hook) = app["requirer"]
      \/ ScrapeComplains(hook).event \in SUBSET {"scrape_job_errors", "errors"}
  BY <1>1 DEF ScrapeComplains, ScrapeComplaints, ScrapeFaults
<1> QED
  BY <1>1, <1>2, <1>3 DEF HookRan, Written

\* What the library keeps of dashboards and publishes of them, and the counter beside it.
DashboardsKept(kept, bag) ==
    /\ (IF kept = Nothing THEN {} ELSE kept) \in SUBSET {"file", "garbled"}
    /\ Has(bag, {"uuid"}) => bag["uuid"] \in {0, 1}
    /\ Has(bag, {"dashboards"}) => bag["dashboards"] \in SUBSET {"file", "garbled", "corrupt"}

LEMMA DashboardsTyped ==
    ASSUME NothingIsApart, FrameOK, TypesInv, NEW hook,
           DashboardsProviderHook(hook) \/ DashboardsStep
    PROVE  DashboardsKept(stored'["provider"], app'["provider"])
<1>1. interface = "dashboards"
  BY Zenon DEF DashboardsProviderHook, DashboardsStep, DashboardsChange, DashboardsOfOtherMake
<1>2. /\ Known("provider") \in SUBSET {"file", "garbled"}
      /\ Has(app["provider"], {"uuid"}) => app["provider"]["uuid"] \in {0, 1}
      /\ Has(app["provider"], {"dashboards"}) =>
             app["provider"]["dashboards"] \in SUBSET {"file", "garbled", "corrupt"}
  BY <1>1 DEF TypesInv, DashboardsTypes
<1>3. \A dashboards : /\ Upset(dashboards)["uuid"] \in {0, 1}
                      /\ Upset(dashboards)["dashboards"] = dashboards
  BY <1>2 DEF Upset, Has
<1> DEFINE MayKeep(kept) == kept = stored["provider"] \/ kept \in SUBSET {"file", "garbled"}
           Publishable(dashboards) == dashboards \in SUBSET {"file", "garbled", "corrupt"}
           MayWrite(bag) == \/ bag = app["provider"]
                            \/ \E dashboards : Publishable(dashboards) /\ bag = Upset(dashboards)
<1>4. ASSUME NEW kept, MayKeep(kept), NEW bag, MayWrite(bag)
      PROVE  DashboardsKept(kept, bag)
  BY <1>2, <1>3, <1>4 DEF DashboardsKept, Known
<1>5. /\ MayKeep(stored["provider"]) /\ MayKeep(Known("provider"))
      /\ \A files \in DashboardFiles : MayKeep(Reloaded(files))
      /\ MayKeep(Known("provider") \cup {"garbled"}) /\ MayKeep(Known("provider") \cap {"file"})
  BY <1>2 DEF Reloaded, DashboardFiles, LoadDashboardsFromDir
<1>6. /\ MayWrite(app["provider"])
      /\ \A dashboards : Publishable(dashboards) =>
             MayWrite(Upset(dashboards)) /\ MayWrite(UpsetIfLeader(dashboards))
  BY Zenon DEF UpsetIfLeader
<1>7. /\ \A files \in DashboardFiles : Publishable(Reloaded(files))
      /\ Publishable(Known("provider")) /\ Publishable({"file", "corrupt"})
      /\ Publishable(Known("provider") \cup {"garbled"})
      /\ Publishable(Known("provider") \cap {"file"})
  BY <1>2 DEF Reloaded, DashboardFiles, LoadDashboardsFromDir
<1> HIDE DEF MayKeep, MayWrite, Publishable
<1>8. CASE DashboardsProviderHook(hook)
  <2>1. \E A, V : /\ HookRan("provider", "requirer", hook, A, unit["provider"], V)
                  /\ MayWrite(A) /\ MayKeep(V)
    BY Zenon, <1>5, <1>6, <1>7, <1>8, TheProvider
       DEF DashboardsProviderHook, DashboardsCreated, DashboardsProviderChanged, DashboardsElected,
           RunsOnly, Runs
  <2> QED
    BY <1>4, <2>1 DEF HookRan, Written
<1>9. CASE DashboardsStep
  <2>1. \E A, V : /\ Acted("provider", "requirer", A, unit["provider"], V)
                  /\ MayWrite(A) /\ MayKeep(V)
    BY Zenon, <1>5, <1>6, <1>7, <1>9, TheProvider
       DEF DashboardsStep, DashboardsChange, DashboardsOfOtherMake, AddDashboard,
           RemoveNonBuiltinDashboards, ReloadDashboards, UpdateDashboards, Publishes,
           PublishesStoring
  <2> QED
    BY <1>4, <2>1 DEF Acted, Written
<1> QED
  BY <1>8, <1>9

LEMMA WholeMoves ==
    ASSUME NothingIsApart, FrameOK, TypesInv, NEW hook
    PROVE  /\ MovesOfRequirer(hook) => AllWhole'
           /\ MovesOfProvider(hook) => AllWhole'
<1>1. RequirerWhole \/ ProviderWhole => AllWhole'
  BY Zenon, WholeAfter, TheSides DEF RequirerWhole, ProviderWhole, TypesInv
<1>2. MovesOfRequirer(hook) => RequirerWhole
  BY Zenon, RedisWhole, SamlWhole, S3Whole, IngressWhole, TracingWhole, DataWhole, LokiWhole,
     ScrapeWhole, DashboardsWhole DEF MovesOfRequirer, TypesInv
<1>3. MovesOfProvider(hook) => ProviderWhole
  BY Zenon, RedisWhole, SamlWhole, S3Whole, IngressWhole, TracingWhole, DataWhole, LokiWhole,
     ScrapeWhole, DashboardsWhole DEF MovesOfProvider, TypesInv
<1> QED
  BY Zenon, <1>1, <1>2, <1>3

LEMMA TypesStep ==
    ASSUME NothingIsApart, FrameOK, TypesInv, [Next]_relationVars
    PROVE  TypesInv'
<1>1. interface' = interface
  BY FrameStep
<1>2. CASE app' = app /\ unit' = unit /\ stored'["provider"] = stored["provider"]
  BY <1>1, <1>2 DEF TypesInv, AllWhole, Whole, S3Types, ScrapeTypes, DashboardsTypes, Known, Has
<1>3. CASE Made
  <2>1. /\ \A s \in Sides : app'[s] = NoData /\ unit'[s] = NoData
        /\ stored' = stored
    BY <1>3 DEF Made
  <2>2. NoData # Nothing /\ Whole(NoData) /\ DOMAIN NoData = {}
    BY FunctionsAreSomething, WholeBags, NoDataIsEmpty
  <2>3. AllWhole'
    BY <2>1, <2>2 DEF AllWhole, Whole
  <2> QED
    BY <1>1, <2>1, <2>2, <2>3, TheSides
       DEF TypesInv, S3Types, ScrapeTypes, DashboardsTypes, Known, Has
<1>4. CASE Juju
  BY <1>2, <1>3, <1>4, JujuFacts DEF Removed, Elected
<1>5. CASE LogContainerReplaced
  BY <1>2, <1>5, ReplacedFacts DEF LogContainerReplaced, Replaced
<1>6. CASE Next /\ ~ Juju /\ ~ LogContainerReplaced
  <2>1. AllWhole'
    <3>1. DataStep => AllWhole'
      BY DataWhole DEF TypesInv
    <3> QED
      BY Zenon, <1>6, <3>1, WhoMoves, WholeMoves
  <2>2. S3Types'
    <3> SUFFICES ASSUME interface = "s3"
                 PROVE  app'["requirer"] # Nothing
      BY <1>1 DEF S3Types
    <3>1. \/ S3Step \/ \E hook : S3ProviderHook(hook)
          \/ \E hook : S3RequirerHook(hook)
      BY <1>6, StepOfTheInterface DEF S3Hook, Flavours, LokiClients
    <3>2. S3Step \/ (\E hook : S3ProviderHook(hook)) => app'["requirer"] = app["requirer"]
      BY ProviderMovesAlone DEF MovesOfProvider
    <3> QED
      BY <3>1, <3>2, S3Typed DEF TypesInv, S3Types
  <2>3. ScrapeTypes'
    <3> SUFFICES ASSUME interface = "scrape"
                 PROVE  Has(app'["requirer"], {"event"}) =>
                            app'["requirer"]["event"] \in SUBSET {"scrape_job_errors", "errors"}
      BY <1>1 DEF ScrapeTypes, Has
    <3>1. \/ ScrapeStep \/ \E hook : ScrapeProviderHook(hook)
          \/ \E hook : ScrapeRequirerHook(hook)
      BY <1>6, StepOfTheInterface DEF ScrapeHook, Flavours, LokiClients
    <3>2. ScrapeStep \/ (\E hook : ScrapeProviderHook(hook)) => app'["requirer"] = app["requirer"]
      BY ProviderMovesAlone DEF MovesOfProvider
    <3> QED
      BY <3>1, <3>2, ScrapeTyped DEF TypesInv, ScrapeTypes
  <2>4. DashboardsTypes'
    <3> SUFFICES ASSUME interface = "dashboards"
                 PROVE  DashboardsKept(stored'["provider"], app'["provider"])
      BY <1>1 DEF DashboardsTypes, DashboardsKept, Known, Has
    <3>1. \/ DashboardsStep \/ \E hook : DashboardsProviderHook(hook)
          \/ \E hook : DashboardsRequirerHook(hook)
      BY <1>6, StepOfTheInterface DEF DashboardsHook, Flavours, LokiClients
    <3>2. (\E hook : DashboardsRequirerHook(hook)) =>
              app'["provider"] = app["provider"] /\ stored'["provider"] = stored["provider"]
      BY RequirerMovesAlone DEF MovesOfRequirer
    <3> QED
      BY <3>1, <3>2, DashboardsTyped DEF TypesInv, DashboardsTypes, DashboardsKept, Known
  <2> QED
    BY <2>1, <2>2, <2>3, <2>4 DEF TypesInv
<1>7. CASE UNCHANGED relationVars
  BY <1>2, <1>7 DEF relationVars, databags
<1> QED
  BY <1>4, <1>5, <1>6, <1>7

LEMMA TypesInvariant == ASSUME NothingIsApart PROVE Spec => []TypesInv
<1>1. RelationInit => TypesInv
  <2>1. NoData # Nothing /\ Whole(NoData) /\ DOMAIN NoData = {}
    BY FunctionsAreSomething, WholeBags, NoDataIsEmpty
  <2> QED
    BY <2>1, TheSides
       DEF RelationInit, TypesInv, AllWhole, S3Types, ScrapeTypes, DashboardsTypes, Known, Has
<1>2. FrameOK /\ TypesInv /\ [Next]_relationVars => TypesInv'
  BY TypesStep
<1> QED
  BY <1>1, <1>2, FrameInvariant, PTL DEF Spec

\* The databags are whole whatever is published, and whoever leads.
THEOREM TypesHold == ASSUME NothingIsApart PROVE Spec => []IntegrationsTypeOK
<1>1. FrameOK /\ TypesInv => IntegrationsTypeOK
  BY DEF FrameOK, TypesInv, AllWhole, Whole, IntegrationsTypeOK, Stages, DueHooks
<1> QED
  BY <1>1, FrameInvariant, TypesInvariant, PTL

(***************************************************************************)
(* The jobs that Prometheus scrapes are those that are published.  What is *)
(* made of a list of jobs is a list of lists, which are concatenated: the  *)
(* lemmas say of a concatenation that it holds what its parts hold.        *)
(***************************************************************************)
\* A sequence of the elements of a set, each once or more often.
IsListOf(seq, S) == seq \in Seq(S) /\ \A x \in S : \E i \in 1..Len(seq) : seq[i] = x

LEMMA ListsOfAFew ==
    ASSUME NEW x
    PROVE  IsListOf(SetToSeq({}), {}) /\ IsListOf(SetToSeq({x}), {x})
<1>1. Cardinality({}) = 0 /\ Cardinality({x}) = 1
  BY FS_EmptySet, FS_Singleton
<1>2. SetToSeq({}) \in [1..0 -> {}]
  <2>1. << >> \in [1..0 -> {}] /\ IsInjective(<< >>)
    BY DEF IsInjective
  <2> QED
    BY <1>1, <2>1 DEF SetToSeq
<1>3. SetToSeq({x}) \in [1..1 -> {x}]
  <2> DEFINE f == [i \in 1..1 |-> x]
  <2>1. f \in [1..1 -> {x}] /\ IsInjective(f)
    BY DEF IsInjective
  <2> HIDE DEF f
  <2> QED
    BY <1>1, <2>1 DEF SetToSeq
<1>4. SetToSeq({}) \in Seq({})
  BY <1>2, SeqDef
<1>5. SetToSeq({x}) \in Seq({x}) /\ Len(SetToSeq({x})) = 1 /\ SetToSeq({x})[1] = x
  <2>1. SetToSeq({x}) \in Seq({x})
    BY <1>3, SeqDef
  <2>2. DOMAIN SetToSeq({x}) = 1..1
    BY <1>3
  <2> QED
    BY <1>3, <2>1, <2>2
<1> QED
  BY <1>4, <1>5 DEF IsListOf

LEMMA ConcatenationLists ==
    ASSUME NEW s, NEW S, IsListOf(s, S), NEW t, NEW T, IsListOf(t, T)
    PROVE  IsListOf(s \o t, S \cup T)
<1>1. s \in Seq(S \cup T) /\ t \in Seq(S \cup T)
  BY SeqMonotonic DEF IsListOf
<1>2. /\ s \o t \in Seq(S \cup T)
      /\ Len(s \o t) = Len(s) + Len(t)
      /\ \A i \in 1..Len(s) + Len(t) : (s \o t)[i] = IF i =< Len(s) THEN s[i] ELSE t[i - Len(s)]
  BY <1>1, ConcatProperties
<1>3. Len(s) \in Nat /\ Len(t) \in Nat
  BY <1>1
<1>4. ASSUME NEW x \in S
      PROVE  \E i \in 1..Len(s \o t) : (s \o t)[i] = x
  <2>1. PICK i \in 1..Len(s) : s[i] = x
    BY <1>4 DEF IsListOf
  <2>2. i \in 1..Len(s) + Len(t) /\ i =< Len(s)
    BY <1>3
  <2> QED
    BY <1>2, <2>1, <2>2
<1>5. ASSUME NEW x \in T
      PROVE  \E i \in 1..Len(s \o t) : (s \o t)[i] = x
  <2>1. PICK i \in 1..Len(t) : t[i] = x
    BY <1>5 DEF IsListOf
  <2>2. Len(s) + i \in 1..Len(s) + Len(t) /\ ~ (Len(s) + i =< Len(s)) /\ (Len(s) + i) - Len(s) = i
    BY <1>3
  <2> QED
    BY <1>2, <2>1, <2>2
<1> QED
  BY <1>2, <1>4, <1>5 DEF IsListOf

(***************************************************************************)
(* FlattenSeq recurs on the length of what it is given.                    *)
(***************************************************************************)
Less == {pair \in Nat \X Nat : pair[1] < pair[2]}

\* Induction up to a bound, for a claim given as the set of the numbers it holds of.
LEMMA InductionUpTo ==
    ASSUME NEW n \in Nat, NEW S, 1 \in S,
           \A i \in 1..n : i < n /\ i \in S => i + 1 \in S
    PROVE  \A i \in 1..n : i \in S
<1> DEFINE F == {i \in 1..n : i \notin S}
<1>1. SUFFICES ASSUME F # {} PROVE FALSE
  OBVIOUS
<1>2. IsWellFoundedOn(Less, Nat)
  BY Zenon, NatLessThanWellFounded DEF OpToRel, Less
<1>3. F \subseteq Nat
  OBVIOUS
<1>4. PICK least \in F : \A m \in F : ~ (<<m, least>> \in Less)
  <2> HIDE DEF F
  <2> QED
    BY <1>1, <1>2, <1>3, WFMin
<1>5. least - 1 \in 1..n /\ least - 1 < n /\ (least - 1) + 1 = least
  OBVIOUS
<1>6. <<least - 1, least>> \in Less
  BY <1>5 DEF Less
<1>7. least - 1 \notin F
  <2> HIDE DEF F
  <2> QED
    BY <1>4, <1>6
<1> QED
  BY <1>5, <1>7

FlattenLoop(seqs, n, f) == f = [i \in 1..n |-> IF i = 1 THEN seqs[i] ELSE f[i - 1] \o seqs[i]]

LEMMA FlattenLoopExists ==
    ASSUME NEW seqs, NEW n \in Nat, n # 0
    PROVE  \E f : FlattenLoop(seqs, n, f)
<1> DEFINE S == {i \in 1..n : \E f : FlattenLoop(seqs, i, f)}
<1>1. 1 \in S
  <2> DEFINE f1 == [i \in 1..1 |-> seqs[i]]
  <2>1. FlattenLoop(seqs, 1, f1)
    BY DEF FlattenLoop
  <2> QED
    BY <2>1
<1>2. ASSUME NEW m \in 1..n, m < n, m \in S
      PROVE  m + 1 \in S
  <2>1. PICK f : FlattenLoop(seqs, m, f)
    BY <1>2
  <2> DEFINE step == f[m] \o seqs[m + 1]
             longer == [i \in 1..(m + 1) |-> IF i = m + 1 THEN step ELSE f[i]]
  <2>2. ASSUME NEW i \in 1..(m + 1)
        PROVE  longer[i] = IF i = 1 THEN seqs[i] ELSE longer[i - 1] \o seqs[i]
    <3>1. CASE i = m + 1
      <4>1. i # 1 /\ i - 1 = m /\ longer[m] = f[m]
        BY <3>1
      <4> QED
        BY <3>1, <4>1
    <3>2. CASE i # m + 1
      <4>1. i \in 1..m /\ (i # 1 => i - 1 \in 1..m /\ i - 1 # m + 1)
        BY <3>2
      <4>2. longer[i] = f[i] /\ (i # 1 => longer[i - 1] = f[i - 1])
        BY <4>1
      <4>3. f[i] = IF i = 1 THEN seqs[i] ELSE f[i - 1] \o seqs[i]
        BY <2>1, <4>1 DEF FlattenLoop
      <4> QED
        BY <4>2, <4>3
    <3> QED
      BY <3>1, <3>2
  <2>3. FlattenLoop(seqs, m + 1, longer)
    <3> HIDE DEF step
    <3> QED
      BY <2>2 DEF FlattenLoop
  <2>4. m + 1 \in 1..n
    BY <1>2
  <2> QED
    BY <2>3, <2>4
<1> HIDE DEF S
<1>3. n \in S
  BY <1>1, <1>2, InductionUpTo
<1> QED
  BY <1>3 DEF S

LEMMA FlattenSeqLists ==
    ASSUME NEW n \in Nat, NEW seqs, DOMAIN seqs = 1..n, seqs = [i \in 1..n |-> seqs[i]],
           NEW sets, \A i \in 1..n : IsListOf(seqs[i], sets[i])
    PROVE  IsListOf(FlattenSeq(seqs), UNION {sets[i] : i \in 1..n})
<1>1. Len(seqs) = n
  OBVIOUS
<1>2. CASE n = 0
  <2>1. FlattenSeq(seqs) = seqs
    BY <1>1, <1>2 DEF FlattenSeq
  <2>2. seqs \in Seq({}) /\ UNION {sets[i] : i \in 1..n} = {}
    BY <1>2
  <2> QED
    BY <2>1, <2>2 DEF IsListOf
<1>3. CASE n # 0
  <2> DEFINE flat == CHOOSE f :
                 f = [i \in 1..Len(seqs) |-> IF i = 1 THEN seqs[i] ELSE f[i - 1] \o seqs[i]]
             UpTo(k) == UNION {sets[i] : i \in 1..k}
             S == {k \in 1..n : IsListOf(flat[k], UpTo(k))}
  <2>1. FlattenSeq(seqs) = flat[Len(seqs)]
    BY Zenon, <1>1, <1>3 DEF FlattenSeq
  <2>2. \E f : FlattenLoop(seqs, Len(seqs), f)
    BY <1>1, <1>3, FlattenLoopExists
  <2>3. FlattenLoop(seqs, Len(seqs), flat)
    BY Zenon, <2>2 DEF FlattenLoop
  <2> HIDE DEF flat
  <2>4. flat[1] = seqs[1] /\ \A k \in 1..n : k # 1 => flat[k] = flat[k - 1] \o seqs[k]
    <3>1. flat = [i \in 1..n |-> IF i = 1 THEN seqs[i] ELSE flat[i - 1] \o seqs[i]]
      BY <1>1, <2>3 DEF FlattenLoop
    <3>2. ASSUME NEW k \in 1..n
          PROVE  flat[k] = IF k = 1 THEN seqs[k] ELSE flat[k - 1] \o seqs[k]
      BY Zenon, <3>1
    <3>3. 1 \in 1..n
      BY <1>3
    <3> QED
      BY <3>2, <3>3
  <2>5. 1 \in S
    <3>1. 1 \in 1..n /\ UpTo(1) = sets[1]
      BY <1>3
    <3> QED
      BY <2>4, <3>1
  <2>6. ASSUME NEW k \in 1..n, k < n, k \in S
        PROVE  k + 1 \in S
    <3>1. k + 1 \in 1..n /\ k + 1 # 1 /\ (k + 1) - 1 = k
      BY <2>6
    <3>2. flat[k + 1] = flat[k] \o seqs[k + 1]
      BY <2>4, <3>1
    <3>3. 1..(k + 1) = 1..k \cup {k + 1}
      OBVIOUS
    <3>4. UpTo(k + 1) = UpTo(k) \cup sets[k + 1]
      BY <3>3
    <3>5. IsListOf(flat[k], UpTo(k)) /\ IsListOf(seqs[k + 1], sets[k + 1])
      BY <2>6, <3>1
    <3> HIDE DEF UpTo
    <3>6. IsListOf(flat[k] \o seqs[k + 1], UpTo(k) \cup sets[k + 1])
      BY <3>5, ConcatenationLists
    <3> QED
      BY <3>1, <3>2, <3>4, <3>6
  <2> HIDE DEF S
  <2>7. n \in S
    BY <1>3, <2>5, <2>6, InductionUpTo
  <2> QED
    BY <1>1, <2>1, <2>7 DEF S
<1> QED
  BY <1>2, <1>3

(***************************************************************************)
(* The jobs of one that is published                                       *)
(***************************************************************************)
LEMMA RecordsAreJobs ==
    ASSUME NEW name, NEW targets, targets # {}
    PROVE  IsScrapeJob([name |-> name, targets |-> targets])
  BY DEF IsScrapeJob

LEMMA EmptyJobList == IsJobList(<< >>)
  BY EmptySeq DEF IsJobList

LEMMA PublishableJobLists ==
    ASSUME NEW jobs, IsJobList(jobs)
    PROVE  IsJobList(PublishableJobs(SanitizeScrapeConfigs(jobs)))
<1> DEFINE sanitized == SanitizeScrapeConfigs(jobs)
<1>1. PICK n \in Nat : DOMAIN jobs = 1..n
  <2>1. Len(jobs) \in Nat /\ DOMAIN jobs = 1..Len(jobs)
    BY LenProperties DEF IsJobList
  <2> QED
    BY <2>1
<1>2. DOMAIN sanitized = 1..n /\ sanitized \in [1..n -> {sanitized[i] : i \in DOMAIN sanitized}]
  BY <1>1 DEF SanitizeScrapeConfigs
<1>3. ASSUME NEW i \in 1..n
      PROVE  IsScrapeJob(sanitized[i])
  <2>1. IsScrapeJob(jobs[i])
    BY <1>1 DEF IsJobList
  <2>2. sanitized[i] = SanitizeScrapeConfig(jobs[i])
    BY <1>1 DEF SanitizeScrapeConfigs
  <2>3. SanitizeScrapeConfig(jobs[i])
          = [name |-> jobs[i].name,
             targets |-> IF jobs[i].targets = Nothing THEN {"*"} ELSE jobs[i].targets]
    BY <2>1 DEF SanitizeScrapeConfig, DefaultJob, IsScrapeJob
  <2> QED
    BY <2>1, <2>2, <2>3 DEF IsScrapeJob
<1>4. IsJobList(sanitized)
  <2> HIDE DEF sanitized
  <2>1. sanitized \in Seq({sanitized[i] : i \in DOMAIN sanitized})
    BY <1>2, SeqDef
  <2> QED
    BY <1>2, <1>3, <2>1 DEF IsJobList
<1>5. IsJobList(<<DefaultJob>>)
  <2>1. IsScrapeJob(DefaultJob)
    BY RecordsAreJobs DEF DefaultJob
  <2> DEFINE jobs1 == <<DefaultJob>>
  <2>2. DOMAIN jobs1 = 1..1 /\ jobs1[1] = DefaultJob /\ jobs1 \in Seq({DefaultJob})
    OBVIOUS
  <2>3. {jobs1[i] : i \in DOMAIN jobs1} = {DefaultJob}
    BY <2>2
  <2> HIDE DEF jobs1
  <2>4. IsJobList(jobs1)
    BY <2>1, <2>2, <2>3 DEF IsJobList
  <2> QED
    BY <2>4 DEF jobs1
<1> QED
  BY <1>4, <1>5 DEF PublishableJobs

Expanded(job, hosts) ==
    (IF "*" \in job.targets
     THEN {[name |-> Append(job.name, "0"), targets |-> {h}] : h \in hosts}
     ELSE {})
    \cup (IF job.targets \ {"*"} # {}
          THEN {[name |-> job.name, targets |-> job.targets \ {"*"}]}
          ELSE {})

LEMMA ExpandedJobs ==
    ASSUME NEW job, IsScrapeJob(job), NEW hosts, hosts = {} \/ \E h : hosts = {h}
    PROVE  LET prefixed == PrefixJobName(job)
           IN  /\ IsListOf(ExpandWildcards(prefixed, hosts), Expanded(prefixed, hosts))
               /\ \A j \in Expanded(prefixed, hosts) : IsScrapeJob(j)
               /\ UNION {j.targets : j \in Expanded(prefixed, hosts)}
                    = (job.targets \ {"*"}) \cup (IF "*" \in job.targets THEN hosts ELSE {})
<1> DEFINE prefixed == PrefixJobName(job)
           named == prefixed.targets \ {"*"}
           ofUnits == IF "*" \in prefixed.targets
                      THEN {[name |-> Append(prefixed.name, "0"), targets |-> {h}] : h \in hosts}
                      ELSE {}
           ofNamed == IF named # {} THEN {[prefixed EXCEPT !.targets = named]} ELSE {}
<1>1. prefixed = [name |-> prefixed.name, targets |-> job.targets] /\ prefixed.targets = job.targets
  BY DEF PrefixJobName, IsScrapeJob
<1>2. ExpandWildcards(prefixed, hosts) = SetToSeq(ofUnits) \o SetToSeq(ofNamed)
  BY DEF ExpandWildcards
<1> HIDE DEF prefixed
<1>3. [prefixed EXCEPT !.targets = named] = [name |-> prefixed.name, targets |-> named]
  BY <1>1
<1>4. IsListOf(SetToSeq(ofUnits), ofUnits)
  <2>1. ofUnits = {} \/ \E x : ofUnits = {x}
    <3>1. CASE hosts = {}
      BY <3>1
    <3>2. ASSUME NEW h, hosts = {h}
          PROVE  ofUnits = {} \/ ofUnits = {[name |-> Append(prefixed.name, "0"), targets |-> {h}]}
      BY <3>2
    <3> QED
      BY <3>1, <3>2
  <2> HIDE DEF ofUnits
  <2> QED
    BY <2>1, ListsOfAFew
<1>5. IsListOf(SetToSeq(ofNamed), ofNamed)
  <2>1. ofNamed = {} \/ \E x : ofNamed = {x}
    OBVIOUS
  <2> HIDE DEF ofNamed
  <2> QED
    BY <2>1, ListsOfAFew
<1>6. Expanded(prefixed, hosts) = ofUnits \cup ofNamed
  BY <1>3 DEF Expanded
<1>7. IsListOf(ExpandWildcards(prefixed, hosts), Expanded(prefixed, hosts))
  <2> HIDE DEF ofUnits, ofNamed
  <2> QED
    BY <1>2, <1>4, <1>5, <1>6, ConcatenationLists
<1>8. \A j \in Expanded(prefixed, hosts) : IsScrapeJob(j)
  <2>1. \A h : IsScrapeJob([name |-> Append(prefixed.name, "0"), targets |-> {h}])
    BY RecordsAreJobs
  <2>2. prefixed.targets \ {"*"} # {} =>
            IsScrapeJob([name |-> prefixed.name, targets |-> prefixed.targets \ {"*"}])
    BY RecordsAreJobs
  <2> QED
    BY <2>1, <2>2 DEF Expanded
<1>9. UNION {j.targets : j \in Expanded(prefixed, hosts)}
        = (job.targets \ {"*"}) \cup (IF "*" \in job.targets THEN hosts ELSE {})
  <2> DEFINE U == {[name |-> Append(prefixed.name, "0"), targets |-> {h}] : h \in hosts}
             N == {[name |-> prefixed.name, targets |-> job.targets \ {"*"}]}
  <2>1. UNION {j.targets : j \in U} = hosts
    <3>1. \A j \in U : \E h \in hosts : j.targets = {h}
      OBVIOUS
    <3>2. ASSUME NEW h \in hosts
          PROVE  \E j \in U : j.targets = {h}
      <4> DEFINE jobOf == [name |-> Append(prefixed.name, "0"), targets |-> {h}]
      <4>1. jobOf \in U /\ jobOf.targets = {h}
        OBVIOUS
      <4> QED
        BY <4>1
    <3> HIDE DEF U
    <3> QED
      BY <3>1, <3>2
  <2>2. UNION {j.targets : j \in N} = job.targets \ {"*"}
    OBVIOUS
  <2>3. Expanded(prefixed, hosts) = (IF "*" \in job.targets THEN U ELSE {})
                                    \cup (IF job.targets \ {"*"} # {} THEN N ELSE {})
    BY <1>1 DEF Expanded
  <2> HIDE DEF U, N
  <2> QED
    BY <2>1, <2>2, <2>3
<1> QED
  BY <1>7, <1>8, <1>9 DEF prefixed

(***************************************************************************)
(* Names that are shared are told apart                                    *)
(***************************************************************************)
LEMMA JobsAreToldApart ==
    ASSUME NEW S, NEW jobs \in Seq(S), \A j \in S : IsScrapeJob(j),
           NEW j \in DedupeJobNames(jobs), NEW k \in DedupeJobNames(jobs), j.name = k.name
    PROVE  j = k
<1> DEFINE Namesakes(i) == {m \in DOMAIN jobs : jobs[m].name = jobs[i].name}
           Hash(i) == IF Cardinality(Namesakes(i)) > 1 THEN jobs[i].targets ELSE {}
<1>1. PICK a \in DOMAIN jobs, b \in DOMAIN jobs : j = TellApart(jobs[a], jobs) /\ k = TellApart(jobs[b], jobs)
  BY DEF DedupeJobNames
<1>2. \A i \in DOMAIN jobs : IsScrapeJob(jobs[i])
  BY ElementOfSeq
<1>3. ASSUME NEW i \in DOMAIN jobs
      PROVE  TellApart(jobs[i], jobs)
               = [name |-> [plain |-> jobs[i].name, hash |-> Hash(i)], targets |-> jobs[i].targets]
  <2> DEFINE job == jobs[i]
  <2>1. job = [name |-> job.name, targets |-> job.targets]
    BY <1>2 DEF IsScrapeJob
  <2>2. Namesakes(i) = {m \in DOMAIN jobs : jobs[m].name = job.name}
    OBVIOUS
  <2>3. TellApart(job, jobs) = [job EXCEPT !.name = [plain |-> @, hash |-> Hash(i)]]
    BY <2>2 DEF TellApart, WithHash
  <2> HIDE DEF Hash, job
  <2>4. TellApart(job, jobs) = [name |-> [plain |-> job.name, hash |-> Hash(i)], targets |-> job.targets]
    BY <2>1, <2>3
  <2> QED
    BY <2>4 DEF job
<1>4. jobs[a].name = jobs[b].name /\ Hash(a) = Hash(b)
  <2>1. [plain |-> jobs[a].name, hash |-> Hash(a)] = [plain |-> jobs[b].name, hash |-> Hash(b)]
    <3> HIDE DEF Hash
    <3>1. j.name = [plain |-> jobs[a].name, hash |-> Hash(a)]
      BY <1>1, <1>3
    <3>2. k.name = [plain |-> jobs[b].name, hash |-> Hash(b)]
      BY <1>1, <1>3
    <3> QED
      BY <3>1, <3>2
  <2> HIDE DEF Hash
  <2> QED
    BY <2>1
<1>5. CASE a = b
  BY <1>1, <1>5
<1>6. CASE a # b
  <2>1. a \in Namesakes(a) /\ b \in Namesakes(a)
    BY <1>4
  <2>2. IsFiniteSet(Namesakes(a))
    <3>1. IsFiniteSet(1..Len(jobs)) /\ DOMAIN jobs = 1..Len(jobs)
      BY FS_Interval
    <3> QED
      BY <3>1, FS_Subset
  <2> DEFINE pair == {a} \cup {b}
  <2>3. Cardinality(pair) = 2
    <3>1. IsFiniteSet({a}) /\ Cardinality({a}) = 1
      BY FS_Singleton
    <3>2. Cardinality(pair) = Cardinality({a}) + 1
      BY <1>6, <3>1, FS_AddElement
    <3> HIDE DEF pair
    <3> QED
      BY <3>1, <3>2
  <2>4. Cardinality(Namesakes(a)) > 1
    <3>1. pair \subseteq Namesakes(a)
      BY <2>1
    <3> HIDE DEF Namesakes, pair
    <3>2. Cardinality(pair) =< Cardinality(Namesakes(a)) /\ Cardinality(Namesakes(a)) \in Nat
      BY <2>2, <3>1, FS_Subset, FS_CardinalityType
    <3> QED
      BY <2>3, <3>2
  <2>5. Namesakes(b) = Namesakes(a)
    BY <1>4
  <2>6. jobs[a].targets = jobs[b].targets
    BY <1>4, <2>4, <2>5
  <2> QED
    BY <1>1, <1>2, <1>4, <2>6 DEF IsScrapeJob
<1> QED
  BY <1>5, <1>6

LEMMA TargetsAreKept ==
    ASSUME NEW S, NEW jobs, IsListOf(jobs, S), \A j \in S : IsScrapeJob(j)
    PROVE  UNION {j.targets : j \in DedupeJobNames(jobs)} = UNION {j.targets : j \in S}
<1>1. jobs \in Seq(S) /\ DOMAIN jobs = 1..Len(jobs)
  BY DEF IsListOf
<1>2. ASSUME NEW i \in DOMAIN jobs
      PROVE  jobs[i] \in S /\ TellApart(jobs[i], jobs).targets = jobs[i].targets
  <2>1. jobs[i] \in S
    BY <1>1, ElementOfSeq
  <2>2. jobs[i] = [name |-> jobs[i].name, targets |-> jobs[i].targets]
    BY <2>1 DEF IsScrapeJob
  <2> QED
    BY <2>1, <2>2 DEF TellApart, WithHash
<1>3. ASSUME NEW x
      PROVE  (\E j \in DedupeJobNames(jobs) : x \in j.targets) <=> (\E j \in S : x \in j.targets)
  <2>1. ASSUME NEW j \in DedupeJobNames(jobs), x \in j.targets
        PROVE  \E k \in S : x \in k.targets
    <3>1. PICK i \in DOMAIN jobs : j = TellApart(jobs[i], jobs)
      BY DEF DedupeJobNames
    <3> QED
      BY <1>2, <2>1, <3>1
  <2>2. ASSUME NEW j \in S, x \in j.targets
        PROVE  \E k \in DedupeJobNames(jobs) : x \in k.targets
    <3>1. PICK i \in 1..Len(jobs) : jobs[i] = j
      BY DEF IsListOf
    <3>2. TellApart(jobs[i], jobs) \in DedupeJobNames(jobs)
      BY <1>1, <3>1 DEF DedupeJobNames
    <3> QED
      BY <1>1, <1>2, <2>2, <3>1, <3>2
  <2> QED
    BY <2>1, <2>2
<1> QED
  BY <1>3

LEMMA ScrapedJobs ==
    ASSUME NEW jobs, IsJobList(jobs), RelationHosts = {} \/ \E h : RelationHosts = {h}
    PROVE  LET scraped == StaticScrapeConfig(jobs)
               targets == UNION {jobs[i].targets : i \in DOMAIN jobs}
           IN  /\ \A j, k \in scraped : j.name = k.name => j = k
               /\ UNION {j.targets : j \in scraped}
                    = (targets \ {"*"}) \cup (IF "*" \in targets THEN RelationHosts ELSE {})
<1> DEFINE seqs == [i \in DOMAIN jobs |-> ExpandWildcards(PrefixJobName(jobs[i]), RelationHosts)]
           sets == [i \in DOMAIN jobs |-> Expanded(PrefixJobName(jobs[i]), RelationHosts)]
           all == UNION {sets[i] : i \in DOMAIN jobs}
           flat == FlattenSeq(seqs)
<1>1. PICK n \in Nat : DOMAIN jobs = 1..n
  <2>1. Len(jobs) \in Nat /\ DOMAIN jobs = 1..Len(jobs)
    BY LenProperties DEF IsJobList
  <2> QED
    BY <2>1
<1>2. ASSUME NEW i \in 1..n
      PROVE  /\ IsListOf(seqs[i], sets[i])
             /\ \A j \in sets[i] : IsScrapeJob(j)
             /\ UNION {j.targets : j \in sets[i]} = (jobs[i].targets \ {"*"})
                    \cup (IF "*" \in jobs[i].targets THEN RelationHosts ELSE {})
  <2>1. IsScrapeJob(jobs[i])
    BY <1>1 DEF IsJobList
  <2>2. seqs[i] = ExpandWildcards(PrefixJobName(jobs[i]), RelationHosts)
    BY <1>1
  <2>3. sets[i] = Expanded(PrefixJobName(jobs[i]), RelationHosts)
    BY <1>1
  <2> QED
    BY <2>1, <2>2, <2>3, ExpandedJobs
<1>3. StaticScrapeConfig(jobs) = DedupeJobNames(flat)
  BY DEF StaticScrapeConfig
<1>4. DOMAIN seqs = 1..n /\ seqs = [i \in 1..n |-> seqs[i]]
  BY <1>1
<1> HIDE DEF seqs, sets
<1>5. IsListOf(flat, all)
  <2>1. IsListOf(FlattenSeq(seqs), UNION {sets[i] : i \in 1..n})
    BY <1>2, <1>4, FlattenSeqLists
  <2> QED
    BY <1>1, <2>1
<1>6. \A j \in all : IsScrapeJob(j)
  BY <1>1, <1>2
<1>7. UNION {j.targets : j \in DedupeJobNames(flat)} = UNION {j.targets : j \in all}
  <2> HIDE DEF all, flat
  <2> QED
    BY <1>5, <1>6, TargetsAreKept
<1>8. \A j, k \in DedupeJobNames(flat) : j.name = k.name => j = k
  <2> HIDE DEF all, flat
  <2>1. flat \in Seq(all)
    BY <1>5 DEF IsListOf
  <2> QED
    BY <1>6, <2>1, JobsAreToldApart
<1> DEFINE targets == UNION {jobs[i].targets : i \in DOMAIN jobs}
<1>9. UNION {j.targets : j \in all}
        = (targets \ {"*"}) \cup (IF "*" \in targets THEN RelationHosts ELSE {})
  <2>1. ASSUME NEW x
        PROVE  (\E j \in all : x \in j.targets) <=>
                   \E i \in 1..n : \/ x \in jobs[i].targets \ {"*"}
                                   \/ "*" \in jobs[i].targets /\ x \in RelationHosts
    <3>1. (\E j \in all : x \in j.targets) <=>
              \E i \in 1..n : x \in UNION {j.targets : j \in sets[i]}
      BY <1>1
    <3> QED
      BY <1>2, <3>1
  <2> QED
    BY <1>1, <2>1
<1> QED
  BY <1>3, <1>7, <1>8, <1>9

(***************************************************************************)
(* What the charm of the requirer knows of the jobs, whatever was published *)
(* since                                                                   *)
(***************************************************************************)
\* What the charm of the requirer knows is made of the jobs that are published, unless a hook
\* will come.
JobsKnown ==
    stage["requirer"] = "joined" /\ due["requirer"] \cap {"app", "unit"} = {} =>
        told["requirer"] # Nothing /\ told["requirer"].jobs = JobsUsed("app")

JobsPublished ==
    Has(app["provider"], {"scrape_jobs"}) => IsJobList(app["provider"].scrape_jobs)

ScrapeInv == interface = "scrape" => JobsKnown /\ JobsPublished

LEMMA PublishesJobLists ==
    ASSUME JobsPublished, NEW jobs \in ScrapeJobLists, NEW rules,
           app'["provider"] = SetScrapeJobSpec(jobs, rules)
    PROVE  JobsPublished'
<1> DEFINE list == PublishableJobs(SanitizeScrapeConfigs(jobs))
<1>1. IsJobList(list)
  BY ScrapeAssumption, PublishableJobLists
<1> HIDE DEF list
<1>2. CASE leader["provider"]
  <2>1. app'["provider"] = [scrape_jobs |-> list, alert_rules |-> rules]
    BY <1>2 DEF SetScrapeJobSpec, list
  <2> QED
    BY <1>1, <2>1 DEF JobsPublished
<1>3. CASE ~ leader["provider"]
  <2>1. app'["provider"] = app["provider"]
    BY <1>3 DEF SetScrapeJobSpec
  <2> QED
    BY <2>1 DEF JobsPublished, Has
<1> QED
  BY <1>2, <1>3

LEMMA ScrapeStays ==
    ASSUME ScrapeInv, interface = "scrape", stage'["requirer"] = stage["requirer"],
           told'["requirer"] = told["requirer"],
           app'["provider"] = app["provider"], unit'["provider"] = unit["provider"],
           \A h \in {"app", "unit"} : h \in due["requirer"] => h \in due'["requirer"]
    PROVE  JobsKnown' /\ JobsPublished'
<1>1. JobsUsed("app")' = JobsUsed("app")
  BY DEF JobsUsed, PublishedJobs, SeesUnit, Has, StaticScrapeConfig, RelationHosts
<1> QED
  BY <1>1 DEF ScrapeInv, JobsKnown, JobsPublished, Has

LEMMA ScrapeRequirerKnows ==
    ASSUME NothingIsApart, FrameOK, ScrapeInv, NEW hook, ScrapeRequirerHook(hook)
    PROVE  JobsKnown' /\ JobsPublished'
<1>1. PICK A, U, V : HookRan("requirer", "provider", hook, A, U, V)
  BY Zenon, TheRequirer
     DEF ScrapeRequirerHook, ScrapeRequirerChanged, ScrapeRequirerDeparted, RunsOnly, Runs
<1>2. app'["provider"] = app["provider"] /\ unit'["provider"] = unit["provider"]
  BY <1>1 DEF HookRan, Written
<1>3. interface = "scrape"
  BY DEF ScrapeRequirerHook
<1>4. JobsPublished'
  BY <1>2, <1>3 DEF ScrapeInv, JobsPublished, Has
<1>5. CASE hook \in {"app", "unit"}
  <2>1. stage["requirer"] = stage'["requirer"]
    BY <1>1, <1>5, StagesOfHooks
  <2> SUFFICES ASSUME stage["requirer"] = "joined"
               PROVE  told'["requirer"] # Nothing /\ told'["requirer"].jobs = JobsUsed("app")'
    BY <1>4, <2>1 DEF JobsKnown
  <2>2. TargetsChanged(hook)
    BY <1>5 DEF ScrapeRequirerHook, ScrapeRequirerChanged
  <2>3. told'["requirer"] = [jobs |-> JobsUsed(hook), rules |-> RulesUsed(hook)]
    BY Zenon, <2>2, TheRequirer DEF TargetsChanged, TellsOf, Heard
  <2>4. PublishedJobs(hook) = PublishedJobs("app")
    BY <1>5 DEF PublishedJobs, SeesUnit
  <2>5. JobsUsed(hook) = JobsUsed("app")
    BY <2>4 DEF JobsUsed
  <2>6. JobsUsed("app")' = JobsUsed("app")
    BY <1>2, <2>1 DEF JobsUsed, PublishedJobs, SeesUnit, Has, StaticScrapeConfig, RelationHosts
  <2>7. told'["requirer"] # Nothing
    BY <2>3, RecordsAreSomething
  <2> QED
    BY <2>3, <2>5, <2>6, <2>7
<1>6. CASE hook \in {"joined", "departed", "broken"}
  BY <1>1, <1>4, <1>6, StagesOfHooks DEF JobsKnown, HookRan
<1>7. CASE hook \in {"created", "elected"}
  <2>1. told' = told
    BY <1>7 DEF ScrapeRequirerHook, Silent
  <2>2. stage'["requirer"] = "joined" => stage["requirer"] = "joined"
    BY <1>1, <1>7, StagesOfHooks
  <2>3. CASE stage["requirer"] = "joined" /\ stage'["requirer"] = "joined"
    BY <1>1, <1>2, <1>3, <1>7, <2>1, <2>3, ScrapeStays DEF HookRan
  <2> QED
    BY <1>4, <2>2, <2>3 DEF JobsKnown
<1> QED
  BY <1>5, <1>6, <1>7 DEF ScrapeRequirerHook

LEMMA ScrapeProviderWakes ==
    ASSUME FrameOK, ScrapeInv, NEW hook, ScrapeProviderHook(hook) \/ UpdateScrapeJobSpec
    PROVE  JobsKnown' /\ JobsPublished'
<1>1. interface = "scrape"
  BY DEF ScrapeProviderHook, UpdateScrapeJobSpec
<1>2. ProviderWakes
  <2>1. MovesOfProvider(hook)
    BY Zenon DEF MovesOfProvider, ScrapeStep
  <2> QED
    BY <2>1, ProvidersWake
<1>3. JobsPublished'
  <2>1. CASE app'["provider"] = app["provider"]
    BY <1>1, <2>1 DEF ScrapeInv, JobsPublished, Has
  <2>2. ASSUME NEW jobs \in ScrapeJobLists, NEW rules, app'["provider"] = SetScrapeJobSpec(jobs, rules)
        PROVE  JobsPublished'
    BY <1>1, <2>2, PublishesJobLists DEF ScrapeInv
  <2>3. \/ app'["provider"] = app["provider"]
        \/ \E jobs \in ScrapeJobLists, rules \in ScrapeRules :
               app'["provider"] = SetScrapeJobSpec(jobs, rules)
    <3>1. CASE ScrapeProviderJoined
      <4>1. PICK jobs \in ScrapeJobLists, rules \in ScrapeRules, data \in ScrapeUnitData :
                Runs("provider", "joined", SetScrapeJobSpec(jobs, rules), data)
        BY <3>1 DEF ScrapeProviderJoined
      <4>2. PICK V : HookRan("provider", "requirer", "joined", SetScrapeJobSpec(jobs, rules), data, V)
        BY Zenon, <4>1, TheProvider DEF Runs
      <4> QED
        BY <4>2 DEF HookRan, Written
    <3>2. CASE UpdateScrapeJobSpec
      <4>1. PICK jobs \in ScrapeJobLists, rules \in ScrapeRules, data \in ScrapeUnitData :
                Acts("provider", SetScrapeJobSpec(jobs, rules), data, stored["provider"])
        BY <3>2 DEF UpdateScrapeJobSpec
      <4>2. Acted("provider", "requirer", SetScrapeJobSpec(jobs, rules), data, stored["provider"])
        BY Zenon, <4>1, TheProvider
      <4> QED
        BY <4>2 DEF Acted, Written
    <3>3. CASE \E h : RunsOnly("provider", h)
      <4>1. PICK h, U, V : HookRan("provider", "requirer", h, app["provider"], U, V)
        BY Zenon, <3>3, TheProvider DEF RunsOnly, Runs
      <4> QED
        BY <4>1 DEF HookRan, Written
    <3> QED
      BY Zenon, <3>1, <3>2, <3>3 DEF ScrapeProviderHook, ScrapeProviderChanged
  <2> QED
    BY <2>1, <2>2, <2>3
<1>4. CASE app'["provider"] = app["provider"] /\ unit'["provider"] = unit["provider"]
  BY <1>1, <1>2, <1>4, ScrapeStays DEF ProviderWakes
<1>5. CASE "app" \in due'["requirer"] \/ "unit" \in due'["requirer"]
  BY <1>3, <1>5 DEF JobsKnown
<1> QED
  BY <1>2, <1>4, <1>5 DEF ProviderWakes

LEMMA ScrapeStepKnown ==
    ASSUME NothingIsApart, FrameOK, ScrapeInv, [Next]_relationVars
    PROVE  ScrapeInv'
<1>1. interface' = interface
  BY FrameStep
<1> SUFFICES ASSUME interface = "scrape"
             PROVE  JobsKnown' /\ JobsPublished'
  BY <1>1 DEF ScrapeInv
<1>2. CASE UNCHANGED relationVars
  BY <1>2, ScrapeStays DEF relationVars, databags, heard
<1>3. CASE Juju
  <2>1. CASE Made
    BY <2>1, TheSides, NoDataIsEmpty DEF Made, JobsKnown, JobsPublished, Has
  <2>2. CASE Removed
    <3>1. CASE stage["requirer"] = "new"
      BY <2>2, <3>1, TheSides DEF Removed, JobsKnown, ScrapeInv, JobsPublished, Has
    <3>2. CASE stage["requirer"] # "new"
      BY <2>2, <3>2, TheSides, ScrapeStays DEF Removed
    <3> QED
      BY <3>1, <3>2
  <2>3. CASE Elected
    BY <2>3, TheSides, ScrapeStays DEF Elected
  <2> QED
    BY <1>3, <2>1, <2>2, <2>3, JujuFacts
<1>4. ASSUME Next
      PROVE  \/ Juju \/ UpdateScrapeJobSpec
             \/ \E hook : ScrapeRequirerHook(hook) \/ ScrapeProviderHook(hook)
  BY <1>4, StepOfTheInterface DEF ScrapeHook, ScrapeStep, Flavours, LokiClients
<1> QED
  BY <1>2, <1>3, <1>4, ScrapeRequirerKnows, ScrapeProviderWakes

LEMMA ScrapeInvariant == ASSUME NothingIsApart PROVE Spec => []ScrapeInv
<1>1. RelationInit => ScrapeInv
  BY TheSides, NoDataIsEmpty DEF RelationInit, ScrapeInv, JobsKnown, JobsPublished, Has
<1>2. FrameOK /\ ScrapeInv /\ [Next]_relationVars => ScrapeInv'
  BY ScrapeStepKnown
<1> QED
  BY <1>1, <1>2, FrameInvariant, PTL DEF Spec

\* Whatever jobs the charm asks for, those that are scraped have the targets it named, and no
\* two of them share a name.
THEOREM JobsAreScrapedAsPublished == ASSUME NothingIsApart PROVE Spec => []ScrapedAsPublished
<1>1. ScrapeInv => ScrapedAsPublished
  <2> DEFINE jobs == told["requirer"].jobs
             published == PublishedJobs("app")
             targets == UNION {published[i].targets : i \in DOMAIN published}
  <2> SUFFICES ASSUME ScrapeInv, interface = "scrape", Settled("requirer")
               PROVE  /\ told["requirer"] # Nothing
                      /\ \A j, k \in jobs : j.name = k.name => j = k
                      /\ UNION {j.targets : j \in jobs} =
                             IF HasBadJob(published) THEN {}
                             ELSE (targets \ {"*"})
                                  \cup (IF "*" \in targets THEN RelationHosts ELSE {})
    BY DEF ScrapedAsPublished
  <2>1. told["requirer"] # Nothing /\ jobs = JobsUsed("app")
    BY DEF ScrapeInv, JobsKnown, Settled
  <2>2. CASE HasBadJob(published)
    <3>1. jobs = {}
      BY <2>1, <2>2 DEF JobsUsed
    <3> QED
      BY <2>1, <2>2, <3>1
  <2>3. CASE ~ HasBadJob(published)
    <3>1. jobs = StaticScrapeConfig(published)
      BY <2>1, <2>3 DEF JobsUsed
    <3>2. IsJobList(published)
      BY EmptyJobList DEF ScrapeInv, JobsPublished, PublishedJobs
    <3>3. RelationHosts = {} \/ \E h : RelationHosts = {h}
      BY DEF RelationHosts
    <3> HIDE DEF published
    <3>4. /\ \A j, k \in StaticScrapeConfig(published) : j.name = k.name => j = k
          /\ UNION {j.targets : j \in StaticScrapeConfig(published)}
               = (targets \ {"*"}) \cup (IF "*" \in targets THEN RelationHosts ELSE {})
      BY <3>2, <3>3, ScrapedJobs
    <3> QED
      BY <2>1, <2>3, <3>1, <3>4
  <2> QED
    BY <2>2, <2>3
<1> QED
  BY <1>1, ScrapeInvariant, PTL

(***************************************************************************)
(* What the requirer knows is what was published last.  Each interface has *)
(* an invariant of its own: what is known once no change is pending, which *)
(* is weaker than to have run all hooks, so that it holds between them.    *)
(***************************************************************************)
Informed == stage["requirer"] = "joined" /\ due["requirer"] \cap {"app", "unit"} = {}
ReadsNow == told["requirer"] = Reading("requirer")

LEMMA TheReading ==
    /\ Reading("requirer") = [app |-> app["provider"], unit |-> unit["provider"]]
    /\ Reading("requirer")' = [app |-> app'["provider"], unit |-> unit'["provider"]]
    /\ Reading("requirer").app = app["provider"] /\ Reading("requirer").unit = unit["provider"]
    /\ NothingIsApart => Reading("requirer") # Nothing /\ Reading("requirer")' # Nothing
  BY TheSides, RecordsAreSomething DEF Reading

\* After a hook of the requirer that is none of a change, it is informed when it was before.
LEMMA RequirerRuns ==
    ASSUME FrameOK, NEW hook, NEW A, NEW U, NEW V,
           HookRan("requirer", "provider", hook, A, U, V)
    PROVE  /\ interface' = interface /\ dying' = dying /\ led' = led /\ leader' = leader
           /\ stage'["provider"] = stage["provider"]
           /\ app'["provider"] = app["provider"] /\ unit'["provider"] = unit["provider"]
           /\ stored'["provider"] = stored["provider"] /\ stored'["requirer"] = V
           /\ Reading("requirer")' = Reading("requirer")
           /\ Informed' => /\ stage["requirer"] = "joined"
                           /\ hook \notin {"created", "joined", "departed", "broken"}
                           /\ hook \notin {"app", "unit"} => Informed
<1>1. /\ app'["provider"] = app["provider"] /\ unit'["provider"] = unit["provider"]
      /\ "unit" \in due["requirer"] /\ hook # "unit" => "unit" \in due'["requirer"]
      /\ "app" \in due["requirer"] /\ hook # "app" => "app" \in due'["requirer"]
      /\ hook = "joined" => "unit" \in due'["requirer"]
  BY DEF HookRan, Written
<1>2. Reading("requirer")' = Reading("requirer")
  BY <1>1, TheReading
<1>3. ASSUME Informed'
      PROVE  /\ stage["requirer"] = "joined"
             /\ hook \notin {"created", "joined", "departed", "broken"}
             /\ hook \notin {"app", "unit"} => Informed
  <2>1. stage'["requirer"] = "joined" /\ hook # "joined"
    BY <1>1, <1>3 DEF Informed
  <2>2. hook \notin {"created", "departed", "broken"}
    BY <2>1, StagesOfHooks
  <2>3. stage["requirer"] = "joined"
    BY <2>1, <2>2 DEF HookRan
  <2> QED
    BY <1>1, <1>3, <2>1, <2>2, <2>3 DEF Informed
<1> QED
  BY <1>1, <1>2, <1>3 DEF HookRan

\* What the provider does leaves the requirer as informed as it was, or wakes it.
LEMMA ProviderRuns ==
    ASSUME ProviderWakes, Informed'
    PROVE  /\ Informed
           /\ app'["provider"] = app["provider"] /\ unit'["provider"] = unit["provider"]
           /\ told'["requirer"] = told["requirer"] /\ stored'["requirer"] = stored["requirer"]
           /\ led' = led
           /\ Reading("requirer")' = Reading("requirer")
  BY TheReading DEF ProviderWakes, Informed

(***************************************************************************)
(* Redis                                                                   *)
(***************************************************************************)
\* Only a change of the unit's databag is heard.
RedisKnown ==
    stage["requirer"] = "joined" /\ "unit" \notin due["requirer"] =>
        \E a : told["requirer"] = [app |-> a, unit |-> unit["provider"]]

LEMMA RedisRequirerKnows ==
    ASSUME FrameOK, RedisKnown, NEW hook, RedisRequirerHook(hook)
    PROVE  RedisKnown'
<1>1. HookRan("requirer", "provider", hook, app["requirer"], unit["requirer"], stored["requirer"])
  BY Zenon, TheRequirer DEF RedisRequirerHook, RunsOnly, Runs
<1>2. /\ unit'["provider"] = unit["provider"] /\ app'["provider"] = app["provider"]
      /\ "unit" \in due["requirer"] /\ hook # "unit" => "unit" \in due'["requirer"]
      /\ hook = "joined" => "unit" \in due'["requirer"]
  BY <1>1 DEF HookRan, Written
<1>3. CASE hook = "joined"
  BY <1>2, <1>3 DEF RedisKnown
<1>4. CASE hook = "unit"
  <2>1. told'["requirer"] = Reading("requirer")
    BY Zenon, <1>4, TheRequirer DEF RedisRequirerHook, Tells, TellsOf, Heard
  <2> QED
    BY <1>2, <2>1, TheReading DEF RedisKnown
<1>5. CASE hook \in {"created", "departed", "broken"}
  BY <1>1, <1>5, StagesOfHooks DEF RedisKnown
<1>6. CASE hook \in {"app", "elected"}
  <2>1. told' = told
    BY <1>6 DEF RedisRequirerHook, Silent
  <2>2. stage'["requirer"] = stage["requirer"]
    BY <1>1, <1>6, StagesOfHooks
  <2> QED
    BY <1>2, <1>6, <2>1, <2>2 DEF RedisKnown
<1> QED
  BY <1>3, <1>4, <1>5, <1>6 DEF RedisRequirerHook

LEMMA RedisProviderKeeps ==
    ASSUME RedisKnown, ProviderWakes
    PROVE  RedisKnown'
  BY DEF RedisKnown, ProviderWakes

(***************************************************************************)
(* SAML                                                                    *)
(***************************************************************************)
SamlGiven(given, bag) ==
    /\ "entity_id" \in DOMAIN bag /\ bag["entity_id"] = given.entity_id
    /\ given.metadata_url # Nothing =>
           "metadata_url" \in DOMAIN bag /\ bag["metadata_url"] = given.metadata_url
    /\ given.url # Nothing => "redirect_url" \in DOMAIN bag /\ bag["redirect_url"] = given.url

SamlKnown ==
    /\ Informed /\ app["provider"] # NoData => ReadsNow
    /\ app["provider"] = NoData => told["requirer"] = Nothing
    /\ stage["provider"] \in {"none", "new"} => stored["provider"] = Nothing
    /\ stored["provider"] # Nothing => SamlGiven(stored["provider"], app["provider"])

LEMMA SamlRequirerKnows ==
    ASSUME FrameOK, SamlKnown, NEW hook, SamlRequirerHook(hook)
    PROVE  SamlKnown'
<1>1. HookRan("requirer", "provider", hook, app["requirer"], unit["requirer"], stored["requirer"])
  BY Zenon, TheRequirer DEF SamlRequirerHook, RunsOnly, Runs
<1>2. CASE hook \in {"app", "unit"} /\ app["provider"] # NoData
  <2>1. told'["requirer"] = Reading("requirer")
    BY Zenon, <1>2, TheRequirer DEF SamlRequirerHook, SamlDataAvailable, Tells, TellsOf, Heard
  <2> QED
    BY <1>1, <1>2, <2>1, RequirerRuns DEF SamlKnown, ReadsNow
<1>3. CASE ~ (hook \in {"app", "unit"} /\ app["provider"] # NoData)
  <2>1. told' = told
    BY <1>3 DEF SamlRequirerHook, Silent
  <2> QED
    BY <1>1, <1>3, <2>1, RequirerRuns DEF SamlKnown, ReadsNow
<1> QED
  BY <1>2, <1>3

LEMMA SamlIsGiven ==
    ASSUME NEW bag, NEW data \in SamlRelationData
    PROVE  /\ SamlGiven(data, Updated(bag, SamlToRelationData(data)))
           /\ Updated(bag, SamlToRelationData(data)) # NoData
<1> DEFINE entity == Entry("entity_id", data.entity_id)
           metadata == IF data.metadata_url # Nothing
                       THEN Entry("metadata_url", data.metadata_url) ELSE NoData
           endpoint == SamlEndpointToRelationData(data.url)
           given == SamlToRelationData(data)
<1>1. DOMAIN entity = {"entity_id"} /\ entity["entity_id"] = data.entity_id
  BY EntryIs
<1>2. /\ DOMAIN metadata \subseteq {"metadata_url"}
      /\ data.metadata_url # Nothing =>
             "metadata_url" \in DOMAIN metadata /\ metadata["metadata_url"] = data.metadata_url
  BY EntryIs, NoDataIsEmpty
<1>3. /\ DOMAIN endpoint \subseteq {"redirect_url"}
      /\ data.url # Nothing =>
             "redirect_url" \in DOMAIN endpoint /\ endpoint["redirect_url"] = data.url
  <2>1. CASE data.url # Nothing
    <3>1. /\ DOMAIN Entry("redirect_url", data.url) = {"redirect_url"}
          /\ Entry("redirect_url", data.url)["redirect_url"] = data.url
      BY EntryIs
    <3>2. endpoint = Entry("redirect_url", data.url)
      BY Zenon, <2>1 DEF SamlEndpointToRelationData
    <3> HIDE DEF endpoint
    <3> QED
      BY <2>1, <3>1, <3>2
  <2>2. CASE data.url = Nothing
    BY <2>2, NoDataIsEmpty DEF SamlEndpointToRelationData
  <2> QED
    BY <2>1, <2>2
<1>4. given = Updated(Updated(entity, metadata), endpoint)
  BY Zenon DEF SamlToRelationData
<1> HIDE DEF entity, metadata, endpoint, given
<1>5. /\ DOMAIN Updated(entity, metadata) = DOMAIN entity \cup DOMAIN metadata
      /\ Updated(entity, metadata)["entity_id"] = data.entity_id
      /\ \A k \in DOMAIN metadata : Updated(entity, metadata)[k] = metadata[k]
  BY <1>1, <1>2, UpdatedIs
<1>6. /\ DOMAIN given = DOMAIN entity \cup DOMAIN metadata \cup DOMAIN endpoint
      /\ given["entity_id"] = data.entity_id
      /\ \A k \in DOMAIN metadata : given[k] = metadata[k]
      /\ \A k \in DOMAIN endpoint : given[k] = endpoint[k]
  <2> DEFINE first == Updated(entity, metadata)
  <2>1. /\ DOMAIN given = DOMAIN first \cup DOMAIN endpoint
        /\ \A k \in DOMAIN endpoint : given[k] = endpoint[k]
        /\ \A k \in DOMAIN first \ DOMAIN endpoint : given[k] = first[k]
    <3>1. given = Updated(first, endpoint)
      BY <1>4
    <3> HIDE DEF first
    <3>2. /\ DOMAIN Updated(first, endpoint) = DOMAIN first \cup DOMAIN endpoint
          /\ \A k \in DOMAIN endpoint : Updated(first, endpoint)[k] = endpoint[k]
          /\ \A k \in DOMAIN first \ DOMAIN endpoint : Updated(first, endpoint)[k] = first[k]
      BY UpdatedIs
    <3> QED
      BY <3>1, <3>2
  <2>2. /\ DOMAIN first = DOMAIN entity \cup DOMAIN metadata
        /\ first["entity_id"] = data.entity_id
        /\ \A k \in DOMAIN metadata : first[k] = metadata[k]
    BY <1>5
  <2> HIDE DEF first
  <2>3. "entity_id" \in DOMAIN first \ DOMAIN endpoint
    BY <1>1, <1>3, <2>2
  <2>4. \A k \in DOMAIN metadata : k \in DOMAIN first \ DOMAIN endpoint
    BY <1>2, <1>3, <2>2
  <2> QED
    BY <2>1, <2>2, <2>3, <2>4
<1>7. SamlGiven(data, Updated(bag, given))
  <2> DEFINE after == Updated(bag, given)
  <2>1. /\ DOMAIN after = DOMAIN bag \cup DOMAIN given
        /\ \A k \in DOMAIN given : after[k] = given[k]
    BY Zenon, UpdatedIs
  <2> HIDE DEF after
  <2>2. \A k \in DOMAIN given : k \in DOMAIN after
    BY <2>1
  <2>3. "entity_id" \in DOMAIN given
    BY <1>1, <1>6
  <2>4. data.metadata_url # Nothing =>
            "metadata_url" \in DOMAIN given /\ given["metadata_url"] = data.metadata_url
    BY <1>2, <1>6
  <2>5. data.url # Nothing => "redirect_url" \in DOMAIN given /\ given["redirect_url"] = data.url
    BY <1>3, <1>6
  <2>6. SamlGiven(data, after)
    BY <1>6, <2>1, <2>2, <2>3, <2>4, <2>5 DEF SamlGiven
  <2> QED
    BY <2>6 DEF after
<1>8. Updated(bag, given) # NoData
  <2>1. "entity_id" \in DOMAIN Updated(bag, given)
    BY <1>7 DEF SamlGiven
  <2> QED
    BY <2>1, NoDataIsEmpty
<1> QED
  BY <1>7, <1>8 DEF given

LEMMA SamlProviderGives ==
    ASSUME FrameOK, SamlKnown, ProviderWakes, NEW hook, SamlProviderHook(hook) \/ SamlStep
    PROVE  SamlKnown'
<1>1. Informed' /\ app'["provider"] # NoData => ReadsNow'
  BY ProviderRuns DEF SamlKnown, ReadsNow
<1>2. told'["requirer"] = told["requirer"]
  BY DEF ProviderWakes
<1>3. ASSUME NEW data \in SamlRelationData,
             PublishesStoring("provider", Updated(app["provider"], SamlToRelationData(data)), data)
      PROVE  SamlKnown'
  <2>1. Acted("provider", "requirer", Updated(app["provider"], SamlToRelationData(data)),
              unit["provider"], data)
    BY Zenon, <1>3, TheProvider DEF PublishesStoring
  <2>2. /\ app'["provider"] = Updated(app["provider"], SamlToRelationData(data))
        /\ stored'["provider"] = data /\ stage'["provider"] \in {"created", "joined"}
    BY <2>1 DEF Acted, Written
  <2> QED
    BY <1>1, <1>2, <2>2, SamlIsGiven DEF SamlKnown
<1>4. CASE SamlProviderHook(hook)
  <2>1. HookRan("provider", "requirer", hook, app["provider"], unit["provider"],
                IF hook = "broken" THEN Nothing ELSE stored["provider"])
    BY Zenon, <1>4, TheProvider DEF SamlProviderHook
  <2>2. /\ app'["provider"] = app["provider"]
        /\ stored'["provider"] = IF hook = "broken" THEN Nothing ELSE stored["provider"]
    BY <2>1 DEF HookRan, Written
  <2>3. stage'["provider"] \in {"none", "new"} =>
            hook = "broken" \/ stage["provider"] \in {"none", "new"}
    BY <2>1 DEF HookRan
  <2> QED
    BY <1>1, <1>2, <2>2, <2>3 DEF SamlKnown
<1>5. CASE SamlStep
  BY Zenon, <1>3, <1>5 DEF SamlStep, SamlUpdateRelationData
<1> QED
  BY <1>4, <1>5

(***************************************************************************)
(* S3                                                                      *)
(***************************************************************************)
S3Known ==
    /\ Informed /\ Has(app["provider"], S3RequiredOptions) => ReadsNow
    /\ ~ Has(app["provider"], S3RequiredOptions) => told["requirer"] = Nothing

LEMMA S3RequirerKnows ==
    ASSUME FrameOK, S3Known, NEW hook, S3RequirerHook(hook)
    PROVE  S3Known'
<1> DEFINE has == Has(app["provider"], S3RequiredOptions)
<1>1. PICK A, U, V : HookRan("requirer", "provider", hook, A, U, V)
  BY Zenon, TheRequirer DEF S3RequirerHook, S3Joined, S3Changed, S3Broken, RunsOnly, Runs
<1>2. has' <=> has
  BY <1>1, RequirerRuns DEF Has
<1> HIDE DEF has
<1>3. CASE hook \in {"app", "unit"}
  <2>1. IF has THEN S3CredentialsChanged ELSE Silent
    BY Zenon, <1>3 DEF S3RequirerHook, S3Changed, has
  <2>2. has => told'["requirer"] = Reading("requirer")
    BY Zenon, <2>1, TheRequirer DEF S3CredentialsChanged, Tells, TellsOf, Heard
  <2>3. ~ has => told' = told
    BY <2>1 DEF Silent
  <2> QED
    BY <1>1, <1>2, <1>3, <2>2, <2>3, RequirerRuns DEF S3Known, ReadsNow, has
<1>4. CASE hook = "broken"
  <2>1. told'["requirer"] = Nothing
    BY Zenon, <1>4, TheRequirer DEF S3RequirerHook, S3Broken, TellsGone, TellsOf, Heard
  <2> QED
    BY <1>1, <1>2, <1>4, <2>1, RequirerRuns DEF S3Known, has
<1>5. CASE hook \notin {"app", "unit", "broken"}
  <2>1. told' = told
    BY <1>5 DEF S3RequirerHook, S3Joined, Silent
  <2> QED
    BY <1>1, <1>2, <1>5, <2>1, RequirerRuns DEF S3Known, ReadsNow, has
<1> QED
  BY <1>3, <1>4, <1>5

LEMMA S3ProviderKeeps ==
    ASSUME FrameOK, S3Known, ProviderWakes, NEW hook, S3ProviderHook(hook) \/ S3Step
    PROVE  S3Known'
<1>1. ASSUME NEW bag, NEW data, app'["provider"] \in {bag, Updated(bag, data)}
      PROVE  DOMAIN bag \subseteq DOMAIN app'["provider"]
  <2>1. DOMAIN Updated(bag, data) = DOMAIN bag \cup DOMAIN data
    BY UpdatedIs
  <2> QED
    BY <1>1, <2>1
<1>2. \E data : app'["provider"] \in {app["provider"], Updated(app["provider"], data)}
  <2>1. CASE S3Step
    <3>1. PICK option, value :
              Publishes("provider", S3UpdateIfLeader("provider", Entry(option, value)))
      BY Zenon, <2>1 DEF S3Step, S3SetConnectionInfo, S3SetOption, S3UpdateConnectionInfo
    <3>2. Acted("provider", "requirer", S3UpdateIfLeader("provider", Entry(option, value)),
                unit["provider"], stored["provider"])
      BY Zenon, <3>1, TheProvider DEF Publishes, PublishesStoring
    <3> QED
      BY <3>2 DEF Acted, Written, S3UpdateIfLeader
  <2>2. CASE S3ProviderHook(hook)
    <3>1. PICK A : /\ HookRan("provider", "requirer", hook, A, unit["provider"], stored["provider"])
                   /\ \/ A = app["provider"]
                      \/ A = Updated(app["provider"], Entry("data", app["requirer"]))
      BY Zenon, <2>2, TheProvider DEF S3ProviderHook, RunsOnly, Runs
    <3> QED
      BY <3>1 DEF HookRan, Written
  <2> QED
    BY <2>1, <2>2
<1>3. Has(app["provider"], S3RequiredOptions) => Has(app["provider"], S3RequiredOptions)'
  BY <1>1, <1>2 DEF Has
<1> QED
  BY <1>3, ProviderRuns DEF S3Known, ReadsNow, ProviderWakes, Has

(***************************************************************************)
(* Ingress                                                                 *)
(***************************************************************************)
IngressKnown ==
    /\ app["provider"] = NoData \/ \E url \in Values : app["provider"] = [ingress |-> url]
    /\ NoRelation => stored["requirer"] = Nothing
    /\ told["requirer"] = Nothing => stored["requirer"] = Nothing
    /\ Informed /\ app["provider"] # NoData =>
           told["requirer"] # Nothing /\ stored["requirer"] = IngressLoad(app["provider"])

LEMMA IngressRequirerKnows ==
    ASSUME NothingIsApart, FrameOK, ReadyInv, IngressKnown, NEW hook, IngressRequirerHook(hook)
    PROVE  IngressKnown'
<1> DEFINE new == IngressLoad(app["provider"])
<1> interface = "ingress"
  BY DEF IngressRequirerHook
<1>1. CASE hook = "broken"
  <2>1. HookRan("requirer", "provider", hook, app["requirer"], unit["requirer"], Nothing)
    BY Zenon, <1>1, TheRequirer DEF IngressRequirerHook, IngressRevoked
  <2> QED
    BY <1>1, <2>1, RequirerRuns DEF IngressKnown
<1>2. ASSUME hook # "broken", NEW A, NEW U, Runs("requirer", hook, A, U), Silent,
             hook \in {"app", "unit"} => ~ (new # Nothing /\ stored["requirer"] # new)
      PROVE  IngressKnown'
  <2>1. HookRan("requirer", "provider", hook, A, U, stored["requirer"])
    BY Zenon, <1>2, TheRequirer DEF Runs
  <2>2. told' = told
    BY <1>2 DEF Silent
  <2>3. NoRelation' => NoRelation
    BY <1>2, <2>1 DEF HookRan, NoRelation
  <2>4. app["provider"] # NoData => new # Nothing
    <3> SUFFICES ASSUME app["provider"] # NoData
                 PROVE  new # Nothing
      OBVIOUS
    <3>1. PICK url \in Values : app["provider"] = [ingress |-> url]
      BY DEF IngressKnown
    <3>2. IngressLoad(app["provider"]) = url
      BY <3>1 DEF IngressLoad, Has
    <3> QED
      BY <3>2, RelationAssumption
  <2>5. IngressLoad(app["provider"])' = new
    BY <2>1, RequirerRuns DEF IngressLoad, Has
  <2> HIDE DEF new
  <2> QED
    BY <1>2, <2>1, <2>2, <2>3, <2>4, <2>5, RequirerRuns DEF IngressKnown, new
<1>3. ASSUME hook # "broken", new # Nothing, NEW A, NEW U,
             RunsStoring("requirer", hook, A, U, new), IngressReady
      PROVE  IngressKnown'
  <2>1. HookRan("requirer", "provider", hook, A, U, new)
    BY Zenon, <1>3, TheRequirer
  <2>2. told'["requirer"] = Reading("requirer") /\ told'["requirer"] # Nothing
    BY <1>3, TheRequirer, TheReading DEF IngressReady, Tells, TellsOf, Heard
  <2>3. IngressLoad(app["provider"])' = new
    BY <2>1, RequirerRuns DEF IngressLoad, Has
  <2> HIDE DEF new
  <2>4. ~ NoRelation'
    <3>1. hook \in {"created", "joined", "app", "unit", "departed", "elected"}
      BY <1>3 DEF IngressRequirerHook
    <3>2. CASE hook = "elected"
      <4>1. event'.name = "none" /\ event'.name = "ready"
        BY Zenon, <1>3, <3>2, EventNames
           DEF IngressRequirerHook, IngressElected, IngressReady
      <4> QED
        BY <4>1
    <3>3. CASE hook # "elected"
      BY <2>1, <3>1, <3>3, StagesOfHooks DEF NoRelation
    <3> QED
      BY <3>2, <3>3
  <2> QED
    BY <2>1, <2>2, <2>3, <2>4, RequirerRuns DEF IngressKnown
<1>4. CASE hook \in {"created", "joined", "app", "unit", "departed"}
  <2>1. IngressHandlesRelation(hook)
    BY <1>4 DEF IngressRequirerHook
  <2> HIDE DEF new
  <2>2. CASE new # Nothing /\ stored["requirer"] # new
    BY Zenon, <1>3, <1>4, <2>1, <2>2 DEF IngressHandlesRelation, new
  <2>3. CASE ~ (new # Nothing /\ stored["requirer"] # new)
    BY Zenon, <1>2, <1>4, <2>1, <2>3 DEF IngressHandlesRelation, new
  <2> QED
    BY <2>2, <2>3
<1>5. CASE hook = "elected"
  <2>1. IngressElected
    BY <1>5 DEF IngressRequirerHook
  <2> QED
    BY Zenon, <1>2, <1>5, <2>1 DEF IngressElected, RunsOnly
<1> QED
  BY <1>1, <1>4, <1>5 DEF IngressRequirerHook

LEMMA IngressProviderKeeps ==
    ASSUME FrameOK, IngressKnown, ProviderWakes, NEW hook, IngressProviderHook(hook) \/ IngressStep
    PROVE  IngressKnown'
<1>1. app'["provider"] = NoData \/ \E url \in Values : app'["provider"] = [ingress |-> url]
  <2>1. CASE IngressProviderHook(hook)
    <3>1. HookRan("provider", "requirer", hook, app["provider"], unit["provider"], stored["provider"])
      BY Zenon, <2>1, TheProvider DEF IngressProviderHook, RunsOnly, Runs
    <3> QED
      BY <3>1 DEF HookRan, Written, IngressKnown
  <2>2. CASE IngressPublishUrl
    <3>1. PICK url \in Values \cup {Nothing} : Publishes("provider", IngressDump(url))
      BY <2>2 DEF IngressPublishUrl
    <3>2. Acted("provider", "requirer", IngressDump(url), unit["provider"], stored["provider"])
      BY Zenon, <3>1, TheProvider DEF Publishes, PublishesStoring
    <3> QED
      BY <3>2 DEF Acted, Written, IngressDump
  <2>3. CASE IngressWipeData
    <3>1. Acted("provider", "requirer", Without(app["provider"], {"ingress"}), unit["provider"],
                stored["provider"])
      BY Zenon, <2>3, TheProvider DEF IngressWipeData, Publishes, PublishesStoring
    <3>2. Without(app["provider"], {"ingress"}) = NoData
      <4>1. DOMAIN app["provider"] \subseteq {"ingress"}
        BY NoDataIsEmpty DEF IngressKnown
      <4>2. Without(app["provider"], {"ingress"}) = [k \in {} |-> app["provider"][k]]
        BY <4>1 DEF Without
      <4> QED
        BY <4>2 DEF NoData
    <3> QED
      BY <3>1, <3>2 DEF Acted, Written
  <2> QED
    BY <2>1, <2>2, <2>3 DEF IngressStep
<1>2. NoRelation' <=> NoRelation
  BY DEF NoRelation, ProviderWakes
<1>3. Informed' => IngressLoad(app["provider"])' = IngressLoad(app["provider"])
  BY ProviderRuns DEF IngressLoad, Has
<1> QED
  BY <1>1, <1>2, <1>3, ProviderRuns DEF IngressKnown, ProviderWakes

(***************************************************************************)
(* Loki                                                                    *)
(***************************************************************************)
LokiKnown ==
    Informed => told["requirer"] # Nothing /\ told["requirer"].endpoints = LokiEndpoints("app")

LEMMA LokiEndpointsStay ==
    ASSUME stage'["requirer"] = stage["requirer"], unit'["provider"] = unit["provider"]
    PROVE  /\ LokiEndpoints("app")' = LokiEndpoints("app")
           /\ \A hook : hook \notin {"joined", "departed"} => LokiEndpoints(hook) = LokiEndpoints("app")
  BY DEF LokiEndpoints, SeesUnit, Has

LEMMA LokiRequirerKnows ==
    ASSUME NothingIsApart, FrameOK, LokiKnown, NEW hook, LokiConsumerHook(hook) \/ LokiLifecycle
    PROVE  LokiKnown'
<1>1. ASSUME NEW name, NEW h, NEW faulty, LokiTells(name, h, faulty)
      PROVE  told'["requirer"] # Nothing /\ told'["requirer"].endpoints = LokiEndpoints(h)
  <2>1. /\ told'["requirer"] = [endpoints |-> LokiEndpoints(h), faulty |-> faulty]
        /\ told'["requirer"].endpoints = LokiEndpoints(h)
    BY Zenon, <1>1, LokiTellsNothingUnseen
  <2> QED
    BY <2>1, RecordsAreSomething
<1>2. CASE LokiLifecycle
  <2>1. LokiTells("loki_push_api_endpoint_joined", "other", KnownFaulty)
    BY Zenon, <1>2 DEF LokiLifecycle
  <2>2. PICK A : Acted("requirer", "provider", A, unit["requirer"], stored["requirer"])
    BY Zenon, <1>2, TheRequirer DEF LokiLifecycle, ReinitializeAlertRules
  <2>3. stage'["requirer"] = stage["requirer"] /\ unit'["provider"] = unit["provider"]
    BY <2>2 DEF Acted, Written
  <2> QED
    BY <1>1, <2>1, <2>3, LokiEndpointsStay DEF LokiKnown
<1>3. CASE LokiConsumerHook(hook)
  <2>1. PICK A, U, V : HookRan("requirer", "provider", hook, A, U, V)
    BY Zenon, <1>3, TheRequirer
       DEF LokiConsumerHook, LokiJoined, LokiChanged, LokiDeparted, RunsOnly, Runs
  <2>2. Informed' => stage'["requirer"] = stage["requirer"] /\ unit'["provider"] = unit["provider"]
    BY <2>1, RequirerRuns DEF Informed
  <2>3. CASE hook \in {"app", "unit"}
    <3>1. LokiTells("loki_push_api_endpoint_joined", hook, ReadsFaulty)
      BY Zenon, <1>3, <2>3 DEF LokiConsumerHook, LokiChanged
    <3>2. told'["requirer"] # Nothing /\ told'["requirer"].endpoints = LokiEndpoints(hook)
      BY <1>1, <3>1
    <3> QED
      BY <2>2, <2>3, <3>2, LokiEndpointsStay DEF LokiKnown
  <2>4. CASE hook \in {"joined", "departed", "created", "broken"}
    BY <2>1, <2>4, RequirerRuns DEF LokiKnown
  <2>5. CASE hook = "elected"
    <3>1. told' = told
      BY <1>3, <2>5 DEF LokiConsumerHook, Silent
    <3> QED
      BY <2>1, <2>2, <2>5, <3>1, RequirerRuns, LokiEndpointsStay DEF LokiKnown
  <2> QED
    BY <1>3, <2>3, <2>4, <2>5 DEF LokiConsumerHook
<1> QED
  BY <1>2, <1>3

LEMMA LokiProviderKeeps ==
    ASSUME LokiKnown, ProviderWakes
    PROVE  LokiKnown'
  BY ProviderRuns, LokiEndpointsStay DEF LokiKnown, ProviderWakes

(***************************************************************************)
(* Dashboards                                                              *)
(***************************************************************************)
DashboardsRendered ==
    /\ ~ NoRelation /\ ~ Has(app["provider"], {"dashboards"}) => PeerDashboards.this = {}
    /\ Informed /\ led /\ "corrupt" \notin DashboardsPublished =>
           PeerDashboards.this = Rendered(DashboardsPublished)

LEMMA PublishedLater ==
    ASSUME app'["provider"] = app["provider"]
    PROVE  /\ DashboardsPublished' = DashboardsPublished
           /\ Has(app["provider"], {"dashboards"})' <=> Has(app["provider"], {"dashboards"})
  BY DEF DashboardsPublished, Has

LEMMA DashboardsRequirerRenders ==
    ASSUME NothingIsApart, FrameOK, DashboardsRendered, NEW hook, DashboardsRequirerHook(hook)
    PROVE  DashboardsRendered'
<1> DEFINE has == Has(app["provider"], {"dashboards"})
           rendered == Rendered(DashboardsPublished)
           this == PeerDashboards.this
<1>1. PICK A, U, V : HookRan("requirer", "provider", hook, A, U, V)
  BY Zenon, TheRequirer
     DEF DashboardsRequirerHook, DashboardsRequirerChanged, RenderDashboards, RunsKeeping,
         DashboardsRequirerBroken, DashboardsRequirerCreated, RunsOnly, Runs
<1>2. /\ DashboardsPublished' = DashboardsPublished /\ (has' <=> has)
      /\ Rendered(DashboardsPublished)' = rendered
      /\ led' = led
  <2>1. app'["provider"] = app["provider"] /\ led' = led
    BY <1>1, RequirerRuns
  <2> QED
    BY <2>1, PublishedLater DEF Rendered
<1>3. ASSUME NEW d, stored'["requirer"] = WithDashboards(d)
      PROVE  PeerDashboards'.this = d
  BY <1>3, RecordsAreSomething DEF PeerDashboards, WithDashboards
<1>4. ASSUME RunsOnly("requirer", hook), hook # "created",
             hook \in {"app", "unit"} => (leader["requirer"] => ~ has)
      PROVE  DashboardsRendered'
  <2>1. HookRan("requirer", "provider", hook, app["requirer"], unit["requirer"], stored["requirer"])
    BY Zenon, <1>4, TheRequirer DEF RunsOnly, Runs
  <2>2. PeerDashboards' = PeerDashboards /\ (NoRelation => NoRelation')
    BY <1>4, <2>1, StagesOfHooks DEF HookRan, PeerDashboards, NoRelation, DashboardsRequirerHook
  <2>3. CASE hook \in {"app", "unit"}
    <3>1. led => ~ has
      BY <1>4, <2>3, TheSides DEF FrameOK
    <3>2. ~ has => rendered = {}
      BY DEF DashboardsPublished, Rendered
    <3>3. ~ NoRelation
      BY <2>1, <2>3, StagesOfHooks DEF NoRelation
    <3> HIDE DEF has, rendered
    <3> QED
      BY <1>2, <2>2, <3>1, <3>2, <3>3 DEF DashboardsRendered, has
  <2>4. CASE hook \notin {"app", "unit"}
    <3>1. Informed' => Informed
      BY <2>1, <2>4, RequirerRuns
    <3> HIDE DEF has, rendered
    <3> QED
      BY <1>2, <2>2, <3>1 DEF DashboardsRendered, has, rendered
  <2> QED
    BY <2>3, <2>4
<1>5. ASSUME RenderDashboards(hook), has
      PROVE  DashboardsRendered'
  <2>1. CASE CannotBeRendered(rendered)
    <3>1. "corrupt" \in DashboardsPublished
      BY <2>1 DEF CannotBeRendered, Rendered
    <3> HIDE DEF has, rendered
    <3> QED
      BY <1>2, <1>5, <3>1 DEF DashboardsRendered, has
  <2>2. CASE ~ CannotBeRendered(rendered)
    <3>1. HookRan("requirer", "provider", hook, app["requirer"], unit["requirer"], WithDashboards(rendered))
      BY Zenon, <1>5, <2>2, TheRequirer DEF RenderDashboards, RunsKeeping
    <3> HIDE DEF has, rendered
    <3>2. PeerDashboards'.this = rendered
      BY <1>3, <3>1 DEF HookRan
    <3> QED
      BY <1>2, <1>5, <3>2 DEF DashboardsRendered, has
  <2> QED
    BY <2>1, <2>2
<1>6. CASE DashboardsRequirerBroken /\ hook = "broken"
  <2>1. stage'["requirer"] = "none"
    BY <1>1, <1>6, StagesOfHooks
  <2> QED
    BY <2>1 DEF DashboardsRendered, NoRelation, Informed
<1>7. CASE DashboardsRequirerCreated /\ hook = "created"
  <2>1. stage'["requirer"] = "created"
    BY <1>1, <1>7, StagesOfHooks
  <2>2. stored'["requirer"] = [this |-> {}, ended |-> PeerDashboards.ended \cup this]
    BY Zenon, <1>7, TheRequirer DEF DashboardsRequirerCreated, HookRan
  <2>3. PeerDashboards'.this = {}
    BY <2>2, RecordsAreSomething DEF PeerDashboards
  <2> QED
    BY <2>1, <2>3 DEF DashboardsRendered, Informed
<1> HIDE DEF has, rendered, this
<1>8. CASE DashboardsRequirerChanged(hook) /\ hook \in {"app", "unit"}
  BY Zenon, <1>4, <1>5, <1>8 DEF DashboardsRequirerChanged, has
<1>9. CASE RunsOnly("requirer", hook) /\ hook \in {"joined", "departed", "elected"}
  BY <1>4, <1>9
<1> QED
  BY Zenon, <1>6, <1>7, <1>8, <1>9 DEF DashboardsRequirerHook

LEMMA DashboardsProviderKeeps ==
    ASSUME FrameOK, DashboardsRendered, ProviderWakes, NEW hook,
           DashboardsProviderHook(hook) \/ DashboardsStep
    PROVE  DashboardsRendered'
<1> DEFINE MayWrite(bag) == bag = app["provider"] \/ \E dashboards : bag = Upset(dashboards)
<1>1. /\ MayWrite(app["provider"])
      /\ \A dashboards : MayWrite(Upset(dashboards)) /\ MayWrite(UpsetIfLeader(dashboards))
  BY Zenon DEF UpsetIfLeader
<1>2. \A bag : MayWrite(bag) /\ Has(app["provider"], {"dashboards"}) => Has(bag, {"dashboards"})
  BY DEF Upset, Has
<1> HIDE DEF MayWrite
<1>3. MayWrite(app'["provider"])
  <2>1. CASE DashboardsProviderHook(hook)
    <3>1. \E A, V : HookRan("provider", "requirer", hook, A, unit["provider"], V) /\ MayWrite(A)
      BY Zenon, <1>1, <2>1, TheProvider
         DEF DashboardsProviderHook, DashboardsCreated, DashboardsProviderChanged,
             DashboardsElected, RunsOnly, Runs
    <3> QED
      BY <3>1 DEF HookRan, Written
  <2>2. CASE DashboardsStep
    <3>1. \E A, V : Acted("provider", "requirer", A, unit["provider"], V) /\ MayWrite(A)
      BY Zenon, <1>1, <2>2, TheProvider
         DEF DashboardsStep, DashboardsChange, DashboardsOfOtherMake, AddDashboard,
             RemoveNonBuiltinDashboards, ReloadDashboards, UpdateDashboards, Publishes,
             PublishesStoring
    <3> QED
      BY <3>1 DEF Acted, Written
  <2> QED
    BY <2>1, <2>2
<1>4. Has(app["provider"], {"dashboards"}) => Has(app["provider"], {"dashboards"})'
  BY <1>2, <1>3 DEF Has
<1>5. PeerDashboards' = PeerDashboards /\ (NoRelation' => NoRelation) /\ (NoRelation => NoRelation')
  BY DEF ProviderWakes, PeerDashboards, NoRelation
<1>6. ASSUME Informed'
      PROVE  /\ Informed /\ led' = led
             /\ DashboardsPublished' = DashboardsPublished
  <2>1. /\ Informed /\ led' = led /\ app'["provider"] = app["provider"]
    BY <1>6, ProviderRuns
  <2> QED
    BY <2>1, PublishedLater
<1> QED
  BY <1>4, <1>5, <1>6 DEF DashboardsRendered, Rendered

(***************************************************************************)
(* Tracing                                                                 *)
(***************************************************************************)
TracingKnown ==
    /\ TracingIsValid(app["provider"]) => app["provider"].receivers \in SUBSET TracingReceivers
    /\ Informed /\ TracingIsValid(app["provider"]) => ReadsNow
    /\ ~ TracingIsValid(app["provider"]) => told["requirer"] = Nothing

\* A leader has asked before it learns.
EndpointKnown ==
    event.name = "endpoint_changed" /\ leader["requirer"] =>
        /\ app["requirer"] = TracingDump(TracingProtocols)
        /\ told["requirer"] # Nothing /\ TracingIsValid(told["requirer"].app)
        /\ told["requirer"].app.receivers \in SUBSET TracingReceivers

LEMMA TracingRequirerKnows ==
    ASSUME NothingIsApart, FrameOK, TracingKnown, NEW hook, TracingRequirerHook(hook)
    PROVE  TracingKnown' /\ EndpointKnown'
<1> DEFINE valid == TracingIsValid(app["provider"])
<1>1. HookRan("requirer", "provider", hook, TracingRequest(hook), unit["requirer"],
              stored["requirer"])
  BY Zenon, TheRequirer DEF TracingRequirerHook, Runs
<1>2. /\ app'["provider"] = app["provider"] /\ (valid' <=> valid)
      /\ app'["requirer"] = TracingRequest(hook) /\ leader' = leader
  BY <1>1, RequirerRuns DEF HookRan, Written, TracingIsValid, Has
<1> HIDE DEF valid
<1>3. CASE hook \in {"app", "unit"} /\ valid
  <2>1. told'["requirer"] = Reading("requirer") /\ Reading("requirer") # Nothing
    <3>1. told'["requirer"] = Reading("requirer")
      BY Zenon, <1>3, TheRequirer
         DEF TracingRequirerHook, TracingChanged, TracingEndpointChanged, Tells, TellsOf, Heard, valid
    <3> QED
      BY <3>1, TheReading
  <2>2. TracingKnown'
    BY <1>1, <1>2, <1>3, <2>1, RequirerRuns DEF TracingKnown, ReadsNow, valid
  <2>3. leader'["requirer"] => app'["requirer"] = TracingDump(TracingProtocols)
    <3>1. stage["requirer"] \in {"created", "joined"}
      BY <1>1, <1>3, StagesOfHooks
    <3> QED
      BY <1>2, <1>3, <3>1 DEF TracingRequest, TracingRequestProtocols
  <2>4. told'["requirer"].app = app["provider"]
    BY <2>1, TheReading
  <2>5. EndpointKnown'
    BY <1>3, <2>1, <2>3, <2>4 DEF EndpointKnown, TracingKnown, TracingIsValid, Has, valid, TracingDump
  <2> QED
    BY <2>2, <2>5
<1>4. CASE hook \in {"app", "unit"} /\ ~ valid
  <2>1. TellsGone("requirer", "endpoint_removed")
    BY Zenon, <1>4 DEF TracingRequirerHook, TracingChanged, valid
  <2>2. told'["requirer"] = Nothing /\ event'.name = "endpoint_removed"
    BY <2>1, TheRequirer DEF TellsGone, TellsOf, Heard
  <2> QED
    BY <1>2, <1>4, <2>2 DEF TracingKnown, EndpointKnown, valid
<1>5. CASE hook = "broken"
  <2>1. told'["requirer"] = Nothing /\ event'.name = "endpoint_removed"
    BY Zenon, <1>5, TheRequirer DEF TracingRequirerHook, TracingBroken, TellsGone, TellsOf, Heard
  <2> QED
    BY <1>1, <1>2, <1>5, <2>1, RequirerRuns DEF TracingKnown, EndpointKnown, valid
<1>6. CASE hook \in {"created", "joined", "departed", "elected"}
  <2>1. told' = told /\ event'.name = "none"
    BY <1>6, EventNames DEF TracingRequirerHook, Silent
  <2> QED
    BY <1>1, <1>2, <1>6, <2>1, RequirerRuns DEF TracingKnown, EndpointKnown, ReadsNow, valid
<1> QED
  BY <1>3, <1>4, <1>5, <1>6 DEF TracingRequirerHook

LEMMA TracingOtherKnows ==
    ASSUME FrameOK, TracingKnown, TracingOtherHook
    PROVE  TracingKnown'
<1>1. /\ Acted("requirer", "provider", TracingRequest("other"), unit["requirer"], stored["requirer"])
      /\ told' = told
  BY Zenon, TheRequirer DEF TracingOtherHook, Publishes, PublishesStoring, Silent
<1>2. /\ app'["provider"] = app["provider"] /\ unit'["provider"] = unit["provider"]
      /\ stage'["requirer"] = stage["requirer"] /\ due'["requirer"] = due["requirer"]
  BY <1>1 DEF Acted, Written
<1>3. Reading("requirer")' = Reading("requirer")
  BY <1>2, TheReading
<1> QED
  BY <1>1, <1>2, <1>3 DEF TracingKnown, Informed, ReadsNow, TracingIsValid, Has

LEMMA TracingProviderKeeps ==
    ASSUME FrameOK, TracingKnown, ProviderWakes, NEW hook,
           TracingProviderHook(hook) \/ TracingPublishReceivers
    PROVE  TracingKnown'
<1>1. \/ app'["provider"] = app["provider"]
      \/ \E receivers \in SUBSET TracingReceivers : app'["provider"] = TracingDump(receivers)
  <2>1. CASE TracingProviderHook(hook)
    <3>1. HookRan("provider", "requirer", hook, app["provider"], unit["provider"], stored["provider"])
      BY Zenon, <2>1, TheProvider DEF TracingProviderHook, RunsOnly, Runs
    <3> QED
      BY <3>1 DEF HookRan, Written
  <2>2. CASE TracingPublishReceivers
    <3>1. PICK receivers \in SUBSET TracingReceivers : Publishes("provider", TracingDump(receivers))
      BY <2>2 DEF TracingPublishReceivers
    <3>2. Acted("provider", "requirer", TracingDump(receivers), unit["provider"], stored["provider"])
      BY Zenon, <3>1, TheProvider DEF Publishes, PublishesStoring
    <3> QED
      BY <3>2 DEF Acted, Written
  <2> QED
    BY <2>1, <2>2
<1>2. \A receivers : /\ TracingIsValid(TracingDump(receivers))
                     /\ TracingDump(receivers).receivers = receivers
  BY DEF TracingIsValid, TracingDump, Has
<1>3. TracingIsValid(app["provider"])' <=> TracingIsValid(app'["provider"])
  BY DEF TracingIsValid, Has
<1> QED
  BY <1>1, <1>2, <1>3, ProviderRuns DEF TracingKnown, ReadsNow, ProviderWakes

(***************************************************************************)
(* Which events are whose                                                  *)
(***************************************************************************)
LEMMA EventsOfTheInterface ==
    ASSUME FrameOK, Next
    PROVE  /\ event'.name = "endpoint_changed" => \E hook : TracingRequirerHook(hook)
           /\ event'.name \in {"database_created", "topic_created", "index_created"} =>
                  \E hook : DataRequirerHook(hook)
<1> DEFINE N == event'.name \notin {"endpoint_changed", "database_created", "topic_created",
                                    "index_created"}
           Of == \/ event'.name # "endpoint_changed" /\ \E hook : DataRequirerHook(hook)
                 \/ /\ event'.name \notin {"database_created", "topic_created", "index_created"}
                    /\ \E hook : TracingRequirerHook(hook)
<1>1. Juju \/ LogContainerReplaced => N
  BY JujuFacts, ReplacedFacts DEF LogContainerReplaced, NoEvent
<1>2. DataStep => N
  <2> SUFFICES ASSUME DataStep
               PROVE  N
    OBVIOUS
  <2>1. PICK field, value : Given(field, value)
    BY DataStepGives, GivenFacts
  <2> QED
    BY <2>1 DEF Given, NothingHeard
<1>3. ASSUME NEW hook, S3ProviderHook(hook) \/ DataProviderHook(hook) \/ IngressRequirerHook(hook)
      PROVE  N
  BY <1>3, NamesOfEvents
<1>4. ASSUME NEW hook, Quiet(hook)
      PROVE  N
  BY <1>4, QuietIsQuiet DEF Announcements
<1>5. ASSUME NEW hook, IngressProviderHook(hook) \/ IngressStep
      PROVE  N
  BY <1>4, <1>5 DEF Quiet
<1>6. ASSUME NEW hook, TracingRequirerHook(hook)
      PROVE  Of
  BY <1>6, NamesOfEvents
<1>7. ASSUME NEW hook, DataRequirerHook(hook)
      PROVE  Of
  BY <1>7, DataRequirerNames
<1> HIDE DEF N, Of
<1>8. N \/ Of
  BY Zenon, <1>1, <1>2, <1>3, <1>4, <1>5, <1>6, <1>7, WhoAnnounces
<1> QED
  BY <1>8 DEF N, Of

(***************************************************************************)
(* Databases and their like                                                *)
(***************************************************************************)
\* What was noted and what is known of it.
EndpointsKnown(noted, knows) ==
    "endpoints" \in DOMAIN noted =>
        knows # Nothing /\ (interface # "etcd" => knows.endpoints = noted["endpoints"])

DataKnown ==
    LET knows == told["requirer"]
    IN  /\ Informed => Noted(unit["requirer"]) = Without(app["provider"], {"data"})
        /\ knows # Nothing =>
               knows = [credentials |-> knows.credentials, endpoints |-> knows.endpoints]
        /\ EndpointsKnown(Noted(unit["requirer"]), knows)
        /\ HasSecret /\ ~ dying => stored["provider"] \in Values
        /\ SecretNoted /\ ~ dying =>
               knows # Nothing /\ knows.credentials # Nothing /\ stored["requirer"] # Nothing
        /\ interface \in {"opensearch", "etcd"} /\ SecretNoted /\ ~ dying =>
               "secret" \in due["requirer"] \/ knows.credentials = stored["provider"]

\* It holds of the next state when it holds of what was noted and is known there.
DataKnownOf(noted, knows, tracked, secret, pending) ==
    /\ Informed' => noted = Without(app'["provider"], {"data"})
    /\ knows # Nothing => knows = [credentials |-> knows.credentials, endpoints |-> knows.endpoints]
    /\ EndpointsKnown(noted, knows)
    /\ "secret-user" \in DOMAIN app'["provider"] /\ ~ dying' => secret \in Values
    /\ "secret-user" \in DOMAIN noted /\ ~ dying' =>
           knows # Nothing /\ knows.credentials # Nothing /\ tracked # Nothing
    /\ interface \in {"opensearch", "etcd"} /\ "secret-user" \in DOMAIN noted /\ ~ dying' =>
           pending \/ knows.credentials = secret

LEMMA DataKnownLater ==
    ASSUME interface' = interface,
           DataKnownOf(Noted(unit'["requirer"]), told'["requirer"], stored'["requirer"],
                       stored'["provider"], "secret" \in due'["requirer"])
    PROVE  DataKnown'
<1>1. EndpointsKnown(Noted(unit["requirer"]), told["requirer"])'
      <=> EndpointsKnown(Noted(unit'["requirer"]), told'["requirer"])
  BY DEF EndpointsKnown, Noted, Has
<1>2. Noted(unit["requirer"])' = Noted(unit'["requirer"])
  BY DEF Noted, Has
<1>3. Without(app["provider"], {"data"})' = Without(app'["provider"], {"data"})
  BY DEF Without
<1> QED
  BY <1>1, <1>2, <1>3, SecretNotedLater DEF DataKnown, DataKnownOf

LEMMA DataKnownNow ==
    ASSUME DataKnown
    PROVE  LET noted == Noted(unit["requirer"])
               knows == told["requirer"]
           IN  /\ Informed => noted = Without(app["provider"], {"data"})
               /\ knows # Nothing =>
                      knows = [credentials |-> knows.credentials, endpoints |-> knows.endpoints]
               /\ EndpointsKnown(noted, knows)
               /\ "secret-user" \in DOMAIN app["provider"] /\ ~ dying => stored["provider"] \in Values
               /\ "secret-user" \in DOMAIN noted /\ ~ dying =>
                      knows # Nothing /\ knows.credentials # Nothing /\ stored["requirer"] # Nothing
               /\ interface \in {"opensearch", "etcd"} /\ "secret-user" \in DOMAIN noted /\ ~ dying =>
                      "secret" \in due["requirer"] \/ knows.credentials = stored["provider"]
  BY DEF DataKnown, SecretNoted, HasSecret, Has

LEMMA DataRequirerKnows ==
    ASSUME NothingIsApart, FrameOK, CredentialsInv, FirstInv, DataKnown, NEW hook,
           DataRequirerHook(hook)
    PROVE  DataKnown' /\ (event'.name \in {"database_created", "topic_created", "index_created"} =>
                              event'.says = told'["requirer"].credentials)
<1> DEFINE Says == event'.name \in {"database_created", "topic_created", "index_created"} =>
                       event'.says = told'["requirer"].credentials
           kept == Noted(unit["requirer"])
           knows == told["requirer"]
<1>1. interface \in Flavours
  BY DEF DataRequirerHook
<1>2. /\ interface' = interface /\ app'["provider"] = app["provider"] /\ dying' = dying
      /\ stored'["provider"] = stored["provider"]
  BY RequirerMovesAlone DEF MovesOfRequirer
<1>3. CASE hook = "created"
  <2>1. PICK resource : Asks(resource)
    BY <1>3 DEF DataRequirerHook, DatabaseCreated, KafkaCreated, OpenSearchCreated, EtcdCreated
  <2>2. PICK A, U : /\ HookRan("requirer", "provider", "created", A, U, stored["requirer"])
                    /\ U \in {unit["requirer"], RequestsSecrets}
    BY Zenon, <2>1, TheRequirer DEF Asks, Runs, RunsOnly
  <2>3. told' = told /\ event'.name = "none"
    BY <2>1, EventNames DEF Asks, Silent
  <2>4. stage["requirer"] = "new" /\ ~ Informed'
    BY <2>2, RequirerRuns, StagesOfHooks
  <2>5. knows = Nothing /\ "secret-user" \notin DOMAIN kept
    BY <1>1, <2>4 DEF FirstInv, SecretNoted
  <2>6. unit'["requirer"] = U
    BY <2>2 DEF HookRan, Written
  <2>7. Noted(RequestsSecrets) = NoData
    BY DEF Noted, RequestsSecrets, Has, Entry
  <2>8. "endpoints" \notin DOMAIN kept
    BY <2>5, DataKnownNow DEF EndpointsKnown
  <2>9. /\ "endpoints" \notin DOMAIN Noted(unit'["requirer"])
        /\ "secret-user" \notin DOMAIN Noted(unit'["requirer"])
    BY <2>2, <2>5, <2>6, <2>7, <2>8, NoDataIsEmpty
  <2>10. DataKnown'
    BY <1>2, <2>3, <2>4, <2>5, <2>9, DataKnownLater, DataKnownNow DEF DataKnownOf, EndpointsKnown
  <2> QED
    BY <2>3, <2>10
<1>4. CASE hook \in {"app", "unit"}
  <2> DEFINE added == Added(Noted(unit["requirer"]), app["provider"])
             changed == Changed(Noted(unit["requirer"]), app["provider"])
             emitted == DataEvent(added, changed)
             value == IF emitted = "none" THEN Registered(added) ELSE Refreshed
             bag == Note(unit["requirer"], app["provider"])
             noted == Without(app["provider"], {"data"})
  <2>1. /\ RunsStoring("requirer", hook, app["requirer"], bag, value)
        /\ IF emitted = "none" THEN Silent ELSE TellsData(emitted, Registered(added))
    BY Zenon, <1>4 DEF DataRequirerHook, DataRequirerChanged
  <2>2. "secret-user" \in added <=> HasSecret /\ "secret-user" \notin DOMAIN kept
    BY DEF Added, Without, HasSecret, Has
  <2>3. emitted = "none" => "endpoints" \notin added \cup changed /\ "secret-user" \notin added
    <3> HIDE DEF added, changed
    <3> QED
      BY <1>1 DEF DataEvent, DatabaseEvent, KafkaEvent, OpenSearchEvent, EtcdEvent, Flavours
  <2>4. "endpoints" \notin added \cup changed /\ "endpoints" \in DOMAIN noted =>
            "endpoints" \in DOMAIN kept /\ kept["endpoints"] = noted["endpoints"]
    BY DEF Added, Changed, Without
  <2>5. emitted \in {"database_created", "topic_created", "index_created"} => "secret-user" \in added
    <3>1. "credentials" \notin added
      BY <1>1 DEF Added, Without, CredentialsInv
    <3> HIDE DEF added, changed
    <3> QED
      BY <1>1, <3>1
         DEF DataEvent, DatabaseEvent, KafkaEvent, OpenSearchEvent, EtcdEvent, Flavours
  <2>6. /\ Noted(bag) = noted
        /\ DOMAIN noted = DOMAIN app["provider"] \ {"data"}
        /\ "endpoints" \in DOMAIN noted => noted["endpoints"] = app["provider"]["endpoints"]
    <3>1. Noted(bag) = noted
      BY Zenon, NotedIs DEF Note
    <3> QED
      BY <3>1, WithoutIs DEF Without
  <2> HIDE DEF value, bag, emitted, added, changed, noted
  <2>7. HookRan("requirer", "provider", hook, app["requirer"], bag, value)
    BY <2>1, TheRequirer
  <2>8. /\ unit'["requirer"] = bag /\ stored'["requirer"] = value
        /\ "secret" \in due["requirer"] => "secret" \in due'["requirer"]
        /\ ~ dying
    BY <1>4, <2>7, StagesOfHooks DEF HookRan, Written
  <2>9. "secret-user" \in DOMAIN noted <=> HasSecret
    BY <2>6 DEF HasSecret, Has
  <2>10. CASE emitted = "none"
    <3>1. told' = told /\ event'.name = "none"
      BY <2>1, <2>10, EventNames DEF Silent
    <3>2. HasSecret => "secret-user" \in DOMAIN kept
      BY <2>2, <2>3, <2>10
    <3>3. value = stored["requirer"]
      BY <2>3, <2>10 DEF value, Registered
    <3>4. EndpointsKnown(noted, knows)
      BY <2>3, <2>4, <2>10, DataKnownNow DEF EndpointsKnown
    <3>5. noted = Without(app'["provider"], {"data"})
      BY <1>2 DEF noted
    <3>6. DataKnownOf(noted, knows, stored["requirer"], stored["provider"],
                      "secret" \in due'["requirer"])
      BY <1>2, <2>8, <2>9, <3>2, <3>4, <3>5, DataKnownNow DEF DataKnownOf, HasSecret, Has
    <3>7. DataKnown'
      BY <1>2, <2>6, <2>8, <3>1, <3>3, <3>6, DataKnownLater
    <3> QED
      BY <3>1, <3>7
  <2>11. CASE emitted # "none"
    <3> DEFINE fetched == FetchWithSecrets("credentials")
    <3>1. /\ told'["requirer"] = [credentials |-> fetched, endpoints |-> EventEndpoints]
          /\ event'.name = emitted /\ event'.says = EventPassword(Registered(added))
      BY <2>1, <2>11, TheRequirer DEF TellsData, Heard
    <3>2. /\ told'["requirer"] # Nothing
          /\ told'["requirer"].credentials = fetched /\ told'["requirer"].endpoints = EventEndpoints
      BY <3>1, RecordsAreSomething
    <3>3. HasSecret => /\ fetched = stored["provider"] /\ value = stored["provider"]
                       /\ stored["provider"] # Nothing
      <4>1. HasSecret => stored["provider"] \in Values
        BY <2>8, DataKnownNow DEF HasSecret, Has
      <4> QED
        BY <2>11, <4>1, RelationAssumption DEF FetchWithSecrets, SecretFields, value, Refreshed
    <3>4. "endpoints" \in DOMAIN noted => EventEndpoints = noted["endpoints"]
      BY <2>6 DEF EventEndpoints, FetchWithoutSecrets, Has
    <3>5. noted = Without(app'["provider"], {"data"})
      BY <1>2 DEF noted
    <3> HIDE DEF fetched
    <3>6. DataKnownOf(noted, told'["requirer"], value, stored["provider"],
                      "secret" \in due'["requirer"])
      BY <1>2, <2>8, <2>9, <3>1, <3>2, <3>3, <3>4, <3>5, DataKnownNow
         DEF DataKnownOf, EndpointsKnown, HasSecret, Has
    <3>7. DataKnown'
      BY <1>2, <2>6, <2>8, <3>6, DataKnownLater
    <3>8. Says
      <4> SUFFICES ASSUME "secret-user" \in added
                   PROVE  EventPassword(Registered(added)) = fetched
        BY <2>5, <3>1, <3>2
      <4>1. HasSecret /\ stored["requirer"] = Nothing
        BY <1>1, <2>2 DEF FirstInv, SecretNoted
      <4> QED
        BY <3>3, <4>1 DEF EventPassword, Registered
    <3> QED
      BY <3>7, <3>8
  <2> QED
    BY <2>10, <2>11
<1>5. CASE hook = "secret"
  <2>1. OpenSearchSecretChanged \/ EtcdSecretChanged \/ OtherSecretChanged
    BY <1>5 DEF DataRequirerHook
  <2>2. PICK V : /\ HookRan("requirer", "provider", "secret", app["requirer"], unit["requirer"], V)
                 /\ V \in {stored["requirer"], Refreshed}
    BY Zenon, <2>1, TheRequirer
       DEF OpenSearchSecretChanged, EtcdSecretChanged, OtherSecretChanged, RunsOnly, Runs
  <2>3. /\ unit'["requirer"] = unit["requirer"] /\ stored'["requirer"] = V
        /\ "secret" \in due["requirer"] /\ stage["requirer"] \in {"created", "joined"} /\ ~ dying
        /\ Informed' => Informed
    BY <2>2, RequirerRuns DEF HookRan, Written, Comes
  <2>4. "secret-user" \in DOMAIN kept /\ HasSecret
    BY <1>1, <2>3 DEF FirstInv, SecretNoted
  <2>5. /\ stored["provider"] \in Values /\ stored["provider"] # Nothing
        /\ knows # Nothing /\ stored["requirer"] # Nothing /\ knows.credentials # Nothing
    BY <2>3, <2>4, DataKnownNow, RelationAssumption DEF HasSecret, Has
  <2>6. V # Nothing
    BY <2>2, <2>4, <2>5 DEF Refreshed
  <2>7. FetchWithSecrets("credentials") = stored["provider"]
    BY <2>4 DEF FetchWithSecrets, SecretFields
  <2>8. ASSUME NEW reading, told'["requirer"] = reading, reading # Nothing,
               reading = [credentials |-> reading.credentials, endpoints |-> reading.endpoints],
               interface = "etcd" \/ reading.endpoints = knows.endpoints,
               \/ interface \in {"opensearch", "etcd"} /\ reading.credentials = stored["provider"]
               \/ interface \in {"database", "kafka"} /\ reading = knows
        PROVE  DataKnown'
    <3>1. EndpointsKnown(kept, reading)
      BY <2>8, DataKnownNow DEF EndpointsKnown
    <3>2. reading.credentials # Nothing
      BY <2>5, <2>8
    <3>3. Informed' => kept = Without(app'["provider"], {"data"})
      BY <1>2, <2>3, DataKnownNow
    <3>4. DataKnownOf(kept, reading, V, stored["provider"], "secret" \in due'["requirer"])
      BY <1>2, <2>5, <2>6, <2>8, <3>1, <3>2, <3>3, DataKnownNow DEF DataKnownOf
    <3> QED
      BY <1>2, <2>3, <2>8, <3>4, DataKnownLater
  <2>9. CASE OpenSearchSecretChanged
    <3>1. /\ told'["requirer"] = [knows EXCEPT !.credentials = stored["provider"]]
          /\ event'.name = "authentication_updated"
      BY <2>7, <2>9, TheRequirer DEF OpenSearchSecretChanged, Heard
    <3>2. knows = [credentials |-> knows.credentials, endpoints |-> knows.endpoints]
      BY <2>5, DataKnownNow
    <3>3. [knows EXCEPT !.credentials = stored["provider"]]
              = [credentials |-> stored["provider"], endpoints |-> knows.endpoints]
      BY <3>2
    <3>4. interface = "opensearch"
      BY <2>9 DEF OpenSearchSecretChanged
    <3> HIDE DEF knows
    <3>5. DataKnown'
      BY <2>8, <3>1, <3>3, <3>4, RecordsAreSomething
    <3> QED
      BY <3>1, <3>5
  <2>10. CASE EtcdSecretChanged
    <3>1. /\ told'["requirer"] = [credentials |-> stored["provider"], endpoints |-> EventEndpoints]
          /\ event'.name = "etcd_ready"
      BY <2>7, <2>10, TheRequirer DEF EtcdSecretChanged, TellsData, Heard
    <3>2. interface = "etcd"
      BY <2>10 DEF EtcdSecretChanged
    <3>3. DataKnown'
      BY <2>8, <3>1, <3>2, RecordsAreSomething
    <3> QED
      BY <3>1, <3>3
  <2>11. CASE OtherSecretChanged
    <3>1. /\ told' = told /\ event'.name = "none" /\ interface \in {"database", "kafka"}
      BY <2>11, EventNames DEF OtherSecretChanged, Silent
    <3>2. knows = [credentials |-> knows.credentials, endpoints |-> knows.endpoints]
      BY <2>5, DataKnownNow
    <3>3. DataKnown'
      BY <2>5, <2>8, <3>1, <3>2
    <3> QED
      BY <3>1, <3>3
  <2> QED
    BY <2>1, <2>9, <2>10, <2>11
<1>6. CASE hook \in {"joined", "departed", "broken", "elected"}
  <2>1. /\ HookRan("requirer", "provider", hook, app["requirer"], unit["requirer"],
                   SecretOfRelation(hook))
        /\ told' = told /\ event'.name = "none"
    <3>1. /\ RunsStoring("requirer", hook, app["requirer"], unit["requirer"], SecretOfRelation(hook))
          /\ Silent
      BY <1>6 DEF DataRequirerHook
    <3> QED
      BY <3>1, TheRequirer, EventNames DEF Silent
  <2>2. /\ unit'["requirer"] = unit["requirer"] /\ stored'["requirer"] = SecretOfRelation(hook)
        /\ "secret" \in due["requirer"] => "secret" \in due'["requirer"]
        /\ Informed' => Informed
        /\ hook = "broken" => dying
    BY <1>6, <2>1, RequirerRuns, StagesOfHooks DEF HookRan, Written
  <2>3. dying \/ SecretOfRelation(hook) = stored["requirer"]
    BY <2>2 DEF SecretOfRelation
  <2>4. Informed' => kept = Without(app'["provider"], {"data"})
    BY <1>2, <2>2, DataKnownNow
  <2>5. DataKnownOf(kept, knows, stored'["requirer"], stored["provider"], "secret" \in due'["requirer"])
    BY <1>2, <2>2, <2>3, <2>4, DataKnownNow DEF DataKnownOf
  <2>6. DataKnown'
    BY <1>2, <2>1, <2>2, <2>5, DataKnownLater
  <2> QED
    BY <2>1, <2>6
<1> QED
  BY <1>3, <1>4, <1>5, <1>6 DEF DataRequirerHook

LEMMA DataProviderKeeps ==
    ASSUME FrameOK, DataKnown, NEW hook, DataProviderHook(hook)
    PROVE  DataKnown'
<1>1. ProviderWakes
  BY ProvidersWake DEF MovesOfProvider
<1>2. unit'["requirer"] = unit["requirer"]
  BY ProviderMovesAlone DEF MovesOfProvider
<1>3. DOMAIN Note(app["provider"], app["requirer"]) = DOMAIN app["provider"] \cup {"data"}
  BY WithEntry DEF Note
<1>4. PICK A, V : /\ HookRan("provider", "requirer", hook, A, unit["provider"], V)
                  /\ V = stored["provider"] \/ hook = "broken"
  BY Zenon, TheProvider
     DEF DataProviderHook, DatabaseProviderChanged, KafkaProviderChanged,
         OpenSearchProviderChanged, EtcdProviderChanged, Requested, RunsOnly, Runs
<1>5. /\ stored'["provider"] = stored["provider"] \/ dying'
      /\ dying' = dying
  BY <1>4, StagesOfHooks DEF HookRan
<1>6. "secret-user" \in DOMAIN app'["provider"] => "secret-user" \in DOMAIN app["provider"]
  BY <1>3, DataProviderWrites
<1>7. Informed' => Noted(unit["requirer"]) = Without(app'["provider"], {"data"})
  BY <1>1, ProviderRuns, DataKnownNow
<1>8. DataKnownOf(Noted(unit["requirer"]), told["requirer"], stored["requirer"], stored'["provider"],
                  "secret" \in due'["requirer"])
  BY <1>1, <1>5, <1>6, <1>7, DataKnownNow DEF DataKnownOf, ProviderWakes
<1> QED
  BY <1>1, <1>2, <1>8, DataKnownLater DEF ProviderWakes

LEMMA DataStepKeeps ==
    ASSUME FrameOK, FirstInv, DataKnown, DataStep
    PROVE  DataKnown'
<1>1. PICK field \in {"credentials", "endpoints"}, value \in Values : Given(field, value)
  BY DataStepGives, GivenFacts
<1>2. /\ unit' = unit /\ told' = told /\ stored'["requirer"] = stored["requirer"]
      /\ dying' = dying /\ interface' = interface /\ interface \in Flavours
  BY <1>1 DEF Given, NothingHeard
<1>3. Informed' => Informed /\ app' = app
  BY <1>1 DEF Given, Informed
<1>4. \/ stored'["provider"] = value
      \/ /\ stored'["provider"] = stored["provider"]
         /\ "secret-user" \in DOMAIN app'["provider"] => "secret-user" \in DOMAIN app["provider"]
  <2>1. DOMAIN Updated(app["provider"], Entry(field, value)) = DOMAIN app["provider"] \cup {field}
    BY WithEntry
  <2> QED
    BY <1>1, <2>1 DEF Given
<1>5. /\ "secret" \in due["requirer"] => "secret" \in due'["requirer"]
      /\ \/ "secret" \in due'["requirer"] \/ stored["requirer"] = Nothing
         \/ stored'["provider"] = stored["provider"]
  BY <1>1 DEF Given
<1>6. Informed' => Noted(unit["requirer"]) = Without(app'["provider"], {"data"})
  BY <1>3, DataKnownNow
<1>7. DataKnownOf(Noted(unit["requirer"]), told["requirer"], stored["requirer"], stored'["provider"],
                  "secret" \in due'["requirer"])
  BY <1>2, <1>4, <1>5, <1>6, DataKnownNow DEF DataKnownOf
<1> QED
  BY <1>2, <1>7, DataKnownLater

(***************************************************************************)
(* Together                                                                *)
(***************************************************************************)
AnswerKnown ==
    /\ interface = "redis" => RedisKnown
    /\ interface = "saml" => SamlKnown
    /\ interface = "s3" => S3Known
    /\ interface = "ingress" => IngressKnown
    /\ interface = "loki" => LokiKnown
    /\ interface = "dashboards" => DashboardsRendered
    /\ interface = "tracing" => TracingKnown
    /\ interface \in Flavours => DataKnown

AnswerInv == AnswerKnown /\ EndpointKnown /\ FirstPasswordIsCurrent

LEMMA KnownOfOne ==
    /\ interface' = "redis" /\ RedisKnown' => AnswerKnown'
    /\ interface' = "saml" /\ SamlKnown' => AnswerKnown'
    /\ interface' = "s3" /\ S3Known' => AnswerKnown'
    /\ interface' = "ingress" /\ IngressKnown' => AnswerKnown'
    /\ interface' = "loki" /\ LokiKnown' => AnswerKnown'
    /\ interface' = "dashboards" /\ DashboardsRendered' => AnswerKnown'
    /\ interface' = "tracing" /\ TracingKnown' => AnswerKnown'
    /\ interface' \in Flavours /\ DataKnown' => AnswerKnown'
    /\ interface' \in {"forwarder", "promtail", "scrape"} => AnswerKnown'
  BY DEF AnswerKnown, Flavours

\* What Juju does leaves the databags alone, and makes no one more informed.
Undisturbed ==
    /\ interface' = interface /\ app' = app /\ unit' = unit /\ stored' = stored /\ told' = told
    /\ led' => led
    /\ dying => dying'
    /\ stage'["requirer"] = "joined" => stage["requirer"] = "joined"
    /\ \A s \in Sides : stage'[s] \in {"none", "new"} <=> stage[s] \in {"none", "new"}
    /\ \A h \in {"app", "unit", "secret"} : h \in due["requirer"] => h \in due'["requirer"]

LEMMA UndisturbedKnows ==
    ASSUME FrameOK, AnswerKnown, Undisturbed
    PROVE  AnswerKnown'
<1>1. Informed' => Informed
  BY DEF Informed, Undisturbed
<1>2. /\ Reading("requirer")' = Reading("requirer")
      /\ PeerDashboards' = PeerDashboards
      /\ DashboardsPublished' = DashboardsPublished
      /\ Has(app["provider"], {"dashboards"})' <=> Has(app["provider"], {"dashboards"})
      /\ Has(app["provider"], S3RequiredOptions)' <=> Has(app["provider"], S3RequiredOptions)
      /\ TracingIsValid(app["provider"])' <=> TracingIsValid(app["provider"])
      /\ NoRelation' <=> NoRelation
      /\ IngressLoad(app["provider"])' = IngressLoad(app["provider"])
  BY TheReading, TheSides
     DEF Undisturbed, PeerDashboards, DashboardsPublished, Has, TracingIsValid, NoRelation, IngressLoad
<1>3. interface = "redis" /\ RedisKnown => RedisKnown'
  BY DEF Undisturbed, RedisKnown
<1>4. interface = "saml" /\ SamlKnown => SamlKnown'
  <2>1. SamlGiven(stored["provider"], app["provider"])' <=> SamlGiven(stored["provider"], app["provider"])
    BY DEF Undisturbed, SamlGiven
  <2> QED
    BY <1>1, <1>2, <2>1, TheSides DEF Undisturbed, SamlKnown, ReadsNow
<1>5. interface = "s3" /\ S3Known => S3Known'
  BY <1>1, <1>2 DEF Undisturbed, S3Known, ReadsNow
<1>6. interface = "ingress" /\ IngressKnown => IngressKnown'
  BY <1>1, <1>2 DEF Undisturbed, IngressKnown
<1>7. interface = "loki" /\ LokiKnown => LokiKnown'
  <2>1. stage'["requirer"] = stage["requirer"] => LokiEndpoints("app")' = LokiEndpoints("app")
    BY LokiEndpointsStay DEF Undisturbed
  <2> QED
    BY <1>1, <2>1 DEF Undisturbed, LokiKnown, Informed
<1>8. interface = "dashboards" /\ DashboardsRendered => DashboardsRendered'
  BY <1>1, <1>2 DEF Undisturbed, DashboardsRendered, Rendered
<1>9. interface = "tracing" /\ TracingKnown => TracingKnown'
  BY <1>1, <1>2 DEF Undisturbed, TracingKnown, ReadsNow
<1>10. ASSUME interface \in Flavours, DataKnown
       PROVE  DataKnown'
  <2>1. /\ interface' = interface /\ unit' = unit /\ told' = told /\ stored' = stored /\ app' = app
        /\ dying => dying'
        /\ "secret" \in due["requirer"] => "secret" \in due'["requirer"]
    BY DEF Undisturbed
  <2>2. DataKnownOf(Noted(unit["requirer"]), told["requirer"], stored["requirer"],
                    stored["provider"], "secret" \in due'["requirer"])
    BY <1>1, <1>10, <2>1, DataKnownNow DEF DataKnownOf
  <2> QED
    BY <2>1, <2>2, DataKnownLater
<1> QED
  BY Zenon, <1>3, <1>4, <1>5, <1>6, <1>7, <1>8, <1>9, <1>10 DEF AnswerKnown, Undisturbed

LEMMA MadeKnows ==
    ASSUME FrameOK, GoneInv, AnswerKnown, Made
    PROVE  AnswerKnown'
<1>1. /\ interface' = interface /\ stored' = stored /\ dying' = FALSE
      /\ stage["requirer"] = "none" /\ stage'["requirer"] = "new"
      /\ stage["provider"] = "none"
      /\ app'["provider"] = NoData /\ unit'["requirer"] = NoData /\ told'["requirer"] = Nothing
  BY TheSides DEF Made
<1>2. ~ Informed'
  BY <1>1 DEF Informed
<1>3. \A keys : keys # {} => ~ Has(NoData, keys)
  BY NoDataIsEmpty DEF Has
<1>4. /\ ~ Has(app["provider"], {"dashboards"})' /\ ~ Has(app["provider"], S3RequiredOptions)'
      /\ ~ TracingIsValid(app["provider"])'
  BY <1>1, NoDataIsEmpty DEF Has, TracingIsValid, S3RequiredOptions
<1>5. /\ RedisKnown' /\ LokiKnown'
      /\ S3Known' /\ TracingKnown'
  BY <1>1, <1>2, <1>4 DEF RedisKnown, LokiKnown, S3Known, TracingKnown
<1>6. interface = "saml" => SamlKnown'
  BY <1>1, <1>2 DEF SamlKnown, AnswerKnown
<1>7. interface = "ingress" => IngressKnown'
  BY <1>1, <1>2 DEF IngressKnown, AnswerKnown, NoRelation
<1>8. interface = "dashboards" => DashboardsRendered'
  BY <1>1, <1>2 DEF DashboardsRendered, NoRelation
<1>9. DataKnown'
  <2>1. DataKnownOf(NoData, Nothing, stored["requirer"], stored["provider"],
                    "secret" \in due'["requirer"])
    BY <1>1, <1>2, NoDataIsEmpty DEF DataKnownOf, EndpointsKnown
  <2> QED
    BY <1>1, <2>1, DataKnownLater, NotedIs
<1> QED
  BY Zenon, <1>1, <1>5, <1>6, <1>7, <1>8, <1>9 DEF AnswerKnown

LEMMA JujuKnows ==
    ASSUME FrameOK, GoneInv, AnswerKnown, Juju
    PROVE  AnswerKnown'
<1>1. Removed => Undisturbed
  BY TheSides DEF Removed, Undisturbed
<1>2. Elected => Undisturbed
  BY TheSides DEF Elected, Undisturbed
<1> QED
  BY <1>1, <1>2, UndisturbedKnows, MadeKnows, JujuFacts

LEMMA AnswerKnownStep ==
    ASSUME NothingIsApart, FrameOK, GoneInv, TypesInv, CredentialsInv, NewsInv, AnswerKnown, Next
    PROVE  AnswerKnown'
<1>1. interface' = interface
  BY FrameStep
<1>2. CASE interface = "redis" /\ (RedisStep \/ \E s \in Sides, hook \in AllHooks : RedisHook(s, hook))
  <2>1. RedisKnown
    BY <1>2 DEF AnswerKnown
  <2>2. RedisKnown'
    BY Zenon, <1>2, <2>1, RedisRequirerKnows, RedisProviderKeeps, ProvidersWake
       DEF RedisHook, MovesOfProvider
  <2> QED
    BY <1>1, <1>2, <2>2, KnownOfOne
<1>3. CASE interface = "saml" /\ (SamlStep \/ \E s \in Sides, hook \in AllHooks : SamlHook(s, hook))
  <2>1. SamlKnown
    BY <1>3 DEF AnswerKnown
  <2>2. SamlKnown'
    BY Zenon, <1>3, <2>1, SamlRequirerKnows, SamlProviderGives, ProvidersWake
       DEF SamlHook, MovesOfProvider
  <2> QED
    BY <1>1, <1>3, <2>2, KnownOfOne
<1>4. CASE interface = "s3" /\ (S3Step \/ \E s \in Sides, hook \in AllHooks : S3Hook(s, hook))
  <2>1. S3Known
    BY <1>4 DEF AnswerKnown
  <2>2. S3Known'
    BY Zenon, <1>4, <2>1, S3RequirerKnows, S3ProviderKeeps, ProvidersWake DEF S3Hook, MovesOfProvider
  <2> QED
    BY <1>1, <1>4, <2>2, KnownOfOne
<1>5. CASE interface = "ingress"
           /\ (IngressStep \/ \E s \in Sides, hook \in AllHooks : IngressHook(s, hook))
  <2>1. IngressKnown /\ ReadyInv
    BY <1>5 DEF AnswerKnown, NewsInv
  <2>2. IngressKnown'
    BY Zenon, <1>5, <2>1, IngressRequirerKnows, IngressProviderKeeps, ProvidersWake
       DEF IngressHook, MovesOfProvider
  <2> QED
    BY <1>1, <1>5, <2>2, KnownOfOne
<1>6. CASE interface = "tracing"
           /\ (TracingStep \/ \E s \in Sides, hook \in AllHooks : TracingHook(s, hook))
  <2>1. TracingKnown
    BY <1>6 DEF AnswerKnown
  <2>2. TracingKnown'
    BY Zenon, <1>6, <2>1, TracingRequirerKnows, TracingOtherKnows, TracingProviderKeeps, ProvidersWake
       DEF TracingStep, TracingHook, MovesOfProvider
  <2> QED
    BY <1>1, <1>6, <2>2, KnownOfOne
<1>7. CASE interface \in Flavours
           /\ (DataStep \/ \E s \in Sides, hook \in AllHooks : DataHook(s, hook))
  <2>1. DataKnown /\ FirstInv
    BY <1>7 DEF AnswerKnown, NewsInv
  <2>2. DataKnown'
    BY Zenon, <1>7, <2>1, DataRequirerKnows, DataProviderKeeps, DataStepKeeps DEF DataHook
  <2> QED
    BY <1>1, <1>7, <2>2, KnownOfOne
<1>8. CASE interface \in LokiClients
           /\ (LokiStep \/ \E s \in Sides, hook \in AllHooks : LokiHook(s, hook))
  <2>1. CASE interface \in {"forwarder", "promtail"}
    BY <1>1, <2>1, KnownOfOne
  <2>2. CASE interface = "loki"
    <3>1. LokiKnown
      BY <2>2 DEF AnswerKnown
    <3>2. ~ LogContainerReplaced
      BY <2>2 DEF LogContainerReplaced
    <3>3. ~ (\E hook : ForwarderHook(hook) \/ PromtailHook(hook))
      BY <2>2 DEF ForwarderHook, PromtailHook
    <3>4. LokiKnown'
      BY Zenon, <1>8, <3>1, <3>2, <3>3, LokiRequirerKnows, LokiProviderKeeps, ProvidersWake
         DEF LokiStep, LokiHook, MovesOfProvider
    <3> QED
      BY <1>1, <2>2, <3>4, KnownOfOne
  <2> QED
    BY <1>8, <2>1, <2>2 DEF LokiClients
<1>9. CASE interface = "scrape"
  BY <1>1, <1>9, KnownOfOne
<1>10. CASE interface = "dashboards"
            /\ (DashboardsStep \/ \E s \in Sides, hook \in AllHooks : DashboardsHook(s, hook))
  <2>1. DashboardsRendered
    BY <1>10 DEF AnswerKnown
  <2>2. DashboardsRendered'
    BY Zenon, <1>10, <2>1, DashboardsRequirerRenders, DashboardsProviderKeeps, ProvidersWake
       DEF DashboardsHook, MovesOfProvider
  <2> QED
    BY <1>1, <1>10, <2>2, KnownOfOne
<1> QED
  BY Zenon, <1>2, <1>3, <1>4, <1>5, <1>6, <1>7, <1>8, <1>9, <1>10, JujuKnows, StepOfTheInterface

LEMMA AnswerStep ==
    ASSUME NothingIsApart, FrameOK, GoneInv, TypesInv, CredentialsInv, NewsInv, AnswerInv,
           [Next]_relationVars
    PROVE  AnswerInv'
<1>1. CASE UNCHANGED relationVars
  <2>1. /\ Undisturbed
        /\ event' = event /\ leader' = leader /\ told' = told /\ app' = app
    BY <1>1 DEF relationVars, databags, heard, Undisturbed
  <2>2. AnswerKnown'
    BY <2>1, UndisturbedKnows DEF AnswerInv
  <2> QED
    BY <2>1, <2>2
       DEF AnswerInv, EndpointKnown, FirstPasswordIsCurrent, TracingIsValid, Has, TracingDump
<1>2. CASE Next
  <2>1. AnswerKnown'
    BY <1>2, AnswerKnownStep DEF AnswerInv
  <2>2. EndpointKnown'
    <3>1. CASE event'.name = "endpoint_changed"
      <4>1. PICK hook : TracingRequirerHook(hook)
        BY <1>2, <3>1, EventsOfTheInterface
      <4>2. TracingKnown
        BY <4>1 DEF TracingRequirerHook, AnswerInv, AnswerKnown
      <4> QED
        BY <4>1, <4>2, TracingRequirerKnows
    <3>2. CASE event'.name # "endpoint_changed"
      BY <3>2 DEF EndpointKnown
    <3> QED
      BY <3>1, <3>2
  <2>3. FirstPasswordIsCurrent'
    <3>1. CASE event'.name \in {"database_created", "topic_created", "index_created"}
      <4>1. PICK hook : DataRequirerHook(hook)
        BY <1>2, <3>1, EventsOfTheInterface
      <4>2. DataKnown /\ FirstInv
        BY <4>1 DEF DataRequirerHook, AnswerInv, AnswerKnown, NewsInv
      <4>3. event'.says = told'["requirer"].credentials
        BY <3>1, <4>1, <4>2, DataRequirerKnows
      <4> QED
        BY <4>3 DEF FirstPasswordIsCurrent
    <3>2. CASE event'.name \notin {"database_created", "topic_created", "index_created"}
      BY <3>2 DEF FirstPasswordIsCurrent
    <3> QED
      BY <3>1, <3>2
  <2> QED
    BY <2>1, <2>2, <2>3 DEF AnswerInv
<1> QED
  BY <1>1, <1>2

LEMMA AnswerInvariant == ASSUME NothingIsApart PROVE Spec => []AnswerInv
<1>1. RelationInit => AnswerInv
  <2> SUFFICES ASSUME RelationInit
               PROVE  AnswerInv
    OBVIOUS
  <2>1. /\ \A s \in Sides : /\ stage[s] = "none" /\ due[s] = {} /\ app[s] = NoData
                            /\ unit[s] = NoData /\ stored[s] = Nothing /\ told[s] = Nothing
        /\ event.name = "none"
    BY DEF RelationInit, NoEvent
  <2>2. /\ ~ Informed /\ ~ Has(app["provider"], {"dashboards"})
        /\ ~ Has(app["provider"], S3RequiredOptions)
        /\ ~ TracingIsValid(app["provider"])
        /\ ~ SecretNoted /\ ~ HasSecret /\ "endpoints" \notin DOMAIN Noted(unit["requirer"])
    BY <2>1, TheSides, NoDataIsEmpty, NotedIs
       DEF Informed, Has, S3RequiredOptions, TracingIsValid, SecretNoted, HasSecret
  <2>3. RedisKnown /\ SamlKnown /\ S3Known /\ IngressKnown
    BY <2>1, <2>2, TheSides DEF RedisKnown, SamlKnown, S3Known, IngressKnown
  <2>4. LokiKnown /\ DashboardsRendered /\ TracingKnown /\ DataKnown
    BY <2>1, <2>2, TheSides
       DEF LokiKnown, DashboardsRendered, NoRelation, TracingKnown, DataKnown, EndpointsKnown
  <2>5. EndpointKnown /\ FirstPasswordIsCurrent
    BY <2>1 DEF EndpointKnown, FirstPasswordIsCurrent
  <2> QED
    BY Zenon, <2>3, <2>4, <2>5 DEF AnswerInv, AnswerKnown
<1>2. /\ FrameOK /\ GoneInv /\ TypesInv /\ CredentialsInv /\ NewsInv /\ AnswerInv
      /\ [Next]_relationVars
      => AnswerInv'
  BY AnswerStep
<1> QED
  BY <1>1, <1>2, FrameInvariant, GoneInvariant, TypesInvariant, CredentialsInvariant, NewsInvariant,
     PTL DEF Spec

LEMMA SettledIsInformed ==
    Settled("requirer") =>
        /\ Informed /\ ~ dying /\ stage["requirer"] = "joined" /\ due["requirer"] = {}
  BY DEF Settled, Informed

LEMMA RedisAnswers ==
    ASSUME RedisKnown, Settled("requirer")
    PROVE  /\ NothingIsApart => told["requirer"] # Nothing
           /\ RedisUrl([told["requirer"] EXCEPT !.app = app["provider"]])
              = RedisUrl(Reading("requirer"))
<1>1. PICK a : told["requirer"] = [app |-> a, unit |-> unit["provider"]]
  BY SettledIsInformed DEF RedisKnown
<1>2. [told["requirer"] EXCEPT !.app = app["provider"]] = Reading("requirer")
  BY <1>1, TheReading
<1> QED
  BY <1>1, <1>2, RecordsAreSomething

LEMMA SamlAnswers ==
    ASSUME NothingIsApart, SamlKnown, Settled("requirer")
    PROVE  /\ SamlAnswer(told["requirer"]) = SamlAnswer(Reading("requirer"))
           /\ stored["provider"] # Nothing =>
                  LET given == stored["provider"]
                      read == SamlAnswer(told["requirer"])
                  IN  /\ read.entity_id = given.entity_id
                      /\ given.metadata_url # Nothing => read.metadata_url = given.metadata_url
                      /\ given.url # Nothing => [url |-> given.url] \in read.endpoints
<1>1. /\ app["provider"] # NoData => told["requirer"] = Reading("requirer")
      /\ app["provider"] = NoData => told["requirer"] = Nothing
  BY SettledIsInformed DEF SamlKnown, ReadsNow
<1>2. SamlAnswer(told["requirer"]) = SamlAnswer(Reading("requirer"))
  BY <1>1, TheReading DEF SamlAnswer
<1>3. ASSUME stored["provider"] # Nothing
      PROVE  LET given == stored["provider"]
                 read == SamlAnswer(told["requirer"])
             IN  /\ read.entity_id = given.entity_id
                 /\ given.metadata_url # Nothing => read.metadata_url = given.metadata_url
                 /\ given.url # Nothing => [url |-> given.url] \in read.endpoints
  <2> DEFINE bag == app["provider"]
             given == stored["provider"]
  <2>1. SamlGiven(given, bag)
    BY <1>3 DEF SamlKnown
  <2>2. bag # NoData
    BY <2>1, NoDataIsEmpty DEF SamlGiven
  <2>3. SamlAnswer(told["requirer"]) = SamlFromRelationData(bag)
    BY <1>1, <2>2, TheReading DEF SamlAnswer
  <2>4. /\ SamlFromRelationData(bag).entity_id = bag["entity_id"]
        /\ "metadata_url" \in DOMAIN bag =>
               SamlFromRelationData(bag).metadata_url = bag["metadata_url"]
        /\ "redirect_url" \in DOMAIN bag =>
               [url |-> bag["redirect_url"]] \in SamlFromRelationData(bag).endpoints
    BY DEF SamlFromRelationData, SamlEndpoints, Has
  <2> QED
    BY <2>1, <2>3, <2>4 DEF SamlGiven
<1> QED
  BY <1>2, <1>3

LEMMA S3Answers ==
    ASSUME NothingIsApart, S3Known, Settled("requirer")
    PROVE  S3ConnectionInfo(told["requirer"]) = S3ConnectionInfo(Reading("requirer"))
  BY SettledIsInformed, TheReading DEF S3Known, ReadsNow, S3ConnectionInfo

LEMMA IngressAnswers ==
    ASSUME NothingIsApart, interface = "ingress", IngressKnown, ReadyInv, Settled("requirer")
    PROVE  /\ app["provider"] # NoData =>
                  IngressUrlFromRelationData(told["requirer"])
                  = IngressUrlFromRelationData(Reading("requirer"))
           /\ \A url \in IngressProxiedEndpoints : IngressUrl = url
<1>1. app["provider"] # NoData =>
          told["requirer"] # Nothing /\ stored["requirer"] = IngressLoad(app["provider"])
  BY SettledIsInformed DEF IngressKnown
<1>2. app["provider"] # NoData =>
          IngressUrlFromRelationData(told["requirer"])
          = IngressUrlFromRelationData(Reading("requirer"))
  BY <1>1, TheReading DEF ReadyInv, IngressUrlFromRelationData
<1>3. ASSUME NEW url \in IngressProxiedEndpoints
      PROVE  IngressUrl = url
  <2>1. url = IngressLoad(app["provider"]) /\ url # Nothing
    BY DEF IngressProxiedEndpoints, IngressPublishedUrl
  <2>2. app["provider"] # NoData
    BY <2>1, NoDataIsEmpty DEF IngressLoad, Has
  <2> QED
    BY <1>1, <2>1, <2>2 DEF IngressUrl
<1> QED
  BY <1>2, <1>3

LEMMA TracingAnswers ==
    ASSUME NothingIsApart, TracingKnown, Settled("requirer")
    PROVE  TracingAllEndpoints(told["requirer"]) = TracingAllEndpoints(Reading("requirer"))
  BY SettledIsInformed, TheReading DEF TracingKnown, ReadsNow, TracingAllEndpoints, TracingIsReady

LEMMA EndpointIsFound ==
    ASSUME NothingIsApart, EndpointKnown
    PROVE  NoEndpointIsNoError
<1> SUFFICES ASSUME event.name = "endpoint_changed", leader["requirer"]
             PROVE  CharmTracingConfig(told["requirer"]) \in Values \cup {Nothing}
  BY DEF NoEndpointIsNoError
<1> DEFINE reading == told["requirer"]
           receivers == TracingAllEndpoints(reading)
           found == IF receivers = Nothing THEN {} ELSE {r \in receivers : r.protocol = "otlp_http"}
<1>1. /\ app["requirer"] = TracingDump(TracingProtocols)
      /\ TracingIsReady(reading) /\ reading.app.receivers \in SUBSET TracingReceivers
  BY DEF EndpointKnown, TracingIsReady
<1>2. TracingIsValid(app["requirer"]) /\ "otlp_http" \in app["requirer"].receivers
  BY <1>1 DEF TracingDump, TracingIsValid, Has, TracingProtocols
<1>3. CharmTracingConfig(reading) = TracingGetEndpoint(reading, "otlp_http")
  BY <1>1 DEF CharmTracingConfig
<1>4. receivers \in SUBSET TracingReceivers
  BY <1>1 DEF TracingAllEndpoints
<1>5. TracingFound(reading, "otlp_http") = IF found = {} THEN Nothing ELSE (CHOOSE r \in found : TRUE).url
  BY DEF TracingFound
<1>6. TracingFound(reading, "otlp_http") \in Values \cup {Nothing}
  <2>1. ASSUME NEW r \in found
        PROVE  r.url \in Values
    BY <1>4 DEF TracingReceivers
  <2>2. found # {} => (CHOOSE r \in found : TRUE) \in found
    OBVIOUS
  <2> HIDE DEF found
  <2> QED
    BY <1>5, <2>1, <2>2
<1> QED
  BY <1>2, <1>3, <1>6 DEF TracingGetEndpoint

LEMMA DashboardsAnswer ==
    ASSUME GoneInv, interface = "dashboards", DashboardsRendered, Settled("requirer")
    PROVE  /\ led /\ "corrupt" \notin DashboardsPublished =>
                  PeerDashboards.this = Rendered(DashboardsPublished)
           /\ told["requirer"] = Nothing => PeerDashboards.this = {}
           /\ told["requirer"] # Nothing => told["requirer"] = PeerDashboards
  BY SettledIsInformed DEF DashboardsRendered, GoneInv, DashboardsTold, NoRelation

LEMMA DataAnswers ==
    ASSUME CredentialsInv, interface \in Flavours, DataKnown, Settled("requirer")
    PROVE  /\ DataFetched.endpoints # Nothing =>
                  /\ told["requirer"] # Nothing
                  /\ interface # "etcd" => told["requirer"].endpoints = DataFetched.endpoints
           /\ ResourceCreated =>
                  /\ told["requirer"] # Nothing /\ told["requirer"].credentials # Nothing
                  /\ interface \in {"opensearch", "etcd"} =>
                         told["requirer"].credentials = DataFetched.credentials
<1> DEFINE noted == Noted(unit["requirer"])
           knows == told["requirer"]
<1>1. /\ noted = Without(app["provider"], {"data"})
      /\ EndpointsKnown(noted, knows)
      /\ "secret-user" \in DOMAIN noted =>
             knows # Nothing /\ knows.credentials # Nothing
      /\ interface \in {"opensearch", "etcd"} /\ "secret-user" \in DOMAIN noted =>
             knows.credentials = stored["provider"]
  BY SettledIsInformed, DataKnownNow
<1>2. /\ DOMAIN noted = DOMAIN app["provider"] \ {"data"}
      /\ \A k \in DOMAIN app["provider"] \ {"data"} : noted[k] = app["provider"][k]
  <2> DEFINE published == Without(app["provider"], {"data"})
  <2>1. /\ DOMAIN published = DOMAIN app["provider"] \ {"data"}
        /\ \A k \in DOMAIN app["provider"] \ {"data"} : published[k] = app["provider"][k]
    BY Zenon, WithoutIs
  <2>2. noted = published
    BY <1>1
  <2> HIDE DEF published, noted
  <2> QED
    BY <2>1, <2>2
<1>3. /\ DataFetched.endpoints = FetchWithoutSecrets("endpoints")
      /\ DataFetched.credentials = FetchWithSecrets("credentials")
  BY DEF DataFetched, FetchWithSecrets, SecretFields
<1>4. "credentials" \notin DOMAIN app["provider"]
  BY DEF CredentialsInv
<1>5. FetchWithSecrets("credentials") = IF HasSecret THEN stored["provider"] ELSE Nothing
  BY <1>4 DEF FetchWithSecrets, FetchWithoutSecrets, SecretFields, Has
<1>6. HasSecret <=> "secret-user" \in DOMAIN app["provider"]
  BY DEF HasSecret, Has
<1>7. DataFetched.endpoints # Nothing =>
          "endpoints" \in DOMAIN noted /\ noted["endpoints"] = DataFetched.endpoints
  BY <1>2, <1>3 DEF FetchWithoutSecrets, Has
<1> QED
  BY <1>1, <1>2, <1>3, <1>5, <1>6, <1>7 DEF EndpointsKnown, ResourceCreated

\* A requirer that has run its hooks knows what the provider published last, whatever was
\* published, withdrawn and published again before, and in whichever order the handlers of
\* relation-changed and secret-changed ran (of redis, saml, s3, ingress, tracing, Loki,
\* dashboards and databases); what the libraries leave out is named at the property.
THEOREM AnswersArrive == ASSUME NothingIsApart PROVE Spec => []AnswerArrives
<1>1. ASSUME GoneInv, CredentialsInv, NewsInv, AnswerInv
      PROVE  AnswerArrives
  <2>1. FirstPasswordIsCurrent /\ NoEndpointIsNoError
    BY <1>1, EndpointIsFound DEF AnswerInv
  <2>2. GivenIsRead
    BY <1>1, SamlAnswers DEF GivenIsRead, AnswerInv, AnswerKnown
  <2>3. ProxiedIsKnown
    <3> SUFFICES ASSUME interface = "ingress", BothSettled
                 PROVE  \A url \in IngressProxiedEndpoints : IngressUrl = url
      BY DEF ProxiedIsKnown
    <3>1. Settled("requirer") /\ IngressKnown /\ ReadyInv
      BY <1>1, TheSides DEF BothSettled, AnswerInv, AnswerKnown, NewsInv
    <3> QED
      BY <3>1, IngressAnswers
  <2>4. ASSUME Settled("requirer")
        PROVE  LET knows == told["requirer"]
                   current == Reading("requirer")
               IN  /\ interface = "redis" =>
                          /\ knows # Nothing
                          /\ RedisUrl([knows EXCEPT !.app = app["provider"]]) = RedisUrl(current)
                   /\ interface = "saml" => SamlAnswer(knows) = SamlAnswer(current)
                   /\ interface = "s3" => S3ConnectionInfo(knows) = S3ConnectionInfo(current)
                   /\ interface = "ingress" /\ app["provider"] # NoData =>
                          IngressUrlFromRelationData(knows) = IngressUrlFromRelationData(current)
    <3>1. interface = "redis" => RedisKnown
      BY <1>1 DEF AnswerInv, AnswerKnown
    <3>2. interface = "saml" => SamlKnown
      BY <1>1 DEF AnswerInv, AnswerKnown
    <3>3. interface = "s3" => S3Known
      BY <1>1 DEF AnswerInv, AnswerKnown
    <3>4. interface = "ingress" => IngressKnown /\ ReadyInv
      BY <1>1 DEF AnswerInv, AnswerKnown, NewsInv
    <3> QED
      BY Zenon, <2>4, <3>1, <3>2, <3>3, <3>4, RedisAnswers, SamlAnswers, S3Answers, IngressAnswers
  <2>5. ASSUME Settled("requirer")
        PROVE  LET knows == told["requirer"]
                   current == Reading("requirer")
               IN  /\ interface = "loki" => knows # Nothing /\ knows.endpoints = LokiEndpoints("app")
                   /\ interface = "dashboards" =>
                          /\ led /\ "corrupt" \notin DashboardsPublished =>
                                 PeerDashboards.this = Rendered(DashboardsPublished)
                          /\ knows = Nothing => PeerDashboards.this = {}
                          /\ knows # Nothing => knows = PeerDashboards
                   /\ interface = "tracing" =>
                          TracingAllEndpoints(knows) = TracingAllEndpoints(current)
    <3>1. interface = "loki" => LokiKnown
      BY <1>1 DEF AnswerInv, AnswerKnown
    <3>2. interface = "dashboards" => DashboardsRendered
      BY <1>1 DEF AnswerInv, AnswerKnown
    <3>3. interface = "tracing" => TracingKnown
      BY <1>1 DEF AnswerInv, AnswerKnown
    <3>4. Informed
      BY <2>5, SettledIsInformed
    <3> QED
      BY Zenon, <1>1, <2>5, <3>1, <3>2, <3>3, <3>4, DashboardsAnswer, TracingAnswers DEF LokiKnown
  <2>6. ASSUME Settled("requirer")
        PROVE  LET knows == told["requirer"]
               IN  /\ interface \in Flavours /\ DataFetched.endpoints # Nothing =>
                          /\ knows # Nothing
                          /\ interface # "etcd" => knows.endpoints = DataFetched.endpoints
                   /\ interface \in Flavours /\ ResourceCreated =>
                          /\ knows # Nothing /\ knows.credentials # Nothing
                          /\ interface \in {"opensearch", "etcd"} =>
                                 knows.credentials = DataFetched.credentials
    BY Zenon, <1>1, <2>6, DataAnswers DEF AnswerInv, AnswerKnown
  <2> QED
    BY Zenon, <2>1, <2>2, <2>3, <2>4, <2>5, <2>6 DEF AnswerArrives
<1> QED
  BY <1>1, GoneInvariant, CredentialsInvariant, NewsInvariant, AnswerInvariant, PTL

=============================================================================

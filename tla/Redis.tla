-------------------------------- MODULE Redis --------------------------------
(***************************************************************************)
(* charm/lib/charms/redis_k8s/v0/redis.py: the address of a redis server.  *)
(* The provider gives it in the databag of its unit; "leader-host" in that *)
(* of the application, written by its charm, takes precedence.             *)
(***************************************************************************)
EXTENDS JujuRelation

RedisPort == "6379"    \* as its charm has it

\* A faulty variant: the relation's end is ignored.
RedisIgnoresTheEnd(hook) ==
    /\ interface = "redis"
    /\ RunsOnly("requirer", hook)
    /\ IF hook \in {"joined", "unit"} THEN Tells("requirer", "redis_relation_updated") ELSE Silent

\* A change of the application's databag comes without a unit, and is ignored.
RedisRequirerHook(hook) ==
    /\ interface = "redis"
    /\ RunsOnly("requirer", hook)
    /\ \/ hook \in {"joined", "unit"} /\ Tells("requirer", "redis_relation_updated")
       \/ hook = "broken" /\ TellsGone("requirer", "redis_relation_updated")
       \/ hook \in {"created", "app", "departed", "elected"} /\ Silent

\* Where the master is at the moment is for the charm to know.
RedisProviderHook(hook) ==
    /\ interface = "redis"
    /\ \/ /\ hook \in {"app", "unit"}
          /\ \E master \in Values :
                 Runs("provider", hook, app["provider"], [hostname |-> master, port |-> RedisPort])
       \/ /\ hook \in {"created", "joined", "departed", "broken", "elected"}
          /\ RunsOnly("provider", hook)
    /\ Silent

\* The charm of the provider names a new master.
RedisFailover ==
    /\ interface = "redis"
    /\ leader["provider"]
    /\ \E master \in Values : Publishes("provider", Entry("leader-host", master))

\* The address that follows from what was read, with None for what is not there.
RedisUrl(reading) ==
    LET host == IF Has(reading.app, {"leader-host"}) THEN reading.app["leader-host"]
                ELSE reading.unit.hostname
    IN  IF reading = Nothing \/ reading.unit = NoData THEN Nothing
        ELSE [host |-> host, port |-> reading.unit.port]

RedisHook(s, hook) == IF s = "requirer" THEN RedisRequirerHook(hook) ELSE RedisProviderHook(hook)

=============================================================================

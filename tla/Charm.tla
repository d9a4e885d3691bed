-------------------------------- MODULE Charm --------------------------------
(***************************************************************************)
(* The charm (charm/src): it puts the files git needs into the container,  *)
(* starts the service after its migrations, and runs management commands   *)
(* as actions.  Hooks and actions of a unit never overlap, but the         *)
(* container comes and goes under them, and the configuration that a hook  *)
(* sees is that of its beginning.  Juju retries a hook that failed.        *)
(***************************************************************************)
EXTENDS Migrations

CONSTANTS
    Repos, Keys,    \* git-repo and git-ssh-key
    Unset,
    Configs         \* the configurations that are ever given: [repo, key]

ASSUME CharmAssumption == Configs \subseteq [repo : Repos \cup {Unset}, key : Keys \cup {Unset}]

VARIABLES
    config,         \* git-repo and git-ssh-key
    integrated,     \* there is a database
    leader,
    reachable,      \* the container answers
    known, rsa,     \* the repository whose host is known, and the key in the container
    served,         \* the configuration the service was started with, or Unset
    waiting,        \* the status of the unit is that of _on_collect_app_status
    due,            \* the hooks to come
    hook, step,     \* the hook that runs, and what it does next
    seen,           \* the configuration it sees
    action          \* the action that runs or ran last: [verb, user, fqdn, state]

Hooks == {"config", "pebble", "database", "leader"}
container == <<reachable, known, rsa, served>>
model == <<config, integrated, leader>>
run == <<hook, step, seen>>
vars == <<tables, model, container, waiting, due, run, action>>

NoConfig == [repo |-> Unset, key |-> Unset]
Complete(c) == c.repo # Unset /\ c.key # Unset
NoAction == [verb |-> "none", user |-> "none", fqdn |-> "none", state |-> "completed"]

Init ==
    /\ MigrationsInit
    /\ config \in Configs
    /\ integrated = FALSE
    /\ leader = TRUE
    /\ reachable = FALSE /\ known = Unset /\ rsa = Unset /\ served = Unset
    /\ waiting = FALSE
    /\ due = {"config"}
    /\ hook = "none" /\ step = "idle" /\ seen = NoConfig
    /\ action = NoAction

(***************************************************************************)
(* The operator and the cluster.                                           *)
(***************************************************************************)
Configure ==
    /\ \E c \in Configs \ {config} : config' = c
    /\ due' = due \cup {"config"}
    /\ UNCHANGED <<tables, integrated, leader, container, waiting, run, action>>

Integrate ==
    /\ integrated' = ~ integrated
    /\ due' = due \cup {"database"}
    /\ UNCHANGED <<tables, config, leader, container, waiting, run, action>>

Elected ==
    /\ leader' = ~ leader
    /\ due' = IF leader THEN due ELSE due \cup {"leader"}
    /\ UNCHANGED <<tables, config, integrated, container, waiting, run, action>>

ContainerStarts ==
    /\ ~ reachable
    /\ reachable' = TRUE
    /\ due' = due \cup {"pebble"}
    /\ UNCHANGED <<tables, model, known, rsa, served, waiting, run, action>>

\* The files are in no volume.
ContainerEnds ==
    /\ reachable
    /\ reachable' = FALSE /\ known' = Unset /\ rsa' = Unset /\ served' = Unset
    /\ UNCHANGED <<tables, model, waiting, due, run, action>>

(***************************************************************************)
(* Hooks.                                                                  *)
(***************************************************************************)
GoesTo(next) == step' = next /\ UNCHANGED <<hook, seen, due>>

HookEnds == hook' = "none" /\ step' = "idle" /\ seen' = NoConfig

\* An exception: the hook is retried.
Errs ==
    /\ HookEnds
    /\ due' = due \cup {hook}
    /\ UNCHANGED <<tables, model, container, waiting, action>>

\* A faulty variant: only a new configuration is copied.
HookBeginsWithoutFiles(h) ==
    /\ step = "idle" /\ action.state \in {"completed", "failed"}
    /\ h \in due
    /\ due' = due \ {h}
    /\ hook' = h
    /\ step' = CASE h = "config" -> "copy" [] h = "leader" -> "status" [] OTHER -> "restart"
    /\ seen' = config
    /\ UNCHANGED <<tables, model, container, waiting, action>>

\* config-changed and pebble-ready copy files, and others restart as well.
HookBegins(h) ==
    /\ step = "idle" /\ action.state \in {"completed", "failed"}
    /\ h \in due
    /\ due' = due \ {h}
    /\ hook' = h
    /\ step' = CASE h \in {"config", "pebble"} -> "copy"
                 [] h = "database" -> "restart"
                 [] h = "leader" -> "status"
    /\ seen' = config
    /\ UNCHANGED <<tables, model, container, waiting, action>>

NothingToCopy ==
    /\ step = "copy"
    /\ ~ reachable \/ ~ Complete(seen)
    /\ GoesTo("restart")
    /\ UNCHANGED <<tables, model, container, waiting, action>>

Keyscan ==
    /\ step = "copy"
    /\ reachable /\ Complete(seen)
    /\ GoesTo("push")
    /\ UNCHANGED <<tables, model, container, waiting, action>>

PushKnownHosts ==
    /\ step = "push"
    /\ reachable
    /\ known' = seen.repo
    /\ GoesTo("push key")
    /\ UNCHANGED <<tables, model, reachable, rsa, served, waiting, action>>

PushKey ==
    /\ step = "push key"
    /\ reachable
    /\ rsa' = seen.key
    /\ GoesTo("restart")
    /\ UNCHANGED <<tables, model, reachable, known, served, waiting, action>>

\* A faulty variant: the error is caught.
CopyFailsQuietly ==
    /\ \/ step = "copy" /\ reachable /\ Complete(seen)
       \/ step \in {"push", "push key"} /\ ~ reachable
    /\ GoesTo("restart")
    /\ UNCHANGED <<tables, model, container, waiting, action>>

\* ssh-keyscan fails, or the container is gone.
CopyFails ==
    /\ \/ step = "copy" /\ reachable /\ Complete(seen)
       \/ step \in {"push", "push key"} /\ ~ reachable
    /\ Errs

\* The parent class: the service is started when there are a container and a
\* database, and when the database has been migrated.
Migrates ==
    /\ step = "restart" /\ reachable /\ integrated
    /\ Migrate
    /\ UNCHANGED <<model, container, waiting, due, run, action>>

Starts ==
    /\ step = "restart" /\ reachable /\ integrated /\ applied = 3
    /\ served' = seen
    /\ waiting' = FALSE
    /\ GoesTo("status")
    /\ UNCHANGED <<tables, model, reachable, known, rsa, action>>

\* Not ready, or killed in the midst of the migrations.
DoesNotStart ==
    /\ step = "restart"
    /\ ~ reachable \/ ~ integrated \/ MigrationFails
    /\ served' = IF integrated THEN served ELSE Unset
    /\ waiting' = FALSE
    /\ GoesTo("status")
    /\ UNCHANGED <<tables, model, reachable, known, rsa, action>>

\* A faulty variant: the key is not looked at.
CollectsRepoOnly ==
    /\ step = "status"
    /\ HookEnds
    /\ waiting' = (waiting \/ (leader /\ seen.repo = Unset))
    /\ UNCHANGED <<tables, model, container, due, action>>

\* collect_app_status is emitted by a leader only.
CollectsAppStatus ==
    /\ step = "status"
    /\ HookEnds
    /\ waiting' = (waiting \/ (leader /\ ~ Complete(seen)))
    /\ UNCHANGED <<tables, model, container, due, action>>

(***************************************************************************)
(* Actions.                                                                *)
(***************************************************************************)
\* The first step of _execute_command: not ready, the action is failed and
\* goes on all the same.
ActionBegins ==
    /\ step = "idle" /\ action.state \in {"completed", "failed"}
    /\ \E verb \in {"create", "allow", "revoke", "list"}, user \in Users, fqdn \in Fqdns :
        /\ verb = "allow" => {nextDomain, nextPerm} \subseteq Ids    \* a bound
        /\ action' = [verb |-> verb, user |-> user, fqdn |-> fqdn,
                     state |-> IF reachable /\ integrated THEN "runs" ELSE "runs failed"]
    /\ UNCHANGED <<tables, model, container, waiting, due, run>>

\* A faulty variant: the action does not tell that the command failed.
ActionEndsAnyway(success) ==
    action' = [NoAction EXCEPT !.state = IF action.state = "runs" THEN "completed" ELSE "failed"]

\* Once failed an action stays so, also when results are set.
ActionEnds(success) ==
    action' = [NoAction EXCEPT !.state =
                  IF success /\ action.state = "runs" THEN "completed" ELSE "failed"]

\* exec raises when there is no container; without a database the command fails.
ActionFails ==
    /\ action.state \in {"runs", "runs failed"}
    /\ ~ reachable \/ ~ integrated
    /\ ActionEnds(FALSE)
    /\ UNCHANGED <<tables, model, container, waiting, due, run>>

CreateUser ==
    /\ action.verb = "create"
    /\ LET there == applied > 0 \/ accounts # {}
       IN  /\ accounts' = accounts \cup (IF there THEN {action.user} ELSE {})
           /\ ActionEnds(there)
    /\ UNCHANGED <<domains, perms, nextDomain, nextPerm>>

AllowDomains ==
    /\ action.verb = "allow"
    /\ Allow(action.user, action.fqdn)
    /\ ActionEnds(Allows(action.user, action.fqdn))
    /\ UNCHANGED accounts

RevokeDomains ==
    /\ action.verb = "revoke"
    /\ Revoke(action.user, action.fqdn)
    /\ ActionEnds(perms' # perms)
    /\ UNCHANGED accounts

ListDomains ==
    /\ action.verb = "list"
    /\ ActionEnds(applied = 3 /\ action.user \in accounts)
    /\ UNCHANGED <<accounts, domains, perms, nextDomain, nextPerm>>

Command ==
    /\ action.state \in {"runs", "runs failed"}
    /\ reachable /\ integrated
    /\ CreateUser \/ AllowDomains \/ RevokeDomains \/ ListDomains
    /\ UNCHANGED <<applied, old, before, model, container, waiting, due, run>>

HookStep == \/ (\E h \in Hooks : HookBegins(h))
            \/ NothingToCopy \/ Keyscan \/ PushKnownHosts \/ PushKey \/ CopyFails
            \/ Migrates \/ Starts \/ DoesNotStart \/ CollectsAppStatus
ActionStep == ActionBegins \/ ActionFails \/ Command
Environment == Configure \/ Integrate \/ Elected \/ ContainerStarts \/ ContainerEnds

Next == HookStep \/ ActionStep \/ Environment

\* Juju runs every hook that is due and retries those that fail; a host that is
\* asked for its key again and again answers.
Fairness ==
    /\ WF_vars(HookStep) /\ SF_vars(Keyscan)
    /\ \A h \in Hooks : SF_vars(HookBegins(h))
    /\ WF_vars(ActionFails \/ Command)

Spec == Init /\ [][Next]_vars /\ Fairness

(***************************************************************************)
(* PROPERTIES                                                              *)
(***************************************************************************)
Quiet == step = "idle" /\ due = {}

\* When no hook is due any more, a service that has a repository has the known
\* hosts of just this repository and the key that was given with it, although
\* the container may have lost its files, a copy may have failed half-way, and
\* other hooks restart the service without a copy (charm.py:36-80).
ServiceHasItsFiles ==
    Quiet /\ served # Unset /\ Complete(served) => known = served.repo /\ rsa = served.key

\* When no hook is due any more, the unit says that it waits for git-repo or
\* git-ssh-key only if one is missing; a leader then always says so (charm.py:82-89).
WaitingTellsOfTheConfig ==
    Quiet => /\ waiting => ~ Complete(config)
             /\ leader /\ ~ Complete(config) => waiting

\* An action that completes did what it was asked to: there is the user, the
\* permission is there or is gone, for the name as it is after the migrations,
\* whatever the state of the database (actions.py:45-68).
CompletedActionIsDone ==
    [][action.state = "runs" /\ action'.state = "completed" =>
          CASE action.verb = "create" -> action.user \in accounts'
            [] action.verb = "allow" -> <<action.user, action.fqdn>> \in Grants'
            [] action.verb = "revoke" -> <<action.user, action.fqdn>> \in Grants \ Grants'
            [] action.verb = "list" -> old = NoTables]_vars

\* A configuration that stays reaches a container that stays, although the
\* host may not answer for a while (charm.py:61).
ConfigReachesContainer ==
    \A c \in Configs :
        Complete(c) /\ <>[](config = c /\ reachable) => <>[](known = c.repo /\ rsa = c.key)

=============================================================================

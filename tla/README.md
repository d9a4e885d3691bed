# A verification of the HTTP request LEGO provider

The program is a Django service that an ACME client (lego, with its `httpreq`
provider) calls to prove that it controls a domain: `/present` asks for a TXT
record, `/cleanup` for its removal. The service keeps no DNS data of its own.
It clones a git repository of bind zone files, edits one file, commits and
pushes. A database holds the accounts, the domains, and who may manage which
domain; a charm and an administrators' REST interface maintain it.

All paths below are relative to the repository; `api/` stands for
`httprequest_lego_provider/api/`.

## 1. Inventory

| Component | Source | State it keeps | Operations | Model |
|---|---|---|---|---|
| DNS update | `api/dns.py` | the branch of the git repository, one temporary clone per call | `write_dns_record`, `remove_dns_record` | `DnsUpdate`, `ZoneFile`, `ZoneEdits`, `RecordStore` |
| Names and forms | `api/forms.py`, `api/dns.py:46`, `api/models.py:10` | none | validation, split into zone and owner, what a permission admits | `Names`, `AskedNames` |
| API handlers | `api/views.py:28-107` | one handler per request, the permissions it has read | `handle_present`, `handle_cleanup` | `Views` |
| Permissions | `api/models.py`, `allow_domains.py`, `revoke_domains.py` | tables of users, domains, permissions | grant, revoke | `Permissions` |
| REST resources | `api/views.py:110-191`, `api/serializers.py` | the same tables | create, update, delete | `Permissions`, `Accounts` |
| Accounts | `create_user.py`, `api/serializers.py` | users and passwords | create, update | `Accounts` |
| `list_domains` | `list_domains.py` | none | prints | not modelled: read only |
| Migrations | `api/migrations/` | the schema, the rows and their id sequences | 0001, 0002, 0003 | `Migrations` |
| Charm | `charm/src/` | ssh files in the container, the status of the unit | hooks, four actions | `Charm` |
| Redis library | `redis.py` | databags | both sides | `Redis` |
| SAML library | `saml.py` | databags | both sides | `Saml` |
| S3 library | `s3.py` | databags, the difference noted in one | both sides | `S3` |
| Ingress library | `ingress.py` | databags, the URL announced last | both sides | `Ingress` |
| Tracing library | `tracing.py` | databags | both sides | `Tracing` |
| Data platform library | `data_interfaces.py` | databags, secrets, differences | database, Kafka, OpenSearch, etcd | `DataInterfaces` (in part) |
| Loki library | `loki_push_api.py` | databags, log targets, promtail in a container | provider, three requirers | `Loki`, `LogClients` (in part) |
| Prometheus library | `prometheus_scrape.py` | databags, jobs | provider, consumer | `Scrape` (in part) |
| Grafana library | `grafana_dashboard.py` | databags, stored and peers' dashboards | provider, consumer | `Dashboards` (in part) |
| Topology library | `juju_topology.py` | none | formats an identity | not modelled |
| Settings, urls, wsgi | `httprequest_lego_provider/httprequest_lego_provider/` | none | configuration | assumptions only |
| Terraform, docs, tests | | | | out of scope |

The libraries are under `charm/lib/charms/`. Of most of them the charm is the
requirer; of Prometheus' and Grafana's it is the provider.

**How they interact.** A handler validates its form (`forms.py`), reads the
permissions of its user and the domain of each (`models.py`), and calls `dns.py`.
Commands and REST calls change the same tables at any time: there is no
transaction around a request or a command (`ATOMIC_REQUESTS` is off), so each
query commits by itself. Workers share nothing but the database and the git
remote, and the remote's rule that a branch moves by fast-forward only is the
sole coordination of writers.

The charm puts the known hosts and the key into the container, starts the
service (which migrates the database before), and runs the management commands
as actions. It is told of its database, ingress, S3, redis and identity provider
by libraries, each of which turns the hooks of a Juju relation into events.
Between two charms there are only databags: a write makes a hook due on the
other side, a hook may stand for many writes, and what was written may be
written by one leader and read by another.

**What is hard.** Overlapping updates of one branch; a push that is rejected
without an exception; a worker killed by gunicorn while its `git push` goes on;
a push that lands and is reported as failed; retries that find nothing to
commit; permissions and domains read in different queries; commands that look
and then insert; objects saved with all their columns as they were read. In the
charm: a container that is replaced under a hook, files copied by two pushes,
hooks that restart the service and copy nothing, actions run before the
migrations are over, rows whose ids the sequence does not know. In the relations:
collapsing hooks, leaders that change between a request and its answer,
relations removed before they were joined, secrets read at one revision and
tracked at another. The list with lines is under `hazards` in `PROJECT.json`, each with the
properties that would catch it going wrong.

**What makes each part correct.** DNS update: what lands is the requested edit
of the commit before it; a request lands once at most; nothing of another owner
changes. Names: the place of a record spells the name. Handlers: an update
needs a permission held while the request ran, a refusal needs the lack of one,
and breaks only on a deleted domain. Permissions: an item a command goes past is settled, and
nothing that was not ordered changes. Accounts: commands lock nobody out, one
of the passwords given for an account opens it. Migrations: no permission is lost or made. Charm: a
service that is at rest has the files of its configuration, the status tells of
what is missing, and an action that completes has done what it was asked to.
Libraries: requests and answers arrive whoever leads, what is told is what was
published, an end is told (with the exceptions of section 4), an event is not
repeated, and credentials stay out of databags.

## 2. Modules

| Module | What it is |
|---|---|
| `Names` | names as sequences of labels; the forms, the zone and the owner of a name, `Admits` |
| `AskedNames` | extends `Names`: a name is posted and held against a permission |
| `ZoneFile` | the text of one zone file and `WriteRecordFile` |
| `ZoneEdits` | extends `ZoneFile`: one file and a chain of edits of it |
| `RecordStore` | abstract: texts per owner and zone; a request is applied once or dropped |
| `DnsUpdate` | extends `Names` and `ZoneFile`: clone, commit, push of many calls; implements `RecordStore` |
| `Permissions` | tables, `allow_domains`, `revoke_domains`, REST calls, one step per query |
| `Views` | extends `Permissions` and `Names`, instantiates `RecordStore`: the two endpoints |
| `Accounts` | `create_user` and the user resource |
| `Migrations` | the tables through 0001 to 0003, and the rows that commands insert on the way |
| `Charm` | extends `Migrations`: hooks and actions of a unit, its container |
| `JujuRelation` | a relation as Juju runs it: databags, hooks, leaders, its making and removal |
| `Redis`, `Saml`, `S3`, `Ingress`, `Tracing`, `DataInterfaces`, `Loki`, `LogClients`, `Scrape`, `Dashboards` | extend `JujuRelation`: what a library does in each hook, on both sides |
| `Integrations` | extends them all: one relation by any of the interfaces, and what all libraries owe |
| `MC*` | values of the constants for TLC; `MCZoneFile` runs `ZoneEdits` and `AskedNames` side by side |
| `ZoneFileProofs`, `ZoneEditsProofs`, `DnsUpdateProofs`, `AccountsProofs`, `PermissionsProofs`, `ViewsProofs`, `CharmProofs`, `IntegrationsProofs` | theorems and proofs |

Definitions that begin with the comment "A faulty variant" are deliberate
mistakes, one per property: put in the place of the definition that follows
them they make the property fail, which shows that it depends on the code.

### Correspondence with the code

* **Names.** A name is what `split(".")` gives, with `Empty` for the text
  between two dots. `StripDots` is `FQDNField.to_python`, `IsFqdnCompliant` the
  validator. Labels are atoms: the limits on lengths and the case of letters
  are left out.
* **ZoneFile.** Of a line the model keeps the first word, the texts behind it
  and whether a newline ends it. `KeptUpTo` is the loop of
  `_remove_subdomain_entries_from_file_content` as a recursive function,
  `Joined` is `"".join` of the lines and the record, read as lines again.
  Assumed: one record per line, each with its owner, newlines of one kind.
* **DnsUpdate.** `log` is the branch; a commit is a tree of zone files and who
  made it. `pc[r]` walks through `_update_dns_record`: `clone` (dns.py:147),
  `commit` (dns.py:151-154), `push` (dns.py:156). The clone, the commit and the
  push are the only points where others are seen or see the call, so the edit
  and the commit are one step. `PushRejected` answers `OK`, as the result of
  `push()` is dropped. `PushFails` is the exception of a push without a report,
  before or after the branch moved. `Abort` is the end of a worker over
  gunicorn's timeout, after which `orphan` is its git process. The operators
  commit too: they add lines, make files, and remove records by hand.
* **RecordStore / the refinement.** The store is what a resolver reads
  (`TextsOf`) at the tip. A request is `idle` before its call, `applied` when a
  commit of it is on the branch, `dropped` when it ended without one.
* **Permissions.** A row of `Domain` is an id; ids are never used twice. Each
  of `get`, `full_clean` and `save` of `grant_permission` is a step; so are the
  `get` and the `delete` of `revoke_permission`. `ValidationError` skips the
  item, `IntegrityError` ends the command. Deleting a domain or a user cascades.
  A REST update of a domain may save a row that was deleted meanwhile, which
  brings it back.
* **Views.** Both handlers have the same shape and are one machine whose `call`
  says which. The query of the permissions is one step, each lazy `dup.domain`
  another, in any order. `Domain.DoesNotExist` is caught by nobody. The update
  is the `RecordStore` one; `granted`, `always` and `named` are history
  variables for the properties alone.
* **Accounts.** `copy[a]` is the object in memory and `Save` its `save()`: an
  UPDATE of all columns, or an INSERT when the row is gone. Each command has a
  password of its own, as the charm makes one up. Only `create` of the
  serializer hashes.
* **Migrations.** A row is an id and what it refers to, a table a function on
  ids; `nextDomain` and `nextPerm` are the sequences, which a rollback does not
  take back. A migration is committed whole or not at all, so each is a step;
  `Copyable` and `Constrainable` are the constraints at which 0002 and 0003 fail.
  `Allow` is `grant_permission` in a database of any of the four states: before
  0001 there is no table, before 0003 no column for the level, and the row of the
  domain is saved by then. Levels other than "domain" do not exist before 0003
  and are left out, as is a downgrade, which the code cannot run.
* **Charm.** `step` walks through a hook: `copy` is the guard of `_copy_files`
  with the `ssh-keyscan`, `push` and `push key` the two files, `restart` what the
  parent class does, `status` the end of the hook with `collect_app_status`. The
  container comes and goes between any two of them; a hook that raised is
  retried. `_execute_command` is `ActionBegins` (not ready: the action is failed,
  and goes on) and `Command` or `ActionFails`.
* **JujuRelation.** `app` and `unit` are the databags, `due` the hooks to come,
  `stage` how far a side has got. A hook's writes are seen when it is over, so a
  handler is one step. `stored` is what a library keeps elsewhere (StoredState,
  secrets, the peers' databag), `event` and `told` what it tells the charm and
  what the charm reads then. There is one unit on each side, and one relation at
  a time, made again after it is gone.
* **The libraries.** Each has an operator `<Library>Hook(side, hook)` that says
  which handler the hook reaches, and actions for what the charm calls outside of
  hooks (`S3SetConnectionInfo`, `SetCredentials`, `IngressPublishUrl`, ...). Values
  are model values; validation of formats is a precondition.
  - `Redis`: the address in the unit's databag, `leader-host` over it.
  - `Saml`: `update_relation_data` writes key by key and takes none away.
  - `S3`, `DataInterfaces`: `diff` compares a databag with what was noted in
    one's own under "data". A secret has a value and the value the requirer's
    unit tracks; its label, and so what is tracked, goes with the relation.
  - `Ingress`: `IngressHandlesRelation` publishes and then compares the URL
    with the one kept; `IngressDump` is a databag that is cleared and written.
  - `Tracing`: the request is made in the constructor, in every hook.
  - `Loki`, `LogClients`: alert rules, which the provider cannot refuse
    (`ValidateAlertRules`), and complaints, which only `LokiOfOtherMake` makes; the log
    target or promtail in the container, lost when it is replaced. Promtail's events
    are those of a container that is reached (`PromtailStarts`, `PromtailDeparted`);
    `promtail_digest_error`, which says nothing of endpoints, is left out.
  - `Scrape`: jobs, their wildcards, the hash that tells jobs of one name apart,
    complaints in `event`.
  - `Dashboards`: rendered by a leader and kept for its peers. `PeerDashboards` is what
    the charm reads: `this` of the relation there is or was last, `ended` of those before
    it. Only a leader removes what is kept when the relation breaks
    (`DashboardsRequirerBroken`), so that `this` may outlive it and become `ended`.

## 3. Runs

| Run | Question | Bounds |
|---|---|---|
| `zone_file` | is an edit exact, and what leaves a file unchanged? Does the place of a record spell its name, and does a permission stay in its zone? | all terminated files of up to 3 lines, two owners, two values, comments, and all files further edits lead to; all texts of up to 5 labels over 5 labels, domains of 2 or 3 labels: longer than prefix + host + zone, so every split and every suffix match occurs |
| `zone_file_unended` | the same for a file without a last newline: **violated** | |
| `dns_update` | do overlapping updates undo one another, and when is a record lost? | 3 calls, two values and a removal for one name and another name of the file, 1 operator's commit: a third writer can come between the two that race; the calls are symmetric |
| `dns_update_store` | do the updates implement `RecordStore`, and does every call end? | 2 calls, a zone without a file, 1 operator's commit, a remote that may refuse |
| `dns_update_ack` | is an update on the branch once it is acknowledged? **violated** | |
| `dns_update_remove` | is it all right to remove what is not there? **violated** | |
| `permissions` | are the items settled, and do commands end? | 2 commands, 3 rows; without an administrator 8 orders (twice the same name, a bad name, nothing at all, two users), with one 3 orders, one user and any number of REST calls (`Bounded`) |
| `views` | are updates, refusals and errors justified by what was granted? | 1 request out of 5, 1 command, 2 rows, renames, deletions of domains and of the user |
| `accounts` | which password works? | 3 commands, 2 administrators, 2 names, 5 rows |
| `accounts_printed` | does the password that the command prints open the account? **violated** | 2 commands, 1 administrator |
| `upgrade` | do migrations keep the grants, and why do they fail; has the service its files; do actions do what they say? | 2 ids, one name with and without the prefix, four databases of old, and none. `Within`: a new deployment is reconfigured among 3 configurations, under changing leaders, without actions; an upgrade has actions, one configuration and a leader |
| `integrations` | does each side learn what the other wrote? | 14 interfaces (four of the data platform library, Loki by three requirers), one unit a side, 2 values (1 password of the database), 4 lists of jobs; `Steady` says where leaders change, and `MCNext` what else is left out of this instance (of dashboards and promtail, some combinations of what is published) |

The handlers of different requests meet only in the store and, through commands
and REST, in the tables, so one request against all that changes the tables is
the interesting case for `views`. Rows bound
the creation of domains (`InsertDomain`), `MaxOperatorCommits` the operators,
`Ids` the rows that actions insert (`ActionBegins`, `AddDomain`, `AddPerm`). Two
ids are enough for a number that was copied and one that was not. Two values are
enough for a stale one and a current one. A relation's hooks are bounded by what
changes, and it is removed and made again any number of times. Configurations
and actions touch different state, which is why `Within` separates them; the
proofs do not.
All requests and commands end, and a relation may be at rest, hence
`CHECK_DEADLOCK FALSE` where they do.

**Fairness.** `DnsUpdate!Spec` lets every call that was made take its next step
(weak fairness of `Progress(r)`): git fails, answers, or the worker is killed at
gunicorn's timeout (`charm/docs/how-to/troubleshoot-api-timeouts.md`), and a git
process left alone ends. No step waits for another writer, so nothing stronger
is needed, and neither calls nor operators are obliged to come.
`PermissionsSpec` and `Accounts!Spec` assume the same of running commands, and
nothing of administrators; `ViewsSpec` states no fairness, as what ends a request
is the update or the timeout, which `DnsUpdate` has.

`Charm!Spec` lets a hook that runs go on and an action end (weak fairness). Of
hooks that are due each is run in the end though actions and other hooks come
first (strong fairness of `HookBegins(h)`: Juju queues them and retries what
failed), and a host that is asked for its key again and again answers (strong
fairness of `Keyscan`): without that no configuration would ever arrive, and the
charm does nothing but raise. `Integrations!Spec` lets Juju run the hooks that
are due, on each side those of the relation and the others (weak fairness); it
makes nobody publish, relate, or elect. `MCSpec` asks it of the two interfaces
that `LeaderIsHeard` is about, which asks for less.

## 4. What the runs found

Where the code and what is said of it part ways (`findings` in `PROJECT.json`):

1. **A rejected push is a success** (`api/dns.py:156`). Of two updates that
   overlap one is lost although both clients are told 204. What holds instead
   is `SilentLossNeedsRace`.
2. **Removing what is not there fails** (`api/dns.py:154`) although the
   docstring says "if it exists": a retried cleanup gets a 500. It is a false
   alarm (`NothingToCommitIsBenign`).
3. **A zone file without a last newline** (`api/dns.py:126`) swallows the record.
4. **`create_user` does not update the password** of a user that exists, but
   prints a new one (`create_user.py:45-59`, `README.md:31`).

Of a user that exists `create_user` says "Skipping", and saves the row it read
(`create_user.py:46-55`): a change made in between is undone and a deleted user
comes back. `OneAccountPerPassword` says what this cannot lead to.

Two things the charm and the libraries leave open, as exceptions in the
properties that hold: an id that 0002 copied is met by the next insert, which
fails and works later (`OnlyCopiedIdsCollide`); and the requirers of a database
and of Kafka do nothing when told of a new password (`AnswerArrives`, which also
names the other cases the libraries leave out).

Two ends of a relation are not told, and `GoneIsTold` leaves them out: promtail's
library skips a container that is not reached as the unit departs, and the event
with it (`loki_push_api.py:1983-1984`, the event at 1997; relation-broken has no
handler), so the charm goes on with endpoints that are gone; and a unit that does not
lead when the relation breaks removes nothing (`grafana_dashboard.py:1498-1499`),
so that dashboards of the ended relation stay in what `dashboards` returns (1650). Of
dashboards `GoneIsTold` asks that the charm knows what is left there, and that nothing
of the relation is if the units led all the time. No document promises more.

`SomeGivenPasswordWorks` leaves open which of the passwords given for an account
opens it, so that it holds of a `create_user` that updates the password, as is
documented, and of the one there is (finding 4).

Of Loki's library no faulty alert rule is ever reported: the output of cos-tool is
read from stdout as bytes and searched for text (`loki_push_api.py:2770-2775`), so
that either nothing is found and the rules are used, or the hook fails.
`validate_alert_rules` is documented as "returning a boolean and any errors". What
cos-tool prints is not in the repository, so this is a hazard without a property; the
model has both outcomes (a hook that fails changes nothing and comes again), and
`ComplaintArrives` is about complaints that someone made.

## 5. Proofs

TLC checks the instances above; these theorems hold for every value of the
constants that satisfies the named assumptions (`LabelsAssumption`,
`WordsAssumption`, `JobsAssumption`, `EditsAssumption`, `AskedAssumption`,
`RepositoryAssumption`, `BoundsAssumption`, `PermissionsAssumption`,
`ViewsAssumption`, `AccountsAssumption`, `MigrationsAssumption`,
`CharmAssumption`, `RelationAssumption`, `ScrapeAssumption`), for any number of
requests, commits, lines, labels, commands, rows, jobs and hooks.

* `DnsUpdateProofs`. The inductive invariant `IInv` joins `TypeOK`, that every
  file of every commit is terminated, `WorkInProgress`, `Serialised` and
  `RepliesExplained`. `Serialised` alone is not inductive: that a landed commit
  is the edit of the one before it rests on `WorkInProgress` (the clone is an
  edit of its base), that it stays true rests on "what asked for a commit and
  is not done has none on the branch", and that the edit is exact rests on
  terminated files. From `IInv` follow `TypeCorrect`, `UpdatesAreSerialised`,
  `CallsWorkOnPastCommits`, `NothingToCommitFoundIt`, and `LossNeedsRace`, which
  assumes `~ RemoteMayRefuse`: a remote that refuses commits made on its tip
  (a hook, a protected branch) loses records without a race.
* `UpdatesImplementStore`: `Safety => Store!Safety`. A landing is `Apply`, any
  other end `Drop`, an operator's commit `ChangeFromOutside`, and all other
  steps stutter. `EditedStore` is the heart of it: an edit changes the texts of
  its own owner in its own zone and no others.
* `ZoneFileProofs`: `TerminatedEditIsExact` and `EditSparesOthers`, by an
  induction over the loop of the edit (`InductionUpTo`, which is derived from the
  least element of a set of numbers); and of names of any length the three parts of
  `NamesArePlaced` and that two names never share a place (`RecordsAreDistinct`).
* `ZoneEditsProofs`. A line that stays is the last one kept when the loop has seen
  it, and keeps that place (`KeptPlaces`, by induction over the loop): so an edit
  keeps the lines of every other owner in their order (`EditKeepsTheOthers`), and
  a terminated file is unchanged exactly when git finds nothing to commit
  (`NoOpsAreDetected`). `EditsInv` carries them
  along a chain of edits: each file of it is terminated, and what the last edit
  asked for and found is known. From it follow `ExactEdit`, `OthersKept` and
  `Detected`; `NamesArePlaced` holds of every name that is posted.
* `PermissionsProofs`. `Inv` joins `CommandsOK` (types, and that the rest of a
  command's items are those of its order), `TablesInv` (permissions are for rows
  there are, rows to come are free, names are unique) and `HeldInv` (the row a
  command holds has the name of its item, or is gone). `TypeCorrect` needs the
  first two. `ItemsAreSettled` and `OnlyOrderedChange` need the third, which a
  renaming breaks: they assume `"renameDomain" \notin RestMay`. A row that was
  read and renamed since gets the permission under its new name.
  `AloneNothingFails` is about a command that nobody interferes with: `AloneInv` says
  that while all has been `calm` what it has looked up is what the tables hold, so
  that what it inserts can meet no constraint.
* `ViewsProofs` extends `PermissionsProofs` and `ZoneFileProofs`. `ViewsInv` adds to
  `CommandsOK` and `TablesInv` what is known of each request: what it has read was
  granted while it ran, what it has passed over does not admit its name, and
  the history variables hold what the tables held. From it follow all properties
  of `Views`; `OnlyGrantsChangeRecords` also uses that a record is found where
  its name says and that a permission stays in its zone (`ZoneFileProofs`).
* `AccountsProofs`: `TypeCorrect`, `PasswordsAreOfOneAccount` and
  `NobodyIsLockedOut`. `SecretsInv` says where a password may be: bound to one
  row, in the table or in the copies that are still to be saved, and to none before
  the one who has it has ended. `CreatedInv` says what holds while no administrator
  changes or deletes an account (`Quiet`; they may make accounts): a command holds a
  new account with its own password, or the account as it is (`CopyIsGood`), and each
  account has a password that was given for it (`RowIsGood`).
* `CharmProofs`. `TablesInv` says what each migration leaves: before 0002 the old
  tables are as they were and there are no other permissions, after it the copied
  rows are there, at the end all names are bare. `HooksInv` follows the hooks: one
  that runs sees the configuration of now unless config-changed is due
  (`SeesCurrent`); where nothing will copy, the files are those of the
  configuration (`FilesAreCopied`, which needs `HostPushed`, as the container may
  be replaced between the two pushes); and the service was started with it
  (`ServedIsCurrent`). From them follow all safety properties of `upgrade`, there
  for both kinds of deployment at once, without `Within`.

* `IntegrationsProofs`. The theorems are about `Integrations!Spec` as it is, for all
  interfaces, values and lists of jobs and with units that gain and lose the lead
  at any time; the run restricts where leaders change (`Steady`). No step changes the
  interface, so an invariant about one interface need only withstand the hooks of
  that interface, what its charms do besides, and Juju (`StepOfTheInterface`,
  `RequirersWake` and `ProvidersWake` say what the other side notices of a step).
  The parts, each a theorem of its own:
  - `FrameOK`, the types of what Juju keeps, on which all others rest;
  - `CredentialsInv`: a resource is never asked for without the list of secret fields,
    and nothing but secrets' URIs, endpoints and notes are in the provider's databag;
  - `GoneInv`: where there is no relation, nothing is known (`NothingOutlivesTheRelation`;
    promtail is left out); of dashboards what the charm knows is what is kept, whoever
    leads (`DashboardsTold`), and nothing of the relation if the units led all the time;
  - `RequestInv` and `PublishInv`: what was asked is noted, known, or a hook is due;
    `AlertsInv` the same of alert rules;
  - `ComplaintInv`: a complaint is known or a hook is due, on each of the legs it takes;
  - `LogsInv`: the container has the endpoint of now once the hooks are over;
  - `NewsInv`: the URL kept is the one announced, and a secret is noted when credentials
    are known, so that `diff` finds nothing new in what was announced;
  - `TypesInv`: nothing that is written is `Nothing`;
  - `ScrapeInv`: the charm knows the jobs made of what is published, or a hook is due;
    what a list of jobs expands to follows from lemmas on `FlattenSeq` and
    `SetToSeq`, by induction over the list;
  - `AnswerInv`: what the requirer knows is what is published, or a change of it is
    pending (`Informed`). It has a part for each interface, as each leaves out
    something else: redis hears changes of the unit's databag only; saml and s3
    tell of what is complete, so that nothing is known until then; an ingress
    keeps a URL that is withdrawn; of the databases it relates what was noted to
    what was announced (`DataKnown`: the endpoints noted are known, a secret that is
    noted was read, and its present content is known or its hook is due).
    `EndpointKnown` and `FirstPasswordIsCurrent` speak of the event of the last step.

  Most of them assume `NothingIsApart`: that `Nothing`, which stands for None and for
  what is absent, is no function, number, set of texts, or text that occurs. That is
  satisfiable (a value of its own is such a `Nothing`), and true of the code, where a
  databag holds strings and None is none. It is a hypothesis of the theorems and no
  assumption of the module because TLC cannot compare a model value with a function.

Left to TLC: liveness and fairness (`EveryCallEnds`, `EveryCommandEnds`,
`ConfigReachesContainer`, `LeaderIsHeard`, the fairness part of the refinement),
which the prover does not reach. Every safety property of a passing run is proved.

## 6. Not modelled

* `parse_repository_url`: the URL is configuration, taken as usable. An empty
  one raises an IndexError outside the handler's `try`.
* Lengths and letter case of names; texts of messages; logging and tracing.
* Continuation lines and inherited owners of bind files, and CRLF: a record
  continued on a second line would not be recognised line by line.
* Reads of the REST resources, `list_domains`, authentication beyond "there is
  such an account". That a PUT or PATCH stores a password unhashed is in
  `Accounts`, as a password that opens nothing.
* `paas_app_charmer`, ops, Pebble, PostgreSQL and git: external, modelled from
  how the code uses them. Charms of several units: a unit's files and its status are
  its own, and which unit migrates is not the code's to decide.
* Of the libraries: aggregators and `PrometheusRulesProvider`, which the charm
  does not use; the conversion of alert rules, labels, panels and variables of
  dashboards, which is data in, data out; certificates (of etcd's clients and of
  `charm_tracing_config`); in `data_interfaces.py` data between peers, deletion of
  fields, aliases, subordinate databases, and Juju without secrets; the log
  targets of units that are gone; `juju_topology.py`. Several relations of one
  interface and several units on a side are left out: the handlers work on the
  relation of their event.

## 7. What is left

In the order of what it would add:

1. `Client`: present, propagation and cleanup of an ACME client with its retries,
   composed with `RecordStore`: which retries are safe, and what a certificate for
   a domain and its wildcard needs.
2. Several units on the requirer's side, for the databags of units that leave.

------------------------------ MODULE Migrations ------------------------------
(***************************************************************************)
(* The tables through the migrations 0001 to 0003, and the rows that the   *)
(* commands insert on the way.  Before them an upgraded deployment has the *)
(* tables of the application's old name, to which the schema of 0001       *)
(* applies: names are unique, permissions are not.                         *)
(*                                                                         *)
(* PostgreSQL runs each migration in a transaction of its own, and numbers *)
(* new rows by a sequence that no rollback takes back.                     *)
(***************************************************************************)
EXTENDS Integers, FiniteSets, Functions

CONSTANTS
    Users, Fqdns,
    Bare,           \* Bare[fqdn]: without "_acme-challenge." in front
    Ids,            \* 1..n, the ids of the rows of each table
    OldTables,      \* what the upgrade may find: [domains, perms]
    NoTables        \* ... or nothing, on a new deployment

ASSUME MigrationsAssumption ==
    /\ IsFiniteSet(Ids) /\ Ids = 1..Cardinality(Ids)
    /\ Bare \in [Fqdns -> Fqdns] /\ \A f \in Fqdns : Bare[Bare[f]] = Bare[f]
    /\ NoTables \notin OldTables
    /\ \A t \in OldTables :
           /\ DOMAIN t.domains \cup DOMAIN t.perms \subseteq Ids
           /\ t.domains \in [DOMAIN t.domains -> Fqdns]
           /\ t.perms \in [DOMAIN t.perms -> [user : Users, domain : DOMAIN t.domains]]

VARIABLES
    applied,        \* the last migration that was applied, or 0
    old,            \* the old tables
    accounts,       \* the users
    domains,        \* domains[id], the name of a row of api_domain
    perms,          \* perms[id], a row of api_domainuserpermission
    nextDomain, nextPerm,   \* the sequences of the two
    before          \* history: the old tables at the start

tables == <<applied, old, accounts, domains, perms, nextDomain, nextPerm, before>>

NoRows == << >>
Row(user, id) == [user |-> user, domain |-> id]
Inserted(table, id, row) == [i \in DOMAIN table \cup {id} |-> IF i = id THEN row ELSE table[i]]

MigrationsInit ==
    /\ applied = 0
    /\ old \in OldTables \cup {NoTables}
    /\ accounts = IF old = NoTables THEN {} ELSE Users
    /\ domains = NoRows /\ perms = NoRows
    /\ nextDomain = 1 /\ nextPerm = 1
    /\ before = old

CreateTables ==
    /\ applied = 0
    /\ applied' = 1
    /\ UNCHANGED <<old, accounts, domains, perms, nextDomain, nextPerm, before>>

\* INSERT ... SELECT fails on an id or a name that is there already.
Copyable == old # NoTables => /\ DOMAIN domains \cap DOMAIN old.domains = {}
                              /\ Range(domains) \cap Range(old.domains) = {}

Together(table, more) == [i \in DOMAIN table \cup DOMAIN more |->
                              IF i \in DOMAIN table THEN table[i] ELSE more[i]]

\* A faulty variant: the permissions are dropped with their table.
ForwardsDomains ==
    /\ applied = 1
    /\ Copyable
    /\ applied' = 2
    /\ domains' = IF old = NoTables THEN domains ELSE Together(domains, old.domains)
    /\ old' = NoTables
    /\ UNCHANGED <<accounts, perms, nextDomain, nextPerm, before>>

\* The rows keep their ids, and the sequences stay where they are.
Forwards ==
    /\ applied = 1
    /\ Copyable
    /\ applied' = 2
    /\ domains' = IF old = NoTables THEN domains ELSE Together(domains, old.domains)
    /\ perms' = IF old = NoTables THEN perms ELSE old.perms
    /\ old' = NoTables
    /\ UNCHANGED <<accounts, nextDomain, nextPerm, before>>

\* The constraint of 0003, and that of the names once they are bare.
Constrainable == IsInjective(perms) /\ IsInjective([i \in DOMAIN domains |-> Bare[domains[i]]])

\* A permission of old is for the name without its prefix, at level "domain",
\* which is the only level of this model.
AddAccessLevel ==
    /\ applied = 2
    /\ Constrainable
    /\ applied' = 3
    /\ domains' = [i \in DOMAIN domains |-> Bare[domains[i]]]
    /\ UNCHANGED <<old, accounts, perms, nextDomain, nextPerm, before>>

\* migrate applies what is missing one by one, up to one that fails.
Migrate == CreateTables \/ Forwards \/ AddAccessLevel
MigrationFails == (applied = 1 /\ ~ Copyable) \/ (applied = 2 /\ ~ Constrainable)

(***************************************************************************)
(* What a command meets in these tables; each step says whether it         *)
(* succeeded.                                                              *)
(***************************************************************************)
RowOf(fqdn) == {i \in DOMAIN domains : domains[i] = fqdn}

\* A faulty variant: the sequence is not moved.
AddDomainOnly(fqdn) ==
    /\ nextDomain \in Ids \ DOMAIN domains
    /\ domains' = Inserted(domains, nextDomain, fqdn)
    /\ UNCHANGED nextDomain

\* The number is spent, also when a row has it.
AddDomain(fqdn) ==
    /\ nextDomain \in Ids
    /\ nextDomain' = nextDomain + 1
    /\ IF nextDomain \in DOMAIN domains THEN UNCHANGED domains
                                        ELSE domains' = Inserted(domains, nextDomain, fqdn)

AddPerm(row) ==
    /\ nextPerm \in Ids
    /\ nextPerm' = nextPerm + 1
    /\ IF nextPerm \in DOMAIN perms THEN UNCHANGED perms
                                    ELSE perms' = Inserted(perms, nextPerm, row)

\* grant_permission: before 0001 there is no table, before 0003 no column for
\* the level; by then the row of the domain has been saved.  The validator
\* refuses the underscore of the prefix (when the domain is new).
Allow(user, fqdn) ==
    \/ /\ applied = 0 \/ user \notin accounts \/ Bare[fqdn] # fqdn
       /\ UNCHANGED <<domains, perms, nextDomain, nextPerm>>
    \/ /\ applied > 0 /\ user \in accounts /\ Bare[fqdn] = fqdn /\ RowOf(fqdn) = {}
       /\ AddDomain(fqdn)
       /\ IF applied = 3 /\ nextDomain \notin DOMAIN domains
          THEN AddPerm(Row(user, nextDomain))
          ELSE UNCHANGED <<perms, nextPerm>>
    \/ /\ applied > 0 /\ user \in accounts
       /\ Bare[fqdn] = fqdn
       /\ \E i \in RowOf(fqdn) :
             IF applied = 3 /\ Row(user, i) \notin Range(perms)
             THEN AddPerm(Row(user, i)) ELSE UNCHANGED <<perms, nextPerm>>
       /\ UNCHANGED <<domains, nextDomain>>

\* It meets no constraint of the database.
Allows(user, fqdn) ==
    LET has == \E i \in RowOf(fqdn) : Row(user, i) \in Range(perms)
    IN  /\ applied = 3 /\ user \in accounts /\ Bare[fqdn] = fqdn
        /\ RowOf(fqdn) # {} \/ nextDomain \notin DOMAIN domains
        /\ has \/ nextPerm \notin DOMAIN perms

\* revoke_permission: what there is of it goes.
Revoke(user, fqdn) ==
    /\ perms' = [i \in {j \in DOMAIN perms : applied = 3 =>
                              ~ (perms[j].user = user /\ domains[perms[j].domain] = fqdn)} |-> perms[i]]
    /\ UNCHANGED <<domains, nextDomain, nextPerm>>

(***************************************************************************)
(* PROPERTIES                                                              *)
(***************************************************************************)
GrantsIn(names, rows) == {<<rows[i].user, Bare[names[rows[i].domain]]>> : i \in DOMAIN rows}
Grants == GrantsIn(domains, perms) \cup
              (IF old = NoTables THEN {} ELSE GrantsIn(old.domains, old.perms))

\* Whatever is done between the migrations, and wherever they stop, no
\* permission is lost or gained by one (migrations/0002:9-37, 0003:8-13).
MigrationsKeepGrants == [][applied' # applied => Grants' = Grants]_tables

\* A number that a row has already, at which an insert fails, is one of a row
\* that 0002 copied: allow-domains fails on it, but each time it is run again
\* the sequence gets beyond one of them, so that it works in the end
\* (0002:16, allow_domains.py:26).
OnlyCopiedIdsCollide ==
    /\ \A i \in DOMAIN domains : i >= nextDomain => before # NoTables /\ i \in DOMAIN before.domains
    /\ \A i \in DOMAIN perms : i >= nextPerm => before # NoTables /\ i \in DOMAIN before.perms

Faulty(held) == held # NoTables /\ ~ (/\ IsInjective(held.perms)
                                      /\ IsInjective([i \in DOMAIN held.domains |-> Bare[held.domains[i]]]))

\* A migration fails, and with it every later start of the service, only when
\* the old tables held a permission twice or a name with and without the prefix,
\* or when allow-domains made a domain before the migrations were over: between
\* 0001 and 0002 it takes a number of a row to be copied, between 0002 and 0003
\* a name that another will have without its prefix (0002:16, 0003:11).
MigrationsFailOnData == MigrationFails => Faulty(before) \/ nextDomain > 1

\* Neither commands nor migrations fail for another reason than what was copied.
FailuresHaveACause == OnlyCopiedIdsCollide /\ MigrationsFailOnData

=============================================================================

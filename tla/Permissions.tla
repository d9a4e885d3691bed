----------------------------- MODULE Permissions -----------------------------
(***************************************************************************)
(* Who may manage which domain: the tables of users, domains and           *)
(* permissions (models.py), the commands that grant and revoke access      *)
(* (allow_domains.py, revoke_domains.py), and the REST resources through   *)
(* which an administrator changes the same tables (views.py).              *)
(*                                                                         *)
(* There are no transactions in the code: every query commits on its own   *)
(* and is a step of its own, between which other commands and requests     *)
(* run.  The uniqueness and foreign key constraints are the database's.    *)
(*                                                                         *)
(* The domain of a permission is a row, not a name: a domain deleted and   *)
(* made again is a new row, and a renamed one keeps its permissions.       *)
(***************************************************************************)
EXTENDS Integers, Sequences, FiniteSets

CONSTANTS
    Users,            \* those there may be accounts of
    Domains,          \* the names the code takes for domains
    BadNames,         \* names the validator of Domain rejects
    Commands,         \* runs of the two commands
    Orders,           \* their arguments: [verb, user, domains, subdomains]
    Rows,             \* 1..n, the ids of the rows of Domain, never used twice
    NoRow,            \* the name of a row that is not there
    InitialDomains,   \* the names of the rows 1, 2, ... at the start
    InitialPerms,     \* the permissions at the start
    RestMay           \* what administrators do through REST

Access == {"domain", "subdomain"}
RestCalls == {"createDomain", "renameDomain", "deleteDomain",
              "createPermission", "movePermission", "deletePermission", "deleteUser"}

ASSUME PermissionsAssumption ==
    /\ NoRow \notin Domains \cup BadNames
    /\ Domains \cap BadNames = {}
    /\ IsFiniteSet(Rows) /\ Rows = 1..Cardinality(Rows)
    /\ InitialDomains \in Seq(Domains)
    /\ Len(InitialDomains) =< Cardinality(Rows)
    /\ \A i, j \in 1..Len(InitialDomains) : InitialDomains[i] = InitialDomains[j] => i = j
    /\ InitialPerms \subseteq [user : Users, row : 1..Len(InitialDomains), level : Access]
    /\ RestMay \subseteq RestCalls
    /\ \A o \in Orders :
           /\ o.verb \in {"allow", "revoke"} /\ o.user \in Users
           /\ {o.domains, o.subdomains} \subseteq Seq(Domains \cup BadNames)

VARIABLES
    calm,       \* no administrator is at work, from the start to the end
    users,      \* the accounts
    domain,     \* domain[row], the name of a row of Domain
    fresh,      \* the id the next row of Domain gets
    perms,      \* the rows of DomainUserPermission
    step,       \* step[c], the query a command makes next
    order,      \* order[c], its arguments
    todo,       \* todo[c], the items it has still to handle
    held,       \* held[c], the row of Domain it has read
    failed,     \* failed[c], the items it will report as failed
    outcome     \* outcome[c]

dbVars == <<users, domain, fresh, perms>>
commandVars == <<step, order, todo, held, failed, outcome>>
permissionsVars == <<calm, dbVars, commandVars>>

Permission == [user : Users, row : Rows, level : Access]
Perm(user, row, level) == [user |-> user, row |-> row, level |-> level]

Exists(row) == domain[row] # NoRow
RowsOf(name) == {row \in Rows : domain[row] = name}
Valid(name) == name \notin BadNames

\* The foreign keys and the uniqueness constraint of a permission.
Insertable(p) == p.user \in users /\ Exists(p.row) /\ p \notin perms

NoOrder == [verb |-> "none", user |-> "none", domains |-> << >>, subdomains |-> << >>]

PermissionsInit ==
    /\ calm \in BOOLEAN
    /\ users = Users
    /\ domain = [row \in Rows |-> IF row =< Len(InitialDomains) THEN InitialDomains[row] ELSE NoRow]
    /\ fresh = Len(InitialDomains) + 1
    /\ perms = InitialPerms
    /\ step = [c \in Commands |-> "new"]
    /\ order = [c \in Commands |-> NoOrder]
    /\ todo = [c \in Commands |-> << >>]
    /\ held = [c \in Commands |-> 0]
    /\ failed = [c \in Commands |-> {}]
    /\ outcome = [c \in Commands |-> "None"]

(***************************************************************************)
(* The rows of Domain.  A new row is bounded by Rows.                      *)
(***************************************************************************)
\* A faulty variant: the id of a deleted row is used again.
InsertDomainAnew(name) ==
    /\ \E row \in Rows :
           /\ ~ Exists(row)
           /\ domain' = [domain EXCEPT ![row] = name]
    /\ fresh' = fresh + 1

InsertDomain(name) ==
    /\ fresh \in Rows
    /\ domain' = [domain EXCEPT ![fresh] = name]
    /\ fresh' = fresh + 1

(***************************************************************************)
(* COMMANDS                                                                *)
(*                                                                         *)
(* The items are handled in order, domains before subdomains.              *)
(***************************************************************************)
Items(o) ==
    [i \in 1..Len(o.domains) |-> [name |-> o.domains[i], level |-> "domain"]]
        \o [i \in 1..Len(o.subdomains) |-> [name |-> o.subdomains[i], level |-> "subdomain"]]

Item(c) == Head(todo[c])
Wanted(c) == Perm(order[c].user, held[c], Item(c).level)

\* A command starts, and stops at once when its user has no account.
Start(c) ==
    /\ step[c] = "new"
    /\ \E o \in Orders :
        /\ order' = [order EXCEPT ![c] = o]
        /\ todo' = [todo EXCEPT ![c] = Items(o)]
        /\ \/ /\ o.user \notin users
              /\ step' = [step EXCEPT ![c] = "end"]
              /\ outcome' = [outcome EXCEPT ![c] = "NoUser"]
           \/ /\ o.user \in users
              /\ Items(o) = << >>
              /\ step' = [step EXCEPT ![c] = "end"]
              /\ outcome' = [outcome EXCEPT ![c] = "Success"]
           \/ /\ o.user \in users
              /\ Items(o) # << >>
              /\ step' = [step EXCEPT ![c] = "getDomain"]
              /\ UNCHANGED outcome
    /\ UNCHANGED <<dbVars, held, failed>>

\* The command goes on to another query about the same item.
Query(c, next) ==
    /\ step' = [step EXCEPT ![c] = next]
    /\ UNCHANGED <<order, todo, failed, outcome>>

\* A faulty variant: the loop stays at an item that failed.
RetryItem(c, failures) ==
    /\ todo' = [todo EXCEPT ![c] = IF failures = {} THEN Tail(@) ELSE @]
    /\ failed' = [failed EXCEPT ![c] = @ \cup failures]
    /\ step' = [step EXCEPT ![c] = IF todo'[c] # << >> THEN "getDomain" ELSE "end"]
    /\ outcome' = [outcome EXCEPT ![c] = IF todo'[c] # << >> THEN "None" ELSE "Success"]
    /\ UNCHANGED order

\* The item is handled, and the next one is taken up or the command ends.
NextItem(c, failures) ==
    /\ todo' = [todo EXCEPT ![c] = Tail(@)]
    /\ failed' = [failed EXCEPT ![c] = @ \cup failures]
    /\ IF Tail(todo[c]) # << >>
       THEN /\ step' = [step EXCEPT ![c] = "getDomain"]
            /\ UNCHANGED outcome
       ELSE /\ step' = [step EXCEPT ![c] = "end"]
            /\ outcome' = [outcome EXCEPT ![c] =
                              IF failed'[c] = {} THEN "Success" ELSE "Failed"]
    /\ UNCHANGED order

\* ValidationError: the item is noted and the loop goes on.
Reject(c) == NextItem(c, {Item(c)}) /\ UNCHANGED <<dbVars, held>>

\* IntegrityError is not caught: the rest of the items is left undone.
Crash(c) ==
    /\ step' = [step EXCEPT ![c] = "end"]
    /\ outcome' = [outcome EXCEPT ![c] = "Crashed"]
    /\ UNCHANGED <<dbVars, order, todo, held, failed>>

(***************************************************************************)
(* grant_permission: each of get, full_clean and save is a query.          *)
(***************************************************************************)
\* A faulty variant: the domain is made without a look for it.
AllowMakeDomain(c) ==
    /\ step[c] = "getDomain"
    /\ order[c].verb = "allow"
    /\ Query(c, "cleanDomain")
    /\ UNCHANGED <<dbVars, held>>

AllowGetDomain(c) ==
    /\ step[c] = "getDomain"
    /\ order[c].verb = "allow"
    /\ \/ \E row \in RowsOf(Item(c).name) :
              /\ held' = [held EXCEPT ![c] = row]
              /\ Query(c, "getPerm")
       \/ /\ RowsOf(Item(c).name) = {}
          /\ Query(c, "cleanDomain")
          /\ UNCHANGED held
    /\ UNCHANGED dbVars

\* A faulty variant: no full_clean of the domain.
AllowAnyDomain(c) ==
    /\ step[c] = "cleanDomain"
    /\ Query(c, "saveDomain")
    /\ UNCHANGED <<dbVars, held>>

AllowCleanDomain(c) ==
    /\ step[c] = "cleanDomain"
    /\ \/ /\ ~ Valid(Item(c).name) \/ RowsOf(Item(c).name) # {}
          /\ Reject(c)
       \/ /\ Valid(Item(c).name) /\ RowsOf(Item(c).name) = {}
          /\ Query(c, "saveDomain")
          /\ UNCHANGED <<dbVars, held>>

AllowSaveDomain(c) ==
    /\ step[c] = "saveDomain"
    /\ \/ /\ RowsOf(Item(c).name) # {}
          /\ Crash(c)
       \/ /\ RowsOf(Item(c).name) = {}
          /\ InsertDomain(Item(c).name)
          /\ held' = [held EXCEPT ![c] = fresh]
          /\ Query(c, "getPerm")
          /\ UNCHANGED <<users, perms>>

\* A faulty variant: a permission of either level will do.
AllowGetAnyPerm(c) ==
    /\ step[c] = "getPerm"
    /\ IF \E p \in perms : p.user = order[c].user /\ p.row = held[c]
       THEN NextItem(c, {})
       ELSE Query(c, "cleanPerm")
    /\ UNCHANGED <<dbVars, held>>

AllowGetPerm(c) ==
    /\ step[c] = "getPerm"
    /\ \/ /\ Wanted(c) \in perms
          /\ NextItem(c, {})
       \/ /\ Wanted(c) \notin perms
          /\ Query(c, "cleanPerm")
    /\ UNCHANGED <<dbVars, held>>

AllowCleanPerm(c) ==
    /\ step[c] = "cleanPerm"
    /\ \/ /\ ~ Insertable(Wanted(c))
          /\ Reject(c)
       \/ /\ Insertable(Wanted(c))
          /\ Query(c, "savePerm")
          /\ UNCHANGED <<dbVars, held>>

AllowSavePerm(c) ==
    /\ step[c] = "savePerm"
    /\ \/ /\ ~ Insertable(Wanted(c))
          /\ Crash(c)
       \/ /\ Insertable(Wanted(c))
          /\ perms' = perms \cup {Wanted(c)}
          /\ NextItem(c, {})
          /\ UNCHANGED <<users, domain, fresh, held>>

(***************************************************************************)
(* revoke_permission: the domain is read, then the permission is deleted,  *)
(* and it is an error when there was none.                                 *)
(***************************************************************************)
RevokeGetDomain(c) ==
    /\ step[c] = "getDomain"
    /\ order[c].verb = "revoke"
    /\ \/ \E row \in RowsOf(Item(c).name) :
              /\ held' = [held EXCEPT ![c] = row]
              /\ Query(c, "delete")
              /\ UNCHANGED dbVars
       \/ /\ RowsOf(Item(c).name) = {}
          /\ Reject(c)

RevokeDelete(c) ==
    /\ step[c] = "delete"
    /\ \/ /\ Wanted(c) \notin perms
          /\ Reject(c)
       \/ /\ Wanted(c) \in perms
          /\ perms' = perms \ {Wanted(c)}
          /\ NextItem(c, {})
          /\ UNCHANGED <<users, domain, fresh, held>>

Command(c) ==
    \/ Start(c)
    \/ AllowGetDomain(c)
    \/ AllowCleanDomain(c)
    \/ AllowSaveDomain(c)
    \/ AllowGetPerm(c)
    \/ AllowCleanPerm(c)
    \/ AllowSavePerm(c)
    \/ RevokeGetDomain(c)
    \/ RevokeDelete(c)

(***************************************************************************)
(* REST: the calls of an administrator that change a table.  A call that   *)
(* a constraint refuses changes nothing and is left out.  The permissions  *)
(* of a deleted row go with it.                                            *)
(***************************************************************************)
RestCreateDomain(name) ==
    /\ "createDomain" \in RestMay
    /\ Valid(name) /\ RowsOf(name) = {}
    /\ InsertDomain(name)
    /\ UNCHANGED <<users, perms>>

\* save() inserts the row again when it was deleted since it was read.
RestRenameDomain(row, name) ==
    /\ "renameDomain" \in RestMay
    /\ row < fresh /\ Valid(name) /\ RowsOf(name) = {}
    /\ domain' = [domain EXCEPT ![row] = name]
    /\ UNCHANGED <<users, fresh, perms>>

RestDeleteDomain(row) ==
    /\ "deleteDomain" \in RestMay
    /\ Exists(row)
    /\ domain' = [domain EXCEPT ![row] = NoRow]
    /\ perms' = {p \in perms : p.row # row}
    /\ UNCHANGED <<users, fresh>>

RestCreatePermission(p) ==
    /\ "createPermission" \in RestMay
    /\ Insertable(p)
    /\ perms' = perms \cup {p}
    /\ UNCHANGED <<users, domain, fresh>>

\* The same for a permission amounts to RestCreatePermission.
RestMovePermission(p, q) ==
    /\ "movePermission" \in RestMay
    /\ p \in perms /\ Insertable(q)
    /\ perms' = (perms \ {p}) \cup {q}
    /\ UNCHANGED <<users, domain, fresh>>

RestDeletePermission(p) ==
    /\ "deletePermission" \in RestMay
    /\ p \in perms
    /\ perms' = perms \ {p}
    /\ UNCHANGED <<users, domain, fresh>>

RestDeleteUser(user) ==
    /\ "deleteUser" \in RestMay
    /\ user \in users
    /\ users' = users \ {user}
    /\ perms' = {p \in perms : p.user # user}
    /\ UNCHANGED <<domain, fresh>>

Rest ==
    /\ ~ calm
    /\ \/ \E name \in Domains : RestCreateDomain(name)
       \/ \E row \in Rows, name \in Domains : RestRenameDomain(row, name)
       \/ \E row \in Rows : RestDeleteDomain(row)
       \/ \E p \in Permission : RestCreatePermission(p)
       \/ \E p, q \in Permission : RestMovePermission(p, q)
       \/ \E p \in Permission : RestDeletePermission(p)
       \/ \E user \in Users : RestDeleteUser(user)
    /\ UNCHANGED commandVars

PermissionsNext ==
    /\ (\E c \in Commands : Command(c)) \/ Rest
    /\ UNCHANGED calm

PermissionsSpec ==
    /\ PermissionsInit
    /\ [][PermissionsNext]_permissionsVars
    /\ \A c \in Commands : WF_<<dbVars, commandVars>>(Command(c))

(***************************************************************************)
(* INVARIANTS                                                              *)
(***************************************************************************)

\* The tables and the commands have their types.
PermissionsTypeOK ==
    /\ users \subseteq Users
    /\ domain \in [Rows -> Domains \cup {NoRow}]
    /\ fresh \in 1..(Cardinality(Rows) + 1)
    /\ perms \subseteq Permission
    /\ step \in [Commands -> {"new", "getDomain", "cleanDomain", "saveDomain", "getPerm",
                              "cleanPerm", "savePerm", "delete", "end"}]
    /\ order \in [Commands -> Orders \cup {NoOrder}]
    /\ held \in [Commands -> Rows \cup {0}]
    /\ outcome \in [Commands -> {"None", "Success", "Failed", "Crashed", "NoUser"}]

Alone(c) == \A d \in Commands \ {c} : step[d] = "new"

\* A command that nobody interferes with never meets a constraint of the
\* database, and refuses no name but a bad one: its own checks suffice, also
\* for an order that names a domain twice (allow_domains.py:22-34).
FailsAlone ==
    calm => \A c \in Commands :
        Alone(c) => /\ outcome[c] # "Crashed"
                    /\ order[c].verb = "allow" => \A i \in failed[c] : i.name \in BadNames

(***************************************************************************)
(* ACTION PROPERTIES                                                       *)
(***************************************************************************)
Handles(c) == step[c] \notin {"new", "end"} /\ todo'[c] = Tail(todo[c])

\* An item that allow_domains goes past without a failure is granted at that
\* moment, by this command or by another, and one that revoke_domains goes past
\* is not (allow_domains.py:22-34, revoke_domains.py:28-33).
HandledItemIsSettled ==
    [][\A c \in Commands :
          Handles(c) /\ Item(c) \notin failed'[c] =>
              LET granted == \E row \in Rows :
                                 /\ domain'[row] = Item(c).name
                                 /\ Perm(order[c].user, row, Item(c).level) \in perms'
              IN  granted <=> order[c].verb = "allow"
      ]_<<dbVars, commandVars>>

\* No command touches a permission that its order does not name: not one of
\* another user, nor of another level, nor of another domain, whatever was
\* deleted and made again while it ran.  (A domain renamed through REST between
\* two queries of a command is the exception: the row it holds has that name no more.)
OnlyOrderedPermissionsChange ==
    [][commandVars' # commandVars =>
          \A p \in (perms \ perms') \cup (perms' \ perms) :
              \E c \in Commands :
                  /\ step'[c] # step[c] \/ todo'[c] # todo[c]
                  /\ p.user = order[c].user
                  /\ [name |-> domain[p.row], level |-> p.level] \in
                         {Items(order[c])[i] : i \in 1..Len(Items(order[c]))}
      ]_<<dbVars, commandVars>>

(***************************************************************************)
(* LIVENESS                                                                *)
(***************************************************************************)

\* A command that was started ends, and says how, whatever others change
\* meanwhile -- as long as the bound on the rows leaves one for its domain.
EveryCommandEnds ==
    \A c \in Commands : step[c] # "new" ~> outcome[c] # "None" \/ fresh \notin Rows

=============================================================================

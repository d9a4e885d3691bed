------------------------------- MODULE Accounts -------------------------------
(***************************************************************************)
(* The accounts and their passwords: the create_user command, which the    *)
(* charm runs with a password it makes up, and the REST resource of users. *)
(*                                                                         *)
(* save() writes all the columns of the row as they were when it was read, *)
(* and inserts the row again when it is gone.  Every query is a step.      *)
(***************************************************************************)
EXTENDS Integers, FiniteSets

CONSTANTS
    Names, BadNames,    \* user names, and those that full_clean rejects
    Creators,           \* runs of create_user; each has a password of its own
    Admins,             \* users of the REST resource, each with a password to give
    Rows,               \* 1..n, the ids of the accounts, never used twice
    NoAccount

ASSUME AccountsAssumption ==
    /\ Names \cap BadNames = {}
    /\ Creators \cap Admins = {}
    /\ IsFiniteSet(Rows) /\ Rows = 1..Cardinality(Rows)
    /\ NoAccount \notin [name : Names, password : [secret : Creators \cup Admins, hashed : BOOLEAN]]

VARIABLES
    account,    \* account[row]: [name, password]
    fresh,      \* the id of the next account
    step,       \* step[a], what an actor does next
    copy,       \* copy[a], the account it has in memory, with its row or 0
    outcome     \* outcome[a]

vars == <<account, fresh, step, copy, outcome>>

Actors == Creators \cup Admins
Passwords == [secret : Actors, hashed : BOOLEAN]
Hash(secret) == [secret |-> secret, hashed |-> TRUE]

\* What a PUT or PATCH stores: only create() hashes the password.
Raw(secret) == [secret |-> secret, hashed |-> FALSE]

There == {row \in Rows : account[row] # NoAccount}
Taken(name) == \E row \in There : account[row].name = name

\* Basic authentication: the password is compared with a hash.
Opens(secret, name) ==
    \E row \in There : account[row] = [name |-> name, password |-> Hash(secret)]

Object(row, name, password) == [row |-> row, name |-> name, password |-> password]

Init ==
    /\ account = [row \in Rows |-> NoAccount]
    /\ fresh = 1
    /\ step = [a \in Actors |-> "new"]
    /\ copy = [a \in Actors |-> Object(0, "none", Raw(a))]
    /\ outcome = [a \in Actors |-> "None"]

End(a, what) ==
    /\ step' = [step EXCEPT ![a] = "end"]
    /\ outcome' = [outcome EXCEPT ![a] = what]

Stored(object) == [name |-> object.name, password |-> object.password]

\* A faulty variant: the object always becomes a new row.
SaveAsNew(object) ==
    /\ fresh \in Rows
    /\ ~ Taken(object.name)
    /\ account' = [account EXCEPT ![fresh] = Stored(object)]
    /\ fresh' = fresh + 1

\* save(), unless the name belongs to another row.
Save(object) ==
    /\ \A row \in There \ {object.row} : account[row].name # object.name
    /\ \/ /\ object.row # 0
          /\ account' = [account EXCEPT ![object.row] = Stored(object)]
          /\ UNCHANGED fresh
       \/ /\ object.row = 0
          /\ fresh \in Rows
          /\ account' = [account EXCEPT ![fresh] = Stored(object)]
          /\ fresh' = fresh + 1

NameCollides(object) == \E row \in There \ {object.row} : account[row].name = object.name

(***************************************************************************)
(* create_user                                                             *)
(***************************************************************************)
\* A faulty variant: the password of a new account is not hashed.
GetUserUnhashed(c) ==
    /\ step[c] = "new"
    /\ \E name \in Names \cup BadNames :
        \/ \E row \in There :
              /\ account[row].name = name
              /\ copy' = [copy EXCEPT ![c] = Object(row, name, account[row].password)]
              /\ step' = [step EXCEPT ![c] = "save"]
        \/ /\ ~ Taken(name)
           /\ copy' = [copy EXCEPT ![c] = Object(0, name, Raw(c))]
           /\ step' = [step EXCEPT ![c] = "clean"]
    /\ UNCHANGED <<account, fresh, outcome>>

GetUser(c) ==
    /\ step[c] = "new"
    /\ \E name \in Names \cup BadNames :
        \/ \E row \in There :
              /\ account[row].name = name
              /\ copy' = [copy EXCEPT ![c] = Object(row, name, account[row].password)]
              /\ step' = [step EXCEPT ![c] = "save"]
        \/ /\ ~ Taken(name)
           /\ copy' = [copy EXCEPT ![c] = Object(0, name, Hash(c))]
           /\ step' = [step EXCEPT ![c] = "clean"]
    /\ UNCHANGED <<account, fresh, outcome>>

\* A faulty variant: no full_clean.
SkipClean(c) ==
    /\ step[c] = "clean"
    /\ step' = [step EXCEPT ![c] = "save"]
    /\ UNCHANGED <<account, fresh, copy, outcome>>

CleanUser(c) ==
    /\ step[c] = "clean"
    /\ IF copy[c].name \in BadNames \/ Taken(copy[c].name)
       THEN End(c, "Invalid")
       ELSE step' = [step EXCEPT ![c] = "save"] /\ UNCHANGED outcome
    /\ UNCHANGED <<account, fresh, copy>>

SaveUser(c) ==
    /\ step[c] = "save"
    /\ \/ Save(copy[c]) /\ End(c, "Success")
       \/ NameCollides(copy[c]) /\ End(c, "Crashed") /\ UNCHANGED <<account, fresh>>
    /\ UNCHANGED copy

(***************************************************************************)
(* The REST resource.                                                      *)
(***************************************************************************)
RestCreateUser(a) ==
    /\ step[a] = "new"
    /\ \E name \in Names : Save(Object(0, name, Hash(a)))
    /\ End(a, "Created")
    /\ UNCHANGED copy

RestGetUser(a) ==
    /\ step[a] = "new"
    /\ \E row \in There :
           copy' = [copy EXCEPT ![a] = Object(row, account[row].name, account[row].password)]
    /\ step' = [step EXCEPT ![a] = "change"]
    /\ UNCHANGED <<account, fresh, outcome>>

\* PUT or PATCH: the name, the password or both are given.
RestUpdateUser(a) ==
    /\ step[a] = "change"
    /\ \E name \in Names, password \in {copy[a].password, Raw(a)} :
        LET object == Object(copy[a].row, name, password)
        IN  \/ Save(object) /\ End(a, "Updated")
            \/ NameCollides(object) /\ End(a, "Refused") /\ UNCHANGED <<account, fresh>>
    /\ UNCHANGED copy

RestDeleteUser(a) ==
    /\ step[a] = "change"
    /\ account' = [account EXCEPT ![copy[a].row] = NoAccount]
    /\ End(a, "Deleted")
    /\ UNCHANGED <<fresh, copy>>

Next ==
    \/ \E c \in Creators : GetUser(c) \/ CleanUser(c) \/ SaveUser(c)
    \/ \E a \in Admins : \/ RestCreateUser(a) \/ RestGetUser(a)
                         \/ RestUpdateUser(a) \/ RestDeleteUser(a)

Spec == Init /\ [][Next]_vars /\ \A c \in Creators : WF_vars(GetUser(c) \/ CleanUser(c) \/ SaveUser(c))

(***************************************************************************)
(* PROPERTIES                                                              *)
(***************************************************************************)

\* The accounts have valid names, and everything has its type.
AccountsTypeOK ==
    /\ account \in [Rows -> [name : Names, password : Passwords] \cup {NoAccount}]
    /\ fresh \in 1..(Cardinality(Rows) + 1)
    /\ step \in [Actors -> {"new", "clean", "save", "change", "end"}]

\* Whose password was given for an account: a run that told of its success, or the
\* administrator who made it.
Given(a, name) ==
    \/ a \in Creators /\ outcome[a] = "Success" /\ copy[a].name = name
    \/ a \in Admins /\ outcome[a] = "Created"

\* Nobody is locked out by commands: as long as no account is changed or deleted through
\* REST, a run that told of its success leaves an account which one of the passwords that
\* were given for it opens, however many runs for that name were under way: those that met
\* each other failed, or saved the account they read (create_user.py:44-55).  Which of the
\* passwords it is, is left open.
SomeGivenPasswordWorks ==
    (\A a \in Admins : outcome[a] \notin {"Updated", "Deleted"}) =>
        \A c \in Creators : outcome[c] = "Success" =>
            \E a \in Actors : Given(a, copy[c].name) /\ Opens(a, copy[c].name)

\* No password opens two accounts, although save() may bring back an account
\* that was deleted or renamed meanwhile (create_user.py:55).
OneAccountPerPassword ==
    \A p, q \in There :
        account[p].password.secret = account[q].password.secret => p = q

(***************************************************************************)
(* What the documents promise, and the code does not keep.                 *)
(***************************************************************************)

\* "If it exists, the password will be updated." (README.md:31): when the
\* command has told of its success, the password it printed opens the account.
PrintedPasswordWorks ==
    [][\A c \in Creators :
          outcome[c] = "None" /\ outcome'[c] = "Success" => Opens(c, copy[c].name)'
      ]_vars

=============================================================================

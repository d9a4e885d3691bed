---------------------------- MODULE AccountsProofs ----------------------------
(***************************************************************************)
(* Accounts and passwords, for any number of commands, administrators and  *)
(* names.                                                                  *)
(***************************************************************************)
EXTENDS Accounts, FiniteSetTheorems, TLAPS

LEMMA RowsAreNumbers == /\ Cardinality(Rows) \in Nat
                        /\ Rows \subseteq Nat
                        /\ \A row \in Rows : row >= 1 /\ row =< Cardinality(Rows)
                        /\ 0 \notin Rows
<1>1. Cardinality(Rows) \in Nat
  BY AccountsAssumption, FS_CardinalityType
<1> QED
  BY <1>1, AccountsAssumption

(***************************************************************************)
(* Types.  What is saved has a name that full_clean let pass, or one that  *)
(* was read from the table.                                                *)
(***************************************************************************)
Objects == [row : Rows \cup {0}, name : Names \cup BadNames \cup {"none"}, password : Passwords]

CopiesTypeOK ==
    /\ copy \in [Actors -> Objects]
    /\ outcome \in [Actors -> {"None", "Success", "Invalid", "Crashed", "Created",
                               "Updated", "Refused", "Deleted"}]
    /\ \A a \in Actors : /\ step[a] = "clean" => copy[a].name \in Names \cup BadNames
                         /\ step[a] = "save" => copy[a].name \in Names

TypeInv == AccountsTypeOK /\ CopiesTypeOK

LEMMA AccountsThere ==
    ASSUME TypeInv, NEW row \in There
    PROVE  /\ row \in Rows /\ account[row] \in [name : Names, password : Passwords]
           /\ account[row].name \in Names /\ account[row].password \in Passwords
<1>1. row \in Rows /\ account[row] # NoAccount
  BY DEF There
<1>2. account[row] \in [name : Names, password : Passwords]
  BY <1>1 DEF TypeInv, AccountsTypeOK
<1> QED
  BY <1>1, <1>2

\* What is in memory, and what a request makes of it.
LEMMA CopiesAreObjects ==
    ASSUME TypeInv, NEW a \in Actors
    PROVE  copy[a] \in Objects /\ copy[a].row \in Rows \cup {0} /\ copy[a].password \in Passwords
<1>1. copy[a] \in Objects
  BY DEF TypeInv, CopiesTypeOK
<1> QED
  BY <1>1 DEF Objects

LEMMA RequestedObject ==
    ASSUME TypeInv, NEW a \in Actors, NEW name \in Names,
           NEW password \in {copy[a].password, Raw(a)}
    PROVE  /\ Object(copy[a].row, name, password) \in Objects
           /\ Object(copy[a].row, name, password).name = name
           /\ Object(copy[a].row, name, password).row = copy[a].row
           /\ Object(copy[a].row, name, password).password = password
<1>1. password \in Passwords
  <2>1. Raw(a) \in Passwords
    BY DEF Raw, Passwords
  <2>2. copy[a].password \in Passwords
    BY CopiesAreObjects
  <2> QED
    BY <2>1, <2>2
<1> QED
  BY <1>1, CopiesAreObjects DEF Object, Objects

\* What save() does to the table.
LEMMA Saved ==
    ASSUME TypeInv, NEW object \in Objects, object.name \in Names, Save(object)
    PROVE  /\ account' \in [Rows -> [name : Names, password : Passwords] \cup {NoAccount}]
           /\ fresh' \in 1..(Cardinality(Rows) + 1)
           /\ fresh' >= fresh
           /\ \E row \in Rows :
                  /\ account' = [account EXCEPT ![row] = Stored(object)]
                  /\ \/ object.row # 0 /\ row = object.row /\ fresh' = fresh
                     \/ object.row = 0 /\ row = fresh /\ fresh' = fresh + 1
<1>1. Stored(object) \in [name : Names, password : Passwords]
  BY DEF Stored, Objects
<1>2. CASE object.row # 0
  <2>1. object.row \in Rows
    BY <1>2 DEF Objects
  <2>2. account' = [account EXCEPT ![object.row] = Stored(object)] /\ fresh' = fresh
    BY <1>2 DEF Save
  <2>3. fresh \in Nat
    BY DEF TypeInv, AccountsTypeOK
  <2>4. /\ account' \in [Rows -> [name : Names, password : Passwords] \cup {NoAccount}]
        /\ fresh' \in 1..(Cardinality(Rows) + 1)
    BY <1>1, <2>1, <2>2 DEF TypeInv, AccountsTypeOK
  <2>5. \E row \in Rows :
            /\ account' = [account EXCEPT ![row] = Stored(object)]
            /\ object.row # 0 /\ row = object.row /\ fresh' = fresh
    BY <1>2, <2>1, <2>2
  <2>6. fresh' >= fresh
    BY <2>2, <2>3
  <2> QED
    BY <2>4, <2>5, <2>6
<1>3. CASE object.row = 0
  <2>1. /\ fresh \in Rows
        /\ account' = [account EXCEPT ![fresh] = Stored(object)] /\ fresh' = fresh + 1
    BY <1>3 DEF Save
  <2>2. account' \in [Rows -> [name : Names, password : Passwords] \cup {NoAccount}]
    BY <1>1, <2>1 DEF TypeInv, AccountsTypeOK
  <2>3. fresh' \in 1..(Cardinality(Rows) + 1) /\ fresh' >= fresh
    BY <2>1, RowsAreNumbers
  <2> QED
    BY <1>3, <2>1, <2>2, <2>3
<1> QED
  BY <1>2, <1>3

LEMMA CopyToSave ==
    ASSUME TypeInv, NEW c \in Actors, step[c] = "save"
    PROVE  copy[c] \in Objects /\ copy[c].name \in Names
BY DEF TypeInv, CopiesTypeOK

LEMMA TypeInit == Init => TypeInv
<1> SUFFICES ASSUME Init PROVE TypeInv
  OBVIOUS
<1>1. \A a \in Actors : Object(0, "none", Raw(a)) \in Objects
  BY DEF Object, Objects, Raw, Passwords
<1>2. copy \in [Actors -> Objects]
  BY <1>1 DEF Init
<1>3. AccountsTypeOK
  BY RowsAreNumbers DEF Init, AccountsTypeOK
<1> QED
  BY <1>2, <1>3 DEF Init, TypeInv, CopiesTypeOK

LEMMA TypeStep == TypeInv /\ [Next]_vars => TypeInv'
<1> SUFFICES ASSUME TypeInv, [Next]_vars PROVE TypeInv'
  OBVIOUS
<1> USE DEF TypeInv, AccountsTypeOK
<1>1. ASSUME NEW c \in Creators, GetUser(c) PROVE TypeInv'
  <2> c \in Actors
    BY DEF Actors
  <2>1. PICK name \in Names \cup BadNames :
            \/ \E row \in There :
                  /\ account[row].name = name
                  /\ copy' = [copy EXCEPT ![c] = Object(row, name, account[row].password)]
                  /\ step' = [step EXCEPT ![c] = "save"]
            \/ /\ copy' = [copy EXCEPT ![c] = Object(0, name, Hash(c))]
               /\ step' = [step EXCEPT ![c] = "clean"]
    BY <1>1 DEF GetUser
  <2>2. UNCHANGED <<account, fresh, outcome>>
    BY <1>1 DEF GetUser
  <2>3. ASSUME NEW row \in There, account[row].name = name,
               copy' = [copy EXCEPT ![c] = Object(row, name, account[row].password)],
               step' = [step EXCEPT ![c] = "save"]
        PROVE  TypeInv'
    <3>1. name \in Names /\ Object(row, name, account[row].password) \in Objects
      BY <2>3, AccountsThere DEF Object, Objects
    <3> QED
      BY <2>2, <2>3, <3>1 DEF CopiesTypeOK, Object
  <2>4. ASSUME copy' = [copy EXCEPT ![c] = Object(0, name, Hash(c))],
               step' = [step EXCEPT ![c] = "clean"]
        PROVE  TypeInv'
    <3>1. Object(0, name, Hash(c)) \in Objects
      BY DEF Object, Objects, Hash, Passwords
    <3> QED
      BY <2>2, <2>4, <3>1 DEF CopiesTypeOK, Object
  <2> QED
    BY <2>1, <2>3, <2>4
<1>2. ASSUME NEW c \in Creators, CleanUser(c) PROVE TypeInv'
  BY <1>2 DEF CleanUser, End, CopiesTypeOK, Actors
<1>3. ASSUME NEW c \in Creators, SaveUser(c) PROVE TypeInv'
  <2> c \in Actors
    BY DEF Actors
  <2>1. CASE Save(copy[c]) /\ End(c, "Success") /\ UNCHANGED copy
    <3>1. copy[c] \in Objects /\ copy[c].name \in Names
      BY <1>3, CopyToSave DEF SaveUser
    <3>2. /\ account' \in [Rows -> [name : Names, password : Passwords] \cup {NoAccount}]
          /\ fresh' \in 1..(Cardinality(Rows) + 1)
      BY <2>1, <3>1, Saved
    <3> QED
      BY <2>1, <3>2 DEF End, CopiesTypeOK
  <2>2. CASE End(c, "Crashed") /\ UNCHANGED <<account, fresh, copy>>
    BY <2>2 DEF End, CopiesTypeOK
  <2> QED
    BY <1>3, <2>1, <2>2 DEF SaveUser
<1>4. ASSUME NEW a \in Admins, RestCreateUser(a) PROVE TypeInv'
  <2> a \in Actors
    BY DEF Actors
  <2>1. PICK name \in Names : Save(Object(0, name, Hash(a)))
    BY <1>4 DEF RestCreateUser
  <2>2. Object(0, name, Hash(a)) \in Objects /\ Object(0, name, Hash(a)).name \in Names
    BY DEF Object, Objects, Hash, Passwords
  <2>3. /\ account' \in [Rows -> [name : Names, password : Passwords] \cup {NoAccount}]
        /\ fresh' \in 1..(Cardinality(Rows) + 1)
    BY <2>1, <2>2, Saved
  <2> QED
    BY <1>4, <2>3 DEF RestCreateUser, End, CopiesTypeOK
<1>5. ASSUME NEW a \in Admins, RestGetUser(a) PROVE TypeInv'
  <2> a \in Actors
    BY DEF Actors
  <2>1. PICK row \in There :
            copy' = [copy EXCEPT ![a] = Object(row, account[row].name, account[row].password)]
    BY <1>5 DEF RestGetUser
  <2>2. Object(row, account[row].name, account[row].password) \in Objects
    BY AccountsThere DEF Object, Objects
  <2> QED
    BY <1>5, <2>1, <2>2 DEF RestGetUser, CopiesTypeOK
<1>6. ASSUME NEW a \in Admins, RestUpdateUser(a) PROVE TypeInv'
  <2> a \in Actors
    BY DEF Actors
  <2>1. PICK name \in Names, password \in {copy[a].password, Raw(a)} :
            LET object == Object(copy[a].row, name, password)
            IN  \/ Save(object) /\ End(a, "Updated")
                \/ NameCollides(object) /\ End(a, "Refused") /\ UNCHANGED <<account, fresh>>
    BY <1>6 DEF RestUpdateUser
  <2> DEFINE object == Object(copy[a].row, name, password)
  <2>2. object \in Objects /\ object.name \in Names
    BY RequestedObject
  <2>3. UNCHANGED copy
    BY <1>6 DEF RestUpdateUser
  <2>4. CASE Save(object) /\ End(a, "Updated")
    <3>1. /\ account' \in [Rows -> [name : Names, password : Passwords] \cup {NoAccount}]
          /\ fresh' \in 1..(Cardinality(Rows) + 1)
      BY <2>2, <2>4, Saved
    <3> QED
      BY <2>3, <2>4, <3>1 DEF End, CopiesTypeOK
  <2>5. CASE End(a, "Refused") /\ UNCHANGED <<account, fresh>>
    BY <2>3, <2>5 DEF End, CopiesTypeOK
  <2> QED
    BY <2>1, <2>4, <2>5
<1>7. ASSUME NEW a \in Admins, RestDeleteUser(a) PROVE TypeInv'
  BY <1>7 DEF RestDeleteUser, End, CopiesTypeOK, Actors
<1>8. CASE UNCHANGED vars
  BY <1>8 DEF vars, CopiesTypeOK
<1> QED
  BY <1>1, <1>2, <1>3, <1>4, <1>5, <1>6, <1>7, <1>8 DEF Next

\* The accounts have valid names, and everything has its type (create_user.py:48-55).
THEOREM TypeCorrect == Spec => []AccountsTypeOK
<1>1. TypeInv => AccountsTypeOK
  BY DEF TypeInv
<1> QED
  BY TypeInit, TypeStep, <1>1, PTL DEF Spec

-----------------------------------------------------------------------------
(***************************************************************************)
(* One account per password.  A secret belongs to one row, be it that of   *)
(* the table or the one an object in memory will be saved to; the secret   *)
(* of an actor who has not ended belongs to none.                          *)
(***************************************************************************)
Binds(row, secret) ==
    \/ row \in There /\ account[row].password.secret = secret
    \/ \E a \in Actors : /\ step[a] # "end"
                         /\ copy[a].row = row
                         /\ copy[a].password.secret = secret

SecretsInv ==
    /\ \A secret \in Actors : \A p, q \in Rows : Binds(p, secret) /\ Binds(q, secret) => p = q
    /\ \A a \in Actors : step[a] # "end" => \A p \in Rows : ~ Binds(p, a)
    /\ \A a \in Actors : copy[a].row = 0 => copy[a].password.secret = a

LEMMA SecretsInit == Init => SecretsInv
<1> SUFFICES ASSUME Init PROVE SecretsInv
  OBVIOUS
<1>1. There = {} /\ \A a \in Actors : copy[a].row = 0 /\ copy[a].password.secret = a
  BY DEF Init, There, Object, Raw
<1>2. ASSUME NEW p \in Rows, NEW secret \in Actors, Binds(p, secret) PROVE FALSE
  BY <1>1, <1>2, RowsAreNumbers DEF Binds
<1> QED
  BY <1>1, <1>2 DEF SecretsInv

\* No row is bound anew, but by an actor whose secret it is and who ends.
LEMMA SecretsKept ==
    ASSUME SecretsInv, NEW a \in Actors, NEW row \in Rows,
           \/ step[a] # "end" /\ step'[a] = "end"
           \/ \A p \in Rows, s \in Actors : Binds(p, s)' => Binds(p, s),
           \A p \in Rows, s \in Actors : Binds(p, s)' => Binds(p, s) \/ (p = row /\ s = a),
           \A b \in Actors : step'[b] # "end" => step[b] # "end",
           \A b \in Actors : copy'[b].row = 0 => copy'[b].password.secret = b
    PROVE  SecretsInv'
<1>1. ASSUME NEW s \in Actors, NEW p \in Rows, NEW q \in Rows, Binds(p, s)', Binds(q, s)'
      PROVE  p = q
  BY <1>1 DEF SecretsInv
<1>2. ASSUME NEW b \in Actors, step'[b] # "end", NEW p \in Rows, Binds(p, b)'
      PROVE  FALSE
  BY <1>2 DEF SecretsInv
<1> QED
  BY <1>1, <1>2 DEF SecretsInv

\* What is saved has the secret of a row the actor holds, or the actor's own.
LEMMA SecretsSaved ==
    ASSUME TypeInv, SecretsInv, NEW a \in Actors, NEW object \in Objects,
           object.name \in Names, Save(object),
           step[a] # "end", step' = [step EXCEPT ![a] = "end"], UNCHANGED copy,
           \/ /\ object.row # 0 /\ object.row = copy[a].row
              /\ object.password.secret = copy[a].password.secret
           \/ object.password.secret = a
    PROVE  SecretsInv'
<1>1. PICK row \in Rows :
          /\ account' = [account EXCEPT ![row] = Stored(object)]
          /\ object.row # 0 => row = object.row
  BY Saved
<1>2. step'[a] = "end" /\ \A b \in Actors : step'[b] # "end" => step[b] # "end"
  BY DEF TypeInv, AccountsTypeOK
<1>3. ASSUME NEW p \in Rows, NEW s \in Actors, Binds(p, s)'
      PROVE  Binds(p, s) \/ (p = row /\ s = a)
  <2>1. CASE \E b \in Actors : step'[b] # "end" /\ copy'[b].row = p /\ copy'[b].password.secret = s
    BY <1>2, <2>1 DEF Binds
  <2>2. CASE p \in There' /\ account'[p].password.secret = s
    <3>1. CASE p # row
      <4>1. account'[p] = account[p]
        BY <1>1, <3>1 DEF TypeInv, AccountsTypeOK
      <4>2. p \in There
        BY <2>2, <4>1 DEF There
      <4> QED
        BY <2>2, <4>1, <4>2 DEF Binds
    <3>2. CASE p = row
      <4>1. account'[p] = Stored(object)
        BY <1>1, <3>2 DEF TypeInv, AccountsTypeOK
      <4>2. s = object.password.secret
        BY <2>2, <4>1 DEF Stored
      <4>3. CASE object.password.secret = a
        BY <3>2, <4>2, <4>3
      <4>4. CASE /\ object.row # 0 /\ object.row = copy[a].row
                 /\ object.password.secret = copy[a].password.secret
        BY <1>1, <3>2, <4>2, <4>4 DEF Binds
      <4> QED
        BY <4>3, <4>4
    <3> QED
      BY <3>1, <3>2
  <2> QED
    BY <1>3, <2>1, <2>2 DEF Binds
<1>4. \A b \in Actors : copy'[b].row = 0 => copy'[b].password.secret = b
  BY DEF SecretsInv
<1> HIDE DEF Binds
<1> QED
  BY <1>2, <1>3, <1>4, SecretsKept

\* A row that is read was bound, and stays so.
LEMMA SecretsRead ==
    ASSUME TypeInv, SecretsInv, NEW a \in Actors, step[a] = "new", NEW row \in There \cup {0}, NEW name,
           NEW password,
           IF row = 0 THEN password.secret = a ELSE password = account[row].password,
           copy' = [copy EXCEPT ![a] = Object(row, name, password)],
           \E next \in {"clean", "save", "change"} : step' = [step EXCEPT ![a] = next],
           UNCHANGED account
    PROVE  SecretsInv'
<1>1. /\ copy'[a].row = row /\ copy'[a].password = password
      /\ \A b \in Actors \ {a} : copy'[b] = copy[b] /\ step'[b] = step[b]
  BY DEF TypeInv, AccountsTypeOK, CopiesTypeOK, Object
<1>2. There' = There
  BY DEF There
<1>3. ASSUME NEW p \in Rows, NEW s \in Actors, Binds(p, s)'
      PROVE  Binds(p, s)
  <2>1. CASE p \in There' /\ account'[p].password.secret = s
    BY <1>2, <2>1 DEF Binds
  <2>2. CASE \E b \in Actors : step'[b] # "end" /\ copy'[b].row = p /\ copy'[b].password.secret = s
    <3>1. PICK b \in Actors : step'[b] # "end" /\ copy'[b].row = p /\ copy'[b].password.secret = s
      BY <2>2
    <3>2. CASE b = a
      BY <1>1, <3>1, <3>2, RowsAreNumbers DEF Binds
    <3>3. CASE b # a
      BY <1>1, <3>1, <3>3 DEF Binds
    <3> QED
      BY <3>2, <3>3
  <2> QED
    BY <1>3, <2>1, <2>2 DEF Binds
<1>4. \A b \in Actors : step'[b] # "end" => step[b] # "end"
  BY <1>1
<1>5. \A b \in Actors : copy'[b].row = 0 => copy'[b].password.secret = b
  BY <1>1 DEF SecretsInv
<1>6. CASE Rows = {}
  BY <1>5, <1>6 DEF SecretsInv
<1>7. CASE Rows # {}
  BY <1>3, <1>4, <1>5, <1>7, SecretsKept
<1> QED
  BY <1>6, <1>7

LEMMA SecretsStep == TypeInv /\ SecretsInv /\ [Next]_vars => SecretsInv'
<1> SUFFICES ASSUME TypeInv, SecretsInv, [Next]_vars PROVE SecretsInv'
  OBVIOUS
<1>1. ASSUME NEW c \in Creators, GetUser(c) PROVE SecretsInv'
  <2> c \in Actors
    BY DEF Actors
  <2>1. PICK name \in Names \cup BadNames :
            \/ \E row \in There :
                  /\ copy' = [copy EXCEPT ![c] = Object(row, name, account[row].password)]
                  /\ step' = [step EXCEPT ![c] = "save"]
            \/ /\ copy' = [copy EXCEPT ![c] = Object(0, name, Hash(c))]
               /\ step' = [step EXCEPT ![c] = "clean"]
    BY <1>1 DEF GetUser
  <2>2. step[c] = "new" /\ UNCHANGED account
    BY <1>1 DEF GetUser
  <2>3. ASSUME NEW row \in There,
               copy' = [copy EXCEPT ![c] = Object(row, name, account[row].password)],
               step' = [step EXCEPT ![c] = "save"]
        PROVE  SecretsInv'
    <3>1. row # 0
      BY RowsAreNumbers DEF There
    <3> QED
      BY <2>2, <2>3, <3>1, SecretsRead
  <2>4. ASSUME copy' = [copy EXCEPT ![c] = Object(0, name, Hash(c))],
               step' = [step EXCEPT ![c] = "clean"]
        PROVE  SecretsInv'
    <3>1. Hash(c).secret = c
      BY DEF Hash
    <3> QED
      BY <2>2, <2>4, <3>1, SecretsRead
  <2> QED
    BY <2>1, <2>3, <2>4
<1>2. ASSUME NEW c \in Creators, CleanUser(c) PROVE SecretsInv'
  <2>1. \A a \in Actors : step'[a] # "end" => step[a] # "end"
    BY <1>2 DEF CleanUser, End, TypeInv, AccountsTypeOK
  <2>2. UNCHANGED <<account, copy>>
    BY <1>2 DEF CleanUser
  <2> QED
    BY <2>1, <2>2 DEF SecretsInv, Binds, There
<1>3. ASSUME NEW c \in Creators, SaveUser(c) PROVE SecretsInv'
  <2> c \in Actors
    BY DEF Actors
  <2>1. copy[c] \in Objects /\ copy[c].name \in Names
    BY <1>3, CopyToSave DEF SaveUser
  <2>2. CASE Save(copy[c]) /\ End(c, "Success")
    BY <1>3, <2>1, <2>2, SecretsSaved DEF SaveUser, End, SecretsInv
  <2>3. CASE End(c, "Crashed") /\ UNCHANGED <<account, fresh>>
    <3>1. \A a \in Actors : step'[a] # "end" => step[a] # "end"
      BY <2>3 DEF End, TypeInv, AccountsTypeOK
    <3> QED
      BY <1>3, <2>3, <3>1 DEF SaveUser, SecretsInv, Binds, There
  <2> QED
    BY <1>3, <2>2, <2>3 DEF SaveUser
<1>4. ASSUME NEW a \in Admins, RestCreateUser(a) PROVE SecretsInv'
  <2> a \in Actors
    BY DEF Actors
  <2>1. PICK name \in Names : Save(Object(0, name, Hash(a)))
    BY <1>4 DEF RestCreateUser
  <2>2. /\ Object(0, name, Hash(a)) \in Objects /\ Object(0, name, Hash(a)).name \in Names
        /\ Object(0, name, Hash(a)).password.secret = a
    BY DEF Object, Objects, Hash, Passwords
  <2> QED
    BY <1>4, <2>1, <2>2, SecretsSaved DEF RestCreateUser, End
<1>5. ASSUME NEW a \in Admins, RestGetUser(a) PROVE SecretsInv'
  <2> a \in Actors
    BY DEF Actors
  <2>1. PICK row \in There :
            copy' = [copy EXCEPT ![a] = Object(row, account[row].name, account[row].password)]
    BY <1>5 DEF RestGetUser
  <2>2. row # 0
    BY RowsAreNumbers DEF There
  <2> QED
    BY <1>5, <2>1, <2>2, SecretsRead DEF RestGetUser
<1>6. ASSUME NEW a \in Admins, RestUpdateUser(a) PROVE SecretsInv'
  <2> a \in Actors
    BY DEF Actors
  <2>1. PICK name \in Names, password \in {copy[a].password, Raw(a)} :
            LET object == Object(copy[a].row, name, password)
            IN  \/ Save(object) /\ End(a, "Updated")
                \/ NameCollides(object) /\ End(a, "Refused") /\ UNCHANGED <<account, fresh>>
    BY <1>6 DEF RestUpdateUser
  <2> DEFINE object == Object(copy[a].row, name, password)
  <2>2. object \in Objects /\ object.name \in Names
    BY RequestedObject
  <2>3. \/ /\ object.row # 0 /\ object.row = copy[a].row
           /\ object.password.secret = copy[a].password.secret
        \/ object.password.secret = a
    BY DEF Object, Raw, SecretsInv
  <2>4. step[a] = "change" /\ UNCHANGED copy
    BY <1>6 DEF RestUpdateUser
  <2>5. CASE Save(object) /\ End(a, "Updated")
    <3> HIDE DEF object
    <3> QED
      BY <2>2, <2>3, <2>4, <2>5, SecretsSaved DEF End
  <2>6. CASE End(a, "Refused") /\ UNCHANGED <<account, fresh>>
    <3>1. \A b \in Actors : step'[b] # "end" => step[b] # "end"
      BY <2>6 DEF End, TypeInv, AccountsTypeOK
    <3> QED
      BY <2>4, <2>6, <3>1 DEF SecretsInv, Binds, There
  <2> QED
    BY <2>1, <2>5, <2>6
<1>7. ASSUME NEW a \in Admins, RestDeleteUser(a) PROVE SecretsInv'
  <2>1. \A b \in Actors : step'[b] # "end" => step[b] # "end"
    BY <1>7 DEF RestDeleteUser, End, TypeInv, AccountsTypeOK
  <2>2. \A p \in There' : p \in There /\ account'[p] = account[p]
    BY <1>7 DEF RestDeleteUser, There, TypeInv, AccountsTypeOK
  <2>3. UNCHANGED copy
    BY <1>7 DEF RestDeleteUser
  <2>4. \A p \in Rows, s \in Actors : Binds(p, s)' => Binds(p, s)
    BY <2>1, <2>2, <2>3 DEF Binds
  <2> QED
    BY <2>1, <2>3, <2>4 DEF SecretsInv
<1>8. CASE UNCHANGED vars
  BY <1>8 DEF vars, SecretsInv, Binds, There
<1> QED
  BY <1>1, <1>2, <1>3, <1>4, <1>5, <1>6, <1>7, <1>8 DEF Next

\* No password opens two accounts, whatever stale objects are saved (create_user.py:55).
THEOREM PasswordsAreOfOneAccount == Spec => []OneAccountPerPassword
<1>1. TypeInv /\ SecretsInv => OneAccountPerPassword
  <2> SUFFICES ASSUME TypeInv, SecretsInv, NEW p \in There, NEW q \in There,
                      account[p].password.secret = account[q].password.secret
               PROVE  p = q
    BY DEF OneAccountPerPassword
  <2>1. /\ p \in Rows /\ q \in Rows
        /\ account[p].password.secret \in Actors
    BY AccountsThere DEF Passwords
  <2> QED
    BY <2>1 DEF SecretsInv, Binds
<1> QED
  BY TypeInit, TypeStep, SecretsInit, SecretsStep, <1>1, PTL DEF Spec

-----------------------------------------------------------------------------
(***************************************************************************)
(* Which passwords work.  As long as no administrator changed or deleted   *)
(* an account, one that is there stays as it is: a command saves it as it  *)
(* is, or makes one with a new number.  So its password is that which was  *)
(* given when it was made.                                                 *)
(***************************************************************************)
Quiet == \A a \in Admins : outcome[a] \notin {"Updated", "Deleted"}

RowsInOrder ==
    /\ \A row \in Rows : row >= fresh => account[row] = NoAccount
    /\ \A a \in Actors : copy[a].row < fresh
    /\ \A a \in Actors : step[a] # "end" => outcome[a] = "None"

\* What a command holds in memory is a new account or the account as it is, and is there
\* when it told of its success.
CopyIsGood(c) ==
    /\ step[c] # "new" /\ copy[c].row = 0 => copy[c].password = Hash(c)
    /\ step[c] = "clean" => copy[c].row = 0
    /\ step[c] = "save" /\ copy[c].row # 0 => account[copy[c].row] = Stored(copy[c])
    /\ outcome[c] = "Success" => Taken(copy[c].name)

\* Its password was given for it.
RowIsGood(row) ==
    \E a \in Actors : Given(a, account[row].name) /\ account[row].password = Hash(a)

CreatedInv ==
    /\ RowsInOrder
    /\ Quiet => (\A c \in Creators : CopyIsGood(c)) /\ (\A row \in There : RowIsGood(row))

\* An account that is there stays as it is, and no one takes back what was given.
Stays == \A row \in There : row \in There' /\ account'[row] = account[row]
Kept(a) == step[a] # "end" \/ (copy'[a] = copy[a] /\ outcome'[a] = outcome[a])

LEMMA TakenStays == ASSUME Stays, NEW name, Taken(name)
                    PROVE  Taken(name)'
BY DEF Stays, Taken

LEMMA RowStaysGood ==
    ASSUME RowsInOrder, Stays, NEW row \in There, RowIsGood(row),
           \A a \in Actors : Kept(a)
    PROVE  RowIsGood(row)'
<1>1. PICK a \in Actors : Given(a, account[row].name) /\ account[row].password = Hash(a)
  BY DEF RowIsGood
<1>2. step[a] = "end"
  BY <1>1 DEF RowsInOrder, Given
<1>3. Given(a, account[row].name)'
  BY <1>1, <1>2 DEF Kept, Given, Stays
<1> QED
  BY <1>1, <1>3 DEF RowIsGood, Stays, Hash

LEMMA StoredIsThere ==
    ASSUME TypeInv, NEW row \in Rows, NEW object \in Objects, object.name \in Names,
           account[row] = Stored(object)
    PROVE  row \in There
<1>1. Stored(object) \in [name : Names, password : [secret : Creators \cup Admins, hashed : BOOLEAN]]
  BY DEF Stored, Objects, Passwords, Actors
<1> QED
  BY <1>1, AccountsAssumption DEF There

\* A command that does nothing in a step keeps what it has.
LEMMA CopyStaysGood ==
    ASSUME TypeInv, Stays, NEW c \in Creators, CopyIsGood(c),
           copy'[c] = copy[c], step'[c] = step[c], outcome'[c] = outcome[c]
    PROVE  CopyIsGood(c)'
<1> c \in Actors
  BY DEF Actors
<1>1. (outcome[c] = "Success")' => Taken(copy[c].name)'
  BY TakenStays DEF CopyIsGood, Taken
<1>2. ASSUME step[c] = "save", copy[c].row # 0
      PROVE  account'[copy[c].row] = Stored(copy[c])
  <2>1. /\ copy[c] \in Objects /\ copy[c].name \in Names
        /\ copy[c].row \in Rows
        /\ account[copy[c].row] = Stored(copy[c])
    BY <1>2, CopyToSave DEF CopyIsGood, Objects
  <2>2. copy[c].row \in There
    BY <2>1, StoredIsThere
  <2> QED
    BY <2>1, <2>2 DEF Stays
<1> QED
  BY <1>1, <1>2 DEF CopyIsGood, Stored

LEMMA CreatedInit == Init => CreatedInv
<1> SUFFICES ASSUME Init PROVE CreatedInv
  OBVIOUS
<1>1. RowsInOrder
  BY DEF Init, RowsInOrder, Object
<1>2. ASSUME NEW c \in Creators PROVE CopyIsGood(c)
  BY DEF Init, CopyIsGood, Actors, Object
<1>3. There = {}
  BY DEF Init, There
<1> QED
  BY <1>1, <1>2, <1>3 DEF CreatedInv

\* A step that makes no account, and takes nothing back.
LEMMA RowsStayGood ==
    ASSUME CreatedInv, Quiet, Stays, There' \subseteq There, \A a \in Actors : Kept(a)
    PROVE  \A row \in There' : RowIsGood(row)'
<1> SUFFICES ASSUME NEW row \in There' PROVE RowIsGood(row)'
  OBVIOUS
<1>1. row \in There /\ RowIsGood(row) /\ RowsInOrder
  BY DEF CreatedInv
<1> QED
  BY <1>1, RowStaysGood

\* save() of what is new, or of what is there as it is there.
LEMMA SaveStays ==
    ASSUME TypeInv, RowsInOrder, NEW object \in Objects, object.name \in Names, Save(object),
           object.row # 0 => object.row < fresh
    PROVE  /\ \A row \in Rows : row >= fresh' => account'[row] = NoAccount
           /\ fresh' \in Nat /\ fresh' >= fresh
           /\ (object.row # 0 => account[object.row] = Stored(object)) =>
                  /\ Stays
                  /\ \E row \in There' : /\ account'[row] = Stored(object)
                                         /\ There' \subseteq There \cup {row}
                                         /\ object.row # 0 => There' \subseteq There
<1>1. PICK row \in Rows :
          /\ account' = [account EXCEPT ![row] = Stored(object)]
          /\ \/ object.row # 0 /\ row = object.row /\ fresh' = fresh
             \/ object.row = 0 /\ row = fresh /\ fresh' = fresh + 1
  BY Saved
<1>2. fresh \in Nat /\ fresh' \in Nat /\ fresh' >= fresh /\ row < fresh'
  BY <1>1 DEF TypeInv, AccountsTypeOK
<1>3. account'[row] = Stored(object) /\ \A p \in Rows \ {row} : account'[p] = account[p]
  BY <1>1 DEF TypeInv, AccountsTypeOK
<1>4. ASSUME NEW p \in Rows, p >= fresh' PROVE account'[p] = NoAccount
  <2>1. p # row /\ p >= fresh
    BY <1>2, <1>4, RowsAreNumbers
  <2> QED
    BY <1>3, <2>1 DEF RowsInOrder
<1>5. Stored(object) # NoAccount
  <2>1. Stored(object) \in [name : Names, password : [secret : Creators \cup Admins, hashed : BOOLEAN]]
    BY DEF Stored, Objects, Passwords, Actors
  <2> QED
    BY <2>1, AccountsAssumption
<1>6. row \in There'
  BY <1>3, <1>5 DEF There
<1>7. ASSUME object.row # 0 => account[object.row] = Stored(object)
      PROVE  Stays
  <2> SUFFICES ASSUME NEW p \in There PROVE p \in There' /\ account'[p] = account[p]
    BY DEF Stays
  <2>1. CASE p # row
    BY <1>3, <2>1 DEF There
  <2>2. CASE p = row /\ object.row # 0
    BY <1>1, <1>3, <1>6, <1>7, <2>2
  <2>3. CASE p = row /\ object.row = 0
    <3>1. p = fresh
      BY <1>1, <2>3
    <3>2. account[p] = NoAccount
      BY <1>2, <3>1 DEF RowsInOrder, There
    <3> QED
      BY <3>2 DEF There
  <2> QED
    BY <2>1, <2>2, <2>3
<1>8. There' \subseteq There \cup {row}
  BY <1>3 DEF There
<1>9. object.row # 0 /\ account[object.row] = Stored(object) => There' \subseteq There
  BY <1>1, <1>5, <1>8 DEF There
<1> QED
  BY <1>2, <1>3, <1>4, <1>6, <1>7, <1>8, <1>9

\* The numbers stay in order when an actor ends.
LEMMA OrderKept ==
    ASSUME TypeInv, RowsInOrder, fresh' >= fresh, UNCHANGED copy, NEW a,
           \A b \in Actors \ {a} : step'[b] = step[b] /\ outcome'[b] = outcome[b],
           step'[a] = "end",
           \A row \in Rows : row >= fresh' => account'[row] = NoAccount,
           fresh' \in Nat
    PROVE  RowsInOrder'
<1>1. fresh \in Nat
  BY DEF TypeInv, AccountsTypeOK
<1>2. ASSUME NEW b \in Actors PROVE copy'[b].row < fresh'
  <2>1. copy[b].row \in Nat
    <3>1. CASE copy[b].row \in Rows
      <4>1. Rows \subseteq Nat
        BY RowsAreNumbers
      <4> QED
        BY <3>1, <4>1
    <3>2. CASE copy[b].row = 0
      BY <3>2
    <3> QED
      BY <3>1, <3>2, CopiesAreObjects
  <2>2. copy[b].row < fresh
    BY DEF RowsInOrder
  <2> QED
    BY <1>1, <2>1, <2>2
<1>3. \A b \in Actors : step'[b] # "end" => outcome'[b] = "None"
  BY DEF RowsInOrder
<1> QED
  BY <1>2, <1>3 DEF RowsInOrder

LEMMA CreatedStep == TypeInv /\ CreatedInv /\ [Next]_vars => CreatedInv'
<1> SUFFICES ASSUME TypeInv, CreatedInv, [Next]_vars PROVE CreatedInv'
  OBVIOUS
<1> RowsInOrder
  BY DEF CreatedInv
<1>1. ASSUME NEW c \in Creators, GetUser(c) PROVE CreatedInv'
  <2>1. c \in Actors /\ c \notin Admins
    BY AccountsAssumption DEF Actors
  <2>2. step[c] = "new" /\ UNCHANGED <<account, fresh, outcome>>
    BY <1>1 DEF GetUser
  <2>3. There' = There /\ Stays
    BY <2>2 DEF There, Stays
  <2>4. PICK name \in Names \cup BadNames :
            \/ \E row \in There :
                  /\ account[row].name = name
                  /\ copy' = [copy EXCEPT ![c] = Object(row, name, account[row].password)]
                  /\ step' = [step EXCEPT ![c] = "save"]
            \/ /\ copy' = [copy EXCEPT ![c] = Object(0, name, Hash(c))]
               /\ step' = [step EXCEPT ![c] = "clean"]
    BY <1>1 DEF GetUser
  <2>5. \A a \in Actors \ {c} : copy'[a] = copy[a] /\ step'[a] = step[a]
    BY <2>4 DEF TypeInv, AccountsTypeOK, CopiesTypeOK
  <2>6. outcome'[c] = "None" /\ step'[c] # "end"
    BY <2>1, <2>2, <2>4 DEF RowsInOrder, TypeInv, AccountsTypeOK
  <2>7. /\ copy'[c].row < fresh
        /\ copy'[c].row = 0 => copy'[c].password = Hash(c)
        /\ step'[c] = "clean" => copy'[c].row = 0
        /\ step'[c] = "save" /\ copy'[c].row # 0 => account[copy'[c].row] = Stored(copy'[c])
    <3>1. ASSUME NEW row \in There, account[row].name = name,
                 copy' = [copy EXCEPT ![c] = Object(row, name, account[row].password)],
                 step' = [step EXCEPT ![c] = "save"]
          PROVE  /\ copy'[c].row < fresh
                 /\ step'[c] = "save"
                 /\ copy'[c].row # 0
                 /\ account[copy'[c].row] = Stored(copy'[c])
      <4>1. copy'[c] = Object(row, name, account[row].password)
        BY <2>1, <3>1 DEF TypeInv, CopiesTypeOK
      <4>2. /\ row \in Rows /\ account[row] # NoAccount
            /\ account[row] \in [name : Names, password : Passwords]
        BY AccountsThere DEF There
      <4>3. row < fresh /\ row # 0
        BY <4>2, RowsAreNumbers DEF RowsInOrder, TypeInv, AccountsTypeOK
      <4> QED
        BY <2>1, <3>1, <4>1, <4>2, <4>3 DEF Object, Stored, TypeInv, AccountsTypeOK
    <3>2. ASSUME copy' = [copy EXCEPT ![c] = Object(0, name, Hash(c))],
                 step' = [step EXCEPT ![c] = "clean"]
          PROVE  /\ copy'[c].row = 0 /\ 0 < fresh
                 /\ copy'[c].password = Hash(c)
      BY <2>1, <3>2 DEF TypeInv, AccountsTypeOK, CopiesTypeOK, Object
    <3> QED
      BY <2>4, <3>1, <3>2
  <2>8. CopyIsGood(c)'
    BY <2>2, <2>6, <2>7 DEF CopyIsGood
  <2>9. RowsInOrder'
    BY <2>2, <2>5, <2>6, <2>7 DEF RowsInOrder
  <2>10. ASSUME Quiet', NEW d \in Creators PROVE CopyIsGood(d)'
    <3>1. Quiet
      BY <2>1, <2>2, <2>5, <2>10 DEF Quiet, Actors
    <3>2. CASE d # c
      BY <2>2, <2>3, <2>5, <3>1, <3>2, CopyStaysGood DEF CreatedInv, Actors
    <3> QED
      BY <2>8, <3>2
  <2>11. ASSUME Quiet' PROVE \A row \in There' : RowIsGood(row)'
    <3>1. Quiet
      BY <2>2, <2>11 DEF Quiet
    <3>2. \A a \in Actors : Kept(a)
      BY <2>2, <2>5 DEF Kept
    <3> QED
      BY <2>3, <3>1, <3>2, RowsStayGood
  <2> QED
    BY <2>9, <2>10, <2>11 DEF CreatedInv
<1>2. ASSUME NEW c \in Creators, CleanUser(c) PROVE CreatedInv'
  <2>1. c \in Actors /\ c \notin Admins
    BY AccountsAssumption DEF Actors
  <2>2. step[c] = "clean" /\ UNCHANGED <<account, fresh, copy>>
    BY <1>2 DEF CleanUser
  <2>3. Stays /\ There' = There
    BY <2>2 DEF Stays, There
  <2>4. /\ \A a \in Actors \ {c} : step'[a] = step[a] /\ outcome'[a] = outcome[a]
        /\ \/ step'[c] = "end" /\ outcome'[c] = "Invalid"
           \/ step'[c] = "save" /\ outcome'[c] = "None"
    BY <1>2, <2>1 DEF CleanUser, End, RowsInOrder, TypeInv, AccountsTypeOK, CopiesTypeOK
  <2>5. RowsInOrder'
    BY <2>2, <2>4 DEF RowsInOrder
  <2>6. ASSUME Quiet', NEW d \in Creators PROVE CopyIsGood(d)'
    <3>1. Quiet
      BY <2>1, <2>4, <2>6 DEF Quiet, Actors
    <3>2. CASE d # c
      BY <2>2, <2>3, <2>4, <3>1, <3>2, CopyStaysGood DEF CreatedInv, Actors
    <3>3. CASE d = c
      BY <2>2, <2>4, <3>1, <3>3 DEF CreatedInv, CopyIsGood
    <3> QED
      BY <3>2, <3>3
  <2>7. ASSUME Quiet' PROVE \A row \in There' : RowIsGood(row)'
    <3>1. Quiet
      BY <2>1, <2>4, <2>7 DEF Quiet, Actors
    <3>2. \A a \in Actors : Kept(a)
      BY <2>2, <2>4 DEF Kept
    <3> QED
      BY <2>3, <3>1, <3>2, RowsStayGood
  <2> QED
    BY <2>5, <2>6, <2>7 DEF CreatedInv
<1>3. ASSUME NEW c \in Creators, SaveUser(c) PROVE CreatedInv'
  <2>1. c \in Actors /\ c \notin Admins
    BY AccountsAssumption DEF Actors
  <2>2. /\ step[c] = "save" /\ UNCHANGED copy
        /\ copy[c] \in Objects /\ copy[c].name \in Names
    BY <1>3, <2>1, CopyToSave DEF SaveUser
  <2>3. /\ \A a \in Actors \ {c} : step'[a] = step[a] /\ outcome'[a] = outcome[a]
        /\ step'[c] = "end"
    BY <1>3, <2>1 DEF SaveUser, End, TypeInv, AccountsTypeOK, CopiesTypeOK
  <2>4. CASE Save(copy[c]) /\ End(c, "Success")
    <3>1. /\ \A row \in Rows : row >= fresh' => account'[row] = NoAccount
          /\ fresh' \in Nat /\ fresh' >= fresh
          /\ (copy[c].row # 0 => account[copy[c].row] = Stored(copy[c])) =>
                 /\ Stays
                 /\ \E row \in There' : /\ account'[row] = Stored(copy[c])
                                        /\ There' \subseteq There \cup {row}
                                        /\ copy[c].row # 0 => There' \subseteq There
      BY <2>1, <2>2, <2>4, SaveStays DEF RowsInOrder
    <3>2. RowsInOrder'
      BY <2>2, <2>3, <3>1, OrderKept
    <3>3. ASSUME Quiet', NEW d \in Creators PROVE CopyIsGood(d)'
      <4>1. Quiet /\ CopyIsGood(c)
        BY <2>1, <2>3, <3>3 DEF Quiet, Actors, CreatedInv
      <4>2. Stays
        BY <2>2, <3>1, <4>1 DEF CopyIsGood
      <4>3. CASE d # c
        BY <2>2, <2>3, <4>1, <4>2, <4>3, CopyStaysGood DEF CreatedInv, Actors
      <4>4. Taken(copy[c].name)'
        BY <2>2, <3>1, <4>1 DEF CopyIsGood, Taken, Stored
      <4> QED
        BY <2>2, <2>3, <4>1, <4>3, <4>4 DEF CopyIsGood, Taken
    <3>4. ASSUME Quiet' PROVE \A row \in There' : RowIsGood(row)'
      <4>1. Quiet /\ CopyIsGood(c)
        BY <2>1, <2>3, <3>4 DEF Quiet, Actors, CreatedInv
      <4>2. PICK row \in There' : /\ account'[row] = Stored(copy[c])
                                  /\ There' \subseteq There \cup {row}
                                  /\ copy[c].row # 0 => There' \subseteq There
        BY <2>2, <3>1, <4>1 DEF CopyIsGood
      <4>3. Stays
        BY <2>2, <3>1, <4>1 DEF CopyIsGood
      <4>4. \A a \in Actors : Kept(a)
        BY <2>2, <2>3 DEF Kept
      <4>5. \A p \in There : RowIsGood(p)'
        BY <4>1, <4>3, <4>4, RowStaysGood DEF CreatedInv
      <4>6. copy[c].row = 0 => RowIsGood(row)'
        <5>1. ASSUME copy[c].row = 0
              PROVE  /\ account'[row].name = copy[c].name
                     /\ account'[row].password = Hash(c)
          BY <2>2, <4>1, <4>2, <5>1 DEF CopyIsGood, Stored
        <5>2. step'[c] = "end" /\ outcome'[c] = "Success" /\ copy' = copy
          BY <2>1, <2>2, <2>3, <2>4 DEF End, TypeInv, AccountsTypeOK, CopiesTypeOK
        <5> QED
          BY <2>1, <2>2, <5>1, <5>2 DEF RowIsGood, Given, Hash
      <4> QED
        BY <4>2, <4>5, <4>6
    <3> QED
      BY <3>2, <3>3, <3>4 DEF CreatedInv
  <2>5. CASE End(c, "Crashed") /\ UNCHANGED <<account, fresh>>
    <3>1. Stays /\ There' = There
      BY <2>5 DEF Stays, There
    <3>2. RowsInOrder'
      BY <2>2, <2>3, <2>5, OrderKept DEF RowsInOrder, TypeInv, AccountsTypeOK
    <3>3. outcome'[c] = "Crashed"
      BY <2>1, <2>5 DEF End, TypeInv, CopiesTypeOK
    <3>4. ASSUME Quiet', NEW d \in Creators PROVE CopyIsGood(d)'
      <4>1. Quiet
        BY <2>1, <2>3, <3>4 DEF Quiet, Actors
      <4>2. CASE d # c
        BY <2>2, <2>3, <3>1, <4>1, <4>2, CopyStaysGood DEF CreatedInv, Actors
      <4> QED
        BY <2>2, <2>3, <3>3, <4>1, <4>2 DEF CopyIsGood, CreatedInv
    <3>5. ASSUME Quiet' PROVE \A row \in There' : RowIsGood(row)'
      <4>1. Quiet
        BY <2>1, <2>3, <3>5 DEF Quiet, Actors
      <4>2. \A a \in Actors : Kept(a)
        BY <2>2, <2>3 DEF Kept
      <4> QED
        BY <3>1, <4>1, <4>2, RowsStayGood
    <3> QED
      BY <3>2, <3>4, <3>5 DEF CreatedInv
  <2> QED
    BY <1>3, <2>4, <2>5 DEF SaveUser
<1>4. ASSUME NEW a \in Admins, RestCreateUser(a) PROVE CreatedInv'
  <2>1. a \in Actors /\ a \notin Creators
    BY AccountsAssumption DEF Actors
  <2>2. PICK name \in Names : Save(Object(0, name, Hash(a)))
    BY <1>4 DEF RestCreateUser
  <2> DEFINE object == Object(0, name, Hash(a))
  <2>3. object \in Objects /\ object.name \in Names /\ object.row = 0
    BY <2>1 DEF Object, Objects, Hash, Passwords
  <2>4. /\ \A row \in Rows : row >= fresh' => account'[row] = NoAccount
        /\ fresh' \in Nat /\ fresh' >= fresh
        /\ Stays
        /\ \E row \in There' : account'[row] = Stored(object) /\ There' \subseteq There \cup {row}
    <3> HIDE DEF object
    <3>1. Save(object)
      BY <2>2 DEF object
    <3> QED
      BY <2>3, <3>1, SaveStays
  <2>5. /\ step[a] = "new" /\ UNCHANGED copy
        /\ \A b \in Actors \ {a} : step'[b] = step[b] /\ outcome'[b] = outcome[b]
        /\ step'[a] = "end" /\ outcome'[a] = "Created"
    BY <1>4, <2>1 DEF RestCreateUser, End, TypeInv, AccountsTypeOK, CopiesTypeOK
  <2>6. RowsInOrder'
    BY <2>4, <2>5, OrderKept
  <2>7. ASSUME Quiet', NEW d \in Creators PROVE CopyIsGood(d)'
    <3>1. Quiet
      BY <2>1, <2>5, <2>7 DEF Quiet, Actors, RowsInOrder
    <3> QED
      BY <2>1, <2>4, <2>5, <3>1, CopyStaysGood DEF CreatedInv, Actors
  <2>8. ASSUME Quiet' PROVE \A row \in There' : RowIsGood(row)'
    <3>1. Quiet
      BY <2>1, <2>5, <2>8 DEF Quiet, Actors, RowsInOrder
    <3>2. \A b \in Actors : Kept(b)
      BY <2>5 DEF Kept
    <3>3. \A p \in There : RowIsGood(p)'
      BY <2>4, <3>1, <3>2, RowStaysGood DEF CreatedInv
    <3>4. PICK row \in There' : account'[row] = Stored(object) /\ There' \subseteq There \cup {row}
      BY <2>4
    <3>5. account'[row].name = name /\ account'[row].password = Hash(a)
      BY <3>4 DEF Stored, Object
    <3>6. RowIsGood(row)'
      BY <1>4, <2>1, <2>5, <3>5 DEF RowIsGood, Given, Hash
    <3> QED
      BY <3>3, <3>4, <3>6
  <2> QED
    BY <2>6, <2>7, <2>8 DEF CreatedInv
<1>5. ASSUME NEW a \in Admins, RestGetUser(a) PROVE CreatedInv'
  <2>1. a \in Actors
    BY DEF Actors
  <2>2. PICK row \in There :
            copy' = [copy EXCEPT ![a] = Object(row, account[row].name, account[row].password)]
    BY <1>5 DEF RestGetUser
  <2>3. step' = [step EXCEPT ![a] = "change"] /\ UNCHANGED <<account, fresh, outcome>>
        /\ step[a] = "new"
    BY <1>5 DEF RestGetUser
  <2>4. outcome[a] = "None" /\ step'[a] = "change"
    BY <2>1, <2>3 DEF RowsInOrder, TypeInv, AccountsTypeOK
  <2>6. row < fresh /\ copy'[a].row = row
    <3>1. row \in Rows /\ account[row] # NoAccount
      BY DEF There
    <3> QED
      BY <2>1, <2>2, <3>1, RowsAreNumbers
         DEF RowsInOrder, TypeInv, AccountsTypeOK, CopiesTypeOK, Object
  <2>7. \A b \in Actors \ {a} : copy'[b] = copy[b] /\ step'[b] = step[b]
    BY <2>2, <2>3 DEF TypeInv, AccountsTypeOK, CopiesTypeOK
  <2>8. RowsInOrder'
    BY <2>3, <2>4, <2>6, <2>7 DEF RowsInOrder
  <2>9. Stays /\ There' = There
    BY <2>3 DEF Stays, There
  <2>10. ASSUME Quiet'
         PROVE  /\ \A d \in Creators : CopyIsGood(d)'
                /\ \A row_ \in There' : RowIsGood(row_)'
    <3>1. Quiet
      BY <2>3, <2>10 DEF Quiet
    <3>2. ASSUME NEW d \in Creators PROVE CopyIsGood(d)'
      <4>1. d \in Actors \ {a}
        BY AccountsAssumption DEF Actors
      <4>2. copy'[d] = copy[d] /\ step'[d] = step[d] /\ outcome'[d] = outcome[d] /\ CopyIsGood(d)
        BY <2>3, <2>7, <3>1, <4>1 DEF CreatedInv
      <4> QED
        BY <2>9, <4>2, CopyStaysGood
    <3>3. \A b \in Actors : Kept(b)
      BY <2>3, <2>7 DEF Kept
    <3> QED
      BY <2>9, <3>1, <3>2, <3>3, RowsStayGood
  <2> QED
    BY <2>8, <2>10 DEF CreatedInv
<1>6. ASSUME NEW a \in Admins, RestUpdateUser(a) PROVE CreatedInv'
  <2>1. a \in Actors
    BY DEF Actors
  <2>2. PICK name \in Names, password \in {copy[a].password, Raw(a)} :
            LET object == Object(copy[a].row, name, password)
            IN  \/ Save(object) /\ End(a, "Updated")
                \/ NameCollides(object) /\ End(a, "Refused") /\ UNCHANGED <<account, fresh>>
    BY <1>6 DEF RestUpdateUser
  <2> DEFINE object == Object(copy[a].row, name, password)
  <2>3. /\ object \in Objects /\ object.name \in Names
        /\ object.row # 0 => object.row < fresh
    BY <2>1, RequestedObject DEF RowsInOrder
  <2>4. UNCHANGED copy
    BY <1>6 DEF RestUpdateUser
  <2>5. /\ \A row \in Rows : row >= fresh' => account'[row] = NoAccount
        /\ fresh' \in Nat /\ fresh' >= fresh
    <3>1. CASE Save(object)
      <4> HIDE DEF object
      <4> QED
        BY <2>3, <3>1, SaveStays
    <3>2. CASE UNCHANGED <<account, fresh>>
      BY <3>2 DEF RowsInOrder, TypeInv, AccountsTypeOK
    <3> QED
      BY <2>2, <3>1, <3>2
  <2>6. /\ \A b \in Actors \ {a} : step'[b] = step[b] /\ outcome'[b] = outcome[b]
        /\ step'[a] = "end" /\ outcome'[a] \in {"Updated", "Refused"}
    BY <2>1, <2>2 DEF End, TypeInv, AccountsTypeOK, CopiesTypeOK
  <2>7. RowsInOrder'
    BY <2>4, <2>5, <2>6, OrderKept
  <2>8. ASSUME Quiet'
        PROVE  /\ \A d \in Creators : CopyIsGood(d)'
               /\ \A row \in There' : RowIsGood(row)'
    <3>1. step[a] = "change" /\ UNCHANGED account
      BY <1>6, <2>1, <2>2, <2>6, <2>8 DEF RestUpdateUser, Quiet, End, TypeInv, CopiesTypeOK
    <3>2. Quiet
      BY <2>6, <2>8, <3>1, AccountsAssumption DEF Quiet, RowsInOrder, Actors
    <3>3. Stays /\ There' = There
      BY <3>1 DEF Stays, There
    <3>4. ASSUME NEW d \in Creators PROVE CopyIsGood(d)'
      <4>1. d \in Actors \ {a}
        BY AccountsAssumption DEF Actors
      <4>2. copy'[d] = copy[d] /\ step'[d] = step[d] /\ outcome'[d] = outcome[d] /\ CopyIsGood(d)
        BY <2>4, <2>6, <3>2, <4>1 DEF CreatedInv
      <4> QED
        BY <3>3, <4>2, CopyStaysGood
    <3>5. \A b \in Actors : Kept(b)
      BY <2>4, <2>6, <3>1 DEF Kept
    <3> QED
      BY <3>2, <3>3, <3>4, <3>5, RowsStayGood
  <2> QED
    BY <2>7, <2>8 DEF CreatedInv
<1>7. ASSUME NEW a \in Admins, RestDeleteUser(a) PROVE CreatedInv'
  <2>1. a \in Actors
    BY DEF Actors
  <2>2. /\ \A b \in Actors \ {a} : step'[b] = step[b] /\ outcome'[b] = outcome[b]
        /\ step'[a] = "end" /\ outcome'[a] = "Deleted" /\ UNCHANGED <<fresh, copy>>
    BY <1>7, <2>1 DEF RestDeleteUser, End, TypeInv, AccountsTypeOK, CopiesTypeOK
  <2>3. \A row \in Rows : row >= fresh' => account'[row] = NoAccount
    BY <1>7, <2>2 DEF RestDeleteUser, RowsInOrder, TypeInv, AccountsTypeOK
  <2>4. fresh' \in Nat /\ fresh' >= fresh
    BY <2>2 DEF TypeInv, AccountsTypeOK
  <2>5. RowsInOrder'
    BY <2>2, <2>3, <2>4, OrderKept
  <2> QED
    BY <2>2, <2>5 DEF CreatedInv, Quiet
<1>8. CASE UNCHANGED vars
  BY <1>8 DEF vars, CreatedInv, RowsInOrder, Quiet, CopyIsGood, RowIsGood, Given, Taken, Hash, There
<1> QED
  BY <1>1, <1>2, <1>3, <1>4, <1>5, <1>6, <1>7, <1>8 DEF Next

\* A run of create_user that told of its success leaves an account that one of the passwords
\* given for it opens, until an administrator changes or deletes accounts, whatever other
\* runs for that name do (create_user.py:44-55).
THEOREM NobodyIsLockedOut == Spec => []SomeGivenPasswordWorks
<1>1. ASSUME TypeInv, CreatedInv, Quiet, NEW c \in Creators, outcome[c] = "Success"
      PROVE  \E a \in Actors : Given(a, copy[c].name) /\ Opens(a, copy[c].name)
  <2>1. PICK row \in There : account[row].name = copy[c].name
    BY <1>1 DEF CreatedInv, CopyIsGood, Taken
  <2>2. PICK a \in Actors : Given(a, account[row].name) /\ account[row].password = Hash(a)
    BY <1>1 DEF CreatedInv, RowIsGood
  <2>3. account[row] = [name |-> copy[c].name, password |-> Hash(a)]
    BY <1>1, <2>1, <2>2, AccountsThere
  <2> QED
    BY <2>1, <2>2, <2>3 DEF Opens
<1>2. TypeInv /\ CreatedInv => SomeGivenPasswordWorks
  BY <1>1 DEF Quiet, SomeGivenPasswordWorks
<1> QED
  BY TypeInit, TypeStep, CreatedInit, CreatedStep, <1>2, PTL DEF Spec

=============================================================================

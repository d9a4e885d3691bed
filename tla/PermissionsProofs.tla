-------------------------- MODULE PermissionsProofs --------------------------
(***************************************************************************)
(* The commands and the REST resources on the tables of permissions, for   *)
(* any number of commands, orders, users and domains.                      *)
(***************************************************************************)
EXTENDS Permissions, FiniteSetTheorems, SequenceTheorems, TLAPS

LEMMA RowsAreNumbers == /\ Cardinality(Rows) \in Nat
                        /\ Rows \subseteq Nat
                        /\ \A row \in Rows : row >= 1 /\ row =< Cardinality(Rows)
<1>1. Cardinality(Rows) \in Nat
  BY PermissionsAssumption, FS_CardinalityType
<1> QED
  BY <1>1, PermissionsAssumption

-----------------------------------------------------------------------------
(***************************************************************************)
(* The items of an order.                                                  *)
(***************************************************************************)
Things == [name : Domains \cup BadNames, level : Access]

\* What an order names: domains at the one level, subdomains at the other.
OrderNames(o) == {Items(o)[i] : i \in 1..Len(Items(o))}

LEMMA OneLevel ==
    ASSUME NEW S, NEW names \in Seq(S), NEW level \in Access
    PROVE  [i \in 1..Len(names) |-> [name |-> names[i], level |-> level]]
               \in Seq([name : S, level : Access])
<1> DEFINE items == [i \in 1..Len(names) |-> [name |-> names[i], level |-> level]]
<1>1. Len(names) \in Nat /\ names \in [1..Len(names) -> S]
  BY LenProperties
<1>2. items \in [1..Len(names) -> [name : S, level : Access]]
  BY <1>1
<1> QED
  BY <1>1, <1>2, SeqDef

LEMMA ItemsAreThings == ASSUME NEW o \in Orders PROVE Items(o) \in Seq(Things)
<1>1. /\ o.domains \in Seq(Domains \cup BadNames)
      /\ o.subdomains \in Seq(Domains \cup BadNames)
  BY PermissionsAssumption
<1>2. "domain" \in Access /\ "subdomain" \in Access
  BY DEF Access
<1>3. [i \in 1..Len(o.domains) |-> [name |-> o.domains[i], level |-> "domain"]] \in Seq(Things)
  BY <1>1, <1>2, OneLevel DEF Things
<1>4. [i \in 1..Len(o.subdomains) |-> [name |-> o.subdomains[i], level |-> "subdomain"]]
          \in Seq(Things)
  BY <1>1, <1>2, OneLevel DEF Things
<1> QED
  BY <1>3, <1>4, ConcatProperties DEF Items

LEMMA FirstAndRest ==
    ASSUME NEW S, NEW s \in Seq(S), s # << >>
    PROVE  /\ Head(s) \in S /\ Tail(s) \in Seq(S) /\ Tail(s) # s
           /\ \E i \in 1..Len(s) : Head(s) = s[i]
           /\ \A i \in 1..Len(Tail(s)) : \E j \in 1..Len(s) : Tail(s)[i] = s[j]
<1>1. /\ Head(s) \in S /\ Tail(s) \in Seq(S) /\ Len(Tail(s)) = Len(s) - 1
      /\ \A i \in 1..Len(Tail(s)) : Tail(s)[i] = s[i + 1]
  BY HeadTailProperties
<1>2. Len(s) \in Nat /\ Len(s) # 0 /\ Head(s) = s[1]
  BY EmptySeq, LenProperties
<1>3. \A i \in 1..Len(Tail(s)) : i + 1 \in 1..Len(s)
  BY <1>1, <1>2
<1>4. \E i \in 1..Len(s) : Head(s) = s[i]
  <2>1. 1 \in 1..Len(s)
    BY <1>2
  <2> QED
    BY <1>2, <2>1
<1>5. Tail(s) # s
  <2>1. \A n \in Nat : n - 1 # n
    OBVIOUS
  <2>2. Len(Tail(s)) # Len(s)
    BY <1>1, <1>2, <2>1, Zenon
  <2> QED
    BY <2>2
<1>6. \A i \in 1..Len(Tail(s)) : \E j \in 1..Len(s) : Tail(s)[i] = s[j]
  BY <1>1, <1>3
<1> QED
  BY <1>1, <1>4, <1>5, <1>6

-----------------------------------------------------------------------------
(***************************************************************************)
(* Types.  A command that is under way has an item to handle, one of those *)
(* its order names; it has read a row when it looks at a permission, and   *)
(* checked the name when it saves a domain.                                *)
(***************************************************************************)
AtRow == {"getPerm", "cleanPerm", "savePerm", "delete"}
OfAllow == {"cleanDomain", "saveDomain", "getPerm", "cleanPerm", "savePerm"}
Queries == {"getDomain"} \cup OfAllow \cup AtRow

CommandOK(c) ==
    /\ step[c] \in Queries => todo[c] # << >> /\ order[c] \in Orders
    /\ step[c] \in AtRow => held[c] \in Rows
    /\ step[c] = "saveDomain" => Item(c).name \in Domains
    /\ step[c] \in OfAllow => order[c].verb = "allow"
    /\ step[c] = "delete" => order[c].verb = "revoke"
    /\ step[c] # "new" => \A i \in 1..Len(todo[c]) : todo[c][i] \in OrderNames(order[c])

CommandsOK ==
    /\ step \in [Commands -> {"new", "end"} \cup Queries]
    /\ order \in [Commands -> Orders \cup {NoOrder}]
    /\ todo \in [Commands -> Seq(Things)]
    /\ held \in [Commands -> Rows \cup {0}]
    /\ failed \in [Commands -> SUBSET Things]
    /\ outcome \in [Commands -> {"None", "Success", "Failed", "Crashed", "NoUser"}]
    /\ \A c \in Commands : CommandOK(c)

TablesOK ==
    /\ users \subseteq Users
    /\ domain \in [Rows -> Domains \cup {NoRow}]
    /\ fresh \in 1..(Cardinality(Rows) + 1)
    /\ perms \subseteq Permission

LEMMA TypesMatch == CommandsOK /\ TablesOK => PermissionsTypeOK
BY DEF CommandsOK, TablesOK, PermissionsTypeOK, Queries, OfAllow, AtRow

LEMMA ItemIsThing ==
    ASSUME CommandsOK, NEW c \in Commands, step[c] \in Queries
    PROVE  /\ todo[c] \in Seq(Things) /\ todo[c] # << >>
           /\ Item(c) \in Things /\ Item(c) \in OrderNames(order[c])
           /\ Tail(todo[c]) \in Seq(Things) /\ Tail(todo[c]) # todo[c]
           /\ \A i \in 1..Len(Tail(todo[c])) : Tail(todo[c])[i] \in OrderNames(order[c])
<1>1. /\ todo[c] \in Seq(Things) /\ todo[c] # << >>
      /\ \A i \in 1..Len(todo[c]) : todo[c][i] \in OrderNames(order[c])
  BY DEF CommandsOK, CommandOK, Queries, OfAllow, AtRow
<1>2. /\ Head(todo[c]) \in Things /\ Tail(todo[c]) \in Seq(Things) /\ Tail(todo[c]) # todo[c]
      /\ \E i \in 1..Len(todo[c]) : Head(todo[c]) = todo[c][i]
      /\ \A i \in 1..Len(Tail(todo[c])) : \E j \in 1..Len(todo[c]) : Tail(todo[c])[i] = todo[c][j]
  BY <1>1, FirstAndRest
<1> QED
  BY <1>1, <1>2 DEF Item

\* Another command is as it was when what it has is.
LEMMA OthersKept ==
    ASSUME NEW d, CommandOK(d), step'[d] = step[d], order'[d] = order[d], todo'[d] = todo[d],
           held'[d] = held[d]
    PROVE  CommandOK(d)'
BY DEF CommandOK, Item

LEMMA QueryKeeps ==
    ASSUME CommandsOK, NEW c \in Commands, step[c] \in Queries, NEW next \in Queries,
           Query(c, next), NEW row \in Rows \cup {0}, held' = [held EXCEPT ![c] = row],
           next \in AtRow => row \in Rows,
           next = "saveDomain" => Item(c).name \in Domains,
           next \in OfAllow => order[c].verb = "allow",
           next = "delete" => order[c].verb = "revoke"
    PROVE  CommandsOK'
<1>1. /\ step' = [step EXCEPT ![c] = next] /\ UNCHANGED <<order, todo, failed, outcome>>
  BY DEF Query
<1>2. /\ step' \in [Commands -> {"new", "end"} \cup Queries]
      /\ held' \in [Commands -> Rows \cup {0}]
  BY <1>1 DEF CommandsOK
<1>3. ASSUME NEW d \in Commands \ {c} PROVE CommandOK(d)'
  BY <1>1, <1>3, OthersKept DEF CommandsOK
<1>4. CommandOK(c)'
  <2>1. step'[c] = next /\ held'[c] = row /\ CommandOK(c) /\ step[c] # "new"
    BY <1>1 DEF CommandsOK, Queries, OfAllow, AtRow
  <2> QED
    BY <1>1, <2>1 DEF CommandOK, Item
<1> QED
  BY <1>1, <1>2, <1>3, <1>4 DEF CommandsOK

LEMMA NextItemKeeps ==
    ASSUME CommandsOK, NEW c \in Commands, step[c] \in Queries,
           NEW failures \in SUBSET Things, NextItem(c, failures), UNCHANGED held
    PROVE  CommandsOK'
<1>1. /\ todo' = [todo EXCEPT ![c] = Tail(@)]
      /\ failed' = [failed EXCEPT ![c] = @ \cup failures]
      /\ UNCHANGED order
  BY DEF NextItem
<1>2. \/ /\ Tail(todo[c]) # << >>
         /\ step' = [step EXCEPT ![c] = "getDomain"] /\ UNCHANGED outcome
      \/ /\ step' = [step EXCEPT ![c] = "end"]
         /\ outcome' = [outcome EXCEPT ![c] = IF failed'[c] = {} THEN "Success" ELSE "Failed"]
  BY DEF NextItem
<1>3. /\ step' \in [Commands -> {"new", "end"} \cup Queries]
      /\ outcome' \in [Commands -> {"None", "Success", "Failed", "Crashed", "NoUser"}]
      /\ failed' \in [Commands -> SUBSET Things]
  BY <1>1, <1>2 DEF CommandsOK, Queries
<1>4. /\ todo' \in [Commands -> Seq(Things)] /\ todo'[c] = Tail(todo[c])
      /\ \A i \in 1..Len(todo'[c]) : todo'[c][i] \in OrderNames(order[c])
  BY <1>1, ItemIsThing DEF CommandsOK
<1>5. ASSUME NEW d \in Commands \ {c} PROVE CommandOK(d)'
  <2>1. step'[d] = step[d] /\ todo'[d] = todo[d]
    BY <1>1, <1>2 DEF CommandsOK
  <2> QED
    BY <1>1, <1>5, <2>1, OthersKept DEF CommandsOK
<1>6. CommandOK(c)'
  <2>1. order[c] \in Orders
    BY DEF CommandsOK, CommandOK
  <2>2. step'[c] = "end" \/ (step'[c] = "getDomain" /\ todo'[c] # << >>)
    BY <1>2, <1>4 DEF CommandsOK
  <2> QED
    BY <1>1, <1>4, <2>1, <2>2 DEF CommandOK, AtRow, OfAllow, Queries
<1> QED
  BY <1>1, <1>3, <1>4, <1>5, <1>6 DEF CommandsOK

LEMMA RejectKeeps ==
    ASSUME CommandsOK, NEW c \in Commands, step[c] \in Queries, Reject(c)
    PROVE  CommandsOK'
<1>1. {Item(c)} \in SUBSET Things
  BY ItemIsThing
<1> QED
  BY <1>1, NextItemKeeps DEF Reject

LEMMA CrashKeeps ==
    ASSUME CommandsOK, NEW c \in Commands, step[c] \in Queries, Crash(c)
    PROVE  CommandsOK'
<1>1. /\ step' = [step EXCEPT ![c] = "end"]
      /\ outcome' = [outcome EXCEPT ![c] = "Crashed"]
      /\ UNCHANGED <<order, todo, held, failed>>
  BY DEF Crash
<1>2. ASSUME NEW d \in Commands \ {c} PROVE CommandOK(d)'
  BY <1>1, <1>2, OthersKept DEF CommandsOK
<1>3. CommandOK(c)'
  <2>1. step'[c] = "end" /\ CommandOK(c) /\ step[c] # "new"
    BY <1>1 DEF CommandsOK, Queries, OfAllow, AtRow
  <2> QED
    BY <1>1, <2>1 DEF CommandOK, AtRow, OfAllow, Queries
<1> QED
  BY <1>1, <1>2, <1>3 DEF CommandsOK

LEMMA StartKeeps ==
    ASSUME CommandsOK, NEW c \in Commands, Start(c)
    PROVE  CommandsOK'
<1>1. PICK o \in Orders :
          /\ order' = [order EXCEPT ![c] = o] /\ todo' = [todo EXCEPT ![c] = Items(o)]
          /\ \/ /\ step' = [step EXCEPT ![c] = "end"]
                /\ outcome' = [outcome EXCEPT ![c] = "NoUser"]
             \/ /\ step' = [step EXCEPT ![c] = "end"]
                /\ outcome' = [outcome EXCEPT ![c] = "Success"]
             \/ /\ Items(o) # << >>
                /\ step' = [step EXCEPT ![c] = "getDomain"]
                /\ UNCHANGED outcome
  BY DEF Start
<1>2. UNCHANGED <<held, failed>>
  BY DEF Start
<1>3. Items(o) \in Seq(Things)
  BY ItemsAreThings
<1>4. /\ step' \in [Commands -> {"new", "end"} \cup Queries]
      /\ outcome' \in [Commands -> {"None", "Success", "Failed", "Crashed", "NoUser"}]
      /\ order' \in [Commands -> Orders \cup {NoOrder}]
      /\ todo' \in [Commands -> Seq(Things)]
  BY <1>1, <1>3 DEF CommandsOK, Queries
<1>5. ASSUME NEW d \in Commands \ {c} PROVE CommandOK(d)'
  <2>1. step'[d] = step[d] /\ todo'[d] = todo[d] /\ order'[d] = order[d]
    BY <1>1 DEF CommandsOK
  <2> QED
    BY <1>2, <1>5, <2>1, OthersKept DEF CommandsOK
<1>6. CommandOK(c)'
  <2>1. /\ order'[c] = o /\ todo'[c] = Items(o)
        /\ step'[c] = "end" \/ (step'[c] = "getDomain" /\ todo'[c] # << >>)
    BY <1>1 DEF CommandsOK
  <2>2. \A i \in 1..Len(todo'[c]) : todo'[c][i] \in OrderNames(order'[c])
    BY <2>1 DEF OrderNames
  <2> QED
    BY <2>1, <2>2 DEF CommandOK, AtRow, OfAllow, Queries
<1> QED
  BY <1>2, <1>4, <1>5, <1>6 DEF CommandsOK

LEMMA CommandsStep ==
    ASSUME CommandsOK, TablesOK, NEW c \in Commands, Command(c)
    PROVE  CommandsOK'
<1> /\ {"getDomain", "cleanDomain", "saveDomain", "getPerm", "cleanPerm", "savePerm", "delete"}
           \subseteq Queries
    /\ "cleanDomain" \notin AtRow /\ "saveDomain" \notin AtRow /\ "delete" \notin OfAllow
    /\ {"cleanDomain", "saveDomain", "getPerm", "cleanPerm", "savePerm"} \subseteq OfAllow
    /\ {"getPerm", "cleanPerm", "savePerm", "delete"} \subseteq AtRow
  BY DEF Queries, OfAllow, AtRow
<1>1. CASE Start(c)
  BY <1>1, StartKeeps
<1>2. CASE AllowGetDomain(c)
  <2>1. ASSUME NEW row \in RowsOf(Item(c).name), held' = [held EXCEPT ![c] = row],
               Query(c, "getPerm")
        PROVE  CommandsOK'
    <3>1. row \in Rows /\ step[c] = "getDomain" /\ order[c].verb = "allow"
      BY <1>2 DEF RowsOf, AllowGetDomain
    <3> QED
      BY <2>1, <3>1, QueryKeeps
  <2>2. CASE Query(c, "cleanDomain") /\ UNCHANGED held
    <3>1. /\ held' = [held EXCEPT ![c] = held[c]] /\ held[c] \in Rows \cup {0}
          /\ step[c] = "getDomain" /\ order[c].verb = "allow"
      BY <1>2, <2>2 DEF CommandsOK, AllowGetDomain
    <3> QED
      BY <2>2, <3>1, QueryKeeps
  <2> QED
    BY <1>2, <2>1, <2>2 DEF AllowGetDomain
<1>3. CASE AllowCleanDomain(c)
  <2>1. CASE Reject(c)
    BY <1>3, <2>1, RejectKeeps DEF AllowCleanDomain
  <2>2. CASE Valid(Item(c).name) /\ Query(c, "saveDomain") /\ UNCHANGED held
    <3>1. /\ held' = [held EXCEPT ![c] = held[c]] /\ held[c] \in Rows \cup {0}
          /\ order[c].verb = "allow" /\ step[c] = "cleanDomain"
      BY <1>3, <2>2 DEF CommandsOK, CommandOK, AllowCleanDomain
    <3>2. Item(c).name \in Domains
      BY <2>2, <3>1, ItemIsThing DEF Things, Valid
    <3> QED
      BY <2>2, <3>1, <3>2, QueryKeeps
  <2> QED
    BY <1>3, <2>1, <2>2 DEF AllowCleanDomain
<1>4. CASE AllowSaveDomain(c)
  <2>1. CASE Crash(c)
    BY <1>4, <2>1, CrashKeeps DEF AllowSaveDomain
  <2>2. CASE /\ InsertDomain(Item(c).name)
             /\ held' = [held EXCEPT ![c] = fresh] /\ Query(c, "getPerm")
    <3>1. step[c] = "saveDomain" /\ order[c].verb = "allow" /\ fresh \in Rows
      BY <1>4, <2>2 DEF CommandsOK, CommandOK, AllowSaveDomain, InsertDomain
    <3> QED
      BY <2>2, <3>1, QueryKeeps
  <2> QED
    BY <1>4, <2>1, <2>2 DEF AllowSaveDomain
<1>5. CASE AllowGetPerm(c)
  <2>1. step[c] = "getPerm" /\ UNCHANGED held /\ held[c] \in Rows /\ order[c].verb = "allow"
    BY <1>5 DEF AllowGetPerm, CommandsOK, CommandOK
  <2>2. CASE NextItem(c, {})
    BY <2>1, <2>2, NextItemKeeps
  <2>3. CASE Query(c, "cleanPerm")
    <3>1. held' = [held EXCEPT ![c] = held[c]]
      BY <2>1 DEF CommandsOK
    <3> QED
      BY <2>1, <2>3, <3>1, QueryKeeps
  <2> QED
    BY <1>5, <2>2, <2>3 DEF AllowGetPerm
<1>6. CASE AllowCleanPerm(c)
  <2>1. step[c] = "cleanPerm" /\ held[c] \in Rows /\ order[c].verb = "allow"
    BY <1>6 DEF AllowCleanPerm, CommandsOK, CommandOK
  <2>2. CASE Reject(c)
    BY <2>1, <2>2, RejectKeeps
  <2>3. CASE Query(c, "savePerm") /\ UNCHANGED held
    <3>1. held' = [held EXCEPT ![c] = held[c]]
      BY <2>3 DEF CommandsOK
    <3> QED
      BY <2>1, <2>3, <3>1, QueryKeeps
  <2> QED
    BY <1>6, <2>2, <2>3 DEF AllowCleanPerm
<1>7. CASE AllowSavePerm(c)
  <2>1. step[c] = "savePerm"
    BY <1>7 DEF AllowSavePerm
  <2>2. CASE Crash(c)
    BY <2>1, <2>2, CrashKeeps
  <2>3. CASE NextItem(c, {}) /\ UNCHANGED held
    BY <2>1, <2>3, NextItemKeeps
  <2> QED
    BY <1>7, <2>2, <2>3 DEF AllowSavePerm
<1>8. CASE RevokeGetDomain(c)
  <2>1. step[c] = "getDomain" /\ order[c].verb = "revoke"
    BY <1>8 DEF RevokeGetDomain
  <2>2. CASE Reject(c)
    BY <2>1, <2>2, RejectKeeps
  <2>3. ASSUME NEW row \in RowsOf(Item(c).name), held' = [held EXCEPT ![c] = row],
               Query(c, "delete")
        PROVE  CommandsOK'
    <3>1. row \in Rows
      BY DEF RowsOf
    <3> QED
      BY <2>1, <2>3, <3>1, QueryKeeps
  <2> QED
    BY <1>8, <2>2, <2>3 DEF RevokeGetDomain
<1>9. CASE RevokeDelete(c)
  <2>1. step[c] = "delete"
    BY <1>9 DEF RevokeDelete
  <2>2. CASE Reject(c)
    BY <2>1, <2>2, RejectKeeps
  <2>3. CASE NextItem(c, {}) /\ UNCHANGED held
    BY <2>1, <2>3, NextItemKeeps
  <2> QED
    BY <1>9, <2>2, <2>3 DEF RevokeDelete
<1> QED
  BY <1>1, <1>2, <1>3, <1>4, <1>5, <1>6, <1>7, <1>8, <1>9 DEF Command

-----------------------------------------------------------------------------
(***************************************************************************)
(* The tables: a permission has its account and its domain, no name is     *)
(* that of two domains, no row has a number that was not given yet.        *)
(***************************************************************************)
ForeignKeys == \A p \in perms : p.user \in users /\ Exists(p.row)
FreshRows == \A row \in Rows : row >= fresh => domain[row] = NoRow
UniqueNames == \A p, q \in Rows : domain[p] = domain[q] /\ Exists(p) => p = q

TablesInv == TablesOK /\ ForeignKeys /\ FreshRows /\ UniqueNames

\* A row that there was has its name or is gone.
NamesStay == /\ fresh' >= fresh
             /\ \A row \in Rows : row < fresh => domain'[row] \in {domain[row], NoRow}

LEMMA PermissionsChange ==
    ASSUME TablesInv, users' = users, domain' = domain, fresh' = fresh,
           \A p \in perms' : p \in perms \/ (p \in Permission /\ Insertable(p))
    PROVE  TablesInv' /\ NamesStay
<1>1. TablesOK'
  BY DEF TablesInv, TablesOK
<1>2. ForeignKeys'
  BY DEF TablesInv, ForeignKeys, Insertable, Exists
<1>3. FreshRows' /\ UniqueNames'
  BY DEF TablesInv, FreshRows, UniqueNames, Exists
<1>4. NamesStay
  BY DEF TablesInv, TablesOK, NamesStay
<1> QED
  BY <1>1, <1>2, <1>3, <1>4 DEF TablesInv

LEMMA NothingChanges == ASSUME TablesInv, UNCHANGED dbVars PROVE TablesInv' /\ NamesStay
BY PermissionsChange DEF dbVars

LEMMA DomainInserted ==
    ASSUME TablesInv, NEW name \in Domains, RowsOf(name) = {}, InsertDomain(name),
           UNCHANGED <<users, perms>>
    PROVE  TablesInv' /\ NamesStay /\ domain'[fresh] = name /\ fresh' = fresh + 1
<1>1. /\ fresh \in Rows /\ fresh \in Nat
      /\ domain' = [domain EXCEPT ![fresh] = name] /\ fresh' = fresh + 1
  BY DEF InsertDomain, TablesInv, TablesOK
<1>2. name # NoRow /\ \A row \in Rows : domain[row] # name
  BY PermissionsAssumption DEF RowsOf
<1>3. /\ domain' \in [Rows -> Domains \cup {NoRow}]
      /\ domain'[fresh] = name
      /\ \A row \in Rows \ {fresh} : domain'[row] = domain[row]
  BY <1>1 DEF TablesInv, TablesOK
<1>4. fresh' \in 1..(Cardinality(Rows) + 1)
  BY <1>1, RowsAreNumbers
<1>5. TablesOK'
  BY <1>3, <1>4 DEF TablesInv, TablesOK
<1>6. ForeignKeys'
  <2> SUFFICES ASSUME NEW p \in perms PROVE p.user \in users /\ domain'[p.row] # NoRow
    BY DEF ForeignKeys, Exists
  <2>1. p.user \in users /\ p.row \in Rows /\ domain[p.row] # NoRow
    BY DEF TablesInv, TablesOK, ForeignKeys, Exists, Permission
  <2> QED
    BY <1>2, <1>3, <2>1
<1>7. FreshRows'
  <2> SUFFICES ASSUME NEW row \in Rows, row >= fresh + 1 PROVE domain'[row] = NoRow
    BY <1>1 DEF FreshRows
  <2>1. row \in Nat
    BY RowsAreNumbers
  <2>2. row # fresh /\ row >= fresh
    BY <1>1, <2>1
  <2> QED
    BY <1>3, <2>2 DEF TablesInv, FreshRows
<1>8. UniqueNames'
  BY <1>2, <1>3 DEF TablesInv, UniqueNames, Exists
<1>9. NamesStay
  <2>1. \A row \in Rows : row < fresh => row # fresh
    BY <1>1
  <2> QED
    BY <1>1, <1>3, <2>1 DEF NamesStay
<1> QED
  BY <1>1, <1>3, <1>5, <1>6, <1>7, <1>8, <1>9 DEF TablesInv

LEMMA DomainDeleted ==
    ASSUME TablesInv, NEW row \in Rows, domain' = [domain EXCEPT ![row] = NoRow],
           perms' = {p \in perms : p.row # row}, UNCHANGED <<users, fresh>>
    PROVE  TablesInv' /\ NamesStay
<1>1. /\ domain' \in [Rows -> Domains \cup {NoRow}] /\ domain'[row] = NoRow
      /\ \A other \in Rows \ {row} : domain'[other] = domain[other]
  BY DEF TablesInv, TablesOK
<1>2. TablesOK'
  BY <1>1 DEF TablesInv, TablesOK
<1>3. ForeignKeys'
  <2> SUFFICES ASSUME NEW p \in perms, p.row # row PROVE p.user \in users /\ domain'[p.row] # NoRow
    BY DEF ForeignKeys, Exists
  <2>1. p.row \in Rows
    BY DEF TablesInv, TablesOK, Permission
  <2> QED
    BY <1>1, <2>1 DEF TablesInv, ForeignKeys, Exists
<1>4. FreshRows' /\ UniqueNames'
  BY <1>1 DEF TablesInv, FreshRows, UniqueNames, Exists
<1>5. NamesStay
  BY <1>1 DEF TablesInv, TablesOK, NamesStay
<1> QED
  BY <1>2, <1>3, <1>4, <1>5 DEF TablesInv

LEMMA DomainRenamed ==
    ASSUME TablesInv, NEW row \in Rows, NEW name \in Domains, RowsOf(name) = {}, row < fresh,
           domain' = [domain EXCEPT ![row] = name], UNCHANGED <<users, fresh, perms>>
    PROVE  TablesInv'
<1>1. /\ domain' \in [Rows -> Domains \cup {NoRow}] /\ domain'[row] = name
      /\ \A other \in Rows \ {row} : domain'[other] = domain[other]
  BY DEF TablesInv, TablesOK
<1>2. name # NoRow /\ \A other \in Rows : domain[other] # name
  BY PermissionsAssumption DEF RowsOf
<1>3. TablesOK'
  BY <1>1 DEF TablesInv, TablesOK
<1>4. ForeignKeys'
  <2> SUFFICES ASSUME NEW p \in perms PROVE p.user \in users /\ domain'[p.row] # NoRow
    BY DEF ForeignKeys, Exists
  <2>1. p.row \in Rows
    BY DEF TablesInv, TablesOK, Permission
  <2> QED
    BY <1>1, <1>2, <2>1 DEF TablesInv, ForeignKeys, Exists
<1>5. FreshRows'
  <2>1. fresh \in Nat /\ row \in Nat
    BY RowsAreNumbers DEF TablesInv, TablesOK
  <2>2. \A other \in Rows : other >= fresh => other # row
    BY <2>1
  <2> QED
    BY <1>1, <2>2 DEF TablesInv, FreshRows
<1>6. UniqueNames'
  BY <1>1, <1>2 DEF TablesInv, UniqueNames, Exists
<1> QED
  BY <1>3, <1>4, <1>5, <1>6 DEF TablesInv

LEMMA RestTables ==
    ASSUME TablesInv, Rest
    PROVE  TablesInv' /\ ("renameDomain" \notin RestMay => NamesStay)
<1>1. ASSUME NEW name \in Domains, RestCreateDomain(name) PROVE TablesInv' /\ NamesStay
  BY <1>1, DomainInserted DEF RestCreateDomain
<1>2. ASSUME NEW row \in Rows, NEW name \in Domains, RestRenameDomain(row, name)
      PROVE  TablesInv' /\ "renameDomain" \in RestMay
  BY <1>2, DomainRenamed DEF RestRenameDomain
<1>3. ASSUME NEW row \in Rows, RestDeleteDomain(row) PROVE TablesInv' /\ NamesStay
  BY <1>3, DomainDeleted DEF RestDeleteDomain
<1>4. ASSUME NEW p \in Permission, RestCreatePermission(p) PROVE TablesInv' /\ NamesStay
  BY <1>4, PermissionsChange DEF RestCreatePermission
<1>5. ASSUME NEW p \in Permission, NEW q \in Permission, RestMovePermission(p, q)
      PROVE  TablesInv' /\ NamesStay
  BY <1>5, PermissionsChange DEF RestMovePermission
<1>6. ASSUME NEW p \in Permission, RestDeletePermission(p) PROVE TablesInv' /\ NamesStay
  BY <1>6, PermissionsChange DEF RestDeletePermission
<1>7. ASSUME NEW user \in Users, RestDeleteUser(user) PROVE TablesInv' /\ NamesStay
  <2>1. /\ users' = users \ {user} /\ perms' = {p \in perms : p.user # user}
        /\ domain' = domain /\ fresh' = fresh
    BY <1>7 DEF RestDeleteUser
  <2>2. TablesOK'
    BY <2>1 DEF TablesInv, TablesOK
  <2>3. ForeignKeys' /\ FreshRows' /\ UniqueNames'
    BY <2>1 DEF TablesInv, ForeignKeys, FreshRows, UniqueNames, Exists
  <2>4. NamesStay
    BY <2>1 DEF TablesInv, TablesOK, NamesStay
  <2> QED
    BY <2>2, <2>3, <2>4 DEF TablesInv
<1> QED
  BY <1>1, <1>2, <1>3, <1>4, <1>5, <1>6, <1>7 DEF Rest

LEMMA WantedIsPermission ==
    ASSUME CommandsOK, NEW c \in Commands, step[c] \in AtRow
    PROVE  /\ Wanted(c) \in Permission
           /\ Wanted(c).user = order[c].user /\ Wanted(c).row = held[c]
           /\ Wanted(c).level = Item(c).level
<1>1. order[c] \in Orders /\ held[c] \in Rows /\ Item(c).level \in Access
  <2>1. step[c] \in Queries
    BY DEF Queries
  <2> QED
    BY <2>1, ItemIsThing DEF CommandsOK, CommandOK, Things
<1>2. order[c].user \in Users
  BY <1>1, PermissionsAssumption
<1> QED
  BY <1>1, <1>2 DEF Wanted, Perm, Permission

LEMMA CommandTables ==
    ASSUME CommandsOK, TablesInv, NEW c \in Commands, Command(c)
    PROVE  TablesInv' /\ NamesStay
<1>1. CASE UNCHANGED dbVars
  BY <1>1, NothingChanges
<1>2. CASE AllowSaveDomain(c) /\ ~ UNCHANGED dbVars
  <2>1. /\ RowsOf(Item(c).name) = {} /\ InsertDomain(Item(c).name)
        /\ UNCHANGED <<users, perms>> /\ step[c] = "saveDomain"
    BY <1>2 DEF AllowSaveDomain, Crash
  <2>2. Item(c).name \in Domains
    BY <2>1 DEF CommandsOK, CommandOK
  <2> QED
    BY <2>1, <2>2, DomainInserted
<1>3. CASE AllowSavePerm(c) /\ ~ UNCHANGED dbVars
  <2>1. /\ Insertable(Wanted(c)) /\ perms' = perms \cup {Wanted(c)}
        /\ users' = users /\ domain' = domain /\ fresh' = fresh /\ step[c] \in AtRow
    BY <1>3 DEF AllowSavePerm, Crash, AtRow
  <2> QED
    BY <2>1, WantedIsPermission, PermissionsChange
<1>4. CASE RevokeDelete(c) /\ ~ UNCHANGED dbVars
  <2>1. /\ perms' = perms \ {Wanted(c)}
        /\ users' = users /\ domain' = domain /\ fresh' = fresh
    BY <1>4 DEF RevokeDelete, Reject
  <2> QED
    BY <2>1, PermissionsChange
<1>5. \/ UNCHANGED dbVars
      \/ AllowSaveDomain(c) \/ AllowSavePerm(c) \/ RevokeDelete(c)
  BY DEF Command, Start, AllowGetDomain, AllowCleanDomain, AllowGetPerm, AllowCleanPerm,
         RevokeGetDomain, Reject, dbVars
<1> QED
  BY <1>1, <1>2, <1>3, <1>4, <1>5

LEMMA InvInit == PermissionsInit => CommandsOK /\ TablesInv
<1> SUFFICES ASSUME PermissionsInit PROVE CommandsOK /\ TablesInv
  OBVIOUS
<1> USE DEF PermissionsInit
<1>1. \A c \in Commands : CommandOK(c)
  BY DEF CommandOK, Queries, AtRow, OfAllow
<1>2. CommandsOK
  <2>1. << >> \in Seq(Things)
    OBVIOUS
  <2> QED
    BY <1>1, <2>1 DEF CommandsOK
<1>3. /\ Len(InitialDomains) \in Nat /\ Len(InitialDomains) =< Cardinality(Rows)
      /\ InitialDomains \in [1..Len(InitialDomains) -> Domains]
  BY PermissionsAssumption, LenProperties
<1>4. /\ \A row \in Rows : row =< Len(InitialDomains) => row \in 1..Len(InitialDomains)
      /\ 1..Len(InitialDomains) \subseteq Rows
  BY <1>3, PermissionsAssumption, RowsAreNumbers
<1>5. \A row \in Rows : domain[row] = IF row =< Len(InitialDomains) THEN InitialDomains[row]
                                                                    ELSE NoRow
  OBVIOUS
<1>6. TablesOK
  <2>1. domain \in [Rows -> Domains \cup {NoRow}]
    BY <1>3, <1>4
  <2>2. fresh \in 1..(Cardinality(Rows) + 1)
    BY <1>3, RowsAreNumbers
  <2>3. perms \subseteq Permission
    BY <1>4, PermissionsAssumption DEF Permission
  <2> QED
    BY <2>1, <2>2, <2>3 DEF TablesOK
<1>7. ForeignKeys
  <2> SUFFICES ASSUME NEW p \in perms PROVE p.user \in users /\ domain[p.row] # NoRow
    BY DEF ForeignKeys, Exists
  <2>1. p.user \in users /\ p.row \in 1..Len(InitialDomains)
    BY PermissionsAssumption
  <2>2. p.row \in Rows /\ p.row =< Len(InitialDomains)
    BY <1>3, <1>4, <2>1
  <2>3. domain[p.row] = InitialDomains[p.row] /\ InitialDomains[p.row] \in Domains
    BY <1>3, <1>5, <2>1, <2>2
  <2> QED
    BY <2>1, <2>3, PermissionsAssumption
<1>8. FreshRows
  <2> SUFFICES ASSUME NEW row \in Rows, row >= Len(InitialDomains) + 1 PROVE domain[row] = NoRow
    BY DEF FreshRows
  <2>1. row \in Nat
    BY RowsAreNumbers
  <2>2. ~ (row =< Len(InitialDomains))
    BY <1>3, <2>1
  <2> QED
    BY <1>5, <2>2
<1>9. UniqueNames
  <2> SUFFICES ASSUME NEW p \in Rows, NEW q \in Rows, domain[p] = domain[q], domain[p] # NoRow
               PROVE  p = q
    BY DEF UniqueNames, Exists
  <2>1. p =< Len(InitialDomains) /\ q =< Len(InitialDomains)
    BY <1>5
  <2>2. /\ p \in 1..Len(InitialDomains) /\ q \in 1..Len(InitialDomains)
        /\ InitialDomains[p] = InitialDomains[q]
    BY <1>4, <1>5, <2>1
  <2> QED
    BY <2>2, PermissionsAssumption
<1> QED
  BY <1>2, <1>6, <1>7, <1>8, <1>9 DEF TablesInv

LEMMA CommandsUnchanged == CommandsOK /\ UNCHANGED commandVars => CommandsOK'
BY DEF commandVars, CommandsOK, CommandOK, Item

LEMMA InvStep ==
    CommandsOK /\ TablesInv /\ [PermissionsNext]_<<dbVars, commandVars>>
        => (CommandsOK /\ TablesInv)'
<1> SUFFICES ASSUME CommandsOK, TablesInv, [PermissionsNext]_<<dbVars, commandVars>>
             PROVE  CommandsOK' /\ TablesInv'
  OBVIOUS
<1>1. ASSUME NEW c \in Commands, Command(c) PROVE CommandsOK' /\ TablesInv'
  BY <1>1, CommandsStep, CommandTables DEF TablesInv
<1>2. CASE Rest
  <2>1. UNCHANGED commandVars
    BY <1>2 DEF Rest
  <2> QED
    BY <1>2, <2>1, CommandsUnchanged, RestTables
<1>3. CASE UNCHANGED <<dbVars, commandVars>>
  BY <1>3, CommandsUnchanged, NothingChanges
<1> QED
  BY <1>1, <1>2, <1>3 DEF PermissionsNext

LEMMA QueriesAreSteps ==
    [PermissionsNext]_permissionsVars => [PermissionsNext]_<<dbVars, commandVars>>
BY DEF permissionsVars

\* The tables and the commands have their types, however commands and administrators
\* interleave their queries (models.py, allow_domains.py, revoke_domains.py, views.py).
THEOREM TypeCorrect == PermissionsSpec => []PermissionsTypeOK
<1>1. CommandsOK /\ TablesInv => PermissionsTypeOK
  BY TypesMatch DEF TablesInv
<1> QED
  BY InvInit, InvStep, QueriesAreSteps, <1>1, PTL DEF PermissionsSpec

-----------------------------------------------------------------------------
(***************************************************************************)
(* The row a command has read has the name of its item, or is gone: a row  *)
(* number is never given twice, and only a rename through REST gives a row *)
(* another name.  Hence what a command inserts or deletes is what its      *)
(* order names, although the row was read two queries before.              *)
(***************************************************************************)
HeldNamed(c) ==
    step[c] \in AtRow => held[c] < fresh /\ domain[held[c]] \in {Item(c).name, NoRow}

HeldInv == \A c \in Commands : HeldNamed(c)

LEMMA HeldStays ==
    ASSUME CommandsOK, NEW c \in Commands, TablesInv, TablesInv', HeldNamed(c), NamesStay,
           step'[c] = step[c], todo'[c] = todo[c], held'[c] = held[c]
    PROVE  HeldNamed(c)'
<1> SUFFICES ASSUME step[c] \in AtRow
             PROVE  held[c] < fresh' /\ domain'[held[c]] \in {Item(c).name, NoRow}
  BY DEF HeldNamed, Item
<1>1. held[c] \in Rows /\ held[c] < fresh /\ domain[held[c]] \in {Item(c).name, NoRow}
  BY DEF CommandsOK, CommandOK, HeldNamed
<1>2. held[c] \in Nat /\ fresh \in Nat /\ fresh' \in Nat /\ fresh' >= fresh
  <2>1. held[c] \in Nat
    BY <1>1, RowsAreNumbers
  <2> QED
    BY <2>1 DEF TablesInv, TablesOK, NamesStay
<1>3. held[c] < fresh'
  BY <1>1, <1>2
<1> QED
  BY <1>1, <1>3 DEF NamesStay

\* A row that is found has the name that was looked for, and a number that was given.
LEMMA FoundIsNamed ==
    ASSUME CommandsOK, TablesInv, NEW c \in Commands, step[c] \in Queries,
           NEW row \in RowsOf(Item(c).name)
    PROVE  row < fresh /\ domain[row] = Item(c).name
<1>1. row \in Rows /\ domain[row] = Item(c).name /\ Item(c).name # NoRow
  BY ItemIsThing, PermissionsAssumption DEF RowsOf, Things
<1>2. row \in Nat /\ fresh \in Nat
  <2>1. row \in Nat
    BY <1>1, RowsAreNumbers
  <2> QED
    BY <2>1 DEF TablesInv, TablesOK
<1> QED
  BY <1>1, <1>2 DEF TablesInv, FreshRows

LEMMA HeldStep ==
    ASSUME CommandsOK, TablesInv, TablesInv', HeldInv, NamesStay, NEW c \in Commands, Command(c)
    PROVE  HeldInv'
<1>1. /\ c \in Commands /\ HeldNamed(c)
      /\ step \in [Commands -> {"new", "end"} \cup Queries]
      /\ todo \in [Commands -> Seq(Things)] /\ held \in [Commands -> Rows \cup {0}]
  BY DEF CommandsOK, HeldInv
<1>2. ASSUME NEW d \in Commands \ {c} PROVE HeldNamed(d)'
  <2>1. step'[d] = step[d] /\ todo'[d] = todo[d] /\ held'[d] = held[d]
    BY <1>1 DEF Command, Start, AllowGetDomain, AllowCleanDomain, AllowSaveDomain, AllowGetPerm,
         AllowCleanPerm, AllowSavePerm, RevokeGetDomain, RevokeDelete, Query, NextItem, Reject, Crash
  <2> QED
    BY <2>1, HeldStays DEF HeldInv
<1>3. HeldNamed(c)'
  <2>1. CASE step'[c] \notin AtRow
    BY <2>1 DEF HeldNamed
  <2>2. CASE /\ \/ AllowGetDomain(c) \/ RevokeGetDomain(c)
             /\ step'[c] \in AtRow
    <3>1. step[c] = "getDomain" /\ step[c] \in Queries
      BY <2>2 DEF AllowGetDomain, RevokeGetDomain, Queries
    <3>2. /\ UNCHANGED <<fresh, domain, todo>>
          /\ \E row \in RowsOf(Item(c).name) : held' = [held EXCEPT ![c] = row]
      BY <1>1, <2>2 DEF AllowGetDomain, RevokeGetDomain, Query, Reject, NextItem, AtRow, dbVars
    <3>3. PICK row \in RowsOf(Item(c).name) : held'[c] = row
      BY <1>1, <3>2
    <3> QED
      BY <3>1, <3>2, <3>3, FoundIsNamed DEF HeldNamed, Item
  <2>3. CASE AllowSaveDomain(c) /\ step'[c] \in AtRow
    <3>1. /\ step[c] = "saveDomain" /\ RowsOf(Item(c).name) = {} /\ InsertDomain(Item(c).name)
          /\ UNCHANGED <<users, perms, todo>> /\ held' = [held EXCEPT ![c] = fresh]
      BY <1>1, <2>3 DEF AllowSaveDomain, Crash, Query, AtRow
    <3>2. Item(c).name \in Domains
      BY <3>1 DEF CommandsOK, CommandOK
    <3>3. domain'[fresh] = Item(c).name /\ fresh' = fresh + 1 /\ held'[c] = fresh
      BY <1>1, <3>1, <3>2, DomainInserted
    <3>4. fresh \in Nat
      BY DEF TablesInv, TablesOK
    <3> QED
      BY <3>1, <3>3, <3>4 DEF HeldNamed, Item
  <2>4. CASE /\ \/ AllowGetPerm(c) \/ AllowCleanPerm(c) \/ AllowSavePerm(c) \/ RevokeDelete(c)
             /\ step'[c] \in AtRow
    <3>1. /\ UNCHANGED <<fresh, domain, held, todo>> /\ step[c] \in AtRow
      BY <1>1, <2>4 DEF AllowGetPerm, AllowCleanPerm, AllowSavePerm, RevokeDelete, Query, Reject,
         NextItem, Crash, AtRow, dbVars
    <3> QED
      BY <1>1, <3>1 DEF HeldNamed, Item
  <2>5. CASE /\ \/ Start(c) \/ AllowCleanDomain(c)
             /\ step'[c] \in AtRow
    BY <1>1, <2>5 DEF Start, AllowCleanDomain, Query, Reject, NextItem, AtRow
  <2> QED
    BY <2>1, <2>2, <2>3, <2>4, <2>5 DEF Command
<1> QED
  BY <1>2, <1>3 DEF HeldInv

Inv == CommandsOK /\ TablesInv /\ HeldInv

LEMMA HeldInit == PermissionsInit => HeldInv
BY DEF PermissionsInit, HeldInv, HeldNamed, AtRow

LEMMA NamedStep ==
    ASSUME "renameDomain" \notin RestMay
    PROVE  Inv /\ [PermissionsNext]_<<dbVars, commandVars>> => Inv'
<1> SUFFICES ASSUME Inv, [PermissionsNext]_<<dbVars, commandVars>> PROVE Inv'
  OBVIOUS
<1>1. CommandsOK /\ TablesInv /\ HeldInv /\ CommandsOK' /\ TablesInv'
  BY InvStep DEF Inv
<1>2. ASSUME NEW c \in Commands, Command(c) PROVE HeldInv'
  BY <1>1, <1>2, CommandTables, HeldStep
<1>3. ASSUME Rest PROVE HeldInv'
  <2>1. UNCHANGED commandVars /\ NamesStay
    BY <1>1, <1>3, RestTables DEF Rest
  <2> QED
    BY <1>1, <2>1, HeldStays DEF HeldInv, commandVars
<1>4. ASSUME UNCHANGED <<dbVars, commandVars>> PROVE HeldInv'
  BY <1>1, <1>4 DEF HeldInv, HeldNamed, Item, dbVars, commandVars
<1> QED
  BY <1>1, <1>2, <1>3, <1>4 DEF PermissionsNext, Inv

\* A permission that is there, of the row that is held, is what the item asks for.
LEMMA WantedIsNamed ==
    ASSUME Inv, NEW c \in Commands, step[c] \in AtRow, Exists(held[c])
    PROVE  held[c] \in Rows /\ domain[held[c]] = Item(c).name
BY DEF Inv, HeldInv, HeldNamed, CommandsOK, CommandOK, Exists

LEMMA TodoMoves ==
    ASSUME CommandsOK, NEW c \in Commands, step[c] \in Queries
    PROVE  Tail(todo[c]) # todo[c]
BY ItemIsThing

\* What an item is gone past with: it is granted, or not; or it failed.
LEMMA ItemSettled ==
    ASSUME Inv, NEW c \in Commands, Command(c), Handles(c), Item(c) \notin failed'[c]
    PROVE  (\E row \in Rows : /\ domain'[row] = Item(c).name
                              /\ Perm(order[c].user, row, Item(c).level) \in perms')
               <=> order[c].verb = "allow"
<1>1. /\ CommandsOK /\ TablesInv
      /\ step[c] \in Queries /\ todo'[c] = Tail(todo[c]) /\ todo'[c] # todo[c]
      /\ failed \in [Commands -> SUBSET Things]
  BY TodoMoves DEF Inv, CommandsOK, Handles
<1>2. ~ Reject(c)
  BY <1>1 DEF Reject, NextItem
<1>3. \/ AllowGetPerm(c) /\ Wanted(c) \in perms /\ UNCHANGED dbVars
      \/ /\ AllowSavePerm(c) /\ Insertable(Wanted(c)) /\ perms' = perms \cup {Wanted(c)}
         /\ UNCHANGED domain
      \/ /\ RevokeDelete(c) /\ Wanted(c) \in perms /\ perms' = perms \ {Wanted(c)}
         /\ UNCHANGED domain
  BY <1>1, <1>2 DEF Command, Handles, Start, AllowGetDomain, AllowCleanDomain, AllowSaveDomain,
     AllowGetPerm, AllowCleanPerm, AllowSavePerm, RevokeGetDomain, RevokeDelete, Query, Crash
<1>4. /\ step[c] \in AtRow /\ UNCHANGED domain
      /\ Wanted(c) = Perm(order[c].user, held[c], Item(c).level) /\ Wanted(c).row = held[c]
  BY <1>3 DEF AllowGetPerm, AllowSavePerm, RevokeDelete, AtRow, Wanted, Perm, dbVars
<1>5. held[c] \in Rows /\ domain[held[c]] = Item(c).name /\ Exists(held[c])
  <2>1. Exists(held[c])
    BY <1>1, <1>3, <1>4 DEF TablesInv, ForeignKeys, Insertable
  <2> QED
    BY <1>4, <2>1, WantedIsNamed
<1>6. CASE AllowGetPerm(c) \/ AllowSavePerm(c)
  <2>1. order[c].verb = "allow"
    BY <1>1, <1>6 DEF CommandsOK, CommandOK, AllowGetPerm, AllowSavePerm, OfAllow
  <2>2. Wanted(c) \in perms'
    BY <1>3, <1>6 DEF AllowGetPerm, AllowSavePerm, RevokeDelete, dbVars
  <2> QED
    BY <1>4, <1>5, <2>1, <2>2
<1>7. CASE RevokeDelete(c)
  <2>1. order[c].verb = "revoke" /\ Wanted(c) \notin perms'
    BY <1>1, <1>3, <1>7 DEF CommandsOK, CommandOK, AllowGetPerm, AllowSavePerm, RevokeDelete
  <2>2. \A row \in Rows : domain'[row] = Item(c).name => row = held[c]
    BY <1>1, <1>4, <1>5 DEF TablesInv, UniqueNames
  <2> QED
    BY <1>4, <2>1, <2>2
<1> QED
  BY <1>3, <1>6, <1>7

\* Unless administrators rename domains meanwhile: what allow_domains goes past without a
\* failure is granted then, and what revoke_domains goes past is not.
THEOREM ItemsAreSettled ==
    ASSUME "renameDomain" \notin RestMay
    PROVE  PermissionsSpec => HandledItemIsSettled
<1>1. ASSUME Inv, [PermissionsNext]_<<dbVars, commandVars>>
      PROVE  [\A c \in Commands :
                  Handles(c) /\ Item(c) \notin failed'[c] =>
                      LET granted == \E row \in Rows :
                                         /\ domain'[row] = Item(c).name
                                         /\ Perm(order[c].user, row, Item(c).level) \in perms'
                      IN  granted <=> order[c].verb = "allow"]_<<dbVars, commandVars>>
  <2> SUFFICES ASSUME PermissionsNext, NEW c \in Commands, Handles(c), Item(c) \notin failed'[c]
               PROVE  (\E row \in Rows :
                           /\ domain'[row] = Item(c).name
                           /\ Perm(order[c].user, row, Item(c).level) \in perms')
                          <=> order[c].verb = "allow"
    BY <1>1
  <2>1. todo'[c] # todo[c] /\ CommandsOK
    BY <1>1, TodoMoves DEF Handles, Inv, CommandsOK
  <2>2. PICK d \in Commands : Command(d)
    BY <2>1 DEF PermissionsNext, Rest, commandVars
  <2>3. d = c
    BY <2>1, <2>2 DEF CommandsOK, Command, Start, AllowGetDomain, AllowCleanDomain, AllowSaveDomain,
         AllowGetPerm, AllowCleanPerm, AllowSavePerm, RevokeGetDomain, RevokeDelete, Query,
         NextItem, Reject, Crash
  <2> QED
    BY <1>1, <2>2, <2>3, ItemSettled
<1>2. PermissionsInit => Inv
  BY InvInit, HeldInit DEF Inv
<1>3. Inv /\ [PermissionsNext]_<<dbVars, commandVars>> => Inv'
  BY NamedStep
<1> QED
  BY <1>1, <1>2, <1>3, QueriesAreSteps, PTL DEF PermissionsSpec, HandledItemIsSettled

LEMMA OrderedOnly ==
    ASSUME Inv, NEW c \in Commands, Command(c),
           NEW p \in (perms \ perms') \cup (perms' \ perms)
    PROVE  /\ step'[c] # step[c] \/ todo'[c] # todo[c]
           /\ p.user = order[c].user
           /\ [name |-> domain[p.row], level |-> p.level] \in OrderNames(order[c])
<1>1. CommandsOK /\ TablesInv
  BY DEF Inv
<1>2. /\ AllowSavePerm(c) \/ RevokeDelete(c)
      /\ p = Wanted(c) /\ NextItem(c, {})
      /\ Insertable(p) \/ p \in perms
  BY DEF Command, Start, AllowGetDomain, AllowCleanDomain, AllowSaveDomain,
     AllowGetPerm, AllowCleanPerm, AllowSavePerm, RevokeGetDomain, RevokeDelete, Query,
     Reject, Crash, dbVars
<1>3. step[c] \in AtRow /\ step[c] \in Queries
  BY <1>2 DEF AllowSavePerm, RevokeDelete, AtRow, Queries
<1>4. /\ p.user = order[c].user /\ p.row = held[c] /\ p.level = Item(c).level
  BY <1>1, <1>2, <1>3, WantedIsPermission
<1>5. domain[held[c]] = Item(c).name
  <2>1. Exists(held[c])
    BY <1>1, <1>2, <1>4 DEF TablesInv, ForeignKeys, Insertable
  <2> QED
    BY <1>3, <2>1, WantedIsNamed
<1>6. Item(c) \in Things /\ Item(c) \in OrderNames(order[c])
  BY <1>1, <1>3, ItemIsThing
<1>7. [name |-> domain[p.row], level |-> p.level] = Item(c)
  BY <1>4, <1>5, <1>6 DEF Things
<1>8. todo'[c] # todo[c]
  <2>1. todo'[c] = Tail(todo[c])
    BY <1>1, <1>2 DEF NextItem, CommandsOK
  <2> QED
    BY <1>1, <1>3, <2>1, TodoMoves
<1> QED
  BY <1>4, <1>6, <1>7, <1>8

\* Unless administrators rename domains meanwhile: no command inserts or deletes a permission
\* that its order does not name, whatever was deleted and made again while it ran.
THEOREM OnlyOrderedChange ==
    ASSUME "renameDomain" \notin RestMay
    PROVE  PermissionsSpec => OnlyOrderedPermissionsChange
<1>1. ASSUME Inv, [PermissionsNext]_<<dbVars, commandVars>>
      PROVE  [commandVars' # commandVars =>
                  \A p \in (perms \ perms') \cup (perms' \ perms) :
                      \E c \in Commands :
                          /\ step'[c] # step[c] \/ todo'[c] # todo[c]
                          /\ p.user = order[c].user
                          /\ [name |-> domain[p.row], level |-> p.level] \in
                                 {Items(order[c])[i] : i \in 1..Len(Items(order[c]))}
             ]_<<dbVars, commandVars>>
  <2> SUFFICES ASSUME PermissionsNext, commandVars' # commandVars,
                      NEW p \in (perms \ perms') \cup (perms' \ perms)
               PROVE  \E c \in Commands :
                          /\ step'[c] # step[c] \/ todo'[c] # todo[c]
                          /\ p.user = order[c].user
                          /\ [name |-> domain[p.row], level |-> p.level] \in OrderNames(order[c])
    BY <1>1 DEF OrderNames
  <2>1. PICK c \in Commands : Command(c)
    BY DEF PermissionsNext, Rest
  <2> QED
    BY <1>1, <2>1, OrderedOnly
<1>2. PermissionsInit => Inv
  BY InvInit, HeldInit DEF Inv
<1>3. Inv /\ [PermissionsNext]_<<dbVars, commandVars>> => Inv'
  BY NamedStep
<1> QED
  BY <1>1, <1>2, <1>3, QueriesAreSteps, PTL DEF PermissionsSpec, OnlyOrderedPermissionsChange

-----------------------------------------------------------------------------
(***************************************************************************)
(* A command alone: what it found in one query is so in the next, and what *)
(* it did not find is not there.                                           *)
(***************************************************************************)
AloneOK(c) ==
    /\ outcome[c] # "Crashed"
    /\ step[c] = "new" => failed[c] = {}
    /\ order[c].verb = "allow" => \A i \in failed[c] : i.name \in BadNames
    /\ step[c] \in {"cleanDomain", "saveDomain"} => RowsOf(Item(c).name) = {}
    /\ step[c] \in {"getPerm", "cleanPerm", "savePerm"} => Exists(held[c])
    /\ step[c] \in {"cleanPerm", "savePerm"} => Wanted(c) \notin perms

AloneInv == calm => users = Users /\ \A c \in Commands : Alone(c) => AloneOK(c)

LEMMA OneCommandMoves ==
    ASSUME CommandsOK, NEW c \in Commands, Command(c)
    PROVE  /\ step'[c] # "new" /\ UNCHANGED users
           /\ \A d \in Commands \ {c} : step'[d] = step[d]
BY DEF CommandsOK, Command, Start, AllowGetDomain, AllowCleanDomain, AllowSaveDomain, AllowGetPerm,
   AllowCleanPerm, AllowSavePerm, RevokeGetDomain, RevokeDelete, Query, NextItem, Reject, Crash, dbVars

\* Once there is a row for the domain and none for the permission, one may be made.
LEMMA AloneMayInsert ==
    ASSUME CommandsOK, users = Users, NEW c \in Commands, AloneOK(c),
           step[c] \in {"cleanPerm", "savePerm"}
    PROVE  Insertable(Wanted(c))
<1>1. order[c].user \in Users
  <2>1. order[c] \in Orders
    BY DEF CommandsOK, CommandOK, Queries, AtRow
  <2> QED
    BY <2>1, PermissionsAssumption
<1>2. Wanted(c).user = order[c].user /\ Wanted(c).row = held[c]
  BY DEF Wanted, Perm
<1> QED
  BY <1>1, <1>2 DEF AloneOK, Insertable

LEMMA AloneGoesOn ==
    ASSUME CommandsOK, NEW c \in Commands, AloneOK(c), step[c] \in Queries,
           NEW failures \in SUBSET Things, NextItem(c, failures),
           order[c].verb = "allow" => \A i \in failures : i.name \in BadNames
    PROVE  AloneOK(c)'
<1>1. /\ step'[c] \in {"getDomain", "end"} /\ order'[c] = order[c]
      /\ outcome'[c] \in {outcome[c], "Success", "Failed"}
      /\ failed'[c] = failed[c] \cup failures
  BY DEF NextItem, CommandsOK
<1> QED
  BY <1>1 DEF AloneOK

LEMMA AloneStep ==
    ASSUME CommandsOK, TablesInv, users = Users, NEW c \in Commands, AloneOK(c), Command(c)
    PROVE  AloneOK(c)'
<1> DEFINE kept == /\ order'[c] = order[c] /\ todo'[c] = todo[c]
                   /\ failed'[c] = failed[c] /\ outcome'[c] = outcome[c]
<1>1. ASSUME NEW next, Query(c, next) PROVE step'[c] = next /\ kept
  BY <1>1 DEF Query, CommandsOK
<1>2. CASE Start(c)
  BY <1>2 DEF Start, AloneOK, CommandsOK
<1>3. CASE AllowGetDomain(c)
  <2>1. step[c] = "getDomain" /\ step[c] \in Queries /\ UNCHANGED dbVars
    BY <1>3 DEF AllowGetDomain, Queries
  <2>2. ASSUME NEW row \in RowsOf(Item(c).name), held' = [held EXCEPT ![c] = row], Query(c, "getPerm")
        PROVE  AloneOK(c)'
    <3>1. held'[c] = row
      BY <2>2 DEF CommandsOK
    <3>2. Item(c).name \in Domains \cup BadNames
      BY <2>1, ItemIsThing DEF Things
    <3>3. domain'[row] # NoRow
      BY <2>1, <3>2, PermissionsAssumption DEF RowsOf, dbVars
    <3> QED
      BY <1>1, <2>1, <2>2, <3>1, <3>3 DEF AloneOK, Exists
  <2>3. CASE RowsOf(Item(c).name) = {} /\ Query(c, "cleanDomain")
    BY <1>1, <2>1, <2>3 DEF AloneOK, Item, RowsOf, dbVars
  <2> QED
    BY <1>3, <2>2, <2>3 DEF AllowGetDomain
<1>4. CASE AllowCleanDomain(c)
  <2>1. step[c] = "cleanDomain" /\ step[c] \in Queries /\ RowsOf(Item(c).name) = {}
    BY <1>4 DEF AllowCleanDomain, Queries, OfAllow, AloneOK
  <2>2. CASE ~ Valid(Item(c).name) /\ Reject(c)
    <3>1. {Item(c)} \in SUBSET Things /\ Item(c).name \in BadNames
      BY <2>1, <2>2, ItemIsThing DEF Valid
    <3> QED
      BY <2>1, <2>2, <3>1, AloneGoesOn DEF Reject
  <2>3. CASE Query(c, "saveDomain") /\ UNCHANGED <<dbVars, held>>
    BY <1>1, <2>1, <2>3 DEF AloneOK, Item, RowsOf, dbVars
  <2> QED
    BY <1>4, <2>1, <2>2, <2>3 DEF AllowCleanDomain
<1>5. CASE AllowSaveDomain(c)
  <2>1. /\ step[c] = "saveDomain" /\ InsertDomain(Item(c).name) /\ Query(c, "getPerm")
        /\ RowsOf(Item(c).name) = {} /\ UNCHANGED <<users, perms>>
        /\ held' = [held EXCEPT ![c] = fresh]
    BY <1>5 DEF AllowSaveDomain, AloneOK
  <2>2. Item(c).name \in Domains
    BY <2>1 DEF CommandsOK, CommandOK
  <2>3. held'[c] = fresh /\ domain'[fresh] # NoRow
    BY <2>1, <2>2, DomainInserted, PermissionsAssumption DEF CommandsOK
  <2> QED
    BY <1>1, <2>1, <2>3 DEF AloneOK, Exists
<1>6. CASE AllowGetPerm(c)
  <2>1. step[c] = "getPerm" /\ step[c] \in Queries /\ UNCHANGED <<dbVars, held>>
    BY <1>6 DEF AllowGetPerm, Queries, OfAllow
  <2>2. CASE NextItem(c, {})
    BY <2>1, <2>2, AloneGoesOn
  <2>3. CASE Wanted(c) \notin perms /\ Query(c, "cleanPerm")
    <3>1. step'[c] = "cleanPerm" /\ kept
      BY <1>1, <2>3
    <3>2. /\ UNCHANGED <<domain, perms>> /\ Wanted(c)' = Wanted(c) /\ held'[c] = held[c]
          /\ Exists(held[c])
      BY <2>1, <3>1 DEF AloneOK, Wanted, Item, dbVars
    <3> QED
      BY <2>3, <3>1, <3>2 DEF AloneOK, Exists
  <2> QED
    BY <1>6, <2>2, <2>3 DEF AllowGetPerm
<1>7. CASE AllowCleanPerm(c)
  <2>1. step[c] = "cleanPerm" /\ Query(c, "savePerm") /\ UNCHANGED <<dbVars, held>>
    BY <1>7, AloneMayInsert DEF AllowCleanPerm
  <2>2. step'[c] = "savePerm" /\ kept
    BY <1>1, <2>1
  <2>3. /\ UNCHANGED <<domain, perms>> /\ Wanted(c)' = Wanted(c) /\ held'[c] = held[c]
        /\ Exists(held[c]) /\ Wanted(c) \notin perms
    BY <2>1, <2>2 DEF AloneOK, Wanted, Item, dbVars
  <2> QED
    BY <2>2, <2>3 DEF AloneOK, Exists
<1>8. CASE AllowSavePerm(c)
  <2>1. step[c] = "savePerm" /\ step[c] \in Queries /\ NextItem(c, {})
    BY <1>8, AloneMayInsert DEF AllowSavePerm, Queries, OfAllow
  <2> QED
    BY <2>1, AloneGoesOn
<1>9. CASE RevokeGetDomain(c) \/ RevokeDelete(c)
  <2>1. step[c] \in Queries /\ order[c].verb = "revoke"
    BY <1>9 DEF RevokeGetDomain, RevokeDelete, Queries, AtRow, CommandsOK, CommandOK
  <2>2. CASE Reject(c)
    <3>1. {Item(c)} \in SUBSET Things
      BY <2>1, ItemIsThing
    <3> QED
      BY <2>1, <2>2, <3>1, AloneGoesOn DEF Reject
  <2>3. CASE NextItem(c, {})
    BY <2>1, <2>3, AloneGoesOn
  <2>4. CASE Query(c, "delete")
    BY <1>1, <2>4 DEF AloneOK
  <2> QED
    BY <1>9, <2>2, <2>3, <2>4 DEF RevokeGetDomain, RevokeDelete
<1> QED
  BY <1>2, <1>3, <1>4, <1>5, <1>6, <1>7, <1>8, <1>9 DEF Command

LEMMA AloneInvStep ==
    CommandsOK /\ TablesInv /\ AloneInv /\ [PermissionsNext]_permissionsVars => AloneInv'
<1> SUFFICES ASSUME CommandsOK, TablesInv, AloneInv, [PermissionsNext]_permissionsVars, calm'
             PROVE  users' = Users /\ \A c \in Commands : Alone(c)' => AloneOK(c)'
  BY DEF AloneInv
<1>1. calm /\ users = Users /\ \A c \in Commands : Alone(c) => AloneOK(c)
  BY DEF AloneInv, PermissionsNext, permissionsVars
<1>2. CASE UNCHANGED permissionsVars
  BY <1>1, <1>2 DEF permissionsVars, dbVars, commandVars, Alone, AloneOK, Item, Wanted, RowsOf, Exists
<1>3. ASSUME NEW d \in Commands, Command(d)
      PROVE  users' = Users /\ \A c \in Commands : Alone(c)' => AloneOK(c)'
  <2>1. /\ step'[d] # "new" /\ UNCHANGED users
        /\ \A e \in Commands \ {d} : step'[e] = step[e]
    BY <1>3, OneCommandMoves
  <2>2. ASSUME NEW c \in Commands, Alone(c)' PROVE c = d /\ Alone(c)
    BY <2>1, <2>2 DEF Alone
  <2> QED
    BY <1>1, <1>3, <2>1, <2>2, AloneStep
<1> QED
  BY <1>1, <1>2, <1>3 DEF PermissionsNext, Rest

\* A command with which no one interferes, neither another one nor an administrator, never meets
\* a constraint of the database, and allow_domains refuses no name but a bad one, in whatever
\* order and however often its items are named (allow_domains.py:22-34).
THEOREM AloneNothingFails == PermissionsSpec => []FailsAlone
<1>1. PermissionsInit => AloneInv
  BY DEF PermissionsInit, AloneInv, AloneOK, NoOrder
<1>2. AloneInv => FailsAlone
  BY DEF AloneInv, AloneOK, FailsAlone
<1> QED
  BY InvInit, InvStep, QueriesAreSteps, AloneInvStep, <1>1, <1>2, PTL DEF PermissionsSpec

=============================================================================

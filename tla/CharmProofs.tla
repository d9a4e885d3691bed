----------------------------- MODULE CharmProofs -----------------------------
(***************************************************************************)
(* What holds of Charm, and of the migrations it runs, for any tables of   *)
(* old, any configurations, and any number of hooks and actions.           *)
(***************************************************************************)
EXTENDS Charm, FiniteSetTheorems, TLAPS

(***************************************************************************)
(* The tables: what each migration leaves.  Until the second one there are *)
(* no permissions but the old ones; until the third, none but those.       *)
(***************************************************************************)
RowsOK ==
    /\ applied \in 0..3
    /\ nextDomain \in Nat \ {0} /\ nextPerm \in Nat \ {0}
    /\ DOMAIN domains \subseteq Nat /\ DOMAIN perms \subseteq Nat
    /\ domains \in [DOMAIN domains -> Fqdns]
    /\ perms \in [DOMAIN perms -> [user : Users, domain : DOMAIN domains]]

OldOK ==
    /\ before \in OldTables \cup {NoTables}
    /\ applied < 2 => old = before /\ DOMAIN perms = {}
    /\ applied >= 2 => old = NoTables

BareOK == applied = 3 => \A i \in DOMAIN domains : Bare[domains[i]] = domains[i]

\* What was copied is as it was, as long as allow-domains has made no domain.
CopiedOK ==
    /\ applied < 2 /\ nextDomain = 1 => DOMAIN domains = {}
    /\ applied = 2 /\ nextDomain = 1 =>
           DOMAIN domains = {} \/ (before # NoTables /\ domains = before.domains)
    /\ applied = 2 =>
           DOMAIN perms = {} \/ (before # NoTables /\ perms = before.perms)

TablesInv == RowsOK /\ OldOK /\ BareOK /\ CopiedOK /\ OnlyCopiedIdsCollide

LEMMA IdsAreNumbers == Ids \subseteq Nat \ {0}
<1>1. Cardinality(Ids) \in Nat
  BY MigrationsAssumption, FS_CardinalityType
<1> QED
  BY <1>1, MigrationsAssumption

LEMMA TablesInit == Init => TablesInv
<1> SUFFICES ASSUME Init
             PROVE  TablesInv
  OBVIOUS
<1>1. RowsOK /\ OldOK /\ BareOK /\ CopiedOK
  BY DEF Init, MigrationsInit, NoRows, RowsOK, OldOK, BareOK, CopiedOK
<1>2. OnlyCopiedIdsCollide
  BY DEF Init, MigrationsInit, NoRows, OnlyCopiedIdsCollide
<1> QED
  BY <1>1, <1>2 DEF TablesInv

\* Each migration leaves the tables as it should, and keeps the grants.
LEMMA CreateTablesKeeps ==
    ASSUME TablesInv, CreateTables
    PROVE  TablesInv' /\ Grants' = Grants
<1>1. RowsOK' /\ OldOK' /\ BareOK' /\ CopiedOK'
  BY DEF TablesInv, CreateTables, RowsOK, OldOK, BareOK, CopiedOK
<1>2. OnlyCopiedIdsCollide' /\ Grants' = Grants
  BY DEF TablesInv, CreateTables, OnlyCopiedIdsCollide, Grants, GrantsIn
<1> QED
  BY <1>1, <1>2 DEF TablesInv

LEMMA ForwardsKeeps ==
    ASSUME TablesInv, Forwards
    PROVE  TablesInv' /\ Grants' = Grants
<1>1. /\ applied = 1 /\ applied' = 2 /\ old' = NoTables /\ old = before
      /\ DOMAIN perms = {}
      /\ before \in OldTables \cup {NoTables}
      /\ UNCHANGED <<nextDomain, nextPerm, before>>
  BY DEF TablesInv, RowsOK, OldOK, Forwards
<1>2. CASE old = NoTables
  <2>1. domains' = domains /\ perms' = perms
    BY <1>2 DEF Forwards
  <2>2. RowsOK' /\ OldOK' /\ BareOK' /\ CopiedOK'
    BY <1>1, <1>2, <2>1 DEF TablesInv, RowsOK, OldOK, BareOK, CopiedOK
  <2>3. OnlyCopiedIdsCollide' /\ Grants' = Grants
    BY <1>1, <1>2, <2>1 DEF TablesInv, OnlyCopiedIdsCollide, Grants, GrantsIn
  <2> QED
    BY <2>2, <2>3 DEF TablesInv
<1>3. CASE old # NoTables
  <2>1. /\ domains' = [i \in DOMAIN domains \cup DOMAIN old.domains |->
                           IF i \in DOMAIN domains THEN domains[i] ELSE old.domains[i]]
        /\ perms' = old.perms
    BY <1>3 DEF Forwards, Together
  <2>2. /\ old \in OldTables
        /\ DOMAIN old.domains \subseteq Nat /\ DOMAIN old.perms \subseteq Nat
        /\ old.domains \in [DOMAIN old.domains -> Fqdns]
        /\ old.perms \in [DOMAIN old.perms -> [user : Users, domain : DOMAIN old.domains]]
    BY <1>1, <1>3, MigrationsAssumption, IdsAreNumbers
  <2>3. DOMAIN domains \cap DOMAIN old.domains = {}
    BY <1>3 DEF Forwards, Copyable
  <2>4. RowsOK'
    BY <1>1, <2>1, <2>2 DEF TablesInv, RowsOK
  <2>5. OldOK' /\ BareOK'
    BY <1>1 DEF OldOK, BareOK
  <2>6. CopiedOK'
    <3>1. ASSUME nextDomain = 1
          PROVE  domains' = before.domains
      BY <1>1, <2>1, <2>2, <3>1 DEF TablesInv, CopiedOK
    <3> QED
      BY <1>1, <1>3, <2>1, <3>1 DEF CopiedOK
  <2>7. OnlyCopiedIdsCollide'
    BY <1>1, <1>3, <2>1 DEF TablesInv, OnlyCopiedIdsCollide
  <2>8. Grants' = Grants
    <3>1. GrantsIn(domains, perms) = {}
      BY <1>1 DEF GrantsIn
    <3>2. \A i \in DOMAIN old.domains : domains'[i] = old.domains[i]
      BY <2>1, <2>3
    <3>3. GrantsIn(domains', perms') = GrantsIn(old.domains, old.perms)
      BY <2>1, <2>2, <3>2 DEF GrantsIn
    <3> QED
      BY <1>1, <1>3, <3>1, <3>3 DEF Grants
  <2> QED
    BY <2>4, <2>5, <2>6, <2>7, <2>8 DEF TablesInv
<1> QED
  BY <1>2, <1>3

LEMMA AddAccessLevelKeeps ==
    ASSUME TablesInv, AddAccessLevel
    PROVE  TablesInv' /\ Grants' = Grants
<1>1. /\ applied = 2 /\ applied' = 3
      /\ domains' = [i \in DOMAIN domains |-> Bare[domains[i]]]
      /\ UNCHANGED <<old, accounts, perms, nextDomain, nextPerm, before>>
  BY DEF AddAccessLevel
<1>2. RowsOK'
  BY <1>1, MigrationsAssumption DEF TablesInv, RowsOK
<1>3. OldOK' /\ CopiedOK'
  BY <1>1 DEF TablesInv, OldOK, CopiedOK
<1>4. BareOK'
  BY <1>1, MigrationsAssumption DEF TablesInv, RowsOK, BareOK
<1>5. OnlyCopiedIdsCollide'
  BY <1>1 DEF TablesInv, OnlyCopiedIdsCollide
<1>6. Grants' = Grants
  <2>1. \A i \in DOMAIN perms : Bare[domains'[perms[i].domain]] = Bare[domains[perms[i].domain]]
    BY <1>1, MigrationsAssumption DEF TablesInv, RowsOK
  <2>2. GrantsIn(domains', perms') = GrantsIn(domains, perms)
    BY <1>1, <2>1 DEF GrantsIn
  <2> QED
    BY <1>1, <2>2 DEF Grants
<1> QED
  BY <1>2, <1>3, <1>4, <1>5, <1>6 DEF TablesInv

LEMMA MigrateKeeps ==
    ASSUME TablesInv, Migrate
    PROVE  TablesInv' /\ Grants' = Grants
BY CreateTablesKeeps, ForwardsKeeps, AddAccessLevelKeeps DEF Migrate

(***************************************************************************)
(* The commands                                                            *)
(***************************************************************************)
\* The row is there unless its number was taken, and no other row has changed.
LEMMA AddedPerm ==
    ASSUME NEW D, NEW row \in [user : Users, domain : D],
           nextPerm \in Nat \ {0}, DOMAIN perms \subseteq Nat,
           perms \in [DOMAIN perms -> [user : Users, domain : D]],
           AddPerm(row)
    PROVE  /\ nextPerm' = nextPerm + 1
           /\ DOMAIN perms \subseteq DOMAIN perms'
           /\ DOMAIN perms' \subseteq DOMAIN perms \cup {nextPerm}
           /\ perms' \in [DOMAIN perms' -> [user : Users, domain : D]]
           /\ nextPerm \notin DOMAIN perms => row \in Range(perms')
<1>1. CASE nextPerm \in DOMAIN perms
  BY <1>1 DEF AddPerm
<1>2. CASE nextPerm \notin DOMAIN perms
  <2>1. perms' = [i \in DOMAIN perms \cup {nextPerm} |-> IF i = nextPerm THEN row ELSE perms[i]]
    BY <1>2 DEF AddPerm, Inserted
  <2>2. perms'[nextPerm] = row
    BY <2>1
  <2> QED
    BY <2>1, <2>2 DEF AddPerm, Range
<1> QED
  BY <1>1, <1>2

LEMMA AddedDomain ==
    ASSUME RowsOK, NEW fqdn \in Fqdns, AddDomain(fqdn)
    PROVE  /\ nextDomain' = nextDomain + 1
           /\ DOMAIN domains' = DOMAIN domains \cup {nextDomain}
           /\ domains' \in [DOMAIN domains' -> Fqdns]
           /\ \A i \in DOMAIN domains : domains'[i] = domains[i]
           /\ nextDomain \notin DOMAIN domains => domains'[nextDomain] = fqdn
<1>1. CASE nextDomain \in DOMAIN domains
  BY <1>1 DEF AddDomain, RowsOK
<1>2. CASE nextDomain \notin DOMAIN domains
  <2>1. domains' = [i \in DOMAIN domains \cup {nextDomain} |->
                        IF i = nextDomain THEN fqdn ELSE domains[i]]
    BY <1>2 DEF AddDomain, Inserted
  <2> QED
    BY <1>2, <2>1 DEF AddDomain, RowsOK
<1> QED
  BY <1>1, <1>2

\* What a command does to the tables of a database in good order; from the third migration
\* on what it says it did is so.
LEMMA AllowKeeps ==
    ASSUME TablesInv, NEW user \in Users, NEW fqdn \in Fqdns,
           Allow(user, fqdn), UNCHANGED <<applied, old, before>>
    PROVE  TablesInv'
<1>1. RowsOK
  BY DEF TablesInv
<1>2. CASE UNCHANGED <<domains, perms, nextDomain, nextPerm>>
  BY <1>2 DEF TablesInv, RowsOK, OldOK, BareOK, CopiedOK, OnlyCopiedIdsCollide
<1>3. CASE /\ Bare[fqdn] = fqdn /\ RowOf(fqdn) = {} /\ AddDomain(fqdn)
           /\ UNCHANGED <<perms, nextPerm>>
  <2>1. /\ nextDomain' = nextDomain + 1
        /\ DOMAIN domains' = DOMAIN domains \cup {nextDomain}
        /\ domains' \in [DOMAIN domains' -> Fqdns]
        /\ \A i \in DOMAIN domains : domains'[i] = domains[i]
        /\ nextDomain \notin DOMAIN domains => domains'[nextDomain] = fqdn
    BY <1>1, <1>3, AddedDomain
  <2>2. RowsOK'
    BY <1>1, <1>3, <2>1 DEF RowsOK
  <2>3. OldOK' /\ BareOK'
    BY <1>3, <2>1 DEF TablesInv, OldOK, BareOK
  <2>4. CopiedOK' /\ OnlyCopiedIdsCollide'
    BY <1>1, <1>3, <2>1 DEF TablesInv, RowsOK, CopiedOK, OnlyCopiedIdsCollide
  <2> QED
    BY <2>2, <2>3, <2>4 DEF TablesInv
<1>4. CASE /\ Bare[fqdn] = fqdn /\ RowOf(fqdn) = {} /\ AddDomain(fqdn)
           /\ applied = 3 /\ nextDomain \notin DOMAIN domains
           /\ AddPerm(Row(user, nextDomain))
  <2>1. /\ nextDomain' = nextDomain + 1
        /\ DOMAIN domains' = DOMAIN domains \cup {nextDomain}
        /\ domains' \in [DOMAIN domains' -> Fqdns]
        /\ \A i \in DOMAIN domains : domains'[i] = domains[i]
        /\ domains'[nextDomain] = fqdn
    BY <1>1, <1>4, AddedDomain
  <2>2. /\ nextPerm \in Nat \ {0} /\ DOMAIN perms \subseteq Nat
        /\ perms \in [DOMAIN perms -> [user : Users, domain : DOMAIN domains']]
        /\ Row(user, nextDomain) \in [user : Users, domain : DOMAIN domains']
    BY <1>1, <2>1 DEF RowsOK, Row
  <2>3. /\ nextPerm' = nextPerm + 1
        /\ DOMAIN perms' \subseteq DOMAIN perms \cup {nextPerm}
        /\ perms' \in [DOMAIN perms' -> [user : Users, domain : DOMAIN domains']]
    BY <1>4, <2>2, AddedPerm
  <2>4. RowsOK'
    BY <1>1, <2>1, <2>3 DEF RowsOK
  <2>5. OldOK' /\ BareOK'
    BY <1>4, <2>1 DEF TablesInv, OldOK, BareOK
  <2>6. CopiedOK' /\ OnlyCopiedIdsCollide'
    BY <1>1, <1>4, <2>1, <2>3 DEF TablesInv, RowsOK, CopiedOK, OnlyCopiedIdsCollide
  <2> QED
    BY <2>4, <2>5, <2>6 DEF TablesInv
<1>5. CASE /\ applied = 3 /\ \E i \in RowOf(fqdn) : AddPerm(Row(user, i))
           /\ UNCHANGED <<domains, nextDomain>>
  <2>1. PICK i \in RowOf(fqdn) : AddPerm(Row(user, i))
    BY <1>5
  <2>2. /\ nextPerm \in Nat \ {0} /\ DOMAIN perms \subseteq Nat
        /\ perms \in [DOMAIN perms -> [user : Users, domain : DOMAIN domains]]
        /\ Row(user, i) \in [user : Users, domain : DOMAIN domains]
    BY <1>1 DEF RowsOK, Row, RowOf
  <2>3. /\ nextPerm' = nextPerm + 1
        /\ DOMAIN perms' \subseteq DOMAIN perms \cup {nextPerm}
        /\ perms' \in [DOMAIN perms' -> [user : Users, domain : DOMAIN domains]]
    BY <2>1, <2>2, AddedPerm
  <2>4. RowsOK'
    BY <1>1, <1>5, <2>3 DEF RowsOK
  <2>5. OldOK' /\ BareOK'
    BY <1>5 DEF TablesInv, OldOK, BareOK
  <2>6. CopiedOK' /\ OnlyCopiedIdsCollide'
    BY <1>1, <1>5, <2>3 DEF TablesInv, RowsOK, CopiedOK, OnlyCopiedIdsCollide
  <2> QED
    BY <2>4, <2>5, <2>6 DEF TablesInv
<1> QED
  BY <1>2, <1>3, <1>4, <1>5 DEF Allow

LEMMA AllowsGrants ==
    ASSUME TablesInv, NEW user \in Users, NEW fqdn \in Fqdns,
           Allow(user, fqdn), Allows(user, fqdn), UNCHANGED <<applied, old, before>>
    PROVE  <<user, fqdn>> \in Grants'
<1>1. RowsOK /\ applied = 3 /\ user \in accounts /\ Bare[fqdn] = fqdn
  BY DEF TablesInv, Allows
<1>2. ASSUME NEW i \in DOMAIN domains', domains'[i] = fqdn, Row(user, i) \in Range(perms')
      PROVE  <<user, fqdn>> \in Grants'
  <2>1. PICK j \in DOMAIN perms' : perms'[j] = Row(user, i)
    BY <1>2 DEF Range
  <2>2. perms'[j].user = user /\ Bare[domains'[perms'[j].domain]] = fqdn
    BY <1>1, <1>2, <2>1 DEF Row
  <2>3. <<user, fqdn>> \in GrantsIn(domains', perms')
    BY <2>2 DEF GrantsIn
  <2> QED
    BY <2>3 DEF Grants
<1>3. CASE RowOf(fqdn) = {}
  <2>1. nextDomain \notin DOMAIN domains /\ nextPerm \notin DOMAIN perms
    BY <1>3 DEF Allows
  <2>2. AddDomain(fqdn) /\ AddPerm(Row(user, nextDomain))
    BY <1>1, <1>3, <2>1 DEF Allow
  <2>3. /\ DOMAIN domains' = DOMAIN domains \cup {nextDomain}
        /\ domains'[nextDomain] = fqdn
    BY <1>1, <2>1, <2>2, AddedDomain
  <2>4. /\ nextPerm \in Nat \ {0} /\ DOMAIN perms \subseteq Nat
        /\ perms \in [DOMAIN perms -> [user : Users, domain : DOMAIN domains']]
        /\ Row(user, nextDomain) \in [user : Users, domain : DOMAIN domains']
    BY <1>1, <2>3 DEF RowsOK, Row
  <2>5. Row(user, nextDomain) \in Range(perms')
    BY <2>1, <2>2, <2>4, AddedPerm
  <2> QED
    BY <1>2, <2>3, <2>5
<1>4. CASE RowOf(fqdn) # {}
  <2>1. /\ UNCHANGED domains
        /\ \E i \in RowOf(fqdn) : IF Row(user, i) \notin Range(perms)
                                  THEN AddPerm(Row(user, i)) ELSE UNCHANGED <<perms, nextPerm>>
    BY <1>1, <1>4 DEF Allow
  <2>2. PICK i \in RowOf(fqdn) : IF Row(user, i) \notin Range(perms)
                                 THEN AddPerm(Row(user, i)) ELSE UNCHANGED <<perms, nextPerm>>
    BY <2>1
  <2>3. i \in DOMAIN domains' /\ domains'[i] = fqdn
    BY <2>1 DEF RowOf
  <2>4. CASE Row(user, i) \in Range(perms)
    <3>1. Row(user, i) \in Range(perms')
      BY <2>2, <2>4
    <3> QED
      BY <1>2, <2>3, <3>1
  <2>5. CASE Row(user, i) \notin Range(perms)
    <3>1. AddPerm(Row(user, i))
      BY <2>2, <2>5
    <3>2. CASE nextPerm \notin DOMAIN perms
      <4>1. /\ nextPerm \in Nat \ {0} /\ DOMAIN perms \subseteq Nat
            /\ perms \in [DOMAIN perms -> [user : Users, domain : DOMAIN domains]]
            /\ Row(user, i) \in [user : Users, domain : DOMAIN domains]
        BY <1>1 DEF RowsOK, Row, RowOf
      <4>2. Row(user, i) \in Range(perms')
        BY <3>1, <3>2, <4>1, AddedPerm
      <4> QED
        BY <1>2, <2>3, <4>2
    <3>3. ASSUME nextPerm \in DOMAIN perms
          PROVE  <<user, fqdn>> \in Grants'
      <4>1. PICK k \in RowOf(fqdn) : Row(user, k) \in Range(perms)
        BY <3>3 DEF Allows
      <4>2. k \in DOMAIN domains' /\ domains'[k] = fqdn
        BY <2>1 DEF RowOf
      <4>3. perms' = perms
        BY <3>1, <3>3 DEF AddPerm
      <4> QED
        BY <1>2, <4>1, <4>2, <4>3
    <3> QED
      BY <3>2, <3>3
  <2> QED
    BY <2>4, <2>5
<1> QED
  BY <1>3, <1>4

LEMMA RevokeKeeps ==
    ASSUME TablesInv, NEW user, NEW fqdn,
           Revoke(user, fqdn), UNCHANGED <<applied, old, before>>
    PROVE  TablesInv'
<1> DEFINE kept == {j \in DOMAIN perms : applied = 3 =>
                        ~ (perms[j].user = user /\ domains[perms[j].domain] = fqdn)}
<1>1. /\ perms' = [i \in kept |-> perms[i]]
      /\ UNCHANGED <<domains, nextDomain, nextPerm>>
  BY DEF Revoke
<1>2. kept \subseteq DOMAIN perms /\ (applied # 3 => kept = DOMAIN perms)
  OBVIOUS
<1> HIDE DEF kept
<1>3. applied # 3 => perms' = perms
  BY <1>1, <1>2 DEF TablesInv, RowsOK
<1>4. RowsOK'
  BY <1>1, <1>2 DEF TablesInv, RowsOK
<1>5. OldOK' /\ BareOK' /\ CopiedOK'
  BY <1>1, <1>3 DEF TablesInv, OldOK, BareOK, CopiedOK
<1>6. OnlyCopiedIdsCollide'
  BY <1>1, <1>2 DEF TablesInv, OnlyCopiedIdsCollide
<1> QED
  BY <1>4, <1>5, <1>6 DEF TablesInv

LEMMA RevokeRevokes ==
    ASSUME TablesInv, NEW user, NEW fqdn,
           Revoke(user, fqdn), perms' # perms, UNCHANGED <<applied, old, before>>
    PROVE  <<user, fqdn>> \in Grants \ Grants'
<1> DEFINE ordered(j) == perms[j].user = user /\ domains[perms[j].domain] = fqdn
<1>1. /\ perms' = [i \in {j \in DOMAIN perms : applied = 3 => ~ ordered(j)} |-> perms[i]]
      /\ UNCHANGED domains
  BY DEF Revoke
<1>2. applied = 3 /\ \E j \in DOMAIN perms : ordered(j)
  <2>1. ASSUME \A j \in DOMAIN perms : applied = 3 => ~ ordered(j)
        PROVE  FALSE
    <3> HIDE DEF ordered
    <3>1. {j \in DOMAIN perms : applied = 3 => ~ ordered(j)} = DOMAIN perms
      BY <2>1
    <3>2. perms' = perms
      BY <1>1, <3>1 DEF TablesInv, RowsOK
    <3> QED
      BY <3>2
  <2> QED
    BY <2>1
<1>3. old = NoTables /\ old' = NoTables
  BY <1>2 DEF TablesInv, OldOK
<1>4. \A j \in DOMAIN perms : Bare[domains[perms[j].domain]] = domains[perms[j].domain]
  BY <1>2 DEF TablesInv, RowsOK, BareOK
<1>5. <<user, fqdn>> \in Grants
  BY <1>2, <1>4 DEF Grants, GrantsIn
<1>6. ASSUME <<user, fqdn>> \in Grants'
      PROVE  FALSE
  <2>1. Grants' = GrantsIn(domains', perms')
    BY <1>3 DEF Grants
  <2>2. PICK i \in DOMAIN perms' :
            <<user, fqdn>> = <<perms'[i].user, Bare[domains'[perms'[i].domain]]>>
    BY <1>6, <2>1 DEF GrantsIn
  <2>3. i \in DOMAIN perms /\ perms'[i] = perms[i] /\ ~ ordered(i)
    BY <1>1, <1>2
  <2> QED
    BY <1>1, <1>4, <2>2, <2>3
<1> QED
  BY <1>5, <1>6

(***************************************************************************)
(* The tables, from step to step of the charm                              *)
(***************************************************************************)
ActionOK ==
    action.state \in {"runs", "runs failed"} =>
        /\ action.verb \in {"create", "allow", "revoke", "list"}
        /\ action.user \in Users /\ action.fqdn \in Fqdns

LEMMA CommandKeeps ==
    ASSUME TablesInv, ActionOK, Command
    PROVE  TablesInv' /\ applied' = applied
<1>1. action.user \in Users /\ action.fqdn \in Fqdns /\ UNCHANGED <<applied, old, before>>
  BY DEF Command, ActionOK
<1>2. CASE CreateUser \/ ListDomains
  BY <1>1, <1>2 DEF CreateUser, ListDomains, TablesInv, RowsOK, OldOK, BareOK, CopiedOK,
     OnlyCopiedIdsCollide
<1>3. CASE AllowDomains
  BY <1>1, <1>3, AllowKeeps DEF AllowDomains
<1>4. CASE RevokeDomains
  BY <1>1, <1>4, RevokeKeeps DEF RevokeDomains
<1> QED
  BY <1>1, <1>2, <1>3, <1>4 DEF Command

\* Only migrations and commands touch the tables.
LEMMA TablesStep ==
    ASSUME [Next]_vars
    PROVE  Migrates \/ Command \/ UNCHANGED tables
BY DEF Next, vars, HookStep, ActionStep, Environment, Configure, Integrate, Elected,
   ContainerStarts, ContainerEnds, HookBegins, NothingToCopy, Keyscan, PushKnownHosts, PushKey,
   CopyFails, Errs, Starts, DoesNotStart, CollectsAppStatus, ActionBegins, ActionFails

LEMMA TablesNext ==
    ASSUME TablesInv, ActionOK, [Next]_vars
    PROVE  TablesInv' /\ (applied' # applied => Grants' = Grants)
<1>1. CASE Migrates
  BY <1>1, MigrateKeeps DEF Migrates
<1>2. CASE Command
  BY <1>2, CommandKeeps
<1>3. CASE UNCHANGED tables
  BY <1>3 DEF tables, TablesInv, RowsOK, OldOK, BareOK, CopiedOK, OnlyCopiedIdsCollide
<1> QED
  BY <1>1, <1>2, <1>3, TablesStep

LEMMA ActionNext ==
    ASSUME ActionOK, [Next]_vars
    PROVE  ActionOK'
<1>1. CASE ActionBegins
  <2>1. PICK verb \in {"create", "allow", "revoke", "list"}, user \in Users, fqdn \in Fqdns :
            action' = [verb |-> verb, user |-> user, fqdn |-> fqdn,
                       state |-> IF reachable /\ integrated THEN "runs" ELSE "runs failed"]
    BY <1>1 DEF ActionBegins
  <2>2. action'.verb = verb /\ action'.user = user /\ action'.fqdn = fqdn
    BY <2>1
  <2> QED
    BY <2>2 DEF ActionOK
<1>2. CASE ActionFails \/ Command
  BY <1>2 DEF ActionFails, Command, CreateUser, AllowDomains, RevokeDomains, ListDomains,
     ActionEnds, NoAction, ActionOK
<1>3. CASE UNCHANGED action
  BY <1>3 DEF ActionOK
<1>4. HookStep \/ Environment => UNCHANGED action
  BY DEF HookStep, Environment, run, Configure, Integrate, Elected, ContainerStarts, ContainerEnds,
     HookBegins, NothingToCopy, Keyscan, PushKnownHosts, PushKey, CopyFails, Errs, Migrates,
     Starts, DoesNotStart, CollectsAppStatus
<1> QED
  BY <1>1, <1>2, <1>3, <1>4 DEF Next, ActionStep, vars

(***************************************************************************)
(* The files.  Of the hooks only config-changed and pebble-ready copy.     *)
(***************************************************************************)
Copying == step \in {"copy", "push", "push key"}
FilesOf(c) == known = c.repo /\ rsa = c.key

\* config-changed has yet to start the service, or to find that it cannot.
ConfigToCome == "config" \in due \/ (hook = "config" /\ (Copying \/ step = "restart"))

HooksOK ==
    /\ reachable \in BOOLEAN /\ integrated \in BOOLEAN
    /\ leader \in BOOLEAN /\ waiting \in BOOLEAN
    /\ step \in {"idle", "copy", "push", "push key", "restart", "status"}
    /\ Copying => hook \in {"config", "pebble"}

\* A hook sees the configuration of now, unless another is on its way.
SeesCurrent == step # "idle" /\ "config" \notin due => seen = config

\* A container that came up in between will be ready.
HostPushed == step = "push key" /\ reachable /\ "pebble" \notin due => known = seen.repo

FilesAreCopied ==
    "config" \notin due /\ "pebble" \notin due /\ ~ Copying /\ reachable /\ Complete(config) =>
        FilesOf(config)

ServedIsCurrent ==
    served # Unset => /\ reachable /\ applied = 3
                      /\ ~ ConfigToCome => served = config

\* The status: what the restart of each hook clears, its end sets again.
StatusIsCurrent ==
    ~ ConfigToCome =>
        /\ waiting => ~ Complete(config)
        /\ "leader" \notin due /\ step # "status" /\ leader /\ ~ Complete(config) => waiting

HooksInv == /\ HooksOK /\ SeesCurrent /\ HostPushed /\ FilesAreCopied
            /\ ServedIsCurrent /\ StatusIsCurrent

LEMMA HooksInit == Init => HooksInv
BY DEF Init, HooksInv, HooksOK, Copying, SeesCurrent, HostPushed, FilesAreCopied, ServedIsCurrent,
   StatusIsCurrent, ConfigToCome

LEMMA EnvironmentKeeps ==
    ASSUME HooksInv, Environment
    PROVE  HooksInv'
<1> USE DEF HooksInv, HooksOK, SeesCurrent, HostPushed, FilesAreCopied, FilesOf, ServedIsCurrent,
            StatusIsCurrent, ConfigToCome, Copying, Complete, container, run, tables
<1>1. CASE Configure
  BY <1>1 DEF Configure
<1>2. CASE Integrate
  <2>1. /\ integrated' \in BOOLEAN
        /\ \A h \in {"config", "pebble", "leader"} : h \in due' <=> h \in due
    BY <1>2 DEF Integrate
  <2>2. UNCHANGED <<applied, config, leader, reachable, known, rsa, served, waiting,
                    hook, step, seen>>
    BY <1>2 DEF Integrate
  <2>3. HooksOK' /\ SeesCurrent' /\ HostPushed' /\ FilesAreCopied'
    BY <2>1, <2>2
  <2>4. ServedIsCurrent' /\ StatusIsCurrent'
    BY <2>1, <2>2
  <2> QED
    BY <2>3, <2>4
<1>3. CASE Elected
  <2>1. /\ leader' \in BOOLEAN /\ ~ (leader' /\ "leader" \notin due')
        /\ "config" \in due' <=> "config" \in due
        /\ "pebble" \in due' <=> "pebble" \in due
    BY <1>3 DEF Elected
  <2>2. UNCHANGED <<applied, config, integrated, reachable, known, rsa, served, waiting,
                    hook, step, seen>>
    BY <1>3 DEF Elected
  <2>3. HooksOK' /\ SeesCurrent' /\ HostPushed' /\ FilesAreCopied'
    BY <2>1, <2>2
  <2>4. ServedIsCurrent' /\ StatusIsCurrent'
    BY <2>1, <2>2
  <2> QED
    BY <2>3, <2>4
<1>4. CASE ContainerStarts
  BY <1>4 DEF ContainerStarts, model
<1>5. CASE ContainerEnds
  BY <1>5 DEF ContainerEnds, model
<1> QED
  BY <1>1, <1>2, <1>3, <1>4, <1>5 DEF Environment

LEMMA HookStepKeeps ==
    ASSUME TablesInv, HooksInv, HookStep
    PROVE  HooksInv'
<1> USE DEF HooksInv, HooksOK, SeesCurrent, HostPushed, FilesAreCopied, FilesOf, ServedIsCurrent,
            StatusIsCurrent, ConfigToCome, Copying, Complete, container, model, GoesTo
<1>1. ASSUME NEW h \in Hooks, HookBegins(h)
      PROVE  HooksInv'
  BY <1>1 DEF HookBegins, Hooks, tables
<1>2. CASE NothingToCopy
  BY <1>2 DEF NothingToCopy, tables
<1>3. CASE Keyscan
  BY <1>3 DEF Keyscan, tables
<1>4. CASE PushKnownHosts
  BY <1>4 DEF PushKnownHosts, tables
<1>5. CASE PushKey
  BY <1>5 DEF PushKey, tables
<1>6. CASE CopyFails
  BY <1>6 DEF CopyFails, Errs, HookEnds, tables
<1>7. CASE Migrates
  <2>1. applied # 3
    BY <1>7 DEF Migrates, Migrate, CreateTables, Forwards, AddAccessLevel
  <2> QED
    BY <1>7, <2>1 DEF Migrates, run
<1>8. CASE Starts
  BY <1>8 DEF Starts, tables
<1>9. CASE DoesNotStart
  <2>1. served' # Unset => served' = served /\ FALSE
    BY <1>9 DEF DoesNotStart, MigrationFails
  <2> QED
    BY <1>9, <2>1 DEF DoesNotStart, tables
<1>10. CASE CollectsAppStatus
  BY <1>10 DEF CollectsAppStatus, HookEnds, tables
<1> QED
  BY <1>1, <1>2, <1>3, <1>4, <1>5, <1>6, <1>7, <1>8, <1>9, <1>10 DEF HookStep

LEMMA HooksNext ==
    ASSUME TablesInv, ActionOK, HooksInv, [Next]_vars
    PROVE  HooksInv'
<1>1. CASE ActionStep \/ UNCHANGED vars
  <2>1. UNCHANGED <<applied, model, container, waiting, due, run>>
    BY <1>1, CommandKeeps DEF ActionStep, ActionBegins, ActionFails, Command, vars, tables
  <2>2. HooksOK' /\ SeesCurrent' /\ HostPushed' /\ FilesAreCopied'
    BY <2>1 DEF HooksInv, HooksOK, SeesCurrent, HostPushed, FilesAreCopied, FilesOf, Copying,
       Complete, container, model, run
  <2>3. ServedIsCurrent' /\ StatusIsCurrent'
    BY <2>1 DEF HooksInv, ServedIsCurrent, StatusIsCurrent, ConfigToCome, Copying, Complete,
       container, model, run
  <2> QED
    BY <2>2, <2>3 DEF HooksInv
<1> QED
  BY <1>1, EnvironmentKeeps, HookStepKeeps DEF Next

(***************************************************************************)
(* Theorems                                                                *)
(***************************************************************************)
Inv == TablesInv /\ ActionOK /\ HooksInv

LEMMA InvInit == Init => Inv
<1>1. Init => ActionOK
  BY DEF Init, NoAction, ActionOK
<1> QED
  BY <1>1, TablesInit, HooksInit DEF Inv

LEMMA InvNext == Inv /\ [Next]_vars => Inv'
BY TablesNext, ActionNext, HooksNext DEF Inv

\* A migration, and a command that meets a number in use, fail for no other reason than what
\* the old tables held, or what allow-domains did before the migrations were over.
THEOREM OnlyKnownFailures == Spec => []FailuresHaveACause
<1>1. Inv => FailuresHaveACause
  <2> SUFFICES ASSUME TablesInv, MigrationFails, nextDomain = 1
               PROVE  Faulty(before)
    BY DEF Inv, TablesInv, RowsOK, FailuresHaveACause, MigrationsFailOnData
  <2>1. applied = 2 /\ ~ Constrainable
    BY DEF TablesInv, OldOK, CopiedOK, MigrationFails, Copyable, Range
  <2>2. CASE ~ IsInjective(perms)
    BY <2>1, <2>2 DEF TablesInv, CopiedOK, IsInjective, Faulty
  <2>3. CASE ~ IsInjective([i \in DOMAIN domains |-> Bare[domains[i]]])
    <3>1. DOMAIN domains # {}
      BY <2>3 DEF IsInjective
    <3>2. before # NoTables /\ domains = before.domains
      BY <2>1, <3>1 DEF TablesInv, CopiedOK
    <3> QED
      BY <2>3, <3>2 DEF Faulty
  <2> QED
    BY <2>1, <2>2, <2>3 DEF Constrainable
<1> QED
  BY <1>1, InvInit, InvNext, PTL DEF Spec

\* When no hook is due, the service has the files of the configuration it was started with.
THEOREM FilesAreOfTheConfig == Spec => []ServiceHasItsFiles
<1>1. Inv => ServiceHasItsFiles
  BY DEF Inv, HooksInv, FilesAreCopied, FilesOf, ServedIsCurrent, ConfigToCome, Copying,
     ServiceHasItsFiles, Quiet
<1> QED
  BY <1>1, InvInit, InvNext, PTL DEF Spec

\* When no hook is due, a unit that says that it waits for an option does, and a leader that
\* does says so.
THEOREM StatusTellsOfTheConfig == Spec => []WaitingTellsOfTheConfig
<1>1. Inv => WaitingTellsOfTheConfig
  BY DEF Inv, HooksInv, StatusIsCurrent, ConfigToCome, Copying, WaitingTellsOfTheConfig, Quiet
<1> QED
  BY <1>1, InvInit, InvNext, PTL DEF Spec

\* No migration loses a permission, or makes one, whatever the old tables held and whichever
\* commands run in between.
THEOREM GrantsAreKept == Spec => MigrationsKeepGrants
<1>1. Inv /\ [Next]_vars => [applied' # applied => Grants' = Grants]_tables
  BY TablesNext DEF Inv
<1> QED
  BY <1>1, InvInit, InvNext, PTL DEF Spec, MigrationsKeepGrants

\* An action that completes has done what it was asked to, whatever state the database and the
\* container are in.
THEOREM ActionsDoWhatTheySay == Spec => CompletedActionIsDone
<1>1. ASSUME Inv, [Next]_vars
      PROVE  [action.state = "runs" /\ action'.state = "completed" =>
                 CASE action.verb = "create" -> action.user \in accounts'
                   [] action.verb = "allow" -> <<action.user, action.fqdn>> \in Grants'
                   [] action.verb = "revoke" -> <<action.user, action.fqdn>> \in Grants \ Grants'
                   [] action.verb = "list" -> old = NoTables]_vars
  <2> SUFFICES ASSUME Next, action.state = "runs", action'.state = "completed"
               PROVE  CASE action.verb = "create" -> action.user \in accounts'
                        [] action.verb = "allow" -> <<action.user, action.fqdn>> \in Grants'
                        [] action.verb = "revoke" ->
                               <<action.user, action.fqdn>> \in Grants \ Grants'
                        [] action.verb = "list" -> old = NoTables
    BY <1>1
  <2>1. action.user \in Users /\ action.fqdn \in Fqdns
    BY <1>1 DEF Inv, ActionOK
  <2>2. \A success \in BOOLEAN : ActionEnds(success) => success
    BY DEF ActionEnds, NoAction
  <2>3. Command /\ UNCHANGED <<applied, old, before>>
    <3>1. ~ (HookStep \/ Environment) /\ ~ ActionBegins
      BY DEF HookStep, Environment, run, Configure, Integrate, Elected, ContainerStarts,
         ContainerEnds, HookBegins, NothingToCopy, Keyscan, PushKnownHosts, PushKey, CopyFails,
         Errs, Migrates, Starts, DoesNotStart, CollectsAppStatus, ActionBegins
    <3>2. ~ ActionFails
      BY <2>2 DEF ActionFails
    <3> QED
      BY <3>1, <3>2 DEF Next, ActionStep, Command
  <2>4. CASE CreateUser
    <3>1. action.verb = "create" /\ action.user \in accounts'
      BY <2>2, <2>4 DEF CreateUser
    <3> QED
      BY <3>1
  <2>5. CASE AllowDomains
    <3>1. action.verb = "allow" /\ <<action.user, action.fqdn>> \in Grants'
      BY <1>1, <2>1, <2>2, <2>3, <2>5, AllowsGrants DEF Inv, AllowDomains, Allows
    <3> QED
      BY <3>1
  <2>6. CASE RevokeDomains
    <3>1. action.verb = "revoke" /\ <<action.user, action.fqdn>> \in Grants \ Grants'
      BY <1>1, <2>2, <2>3, <2>6, RevokeRevokes DEF Inv, RevokeDomains
    <3> QED
      BY <3>1
  <2>7. CASE ListDomains
    <3>1. action.verb = "list" /\ ActionEnds(applied = 3 /\ action.user \in accounts)
      BY <2>7 DEF ListDomains
    <3>2. applied = 3
      BY <2>2, <3>1
    <3>3. old = NoTables
      BY <1>1, <3>2 DEF Inv, TablesInv, OldOK
    <3> QED
      BY <3>1, <3>3
  <2> QED
    BY <2>3, <2>4, <2>5, <2>6, <2>7 DEF Command
<1> QED
  BY <1>1, InvInit, InvNext, PTL DEF Spec, CompletedActionIsDone

=============================================================================

------------------------------ MODULE AskedNames ------------------------------
(***************************************************************************)
(* A name is posted, and there is a permission it is held against.         *)
(***************************************************************************)
EXTENDS Names

CONSTANTS
    PostedTexts,   \* the names that are posted
    Domains        \* the domains that permissions are on

ASSUME AskedAssumption == /\ PostedTexts \subseteq Seq(Labels)
                          /\ Domains \subseteq Seq(Labels)
                          /\ \A domain \in Domains : IsDomain(domain)

VARIABLES posted, domain, level

asked == <<posted, domain, level>>

AskedInit ==
    /\ posted \in PostedTexts
    /\ domain \in Domains
    /\ level \in Levels

AskedSpec == AskedInit /\ [][UNCHANGED asked]_asked

-----------------------------------------------------------------------------
\* The place of a record spells the name that was asked for, a permission leads to the zone
\* of its domain only, and is of one level (dns.py:46-60, views.py:47-58).
NamesArePlaced ==
    /\ RecordNamesTheRequest(posted)
    /\ GrantStaysInItsZone(domain, level, posted)
    /\ LevelsAreDisjoint(domain, posted)

=============================================================================

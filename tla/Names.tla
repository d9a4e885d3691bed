-------------------------------- MODULE Names --------------------------------
(***************************************************************************)
(* The names the API handles, and the place a name has in the zone files.  *)
(*                                                                         *)
(* A name is the sequence of the labels its text has between dots: the     *)
(* text "a.example.com." is <<a, example, com, Empty>>.  The text of a     *)
(* label is of no interest, only which kind of label it is.                *)
(***************************************************************************)
EXTENDS Integers, Sequences

CONSTANTS
    Acme,         \* the label "_acme-challenge"
    Empty,        \* the label with no text, next to a leading, trailing or double dot
    HostLabels    \* the labels of letters, digits and inner hyphens

ASSUME LabelsAssumption == /\ Acme \notin HostLabels
                           /\ Empty \notin HostLabels
                           /\ Acme # Empty

Labels == HostLabels \cup {Acme, Empty}

(***************************************************************************)
(* What the forms make of the posted text: trailing dots are stripped, and *)
(* what is left must be Acme followed by a name of two host labels or more.*)
(* The limits on the length of a name and of a label are left out.         *)
(***************************************************************************)
StripDots(posted) ==
    LET last == CHOOSE n \in 0..Len(posted) :
                    /\ \A i \in (n + 1)..Len(posted) : posted[i] = Empty
                    /\ n > 0 => posted[n] # Empty
    IN  SubSeq(posted, 1, last)

IsFqdn(name) ==
    /\ Len(name) >= 2
    /\ \A i \in 1..Len(name) : name[i] \in HostLabels

IsFqdnCompliant(name) ==
    /\ Len(name) >= 1
    /\ Head(name) = Acme
    /\ IsFqdn(Tail(name))

\* The names a handler goes on with, once the form is valid.
AcceptedNames == {name \in Seq(Labels) : IsFqdnCompliant(name)}

(***************************************************************************)
(* Where the record of a name is kept: the file of a zone is named after   *)
(* the last two labels, and the owner field of the line is the rest.       *)
(***************************************************************************)
Apex == <<Empty, Empty>>    \* the text ".", for a name with no other labels

ZoneOf(name) ==
    IF Len(name) > 2 THEN SubSeq(name, Len(name) - 1, Len(name)) ELSE name

\* A faulty variant: splitted_record[0] in place of splitted_record[:-2].
OwnerOfFirstLabel(name) == IF Len(name) > 2 THEN <<Head(name)>> ELSE Apex

OwnerOf(name) ==
    IF Len(name) > 2 THEN SubSeq(name, 1, Len(name) - 2) ELSE Apex

(***************************************************************************)
(* Which names a permission admits.  The domain of a permission is a name  *)
(* of two host labels or more; its level says whether the domain itself is *)
(* meant or whatever lies beneath it.                                      *)
(***************************************************************************)
Levels == {"domain", "subdomain"}

IsDomain(domain) == IsFqdn(domain)

Beneath(name, domain) ==
    /\ Len(name) > Len(domain)
    /\ SubSeq(name, Len(name) - Len(domain) + 1, Len(name)) = domain

WithoutPrefix(name) == IF Head(name) = Acme THEN Tail(name) ELSE name

Admits(domain, level, name) ==
    \/ level = "domain" /\ WithoutPrefix(name) = domain
    \/ level = "subdomain" /\ Beneath(WithoutPrefix(name), domain)

(***************************************************************************)
(* PROPERTIES                                                              *)
(***************************************************************************)

\* The line written for an accepted name is the one a validator looks up: its
\* owner, followed by the zone of the file it stands in, is the name itself
\* (dns.py:46-60).  So two names never share a line.
RecordNamesTheRequest(posted) ==
    LET name == StripDots(posted)
    IN  IsFqdnCompliant(name) => OwnerOf(name) \o ZoneOf(name) = name

\* A permission on a domain only ever leads to the zone file that the domain
\* itself belongs to, whatever name beneath it is asked for (views.py:47-58).
GrantStaysInItsZone(domain, level, posted) ==
    LET name == StripDots(posted)
    IN  IsFqdnCompliant(name) /\ Admits(domain, level, name)
            => ZoneOf(name) = ZoneOf(domain)

\* The two levels on one domain are disjoint: what "subdomain" admits never is
\* the domain itself, which "domain" admits (manage-domains.md:11-12).
LevelsAreDisjoint(domain, posted) ==
    LET name == StripDots(posted)
    IN  IsFqdnCompliant(name)
            => ~ (Admits(domain, "domain", name) /\ Admits(domain, "subdomain", name))

=============================================================================

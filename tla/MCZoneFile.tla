------------------------------ MODULE MCZoneFile ------------------------------
(***************************************************************************)
(* Every file of up to MaxLines lines, and every edit of it, followed by   *)
(* any number of further edits; and every posted text of up to MaxLabels   *)
(* labels, with every permission.                                          *)
(***************************************************************************)
EXTENDS ZoneEdits, AskedNames, TLC

CONSTANTS o1, o2, v1, v2, MaxLines, AlwaysTerminated, x, y, z, MaxLabels

vars == <<asked, file>>

MCOwners == {o1, o2}
MCNewValues == {v1, v2}
MCWords == {o1, o2, v1, v2}

Texts(items, sizes) == UNION {[1..n -> items] : n \in sizes}

FileLines == {Line(o, <<v>>, TRUE) : o \in {o1, o2, NoOwner}, v \in {v1, v2}}
Endings == IF AlwaysTerminated THEN {TRUE} ELSE BOOLEAN

\* A file of which the last line may lack its newline.
Unended(text, ended) ==
    IF text = << >> THEN text ELSE [text EXCEPT ![Len(text)].ended = ended]

MCFiles == {Unended(text, ended) : text \in Texts(FileLines, 0..MaxLines), ended \in Endings}

MCHostLabels == {x, y, z}
MCPostedTexts == Texts({x, y, z, Acme, Empty}, 1..MaxLabels)
MCDomains == Texts({x, y}, 2..3)

\* Of what is not looked at, any value.
Init ==
    \/ /\ EditsInit
       /\ posted = << >> /\ domain = <<x, y>> /\ level = "domain"
    \/ /\ AskedInit
       /\ before = << >> /\ owner = o1 /\ value = NoValue /\ content = << >>

Next ==
    \/ posted = << >> /\ EditsNext /\ UNCHANGED asked
    \/ posted # << >> /\ UNCHANGED vars

Spec == Init /\ [][Next]_vars

=============================================================================

------------------------------- MODULE ZoneFile -------------------------------
(***************************************************************************)
(* The text of one zone file and the edit that dns.py makes to it.         *)
(*                                                                         *)
(* A file is a sequence of lines.  Of a line the model keeps the first     *)
(* word (NoOwner for a comment or a blank line), the texts that follow it, *)
(* and whether a newline ends it.  Only the last line of a file may lack   *)
(* one: that is what Joined makes sure of, as reading the file again would.*)
(***************************************************************************)
EXTENDS Integers, Sequences

CONSTANTS
    Words,       \* what a line is made of: owners, values, other text
    NoOwner,     \* the first word of a line that owns nothing
    NoValue      \* None, the value of an update that only removes

ASSUME WordsAssumption == NoOwner \notin Words /\ NoValue \notin Words

Lines == [owner : Words \cup {NoOwner}, text : Seq(Words), ended : BOOLEAN]

Line(owner, text, ended) == [owner |-> owner, text |-> text, ended |-> ended]

Record(owner, value) == Line(owner, <<value>>, TRUE)

LineMatches(line, owner) == line.owner # NoOwner /\ line.owner = owner

(***************************************************************************)
(* The loop that copies every line but those of the owner.  KeptUpTo[i] is *)
(* new_content after the loop has seen i lines.                            *)
(***************************************************************************)
\* A faulty variant: the loop ends at the first line of the owner.
KeptUntilFirst(content, owner) ==
    [i \in 0..Len(content) |->
        LET before == {k \in 0..i : \A j \in 1..k : ~ LineMatches(content[j], owner)}
        IN  SubSeq(content, 1, CHOOSE k \in before : \A j \in before : j =< k)]

KeptUpTo(content, owner) ==
    LET kept[i \in 0..Len(content)] ==
            IF i = 0 THEN << >>
            ELSE IF LineMatches(content[i], owner) THEN kept[i - 1]
            ELSE Append(kept[i - 1], content[i])
    IN  kept

RemoveEntries(content, owner) == KeptUpTo(content, owner)[Len(content)]

(***************************************************************************)
(* The record is appended to the text, and so to the last line when that   *)
(* line has no newline.                                                    *)
(***************************************************************************)
EndsWithNewline(content) == content = << >> \/ content[Len(content)].ended

\* A faulty variant: the record is put before the other lines.
JoinedInFront(content, line) == <<line>> \o content

Joined(content, line) ==
    IF EndsWithNewline(content)
    THEN Append(content, line)
    ELSE [content EXCEPT ![Len(content)] =
              Line(@.owner, @.text \o <<line.owner>> \o line.text, line.ended)]

\* Faulty variants: the old records stay, or a removal writes the text "None".
WriteBesideOld(content, owner, value) ==
    IF value = NoValue THEN RemoveEntries(content, owner)
    ELSE Joined(content, Record(owner, value))

WriteAnyValue(content, owner, value) ==
    Joined(RemoveEntries(content, owner), Record(owner, value))

WriteRecordFile(content, owner, value) ==
    LET others == RemoveEntries(content, owner)
    IN  IF value = NoValue THEN others ELSE Joined(others, Record(owner, value))

(***************************************************************************)
(* What a resolver reads in the file: the texts of the lines of an owner.  *)
(***************************************************************************)
TextsOf(content, owner) ==
    {content[i].text : i \in {j \in 1..Len(content) : LineMatches(content[j], owner)}}

Requested(value) == IF value = NoValue THEN {} ELSE {<<value>>}

\* Every line of the file ends with a newline, as a file in git should.
Terminated(content) == \A i \in 1..Len(content) : content[i].ended

(***************************************************************************)
(* PROPERTIES                                                              *)
(***************************************************************************)

\* "Write a DNS record." (dns.py:163): once the file is written, the owner has
\* the value asked for and no other one, whatever the file held before.
EditIsExact(before, after, owner, value) == TextsOf(after, owner) = Requested(value)

\* The lines of all other owners and the comments come through the edit of a
\* terminated file as they were and in the order they were in, none is added, and
\* the edited file is terminated again (dns.py:89-95).
OtherLines(content, owner) == {i \in 1..Len(content) : ~ LineMatches(content[i], owner)}

EditKeepsOthers(before, after, owner) ==
    Terminated(before) =>
        /\ \E place \in [OtherLines(before, owner) -> OtherLines(after, owner)] :
               /\ \A i \in DOMAIN place : after[place[i]] = before[i]
               /\ \A i, j \in DOMAIN place : i < j => place[i] < place[j]
               /\ \A k \in OtherLines(after, owner) : \E i \in DOMAIN place : place[i] = k
        /\ Terminated(after)

\* git finds nothing to commit exactly when the file already ends with the one
\* record of the owner, or when there is none and none is wanted (dns.py:154):
\* setting a record again to its value fails or not with the place of its line.
NoOpIsDetected(before, after, owner, value) ==
    Terminated(before) =>
        (before = after <=>
            IF value = NoValue
            THEN \A i \in 1..Len(before) : before[i].owner # owner
            ELSE /\ before # << >>
                 /\ before[Len(before)] = Record(owner, value)
                 /\ \A i \in 1..(Len(before) - 1) : before[i].owner # owner)

=============================================================================

------------------------------ MODULE ZoneEdits ------------------------------
(***************************************************************************)
(* The edits one zone file goes through.  write_dns_record reads the file, *)
(* replaces what its owner had and writes the file back, where the next    *)
(* call finds it.                                                          *)
(***************************************************************************)
EXTENDS ZoneFile

CONSTANTS
    Owners,      \* the owners that records are written for
    NewValues,   \* the values they are given
    Files        \* the files a cloned repository may hold

ASSUME EditsAssumption == /\ Owners \subseteq Words
                          /\ NewValues \subseteq Words
                          /\ Files \subseteq Seq(Lines)

VARIABLES
    before,     \* the file as it was read
    content,    \* the file as it was written
    owner, value

file == <<before, content, owner, value>>

EditsInit ==
    /\ before \in Files
    /\ owner \in Owners
    /\ value \in NewValues \cup {NoValue}
    /\ content = WriteRecordFile(before, owner, value)

WriteDnsRecord(o, v) ==
    /\ owner' = o
    /\ value' = v
    /\ before' = content
    /\ content' = WriteRecordFile(content, o, v)

EditsNext == \E o \in Owners, v \in NewValues \cup {NoValue} : WriteDnsRecord(o, v)

EditsSpec == EditsInit /\ [][EditsNext]_file

-----------------------------------------------------------------------------
\* Once a file is written its owner has the value asked for and no other one
\* (dns.py:163), whatever edits came before.
ExactEdit == EditIsExact(before, content, owner, value)

\* The lines of the others come through every edit, in order (dns.py:89-95).
OthersKept == EditKeepsOthers(before, content, owner)

\* An edit that changes nothing leaves git nothing to commit, and only such an
\* edit does (dns.py:154).
Detected == NoOpIsDetected(before, content, owner, value)

=============================================================================

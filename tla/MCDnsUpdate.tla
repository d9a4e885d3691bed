----------------------------- MODULE MCDnsUpdate -----------------------------
EXTENDS DnsUpdate, TLC

CONSTANTS a, b, example, com, net, v1, v2, host, remark, r1, r2, r3

MCHostLabels == {a, b, example, com, net}
ZoneCom == <<example, com>>
ZoneNet == <<example, net>>
NameA == <<Acme, a, example, com>>
NameB == <<Acme, b, example, com>>
NameNet == <<Acme, a, example, net>>

MCWords == {<<Acme, a>>, <<Acme, b>>, <<a>>, v1, v2, host, remark}
MCZones == {ZoneCom, ZoneNet}

\* One zone file, with a comment and a host; the other zone has none.
Host == Line(<<a>>, <<host>>, TRUE)
Remark == Line(NoOwner, <<remark>>, TRUE)
MCInitialTree == ZoneCom :> <<Remark, Host>> @@ ZoneNet :> NoFile
MCHostLines == {Remark}

\* Two values for one name, its removal, another name of the same file, and
\* a name whose file is not there.
Job(fqdn, value) == [fqdn |-> fqdn, value |-> value]
TwoValues == {Job(NameA, v1), Job(NameA, v2), Job(NameA, NoValue), Job(NameB, v1)}
SomeNames == {Job(NameA, v1), Job(NameA, NoValue), Job(NameB, v1), Job(NameNet, v1)}

\* No update is told from another by anything but its job.
AnyOrder == Permutations(Requests)

============================================================================

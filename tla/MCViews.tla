------------------------------- MODULE MCViews -------------------------------
EXTENDS Views, TLC

CONSTANTS u1, c1, r1, bad, host, ex, com, v0, v1

Order(verb, domains, subdomains) ==
    [verb |-> verb, user |-> u1, domains |-> domains, subdomains |-> subdomains]
Call(verb, posted, value) ==
    [verb |-> verb, user |-> u1, posted |-> posted, value |-> value]

\* A domain with its own zone file and one beneath it.
Zone == <<ex, com>>
Beside == <<host, ex, com>>
MCDomains == {Zone, Beside}

\* A name that only "domain" on Beside and "subdomain" on Zone admit, the name
\* for the zone itself, and forms that are not valid.
MCCalls == {
    Call("present", <<Acme, host, ex, com, Empty>>, v1),
    Call("cleanup", <<Acme, host, ex, com>>, v1),
    Call("present", <<Acme, ex, com>>, v1),
    Call("present", <<host, ex, com>>, v1),
    Call("cleanup", <<Acme, host, ex, com>>, Blank)}

MCOrders == {
    Order("allow", <<Beside>>, <<Zone>>),
    Order("revoke", <<Beside>>, <<Zone>>)}

\* The domains there are, and the one that an order or an administrator makes.
MCRows == 1..2
MCInitialDomains == <<Zone>>
MCInitialPerms == {Perm(u1, 1, "subdomain")}
=============================================================================

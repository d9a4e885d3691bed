---------------------------- MODULE MCPermissions ----------------------------
EXTENDS Permissions, TLC

CONSTANTS u1, u2, d1, d2, bad, c1, c2

Order(verb, user, domains, subdomains) ==
    [verb |-> verb, user |-> user, domains |-> domains, subdomains |-> subdomains]

\* A new domain at both levels, the same domain twice, a bad name among good
\* ones, another user, and what is granted already.
MCOrders == {
    Order("allow", u1, <<d1>>, <<d1>>),
    Order("allow", u1, <<d1, d1>>, << >>),
    Order("allow", u2, <<bad, d1>>, << >>),
    Order("revoke", u1, <<d1>>, << >>),
    Order("allow", u1, << >>, <<d2>>),
    Order("revoke", u2, << >>, << >>),
    Order("revoke", u1, << >>, <<d2, d1>>),
    Order("revoke", u1, <<d1>>, <<d2>>)}

\* With an administrator at work as well: one user, and no name twice.
RestOrders == {
    Order("allow", u1, <<d1>>, <<d1>>),
    Order("allow", u1, << >>, <<d2>>),
    Order("revoke", u1, <<d1>>, <<d2>>)}

MCRows == 1..3
MCInitialDomains == <<d2>>
MCInitialPerms == {Perm(u1, 1, "subdomain")}

Bounded == /\ \A c \in Commands : order[c] \in RestOrders \cup {NoOrder}
           /\ u2 \in users /\ \A p \in perms : p.user = u1

MCNext == PermissionsNext /\ (calm \/ Bounded')

MCSpec ==
    /\ PermissionsInit
    /\ [][MCNext]_permissionsVars
    /\ \A c \in Commands : WF_<<dbVars, commandVars>>(Command(c))

=============================================================================

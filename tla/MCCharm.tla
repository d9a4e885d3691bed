------------------------------- MODULE MCCharm -------------------------------
EXTENDS Charm, TLC

CONSTANTS u, pa, a, r1, r2, k1, k2

MCIds == 1..2
MCBare == (pa :> a) @@ (a :> a)

\* Unused; as they should be; with a permission twice; with a name in both forms.
MCOldTables == {
    [domains |-> NoRows, perms |-> NoRows],
    [domains |-> <<pa>>, perms |-> <<Row(u, 1)>>],
    [domains |-> <<pa>>, perms |-> <<Row(u, 1), Row(u, 1)>>],
    [domains |-> <<pa, a>>, perms |-> <<Row(u, 2)>>]}

MCConfigs == {[repo |-> r1, key |-> k1], [repo |-> r2, key |-> k2], [repo |-> r1, key |-> Unset]}

\* A new deployment is configured and reconfigured, and no action is run on it;
\* an upgrade has one configuration and a leader throughout.
Within ==
    IF before = NoTables THEN action.state # "runs" /\ action.state # "runs failed"
                         ELSE leader /\ config = [repo |-> r1, key |-> k1]
MCInit == Init /\ Within
MCNext == Next /\ Within'
MCSpec == MCInit /\ [][MCNext]_vars /\ Fairness
=============================================================================

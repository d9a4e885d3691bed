--------------------------------- MODULE S3 ---------------------------------
(***************************************************************************)
(* charm/lib/charms/data_platform_libs/v0/s3.py: the requirer asks for a   *)
(* bucket, the provider answers with credentials, option by option.        *)
(*                                                                         *)
(* The provider notes in its own databag, under "data", what it has seen   *)
(* of the requirer's, so that any leader knows what was asked already.     *)
(***************************************************************************)
EXTENDS JujuRelation

S3RequiredOptions == {"access-key", "secret-key"}

\* The keys that are new in a databag.
S3Added(seen, bag) == DOMAIN bag \ DOMAIN seen

S3Seen == IF Has(app["provider"], {"data"}) THEN app["provider"]["data"] ELSE NoData

\* Only a leader writes; what is not named stays.
S3UpdateIfLeader(s, data) == IF leader[s] THEN Updated(app[s], data) ELSE app[s]

S3BucketRequested == Tells("provider", "credentials_requested")

\* What was seen is noted before the charm is told of the request.
S3ProviderHook(hook) ==
    /\ interface = "s3"
    /\ IF hook \in {"app", "unit"} /\ leader["provider"]
       THEN /\ Runs("provider", hook, Updated(app["provider"], Entry("data", app["requirer"])),
                    unit["provider"])
            /\ IF "bucket" \in S3Added(S3Seen, app["requirer"])
               THEN S3BucketRequested
               ELSE Silent
       ELSE RunsOnly("provider", hook) /\ Silent

S3UpdateConnectionInfo(data) == Publishes("provider", S3UpdateIfLeader("provider", data))

S3SetOption(option, value) == S3UpdateConnectionInfo(Entry(option, value))

\* The charm of the provider, asked or not, sets an option of the connection.
S3SetConnectionInfo ==
    /\ interface = "s3"
    /\ \E option \in S3RequiredOptions, value \in Values : S3SetOption(option, value)

\* The bucket has the name of the application, or of the relation.
S3Joined ==
    /\ Runs("requirer", "joined", S3UpdateIfLeader("requirer", [bucket |-> "bucket"]),
            unit["requirer"])
    /\ Silent

S3CredentialsChanged == Tells("requirer", "credentials_changed")

S3Changed(hook) ==
    /\ RunsOnly("requirer", hook)
    /\ IF Has(app["provider"], S3RequiredOptions) THEN S3CredentialsChanged ELSE Silent

S3Broken == RunsOnly("requirer", "broken") /\ TellsGone("requirer", "credentials_gone")

S3RequirerHook(hook) ==
    /\ interface = "s3"
    /\ \/ hook = "joined" /\ S3Joined
       \/ hook \in {"app", "unit"} /\ S3Changed(hook)
       \/ hook = "broken" /\ S3Broken
       \/ /\ hook \in {"created", "departed", "elected"}
          /\ RunsOnly("requirer", hook)
          /\ Silent

\* The connection info, once the required options are there.
S3ConnectionInfo(reading) ==
    IF reading = Nothing \/ ~ Has(reading.app, S3RequiredOptions) THEN Nothing
    ELSE Without(reading.app, {"data"})

S3Hook(s, hook) == IF s = "requirer" THEN S3RequirerHook(hook) ELSE S3ProviderHook(hook)

=============================================================================

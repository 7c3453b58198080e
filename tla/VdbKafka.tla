------------------------------- MODULE VdbKafka -------------------------------
(***************************************************************************)
(* The commands of grn vdb kafka.                                          *)
(***************************************************************************)
EXTENDS CommandShapes

-------------------------------------------------------------------------------
(* grn vdb kafka catalog *)
CatalogLists       == Reading(ReadOnly)
CatalogFlavors     == Reading(ReadOnly)
CatalogSuggestions == Reading(Suggestions)

-------------------------------------------------------------------------------
(* grn vdb kafka cluster *)
ClusterCreate               == Creating(FromFlags)
ClusterDelete               == Deleting(Showing)
ClusterResizes ==
    Acting(<<"check", "client", "look", "derive", "dryRun", "confirm", "send">>)
ClusterUpdateAuthentication == Resending(Fields, Updating(FromRead))
ClusterUpdates              == Acting(FromFlags)
ClusterSecruleCreate        == Creating(FromFlags)
ClusterSecruleDelete        == Deleting(FromFlags)
ClusterReads                == Reading(ReadOnly)
ClusterSuggestions          == Reading(Suggestions)

-------------------------------------------------------------------------------
(* grn vdb kafka configuration *)
ConfigurationCreate        == Creating(Unprompted)
ConfigurationCreateVersion == Creating(FromRead)
ConfigurationDelete        == Deleting(FromFlags)
ConfigurationReads         == Reading(ReadOnly)
ConfigurationSuggestions   == Reading(Suggestions)

-------------------------------------------------------------------------------
(* grn vdb kafka topic *)
TopicCreate      == Creating(Unprompted)

(* Mutant: a setting no flag names is sent as the default of its flag. *)
TopicUpdateFlagsOnly == [Updating(FromRead) EXCEPT !.emptied = Fields]

TopicUpdate == Resending(Fields, Updating(FromRead))

TopicDelete      == Deleting(FromFlags)
TopicReads       == Reading(ReadOnly)
TopicSuggestions == Reading(Suggestions)

-------------------------------------------------------------------------------
(* grn vdb kafka user *)
UserCreate        == Creating(Unprompted)
UserUpdate        == Resending(Fields, Updating(FromRead))
UserDelete        == Deleting(FromFlags)
UserGenerateCreds == Acting(FromFlags)
UserReads         == Reading(ReadOnly)
UserGetCreds      == Reading(<<"check", "client", "read", "save">>)
UserSuggestions   == Reading(Suggestions)

-------------------------------------------------------------------------------
All ==
    {CatalogLists, CatalogFlavors, CatalogSuggestions, ClusterCreate, ClusterDelete,
     ClusterResizes, ClusterUpdateAuthentication, ClusterUpdates, ClusterSecruleCreate,
     ClusterSecruleDelete, ClusterReads, ClusterSuggestions, ConfigurationCreate,
     ConfigurationCreateVersion, ConfigurationDelete, ConfigurationReads,
     ConfigurationSuggestions, TopicCreate, TopicUpdate, TopicDelete, TopicReads,
     TopicSuggestions, UserCreate, UserUpdate, UserDelete, UserGenerateCreds, UserReads,
     UserGetCreds, UserSuggestions}
===============================================================================

---------------------------- MODULE VdbPostgresql -----------------------------
(***************************************************************************)
(* The commands of grn vdb postgresql.                                     *)
(***************************************************************************)
EXTENDS CommandShapes

-------------------------------------------------------------------------------
(* grn vdb postgresql backup *)
BackupCreate        == Creating(FromFlags)
BackupGet           == Reading(ReadOnly)
BackupList          == Reading(ReadOnly)
BackupRestorePoints == Reading(ReadOnly)

-------------------------------------------------------------------------------
(* grn vdb postgresql catalog *)
CatalogLists        == Reading(ReadOnly)
CatalogConfigGroups == Reading(ReadOnly)
CatalogSuggestions  == Reading(Suggestions)

-------------------------------------------------------------------------------
(* grn vdb postgresql cluster *)
ClusterCreate            == Creating(FromFlags)
ClusterDelete            == Deleting(Showing)
ClusterReboot            == Acting(FromFlags)
ClusterResize            == Acting(FromFlags)
ClusterUpdateConfigGroup == Acting(FromFlags)
ClusterUpdateSecrule ==
    {Resending(Fields, Updating(Fetching)), Replacing(Updating(Fetching))}
ClusterUpdateSettings    == Updating(FromFlags)
ClusterGet               == Reading(ReadOnly)
ClusterVolumeUsed        == Reading(ReadOnly)
ClusterList              == Reading(ReadOnly)
ClusterHistories         == Reading(ReadOnly)
ClusterSecrules          == Reading(ReadOnly)
ClusterSuggestions       == Reading(Suggestions)

-------------------------------------------------------------------------------
All ==
    {BackupCreate, BackupGet, BackupList, BackupRestorePoints, CatalogLists,
     CatalogConfigGroups, CatalogSuggestions, ClusterCreate, ClusterDelete,
     ClusterReboot, ClusterResize, ClusterUpdateConfigGroup, ClusterUpdateSettings,
     ClusterGet, ClusterVolumeUsed, ClusterList, ClusterHistories, ClusterSecrules,
     ClusterSuggestions}
    \cup ClusterUpdateSecrule
===============================================================================

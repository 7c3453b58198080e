---------------------------- MODULE VdbRelational -----------------------------
(***************************************************************************)
(* The commands of grn vdb relational.                                     *)
(***************************************************************************)
EXTENDS CommandShapes

-------------------------------------------------------------------------------
(* grn vdb relational backup *)
BackupCreate      == Creating(FromFlags)
BackupDelete      == Deleting(Showing)
BackupRestore     == Creating(FromRead)
BackupGet         == Reading(ReadOnly)
BackupFreeStorage == Reading(ReadOnly)
BackupList        == Reading(ReadOnly)
BackupSuggestions == Reading(Suggestions)

-------------------------------------------------------------------------------
(* grn vdb relational backup-storage *)
StorageCreate      == Creating(FromFlags)
StorageResize      == Acting(FromFlags)
StorageDelete      == Deleting(Showing)
StorageReads       == Reading(ReadOnly)
StorageSuggestions == Reading(Suggestions)

-------------------------------------------------------------------------------
(* grn vdb relational catalog *)
CatalogLists        == Reading(ReadOnly)
CatalogFlavors      == Reading(ReadOnly)
CatalogConfigGroups == Reading(ReadOnly)
CatalogSuggestions  == Reading(Suggestions)

-------------------------------------------------------------------------------
(* grn vdb relational configuration *)
ConfigurationCreate == Creating(Previewed)
ConfigurationUpdate == {Resending(Fields, Updating(FromRead)), Replacing(Updating(FromRead))}
ConfigurationDelete == Deleting(FromFlags)
ConfigurationReads  == Reading(ReadOnly)

-------------------------------------------------------------------------------
(* grn vdb relational instance *)
InstanceCreate            == Creating(FromFlags)
InstanceCreateReplica     == Creating(FromRead)
InstanceDelete            == Deleting(Showing)
InstanceDetachReplica     == Acting(FromFlags)
InstanceActions           == {Acting(Previewed), Acting(FromFlags)}
InstanceResize            == Acting(FromFlags)
InstanceResizeStorage     == Resending(Fields, Updating(FromRead))
InstanceUpdateSecrule ==
    {Resending(Fields, Updating(FromRead)), Replacing(Updating(FromRead))}
InstanceUpdateConfigGroup == Deferred(Acting(WarnedFlags))
InstanceUpdateSettings    == Deferred(Resending({"other"}, Updating(WarnedRead)))
InstanceGet               == Reading(ReadOnly)
InstanceList              == Reading(ReadOnly)
InstanceHistories         == Reading(ReadOnly)
InstanceReplicas          == Reading(ReadOnly)
InstanceSecrules          == Reading(ReadOnly)
InstanceSuggestions       == Reading(Suggestions)

-------------------------------------------------------------------------------
All ==
    {BackupCreate, BackupDelete, BackupRestore, BackupGet, BackupFreeStorage, BackupList,
     BackupSuggestions, StorageCreate, StorageResize, StorageDelete, StorageReads,
     StorageSuggestions, CatalogLists, CatalogFlavors, CatalogConfigGroups,
     CatalogSuggestions, ConfigurationCreate, ConfigurationDelete, ConfigurationReads,
     InstanceCreate, InstanceCreateReplica, InstanceDelete, InstanceDetachReplica,
     InstanceResize, InstanceResizeStorage, InstanceUpdateConfigGroup,
     InstanceUpdateSettings, InstanceGet, InstanceList, InstanceHistories,
     InstanceReplicas, InstanceSecrules, InstanceSuggestions}
    \cup ConfigurationUpdate
    \cup InstanceActions
    \cup InstanceUpdateSecrule
===============================================================================

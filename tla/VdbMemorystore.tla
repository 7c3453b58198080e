---------------------------- MODULE VdbMemorystore ----------------------------
(***************************************************************************)
(* The commands of grn vdb memorystore.                                    *)
(***************************************************************************)
EXTENDS CommandShapes

-------------------------------------------------------------------------------
(* grn vdb memorystore backup *)
BackupCreate  == Creating(FromFlags)
BackupDelete  == Deleting(Showing)
BackupRestore == Creating(FromRead)
BackupReads   == Reading(ReadOnly)

-------------------------------------------------------------------------------
(* grn vdb memorystore backup-storage *)
StorageCreate      == Creating(FromFlags)
StorageResize      == Acting(FromFlags)
StorageDelete      == Deleting(Showing)
StorageReads       == Reading(ReadOnly)
StorageSuggestions == Reading(Suggestions)

-------------------------------------------------------------------------------
(* grn vdb memorystore catalog *)
CatalogLists       == Reading(ReadOnly)
CatalogFlavors     == Reading(ReadOnly)
CatalogSuggestions == Reading(Suggestions)

-------------------------------------------------------------------------------
(* grn vdb memorystore configuration *)
ConfigurationCreate == Creating(Previewed)
ConfigurationUpdate == {Resending(Fields, Updating(FromRead)), Replacing(Updating(FromRead))}
ConfigurationDelete == Deleting(FromFlags)
ConfigurationReads  == Reading(ReadOnly)
ConfigurationParams == Reading(ReadOnly)

-------------------------------------------------------------------------------
(* grn vdb memorystore instance *)
InstanceCreate            == Creating(FromFlags)
InstanceCreateReplica     == Creating(FromRead)
InstanceDelete            == Deleting(Showing)
InstanceDetachReplica     == Acting(FromFlags)
InstanceResize            == Acting(FromFlags)
InstanceActions           == {Acting(Previewed), Acting(FromFlags)}
InstanceUpdateSecrule ==
    {Resending(Fields, Updating(FromRead)), Replacing(Updating(FromRead))}
InstanceUpdateSettings    == Deferred(Resending({"other"}, Updating(WarnedRead)))

(* Mutant: the status is not looked at. *)
ConfigGroupUnwarned == Deferred(Acting(FromFlags))

InstanceUpdateConfigGroup == Deferred(Acting(WarnedFlags))

InstanceReads             == Reading(ReadOnly)
InstanceSecrules          == Reading(ReadOnly)
InstanceSuggestions       == Reading(Suggestions)

-------------------------------------------------------------------------------
All ==
    {BackupCreate, BackupDelete, BackupRestore, BackupReads, StorageCreate,
     StorageResize, StorageDelete, StorageReads, StorageSuggestions, CatalogLists,
     CatalogFlavors, CatalogSuggestions, ConfigurationCreate, ConfigurationDelete,
     ConfigurationReads, ConfigurationParams, InstanceCreate, InstanceCreateReplica,
     InstanceDelete, InstanceDetachReplica, InstanceResize, InstanceUpdateSettings,
     InstanceUpdateConfigGroup, InstanceReads, InstanceSecrules, InstanceSuggestions}
    \cup ConfigurationUpdate
    \cup InstanceActions
    \cup InstanceUpdateSecrule
===============================================================================

---------------------------- MODULE VksCommands ------------------------------
(***************************************************************************)
(* The commands of grn vks, but for delete-cluster and the waiters         *)
(* (module ResourceWaits) and update-kubeconfig (module Kubeconfig).       *)
(***************************************************************************)
EXTENDS CommandShapes

-------------------------------------------------------------------------------
(* clusters *)
CreateCluster           == Creating(CheckedDry)
UpdateCluster           == Updating(Previewed)
SetAutoUpgradeConfig    == Updating(Previewed)
DeleteAutoUpgradeConfig == Deleting(FromFlags)

(* Mutant: the dry run ends before the flags are checked. *)
AutoHealingPreviewedFirst == Updating(<<"dryRun", "check", "client", "send">>)

ConfigAutoHealing == Updating(Previewed)

GenerateKubeconfig      == Acting(Previewed)
GetCluster              == Reading(ReadOnly)
GetClusterEvents        == Reading(ReadOnly)
GetQuota                == Reading(ReadOnly)
ListClusters            == Reading(ReadOnly)
ListClusterVersions     == Reading(ReadOnly)

-------------------------------------------------------------------------------
(* node groups *)
CreateNodegroup         == Creating(CheckedDry)
UpdateNodegroup         == Updating(Previewed)
UpdateNodegroupMetadata == Updating(Previewed)
UpgradeNodegroupVersion == Acting(Previewed)
DeleteNodegroup         == Deleting(Fetching)
GetNodegroup            == Reading(ReadOnly)
ListNodegroups          == Reading(ReadOnly)
ListNodes               == Reading(ReadOnly)

-------------------------------------------------------------------------------
(* shell completion *)
Suggest == Reading(Suggestions)

-------------------------------------------------------------------------------
All ==
    {CreateCluster, UpdateCluster, SetAutoUpgradeConfig, DeleteAutoUpgradeConfig,
     ConfigAutoHealing, GenerateKubeconfig, GetCluster, GetClusterEvents, GetQuota,
     ListClusters, ListClusterVersions, CreateNodegroup, UpdateNodegroup,
     UpdateNodegroupMetadata, UpgradeNodegroupVersion, DeleteNodegroup, GetNodegroup,
     ListNodegroups, ListNodes, Suggest}
===============================================================================

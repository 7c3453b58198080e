--------------------------- MODULE VserverCommands ----------------------------
(***************************************************************************)
(* The commands of grn vserver.  Most ask for consent only to delete, to   *)
(* stop and to reboot, and preview only what they ask about.               *)
(***************************************************************************)
EXTENDS CommandShapes

-------------------------------------------------------------------------------
(* grn vserver dhcp *)
DhcpAssociateVpc == Acting(Unprompted)
DhcpCreate       == Creating(Unprompted)
DhcpDelete       == Deleting(Asking)
DhcpGet          == Reading(ReadOnly)
DhcpList         == Reading(ReadOnly)
DhcpListVpcs     == Reading(ReadOnly)

-------------------------------------------------------------------------------
(* flavor, image, volume-type *)
FlavorList         == Reading(ReadOnly)
FlavorListCodes    == {Reading(ReadOnly), Reading(Suggestions)}
FlavorListFamilies == {Reading(ReadOnly), Reading(Suggestions)}
ImageList          == Reading(ReadOnly)
VolumeTypeList     == Reading(ReadOnly)

-------------------------------------------------------------------------------
(* grn vserver floating-ip *)
FloatingIPDelete == Deleting(Asking)
FloatingIPList   == Reading(ReadOnly)

-------------------------------------------------------------------------------
(* grn vserver network-interface *)
InterfaceCreate     == Creating(Unprompted)
InterfaceUpdate     == Acting(Unprompted)
InterfaceUpdateTags == Replacing(Updating(Unprompted))
InterfaceDelete     == Deleting(Asking)
InterfaceList       == Reading(ReadOnly)

-------------------------------------------------------------------------------
(* grn vserver placement-group *)
PlacementCreate       == Creating(<<"check", "client", "look", "derive", "send">>)
PlacementUpdate       == Updating(Unprompted)
PlacementDelete       == Deleting(Asking)
PlacementList         == Reading(ReadOnly)
PlacementListPolicies == Reading(ReadOnly)

-------------------------------------------------------------------------------
(* secgroup, secgroup rule *)
SecgroupCreate == Creating(Unprompted)
SecgroupDelete == Deleting(FromRead)
SecgroupGet    == Reading(ReadOnly)
SecgroupList   == Reading(ReadOnly)
RuleCreate     == Creating(Unprompted)
RuleDelete     == Deleting(Asking)
RuleGet        == Reading(ReadOnly)
RuleList       == Reading(ReadOnly)

-------------------------------------------------------------------------------
(* grn vserver server *)
ServerCreate         == Creating(CheckedTwice)
ServerCreateImage    == Creating(Unprompted)
ServerFloatingIP     == Acting(Unprompted)
ServerAttachInternal == Acting(Unprompted)
ServerDetachInternal == Detaching(Unprompted)
ServerAttachExternal == Acting(Unprompted)
ServerDetachExternal == Detaching(Unprompted)
ServerDelete         == Deleting(FromRead)
ServerReboot         == Acting(Asking)
ServerStop           == Acting(Asking)
ServerStart          == Acting(Unprompted)
ServerResize         == Acting(<<"check", "client", "check", "send">>)
ServerUpdateSecgroup == Replacing(Updating(Unprompted))
ServerGet            == Reading(ReadOnly)
ServerList           == Reading(ReadOnly)
ServerListInterfaces == Reading(ReadOnly)
ServerTagKeys        == Reading(ReadOnly)
ServerTagValues      == Reading(ReadOnly)

-------------------------------------------------------------------------------
(* ssh-key, user-image *)
SshKeyCreate        == Creating(<<"check", "client", "send", "trySave">>)
SshKeyImport        == Creating(Unprompted)
SshKeyDelete        == Deleting(Asking)
SshKeyList          == Reading(ReadOnly)
UserImageUpdateTags == Replacing(Updating(Unprompted))
UserImageDelete     == Deleting(Asking)
UserImageList       == Reading(ReadOnly)

-------------------------------------------------------------------------------
(* vpc, subnet *)
VpcCreate    == Creating(CheckedDry)
VpcDelete    == Deleting(FromRead)
VpcGet       == Reading(ReadOnly)
VpcList      == Reading(ReadOnly)
SubnetCreate == Creating(Unprompted)
SubnetDelete == Deleting(FromRead)
SubnetGet    == Reading(ReadOnly)
SubnetList   == Reading(ReadOnly)

-------------------------------------------------------------------------------
(* grn vserver volume *)
VolumeCreate == Creating(CheckedTwice)
VolumeResize ==
    Resending({"other"}, Updating(<<"check", "dryCheck", "dryRun", "client", "read", "derive", "send">>))

(* Mutant: the prompt is forgotten. *)
VolumeDeleteUnasked == Deleting(<<"check", "client", "read", "derive", "dryRun", "send">>)

VolumeDelete == Deleting(FromRead)

VolumeGet    == Reading(ReadOnly)
VolumeList   == Reading(ReadOnly)

-------------------------------------------------------------------------------
(* shell completion *)
Suggest == Reading(Suggestions)

-------------------------------------------------------------------------------
All ==
    {DhcpAssociateVpc, DhcpCreate, DhcpDelete, DhcpGet, DhcpList, DhcpListVpcs,
     FlavorList, ImageList, VolumeTypeList, FloatingIPDelete, FloatingIPList,
     InterfaceCreate, InterfaceUpdate, InterfaceUpdateTags, InterfaceDelete,
     InterfaceList, PlacementCreate, PlacementUpdate, PlacementDelete, PlacementList,
     PlacementListPolicies, SecgroupCreate, SecgroupDelete, SecgroupGet, SecgroupList,
     RuleCreate, RuleDelete, RuleGet, RuleList, ServerCreate, ServerCreateImage,
     ServerFloatingIP, ServerAttachInternal, ServerDetachInternal, ServerAttachExternal,
     ServerDetachExternal, ServerDelete, ServerReboot, ServerStop, ServerStart,
     ServerResize, ServerUpdateSecgroup, ServerGet, ServerList, ServerListInterfaces,
     ServerTagKeys, ServerTagValues, SshKeyCreate, SshKeyImport, SshKeyDelete,
     SshKeyList, UserImageUpdateTags, UserImageDelete, UserImageList, VpcCreate,
     VpcDelete, VpcGet, VpcList, SubnetCreate, SubnetDelete, SubnetGet, SubnetList,
     VolumeCreate, VolumeResize, VolumeDelete, VolumeGet, VolumeList, Suggest}
    \cup FlavorListCodes
    \cup FlavorListFamilies
===============================================================================

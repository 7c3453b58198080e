-------------------------- MODULE AgentbaseCommands ---------------------------
(***************************************************************************)
(* The commands of grn agentbase, but for deploy (AgentDeploy), the login  *)
(* commands and agent-id use (CredentialSessions), runtime update          *)
(* (RuntimeUpdate) and the waiters (ResourceWaits).  None of them goes     *)
(* through internal/client, and only the deletion of a tool asks.          *)
(***************************************************************************)
EXTENDS CommandShapes

-------------------------------------------------------------------------------
(* grn agentbase memory *)
MemoryCreate        == Creating(SendingOnce)
MemoryReads         == Reading(ReadOnly)
MemoryDelete        == Deleting(SendingOnce)
MemorySearch        == Reading(ReadOnly)
MemoryActivityReads == Reading(ReadOnly)
MemoryEventCreate   == Creating(SendingOnce)
MemoryEventDelete   == Deleting(SendingOnce)
MemoryRecordReads   == Reading(ReadOnly)
MemoryRecordDelete  == Deleting(SendingOnce)
MemoryRecordInserts == Creating(SendingOnce)

-------------------------------------------------------------------------------
(* grn agentbase policy *)
PolicyGroupCreate        == Creating(SendingOnce)
PolicyGroupReads         == Reading(ReadOnly)
PolicyGroupUpdate        == Updating(SendingOnce)
PolicyGroupDelete        == Deleting(SendingOnce)
PolicyCreate             == Creating(SendingOnce)
PolicyReads              == Reading(ReadOnly)
PolicyUpdate             == {Updating(SendingOnce), Replacing(Updating(SendingOnce))}
PolicyDelete             == Deleting(SendingOnce)
PolicyConditionOperators == Reading(ReadOnly)
PolicyDecide             == Reading(ReadOnly)

-------------------------------------------------------------------------------
(* grn agentbase container registry *)
RepositoryGet           == Reading(ReadOnly)
ImageList               == Reading(ReadOnly)
ImageDelete             == Deleting(SendingOnce)
ArtifactList            == Reading(ReadOnly)
ArtifactDelete          == Deleting(SendingOnce)
RegistryCredentialGet   == Reading(ReadOnly)
RegistryCredentialReset == Acting(SendingOnce)

-------------------------------------------------------------------------------
(* grn agentbase marketplace *)
CatalogReads    == Reading(ReadOnly)
OpenClawCreate  == Creating(SendingOnce)
OpenClawGet     == Reading(ReadOnly)
OpenClawDelete  == Deleting(SendingOnce)
OpenClawActions == Acting(SendingOnce)

-------------------------------------------------------------------------------
(* access: agent identities *)
WorkloadCreate == Creating(SendingOnce)
WorkloadReads  == Reading(ReadOnly)
WorkloadUpdate == Nulling({"other"}, Updating(SendingOnce))
WorkloadDelete == Deleting(SendingOnce)

-------------------------------------------------------------------------------
(* access: outbound credentials *)
StaticCreate       == Creating(SendingOnce)
StaticReads        == Reading(ReadOnly)
StaticUpdate       == Acting(<<"check", "client", "sendOnce", "readBack">>)
StaticDelete       == Deleting(SendingOnce)
StaticGetKey       == Reading(ReadOnly)
DelegatedCreate    == Creating(SendingOnce)
DelegatedReads     == Reading(ReadOnly)
DelegatedDelete    == Deleting(SendingOnce)
DelegatedGetKey    == Acting(SendingOnce)
Oauth2Create       == Creating(SendingOnce)
Oauth2Reads        == Reading(ReadOnly)
Oauth2Update       == Acting(<<"check", "client", "sendOnce", "readBack">>)
Oauth2Delete       == Deleting(SendingOnce)
Oauth2Tokens       == Acting(SendingOnce)
ManagedOauth2Reads == Reading(ReadOnly)
ManagedOauth2Token == Acting(SendingOnce)

-------------------------------------------------------------------------------
(* tools: browsers *)
BrowserList                 == Reading(ReadOnly)
BrowserCreate               == Creating(SendingOnce)
BrowserGet                  == Reading(ReadOnly)
BrowserDelete               == Deleting(PreviewedOnce)
BrowserSessionList          == Reading(ReadOnly)
BrowserSessionCreate        == Creating(SendingOnce)
BrowserSessionGet           == Reading(ReadOnly)
BrowserSessionDelete        == Deleting(SendingOnce)
BrowserSessionStreams       == Reading(ReadOnly)
BrowserSessionRecording     == Reading(<<"check", "client", "read", "save">>)
BrowserSessionStreamsUpdate == Acting(<<"check", "client", "sendOnce", "readBack">>)

-------------------------------------------------------------------------------
(* tools: code interpreters *)
InterpreterList          == Reading(ReadOnly)
InterpreterCreate        == Creating(SendingOnce)
InterpreterGet           == Reading(ReadOnly)
InterpreterDelete        == Deleting(PreviewedOnce)
InterpreterSessionList   == Reading(ReadOnly)
InterpreterSessionCreate == Creating(SendingOnce)
InterpreterSessionDelete == Deleting(SendingOnce)
InterpreterInvoke        == Acting(SendingOnce)

-------------------------------------------------------------------------------
(* grn agentbase runtime *)
RuntimeCreate              == Creating(SendingOnce)
RuntimeReads               == Reading(ReadOnly)
RuntimeDelete              == Deleting(SendingOnce)
EndpointList               == Reading(ReadOnly)
EndpointCreate             == Creating(SendingOnce)
EndpointUpdate             == Acting(SendingOnce)
EndpointDelete             == Deleting(SendingOnce)
EndpointStartStop          == Acting(SendingOnce)
RuntimeLogReads            == Reading(ReadOnly)
RuntimeResetServiceAccount == Acting(SendingOnce)
RuntimeVersionReads        == Reading(ReadOnly)

-------------------------------------------------------------------------------
(* grn agentbase gateway *)
GatewayCreate         == Creating(SendingOnce)
GatewayReads          == Reading(ReadOnly)
GatewayUpdate         == Updating(SendingOnce)
GatewayDelete         == Deleting(SendingOnce)
GatewayFlavors        == Reading(ReadOnly)
GatewayAccessLogs     == Reading(ReadOnly)
GatewayIdpAppSet      == Acting(SendingOnce)
GatewayIdpAppClear    == Deleting(SendingOnce)
GatewayRoutesGet      == Reading(ReadOnly)
GatewayRoutesSet      == Replacing(Updating(SendingOnce))
GatewayRepair         == Acting(SendingOnce)
GatewayConnectorReads == Reading(ReadOnly)
GatewayTemplates      == Reading(ReadOnly)
GatewayTargetTools    == Reading(ReadOnly)
GatewayTargetSync     == Acting(SendingOnce)

-------------------------------------------------------------------------------
All ==
    {MemoryCreate, MemoryReads, MemoryDelete, MemorySearch, MemoryActivityReads,
     MemoryEventCreate, MemoryEventDelete, MemoryRecordReads, MemoryRecordDelete,
     MemoryRecordInserts, PolicyGroupCreate, PolicyGroupReads, PolicyGroupUpdate,
     PolicyGroupDelete, PolicyCreate, PolicyReads, PolicyDelete,
     PolicyConditionOperators, PolicyDecide, RepositoryGet, ImageList, ImageDelete,
     ArtifactList, ArtifactDelete, RegistryCredentialGet, RegistryCredentialReset,
     CatalogReads, OpenClawCreate, OpenClawGet, OpenClawDelete, OpenClawActions,
     WorkloadCreate, WorkloadReads, WorkloadUpdate, WorkloadDelete, StaticCreate,
     StaticReads, StaticUpdate, StaticDelete, StaticGetKey, DelegatedCreate,
     DelegatedReads, DelegatedDelete, DelegatedGetKey, Oauth2Create, Oauth2Reads,
     Oauth2Update, Oauth2Delete, Oauth2Tokens, ManagedOauth2Reads, ManagedOauth2Token,
     BrowserList, BrowserCreate, BrowserGet, BrowserDelete, BrowserSessionList,
     BrowserSessionCreate, BrowserSessionGet, BrowserSessionDelete,
     BrowserSessionStreams, BrowserSessionRecording, BrowserSessionStreamsUpdate,
     InterpreterList, InterpreterCreate, InterpreterGet, InterpreterDelete,
     InterpreterSessionList, InterpreterSessionCreate, InterpreterSessionDelete,
     InterpreterInvoke, RuntimeCreate, RuntimeReads, RuntimeDelete, EndpointList,
     EndpointCreate, EndpointUpdate, EndpointDelete, EndpointStartStop, RuntimeLogReads,
     RuntimeResetServiceAccount, RuntimeVersionReads, GatewayCreate, GatewayReads,
     GatewayUpdate, GatewayDelete, GatewayFlavors, GatewayAccessLogs, GatewayIdpAppSet,
     GatewayIdpAppClear, GatewayRoutesGet, GatewayRoutesSet, GatewayRepair,
     GatewayConnectorReads, GatewayTemplates, GatewayTargetTools, GatewayTargetSync}
    \cup PolicyUpdate
===============================================================================

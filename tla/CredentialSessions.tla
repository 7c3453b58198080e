-------------------------- MODULE CredentialSessions --------------------------
(***************************************************************************)
(* Invocations of the grn binary that share one credentials file and one   *)
(* IAM.  An invocation is a process that runs one command and exits.       *)
(* Nothing locks the file: every writer loads all of it, edits one section *)
(* in memory and renames a temporary file over it, so the steps of two     *)
(* invocations interleave between a load and a rename.                     *)
(*                                                                         *)
(* Simplifications: access tokens are not values (only that one is needed  *)
(* or has been minted); IAM either keeps the refresh token it is given or  *)
(* rotates it, which kills the old one; LoadConfig reads the file in one   *)
(* step, since a rename never lets a reader see half of one.               *)
(***************************************************************************)
EXTENDS CredentialStore, FiniteSets

CONSTANTS
    Invocations,    \* processes
    Commands,       \* the commands invocations may run, a subset of AllCommands
    ShellSettings,  \* the environments they may run in, sets of ShellVars
    LoginClients,   \* OAuth clients of `grn login`: "baked", or "custom" with --client-id
    FirstToken,     \* the refresh token a profile is logged in with at the start
    Faults,         \* what may go wrong, a subset of AllFaults
    Concurrency,    \* how many invocations run at the same time
    Torn,           \* the content of a file that is not written to its end
    MaxRefreshes    \* forced or expiry refreshes of one invocation (bound)

SessionCommands == {"api", "complete", "create-agent"}
EditCommands    == {"configure", "set-id", "set-secret", "set-env"}
AllCommands     == SessionCommands \cup EditCommands \cup {"login", "logout", "use-agent"}
AllFaults       == {"crash", "save", "reply"}

ASSUME CommandsAssumption    == Commands \subseteq AllCommands
ASSUME FaultsAssumption      == Faults \subseteq AllFaults
ASSUME ShellAssumption       == ShellSettings \subseteq SUBSET ShellVars
ASSUME ClientsAssumption     == LoginClients \subseteq {"baked", "custom"}
ASSUME ConcurrencyAssumption == Concurrency \in Nat /\ MaxRefreshes \in Nat
ASSUME ProfilesAssumption == Profiles # {}
ASSUME FirstTokenAssumption ==
    /\ FirstToken \in [Profiles -> RefreshTokens]
    /\ \A p, q \in Profiles : FirstToken[p] = FirstToken[q] => p = q

VARIABLES
    creds,      \* the credentials file
    issued,     \* IAM: the grant behind each refresh token, None if not issued
    live,       \* IAM: the refresh tokens it still accepts
    pc, command, profile, shell, result,    \* the invocation
    cfg,        \* the *config.Config it holds, its refresh token the provider's p.refreshToken
    reply,      \* the refresh token in IAM's answer, None for a rejection
    refreshes,  \* how many more access tokens it asked for after the first
    edit,       \* the writer call it is making
    out,        \* the edited *ini.File in its memory
    tmp         \* its .cfg-* temporary file

iamVars  == <<issued, live>>
selfVars == <<command, profile, shell>>
vars     == <<creds, issued, live, pc, command, profile, shell, result, cfg, reply,
              refreshes, edit, out, tmp>>

Grant == [owner : Profiles, env : IamEnvs, client : {"baked", "custom"}]
ASSUME NoneIsNoGrant == None \notin Grant
Unissued == {t \in RefreshTokens : issued[t] = None}

Locations == {"idle", "load", "authorise", "reply", "call", "browser",
              "open", "stage", "write", "rename", "exited"}
Results == {"none", "ok", "failed", "relogin", "no answer", "refused", "killed"}

Running(c) == pc[c] \notin {"idle", "exited"}

TypeOK ==
    /\ creds \in Files
    /\ issued \in [RefreshTokens -> Grant \cup {None}]
    /\ live \subseteq RefreshTokens
    /\ pc \in [Invocations -> Locations]
    /\ command \in [Invocations -> AllCommands]
    /\ profile \in [Invocations -> Profiles]
    /\ shell \in [Invocations -> SUBSET ShellVars]
    /\ result \in [Invocations -> Results]
    /\ cfg \in [Invocations -> Section]
    /\ reply \in [Invocations -> RefreshTokens \cup {None}]
    /\ refreshes \in [Invocations -> 0 .. MaxRefreshes]
    /\ edit \in [Invocations -> Edit]
    /\ out \in [Invocations -> Files]
    /\ tmp \in [Invocations -> Files \cup {Torn, None}]

-------------------------------------------------------------------------------
(* A profile that is unknown, logged in, or configured with an access key. *)
StartSections(p) ==
    {EmptySection}
      \cup {WriteLoginToken(EmptySection, FirstToken[p], e) : e \in IamEnvs}
      \cup {WriteCredentials(EmptySection, k, k) : k \in Keys}

Init ==
    /\ creds \in {f \in [Profiles -> UNION {StartSections(p) : p \in Profiles}] :
                     \A p \in Profiles : f[p] \in StartSections(p)}
    /\ issued = [t \in RefreshTokens |->
                    IF \E p \in Profiles : creds[p].rt = t
                      THEN LET p == CHOOSE q \in Profiles : creds[q].rt = t
                           IN  [owner |-> p, env |-> creds[p].env, client |-> "baked"]
                      ELSE None]
    /\ live = {t \in RefreshTokens : issued[t] # None}
    /\ pc = [c \in Invocations |-> "idle"]
    /\ command = [c \in Invocations |-> "logout"]
    /\ profile = [c \in Invocations |-> CHOOSE p \in Profiles : TRUE]
    /\ shell = [c \in Invocations |-> {}]
    /\ result = [c \in Invocations |-> "none"]
    /\ cfg = [c \in Invocations |-> EmptySection]
    /\ reply = [c \in Invocations |-> None]
    /\ refreshes = [c \in Invocations |-> 0]
    /\ edit = [c \in Invocations |-> ClearEdit]
    /\ out = [c \in Invocations |-> [p \in Profiles |-> EmptySection]]
    /\ tmp = [c \in Invocations |-> None]

-------------------------------------------------------------------------------
Goto(c, l) == pc' = [pc EXCEPT ![c] = l] /\ UNCHANGED result
Exit(c, r) == pc' = [pc EXCEPT ![c] = "exited"] /\ result' = [result EXCEPT ![c] = r]

(* The user runs command k on profile p in an environment with variables s. *)
Start(c, k, p, s) ==
    /\ pc[c] = "idle"
    /\ Cardinality({d \in Invocations : Running(d)}) < Concurrency
    /\ command' = [command EXCEPT ![c] = k]
    /\ profile' = [profile EXCEPT ![c] = p]
    /\ shell' = [shell EXCEPT ![c] = s]
    /\ \/ k \in SessionCommands \cup EditCommands /\ Goto(c, "load") /\ UNCHANGED edit
       \/ k = "login" /\ Goto(c, "browser") /\ UNCHANGED edit
       \/ k = "logout" /\ Goto(c, "open") /\ edit' = [edit EXCEPT ![c] = ClearEdit]
       \/ /\ k = "use-agent"
          /\ Goto(c, "open")
          /\ \E a \in Agents \cup {None} : edit' = [edit EXCEPT ![c] = AgentEdit(a)]
    /\ UNCHANGED <<creds, iamVars, cfg, reply, refreshes, out, tmp>>

(* LoadConfig and NewTokenProvider: the profile's auth_mode picks the      *)
(* token provider, and a profile that lacks its inputs ends the command.   *)
OpenSession(c) ==
    /\ pc[c] = "load" /\ command[c] \in SessionCommands
    /\ LET view == LoadConfig(creds[profile[c]], shell[c])
           usable == IF view.mode = "user" THEN view.rt # None /\ view.env # None
                                           ELSE view.id # None /\ view.secret # None
       IN  /\ cfg' = [cfg EXCEPT ![c] = view]
           /\ IF usable THEN Goto(c, "authorise") ELSE Exit(c, "failed")
    /\ UNCHANGED <<creds, iamVars, selfVars, reply, refreshes, edit, out, tmp>>

(* MachineTokenProvider.mint: a client_credentials grant, nothing persisted. *)
MintMachineToken(c) ==
    /\ pc[c] = "authorise" /\ cfg[c].mode # "user"
    /\ Goto(c, "call") \/ Exit(c, "failed")
    /\ UNCHANGED <<creds, iamVars, selfVars, cfg, reply, refreshes, edit, out, tmp>>

(* IAM serves the refresh grant: it knows the token, the environment the   *)
(* URL names and the baked-in client, and may issue a successor.           *)
IamRefresh(c) ==
    /\ pc[c] = "authorise" /\ cfg[c].mode = "user"
    /\ Goto(c, "reply")
    /\ LET t == cfg[c].rt
           accepted == /\ t \in live
                       /\ issued[t].env = cfg[c].env
                       /\ issued[t].client = "baked"
       IN  \/ /\ ~accepted
              /\ reply' = [reply EXCEPT ![c] = None]
              /\ UNCHANGED iamVars
           \/ /\ accepted
              /\ reply' = [reply EXCEPT ![c] = t]
              /\ UNCHANGED iamVars
           \/ /\ accepted
              /\ \E n \in Unissued :
                    /\ issued' = [issued EXCEPT ![n] = issued[t]]
                    /\ live' = (live \ {t}) \cup {n}
                    /\ reply' = [reply EXCEPT ![c] = n]
    /\ UNCHANGED <<creds, selfVars, cfg, refreshes, edit, out, tmp>>

(* Mutant: a rotated token is used but not persisted. *)
ReceiveReplyUnsaved(c) ==
    /\ pc[c] = "reply"
    /\ IF reply[c] = None THEN Exit(c, "relogin") ELSE Goto(c, "call")
    /\ UNCHANGED <<creds, iamVars, selfVars, cfg, reply, refreshes, edit, out, tmp>>

(* LoginTokenProvider.refresh takes IAM's answer: a rejection is final, a  *)
(* rotated token is persisted before anything else.                        *)
ReceiveReply(c) ==
    /\ pc[c] = "reply"
    /\ \/ reply[c] = None /\ Exit(c, "relogin") /\ UNCHANGED edit
       \/ reply[c] # None /\ reply[c] = cfg[c].rt /\ Goto(c, "call") /\ UNCHANGED edit
       \/ /\ reply[c] # None /\ reply[c] # cfg[c].rt
          /\ edit' = [edit EXCEPT ![c] = LoginEdit(reply[c], cfg[c].env)]
          /\ Goto(c, "open")
    /\ UNCHANGED <<creds, iamVars, selfVars, cfg, reply, refreshes, out, tmp>>

(* The answer is lost, or is not a token body: the same guidance, and the  *)
(* token IAM may have rotated to is gone.                                  *)
LoseReply(c) ==
    /\ "reply" \in Faults
    /\ pc[c] = "reply"
    /\ Exit(c, "no answer")
    /\ UNCHANGED <<creds, iamVars, selfVars, cfg, reply, refreshes, edit, out, tmp>>

(* A 401, or an access token within 60 s of its expiry: ask IAM again.     *)
RefreshAgain(c) ==
    /\ pc[c] = "call" /\ refreshes[c] < MaxRefreshes
    /\ refreshes' = [refreshes EXCEPT ![c] = @ + 1]
    /\ Goto(c, "authorise")
    /\ UNCHANGED <<creds, iamVars, selfVars, cfg, reply, edit, out, tmp>>

FinishSession(c) ==
    /\ pc[c] = "call"
    /\ \/ command[c] # "create-agent" /\ Exit(c, "ok") /\ UNCHANGED edit
       \/ Exit(c, "failed") /\ UNCHANGED edit
       \/ /\ command[c] = "create-agent"
          /\ \E a \in Agents : edit' = [edit EXCEPT ![c] = AgentEdit(a)]
          /\ Goto(c, "open")
    /\ UNCHANGED <<creds, iamVars, selfVars, cfg, reply, refreshes, out, tmp>>

(* runLogin: the browser flow fails, yields no refresh token, or yields    *)
(* one that is persisted with the environment it was issued in.            *)
Login(c) ==
    /\ pc[c] = "browser"
    /\ \/ Exit(c, "failed") /\ UNCHANGED <<iamVars, edit>>
       \/ Exit(c, "ok") /\ UNCHANGED <<iamVars, edit>>
       \/ \E n \in Unissued, e \in IamEnvs, cl \in LoginClients :
             /\ issued' = [issued EXCEPT ![n] = [owner |-> profile[c], env |-> e, client |-> cl]]
             /\ live' = live \cup {n}
             /\ edit' = [edit EXCEPT ![c] = LoginEdit(n, e)]
             /\ Goto(c, "open")
    /\ UNCHANGED <<creds, selfVars, cfg, reply, refreshes, out, tmp>>

(* Mutant: runSet does not look at the auth mode. *)
MayRepointAlways(view) == TRUE

(* iam_env is bound to the login token of a user profile. *)
MayRepoint(view) == view.mode # "user"

(* runConfigure and runSet decide on an edit from the config they loaded;  *)
(* a key the user does not enter keeps the loaded value.                   *)
DecideEdit(c) ==
    /\ pc[c] = "load" /\ command[c] \in EditCommands
    /\ LET view == LoadConfig(creds[profile[c]], shell[c])
           Write(e) == edit' = [edit EXCEPT ![c] = e] /\ Goto(c, "open")
       IN  /\ cfg' = [cfg EXCEPT ![c] = view]
           /\ \/ /\ command[c] = "configure"
                 /\ \E id \in Keys \cup {view.id}, secret \in Keys \cup {view.secret} :
                       Write(CredentialsEdit(id, secret))
              \/ /\ command[c] = "set-id"
                 /\ \E k \in Keys : Write(CredentialsEdit(k, view.secret))
              \/ /\ command[c] = "set-secret"
                 /\ \E k \in Keys : Write(CredentialsEdit(view.id, k))
              \/ /\ command[c] = "set-env" /\ MayRepoint(view)
                 /\ \E e \in IamEnvs : Write(EnvEdit(e))
              \/ /\ command[c] = "set-env" /\ ~MayRepoint(view)
                 /\ Exit(c, "refused")
                 /\ UNCHANGED edit
    /\ UNCHANGED <<creds, iamVars, selfVars, reply, refreshes, out, tmp>>

-------------------------------------------------------------------------------
(* Mutant: an edit starts from an empty file instead of the one on disk. *)
OpenEmptyFile(c) ==
    /\ pc[c] = "open"
    /\ out' = [out EXCEPT ![c] = Apply([p \in Profiles |-> EmptySection], profile[c], edit[c])]
    /\ Goto(c, "stage")
    /\ UNCHANGED <<creds, iamVars, selfVars, cfg, reply, refreshes, edit, tmp>>

(* ConfigFileWriter: loadOrCreate and the edit in memory, then save.  A    *)
(* logout ends here when the profile has no section; an EmptySection may   *)
(* be one that is there without keys, which is written back.               *)
OpenFile(c) ==
    /\ pc[c] = "open"
    /\ \/ /\ edit[c].kind = "clear" /\ creds[profile[c]] = EmptySection
          /\ Exit(c, "ok")
          /\ UNCHANGED out
       \/ /\ out' = [out EXCEPT ![c] = Apply(creds, profile[c], edit[c])]
          /\ Goto(c, "stage")
    /\ UNCHANGED <<creds, iamVars, selfVars, cfg, reply, refreshes, edit, tmp>>

CreateTemp(c) ==
    /\ pc[c] = "stage"
    /\ tmp' = [tmp EXCEPT ![c] = Torn]
    /\ Goto(c, "write")
    /\ UNCHANGED <<creds, iamVars, selfVars, cfg, reply, refreshes, edit, out>>

WriteTemp(c) ==
    /\ pc[c] = "write"
    /\ tmp' = [tmp EXCEPT ![c] = out[c]]
    /\ Goto(c, "rename")
    /\ UNCHANGED <<creds, iamVars, selfVars, cfg, reply, refreshes, edit, out>>

(* A rotation write is a detour of a session: the provider adopts the new  *)
(* refresh token whether or not it could be persisted.                     *)
Rotating(c) == command[c] \in SessionCommands /\ edit[c].kind = "login"

AfterSave(c, r) ==
    IF Rotating(c) THEN Goto(c, "call") /\ cfg' = [cfg EXCEPT ![c].rt = edit[c].arg.rt]
                   ELSE Exit(c, r) /\ UNCHANGED cfg

(* Mutant: the temporary file is renamed before it is written to its end. *)
RenameUnwritten(c) ==
    /\ pc[c] \in {"write", "rename"}
    /\ creds' = tmp[c]
    /\ tmp' = [tmp EXCEPT ![c] = None]
    /\ AfterSave(c, "ok")
    /\ UNCHANGED <<iamVars, selfVars, reply, refreshes, edit, out>>

Rename(c) ==
    /\ pc[c] = "rename"
    /\ creds' = tmp[c]
    /\ tmp' = [tmp EXCEPT ![c] = None]
    /\ AfterSave(c, "ok")
    /\ UNCHANGED <<iamVars, selfVars, reply, refreshes, edit, out>>

(* Mutant: a failed save returns without removing its temporary file. *)
SaveFailsDirty(c) ==
    /\ "save" \in Faults
    /\ pc[c] \in {"stage", "write", "rename"}
    /\ AfterSave(c, IF command[c] = "create-agent" THEN "ok" ELSE "failed")
    /\ UNCHANGED <<creds, iamVars, selfVars, reply, refreshes, edit, out, tmp>>

(* save fails and removes its temporary file.  Creating an agent still     *)
(* succeeds, with a warning; a command whose edit this was does not.       *)
SaveFails(c) ==
    /\ "save" \in Faults
    /\ pc[c] \in {"stage", "write", "rename"}
    /\ tmp' = [tmp EXCEPT ![c] = None]
    /\ AfterSave(c, IF command[c] = "create-agent" THEN "ok" ELSE "failed")
    /\ UNCHANGED <<creds, iamVars, selfVars, reply, refreshes, edit, out>>

(* The process dies, or FlagFromAPI gives up after two seconds and the     *)
(* completion process exits under the goroutine that is still fetching.    *)
Killed(c) ==
    /\ Running(c)
    /\ "crash" \in Faults \/ command[c] = "complete"
    /\ Exit(c, "killed")
    /\ UNCHANGED <<creds, iamVars, selfVars, cfg, reply, refreshes, edit, out, tmp>>

Terminating ==
    /\ \A c \in Invocations : pc[c] = "exited"
    /\ UNCHANGED vars

Step(c) ==
    \/ OpenSession(c) \/ MintMachineToken(c) \/ IamRefresh(c) \/ ReceiveReply(c)
    \/ RefreshAgain(c) \/ FinishSession(c) \/ Login(c) \/ DecideEdit(c)
    \/ OpenFile(c) \/ CreateTemp(c) \/ WriteTemp(c) \/ Rename(c)

Next ==
    \/ \E c \in Invocations :
          \/ \E k \in Commands, p \in Profiles, s \in ShellSettings : Start(c, k, p, s)
          \/ Step(c)
          \/ LoseReply(c) \/ SaveFails(c) \/ Killed(c)
    \/ Terminating

Spec == Init /\ [][Next]_vars

-------------------------------------------------------------------------------
(* Whatever interleaves with whatever, and whatever is killed: a section   *)
(* is in user mode exactly when it holds a refresh token, and then it      *)
(* names the environment the token is for.  NewTokenProvider's "auth_mode= *)
(* user but has no login token" cannot be reached through the commands.    *)
SectionWhole(s) ==
    /\ s.mode = "user" <=> s.rt # None
    /\ s.rt # None => s.env # None

LoginKeysTogether == \A p \in Profiles : SectionWhole(creds[p])

(* A refresh token never ends up in, and is never presented for, a profile *)
(* it was not issued to, although every writer rewrites every section from *)
(* a copy that may be stale.                                               *)
OwnTokens(f) == \A p \in Profiles : f[p].rt # None =>
                    issued[f[p].rt] # None /\ issued[f[p].rt].owner = p

TokensStayInTheirProfile ==
    /\ OwnTokens(creds)
    /\ \A c \in Invocations :
          pc[c] \in {"authorise", "reply"} /\ cfg[c].mode = "user" =>
              issued[cfg[c].rt] # None /\ issued[cfg[c].rt].owner = profile[c]

(* A key only ever changes in a profile that some invocation was started   *)
(* on with a command that writes this key: logging in or out, rotating and *)
(* selecting an agent leave client_id and client_secret intact, and the    *)
(* other profiles' sections survive stale rewrites.                        *)
RanOn(p, K) == \E c \in Invocations : pc[c] # "idle" /\ profile[c] = p /\ command[c] \in K

CredentialWriters == {"configure", "set-id", "set-secret"}
AgentWriters      == {"use-agent", "create-agent"}
LoginWriters      == SessionCommands \cup CredentialWriters \cup {"login", "logout"}
EnvWriters        == SessionCommands \cup {"login", "logout", "set-env"}

SameKeys(p, s, t) ==
    /\ RanOn(p, CredentialWriters) \/ (s.id = t.id /\ s.secret = t.secret)
    /\ RanOn(p, AgentWriters) \/ s.agent = t.agent
    /\ RanOn(p, LoginWriters) \/ (s.rt = t.rt /\ s.mode = t.mode)
    /\ RanOn(p, EnvWriters) \/ s.env = t.env

KeysHaveTheirWriters == [][\A p \in Profiles : SameKeys(p, creds[p], creds'[p])]_vars

(* save removes its temporary file, which holds secrets, on every path but *)
(* the death of the process.                                               *)
NoTempFileLeft ==
    \A c \in Invocations : pc[c] = "exited" /\ result[c] # "killed" => tmp[c] = None

(* Between invocations the stored refresh token is one IAM still accepts:  *)
(* a rotated token has been persisted, so later invocations keep working.  *)
(* Nothing is promised after an invocation that died or did not hear what  *)
(* IAM rotated to; StoredTokenLiveAlways also covers these.                *)
Quiescent == \A c \in Invocations : ~Running(c)

StoredTokens == {creds[p].rt : p \in Profiles} \ {None}

Undisturbed == \A c \in Invocations : result[c] \notin {"killed", "no answer"}

StoredTokenLiveAlways == Quiescent => StoredTokens \subseteq live

StoredTokenLive == Undisturbed => StoredTokenLiveAlways

(* The refresh grant goes to the environment that issued the stored token. *)
StoredTokenEnv == \A p \in Profiles : creds[p].rt # None => issued[creds[p].rt].env = creds[p].env

(* What an invocation leaves behind serves the next one: a token that IAM  *)
(* accepts, at the place it was issued.                                    *)
StoredTokenUsable == StoredTokenLive /\ StoredTokenEnv

(* The refresh grant presents the client the stored token was issued to.   *)
StoredTokenClient == \A t \in StoredTokens : issued[t].client = "baked"

(* The file implements the atomic store.                                   *)
Store  == INSTANCE AtomicCredentials WITH store <- creds
Atomic == Store!AtomicSpec

(* A profile that was logged out stays logged out until someone logs in.   *)
LogoutForgets ==
    \A p \in Profiles :
        /\ Quiescent
        /\ \E c \in Invocations : command[c] = "logout" /\ profile[c] = p /\ result[c] = "ok"
        /\ ~RanOn(p, {"login"})
        => creds[p].rt = None
===============================================================================

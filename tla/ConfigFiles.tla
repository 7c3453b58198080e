------------------------------ MODULE ConfigFiles ------------------------------
(***************************************************************************)
(* The two files of a profile, credentials and config, in ~/.greennode and *)
(* in the legacy directory ~/.greenode: what LoadConfig reads, and the     *)
(* commands that load a profile and write it back (configure, configure    *)
(* set, the region prompt of login).  CredentialSessions has the content   *)
(* of a credentials section; here it is the client id and secret, one      *)
(* value, and whether a login is active.                                   *)
(*                                                                         *)
(* A write loads the whole file, edits one section of the copy and renames *)
(* the copy over the file, here two steps.                                 *)
(***************************************************************************)
EXTENDS FiniteSets, Naturals

CONSTANTS
    Profiles,
    Invocations,
    Concurrency,    \* how many run at once
    Commands,       \* a subset of AllCommands
    Legacy,         \* whether an installation may start in the legacy directory
    ShellVars,      \* which of GRN_DEFAULT_REGION, GRN_DEFAULT_PROJECT_ID may be set
    Crashes,        \* whether an invocation may be killed, and a save fail
    None,           \* an INI key that is not set
    Missing         \* a section that is not there

Settings    == {"region", "output", "project"}
AllCommands == {"configure", "login", "set key", "set region", "set output", "set project"}

ASSUME CommandsAssumption == Commands \subseteq AllCommands
ASSUME ShellAssumption    == ShellVars \subseteq {"region", "project"}
ASSUME FlagsAssumption    == Legacy \in BOOLEAN /\ Crashes \in BOOLEAN /\ Concurrency \in Nat \ {0}

(* What a user types or the API detects; "typo" is no region. *)
Typed   == [region |-> {"HCM-3", "typo"}, output |-> {"json", "table"}, project |-> {"p1"}]
OfShell == [region |-> "HAN", project |-> "p2"]
REGIONS == {"HCM-3", "HAN"}
Keys    == {"k1", "k2"}

Section     == [region : {"HCM-3", "HAN", "typo", None}, output : {"json", "table", None},
                project : {"p1", "p2", None}]
NoSettings  == [k \in Settings |-> None]
Credentials == [key : Keys \cup {None}, login : BOOLEAN]
NoCredential == [key |-> None, login |-> FALSE]
Dirs        == {"new", "legacy"}

ASSUME MissingAssumption == Missing \notin Credentials \cup Section

VARIABLES
    newDir,         \* ~/.greennode exists
    credentials,    \* the credentials file of each directory
    config,         \* the config file of each directory
    pc,
    job,            \* what each invocation runs, and the values it has to write
    copy            \* the file it has loaded to write back

files == <<newDir, credentials, config>>
configVars  == <<files, pc, job, copy>>

CredentialsFile == [Profiles -> Credentials \cup {Missing}]
ConfigFile      == [Profiles -> Section \cup {Missing}]
NoFile          == [p \in Profiles |-> Missing]
Running         == {"load", "credentials", "save credentials", "prompt", "config", "save config"}
Job             == [cmd : Commands, profile : Profiles, key : Keys \cup {None}, set : Section,
                    shell : SUBSET ShellVars]

ConfigTypeOK ==
    /\ newDir \in BOOLEAN
    /\ credentials \in [Dirs -> CredentialsFile]
    /\ config \in [Dirs -> ConfigFile]
    /\ pc \in [Invocations -> Running \cup {"idle", "done", "failed"}]
    /\ \A i \in Invocations :
        /\ pc[i] \in Running => job[i] \in Job
        /\ pc[i] \notin Running => job[i] = None
        /\ pc[i] = "save credentials" => copy[i] \in CredentialsFile
        /\ pc[i] = "save config" => copy[i] \in ConfigFile
        /\ pc[i] \notin {"save credentials", "save config"} => copy[i] = None
    /\ ~newDir => credentials["new"] = NoFile /\ config["new"] = NoFile

(* A fresh machine, or one set up before the directory was renamed. *)
ConfigInit ==
    /\ newDir = FALSE
    /\ \/ credentials = [d \in Dirs |-> NoFile] /\ config = [d \in Dirs |-> NoFile]
       \/ /\ Legacy
          /\ credentials = [new    |-> NoFile,
                            legacy |-> [p \in Profiles |-> [key |-> "k1", login |-> FALSE]]]
          /\ config = [new    |-> NoFile,
                       legacy |-> [p \in Profiles |->
                           [region |-> "HAN", output |-> "table", project |-> "p1"]]]
    /\ pc = [i \in Invocations |-> "idle"]
    /\ job = [i \in Invocations |-> None]
    /\ copy = [i \in Invocations |-> None]

-------------------------------------------------------------------------------
effectiveConfigDir ==
    IF ~newDir /\ credentials["legacy"] # NoFile THEN "legacy" ELSE "new"

Found(p) == \/ credentials[effectiveConfigDir][p] # Missing
            \/ config[effectiveConfigDir][p] # Missing

anyFileExists == \/ credentials[effectiveConfigDir] # NoFile
                 \/ config[effectiveConfigDir] # NoFile

StoredCredential(p) ==
    LET c == credentials[effectiveConfigDir][p] IN IF c = Missing THEN NoCredential ELSE c

(* LoadConfig without the overrides of the environment. *)
Stored(p) ==
    LET s == config[effectiveConfigDir][p]
        t == IF s = Missing THEN NoSettings ELSE s
    IN  [t EXCEPT !.output = IF @ = None THEN "json" ELSE @]

(* Every writer takes the error for a profile that is in neither file as  *)
(* an empty profile.                                                       *)
LoadConfig(p, shell) ==
    IF anyFileExists /\ ~Found(p)
      THEN NoSettings
      ELSE [k \in Settings |-> IF k \in shell THEN OfShell[k] ELSE Stored(p)[k]]

-------------------------------------------------------------------------------
Goto(i, l) == pc' = [pc EXCEPT ![i] = l]

(* The invocation ends and forgets. *)
End(i, l) == Goto(i, l) /\ job' = [job EXCEPT ![i] = None] /\ copy' = [copy EXCEPT ![i] = None]

(* Enter keeps the value that was loaded. *)
Answer(typed, loaded) == IF typed = None THEN loaded ELSE typed

(* Mutant: an answer that is no region is saved as it is. *)
AnyRegion(r) == r

ValidRegion(r) == IF r \in REGIONS THEN r ELSE "HCM-3"

(* The answers a command asks for; the others stay None. *)
AskedBy == [region  |-> {"configure", "login", "set region"},
            output  |-> {"configure", "set output"},
            project |-> {"configure", "set project"}]

AnswersOf(c) ==
    LET Value(k) == IF c \notin AskedBy[k] THEN {None}
                    ELSE IF c \in {"configure", "login"} THEN Typed[k] \cup {None} ELSE Typed[k]
    IN  [region : Value("region"), output : Value("output"), project : Value("project")]

KeysOf(c) == IF c = "configure" THEN {"k1", None} ELSE IF c = "set key" THEN Keys ELSE {None}

(* login has its tokens; the rest of it is in LoginListener. *)
Start(i) ==
    /\ pc[i] = "idle"
    /\ Cardinality({j \in Invocations : pc[j] \in Running}) < Concurrency
    /\ \E c \in Commands, p \in Profiles, shell \in SUBSET ShellVars :
       \E a \in AnswersOf(c), k \in KeysOf(c) :
           /\ job' = [job EXCEPT ![i] = [cmd |-> c, profile |-> p, key |-> k, set |-> a,
                                         shell |-> shell]]
           /\ Goto(i, IF c = "login" THEN "credentials" ELSE "load")
    /\ UNCHANGED <<files, copy>>

(* Mutant: configure set writes the keys it was not given empty. *)
LoadNothing(i) ==
    /\ pc[i] \in {"load", "prompt"}
    /\ job' = [job EXCEPT ![i].key = Answer(@, StoredCredential(job[i].profile).key),
                          ![i].set = [@ EXCEPT !.region = ValidRegion(@)]]
    /\ Goto(i, IF job[i].cmd \in {"configure", "set key"} THEN "credentials" ELSE "config")
    /\ UNCHANGED <<files, copy>>

(* LoadConfig and the prompts that follow it.  configure and login correct *)
(* the region, configure the output; configure set corrects nothing.       *)
Load(i) ==
    LET j      == job[i]
        loaded == LoadConfig(j.profile, j.shell)
        asked  == [k \in Settings |-> Answer(j.set[k], loaded[k])]
    IN
    /\ pc[i] \in {"load", "prompt"}
    /\ job' = [job EXCEPT
           ![i].key = Answer(@, StoredCredential(j.profile).key),
           ![i].set = IF j.cmd \in {"configure", "login"}
                        THEN [asked EXCEPT !.region = ValidRegion(@),
                                           !.output = IF @ = None THEN "json" ELSE @]
                        ELSE asked]
    /\ Goto(i, IF j.cmd \in {"configure", "set key"} THEN "credentials" ELSE "config")
    /\ UNCHANGED <<files, copy>>

-------------------------------------------------------------------------------
(* Mutant: the file is created anew instead of loaded. *)
StartEmpty(i, file) ==
    /\ newDir' = TRUE
    /\ copy' = [copy EXCEPT ![i] = NoFile]
    /\ UNCHANGED <<credentials, config, job>>

(* ensureDir and loadOrCreate. *)
loadOrCreate(i, file) ==
    /\ newDir' = TRUE
    /\ copy' = [copy EXCEPT ![i] = file]
    /\ UNCHANGED <<credentials, config, job>>

OpenCredentials(i) ==
    /\ pc[i] = "credentials"
    /\ loadOrCreate(i, credentials["new"])
    /\ Goto(i, "save credentials")

(* Mutant: WriteConfig opens the credentials file. *)
OpenWrongFile(i) ==
    /\ pc[i] = "config"
    /\ loadOrCreate(i, credentials["new"])
    /\ Goto(i, "save config")

OpenConfig(i) ==
    /\ pc[i] = "config"
    /\ loadOrCreate(i, config["new"])
    /\ Goto(i, "save config")

(* WriteLoginToken keeps the client credentials of the section; *)
(* WriteCredentials drops the login.                            *)
Identity(i, old) ==
    IF job[i].cmd = "login"
      THEN [key |-> IF old = Missing THEN None ELSE old.key, login |-> TRUE]
      ELSE [key |-> job[i].key, login |-> FALSE]

Renamed(i) ==
    credentials' = [credentials EXCEPT !["new"] =
        [copy[i] EXCEPT ![job[i].profile] = Identity(i, @)]]

(* Mutant: configure returns after its first file. *)
ReturnAfterCredentials(i) ==
    /\ pc[i] = "save credentials"
    /\ Renamed(i)
    /\ IF job[i].cmd # "login"
         THEN End(i, "done")
         ELSE Goto(i, "prompt") /\ copy' = [copy EXCEPT ![i] = None] /\ UNCHANGED job
    /\ UNCHANGED <<newDir, config>>

SaveCredentials(i) ==
    /\ pc[i] = "save credentials"
    /\ Renamed(i)
    /\ IF job[i].cmd = "set key"
         THEN End(i, "done")
         ELSE /\ Goto(i, IF job[i].cmd = "login" THEN "prompt" ELSE "config")
              /\ copy' = [copy EXCEPT ![i] = None]
              /\ UNCHANGED job
    /\ UNCHANGED <<newDir, config>>

SaveConfig(i) ==
    /\ pc[i] = "save config"
    /\ config' = [config EXCEPT !["new"] = [copy[i] EXCEPT ![job[i].profile] = job[i].set]]
    /\ End(i, "done")
    /\ UNCHANGED <<newDir, credentials>>

(* The process is killed, or a load or a save fails and ends it. *)
Stop(i) ==
    /\ Crashes /\ pc[i] \in Running
    /\ End(i, "failed")
    /\ UNCHANGED files

AllEnded == (\A i \in Invocations : pc[i] \in {"done", "failed"}) /\ UNCHANGED configVars

ConfigNext ==
    \/ \E i \in Invocations : \/ Start(i) \/ Load(i) \/ OpenCredentials(i) \/ OpenConfig(i)
                              \/ SaveCredentials(i) \/ SaveConfig(i) \/ Stop(i)
    \/ AllEnded

ConfigSpec == ConfigInit /\ [][ConfigNext]_configVars

-------------------------------------------------------------------------------
(* What a command is asked to change. *)
Owns(c) ==
    CASE c = "configure"   -> Settings \cup {"key", "login"}
      [] c = "login"       -> {"region", "login"}
      [] c = "set key"     -> {"key", "login"}
      [] c = "set region"  -> {"region"}
      [] c = "set output"  -> {"output"}
      [] c = "set project" -> {"project"}

Owned(p, k) == \E i \in Invocations :
                   pc[i] \in Running /\ job[i].profile = p /\ k \in Owns(job[i].cmd)

(* The value that the environment of a running command gives a setting.    *)
Overridden(p, k) == \E i \in Invocations :
                        /\ pc[i] \in Running /\ job[i].profile = p
                        /\ k \in job[i].shell /\ Stored(p)'[k] = OfShell[k]

CredentialKept(p) ==
    \A k \in {"key", "login"} : StoredCredential(p)'[k] # StoredCredential(p)[k] => Owned(p, k)

(* "Load existing config so unrelated fields are preserved on write": what *)
(* a later command reads of a profile changes only in the values that a    *)
(* running command was asked to change, in every profile, whichever file   *)
(* is written and wherever the command is stopped, and no profile that is  *)
(* found gets lost.  A setting that is overridden in the environment of the*)
(* command may also become what the environment says, since LoadConfig does*)
(* not tell the two apart, and nothing else.  The code keeps this for an   *)
(* installation in the new directory.                                      *)
UnrelatedPreserved ==
    [][credentials["legacy"] = NoFile =>
        \A p \in Profiles :
            /\ \A k \in Settings : Stored(p)'[k] # Stored(p)[k] => Owned(p, k) \/ Overridden(p, k)
            /\ CredentialKept(p)
            /\ Found(p) => Found(p)']_configVars

(* The same of every installation, and whatever the environment overrides. *)
UnrelatedPreservedAlways ==
    [][\A p \in Profiles :
        /\ \A k \in Settings : Stored(p)'[k] # Stored(p)[k] => Owned(p, k)
        /\ CredentialKept(p)]_configVars

Completes(i, c, p) ==
    /\ pc[i] \in Running /\ pc'[i] = "done"
    /\ job[i].cmd = c /\ job[i].profile = p

(* configure "saved successfully": both files hold what was entered, with  *)
(* the values that were loaded where Enter was pressed.                    *)
ConfigureDelivers ==
    \A i \in Invocations, p \in Profiles :
        Completes(i, "configure", p) =>
            /\ Stored(p)' = job[i].set
            /\ StoredCredential(p)' = [key |-> job[i].key, login |-> FALSE]

(* "a login-only profile is immediately usable": after a login the profile *)
(* has the login and a region that exists.                                 *)
LoginIsUsable ==
    \A i \in Invocations, p \in Profiles :
        Completes(i, "login", p) =>
            /\ Stored(p)'.region \in REGIONS
            /\ StoredCredential(p)'.login

(* Both commands leave what they report. *)
CommandsDeliver == [][ConfigureDelivers /\ LoginIsUsable]_configVars
===============================================================================

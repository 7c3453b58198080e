--------------------------- MODULE CredentialStore ---------------------------
(***************************************************************************)
(* The shared credentials file ~/.greennode/credentials as a value, the    *)
(* edits the writer of internal/config makes to it, and what LoadConfig    *)
(* reads back.  A file maps each profile to its INI section; a section     *)
(* that is missing and a section without keys read the same, so both are   *)
(* EmptySection.  token_expires_at is written and deleted together with    *)
(* refresh_token by every writer and is left out.                          *)
(***************************************************************************)
EXTENDS Naturals

CONSTANTS
    Profiles,       \* profile names, one INI section each
    Keys,           \* machine access keys; a key's id and secret share its name
    RefreshTokens,  \* refresh tokens IAM can ever issue (the bound on logins and rotations)
    IamEnvs,        \* IAM environments (prod, dev)
    Agents,         \* agent identity names
    ShellKey,       \* the key in GRN_CLIENT_ID / GRN_CLIENT_SECRET
    None            \* an INI key that is not set

ASSUME NoneIsNoValue ==
    None \notin Keys \cup RefreshTokens \cup IamEnvs \cup Agents \cup {ShellKey, "user", "machine"}

KeyIds == Keys \cup {ShellKey}

Section ==
    [ id     : KeyIds \cup {None},
      secret : KeyIds \cup {None},
      mode   : {"user", "machine", None},
      rt     : RefreshTokens \cup {None},
      env    : IamEnvs \cup {None},
      agent  : Agents \cup {None} ]

EmptySection ==
    [id |-> None, secret |-> None, mode |-> None, rt |-> None, env |-> None, agent |-> None]

Files == [Profiles -> Section]

(***************************************************************************)
(* The writers.  Each takes the section the file has and returns the       *)
(* section to write back; the rest of the file is carried along unchanged. *)
(***************************************************************************)
(* Mutant: configuring an access key leaves the login token behind. *)
WriteCredentialsKeepsToken(s, id, secret) ==
    [s EXCEPT !.id = id, !.secret = secret, !.mode = "machine"]

WriteCredentials(s, id, secret) ==
    [s EXCEPT !.id = id, !.secret = secret, !.mode = "machine", !.rt = None]

WriteLoginToken(s, rt, env) ==
    IF rt = None THEN s ELSE [s EXCEPT !.rt = rt, !.mode = "user", !.env = env]

(* Mutant: logging out drops the whole section. *)
ClearSection(s) == EmptySection

ClearLoginToken(s) == [s EXCEPT !.rt = None, !.mode = None, !.env = None]

WriteAgentIdentity(s, agent) == [s EXCEPT !.agent = agent]

WriteIamEnv(s, env) == [s EXCEPT !.env = env]

(* An edit a command has decided on: the writer it calls and its arguments *)
(* (a section whose other keys are not used).                              *)
EditKinds == {"credentials", "login", "clear", "agent", "env"}

Edit == [kind : EditKinds, arg : Section]

CredentialsEdit(id, secret) ==
    [kind |-> "credentials", arg |-> [EmptySection EXCEPT !.id = id, !.secret = secret]]
LoginEdit(rt, env) ==
    [kind |-> "login", arg |-> [EmptySection EXCEPT !.rt = rt, !.env = env]]
ClearEdit        == [kind |-> "clear", arg |-> EmptySection]
AgentEdit(agent) == [kind |-> "agent", arg |-> [EmptySection EXCEPT !.agent = agent]]
EnvEdit(env)     == [kind |-> "env", arg |-> [EmptySection EXCEPT !.env = env]]

EditSection(s, e) ==
    CASE e.kind = "credentials" -> WriteCredentials(s, e.arg.id, e.arg.secret)
      [] e.kind = "login"       -> WriteLoginToken(s, e.arg.rt, e.arg.env)
      [] e.kind = "clear"       -> ClearLoginToken(s)
      [] e.kind = "agent"       -> WriteAgentIdentity(s, e.arg.agent)
      [] e.kind = "env"         -> WriteIamEnv(s, e.arg.env)

(* Mutant: the edit goes to the first profile whatever --profile says. *)
ApplyToFirstProfile(f, p, e) ==
    LET q == CHOOSE q \in Profiles : TRUE IN [f EXCEPT ![q] = EditSection(f[q], e)]

Apply(f, p, e) == [f EXCEPT ![p] = EditSection(f[p], e)]

(***************************************************************************)
(* LoadConfig's view of a section.  shell is the set of GRN_CLIENT_ID and  *)
(* GRN_CLIENT_SECRET variables that are set; with both of them set the     *)
(* credentials file is not read at all.                                    *)
(***************************************************************************)
ShellVars == {"id", "secret"}

LoadConfig(s, shell) ==
    IF shell = ShellVars
      THEN [EmptySection EXCEPT !.id = ShellKey, !.secret = ShellKey]
      ELSE [s EXCEPT !.id     = IF "id" \in shell THEN ShellKey ELSE @,
                     !.secret = IF "secret" \in shell THEN ShellKey ELSE @]
===============================================================================

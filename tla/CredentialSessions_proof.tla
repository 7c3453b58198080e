----------------------- MODULE CredentialSessions_proof -----------------------
(***************************************************************************)
(* Theorems about CredentialSessions: for every set of profiles, tokens    *)
(* and invocations, any concurrency and any of the faults; and, used by one*)
(* invocation at a time, that the credentials file is the store of         *)
(* AtomicCredentials.                                                      *)
(***************************************************************************)
EXTENDS CredentialSessions, FiniteSetTheorems, TLAPS

(* The empty section, the edits and LoadConfig stay within their types. *)
LEMMA EmptySectionType == EmptySection \in Section
BY DEF EmptySection, Section

LEMMA EditSectionType ==
    ASSUME NEW s \in Section, NEW e \in Edit
    PROVE  EditSection(s, e) \in Section
<1>1. e.arg \in Section /\ e.kind \in EditKinds
  BY DEF Edit
<1>2. CASE e.kind = "credentials"
  BY <1>1, <1>2 DEF EditSection, WriteCredentials, Section
<1>3. CASE e.kind = "login"
  BY <1>1, <1>3 DEF EditSection, WriteLoginToken, Section
<1>4. CASE e.kind = "clear"
  BY <1>1, <1>4 DEF EditSection, ClearLoginToken, Section
<1>5. CASE e.kind = "agent"
  BY <1>1, <1>5 DEF EditSection, WriteAgentIdentity, Section
<1>6. CASE e.kind = "env"
  BY <1>1, <1>6 DEF EditSection, WriteIamEnv, Section
<1>7. QED BY <1>1, <1>2, <1>3, <1>4, <1>5, <1>6 DEF EditKinds

LEMMA ApplyType ==
    ASSUME NEW f \in Files, NEW p \in Profiles, NEW e \in Edit
    PROVE  /\ Apply(f, p, e) \in Files
           /\ Apply(f, p, e)[p] = EditSection(f[p], e)
           /\ \A q \in Profiles : q # p => Apply(f, p, e)[q] = f[q]
<1>1. f[p] \in Section
  BY DEF Files
<1>2. EditSection(f[p], e) \in Section
  BY <1>1, EditSectionType
<1>3. QED BY <1>2 DEF Apply, Files

LEMMA LoadConfigType ==
    ASSUME NEW s \in Section, NEW sh
    PROVE  LoadConfig(s, sh) \in Section
<1>1. CASE sh = ShellVars
  BY <1>1, EmptySectionType DEF LoadConfig, Section, KeyIds
<1>2. CASE sh # ShellVars
  BY <1>2 DEF LoadConfig, Section, KeyIds
<1>3. QED BY <1>1, <1>2

LEMMA InitType == Init => TypeOK
<1> SUFFICES ASSUME Init PROVE TypeOK
  OBVIOUS
<1>1. EmptySection \in Section
  BY EmptySectionType
<1>2. ASSUME NEW p \in Profiles PROVE StartSections(p) \subseteq Section
  <2>1. ASSUME NEW e \in IamEnvs PROVE WriteLoginToken(EmptySection, FirstToken[p], e) \in Section
    BY FirstTokenAssumption DEF WriteLoginToken, EmptySection, Section
  <2>2. ASSUME NEW k \in Keys PROVE WriteCredentials(EmptySection, k, k) \in Section
    BY DEF WriteCredentials, EmptySection, Section, KeyIds
  <2>3. QED BY <1>1, <2>1, <2>2 DEF StartSections
<1>3. creds \in Files
  BY <1>2 DEF Init, Files
<1>4. issued \in [RefreshTokens -> Grant \cup {None}]
  <2>1. SUFFICES ASSUME NEW t \in RefreshTokens PROVE issued[t] \in Grant \cup {None}
    BY DEF Init
  <2>2. CASE ~ \E p \in Profiles : creds[p].rt = t
    BY <2>2 DEF Init
  <2>3. CASE \E p \in Profiles : creds[p].rt = t
    <3> DEFINE p == CHOOSE q \in Profiles : creds[q].rt = t
    <3>1. p \in Profiles /\ creds[p].rt = t
      BY <2>3
    <3>2. issued[t] = [owner |-> p, env |-> creds[p].env, client |-> "baked"]
      BY <2>3 DEF Init
    <3>3. creds[p] \in StartSections(p) /\ creds[p].rt # None
      BY <3>1, NoneIsNoValue DEF Init
    <3>4. creds[p].env \in IamEnvs
      <4>1. creds[p] # EmptySection
        BY <3>3 DEF EmptySection
      <4>2. ASSUME NEW k \in Keys PROVE creds[p] # WriteCredentials(EmptySection, k, k)
        BY <3>3 DEF EmptySection, WriteCredentials
      <4>3. PICK e \in IamEnvs : creds[p] = WriteLoginToken(EmptySection, FirstToken[p], e)
        BY <3>3, <4>1, <4>2 DEF StartSections
      <4>4. QED
        BY <3>1, <4>3, FirstTokenAssumption, NoneIsNoValue DEF EmptySection, WriteLoginToken
    <3>5. QED BY <3>1, <3>2, <3>4 DEF Grant
  <2>4. QED BY <2>2, <2>3
<1>5. ClearEdit \in Edit
  BY <1>1 DEF ClearEdit, Edit, EditKinds
<1>6. profile \in [Invocations -> Profiles]
  BY ProfilesAssumption DEF Init
<1>7. [p \in Profiles |-> EmptySection] \in Files
  BY <1>1 DEF Files
<1>8. refreshes \in [Invocations -> 0 .. MaxRefreshes]
  <2>1. 0 \in 0 .. MaxRefreshes
    BY ConcurrencyAssumption
  <2>2. refreshes = [c \in Invocations |-> 0]
    BY DEF Init
  <2>3. QED BY <2>1, <2>2
<1>9. live \subseteq RefreshTokens
  BY DEF Init
<1>10. /\ pc \in [Invocations -> Locations]
       /\ command \in [Invocations -> AllCommands]
       /\ shell \in [Invocations -> SUBSET ShellVars]
       /\ result \in [Invocations -> Results]
  BY DEF Init, Locations, AllCommands, Results
<1>11. /\ cfg \in [Invocations -> Section]
       /\ reply \in [Invocations -> RefreshTokens \cup {None}]
       /\ edit \in [Invocations -> Edit]
       /\ out \in [Invocations -> Files]
       /\ tmp \in [Invocations -> Files \cup {Torn, None}]
  BY <1>1, <1>5, <1>7 DEF Init
<1>12. QED
  BY <1>3, <1>4, <1>6, <1>8, <1>9, <1>10, <1>11 DEF TypeOK

LEMMA EditTypes ==
    /\ \A id, secret \in KeyIds \cup {None} : CredentialsEdit(id, secret) \in Edit
    /\ \A t \in RefreshTokens, e \in IamEnvs \cup {None} : LoginEdit(t, e) \in Edit
    /\ \A a \in Agents \cup {None} : AgentEdit(a) \in Edit
    /\ \A e \in IamEnvs : EnvEdit(e) \in Edit
    /\ ClearEdit \in Edit
BY EmptySectionType
DEF Edit, EditKinds, EmptySection, Section, CredentialsEdit, LoginEdit, AgentEdit, EnvEdit, ClearEdit

(* What a session or an editing command reads is a section. *)
LEMMA ViewType ==
    ASSUME TypeOK, NEW c \in Invocations
    PROVE  LoadConfig(creds[profile[c]], shell[c]) \in Section
<1>1. creds[profile[c]] \in Section
  BY DEF TypeOK, Files
<1>2. QED BY <1>1, LoadConfigType

LEMMA AfterSaveType ==
    ASSUME TypeOK, NEW c \in Invocations, NEW r \in Results, AfterSave(c, r)
    PROVE  /\ cfg' \in [Invocations -> Section]
           /\ pc' \in [Invocations -> Locations]
           /\ result' \in [Invocations -> Results]
<1>1. CASE Rotating(c)
  <2>1. edit[c].arg.rt \in RefreshTokens \cup {None} /\ cfg[c] \in Section
    BY DEF TypeOK, Edit, Section
  <2>2. [cfg[c] EXCEPT !.rt = edit[c].arg.rt] \in Section
    BY <2>1 DEF Section
  <2>3. cfg' = [cfg EXCEPT ![c] = [cfg[c] EXCEPT !.rt = edit[c].arg.rt]]
    BY <1>1 DEF AfterSave
  <2>4. QED BY <1>1, <2>2, <2>3 DEF AfterSave, Goto, TypeOK, Locations
<1>2. CASE ~ Rotating(c)
  BY <1>2 DEF AfterSave, Exit, TypeOK, Locations
<1>3. QED BY <1>1, <1>2

(* A temporary file is complete before it is renamed. *)
TempWritten == \A c \in Invocations : pc[c] = "rename" => tmp[c] = out[c]

LEMMA StepType == TypeOK /\ TempWritten /\ [Next]_vars => TypeOK'
<1> SUFFICES ASSUME TypeOK, TempWritten, [Next]_vars PROVE TypeOK'
  OBVIOUS
<1>1. ASSUME NEW c \in Invocations, NEW k \in Commands, NEW p \in Profiles,
             NEW s \in ShellSettings, Start(c, k, p, s)
      PROVE  TypeOK'
  <2>1. k \in AllCommands /\ s \in SUBSET ShellVars
    BY CommandsAssumption, ShellAssumption
  <2>2. pc' \in [Invocations -> Locations] /\ result' \in [Invocations -> Results]
    BY <1>1 DEF TypeOK, Start, Goto, Locations
  <2>3. edit' \in [Invocations -> Edit]
    BY <1>1, EditTypes DEF TypeOK, Start
  <2>4. QED
    BY <1>1, <2>1, <2>2, <2>3 DEF TypeOK, Start, iamVars
<1>2. ASSUME NEW c \in Invocations, OpenSession(c) PROVE TypeOK'
  <2>1. pc' \in [Invocations -> Locations] /\ result' \in [Invocations -> Results]
    BY <1>2 DEF TypeOK, OpenSession, Goto, Exit, Locations, Results
  <2>2. cfg' \in [Invocations -> Section]
    BY <1>2, ViewType DEF TypeOK, OpenSession
  <2>3. QED BY <1>2, <2>1, <2>2 DEF TypeOK, OpenSession, iamVars, selfVars
<1>3. ASSUME NEW c \in Invocations, MintMachineToken(c) PROVE TypeOK'
  BY <1>3 DEF TypeOK, MintMachineToken, iamVars, selfVars, Goto, Exit, Locations, Results
<1>4. ASSUME NEW c \in Invocations, IamRefresh(c) PROVE TypeOK'
  <2>1. pc' \in [Invocations -> Locations] /\ result' \in [Invocations -> Results]
    BY <1>4 DEF TypeOK, IamRefresh, Goto, Locations
  <2>2. /\ reply' \in [Invocations -> RefreshTokens \cup {None}]
        /\ issued' \in [RefreshTokens -> Grant \cup {None}]
        /\ live' \subseteq RefreshTokens
    <3>1. CASE UNCHANGED iamVars
      BY <1>4, <3>1 DEF TypeOK, IamRefresh, iamVars, Unissued
    <3>2. CASE ~ UNCHANGED iamVars
      <4> DEFINE t == cfg[c].rt
      <4>1. PICK n \in Unissued : /\ t \in live
                                  /\ issued' = [issued EXCEPT ![n] = issued[t]]
                                  /\ live' = (live \ {t}) \cup {n}
                                  /\ reply' = [reply EXCEPT ![c] = n]
        BY <1>4, <3>2 DEF IamRefresh
      <4>2. n \in RefreshTokens /\ issued[t] \in Grant \cup {None}
        BY <4>1 DEF TypeOK, Unissued
      <4>3. QED BY <4>1, <4>2 DEF TypeOK
    <3>3. QED BY <3>1, <3>2
  <2>3. QED BY <1>4, <2>1, <2>2 DEF TypeOK, IamRefresh, selfVars
<1>5. ASSUME NEW c \in Invocations, ReceiveReply(c) PROVE TypeOK'
  <2>1. pc' \in [Invocations -> Locations] /\ result' \in [Invocations -> Results]
    BY <1>5 DEF TypeOK, ReceiveReply, Goto, Exit, Locations, Results
  <2>2. cfg[c].env \in IamEnvs \cup {None} /\ (reply[c] # None => reply[c] \in RefreshTokens)
    BY DEF TypeOK, Section
  <2>3. edit' \in [Invocations -> Edit]
    BY <1>5, <2>2, EditTypes DEF TypeOK, ReceiveReply
  <2>4. QED BY <1>5, <2>1, <2>3 DEF TypeOK, ReceiveReply, iamVars, selfVars
<1>6. ASSUME NEW c \in Invocations, LoseReply(c) PROVE TypeOK'
  BY <1>6 DEF TypeOK, LoseReply, iamVars, selfVars, Exit, Locations, Results
<1>7. ASSUME NEW c \in Invocations, RefreshAgain(c) PROVE TypeOK'
  <2>1. refreshes' \in [Invocations -> 0 .. MaxRefreshes]
    BY <1>7, ConcurrencyAssumption DEF TypeOK, RefreshAgain
  <2>2. QED BY <1>7, <2>1 DEF TypeOK, RefreshAgain, iamVars, selfVars, Goto, Locations
<1>8. ASSUME NEW c \in Invocations, FinishSession(c) PROVE TypeOK'
  <2>1. edit' \in [Invocations -> Edit]
    BY <1>8, EditTypes DEF TypeOK, FinishSession
  <2>2. pc' \in [Invocations -> Locations] /\ result' \in [Invocations -> Results]
    BY <1>8 DEF TypeOK, FinishSession, Goto, Exit, Locations, Results
  <2>3. QED BY <1>8, <2>1, <2>2 DEF TypeOK, FinishSession, iamVars, selfVars
<1>9. ASSUME NEW c \in Invocations, Login(c) PROVE TypeOK'
  <2>1. edit' \in [Invocations -> Edit]
    BY <1>9, EditTypes DEF TypeOK, Login, Unissued
  <2>2. pc' \in [Invocations -> Locations] /\ result' \in [Invocations -> Results]
    BY <1>9 DEF TypeOK, Login, Goto, Exit, Locations, Results
  <2>3. issued' \in [RefreshTokens -> Grant \cup {None}] /\ live' \subseteq RefreshTokens
    <3>1. CASE UNCHANGED iamVars
      BY <3>1 DEF TypeOK, iamVars
    <3>2. CASE ~ UNCHANGED iamVars
      <4>1. PICK n \in Unissued, e \in IamEnvs, cl \in LoginClients :
               /\ issued' = [issued EXCEPT ![n] = [owner |-> profile[c], env |-> e, client |-> cl]]
               /\ live' = live \cup {n}
        BY <1>9, <3>2 DEF Login
      <4>2. [owner |-> profile[c], env |-> e, client |-> cl] \in Grant
        BY ClientsAssumption DEF TypeOK, Grant
      <4>3. QED BY <4>1, <4>2 DEF TypeOK, Unissued
    <3>3. QED BY <3>1, <3>2
  <2>4. QED BY <1>9, <2>1, <2>2, <2>3 DEF TypeOK, Login, selfVars
<1>10. ASSUME NEW c \in Invocations, DecideEdit(c) PROVE TypeOK'
  <2> DEFINE view == LoadConfig(creds[profile[c]], shell[c])
  <2>1. view \in Section
    BY ViewType
  <2>2. Keys \cup {view.id} \cup {view.secret} \subseteq KeyIds \cup {None}
    BY <2>1 DEF Section, KeyIds
  <2>3. edit' \in [Invocations -> Edit]
    <3>1. SUFFICES ASSUME UNCHANGED edit \/ \E e \in Edit : edit' = [edit EXCEPT ![c] = e]
                   PROVE  edit' \in [Invocations -> Edit]
      <4>1. CASE command[c] = "configure"
        BY <1>10, <2>2, <4>1, EditTypes DEF DecideEdit
      <4>2. CASE command[c] \in {"set-id", "set-secret"}
        BY <1>10, <2>2, <4>2, EditTypes DEF DecideEdit
      <4>3. CASE command[c] = "set-env"
        BY <1>10, <4>3, EditTypes DEF DecideEdit
      <4>4. QED
        BY <1>10, <4>1, <4>2, <4>3 DEF DecideEdit, EditCommands
    <3>2. QED BY <3>1 DEF TypeOK
  <2>4. pc' \in [Invocations -> Locations] /\ result' \in [Invocations -> Results]
    BY <1>10 DEF TypeOK, DecideEdit, Goto, Exit, Locations, Results
  <2>5. cfg' \in [Invocations -> Section]
    BY <1>10, <2>1 DEF TypeOK, DecideEdit
  <2>6. QED BY <1>10, <2>3, <2>4, <2>5 DEF TypeOK, DecideEdit, iamVars, selfVars
<1>11. ASSUME NEW c \in Invocations, OpenFile(c) PROVE TypeOK'
  <2>1. Apply(creds, profile[c], edit[c]) \in Files
    BY ApplyType DEF TypeOK
  <2>2. out' \in [Invocations -> Files]
    BY <1>11, <2>1 DEF TypeOK, OpenFile
  <2>3. pc' \in [Invocations -> Locations] /\ result' \in [Invocations -> Results]
    BY <1>11 DEF TypeOK, OpenFile, Goto, Exit, Locations, Results
  <2>4. QED
    BY <1>11, <2>2, <2>3 DEF TypeOK, OpenFile, iamVars, selfVars
<1>12. ASSUME NEW c \in Invocations, CreateTemp(c) PROVE TypeOK'
  BY <1>12 DEF TypeOK, CreateTemp, iamVars, selfVars, Goto, Locations
<1>13. ASSUME NEW c \in Invocations, WriteTemp(c) PROVE TypeOK'
  BY <1>13 DEF TypeOK, WriteTemp, iamVars, selfVars, Goto, Locations
<1>14. ASSUME NEW c \in Invocations, Rename(c) PROVE TypeOK'
  <2>1. creds' \in Files
    BY <1>14 DEF TypeOK, TempWritten, Rename
  <2>2. AfterSave(c, "ok") /\ "ok" \in Results
    BY <1>14 DEF Rename, Results
  <2>3. QED BY <1>14, <2>1, <2>2, AfterSaveType DEF TypeOK, Rename, iamVars, selfVars
<1>15. ASSUME NEW c \in Invocations, SaveFails(c) PROVE TypeOK'
  <2>1. PICK r \in Results : AfterSave(c, r)
    BY <1>15 DEF SaveFails, Results
  <2>2. QED BY <1>15, <2>1, AfterSaveType DEF TypeOK, SaveFails, iamVars, selfVars
<1>16. ASSUME NEW c \in Invocations, Killed(c) PROVE TypeOK'
  BY <1>16 DEF TypeOK, Killed, iamVars, selfVars, Exit, Locations, Results
<1>17. CASE UNCHANGED vars
  BY <1>17 DEF TypeOK, vars
<1>18. QED
  BY <1>1, <1>2, <1>3, <1>4, <1>5, <1>6, <1>7, <1>8, <1>9, <1>10, <1>11, <1>12, <1>13,
     <1>14, <1>15, <1>16, <1>17 DEF Next, Step, Terminating

-------------------------------------------------------------------------------
(***************************************************************************)
(* The inductive invariant.  The file is good because every copy of it     *)
(* that may be renamed over it is good: copies hold stale but whole        *)
(* sections, and an edit under way carries a token of its own profile.     *)
(***************************************************************************)
Owned(t, p) == t \in RefreshTokens /\ issued[t] # None /\ issued[t].owner = p

GoodFile(f) == \A p \in Profiles : /\ SectionWhole(f[p])
                                   /\ f[p].rt # None => Owned(f[p].rt, p)

Saving(c)  == pc[c] \in {"stage", "write", "rename"}
Editing(c) == pc[c] = "open" \/ Saving(c)

(* A session that holds, or will come back to, a user's refresh token. *)
UserSession(c) ==
    /\ cfg[c].mode = "user"
    /\ \/ pc[c] \in {"authorise", "reply", "call"}
       \/ Editing(c) /\ command[c] \in SessionCommands

GoodEdit(e, p) == /\ e.kind = "login" => e.arg.env # None /\ Owned(e.arg.rt, p)
                  /\ e.kind = "env" => e.arg.env # None

(* What one invocation contributes to the invariant. *)
Local(c) ==
    /\ pc[c] = "rename" => tmp[c] = out[c]
    /\ pc[c] = "browser" => command[c] = "login"
    /\ Saving(c) => GoodFile(out[c])
    /\ Editing(c) => GoodEdit(edit[c], profile[c])
    /\ UserSession(c) => cfg[c].env # None /\ Owned(cfg[c].rt, profile[c])
    /\ pc[c] = "reply" => cfg[c].mode = "user"
    /\ pc[c] = "reply" /\ reply[c] # None => Owned(reply[c], profile[c])

IInv == TypeOK /\ GoodFile(creds) /\ \A c \in Invocations : Local(c)

(* IAM never takes a grant back: a token keeps the profile it was issued to. *)
Kept == \A t \in RefreshTokens : issued[t] # None => issued'[t] = issued[t]

LEMMA GrantsKept ==
    ASSUME TypeOK, [Next]_vars PROVE Kept
<1>1. CASE UNCHANGED issued
  BY <1>1 DEF Kept
<1>2. ASSUME NEW c \in Invocations, IamRefresh(c), issued' # issued PROVE Kept
  <2>1. PICK n \in Unissued : issued' = [issued EXCEPT ![n] = issued[cfg[c].rt]]
    BY <1>2 DEF IamRefresh, iamVars
  <2>2. QED BY <2>1 DEF Kept, Unissued, TypeOK
<1>3. ASSUME NEW c \in Invocations, Login(c), issued' # issued PROVE Kept
  <2>1. PICK n \in Unissued, e \in IamEnvs, cl \in LoginClients :
           issued' = [issued EXCEPT ![n] = [owner |-> profile[c], env |-> e, client |-> cl]]
    BY <1>3 DEF Login, iamVars
  <2>2. QED BY <2>1 DEF Kept, Unissued, TypeOK
<1>4. ASSUME NEW c \in Invocations,
             \/ OpenSession(c) \/ MintMachineToken(c) \/ ReceiveReply(c)
             \/ RefreshAgain(c) \/ FinishSession(c) \/ DecideEdit(c)
      PROVE  UNCHANGED issued
  BY <1>4 DEF OpenSession, MintMachineToken, ReceiveReply, RefreshAgain, FinishSession,
              DecideEdit, iamVars
<1>5. ASSUME NEW c \in Invocations,
             \/ OpenFile(c) \/ CreateTemp(c) \/ WriteTemp(c) \/ Rename(c)
             \/ LoseReply(c) \/ SaveFails(c) \/ Killed(c)
      PROVE  UNCHANGED issued
  BY <1>5 DEF OpenFile, CreateTemp, WriteTemp, Rename, LoseReply, SaveFails, Killed, iamVars
<1>6. ASSUME NEW c \in Invocations, NEW k \in Commands, NEW p \in Profiles,
             NEW s \in ShellSettings, Start(c, k, p, s)
      PROVE  UNCHANGED issued
  BY <1>6 DEF Start, iamVars
<1>7. CASE Terminating \/ UNCHANGED vars
  BY <1>1, <1>7 DEF Terminating, vars
<1>8. QED BY <1>1, <1>2, <1>3, <1>4, <1>5, <1>6, <1>7 DEF Next, Step

LEMMA CredsKept ==
    ASSUME Kept, GoodFile(creds), UNCHANGED creds PROVE GoodFile(creds)'
BY DEF Kept, GoodFile, Owned

(* An invocation that does not take the step keeps its part. *)
SameFor(d) ==
    /\ pc'[d] = pc[d] /\ command'[d] = command[d] /\ profile'[d] = profile[d]
    /\ cfg'[d] = cfg[d] /\ reply'[d] = reply[d]
    /\ edit'[d] = edit[d] /\ out'[d] = out[d] /\ tmp'[d] = tmp[d]

LEMMA LocalKept ==
    ASSUME Kept, NEW d \in Invocations, SameFor(d), Local(d) PROVE Local(d)'
<1>1. pc'[d] = "rename" => tmp'[d] = out'[d]
  BY DEF SameFor, Local
<1>2. pc'[d] = "browser" => command'[d] = "login"
  BY DEF SameFor, Local
<1>3. Saving(d)' => GoodFile(out[d])'
  BY DEF SameFor, Local, Saving, Kept, GoodFile, Owned
<1>4. Editing(d)' => GoodEdit(edit[d], profile[d])'
  BY DEF SameFor, Local, Editing, Saving, Kept, GoodEdit, Owned
<1>5. UserSession(d)' => (cfg[d].env # None /\ Owned(cfg[d].rt, profile[d]))'
  BY DEF SameFor, Local, UserSession, Editing, Saving, Kept, Owned
<1>6. (pc[d] = "reply" /\ reply[d] # None => Owned(reply[d], profile[d]))'
  BY DEF SameFor, Local, Kept, Owned
<1>7. (pc[d] = "reply" => cfg[d].mode = "user")'
  BY DEF SameFor, Local
<1>8. QED BY <1>1, <1>2, <1>3, <1>4, <1>5, <1>6, <1>7 DEF Local

(* A good edit of a good file gives a good file. *)
LEMMA GoodApply ==
    ASSUME NEW f \in Files, NEW p \in Profiles, NEW e \in Edit, GoodFile(f), GoodEdit(e, p)
    PROVE  GoodFile(Apply(f, p, e))
<1> DEFINE s == EditSection(f[p], e)
<1>0. /\ Apply(f, p, e)[p] = s
      /\ \A q \in Profiles : q # p => Apply(f, p, e)[q] = f[q]
  BY ApplyType
<1>1. SUFFICES SectionWhole(s) /\ (s.rt # None => Owned(s.rt, p))
  BY <1>0 DEF GoodFile
<1>2. f[p] \in Section /\ e.arg \in Section /\ e.kind \in EditKinds
  BY DEF Files, Edit
<1>3. SectionWhole(f[p]) /\ (f[p].rt # None => Owned(f[p].rt, p))
  BY DEF GoodFile
<1>4. CASE e.kind = "credentials"
  BY <1>2, <1>4, NoneIsNoValue DEF EditSection, WriteCredentials, Section, SectionWhole
<1>5. CASE e.kind = "login"
  BY <1>2, <1>3, <1>5, NoneIsNoValue
  DEF EditSection, WriteLoginToken, Section, SectionWhole, GoodEdit, Owned
<1>6. CASE e.kind = "clear"
  BY <1>2, <1>6, NoneIsNoValue DEF EditSection, ClearLoginToken, Section, SectionWhole
<1>7. CASE e.kind = "agent"
  BY <1>2, <1>3, <1>7 DEF EditSection, WriteAgentIdentity, Section, SectionWhole
<1>8. CASE e.kind = "env"
  BY <1>2, <1>3, <1>8 DEF EditSection, WriteIamEnv, Section, SectionWhole, GoodEdit
<1>9. QED BY <1>2, <1>4, <1>5, <1>6, <1>7, <1>8 DEF EditKinds

(* A session that starts in user mode starts with a token of its profile. *)
LEMMA GoodView ==
    ASSUME TypeOK, GoodFile(creds), NEW c \in Invocations,
           LoadConfig(creds[profile[c]], shell[c]).mode = "user",
           LoadConfig(creds[profile[c]], shell[c]).rt # None
    PROVE  Owned(LoadConfig(creds[profile[c]], shell[c]).rt, profile[c])
<1> DEFINE s == creds[profile[c]]
<1>1. s \in Section /\ profile[c] \in Profiles
  BY DEF TypeOK, Files
<1>2. shell[c] # ShellVars
  BY NoneIsNoValue DEF LoadConfig, EmptySection
<1>3. LoadConfig(s, shell[c]).rt = s.rt
  BY <1>1, <1>2 DEF LoadConfig, Section
<1>4. QED BY <1>1, <1>3 DEF GoodFile

LEMMA InitInv == Init => IInv
<1> SUFFICES ASSUME Init PROVE IInv
  OBVIOUS
<1>1. TypeOK
  BY InitType
<1>2. \A c \in Invocations : Local(c)
  BY DEF Init, Local, Saving, Editing, UserSession
<1>3. ASSUME NEW p \in Profiles
      PROVE  SectionWhole(creds[p]) /\ (creds[p].rt # None => Owned(creds[p].rt, p))
  <2>1. creds[p] \in StartSections(p)
    BY DEF Init
  <2>2. CASE creds[p] = EmptySection
    BY <2>2, NoneIsNoValue DEF EmptySection, SectionWhole
  <2>3. CASE \E k \in Keys : creds[p] = WriteCredentials(EmptySection, k, k)
    BY <2>3, NoneIsNoValue DEF EmptySection, WriteCredentials, SectionWhole
  <2>4. ASSUME NEW e \in IamEnvs, creds[p] = WriteLoginToken(EmptySection, FirstToken[p], e)
        PROVE  SectionWhole(creds[p]) /\ (creds[p].rt # None => Owned(creds[p].rt, p))
    <3> DEFINE t == FirstToken[p]
    <3>1. t \in RefreshTokens /\ t # None
      BY FirstTokenAssumption, NoneIsNoValue
    <3>2. creds[p].rt = t /\ creds[p].mode = "user" /\ creds[p].env = e
      BY <2>4, <3>1 DEF WriteLoginToken, EmptySection
    <3>3. ASSUME NEW q \in Profiles, creds[q].rt = t PROVE q = p
      <4>1. creds[q] \in StartSections(q)
        BY DEF Init
      <4>2. creds[q] # EmptySection
        BY <3>1, <3>3 DEF EmptySection
      <4>2a. ASSUME NEW k \in Keys PROVE creds[q] # WriteCredentials(EmptySection, k, k)
        BY <3>1, <3>3 DEF EmptySection, WriteCredentials
      <4>3. PICK f \in IamEnvs : creds[q] = WriteLoginToken(EmptySection, FirstToken[q], f)
        BY <4>1, <4>2, <4>2a DEF StartSections
      <4>4. FirstToken[q] = t
        <5>1. FirstToken[q] # None
          BY FirstTokenAssumption, NoneIsNoValue
        <5>2. creds[q].rt = FirstToken[q]
          BY <4>3, <5>1 DEF WriteLoginToken, EmptySection
        <5>3. QED BY <3>3, <5>2
      <4>5. QED BY <4>4, FirstTokenAssumption
    <3>4. issued[t] = [owner |-> p, env |-> creds[p].env, client |-> "baked"]
      <4>1. (CHOOSE q \in Profiles : creds[q].rt = t) = p
        BY <3>2, <3>3
      <4>2. \E q \in Profiles : creds[q].rt = t
        BY <3>2
      <4>3. QED BY <3>1, <4>1, <4>2 DEF Init
    <3>5. issued[t] \in Grant \cup {None} /\ creds[p].env # None
      BY <1>1, <3>1, <3>2, NoneIsNoValue DEF TypeOK
    <3>6. issued[t] # None
      <4>1. creds[p].env \in IamEnvs
        BY <3>2
      <4>2. QED BY <3>4, <4>1, NoneIsNoGrant DEF Grant
    <3>7. QED BY <3>1, <3>2, <3>4, <3>5, <3>6, NoneIsNoValue DEF SectionWhole, Owned
  <2>5. QED BY <2>1, <2>2, <2>3, <2>4 DEF StartSections
<1>4. QED BY <1>1, <1>2, <1>3 DEF IInv, GoodFile

LEMMA StepInv == IInv /\ [Next]_vars => IInv'
<1> SUFFICES ASSUME IInv, [Next]_vars PROVE IInv'
  OBVIOUS
<1>1. TypeOK /\ GoodFile(creds) /\ (\A c \in Invocations : Local(c))
  BY DEF IInv
<1>2. TypeOK'
  BY <1>1, StepType DEF TempWritten, Local
<1>3. Kept
  BY <1>1, GrantsKept
<1>4. ASSUME NEW c \in Invocations, UNCHANGED creds,
             \A d \in Invocations : d # c => SameFor(d), Local(c)'
      PROVE  IInv'
  BY <1>1, <1>2, <1>3, <1>4, CredsKept, LocalKept DEF IInv
<1>5. ASSUME NEW c \in Invocations, NEW k \in Commands, NEW p \in Profiles,
             NEW s \in ShellSettings, Start(c, k, p, s)
      PROVE  IInv'
  <2>1. UNCHANGED creds /\ \A d \in Invocations : d # c => SameFor(d)
    BY <1>1, <1>5 DEF Start, Goto, SameFor, TypeOK
  <2>2. pc'[c] \in {"load", "browser", "open"} /\ (pc'[c] = "browser" => command'[c] = "login")
    BY <1>1, <1>5 DEF Start, Goto, TypeOK
  <2>3. pc'[c] = "open" => /\ edit'[c].kind \notin {"login", "env"}
                           /\ command'[c] \notin SessionCommands
    BY <1>1, <1>5 DEF Start, Goto, TypeOK, ClearEdit, AgentEdit, SessionCommands, EditCommands
  <2>4. Local(c)'
    BY <2>2, <2>3 DEF Local, Saving, Editing, UserSession, GoodEdit
  <2>5. QED BY <1>4, <2>1, <2>4
<1>6. ASSUME NEW c \in Invocations, OpenSession(c) PROVE IInv'
  <2> DEFINE view == LoadConfig(creds[profile[c]], shell[c])
  <2>1. UNCHANGED creds /\ \A d \in Invocations : d # c => SameFor(d)
    BY <1>1, <1>6 DEF OpenSession, Goto, Exit, SameFor, TypeOK, selfVars
  <2>2. /\ pc'[c] \in {"authorise", "exited"} /\ cfg'[c] = view /\ profile'[c] = profile[c]
        /\ pc'[c] = "authorise" /\ view.mode = "user" => view.rt # None /\ view.env # None
    BY <1>1, <1>6 DEF OpenSession, Goto, Exit, TypeOK, selfVars
  <2>3. pc'[c] = "authorise" /\ view.mode = "user" => Owned(view.rt, profile[c])
    BY <1>1, <2>2, GoodView
  <2>4. Local(c)'
    BY <1>3, <2>2, <2>3 DEF Local, Saving, Editing, UserSession, Owned, Kept
  <2>5. QED BY <1>4, <2>1, <2>4
<1>7. ASSUME NEW c \in Invocations, MintMachineToken(c) PROVE IInv'
  <2>1. UNCHANGED creds /\ \A d \in Invocations : d # c => SameFor(d)
    BY <1>1, <1>7 DEF MintMachineToken, Goto, Exit, SameFor, TypeOK, selfVars
  <2>2. pc'[c] \in {"call", "exited"} /\ cfg'[c].mode # "user"
    BY <1>1, <1>7 DEF MintMachineToken, Goto, Exit, TypeOK
  <2>3. Local(c)'
    BY <2>2 DEF Local, Saving, Editing, UserSession
  <2>4. QED BY <1>4, <2>1, <2>3
<1>8. ASSUME NEW c \in Invocations, IamRefresh(c) PROVE IInv'
  <2>1. UNCHANGED creds /\ \A d \in Invocations : d # c => SameFor(d)
    BY <1>1, <1>8 DEF IamRefresh, Goto, SameFor, TypeOK, selfVars
  <2>2. pc'[c] = "reply" /\ cfg' = cfg /\ profile' = profile /\ cfg[c].mode = "user"
    BY <1>1, <1>8 DEF IamRefresh, Goto, TypeOK, selfVars
  <2>3. cfg[c].env # None /\ Owned(cfg[c].rt, profile[c])
    BY <1>1, <1>8 DEF IamRefresh, Local, UserSession
  <2>4. reply'[c] # None => Owned(reply[c], profile[c])'
    <3>1. CASE UNCHANGED iamVars
      BY <1>1, <1>8, <2>2, <2>3, <3>1 DEF IamRefresh, Owned, iamVars, TypeOK, Unissued
    <3>2. CASE ~ UNCHANGED iamVars
      <4>1. PICK n \in Unissued : /\ issued' = [issued EXCEPT ![n] = issued[cfg[c].rt]]
                                  /\ reply' = [reply EXCEPT ![c] = n]
        BY <1>8, <3>2 DEF IamRefresh
      <4>2. issued'[n] = issued[cfg[c].rt] /\ reply'[c] = n /\ n \in RefreshTokens
        BY <1>1, <4>1 DEF TypeOK, Unissued
      <4>3. QED BY <2>2, <2>3, <4>2 DEF Owned
    <3>3. QED BY <3>1, <3>2
  <2>5. Local(c)'
    BY <1>3, <2>2, <2>3, <2>4 DEF Local, Saving, Editing, UserSession, Owned, Kept
  <2>6. QED BY <1>4, <2>1, <2>5
<1>9. ASSUME NEW c \in Invocations, ReceiveReply(c) PROVE IInv'
  <2>1. UNCHANGED creds /\ \A d \in Invocations : d # c => SameFor(d)
    BY <1>1, <1>9 DEF ReceiveReply, Goto, Exit, SameFor, TypeOK, selfVars
  <2>2. /\ pc'[c] \in {"call", "exited", "open"} /\ cfg' = cfg
        /\ profile' = profile /\ command' = command /\ issued' = issued
        /\ pc'[c] = "open" => reply[c] # None /\ edit'[c] = LoginEdit(reply[c], cfg[c].env)
    BY <1>1, <1>9 DEF ReceiveReply, Goto, Exit, TypeOK, selfVars, iamVars
  <2>3. UserSession(c) /\ cfg[c].mode = "user"
    BY <1>1, <1>9 DEF ReceiveReply, UserSession, Local
  <2>4. pc'[c] = "open" => GoodEdit(edit[c], profile[c])'
    <3>1. cfg[c].env # None
      BY <1>1, <2>3 DEF Local
    <3>2. reply[c] # None => Owned(reply[c], profile[c])
      BY <1>1, <1>9 DEF ReceiveReply, Local
    <3>3. LoginEdit(reply[c], cfg[c].env).kind = "login"
      BY DEF LoginEdit
    <3>4. /\ LoginEdit(reply[c], cfg[c].env).arg.env = cfg[c].env
          /\ LoginEdit(reply[c], cfg[c].env).arg.rt = reply[c]
      BY DEF LoginEdit, EmptySection
    <3>5. QED BY <2>2, <3>1, <3>2, <3>3, <3>4 DEF GoodEdit, Owned
  <2>5. Local(c)'
    BY <1>1, <2>2, <2>3, <2>4 DEF Local, Saving, Editing, UserSession, Owned
  <2>6. QED BY <1>4, <2>1, <2>5
<1>10. ASSUME NEW c \in Invocations, LoseReply(c) PROVE IInv'
  <2>1. UNCHANGED creds /\ \A d \in Invocations : d # c => SameFor(d)
    BY <1>1, <1>10 DEF LoseReply, Exit, SameFor, TypeOK, selfVars
  <2>2. pc'[c] = "exited"
    BY <1>1, <1>10 DEF LoseReply, Exit, TypeOK
  <2>3. QED BY <1>4, <2>1, <2>2 DEF Local, Saving, Editing, UserSession
<1>11. ASSUME NEW c \in Invocations, RefreshAgain(c) PROVE IInv'
  <2>1. UNCHANGED creds /\ \A d \in Invocations : d # c => SameFor(d)
    BY <1>1, <1>11 DEF RefreshAgain, Goto, SameFor, TypeOK, selfVars
  <2>2. pc'[c] = "authorise" /\ UNCHANGED <<cfg, profile, issued>>
    BY <1>1, <1>11 DEF RefreshAgain, Goto, TypeOK, selfVars, iamVars
  <2>3. UserSession(c)' => UserSession(c)
    BY <1>11, <2>2 DEF RefreshAgain, UserSession
  <2>4. QED BY <1>1, <1>4, <2>1, <2>2, <2>3 DEF Local, Saving, Editing, UserSession, Owned
<1>12. ASSUME NEW c \in Invocations, FinishSession(c) PROVE IInv'
  <2>1. UNCHANGED creds /\ \A d \in Invocations : d # c => SameFor(d)
    BY <1>1, <1>12 DEF FinishSession, Goto, Exit, SameFor, TypeOK, selfVars
  <2>2. /\ pc'[c] \in {"exited", "open"} /\ UNCHANGED <<cfg, profile, issued>>
        /\ pc'[c] = "open" => edit'[c].kind = "agent"
    BY <1>1, <1>12 DEF FinishSession, Goto, Exit, TypeOK, selfVars, iamVars, AgentEdit
  <2>3. UserSession(c)' => UserSession(c)
    BY <1>12, <2>2 DEF FinishSession, UserSession
  <2>4. Editing(c)' => GoodEdit(edit[c], profile[c])'
    BY <2>2 DEF Editing, Saving, GoodEdit
  <2>5. Local(c)'
    BY <1>1, <2>2, <2>3, <2>4 DEF Local, Saving, Editing, UserSession, Owned
  <2>6. QED BY <1>4, <2>1, <2>5
<1>13. ASSUME NEW c \in Invocations, Login(c) PROVE IInv'
  <2>1. UNCHANGED creds /\ \A d \in Invocations : d # c => SameFor(d)
    BY <1>1, <1>13 DEF Login, Goto, Exit, SameFor, TypeOK, selfVars
  <2>2. /\ pc'[c] \in {"exited", "open"} /\ UNCHANGED <<cfg, profile, command>>
        /\ command[c] = "login"
    BY <1>1, <1>13 DEF Login, Goto, Exit, TypeOK, selfVars, Local
  <2>3. pc'[c] = "open" => GoodEdit(edit[c], profile[c])'
    <3>1. SUFFICES ASSUME NEW n \in Unissued, NEW e \in IamEnvs, NEW cl \in LoginClients,
                          edit' = [edit EXCEPT ![c] = LoginEdit(n, e)],
                          issued' = [issued EXCEPT ![n] =
                                        [owner |-> profile[c], env |-> e, client |-> cl]]
                   PROVE  GoodEdit(edit[c], profile[c])'
      BY <1>1, <1>13 DEF Login, Exit, TypeOK
    <3>2. edit'[c] = LoginEdit(n, e) /\ n \in RefreshTokens
      BY <1>1, <3>1 DEF TypeOK, Unissued
    <3>3. /\ LoginEdit(n, e).kind = "login"
          /\ LoginEdit(n, e).arg.env = e /\ LoginEdit(n, e).arg.rt = n
      BY DEF LoginEdit, EmptySection
    <3>4. [owner |-> profile[c], env |-> e, client |-> cl] \in Grant
      BY <1>1, ClientsAssumption DEF TypeOK, Grant
    <3>5. issued'[n] = [owner |-> profile[c], env |-> e, client |-> cl]
      BY <1>1, <3>1, <3>2 DEF TypeOK
    <3>6. QED
      BY <2>2, <3>2, <3>3, <3>4, <3>5, NoneIsNoGrant, NoneIsNoValue DEF GoodEdit, Owned
  <2>4. command'[c] \notin SessionCommands
    BY <2>2 DEF SessionCommands
  <2>5. Local(c)'
    BY <2>2, <2>3, <2>4 DEF Local, Saving, Editing, UserSession
  <2>6. QED BY <1>4, <2>1, <2>5
<1>14. ASSUME NEW c \in Invocations, DecideEdit(c) PROVE IInv'
  <2>1. UNCHANGED creds /\ \A d \in Invocations : d # c => SameFor(d)
    BY <1>1, <1>14 DEF DecideEdit, Goto, Exit, SameFor, TypeOK, selfVars
  <2>2. /\ pc'[c] \in {"exited", "open"} /\ command' = command
        /\ command[c] \in EditCommands
    BY <1>1, <1>14 DEF DecideEdit, Goto, Exit, TypeOK, selfVars
  <2>3. pc'[c] = "open" => GoodEdit(edit[c], profile[c])'
    <3>1. \A id, secret : CredentialsEdit(id, secret).kind = "credentials"
      BY DEF CredentialsEdit
    <3>2. \A e : EnvEdit(e).kind = "env" /\ EnvEdit(e).arg.env = e
      BY DEF EnvEdit, EmptySection
    <3>3. pc'[c] = "open" => \/ edit'[c].kind = "credentials"
                             \/ \E e \in IamEnvs : edit'[c] = EnvEdit(e)
      <4>1. CASE command[c] \in {"configure", "set-id", "set-secret"}
        BY <1>1, <1>14, <3>1, <4>1 DEF DecideEdit, Goto, Exit, TypeOK
      <4>2. CASE command[c] = "set-env"
        BY <1>1, <1>14, <4>2 DEF DecideEdit, Goto, Exit, TypeOK
      <4>3. QED BY <2>2, <4>1, <4>2 DEF EditCommands
    <3>4. QED BY <3>2, <3>3, NoneIsNoValue DEF GoodEdit
  <2>4. command'[c] \notin SessionCommands
    BY <2>2 DEF SessionCommands, EditCommands
  <2>5. Local(c)'
    BY <2>2, <2>3, <2>4 DEF Local, Saving, Editing, UserSession
  <2>6. QED BY <1>4, <2>1, <2>5
<1>15. ASSUME NEW c \in Invocations, OpenFile(c) PROVE IInv'
  <2>1. UNCHANGED creds /\ \A d \in Invocations : d # c => SameFor(d)
    BY <1>1, <1>15 DEF OpenFile, Goto, Exit, SameFor, TypeOK, selfVars
  <2>2. /\ pc'[c] \in {"exited", "stage"} /\ UNCHANGED <<cfg, profile, command, edit, issued>>
        /\ pc'[c] = "stage" => out'[c] = Apply(creds, profile[c], edit[c])
    BY <1>1, <1>15 DEF OpenFile, Goto, Exit, TypeOK, selfVars, iamVars
  <2>3. Editing(c) /\ GoodEdit(edit[c], profile[c])
    BY <1>1, <1>15 DEF OpenFile, Editing, Local
  <2>4. GoodFile(Apply(creds, profile[c], edit[c]))
    BY <1>1, <2>3, GoodApply DEF TypeOK
  <2>5. (pc[c] = "stage" => GoodFile(out[c]))'
    BY <2>2, <2>4 DEF GoodFile, Owned
  <2>6. GoodEdit(edit[c], profile[c])'
    BY <2>2, <2>3 DEF GoodEdit, Owned
  <2>7. UserSession(c)' => UserSession(c)
    BY <2>2, <2>3 DEF UserSession, Editing, Saving
  <2>8. Local(c)'
    BY <1>1, <2>2, <2>5, <2>6, <2>7 DEF Local, Saving, Editing, Owned
  <2>9. QED BY <1>4, <2>1, <2>8
<1>16. ASSUME NEW c \in Invocations, CreateTemp(c) \/ WriteTemp(c) PROVE IInv'
  <2>1. UNCHANGED creds /\ \A d \in Invocations : d # c => SameFor(d)
    BY <1>1, <1>16 DEF CreateTemp, WriteTemp, Goto, SameFor, TypeOK, selfVars
  <2>2. /\ pc'[c] \in {"write", "rename"} /\ Saving(c)
        /\ UNCHANGED <<cfg, profile, command, edit, issued, out, reply>>
        /\ pc'[c] = "rename" => tmp'[c] = out[c]
    BY <1>1, <1>16 DEF CreateTemp, WriteTemp, Goto, TypeOK, selfVars, iamVars, Saving
  <2>3. Saving(c)' /\ (UserSession(c)' => UserSession(c))
    BY <2>2 DEF UserSession, Editing, Saving
  <2>4. Local(c)'
    <3>1. GoodFile(out[c])'
      BY <1>1, <2>2 DEF Local, GoodFile, Owned
    <3>2. GoodEdit(edit[c], profile[c])'
      BY <1>1, <2>2 DEF Local, Editing, GoodEdit, Owned
    <3>3. UserSession(c)' => (cfg[c].env # None /\ Owned(cfg[c].rt, profile[c]))'
      BY <1>1, <2>2, <2>3 DEF Local, Owned
    <3>4. QED BY <2>2, <3>1, <3>2, <3>3 DEF Local
  <2>5. QED BY <1>4, <2>1, <2>4
<1>17. ASSUME NEW c \in Invocations, Saving(c), AfterSave(c, "ok") \/ AfterSave(c, "failed"),
              UNCHANGED <<issued, command, profile, edit>>
       PROVE  Local(c)'
  <2>1. CASE ~ Rotating(c)
    <3>1. pc'[c] = "exited"
      BY <1>1, <1>17, <2>1 DEF AfterSave, Exit, TypeOK
    <3>2. QED BY <3>1 DEF Local, Saving, Editing, UserSession
  <2>2. CASE Rotating(c)
    <3>1. pc'[c] = "call" /\ cfg'[c] = [cfg[c] EXCEPT !.rt = edit[c].arg.rt]
      BY <1>1, <1>17, <2>2 DEF AfterSave, Goto, TypeOK
    <3>2. cfg[c] \in Section
      BY <1>1 DEF TypeOK
    <3>3. cfg'[c].rt = edit[c].arg.rt /\ cfg'[c].env = cfg[c].env /\ cfg'[c].mode = cfg[c].mode
      BY <3>1, <3>2 DEF Section
    <3>4. Owned(edit[c].arg.rt, profile[c])
      BY <1>1, <1>17, <2>2 DEF Rotating, Local, Editing, GoodEdit
    <3>5. cfg[c].mode = "user" => cfg[c].env # None
      BY <1>1, <1>17, <2>2 DEF Rotating, Local, UserSession, Editing
    <3>6. QED BY <1>17, <3>1, <3>3, <3>4, <3>5 DEF Local, Saving, Editing, UserSession, Owned
  <2>3. QED BY <2>1, <2>2
<1>18. ASSUME NEW c \in Invocations, Rename(c) PROVE IInv'
  <2>1. \A d \in Invocations : d # c => SameFor(d)
    BY <1>1, <1>18 DEF Rename, AfterSave, Goto, Exit, SameFor, TypeOK, selfVars
  <2>2. Saving(c) /\ AfterSave(c, "ok") /\ UNCHANGED <<issued, command, profile, edit>>
    BY <1>18 DEF Rename, Saving, selfVars, iamVars
  <2>3. creds' = out[c] /\ GoodFile(out[c])
    BY <1>1, <1>18, <2>2 DEF Rename, Local
  <2>4. GoodFile(creds)'
    BY <2>2, <2>3 DEF GoodFile, Owned
  <2>5. Local(c)'
    BY <1>17, <2>2
  <2>6. QED BY <1>1, <1>2, <1>3, <2>1, <2>4, <2>5, LocalKept DEF IInv
<1>19. ASSUME NEW c \in Invocations, SaveFails(c) PROVE IInv'
  <2>1. UNCHANGED creds /\ \A d \in Invocations : d # c => SameFor(d)
    BY <1>1, <1>19 DEF SaveFails, AfterSave, Goto, Exit, SameFor, TypeOK, selfVars
  <2>2. /\ Saving(c) /\ UNCHANGED <<issued, command, profile, edit>>
        /\ AfterSave(c, "ok") \/ AfterSave(c, "failed")
    BY <1>19 DEF SaveFails, Saving, selfVars, iamVars
  <2>3. QED BY <1>4, <1>17, <2>1, <2>2
<1>20. ASSUME NEW c \in Invocations, Killed(c) PROVE IInv'
  <2>1. UNCHANGED creds /\ \A d \in Invocations : d # c => SameFor(d)
    BY <1>1, <1>20 DEF Killed, Exit, SameFor, TypeOK, selfVars
  <2>2. pc'[c] = "exited"
    BY <1>1, <1>20 DEF Killed, Exit, TypeOK
  <2>3. QED BY <1>4, <2>1, <2>2 DEF Local, Saving, Editing, UserSession
<1>21. CASE UNCHANGED vars
  <2>1. UNCHANGED creds /\ \A d \in Invocations : SameFor(d)
    BY <1>21 DEF vars, SameFor
  <2>2. QED BY <1>1, <1>2, <1>3, <2>1, CredsKept, LocalKept DEF IInv
<1>22. QED
  BY <1>5, <1>6, <1>7, <1>8, <1>9, <1>10, <1>11, <1>12, <1>13, <1>14, <1>15, <1>16,
     <1>18, <1>19, <1>20, <1>21 DEF Next, Step, Terminating

-------------------------------------------------------------------------------
(* The inductive invariant holds in every reachable state. *)
THEOREM Invariance == Spec => []IInv
BY InitInv, StepInv, PTL DEF Spec

(* Every variable keeps its type; the part that matters is creds \in Files: *)
(* what is renamed over the credentials file is never a torn file.          *)
THEOREM TypeCorrect == Spec => []TypeOK
BY Invariance, PTL DEF IInv

(* No interleaving of stale rewrites, crashes and failed saves separates    *)
(* auth_mode, refresh_token and iam_env of a profile.                       *)
THEOREM LoginKeys == Spec => []LoginKeysTogether
<1>1. IInv => LoginKeysTogether
  BY DEF IInv, GoodFile, LoginKeysTogether
<1>2. QED BY <1>1, Invariance, PTL

(* A refresh token is only ever stored in, and presented for, the profile   *)
(* it was issued to.                                                        *)
THEOREM TokenOwners == Spec => []TokensStayInTheirProfile
<1>1. IInv => TokensStayInTheirProfile
  BY DEF IInv, GoodFile, Local, UserSession, Owned, TokensStayInTheirProfile, OwnTokens
<1>2. QED BY <1>1, Invariance, PTL

-------------------------------------------------------------------------------
(* The writers that a command calls. *)
Fits(k, kind) ==
    /\ kind = "credentials" => k \in CredentialWriters
    /\ kind = "agent" => k \in AgentWriters
    /\ kind = "login" => k \in SessionCommands \cup {"login"}
    /\ kind = "clear" => k = "logout"
    /\ kind = "env" => k = "set-env"

(* An invocation is where its command leads and makes an edit of its own.  *)
Orderly(c) ==
    /\ pc[c] \in {"authorise", "reply", "call"} => command[c] \in SessionCommands
    /\ pc[c] = "browser" => command[c] = "login"
    /\ Editing(c) => Fits(command[c], edit[c].kind)

(* A temporary file belongs to a save that is under way, or died.          *)
Tidy(c) ==
    tmp[c] # None => pc[c] \in {"write", "rename"} \/ (pc[c] = "exited" /\ result[c] = "killed")

-------------------------------------------------------------------------------
(* What a step of one invocation is to the others and to the file.         *)
OnlyOf(c) ==
    /\ \A d \in Invocations : d # c => SameFor(d) /\ result'[d] = result[d]
    /\ pc'[c] # "idle"
    /\ pc[c] # "idle" => command'[c] = command[c] /\ profile'[c] = profile[c]

NobodyRuns == Cardinality({d \in Invocations : Running(d)}) < Concurrency

Starting(c) ==
    /\ pc[c] = "idle" /\ NobodyRuns
    /\ UNCHANGED creds /\ out'[c] = out[c] /\ tmp'[c] = tmp[c]
    /\ pc'[c] \in {"load", "browser", "open"} /\ Orderly(c)'

Deciding(c) ==
    /\ Running(c) /\ ~Saving(c)
    /\ UNCHANGED creds /\ out'[c] = out[c] /\ tmp'[c] = tmp[c]
    /\ ~Saving(c)' /\ Orderly(c)'

Opening(c) ==
    /\ pc[c] = "open" /\ pc'[c] = "stage"
    /\ UNCHANGED creds /\ edit'[c] = edit[c] /\ tmp'[c] = tmp[c]
    /\ out'[c] = Apply(creds, profile[c], edit[c])

Writing(c) ==
    /\ Saving(c) /\ pc'[c] \in {"write", "rename"}
    /\ UNCHANGED creds /\ edit'[c] = edit[c] /\ out'[c] = out[c]

Returning(c) ==
    /\ pc'[c] \in {"call", "exited"}
    /\ pc'[c] = "call" => command[c] \in SessionCommands

Abandoning(c) ==
    /\ Saving(c) /\ Returning(c)
    /\ UNCHANGED creds /\ tmp'[c] = None

Renaming(c) ==
    /\ pc[c] = "rename" /\ Returning(c)
    /\ creds' = tmp[c] /\ tmp'[c] = None

Dying(c) ==
    /\ Running(c) /\ pc'[c] = "exited" /\ result'[c] = "killed"
    /\ UNCHANGED creds /\ tmp'[c] = tmp[c]

StepOf(c) ==
    /\ OnlyOf(c)
    /\ \/ Starting(c) \/ Deciding(c) \/ Opening(c) \/ Writing(c)
       \/ Abandoning(c) \/ Renaming(c) \/ Dying(c)

Takes(c) ==
    \/ \E k \in Commands, p \in Profiles, s \in ShellSettings : Start(c, k, p, s)
    \/ Step(c) \/ LoseReply(c) \/ SaveFails(c) \/ Killed(c)

LEMMA StepsOf ==
    ASSUME TypeOK, \A c \in Invocations : Orderly(c)
    PROVE  \A c \in Invocations : Takes(c) => StepOf(c)
<1>1. ASSUME NEW c \in Invocations, NEW k \in Commands, NEW p \in Profiles,
             NEW s \in ShellSettings, Start(c, k, p, s)
      PROVE  StepOf(c)
  <2>1. OnlyOf(c)
    BY <1>1 DEF Start, Goto, OnlyOf, SameFor, TypeOK
  <2>2. pc'[c] \in {"load", "browser", "open"} /\ command'[c] = k
    BY <1>1 DEF Start, Goto, TypeOK
  <2>3. pc'[c] = "browser" => k = "login"
    BY <1>1 DEF Start, Goto, TypeOK
  <2>4. pc'[c] = "open" => \/ k = "logout" /\ edit'[c].kind = "clear"
                           \/ k = "use-agent" /\ edit'[c].kind = "agent"
    BY <1>1 DEF Start, Goto, TypeOK, ClearEdit, AgentEdit
  <2>5. Orderly(c)'
    BY <2>2, <2>3, <2>4 DEF Orderly, Editing, Saving, Fits, AgentWriters
  <2>6. Starting(c)
    BY <1>1, <2>2, <2>5 DEF Start, Starting, NobodyRuns
  <2> QED BY <2>1, <2>6 DEF StepOf
<1>2. ASSUME NEW c \in Invocations, OpenSession(c) PROVE StepOf(c)
  <2>1. OnlyOf(c) /\ Deciding(c)
    BY <1>2 DEF OpenSession, Goto, Exit, selfVars, OnlyOf, SameFor, TypeOK,
                Deciding, Running, Saving, Editing, Orderly
  <2> QED BY <2>1 DEF StepOf
<1>3. ASSUME NEW c \in Invocations, MintMachineToken(c) PROVE StepOf(c)
  <2>1. OnlyOf(c) /\ Deciding(c)
    BY <1>3 DEF MintMachineToken, Goto, Exit, selfVars, OnlyOf, SameFor, TypeOK,
                Deciding, Running, Saving, Editing, Orderly
  <2> QED BY <2>1 DEF StepOf
<1>4. ASSUME NEW c \in Invocations, IamRefresh(c) PROVE StepOf(c)
  <2>1. OnlyOf(c) /\ Deciding(c)
    BY <1>4 DEF IamRefresh, Goto, Exit, selfVars, OnlyOf, SameFor, TypeOK,
                Deciding, Running, Saving, Editing, Orderly
  <2> QED BY <2>1 DEF StepOf
<1>5. ASSUME NEW c \in Invocations, ReceiveReply(c) PROVE StepOf(c)
  <2>1. OnlyOf(c)
    BY <1>5 DEF ReceiveReply, Goto, Exit, selfVars, OnlyOf, SameFor, TypeOK
  <2>2. /\ pc[c] = "reply" /\ pc'[c] \in {"exited", "call", "open"}
        /\ pc'[c] = "open" => edit'[c].kind = "login"
    BY <1>5 DEF ReceiveReply, Goto, Exit, TypeOK, LoginEdit
  <2>3. command'[c] = command[c] /\ command[c] \in SessionCommands
    BY <1>5, <2>2 DEF ReceiveReply, selfVars, Orderly
  <2>4. Orderly(c)'
    BY <2>2, <2>3 DEF Orderly, Editing, Saving, Fits
  <2>5. Deciding(c)
    BY <1>5, <2>2, <2>4 DEF ReceiveReply, Deciding, Running, Saving
  <2> QED BY <2>1, <2>5 DEF StepOf
<1>6. ASSUME NEW c \in Invocations, LoseReply(c) PROVE StepOf(c)
  <2>1. OnlyOf(c) /\ Deciding(c)
    BY <1>6 DEF LoseReply, Goto, Exit, selfVars, OnlyOf, SameFor, TypeOK,
                Deciding, Running, Saving, Editing, Orderly
  <2> QED BY <2>1 DEF StepOf
<1>7. ASSUME NEW c \in Invocations, RefreshAgain(c) PROVE StepOf(c)
  <2>1. OnlyOf(c) /\ Deciding(c)
    BY <1>7 DEF RefreshAgain, Goto, Exit, selfVars, OnlyOf, SameFor, TypeOK,
                Deciding, Running, Saving, Editing, Orderly
  <2> QED BY <2>1 DEF StepOf
<1>8. ASSUME NEW c \in Invocations, FinishSession(c) PROVE StepOf(c)
  <2>1. OnlyOf(c)
    BY <1>8 DEF FinishSession, Goto, Exit, selfVars, OnlyOf, SameFor, TypeOK
  <2>2. /\ pc[c] = "call" /\ pc'[c] \in {"exited", "open"} /\ command'[c] = command[c]
        /\ pc'[c] = "open" => command[c] = "create-agent" /\ edit'[c].kind = "agent"
    BY <1>8 DEF FinishSession, Goto, Exit, TypeOK, AgentEdit, selfVars
  <2>3. Orderly(c)'
    BY <2>2 DEF Orderly, Editing, Saving, Fits, AgentWriters
  <2>4. Deciding(c)
    BY <1>8, <2>2, <2>3 DEF FinishSession, Deciding, Running, Saving
  <2> QED BY <2>1, <2>4 DEF StepOf
<1>9. ASSUME NEW c \in Invocations, Login(c) PROVE StepOf(c)
  <2>1. OnlyOf(c)
    BY <1>9 DEF Login, Goto, Exit, selfVars, OnlyOf, SameFor, TypeOK
  <2>2. /\ pc[c] = "browser" /\ pc'[c] \in {"exited", "open"} /\ command'[c] = command[c]
        /\ pc'[c] = "open" => edit'[c].kind = "login"
    <3>1. /\ pc[c] = "browser" /\ pc'[c] \in {"exited", "open"} /\ command'[c] = command[c]
          /\ pc'[c] = "open" => \E n \in Unissued, e \in IamEnvs :
                                    edit' = [edit EXCEPT ![c] = LoginEdit(n, e)]
      BY <1>9 DEF Login, Goto, Exit, TypeOK, selfVars
    <3>2. \A n, e : LoginEdit(n, e).kind = "login"
      BY DEF LoginEdit
    <3> QED BY <3>1, <3>2 DEF TypeOK
  <2>3. Orderly(c)'
    BY <2>2 DEF Orderly, Editing, Saving, Fits
  <2>4. Deciding(c)
    BY <1>9, <2>2, <2>3 DEF Login, Deciding, Running, Saving
  <2> QED BY <2>1, <2>4 DEF StepOf
<1>10. ASSUME NEW c \in Invocations, DecideEdit(c) PROVE StepOf(c)
  <2>1. OnlyOf(c)
    BY <1>10 DEF DecideEdit, Goto, Exit, selfVars, OnlyOf, SameFor, TypeOK
  <2>2. /\ pc[c] = "load" /\ pc'[c] \in {"exited", "open"} /\ command'[c] = command[c]
        /\ pc'[c] = "open" =>
              \/ command[c] \in CredentialWriters /\ edit'[c].kind = "credentials"
              \/ command[c] = "set-env" /\ edit'[c].kind = "env"
    <3>1. /\ pc[c] = "load" /\ pc'[c] \in {"exited", "open"} /\ command'[c] = command[c]
          /\ pc'[c] = "open" =>
                \/ /\ command[c] \in CredentialWriters
                   /\ \E id, secret : edit' = [edit EXCEPT ![c] = CredentialsEdit(id, secret)]
                \/ /\ command[c] = "set-env"
                   /\ \E e : edit' = [edit EXCEPT ![c] = EnvEdit(e)]
      BY <1>10 DEF DecideEdit, Goto, Exit, TypeOK, selfVars, CredentialWriters
    <3>2. /\ \A id, secret : CredentialsEdit(id, secret).kind = "credentials"
          /\ \A e : EnvEdit(e).kind = "env"
      BY DEF CredentialsEdit, EnvEdit
    <3> QED BY <3>1, <3>2 DEF TypeOK
  <2>3. Orderly(c)'
    BY <2>2 DEF Orderly, Editing, Saving, Fits
  <2>4. Deciding(c)
    BY <1>10, <2>2, <2>3 DEF DecideEdit, Deciding, Running, Saving
  <2> QED BY <2>1, <2>4 DEF StepOf
<1>11. ASSUME NEW c \in Invocations, OpenFile(c) PROVE StepOf(c)
  <2>1. OnlyOf(c)
    BY <1>11 DEF OpenFile, Goto, Exit, selfVars, OnlyOf, SameFor, TypeOK
  <2>2. pc[c] = "open" /\ (Deciding(c) \/ Opening(c))
    BY <1>11 DEF OpenFile, Goto, Exit, TypeOK, Deciding, Opening, Running, Saving, Editing,
                 Orderly, selfVars
  <2> QED BY <2>1, <2>2 DEF StepOf
<1>12. ASSUME NEW c \in Invocations, CreateTemp(c) \/ WriteTemp(c) PROVE StepOf(c)
  <2>1. OnlyOf(c) /\ Writing(c)
    BY <1>12 DEF CreateTemp, WriteTemp, Goto, selfVars, OnlyOf, SameFor, TypeOK, Writing, Saving
  <2> QED BY <2>1 DEF StepOf
<1>13. ASSUME NEW c \in Invocations, Rename(c) \/ SaveFails(c) PROVE StepOf(c)
  <2>1. OnlyOf(c) /\ Returning(c)
    BY <1>13 DEF Rename, SaveFails, AfterSave, Rotating, Goto, Exit, selfVars, OnlyOf, SameFor,
                 TypeOK, Returning
  <2>2. Renaming(c) \/ Abandoning(c)
    BY <1>13, <2>1 DEF Rename, SaveFails, TypeOK, Renaming, Abandoning, Saving
  <2> QED BY <2>1, <2>2 DEF StepOf
<1>14. ASSUME NEW c \in Invocations, Killed(c) PROVE StepOf(c)
  <2>1. OnlyOf(c) /\ Dying(c)
    BY <1>14 DEF Killed, Goto, Exit, selfVars, OnlyOf, SameFor, TypeOK, Dying
  <2> QED BY <2>1 DEF StepOf
<1> QED
  BY <1>1, <1>2, <1>3, <1>4, <1>5, <1>6, <1>7, <1>8, <1>9, <1>10, <1>11, <1>12, <1>13,
     <1>14 DEF Takes, Step

LEMMA Steps ==
    ASSUME TypeOK, \A c \in Invocations : Orderly(c), Next
    PROVE  UNCHANGED vars \/ \E c \in Invocations : StepOf(c)
<1>1. UNCHANGED vars \/ \E c \in Invocations : Takes(c)
  BY DEF Next, Terminating, Takes
<1> QED BY <1>1, StepsOf

-------------------------------------------------------------------------------
(* Keys and their writers, at any concurrency: every copy that may be      *)
(* renamed differs from the file only in keys that some command has writers*)
(* for, and was started on that profile.                                   *)
Fitting(c) == Saving(c) => \A p \in Profiles : SameKeys(p, creds[p], out[c][p])

KInv == IInv /\ \A c \in Invocations : Orderly(c) /\ Tidy(c) /\ Fitting(c)

WriterSets == {CredentialWriters, AgentWriters, LoginWriters, EnvWriters}

(* Who ran on a profile has run on it for good. *)
LEMMA RanOnKept ==
    ASSUME NEW c \in Invocations, OnlyOf(c), NEW p \in Profiles, NEW K \in WriterSets, RanOn(p, K)
    PROVE  RanOn(p, K)'
<1>1. PICK d \in Invocations : pc[d] # "idle" /\ profile[d] = p /\ command[d] \in K
  BY DEF RanOn
<1>2. pc'[d] # "idle" /\ profile'[d] = p /\ command'[d] \in K
  BY <1>1 DEF OnlyOf, SameFor
<1> QED BY <1>2 DEF RanOn

(* What a command's edit changes is among the keys it writes. *)
LEMMA EditFits ==
    ASSUME TypeOK, NEW c \in Invocations, Orderly(c), Editing(c), NEW p \in Profiles
    PROVE  SameKeys(p, creds[p], Apply(creds, profile[c], edit[c])[p])
<1> DEFINE s == creds[p]
           e == edit[c]
<1>1. creds \in Files /\ profile[c] \in Profiles /\ e \in Edit /\ s \in Section
  BY DEF TypeOK, Files
<1>2. CASE p # profile[c]
  <2>1. Apply(creds, profile[c], e)[p] = s
    BY <1>1, <1>2, ApplyType
  <2> QED BY <2>1 DEF SameKeys
<1>3. CASE p = profile[c]
  <2>1. Apply(creds, profile[c], e)[p] = EditSection(s, e)
    BY <1>1, <1>3, ApplyType
  <2>2. \A K : command[c] \in K => RanOn(p, K)
    BY <1>3 DEF Editing, Saving, RanOn
  <2>3. Fits(command[c], e.kind) /\ e.kind \in EditKinds /\ e.arg \in Section
    BY <1>1 DEF Orderly, Edit
  <2>4. CASE e.kind = "credentials"
    <3>1. RanOn(p, CredentialWriters) /\ RanOn(p, LoginWriters)
      BY <2>2, <2>3, <2>4 DEF Fits, LoginWriters
    <3>2. EditSection(s, e).agent = s.agent /\ EditSection(s, e).env = s.env
      BY <1>1, <2>4 DEF EditSection, WriteCredentials, Section
    <3> QED BY <2>1, <3>1, <3>2 DEF SameKeys
  <2>5. CASE e.kind \in {"login", "clear"}
    <3>1. RanOn(p, LoginWriters) /\ RanOn(p, EnvWriters)
      BY <2>2, <2>3, <2>5 DEF Fits, LoginWriters, EnvWriters
    <3>2. LET t == EditSection(s, e)
          IN  t.id = s.id /\ t.secret = s.secret /\ t.agent = s.agent
      BY <1>1, <2>5 DEF EditSection, WriteLoginToken, ClearLoginToken, Section
    <3> QED BY <2>1, <3>1, <3>2 DEF SameKeys
  <2>6. CASE e.kind = "agent"
    <3>1. RanOn(p, AgentWriters)
      BY <2>2, <2>3, <2>6 DEF Fits
    <3>2. LET t == EditSection(s, e)
          IN  /\ t.id = s.id /\ t.secret = s.secret /\ t.rt = s.rt
              /\ t.mode = s.mode /\ t.env = s.env
      BY <1>1, <2>6 DEF EditSection, WriteAgentIdentity, Section
    <3> QED BY <2>1, <3>1, <3>2 DEF SameKeys
  <2>7. CASE e.kind = "env"
    <3>1. RanOn(p, EnvWriters)
      BY <2>2, <2>3, <2>7 DEF Fits, EnvWriters
    <3>2. LET t == EditSection(s, e)
          IN  /\ t.id = s.id /\ t.secret = s.secret /\ t.rt = s.rt
              /\ t.mode = s.mode /\ t.agent = s.agent
      BY <1>1, <2>7 DEF EditSection, WriteIamEnv, Section
    <3> QED BY <2>1, <3>1, <3>2 DEF SameKeys
  <2> QED BY <2>3, <2>4, <2>5, <2>6, <2>7 DEF EditKinds
<1> QED BY <1>2, <1>3

(* What a step makes of the file stays within the keys of the commands run.*)
LEMMA FileFits ==
    ASSUME KInv, NEW c \in Invocations, StepOf(c), NEW p \in Profiles
    PROVE  SameKeys(p, creds[p], creds'[p])
<1>1. CASE UNCHANGED creds
  BY <1>1 DEF SameKeys
<1>2. CASE Renaming(c)
  <2>1. Saving(c) /\ creds' = out[c]
    BY <1>2 DEF KInv, IInv, Local, Renaming, Saving
  <2> QED BY <2>1 DEF KInv, Fitting
<1> QED
  BY <1>1, <1>2 DEF StepOf, Starting, Deciding, Opening, Writing, Abandoning, Dying

LEMMA FittingStep ==
    ASSUME KInv, NEW c \in Invocations, StepOf(c), NEW d \in Invocations PROVE Fitting(d)'
<1> SUFFICES ASSUME Saving(d)', NEW p \in Profiles
             PROVE  SameKeys(p, creds[p], out[d][p])'
  BY DEF Fitting
<1>1. SameKeys(p, creds[p], creds'[p])
  BY FileFits
<1>2. SameKeys(p, creds[p], out'[d][p])
  <2>1. CASE d # c \/ Writing(c)
    <3>1. Saving(d) /\ out'[d] = out[d]
      BY <2>1 DEF StepOf, OnlyOf, SameFor, Saving, Writing
    <3> QED BY <3>1 DEF KInv, Fitting
  <2>2. CASE d = c /\ Opening(c)
    <3>1. Editing(c) /\ Orderly(c) /\ TypeOK
      BY <2>2 DEF Opening, Editing, KInv, IInv
    <3> QED BY <2>2, <3>1, EditFits DEF Opening
  <2>3. d = c => Writing(c) \/ Opening(c)
    BY DEF StepOf, Starting, Deciding, Abandoning, Renaming, Returning, Dying, Saving
  <2> QED BY <2>1, <2>2, <2>3
<1>3. SameKeys(p, creds'[p], out'[d][p])
  BY <1>1, <1>2 DEF SameKeys
<1>4. \A K \in WriterSets : RanOn(p, K) => RanOn(p, K)'
  BY RanOnKept DEF StepOf
<1> QED
  BY <1>3, <1>4 DEF SameKeys, WriterSets

LEMMA OrderlyStep ==
    ASSUME KInv, NEW c \in Invocations, StepOf(c), NEW d \in Invocations
    PROVE  Orderly(d)' /\ Tidy(d)'
<1>1. Orderly(d) /\ Tidy(d)
  BY DEF KInv
<1>2. CASE d # c
  BY <1>1, <1>2 DEF StepOf, OnlyOf, SameFor, Orderly, Editing, Saving, Tidy
<1>3. CASE d = c
  <2>1. Orderly(c) /\ Tidy(c) /\ OnlyOf(c)
    BY <1>1, <1>3 DEF StepOf
  <2>2. CASE Starting(c)
    BY <1>3, <2>1, <2>2 DEF Starting, Tidy
  <2>3. CASE Deciding(c)
    BY <1>3, <2>1, <2>3 DEF Deciding, Tidy, Running, Saving
  <2>4. CASE Opening(c)
    BY <1>3, <2>1, <2>4 DEF Opening, OnlyOf, Orderly, Tidy, Editing, Saving
  <2>5. CASE Writing(c)
    BY <1>3, <2>1, <2>5 DEF Writing, OnlyOf, Orderly, Tidy, Editing, Saving
  <2>6. CASE Abandoning(c) \/ Renaming(c)
    BY <1>3, <2>1, <2>6 DEF Abandoning, Renaming, Returning, OnlyOf, Orderly, Tidy, Editing, Saving
  <2>7. CASE Dying(c)
    BY <1>3, <2>1, <2>7 DEF Dying, OnlyOf, Orderly, Tidy, Editing, Saving
  <2> QED BY <1>3, <2>2, <2>3, <2>4, <2>5, <2>6, <2>7 DEF StepOf
<1> QED BY <1>2, <1>3

LEMMA InitKInv == Init => KInv
<1>1. Init => IInv
  BY InitInv
<1>2. ASSUME Init, NEW c \in Invocations PROVE Orderly(c) /\ Tidy(c) /\ Fitting(c)
  BY <1>2 DEF Init, Orderly, Tidy, Fitting, Editing, Saving
<1> QED BY <1>1, <1>2 DEF KInv

LEMMA NextKInv ==
    ASSUME KInv, [Next]_vars
    PROVE  KInv' /\ \A p \in Profiles : SameKeys(p, creds[p], creds'[p])
<1>1. IInv'
  BY StepInv DEF KInv
<1>2. CASE UNCHANGED vars
  <2>1. \A c \in Invocations : Orderly(c)' /\ Tidy(c)'
    BY <1>2 DEF KInv, vars, Orderly, Tidy, Editing, Saving
  <2>2. \A c \in Invocations : Fitting(c)'
    BY <1>2 DEF KInv, vars, Fitting, Saving, SameKeys, RanOn
  <2>3. \A p \in Profiles : SameKeys(p, creds[p], creds'[p])
    BY <1>2 DEF vars, SameKeys
  <2> QED BY <1>1, <2>1, <2>2, <2>3 DEF KInv
<1>3. ASSUME NEW c \in Invocations, StepOf(c)
      PROVE  KInv' /\ \A p \in Profiles : SameKeys(p, creds[p], creds'[p])
  BY <1>1, <1>3, OrderlyStep, FittingStep, FileFits DEF KInv
<1>4. TypeOK /\ \A c \in Invocations : Orderly(c)
  BY DEF KInv, IInv
<1> QED BY <1>2, <1>3, <1>4, Steps

LEMMA AlwaysKInv == Spec => []KInv
<1>1. KInv /\ [Next]_vars => KInv'
  BY NextKInv
<1> QED BY <1>1, InitKInv, PTL DEF Spec

(* Whatever interleaves, a key only changes in a profile that somebody ran *)
(* a command on which writes this key: the update functions of the writers *)
(* (writer.go, configure.go) touch no other key and no other section.      *)
THEOREM KeysAndWriters == Spec => KeysHaveTheirWriters
<1>1. KInv /\ [Next]_vars => [\A p \in Profiles : SameKeys(p, creds[p], creds'[p])]_vars
  BY NextKInv
<1> QED BY <1>1, AlwaysKInv, PTL DEF Spec, KeysHaveTheirWriters

(* No invocation that ends by itself leaves its temporary file behind:     *)
(* save (writer.go) renames it or removes it on each of its error paths.   *)
THEOREM TempFilesRemoved == Spec => []NoTempFileLeft
<1>1. KInv => NoTempFileLeft
  BY DEF KInv, Tidy, NoTempFileLeft
<1> QED BY <1>1, AlwaysKInv, PTL

-------------------------------------------------------------------------------
(* The refinement, for one invocation at a time: what an invocation renames*)
(* over the file is its edit of the file as it still is.                   *)
OneAtATime == IsFiniteSet(Invocations) /\ Concurrency <= 1

Alone == \A c, d \in Invocations : Running(c) /\ Running(d) => c = d

Fresh(c) == Saving(c) => out[c] = Apply(creds, profile[c], edit[c])

RInv == KInv /\ Alone /\ \A c \in Invocations : Fresh(c)

(* An invocation starts only where none runs. *)
LEMMA NobodyElse ==
    ASSUME OneAtATime, NobodyRuns, NEW d \in Invocations PROVE ~Running(d)
<1> DEFINE R == {e \in Invocations : Running(e)}
<1>1. IsFiniteSet(R)
  BY FS_Subset DEF OneAtATime
<1>2. Cardinality(R) \in Nat /\ Cardinality(R) < Concurrency /\ Concurrency <= 1 /\ Concurrency \in Nat
  BY <1>1, FS_CardinalityType, ConcurrencyAssumption DEF OneAtATime, NobodyRuns
<1>3. Cardinality(R) = 0
  BY <1>2
<1>4. R = {}
  BY <1>1, <1>3, FS_EmptySet
<1> QED BY <1>4

LEMMA OthersIdle ==
    ASSUME OneAtATime, RInv, NEW c \in Invocations, StepOf(c), NEW d \in Invocations, d # c
    PROVE  ~Running(d)
<1>1. CASE Starting(c)
  BY <1>1, NobodyElse DEF Starting
<1>2. CASE ~Starting(c)
  <2>1. Running(c)
    BY <1>2 DEF StepOf, Deciding, Opening, Writing, Abandoning, Renaming, Dying, Running, Saving
  <2> QED BY <2>1 DEF RInv, Alone
<1> QED BY <1>1, <1>2

LEMMA AloneStep == ASSUME OneAtATime, RInv, NEW c \in Invocations, StepOf(c) PROVE Alone'
<1>1. \A d \in Invocations : d # c => Running(d)' = Running(d)
  BY DEF StepOf, OnlyOf, SameFor, Running
<1> QED BY <1>1, OthersIdle DEF Alone

LEMMA FreshStep ==
    ASSUME OneAtATime, RInv, NEW c \in Invocations, StepOf(c), NEW d \in Invocations
    PROVE  Fresh(d)'
<1> SUFFICES ASSUME Saving(d)' PROVE (out[d] = Apply(creds, profile[d], edit[d]))'
  BY DEF Fresh
<1>1. d = c
  <2>1. Running(d)'
    BY DEF Saving, Running
  <2>2. CASE Running(c)'
    BY <2>1, <2>2, AloneStep DEF Alone
  <2>3. CASE ~Running(c)'
    <3>1. ASSUME d # c PROVE FALSE
      <4>1. Running(d)
        BY <2>1, <3>1 DEF StepOf, OnlyOf, SameFor, Running
      <4>2. ~Running(c)
        BY <3>1, <4>1 DEF RInv, Alone
      <4>3. Starting(c)
        BY <4>2 DEF StepOf, Deciding, Opening, Writing, Abandoning, Renaming, Dying, Running, Saving
      <4> QED BY <2>3, <4>3 DEF Starting, Running
    <3> QED BY <3>1
  <2> QED BY <2>2, <2>3
<1>2. Opening(c) \/ Writing(c)
  BY <1>1 DEF StepOf, Starting, Deciding, Abandoning, Renaming, Returning, Dying, Saving
<1>3. /\ creds' = creds /\ profile'[c] = profile[c] /\ edit'[c] = edit[c]
      /\ out'[c] = Apply(creds, profile[c], edit[c])
  <2>1. profile'[c] = profile[c]
    BY <1>2 DEF StepOf, OnlyOf, Opening, Writing, Saving
  <2>2. CASE Opening(c)
    BY <2>1, <2>2 DEF Opening
  <2>3. CASE Writing(c)
    BY <2>1, <2>3 DEF Writing, RInv, Fresh
  <2> QED BY <1>2, <2>2, <2>3
<1> QED BY <1>1, <1>3 DEF Apply

(* A whole edit of one profile is a step of the atomic store. *)
LEMMA EditIsAtomic ==
    ASSUME TypeOK, NEW c \in Invocations, GoodEdit(edit[c], profile[c]),
           creds' = Apply(creds, profile[c], edit[c])
    PROVE  Store!AtomicNext
<1> DEFINE p == profile[c]
           e == edit[c]
           s == creds[p]
<1>1. p \in Profiles /\ e.kind \in EditKinds /\ e.arg \in Section
  BY DEF TypeOK, Edit
<1>2. creds' = [creds EXCEPT ![p] = EditSection(s, e)]
  BY DEF Apply
<1>3. /\ e.arg.id \in KeyIds \cup {None} /\ e.arg.secret \in KeyIds \cup {None}
      /\ e.arg.agent \in Agents \cup {None} /\ e.arg.env \in IamEnvs \cup {None}
  BY <1>1 DEF Section
<1>4. CASE e.kind = "credentials"
  <2>1. EditSection(s, e) = WriteCredentials(s, e.arg.id, e.arg.secret)
    BY <1>4 DEF EditSection
  <2>3. Store!WriteCredentials(s, e.arg.id, e.arg.secret) = WriteCredentials(s, e.arg.id, e.arg.secret)
    BY DEF Store!WriteCredentials, WriteCredentials
  <2>4. Store!Set(p, Store!WriteCredentials(s, e.arg.id, e.arg.secret))
    BY <1>2, <2>1, <2>3 DEF Store!Set
  <2> QED BY <1>1, <1>3, <2>4 DEF Store!AtomicNext, Store!KeyIds, KeyIds
<1>5. CASE e.kind = "login"
  <2>1. EditSection(s, e) = WriteLoginToken(s, e.arg.rt, e.arg.env)
    BY <1>5 DEF EditSection
  <2>2. e.arg.rt \in RefreshTokens /\ e.arg.env \in IamEnvs
    BY <1>3, <1>5 DEF GoodEdit, Owned
  <2>3. Store!WriteLoginToken(s, e.arg.rt, e.arg.env) = WriteLoginToken(s, e.arg.rt, e.arg.env)
    BY DEF Store!WriteLoginToken, WriteLoginToken
  <2>4. Store!Set(p, Store!WriteLoginToken(s, e.arg.rt, e.arg.env))
    BY <1>2, <2>1, <2>3 DEF Store!Set
  <2> QED BY <1>1, <1>3, <2>2, <2>4 DEF Store!AtomicNext
<1>6. CASE e.kind = "clear"
  <2>1. EditSection(s, e) = ClearLoginToken(s)
    BY <1>6 DEF EditSection
  <2>3. Store!ClearLoginToken(s) = ClearLoginToken(s)
    BY DEF Store!ClearLoginToken, ClearLoginToken
  <2>4. Store!Set(p, Store!ClearLoginToken(s))
    BY <1>2, <2>1, <2>3 DEF Store!Set
  <2> QED BY <1>1, <1>3, <2>4 DEF Store!AtomicNext
<1>7. CASE e.kind = "agent"
  <2>1. EditSection(s, e) = WriteAgentIdentity(s, e.arg.agent)
    BY <1>7 DEF EditSection
  <2>3. Store!WriteAgentIdentity(s, e.arg.agent) = WriteAgentIdentity(s, e.arg.agent)
    BY DEF Store!WriteAgentIdentity, WriteAgentIdentity
  <2>4. Store!Set(p, Store!WriteAgentIdentity(s, e.arg.agent))
    BY <1>2, <2>1, <2>3 DEF Store!Set
  <2> QED BY <1>1, <1>3, <2>4 DEF Store!AtomicNext
<1>8. CASE e.kind = "env"
  <2>1. EditSection(s, e) = WriteIamEnv(s, e.arg.env)
    BY <1>8 DEF EditSection
  <2>2. e.arg.env \in IamEnvs
    BY <1>3, <1>8 DEF GoodEdit
  <2>3. Store!WriteIamEnv(s, e.arg.env) = WriteIamEnv(s, e.arg.env)
    BY DEF Store!WriteIamEnv, WriteIamEnv
  <2>4. Store!Set(p, Store!WriteIamEnv(s, e.arg.env))
    BY <1>2, <2>1, <2>3 DEF Store!Set
  <2> QED BY <1>1, <1>3, <2>2, <2>4 DEF Store!AtomicNext
<1> QED BY <1>1, <1>4, <1>5, <1>6, <1>7, <1>8 DEF EditKinds

LEMMA NextRInv ==
    ASSUME OneAtATime, RInv, [Next]_vars PROVE RInv' /\ [Store!AtomicNext]_creds
<1>1. KInv'
  BY NextKInv DEF RInv
<1>2. CASE UNCHANGED vars
  <2>1. Alone'
    BY <1>2 DEF RInv, Alone, Running, vars
  <2>2. \A c \in Invocations : Fresh(c)'
    BY <1>2 DEF RInv, Fresh, Saving, Apply, vars
  <2> QED BY <1>1, <1>2, <2>1, <2>2 DEF RInv, vars
<1>3. ASSUME NEW c \in Invocations, StepOf(c) PROVE RInv' /\ [Store!AtomicNext]_creds
  <2>1. RInv'
    BY <1>1, <1>3, AloneStep, FreshStep DEF RInv
  <2>2. CASE Renaming(c)
    <3>1. creds' = Apply(creds, profile[c], edit[c])
      BY <2>2 DEF Renaming, RInv, KInv, IInv, Local, Fresh, Saving
    <3>2. TypeOK /\ GoodEdit(edit[c], profile[c])
      BY <2>2 DEF Renaming, RInv, KInv, IInv, Local, Editing, Saving
    <3> QED BY <2>1, <3>1, <3>2, EditIsAtomic
  <2>3. CASE ~Renaming(c)
    <3>1. UNCHANGED creds
      BY <1>3, <2>3 DEF StepOf, Starting, Deciding, Opening, Writing, Abandoning, Dying
    <3> QED BY <2>1, <3>1
  <2> QED BY <2>2, <2>3
<1>4. TypeOK /\ \A c \in Invocations : Orderly(c)
  BY DEF RInv, KInv, IInv
<1> QED BY <1>2, <1>3, <1>4, Steps

LEMMA InitRInv == Init => RInv /\ Store!AtomicInit
<1> SUFFICES ASSUME Init PROVE RInv /\ Store!AtomicInit
  OBVIOUS
<1>1. KInv
  BY InitKInv
<1>2. Alone /\ \A c \in Invocations : Fresh(c)
  BY DEF Init, Alone, Fresh, Running, Saving
<1>3. creds \in Store!Files
  BY <1>1 DEF KInv, IInv, TypeOK, Files, Section, KeyIds, Store!Files, Store!Section, Store!KeyIds
<1> QED BY <1>1, <1>2, <1>3 DEF RInv, Store!AtomicInit

(* One invocation at a time, the credentials file is an atomic store: what *)
(* LoadConfig and save (writer.go) load, stage, fail or leave behind when  *)
(* they die does not show, and what is renamed is no older than the edit.  *)
THEOREM Refines == ASSUME OneAtATime PROVE Spec => Atomic
<1>1. Init => RInv /\ Store!AtomicInit
  BY InitRInv
<1>2. RInv /\ [Next]_vars => RInv' /\ [Store!AtomicNext]_creds
  BY NextRInv
<1> QED BY <1>1, <1>2, PTL DEF Spec, Atomic, Store!AtomicSpec

-------------------------------------------------------------------------------
(* What an invocation leaves behind, one at a time: the token that is      *)
(* stored is the last that IAM issued to the profile, or a session is about*)
(* to bring the one that replaces it.                                      *)
Bringing(c) ==
    \/ pc[c] = "reply" /\ reply[c] # None /\ reply[c] # cfg[c].rt
    \/ Editing(c) /\ Rotating(c)

LiveOrReplaced(p) ==
    creds[p].rt # None =>
        creds[p].rt \in live \/ \E c \in Invocations : Bringing(c) /\ profile[c] = p

(* A token that an invocation holds is for the environment it holds with   *)
(* it, and one that it brings is accepted; iam_env is edited only where no *)
(* token is stored.                                                        *)
Holding(c) ==
    /\ UserSession(c) => issued[cfg[c].rt].env = cfg[c].env
    /\ pc[c] = "reply" /\ reply[c] # None =>
          reply[c] \in live /\ issued[reply[c]].env = cfg[c].env
    /\ Editing(c) /\ edit[c].kind = "login" =>
          edit[c].arg.rt \in live /\ issued[edit[c].arg.rt].env = edit[c].arg.env
    /\ Editing(c) /\ Rotating(c) => edit[c].arg.env = cfg[c].env /\ cfg[c].mode = "user"
    /\ Editing(c) /\ edit[c].kind = "env" => creds[profile[c]].rt = None

Ended(c) == result[c] # "none" => pc[c] = "exited"

UInv ==
    /\ RInv /\ StoredTokenEnv
    /\ \A c \in Invocations : shell[c] # ShellVars /\ Holding(c) /\ Ended(c)
    /\ Undisturbed => \A p \in Profiles : LiveOrReplaced(p)

(* The assumptions: an invocation has not both variables of a key in its   *)
(* environment, where LoadConfig does not read the file; and no save fails,*)
(* where refresh goes on with a token that it could not store.             *)
Dependable ==
    OneAtATime /\ ShellVars \notin ShellSettings /\ "save" \notin Faults

(* What UInv says of the invocation that takes the step.                   *)
Before(c) ==
    /\ TypeOK /\ GoodFile(creds) /\ Local(c) /\ Orderly(c) /\ Fresh(c) /\ Kept
    /\ shell[c] # ShellVars /\ Holding(c) /\ Ended(c) /\ StoredTokenEnv

LEMMA ViewIsStored ==
    ASSUME NEW s \in Section, NEW sh, sh # ShellVars
    PROVE  /\ LoadConfig(s, sh).mode = s.mode /\ LoadConfig(s, sh).rt = s.rt
           /\ LoadConfig(s, sh).env = s.env
  BY DEF LoadConfig, Section

LEMMA ShellStep ==
    ASSUME TypeOK, Dependable, NEW c \in Invocations, Takes(c), NEW d \in Invocations,
           shell[d] # ShellVars
    PROVE  shell'[d] # ShellVars
<1>1. CASE \E k \in Commands, p \in Profiles, s \in ShellSettings : Start(c, k, p, s)
  BY <1>1 DEF Start, TypeOK, Dependable
<1>2. CASE ~\E k \in Commands, p \in Profiles, s \in ShellSettings : Start(c, k, p, s)
  <2>1. UNCHANGED shell
    BY <1>2 DEF Takes, Step, OpenSession, MintMachineToken, IamRefresh, ReceiveReply, RefreshAgain,
        FinishSession, Login, DecideEdit, OpenFile, CreateTemp, WriteTemp, Rename, LoseReply,
        SaveFails, Killed, selfVars
  <2> QED BY <2>1
<1> QED BY <1>1, <1>2

LEMMA EndedStep ==
    ASSUME TypeOK, NEW c \in Invocations, Takes(c), Ended(c)
    PROVE  Ended(c)' /\ (result'[c] # result[c] => result[c] = "none")
<1>1. pc[c] # "exited" /\ (UNCHANGED result \/ pc'[c] = "exited")
  <2> USE DEF Goto, Exit, TypeOK
  <2>1. CASE \E k \in Commands, p \in Profiles, s \in ShellSettings : Start(c, k, p, s)
    BY <2>1 DEF Start
  <2>2. CASE OpenSession(c) \/ MintMachineToken(c) \/ IamRefresh(c) \/ ReceiveReply(c)
             \/ RefreshAgain(c) \/ FinishSession(c)
    BY <2>2 DEF OpenSession, MintMachineToken, IamRefresh, ReceiveReply, RefreshAgain, FinishSession
  <2>3. CASE Login(c) \/ DecideEdit(c) \/ OpenFile(c) \/ CreateTemp(c) \/ WriteTemp(c)
             \/ LoseReply(c) \/ Killed(c)
    BY <2>3 DEF Login, DecideEdit, OpenFile, CreateTemp, WriteTemp, LoseReply, Killed, Running
  <2>4. CASE Rename(c) \/ SaveFails(c)
    BY <2>4 DEF Rename, SaveFails, AfterSave
  <2> QED BY <2>1, <2>2, <2>3, <2>4 DEF Takes, Step
<1> QED BY <1>1 DEF Ended

LEMMA LoginEditFields ==
    ASSUME NEW n, NEW e
    PROVE  LoginEdit(n, e).kind = "login" /\ LoginEdit(n, e).arg.rt = n /\ LoginEdit(n, e).arg.env = e
  BY DEF LoginEdit, EmptySection

LEMMA HoldingStep ==
    ASSUME NEW c \in Invocations, Before(c), Dependable, Takes(c) PROVE Holding(c)'
<1>0. /\ TypeOK /\ GoodFile(creds) /\ Local(c) /\ Orderly(c) /\ Kept
      /\ shell[c] # ShellVars /\ Holding(c) /\ StoredTokenEnv
  BY DEF Before
<1> USE DEF Goto, Exit
<1>1. CASE \E k \in Commands, p \in Profiles, s \in ShellSettings : Start(c, k, p, s)
  <2>1. PICK k \in Commands, p \in Profiles, s \in ShellSettings : Start(c, k, p, s)
    BY <1>1
  <2>2. pc'[c] \in {"load", "browser", "open"}
    BY <1>0, <2>1 DEF Start, TypeOK
  <2>3. pc'[c] = "open" => edit'[c].kind \in {"clear", "agent"}
    BY <1>0, <2>1 DEF Start, TypeOK, ClearEdit, AgentEdit
  <2>4. pc'[c] = "open" => command'[c] \notin SessionCommands
    BY <1>0, <2>1 DEF Start, TypeOK, SessionCommands
  <2> QED BY <2>2, <2>3, <2>4 DEF Holding, UserSession, Editing, Saving, Rotating
<1>2. CASE OpenSession(c)
  <2> DEFINE v == LoadConfig(creds[profile[c]], shell[c])
  <2>1. /\ pc'[c] \in {"authorise", "exited"} /\ UNCHANGED issued
        /\ pc'[c] = "authorise" => cfg'[c] = v /\ (v.mode = "user" => v.rt # None)
    BY <1>0, <1>2 DEF OpenSession, TypeOK, iamVars
  <2>2. creds[profile[c]] \in Section /\ profile[c] \in Profiles
    BY <1>0 DEF TypeOK, Files
  <2>3. v.mode = "user" /\ v.rt # None => issued[v.rt].env = v.env
    BY <1>0, <2>2, ViewIsStored DEF StoredTokenEnv
  <2> QED BY <2>1, <2>3 DEF Holding, UserSession, Editing, Saving
<1>3. CASE MintMachineToken(c)
  BY <1>0, <1>3 DEF MintMachineToken, TypeOK, Holding, UserSession, Editing, Saving
<1>4. CASE IamRefresh(c)
  <2> DEFINE t == cfg[c].rt
  <2>1. /\ pc'[c] = "reply" /\ cfg' = cfg /\ pc[c] = "authorise" /\ cfg[c].mode = "user"
    BY <1>0, <1>4 DEF IamRefresh, TypeOK
  <2>2. Owned(t, profile[c]) /\ issued[t].env = cfg[c].env
    BY <1>0, <2>1 DEF Local, Holding, UserSession
  <2>3. issued'[t].env = cfg[c].env
    BY <1>0, <2>2 DEF Kept, Owned
  <2>4. reply'[c] # None => reply'[c] \in live' /\ issued'[reply'[c]].env = cfg[c].env
    <3>1. CASE UNCHANGED iamVars /\ reply'[c] \in {None, t} /\ (reply'[c] = t => t \in live \/ t = None)
      BY <2>2, <3>1 DEF iamVars
    <3>2. ASSUME NEW n \in Unissued, issued' = [issued EXCEPT ![n] = issued[t]],
                 live' = (live \ {t}) \cup {n}, reply'[c] = n
          PROVE  reply'[c] \in live' /\ issued'[reply'[c]].env = cfg[c].env
      BY <1>0, <2>2, <3>2 DEF TypeOK, Unissued
    <3> QED BY <1>0, <1>4, <3>1, <3>2 DEF IamRefresh, TypeOK, Unissued
  <2> QED BY <2>1, <2>3, <2>4 DEF Holding, Editing, Saving
<1>5. CASE ReceiveReply(c)
  <2>1. pc[c] = "reply" /\ UNCHANGED <<issued, live, cfg, command>> /\ cfg[c].mode = "user"
    BY <1>0, <1>5 DEF ReceiveReply, iamVars, selfVars, Local
  <2>2. \/ pc'[c] = "exited"
        \/ pc'[c] = "call"
        \/ pc'[c] = "open" /\ edit'[c] = LoginEdit(reply[c], cfg[c].env) /\ reply[c] # None
    BY <1>0, <1>5 DEF ReceiveReply, TypeOK
  <2>3. /\ LoginEdit(reply[c], cfg[c].env).kind = "login"
        /\ LoginEdit(reply[c], cfg[c].env).arg.rt = reply[c]
        /\ LoginEdit(reply[c], cfg[c].env).arg.env = cfg[c].env
    BY LoginEditFields
  <2>4. issued[cfg[c].rt].env = cfg[c].env
    BY <1>0, <2>1 DEF Holding, UserSession
  <2> QED BY <1>0, <2>1, <2>2, <2>3, <2>4 DEF Holding, UserSession, Editing, Saving
<1>6. CASE RefreshAgain(c)
  BY <1>0, <1>6 DEF RefreshAgain, TypeOK, iamVars, Holding, UserSession, Editing, Saving
<1>7. CASE FinishSession(c)
  <2>1. /\ pc[c] = "call" /\ UNCHANGED <<issued, live, cfg, command>>
        /\ \/ pc'[c] = "exited"
           \/ pc'[c] = "open" /\ edit'[c].kind = "agent"
    BY <1>0, <1>7 DEF FinishSession, TypeOK, iamVars, selfVars, AgentEdit
  <2> QED BY <1>0, <2>1 DEF Holding, UserSession, Editing, Saving, Rotating
<1>8. CASE Login(c)
  <2>1. pc[c] = "browser" /\ UNCHANGED <<cfg, command>> /\ command[c] = "login"
    BY <1>0, <1>8 DEF Login, selfVars, Local
  <2>2. CASE pc'[c] = "exited"
    BY <2>2 DEF Holding, UserSession, Editing, Saving
  <2>3. ASSUME NEW n \in Unissued, NEW e \in IamEnvs, NEW cl \in LoginClients,
               issued' = [issued EXCEPT ![n] = [owner |-> profile[c], env |-> e, client |-> cl]],
               live' = live \cup {n}, edit'[c] = LoginEdit(n, e), pc'[c] = "open"
        PROVE  Holding(c)'
    <3>1. edit'[c].kind = "login" /\ edit'[c].arg.rt = n /\ edit'[c].arg.env = e
      BY <2>3, LoginEditFields
    <3>2. issued'[n].env = e /\ n \in live'
      BY <1>0, <2>3 DEF TypeOK, Unissued
    <3> QED BY <2>1, <2>3, <3>1, <3>2 DEF Holding, UserSession, Editing, Saving, Rotating, SessionCommands
  <2> QED BY <1>0, <1>8, <2>2, <2>3 DEF Login, TypeOK
<1>9. CASE DecideEdit(c)
  <2> DEFINE v == LoadConfig(creds[profile[c]], shell[c])
  <2>1. creds[profile[c]] \in Section /\ profile[c] \in Profiles
    BY <1>0 DEF TypeOK, Files
  <2>2. /\ UNCHANGED <<creds, profile, command>> /\ command[c] \in EditCommands
        /\ \/ pc'[c] = "exited"
           \/ pc'[c] = "open" /\ edit'[c].kind = "credentials"
           \/ pc'[c] = "open" /\ edit'[c].kind = "env" /\ v.mode # "user"
    <3>1. \/ pc'[c] = "exited"
          \/ /\ pc'[c] = "open"
             /\ \E id, secret : edit' = [edit EXCEPT ![c] = CredentialsEdit(id, secret)]
          \/ /\ pc'[c] = "open" /\ v.mode # "user"
             /\ \E e : edit' = [edit EXCEPT ![c] = EnvEdit(e)]
      BY <1>0, <1>9 DEF DecideEdit, TypeOK, MayRepoint
    <3>2. /\ \A id, secret : CredentialsEdit(id, secret).kind = "credentials"
          /\ \A e : EnvEdit(e).kind = "env"
      BY DEF CredentialsEdit, EnvEdit
    <3>3. UNCHANGED <<creds, profile, command>> /\ command[c] \in EditCommands
      BY <1>9 DEF DecideEdit, selfVars
    <3> QED BY <1>0, <3>1, <3>2, <3>3 DEF TypeOK
  <2>3. v.mode # "user" => creds[profile[c]].rt = None
    BY <1>0, <2>1, ViewIsStored DEF GoodFile, SectionWhole
  <2> QED BY <2>2, <2>3 DEF Holding, UserSession, Editing, Saving, Rotating, SessionCommands, EditCommands
<1>10. CASE OpenFile(c) \/ CreateTemp(c) \/ WriteTemp(c)
  <2>1. /\ UNCHANGED <<creds, issued, live, profile, command, cfg, edit>> /\ Editing(c)
        /\ pc'[c] \in {"exited", "stage", "write", "rename"}
    BY <1>0, <1>10 DEF OpenFile, CreateTemp, WriteTemp, TypeOK, iamVars, selfVars, Editing, Saving
  <2> QED BY <1>0, <2>1 DEF Holding, UserSession, Editing, Saving, Rotating
<1>11. CASE Rename(c)
  <2>1. /\ UNCHANGED <<issued, live, command, edit>> /\ Editing(c)
        /\ \/ pc'[c] = "exited"
           \/ pc'[c] = "call" /\ Rotating(c) /\ cfg' = [cfg EXCEPT ![c].rt = edit[c].arg.rt]
    BY <1>0, <1>11 DEF Rename, AfterSave, TypeOK, iamVars, selfVars, Editing, Saving
  <2>2. pc'[c] = "call" => cfg'[c].rt = edit[c].arg.rt /\ cfg'[c].env = cfg[c].env
    BY <1>0, <2>1 DEF TypeOK, Section
  <2>3. pc'[c] = "call" => issued[edit[c].arg.rt].env = cfg[c].env
    BY <1>0, <2>1 DEF Holding, Rotating
  <2> QED BY <2>1, <2>2, <2>3 DEF Holding, UserSession, Editing, Saving
<1>12. CASE LoseReply(c) \/ Killed(c)
  <2>1. pc'[c] = "exited"
    BY <1>0, <1>12 DEF LoseReply, Killed, TypeOK
  <2> QED BY <2>1 DEF Holding, UserSession, Editing, Saving
<1>13. ~SaveFails(c)
  BY DEF SaveFails, Dependable
<1> QED BY <1>1, <1>2, <1>3, <1>4, <1>5, <1>6, <1>7, <1>8, <1>9, <1>10, <1>11, <1>12, <1>13 DEF Takes, Step

(* The token of a profile that is renamed into the file.                   *)
LEMMA Renames ==
    ASSUME NEW c \in Invocations, Before(c), Rename(c)
    PROVE  /\ creds' = Apply(creds, profile[c], edit[c]) /\ Editing(c)
           /\ UNCHANGED <<issued, live>>
           /\ \A q \in Profiles : q # profile[c] => creds'[q] = creds[q]
           /\ creds'[profile[c]] = EditSection(creds[profile[c]], edit[c])
<1>1. creds' = Apply(creds, profile[c], edit[c]) /\ Editing(c) /\ UNCHANGED <<issued, live>>
  BY DEF Before, Rename, Local, Fresh, Saving, Editing, iamVars
<1>2. creds \in Files /\ profile[c] \in Profiles
  BY DEF Before, TypeOK
<1> QED BY <1>1, <1>2, ApplyType DEF Before, TypeOK, Apply, Files

(* What an edit makes of the token and the environment of a section.       *)
LEMMA EditedToken ==
    ASSUME NEW s \in Section, NEW e \in Edit
    PROVE  \/ EditSection(s, e).rt = None
           \/ /\ EditSection(s, e).rt = s.rt
              /\ EditSection(s, e).env = s.env \/ e.kind = "env"
              /\ e.kind # "login" \/ e.arg.rt = None
           \/ /\ e.kind = "login" /\ EditSection(s, e).rt = e.arg.rt
              /\ EditSection(s, e).env = e.arg.env
<1>1. e.arg \in Section /\ e.kind \in EditKinds
  BY DEF Edit
<1>2. CASE e.kind = "credentials"
  BY <1>1, <1>2 DEF EditSection, WriteCredentials, Section
<1>3. CASE e.kind = "login"
  BY <1>1, <1>3 DEF EditSection, WriteLoginToken, Section
<1>4. CASE e.kind = "clear"
  BY <1>1, <1>4 DEF EditSection, ClearLoginToken, Section
<1>5. CASE e.kind = "agent"
  BY <1>1, <1>5 DEF EditSection, WriteAgentIdentity, Section
<1>6. CASE e.kind = "env"
  BY <1>1, <1>6 DEF EditSection, WriteIamEnv, Section
<1> QED BY <1>1, <1>2, <1>3, <1>4, <1>5, <1>6 DEF EditKinds

LEMMA OnlyRenames ==
    ASSUME NEW c \in Invocations, Takes(c), ~Rename(c)
    PROVE  UNCHANGED creds
  BY DEF Takes, Step, Start, OpenSession, MintMachineToken, IamRefresh, ReceiveReply, RefreshAgain,
         FinishSession, Login, DecideEdit, OpenFile, CreateTemp, WriteTemp, LoseReply, SaveFails, Killed

LEMMA StoredEnvStep ==
    ASSUME NEW c \in Invocations, Before(c), Takes(c) PROVE StoredTokenEnv'
<1> SUFFICES ASSUME NEW q \in Profiles, creds'[q].rt # None
             PROVE  issued'[creds'[q].rt].env = creds'[q].env
  BY DEF StoredTokenEnv
<1>1. creds[q].rt # None => issued[creds[q].rt].env = creds[q].env
  BY DEF Before, StoredTokenEnv
<1>2. creds[q].rt # None => issued'[creds[q].rt] = issued[creds[q].rt]
  BY DEF Before, GoodFile, Owned, Kept
<1>3. CASE creds'[q] = creds[q]
  BY <1>1, <1>2, <1>3
<1>4. CASE Rename(c) /\ q = profile[c]
  <2> DEFINE s == creds[q]
             e == edit[c]
  <2>1. creds'[q] = EditSection(s, e) /\ UNCHANGED issued /\ Editing(c)
    BY <1>4, Renames
  <2>2. s \in Section /\ e \in Edit
    BY DEF Before, TypeOK, Files
  <2>3. e.kind = "env" => s.rt = None
    BY <1>4, <2>1 DEF Before, Holding
  <2>4. e.kind = "login" => issued[e.arg.rt].env = e.arg.env
    BY <2>1 DEF Before, Holding
  <2> QED BY <1>1, <2>1, <2>2, <2>3, <2>4, EditedToken
<1> QED BY <1>3, <1>4, OnlyRenames, Renames

LEMMA LiveStep ==
    ASSUME NEW c \in Invocations, Before(c), Takes(c), Dependable, Undisturbed',
           \A d \in Invocations : d # c => ~Running(d),
           \A p \in Profiles : LiveOrReplaced(p)
    PROVE  \A p \in Profiles : LiveOrReplaced(p)'
<1> SUFFICES ASSUME NEW q \in Profiles, creds'[q].rt # None
             PROVE  \/ creds'[q].rt \in live'
                    \/ Bringing(c)' /\ profile'[c] = q
  BY DEF LiveOrReplaced
<1>0. /\ TypeOK /\ GoodFile(creds) /\ Local(c) /\ Orderly(c) /\ Holding(c)
      /\ creds[q] \in Section /\ profile[c] \in Profiles /\ edit[c] \in Edit
  BY DEF Before, TypeOK, Files
<1>1. creds[q].rt # None => creds[q].rt \in live \/ (Bringing(c) /\ profile[c] = q)
  <2>1. \A d \in Invocations : Bringing(d) => Running(d)
    BY DEF Bringing, Running, Editing, Saving
  <2> QED BY <2>1 DEF LiveOrReplaced
<1> USE DEF Goto, Exit
<1>2. CASE Rename(c)
  <2>1. CASE q # profile[c]
    BY <1>1, <1>2, <2>1, Renames
  <2>2. CASE q = profile[c]
    <3>1. creds'[q] = EditSection(creds[q], edit[c]) /\ UNCHANGED live /\ Editing(c)
      BY <1>2, <2>2, Renames
    <3>2. edit[c].kind = "login" => edit[c].arg.rt \in live /\ edit[c].arg.rt # None
      BY <1>0, <3>1, NoneIsNoValue DEF Holding, Local, GoodEdit, Owned
    <3>3. Bringing(c) => edit[c].kind = "login"
      BY <3>1 DEF Bringing, Rotating, Editing, Saving
    <3> QED BY <1>0, <1>1, <3>1, <3>2, <3>3, EditedToken
  <2> QED BY <2>1, <2>2
<1>3. CASE IamRefresh(c)
  <2> DEFINE t == cfg[c].rt
  <2>1. /\ UNCHANGED <<creds, profile, cfg>> /\ pc[c] = "authorise" /\ pc'[c] = "reply"
        /\ cfg[c].mode = "user"
    BY <1>0, <1>3 DEF IamRefresh, selfVars, TypeOK
  <2>2. creds[q].rt \in live /\ Owned(creds[q].rt, q)
    BY <1>0, <1>1, <2>1 DEF Bringing, Editing, Saving, GoodFile
  <2>3. Owned(t, profile[c])
    BY <1>0, <2>1 DEF Local, UserSession
  <2>4. CASE UNCHANGED iamVars
    BY <2>1, <2>2, <2>4 DEF iamVars
  <2>5. ASSUME NEW n \in Unissued, live' = (live \ {t}) \cup {n}, reply' = [reply EXCEPT ![c] = n]
        PROVE  creds[q].rt \in live' \/ (Bringing(c)' /\ profile[c] = q)
    <3>1. n # t /\ n # None /\ reply'[c] = n
      BY <1>0, <2>3, <2>5, NoneIsNoValue DEF Unissued, Owned, TypeOK
    <3>2. CASE q = profile[c]
      BY <2>1, <3>1, <3>2 DEF Bringing
    <3>3. CASE q # profile[c]
      BY <2>2, <2>3, <2>5, <3>3 DEF Owned
    <3> QED BY <3>2, <3>3
  <2> QED BY <1>3, <2>1, <2>4, <2>5 DEF IamRefresh
<1>4. CASE Login(c)
  <2>1. UNCHANGED creds /\ pc[c] = "browser" /\ live \subseteq live'
    BY <1>4 DEF Login, iamVars
  <2> QED BY <1>1, <2>1 DEF Bringing, Editing, Saving
<1>5. CASE ReceiveReply(c)
  <2>1. /\ UNCHANGED <<creds, live, profile, command>> /\ pc[c] = "reply"
        /\ reply[c] # None /\ reply[c] # cfg[c].rt =>
              pc'[c] = "open" /\ edit'[c] = LoginEdit(reply[c], cfg[c].env)
    BY <1>0, <1>5 DEF ReceiveReply, TypeOK, iamVars, selfVars
  <2>2. command[c] \in SessionCommands
    BY <1>0, <2>1 DEF Orderly
  <2> QED BY <1>1, <2>1, <2>2, LoginEditFields DEF Bringing, Editing, Saving, Rotating
<1>6. CASE OpenFile(c) \/ CreateTemp(c) \/ WriteTemp(c)
  <2>1. /\ UNCHANGED <<creds, live, profile, command, edit>> /\ Editing(c)
        /\ pc'[c] \in {"stage", "write", "rename"} \/ edit[c].kind = "clear"
    BY <1>0, <1>6 DEF OpenFile, CreateTemp, WriteTemp, TypeOK, iamVars, selfVars, Editing, Saving
  <2> QED BY <1>1, <2>1 DEF Bringing, Editing, Saving, Rotating
<1>7. CASE \/ \E k \in Commands, p \in Profiles, s \in ShellSettings : Start(c, k, p, s)
           \/ OpenSession(c) \/ MintMachineToken(c) \/ RefreshAgain(c) \/ FinishSession(c)
           \/ DecideEdit(c)
  <2>1. /\ UNCHANGED <<creds, live>>
        /\ pc[c] \in {"idle", "load", "authorise", "call"}
    BY <1>7 DEF Start, OpenSession, MintMachineToken, RefreshAgain, FinishSession, DecideEdit, iamVars
  <2> QED BY <1>1, <2>1 DEF Bringing, Editing, Saving
<1>8. ~LoseReply(c) /\ ~Killed(c)
  BY <1>0 DEF LoseReply, Killed, TypeOK, Undisturbed
<1>9. ~SaveFails(c)
  BY DEF SaveFails, Dependable
<1> QED BY <1>2, <1>3, <1>4, <1>5, <1>6, <1>7, <1>8, <1>9 DEF Takes, Step

LEMMA NextUInv == ASSUME Dependable, UInv, [Next]_vars PROVE UInv'
<1>1. RInv'
  BY NextRInv DEF UInv, Dependable
<1>2. CASE UNCHANGED vars
  <2>1. StoredTokenEnv' /\ \A c \in Invocations : (shell[c] # ShellVars)' /\ Holding(c)' /\ Ended(c)'
    BY <1>2 DEF UInv, vars, StoredTokenEnv, Holding, Ended, UserSession, Editing, Saving, Rotating
  <2>2. (Undisturbed => \A p \in Profiles : LiveOrReplaced(p))'
    BY <1>2 DEF UInv, vars, Undisturbed, LiveOrReplaced, Bringing, Editing, Saving, Rotating
  <2> QED BY <1>1, <2>1, <2>2 DEF UInv
<1>3. ASSUME NEW c \in Invocations, Takes(c) PROVE UInv'
  <2>1. StepOf(c) /\ OnlyOf(c)
    BY <1>3, StepsOf DEF UInv, RInv, KInv, IInv, StepOf
  <2>2. Before(c)
    BY GrantsKept DEF Before, UInv, RInv, KInv, IInv
  <2>3. \A d \in Invocations : d # c => ~Running(d) /\ SameFor(d) /\ result'[d] = result[d]
    BY <2>1, OthersIdle DEF UInv, Dependable, OnlyOf
  <2>4. \A d \in Invocations : (shell[d] # ShellVars)'
    BY <1>3, <2>2, ShellStep DEF UInv, Before
  <2>5. \A d \in Invocations : Ended(d)'
    BY <1>3, <2>2, <2>3, EndedStep DEF UInv, Before, Ended, SameFor
  <2>6. \A d \in Invocations : Holding(d)'
    <3>1. Holding(c)'
      BY <1>3, <2>2, HoldingStep
    <3>2. ASSUME NEW d \in Invocations, d # c PROVE Holding(d)'
      BY <2>3, <3>2 DEF SameFor, Running, Holding, UserSession, Editing, Saving
    <3> QED BY <3>1, <3>2
  <2>7. StoredTokenEnv'
    BY <1>3, <2>2, StoredEnvStep
  <2>8. ASSUME Undisturbed' PROVE \A p \in Profiles : LiveOrReplaced(p)'
    <3>1. Undisturbed
      BY <1>3, <2>2, <2>3, <2>8, EndedStep DEF Undisturbed, Before
    <3> QED BY <1>3, <2>2, <2>3, <2>8, <3>1, LiveStep DEF UInv
  <2> QED BY <1>1, <2>4, <2>5, <2>6, <2>7, <2>8 DEF UInv
<1> QED BY <1>2, <1>3 DEF Next, Terminating, Takes

LEMMA InitUInv == Init => UInv
<1> SUFFICES ASSUME Init PROVE UInv
  OBVIOUS
<1>1. RInv
  BY InitRInv
<1>2. \A p \in Profiles : creds[p].rt # None =>
          issued[creds[p].rt] = [owner |-> p, env |-> creds[p].env, client |-> "baked"]
  <2>1. SUFFICES ASSUME NEW p \in Profiles, creds[p].rt # None
                 PROVE  issued[creds[p].rt] =
                            [owner |-> p, env |-> creds[p].env, client |-> "baked"]
    OBVIOUS
  <2> DEFINE r == CHOOSE q \in Profiles : creds[q].rt = creds[p].rt
  <2>2. r \in Profiles /\ creds[r].rt = creds[p].rt
    OBVIOUS
  <2>3. Owned(creds[p].rt, p)
    BY <1>1, <2>1 DEF RInv, KInv, IInv, GoodFile
  <2>4. issued[creds[p].rt] = [owner |-> r, env |-> creds[r].env, client |-> "baked"]
    BY <2>3 DEF Init, Owned
  <2>5. r = p
    BY <2>3, <2>4 DEF Owned
  <2> QED BY <2>4, <2>5
<1>3. StoredTokenEnv /\ \A p \in Profiles : LiveOrReplaced(p)
  <2>1. \A p \in Profiles : creds[p].rt # None => creds[p].rt \in live
    BY <1>1, <1>2, NoneIsNoGrant DEF Init, RInv, KInv, IInv, GoodFile, Owned
  <2>2. ASSUME NEW p \in Profiles, creds[p].rt # None PROVE issued[creds[p].rt].env = creds[p].env
    <3>1. issued[creds[p].rt] = [owner |-> p, env |-> creds[p].env, client |-> "baked"]
      BY <1>2, <2>2
    <3> QED BY <3>1
  <2>3. StoredTokenEnv
    BY <2>2 DEF StoredTokenEnv
  <2> QED BY <2>1, <2>3 DEF LiveOrReplaced
<1>4. \A c \in Invocations : shell[c] # ShellVars /\ Holding(c) /\ Ended(c)
  BY DEF Init, ShellVars, Holding, UserSession, Editing, Saving, Ended
<1> QED BY <1>1, <1>3, <1>4 DEF UInv

(* What refresh (token_provider.go) and the writers leave behind between   *)
(* invocations that run one at a time: the stored token is one that IAM    *)
(* accepts, at the place where it was issued.                              *)
THEOREM StoredTokensServe == ASSUME Dependable PROVE Spec => []StoredTokenUsable
<1>1. UInv => StoredTokenUsable
  BY DEF UInv, StoredTokenUsable, StoredTokenLive, StoredTokenLiveAlways, Quiescent, StoredTokens,
         LiveOrReplaced, Bringing, Running, Editing, Saving
<1>2. UInv /\ [Next]_vars => UInv'
  BY NextUInv
<1> QED BY <1>1, <1>2, InitUInv, PTL DEF Spec
===============================================================================

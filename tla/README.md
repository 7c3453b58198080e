# Formal models of the GreenNode CLI

TLA+ modules for `grn`, the command line of the GreenNode cloud (Go, under
`go/`), the TLC configurations that check them and TLAPS proofs of the
properties that hold for every size. `grn` is a process that runs one command
and exits. What makes it hard is everything such a process shares: files in the
home directory that other invocations and other tools write too, a login token
that IAM replaces while it is used, lists and resources that other users of the
account change, calls whose answer may be lost after they took effect, and some
three hundred commands that each put fetch, preview, prompt and request in order
by hand. The models are about that; formatting, flag parsing and the contents of
request bodies are left out but for what is carried over from one to the next.

- [1 Inventory](#1-inventory)
- [2 Modules and code](#2-modules-and-code)
- [3 What the runs check](#3-what-the-runs-check)
- [4 Proofs](#4-proofs)
- [5 Where code and documentation differ](#5-where-code-and-documentation-differ)
- [6 What is not modelled](#6-what-is-not-modelled)
- [7 Plan](#7-plan)

Commands, in this directory: `tlc -config kubeconfig.cfg Kubeconfig` checks a
run (`PROJECT.json` names the module of each), `tlapm LoginListener_proof.tla`
checks a proof.

## 1 Inventory

| Component (`go/…`) | State it keeps | Operations | What is hard |
|---|---|---|---|
| credentials file, `internal/config/writer.go` | `~/.greennode/credentials`, one INI section per profile; a `.cfg-*` temporary file during a save | `WriteCredentials`, `WriteLoginToken`, `ClearLoginToken`, `WriteAgentIdentity`, `WriteIamEnv`, all of them load, edit one section, save by rename | no lock: two invocations interleave between load and rename; kills and failures inside `save` |
| config file, `internal/config/writer.go`, `config.go` | `~/.greennode/config`, and both files of the legacy directory `~/.greenode` | `WriteConfig`, `LoadConfig` with the overrides of the environment | which directory is read depends on what exists; values read before a prompt are written after it |
| token providers, `internal/auth`, `internal/cli/token_provider.go` | access token in memory, refresh token, the persist callback | `GetToken`, `RefreshToken`, `refresh`, `mint` | IAM rotates the refresh token: the old one is dead before the new one is stored |
| login, logout, `cmd/login`, `internal/login` | one browser flow; the stored login | `runLogin`, `runLogout`, the region prompt | everything between IAM's answer and the file |
| login listener, `internal/login/listen.go` | the loopback server, `l.code`, `l.cbErr`, four channels, three or more goroutines | `Serve`, `handle`, the watcher, the server goroutine | a second callback, a cancellation and the callback at once, `Shutdown` waiting for connections |
| configure, `cmd/configure` | none of its own | `configure`, `configure set`; `get`, `list` | writes two files, decides on what it loaded |
| shell completion, `internal/cli/completion.go` | none | `FlagFromAPI` | exits after two seconds under a running refresh |
| API client, `internal/client/client.go` | cached token, attempts | `requestRaw`, `request`, `GetAllPages` | retries, 401 and refresh inside the retry loop, cut bodies, pages that move |
| agentbase client, `internal/agentbase/client/client.go` | cached token | `doReq` | never applies an operation twice |
| agentbase deploy, `cmd/agentbase/deploy.go`, `runtime.go` | three services; nothing local | `up`, `destroy`, `pollRuntimeToTerminal` | lookup and create are two calls; lost answers; re-runs; a runtime that never settles |
| agentbase runtime update, `cmd/agentbase/runtime.go` | the versions of a runtime, at the API | `update` from flags or from a file, `latestVersion` | the request replaces everything; what is unset is carried over from a version read page by page |
| waiters and delete-cluster, `cmd/vks/wait*.go`, `delete_cluster.go`, `cmd/agentbase/{runtime,gateway,tools*}.go` | the resource | `runWaiter` with its evaluators, the agentbase pollers, `runDeleteCluster` | the resource changes under the poll and under the prompt |
| commands of vks, vserver, vdb and agentbase, `cmd/…` | none | some three hundred `RunE` of a few calls each | the order of checks, preview, prompt and request; updates that send back what they read |
| kubeconfig, `internal/kubeconfig`, `cmd/vks/update_kubeconfig.go` | the kubeconfig file, which other tools share | `generate-kubeconfig`, `update-kubeconfig` | written in place: truncate, then write; a cut file may parse; what `Config` does not name is dropped |
| PKCE, IAM response parsing; output, validation | none | pure functions | see [6](#6-what-is-not-modelled) |

How they interact. A command loads a profile (`LoadConfig`), builds a token
provider from it, and calls an API through one of the two clients; the client
asks the provider for a token and, on a 401, for another. The provider of a
login refreshes at IAM and calls back into the writer when IAM rotated. `login`
runs the listener, exchanges the code, writes the credentials file, prompts for
a region and writes the config file. `deploy` looks resources up by name in
paged lists, acts on them by id and polls. Every other command is a list of such
calls with checks and a prompt between them.

What makes each of them correct:

- *credentials file*: never torn; the keys of a login belong together; a token
  stays with its profile; nobody's keys change but by a command that owns them;
  no temporary file with secrets stays behind; used by one invocation at a time
  it is an atomic store.
- *token providers and login*: what is stored is what IAM accepts next, in the
  environment it was issued in.
- *listener*: a code only for its own nonce; nothing of the server outlives
  `Serve`; `Serve` returns.
- *configure, config file*: unrelated values survive; success means both files
  are written, and a written profile is found.
- *clients*: success was applied, and not more often than the retries allow; a
  final 401 is final; a call ends.
- *deploy*: one of each resource; a report without an error is true; what was
  deleted stays deleted.
- *runtime update*: made from a version that was current; what no flag named is
  kept; nobody lets every caller in by leaving a flag out.
- *waiters*: exit code 0 is true; a wait ends.
- *commands*: nothing is sent after a dry run or without consent; what passes a
  dry run no check of the real run refuses; an update keeps what no flag named; a
  request the API drops is warned about.
- *kubeconfig*: a context is whole and is not lost, and what was lost is repaired by
  the next update of it.
- *lists*: complete, and absence is absence.

`PROJECT.json` lists the hazards one by one, at their lines, with the properties
that would notice them going wrong.

## 2 Modules and code

`PROJECT.json` maps every definition to its lines. In outline:

**CredentialStore** is the credentials file as a value: a function from profiles
to sections with the keys `client_id`, `client_secret`, `auth_mode`,
`refresh_token`, `iam_env`, `agent_identity`; one operator per writer, named as in
`writer.go`; `LoadConfig` as the view a command gets of a section, with the
environment's credentials in front of it. `token_expires_at` moves with
`refresh_token` in every writer and is left out.

**CredentialSessions** composes that file with IAM and with invocations. An
invocation is a program counter over the steps between which another process
can run: `Start`, `OpenSession` or `DecideEdit` (LoadConfig and what follows
from it), `IamRefresh` (the server side of the refresh grant, which may rotate),
`ReceiveReply` (`LoginTokenProvider.refresh`: final rejection, same token, or a
rotated token to be persisted first), `OpenFile` (load and edit a copy),
`CreateTemp`, `WriteTemp`, `Rename` (`save`), and `SaveFails`, `LoseReply` and
`Killed` for what goes wrong at each of them. A rotation is a detour of a session:
`AfterSave` returns to the API call and adopts the new token whether or not it
was saved, as `refresh` does. `Killed` needs no fault for the command `complete`:
that is the two-second limit of `FlagFromAPI`. IAM (external) is `issued`, the
grant behind each token, and `live`, the tokens it accepts.

**AtomicCredentials** is the abstract store: it changes by one whole edit of one
profile made to its current content. `CredentialSessions` instantiates it
(`Store == INSTANCE AtomicCredentials WITH store <- creds`); `Atomic` is its
specification as a property.

**LoginListener** is one `Listener.Serve` with its goroutines: `Serve` itself
(`main`), the watcher of the context, the server goroutine, and a handler per
connection that takes `l.mu`, stores the code, stores the verdict on the nonce,
closes `l.received` and, deferred, starts `Shutdown` and unlocks. A `select` is
modelled as Go does it: one that is parked takes the first channel that becomes
ready, one that arrives later takes any that is ready. `Serve` reads `l.code`
without the mutex; while a handler is storing, the read may see the old, the new
or a torn string. `net/http` is external: `Shutdown` closes the listener, then
waits for the connections.

**ApiClient** is a call through `requestRaw` or `doReq` with the provider's
cached token. Tokens are numbers in the order of minting, the API refuses all up
to `revoked`; `effects` counts how often the API applied the operation. An answer
is a 2xx, 401, other 4xx, 5xx, a body cut off (the `ReadAll` error is dropped by
one client and not by the other), or none.

**Pages** is `GetAllPages` and the two lookups by name of `deploy`, page by page,
over a list that others append to, insert into and delete from.

**AgentDeploy** is `up` (in three forms) and `destroy` (in two) against the
identity, memory and runtime services, one action per API call, with
`pollRuntimeToTerminal` as `Poll`, shared by `Converge` and `AwaitDeleted` as the
code shares it, and `Timeout` for the command's deadline. Any call may be
`Refused`, or take effect and lose its answer; an invocation may be `Killed`.
`Schedules` says how many invocations run at once and how many in all. What the
repository does not say about the services is in the constant `Services`.

**RuntimeUpdate** is `agentbase runtime update` by several users on one runtime.
`ReadPage` is a round of `latestVersion`, whichever way the API orders the list, up
to page `MaxPages` (100 in the code);
`UpdateFromFlags` and `UpdateFromFile` build the request from the version that
read ended on, with `InboundAuth` and `ImageAuth` for the two blocks that are not
simply carried over. The model keeps three fields of a specification, one for
each rule the code has; the other fields follow the rule of `networkConfig`.

**ResourceWaits** is one waiter on one resource: `runWaiter` with
`EvaluateActive` and `EvaluateDeleted` (clusters and node groups), the poller of
runtimes, which that of gateways copies (`EvaluateRuntime`), and that of browsers
and code interpreters (`EvaluateTool`). Before it, a script may delete the
resource: `delete-cluster` with its read, preview, prompt and request, the
agentbase commands at once. The service moves the resource at will.

**CommandShapes**, **RemoteCommands** and the tables. Most commands of `grn` have
no state and no loop: their `RunE` is a list of steps. `CommandShapes` names the
steps (`check`, `read`, `derive`, `dryRun`, `confirm`, `warn`, `send`, …) and the
record a command is: its verb, its steps in the order of the code, which fields
its request resends as they were read, empties or carries as null, and whether
the API may answer 202 and do nothing. The input is such that one check of the
command refuses it, or none (`flaw`): of the flags (`check`), of the flags in a dry
run only (`dryCheck`), or against what was fetched (`derive`); so a table that puts
one of them behind `dryRun` is a command whose dry run does not foresee it.
`Unpredicted` names the commands of which that is known. `RemoteCommands` is an invocation that
goes through the steps, one action per kind of step, while other users change the
resource, answers are lost and `internal/client` sends a request again.
**VdbRelational**, **VdbMemorystore**, **VdbKafka**, **VdbPostgresql**,
**VserverCommands**, **VksCommands** and **AgentbaseCommands** give the steps of
each command, one definition per command or per group of commands with the same
`RunE`; the map names the functions. An update is reduced to two fields, any of
which the flags name. `MCRemoteCommands` is their union; commands of the same
shape are one member of it.

**ConfigFiles** is both files in both directories: `effectiveConfigDir`, what
`LoadConfig` finds, `configure`, `configure set` and the login's region prompt,
each as load, prompt, open, save. In it a credentials section is reduced to a key
and whether a login is active; `CredentialSessions` has the rest.

**Kubeconfig** is `generate-kubeconfig` and `update-kubeconfig`: the API's status,
`Merge` with its three upserts, and `os.WriteFile` as `Truncate`, `WriteSome` and
`Write`. A file is its clusters, contexts, users and current context, or `Corrupt`.
What `Load` takes from it (`Loaded`) has of a context the cluster and the user only,
as `contextBody` does: the namespace and the extensions of other tools' contexts,
one field `namespace` here, are gone at the next write. A write that is cut leaves
any beginning of the text (`Parts`): whole entries of the first sections, then one
that ends in the middle (`Cut`, or a context without a user), in the order of the
fields of `Config`, contexts before users; or a text that does not parse. Two writes
that overlap leave parts of both (`Spliced`).

**MCCredentials**, **MCConfigFiles**, **MCAgentDeploy** hold symmetry sets and
constant values. Operators commented `Mutant:` are plausible mistakes in the
definition that follows them; replacing the definition by one makes the named
property fail, which shows that the property depends on it.

## 3 What the runs check

All runs are exhaustive at their bounds. Times are for two workers.

| Run | Distinct states | Time | Shows |
|---|---|---|---|
| `creds_interleaved` | 1.29 M | 66 s | two concurrent invocations of any command on two profiles, killed, failing to save or losing an answer anywhere: `TypeOK` (the file is never torn), `LoginKeysTogether`, `TokensStayInTheirProfile`, `NoTempFileLeft`, `KeysHaveTheirWriters` |
| `creds_sequential` | 1.81 M | 77 s | one invocation at a time, also killed or left without an answer: the refinement `Atomic`, and `StoredTokenUsable`: the stored token is one IAM accepts, where it was issued |
| `login_listener` | 30 721 | 8 s | two callbacks of any kind, hanging connections, accept errors, cancellation: `SuccessNeedsNonce`, `ReturnsDrained`, `ServeReturns` |
| `api_client` | 12 830 | 1 s | two calls of either client: `OutcomeIsTrue`, `AppliesOncePerAttempt`, `CallEnds` |
| `pages` | 146 529 | 3 s | every list of up to five items, two changes of any kind, cut bodies: `PagesTypeOK` bounds the pages asked for; `ListsEverything`, `AbsentIsAbsent` hold while the list only grows at its end and no body is cut |
| `deploy` | 454 k | 27 s | three invocations of `up` and `destroy` one after the other, or two at once, with every fault: `OneOfEach`, `DeletedIsGone`, `ReportsAreTrue` |
| `resource_waits` | 7 678 | 2 s | the four kinds of waiter, alone or after a delete: `ExitZeroIsTrue`, `WaitEnds` |
| `runtime_update` | 318 k | 67 s | two users updating one runtime from flags and files, a page per version and two of three pages read: `ReadsTheLatest`, `OpenedOnPurpose`, `CarriedOver` |
| `commands` | 24 536 | 2 s | every command of the tables, two changes by others, one request sent again: `SentWithConsent`, `DryRunPredicts`, `DropsAreWarned`, `UnnamedKept` |
| `config_files` | 1.47 M | 59 s | three commands one after the other on two profiles, killed anywhere, fresh or legacy installation, any overrides: `UnrelatedPreserved`, `CommandsDeliver` |
| `kubeconfig` | 1.56 M | 68 s | two updates, also at once and killed anywhere, also amid the text: `ContextsWhole` while no write was cut, overlapped another or was read half done; `ContextsKept`: an update that no other overlaps keeps every context's cluster and credentials, and one whose write no other overlaps repairs its own context after a cut |
| `bug_lost_rotation` | | | `StoredTokenLive` fails, see [5](#5-where-code-and-documentation-differ) |

### Conditions that properties carry

Some guarantees hold only under a condition, and the property names it, so that
the run can include what breaks it: `Undisturbed` in `StoredTokenLive` (no
invocation was killed or lost IAM's answer), `credentials["legacy"] = NoFile` in
`UnrelatedPreserved` (an installation in the new directory), `OneAtATime` in `OneOfEach` and
`ReportsAreTrue`, `latest[u] = Len(versions)` in `CarriedOver` (nobody has made a
version since the read), `since` in `UnnamedKept` (what others changed between
the read and the request), `disturbed` in `Pages`, `torn` and `excused` in
`Kubeconfig` (a write was cut or overlapped another; the contexts that such an
update may have dropped), `MaxPages * PageSize` in `ReadsTheLatest` (the list is no
longer than what is read of it, or shows the newest first), `Unpredicted` in
`DryRunPredicts` (three commands by name). The same
property without its condition is the definition whose name ends in `Always`, or
the one that follows it; section 5 shows each of these violated.

### Bounds

- *Credentials*: two profiles are the least that show a stale rewrite harming a
  bystander; two concurrent invocations are the least for a lost update, and
  because an invocation reads the file once per write, a third adds a second
  victim and no new kind of overlap (the proofs of section 4 are for any number).
  `RefreshTokens` has three members: one per profile and one to rotate to. One
  access key, one agent, one environment in the concurrent run; two environments
  in the sequential run, where `StoredTokenEnv` needs them. `MaxRefreshes = 1`
  gives a session two refreshes, so a rotated token is used again. Shell
  credentials are off in both (`NoShell`), and on in `bug_env.cfg`.
- *Listener*: two requests, because what matters is one callback and one more.
- *ApiClient*: two calls, so that the second starts with a cached and possibly
  revoked token. A call mints at most one token for itself and one per attempt,
  that is five, so `MaxTokens = 10` is never the reason a token is missing.
- *Pages*: two items per page and up to five items give lists of zero to three
  pages, whole and broken; two changes let an insert and a delete combine.
- *AgentDeploy*: three sequential invocations allow up, destroy, up again, or an
  interrupted up, a re-run and a destroy; as many ids as invocations, so a create
  never lacks one.
- *ResourceWaits*: four attempts against a resource with seven statuses; an
  evaluator looks at one answer at a time, so more polls repeat what four show.
- *RuntimeUpdate*: a page holds one version, three are made and two pages are
  read, so a list grows past the last page that is read; the proofs are for any
  page size and numbers.
- *RemoteCommands*: two changes by others can both precede and follow a read, or
  change a status and change it back; one repetition of a request shows what the
  three of the code do. A check stands for all checks of its step.
- *ConfigFiles*: two regions that exist and one answer that does not, two values
  of each other setting, so that "kept" and "overwritten" differ; three commands,
  so that a command follows both a completed and an interrupted one.
- *Kubeconfig*: two clusters, two names of which one is another tool's, two
  updates. Credentials are generated once per cluster (`MaxVersion`): a renewal
  gives a name other credentials, and so does the other cluster; the proofs are
  for any number.

Symmetry is used where no liveness property is checked, over invocations,
profiles or ids that the specification and its properties treat alike.
Deadlock is checked in all passing runs; the disjuncts `Finished`, `AllEnded`,
`Exited`, `Returned` and `Terminating` stand for a program that has ended.

### Fairness

- `LoginListener`: weak fairness for each handler, the server goroutine, the
  watcher and `Serve`: the Go scheduler runs what can run, and a mutex that is
  released is acquired. Nothing is assumed of the browser, which may leave a
  request unfinished, or of the user.
- `ApiClient`: weak fairness for the steps of a call; a request that gets no
  answer is ended by the timeout of `http.Client` and is then a lost answer.
- `ResourceWaits`: weak fairness for the poll, none for the service.
- `AgentDeploy`: weak fairness for each invocation's steps, none for the services:
  a runtime may stay in CREATING. No property depends on it.
- `CredentialSessions`, `ConfigFiles`, `Kubeconfig`, `Pages`, `RuntimeUpdate`,
  `RemoteCommands`: none, no liveness is claimed of them.

## 4 Proofs

**CredentialSessions_proof** proves, for every set of profiles, tokens,
environments and invocations, any concurrency, any mix of commands and faults,
`TypeCorrect`, `LoginKeys` and `TokenOwners`: `TypeOK`, `LoginKeysTogether` and
`TokensStayInTheirProfile` are invariants of `Spec`.

`LoginKeysTogether` is not inductive: the file is replaced as a whole by copies
that other processes made earlier, so a statement about the file says nothing of
what the next rename brings. The inductive invariant `IInv` says it of every
copy that may be renamed: while an invocation is saving, its edited copy is a
`GoodFile` (sections whole, tokens of their own profile) and its temporary file,
once written, equals that copy; an edit that is decided but not yet applied
carries a token of its own profile and an environment (`GoodEdit`); and a session
of a login holds a token of its profile (`UserSession`). That this survives the
steps of others needs one fact about IAM, `GrantsKept`: an issued token is never
issued again to somebody else. The lemma `GoodApply` is the heart: each edit of a
good file by a good edit gives a good file.

It goes on from `IInv`. `KeysAndWriters` and
`TempFilesRemoved` (`KeysHaveTheirWriters`, `NoTempFileLeft`) hold at any
concurrency: the edit of an invocation is one that its command makes (`Orderly`),
and a temporary file belongs to a save that is under way or was killed (`Tidy`).
The first is again a statement about what the next rename brings, here compared
with a file that may have changed since the copy was made: a copy that may be
renamed differs from the file only in keys whose writers ran on that profile
(`Fitting`), the owner of the copy or whoever renamed meanwhile. A lost update
is among these; that is why `KeysHaveTheirWriters` does not exclude it.

`Refines` does: for finitely many invocations, one at a time (`OneAtATime`), every
step maps to one whole edit of the abstract store or to a stutter, faults and
kills included. While nobody else runs (`Alone`), what an invocation has staged is
the edit of the file as it still is (`Fresh`). The assumption cannot be dropped:
`bug_lost_rotation` is the counterexample for two.

`StoredTokensServe` (`StoredTokenUsable`) says what a user relies on: what one
invocation leaves behind serves the next. IAM kills a refresh token at the moment
it issues the next one, so between that answer and the rename the file holds a
dead token, and the property is not inductive. The invariant `UInv` says that a
stored token is live *or* an invocation of its profile is bringing the one that
replaces it (`LiveOrReplaced`, `Bringing`), that what is brought is live and of the
environment it will be stored with, and that `iam_env` is only edited where no
token is stored (`Holding`); an invocation that is left unfinished is killed or
without an answer (`Ended`), which is what the property excepts. It is proved under
`Dependable`: one invocation at a time (`bug_lost_rotation` otherwise), no complete
key pair in the shell (`bug_env` otherwise) and no failing save, after which refresh
goes on with a token that it could not store. Every other fault, and all commands
and clients, are included.

**LoginListener_proof** proves, for any number of requests, `TypeCorrect`,
`NonceGuards` (`SuccessNeedsNonce`) and `Drained` (`ReturnsDrained`). The
inductive invariant has four parts besides types: `Judged` (a handler that is past
its verdict has left an error if its request deserved one, and since `l.cbErr` is
only ever written with errors, no later handler takes it back), `Signalled`
(`l.received` is closed by a handler that is past its verdict, and `Serve` takes the
callback's branch only after that), `Honest` (a return without an error has such a
first callback, with the nonce) and `Closed` (the server goroutine ends only with
its port closed, and `Serve` leaves its select only with that goroutine's result).

The same module proves, of the two files of a profile, `ConfigTypeCorrect`
(`ConfigTypeOK`) for any profiles, commands and number of them at once, and for
commands that follow one another (`InTurn`; `bug_config_prompt` otherwise)
`UnrelatedFieldsKept` (`UnrelatedPreserved`) and `CommandsLeaveWhatTheyReport`
(`CommandsDeliver`), with every crash and every override included. Its invariant
`CInv` says what a command that is under way is holding: a copy that is still the
file (`Current`), for each setting it does not ask for no value at all before
`LoadConfig` (`Unanswered`) and afterwards what is stored now or what its
environment overrides (`Unasked`), corrected answers where the code corrects them
(`Corrected`), and, once it has turned to the config file, the credentials it
has saved (`Identified`), which is what makes `configure` true of both files.
`MissingAssumption` says that a section that is not there is no section.

**RemoteCommands_proof** proves all properties of the run `commands` for *every*
table of commands whose steps are in order, any number of changes by others and
of repeated requests: `TypeCorrect`, `AlwaysConsented`, `AlwaysPredicted`,
`AlwaysWarned`, `AlwaysKept`. Its hypothesis is `Tables`: every command is
`WellFormed`, that is, prompt and warning come before the request, there is one
request at most, a deletion through `internal/client` has a prompt, and an update
that resends fields has read them; and every command outside `Unpredicted` is
`Predictable`: each step that can refuse the input, comparisons with what was
fetched included, comes before the end of the dry run.
That the tables of this project satisfy it is checked by TLC
(`commands_in_order.cfg`, `InOrder`). So the theorems reduce what has to be
looked at for a new command to the order of its steps. The inductive invariant
says of each kind of step what is known once the program counter is past it:
`Checked`, `NotDry`, `Consented`, `Warned`, `Known`; `Counted` bounds the
repetitions and `NothingSentYet` holds before the request.

**RuntimeUpdate_proof** proves, for any number of users, page size, number of pages
that are read and number of versions, `TypeCorrect`, `AlwaysLatest` (`ReadsTheLatest`), `NeverOpenedSilently`
(`OpenedOnPurpose`) and `AlwaysCarriedOver` (`CarriedOver`). The invariant of the
first is that a reader which has not passed the page of the version that was
current when it began has still that page ahead of it (`Reading`): in the order
that lists the newest first, versions made meanwhile move it to later pages only,
and in the other order it stays. A read that ends at page `MaxPages` has in the
first order seen the newest version, and in the other the last that these pages
hold. The lemmas up to `PagesSuffice` give the
arithmetic of pages, from the definition of `\div`.

**ResourceWaits_proof** proves `TypeCorrect` and `ExitCodes` (`ExitZeroIsTrue`)
for any number of attempts and node groups. A poll reads the status of that
moment, so the invariant links status and memory: while a wait is polling, a
resource that is ACTIVE was recorded as such (`InService`), and an attempt is left.
A status that was reported as gone has no successor but gone.

**ApiClient_proof** proves, for both clients and any number of calls, tokens and
retries, `TypeCorrect`, `OutcomesAreTrue` (`OutcomeIsTrue`) and `AppliedOnce`
(`AppliesOncePerAttempt`). The invariant ties the answer that a call holds to what
made the API give it (`Answered`: a 2xx to an effect, a 401 to a token that was
revoked), keeps the token in flight equal to the cached one and newer than the
first after a refresh (`Tokens`), and counts effects against attempts (`Counted`):
a request that was refused as unauthorized has had none in its attempt, which is
why the resend adds none.

The same module proves, for any finite set of items and any page size,
`PagesTypeCorrect` (`PagesTypeOK`: no reader asks beyond the last page that the
longest list can have), `ReadsAll` (`ListsEverything`) and `AbsentIsTrue`
(`AbsentIsAbsent`). Until the list was disturbed, what `GetAllPages` has gathered is
the first pages of the list as it is now (`Gathered`), and what a lookup has passed
does not hold the name it wants (`Passed`); both survive an append because the
positions already read keep their items (`InsertIs`). `SliceIs`, `PageExists` and
`BeforeLastPage` are the arithmetic of pages and of `totalPage`.

**Kubeconfig_proof** proves, for any number of clusters, names and invocations at
once, `TypeCorrect`, `NoBrokenContext` (`ContextsWhole`) and `NoContextLost`
(`ContextsKept`). What an update is about to write holds the context of its
invocation, whatever it had loaded (`Ready`); while no write was cut, overlapped
another or was read half done (`~torn`) it is a whole file besides, so whichever of
two racing updates renders its text last, the file is whole. For `NoContextLost`
the invariant follows each context that is not `excused`: it is in the file, or the
one update that is writing has it in its copy; an update that another overlaps
excuses all contexts but its own, and the next one of a context takes it back.
Neither theorem speaks of namespaces, which `Load` drops. `KeysAssumption` says that the other tool's cluster
and user are not called like a context of this command: `upsert` would replace
them.

**AgentDeploy_proof** proves, for any number of invocations and ids, every schedule
and every fault, `TypeCorrect` and `NoDuplicates` (`OneOfEach`): while invocations
follow one another, nothing comes between a lookup that found nothing and the
create (`Alone`). `DeletedForGood` (`DeletedIsGone`) holds at any concurrency for
services that do not put a runtime back into service that is being deleted
(`Going`, `Deleted`; `bug_destroy_reverted` otherwise). `ReportsTrue`
(`ReportsAreTrue`) assumes in addition that lists leave out what is deleted
(`bug_up_deleted_memory` otherwise). Its invariant `SoFar` collects, step by step,
what an up has made and what a destroy has removed, and the failed services are
recorded in time for the final report (`failed`).

Assumptions are the named `ASSUME`s of the modules, all evaluated by TLC in the
runs: `None` is no value, first tokens differ between profiles, commands, faults
and waiters are among those that exist, sizes are positive. A theorem that needs
more says so itself, and the configuration named with it shows what happens
otherwise.

Model-checked only: liveness (`ServeReturns`, `CallEnds`, `WaitEnds`), which needs
fairness and ENABLED, and that the tables of commands are in order.

## 5 Where code and documentation differ

One run expects a violation. In `bug_lost_rotation` two sessions of different
profiles rotate at the same time; `WriteLoginToken` (`writer.go:128`) of the later
one renames a copy that still holds the other profile's dead token.
`docs/configuration.md:61` promises that a rotated token "is persisted so later
invocations keep working".

Further configurations show other disagreements; run them like the others. They
belong to the module in brackets.

| Configuration | Violates | The code | What it says |
|---|---|---|---|
| `bug_completion` [MCCredentials] | `StoredTokenLiveAlways` | `FlagFromAPI` (`completion.go:116`) exits under a goroutine that is between IAM's rotation and the save | `docs/configuration.md:61` as above |
| `bug_logout` [MCCredentials] | `LogoutForgets` | a rotation that lands after a concurrent logout stores the login again (`token_provider.go:81`) | `login.go:79` "Forget the cached GreenNode login refresh token" |
| `bug_env` [MCCredentials] | `StoredTokenEnv` | with `GRN_CLIENT_ID` and `GRN_CLIENT_SECRET` set, `LoadConfig` does not read `auth_mode`, and `configure set iam_env` repoints a login (`set.go:72`) | `set.go:67` "bound to the login token … so refuse" |
| `bug_client` [MCCredentials] | `StoredTokenClient` | after `login --client-id` the refresh presents the baked-in client (`token_provider.go:76`) | `token_provider.go:73` "the same client the refresh token was issued to" |
| `bug_listener_select` [LoginListener] | `CallbackReported` | a `Serve` late at its `select` may take the `serveErr` branch although the callback arrived (`listen.go:108`) | `listen.go:109` "exited on its own … without a callback" |
| `bug_up_twice` [MCAgentDeploy] | `OneOfEachAlways` | two concurrent `up` both look up before either creates | `deploy.go:231` "re-run is safe and idempotent" |
| `bug_up_deleted_memory` [MCAgentDeploy] | `ReportsAreTrue` | if the list returns soft-deleted memories, `findMemoryByName` takes one for existing | `docs/commands/agentbase/deploy/up.md:7` "if absent" |
| `bug_destroy_reverted` [MCAgentDeploy] | `DeletedIsGone` | ACTIVE ends every wait as a success, also that of destroy (`runtime.go:1122`) | `deploy.go:508` "waits for it to reach DELETED" |
| `bug_wait_failed` [ResourceWaits] | `FailureEndsWait` | `evaluateDeleted` (`wait.go:78`) keeps polling a cluster in ERROR or FAILED until its attempts are used up | `docs/commands/vks/wait.md:5` exits with 255 at such a status |
| `bug_preview` [ResourceWaits] | `PreviewIsComplete` | the preview reads one page (`delete_cluster.go:49`) | `docs/commands/vks/delete-cluster.md:5` "the list of node groups that will be removed" |
| `bug_pages` [RuntimeUpdate] | `ReadsTheLatestAlways` | `latestVersion` stops after page 100 (`runtime.go:1015`): with more versions than that, listed the oldest first, the update carries over the fields of an old one | `runtime.go:1010` "the entry with the highest version number, scanning every page of the versions list" |
| `bug_dry_run` [MCRemoteCommands] | `DryRunPredictsAlways` | `server create` and `volume create` look for a missing zone only in the real run (`server/create.go:126`), and `volume resize` fetches the volume, and can refuse what it finds, only after its dry run has ended (`volume/resize.go:78`) | `server/create.go:233` "All parameters are valid. Run without --dry-run to create the server." |
| `bug_config_prompt` [MCConfigFiles] | `UnrelatedPreservedAlways` | the login writes back values it read before its prompt (`login.go:299`) | `login.go:279` "preserved verbatim" |

Others need no configuration of their own: name the property in place of those of
the configuration (temporal ones under `PROPERTIES`), change the constant where
one is given, and TLC shows the trace.

| Property, in | The code | What it says |
|---|---|---|
| `ServesOneRequest`, `login_listener.cfg` | a second callback before `Shutdown` closes the listener overwrites the first one's fields | `listen.go:28` "serves exactly one request" |
| `DestroyedMessageTrue`, `deploy.cfg` | the closing line is printed whatever the steps' outcomes (`deploy.go:786`) | the line itself |
| `UnrelatedPreservedAlways`, `config_files.cfg` with `Legacy = FALSE` | `configure set` writes the overrides of the environment into the file (`set.go:52`) | `set.go:32` "unrelated fields are preserved" |
| `UnrelatedPreservedAlways`, `config_files.cfg` with `ShellVars = {}` | the first write of anything hides the legacy installation (`config.go:82`) | `config.go:77` "until the user re-runs `grn configure`, which migrates" |
| `RefreshesOnce`, `api_client.cfg` | the 401 branch is inside the retry loop | `client.go:302` "refresh token and retry once" |
| `TransientRetried`, `api_client.cfg` | a transport error of the resent request is returned at once (`client.go:316`) | `docs/index.md:38` "Automatic retry for transient errors" |
| `ListsEverythingAlways`, `pages.cfg` | the error of reading a body is dropped (`client.go:295`), so a lost page ends the list; a deletion moves an item to a page already read | `client.go:179` "fetches all pages" |
| `AbsentIsAbsentAlways`, `pages.cfg` | a resource that moves to an earlier page between two calls is reported absent (`deploy.go:612`) | `deploy.go:597` "nil … when no runtime of that name exists" |
| `ContextsKeptAlways`, `kubeconfig.cfg` | written in place and without a lock (`kubeconfig.go:84`, `:99`) | `kubeconfig_test.go:82` "existing context was dropped" is an error |
| `ContextsWholeAlways`, `kubeconfig.cfg` | a write that is cut before `users:` leaves a file that parses, with contexts whose users are missing (`kubeconfig.go:14`, `:84`) | no promise; a limit of writing in place |
| `NamespacesKept`, `kubeconfig.cfg` | `contextBody` (`kubeconfig.go:38`) has no namespace and no extensions, so every update drops them from the contexts of all other tools | `kubeconfig.go:12` "unknown fields survive a round-trip", said of clusters and users only |
| `DeleteIsConfirmed`, `resource_waits.cfg` | a runtime that goes back to ACTIVE ends the wait as a success | `runtime.go:1052` "Run 'grn agentbase runtime wait …' to confirm" |
| `CarriedOverAlways`, `runtime_update.cfg` | an update replaces a version that another user made after the read (`runtime.go:728`) | `runtime.go:655` "a field whose flags are left unset is carried over from the current version" |
| `CredentialsKept`, `runtime_update.cfg` | a username and a password without `--image-auth-enabled` yield `{enabled: false}`, which drops the stored ones | `runtime.go:661` "re-supply --image-auth-username/--image-auth-password" |
| `NothingTakenBack`, `commands.cfg` | the updates that send the whole resource back send what they read before the prompt, over what another user changed meanwhile (`secrules.go:138`, `topic/write.go:183`) | no promise; a limit of every update that resends |
| `NothingEmptied`, `commands.cfg` | `access agent-id update` sends a description that no flag named as null (`access.go:208`) | `access.go:200` "Only description and allowed return URLs can be modified" |
| `DeletesAskAlways`, `commands.cfg` | most deletes of `agentbase` and the two detaches of `vserver server` (an HTTP DELETE, `network_interface.go:150`, `:216`) send their request without a preview or a prompt | `docs/index.md:34` "Dry-run — Validate parameters before create/update/delete", `:35` "Delete Confirmation — Preview and confirm before destructive operations"; `conventions_test.go:82` exempts `agentbase` from the test of it |

Two more belong to what is left out: a POST of `internal/client` that was applied
and answered with a 5xx is sent again (`client.go:325`; `AppliesOncePerAttempt`
bounds how often), and `savePrivateKey` (`vserver/sshkey/helpers.go:208`) never
ends when `os.Stat` fails for another reason than a missing file.

## 6 What is not modelled

- *PKCE, URLs, IAM response parsing, pickers of a browser*: random strings,
  hashing and decoding without state.
- *output, validators, cobra wiring*: functions of their input.
- *Request and response bodies* of the commands in the tables: a resource is two
  fields, named by a flag or not. What a body looks like, and whether a check is
  the right one, is not a question these models answer; neither is `GetEndpoint`.
- *Other writes to local files*: the private key of `sshkey create` under a free
  name, and `--set-current` of `deploy up`, whose writer is that of `use-agent` in
  `CredentialSessions`.
- *The wait for a task of a code interpreter session* (`pollToolsTask`), whose
  statuses the code itself calls undocumented; the OAuth2 flow of an outbound
  provider, which the API runs.
- *What completions suggest*: only their calls are modelled.
- *Access token expiry as time*: `RefreshAgain` may happen at any call; the 60 s
  skew is one of its causes. Backoff sleeps and poll intervals are left out.
- *Symbolic links, permissions and a home directory on a network file system*: a
  rename is atomic here. That `save` does not sync before it renames, so that a
  power loss may leave an empty file, is a file system matter and left out.
- *Two commands inside one process*: there are none; concurrency within the
  process is in `LoginListener` and the completion's goroutine.

## 7 Plan

The order was: what several invocations share and cannot repair (credentials,
login), then what a call promises (clients, lists), then what is built on calls
(deploy, waiters, runtime update, the tables of commands), then the other files
(config, kubeconfig). This is done, and every safety property of the runs is
proved. What is left is a composition of AgentDeploy with Pages (a lookup that
misses what moved) and with ApiClient (which errors leave an effect behind);
`OneOfEach` then holds when no lookup misses.

---------------------------- MODULE RemoteCommands ----------------------------
(***************************************************************************)
(* One invocation of a command of grn that talks to an API, while other    *)
(* users of the account change the same resource between any two of its    *)
(* steps.  Commands is the set of commands (see CommandShapes); a check    *)
(* stands for all the checks of its step, the rest of the input being such *)
(* that only the API can refuse it.                                        *)
(***************************************************************************)
EXTENDS CommandShapes, Naturals

CONSTANTS
    Commands,
    Unpredicted,    \* the commands whose real run checks more than their dry run
    MaxChanges,     \* changes other users make meanwhile (bound)
    MaxResends      \* repetitions of a request by internal/client (bound)

ASSUME BoundsAssumption == MaxChanges \in Nat /\ MaxResends \in Nat

VARIABLES
    cmd, pc,
    dry, force,     \* --dry-run and --force
    flaw,           \* the step whose check the input fails, or 0
    named,          \* the fields the flags name
    resource,       \* who wrote each field last: "before", "us", "others" or, emptied, "nobody"
    active,         \* whether its status is ACTIVE
    seen,           \* the resource as the command fetched it
    fetched,
    since,          \* the fields others have changed since that
    answer,         \* to the prompt: "none", "yes" or "no"
    status,         \* what the warn step knows: "unread", "failed", "ACTIVE", "other", "stale"
    changes, resends,
    effects,        \* requests that were applied
    dropped,        \* a request was answered 202 and not applied
    exit            \* "running", then how the invocation ended

input     == <<cmd, dry, force, flaw, named>>
service   == <<resource, active, since, changes>>
knowledge == <<seen, fetched>>
outcome   == <<resends, effects, dropped>>
vars      == <<input, pc, service, knowledge, answer, status, outcome, exit>>

Writers == {"before", "us", "others", "nobody"}

TypeOK ==
    /\ cmd \in Commands /\ pc \in 1 .. Len(cmd.steps) + 1
    /\ dry \in BOOLEAN /\ force \in BOOLEAN
    /\ flaw \in 0 .. Len(cmd.steps)
    /\ named \subseteq Fields
    /\ resource \in [Fields -> Writers] /\ seen \in [Fields -> Writers]
    /\ active \in BOOLEAN /\ fetched \in BOOLEAN
    /\ since \subseteq Fields
    /\ answer \in {"none", "yes", "no"}
    /\ status \in {"unread", "failed", "ACTIVE", "other", "stale"}
    /\ changes \in 0 .. MaxChanges /\ resends \in 0 .. MaxResends
    /\ effects \in 0 .. MaxResends + 1
    /\ dropped \in BOOLEAN
    /\ exit \in {"running", "ok", "refused", "previewed", "declined", "failed"}
    /\ exit = "running" => pc <= Len(cmd.steps)

Init ==
    /\ cmd \in Commands /\ pc = 1
    /\ dry \in (IF Has(cmd, "dryRun") THEN BOOLEAN ELSE {FALSE})
    /\ force \in (IF Has(cmd, "confirm") THEN BOOLEAN ELSE {FALSE})
    /\ flaw \in {0} \cup Refusals(cmd)
    /\ named \in (IF cmd.verb = "update" THEN SUBSET Fields \ {{}} ELSE {{}})
    /\ resource = [f \in Fields |-> "before"]
    /\ seen = [f \in Fields |-> "nobody"]
    /\ active \in (IF cmd.deferred THEN BOOLEAN ELSE {TRUE})
    /\ fetched = FALSE /\ since = {}
    /\ answer = "none" /\ status = "unread"
    /\ changes = 0 /\ resends = 0
    /\ effects = 0 /\ dropped = FALSE
    /\ exit = "running"

-------------------------------------------------------------------------------
(* Other users.  Only a status that can make a request fall through counts.*)
OthersChange ==
    /\ exit = "running" /\ changes < MaxChanges
    /\ changes' = changes + 1
    /\ \/ \E f \in Fields :
            /\ cmd.verb = "update"
            /\ resource' = [resource EXCEPT ![f] = "others"]
            /\ since' = IF fetched THEN since \cup {f} ELSE since
            /\ UNCHANGED <<active, status>>
       \/ /\ cmd.deferred
          /\ active' = ~active
          /\ status' = IF status = "unread" THEN status ELSE "stale"
          /\ UNCHANGED <<resource, since>>
    /\ UNCHANGED <<input, pc, knowledge, answer, outcome, exit>>

-------------------------------------------------------------------------------
At(kind) == exit = "running" /\ cmd.steps[pc] = kind

Advance ==
    /\ pc' = pc + 1
    /\ exit' = IF pc = Len(cmd.steps) THEN "ok" ELSE "running"

End(how) == exit' = how /\ UNCHANGED pc

Check ==
    /\ At("check")
    /\ IF flaw = pc THEN End("refused") ELSE Advance
    /\ UNCHANGED <<input, service, knowledge, answer, status, outcome>>

DryCheck ==
    /\ At("dryCheck")
    /\ IF dry /\ flaw = pc THEN End("refused") ELSE Advance
    /\ UNCHANGED <<input, service, knowledge, answer, status, outcome>>

(* NewClient: no credentials, no project, an untrusted endpoint, a refresh *)
(* that IAM refuses.                                                       *)
BuildClient ==
    /\ At("client")
    /\ Advance \/ End("failed")
    /\ UNCHANGED <<input, service, knowledge, answer, status, outcome>>

(* Completion offers nothing and reports nothing. *)
TryClient ==
    /\ At("tryClient")
    /\ Advance \/ End("ok")
    /\ UNCHANGED <<input, service, knowledge, answer, status, outcome>>

Fetch == seen' = resource /\ fetched' = TRUE /\ since' = {}

Read ==
    /\ At("read")
    /\ \/ Fetch /\ Advance
       \/ End("failed") /\ UNCHANGED <<knowledge, since>>
    /\ UNCHANGED <<input, resource, active, changes, answer, status, outcome>>

(* The preview of a deletion; nothing of it is sent. *)
Look ==
    /\ At("look")
    /\ Advance
    /\ UNCHANGED <<input, service, knowledge, answer, status, outcome>>

Derive ==
    /\ At("derive")
    /\ IF flaw = pc THEN End("refused") ELSE Advance
    /\ UNCHANGED <<input, service, knowledge, answer, status, outcome>>

DryRun ==
    /\ At("dryRun")
    /\ IF dry THEN End("previewed") ELSE Advance
    /\ UNCHANGED <<input, service, knowledge, answer, status, outcome>>

(* Anything but yes, also the end of the input, is a no. *)
Confirm ==
    /\ At("confirm")
    /\ \/ force /\ UNCHANGED answer /\ Advance
       \/ ~force /\ answer' = "yes" /\ Advance
       \/ ~force /\ answer' = "no" /\ End("declined")
    /\ UNCHANGED <<input, service, knowledge, status, outcome>>

(* warnIfNotActive never stops the command.  The warning is printed exactly*)
(* when status is "other".                                                 *)
Warn ==
    /\ At("warn")
    /\ status' \in {"failed", IF active THEN "ACTIVE" ELSE "other"}
    /\ Advance
    /\ UNCHANGED <<input, service, knowledge, answer, outcome>>

-------------------------------------------------------------------------------
(* The request. *)
Sent(f) ==
    CASE f \in named       -> "us"
      [] f \in cmd.resent  -> seen[f]
      [] f \in cmd.emptied \cup cmd.nulled -> "nobody"
      [] OTHER             -> resource[f]

Sending == exit = "running" /\ cmd.steps[pc] \in Sends

Applied ==
    /\ resource' = [f \in Fields |-> IF cmd.verb = "update" THEN Sent(f) ELSE resource[f]]
    /\ effects' = effects + 1

(* Applied and answered. *)
SendSucceeds ==
    /\ Sending
    /\ ~cmd.deferred \/ active
    /\ Applied /\ Advance
    /\ UNCHANGED <<input, active, since, changes, knowledge, answer, status, resends, dropped>>

(* Answered 202, and not applied. *)
SendDropped ==
    /\ Sending
    /\ cmd.deferred /\ ~active
    /\ dropped' = TRUE /\ Advance
    /\ UNCHANGED <<input, service, knowledge, answer, status, resends, effects>>

(* Mutant: one attempt more than the client counts. *)
MayResendOnceMore == cmd.steps[pc] = "send" /\ resends <= MaxResends

(* Only internal/client repeats a request. *)
MayResend == cmd.steps[pc] = "send" /\ resends < MaxResends

(* The answer is lost or a 5xx, applied or not: internal/client sends the  *)
(* request again, the same one, and gives up in the end; the agentbase     *)
(* client gives up at once.                                                *)
SendUnanswered ==
    /\ Sending
    /\ \/ (~cmd.deferred \/ active) /\ Applied
       \/ UNCHANGED <<resource, effects>>
    /\ \/ MayResend /\ resends' = resends + 1 /\ UNCHANGED <<pc, exit>>
       \/ End("failed") /\ UNCHANGED resends
    /\ UNCHANGED <<input, active, since, changes, knowledge, answer, status, dropped>>

SendRefused ==
    /\ Sending
    /\ End("failed")
    /\ UNCHANGED <<input, service, knowledge, answer, status, outcome>>

(* The command fails although the change was made. *)
ReadBack ==
    /\ At("readBack")
    /\ Advance \/ End("failed")
    /\ UNCHANGED <<input, service, knowledge, answer, status, outcome>>

Save ==
    /\ At("save") \/ At("trySave")
    /\ Advance \/ (At("save") /\ End("failed"))
    /\ UNCHANGED <<input, service, knowledge, answer, status, outcome>>

Exited == exit # "running" /\ UNCHANGED vars

Send == SendSucceeds \/ SendDropped \/ SendUnanswered \/ SendRefused

Step ==
    \/ Check \/ DryCheck \/ BuildClient \/ TryClient
    \/ Read \/ Look \/ Derive \/ DryRun \/ Confirm \/ Warn
    \/ Send \/ ReadBack \/ Save

Next == Step \/ OthersChange \/ Exited

Spec == Init /\ [][Next]_vars

-------------------------------------------------------------------------------
(* "--dry-run for create/update/delete; --force + confirmation for delete":*)
(* a dry run changes nothing, a declined prompt changes nothing, a command *)
(* with a prompt sends nothing before a yes or under --force, and nothing  *)
(* is deleted through internal/client without one.                         *)
SentWithConsent ==
    effects > 0 \/ dropped =>
        /\ ~dry
        /\ answer # "no"
        /\ Has(cmd, "confirm") \/ (cmd.verb = "delete" /\ Has(cmd, "send")) =>
                force \/ answer = "yes"

(* "Sending only what changed would reset the rest": a field no flag names *)
(* keeps its value, also where the API wants the whole resource back.  The *)
(* one value the command can take back is one that another user wrote after*)
(* the command had read the resource, while its prompt was open.           *)
UnnamedKept ==
    [][cmd.verb = "update" /\ ~cmd.replaces /\ effects' > effects =>
        \A f \in Fields \ (named \cup since \cup cmd.nulled) :
            resource'[f] = resource[f]]_vars

(* The same, whatever others do meanwhile.  It does not hold.              *)
NothingTakenBack ==
    [][cmd.verb = "update" /\ ~cmd.replaces /\ effects' > effects =>
        \A f \in Fields \ (named \cup cmd.nulled) :
            resource'[f] = resource[f]]_vars

(* Only a command whose help says so empties a field no flag names.  It    *)
(* does not hold: access agent-id update sends its description as null.    *)
NothingEmptied ==
    [][cmd.verb = "update" /\ ~cmd.replaces /\ effects' > effects =>
        \A f \in Fields \ named : resource'[f] # "nobody"]_vars

(* "Dry-run - Validate parameters before create/update/delete": what passes*)
(* the dry run of a command no check of its real run refuses, neither of   *)
(* the flags nor against the resource, but for the commands of Unpredicted.*)
DryRunPredicts == exit = "previewed" /\ cmd \notin Unpredicted => flaw = 0

(* "All parameters are valid. Run without --dry-run to create the server.":*)
(* the same of every command.  It does not hold: vserver server create     *)
(* looks for a missing zone, and volume resize at the volume, only after.  *)
DryRunPredictsAlways == exit = "previewed" => flaw = 0

(* "The failure leaves no trace anywhere, so the command says so up front":*)
(* a change the API drops without a word is never reported as accepted     *)
(* without the warning, unless the status could not be read or another user*)
(* changed it after that.                                                  *)
DropsAreWarned == dropped => status \in {"other", "failed", "stale"}

(* "Delete Confirmation - Preview and confirm before destructive           *)
(* operations": whatever is deleted or detached was asked about.  It does  *)
(* not hold: agentbase deletes at once, and so do the two commands that    *)
(* detach interfaces from a server.                                        *)
DeletesAskAlways ==
    effects > 0 /\ cmd.verb \in {"delete", "detach"} => force \/ answer = "yes"

(* The order of the steps that the code takes care of, and all that the    *)
(* proofs ask of a table of commands.                                      *)
InOrder == WellFormed(cmd) /\ (cmd \in Unpredicted \/ Predictable(cmd))
===============================================================================

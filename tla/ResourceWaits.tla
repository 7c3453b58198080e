----------------------------- MODULE ResourceWaits -----------------------------
(***************************************************************************)
(* The waiters of grn on one resource, while its service and other users   *)
(* of the account act on it: `grn vks wait` on a cluster or a node group,  *)
(* `wait` of an agentbase runtime, gateway, browser or code interpreter.  A*)
(* script deletes the resource first and then waits, or only waits; `grn   *)
(* vks delete-cluster` shows what it is going to delete, the agentbase     *)
(* commands do not.                                                        *)
(*                                                                         *)
(* A poll is one GET, for vks one of client.Get, whose own retries are in  *)
(* ApiClient; here it brings a status, a 404, an error that polling cannot *)
(* resolve (400, 401, 403) or one that may pass.                           *)
(***************************************************************************)
EXTENDS FiniteSets, Naturals

CONSTANTS
    NodeGroups,
    PageSize,       \* node groups read for the preview of a delete
    MaxAttempts,    \* --max-attempts; for agentbase, polls within --timeout (bound)
    Waits           \* the waiters considered

ASSUME NodeGroupsAssumption == IsFiniteSet(NodeGroups)
ASSUME BoundsAssumption     == PageSize \in Nat \ {0} /\ MaxAttempts \in Nat \ {0}
ASSUME WaitsAssumption      == Waits \subseteq {"active", "deleted", "runtime", "tool"}

VARIABLES
    status,     \* of the resource, or "gone"
    groups,     \* the node groups of a cluster
    del,        \* the delete command
    shown,      \* the node groups its preview listed
    wait,       \* idle, polling, or how the waiter exited
    kind,       \* which waiter it is: vks active, vks deleted, ...
    attempt,    \* polls made
    seen,       \* what the last poll brought
    wasActive   \* the resource was ACTIVE at some moment since the wait began

vars == <<status, groups, del, shown, wait, kind, attempt, seen, wasActive>>

(* ERROR stands for all the failures a runtime or a gateway has names for, *)
(* FAILED is that of a tool, vks knows both; agentbase may answer DELETED  *)
(* before it answers 404.                                                  *)
Statuses == {"CREATING", "ACTIVE", "UPDATING", "DELETING", "ERROR", "FAILED", "DELETED"}
Answers  == Statuses \cup {"404", "permanent", "transient"}

Vks == kind \in {"active", "deleted"}

Failures == CASE kind = "runtime" -> {"ERROR"}
              [] kind = "tool"    -> {"FAILED"}
              [] OTHER            -> {"ERROR", "FAILED"}

TypeOK ==
    /\ status \in Statuses \cup {"gone"}
    /\ groups \subseteq NodeGroups /\ shown \subseteq NodeGroups
    /\ del \in {"idle", "preview groups", "confirm", "send", "skipped", "failed", "sent"}
    /\ wait \in {"idle", "polling", "done", "failed"}
    /\ kind \in Waits
    /\ attempt \in 0 .. MaxAttempts
    /\ seen \in Answers \cup {"nothing"}
    /\ wasActive \in BOOLEAN

Init ==
    /\ kind \in Waits
    /\ status \in {"CREATING", "ACTIVE", "UPDATING", "DELETING"} \cup Failures
    /\ groups \in SUBSET (IF Vks THEN NodeGroups ELSE {})
    /\ del = "idle" /\ shown = {}
    /\ wait = "idle" /\ attempt = 0 /\ seen = "nothing"
    /\ wasActive = FALSE

-------------------------------------------------------------------------------
(* The service: a deletion can fail, a failed one can be tried again, and  *)
(* an operation of another user can begin at any time.                     *)
Successors(s) ==
    CASE s \in {"CREATING", "UPDATING"} -> {"ACTIVE"} \cup Failures
      [] s = "ACTIVE"                   -> {"UPDATING", "DELETING"} \cup Failures
      [] s = "DELETING"                 -> {IF Vks THEN "gone" ELSE "DELETED", "ACTIVE"} \cup Failures
      [] s = "DELETED"                  -> {"gone"}
      [] s \in Failures                 -> {"UPDATING", "DELETING"}
      [] OTHER                          -> {}

MoveTo(s) ==
    /\ status' = s
    /\ wasActive' = (wasActive \/ (wait = "polling" /\ s = "ACTIVE"))

ResourceMoves ==
    /\ \E s \in Successors(status) : MoveTo(s)
    /\ UNCHANGED <<groups, del, shown, wait, kind, attempt, seen>>

-------------------------------------------------------------------------------
(* runDeleteCluster: read the cluster, read its node groups, confirm, send.*)
deleteVars == <<del, shown>>
waitVars   == <<wait, kind, attempt, seen, wasActive>>

ReadCluster ==
    /\ Vks /\ del = "idle" /\ wait = "idle"
    /\ del' \in (IF status = "gone" THEN {"failed"} ELSE {"preview groups", "failed"})
    /\ UNCHANGED <<status, groups, shown, waitVars>>

ReadNodeGroups ==
    /\ del = "preview groups"
    /\ \/ del' = "failed" /\ UNCHANGED shown
       \/ /\ del' = "confirm"
          /\ shown' \in {page \in SUBSET groups : Cardinality(page) =
                            IF Cardinality(groups) < PageSize THEN Cardinality(groups) ELSE PageSize}
    /\ UNCHANGED <<status, groups, waitVars>>

(* --dry-run or a prompt that is not answered with yes end it here. *)
Confirm ==
    /\ del = "confirm"
    /\ del' \in {"send", "skipped"}
    /\ UNCHANGED <<status, groups, shown, waitVars>>

(* The agentbase commands delete at once. *)
SendDelete ==
    /\ IF Vks THEN del = "send" ELSE del = "idle" /\ wait = "idle"
    /\ \/ status \notin {"gone", "DELETED"} /\ MoveTo("DELETING") /\ del' \in {"sent", "failed"}
       \/ del' = "failed" /\ UNCHANGED <<status, wasActive>>
    /\ UNCHANGED <<groups, shown, wait, kind, attempt, seen>>

-------------------------------------------------------------------------------
IsPermanent(answer) == answer = "permanent"

EvaluateActive(answer) ==
    CASE answer = "ACTIVE"                                   -> "done"
      [] answer \in {"ERROR", "FAILED", "404"}               -> "failed"
      [] IsPermanent(answer)                                 -> "failed"
      [] OTHER                                               -> "again"

(* Mutant: a cluster that is still being deleted counts as deleted. *)
DeletedOrDeleting(answer) ==
    CASE answer \in {"404", "DELETING"}                      -> "done"
      [] answer = "ACTIVE" \/ IsPermanent(answer)            -> "failed"
      [] OTHER                                               -> "again"

EvaluateDeleted(answer) ==
    CASE answer = "404"                                      -> "done"
      [] answer = "ACTIVE" \/ IsPermanent(answer)            -> "failed"
      [] OTHER                                               -> "again"

(* A runtime or a gateway is waited for after any command: both ends are   *)
(* good, and an error of the API is final, but for a 404.                  *)
EvaluateRuntime(answer) ==
    CASE answer \in {"ACTIVE", "DELETED", "404"}               -> "done"
      [] answer \in {"ERROR", "permanent", "transient"}        -> "failed"
      [] OTHER                                               -> "again"

EvaluateTool(answer) ==
    CASE answer = "ACTIVE"                                   -> "done"
      [] answer \in {"FAILED", "DELETED", "404", "permanent", "transient"} -> "failed"
      [] OTHER                                               -> "again"

Evaluate(answer) ==
    CASE kind = "active"  -> EvaluateActive(answer)
      [] kind = "deleted" -> EvaluateDeleted(answer)
      [] kind = "runtime" -> EvaluateRuntime(answer)
      [] kind = "tool"    -> EvaluateTool(answer)

StartWait ==
    /\ wait = "idle" /\ del \in {"idle", "sent"}
    /\ wait' = "polling" /\ wasActive' = (status = "ACTIVE")
    /\ UNCHANGED <<status, groups, deleteVars, kind, attempt, seen>>

(* Mutant: a poll that decides nothing is not counted. *)
PollUncounted ==
    /\ wait = "polling" /\ attempt < MaxAttempts
    /\ \E answer \in {IF status = "gone" THEN "404" ELSE status, "permanent", "transient"} :
        /\ seen' = answer
        /\ attempt' = IF Evaluate(answer) = "again" THEN attempt ELSE attempt + 1
        /\ wait' = CASE Evaluate(answer) = "done"   -> "done"
                     [] Evaluate(answer) = "failed" -> "failed"
                     [] OTHER -> IF attempt' = MaxAttempts THEN "failed" ELSE "polling"
    /\ UNCHANGED <<status, groups, deleteVars, kind, wasActive>>

(* Mutant: the attempts are compared before they are counted. *)
PollPastLast ==
    /\ wait = "polling"
    /\ attempt' = attempt + 1
    /\ \E answer \in {IF status = "gone" THEN "404" ELSE status, "permanent", "transient"} :
        /\ seen' = answer
        /\ wait' = CASE Evaluate(answer) = "done"   -> "done"
                     [] Evaluate(answer) = "failed" -> "failed"
                     [] OTHER -> IF attempt = MaxAttempts THEN "failed" ELSE "polling"
    /\ UNCHANGED <<status, groups, deleteVars, kind, wasActive>>

Poll ==
    /\ wait = "polling"
    /\ attempt' = attempt + 1
    /\ \E answer \in {IF status = "gone" THEN "404" ELSE status, "permanent", "transient"} :
        /\ seen' = answer
        /\ wait' = CASE Evaluate(answer) = "done"   -> "done"
                     [] Evaluate(answer) = "failed" -> "failed"
                     [] OTHER -> IF attempt' = MaxAttempts THEN "failed" ELSE "polling"
    /\ UNCHANGED <<status, groups, deleteVars, kind, wasActive>>

(* --timeout is over; a GET that is under way then fails with it. *)
TimeOut ==
    /\ wait = "polling" /\ ~Vks
    /\ wait' = "failed"
    /\ UNCHANGED <<status, groups, deleteVars, kind, attempt, seen, wasActive>>

Exited == (wait \in {"done", "failed"} \/ del \in {"skipped", "failed"}) /\ UNCHANGED vars

Next == \/ ResourceMoves
        \/ ReadCluster \/ ReadNodeGroups \/ Confirm \/ SendDelete
        \/ StartWait \/ Poll \/ TimeOut \/ Exited

(* The process of the waiter runs, so that its polls are used up; nothing  *)
(* is assumed of the service.                                              *)
Spec == Init /\ [][Next]_vars /\ WF_vars(Poll)

-------------------------------------------------------------------------------
(* Exit code 0 is to be relied on by the next line of a script: a resource *)
(* waited away is gone, whoever deleted it and whatever failed meanwhile,  *)
(* one waited for was in service while the wait lasted, and a runtime is   *)
(* one or the other.                                                       *)
ExitZeroIsTrue ==
    wait = "done" =>
        CASE kind = "deleted"             -> status = "gone"
          [] kind \in {"active", "tool"}  -> wasActive
          [] kind = "runtime"             -> wasActive \/ status \in {"DELETED", "gone"}

(* A wait ends, also when the resource never leaves a transient status or  *)
(* the API answers every poll with an error that may pass.                 *)
WaitEnds == wait = "polling" ~> wait \in {"done", "failed"}

(* "Run 'grn agentbase runtime wait' to confirm": a delete that was        *)
(* accepted and waited for with success has deleted.  It does not hold: a  *)
(* runtime that goes back to ACTIVE ends the wait well.                    *)
DeleteIsConfirmed == del = "sent" /\ wait = "done" => status \in {"DELETED", "gone"}

(* "Exits with code 255 if the resource reaches a terminal failure state   *)
(* (ERROR or FAILED)": a poll that sees one ends the wait.                 *)
FailureEndsWait == Vks /\ seen \in {"ERROR", "FAILED"} => wait # "polling"

(* The preview shows "the list of node groups that will be removed".       *)
PreviewIsComplete == del = "confirm" => shown = groups
===============================================================================

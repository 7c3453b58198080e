------------------------------ MODULE AgentDeploy ------------------------------
(***************************************************************************)
(* `grn agentbase deploy up` and `destroy` on one agent name, run several  *)
(* times, one after the other or at once.  deploy keeps no state of its    *)
(* own: an agent is the identity, memory and runtime that carry its name   *)
(* in three services, each looked up by name and then acted on by id, one  *)
(* API call after the other, none of them retried (agentbase/client).      *)
(*                                                                         *)
(* A call may be refused without effect or lose its answer after it took   *)
(* effect.  The services are external; what the repository leaves open     *)
(* about them is in Services.                                              *)
(***************************************************************************)
EXTENDS FiniteSets, Naturals

CONSTANTS
    Invocations,
    Commands,       \* which of AllCommands the invocations run
    Schedules,      \* pairs: how many run at once, and how many in all
    Ids,            \* ids of memories and of runtimes
    None,           \* no id
    Faults,         \* a subset of {"refused", "lost", "killed"}
    Services        \* a subset of {"lists deleted", "reverts"}

AllCommands == {"up", "up-no-wait", "up-stateless", "destroy", "destroy-purge"}

ASSUME CommandsAssumption == Commands \subseteq AllCommands
ASSUME IdsAssumption == /\ IsFiniteSet(Ids) /\ IsFiniteSet(Invocations) /\ None \notin Ids
                        /\ Cardinality(Invocations) <= Cardinality(Ids)
ASSUME FaultsAssumption == Faults \subseteq {"refused", "lost", "killed"}
ASSUME ServicesAssumption == Services \subseteq {"lists deleted", "reverts"}
ASSUME SchedulesAssumption == Schedules \subseteq (Nat \ {0}) \X Nat

VARIABLES
    schedule,   \* of this run
    identity,   \* whether the identity of this name exists
    memory,     \* status of each memory of this name
    runtime,    \* status of each runtime of this name
    cmd, pc,    \* of each invocation
    mem, rt,    \* the memory and the runtime it works on
    failed      \* the services whose step it reported as an error

services == <<identity, memory, runtime>>
locals   == <<cmd, mem, rt, failed>>
vars     == <<schedule, services, cmd, pc, mem, rt, failed>>

UpSteps      == {"identity", "create identity", "memory", "create memory", "runtime",
                 "create runtime", "converge"}
DestroySteps == {"find runtime", "delete runtime", "await deleted", "find memory",
                 "delete memory", "purge"}
Running      == UpSteps \cup DestroySteps

IsUp(i) == cmd[i] \in {"up", "up-no-wait", "up-stateless"}

(* No id is used before a lookup or a create has filled it in. *)
TypeOK ==
    /\ schedule \in Schedules
    /\ identity \in BOOLEAN
    /\ memory  \in [Ids -> {"unused", "ACTIVE", "DELETED"}]
    /\ runtime \in [Ids -> {"unused", "CREATING", "ACTIVE", "ERROR", "DELETING", "DELETED", "gone"}]
    /\ cmd \in [Invocations -> Commands \cup {"none"}]
    /\ pc  \in [Invocations -> Running \cup {"idle", "done", "killed"}]
    /\ mem \in [Invocations -> Ids \cup {None}]
    /\ rt  \in [Invocations -> Ids \cup {None}]
    /\ failed \in [Invocations -> SUBSET {"identity", "memory", "runtime"}]
    /\ \A i \in Invocations :
        /\ pc[i] \in {"converge", "delete runtime", "await deleted"} => rt[i] # None
        /\ pc[i] = "delete memory" => mem[i] # None

Init ==
    /\ schedule \in Schedules
    /\ identity = FALSE
    /\ memory = [r \in Ids |-> "unused"] /\ runtime = [r \in Ids |-> "unused"]
    /\ cmd = [i \in Invocations |-> "none"] /\ pc = [i \in Invocations |-> "idle"]
    /\ mem = [i \in Invocations |-> None] /\ rt = [i \in Invocations |-> None]
    /\ failed = [i \in Invocations |-> {}]

LiveRuntimes == {r \in Ids : runtime[r] \in {"CREATING", "ACTIVE", "ERROR", "DELETING"}}
LiveMemories == {m \in Ids : memory[m] = "ACTIVE"}

(* What the two lists return under the name.  A memory is soft-deleted; a  *)
(* runtime whose deletion completed is removed, or kept as DELETED.        *)
ListsDeleted == "lists deleted" \in Services
ListedMemories == LiveMemories \cup {m \in Ids : ListsDeleted /\ memory[m] = "DELETED"}
ListedRuntimes == LiveRuntimes \cup {r \in Ids : ListsDeleted /\ runtime[r] = "DELETED"}

-------------------------------------------------------------------------------
Goto(i, p) == pc' = [pc EXCEPT ![i] = p]

Service(step) ==
    CASE step \in {"identity", "create identity", "purge"} -> "identity"
      [] step \in {"memory", "create memory", "find memory", "delete memory"} -> "memory"
      [] OTHER -> "runtime"

(* Where an invocation goes on after an error and, but for the creates of  *)
(* up, after a success: up stops, destroy turns to the next service.       *)
AfterService(i) ==
    CASE IsUp(i) -> "done"
      [] cmd[i] \in {"destroy", "destroy-purge"} /\ Service(pc[i]) = "runtime" -> "find memory"
      [] cmd[i] = "destroy-purge" /\ Service(pc[i]) = "memory" -> "purge"
      [] OTHER -> "done"

(* The error of a step; what the invocation made before stays.             *)
Fail(i) ==
    /\ failed' = [failed EXCEPT ![i] = @ \cup {Service(pc[i])}]
    /\ Goto(i, AfterService(i))
    /\ UNCHANGED <<cmd, mem, rt>>

(* An API call that fails without effect. *)
Refused(i) ==
    /\ "refused" \in Faults /\ pc[i] \in Running
    /\ Fail(i)
    /\ UNCHANGED services

Start(i) ==
    /\ pc[i] = "idle"
    /\ Cardinality({j \in Invocations : pc[j] \in Running}) < schedule[1]
    /\ Cardinality({j \in Invocations : pc[j] # "idle"}) < schedule[2]
    /\ \E c \in Commands :
        /\ cmd' = [cmd EXCEPT ![i] = c]
        /\ Goto(i, IF c \in {"destroy", "destroy-purge"} THEN "find runtime" ELSE "identity")
    /\ UNCHANGED <<services, mem, rt, failed>>

-------------------------------------------------------------------------------
(* up: deployApplyIdentity, deployApplyMemory, deployApplyRuntime.         *)
AfterIdentity(i) == IF cmd[i] = "up-stateless" THEN "runtime" ELSE "memory"

LookUpIdentity(i) ==
    /\ pc[i] = "identity"
    /\ Goto(i, IF identity THEN AfterIdentity(i) ELSE "create identity")
    /\ UNCHANGED <<services, locals>>

CreateIdentity(i) ==
    /\ pc[i] = "create identity"
    /\ \/ ~identity /\ identity' = TRUE /\ Goto(i, AfterIdentity(i))
          /\ UNCHANGED <<memory, runtime, locals>>
       \/ "lost" \in Faults /\ identity' = TRUE /\ Fail(i)
          /\ UNCHANGED <<memory, runtime>>
       \/ identity /\ Fail(i) /\ UNCHANGED services

LookUpMemory(i) ==
    /\ pc[i] = "memory"
    /\ \/ \E m \in ListedMemories : mem' = [mem EXCEPT ![i] = m] /\ Goto(i, "runtime")
          /\ UNCHANGED <<services, cmd, rt, failed>>
       \/ ListedMemories = {} /\ Goto(i, "create memory") /\ UNCHANGED <<services, locals>>

CreateMemory(i) ==
    /\ pc[i] = "create memory"
    /\ \E m \in Ids :
        /\ memory[m] = "unused" /\ memory' = [memory EXCEPT ![m] = "ACTIVE"]
        /\ \/ mem' = [mem EXCEPT ![i] = m] /\ Goto(i, "runtime") /\ UNCHANGED <<cmd, rt, failed>>
           \/ "lost" \in Faults /\ Fail(i)
    /\ UNCHANGED <<identity, runtime>>

(* Mutant: the lookup of the runtime is forgotten. *)
LookUpNothing(i) ==
    /\ pc[i] = "runtime"
    /\ Goto(i, "create runtime") /\ UNCHANGED <<services, locals>>

(* A runtime that exists is converged, never applied again. *)
LookUpRuntime(i) ==
    /\ pc[i] = "runtime"
    /\ \/ \E r \in ListedRuntimes :
            /\ rt' = [rt EXCEPT ![i] = r]
            /\ Goto(i, IF runtime[r] \in {"ACTIVE", "DELETED"} \/ cmd[i] = "up-no-wait"
                         THEN "done" ELSE "converge")
          /\ UNCHANGED <<services, cmd, mem, failed>>
       \/ ListedRuntimes = {} /\ Goto(i, "create runtime") /\ UNCHANGED <<services, locals>>

(* With the registry credential of `imageAuth: auto`, whose failure is one *)
(* more refusal.                                                           *)
CreateRuntime(i) ==
    /\ pc[i] = "create runtime"
    /\ \E r \in Ids :
        /\ runtime[r] = "unused" /\ runtime' = [runtime EXCEPT ![r] = "CREATING"]
        /\ \/ /\ rt' = [rt EXCEPT ![i] = r]
              /\ Goto(i, IF cmd[i] = "up-no-wait" THEN "done" ELSE "converge")
              /\ UNCHANGED <<cmd, mem, failed>>
           \/ "lost" \in Faults /\ Fail(i)
    /\ UNCHANGED <<identity, memory>>

-------------------------------------------------------------------------------
(* Mutant: a runtime in ERROR ends the wait like any other terminal state. *)
PollAnyTerminal(i, notFoundIsDeleted) ==
    /\ runtime[rt[i]] \in {"ACTIVE", "DELETED", "ERROR", "gone"}
    /\ Goto(i, AfterService(i))
    /\ UNCHANGED <<services, locals>>

(* pollRuntimeToTerminal: one poll that ends the wait.  ACTIVE and DELETED *)
(* are a success for every caller; a 404 is one only for destroy.          *)
Poll(i, notFoundIsDeleted) ==
    /\ LET status == runtime[rt[i]] IN
       \/ /\ status \in {"ACTIVE", "DELETED"} \/ (status = "gone" /\ notFoundIsDeleted)
          /\ Goto(i, AfterService(i)) /\ UNCHANGED locals
       \/ /\ status = "ERROR" \/ (status = "gone" /\ ~notFoundIsDeleted)
          /\ Fail(i)
    /\ UNCHANGED services

(* Mutant: up waits the way destroy does. *)
ConvergeOrGone(i) == pc[i] = "converge" /\ Poll(i, TRUE)

Converge(i) == pc[i] = "converge" /\ Poll(i, FALSE)

(* Mutant: destroy does not wait for the deletion. *)
AwaitNothing(i) ==
    /\ pc[i] = "await deleted" /\ Goto(i, "find memory") /\ UNCHANGED <<services, locals>>

AwaitDeleted(i) == pc[i] = "await deleted" /\ Poll(i, TRUE)

(* --timeout, at any poll. *)
Timeout(i) ==
    /\ pc[i] \in {"converge", "await deleted"}
    /\ Fail(i)
    /\ UNCHANGED services

-------------------------------------------------------------------------------
(* destroy, in reverse order. *)
FindRuntime(i) ==
    /\ pc[i] = "find runtime"
    /\ \/ \E r \in ListedRuntimes : rt' = [rt EXCEPT ![i] = r] /\ Goto(i, "delete runtime")
          /\ UNCHANGED <<services, cmd, mem, failed>>
       \/ ListedRuntimes = {} /\ Goto(i, "find memory") /\ UNCHANGED <<services, locals>>

DeleteRuntime(i) ==
    /\ pc[i] = "delete runtime"
    /\ \/ /\ rt[i] \in LiveRuntimes
          /\ runtime' = [runtime EXCEPT ![rt[i]] = "DELETING"]
          /\ \/ Goto(i, "await deleted") /\ UNCHANGED locals
             \/ "lost" \in Faults /\ Fail(i)
          /\ UNCHANGED <<identity, memory>>
       \/ rt[i] \notin LiveRuntimes /\ Fail(i) /\ UNCHANGED services

(* Mutant: a lookup that finds no memory is not told from one that does. *)
FindMemoryUnchecked(i) ==
    /\ pc[i] = "find memory"
    /\ \E m \in IF ListedMemories = {} THEN {None} ELSE ListedMemories :
        mem' = [mem EXCEPT ![i] = m]
    /\ Goto(i, "delete memory")
    /\ UNCHANGED <<services, cmd, rt, failed>>

FindMemory(i) ==
    /\ pc[i] = "find memory"
    /\ \/ \E m \in ListedMemories : mem' = [mem EXCEPT ![i] = m] /\ Goto(i, "delete memory")
          /\ UNCHANGED <<services, cmd, rt, failed>>
       \/ ListedMemories = {} /\ Goto(i, AfterService(i)) /\ UNCHANGED <<services, locals>>

DeleteMemory(i) ==
    /\ pc[i] = "delete memory"
    /\ memory' = [memory EXCEPT ![mem[i]] = "DELETED"]
    /\ \/ Goto(i, AfterService(i)) /\ UNCHANGED locals
       \/ "lost" \in Faults /\ Fail(i)
    /\ UNCHANGED <<identity, runtime>>

PurgeIdentity(i) ==
    /\ pc[i] = "purge"
    /\ identity' = FALSE
    /\ \/ Goto(i, "done") /\ UNCHANGED locals
       \/ "lost" \in Faults /\ Fail(i)
    /\ UNCHANGED <<memory, runtime>>

Killed(i) ==
    /\ "killed" \in Faults /\ pc[i] \in Running
    /\ Goto(i, "killed")
    /\ UNCHANGED <<services, locals>>

-------------------------------------------------------------------------------
(* The runtime service. *)
RuntimeMoves(r) ==
    /\ \/ runtime[r] = "CREATING" /\ \E s \in {"ACTIVE", "ERROR"} : runtime' = [runtime EXCEPT ![r] = s]
       \/ runtime[r] = "DELETING"
          /\ \E s \in {IF ListsDeleted THEN "DELETED" ELSE "gone", "ERROR"}
                      \cup (IF "reverts" \in Services THEN {"ACTIVE"} ELSE {}) :
                runtime' = [runtime EXCEPT ![r] = s]
    /\ UNCHANGED <<identity, memory, pc, locals>>

Finished ==
    /\ Cardinality({i \in Invocations : pc[i] \in {"done", "killed"}}) = schedule[2]
    /\ UNCHANGED vars

Up(i)      == LookUpIdentity(i) \/ CreateIdentity(i) \/ LookUpMemory(i) \/ CreateMemory(i)
              \/ LookUpRuntime(i) \/ CreateRuntime(i) \/ Converge(i)
Destroy(i) == FindRuntime(i) \/ DeleteRuntime(i) \/ AwaitDeleted(i) \/ FindMemory(i)
              \/ DeleteMemory(i) \/ PurgeIdentity(i)
Step(i)    == Up(i) \/ Destroy(i) \/ Timeout(i)

Next ==
    \/ /\ \/ \E i \in Invocations : Start(i) \/ Step(i) \/ Refused(i) \/ Killed(i)
          \/ \E r \in Ids : RuntimeMoves(r)
       /\ UNCHANGED schedule
    \/ Finished

(* A call returns and a wait has its --timeout; nothing is assumed of the  *)
(* services, which may leave a runtime in CREATING or DELETING for ever.   *)
Spec == Init /\ [][Next]_vars /\ \A i \in Invocations : WF_vars(Step(i))

-------------------------------------------------------------------------------
(* Invocations that overlap promise less. *)
OneAtATime == schedule[1] = 1

Reports(i) ==
    OneAtATime /\ pc[i] \in Running /\ pc'[i] = "done" /\ failed'[i] = {}

(* "up is idempotent (create-if-absent per service)": while invocations    *)
(* follow one another, the agent never has two runtimes or two memories,   *)
(* however often up is interrupted, loses the answer to a create, or is run*)
(* again after a destroy that gave up.                                     *)
OneOfEachAlways == Cardinality(LiveRuntimes) <= 1 /\ Cardinality(LiveMemories) <= 1

OneOfEach == OneAtATime => OneOfEachAlways

(* An up that waits and reports the agent as applied leaves a whole agent: *)
(* identity, memory if the manifest has one, and a runtime that runs.      *)
UpDelivers ==
    \A i \in Invocations : Reports(i) /\ cmd[i] \in {"up", "up-stateless"} =>
        /\ identity'
        /\ cmd[i] = "up" => memory'[mem'[i]] = "ACTIVE"
        /\ runtime'[rt'[i]] = "ACTIVE"

(* A destroy that reports no error leaves no runtime, also none on its way *)
(* out, no memory and, with --purge, no identity of that name.             *)
DestroyCleans ==
    \A i \in Invocations : Reports(i) /\ cmd[i] \in {"destroy", "destroy-purge"} =>
        /\ LiveRuntimes' = {} /\ LiveMemories' = {}
        /\ cmd[i] = "destroy-purge" => ~identity'

(* What an invocation reports without an error is what is there. *)
ReportsAreTrue == [][UpDelivers /\ DestroyCleans]_vars

(* Whatever else runs, a runtime that destroy reports as deleted is gone,  *)
(* or listed as DELETED, when it turns to the memory, and stays so.        *)
DeletedIsGone ==
    \A i \in Invocations :
        /\ pc[i] \in {"find memory", "delete memory", "purge"} \/ (pc[i] = "done" /\ ~IsUp(i))
        /\ rt[i] # None /\ "runtime" \notin failed[i]
        => runtime[rt[i]] \in {"DELETED", "gone"}

(* renderDestroySteps prints "Agent ... destroyed." at the end of every    *)
(* destroy: then nothing is left of the agent that destroy should remove.  *)
DestroyedMessageTrue ==
    [][\A i \in Invocations :
        pc[i] \in Running /\ pc'[i] = "done" /\ cmd[i] \in {"destroy", "destroy-purge"} =>
            LiveRuntimes' = {} /\ LiveMemories' = {}]_vars
===============================================================================

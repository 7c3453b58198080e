--------------------------- MODULE AgentDeploy_proof ---------------------------
(***************************************************************************)
(* deploy up and destroy, for any number of invocations, ids and schedules *)
(* and any faults: one of each while invocations follow one another, and   *)
(* what they report, as far as the services behave as assumed.             *)
(***************************************************************************)
EXTENDS AgentDeploy, FiniteSetTheorems, TLAPS

Destroying(i) == cmd[i] \in {"destroy", "destroy-purge"}

(* An invocation is at a step of its command.                              *)
Orderly(i) ==
    /\ pc[i] \in UpSteps => IsUp(i)
    /\ pc[i] \in DestroySteps => Destroying(i)
    /\ pc[i] = "purge" => cmd[i] = "destroy-purge"
    /\ pc[i] \in {"memory", "create memory"} => cmd[i] # "up-stateless"
    /\ pc[i] = "converge" => cmd[i] # "up-no-wait"
    /\ pc[i] \in {"idle", "find runtime"} => rt[i] = None

LEMMA AfterUp == ASSUME NEW i, IsUp(i) PROVE AfterService(i) = "done"
<1>1. cmd[i] \notin {"destroy", "destroy-purge"} /\ cmd[i] # "destroy-purge"
  BY DEF IsUp
<1> QED BY <1>1 DEF AfterService

LEMMA AfterRuntime ==
    ASSUME NEW i, Destroying(i), pc[i] \in {"find runtime", "delete runtime", "await deleted"}
    PROVE  AfterService(i) = "find memory" /\ Service(pc[i]) = "runtime"
<1>1. Service(pc[i]) = "runtime"
  BY DEF Service
<1>2. ~IsUp(i)
  BY DEF Destroying, IsUp
<1> QED BY <1>1, <1>2 DEF AfterService, Destroying

LEMMA AfterMemory ==
    ASSUME NEW i, Destroying(i), pc[i] \in {"find memory", "delete memory"}
    PROVE  /\ AfterService(i) = IF cmd[i] = "destroy-purge" THEN "purge" ELSE "done"
           /\ Service(pc[i]) = "memory"
<1>1. Service(pc[i]) = "memory"
  BY DEF Service
<1>2. ~IsUp(i)
  BY DEF Destroying, IsUp
<1> QED BY <1>1, <1>2 DEF AfterService, Destroying

LEMMA AfterPurge ==
    ASSUME NEW i, Destroying(i), pc[i] = "purge"
    PROVE  AfterService(i) = "done" /\ Service(pc[i]) = "identity"
<1>1. Service(pc[i]) = "identity"
  BY DEF Service
<1>2. ~IsUp(i)
  BY DEF Destroying, IsUp
<1> QED BY <1>1, <1>2 DEF AfterService, Destroying

LEMMA ServiceType == ASSUME NEW step PROVE Service(step) \in {"identity", "memory", "runtime"}
  BY DEF Service

(* Where an invocation goes on after a step: to a place that needs nothing *)
(* of it but a command that goes there.                                    *)
LEMMA AfterPlace ==
    ASSUME NEW i, Orderly(i), pc[i] \in Running
    PROVE  /\ AfterService(i) \in {"done", "find memory", "purge"}
           /\ AfterService(i) = "find memory" => Destroying(i)
           /\ AfterService(i) = "purge" => cmd[i] = "destroy-purge"
<1>1. CASE pc[i] \in UpSteps
  BY <1>1, AfterUp DEF Orderly
<1>2. CASE pc[i] \in DestroySteps
  <2>1. Destroying(i)
    BY <1>2 DEF Orderly
  <2>2. CASE pc[i] \in {"find runtime", "delete runtime", "await deleted"}
    BY <2>1, <2>2, AfterRuntime
  <2>3. CASE pc[i] \in {"find memory", "delete memory"}
    BY <2>1, <2>3, AfterMemory
  <2>4. CASE pc[i] = "purge"
    BY <2>1, <2>4, AfterPurge
  <2> QED BY <1>2, <2>2, <2>3, <2>4 DEF DestroySteps
<1> QED BY <1>1, <1>2 DEF Running

(* The type of what belongs to one invocation, and of the services.        *)
Places == Running \cup {"idle", "done", "killed"}
Own(i) ==
    /\ cmd[i] \in Commands \cup {"none"} /\ pc[i] \in Places
    /\ mem[i] \in Ids \cup {None} /\ rt[i] \in Ids \cup {None}
    /\ failed[i] \in SUBSET {"identity", "memory", "runtime"}
    /\ pc[i] \in {"converge", "delete runtime", "await deleted"} => rt[i] # None
    /\ pc[i] = "delete memory" => mem[i] # None

Shape ==
    /\ cmd \in [Invocations -> Commands \cup {"none"}]
    /\ pc  \in [Invocations -> Places]
    /\ mem \in [Invocations -> Ids \cup {None}]
    /\ rt  \in [Invocations -> Ids \cup {None}]
    /\ failed \in [Invocations -> SUBSET {"identity", "memory", "runtime"}]

ServicesOK ==
    /\ identity \in BOOLEAN
    /\ memory  \in [Ids -> {"unused", "ACTIVE", "DELETED"}]
    /\ runtime \in [Ids -> {"unused", "CREATING", "ACTIVE", "ERROR", "DELETING", "DELETED", "gone"}]

LEMMA TypeSplit ==
    TypeOK <=> /\ schedule \in Schedules /\ ServicesOK /\ Shape
               /\ \A i \in Invocations : Own(i)
  BY DEF TypeOK, ServicesOK, Shape, Own, Places

(* A step of i is its own: the others stay where they are.                 *)
Apart(i) ==
    \A j \in Invocations : j # i =>
        /\ pc'[j] = pc[j] /\ cmd'[j] = cmd[j] /\ mem'[j] = mem[j] /\ rt'[j] = rt[j]
        /\ failed'[j] = failed[j]

BInv == TypeOK /\ \A i \in Invocations : Orderly(i)

LEMMA Failing ==
    ASSUME BInv, NEW i \in Invocations, pc[i] \in Running, Fail(i)
    PROVE  Shape' /\ Own(i)' /\ Orderly(i)' /\ Apart(i)
<1>1. AfterService(i) \in {"done", "find memory", "purge"} /\ Orderly(i) /\ Shape /\ Own(i)
  BY AfterPlace, TypeSplit DEF BInv
<1>2. /\ pc' = [pc EXCEPT ![i] = AfterService(i)]
      /\ failed' = [failed EXCEPT ![i] = failed[i] \cup {Service(pc[i])}]
      /\ UNCHANGED <<cmd, mem, rt>>
  BY DEF Fail, Goto
<1>3. failed[i] \cup {Service(pc[i])} \in SUBSET {"identity", "memory", "runtime"}
  BY <1>1, ServiceType DEF Shape
<1>4. Shape' /\ Apart(i)
  BY <1>1, <1>2, <1>3 DEF Shape, Places, Running, UpSteps, DestroySteps, Apart
<1>5. Own(i)'
  BY <1>1, <1>2, <1>3, <1>4 DEF Shape, Own
<1>6. Orderly(i)'
  BY <1>1, <1>2, AfterPlace DEF Orderly, UpSteps, DestroySteps, Destroying, IsUp, Shape
<1> QED BY <1>4, <1>5, <1>6

(* A step without an error goes to a place of its command, with the ids    *)
(* that this place needs.                                                  *)
Fits(i, p) ==
    /\ p \in Places \ {"idle", "find runtime"}
    /\ p \in UpSteps => IsUp(i)
    /\ p \in DestroySteps => Destroying(i)
    /\ p = "purge" => cmd[i] = "destroy-purge"
    /\ p \in {"memory", "create memory"} => cmd[i] # "up-stateless"
    /\ p = "converge" => cmd[i] # "up-no-wait"
    /\ p \in {"converge", "delete runtime", "await deleted"} => rt'[i] # None
    /\ p = "delete memory" => mem'[i] # None

Moved(i) ==
    /\ \E p \in Places : Goto(i, p) /\ Fits(i, p)
    /\ mem' = mem \/ \E m \in Ids : mem' = [mem EXCEPT ![i] = m]
    /\ rt' = rt \/ \E r \in Ids : rt' = [rt EXCEPT ![i] = r]
    /\ UNCHANGED <<cmd, failed>>

LEMMA Moving ==
    ASSUME BInv, NEW i \in Invocations, Moved(i)
    PROVE  Shape' /\ Own(i)' /\ Orderly(i)' /\ Apart(i)
<1>1. Shape /\ Own(i)
  BY TypeSplit DEF BInv
<1>2. PICK p \in Places : Goto(i, p) /\ Fits(i, p)
  BY DEF Moved
<1>3. mem' \in [Invocations -> Ids \cup {None}] /\ \A j \in Invocations : j # i => mem'[j] = mem[j]
  BY <1>1 DEF Moved, Shape
<1>4. rt' \in [Invocations -> Ids \cup {None}] /\ \A j \in Invocations : j # i => rt'[j] = rt[j]
  BY <1>1 DEF Moved, Shape
<1>5. pc' \in [Invocations -> Places] /\ pc'[i] = p /\ \A j \in Invocations : j # i => pc'[j] = pc[j]
  BY <1>1, <1>2 DEF Shape, Goto
<1>6. Shape' /\ Apart(i)
  BY <1>1, <1>3, <1>4, <1>5 DEF Moved, Shape, Apart
<1>7. Own(i)'
  BY <1>1, <1>2, <1>3, <1>4, <1>5 DEF Moved, Shape, Own, Fits
<1>8. Orderly(i)'
  BY <1>2, <1>5 DEF Moved, Orderly, Fits, IsUp, Destroying
<1> QED BY <1>6, <1>7, <1>8

(* What every step of an invocation keeps.                                 *)
Kept(i) == ServicesOK' /\ Shape' /\ Own(i)' /\ Orderly(i)' /\ Apart(i)

LEMMA StepKinds ==
    ASSUME BInv, NEW i \in Invocations, Step(i) \/ Refused(i) \/ Killed(i)
    PROVE  ServicesOK' /\ (Moved(i) \/ (pc[i] \in Running /\ Fail(i)))
<1>1. ServicesOK /\ Shape /\ Own(i) /\ Orderly(i)
  BY TypeSplit DEF BInv
<1>2. pc[i] \in Running => /\ AfterService(i) \in {"done", "find memory", "purge"}
                           /\ AfterService(i) = "find memory" => Destroying(i)
                           /\ AfterService(i) = "purge" => Destroying(i) /\ cmd[i] = "destroy-purge"
  BY <1>1, AfterPlace DEF Destroying
<1> DEFINE Goal == ServicesOK' /\ (Moved(i) \/ (pc[i] \in Running /\ Fail(i)))
<1> USE IdsAssumption DEF Own, Orderly, Shape, Places, Running, UpSteps, DestroySteps, services,
        locals, Goto, Moved, Fits
<1>3. ASSUME LookUpIdentity(i) PROVE Goal
  <2>1. ServicesOK'
    BY <1>1, <1>3 DEF LookUpIdentity, AfterIdentity, ServicesOK
  <2>2. Moved(i) \/ (pc[i] \in Running /\ Fail(i))
    <3> DEFINE p == IF identity THEN AfterIdentity(i) ELSE "create identity"
    <3>1. pc' = [pc EXCEPT ![i] = p] /\ UNCHANGED <<cmd, failed, mem, rt>>
      BY <1>3 DEF LookUpIdentity
    <3>2. Fits(i, p)
      BY <1>1, <1>3 DEF LookUpIdentity, AfterIdentity, IsUp
    <3> QED BY <3>1, <3>2
  <2> QED BY <2>1, <2>2
<1>4. ASSUME CreateIdentity(i) PROVE Goal
  <2>1. ServicesOK'
    BY <1>1, <1>4 DEF CreateIdentity, AfterIdentity, ServicesOK
  <2>2. Moved(i) \/ (pc[i] \in Running /\ Fail(i))
    <3>1. CASE Fail(i)
      BY <1>4, <3>1 DEF CreateIdentity
    <3>2. CASE ~Fail(i)
      <4>1. pc' = [pc EXCEPT ![i] = AfterIdentity(i)] /\ UNCHANGED <<cmd, failed, mem, rt>>
        BY <1>4, <3>2 DEF CreateIdentity
      <4>2. Fits(i, AfterIdentity(i))
        BY <1>1, <1>4 DEF CreateIdentity, AfterIdentity
      <4> QED BY <4>1, <4>2
    <3> QED BY <3>1, <3>2
  <2> QED BY <2>1, <2>2
<1>5. ASSUME LookUpMemory(i) PROVE Goal
  <2>1. ServicesOK'
    BY <1>1, <1>5 DEF LookUpMemory, ListedMemories, LiveMemories, ServicesOK
  <2>2. Moved(i) \/ (pc[i] \in Running /\ Fail(i))
    BY <1>1, <1>2, <1>5 DEF LookUpMemory, ListedMemories, LiveMemories
  <2> QED BY <2>1, <2>2
<1>6. ASSUME CreateMemory(i) PROVE Goal
  <2>1. ServicesOK'
    BY <1>1, <1>6 DEF CreateMemory, ServicesOK
  <2>2. Moved(i) \/ (pc[i] \in Running /\ Fail(i))
    BY <1>1, <1>2, <1>6 DEF CreateMemory
  <2> QED BY <2>1, <2>2
<1>7. ASSUME LookUpRuntime(i) PROVE Goal
  <2>1. ServicesOK'
    BY <1>1, <1>7 DEF LookUpRuntime, ListedRuntimes, LiveRuntimes, ServicesOK
  <2>2. Moved(i) \/ (pc[i] \in Running /\ Fail(i))
    <3>1. CASE ListedRuntimes = {} /\ pc' = [pc EXCEPT ![i] = "create runtime"] /\ UNCHANGED locals
      <4>1. Fits(i, "create runtime")
        BY <1>1, <1>7 DEF LookUpRuntime
      <4> QED BY <3>1, <4>1
    <3>2. ASSUME NEW r \in Ids, rt' = [rt EXCEPT ![i] = r], UNCHANGED <<services, cmd, mem, failed>>,
                 pc' = [pc EXCEPT ![i] = IF runtime[r] \in {"ACTIVE", "DELETED"} \/ cmd[i] = "up-no-wait"
                                           THEN "done" ELSE "converge"]
          PROVE  Moved(i)
      <4> DEFINE p == IF runtime[r] \in {"ACTIVE", "DELETED"} \/ cmd[i] = "up-no-wait"
                        THEN "done" ELSE "converge"
      <4>1. Fits(i, p)
        BY <1>1, <1>7, <3>2 DEF LookUpRuntime
      <4> QED BY <3>2, <4>1
    <3>3. ListedRuntimes \subseteq Ids
      BY DEF ListedRuntimes, LiveRuntimes
    <3> QED BY <1>7, <3>1, <3>2, <3>3 DEF LookUpRuntime
  <2> QED BY <2>1, <2>2
<1>8. ASSUME CreateRuntime(i) PROVE Goal
  <2>1. ServicesOK'
    BY <1>1, <1>8 DEF CreateRuntime, ServicesOK
  <2>2. Moved(i) \/ (pc[i] \in Running /\ Fail(i))
    <3>1. CASE Fail(i)
      BY <1>8, <3>1 DEF CreateRuntime
    <3>2. CASE ~Fail(i)
      <4> DEFINE p == IF cmd[i] = "up-no-wait" THEN "done" ELSE "converge"
      <4>1. PICK r \in Ids : rt' = [rt EXCEPT ![i] = r] /\ pc' = [pc EXCEPT ![i] = p]
                              /\ UNCHANGED <<cmd, mem, failed>>
        BY <1>8, <3>2 DEF CreateRuntime
      <4>2. Fits(i, p)
        BY <1>1, <1>8, <4>1 DEF CreateRuntime
      <4> QED BY <4>1, <4>2
    <3> QED BY <3>1, <3>2
  <2> QED BY <2>1, <2>2
<1>9. ASSUME Converge(i) PROVE Goal
  <2>1. ServicesOK'
    BY <1>1, <1>9 DEF Converge, Poll, ServicesOK
  <2>2. Moved(i) \/ (pc[i] \in Running /\ Fail(i))
    BY <1>1, <1>2, <1>9 DEF Converge, Poll
  <2> QED BY <2>1, <2>2
<1>10. ASSUME FindRuntime(i) PROVE Goal
  <2>1. ServicesOK'
    BY <1>1, <1>10 DEF FindRuntime, ListedRuntimes, LiveRuntimes, ServicesOK
  <2>2. Moved(i) \/ (pc[i] \in Running /\ Fail(i))
    <3>1. CASE ListedRuntimes = {} /\ pc' = [pc EXCEPT ![i] = "find memory"] /\ UNCHANGED locals
      <4>1. Fits(i, "find memory")
        BY <1>1, <1>10 DEF FindRuntime
      <4> QED BY <3>1, <4>1
    <3>2. ASSUME NEW r \in Ids, rt' = [rt EXCEPT ![i] = r], pc' = [pc EXCEPT ![i] = "delete runtime"],
                 UNCHANGED <<services, cmd, mem, failed>>
          PROVE  Moved(i)
      <4>1. Fits(i, "delete runtime")
        BY <1>1, <1>10, <3>2 DEF FindRuntime
      <4> QED BY <3>2, <4>1
    <3>3. ListedRuntimes \subseteq Ids
      BY DEF ListedRuntimes, LiveRuntimes
    <3> QED BY <1>10, <3>1, <3>2, <3>3 DEF FindRuntime
  <2> QED BY <2>1, <2>2
<1>11. ASSUME DeleteRuntime(i) PROVE Goal
  <2>1. ServicesOK'
    BY <1>1, <1>11 DEF DeleteRuntime, ServicesOK
  <2>2. Moved(i) \/ (pc[i] \in Running /\ Fail(i))
    BY <1>1, <1>2, <1>11 DEF DeleteRuntime
  <2> QED BY <2>1, <2>2
<1>12. ASSUME AwaitDeleted(i) PROVE Goal
  <2>1. ServicesOK'
    BY <1>1, <1>12 DEF AwaitDeleted, Poll, ServicesOK
  <2>2. Moved(i) \/ (pc[i] \in Running /\ Fail(i))
    BY <1>1, <1>2, <1>12 DEF AwaitDeleted, Poll
  <2> QED BY <2>1, <2>2
<1>13. ASSUME FindMemory(i) PROVE Goal
  <2>1. ServicesOK'
    BY <1>1, <1>13 DEF FindMemory, ListedMemories, LiveMemories, ServicesOK
  <2>2. Moved(i) \/ (pc[i] \in Running /\ Fail(i))
    BY <1>1, <1>2, <1>13 DEF FindMemory, ListedMemories, LiveMemories
  <2> QED BY <2>1, <2>2
<1>14. ASSUME DeleteMemory(i) PROVE Goal
  <2>1. ServicesOK'
    BY <1>1, <1>14 DEF DeleteMemory, ServicesOK
  <2>2. Moved(i) \/ (pc[i] \in Running /\ Fail(i))
    BY <1>1, <1>2, <1>14 DEF DeleteMemory
  <2> QED BY <2>1, <2>2
<1>15. ASSUME PurgeIdentity(i) PROVE Goal
  <2>1. ServicesOK'
    BY <1>1, <1>15 DEF PurgeIdentity, ServicesOK
  <2>2. Moved(i) \/ (pc[i] \in Running /\ Fail(i))
    BY <1>1, <1>2, <1>15 DEF PurgeIdentity
  <2> QED BY <2>1, <2>2
<1>16. ASSUME Timeout(i) PROVE Goal
  <2>1. ServicesOK'
    BY <1>1, <1>16 DEF Timeout, ServicesOK, Fail
  <2>2. Moved(i) \/ (pc[i] \in Running /\ Fail(i))
    BY <1>1, <1>2, <1>16 DEF Timeout
  <2> QED BY <2>1, <2>2
<1>17. ASSUME Refused(i) PROVE Goal
  <2>1. ServicesOK'
    BY <1>1, <1>17 DEF Refused, ServicesOK, Fail
  <2>2. Moved(i) \/ (pc[i] \in Running /\ Fail(i))
    BY <1>1, <1>2, <1>17 DEF Refused
  <2> QED BY <2>1, <2>2
<1>18. ASSUME Killed(i) PROVE Goal
  <2>1. ServicesOK'
    BY <1>1, <1>18 DEF Killed, ServicesOK
  <2>2. Moved(i) \/ (pc[i] \in Running /\ Fail(i))
    <3>1. Fits(i, "killed") /\ pc' = [pc EXCEPT ![i] = "killed"] /\ UNCHANGED <<cmd, failed, mem, rt>>
      BY <1>18 DEF Killed
    <3> QED BY <3>1
  <2> QED BY <2>1, <2>2
<1> QED BY <1>3, <1>4, <1>5, <1>6, <1>7, <1>8, <1>9, <1>10, <1>11, <1>12, <1>13, <1>14, <1>15, <1>16, <1>17, <1>18 DEF Step, Up, Destroy

LEMMA OwnStep ==
    ASSUME BInv, NEW i \in Invocations, Start(i) \/ Step(i) \/ Refused(i) \/ Killed(i)
    PROVE  Kept(i)
<1>1. CASE Step(i) \/ Refused(i) \/ Killed(i)
  BY <1>1, StepKinds, Moving, Failing DEF Kept
<1>2. CASE Start(i)
  <2>1. ServicesOK /\ Shape /\ Own(i) /\ Orderly(i)
    BY TypeSplit DEF BInv
  <2>2. PICK c \in Commands :
            /\ cmd' = [cmd EXCEPT ![i] = c]
            /\ pc' = [pc EXCEPT ![i] = IF c \in {"destroy", "destroy-purge"} THEN "find runtime"
                                                                           ELSE "identity"]
    BY <1>2 DEF Start, Goto
  <2>3. Shape' /\ ServicesOK' /\ Apart(i)
    BY <1>2, <2>1, <2>2 DEF Start, Shape, ServicesOK, Apart, services, Places, Running, UpSteps,
                            DestroySteps
  <2>4. Own(i)'
    BY <1>2, <2>1, <2>2, <2>3 DEF Start, Shape, Own
  <2>5. c \in {"up", "up-no-wait", "up-stateless"} \/ c \in {"destroy", "destroy-purge"}
    BY CommandsAssumption DEF AllCommands
  <2>6. Orderly(i)'
    BY <1>2, <2>1, <2>2, <2>5 DEF Start, Shape, Orderly, IsUp, Destroying, UpSteps, DestroySteps
  <2> QED BY <2>3, <2>4, <2>6 DEF Kept
<1> QED BY <1>1, <1>2

-------------------------------------------------------------------------------
AtMostOne(S) == \A a, b \in S : a = b

(* While invocations follow one another, nothing comes between a lookup    *)
(* that found nothing and the create.                                      *)
Alone ==
    /\ \A i, j \in Invocations : pc[i] \in Running /\ pc[j] \in Running => i = j
    /\ AtMostOne(LiveRuntimes) /\ AtMostOne(LiveMemories)
    /\ \A i \in Invocations : pc[i] = "create runtime" => LiveRuntimes = {}
    /\ \A i \in Invocations : pc[i] = "create memory" => LiveMemories = {}

(* A runtime whose deletion destroy waits for has no way back to service.  *)
Going(i) == pc[i] = "await deleted" => runtime[rt[i]] \in {"DELETING", "ERROR", "DELETED", "gone"}
Deleted(i) ==
    /\ pc[i] \in {"find memory", "delete memory", "purge"} \/ (pc[i] = "done" /\ ~IsUp(i))
    /\ rt[i] # None /\ "runtime" \notin failed[i]
    => runtime[rt[i]] \in {"DELETED", "gone"}

(* What an up has made so far is there; what a destroy has not failed at   *)
(* is not.                                                                 *)
SoFar(i) ==
    /\ pc[i] \in {"memory", "create memory", "runtime", "create runtime", "converge"} => identity
    /\ pc[i] \in {"runtime", "create runtime", "converge"} /\ cmd[i] = "up" =>
           memory[mem[i]] = "ACTIVE"
    /\ pc[i] \in {"delete runtime", "await deleted"} => LiveRuntimes \subseteq {rt[i]}
    /\ pc[i] \in {"find memory", "delete memory", "purge"} /\ failed[i] = {} => LiveRuntimes = {}
    /\ pc[i] = "delete memory" => LiveMemories \subseteq {mem[i]}
    /\ pc[i] = "purge" /\ failed[i] = {} => LiveMemories = {}

AInv == BInv /\ (OneAtATime => Alone)
DInv == BInv /\ \A i \in Invocations : Going(i) /\ Deleted(i)
RInv == /\ AInv /\ DInv
        /\ \A r \in Ids : runtime[r] # "DELETED"
        /\ OneAtATime => \A i \in Invocations : SoFar(i)

Invokes(i) == Start(i) \/ Step(i) \/ Refused(i) \/ Killed(i)

LEMMA Failed ==
    ASSUME BInv, NEW i \in Invocations, pc[i] \in Running, Fail(i)
    PROVE  /\ pc'[i] \in {"done", "find memory", "purge"}
           /\ failed'[i] # {} /\ failed[i] \subseteq failed'[i]
           /\ UNCHANGED <<cmd, mem, rt>>
<1>1. AfterService(i) \in {"done", "find memory", "purge"} /\ Shape
  BY AfterPlace, TypeSplit DEF BInv
<1> QED BY <1>1 DEF Fail, Goto, Shape

(* Who touches a runtime, and a memory.                                    *)
LEMMA RuntimeSteps ==
    ASSUME NEW i \in Invocations, Invokes(i)
    PROVE  \/ UNCHANGED runtime
           \/ /\ pc[i] = "create runtime"
              /\ \E r \in Ids : runtime[r] = "unused" /\ runtime' = [runtime EXCEPT ![r] = "CREATING"]
           \/ /\ pc[i] = "delete runtime" /\ rt[i] \in LiveRuntimes
              /\ runtime' = [runtime EXCEPT ![rt[i]] = "DELETING"]
<1>1. CASE CreateRuntime(i)
  BY <1>1 DEF CreateRuntime
<1>2. CASE DeleteRuntime(i)
  BY <1>2 DEF DeleteRuntime, services
<1>3. CASE ~CreateRuntime(i) /\ ~DeleteRuntime(i)
  BY <1>3 DEF Invokes, Step, Up, Destroy, Start, Refused, Killed, LookUpIdentity, CreateIdentity,
      LookUpMemory, CreateMemory, LookUpRuntime, Converge, Poll, FindRuntime, AwaitDeleted,
      FindMemory, DeleteMemory, PurgeIdentity, Timeout, services
<1> QED BY <1>1, <1>2, <1>3

LEMMA MemorySteps ==
    ASSUME NEW i \in Invocations, Invokes(i)
    PROVE  \/ UNCHANGED memory
           \/ /\ pc[i] = "create memory"
              /\ \E m \in Ids : memory[m] = "unused" /\ memory' = [memory EXCEPT ![m] = "ACTIVE"]
           \/ /\ pc[i] = "delete memory"
              /\ memory' = [memory EXCEPT ![mem[i]] = "DELETED"]
<1>1. CASE CreateMemory(i)
  BY <1>1 DEF CreateMemory
<1>2. CASE DeleteMemory(i)
  BY <1>2 DEF DeleteMemory
<1>3. CASE ~CreateMemory(i) /\ ~DeleteMemory(i)
  BY <1>3 DEF Invokes, Step, Up, Destroy, Start, Refused, Killed, LookUpIdentity, CreateIdentity,
      LookUpMemory, CreateRuntime, LookUpRuntime, Converge, Poll, FindRuntime, AwaitDeleted,
      FindMemory, DeleteRuntime, PurgeIdentity, Timeout, services
<1> QED BY <1>1, <1>2, <1>3

LEMMA LiveAfter ==
    ASSUME BInv, NEW i \in Invocations, Invokes(i)
    PROVE  /\ \/ LiveRuntimes' \subseteq LiveRuntimes
              \/ pc[i] = "create runtime" /\ \E r \in Ids : LiveRuntimes' = LiveRuntimes \cup {r}
           /\ \/ LiveMemories' \subseteq LiveMemories
              \/ pc[i] = "create memory" /\ \E m \in Ids : LiveMemories' = LiveMemories \cup {m}
<1>1. ServicesOK /\ Own(i)
  BY TypeSplit DEF BInv
<1>2. LiveRuntimes' \subseteq LiveRuntimes
      \/ (pc[i] = "create runtime" /\ \E r \in Ids : LiveRuntimes' = LiveRuntimes \cup {r})
  <2>1. CASE UNCHANGED runtime
    BY <2>1 DEF LiveRuntimes
  <2>2. ASSUME pc[i] = "create runtime", NEW r \in Ids, runtime' = [runtime EXCEPT ![r] = "CREATING"]
        PROVE  LiveRuntimes' = LiveRuntimes \cup {r}
    BY <1>1, <2>2 DEF LiveRuntimes, ServicesOK
  <2>3. CASE rt[i] \in LiveRuntimes /\ runtime' = [runtime EXCEPT ![rt[i]] = "DELETING"]
    BY <1>1, <2>3 DEF LiveRuntimes, ServicesOK
  <2> QED BY <2>1, <2>2, <2>3, RuntimeSteps
<1>3. LiveMemories' \subseteq LiveMemories
      \/ (pc[i] = "create memory" /\ \E m \in Ids : LiveMemories' = LiveMemories \cup {m})
  <2>1. CASE UNCHANGED memory
    BY <2>1 DEF LiveMemories
  <2>2. ASSUME pc[i] = "create memory", NEW m \in Ids, memory' = [memory EXCEPT ![m] = "ACTIVE"]
        PROVE  LiveMemories' = LiveMemories \cup {m}
    BY <1>1, <2>2 DEF LiveMemories, ServicesOK
  <2>3. CASE memory' = [memory EXCEPT ![mem[i]] = "DELETED"]
    BY <1>1, <2>3 DEF LiveMemories, ServicesOK
  <2> QED BY <2>1, <2>2, <2>3, MemorySteps
<1> QED BY <1>2, <1>3

(* Only a lookup that found nothing leads to a create.                     *)
LEMMA Arrivals ==
    ASSUME BInv, NEW i \in Invocations, Invokes(i)
    PROVE  /\ pc'[i] = "create runtime" => LiveRuntimes' = {}
           /\ pc'[i] = "create memory" => LiveMemories' = {}
           /\ pc[i] \notin Running => Start(i) /\ pc[i] = "idle"
<1>1. Shape /\ Own(i) /\ Orderly(i)
  BY TypeSplit DEF BInv
<1>2. CASE pc[i] \in Running /\ Fail(i)
  BY <1>2, Failed
<1>3. CASE LookUpRuntime(i)
  BY <1>1, <1>3 DEF LookUpRuntime, ListedRuntimes, LiveRuntimes, services, locals, Goto, Shape, Running, UpSteps
<1>4. CASE LookUpMemory(i)
  BY <1>1, <1>4 DEF LookUpMemory, ListedMemories, LiveMemories, services, locals, Goto, Shape, Running, UpSteps
<1>5. CASE Start(i)
  BY <1>1, <1>5 DEF Start, Goto, Shape
<1>6. CASE /\ ~(pc[i] \in Running /\ Fail(i)) /\ ~LookUpRuntime(i) /\ ~LookUpMemory(i)
           /\ Step(i) \/ Refused(i) \/ Killed(i)
  <2>1. AfterService(i) \in {"done", "find memory", "purge"} \/ pc[i] \notin Running
    BY <1>1, AfterPlace
  <2>2. AfterIdentity(i) \in {"runtime", "memory"}
    BY DEF AfterIdentity
  <2>3. pc[i] \in Running
    BY <1>6 DEF Step, Up, Destroy, Refused, Killed, LookUpIdentity, CreateIdentity, CreateMemory,
        CreateRuntime, Converge, FindRuntime, DeleteRuntime, AwaitDeleted, FindMemory,
        DeleteMemory, PurgeIdentity, Timeout, Running, UpSteps, DestroySteps
  <2>4. pc'[i] \notin {"create runtime", "create memory"}
    BY <1>1, <1>6, <2>1, <2>2, <2>3 DEF Step, Up, Destroy, Refused, Killed, LookUpIdentity,
        CreateIdentity, CreateMemory, CreateRuntime, Converge, Poll, FindRuntime, DeleteRuntime,
        AwaitDeleted, FindMemory, DeleteMemory, PurgeIdentity, Timeout, Goto, Shape
  <2> QED BY <2>3, <2>4
<1> QED BY <1>2, <1>3, <1>4, <1>5, <1>6 DEF Invokes

-------------------------------------------------------------------------------
(* A runtime that is listed stays listed until it is gone for good.        *)
LEMMA ServiceMoves ==
    ASSUME BInv, NEW r \in Ids, RuntimeMoves(r)
    PROVE  /\ UNCHANGED <<identity, memory, pc, cmd, mem, rt, failed>> /\ ServicesOK'
           /\ LiveRuntimes' \subseteq LiveRuntimes /\ LiveMemories' = LiveMemories
<1>1. ServicesOK
  BY TypeSplit DEF BInv
<1>2. PICK s \in {"ACTIVE", "ERROR", "DELETED", "gone"} :
          runtime' = [runtime EXCEPT ![r] = s] /\ runtime[r] \in {"CREATING", "DELETING"}
  BY DEF RuntimeMoves
<1>3. UNCHANGED <<identity, memory, pc, cmd, mem, rt, failed>>
  BY DEF RuntimeMoves, locals
<1> QED BY <1>1, <1>2, <1>3 DEF ServicesOK, LiveRuntimes, LiveMemories

LEMMA NextBInv == BInv /\ [Next]_vars => BInv'
<1> SUFFICES ASSUME BInv, [Next]_vars
             PROVE  /\ (schedule \in Schedules)' /\ Shape' /\ ServicesOK'
                    /\ \A i \in Invocations : Own(i)' /\ Orderly(i)'
  BY DEF BInv, TypeOK, Shape, ServicesOK, Own, Places
<1> DEFINE Goal == /\ schedule \in Schedules /\ Shape /\ ServicesOK
                   /\ \A i \in Invocations : Own(i) /\ Orderly(i)
<1>1. /\ schedule \in Schedules /\ Shape /\ ServicesOK
      /\ \A i \in Invocations : Own(i) /\ Orderly(i)
  BY TypeSplit DEF BInv
<1>2. ASSUME UNCHANGED schedule, NEW i \in Invocations, Invokes(i) PROVE Goal'
  <2>1. Kept(i)
    BY <1>2, OwnStep DEF Invokes
  <2>2. \A j \in Invocations : Own(j)' /\ Orderly(j)'
    BY <1>1, <2>1 DEF Kept, Apart, Own, Orderly, IsUp, Destroying
  <2> QED BY <1>1, <1>2, <2>1, <2>2 DEF Kept
<1>3. ASSUME UNCHANGED schedule, NEW r \in Ids, RuntimeMoves(r) PROVE Goal'
  BY <1>1, <1>3, ServiceMoves DEF Shape, Own, Orderly, IsUp, Destroying
<1>4. CASE UNCHANGED vars
  BY <1>1, <1>4 DEF Shape, Own, Orderly, IsUp, Destroying, ServicesOK, vars, services
<1> QED BY <1>2, <1>3, <1>4 DEF Next, Finished, Invokes

LEMMA InitBInv == Init => BInv
<1> SUFFICES ASSUME Init PROVE BInv
  OBVIOUS
<1>1. ServicesOK /\ Shape
  BY DEF Init, ServicesOK, Shape, Places
<1>2. \A i \in Invocations : Own(i) /\ Orderly(i)
  BY <1>1 DEF Init, Own, Orderly, Places, UpSteps, DestroySteps
<1> QED BY <1>1, <1>2, TypeSplit DEF BInv, Init

-------------------------------------------------------------------------------
LEMMA AtMostOneDef ==
    ASSUME NEW S, IsFiniteSet(S) PROVE Cardinality(S) <= 1 <=> AtMostOne(S)
<1>1. Cardinality(S) \in Nat
  BY FS_CardinalityType
<1>2. Cardinality(S) = 0 <=> S = {}
  BY FS_EmptySet
<1>3. Cardinality(S) = 1 <=> \E x : S = {x}
  BY FS_Singleton
<1>4. AtMostOne(S) <=> S = {} \/ \E x : S = {x}
  BY DEF AtMostOne
<1> QED BY <1>1, <1>2, <1>3, <1>4

LEMMA NextAlone == AInv /\ [Next]_vars /\ OneAtATime' => Alone'
<1> SUFFICES ASSUME AInv, [Next]_vars, OneAtATime' PROVE Alone'
  OBVIOUS
<1>1. BInv /\ OneAtATime /\ Alone
  BY DEF AInv, OneAtATime, Next, vars, Finished
<1>2. ASSUME NEW i \in Invocations, Invokes(i) PROVE Alone'
  <2>1. \A j \in Invocations : j # i => pc'[j] = pc[j] /\ pc[j] \notin Running
    <3>1. Apart(i)
      BY <1>1, <1>2, OwnStep DEF Invokes, Kept
    <3>2. CASE pc[i] \in Running
      BY <1>1, <3>1, <3>2 DEF Apart, Alone
    <3>3. CASE pc[i] \notin Running
      <4> DEFINE Busy == {j \in Invocations : pc[j] \in Running}
      <4>1. Cardinality(Busy) < 1
        BY <1>1, <1>2, <3>3, Arrivals DEF Start, OneAtATime
      <4>2. IsFiniteSet(Busy)
        BY IdsAssumption, FS_Subset
      <4>3. Busy = {}
        <5> HIDE DEF Busy
        <5> QED BY <4>1, <4>2, FS_CardinalityType, FS_EmptySet
      <4> QED BY <3>1, <4>3 DEF Apart
    <3> QED BY <3>2, <3>3
  <2>2. AtMostOne(LiveRuntimes)'
    BY <1>1, <1>2, LiveAfter DEF Alone, AtMostOne
  <2>3. AtMostOne(LiveMemories)'
    BY <1>1, <1>2, LiveAfter DEF Alone, AtMostOne
  <2>4. /\ \A j \in Invocations : pc'[j] = "create runtime" => LiveRuntimes' = {}
        /\ \A j \in Invocations : pc'[j] = "create memory" => LiveMemories' = {}
    BY <1>1, <1>2, <2>1, Arrivals DEF Running, UpSteps
  <2> QED BY <2>1, <2>2, <2>3, <2>4 DEF Alone
<1>3. ASSUME NEW r \in Ids, RuntimeMoves(r) PROVE Alone'
  BY <1>1, <1>3, ServiceMoves DEF Alone, AtMostOne
<1>4. CASE UNCHANGED vars
  BY <1>1, <1>4 DEF Alone, AtMostOne, vars, services, LiveRuntimes, LiveMemories
<1> QED BY <1>2, <1>3, <1>4 DEF Next, Finished, Invokes

LEMMA AlwaysAInv == Spec => []AInv
<1>1. Init => AInv
  BY InitBInv DEF Init, AInv, Alone, AtMostOne, LiveRuntimes, LiveMemories, Running, UpSteps, DestroySteps
<1>2. AInv /\ [Next]_vars => AInv'
  BY NextBInv, NextAlone DEF AInv
<1> QED BY <1>1, <1>2, PTL DEF Spec

(* No id is used by deploy before a lookup or a create has filled it in.   *)
THEOREM TypeCorrect == Spec => []TypeOK
<1>1. AInv => TypeOK
  BY DEF AInv, BInv
<1> QED BY <1>1, AlwaysAInv, PTL

(* deployApplyMemory and deployApplyRuntime: runs that follow one another  *)
(* never make a second memory or runtime, whatever is refused, lost or     *)
(* killed, and whatever the services list or take back.                    *)
THEOREM NoDuplicates == Spec => []OneOfEach
<1>1. AInv => OneOfEach
  <2>1. IsFiniteSet(LiveRuntimes) /\ IsFiniteSet(LiveMemories)
    BY IdsAssumption, FS_Subset DEF LiveRuntimes, LiveMemories
  <2> QED BY <2>1, AtMostOneDef DEF AInv, Alone, OneOfEach, OneOfEachAlways
<1> QED BY <1>1, AlwaysAInv, PTL

-------------------------------------------------------------------------------
(* The steps of an up stay among the steps of an up, and a step of destroy *)
(* that fails says in which service.                                       *)
LEMMA Sides ==
    ASSUME BInv, NEW i \in Invocations, Invokes(i)
    PROVE  /\ pc[i] \in Running => UNCHANGED cmd /\ failed[i] \subseteq failed'[i]
           /\ pc[i] \in UpSteps => pc'[i] \notin DestroySteps /\ IsUp(i)
           /\ pc[i] \in DestroySteps => pc'[i] \notin UpSteps /\ Destroying(i)
           /\ pc[i] \notin Running => pc'[i] \in {"identity", "find runtime"}
<1>1. Shape /\ Orderly(i) /\ Orderly(i)' /\ Own(i)'
  BY OwnStep, TypeSplit DEF BInv, Invokes, Kept
<1>2. CASE pc[i] \in Running
  <2>1. UNCHANGED cmd /\ failed[i] \subseteq failed'[i]
    <3>1. ~Start(i)
      BY <1>2 DEF Start, Running, UpSteps, DestroySteps
    <3> QED BY <3>1, StepKinds, Failed DEF Moved, Invokes
  <2> QED BY <1>1, <1>2, <2>1 DEF Orderly, IsUp, Destroying, Running, UpSteps, DestroySteps
<1>3. CASE pc[i] \notin Running
  <2>1. Start(i) /\ pc[i] = "idle"
    BY <1>3, Arrivals
  <2> QED BY <1>1, <1>3, <2>1 DEF Start, Goto, Shape, Running
<1> QED BY <1>2, <1>3

LEMMA DestroyFails ==
    ASSUME BInv, NEW i \in Invocations, pc[i] \in DestroySteps, Fail(i)
    PROVE  /\ failed'[i] # {} /\ UNCHANGED <<cmd, mem, rt>>
           /\ pc'[i] \in {"done", "find memory", "purge"}
           /\ pc[i] \in {"find runtime", "delete runtime", "await deleted"} => "runtime" \in failed'[i]
<1>1. Shape /\ Destroying(i) /\ pc[i] \in Running
  BY TypeSplit DEF BInv, Orderly, Running
<1>2. failed'[i] = failed[i] \cup {Service(pc[i])}
  BY <1>1 DEF Fail, Shape
<1>3. pc[i] \in {"find runtime", "delete runtime", "await deleted"} => Service(pc[i]) = "runtime"
  BY <1>1, AfterRuntime
<1> QED BY <1>1, <1>2, <1>3, Failed

(* Where a step of destroy that does not fail leads.                       *)
LEMMA DestroySucceeds ==
    ASSUME BInv, NEW i \in Invocations, pc[i] \in DestroySteps, Invokes(i), ~Fail(i)
    PROVE  \/ pc'[i] = "killed" /\ UNCHANGED <<services, rt, mem, failed>>
           \/ /\ pc[i] = "find runtime" /\ UNCHANGED <<services, mem, failed>>
              /\ \/ pc'[i] = "delete runtime"
                    /\ \E r \in ListedRuntimes : rt' = [rt EXCEPT ![i] = r]
                 \/ pc'[i] = "find memory" /\ ListedRuntimes = {} /\ rt'[i] = None
           \/ /\ pc[i] = "delete runtime" /\ pc'[i] = "await deleted"
              /\ UNCHANGED <<memory, rt, mem, failed>> /\ runtime'[rt[i]] = "DELETING"
           \/ /\ pc[i] = "await deleted" /\ pc'[i] = "find memory"
              /\ runtime[rt[i]] \in {"ACTIVE", "DELETED", "gone"}
              /\ UNCHANGED <<services, rt, mem, failed>>
           \/ /\ pc[i] = "find memory" /\ UNCHANGED <<services, rt, failed>>
              /\ \/ pc'[i] = "delete memory"
                    /\ \E m \in ListedMemories : mem' = [mem EXCEPT ![i] = m]
                 \/ /\ ListedMemories = {}
                    /\ pc'[i] = IF cmd[i] = "destroy-purge" THEN "purge" ELSE "done"
           \/ /\ pc[i] = "delete memory" /\ UNCHANGED <<runtime, rt, mem, failed>>
              /\ pc'[i] = IF cmd[i] = "destroy-purge" THEN "purge" ELSE "done"
              /\ memory' = [memory EXCEPT ![mem[i]] = "DELETED"]
           \/ /\ pc[i] = "purge" /\ pc'[i] = "done" /\ UNCHANGED <<runtime, memory, rt, mem, failed>>
              /\ identity' = FALSE
<1>1. Shape /\ ServicesOK /\ Orderly(i) /\ Own(i) /\ Destroying(i)
  BY TypeSplit DEF BInv, Orderly
<1> USE DEF Goto, Shape, services, locals
<1>2. CASE FindRuntime(i)
  BY <1>1, <1>2 DEF FindRuntime, Orderly
<1>3. CASE DeleteRuntime(i)
  BY <1>1, <1>3 DEF DeleteRuntime, LiveRuntimes, ServicesOK
<1>4. CASE AwaitDeleted(i)
  <2>1. AfterService(i) = "find memory"
    BY <1>1, <1>4, AfterRuntime DEF AwaitDeleted
  <2> QED BY <1>1, <1>4, <2>1 DEF AwaitDeleted, Poll
<1>5. CASE FindMemory(i)
  <2>1. AfterService(i) = IF cmd[i] = "destroy-purge" THEN "purge" ELSE "done"
    BY <1>1, <1>5, AfterMemory DEF FindMemory
  <2> QED BY <1>1, <1>5, <2>1 DEF FindMemory
<1>6. CASE DeleteMemory(i)
  <2>1. AfterService(i) = IF cmd[i] = "destroy-purge" THEN "purge" ELSE "done"
    BY <1>1, <1>6, AfterMemory DEF DeleteMemory
  <2> QED BY <1>1, <1>6, <2>1 DEF DeleteMemory
<1>7. CASE PurgeIdentity(i)
  BY <1>1, <1>7 DEF PurgeIdentity
<1>8. CASE Killed(i)
  BY <1>1, <1>8 DEF Killed
<1>9. ~Up(i) /\ ~Start(i) /\ ~Timeout(i) /\ ~Refused(i)
  BY DEF Up, Start, Timeout, Refused, DestroySteps, LookUpIdentity, CreateIdentity, LookUpMemory,
         CreateMemory, LookUpRuntime, CreateRuntime, Converge
<1> QED BY <1>2, <1>3, <1>4, <1>5, <1>6, <1>7, <1>8, <1>9 DEF Invokes, Step, Destroy

LEMMA NextDInv == "reverts" \notin Services /\ DInv /\ [Next]_vars => DInv'
<1> SUFFICES ASSUME "reverts" \notin Services, DInv, [Next]_vars
             PROVE  \A i \in Invocations : Going(i)' /\ Deleted(i)'
  BY NextBInv DEF DInv
<1>1. BInv /\ ServicesOK /\ Shape /\ \A i \in Invocations : Own(i) /\ Orderly(i) /\ Going(i) /\ Deleted(i)
  BY TypeSplit DEF DInv, BInv
<1> DEFINE Leaving == {"DELETING", "ERROR", "DELETED", "gone"}
           Gone    == {"DELETED", "gone"}
<1>2. ASSUME NEW i \in Invocations, Invokes(i), NEW j \in Invocations PROVE Going(j)' /\ Deleted(j)'
  <2>1. \A r \in Ids : /\ runtime[r] \in Leaving => runtime'[r] \in Leaving
                       /\ runtime[r] \in Gone => runtime'[r] \in Gone
    <3>1. CASE UNCHANGED runtime
      BY <3>1
    <3>2. ASSUME NEW q \in Ids, runtime[q] = "unused", runtime' = [runtime EXCEPT ![q] = "CREATING"]
          PROVE  \A r \in Ids : runtime[r] \in Leaving => runtime'[r] = runtime[r]
      BY <1>1, <3>2 DEF ServicesOK
    <3>3. CASE rt[i] \in LiveRuntimes /\ runtime' = [runtime EXCEPT ![rt[i]] = "DELETING"]
      BY <1>1, <3>3 DEF ServicesOK, LiveRuntimes
    <3> QED BY <1>2, <3>1, <3>2, <3>3, RuntimeSteps
  <2>2. CASE j # i
    <3>1. Apart(i)
      BY <1>1, <1>2, OwnStep DEF Invokes, Kept
    <3>2. pc[j] = "await deleted" => rt[j] \in Ids
      BY <1>1 DEF Own
    <3>3. rt[j] # None => rt[j] \in Ids
      BY <1>1 DEF Own
    <3> QED BY <1>1, <2>1, <2>2, <3>1, <3>2, <3>3 DEF Apart, Going, Deleted, IsUp
  <2>3. CASE j = i /\ pc[i] \notin DestroySteps
    <3>1. /\ pc'[i] \notin {"await deleted", "find memory", "delete memory", "purge"}
          /\ pc'[i] = "done" => IsUp(i)'
      BY <1>1, <1>2, <2>3, Sides DEF Running, DestroySteps, IsUp
    <3> QED BY <2>3, <3>1 DEF Going, Deleted
  <2>4. CASE j = i /\ pc[i] \in DestroySteps /\ Fail(i)
    <3>1. /\ failed'[i] # {} /\ UNCHANGED <<cmd, mem, rt>>
          /\ pc'[i] \in {"done", "find memory", "purge"}
          /\ pc[i] \in {"find runtime", "delete runtime", "await deleted"} => "runtime" \in failed'[i]
      BY <1>1, <2>4, DestroyFails
    <3>2. failed[i] \subseteq failed'[i] /\ ~IsUp(i)
      BY <1>1, <1>2, <2>4, Sides DEF Running, IsUp, Destroying
    <3>3. pc[i] \in {"find memory", "delete memory", "purge"} =>
              (rt[i] # None /\ "runtime" \notin failed[i] => runtime[rt[i]] \in Gone)
      BY <1>1 DEF Deleted
    <3>4. rt[i] # None => rt[i] \in Ids
      BY <1>1 DEF Own
    <3> QED BY <2>1, <2>4, <3>1, <3>2, <3>3, <3>4 DEF Going, Deleted, DestroySteps
  <2>5. CASE j = i /\ pc[i] \in DestroySteps /\ ~Fail(i)
    <3>1. runtime[rt[i]] \in {"ACTIVE", "DELETED", "gone"} /\ pc[i] = "await deleted" =>
              runtime[rt[i]] \in Gone
      BY <1>1 DEF Going
    <3>2. pc[i] \in {"find memory", "delete memory", "purge"} =>
              (rt[i] # None /\ "runtime" \notin failed[i] => runtime[rt[i]] \in Gone)
      BY <1>1 DEF Deleted
    <3> QED BY <1>1, <1>2, <2>5, <3>1, <3>2, DestroySucceeds DEF Going, Deleted, services
  <2> QED BY <2>2, <2>3, <2>4, <2>5
<1>3. ASSUME NEW r \in Ids, RuntimeMoves(r), NEW j \in Invocations PROVE Going(j)' /\ Deleted(j)'
  <2>1. \A q \in Ids : /\ runtime[q] \in Leaving => runtime'[q] \in Leaving
                       /\ runtime[q] \in Gone => runtime'[q] \in Gone
    BY <1>1, <1>3 DEF RuntimeMoves, ServicesOK
  <2>2. UNCHANGED <<pc, cmd, rt, failed>>
    BY <1>1, <1>3, ServiceMoves
  <2>3. (pc[j] = "await deleted" => rt[j] \in Ids) /\ (rt[j] # None => rt[j] \in Ids)
    BY <1>1 DEF Own
  <2> QED BY <1>1, <2>1, <2>2, <2>3 DEF Going, Deleted, IsUp
<1>4. CASE UNCHANGED vars
  BY <1>1, <1>4 DEF vars, services, Going, Deleted, IsUp
<1> QED BY <1>2, <1>3, <1>4 DEF Next, Finished, Invokes

LEMMA AlwaysDInv == ASSUME "reverts" \notin Services PROVE Spec => []DInv
<1>1. Init => DInv
  BY InitBInv DEF Init, DInv, Going, Deleted
<1>2. DInv /\ [Next]_vars => DInv'
  BY NextDInv
<1> QED BY <1>1, <1>2, PTL DEF Spec

(* deployDeleteRuntime, at any concurrency: a runtime that destroy turns   *)
(* away from without an error has been deleted, if the runtime service does*)
(* not put one that it is deleting back into service.                      *)
THEOREM DeletedForGood == ASSUME "reverts" \notin Services PROVE Spec => []DeletedIsGone
<1>1. DInv => DeletedIsGone
  BY DEF DInv, Deleted, DeletedIsGone
<1> QED BY <1>1, AlwaysDInv, PTL

-------------------------------------------------------------------------------
(* Where a step of up that does not fail leads.                            *)
LEMMA UpSucceeds ==
    ASSUME BInv, NEW i \in Invocations, pc[i] \in UpSteps, Invokes(i), ~Fail(i)
    PROVE  \/ pc'[i] = "killed" /\ UNCHANGED services
           \/ /\ pc[i] = "identity" /\ UNCHANGED services
              /\ pc'[i] = IF identity THEN AfterIdentity(i) ELSE "create identity"
           \/ /\ pc[i] = "create identity" /\ UNCHANGED <<memory, runtime>> /\ identity' = TRUE
              /\ pc'[i] = AfterIdentity(i)
           \/ /\ pc[i] = "memory" /\ UNCHANGED services
              /\ \/ pc'[i] = "runtime" /\ mem'[i] \in ListedMemories
                 \/ pc'[i] = "create memory"
           \/ /\ pc[i] = "create memory" /\ UNCHANGED <<identity, runtime>>
              /\ pc'[i] = "runtime" /\ memory'[mem'[i]] = "ACTIVE"
           \/ /\ pc[i] = "runtime" /\ UNCHANGED services /\ mem' = mem
              /\ \/ /\ pc'[i] = "done" /\ rt'[i] \in Ids
                    /\ runtime[rt'[i]] \in {"ACTIVE", "DELETED"} \/ cmd[i] = "up-no-wait"
                 \/ pc'[i] \in {"converge", "create runtime"}
           \/ /\ pc[i] = "create runtime" /\ UNCHANGED <<identity, memory, mem>>
              /\ pc'[i] = IF cmd[i] = "up-no-wait" THEN "done" ELSE "converge"
           \/ /\ pc[i] = "converge" /\ pc'[i] = "done" /\ UNCHANGED services /\ mem' = mem /\ rt' = rt
              /\ runtime[rt[i]] \in {"ACTIVE", "DELETED"}
<1>1. Shape /\ ServicesOK /\ Orderly(i) /\ Own(i) /\ IsUp(i)
  BY TypeSplit DEF BInv, Orderly
<1> USE DEF Goto, Shape, services, locals
<1>2. CASE LookUpIdentity(i)
  BY <1>1, <1>2 DEF LookUpIdentity
<1>3. CASE CreateIdentity(i)
  BY <1>1, <1>3 DEF CreateIdentity
<1>4. CASE LookUpMemory(i)
  BY <1>1, <1>4 DEF LookUpMemory, ListedMemories, LiveMemories
<1>5. CASE CreateMemory(i) /\ ~Fail(i)
  <2>1. PICK m \in Ids : /\ memory' = [memory EXCEPT ![m] = "ACTIVE"]
                         /\ mem' = [mem EXCEPT ![i] = m] /\ pc' = [pc EXCEPT ![i] = "runtime"]
    BY <1>5 DEF CreateMemory
  <2>2. memory'[mem'[i]] = "ACTIVE" /\ pc'[i] = "runtime"
    BY <1>1, <2>1 DEF ServicesOK
  <2> QED BY <1>5, <2>2 DEF CreateMemory
<1>6. CASE LookUpRuntime(i)
  BY <1>1, <1>6 DEF LookUpRuntime, ListedRuntimes, LiveRuntimes
<1>7. CASE CreateRuntime(i)
  BY <1>1, <1>7 DEF CreateRuntime
<1>8. CASE Converge(i)
  BY <1>1, <1>8, AfterUp DEF Converge, Poll
<1>9. CASE Killed(i)
  BY <1>1, <1>9 DEF Killed
<1>10. ~Destroy(i) /\ ~Start(i) /\ ~Timeout(i) /\ ~Refused(i)
  BY DEF Destroy, Start, Timeout, Refused, UpSteps, FindRuntime, DeleteRuntime, AwaitDeleted,
         FindMemory, DeleteMemory, PurgeIdentity
<1> QED BY <1>2, <1>3, <1>4, <1>5, <1>6, <1>7, <1>8, <1>9, <1>10 DEF Invokes, Step, Up

LEMMA NothingDeletedIsListed ==
    ASSUME Services = {} PROVE ListedMemories = LiveMemories /\ ListedRuntimes = LiveRuntimes
  BY DEF ListedMemories, ListedRuntimes, ListsDeleted

(* What a report stands for.                                               *)
Told(i) ==
    \/ /\ IsUp(i) /\ identity'
       /\ cmd[i] = "up" => memory'[mem'[i]] = "ACTIVE"
       /\ cmd[i] # "up-no-wait" => runtime'[rt'[i]] = "ACTIVE"
    \/ /\ Destroying(i) /\ LiveRuntimes' = {} /\ LiveMemories' = {}
       /\ cmd[i] = "destroy-purge" => ~identity'

(* What an invocation knows when it is alone, from step to step and at its *)
(* report.                                                                 *)
LEMMA SoFarStep ==
    ASSUME Services = {}, RInv, OneAtATime, NEW i \in Invocations, Invokes(i)
    PROVE  SoFar(i)' /\ (Reports(i) => Told(i))
<1>1. /\ BInv /\ Alone /\ SoFar(i) /\ Going(i) /\ ServicesOK /\ Shape /\ Own(i) /\ Orderly(i)
      /\ \A r \in Ids : runtime[r] # "DELETED"
  BY TypeSplit DEF RInv, AInv, DInv, BInv
<1>2. CASE pc[i] \notin Running
  BY <1>1, <1>2, Sides DEF SoFar, Reports
<1>3. CASE pc[i] \in Running /\ Fail(i)
  BY <1>1, <1>3, Failed DEF SoFar, Reports
<1>4. CASE pc[i] \in UpSteps /\ ~Fail(i)
  <2>1. UNCHANGED cmd /\ IsUp(i)
    BY <1>1, <1>4, Sides DEF Running
  <2>2. ListedMemories = LiveMemories /\ \A m \in LiveMemories : memory[m] = "ACTIVE"
    BY NothingDeletedIsListed DEF LiveMemories
  <2>3. AfterIdentity(i) \in {"memory", "runtime"} /\ (AfterIdentity(i) = "runtime" => cmd[i] # "up")
    BY DEF AfterIdentity
  <2>4. SoFar(i)'
    BY <1>1, <1>4, <2>1, <2>2, <2>3, UpSucceeds DEF SoFar, services, UpSteps
  <2>5. ASSUME Reports(i)
        PROVE  /\ identity' /\ (cmd[i] = "up" => memory'[mem'[i]] = "ACTIVE")
               /\ cmd[i] # "up-no-wait" => runtime'[rt'[i]] = "ACTIVE"
    <3>1. pc'[i] = "done"
      BY <2>5 DEF Reports
    <3>2. pc[i] \in {"runtime", "create runtime", "converge"}
      BY <1>1, <1>4, <2>3, <3>1, UpSucceeds
    <3>3. identity' /\ (cmd[i] = "up" => memory'[mem'[i]] = "ACTIVE")
      BY <1>1, <1>4, <3>1, <3>2, UpSucceeds DEF SoFar, services
    <3>4. CASE pc[i] = "runtime"
      BY <1>1, <1>4, <3>1, <3>3, <3>4, UpSucceeds DEF services
    <3>5. CASE pc[i] = "create runtime"
      BY <1>1, <1>4, <3>1, <3>3, <3>5, UpSucceeds
    <3>6. CASE pc[i] = "converge"
      BY <1>1, <1>4, <3>1, <3>3, <3>6, UpSucceeds DEF services, Own
    <3> QED BY <3>2, <3>4, <3>5, <3>6
  <2> QED BY <2>1, <2>4, <2>5 DEF Told
<1>5. CASE pc[i] \in DestroySteps /\ ~Fail(i)
  <2>1. UNCHANGED cmd /\ Destroying(i)
    BY <1>1, <1>5, Sides DEF Running
  <2>2. ListedRuntimes = LiveRuntimes /\ ListedMemories = LiveMemories
    BY NothingDeletedIsListed
  <2>3. LiveRuntimes' \subseteq LiveRuntimes /\ LiveMemories' \subseteq LiveMemories
    BY <1>1, <1>5, LiveAfter DEF DestroySteps
  <2>4. pc'[i] # "done" => ~Reports(i)
    BY DEF Reports
  <2> DEFINE Gone == LiveRuntimes' = {} /\ LiveMemories' = {}
  <2>5. ASSUME pc'[i] = "killed" PROVE SoFar(i)' /\ ~Reports(i)
    BY <2>4, <2>5 DEF SoFar
  <2>6. ASSUME pc[i] = "find runtime", pc'[i] # "killed" PROVE SoFar(i)' /\ ~Reports(i)
    <3>1. CASE pc'[i] = "delete runtime"
      <4>1. PICK r \in LiveRuntimes : rt' = [rt EXCEPT ![i] = r]
        BY <1>1, <1>5, <2>2, <2>6, <3>1, DestroySucceeds
      <4>2. LiveRuntimes \subseteq {rt'[i]}
        BY <1>1, <4>1 DEF Alone, AtMostOne, Shape
      <4> QED BY <2>3, <2>4, <3>1, <4>2 DEF SoFar, UpSteps
    <3>2. CASE pc'[i] = "find memory"
      <4>1. LiveRuntimes = {}
        BY <1>1, <1>5, <2>2, <2>6, <3>2, DestroySucceeds
      <4> QED BY <2>3, <2>4, <3>2, <4>1 DEF SoFar
    <3> QED BY <1>1, <1>5, <2>6, <3>1, <3>2, DestroySucceeds
  <2>7. ASSUME pc[i] = "delete runtime", pc'[i] # "killed" PROVE SoFar(i)' /\ ~Reports(i)
    <3>1. pc'[i] = "await deleted" /\ rt' = rt
      BY <1>1, <1>5, <2>7, DestroySucceeds
    <3> QED BY <1>1, <2>3, <2>4, <2>7, <3>1 DEF SoFar
  <2>8. ASSUME pc[i] = "await deleted", pc'[i] # "killed" PROVE SoFar(i)' /\ ~Reports(i)
    <3>1. /\ pc'[i] = "find memory" /\ UNCHANGED <<services, rt>>
          /\ runtime[rt[i]] \in {"ACTIVE", "DELETED", "gone"}
      BY <1>1, <1>5, <2>8, DestroySucceeds
    <3>2. rt[i] \in Ids /\ runtime[rt[i]] = "gone"
      BY <1>1, <2>8, <3>1 DEF Own, Going
    <3>3. LiveRuntimes = {}
      <4>1. rt[i] \notin LiveRuntimes /\ LiveRuntimes \subseteq {rt[i]}
        BY <1>1, <2>8, <3>2 DEF SoFar, LiveRuntimes
      <4> QED BY <4>1
    <3> QED BY <2>3, <2>4, <3>1, <3>3 DEF SoFar
  <2>9. ASSUME pc[i] = "find memory", pc'[i] # "killed" PROVE SoFar(i)' /\ (Reports(i) => Gone /\ cmd[i] = "destroy")
    <3>1. failed' = failed
      BY <1>1, <1>5, <2>9, DestroySucceeds
    <3>2. failed[i] = {} => LiveRuntimes' = {}
      BY <1>1, <2>3, <2>9 DEF SoFar
    <3>3. CASE pc'[i] = "delete memory"
      <4>1. PICK m \in LiveMemories : mem' = [mem EXCEPT ![i] = m]
        BY <1>1, <1>5, <2>2, <2>9, <3>3, DestroySucceeds
      <4>2. LiveMemories \subseteq {mem'[i]}
        BY <1>1, <4>1 DEF Alone, AtMostOne, Shape
      <4> QED BY <2>3, <2>4, <3>1, <3>2, <3>3, <4>2 DEF SoFar
    <3>4. CASE pc'[i] # "delete memory"
      <4>1. LiveMemories = {} /\ pc'[i] = IF cmd[i] = "destroy-purge" THEN "purge" ELSE "done"
        BY <1>1, <1>5, <2>2, <2>9, <3>4, DestroySucceeds
      <4> QED BY <2>1, <2>3, <3>1, <3>2, <4>1 DEF SoFar, Reports, Destroying
    <3> QED BY <3>3, <3>4
  <2>10. ASSUME pc[i] = "delete memory", pc'[i] # "killed"
         PROVE  SoFar(i)' /\ (Reports(i) => Gone /\ cmd[i] = "destroy")
    <3>1. /\ failed' = failed /\ memory' = [memory EXCEPT ![mem[i]] = "DELETED"]
          /\ pc'[i] = IF cmd[i] = "destroy-purge" THEN "purge" ELSE "done"
      BY <1>1, <1>5, <2>10, DestroySucceeds
    <3>2. failed[i] = {} => LiveRuntimes' = {}
      BY <1>1, <2>3, <2>10 DEF SoFar
    <3>3. LiveMemories' = {}
      <4>1. mem[i] \in Ids /\ LiveMemories \subseteq {mem[i]}
        BY <1>1, <2>10 DEF Own, SoFar
      <4>2. mem[i] \notin LiveMemories'
        BY <1>1, <3>1, <4>1 DEF LiveMemories, ServicesOK
      <4> QED BY <2>3, <4>1, <4>2
    <3> QED BY <2>1, <3>1, <3>2, <3>3 DEF SoFar, Reports, Destroying
  <2>11. ASSUME pc[i] = "purge", pc'[i] # "killed"
         PROVE  SoFar(i)' /\ (Reports(i) => Gone /\ ~identity')
    <3>1. failed' = failed /\ pc'[i] = "done" /\ identity' = FALSE
      BY <1>1, <1>5, <2>11, DestroySucceeds
    <3> QED BY <1>1, <2>3, <2>11, <3>1 DEF SoFar, Reports
  <2> QED BY <1>5, <2>1, <2>5, <2>6, <2>7, <2>8, <2>9, <2>10, <2>11 DEF DestroySteps, Told
<1> QED BY <1>2, <1>3, <1>4, <1>5 DEF Running

(* What the runtime service does by itself takes nothing back that up has  *)
(* been told, and brings nothing back that destroy was rid of.             *)
LEMMA SoFarMoves ==
    ASSUME BInv, NEW r \in Ids, RuntimeMoves(r), NEW j \in Invocations, SoFar(j)
    PROVE  SoFar(j)'
  BY ServiceMoves DEF SoFar

LEMMA NoneDeleted ==
    ASSUME Services = {}, RInv, [Next]_vars
    PROVE  \A q \in Ids : runtime'[q] # "DELETED"
<1>1. BInv /\ ServicesOK /\ \A q \in Ids : runtime[q] # "DELETED"
  BY TypeSplit DEF RInv, AInv, BInv
<1>2. ASSUME NEW i \in Invocations, Invokes(i) PROVE \A q \in Ids : runtime'[q] # "DELETED"
  BY <1>1, <1>2, RuntimeSteps DEF ServicesOK
<1>3. ASSUME NEW r \in Ids, RuntimeMoves(r) PROVE \A q \in Ids : runtime'[q] # "DELETED"
  <2>1. PICK s \in {"ACTIVE", "ERROR", "gone"} : runtime' = [runtime EXCEPT ![r] = s]
    BY <1>3 DEF RuntimeMoves, ListsDeleted
  <2> QED BY <1>1, <2>1 DEF ServicesOK
<1>4. CASE UNCHANGED vars
  BY <1>1, <1>4 DEF vars, services
<1> QED BY <1>2, <1>3, <1>4 DEF Next, Finished, Invokes

LEMMA NextRInv == ASSUME Services = {} PROVE RInv /\ [Next]_vars => RInv'
<1> SUFFICES ASSUME RInv, [Next]_vars, OneAtATime' PROVE \A j \in Invocations : SoFar(j)'
  BY NextBInv, NextAlone, NextDInv, NoneDeleted DEF RInv, AInv
<1>1. BInv /\ Alone /\ OneAtATime /\ \A j \in Invocations : SoFar(j)
  BY DEF RInv, AInv, OneAtATime, Next, vars, Finished
<1>2. ASSUME NEW i \in Invocations, Invokes(i), NEW j \in Invocations PROVE SoFar(j)'
  <2>1. CASE j = i
    BY <1>1, <1>2, <2>1, SoFarStep
  <2>2. CASE j # i
    <3>1. Alone' /\ Apart(i)
      BY <1>1, <1>2, NextAlone, OwnStep DEF RInv, Invokes, Kept
    <3>2. pc'[j] \notin Running
      <4>1. pc[i] \in Running => pc[j] \notin Running
        BY <1>1, <2>2 DEF Alone
      <4>2. pc[i] \notin Running => pc'[i] \in Running
        BY <1>1, <1>2, Sides DEF Running, UpSteps, DestroySteps
      <4> QED BY <2>2, <3>1, <4>1, <4>2 DEF Alone, Apart
    <3> QED BY <3>2 DEF SoFar, Running, UpSteps, DestroySteps
  <2> QED BY <2>1, <2>2
<1>3. ASSUME NEW r \in Ids, RuntimeMoves(r), NEW j \in Invocations PROVE SoFar(j)'
  BY <1>1, <1>3, SoFarMoves
<1>4. CASE UNCHANGED vars
  BY <1>1, <1>4 DEF vars, services, SoFar, LiveRuntimes, LiveMemories
<1> QED BY <1>2, <1>3, <1>4 DEF Next, Finished, Invokes

LEMMA AlwaysRInv == ASSUME Services = {} PROVE Spec => []RInv
<1>1. Init => RInv
  <2>1. Init => BInv /\ Alone
    BY InitBInv DEF Init, Alone, AtMostOne, LiveRuntimes, LiveMemories, Running, UpSteps, DestroySteps
  <2> QED BY <2>1 DEF Init, RInv, AInv, DInv, Going, Deleted, SoFar
<1>2. RInv /\ [Next]_vars => RInv'
  BY NextRInv
<1> QED BY <1>1, <1>2, PTL DEF Spec

(* renderDeploySteps and renderDestroySteps, alone: what up reports as     *)
(* applied is there and runs, what destroy reports as destroyed is not, if *)
(* a deleted resource is listed no longer and a deletion is not taken back.*)
THEOREM ReportsTrue == ASSUME Services = {} PROVE Spec => ReportsAreTrue
<1>1. RInv /\ [Next]_vars => [UpDelivers /\ DestroyCleans]_vars
  <2> SUFFICES ASSUME RInv, [Next]_vars, NEW j \in Invocations, Reports(j)
               PROVE  /\ cmd[j] \in {"up", "up-stateless"} =>
                            /\ identity' /\ (cmd[j] = "up" => memory'[mem'[j]] = "ACTIVE")
                            /\ runtime'[rt'[j]] = "ACTIVE"
                      /\ cmd[j] \in {"destroy", "destroy-purge"} =>
                            /\ LiveRuntimes' = {} /\ LiveMemories' = {}
                            /\ cmd[j] = "destroy-purge" => ~identity'
    BY DEF UpDelivers, DestroyCleans
  <2>1. OneAtATime /\ pc[j] \in Running /\ pc'[j] = "done" /\ BInv
    BY DEF Reports, RInv, AInv
  <2>2. "done" \notin Running
    BY DEF Running, UpSteps, DestroySteps
  <2>3. ASSUME NEW i \in Invocations, Invokes(i) PROVE i = j
    <3>1. Apart(i)
      BY <2>1, <2>3, OwnStep DEF Invokes, Kept
    <3> QED BY <2>1, <2>2, <3>1 DEF Apart
  <2>4. ~\E r \in Ids : RuntimeMoves(r)
    BY <2>1, <2>2, ServiceMoves
  <2>5. ~UNCHANGED vars
    BY <2>1, <2>2 DEF vars
  <2>6. Invokes(j)
    BY <2>3, <2>4, <2>5 DEF Next, Finished, Invokes
  <2>7. Told(j)
    BY <2>1, <2>6, SoFarStep
  <2> QED BY <2>7 DEF Told, IsUp, Destroying
<1> QED BY <1>1, AlwaysRInv, PTL DEF Spec, ReportsAreTrue
===============================================================================

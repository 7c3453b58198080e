-------------------------- MODULE ResourceWaits_proof --------------------------
(***************************************************************************)
(* Proofs about ResourceWaits, for any node groups, page size and number of*)
(* polls: type correctness, and that the exit code of a waiter is true.    *)
(*                                                                         *)
(* The strengthening says that a waiter still polls only with attempts     *)
(* left, and that it has noted a resource that is in service right now.    *)
(***************************************************************************)
EXTENDS ResourceWaits, TLAPS

InService == wait = "polling" /\ status = "ACTIVE" => wasActive

IInv ==
    /\ TypeOK
    /\ wait \in {"idle", "polling"} => attempt < MaxAttempts
    /\ InService
    /\ ExitZeroIsTrue

LEMMA InitIInv == Init => IInv
<1> SUFFICES ASSUME Init PROVE IInv
  OBVIOUS
<1>1. MaxAttempts \in Nat \ {0}
  BY BoundsAssumption
<1>2. status \in Statuses
  BY DEF Init, Statuses, Failures
<1>3. groups \subseteq NodeGroups
  BY DEF Init
<1>4. TypeOK
  <2>1. /\ shown \subseteq NodeGroups /\ kind \in Waits /\ attempt \in 0 .. MaxAttempts
        /\ seen \in Answers \cup {"nothing"}
    BY <1>1 DEF Init
  <2>2. wasActive \in BOOLEAN
    BY DEF Init
  <2> QED
    BY <1>2, <1>3, <2>1, <2>2 DEF Init, TypeOK
<1> QED
  BY <1>1, <1>4 DEF Init, IInv, InService, ExitZeroIsTrue

-------------------------------------------------------------------------------
(* Where a resource can go from a status.                                  *)
LEMMA Successor ==
    ASSUME NEW s \in Successors(status)
    PROVE  /\ s \in Statuses \cup {"gone"}
           /\ status # "gone"
           /\ status = "DELETED" => s = "gone"
BY DEF Successors, Statuses, Failures

(* A move keeps what a finished wait said.                                 *)
LEMMA MoveKeeps ==
    ASSUME IInv, NEW s \in Statuses \cup {"gone"}, MoveTo(s),
           status # "gone", status = "DELETED" => s = "gone" \/ wait = "idle",
           UNCHANGED <<wait, kind, attempt, seen>>
    PROVE  /\ status' \in Statuses \cup {"gone"} /\ wasActive' \in BOOLEAN
           /\ InService' /\ ExitZeroIsTrue'
<1>1. /\ status' = s /\ wasActive' \in BOOLEAN
      /\ wasActive => wasActive'
      /\ wait = "polling" /\ s = "ACTIVE" => wasActive'
  BY DEF MoveTo
<1>2. InService'
  BY <1>1 DEF InService
<1>3. ASSUME wait = "done"
      PROVE  ExitZeroIsTrue'
  <2>1. kind \in {"active", "deleted", "runtime", "tool"}
    BY WaitsAssumption DEF IInv, TypeOK
  <2>2. CASE kind = "deleted"
    BY <1>3, <2>2 DEF IInv, ExitZeroIsTrue
  <2>3. CASE kind \in {"active", "tool"}
    BY <1>1, <1>3, <2>3 DEF IInv, ExitZeroIsTrue
  <2>4. CASE kind = "runtime"
    <3>1. wasActive \/ status \in {"DELETED", "gone"}
      BY <1>3, <2>4 DEF IInv, ExitZeroIsTrue
    <3>2. wasActive' \/ status' \in {"DELETED", "gone"}
      BY <1>1, <1>3, <3>1
    <3> QED
      BY <2>4, <3>2 DEF ExitZeroIsTrue
  <2> QED
    BY <2>1, <2>2, <2>3, <2>4
<1> QED
  BY <1>1, <1>2, <1>3 DEF ExitZeroIsTrue

(* What an evaluator makes of the resource it has just seen.               *)
LEMMA DoneIsTrue ==
    ASSUME IInv, wait = "polling",
           NEW answer \in {IF status = "gone" THEN "404" ELSE status, "permanent", "transient"},
           Evaluate(answer) = "done"
    PROVE  CASE kind = "deleted"            -> status = "gone"
             [] kind \in {"active", "tool"} -> wasActive
             [] kind = "runtime"            -> wasActive \/ status \in {"DELETED", "gone"}
<1>1. /\ kind \in {"active", "deleted", "runtime", "tool"}
      /\ status \in Statuses \cup {"gone"}
      /\ status = "ACTIVE" => wasActive
  BY WaitsAssumption DEF IInv, TypeOK, InService
<1>2. answer = "404" => status = "gone"
  BY <1>1 DEF Statuses
<1>3. answer \in {"ACTIVE", "DELETED"} => status = answer
  BY <1>1
<1>4. CASE kind = "active"
  BY <1>1, <1>3, <1>4 DEF Evaluate, EvaluateActive, IsPermanent
<1>5. CASE kind = "deleted"
  BY <1>2, <1>5 DEF Evaluate, EvaluateDeleted, IsPermanent
<1>6. CASE kind = "runtime"
  BY <1>1, <1>2, <1>3, <1>6 DEF Evaluate, EvaluateRuntime
<1>7. CASE kind = "tool"
  BY <1>1, <1>3, <1>7 DEF Evaluate, EvaluateTool
<1> QED
  BY <1>1, <1>4, <1>5, <1>6, <1>7

LEMMA NextIInv == IInv /\ [Next]_vars => IInv'
<1> SUFFICES ASSUME IInv, [Next]_vars PROVE IInv'
  OBVIOUS
<1>0. TypeOK /\ MaxAttempts \in Nat \ {0}
  BY BoundsAssumption DEF IInv
<1>1. CASE ResourceMoves
  <2>1. PICK s \in Successors(status) : MoveTo(s)
    BY <1>1 DEF ResourceMoves
  <2>2. UNCHANGED <<groups, del, shown, wait, kind, attempt, seen>>
    BY <1>1 DEF ResourceMoves
  <2>3. /\ status' \in Statuses \cup {"gone"} /\ wasActive' \in BOOLEAN
        /\ InService' /\ ExitZeroIsTrue'
    BY <2>1, <2>2, Successor, MoveKeeps
  <2> QED
    BY <1>0, <2>2, <2>3 DEF IInv, TypeOK
<1>2. CASE ReadCluster
  BY <1>0, <1>2 DEF ReadCluster, waitVars, IInv, TypeOK, InService, ExitZeroIsTrue
<1>3. CASE ReadNodeGroups
  <2>1. shown' \subseteq NodeGroups /\ del' \in {"failed", "confirm"}
    BY <1>0, <1>3 DEF ReadNodeGroups, TypeOK
  <2> QED
    BY <1>0, <1>3, <2>1 DEF ReadNodeGroups, waitVars, IInv, TypeOK, InService, ExitZeroIsTrue
<1>4. CASE Confirm
  BY <1>0, <1>4 DEF Confirm, waitVars, IInv, TypeOK, InService, ExitZeroIsTrue
<1>5. CASE SendDelete
  <2>1. /\ UNCHANGED <<groups, shown, wait, kind, attempt, seen>>
        /\ del' \in {"sent", "failed"}
    BY <1>5 DEF SendDelete
  <2>2. CASE status \notin {"gone", "DELETED"} /\ MoveTo("DELETING")
    <3>1. /\ status' \in Statuses \cup {"gone"} /\ wasActive' \in BOOLEAN
          /\ InService' /\ ExitZeroIsTrue'
      BY <2>1, <2>2, MoveKeeps DEF Statuses
    <3> QED
      BY <1>0, <2>1, <3>1 DEF IInv, TypeOK
  <2>3. CASE UNCHANGED <<status, wasActive>>
    BY <1>0, <2>1, <2>3 DEF IInv, TypeOK, InService, ExitZeroIsTrue
  <2> QED
    BY <1>5, <2>2, <2>3 DEF SendDelete
<1>6. CASE StartWait
  BY <1>0, <1>6 DEF StartWait, deleteVars, IInv, TypeOK, InService, ExitZeroIsTrue
<1>7. CASE Poll
  <2>1. PICK answer \in {IF status = "gone" THEN "404" ELSE status, "permanent", "transient"} :
          /\ seen' = answer
          /\ wait' = CASE Evaluate(answer) = "done"   -> "done"
                       [] Evaluate(answer) = "failed" -> "failed"
                       [] OTHER -> IF attempt' = MaxAttempts THEN "failed" ELSE "polling"
    BY <1>7 DEF Poll
  <2>2. /\ wait = "polling" /\ attempt' = attempt + 1
        /\ UNCHANGED <<status, groups, del, shown, kind, wasActive>>
    BY <1>7 DEF Poll, deleteVars
  <2>3. attempt < MaxAttempts /\ attempt \in Nat
    <3>1. attempt \in 0 .. MaxAttempts
      BY <1>0 DEF TypeOK
    <3>2. attempt < MaxAttempts
      BY <2>2 DEF IInv
    <3> QED
      BY <1>0, <3>1, <3>2
  <2>4. /\ attempt' \in 0 .. MaxAttempts /\ wait' \in {"done", "failed", "polling"}
        /\ wait' = "polling" => attempt' < MaxAttempts
    BY <1>0, <2>1, <2>2, <2>3
  <2>5. answer \in Answers
    BY <1>0 DEF Answers, TypeOK
  <2>6. TypeOK'
    <3>1. seen' \in Answers \cup {"nothing"}
      BY <2>1, <2>5
    <3>2. /\ status' \in Statuses \cup {"gone"} /\ groups' \subseteq NodeGroups
          /\ shown' \subseteq NodeGroups /\ kind' \in Waits
          /\ del' \in {"idle", "preview groups", "confirm", "send", "skipped", "failed", "sent"}
      BY <1>0, <2>2 DEF TypeOK
    <3>3. wasActive' \in BOOLEAN
      BY <1>0, <2>2 DEF TypeOK
    <3> QED
      BY <2>4, <3>1, <3>2, <3>3 DEF TypeOK
  <2>7. wait' = "done" => Evaluate(answer) = "done"
    BY <2>1
  <2>8. ExitZeroIsTrue'
    <3> SUFFICES ASSUME wait' = "done" PROVE ExitZeroIsTrue'
      BY DEF ExitZeroIsTrue
    <3> QED
      BY <2>2, <2>7, DoneIsTrue DEF ExitZeroIsTrue
  <2>9. InService'
    BY <2>2 DEF IInv, InService
  <2> QED
    BY <2>4, <2>6, <2>8, <2>9 DEF IInv
<1>8. CASE TimeOut
  BY <1>0, <1>8 DEF TimeOut, deleteVars, IInv, TypeOK, InService, ExitZeroIsTrue
<1>9. CASE UNCHANGED vars
  BY <1>0, <1>9 DEF vars, IInv, TypeOK, InService, ExitZeroIsTrue
<1> QED
  BY <1>1, <1>2, <1>3, <1>4, <1>5, <1>6, <1>7, <1>8, <1>9 DEF Next, Exited

LEMMA AlwaysIInv == Spec => []IInv
BY InitIInv, NextIInv, PTL DEF Spec

(* The waiters' state stays well formed; no waiter polls more often than   *)
(* its attempts allow.                                                     *)
THEOREM TypeCorrect == Spec => []TypeOK
<1>1. IInv => TypeOK
  BY DEF IInv
<1> QED
  BY <1>1, AlwaysIInv, PTL

(* Exit code 0 is to be relied on, whatever the service, its API and other *)
(* users do between two polls.                                             *)
THEOREM ExitCodes == Spec => []ExitZeroIsTrue
<1>1. IInv => ExitZeroIsTrue
  BY DEF IInv
<1> QED
  BY <1>1, AlwaysIInv, PTL
===============================================================================

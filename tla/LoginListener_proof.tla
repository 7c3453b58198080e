-------------------------- MODULE LoginListener_proof --------------------------
(***************************************************************************)
(* What login and configure leave behind.                                  *)
(*                                                                         *)
(* The listener, for any number of browser requests: Serve returns a code  *)
(* without an error only for a callback that carried the nonce, and never  *)
(* before its listener is closed and its server goroutine has ended.       *)
(* l.cbErr is only ever written with an error, so that the first handler's *)
(* verdict cannot be taken back by a later one: this, and that the handler *)
(* records its verdict before it signals, is what the proof rests on.      *)
(*                                                                         *)
(* The two files of a profile, for any profiles and commands that follow   *)
(* one another: a command changes what it was asked to change.             *)
(***************************************************************************)
EXTENDS LoginListener, ConfigFiles, FiniteSetTheorems, TLAPS

(* A handler past its verdict has left its error, if it had one; denied    *)
(* callbacks bring no code.                                                *)
Judged ==
    \A r \in Requests :
        /\ conn[r] = "store" => kind[r] # "denied"
        /\ conn[r] \in {"signal", "return", "shutdown", "idle"} /\ kind[r] # "good"
               => cbErr # "nil"

(* The signal comes from a handler that is past its verdict, and Serve     *)
(* takes the callback's branch only after it.                              *)
Signalled ==
    /\ received => conn[first] \in {"return", "shutdown", "idle"}
    /\ main \in {"received", "read"} => received

(* Only ReadError returns without an error, and only it reads l.cbErr.     *)
Honest == main = "returned" /\ result.err = "nil" => received /\ kind[first] = "good"

(* The server goroutine ends only once the listener is closed, and Serve   *)
(* leaves its select only with its result in hand.                         *)
Closed ==
    /\ serveErr \in {"sent", "taken"} => port = "closed"
    /\ main \in {"exited", "read", "returned"} => serveErr = "taken"

IInv == TypeOK /\ Judged /\ Signalled /\ Honest /\ Closed

LEMMA InitInv == Init => IInv
  BY NoRequestAssumption DEF Init, IInv, TypeOK, Judged, Signalled, Honest, Closed, received,
     Kinds, Errors, ConnStates, Results

LEMMA NextInv == IInv /\ [Next]_vars => IInv'
  <1>. SUFFICES ASSUME IInv, [Next]_vars
                PROVE  IInv'
    OBVIOUS
  <1>. USE DEF IInv, received, fieldVars, serverVars
  <1>1. ASSUME NEW r \in Requests, Connect(r) \/ SendRequest(r) PROVE IInv'
    <2>1. TypeOK'
      BY <1>1, NoRequestAssumption DEF TypeOK, ConnStates, Connect, SendRequest
    <2>2. Judged'
      BY <1>1 DEF TypeOK, Kinds, ConnStates, Errors, Judged, Connect, SendRequest
    <2>3. Signalled'
      BY <1>1, NoRequestAssumption DEF TypeOK, ConnStates, Signalled, Connect, SendRequest
    <2>4. Honest'
      BY <1>1 DEF TypeOK, Kinds, Judged, Signalled, Honest, Connect, SendRequest
    <2>5. Closed'
      BY <1>1 DEF TypeOK, Closed, Connect, SendRequest
    <2>. QED
      BY <2>1, <2>2, <2>3, <2>4, <2>5
  <1>2. ASSUME NEW r \in Requests, HandleLock(r) PROVE IInv'
    <2>1. TypeOK'
      BY <1>2, NoRequestAssumption DEF TypeOK, ConnStates, HandleLock
    <2>2. Judged'
      BY <1>2 DEF TypeOK, Kinds, ConnStates, Errors, Judged, HandleLock
    <2>3. Signalled'
      BY <1>2, NoRequestAssumption DEF TypeOK, ConnStates, Signalled, HandleLock
    <2>4. Honest'
      BY <1>2 DEF TypeOK, Kinds, Judged, Signalled, Honest, HandleLock
    <2>5. Closed'
      BY <1>2 DEF TypeOK, Closed, HandleLock
    <2>. QED
      BY <2>1, <2>2, <2>3, <2>4, <2>5
  <1>3. ASSUME NEW r \in Requests, HandleStore(r) PROVE IInv'
    <2>1. TypeOK'
      BY <1>3, NoRequestAssumption DEF TypeOK, ConnStates, HandleStore
    <2>2. Judged'
      BY <1>3 DEF TypeOK, Kinds, ConnStates, Errors, Judged, HandleStore
    <2>3. Signalled'
      BY <1>3, NoRequestAssumption DEF TypeOK, ConnStates, Signalled, HandleStore
    <2>4. Honest'
      BY <1>3 DEF TypeOK, Kinds, Judged, Signalled, Honest, HandleStore
    <2>5. Closed'
      BY <1>3 DEF TypeOK, Closed, HandleStore
    <2>. QED
      BY <2>1, <2>2, <2>3, <2>4, <2>5
  <1>4. ASSUME NEW r \in Requests, HandleVerdict(r) PROVE IInv'
    <2>1. TypeOK'
      BY <1>4, NoRequestAssumption DEF TypeOK, ConnStates, Errors, HandleVerdict
    <2>2. Judged'
      BY <1>4 DEF TypeOK, Kinds, ConnStates, Errors, Judged, HandleVerdict
    <2>3. Signalled'
      BY <1>4, NoRequestAssumption DEF TypeOK, ConnStates, Signalled, HandleVerdict
    <2>4. Honest'
      BY <1>4 DEF TypeOK, Kinds, Judged, Signalled, Honest, HandleVerdict
    <2>5. Closed'
      BY <1>4 DEF TypeOK, Closed, HandleVerdict
    <2>. QED
      BY <2>1, <2>2, <2>3, <2>4, <2>5
  <1>5. ASSUME NEW r \in Requests, HandleSignal(r) PROVE IInv'
    <2>1. TypeOK'
      BY <1>5, NoRequestAssumption DEF TypeOK, ConnStates, HandleSignal
    <2>2. Judged'
      BY <1>5 DEF TypeOK, Kinds, ConnStates, Errors, Judged, HandleSignal
    <2>3. Signalled'
      BY <1>5, NoRequestAssumption DEF TypeOK, ConnStates, Signalled, HandleSignal
    <2>4. Honest'
      BY <1>5 DEF TypeOK, Kinds, Judged, Signalled, Honest, HandleSignal
    <2>5. Closed'
      BY <1>5 DEF TypeOK, Closed, HandleSignal
    <2>. QED
      BY <2>1, <2>2, <2>3, <2>4, <2>5
  <1>6. ASSUME NEW r \in Requests, HandleReturn(r) \/ HandlerShutdown(r) PROVE IInv'
    <2>1. TypeOK'
      BY <1>6, NoRequestAssumption DEF TypeOK, ConnStates, HandleReturn, HandlerShutdown
    <2>2. Judged'
      BY <1>6 DEF TypeOK, Kinds, ConnStates, Errors, Judged, HandleReturn, HandlerShutdown
    <2>3. Signalled'
      BY <1>6, NoRequestAssumption
         DEF TypeOK, ConnStates, Signalled, HandleReturn, HandlerShutdown
    <2>4. Honest'
      BY <1>6 DEF TypeOK, Kinds, Judged, Signalled, Honest, HandleReturn, HandlerShutdown
    <2>5. Closed'
      BY <1>6 DEF TypeOK, Closed, HandleReturn, HandlerShutdown
    <2>. QED
      BY <2>1, <2>2, <2>3, <2>4, <2>5
  <1>7. CASE Cancel \/ AcceptFails
    <2>1. TypeOK'
      BY <1>7, NoRequestAssumption DEF TypeOK, Cancel, AcceptFails
    <2>2. Judged'
      BY <1>7 DEF TypeOK, Kinds, ConnStates, Errors, Judged, Cancel, AcceptFails
    <2>3. Signalled'
      BY <1>7, NoRequestAssumption DEF TypeOK, ConnStates, Signalled, Cancel, AcceptFails
    <2>4. Honest'
      BY <1>7 DEF TypeOK, Kinds, Judged, Signalled, Honest, Cancel, AcceptFails
    <2>5. Closed'
      BY <1>7 DEF TypeOK, Closed, Cancel, AcceptFails
    <2>. QED
      BY <2>1, <2>2, <2>3, <2>4, <2>5
  <1>8. CASE ServerExit
    <2>1. TypeOK'
      BY <1>8, NoRequestAssumption DEF TypeOK, ServerExit
    <2>2. Judged'
      BY <1>8 DEF TypeOK, Kinds, ConnStates, Errors, Judged, ServerExit
    <2>3. Signalled'
      BY <1>8, NoRequestAssumption DEF TypeOK, ConnStates, Signalled, ServerExit
    <2>4. Honest'
      BY <1>8 DEF TypeOK, Kinds, Judged, Signalled, Honest, ServerExit
    <2>5. Closed'
      BY <1>8 DEF TypeOK, Closed, ServerExit
    <2>. QED
      BY <2>1, <2>2, <2>3, <2>4, <2>5
  <1>9. CASE Watcher
    <2>1. TypeOK'
      BY <1>9, NoRequestAssumption
         DEF TypeOK, Watcher, WatcherSelect, WatcherShutdown, WatcherCancels
    <2>2. Judged'
      BY <1>9
         DEF TypeOK, Kinds, ConnStates, Errors, Judged, Watcher, WatcherSelect, WatcherShutdown, WatcherCancels
    <2>3. Signalled'
      BY <1>9, NoRequestAssumption
         DEF TypeOK, ConnStates, Signalled, Watcher, WatcherSelect, WatcherShutdown, WatcherCancels
    <2>4. Honest'
      BY <1>9
         DEF TypeOK, Kinds, Judged, Signalled, Honest, Watcher, WatcherSelect, WatcherShutdown, WatcherCancels
    <2>5. Closed'
      BY <1>9 DEF TypeOK, Closed, Watcher, WatcherSelect, WatcherShutdown, WatcherCancels
    <2>. QED
      BY <2>1, <2>2, <2>3, <2>4, <2>5
  <1>10. CASE Select
    <2>1. TypeOK'
      BY <1>10, NoRequestAssumption DEF TypeOK, Select
    <2>2. Judged'
      BY <1>10 DEF TypeOK, Kinds, ConnStates, Errors, Judged, Select
    <2>3. Signalled'
      BY <1>10, NoRequestAssumption DEF TypeOK, ConnStates, Signalled, Select
    <2>4. Honest'
      BY <1>10 DEF TypeOK, Kinds, Judged, Signalled, Honest, Select
    <2>5. Closed'
      BY <1>10 DEF TypeOK, Closed, Select
    <2>. QED
      BY <2>1, <2>2, <2>3, <2>4, <2>5
  <1>11. CASE ServerExited \/ Cancelled
    <2>. PICK e \in {"ctx", "no callback"} : Return(e)
      BY <1>11 DEF ServerExited, Cancelled
    <2>. /\ main' = "returned" /\ serveErr' = "taken"
         /\ UNCHANGED <<kind, conn, fieldVars, first, port, ctx, watcher>>
      BY <1>11 DEF ServerExited, Cancelled, Return, Closed
    <2>r. result' \in Results /\ result'.err = e
      BY DEF Return, Results
    <2>1. TypeOK'
      BY <2>r DEF TypeOK
    <2>2. Judged'
      BY DEF TypeOK, Judged
    <2>3. Signalled'
      BY DEF TypeOK, Signalled
    <2>4. Honest'
      BY <2>r DEF Honest
    <2>5. Closed'
      BY <1>11 DEF TypeOK, Closed, ServerExited, Cancelled, Return
    <2>. QED
      BY <2>1, <2>2, <2>3, <2>4, <2>5
  <1>12. CASE Drain
    <2>1. TypeOK'
      BY <1>12, NoRequestAssumption DEF TypeOK, Results, Drain
    <2>2. Judged'
      BY <1>12 DEF TypeOK, Kinds, ConnStates, Errors, Judged, Drain
    <2>3. Signalled'
      BY <1>12, NoRequestAssumption DEF TypeOK, ConnStates, Signalled, Drain
    <2>4. Honest'
      BY <1>12 DEF TypeOK, Kinds, Judged, Signalled, Honest, Results, Drain
    <2>5. Closed'
      BY <1>12 DEF TypeOK, Closed, Drain
    <2>. QED
      BY <2>1, <2>2, <2>3, <2>4, <2>5
  <1>13. CASE ReadError
    <2>1. TypeOK'
      BY <1>13, NoRequestAssumption DEF TypeOK, Results, ReadError
    <2>2. Judged'
      BY <1>13 DEF TypeOK, Kinds, ConnStates, Errors, Judged, ReadError
    <2>3. Signalled'
      BY <1>13, NoRequestAssumption DEF TypeOK, ConnStates, Signalled, ReadError
    <2>4. Honest'
      BY <1>13 DEF TypeOK, Kinds, Judged, Signalled, Honest, Results, ReadError
    <2>5. Closed'
      BY <1>13 DEF TypeOK, Closed, ReadError
    <2>. QED
      BY <2>1, <2>2, <2>3, <2>4, <2>5
  <1>14. CASE UNCHANGED vars
    <2>1. TypeOK'
      BY <1>14, NoRequestAssumption DEF TypeOK, vars
    <2>2. Judged'
      BY <1>14 DEF TypeOK, Kinds, ConnStates, Errors, Judged, vars
    <2>3. Signalled'
      BY <1>14, NoRequestAssumption DEF TypeOK, ConnStates, Signalled, vars
    <2>4. Honest'
      BY <1>14 DEF TypeOK, Kinds, Judged, Signalled, Honest, vars
    <2>5. Closed'
      BY <1>14 DEF TypeOK, Closed, vars
    <2>. QED
      BY <2>1, <2>2, <2>3, <2>4, <2>5
  <1>. QED
    BY <1>1, <1>2, <1>3, <1>4, <1>5, <1>6, <1>7, <1>8, <1>9, <1>10, <1>11, <1>12, <1>13, <1>14
       DEF Next, Handler, Serve, Finished

THEOREM Invariance == Spec => []IInv
  BY InitInv, NextInv, PTL DEF Spec

(* The state stays well formed, for any number of requests.                *)
THEOREM TypeCorrect == Spec => []TypeOK
  BY Invariance, PTL DEF IInv

(* A login succeeds only on a callback that carried its own nonce, however *)
(* many other callbacks arrive before, during and after it.                *)
THEOREM NonceGuards == Spec => []SuccessNeedsNonce
  <1>1. IInv => SuccessNeedsNonce
    BY DEF IInv, Honest, SuccessNeedsNonce, received
  <1>. QED
    BY <1>1, Invariance, PTL

(* Serve never returns while its port is open or its goroutine runs.       *)
THEOREM Drained == Spec => []ReturnsDrained
  <1>1. IInv => ReturnsDrained
    BY DEF IInv, Closed, ReturnsDrained
  <1>. QED
    BY <1>1, Invariance, PTL

-------------------------------------------------------------------------------
(* The place of a command in its own sequence; a file is only saved in a   *)
(* directory that was made for it.                                         *)
Placed(i) ==
    /\ pc[i] = "load" => job[i].cmd # "login"
    /\ pc[i] = "prompt" => job[i].cmd = "login"
    /\ pc[i] \in {"credentials", "save credentials"} =>
           job[i].cmd \in {"configure", "set key", "login"}
    /\ pc[i] \in {"config", "save config"} => job[i].cmd # "set key"
    /\ pc[i] \in {"save credentials", "prompt", "save config"} => newDir

Arrays == DOMAIN job = Invocations /\ DOMAIN copy = Invocations

TInv == ConfigTypeOK /\ Arrays /\ \A i \in Invocations : Placed(i)

(* While commands follow one another: the copy is the file as it still is. *)
Single == \A i, j \in Invocations : pc[i] \in Running /\ pc[j] \in Running => i = j

Current(i) ==
    /\ pc[i] = "save credentials" => copy[i] = credentials["new"]
    /\ pc[i] = "save config" => copy[i] = config["new"]

(* What a setting reads as once it is stored.                              *)
Shown(t) == [t EXCEPT !.output = IF @ = None THEN "json" ELSE @]

(* A setting that the command does not ask for is about to be written as   *)
(* it is read now, or as the environment overrides it.                     *)
Unasked(i) ==
    credentials["legacy"] = NoFile /\ pc[i] \in {"config", "save config"} =>
        \A k \in Settings : \/ job[i].cmd \in AskedBy[k]
                            \/ Shown(job[i].set)[k] = Stored(job[i].profile)[k]
                            \/ k \in job[i].shell /\ job[i].set[k] = OfShell[k]

(* Before LoadConfig, it has no value.                                     *)
Unanswered(i) ==
    \/ pc[i] \in {"load", "prompt"}
    \/ pc[i] \in {"credentials", "save credentials"} /\ job[i].cmd = "login"
    => \A k \in Settings : job[i].cmd \notin AskedBy[k] => job[i].set[k] = None

(* configure and login have corrected the answers that they will save.     *)
Corrected(i) ==
    /\ pc[i] \in Running \ {"load", "prompt"} /\ job[i].cmd = "configure" =>
           Shown(job[i].set) = job[i].set
    /\ pc[i] \in {"config", "save config"} /\ job[i].cmd = "login" => job[i].set.region \in REGIONS

(* Before they turn to the config file, they have saved their credentials. *)
Identified(i) ==
    LET c == credentials["new"][job[i].profile] IN
    /\ pc[i] \in {"config", "save config"} /\ job[i].cmd = "configure" =>
           newDir /\ c = [key |-> job[i].key, login |-> FALSE]
    /\ pc[i] \in {"prompt", "config", "save config"} /\ job[i].cmd = "login" =>
           newDir /\ c \in Credentials /\ c.login

Held(i) == Current(i) /\ Unanswered(i) /\ Unasked(i) /\ Corrected(i) /\ Identified(i)

CInv == TInv /\ Single /\ \A i \in Invocations : Held(i)

-------------------------------------------------------------------------------
LEMMA AnswerTypes ==
    ASSUME NEW c \in Commands, NEW a \in AnswersOf(c)
    PROVE  a \in Section /\ \A k \in Settings : c \notin AskedBy[k] => a[k] = None
  BY DEF AnswersOf, Section, Settings, Typed

LEMMA ShownIs ==
    ASSUME NEW t \in Section
    PROVE  /\ Shown(t) \in Section /\ Shown(Shown(t)) = Shown(t)
           /\ Shown(t).region = t.region /\ Shown(t).project = t.project
           /\ Shown(t).output = IF t.output = None THEN "json" ELSE t.output
<1>1. /\ Shown(t) \in Section
      /\ Shown(t).region = t.region /\ Shown(t).project = t.project
      /\ Shown(t).output = IF t.output = None THEN "json" ELSE t.output
  BY DEF Section, Shown
<1>2. Shown(t).output = None => Shown(t).output = "json"
  BY <1>1
<1>3. Shown(Shown(t)) = [Shown(t) EXCEPT !.output = Shown(t).output]
  BY <1>2 DEF Shown
<1>4. ASSUME NEW u \in Section PROVE [u EXCEPT !.output = u.output] = u
  BY DEF Section
<1> QED BY <1>1, <1>3, <1>4

LEMMA LoadedType ==
    ASSUME ConfigTypeOK, NEW p \in Profiles, NEW shell \in SUBSET ShellVars
    PROVE  /\ effectiveConfigDir \in Dirs
           /\ Stored(p) \in Section /\ Shown(Stored(p)) = Stored(p)
           /\ LoadConfig(p, shell) \in Section
           /\ StoredCredential(p) \in Credentials
<1>1. effectiveConfigDir \in Dirs
  BY DEF effectiveConfigDir, Dirs
<1>2. /\ config[effectiveConfigDir][p] \in Section \cup {Missing}
      /\ credentials[effectiveConfigDir][p] \in Credentials \cup {Missing}
  BY <1>1 DEF ConfigTypeOK, ConfigFile, CredentialsFile
<1>3. NoSettings \in Section /\ NoCredential \in Credentials
  BY DEF NoSettings, Settings, Section, NoCredential, Credentials
<1>4. StoredCredential(p) \in Credentials
  BY <1>2, <1>3 DEF StoredCredential
<1>5. PICK t \in Section : Stored(p) = Shown(t)
  BY <1>2, <1>3 DEF Stored, Shown
<1>6. Stored(p) \in Section /\ Shown(Stored(p)) = Stored(p)
  BY <1>5, ShownIs
<1>7. LoadConfig(p, shell) \in Section
  BY <1>3, <1>6, ShellAssumption DEF LoadConfig, Section, Settings, OfShell
<1> QED BY <1>1, <1>4, <1>6, <1>7

-------------------------------------------------------------------------------
Labels == Running \cup {"idle", "done", "failed"}

FilesOK ==
    /\ newDir \in BOOLEAN
    /\ credentials \in [Dirs -> CredentialsFile] /\ config \in [Dirs -> ConfigFile]
    /\ ~newDir => credentials["new"] = NoFile /\ config["new"] = NoFile

(* The state of one invocation.                                            *)
Own(i) ==
    /\ pc[i] \in Running => job[i] \in Job
    /\ pc[i] \notin Running => job[i] = None
    /\ pc[i] = "save credentials" => copy[i] \in CredentialsFile
    /\ pc[i] = "save config" => copy[i] \in ConfigFile
    /\ pc[i] \notin {"save credentials", "save config"} => copy[i] = None
    /\ Placed(i)

Shape == pc \in [Invocations -> Labels] /\ Arrays

LEMMA TSplit == TInv <=> FilesOK /\ Shape /\ \A i \in Invocations : Own(i)
  BY DEF TInv, ConfigTypeOK, FilesOK, Shape, Labels, Own

(* A step of i is its own.                                                 *)
Apart(i) ==
    \A j \in Invocations : j # i => pc'[j] = pc[j] /\ job'[j] = job[j] /\ copy'[j] = copy[j]

LEMMA Together ==
    ASSUME TInv, NEW i \in Invocations, FilesOK', Shape', Own(i)', Apart(i), newDir => newDir'
    PROVE  TInv'
<1>1. ASSUME NEW j \in Invocations, j # i PROVE Own(j)'
  <2>1. pc'[j] = pc[j] /\ job'[j] = job[j] /\ copy'[j] = copy[j] /\ Own(j)
    BY <1>1, TSplit DEF Apart
  <2> QED BY <2>1 DEF Own, Placed
<1>2. \A j \in Invocations : Own(j)'
  BY <1>1
<1> QED BY <1>2 DEF TInv, ConfigTypeOK, FilesOK, Shape, Labels, Own

LEMMA EndIs ==
    ASSUME TInv, NEW i \in Invocations, NEW l \in {"done", "failed"}, End(i, l)
    PROVE  Shape' /\ Own(i)' /\ Apart(i) /\ pc'[i] = l
<1>1. Shape
  BY TSplit
<1>2. /\ pc' = [pc EXCEPT ![i] = l] /\ job' = [job EXCEPT ![i] = None]
      /\ copy' = [copy EXCEPT ![i] = None]
  BY DEF End, Goto
<1>3. Shape' /\ Apart(i)
  BY <1>1, <1>2 DEF Shape, Labels, Arrays, Apart
<1>4. pc'[i] = l /\ job'[i] = None /\ copy'[i] = None
  BY <1>1, <1>2 DEF Shape, Arrays
<1>5. Own(i)'
  BY <1>4 DEF Own, Placed, Running
<1> QED BY <1>3, <1>4, <1>5

LEMMA StartStep ==
    ASSUME TInv, NEW i \in Invocations, Start(i)
    PROVE  /\ TInv' /\ Apart(i) /\ UNCHANGED files
           /\ job'[i].cmd \in Commands /\ job'[i].set \in AnswersOf(job'[i].cmd)
           /\ pc'[i] = IF job'[i].cmd = "login" THEN "credentials" ELSE "load"
<1>1. Shape /\ FilesOK /\ Own(i) /\ pc[i] = "idle" /\ UNCHANGED <<files, copy>>
  BY TSplit DEF Start
<1>2. PICK c \in Commands, p \in Profiles, shell \in SUBSET ShellVars :
      \E a \in AnswersOf(c), k \in KeysOf(c) :
         /\ job' = [job EXCEPT ![i] = [cmd |-> c, profile |-> p, key |-> k, set |-> a,
                                       shell |-> shell]]
         /\ pc' = [pc EXCEPT ![i] = IF c = "login" THEN "credentials" ELSE "load"]
  BY DEF Start, Goto
<1>2a. PICK a \in AnswersOf(c), k \in KeysOf(c) :
         /\ job' = [job EXCEPT ![i] = [cmd |-> c, profile |-> p, key |-> k, set |-> a,
                                       shell |-> shell]]
         /\ pc' = [pc EXCEPT ![i] = IF c = "login" THEN "credentials" ELSE "load"]
  BY <1>2
<1>3. k \in Keys \cup {None} /\ a \in Section
  BY AnswerTypes DEF KeysOf, Keys
<1>4. /\ job'[i] \in Job /\ job'[i].cmd = c /\ job'[i].set = a
      /\ pc'[i] = (IF c = "login" THEN "credentials" ELSE "load") /\ copy'[i] = None
  BY <1>1, <1>2a, <1>3 DEF Shape, Arrays, Job, Own
<1>5. Shape' /\ Apart(i)
  BY <1>1, <1>2a DEF Shape, Arrays, Labels, Running, Apart
<1>6. Own(i)'
  BY <1>4 DEF Own, Placed, Running
<1>7. FilesOK' /\ newDir' = newDir
  BY <1>1 DEF files, FilesOK
<1> QED BY <1>1, <1>4, <1>5, <1>6, <1>7, Together

(* The job after LoadConfig and the prompts.                               *)
LEMMA LoadIs ==
    ASSUME TInv, NEW i \in Invocations, Load(i)
    PROVE  LET j      == job[i]
               loaded == LoadConfig(j.profile, j.shell)
               asked  == [k \in Settings |-> Answer(j.set[k], loaded[k])]
           IN  /\ j \in Job /\ job'[i] \in Job /\ asked \in Section /\ loaded \in Section
               /\ job'[i].cmd = j.cmd /\ job'[i].profile = j.profile /\ job'[i].shell = j.shell
               /\ j.cmd \in {"configure", "login"} =>
                    /\ job'[i].set.region = ValidRegion(asked.region)
                    /\ job'[i].set.output = IF asked.output = None THEN "json" ELSE asked.output
                    /\ job'[i].set.project = asked.project
               /\ j.cmd \notin {"configure", "login"} => job'[i].set = asked
<1> DEFINE j      == job[i]
           loaded == LoadConfig(j.profile, j.shell)
           asked  == [k \in Settings |-> Answer(j.set[k], loaded[k])]
           key    == Answer(j.key, StoredCredential(j.profile).key)
           set    == IF j.cmd \in {"configure", "login"}
                        THEN [asked EXCEPT !.region = ValidRegion(@),
                                           !.output = IF @ = None THEN "json" ELSE @]
                        ELSE asked
<1>1. Shape /\ Own(i) /\ ConfigTypeOK /\ pc[i] \in {"load", "prompt"}
  BY TSplit DEF Load, TInv
<1>2. j \in Job
  BY <1>1 DEF Own, Running
<1>3. /\ j.cmd \in Commands /\ j.profile \in Profiles /\ j.key \in Keys \cup {None}
      /\ j.set \in Section /\ j.shell \in SUBSET ShellVars
  BY <1>2 DEF Job
<1>4. loaded \in Section /\ StoredCredential(j.profile).key \in Keys \cup {None}
  BY <1>1, <1>3, LoadedType DEF Credentials
<1>5. key \in Keys \cup {None}
  BY <1>3, <1>4 DEF Answer
<1> HIDE DEF loaded
<1>6. asked \in Section
  BY <1>3, <1>4 DEF Answer, Section, Settings
<1>7. job' = [job EXCEPT ![i].key = key, ![i].set = set]
  BY DEF Load, loaded
<1> HIDE DEF asked, key, j
<1>8. /\ set \in Section
      /\ j.cmd \in {"configure", "login"} =>
           /\ set.region = ValidRegion(asked.region)
           /\ set.output = IF asked.output = None THEN "json" ELSE asked.output
           /\ set.project = asked.project
      /\ j.cmd \notin {"configure", "login"} => set = asked
  BY <1>6 DEF Section, ValidRegion, REGIONS
<1> HIDE DEF set
<1>9. job'[i] = [cmd |-> j.cmd, profile |-> j.profile, key |-> key, set |-> set, shell |-> j.shell]
  BY <1>1, <1>2, <1>7 DEF Shape, Arrays, Job, j
<1>10. /\ job'[i] \in Job /\ job'[i].set = set
       /\ job'[i].cmd = j.cmd /\ job'[i].profile = j.profile /\ job'[i].shell = j.shell
  BY <1>3, <1>5, <1>8, <1>9 DEF Job
<1> QED BY <1>2, <1>4, <1>6, <1>8, <1>10 DEF j, asked, loaded

LEMMA LoadStep ==
    ASSUME TInv, NEW i \in Invocations, Load(i)
    PROVE  TInv' /\ Apart(i) /\ UNCHANGED files
<1>1. Shape /\ FilesOK /\ Own(i) /\ pc[i] \in {"load", "prompt"} /\ UNCHANGED <<files, copy>>
  BY TSplit DEF Load
<1>2. job'[i] \in Job /\ job'[i].cmd = job[i].cmd
  BY LoadIs
<1>3. pc' = [pc EXCEPT ![i] =
          IF job[i].cmd \in {"configure", "set key"} THEN "credentials" ELSE "config"]
  BY DEF Load, Goto
<1>4. Shape' /\ Apart(i)
  <2>1. DOMAIN job' = DOMAIN job /\ \A h \in Invocations : h # i => job'[h] = job[h]
    BY <1>1 DEF Load, Shape, Arrays
  <2> QED BY <1>1, <1>3, <2>1 DEF Shape, Arrays, Labels, Running, Apart
<1>5. /\ pc'[i] = (IF job[i].cmd \in {"configure", "set key"} THEN "credentials" ELSE "config")
      /\ copy'[i] = None
  BY <1>1, <1>3 DEF Shape, Own
<1>6. Own(i)'
  BY <1>2, <1>5 DEF Own, Placed, Running
<1>7. FilesOK' /\ newDir' = newDir
  BY <1>1 DEF files, FilesOK
<1> QED BY <1>1, <1>4, <1>6, <1>7, Together

LEMMA OpenStep ==
    ASSUME TInv, NEW i \in Invocations, OpenCredentials(i) \/ OpenConfig(i)
    PROVE  /\ TInv' /\ Apart(i) /\ newDir' = TRUE /\ job'[i] = job[i]
           /\ UNCHANGED <<credentials, config>>
           /\ \/ pc[i] = "credentials" /\ pc'[i] = "save credentials" /\ copy'[i] = credentials["new"]
              \/ pc[i] = "config" /\ pc'[i] = "save config" /\ copy'[i] = config["new"]
<1>1. Shape /\ FilesOK /\ Own(i)
  BY TSplit
<1>2. PICK f \in {"credentials", "config"} :
         /\ pc[i] = f /\ newDir' = TRUE /\ UNCHANGED <<credentials, config, job>>
         /\ pc' = [pc EXCEPT ![i] = IF f = "config" THEN "save config" ELSE "save credentials"]
         /\ copy' = [copy EXCEPT ![i] = IF f = "config" THEN config["new"] ELSE credentials["new"]]
  BY DEF OpenCredentials, OpenConfig, loadOrCreate, Goto
<1>3. /\ pc'[i] = (IF f = "config" THEN "save config" ELSE "save credentials") /\ job'[i] = job[i]
      /\ copy'[i] = (IF f = "config" THEN config["new"] ELSE credentials["new"])
  BY <1>1, <1>2 DEF Shape, Arrays
<1>4. config["new"] \in ConfigFile /\ credentials["new"] \in CredentialsFile
  BY <1>1 DEF FilesOK, Dirs
<1>5. Own(i)'
  <2>1. job[i] \in Job
    BY <1>1, <1>2 DEF Own, Running
  <2>2. CASE f = "credentials"
    <3>1. pc'[i] = "save credentials" /\ copy'[i] \in CredentialsFile /\ newDir' = TRUE
      BY <1>2, <1>3, <1>4, <2>2
    <3>2. job'[i] \in Job /\ job'[i].cmd \in {"configure", "set key", "login"}
      BY <1>1, <1>2, <1>3, <2>1, <2>2 DEF Own, Placed
    <3> QED BY <3>1, <3>2 DEF Own, Placed, Running
  <2>3. CASE f = "config"
    <3>1. pc'[i] = "save config" /\ copy'[i] \in ConfigFile /\ newDir' = TRUE
      BY <1>2, <1>3, <1>4, <2>3
    <3>2. job'[i] \in Job /\ job'[i].cmd # "set key"
      BY <1>1, <1>2, <1>3, <2>1, <2>3 DEF Own, Placed
    <3> QED BY <3>1, <3>2 DEF Own, Placed, Running
  <2> QED BY <2>2, <2>3
<1>6. Shape' /\ Apart(i)
  BY <1>1, <1>2 DEF Shape, Arrays, Labels, Running, Apart
<1>7. FilesOK'
  BY <1>1, <1>2 DEF FilesOK
<1>8. TInv'
  BY <1>2, <1>5, <1>6, <1>7, Together
<1> QED BY <1>2, <1>3, <1>6, <1>8

LEMMA IdentityType ==
    ASSUME NEW i \in Invocations, job[i] \in Job, NEW old \in Credentials \cup {Missing}
    PROVE  Identity(i, old) \in Credentials
<1>1. job[i].key \in Keys \cup {None}
  BY DEF Job
<1> QED BY <1>1 DEF Identity, Credentials

LEMMA SaveCredentialsStep ==
    ASSUME TInv, NEW i \in Invocations, SaveCredentials(i)
    PROVE  LET p == job[i].profile
           IN  /\ TInv' /\ Apart(i) /\ newDir /\ UNCHANGED <<newDir, config>>
               /\ job[i] \in Job /\ copy[i] \in CredentialsFile /\ pc[i] = "save credentials"
               /\ credentials'["legacy"] = credentials["legacy"]
               /\ credentials'["new"][p] = Identity(i, copy[i][p])
               /\ \A q \in Profiles : q # p => credentials'["new"][q] = copy[i][q]
               /\ \/ job[i].cmd = "set key" /\ pc'[i] = "done"
                  \/ /\ job[i].cmd # "set key" /\ job'[i] = job[i] /\ copy'[i] = None
                     /\ pc'[i] = IF job[i].cmd = "login" THEN "prompt" ELSE "config"
<1> DEFINE p == job[i].profile
           file == [copy[i] EXCEPT ![p] = Identity(i, copy[i][p])]
<1>1. Shape /\ FilesOK /\ Own(i) /\ pc[i] = "save credentials"
  BY TSplit DEF SaveCredentials
<1>2. newDir /\ job[i] \in Job /\ copy[i] \in CredentialsFile /\ p \in Profiles
  BY <1>1 DEF Own, Placed, Running, Job
<1>3. credentials' = [credentials EXCEPT !["new"] = file] /\ UNCHANGED <<newDir, config>>
  BY DEF SaveCredentials, Renamed
<1>4. Identity(i, copy[i][p]) \in Credentials
  BY <1>2, IdentityType DEF CredentialsFile
<1>5. /\ file \in CredentialsFile /\ file[p] = Identity(i, copy[i][p])
      /\ \A q \in Profiles : q # p => file[q] = copy[i][q]
  BY <1>2, <1>4 DEF CredentialsFile
<1> HIDE DEF file
<1>6. /\ credentials' \in [Dirs -> CredentialsFile] /\ credentials'["new"] = file
      /\ credentials'["legacy"] = credentials["legacy"]
  BY <1>1, <1>3, <1>5 DEF FilesOK, Dirs
<1>7. FilesOK'
  BY <1>1, <1>2, <1>3, <1>6 DEF FilesOK
<1>8. /\ Shape' /\ Own(i)' /\ Apart(i)
      /\ \/ job[i].cmd = "set key" /\ pc'[i] = "done"
         \/ /\ job[i].cmd # "set key" /\ job'[i] = job[i] /\ copy'[i] = None
            /\ pc'[i] = IF job[i].cmd = "login" THEN "prompt" ELSE "config"
  <2>1. CASE job[i].cmd = "set key"
    BY <2>1, EndIs DEF SaveCredentials
  <2>2. CASE job[i].cmd # "set key"
    <3>1. /\ pc' = [pc EXCEPT ![i] = IF job[i].cmd = "login" THEN "prompt" ELSE "config"]
          /\ copy' = [copy EXCEPT ![i] = None] /\ UNCHANGED job
      BY <2>2 DEF SaveCredentials, Goto
    <3>2. Shape' /\ Apart(i)
      BY <1>1, <3>1 DEF Shape, Arrays, Labels, Running, Apart
    <3>3. /\ pc'[i] = (IF job[i].cmd = "login" THEN "prompt" ELSE "config")
          /\ copy'[i] = None /\ job'[i] = job[i]
      BY <1>1, <3>1 DEF Shape, Arrays
    <3>4. Own(i)'
      BY <1>2, <1>3, <2>2, <3>3 DEF Own, Placed, Running
    <3> QED BY <2>2, <3>2, <3>3, <3>4
  <2> QED BY <2>1, <2>2
<1>9. TInv'
  BY <1>3, <1>7, <1>8, Together
<1> QED BY <1>1, <1>2, <1>3, <1>5, <1>6, <1>8, <1>9

LEMMA SaveConfigStep ==
    ASSUME TInv, NEW i \in Invocations, SaveConfig(i)
    PROVE  LET p == job[i].profile
           IN  /\ TInv' /\ Apart(i) /\ newDir /\ UNCHANGED <<newDir, credentials>>
               /\ job[i] \in Job /\ copy[i] \in ConfigFile
               /\ pc[i] = "save config" /\ pc'[i] = "done"
               /\ config'["new"][p] = job[i].set /\ job[i].set \in Section
               /\ \A q \in Profiles : q # p => config'["new"][q] = copy[i][q]
<1> DEFINE p == job[i].profile
           file == [copy[i] EXCEPT ![p] = job[i].set]
<1>1. Shape /\ FilesOK /\ Own(i) /\ pc[i] = "save config"
  BY TSplit DEF SaveConfig
<1>2. /\ newDir /\ job[i] \in Job /\ copy[i] \in ConfigFile /\ p \in Profiles
      /\ job[i].set \in Section
  BY <1>1 DEF Own, Placed, Running, Job
<1>3. config' = [config EXCEPT !["new"] = file] /\ UNCHANGED <<newDir, credentials>>
  BY DEF SaveConfig
<1>4. /\ file \in ConfigFile /\ file[p] = job[i].set
      /\ \A q \in Profiles : q # p => file[q] = copy[i][q]
  BY <1>2 DEF ConfigFile
<1> HIDE DEF file
<1>5. config' \in [Dirs -> ConfigFile] /\ config'["new"] = file
  BY <1>1, <1>3, <1>4 DEF FilesOK, Dirs
<1>6. FilesOK'
  BY <1>1, <1>2, <1>3, <1>5 DEF FilesOK
<1>7. Shape' /\ Own(i)' /\ Apart(i) /\ pc'[i] = "done"
  BY EndIs DEF SaveConfig
<1>8. TInv'
  BY <1>3, <1>6, <1>7, Together
<1> QED BY <1>1, <1>2, <1>3, <1>4, <1>5, <1>7, <1>8

LEMMA StopStep ==
    ASSUME TInv, NEW i \in Invocations, Stop(i)
    PROVE  TInv' /\ Apart(i) /\ UNCHANGED files /\ pc'[i] = "failed"
<1>1. Shape' /\ Own(i)' /\ Apart(i) /\ pc'[i] = "failed" /\ UNCHANGED files
  BY EndIs DEF Stop
<1>2. FilesOK' /\ newDir' = newDir
  BY <1>1, TSplit DEF files, FilesOK
<1> QED BY <1>1, <1>2, Together

Takes(i) == \/ Start(i) \/ Load(i) \/ OpenCredentials(i) \/ OpenConfig(i)
            \/ SaveCredentials(i) \/ SaveConfig(i) \/ Stop(i)

LEMMA InitTInv == ConfigInit => TInv
<1> SUFFICES ASSUME ConfigInit PROVE TInv
  OBVIOUS
<1>1. Shape /\ \A i \in Invocations : Own(i)
  BY DEF ConfigInit, Shape, Arrays, Labels, Own, Placed, Running
<1>2. NoFile \in CredentialsFile /\ NoFile \in ConfigFile
  BY DEF NoFile, CredentialsFile, ConfigFile
<1>3. /\ [p \in Profiles |-> [key |-> "k1", login |-> FALSE]] \in CredentialsFile
      /\ [p \in Profiles |-> [region |-> "HAN", output |-> "table", project |-> "p1"]] \in ConfigFile
  BY DEF CredentialsFile, ConfigFile, Credentials, Keys, Section
<1>4. FilesOK
  <2>1. newDir = FALSE
    BY DEF ConfigInit
  <2>2. CASE credentials = [d \in Dirs |-> NoFile] /\ config = [d \in Dirs |-> NoFile]
    BY <1>2, <2>1, <2>2 DEF FilesOK, Dirs
  <2>3. CASE /\ credentials = [new    |-> NoFile,
                               legacy |-> [p \in Profiles |-> [key |-> "k1", login |-> FALSE]]]
             /\ config = [new    |-> NoFile,
                          legacy |-> [p \in Profiles |->
                              [region |-> "HAN", output |-> "table", project |-> "p1"]]]
    <3>1. credentials \in [Dirs -> CredentialsFile] /\ credentials["new"] = NoFile
      <4> DEFINE old == [p \in Profiles |-> [key |-> "k1", login |-> FALSE]]
      <4>1. credentials = [new |-> NoFile, legacy |-> old] /\ old \in CredentialsFile
        BY <1>3, <2>3
      <4> HIDE DEF old
      <4> QED BY <1>2, <4>1 DEF Dirs
    <3>2. config \in [Dirs -> ConfigFile] /\ config["new"] = NoFile
      <4> DEFINE old == [p \in Profiles |-> [region |-> "HAN", output |-> "table", project |-> "p1"]]
      <4>1. config = [new |-> NoFile, legacy |-> old] /\ old \in ConfigFile
        BY <1>3, <2>3
      <4> HIDE DEF old
      <4> QED BY <1>2, <4>1 DEF Dirs
    <3> QED BY <2>1, <3>1, <3>2 DEF FilesOK
  <2> QED BY <2>2, <2>3 DEF ConfigInit
<1> QED BY <1>1, <1>4, TSplit

LEMMA NextTInv == TInv /\ [ConfigNext]_configVars => TInv'
<1> SUFFICES ASSUME TInv, [ConfigNext]_configVars PROVE TInv'
  OBVIOUS
<1>1. CASE UNCHANGED configVars
  BY <1>1 DEF configVars, files, TInv, ConfigTypeOK, Arrays, Placed
<1>2. ASSUME NEW i \in Invocations, Takes(i) PROVE TInv'
  BY <1>2, StartStep, LoadStep, OpenStep, SaveCredentialsStep, SaveConfigStep, StopStep DEF Takes
<1> QED BY <1>1, <1>2 DEF ConfigNext, AllEnded, Takes

(* The state of every invocation is what ConfigTypeOK says, at any         *)
(* concurrency, and no file is in a directory that was not made.           *)
THEOREM ConfigTypeCorrect == ConfigSpec => []ConfigTypeOK
<1>1. TInv => ConfigTypeOK
  BY DEF TInv
<1> QED BY <1>1, InitTInv, NextTInv, PTL DEF ConfigSpec

-------------------------------------------------------------------------------
(* Commands that follow one another.                                       *)
InTurn == IsFiniteSet(Invocations) /\ Concurrency = 1

LEMMA OthersIdle ==
    ASSUME InTurn, CInv, NEW i \in Invocations, Takes(i)
    PROVE  \A j \in Invocations : j # i => pc[j] \notin Running
<1>1. CASE pc[i] \in Running
  BY <1>1 DEF CInv, Single
<1>2. CASE Start(i)
  <2> DEFINE busy == {j \in Invocations : pc[j] \in Running}
  <2>1. Cardinality(busy) < 1
    BY <1>2 DEF Start, InTurn
  <2>2. IsFiniteSet(busy)
    BY FS_Subset DEF InTurn
  <2> HIDE DEF busy
  <2>3. busy = {}
    BY <2>1, <2>2, FS_EmptySet, FS_CardinalityType
  <2> QED BY <2>3 DEF busy
<1>3. Start(i) \/ pc[i] \in Running
  BY DEF Takes, Load, OpenCredentials, OpenConfig, SaveCredentials, SaveConfig, Stop, Running
<1> QED BY <1>1, <1>2, <1>3

LEMMA Turn ==
    ASSUME InTurn, CInv, NEW i \in Invocations, Takes(i), Apart(i), TInv', Held(i)'
    PROVE  CInv'
<1>1. ASSUME NEW j \in Invocations, j # i PROVE pc'[j] \notin Running
  BY <1>1, OthersIdle DEF Apart
<1>2. Single'
  BY <1>1 DEF Single
<1>3. ASSUME NEW j \in Invocations, j # i PROVE Held(j)'
  BY <1>1, <1>3 DEF Held, Current, Unanswered, Unasked, Corrected, Identified, Running
<1> QED BY <1>2, <1>3 DEF CInv

LEMMA ResolvedIs ==
    ASSUME ConfigTypeOK, NEW p \in Profiles, NEW shell \in SUBSET ShellVars, NEW k \in Settings
    PROVE  LET v == LoadConfig(p, shell)[k]
           IN  \/ v = None /\ Stored(p) = Shown(NoSettings)
               \/ v = OfShell[k] /\ k \in shell
               \/ v = Stored(p)[k]
<1>1. CASE anyFileExists /\ ~Found(p)
  <2>1. LoadConfig(p, shell) = NoSettings /\ config[effectiveConfigDir][p] = Missing
    BY <1>1 DEF LoadConfig, Found
  <2>2. NoSettings[k] = None
    BY DEF NoSettings
  <2>3. Stored(p) = Shown(NoSettings)
    BY <2>1 DEF Stored, Shown
  <2> QED BY <2>1, <2>2, <2>3
<1>2. CASE ~(anyFileExists /\ ~Found(p))
  BY <1>2 DEF LoadConfig
<1> QED BY <1>1, <1>2

(* What is written of a setting that was not asked for.                    *)
LEMMA UnaskedLoad ==
    ASSUME TInv, NEW i \in Invocations, Load(i), Unanswered(i), NEW k \in Settings,
           job[i].cmd \notin AskedBy[k]
    PROVE  \/ Shown(job'[i].set)[k] = Stored(job[i].profile)[k]
           \/ k \in job[i].shell /\ job'[i].set[k] = OfShell[k]
<1> DEFINE j      == job[i]
           loaded == LoadConfig(j.profile, j.shell)
           asked  == [h \in Settings |-> Answer(j.set[h], loaded[h])]
           set    == job'[i].set
           old    == Stored(j.profile)
           Kept   == \/ Shown(set)[k] = old[k]
                     \/ k \in j.shell /\ set[k] = OfShell[k]
<1>1. /\ j \in Job /\ job'[i] \in Job /\ asked \in Section /\ loaded \in Section
      /\ j.cmd \in {"configure", "login"} =>
           /\ set.region = ValidRegion(asked.region)
           /\ set.output = IF asked.output = None THEN "json" ELSE asked.output
           /\ set.project = asked.project
      /\ j.cmd \notin {"configure", "login"} => set = asked
  BY LoadIs
<1>2. /\ j.profile \in Profiles /\ j.shell \in SUBSET ShellVars /\ set \in Section
      /\ j.shell \subseteq {"region", "project"}
  BY <1>1, ShellAssumption DEF Job
<1>3. j.set[k] = None
  BY DEF Unanswered, Load
<1>4. asked[k] = loaded[k]
  BY <1>3 DEF Answer
<1>5. \/ loaded[k] = None /\ old = Shown(NoSettings)
      \/ loaded[k] = OfShell[k] /\ k \in j.shell
      \/ loaded[k] = old[k]
  BY <1>2, ResolvedIs DEF TInv
<1>6. old \in Section /\ Shown(old) = old
  BY <1>2, LoadedType DEF TInv
<1>7. /\ NoSettings \in Section /\ NoSettings.region = None /\ NoSettings.output = None
      /\ NoSettings.project = None
  BY DEF NoSettings, Settings, Section
<1> HIDE DEF loaded, asked, old
<1>8. /\ Shown(set).region = set.region /\ Shown(set).project = set.project
      /\ Shown(set).output = IF set.output = None THEN "json" ELSE set.output
      /\ Shown(old).output = IF old.output = None THEN "json" ELSE old.output
      /\ Shown(NoSettings).region = None /\ Shown(NoSettings).project = None
      /\ Shown(NoSettings).output = "json"
  BY <1>2, <1>6, <1>7, ShownIs
<1>9. old.output = IF old.output = None THEN "json" ELSE old.output
  BY <1>6, <1>8
<1>10. ASSUME k = "region" PROVE Kept
  <2>1. j.cmd \notin {"configure", "login"}
    BY <1>10 DEF AskedBy
  <2> QED BY <1>1, <1>4, <1>5, <1>8, <1>10, <2>1
<1>11. ASSUME k = "project" PROVE Kept
  BY <1>1, <1>4, <1>5, <1>8, <1>11
<1>12. ASSUME k = "output" PROVE Kept
  <2>1. k \notin j.shell
    BY <1>2, <1>12
  <2>2. \/ loaded.output = None /\ old.output = "json"
        \/ loaded.output = old.output
    BY <1>5, <1>8, <1>12, <2>1
  <2>3. \/ set.output = asked.output
        \/ set.output = IF asked.output = None THEN "json" ELSE asked.output
    BY <1>1
  <2> QED BY <1>4, <1>8, <1>9, <1>12, <2>2, <2>3
<1> QED BY <1>10, <1>11, <1>12 DEF Settings, old

-------------------------------------------------------------------------------
(* Every step keeps what is held of the invocation that takes it.          *)
LEMMA StartHeld ==
    ASSUME TInv, NEW i \in Invocations, Start(i) PROVE Held(i)'
<1>1. /\ job'[i].cmd \in Commands /\ job'[i].set \in AnswersOf(job'[i].cmd)
      /\ pc'[i] = IF job'[i].cmd = "login" THEN "credentials" ELSE "load"
  BY StartStep
<1>2. \A k \in Settings : job'[i].cmd \notin AskedBy[k] => job'[i].set[k] = None
  BY <1>1, AnswerTypes
<1> QED BY <1>1, <1>2 DEF Held, Current, Unanswered, Unasked, Corrected, Identified, Running

LEMMA LoadHeld ==
    ASSUME TInv, NEW i \in Invocations, Load(i), Held(i) PROVE Held(i)'
<1> DEFINE set == job'[i].set
<1>1. /\ pc[i] \in {"load", "prompt"} /\ UNCHANGED <<newDir, credentials, config>>
      /\ pc'[i] = IF job[i].cmd \in {"configure", "set key"} THEN "credentials" ELSE "config"
  BY TSplit DEF Load, Goto, files, Shape
<1>2. /\ job'[i].cmd = job[i].cmd /\ job'[i].profile = job[i].profile
      /\ job'[i].shell = job[i].shell /\ set \in Section
      /\ job[i].cmd \in {"configure", "login"} =>
           set.region \in REGIONS /\ (set.output = None => set.output = "json")
  <2>1. job'[i].set \in Section
    BY LoadIs DEF Job
  <2>2. ASSUME job[i].cmd \in {"configure", "login"}
        PROVE  set.region \in REGIONS /\ (set.output = None => set.output = "json")
    <3> DEFINE loaded == LoadConfig(job[i].profile, job[i].shell)
               asked  == [k \in Settings |-> Answer(job[i].set[k], loaded[k])]
    <3>1. /\ set.region = ValidRegion(asked.region)
          /\ set.output = IF asked.output = None THEN "json" ELSE asked.output
      BY <2>2, LoadIs
    <3> HIDE DEF asked
    <3>2. set.region \in REGIONS
      BY <3>1 DEF ValidRegion, REGIONS
    <3>3. set.output = None => set.output = "json"
      BY <3>1
    <3> QED BY <3>2, <3>3
  <2> QED BY <2>1, <2>2, LoadIs
<1>3. Current(i)' /\ Unanswered(i)'
  BY <1>1, <1>2 DEF Current, Unanswered
<1>4. Unasked(i)'
  <2>1. Stored(job[i].profile)' = Stored(job[i].profile)
    BY <1>1, <1>2 DEF Stored, effectiveConfigDir
  <2>2. ASSUME NEW k \in Settings, job[i].cmd \notin AskedBy[k]
        PROVE  \/ Shown(set)[k] = Stored(job[i].profile)[k]
               \/ k \in job[i].shell /\ set[k] = OfShell[k]
    BY <2>2, UnaskedLoad DEF Held
  <2> QED BY <1>2, <2>1, <2>2 DEF Unasked, Shown
<1>5. Corrected(i)'
  <2>1. (set.output = None => set.output = "json") => Shown(set) = set
    <3>1. Shown(set) = [set EXCEPT !.output = IF set.output = None THEN "json" ELSE set.output]
      BY DEF Shown
    <3>2. [set EXCEPT !.output = set.output] = set
      BY <1>2 DEF Section
    <3> QED BY <3>1, <3>2
  <2> QED BY <1>2, <2>1 DEF Corrected, Shown
<1>6. Identified(i)'
  <2>1. job[i].cmd = "login" => pc[i] = "prompt"
    BY <1>1, TSplit DEF Own, Placed
  <2> QED BY <1>1, <1>2, <2>1 DEF Held, Identified
<1> QED BY <1>3, <1>4, <1>5, <1>6 DEF Held

LEMMA OpenHeld ==
    ASSUME TInv, NEW i \in Invocations, OpenCredentials(i) \/ OpenConfig(i), Held(i) PROVE Held(i)'
<1>1. /\ newDir' = TRUE /\ job'[i] = job[i] /\ UNCHANGED <<credentials, config>>
      /\ \/ pc[i] = "credentials" /\ pc'[i] = "save credentials" /\ copy'[i] = credentials["new"]
         \/ pc[i] = "config" /\ pc'[i] = "save config" /\ copy'[i] = config["new"]
  BY OpenStep
<1>2. Current(i)' /\ Unanswered(i)'
  BY <1>1 DEF Held, Current, Unanswered
<1>3. Unasked(i)'
  <2>1. SUFFICES ASSUME credentials["legacy"] = NoFile, pc[i] = "config"
                 PROVE  Unasked(i)'
    BY <1>1 DEF Unasked, NoFile
  <2>2. Stored(job[i].profile)' = Stored(job[i].profile)
    BY <1>1, <2>1 DEF Stored, effectiveConfigDir
  <2> QED BY <1>1, <2>1, <2>2 DEF Held, Unasked, Shown
<1>4. Corrected(i)' /\ Identified(i)'
  BY <1>1 DEF Held, Corrected, Identified, Running, Shown
<1> QED BY <1>2, <1>3, <1>4 DEF Held

LEMMA SaveCredentialsHeld ==
    ASSUME TInv, NEW i \in Invocations, SaveCredentials(i), Held(i) PROVE Held(i)'
<1> DEFINE p == job[i].profile
<1>1. /\ newDir /\ UNCHANGED <<newDir, config>> /\ pc[i] = "save credentials"
      /\ job[i] \in Job /\ copy[i] \in CredentialsFile
      /\ credentials'["new"][p] = Identity(i, copy[i][p])
      /\ \/ job[i].cmd = "set key" /\ pc'[i] = "done"
         \/ /\ job[i].cmd # "set key" /\ job'[i] = job[i] /\ copy'[i] = None
            /\ pc'[i] = IF job[i].cmd = "login" THEN "prompt" ELSE "config"
  BY SaveCredentialsStep
<1>2. CASE pc'[i] = "done"
  BY <1>2 DEF Held, Current, Unanswered, Unasked, Corrected, Identified, Running
<1>3. CASE /\ job[i].cmd # "set key" /\ job'[i] = job[i]
           /\ pc'[i] = IF job[i].cmd = "login" THEN "prompt" ELSE "config"
  <2>1. job[i].cmd \in {"configure", "login"}
    BY <1>1, <1>3, TSplit DEF Own, Placed
  <2>2. Current(i)' /\ Unanswered(i)'
    BY <1>1, <1>3 DEF Held, Current, Unanswered
  <2>3. Unasked(i)'
    <3>1. \/ pc'[i] = "prompt"
          \/ /\ job'[i].cmd = "configure"
             /\ \A k \in Settings : "configure" \in AskedBy[k]
      <4>1. \A k \in Settings : "configure" \in AskedBy[k]
        <5>1. /\ "configure" \in AskedBy.region /\ "configure" \in AskedBy.output
              /\ "configure" \in AskedBy.project
          BY DEF AskedBy
        <5> QED BY <5>1 DEF Settings
      <4> QED BY <1>3, <2>1, <4>1
    <3> QED BY <3>1 DEF Unasked
  <2>4. Corrected(i)'
    BY <1>1, <1>3 DEF Held, Corrected, Running, Shown
  <2>5. Identified(i)'
    <3>1. copy[i][p] \in Credentials \cup {Missing}
      BY <1>1 DEF Job, CredentialsFile
    <3>2. Identity(i, copy[i][p]) \in Credentials
      BY <1>1, <3>1, IdentityType
    <3>3. CASE job[i].cmd = "login"
      <4>1. Identity(i, copy[i][p]).login
        BY <3>3 DEF Identity
      <4> QED BY <1>1, <1>3, <3>2, <3>3, <4>1 DEF Identified
    <3>4. CASE job[i].cmd = "configure"
      <4>1. Identity(i, copy[i][p]) = [key |-> job[i].key, login |-> FALSE]
        BY <3>4 DEF Identity
      <4> QED BY <1>1, <1>3, <3>4, <4>1 DEF Identified
    <3> QED BY <2>1, <3>3, <3>4
  <2> QED BY <2>2, <2>3, <2>4, <2>5 DEF Held
<1> QED BY <1>1, <1>2, <1>3

LEMMA EndHeld ==
    ASSUME TInv, NEW i \in Invocations, SaveConfig(i) \/ Stop(i) PROVE Held(i)'
<1>1. pc'[i] \in {"done", "failed"}
  BY SaveConfigStep, StopStep
<1> QED BY <1>1 DEF Held, Current, Unanswered, Unasked, Corrected, Identified, Running

LEMMA InitCInv == ConfigInit => CInv
<1> SUFFICES ASSUME ConfigInit PROVE CInv
  OBVIOUS
<1>1. \A i \in Invocations : pc[i] = "idle"
  BY DEF ConfigInit
<1>2. TInv
  BY InitTInv
<1> QED BY <1>1, <1>2 DEF CInv, Single, Held, Current, Unanswered, Unasked, Corrected, Identified,
                          Running

LEMMA NextCInv == ASSUME InTurn, CInv, [ConfigNext]_configVars PROVE CInv'
<1>1. TInv /\ \A i \in Invocations : Held(i)
  BY DEF CInv
<1>2. CASE UNCHANGED configVars
  <2>1. UNCHANGED <<newDir, credentials, config, pc, job, copy>> /\ TInv'
    BY <1>1, <1>2, NextTInv DEF configVars, files
  <2>2. Single'
    BY <2>1 DEF CInv, Single
  <2>3. ASSUME NEW i \in Invocations PROVE Held(i)'
    <3>1. \A p : Stored(p)' = Stored(p)
      BY <2>1 DEF Stored, effectiveConfigDir
    <3>2. Unasked(i)'
      BY <1>1, <2>1, <3>1 DEF Held, Unasked, Shown, NoFile
    <3>3. Current(i)' /\ Unanswered(i)' /\ Corrected(i)' /\ Identified(i)'
      BY <1>1, <2>1 DEF Held, Current, Unanswered, Corrected, Identified, Shown, Running
    <3> QED BY <3>2, <3>3 DEF Held
  <2> QED BY <2>1, <2>2, <2>3 DEF CInv
<1>3. ASSUME NEW i \in Invocations, Takes(i) PROVE CInv'
  <2>1. TInv' /\ Apart(i)
    BY <1>1, <1>3, StartStep, LoadStep, OpenStep, SaveCredentialsStep, SaveConfigStep, StopStep
       DEF Takes
  <2>2. Held(i)'
    BY <1>1, <1>3, StartHeld, LoadHeld, OpenHeld, SaveCredentialsHeld, EndHeld DEF Takes
  <2> QED BY <1>3, <2>1, <2>2, Turn
<1> QED BY <1>2, <1>3 DEF ConfigNext, AllEnded, Takes

(* The directory of an installation that is not a legacy one.              *)
LEMMA NewDirectory ==
    ASSUME CInv, NEW i \in Invocations, Takes(i), credentials["legacy"] = NoFile
    PROVE  effectiveConfigDir = "new" /\ effectiveConfigDir' = "new"
<1>1. credentials'["legacy"] = credentials["legacy"]
  BY StartStep, LoadStep, OpenStep, SaveCredentialsStep, SaveConfigStep, StopStep
     DEF Takes, CInv, files
<1> QED BY <1>1 DEF effectiveConfigDir, NoFile

(* A step that leaves both files as they are.                              *)
LEMMA SameFiles ==
    ASSUME UNCHANGED <<credentials, config>>, effectiveConfigDir = "new", effectiveConfigDir' = "new",
           NEW p \in Profiles
    PROVE  /\ Stored(p)' = Stored(p) /\ StoredCredential(p)' = StoredCredential(p)
           /\ Found(p) => Found(p)'
  BY DEF Stored, StoredCredential, Found

LEMMA AskedIsOwned ==
    ASSUME NEW c \in AllCommands, NEW k \in Settings, c \in AskedBy[k] PROVE k \in Owns(c)
<1>1. CASE k = "region"
  BY <1>1 DEF AskedBy, Owns, Settings
<1>2. CASE k = "output"
  BY <1>2 DEF AskedBy, Owns, Settings
<1>3. CASE k = "project"
  BY <1>3 DEF AskedBy, Owns, Settings
<1> QED BY <1>1, <1>2, <1>3 DEF Settings

PreservedOf(p) ==
    /\ \A k \in Settings : Stored(p)'[k] # Stored(p)[k] => Owned(p, k) \/ Overridden(p, k)
    /\ CredentialKept(p)
    /\ Found(p) => Found(p)'

LEMMA CredentialsPreserved ==
    ASSUME CInv, NEW i \in Invocations, SaveCredentials(i),
           effectiveConfigDir = "new", effectiveConfigDir' = "new", NEW p \in Profiles
    PROVE  PreservedOf(p)
<1>1. /\ UNCHANGED config /\ job[i] \in Job /\ copy[i] \in CredentialsFile
      /\ pc[i] = "save credentials"
      /\ credentials'["new"][job[i].profile] = Identity(i, copy[i][job[i].profile])
      /\ \A q \in Profiles : q # job[i].profile => credentials'["new"][q] = copy[i][q]
  BY SaveCredentialsStep DEF CInv
<1>2. copy[i] = credentials["new"]
  BY <1>1 DEF CInv, Held, Current
<1>3. Stored(p)' = Stored(p)
  BY <1>1 DEF Stored
<1>4. CASE p # job[i].profile
  <2>1. credentials'["new"][p] = credentials["new"][p]
    BY <1>1, <1>2, <1>4
  <2>2. StoredCredential(p)' = StoredCredential(p) /\ (Found(p) => Found(p)')
    BY <1>1, <2>1 DEF StoredCredential, Found
  <2> QED BY <1>3, <2>2 DEF PreservedOf, CredentialKept
<1>5. CASE p = job[i].profile
  <2> DEFINE old == credentials["new"][p]
  <2>1. old \in Credentials \cup {Missing}
    BY <1>1, <1>2 DEF CredentialsFile
  <2>2. Identity(i, old) \in Credentials
    BY <1>1, <2>1, IdentityType
  <2>3. credentials'["new"][p] = Identity(i, old) /\ Identity(i, old) # Missing
    BY <1>1, <1>2, <1>5, <2>2, MissingAssumption
  <2>4. Found(p)'
    BY <2>3 DEF Found
  <2>5. StoredCredential(p)' = Identity(i, old)
    BY <2>3 DEF StoredCredential
  <2>6. job[i].cmd = "login" => StoredCredential(p)'.key = StoredCredential(p).key
    <3>1. job[i].cmd = "login" => Identity(i, old).key = IF old = Missing THEN None ELSE old.key
      BY DEF Identity
    <3>2. StoredCredential(p).key = IF old = Missing THEN None ELSE old.key
      BY DEF StoredCredential, NoCredential
    <3> QED BY <2>5, <3>1, <3>2
  <2>7. ASSUME NEW k \in {"key", "login"}, StoredCredential(p)'[k] # StoredCredential(p)[k]
        PROVE  Owned(p, k)
    <3>1. k \in Owns(job[i].cmd)
      <4>1. job[i].cmd \in {"configure", "set key", "login"}
        BY <1>1, TSplit DEF CInv, Own, Placed
      <4>2. job[i].cmd = "login" => k = "login"
        BY <2>6, <2>7
      <4> QED BY <4>1, <4>2 DEF Owns
    <3> QED BY <1>1, <1>5, <3>1 DEF Owned, Running
  <2> QED BY <1>3, <2>4, <2>7 DEF PreservedOf, CredentialKept
<1> QED BY <1>4, <1>5

LEMMA ConfigPreserved ==
    ASSUME CInv, NEW i \in Invocations, SaveConfig(i), credentials["legacy"] = NoFile,
           effectiveConfigDir = "new", effectiveConfigDir' = "new", NEW p \in Profiles
    PROVE  PreservedOf(p)
<1> DEFINE set == job[i].set
<1>1. /\ UNCHANGED credentials /\ job[i] \in Job /\ copy[i] \in ConfigFile
      /\ pc[i] = "save config" /\ set \in Section
      /\ config'["new"][job[i].profile] = set
      /\ \A q \in Profiles : q # job[i].profile => config'["new"][q] = copy[i][q]
  BY SaveConfigStep DEF CInv
<1>2. copy[i] = config["new"]
  BY <1>1 DEF CInv, Held, Current
<1>3. StoredCredential(p)' = StoredCredential(p)
  BY <1>1 DEF StoredCredential
<1>4. CASE p # job[i].profile
  <2>1. config'["new"][p] = config["new"][p]
    BY <1>1, <1>2, <1>4
  <2>2. Stored(p)' = Stored(p) /\ (Found(p) => Found(p)')
    BY <1>1, <2>1 DEF Stored, Found
  <2> QED BY <1>3, <2>2 DEF PreservedOf, CredentialKept
<1>5. CASE p = job[i].profile
  <2>1. config'["new"][p] = set /\ set # Missing
    BY <1>1, <1>5, MissingAssumption
  <2>2. Found(p)'
    BY <2>1 DEF Found
  <2>3. Stored(p)' = Shown(set)
    BY <2>1 DEF Stored, Shown
  <2>4. ASSUME NEW k \in Settings, Stored(p)'[k] # Stored(p)[k]
        PROVE  Owned(p, k) \/ Overridden(p, k)
    <3>1. \/ job[i].cmd \in AskedBy[k]
          \/ k \in job[i].shell /\ set[k] = OfShell[k]
      BY <1>1, <1>5, <2>3, <2>4 DEF CInv, Held, Unasked
    <3>2. CASE job[i].cmd \in AskedBy[k]
      <4>1. k \in Owns(job[i].cmd)
        BY <1>1, <3>2, AskedIsOwned, CommandsAssumption DEF Job
      <4> QED BY <1>1, <1>5, <4>1 DEF Owned, Running
    <3>3. CASE k \in job[i].shell /\ set[k] = OfShell[k]
      <4>1. k \in {"region", "project"}
        BY <1>1, <3>3, ShellAssumption DEF Job
      <4>2. Shown(set).region = set.region /\ Shown(set).project = set.project
        BY <1>1, ShownIs
      <4>3. Stored(p)'[k] = OfShell[k]
        BY <2>3, <3>3, <4>1, <4>2
      <4> QED BY <1>1, <1>5, <3>3, <4>3 DEF Overridden, Running
    <3> QED BY <3>1, <3>2, <3>3
  <2> QED BY <1>3, <2>2, <2>4 DEF PreservedOf, CredentialKept
<1> QED BY <1>4, <1>5

(* While commands follow one another, with any profiles, commands and      *)
(* environment: a command changes what it was asked to change, and what    *)
(* its environment overrides.                                              *)
THEOREM UnrelatedFieldsKept == ASSUME InTurn PROVE ConfigSpec => UnrelatedPreserved
<1> DEFINE Kept == credentials["legacy"] = NoFile => \A p \in Profiles : PreservedOf(p)
<1>1. CInv /\ [ConfigNext]_configVars => [Kept]_configVars
  <2>1. SUFFICES ASSUME CInv, NEW i \in Invocations, Takes(i), credentials["legacy"] = NoFile,
                        NEW p \in Profiles
                 PROVE  PreservedOf(p)
    BY DEF ConfigNext, Takes, AllEnded
  <2>2. effectiveConfigDir = "new" /\ effectiveConfigDir' = "new"
    BY <2>1, NewDirectory
  <2>3. CASE UNCHANGED <<credentials, config>>
    BY <2>2, <2>3, SameFiles DEF PreservedOf, CredentialKept
  <2>4. \/ UNCHANGED <<credentials, config>> \/ SaveCredentials(i) \/ SaveConfig(i)
    BY <2>1 DEF Takes, Start, Load, OpenCredentials, OpenConfig, loadOrCreate, Stop, files
  <2> QED BY <2>1, <2>2, <2>3, <2>4, CredentialsPreserved, ConfigPreserved
<1>2. Kept <=> (credentials["legacy"] = NoFile =>
        \A p \in Profiles :
            /\ \A k \in Settings : Stored(p)'[k] # Stored(p)[k] => Owned(p, k) \/ Overridden(p, k)
            /\ CredentialKept(p)
            /\ Found(p) => Found(p)')
  BY DEF PreservedOf
<1>3. CInv /\ [ConfigNext]_configVars => CInv'
  BY NextCInv
<1> HIDE DEF Kept
<1> QED BY <1>1, <1>2, <1>3, InitCInv, PTL DEF ConfigSpec, UnrelatedPreserved

(* While commands follow one another: after configure, both files hold     *)
(* what was entered, and after a login, the profile has the login and a    *)
(* region that exists.                                                     *)
THEOREM CommandsLeaveWhatTheyReport == ASSUME InTurn PROVE ConfigSpec => CommandsDeliver
<1>1. CInv /\ [ConfigNext]_configVars => [ConfigureDelivers /\ LoginIsUsable]_configVars
  <2>1. SUFFICES ASSUME CInv, NEW j \in Invocations, Takes(j), NEW i \in Invocations,
                        NEW p \in Profiles, NEW c \in {"configure", "login"}, Completes(i, c, p)
                 PROVE  /\ c = "configure" =>
                             /\ Stored(p)' = job[i].set
                             /\ StoredCredential(p)' = [key |-> job[i].key, login |-> FALSE]
                        /\ c = "login" =>
                             /\ Stored(p)'.region \in REGIONS
                             /\ StoredCredential(p)'.login
    <3>1. CASE UNCHANGED configVars
      BY <3>1
    <3>2. CASE \E j \in Invocations : Takes(j)
      BY <3>2, <2>1 DEF ConfigureDelivers, LoginIsUsable
    <3> QED BY <3>1, <3>2 DEF ConfigNext, Takes, AllEnded
  <2>2. pc[i] \in Running /\ pc'[i] = "done" /\ job[i].cmd = c /\ job[i].profile = p
    BY <2>1 DEF Completes
  <2>3. i = j
    <3>1. Apart(j)
      BY <2>1, StartStep, LoadStep, OpenStep, SaveCredentialsStep, SaveConfigStep, StopStep
         DEF Takes, CInv
    <3> QED BY <2>2, <3>1 DEF Apart, Running
  <2>4. SaveConfig(i)
    <3>1. \/ pc'[i] = "done" => SaveConfig(i)
          \/ SaveCredentials(i)
      BY <2>1, <2>3, StartStep, LoadStep, OpenStep, StopStep, TSplit
         DEF Takes, CInv, Load, Goto, Shape
    <3>2. ~SaveCredentials(i)
      BY <2>1, <2>2, SaveCredentialsStep DEF CInv
    <3> QED BY <2>2, <3>1, <3>2
  <2>5. /\ newDir /\ UNCHANGED <<newDir, credentials>> /\ job[i] \in Job
        /\ pc[i] = "save config" /\ config'["new"][p] = job[i].set /\ job[i].set \in Section
    BY <2>1, <2>2, <2>4, SaveConfigStep DEF CInv
  <2>6. effectiveConfigDir' = "new"
    BY <2>5 DEF effectiveConfigDir
  <2>7. Stored(p)' = Shown(job[i].set)
    BY <2>5, <2>6, MissingAssumption DEF Stored, Shown
  <2>8. Corrected(i) /\ Identified(i)
    BY <2>1 DEF CInv, Held
  <2>9. CASE c = "configure"
    <3>1. Shown(job[i].set) = job[i].set
      BY <2>2, <2>5, <2>8, <2>9 DEF Corrected, Running
    <3>2. credentials["new"][p] = [key |-> job[i].key, login |-> FALSE]
      BY <2>2, <2>5, <2>8, <2>9 DEF Identified
    <3>3. credentials["new"][p] # Missing
      <4>1. job[i].key \in Keys \cup {None}
        BY <2>5 DEF Job
      <4>2. credentials["new"][p] \in Credentials
        BY <3>2, <4>1 DEF Credentials
      <4> QED BY <4>2, MissingAssumption
    <3>4. StoredCredential(p)' = [key |-> job[i].key, login |-> FALSE]
      BY <2>5, <2>6, <3>2, <3>3 DEF StoredCredential
    <3> QED BY <2>7, <2>9, <3>1, <3>4
  <2>10. CASE c = "login"
    <3>1. job[i].set.region \in REGIONS
      BY <2>2, <2>5, <2>8, <2>10 DEF Corrected
    <3>2. Stored(p)'.region = job[i].set.region
      BY <2>5, <2>7, ShownIs
    <3>3. credentials["new"][p] \in Credentials /\ credentials["new"][p].login
      BY <2>2, <2>5, <2>8, <2>10 DEF Identified
    <3>4. StoredCredential(p)'.login
      BY <2>5, <2>6, <3>3, MissingAssumption DEF StoredCredential
    <3> QED BY <2>10, <3>1, <3>2, <3>4
  <2> QED BY <2>9, <2>10
<1>2. CInv /\ [ConfigNext]_configVars => CInv'
  BY NextCInv
<1> QED BY <1>1, <1>2, InitCInv, PTL DEF ConfigSpec, CommandsDeliver
===============================================================================

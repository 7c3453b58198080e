------------------------------- MODULE Kubeconfig -------------------------------
(***************************************************************************)
(* generate-kubeconfig and update-kubeconfig: the API prepares the         *)
(* credentials of a cluster, and the command grafts them into a kubeconfig *)
(* file that other tools and other invocations use too.  The file is read, *)
(* edited in memory and written in place.                                  *)
(*                                                                         *)
(* The entries cluster_<context> and user_<context> are keyed by the name  *)
(* of the context; Foreign keys the cluster and the user of a context that *)
(* another tool put there, and stands for what else that context holds:    *)
(* its namespace and its extensions.                                       *)
(***************************************************************************)
EXTENDS FiniteSets, Naturals

CONSTANTS
    Clusters,
    Names,          \* what contexts are called, by --alias or by default
    ForeignName,    \* the context of the other tool
    Foreign,
    Invocations,
    Concurrency,    \* how many run at once
    Crashes,        \* whether an invocation may be killed
    MaxVersion,     \* bound: how often the credentials of a cluster are generated
    Corrupt,        \* a file that does not parse
    Cut,            \* a payload whose text ends in the middle
    None

ASSUME NamesAssumption == ForeignName \in Names
ASSUME BoundsAssumption == MaxVersion \in Nat /\ Concurrency \in Nat \ {0} /\ Crashes \in BOOLEAN

VARIABLES
    status,         \* of each cluster's kubeconfig, as the API reports it
    version,        \* how often it was generated
    file,
    pc,
    job,            \* the cluster, the context name and the options of each invocation
    data,           \* what it holds: the answer of the API, then the merged file
    mixed,          \* whose writes of the file overlap another's
    overlapped,     \* history: who runs while another does
    torn,           \* history: a write was cut, overlapped another, or was read half done
    reported,       \* history: what each context was last given
    excused         \* history: the contexts that a cut or overlapping update may have dropped

api   == <<status, version>>
notes == <<mixed, overlapped, torn, reported, excused>>
vars  == <<status, version, file, pc, job, data, mixed, overlapped, torn, reported, excused>>

Payloads == [of : Clusters \cup {Foreign}, version : 0..MaxVersion]
EmptyFile == [clusters |-> <<>>, contexts |-> <<>>, users |-> <<>>, current |-> None]
TheirPayload == [of |-> Foreign, version |-> 0]
TheirContext == [cluster |-> Foreign, user |-> Foreign, namespace |-> Foreign]
TheirFile == [clusters |-> [k \in {Foreign} |-> TheirPayload],
              contexts |-> [n \in {ForeignName} |-> TheirContext],
              users    |-> [k \in {Foreign} |-> TheirPayload],
              current  |-> ForeignName]

PartialMaps(S, T) == UNION {[D -> T] : D \in SUBSET S}
EntryKeys == Names \cup {Foreign}
Entries == PartialMaps(EntryKeys, Payloads \cup {Cut})
contextBody == [cluster : EntryKeys, user : EntryKeys \cup {None}, namespace : {Foreign, None}]
Contexts == PartialMaps(Names, contextBody)
Files == [clusters : Entries, contexts : Contexts, users : Entries, current : Names \cup {None}]

(* The other tool's entries are not named like a context of this command,  *)
(* None is no entry, and Cut and Corrupt are neither a payload nor a file. *)
ASSUME KeysAssumption ==
    /\ Foreign \notin Names /\ None \notin EntryKeys
    /\ Cut \notin Payloads /\ None \notin Payloads /\ Corrupt \notin Files

Init ==
    /\ status = [c \in Clusters |-> "NONE"]
    /\ version = [c \in Clusters |-> 0]
    /\ \/ /\ file = EmptyFile
          /\ reported = [n \in Names |-> None]
       \/ /\ file = TheirFile
          /\ reported = [n \in Names |-> IF n = ForeignName THEN TheirPayload ELSE None]
    /\ pc = [i \in Invocations |-> "idle"]
    /\ job = [i \in Invocations |-> None]
    /\ data = [i \in Invocations |-> None]
    /\ mixed = {} /\ overlapped = {} /\ excused = {} /\ torn = FALSE

-------------------------------------------------------------------------------
(* generate-kubeconfig, also to renew, and what the API makes of it. *)
runGenerateKubeconfig(c) ==
    /\ status[c] # "CREATING" /\ version[c] < MaxVersion
    /\ status' = [status EXCEPT ![c] = "CREATING"]
    /\ UNCHANGED <<version, file, pc, job, data, notes>>

Generated(c) ==
    /\ status[c] = "CREATING"
    /\ version' = [version EXCEPT ![c] = @ + 1]
    /\ \E s \in {"ACTIVE", "ERROR"} : status' = [status EXCEPT ![c] = s]
    /\ UNCHANGED <<file, pc, job, data, notes>>

Running == {"fetch", "load", "truncate", "write"}

Goto(i, l) == pc' = [pc EXCEPT ![i] = l]

End(i) ==
    /\ Goto(i, "done")
    /\ job' = [job EXCEPT ![i] = None]
    /\ data' = [data EXCEPT ![i] = None]

At(l) == {i \in Invocations : pc[i] = l}
OthersRunning(i) == {j \in Invocations \ {i} : pc[j] \in Running}

Start(i) ==
    /\ pc[i] = "idle"
    /\ Cardinality(OthersRunning(i)) < Concurrency
    /\ \E c \in Clusters, n \in Names, set, dry \in BOOLEAN :
           job' = [job EXCEPT ![i] = [cluster |-> c, name |-> n, setCurrent |-> set, dryRun |-> dry]]
    /\ Goto(i, "fetch")
    /\ overlapped' = IF OthersRunning(i) = {} THEN overlapped
                     ELSE overlapped \cup {i} \cup OthersRunning(i)
    /\ UNCHANGED <<api, file, data, mixed, torn, reported, excused>>

(* Mutant: the switch on the status is missing, so there may be no data. *)
FetchUnchecked(i) ==
    /\ pc[i] = "fetch"
    /\ IF job[i].dryRun
         THEN End(i)
         ELSE /\ data' = [data EXCEPT ![i] =
                     IF status[job[i].cluster] # "ACTIVE" THEN None
                     ELSE [of |-> job[i].cluster, version |-> version[job[i].cluster]]]
              /\ Goto(i, "load")
              /\ UNCHANGED job
    /\ UNCHANGED <<api, file, notes>>

(* The switch on the status: only an ACTIVE kubeconfig is used, and not by *)
(* a dry run.  The call may fail, and the answer may hold no kubeconfig.   *)
Fetch(i) ==
    /\ pc[i] = "fetch"
    /\ \/ /\ status[job[i].cluster] = "ACTIVE" /\ ~job[i].dryRun
          /\ data' = [data EXCEPT ![i] = [of      |-> job[i].cluster,
                                          version |-> version[job[i].cluster]]]
          /\ Goto(i, "load")
          /\ UNCHANGED job
       \/ End(i)
    /\ UNCHANGED <<api, file, notes>>

upsert(list, name, e) == [k \in DOMAIN list \cup {name} |-> IF k = name THEN e ELSE list[k]]

(* Keeps an entry that is there already; for the mutant below. *)
insert(list, name, e) ==
    [k \in DOMAIN list \cup {name} |-> IF k \in DOMAIN list THEN list[k] ELSE e]

TheContext(n) == [cluster |-> n, user |-> n, namespace |-> None]

(* Mutant: the user of the context is forgotten. *)
GraftedWithoutUser(f, incoming, j) ==
    [clusters |-> upsert(f.clusters, j.name, incoming),
     users    |-> insert(f.users, j.name, incoming),
     contexts |-> upsert(f.contexts, j.name, TheContext(j.name)),
     current  |-> IF j.setCurrent THEN j.name ELSE f.current]

(* Mutant: the context is made current under a name it does not get. *)
GraftedCurrent(f, incoming, j) ==
    [clusters |-> upsert(f.clusters, j.name, incoming),
     users    |-> upsert(f.users, j.name, incoming),
     contexts |-> upsert(f.contexts, j.name, TheContext(j.name)),
     current  |-> IF j.setCurrent THEN CHOOSE n \in Names : n # j.name ELSE f.current]

Grafted(f, incoming, j) ==
    [clusters |-> upsert(f.clusters, j.name, incoming),
     users    |-> upsert(f.users, j.name, incoming),
     contexts |-> upsert(f.contexts, j.name, TheContext(j.name)),
     current  |-> IF j.setCurrent THEN j.name ELSE f.current]

(* What Load takes from a file: of a context, its cluster and its user.    *)
Loaded(f) ==
    [f EXCEPT !.contexts = [n \in DOMAIN f.contexts |-> [f.contexts[n] EXCEPT !.namespace = None]]]

MergeInto(i, f) ==
    /\ data' = [data EXCEPT ![i] = Grafted(Loaded(f), @, job[i])]
    /\ Goto(i, "truncate")
    /\ torn' = (torn \/ At("write") # {})
    /\ UNCHANGED <<api, file, job, mixed, overlapped, reported, excused>>

(* Mutant: only the answer is written, not what the file held. *)
MergeNothing(i) == pc[i] = "load" /\ MergeInto(i, EmptyFile)

(* Merge up to Write.  An empty file loads like a missing one, and so does *)
(* whatever part of a file another update has written by then.             *)
Merge(i) ==
    /\ pc[i] = "load"
    /\ \/ file # Corrupt /\ MergeInto(i, file)
       \/ file = Corrupt /\ End(i) /\ UNCHANGED <<api, file, notes>>

(* os.WriteFile truncates the file, then writes it. *)
Truncate(i) ==
    /\ pc[i] = "truncate"
    /\ file' = EmptyFile
    /\ Goto(i, "write")
    /\ IF At("write") = {}
         THEN UNCHANGED <<mixed, torn>>
         ELSE mixed' = mixed \cup {i} \cup At("write") /\ torn' = TRUE
    /\ UNCHANGED <<api, job, data, overlapped, reported, excused>>

(* What there is of a list whose text ends early, short[k] being what is   *)
(* left of the entry in which it ends.                                     *)
Begun(list, short) ==
    UNION {{[k \in D |-> IF k = e THEN short[k] ELSE list[k]] : e \in D \cup {None}} :
              D \in SUBSET DOMAIN list}
CutEntry(list) == [k \in DOMAIN list |-> Cut]
CutContext(list) == [n \in DOMAIN list |-> [list[n] EXCEPT !.user = None]]

(* The beginnings of a file's text that parse.  The clusters come first,   *)
(* then the contexts, the users and the current context.                   *)
Parts(f) ==
    {[EmptyFile EXCEPT !.clusters = l] : l \in Begun(f.clusters, CutEntry(f.clusters))}
    \cup {[EmptyFile EXCEPT !.clusters = f.clusters, !.contexts = l] :
             l \in Begun(f.contexts, CutContext(f.contexts))}
    \cup {[f EXCEPT !.users = l, !.current = None] : l \in Begun(f.users, CutEntry(f.users))}

(* Text f, and from one of its sections on the text of g. *)
Spliced(f, g) ==
    {[g EXCEPT !.clusters = f.clusters],
     [f EXCEPT !.users = g.users, !.current = g.current],
     [f EXCEPT !.current = g.current]}

(* A part of the text: its beginning, or what overwrites another's text.   *)
WriteSome(i) ==
    /\ pc[i] = "write"
    /\ \/ file = EmptyFile /\ file' \in Parts(data[i]) \cup {Corrupt}
       \/ i \in mixed /\ file # Corrupt /\ file' \in Spliced(data[i], file) \cup {Corrupt}
    /\ UNCHANGED <<api, pc, job, data, notes>>

(* The rest of the text.  Of two writes that overlap each has its place in *)
(* the file, and the file ends up with some of both.                       *)
Write(i) ==
    /\ pc[i] = "write"
    /\ file' \in {data[i]} \cup (IF i \notin mixed THEN {} ELSE {Corrupt})
                 \cup (IF i \notin mixed \/ file = Corrupt THEN {}
                       ELSE Spliced(data[i], file) \cup Spliced(file, data[i]))
    /\ reported' = [reported EXCEPT ![job[i].name] = data[i].clusters[job[i].name]]
    /\ excused' = IF i \in mixed THEN Names
                  ELSE (IF i \in overlapped THEN Names ELSE excused) \ {job[i].name}
    /\ mixed' = mixed \ {i}
    /\ End(i)
    /\ UNCHANGED <<api, overlapped, torn>>

(* The process is killed, or the disk is full: what was written stays.     *)
Stop(i) ==
    /\ Crashes /\ pc[i] \in Running
    /\ End(i)
    /\ mixed' = mixed \ {i}
    /\ IF pc[i] = "write"
         THEN torn' = TRUE /\ excused' = Names
         ELSE UNCHANGED <<torn, excused>>
    /\ UNCHANGED <<api, file, overlapped, reported>>

Finished == (\A i \in Invocations : pc[i] = "done") /\ UNCHANGED vars

Next ==
    \/ \E c \in Clusters : runGenerateKubeconfig(c) \/ Generated(c)
    \/ \E i \in Invocations : \/ Start(i) \/ Fetch(i) \/ Merge(i) \/ Truncate(i) \/ WriteSome(i)
                              \/ Write(i) \/ Stop(i)
    \/ Finished

Spec == Init /\ [][Next]_vars

-------------------------------------------------------------------------------
TypeOK ==
    /\ status \in [Clusters -> {"NONE", "CREATING", "ACTIVE", "ERROR"}]
    /\ version \in [Clusters -> 0..MaxVersion]
    /\ file \in Files \cup {Corrupt}
    /\ pc \in [Invocations -> Running \cup {"idle", "done"}]
    /\ \A i \in Invocations :
        /\ pc[i] = "load" => data[i] \in Payloads
        /\ pc[i] \in {"truncate", "write"} => data[i] \in Files
        /\ pc[i] \in {"idle", "fetch", "done"} => data[i] = None
    /\ mixed \subseteq Invocations /\ overlapped \subseteq Invocations
    /\ torn \in BOOLEAN /\ excused \subseteq Names
    /\ \A n \in Names : reported[n] = None \/ reported[n] \in Payloads

Written == At("write") = {}

(* No context of f lacks its cluster or its user, or has client            *)
(* credentials of another cluster or generation than the certificate       *)
(* beside them, and the current context is one of those in the file.       *)
WholeFile(f) ==
    /\ \A n \in DOMAIN f.contexts :
        LET x == f.contexts[n] IN
        /\ x.cluster \in DOMAIN f.clusters /\ x.user \in DOMAIN f.users
        /\ f.clusters[x.cluster] = f.users[x.user]
        /\ f.clusters[x.cluster] # Cut
    /\ f.current # None => f.current \in DOMAIN f.contexts

(* A tool that opens the file while no update writes it finds only whole   *)
(* contexts in it.                                                         *)
ContextsWholeAlways == Written /\ file # Corrupt => WholeFile(file)

(* What the code does keep, for any number of updates at once: a file that *)
(* nobody is writing parses and is whole, as long as no write was cut or   *)
(* overlapped another, and no update read what another had half written.   *)
ContextsWhole == ~torn /\ Written => file # Corrupt /\ WholeFile(file)

(* The file has context n with the certificate of the cluster and the      *)
(* client credentials that it was last given.                              *)
Kept(n) ==
    /\ file # Corrupt
    /\ n \in DOMAIN file.contexts
    /\ LET x == file.contexts[n] IN
        /\ x.cluster \in DOMAIN file.clusters /\ file.clusters[x.cluster] = reported[n]
        /\ x.user \in DOMAIN file.users /\ file.users[x.user] = reported[n]

(* TestMergePreservesExistingContexts, over any sequence of updates: while *)
(* no update is writing, every context that was merged, and the other      *)
(* tool's, is in the file with the cluster and the credentials it was last *)
(* given.                                                                  *)
ContextsKeptAlways == Written => \A n \in Names : reported[n] # None => Kept(n)

(* What the code does keep of that: an update that no other overlaps keeps *)
(* every context it finds, and an update whose write no other overlaps     *)
(* leaves its own context as it was given, whatever part of a cut file it  *)
(* had loaded.                                                             *)
ContextsKept == Written => \A n \in Names \ excused : reported[n] # None => Kept(n)

(* The other tool's context keeps its namespace until it is replaced.      *)
NamespacesKept ==
    Written /\ file # Corrupt =>
        \A n \in DOMAIN file.contexts :
            file.contexts[n].cluster = Foreign => file.contexts[n].namespace = Foreign
===============================================================================

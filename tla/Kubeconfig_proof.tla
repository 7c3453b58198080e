---------------------------- MODULE Kubeconfig_proof ----------------------------
(***************************************************************************)
(* For any number of clusters, context names and invocations at once: no   *)
(* context of a file is broken unless a write was cut, overlapped another  *)
(* or was read half done, and an update that no other overlaps keeps every *)
(* context and repairs its own.                                            *)
(***************************************************************************)
EXTENDS Kubeconfig, TLAPS

Jobs == [cluster : Clusters, name : Names, setCurrent : BOOLEAN, dryRun : BOOLEAN]

(* Context n of f has entries of its own name, or the other tool's, and    *)
(* the payload v under both.                                               *)
Has(f, n, v) ==
    /\ n \in DOMAIN f.contexts
    /\ LET key == f.contexts[n].cluster IN
        /\ f.contexts[n].user = key
        /\ key = n \/ key = Foreign
        /\ key \in DOMAIN f.clusters /\ key \in DOMAIN f.users
        /\ f.clusters[key] = v /\ f.users[key] = v

(* All contexts of f are like this.                                        *)
Whole(f) ==
    /\ \A n \in DOMAIN f.contexts : \E v \in Payloads : Has(f, n, v)
    /\ f.current # None => f.current \in DOMAIN f.contexts

(* f holds context n as it was last given.                                 *)
Holds(f, n) == reported[n] # None => Has(f, n, reported[n])

Editing(i) == pc[i] \in {"truncate", "write"}

(* What an invocation is about to write has its context.                   *)
Ready(i) ==
    Editing(i) => \E v \in Payloads : /\ Has(data[i], job[i].name, v)
                                      /\ data[i].clusters[job[i].name] = v
                                      /\ data[i].contexts[job[i].name].cluster = job[i].name

Grounded ==
    /\ DOMAIN job = Invocations /\ DOMAIN data = Invocations /\ DOMAIN reported = Names
    /\ \A c \in Clusters : status[c] = "CREATING" => version[c] < MaxVersion
    /\ \A i \in Invocations : Ready(i)
    /\ \A i \in Invocations : pc[i] \in Running => job[i] \in Jobs

(* Two that run at once are both overlapped, and two that write at once    *)
(* have mixed writes.                                                      *)
Meetings ==
    /\ \A i, j \in Invocations : i # j /\ pc[i] \in Running /\ pc[j] \in Running => i \in overlapped
    /\ \A i, j \in Invocations : i # j /\ pc[i] = "write" /\ pc[j] = "write" => i \in mixed
    /\ mixed # {} => torn

Untorn ==
    /\ Written => file # Corrupt /\ Whole(file)
    /\ \A i \in Invocations : Editing(i) => Whole(data[i])

(* An invocation that is not overlapped is about to write all other        *)
(* contexts as they are.                                                   *)
Following ==
    /\ Written => \A n \in Names \ excused : file # Corrupt /\ Holds(file, n)
    /\ \A i \in Invocations \ overlapped : Editing(i) =>
           \A n \in Names \ excused : n # job[i].name => Holds(data[i], n)

IInv == TypeOK /\ Grounded /\ Meetings /\ (~torn => Untorn) /\ Following

-------------------------------------------------------------------------------
LEMMA PartialMapsDef ==
    ASSUME NEW S, NEW T, NEW f
    PROVE  f \in PartialMaps(S, T) <=> DOMAIN f \subseteq S /\ f \in [DOMAIN f -> T]
  BY DEF PartialMaps

LEMMA UpsertedType ==
    ASSUME NEW S, NEW T, NEW list \in PartialMaps(S, T), NEW name \in S, NEW e \in T
    PROVE  upsert(list, name, e) \in PartialMaps(S, T)
  BY PartialMapsDef DEF upsert

LEMMA EmptyIsMap == ASSUME NEW S, NEW T PROVE DOMAIN <<>> = {} /\ <<>> \in PartialMaps(S, T)
<1>1. DOMAIN <<>> = {} /\ <<>> \in [{} -> T]
  OBVIOUS
<1> QED BY <1>1 DEF PartialMaps

LEMMA EmptyIsWhole == EmptyFile \in Files /\ Whole(EmptyFile)
  BY EmptyIsMap DEF EmptyFile, Files, Entries, Contexts, Whole

LEMMA TheirsIsWhole ==
    TheirFile \in Files /\ Whole(TheirFile) /\ Has(TheirFile, ForeignName, TheirPayload)
<1>1. TheirPayload \in Payloads
  BY BoundsAssumption DEF TheirPayload, Payloads
<1>2. [k \in {Foreign} |-> TheirPayload] \in Entries
  BY <1>1, PartialMapsDef DEF EntryKeys, Entries
<1>3. [n \in {ForeignName} |-> TheirContext] \in Contexts
  BY NamesAssumption, PartialMapsDef DEF EntryKeys, TheirContext, Contexts, contextBody
<1>4. Has(TheirFile, ForeignName, TheirPayload)
  BY DEF Has, TheirFile, TheirContext
<1> QED BY <1>1, <1>2, <1>3, <1>4, NamesAssumption DEF TheirFile, Files, Whole

(* Grafting puts a context in whole, and leaves all others as they are.    *)
LEMMA GraftedHas ==
    ASSUME NEW f \in Files, NEW incoming \in Payloads, NEW j \in Jobs
    PROVE  LET g == Grafted(f, incoming, j) IN
           /\ g \in Files
           /\ Has(g, j.name, incoming)
           /\ g.clusters[j.name] = incoming /\ g.contexts[j.name].cluster = j.name
           /\ DOMAIN g.contexts = DOMAIN f.contexts \cup {j.name}
           /\ g.current \in {f.current, j.name}
           /\ \A n, v : n # j.name /\ Has(f, n, v) => Has(g, n, v)
<1> DEFINE g == Grafted(f, incoming, j)
<1>1. /\ f.clusters \in Entries /\ f.users \in Entries /\ f.contexts \in Contexts
      /\ f.current \in Names \cup {None}
      /\ j.name \in Names /\ j.name \in EntryKeys
      /\ incoming \in Payloads \cup {Cut}
      /\ TheContext(j.name) \in contextBody
  BY DEF Files, Jobs, EntryKeys, TheContext, contextBody
<1>2. /\ g.clusters = upsert(f.clusters, j.name, incoming)
      /\ g.users = upsert(f.users, j.name, incoming)
      /\ g.contexts = upsert(f.contexts, j.name, TheContext(j.name))
      /\ g.current = IF j.setCurrent THEN j.name ELSE f.current
  BY DEF Grafted
<1>3. g \in Files
  BY <1>1, UpsertedType DEF Grafted, Files, Entries, Contexts
<1> HIDE DEF g
<1>4. /\ DOMAIN g.clusters = DOMAIN f.clusters \cup {j.name}
      /\ DOMAIN g.users = DOMAIN f.users \cup {j.name}
      /\ g.clusters[j.name] = incoming /\ g.users[j.name] = incoming
      /\ \A k \in DOMAIN f.clusters : k # j.name => g.clusters[k] = f.clusters[k]
      /\ \A k \in DOMAIN f.users : k # j.name => g.users[k] = f.users[k]
  BY <1>2 DEF upsert
<1>5. /\ DOMAIN g.contexts = DOMAIN f.contexts \cup {j.name}
      /\ g.contexts[j.name] = TheContext(j.name)
      /\ \A n \in DOMAIN f.contexts : n # j.name => g.contexts[n] = f.contexts[n]
  BY <1>2 DEF upsert
<1>6. Has(g, j.name, incoming)
  BY <1>4, <1>5 DEF Has, TheContext
<1>7. ASSUME NEW n, NEW v, n # j.name, Has(f, n, v) PROVE Has(g, n, v)
  <2>1. f.contexts[n].cluster # j.name
    BY <1>1, <1>7, KeysAssumption DEF Has
  <2> QED BY <1>4, <1>5, <1>7, <2>1 DEF Has
<1>8. g.contexts[j.name].cluster = j.name
  BY <1>5 DEF TheContext
<1> QED BY <1>2, <1>3, <1>4, <1>5, <1>6, <1>7, <1>8 DEF g

LEMMA GraftedIsWhole ==
    ASSUME NEW f \in Files, Whole(f), NEW incoming \in Payloads, NEW j \in Jobs
    PROVE  Whole(Grafted(f, incoming, j))
<1> DEFINE g == Grafted(f, incoming, j)
<1>1. /\ Has(g, j.name, incoming)
      /\ DOMAIN g.contexts = DOMAIN f.contexts \cup {j.name}
      /\ g.current \in {f.current, j.name}
      /\ \A n, v : n # j.name /\ Has(f, n, v) => Has(g, n, v)
  BY GraftedHas
<1> HIDE DEF g
<1>2. Whole(g)
  BY <1>1 DEF Whole
<1> QED BY <1>2 DEF g

(* Loading drops no context, and of none its cluster or its user.          *)
LEMMA LoadedHas ==
    ASSUME NEW f \in Files
    PROVE  /\ Loaded(f) \in Files
           /\ \A n, v : Has(f, n, v) => Has(Loaded(f), n, v)
           /\ Whole(f) => Whole(Loaded(f))
<1> DEFINE g == Loaded(f)
<1>1. DOMAIN f.contexts \subseteq Names /\ f.contexts \in [DOMAIN f.contexts -> contextBody]
  BY PartialMapsDef DEF Files, Contexts
<1>2. /\ g.clusters = f.clusters /\ g.users = f.users /\ g.current = f.current
      /\ g.contexts = [n \in DOMAIN f.contexts |-> [f.contexts[n] EXCEPT !.namespace = None]]
      /\ g = [clusters |-> f.clusters, contexts |-> g.contexts, users |-> f.users,
              current |-> f.current]
  BY DEF Loaded, Files
<1>3. ASSUME NEW n \in DOMAIN f.contexts
      PROVE  /\ [f.contexts[n] EXCEPT !.namespace = None] \in contextBody
             /\ [f.contexts[n] EXCEPT !.namespace = None].cluster = f.contexts[n].cluster
             /\ [f.contexts[n] EXCEPT !.namespace = None].user = f.contexts[n].user
  <2>1. f.contexts[n] \in contextBody
    BY <1>1
  <2> QED BY <2>1 DEF contextBody
<1> HIDE DEF g
<1>4. /\ DOMAIN g.contexts = DOMAIN f.contexts
      /\ \A n \in DOMAIN f.contexts : /\ g.contexts[n].cluster = f.contexts[n].cluster
                                      /\ g.contexts[n].user = f.contexts[n].user
  BY <1>2, <1>3
<1>5. g.contexts \in Contexts
  <2>1. g.contexts \in [DOMAIN f.contexts -> contextBody]
    BY <1>2, <1>3
  <2> QED BY <1>1, <1>4, <2>1, PartialMapsDef DEF Contexts
<1>6. g \in Files
  BY <1>2, <1>5 DEF Files
<1>7. \A n, v : Has(f, n, v) => Has(g, n, v)
  BY <1>2, <1>4 DEF Has
<1>8. Whole(f) => Whole(g)
  BY <1>2, <1>4, <1>7 DEF Whole
<1> QED BY <1>6, <1>7, <1>8 DEF g

LEMMA BegunType ==
    ASSUME NEW S, NEW T, NEW list \in PartialMaps(S, T), NEW short \in PartialMaps(S, T),
           DOMAIN short = DOMAIN list
    PROVE  Begun(list, short) \subseteq PartialMaps(S, T)
<1> SUFFICES ASSUME NEW D \in SUBSET DOMAIN list, NEW e
             PROVE  [k \in D |-> IF k = e THEN short[k] ELSE list[k]] \in PartialMaps(S, T)
  BY DEF Begun
<1> QED BY PartialMapsDef

(* The beginning of a file's text is one of a file, and so is one text     *)
(* spliced into another.                                                   *)
LEMMA PartsType == ASSUME NEW f \in Files PROVE Parts(f) \subseteq Files
<1>1. f.clusters \in Entries /\ f.users \in Entries /\ f.contexts \in Contexts
  BY DEF Files
<1>2. ASSUME NEW list \in Entries PROVE Begun(list, CutEntry(list)) \subseteq Entries
  <2>1. CutEntry(list) \in Entries /\ DOMAIN CutEntry(list) = DOMAIN list
    BY <1>2, PartialMapsDef DEF CutEntry, Entries
  <2> QED BY <1>2, <2>1, BegunType DEF Entries
<1>3. Begun(f.contexts, CutContext(f.contexts)) \subseteq Contexts
  <2>1. \A n \in DOMAIN f.contexts : [f.contexts[n] EXCEPT !.user = None] \in contextBody
    <3>1. f.contexts \in [DOMAIN f.contexts -> contextBody]
      BY <1>1, PartialMapsDef DEF Contexts
    <3> QED BY <3>1 DEF contextBody
  <2>2. CutContext(f.contexts) \in Contexts /\ DOMAIN CutContext(f.contexts) = DOMAIN f.contexts
    BY <1>1, <2>1, PartialMapsDef DEF CutContext, Contexts
  <2> QED BY <1>1, <2>2, BegunType DEF Contexts
<1>4. /\ EmptyFile \in Files /\ <<>> \in Entries /\ <<>> \in Contexts
  BY EmptyIsWhole, EmptyIsMap DEF Entries, Contexts
<1>5. /\ \A l \in Begun(f.clusters, CutEntry(f.clusters)) : l \in Entries
      /\ \A l \in Begun(f.users, CutEntry(f.users)) : l \in Entries
      /\ \A l \in Begun(f.contexts, CutContext(f.contexts)) : l \in Contexts
  BY <1>1, <1>2, <1>3
<1> HIDE DEF Begun
<1>6. \A l \in Entries : [EmptyFile EXCEPT !.clusters = l] \in Files
  BY <1>4 DEF Files, EmptyFile
<1>7. \A l \in Contexts : [EmptyFile EXCEPT !.clusters = f.clusters, !.contexts = l] \in Files
  BY <1>1, <1>4 DEF Files, EmptyFile
<1>8. \A l \in Entries : [f EXCEPT !.users = l, !.current = None] \in Files
  BY <1>1 DEF Files
<1> QED BY <1>5, <1>6, <1>7, <1>8 DEF Parts

LEMMA SplicedType == ASSUME NEW f \in Files, NEW g \in Files PROVE Spliced(f, g) \subseteq Files
  BY DEF Spliced, Files

-------------------------------------------------------------------------------
LEMMA InitIInv == Init => IInv
<1> SUFFICES ASSUME Init PROVE IInv
  OBVIOUS
<1>1. file \in Files /\ Whole(file) /\ file # Corrupt
  BY EmptyIsWhole, TheirsIsWhole, KeysAssumption DEF Init
<1>2. \A n \in Names : reported[n] = None \/ reported[n] \in Payloads
  BY BoundsAssumption DEF Init, TheirPayload, Payloads
<1>3. TypeOK
  <2>1. /\ status \in [Clusters -> {"NONE", "CREATING", "ACTIVE", "ERROR"}]
        /\ version \in [Clusters -> 0..MaxVersion]
    BY BoundsAssumption DEF Init
  <2> QED BY <1>1, <1>2, <2>1 DEF Init, TypeOK
<1>4. \A n \in Names : Holds(file, n)
  <2>1. CASE file = TheirFile /\ reported = [n \in Names |-> IF n = ForeignName THEN TheirPayload ELSE None]
    BY <2>1, TheirsIsWhole DEF Holds
  <2>2. CASE reported = [n \in Names |-> None]
    BY <2>2 DEF Holds
  <2> QED BY <2>1, <2>2 DEF Init
<1>5. \A i \in Invocations : pc[i] = "idle"
  BY DEF Init
<1>6. Grounded
  BY <1>5 DEF Init, Grounded, Ready, Editing, Running
<1>7. Meetings /\ Untorn /\ Following
  BY <1>1, <1>4, <1>5 DEF Init, Meetings, Untorn, Following, Editing, Running
<1> QED BY <1>3, <1>6, <1>7 DEF IInv

-------------------------------------------------------------------------------
(* What a step of invocation i leaves to the others.                       *)
Apart(i) ==
    /\ \A j \in Invocations : j # i => pc'[j] = pc[j] /\ job'[j] = job[j] /\ data'[j] = data[j]
    /\ DOMAIN job' = Invocations /\ DOMAIN data' = Invocations

LEMMA StepApart ==
    ASSUME IInv, NEW i \in Invocations,
           Start(i) \/ Fetch(i) \/ Merge(i) \/ Truncate(i) \/ WriteSome(i) \/ Write(i) \/ Stop(i)
    PROVE  Apart(i) /\ UNCHANGED api
  BY DEF IInv, TypeOK, Grounded, Start, Fetch, Merge, MergeInto, Truncate, WriteSome, Write, Stop,
         Goto, End, Apart, api

(* What happens to the file and to the texts that are about to be written. *)
LEMMA MergeStep ==
    ASSUME IInv, NEW i \in Invocations, Merge(i), file # Corrupt
    PROVE  /\ pc[i] = "load" /\ pc' = [pc EXCEPT ![i] = "truncate"]
           /\ data'[i] \in Files /\ data'[i] = Grafted(Loaded(file), data[i], job[i])
           /\ job[i] \in Jobs /\ data[i] \in Payloads /\ file \in Files /\ Loaded(file) \in Files
           /\ torn' = (torn \/ At("write") # {})
           /\ UNCHANGED <<file, job, mixed, overlapped, reported, excused>>
<1>1. /\ pc[i] = "load" /\ pc' = [pc EXCEPT ![i] = "truncate"]
      /\ data'[i] = Grafted(Loaded(file), data[i], job[i])
      /\ job[i] \in Jobs /\ data[i] \in Payloads /\ file \in Files
      /\ torn' = (torn \/ At("write") # {})
      /\ UNCHANGED <<file, job, mixed, overlapped, reported, excused>>
  BY DEF IInv, TypeOK, Grounded, Merge, MergeInto, Goto, Running
<1>2. Loaded(file) \in Files
  BY <1>1, LoadedHas
<1> QED BY <1>1, <1>2, GraftedHas

LEMMA WriteStep ==
    ASSUME IInv, NEW i \in Invocations, Write(i)
    PROVE  /\ pc[i] = "write" /\ pc' = [pc EXCEPT ![i] = "done"] /\ data'[i] = None
           /\ data[i] \in Files /\ job[i].name \in Names
           /\ data[i].clusters[job[i].name] \in Payloads
           /\ Has(data[i], job[i].name, data[i].clusters[job[i].name])
           /\ file' \in Files \cup {Corrupt} /\ (i \notin mixed => file' = data[i])
           /\ reported' = [reported EXCEPT ![job[i].name] = data[i].clusters[job[i].name]]
           /\ excused' = IF i \in mixed THEN Names
                         ELSE (IF i \in overlapped THEN Names ELSE excused) \ {job[i].name}
           /\ mixed' = mixed \ {i}
           /\ UNCHANGED <<overlapped, torn>>
<1>1. /\ pc[i] = "write" /\ pc' = [pc EXCEPT ![i] = "done"] /\ data'[i] = None
      /\ reported' = [reported EXCEPT ![job[i].name] = data[i].clusters[job[i].name]]
      /\ excused' = IF i \in mixed THEN Names
                    ELSE (IF i \in overlapped THEN Names ELSE excused) \ {job[i].name}
      /\ mixed' = mixed \ {i}
      /\ UNCHANGED <<overlapped, torn>>
  BY DEF IInv, TypeOK, Grounded, Write, Goto, End
<1>2. /\ data[i] \in Files /\ job[i].name \in Names /\ file \in Files \cup {Corrupt}
      /\ \E v \in Payloads : Has(data[i], job[i].name, v) /\ data[i].clusters[job[i].name] = v
  BY <1>1 DEF IInv, TypeOK, Grounded, Ready, Editing, Running, Jobs
<1>3. i \notin mixed => file' = data[i]
  BY DEF Write
<1>4. file' \in Files \cup {Corrupt}
  <2>1. CASE i \in mixed /\ file # Corrupt
    BY <1>2, <2>1, SplicedType DEF Write
  <2>2. CASE i \notin mixed \/ file = Corrupt
    BY <1>2, <2>2 DEF Write
  <2> QED BY <2>1, <2>2
<1> QED BY <1>1, <1>2, <1>3, <1>4

LEMMA WriteSomeStep ==
    ASSUME IInv, NEW i \in Invocations, WriteSome(i)
    PROVE  /\ pc[i] = "write" /\ file' \in Files \cup {Corrupt}
           /\ UNCHANGED <<pc, job, data, notes>>
<1>1. /\ pc[i] = "write" /\ UNCHANGED <<pc, job, data, notes>>
      /\ data[i] \in Files /\ file \in Files \cup {Corrupt}
  BY DEF IInv, TypeOK, WriteSome
<1>2. file' \in Files \cup {Corrupt}
  <2>1. CASE file' \in Parts(data[i]) \cup {Corrupt}
    BY <1>1, <2>1, PartsType
  <2>2. CASE file # Corrupt /\ file' \in Spliced(data[i], file) \cup {Corrupt}
    BY <1>1, <2>2, SplicedType
  <2> QED BY <2>1, <2>2 DEF WriteSome
<1> QED BY <1>1, <1>2

LEMMA NextTypeOK == IInv /\ [Next]_vars => TypeOK'
<1> SUFFICES ASSUME IInv, [Next]_vars PROVE TypeOK'
  OBVIOUS
<1> USE DEF TypeOK, Grounded, Goto, End, Running, api, notes
<1>1. ASSUME NEW c \in Clusters, runGenerateKubeconfig(c) PROVE TypeOK'
  BY <1>1 DEF runGenerateKubeconfig, IInv
<1>2. ASSUME NEW c \in Clusters, Generated(c) PROVE TypeOK'
  <2>1. version[c] + 1 \in 0..MaxVersion
    BY <1>2, BoundsAssumption DEF Generated, IInv
  <2>2. version' \in [Clusters -> 0..MaxVersion]
    BY <1>2, <2>1 DEF Generated, IInv
  <2> QED BY <1>2, <2>2 DEF Generated, IInv
<1>3. ASSUME NEW i \in Invocations, Start(i) PROVE TypeOK'
  BY <1>3 DEF Start, OthersRunning, IInv
<1>4. ASSUME NEW i \in Invocations, Fetch(i) PROVE TypeOK'
  BY <1>4 DEF Fetch, Jobs, Payloads, IInv
<1>5. ASSUME NEW i \in Invocations, Merge(i) PROVE TypeOK'
  <2>1. Apart(i) /\ UNCHANGED api
    BY <1>5, StepApart
  <2>2. CASE file # Corrupt
    BY <1>5, <2>1, <2>2, MergeStep DEF Apart, IInv
  <2>3. CASE file = Corrupt
    BY <1>5, <2>3 DEF Merge, IInv
  <2> QED BY <2>2, <2>3
<1>6. ASSUME NEW i \in Invocations, Truncate(i) PROVE TypeOK'
  BY <1>6, EmptyIsWhole DEF Truncate, At, IInv
<1>7. ASSUME NEW i \in Invocations, WriteSome(i) PROVE TypeOK'
  <2>1. Apart(i) /\ UNCHANGED api
    BY <1>7, StepApart
  <2> QED BY <1>7, <2>1, WriteSomeStep DEF IInv
<1>8. ASSUME NEW i \in Invocations, Write(i) PROVE TypeOK'
  <2>1. Apart(i) /\ UNCHANGED api
    BY <1>8, StepApart
  <2>2. \A n \in Names : reported'[n] = None \/ reported'[n] \in Payloads
    BY <1>8, WriteStep DEF IInv
  <2>3. file' \in Files \cup {Corrupt} /\ excused' \subseteq Names
    BY <1>8, WriteStep DEF IInv
  <2>4. \A j \in Invocations :
          /\ pc'[j] = "load" => data'[j] \in Payloads
          /\ pc'[j] \in {"truncate", "write"} => data'[j] \in Files
          /\ pc'[j] \in {"idle", "fetch", "done"} => data'[j] = None
    BY <1>8, <2>1, WriteStep DEF Apart, IInv
  <2> QED BY <1>8, <2>1, <2>2, <2>3, <2>4, WriteStep DEF IInv
<1>9. ASSUME NEW i \in Invocations, Stop(i) PROVE TypeOK'
  BY <1>9 DEF Stop, IInv
<1>10. CASE UNCHANGED vars
  BY <1>10 DEF vars, IInv
<1> QED
  BY <1>1, <1>2, <1>3, <1>4, <1>5, <1>6, <1>7, <1>8, <1>9, <1>10 DEF Next, Finished

LEMMA NextGrounded == IInv /\ [Next]_vars => Grounded'
<1> SUFFICES ASSUME IInv, [Next]_vars PROVE Grounded'
  OBVIOUS
<1> DEFINE Creating == \A c \in Clusters : status[c] = "CREATING" => version[c] < MaxVersion
<1> USE DEF Grounded, Ready, Editing, Goto, End, Running, Apart, api, notes
<1>0. TypeOK /\ Grounded
  BY DEF IInv
<1>1. ASSUME NEW c \in Clusters, runGenerateKubeconfig(c) PROVE Grounded'
  BY <1>0, <1>1 DEF runGenerateKubeconfig, TypeOK
<1>2. ASSUME NEW c \in Clusters, Generated(c) PROVE Grounded'
  <2>1. Creating'
    BY <1>0, <1>2 DEF Generated, TypeOK
  <2> QED BY <1>0, <1>2, <2>1 DEF Generated
<1>a. ASSUME NEW i \in Invocations,
             Start(i) \/ Fetch(i) \/ Merge(i) \/ Truncate(i) \/ WriteSome(i) \/ Write(i) \/ Stop(i),
             Ready(i)', pc'[i] \in Running => job'[i] \in Jobs, DOMAIN reported' = Names
      PROVE  Grounded'
  BY <1>0, <1>a, StepApart
<1>3. ASSUME NEW i \in Invocations, Start(i) PROVE Grounded'
  <2>1. ~Editing(i)' /\ job'[i] \in Jobs /\ UNCHANGED reported
    BY <1>0, <1>3 DEF Start, Jobs, TypeOK
  <2> QED BY <1>0, <1>3, <1>a, <2>1
<1>4. ASSUME NEW i \in Invocations, Fetch(i) PROVE Grounded'
  <2>1. /\ ~Editing(i)' /\ UNCHANGED reported
        /\ pc'[i] \in Running => job'[i] = job[i] /\ pc[i] \in Running
    BY <1>0, <1>4 DEF Fetch, TypeOK
  <2> QED BY <1>0, <1>4, <1>a, <2>1
<1>5. ASSUME NEW i \in Invocations, Merge(i) PROVE Grounded'
  <2>1. CASE file = Corrupt
    <3>1. UNCHANGED reported /\ pc'[i] = "done"
      BY <1>0, <1>5, <2>1 DEF Merge, TypeOK
    <3> QED BY <1>0, <1>5, <1>a, <3>1
  <2>2. CASE file # Corrupt
    <3>1. /\ UNCHANGED <<job, reported>> /\ job[i] \in Jobs /\ data[i] \in Payloads
          /\ Loaded(file) \in Files /\ data'[i] = Grafted(Loaded(file), data[i], job[i])
      BY <1>5, <2>2, MergeStep
    <3>2. Ready(i)'
      BY <3>1, GraftedHas
    <3> QED BY <1>0, <1>5, <1>a, <3>1, <3>2
  <2> QED BY <2>1, <2>2
<1>6. ASSUME NEW i \in Invocations, Truncate(i) PROVE Grounded'
  <2>1. pc[i] = "truncate" /\ UNCHANGED <<job, data, reported>>
    BY <1>6 DEF Truncate
  <2> QED BY <1>0, <1>6, <1>a, <2>1
<1>7. ASSUME NEW i \in Invocations, WriteSome(i) PROVE Grounded'
  <2>1. UNCHANGED <<pc, job, data, reported>>
    BY <1>7, WriteSomeStep
  <2> QED BY <1>0, <1>7, <1>a, <2>1
<1>8. ASSUME NEW i \in Invocations, Write(i) PROVE Grounded'
  <2>1. pc'[i] = "done" /\ DOMAIN reported' = Names
    BY <1>0, <1>8, WriteStep DEF TypeOK
  <2> QED BY <1>8, <1>a, <2>1
<1>9. ASSUME NEW i \in Invocations, Stop(i) PROVE Grounded'
  <2>1. pc'[i] = "done" /\ UNCHANGED reported
    BY <1>0, <1>9 DEF Stop, TypeOK
  <2> QED BY <1>0, <1>9, <1>a, <2>1
<1>10. CASE UNCHANGED vars
  BY <1>0, <1>10 DEF vars
<1> QED
  BY <1>1, <1>2, <1>3, <1>4, <1>5, <1>6, <1>7, <1>8, <1>9, <1>10 DEF Next, Finished

LEMMA NextMeetings == IInv /\ [Next]_vars => Meetings'
<1> SUFFICES ASSUME IInv, [Next]_vars PROVE Meetings'
  OBVIOUS
<1> USE DEF Meetings, Goto, End, Running, Apart, At, OthersRunning, notes
<1>0. TypeOK /\ Meetings
  BY DEF IInv
<1>1. ASSUME NEW c \in Clusters, runGenerateKubeconfig(c) \/ Generated(c) PROVE Meetings'
  BY <1>0, <1>1 DEF runGenerateKubeconfig, Generated
<1>2. ASSUME NEW i \in Invocations, Start(i) PROVE Meetings'
  <2>1. Apart(i) /\ pc'[i] = "fetch" /\ UNCHANGED <<mixed, torn>>
    BY <1>0, <1>2, StepApart DEF Start, TypeOK
  <2>2. overlapped' = IF OthersRunning(i) = {} THEN overlapped
                      ELSE overlapped \cup {i} \cup OthersRunning(i)
    BY <1>2 DEF Start
  <2> QED BY <1>0, <2>1, <2>2
<1>3. ASSUME NEW i \in Invocations, Fetch(i) \/ Merge(i) PROVE Meetings'
  <2>1. /\ Apart(i) /\ pc[i] \in {"fetch", "load"} /\ pc'[i] \notin {"idle", "write"}
        /\ UNCHANGED <<mixed, overlapped>> /\ (torn => torn')
    BY <1>0, <1>3, StepApart DEF Fetch, Merge, MergeInto, TypeOK
  <2> QED BY <1>0, <2>1
<1>4. ASSUME NEW i \in Invocations, Truncate(i) PROVE Meetings'
  <2>1. /\ Apart(i) /\ pc[i] = "truncate" /\ pc'[i] = "write" /\ UNCHANGED overlapped
        /\ IF At("write") = {} THEN UNCHANGED <<mixed, torn>>
           ELSE mixed' = mixed \cup {i} \cup At("write") /\ torn' = TRUE
    BY <1>0, <1>4, StepApart DEF Truncate, TypeOK
  <2> QED BY <1>0, <2>1
<1>5. ASSUME NEW i \in Invocations, WriteSome(i) PROVE Meetings'
  BY <1>0, <1>5, WriteSomeStep
<1>6. ASSUME NEW i \in Invocations, Write(i) \/ Stop(i) PROVE Meetings'
  <2>1. /\ Apart(i) /\ pc[i] \in Running /\ pc'[i] = "done"
        /\ UNCHANGED overlapped /\ mixed' = mixed \ {i} /\ (torn => torn')
    BY <1>0, <1>6, StepApart DEF Write, Stop, TypeOK
  <2> QED BY <1>0, <2>1
<1>7. CASE UNCHANGED vars
  BY <1>0, <1>7 DEF vars
<1> QED
  BY <1>1, <1>2, <1>3, <1>4, <1>5, <1>6, <1>7 DEF Next, Finished

LEMMA NextUntorn == IInv /\ [Next]_vars /\ ~torn' => Untorn'
<1> SUFFICES ASSUME IInv, [Next]_vars, ~torn' PROVE Untorn'
  OBVIOUS
<1> USE DEF Untorn, Editing, Goto, End, Running, Apart, At, Written, notes
<1>0. TypeOK /\ Meetings /\ Untorn /\ ~torn
  BY DEF IInv, TypeOK, Next, vars, runGenerateKubeconfig, Generated, Start, Fetch, Merge, MergeInto,
         Truncate, WriteSome, Write, Stop, Finished
<1>1. ASSUME NEW c \in Clusters, runGenerateKubeconfig(c) \/ Generated(c) PROVE Untorn'
  BY <1>0, <1>1 DEF runGenerateKubeconfig, Generated
<1>2. ASSUME NEW i \in Invocations, Start(i) \/ Fetch(i) PROVE Untorn'
  <2>1. /\ Apart(i) /\ UNCHANGED file
        /\ pc[i] \in {"idle", "fetch"} /\ pc'[i] \in {"fetch", "load", "done"}
    BY <1>0, <1>2, StepApart DEF Start, Fetch, TypeOK
  <2> QED BY <1>0, <2>1
<1>3. ASSUME NEW i \in Invocations, Merge(i) PROVE Untorn'
  <2>1. Apart(i)
    BY <1>3, StepApart
  <2>2. CASE file = Corrupt
    BY <1>0, <1>3, <2>1, <2>2 DEF Merge, TypeOK
  <2>3. CASE file # Corrupt
    <3>1. /\ pc[i] = "load" /\ pc' = [pc EXCEPT ![i] = "truncate"] /\ At("write") = {}
          /\ UNCHANGED file /\ data'[i] = Grafted(Loaded(file), data[i], job[i])
          /\ job[i] \in Jobs /\ data[i] \in Payloads /\ file \in Files /\ Loaded(file) \in Files
      BY <1>0, <1>3, <2>3, MergeStep
    <3>2. Whole(data'[i])
      BY <1>0, <3>1, LoadedHas, GraftedIsWhole
    <3> QED BY <1>0, <2>1, <3>1, <3>2 DEF TypeOK
  <2> QED BY <2>2, <2>3
<1>4. ASSUME NEW i \in Invocations, Truncate(i) PROVE Untorn'
  <2>1. /\ Apart(i) /\ pc[i] = "truncate" /\ pc'[i] = "write" /\ data'[i] = data[i]
    BY <1>0, <1>4, StepApart DEF Truncate, TypeOK
  <2> QED BY <1>0, <2>1
<1>5. ASSUME NEW i \in Invocations, WriteSome(i) PROVE Untorn'
  BY <1>0, <1>5, WriteSomeStep
<1>6. ASSUME NEW i \in Invocations, Write(i) PROVE Untorn'
  <2>1. Apart(i)
    BY <1>6, StepApart
  <2>2. /\ pc[i] = "write" /\ pc'[i] = "done" /\ file' = data[i] /\ data[i] \in Files
    BY <1>0, <1>6, WriteStep DEF Meetings, TypeOK
  <2> QED BY <1>0, <2>1, <2>2, KeysAssumption
<1>7. ASSUME NEW i \in Invocations, Stop(i) PROVE Untorn'
  <2>1. /\ Apart(i) /\ UNCHANGED file /\ pc[i] # "write" /\ pc'[i] = "done"
    BY <1>0, <1>7, StepApart DEF Stop, TypeOK
  <2> QED BY <1>0, <2>1
<1>8. CASE UNCHANGED vars
  BY <1>0, <1>8 DEF vars
<1> QED
  BY <1>1, <1>2, <1>3, <1>4, <1>5, <1>6, <1>7, <1>8 DEF Next, Finished

LEMMA NextFollowing == IInv /\ [Next]_vars => Following'
<1> SUFFICES ASSUME IInv, [Next]_vars PROVE Following'
  OBVIOUS
<1> USE DEF Following, Editing, Goto, End, Running, Apart, At, Written, Holds, notes
<1>0. TypeOK /\ Meetings /\ Following
  BY DEF IInv
<1>1. ASSUME NEW c \in Clusters, runGenerateKubeconfig(c) \/ Generated(c) PROVE Following'
  BY <1>0, <1>1 DEF runGenerateKubeconfig, Generated
<1>2. ASSUME NEW i \in Invocations, Start(i) \/ Fetch(i) PROVE Following'
  <2>1. /\ Apart(i) /\ UNCHANGED <<file, reported, excused>> /\ overlapped \subseteq overlapped'
        /\ pc[i] \in {"idle", "fetch"} /\ pc'[i] \in {"fetch", "load", "done"}
    BY <1>0, <1>2, StepApart DEF Start, Fetch, TypeOK
  <2> QED BY <1>0, <2>1
<1>3. ASSUME NEW i \in Invocations, Merge(i) PROVE Following'
  <2>1. Apart(i)
    BY <1>3, StepApart
  <2>2. CASE file = Corrupt
    BY <1>0, <1>3, <2>1, <2>2 DEF Merge, TypeOK
  <2>3. CASE file # Corrupt
    <3>1. /\ pc[i] = "load" /\ pc' = [pc EXCEPT ![i] = "truncate"]
          /\ UNCHANGED <<file, job, overlapped, reported, excused>>
          /\ data'[i] = Grafted(Loaded(file), data[i], job[i])
          /\ job[i] \in Jobs /\ data[i] \in Payloads /\ file \in Files /\ Loaded(file) \in Files
      BY <1>3, <2>3, MergeStep
    <3>2. ASSUME i \notin overlapped, NEW n \in Names \ excused, n # job[i].name
          PROVE  Holds(data[i], n)'
      <4>1. Holds(file, n)
        BY <1>0, <3>1, <3>2 DEF Meetings
      <4>2. \A v : Has(file, n, v) => Has(Loaded(file), n, v)
        BY <3>1, LoadedHas
      <4>3. \A v : Has(Loaded(file), n, v) => Has(data'[i], n, v)
        BY <3>1, <3>2, GraftedHas
      <4> QED BY <3>1, <4>1, <4>2, <4>3
    <3> QED BY <1>0, <2>1, <3>1, <3>2 DEF TypeOK
  <2> QED BY <2>2, <2>3
<1>4. ASSUME NEW i \in Invocations, Truncate(i) PROVE Following'
  <2>1. /\ Apart(i) /\ pc[i] = "truncate" /\ pc'[i] = "write" /\ data'[i] = data[i]
        /\ job'[i] = job[i] /\ UNCHANGED <<overlapped, reported, excused>>
    BY <1>0, <1>4, StepApart DEF Truncate, TypeOK
  <2> QED BY <1>0, <2>1
<1>5. ASSUME NEW i \in Invocations, WriteSome(i) PROVE Following'
  BY <1>0, <1>5, WriteSomeStep
<1>6. ASSUME NEW i \in Invocations, Write(i) PROVE Following'
  <2>1. Apart(i)
    BY <1>6, StepApart
  <2>2. /\ pc[i] = "write" /\ pc' = [pc EXCEPT ![i] = "done"]
        /\ data[i] \in Files /\ job[i].name \in Names
        /\ Has(data[i], job[i].name, data[i].clusters[job[i].name])
        /\ (i \notin mixed => file' = data[i])
        /\ reported' = [reported EXCEPT ![job[i].name] = data[i].clusters[job[i].name]]
        /\ excused' = IF i \in mixed THEN Names
                      ELSE (IF i \in overlapped THEN Names ELSE excused) \ {job[i].name}
        /\ UNCHANGED overlapped
    BY <1>6, WriteStep
  <2>3. ASSUME NEW j \in Invocations, Editing(j)' PROVE j \in overlapped'
    BY <1>0, <2>1, <2>2, <2>3 DEF Meetings, TypeOK
  <2>4. ASSUME NEW n \in Names \ excused', Written' PROVE file' # Corrupt /\ Holds(file, n)'
    <3>1. i \notin mixed /\ file' = data[i] /\ file' # Corrupt
      BY <2>2, <2>4, KeysAssumption
    <3>2. CASE n = job[i].name
      BY <1>0, <2>2, <3>1, <3>2 DEF Grounded, IInv
    <3>3. CASE n # job[i].name
      BY <1>0, <2>2, <2>4, <3>1, <3>3 DEF Grounded, IInv
    <3> QED BY <3>1, <3>2, <3>3
  <2> QED BY <2>3, <2>4
<1>7. ASSUME NEW i \in Invocations, Stop(i) PROVE Following'
  <2>1. /\ Apart(i) /\ UNCHANGED <<file, reported, overlapped>> /\ pc'[i] = "done"
        /\ IF pc[i] = "write" THEN excused' = Names ELSE UNCHANGED excused
    BY <1>0, <1>7, StepApart DEF Stop, TypeOK
  <2> QED BY <1>0, <2>1
<1>8. CASE UNCHANGED vars
  BY <1>0, <1>8 DEF vars
<1> QED
  BY <1>1, <1>2, <1>3, <1>4, <1>5, <1>6, <1>7, <1>8 DEF Next, Finished

LEMMA AlwaysIInv == Spec => []IInv
<1>1. IInv /\ [Next]_vars => IInv'
  BY NextTypeOK, NextGrounded, NextMeetings, NextUntorn, NextFollowing DEF IInv
<1> QED BY <1>1, InitIInv, PTL DEF Spec

(* The state of every invocation is what TypeOK says; the file is one that *)
(* parses, the beginnings of a file included, or Corrupt.                  *)
THEOREM TypeCorrect == Spec => []TypeOK
<1>1. IInv => TypeOK
  BY DEF IInv
<1> QED BY <1>1, AlwaysIInv, PTL

(* Merge and Write of kubeconfig.go: at any concurrency, a file that       *)
(* nobody is writing parses and has no context without its cluster and     *)
(* user, and none with the user of another cluster, as long as no write    *)
(* was cut or overlapped another and none was read half done.              *)
THEOREM NoBrokenContext == Spec => []ContextsWhole
<1>1. IInv => ContextsWhole
  <2> SUFFICES ASSUME IInv, ~torn, Written PROVE file # Corrupt /\ WholeFile(file)
    BY DEF ContextsWhole
  <2>1. file # Corrupt /\ Whole(file)
    BY DEF IInv, Untorn
  <2> QED BY <2>1, KeysAssumption DEF Whole, Has, WholeFile
<1> QED BY <1>1, AlwaysIInv, PTL

(* The same code keeps the cluster and the credentials of every context,   *)
(* the other tool's included, in an update that no other overlaps; and an  *)
(* update whose write no other overlaps leaves its own context whole, also *)
(* when an earlier one was cut amid its write.                             *)
THEOREM NoContextLost == Spec => []ContextsKept
<1>1. IInv => ContextsKept
  BY DEF IInv, Following, Holds, Has, ContextsKept, Kept
<1> QED BY <1>1, AlwaysIInv, PTL
===============================================================================

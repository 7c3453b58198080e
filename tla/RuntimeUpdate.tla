----------------------------- MODULE RuntimeUpdate -----------------------------
(***************************************************************************)
(* `grn agentbase runtime update` (cmd/agentbase/runtime.go) by several    *)
(* users on one agent runtime.  The API replaces the whole specification   *)
(* and keeps every version; the command makes it look like a merge: it     *)
(* reads the current version, page by page, and carries over what the flags*)
(* or the file leave unset.                                                *)
(*                                                                         *)
(* Of a specification the model keeps the fields with rules of their own:  *)
(* networkConfig, inboundAuth ("none": no block) and imageAuth.  The others*)
(* are carried over like networkConfig.  What the flags say is chosen when *)
(* the request is built, the first moment it matters.                      *)
(***************************************************************************)
EXTENDS Naturals, FiniteSets, Sequences

CONSTANTS
    Users,
    PageSize,       \* versions on a page of the list (100 in the code)
    MaxPages,       \* pages that are read at most (100 in the code)
    MaxVersions     \* versions made in all (bound)

ASSUME SizesAssumption ==
    PageSize \in Nat \ {0} /\ MaxPages \in Nat \ {0} /\ MaxVersions \in Nat \ {0}

VARIABLES
    versions,       \* the specifications, in the order they were made
    newestFirst,    \* the order in which the API lists them
    phase,          \* of each user's update: "idle", "reading" or "ready"
    page, latest,   \* of latestVersion
    current         \* history: the newest version when that began

updates == <<phase, page, latest, current>>
vars    == <<versions, newestFirst, updates>>

Spec0(network, inbound, image) == [network |-> network, inbound |-> inbound, image |-> image]

Networks == {"PUBLIC", "VPC"}
Modes    == {"NONE", "IAM", "JWT"}
Images   == {"disabled", "registry", "password"}

(* Callers of a public runtime are always checked in one of three modes, a *)
(* private one has no such check.                                          *)
Specs ==
    {s \in [network : Networks, inbound : Modes \cup {"none"}, image : Images] :
        s.network = "VPC" <=> s.inbound = "none"}

TotalPages == (Len(versions) + PageSize - 1) \div PageSize

TypeOK ==
    /\ versions \in Seq(Specs) /\ Len(versions) \in 1 .. MaxVersions
    /\ newestFirst \in BOOLEAN
    /\ phase \in [Users -> {"idle", "reading", "ready"}]
    /\ page \in [Users -> Nat] /\ latest \in [Users -> Nat] /\ current \in [Users -> Nat]
    /\ \A u \in Users :
        /\ page[u] <= TotalPages /\ page[u] <= MaxPages
        /\ latest[u] <= Len(versions) /\ current[u] <= Len(versions)
        /\ phase[u] = "ready" => latest[u] > 0

Init ==
    /\ versions \in {<<s>> : s \in Specs}
    /\ newestFirst \in BOOLEAN
    /\ phase = [u \in Users |-> "idle"]
    /\ page = [u \in Users |-> 0] /\ latest = [u \in Users |-> 0]
    /\ current = [u \in Users |-> 0]

-------------------------------------------------------------------------------
(* latestVersion. *)
Place(n)  == IF newestFirst THEN Len(versions) - n ELSE n - 1
OnPage(p) == {n \in DOMAIN versions : Place(n) \div PageSize = p - 1}

Larger(n, set) == CHOOSE m \in set \cup {n} : \A k \in set \cup {n} : k <= m

StartReading(u) ==
    /\ phase[u] = "idle"
    /\ phase' = [phase EXCEPT ![u] = "reading"]
    /\ page' = [page EXCEPT ![u] = 1]
    /\ current' = [current EXCEPT ![u] = Len(versions)]
    /\ UNCHANGED <<versions, newestFirst, latest>>

(* Mutant: the version that comes last is taken for the current one. *)
ReadPageTakingLast(u) ==
    /\ phase[u] = "reading"
    /\ latest' = [latest EXCEPT ![u] =
            IF OnPage(page[u]) = {} THEN @
            ELSE CHOOSE n \in OnPage(page[u]) : \A k \in OnPage(page[u]) : Place(k) <= Place(n)]
    /\ IF page[u] >= TotalPages \/ OnPage(page[u]) = {} \/ page[u] = MaxPages
         THEN phase' = [phase EXCEPT ![u] = "ready"] /\ UNCHANGED page
         ELSE page' = [page EXCEPT ![u] = @ + 1] /\ UNCHANGED phase
    /\ UNCHANGED <<versions, newestFirst, current>>

(* Mutant: only an empty page ends the list. *)
ReadPageToEmpty(u) ==
    /\ phase[u] = "reading"
    /\ latest' = [latest EXCEPT ![u] = Larger(@, OnPage(page[u]))]
    /\ IF OnPage(page[u]) = {} \/ page[u] = MaxPages
         THEN phase' = [phase EXCEPT ![u] = "ready"] /\ UNCHANGED page
         ELSE page' = [page EXCEPT ![u] = @ + 1] /\ UNCHANGED phase
    /\ UNCHANGED <<versions, newestFirst, current>>

ReadPage(u) ==
    /\ phase[u] = "reading"
    /\ latest' = [latest EXCEPT ![u] = Larger(@, OnPage(page[u]))]
    /\ IF page[u] >= TotalPages \/ OnPage(page[u]) = {} \/ page[u] = MaxPages
         THEN phase' = [phase EXCEPT ![u] = "ready"] /\ UNCHANGED page
         ELSE page' = [page EXCEPT ![u] = @ + 1] /\ UNCHANGED phase
    /\ UNCHANGED <<versions, newestFirst, current>>

Finish(u) ==
    /\ phase' = [phase EXCEPT ![u] = "idle"]
    /\ page' = [page EXCEPT ![u] = 0]
    /\ latest' = [latest EXCEPT ![u] = 0]
    /\ current' = [current EXCEPT ![u] = 0]

(* A page cannot be read, the specification is refused, or the request is  *)
(* lost.                                                                   *)
Fail(u) ==
    /\ phase[u] # "idle"
    /\ Finish(u)
    /\ UNCHANGED <<versions, newestFirst>>

-------------------------------------------------------------------------------
(* The API makes a new version; a public one without inboundAuth is NONE.  *)
(* Whether its answer arrives makes no difference: nothing is sent again.  *)
Replace(s) ==
    /\ Len(versions) < MaxVersions
    /\ s.network = "VPC" => s.inbound = "none"
    /\ versions' = Append(versions,
            IF s.network = "PUBLIC" /\ s.inbound = "none" THEN [s EXCEPT !.inbound = "NONE"] ELSE s)

(* What the flags can say; "bare" is a username and a password without     *)
(* --image-auth-enabled.                                                   *)
Flags ==
    [network : Networks \cup {"unset"}, inbound : Modes \cup {"unset"},
     image : Images \cup {"unset", "bare"}]

(* Mutant: credentials that cannot be carried over are sent as disabled. *)
CarriedOrDisabled(flags, cur) ==
    CASE flags.image = "unset" -> {IF cur.image = "password" THEN "disabled" ELSE cur.image}
      [] flags.image = "bare"  -> {"disabled"}
      [] OTHER                 -> {flags.image}

(* The imageAuth to send, if any: the API never returns a stored password, *)
(* so that one cannot be carried over.                                     *)
ImageAuth(flags, cur) ==
    CASE flags.image = "unset" -> {cur.image} \ {"password"}
      [] flags.image = "bare"  -> {"disabled"}
      [] OTHER                 -> {flags.image}

(* Mutant: what is unset and has nothing to carry over is left out. *)
InboundAuthOrNone(asked, network, cur) ==
    CASE asked # "unset"  -> asked
      [] network = "VPC"  -> "none"
      [] OTHER            -> cur.inbound

InboundAuth(asked, network, cur) ==
    CASE asked # "unset"          -> asked
      [] network = "VPC"          -> "none"
      [] cur.inbound # "none"     -> cur.inbound
      [] OTHER                    -> "IAM"

UpdateFromFlags(u, flags) ==
    LET cur     == versions[latest[u]]
        network == IF flags.network = "unset" THEN cur.network ELSE flags.network
    IN  /\ phase[u] = "ready"
        /\ network = "VPC" => flags.inbound = "unset"
        /\ \E image \in ImageAuth(flags, cur) :
            Replace(Spec0(network, InboundAuth(flags.inbound, network, cur), image))
        /\ Finish(u)
        /\ UNCHANGED newestFirst

(* A file without networkConfig means PUBLIC, one without imageAuth is     *)
(* refused, and the current version is read only for inboundAuth.          *)
Files == [network : Networks, inbound : Modes \cup {"unset"}, image : Images]

UpdateFromFile(u, file) ==
    /\ file.network = "VPC" => file.inbound = "unset"
    /\ \/ /\ file.inbound # "unset" \/ file.network = "VPC"
          /\ phase[u] = "idle"
          /\ Replace(Spec0(file.network, IF file.network = "VPC" THEN "none" ELSE file.inbound,
                           file.image))
       \/ /\ file.inbound = "unset" /\ file.network = "PUBLIC"
          /\ phase[u] = "ready"
          /\ Replace(Spec0("PUBLIC", InboundAuth("unset", "PUBLIC", versions[latest[u]]),
                           file.image))
    /\ Finish(u)
    /\ UNCHANGED newestFirst

Next == \E u \in Users :
    \/ StartReading(u) \/ ReadPage(u) \/ Fail(u)
    \/ \E flags \in Flags : UpdateFromFlags(u, flags)
    \/ \E file \in Files : UpdateFromFile(u, file)

Spec == Init /\ [][Next]_vars

-------------------------------------------------------------------------------
New == versions'[Len(versions')]
Old == versions[Len(versions)]

(* The version that this step makes is the user's, from these flags or     *)
(* from this file.                                                         *)
ByFlags(u, flags) == versions' # versions /\ phase[u] = "ready" /\ UpdateFromFlags(u, flags)
ByFile(u, file)   == versions' # versions /\ UpdateFromFile(u, file)

(* "never silently to NONE": a version that lets everybody in was asked    *)
(* for, or the version it was made from let everybody in already.          *)
OpenedOnPurpose ==
    [][versions' # versions /\ New.inbound = "NONE" => \A u \in Users :
        /\ \A flags \in Flags : ByFlags(u, flags) =>
            flags.inbound = "NONE" \/ versions[latest[u]].inbound = "NONE"
        /\ \A file \in Files : ByFile(u, file) =>
            file.inbound = "NONE" \/ (latest[u] > 0 /\ versions[latest[u]].inbound = "NONE")]_vars

(* "a field whose flags are left unset is carried over": unless another    *)
(* user has made a version since the read, no unset field changes, but for *)
(* the inbound auth of a runtime that moves between networks; stored       *)
(* credentials are never dropped for a flag that was left out.             *)
CarriedOver ==
    [][\A u \in Users : versions' # versions /\ latest[u] = Len(versions) =>
        \A flags \in Flags : ByFlags(u, flags) =>
            /\ flags.network = "unset" => New.network = Old.network
            /\ flags.image = "unset" => New.image = Old.image
            /\ flags.inbound = "unset" /\ New.network = Old.network => New.inbound = Old.inbound]_vars

(* The same whoever has made a version since.  It does not hold: the       *)
(* request replaces the whole of a specification it may not have seen.     *)
CarriedOverAlways ==
    [][\A u \in Users, flags \in Flags : ByFlags(u, flags) =>
            /\ flags.network = "unset" => New.network = Old.network
            /\ flags.image = "unset" => New.image = Old.image]_vars

(* "username/password or useAgentBaseRegistryCredentials keeps it": who    *)
(* gives a username and a password does not end up without image auth.  It *)
(* does not hold without --image-auth-enabled.                             *)
CredentialsKept ==
    [][\A u \in Users, flags \in Flags : ByFlags(u, flags) /\ flags.image \in {"password", "bare"} =>
            New.image = "password"]_vars

(* However the API orders its pages and whoever adds a version meanwhile,  *)
(* an update is made from a version no older than the newest one when its  *)
(* read began, unless the oldest come first and fill all the pages that    *)
(* are read: then from one no older than the last of these.                *)
ReadsTheLatest ==
    \A u \in Users : phase[u] = "ready" =>
        latest[u] >= current[u] \/ (~newestFirst /\ latest[u] >= MaxPages * PageSize)

(* "the entry with the highest version number, scanning every page of the  *)
(* versions list".  It does not hold when there are more than MaxPages.    *)
ReadsTheLatestAlways == \A u \in Users : phase[u] = "ready" => latest[u] >= current[u]
===============================================================================

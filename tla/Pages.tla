--------------------------------- MODULE Pages ---------------------------------
(***************************************************************************)
(* Reading a paged list: GetAllPages (internal/client, pages from 0), with *)
(* which vks lists clusters and node groups, and findMemoryByName and      *)
(* findRuntimeByName (cmd/agentbase/deploy.go, pages from 1), with which   *)
(* deploy decides what exists.  Each page is one API call, and the list    *)
(* may change between two calls.                                           *)
(***************************************************************************)
EXTENDS Naturals, FiniteSets, SequencesExt

CONSTANTS
    Items,          \* what a list may hold
    Wanted,         \* the item that carries the name looked for
    PageSize,
    Readers,        \* a subset of {"GetAllPages", "findByName"}
    Changes,        \* what others do to the list: a subset of {"append", "insert", "delete"}
    MaxChanges,     \* how often (bound)
    CutBodies       \* whether the body of a 200 may be cut off

ASSUME ReadersAssumption  == Readers \subseteq {"GetAllPages", "findByName"}
ASSUME ChangesAssumption  == Changes \subseteq {"append", "insert", "delete"}
ASSUME PageSizeAssumption == PageSize \in Nat \ {0} /\ MaxChanges \in Nat
ASSUME WantedAssumption   == Wanted \in Items /\ CutBodies \in BOOLEAN

VARIABLES
    list,       \* the server's list, in its order
    changes,
    stayed,     \* the items that were in the list at every moment of the read
    disturbed,  \* history: the list changed but at its end, or a body was cut off
    reader,
    page,
    got,        \* allItems
    result      \* "reading", then what the reader returns

pagesVars == <<list, changes, stayed, disturbed, reader, page, got, result>>

Distinct(s) == IsInjective(s)
Lists       == {s \in SeqOf(Items, Cardinality(Items)) : Distinct(s)}

(* A read ends: whatever happens to the list, no page is asked for beyond  *)
(* the last that the largest list can have, but for one that is empty.     *)
PagesTypeOK ==
    /\ list \in Lists
    /\ changes \in 0 .. MaxChanges
    /\ stayed \subseteq ToSet(list) /\ disturbed \in BOOLEAN
    /\ reader \in Readers
    /\ page \in 0 .. (Cardinality(Items) + PageSize - 1) \div PageSize
    /\ got \in Seq(Items)
    /\ result \in {"reading", "list", "found", "absent", "error"}

(* Mutant: both lists are thought to begin with page 1. *)
FirstPageOne == 1

FirstPage == IF reader = "GetAllPages" THEN 0 ELSE 1

PagesInit ==
    /\ list \in Lists /\ stayed = ToSet(list) /\ changes = 0 /\ disturbed = FALSE
    /\ reader \in Readers
    /\ page = FirstPage /\ got = <<>> /\ result = "reading"

-------------------------------------------------------------------------------
(* The server. *)
Slice(p) ==     \* p counts from 0
    LET last == (p + 1) * PageSize
    IN  SubSeq(list, p * PageSize + 1, IF last < Len(list) THEN last ELSE Len(list))

TotalPages == (Len(list) + PageSize - 1) \div PageSize

Change ==
    /\ result = "reading" /\ changes < MaxChanges
    /\ changes' = changes + 1
    /\ \/ \E x \in Items \ ToSet(list), at \in 1 .. Len(list) + 1 :
            /\ "insert" \in Changes \/ ("append" \in Changes /\ at = Len(list) + 1)
            /\ list' = InsertAt(list, at, x)
            /\ disturbed' = (disturbed \/ at <= Len(list))
       \/ /\ "delete" \in Changes
          /\ \E at \in DOMAIN list : list' = RemoveAt(list, at)
          /\ disturbed' = TRUE
    /\ stayed' = stayed \cap ToSet(list')
    /\ UNCHANGED <<reader, page, got, result>>

-------------------------------------------------------------------------------
server == <<list, changes, stayed, disturbed, reader>>

(* One round of the loop of GetAllPages, with what the page brought. *)
Merge(items, total) ==
    /\ got' = got \o items
    /\ IF Len(got') >= total \/ items = <<>>
         THEN result' = "list" /\ UNCHANGED page
         ELSE page' = page + 1 /\ UNCHANGED result

ReadPage ==
    /\ reader = "GetAllPages" /\ result = "reading"
    /\ Merge(Slice(page), Len(list))
    /\ UNCHANGED server

(* The error of reading a body is dropped in requestRaw: a body cut off at *)
(* its first byte is {} to GetAllPages, without items and without a total. *)
(* One cut off later does not parse and is an error.                       *)
ReadCutPage ==
    /\ reader = "GetAllPages" /\ result = "reading" /\ CutBodies
    /\ Merge(<<>>, 0)
    /\ disturbed' = TRUE
    /\ UNCHANGED <<list, changes, stayed, reader>>

(* Mutant: the last page is not read. *)
SearchBeforeLast ==
    /\ reader = "findByName" /\ result = "reading"
    /\ IF Contains(Slice(page - 1), Wanted) THEN result' = "found" /\ UNCHANGED page
       ELSE IF page + 1 >= TotalPages THEN result' = "absent" /\ UNCHANGED page
       ELSE page' = page + 1 /\ UNCHANGED result
    /\ UNCHANGED <<server, got>>

(* Mutant: the search stops at the page that is the last one, not past it. *)
SearchToLast ==
    /\ reader = "findByName" /\ result = "reading"
    /\ IF Contains(Slice(page - 1), Wanted) THEN result' = "found" /\ UNCHANGED page
       ELSE IF page = TotalPages THEN result' = "absent" /\ UNCHANGED page
       ELSE page' = page + 1 /\ UNCHANGED result
    /\ UNCHANGED <<server, got>>

SearchPage ==
    /\ reader = "findByName" /\ result = "reading"
    /\ \/ Contains(Slice(page - 1), Wanted) /\ result' = "found" /\ UNCHANGED page
       \/ /\ ~Contains(Slice(page - 1), Wanted)
          /\ IF page >= TotalPages \/ Slice(page - 1) = <<>>
               THEN result' = "absent" /\ UNCHANGED page
               ELSE page' = page + 1 /\ UNCHANGED result
    /\ UNCHANGED <<server, got>>

(* A page that cannot be fetched ends the read without a list. *)
PageFails ==
    /\ result = "reading"
    /\ result' = "error"
    /\ UNCHANGED <<server, page, got>>

Returned == result # "reading" /\ UNCHANGED pagesVars

PagesNext == Change \/ ReadPage \/ ReadCutPage \/ SearchPage \/ PageFails \/ Returned

PagesSpec == PagesInit /\ [][PagesNext]_pagesVars

-------------------------------------------------------------------------------
(* GetAllPages "fetches all pages and merges items into a single result":  *)
(* of a list that only grows at its end, what it returns holds every item  *)
(* that was there all the time, once.                                      *)
ListsEverything ==
    result = "list" /\ ~disturbed => stayed \subseteq ToSet(got) /\ Distinct(got)

(* The same of any list: a page body that is lost must not end the read as *)
(* a complete one.                                                         *)
ListsEverythingAlways == result = "list" => stayed \subseteq ToSet(got) /\ Distinct(got)

(* findByName "returns nil when no [resource] of that name exists": an     *)
(* absent verdict is never given on a resource that was there all the time *)
(* in a list that only grows at its end.                                   *)
AbsentIsAbsent == result = "absent" /\ ~disturbed => Wanted \notin stayed

(* The same of any list. *)
AbsentIsAbsentAlways == result = "absent" => Wanted \notin stayed
===============================================================================

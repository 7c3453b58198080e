-------------------------- MODULE RuntimeUpdate_proof --------------------------
(***************************************************************************)
(* Proofs about RuntimeUpdate, for any number of users, any page size and  *)
(* any number of versions: type correctness, that a read ends on a version *)
(* no older than the newest one when it began or than the last one on the  *)
(* pages it may read, and what the new version has in the fields that the  *)
(* user left unset.                                                        *)
(*                                                                         *)
(* The strengthening says what has been read after p pages: everything that*)
(* existed when the read began if the newest versions come first, or else  *)
(* the first p * PageSize versions.                                        *)
(***************************************************************************)
EXTENDS RuntimeUpdate, WellFoundedInduction, TLAPS

-------------------------------------------------------------------------------
(* Arithmetic of pages, and the largest of a bounded set of numbers.       *)

LEMMA Div ==
    ASSUME NEW a \in Nat, NEW c \in Nat \ {0}
    PROVE  a \div c \in Nat /\ (a \div c) * c <= a /\ a < (a \div c) * c + c
  BY SMTT(30)

LEMMA LessTimes ==
    ASSUME NEW p \in Nat, NEW q \in Nat, NEW c \in Nat, p < q
    PROVE  p * c + c <= q * c
<1> DEFINE d == q - p - 1
<1>1. d \in Nat /\ q = p + 1 + d
  OBVIOUS
<1>2. q * c = p * c + c + d * c
  BY <1>1, SMTT(30)
<1>3. d * c \in Nat /\ p * c \in Nat /\ q * c \in Nat
  BY <1>1, SMTT(30)
<1> QED
  BY <1>2, <1>3

LEMMA DivIs ==
    ASSUME NEW a \in Nat, NEW c \in Nat \ {0}, NEW q \in Nat, q * c <= a, a < q * c + c
    PROVE  a \div c = q
<1> DEFINE d == a \div c
<1>1. d \in Nat /\ d * c <= a /\ a < d * c + c
  BY Div
<1>2. d * c \in Nat /\ q * c \in Nat
  BY <1>1, SMTT(30)
<1>3. ~(d < q)
  BY <1>1, <1>2, LessTimes
<1>4. ~(q < d)
  BY <1>1, <1>2, LessTimes
<1> QED
  BY <1>1, <1>3, <1>4

LEMMA DivMonotone ==
    ASSUME NEW a \in Nat, NEW b \in Nat, a <= b, NEW c \in Nat \ {0}
    PROVE  a \div c <= b \div c
<1> DEFINE p == b \div c
           q == a \div c
<1>1. p \in Nat /\ q \in Nat /\ b < p * c + c /\ q * c <= a
  BY Div
<1>2. p * c \in Nat /\ q * c \in Nat
  BY <1>1, SMTT(30)
<1>3. ~(p < q)
  BY <1>1, <1>2, LessTimes
<1> QED
  BY <1>1, <1>3

LEMMA Largest ==
    ASSUME NEW b \in Nat, NEW S \in SUBSET (0 .. b), S # {}
    PROVE  \E m \in S : \A k \in S : k <= m
<1> DEFINE Below == {b - m : m \in S}
           Less  == OpToRel(<, Nat)
<1>1. IsWellFoundedOn(Less, Nat)
  BY NatLessThanWellFounded
<1>2. Below \subseteq Nat /\ Below # {}
  OBVIOUS
<1>3. PICK x \in Below : \A y \in Below : ~(<<y, x>> \in Less)
  BY <1>1, <1>2, WFMin
<1>4. PICK m \in S : x = b - m
  BY <1>3
<1>5. ASSUME NEW k \in S PROVE k <= m
  <2>1. b - k \in Below
    OBVIOUS
  <2>2. ~(<<b - k, x>> \in Less)
    BY <1>3, <2>1
  <2>3. ~(b - k < x)
    BY <1>2, <1>3, <2>1, <2>2 DEF OpToRel
  <2> QED
    BY <1>4, <2>3
<1> QED
  BY <1>4, <1>5

LEMMA LargerIs ==
    ASSUME NEW b \in Nat, NEW n \in 0 .. b, NEW set \in SUBSET (0 .. b)
    PROVE  /\ Larger(n, set) \in 0 .. b
           /\ Larger(n, set) >= n
           /\ \A k \in set : k <= Larger(n, set)
<1> DEFINE all == set \cup {n}
<1>1. all \in SUBSET (0 .. b) /\ all # {}
  OBVIOUS
<1>2. \E m \in all : \A k \in all : k <= m
  BY <1>1, Largest
<1>3. /\ Larger(n, set) \in all
      /\ \A k \in all : k <= Larger(n, set)
  BY <1>2 DEF Larger
<1> QED
  BY <1>1, <1>3

-------------------------------------------------------------------------------
(* The pages of the list.                                                  *)

LEMMA PageOf ==
    ASSUME TypeOK, NEW p \in Nat \ {0}
    PROVE  /\ OnPage(p) \in SUBSET (0 .. Len(versions))
           /\ newestFirst /\ p = 1 => Len(versions) \in OnPage(p)
           /\ \A n \in 1 .. Len(versions) :
                ~newestFirst /\ (p - 1) * PageSize < n /\ n <= p * PageSize => n \in OnPage(p)
<1> DEFINE L == Len(versions)
<1>1. versions \in Seq(Specs) /\ L \in Nat \ {0} /\ DOMAIN versions = 1 .. L
  BY DEF TypeOK
<1>2. OnPage(p) \in SUBSET (0 .. L)
  BY <1>1 DEF OnPage
<1>3. newestFirst /\ p = 1 => L \in OnPage(p)
  <2> SUFFICES ASSUME newestFirst, p = 1 PROVE L \in OnPage(p)
    OBVIOUS
  <2>1. Place(L) = 0
    BY <1>1 DEF Place
  <2>2. 0 \div PageSize = 0
    BY SizesAssumption, DivIs
  <2> QED
    BY <1>1, <2>1, <2>2 DEF OnPage
<1>4. ASSUME ~newestFirst, NEW n \in 1 .. L, (p - 1) * PageSize < n, n <= p * PageSize
      PROVE  n \in OnPage(p)
  <2>1. Place(n) = n - 1 /\ n - 1 \in Nat
    BY <1>4 DEF Place
  <2>2. (p - 1) * PageSize \in Nat /\ p * PageSize = (p - 1) * PageSize + PageSize
    BY SizesAssumption, SMTT(30)
  <2>3. /\ p - 1 \in Nat /\ (p - 1) * PageSize <= n - 1
        /\ n - 1 < (p - 1) * PageSize + PageSize
    BY <1>4, <2>1, <2>2, SizesAssumption
  <2>4. (n - 1) \div PageSize = p - 1
    BY <2>1, <2>3, SizesAssumption, DivIs
  <2> QED
    BY <1>1, <1>4, <2>1, <2>4 DEF OnPage
<1> QED
  BY <1>2, <1>3, <1>4

LEMMA PagesSuffice ==
    ASSUME TypeOK
    PROVE  /\ TotalPages \in Nat \ {0}
           /\ Len(versions) <= TotalPages * PageSize
<1> DEFINE L == Len(versions)
<1>1. L \in Nat \ {0}
  BY DEF TypeOK
<1>2. L + PageSize - 1 \in Nat
  BY <1>1, SizesAssumption
<1>3. /\ TotalPages \in Nat /\ TotalPages * PageSize <= L + PageSize - 1
      /\ L + PageSize - 1 < TotalPages * PageSize + PageSize
  BY <1>2, SizesAssumption, Div DEF TotalPages
<1>4. TotalPages * PageSize \in Nat /\ 0 * PageSize = 0
  BY <1>3, SizesAssumption, SMTT(30)
<1>5. TotalPages # 0
  BY <1>1, <1>3, <1>4, SizesAssumption
<1> QED
  BY <1>1, <1>3, <1>4, <1>5, SizesAssumption

-------------------------------------------------------------------------------
(* Before page p is read, the pages before it have been.                   *)
Reading(u) ==
    phase[u] = "reading" =>
        /\ page[u] >= 1 /\ current[u] >= 1
        /\ newestFirst => page[u] = 1 \/ latest[u] >= current[u]
        /\ ~newestFirst => \/ latest[u] >= (page[u] - 1) * PageSize
                           \/ latest[u] >= current[u]

Ready(u) ==
    phase[u] = "ready" =>
        /\ current[u] >= 1
        /\ latest[u] >= current[u] \/ (~newestFirst /\ latest[u] >= MaxPages * PageSize)

IInv == TypeOK /\ \A u \in Users : Reading(u) /\ Ready(u)

LEMMA InitIInv == Init => IInv
<1> SUFFICES ASSUME Init PROVE IInv
  OBVIOUS
<1>1. PICK s \in Specs : versions = <<s>>
  BY DEF Init
<1>2. versions \in Seq(Specs) /\ Len(versions) = 1 /\ 1 \in 1 .. MaxVersions
  BY <1>1, SizesAssumption
<1>3. TotalPages \in Nat
  BY <1>2, SizesAssumption, Div DEF TotalPages
<1>4. TypeOK
  BY <1>2, <1>3, SizesAssumption DEF Init, TypeOK
<1> QED
  BY <1>4 DEF Init, IInv, Reading, Ready

(* What the users who do not act keep when versions are added.             *)
LEMMA OthersKeep ==
    ASSUME IInv, NEW w \in Users, UNCHANGED <<newestFirst>>,
           phase'[w] = phase[w], page'[w] = page[w], latest'[w] = latest[w],
           current'[w] = current[w],
           Len(versions') \in Nat, Len(versions) <= Len(versions')
    PROVE  /\ page'[w] <= TotalPages' /\ page'[w] <= MaxPages /\ latest'[w] <= Len(versions')
           /\ current'[w] <= Len(versions')
           /\ phase'[w] = "ready" => latest'[w] > 0
           /\ Reading(w)' /\ Ready(w)'
<1>1. /\ page[w] <= TotalPages /\ page[w] <= MaxPages /\ latest[w] <= Len(versions) /\ current[w] <= Len(versions)
      /\ page[w] \in Nat /\ latest[w] \in Nat /\ current[w] \in Nat
      /\ Len(versions) \in Nat \ {0} /\ TotalPages \in Nat
  BY PagesSuffice DEF IInv, TypeOK
<1>2. /\ Len(versions) + PageSize - 1 \in Nat /\ Len(versions') + PageSize - 1 \in Nat
      /\ Len(versions) + PageSize - 1 <= Len(versions') + PageSize - 1
  BY <1>1, SizesAssumption
<1>3. TotalPages <= TotalPages' /\ TotalPages' \in Nat
  BY <1>2, SizesAssumption, DivMonotone, Div DEF TotalPages
<1>4. Reading(w)' /\ Ready(w)'
  BY DEF IInv, Reading, Ready
<1>5. phase'[w] = "ready" => latest'[w] > 0
  BY <1>1 DEF IInv, TypeOK
<1> QED
  BY <1>1, <1>3, <1>4, <1>5

LEMMA FinishKeeps ==
    ASSUME IInv, NEW u \in Users, Finish(u), UNCHANGED newestFirst,
           versions' \in Seq(Specs), Len(versions') \in 1 .. MaxVersions,
           Len(versions) <= Len(versions')
    PROVE  IInv'
<1>1. TypeOK /\ Len(versions) \in Nat /\ Len(versions') \in Nat
  BY DEF IInv, TypeOK
<1>2. /\ phase' \in [Users -> {"idle", "reading", "ready"}]
      /\ page' \in [Users -> Nat] /\ latest' \in [Users -> Nat] /\ current' \in [Users -> Nat]
  BY <1>1 DEF TypeOK, Finish
<1>3. /\ phase'[u] = "idle" /\ page'[u] = 0 /\ latest'[u] = 0 /\ current'[u] = 0
      /\ TotalPages' \in Nat
  <2>1. Len(versions') + PageSize - 1 \in Nat
    BY SizesAssumption
  <2> QED
    BY <1>1, <2>1, SizesAssumption, Div DEF TypeOK, Finish, TotalPages
<1>4. ASSUME NEW w \in Users
      PROVE  /\ page'[w] <= TotalPages' /\ page'[w] <= MaxPages /\ latest'[w] <= Len(versions')
             /\ current'[w] <= Len(versions')
             /\ phase'[w] = "ready" => latest'[w] > 0
             /\ Reading(w)' /\ Ready(w)'
  <2>1. CASE w = u
    BY <1>1, <1>3, <2>1, SizesAssumption DEF Reading, Ready
  <2>2. CASE w # u
    <3>1. /\ phase'[w] = phase[w] /\ page'[w] = page[w] /\ latest'[w] = latest[w]
          /\ current'[w] = current[w]
      BY <1>1, <2>2 DEF TypeOK, Finish
    <3> QED
      BY <1>1, <3>1, OthersKeep
  <2> QED
    BY <2>1, <2>2
<1>5. newestFirst' \in BOOLEAN
  BY <1>1 DEF TypeOK
<1> QED
  BY <1>2, <1>4, <1>5 DEF IInv, TypeOK

LEMMA ReadPageKeeps ==
    ASSUME IInv, NEW u \in Users, ReadPage(u)
    PROVE  IInv'
<1> DEFINE L == Len(versions)
           p == page[u]
           m == Larger(latest[u], OnPage(p))
<1>1. /\ TypeOK /\ L \in Nat \ {0} /\ latest[u] \in 0 .. L /\ current[u] \in 1 .. L
      /\ p \in Nat \ {0} /\ p <= TotalPages /\ p <= MaxPages /\ phase[u] = "reading"
      /\ newestFirst \in BOOLEAN
  BY DEF IInv, TypeOK, Reading, ReadPage
<1>2. OnPage(p) \in SUBSET (0 .. L)
  BY <1>1, PageOf
<1>3. m \in 0 .. L /\ m >= latest[u] /\ \A k \in OnPage(p) : k <= m
  BY <1>1, <1>2, LargerIs
<1>4. ASSUME newestFirst
      PROVE  m >= current[u]
  <2>1. CASE p = 1
    <3>1. L \in OnPage(p)
      BY <1>1, <1>4, <2>1, PageOf
    <3> QED
      BY <1>1, <1>3, <3>1
  <2>2. CASE p # 1
    BY <1>1, <1>3, <1>4, <2>2 DEF IInv, Reading
  <2> QED
    BY <2>1, <2>2
<1>5. /\ p * PageSize \in Nat /\ (p - 1) * PageSize \in Nat
      /\ p * PageSize = (p - 1) * PageSize + PageSize
  BY <1>1, SizesAssumption, SMTT(30)
<1>6. ASSUME ~newestFirst
      PROVE  \/ m >= current[u]
             \/ m >= p * PageSize /\ p < TotalPages /\ OnPage(p) # {}
  <2>1. CASE latest[u] >= current[u]
    BY <1>1, <1>3, <2>1
  <2>2. CASE latest[u] >= (p - 1) * PageSize /\ L <= (p - 1) * PageSize
    BY <1>1, <1>3, <1>5, <2>2
  <2>3. CASE (p - 1) * PageSize < L /\ L <= p * PageSize
    <3>1. L \in OnPage(p)
      BY <1>1, <1>6, <2>3, PageOf
    <3> QED
      BY <1>1, <1>3, <3>1
  <2>4. CASE p * PageSize < L
    <3>1. p * PageSize \in 1 .. L /\ (p - 1) * PageSize < p * PageSize
      BY <1>1, <1>5, <2>4, SizesAssumption
    <3>2. p * PageSize \in OnPage(p)
      BY <1>1, <1>5, <1>6, <3>1, PageOf
    <3>3. p # TotalPages
      BY <1>1, <1>5, <2>4, PagesSuffice
    <3> QED
      BY <1>1, <1>3, <1>5, <3>2, <3>3, PagesSuffice
  <2>5. latest[u] >= current[u] \/ latest[u] >= (p - 1) * PageSize
    BY <1>1, <1>6 DEF IInv, Reading
  <2> QED
    BY <1>1, <1>5, <2>1, <2>2, <2>3, <2>4, <2>5
<1>7. /\ latest' = [latest EXCEPT ![u] = m]
      /\ UNCHANGED <<versions, newestFirst, current>>
  BY DEF ReadPage
<1>8. /\ latest' \in [Users -> Nat] /\ current' \in [Users -> Nat]
      /\ page' \in [Users -> Nat] /\ phase' \in [Users -> {"idle", "reading", "ready"}]
  <2>1. m \in Nat
    BY <1>1, <1>3
  <2>2. latest' \in [Users -> Nat] /\ current' \in [Users -> Nat]
    BY <1>1, <1>7, <2>1 DEF TypeOK
  <2>3. \/ phase' = [phase EXCEPT ![u] = "ready"] /\ page' = page
        \/ page' = [page EXCEPT ![u] = page[u] + 1] /\ phase' = phase
    BY DEF ReadPage
  <2>4. page[u] + 1 \in Nat
    BY <1>1
  <2>5. page' \in [Users -> Nat] /\ phase' \in [Users -> {"idle", "reading", "ready"}]
    BY <1>1, <2>3, <2>4 DEF TypeOK
  <2> QED
    BY <2>2, <2>5
<1>9. TotalPages' = TotalPages /\ L' = L /\ TotalPages \in Nat
  BY <1>1, <1>7, PagesSuffice DEF TotalPages
<1>10. /\ page'[u] <= TotalPages' /\ page'[u] <= MaxPages /\ latest'[u] <= L' /\ current'[u] <= L'
       /\ phase'[u] = "ready" => latest'[u] > 0
       /\ Reading(u)' /\ Ready(u)'
  <2>1. latest'[u] = m /\ current'[u] = current[u] /\ newestFirst' = newestFirst
    BY <1>1, <1>7 DEF TypeOK
  <2>2. CASE p >= TotalPages \/ OnPage(p) = {}
    <3>1. phase'[u] = "ready" /\ page'[u] = p
      BY <1>1, <2>2 DEF TypeOK, ReadPage
    <3>2. m >= current[u]
      BY <1>1, <1>4, <1>6, <1>9, <2>2
    <3> QED
      BY <1>1, <1>3, <1>9, <2>1, <3>1, <3>2 DEF Reading, Ready
  <2>4. CASE p = MaxPages
    <3>1. phase'[u] = "ready" /\ page'[u] = p
      BY <1>1, <2>4 DEF TypeOK, ReadPage
    <3>2. /\ m >= current[u] \/ (~newestFirst /\ m >= MaxPages * PageSize)
          /\ m > 0
      BY <1>1, <1>3, <1>4, <1>5, <1>6, <2>4, SizesAssumption
    <3> QED
      BY <1>1, <1>3, <1>9, <2>1, <3>1, <3>2 DEF Reading, Ready
  <2>3. CASE ~(p >= TotalPages \/ OnPage(p) = {} \/ p = MaxPages)
    <3>1. phase'[u] = "reading" /\ page'[u] = p + 1
      BY <1>1, <2>3 DEF TypeOK, ReadPage
    <3>2. page'[u] <= TotalPages' /\ page'[u] <= MaxPages /\ page'[u] >= 1 /\ page'[u] - 1 = p
      BY <1>1, <1>9, <2>3, <3>1, SizesAssumption
    <3>3. newestFirst => latest'[u] >= current'[u]
      BY <1>4, <2>1
    <3>4. ~newestFirst => latest'[u] >= p * PageSize \/ latest'[u] >= current'[u]
      BY <1>6, <2>1
    <3>5. Reading(u)'
      BY <1>1, <2>1, <3>2, <3>3, <3>4 DEF Reading
    <3> QED
      BY <1>1, <1>3, <1>9, <2>1, <3>1, <3>2, <3>5 DEF Ready
  <2> QED
    BY <2>2, <2>3, <2>4
<1>11. ASSUME NEW w \in Users, w # u
       PROVE  /\ page'[w] <= TotalPages' /\ page'[w] <= MaxPages /\ latest'[w] <= L' /\ current'[w] <= L'
              /\ phase'[w] = "ready" => latest'[w] > 0
              /\ Reading(w)' /\ Ready(w)'
  <2>1. /\ phase'[w] = phase[w] /\ page'[w] = page[w] /\ latest'[w] = latest[w]
        /\ current'[w] = current[w]
    BY <1>1, <1>11 DEF TypeOK, ReadPage
  <2> QED
    BY <1>1, <1>7, <2>1, OthersKeep
<1>12. versions' \in Seq(Specs) /\ Len(versions') \in 1 .. MaxVersions /\ newestFirst' \in BOOLEAN
  BY <1>1, <1>7 DEF TypeOK
<1> QED
  BY <1>8, <1>10, <1>11, <1>12 DEF IInv, TypeOK

LEMMA StartReadingKeeps ==
    ASSUME IInv, NEW u \in Users, StartReading(u)
    PROVE  IInv'
<1>1. /\ TypeOK /\ Len(versions) \in Nat \ {0}
      /\ UNCHANGED <<versions, newestFirst, latest>>
  BY DEF IInv, TypeOK, StartReading
<1>2. /\ current' \in [Users -> Nat] /\ page' \in [Users -> Nat] /\ latest' \in [Users -> Nat]
      /\ phase' \in [Users -> {"idle", "reading", "ready"}]
  BY <1>1 DEF TypeOK, StartReading
<1>3. TotalPages' = TotalPages /\ TotalPages \in Nat \ {0}
  BY <1>1, PagesSuffice DEF TotalPages
<1>4. ASSUME NEW w \in Users
      PROVE  /\ page'[w] <= TotalPages' /\ page'[w] <= MaxPages /\ latest'[w] <= Len(versions')
             /\ current'[w] <= Len(versions')
             /\ phase'[w] = "ready" => latest'[w] > 0
             /\ Reading(w)' /\ Ready(w)'
  <2>1. CASE w = u
    <3>1. /\ phase'[u] = "reading" /\ page'[u] = 1 /\ current'[u] = Len(versions)
          /\ latest'[u] = latest[u] /\ latest[u] \in 0 .. Len(versions)
      BY <1>1 DEF TypeOK, StartReading
    <3>2. (1 - 1) * PageSize = 0
      BY SizesAssumption, SMTT(30)
    <3> QED
      BY <1>1, <1>3, SizesAssumption, <2>1, <3>1, <3>2 DEF Reading, Ready
  <2>2. CASE w # u
    <3>1. /\ phase'[w] = phase[w] /\ page'[w] = page[w] /\ latest'[w] = latest[w]
          /\ current'[w] = current[w]
      BY <1>1, <2>2 DEF TypeOK, StartReading
    <3> QED
      BY <1>1, <3>1, OthersKeep
  <2> QED
    BY <2>1, <2>2
<1>5. versions' \in Seq(Specs) /\ Len(versions') \in 1 .. MaxVersions /\ newestFirst' \in BOOLEAN
  BY <1>1 DEF TypeOK
<1> QED
  BY <1>2, <1>4, <1>5 DEF IInv, TypeOK

-------------------------------------------------------------------------------
(* A new version.                                                          *)
Sendable == [network : Networks, inbound : Modes \cup {"none"}, image : Images]

Added == /\ versions' \in Seq(Specs)
         /\ Len(versions') = Len(versions) + 1
         /\ Len(versions') \in 1 .. MaxVersions

LEMMA ReplaceAdds ==
    ASSUME TypeOK, NEW s \in Sendable, Replace(s)
    PROVE  /\ Added
           /\ New.network = s.network /\ New.image = s.image
           /\ s.inbound # "none" \/ s.network = "VPC" => New.inbound = s.inbound
<1> DEFINE t == IF s.network = "PUBLIC" /\ s.inbound = "none" THEN [s EXCEPT !.inbound = "NONE"]
                ELSE s
<1>1. versions \in Seq(Specs) /\ Len(versions) \in Nat /\ Len(versions) < MaxVersions
  BY DEF TypeOK, Replace
<1>2. t \in Sendable /\ t.network = s.network /\ t.image = s.image
  BY DEF Sendable, Modes
<1>3. t.network = "VPC" <=> t.inbound = "none"
  BY DEF Replace, Sendable, Networks
<1>4. t \in Specs
  BY <1>2, <1>3 DEF Specs, Sendable
<1>5. versions' = Append(versions, t)
  BY DEF Replace
<1>6. Added /\ New = t
  BY <1>1, <1>4, <1>5, SizesAssumption DEF Added, New
<1>7. s.inbound # "none" \/ s.network = "VPC" => t.inbound = s.inbound
  OBVIOUS
<1> QED
  BY <1>2, <1>6, <1>7

LEMMA ReadVersion ==
    ASSUME IInv, NEW u \in Users, phase[u] = "ready"
    PROVE  versions[latest[u]] \in Specs /\ latest[u] \in 1 .. Len(versions)
BY DEF IInv, TypeOK

LEMMA FlagsMake ==
    ASSUME IInv, NEW u \in Users, NEW flags \in Flags, UpdateFromFlags(u, flags),
           NEW cur, cur = versions[latest[u]],
           NEW network, network = IF flags.network = "unset" THEN cur.network ELSE flags.network
    PROVE  /\ Added /\ Finish(u) /\ UNCHANGED newestFirst
           /\ cur \in Specs /\ New.network = network
           /\ network = "VPC" => flags.inbound = "unset"
           /\ New.inbound = InboundAuth(flags.inbound, network, cur)
           /\ New.image \in ImageAuth(flags, cur)
<1>1. cur \in Specs /\ TypeOK
  BY ReadVersion DEF IInv, UpdateFromFlags
<1>2. PICK image \in ImageAuth(flags, cur) :
          Replace(Spec0(network, InboundAuth(flags.inbound, network, cur), image))
  BY DEF UpdateFromFlags
<1> DEFINE s == Spec0(network, InboundAuth(flags.inbound, network, cur), image)
<1>3. network \in Networks /\ (network = "VPC" => flags.inbound = "unset")
  BY <1>1 DEF UpdateFromFlags, Flags, Specs
<1>4. image \in Images
  BY <1>1, <1>2 DEF ImageAuth, Flags, Specs, Images
<1>5. /\ InboundAuth(flags.inbound, network, cur) \in Modes \cup {"none"}
      /\ InboundAuth(flags.inbound, network, cur) = "none" => network = "VPC"
  BY <1>1, <1>3 DEF InboundAuth, Flags, Specs, Modes
<1>6. s \in Sendable
  BY <1>3, <1>4, <1>5 DEF Sendable, Spec0
<1>7. /\ Added /\ New.network = s.network /\ New.image = s.image
      /\ s.inbound # "none" \/ s.network = "VPC" => New.inbound = s.inbound
  BY <1>1, <1>2, <1>6, ReplaceAdds
<1>8. /\ s.network = network /\ s.image = image
      /\ s.inbound = InboundAuth(flags.inbound, network, cur)
  BY DEF Spec0
<1>9. Finish(u) /\ UNCHANGED newestFirst
  BY DEF UpdateFromFlags
<1> QED
  BY <1>1, <1>2, <1>3, <1>5, <1>7, <1>8, <1>9

LEMMA FileMakes ==
    ASSUME IInv, NEW u \in Users, NEW file \in Files, UpdateFromFile(u, file)
    PROVE  /\ Added /\ Finish(u) /\ UNCHANGED newestFirst
           /\ New.inbound = "NONE" =>
                \/ file.inbound = "NONE"
                \/ latest[u] > 0 /\ versions[latest[u]].inbound = "NONE"
<1>1. TypeOK /\ Finish(u) /\ UNCHANGED newestFirst
  BY DEF IInv, UpdateFromFile
<1>2. CASE Replace(Spec0(file.network, IF file.network = "VPC" THEN "none" ELSE file.inbound,
                         file.image))
           /\ (file.inbound # "unset" \/ file.network = "VPC")
  <2> DEFINE s == Spec0(file.network, IF file.network = "VPC" THEN "none" ELSE file.inbound,
                        file.image)
  <2>1. s \in Sendable /\ (s.inbound = "none" => s.network = "VPC")
    BY <1>2 DEF Files, Sendable, Spec0, Modes
  <2>2. Added /\ New.inbound = s.inbound
    BY <1>1, <1>2, <2>1, ReplaceAdds
  <2>3. s.inbound = "NONE" => file.inbound = "NONE"
    BY DEF Spec0
  <2> QED
    BY <1>1, <2>2, <2>3
<1>3. CASE /\ file.inbound = "unset" /\ phase[u] = "ready"
           /\ Replace(Spec0("PUBLIC", InboundAuth("unset", "PUBLIC", versions[latest[u]]),
                            file.image))
  <2> DEFINE cur == versions[latest[u]]
             s   == Spec0("PUBLIC", InboundAuth("unset", "PUBLIC", cur), file.image)
  <2>1. cur \in Specs /\ latest[u] > 0
    BY <1>3, ReadVersion
  <2>2. s.inbound \in Modes /\ (s.inbound = "NONE" => cur.inbound = "NONE")
    BY <2>1 DEF Spec0, InboundAuth, Specs, Modes
  <2>3. s \in Sendable /\ s.inbound # "none"
    BY <2>2 DEF Files, Sendable, Spec0, Modes, Networks
  <2>4. Added /\ New.inbound = s.inbound
    BY <1>1, <1>3, <2>3, ReplaceAdds
  <2> QED
    BY <1>1, <2>1, <2>2, <2>4
<1> QED
  BY <1>2, <1>3 DEF UpdateFromFile

-------------------------------------------------------------------------------
LEMMA NextIInv == IInv /\ [Next]_vars => IInv'
<1> SUFFICES ASSUME IInv, [Next]_vars PROVE IInv'
  OBVIOUS
<1>1. ASSUME NEW u \in Users, StartReading(u) PROVE IInv'
  BY <1>1, StartReadingKeeps
<1>2. ASSUME NEW u \in Users, ReadPage(u) PROVE IInv'
  BY <1>2, ReadPageKeeps
<1>3. ASSUME NEW u \in Users, Fail(u) PROVE IInv'
  <2>1. versions \in Seq(Specs) /\ Len(versions) \in 1 .. MaxVersions
    BY DEF IInv, TypeOK
  <2>2. Finish(u) /\ UNCHANGED <<versions, newestFirst>>
    BY <1>3 DEF Fail
  <2> QED
    BY <2>1, <2>2, FinishKeeps
<1>4. ASSUME NEW u \in Users, Added, Finish(u), UNCHANGED newestFirst PROVE IInv'
  <2>1. Len(versions) \in Nat
    BY DEF IInv, TypeOK
  <2> QED
    BY <1>4, <2>1, FinishKeeps DEF Added
<1>5. ASSUME NEW u \in Users, NEW flags \in Flags, UpdateFromFlags(u, flags) PROVE IInv'
  BY <1>4, <1>5, FlagsMake
<1>6. ASSUME NEW u \in Users, NEW file \in Files, UpdateFromFile(u, file) PROVE IInv'
  BY <1>4, <1>6, FileMakes
<1>7. ASSUME UNCHANGED vars PROVE IInv'
  BY <1>7 DEF vars, updates, IInv, TypeOK, TotalPages, Reading, Ready
<1> QED
  BY <1>1, <1>2, <1>3, <1>5, <1>6, <1>7 DEF Next

LEMMA AlwaysIInv == Spec => []IInv
BY InitIInv, NextIInv, PTL DEF Spec

(* The list of versions, its pages and what has been read of them stay well*)
(* formed; a read never runs past the last page.                           *)
THEOREM TypeCorrect == Spec => []TypeOK
<1>1. IInv => TypeOK
  BY DEF IInv
<1> QED
  BY <1>1, AlwaysIInv, PTL

(* latestVersion ends on a version no older than the newest one when it    *)
(* began, however the API orders its list and whatever is added meanwhile; *)
(* or, when the oldest come first and fill MaxPages pages, on one no older *)
(* than the last of these.                                                 *)
THEOREM AlwaysLatest == Spec => []ReadsTheLatest
<1>1. IInv => ReadsTheLatest
  BY DEF IInv, Ready, ReadsTheLatest
<1> QED
  BY <1>1, AlwaysIInv, PTL

(* A version that lets everybody in was asked for, or its base did already.*)
THEOREM NeverOpenedSilently == Spec => OpenedOnPurpose
<1> DEFINE Kept ==
      versions' # versions /\ New.inbound = "NONE" => \A u \in Users :
        /\ \A flags \in Flags : ByFlags(u, flags) =>
            flags.inbound = "NONE" \/ versions[latest[u]].inbound = "NONE"
        /\ \A file \in Files : ByFile(u, file) =>
            file.inbound = "NONE" \/ (latest[u] > 0 /\ versions[latest[u]].inbound = "NONE")
<1>1. IInv /\ [Next]_vars => [Kept]_vars
  <2> SUFFICES ASSUME IInv, New.inbound = "NONE", NEW u \in Users
               PROVE  /\ \A flags \in Flags : ByFlags(u, flags) =>
                          flags.inbound = "NONE" \/ versions[latest[u]].inbound = "NONE"
                      /\ \A file \in Files : ByFile(u, file) =>
                          \/ file.inbound = "NONE"
                          \/ latest[u] > 0 /\ versions[latest[u]].inbound = "NONE"
    OBVIOUS
  <2>1. ASSUME NEW flags \in Flags, ByFlags(u, flags)
        PROVE  flags.inbound = "NONE" \/ versions[latest[u]].inbound = "NONE"
    <3> DEFINE cur == versions[latest[u]]
               network == IF flags.network = "unset" THEN cur.network ELSE flags.network
    <3>1. New.inbound = InboundAuth(flags.inbound, network, cur)
      BY <2>1, FlagsMake DEF ByFlags
    <3> QED
      BY <3>1 DEF InboundAuth
  <2>2. ASSUME NEW file \in Files, ByFile(u, file)
        PROVE  file.inbound = "NONE" \/ (latest[u] > 0 /\ versions[latest[u]].inbound = "NONE")
    BY <2>2, FileMakes DEF ByFile
  <2> QED
    BY <2>1, <2>2
<1> QED
  BY <1>1, AlwaysIInv, PTL DEF Spec, OpenedOnPurpose

(* Unless another version was made since the read, a field whose flags are *)
(* left unset keeps its value.                                             *)
THEOREM AlwaysCarriedOver == Spec => CarriedOver
<1> DEFINE Kept ==
      \A u \in Users : versions' # versions /\ latest[u] = Len(versions) =>
        \A flags \in Flags : ByFlags(u, flags) =>
            /\ flags.network = "unset" => New.network = Old.network
            /\ flags.image = "unset" => New.image = Old.image
            /\ flags.inbound = "unset" /\ New.network = Old.network => New.inbound = Old.inbound
<1>1. IInv /\ [Next]_vars => [Kept]_vars
  <2> SUFFICES ASSUME IInv, NEW u \in Users, latest[u] = Len(versions),
                      NEW flags \in Flags, ByFlags(u, flags)
               PROVE  /\ flags.network = "unset" => New.network = Old.network
                      /\ flags.image = "unset" => New.image = Old.image
                      /\ flags.inbound = "unset" /\ New.network = Old.network =>
                            New.inbound = Old.inbound
    OBVIOUS
  <2> DEFINE cur == versions[latest[u]]
             network == IF flags.network = "unset" THEN cur.network ELSE flags.network
  <2>1. cur = Old
    BY DEF Old
  <2>2. /\ cur \in Specs /\ New.network = network
        /\ New.inbound = InboundAuth(flags.inbound, network, cur)
        /\ New.image \in ImageAuth(flags, cur)
    BY FlagsMake DEF ByFlags
  <2>3. flags.image = "unset" => New.image = Old.image
    BY <2>1, <2>2 DEF ImageAuth
  <2>4. flags.inbound = "unset" /\ New.network = Old.network => New.inbound = Old.inbound
    BY <2>1, <2>2 DEF InboundAuth, Specs, Networks
  <2> QED
    BY <2>1, <2>2, <2>3, <2>4
<1> QED
  BY <1>1, AlwaysIInv, PTL DEF Spec, CarriedOver
===============================================================================

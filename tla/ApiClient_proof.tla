---------------------------- MODULE ApiClient_proof ----------------------------
(***************************************************************************)
(* The HTTP clients.  For any number of calls and tokens: what a call      *)
(* returns is so, and it has applied its operation at most once per        *)
(* attempt.  For lists and pages of any length: what a paged read returns  *)
(* is the list.                                                            *)
(***************************************************************************)
EXTENDS ApiClient, Pages, FiniteSetTheorems, TLAPS

(* The token in flight is the cached one; after a refresh it is newer than *)
(* the one that the call began with.                                       *)
Tokens ==
    /\ pc \in {"flight", "answered"} => sent = token
    /\ minted <= token
    /\ resend => pc # "token" /\ token > minted

(* An answer was given for a reason.                                       *)
Answered ==
    pc = "answered" =>
        /\ answer = "2xx" => effects > 0
        /\ answer = "cut" /\ client = "greennode" => effects > 0
        /\ answer = "401" => sent <= revoked

(* A request that is still to be answered, and one that was refused as     *)
(* unauthorized, has not been applied in this attempt.                     *)
Counted ==
    /\ effects <= attempt + 1
    /\ pc \in {"token", "send", "flight"} => effects <= attempt
    /\ pc = "answered" /\ answer = "401" => effects <= attempt

(* Nothing is reported before the end.                                     *)
Silent == outcome # "none" => pc = "done"

IInv == TypeOK /\ Tokens /\ Answered /\ Counted /\ Silent /\ OutcomeIsTrue

Labels ==
    /\ client \in Clients
    /\ pc \in {"token", "send", "flight", "answered", "done"}
    /\ resend \in BOOLEAN /\ answer \in Answers /\ outcome \in Outcomes

Numbers ==
    /\ calls \in 0 .. MaxCalls - 1
    /\ attempt \in 0 .. MaxRetries
    /\ token \in 0 .. MaxTokens /\ minted \in 0 .. MaxTokens /\ sent \in 0 .. token
    /\ revoked \in 0 .. token /\ effects \in Nat

LEMMA TypeSplit == TypeOK <=> Labels /\ Numbers
  BY DEF TypeOK, Labels, Numbers

LEMMA RetriesAreNumbers == MaxRetries \in Nat
  BY DEF MaxRetries

(* What Conclude may return, from which answer.                            *)
LEMMA Verdicts ==
    ASSUME answer \in Answers
    PROVE  /\ Verdict \in {"ok", "transport", "401", "4xx", "5xx"}
           /\ Verdict = "ok" => answer = "2xx" \/ (answer = "cut" /\ client = "greennode")
           /\ Verdict = "401" => answer = "401"
<1>1. CASE answer = "2xx"
  BY <1>1 DEF Verdict
<1>2. CASE answer = "cut"
  BY <1>2 DEF Verdict
<1>3. CASE answer = "lost"
  BY <1>3 DEF Verdict
<1>4. CASE answer \in {"401", "4xx", "5xx"}
  BY <1>4 DEF Verdict
<1> QED BY <1>1, <1>2, <1>3, <1>4 DEF Answers

LEMMA InitIInv == Init => IInv
<1> SUFFICES ASSUME Init PROVE IInv
  OBVIOUS
<1>1. Labels
  BY DEF Init, Labels, Answers, Outcomes
<1>2. Numbers
  BY BoundsAssumption, RetriesAreNumbers DEF Init, Numbers
<1>3. Tokens /\ Answered /\ Counted /\ Silent /\ OutcomeIsTrue
  BY DEF Init, Tokens, Answered, Counted, Silent, OutcomeIsTrue, OkWasApplied, UnauthorizedIsFinal
<1> QED BY <1>1, <1>2, <1>3, TypeSplit DEF IInv

LEMMA NextTypeOK == TypeOK /\ [Next]_vars => TypeOK'
<1> SUFFICES ASSUME TypeOK, [Next]_vars PROVE Labels' /\ Numbers'
  BY DEF TypeOK, Labels, Numbers
<1> USE BoundsAssumption, RetriesAreNumbers, TypeSplit DEF callVars
<1>1. Labels /\ Numbers /\ MaxRetries' = MaxRetries
  BY DEF Next, Step, vars, GetToken, Send, Apply, Reject, RefreshAndResend, Retry, Conclude, Revoke,
         NextCall, Exited, MaxRetries
<1>2. ASSUME GetToken PROVE Labels' /\ Numbers'
  <2>1. Labels'
    BY <1>1, <1>2 DEF GetToken, Mint, Finish, Labels, Answers, Outcomes
  <2>2. Numbers'
    BY <1>1, <1>2 DEF GetToken, Mint, Finish, Numbers
  <2> QED BY <2>1, <2>2
<1>3. ASSUME Send PROVE Labels' /\ Numbers'
  <2>1. Labels'
    BY <1>1, <1>3 DEF Send, Labels, Answers, Outcomes
  <2>2. Numbers'
    BY <1>1, <1>3 DEF Send, Numbers
  <2> QED BY <2>1, <2>2
<1>4. ASSUME Apply PROVE Labels' /\ Numbers'
  <2>1. Labels'
    BY <1>1, <1>4 DEF Apply, Answer, Labels, Answers, Outcomes
  <2>2. Numbers'
    BY <1>1, <1>4 DEF Apply, Answer, Numbers
  <2> QED BY <2>1, <2>2
<1>5. ASSUME Reject PROVE Labels' /\ Numbers'
  <2>1. Labels'
    BY <1>1, <1>5 DEF Reject, Answer, Labels, Answers, Outcomes
  <2>2. Numbers'
    BY <1>1, <1>5 DEF Reject, Answer, Numbers
  <2> QED BY <2>1, <2>2
<1>6. ASSUME RefreshAndResend PROVE Labels' /\ Numbers'
  <2>1. Labels'
    BY <1>1, <1>6 DEF RefreshAndResend, Mint, Finish, Labels, Answers, Outcomes
  <2>2. Numbers'
    BY <1>1, <1>6 DEF RefreshAndResend, Mint, Finish, Numbers
  <2> QED BY <2>1, <2>2
<1>7. ASSUME Retry PROVE Labels' /\ Numbers'
  <2>1. Labels'
    BY <1>1, <1>7 DEF Retry, Labels, Answers, Outcomes
  <2>2. Numbers'
    BY <1>1, <1>7 DEF Retry, Numbers
  <2> QED BY <2>1, <2>2
<1>8. ASSUME Conclude PROVE Labels' /\ Numbers'
  <2>1. Labels'
    BY <1>1, <1>8, Verdicts DEF Conclude, Finish, Labels, Answers, Outcomes
  <2>2. Numbers'
    BY <1>1, <1>8 DEF Conclude, Finish, Numbers
  <2> QED BY <2>1, <2>2
<1>9. ASSUME Revoke PROVE Labels' /\ Numbers'
  <2>1. Labels'
    BY <1>1, <1>9 DEF Revoke, Labels, Answers, Outcomes
  <2>2. Numbers'
    BY <1>1, <1>9 DEF Revoke, Numbers
  <2> QED BY <2>1, <2>2
<1>10. ASSUME NextCall PROVE Labels' /\ Numbers'
  <2>1. Labels'
    BY <1>1, <1>10 DEF NextCall, Labels, Answers, Outcomes
  <2>2. Numbers'
    BY <1>1, <1>10 DEF NextCall, Numbers
  <2> QED BY <2>1, <2>2
<1>11. CASE UNCHANGED vars
  BY <1>1, <1>11 DEF vars, Labels, Numbers
<1> QED
  BY <1>2, <1>3, <1>4, <1>5, <1>6, <1>7, <1>8, <1>9, <1>10, <1>11 DEF Next, Step, Exited

LEMMA NextIInv == IInv /\ [Next]_vars => IInv'
<1> SUFFICES ASSUME IInv, [Next]_vars PROVE IInv'
  OBVIOUS
<1>1. Labels /\ Numbers /\ TypeOK'
  BY NextTypeOK, TypeSplit DEF IInv
<1> USE DEF Tokens, Answered, Counted, Silent, OutcomeIsTrue, OkWasApplied, UnauthorizedIsFinal, callVars
<1> DEFINE Rest == Tokens /\ Answered /\ Counted /\ Silent /\ OutcomeIsTrue
<1>2. ASSUME GetToken PROVE Rest'
  BY <1>1, <1>2 DEF IInv, Labels, Numbers, GetToken, Mint, Finish
<1>3. ASSUME Send PROVE Rest'
  BY <1>1, <1>3 DEF IInv, Labels, Numbers, Send
<1>4. ASSUME Apply PROVE Rest'
  BY <1>1, <1>4 DEF IInv, Labels, Numbers, Apply, Answer
<1>5. ASSUME Reject PROVE Rest'
  BY <1>1, <1>5 DEF IInv, Labels, Numbers, Reject, Answer
<1>6. ASSUME RefreshAndResend PROVE Rest'
  BY <1>1, <1>6 DEF IInv, Labels, Numbers, RefreshAndResend, Mint, Finish
<1>7. ASSUME Retry PROVE Rest'
  BY <1>1, <1>7 DEF IInv, Labels, Numbers, Retry, Retryable
<1>8. ASSUME Conclude PROVE Rest'
  BY <1>1, <1>8, Verdicts DEF IInv, Labels, Numbers, Conclude, Finish
<1>9. ASSUME Revoke PROVE Rest'
  BY <1>1, <1>9 DEF IInv, Labels, Numbers, Revoke
<1>10. ASSUME NextCall PROVE Rest'
  BY <1>1, <1>10 DEF IInv, Labels, Numbers, NextCall
<1>11. CASE UNCHANGED vars
  BY <1>1, <1>11 DEF IInv, vars
<1> QED
  BY <1>1, <1>2, <1>3, <1>4, <1>5, <1>6, <1>7, <1>8, <1>9, <1>10, <1>11 DEF Next, Step, Exited, IInv

LEMMA AlwaysIInv == Spec => []IInv
  BY InitIInv, NextIInv, PTL DEF Spec

(* The state of a call is what TypeOK says; no attempt beyond MaxRetries.  *)
THEOREM TypeCorrect == Spec => []TypeOK
<1>1. IInv => TypeOK
  BY DEF IInv
<1> QED BY <1>1, AlwaysIInv, PTL

(* requestRaw and doReq: a success was applied by the API, and a 401 is    *)
(* returned only when a token minted after the first refusal was refused.  *)
THEOREM OutcomesAreTrue == Spec => []OutcomeIsTrue
<1>1. IInv => OutcomeIsTrue
  BY DEF IInv
<1> QED BY <1>1, AlwaysIInv, PTL

(* The resend after a 401 never doubles an operation, only a retry may; and *)
(* the agentbase client, which has none, applies it at most once.           *)
THEOREM AppliedOnce == Spec => []AppliesOncePerAttempt
<1>1. IInv => AppliesOncePerAttempt
  BY ClientsAssumption DEF IInv, Counted, TypeOK, MaxRetries, AppliesOncePerAttempt
<1> QED BY <1>1, AlwaysIInv, PTL

-------------------------------------------------------------------------------
(* Arithmetic of pages.                                                    *)
LEMMA TimesMonotone ==
    ASSUME NEW p \in Nat, NEW q \in Nat, NEW c \in Nat, p <= q
    PROVE  p * c \in Nat /\ p * c <= q * c
<1> DEFINE d == q - p
<1>1. d \in Nat /\ q = p + d
  OBVIOUS
<1>2. q * c = p * c + d * c
  BY <1>1, SMTT(30)
<1>3. d * c \in Nat /\ p * c \in Nat /\ q * c \in Nat
  BY <1>1, SMTT(30)
<1> QED BY <1>2, <1>3

LEMMA NextPage ==
    ASSUME NEW p \in Nat PROVE p * PageSize \in Nat /\ (p + 1) * PageSize = p * PageSize + PageSize
BY PageSizeAssumption, SMTT(30)

PagesOf(n) == (n + PageSize - 1) \div PageSize

LEMMA PagesHold ==
    ASSUME NEW n \in Nat
    PROVE  /\ PagesOf(n) \in Nat
           /\ n <= PagesOf(n) * PageSize
           /\ PagesOf(n) * PageSize <= n + PageSize - 1
<1> DEFINE a == n + PageSize - 1
           t == PagesOf(n)
<1>1. a \in Nat /\ PageSize \in Nat \ {0}
  BY PageSizeAssumption
<1>2. t \in Nat /\ t * PageSize <= a /\ a < t * PageSize + PageSize
  BY <1>1, SMTT(30) DEF PagesOf
<1>3. t * PageSize \in Nat
  BY <1>1, <1>2, SMTT(30)
<1> QED BY <1>1, <1>2, <1>3

LEMMA PageExists ==
    ASSUME NEW n \in Nat, NEW p \in Nat, p * PageSize < n PROVE p + 1 <= PagesOf(n)
<1>1. PagesOf(n) \in Nat /\ n <= PagesOf(n) * PageSize
  BY PagesHold
<1>2. ASSUME PagesOf(n) <= p PROVE FALSE
  <2>1. PagesOf(n) * PageSize \in Nat /\ PagesOf(n) * PageSize <= p * PageSize /\ p * PageSize \in Nat
    BY <1>1, <1>2, TimesMonotone, NextPage, PageSizeAssumption
  <2> QED BY <1>1, <2>1
<1> QED BY <1>1, <1>2

LEMMA BeforeLastPage ==
    ASSUME NEW n \in Nat, NEW p \in Nat, p < PagesOf(n) PROVE p * PageSize < n
<1>1. PagesOf(n) \in Nat /\ PagesOf(n) * PageSize <= n + PageSize - 1
  BY PagesHold
<1>2. (p + 1) * PageSize <= PagesOf(n) * PageSize /\ PagesOf(n) * PageSize \in Nat
  BY <1>1, TimesMonotone, PageSizeAssumption
<1>3. p * PageSize \in Nat /\ (p + 1) * PageSize = p * PageSize + PageSize
  BY NextPage
<1> QED BY <1>1, <1>2, <1>3, PageSizeAssumption

(* Lists: finite sequences of items without repetition.                    *)
LEMMA ListsAre ==
    ASSUME IsFiniteSet(Items), NEW s
    PROVE  s \in Lists <=> s \in Seq(Items) /\ Distinct(s)
<1>0. Cardinality(Items) \in Nat
  BY FS_CardinalityType
<1>1. ASSUME s \in Lists PROVE s \in Seq(Items) /\ Distinct(s)
  <2>1. PICK m \in 0 .. Cardinality(Items) : s \in [1 .. m -> Items]
    BY <1>1 DEF Lists, SeqOf
  <2> QED BY <1>0, <1>1, <2>1 DEF Lists
<1>2. ASSUME s \in Seq(Items), Distinct(s) PROVE s \in Lists
  <2>1. Len(s) \in Nat /\ s \in [1 .. Len(s) -> Items]
    BY <1>2
  <2>2. s \in Injection(1 .. Len(s), Items)
    BY <1>2, <2>1 DEF Injection, Distinct
  <2>3. Cardinality(1 .. Len(s)) <= Cardinality(Items)
    BY <2>2, FS_Injection
  <2>4. Cardinality(1 .. Len(s)) = Len(s)
    BY <2>1, FS_Interval
  <2>5. Len(s) \in 0 .. Cardinality(Items)
    BY <1>0, <2>1, <2>3, <2>4
  <2> QED BY <1>2, <2>1, <2>5 DEF Lists, SeqOf
<1> QED BY <1>1, <1>2

LEMMA ListLength ==
    ASSUME IsFiniteSet(Items), NEW s \in Lists
    PROVE  Cardinality(Items) \in Nat /\ Len(s) \in 0 .. Cardinality(Items)
<1>0. Cardinality(Items) \in Nat
  BY FS_CardinalityType
<1>1. PICK m \in 0 .. Cardinality(Items) : s \in [1 .. m -> Items]
  BY DEF Lists, SeqOf
<1>2. Len(s) = m
  BY <1>0, <1>1
<1> QED BY <1>0, <1>1, <1>2

LEMMA ConcatIs ==
    ASSUME NEW a \in Seq(Items), NEW b \in Seq(Items)
    PROVE  /\ a \o b \in Seq(Items) /\ Len(a \o b) = Len(a) + Len(b)
           /\ \A k \in 1 .. Len(a) : (a \o b)[k] = a[k]
           /\ \A k \in 1 .. Len(b) : (a \o b)[Len(a) + k] = b[k]
  OBVIOUS

LEMMA InsertIs ==
    ASSUME NEW s \in Seq(Items), Distinct(s), NEW x \in Items \ ToSet(s), NEW at \in 1 .. Len(s) + 1
    PROVE  /\ InsertAt(s, at, x) \in Seq(Items) /\ Distinct(InsertAt(s, at, x))
           /\ Len(InsertAt(s, at, x)) = Len(s) + 1
           /\ at = Len(s) + 1 => \A k \in 1 .. Len(s) : InsertAt(s, at, x)[k] = s[k]
<1> DEFINE a == SubSeq(s, 1, at - 1)
           b == SubSeq(s, at, Len(s))
           t == InsertAt(s, at, x)
<1>1. /\ a \in Seq(Items) /\ Len(a) = at - 1 /\ \A k \in 1 .. at - 1 : a[k] = s[k]
  OBVIOUS
<1>2. /\ b \in Seq(Items) /\ Len(b) = Len(s) - at + 1
      /\ \A k \in 1 .. Len(s) - at + 1 : b[k] = s[at + k - 1]
  OBVIOUS
<1>3. /\ a \o <<x>> \in Seq(Items) /\ Len(a \o <<x>>) = at
      /\ \A k \in 1 .. at : (a \o <<x>>)[k] = IF k < at THEN s[k] ELSE x
  <2> HIDE DEF a
  <2>1. <<x>> \in Seq(Items) /\ Len(<<x>>) = 1 /\ <<x>>[1] = x
    OBVIOUS
  <2> QED BY <1>1, <2>1, ConcatIs
<1>4. t = (a \o <<x>>) \o b
  BY DEF InsertAt
<1>5. /\ t \in Seq(Items) /\ Len(t) = Len(s) + 1
      /\ \A k \in 1 .. at : t[k] = (a \o <<x>>)[k]
      /\ \A k \in 1 .. Len(s) - at + 1 : t[at + k] = b[k]
  <2> DEFINE u == a \o <<x>>
  <2> HIDE DEF a, b, u, t
  <2>1. u \in Seq(Items) /\ Len(u) = at
    BY <1>3 DEF u
  <2>2. t = u \o b
    BY <1>4 DEF u
  <2> QED BY <1>2, <2>1, <2>2, ConcatIs DEF u
<1>6. ASSUME NEW k \in 1 .. Len(s) + 1
      PROVE  t[k] = IF k < at THEN s[k] ELSE IF k = at THEN x ELSE s[k - 1]
  <2> HIDE DEF a, b, t
  <2>1. CASE k <= at
    BY <1>3, <1>5, <2>1
  <2>2. CASE k > at
    <3>1. k - at \in 1 .. Len(s) - at + 1 /\ k = at + (k - at) /\ at + (k - at) - 1 = k - 1
      BY <2>2
    <3>2. t[at + (k - at)] = b[k - at] /\ b[k - at] = s[at + (k - at) - 1]
      BY <1>2, <1>5, <3>1
    <3> QED BY <2>2, <3>1, <3>2
  <2> QED BY <2>1, <2>2
<1>7. \A k \in 1 .. Len(s) : s[k] # x
  BY DEF ToSet
<1>8. Distinct(t)
  <2>1. SUFFICES ASSUME NEW k \in 1 .. Len(s) + 1, NEW l \in 1 .. Len(s) + 1, t[k] = t[l], k < l
                 PROVE FALSE
    BY <1>5 DEF Distinct, IsInjective
  <2>2. \A i, j \in 1 .. Len(s) : s[i] = s[j] => i = j
    BY DEF Distinct, IsInjective
  <2> HIDE DEF t
  <2>3. CASE l < at
    BY <1>6, <2>1, <2>2, <2>3
  <2>4. CASE l = at
    BY <1>6, <1>7, <2>1, <2>4
  <2>5. CASE l > at
    <3>1. t[l] = s[l - 1] /\ l - 1 \in 1 .. Len(s)
      BY <1>6, <2>5
    <3>2. t[k] = x \/ \E m \in 1 .. Len(s) : m < l - 1 /\ t[k] = s[m]
      <4>1. CASE k < at
        BY <1>6, <2>5, <4>1
      <4>2. CASE k > at
        <5>1. t[k] = s[k - 1] /\ k - 1 \in 1 .. Len(s) /\ k - 1 < l - 1
          BY <1>6, <2>1, <4>2
        <5> QED BY <5>1
      <4>3. CASE k = at
        BY <1>6, <4>3
      <4> QED BY <4>1, <4>2, <4>3
    <3> QED BY <1>7, <2>1, <2>2, <3>1, <3>2
  <2> QED BY <2>3, <2>4, <2>5
<1> QED BY <1>5, <1>6, <1>8

LEMMA RemoveIs ==
    ASSUME NEW s \in Seq(Items), Distinct(s), NEW at \in DOMAIN s
    PROVE  RemoveAt(s, at) \in Seq(Items) /\ Distinct(RemoveAt(s, at))
<1> DEFINE a == SubSeq(s, 1, at - 1)
           b == SubSeq(s, at + 1, Len(s))
           t == RemoveAt(s, at)
<1>1. /\ a \in Seq(Items) /\ Len(a) = at - 1 /\ \A k \in 1 .. at - 1 : a[k] = s[k]
  OBVIOUS
<1>2. /\ b \in Seq(Items) /\ Len(b) = Len(s) - at
      /\ \A k \in 1 .. Len(s) - at : b[k] = s[at + k]
  OBVIOUS
<1>3. t = a \o b
  BY DEF RemoveAt
<1>4. /\ t \in Seq(Items) /\ Len(t) = Len(s) - 1
      /\ \A k \in 1 .. Len(s) - 1 : t[k] = IF k < at THEN s[k] ELSE s[k + 1]
  <2> HIDE DEF a, b, t
  <2>1. /\ t \in Seq(Items) /\ Len(t) = Len(s) - 1
        /\ \A k \in 1 .. at - 1 : t[k] = s[k]
        /\ \A k \in 1 .. Len(s) - at : t[at - 1 + k] = s[at + k]
    <3>1. /\ t \in Seq(Items) /\ Len(t) = Len(a) + Len(b)
          /\ \A k \in 1 .. Len(a) : t[k] = a[k]
          /\ \A k \in 1 .. Len(b) : t[Len(a) + k] = b[k]
      BY <1>1, <1>2, <1>3, ConcatIs
    <3>2. at \in 1 .. Len(s) /\ Len(s) \in Nat
      OBVIOUS
    <3>3. Len(t) = Len(s) - 1
      BY <1>1, <1>2, <3>1, <3>2
    <3>4. ASSUME NEW k \in 1 .. at - 1 PROVE t[k] = s[k]
      <4>1. t[k] = a[k]
        BY <1>1, <3>1
      <4> QED BY <1>1, <4>1
    <3>5. ASSUME NEW k \in 1 .. Len(s) - at PROVE t[at - 1 + k] = s[at + k]
      <4>1. t[Len(a) + k] = b[k]
        BY <1>2, <3>1
      <4> QED BY <1>1, <1>2, <4>1
    <3> QED BY <3>1, <3>3, <3>4, <3>5
  <2>2. ASSUME NEW k \in at .. Len(s) - 1 PROVE t[k] = s[k + 1]
    <3>1. k - at + 1 \in 1 .. Len(s) - at /\ at - 1 + (k - at + 1) = k /\ at + (k - at + 1) = k + 1
      OBVIOUS
    <3> QED BY <2>1, <3>1
  <2> QED BY <2>1, <2>2
<1>5. Distinct(t)
  <2>1. SUFFICES ASSUME NEW k \in 1 .. Len(s) - 1, NEW l \in 1 .. Len(s) - 1, t[k] = t[l], k < l
                 PROVE FALSE
    BY <1>4 DEF Distinct, IsInjective
  <2>2. \A i, j \in 1 .. Len(s) : s[i] = s[j] => i = j
    BY DEF Distinct, IsInjective
  <2> HIDE DEF t
  <2>3. at \in 1 .. Len(s) /\ Len(s) \in Nat
    OBVIOUS
  <2>4. CASE l < at
    <3>1. k < at
      BY <2>1, <2>3, <2>4
    <3>2. t[l] = s[l] /\ l \in 1 .. Len(s)
      BY <1>4, <2>3, <2>4
    <3>3. t[k] = s[k] /\ k \in 1 .. Len(s)
      BY <1>4, <2>3, <3>1
    <3>4. k # l
      BY <2>1
    <3> QED BY <2>1, <2>2, <3>2, <3>3, <3>4
  <2>5. CASE ~(l < at)
    <3>1. t[l] = s[l + 1] /\ l + 1 \in 1 .. Len(s)
      BY <1>4, <2>3, <2>5
    <3>2. CASE k < at
      <4>1. t[k] = s[k] /\ k \in 1 .. Len(s)
        BY <1>4, <2>3, <3>2
      <4>2. k # l + 1
        BY <2>1
      <4> QED BY <2>1, <2>2, <3>1, <4>1, <4>2
    <3>3. CASE ~(k < at)
      <4>1. t[k] = s[k + 1] /\ k + 1 \in 1 .. Len(s)
        BY <1>4, <2>3, <3>3
      <4>2. k + 1 # l + 1
        BY <2>1
      <4> QED BY <2>1, <2>2, <3>1, <4>1, <4>2
    <3> QED BY <3>2, <3>3
  <2> QED BY <2>4, <2>5
<1> QED BY <1>4, <1>5

-------------------------------------------------------------------------------
(* What GetAllPages has gathered from a list that only grew at its end is  *)
(* the first pages of it; what findByName has passed did not hold Wanted.  *)
Gathered ==
    reader = "GetAllPages" /\ ~disturbed /\ result \in {"reading", "list"} =>
        /\ Len(got) = IF result = "reading" THEN page * PageSize ELSE Len(list)
        /\ Len(got) <= Len(list)
        /\ \A k \in 1 .. Len(got) : got[k] = list[k]

Passed ==
    reader = "findByName" /\ ~disturbed /\ Wanted \in stayed =>
        /\ result = "reading" =>
               \A k \in 1 .. Len(list) : list[k] = Wanted => k > (page - 1) * PageSize
        /\ result # "absent"

Started ==
    /\ reader = "GetAllPages" => result \notin {"found", "absent"}
    /\ reader = "findByName" => page >= 1 /\ result # "list"

PInv == PagesTypeOK /\ Started /\ Gathered /\ Passed

LEMMA SliceIs ==
    ASSUME list \in Seq(Items), NEW p \in Nat
    PROVE  /\ Slice(p) \in Seq(Items)
           /\ p * PageSize >= Len(list) => Slice(p) = <<>>
           /\ p * PageSize < Len(list) =>
                /\ Len(Slice(p)) = IF p * PageSize + PageSize < Len(list)
                                     THEN PageSize ELSE Len(list) - p * PageSize
                /\ \A k \in 1 .. Len(Slice(p)) : Slice(p)[k] = list[p * PageSize + k]
<1> DEFINE lo == p * PageSize
           hi == IF lo + PageSize < Len(list) THEN lo + PageSize ELSE Len(list)
<1>1. lo \in Nat /\ PageSize \in Nat \ {0} /\ Len(list) \in Nat
  BY NextPage, PageSizeAssumption
<1>2. Slice(p) = SubSeq(list, lo + 1, hi)
  BY NextPage DEF Slice
<1> HIDE DEF lo
<1>3. hi \in 0 .. Len(list)
  BY <1>1
<1>4. SubSeq(list, lo + 1, hi) \in Seq(Items)
  BY <1>1, <1>3
<1>5. lo >= Len(list) => SubSeq(list, lo + 1, hi) = <<>>
  BY <1>1, <1>3
<1>6. ASSUME lo < Len(list)
      PROVE  /\ Len(SubSeq(list, lo + 1, hi)) = hi - lo
             /\ \A k \in 1 .. hi - lo : SubSeq(list, lo + 1, hi)[k] = list[lo + k]
  BY <1>1, <1>3, <1>6
<1>7. lo < Len(list) => hi - lo = IF lo + PageSize < Len(list) THEN PageSize ELSE Len(list) - lo
  BY <1>1
<1> HIDE DEF hi
<1>8. /\ Slice(p) \in Seq(Items)
      /\ lo >= Len(list) => Slice(p) = <<>>
      /\ lo < Len(list) =>
            /\ Len(Slice(p)) = hi - lo
            /\ \A k \in 1 .. Len(Slice(p)) : Slice(p)[k] = list[lo + k]
  BY <1>2, <1>4, <1>5, <1>6
<1> QED BY <1>7, <1>8 DEF lo

LEMMA ChangeStep ==
    ASSUME IsFiniteSet(Items), PInv, Change
    PROVE  PInv'
<1>1. /\ list \in Seq(Items) /\ Distinct(list) /\ stayed \subseteq ToSet(list)
  BY ListsAre DEF PInv, PagesTypeOK
<1>2. /\ list' \in Seq(Items) /\ Distinct(list')
      /\ disturbed' \in BOOLEAN
      /\ ~disturbed' => /\ ~disturbed /\ Len(list) <= Len(list')
                         /\ \A k \in 1 .. Len(list) : list'[k] = list[k]
  <2>1. ASSUME NEW x \in Items \ ToSet(list), NEW at \in 1 .. Len(list) + 1,
               list' = InsertAt(list, at, x), disturbed' = (disturbed \/ at <= Len(list))
        PROVE  <1>2!:
    <3>1. /\ list' \in Seq(Items) /\ Distinct(list') /\ Len(list') = Len(list) + 1
          /\ at = Len(list) + 1 => \A k \in 1 .. Len(list) : list'[k] = list[k]
      BY <1>1, <2>1, InsertIs
    <3>2. ASSUME ~disturbed' PROVE ~disturbed /\ at = Len(list) + 1
      <4>1. ~disturbed /\ ~(at <= Len(list))
        BY <2>1, <3>2, Zenon
      <4> QED BY <1>1, <4>1
    <3>3. disturbed' \in BOOLEAN
      BY <2>1 DEF PInv, PagesTypeOK
    <3> QED BY <1>1, <3>1, <3>2, <3>3
  <2>2. ASSUME NEW at \in DOMAIN list, list' = RemoveAt(list, at), disturbed' = TRUE
        PROVE  <1>2!:
    BY <1>1, <2>2, RemoveIs
  <2> QED BY <2>1, <2>2 DEF Change
<1>3. stayed' \subseteq ToSet(list') /\ stayed' \subseteq stayed
  BY DEF Change
<1>4. /\ result = "reading" /\ changes' \in 0 .. MaxChanges
      /\ UNCHANGED <<reader, page, got, result>>
  BY PageSizeAssumption DEF Change, PInv, PagesTypeOK
<1>5. PagesTypeOK'
  BY <1>2, <1>3, <1>4, ListsAre DEF PInv, PagesTypeOK
<1>6. Started'
  BY <1>4 DEF PInv, Started
<1>7. Gathered'
  BY <1>1, <1>2, <1>4 DEF PInv, PagesTypeOK, Gathered
<1>8. Passed'
  <2>1. SUFFICES ASSUME reader = "findByName", ~disturbed', Wanted \in stayed',
                        NEW k \in 1 .. Len(list'), list'[k] = Wanted
                 PROVE  k > (page - 1) * PageSize
    BY <1>4 DEF Passed
  <2>2. PICK l \in 1 .. Len(list) : list[l] = Wanted
    BY <1>1, <1>3, <2>1 DEF ToSet
  <2>3. l = k
    BY <1>2, <2>1, <2>2 DEF Distinct, IsInjective
  <2> QED BY <1>2, <1>3, <1>4, <2>1, <2>2, <2>3 DEF PInv, Passed
<1> QED BY <1>5, <1>6, <1>7, <1>8 DEF PInv

LEMMA Reading ==
    ASSUME IsFiniteSet(Items), PInv, result = "reading", UNCHANGED <<list, changes, stayed, reader>>
    PROVE  /\ list \in Seq(Items) /\ Len(list) \in 0 .. Cardinality(Items)
           /\ Cardinality(Items) \in Nat /\ page \in Nat /\ got \in Seq(Items)
           /\ /\ got' \in Seq(Items) /\ page' \in 0 .. PagesOf(Cardinality(Items))
              /\ disturbed' \in BOOLEAN /\ result' \in {"reading", "list", "found", "absent", "error"}
              => PagesTypeOK'
<1>1. Cardinality(Items) \in Nat /\ Len(list) \in 0 .. Cardinality(Items) /\ list \in Seq(Items)
  BY ListsAre, ListLength DEF PInv, PagesTypeOK
<1>2. page \in Nat /\ got \in Seq(Items)
  BY <1>1, PagesHold DEF PInv, PagesTypeOK, PagesOf
<1> QED BY <1>1, <1>2 DEF PInv, PagesTypeOK, PagesOf

(* A page was added to what had been gathered.                             *)
LEMMA ReadPageStep ==
    ASSUME IsFiniteSet(Items), PInv, ReadPage
    PROVE  PInv'
<1> DEFINE items == Slice(page)
           lo    == page * PageSize
<1>1. /\ reader = "GetAllPages" /\ result = "reading" /\ Merge(items, Len(list))
      /\ UNCHANGED <<list, changes, stayed, disturbed, reader>>
  BY DEF ReadPage, server
<1>2. /\ list \in Seq(Items) /\ Len(list) \in 0 .. Cardinality(Items) /\ Cardinality(Items) \in Nat
      /\ page \in Nat /\ got \in Seq(Items) /\ PageSize \in Nat \ {0}
  BY <1>1, Reading, PageSizeAssumption
<1>3. /\ items \in Seq(Items) /\ lo \in Nat /\ (page + 1) * PageSize = lo + PageSize
      /\ lo >= Len(list) => items = <<>>
      /\ lo < Len(list) =>
            /\ Len(items) = IF lo + PageSize < Len(list) THEN PageSize ELSE Len(list) - lo
            /\ \A k \in 1 .. Len(items) : items[k] = list[lo + k]
  BY <1>2, SliceIs, NextPage
<1> HIDE DEF items, lo
<1>4. /\ got' = got \o items /\ got' \in Seq(Items) /\ Len(got') = Len(got) + Len(items)
      /\ \A k \in 1 .. Len(got) : got'[k] = got[k]
      /\ \A k \in 1 .. Len(items) : got'[Len(got) + k] = items[k]
  BY <1>1, <1>2, <1>3, ConcatIs DEF Merge
<1>5. \/ /\ Len(got') >= Len(list) \/ items = <<>>
         /\ result' = "list" /\ page' = page
      \/ /\ ~(Len(got') >= Len(list)) /\ items # <<>>
         /\ page' = page + 1 /\ result' = result
  BY <1>1 DEF Merge
<1>6. PagesTypeOK'
  <2>1. page' \in 0 .. PagesOf(Cardinality(Items))
    <3>1. CASE page' = page
      BY <3>1 DEF PInv, PagesTypeOK, PagesOf
    <3>2. CASE page' = page + 1 /\ items # <<>>
      <4>1. page * PageSize < Cardinality(Items)
        BY <1>2, <1>3, <3>2 DEF lo
      <4>2. page + 1 <= PagesOf(Cardinality(Items)) /\ PagesOf(Cardinality(Items)) \in Nat
        BY <1>2, <4>1, PageExists, PagesHold
      <4> QED BY <1>2, <3>2, <4>2
    <3> QED BY <1>5, <3>1, <3>2
  <2>2. disturbed' \in BOOLEAN /\ result' \in {"reading", "list", "found", "absent", "error"}
    BY <1>1, <1>5 DEF PInv, PagesTypeOK
  <2> QED BY <1>1, <1>4, <2>1, <2>2, Reading
<1>7. Started'
  BY <1>1, <1>5 DEF PInv, Started
<1>8. Gathered'
  <2>1. SUFFICES ASSUME ~disturbed
                 PROVE  /\ Len(got') = IF result' = "reading" THEN page' * PageSize ELSE Len(list)
                        /\ Len(got') <= Len(list)
                        /\ \A k \in 1 .. Len(got') : got'[k] = list[k]
    BY <1>1 DEF Gathered
  <2>2. Len(got) = lo /\ lo <= Len(list) /\ \A k \in 1 .. lo : got[k] = list[k]
    BY <1>1, <2>1 DEF PInv, Gathered, lo
  <2>3. CASE lo >= Len(list)
    <3>1. items = <<>> /\ Len(items) = 0
      BY <1>3, <2>3
    <3>2. Len(got') = Len(list) /\ \A k \in 1 .. Len(list) : got'[k] = list[k]
      BY <1>2, <1>3, <1>4, <2>2, <2>3, <3>1
    <3>3. result' = "list"
      BY <1>5, <3>1
    <3> QED BY <1>2, <3>2, <3>3
  <2>4. CASE lo < Len(list)
    <3>1. Len(items) \in 1 .. Len(list) - lo
      BY <1>2, <1>3, <2>4
    <3>2. Len(got') = lo + Len(items) /\ Len(got') <= Len(list)
      BY <1>2, <1>3, <1>4, <2>2, <3>1
    <3>3. ASSUME NEW k \in 1 .. Len(got') PROVE got'[k] = list[k]
      <4>1. CASE k <= lo
        BY <1>3, <1>4, <2>2, <3>2, <4>1
      <4>2. CASE k > lo
        <5>1. k - lo \in 1 .. Len(items) /\ lo + (k - lo) = k
          BY <1>3, <3>1, <3>2, <4>2
        <5>2. got'[lo + (k - lo)] = items[k - lo] /\ items[k - lo] = list[lo + (k - lo)]
          BY <1>3, <1>4, <2>2, <2>4, <5>1
        <5> QED BY <5>1, <5>2
      <4> QED BY <1>3, <4>1, <4>2
    <3>4. CASE result' = "list"
      <4>1. items # <<>>
        BY <3>1
      <4>2. Len(got') = Len(list)
        <5>1. Len(got') >= Len(list)
          BY <1>1, <1>5, <3>4, <4>1
        <5> QED BY <1>2, <1>4, <3>2, <5>1
      <4> QED BY <3>3, <3>4, <4>2, <1>2
    <3>5. CASE result' = "reading"
      <4>1. page' = page + 1 /\ ~(Len(got') >= Len(list))
        BY <1>5, <3>5
      <4>2. Len(items) = PageSize
        BY <1>2, <1>3, <2>4, <3>2, <4>1
      <4> QED BY <1>2, <1>3, <3>2, <3>3, <3>5, <4>1, <4>2
    <3> QED BY <1>1, <1>5, <3>4, <3>5
  <2> QED BY <1>2, <1>3, <2>3, <2>4
<1>9. Passed'
  BY <1>1 DEF Passed
<1> QED BY <1>6, <1>7, <1>8, <1>9 DEF PInv

LEMMA ReadCutPageStep ==
    ASSUME IsFiniteSet(Items), PInv, ReadCutPage
    PROVE  PInv'
<1>1. /\ reader = "GetAllPages" /\ result = "reading" /\ disturbed' = TRUE
      /\ got' = got \o <<>> /\ result' = "list" /\ page' = page
      /\ UNCHANGED <<list, changes, stayed, reader>>
  <2>1. Len(got') >= 0
    BY Reading, ConcatIs DEF ReadCutPage, Merge
  <2> QED BY <2>1 DEF ReadCutPage, Merge
<1>2. got' \in Seq(Items)
  BY <1>1, Reading
<1>3. PagesTypeOK'
  BY <1>1, <1>2, Reading DEF PInv, PagesTypeOK, PagesOf
<1> QED BY <1>1, <1>3 DEF PInv, Started, Gathered, Passed

LEMMA SearchPageStep ==
    ASSUME IsFiniteSet(Items), PInv, SearchPage
    PROVE  PInv'
<1> DEFINE items == Slice(page - 1)
           lo    == (page - 1) * PageSize
<1>1. /\ reader = "findByName" /\ result = "reading" /\ page >= 1
      /\ UNCHANGED <<list, changes, stayed, disturbed, reader, got>>
  BY DEF SearchPage, server, PInv, Started
<1>2. /\ list \in Seq(Items) /\ Len(list) \in 0 .. Cardinality(Items) /\ Cardinality(Items) \in Nat
      /\ page \in Nat /\ page - 1 \in Nat /\ got \in Seq(Items) /\ PageSize \in Nat \ {0}
  BY <1>1, Reading, PageSizeAssumption
<1>3. /\ items \in Seq(Items) /\ lo \in Nat /\ page * PageSize = lo + PageSize
      /\ lo >= Len(list) => items = <<>>
      /\ lo < Len(list) =>
            /\ Len(items) = IF lo + PageSize < Len(list) THEN PageSize ELSE Len(list) - lo
            /\ \A k \in 1 .. Len(items) : items[k] = list[lo + k]
  <2>1. (page - 1) + 1 = page
    BY <1>2
  <2> QED BY <1>2, <2>1, SliceIs, NextPage
<1> HIDE DEF items, lo
<1>4. \/ result' = "found" /\ page' = page
      \/ /\ ~Contains(items, Wanted)
         /\ \/ /\ page >= TotalPages \/ items = <<>>
               /\ result' = "absent" /\ page' = page
            \/ page < TotalPages /\ page' = page + 1 /\ result' = "reading"
  <2>1. TotalPages = PagesOf(Len(list)) /\ TotalPages \in Nat
    BY <1>2, PagesHold DEF TotalPages, PagesOf
  <2> QED BY <1>1, <1>2, <2>1 DEF SearchPage, items
<1>5. PagesTypeOK'
  <2>1. page' \in 0 .. PagesOf(Cardinality(Items))
    <3>1. CASE page' = page
      BY <3>1 DEF PInv, PagesTypeOK, PagesOf
    <3>2. CASE page' = page + 1 /\ page < TotalPages
      <4>1. page * PageSize < Cardinality(Items)
        <5>1. page * PageSize < Len(list)
          BY <1>2, <3>2, BeforeLastPage DEF TotalPages, PagesOf
        <5> QED BY <1>2, <1>3, <5>1
      <4>2. page + 1 <= PagesOf(Cardinality(Items)) /\ PagesOf(Cardinality(Items)) \in Nat
        BY <1>2, <4>1, PageExists, PagesHold
      <4> QED BY <1>2, <3>2, <4>2
    <3> QED BY <1>4, <3>1, <3>2
  <2>2. result' \in {"reading", "list", "found", "absent", "error"}
    BY <1>4
  <2>3. disturbed' \in BOOLEAN
    BY <1>1 DEF PInv, PagesTypeOK
  <2> QED BY <1>1, <1>2, <2>1, <2>2, <2>3, Reading
<1>6. Started'
  BY <1>1, <1>2, <1>4 DEF Started
<1>7. Passed'
  <2>1. SUFFICES ASSUME ~disturbed, Wanted \in stayed, result' # "found"
                 PROVE  /\ result' = "reading" =>
                             \A k \in 1 .. Len(list) : list[k] = Wanted => k > (page' - 1) * PageSize
                        /\ result' # "absent"
    BY <1>1 DEF Passed
  <2>2. \A k \in 1 .. Len(list) : list[k] = Wanted => k > lo
    BY <1>1, <2>1 DEF PInv, Passed, lo
  <2>3. PICK l \in 1 .. Len(list) : list[l] = Wanted
    BY <1>2, <2>1 DEF PInv, PagesTypeOK, ToSet
  <2>4. ASSUME NEW k \in 1 .. Len(list), list[k] = Wanted PROVE k > page * PageSize
    <3>1. SUFFICES ASSUME k <= lo + PageSize PROVE FALSE
      BY <1>2, <1>3
    <3>2. k > lo /\ lo < Len(list)
      BY <1>2, <1>3, <2>2, <2>4
    <3>3. k - lo \in 1 .. Len(items) /\ lo + (k - lo) = k
      BY <1>2, <1>3, <3>1, <3>2
    <3>4. items[k - lo] = Wanted
      BY <1>3, <2>4, <3>2, <3>3
    <3> QED BY <1>4, <2>1, <3>3, <3>4 DEF Contains
  <2>5. CASE result' = "absent"
    <3>1. l > lo + PageSize /\ lo < Len(list)
      BY <1>2, <1>3, <2>3, <2>4
    <3>2. items # <<>>
      BY <1>2, <1>3, <3>1
    <3>3. page >= PagesOf(Len(list))
      BY <1>4, <2>1, <2>5, <3>2 DEF TotalPages, PagesOf
    <3>4. PagesOf(Len(list)) \in Nat /\ Len(list) <= PagesOf(Len(list)) * PageSize
      BY <1>2, PagesHold
    <3>5. /\ PagesOf(Len(list)) * PageSize \in Nat
          /\ PagesOf(Len(list)) * PageSize <= page * PageSize
      BY <1>2, <3>3, <3>4, TimesMonotone
    <3> QED BY <1>2, <1>3, <3>1, <3>4, <3>5
  <2>6. CASE result' = "reading"
    <3>1. page' = page + 1 /\ page' - 1 = page
      BY <1>2, <1>4, <2>6
    <3> QED BY <2>4, <2>6, <3>1
  <2> QED BY <1>4, <2>1, <2>5, <2>6
<1>8. Gathered'
  BY <1>1 DEF Gathered
<1> QED BY <1>5, <1>6, <1>7, <1>8 DEF PInv

LEMMA PagesStep == ASSUME IsFiniteSet(Items), PInv, [PagesNext]_pagesVars PROVE PInv'
<1>1. CASE PageFails
  <2>1. PagesTypeOK'
    BY <1>1 DEF PageFails, server, PInv, PagesTypeOK
  <2> QED BY <1>1, <2>1 DEF PageFails, server, PInv, Started, Gathered, Passed
<1>2. CASE UNCHANGED pagesVars
  BY <1>2 DEF pagesVars, PInv, PagesTypeOK, Started, Gathered, Passed
<1> QED BY <1>1, <1>2, ChangeStep, ReadPageStep, ReadCutPageStep, SearchPageStep
        DEF PagesNext, Returned

LEMMA PagesStart == ASSUME IsFiniteSet(Items), PagesInit PROVE PInv
<1>1. Cardinality(Items) \in Nat /\ Cardinality(Items) >= 1
  BY FS_CardinalityType, FS_EmptySet, WantedAssumption
<1>2. PagesOf(Cardinality(Items)) \in Nat /\ 1 <= PagesOf(Cardinality(Items))
  <2>1. 0 * PageSize = 0
    BY PageSizeAssumption
  <2> QED BY <1>1, <2>1, PagesHold, PageExists
<1>3. list \in Seq(Items) /\ Len(list) \in Nat
  BY ListsAre DEF PagesInit
<1>4. page \in 0 .. PagesOf(Cardinality(Items))
  BY <1>2 DEF PagesInit, FirstPage
<1>5. PagesTypeOK
  <2>1. list \in Lists /\ stayed = ToSet(list) /\ reader \in Readers /\ disturbed = FALSE
    BY DEF PagesInit
  <2>2. changes \in 0 .. MaxChanges /\ got \in Seq(Items) /\ result = "reading"
    BY PageSizeAssumption DEF PagesInit
  <2> QED BY <1>4, <2>1, <2>2 DEF PagesTypeOK, PagesOf
<1>6. page * PageSize = 0 \/ reader # "GetAllPages"
  BY PageSizeAssumption DEF PagesInit, FirstPage
<1>7. Gathered
  BY <1>3, <1>6 DEF PagesInit, Gathered
<1>8. Passed
  <2>1. reader = "findByName" => (page - 1) * PageSize = 0
    BY PageSizeAssumption DEF PagesInit, FirstPage
  <2> QED BY <1>3, <2>1 DEF PagesInit, Passed
<1> QED BY <1>5, <1>7, <1>8, ReadersAssumption DEF PInv, Started, PagesInit, FirstPage

LEMMA AlwaysPInv == ASSUME IsFiniteSet(Items) PROVE PagesSpec => []PInv
<1>1. PagesInit => PInv
  BY PagesStart
<1>2. PInv /\ [PagesNext]_pagesVars => PInv'
  BY PagesStep
<1> QED BY <1>1, <1>2, PTL DEF PagesSpec

(* A read stays within the pages that the longest list can have.           *)
THEOREM PagesTypeCorrect == ASSUME IsFiniteSet(Items) PROVE PagesSpec => []PagesTypeOK
<1>1. PInv => PagesTypeOK
  BY DEF PInv
<1> QED BY <1>1, AlwaysPInv, PTL

(* GetAllPages, with lists and pages of any length: what it returns of a   *)
(* list that only grew at its end is the whole list, each item once.       *)
THEOREM ReadsAll == ASSUME IsFiniteSet(Items) PROVE PagesSpec => []ListsEverything
<1>1. ASSUME PInv PROVE ListsEverything
  <2>1. SUFFICES ASSUME result = "list", ~disturbed
                 PROVE  stayed \subseteq ToSet(got) /\ Distinct(got)
    BY DEF ListsEverything
  <2>2. /\ reader = "GetAllPages" /\ list \in Seq(Items) /\ got \in Seq(Items)
        /\ Distinct(list) /\ stayed \subseteq ToSet(list)
    BY <1>1, <2>1, ListsAre, ReadersAssumption DEF PInv, PagesTypeOK, Started
  <2>3. Len(got) = Len(list) /\ \A k \in 1 .. Len(got) : got[k] = list[k]
    BY <1>1, <2>1, <2>2 DEF PInv, Gathered
  <2>4. got = list
    BY <2>2, <2>3
  <2> QED BY <2>2, <2>4
<1> QED BY <1>1, AlwaysPInv, PTL

(* findMemoryByName and findRuntimeByName, with lists and pages of any     *)
(* length: they call nothing absent that was there all the time, in a list *)
(* that only grew at its end.                                              *)
THEOREM AbsentIsTrue == ASSUME IsFiniteSet(Items) PROVE PagesSpec => []AbsentIsAbsent
<1>1. PInv => AbsentIsAbsent
  BY ReadersAssumption DEF PInv, PagesTypeOK, Started, Passed, AbsentIsAbsent
<1> QED BY <1>1, AlwaysPInv, PTL
===============================================================================

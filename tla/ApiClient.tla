------------------------------- MODULE ApiClient -------------------------------
(***************************************************************************)
(* One process's calls to a GreenNode API: requestRaw of internal/client   *)
(* ("greennode": vks, vserver, vdb) or doReq of internal/agentbase/client  *)
(* ("agentbase"), the token provider both take their bearer from, and an   *)
(* API that may apply an operation and still answer with an error, lose    *)
(* the answer, or stop accepting a token at any time.                      *)
(*                                                                         *)
(* Tokens are numbered in the order they are minted; the API refuses all   *)
(* up to `revoked`.  Backoff sleeps are left out.                          *)
(***************************************************************************)
EXTENDS Naturals

CONSTANTS
    Clients,    \* the clients considered, a subset of {"greennode", "agentbase"}
    MaxCalls,   \* calls of one process (bound)
    MaxTokens   \* tokens one process can mint (bound)

ASSUME ClientsAssumption == Clients \subseteq {"greennode", "agentbase"}
ASSUME BoundsAssumption  == MaxCalls \in Nat \ {0} /\ MaxTokens \in Nat \ {0}

VARIABLES
    client,
    calls,      \* calls made before this one
    pc,
    attempt,    \* the loop variable of requestRaw
    resend,     \* the request in flight is the one that follows a 401
    token,      \* the provider's cached access token, 0 for none
    minted,     \* the token this call held first
    sent,       \* the token of the request in flight
    revoked,    \* API: tokens up to this one are refused
    effects,    \* API: how often it has applied this call's operation
    answer,     \* what came back
    outcome     \* what the call returned

vars == <<client, calls, pc, attempt, resend, token, minted, sent, revoked, effects, answer, outcome>>
callVars == <<client, calls, minted>>

(* Mutant: the agentbase client retries like the other one. *)
MaxRetriesOfBoth == 3

MaxRetries == IF client = "greennode" THEN 3 ELSE 0

Answers  == {"2xx", "401", "4xx", "5xx", "cut", "lost"}
Outcomes == {"none", "ok", "401", "4xx", "5xx", "transport", "auth"}

TypeOK ==
    /\ client \in Clients
    /\ calls \in 0 .. MaxCalls - 1
    /\ pc \in {"token", "send", "flight", "answered", "done"}
    /\ attempt \in 0 .. MaxRetries
    /\ resend \in BOOLEAN
    /\ token \in 0 .. MaxTokens /\ minted \in 0 .. MaxTokens /\ sent \in 0 .. token
    /\ revoked \in 0 .. token
    /\ effects \in Nat
    /\ answer \in Answers
    /\ outcome \in Outcomes

Init ==
    /\ client \in Clients
    /\ calls = 0
    /\ pc = "token" /\ attempt = 0 /\ resend = FALSE
    /\ token = 0 /\ minted = 0 /\ sent = 0 /\ revoked = 0
    /\ effects = 0
    /\ answer = "lost" /\ outcome = "none"

-------------------------------------------------------------------------------
Finish(o) == pc' = "done" /\ outcome' = o /\ UNCHANGED <<attempt, resend>>

Mint == token < MaxTokens /\ token' = token + 1

(* GetToken: the cached token, or a new one when it is missing or about to *)
(* expire; a failure to mint one ends the call before anything is sent.    *)
GetToken ==
    /\ pc = "token"
    /\ \/ token # 0 /\ pc' = "send" /\ minted' = token
          /\ UNCHANGED <<attempt, resend, token, outcome>>
       \/ Mint /\ pc' = "send" /\ minted' = token' /\ UNCHANGED <<attempt, resend, outcome>>
       \/ Finish("auth") /\ UNCHANGED <<token, minted>>
    /\ UNCHANGED <<client, calls, sent, revoked, effects, answer>>

Send ==
    /\ pc = "send"
    /\ pc' = "flight"
    /\ sent' = token
    /\ UNCHANGED <<callVars, attempt, resend, token, revoked, effects, answer, outcome>>

-------------------------------------------------------------------------------
(* The API and the network.  A body that is cut off matters where its read *)
(* error is looked at (agentbase) or where it is a 2xx.                    *)
Answer(a) == pc' = "answered" /\ answer' = a

Apply ==
    /\ pc = "flight" /\ sent > revoked
    /\ effects' = effects + 1
    /\ \E a \in {"2xx", "cut", "5xx", "lost"} : Answer(a)
    /\ UNCHANGED <<callVars, attempt, resend, token, sent, revoked, outcome>>

Reject ==
    /\ pc = "flight"
    /\ \/ \E a \in {"5xx", "lost", IF sent > revoked THEN "4xx" ELSE "401"} : Answer(a)
       \/ client = "agentbase" /\ Answer("cut")
    /\ UNCHANGED <<callVars, attempt, resend, token, sent, revoked, effects, outcome>>

Revoke ==
    /\ pc # "done" /\ revoked < token
    /\ revoked' = token
    /\ UNCHANGED <<callVars, pc, attempt, resend, token, sent, effects, answer, outcome>>

-------------------------------------------------------------------------------
(* Mutant: the request is sent again with the token that was refused. *)
ResendOldToken ==
    /\ pc = "answered" /\ answer = "401" /\ ~resend
    /\ resend' = TRUE /\ pc' = "send"
    /\ UNCHANGED <<callVars, attempt, token, sent, revoked, effects, answer, outcome>>

(* A 401 to the first request of an attempt: refresh and send again. *)
RefreshAndResend ==
    /\ pc = "answered" /\ answer = "401" /\ ~resend
    /\ \/ Mint /\ resend' = TRUE /\ pc' = "send" /\ UNCHANGED <<attempt, outcome>>
       \/ Finish("auth") /\ UNCHANGED token
    /\ UNCHANGED <<callVars, sent, revoked, effects, answer>>

(* What requestRaw tries again: a 5xx, and a transport error of the first  *)
(* request of an attempt.                                                  *)
Retryable == answer = "5xx" \/ (answer = "lost" /\ ~resend)

(* Mutant: the loop condition is off by one. *)
RetryOnceMore ==
    /\ pc = "answered" /\ Retryable /\ attempt <= MaxRetries
    /\ attempt' = attempt + 1 /\ resend' = FALSE
    /\ pc' = "send"
    /\ UNCHANGED <<callVars, token, sent, revoked, effects, answer, outcome>>

(* Mutant: an attempt that is tried again is not counted. *)
RetryUncounted ==
    /\ pc = "answered" /\ Retryable /\ attempt < MaxRetries
    /\ resend' = FALSE
    /\ pc' = "send"
    /\ effects' = 0
    /\ UNCHANGED <<callVars, attempt, token, sent, revoked, answer, outcome>>

Retry ==
    /\ pc = "answered" /\ Retryable /\ attempt < MaxRetries
    /\ attempt' = attempt + 1 /\ resend' = FALSE
    /\ pc' = "send"
    /\ UNCHANGED <<callVars, token, sent, revoked, effects, answer, outcome>>

(* Mutant: a 5xx that may not be retried any more counts as a response. *)
VerdictIgnores5xx ==
    CASE answer \in {"2xx", "5xx"} -> "ok"
      [] answer = "cut"  -> IF client = "greennode" THEN "ok" ELSE "transport"
      [] answer = "lost" -> "transport"
      [] OTHER           -> answer

(* What the last answer makes of the call.  The greennode client does not  *)
(* look at the error of reading the body: a 2xx whose body is cut off is a *)
(* success with what there is of it.                                       *)
Verdict ==
    CASE answer = "2xx"  -> "ok"
      [] answer = "cut"  -> IF client = "greennode" THEN "ok" ELSE "transport"
      [] answer = "lost" -> "transport"
      [] OTHER           -> answer

Conclude ==
    /\ pc = "answered"
    /\ answer = "401" => resend
    /\ ~(Retryable /\ attempt < MaxRetries)
    /\ Finish(Verdict)
    /\ UNCHANGED <<callVars, token, sent, revoked, effects, answer>>

(* The command's next call, with the token the provider still holds; a     *)
(* waiter goes on after any error.                                         *)
NextCall ==
    /\ pc = "done" /\ calls + 1 < MaxCalls
    /\ calls' = calls + 1
    /\ pc' = "token" /\ attempt' = 0 /\ resend' = FALSE /\ effects' = 0
    /\ answer' = "lost" /\ outcome' = "none"
    /\ UNCHANGED <<client, token, minted, sent, revoked>>

Exited == pc = "done" /\ UNCHANGED vars

Step == GetToken \/ Send \/ Apply \/ Reject \/ RefreshAndResend \/ Retry \/ Conclude

Next == Step \/ Revoke \/ NextCall \/ Exited

(* The client's own steps happen, and the http.Client timeout turns a      *)
(* request that gets no answer into a lost one.                            *)
Spec == Init /\ [][Next]_vars /\ WF_vars(Step)

-------------------------------------------------------------------------------
(* A call that reports success was applied, and the last answer says so. *)
OkWasApplied == outcome = "ok" => effects > 0

(* A call is given up as unauthorized only after a token minted because of *)
(* a refusal was refused too.                                              *)
UnauthorizedIsFinal == outcome = "401" => sent > minted /\ sent <= revoked

(* What a call returns is so: a success was applied, and a 401 is final.   *)
OutcomeIsTrue == OkWasApplied /\ UnauthorizedIsFinal

(* Every call ends, whatever the API answers. *)
CallEnds == pc = "token" ~> pc = "done"

(* An attempt applies the operation at most once, also when a 401 makes it *)
(* send twice, and the agentbase client, which must not repeat a POST,     *)
(* applies it at most once in all.  The other client may apply one as often*)
(* as it may retry.                                                        *)
AppliesOncePerAttempt ==
    /\ effects <= attempt + 1
    /\ client = "agentbase" => effects <= 1

(* A 401 is answered by one refresh and one more request: "refresh token   *)
(* and retry once".                                                        *)
RefreshesOnce == token <= minted + 1

(* "Automatic retry for transient errors (5xx, timeouts)": a call is lost  *)
(* to a transport error only when its retries are used up.                 *)
TransientRetried == outcome = "transport" => attempt = MaxRetries

===============================================================================

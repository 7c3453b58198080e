----------------------------- MODULE LoginListener -----------------------------
(***************************************************************************)
(* The loopback listener of `grn login`: one call of Listener.Serve, its   *)
(* two goroutines, and the handlers net/http starts for the requests of a  *)
(* browser, which may send /callback more than once (a reload, a second    *)
(* tab, the redirect of an earlier attempt) or stop in the middle of one.  *)
(*                                                                         *)
(* A goroutine that waits in a select is parked: the first channel that    *)
(* becomes ready decides for it.  One that reaches the select later picks  *)
(* any channel that is ready.  net/http is modelled by what listen.go      *)
(* relies on: Shutdown closes the listener, which ends srv.Serve, and then *)
(* waits for every connection to become idle.                              *)
(***************************************************************************)
EXTENDS Naturals

CONSTANTS
    Requests,   \* requests the browser may send, one connection each
    NoRequest,  \* no request
    AcceptFaults    \* whether the listener may fail on its own

ASSUME NoRequestAssumption == NoRequest \notin Requests /\ AcceptFaults \in BOOLEAN

VARIABLES
    kind,       \* what each request carries: the nonce, another appState, or ?error=
    conn,       \* each connection and the handler that serves it
    mu,         \* the request whose handler holds l.mu
    code,       \* l.code: the request it came from, NoRequest for ""
    cbErr,      \* l.cbErr
    first,      \* the request whose handler closed l.received (its being set is the channel)
    port,       \* the listener: "open" accepts connections
    serveErr,   \* the server goroutine: running, or its result is in the channel, or was taken
    ctx,        \* the login context: "live" or "done" (timeout, interrupt)
    watcher,    \* the goroutine that waits for ctx.Done or l.received
    main,       \* Serve itself
    result      \* what it returns

vars == <<kind, conn, mu, code, cbErr, first, port, serveErr, ctx, watcher, main, result>>
serverVars == <<port, serveErr>>
fieldVars  == <<mu, code, cbErr>>

Kinds  == {"good", "stale", "denied"}
Errors == {"nil", "mismatch", "denied"}
ConnStates == {"none", "open", "wait", "store", "verdict", "signal", "return", "shutdown",
               "idle"}
Results == [code : Requests \cup {NoRequest}, read : {"whole", "torn"},
            err : Errors \cup {"none", "ctx", "no callback"}]

TypeOK ==
    /\ kind \in [Requests -> Kinds]
    /\ conn \in [Requests -> ConnStates]
    /\ mu \in Requests \cup {NoRequest}
    /\ code \in Requests \cup {NoRequest}
    /\ cbErr \in Errors
    /\ first \in Requests \cup {NoRequest}
    /\ port \in {"open", "closed"}
    /\ serveErr \in {"running", "sent", "taken"}
    /\ ctx \in {"live", "done"}
    /\ watcher \in {"setup", "parked", "close", "drain", "cancelled", "left"}
    /\ main \in {"setup", "parked", "received", "cancelled", "exited", "read", "returned"}
    /\ result \in Results

received == first # NoRequest

Init ==
    /\ kind \in [Requests -> Kinds]
    /\ conn = [r \in Requests |-> "none"]
    /\ mu = NoRequest /\ code = NoRequest /\ cbErr = "nil"
    /\ first = NoRequest
    /\ port = "open" /\ serveErr = "running"
    /\ ctx = "live"
    /\ watcher = "setup" /\ main = "setup"
    /\ result = [code |-> NoRequest, read |-> "whole", err |-> "none"]

-------------------------------------------------------------------------------
(* The browser and the user. *)
Connect(r) ==
    /\ conn[r] = "none" /\ port = "open"
    /\ conn' = [conn EXCEPT ![r] = "open"]
    /\ UNCHANGED <<kind, fieldVars, first, serverVars, ctx, watcher, main, result>>

SendRequest(r) ==
    /\ conn[r] = "open"
    /\ conn' = [conn EXCEPT ![r] = "wait"]
    /\ UNCHANGED <<kind, fieldVars, first, serverVars, ctx, watcher, main, result>>

Cancel ==
    /\ ctx = "live" /\ main # "returned"
    /\ ctx' = "done"
    /\ watcher' = IF watcher = "parked" THEN "close" ELSE watcher
    /\ UNCHANGED <<kind, conn, fieldVars, first, serverVars, main, result>>

-------------------------------------------------------------------------------
(* handle, under l.mu.  A denied callback only sets cbErr; any other one   *)
(* sets code first and cbErr after it when the nonce does not match.       *)
HandleLock(r) ==
    /\ conn[r] = "wait" /\ mu = NoRequest
    /\ mu' = r
    /\ conn' = [conn EXCEPT ![r] = IF kind[r] = "denied" THEN "verdict" ELSE "store"]
    /\ UNCHANGED <<kind, code, cbErr, first, serverVars, ctx, watcher, main, result>>

(* Mutant: the mismatch is recorded after l.received is closed. *)
HandleStoreSignalsFirst(r) ==
    /\ conn[r] = "store"
    /\ code' = r
    /\ first' = IF received THEN first ELSE r
    /\ main' = IF main = "parked" THEN "received" ELSE main
    /\ watcher' = IF watcher = "parked" THEN "left" ELSE watcher
    /\ conn' = [conn EXCEPT ![r] = IF kind[r] = "stale" THEN "verdict" ELSE "signal"]
    /\ UNCHANGED <<kind, mu, cbErr, serverVars, ctx, result>>

HandleStore(r) ==
    /\ conn[r] = "store"
    /\ code' = r
    /\ conn' = [conn EXCEPT ![r] = IF kind[r] = "stale" THEN "verdict" ELSE "signal"]
    /\ UNCHANGED <<kind, mu, cbErr, first, serverVars, ctx, watcher, main, result>>

HandleVerdict(r) ==
    /\ conn[r] = "verdict"
    /\ cbErr' = IF kind[r] = "denied" THEN "denied" ELSE "mismatch"
    /\ conn' = [conn EXCEPT ![r] = "signal"]
    /\ UNCHANGED <<kind, mu, code, first, serverVars, ctx, watcher, main, result>>

(* Mutant: signal closes l.received unguarded, which panics the second time. *)
HandleSignalAgain(r) ==
    /\ conn[r] = "signal"
    /\ first' = r
    /\ main' = IF main = "parked" THEN "received" ELSE main
    /\ watcher' = IF watcher = "parked" THEN "left" ELSE watcher
    /\ conn' = [conn EXCEPT ![r] = IF received THEN "panic" ELSE "return"]
    /\ UNCHANGED <<kind, fieldVars, serverVars, ctx, result>>

(* The page is written, then l.received closed by the first handler only.  *)
HandleSignal(r) ==
    /\ conn[r] = "signal"
    /\ first' = IF received THEN first ELSE r
    /\ main' = IF main = "parked" THEN "received" ELSE main
    /\ watcher' = IF watcher = "parked" THEN "left" ELSE watcher
    /\ conn' = [conn EXCEPT ![r] = "return"]
    /\ UNCHANGED <<kind, fieldVars, serverVars, ctx, result>>

(* Mutant: Shutdown runs in the handler, and waits for its own connection. *)
HandleReturnAfterShutdown(r) ==
    /\ conn[r] = "return"
    /\ \A q \in Requests : conn[q] \in {"none", "idle"}
    /\ mu' = NoRequest
    /\ port' = "closed"
    /\ conn' = [conn EXCEPT ![r] = "idle"]
    /\ UNCHANGED <<kind, code, cbErr, first, serveErr, ctx, watcher, main, result>>

(* The deferred calls: `go Shutdown` and Unlock. *)
HandleReturn(r) ==
    /\ conn[r] = "return"
    /\ mu' = NoRequest
    /\ conn' = [conn EXCEPT ![r] = "shutdown"]
    /\ UNCHANGED <<kind, code, cbErr, first, serverVars, ctx, watcher, main, result>>

(* The Shutdown goroutine of a handler whose own connection is idle. *)
HandlerShutdown(r) ==
    /\ conn[r] = "shutdown"
    /\ port' = "closed"
    /\ conn' = [conn EXCEPT ![r] = "idle"]
    /\ UNCHANGED <<kind, fieldVars, first, serveErr, ctx, watcher, main, result>>

-------------------------------------------------------------------------------
(* The server goroutine: srv.Serve ends when the listener is closed, or on *)
(* an accept error, and its error goes to the buffered channel serveErr.   *)
ServerExit ==
    /\ serveErr = "running" /\ port = "closed"
    /\ IF main = "parked" THEN main' = "exited" /\ serveErr' = "taken"
                          ELSE UNCHANGED main /\ serveErr' = "sent"
    /\ UNCHANGED <<kind, conn, fieldVars, first, port, ctx, watcher, result>>

AcceptFails ==
    /\ AcceptFaults
    /\ serveErr = "running" /\ port = "open"
    /\ port' = "closed"
    /\ UNCHANGED <<kind, conn, fieldVars, first, serveErr, ctx, watcher, main, result>>

(* The watcher goroutine. *)
WatcherSelect ==
    /\ watcher = "setup"
    /\ \/ ctx = "done" /\ watcher' = "close"
       \/ received /\ watcher' = "left"
       \/ ctx = "live" /\ ~received /\ watcher' = "parked"
    /\ UNCHANGED <<kind, conn, fieldVars, first, serverVars, ctx, main, result>>

WatcherShutdown ==
    /\ watcher = "close"
    /\ port' = "closed"
    /\ watcher' = "drain"
    /\ UNCHANGED <<kind, conn, fieldVars, first, serveErr, ctx, main, result>>

(* Shutdown returns once no connection is active; then close(ctxCancel). *)
WatcherCancels ==
    /\ watcher = "drain"
    /\ \A r \in Requests : conn[r] \in {"none", "shutdown", "idle"}
    /\ watcher' = "cancelled"
    /\ main' = IF main = "parked" THEN "cancelled" ELSE main
    /\ UNCHANGED <<kind, conn, fieldVars, first, serverVars, ctx, result>>

-------------------------------------------------------------------------------
Return(e) ==
    /\ main' = "returned"
    /\ result' = [code |-> NoRequest, read |-> "whole", err |-> e]

(* Serve's select, when something is ready as it gets there. *)
Select ==
    /\ main = "setup"
    /\ \/ received /\ main' = "received" /\ UNCHANGED serveErr
       \/ watcher = "cancelled" /\ main' = "cancelled" /\ UNCHANGED serveErr
       \/ serveErr = "sent" /\ main' = "exited" /\ serveErr' = "taken"
       \/ /\ ~received /\ watcher # "cancelled" /\ serveErr # "sent"
          /\ main' = "parked" /\ UNCHANGED serveErr
    /\ UNCHANGED <<kind, conn, fieldVars, first, port, ctx, watcher, result>>

(* Mutant: without that case Serve waits for the watcher's Shutdown. *)
ServerExitedIgnored ==
    /\ main = "exited" /\ watcher = "cancelled"
    /\ Return("ctx")
    /\ UNCHANGED <<kind, conn, fieldVars, first, serverVars, ctx, watcher>>

(* case <-serveErr. *)
ServerExited ==
    /\ main = "exited"
    /\ Return(IF ctx = "done" THEN "ctx" ELSE "no callback")
    /\ UNCHANGED <<kind, conn, fieldVars, first, serverVars, ctx, watcher>>

(* case <-ctxCancel: drain the server goroutine. *)
Cancelled ==
    /\ main = "cancelled" /\ serveErr = "sent"
    /\ serveErr' = "taken"
    /\ Return("ctx")
    /\ UNCHANGED <<kind, conn, fieldVars, first, port, ctx, watcher>>

(* Mutant: Serve does not wait for the server goroutine. *)
DrainNothing ==
    /\ main = "received"
    /\ main' = "read"
    /\ result' = [result EXCEPT !.code = code]
    /\ UNCHANGED <<kind, conn, fieldVars, first, serverVars, ctx, watcher>>

(* case <-l.received: drain the server goroutine, then read l.code and     *)
(* l.cbErr without l.mu.  A handler that is storing its code makes the     *)
(* first read see the old string, the new one or a mix of the two.         *)
Drain ==
    /\ main = "received" /\ serveErr = "sent"
    /\ serveErr' = "taken"
    /\ main' = "read"
    /\ \/ result' = [result EXCEPT !.code = code]
       \/ /\ \E r \in Requests : conn[r] = "store"
          /\ result' = [result EXCEPT !.code = mu, !.read = "torn"]
    /\ UNCHANGED <<kind, conn, fieldVars, first, port, ctx, watcher>>

ReadError ==
    /\ main = "read"
    /\ main' = "returned"
    /\ result' = [result EXCEPT !.err = cbErr]
    /\ UNCHANGED <<kind, conn, fieldVars, first, serverVars, ctx, watcher>>

(* Login goes on without the listener; the process may stop here. *)
Finished == main = "returned" /\ UNCHANGED vars

Handler(r) == \/ HandleLock(r) \/ HandleStore(r) \/ HandleVerdict(r) \/ HandleSignal(r)
              \/ HandleReturn(r) \/ HandlerShutdown(r)
Watcher == WatcherSelect \/ WatcherShutdown \/ WatcherCancels
Serve   == Select \/ ServerExited \/ Cancelled \/ Drain \/ ReadError

Next ==
    \/ \E r \in Requests : Connect(r) \/ SendRequest(r) \/ Handler(r)
    \/ Cancel \/ AcceptFails
    \/ ServerExit \/ Watcher \/ Serve \/ Finished

(* The Go scheduler runs every goroutine that can run; nothing is assumed  *)
(* of the browser, which may leave a request unfinished, nor of the user.  *)
Fairness ==
    /\ \A r \in Requests : WF_vars(Handler(r))
    /\ WF_vars(ServerExit) /\ WF_vars(Watcher) /\ WF_vars(Serve)

Spec == Init /\ [][Next]_vars /\ Fairness

-------------------------------------------------------------------------------
(* Serve hands back a code without an error only if the callback that was  *)
(* handled first carried the nonce, whatever later callbacks do meanwhile. *)
SuccessNeedsNonce ==
    main = "returned" /\ result.err = "nil" => first # NoRequest /\ kind[first] = "good"

(* When Serve returns, its port accepts no further callback and the server *)
(* goroutine has ended: nothing of this login runs into the next one.      *)
ReturnsDrained == main = "returned" => port = "closed" /\ serveErr = "taken"

(* A cancelled login returns, also with a browser connection that hangs.   *)
CancelReturns == ctx = "done" ~> main = "returned"

(* A callback ends the wait. *)
CallbackReturns == received ~> main = "returned"

(* A login that has been answered or cancelled does not hang.              *)
ServeReturns == CancelReturns /\ CallbackReturns

(* Serve reports a callback whose page the user has been shown, unless the *)
(* login was cancelled: with a listener that does not fail, the branch for *)
(* a server that "exited on its own without a callback" is not taken.      *)
CallbackReported ==
    main = "returned" /\ received /\ ctx = "live" => result.err # "no callback"

(* The listener "serves exactly one request, then shuts down": what Serve  *)
(* returns is what that request brought.                                   *)
OutcomeOf(r) == CASE kind[r] = "good"   -> "nil"
                  [] kind[r] = "stale"  -> "mismatch"
                  [] kind[r] = "denied" -> "denied"

ServesOneRequest ==
    main = "returned" /\ result.err \in Errors =>
        /\ result.err = OutcomeOf(first)
        /\ result.err = "nil" => result.code = first /\ result.read = "whole"
===============================================================================

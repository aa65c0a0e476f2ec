------------------------- MODULE ThreadsNavigation -------------------------
(***************************************************************************)
(* The guarded navigation of a cookie session: navigate_session_page and   *)
(* the route handler of install_session_navigation_guard, of               *)
(* riviu/platforms/threads_session.py. The handler fetches the hops of a   *)
(* navigation itself, and a page that ends elsewhere is opened again at    *)
(* that address, authorised by the handler's own abort.                    *)
(*                                                                         *)
(* Requests that claim no attempt (frames, scripts, a second request for   *)
(* the same address) are aborted or passed on and change nothing here.     *)
(***************************************************************************)
EXTENDS Naturals, FiniteSets

CONSTANTS
    Urls,      \* addresses allowed_session_url lets through
    Foreign,   \* an address it refuses
    NoUrl,     \* no address
    Budget,    \* hops of one navigation: scope["remaining"], 6
    MaxNavs    \* bound: navigations of one page

VARIABLES
    nav,        \* where navigate_session_page stands
    navs,       \* navigations so far
    attempt,    \* attempts so far in this navigation; the last one is scope["attempt"]
    url,        \* attempt -> the address it goes to
    claimed,    \* attempts whose request came
    remaining,  \* scope["remaining"]
    pending,    \* scope["pending"]: the attempt that may be continued, and where
    handler,    \* attempt -> where its route handler stands
    target,     \* attempt -> the hop it is at
    finalUrl,   \* evidence["final_url"]
    goto,       \* how page.goto of the last attempt ended
    shown       \* history: the address Chromium shows and the address its document was fetched from

vars == <<nav, navs, attempt, url, claimed, remaining, pending, handler, target, finalUrl, goto, shown>>

Attempts == 1 .. Budget
NoPending == [attempt |-> 0, url |-> NoUrl]
Current(a) == nav = "goto" /\ a = attempt

Init ==
    /\ nav = "idle" /\ navs = 0 /\ attempt = 0
    /\ url = [a \in Attempts |-> NoUrl] /\ claimed = {} /\ remaining = 0 /\ pending = NoPending
    /\ handler = [a \in Attempts |-> "none"] /\ target = [a \in Attempts |-> NoUrl]
    /\ finalUrl = NoUrl /\ goto = "none" /\ shown = [at |-> NoUrl, from |-> NoUrl]

\* navigate_session_page begins: one navigation at a time, a fresh scope, its first attempt.
Navigate ==
    /\ nav = "idle" /\ navs < MaxNavs
    /\ nav' = "goto" /\ navs' = navs + 1 /\ attempt' = 1
    /\ \E u \in Urls : url' = [a \in Attempts |-> IF a = 1 THEN u ELSE NoUrl]
    /\ claimed' = {} /\ remaining' = Budget /\ pending' = NoPending
    /\ handler' = [a \in Attempts |-> "none"] /\ target' = [a \in Attempts |-> NoUrl]
    /\ finalUrl' = NoUrl /\ goto' = "none" /\ shown' = [at |-> NoUrl, from |-> NoUrl]

-----------------------------------------------------------------------------
(* guard(): the handler of a claimed request.                              *)

HandlerOnly == UNCHANGED <<nav, navs, attempt, url>>
At(a, place) == handler' = [handler EXCEPT ![a] = place]

\* route.abort(): the request fails; goto, if it is this attempt's, fails with it.
Abort(a) ==
    /\ At(a, "over")
    /\ goto' = IF Current(a) /\ goto = "none" THEN "failed" ELSE goto

Claim(a) ==
    /\ Current(a) /\ a \notin claimed /\ goto = "none"
    /\ claimed' = claimed \cup {a}
    /\ At(a, "fetch") /\ target' = [target EXCEPT ![a] = url[a]]
    /\ UNCHANGED <<remaining, pending, finalUrl, goto, shown>> /\ HandlerOnly

\* One hop is fetched with the context's cookie jar while the attempt stands and the budget lasts.
Fetch(a) ==
    /\ handler[a] = "fetch"
    /\ IF Current(a) /\ remaining > 0 /\ target[a] \in Urls
       THEN remaining' = remaining - 1 /\ At(a, "response") /\ UNCHANGED goto
       ELSE Abort(a) /\ UNCHANGED remaining
    /\ UNCHANGED <<claimed, pending, target, finalUrl, shown>> /\ HandlerOnly

\* A redirect is followed only inside the budget and the allowed addresses.
Redirected(a) ==
    /\ handler[a] = "response"
    /\ \E u \in Urls \cup {Foreign} :
        IF Current(a) /\ remaining > 0 /\ u \in Urls
        THEN At(a, "fetch") /\ target' = [target EXCEPT ![a] = u] /\ UNCHANGED goto
        ELSE Abort(a) /\ UNCHANGED target
    /\ UNCHANGED <<claimed, remaining, pending, finalUrl, shown>> /\ HandlerOnly

\* Mutant: a page that ends elsewhere is shown under the address first asked for.
AnsweredInPlace(a) ==
    /\ handler[a] = "response"
    /\ IF ~Current(a) THEN Abort(a) /\ UNCHANGED <<finalUrl, pending>>
       ELSE finalUrl' = target[a] /\ At(a, "body") /\ UNCHANGED <<goto, pending>>
    /\ UNCHANGED <<claimed, remaining, target, shown>> /\ HandlerOnly

\* A document: at another address than the one asked for, the handler's own abort authorises exactly
\* one continuation there.
Answered(a) ==
    /\ handler[a] = "response"
    /\ IF ~Current(a) THEN Abort(a) /\ UNCHANGED <<finalUrl, pending>>
       ELSE /\ finalUrl' = target[a]
            /\ IF target[a] = url[a] THEN At(a, "body") /\ UNCHANGED <<goto, pending>>
               ELSE IF remaining = 0 THEN Abort(a) /\ UNCHANGED pending
               ELSE /\ pending' = [attempt |-> a, url |-> target[a]]
                    /\ At(a, "aborting") /\ goto' = "aborted"
    /\ UNCHANGED <<claimed, remaining, target, shown>> /\ HandlerOnly

\* The body is read and fulfilled, if the attempt still stands.
Fulfil(a) ==
    /\ handler[a] = "body"
    /\ IF Current(a) /\ goto = "none"
       THEN At(a, "over") /\ goto' = "ok" /\ shown' = [at |-> url[a], from |-> target[a]]
       ELSE Abort(a) /\ UNCHANGED shown
    /\ UNCHANGED <<claimed, remaining, pending, target, finalUrl>> /\ HandlerOnly

\* route.abort("aborted") returns.
Aborted(a) ==
    /\ handler[a] = "aborting" /\ At(a, "over")
    /\ UNCHANGED <<claimed, remaining, pending, target, finalUrl, goto, shown>> /\ HandlerOnly

\* `except Exception`: a fetch, a body or an abort failed, or the deadline of the hop passed.
Broke(a) ==
    /\ handler[a] \in {"fetch", "response", "body", "aborting"}
    /\ pending' = NoPending /\ Abort(a)
    /\ UNCHANGED <<claimed, remaining, target, finalUrl, shown>> /\ HandlerOnly

HandlerStep(a) ==
    \/ Claim(a) \/ Fetch(a) \/ Redirected(a) \/ Answered(a) \/ Fulfil(a) \/ Aborted(a) \/ Broke(a)

-----------------------------------------------------------------------------
(* navigate_session_page.                                                  *)

\* `finally`: the scope is revoked, its evidence is dropped unless it succeeded, and its handlers are
\* cancelled and gathered before the caller goes on.
Revoke(outcome) ==
    /\ nav' = outcome
    /\ pending' = NoPending
    /\ finalUrl' = IF outcome = "succeeded" THEN finalUrl ELSE NoUrl
    /\ UNCHANGED <<navs, attempt, url, claimed, remaining, handler, target, goto, shown>>

\* goto was aborted: only the handler's abort of this very attempt leads to another goto, once.
Continue ==
    /\ nav = "goto" /\ goto = "aborted"
    /\ IF pending.attempt = attempt /\ pending.url \in Urls /\ remaining > 0
       THEN /\ attempt' = attempt + 1 /\ goto' = "none" /\ pending' = NoPending
            /\ url' = [url EXCEPT ![attempt + 1] = pending.url]
            /\ UNCHANGED <<nav, navs, claimed, remaining, handler, target, finalUrl, shown>>
       ELSE Revoke("failed")

Succeed == nav = "goto" /\ goto = "ok" /\ Revoke("succeeded")

\* goto failed, its deadline passed, or the caller was cancelled.
Fail == nav = "goto" /\ Revoke("failed")

\* Chromium aborts a goto for reasons of its own: a download, another navigation of the page.
Interrupted ==
    /\ nav = "goto" /\ goto = "none" /\ goto' = "aborted"
    /\ UNCHANGED <<nav, navs, attempt, url, claimed, remaining, pending, handler, target, finalUrl, shown>>

\* A handler cancelled by the revoked scope: it drops the continuation and aborts its request.
Cancelled(a) ==
    /\ nav \in {"succeeded", "failed"} /\ handler[a] \notin {"none", "over"}
    /\ At(a, "over") /\ pending' = NoPending
    /\ UNCHANGED <<nav, navs, attempt, url, claimed, remaining, target, finalUrl, goto, shown>>

Running == {a \in Attempts : handler[a] \notin {"none", "over"}}

\* The handlers are gathered; the page may be navigated again.
Gathered ==
    /\ nav \in {"succeeded", "failed"} /\ Running = {}
    /\ nav' = "idle"
    /\ UNCHANGED <<navs, attempt, url, claimed, remaining, pending, handler, target, finalUrl, goto, shown>>

Stays == nav = "idle" /\ navs = MaxNavs /\ UNCHANGED vars

Next ==
    \/ Navigate \/ (\E a \in Attempts : HandlerStep(a) \/ Cancelled(a))
    \/ Continue \/ Succeed \/ Fail \/ Interrupted \/ Gathered \/ Stays

Spec == Init /\ [][Next]_vars

-----------------------------------------------------------------------------
(* Properties.                                                             *)

TypeOK ==
    /\ nav \in {"idle", "goto", "succeeded", "failed"} /\ attempt \in 0 .. Budget
    /\ claimed \subseteq Attempts /\ remaining \in 0 .. Budget /\ pending.attempt \in 0 .. Budget
    /\ handler \in [Attempts -> {"none", "fetch", "response", "body", "aborting", "over"}]
    /\ finalUrl \in Urls \cup {NoUrl} /\ goto \in {"none", "ok", "failed", "aborted"}

\* A navigation that succeeds shows a document under the address it was fetched from, and that is the
\* address callers read in final_url, across redirects, continuations and late handlers.
ShownIsFinal ==
    nav = "succeeded" => shown.at = finalUrl /\ shown.from = finalUrl /\ finalUrl \in Urls

\* Between navigations nothing is authorised: no handler of the last one still runs, no abort may be
\* continued, and evidence of a navigation that failed is gone.
IdleIsClosed ==
    nav = "idle" => /\ Running = {} /\ pending = NoPending
                    /\ finalUrl # NoUrl => shown.at = finalUrl

=============================================================================

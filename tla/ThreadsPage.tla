---------------------------- MODULE ThreadsPage ----------------------------
(***************************************************************************)
(* What one Threads post is found to say: the HTTP answers and the         *)
(* Chromium snapshots of one link, each parsed by parse_threads_http and   *)
(* merged by merge_results, up to the row write_threads_result writes      *)
(* (riviu/platforms/threads.py).                                           *)
(*                                                                         *)
(* A page is what its typed payloads contain: the sets of numbers found    *)
(* for the views and for one action (the other three are read the same     *)
(* way), the number in its header, and what it proves of the login. The    *)
(* JSON and HTML scans that find them are abstracted to those sets.        *)
(***************************************************************************)
EXTENDS Naturals, FiniteSets, Sequences

CONSTANTS
    Sessions,  \* with a cookie session (TRUE) or anonymous (FALSE)
    Numbers,   \* counts a payload can give
    Display,   \* the rounded count of a rendered page: no element of Numbers
    None,      \* no number
    MaxPolls   \* bound: snapshots before BROWSER_POLL_SECONDS is over

VARIABLES
    session,   \* session_cookies is not None
    phase,     \* the request or snapshot the check is waiting for
    request,   \* request_result
    found,     \* navigation: the result of Chromium so far
    verified,  \* a snapshot of this page load proved the login
    extracted, \* the last DOM extraction found the card of the post
    polls,     \* snapshots so far
    final,     \* the result of the check
    cell,      \* the views and action cells of the row
    seen,      \* history: what the pages of this check proved of the login
    nulled     \* history: the post's own view query answered null, or contradicted itself, on a page used

vars == <<session, phase, request, found, verified, extracted, polls, final, cell, seen, nulled>>

-----------------------------------------------------------------------------
(* Results.                                                                *)

\* `err` is the presence of an error text, `kind` the error_kind, which a result may keep without one.
Result(views, likes, src, kind, err, auth) ==
    [views |-> views, likes |-> likes, src |-> src, kind |-> kind, err |-> err, auth |-> auth]

Failure(kind) == Result(None, None, "", kind, TRUE, FALSE)
Blank == Result(None, None, "", "", FALSE, FALSE)

TerminalErrors == {"geo_restricted", "audience", "invalid_post", "redirect", "access_denied",
                   "rate_limit", "auth_invalid", "auth_checkpoint"}

HasNumber(r) == r.views # None \/ r.likes # None
MissingCore(r) == r.views = None \/ r.likes = None

\* One number stands only when the payloads agree on it.
Sole(values) == IF Cardinality(values) = 1 THEN CHOOSE v \in values : TRUE ELSE None

\* _embedded_post_metrics and _permalink_header_views: the view query of the post decides; without
\* one the logged-out count stands, else the number of the header.
Views(page) ==
    IF page.query # {} THEN Sole(page.query)
    ELSE IF Sole(page.counts) # None THEN Sole(page.counts) ELSE page.header

Source(page) ==
    IF page.query # {} THEN IF Sole(page.query) = None THEN "view_query_unknown" ELSE "view_query_exact"
    ELSE IF Sole(page.counts) # None THEN "embedded_exact"
    ELSE IF page.header # None THEN "header_display" ELSE ""

\* parse_threads_http.
Parse(page) ==
    IF page.place # "post" THEN Failure(page.place)
    ELSE IF page.gate = "geo" THEN Failure("geo_restricted")
    ELSE IF page.gate = "audience" /\ page.likes = {} THEN Failure("audience")
    ELSE Result(Views(page), Sole(page.likes), Source(page), "", FALSE, FALSE)

-----------------------------------------------------------------------------
(* merge_results.                                                          *)

AuthUnknown(first, second) ==
    second.kind = "auth_unknown" \/ (first.kind = "auth_unknown" /\ ~second.auth)

AuthFailed == {"auth_invalid", "auth_checkpoint"}

\* An explicit null of the view query invalidates a number read from the header.
Invalidates(first, second) == first.src = "header_display" /\ second.src = "view_query_unknown"

\* Mutant: a later number replaces an explicit null of the view query.
MergedViewsLoose(first, second) ==
    LET kept == IF Invalidates(first, second) THEN None ELSE first.views
    IN  IF second.views # None /\ kept = None THEN second.views ELSE kept

MergedViews(first, second) ==
    LET kept == IF Invalidates(first, second) THEN None ELSE first.views
        closed == first.src = "view_query_unknown" /\ second.src # "view_query_exact"
        better == first.src = "header_display" /\ second.src = "view_query_exact"
    IN  IF ~closed /\ second.views # None /\ (kept = None \/ better) THEN second.views ELSE kept

MergedSource(first, second) ==
    LET own == IF Invalidates(first, second) THEN "view_query_unknown" ELSE first.src
    IN  IF \/ second.src # "" /\ first.views = None
              /\ (own # "view_query_unknown" \/ second.src = "view_query_exact")
           \/ own = "header_display" /\ second.src = "view_query_exact"
        THEN second.src ELSE own

\* Mutant: the numbers of the later page replace those the HTTP post gave.
MergedLikesLast(first, second) == IF second.likes # None THEN second.likes ELSE first.likes

\* The later page only fills what is missing.
MergedLikes(first, second) == IF first.likes # None THEN first.likes ELSE second.likes

Merge(first, second) ==
    LET views == MergedViews(first, second)
        likes == MergedLikes(first, second)
        failed == {r.kind : r \in {first, second}}
    IN  IF AuthUnknown(first, second) THEN Failure("auth_unknown")
        ELSE IF failed \cap AuthFailed # {}
        THEN Failure(IF second.kind \in AuthFailed THEN second.kind ELSE first.kind)
        ELSE IF "geo_restricted" \in failed THEN Failure("geo_restricted")
        ELSE LET err == views = None /\ likes = None /\ (first.err \/ second.err)
             IN  Result(views, likes, MergedSource(first, second),
                        IF ~err THEN "" ELSE IF second.kind # "" THEN second.kind ELSE first.kind,
                        err, first.auth \/ second.auth)

-----------------------------------------------------------------------------
(* Pages and the checks of one link.                                       *)

Pages ==
    [place : {"post", "invalid_post", "redirect"}, gate : {"none"}, counts : {{}}, query : {{}}, likes : {{}}, header : {None}]
    \cup [place : {"post"}, gate : {"geo", "audience"}, counts : {{}}, query : {{}}, likes : {{}, {None}}, header : {None}]
    \cup [place : {"post"}, gate : {"none"}, counts : {{}, Numbers} \cup {{n} : n \in Numbers},
          query : {{}, {None}} \cup {{n} : n \in Numbers}, likes : {{}, {None}} \cup {{n} : n \in Numbers},
          header : {None, Display}]

\* What parse_threads_http can make of a page.
Readings == {Parse(page) : page \in Pages}

\* auth_evidence: the address decides first; then the viewers of the boot tables, which are "null", of
\* no account ("odd"), or an account. They must agree, and on one account.
Accounts == {"account", "other"}

AuthEvidence(path, viewers) ==
    LET evidence == {IF v \in Accounts THEN "valid" ELSE IF v = "null" THEN "invalid" ELSE "unknown" : v \in viewers}
    IN  IF path # "page" THEN path
        ELSE IF Cardinality(evidence) # 1 \/ Accounts \subseteq viewers THEN "unknown"
        ELSE CHOOSE e \in evidence : TRUE

Logins ==
    IF ~session THEN {"none"}
    ELSE {AuthEvidence(path, viewers) :
              path \in {"page", "checkpoint", "invalid"}, viewers \in SUBSET ({"null", "odd"} \cup Accounts)}

Init ==
    /\ session \in Sessions
    /\ phase \in {"http", "goto"} /\ request = Blank /\ found = Blank /\ final = Blank
    /\ verified = FALSE /\ extracted = FALSE /\ polls = 0
    /\ cell \in [views : {Display}, likes : Numbers]
    /\ seen = {} /\ nulled = FALSE

\* The kind of an error is named for the evidence.
Refusal(login) == Failure(IF login = "checkpoint" THEN "auth_checkpoint" ELSE "auth_invalid")

\* Mutant: an answer of a page that did not prove the login is used.
HttpAnswerTrusting(login, reading) ==
    IF login \in {"invalid", "checkpoint"} THEN Refusal(login)
    ELSE [reading EXCEPT !.auth = session]

\* fetch_threads_http: a session must be proved by the page itself.
HttpAnswer(login, reading) ==
    IF login \in {"invalid", "checkpoint"} THEN Refusal(login)
    ELSE IF session /\ login # "valid" THEN Failure("auth_unknown")
    ELSE [reading EXCEPT !.auth = session]

SaysNull(r) == r.src = "view_query_unknown"

HttpErrors == {"access_denied", "rate_limit", "http", "transport", "redirect"} \cup (IF session THEN {"auth_unknown"} ELSE {})

\* The first request and what comes of it: a second one for a transport error or a missing number,
\* then Chromium unless the answer is final or complete. A request run has no Chromium, and a hybrid
\* one none on a route retired meanwhile.
AfterHttp(r, again) ==
    /\ request' = r /\ final' = r
    /\ IF again /\ r.kind \notin TerminalErrors
          /\ ((MissingCore(r) /\ ~r.err) \/ r.kind = "transport") THEN phase' = "retry"
       ELSE IF r.kind \notin TerminalErrors /\ MissingCore(r) THEN phase' \in {"goto", "write"}
       ELSE phase' = "write"
    /\ UNCHANGED <<session, found, verified, extracted, polls, cell>>

\* The second answer, merged; a final error of it stands.
Second(r) ==
    LET merged == Merge(request, r)
    IN  IF r.kind \in TerminalErrors THEN [merged EXCEPT !.kind = r.kind] ELSE merged

Http ==
    /\ phase \in {"http", "retry"}
    /\ \/ \E reading \in Readings, login \in Logins :
            LET r == HttpAnswer(login, reading)
            IN  /\ seen' = seen \cup {login} /\ nulled' = (nulled \/ SaysNull(r))
                /\ AfterHttp(IF phase = "http" THEN r ELSE Second(r), phase = "http")
       \/ \E kind \in HttpErrors :
            /\ AfterHttp(IF phase = "http" THEN Failure(kind) ELSE Second(Failure(kind)), phase = "http")
            /\ UNCHANGED <<seen, nulled>>

Ends(r) ==
    /\ final' = Merge(request, r) /\ phase' = "write"
    /\ UNCHANGED <<session, request, found, verified, extracted, polls, cell, nulled>>

\* A snapshot is used once the login is proved, and a refused one ends the check. After a proof only
\* positive evidence fails it.
Usable(login) == ~session \/ verified \/ login = "valid"

\* The navigation of Chromium: its status, and the document it was answered with.
Goto ==
    /\ phase = "goto"
    /\ \/ \E kind \in {"access_denied", "rate_limit", "browser_start"} : Ends(Failure(kind)) /\ UNCHANGED seen
       \/ \E reading \in Readings, login \in Logins :
            LET r == [reading EXCEPT !.auth = session]
            IN  /\ seen' = seen \cup {login}
                /\ IF login \in {"invalid", "checkpoint"} THEN Ends(Refusal(login))
                   ELSE IF Usable(login) /\ r.kind \in TerminalErrors THEN Ends(r)
                   ELSE /\ found' = (IF Usable(login) THEN r ELSE Blank)
                        /\ verified' = (login = "valid")
                        /\ phase' = "poll"
                        /\ nulled' = (nulled \/ (Usable(login) /\ SaysNull(r)))
                        /\ UNCHANGED <<session, request, extracted, polls, final, cell>>

\* _dom_result: the numbers of the rendered card; it says nothing of where the views come from.
DomResult(likes, views) == Result(views, likes, "", "", FALSE, FALSE)

\* The card of a session's page counts once the login is proved.
CardCounts(proved) == ~session \/ proved

\* One poll: the snapshot, unless the page has moved off the post, then the card.
Poll ==
    /\ phase = "poll" /\ polls < MaxPolls
    /\ \/ session /\ \E place \in {"invalid_post", "redirect"} : Ends(Failure(place)) /\ UNCHANGED seen
       \/ \E reading \in Readings, login \in Logins, card \in BOOLEAN, likes \in {None, Display}, views \in {None, Display} :
            LET r == [reading EXCEPT !.auth = session]
                proved == verified \/ login = "valid"
                merged == IF Usable(login) THEN Merge(found, r) ELSE found
            IN  /\ card \/ (likes = None /\ views = None)
                /\ session => reading.kind \notin {"invalid_post", "redirect"}
                /\ seen' = seen \cup {login}
                /\ IF login \in {"invalid", "checkpoint"} THEN Ends(Refusal(login))
                   ELSE IF Usable(login) /\ r.kind \in TerminalErrors THEN Ends(r)
                   ELSE /\ verified' = proved
                        /\ extracted' = card
                        /\ found' = IF card /\ CardCounts(proved) THEN Merge(merged, DomResult(likes, views)) ELSE merged
                        /\ polls' = polls + 1
                        /\ phase' = IF MissingCore(found') THEN "poll" ELSE "polled"
                        /\ nulled' = (nulled \/ (Usable(login) /\ SaysNull(r)))
                        /\ UNCHANGED <<session, request, final, cell>>

\* The numbers are complete, or BROWSER_POLL_SECONDS is over.
Polled ==
    /\ phase = "polled" \/ (phase = "poll" /\ polls > 0)
    /\ IF session /\ ~verified THEN Ends(Failure("auth_unknown"))
       ELSE Ends(Merge(found, IF extracted THEN [Blank EXCEPT !.auth = session]
                              ELSE [Failure("payload") EXCEPT !.auth = session]))
    /\ UNCHANGED seen

\* `except Exception` of fetch_threads_browser: the page, the context or the connection broke.
Breaks ==
    /\ phase \in {"goto", "poll", "polled"}
    /\ Ends(IF session /\ ~verified THEN Failure("auth_unknown") ELSE Merge(found, Failure("transport")))
    /\ UNCHANGED seen

\* write_threads_result: a number found replaces the cell's; an explicit null of the views clears it.
\* A refused session writes nothing: record() raises first.
Write ==
    /\ phase = "write"
    /\ phase' = "done"
    /\ cell' = IF final.kind \in AuthFailed \cup {"auth_unknown"} THEN cell
               ELSE [views |-> IF final.views # None THEN final.views
                               ELSE IF final.src = "view_query_unknown" THEN None ELSE cell.views,
                     likes |-> IF final.likes # None THEN final.likes ELSE cell.likes]
    /\ UNCHANGED <<session, request, found, verified, extracted, polls, final, seen, nulled>>

Done == phase = "done" /\ UNCHANGED vars

Next == Http \/ Goto \/ Poll \/ Polled \/ Breaks \/ Write \/ Done

Spec == Init /\ [][Next]_vars

-----------------------------------------------------------------------------
(* Properties.                                                             *)

Kinds == TerminalErrors \cup {"", "auth_unknown", "http", "transport", "payload", "browser_start"}
Sources == {"", "embedded_exact", "view_query_exact", "view_query_unknown", "header_display"}
Results == [views : Numbers \cup {None, Display}, likes : Numbers \cup {None, Display},
            src : Sources, kind : Kinds, err : BOOLEAN, auth : BOOLEAN]

TypeOK ==
    /\ request \in Results /\ found \in Results /\ final \in Results
    /\ phase \in {"http", "retry", "goto", "poll", "polled", "write", "done"}
    /\ cell \in [views : Numbers \cup {None, Display}, likes : Numbers \cup {None, Display}]

Over == phase \in {"write", "done"}

\* With a cookie session no number reaches a row unless a page of this link proved the login, and a
\* page that refuses it refuses the result, whatever the other pages gave.
OnlyProvedNumbers ==
    Over /\ session =>
        /\ HasNumber(final) => "valid" \in seen
        /\ seen \cap {"invalid", "checkpoint"} # {} => final.kind \in AuthFailed \cup {"auth_unknown"}

\* What the answer of this step is merged into.
MergedInto == IF phase \in {"http", "retry"} THEN request' ELSE found'

\* A count read from the rendered card, of which the code knows no source.
CardViews(r) == r.views = Display /\ r.src = ""

\* When the post's own view query answers null, or contradicts itself, the rounded count read of the
\* post so far is given up. Of a count read from the rendered card the code knows no source, so that
\* count stays and reaches the row: TLC refutes this (docs/threads-scanning.md:20 and :44).
NullGivesUpRounded == [][~nulled /\ nulled' => MergedInto.views # Display]_vars

\* A number read from the post over HTTP is the one the row gets: a later page only fills gaps. And
\* where the null is noted as the source of the views, no rounded number stands in for it in the merges
\* that follow: over HTTP, in Chromium, or between the two. The null also gives up the count of a
\* header; only the count of a card, read in Chromium before, has no source to give it up by.
BestNumberStands ==
    [][/\ request.likes # None =>
           /\ request'.err \/ request'.likes = request.likes
           /\ phase' = "write" /\ ~final'.err => final'.likes = request.likes
       /\ request.src = "view_query_unknown" => request'.views # Display
       /\ found.src = "view_query_unknown" => found'.views # Display
       /\ phase' = "write" /\ request.src = "view_query_unknown" /\ ~final'.err => final'.views # Display
       /\ ~nulled /\ nulled' /\ ~CardViews(found) => MergedInto.views # Display]_vars

=============================================================================

---------------------------- MODULE TikTokParse -----------------------------
(***************************************************************************)
(* How a page of TikTok is read (parsing.py): the numbers of the item of   *)
(* the post asked for, or why there are none.                              *)
(*                                                                         *)
(* A post is "own", the one the row is of, or "other". A page is where its *)
(* address led and the items embedded in it; an item has its id, or the    *)
(* key it stands under, and its stats blobs, of which views, likes (for    *)
(* likes, comments and shares) and saves are kept.                         *)
(***************************************************************************)
EXTENDS Naturals, SequencesExt

CONSTANTS
    Blobs, \* the sets of stats blobs an item may have
    None   \* no number

Posts == {"own", "other"}
Places == Posts \cup {"page"} \* "page": a page of no post

Largest(S) == CHOOSE n \in S : \A m \in S : m <= n
Least(S) == CHOOSE n \in S : \A m \in S : n <= m
Given(entry, field) == {b[field] : b \in entry.blobs} \ {None}

\* metrics_from_stats_sources: the largest number of each field; only the saves may be missing.
Metrics(entry) ==
    LET Most(field) == IF Given(entry, field) = {} THEN None ELSE Largest(Given(entry, field))
    IN IF Most("views") = None \/ Most("likes") = None THEN None
       ELSE [views |-> Most("views"), likes |-> Most("likes"), saves |-> Most("saves")]

Engagement(m) == {m.likes, m.saves} \ {None}

\* validate_metrics
Plausible(m) ==
    \A n \in Engagement(m) : IF m.views = 0 THEN n = 0 ELSE n <= m.views * 5

\* The numbers of the first of these items, if they are plausible.
CountsOfLeast(items, readable) ==
    LET first == items[Least(readable)]
    IN IF readable # {} /\ Plausible(Metrics(first)) THEN [of |-> first.id, data |-> Metrics(first)] ELSE None

\* iter_matching_item_structs: the items whose id is that of the post.
OfPost(page, post) == {i \in DOMAIN page.items : page.items[i].id = post}

\* Mutant: the first item with numbers is read, whichever post it is of.
CountsOfFirst(page, post) ==
    CountsOfLeast(page.items, {i \in DOMAIN page.items : Metrics(page.items[i]) # None})

\* parse_counts: the first item of the post with numbers, if they are plausible.
Counts(page, post) ==
    CountsOfLeast(page.items, {i \in OfPost(page, post) : Metrics(page.items[i]) # None})

\* A number anywhere in the page (REQUEST_METRIC_HINT_PATTERN).
Hints(page) ==
    \E i \in Range(page.items) : Given(i, "views") \cup Given(i, "likes") # {}

Hides(page, post) == \E i \in OfPost(page, post) : page.items[i].hides

\* is_tiktok_error_page: the item was not found, or a heading says that the post is not there.
ErrorPage(page) == page.missing \/ page.error

\* parse_fetched_request_page, and the end of a page read in Chromium.
Status(page, withId) ==
    LET post == IF withId THEN "own" ELSE page.place
    IN IF withId /\ page.place # "own" THEN "mismatch"
       ELSE IF post = "page" THEN "unreadable"
       ELSE IF Counts(page, post) # None THEN "success"
       ELSE IF ErrorPage(page) THEN "suspected"
       ELSE IF Hides(page, post) THEN "hidden"
       ELSE "unreadable"

\* The pages a link may lead to: up to two items; `missing` is the status code of an item that
\* was not found, `error` a heading that says so; `titled`: a channel name or handle is found.
Items == [id : Posts, blobs : Blobs, hides : {FALSE}] \cup [id : Posts, blobs : {{}}, hides : {TRUE}]

Pages == [place : Places, items : BoundedSeq(Items, 2), missing : BOOLEAN, error : BOOLEAN, titled : BOOLEAN]

\* What the check takes from a page; `hides` is only for the history.
Reading(page, withId) ==
    LET status == Status(page, withId)
    IN [place |-> page.place, status |-> status,
        counts |-> IF status = "success" THEN Counts(page, page.place) ELSE None,
        titled |-> status = "success" /\ page.titled,
        missing |-> page.missing /\ status # "success", hints |-> Hints(page), hides |-> Hides(page, page.place)]

\* By whether the link carries the id of its post.
Readings == [withId \in BOOLEAN |-> {Reading(page, withId) : page \in Pages}]
=============================================================================

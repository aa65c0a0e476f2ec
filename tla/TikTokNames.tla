---------------------------- MODULE TikTokNames -----------------------------
(***************************************************************************)
(* Channel names of the posts of one TikTok profile (channels.py): each    *)
(* worker thread checks one post, takes the name its page shows, the one   *)
(* in the cache they share, the one in the sheet, or that of the profile's *)
(* own page, and the event loop writes it into the row.                    *)
(*                                                                         *)
(* A name is one of a few texts: the nickname, the handle with or without  *)
(* its @, the id TikTok generates for a user, an error text, or none.      *)
(***************************************************************************)
EXTENDS Naturals

CONSTANT Workers \* the threads, each with the post it checks

Texts == {"nick", "handle", "@handle", "@user", "error", ""}

VARIABLES
    generated, \* the profile's handle is a generated user id
    short,     \* worker -> its link is a short one, without the handle
    cache,     \* channel_cache[handle]
    attempted, \* the handle is in profile_lookup_attempted
    lookups,   \* history: profile pages asked for
    at,        \* worker -> where its check stands
    ok,        \* worker -> the status of its check is "Success"
    name,      \* worker -> channel_name
    was,       \* worker -> existing_channel, the name in the row when the scan began
    cell       \* worker -> the name in the row

rowVars == <<generated, short, was>>
vars == <<rowVars, cache, attempted, lookups, at, ok, name, cell>>

-----------------------------------------------------------------------------

\* is_usable_channel_name
Usable(text) == text \in {"nick", "handle", "@handle"}

\* channel_name_quality
Quality(text) == IF ~Usable(text) THEN 0 ELSE IF text = "@handle" THEN 1 ELSE 2

\* valid_channel_candidate: no handle, no generated id, no text of an error page.
Candidate(raw) == IF raw = "nick" THEN raw ELSE ""

HandleFallback == IF generated THEN "" ELSE "@handle"

\* What a page of the post is found to say: a nickname, else the handle.
PageName(raw) == IF Candidate(raw) # "" THEN Candidate(raw) ELSE HandleFallback

AtHandle == IF generated THEN "@user" ELSE "@handle"

\* resolve_channel_name, given the text without its @.
Resolved(parsed) == IF parsed = "@handle" THEN "handle" ELSE parsed

\* username_for_channel_lookup: the address a short link led to counts on success only.
KnowsUser(w) == ~short[w] \/ ok[w]

\* seed_channel_cache_from_rows: the last usable name of a row whose link has the handle.
Init ==
    /\ generated \in BOOLEAN
    /\ short \in [Workers -> BOOLEAN]
    /\ was \in [Workers -> Texts \ {"@user"}] /\ cell = was
    /\ generated => \A w \in Workers : was[w] \notin {"handle", "@handle"}
    /\ LET seeds == {was[w] : w \in {v \in Workers : ~short[v] /\ Usable(was[v])}}
       IN cache \in IF seeds = {} THEN {""} ELSE seeds
    /\ attempted = FALSE /\ lookups = 0
    /\ at = [w \in Workers |-> "page"]
    /\ ok = [w \in Workers |-> FALSE]
    /\ name = [w \in Workers |-> ""]

Named(w, text, place) ==
    /\ name' = [name EXCEPT ![w] = text]
    /\ at' = [at EXCEPT ![w] = place]

-----------------------------------------------------------------------------
(* A worker thread.                                                        *)

\* The attempt is over. A page that says nothing of the post gives no name.
Scraped(w) ==
    /\ at[w] = "page"
    /\ \E success \in BOOLEAN, raw \in Texts :
        /\ ok' = [ok EXCEPT ![w] = success]
        /\ \/ Named(w, PageName(raw), "names")
           \/ ~success /\ Named(w, "", "names")
    /\ UNCHANGED <<rowVars, cache, attempted, lookups, cell>>

\* read_profile_channel_name: Chromium, which takes no claim and no lock, asks the profile page or
\* the cache when the page of the post has no nickname.
ProfileInBrowser(w) ==
    /\ at[w] = "page"
    /\ \E success \in BOOLEAN : ok' = [ok EXCEPT ![w] = success]
    /\ IF Usable(cache)
       THEN Named(w, cache, "names") /\ UNCHANGED cache
       ELSE cache' = "nick" /\ Named(w, "nick", "names")
    /\ UNCHANGED <<rowVars, attempted, lookups, cell>>

\* enrich_channel_name, as far as no page is needed: the name of the page, the cache, the sheet.
Enriched(w, existing, after, without) ==
    LET resolved == Resolved(name[w])
    IN IF Usable(resolved)
       THEN /\ Named(w, resolved, after)
            /\ cache' = IF KnowsUser(w) THEN resolved ELSE cache
       ELSE /\ UNCHANGED cache
            /\ IF KnowsUser(w) /\ Usable(cache) THEN Named(w, cache, after)
               ELSE IF Quality(existing) = 2 THEN Named(w, existing, after)
               ELSE without

TakeName(w) ==
    /\ at[w] = "names"
    /\ Enriched(w, was[w], "queued",
                IF KnowsUser(w) THEN Named(w, name[w], "claim") ELSE Named(w, "", "queued"))
    /\ UNCHANGED <<rowVars, attempted, lookups, ok, cell>>

\* Mutant: the handle is looked up in the set and not added.
ClaimForgotten(w) ==
    /\ at[w] = "claim"
    /\ lookups' = IF attempted THEN lookups ELSE IF lookups < 2 THEN lookups + 1 ELSE lookups
    /\ at' = [at EXCEPT ![w] = IF attempted THEN "fallback" ELSE "profile"]
    /\ UNCHANGED <<rowVars, cache, attempted, ok, name, cell>>

\* claim_profile_lookup, under the lock.
Claim(w) ==
    /\ at[w] = "claim"
    /\ attempted' = TRUE
    /\ lookups' = IF attempted THEN lookups ELSE lookups + 1
    /\ at' = [at EXCEPT ![w] = IF attempted THEN "fallback" ELSE "profile"]
    /\ UNCHANGED <<rowVars, cache, ok, name, cell>>

\* fetch_profile_channel_name_request; of a generated id, the profile of the author its post names.
Profile(w) ==
    /\ at[w] = "profile"
    /\ \E raw \in Texts :
        IF Candidate(raw) # ""
        THEN Named(w, raw, "queued") /\ cache' = raw
        ELSE Named(w, name[w], "fallback") /\ UNCHANGED cache
    /\ UNCHANGED <<rowVars, attempted, lookups, ok, cell>>

\* The handle also goes to the cache, over what another thread may have put there meanwhile.
Fallback(w) ==
    /\ at[w] = "fallback"
    /\ Named(w, AtHandle, "queued")
    /\ cache' = AtHandle
    /\ UNCHANGED <<rowVars, attempted, lookups, ok, cell>>

\* Another attempt, or Chromium after HTTP.
Again(w) ==
    /\ at[w] = "queued" /\ ~ok[w]
    /\ at' = [at EXCEPT ![w] = "page"]
    /\ UNCHANGED <<rowVars, cache, attempted, lookups, ok, name, cell>>

-----------------------------------------------------------------------------
(* The event loop: record_result, then write_result.                       *)

WithoutNetwork(w) == IF KnowsUser(w) THEN AtHandle ELSE ""

Record(w) ==
    /\ at[w] = "queued"
    /\ Enriched(w, was[w], "recorded", Named(w, WithoutNetwork(w), "recorded"))
    /\ UNCHANGED <<rowVars, attempted, lookups, ok, cell>>

\* channel_name_for_sheet
ForSheet(w) ==
    LET resolved == Resolved(name[w])
        enriched == IF Usable(resolved) THEN resolved
                    ELSE IF KnowsUser(w) /\ Usable(cache) THEN cache ELSE WithoutNetwork(w)
    IN IF Usable(enriched) THEN enriched
       ELSE IF ok[w] /\ ~generated THEN "@handle" ELSE "error"

\* Mutant: a failure writes its name over the one in the cell.
WriteOver(w) ==
    /\ at[w] = "recorded"
    /\ cache' = IF Usable(Resolved(name[w])) /\ KnowsUser(w) THEN Resolved(name[w]) ELSE cache
    /\ cell' = [cell EXCEPT ![w] = IF Quality(@) > Quality(ForSheet(w)) THEN @ ELSE ForSheet(w)]
    /\ at' = [at EXCEPT ![w] = "done"]
    /\ UNCHANGED <<rowVars, attempted, lookups, ok, name>>

\* A failure keeps a usable name; a better name is never given up for a worse one.
Write(w) ==
    /\ at[w] = "recorded"
    /\ cache' = IF Usable(Resolved(name[w])) /\ KnowsUser(w) THEN Resolved(name[w]) ELSE cache
    /\ cell' = [cell EXCEPT ![w] =
                  IF (~ok[w] /\ Usable(@)) \/ Quality(@) > Quality(ForSheet(w)) THEN @ ELSE ForSheet(w)]
    /\ at' = [at EXCEPT ![w] = "done"]
    /\ UNCHANGED <<rowVars, attempted, lookups, ok, name>>

Ended == (\A w \in Workers : at[w] = "done") /\ UNCHANGED vars

Next ==
    \/ \E w \in Workers :
        \/ Scraped(w) \/ ProfileInBrowser(w) \/ TakeName(w) \/ Claim(w) \/ Profile(w) \/ Fallback(w)
        \/ Again(w) \/ Record(w) \/ Write(w)
    \/ Ended

Spec == Init /\ [][Next]_vars

-----------------------------------------------------------------------------

TypeOK ==
    /\ cache \in Texts /\ attempted \in BOOLEAN /\ lookups \in Nat
    /\ at \in [Workers -> {"page", "names", "claim", "profile", "fallback",
                           "queued", "recorded", "done"}]
    /\ name \in [Workers -> Texts] /\ cell \in [Workers -> Texts]

\* "first caller per username": however the threads interleave, one request for the profile page.
LookedUpOnce == lookups <= 1

\* A check that failed leaves the name of a row as it was, and no cell ever gets a generated id.
NamesStand ==
    \A w \in Workers :
        /\ at[w] = "done" /\ ~ok[w] /\ Usable(was[w]) => cell[w] = was[w]
        /\ cell[w] # "@user"

NamesSound == TypeOK /\ LookedUpOnce /\ NamesStand

\* "Rank a channel cell so re-scrapes never downgrade a better existing value": a nickname in a
\* cell is not replaced by the handle. TLC refutes this: a page that shows no nickname gives "@handle",
\* which passes for a nickname without its "@" (platforms/tiktok/channels.py:121).
NicknameStands == \A w \in Workers : was[w] = "nick" => cell[w] = "nick"
=============================================================================

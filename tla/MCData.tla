------------------------------- MODULE MCData -------------------------------
(***************************************************************************)
(* For TLC: what a scan reads and writes, in either storage. Workbooks     *)
(* (Sources) and Riviu Data (StoreSession) share no state, so each         *)
(* behaviour is one's, while the other stays put.                          *)
(***************************************************************************)
EXTENDS Sources, TLC

CONSTANTS Rows, Links, MaxResults, MaxPasses, MaxEdits

ASSUME StoreAssumption == MaxResults \in Nat

VARIABLES
    storage,  \* whose behaviour this is
    platform, post, saved, item, session, pending, batch, results, passes, edits, told, apart, moved

storeVars ==
    <<platform, post, saved, item, session, pending, batch, results, passes, edits, told, apart, moved>>

Store == INSTANCE StoreSession

MCInit ==
    /\ storage \in {"workbook", "postgres"}
    /\ Init /\ Store!Init
    \* What stays put need not do so in every one of its initial states.
    /\ storage = "postgres" => \A p \in Platforms : prefs[p].url = NoUrl
    /\ storage = "workbook" =>
        /\ platform = "tiktok"
        /\ \A r, s \in Rows : post[r] = post[s]
        /\ \A r \in Rows : saved[r].cols.name = 0 /\ ~saved[r].lock

MCNext ==
    \/ storage = "workbook" /\ Next /\ UNCHANGED <<storage, storeVars>>
    \/ storage = "postgres" /\ Store!Next /\ UNCHANGED <<storage, vars>>

MCSpec == MCInit /\ [][MCNext]_<<storage, vars, storeVars>>

\* Spreadsheets, platforms, posts and links are interchangeable.
Symmetry == Permutations(Urls) \cup Permutations(Platforms) \cup Permutations(Rows) \cup Permutations(Links)

\* Sources: the registry names the spreadsheet each workbook was loaded from, and whatever refers to
\* a workbook and a sheet of it fits the workbook.
SourcesMatch == TypeOK /\ RegistryMatches /\ SheetsFitUncrossed

\* StoreSession: the numbers of a post were read from the link it has.
NumbersOfLink == Store!TypeOK /\ Store!NumbersOfLink

\* StoreSession: a row says what its results told, however they were merged and flushed.
SavedIsTold == Store!SavedIsTold
=============================================================================

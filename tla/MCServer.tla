------------------------------ MODULE MCServer ------------------------------
(***************************************************************************)
(* For TLC: who may use the program, and with whose cookies and whose      *)
(* Google account. The three parts share no state, so each behaviour is    *)
(* one part's, while the other two stay put.                               *)
(***************************************************************************)
EXTENDS CookieSession, FiniteSets, TLC

CONSTANTS Names, Browsers, NoOne, Limit, MaxHashes, MaxTokens, MaxFaults, MaxLogins

\* One failed login is allowed at least; a token that is there from the start is of a first login.
ASSUME ServerAssumption ==
    /\ NoOne \notin Names \cup {"admin", "viewer"} /\ IsFiniteSet(Browsers) /\ Limit \in Nat \ {0}
    /\ MaxHashes \in Nat /\ MaxTokens \in Nat /\ MaxLogins \in Nat \ {0}

VARIABLES
    part,  \* whose behaviour this is
    users, hashes, shared, loaded, sessions, sessionFile, issued, lapsed, logIn, failures, faults, kept, ended, left,
    server, key, client, token, io, login, pending, aged, consents, logins, used, reused, answer

accountVars ==
    <<users, hashes, shared, loaded, sessions, sessionFile, issued, lapsed, logIn, failures, faults, kept, ended, left>>
googleVars == <<server, key, client, token, io, login, pending, aged, consents, logins, used, reused, answer>>

Users == INSTANCE Accounts WITH disk <- sessionFile, login <- logIn
Google == INSTANCE GoogleAccess

MCInit ==
    /\ part \in {"cookies", "accounts", "google"}
    /\ Init /\ Users!Init /\ Google!Init
    \* A part that stays put need not do so in every one of its initial states.
    /\ part # "cookies" => platform = "threads" /\ disk = None
    /\ part # "google" => server /\ key = "none" /\ ~client /\ token = Google!NoToken

MCNext ==
    \/ part = "cookies" /\ Next /\ UNCHANGED <<part, accountVars, googleVars>>
    \/ part = "accounts" /\ Users!Next /\ UNCHANGED <<part, vars, googleVars>>
    \/ part = "google" /\ Google!Next /\ UNCHANGED <<part, vars, accountVars>>

MCSpec == MCInit /\ [][MCNext]_<<part, vars, accountVars, googleVars>>

\* Accounts are interchangeable, and so are exports of cookies.
Symmetry == Permutations(Names) \cup Permutations(Cookies)

\* Accounts: what ends a session ends it for good, unless the save of a logout failed and none has
\* succeeded since, and nothing else ends one.
SessionsExact == Users!TypeOK /\ Users!EndedIsSaved /\ Users!KeptIsLive
EndedStaysEnded == Users!EndedStaysEnded

\* GoogleAccess: of several logins the last one stands, and no consent becomes two of them.
LoginsStand == Google!TypeOK /\ Google!LatestLoginStands /\ Google!OneCodePerConsent
=============================================================================

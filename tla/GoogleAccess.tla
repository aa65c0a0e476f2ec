---------------------------- MODULE GoogleAccess ----------------------------
(***************************************************************************)
(* How the program gets to Google Sheets: the service account key, the     *)
(* OAuth client and token files of google_sheets_sync.py, the logins of    *)
(* api/google.py, and the calls that read, refresh and write the token.    *)
(*                                                                         *)
(* Calls run in threads under GOOGLE_IO_LOCK. The login on a desktop waits *)
(* for the user's browser and does not take it; a server has no browser,   *)
(* and the user pastes back the address Google sent them to.               *)
(***************************************************************************)
EXTENDS Naturals

CONSTANTS
    MaxLogins  \* bound: logins, and consents of a server

VARIABLES
    server,   \* server_mode.ACTIVE
    key,      \* data/google_service_account.json
    client,   \* google_oauth_client.json is there
    token,    \* data/google_oauth_token.json, and which login wrote it
    io,       \* the thread that holds GOOGLE_IO_LOCK, and the token it has read
    login,    \* the call that holds GOOGLE_LOGIN_LOCK
    pending,  \* PENDING_GOOGLE_LOGIN
    aged,     \* consents past PASTE_BACK_TTL_SECONDS
    consents, \* consents given out
    logins,   \* logins that wrote a token
    used,     \* history: consents that have become a login
    reused,   \* history: one of them did so twice
    answer    \* what the last call for a spreadsheet came to

files == <<key, client, token>>
history == <<consents, logins, used, reused>>
vars == <<server, files, io, login, pending, aged, history, answer>>

Nothing == 0
NoToken == [by |-> Nothing, valid |-> FALSE, scopes |-> FALSE, refresh |-> FALSE, email |-> FALSE]
NoIo == [kind |-> "none", at |-> "idle", token |-> NoToken]
NoLogin == [at |-> "idle", consent |-> Nothing, token |-> NoToken]
Fresh(n) == [by |-> n, valid |-> TRUE, scopes |-> TRUE, refresh |-> TRUE, email |-> FALSE]

Init ==
    /\ server \in BOOLEAN /\ key \in {"none", "plain", "sealed", "broken"} /\ client \in BOOLEAN
    /\ \E scopes \in BOOLEAN, there \in BOOLEAN : token = IF there THEN [Fresh(1) EXCEPT !.scopes = scopes] ELSE NoToken
    /\ logins = token.by
    /\ io = NoIo /\ login = NoLogin /\ pending = Nothing /\ aged = {} /\ consents = 0 /\ used = {} /\ reused = FALSE
    /\ answer = "none"

Locked == io.kind # "none"

-----------------------------------------------------------------------------
(* Files. A key is sealed on a server and only opens there; what fails its *)
(* rules is not saved.                                                     *)

SaveKey == key' = (IF server THEN "sealed" ELSE "plain") /\ UNCHANGED <<client, token>>
DeleteKey == key' = "none" /\ UNCHANGED <<client, token>>
SaveClient == client' = TRUE /\ UNCHANGED <<key, token>>

\* Time and Google: a token runs out, or may not be refreshed any more; while no call holds a copy.
TokenAges ==
    /\ token.by # Nothing /\ ~Locked /\ login.at # "refresh"
    /\ \E t \in {[token EXCEPT !.valid = FALSE], [token EXCEPT !.valid = FALSE, !.refresh = FALSE]} : token' = t
    /\ UNCHANGED <<key, client>>

FileStep ==
    /\ (~Locked /\ (SaveKey \/ DeleteKey \/ SaveClient)) \/ TokenAges
    /\ UNCHANGED <<server, io, login, pending, aged, history, answer>>

\* load_service_account_info
KeyLoads == IF key = "none" THEN "none" ELSE IF key = "broken" \/ (key = "sealed" /\ ~server) THEN "error" ELSE "ok"

-----------------------------------------------------------------------------
(* Calls under GOOGLE_IO_LOCK.                                             *)

\* try_load_credentials: what it makes of the token it read.
Loaded(t) == IF t.by = Nothing \/ ~t.scopes THEN "none" ELSE IF t.valid THEN "ok" ELSE IF t.refresh THEN "refresh" ELSE "none"

\* sync_download_google_sheet and push_rows_to_new_sheet. A sync that is refused falls back to the
\* shared link; the service account's refusal is what the user then reads.
SyncAnswers(creds) ==
    {"ok"} \cup CASE creds = "account" -> {"share", "failed"} [] creds = "error" -> {"key"}
                   [] creds = "oauth" -> {"failed"} [] OTHER -> {"private", "failed"}
PushAnswers(creds) ==
    IF creds = "none" THEN {"login"} ELSE IF creds = "error" THEN {"key"}
    ELSE IF creds = "account" THEN {"ok", "share", "failed"} ELSE {"ok", "failed"}

Answers(kind, creds) == IF kind = "sync" THEN SyncAnswers(creds) ELSE IF kind = "push" THEN PushAnswers(creds) ELSE {answer}

\* google_credentials: the key comes first, and one that does not load is an error, not a fallback.
CallBegin ==
    /\ ~Locked
    /\ \E kind \in {"status", "sync", "push"} :
        IF kind # "status" /\ KeyLoads # "none"
        THEN answer' \in Answers(kind, IF KeyLoads = "ok" THEN "account" ELSE "error") /\ UNCHANGED io
        ELSE /\ io' = [kind |-> kind, at |-> IF kind = "status" THEN "email" ELSE "load", token |-> token]
             /\ UNCHANGED answer
    /\ UNCHANGED <<server, files, login, pending, aged, history>>

\* oauth_status: the account of a token is asked for once, and written into the file read before.
CallEmail ==
    /\ io.at = "email" /\ io' = [io EXCEPT !.at = "load"]
    /\ \/ UNCHANGED token
       \/ io.token.by # Nothing /\ ~io.token.email /\ token' = [io.token EXCEPT !.email = TRUE]
    /\ UNCHANGED <<server, key, client, login, pending, aged, history, answer>>

CallLoad ==
    /\ io.at = "load"
    /\ IF Loaded(token) = "refresh"
       THEN io' = [io EXCEPT !.at = "refresh", !.token = token] /\ UNCHANGED answer
       ELSE io' = NoIo /\ answer' \in Answers(io.kind, IF Loaded(token) = "ok" THEN "oauth" ELSE "none")
    /\ UNCHANGED <<server, files, login, pending, aged, history>>

\* The refreshed token is written over the file; a refresh that fails leaves no credentials.
CallRefresh ==
    /\ io.at = "refresh" /\ io' = NoIo
    /\ \/ token' = [io.token EXCEPT !.valid = TRUE] /\ answer' \in Answers(io.kind, "oauth")
       \/ UNCHANGED token /\ answer' \in Answers(io.kind, "none")
    /\ UNCHANGED <<server, key, client, login, pending, aged, history>>

-----------------------------------------------------------------------------
(* authorize_google: the login of a desktop, in its own thread.            *)

BrowserBegin ==
    /\ ~server /\ login.at = "idle"
    /\ login' = CASE Loaded(token) = "ok" -> NoLogin
                  [] Loaded(token) = "refresh" -> [NoLogin EXCEPT !.at = "refresh", !.token = token]
                  [] OTHER -> IF client THEN [NoLogin EXCEPT !.at = "consent"] ELSE NoLogin
    /\ UNCHANGED <<server, files, io, pending, aged, history, answer>>

BrowserRefresh ==
    /\ login.at = "refresh"
    /\ \/ token' = [login.token EXCEPT !.valid = TRUE] /\ login' = NoLogin
       \/ login' = (IF client THEN [NoLogin EXCEPT !.at = "consent"] ELSE NoLogin) /\ UNCHANGED token
    /\ UNCHANGED <<server, key, client, io, pending, aged, history, answer>>

\* The user consents, or does not within LOGIN_TIMEOUT_SECONDS.
BrowserConsent ==
    /\ login.at = "consent" /\ ~server /\ login' = NoLogin
    /\ \/ UNCHANGED <<token, logins>>
       \/ logins < MaxLogins /\ logins' = logins + 1 /\ token' = Fresh(logins + 1)
    /\ UNCHANGED <<server, key, client, io, pending, aged, consents, used, reused, answer>>

-----------------------------------------------------------------------------
(* The paste-back login of a server.                                       *)

\* start_server_google_login: one consent is pending; a new one takes its place.
LoginStart ==
    /\ server /\ client /\ ~Locked /\ consents < MaxLogins
    /\ consents' = consents + 1 /\ pending' = consents + 1
    /\ UNCHANGED <<server, files, io, login, aged, logins, used, reused, answer>>

ConsentAges ==
    /\ pending \notin aged \cup {Nothing} /\ aged' = aged \cup {pending}
    /\ UNCHANGED <<server, files, io, login, pending, history, answer>>

\* google_oauth_complete: the pending consent is taken, and the login lock with it.
CompleteBegin ==
    /\ server /\ login.at = "idle"
    /\ login' = [NoLogin EXCEPT !.at = "thread", !.consent = pending]
    /\ UNCHANGED <<server, files, io, pending, aged, history, answer>>

\* Mutant: the exchange of the code does not hold the lock of the other calls.
ExchangeUnlocked ==
    /\ login.at = "thread" /\ login' = [login EXCEPT !.at = "exchange"] /\ UNCHANGED io

\* The thread waits for the lock and holds it over the exchange of the code.
Exchange ==
    /\ login.at = "thread" /\ ~Locked
    /\ login' = [login EXCEPT !.at = "exchange"] /\ io' = [NoIo EXCEPT !.kind = "finish", !.at = "exchange"]

CompleteExchange ==
    /\ Exchange
    /\ login.consent \notin aged \cup {Nothing}
    /\ UNCHANGED <<server, files, pending, aged, history, answer>>

\* paste_back_code refuses: no consent is pending, it is too old, or the address is another's.
CompleteRefused ==
    /\ login.at = "thread" /\ ~Locked /\ login' = NoLogin
    /\ UNCHANGED <<server, files, io, pending, aged, history, answer>>

ReleaseIo == io' = IF io.kind = "finish" THEN NoIo ELSE io

CompleteWrite ==
    /\ login.at = "exchange" /\ ReleaseIo
    /\ \/ login' = NoLogin /\ UNCHANGED <<token, logins, used, reused>>
       \/ /\ logins < 2 * MaxLogins /\ logins' = logins + 1 /\ token' = Fresh(logins + 1)
          /\ login' = [login EXCEPT !.at = "resume"]
          /\ used' = used \cup {login.consent} /\ reused' = (reused \/ login.consent \in used)
    /\ UNCHANGED <<server, key, client, pending, aged, consents, answer>>

\* Mutant: a consent that has become a login stays pending.
AfterLoginKept == pending

\* "One code per consent; a second paste must start over."
AfterLogin == Nothing

CompleteEnd ==
    /\ login.at = "resume" /\ login' = NoLogin /\ pending' = AfterLogin
    /\ UNCHANGED <<server, files, io, aged, history, answer>>

Restart ==
    /\ io' = NoIo /\ login' = NoLogin /\ pending' = Nothing
    /\ UNCHANGED <<server, files, aged, history, answer>>

Calls == CallBegin \/ CallEmail \/ CallLoad \/ CallRefresh
Logins == BrowserBegin \/ BrowserRefresh \/ BrowserConsent \/ LoginStart \/ ConsentAges \/ CompleteBegin \/ CompleteExchange \/ CompleteRefused \/ CompleteWrite \/ CompleteEnd
Next == FileStep \/ Calls \/ Logins \/ Restart

Spec == Init /\ [][Next]_vars

-----------------------------------------------------------------------------
Tokens == [by : 0 .. 2 * MaxLogins, valid : BOOLEAN, scopes : BOOLEAN, refresh : BOOLEAN, email : BOOLEAN]

TypeOK ==
    /\ server \in BOOLEAN /\ key \in {"none", "plain", "sealed", "broken"} /\ client \in BOOLEAN /\ token \in Tokens
    /\ io \in [kind : {"none", "status", "sync", "push", "finish"}, at : {"idle", "email", "load", "refresh", "exchange"}, token : Tokens]
    /\ login \in [at : {"idle", "refresh", "consent", "thread", "exchange", "resume"}, consent : 0 .. MaxLogins, token : Tokens]
    /\ pending \in 0 .. consents /\ aged \subseteq 1 .. consents /\ used \subseteq 1 .. consents
    /\ answer \in {"none", "ok", "share", "private", "failed", "login", "key"}

\* On a server the token in the file is the last login's: a status or a refresh that read an older
\* one cannot write it back over it, because the exchange of the code holds GOOGLE_IO_LOCK.
LatestLoginStands == server => token.by = logins

\* "One code per consent" (api/google.py:311): no consent becomes a login twice, whatever logins are
\* started and pasted back at once.
OneCodePerConsent == ~reused
=============================================================================

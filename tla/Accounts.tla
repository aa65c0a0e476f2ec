----------------------------- MODULE Accounts -----------------------------
(***************************************************************************)
(* The accounts and login sessions of server mode: the accounts file that  *)
(* the command line of another process edits (server_users, server_mode),  *)
(* the login and logout endpoints (api/auth), and the session file, the    *)
(* rate limiter and the request gate (api/security).                       *)
(*                                                                         *)
(* The accounts are read through a cache that follows the file's time and  *)
(* size, so every read here is one of the file. One command edits it at a  *)
(* time, and the server never does: a command is one step.                 *)
(***************************************************************************)
EXTENDS Naturals, FiniteSets

CONSTANTS
    Names,      \* accounts
    Browsers,   \* clients of one address that log in
    NoOne,
    Limit,      \* LOGIN_FAILURE_LIMIT
    MaxHashes,  \* bound: password hashes ever made
    MaxTokens,  \* bound: sessions ever made
    MaxFaults   \* bound: saves of the session file that fail

Tokens == 1 .. MaxTokens
Hashes == 0 .. MaxHashes  \* every hash has its own salt, also for the same password

VARIABLES
    users,     \* the accounts file: a function from names to role and hash
    hashes,    \* the last hash made
    shared,    \* RIVIU_PASSWORD_HASH of this process
    loaded,    \* the session file has been read
    sessions,  \* LoginSessions._sessions
    disk,      \* the session file
    issued,    \* tokens made so far
    lapsed,    \* tokens past their expiry
    login,     \* browser -> the login request it has under way
    failures,  \* failed logins of the address within the window
    faults,
    kept,      \* history: sessions handed out that nothing has ended
    ended,     \* history: sessions that something has ended
    left       \* history: sessions a logout took out of memory whose save failed, with no save since

accounts == <<users, hashes>>
store == <<loaded, sessions, disk, issued, lapsed, faults>>
history == <<kept, ended, left>>
vars == <<accounts, shared, store, login, failures, history>>

NoLogin == [at |-> "idle", user |-> NoOne, hash |-> 0]
Empty == [x \in {} |-> NoOne]

HasUsers == DOMAIN users # {}

Init ==
    /\ users = Empty /\ hashes = 0 /\ shared = 0
    /\ loaded = FALSE /\ sessions = Empty /\ disk = Empty /\ issued = 0 /\ lapsed = {} /\ faults = 0
    /\ login = [b \in Browsers |-> NoLogin] /\ failures = 0
    /\ kept = {} /\ ended = {} /\ left = {}

-----------------------------------------------------------------------------
(* UserStore: the commands of `python -m riviu.server_mode`.               *)

Admins(us) == {n \in DOMAIN us : us[n].role = "admin"}

LastAdmin(n, us) == Admins(us) = {n}

\* add, set_password, set_role and remove: the accounts a command may write.
Edits ==
    LET h == hashes + 1
        Put(n, r) == [m \in DOMAIN users \cup {n} |-> IF m = n THEN r ELSE users[m]]
    IN  (UNION {{Put(n, [role |-> role, hash |-> h]) : role \in {"admin", "viewer"}} : n \in Names \ DOMAIN users})
        \cup {Put(n, [users[n] EXCEPT !.hash = h]) : n \in DOMAIN users}
        \cup (UNION {{Put(n, [users[n] EXCEPT !.role = role]) :
                        role \in IF LastAdmin(n, users) THEN {"admin"} ELSE {"admin", "viewer"}} : n \in DOMAIN users})
        \cup {[m \in DOMAIN users \ {n} |-> users[m]] :
                n \in {m \in DOMAIN users : ~LastAdmin(m, users) \/ DOMAIN users = {m}}}

\* A session of this account ends with its password.
OfChanged(us, t) ==
    t \in DOMAIN disk /\ disk[t].user # NoOne
        /\ (disk[t].user \notin DOMAIN us \/ us[disk[t].user].hash # disk[t].credential)

Command ==
    /\ hashes < MaxHashes /\ hashes' = hashes + 1
    /\ users' \in Edits
    /\ LET gone == {t \in kept : OfChanged(users', t)} IN kept' = kept \ gone /\ ended' = ended \cup gone
    /\ UNCHANGED <<shared, store, login, failures, left>>

-----------------------------------------------------------------------------
(* LoginSessions.                                                          *)

\* _load drops what has expired and what another RIVIU_PASSWORD_HASH has made.
View ==
    IF loaded THEN sessions
    ELSE [t \in {t \in DOMAIN disk : disk[t].password = shared /\ t \notin lapsed} |-> disk[t]]

Without(f, ts) == [t \in DOMAIN f \ ts |-> f[t]]

\* _save, which the disk may refuse; what is in memory stays changed.
SavedAs(f) == disk' = f /\ left' = left \cap DOMAIN f /\ UNCHANGED faults
SaveFails == faults < MaxFaults /\ faults' = faults + 1 /\ UNCHANGED disk

\* Mutant: the session is bound to the hash the account has by now.
CredentialNow(l) == IF l.user \in DOMAIN users THEN users[l.user].hash ELSE l.hash

\* The hash the password was checked against.
Credential(l) == l.hash

Create(b) ==
    /\ login[b].at = "create" /\ issued < MaxTokens
    /\ LET t == issued + 1
           record == [user |-> login[b].user, credential |-> Credential(login[b]), password |-> shared]
           now == [u \in (DOMAIN View \ lapsed) \cup {t} |-> IF u = t THEN record ELSE View[u]]
           current == login[b].user = NoOne \/ (login[b].user \in DOMAIN users /\ users[login[b].user].hash = login[b].hash)
       IN  /\ issued' = t /\ sessions' = now /\ loaded' = TRUE
           /\ \/ SavedAs(now) /\ (IF current THEN kept' = kept \cup {t} /\ UNCHANGED ended
                                  ELSE ended' = ended \cup {t} /\ UNCHANGED kept)
              \/ SaveFails /\ UNCHANGED history
    /\ login' = [login EXCEPT ![b] = NoLogin]
    /\ UNCHANGED <<accounts, shared, lapsed, failures>>

\* Mutant: a revoked session is only forgotten, not taken off the disk.
RevokeForgets(t) ==
    /\ loaded' = TRUE /\ sessions' = Without(View, {t}) /\ UNCHANGED <<disk, faults, left>>
    /\ ended' = ended \cup {t}

\* A failed save is not answered as a logout; for a session memory has not, nothing is to be saved.
Revoke(t) ==
    /\ loaded' = TRUE /\ sessions' = Without(View, {t})
    /\ IF t \in DOMAIN View
       THEN \/ SavedAs(Without(View, {t})) /\ ended' = ended \cup {t}
            \/ SaveFails /\ left' = left \cup {t} /\ UNCHANGED ended
       ELSE ended' = ended \cup {t} /\ UNCHANGED <<disk, faults, left>>

Logout ==
    /\ \E t \in 1 .. issued : Revoke(t) /\ kept' = kept \ {t}
    /\ UNCHANGED <<accounts, shared, issued, lapsed, login, failures>>

\* session_identity: an account's session, as long as its password stands; the shared password's, as
\* long as there is no account.
Identity(t) ==
    IF t \notin DOMAIN View \ lapsed THEN [user |-> NoOne, role |-> NoOne]
    ELSE LET r == View[t]
         IN  IF r.user = NoOne THEN [user |-> NoOne, role |-> IF HasUsers THEN NoOne ELSE "admin"]
             ELSE IF r.user \in DOMAIN users /\ users[r.user].hash = r.credential
             THEN [user |-> r.user, role |-> users[r.user].role] ELSE [user |-> NoOne, role |-> NoOne]

Live(t) == Identity(t).role # NoOne

-----------------------------------------------------------------------------
(* login(): the limiter is asked before the form is read and the password  *)
(* hashed in a thread, so several attempts may be under way.               *)

Goto(b, l) == login' = [login EXCEPT ![b] = l]

LoginPost(b) ==
    /\ login[b].at = "idle" /\ failures < Limit
    /\ Goto(b, [NoLogin EXCEPT !.at = "form"])
    /\ UNCHANGED <<accounts, shared, store, failures, history>>

\* Once an account exists every login names one.
LoginForm(b) ==
    /\ login[b].at = "form"
    /\ \E name \in Names : Goto(b, IF HasUsers THEN [NoLogin EXCEPT !.at = "account", !.user = name]
                                   ELSE [NoLogin EXCEPT !.at = "shared"])
    /\ UNCHANGED <<accounts, shared, store, failures, history>>

LoginChecked(b) ==
    /\ login[b].at \in {"account", "shared"}
    /\ LET name == login[b].user
       IN  \/ /\ login[b].at = "account" => name \in DOMAIN users
              /\ Goto(b, [at |-> "create", user |-> name,
                           hash |-> IF login[b].at = "account" THEN users[name].hash ELSE shared])
              /\ failures' = 0
           \/ Goto(b, NoLogin) /\ failures' = failures + 1
    /\ UNCHANGED <<accounts, shared, store, history>>

WindowPasses ==
    /\ failures > 0 /\ \E n \in 0 .. failures - 1 : failures' = n
    /\ UNCHANGED <<accounts, shared, store, login, history>>

-----------------------------------------------------------------------------
(* protect_server_api. A request is told apart by what the gate looks at.  *)

Requests == [path : {"health", "login", "viewer", "admin"}, trusted : BOOLEAN, crossSite : BOOLEAN, navigation : BOOLEAN]

\* Anyone may log in and read what the viewer reads; the rest is an administrator's. A request of
\* another site runs only as a top navigation.
Gate(request, role) ==
    /\ request.trusted /\ (request.crossSite => request.navigation)
    /\ request.path # "admin" \/ role = "admin"

\* A request that passes the gate with this session has had the session file read.
Request ==
    /\ ~loaded /\ \E t \in Tokens, request \in Requests : Gate(request, Identity(t).role)
    /\ loaded' = TRUE /\ sessions' = View
    /\ UNCHANGED <<accounts, shared, disk, issued, lapsed, faults, login, failures, history>>

-----------------------------------------------------------------------------
\* load_config: what a server refuses to start with, the first thing first.
ConfigError(env) ==
    IF ~env.origin \/ ~env.password \/ ~env.keyFile THEN "missing"
    ELSE IF ~env.originValid THEN "origin"
    ELSE IF ~env.hashValid THEN "hash"
    ELSE IF env.keyInside THEN "key inside the data"
    ELSE IF ~env.keyValid THEN "key"
    ELSE IF ~env.numbersValid THEN "numbers" ELSE "none"

Environments ==
    [origin : BOOLEAN, password : BOOLEAN, keyFile : BOOLEAN, originValid : BOOLEAN, hashValid : BOOLEAN,
     keyInside : BOOLEAN, keyValid : BOOLEAN, numbersValid : BOOLEAN]

\* The server stops and starts again, perhaps with another shared password, which ends every session.
Restart ==
    /\ \E env \in Environments : ConfigError(env) = "none"
    /\ loaded' = FALSE /\ sessions' = Empty /\ login' = [b \in Browsers |-> NoLogin] /\ failures' = 0
    /\ \/ UNCHANGED <<shared, hashes, kept, ended>>
       \/ /\ hashes < MaxHashes /\ hashes' = hashes + 1 /\ shared' = hashes + 1
          /\ kept' = {} /\ ended' = ended \cup kept
    /\ UNCHANGED <<users, disk, issued, lapsed, faults, left>>

Lapse ==
    /\ \E t \in (1 .. issued) \ lapsed :
        lapsed' = lapsed \cup {t} /\ kept' = kept \ {t} /\ ended' = ended \cup {t}
    /\ UNCHANGED <<accounts, shared, loaded, sessions, disk, issued, faults, login, failures, left>>

Next ==
    \/ Command
    \/ \E b \in Browsers : LoginPost(b) \/ LoginForm(b) \/ LoginChecked(b) \/ Create(b)
    \/ Logout \/ WindowPasses \/ Request \/ Restart \/ Lapse

Spec == Init /\ [][Next]_vars

-----------------------------------------------------------------------------
(* Properties.                                                             *)

Records == [user : Names \cup {NoOne}, credential : Hashes, password : Hashes]
TypeOK ==
    /\ DOMAIN users \subseteq Names /\ \A n \in DOMAIN users : users[n] \in [role : {"admin", "viewer"}, hash : Hashes]
    /\ \A f \in {sessions, disk} : DOMAIN f \subseteq Tokens /\ \A t \in DOMAIN f : f[t] \in Records
    /\ failures \in 0 .. Limit + Cardinality(Browsers) - 1
    /\ \A b \in Browsers : login[b].at \in {"idle", "form", "account", "shared", "create"}

\* What ended a session ended it for good: a logout that was answered, its expiry, a new password or
\* the removal of the account, another shared password; also when it falls between the check of a
\* login's password and the creation of its session, and across restarts. TLC refutes this: a logout
\* whose save failed has forgotten the session, so the next one finds nothing to save and is answered,
\* and a restart reads the session again (api/security.py:12: "logout revokes the token").
EndedStaysEnded == \A t \in ended : ~Live(t)

\* It holds of every session but those, and of those again once a save has succeeded.
EndedIsSaved == \A t \in ended \ left : ~Live(t)

\* And nothing else ends one: a session that was handed out still identifies its account after a
\* restart, after saves that failed, and after others logged in or out.
KeptIsLive == \A t \in kept : Live(t) \/ (View[t].user = NoOne /\ HasUsers)

=============================================================================

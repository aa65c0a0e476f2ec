--------------------------- MODULE CookieSession ---------------------------
(***************************************************************************)
(* The saved cookie session of Threads or of TikTok: ThreadsSession and    *)
(* TikTokSession over their encrypted store, the endpoints that import,    *)
(* verify and delete it behind the source gate, and the scans that take a  *)
(* snapshot of it and report what Threads made of it.                      *)
(*                                                                         *)
(* A scan start looks at the source gate before it awaits its source and   *)
(* holds the gate only from there on, so an endpoint may begin in between. *)
(***************************************************************************)
EXTENDS Naturals

CONSTANTS
    Cookies,    \* normalised cookie exports
    None,
    Platforms,  \* "threads", "tiktok"
    MaxGen,     \* bound: generations
    MaxSeq      \* bound: _verify_sequence

ASSUME CookieAssumption ==
    None \notin Cookies /\ Platforms \subseteq {"threads", "tiktok"} /\ MaxGen \in Nat \ {0} /\ MaxSeq \in Nat

VARIABLES
    platform,
    mem,      \* the session object: loaded, cookies, gen, state, seq
    disk,     \* what the store holds
    expired,  \* exports whose session cookie has expired by now
    op,       \* the endpoint call that holds the source gate
    late,     \* a commit thread whose call was cancelled twice
    scan,     \* the scan that may use the cookies
    page,     \* the generation a page was shown last
    proof     \* history: the cookies mem.state was found with

vars == <<platform, mem, disk, expired, op, late, scan, page, proof>>

\* overtaken (history): since the call began, what it checks was replaced, cleared or refused.
NoOp == [kind |-> "none", at |-> "idle", gen |-> 0, seq |-> 0, cookies |-> None, overtaken |-> FALSE]
NoScan == [at |-> "idle", gen |-> 0, cookies |-> None, checked |-> None]

Fresh(g) == [loaded |-> FALSE, cookies |-> None, gen |-> g, state |-> "none", seq |-> 0]

Init ==
    /\ platform \in Platforms
    /\ mem = Fresh(1) /\ disk \in Cookies \cup {None} /\ expired = {}
    /\ op = NoOp /\ late = NoOp /\ scan = NoScan /\ page = 0 /\ proof = None

-----------------------------------------------------------------------------
(* _normalize: what an export is refused for. Entries of other sites are   *)
(* left out before any rule is applied to them.                            *)

Exports == [large : BOOLEAN, list : BOOLEAN, own : SUBSET {"malformed", "clash", "session", "lapsed", "other"}]

Verdict(export, allowExpired) ==
    IF export.large THEN "too_large"
    ELSE IF ~export.list \/ export.own \cap {"malformed", "clash"} # {} THEN "bad_import"
    ELSE IF export.own \cap {"session", "lapsed"} = {} THEN "missing_session"
    ELSE IF "session" \notin export.own /\ ~allowExpired THEN "expired" ELSE "ok"

\* An expired export still loads, so that status can say so.
ASSUME LapsedLoads == \A e \in Exports : Verdict(e, FALSE) = "expired" => Verdict(e, TRUE) = "ok"

-----------------------------------------------------------------------------
(* The session object, under its lock.                                     *)

\* _load: a store that cannot be read leaves the session unloaded, to be read again.
Loads ==
    IF mem.loaded THEN {mem}
    ELSE {[mem EXCEPT !.cookies = None, !.state = "storage_unavailable"],
          [mem EXCEPT !.loaded = TRUE, !.cookies = disk,
                      !.state = IF disk = None THEN "none"
                                ELSE IF platform = "threads" /\ disk \in expired THEN "expired" ELSE "unchecked"]}

\* snapshot: saved cookies that have not expired.
HasSnapshot(m) == m.cookies # None /\ m.cookies \notin expired

Overtake(call) == IF call.kind = "none" THEN call ELSE [call EXCEPT !.overtaken = TRUE]

\* Mutant: a commit does not ask whether the session has changed since its check began.
StaleNever(call) == FALSE

Stale(call) == call.gen # mem.gen

\* _commit of a checked import. The store refuses what cannot be written, or has expired meanwhile.
Commit(call) ==
    \/ UNCHANGED <<mem, disk, proof>>
    \/ /\ ~Stale(call) /\ call.cookies \notin expired /\ mem.gen < MaxGen
       /\ disk' = call.cookies /\ proof' = call.cookies
       /\ mem' = [mem EXCEPT !.cookies = call.cookies, !.loaded = TRUE, !.gen = @ + 1, !.state = "valid"]

\* Mutant: scan evidence does not void a verification under way.
InvalidateQuiet(g, found, with) ==
    \E m \in Loads :
        IF g = m.gen /\ m.cookies # None /\ found \notin {"redirect", "proxy_unsupported"}
        THEN /\ mem' = [m EXCEPT !.state = IF found \in {"invalid", "checkpoint"} THEN found ELSE "unknown"]
             /\ proof' = with /\ op' = (IF op.kind = "verify" THEN Overtake(op) ELSE op)
        ELSE mem' = m /\ UNCHANGED <<proof, op>>

\* Mutant: the evidence of a scan is recorded whatever session it was found with.
InvalidateAny(g, found, with) ==
    \E m \in Loads :
        /\ mem' = [m EXCEPT !.state = IF found \in {"invalid", "checkpoint"} THEN found ELSE "unknown"]
        /\ proof' = with /\ UNCHANGED op

\* invalidate: a scan found its login refused. What it says of another session, or of the route, is
\* not evidence on these cookies.
Invalidate(g, found, with) ==
    \E m \in Loads :
        IF g = m.gen /\ m.cookies # None /\ found \notin {"redirect", "proxy_unsupported"}
        THEN /\ m.seq < MaxSeq
             /\ mem' = [m EXCEPT !.state = IF found \in {"invalid", "checkpoint"} THEN found ELSE "unknown",
                                 !.seq = @ + 1]
             /\ proof' = with /\ op' = (IF op.kind = "verify" THEN Overtake(op) ELSE op)
        ELSE mem' = m /\ UNCHANGED <<proof, op>>

-----------------------------------------------------------------------------
(* The endpoints: one source operation at a time, and none during a scan.  *)

OpFree == op = NoOp /\ scan.at \in {"idle", "checked"}

\* The status endpoint has no gate.
Status ==
    /\ mem' \in Loads /\ page' = mem.gen
    /\ UNCHANGED <<platform, disk, expired, op, late, scan, proof>>

ImportBegin ==
    /\ OpFree /\ mem' \in Loads
    /\ \E export \in Exports :
        IF Verdict(export, FALSE) # "ok" THEN UNCHANGED op
        ELSE \E c \in Cookies \ expired :
                op' = [NoOp EXCEPT !.kind = "import", !.at = "check", !.gen = mem.gen, !.cookies = c]
    /\ UNCHANGED <<platform, disk, expired, late, scan, page, proof>>

\* verify_cookies: one bounded check of the login.
Findings(c) ==
    IF c \in expired THEN {"expired"}
    ELSE {"valid", "invalid", "unknown"} \cup (IF platform = "threads" THEN {"checkpoint"} ELSE {})

\* Only a login that is confirmed is saved.
ImportChecked ==
    /\ op.kind = "import" /\ op.at = "check"
    /\ \E found \in Findings(op.cookies) : op' = IF found = "valid" THEN [op EXCEPT !.at = "commit"] ELSE NoOp
    /\ UNCHANGED <<platform, mem, disk, expired, late, scan, page, proof>>

ImportCommit ==
    /\ op.kind = "import" /\ op.at = "commit" /\ Commit(op)
    /\ op' = NoOp /\ late' = IF mem'.gen # mem.gen THEN Overtake(late) ELSE late
    /\ UNCHANGED <<platform, expired, scan, page>>

\* The request is cancelled during its check; the commit is shielded from one cancellation, and a
\* second one leaves its thread behind. TikTok's calls wait for their threads.
OpCancelled ==
    /\ platform = "threads" /\ op.kind # "none" /\ op' = NoOp
    /\ IF op.at = "commit" THEN late = NoOp /\ late' = op ELSE UNCHANGED late
    /\ UNCHANGED <<platform, mem, disk, expired, scan, page, proof>>

LateCommit ==
    /\ late.kind # "none" /\ Commit(late) /\ late' = NoOp
    /\ op' = IF mem'.gen # mem.gen THEN Overtake(op) ELSE op
    /\ UNCHANGED <<platform, expired, scan, page>>

VerifyBegin ==
    /\ OpFree
    /\ \E m \in Loads :
        /\ platform = "threads" => m.seq < MaxSeq
        /\ LET s == IF platform = "threads" THEN m.seq + 1 ELSE m.seq
           IN  /\ mem' = [m EXCEPT !.seq = s]
               /\ op' = IF ~HasSnapshot(m) THEN op
                        ELSE [NoOp EXCEPT !.kind = "verify", !.at = "check", !.gen = m.gen, !.seq = s, !.cookies = m.cookies]
    /\ UNCHANGED <<platform, disk, expired, late, scan, page, proof>>

\* The result stands only for the session, and (Threads) the evidence, it was asked about.
VerifyEnd ==
    /\ op.kind = "verify" /\ op' = NoOp
    /\ \E found \in Findings(op.cookies) :
        IF Stale(op) \/ (platform = "threads" /\ op.seq # mem.seq) THEN UNCHANGED <<mem, proof>>
        ELSE mem' = [mem EXCEPT !.state = found] /\ proof' = op.cookies
    /\ UNCHANGED <<platform, disk, expired, late, scan, page>>

\* clear: the store first; a store that refuses leaves everything as it was.
Clear ==
    /\ OpFree /\ mem.gen < MaxGen
    /\ \E m \in Loads :
        \/ mem' = m /\ UNCHANGED <<disk, late>>
        \/ /\ disk' = None /\ late' = Overtake(late)
           /\ mem' = [m EXCEPT !.cookies = None, !.loaded = TRUE, !.gen = @ + 1, !.state = "none"]
    /\ UNCHANGED <<platform, expired, op, scan, page, proof>>

-----------------------------------------------------------------------------
(* The scans.                                                              *)

NoCall == UNCHANGED <<platform, disk, expired, late, page>>

\* start_blocked is false: with the cookies the page shows, or anonymous (Threads).
ScanCheck ==
    /\ scan = NoScan /\ op = NoOp
    /\ \/ scan' = [NoScan EXCEPT !.at = "checked", !.gen = page]
       \/ platform = "threads" /\ scan' = [NoScan EXCEPT !.at = "running"]
    /\ UNCHANGED <<mem, op, proof>> /\ NoCall

\* prepare_scan_start has its source and loads the session, under scan_starting.
ScanHold ==
    /\ scan.at = "checked" /\ scan' = [scan EXCEPT !.at = "holding"]
    /\ UNCHANGED <<mem, op, proof>> /\ NoCall

\* snapshot(generation): Threads only gives out the session the page shows.
ScanSnapshot ==
    /\ scan.at = "holding"
    /\ \E m \in Loads :
        /\ mem' = m
        /\ scan' = IF ~HasSnapshot(m) \/ (platform = "threads" /\ scan.gen # m.gen) THEN NoScan
                   ELSE [scan EXCEPT !.at = IF platform = "threads" THEN "running" ELSE "checking", !.cookies = m.cookies]
    /\ UNCHANGED <<op, proof>> /\ NoCall

\* A TikTok start asks for the account once: verify takes a snapshot of its own.
ScanVerify ==
    /\ scan.at = "checking"
    /\ scan' = IF HasSnapshot(mem) THEN [scan EXCEPT !.at = "verifying", !.gen = mem.gen, !.checked = mem.cookies] ELSE NoScan
    /\ UNCHANGED <<mem, op, proof>> /\ NoCall

ScanVerified ==
    /\ scan.at = "verifying"
    /\ \E found \in Findings(scan.checked) :
        /\ IF scan.gen = mem.gen THEN mem' = [mem EXCEPT !.state = found] /\ proof' = scan.checked
           ELSE UNCHANGED <<mem, proof>>
        /\ scan' = IF found \in {"invalid", "expired"} THEN NoScan ELSE [scan EXCEPT !.at = "running"]
    /\ UNCHANGED op /\ NoCall

\* A logged-in Threads run is refused, by its preflight or by a page.
RunRefused ==
    /\ scan.at = "running" /\ platform = "threads" /\ scan.cookies # None
    /\ \E found \in {"invalid", "checkpoint", "unknown", "redirect", "proxy_unsupported"} :
        Invalidate(scan.gen, found, scan.cookies)
    /\ scan' = NoScan /\ NoCall

\* After an anonymous main pass: the session the login-required posts may be asked with...
LoginStatus ==
    /\ scan.at = "running" /\ platform = "threads" /\ scan.cookies = None /\ scan.gen = 0
    /\ \E m \in Loads :
        /\ mem' = m
        /\ HasSnapshot(m) /\ m.state \notin {"invalid", "checkpoint", "storage_unavailable"}
        /\ scan' = [scan EXCEPT !.gen = m.gen]
    /\ UNCHANGED <<op, proof>> /\ NoCall

\* ... and its cookies, taken once the retry pass is over; an error of the session is its evidence.
LoginSnapshot ==
    /\ scan.at = "running" /\ platform = "threads" /\ scan.cookies = None /\ scan.gen # 0
    /\ IF HasSnapshot(mem) /\ scan.gen = mem.gen
       THEN scan' = [scan EXCEPT !.cookies = mem.cookies] /\ UNCHANGED <<mem, op, proof>>
       ELSE scan' = NoScan /\ Invalidate(scan.gen, "unknown", mem.cookies)
    /\ NoCall

RunEnds ==
    /\ scan.at = "running" /\ scan' = NoScan
    /\ UNCHANGED <<mem, op, proof>> /\ NoCall

-----------------------------------------------------------------------------
Expire ==
    /\ \E c \in Cookies \ expired : expired' = expired \cup {c}
    /\ UNCHANGED <<platform, mem, disk, op, late, scan, page, proof>>

\* The process ends and starts again: only the store is left, under a new generation.
Restart ==
    /\ mem.gen < MaxGen /\ mem' = Fresh(mem.gen + 1)
    /\ op' = NoOp /\ late' = NoOp /\ scan' = NoScan
    /\ UNCHANGED <<platform, disk, expired, page, proof>>

Next ==
    \/ Status \/ ImportBegin \/ ImportChecked \/ ImportCommit \/ OpCancelled \/ LateCommit
    \/ VerifyBegin \/ VerifyEnd \/ Clear
    \/ ScanCheck \/ ScanHold \/ ScanSnapshot \/ ScanVerify \/ ScanVerified
    \/ RunRefused \/ LoginStatus \/ LoginSnapshot \/ RunEnds \/ Expire \/ Restart

Spec == Init /\ [][Next]_vars

-----------------------------------------------------------------------------
(* Properties.                                                             *)

States == {"none", "unchecked", "valid", "expired", "invalid", "checkpoint", "unknown", "storage_unavailable"}
Calls == [kind : {"none", "import", "verify"}, at : {"idle", "check", "commit"}, gen : 0 .. MaxGen,
          seq : 0 .. MaxSeq, cookies : Cookies \cup {None}, overtaken : BOOLEAN]

TypeOK ==
    /\ mem \in [loaded : BOOLEAN, cookies : Cookies \cup {None}, gen : 1 .. MaxGen, state : States, seq : 0 .. MaxSeq]
    /\ disk \in Cookies \cup {None} /\ op \in Calls /\ late \in Calls
    /\ scan \in [at : {"idle", "checked", "holding", "checking", "verifying", "running"}, gen : 0 .. MaxGen,
                 cookies : Cookies \cup {None}, checked : Cookies \cup {None}]

\* A verdict on the login (valid, invalid, checkpoint) was found with the very cookies the session
\* holds, and what the session holds is what a restart would read back: imports, deletes, checks and
\* scans may overlap, and the store may refuse at any point.
VerdictIsOwn ==
    /\ TypeOK
    /\ mem.loaded =>
        /\ mem.cookies = disk
        /\ mem.state \in {"valid", "invalid", "checkpoint"} => proof = mem.cookies

\* A check that was overtaken changes nothing any more: a late verification does not hide the login
\* failure a scan has found since, and a commit left behind does not bring deleted cookies back.
OvertakenIsVoid ==
    [][/\ op.overtaken /\ op' = NoOp /\ mem'.gen = mem.gen => mem'.state = mem.state
       /\ late.overtaken /\ late' = NoOp => disk' = disk]_vars

=============================================================================

--------------------------- MODULE Server_proofs ---------------------------
(***************************************************************************)
(* Theorems about who may use the program: the saved cookie session        *)
(* (CookieSession), the accounts and login sessions (Accounts) and the     *)
(* Google login (GoogleAccess), for any number of cookie exports,          *)
(* accounts, browsers and logins.                                          *)
(***************************************************************************)
EXTENDS MCServer, FiniteSetTheorems, TLAPS

-----------------------------------------------------------------------------
(* CookieSession: the inductive invariant.                                 *)

\* What the session object says is of the cookies it holds; unloaded it holds none.
MemInv ==
    /\ mem.loaded => /\ mem.cookies = disk
                     /\ mem.state \in {"valid", "invalid", "checkpoint"} => proof = mem.cookies
    /\ ~mem.loaded => mem.cookies = None /\ mem.state \notin {"valid", "invalid", "checkpoint"}

\* These are the cookies of generation g, if it is still this one.
Holds(g, cookies) == g = mem.gen => mem.loaded /\ cookies = mem.cookies

\* A call knows no later generation than there is, and a verification the cookies of its own.
OpInv ==
    /\ op.gen <= mem.gen /\ late.gen <= mem.gen
    /\ op.kind = "verify" => op.at = "check" /\ Holds(op.gen, op.cookies) /\ op.seq <= mem.seq
    /\ op.kind = "none" => ~op.overtaken
    /\ late.kind \in {"none", "import"} /\ (late.kind = "none" => ~late.overtaken)

\* Whatever overtook a call has moved the session on from where the call began.
OvertakenInv ==
    /\ op.overtaken => op.gen < mem.gen \/ (op.kind = "verify" /\ platform = "threads" /\ op.seq < mem.seq)
    /\ late.overtaken => late.gen < mem.gen

\* So does a scan that has taken a snapshot, or verifies one.
ScanInv ==
    /\ page \in Nat /\ page <= mem.gen /\ scan.gen <= mem.gen
    /\ scan.at \in {"checking", "verifying"} => platform # "threads"
    /\ scan.at = "verifying" => Holds(scan.gen, scan.checked)
    /\ scan.at = "running" /\ platform = "threads" /\ scan.cookies # None => Holds(scan.gen, scan.cookies)

CookieInv == TypeOK /\ MemInv /\ OpInv /\ OvertakenInv /\ ScanInv

Mem == [loaded : BOOLEAN, cookies : Cookies \cup {None}, gen : 1 .. MaxGen, state : States, seq : 0 .. MaxSeq]
Scans == [at : {"idle", "checked", "holding", "checking", "verifying", "running"}, gen : 0 .. MaxGen,
          cookies : Cookies \cup {None}, checked : Cookies \cup {None}]

\* Reading the store changes neither the generation nor the evidence, nor a session that is loaded.
LEMMA LoadsKeep ==
    ASSUME CookieInv, NEW m \in Loads
    PROVE /\ m \in Mem /\ m.gen = mem.gen /\ m.seq = mem.seq
          /\ mem.loaded => m = mem
          /\ m.loaded => /\ m.cookies = disk
                         /\ m.state \in {"valid", "invalid", "checkpoint"} => proof = m.cookies
          /\ ~m.loaded => m.cookies = None /\ m.state \notin {"valid", "invalid", "checkpoint"}
<1>1. mem \in Mem /\ disk \in Cookies \cup {None}
  BY DEF CookieInv, TypeOK, Mem
<1>2. CASE mem.loaded
  BY <1>1, <1>2 DEF Loads, CookieInv, MemInv
<1>3. CASE ~mem.loaded
  <2>1. CASE m = [mem EXCEPT !.cookies = None, !.state = "storage_unavailable"]
    BY <1>1, <1>3, <2>1 DEF Mem, States
  <2>2. PICK state \in {"none", "expired", "unchecked"} :
            ~(m = [mem EXCEPT !.cookies = None, !.state = "storage_unavailable"])
            => m = [mem EXCEPT !.loaded = TRUE, !.cookies = disk, !.state = state]
    BY <1>3 DEF Loads
  <2>3. CASE m = [mem EXCEPT !.loaded = TRUE, !.cookies = disk, !.state = state]
    BY <1>1, <1>3, <2>3 DEF Mem, States
  <2> QED
    BY <2>1, <2>2, <2>3
<1> QED
  BY <1>2, <1>3

LEMMA OvertakeTyped ==
    \A call \in Calls :
        /\ Overtake(call) \in Calls /\ Overtake(call).kind = call.kind /\ Overtake(call).gen = call.gen
        /\ Overtake(call).at = call.at /\ Overtake(call).seq = call.seq /\ Overtake(call).cookies = call.cookies
        /\ call.kind = "none" => Overtake(call) = call
BY DEF Overtake, Calls

LEMMA NoOpTyped ==
    /\ NoOp \in Calls /\ NoOp.kind = "none" /\ NoOp.at = "idle" /\ NoOp.gen = 0 /\ ~NoOp.overtaken
    /\ NoScan \in Scans /\ NoScan.at = "idle" /\ NoScan.gen = 0 /\ NoScan.cookies = None
<1>1. FALSE \in BOOLEAN
  OBVIOUS
<1>2. MaxGen \in Nat /\ MaxSeq \in Nat
  BY CookieAssumption
<1> QED
  BY <1>1, <1>2 DEF NoOp, NoScan, Calls, Scans

\* A call that was overtaken and ends leaves what it would have changed as it is.
Void ==
    /\ op.overtaken /\ op' = NoOp /\ mem'.gen = mem.gen => mem'.state = mem.state
    /\ late.overtaken /\ late' = NoOp => disk' = disk

\* A step that at most reads the store, and leaves the calls alone.
LEMMA QuietMem ==
    ASSUME CookieInv, mem' \in Loads \cup {mem}, UNCHANGED <<platform, disk, proof>>
    PROVE /\ mem' \in Mem /\ MemInv' /\ mem'.gen = mem.gen /\ mem'.seq = mem.seq
          /\ \A g, c : Holds(g, c) => Holds(g, c)'
<1>1. PICK m : m = mem'
  OBVIOUS
<1>2. CASE m \in Loads
  BY <1>1, <1>2, LoadsKeep DEF MemInv, Holds
<1>3. CASE m = mem
  BY <1>1, <1>3 DEF MemInv, Holds, CookieInv, TypeOK, Mem
<1> QED
  BY <1>1, <1>2, <1>3

LEMMA QuietStep ==
    ASSUME CookieInv, mem' \in Loads \cup {mem}, UNCHANGED <<platform, disk, proof, op, late>>,
           scan' \in Scans, ScanInv'
    PROVE CookieInv' /\ Void
<1>1. OpInv'
  BY QuietMem DEF CookieInv, OpInv
<1>2. OvertakenInv'
  BY QuietMem DEF CookieInv, OvertakenInv
<1>3. Void
  BY DEF CookieInv, OpInv, Void, NoOp
<1> QED
  BY <1>1, <1>2, <1>3, QuietMem DEF CookieInv, TypeOK, Mem, Scans

LEMMA CookieStatus == CookieInv /\ Status => CookieInv' /\ Void
<1> SUFFICES ASSUME CookieInv, Status PROVE CookieInv' /\ Void
  OBVIOUS
<1>1. mem' \in Loads \cup {mem} /\ page' = mem.gen /\ UNCHANGED <<platform, disk, op, late, scan, proof>>
  BY DEF Status
<1>2. scan \in Scans /\ mem.gen \in Nat
  BY DEF CookieInv, TypeOK, Scans
<1>3. ScanInv'
  BY <1>1, <1>2, QuietMem DEF CookieInv, ScanInv
<1> QED
  BY <1>1, <1>2, <1>3, QuietStep

LEMMA CookieScan ==
    CookieInv /\ (ScanCheck \/ ScanHold \/ ScanSnapshot \/ ScanVerify \/ LoginStatus \/ RunEnds)
    => CookieInv' /\ Void
<1> SUFFICES ASSUME CookieInv, ScanCheck \/ ScanHold \/ ScanSnapshot \/ ScanVerify \/ LoginStatus \/ RunEnds
             PROVE CookieInv' /\ Void
  OBVIOUS
<1>1. UNCHANGED <<op, proof, platform, disk, late, page>>
  BY DEF ScanCheck, ScanHold, ScanSnapshot, ScanVerify, LoginStatus, RunEnds, NoCall
<1>2. /\ scan \in Scans /\ mem \in Mem /\ mem.gen \in Nat /\ mem.gen \in 0 .. MaxGen
      /\ page \in Nat /\ page <= mem.gen /\ page \in 0 .. MaxGen /\ ScanInv
  BY CookieAssumption DEF CookieInv, TypeOK, Scans, Mem, ScanInv
<1>3. CASE ScanCheck
  <2>1. PICK s : scan' = s /\ s \in {[NoScan EXCEPT !.at = "checked", !.gen = page], [NoScan EXCEPT !.at = "running"]}
    BY <1>3 DEF ScanCheck
  <2>2. s \in Scans /\ s.gen \in {0, page} /\ s.at \in {"checked", "running"} /\ s.cookies = None
    BY <1>2, <2>1, NoOpTyped DEF Scans
  <2>3. mem' = mem
    BY <1>3 DEF ScanCheck
  <2>4. ScanInv'
    BY <1>1, <1>2, <2>1, <2>2, <2>3 DEF ScanInv
  <2> QED
    BY <1>1, <2>1, <2>2, <2>3, <2>4, QuietStep
<1>4. CASE ScanHold
  <2>1. scan' = [scan EXCEPT !.at = "holding"] /\ mem' = mem
    BY <1>4 DEF ScanHold
  <2>2. scan' \in Scans /\ scan'.gen = scan.gen /\ scan'.at = "holding"
    BY <1>2, <2>1 DEF Scans
  <2>3. ScanInv'
    BY <1>1, <1>2, <2>1, <2>2 DEF ScanInv
  <2> QED
    BY <1>1, <2>1, <2>2, <2>3, QuietStep
<1>5. CASE ScanSnapshot
  <2>1. PICK m \in Loads :
            /\ mem' = m
            /\ scan' = IF ~HasSnapshot(m) \/ (platform = "threads" /\ scan.gen # m.gen) THEN NoScan
                       ELSE [scan EXCEPT !.at = IF platform = "threads" THEN "running" ELSE "checking", !.cookies = m.cookies]
    BY <1>5 DEF ScanSnapshot
  <2>2. CASE scan' = NoScan
    <3>1. mem'.gen = mem.gen
      BY <2>1, LoadsKeep
    <3>2. ScanInv'
      BY <1>1, <1>2, <2>2, <3>1, NoOpTyped DEF ScanInv
    <3> QED
      BY <1>1, <2>1, <2>2, <3>2, NoOpTyped, QuietStep
  <2>3. CASE scan' # NoScan
    <3>1. HasSnapshot(m) /\ m \in Mem /\ m.gen = mem.gen /\ (m.cookies # None => m.loaded)
      BY <2>1, <2>3, LoadsKeep
    <3>2. scan' \in Scans /\ scan'.gen = scan.gen /\ scan'.cookies = m.cookies
          /\ scan'.at = IF platform = "threads" THEN "running" ELSE "checking"
      BY <1>2, <2>1, <2>3, <3>1 DEF Scans, Mem
    <3>3. ScanInv'
      BY <1>1, <1>2, <2>1, <3>1, <3>2 DEF ScanInv, Holds, HasSnapshot
    <3> QED
      BY <1>1, <2>1, <3>2, <3>3, QuietStep
  <2> QED
    BY <2>2, <2>3
<1>6. CASE ScanVerify
  <2>1. /\ mem' = mem
        /\ scan' = IF HasSnapshot(mem) THEN [scan EXCEPT !.at = "verifying", !.gen = mem.gen, !.checked = mem.cookies] ELSE NoScan
    BY <1>6 DEF ScanVerify
  <2>2. CASE ~HasSnapshot(mem)
    <3>1. ScanInv'
      BY <1>1, <1>2, <2>1, <2>2, NoOpTyped DEF ScanInv
    <3> QED
      BY <1>1, <2>1, <2>2, <3>1, NoOpTyped, QuietStep
  <2>3. CASE HasSnapshot(mem)
    <3>1. scan' \in Scans /\ scan'.gen = mem.gen /\ scan'.at = "verifying" /\ scan'.checked = mem.cookies
      BY <1>2, <2>1, <2>3 DEF Scans, Mem
    <3>2. mem.loaded /\ platform # "threads"
      BY <1>2, <1>6, <2>3 DEF CookieInv, MemInv, HasSnapshot, ScanVerify, ScanInv
    <3>3. ScanInv'
      BY <1>1, <1>2, <2>1, <3>1, <3>2 DEF ScanInv, Holds
    <3> QED
      BY <1>1, <2>1, <3>1, <3>3, QuietStep
  <2> QED
    BY <2>2, <2>3
<1>7. CASE LoginStatus
  <2>1. PICK m \in Loads : mem' = m /\ scan' = [scan EXCEPT !.gen = m.gen] /\ scan.cookies = None /\ scan.at = "running"
    BY <1>7 DEF LoginStatus
  <2>2. m \in Mem /\ m.gen = mem.gen
    BY <2>1, LoadsKeep
  <2>3. scan' \in Scans /\ scan'.gen = mem.gen /\ scan'.at = "running" /\ scan'.cookies = None
    BY <1>2, <2>1, <2>2 DEF Scans
  <2>4. ScanInv'
    BY <1>1, <1>2, <2>1, <2>2, <2>3 DEF ScanInv
  <2> QED
    BY <1>1, <2>1, <2>3, <2>4, QuietStep
<1>8. CASE RunEnds
  <2>1. scan' = NoScan /\ mem' = mem
    BY <1>8 DEF RunEnds
  <2>2. ScanInv'
    BY <1>1, <1>2, <2>1, NoOpTyped DEF ScanInv
  <2> QED
    BY <1>1, <2>1, <2>2, NoOpTyped, QuietStep
<1> QED
  BY <1>3, <1>4, <1>5, <1>6, <1>7, <1>8

\* A step that at most reads the store, and begins or ends a call.
LEMMA CallStep ==
    ASSUME CookieInv, mem' \in Loads \cup {mem}, UNCHANGED <<platform, disk, proof, scan, page>>,
           op' \in Calls, late' \in Calls, OpInv', OvertakenInv', Void
    PROVE CookieInv' /\ Void
<1>1. ScanInv'
  BY QuietMem DEF CookieInv, ScanInv
<1> QED
  BY <1>1, QuietMem DEF CookieInv, TypeOK, Mem

LEMMA CookieCalls ==
    CookieInv /\ (ImportBegin \/ ImportChecked \/ OpCancelled) => CookieInv' /\ Void
<1> SUFFICES ASSUME CookieInv, ImportBegin \/ ImportChecked \/ OpCancelled PROVE CookieInv' /\ Void
  OBVIOUS
<1>1. UNCHANGED <<platform, disk, scan, page, proof>>
  BY DEF ImportBegin, ImportChecked, OpCancelled
<1>2. /\ op \in Calls /\ late \in Calls /\ mem \in Mem /\ mem.gen \in Nat /\ mem.gen \in 0 .. MaxGen
      /\ OpInv /\ OvertakenInv
  BY CookieAssumption DEF CookieInv, TypeOK, Mem
<1>3. CASE ImportBegin
  <2>1. /\ mem' \in Loads /\ late' = late /\ op = NoOp
        /\ op' = op \/ \E c \in Cookies :
               op' = [NoOp EXCEPT !.kind = "import", !.at = "check", !.gen = mem.gen, !.cookies = c]
    BY <1>3 DEF ImportBegin, OpFree
  <2>2. op' \in Calls /\ op'.gen \in {0, mem.gen} /\ op'.kind \in {"none", "import"} /\ ~op'.overtaken
    <3>1. CASE op' = op
      BY <2>1, <3>1, NoOpTyped
    <3>2. CASE op' # op
      <4>1. PICK c \in Cookies :
               op' = [NoOp EXCEPT !.kind = "import", !.at = "check", !.gen = mem.gen, !.cookies = c]
        BY <2>1, <3>2
      <4> QED
        BY <1>2, <4>1, NoOpTyped DEF Calls
    <3> QED
      BY <3>1, <3>2
  <2>3. mem'.gen = mem.gen /\ mem'.seq = mem.seq
    BY <1>1, <2>1, QuietMem
  <2>4. OpInv' /\ OvertakenInv'
    <3>1. op'.gen <= mem'.gen /\ late'.gen <= mem'.gen /\ late'.kind \in {"none", "import"} /\ op'.kind # "verify"
      <4>1. late' = late
        BY <2>1
      <4>2. op'.gen <= mem'.gen
        BY <1>2, <2>2, <2>3
      <4> QED
        BY <1>2, <2>2, <2>3, <4>1, <4>2 DEF OpInv
    <3>2. OpInv'
      BY <1>2, <2>1, <2>2, <3>1 DEF OpInv
    <3>3. OvertakenInv'
      BY <1>2, <2>1, <2>2, <2>3 DEF OvertakenInv
    <3> QED
      BY <3>2, <3>3
  <2>5. Void
    BY <1>2, <2>1, NoOpTyped DEF Void, OpInv
  <2> QED
    BY <1>1, <1>2, <2>1, <2>2, <2>4, <2>5, CallStep
<1>4. CASE ImportChecked
  <2>1. /\ mem' = mem /\ late' = late /\ op.kind = "import"
        /\ op' = NoOp \/ op' = [op EXCEPT !.at = "commit"]
    BY <1>4 DEF ImportChecked
  <2>2. op' \in Calls /\ op'.gen \in {0, op.gen} /\ op'.kind \in {"none", "import"}
        /\ (op'.kind = "none" => ~op'.overtaken) /\ (op'.overtaken => op.overtaken /\ op'.gen = op.gen)
    <3>1. CASE op' = NoOp
      BY <3>1, NoOpTyped
    <3>2. CASE op' = [op EXCEPT !.at = "commit"]
      BY <1>2, <2>1, <3>2 DEF Calls
    <3> QED
      BY <2>1, <3>1, <3>2
  <2>3. OpInv'
    BY <1>2, <2>1, <2>2 DEF OpInv
  <2>5. OvertakenInv'
    <3>1. op'.overtaken => op'.gen < mem.gen
      BY <1>2, <2>1, <2>2 DEF OvertakenInv
    <3> QED
      BY <1>2, <2>1, <3>1 DEF OvertakenInv
  <2>4. Void
    BY <1>1, <1>2, <2>1 DEF Void
  <2> QED
    BY <1>1, <1>2, <2>1, <2>2, <2>3, <2>5, <2>4, CallStep
<1>5. CASE OpCancelled
  <2>1. mem' = mem /\ op' = NoOp /\ op.kind # "none"
        /\ IF op.at = "commit" THEN late = NoOp /\ late' = op ELSE late' = late
    BY <1>5 DEF OpCancelled
  <2>2. late' \in Calls /\ OpInv' /\ OvertakenInv'
    <3>1. CASE op.at = "commit"
      <4>1. op.kind = "import" /\ late' = op
        BY <1>2, <2>1, <3>1 DEF OpInv, Calls
      <4> QED
        BY <1>2, <2>1, <4>1, NoOpTyped DEF OpInv, OvertakenInv
    <3>2. CASE op.at # "commit"
      BY <1>2, <2>1, <3>2, NoOpTyped DEF OpInv, OvertakenInv
    <3> QED
      BY <3>1, <3>2
  <2>3. Void
    BY <1>1, <2>1 DEF Void
  <2> QED
    BY <1>1, <1>2, <2>1, <2>2, <2>3, NoOpTyped, CallStep
<1> QED
  BY <1>3, <1>4, <1>5

\* A commit that does not find its session any more changes nothing; one that does makes a new one.
LEMMA CommitMoves ==
    ASSUME CookieInv, NEW call \in Calls, call.gen <= mem.gen, Commit(call), platform' = platform
    PROVE \/ UNCHANGED <<mem, disk, proof>>
          \/ /\ call.gen = mem.gen /\ mem'.gen = mem.gen + 1 /\ mem'.seq = mem.seq
             /\ mem' \in Mem /\ disk' \in Cookies \cup {None} /\ MemInv'
<1>1. mem \in Mem /\ mem.gen \in Nat /\ MaxGen \in Nat
  BY CookieAssumption DEF CookieInv, TypeOK, Mem
<1>2. CASE UNCHANGED <<mem, disk, proof>>
  BY <1>2
<1>3. CASE ~UNCHANGED <<mem, disk, proof>>
  <2>1. /\ call.gen = mem.gen /\ mem.gen < MaxGen /\ disk' = call.cookies /\ proof' = call.cookies
        /\ mem' = [mem EXCEPT !.cookies = call.cookies, !.loaded = TRUE, !.gen = @ + 1, !.state = "valid"]
    BY <1>3 DEF Commit, Stale
  <2>2. /\ mem' \in Mem /\ mem'.gen = mem.gen + 1 /\ mem'.seq = mem.seq
        /\ mem'.loaded /\ mem'.cookies = call.cookies
    <3>1. call.cookies \in Cookies \cup {None} /\ mem.gen + 1 \in 1 .. MaxGen
      BY <1>1, <2>1 DEF Calls
    <3> QED
      BY <1>1, <2>1, <3>1 DEF Mem, States
  <2>3. MemInv'
    BY <2>1, <2>2 DEF MemInv
  <2>4. disk' \in Cookies \cup {None}
    BY <2>1 DEF Calls
  <2> QED
    BY <2>1, <2>2, <2>3, <2>4
<1> QED
  BY <1>2, <1>3

\* A new generation leaves every call and scan behind.
LEMMA MovedOn ==
    ASSUME CookieInv, mem' \in Mem, mem'.gen = mem.gen + 1, mem'.seq = mem.seq, MemInv',
           disk' \in Cookies \cup {None}, UNCHANGED <<platform, scan, page>>,
           op' \in Calls, op'.gen <= mem.gen, late' \in Calls, late'.gen <= mem.gen,
           op'.kind = "none" => ~op'.overtaken,
           op'.kind = "verify" => op'.at = "check" /\ op'.seq <= mem.seq,
           late'.kind \in {"none", "import"}, late'.kind = "none" => ~late'.overtaken
    PROVE CookieInv'
<1>1. mem.gen \in Nat /\ op'.gen \in Nat /\ late'.gen \in Nat /\ scan.gen \in Nat /\ page \in Nat
  BY DEF CookieInv, TypeOK, Calls, ScanInv
<1>2. op'.gen < mem'.gen /\ late'.gen < mem'.gen /\ scan'.gen < mem'.gen /\ page' < mem'.gen
  BY <1>1 DEF CookieInv, ScanInv
<1>3. OpInv' /\ OvertakenInv'
  BY <1>1, <1>2 DEF OpInv, OvertakenInv, Holds
<1>4. ScanInv'
  <2>1. \A c : Holds(scan.gen, c)'
    BY <1>1, <1>2 DEF Holds
  <2>2. platform' = platform /\ scan' = scan /\ page' \in Nat /\ page' <= mem'.gen /\ scan'.gen <= mem'.gen
    BY <1>1, <1>2
  <2>3. scan.at \in {"checking", "verifying"} => platform # "threads"
    BY DEF CookieInv, ScanInv
  <2> QED
    BY <2>1, <2>2, <2>3 DEF ScanInv
<1> QED
  BY <1>3, <1>4 DEF CookieInv, TypeOK, Mem

LEMMA CookieCommits == CookieInv /\ (ImportCommit \/ LateCommit) => CookieInv' /\ Void
<1> SUFFICES ASSUME CookieInv, ImportCommit \/ LateCommit PROVE CookieInv' /\ Void
  OBVIOUS
<1>1. UNCHANGED <<platform, scan, page>>
  BY DEF ImportCommit, LateCommit
<1>2. /\ op \in Calls /\ late \in Calls /\ mem.gen \in Nat /\ op.gen <= mem.gen /\ late.gen <= mem.gen
      /\ OpInv /\ OvertakenInv
  BY DEF CookieInv, TypeOK, OpInv
<1>3. Overtake(op) \in Calls /\ Overtake(late) \in Calls
  BY <1>2, OvertakeTyped
<1>4. CASE ImportCommit
  <2>1. /\ op.kind = "import" /\ Commit(op) /\ op' = NoOp
        /\ late' = IF mem'.gen # mem.gen THEN Overtake(late) ELSE late
    BY <1>4 DEF ImportCommit
  <2>2. CASE UNCHANGED <<mem, disk, proof>>
    <3>1. late' = late
      BY <2>1, <2>2
    <3>2. OpInv' /\ OvertakenInv'
      BY <1>2, <2>1, <2>2, <3>1, NoOpTyped DEF OpInv, OvertakenInv
    <3>3. Void
      BY <2>2 DEF Void
    <3> QED
      BY <1>1, <1>2, <2>1, <2>2, <3>1, <3>2, <3>3, NoOpTyped, CallStep
  <2>3. CASE ~UNCHANGED <<mem, disk, proof>>
    <3>1. mem'.gen = mem.gen + 1 /\ mem'.seq = mem.seq /\ mem' \in Mem /\ disk' \in Cookies \cup {None} /\ MemInv'
      BY <1>1, <1>2, <2>1, <2>3, CommitMoves
    <3>2. late' = Overtake(late)
      BY <1>2, <2>1, <3>1
    <3>3. /\ late' \in Calls /\ late'.gen <= mem.gen /\ late'.kind \in {"none", "import"}
          /\ late'.kind = "none" => ~late'.overtaken
      BY <1>2, <3>2, OvertakeTyped DEF OpInv
    <3>4. CookieInv'
      BY <1>1, <1>2, <2>1, <3>1, <3>3, NoOpTyped, MovedOn
    <3>5. Void
      <4>1. late.overtaken => late' # NoOp
        BY <1>2, <3>2, OvertakeTyped, NoOpTyped DEF OpInv
      <4>2. mem'.gen # mem.gen
        BY <1>2, <3>1
      <4> QED
        BY <4>1, <4>2 DEF Void
    <3> QED
      BY <3>4, <3>5
  <2> QED
    BY <2>2, <2>3
<1>5. CASE LateCommit
  <2>1. /\ late.kind # "none" /\ Commit(late) /\ late' = NoOp
        /\ op' = IF mem'.gen # mem.gen THEN Overtake(op) ELSE op
    BY <1>5 DEF LateCommit
  <2>2. CASE UNCHANGED <<mem, disk, proof>>
    <3>1. op' = op
      BY <2>1, <2>2
    <3>2. OpInv' /\ OvertakenInv'
      BY <1>1, <1>2, <2>1, <2>2, <3>1, NoOpTyped DEF OpInv, OvertakenInv, Holds
    <3>3. Void
      BY <2>2 DEF Void
    <3> QED
      BY <1>1, <1>2, <2>1, <2>2, <3>1, <3>2, <3>3, NoOpTyped, CallStep
  <2>3. CASE ~UNCHANGED <<mem, disk, proof>>
    <3>1. /\ mem'.gen = mem.gen + 1 /\ mem'.seq = mem.seq /\ mem' \in Mem /\ disk' \in Cookies \cup {None} /\ MemInv'
          /\ late.gen = mem.gen
      BY <1>1, <1>2, <2>1, <2>3, CommitMoves
    <3>2. op' = Overtake(op)
      BY <1>2, <2>1, <3>1
    <3>3. /\ op' \in Calls /\ op'.gen <= mem.gen /\ (op'.kind = "none" => ~op'.overtaken)
          /\ op'.kind = "verify" => op'.at = "check" /\ op'.seq <= mem.seq
      BY <1>2, <3>2, OvertakeTyped DEF OpInv
    <3>4. CookieInv'
      BY <1>1, <1>2, <2>1, <3>1, <3>3, NoOpTyped, MovedOn
    <3>5. Void
      <4>1. ~late.overtaken /\ mem'.gen # mem.gen
        BY <1>2, <3>1 DEF OvertakenInv
      <4> QED
        BY <4>1 DEF Void
    <3> QED
      BY <3>4, <3>5
  <2> QED
    BY <2>2, <2>3
<1> QED
  BY <1>4, <1>5

LEMMA CookieVerify == CookieInv /\ (VerifyBegin \/ VerifyEnd) => CookieInv' /\ Void
<1> SUFFICES ASSUME CookieInv, VerifyBegin \/ VerifyEnd PROVE CookieInv' /\ Void
  OBVIOUS
<1>1. UNCHANGED <<platform, disk, scan, page, late>> /\ MaxSeq \in Nat
  BY CookieAssumption DEF VerifyBegin, VerifyEnd
<1>2. /\ op \in Calls /\ late \in Calls /\ mem \in Mem /\ mem.gen \in Nat /\ mem.seq \in Nat /\ scan \in Scans
      /\ OpInv /\ OvertakenInv /\ ScanInv /\ MemInv
  BY DEF CookieInv, TypeOK, Mem, Scans
<1>3. CASE VerifyBegin
  <2>1. PICK m \in Loads :
          /\ platform = "threads" => m.seq < MaxSeq
          /\ LET s == IF platform = "threads" THEN m.seq + 1 ELSE m.seq
             IN  /\ mem' = [m EXCEPT !.seq = s]
                 /\ op' = IF ~HasSnapshot(m) THEN op
                          ELSE [NoOp EXCEPT !.kind = "verify", !.at = "check", !.gen = m.gen, !.seq = s, !.cookies = m.cookies]
    BY <1>3 DEF VerifyBegin
  <2>2. PICK s \in {m.seq, m.seq + 1} :
            /\ mem' = [m EXCEPT !.seq = s] /\ s \in 0 .. MaxSeq
            /\ op' = IF ~HasSnapshot(m) THEN op
                     ELSE [NoOp EXCEPT !.kind = "verify", !.at = "check", !.gen = m.gen, !.seq = s, !.cookies = m.cookies]
    <3>1. m.seq \in 0 .. MaxSeq
      BY LoadsKeep DEF Mem
    <3>2. CASE platform = "threads"
      <4>1. m.seq + 1 \in 0 .. MaxSeq
        BY <1>1, <2>1, <3>1, <3>2
      <4> QED
        BY <2>1, <3>2, <4>1
    <3>3. CASE platform # "threads"
      BY <2>1, <3>1, <3>3
    <3> QED
      BY <3>2, <3>3
  <2>3. op = NoOp /\ proof' = proof
    BY <1>3 DEF VerifyBegin, OpFree
  <2>4. /\ mem' \in Mem /\ mem'.gen = mem.gen /\ mem'.loaded = m.loaded /\ mem'.cookies = m.cookies /\ mem'.state = m.state
        /\ mem'.seq = s /\ mem.seq <= s /\ (mem.loaded => m = mem)
    BY <1>2, <2>2, LoadsKeep DEF Mem
  <2>5. MemInv'
    BY <1>1, <2>3, <2>4, LoadsKeep DEF MemInv
  <2>6. /\ op' \in Calls /\ op'.gen <= mem.gen /\ ~op'.overtaken
        /\ op'.kind \in {"none", "verify"}
        /\ op'.kind = "verify" => op'.at = "check" /\ op'.seq <= s /\ m.loaded /\ op'.cookies = m.cookies
    <3>1. CASE ~HasSnapshot(m)
      BY <1>2, <2>2, <2>3, <3>1, NoOpTyped
    <3>2. CASE HasSnapshot(m)
      <4>1. m \in Mem /\ m.gen = mem.gen /\ m.loaded /\ m.gen \in 0 .. MaxGen
        BY <1>2, <3>2, LoadsKeep DEF HasSnapshot, Mem
      <4>2. op' = [NoOp EXCEPT !.kind = "verify", !.at = "check", !.gen = m.gen, !.seq = s, !.cookies = m.cookies]
        BY <2>2, <3>2
      <4>3. op' \in Calls
        BY <2>2, <4>1, <4>2, NoOpTyped DEF Calls, Mem
      <4>4. /\ op'.kind = "verify" /\ op'.at = "check" /\ op'.gen = m.gen /\ op'.seq = s /\ op'.cookies = m.cookies
            /\ op'.overtaken = NoOp.overtaken
        BY <4>2, NoOpTyped DEF Calls
      <4>5. s <= s /\ m.gen <= mem.gen
        BY <1>2, <2>2, <4>1
      <4> QED
        BY <4>1, <4>3, <4>4, <4>5, NoOpTyped
    <3> QED
      BY <3>1, <3>2
  <2>7. OpInv'
    BY <1>1, <1>2, <2>4, <2>6 DEF OpInv, Holds
  <2>8. OvertakenInv' /\ Void
    BY <1>1, <1>2, <2>3, <2>4, <2>6, NoOpTyped DEF OvertakenInv, Void
  <2>9. ScanInv'
    BY <1>1, <1>2, <2>4 DEF ScanInv, Holds
  <2> QED
    BY <1>1, <2>4, <2>5, <2>6, <2>7, <2>8, <2>9 DEF CookieInv, TypeOK, Mem
<1>4. CASE VerifyEnd
  <2>1. /\ op.kind = "verify" /\ op' = NoOp
        /\ \E found \in Findings(op.cookies) :
            IF Stale(op) \/ (platform = "threads" /\ op.seq # mem.seq) THEN UNCHANGED <<mem, proof>>
            ELSE mem' = [mem EXCEPT !.state = found] /\ proof' = op.cookies
    BY <1>4 DEF VerifyEnd
  <2>2. (OpInv' /\ OvertakenInv') \/ mem' # mem
    BY <1>1, <1>2, <2>1, NoOpTyped DEF OpInv, OvertakenInv
  <2>3. CASE UNCHANGED <<mem, proof>>
    <3>1. Void
      BY <1>1, <1>2, <2>1, <2>3 DEF Void
    <3> QED
      BY <1>1, <1>2, <2>1, <2>2, <2>3, <3>1, NoOpTyped, CallStep
  <2>4. CASE ~UNCHANGED <<mem, proof>>
    <3>1. PICK found \in Findings(op.cookies) :
             /\ ~Stale(op) /\ ~(platform = "threads" /\ op.seq # mem.seq)
             /\ mem' = [mem EXCEPT !.state = found] /\ proof' = op.cookies
      BY <2>1, <2>4
    <3>2. found \in States
      BY DEF Findings, States
    <3>3. /\ mem' \in Mem /\ mem'.gen = mem.gen /\ mem'.seq = mem.seq /\ mem'.loaded = mem.loaded /\ mem'.cookies = mem.cookies
      BY <1>2, <3>1, <3>2 DEF Mem
    <3>4. op.gen = mem.gen /\ mem.loaded /\ op.cookies = mem.cookies
      BY <1>2, <2>1, <3>1 DEF Stale, OpInv, Holds
    <3>5. ~op.overtaken
      <4>1. op.seq \in Nat
        BY <1>1, <1>2 DEF Calls
      <4> QED
        BY <1>2, <2>1, <3>1, <3>4, <4>1 DEF OvertakenInv
    <3>6. MemInv'
      BY <1>1, <1>2, <3>1, <3>3, <3>4 DEF MemInv
    <3>7. OpInv' /\ OvertakenInv'
      BY <1>1, <1>2, <2>1, <3>3, NoOpTyped DEF OpInv, OvertakenInv
    <3>8. ScanInv'
      BY <1>1, <1>2, <3>3 DEF ScanInv, Holds
    <3>9. Void
      BY <1>1, <3>5 DEF Void
    <3> QED
      BY <1>1, <1>2, <2>1, <3>3, <3>6, <3>7, <3>8, <3>9, NoOpTyped DEF CookieInv, TypeOK, Mem
  <2> QED
    BY <2>3, <2>4
<1> QED
  BY <1>3, <1>4

LEMMA CookieClear == CookieInv /\ Clear => CookieInv' /\ Void
<1> SUFFICES ASSUME CookieInv, Clear PROVE CookieInv' /\ Void
  OBVIOUS
<1>1. UNCHANGED <<platform, expired, op, scan, page, proof>> /\ op = NoOp /\ mem.gen < MaxGen /\ MaxGen \in Nat
  BY CookieAssumption DEF Clear, OpFree
<1>2. /\ op \in Calls /\ late \in Calls /\ mem \in Mem /\ mem.gen \in Nat /\ scan \in Scans /\ OpInv /\ ScanInv
  BY DEF CookieInv, TypeOK, Mem, Scans
<1>3. PICK m \in Loads :
        \/ mem' = m /\ UNCHANGED <<disk, late>>
        \/ /\ disk' = None /\ late' = Overtake(late)
           /\ mem' = [m EXCEPT !.cookies = None, !.loaded = TRUE, !.gen = @ + 1, !.state = "none"]
  BY DEF Clear
<1>4. CASE mem' = m /\ UNCHANGED <<disk, late>>
  <2>1. ScanInv'
    BY <1>1, <1>2, <1>3, <1>4, QuietMem DEF ScanInv
  <2> QED
    BY <1>1, <1>2, <1>4, <2>1, QuietStep
<1>5. CASE /\ disk' = None /\ late' = Overtake(late)
           /\ mem' = [m EXCEPT !.cookies = None, !.loaded = TRUE, !.gen = @ + 1, !.state = "none"]
  <2>1. m \in Mem /\ m.gen = mem.gen /\ m.seq = mem.seq /\ mem.gen + 1 \in 1 .. MaxGen
    BY <1>1, <1>2, LoadsKeep
  <2>2. /\ mem' \in Mem /\ mem'.gen = mem.gen + 1 /\ mem'.seq = mem.seq /\ mem'.cookies = None /\ mem'.loaded
        /\ mem'.state = "none"
    BY <1>5, <2>1 DEF Mem, States
  <2>3. MemInv'
    BY <1>5, <2>2 DEF MemInv
  <2>4. /\ late' \in Calls /\ late'.gen <= mem.gen /\ late'.kind \in {"none", "import"}
        /\ late'.kind = "none" => ~late'.overtaken
        /\ late.overtaken => late' # NoOp
    BY <1>2, <1>5, OvertakeTyped, NoOpTyped DEF OpInv
  <2>5. CookieInv'
    BY <1>1, <1>2, <1>5, <2>2, <2>3, <2>4, NoOpTyped, MovedOn
  <2>6. Void
    BY <1>1, <2>4, NoOpTyped DEF Void
  <2> QED
    BY <2>5, <2>6
<1> QED
  BY <1>3, <1>4, <1>5

\* Evidence of a scan on the cookies it had: a verification under way is overtaken.
LEMMA Evidence ==
    ASSUME CookieInv, NEW g, NEW found, NEW with, Invalidate(g, found, with), platform = "threads",
           UNCHANGED <<platform, disk, late, page>>, scan' = NoScan, found \in {"invalid", "checkpoint"} => Holds(g, with)
    PROVE CookieInv' /\ Void
<1>1. /\ op \in Calls /\ late \in Calls /\ mem \in Mem /\ mem.gen \in Nat /\ mem.seq \in Nat /\ MaxSeq \in Nat
      /\ OpInv /\ OvertakenInv /\ ScanInv /\ MemInv
  BY CookieAssumption DEF CookieInv, TypeOK, Mem
<1>2. PICK m \in Loads :
        IF g = m.gen /\ m.cookies # None /\ found \notin {"redirect", "proxy_unsupported"}
        THEN /\ m.seq < MaxSeq
             /\ mem' = [m EXCEPT !.state = IF found \in {"invalid", "checkpoint"} THEN found ELSE "unknown",
                                 !.seq = @ + 1]
             /\ proof' = with /\ op' = (IF op.kind = "verify" THEN Overtake(op) ELSE op)
        ELSE mem' = m /\ UNCHANGED <<proof, op>>
  BY DEF Invalidate
<1>3. /\ m \in Mem /\ m.gen = mem.gen /\ m.seq = mem.seq /\ (mem.loaded => m = mem)
      /\ (m.cookies # None => m.loaded)
  BY LoadsKeep
<1>4. CASE ~(g = m.gen /\ m.cookies # None /\ found \notin {"redirect", "proxy_unsupported"})
  <2>1. mem' \in Loads /\ UNCHANGED <<proof, op>>
    BY <1>2, <1>4
  <2>2. ScanInv'
    BY <1>1, <1>2, <1>3, <1>4, NoOpTyped DEF ScanInv
  <2> QED
    BY <2>1, <2>2, NoOpTyped, QuietStep
<1>5. CASE g = m.gen /\ m.cookies # None /\ found \notin {"redirect", "proxy_unsupported"}
  <2>1. PICK state : state = IF found \in {"invalid", "checkpoint"} THEN found ELSE "unknown"
    OBVIOUS
  <2>2. /\ mem' = [m EXCEPT !.state = state, !.seq = @ + 1] /\ m.seq < MaxSeq /\ proof' = with
        /\ op' = IF op.kind = "verify" THEN Overtake(op) ELSE op
    BY <1>2, <1>5, <2>1
  <2>3. state \in States /\ m.seq + 1 \in 0 .. MaxSeq
    BY <1>1, <1>3, <2>1, <2>2 DEF States
  <2>4. /\ mem' \in Mem /\ mem'.gen = mem.gen /\ mem'.seq = mem.seq + 1 /\ mem'.loaded = m.loaded
        /\ mem'.cookies = m.cookies /\ mem'.state = state
    BY <1>3, <2>2, <2>3 DEF Mem
  <2>5. MemInv'
    <3>1. m.loaded /\ m.cookies = disk
      BY <1>3, <1>5, LoadsKeep
    <3>2. CASE found \in {"invalid", "checkpoint"}
      BY <1>3, <1>5, <2>2, <2>4, <3>1, <3>2 DEF MemInv, Holds
    <3>3. CASE found \notin {"invalid", "checkpoint"}
      BY <2>1, <2>4, <3>1, <3>3 DEF MemInv
    <3> QED
      BY <3>2, <3>3
  <2>6. /\ op' \in Calls /\ op'.kind = op.kind /\ op'.gen = op.gen /\ op'.at = op.at /\ op'.seq = op.seq
        /\ op'.cookies = op.cookies /\ (op.kind # "verify" => op' = op)
    BY <1>1, <2>2, OvertakeTyped
  <2>7. OpInv'
    <3>1. op'.gen <= mem'.gen /\ late'.gen <= mem'.gen /\ (op'.kind = "none" => ~op'.overtaken)
      BY <1>1, <2>4, <2>6 DEF OpInv
    <3>2. ASSUME op'.kind = "verify"
          PROVE op'.at = "check" /\ Holds(op.gen, op.cookies)' /\ op'.seq <= mem'.seq
      <4>1. op.at = "check" /\ Holds(op.gen, op.cookies) /\ op.seq <= mem.seq /\ op.seq \in Nat
        BY <1>1, <2>6, <3>2 DEF OpInv, Calls
      <4>2. op.gen = mem.gen => m.loaded /\ op.cookies = m.cookies
        BY <1>3, <4>1 DEF Holds
      <4> QED
        BY <1>1, <2>4, <2>6, <4>1, <4>2 DEF Holds
    <3> QED
      BY <1>1, <3>1, <3>2 DEF OpInv
  <2>8. OvertakenInv'
    <3>1. op.seq \in Nat
      BY <1>1 DEF Calls
    <3>2. CASE op.kind = "verify"
      BY <1>1, <2>4, <2>6, <3>1, <3>2 DEF OpInv, OvertakenInv
    <3>3. CASE op.kind # "verify"
      BY <1>1, <2>4, <2>6, <3>3 DEF OvertakenInv
    <3> QED
      BY <3>2, <3>3
  <2>9. ScanInv'
    BY <1>1, <2>4, NoOpTyped DEF ScanInv
  <2>10. Void
    BY <1>1, <2>6, NoOpTyped DEF Void, OpInv
  <2> QED
    BY <1>1, <2>4, <2>5, <2>6, <2>7, <2>8, <2>9, <2>10, NoOpTyped DEF CookieInv, TypeOK, Mem, Scans
<1> QED
  BY <1>4, <1>5

LEMMA CookieEvidence == CookieInv /\ (RunRefused \/ LoginSnapshot) => CookieInv' /\ Void
<1> SUFFICES ASSUME CookieInv, RunRefused \/ LoginSnapshot PROVE CookieInv' /\ Void
  OBVIOUS
<1>1. UNCHANGED <<platform, disk, late, page>> /\ platform = "threads" /\ scan.at = "running"
  BY DEF RunRefused, LoginSnapshot, NoCall
<1>2. scan \in Scans /\ mem \in Mem /\ ScanInv
  BY DEF CookieInv, TypeOK, Scans, Mem
<1>3. CASE RunRefused
  <2>1. PICK found \in {"invalid", "checkpoint", "unknown", "redirect", "proxy_unsupported"} :
            Invalidate(scan.gen, found, scan.cookies)
    BY <1>3 DEF RunRefused
  <2>2. Holds(scan.gen, scan.cookies) /\ scan' = NoScan
    BY <1>1, <1>2, <1>3 DEF RunRefused, ScanInv
  <2> QED
    BY <1>1, <2>1, <2>2, Evidence
<1>4. CASE LoginSnapshot /\ HasSnapshot(mem) /\ scan.gen = mem.gen
  <2>1. scan' = [scan EXCEPT !.cookies = mem.cookies] /\ UNCHANGED <<mem, op, proof>>
    BY <1>4 DEF LoginSnapshot
  <2>2. scan' \in Scans /\ scan'.gen = scan.gen /\ scan'.at = "running" /\ scan'.cookies = mem.cookies
    BY <1>1, <1>2, <2>1 DEF Scans, Mem
  <2>3. mem.loaded
    BY <1>4 DEF CookieInv, MemInv, HasSnapshot
  <2>4. ScanInv'
    BY <1>1, <1>2, <2>1, <2>2, <2>3 DEF ScanInv, Holds
  <2> QED
    BY <1>1, <2>1, <2>2, <2>4, QuietStep
<1>5. CASE LoginSnapshot /\ ~(HasSnapshot(mem) /\ scan.gen = mem.gen)
  <2>1. Invalidate(scan.gen, "unknown", mem.cookies) /\ scan' = NoScan
    BY <1>5 DEF LoginSnapshot
  <2> QED
    BY <1>1, <2>1, Evidence
<1> QED
  BY <1>3, <1>4, <1>5

LEMMA CookieVerified == CookieInv /\ ScanVerified => CookieInv' /\ Void
<1> SUFFICES ASSUME CookieInv, ScanVerified PROVE CookieInv' /\ Void
  OBVIOUS
<1>1. UNCHANGED <<platform, disk, late, page, op, expired>> /\ scan.at = "verifying"
  BY DEF ScanVerified, NoCall
<1>2. scan \in Scans /\ mem \in Mem /\ mem.gen \in Nat /\ ScanInv /\ MemInv /\ OpInv /\ OvertakenInv /\ op \in Calls
  BY DEF CookieInv, TypeOK, Scans, Mem
<1>3. PICK found \in Findings(scan.checked) :
        /\ IF scan.gen = mem.gen THEN mem' = [mem EXCEPT !.state = found] /\ proof' = scan.checked
           ELSE UNCHANGED <<mem, proof>>
        /\ scan' = IF found \in {"invalid", "expired"} THEN NoScan ELSE [scan EXCEPT !.at = "running"]
  BY DEF ScanVerified
<1>4. found \in States
  BY DEF Findings, States
<1>5. /\ mem' \in Mem /\ mem'.gen = mem.gen /\ mem'.seq = mem.seq /\ mem'.loaded = mem.loaded
      /\ mem'.cookies = mem.cookies
  BY <1>2, <1>3, <1>4 DEF Mem
<1>6. MemInv'
  <2>1. CASE scan.gen = mem.gen
    BY <1>1, <1>2, <1>3, <1>5, <2>1 DEF MemInv, ScanInv, Holds
  <2>2. CASE scan.gen # mem.gen
    BY <1>1, <1>2, <1>3, <2>2 DEF MemInv
  <2> QED
    BY <2>1, <2>2
<1>7. OpInv' /\ OvertakenInv'
  BY <1>1, <1>2, <1>5 DEF OpInv, OvertakenInv, Holds
<1>8. scan' \in Scans /\ ScanInv'
  <2>1. CASE scan' = NoScan
    BY <1>1, <1>2, <1>5, <2>1, NoOpTyped DEF ScanInv
  <2>2. CASE scan' = [scan EXCEPT !.at = "running"]
    <3>1. scan' \in Scans /\ scan'.at = "running" /\ scan'.gen = scan.gen /\ scan'.cookies = scan.cookies
      BY <1>2, <2>2 DEF Scans
    <3>2. platform # "threads"
      BY <1>1, <1>2 DEF ScanInv
    <3> QED
      BY <1>1, <1>2, <1>5, <3>1, <3>2 DEF ScanInv
  <2> QED
    BY <1>3, <2>1, <2>2
<1>9. Void
  BY <1>1, <1>2, NoOpTyped DEF Void, OpInv
<1> QED
  BY <1>1, <1>2, <1>5, <1>6, <1>7, <1>8, <1>9 DEF CookieInv, TypeOK, Mem, Scans

LEMMA CookieRestart == CookieInv /\ Restart => CookieInv' /\ Void
<1> SUFFICES ASSUME CookieInv, Restart PROVE CookieInv' /\ Void
  OBVIOUS
<1>1. /\ mem.gen < MaxGen /\ mem' = Fresh(mem.gen + 1) /\ op' = NoOp /\ late' = NoOp /\ scan' = NoScan
      /\ UNCHANGED <<platform, disk, page, proof>> /\ MaxGen \in Nat /\ MaxSeq \in Nat
      /\ mem.gen \in Nat /\ page \in Nat /\ page <= mem.gen
  BY CookieAssumption DEF Restart, CookieInv, TypeOK, ScanInv
<1>2. /\ mem' \in Mem /\ mem'.gen = mem.gen + 1 /\ ~mem'.loaded /\ mem'.cookies = None /\ mem'.state = "none"
  BY <1>1 DEF Fresh, Mem, States
<1>3. MemInv' /\ OpInv' /\ OvertakenInv' /\ ScanInv'
  BY <1>1, <1>2, NoOpTyped DEF MemInv, OpInv, OvertakenInv, ScanInv
<1>4. Void
  BY <1>1, <1>2 DEF Void
<1> QED
  BY <1>1, <1>2, <1>3, <1>4, NoOpTyped DEF CookieInv, TypeOK, Mem, Scans

LEMMA CookieInit == Init => CookieInv
<1> SUFFICES ASSUME Init PROVE CookieInv
  OBVIOUS
<1>1. mem = Fresh(1) /\ op = NoOp /\ late = NoOp /\ scan = NoScan /\ page = 0 /\ disk \in Cookies \cup {None}
  BY DEF Init
<1>2. mem \in Mem /\ mem.gen = 1 /\ ~mem.loaded /\ mem.cookies = None /\ mem.state = "none"
  BY <1>1, CookieAssumption DEF Fresh, Mem, States
<1>3. MemInv /\ OpInv /\ OvertakenInv /\ ScanInv
  BY <1>1, <1>2, NoOpTyped DEF MemInv, OpInv, OvertakenInv, ScanInv
<1> QED
  BY <1>1, <1>2, <1>3, NoOpTyped DEF CookieInv, TypeOK, Mem, Scans

LEMMA CookieStep == CookieInv /\ [Next]_vars => CookieInv' /\ (Void \/ UNCHANGED vars)
<1> SUFFICES ASSUME CookieInv, [Next]_vars PROVE CookieInv' /\ (Void \/ UNCHANGED vars)
  OBVIOUS
<1>1. CASE UNCHANGED vars
  BY <1>1 DEF vars, CookieInv, TypeOK, MemInv, OpInv, OvertakenInv, ScanInv, Holds
<1>2. CASE Expire
  <2>1. UNCHANGED <<platform, mem, disk, op, late, scan, page, proof>>
    BY <1>2 DEF Expire
  <2>2. CookieInv'
    BY <2>1 DEF CookieInv, TypeOK, MemInv, OpInv, OvertakenInv, ScanInv, Holds
  <2> QED
    BY <2>1, <2>2 DEF Void
<1> QED
  BY <1>1, <1>2, CookieStatus, CookieScan, CookieCalls, CookieCommits, CookieVerify, CookieClear,
     CookieEvidence, CookieVerified, CookieRestart DEF Next

\* A verdict on the login was found with the very cookies the session holds, and these are the ones
\* a restart would read back, however imports, deletes, checks and scans overlap.
THEOREM VerdictStays == Spec => []VerdictIsOwn
<1>1. CookieInv => VerdictIsOwn
  BY DEF CookieInv, MemInv, VerdictIsOwn
<1> QED
  BY <1>1, CookieInit, CookieStep, PTL DEF Spec

\* A verification or a commit that was overtaken changes nothing any more (_verify_sequence, the
\* generation a commit asks for).
THEOREM OvertakenStays == Spec => OvertakenIsVoid
<1>1. CookieInv /\ [Next]_vars =>
        [/\ op.overtaken /\ op' = NoOp /\ mem'.gen = mem.gen => mem'.state = mem.state
         /\ late.overtaken /\ late' = NoOp => disk' = disk]_vars
  BY CookieStep DEF Void
<1> QED
  BY <1>1, CookieInit, CookieStep, PTL DEF Spec, OvertakenIsVoid

-----------------------------------------------------------------------------
(* GoogleAccess.                                                           *)

GoogleType ==
    /\ Google!TypeOK /\ consents \in 0 .. MaxLogins /\ logins \in 0 .. 2 * MaxLogins
    /\ login.consent <= consents

\* A desktop logs in by its browser, a server by pasting back.
LoginPlace == login.at \in IF server THEN {"idle", "thread", "exchange", "resume"} ELSE {"idle", "refresh", "consent"}

\* The exchange of a code holds GOOGLE_IO_LOCK, and what a call on a server read is the last login's.
LatestInv ==
    /\ login.at = "exchange" => io.kind = "finish" /\ io.at = "exchange"
    /\ server => token.by = logins /\ (io.at \in {"email", "refresh"} => io.token.by = logins)

\* No consent that has become a login is one again.
ConsentInv ==
    /\ login.at \in {"thread", "exchange"} => login.consent \notin used
    /\ login.at = "exchange" => login.consent # Google!Nothing
    /\ pending \in used => login.at = "resume"
    /\ ~reused

GoogleInv == GoogleType /\ LoginPlace /\ LatestInv /\ ConsentInv

Tokens == Google!Tokens
Ios == [kind : {"none", "status", "sync", "push", "finish"}, at : {"idle", "email", "load", "refresh", "exchange"}, token : Tokens]
GoogleLogins == [at : {"idle", "refresh", "consent", "thread", "exchange", "resume"}, consent : 0 .. MaxLogins, token : Tokens]

LEMMA TokensTyped ==
    /\ Google!NoToken \in Tokens /\ Google!NoToken.by = 0
    /\ Google!NoIo \in Ios /\ Google!NoIo.at = "idle" /\ Google!NoIo.kind = "none"
    /\ Google!NoLogin \in GoogleLogins /\ Google!NoLogin.at = "idle" /\ Google!NoLogin.consent = 0
    /\ \A n \in 0 .. 2 * MaxLogins : Google!Fresh(n) \in Tokens /\ Google!Fresh(n).by = n
<1>1. MaxLogins \in Nat /\ 0 \in 0 .. 2 * MaxLogins /\ 0 \in 0 .. MaxLogins
  BY ServerAssumption
<1>2. Google!NoToken \in Tokens /\ Google!NoToken.by = 0
  BY <1>1 DEF Google!NoToken, Tokens, Google!Tokens, Google!Nothing
<1>3. \A n \in 0 .. 2 * MaxLogins : Google!Fresh(n) \in Tokens /\ Google!Fresh(n).by = n
  BY DEF Google!Fresh, Tokens, Google!Tokens
<1>4. Google!NoIo \in Ios /\ Google!NoIo.at = "idle" /\ Google!NoIo.kind = "none"
  BY <1>2 DEF Google!NoIo, Ios
<1>5. Google!NoLogin \in GoogleLogins /\ Google!NoLogin.at = "idle" /\ Google!NoLogin.consent = 0
  BY <1>1, <1>2 DEF Google!NoLogin, GoogleLogins, Google!Nothing
<1> QED
  BY <1>2, <1>3, <1>4, <1>5

Answered == {"none", "ok", "share", "private", "failed", "login", "key"}

LEMMA AnswersTyped == \A kind, creds : answer \in Answered => Google!Answers(kind, creds) \subseteq Answered
BY DEF Answered, Google!Answers, Google!SyncAnswers, Google!PushAnswers

LEMMA GoogleInit == Google!Init => GoogleInv
<1> SUFFICES ASSUME Google!Init PROVE GoogleInv
  OBVIOUS
<1>1. PICK scopes \in BOOLEAN, there \in BOOLEAN :
          token = IF there THEN [Google!Fresh(1) EXCEPT !.scopes = scopes] ELSE Google!NoToken
  BY DEF Google!Init
<1>2. token \in Tokens /\ token.by \in 0 .. 2 * MaxLogins
  <2>1. 1 \in 0 .. 2 * MaxLogins
    BY ServerAssumption
  <2>2. Google!Fresh(1) \in Tokens /\ Google!NoToken \in Tokens
    BY <2>1, TokensTyped
  <2> QED
    BY <1>1, <2>2 DEF Tokens, Google!Tokens
<1>3. /\ server \in BOOLEAN /\ key \in {"none", "plain", "sealed", "broken"} /\ client \in BOOLEAN
      /\ logins = token.by /\ io = Google!NoIo /\ login = Google!NoLogin /\ pending = 0 /\ aged = {} /\ consents = 0
      /\ used = {} /\ reused = FALSE /\ answer = "none"
  BY DEF Google!Init, Google!Nothing
<1>4. GoogleType
  BY <1>2, <1>3, TokensTyped, ServerAssumption DEF GoogleType, Google!TypeOK, Tokens, Ios, GoogleLogins
<1>5. LoginPlace /\ LatestInv /\ ConsentInv
  BY <1>3, TokensTyped DEF LoginPlace, LatestInv, ConsentInv
<1> QED
  BY <1>4, <1>5 DEF GoogleInv

LEMMA GoogleFiles == GoogleInv /\ Google!FileStep => GoogleInv'
<1> SUFFICES ASSUME GoogleInv, Google!FileStep PROVE GoogleInv'
  OBVIOUS
<1>1. UNCHANGED <<server, io, login, pending, aged, consents, logins, used, reused, answer>>
  BY DEF Google!FileStep, Google!history
<1>2. /\ key' \in {"none", "plain", "sealed", "broken"} /\ client' \in BOOLEAN
      /\ token' \in Tokens /\ token'.by = token.by
  <2>1. token \in Tokens /\ key \in {"none", "plain", "sealed", "broken"} /\ client \in BOOLEAN
    BY DEF GoogleInv, GoogleType, Google!TypeOK, Tokens
  <2>2. CASE UNCHANGED token
    BY <2>1, <2>2 DEF Google!FileStep, Google!SaveKey, Google!DeleteKey, Google!SaveClient, Google!TokenAges
  <2>3. CASE Google!TokenAges
    <3>1. UNCHANGED <<key, client>> /\ \E valid \in {FALSE}, refresh \in {token.refresh, FALSE} :
              token' = [token EXCEPT !.valid = valid, !.refresh = refresh]
      BY <2>1, <2>3 DEF Google!TokenAges, Tokens, Google!Tokens
    <3> QED
      BY <2>1, <3>1 DEF Tokens, Google!Tokens
  <2> QED
    BY <2>2, <2>3 DEF Google!FileStep, Google!SaveKey, Google!DeleteKey, Google!SaveClient
<1>3. GoogleType'
  BY <1>1, <1>2 DEF GoogleInv, GoogleType, Google!TypeOK, Tokens
<1>4. LoginPlace' /\ LatestInv' /\ ConsentInv'
  BY <1>1, <1>2 DEF GoogleInv, LoginPlace, LatestInv, ConsentInv
<1> QED
  BY <1>3, <1>4 DEF GoogleInv

LEMMA GoogleCalls == GoogleInv /\ Google!Calls => GoogleInv'
<1> SUFFICES ASSUME GoogleInv, Google!Calls PROVE GoogleInv'
  OBVIOUS
<1>1. UNCHANGED <<server, key, client, login, pending, aged, consents, logins, used, reused>>
  BY DEF Google!Calls, Google!CallBegin, Google!CallEmail, Google!CallLoad, Google!CallRefresh, Google!history, Google!files
<1>2. io \in Ios /\ token \in Tokens /\ answer \in Answered
  BY DEF GoogleInv, GoogleType, Google!TypeOK, Ios, Tokens, Answered
<1>3. SUFFICES /\ io' \in Ios /\ token' \in Tokens /\ answer' \in Answered
               /\ login.at = "exchange" => io'.kind = "finish" /\ io'.at = "exchange"
               /\ server => token'.by = logins /\ (io'.at \in {"email", "refresh"} => io'.token.by = logins)
  <2>1. GoogleType'
    BY <1>1, <1>3 DEF GoogleInv, GoogleType, Google!TypeOK, Ios, Tokens, Answered
  <2>2. LoginPlace' /\ LatestInv' /\ ConsentInv'
    BY <1>1, <1>3 DEF GoogleInv, LoginPlace, LatestInv, ConsentInv
  <2> QED
    BY <2>1, <2>2 DEF GoogleInv
<1>4. LatestInv
  BY DEF GoogleInv
<1>5. CASE Google!CallBegin
  <2>1. io.kind = "none" /\ token' = token
    BY <1>5 DEF Google!CallBegin, Google!Locked, Google!files
  <2>2. answer' \in Answered
    BY <1>2, <1>5, AnswersTyped DEF Google!CallBegin
  <2>3. io' = io \/ \E kind \in {"status", "sync", "push"}, at \in {"email", "load"} : io' = [kind |-> kind, at |-> at, token |-> token]
    BY <1>5 DEF Google!CallBegin
  <2> QED
    BY <1>2, <1>4, <2>1, <2>2, <2>3 DEF LatestInv, Ios
<1>6. CASE Google!CallEmail
  <2>1. io.at = "email" /\ io' = [io EXCEPT !.at = "load"] /\ answer' = answer
    BY <1>6 DEF Google!CallEmail
  <2>2. token' \in {token, [io.token EXCEPT !.email = TRUE]}
    BY <1>6 DEF Google!CallEmail
  <2>3. io.token \in Tokens /\ [io.token EXCEPT !.email = TRUE] \in Tokens /\ [io.token EXCEPT !.email = TRUE].by = io.token.by
    BY <1>2 DEF Ios, Tokens, Google!Tokens
  <2>4. io' \in Ios /\ io'.at = "load"
    BY <1>2, <2>1 DEF Ios
  <2> QED
    BY <1>2, <1>4, <2>1, <2>2, <2>3, <2>4 DEF LatestInv
<1>7. CASE Google!CallLoad
  <2>1. io.at = "load" /\ token' = token
    BY <1>7 DEF Google!CallLoad, Google!files
  <2>2. answer' \in Answered
    BY <1>2, <1>7, AnswersTyped DEF Google!CallLoad
  <2>3. io' \in Ios /\ (io'.at \in {"email", "refresh"} => io'.token = token)
    <3>1. CASE io' = [io EXCEPT !.at = "refresh", !.token = token]
      BY <1>2, <3>1 DEF Ios
    <3>2. CASE io' = Google!NoIo
      BY <3>2, TokensTyped
    <3> QED
      BY <1>7, <3>1, <3>2 DEF Google!CallLoad
  <2> QED
    BY <1>2, <1>4, <2>1, <2>2, <2>3 DEF LatestInv
<1>8. CASE Google!CallRefresh
  <2>1. io.at = "refresh" /\ io' = Google!NoIo
    BY <1>8 DEF Google!CallRefresh
  <2>2. token' \in {token, [io.token EXCEPT !.valid = TRUE]}
    BY <1>8 DEF Google!CallRefresh
  <2>3. io.token \in Tokens /\ [io.token EXCEPT !.valid = TRUE] \in Tokens /\ [io.token EXCEPT !.valid = TRUE].by = io.token.by
    BY <1>2 DEF Ios, Tokens, Google!Tokens
  <2>4. answer' \in Answered
    BY <1>2, <1>8, AnswersTyped DEF Google!CallRefresh
  <2> QED
    BY <1>2, <1>4, <2>1, <2>2, <2>3, <2>4, TokensTyped DEF LatestInv
<1> QED
  BY <1>5, <1>6, <1>7, <1>8 DEF Google!Calls

LEMMA GoogleBrowser == GoogleInv /\ (Google!BrowserBegin \/ Google!BrowserRefresh \/ Google!BrowserConsent) => GoogleInv'
<1> SUFFICES ASSUME GoogleInv, Google!BrowserBegin \/ Google!BrowserRefresh \/ Google!BrowserConsent PROVE GoogleInv'
  OBVIOUS
<1>1. /\ UNCHANGED <<server, key, client, io, pending, aged, consents, used, reused, answer>>
      /\ login \in GoogleLogins /\ token \in Tokens /\ logins \in 0 .. 2 * MaxLogins
      /\ MaxLogins \in Nat /\ consents \in Nat
  BY ServerAssumption DEF Google!BrowserBegin, Google!BrowserRefresh, Google!BrowserConsent, Google!history, Google!files,
     GoogleInv, GoogleType, Google!TypeOK, GoogleLogins, Tokens
<1>2. ~server
  BY DEF Google!BrowserBegin, Google!BrowserRefresh, Google!BrowserConsent, GoogleInv, LoginPlace
<1>3. SUFFICES /\ login' \in GoogleLogins /\ token' \in Tokens /\ logins' \in 0 .. 2 * MaxLogins
               /\ login'.at \in {"idle", "refresh", "consent"} /\ login'.consent = 0
  <2>1. GoogleType'
    BY <1>1, <1>3 DEF GoogleInv, GoogleType, Google!TypeOK, GoogleLogins, Tokens
  <2>2. LoginPlace' /\ LatestInv' /\ ConsentInv'
    BY <1>1, <1>2, <1>3 DEF GoogleInv, LoginPlace, LatestInv, ConsentInv
  <2> QED
    BY <2>1, <2>2 DEF GoogleInv
<1>4. PICK none : none = Google!NoLogin
  OBVIOUS
<1>5. none \in GoogleLogins /\ none.at = "idle" /\ none.consent = 0
  BY <1>4, TokensTyped
<1>6. [none EXCEPT !.at = "consent"] \in GoogleLogins /\ [none EXCEPT !.at = "consent"].at = "consent"
      /\ [none EXCEPT !.at = "consent"].consent = 0
  BY <1>5 DEF GoogleLogins
<1>7. CASE Google!BrowserBegin
  <2>1. token' = token /\ logins' = logins
    BY <1>7 DEF Google!BrowserBegin, Google!files, Google!history
  <2>2. \/ login' = none \/ login' = [none EXCEPT !.at = "consent"]
        \/ login' = [none EXCEPT !.at = "refresh", !.token = token]
    BY <1>4, <1>7, Zenon DEF Google!BrowserBegin
  <2>3. [none EXCEPT !.at = "refresh", !.token = token] \in GoogleLogins
        /\ [none EXCEPT !.at = "refresh", !.token = token].at = "refresh"
        /\ [none EXCEPT !.at = "refresh", !.token = token].consent = 0
    BY <1>1, <1>5 DEF GoogleLogins
  <2> QED
    BY <1>1, <1>5, <1>6, <2>1, <2>2, <2>3
<1>8. CASE Google!BrowserRefresh
  <2>1. /\ logins' = logins /\ token' \in {token, [login.token EXCEPT !.valid = TRUE]}
        /\ login' \in {none, [none EXCEPT !.at = "consent"]}
    BY <1>4, <1>8 DEF Google!BrowserRefresh, Google!history
  <2>2. [login.token EXCEPT !.valid = TRUE] \in Tokens
    BY <1>1 DEF GoogleLogins, Tokens, Google!Tokens
  <2> QED
    BY <1>1, <1>5, <1>6, <2>1, <2>2
<1>9. CASE Google!BrowserConsent
  <2>1. login' = none
    BY <1>4, <1>9 DEF Google!BrowserConsent
  <2>2. UNCHANGED <<token, logins>> \/ (logins < MaxLogins /\ logins' = logins + 1 /\ token' = Google!Fresh(logins + 1))
    BY <1>9 DEF Google!BrowserConsent
  <2>3. logins < MaxLogins => logins + 1 \in 0 .. 2 * MaxLogins
    BY <1>1
  <2> QED
    BY <1>1, <1>5, <2>1, <2>2, <2>3, TokensTyped
<1> QED
  BY <1>7, <1>8, <1>9

LEMMA GooglePaste ==
    GoogleInv /\ (Google!LoginStart \/ Google!ConsentAges \/ Google!CompleteBegin \/ Google!CompleteExchange
                  \/ Google!CompleteRefused \/ Google!CompleteWrite \/ Google!CompleteEnd) => GoogleInv'
<1> SUFFICES ASSUME GoogleInv,
                    Google!LoginStart \/ Google!ConsentAges \/ Google!CompleteBegin \/ Google!CompleteExchange
                    \/ Google!CompleteRefused \/ Google!CompleteWrite \/ Google!CompleteEnd
             PROVE GoogleInv'
  OBVIOUS
<1>1. /\ login \in GoogleLogins /\ token \in Tokens /\ io \in Ios /\ logins \in 0 .. 2 * MaxLogins
      /\ MaxLogins \in Nat /\ consents \in 0 .. MaxLogins /\ pending \in 0 .. consents
      /\ aged \subseteq 1 .. consents /\ used \subseteq 1 .. consents /\ login.consent <= consents
      /\ login.consent \in 0 .. MaxLogins /\ login.at \in {"idle", "refresh", "consent", "thread", "exchange", "resume"}
  BY ServerAssumption DEF GoogleInv, GoogleType, Google!TypeOK, GoogleLogins, Tokens, Ios
<1>2. LoginPlace /\ LatestInv /\ ConsentInv /\ GoogleType
  BY DEF GoogleInv
<1>3. CASE Google!LoginStart
  <2>1. /\ consents < MaxLogins /\ consents' = consents + 1 /\ pending' = consents + 1
        /\ UNCHANGED <<server, key, client, token, io, login, aged, logins, used, reused, answer>>
    BY <1>3 DEF Google!LoginStart, Google!files
  <2>2. GoogleType'
    BY <1>1, <1>2, <2>1 DEF GoogleType, Google!TypeOK
  <2>3. pending' \notin used
    BY <1>1, <2>1
  <2>4. LoginPlace' /\ LatestInv' /\ ConsentInv'
    BY <1>2, <2>1, <2>3 DEF LoginPlace, LatestInv, ConsentInv
  <2> QED
    BY <2>2, <2>4 DEF GoogleInv
<1>4. CASE Google!ConsentAges
  <2>1. /\ pending \notin aged \cup {0} /\ aged' = aged \cup {pending}
        /\ UNCHANGED <<server, key, client, token, io, login, pending, consents, logins, used, reused, answer>>
    BY <1>4 DEF Google!ConsentAges, Google!files, Google!history, Google!Nothing
  <2>2. GoogleType'
    BY <1>1, <1>2, <2>1 DEF GoogleType, Google!TypeOK
  <2>3. LoginPlace' /\ LatestInv' /\ ConsentInv'
    BY <1>2, <2>1 DEF LoginPlace, LatestInv, ConsentInv
  <2> QED
    BY <2>2, <2>3 DEF GoogleInv
<1>5. CASE Google!CompleteBegin \/ Google!CompleteRefused
  <2>1. /\ UNCHANGED <<server, key, client, token, io, pending, aged, consents, logins, used, reused, answer>>
    BY <1>5 DEF Google!CompleteBegin, Google!CompleteRefused, Google!files, Google!history
  <2>2. PICK none : none = Google!NoLogin
    OBVIOUS
  <2>3. none \in GoogleLogins /\ none.at = "idle" /\ none.consent = 0
    BY <2>2, TokensTyped
  <2>4. /\ login' \in GoogleLogins /\ login'.consent <= consents
        /\ \/ login'.at = "idle"
           \/ login'.at = "thread" /\ login'.consent = pending /\ login.at = "idle" /\ server
    <3>1. CASE Google!CompleteBegin
      <4>1. server /\ login.at = "idle" /\ login' = [none EXCEPT !.at = "thread", !.consent = pending] /\ pending \in 0 .. MaxLogins
        BY <1>1, <2>2, <3>1 DEF Google!CompleteBegin
      <4>2. login' \in GoogleLogins /\ login'.at = "thread" /\ login'.consent = pending
        BY <2>3, <4>1 DEF GoogleLogins
      <4>3. pending <= consents
        BY <1>1
      <4> QED
        BY <4>1, <4>2, <4>3
    <3>2. CASE Google!CompleteRefused
      BY <1>1, <2>2, <2>3, <3>2 DEF Google!CompleteRefused
    <3> QED
      BY <1>5, <3>1, <3>2
  <2>5. GoogleType'
    BY <1>1, <1>2, <2>1, <2>4 DEF GoogleType, Google!TypeOK, GoogleLogins, Tokens
  <2>6. LoginPlace' /\ LatestInv'
    BY <1>2, <2>1, <2>4 DEF LoginPlace, LatestInv
  <2>7. ConsentInv'
    <3>1. pending \in used => login.at = "resume"
      BY <1>2 DEF ConsentInv
    <3>2. CASE login'.at = "thread"
      BY <1>2, <2>1, <2>4, <3>1, <3>2 DEF ConsentInv
    <3>3. CASE login'.at = "idle"
      <4>1. login.at # "resume"
        BY <1>5, <2>2, <2>3, <2>4, <3>3 DEF Google!CompleteBegin, Google!CompleteRefused
      <4> QED
        BY <1>2, <2>1, <3>1, <3>3, <4>1 DEF ConsentInv
    <3> QED
      BY <2>4, <3>2, <3>3
  <2> QED
    BY <2>5, <2>6, <2>7 DEF GoogleInv
<1>6. CASE Google!CompleteExchange
  <2>1. /\ login.at = "thread" /\ login.consent \notin aged \cup {0}
        /\ login' = [login EXCEPT !.at = "exchange"] /\ io' = [Google!NoIo EXCEPT !.kind = "finish", !.at = "exchange"]
        /\ UNCHANGED <<server, key, client, token, pending, aged, consents, logins, used, reused, answer>>
    BY <1>6 DEF Google!CompleteExchange, Google!Exchange, Google!files, Google!history, Google!Nothing
  <2>2. /\ login' \in GoogleLogins /\ login'.at = "exchange" /\ login'.consent = login.consent
        /\ io' \in Ios /\ io'.kind = "finish" /\ io'.at = "exchange"
    BY <1>1, <2>1, TokensTyped DEF GoogleLogins, Ios
  <2>3. GoogleType'
    BY <1>1, <1>2, <2>1, <2>2 DEF GoogleType, Google!TypeOK, GoogleLogins, Ios, Tokens
  <2>4. LoginPlace' /\ LatestInv'
    BY <1>2, <2>1, <2>2 DEF LoginPlace, LatestInv
  <2>5. ConsentInv'
    BY <1>2, <2>1, <2>2 DEF ConsentInv, Google!Nothing
  <2> QED
    BY <2>3, <2>4, <2>5 DEF GoogleInv
<1>7. CASE Google!CompleteWrite
  <2>1. /\ login.at = "exchange" /\ io.kind = "finish" /\ io' = Google!NoIo
        /\ UNCHANGED <<server, key, client, pending, aged, consents, answer>>
    BY <1>2, <1>7 DEF Google!CompleteWrite, Google!ReleaseIo, LatestInv
  <2>2. io' \in Ios /\ io'.at = "idle" /\ server
    BY <1>2, <2>1, TokensTyped DEF LoginPlace
  <2>3. CASE login' = Google!NoLogin /\ UNCHANGED <<token, logins, used, reused>>
    <3>1. login' \in GoogleLogins /\ login'.at = "idle" /\ login'.consent = 0
      BY <2>3, TokensTyped
    <3>2. GoogleType'
      BY <1>1, <1>2, <2>1, <2>2, <2>3, <3>1 DEF GoogleType, Google!TypeOK, GoogleLogins, Ios, Tokens
    <3>3. LoginPlace' /\ LatestInv' /\ ConsentInv'
      BY <1>2, <2>1, <2>2, <2>3, <3>1 DEF LoginPlace, LatestInv, ConsentInv
    <3> QED
      BY <3>2, <3>3 DEF GoogleInv
  <2>4. CASE /\ logins < 2 * MaxLogins /\ logins' = logins + 1 /\ token' = Google!Fresh(logins + 1)
             /\ login' = [login EXCEPT !.at = "resume"]
             /\ used' = used \cup {login.consent} /\ reused' = (reused \/ login.consent \in used)
    <3>1. login' \in GoogleLogins /\ login'.at = "resume" /\ login'.consent = login.consent
      BY <1>1, <2>4 DEF GoogleLogins
    <3>2. logins' \in 0 .. 2 * MaxLogins /\ token' \in Tokens /\ token'.by = logins'
      <4>1. logins + 1 \in 0 .. 2 * MaxLogins
        BY <1>1, <2>4
      <4> QED
        BY <2>4, <4>1, TokensTyped
    <3>3. used' \subseteq 1 .. consents
      BY <1>1, <1>2, <2>1, <2>4 DEF ConsentInv, Google!Nothing
    <3>4. ~reused'
      BY <1>2, <2>1, <2>4 DEF ConsentInv
    <3>5. GoogleType'
      BY <1>1, <1>2, <2>1, <2>2, <3>1, <3>2, <3>3 DEF GoogleType, Google!TypeOK, GoogleLogins, Ios, Tokens
    <3>6. LoginPlace' /\ LatestInv' /\ ConsentInv'
      BY <1>2, <2>1, <2>2, <3>1, <3>2, <3>4 DEF LoginPlace, LatestInv, ConsentInv
    <3> QED
      BY <3>5, <3>6 DEF GoogleInv
  <2> QED
    BY <1>7, <2>3, <2>4 DEF Google!CompleteWrite
<1>8. CASE Google!CompleteEnd
  <2>1. /\ login' = Google!NoLogin /\ pending' = 0
        /\ UNCHANGED <<server, key, client, token, io, aged, consents, logins, used, reused, answer>>
    BY <1>8 DEF Google!CompleteEnd, Google!AfterLogin, Google!Nothing, Google!files, Google!history
  <2>2. login' \in GoogleLogins /\ login'.at = "idle" /\ login'.consent = 0
    BY <2>1, TokensTyped
  <2>3. GoogleType'
    BY <1>1, <1>2, <2>1, <2>2 DEF GoogleType, Google!TypeOK, GoogleLogins, Ios, Tokens
  <2>4. LoginPlace' /\ LatestInv' /\ ConsentInv'
    BY <1>1, <1>2, <2>1, <2>2 DEF LoginPlace, LatestInv, ConsentInv
  <2> QED
    BY <2>3, <2>4 DEF GoogleInv
<1> QED
  BY <1>3, <1>4, <1>5, <1>6, <1>7, <1>8

LEMMA GoogleStep == GoogleInv /\ [Google!Next]_Google!vars => GoogleInv'
<1> SUFFICES ASSUME GoogleInv, [Google!Next]_Google!vars PROVE GoogleInv'
  OBVIOUS
<1>1. CASE UNCHANGED Google!vars
  BY <1>1 DEF Google!vars, Google!files, Google!history, GoogleInv, GoogleType, Google!TypeOK, LoginPlace, LatestInv, ConsentInv
<1>2. CASE Google!Restart
  <2>1. /\ io' = Google!NoIo /\ login' = Google!NoLogin /\ pending' = 0
        /\ UNCHANGED <<server, key, client, token, aged, consents, logins, used, reused, answer>>
    BY <1>2 DEF Google!Restart, Google!files, Google!history, Google!Nothing
  <2>2. /\ login' \in GoogleLogins /\ login'.at = "idle" /\ login'.consent = 0
        /\ io' \in Ios /\ io'.at = "idle"
    BY <2>1, TokensTyped
  <2>3. consents \in Nat /\ used \subseteq 1 .. consents
    BY ServerAssumption DEF GoogleInv, GoogleType, Google!TypeOK
  <2>4. GoogleType'
    BY <2>1, <2>2, <2>3 DEF GoogleInv, GoogleType, Google!TypeOK, GoogleLogins, Ios, Tokens
  <2>5. LoginPlace' /\ LatestInv' /\ ConsentInv'
    BY <2>1, <2>2, <2>3 DEF GoogleInv, LoginPlace, LatestInv, ConsentInv
  <2> QED
    BY <2>4, <2>5 DEF GoogleInv
<1> QED
  BY <1>1, <1>2, GoogleFiles, GoogleCalls, GoogleBrowser, GooglePaste DEF Google!Next, Google!Logins

\* On a server the token in the file is the last login's, and no consent becomes two logins, however
\* calls that refresh, restarts and new logins come between (the exchange holds GOOGLE_IO_LOCK).
THEOREM LoginsStay == Google!Spec => []LoginsStand
<1>1. GoogleInv => LoginsStand
  BY DEF GoogleInv, GoogleType, LatestInv, ConsentInv, LoginsStand, Google!LatestLoginStands, Google!OneCodePerConsent
<1> QED
  BY <1>1, GoogleInit, GoogleStep, PTL DEF Google!Spec
-----------------------------------------------------------------------------
(* Accounts: the inductive invariant.                                      *)

SessionRecords(h) == [user : Names \cup {NoOne}, credential : 0 .. h, password : 0 .. h]
Accts(h) == [role : {"admin", "viewer"}, hash : 0 .. h]
LogIns(h) == [at : {"idle", "form", "account", "shared", "create"}, user : Names \cup {NoOne}, hash : 0 .. h]

\* No record holds a hash that has not been made, and no session a number that has not been given out.
UserType ==
    /\ hashes \in 0 .. MaxHashes /\ shared \in 0 .. hashes /\ issued \in 0 .. MaxTokens /\ loaded \in BOOLEAN
    /\ DOMAIN users \subseteq Names /\ \A n \in DOMAIN users : users[n] \in Accts(hashes)
    /\ lapsed \subseteq 1 .. issued /\ kept \subseteq 1 .. issued /\ ended \subseteq 1 .. issued
    /\ DOMAIN sessions \subseteq 1 .. issued /\ \A t \in DOMAIN sessions : sessions[t] \in SessionRecords(hashes)
    /\ DOMAIN sessionFile \subseteq 1 .. issued /\ \A t \in DOMAIN sessionFile : sessionFile[t] \in SessionRecords(hashes)
    /\ logIn \in [Browsers -> LogIns(hashes)]

\* The sessions in memory are of this process's shared password, and those the file has are its own.
MemoryInv ==
    /\ ~loaded => DOMAIN sessions = {}
    /\ \A t \in DOMAIN sessions : sessions[t].password = shared /\ (t \in DOMAIN sessionFile => sessions[t] = sessionFile[t])

\* The password a session was handed out for still stands: its account's, or the shared one.
Stands(us, r) == r.user # NoOne => r.user \in DOMAIN us /\ us[r.user].hash = r.credential

\* A session the file has is in the store too, unless it has lapsed, is of another shared password, or
\* a logout took it out and could not save that.
FileInv ==
    \A t \in DOMAIN sessionFile :
        t \in lapsed \cup left \/ sessionFile[t].password # shared \/ (loaded => t \in DOMAIN sessions)

\* An ended session has lapsed, or wherever it is still written down it is of a password that has changed.
Dead(us, r) == ~Stands(us, r) \/ r.password # shared
EndedInv ==
    \A t \in ended \ (lapsed \cup left) :
        /\ t \in DOMAIN sessions => Dead(users, sessions[t])
        /\ t \in DOMAIN sessionFile => Dead(users, sessionFile[t])

\* A session that nothing has ended is on disk, in memory too once that is loaded, and its password stands.
KeptInv ==
    \A t \in kept :
        /\ t \notin lapsed /\ t \in DOMAIN sessionFile /\ (loaded => t \in DOMAIN sessions)
        /\ sessionFile[t].password = shared /\ Stands(users, sessionFile[t])

\* The attempts the limiter has let in and that have not been answered may still fail.
Attempts == {b \in Browsers : logIn[b].at \in {"form", "account", "shared"}}
LimitInv == failures \in Nat /\ failures + Cardinality(Attempts) <= Limit + Cardinality(Browsers) - 1

UserInv == UserType /\ MemoryInv /\ FileInv /\ EndedInv /\ KeptInv /\ LimitInv

LEMMA AttemptsCounted ==
    /\ Cardinality(Browsers) \in Nat /\ IsFiniteSet(Attempts)
    /\ Cardinality(Attempts) \in Nat /\ Cardinality(Attempts) <= Cardinality(Browsers)
<1>1. IsFiniteSet(Browsers) /\ Attempts \subseteq Browsers
  BY ServerAssumption DEF Attempts
<1> QED
  BY <1>1, FS_Subset, FS_CardinalityType

\* What the store reads as its sessions: those in memory, or those of the file that are this process's.
IsView(v) ==
    /\ DOMAIN v \subseteq 1 .. issued /\ kept \subseteq DOMAIN v
    /\ \A t \in DOMAIN v :
        /\ v[t] \in SessionRecords(hashes) /\ v[t].password = shared
        /\ t \in DOMAIN sessionFile => v[t] = sessionFile[t]
        /\ t \in ended \ (lapsed \cup left) => Dead(users, v[t])
    /\ \A t \in DOMAIN sessionFile : t \in lapsed \cup left \/ sessionFile[t].password # shared \/ t \in DOMAIN v

LEMMA ViewKnown == UserInv => IsView(Users!View) /\ (loaded => Users!View = sessions)
<1> SUFFICES ASSUME UserInv PROVE IsView(Users!View) /\ (loaded => Users!View = sessions)
  OBVIOUS
<1>1. CASE loaded
  <2>1. Users!View = sessions
    BY <1>1 DEF Users!View
  <2>2. IsView(sessions)
    BY <1>1 DEF UserInv, UserType, MemoryInv, FileInv, EndedInv, KeptInv, IsView
  <2> QED
    BY <2>1, <2>2
<1>2. CASE ~loaded
  <2>1. PICK v : v = Users!View
    OBVIOUS
  <2>2. v = [t \in {t \in DOMAIN sessionFile : sessionFile[t].password = shared /\ t \notin lapsed} |-> sessionFile[t]]
    BY <1>2, <2>1 DEF Users!View
  <2>3. IsView(v)
    BY <2>2 DEF UserInv, UserType, EndedInv, KeptInv, IsView
  <2> QED
    BY <1>2, <2>1, <2>3
<1> QED
  BY <1>1, <1>2 DEF UserInv, UserType

\* The four commands, one by one.
Put(n, r) == [m \in DOMAIN users \cup {n} |-> IF m = n THEN r ELSE users[m]]
AddedTo(n) == {Put(n, [role |-> role, hash |-> hashes + 1]) : role \in {"admin", "viewer"}}
Rehashed == {Put(n, [users[n] EXCEPT !.hash = hashes + 1]) : n \in DOMAIN users}
Promoted(n) ==
    {Put(n, [users[n] EXCEPT !.role = role]) :
        role \in IF Users!LastAdmin(n, users) THEN {"admin"} ELSE {"admin", "viewer"}}
Removed ==
    {[m \in DOMAIN users \ {n} |-> users[m]] :
        n \in {m \in DOMAIN users : ~Users!LastAdmin(m, users) \/ DOMAIN users = {m}}}

LEMMA EditsAre ==
    ASSUME NEW us \in Users!Edits
    PROVE  \/ \E n \in Names \ DOMAIN users : us \in AddedTo(n)
           \/ us \in Rehashed
           \/ \E n \in DOMAIN users : us \in Promoted(n)
           \/ us \in Removed
<1>1. Users!Edits = (UNION {AddedTo(n) : n \in Names \ DOMAIN users}) \cup Rehashed
                    \cup (UNION {Promoted(n) : n \in DOMAIN users}) \cup Removed
  BY DEF Users!Edits, AddedTo, Rehashed, Promoted, Removed, Put
<1> QED
  BY <1>1

\* The accounts a command may write: each one's hash is the new one, or the one it had.
LEMMA EditsTyped ==
    ASSUME UserInv, NEW us \in Users!Edits
    PROVE  /\ DOMAIN us \subseteq Names
           /\ \A n \in DOMAIN us : us[n] \in Accts(hashes + 1)
                /\ (us[n].hash = hashes + 1 \/ (n \in DOMAIN users /\ us[n].hash = users[n].hash))
<1>1. hashes \in Nat /\ DOMAIN users \subseteq Names /\ \A n \in DOMAIN users : users[n] \in Accts(hashes)
  BY ServerAssumption DEF UserInv, UserType
<1>2. \A n \in DOMAIN users : users[n] \in Accts(hashes + 1)
  BY <1>1 DEF Accts
<1>3. \/ \E n \in Names, r \in Accts(hashes + 1) :
            /\ r.hash = hashes + 1 \/ (n \in DOMAIN users /\ r.hash = users[n].hash)
            /\ us = [m \in DOMAIN users \cup {n} |-> IF m = n THEN r ELSE users[m]]
      \/ \E n \in DOMAIN users : us = [m \in DOMAIN users \ {n} |-> users[m]]
  <2>1. CASE us \in Removed
    BY <2>1 DEF Removed
  <2>2. CASE \E n \in Names \ DOMAIN users : us \in AddedTo(n)
    <3>1. PICK n \in Names \ DOMAIN users, role \in {"admin", "viewer"} : us = Put(n, [role |-> role, hash |-> hashes + 1])
      BY <2>2 DEF AddedTo
    <3>2. PICK r : r = [role |-> role, hash |-> hashes + 1]
      OBVIOUS
    <3>3. r \in Accts(hashes + 1) /\ r.hash = hashes + 1
      BY <1>1, <3>2 DEF Accts
    <3> QED
      BY <3>1, <3>2, <3>3 DEF Put
  <2>3. CASE us \in Rehashed
    <3>1. PICK n \in DOMAIN users : us = Put(n, [users[n] EXCEPT !.hash = hashes + 1])
      BY <2>3 DEF Rehashed
    <3>2. PICK r : r = [users[n] EXCEPT !.hash = hashes + 1]
      OBVIOUS
    <3>3. r \in Accts(hashes + 1) /\ r.hash = hashes + 1
      BY <1>1, <3>2 DEF Accts
    <3> QED
      BY <1>1, <3>1, <3>2, <3>3 DEF Put
  <2>4. CASE \E n \in DOMAIN users : us \in Promoted(n)
    <3>1. PICK n \in DOMAIN users, role \in {"admin", "viewer"} : us = Put(n, [users[n] EXCEPT !.role = role])
      BY <2>4 DEF Promoted
    <3>2. PICK r : r = [users[n] EXCEPT !.role = role]
      OBVIOUS
    <3>3. r \in Accts(hashes + 1) /\ r.hash = users[n].hash
      BY <1>2, <3>2 DEF Accts
    <3> QED
      BY <1>1, <3>1, <3>2, <3>3 DEF Put
  <2> QED
    BY <2>1, <2>2, <2>3, <2>4, EditsAre
<1>4. CASE \E n \in DOMAIN users : us = [m \in DOMAIN users \ {n} |-> users[m]]
  BY <1>1, <1>2, <1>4
<1>5. CASE \E n \in Names, r \in Accts(hashes + 1) :
            /\ r.hash = hashes + 1 \/ (n \in DOMAIN users /\ r.hash = users[n].hash)
            /\ us = [m \in DOMAIN users \cup {n} |-> IF m = n THEN r ELSE users[m]]
  BY <1>1, <1>2, <1>5
<1> QED
  BY <1>3, <1>4, <1>5

LEMMA UserInit == Users!Init => UserInv
<1> SUFFICES ASSUME Users!Init PROVE UserInv
  OBVIOUS
<1>1. /\ users = Users!Empty /\ sessions = Users!Empty /\ sessionFile = Users!Empty
      /\ hashes = 0 /\ shared = 0 /\ loaded = FALSE /\ issued = 0 /\ lapsed = {} /\ failures = 0 /\ kept = {} /\ ended = {} /\ left = {}
      /\ logIn = [b \in Browsers |-> Users!NoLogin]
  BY DEF Users!Init
<1>2. DOMAIN users = {} /\ DOMAIN sessions = {} /\ DOMAIN sessionFile = {}
  BY <1>1 DEF Users!Empty
<1>3. PICK none : none = Users!NoLogin
  OBVIOUS
<1>4. none \in LogIns(0) /\ none.at = "idle"
  BY <1>3 DEF Users!NoLogin, LogIns
<1>5. UserType
  <2>1. logIn \in [Browsers -> LogIns(hashes)]
    BY <1>1, <1>3, <1>4
  <2>2. 0 \in 0 .. MaxHashes /\ 0 \in 0 .. MaxTokens /\ 0 \in 0 .. 0
    BY ServerAssumption
  <2> QED
    BY <1>1, <1>2, <2>1, <2>2 DEF UserType
<1>6. Attempts = {}
  BY <1>1, <1>3, <1>4 DEF Attempts
<1>7. LimitInv
  BY <1>1, <1>6, FS_EmptySet, AttemptsCounted, ServerAssumption DEF LimitInv
<1> QED
  BY <1>1, <1>2, <1>5, <1>7 DEF UserInv, MemoryInv, FileInv, EndedInv, KeptInv

LEMMA UserCommand == UserInv /\ Users!Command => UserInv'
<1> SUFFICES ASSUME UserInv, Users!Command PROVE UserInv'
  OBVIOUS
<1>1. /\ hashes < MaxHashes /\ hashes' = hashes + 1 /\ users' \in Users!Edits
      /\ UNCHANGED <<shared, loaded, sessions, sessionFile, issued, lapsed, faults, logIn, failures, left>>
  BY DEF Users!Command, Users!store
<1>2. PICK gone : /\ gone = {t \in kept : Users!OfChanged(users', t)}
                  /\ kept' = kept \ gone /\ ended' = ended \cup gone
  BY DEF Users!Command
<1>3. /\ DOMAIN users' \subseteq Names
      /\ \A n \in DOMAIN users' : users'[n] \in Accts(hashes + 1)
           /\ (users'[n].hash = hashes + 1 \/ (n \in DOMAIN users /\ users'[n].hash = users[n].hash))
  BY <1>1, EditsTyped
<1>4. hashes \in Nat /\ MaxHashes \in Nat
  BY ServerAssumption DEF UserInv, UserType
<1>5. \A r \in SessionRecords(hashes) : r \in SessionRecords(hashes + 1) /\ r.credential # hashes + 1
  BY <1>4 DEF SessionRecords
<1>6. \A r \in LogIns(hashes) : r \in LogIns(hashes + 1)
  BY <1>4 DEF LogIns
<1>7. UserType'
  <2>1. hashes' \in 0 .. MaxHashes /\ shared' \in 0 .. hashes'
    BY <1>1, <1>4 DEF UserInv, UserType
  <2>2. kept' \subseteq 1 .. issued /\ ended' \subseteq 1 .. issued
    BY <1>2 DEF UserInv, UserType
  <2>3. logIn' \in [Browsers -> LogIns(hashes')]
    BY <1>1, <1>6 DEF UserInv, UserType
  <2>4. /\ \A t \in DOMAIN sessions : sessions[t] \in SessionRecords(hashes')
        /\ \A t \in DOMAIN sessionFile : sessionFile[t] \in SessionRecords(hashes')
    BY <1>1, <1>5 DEF UserInv, UserType
  <2> QED
    BY <1>1, <1>3, <2>1, <2>2, <2>3, <2>4 DEF UserInv, UserType
<1>8. \A r \in SessionRecords(hashes) : ~Stands(users, r) => ~Stands(users', r)
  BY <1>3, <1>5 DEF Stands
<1>9. MemoryInv' /\ FileInv' /\ LimitInv'
  BY <1>1 DEF UserInv, MemoryInv, FileInv, LimitInv, Attempts
<1>10. \A t \in DOMAIN sessionFile : Users!OfChanged(users', t) <=> ~Stands(users', sessionFile[t])
  BY DEF Users!OfChanged, Stands
<1>11. KeptInv'
  BY <1>1, <1>2, <1>10 DEF UserInv, KeptInv
<1>12. EndedInv'
  <2> SUFFICES ASSUME NEW t \in ended' \ (lapsed \cup left)
               PROVE  /\ t \in DOMAIN sessions => Dead(users', sessions[t])
                      /\ t \in DOMAIN sessionFile => Dead(users', sessionFile[t])
    BY <1>1 DEF EndedInv, Dead
  <2>1. CASE t \in ended
    BY <1>8, <2>1 DEF UserInv, UserType, EndedInv, Dead
  <2>2. CASE t \in gone
    <3>1. t \in DOMAIN sessionFile /\ ~Stands(users', sessionFile[t])
      BY <1>2, <1>10, <2>2 DEF UserInv, KeptInv
    <3> QED
      BY <3>1 DEF UserInv, MemoryInv, Dead
  <2> QED
    BY <1>2, <2>1, <2>2
<1> QED
  BY <1>7, <1>9, <1>11, <1>12 DEF UserInv

\* The store in memory becomes a part of what it read, and so does the file, or it stays.
LEMMA StoreShrinks ==
    ASSUME UserInv, NEW v, IsView(v),
           UNCHANGED <<users, hashes, shared, issued, lapsed, logIn, failures>>, loaded' = TRUE,
           DOMAIN sessions' \subseteq DOMAIN v, \A t \in DOMAIN sessions' : sessions'[t] = v[t],
           \/ sessionFile' = sessions' /\ left' = left \cap DOMAIN sessions'
           \/ sessionFile' = sessionFile /\ left \subseteq left' /\ DOMAIN v \subseteq DOMAIN sessions' \cup left',
           kept' \subseteq kept \cap DOMAIN sessions',
           ended' \subseteq 1 .. issued,
           \A t \in ended' \ ended : t \notin DOMAIN sessions' /\ (sessionFile' = sessions' \/ t \notin DOMAIN v)
    PROVE  UserInv'
<1>1. UserType'
  BY DEF UserInv, UserType, IsView
<1>2. MemoryInv'
  BY DEF UserInv, MemoryInv, IsView
<1>3. EndedInv'
  <2> SUFFICES ASSUME NEW t \in ended' \ (lapsed \cup left')
               PROVE  /\ t \in DOMAIN sessions' => Dead(users, sessions'[t])
                      /\ t \in DOMAIN sessionFile' => Dead(users, sessionFile'[t])
    BY DEF EndedInv, Dead
  <2>1. CASE t \in ended
    <3>1. t \in DOMAIN sessions' => t \notin left
      BY <2>1
    <3> QED
      BY <2>1, <3>1 DEF UserInv, EndedInv, IsView
  <2>2. CASE t \notin ended
    BY <2>2 DEF IsView, Dead
  <2> QED
    BY <2>1, <2>2
<1>6. FileInv'
  BY DEF FileInv, IsView
<1>4. KeptInv'
  BY DEF UserInv, KeptInv, IsView
<1>5. LimitInv'
  BY DEF UserInv, LimitInv, Attempts
<1> QED
  BY <1>1, <1>2, <1>3, <1>4, <1>5, <1>6 DEF UserInv

LEMMA UserReads == UserInv /\ (Users!Logout \/ Users!Request) => UserInv'
<1> SUFFICES ASSUME UserInv, Users!Logout \/ Users!Request PROVE UserInv'
  OBVIOUS
<1>1. PICK v : v = Users!View
  OBVIOUS
<1>2. IsView(v)
  BY <1>1, ViewKnown
<1>3. CASE Users!Request
  <2>1. /\ loaded' = TRUE /\ sessions' = v
        /\ UNCHANGED <<users, hashes, shared, sessionFile, issued, lapsed, logIn, failures, kept, ended, left>>
    BY <1>1, <1>3 DEF Users!Request, Users!accounts, Users!history
  <2>2. ended \subseteq 1 .. issued /\ kept \subseteq DOMAIN v
    BY <1>2 DEF UserInv, UserType, IsView
  <2> QED
    BY <1>2, <2>1, <2>2, StoreShrinks
<1>4. CASE Users!Logout
  <2>1. PICK t \in 1 .. issued : Users!Revoke(t) /\ kept' = kept \ {t}
    BY <1>4 DEF Users!Logout
  <2>2. UNCHANGED <<users, hashes, shared, issued, lapsed, logIn, failures>> /\ loaded' = TRUE
    BY <1>4, <2>1 DEF Users!Logout, Users!Revoke, Users!accounts
  <2>3. DOMAIN sessions' = DOMAIN v \ {t} /\ \A u \in DOMAIN sessions' : sessions'[u] = v[u]
    BY <1>1, <2>1 DEF Users!Revoke, Users!Without
  <2>4. \/ sessionFile' = sessions' /\ left' = left \cap DOMAIN sessions' /\ ended' = ended \cup {t}
        \/ sessionFile' = sessionFile /\ left' = left \cup {t} /\ ended' = ended
        \/ sessionFile' = sessionFile /\ left' = left /\ ended' = ended \cup {t} /\ t \notin DOMAIN v
    BY <1>1, <2>1 DEF Users!Revoke, Users!SavedAs, Users!SaveFails
  <2>5. kept' \subseteq kept \cap DOMAIN sessions' /\ ended' \subseteq 1 .. issued
    BY <1>2, <2>1, <2>3, <2>4 DEF UserInv, UserType, IsView
  <2>6. \A u \in ended' \ ended : u \notin DOMAIN sessions' /\ (sessionFile' = sessions' \/ u \notin DOMAIN v)
    BY <2>3, <2>4
  <2>7. /\ DOMAIN sessions' \subseteq DOMAIN v
        /\ \/ sessionFile' = sessions' /\ left' = left \cap DOMAIN sessions'
           \/ sessionFile' = sessionFile /\ left \subseteq left' /\ DOMAIN v \subseteq DOMAIN sessions' \cup left'
    BY <2>3, <2>4
  <2> QED
    BY <1>2, <2>2, <2>3, <2>5, <2>6, <2>7, StoreShrinks
<1> QED
  BY <1>3, <1>4

LEMMA UserCreate == UserInv /\ (\E b \in Browsers : Users!Create(b)) => UserInv'
<1> SUFFICES ASSUME UserInv, NEW b \in Browsers, Users!Create(b) PROVE UserInv'
  OBVIOUS
<1>1. PICK v : v = Users!View
  OBVIOUS
<1>2. IsView(v)
  BY <1>1, ViewKnown
<1>3. PICK l : l = logIn[b]
  OBVIOUS
<1>4. PICK t : t = issued + 1
  OBVIOUS
<1>5. PICK r : r = [user |-> l.user, credential |-> l.hash, password |-> shared]
  OBVIOUS
<1>6. PICK now : now = [u \in (DOMAIN v \ lapsed) \cup {t} |-> IF u = t THEN r ELSE v[u]]
  OBVIOUS
<1>7. PICK none : none = Users!NoLogin
  OBVIOUS
<1>8. /\ l.at = "create" /\ issued < MaxTokens /\ issued' = t /\ sessions' = now /\ loaded' = TRUE
      /\ logIn' = [logIn EXCEPT ![b] = none]
      /\ UNCHANGED <<users, hashes, shared, lapsed, failures>>
  BY <1>1, <1>3, <1>4, <1>5, <1>6, <1>7 DEF Users!Create, Users!Credential, Users!accounts
<1>9. \/ sessionFile' = now /\ left' = left \cap DOMAIN now /\ kept' = kept \cup {t} /\ ended' = ended /\ Stands(users, r)
      \/ sessionFile' = now /\ left' = left \cap DOMAIN now /\ kept' = kept /\ ended' = ended \cup {t} /\ ~Stands(users, r)
      \/ sessionFile' = sessionFile /\ left' = left /\ kept' = kept /\ ended' = ended
  <2>1. Stands(users, r) <=> (l.user = NoOne \/ (l.user \in DOMAIN users /\ users[l.user].hash = l.hash))
    BY <1>5 DEF Stands
  <2>2. PICK current \in BOOLEAN : current <=> (l.user = NoOne \/ (l.user \in DOMAIN users /\ users[l.user].hash = l.hash))
    OBVIOUS
  <2>3. \/ sessionFile' = now /\ left' = left \cap DOMAIN now
           /\ IF current THEN kept' = kept \cup {t} /\ ended' = ended
              ELSE ended' = ended \cup {t} /\ kept' = kept
        \/ sessionFile' = sessionFile /\ left' = left /\ kept' = kept /\ ended' = ended
    BY <1>1, <1>3, <1>4, <1>5, <1>6, <2>2
       DEF Users!Create, Users!Credential, Users!SavedAs, Users!SaveFails, Users!history
  <2> QED
    BY <2>1, <2>2, <2>3
<1>10. /\ hashes \in Nat /\ shared \in 0 .. hashes /\ issued \in Nat /\ issued' \in 0 .. MaxTokens /\ t = issued + 1
       /\ t \notin 1 .. issued /\ 1 .. issued \subseteq 1 .. t /\ t \in 1 .. t
  BY <1>4, <1>8, ServerAssumption DEF UserInv, UserType
<1>11. l \in LogIns(hashes)
  BY <1>3 DEF UserInv, UserType
<1>12. r \in SessionRecords(hashes) /\ r.password = shared
  BY <1>5, <1>10, <1>11 DEF LogIns, SessionRecords
<1>13. none \in LogIns(hashes) /\ none.at = "idle"
  BY <1>7, <1>10 DEF Users!NoLogin, LogIns
<1>14. /\ DOMAIN now = (DOMAIN v \ lapsed) \cup {t} /\ now[t] = r
       /\ \A u \in DOMAIN now : u # t => u \in DOMAIN v /\ u \notin lapsed /\ now[u] = v[u]
  BY <1>6
<1>15. DOMAIN now \subseteq 1 .. t /\ \A u \in DOMAIN now : now[u] \in SessionRecords(hashes)
  BY <1>2, <1>10, <1>12, <1>14 DEF IsView
<1>16. /\ kept \subseteq 1 .. issued /\ ended \subseteq 1 .. issued /\ lapsed \subseteq 1 .. issued
       /\ DOMAIN sessionFile \subseteq 1 .. issued
  BY DEF UserInv, UserType
<1>17. UserType'
  <2>1. logIn' \in [Browsers -> LogIns(hashes)]
    BY <1>8, <1>13 DEF UserInv, UserType
  <2>2. lapsed' \subseteq 1 .. t /\ kept' \subseteq 1 .. t /\ ended' \subseteq 1 .. t
    BY <1>8, <1>9, <1>10, <1>16
  <2>3. DOMAIN sessionFile' \subseteq 1 .. t /\ \A u \in DOMAIN sessionFile' : sessionFile'[u] \in SessionRecords(hashes)
    <3>1. CASE sessionFile' = now
      BY <1>15, <3>1
    <3>2. CASE sessionFile' = sessionFile
      BY <1>10, <1>16, <3>2 DEF UserInv, UserType
    <3> QED
      BY <1>9, <3>1, <3>2
  <2> QED
    BY <1>8, <1>10, <1>15, <2>1, <2>2, <2>3 DEF UserInv, UserType
<1>18. MemoryInv'
  <2>1. \A u \in DOMAIN now : now[u].password = shared /\ (u \in DOMAIN sessionFile => now[u] = sessionFile[u])
    BY <1>2, <1>10, <1>12, <1>14, <1>16 DEF IsView
  <2> QED
    BY <1>8, <1>9, <2>1 DEF MemoryInv
<1>19. EndedInv'
  <2>1. \A u \in DOMAIN now : u \in ended \ (lapsed \cup left) => Dead(users, now[u])
    BY <1>2, <1>10, <1>14, <1>16 DEF IsView
  <2>2. \A u \in DOMAIN sessionFile : u \in ended \ (lapsed \cup left) => Dead(users, sessionFile[u])
    BY DEF UserInv, EndedInv
  <2>3. ~Stands(users, r) => Dead(users, now[t])
    BY <1>14 DEF Dead
  <2>4. \A u \in ended' : u \in ended \/ (u = t /\ sessionFile' = now /\ ~Stands(users, r))
    BY <1>9
  <2>5. \A u \in ended' \ (lapsed \cup left') : u \in DOMAIN now => Dead(users, now[u])
    BY <1>9, <2>1, <2>3, <2>4
  <2>6. \A u \in ended' \ (lapsed \cup left') : u \in DOMAIN sessionFile' => Dead(users, sessionFile'[u])
    BY <1>9, <1>10, <1>16, <2>2, <2>4, <2>5
  <2> QED
    BY <1>8, <2>5, <2>6 DEF EndedInv, Dead
<1>22. FileInv'
  <2>1. CASE sessionFile' = now
    BY <1>8, <2>1 DEF FileInv
  <2>2. CASE sessionFile' = sessionFile /\ left' = left
    <3>1. \A u \in DOMAIN sessionFile :
            u \in lapsed \cup left \/ sessionFile[u].password # shared \/ u \in DOMAIN now
      BY <1>2, <1>14 DEF IsView
    <3> QED
      BY <1>8, <2>2, <3>1 DEF FileInv
  <2> QED
    BY <1>9, <2>1, <2>2
<1>20. KeptInv'
  <2>1. \A u \in kept : /\ u \in DOMAIN now /\ u \notin lapsed /\ u \in DOMAIN sessionFile
                         /\ sessionFile[u].password = shared /\ Stands(users, sessionFile[u])
                         /\ now[u] = sessionFile[u]
    BY <1>2, <1>10, <1>14, <1>16 DEF UserInv, KeptInv, IsView
  <2>2. t \notin lapsed /\ t \in DOMAIN now
    BY <1>10, <1>14, <1>16
  <2>3. CASE sessionFile' = now
    BY <1>8, <1>9, <1>12, <1>14, <2>1, <2>2, <2>3 DEF KeptInv
  <2>4. CASE sessionFile' = sessionFile /\ kept' = kept
    BY <1>8, <2>1, <2>4 DEF KeptInv
  <2> QED
    BY <1>9, <2>3, <2>4
<1>21. LimitInv'
  <2>1. Attempts' = Attempts
    BY <1>3, <1>8, <1>13 DEF Attempts, UserInv, UserType
  <2> QED
    BY <1>8, <2>1 DEF UserInv, LimitInv
<1> QED
  BY <1>17, <1>18, <1>19, <1>20, <1>21, <1>22 DEF UserInv

\* A step of a login that leaves the store alone.
LEMMA LoginMoves ==
    ASSUME UserInv, NEW b \in Browsers, NEW l \in LogIns(hashes), logIn' = [logIn EXCEPT ![b] = l], LimitInv',
           UNCHANGED <<users, hashes, shared, loaded, sessions, sessionFile, issued, lapsed, kept, ended, left>>
    PROVE  UserInv'
<1>1. UserType'
  <2>1. logIn' \in [Browsers -> LogIns(hashes)]
    BY DEF UserInv, UserType
  <2> QED
    BY <2>1 DEF UserInv, UserType
<1>2. MemoryInv' /\ FileInv' /\ EndedInv' /\ KeptInv'
  BY DEF UserInv, MemoryInv, FileInv, EndedInv, KeptInv, Dead
<1> QED
  BY <1>1, <1>2 DEF UserInv

LEMMA UserLogsIn ==
    UserInv /\ (\E b \in Browsers : Users!LoginPost(b) \/ Users!LoginForm(b) \/ Users!LoginChecked(b)) => UserInv'
<1> SUFFICES ASSUME UserInv, NEW b \in Browsers, Users!LoginPost(b) \/ Users!LoginForm(b) \/ Users!LoginChecked(b)
             PROVE  UserInv'
  OBVIOUS
<1>1. PICK none : none = Users!NoLogin
  OBVIOUS
<1>2. UNCHANGED <<users, hashes, shared, loaded, sessions, sessionFile, issued, lapsed, kept, ended, left>>
  BY DEF Users!LoginPost, Users!LoginForm, Users!LoginChecked, Users!accounts, Users!store, Users!history
<1>3. /\ hashes \in Nat /\ shared \in 0 .. hashes /\ logIn \in [Browsers -> LogIns(hashes)] /\ logIn[b] \in LogIns(hashes)
      /\ failures \in Nat /\ Limit \in Nat \ {0} /\ failures + Cardinality(Attempts) <= Limit + Cardinality(Browsers) - 1
  BY ServerAssumption DEF UserInv, UserType, LimitInv
<1>4. none \in LogIns(hashes) /\ none.at = "idle" /\ none.user = NoOne
  BY <1>1, <1>3 DEF Users!NoLogin, LogIns
<1>5. /\ Cardinality(Browsers) \in Nat /\ IsFiniteSet(Attempts) /\ Cardinality(Attempts) \in Nat
      /\ Cardinality(Attempts) <= Cardinality(Browsers)
  BY AttemptsCounted
<1>6. ASSUME logIn' \in [Browsers -> LogIns(hashes)] PROVE Attempts' \subseteq Browsers /\ Cardinality(Attempts') \in Nat
              /\ Cardinality(Attempts') <= Cardinality(Browsers)
  <2>1. IsFiniteSet(Browsers) /\ Attempts' \subseteq Browsers
    BY ServerAssumption DEF Attempts
  <2> QED
    BY <2>1, FS_Subset, FS_CardinalityType
<1>7. CASE Users!LoginPost(b)
  <2>1. failures < Limit /\ failures' = failures /\ logIn' = [logIn EXCEPT ![b] = [none EXCEPT !.at = "form"]]
    BY <1>1, <1>7 DEF Users!LoginPost, Users!Goto
  <2>2. [none EXCEPT !.at = "form"] \in LogIns(hashes)
    BY <1>4 DEF LogIns
  <2>3. logIn' \in [Browsers -> LogIns(hashes)]
    BY <1>3, <2>1, <2>2
  <2>4. LimitInv'
    BY <1>3, <1>5, <1>6, <2>1, <2>3 DEF LimitInv
  <2> QED
    BY <1>2, <2>1, <2>2, <2>4, LoginMoves
<1>8. CASE Users!LoginForm(b)
  <2>1. PICK name \in Names : /\ logIn[b].at = "form" /\ failures' = failures
                              /\ Users!Goto(b, IF Users!HasUsers THEN [none EXCEPT !.at = "account", !.user = name]
                                               ELSE [none EXCEPT !.at = "shared"])
    BY <1>1, <1>8 DEF Users!LoginForm
  <2>2. PICK l : l = IF Users!HasUsers THEN [none EXCEPT !.at = "account", !.user = name] ELSE [none EXCEPT !.at = "shared"]
    OBVIOUS
  <2>3. logIn' = [logIn EXCEPT ![b] = l]
    BY <2>1, <2>2 DEF Users!Goto
  <2>4. l \in LogIns(hashes) /\ l.at \in {"account", "shared"}
    <3>1. l = [none EXCEPT !.at = "account", !.user = name] \/ l = [none EXCEPT !.at = "shared"]
      BY <2>2
    <3> QED
      BY <1>4, <3>1 DEF LogIns
  <2>5. Attempts' = Attempts
    BY <1>3, <2>1, <2>3, <2>4 DEF Attempts
  <2>6. LimitInv'
    BY <2>1, <2>5 DEF UserInv, LimitInv
  <2> QED
    BY <1>2, <2>3, <2>4, <2>6, LoginMoves
<1>9. CASE Users!LoginChecked(b)
  <2>1. b \in Attempts
    BY <1>9 DEF Users!LoginChecked, Attempts
  <2>2. \/ /\ failures' = 0 /\ (logIn[b].at = "account" => logIn[b].user \in DOMAIN users)
           /\ Users!Goto(b, [at |-> "create", user |-> logIn[b].user,
                              hash |-> IF logIn[b].at = "account" THEN users[logIn[b].user].hash ELSE shared])
        \/ failures' = failures + 1 /\ Users!Goto(b, none)
    BY <1>1, <1>9 DEF Users!LoginChecked
  <2>3. CASE failures' = failures + 1 /\ Users!Goto(b, none)
    <3>1. logIn' = [logIn EXCEPT ![b] = none]
      BY <2>3 DEF Users!Goto
    <3>2. Attempts' = Attempts \ {b}
      BY <1>3, <1>4, <3>1 DEF Attempts
    <3>3. Cardinality(Attempts') = Cardinality(Attempts) - 1
      BY <1>5, <2>1, <3>2, FS_RemoveElement
    <3>4. LimitInv'
      BY <1>3, <1>5, <2>3, <3>3 DEF LimitInv
    <3> QED
      BY <1>2, <1>4, <3>1, <3>4, LoginMoves
  <2>4. CASE /\ failures' = 0 /\ (logIn[b].at = "account" => logIn[b].user \in DOMAIN users)
             /\ Users!Goto(b, [at |-> "create", user |-> logIn[b].user,
                                hash |-> IF logIn[b].at = "account" THEN users[logIn[b].user].hash ELSE shared])
    <3>1. PICK h : h = IF logIn[b].at = "account" THEN users[logIn[b].user].hash ELSE shared
      OBVIOUS
    <3>2. h \in 0 .. hashes
      BY <1>3, <2>4, <3>1 DEF UserInv, UserType, Accts
    <3>3. PICK l : l = [at |-> "create", user |-> logIn[b].user, hash |-> h]
      OBVIOUS
    <3>4. l \in LogIns(hashes)
      BY <1>3, <3>2, <3>3 DEF LogIns
    <3>5. logIn' = [logIn EXCEPT ![b] = l]
      BY <2>4, <3>1, <3>3 DEF Users!Goto
    <3>6. logIn' \in [Browsers -> LogIns(hashes)]
      BY <1>3, <3>4, <3>5
    <3>7. LimitInv'
      BY <1>3, <1>5, <1>6, <2>4, <3>6 DEF LimitInv
    <3> QED
      BY <1>2, <3>4, <3>5, <3>7, LoginMoves
  <2> QED
    BY <2>2, <2>3, <2>4
<1> QED
  BY <1>7, <1>8, <1>9

LEMMA UserRestarts == UserInv /\ Users!Restart => UserInv'
<1> SUFFICES ASSUME UserInv, Users!Restart PROVE UserInv'
  OBVIOUS
<1>1. PICK none : none = Users!NoLogin
  OBVIOUS
<1>2. /\ loaded' = FALSE /\ sessions' = Users!Empty /\ failures' = 0 /\ logIn' = [b \in Browsers |-> none]
      /\ UNCHANGED <<users, sessionFile, issued, lapsed, left>>
  BY <1>1 DEF Users!Restart
<1>3. DOMAIN sessions' = {}
  BY <1>2 DEF Users!Empty
<1>4. \/ UNCHANGED <<shared, hashes, kept, ended>>
      \/ /\ hashes < MaxHashes /\ hashes' = hashes + 1 /\ shared' = hashes + 1 /\ kept' = {} /\ ended' = ended \cup kept
  BY DEF Users!Restart
<1>5. hashes \in Nat /\ hashes \in 0 .. MaxHashes /\ MaxHashes \in Nat /\ shared \in 0 .. hashes
  BY ServerAssumption DEF UserInv, UserType
<1>6. hashes' \in 0 .. MaxHashes /\ shared' \in 0 .. hashes' /\ 0 .. hashes \subseteq 0 .. hashes'
  BY <1>4, <1>5
<1>7. none \in LogIns(hashes') /\ none.at = "idle"
  BY <1>1, <1>6 DEF Users!NoLogin, LogIns
<1>8. \A r : /\ r \in SessionRecords(hashes) => r \in SessionRecords(hashes')
             /\ r \in Accts(hashes) => r \in Accts(hashes')
  BY <1>6 DEF SessionRecords, Accts
<1>9. UserType'
  <2>1. kept' \subseteq 1 .. issued /\ ended' \subseteq 1 .. issued
    BY <1>4 DEF UserInv, UserType
  <2>2. logIn' \in [Browsers -> LogIns(hashes')]
    BY <1>2, <1>7
  <2> QED
    BY <1>2, <1>3, <1>6, <1>8, <2>1, <2>2 DEF UserInv, UserType
<1>10. MemoryInv'
  BY <1>3 DEF MemoryInv
<1>11. KeptInv'
  BY <1>2, <1>4 DEF UserInv, KeptInv
<1>12. EndedInv'
  <2>1. \A t \in DOMAIN sessionFile : Dead(users, sessionFile[t]) => Dead(users, sessionFile[t])'
    <3>1. \A t \in DOMAIN sessionFile : sessionFile[t].password \in 0 .. hashes
      BY DEF UserInv, UserType, SessionRecords
    <3> QED
      BY <1>2, <1>4, <1>5, <3>1 DEF Dead
  <2>2. CASE UNCHANGED <<shared, hashes, kept, ended>>
    BY <1>2, <1>3, <2>1, <2>2 DEF UserInv, EndedInv
  <2>3. CASE shared' = hashes + 1
    <3>1. \A t \in DOMAIN sessionFile : sessionFile[t].password # hashes + 1
      BY <1>5 DEF UserInv, UserType, SessionRecords
    <3> QED
      BY <1>2, <1>3, <2>3, <3>1 DEF EndedInv, Dead
  <2> QED
    BY <1>4, <2>2, <2>3
<1>14. FileInv'
  BY <1>2 DEF FileInv
<1>13. LimitInv'
  <2>1. Attempts' = {}
    BY <1>2, <1>7 DEF Attempts
  <2>2. Cardinality(Attempts') = 0
    BY <2>1, FS_EmptySet
  <2> QED
    BY <1>2, <2>2, AttemptsCounted, ServerAssumption DEF LimitInv
<1> QED
  BY <1>9, <1>10, <1>11, <1>12, <1>13, <1>14 DEF UserInv

LEMMA UserTime == UserInv /\ (Users!WindowPasses \/ Users!Lapse) => UserInv'
<1> SUFFICES ASSUME UserInv, Users!WindowPasses \/ Users!Lapse PROVE UserInv'
  OBVIOUS
<1>1. CASE Users!WindowPasses
  <2>1. /\ \E n \in 0 .. failures - 1 : failures' = n
        /\ UNCHANGED <<users, hashes, shared, loaded, sessions, sessionFile, issued, lapsed, faults, logIn, kept, ended, left>>
    BY <1>1 DEF Users!WindowPasses, Users!accounts, Users!store, Users!history
  <2>2. Attempts' = Attempts
    BY <2>1 DEF Attempts
  <2>3. LimitInv'
    BY <2>1, <2>2, AttemptsCounted, ServerAssumption DEF UserInv, LimitInv
  <2>4. UserType' /\ MemoryInv' /\ FileInv' /\ EndedInv' /\ KeptInv'
    BY <2>1 DEF UserInv, UserType, MemoryInv, FileInv, EndedInv, KeptInv, Dead
  <2> QED
    BY <2>3, <2>4 DEF UserInv
<1>2. CASE Users!Lapse
  <2>1. PICK t \in (1 .. issued) \ lapsed : lapsed' = lapsed \cup {t} /\ kept' = kept \ {t} /\ ended' = ended \cup {t}
    BY <1>2 DEF Users!Lapse
  <2>2. UNCHANGED <<users, hashes, shared, loaded, sessions, sessionFile, issued, faults, logIn, failures, left>>
    BY <1>2 DEF Users!Lapse, Users!accounts
  <2>3. UserType' /\ MemoryInv' /\ FileInv'
    BY <2>1, <2>2 DEF UserInv, UserType, MemoryInv, FileInv
  <2>4. EndedInv' /\ KeptInv'
    BY <2>1, <2>2 DEF UserInv, EndedInv, KeptInv, Dead
  <2>5. LimitInv'
    BY <2>2 DEF UserInv, LimitInv, Attempts
  <2> QED
    BY <2>3, <2>4, <2>5 DEF UserInv
<1> QED
  BY <1>1, <1>2

LEMMA UserStep == UserInv /\ [Users!Next]_Users!vars => UserInv'
<1> SUFFICES ASSUME UserInv, [Users!Next]_Users!vars PROVE UserInv'
  OBVIOUS
<1>1. CASE UNCHANGED Users!vars
  <2>1. UNCHANGED <<users, hashes, shared, loaded, sessions, sessionFile, issued, lapsed, faults, logIn, failures, kept, ended, left>>
    BY <1>1 DEF Users!vars, Users!accounts, Users!store, Users!history
  <2>2. LimitInv'
    BY <2>1 DEF UserInv, LimitInv, Attempts
  <2> QED
    BY <2>1, <2>2 DEF UserInv, UserType, MemoryInv, FileInv, EndedInv, KeptInv, Dead
<1> QED
  BY <1>1, UserCommand, UserCreate, UserReads, UserLogsIn, UserRestarts, UserTime DEF Users!Next

\* What ended a session (a logout that was answered, its expiry, a new password, the removal of its
\* account, another shared password) ended it for good, in memory and on disk and across restarts,
\* unless the save of an earlier logout of it failed and no save has succeeded since; and nothing else
\* ends one (LoginSessions, session_identity).
THEOREM SessionsStay == Users!Spec => []SessionsExact
<1>1. UserInv => SessionsExact
  <2> SUFFICES ASSUME UserInv PROVE SessionsExact
    OBVIOUS
  <2>1. PICK v : v = Users!View
    OBVIOUS
  <2>2. IsView(v) /\ (loaded => v = sessions)
    BY <2>1, ViewKnown
  <2>3. Users!TypeOK
    <3>1. hashes \in 0 .. MaxHashes /\ issued \in 0 .. MaxTokens /\ 0 .. hashes \subseteq 0 .. MaxHashes
          /\ 1 .. issued \subseteq 1 .. MaxTokens
      BY ServerAssumption DEF UserInv, UserType
    <3>2. /\ \A r \in SessionRecords(hashes) : r \in Users!Records
          /\ \A r \in Accts(hashes) : r \in [role : {"admin", "viewer"}, hash : Users!Hashes]
      BY <3>1 DEF SessionRecords, Accts, Users!Records, Users!Hashes
    <3>3. failures \in 0 .. Limit + Cardinality(Browsers) - 1
      BY AttemptsCounted, ServerAssumption DEF UserInv, LimitInv
    <3>4. \A b \in Browsers : logIn[b].at \in {"idle", "form", "account", "shared", "create"}
      BY DEF UserInv, UserType, LogIns
    <3>5. \A f \in {sessions, sessionFile} : DOMAIN f \subseteq Users!Tokens /\ \A t \in DOMAIN f : f[t] \in Users!Records
      BY <3>1, <3>2 DEF UserInv, UserType, Users!Tokens
    <3>6. DOMAIN users \subseteq Names /\ \A n \in DOMAIN users : users[n] \in [role : {"admin", "viewer"}, hash : Users!Hashes]
      BY <3>2 DEF UserInv, UserType
    <3>7. Users!Cardinality(Browsers) = Cardinality(Browsers)
      BY DEF Users!Cardinality, Cardinality
    <3> QED
      BY <3>3, <3>4, <3>5, <3>6, <3>7 DEF Users!TypeOK
  <2>4. \A t : Users!Live(t) <=> /\ t \in DOMAIN v \ lapsed /\ Stands(users, v[t])
                                 /\ (v[t].user = NoOne => ~Users!HasUsers)
    <3> SUFFICES ASSUME NEW t PROVE Users!Live(t) <=> /\ t \in DOMAIN v \ lapsed /\ Stands(users, v[t])
                                                      /\ (v[t].user = NoOne => ~Users!HasUsers)
      OBVIOUS
    <3>1. NoOne # "admin" /\ \A n \in DOMAIN users : users[n].role # NoOne
      BY ServerAssumption DEF UserInv, UserType, Accts
    <3>2. CASE t \notin DOMAIN v \ lapsed
      BY <2>1, <3>2 DEF Users!Live, Users!Identity
    <3>3. CASE t \in DOMAIN v \ lapsed /\ v[t].user = NoOne
      BY <2>1, <3>1, <3>3 DEF Users!Live, Users!Identity, Stands
    <3>4. CASE t \in DOMAIN v \ lapsed /\ v[t].user # NoOne
      BY <2>1, <3>1, <3>4 DEF Users!Live, Users!Identity, Stands
    <3> QED
      BY <3>2, <3>3, <3>4
  <2>5. Users!EndedIsSaved
    <3> SUFFICES ASSUME NEW t \in ended \ left PROVE ~Users!Live(t)
      BY DEF Users!EndedIsSaved
    <3>1. t \in DOMAIN v \ lapsed => ~Stands(users, v[t])
      BY <2>2 DEF IsView, Dead
    <3> QED
      BY <2>4, <3>1
  <2>6. Users!KeptIsLive
    <3> SUFFICES ASSUME NEW t \in kept PROVE Users!Live(t) \/ (v[t].user = NoOne /\ Users!HasUsers)
      BY <2>1 DEF Users!KeptIsLive
    <3>1. t \in DOMAIN v \ lapsed /\ Stands(users, v[t])
      BY <2>2 DEF UserInv, KeptInv, IsView
    <3> QED
      BY <2>4, <3>1
  <2> QED
    BY <2>3, <2>5, <2>6 DEF SessionsExact
<1> QED
  BY <1>1, UserInit, UserStep, PTL DEF Users!Spec
=============================================================================
